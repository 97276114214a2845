--------------------------- MODULE Authenticator ---------------------------
(***************************************************************************)
(* What an authenticator promises for a request, without work area, steps, *)
(* failing calls and tests for a cancel: it makes and signs nothing before *)
(* the user consents to this very request, it says of its credentials what *)
(* the request's list calls for and no more than the user allows, a        *)
(* cancelled request is told so, and one that was given up is told nothing.*)
(* It may fail to know one of its credentials again; what it says is then  *)
(* what the list calls for without that one.                               *)
(***************************************************************************)
EXTENDS Naturals, Sequences

CONSTANTS Own,      \* the device's credentials for the relying party
          New,      \* the one that makeCredential makes
          Info,     \* what getInfo tells
          None,     \* no body, no signature
          Commands, \* what may be asked
          NameLists \* the lists of credentials a request may come with

VARIABLES serving,   \* there is a request
          command,   \* what it asks
          list,      \* the credentials it excludes or allows
          overlooked,\* those of them the device failed to recognise
          cancelled, \* the host has cancelled it
          given_up,  \* nobody waits for its answer
          present,   \* the user has consented to it
          answer     \* what the last request was told

promise == <<serving, command, list, overlooked, cancelled, given_up, present,
             answer>>
-----------------------------------------------------------------------------
Message(status, body) == [status |-> status, body |-> body]
Refusal(status) == Message(status, None)
Nothing == Refusal("none")

Recognised(i) == list[i] \in Own /\ i \notin overlooked

Knows == \E i \in 1..Len(list) : Recognised(i)

\* The first of the device's credentials in the list.
Chosen(id) ==
    \E i \in 1..Len(list) :
        /\ list[i] = id
        /\ Recognised(i)
        /\ \A j \in 1..(i - 1) : ~Recognised(j)

\* Only a request that could be granted is put to the user; that a
\* credential is excluded is for the user to allow.
Asks == command = "make" \/ (command = "get" /\ Knows)

Excluded == command = "make" /\ Knows

\* What a request may get.
Granted(m) ==
    \/ /\ command = "make" /\ present /\ ~Knows
       /\ m = Message("OK", [id |-> New, signature |-> None])
    \/ /\ command = "get" /\ present
       /\ \E id \in Own : /\ Chosen(id)
                          /\ m = Message("OK", [id |-> id, signature |-> id])
    \/ /\ command = "info"
       /\ m = Message("OK", Info)

\* What it may be refused with.  An exclusion the user was present for is
\* told as such.
Refused(m) ==
    \/ /\ m = Refusal("INVALID") /\ ~present
    \/ /\ m = Refusal("CREDENTIAL_EXCLUDED")
       /\ Excluded /\ present
    \/ /\ m = Refusal("NO_CREDENTIALS")
       /\ command = "get" /\ ~Knows /\ ~present
    \/ /\ m \in {Refusal("USER_ACTION_TIMEOUT"), Refusal("OPERATION_DENIED")}
       /\ Asks /\ ~present
    \/ /\ m = Refusal("KEEPALIVE_CANCEL")
       /\ Asks /\ ~(Excluded /\ present)
    \/ /\ m = Refusal("OTHER")
       /\ command \in {"make", "get", "info"} /\ ~(Excluded /\ present)

-----------------------------------------------------------------------------
Init == /\ serving = FALSE /\ command \in Commands /\ list = <<>>
        /\ overlooked = {}
        /\ cancelled = FALSE /\ given_up = FALSE /\ present = FALSE
        /\ answer = Nothing

Ask(cmd, names) ==
    /\ ~serving
    /\ serving' = TRUE /\ command' = cmd /\ list' = names
    /\ overlooked' = {}
    /\ cancelled' = FALSE /\ given_up' = FALSE /\ present' = FALSE
    /\ answer' = Nothing

\* A credential is overlooked before the request is put to the user.
Overlook(i) ==
    /\ serving /\ ~present
    /\ i \in 1..Len(list) /\ list[i] \in Own
    /\ overlooked' = overlooked \cup {i}
    /\ UNCHANGED <<serving, command, list, cancelled, given_up, present,
                   answer>>

Consent ==
    /\ serving /\ Asks
    /\ ~cancelled /\ ~given_up /\ ~present
    /\ present' = TRUE
    /\ UNCHANGED <<serving, command, list, overlooked, cancelled, given_up,
                   answer>>

Cancel ==
    /\ serving /\ ~cancelled
    /\ cancelled' = TRUE
    /\ UNCHANGED <<serving, command, list, overlooked, given_up, present,
                   answer>>

GiveUp ==
    /\ serving /\ ~given_up
    /\ given_up' = TRUE
    /\ UNCHANGED <<serving, command, list, overlooked, cancelled, present,
                   answer>>

Tell(m) ==
    /\ serving /\ ~given_up
    /\ serving' = FALSE /\ answer' = m
    /\ UNCHANGED <<command, list, overlooked, cancelled, given_up, present>>

Answer(m) == ~cancelled /\ (Granted(m) \/ Refused(m)) /\ Tell(m)

AnswerCancelled == cancelled /\ Tell(Refusal("KEEPALIVE_CANCEL"))

\* The answer could not be sent, or nobody is there to have it.
Silence ==
    /\ serving
    /\ serving' = FALSE /\ answer' = Nothing
    /\ UNCHANGED <<command, list, overlooked, cancelled, given_up, present>>

Statuses == {"OK", "INVALID", "OTHER", "CREDENTIAL_EXCLUDED", "NO_CREDENTIALS",
             "USER_ACTION_TIMEOUT", "OPERATION_DENIED", "KEEPALIVE_CANCEL"}

Bodies == {None, Info}
          \cup [id : Own \cup {New}, signature : Own \cup {None}]

Next ==
    \/ \E cmd \in Commands, names \in NameLists : Ask(cmd, names)
    \/ \E i \in 1..Len(list) : Overlook(i)
    \/ Consent \/ Cancel \/ GiveUp
    \/ \E status \in Statuses, body \in Bodies : Answer(Message(status, body))
    \/ AnswerCancelled \/ Silence

Spec == Init /\ [][Next]_promise
=============================================================================
