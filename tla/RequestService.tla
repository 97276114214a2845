--------------------------- MODULE RequestService ---------------------------
(***************************************************************************)
(* What CTAPHID promises its hosts of their CBOR requests, without tasks,  *)
(* channels, locks, claims and USB: one request is served at a time, it is *)
(* answered at most once and by its own answer, the answer of a cancelled  *)
(* request says so, and a request that was given up is never answered.     *)
(***************************************************************************)
EXTENDS Naturals

CONSTANTS Host,      \* who may have a request
          None,      \* nobody
          FullAnswer \* the reports of a full answer

VARIABLES stage,     \* "none", "waiting" or "taken"
          host,      \* whose request it is
          cancelled, \* the host has cancelled it
          sending,   \* "nothing" or the message on its way to the host
          reports    \* the reports of it that are out

service == <<stage, host, cancelled, sending, reports>>
-----------------------------------------------------------------------------
Nothing == "nothing"
Answer  == {"CBOR", "CANCELLED"}
Length(message) == IF message = "CBOR" THEN FullAnswer ELSE 1

Init == /\ stage = "none" /\ host = None /\ cancelled = FALSE
        /\ sending = Nothing /\ reports = 0

\* A request is complete; there was none.
Arrive(h) ==
    /\ stage = "none"
    /\ stage' = "waiting" /\ host' = h
    /\ UNCHANGED <<cancelled, sending, reports>>

Take ==
    /\ stage = "waiting"
    /\ stage' = "taken"
    /\ UNCHANGED <<host, cancelled, sending, reports>>

\* Once a message to the host has begun a cancel comes too late.
Cancel ==
    /\ stage # "none" /\ sending = Nothing
    /\ cancelled' = TRUE
    /\ UNCHANGED <<stage, host, sending, reports>>

\* Keepalives and the result are for a request that is not cancelled.
Begin(message) ==
    /\ stage = "taken" /\ sending = Nothing
    /\ cancelled = (message = "CANCELLED")
    /\ sending' = message /\ reports' = 0
    /\ UNCHANGED <<stage, host, cancelled>>

Report ==
    /\ sending # Nothing /\ reports < Length(sending)
    /\ reports' = reports + 1
    /\ UNCHANGED <<stage, host, cancelled, sending>>

KeepaliveOver ==
    /\ sending = "KEEPALIVE"
    /\ sending' = Nothing /\ reports' = 0
    /\ UNCHANGED <<stage, host, cancelled>>

\* The answer is out, or the bus has refused the rest of it.
Answered ==
    /\ sending \in Answer
    /\ stage' = "none" /\ host' = None /\ cancelled' = FALSE
    /\ sending' = Nothing /\ reports' = 0

\* The host starts over, the connection ends or everything is reset.
GiveUp ==
    /\ stage # "none" /\ sending = Nothing
    /\ stage' = "none" /\ host' = None /\ cancelled' = FALSE
    /\ UNCHANGED <<sending, reports>>

Next ==
    \/ \E h \in Host : Arrive(h)
    \/ Take \/ Cancel
    \/ \E message \in Answer \cup {"KEEPALIVE"} : Begin(message)
    \/ Report \/ KeepaliveOver \/ Answered \/ GiveUp

Spec == Init /\ [][Next]_service
=============================================================================
