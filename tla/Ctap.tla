-------------------------------- MODULE Ctap --------------------------------
(***************************************************************************)
(* The request task of ctap_stub.c with the commands it dispatches:        *)
(* p4_ctap.c, p4_make_credential.c and p4_get_assertion.c.                 *)
(*                                                                         *)
(* A command is a line of steps each of which may fail.  Between them the  *)
(* command asks the transport whether the request was cancelled, and it    *)
(* waits for the user once.  The transport runs beside it: a cancel, a     *)
(* resynchronisation, a reset or a bus event may come at any point.        *)
(*                                                                         *)
(* What is abstracted: the request's CBOR (reading it gives an error or    *)
(* the list of credential descriptors), the waiting for the button (module *)
(* Press) and the opening of a credential ID (module Cred).  A descriptor  *)
(* is one of this device's credentials for this relying party, one that is *)
(* not, or one that is passed over for its type or length.  Which answers  *)
(* each may get is what module Cred shows of cred_open: it does not open   *)
(* another's, but it may fail with any, and it may disown one of its own.  *)
(* A scalar is named by the credential it belongs to.                      *)
(***************************************************************************)
EXTENDS Naturals, Sequences

CONSTANTS Own,        \* credentials of this device for the relying party
          New,        \* the one makeCredential makes
          Foreign,    \* a descriptor cred_open answers MISMATCH to
          Skipped,    \* a descriptor that is passed over
          Info,       \* the body of getInfo's answer
          None,       \* nothing, a cleared buffer
          MaxList     \* the descriptors a request may name

ASSUME CtapAssumption == /\ MaxList \in Nat
                         /\ New \notin Own
                         /\ None \notin Own \union {New}
                         /\ Foreign \notin Own
                         /\ Skipped \notin Own
                         /\ Foreign # Skipped
                         /\ Info # None

VARIABLES
  pc,             \* where the request is; "idle" when there is none
  command,        \* the request's command
  list,           \* its exclude or allow list
  index,          \* the descriptors looked at
  excluded,       \* makeCredential: one of them is this device's
  credential_id,  \* what the response will name
  private_scalar, \* work.private_scalar
  signature,      \* work.signature: the scalar it was made with
  response,       \* s_response behind the status byte
  reply,          \* status and body for hid_send_msg
  cancelled,      \* the transport's cancel flag for the request
  gone,           \* the transport has ended the request's claim
  overlooked,     \* history: the descriptors of own credentials it disowned
  presence,       \* history: the user was found present for this request
  late,           \* history: the operations begun after a cancel
  sent            \* history: the answer that went out for the request

work == <<credential_id, private_scalar, signature>>
vars == <<pc, command, list, overlooked, index, excluded, work, response,
          reply, cancelled, gone, presence, late, sent>>

Descriptors == Own \union {Foreign, Skipped}

Lists == UNION {[1..n -> Descriptors] : n \in 0..MaxList}

Body(id, sig) == [id |-> id, signature |-> sig]

(* A body is told from a cleared buffer, as it is by its length.           *)
ASSUME BodyAssumption ==
  \A id \in Own \union {New}, sig \in Own \union {None} : Body(id, sig) # None

(* INVALID stands for every status that says the request is malformed or   *)
(* not supported.                                                          *)
Message(status, body) == [status |-> status, body |-> body]

Init == /\ pc = "idle"
        /\ command = "make"
        /\ list = <<>>
        /\ overlooked = {}
        /\ index = 0
        /\ excluded = FALSE
        /\ credential_id = None
        /\ private_scalar = None
        /\ signature = None
        /\ response = None
        /\ reply = Message("none", None)
        /\ cancelled = FALSE
        /\ gone = FALSE
        /\ presence = FALSE
        /\ late = 0
        /\ sent = Message("none", None)

----------------------------------------------------------------------------
(* Pieces the steps are made of.                                           *)

transport == <<cancelled, gone>>
request   == <<command, list, overlooked>>
history   == <<presence, late, sent>>

(* What hid_cancelled may answer; without the core mutex it answers TRUE.  *)
Answers == {cancelled \/ gone, TRUE}

Goto(label) == pc' = label

LeaveKeepingScalar(status) ==
  /\ pc' = "send"
  /\ reply' = Message(status, IF status = "OK" THEN response ELSE None)
  /\ credential_id' = None
  /\ signature' = None
  /\ UNCHANGED <<private_scalar, excluded, index>>

(* The label out of both commands, and what p4_ctap_dispatch makes of the  *)
(* status: the work area is cleared, and a body is sent only with OK.      *)
Leave(status) ==
  /\ pc' = "send"
  /\ reply' = Message(status, IF status = "OK" THEN response ELSE None)
  /\ credential_id' = None
  /\ private_scalar' = None
  /\ signature' = None
  /\ UNCHANGED <<excluded, index>>

Counted == late' = IF cancelled \/ gone THEN late + 1 ELSE late

----------------------------------------------------------------------------
(* hid_take_msg gives the task a request; p4_ctap_dispatch answers one that *)
(* is neither makeCredential nor getAssertion at once.                     *)

Commands == {"make", "get", "info", "unknown", "empty"}

Receive(cmd, descriptors) ==
  /\ pc = "idle"
  /\ cmd \in {"make", "get"} \/ descriptors = <<>>
  /\ pc' = "read"
  /\ command' = cmd
  /\ list' = descriptors
  /\ overlooked' = {}
  /\ index' = 0
  /\ excluded' = FALSE
  /\ cancelled' = FALSE
  /\ gone' = FALSE
  /\ presence' = FALSE
  /\ late' = 0
  /\ sent' = Message("none", None)
  /\ UNCHANGED <<work, response, reply>>

(* getInfo takes no parameters and writes a constant; when that fails a    *)
(* part of it may be in the buffer.                                        *)
Dispatch ==
  /\ pc = "read"
  /\ pc' = "send"
  /\ \/ /\ command = "info"
        /\ response' = Info
        /\ reply' \in {Message("OK", Info), Message("OTHER", None)}
     \/ /\ command \in {"info", "unknown", "empty"}
        /\ reply' = Message("INVALID", None)
        /\ UNCHANGED response
  /\ UNCHANGED <<request, index, excluded, work, transport, history>>

(* read_request, then the hash of the relying party's ID.                  *)
Read == /\ pc = "read"
        /\ command \in {"make", "get"}
        /\ \/ /\ Goto("list")
              /\ UNCHANGED <<index, excluded, work, reply>>
           \/ Leave("INVALID")
           \/ Leave("OTHER")
        /\ UNCHANGED <<request, response, transport, history>>

----------------------------------------------------------------------------
(* check_exclude and find_cred: one descriptor a step.                     *)

Item == list[index + 1]

More == pc = "list" /\ index < Len(list)

(* An own credential is answered MISMATCH too when the library refuses the *)
(* scalar that was decrypted from it; both loops then go on as with one    *)
(* that is not this device's.                                              *)
Opens(answer) ==
  CASE Item \in Own -> answer \in {"OK", "MISMATCH", "ERROR"}
    [] Item = Foreign -> answer \in {"MISMATCH", "ERROR"}
    [] OTHER -> FALSE

Overlooks(answer) ==
  overlooked' = IF Item \in Own /\ answer = "MISMATCH"
                THEN overlooked \union {index + 1} ELSE overlooked

SkipInPlace == /\ More
               /\ Item = Skipped
               /\ UNCHANGED vars

Skip == /\ More
        /\ Item = Skipped
        /\ index' = index + 1
        /\ UNCHANGED <<pc, request, excluded, work, response, reply, transport,
                       history>>

OpenError == /\ More
             /\ Opens("ERROR")
             /\ Leave("OTHER")
             /\ UNCHANGED <<request, response, transport, history>>

ExcludedByLast(matches) == matches

Excluded(matches) == excluded \/ matches

(* The whole list is tried, and every scalar that opens is cleared.        *)
CheckExclude ==
  /\ More
  /\ command = "make"
  /\ \E answer \in {"OK", "MISMATCH"} :
        /\ Opens(answer)
        /\ excluded' = Excluded(answer = "OK")
        /\ Overlooks(answer)
  /\ index' = index + 1
  /\ UNCHANGED <<pc, command, list, work, response, reply, transport, history>>

(* The first that opens is taken, with its scalar.                         *)
FindCred ==
  /\ More
  /\ command = "get"
  /\ \/ /\ Opens("OK")
        /\ Goto("press")
        /\ credential_id' = Item
        /\ private_scalar' = Item
        /\ UNCHANGED <<overlooked, index, signature>>
     \/ /\ Opens("MISMATCH")
        /\ Overlooks("MISMATCH")
        /\ index' = index + 1
        /\ UNCHANGED <<pc, work>>
  /\ UNCHANGED <<command, list, excluded, response, reply, transport, history>>

ListEndTellingEarly ==
  /\ pc = "list"
  /\ index = Len(list)
  /\ \/ /\ command = "make" /\ ~excluded
        /\ Goto("press")
        /\ UNCHANGED <<index, excluded, work, reply>>
     \/ /\ command = "make" /\ excluded
        /\ Leave("CREDENTIAL_EXCLUDED")
     \/ /\ command = "get"
        /\ Leave("NO_CREDENTIALS")
  /\ UNCHANGED <<request, response, transport, history>>

ListEnd ==
  /\ pc = "list"
  /\ index = Len(list)
  /\ \/ /\ command = "make"
        /\ Goto("press")
        /\ UNCHANGED <<index, excluded, work, reply>>
     \/ /\ command = "get"
        /\ Leave("NO_CREDENTIALS")
  /\ UNCHANGED <<request, response, transport, history>>

----------------------------------------------------------------------------
(* presence_status.  press_wait accepts no press for a request that is     *)
(* cancelled (CancelPrompt of Press); it may answer CANCEL to any other.   *)
PressOK == /\ pc = "press"
           /\ ~cancelled /\ ~gone
           /\ Goto("pressed")
           /\ presence' = TRUE
           /\ UNCHANGED <<request, index, excluded, work, response, reply,
                          transport, late, sent>>

PressFails == /\ pc = "press"
              /\ \E status \in {"KEEPALIVE_CANCEL", "USER_ACTION_TIMEOUT",
                                "OPERATION_DENIED"} : Leave(status)
              /\ UNCHANGED <<request, response, transport, history>>

(* That a credential is excluded is told to a present user only.           *)
Pressed == /\ pc = "pressed"
           /\ \/ /\ excluded
                 /\ Leave("CREDENTIAL_EXCLUDED")
              \/ /\ ~excluded
                 /\ Goto("check1")
                 /\ UNCHANGED <<index, excluded, work, reply>>
           /\ UNCHANGED <<request, response, transport, history>>

----------------------------------------------------------------------------
(* press_cancelled between the steps.                                      *)

CancelPoint(label, next) ==
  /\ pc = label
  /\ \E answer \in Answers :
        \/ answer /\ Leave("KEEPALIVE_CANCEL")
        \/ ~answer /\ Goto(next) /\ UNCHANGED <<index, excluded, work, reply>>
  /\ UNCHANGED <<request, response, transport, history>>

Check1 == CancelPoint("check1", "first")

Check2Forgotten ==
  /\ pc = "check2"
  /\ Goto("second")
  /\ UNCHANGED <<request, index, excluded, work, response, reply, transport,
                 history>>

Check2 == CancelPoint("check2", "second")
Check3 == CancelPoint("check3", "encode")

(* makeCredential: p256_make, then cred_wrap.                              *)
Generate == /\ pc = "first" /\ command = "make"
            /\ Counted
            /\ \/ /\ private_scalar' = New
                  /\ Goto("check2")
                  /\ UNCHANGED <<index, excluded, credential_id, signature,
                                 reply>>
               \/ Leave("OTHER")
            /\ UNCHANGED <<request, response, transport, presence, sent>>

WrapKey == /\ pc = "second" /\ command = "make"
           /\ Counted
           /\ \/ /\ credential_id' = private_scalar
                 /\ private_scalar' = None
                 /\ Goto("check3")
                 /\ UNCHANGED <<index, excluded, signature, reply>>
              \/ Leave("OTHER")
           /\ UNCHANGED <<request, response, transport, presence, sent>>

(* getAssertion: the hash of what is signed, then the signature.           *)
Digest == /\ pc = "first" /\ command = "get"
          /\ Counted
          /\ \/ /\ Goto("check2")
                /\ UNCHANGED <<index, excluded, work, reply>>
             \/ Leave("OTHER")
          /\ UNCHANGED <<request, response, transport, presence, sent>>

Sign == /\ pc = "second" /\ command = "get"
        /\ Counted
        /\ \/ /\ signature' = private_scalar
              /\ private_scalar' = None
              /\ Goto("check3")
              /\ UNCHANGED <<index, excluded, credential_id, reply>>
           \/ Leave("OTHER")
        /\ UNCHANGED <<request, response, transport, presence, sent>>

(* put_response; one that fails may leave a part of it in the buffer.      *)
Encode == /\ pc = "encode"
          /\ response' = Body(credential_id, signature)
          /\ \/ /\ Goto("check4")
                /\ UNCHANGED <<index, excluded, work, reply>>
             \/ Leave("OTHER")
          /\ UNCHANGED <<request, transport, history>>

(* A cancel that is noticed last takes the finished response back.         *)
Check4 == /\ pc = "check4"
          /\ \E answer \in Answers :
                \/ answer /\ Leave("KEEPALIVE_CANCEL") /\ response' = None
                \/ ~answer /\ Leave("OK") /\ UNCHANGED response
          /\ UNCHANGED <<request, transport, history>>

----------------------------------------------------------------------------
(* hid_send_msg: without the core mutex or the claim nothing goes out, and *)
(* a request cancelled until then is answered so.  The buffer is cleared   *)
(* in any case.                                                            *)

Sends == IF cancelled THEN Message("KEEPALIVE_CANCEL", None) ELSE reply

Send == /\ pc = "send"
        /\ Goto("idle")
        /\ \/ ~gone /\ sent' = Sends
           \/ sent' = Message("none", None)
        /\ response' = None
        /\ reply' = Message("none", None)
        /\ UNCHANGED <<request, index, excluded, work, transport, presence,
                       late>>

(* The transport.                                                          *)
CancelArrives == /\ pc # "idle" /\ ~cancelled
                 /\ cancelled' = TRUE
                 /\ UNCHANGED <<pc, request, index, excluded, work, response,
                                reply, gone, history>>

ClaimEnds == /\ pc # "idle" /\ ~gone
             /\ gone' = TRUE
             /\ UNCHANGED <<pc, request, index, excluded, work, response,
                            reply, cancelled, history>>

Command == \/ Dispatch \/ Read
           \/ Skip \/ OpenError \/ CheckExclude \/ FindCred \/ ListEnd
           \/ PressOK \/ PressFails \/ Pressed
           \/ Check1 \/ Generate \/ Digest
           \/ Check2 \/ WrapKey \/ Sign
           \/ Check3 \/ Encode \/ Check4
           \/ Send

Next == \/ \E cmd \in Commands, descriptors \in Lists :
              Receive(cmd, descriptors)
        \/ Command
        \/ CancelArrives
        \/ ClaimEnds

Spec == Init /\ [][Next]_vars

(* The task's own steps return: every lock is waited for with a limit, and *)
(* press_wait ends by its timeout.                                         *)
FairSpec == Spec /\ WF_vars(Command)

----------------------------------------------------------------------------
(* Properties.                                                             *)

(* Nothing that takes the user's consent happens before it is given for    *)
(* this very request: no key is made, no signature, and the host is not    *)
(* told that a credential is excluded.                                     *)
PresenceFirst ==
  /\ New \in {private_scalar, credential_id} => presence
  /\ signature # None => presence
  /\ response \notin {None, Info} => presence
  /\ /\ command \in {"make", "get"}
     /\ sent.status \in {"OK", "CREDENTIAL_EXCLUDED"}
     => presence

(* Once the host has cancelled, or the transport has let the request go, at*)
(* most the one operation begins that had passed its test before.          *)
CancelStopsWork == late <= 1

(* The commands implement Authenticator: whichever step fails and wherever *)
(* a cancel comes, the request is told what its list and its user call for,*)
(* once; a body goes out whole and with OK, and not to a request that was  *)
(* cancelled or let go before the transport's own last look.  What the list*)
(* calls for is told by the credentials cred_open knew again: one that it  *)
(* disowned is made once more or passed over, and no other.                *)
Contract == INSTANCE Authenticator
            WITH serving <- pc # "idle", given_up <- gone,
                 present <- presence, answer <- sent, NameLists <- Lists

ImplementsAuthenticator == Contract!Spec

(* Whatever failed, the end of a command leaves no key and no signature in *)
(* the work area, and the end of a request none in the response buffer.    *)
NothingLeft ==
  /\ pc \in {"idle", "read", "send"} =>
        /\ private_scalar = None /\ signature = None /\ credential_id = None
  /\ pc = "idle" => response = None

(* Every request the task took is done with, so that it takes the next.    *)
CommandEnds == (pc # "idle") ~> (pc = "idle")
=============================================================================
