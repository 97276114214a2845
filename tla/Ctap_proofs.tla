----------------------------- MODULE Ctap_proofs -----------------------------
(* Proofs about makeCredential and getAssertion for any credentials and    *)
(* lists of any length.                                                    *)
EXTENDS Ctap, TLAPS

Labels == {"idle", "read", "list", "press", "pressed", "check1", "first",
           "check2", "second", "check3", "encode", "check4", "send"}

Before == {"idle", "read", "list", "press"}

(* A descriptor that cred_open knew, or would know, for this device's.     *)
Recognised(i) == list[i] \in Own /\ i \notin overlooked

KnownAs(id) == \E i \in 1..Len(list) : list[i] = id /\ Recognised(i)

Known == \E i \in 1..Len(list) : Recognised(i)

(* The list and how far it has been looked at.                             *)
ListInv ==
  /\ command \in Commands
  /\ list \in Seq(Descriptors)
  /\ index \in 0..Len(list)
  /\ overlooked \subseteq 1..index
  /\ pc \in {"list", "press", "pressed", "check1", "first", "check2", "second",
             "check3", "encode", "check4"} => command \in {"make", "get"}
  /\ command = "make" /\ pc \in Labels \ {"idle", "send"} =>
        excluded = (\E i \in 1..index : Recognised(i))
  /\ command = "make" /\ pc \in Labels \ {"idle", "send", "read", "list"} =>
        index = Len(list)
  /\ command = "make" /\ pc \in Labels \ (Before \union {"send", "pressed"}) =>
        ~excluded
  /\ command = "get" /\ pc \in Labels \ {"idle", "send"} => ~excluded
  /\ command = "get" /\ pc = "list" => \A i \in 1..index : ~Recognised(i)
  /\ pc = "read" => index = 0

(* What the work area holds at each step of the two commands.              *)
WorkInv ==
  /\ pc \in Labels
  /\ pc \in {"idle", "read", "list", "send"} =>
        private_scalar = None /\ credential_id = None /\ signature = None
  /\ pc \in Labels \ {"check4", "send"} => response = None
  /\ command = "make" =>
        /\ pc \in {"press", "pressed", "check1", "first"} =>
              private_scalar = None /\ credential_id = None /\ signature = None
        /\ pc \in {"check2", "second"} =>
              private_scalar = New /\ credential_id = None /\ signature = None
        /\ pc \in {"check3", "encode", "check4"} =>
              private_scalar = None /\ credential_id = New /\ signature = None
        /\ pc = "check4" => response = Body(New, None)
  /\ command = "get" =>
        /\ pc \in {"press", "pressed", "check1", "first", "check2", "second",
                   "check3", "encode", "check4"} =>
              credential_id \in Own /\ KnownAs(credential_id)
        /\ pc \in {"press", "pressed", "check1", "first", "check2", "second"} =>
              private_scalar = credential_id /\ signature = None
        /\ pc \in {"check3", "encode", "check4"} =>
              private_scalar = None /\ signature = credential_id
        /\ pc = "check4" => response = Body(credential_id, credential_id)

(* What may be answered to the request, given its list.                    *)
Right(m) ==
  /\ m.status = "OK" /\ command = "get" =>
        /\ KnownAs(m.body.id) /\ m.body.id \in Own
        /\ m.body.signature = m.body.id
  /\ m.status = "OK" /\ command = "make" => m.body.id = New /\ ~Known
  /\ m.status = "NO_CREDENTIALS" => ~Known
  /\ m.status = "CREDENTIAL_EXCLUDED" => Known
  /\ command \in {"make", "get"} /\ m.status \in {"OK", "CREDENTIAL_EXCLUDED"} =>
        presence

PresenceInv ==
  /\ pc \in Labels \ (Before \union {"send"}) => presence
  /\ response \notin {None, Info} => presence

ReplyInv == /\ pc # "idle" => sent = Message("none", None)
            /\ pc = "send" => Right(reply)
            /\ pc # "send" => reply = Message("none", None)
            /\ Right(sent)

(* What is left of a cancel that came between its test and an operation.   *)
LateInv ==
  /\ late \in {0, 1}
  /\ late = 1 => cancelled \/ gone
  /\ pc \in {"read", "list", "press", "pressed", "check1", "first", "second"} =>
        late = 0

IInv == ListInv /\ WorkInv /\ PresenceInv /\ ReplyInv

----------------------------------------------------------------------------
(* A list of descriptors is a sequence of them.                            *)
LEMMA ListsAreSequences == \A s \in Lists : s \in Seq(Descriptors)
<1> SUFFICES ASSUME NEW s \in Lists PROVE s \in Seq(Descriptors)
  OBVIOUS
<1>1. PICK n \in 0..MaxList : s \in [1..n -> Descriptors]
  BY DEF Lists
<1>2. n \in Nat
  BY <1>1, CtapAssumption
<1> QED  BY <1>1, <1>2

LEMMA EmptyListLength == /\ <<>> \in Seq(Descriptors)
                         /\ Len(<<>>) = 0
  OBVIOUS

LEMMA InitIInv == Init => IInv
<1> SUFFICES ASSUME Init PROVE IInv
  OBVIOUS
<1>1. ListInv
  BY EmptyListLength DEF Init, ListInv, Commands, Labels, Before
<1>2. WorkInv
  BY DEF Init, WorkInv, Labels
<1>3. PresenceInv
  BY DEF Init, PresenceInv, Labels, Before
<1>4. ReplyInv
  BY DEF Init, ReplyInv, Right, Message
<1> QED  BY <1>1, <1>2, <1>3, <1>4 DEF IInv

(* What was right to answer stays right while the request does.            *)
LEMMA RightKept ==
  ASSUME UNCHANGED <<command, list, overlooked>>, presence => presence',
         NEW m, Right(m)
  PROVE  Right(m)'
  BY DEF Right, KnownAs, Known, Recognised

(* Leaving a command with an answer that is right keeps the invariant.     *)
LEMMA LeaveKeeps ==
  ASSUME IInv, pc \notin {"idle", "send"}, NEW status, Leave(status),
         UNCHANGED <<command, list, overlooked, presence, sent>>,
         response' = response \/ response' = None,
         Right(Message(status, IF status = "OK" THEN response ELSE None))
  PROVE  IInv'
<1>1. /\ pc' = "send" /\ credential_id' = None /\ private_scalar' = None
      /\ signature' = None /\ UNCHANGED <<excluded, index>>
      /\ reply' = Message(status, IF status = "OK" THEN response ELSE None)
  BY DEF Leave
<1>2. ListInv'
  BY <1>1 DEF IInv, ListInv, Recognised, Labels, Before
<1>3. WorkInv'
  BY <1>1 DEF WorkInv, Labels
<1>4. PresenceInv'
  BY <1>1 DEF IInv, PresenceInv, Labels, Before
<1>5. ReplyInv'
  <2>1. Right(reply)'
    <3>1. PICK m : m = Message(status, IF status = "OK" THEN response ELSE None)
      OBVIOUS
    <3>2. Right(m)'
      BY <3>1, RightKept
    <3> QED  BY <3>1, <3>2, <1>1 DEF Right
  <2>2. Right(sent)'
    BY DEF IInv, ReplyInv, Right, KnownAs, Known, Recognised
  <2>3. sent' = Message("none", None)
    BY DEF IInv, ReplyInv
  <2> QED  BY <1>1, <2>1, <2>2, <2>3 DEF ReplyInv, Message
<1> QED  BY <1>2, <1>3, <1>4, <1>5 DEF IInv

(* A status that claims nothing may be answered to any request.            *)
LEMMA PlainRight ==
  ASSUME NEW m, m.status \notin {"OK", "NO_CREDENTIALS", "CREDENTIAL_EXCLUDED"}
  PROVE  Right(m)
  BY DEF Right

LEMMA PlainLeaveKeeps ==
  ASSUME IInv, pc \notin {"idle", "send"},
         NEW status \in {"INVALID", "OTHER", "KEEPALIVE_CANCEL",
                         "USER_ACTION_TIMEOUT", "OPERATION_DENIED"},
         Leave(status), UNCHANGED <<command, list, overlooked, presence, sent>>,
         response' = response \/ response' = None
  PROVE  IInv'
<1>1. Right(Message(status, IF status = "OK" THEN response ELSE None))
  BY PlainRight DEF Message
<1> QED  BY <1>1, LeaveKeeps

(* Steps that go on to the next label of a command, change nothing of what *)
(* is to be answered, and keep list and work area in order.                *)
LEMMA GoOnKeeps ==
  ASSUME IInv, pc \notin {"idle", "send"}, pc' # "send", ListInv', WorkInv',
         pc' \in Labels \ (Before \union {"send"}) => presence',
         UNCHANGED <<reply, sent>>,
         response' \notin {None, Info} => presence',
         presence => presence'
  PROVE  IInv'
<1>1. PresenceInv'
  BY DEF PresenceInv
<1>2. reply = Message("none", None)
  BY DEF IInv, ReplyInv
<1>3. sent' = Message("none", None)
  BY DEF IInv, ReplyInv
<1>4. ReplyInv'
  BY <1>2, <1>3 DEF ReplyInv, Right, Message
<1> QED  BY <1>1, <1>4 DEF IInv

----------------------------------------------------------------------------
LEMMA ReceiveKeeps ==
  ASSUME IInv, NEW cmd \in Commands, NEW descriptors \in Lists,
         Receive(cmd, descriptors)
  PROVE  IInv'
<1>1. /\ pc = "idle" /\ pc' = "read" /\ command' = cmd
      /\ list' = descriptors /\ index' = 0 /\ excluded' = FALSE
      /\ overlooked' = {}
      /\ presence' = FALSE /\ sent' = Message("none", None)
      /\ UNCHANGED <<work, response, reply>>
  BY DEF Receive
<1>2. list' \in Seq(Descriptors) /\ Len(list') \in Nat
  BY <1>1, ListsAreSequences
<1>3. ListInv'
  <2>1. 1..index' = {} /\ index' \in 0..Len(list')
    BY <1>1, <1>2
  <2>2. excluded' = (\E i \in 1..index : Recognised(i))'
    BY <1>1, <2>1
  <2>3. overlooked' \subseteq 1..index'
    BY <1>1
  <2> QED  BY <1>1, <1>2, <2>1, <2>2, <2>3 DEF ListInv, Labels, Before
<1>4. WorkInv'
  BY <1>1 DEF IInv, WorkInv, Labels, work
<1>5. PresenceInv'
  BY <1>1 DEF IInv, WorkInv, PresenceInv, Labels, Before, work
<1>6. ReplyInv'
  BY <1>1 DEF IInv, ReplyInv, Right, Message, work
<1> QED  BY <1>3, <1>4, <1>5, <1>6 DEF IInv

LEMMA DispatchKeeps ==
  ASSUME IInv, Dispatch
  PROVE  IInv'
<1>1. /\ pc = "read" /\ pc' = "send" /\ command \notin {"make", "get"}
      /\ reply'.status \in {"OK", "INVALID", "OTHER"}
      /\ response' \in {response, Info}
      /\ UNCHANGED <<command, list, overlooked, index, excluded, credential_id,
                     private_scalar, signature, presence, sent>>
  BY DEF Dispatch, request, work, history, Message
<1>2. ListInv'
  BY <1>1 DEF IInv, ListInv, Recognised, Labels, Before
<1>3. WorkInv'
  BY <1>1 DEF IInv, WorkInv, Labels
<1>4. PresenceInv'
  BY <1>1 DEF IInv, PresenceInv, Labels, Before
<1>5. ReplyInv'
  BY <1>1 DEF IInv, ReplyInv, Right, KnownAs, Known, Recognised
<1> QED  BY <1>2, <1>3, <1>4, <1>5 DEF IInv

(* One more descriptor is looked at: what is known of those before it and  *)
(* of it is known of them all.                                             *)
LEMMA OneMore ==
  ASSUME IInv, More
  PROVE  /\ index + 1 \in 0..Len(list) /\ index + 1 \in 1..Len(list)
         /\ Item \in Descriptors
         /\ 1..(index + 1) = 1..index \union {index + 1}
         /\ index + 1 \notin 1..index
<1>1. /\ index \in Nat /\ Len(list) \in Nat /\ index < Len(list)
      /\ list \in Seq(Descriptors)
  BY DEF IInv, ListInv, More
<1>2. index + 1 \in 0..Len(list) /\ index + 1 \in 1..Len(list)
  BY <1>1
<1>3. Item \in Descriptors
  BY <1>1, <1>2 DEF Item
<1>4. /\ 1..(index + 1) = 1..index \union {index + 1}
      /\ index + 1 \notin 1..index
  BY <1>1
<1> QED  BY <1>2, <1>3, <1>4

(* Those recognised before stay so; the one looked at is recognised when it*)
(* is this device's and was not overlooked just now.                       *)
LEMMA OneMoreRecognised ==
  ASSUME IInv, More, index' = index + 1, list' = list,
         \/ overlooked' = overlooked
         \/ overlooked' = overlooked \union {index + 1}
  PROVE  /\ overlooked' \subseteq 1..index'
         /\ (\E i \in 1..index : Recognised(i))' =
               \/ \E i \in 1..index : Recognised(i)
               \/ Item \in Own /\ overlooked' = overlooked
<1>0. PICK k : k = index + 1
  OBVIOUS
<1>1. /\ overlooked \subseteq 1..index
      /\ 1..index' = 1..index \union {k}
      /\ k \notin 1..index
  BY <1>0, OneMore DEF IInv, ListInv
<1>2. k \notin overlooked
  BY <1>1
<1>3. \A i \in 1..index : Recognised(i)' <=> Recognised(i)
  BY <1>0, <1>1 DEF Recognised
<1>4. Recognised(k)' <=> Item \in Own /\ overlooked' = overlooked
  BY <1>0, <1>2 DEF Recognised, Item
<1>5. (\E i \in 1..index : Recognised(i))'
         <=> \/ \E i \in 1..index : Recognised(i)'
             \/ Recognised(k)'
  BY <1>1
<1> QED  BY <1>0, <1>1, <1>3, <1>4, <1>5


LEMMA SkipKeeps ==
  ASSUME IInv, Skip
  PROVE  IInv'
<1>1. /\ More /\ pc = "list" /\ pc' = "list" /\ Item \notin Own
      /\ index' = index + 1
      /\ UNCHANGED <<command, list, overlooked, excluded, credential_id,
                     private_scalar, signature, response, reply, presence,
                     sent>>
  BY CtapAssumption DEF Skip, More, request, work, history
<1>2. ListInv'
  <2>1. index' \in 0..Len(list')
    BY <1>1, OneMore
  <2>2. /\ overlooked' \subseteq 1..index'
        /\ (\E i \in 1..index : Recognised(i))'
              = (\E i \in 1..index : Recognised(i))
    BY <1>1, OneMoreRecognised
  <2> QED  BY <1>1, <2>1, <2>2 DEF IInv, ListInv, Labels, Before
<1>3. WorkInv'
  BY <1>1 DEF IInv, WorkInv, Labels
<1> QED  BY <1>1, <1>2, <1>3, GoOnKeeps DEF IInv, PresenceInv, Labels, Before

LEMMA CheckExcludeKeeps ==
  ASSUME IInv, CheckExclude
  PROVE  IInv'
<1>1. /\ More /\ pc = "list" /\ pc' = "list" /\ command = "make"
      /\ index' = index + 1
      /\ UNCHANGED <<command, list, credential_id, private_scalar, signature,
                     response, reply, presence, sent>>
  BY DEF CheckExclude, More, work, history
<1>2. PICK answer \in {"OK", "MISMATCH"} :
         /\ Opens(answer)
         /\ excluded' = (excluded \/ answer = "OK")
         /\ Overlooks(answer)
  BY DEF CheckExclude, Excluded
<1>3. index + 1 \notin overlooked
  BY <1>1, OneMore DEF IInv, ListInv
<1>4. /\ \/ overlooked' = overlooked
         \/ overlooked' = overlooked \union {index + 1}
      /\ answer = "OK" <=> Item \in Own /\ overlooked' = overlooked
  BY <1>2, <1>3, CtapAssumption DEF Opens, Overlooks
<1>5. ListInv'
  <2>1. index' \in 0..Len(list')
    BY <1>1, OneMore
  <2>2. /\ overlooked' \subseteq 1..index'
        /\ (\E i \in 1..index : Recognised(i))'
              = ((\E i \in 1..index : Recognised(i)) \/ answer = "OK")
    BY <1>1, <1>4, OneMoreRecognised
  <2>3. excluded = (\E i \in 1..index : Recognised(i))
    BY <1>1 DEF IInv, ListInv, Labels
  <2>4. excluded' = (\E i \in 1..index : Recognised(i))'
    BY <1>2, <2>2, <2>3
  <2> QED  BY <1>1, <2>1, <2>2, <2>4 DEF IInv, ListInv, Labels, Before
<1>6. WorkInv'
  BY <1>1 DEF IInv, WorkInv, Labels
<1> QED  BY <1>1, <1>5, <1>6, GoOnKeeps DEF IInv, PresenceInv, Labels, Before

LEMMA FindCredKeeps ==
  ASSUME IInv, FindCred
  PROVE  IInv'
<1>1. /\ More /\ pc = "list" /\ command = "get"
      /\ UNCHANGED <<command, list, excluded, response, reply, presence, sent>>
  BY DEF FindCred, More, history
<1>2. index + 1 \notin overlooked
  BY <1>1, OneMore DEF IInv, ListInv
<1>3. CASE /\ Opens("OK") /\ pc' = "press" /\ credential_id' = Item
           /\ private_scalar' = Item
           /\ UNCHANGED <<overlooked, index, signature>>
  <2>1. Item \in Own
    BY <1>3, <1>1, OneMore DEF Opens, Descriptors
  <2>2. KnownAs(Item)
    BY <1>1, <1>2, <2>1, OneMore DEF KnownAs, Recognised, Item
  <2>3. ListInv'
    BY <1>1, <1>3 DEF IInv, ListInv, Recognised, Labels, Before
  <2>4. KnownAs(credential_id)'
    BY <1>1, <1>3, <2>2 DEF KnownAs, Recognised
  <2>5. WorkInv'
    BY <1>1, <1>3, <2>1, <2>4 DEF IInv, WorkInv, Labels
  <2> QED  BY <1>1, <1>3, <2>3, <2>5, GoOnKeeps
           DEF IInv, PresenceInv, Labels, Before
<1>4. CASE /\ Opens("MISMATCH") /\ Overlooks("MISMATCH")
           /\ index' = index + 1 /\ UNCHANGED <<pc, work>>
  <2>1. /\ \/ overlooked' = overlooked
           \/ overlooked' = overlooked \union {index + 1}
        /\ ~(Item \in Own /\ overlooked' = overlooked)
    BY <1>2, <1>4 DEF Overlooks
  <2>2. index' \in 0..Len(list')
    BY <1>1, <1>4, OneMore
  <2>3. /\ overlooked' \subseteq 1..index'
        /\ (\E i \in 1..index : Recognised(i))'
              = (\E i \in 1..index : Recognised(i))
    BY <1>1, <1>4, <2>1, OneMoreRecognised
  <2>4. ListInv'
    BY <1>1, <1>4, <2>2, <2>3 DEF IInv, ListInv, Labels, Before
  <2>5. WorkInv'
    BY <1>1, <1>4 DEF IInv, WorkInv, Labels, work
  <2> QED  BY <1>1, <1>4, <2>4, <2>5, GoOnKeeps
           DEF IInv, PresenceInv, Labels, Before
<1> QED  BY <1>3, <1>4 DEF FindCred, Goto

LEMMA ListEndKeeps ==
  ASSUME IInv, ListEnd
  PROVE  IInv'
<1>1. /\ pc = "list" /\ index = Len(list)
      /\ UNCHANGED <<command, list, overlooked, response, presence, sent>>
  BY DEF ListEnd, request, history
<1>2. CASE /\ command = "make" /\ pc' = "press"
           /\ UNCHANGED <<index, excluded, work, reply>>
  <2>1. ListInv'
    BY <1>1, <1>2 DEF IInv, ListInv, Recognised, Labels, Before
  <2>2. WorkInv'
    BY <1>1, <1>2 DEF IInv, WorkInv, Labels, work
  <2> QED  BY <1>1, <1>2, <2>1, <2>2, GoOnKeeps
           DEF IInv, PresenceInv, Labels, Before
<1>3. CASE command = "get" /\ Leave("NO_CREDENTIALS")
  <2>1. \A i \in 1..Len(list) : ~Recognised(i)
    BY <1>1, <1>3 DEF IInv, ListInv
  <2>2. Right(Message("NO_CREDENTIALS", None))
    BY <2>1 DEF Right, Known, Message
  <2> QED  BY <1>1, <1>3, <2>2, LeaveKeeps
<1> QED  BY <1>2, <1>3 DEF ListEnd, Goto

LEMMA PressKeeps ==
  ASSUME IInv, PressOK \/ PressFails
  PROVE  IInv'
<1>1. CASE PressFails
  BY <1>1, PlainLeaveKeeps DEF PressFails, request, history
<1>2. CASE PressOK
  <2>1. /\ pc = "press" /\ pc' = "pressed" /\ presence'
        /\ UNCHANGED <<command, list, overlooked, index, excluded,
                       credential_id, private_scalar, signature, response,
                       reply, sent>>
    BY <1>2 DEF PressOK, Goto, request, work
  <2>2. ListInv'
    BY <2>1 DEF IInv, ListInv, Recognised, Labels, Before
  <2>3. WorkInv'
    BY <2>1 DEF IInv, WorkInv, Labels, KnownAs, Recognised
  <2> QED  BY <2>1, <2>2, <2>3, GoOnKeeps
<1> QED  BY <1>1, <1>2

LEMMA PressedKeeps ==
  ASSUME IInv, Pressed
  PROVE  IInv'
<1>1. /\ pc = "pressed" /\ presence
      /\ UNCHANGED <<command, list, overlooked, response, presence, sent>>
  BY DEF Pressed, IInv, PresenceInv, Labels, Before, request, history
<1>2. CASE excluded /\ Leave("CREDENTIAL_EXCLUDED") /\ command = "make"
  <2>1. PICK i \in 1..Len(list) : Recognised(i)
    BY <1>1, <1>2 DEF IInv, ListInv, Labels, Before
  <2>2. Right(Message("CREDENTIAL_EXCLUDED", None))
    BY <1>1, <2>1 DEF Right, Known, Message
  <2> QED  BY <1>1, <1>2, <2>2, LeaveKeeps
<1>3. CASE excluded /\ Leave("CREDENTIAL_EXCLUDED") /\ command = "get"
  <2>1. ~excluded
    BY <1>1, <1>3 DEF IInv, ListInv, Labels
  <2> QED  BY <1>3, <2>1
<1>4. CASE ~excluded /\ pc' = "check1" /\ UNCHANGED <<index, excluded, work, reply>>
  <2>1. ListInv'
    BY <1>1, <1>4 DEF IInv, ListInv, Recognised, Labels, Before
  <2>2. WorkInv'
    BY <1>1, <1>4 DEF IInv, WorkInv, Labels, KnownAs, Recognised, work
  <2> QED  BY <1>1, <1>4, <2>1, <2>2, GoOnKeeps
           DEF IInv, PresenceInv, Labels, Before
<1>5. command \in {"make", "get"}
  BY <1>1 DEF IInv, ListInv
<1> QED  BY <1>2, <1>3, <1>4, <1>5 DEF Pressed, Goto

(* The steps from the first test for a cancel on.                          *)
LEMMA WorkStepKeeps ==
  ASSUME IInv,
         pc \in {"check1", "first", "check2", "second", "check3", "encode"},
         pc' \in {"first", "check2", "second", "check3", "encode", "check4"},
         UNCHANGED <<command, list, overlooked, index, excluded, reply,
                     presence, sent>>,
         WorkInv'
  PROVE  IInv'
<1>1. presence
  BY DEF IInv, PresenceInv, Labels, Before
<1>2. ListInv'
  BY DEF IInv, ListInv, Recognised, Labels, Before
<1> QED  BY <1>1, <1>2, GoOnKeeps

LEMMA ChecksKeep ==
  ASSUME IInv, Check1 \/ Check2 \/ Check3
  PROVE  IInv'
<1>1. /\ pc \in {"check1", "check2", "check3"}
      /\ UNCHANGED <<command, list, overlooked, response, presence, sent>>
  BY DEF Check1, Check2, Check3, CancelPoint, request, history
<1>2. CASE Leave("KEEPALIVE_CANCEL")
  BY <1>1, <1>2, PlainLeaveKeeps
<1>3. CASE /\ \/ pc = "check1" /\ pc' = "first"
              \/ pc = "check2" /\ pc' = "second"
              \/ pc = "check3" /\ pc' = "encode"
           /\ UNCHANGED <<index, excluded, work, reply>>
  <2>1. WorkInv'
    BY <1>1, <1>3 DEF IInv, WorkInv, Labels, KnownAs, Recognised, work
  <2> QED  BY <1>1, <1>3, <2>1, WorkStepKeeps
<1> QED  BY <1>1, <1>2, <1>3 DEF Check1, Check2, Check3, CancelPoint, Goto

LEMMA MakeStepsKeep ==
  ASSUME IInv, Generate \/ WrapKey
  PROVE  IInv'
<1>1. /\ pc \in {"first", "second"} /\ command = "make"
      /\ UNCHANGED <<command, list, overlooked, response, presence, sent>>
  BY DEF Generate, WrapKey, request
<1>2. CASE Leave("OTHER")
  BY <1>1, <1>2, PlainLeaveKeeps
<1>3. CASE /\ \/ /\ pc = "first" /\ pc' = "check2"
                 /\ private_scalar' = New
                 /\ UNCHANGED <<credential_id, signature>>
              \/ /\ pc = "second" /\ pc' = "check3"
                 /\ credential_id' = private_scalar /\ private_scalar' = None
                 /\ UNCHANGED signature
           /\ UNCHANGED <<index, excluded, reply>>
  <2>1. WorkInv'
    BY <1>1, <1>3 DEF IInv, WorkInv, Labels
  <2> QED  BY <1>1, <1>3, <2>1, WorkStepKeeps
<1> QED  BY <1>2, <1>3 DEF Generate, WrapKey, Goto

LEMMA GetStepsKeep ==
  ASSUME IInv, Digest \/ Sign
  PROVE  IInv'
<1>1. /\ pc \in {"first", "second"} /\ command = "get"
      /\ UNCHANGED <<command, list, overlooked, response, presence, sent>>
  BY DEF Digest, Sign, request
<1>2. CASE Leave("OTHER")
  BY <1>1, <1>2, PlainLeaveKeeps
<1>3. CASE /\ \/ /\ pc = "first" /\ pc' = "check2"
                 /\ UNCHANGED <<credential_id, private_scalar, signature>>
              \/ /\ pc = "second" /\ pc' = "check3"
                 /\ signature' = private_scalar /\ private_scalar' = None
                 /\ UNCHANGED credential_id
           /\ UNCHANGED <<index, excluded, reply>>
  <2>1. WorkInv'
    BY <1>1, <1>3 DEF IInv, WorkInv, Labels, KnownAs, Recognised
  <2> QED  BY <1>1, <1>3, <2>1, WorkStepKeeps
<1> QED  BY <1>2, <1>3 DEF Digest, Sign, Goto, work

LEMMA EncodeKeeps ==
  ASSUME IInv, Encode
  PROVE  IInv'
<1>1. /\ pc = "encode" /\ response' = Body(credential_id, signature)
      /\ presence /\ command \in {"make", "get"}
      /\ UNCHANGED <<command, list, overlooked, presence, sent>>
  BY DEF Encode, IInv, ListInv, PresenceInv, Labels, Before, request, history
<1>2. CASE Leave("OTHER")
  <2>1. /\ pc' = "send" /\ credential_id' = None /\ private_scalar' = None
        /\ signature' = None /\ UNCHANGED <<excluded, index>>
        /\ reply' = Message("OTHER", None)
    BY <1>2 DEF Leave
  <2>2. ListInv'
    BY <1>1, <2>1 DEF IInv, ListInv, Recognised, Labels, Before
  <2>3. WorkInv'
    BY <2>1 DEF WorkInv, Labels
  <2>4. PresenceInv'
    BY <1>1, <2>1 DEF PresenceInv
  <2>5. ReplyInv'
    BY <1>1, <2>1 DEF IInv, ReplyInv, Right, KnownAs, Known, Recognised, Message
  <2> QED  BY <2>2, <2>3, <2>4, <2>5 DEF IInv
<1>3. CASE pc' = "check4" /\ UNCHANGED <<index, excluded, work, reply>>
  <2>1. WorkInv'
    BY <1>1, <1>3 DEF IInv, WorkInv, Labels, KnownAs, Recognised, work
  <2> QED  BY <1>1, <1>3, <2>1, WorkStepKeeps
<1> QED  BY <1>2, <1>3 DEF Encode, Goto

LEMMA Check4Keeps ==
  ASSUME IInv, Check4
  PROVE  IInv'
<1>1. /\ pc = "check4" /\ presence /\ command \in {"make", "get"}
      /\ UNCHANGED <<command, list, overlooked, presence, sent>>
  BY DEF Check4, IInv, ListInv, PresenceInv, Labels, Before, request, history
<1>2. CASE Leave("KEEPALIVE_CANCEL") /\ response' = None
  BY <1>1, <1>2, PlainLeaveKeeps
<1>3. CASE Leave("OK") /\ UNCHANGED response
  <2>0. PICK m : m = Message("OK", IF "OK" = "OK" THEN response ELSE None)
    OBVIOUS
  <2>1. m.status = "OK" /\ m.body = response
    BY <2>0 DEF Message
  <2>2. Right(m)
    <3>1. CASE command = "make"
      <4>1. response = Body(New, None)
        BY <1>1, <3>1 DEF IInv, WorkInv
      <4>2. m.body.id = New
        BY <2>1, <4>1 DEF Body
      <4>3. \A j \in 1..Len(list) : ~Recognised(j)
        BY <1>1, <3>1 DEF IInv, ListInv, Labels, Before
      <4>4. ~Known
        BY <4>3 DEF Known
      <4> QED  BY <1>1, <2>1, <3>1, <4>2, <4>4 DEF Right
    <3>2. CASE command = "get"
      <4>1. /\ response = Body(credential_id, credential_id)
            /\ credential_id \in Own /\ KnownAs(credential_id)
        BY <1>1, <3>2 DEF IInv, WorkInv
      <4>2. m.body.id = credential_id /\ m.body.signature = credential_id
        BY <2>1, <4>1 DEF Body
      <4>3. KnownAs(m.body.id) /\ m.body.id \in Own
        BY <4>1, <4>2 DEF KnownAs
      <4> QED  BY <1>1, <2>1, <3>2, <4>2, <4>3 DEF Right
    <3> QED  BY <1>1, <3>1, <3>2
  <2>3. Right(Message("OK", IF "OK" = "OK" THEN response ELSE None))
    BY <2>0, <2>2, Zenon
  <2>4. pc # "send"
    BY <1>1
  <2> QED  BY <1>1, <1>3, <2>3, <2>4, LeaveKeeps
<1> QED  BY <1>2, <1>3 DEF Check4

LEMMA SendKeeps ==
  ASSUME IInv, Send
  PROVE  IInv'
<1>1. /\ pc = "send" /\ pc' = "idle" /\ response' = None
      /\ sent' \in {reply, Message("KEEPALIVE_CANCEL", None),
                    Message("none", None)}
      /\ reply' = Message("none", None)
      /\ UNCHANGED <<command, list, overlooked, index, excluded, credential_id,
                     private_scalar, signature, presence>>
  BY DEF Send, Sends, Goto, request, work
<1>2. Right(reply)
  BY <1>1 DEF IInv, ReplyInv
<1>3. Right(sent')
  BY <1>1, <1>2, PlainRight DEF Message
<1>4. ReplyInv'
  BY <1>1, <1>3 DEF ReplyInv, Right, KnownAs, Known, Recognised
<1>5. ListInv'
  BY <1>1 DEF IInv, ListInv, Recognised, Labels, Before
<1>6. WorkInv'
  BY <1>1 DEF IInv, WorkInv, Labels
<1>7. PresenceInv'
  BY <1>1 DEF PresenceInv, Labels, Before
<1> QED  BY <1>4, <1>5, <1>6, <1>7 DEF IInv

(* Steps that touch nothing the invariant speaks of.                       *)
LEMMA NothingKeeps ==
  ASSUME IInv, UNCHANGED <<pc, command, list, overlooked, index, excluded,
                           credential_id, private_scalar, signature, response,
                           reply, presence, sent>>
  PROVE  IInv'
<1>1. ListInv'
  BY DEF IInv, ListInv, Recognised
<1>2. WorkInv'
  BY DEF IInv, WorkInv, KnownAs, Recognised
<1>3. PresenceInv'
  BY DEF IInv, PresenceInv
<1>4. ReplyInv'
  BY DEF IInv, ReplyInv, Right, KnownAs, Known, Recognised
<1> QED  BY <1>1, <1>2, <1>3, <1>4 DEF IInv

LEMMA NextIInv == IInv /\ [Next]_vars => IInv'
<1> SUFFICES ASSUME IInv, [Next]_vars PROVE IInv'
  OBVIOUS
<1>1. CASE \E cmd \in Commands, descriptors \in Lists :
              Receive(cmd, descriptors)
  BY <1>1, ReceiveKeeps
<1>2. CASE Dispatch
  BY <1>2, DispatchKeeps
<1>3. CASE Read
  <2>1. /\ pc = "read" /\ command \in {"make", "get"}
        /\ UNCHANGED <<command, list, overlooked, response, presence, sent>>
    BY <1>3 DEF Read, request, history
  <2>2. CASE pc' = "list" /\ UNCHANGED <<index, excluded, work, reply>>
    <3>1. index = 0
      BY <2>1 DEF IInv, ListInv
    <3>2. 1..index = {}
      BY <3>1
    <3>3. ListInv'
      BY <2>1, <2>2, <3>1, <3>2 DEF IInv, ListInv, Recognised, Labels, Before
    <3>4. WorkInv'
      BY <2>1, <2>2 DEF IInv, WorkInv, Labels, work
    <3> QED  BY <2>1, <2>2, <3>3, <3>4, GoOnKeeps
             DEF IInv, PresenceInv, Labels, Before
  <2> QED  BY <1>3, <2>1, <2>2, PlainLeaveKeeps DEF Read, Goto
<1>4. CASE Skip \/ CheckExclude \/ FindCred \/ ListEnd
  BY <1>4, SkipKeeps, CheckExcludeKeeps, FindCredKeeps, ListEndKeeps
<1>5. CASE OpenError
  BY <1>5, PlainLeaveKeeps DEF OpenError, More, request, history
<1>6. CASE PressOK \/ PressFails \/ Pressed
  BY <1>6, PressKeeps, PressedKeeps
<1>7. CASE Check1 \/ Check2 \/ Check3 \/ Check4
  BY <1>7, ChecksKeep, Check4Keeps
<1>8. CASE Generate \/ WrapKey \/ Digest \/ Sign \/ Encode
  BY <1>8, MakeStepsKeep, GetStepsKeep, EncodeKeeps
<1>9. CASE Send
  BY <1>9, SendKeeps
<1>10. CASE CancelArrives \/ ClaimEnds \/ UNCHANGED vars
  BY <1>10, NothingKeeps
     DEF CancelArrives, ClaimEnds, vars, request, work, history
<1> QED  BY <1>1, <1>2, <1>3, <1>4, <1>5, <1>6, <1>7, <1>8, <1>9, <1>10
         DEF Next, Command

(* Whatever a request's list holds, no key is made, nothing is signed and  *)
(* no exclusion is told before the user was found present for it.          *)
THEOREM PresenceFirstTheorem == Spec => []PresenceFirst
<1>1. IInv => PresenceFirst
  <2> SUFFICES ASSUME IInv PROVE PresenceFirst
    OBVIOUS
  <2>1. New \in {private_scalar, credential_id} => presence
    BY CtapAssumption
       DEF IInv, ListInv, WorkInv, PresenceInv, Labels, Before
  <2>2. signature # None => presence
    BY CtapAssumption
       DEF IInv, ListInv, WorkInv, PresenceInv, Labels, Before
  <2>3. response \notin {None, Info} => presence
    BY DEF IInv, PresenceInv
  <2>4. command \in {"make", "get"}
        /\ sent.status \in {"OK", "CREDENTIAL_EXCLUDED"} => presence
    BY DEF IInv, ReplyInv, Right
  <2> QED  BY <2>1, <2>2, <2>3, <2>4 DEF PresenceFirst
<1> QED  BY <1>1, InitIInv, NextIInv, PTL DEF Spec

ListRespected ==
  /\ sent.status = "OK" /\ command = "get" =>
        /\ KnownAs(sent.body.id) /\ sent.body.id \in Own
        /\ sent.body.signature = sent.body.id
  /\ sent.status = "OK" /\ command = "make" => sent.body.id = New /\ ~Known
  /\ sent.status = "NO_CREDENTIALS" => ~Known
  /\ sent.status = "CREDENTIAL_EXCLUDED" => Known

(* Whatever a request's list holds, and whichever of the credentials in it *)
(* cred_open disowns, the answer is the one the others call for, and an    *)
(* assertion is signed with the key it names.                              *)
THEOREM ListRespectedTheorem == Spec => []ListRespected
<1>1. IInv => ListRespected
  BY DEF IInv, ReplyInv, Right, ListRespected
<1> QED  BY <1>1, InitIInv, NextIInv, PTL DEF Spec

(* Whichever step fails, no key material outlives the command.             *)
THEOREM NothingLeftTheorem == Spec => []NothingLeft
<1>1. IInv => NothingLeft
  BY DEF IInv, WorkInv, NothingLeft, Labels
<1> QED  BY <1>1, InitIInv, NextIInv, PTL DEF Spec

----------------------------------------------------------------------------
LEMMA InitLateInv == Init => LateInv
  BY DEF Init, LateInv

(* Steps that begin no operation and stay out of the labels before one.    *)
LEMMA LateKept ==
  ASSUME LateInv, late' = late, cancelled' = cancelled, gone' = gone,
         pc' \in {"read", "list", "press", "pressed", "check1", "first",
                 "second"} => late = 0
  PROVE  LateInv'
  BY DEF LateInv

LEMMA CountedLate ==
  ASSUME LateInv, late = 0, Counted, cancelled' = cancelled, gone' = gone,
         pc' \in {"check2", "check3", "send"}
  PROVE  LateInv'
  BY DEF LateInv, Counted

LEMMA NextLateInv == LateInv /\ [Next]_vars => LateInv'
<1> SUFFICES ASSUME LateInv, [Next]_vars PROVE LateInv'
  OBVIOUS
<1>1. CASE \E cmd \in Commands, descriptors \in Lists :
              Receive(cmd, descriptors)
  BY <1>1 DEF Receive, LateInv
<1>2. CASE \/ Dispatch \/ Read \/ Skip \/ OpenError \/ CheckExclude \/ FindCred
           \/ ListEnd \/ PressOK \/ PressFails \/ Pressed
  <2>1. /\ pc \in {"read", "list", "press", "pressed"}
        /\ UNCHANGED <<late, cancelled, gone>>
    BY <1>2 DEF Dispatch, Read, Skip, OpenError, CheckExclude, FindCred,
       ListEnd, PressOK, PressFails, Pressed, More, transport, history
  <2> QED  BY <2>1, LateKept DEF LateInv
<1>3. CASE Check1 \/ Check2 \/ Check3
  <2>1. UNCHANGED <<late, cancelled, gone>>
    BY <1>3 DEF Check1, Check2, Check3, CancelPoint, transport, history
  <2>2. CASE pc' = "send"
    BY <2>1, <2>2, LateKept
  <2>3. CASE ~(cancelled \/ gone)
    BY <2>1, <2>3, LateKept DEF LateInv
  <2> QED  BY <1>3, <2>2, <2>3
           DEF Check1, Check2, Check3, CancelPoint, Answers, Leave
<1>4. CASE Generate \/ Digest \/ WrapKey \/ Sign
  <2>1. late = 0
    BY <1>4 DEF LateInv, Generate, Digest, WrapKey, Sign
  <2>2. pc' \in {"check2", "check3", "send"}
    BY <1>4 DEF Generate, Digest, WrapKey, Sign, Goto, Leave
  <2> QED  BY <1>4, <2>1, <2>2, CountedLate
           DEF Generate, Digest, WrapKey, Sign, transport
<1>5. CASE Encode \/ Check4 \/ Send
  <2>1. UNCHANGED <<late, cancelled, gone>>
    BY <1>5 DEF Encode, Check4, Send, transport, history
  <2>2. pc' \in {"check4", "send", "idle"}
    BY <1>5 DEF Encode, Check4, Send, Goto, Leave
  <2> QED  BY <2>1, <2>2, LateKept
<1>6. CASE CancelArrives \/ ClaimEnds
  BY <1>6 DEF CancelArrives, ClaimEnds, LateInv, history
<1>7. CASE UNCHANGED vars
  BY <1>7 DEF vars, LateInv
<1> QED  BY <1>1, <1>2, <1>3, <1>4, <1>5, <1>6, <1>7 DEF Next, Command

(* However cancels fall among a command's steps, at most one of its        *)
(* operations begins after them.                                           *)
THEOREM CancelStopsWorkTheorem == Spec => []CancelStopsWork
<1>1. LateInv => CancelStopsWork
  BY DEF LateInv, CancelStopsWork
<1> QED  BY <1>1, InitLateInv, NextLateInv, PTL DEF Spec

----------------------------------------------------------------------------
(* What goes out: a body and OK come together, and a cancelled request gets*)
(* neither.                                                                *)

Whole(m) == m.status = "OK" <=> m.body # None

BodyInv == /\ Whole(reply) /\ Whole(sent)
           /\ sent.status = "OK" => pc = "idle" /\ ~cancelled
           /\ pc # "idle" => sent = Message("none", None)

LEMMA InitBodyInv == Init => BodyInv
  BY DEF Init, BodyInv, Whole, Message

(* Leaving with a response that was finished, or without one.              *)
LEMMA LeaveWhole ==
  ASSUME BodyInv, pc # "idle", NEW status, Leave(status),
         status = "OK" => response # None, sent' = sent
  PROVE  BodyInv'
  BY DEF BodyInv, Whole, Message, Leave

(* Steps of a command that decide nothing yet.                             *)
LEMMA UndecidedWhole ==
  ASSUME BodyInv, pc # "idle", UNCHANGED <<reply, sent>>
  PROVE  BodyInv'
  BY DEF BodyInv, Whole, Message

LEMMA NextBodyInv == IInv /\ BodyInv /\ [Next]_vars => BodyInv'
<1> SUFFICES ASSUME IInv, BodyInv, [Next]_vars PROVE BodyInv'
  OBVIOUS
<1>1. CASE \E cmd \in Commands, descriptors \in Lists :
              Receive(cmd, descriptors)
  BY <1>1 DEF Receive, BodyInv, Whole, Message
<1>2. CASE Dispatch
  BY <1>2, CtapAssumption DEF Dispatch, BodyInv, Whole, Message, history
<1>3. CASE Read \/ OpenError \/ ListEnd \/ PressFails \/ Pressed
  <2>1. pc # "idle" /\ sent' = sent
    BY <1>3 DEF Read, OpenError, ListEnd, PressFails, Pressed, More, history
  <2>2. \/ reply' = reply
        \/ \E status : status # "OK" /\ Leave(status)
    BY <1>3 DEF Read, OpenError, ListEnd, PressFails, Pressed
  <2> QED  BY <2>1, <2>2, LeaveWhole, UndecidedWhole
<1>4. CASE Skip \/ CheckExclude \/ FindCred \/ PressOK
  <2>1. pc # "idle" /\ UNCHANGED <<reply, sent>>
    BY <1>4 DEF Skip, CheckExclude, FindCred, PressOK, More, history
  <2> QED  BY <2>1, UndecidedWhole
<1>5. CASE Check1 \/ Check2 \/ Check3
  <2>1. pc # "idle" /\ sent' = sent
    BY <1>5 DEF Check1, Check2, Check3, CancelPoint, history
  <2>2. reply' = reply \/ Leave("KEEPALIVE_CANCEL")
    BY <1>5 DEF Check1, Check2, Check3, CancelPoint
  <2> QED  BY <2>1, <2>2, LeaveWhole, UndecidedWhole
<1>6. CASE Generate \/ WrapKey \/ Digest \/ Sign \/ Encode
  <2>1. pc # "idle" /\ sent' = sent
    BY <1>6 DEF Generate, WrapKey, Digest, Sign, Encode, history
  <2>2. reply' = reply \/ Leave("OTHER")
    BY <1>6 DEF Generate, WrapKey, Digest, Sign, Encode
  <2> QED  BY <2>1, <2>2, LeaveWhole, UndecidedWhole
<1>7. CASE Check4
  <2>1. pc = "check4" /\ sent' = sent
    BY <1>7 DEF Check4, history
  <2>2. command \in {"make", "get"}
    BY <2>1 DEF IInv, ListInv
  <2>3. response # None
    BY <2>1, <2>2, BodyAssumption DEF IInv, WorkInv
  <2> QED  BY <1>7, <2>1, <2>3, LeaveWhole DEF Check4
<1>8. CASE Send
  <2>1. /\ pc' = "idle" /\ cancelled' = cancelled
        /\ reply' = Message("none", None)
        /\ sent' \in {Sends, Message("none", None)}
    BY <1>8 DEF Send, Goto, transport
  <2>2. Whole(Sends) /\ (Sends.status = "OK" => ~cancelled)
    BY DEF BodyInv, Whole, Sends, Message
  <2> QED  BY <2>1, <2>2 DEF BodyInv, Whole, Message
<1>9. CASE CancelArrives \/ ClaimEnds
  BY <1>9, UndecidedWhole DEF CancelArrives, ClaimEnds, history
<1>10. CASE UNCHANGED vars
  BY <1>10 DEF vars, BodyInv, Whole
<1> QED  BY <1>1, <1>2, <1>3, <1>4, <1>5, <1>6, <1>7, <1>8, <1>9, <1>10
         DEF Next, Command

BodyOnlyIfWanted ==
  /\ sent.body # None => sent.status = "OK"
  /\ sent.status = "OK" => sent.body # None /\ ~cancelled

(* No step that fails and no cancel lets a body out with anything but OK,  *)
(* or to a request that was cancelled by then.                             *)
THEOREM BodyOnlyIfWantedTheorem == Spec => []BodyOnlyIfWanted
<1>1. BodyInv => BodyOnlyIfWanted
  BY DEF BodyInv, Whole, BodyOnlyIfWanted
<1> QED  BY <1>1, InitIInv, NextIInv, InitBodyInv, NextBodyInv, PTL DEF Spec

----------------------------------------------------------------------------
(* What may be answered to the request.                                    *)
Promised(m) == Contract!Granted(m) \/ Contract!Refused(m)

Working == {"press", "pressed", "check1", "first", "check2", "second",
            "check3", "encode", "check4"}

(* The answer that is decided is one the contract allows, the user has not *)
(* been asked before the button is, and the credential to sign with is the *)
(* first of the list.                                                      *)
PromiseInv ==
  /\ pc = "send" => Promised(reply)
  /\ pc \in {"read", "list", "press"} => ~presence
  /\ command = "get" /\ pc \in Working => Contract!Chosen(credential_id)

LEMMA InitPromiseInv == Init => PromiseInv
  BY DEF Init, PromiseInv, Working

LEMMA PromisedKept ==
  ASSUME UNCHANGED <<command, list, overlooked, presence>>, NEW m, Promised(m)
  PROVE  Promised(m)'
<1>1. Contract!Granted(m) => Contract!Granted(m)'
  BY DEF Contract!Granted, Contract!Chosen, Contract!Knows,
         Contract!Recognised
<1>2. Contract!Refused(m) => Contract!Refused(m)'
  BY DEF Contract!Refused, Contract!Asks, Contract!Excluded, Contract!Knows,
         Contract!Recognised
<1> QED  BY <1>1, <1>2 DEF Promised

LEMMA PromisedReply ==
  ASSUME NEW m, Promised(m)', reply' = m
  PROVE  Promised(reply)'
  BY DEF Promised, Contract!Granted, Contract!Refused

(* Leaving a command with a status the contract allows.                    *)
LEMMA LeavePromises ==
  ASSUME NEW status, Leave(status),
         UNCHANGED <<command, list, overlooked, presence>>,
         Promised(Message(status, IF status = "OK" THEN response ELSE None))
  PROVE  PromiseInv'
<1>1. PICK m : m = Message(status, IF status = "OK" THEN response ELSE None)
  OBVIOUS
<1>2. Promised(m)'
  BY <1>1, PromisedKept
<1>3. pc' = "send" /\ reply' = m
  BY <1>1 DEF Leave
<1>4. Promised(reply)'
  BY <1>2, <1>3, PromisedReply
<1> QED  BY <1>3, <1>4 DEF PromiseInv, Working

LEMMA RefusalPromised ==
  ASSUME NEW status, status # "OK",
         Contract!Refused(Contract!Refusal(status))
  PROVE  Promised(Message(status, IF status = "OK" THEN response ELSE None))
  BY DEF Promised, Message, Contract!Refusal, Contract!Message

(* Before the user is asked a request may be refused as malformed or for a *)
(* failure; once it may be put to the user, with what the user or a cancel *)
(* made of it; and after that for a failure or a cancel.                   *)
LEMMA RefusalsBefore ==
  ASSUME ~presence, command \in {"make", "get"}
  PROVE  /\ Contract!Refused(Contract!Refusal("INVALID"))
         /\ Contract!Refused(Contract!Refusal("OTHER"))
  BY DEF Contract!Refused

LEMMA RefusalsAsked ==
  ASSUME ~presence, Contract!Asks
  PROVE  /\ Contract!Refused(Contract!Refusal("KEEPALIVE_CANCEL"))
         /\ Contract!Refused(Contract!Refusal("USER_ACTION_TIMEOUT"))
         /\ Contract!Refused(Contract!Refusal("OPERATION_DENIED"))
  BY DEF Contract!Refused

LEMMA RefusalsAfter ==
  ASSUME Contract!Asks, ~Contract!Excluded
  PROVE  /\ Contract!Refused(Contract!Refusal("KEEPALIVE_CANCEL"))
         /\ Contract!Refused(Contract!Refusal("OTHER"))
  BY DEF Contract!Refused, Contract!Asks

(* What the labels say of the list.                                        *)
LEMMA AskedRequest ==
  ASSUME IInv, pc \in Working
  PROVE  /\ Contract!Asks
         /\ pc \notin {"press", "pressed"} => ~Contract!Excluded
         /\ command = "make" /\ pc \notin {"press", "pressed"} => ~Contract!Knows
         /\ pc = "pressed" /\ excluded => Contract!Excluded
<1>1. command \in {"make", "get"}
  BY DEF IInv, ListInv, Working
<1>2. command = "get" => Contract!Knows
  BY DEF IInv, WorkInv, Working, KnownAs, Recognised, Contract!Knows,
         Contract!Recognised
<1>3. command = "make" =>
        /\ index = Len(list)
        /\ excluded = (\E i \in 1..Len(list) : Recognised(i))
  BY DEF IInv, ListInv, Working, Labels, Before
<1>4. command = "make" => excluded = Contract!Knows
  BY <1>3 DEF Contract!Knows, Contract!Recognised, Recognised
<1>5. command = "make" /\ pc \notin {"press", "pressed"} => ~excluded
  BY DEF IInv, ListInv, Working, Labels, Before
<1>6. command = "get" => ~excluded
  BY DEF IInv, ListInv, Working, Labels
<1> QED  BY <1>1, <1>2, <1>4, <1>5, <1>6 DEF Contract!Asks, Contract!Excluded

----------------------------------------------------------------------------
(* Steps that go on in a command and leave what was chosen alone.          *)
LEMMA GoOnPromises ==
  ASSUME PromiseInv, pc \in Working, pc' \in Working,
         pc' = "press" => ~presence',
         UNCHANGED <<command, list, overlooked>>,
         command = "get" => credential_id' = credential_id
  PROVE  PromiseInv'
<1>1. command = "get" => Contract!Chosen(credential_id)'
  BY DEF PromiseInv, Contract!Chosen, Contract!Recognised
<1> QED  BY <1>1 DEF PromiseInv, Working

LEMMA StartPromises ==
  ASSUME IInv, PromiseInv, Dispatch \/ Read
  PROVE  PromiseInv'
<1>1. /\ pc = "read" /\ ~presence
      /\ UNCHANGED <<command, list, overlooked, presence>>
  BY DEF Dispatch, Read, PromiseInv, request, history
<1>2. CASE Dispatch
  <2>1. PICK m : /\ pc' = "send" /\ reply' = m
                 /\ \/ /\ command = "info"
                       /\ m \in {Message("OK", Info), Message("OTHER", None)}
                    \/ m = Message("INVALID", None)
    BY <1>2 DEF Dispatch
  <2>2. Promised(m)
    BY <1>1, <2>1
       DEF Promised, Contract!Granted, Contract!Refused, Contract!Refusal,
           Contract!Message, Message, Contract!Excluded
  <2>3. Promised(reply)'
    BY <1>1, <2>1, <2>2, PromisedKept, PromisedReply
  <2> QED  BY <2>1, <2>3 DEF PromiseInv, Working
<1>3. CASE Read /\ pc' = "list"
  BY <1>1, <1>3 DEF PromiseInv, Working
<1>4. CASE Read /\ (Leave("INVALID") \/ Leave("OTHER"))
  <2>1. command \in {"make", "get"}
    BY <1>4 DEF Read
  <2> QED  BY <1>1, <1>4, <2>1, RefusalsBefore, RefusalPromised, LeavePromises
<1> QED  BY <1>2, <1>3, <1>4 DEF Read, Goto

LEMMA ListPromises ==
  ASSUME IInv, PromiseInv,
         Skip \/ OpenError \/ CheckExclude \/ FindCred \/ ListEnd
  PROVE  PromiseInv'
<1>1. /\ pc = "list" /\ ~presence /\ command \in {"make", "get"}
      /\ UNCHANGED <<command, list, presence>>
  BY DEF Skip, OpenError, CheckExclude, FindCred, ListEnd, More, PromiseInv,
         IInv, ListInv, request, history
<1>2. CASE Skip \/ CheckExclude
  BY <1>1, <1>2 DEF Skip, CheckExclude, PromiseInv, Working
<1>3. CASE OpenError
  BY <1>1, <1>3, RefusalsBefore, RefusalPromised, LeavePromises
     DEF OpenError, request
<1>4. CASE FindCred
  <2>1. More /\ command = "get"
    BY <1>4 DEF FindCred
  <2>2. CASE /\ pc' = "press" /\ Opens("OK") /\ credential_id' = Item
             /\ UNCHANGED overlooked
    <3>1. /\ index + 1 \in 1..Len(list) /\ Item \in Descriptors
          /\ index \in Nat /\ index + 1 \notin overlooked
      BY <2>1, OneMore DEF IInv, ListInv
    <3>2. Contract!Recognised(index + 1)
      BY <2>2, <3>1 DEF Opens, Descriptors, Contract!Recognised, Item
    <3>3. \A j \in 1..((index + 1) - 1) : ~Contract!Recognised(j)
      BY <1>1, <2>1, <3>1 DEF IInv, ListInv, Recognised, Contract!Recognised
    <3>4. Contract!Chosen(Item)
      BY <3>1, <3>2, <3>3 DEF Contract!Chosen, Item
    <3>5. Contract!Chosen(credential_id)'
      BY <1>1, <2>2, <3>4 DEF Contract!Chosen, Contract!Recognised
    <3> QED  BY <1>1, <2>2, <3>5 DEF PromiseInv, Working
  <2>3. CASE UNCHANGED pc
    BY <1>1, <2>3 DEF PromiseInv, Working
  <2> QED  BY <1>4, <2>2, <2>3 DEF FindCred, Goto
<1>5. CASE ListEnd
  <2>1. CASE command = "make" /\ pc' = "press"
    BY <1>1, <2>1 DEF PromiseInv, Working
  <2>2. CASE command = "get" /\ Leave("NO_CREDENTIALS")
    <3>1. \A i \in 1..Len(list) : ~Recognised(i)
      BY <1>1, <1>5, <2>2 DEF ListEnd, IInv, ListInv
    <3>2. ~Contract!Knows
      BY <3>1 DEF Contract!Knows, Contract!Recognised, Recognised
    <3>3. Contract!Refused(Contract!Refusal("NO_CREDENTIALS"))
      BY <1>1, <2>2, <3>2 DEF Contract!Refused
    <3> QED  BY <1>1, <1>5, <2>2, <3>3, RefusalPromised, LeavePromises
             DEF ListEnd, request
  <2> QED  BY <1>5, <2>1, <2>2 DEF ListEnd, Goto
<1> QED  BY <1>2, <1>3, <1>4, <1>5

LEMMA PressPromises ==
  ASSUME IInv, PromiseInv, PressOK \/ PressFails \/ Pressed
  PROVE  PromiseInv'
<1>1. pc \in {"press", "pressed"} /\ UNCHANGED <<command, list, overlooked>>
  BY DEF PressOK, PressFails, Pressed, request
<1>2. Contract!Asks
  BY <1>1, AskedRequest DEF Working
<1>3. CASE PressOK
  <2>1. pc \in Working /\ pc' = "pressed" /\ credential_id' = credential_id
    BY <1>1, <1>3 DEF PressOK, Goto, work, Working
  <2> QED  BY <1>1, <2>1, GoOnPromises DEF Working
<1>4. CASE PressFails
  <2>1. ~presence /\ UNCHANGED presence
    BY <1>4 DEF PressFails, PromiseInv, history
  <2>2. PICK status \in {"KEEPALIVE_CANCEL", "USER_ACTION_TIMEOUT",
                         "OPERATION_DENIED"} : Leave(status)
    BY <1>4 DEF PressFails
  <2>3. Contract!Refused(Contract!Refusal(status))
    BY <1>2, <2>1, <2>2, RefusalsAsked
  <2> QED  BY <1>1, <2>1, <2>2, <2>3, RefusalPromised, LeavePromises
<1>5. CASE Pressed
  <2>1. /\ pc = "pressed" /\ presence /\ UNCHANGED presence
    BY <1>5 DEF Pressed, IInv, PresenceInv, Labels, Before, history
  <2>2. CASE excluded /\ Leave("CREDENTIAL_EXCLUDED")
    <3>1. Contract!Excluded
      BY <2>1, <2>2, AskedRequest DEF Working
    <3>2. Contract!Refused(Contract!Refusal("CREDENTIAL_EXCLUDED"))
      BY <2>1, <3>1 DEF Contract!Refused
    <3> QED  BY <1>1, <2>1, <2>2, <3>2, RefusalPromised, LeavePromises
  <2>3. CASE pc' = "check1" /\ UNCHANGED work
    <3>1. pc \in Working /\ credential_id' = credential_id
      BY <2>1, <2>3 DEF Working, work
    <3> QED  BY <1>1, <2>3, <3>1, GoOnPromises DEF Working
  <2> QED  BY <1>5, <2>2, <2>3 DEF Pressed, Goto
<1> QED  BY <1>3, <1>4, <1>5

(* From the first test for a cancel to the encoding of the response.       *)
LEMMA WorkPromises ==
  ASSUME IInv, PromiseInv,
         \/ Check1 \/ Check2 \/ Check3
         \/ Generate \/ WrapKey \/ Digest \/ Sign \/ Encode
  PROVE  PromiseInv'
<1>1. /\ pc \in {"check1", "first", "check2", "second", "check3", "encode"}
      /\ UNCHANGED <<command, list, overlooked, presence>>
  BY DEF Check1, Check2, Check3, CancelPoint, Generate, WrapKey, Digest, Sign,
         Encode, request, history
<1>2. pc \in Working
  BY <1>1 DEF Working
<1>3. CASE Leave("KEEPALIVE_CANCEL") \/ Leave("OTHER")
  <2>1. /\ Contract!Refused(Contract!Refusal("KEEPALIVE_CANCEL"))
        /\ Contract!Refused(Contract!Refusal("OTHER"))
    BY <1>1, <1>2, AskedRequest, RefusalsAfter
  <2> QED  BY <1>1, <1>3, <2>1, RefusalPromised, LeavePromises
<1>4. CASE /\ pc' \in {"first", "check2", "second", "check3", "encode", "check4"}
           /\ command = "get" => credential_id' = credential_id
  BY <1>1, <1>2, <1>4, GoOnPromises DEF Working
<1> QED
  <2>1. CASE Check1 \/ Check2 \/ Check3
    BY <2>1, <1>3, <1>4 DEF Check1, Check2, Check3, CancelPoint, Goto, work
  <2>2. CASE Generate \/ WrapKey \/ Digest \/ Sign \/ Encode
    BY <2>2, <1>3, <1>4 DEF Generate, WrapKey, Digest, Sign, Encode, Goto, work
  <2> QED  BY <2>1, <2>2

LEMMA LastPromises ==
  ASSUME IInv, PromiseInv, Check4
  PROVE  PromiseInv'
<1>1. /\ pc = "check4" /\ pc \in Working /\ presence
      /\ command \in {"make", "get"}
      /\ UNCHANGED <<command, list, overlooked, presence>>
  BY DEF Check4, IInv, ListInv, PresenceInv, Working, Labels, Before, request,
         history
<1>2. CASE Leave("KEEPALIVE_CANCEL")
  <2>1. Contract!Refused(Contract!Refusal("KEEPALIVE_CANCEL"))
    BY <1>1, AskedRequest, RefusalsAfter
  <2> QED  BY <1>1, <1>2, <2>1, RefusalPromised, LeavePromises
<1>3. CASE Leave("OK")
  <2>1. CASE command = "make"
    <3>1. response = Body(New, None) /\ ~Contract!Knows
      BY <1>1, <2>1, AskedRequest DEF IInv, WorkInv
    <3>2. Promised(Message("OK", response))
      BY <1>1, <2>1, <3>1
         DEF Promised, Contract!Granted, Contract!Message, Message, Body
    <3> QED  BY <1>1, <1>3, <3>2, LeavePromises
  <2>2. CASE command = "get"
    <3>1. /\ response = Body(credential_id, credential_id)
          /\ credential_id \in Own /\ Contract!Chosen(credential_id)
      BY <1>1, <2>2 DEF IInv, WorkInv, PromiseInv
    <3>2. Promised(Message("OK", response))
      BY <1>1, <2>2, <3>1
         DEF Promised, Contract!Granted, Contract!Message, Message, Body
    <3> QED  BY <1>1, <1>3, <3>2, LeavePromises
  <2> QED  BY <1>1, <2>1, <2>2
<1> QED  BY <1>2, <1>3 DEF Check4

LEMMA NextPromiseInv == IInv /\ PromiseInv /\ [Next]_vars => PromiseInv'
<1> SUFFICES ASSUME IInv, PromiseInv, [Next]_vars PROVE PromiseInv'
  OBVIOUS
<1>1. CASE \E cmd \in Commands, descriptors \in Lists :
              Receive(cmd, descriptors)
  BY <1>1 DEF Receive, PromiseInv, Working
<1>2. CASE Command /\ ~Send
  BY <1>2, StartPromises, ListPromises, PressPromises, WorkPromises,
     LastPromises DEF Command
<1>3. CASE Send
  BY <1>3 DEF Send, Goto, PromiseInv, Working
<1>4. CASE CancelArrives \/ ClaimEnds \/ UNCHANGED vars
  <2>1. UNCHANGED <<pc, command, list, overlooked, credential_id, reply,
                    presence>>
    BY <1>4 DEF CancelArrives, ClaimEnds, vars, request, work, history
  <2>2. Promised(reply) => Promised(reply)'
    BY <2>1, PromisedKept, PromisedReply
  <2>3. Contract!Chosen(credential_id) => Contract!Chosen(credential_id)'
    BY <2>1 DEF Contract!Chosen, Contract!Recognised
  <2> QED  BY <2>1, <2>2, <2>3 DEF PromiseInv
<1> QED  BY <1>1, <1>2, <1>3, <1>4 DEF Next

----------------------------------------------------------------------------
(* The steps of the request are steps of the contract.                     *)

Kept == [Contract!Next]_(Contract!promise)

(* What the contract speaks of stands still.                               *)
LEMMA Unnoticed ==
  ASSUME pc # "idle", pc' # "idle",
         UNCHANGED <<command, list, overlooked, cancelled, gone, presence,
                     sent>>
  PROVE  Kept
<1>1. (pc' # "idle") = (pc # "idle")
  OBVIOUS
<1> QED  BY <1>1 DEF Kept, Contract!promise

LEMMA PromisedForm ==
  ASSUME NEW m, Promised(m)
  PROVE  \E status \in Contract!Statuses, body \in Contract!Bodies :
            m = Contract!Message(status, body)
<1>1. None \in Contract!Bodies /\ Info \in Contract!Bodies
  BY DEF Contract!Bodies
<1>2. \A id \in Own \union {New}, sig \in Own \union {None} :
         [id |-> id, signature |-> sig] \in Contract!Bodies
  BY DEF Contract!Bodies
<1>3. CASE Contract!Granted(m)
  <2>1. PICK body \in Contract!Bodies : m = Contract!Message("OK", body)
    BY <1>1, <1>2, <1>3 DEF Contract!Granted
  <2>2. "OK" \in Contract!Statuses
    BY DEF Contract!Statuses
  <2> QED  BY <2>1, <2>2
<1>4. CASE Contract!Refused(m)
  <2>1. PICK status \in Contract!Statuses : m = Contract!Refusal(status)
    BY <1>4 DEF Contract!Refused, Contract!Statuses
  <2> QED  BY <1>1, <2>1 DEF Contract!Refusal
<1> QED  BY <1>3, <1>4 DEF Promised

LEMMA SendKept ==
  ASSUME PromiseInv, Send
  PROVE  Kept
<1>1. /\ pc = "send" /\ pc' = "idle" /\ Promised(reply)
      /\ UNCHANGED <<command, list, overlooked, cancelled, gone, presence>>
  BY DEF Send, Goto, PromiseInv, request, transport
<1>2. /\ (pc # "idle") = TRUE
      /\ (pc' # "idle") = FALSE
  BY <1>1
<1>3. CASE sent' = Message("none", None)
  BY <1>1, <1>2, <1>3 DEF Kept, Contract!Next, Contract!Silence,
     Contract!Nothing, Contract!Refusal, Contract!Message, Message
<1>4. CASE ~gone /\ cancelled /\ sent' = Message("KEEPALIVE_CANCEL", None)
  BY <1>1, <1>2, <1>4 DEF Kept, Contract!Next, Contract!AnswerCancelled,
     Contract!Tell, Contract!Refusal, Contract!Message, Message
<1>5. CASE ~gone /\ ~cancelled /\ sent' = reply
  <2>1. Contract!Answer(reply)
    BY <1>1, <1>2, <1>5 DEF Contract!Answer, Contract!Tell, Promised
  <2>2. PICK status \in Contract!Statuses, body \in Contract!Bodies :
           reply = Contract!Message(status, body)
    BY <1>1, PromisedForm
  <2>3. Contract!Answer(Contract!Message(status, body))
    BY <2>1, <2>2
  <2> QED  BY <2>3 DEF Kept, Contract!Next
<1> QED  BY <1>3, <1>4, <1>5 DEF Send, Sends

LEMMA NextKept == IInv /\ BodyInv /\ PromiseInv /\ [Next]_vars => Kept
<1> SUFFICES ASSUME IInv, BodyInv, PromiseInv, [Next]_vars PROVE Kept
  OBVIOUS
<1>1. ASSUME NEW cmd \in Commands, NEW descriptors \in Lists,
             Receive(cmd, descriptors)
      PROVE  Kept
  <2>1. /\ (pc # "idle") = FALSE
        /\ (pc' # "idle") = TRUE
    BY <1>1 DEF Receive
  <2>2. Contract!Ask(cmd, descriptors)
    BY <1>1, <2>1 DEF Receive, Contract!Ask, Contract!Nothing,
       Contract!Refusal, Contract!Message, Message
  <2> QED  BY <2>2 DEF Kept, Contract!Next
<1>2. CASE PressOK
  <2>1. /\ pc = "press" /\ ~presence /\ Contract!Asks
        /\ (pc # "idle") = TRUE /\ (pc' # "idle") = TRUE
    BY <1>2, AskedRequest DEF PressOK, Goto, PromiseInv, Working
  <2>2. Contract!Consent
    BY <1>2, <2>1 DEF PressOK, Contract!Consent, request, transport
  <2> QED  BY <2>2 DEF Kept, Contract!Next
<1>3. CASE Send
  BY <1>3, SendKept
<1>4. CASE Command /\ ~Send /\ ~PressOK /\ UNCHANGED overlooked
  <2>1. pc \in Labels \ {"idle"}
    BY <1>4 DEF Command, Dispatch, Read, Skip, OpenError, CheckExclude,
       FindCred, ListEnd, PressFails, Pressed, Check1, Check2, Check3,
       CancelPoint, Generate, Digest, WrapKey, Sign, Encode, Check4, More,
       Labels
  <2>2. UNCHANGED <<command, list, overlooked, cancelled, gone, presence,
                    sent>>
    BY <1>4 DEF Command, Dispatch, Read, Skip, OpenError, CheckExclude,
       FindCred, ListEnd, PressFails, Pressed, Check1, Check2, Check3,
       CancelPoint, Generate, Digest, WrapKey, Sign, Encode, Check4,
       request, transport, history
  <2>3. pc' # "idle"
    BY <1>4, <2>1 DEF Command, Dispatch, Read, Skip, OpenError, CheckExclude,
       FindCred, ListEnd, PressFails, Pressed, Check1, Check2, Check3,
       CancelPoint, Generate, Digest, WrapKey, Sign, Encode, Check4, Goto,
       Leave, More
  <2> QED  BY <2>1, <2>2, <2>3, Unnoticed
<1>5. CASE (CheckExclude \/ FindCred) /\ overlooked' # overlooked
  <2>1. /\ More /\ Item \in Own /\ pc' = pc
        /\ overlooked' = overlooked \union {index + 1}
        /\ UNCHANGED <<command, list, cancelled, gone, presence, sent>>
    BY <1>5 DEF CheckExclude, FindCred, Overlooks, transport, history
  <2>2. /\ index + 1 \in 1..Len(list) /\ list[index + 1] \in Own
        /\ ~presence /\ (pc # "idle") = TRUE /\ (pc' # "idle") = TRUE
    BY <2>1, OneMore DEF More, Item, PromiseInv
  <2>3. Contract!Overlook(index + 1)
    BY <2>1, <2>2 DEF Contract!Overlook
  <2> QED  BY <2>2, <2>3 DEF Kept, Contract!Next
<1>6. CASE Command /\ overlooked' # overlooked
  BY <1>5, <1>6 DEF Command, Dispatch, Read, Skip, OpenError, ListEnd,
     PressOK, PressFails, Pressed, Check1, Check2, Check3, CancelPoint,
     Generate, Digest, WrapKey, Sign, Encode, Check4, Send, request
<1>7. CASE CancelArrives
  <2>1. (pc' # "idle") = (pc # "idle")
    BY <1>7 DEF CancelArrives
  <2>2. Contract!Cancel
    BY <1>7, <2>1 DEF CancelArrives, Contract!Cancel, request, history
  <2> QED  BY <2>2 DEF Kept, Contract!Next
<1>8. CASE ClaimEnds
  <2>1. (pc' # "idle") = (pc # "idle")
    BY <1>8 DEF ClaimEnds
  <2>2. Contract!GiveUp
    BY <1>8, <2>1 DEF ClaimEnds, Contract!GiveUp, request, history
  <2> QED  BY <2>2 DEF Kept, Contract!Next
<1>9. CASE UNCHANGED vars
  <2>1. (pc' # "idle") = (pc # "idle")
    BY <1>9 DEF vars
  <2> QED  BY <1>9, <2>1 DEF vars, Kept, Contract!promise
<1> QED  BY <1>1, <1>2, <1>3, <1>4, <1>6, <1>7, <1>8, <1>9 DEF Next

LEMMA InitKept == Init => Contract!Init
<1> SUFFICES ASSUME Init PROVE Contract!Init
  OBVIOUS
<1>1. (pc # "idle") = FALSE
  BY DEF Init
<1> QED  BY <1>1 DEF Init, Contract!Init, Contract!Nothing, Contract!Refusal,
         Contract!Message, Message, Commands

(* For any credentials, lists of any length, whatever fails and whichever  *)
(* credentials are overlooked: the request task with its commands is an    *)
(* authenticator as the contract has it.                                   *)
THEOREM AuthenticatorImplemented == Spec => ImplementsAuthenticator
<1>1. IInv /\ BodyInv /\ PromiseInv /\ [Next]_vars
        => [Contract!Next]_(Contract!promise)
  BY NextKept DEF Kept
<1> QED  BY <1>1, InitKept, InitIInv, NextIInv, InitBodyInv, NextBodyInv,
         InitPromiseInv, NextPromiseInv, PTL
         DEF Spec, ImplementsAuthenticator, Contract!Spec

----------------------------------------------------------------------------
(* The steps of the task that are still to come for a request, at most:    *)
(* one for every label ahead, and one for every descriptor not looked at.  *)
Ahead == [idle |-> 0, send |-> 1, check4 |-> 2, encode |-> 3, check3 |-> 4,
          second |-> 5, check2 |-> 6, first |-> 7, check1 |-> 8, pressed |-> 9,
          press |-> 10, list |-> 11, read |-> 12]

Unseen == IF pc \in {"read", "list"} THEN Len(list) - index ELSE 0

StepsLeft == Ahead[pc] + Unseen

LEMMA AheadNumbers ==
  /\ \A label \in Labels : Ahead[label] \in 0..12
  /\ \A label \in Labels : Ahead[label] = 0 <=> label = "idle"
  /\ \A label \in Labels \ {"idle", "send"} : Ahead["send"] < Ahead[label]
  BY DEF Ahead, Labels

LEMMA UnseenNumber == IInv => Unseen \in Nat /\ Unseen <= Len(list)
<1> SUFFICES ASSUME IInv PROVE Unseen \in Nat /\ Unseen <= Len(list)
  OBVIOUS
<1>1. /\ list \in Seq(Descriptors)
      /\ index \in 0..Len(list)
  BY DEF IInv, ListInv
<1>2. Len(list) \in Nat
  BY <1>1
<1> QED  BY <1>1, <1>2 DEF Unseen

LEMMA StepsLeftNumber ==
  IInv => /\ StepsLeft \in Nat
          /\ StepsLeft = 0 <=> pc = "idle"
          /\ StepsLeft <= 12 + Len(list)
<1> SUFFICES ASSUME IInv PROVE /\ StepsLeft \in Nat
                               /\ StepsLeft = 0 <=> pc = "idle"
                               /\ StepsLeft <= 12 + Len(list)
  OBVIOUS
<1>1. /\ Unseen \in Nat /\ Unseen <= Len(list) /\ Len(list) \in Nat
      /\ pc = "idle" => Unseen = 0
  BY UnseenNumber DEF Unseen, IInv, ListInv
<1>2. pc \in Labels
  BY DEF IInv, WorkInv
<1>3. /\ Ahead[pc] \in 0..12
      /\ Ahead[pc] = 0 <=> pc = "idle"
  BY <1>2, AheadNumbers
<1>4. \A a \in 0..12, u \in Nat, n \in Nat :
         u <= n => /\ a + u \in Nat
                   /\ a + u <= 12 + n
                   /\ a + u = 0 <=> a = 0 /\ u = 0
  OBVIOUS
<1>5. /\ StepsLeft \in Nat /\ StepsLeft <= 12 + Len(list)
      /\ StepsLeft = 0 <=> Ahead[pc] = 0 /\ Unseen = 0
  BY <1>1, <1>3, <1>4, Zenon DEF StepsLeft
<1> QED  BY <1>1, <1>3, <1>5, Zenon

(* Going on to a label further on, or leaving.                             *)
LEMMA Onward ==
  ASSUME IInv, IInv', pc \in Labels, pc' \in Labels,
         Ahead[pc'] < Ahead[pc],
         UNCHANGED <<list, index>> \/ pc' \notin {"read", "list"}
  PROVE  StepsLeft' < StepsLeft
<1>1. Ahead[pc'] \in Nat /\ Ahead[pc] \in Nat
  BY AheadNumbers
<1>2. Unseen \in Nat /\ Unseen' \in Nat
  <2>1. index' \in 0..Len(list') /\ list' \in Seq(Descriptors)
    BY DEF IInv, ListInv
  <2>2. Len(list') \in Nat
    BY <2>1
  <2>3. Unseen' \in Nat
    BY <2>1, <2>2 DEF Unseen
  <2> QED  BY <2>3, UnseenNumber
<1>3. Unseen' <= Unseen
  <2>1. CASE pc' \notin {"read", "list"}
    BY <1>2, <2>1 DEF Unseen
  <2>2. CASE pc' \in {"read", "list"} /\ UNCHANGED <<list, index>>
    <3>1. pc \in {"read", "list"}
      BY <2>2 DEF Ahead, Labels
    <3> QED  BY <1>2, <2>2, <3>1 DEF Unseen
  <2> QED  BY <2>1, <2>2
<1>4. StepsLeft = Ahead[pc] + Unseen /\ StepsLeft' = Ahead[pc'] + Unseen'
  BY DEF StepsLeft, Ahead
<1> QED  BY <1>1, <1>2, <1>3, <1>4

LEMMA NextDescriptor ==
  ASSUME IInv, More, UNCHANGED <<pc, list>>, index' = index + 1
  PROVE  StepsLeft' < StepsLeft
<1>1. /\ pc = "list" /\ index \in Nat /\ Len(list) \in Nat
  BY DEF More, IInv, ListInv
<1>2. Unseen = Len(list) - index /\ Unseen' = Len(list) - (index + 1)
  BY <1>1 DEF Unseen
<1>3. StepsLeft = 11 + Unseen /\ StepsLeft' = 11 + Unseen'
  BY <1>1 DEF StepsLeft, Ahead
<1> QED  BY <1>1, <1>2, <1>3

LEMMA CommandShortens ==
  ASSUME IInv, IInv', Command
  PROVE  StepsLeft' < StepsLeft
<1>1. pc \in Labels /\ pc' \in Labels
  BY DEF IInv, WorkInv
<1>2. ASSUME NEW status, Leave(status), pc \notin {"idle", "send"}
      PROVE  StepsLeft' < StepsLeft
  <2>1. pc' = "send"
    BY <1>2 DEF Leave
  <2>2. Ahead[pc'] < Ahead[pc]
    BY <1>1, <1>2, <2>1, AheadNumbers
  <2> QED  BY <1>1, <2>1, <2>2, Onward
<1>3. CASE Skip \/ CheckExclude
  BY <1>3, NextDescriptor DEF Skip, CheckExclude, request
<1>4. CASE FindCred /\ pc' = pc
  BY <1>4, NextDescriptor DEF FindCred, request, More, Goto
<1>5. CASE \/ Dispatch \/ Send \/ PressOK
           \/ FindCred /\ pc' # pc
  <2>1. /\ Ahead[pc'] < Ahead[pc]
        /\ pc' \notin {"read", "list"}
    BY <1>5 DEF Dispatch, Send, PressOK, FindCred, Goto, More, Ahead
  <2> QED  BY <1>1, <2>1, Onward
<1>6. CASE Read
  <2>1. CASE pc' = "list"
    <3>1. Ahead[pc'] < Ahead[pc] /\ UNCHANGED <<list, index>>
      BY <1>6, <2>1 DEF Read, Goto, Leave, Ahead, request
    <3> QED  BY <1>1, <3>1, Onward
  <2> QED  BY <1>6, <2>1, <1>2 DEF Read, Goto
<1>7. CASE OpenError \/ PressFails
  BY <1>7, <1>2 DEF OpenError, PressFails, More
<1>8. CASE ListEnd \/ Pressed \/ Check1 \/ Check2 \/ Check3
  <2>1. pc \notin {"idle", "send"}
    BY <1>8 DEF ListEnd, Pressed, Check1, Check2, Check3, CancelPoint
  <2>2. CASE pc' # "send"
    <3>1. /\ Ahead[pc'] < Ahead[pc]
          /\ pc' \notin {"read", "list"}
      BY <1>8, <2>2 DEF ListEnd, Pressed, Check1, Check2, Check3, CancelPoint,
         Goto, Leave, Ahead
    <3> QED  BY <1>1, <3>1, Onward
  <2>3. CASE pc' = "send"
    <3>1. Ahead[pc'] < Ahead[pc]
      BY <1>1, <2>1, <2>3, AheadNumbers
    <3> QED  BY <1>1, <2>3, <3>1, Onward
  <2> QED  BY <2>2, <2>3
<1>9. CASE Generate \/ WrapKey \/ Digest \/ Sign \/ Encode \/ Check4
  <2>1. /\ Ahead[pc'] < Ahead[pc]
        /\ pc' \notin {"read", "list"}
    BY <1>9 DEF Generate, WrapKey, Digest, Sign, Encode, Check4, Goto, Leave,
       Ahead
  <2> QED  BY <1>1, <2>1, Onward
<1> QED  BY <1>3, <1>4, <1>5, <1>6, <1>7, <1>8, <1>9 DEF Command

(* Every request is over after at most twelve steps of the task and one for *)
(* every descriptor of its list, and nothing the transport does makes them *)
(* more.                                                                   *)
Bounded == /\ pc # "idle" => StepsLeft \in 1..(12 + Len(list))
           /\ pc = "idle" => StepsLeft = 0

Shortens == /\ Command => StepsLeft' < StepsLeft
            /\ CancelArrives \/ ClaimEnds => StepsLeft' = StepsLeft

THEOREM RequestShortens == Spec => []Bounded /\ [][Shortens]_vars
<1>1. IInv => Bounded
  <2> SUFFICES ASSUME IInv PROVE Bounded
    OBVIOUS
  <2>1. Len(list) \in Nat
    BY DEF IInv, ListInv
  <2> QED  BY <2>1, StepsLeftNumber DEF Bounded
<1>2. IInv /\ IInv' => Shortens
  <2> SUFFICES ASSUME IInv, IInv' PROVE Shortens
    OBVIOUS
  <2>1. CASE CancelArrives \/ ClaimEnds
    <3>1. UNCHANGED <<pc, list, index>>
      BY <2>1 DEF CancelArrives, ClaimEnds, request
    <3>2. StepsLeft' = StepsLeft
      BY <3>1 DEF StepsLeft, Ahead, Unseen
    <3> QED  BY <3>2, CommandShortens DEF Shortens
  <2> QED  BY CommandShortens, <2>1 DEF Shortens
<1> QED  BY <1>1, <1>2, InitIInv, NextIInv, PTL DEF Spec
=============================================================================
