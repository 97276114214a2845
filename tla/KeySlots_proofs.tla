-------------------------- MODULE KeySlots_proofs --------------------------
(***************************************************************************)
(* Proofs about module KeySlots, for a store of any number of slots.  The  *)
(* invariant says which slots a call still has to answer for at each of    *)
(* its steps: those named by key_id and check_id, and no other.            *)
(***************************************************************************)
EXTENDS KeySlots, TLAPS

(* The steps before an error or the first attempt to free a slot.          *)
Early == {"import", "setup", "update", "finish", "destroy", "use", "check"}

(* The steps of a gcm call with its operation, and of a p256 call.         *)
GcmSteps  == {"setup", "update", "finish", "destroy", "abort"}
P256Steps == {"use", "check"}

(* What the locals name: nothing before the import, the key from then on,  *)
(* and the second slot only on the way out.                                *)
Named == /\ pc = "import" => key_id = None /\ check_id = None
         /\ pc \in GcmSteps \union P256Steps => check_id = None
         /\ pc = "retry" => /\ NextToDrop # None
                            /\ tries[NextToDrop] >= 1
         /\ pc \in GcmSteps => call \in Gcm
         /\ pc \in P256Steps => call \in P256
         /\ pc \in (GcmSteps \ {"abort"}) => key_id # None

(* A slot that holds a key is one the call will free, or the library has   *)
(* refused to free it twice.                                               *)
Accounted == \A s \in slots : \/ pc # "idle" /\ s \in {key_id, check_id}
                            \/ tries[s] >= 2

(* While the status is good the call has lost none of its slots.           *)
Owned == pc # "idle" /\ status = "SUCCESS"
           => mine \intersect slots \subseteq {key_id, check_id}

(* The status: good up to the first error, and what became of a verdict.   *)
Course == /\ pc \in Early => status = "SUCCESS"
          /\ pc = "abort" => status # "SUCCESS"
          /\ pc # "idle" => result = "NONE"
          /\ pc # "idle" /\ verdict = "bad" => status # "SUCCESS"
          /\ pc # "idle" /\ status = "INVALID_SIGNATURE" => verdict = "bad"

(* The buffers at the steps that end a call, and the AEAD operation.       *)
Clean == /\ pc = "import" => output = "none"
         /\ pc \notin {"setup", "update", "finish", "abort"} => op = "inactive"

IInv == /\ KeySlotsTypeOK
        /\ Named
        /\ Accounted
        /\ Owned
        /\ Course
        /\ Clean
        /\ OkMeansReleased
        /\ VerdictKept
        /\ NothingWithoutOk

----------------------------------------------------------------------------
LEMMA InitInv == Init => IInv
  BY KeySlotsAssumption
  DEF Init, IInv, Gcm, KeySlotsTypeOK, Named, Accounted, Owned, Course, Clean,
      Early,
      GcmSteps, P256Steps, OkMeansReleased, VerdictKept, NothingWithoutOk

----------------------------------------------------------------------------
LEMMA CallInv == ASSUME IInv, NEW f \in Gcm \union P256, Call(f) PROVE IInv'
  BY DEF IInv, Call, KeySlotsTypeOK, Named, Accounted, Owned, Course, Clean,
         Early,
         GcmSteps, P256Steps, OkMeansReleased, VerdictKept, NothingWithoutOk

LEMMA RefuseInv == ASSUME IInv, Refuse PROVE IInv'
  BY KeySlotsAssumption
  DEF IInv, Refuse, Store, ids, KeySlotsTypeOK, Named, Accounted, Owned,
      Course,
         Clean, Early, GcmSteps, P256Steps, OkMeansReleased, VerdictKept,
         NothingWithoutOk

(* A step of the way that touches neither the store nor the locals that    *)
(* name slots keeps what is said of them.                                  *)
LEMMA SameSlots ==
  ASSUME KeySlotsTypeOK, Accounted, Owned, UNCHANGED Store, UNCHANGED ids,
         pc # "idle", pc' # "idle", status' = "SUCCESS" => status = "SUCCESS"
  PROVE  Accounted' /\ Owned'
  BY DEF KeySlotsTypeOK, Accounted, Owned, Store, ids

LEMMA ImportInv == ASSUME IInv, Import PROVE IInv'
<1> USE DEF IInv
<1>1. /\ pc = "import"
      /\ status = "SUCCESS"
      /\ UNCHANGED <<call, check_id, op, output, result, verdict>>
  BY DEF Import, Course, Early
<1>2. CASE \E s \in Slots : /\ Given(s)
                            /\ key_id' = s
                            /\ Goto(IF call \in Gcm THEN "setup" ELSE "use")
  BY <1>1, <1>2, KeySlotsAssumption
  DEF Given, Goto, KeySlotsTypeOK, Named, Accounted, Owned, Course, Clean,
      Early,
      GcmSteps, P256Steps, OkMeansReleased, VerdictKept, NothingWithoutOk
<1>3. CASE Fail("ERROR") /\ UNCHANGED <<Store, key_id>>
  BY <1>1, <1>3
  DEF Fail, Store, KeySlotsTypeOK, Named, Accounted, Owned, Course, Clean,
      Early,
      GcmSteps, P256Steps, OkMeansReleased, VerdictKept, NothingWithoutOk
<1>4. QED
  BY <1>2, <1>3 DEF Import

(* The steps of a gcm call between import and destroy.                     *)
LEMMA GcmStepInv == ASSUME IInv, Setup \/ Update \/ Finish PROVE IInv'
<1> USE DEF IInv
<1>1. CASE Setup
  BY <1>1, SameSlots
  DEF Setup, Fail, Goto, Store, ids, KeySlotsTypeOK, Named, Course, Clean,
      Early,
      GcmSteps, P256Steps, NextToDrop, OkMeansReleased, VerdictKept,
      NothingWithoutOk
<1>2. CASE Update
  BY <1>2, SameSlots
  DEF Update, Fail, Goto, Store, ids, KeySlotsTypeOK, Named, Course, Clean,
      Early,
      GcmSteps, P256Steps, NextToDrop, OkMeansReleased, VerdictKept,
      NothingWithoutOk
<1>3. CASE Finish
  BY <1>3, SameSlots
  DEF Finish, Fail, Goto, Store, ids, KeySlotsTypeOK, Named, Course, Clean,
      Early,
      GcmSteps, P256Steps, NextToDrop, OkMeansReleased, VerdictKept,
      NothingWithoutOk
<1>4. QED
  BY <1>1, <1>2, <1>3

LEMMA AbortInv == ASSUME IInv, Abort PROVE IInv'
  BY SameSlots
  DEF IInv, Abort, Goto, Store, ids, KeySlotsTypeOK, Named, Course, Clean,
      Early,
      GcmSteps, P256Steps, OkMeansReleased, VerdictKept, NothingWithoutOk

LEMMA UseInv == ASSUME IInv, Use PROVE IInv'
  BY SameSlots
  DEF IInv, Use, Fail, Goto, Store, ids, KeySlotsTypeOK, Named, Course, Clean,
      Early,
      Gcm, P256, GcmSteps, P256Steps, OkMeansReleased, VerdictKept,
      NothingWithoutOk

LEMMA CheckInv == ASSUME IInv, Check PROVE IInv'
<1> USE DEF IInv
<1>1. /\ pc = "check"
      /\ status = "SUCCESS"
      /\ call \notin Gcm
      /\ check_id = None
      /\ UNCHANGED <<call, key_id, op, output, result, verdict>>
  BY DEF Check, Course, Named, Early, P256Steps, Gcm, P256
<1>2. CASE \E s \in Slots : Given(s) /\ check_id' = s /\ Goto("drop")
  BY <1>1, <1>2, KeySlotsAssumption
  DEF Given, Goto, KeySlotsTypeOK, Named, Accounted, Owned, Course, Clean,
      Early,
      GcmSteps, P256Steps, OkMeansReleased, VerdictKept, NothingWithoutOk
<1>3. CASE Fail("ERROR") /\ UNCHANGED <<Store, check_id>>
  BY <1>1, <1>3
  DEF Fail, Store, KeySlotsTypeOK, Named, Accounted, Owned, Course, Clean,
      Early,
      GcmSteps, P256Steps, OkMeansReleased, VerdictKept, NothingWithoutOk
<1>4. QED
  BY <1>2, <1>3 DEF Check

----------------------------------------------------------------------------
(* Freeing: an attempt that succeeds takes the slot out of the store, one  *)
(* that fails is counted, and no other slot is touched by either.          *)
LEMMA Freed ==
  ASSUME KeySlotsTypeOK, NEW s \in Slots, DestroySucceeds(s)
  PROVE  /\ slots' = slots \ {s}
         /\ tries' \in [Slots -> Nat]
         /\ \A t \in Slots \ {s} : tries'[t] = tries[t]
  BY DEF KeySlotsTypeOK, DestroySucceeds

LEMMA NotFreed ==
  ASSUME KeySlotsTypeOK, NEW s \in Slots, DestroyFails(s)
  PROVE  /\ slots' \in SUBSET slots
         /\ tries' \in [Slots -> Nat]
         /\ tries'[s] = tries[s] + 1
         /\ \A t \in Slots \ {s} : tries'[t] = tries[t]
  BY DEF KeySlotsTypeOK, DestroyFails

(* The gcm calls free their slot themselves after a good result.           *)
LEMMA DestroyInv == ASSUME IInv, Destroy PROVE IInv'
<1> USE DEF IInv
<1>1. /\ pc = "destroy"
      /\ status = "SUCCESS"
      /\ call \in Gcm
      /\ check_id = None
      /\ key_id \in Slots
      /\ key_id # None
      /\ UNCHANGED <<call, ids, op, output, mine, verdict>>
  BY DEF Destroy, Course, Named, KeySlotsTypeOK, Early, GcmSteps
<1>2. CASE DestroySucceeds(key_id) /\ Return("SUCCESS") /\ UNCHANGED status
  <2>1. /\ slots' = slots \ {key_id}
        /\ tries' \in [Slots -> Nat]
        /\ \A t \in Slots \ {key_id} : tries'[t] = tries[t]
    BY <1>1, <1>2, Freed
  <2>2. pc' = "idle" /\ result' = "OK"
    BY <1>2 DEF Return
  <2> QED
    BY <1>1, <1>2, <2>1, <2>2, KeySlotsAssumption
    DEF ids, KeySlotsTypeOK, Named, Accounted, Owned, Course, Clean, Early,
        GcmSteps,
        P256Steps, OkMeansReleased, VerdictKept, NothingWithoutOk
<1>3. CASE DestroyFails(key_id) /\ Fail("ERROR") /\ UNCHANGED result
  <2>1. /\ slots' \in SUBSET slots
        /\ tries' \in [Slots -> Nat]
        /\ \A t \in Slots \ {key_id} : tries'[t] = tries[t]
    BY <1>1, <1>3, NotFreed
  <2> QED
    BY <1>1, <1>3, <2>1
    DEF ids, Fail, KeySlotsTypeOK, Named, Accounted, Owned, Course, Clean,
        Early,
        GcmSteps, P256Steps, OkMeansReleased, VerdictKept, NothingWithoutOk
<1>4. QED
  BY <1>2, <1>3 DEF Destroy

(* p4_crypto_key_drop.                                                     *)
LEMMA NextToDropSlot ==
  ASSUME KeySlotsTypeOK, NextToDrop # None
  PROVE  NextToDrop \in Slots /\ NextToDrop \in {key_id, check_id}
  BY DEF KeySlotsTypeOK, NextToDrop

LEMMA DroppedIds ==
  ASSUME NextToDrop # None, KeySlotsTypeOK, Dropped
  PROVE  /\ {key_id, check_id} \ {NextToDrop, None}
              \subseteq {key_id', check_id'}
         /\ key_id' \in Slots \union {None}
         /\ check_id' \in Slots \union {None}
  BY DEF Dropped, NextToDrop, KeySlotsTypeOK

LEMMA DropInv == ASSUME IInv, Drop PROVE IInv'
<1> USE DEF IInv
<1>1. /\ pc = "drop"
      /\ NextToDrop # None
      /\ UNCHANGED <<call, status, op, output, result, mine, verdict>>
  BY DEF Drop
<1>2. PICK s : s = NextToDrop
  OBVIOUS
<1>3. s \in Slots /\ s \in {key_id, check_id} /\ s # None
  BY <1>1, <1>2, NextToDropSlot
<1>4. CASE DestroySucceeds(NextToDrop) /\ Dropped /\ UNCHANGED pc
  <2>1. /\ slots' = slots \ {s}
        /\ tries' \in [Slots -> Nat]
        /\ \A t \in Slots \ {s} : tries'[t] = tries[t]
    BY <1>2, <1>3, <1>4, Freed
  <2>2. /\ {key_id, check_id} \ {s, None} \subseteq {key_id', check_id'}
        /\ key_id' \in Slots \union {None}
        /\ check_id' \in Slots \union {None}
    BY <1>1, <1>2, <1>4, DroppedIds
  <2>3. None \notin slots
    BY KeySlotsAssumption DEF KeySlotsTypeOK
  <2>4. KeySlotsTypeOK' /\ Named'
    BY <1>1, <1>4, <2>1, <2>2 DEF KeySlotsTypeOK, Named, Early, GcmSteps,
                                  P256Steps
  <2>5. Accounted' /\ Owned'
    BY <1>1, <1>4, <2>1, <2>2, <2>3 DEF KeySlotsTypeOK, Accounted, Owned
  <2> QED
    BY <1>1, <1>4, <2>4, <2>5
    DEF Course, Clean, Early, OkMeansReleased, VerdictKept, NothingWithoutOk
<1>5. CASE DestroyFails(NextToDrop) /\ pc' = "retry" /\ UNCHANGED ids
  <2>1. /\ slots' \in SUBSET slots
        /\ tries' \in [Slots -> Nat]
        /\ tries'[s] = tries[s] + 1
        /\ \A t \in Slots \ {s} : tries'[t] = tries[t]
    BY <1>2, <1>3, <1>5, NotFreed
  <2>2. NextToDrop' = s
    BY <1>2, <1>5 DEF NextToDrop, ids
  <2>3. KeySlotsTypeOK' /\ Named'
    BY <1>1, <1>3, <1>5, <2>1, <2>2
    DEF KeySlotsTypeOK, Named, ids, Early, GcmSteps, P256Steps
  <2>4. Accounted' /\ Owned'
    BY <1>1, <1>3, <1>5, <2>1 DEF KeySlotsTypeOK, Accounted, Owned, ids
  <2> QED
    BY <1>1, <1>5, <2>3, <2>4
    DEF Course, Clean, Early, OkMeansReleased, VerdictKept, NothingWithoutOk
<1>6. QED
  BY <1>4, <1>5 DEF Drop

(* After the retry the status is an error, whichever it is; a verdict that *)
(* was bad stays the status or is replaced by an error.                    *)
LEMMA RetryInv == ASSUME IInv, Retry PROVE IInv'
<1> USE DEF IInv
<1>1. /\ pc = "retry"
      /\ pc' = "drop"
      /\ NextToDrop # None
      /\ tries[NextToDrop] >= 1
      /\ Dropped
      /\ UNCHANGED <<call, op, output, result, mine, verdict>>
  BY DEF Retry, Named
<1>2. PICK s : s = NextToDrop
  OBVIOUS
<1>3. s \in Slots /\ tries[s] >= 1 /\ None \notin slots
  BY <1>1, <1>2, NextToDropSlot, KeySlotsAssumption DEF KeySlotsTypeOK
<1>4. status' = "ERROR" \/ status' = status
  BY DEF Retry, AfterRetry
<1>5. status' # "SUCCESS"
  BY DEF Retry, AfterRetry
<1>6. /\ {key_id, check_id} \ {s, None} \subseteq {key_id', check_id'}
      /\ key_id' \in Slots \union {None}
      /\ check_id' \in Slots \union {None}
  BY <1>1, <1>2, DroppedIds
<1>7. /\ slots' \in SUBSET slots
      /\ tries' \in [Slots -> Nat]
      /\ s \in slots' => tries'[s] >= 2
      /\ \A t \in Slots \ {s} : tries'[t] = tries[t]
  <2>1. CASE DestroySucceeds(NextToDrop)
    BY <1>2, <1>3, <2>1, Freed
  <2>2. CASE DestroyFails(NextToDrop)
    <3>1. tries[s] \in Nat
      BY <1>3 DEF KeySlotsTypeOK
    <3> QED
      BY <1>2, <1>3, <2>2, <3>1, NotFreed
  <2> QED
    BY <2>1, <2>2 DEF Retry
<1>8. KeySlotsTypeOK' /\ Named'
  BY <1>1, <1>4, <1>6, <1>7 DEF KeySlotsTypeOK, Named, Early, GcmSteps,
                                P256Steps
<1>9. Accounted' /\ Owned'
  BY <1>1, <1>3, <1>5, <1>6, <1>7 DEF KeySlotsTypeOK, Accounted, Owned
<1>10. QED
  BY <1>1, <1>4, <1>5, <1>8, <1>9
  DEF Course, Clean, Early, OkMeansReleased, VerdictKept, NothingWithoutOk

LEMMA DropDoneInv == ASSUME IInv, DropDone PROVE IInv'
<1> USE DEF IInv
<1>1. /\ pc = "drop"
      /\ pc' = "idle"
      /\ key_id = None /\ check_id = None
      /\ UNCHANGED <<Store, call, ids, status, op, verdict>>
  BY DEF DropDone, Return, NextToDrop
<1>2. /\ result' = "OK" <=> status = "SUCCESS"
      /\ result' = "AUTH" <=> status = "INVALID_SIGNATURE"
      /\ status # "SUCCESS" => output' = "none"
      /\ result' \in {"OK", "AUTH", "ERROR"}
      /\ output' \in {"none", "data"}
  BY DEF DropDone, Return, Output
<1>3. mine \intersect slots = {} \/ status # "SUCCESS"
  BY <1>1, KeySlotsAssumption DEF Owned, KeySlotsTypeOK
<1> QED
  BY <1>1, <1>2, <1>3, KeySlotsAssumption
  DEF Store, ids, KeySlotsTypeOK, Named, Accounted, Owned, Course, Clean,
      Early,
      GcmSteps, P256Steps, OkMeansReleased, VerdictKept, NothingWithoutOk

----------------------------------------------------------------------------
LEMMA NextInv == ASSUME IInv, [Next]_vars PROVE IInv'
<1>1. CASE UNCHANGED vars
  BY <1>1
  DEF vars, ids, IInv, KeySlotsTypeOK, Named, Accounted, Owned, Course, Clean,
      Early,
      GcmSteps, P256Steps, NextToDrop, OkMeansReleased, VerdictKept,
      NothingWithoutOk
<1>2. CASE Next
  BY <1>2, CallInv, RefuseInv, ImportInv, GcmStepInv, DestroyInv, AbortInv,
     UseInv, CheckInv, DropInv, RetryInv, DropDoneInv
  DEF Next
<1>3. QED
  BY <1>1, <1>2

LEMMA Invariance == Spec => []IInv
  BY InitInv, NextInv, PTL DEF Spec

(* The locals of a call and the store keep their types.                    *)
THEOREM TypeCorrect == Spec => []KeySlotsTypeOK
<1>1. IInv => KeySlotsTypeOK
  BY DEF IInv
<1>2. QED
  BY <1>1, Invariance, PTL

(* A gcm or p256 call that succeeds left no key of its in the library,     *)
(* however many slots earlier calls left behind.                           *)
THEOREM OkMeansReleasedTheorem == Spec => []OkMeansReleased
<1>1. IInv => OkMeansReleased
  BY DEF IInv
<1>2. QED
  BY <1>1, Invariance, PTL

(* p4_crypto_key_drop and its callers forget no slot: what is left when a  *)
(* call ends, the library refused to free twice.                           *)
THEOREM LeftOnlyIfRefusedTheorem == Spec => []LeftOnlyIfRefused
<1>1. IInv => LeftOnlyIfRefused
  BY DEF IInv, Accounted, LeftOnlyIfRefused
<1>2. QED
  BY <1>1, Invariance, PTL

(* gcm_open and p256_verify_hash never accept what the library found wrong,*)
(* and AUTH is never said for another reason.                              *)
THEOREM VerdictKeptTheorem == Spec => []VerdictKept
<1>1. IInv => VerdictKept
  BY DEF IInv
<1>2. QED
  BY <1>1, Invariance, PTL

(* A call that fails leaves its caller no data and no AEAD operation.      *)
THEOREM NothingWithoutOkTheorem == Spec => []NothingWithoutOk
<1>1. IInv => NothingWithoutOk
  BY DEF IInv
<1>2. QED
  BY <1>1, Invariance, PTL
=============================================================================
