------------------------------ MODULE KeySlots ------------------------------
(***************************************************************************)
(* The key slots of the PSA library over the calls of p4_crypto_gcm.c and  *)
(* p4_crypto_p256.c.  Every call puts its key into a volatile slot of the  *)
(* library, uses it and destroys it again; each step may fail, and a       *)
(* failed psa_destroy_key may or may not have freed the slot.              *)
(*                                                                         *)
(* The library is external: a store of a few slots that is full when slots *)
(* were left behind, and PSA_ERROR_INVALID_SIGNATURE is its answer to a    *)
(* wrong tag or signature only.  One task makes the calls, one after the   *)
(* other.  Of the data only the library's verdict on a tag or a signature  *)
(* is kept.                                                                *)
(***************************************************************************)
EXTENDS Naturals

CONSTANTS Slots,   \* the slots of the library's store
          None     \* no slot

ASSUME KeySlotsAssumption == None \notin Slots

VARIABLES
  slots,      \* the slots of the store that hold a key
  call,       \* the function called
  pc,         \* the step of the call; "idle" when there is none
  key_id,     \* the slot of its key
  check_id,   \* p256_make: the slot of the public key that is imported back
  status,
  op,         \* gcm: the state of the AEAD operation
  output,     \* what the caller's buffers hold of this call
  result,     \* what the last call returned, "NONE" while it runs
  mine,       \* history: the slots the call was given
  tries,      \* history: how often it tried to destroy each
  verdict     \* history: what the library said of the tag or signature

ids  == <<key_id, check_id>>
vars == <<slots, call, pc, ids, status, op, output, result, mine, tries,
          verdict>>

Gcm  == {"gcm_seal", "gcm_open"}
P256 == {"p256_make", "p256_pub", "p256_sign_hash", "p256_verify_hash"}

Init == /\ slots = {}
        /\ call = "gcm_seal"
        /\ pc = "idle"
        /\ key_id = None
        /\ check_id = None
        /\ status = "SUCCESS"
        /\ op = "inactive"
        /\ output = "none"
        /\ result = "NONE"
        /\ mine = {}
        /\ tries = [s \in Slots |-> 0]
        /\ verdict = "none"

----------------------------------------------------------------------------
(* psa_destroy_key, which a slot that is free already makes fail.          *)
DestroySucceeds(s) == /\ s \in slots
                      /\ slots' = slots \ {s}
                      /\ tries' = [tries EXCEPT ![s] = @ + 1]

DestroyFails(s) == /\ slots' \in {slots, slots \ {s}}
                   /\ tries' = [tries EXCEPT ![s] = @ + 1]

(* A slot for the call's key, while the store has one.                     *)
Given(s) == /\ s \in Slots \ slots
            /\ slots' = slots \union {s}
            /\ mine' = mine \union {s}
            /\ tries' = [tries EXCEPT ![s] = 0]

Store == <<slots, mine, tries>>

(* The way out for an error, in a gcm call by seal_fail or open_fail.      *)
Fail(s) == /\ status' = s
           /\ pc' = IF call \in Gcm THEN "abort" ELSE "drop"

Goto(label) == pc' = label /\ UNCHANGED status

Return(s) == /\ pc' = "idle"
             /\ result' = CASE s = "SUCCESS" -> "OK"
                            [] s = "INVALID_SIGNATURE" -> "AUTH"
                            [] OTHER -> "ERROR"

----------------------------------------------------------------------------
Call(f) == /\ pc = "idle"
           /\ call' = f
           /\ pc' = "import"
           /\ key_id' = None
           /\ check_id' = None
           /\ status' = "SUCCESS"
           /\ output' = "none"
           /\ result' = "NONE"
           /\ mine' = {}
           /\ verdict' = "none"
           /\ UNCHANGED <<slots, tries, op>>

(* The tests before the key is imported: arguments, overlaps, the scalar,  *)
(* the form of the signature.                                              *)
Refuse == /\ pc = "import"
          /\ pc' = "idle"
          /\ result' = "ERROR"
          /\ UNCHANGED <<Store, call, ids, status, op, output, verdict>>

(* psa_import_key, in p256_make psa_generate_key.                          *)
Import == /\ pc = "import"
          /\ \/ \E s \in Slots :
                   /\ Given(s)
                   /\ key_id' = s
                   /\ Goto(IF call \in Gcm THEN "setup" ELSE "use")
             \/ Fail("ERROR") /\ UNCHANGED <<Store, key_id>>
          /\ UNCHANGED <<call, check_id, op, output, result, verdict>>

(* The AEAD operation; what it opens is in the caller's buffer before the  *)
(* tag is tested.                                                          *)
Setup == /\ pc = "setup"
         /\ \/ op' = "active" /\ Goto("update")
            \/ Fail("ERROR") /\ UNCHANGED op
         /\ UNCHANGED <<Store, call, ids, output, result, verdict>>

Update == /\ pc = "update"
          /\ \/ output' = "data" /\ Goto("finish")
             \/ output' \in {"none", "data"} /\ Fail("ERROR")
          /\ UNCHANGED <<Store, call, ids, op, result, verdict>>

Finish == /\ pc = "finish"
          /\ \/ /\ op' = "inactive"
                /\ verdict' = "good"
                /\ \/ Goto("destroy")
                   \/ Fail("ERROR")
             \/ /\ call = "gcm_open"
                /\ verdict' = "bad"
                /\ Fail("INVALID_SIGNATURE")
                /\ UNCHANGED op
             \/ Fail("ERROR") /\ UNCHANGED <<op, verdict>>
          /\ UNCHANGED <<Store, call, ids, output, result>>

(* A result that is good is given only when the slot is free.              *)
DestroyIgnored == /\ pc = "destroy"
                  /\ DestroySucceeds(key_id) \/ DestroyFails(key_id)
                  /\ Return("SUCCESS")
                  /\ UNCHANGED <<call, ids, status, op, output, mine, verdict>>

Destroy == /\ pc = "destroy"
           /\ \/ DestroySucceeds(key_id) /\ Return("SUCCESS")
                 /\ UNCHANGED status
              \/ DestroyFails(key_id) /\ Fail("ERROR") /\ UNCHANGED result
           /\ UNCHANGED <<call, ids, op, output, mine, verdict>>

Abort == /\ pc = "abort"
         /\ op' = "inactive"
         /\ Goto("drop")
         /\ UNCHANGED <<Store, call, ids, output, result, verdict>>

(* The use of a p256 key, and of the bytes it yields.                      *)
Use == /\ pc = "use"
       /\ \/ /\ verdict' = "good"
             /\ Goto(IF call = "p256_make" THEN "check" ELSE "drop")
          \/ /\ call = "p256_verify_hash"
             /\ verdict' = "bad"
             /\ Fail("INVALID_SIGNATURE")
          \/ Fail("ERROR") /\ UNCHANGED verdict
       /\ UNCHANGED <<Store, call, ids, op, output, result>>

(* p256_make has the library test the public key by importing it.          *)
CheckNotLive == /\ pc = "check"
                /\ \/ \E s \in Slots : Given(s) /\ Goto("drop")
                   \/ Fail("ERROR") /\ UNCHANGED Store
                /\ UNCHANGED <<call, ids, op, output, result, verdict>>

Check == /\ pc = "check"
         /\ \/ \E s \in Slots : Given(s) /\ check_id' = s /\ Goto("drop")
            \/ Fail("ERROR") /\ UNCHANGED <<Store, check_id>>
         /\ UNCHANGED <<call, key_id, op, output, result, verdict>>

----------------------------------------------------------------------------
(* p4_crypto_key_drop for each slot that is live, then the end of the call.*)

NextToDrop == IF check_id # None THEN check_id ELSE key_id

Dropped == IF check_id # None THEN check_id' = None /\ UNCHANGED key_id
                              ELSE key_id' = None /\ UNCHANGED check_id

Drop == /\ pc = "drop"
        /\ NextToDrop # None
        /\ \/ DestroySucceeds(NextToDrop) /\ Dropped /\ UNCHANGED pc
           \/ DestroyFails(NextToDrop) /\ pc' = "retry" /\ UNCHANGED ids
        /\ UNCHANGED <<call, status, op, output, result, mine, verdict>>

(* After a first failure: what the status becomes once the retry is known. *)
AfterRetryAlwaysItsOwn(succeeded) == IF succeeded THEN "SUCCESS" ELSE "ERROR"

AfterRetry(succeeded) ==
  IF status = "SUCCESS" \/ ~succeeded THEN "ERROR" ELSE status

Retry == /\ pc = "retry"
         /\ \/ DestroySucceeds(NextToDrop) /\ status' = AfterRetry(TRUE)
            \/ DestroyFails(NextToDrop) /\ status' = AfterRetry(FALSE)
         /\ Dropped
         /\ pc' = "drop"
         /\ UNCHANGED <<call, op, output, result, mine, verdict>>

(* A gcm call comes here with an error only.                               *)
OutputKept == output

Output == IF status = "SUCCESS" /\ call # "p256_verify_hash" THEN "data"
                                                             ELSE "none"

DropDone == /\ pc = "drop"
            /\ NextToDrop = None
            /\ Return(status)
            /\ output' = Output
            /\ UNCHANGED <<Store, call, ids, status, op, verdict>>

Next == \/ \E f \in Gcm \union P256 : Call(f)
        \/ Refuse \/ Import
        \/ Setup \/ Update \/ Finish \/ Destroy \/ Abort
        \/ Use \/ Check
        \/ Drop \/ Retry \/ DropDone

Spec == Init /\ [][Next]_vars

----------------------------------------------------------------------------
(* Properties.                                                             *)

(* Type invariant of a call's locals and of the store.                     *)
KeySlotsTypeOK ==
  /\ slots \in SUBSET Slots
  /\ call \in Gcm \union P256
  /\ pc \in {"idle", "import", "setup", "update", "finish", "destroy", "abort",
             "use", "check", "drop", "retry"}
  /\ key_id \in Slots \union {None}
  /\ check_id \in Slots \union {None}
  /\ status \in {"SUCCESS", "INVALID_SIGNATURE", "ERROR"}
  /\ op \in {"inactive", "active"}
  /\ output \in {"none", "data"}
  /\ result \in {"NONE", "OK", "AUTH", "ERROR"}
  /\ mine \in SUBSET Slots
  /\ tries \in [Slots -> Nat]
  /\ verdict \in {"none", "good", "bad"}

(* A call that succeeds has left no key in the library.                    *)
OkMeansReleased == result = "OK" => mine \intersect slots = {}

(* A slot is left behind only when the library refused to free it twice;   *)
(* no path out of a call forgets one.                                      *)
LeftOnlyIfRefused == pc = "idle" => \A s \in slots : tries[s] >= 2

(* Whatever happens while the slots are freed, a tag or a signature the    *)
(* library found wrong is never accepted, and AUTH, which cred_open takes  *)
(* for a credential of another device, is never said of anything else.     *)
VerdictKept == /\ verdict = "bad" => result # "OK"
               /\ result = "AUTH" => verdict = "bad"

(* The end of a call that failed leaves its caller no data, though gcm_open*)
(* has them in his buffer before it knows, and no AEAD operation is left   *)
(* unfinished.                                                             *)
NothingWithoutOk == pc = "idle" => /\ result # "OK" => output = "none"
                                   /\ op = "inactive"
=============================================================================
