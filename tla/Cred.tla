-------------------------------- MODULE Cred --------------------------------
(***************************************************************************)
(* The wrapping root of p4_root.c, the credentials of p4_cred.c, and the   *)
(* start-up of app_main that puts the one before the other.                *)
(*                                                                         *)
(* A credential is not stored: its private scalar travels inside the       *)
(* credential ID, encrypted under a root that is made once, on the first   *)
(* boot, and kept in NVS.  Power may be cut before any step, and every     *)
(* call to NVS, to the random generator or to the crypto library may fail. *)
(*                                                                         *)
(* NVS is external: what nvs_set_blob writes is visible at once, and until *)
(* nvs_commit answers ESP_OK it may or may not survive a power cut.        *)
(* Encryption is symbolic: a credential ID is the record of the root it    *)
(* was sealed under and of what it contains, and it opens under that root  *)
(* only; an altered one counts as sealed under ForeignRoot.                *)
(***************************************************************************)
CONSTANTS Roots,        \* the values rand_fill may give the root
          ForeignRoot,  \* stands for every root but this device's
          NoRoot,       \* no blob in NVS, a cleared buffer in memory
          Rps,          \* hashes of relying party IDs
          Scalars,      \* valid private scalars
          Nothing       \* a cleared buffer

ASSUME CredAssumption == /\ NoRoot \notin Roots
                         /\ ForeignRoot \notin Roots
                         /\ ForeignRoot # NoRoot

VARIABLES
  flash,          \* the root that would be found after a power cut
  stored,         \* the root nvs_get_blob finds now
  s_root_ready,
  s_root_failed,
  pc,             \* where the call in progress is
  root,           \* its buffer for the root
  plain,          \* its buffer for relying party and private scalar
  call,           \* its arguments
  answer,         \* the last call and what it returned; its field refused is
                  \* history: what made cred_open answer, which no caller sees
  creds           \* history: the credential IDs handed out

vars == <<flash, stored, s_root_ready, s_root_failed, pc, root, plain, call,
          answer, creds>>

nvs   == <<flash, stored>>
ready == <<s_root_ready, s_root_failed>>

Credential == [root : Roots, rp : Rps, scalar : Scalars]
Foreign    == [root : {ForeignRoot}, rp : Rps, scalar : Scalars]

NoAnswer == [op |-> "none", rp |-> Nothing, arg |-> Nothing,
             result |-> "none", value |-> Nothing, refused |-> FALSE]

Init == /\ flash = NoRoot
        /\ stored = NoRoot
        /\ s_root_ready = FALSE
        /\ s_root_failed = FALSE
        /\ pc = "boot"
        /\ root = NoRoot
        /\ plain = Nothing
        /\ call = Nothing
        /\ answer = NoAnswer
        /\ creds = {}

----------------------------------------------------------------------------
(* app_main: the library, the root, the two tasks.  It returns at the      *)
(* first that fails; a board without a button only earns a warning.        *)

Locals == <<plain, call, answer, creds>>

(* crypto_init, which starts the random source as well.                    *)
InitCrypto == /\ pc = "boot"
              /\ pc' \in {"init", "halted"}
              /\ UNCHANGED <<nvs, ready, root, Locals>>

(* hid_start and p4_ctap_stub_start.  Without both of them nobody calls    *)
(* cred_wrap or cred_open.                                                 *)
StartTasks == /\ pc = "start"
              /\ pc' \in {"idle", "halted"}
              /\ UNCHANGED <<nvs, ready, root, Locals>>

(* p4_cred_init.  Its two early returns for a second call are never taken. *)
RootReady == /\ root' = NoRoot
             /\ pc' = "start"
             /\ s_root_ready' = TRUE
             /\ UNCHANGED s_root_failed

RootFail == /\ root' = NoRoot
            /\ pc' = "halted"
            /\ s_root_failed' = TRUE
            /\ UNCHANGED s_root_ready

(* nvs_flash_init and nvs_open.                                            *)
OpenNvs == /\ pc = "init"
           /\ \/ /\ pc' = "get"
                 /\ UNCHANGED <<root, ready>>
              \/ RootFail
           /\ UNCHANGED <<nvs, Locals>>

(* A new root is made when the blob is missing, never when reading fails.  *)
GetRootOnAnyError == /\ pc = "get"
                     /\ \/ stored # NoRoot /\ RootReady
                        \/ pc' = "rand" /\ UNCHANGED <<root, ready>>
                     /\ UNCHANGED <<nvs, Locals>>

GetRoot == /\ pc = "get"
           /\ \/ stored # NoRoot /\ RootReady
              \/ stored = NoRoot /\ pc' = "rand" /\ UNCHANGED <<root, ready>>
              \/ RootFail
           /\ UNCHANGED <<nvs, Locals>>

RandRoot == /\ pc = "rand"
            /\ \/ /\ root' \in Roots
                  /\ pc' = "set"
                  /\ UNCHANGED ready
               \/ RootFail
            /\ UNCHANGED <<nvs, Locals>>

SetRoot == /\ pc = "set"
           /\ \/ /\ stored' = root
                 /\ pc' = "commit"
                 /\ UNCHANGED <<root, ready>>
              \/ stored' \in {stored, root} /\ RootFail
           /\ UNCHANGED <<flash, Locals>>

CommitRootUnchecked == /\ pc = "commit"
                       /\ flash' \in {flash, stored}
                       /\ RootReady
                       /\ UNCHANGED <<stored, Locals>>

CommitRoot == /\ pc = "commit"
              /\ \/ flash' = stored /\ RootReady
                 \/ flash' \in {flash, stored} /\ RootFail
              /\ UNCHANGED <<stored, Locals>>

----------------------------------------------------------------------------
(* The end of cred_wrap and cred_open: every buffer is cleared, and so is  *)
(* the caller's unless the call succeeds.                                  *)

FinishKeepingPlain(result, value) ==
  /\ pc' = "idle"
  /\ root' = NoRoot
  /\ call' = Nothing
  /\ answer' = [call EXCEPT !.result = result, !.value = value]
  /\ UNCHANGED plain

Return(result, value, refused) ==
  /\ pc' = "idle"
  /\ root' = NoRoot
  /\ plain' = Nothing
  /\ call' = Nothing
  /\ answer' = [call EXCEPT !.result = result, !.value = value,
                            !.refused = refused]

Finish(result, value) == Return(result, value, FALSE)

Fail(result) == Finish(result, Nothing)

Begin(op, rp, arg) ==
  call' = [NoAnswer EXCEPT !.op = op, !.rp = rp, !.arg = arg]

(* p4_root_load: the root is read from NVS for every use, and a read that  *)
(* fails puts it out of use until the next boot.                           *)
LoadRoot(next) ==
  \/ /\ s_root_ready /\ ~s_root_failed
     /\ stored # NoRoot
     /\ root' = stored
     /\ pc' = next
     /\ UNCHANGED <<nvs, ready, plain, call, answer, creds>>
  \/ /\ s_root_ready /\ ~s_root_failed
     /\ s_root_ready' = FALSE
     /\ s_root_failed' = TRUE
     /\ Fail("ROOT")
     /\ UNCHANGED <<nvs, creds>>
  \/ /\ ~s_root_ready \/ s_root_failed
     /\ Fail("ROOT")
     /\ UNCHANGED <<nvs, ready, creds>>

----------------------------------------------------------------------------
(* cred_wrap.                                                              *)

(* The scalar's test and the nonce come before the root is read; either    *)
(* may fail.  A result other than OK, ROOT or MISMATCH counts as CRYPTO.   *)
Wrap(rp, scalar) ==
  /\ pc = "idle"
  /\ pc' = "wrap"
  /\ Begin("wrap", rp, scalar)
  /\ plain' = [rp |-> rp, scalar |-> scalar]
  /\ UNCHANGED <<nvs, ready, root, answer, creds>>

WrapFails == /\ pc = "wrap"
             /\ Fail("CRYPTO")
             /\ UNCHANGED <<nvs, ready, creds>>

WrapLoads == pc = "wrap" /\ LoadRoot("seal")

Sealed == [root |-> root, rp |-> plain.rp, scalar |-> plain.scalar]

Seal == /\ pc = "seal"
        /\ \/ /\ creds' = creds \union {Sealed}
              /\ Finish("OK", Sealed)
           \/ /\ Fail("CRYPTO")
              /\ UNCHANGED creds
        /\ UNCHANGED <<nvs, ready>>

----------------------------------------------------------------------------
(* cred_open.                                                              *)

Open(rp, cred) ==
  /\ pc = "idle"
  /\ pc' = "open"
  /\ Begin("open", rp, cred)
  /\ UNCHANGED <<nvs, ready, root, plain, answer, creds>>

(* Another length or header belongs to no credential of this device; it is *)
(* told before the root is read.                                           *)
OpenMalformed == /\ pc = "open"
                 /\ call.arg.root = ForeignRoot
                 /\ Fail("MISMATCH")
                 /\ UNCHANGED <<nvs, ready, creds>>

OpenLoads == pc = "open" /\ LoadRoot("decrypt")

(* Only a failed authentication means that the credential is another's.    *)
DecryptErrorFoldingAll == "MISMATCH"

DecryptError == "CRYPTO"

TagIgnored == TRUE

Authentic == call.arg.root = root

Decrypt ==
  /\ pc = "decrypt"
  /\ \/ /\ Authentic
        /\ plain' = [rp |-> call.arg.rp, scalar |-> call.arg.scalar]
        /\ pc' = "compare"
        /\ UNCHANGED <<root, call, answer>>
     \/ ~Authentic /\ Fail("MISMATCH")
     \/ Fail(DecryptError)
  /\ UNCHANGED <<nvs, ready, creds>>

RpUnchecked == TRUE

RpMatches == plain.rp = call.rp

(* The relying party and the scalar are both tested before either counts.  *)
(* scalar_check has p256_pub import the scalar: an error by which PSA says *)
(* that an argument or the data is invalid comes back as P4_CRYPTO_KEY, at *)
(* whatever step it is met, as it does for a scalar out of range.  The one *)
(* sealed here was tested when it was wrapped, so a P4_CRYPTO_KEY is now a *)
(* failure of the library; the code takes it for another's credential.     *)
Compare ==
  /\ pc = "compare"
  /\ \/ ~RpMatches /\ Fail("MISMATCH")
     \/ RpMatches /\ Return("MISMATCH", Nothing, TRUE)
     \/ RpMatches /\ Fail("CRYPTO")
     \/ RpMatches /\ Finish("OK", plain.scalar)
  /\ UNCHANGED <<nvs, ready, creds>>

----------------------------------------------------------------------------
(* Power goes and comes back: memory is lost, and what NVS has not yet     *)
(* committed may be.                                                       *)
PowerCut == /\ flash' \in {flash, stored}
            /\ stored' = flash'
            /\ s_root_ready' = FALSE
            /\ s_root_failed' = FALSE
            /\ pc' = "boot"
            /\ root' = NoRoot
            /\ plain' = Nothing
            /\ call' = Nothing
            /\ answer' = NoAnswer
            /\ UNCHANGED creds

Next == \/ InitCrypto \/ StartTasks
        \/ OpenNvs \/ GetRoot \/ RandRoot \/ SetRoot \/ CommitRoot
        \/ \E rp \in Rps, scalar \in Scalars : Wrap(rp, scalar)
        \/ WrapFails \/ WrapLoads \/ Seal
        \/ \E rp \in Rps, cred \in creds \union Foreign : Open(rp, cred)
        \/ OpenMalformed \/ OpenLoads \/ Decrypt \/ Compare
        \/ PowerCut

Spec == Init /\ [][Next]_vars

----------------------------------------------------------------------------
(* Properties.                                                             *)

(* Every credential ID ever handed out can be opened after the next power  *)
(* cut, and after every one that follows: the root it was sealed under is  *)
(* the one that survives.                                                  *)
CredsOpenable == \A c \in creds : c.root = flash

(* Once a root has reached the flash nothing replaces or loses it, whatever*)
(* fails and wherever power is cut.                                        *)
RootPermanent == [][flash # NoRoot => flash' = flash]_vars

Mine(rp, cred) == cred \in creds /\ cred.rp = rp

(* cred_open gives a scalar only for a credential ID that this device made *)
(* for that relying party, and then the scalar it was made with.           *)
OpenSound ==
  answer.op = "open" /\ answer.result = "OK" =>
     Mine(answer.rp, answer.arg) /\ answer.value = answer.arg.scalar

(* cred_open says of a credential of this device that it is another's      *)
(* (which the commands take as leave to go on without it) in one case only,*)
(* the library refusing the decrypted scalar (p4_cred.c:205).  No failure  *)
(* of NVS, of the decryption or of the library's other answers does it.    *)
MismatchHonest ==
  answer.op = "open" /\ answer.result = "MISMATCH" =>
     ~Mine(answer.rp, answer.arg) \/ answer.refused

(* cred_wrap and cred_open implement Vault: wherever power is cut and      *)
(* whatever fails, one key is kept, every ID says what was asked for, one  *)
(* is opened only for its own relying party, and an ID that could be opened*)
(* is refused with an error, or by the one mistake that Vault allows.      *)
Store == INSTANCE Vault WITH Keys <- Roots, NoKey <- NoRoot,
                             key <- flash, issued <- creds

ImplementsVault == Store!Spec

(* Between two calls neither the root nor a scalar is left in a buffer, and*)
(* a call that failed gave its caller nothing.                             *)
BuffersCleared ==
  /\ pc \in {"boot", "init", "start", "halted", "idle"} =>
        root = NoRoot /\ plain = Nothing
  /\ answer.result # "OK" => answer.value = Nothing
=============================================================================
