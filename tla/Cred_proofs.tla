----------------------------- MODULE Cred_proofs -----------------------------
(* Proofs about the wrapping root and the credentials sealed under it, for *)
(* any roots, relying parties and scalars.                                 *)
EXTENDS Cred, TLAPS

Calling == pc \in {"idle", "wrap", "seal", "open", "decrypt", "compare"}

(* The root on its way from the random generator to the flash.             *)
RootInv ==
  /\ flash \in Roots \union {NoRoot}
  /\ stored \in Roots \union {NoRoot}
  /\ flash # NoRoot => stored = flash
  /\ pc \in {"boot", "init", "get"} => stored = flash
  /\ pc \in {"rand", "set", "commit"} => flash = NoRoot
  /\ pc \in {"set", "commit"} => root \in Roots
  /\ pc = "commit" => stored \in Roots
  /\ pc = "start" \/ Calling => flash # NoRoot
  /\ pc \in {"seal", "decrypt"} => root = flash

Call(op, args) == [op : {op}, rp : Rps, arg : args, result : {"none"},
                   value : {Nothing}, refused : {FALSE}]

Plain == [rp : Rps, scalar : Scalars]

(* The call in progress and what its buffers hold.                         *)
CallInv ==
  /\ \/ pc \in {"boot", "init", "get", "rand", "set", "commit", "start",
                "halted"}
     \/ Calling
  /\ pc \in {"wrap", "seal"} => call \in Call("wrap", Scalars) /\ plain \in Plain
  /\ pc \in {"open", "decrypt", "compare"} =>
        call \in Call("open", creds \union Foreign)
  /\ pc = "compare" => /\ call.arg \in creds
                       /\ plain = [rp |-> call.arg.rp,
                                   scalar |-> call.arg.scalar]

CredsInv == /\ creds \in SUBSET Credential
            /\ \A c \in creds : c.root = flash

IInv == RootInv /\ CallInv /\ CredsInv

----------------------------------------------------------------------------
LEMMA InitIInv == Init => IInv
  BY DEF Init, IInv, RootInv, CallInv, CredsInv, Calling

(* Steps of a call leave the flash and its root alone.                     *)
LEMMA RootKept ==
  ASSUME RootInv, Calling, Calling', flash' = flash, stored' = stored,
         pc' \in {"seal", "decrypt"} => root' = stored
  PROVE  RootInv'
  BY DEF RootInv, Calling

LEMMA ReturnKeeps ==
  ASSUME IInv, Calling, UNCHANGED nvs, creds' = creds, pc' = "idle"
  PROVE  IInv'
<1>1. RootInv'
  BY RootKept DEF IInv, Calling, nvs
<1>2. CallInv'
  BY DEF CallInv, Calling
<1>3. CredsInv'
  BY DEF IInv, CredsInv, nvs
<1> QED  BY <1>1, <1>2, <1>3 DEF IInv

LEMMA NextIInv == IInv /\ [Next]_vars => IInv'
<1> SUFFICES ASSUME IInv, [Next]_vars PROVE IInv'
  OBVIOUS
<1> USE CredAssumption
<1>1. ASSUME OpenNvs \/ GetRoot \/ RandRoot \/ SetRoot PROVE IInv'
  <2>1. RootInv'
    <3>1. CASE OpenNvs
      BY <3>1 DEF OpenNvs, RootFail, IInv, RootInv, Calling, nvs, ready
    <3>2. CASE GetRoot
      BY <3>2 DEF GetRoot, RootReady, RootFail, IInv, RootInv, Calling, nvs,
         ready
    <3>3. CASE RandRoot
      BY <3>3 DEF RandRoot, RootFail, IInv, RootInv, Calling, nvs, ready
    <3>4. CASE SetRoot
      BY <3>4 DEF SetRoot, RootFail, IInv, RootInv, Calling, ready
    <3> QED  BY <1>1, <3>1, <3>2, <3>3, <3>4
  <2>2. CallInv'
    BY <1>1 DEF OpenNvs, GetRoot, RandRoot, SetRoot, RootReady, RootFail,
       IInv, CallInv, Calling, nvs, ready, Locals
  <2>3. CredsInv'
    BY <1>1 DEF OpenNvs, GetRoot, RandRoot, SetRoot, IInv, CredsInv, nvs,
       Locals
  <2> QED  BY <2>1, <2>2, <2>3 DEF IInv
<1>2. ASSUME CommitRoot PROVE IInv'
  <2>1. /\ pc = "commit" /\ flash' \in {flash, stored} /\ stored' = stored
        /\ creds' = creds
        /\ \/ pc' = "start" /\ flash' = stored
           \/ pc' = "halted"
    BY <1>2 DEF CommitRoot, RootReady, RootFail, Locals
  <2>2. flash = NoRoot /\ stored \in Roots
    BY <2>1 DEF IInv, RootInv
  <2>3. creds = {}
    BY <2>2 DEF IInv, CredsInv, Credential
  <2>4. RootInv'
    BY <2>1, <2>2 DEF RootInv, Calling
  <2>5. CallInv'
    BY <2>1 DEF CallInv, Calling
  <2>6. CredsInv'
    BY <2>1, <2>3 DEF CredsInv
  <2> QED  BY <2>4, <2>5, <2>6 DEF IInv
<1>3. ASSUME NEW rp \in Rps, NEW scalar \in Scalars, Wrap(rp, scalar)
      PROVE  IInv'
  <2>1. /\ pc = "idle" /\ pc' = "wrap" /\ UNCHANGED nvs /\ creds' = creds
        /\ plain' = [rp |-> rp, scalar |-> scalar]
        /\ call' = [op |-> "wrap", rp |-> rp, arg |-> scalar,
                    result |-> "none", value |-> Nothing,
                    refused |-> FALSE]
    BY <1>3 DEF Wrap, Begin, NoAnswer
  <2>2. RootInv'
    BY <2>1, RootKept DEF IInv, Calling, nvs
  <2>3. CallInv'
    BY <2>1 DEF CallInv, Calling, Call, Plain
  <2>4. CredsInv'
    BY <2>1 DEF IInv, CredsInv, nvs
  <2> QED  BY <2>2, <2>3, <2>4 DEF IInv
<1>4. ASSUME WrapFails \/ OpenMalformed \/ Compare PROVE IInv'
  BY <1>4, ReturnKeeps DEF WrapFails, OpenMalformed, Compare, Fail, Finish,
     Return, Calling
<1>5. ASSUME WrapLoads PROVE IInv'
  <2>1. pc = "wrap" /\ Calling
    BY <1>5 DEF WrapLoads, Calling
  <2>2. CASE pc' = "idle" /\ UNCHANGED <<nvs, creds>>
    BY <2>1, <2>2, ReturnKeeps
  <2>3. CASE /\ pc' = "seal" /\ root' = stored
             /\ UNCHANGED <<nvs, plain, call, creds>>
    <3>1. RootInv'
      BY <2>1, <2>3, RootKept DEF IInv, Calling, nvs
    <3>2. CallInv' /\ CredsInv'
      BY <2>1, <2>3 DEF IInv, CallInv, CredsInv, Calling, nvs
    <3> QED  BY <3>1, <3>2 DEF IInv
  <2> QED  BY <1>5, <2>2, <2>3 DEF WrapLoads, LoadRoot, Fail, Finish, Return
<1>6. ASSUME Seal PROVE IInv'
  <2>1. pc = "seal" /\ pc' = "idle" /\ UNCHANGED nvs /\ Calling
    BY <1>6 DEF Seal, Fail, Finish, Return, Calling
  <2>2. CASE creds' = creds
    BY <2>1, <2>2, ReturnKeeps
  <2>3. CASE creds' = creds \union {Sealed}
    <3>1. Sealed \in Credential /\ Sealed.root = flash
      BY <2>1 DEF IInv, RootInv, CallInv, Calling, Plain, Sealed, Credential
    <3>2. CredsInv'
      BY <2>1, <2>3, <3>1 DEF IInv, CredsInv, nvs
    <3>3. RootInv'
      BY <2>1, RootKept DEF IInv, Calling, nvs
    <3>4. CallInv'
      BY <2>1 DEF CallInv, Calling
    <3> QED  BY <3>2, <3>3, <3>4 DEF IInv
  <2> QED  BY <1>6, <2>2, <2>3 DEF Seal
<1>7. ASSUME NEW rp \in Rps, NEW cred \in creds \union Foreign,
             Open(rp, cred)
      PROVE  IInv'
  <2>1. /\ pc = "idle" /\ pc' = "open" /\ UNCHANGED nvs /\ creds' = creds
        /\ call' = [op |-> "open", rp |-> rp, arg |-> cred,
                    result |-> "none", value |-> Nothing,
                    refused |-> FALSE]
    BY <1>7 DEF Open, Begin, NoAnswer
  <2>2. RootInv'
    BY <2>1, RootKept DEF IInv, Calling, nvs
  <2>3. CallInv'
    BY <2>1 DEF CallInv, Calling, Call
  <2>4. CredsInv'
    BY <2>1 DEF IInv, CredsInv, nvs
  <2> QED  BY <2>2, <2>3, <2>4 DEF IInv
<1>8. ASSUME OpenLoads PROVE IInv'
  <2>1. pc = "open" /\ Calling
    BY <1>8 DEF OpenLoads, Calling
  <2>2. CASE pc' = "idle" /\ UNCHANGED <<nvs, creds>>
    BY <2>1, <2>2, ReturnKeeps
  <2>3. CASE /\ pc' = "decrypt" /\ root' = stored
             /\ UNCHANGED <<nvs, plain, call, creds>>
    <3>1. RootInv'
      BY <2>1, <2>3, RootKept DEF IInv, Calling, nvs
    <3>2. CallInv' /\ CredsInv'
      BY <2>1, <2>3 DEF IInv, CallInv, CredsInv, Calling, nvs
    <3> QED  BY <3>1, <3>2 DEF IInv
  <2> QED  BY <1>8, <2>2, <2>3 DEF OpenLoads, LoadRoot, Fail, Finish, Return
<1>9. ASSUME Decrypt PROVE IInv'
  <2>1. /\ pc = "decrypt" /\ Calling /\ UNCHANGED nvs /\ creds' = creds
    BY <1>9 DEF Decrypt, Calling
  <2>2. CASE pc' = "idle"
    BY <2>1, <2>2, ReturnKeeps
  <2>3. CASE /\ Authentic /\ pc' = "compare" /\ call' = call
             /\ plain' = [rp |-> call.arg.rp, scalar |-> call.arg.scalar]
    <3>1. root \in Roots /\ call \in Call("open", creds \union Foreign)
      BY <2>1 DEF IInv, RootInv, CallInv, Calling
    <3>2. call.arg \in creds
      BY <2>3, <3>1 DEF Authentic, Foreign, Call
    <3>3. CallInv'
      BY <2>1, <2>3, <3>1, <3>2 DEF CallInv, Calling
    <3>4. RootInv'
      BY <2>1, <2>3, RootKept DEF IInv, Calling, nvs
    <3>5. CredsInv'
      BY <2>1, <2>3 DEF IInv, CredsInv, nvs
    <3> QED  BY <3>3, <3>4, <3>5 DEF IInv
  <2> QED  BY <1>9, <2>2, <2>3 DEF Decrypt, Fail, Finish, Return
<1>10. ASSUME PowerCut PROVE IInv'
  <2>1. RootInv'
    BY <1>10 DEF PowerCut, IInv, RootInv, Calling
  <2>2. CallInv'
    BY <1>10 DEF PowerCut, CallInv, Calling
  <2>3. CredsInv'
    <3>1. CASE creds = {}
      BY <1>10, <3>1 DEF PowerCut, CredsInv
    <3>2. CASE creds # {}
      BY <1>10, <3>2 DEF PowerCut, IInv, RootInv, CredsInv, Credential
    <3> QED  BY <3>1, <3>2
  <2> QED  BY <2>1, <2>2, <2>3 DEF IInv
<1>11. ASSUME InitCrypto \/ StartTasks PROVE IInv'
  <2>1. RootInv'
    BY <1>11 DEF InitCrypto, StartTasks, IInv, RootInv, Calling, nvs
  <2>2. CallInv' /\ CredsInv'
    BY <1>11 DEF InitCrypto, StartTasks, IInv, CallInv, CredsInv, Calling, nvs,
       Locals
  <2> QED  BY <2>1, <2>2 DEF IInv
<1>12. CASE UNCHANGED vars
  BY <1>12 DEF vars, IInv, RootInv, CallInv, CredsInv, Calling
<1> QED  BY <1>1, <1>2, <1>3, <1>4, <1>5, <1>6, <1>7, <1>8, <1>9, <1>10, <1>11,
         <1>12 DEF Next

(* However booting fails and wherever power is cut, every credential ID    *)
(* handed out stays sealed under the root that survives.                   *)
THEOREM CredsOpenableTheorem == Spec => []CredsOpenable
<1>1. IInv => CredsOpenable
  BY DEF IInv, CredsInv, CredsOpenable
<1> QED  BY <1>1, InitIInv, NextIInv, PTL DEF Spec

(* A root that has reached the flash is there for good.                    *)
THEOREM RootPermanentTheorem == Spec => RootPermanent
<1>1. IInv /\ [Next]_vars => [flash # NoRoot => flash' = flash]_vars
  <2> SUFFICES ASSUME IInv, Next, flash # NoRoot PROVE flash' = flash
    BY DEF vars
  <2>1. CASE CommitRoot
    BY <2>1 DEF IInv, RootInv, CommitRoot
  <2>2. CASE PowerCut
    BY <2>2 DEF IInv, RootInv, PowerCut
  <2>3. CASE \/ InitCrypto \/ StartTasks
             \/ OpenNvs \/ GetRoot \/ RandRoot \/ SetRoot
    BY <2>3 DEF InitCrypto, StartTasks, OpenNvs, GetRoot, RandRoot, SetRoot, nvs
  <2>4. CASE \/ WrapFails \/ WrapLoads \/ Seal \/ OpenMalformed \/ OpenLoads
             \/ Decrypt \/ Compare
    BY <2>4 DEF WrapFails, WrapLoads, Seal, OpenMalformed, OpenLoads, Decrypt,
       Compare, LoadRoot, nvs
  <2>5. CASE \/ \E rp \in Rps, scalar \in Scalars : Wrap(rp, scalar)
             \/ \E rp \in Rps, cred \in creds \union Foreign : Open(rp, cred)
    BY <2>5 DEF Wrap, Open, nvs
  <2> QED  BY <2>1, <2>2, <2>3, <2>4, <2>5 DEF Next
<1> QED  BY <1>1, InitIInv, NextIInv, PTL DEF Spec, RootPermanent

----------------------------------------------------------------------------
(* What a call answers.                                                    *)

Honest == OpenSound /\ MismatchHonest

(* An answer stays right as long as no credential is handed out.           *)
LEMMA HonestKept ==
  ASSUME Honest, answer' = answer, creds' = creds
  PROVE  Honest'
  BY DEF Honest, OpenSound, MismatchHonest, Mine

(* What cred_wrap answers is no answer of cred_open.                       *)
LEMMA WrapAnswers ==
  ASSUME pc \in {"wrap", "seal"}, IInv,
         NEW result, NEW value, Finish(result, value)
  PROVE  Honest'
<1>1. answer'.op = "wrap"
  BY DEF IInv, CallInv, Call, Finish, Return
<1> QED  BY <1>1 DEF Honest, OpenSound, MismatchHonest

(* An answer of cred_open is right when its result is.                     *)
LEMMA OpenAnswers ==
  ASSUME pc \in {"open", "decrypt", "compare"}, IInv, creds' = creds,
         NEW result, NEW value, Finish(result, value),
         result = "OK" => Mine(call.rp, call.arg) /\ value = call.arg.scalar,
         result = "MISMATCH" => ~Mine(call.rp, call.arg)
  PROVE  Honest'
<1>1. /\ answer'.rp = call.rp /\ answer'.arg = call.arg
      /\ answer'.result = result /\ answer'.value = value
  BY DEF IInv, CallInv, Call, Finish, Return
<1> QED  BY <1>1 DEF Honest, OpenSound, MismatchHonest, Mine

LEMMA NextHonest == IInv /\ Honest /\ [Next]_vars => Honest'
<1> SUFFICES ASSUME IInv, Honest, [Next]_vars PROVE Honest'
  OBVIOUS
<1>1. CASE \/ InitCrypto \/ StartTasks
           \/ OpenNvs \/ GetRoot \/ RandRoot \/ SetRoot \/ CommitRoot
  BY <1>1, HonestKept DEF InitCrypto, StartTasks, OpenNvs, GetRoot, RandRoot,
     SetRoot, CommitRoot, Locals
<1>2. CASE \/ \E rp \in Rps, scalar \in Scalars : Wrap(rp, scalar)
           \/ \E rp \in Rps, cred \in creds \union Foreign : Open(rp, cred)
  BY <1>2, HonestKept DEF Wrap, Open
<1>3. CASE WrapFails \/ WrapLoads \/ Seal
  <2>1. pc \in {"wrap", "seal"}
    BY <1>3 DEF WrapFails, WrapLoads, Seal
  <2>2. CASE answer' = answer /\ creds' = creds
    BY <2>2, HonestKept
  <2> QED  BY <1>3, <2>1, <2>2, WrapAnswers
           DEF WrapFails, WrapLoads, Seal, LoadRoot, Fail
<1>4. CASE OpenMalformed
  <2>1. /\ pc = "open" /\ call.arg.root = ForeignRoot
        /\ Finish("MISMATCH", Nothing) /\ creds' = creds
    BY <1>4 DEF OpenMalformed, Fail
  <2>2. call.arg \notin creds
    BY <2>1, CredAssumption DEF IInv, CredsInv, Credential
  <2> QED  BY <2>1, <2>2, OpenAnswers DEF Mine
<1>5. CASE OpenLoads
  <2>1. CASE answer' = answer /\ creds' = creds
    BY <2>1, HonestKept
  <2>2. CASE pc = "open" /\ Finish("ROOT", Nothing) /\ creds' = creds
    BY <2>2, OpenAnswers
  <2> QED  BY <1>5, <2>1, <2>2 DEF OpenLoads, LoadRoot, Fail
<1>6. CASE Decrypt
  <2>1. pc = "decrypt" /\ creds' = creds
    BY <1>6 DEF Decrypt
  <2>2. CASE answer' = answer
    BY <2>1, <2>2, HonestKept
  <2>3. CASE ~Authentic /\ Finish("MISMATCH", Nothing)
    <3>1. call.arg \notin creds
      BY <2>1, <2>3 DEF IInv, CredsInv, RootInv, Authentic
    <3> QED  BY <2>1, <2>3, <3>1, OpenAnswers DEF Mine
  <2>4. CASE Finish(DecryptError, Nothing)
    BY <2>1, <2>4, OpenAnswers DEF DecryptError
  <2> QED  BY <1>6, <2>2, <2>3, <2>4 DEF Decrypt, Fail
<1>7. CASE Compare
  <2>1. /\ pc = "compare" /\ creds' = creds /\ call.arg \in creds
        /\ plain = [rp |-> call.arg.rp, scalar |-> call.arg.scalar]
    BY <1>7 DEF Compare, IInv, CallInv
  <2>2. plain.rp = call.arg.rp /\ plain.scalar = call.arg.scalar
    BY <2>1
  <2>3. CASE ~RpMatches /\ Finish("MISMATCH", Nothing)
    BY <2>1, <2>2, <2>3, OpenAnswers DEF RpMatches, Mine
  <2>4. CASE RpMatches /\ Finish("OK", plain.scalar)
    BY <2>1, <2>2, <2>4, OpenAnswers DEF RpMatches, Mine
  <2>5. CASE Finish("CRYPTO", Nothing)
    BY <2>1, <2>5, OpenAnswers
  <2>6. CASE Return("MISMATCH", Nothing, TRUE)
    <3>1. answer'.result = "MISMATCH" /\ answer'.refused = TRUE
      BY <2>1, <2>6 DEF IInv, CallInv, Call, Return
    <3> QED  BY <3>1 DEF Honest, OpenSound, MismatchHonest
  <2> QED  BY <1>7, <2>3, <2>4, <2>5, <2>6 DEF Compare, Fail
<1>8. CASE PowerCut
  BY <1>8 DEF PowerCut, NoAnswer, Honest, OpenSound, MismatchHonest
<1>9. CASE UNCHANGED vars
  BY <1>9, HonestKept DEF vars
<1> QED  BY <1>1, <1>2, <1>3, <1>4, <1>5, <1>6, <1>7, <1>8, <1>9 DEF Next

LEMMA InitHonest == Init => Honest
  BY DEF Init, NoAnswer, Honest, OpenSound, MismatchHonest

(* cred_open gives nothing but the scalar the credential ID was made with, *)
(* for the relying party it was made for.                                  *)
THEOREM OpenSoundTheorem == Spec => []OpenSound
<1>1. Honest => OpenSound
  BY DEF Honest
<1> QED  BY <1>1, InitIInv, NextIInv, InitHonest, NextHonest, PTL DEF Spec

(* Whatever fails, cred_open disowns a credential of this device only when *)
(* the library refuses the scalar it has decrypted.                        *)
THEOREM MismatchHonestTheorem == Spec => []MismatchHonest
<1>1. Honest => MismatchHonest
  BY DEF Honest
<1> QED  BY <1>1, InitIInv, NextIInv, InitHonest, NextHonest, PTL DEF Spec

----------------------------------------------------------------------------
(* What the buffers hold.                                                  *)

BufferInv ==
  /\ pc \notin {"set", "commit", "seal", "decrypt", "compare"} => root = NoRoot
  /\ pc \notin {"wrap", "seal", "compare"} => plain = Nothing
  /\ answer.result # "OK" => answer.value = Nothing

LEMMA InitBufferInv == Init => BufferInv
  BY DEF Init, NoAnswer, BufferInv

(* Every way out of a call clears them, and the answer with them unless it *)
(* is a good one.                                                          *)
LEMMA ReturnClears ==
  ASSUME IInv, pc \in {"wrap", "seal", "open", "decrypt", "compare"},
         NEW result, NEW value, NEW refused, Return(result, value, refused),
         result # "OK" => value = Nothing
  PROVE  BufferInv'
<1>1. answer'.result = result /\ answer'.value = value
  BY DEF IInv, CallInv, Call, Return
<1> QED  BY <1>1 DEF Return, BufferInv

LEMMA NextBufferInv == IInv /\ BufferInv /\ [Next]_vars => BufferInv'
<1> SUFFICES ASSUME IInv, BufferInv, [Next]_vars PROVE BufferInv'
  OBVIOUS
<1>1. CASE \/ InitCrypto \/ StartTasks
           \/ OpenNvs \/ GetRoot \/ RandRoot \/ SetRoot \/ CommitRoot
  BY <1>1 DEF InitCrypto, StartTasks, OpenNvs, GetRoot, RandRoot, SetRoot,
     CommitRoot, RootReady, RootFail, Locals, BufferInv
<1>2. CASE \/ \E rp \in Rps, scalar \in Scalars : Wrap(rp, scalar)
           \/ \E rp \in Rps, cred \in creds \union Foreign : Open(rp, cred)
  BY <1>2 DEF Wrap, Open, BufferInv
<1>3. CASE WrapFails \/ OpenMalformed
  BY <1>3, ReturnClears DEF WrapFails, OpenMalformed, Fail, Finish
<1>4. CASE WrapLoads \/ OpenLoads
  <2>1. pc \in {"wrap", "open"}
    BY <1>4 DEF WrapLoads, OpenLoads
  <2>2. CASE Fail("ROOT")
    BY <2>1, <2>2, ReturnClears DEF Fail, Finish
  <2>3. CASE pc = "wrap" /\ pc' = "seal" /\ UNCHANGED <<plain, answer>>
    BY <2>3 DEF BufferInv
  <2>4. CASE pc = "open" /\ pc' = "decrypt" /\ UNCHANGED <<plain, answer>>
    BY <2>4 DEF BufferInv
  <2> QED  BY <1>4, <2>2, <2>3, <2>4 DEF WrapLoads, OpenLoads, LoadRoot
<1>5. CASE Seal
  BY <1>5, ReturnClears DEF Seal, Fail, Finish
<1>6. CASE Decrypt
  <2>1. pc = "decrypt"
    BY <1>6 DEF Decrypt
  <2>2. CASE pc' = "compare" /\ answer' = answer
    BY <2>2 DEF BufferInv
  <2>3. CASE Fail("MISMATCH") \/ Fail(DecryptError)
    BY <2>1, <2>3, ReturnClears DEF Fail, Finish
  <2> QED  BY <1>6, <2>2, <2>3 DEF Decrypt
<1>7. CASE Compare
  BY <1>7, ReturnClears DEF Compare, Fail, Finish
<1>8. CASE PowerCut
  BY <1>8 DEF PowerCut, NoAnswer, BufferInv
<1>9. CASE UNCHANGED vars
  BY <1>9 DEF vars, BufferInv
<1> QED  BY <1>1, <1>2, <1>3, <1>4, <1>5, <1>6, <1>7, <1>8, <1>9 DEF Next

(* Whatever fails and wherever power is cut, no root and no scalar stays in*)
(* a buffer after a call, and a call that failed gave nothing away.        *)
THEOREM BuffersClearedTheorem == Spec => []BuffersCleared
<1>1. BufferInv => BuffersCleared
  BY DEF BufferInv, BuffersCleared
<1> QED  BY <1>1, InitIInv, NextIInv, InitBufferInv, NextBufferInv, PTL DEF Spec

----------------------------------------------------------------------------
(* The credential store implements Vault.                                  *)

(* What is being sealed is what was asked for.                             *)
SealedAsAsked ==
  pc \in {"wrap", "seal"} => plain.rp = call.rp /\ plain.scalar = call.arg

LEMMA NextSealedAsAsked ==
  SealedAsAsked /\ [Next]_vars => SealedAsAsked'
<1> SUFFICES ASSUME SealedAsAsked, [Next]_vars PROVE SealedAsAsked'
  OBVIOUS
<1>1. CASE \E rp \in Rps, scalar \in Scalars : Wrap(rp, scalar)
  BY <1>1 DEF Wrap, Begin, NoAnswer, SealedAsAsked
<1>2. CASE WrapLoads
  BY <1>2 DEF WrapLoads, LoadRoot, Fail, Finish, Return, SealedAsAsked
<1>3. CASE UNCHANGED vars
  BY <1>3 DEF vars, SealedAsAsked
<1>4. CASE \/ InitCrypto \/ StartTasks
           \/ OpenNvs \/ GetRoot \/ RandRoot \/ SetRoot \/ CommitRoot
           \/ \E rp \in Rps, cred \in creds \union Foreign : Open(rp, cred)
           \/ WrapFails \/ Seal \/ OpenMalformed \/ OpenLoads \/ Decrypt
           \/ Compare \/ PowerCut
  <2>1. pc' \notin {"wrap", "seal"}
    BY <1>4 DEF InitCrypto, StartTasks, OpenNvs, GetRoot, RandRoot, SetRoot,
       CommitRoot, RootReady, RootFail, Open, WrapFails, Seal, OpenMalformed,
       OpenLoads, LoadRoot, Decrypt, Compare, PowerCut, Fail, Finish,
       Return, Return
  <2> QED  BY <2>1 DEF SealedAsAsked
<1> QED  BY <1>1, <1>2, <1>3, <1>4 DEF Next

Promise == [Store!Next]_(Store!promise)

(* What a call says of itself, in the words of Vault.                      *)
LEMMA ReturnForm ==
  ASSUME IInv, pc \in {"wrap", "seal", "open", "decrypt", "compare"},
         NEW result, NEW value, NEW refused, Return(result, value, refused)
  PROVE  /\ pc \in {"wrap", "seal"} =>
               /\ call.rp \in Rps /\ call.arg \in Scalars
               /\ answer' = Store!AnswerFor("wrap", call.rp, call.arg, result,
                                           value, refused)
         /\ pc \in {"open", "decrypt", "compare"} =>
               /\ call.rp \in Rps /\ call.arg \in creds \union Foreign
               /\ answer' = Store!AnswerFor("open", call.rp, call.arg, result,
                                           value, refused)
  BY DEF IInv, CallInv, Call, Return, Store!AnswerFor

LEMMA AnswerForm ==
  ASSUME IInv, pc \in {"wrap", "seal", "open", "decrypt", "compare"},
         NEW result, NEW value, Finish(result, value)
  PROVE  /\ pc \in {"wrap", "seal"} =>
               /\ call.rp \in Rps /\ call.arg \in Scalars
               /\ answer' = Store!Answer("wrap", call.rp, call.arg, result, value)
         /\ pc \in {"open", "decrypt", "compare"} =>
               /\ call.rp \in Rps /\ call.arg \in creds \union Foreign
               /\ answer' = Store!Answer("open", call.rp, call.arg, result, value)
  BY ReturnForm DEF Finish, Store!Answer

(* Any call may fail once there is a key.                                  *)
LEMMA FailPromised ==
  ASSUME IInv, pc \in {"wrap", "seal", "open", "decrypt", "compare"},
         NEW result \in {"ROOT", "CRYPTO"}, Finish(result, Nothing),
         flash' = flash, creds' = creds
  PROVE  Promise
<1>1. flash # NoRoot
  BY DEF IInv, RootInv, Calling
<1>2. CASE pc \in {"wrap", "seal"}
  <2>1. Store!Fail("wrap", call.rp, call.arg)
    BY <1>1, <1>2, AnswerForm DEF Store!Fail, Store!Serve, Store!KeyKept
  <2>2. call.rp \in Rps /\ call.arg \in Scalars
    BY <1>2, AnswerForm
  <2> QED  BY <2>1, <2>2 DEF Promise, Store!Next
<1>3. CASE pc \in {"open", "decrypt", "compare"}
  <2>1. Store!Fail("open", call.rp, call.arg)
    BY <1>1, <1>3, AnswerForm DEF Store!Fail, Store!Serve, Store!KeyKept
  <2>2. call.rp \in Rps /\ call.arg \in creds \union Foreign
    BY <1>3, AnswerForm
  <2> QED  BY <2>1, <2>2 DEF Promise, Store!Next
<1> QED  BY <1>2, <1>3

LEMMA DisownPromised ==
  ASSUME IInv, pc \in {"open", "decrypt", "compare"},
         Finish("MISMATCH", Nothing), ~Mine(call.rp, call.arg),
         flash' = flash, creds' = creds
  PROVE  Promise
<1>1. flash # NoRoot
  BY DEF IInv, RootInv, Calling
<1>2. Store!Disown(call.rp, call.arg)
  BY <1>1, AnswerForm
     DEF Store!Disown, Store!Serve, Store!KeyKept, Store!Mine, Mine
<1>3. call.rp \in Rps /\ call.arg \in creds \union Foreign
  BY AnswerForm
<1> QED  BY <1>2, <1>3 DEF Promise, Store!Next

(* The steps between two answers.                                          *)
LEMMA Unanswered ==
  ASSUME UNCHANGED <<flash, creds, answer>>
  PROVE  Promise
  BY DEF Promise, Store!promise

LEMMA NextPromise == IInv /\ SealedAsAsked /\ [Next]_vars => Promise
<1> SUFFICES ASSUME IInv, SealedAsAsked, [Next]_vars PROVE Promise
  OBVIOUS
<1>1. CASE \/ InitCrypto \/ StartTasks \/ OpenNvs \/ GetRoot \/ RandRoot
           \/ SetRoot
           \/ \E rp \in Rps, scalar \in Scalars : Wrap(rp, scalar)
           \/ \E rp \in Rps, cred \in creds \union Foreign : Open(rp, cred)
  BY <1>1, Unanswered DEF InitCrypto, StartTasks, OpenNvs, GetRoot, RandRoot,
     SetRoot, Wrap, Open, Locals, nvs
<1>2. CASE CommitRoot
  <2>1. /\ flash = NoRoot /\ stored \in Roots /\ flash' \in {flash, stored}
        /\ UNCHANGED <<creds, answer>>
    BY <1>2 DEF CommitRoot, IInv, RootInv, Locals
  <2>2. CASE flash' = stored
    BY <2>1, <2>2 DEF Promise, Store!Next, Store!FindKey, Store!KeyFound
  <2>3. CASE flash' = flash
    BY <2>1, <2>3, Unanswered
  <2> QED  BY <2>1, <2>2, <2>3
<1>3. CASE WrapFails
  BY <1>3, FailPromised DEF WrapFails, Fail, nvs
<1>4. CASE WrapLoads \/ OpenLoads
  <2>1. pc \in {"wrap", "open"} /\ flash' = flash /\ creds' = creds
    BY <1>4 DEF WrapLoads, OpenLoads, LoadRoot, nvs
  <2>2. answer' = answer \/ Finish("ROOT", Nothing)
    BY <1>4 DEF WrapLoads, OpenLoads, LoadRoot, Fail
  <2> QED  BY <2>1, <2>2, FailPromised, Unanswered
<1>5. CASE Seal
  <2>1. pc = "seal" /\ flash' = flash
    BY <1>5 DEF Seal, nvs
  <2>2. CASE Finish("CRYPTO", Nothing) /\ creds' = creds
    BY <2>1, <2>2, FailPromised
  <2>3. CASE Finish("OK", Sealed) /\ creds' = creds \union {Sealed}
    <3>1. flash # NoRoot /\ root = flash
      BY <2>1 DEF IInv, RootInv, Calling
    <3>2. Sealed = Store!Sealed(call.rp, call.arg)
      BY <2>1, <3>1 DEF SealedAsAsked, Sealed, Store!Sealed
    <3>3. Store!Issue(call.rp, call.arg)
      BY <2>1, <2>3, <3>1, <3>2, AnswerForm
         DEF Store!Issue, Store!Serve, Store!KeyKept
    <3>4. call.rp \in Rps /\ call.arg \in Scalars
      BY <2>1, <2>3, AnswerForm
    <3> QED  BY <3>3, <3>4 DEF Promise, Store!Next
  <2> QED  BY <1>5, <2>2, <2>3 DEF Seal, Fail
<1>6. CASE OpenMalformed
  <2>1. /\ pc = "open" /\ call.arg.root = ForeignRoot
        /\ Finish("MISMATCH", Nothing) /\ creds' = creds /\ flash' = flash
    BY <1>6 DEF OpenMalformed, Fail, nvs
  <2>2. call.arg \notin creds
    BY <2>1, CredAssumption DEF IInv, CredsInv, Credential
  <2> QED  BY <2>1, <2>2, DisownPromised DEF Mine
<1>7. CASE Decrypt
  <2>1. pc = "decrypt" /\ creds' = creds /\ flash' = flash
    BY <1>7 DEF Decrypt, nvs
  <2>2. CASE answer' = answer
    BY <2>1, <2>2, Unanswered
  <2>3. CASE ~Authentic /\ Finish("MISMATCH", Nothing)
    <3>1. call.arg \notin creds
      BY <2>1, <2>3 DEF IInv, CredsInv, RootInv, Authentic
    <3> QED  BY <2>1, <2>3, <3>1, DisownPromised DEF Mine
  <2>4. CASE Finish("CRYPTO", Nothing)
    BY <2>1, <2>4, FailPromised
  <2> QED  BY <1>7, <2>2, <2>3, <2>4 DEF Decrypt, Fail, DecryptError
<1>8. CASE Compare
  <2>1. /\ pc = "compare" /\ creds' = creds /\ call.arg \in creds
        /\ plain = [rp |-> call.arg.rp, scalar |-> call.arg.scalar]
        /\ flash' = flash /\ flash # NoRoot
    BY <1>8 DEF Compare, IInv, CallInv, RootInv, Calling, nvs
  <2>2. plain.rp = call.arg.rp /\ plain.scalar = call.arg.scalar
    BY <2>1
  <2>3. CASE ~RpMatches /\ Finish("MISMATCH", Nothing)
    BY <2>1, <2>2, <2>3, DisownPromised DEF RpMatches, Mine
  <2>4. CASE RpMatches /\ Finish("OK", plain.scalar)
    <3>1. Store!Reveal(call.rp, call.arg)
      BY <2>1, <2>2, <2>4, AnswerForm
         DEF Store!Reveal, Store!Serve, Store!KeyKept, Store!Mine, RpMatches
    <3>2. call.rp \in Rps
      BY <2>1, <2>4, AnswerForm
    <3> QED  BY <2>1, <3>1, <3>2 DEF Promise, Store!Next
  <2>5. CASE Finish("CRYPTO", Nothing)
    BY <2>1, <2>5, FailPromised
  <2>6. CASE RpMatches /\ Return("MISMATCH", Nothing, TRUE)
    <3>1. Store!Mistake(call.rp, call.arg)
      BY <2>1, <2>2, <2>6, ReturnForm
         DEF Store!Mistake, Store!Serve, Store!KeyKept, Store!Mine, RpMatches
    <3>2. call.rp \in Rps
      BY <2>1, <2>6, ReturnForm
    <3> QED  BY <2>1, <3>1, <3>2 DEF Promise, Store!Next
  <2> QED  BY <1>8, <2>3, <2>4, <2>5, <2>6 DEF Compare, Fail
<1>9. CASE PowerCut
  <2>1. /\ flash' \in {flash, stored} /\ creds' = creds
        /\ answer' = Store!NoAnswer
    BY <1>9 DEF PowerCut, NoAnswer, Store!NoAnswer, Store!Answer, Store!AnswerFor
  <2>2. flash' = flash \/ (flash = NoRoot /\ flash' \in Roots)
    BY <2>1 DEF IInv, RootInv
  <2>3. Store!Restart
    BY <2>1, <2>2 DEF Store!Restart, Store!KeyKept, Store!KeyFound
  <2> QED  BY <2>3 DEF Promise, Store!Next
<1>10. CASE UNCHANGED vars
  BY <1>10, Unanswered DEF vars
<1> QED  BY <1>1, <1>2, <1>3, <1>4, <1>5, <1>6, <1>7, <1>8, <1>9, <1>10
         DEF Next

(* For any roots, relying parties and scalars, over any failures and power *)
(* cuts, the device is the credential store of Vault, its one mistake      *)
(* included.                                                               *)
THEOREM VaultImplemented == Spec => ImplementsVault
<1>1. Init => Store!Init
  BY DEF Init, NoAnswer, Store!Init, Store!NoAnswer, Store!Answer, Store!AnswerFor
<1>2. Init => SealedAsAsked
  BY DEF Init, SealedAsAsked
<1>3. IInv /\ SealedAsAsked /\ [Next]_vars => [Store!Next]_(Store!promise)
  BY NextPromise DEF Promise
<1> QED  BY <1>1, <1>2, <1>3, InitIInv, NextIInv, NextSealedAsAsked, PTL
         DEF Spec, ImplementsVault, Store!Spec
=============================================================================
