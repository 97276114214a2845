------------------------------- MODULE Vault -------------------------------
(***************************************************************************)
(* What the credential store promises, without NVS, buffers, steps and     *)
(* power cuts in the middle of one: it comes by one key and keeps it, every*)
(* credential ID it hands out is sealed under that key and says what it    *)
(* was asked to, and of an ID that is shown to it it tells the scalar only *)
(* if it made that ID for that relying party.  It disowns the others, and  *)
(* one of its own only by one mistake: the library that it has test what   *)
(* the ID holds refuses it.  Every other failure is told as one.           *)
(***************************************************************************)
CONSTANTS Keys,    \* the keys it may come by
          NoKey,   \* before it has one
          Rps,     \* relying parties
          Scalars, \* what a credential ID holds
          Foreign, \* IDs that are altered or another device's
          Nothing  \* no argument, no value

VARIABLES key,    \* its key
          issued, \* the credential IDs handed out
          answer  \* the last call and what it returned, forgotten at a restart

promise == <<key, issued, answer>>
-----------------------------------------------------------------------------
\* refused tells why: the library refused what the ID holds.
AnswerFor(op, rp, arg, result, value, refused) ==
    [op |-> op, rp |-> rp, arg |-> arg, result |-> result, value |-> value,
     refused |-> refused]

Answer(op, rp, arg, result, value) ==
    AnswerFor(op, rp, arg, result, value, FALSE)

NoAnswer == Answer("none", Nothing, Nothing, "none", Nothing)

Init == key = NoKey /\ issued = {} /\ answer = NoAnswer

KeyKept  == key' = key
KeyFound == key = NoKey /\ key' \in Keys

FindKey == KeyFound /\ UNCHANGED <<issued, answer>>

\* Without a key no call is served.
Serve(reply) == key # NoKey /\ KeyKept /\ answer' = reply

Sealed(rp, scalar) == [root |-> key, rp |-> rp, scalar |-> scalar]

Issue(rp, scalar) ==
    /\ issued' = issued \cup {Sealed(rp, scalar)}
    /\ Serve(Answer("wrap", rp, scalar, "OK", Sealed(rp, scalar)))

Mine(rp, id) == id \in issued /\ id.rp = rp

Reveal(rp, id) ==
    /\ Mine(rp, id)
    /\ Serve(Answer("open", rp, id, "OK", id.scalar))
    /\ UNCHANGED issued

Disown(rp, id) ==
    /\ ~Mine(rp, id)
    /\ Serve(Answer("open", rp, id, "MISMATCH", Nothing))
    /\ UNCHANGED issued

Mistake(rp, id) ==
    /\ Mine(rp, id)
    /\ Serve(AnswerFor("open", rp, id, "MISMATCH", Nothing, TRUE))
    /\ UNCHANGED issued

\* Any other failure says nothing of the ID.
Fail(op, rp, arg) ==
    /\ \E result \in {"ROOT", "CRYPTO"} :
          Serve(Answer(op, rp, arg, result, Nothing))
    /\ UNCHANGED issued

Restart ==
    /\ KeyKept \/ KeyFound
    /\ answer' = NoAnswer
    /\ UNCHANGED issued

Next ==
    \/ FindKey
    \/ \E rp \in Rps, scalar \in Scalars :
          Issue(rp, scalar) \/ Fail("wrap", rp, scalar)
    \/ \E rp \in Rps, id \in issued \cup Foreign :
          \/ Reveal(rp, id) \/ Disown(rp, id) \/ Mistake(rp, id)
          \/ Fail("open", rp, id)
    \/ Restart

Spec == Init /\ [][Next]_promise
=============================================================================
