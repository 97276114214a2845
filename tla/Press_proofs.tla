---------------------------- MODULE Press_proofs ----------------------------
(* Proofs about press_wait for every debounce, timeout and keepalive       *)
(* period: the press that gives presence is fresh, and no fresh press is   *)
(* overlooked.                                                             *)
EXTENDS Press, TLAPS

(* The call is taking samples.                                             *)
Looping == pc \in {"check", "keepalive", "failed", "sample"}

(* The samples of the wanted level that stable counts are the last ones    *)
(* read; the one before them, when there is one, has the other level.      *)
Counted ==
  /\ Len(readings) >= 1
  /\ stable <= Len(readings) - 1
  /\ \A i \in (Len(readings) - stable + 1)..Len(readings) :
        readings[i] # need_release
  /\ stable < Len(readings) - 1 =>
        readings[Len(readings) - stable] = need_release

(* The button is waited for to be released exactly while it was down when  *)
(* the call began and no debounced release has been seen.                  *)
Released ==
  /\ need_release => readings[1]
  /\ readings[1] /\ ~need_release =>
        \E q \in 2..(Len(readings) - stable - Debounce + 1) : Lasts(q, FALSE)
  /\ need_release =>
        \A q \in 2..(Len(readings) - Debounce + 1) : ~Lasts(q, FALSE)

(* What holds of a call before and between its samples.                    *)
PressTypes ==
  /\ pc \in {"idle", "check", "keepalive", "failed", "sample", "accept"}
  /\ need_release \in BOOLEAN
  /\ stable \in Nat
  /\ elapsed \in Nat
  /\ result \in Results
  /\ readings \in Seq(BOOLEAN)

IInv ==
  /\ PressTypes
  /\ pc # "idle" => Counted /\ Released
  /\ pc # "idle" => result = "NONE"
  /\ Looping => /\ stable < Debounce
                /\ elapsed <= Timeout
                /\ pc # "check" => elapsed < Timeout
                /\ Len(readings) = elapsed + 1
                /\ ~PressSeen
  /\ pc = "accept" => ~need_release /\ stable >= Debounce
  /\ FreshPress
  /\ PressNotMissed

----------------------------------------------------------------------------
(* A sequence keeps its elements when one is appended.                     *)
LEMMA Appended ==
  ASSUME NEW s \in Seq(BOOLEAN), NEW b \in BOOLEAN
  PROVE  /\ Append(s, b) \in Seq(BOOLEAN)
         /\ Len(Append(s, b)) = Len(s) + 1
         /\ \A i \in 1..Len(s) : Append(s, b)[i] = s[i]
         /\ Append(s, b)[Len(s) + 1] = b
  OBVIOUS

(* What one sample does to the count: the last stable' readings differ     *)
(* from need_release and the one before them does not.                     *)
LEMMA SampleCounts ==
  ASSUME PressTypes, Counted, NEW b \in BOOLEAN,
         readings' = Append(readings, b)
  PROVE  /\ Stable(b) \in Nat
         /\ Stable(b) <= Len(readings)
         /\ Len(readings') = Len(readings) + 1
         /\ \A i \in (Len(readings') - Stable(b) + 1)..Len(readings') :
               readings'[i] # need_release
         /\ Stable(b) < Len(readings) =>
               readings'[Len(readings') - Stable(b)] = need_release
<1>1. /\ Len(readings') = Len(readings) + 1
      /\ \A i \in 1..Len(readings) : readings'[i] = readings[i]
      /\ readings'[Len(readings) + 1] = b
  BY Appended DEF PressTypes
<1>2. Len(readings) \in Nat /\ stable \in Nat /\ need_release \in BOOLEAN
  BY DEF PressTypes
<1>3. CASE b # need_release
  <2>1. Stable(b) = stable + 1
    BY <1>3 DEF Stable
  <2> QED  BY <2>1, <1>1, <1>2, <1>3 DEF Counted
<1>4. CASE b = need_release
  <2>1. Stable(b) = 0
    BY <1>4 DEF Stable
  <2> QED  BY <2>1, <1>1, <1>2, <1>4 DEF Counted
<1> QED  BY <1>3, <1>4

(* A level lasts over the readings after a sample as it did before it.     *)
LEMMA LastsKept ==
  ASSUME PressTypes, NEW b \in BOOLEAN, readings' = Append(readings, b),
         NEW v \in BOOLEAN, NEW from \in 1..(Len(readings) - Debounce + 1)
  PROVE  Lasts(from, v)' <=> Lasts(from, v)
<1>1. \A i \in 1..Len(readings) : readings'[i] = readings[i]
  BY Appended DEF PressTypes
<1>2. Debounce \in Nat /\ Len(readings) \in Nat
  BY PressAssumption DEF PressTypes
<1>3. \A i \in from..(from + Debounce - 1) : i \in 1..Len(readings)
  BY <1>2
<1> QED  BY <1>1, <1>3 DEF Lasts

----------------------------------------------------------------------------
LEMMA InitIInv == Init => IInv
<1> SUFFICES ASSUME Init PROVE IInv
  OBVIOUS
<1>0. <<>> \in Seq(BOOLEAN)
  OBVIOUS
<1>1. PressTypes
  BY <1>0 DEF Init, PressTypes, Results
<1>2. pc = "idle" /\ result = "NONE"
  BY DEF Init
<1> QED  BY <1>1, <1>2 DEF IInv, Looping, FreshPress, PressNotMissed

(* Steps that read no level keep everything the invariant says of the      *)
(* readings.                                                               *)
LEMMA SameReadings ==
  ASSUME UNCHANGED <<readings, need_release, stable>>
  PROVE  /\ Counted' <=> Counted
         /\ Released' <=> Released
         /\ PressSeen' <=> PressSeen
  BY DEF Counted, Released, PressSeen, Lasts

(* Presence accepted by a call whose count is full is presence for a press *)
(* that is fresh.                                                          *)
LEMMA AcceptedIsFresh ==
  ASSUME PressTypes, Counted, Released, ~need_release, stable >= Debounce
  PROVE  PressSeen
<1> DEFINE L == Len(readings)
           p == L - Debounce + 1
<1>1. /\ L \in Nat /\ stable \in Nat /\ Debounce \in Nat \ {0}
      /\ need_release \in BOOLEAN
  BY PressAssumption DEF PressTypes
<1>2. p \in 2..(L - Debounce + 1)
  BY <1>1 DEF Counted
<1>3. Lasts(p, TRUE)
  <2>1. \A i \in p..(p + Debounce - 1) : i \in (L - stable + 1)..L
    BY <1>1
  <2>2. \A i \in p..(p + Debounce - 1) : i \in 1..L /\ readings[i] \in BOOLEAN
    BY <1>1, <1>2 DEF PressTypes
  <2>3. \A i \in p..(p + Debounce - 1) : readings[i] # need_release
    BY <2>1 DEF Counted
  <2>4. need_release = FALSE
    BY <1>1
  <2>5. \A i \in p..(p + Debounce - 1) : readings[i] = TRUE
    BY <2>2, <2>3, <2>4, Zenon
  <2> QED  BY <2>5 DEF Lasts
<1>4. readings[1] => \E q \in 2..(p - Debounce) : Lasts(q, FALSE)
  <2> SUFFICES ASSUME readings[1]
               PROVE  \E q \in 2..(p - Debounce) : Lasts(q, FALSE)
    OBVIOUS
  <2>1. PICK q \in 2..(L - stable - Debounce + 1) : Lasts(q, FALSE)
    BY DEF Released
  <2>2. q \in 2..(p - Debounce)
    BY <1>1
  <2> QED  BY <2>1, <2>2
<1> QED  BY <1>2, <1>3, <1>4 DEF PressSeen

(* A sample that does not fill the count leaves no fresh press behind.     *)
LEMMA StillNotSeen ==
  ASSUME PressTypes, Counted, ~PressSeen, NEW b \in BOOLEAN, ~need_release,
         readings' = Append(readings, b), Stable(b) < Debounce
  PROVE  ~PressSeen'
<1> DEFINE L == Len(readings)
<1>1. /\ L \in Nat \ {0} /\ Debounce \in Nat \ {0} /\ L' = L + 1
      /\ \A i \in 1..L : readings'[i] = readings[i]
  BY PressAssumption, Appended DEF PressTypes, Counted
<1> SUFFICES ASSUME PressSeen' PROVE FALSE
  OBVIOUS
<1>2. PICK p \in 2..(L' - Debounce + 1) :
         /\ Lasts(p, TRUE)'
         /\ readings'[1] => \E q \in 2..(p - Debounce) : Lasts(q, FALSE)'
  BY DEF PressSeen
<1>3. CASE p = L' - Debounce + 1
  <2>1. /\ Stable(b) \in Nat
        /\ Stable(b) < L => readings'[L' - Stable(b)] = need_release
    BY SampleCounts, <1>1
  <2>2. Stable(b) < L /\ L' - Stable(b) \in p..(p + Debounce - 1)
    BY <2>1, <1>1, <1>3
  <2>3. readings'[L' - Stable(b)] = TRUE
    BY <2>2, <1>2 DEF Lasts
  <2> QED  BY <2>1, <2>2, <2>3
<1>4. CASE p # L' - Debounce + 1
  <2>1. p \in 2..(L - Debounce + 1)
    BY <1>1, <1>4
  <2>2. Lasts(p, TRUE)
    <3>1. p \in 1..(L - Debounce + 1)
      BY <2>1, <1>1
    <3> QED  BY <3>1, <1>2, LastsKept
  <2>3. \A q \in 2..(p - Debounce) : Lasts(q, FALSE)' => Lasts(q, FALSE)
    <3> SUFFICES ASSUME NEW q \in 2..(p - Debounce), Lasts(q, FALSE)'
                 PROVE  Lasts(q, FALSE)
      OBVIOUS
    <3>1. q \in 1..(L - Debounce + 1)
      BY <2>1, <1>1
    <3> QED  BY <3>1, LastsKept
  <2>4. readings'[1] = readings[1]
    BY <1>1
  <2> QED  BY <2>1, <2>2, <2>3, <2>4, <1>2 DEF PressSeen
<1> QED  BY <1>3, <1>4

(* A debounced release seen by a sample is a fact of the next state.       *)
LEMMA ReleaseSeen ==
  ASSUME PressTypes, Counted, need_release, NEW b \in BOOLEAN,
         readings' = Append(readings, b), Stable(b) >= Debounce
  PROVE  \E q \in 2..(Len(readings') - Debounce + 1) : Lasts(q, FALSE)'
<1> DEFINE L == Len(readings)
<1>1. /\ Stable(b) \in Nat
      /\ Stable(b) <= L
      /\ L' = L + 1
      /\ \A i \in (L' - Stable(b) + 1)..L' : readings'[i] # need_release
  BY SampleCounts
<1>2. /\ L \in Nat /\ Debounce \in Nat \ {0}
      /\ need_release = TRUE
      /\ readings' \in Seq(BOOLEAN)
  BY PressAssumption, Appended DEF PressTypes
<1>3. PICK q : q = L' - Debounce + 1
  OBVIOUS
<1>4. q \in 2..(L' - Debounce + 1)
  BY <1>1, <1>2, <1>3
<1>5. \A i \in q..(q + Debounce - 1) :
         i \in (L' - Stable(b) + 1)..L' /\ i \in 1..L'
  BY <1>1, <1>2, <1>3, <1>4
<1>6. \A i \in q..(q + Debounce - 1) : readings'[i] \in BOOLEAN
  BY <1>2, <1>5
<1>7. \A i \in q..(q + Debounce - 1) : readings'[i] # TRUE
  BY <1>1, <1>2, <1>5
<1>8. \A i \in q..(q + Debounce - 1) : readings'[i] = FALSE
  BY <1>6, <1>7, Zenon
<1>9. Lasts(q, FALSE)'
  BY <1>8 DEF Lasts
<1> QED  BY <1>4, <1>9

(* A sample that does not fill the count shows no debounced release.       *)
LEMMA StillHeld ==
  ASSUME PressTypes, Counted, Released, need_release, NEW b \in BOOLEAN,
         readings' = Append(readings, b), Stable(b) < Debounce
  PROVE  \A q \in 2..(Len(readings') - Debounce + 1) : ~Lasts(q, FALSE)'
<1> DEFINE L == Len(readings)
<1>1. /\ L \in Nat \ {0} /\ Debounce \in Nat \ {0} /\ L' = L + 1
      /\ need_release = TRUE
  BY PressAssumption, Appended DEF PressTypes, Counted
<1> SUFFICES ASSUME NEW q \in 2..(L' - Debounce + 1), Lasts(q, FALSE)'
             PROVE  FALSE
  OBVIOUS
<1>2. CASE q = L' - Debounce + 1
  <2>1. /\ Stable(b) \in Nat
        /\ Stable(b) < L => readings'[L' - Stable(b)] = need_release
    BY SampleCounts, <1>1
  <2>2. Stable(b) < L /\ L' - Stable(b) \in q..(q + Debounce - 1)
    BY <2>1, <1>1, <1>2
  <2>3. readings'[L' - Stable(b)] = FALSE
    BY <2>2 DEF Lasts
  <2> QED  BY <2>1, <2>2, <2>3, <1>1
<1>3. CASE q # L' - Debounce + 1
  <2>1. q \in 2..(L - Debounce + 1) /\ q \in 1..(L - Debounce + 1)
    BY <1>1, <1>3
  <2>2. Lasts(q, FALSE)
    BY <2>1, LastsKept
  <2> QED  BY <2>1, <2>2 DEF Released
<1> QED  BY <1>2, <1>3

(* The sample that completes the release gives no fresh press yet.         *)
LEMMA ReleaseOnly ==
  ASSUME PressTypes, Counted, Released, need_release, NEW b \in BOOLEAN,
         readings' = Append(readings, b)
  PROVE  ~PressSeen'
<1> DEFINE L == Len(readings)
<1>1. /\ L \in Nat \ {0} /\ Debounce \in Nat \ {0} /\ L' = L + 1
      /\ readings'[1] = readings[1]
  BY PressAssumption, Appended DEF PressTypes, Counted
<1> SUFFICES ASSUME PressSeen' PROVE FALSE
  OBVIOUS
<1>2. PICK p \in 2..(L' - Debounce + 1) :
         readings'[1] => \E q \in 2..(p - Debounce) : Lasts(q, FALSE)'
  BY DEF PressSeen
<1>3. PICK q \in 2..(p - Debounce) : Lasts(q, FALSE)'
  BY <1>1, <1>2 DEF Released
<1>4. q \in 2..(L - Debounce + 1) /\ q \in 1..(L - Debounce + 1)
  BY <1>1, <1>2, <1>3
<1>5. Lasts(q, FALSE)
  BY <1>3, <1>4, LastsKept
<1> QED  BY <1>4, <1>5 DEF Released

(* Every sample keeps the count and what is known of the release.          *)
LEMMA SampleKeeps ==
  ASSUME IInv, NEW b \in BOOLEAN, Sample(b)
  PROVE  IInv'
<1>1. /\ PressTypes /\ Counted /\ Released /\ ~PressSeen
      /\ stable < Debounce /\ elapsed < Timeout
      /\ Len(readings) = elapsed + 1
      /\ readings' = Append(readings, b)
      /\ UNCHANGED result
  BY DEF IInv, Sample, Looping
<1>2. /\ Stable(b) \in Nat
      /\ Stable(b) <= Len(readings)
      /\ Len(readings') = Len(readings) + 1
      /\ \A i \in (Len(readings') - Stable(b) + 1)..Len(readings') :
            readings'[i] # need_release
      /\ Stable(b) < Len(readings) =>
            readings'[Len(readings') - Stable(b)] = need_release
  BY <1>1, SampleCounts
<1>3. /\ readings' \in Seq(BOOLEAN)
      /\ readings'[1] = readings[1]
      /\ readings'[Len(readings')] = b
      /\ Len(readings) \in Nat \ {0}
  BY <1>1, Appended DEF PressTypes, Counted
<1>4. Debounce \in Nat \ {0} /\ Timeout \in Nat
  BY PressAssumption
<1>5. /\ pc = "sample" /\ result = "NONE" /\ result' = "NONE"
      /\ need_release \in BOOLEAN /\ elapsed \in Nat
  BY <1>1 DEF IInv, Sample, PressTypes
<1>6. FreshPress' /\ PressNotMissed'
  BY <1>5 DEF FreshPress, PressNotMissed
<1>7. CASE Settled(b) /\ ~need_release
  <2>1. /\ pc' = "accept" /\ stable' = Stable(b)
        /\ UNCHANGED <<need_release, elapsed>>
    BY <1>7, <1>5 DEF Sample
  <2>2. Counted'
    BY <1>2, <1>3, <2>1 DEF Counted
  <2>3. Released'
    <3> SUFFICES ASSUME readings'[1]
                 PROVE  \E q \in 2..(Len(readings') - Stable(b) - Debounce + 1) :
                           Lasts(q, FALSE)'
      BY <1>7, <2>1 DEF Released
    <3>1. PICK q \in 2..(Len(readings) - stable - Debounce + 1) :
             Lasts(q, FALSE)
      BY <1>1, <1>3, <1>7 DEF Released
    <3>2. q \in 1..(Len(readings) - Debounce + 1)
      BY <1>1, <1>3, <1>4 DEF PressTypes
    <3>3. Lasts(q, FALSE)'
      BY <1>1, <3>1, <3>2, LastsKept
    <3>4. Stable(b) <= stable + 1
      BY <1>1 DEF Stable, PressTypes
    <3>5. q \in 2..(Len(readings') - Stable(b) - Debounce + 1)
      BY <1>1, <1>2, <1>3, <1>4, <3>4 DEF PressTypes
    <3> QED  BY <3>3, <3>5
  <2>4. stable' >= Debounce /\ ~need_release'
    BY <1>7, <2>1 DEF Settled
  <2>5. PressTypes'
    BY <1>1, <1>2, <1>3, <1>5, <2>1 DEF PressTypes
  <2> QED  BY <1>5, <1>6, <2>1, <2>2, <2>3, <2>4, <2>5 DEF IInv, Looping
<1>8. CASE Settled(b) /\ need_release
  <2>1. /\ pc' = "check" /\ stable' = 0 /\ need_release' = FALSE
        /\ elapsed' = elapsed + 1
    BY <1>8, <1>5 DEF Sample
  <2>2. b = FALSE
    <3>1. b # need_release
      <4> SUFFICES ASSUME b = need_release PROVE FALSE
        OBVIOUS
      <4>1. Stable(b) = 0
        BY DEF Stable
      <4> QED  BY <4>1, <1>4, <1>8 DEF Settled
    <3> QED  BY <3>1, <1>5, <1>8, Zenon
  <2>3. Counted'
    <3>1. Len(readings') \in Nat \ {0}
      BY <1>2, <1>3
    <3>2. Len(readings') - stable' = Len(readings')
      BY <3>1, <2>1
    <3>3. (Len(readings') - stable' + 1)..Len(readings') = {}
      BY <3>1, <2>1
    <3>4. readings'[Len(readings') - stable'] = need_release'
      BY <3>2, <2>1, <2>2, <1>3
    <3>5. 0 <= Len(readings') - 1 /\ Len(readings') >= 1
      BY <3>1
    <3> QED  BY <3>3, <3>4, <3>5, <2>1 DEF Counted
  <2>4. \E q \in 2..(Len(readings') - Debounce + 1) : Lasts(q, FALSE)'
    BY <1>1, <1>8, ReleaseSeen DEF Settled
  <2>5. Len(readings') - stable' - Debounce + 1 = Len(readings') - Debounce + 1
    BY <1>2, <1>3, <1>4, <2>1
  <2>6. Released'
    BY <2>1, <2>4, <2>5 DEF Released
  <2>7. ~PressSeen'
    BY <1>1, <1>8, ReleaseOnly DEF Settled
  <2>8. PressTypes'
    BY <1>1, <1>3, <1>5, <2>1 DEF PressTypes
  <2> QED  BY <1>1, <1>2, <1>4, <1>5, <1>6, <2>1, <2>3, <2>6, <2>7, <2>8
           DEF IInv, Looping
<1>9. CASE ~Settled(b)
  <2>1. /\ pc' = "check" /\ stable' = Stable(b) /\ stable' < Debounce
        /\ elapsed' = elapsed + 1
        /\ UNCHANGED need_release
    BY <1>9, <1>2, <1>4 DEF Sample, Settled
  <2>2. Counted'
    BY <1>2, <1>3, <2>1 DEF Counted
  <2>3. CASE need_release
    <3>1. \A q \in 2..(Len(readings') - Debounce + 1) : ~Lasts(q, FALSE)'
      BY <1>1, <2>1, <2>3, StillHeld
    <3>2. Released'
      BY <1>1, <1>3, <2>1, <2>3, <3>1 DEF Released
    <3>3. PressTypes'
      BY <1>1, <1>2, <1>3, <1>5, <2>1 DEF PressTypes
    <3>4. ~PressSeen'
      BY <1>1, <2>3, ReleaseOnly
    <3> QED  BY <1>1, <1>2, <1>4, <1>5, <1>6, <2>1, <2>2, <3>2, <3>3, <3>4
             DEF IInv, Looping
  <2>4. CASE ~need_release
    <3>1. Released'
      <4> SUFFICES ASSUME readings'[1]
                   PROVE  \E q \in 2..(Len(readings') - Stable(b) - Debounce + 1) :
                             Lasts(q, FALSE)'
        BY <2>4, <2>1 DEF Released
      <4>1. PICK q \in 2..(Len(readings) - stable - Debounce + 1) :
               Lasts(q, FALSE)
        BY <1>1, <1>3, <2>4 DEF Released
      <4>2. q \in 1..(Len(readings) - Debounce + 1)
        BY <1>1, <1>3, <1>4 DEF PressTypes
      <4>3. Lasts(q, FALSE)'
        BY <1>1, <4>1, <4>2, LastsKept
      <4>4. Stable(b) <= stable + 1
        BY <1>1 DEF Stable, PressTypes
      <4>5. q \in 2..(Len(readings') - Stable(b) - Debounce + 1)
        BY <1>1, <1>2, <1>3, <1>4, <4>4 DEF PressTypes
      <4> QED  BY <4>3, <4>5
    <3>2. ~PressSeen'
      BY <1>1, <2>1, <2>4, StillNotSeen
    <3>3. PressTypes'
      BY <1>1, <1>2, <1>3, <1>5, <2>1 DEF PressTypes
    <3> QED  BY <1>1, <1>2, <1>4, <1>5, <1>6, <2>1, <2>2, <3>1, <3>2, <3>3
             DEF IInv, Looping
  <2> QED  BY <2>3, <2>4
<1> QED  BY <1>5, <1>7, <1>8, <1>9 DEF Sample


----------------------------------------------------------------------------
LEMMA NextIInv == IInv /\ [Next]_vars => IInv'
<1> SUFFICES ASSUME IInv, [Next]_vars PROVE IInv'
  OBVIOUS
<1>1. ASSUME CallUnready PROVE IInv'
  <2>1. /\ pc = "idle" /\ pc' = "idle" /\ result' = "DENIED"
        /\ readings' = <<>>
        /\ UNCHANGED <<need_release, stable, elapsed>>
    BY <1>1 DEF CallUnready
  <2>2. <<>> \in Seq(BOOLEAN)
    OBVIOUS
  <2>3. PressTypes'
    BY <2>1, <2>2 DEF IInv, PressTypes, Results
  <2> QED  BY <2>1, <2>3 DEF IInv, Looping, FreshPress, PressNotMissed
<1>2. ASSUME NEW pressed \in BOOLEAN, Call(pressed) PROVE IInv'
  <2>1. /\ pc' = "check" /\ need_release' = pressed /\ stable' = 0
        /\ elapsed' = 0 /\ result' = "NONE" /\ readings' = <<pressed>>
    BY <1>2 DEF Call
  <2>2. /\ readings' \in Seq(BOOLEAN) /\ Len(readings') = 1
        /\ readings'[1] = pressed
    BY <2>1
  <2>3. Debounce \in Nat \ {0} /\ Timeout \in Nat
    BY PressAssumption
  <2>4. PressTypes'
    BY <2>1, <2>2 DEF PressTypes, Results
  <2>5. 2..(Len(readings') - Debounce + 1) = {}
    BY <2>2, <2>3
  <2>6. Counted'
    BY <2>1, <2>2 DEF Counted
  <2>7. Released'
    BY <2>1, <2>2, <2>5 DEF Released
  <2>8. ~PressSeen'
    BY <2>5 DEF PressSeen
  <2> QED  BY <2>1, <2>2, <2>3, <2>4, <2>6, <2>7, <2>8
           DEF IInv, Looping, FreshPress, PressNotMissed
<1>3. ASSUME NEW r \in {"CANCEL", "DENIED"}, Return(r) PROVE IInv'
  <2>1. pc' = "idle" /\ result' = r /\ PressTypes'
    BY <1>3 DEF Return, IInv, PressTypes, Results
  <2> QED  BY <2>1 DEF IInv, Looping, FreshPress, PressNotMissed
<1>4. ASSUME Expire PROVE IInv'
  <2>1. /\ pc = "check" /\ elapsed >= Timeout /\ pc' = "idle"
        /\ result' = "TIMEOUT"
        /\ UNCHANGED <<need_release, stable, elapsed, readings>>
    BY <1>4 DEF Expire, Return
  <2>2. PressTypes'
    BY <2>1 DEF IInv, PressTypes, Results
  <2>3. ~PressSeen' /\ Len(readings') = Timeout + 1
    BY <2>1, PressAssumption, SameReadings DEF IInv, Looping, PressTypes
  <2> QED  BY <2>1, <2>2, <2>3 DEF IInv, Looping, FreshPress, PressNotMissed
<1>5. ASSUME NEW label \in {"keepalive", "failed", "sample"}, Goto(label),
             Looping, elapsed < Timeout
      PROVE  IInv'
  <2>1. /\ pc' = label
        /\ UNCHANGED <<need_release, stable, elapsed, result, readings>>
    BY <1>5 DEF Goto
  <2>2. PressTypes'
    BY <2>1 DEF IInv, PressTypes
  <2>3. /\ Counted' /\ Released' /\ ~PressSeen' /\ result = "NONE"
        /\ stable < Debounce /\ Len(readings) = elapsed + 1
        /\ elapsed <= Timeout
    BY <2>1, <1>5, SameReadings DEF IInv, Looping
  <2> QED  BY <2>1, <2>2, <2>3, <1>5
           DEF IInv, Looping, FreshPress, PressNotMissed
<1>6. ASSUME Check PROVE IInv'
  BY <1>3, <1>5, <1>6 DEF Check, Looping
<1>7. ASSUME SendKeepalive PROVE IInv'
  <2>1. Looping /\ elapsed < Timeout
    BY <1>7 DEF SendKeepalive, IInv, Looping
  <2> QED  BY <2>1, <1>5, <1>7 DEF SendKeepalive
<1>8. ASSUME KeepaliveFailed PROVE IInv'
  BY <1>3, <1>8 DEF KeepaliveFailed
<1>9. ASSUME NEW pressed \in BOOLEAN, Sample(pressed) PROVE IInv'
  BY <1>9, SampleKeeps
<1>10. ASSUME Accept PROVE IInv'
  <2>1. pc = "accept" /\ PressSeen
    BY <1>10, AcceptedIsFresh DEF Accept, IInv
  <2>2. CASE Return("CANCEL")
    BY <2>2, <1>3
  <2>3. CASE Return("OK")
    <3>1. /\ pc' = "idle" /\ result' = "OK"
          /\ UNCHANGED <<need_release, stable, elapsed, readings>>
      BY <2>3 DEF Return
    <3>2. PressTypes'
      BY <3>1 DEF IInv, PressTypes, Results
    <3>3. PressSeen'
      BY <2>1, <3>1, SameReadings
    <3> QED  BY <3>1, <3>2, <3>3 DEF IInv, Looping, FreshPress, PressNotMissed
  <2> QED  BY <2>2, <2>3, <1>10 DEF Accept
<1>11. ASSUME UNCHANGED <<pc, need_release, stable, elapsed, result, readings>>
       PROVE  IInv'
  <2>1. /\ Counted' <=> Counted
        /\ Released' <=> Released
        /\ PressSeen' <=> PressSeen
    BY <1>11, SameReadings
  <2> QED  BY <2>1, <1>11
           DEF IInv, PressTypes, Looping, FreshPress, PressNotMissed
<1>12. ASSUME CancelArrives PROVE IInv'
  BY <1>11, <1>12 DEF CancelArrives
<1>13. ASSUME UNCHANGED vars PROVE IInv'
  BY <1>11, <1>13 DEF vars
<1> QED  BY <1>1, <1>2, <1>4, <1>6, <1>7, <1>8, <1>9, <1>10, <1>12, <1>13
         DEF Next, Step

(* Whatever the debounce, the timeout and the keepalive period are, the    *)
(* press that gives presence was made afresh during the call.              *)
THEOREM FreshPressTheorem == Spec => []FreshPress
<1>1. IInv => FreshPress
  BY DEF IInv
<1> QED  BY <1>1, InitIInv, NextIInv, PTL DEF Spec

(* A call that times out overlooked no fresh press.                        *)
THEOREM PressNotMissedTheorem == Spec => []PressNotMissed
<1>1. IInv => PressNotMissed
  BY DEF IInv
<1> QED  BY <1>1, InitIInv, NextIInv, PTL DEF Spec

----------------------------------------------------------------------------
(* Cancels.  A cancel ends the call at the head of the loop or at the end  *)
(* of the press, and one sample at most lies between two such looks.       *)

LateInv ==
  /\ cancelled \in BOOLEAN
  /\ late \in {0, 1}
  /\ late = 1 => cancelled
  /\ pc \in {"keepalive", "failed", "sample"} => late = 0
  /\ result = "OK" => ~cancelled /\ pc = "idle"

LEMMA InitLateInv == Init => LateInv
<1> SUFFICES ASSUME Init PROVE LateInv
  OBVIOUS
<1>1. late = 0 /\ result = "NONE"
  BY DEF Init
<1>2. cancelled \in BOOLEAN
  BY DEF Init
<1> QED  BY <1>1, <1>2 DEF LateInv

LEMMA NextLateInv == LateInv /\ [Next]_vars => LateInv'
<1> SUFFICES ASSUME LateInv, [Next]_vars PROVE LateInv'
  OBVIOUS
<1>1. CASE CallUnready \/ \E pressed \in BOOLEAN : Call(pressed)
  <2>1. late' = 0 /\ result' # "OK"
    BY <1>1 DEF CallUnready, Call
  <2>2. cancelled' \in BOOLEAN
    BY <1>1 DEF CallUnready, Call
  <2> QED  BY <2>1, <2>2 DEF LateInv
<1>2. CASE Expire
  BY <1>2 DEF Expire, Return, LateInv
<1>3. CASE Check
  <2>1. UNCHANGED <<late, cancelled>>
    BY <1>3 DEF Check, Return, Goto
  <2>2. CASE Return("CANCEL")
    BY <2>2 DEF Return, LateInv
  <2>3. CASE ~cancelled /\ result' = result /\ pc = "check"
    <3>1. late = 0 /\ result # "OK"
      BY <2>3 DEF LateInv
    <3>2. late' = 0 /\ result' # "OK"
      BY <2>1, <2>3, <3>1
    <3>3. cancelled' \in BOOLEAN
      BY <2>1 DEF LateInv
    <3> QED  BY <3>2, <3>3 DEF LateInv
  <2>4. PICK answer \in Answers :
           \/ answer /\ Return("CANCEL")
           \/ ~answer /\ result' = result /\ pc = "check"
    BY <1>3 DEF Check, Stops, Goto
  <2>5. answer = TRUE \/ (answer = FALSE /\ ~cancelled)
    BY <2>4 DEF Answers, LateInv
  <2> QED  BY <2>2, <2>3, <2>4, <2>5
<1>4. CASE SendKeepalive
  BY <1>4 DEF SendKeepalive, Goto, LateInv
<1>5. CASE KeepaliveFailed
  BY <1>5 DEF KeepaliveFailed, Return, LateInv
<1>6. CASE \E pressed \in BOOLEAN : Sample(pressed)
  <2>1. /\ pc = "sample" /\ UNCHANGED <<result, cancelled>>
        /\ late' = IF cancelled THEN late + 1 ELSE late
        /\ pc' \in {"accept", "check"}
    BY <1>6 DEF Sample
  <2>2. late = 0 /\ result # "OK"
    BY <2>1 DEF LateInv
  <2>3. cancelled' \in BOOLEAN /\ result' # "OK"
    BY <2>1, <2>2 DEF LateInv
  <2>4. CASE cancelled
    BY <2>1, <2>2, <2>3, <2>4 DEF LateInv
  <2>5. CASE ~cancelled
    <3>1. late' = 0
      BY <2>1, <2>2, <2>5
    <3> QED  BY <2>1, <2>3, <3>1 DEF LateInv
  <2> QED  BY <2>4, <2>5
<1>7. CASE Accept
  <2>1. CASE Return("CANCEL")
    BY <2>1 DEF Return, LateInv
  <2>2. CASE Return("OK") /\ ~cancelled
    BY <2>2 DEF Return, LateInv
  <2>3. PICK answer \in Answers : Return(IF answer THEN "CANCEL" ELSE "OK")
    BY <1>7 DEF Accept
  <2>4. answer = TRUE \/ (answer = FALSE /\ ~cancelled)
    BY <2>3 DEF Answers, LateInv
  <2> QED  BY <2>1, <2>2, <2>3, <2>4
<1>8. CASE CancelArrives
  BY <1>8 DEF CancelArrives, LateInv
<1>9. CASE UNCHANGED vars
  BY <1>9 DEF vars, LateInv
<1> QED  BY <1>1, <1>2, <1>3, <1>4, <1>5, <1>6, <1>7, <1>8, <1>9 DEF Next, Step

(* However long the debounce and the keepalive period are, a cancel is     *)
(* noticed before the second sample after it and no cancelled request is   *)
(* granted presence.                                                       *)
THEOREM CancelPromptTheorem == Spec => []CancelPrompt
<1>1. LateInv => CancelPrompt
  BY DEF LateInv, CancelPrompt
<1> QED  BY <1>1, InitLateInv, NextLateInv, PTL DEF Spec

----------------------------------------------------------------------------
(* The steps that the call still takes, at most: a turn of the loop is     *)
(* three, and the last one may end by one more.                            *)
Place == [idle |-> 0, accept |-> 1, failed |-> 1, sample |-> 2,
          keepalive |-> 3, check |-> 4]

Turns == IF Looping THEN Timeout - elapsed ELSE 0

StepsLeft == 3 * Turns + Place[pc]

(* Whatever the levels and the answers of the transport, the call is over  *)
(* after three steps for every sample of its timeout and a few more.       *)
Bounded == /\ pc # "idle" => StepsLeft \in 1..(3 * Timeout + 4)
           /\ pc = "idle" => StepsLeft = 0

Shortens == /\ Step => StepsLeft' < StepsLeft
            /\ CancelArrives => StepsLeft' = StepsLeft

LEMMA PlaceNumbers ==
  ASSUME PressTypes
  PROVE  /\ Place[pc] \in 0..4
         /\ Place[pc] = 0 <=> pc = "idle"
  BY DEF PressTypes, Place

LEMMA BoundedLemma == IInv => Bounded
<1> SUFFICES ASSUME IInv PROVE Bounded
  OBVIOUS
<1>1. /\ Timeout \in Nat /\ elapsed \in Nat
      /\ Looping => elapsed <= Timeout
      /\ pc = "idle" => ~Looping
  BY PressAssumption DEF IInv, PressTypes, Looping
<1>2. Turns \in 0..Timeout
  BY <1>1 DEF Turns
<1>3. /\ Place[pc] \in 0..4
      /\ Place[pc] = 0 <=> pc = "idle"
  BY PlaceNumbers DEF IInv
<1>4. pc = "idle" => Turns = 0
  BY <1>1 DEF Turns
<1> QED  BY <1>1, <1>2, <1>3, <1>4 DEF Bounded, StepsLeft

LEMMA StepShortens ==
  ASSUME IInv, Step
  PROVE  StepsLeft' < StepsLeft
<1>1. /\ Timeout \in Nat /\ elapsed \in Nat
      /\ Looping => elapsed <= Timeout
      /\ pc = "sample" => elapsed < Timeout
  BY PressAssumption DEF IInv, PressTypes, Looping
<1>2. CASE Expire \/ KeepaliveFailed \/ Accept
  <2>1. pc' = "idle" /\ pc \in {"check", "failed", "accept"}
    BY <1>2 DEF Expire, KeepaliveFailed, Accept, Return
  <2>2. Turns' = 0 /\ Turns \in Nat
    BY <1>1, <2>1 DEF Turns, Looping
  <2>3. Place[pc'] = 0 /\ Place[pc] \in Nat /\ Place[pc] > 0
    BY <2>1 DEF Place
  <2>4. StepsLeft' = 3 * Turns' + Place[pc']
    BY DEF StepsLeft, Place
  <2> QED  BY <2>2, <2>3, <2>4 DEF StepsLeft
<1>3. CASE Check \/ SendKeepalive
  <2>1. /\ elapsed' = elapsed
        /\ \/ pc = "check" /\ pc' \in {"idle", "keepalive", "sample"}
           \/ pc = "keepalive" /\ pc' \in {"sample", "failed"}
    BY <1>3 DEF Check, SendKeepalive, Return, Goto
  <2>2. Turns' \in Nat /\ Turns \in Nat /\ Turns' <= Turns
    BY <1>1, <2>1 DEF Turns, Looping
  <2>3. /\ Place[pc'] \in Nat /\ Place[pc] \in Nat
        /\ Place[pc'] < Place[pc]
    BY <2>1 DEF Place
  <2>4. StepsLeft' = 3 * Turns' + Place[pc']
    BY DEF StepsLeft, Place
  <2> QED  BY <2>2, <2>3, <2>4 DEF StepsLeft
<1>4. ASSUME NEW pressed \in BOOLEAN, Sample(pressed)
      PROVE  StepsLeft' < StepsLeft
  <2>1. /\ pc = "sample"
        /\ \/ pc' = "accept"
           \/ pc' = "check" /\ elapsed' = elapsed + 1
    BY <1>4 DEF Sample
  <2>2. StepsLeft' = 3 * Turns' + Place[pc']
    BY DEF StepsLeft, Place
  <2>3. Turns = Timeout - elapsed
    BY <2>1 DEF Turns, Looping
  <2>4. CASE pc' = "accept"
    <3>1. Turns' = 0 /\ Place[pc'] = 1 /\ Place[pc] = 2
      BY <2>1, <2>4 DEF Turns, Looping, Place
    <3> QED  BY <1>1, <2>1, <2>2, <2>3, <3>1 DEF StepsLeft
  <2>5. CASE pc' = "check" /\ elapsed' = elapsed + 1
    <3>1. /\ Turns' = Timeout - (elapsed + 1)
          /\ Place[pc'] = 4 /\ Place[pc] = 2
      BY <2>1, <2>5 DEF Turns, Looping, Place
    <3> QED  BY <1>1, <2>2, <2>3, <3>1 DEF StepsLeft
  <2> QED  BY <2>1, <2>4, <2>5
<1> QED  BY <1>2, <1>3, <1>4 DEF Step

(* press_wait ends by its timeout, whatever the levels, the cancels and    *)
(* the answers of hid_cancelled.                                           *)
THEOREM CallShortens == Spec => []Bounded /\ [][Shortens]_vars
<1>1. IInv => Shortens
  <2> SUFFICES ASSUME IInv PROVE Shortens
    OBVIOUS
  <2>1. ASSUME CancelArrives PROVE StepsLeft' = StepsLeft
    BY <2>1 DEF CancelArrives, StepsLeft, Turns, Looping, Place
  <2> QED  BY StepShortens, <2>1 DEF Shortens
<1> QED  BY <1>1, BoundedLemma, InitIInv, NextIInv, PTL DEF Spec
=============================================================================
