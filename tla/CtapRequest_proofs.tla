------------------------- MODULE CtapRequest_proofs -------------------------
(***************************************************************************)
(* Theorems of CtapRequest, for every set of heads and every bound.        *)
(***************************************************************************)
EXTENDS CtapRequest, SequenceTheorems, FiniteSetTheorems, TLAPS

(* A head is accepted only in the form writer_head gives its argument.     *)
LEMMA OneForm ==
    ASSUME NEW h \in Heads, Accepts(h)
    PROVE  h.form = Written(h.arg)
<1>1. h.form \in Form /\ h.arg <= Top[h.form]
  BY RequestAssumption DEF Accepts
<1>2. ASSUME NEW g \in Form, g < h.form  PROVE h.arg > Top[g]
  <2>1. h.arg > Top[h.form - 1]
    BY <1>1, <1>2 DEF Accepts, Form
  <2>2. g = h.form - 1 \/ g < h.form - 1
    BY <1>1, <1>2 DEF Form
  <2>3. h.form - 1 \in Form
    BY <1>1, <1>2 DEF Form
  <2>4. Top[g] <= Top[h.form - 1]
    BY <2>2, <2>3, <1>2, RequestAssumption
  <2>5. Top[g] \in Nat /\ Top[h.form - 1] \in Nat /\ h.arg \in Nat
    BY <2>3, <1>2, RequestAssumption
  <2> QED  BY <2>1, <2>4, <2>5
<1>3. ASSUME NEW f \in Form,
             h.arg <= Top[f] /\ \A g \in Form : g < f => h.arg > Top[g]
      PROVE  f = h.form
  <2>1. h.arg \in Nat /\ Top[f] \in Nat /\ Top[h.form] \in Nat
    BY <1>1, RequestAssumption
  <2>2. ~ (f < h.form)
    BY <1>2, <1>3, <2>1
  <2>3. ~ (h.form < f)
    BY <1>1, <1>3, <2>1
  <2> QED  BY <2>2, <2>3, <1>1 DEF Form
<1> QED  BY <1>1, <1>2, <1>3 DEF Written
-----------------------------------------------------------------------------
(* One form: whatever the reader expects, it only takes heads that         *)
(* reader_head accepts.                                                    *)

LEMMA FitsAccepts ==
    ASSUME NEW value, NEW h, Fits(value, h)  PROVE Accepts(h)
BY DEF Fits, GetsInt, Gets

LEMMA ConsumeCanonical ==
    ASSUME NEW h \in Heads, Accepts(h), strict, Consume(h)  PROVE strict'
BY OneForm DEF Consume

(* Every request is read from heads that p4_cbor's writer would write.     *)
THEOREM CanonicalTheorem == Spec => []HeadsCanonical
<1>1. Init => HeadsCanonical
  BY DEF Init, HeadsCanonical
<1>2. HeadsCanonical /\ [Next]_vars => HeadsCanonical'
  <2> SUFFICES ASSUME strict, [Next]_vars  PROVE strict'
    BY DEF HeadsCanonical
  <2> USE DEF HeadsCanonical
  <2>1. CASE OpenMessage
    BY <2>1, ConsumeCanonical DEF OpenMessage, Refuse, Return, Gets
  <2>2. CASE ReadKey
    BY <2>2, ConsumeCanonical DEF ReadKey, KeyHead, Refuse, Return, Gets
  <2>3. CASE ReadWrong
    BY <2>3 DEF ReadWrong, Refuse, Return
  <2>4. CASE ReadContainer
    BY <2>4, ConsumeCanonical, FitsAccepts DEF ReadContainer
  <2>5. CASE ReadData
    BY <2>5, ConsumeCanonical, FitsAccepts DEF ReadData
  <2>6. CASE BeginSkip
    BY <2>6 DEF BeginSkip
  <2>7. CASE SkipItem
    BY <2>7, ConsumeCanonical DEF SkipItem, Skippable, Refuse, Return, Gets
  <2>8. CASE EndFrame
    BY <2>8 DEF EndFrame, Return
  <2>9. CASE Judge
    BY <2>9 DEF Judge, Return
  <2>10. CASE Again
    BY <2>10 DEF Again
  <2>11. CASE UNCHANGED vars
    BY <2>11 DEF vars
  <2> QED
    BY <2>1, <2>2, <2>3, <2>4, <2>5, <2>6, <2>7, <2>8, <2>9, <2>10, <2>11
       DEF Next
<1> QED  BY <1>1, <1>2, PTL DEF Spec
-----------------------------------------------------------------------------
(* The inductive invariant of KeysOnce: in every open map the key whose     *)
(* value comes next has been noted and its value has not been read before. *)

Name == {"id", "type", "alg", "rk", "uv", "up", "other"}
Fact == {"public-key", "es256"}
Key  == Nat \cup Name
Kind == Container \cup {"top"}
Frame == [kind : Kind, left : Int, due : Seq(Key), have : SUBSET Key,
          met : SUBSET Fact, began : SUBSET Key]
SaidType == [wants : BOOLEAN, es256 : BOOLEAN, entry : SUBSET Fact,
             twice : BOOLEAN]

KeyNoted(f) ==
    /\ f.began \subseteq f.have
    /\ f.due # <<>> =>
         /\ f.due[1] \notin f.began
         /\ Tracked(f.kind, f.due[1]) => f.due[1] \in f.have

FramesNoted == \A i \in 1 .. Len(frames) : KeyNoted(frames[i])

OnceInv ==
    /\ cmd \in Command
    /\ frames \in Seq(Frame)
    /\ status = "READING" => frames # <<>>
    /\ FramesNoted
    /\ said \in SaidType /\ ~ said.twice

(* What the stack of frames is after its innermost is replaced, or one is  *)
(* opened or ended.                                                        *)
LEMMA InnerFrame ==
    ASSUME frames \in Seq(Frame), frames # <<>>
    PROVE  /\ Len(frames) \in Nat \ {0}
           /\ Inner = frames[Len(frames)]
           /\ Inner \in Frame
BY DEF Inner, Last

LEMMA FrontOfFrames ==
    ASSUME frames \in Seq(Frame), frames # <<>>
    PROVE  /\ Front(frames) \in Seq(Frame)
           /\ Len(Front(frames)) = Len(frames) - 1
           /\ \A i \in 1 .. Len(frames) - 1 : Front(frames)[i] = frames[i]
BY DEF Front

LEMMA FrameReplaced ==
    ASSUME frames \in Seq(Frame), frames # <<>>, NEW f \in Frame
    PROVE  /\ With(f) \in Seq(Frame)
           /\ With(f) # <<>>
           /\ Len(With(f)) = Len(frames)
           /\ \A i \in 1 .. Len(frames) - 1 : With(f)[i] = frames[i]
           /\ With(f)[Len(frames)] = f
<1>1. Len(frames) \in Nat \ {0}
  BY InnerFrame
<1> QED  BY <1>1, FrontOfFrames DEF With

LEMMA NotedReplaced ==
    ASSUME frames \in Seq(Frame), frames # <<>>, FramesNoted,
           NEW f \in Frame, KeyNoted(f), frames' = With(f), cmd' = cmd
    PROVE  /\ frames' \in Seq(Frame) /\ frames' # <<>>
           /\ FramesNoted'
<1>1. frames' \in Seq(Frame) /\ frames' # <<>> /\ Len(frames') = Len(frames)
  BY FrameReplaced
<1>2. Len(frames) \in Nat \ {0}
  BY InnerFrame
<1>3. ASSUME NEW i \in 1 .. Len(frames')  PROVE KeyNoted(frames'[i])
  <2>1. CASE i = Len(frames)
    BY <2>1, FrameReplaced
  <2>2. CASE i # Len(frames)
    <3>1. i \in 1 .. Len(frames) /\ i \in 1 .. Len(frames) - 1
      BY <1>1, <1>2, <2>2
    <3>2. frames'[i] = frames[i]
      BY <3>1, FrameReplaced
    <3> QED  BY <3>1, <3>2 DEF FramesNoted
  <2> QED  BY <2>1, <2>2
<1> QED  BY <1>1, <1>3 DEF FramesNoted, KeyNoted, Tracked, Known

LEMMA NotedOpened ==
    ASSUME frames \in Seq(Frame), FramesNoted, NEW f \in Frame, KeyNoted(f)
    PROVE  /\ Append(frames, f) \in Seq(Frame)
           /\ Append(frames, f) # <<>>
           /\ \A i \in 1 .. Len(Append(frames, f)) :
                  KeyNoted(Append(frames, f)[i])
<1>1. /\ Append(frames, f) \in Seq(Frame) /\ Append(frames, f) # <<>>
      /\ Len(Append(frames, f)) = Len(frames) + 1 /\ Len(frames) \in Nat
  OBVIOUS
<1>2. ASSUME NEW i \in 1 .. Len(Append(frames, f))
      PROVE  KeyNoted(Append(frames, f)[i])
  <2>1. CASE i = Len(frames) + 1
    BY <2>1
  <2>2. CASE i # Len(frames) + 1
    <3>1. i \in 1 .. Len(frames)
      BY <1>1, <2>2
    <3>2. Append(frames, f)[i] = frames[i]
      BY <3>1
    <3> QED  BY <3>1, <3>2 DEF FramesNoted
  <2> QED  BY <2>1, <2>2
<1> QED  BY <1>1, <1>2

LEMMA NewFrame ==
    ASSUME NEW kind \in Kind, NEW items \in Nat
    PROVE  Opened(kind, items) \in Frame /\ KeyNoted(Opened(kind, items))
BY DEF Opened, Frame, KeyNoted

(* The keys a head may stand for.                                          *)
LEMMA KeysTyped ==
    ASSUME cmd \in Command, frames \in Seq(Frame), frames # <<>>,
           ~ IsArray(Inner.kind), NEW h \in Heads, NEW key \in KeysIn(h)
    PROVE  key \in Key
<1>1. CASE Inner.kind = "top"
  BY <1>1, RequestAssumption DEF KeysIn, Key
<1>2. CASE Inner.kind # "top"
  <2>1. Inner.kind \in {"rp", "user", "alg", "desc", "options", "ignored"}
    BY <1>2, InnerFrame DEF Frame, Kind, Container, IsArray, Element
  <2>2. DOMAIN Known(Inner.kind) \subseteq Name
    <3>1. Known(Inner.kind) = KnownIn(cmd)[Inner.kind]
      BY <1>2 DEF Known
    <3>2. DOMAIN Option(cmd) = {"rk", "uv"} \/ DOMAIN Option(cmd) = {"up", "uv"}
      BY DEF Option
    <3>3. CASE Inner.kind = "options"
      BY <3>1, <3>2, <3>3 DEF KnownIn, Name
    <3>4. CASE Inner.kind = "ignored"
      BY <3>1, <3>4 DEF KnownIn
    <3>5. CASE Inner.kind = "rp"
      BY <3>1, <3>5 DEF KnownIn, Name
    <3>6. CASE Inner.kind = "user"
      BY <3>1, <3>6 DEF KnownIn, Name
    <3>7. CASE Inner.kind = "alg"
      BY <3>1, <3>7 DEF KnownIn, Name
    <3>8. CASE Inner.kind = "desc"
      BY <3>1, <3>8 DEF KnownIn, Name
    <3> QED  BY <2>1, <3>3, <3>4, <3>5, <3>6, <3>7, <3>8
  <2>3. KeysIn(h) \subseteq DOMAIN Known(Inner.kind) \cup {"other"}
    BY <1>2 DEF KeysIn, OtherText
  <2>4. KeysIn(h) \subseteq Name
    BY <2>2, <2>3 DEF Name
  <2> QED  BY <2>4 DEF Key
<1> QED  BY <1>1, <1>2
-----------------------------------------------------------------------------
(* The frame whose value begins, and what the history says of it.          *)
LEMMA BegunNoted ==
    ASSUME OnceInv, frames # <<>>
    PROVE  /\ Began \cap Inner.began = {}
           /\ Begun \in Frame /\ KeyNoted(Begun)
<1>1. Inner \in Frame /\ KeyNoted(Inner)
  BY InnerFrame DEF OnceInv, FramesNoted
<1>2. Began \cap Inner.began = {} /\ Began \subseteq Inner.have
  BY <1>1 DEF Began, KeyNoted
<1>3. Began \subseteq Key
  BY <1>1, <1>2 DEF Frame
<1>4. Begun \in Frame
  <2>1. /\ Inner.left - 1 \in Int /\ <<>> \in Seq(Key)
        /\ Inner.began \cup Began \in SUBSET Key
    BY <1>1, <1>3 DEF Frame
  <2> QED  BY <1>1, <2>1 DEF Begun, Frame
<1>5. /\ Begun.due = <<>> /\ Begun.have = Inner.have
      /\ Begun.began = Inner.began \cup Began
  BY <1>1 DEF Begun, Frame
<1>6. KeyNoted(Begun)
  BY <1>1, <1>2, <1>5 DEF KeyNoted
<1> QED  BY <1>2, <1>4, <1>6

LEMMA SaidOnce ==
    ASSUME OnceInv, frames # <<>>, NEW now \in SaidType, ~ now.twice, Said(now)
    PROVE  said' \in SaidType /\ ~ said'.twice
<1>1. Began \cap Inner.began = {}
  BY BegunNoted
<1> QED  BY <1>1 DEF Said, SaidType

LEMMA OnceReturn ==
    ASSUME OnceInv, NEW s, Return(s), s # "READING"  PROVE OnceInv'
BY DEF OnceInv, Return, FramesNoted, KeyNoted, Tracked, Known

LEMMA OnceOpen == ASSUME OnceInv, OpenMessage  PROVE OnceInv'
<1>1. CASE Refuse(LAMBDA h : Gets(5, h), "INVALID_CBOR")
  BY <1>1, OnceReturn DEF Refuse
<1>2. ASSUME NEW h \in Heads, frames' = <<Opened("top", h.arg)>>,
             status' = "READING", UNCHANGED <<cmd, said>>
      PROVE  OnceInv'
  <2>1. Opened("top", h.arg) \in Frame /\ KeyNoted(Opened("top", h.arg))
    BY NewFrame, RequestAssumption DEF Kind
  <2>2. frames' \in Seq(Frame) /\ frames' # <<>> /\ Len(frames') = 1
    BY <1>2, <2>1
  <2>3. KeyNoted(frames'[1])
    BY <1>2, <2>1
  <2>4. FramesNoted'
    BY <1>2, <2>2, <2>3 DEF FramesNoted, KeyNoted, Tracked, Known
  <2> QED  BY <1>2, <2>2, <2>4 DEF OnceInv
<1> QED  BY <1>1, <1>2 DEF OpenMessage

LEMMA OnceKey == ASSUME OnceInv, ReadKey  PROVE OnceInv'
<1>1. frames # <<>> /\ frames \in Seq(Frame) /\ cmd \in Command
  BY DEF ReadKey, InMap, OnceInv
<1>2. ~ IsArray(Inner.kind)
  BY DEF ReadKey, InMap
<1>3. CASE Refuse(KeyHead, "UNEXPECTED_TYPE")
  BY <1>3, OnceReturn DEF Refuse
<1>4. CASE Return("INVALID_CBOR")
  BY <1>4, OnceReturn
<1>5. ASSUME NEW h \in Heads, NEW key \in KeysIn(h), ~ Repeated(key),
             frames' = With([Inner EXCEPT !.due = <<key>>,
                                          !.have = @ \cup Noted(key)]),
             UNCHANGED <<cmd, status, said>>
      PROVE  OnceInv'
  <2> DEFINE f == [Inner EXCEPT !.due = <<key>>,
                                !.have = Inner.have \cup Noted(key)]
  <2>1. key \in Key
    BY <1>1, <1>2, KeysTyped
  <2>2. Inner \in Frame /\ KeyNoted(Inner)
    BY <1>1, InnerFrame DEF OnceInv, FramesNoted
  <2>3. f \in Frame
    <3>1. <<key>> \in Seq(Key) /\ Inner.have \cup Noted(key) \in SUBSET Key
      BY <2>1, <2>2 DEF Frame, Noted
    <3> QED  BY <2>2, <3>1 DEF Frame
  <2>4. /\ f.due = <<key>> /\ f.have = Inner.have \cup Noted(key)
        /\ f.began = Inner.began /\ f.kind = Inner.kind
    BY <2>2 DEF Frame
  <2>5. f.due[1] = key
    BY <2>4
  <2>6. KeyNoted(f)
    BY <1>5, <2>2, <2>4, <2>5 DEF KeyNoted, Repeated, Noted
  <2>7. frames' = With(f)
    BY <1>5
  <2> HIDE DEF f
  <2>8. frames' \in Seq(Frame) /\ frames' # <<>> /\ FramesNoted'
    BY <1>1, <1>5, <2>3, <2>6, <2>7, NotedReplaced DEF OnceInv
  <2> QED  BY <1>5, <2>8 DEF OnceInv
<1> QED  BY <1>3, <1>4, <1>5 DEF ReadKey

LEMMA OnceContainer == ASSUME OnceInv, ReadContainer  PROVE OnceInv'
<1>1. frames # <<>> /\ frames \in Seq(Frame)
  BY DEF ReadContainer, Expects, InMap, OnceInv
<1>2. PICK h \in Heads : /\ frames' = Append(With(Begun), Opened(Expected, h.arg))
                         /\ Said(said) /\ UNCHANGED <<cmd, status>>
  BY DEF ReadContainer
<1>3. Begun \in Frame /\ KeyNoted(Begun)
  BY <1>1, BegunNoted
<1>4. /\ Opened(Expected, h.arg) \in Frame
      /\ KeyNoted(Opened(Expected, h.arg))
  BY NewFrame, RequestAssumption DEF ReadContainer, Kind
<1>5. With(Begun) \in Seq(Frame) /\ Len(With(Begun)) = Len(frames)
  BY <1>1, <1>3, FrameReplaced
<1>6. Len(frames) \in Nat \ {0}
  BY <1>1, InnerFrame
<1>7. ASSUME NEW i \in 1 .. Len(frames)  PROVE KeyNoted(With(Begun)[i])
  <2>1. CASE i = Len(frames)
    BY <1>1, <1>3, <2>1, FrameReplaced
  <2>2. CASE i # Len(frames)
    <3>1. i \in 1 .. Len(frames) - 1
      BY <1>6, <2>2
    <3> QED  BY <1>1, <1>3, <3>1, FrameReplaced DEF OnceInv, FramesNoted
  <2> QED  BY <2>1, <2>2
<1>8. /\ frames' \in Seq(Frame) /\ frames' # <<>>
      /\ Len(frames') = Len(frames) + 1
  BY <1>2, <1>4, <1>5, <1>6
<1>9. ASSUME NEW i \in 1 .. Len(frames')  PROVE KeyNoted(frames'[i])
  <2>1. CASE i = Len(frames) + 1
    BY <1>2, <1>4, <1>5, <1>6, <2>1
  <2>2. CASE i # Len(frames) + 1
    <3>1. i \in 1 .. Len(frames)
      BY <1>6, <1>8, <2>2
    <3>2. frames'[i] = With(Begun)[i]
      BY <1>2, <1>4, <1>5, <3>1
    <3> QED  BY <1>7, <3>1, <3>2
  <2> QED  BY <2>1, <2>2
<1>10. FramesNoted'
  BY <1>2, <1>8, <1>9 DEF FramesNoted, KeyNoted, Tracked, Known
<1>11. said' \in SaidType /\ ~ said'.twice
  BY <1>1, <1>2, SaidOnce DEF OnceInv
<1> QED  BY <1>2, <1>8, <1>10, <1>11 DEF OnceInv

LEMMA OnceData == ASSUME OnceInv, ReadData  PROVE OnceInv'
<1>1. frames # <<>> /\ frames \in Seq(Frame)
  BY DEF ReadData, Expects, InMap, OnceInv
<1>h. PICK h \in Heads : \E meaning \in Meanings(Expected, h) :
        /\ frames' = With([Begun EXCEPT !.met = @ \cup meaning])
        /\ Said([said EXCEPT
             !.entry = IF Inner.kind = "alg" THEN @ \cup meaning ELSE @,
             !.wants = @ \/ Expected \in {"pin", "protocol"}
                         \/ (Expected = "flag" /\ h.arg = True)])
        /\ UNCHANGED <<cmd, status>>
  BY DEF ReadData
<1>2. PICK meaning \in Meanings(Expected, h) :
        /\ frames' = With([Begun EXCEPT !.met = @ \cup meaning])
        /\ Said([said EXCEPT
             !.entry = IF Inner.kind = "alg" THEN @ \cup meaning ELSE @,
             !.wants = @ \/ Expected \in {"pin", "protocol"}
                         \/ (Expected = "flag" /\ h.arg = True)])
        /\ UNCHANGED <<cmd, status>>
  BY <1>h
<1>3. meaning \subseteq Fact
  BY DEF Meanings, Fact
<1> DEFINE f == [Begun EXCEPT !.met = Begun.met \cup meaning]
           nowSaid == [said EXCEPT
             !.entry = IF Inner.kind = "alg" THEN said.entry \cup meaning
                       ELSE said.entry,
             !.wants = said.wants \/ Expected \in {"pin", "protocol"}
                         \/ (Expected = "flag" /\ h.arg = True)]
<1>4. Begun \in Frame /\ KeyNoted(Begun)
  BY <1>1, BegunNoted
<1>5. f \in Frame
  <2>1. Begun.met \cup meaning \in SUBSET Fact
    BY <1>3, <1>4 DEF Frame
  <2> QED  BY <1>4, <2>1 DEF Frame
<1>6. /\ f.due = Begun.due /\ f.have = Begun.have
      /\ f.began = Begun.began /\ f.kind = Begun.kind
  BY <1>4 DEF Frame
<1>7. KeyNoted(f)
  BY <1>4, <1>6 DEF KeyNoted
<1>8. nowSaid \in SaidType /\ ~ nowSaid.twice
  <2>1. (IF Inner.kind = "alg" THEN said.entry \cup meaning ELSE said.entry)
          \in SUBSET Fact
    BY <1>3 DEF OnceInv, SaidType
  <2>2. (said.wants \/ Expected \in {"pin", "protocol"}
           \/ (Expected = "flag" /\ h.arg = True)) \in BOOLEAN
    OBVIOUS
  <2>3. said \in SaidType /\ ~ said.twice
    BY DEF OnceInv
  <2> QED  BY <2>1, <2>2, <2>3 DEF SaidType
<1>9. frames' = With(f) /\ Said(nowSaid)
  BY <1>2
<1> HIDE DEF f, nowSaid
<1>10. said' \in SaidType /\ ~ said'.twice
  BY <1>1, <1>8, <1>9, SaidOnce
<1>11. frames' \in Seq(Frame) /\ frames' # <<>> /\ FramesNoted'
  BY <1>1, <1>2, <1>5, <1>7, <1>9, NotedReplaced DEF OnceInv
<1> QED  BY <1>2, <1>10, <1>11 DEF OnceInv

LEMMA OnceSkip == ASSUME OnceInv, BeginSkip  PROVE OnceInv'
<1>1. frames # <<>> /\ frames \in Seq(Frame)
  BY DEF BeginSkip, Expects, InMap, OnceInv
<1>2. frames' = With(Begun) /\ Said(said) /\ UNCHANGED <<cmd, status>>
  BY DEF BeginSkip
<1>3. Begun \in Frame /\ KeyNoted(Begun)
  BY <1>1, BegunNoted
<1>4. said' \in SaidType /\ ~ said'.twice
  BY <1>1, <1>2, SaidOnce DEF OnceInv
<1>5. frames' \in Seq(Frame) /\ frames' # <<>> /\ FramesNoted'
  BY <1>1, <1>2, <1>3, NotedReplaced DEF OnceInv
<1> QED  BY <1>2, <1>4, <1>5 DEF OnceInv

LEMMA OnceEnd == ASSUME OnceInv, EndFrame  PROVE OnceInv'
<1>1. frames # <<>> /\ frames \in Seq(Frame) /\ Len(frames) > 1
  BY DEF EndFrame, OnceInv
<1>2. CASE Return("MISSING_PARAMETER")
  BY <1>2, OnceReturn
<1>3. ASSUME frames' = Front(frames), UNCHANGED <<cmd, status>>,
             said' = IF Inner.kind # "alg" THEN said
                     ELSE [said EXCEPT !.entry = {},
                             !.es256 = @ \/ said.entry = {"public-key", "es256"}]
      PROVE  OnceInv'
  <2>1. Len(frames) \in Nat \ {0}
    BY <1>1, InnerFrame
  <2>2. /\ frames' \in Seq(Frame) /\ Len(frames') = Len(frames) - 1
        /\ \A i \in 1 .. Len(frames) - 1 : frames'[i] = frames[i]
    BY <1>1, <1>3, FrontOfFrames
  <2>3. frames' # <<>>
    BY <1>1, <2>1, <2>2
  <2>4. FramesNoted'
    BY <1>3, <2>1, <2>2 DEF OnceInv, FramesNoted, KeyNoted, Tracked, Known
  <2>5. said' \in SaidType /\ ~ said'.twice
    <3>1. (said.es256 \/ said.entry = {"public-key", "es256"}) \in BOOLEAN
      OBVIOUS
    <3>2. said \in SaidType /\ ~ said.twice
      BY DEF OnceInv
    <3> QED  BY <1>3, <3>1, <3>2 DEF SaidType
  <2> QED  BY <1>3, <2>2, <2>3, <2>4, <2>5 DEF OnceInv
<1> QED  BY <1>2, <1>3 DEF EndFrame

(* Every step keeps the invariant.                                         *)
LEMMA OnceStep == ASSUME OnceInv, [Next]_vars  PROVE OnceInv'
<1>1. CASE ReadWrong
  <2>1. CASE Refuse(LAMBDA h : Fits(Expected, h), "UNEXPECTED_TYPE")
    BY <2>1, OnceReturn DEF Refuse
  <2>2. CASE \E h \in Heads : Return(Unacceptable(Expected, h))
    BY <2>2, OnceReturn DEF Unacceptable
  <2> QED  BY <1>1, <2>1, <2>2 DEF ReadWrong
<1>2. CASE SkipItem
  <2>1. CASE Refuse(Skippable, "INVALID_CBOR")
    BY <2>1, OnceReturn DEF Refuse
  <2>2. CASE UNCHANGED <<cmd, frames, request, status, said>>
    BY <2>2 DEF OnceInv, FramesNoted, KeyNoted, Tracked, Known
  <2> QED  BY <1>2, <2>1, <2>2 DEF SkipItem
<1>3. CASE Judge
  BY <1>3, OnceReturn DEF Judge
<1>4. CASE Again
  BY <1>4 DEF Again, OnceInv, FramesNoted, Silence, SaidType
<1>5. CASE UNCHANGED vars
  BY <1>5 DEF vars, OnceInv, FramesNoted, KeyNoted, Tracked, Known
<1> QED
  BY <1>1, <1>2, <1>3, <1>4, <1>5, OnceOpen, OnceKey, OnceContainer,
     OnceData, OnceSkip, OnceEnd DEF Next

(* Every state satisfies it.                                               *)
LEMMA OnceAlways == Spec => []OnceInv
<1>1. Init => OnceInv
  BY DEF Init, OnceInv, FramesNoted, Silence, SaidType
<1>2. OnceInv /\ [Next]_vars => OnceInv'
  BY OnceStep
<1> QED  BY <1>1, <1>2, PTL DEF Spec

(* No key the code knows is read twice in one map.                         *)
THEOREM KeysOnceTheorem == Spec => []KeysOnce
<1>1. OnceInv => KeysOnce
  BY DEF OnceInv, KeysOnce
<1> QED  BY <1>1, OnceAlways, PTL
-----------------------------------------------------------------------------
(* Induction, and the sums of sequences of numbers.                         *)

(* A set of numbers that holds 0 and with every number the next one holds   *)
(* all of them: the smallest set 1 .. k whose k it misses would have a      *)
(* smaller one.                                                             *)
LEMMA SetInduction ==
    ASSUME NEW S \in SUBSET Nat, 0 \in S, \A n \in S : n + 1 \in S
    PROVE  S = Nat
<1> SUFFICES ASSUME NEW m \in Nat, m \notin S PROVE FALSE
  OBVIOUS
<1> DEFINE T == {1 .. k : k \in Nat \ S}
<1>1. T \subseteq FiniteSubsetsOf(Nat) /\ T # {}
  <2>1. \A k \in Nat : IsFiniteSet(1 .. k) /\ 1 .. k \subseteq Nat
    BY FS_Interval
  <2> QED
    BY <2>1 DEF FiniteSubsetsOf
<1>2. PICK x \in T : \A y \in T : <<y, x>> \notin StrictSubsetOrdering(Nat)
  <2>1. IsWellFoundedOn(StrictSubsetOrdering(Nat), FiniteSubsetsOf(Nat))
    BY FS_StrictSubsetOrderingWellFounded
  <2> HIDE DEF T
  <2> QED
    BY <1>1, <2>1, WFMin
<1>3. PICK k \in Nat \ S : x = 1 .. k
  BY <1>2
<1>4. k - 1 \in Nat \ S
  <2>1. k # 0 /\ k - 1 \in Nat /\ (k - 1) + 1 = k
    BY <1>3
  <2> QED
    BY <1>3, <2>1
<1>5. 1 .. (k - 1) \in T /\ 1 .. (k - 1) \subseteq 1 .. k /\ 1 .. (k - 1) # 1 .. k
  <2>1. k \in 1 .. k /\ k \notin 1 .. (k - 1)
    BY <1>3, <1>4
  <2> QED
    BY <1>3, <1>4, <2>1
<1>6. <<1 .. (k - 1), 1 .. k>> \in StrictSubsetOrdering(Nat)
  BY <1>3, <1>4, <1>5 DEF StrictSubsetOrdering
<1> QED
  BY <1>2, <1>3, <1>5, <1>6

(* The equations of the running sums up to n.                               *)
Sums(s, n, u) ==
    /\ u \in [0 .. n -> Int]
    /\ u = [m \in 0 .. n |-> IF m = 0 THEN 0 ELSE u[m - 1] + s[m]]

(* They have a solution.                                                    *)
LEMMA SumsExist ==
    ASSUME NEW s \in Seq(Int)  PROVE \E u : Sums(s, Len(s), u)
<1> DEFINE S == {n \in Nat : n <= Len(s) => \E u : Sums(s, n, u)}
<1>1. 0 \in S
  <2>1. Sums(s, 0, [m \in 0 .. 0 |-> 0])
    BY DEF Sums
  <2> QED  BY <2>1
<1>2. ASSUME NEW n \in S  PROVE n + 1 \in S
  <2> SUFFICES ASSUME n + 1 <= Len(s)  PROVE \E u : Sums(s, n + 1, u)
    BY <1>2
  <2>1. n \in Nat /\ Len(s) \in Nat /\ n <= Len(s)
    BY <1>2
  <2>2. PICK u : Sums(s, n, u)
    BY <1>2, <2>1
  <2> DEFINE v == [m \in 0 .. n + 1 |-> IF m = n + 1 THEN u[n] + s[n + 1] ELSE u[m]]
  <2>3. s[n + 1] \in Int /\ u[n] \in Int
    BY <2>1, <2>2 DEF Sums
  <2>4. v \in [0 .. n + 1 -> Int]
    BY <2>1, <2>2, <2>3 DEF Sums
  <2>5. ASSUME NEW m \in 0 .. n + 1
        PROVE  v[m] = IF m = 0 THEN 0 ELSE v[m - 1] + s[m]
    <3>1. CASE m = n + 1
      <4>1. v[m - 1] = u[n] /\ m # 0
        BY <2>1, <3>1
      <4> QED  BY <3>1, <4>1
    <3>2. CASE m # n + 1
      <4>1. m \in 0 .. n /\ (m # 0 => m - 1 \in 0 .. n + 1 /\ m - 1 # n + 1)
        BY <2>1, <3>2
      <4>2. v[m] = u[m] /\ (m # 0 => v[m - 1] = u[m - 1])
        BY <3>2, <4>1
      <4>3. u[m] = IF m = 0 THEN 0 ELSE u[m - 1] + s[m]
        BY <2>2, <4>1 DEF Sums
      <4> QED  BY <4>2, <4>3
    <3> QED  BY <3>1, <3>2
  <2>6. Sums(s, n + 1, v)
    <3> HIDE DEF v
    <3> QED  BY <2>4, <2>5 DEF Sums
  <2> QED  BY <2>6
<1>3. S = Nat
  <2> HIDE DEF S
  <2>1. S \in SUBSET Nat
    BY DEF S
  <2> QED  BY <1>1, <1>2, <2>1, SetInduction
<1>4. Len(s) \in S
  <2> HIDE DEF S
  <2> QED  BY <1>3, LenProperties
<1> QED  BY <1>4

(* What Running is: the equations determine a function and it is one.       *)
LEMMA RunningDef ==
    ASSUME NEW s \in Seq(Int)
    PROVE  /\ Running(s) \in [0 .. Len(s) -> Int]
           /\ Running(s)[0] = 0
           /\ \A n \in 1 .. Len(s) : Running(s)[n] = Running(s)[n - 1] + s[n]
<1> DEFINE IsRunning(u) == u = [m \in 0 .. Len(s) |-> IF m = 0 THEN 0 ELSE u[m - 1] + s[m]]
           v == CHOOSE u : IsRunning(u)
<1>1. Running(s) = v
  BY DEF Running
<1>2. \E u : IsRunning(u)
  BY SumsExist DEF Sums
<1>3. IsRunning(v)
  <2> HIDE DEF IsRunning
  <2> QED  BY <1>2
<1> HIDE DEF v
<1>4. /\ v[0] = 0
      /\ \A n \in 1 .. Len(s) : v[n] = v[n - 1] + s[n]
  <2>1. Len(s) \in Nat
    OBVIOUS
  <2> QED  BY <1>3, <2>1
<1> DEFINE S == {n \in Nat : n <= Len(s) => v[n] \in Int}
<1>5. 0 \in S
  BY <1>4
<1>6. ASSUME NEW n \in S  PROVE n + 1 \in S
  <2> SUFFICES ASSUME n + 1 <= Len(s)  PROVE v[n + 1] \in Int
    BY <1>6
  <2>1. n \in Nat /\ v[n] \in Int /\ n + 1 \in 1 .. Len(s) /\ (n + 1) - 1 = n
    BY <1>6
  <2>2. v[n + 1] = v[n] + s[n + 1]
    BY <1>4, <2>1
  <2> QED  BY <2>1, <2>2
<1>7. S = Nat
  <2> HIDE DEF S
  <2>1. S \in SUBSET Nat
    BY DEF S
  <2> QED  BY <1>5, <1>6, <2>1, SetInduction
<1>8. v \in [0 .. Len(s) -> Int]
  <2>1. \A n \in 0 .. Len(s) : v[n] \in Int
    BY <1>7
  <2> QED  BY <1>3, <2>1
<1> QED  BY <1>1, <1>4, <1>8

(* The running sum is that of what two sequences share.                     *)
LEMMA RunningShared ==
    ASSUME NEW s \in Seq(Int), NEW t \in Seq(Int), NEW k \in Nat,
           k <= Len(s), k <= Len(t), \A i \in 1 .. k : s[i] = t[i]
    PROVE  Running(s)[k] = Running(t)[k]
<1> DEFINE S == {n \in Nat : n <= k => Running(s)[n] = Running(t)[n]}
<1>1. 0 \in S
  BY RunningDef
<1>2. ASSUME NEW n \in S  PROVE n + 1 \in S
  <2> SUFFICES ASSUME n + 1 <= k  PROVE Running(s)[n + 1] = Running(t)[n + 1]
    BY <1>2
  <2>1. n \in Nat /\ n + 1 \in 1 .. k /\ (n + 1) - 1 = n
        /\ n + 1 \in 1 .. Len(s) /\ n + 1 \in 1 .. Len(t)
    BY <1>2
  <2>2. Running(s)[n] = Running(t)[n]
    BY <1>2
  <2>3. /\ Running(s)[n + 1] = Running(s)[n] + s[n + 1]
        /\ Running(t)[n + 1] = Running(t)[n] + t[n + 1]
    BY <2>1, RunningDef
  <2> QED  BY <2>1, <2>2, <2>3
<1>3. S = Nat
  <2> HIDE DEF S
  <2>1. S \in SUBSET Nat
    BY DEF S
  <2> QED  BY <1>1, <1>2, <2>1, SetInduction
<1> QED  BY <1>3

(* The sum of nothing, of one number, of one number more.                   *)
LEMMA TotalEmpty == Total(<<>>) = 0
<1>1. <<>> \in Seq(Int) /\ Len(<<>>) = 0
  OBVIOUS
<1> QED  BY <1>1, RunningDef DEF Total

LEMMA TotalSplit ==
    ASSUME NEW s \in Seq(Int), s # <<>>, NEW t \in Seq(Int),
           Len(t) = Len(s) - 1, \A i \in 1 .. Len(t) : t[i] = s[i]
    PROVE  /\ Total(t) \in Int
           /\ Total(s) = Total(t) + s[Len(s)]
<1>1. /\ Len(s) \in Nat \ {0} /\ Len(t) \in Nat /\ Len(s) \in 1 .. Len(s)
      /\ Len(t) \in 0 .. Len(t)
  OBVIOUS
<1>2. Running(s)[Len(s)] = Running(s)[Len(t)] + s[Len(s)]
  BY <1>1, RunningDef
<1>3. Running(s)[Len(t)] = Running(t)[Len(t)]
  <2>1. /\ Len(t) <= Len(s) /\ Len(t) <= Len(t)
        /\ \A i \in 1 .. Len(t) : s[i] = t[i]
    BY <1>1
  <2> QED  BY <1>1, <2>1, RunningShared
<1>4. Running(t)[Len(t)] \in Int
  BY <1>1, RunningDef
<1> QED  BY <1>2, <1>3, <1>4 DEF Total

LEMMA TotalInt == ASSUME NEW s \in Seq(Int)  PROVE Total(s) \in Int
<1>1. Len(s) \in 0 .. Len(s)
  OBVIOUS
<1> QED  BY <1>1, RunningDef DEF Total

(* All of the numbers but the last.                                         *)
LEMMA FrontOfNumbers ==
    ASSUME NEW s \in Seq(Int), s # <<>>
    PROVE  /\ Front(s) \in Seq(Int) /\ Len(Front(s)) = Len(s) - 1
           /\ \A i \in 1 .. Len(s) - 1 : Front(s)[i] = s[i]
<1> DEFINE n == Len(s) - 1
<1>1. n \in Int /\ 1 \in Int /\ n >= 0 /\ n <= Len(s) /\ Len(s) \in Nat
  OBVIOUS
<1>2. \A i \in 1 .. n : s[i] \in Int
  BY <1>1
<1> HIDE DEF n
<1>3. /\ SubSeq(s, 1, n) \in Seq(Int)
      /\ Len(SubSeq(s, 1, n)) = IF 1 <= n THEN n - 1 + 1 ELSE 0
      /\ \A i \in 1 .. n - 1 + 1 : SubSeq(s, 1, n)[i] = s[1 + i - 1]
  BY <1>1, <1>2, SubSeqProperties
<1>4. Len(SubSeq(s, 1, n)) = n
  BY <1>1, <1>3
<1>5. ASSUME NEW i \in 1 .. n  PROVE SubSeq(s, 1, n)[i] = s[i]
  <2>1. i \in 1 .. n - 1 + 1 /\ 1 + i - 1 = i
    BY <1>1
  <2> QED  BY <2>1, <1>3
<1> QED  BY <1>1, <1>3, <1>4, <1>5 DEF n, Front

(* Everything but the last of an appended sequence, and its last.           *)
LEMMA FrontOfAppend ==
    ASSUME NEW S, NEW s \in Seq(S), NEW a \in S
    PROVE  Front(Append(s, a)) = s /\ Last(Append(s, a)) = a
BY DEF Front, Last

(* Zeros at the end add nothing.                                            *)
LEMMA TotalZeros ==
    ASSUME NEW s \in Seq(Int), NEW k \in 0 .. Len(s),
           \A i \in k + 1 .. Len(s) : s[i] = 0
    PROVE  /\ SubSeq(s, 1, k) \in Seq(Int)
           /\ Total(SubSeq(s, 1, k)) = Total(s)
<1> DEFINE t == SubSeq(s, 1, k)
           S == {n \in Nat : k + n <= Len(s) => Running(s)[k + n] = Running(s)[k]}
<1>1. k \in Nat /\ Len(s) \in Nat /\ k <= Len(s)
  OBVIOUS
<1>2. t \in Seq(Int) /\ Len(t) = k /\ \A i \in 1 .. k : t[i] = s[i]
  BY <1>1
<1>3. Running(s)[k] = Running(t)[k]
  <2> HIDE DEF t
  <2> QED  BY <1>1, <1>2, RunningShared
<1>4. 0 \in S
  BY <1>1
<1>5. ASSUME NEW n \in S  PROVE n + 1 \in S
  <2> SUFFICES ASSUME k + (n + 1) <= Len(s)
               PROVE  Running(s)[k + (n + 1)] = Running(s)[k]
    BY <1>5
  <2>1. /\ n \in Nat /\ k + (n + 1) \in 1 .. Len(s)
        /\ k + (n + 1) \in k + 1 .. Len(s)
        /\ (k + (n + 1)) - 1 = k + n /\ k + n \in 0 .. Len(s)
    BY <1>1, <1>5
  <2>2. Running(s)[k + n] = Running(s)[k]
    BY <1>5, <2>1
  <2>3. Running(s)[k + (n + 1)] = Running(s)[k + n] + s[k + (n + 1)]
    BY <2>1, RunningDef
  <2>4. s[k + (n + 1)] = 0 /\ Running(s)[k + n] \in Int
    BY <2>1, RunningDef
  <2> QED  BY <2>2, <2>3, <2>4
<1>6. S = Nat
  <2> HIDE DEF S
  <2>1. S \in SUBSET Nat
    BY DEF S
  <2> QED  BY <1>4, <1>5, <2>1, SetInduction
<1>7. Running(s)[Len(s)] = Running(s)[k]
  <2>1. Len(s) - k \in Nat /\ k + (Len(s) - k) = Len(s)
    BY <1>1
  <2>2. Len(s) - k \in S
    <3> HIDE DEF S
    <3> QED  BY <1>6, <2>1
  <2> QED  BY <1>1, <2>1, <2>2
<1> QED  BY <1>2, <1>3, <1>7 DEF Total

(* The last of the numbers that satisfy something.                          *)
LEMMA LastOfAll ==
    ASSUME NEW I \in SUBSET Nat, NEW b \in Nat, \A i \in I : i <= b, I # {}
    PROVE  \E k \in I : \A i \in I : i <= k
<1> DEFINE S == {n \in Nat : (\E i \in I : i >= n) \/ (\E k \in I : \A i \in I : i <= k)}
<1>1. 0 \in S
  <2>1. PICK i \in I : TRUE
    OBVIOUS
  <2>2. i \in Nat /\ i >= 0
    OBVIOUS
  <2> QED  BY <2>1, <2>2
<1>2. ASSUME NEW n \in S  PROVE n + 1 \in S
  <2>1. n \in Nat
    BY <1>2
  <2>2. CASE \E k \in I : \A i \in I : i <= k
    BY <2>1, <2>2
  <2>3. CASE \E i \in I : i >= n
    <3>1. PICK j \in I : j >= n
      BY <2>3
    <3>2. CASE \E i \in I : i >= n + 1
      BY <2>1, <3>2
    <3>3. CASE ~ \E i \in I : i >= n + 1
      <4>1. \A i \in I : i <= j
        BY <2>1, <3>1, <3>3
      <4> QED  BY <2>1, <4>1
    <3> QED  BY <3>2, <3>3
  <2> QED  BY <1>2, <2>2, <2>3
<1>3. S = Nat
  <2> HIDE DEF S
  <2>1. S \in SUBSET Nat
    BY DEF S
  <2> QED  BY <1>1, <1>2, <2>1, SetInduction
<1>4. b + 1 \in S
  <2> HIDE DEF S
  <2> QED  BY <1>3
<1>5. ~ \E i \in I : i >= b + 1
  OBVIOUS
<1> QED  BY <1>4, <1>5

(* The levels of a skip that are done are all zeros.                        *)
LEMMA UnwoundTotal ==
    ASSUME NEW s \in Seq(Int)
    PROVE  Unwound(s) \in Seq(Int) /\ Total(Unwound(s)) = Total(s)
<1> DEFINE I == {i \in 1 .. Len(s) : s[i] # 0}
           k == SelectLastInSeq(s, LAMBDA n : n # 0)
<1>1. k = IF I # {} THEN Max(I) ELSE 0
  BY DEF SelectLastInSeq
<1>2. k \in 0 .. Len(s) /\ \A i \in k + 1 .. Len(s) : s[i] = 0
  <2>1. CASE I = {}
    BY <1>1, <2>1
  <2>2. CASE I # {}
    <3>1. \E x \in I : \A i \in I : i <= x
      <4>1. /\ I \in SUBSET Nat /\ Len(s) \in Nat
            /\ \A i \in I : i <= Len(s)
        OBVIOUS
      <4> HIDE DEF I
      <4> QED  BY <2>2, <4>1, LastOfAll
    <3>2. Max(I) \in I /\ \A i \in I : Max(I) >= i
      <4>1. \E x \in I : \A i \in I : x >= i
        BY <3>1
      <4> HIDE DEF I
      <4> QED  BY <4>1 DEF Max
    <3>3. k = Max(I) /\ k \in 1 .. Len(s) /\ \A i \in I : k >= i
      BY <1>1, <2>2, <3>2
    <3>4. ASSUME NEW i \in k + 1 .. Len(s)  PROVE s[i] = 0
      <4>1. i \in 1 .. Len(s) /\ ~ (k >= i)
        BY <3>3
      <4> QED  BY <3>3, <4>1
    <3> QED  BY <3>3, <3>4
  <2> QED  BY <2>1, <2>2
<1>3. Unwound(s) = SubSeq(s, 1, k)
  BY DEF Unwound
<1> HIDE DEF k
<1> QED  BY <1>2, <1>3, TotalZeros
-----------------------------------------------------------------------------
(* The inductive invariant of InStep: at most one key waits for its value,  *)
(* and none does in an array.                                               *)
Shaped == {f \in Frame : /\ Len(f.due) <= 1
                         /\ IsArray(f.kind) => f.due = <<>>}

StepInv ==
    /\ frames \in Seq(Shaped)
    /\ skip \in Seq(Int)
    /\ status = "START" => frames = <<>> /\ skip = <<>>
    /\ InStep

(* What an open map or array still expects is a number.                     *)
LEMMA LeftInInt == ASSUME NEW f \in Frame  PROVE LeftIn(f) \in Int
<1>1. f.left \in Int /\ Len(f.due) \in Nat
  BY DEF Frame
<1> QED  BY <1>1 DEF LeftIn

LEMMA LeftInNone ==
    ASSUME NEW f, f.left = 0, f.due = <<>>  PROVE LeftIn(f) = 0
<1>1. Len(f.due) = 0
  BY EmptySeq
<1>2. \A y : y = 0 => 2 * 0 - y = 0
  OBVIOUS
<1>3. 2 * f.left - Len(f.due) = 0
  BY <1>1, <1>2, Zenon
<1> QED  BY <1>3, Zenon DEF LeftIn

LEMMA LeftInAllTyped ==
    ASSUME NEW open \in Seq(Frame)
    PROVE  /\ LeftInAll(open) \in Seq(Int)
           /\ Len(LeftInAll(open)) = Len(open)
           /\ \A i \in 1 .. Len(open) : LeftInAll(open)[i] = LeftIn(open[i])
<1>1. \A i \in 1 .. Len(open) : LeftIn(open[i]) \in Int
  BY LeftInInt
<1> QED  BY <1>1 DEF LeftInAll

LEMMA OpenedTotal ==
    ASSUME NEW open \in Seq(Frame), NEW f \in Frame
    PROVE  /\ Total(LeftInAll(open)) \in Int
           /\ Total(LeftInAll(Append(open, f))) =
                Total(LeftInAll(open)) + LeftIn(f)
<1> DEFINE t == LeftInAll(open)
           s == LeftInAll(Append(open, f))
           n == Len(open)
<1>1. /\ Append(open, f) \in Seq(Frame) /\ Len(Append(open, f)) = n + 1
      /\ n \in Nat /\ Append(open, f)[n + 1] = f
      /\ \A i \in 1 .. n : Append(open, f)[i] = open[i]
  OBVIOUS
<1>2. /\ t \in Seq(Int) /\ Len(t) = n
      /\ \A i \in 1 .. n : t[i] = LeftIn(open[i])
  BY LeftInAllTyped
<1>3. /\ s \in Seq(Int) /\ Len(s) = n + 1
      /\ \A i \in 1 .. n + 1 : s[i] = LeftIn(Append(open, f)[i])
  BY <1>1, LeftInAllTyped
<1>4. s # <<>> /\ Len(t) = Len(s) - 1 /\ s[Len(s)] = LeftIn(f)
  BY <1>1, <1>2, <1>3
<1>5. \A i \in 1 .. Len(t) : t[i] = s[i]
  BY <1>1, <1>2, <1>3
<1> HIDE DEF s, t
<1> QED  BY <1>2, <1>3, <1>4, <1>5, TotalSplit, TotalInt DEF s, t

LEMMA FramesTotal ==
    ASSUME frames \in Seq(Frame), frames # <<>>
    PROVE  /\ Total(LeftInAll(Front(frames))) \in Int
           /\ Total(LeftInAll(frames)) =
                Total(LeftInAll(Front(frames))) + LeftIn(Inner)
<1>1. Front(frames) \in Seq(Frame) /\ Inner \in Frame
  BY FrontOfFrames, InnerFrame
<1>2. frames = Append(Front(frames), Inner)
  BY DEF Inner, Front, Last
<1> QED  BY <1>1, <1>2, OpenedTotal

LEMMA ReplacedTotal ==
    ASSUME frames \in Seq(Frame), frames # <<>>, NEW f \in Frame
    PROVE  /\ Total(LeftInAll(frames)) \in Int
           /\ Total(LeftInAll(With(f))) =
                Total(LeftInAll(frames)) - LeftIn(Inner) + LeftIn(f)
<1>1. Front(frames) \in Seq(Frame) /\ Inner \in Frame
  BY FrontOfFrames, InnerFrame
<1>2. LeftIn(f) \in Int /\ LeftIn(Inner) \in Int
  BY <1>1, LeftInInt
<1>3. Total(LeftInAll(With(f))) = Total(LeftInAll(Front(frames))) + LeftIn(f)
  BY <1>1, OpenedTotal DEF With
<1> QED  BY <1>2, <1>3, FramesTotal

(* The sequence of frames when each is shaped as the invariant says.        *)
LEMMA ShapedStack ==
    ASSUME frames \in Seq(Shaped), frames # <<>>
    PROVE  /\ frames \in Seq(Frame)
           /\ Inner \in Shaped /\ Inner \in Frame
           /\ Front(frames) \in Seq(Shaped)
           /\ \A f \in Shaped : With(f) \in Seq(Shaped) /\ With(f) # <<>>
<1>1. Shaped \subseteq Frame
  BY DEF Shaped
<1>2. frames \in Seq(Frame)
  BY <1>1, SeqMonotonic
<1>3. Inner \in Shaped
  BY DEF Inner, Last
<1>4. Front(frames) \in Seq(Shaped)
  BY DEF Front
<1>5. \A f \in Shaped : With(f) \in Seq(Shaped) /\ With(f) # <<>>
  <2> TAKE f \in Shaped
  <2>1. /\ Append(Front(frames), f) \in Seq(Shaped)
        /\ Append(Front(frames), f) # <<>>
    BY <1>4
  <2> QED  BY <2>1 DEF With
<1> QED  BY <1>1, <1>2, <1>3, <1>4, <1>5

(* Beginning a value takes one item from what its map or array expects.     *)
LEMMA BegunLeft ==
    ASSUME OnceInv, StepInv, Expects
    PROVE  /\ frames # <<>> /\ Begun \in Shaped
           /\ LeftIn(Begun) = LeftIn(Inner) - 1
           /\ LeftIn(Inner) \in Int
           /\ Begun.kind = Inner.kind /\ Begun.met = Inner.met
<1>1. frames # <<>>
  BY DEF Expects, InMap, OnceInv
<1>2. Inner \in Shaped /\ Inner \in Frame
  BY <1>1, ShapedStack DEF StepInv
<1>3. Begun \in Frame
  BY <1>1, BegunNoted
<1>4. /\ Begun.due = <<>> /\ Begun.kind = Inner.kind
      /\ Begun.left = Inner.left - 1 /\ Begun.met = Inner.met
  BY <1>2 DEF Begun, Frame
<1>5. Begun \in Shaped
  BY <1>3, <1>4 DEF Shaped
<1>6. Inner.left \in Int /\ LeftIn(Inner) \in Int
  BY <1>2, LeftInInt DEF Frame
<1>7. LeftIn(Begun) = LeftIn(Inner) - 1
  <2>1. CASE IsArray(Inner.kind)
    BY <1>4, <2>1 DEF LeftIn
  <2>2. CASE ~ IsArray(Inner.kind)
    <3>1. Inner.due # <<>>
      BY <2>2 DEF Expects
    <3>2. Len(Inner.due) = 1
      <4>1. Inner.due \in Seq(Key) /\ Len(Inner.due) <= 1
        BY <1>2 DEF Shaped, Frame
      <4>2. Len(Inner.due) \in Nat /\ Len(Inner.due) # 0
        BY <3>1, <4>1, EmptySeq, LenProperties
      <4>3. \A n \in Nat : n <= 1 /\ n # 0 => n = 1
        OBVIOUS
      <4> QED  BY <4>1, <4>2, <4>3, Zenon
    <3>3. Len(Begun.due) = 0
      BY <1>4
    <3> QED  BY <1>4, <1>6, <2>2, <3>2, <3>3 DEF LeftIn
  <2> QED  BY <2>1, <2>2
<1> QED  BY <1>1, <1>4, <1>5, <1>6, <1>7

(* What a map or array just opened expects is what its head announces.      *)
LEMMA OpenedLeft ==
    ASSUME NEW kind \in Kind, NEW h \in Heads,
           h.major = IF IsArray(kind) THEN 4 ELSE 5
    PROVE  /\ Opened(kind, h.arg) \in Shaped
           /\ LeftIn(Opened(kind, h.arg)) = Children(h)
<1>1. h.arg \in Nat
  BY RequestAssumption
<1>2. Opened(kind, h.arg) \in Frame
  BY <1>1, NewFrame
<1>3. /\ Opened(kind, h.arg).due = <<>> /\ Opened(kind, h.arg).kind = kind
      /\ Opened(kind, h.arg).left = h.arg
  BY DEF Opened
<1> QED  BY <1>1, <1>2, <1>3 DEF Shaped, LeftIn, Children

LEMMA ChildrenNat == ASSUME NEW h \in Heads  PROVE Children(h) \in Nat
BY RequestAssumption DEF Children

(* The values the two commands know.                                        *)
Plain == {"hash", "handle", "anyHandle", "pin", "name", "type", "flag",
          "ignoredFlag", "protocol", "number"}

LEMMA ExpectedKnown ==
    ASSUME cmd \in Command, frames \in Seq(Frame), frames # <<>>
    PROVE  /\ Expected \in Plain \cup Container \cup {"any"}
           /\ Inner.kind = "alg" => Expected \in {"type", "number", "any"}
<1>1. Inner.kind \in Kind
  BY InnerFrame DEF Frame
<1>2. CASE IsArray(Inner.kind)
  BY <1>2 DEF IsArray, Element, Expected, Container
<1>3. CASE ~ IsArray(Inner.kind) /\ Inner.kind = "top"
  <2> DEFINE key == Inner.due[1]
  <2>1. Expected = IF key \in DOMAIN TopValue[cmd] THEN TopValue[cmd][key]
                   ELSE "any"
    BY <1>3 DEF Expected, Known
  <2>2. CASE cmd = "make"
    <3>1. TopValue[cmd] = <<"hash", "rp", "user", "algs", "list", "ignored",
                           "options", "pin", "protocol", "protocol">>
      BY <2>2 DEF TopValue
    <3>2. TopValue[cmd] \in Seq(Plain \cup Container)
      BY <3>1 DEF Plain, Container
    <3> QED  BY <1>3, <2>1, <3>2, ElementOfSeq
  <2>3. CASE cmd = "get"
    <3>1. TopValue[cmd] = <<"name", "hash", "list", "ignored", "options",
                           "pin", "protocol">>
      BY <2>3 DEF TopValue
    <3>2. TopValue[cmd] \in Seq(Plain \cup Container)
      BY <3>1 DEF Plain, Container
    <3> QED  BY <1>3, <2>1, <3>2, ElementOfSeq
  <2> QED  BY <2>2, <2>3 DEF Command
<1>4. CASE ~ IsArray(Inner.kind) /\ Inner.kind # "top"
  <2> DEFINE key == Inner.due[1]
  <2>1. Expected = IF key \in DOMAIN KnownIn(cmd)[Inner.kind]
                   THEN KnownIn(cmd)[Inner.kind][key] ELSE "any"
    BY <1>4 DEF Expected, Known
  <2> HIDE DEF key
  <2>2. Inner.kind \in {"rp", "user", "alg", "desc", "options", "ignored"}
    BY <1>1, <1>4 DEF Kind, Container, IsArray, Element
  <2>3. CASE Inner.kind = "rp"
    <3>1. KnownIn(cmd)[Inner.kind] = [id |-> "name"]
      BY <2>3 DEF KnownIn
    <3>2. key \in DOMAIN KnownIn(cmd)[Inner.kind] =>
            KnownIn(cmd)[Inner.kind][key] \in Plain
      BY <3>1 DEF Plain
    <3> QED  BY <2>1, <2>3, <3>2 DEF Plain
  <2>4. CASE Inner.kind = "user"
    <3>1. KnownIn(cmd)[Inner.kind] = [id |-> "handle"]
      BY <2>4 DEF KnownIn
    <3>2. key \in DOMAIN KnownIn(cmd)[Inner.kind] =>
            KnownIn(cmd)[Inner.kind][key] \in Plain
      BY <3>1 DEF Plain
    <3> QED  BY <2>1, <2>4, <3>2 DEF Plain
  <2>5. CASE Inner.kind = "alg"
    <3>1. KnownIn(cmd)[Inner.kind] = [type |-> "type", alg |-> "number"]
      BY <2>5 DEF KnownIn
    <3>2. key \in DOMAIN KnownIn(cmd)[Inner.kind] =>
            KnownIn(cmd)[Inner.kind][key] \in {"type", "number"}
      BY <3>1 DEF Plain
    <3> QED  BY <2>1, <2>5, <3>2 DEF Plain
  <2>6. CASE Inner.kind = "desc"
    <3>1. KnownIn(cmd)[Inner.kind] = [type |-> "type", id |-> DescHandle(cmd)]
      BY <2>6 DEF KnownIn
    <3>2. key \in DOMAIN KnownIn(cmd)[Inner.kind] =>
            KnownIn(cmd)[Inner.kind][key] \in Plain
      BY <3>1 DEF Plain, DescHandle
    <3> QED  BY <2>1, <2>6, <3>2 DEF Plain
  <2>7. CASE Inner.kind = "options"
    <3>1. KnownIn(cmd)[Inner.kind] = Option(cmd)
      BY <2>7 DEF KnownIn
    <3>2. key \in DOMAIN KnownIn(cmd)[Inner.kind] =>
            KnownIn(cmd)[Inner.kind][key] \in Plain
      BY <3>1 DEF Plain, Option
    <3> QED  BY <2>1, <2>7, <3>2 DEF Plain
  <2>8. CASE Inner.kind = "ignored"
    BY <2>1, <2>8 DEF KnownIn
  <2> QED  BY <2>2, <2>3, <2>4, <2>5, <2>6, <2>7, <2>8
<1> QED  BY <1>2, <1>3, <1>4
-----------------------------------------------------------------------------
(* Each action keeps the sums in step: what it does to owed, to the stack  *)
(* and to the skip.                                                        *)
LEMMA StepReturn ==
    ASSUME StepInv, NEW s, Return(s), s # "START"  PROVE StepInv'
BY DEF StepInv, Return, InStep, Owing

LEMMA StepOpen == ASSUME OnceInv, StepInv, OpenMessage  PROVE StepInv'
<1>1. CASE Refuse(LAMBDA h : Gets(5, h), "INVALID_CBOR")
  BY <1>1, StepReturn DEF Refuse
<1>2. ASSUME NEW h \in Heads, Gets(5, h),
             frames' = <<Opened("top", h.arg)>>, status' = "READING",
             Consume(h), skip' = skip
      PROVE  StepInv'
  <2> DEFINE f == Opened("top", h.arg)
  <2>1. frames = <<>> /\ skip = <<>> /\ owed = 1
    BY DEF OpenMessage, StepInv, InStep, Owing
  <2>2. f \in Shaped /\ LeftIn(f) = Children(h)
    <3>1. h.major = 5 /\ ~ IsArray("top") /\ "top" \in Kind
      BY <1>2 DEF Gets, IsArray, Element, Kind
    <3> QED  BY <3>1, OpenedLeft
  <2>3. f \in Frame /\ <<>> \in Seq(Frame) /\ Append(<<>>, f) = <<f>>
    BY <2>2 DEF Shaped
  <2> HIDE DEF f
  <2>4. Total(LeftInAll(<<>>)) = 0
    BY TotalEmpty DEF LeftInAll
  <2>5. Total(LeftInAll(<<f>>)) = Children(h)
    <3>1. Total(LeftInAll(Append(<<>>, f))) =
            Total(LeftInAll(<<>>)) + LeftIn(f)
      BY <2>3, OpenedTotal
    <3> QED  BY <2>2, <2>3, <2>4, <3>1, ChildrenNat
  <2>6. owed' = Children(h)
    BY <1>2, <2>1, ChildrenNat DEF Consume
  <2>7. Owing' = Children(h)
    <3>1. frames' = <<f>> /\ frames' # <<>> /\ skip' = <<>>
      BY <1>2, <2>1 DEF f
    <3> QED  BY <2>5, <3>1, TotalEmpty, ChildrenNat DEF Owing
  <2>8. frames' \in Seq(Shaped)
    BY <1>2, <2>2 DEF f
  <2>9. skip' \in Seq(Int)
    BY <1>2, <2>1
  <2> QED  BY <1>2, <2>6, <2>7, <2>8, <2>9 DEF StepInv, InStep
<1> QED  BY <1>1, <1>2 DEF OpenMessage

LEMMA StepKey == ASSUME OnceInv, StepInv, ReadKey  PROVE StepInv'
<1>1. frames # <<>> /\ skip = <<>> /\ cmd \in Command
  BY DEF ReadKey, InMap, OnceInv
<1>2. ~ IsArray(Inner.kind) /\ Inner.due = <<>> /\ status = "READING"
  BY DEF ReadKey, InMap
<1>3. CASE Refuse(KeyHead, "UNEXPECTED_TYPE")
  BY <1>3, StepReturn DEF Refuse
<1>4. CASE Return("INVALID_CBOR")
  BY <1>4, StepReturn
<1>5. ASSUME NEW h \in Heads, NEW key \in KeysIn(h), KeyHead(h),
             frames' = With([Inner EXCEPT !.due = <<key>>,
                                          !.have = @ \cup Noted(key)]),
             Consume(h), UNCHANGED <<skip, status>>
      PROVE  StepInv'
  <2> DEFINE f == [Inner EXCEPT !.due = <<key>>,
                                !.have = Inner.have \cup Noted(key)]
  <2>1. frames \in Seq(Frame) /\ Inner \in Frame
    BY <1>1, ShapedStack DEF StepInv
  <2>2. key \in Key
    BY <1>1, <1>2, <2>1, KeysTyped
  <2>3. f \in Frame
    <3>1. <<key>> \in Seq(Key) /\ Inner.have \cup Noted(key) \in SUBSET Key
      BY <2>1, <2>2 DEF Frame, Noted
    <3> QED  BY <2>1, <3>1 DEF Frame
  <2>4. f.due = <<key>> /\ f.kind = Inner.kind /\ f.left = Inner.left
    BY <2>1 DEF Frame
  <2>5. Len(f.due) = 1 /\ Len(Inner.due) = 0
    BY <1>2, <2>4
  <2>6. f \in Shaped
    <3> HIDE DEF f
    <3>1. Len(f.due) <= 1
      BY <2>5
    <3>2. ~ IsArray(f.kind)
      BY <1>2, <2>4
    <3> QED  BY <2>3, <3>1, <3>2 DEF Shaped
  <2>7. frames' = With(f)
    BY <1>5
  <2> HIDE DEF f
  <2>8. LeftIn(f) = LeftIn(Inner) - 1 /\ LeftIn(Inner) \in Int
    <3>1. Inner.left \in Int
      BY <2>1 DEF Frame
    <3> QED  BY <1>2, <2>4, <2>5, <3>1 DEF LeftIn
  <2>9. /\ Total(LeftInAll(frames)) \in Int
        /\ Total(LeftInAll(With(f))) = Total(LeftInAll(frames)) - 1
    BY <1>1, <2>1, <2>3, <2>8, ReplacedTotal
  <2>10. frames' \in Seq(Shaped) /\ frames' # <<>>
    BY <1>1, <2>6, <2>7, ShapedStack DEF StepInv
  <2>11. owed' = owed + 0 - 1
    <3>1. Children(h) = 0
      BY <1>5 DEF KeyHead, Gets, Children
    <3> QED  BY <1>5, <3>1 DEF Consume
  <2>12. owed = Total(LeftInAll(frames)) + Total(skip) /\ Total(skip) = 0
    BY <1>1, TotalEmpty DEF StepInv, InStep, Owing
  <2>13. Owing' = Total(LeftInAll(With(f))) + Total(skip)
    BY <1>5, <2>7, <2>10 DEF Owing
  <2>14. InStep'
    BY <2>9, <2>11, <2>12, <2>13 DEF InStep
  <2> QED  BY <1>2, <1>5, <2>10, <2>14 DEF StepInv
<1> QED  BY <1>3, <1>4, <1>5 DEF ReadKey

LEMMA StepContainer == ASSUME OnceInv, StepInv, ReadContainer  PROVE StepInv'
<1>1. /\ frames # <<>> /\ frames \in Seq(Frame)
      /\ Begun \in Shaped /\ Begun \in Frame
      /\ LeftIn(Begun) = LeftIn(Inner) - 1 /\ LeftIn(Inner) \in Int
  BY BegunLeft DEF ReadContainer, OnceInv, Shaped
<1>2. PICK h \in Heads :
        /\ Fits(Expected, h)
        /\ frames' = Append(With(Begun), Opened(Expected, h.arg))
        /\ Consume(h) /\ UNCHANGED <<skip, status>>
  BY DEF ReadContainer
<1> DEFINE f == Opened(Expected, h.arg)
<1>3. f \in Shaped /\ LeftIn(f) = Children(h)
  <2>1. Expected \in Container
    BY DEF ReadContainer
  <2>2. h.major = MajorOf(Expected)
    BY <1>2, <2>1 DEF Fits, Gets, Container
  <2>3. MajorOf(Expected) = IF IsArray(Expected) THEN 4 ELSE 5
    BY <2>1 DEF MajorOf, IsArray, Element, Container
  <2> QED  BY <2>1, <2>2, <2>3, OpenedLeft DEF Kind
<1>4. f \in Frame
  BY <1>3 DEF Shaped
<1> HIDE DEF f
<1>5. With(Begun) \in Seq(Shaped) /\ With(Begun) \in Seq(Frame)
  BY <1>1, ShapedStack, FrameReplaced DEF StepInv
<1>6. frames' = Append(With(Begun), f)
  BY <1>2 DEF f
<1>7. frames' \in Seq(Shaped) /\ frames' # <<>>
  BY <1>3, <1>5, <1>6
<1>8. /\ Total(LeftInAll(frames)) \in Int /\ Children(h) \in Nat
      /\ Total(LeftInAll(Append(With(Begun), f))) =
           Total(LeftInAll(frames)) - 1 + Children(h)
  BY <1>1, <1>3, <1>4, <1>5, ReplacedTotal, OpenedTotal, ChildrenNat
<1>9. owed' = owed + Children(h) - 1
  BY <1>2 DEF Consume
<1>10. skip = <<>> /\ status = "READING"
  BY DEF ReadContainer, Expects, InMap
<1>11. owed = Total(LeftInAll(frames)) + Total(skip) /\ Total(skip) = 0
  BY <1>1, <1>10, TotalEmpty DEF StepInv, InStep, Owing
<1>12. Owing' = Total(LeftInAll(Append(With(Begun), f))) + Total(skip)
  BY <1>2, <1>6, <1>7 DEF Owing
<1>13. InStep'
  BY <1>8, <1>9, <1>11, <1>12 DEF InStep
<1> QED  BY <1>2, <1>7, <1>10, <1>13 DEF StepInv

LEMMA StepData == ASSUME OnceInv, StepInv, ReadData  PROVE StepInv'
<1>1. /\ frames # <<>> /\ frames \in Seq(Frame)
      /\ Begun \in Shaped /\ Begun \in Frame
      /\ LeftIn(Begun) = LeftIn(Inner) - 1 /\ LeftIn(Inner) \in Int
  BY BegunLeft DEF ReadData, OnceInv, Shaped
<1>h. PICK h \in Heads :
        /\ Fits(Expected, h)
        /\ \E meaning \in Meanings(Expected, h) :
             frames' = With([Begun EXCEPT !.met = @ \cup meaning])
        /\ Consume(h) /\ UNCHANGED <<skip, status>>
  BY DEF ReadData
<1>2. PICK meaning \in Meanings(Expected, h) :
        frames' = With([Begun EXCEPT !.met = @ \cup meaning])
  BY <1>h
<1> DEFINE f == [Begun EXCEPT !.met = Begun.met \cup meaning]
<1>3. meaning \subseteq Fact
  BY DEF Meanings, Fact
<1>4. f \in Frame
  <2>1. Begun.met \cup meaning \in SUBSET Fact
    BY <1>1, <1>3 DEF Frame
  <2> QED  BY <1>1, <2>1 DEF Frame
<1>5. f.kind = Begun.kind /\ f.due = Begun.due /\ f.left = Begun.left
  BY <1>1 DEF Frame
<1>6. frames' = With(f)
  BY <1>2
<1> HIDE DEF f
<1>7. f \in Shaped /\ LeftIn(f) = LeftIn(Inner) - 1
  BY <1>1, <1>4, <1>5 DEF Shaped, LeftIn
<1>8. frames' \in Seq(Shaped) /\ frames' # <<>>
  BY <1>1, <1>6, <1>7, ShapedStack DEF StepInv
<1>9. Children(h) = 0
  <2>1. Expected \in Plain
    BY <1>1, ExpectedKnown DEF ReadData, OnceInv
  <2>2. CASE Expected = "number"
    BY <1>h, <2>2 DEF Fits, GetsInt, Gets, Children
  <2>3. CASE Expected # "number"
    <3>1. h.major = MajorOf(Expected)
      BY <1>h, <2>3 DEF Fits, Gets
    <3>2. MajorOf(Expected) \in {0, 2, 3, 7}
      BY <2>1, <2>3 DEF MajorOf, Plain
    <3> QED  BY <3>1, <3>2 DEF Children
  <2> QED  BY <2>2, <2>3
<1>10. /\ Total(LeftInAll(frames)) \in Int
       /\ Total(LeftInAll(With(f))) = Total(LeftInAll(frames)) - 1
  BY <1>1, <1>4, <1>7, ReplacedTotal
<1>11. owed' = owed + 0 - 1
  BY <1>h, <1>9 DEF Consume
<1>12. skip = <<>> /\ status = "READING"
  BY DEF ReadData, Expects, InMap
<1>13. owed = Total(LeftInAll(frames)) + Total(skip) /\ Total(skip) = 0
  BY <1>1, <1>12, TotalEmpty DEF StepInv, InStep, Owing
<1>14. Owing' = Total(LeftInAll(With(f))) + Total(skip)
  BY <1>h, <1>6, <1>8 DEF Owing
<1>15. InStep'
  BY <1>10, <1>11, <1>13, <1>14 DEF InStep
<1> QED  BY <1>h, <1>8, <1>12, <1>15 DEF StepInv

LEMMA StepSkip == ASSUME OnceInv, StepInv, BeginSkip  PROVE StepInv'
<1>1. /\ frames # <<>> /\ frames \in Seq(Frame)
      /\ Begun \in Shaped /\ Begun \in Frame
      /\ LeftIn(Begun) = LeftIn(Inner) - 1 /\ LeftIn(Inner) \in Int
  BY BegunLeft DEF BeginSkip, OnceInv, Shaped
<1>2. /\ frames' = With(Begun) /\ skip' = <<1>> /\ UNCHANGED <<status, owed>>
      /\ skip = <<>> /\ status = "READING"
  BY DEF BeginSkip, Expects, InMap
<1>3. frames' \in Seq(Shaped) /\ frames' # <<>>
  BY <1>1, <1>2, ShapedStack DEF StepInv
<1>4. Total(<<1>>) = 1
  <2>1. /\ <<1>> \in Seq(Int) /\ <<>> \in Seq(Int) /\ <<1>> # <<>>
        /\ Len(<<>>) = Len(<<1>>) - 1 /\ <<1>>[Len(<<1>>)] = 1
        /\ \A i \in 1 .. Len(<<>>) : <<>>[i] = <<1>>[i]
    OBVIOUS
  <2>2. Total(<<1>>) = Total(<<>>) + <<1>>[Len(<<1>>)]
    BY <2>1, TotalSplit
  <2> QED  BY <2>1, <2>2, TotalEmpty
<1>5. /\ Total(LeftInAll(frames)) \in Int
      /\ Total(LeftInAll(With(Begun))) = Total(LeftInAll(frames)) - 1
  BY <1>1, ReplacedTotal
<1>6. owed = Total(LeftInAll(frames)) + Total(skip) /\ Total(skip) = 0
  BY <1>1, <1>2, TotalEmpty DEF StepInv, InStep, Owing
<1>7. Owing' = Total(LeftInAll(With(Begun))) + 1
  BY <1>2, <1>3, <1>4 DEF Owing
<1>8. InStep'
  BY <1>2, <1>5, <1>6, <1>7 DEF InStep
<1>9. skip' \in Seq(Int)
  BY <1>2
<1> QED  BY <1>2, <1>3, <1>8, <1>9 DEF StepInv

LEMMA StepItem == ASSUME OnceInv, StepInv, SkipItem  PROVE StepInv'
<1>1. frames # <<>> /\ skip # <<>> /\ status = "READING" /\ skip \in Seq(Int)
  BY DEF SkipItem, OnceInv, StepInv
<1>2. CASE Refuse(Skippable, "INVALID_CBOR")
  BY <1>2, StepReturn DEF Refuse
<1>3. ASSUME NEW h \in Heads,
             skip' = Unwound(Append([skip EXCEPT ![Len(skip)] = @ - 1],
                                    SkippedItems(h))),
             Consume(h), UNCHANGED <<frames, status>>
      PROVE  StepInv'
  <2> DEFINE taken == [skip EXCEPT ![Len(skip)] = skip[Len(skip)] - 1]
             rest  == Front(skip)
             all   == Append(taken, Children(h))
  <2>1. Len(skip) \in Nat \ {0} /\ skip[Len(skip)] \in Int
    BY <1>1
  <2>2. /\ taken \in Seq(Int) /\ Len(taken) = Len(skip) /\ taken # <<>>
        /\ taken[Len(taken)] = skip[Len(skip)] - 1
        /\ \A i \in 1 .. Len(skip) - 1 : taken[i] = skip[i]
    BY <1>1, <2>1
  <2>3. /\ rest \in Seq(Int) /\ Len(rest) = Len(skip) - 1
        /\ \A i \in 1 .. Len(skip) - 1 : rest[i] = skip[i]
    BY <1>1, FrontOfNumbers
  <2> HIDE DEF taken, rest
  <2>a. \A i \in 1 .. Len(rest) : rest[i] = taken[i]
    BY <2>2, <2>3
  <2>4. Total(taken) = Total(skip) - 1 /\ Total(skip) \in Int
    <3>1. Total(skip) = Total(rest) + skip[Len(skip)] /\ Total(rest) \in Int
      BY <1>1, <2>3, TotalSplit
    <3>2. Total(taken) = Total(rest) + taken[Len(taken)]
      BY <1>1, <2>1, <2>2, <2>3, <2>a, TotalSplit
    <3> QED  BY <2>1, <2>2, <3>1, <3>2
  <2>5. /\ all \in Seq(Int) /\ all # <<>> /\ Len(taken) = Len(all) - 1
        /\ all[Len(all)] = Children(h)
        /\ \A i \in 1 .. Len(taken) : taken[i] = all[i]
    BY <2>2, ChildrenNat
  <2> HIDE DEF all
  <2>6. Total(all) = Total(taken) + Children(h)
    BY <2>2, <2>5, TotalSplit
  <2>7. skip' = Unwound(all)
    BY <1>3 DEF all, taken, SkippedItems
  <2>8. skip' \in Seq(Int) /\ Total(skip') = Total(skip) - 1 + Children(h)
    BY <2>4, <2>5, <2>6, <2>7, UnwoundTotal
  <2>9. owed = Total(LeftInAll(frames)) + Total(skip)
    BY <1>1 DEF StepInv, InStep, Owing
  <2>10. Total(LeftInAll(frames)) \in Int
    BY <1>1, ReplacedTotal, InnerFrame DEF OnceInv
  <2>11. Owing' = Total(LeftInAll(frames)) + Total(skip')
    BY <1>1, <1>3 DEF Owing
  <2>12. owed' = owed + Children(h) - 1
    BY <1>3 DEF Consume
  <2>13. InStep'
    BY <2>4, <2>8, <2>9, <2>10, <2>11, <2>12, ChildrenNat DEF InStep
  <2>14. frames' \in Seq(Shaped)
    BY <1>3 DEF StepInv
  <2> QED  BY <1>1, <1>3, <2>8, <2>13, <2>14 DEF StepInv
<1> QED  BY <1>2, <1>3 DEF SkipItem

LEMMA StepEnd == ASSUME OnceInv, StepInv, EndFrame  PROVE StepInv'
<1>1. /\ frames # <<>> /\ Len(frames) > 1 /\ frames \in Seq(Frame)
      /\ status = "READING" /\ Inner.left = 0 /\ Inner.due = <<>>
  BY DEF EndFrame, OnceInv
<1>2. CASE Return("MISSING_PARAMETER")
  BY <1>2, StepReturn
<1>3. ASSUME frames' = Front(frames), UNCHANGED <<skip, status, owed>>
      PROVE  StepInv'
  <2>1. frames' \in Seq(Shaped)
    BY <1>1, <1>3, ShapedStack DEF StepInv
  <2>2. frames' # <<>>
    BY <1>1, <1>3, FrontOfFrames
  <2>3. LeftIn(Inner) = 0
    BY <1>1, LeftInNone
  <2>4. Total(LeftInAll(frames)) = Total(LeftInAll(Front(frames)))
    BY <1>1, <2>3, FramesTotal
  <2>5. InStep'
    BY <1>1, <1>3, <2>2, <2>4 DEF InStep, Owing, StepInv
  <2> QED  BY <1>1, <1>3, <2>1, <2>5 DEF StepInv
<1> QED  BY <1>2, <1>3 DEF EndFrame

LEMMA StepAll == ASSUME OnceInv, StepInv, [Next]_vars  PROVE StepInv'
<1>1. CASE ReadWrong
  <2>1. CASE Refuse(LAMBDA h : Fits(Expected, h), "UNEXPECTED_TYPE")
    BY <2>1, StepReturn DEF Refuse
  <2>2. CASE \E h \in Heads : Return(Unacceptable(Expected, h))
    BY <2>2, StepReturn DEF Unacceptable
  <2> QED  BY <1>1, <2>1, <2>2 DEF ReadWrong
<1>2. CASE Judge
  BY <1>2, StepReturn DEF Judge
<1>3. CASE Again
  BY <1>3 DEF Again, StepInv, InStep, Owing
<1>4. CASE UNCHANGED vars
  BY <1>4 DEF vars, StepInv, InStep, Owing
<1> QED
  BY <1>1, <1>2, <1>3, <1>4, StepOpen, StepKey, StepContainer, StepData,
     StepSkip, StepItem, StepEnd DEF Next

LEMMA StepAlways == Spec => []StepInv
<1>1. Init => StepInv
  BY DEF Init, StepInv, InStep, Owing
<1>2. OnceInv /\ StepInv /\ [Next]_vars => StepInv'
  BY StepAll
<1> QED  BY <1>1, <1>2, OnceAlways, PTL DEF Spec

(* The reader never loses step with the message.                            *)
THEOREM InStepTheorem == Spec => []InStep
<1>1. StepInv => InStep
  BY DEF StepInv
<1> QED  BY <1>1, StepAlways, PTL
-----------------------------------------------------------------------------
(* The inductive invariant of VerdictRight: a key noted as seen has its     *)
(* value read or waits for it, only the innermost map can be an entry of    *)
(* the algorithms, and the request structure and that entry hold what the   *)
(* message has said.                                                        *)
Awaited(f) == IF f.due # <<>> /\ Tracked(f.kind, f.due[1]) THEN {f.due[1]}
              ELSE {}
Accounted == {f \in Frame : f.have \subseteq f.began \cup Awaited(f)}
Outer     == {f \in Frame : f.kind # "alg"}

Remembered ==
    /\ request.unsupported_option = said.wants
    /\ request.es256 = said.es256
    /\ frames # <<>> =>
         said.entry = IF Inner.kind = "alg" THEN Inner.met ELSE {}

VerdictInv ==
    /\ frames \in Seq(Accounted)
    /\ frames # <<>> => Front(frames) \in Seq(Outer)
    /\ request \in [es256 : BOOLEAN, unsupported_option : BOOLEAN]
    /\ Remembered
    /\ status = "START" => frames = <<>> /\ said.entry = {}
    /\ status # "START" => VerdictRight

Undecided == {"READING", "INVALID_CBOR", "UNEXPECTED_TYPE",
              "INVALID_PARAMETER", "LIMIT_EXCEEDED", "MISSING_PARAMETER"}

LEMMA NotYet == ASSUME status' \in Undecided  PROVE VerdictRight'
BY DEF VerdictRight, Undecided

(* Each action keeps what was noted and what was said together.            *)
LEMMA VerdictReturn ==
    ASSUME VerdictInv, NEW s \in Undecided, Return(s)  PROVE VerdictInv'
<1>1. status' \in Undecided /\ status' # "START"
  BY DEF Return, Undecided
<1>2. VerdictRight'
  BY <1>1, NotYet
<1>3. UNCHANGED <<cmd, frames, request, said>>
  BY DEF Return
<1>4. Accounted' = Accounted
  BY <1>3 DEF Accounted, Awaited, Tracked, Known
<1> QED
  BY <1>1, <1>2, <1>3, <1>4 DEF VerdictInv, Remembered, Inner

LEMMA VerdictOpen == ASSUME VerdictInv, OpenMessage  PROVE VerdictInv'
<1>1. CASE Refuse(LAMBDA h : Gets(5, h), "INVALID_CBOR")
  BY <1>1, VerdictReturn DEF Refuse, Undecided
<1>2. ASSUME NEW h \in Heads, frames' = <<Opened("top", h.arg)>>,
             status' = "READING", UNCHANGED <<cmd, request, said>>
      PROVE  VerdictInv'
  <2> DEFINE f == Opened("top", h.arg)
  <2>1. said.entry = {}
    BY DEF OpenMessage, VerdictInv
  <2>2. f \in Frame
    BY NewFrame, RequestAssumption DEF Kind
  <2>3. f.have = {} /\ f.kind = "top"
    BY DEF Opened
  <2> HIDE DEF f
  <2>4. frames' = <<f>> /\ frames' # <<>>
    BY <1>2 DEF f
  <2>5. frames' \in Seq(Accounted)'
    BY <1>2, <2>2, <2>3, <2>4 DEF Accounted
  <2>6. Front(frames') \in Seq(Outer) /\ Inner' = f
    <3>1. Len(<<f>>) - 1 = 0 /\ <<f>>[Len(<<f>>)] = f
      OBVIOUS
    <3>2. SubSeq(<<f>>, 1, 0) = <<>>
      BY SubSeqEmpty
    <3> QED  BY <2>4, <3>1, <3>2 DEF Front, Inner, Last
  <2>7. VerdictRight'
    BY <1>2, NotYet DEF Undecided
  <2>8. Remembered'
    BY <1>2, <2>1, <2>3, <2>6 DEF Remembered, VerdictInv
  <2> QED  BY <1>2, <2>4, <2>5, <2>6, <2>7, <2>8 DEF VerdictInv
<1> QED  BY <1>1, <1>2 DEF OpenMessage

(* The stack after its innermost frame is replaced.                         *)
LEMMA AccountedStack ==
    ASSUME OnceInv, VerdictInv, frames # <<>>
    PROVE  /\ frames \in Seq(Frame)
           /\ Inner \in Accounted /\ Inner \in Frame
           /\ Front(frames) \in Seq(Accounted)
           /\ Front(frames) \in Seq(Outer)
<1>1. Inner \in Accounted
  BY DEF Inner, Last, VerdictInv
<1>2. Front(frames) \in Seq(Accounted)
  BY DEF Front, VerdictInv
<1> QED  BY <1>1, <1>2 DEF OnceInv, VerdictInv, Accounted

LEMMA AccountedReplaced ==
    ASSUME OnceInv, VerdictInv, frames # <<>>, NEW f \in Accounted,
           frames' = With(f), cmd' = cmd
    PROVE  /\ frames' \in Seq(Accounted)' /\ frames' # <<>>
           /\ Front(frames') \in Seq(Outer)
           /\ Inner' = f
<1>1. Accounted' = Accounted
  BY DEF Accounted, Awaited, Tracked, Known
<1>2. Front(frames) \in Seq(Accounted) /\ Front(frames) \in Seq(Outer)
  BY AccountedStack
<1>3. frames' = Append(Front(frames), f)
  BY DEF With
<1>4. frames' \in Seq(Accounted) /\ frames' # <<>>
  BY <1>2, <1>3
<1>5. Front(Append(Front(frames), f)) = Front(frames)
      /\ Last(Append(Front(frames), f)) = f
  BY <1>2, FrontOfAppend
<1> QED  BY <1>1, <1>2, <1>3, <1>4, <1>5 DEF Inner

LEMMA BegunAccounted ==
    ASSUME OnceInv, VerdictInv, frames # <<>>
    PROVE  Begun \in Accounted
<1>1. Inner \in Accounted /\ Inner \in Frame
  BY AccountedStack
<1>2. Begun \in Frame
  BY BegunNoted
<1>3. Began = Awaited(Inner)
  BY DEF Began, Awaited
<1>4. Begun.have = Inner.have /\ Begun.began = Inner.began \cup Began
  BY <1>1 DEF Begun, Frame
<1> QED  BY <1>1, <1>2, <1>3, <1>4 DEF Accounted

LEMMA VerdictKey == ASSUME OnceInv, VerdictInv, ReadKey  PROVE VerdictInv'
<1>1. frames # <<>> /\ cmd \in Command
  BY DEF ReadKey, InMap, OnceInv
<1>2. ~ IsArray(Inner.kind) /\ Inner.due = <<>> /\ status = "READING"
  BY DEF ReadKey, InMap
<1>3. CASE Refuse(KeyHead, "UNEXPECTED_TYPE")
  BY <1>3, VerdictReturn DEF Refuse, Undecided
<1>4. CASE Return("INVALID_CBOR")
  BY <1>4, VerdictReturn DEF Undecided
<1>5. ASSUME NEW h \in Heads, NEW key \in KeysIn(h),
             frames' = With([Inner EXCEPT !.due = <<key>>,
                                          !.have = @ \cup Noted(key)]),
             UNCHANGED <<cmd, request, status, said>>
      PROVE  VerdictInv'
  <2> DEFINE f == [Inner EXCEPT !.due = <<key>>,
                                !.have = Inner.have \cup Noted(key)]
  <2>1. Inner \in Accounted /\ Inner \in Frame /\ frames \in Seq(Frame)
    BY <1>1, AccountedStack
  <2>2. key \in Key
    BY <1>1, <1>2, <2>1, KeysTyped
  <2>3. f \in Frame
    <3>1. <<key>> \in Seq(Key) /\ Inner.have \cup Noted(key) \in SUBSET Key
      BY <2>1, <2>2 DEF Frame, Noted
    <3> QED  BY <2>1, <3>1 DEF Frame
  <2>4. /\ f.due = <<key>> /\ f.kind = Inner.kind /\ f.met = Inner.met
        /\ f.have = Inner.have \cup Noted(key) /\ f.began = Inner.began
    BY <2>1 DEF Frame
  <2>5. frames' = With(f)
    BY <1>5
  <2> HIDE DEF f
  <2>6. Inner.have \subseteq Inner.began
    BY <1>2, <2>1 DEF Accounted, Awaited
  <2>7. f.due # <<>> /\ f.due[1] = key
    BY <2>4
  <2>8. Awaited(f) = Noted(key)
    BY <2>4, <2>7 DEF Awaited, Noted
  <2>9. f \in Accounted
    BY <2>3, <2>4, <2>6, <2>8 DEF Accounted
  <2>10. /\ frames' \in Seq(Accounted)' /\ frames' # <<>>
         /\ Front(frames') \in Seq(Outer) /\ Inner' = f
    BY <1>1, <1>5, <2>5, <2>9, AccountedReplaced
  <2>11. VerdictRight' /\ status' # "START"
    BY <1>2, <1>5, NotYet DEF Undecided
  <2>12. Remembered'
    BY <1>1, <1>5, <2>4, <2>10 DEF Remembered, VerdictInv
  <2> QED  BY <1>5, <2>10, <2>11, <2>12 DEF VerdictInv
<1> QED  BY <1>3, <1>4, <1>5 DEF ReadKey

(* What Said leaves of the history.                                         *)
LEMMA SaidKeeps ==
    ASSUME NEW now \in SaidType, Said(now)
    PROVE  /\ said'.wants = now.wants /\ said'.es256 = now.es256
           /\ said'.entry = now.entry
BY DEF Said, SaidType

LEMMA VerdictContainer ==
    ASSUME OnceInv, StepInv, VerdictInv, ReadContainer  PROVE VerdictInv'
<1>1. frames # <<>> /\ frames \in Seq(Frame) /\ cmd \in Command
  BY DEF ReadContainer, Expects, InMap, OnceInv
<1>2. PICK h \in Heads :
        /\ frames' = Append(With(Begun), Opened(Expected, h.arg))
        /\ Said(said) /\ UNCHANGED <<cmd, request, status>>
  BY DEF ReadContainer
<1> DEFINE f == Opened(Expected, h.arg)
<1>3. status = "READING" /\ Expected \in Container
  BY DEF ReadContainer, Expects, InMap
<1>4. Inner.kind # "alg"
  BY <1>1, <1>3, ExpectedKnown DEF Container
<1>5. f \in Frame /\ f.have = {} /\ f.met = {} /\ f.kind = Expected
  BY <1>3, NewFrame, RequestAssumption DEF Kind, Opened
<1>6. frames' = Append(With(Begun), f)
  BY <1>2
<1> HIDE DEF f
<1>7. f \in Accounted
  BY <1>5 DEF Accounted
<1>8. Begun \in Accounted /\ Begun \in Frame /\ Begun.kind = Inner.kind
  BY <1>1, BegunAccounted, BegunLeft DEF ReadContainer, Accounted
<1>9. With(Begun) \in Seq(Accounted) /\ With(Begun) \in Seq(Outer)
  <2>1. Begun \in Outer
    BY <1>4, <1>8 DEF Outer
  <2> QED  BY <1>1, <1>8, <2>1, AccountedStack DEF With
<1>10. Accounted' = Accounted
  BY <1>2 DEF Accounted, Awaited, Tracked, Known
<1>11. frames' \in Seq(Accounted)' /\ frames' # <<>>
  BY <1>6, <1>7, <1>9, <1>10
<1>12. Front(frames') = With(Begun) /\ Inner' = f
  BY <1>6, <1>7, <1>9, FrontOfAppend DEF Inner
<1>13. VerdictRight' /\ status' # "START"
  BY <1>2, <1>3, NotYet DEF Undecided
<1>14. Remembered'
  <2>1. /\ said'.wants = said.wants /\ said'.es256 = said.es256
        /\ said'.entry = said.entry
    BY <1>2, SaidKeeps DEF OnceInv
  <2>2. said.entry = {}
    BY <1>1, <1>4 DEF VerdictInv, Remembered
  <2> QED  BY <1>2, <1>5, <1>12, <2>1, <2>2 DEF VerdictInv, Remembered
<1> QED  BY <1>2, <1>9, <1>11, <1>12, <1>13, <1>14 DEF VerdictInv

LEMMA VerdictData ==
    ASSUME OnceInv, StepInv, VerdictInv, ReadData  PROVE VerdictInv'
<1>1. frames # <<>> /\ frames \in Seq(Frame)
  BY DEF ReadData, Expects, InMap, OnceInv
<1>h. PICK h \in Heads :
       /\ \E meaning \in Meanings(Expected, h) :
            /\ frames' = With([Begun EXCEPT !.met = @ \cup meaning])
            /\ Said([said EXCEPT
                 !.entry = IF Inner.kind = "alg" THEN @ \cup meaning ELSE @,
                 !.wants = @ \/ Expected \in {"pin", "protocol"}
                             \/ (Expected = "flag" /\ h.arg = True)])
       /\ request' = [request EXCEPT
                       !.unsupported_option = OptionOf(Expected, h)]
       /\ UNCHANGED <<cmd, status>>
  BY DEF ReadData
<1>2. PICK meaning \in Meanings(Expected, h) :
        /\ frames' = With([Begun EXCEPT !.met = @ \cup meaning])
        /\ Said([said EXCEPT
             !.entry = IF Inner.kind = "alg" THEN @ \cup meaning ELSE @,
             !.wants = @ \/ Expected \in {"pin", "protocol"}
                         \/ (Expected = "flag" /\ h.arg = True)])
  BY <1>h
<1> DEFINE f == [Begun EXCEPT !.met = Begun.met \cup meaning]
           asks == \/ said.wants \/ Expected \in {"pin", "protocol"}
                   \/ (Expected = "flag" /\ h.arg = True)
           fact == IF Inner.kind = "alg" THEN said.entry \cup meaning
                   ELSE said.entry
           now == [said EXCEPT !.entry = fact, !.wants = asks]
<1>3. meaning \subseteq Fact
  BY DEF Meanings, Fact
<1>4. Begun \in Accounted /\ Begun \in Frame
  BY <1>1, BegunAccounted DEF Accounted
<1>5. f \in Frame
  <2>1. Begun.met \cup meaning \in SUBSET Fact
    BY <1>3, <1>4 DEF Frame
  <2> QED  BY <1>4, <2>1 DEF Frame
<1>6. /\ f.kind = Begun.kind /\ f.due = Begun.due /\ f.have = Begun.have
      /\ f.began = Begun.began /\ f.met = Begun.met \cup meaning
  BY <1>4 DEF Frame
<1>7. f.kind = Inner.kind /\ f.met = Inner.met \cup meaning
  BY <1>6, BegunLeft DEF ReadData
<1>8. now \in SaidType /\ now.wants = asks /\ now.es256 = said.es256
      /\ now.entry = fact
  <2>1. fact \in SUBSET Fact /\ asks \in BOOLEAN /\ said \in SaidType
    BY <1>3 DEF OnceInv, SaidType
  <2> HIDE DEF fact, asks
  <2> QED  BY <2>1 DEF SaidType
<1>9. frames' = With(f) /\ Said(now)
  BY <1>2
<1> HIDE DEF f, now
<1>10. f \in Accounted
  BY <1>4, <1>5, <1>6 DEF Accounted, Awaited
<1>11. /\ frames' \in Seq(Accounted)' /\ frames' # <<>>
       /\ Front(frames') \in Seq(Outer) /\ Inner' = f
  BY <1>1, <1>h, <1>9, <1>10, AccountedReplaced
<1>12. /\ said'.wants = asks /\ said'.es256 = said.es256
       /\ said'.entry = fact
  BY <1>8, <1>9, SaidKeeps
<1>13. /\ request' \in [es256 : BOOLEAN, unsupported_option : BOOLEAN]
       /\ request'.es256 = request.es256
       /\ request'.unsupported_option = OptionOf(Expected, h)
  <2>1. OptionOf(Expected, h) \in BOOLEAN
    BY DEF OptionOf
  <2>2. request \in [es256 : BOOLEAN, unsupported_option : BOOLEAN]
    BY DEF VerdictInv
  <2> QED  BY <1>h, <2>1, <2>2
<1>14. asks = OptionOf(Expected, h)
  <2>1. request.unsupported_option = said.wants
    BY DEF VerdictInv, Remembered
  <2>2. asks <=> OptionOf(Expected, h)
    BY <2>1, Zenon DEF OptionOf
  <2> QED  BY <2>2, Zenon DEF OptionOf
<1>15. said'.entry = IF f.kind = "alg" THEN f.met ELSE {}
  <2>1. said.entry = IF Inner.kind = "alg" THEN Inner.met ELSE {}
    BY <1>1 DEF VerdictInv, Remembered
  <2> QED  BY <1>7, <1>12, <2>1
<1> HIDE DEF asks, fact
<1>16. Remembered'
  BY <1>11, <1>12, <1>13, <1>14, <1>15 DEF VerdictInv, Remembered
<1>17. VerdictRight' /\ status' # "START"
  BY <1>h, NotYet DEF Undecided, ReadData, Expects, InMap
<1> QED  BY <1>11, <1>13, <1>16, <1>17 DEF VerdictInv

LEMMA VerdictSkip ==
    ASSUME OnceInv, StepInv, VerdictInv, BeginSkip  PROVE VerdictInv'
<1>1. frames # <<>> /\ frames \in Seq(Frame)
  BY DEF BeginSkip, Expects, InMap, OnceInv
<1>2. /\ frames' = With(Begun) /\ Said(said) /\ status = "READING"
      /\ UNCHANGED <<cmd, request, status>>
  BY DEF BeginSkip, Expects, InMap
<1>3. Begun \in Accounted /\ Begun.kind = Inner.kind /\ Begun.met = Inner.met
  BY <1>1, BegunAccounted, BegunLeft DEF BeginSkip
<1>4. /\ frames' \in Seq(Accounted)' /\ frames' # <<>>
      /\ Front(frames') \in Seq(Outer) /\ Inner' = Begun
  BY <1>1, <1>2, <1>3, AccountedReplaced
<1>5. /\ said'.wants = said.wants /\ said'.es256 = said.es256
      /\ said'.entry = said.entry
  BY <1>2, SaidKeeps DEF OnceInv
<1>6. Remembered'
  BY <1>1, <1>2, <1>3, <1>4, <1>5 DEF VerdictInv, Remembered
<1>7. VerdictRight' /\ status' # "START"
  BY <1>2, NotYet DEF Undecided
<1> QED  BY <1>2, <1>4, <1>6, <1>7 DEF VerdictInv

LEMMA VerdictItem == ASSUME VerdictInv, SkipItem  PROVE VerdictInv'
<1>1. CASE Refuse(Skippable, "INVALID_CBOR")
  BY <1>1, VerdictReturn DEF Refuse, Undecided
<1>2. ASSUME UNCHANGED <<cmd, frames, request, status, said>>
      PROVE  VerdictInv'
  <2>1. Accounted' = Accounted
    BY <1>2 DEF Accounted, Awaited, Tracked, Known
  <2>2. VerdictRight' /\ status' # "START"
    BY <1>2, NotYet DEF Undecided, SkipItem
  <2> QED  BY <1>2, <2>1, <2>2 DEF VerdictInv, Remembered, Inner
<1> QED  BY <1>1, <1>2 DEF SkipItem

LEMMA VerdictEnd == ASSUME OnceInv, VerdictInv, EndFrame  PROVE VerdictInv'
<1>1. frames # <<>> /\ frames \in Seq(Frame) /\ Len(frames) > 1
      /\ status = "READING"
  BY DEF EndFrame, OnceInv
<1>2. CASE Return("MISSING_PARAMETER")
  BY <1>2, VerdictReturn DEF Undecided
<1>3. ASSUME frames' = Front(frames), UNCHANGED <<cmd, status>>,
             request' = [request EXCEPT !.es256 = @ \/ Offers(Inner)],
             said' = IF Inner.kind # "alg" THEN said
                     ELSE [said EXCEPT !.entry = {},
                             !.es256 = @ \/ said.entry = {"public-key", "es256"}]
      PROVE  VerdictInv'
  <2>1. /\ Front(frames) \in Seq(Accounted) /\ Front(frames) \in Seq(Outer)
        /\ Inner \in Frame
    BY <1>1, AccountedStack
  <2>2. Accounted' = Accounted
    BY <1>3 DEF Accounted, Awaited, Tracked, Known
  <2>3. frames' # <<>> /\ Len(Front(frames)) \in Nat \ {0}
    BY <1>1, <1>3, FrontOfFrames
  <2>4. /\ Inner' \in Outer
        /\ Front(frames') \in Seq(Outer)
    <3>1. Front(frames)[Len(Front(frames))] \in Outer
      BY <2>1, <2>3
    <3>2. Front(Front(frames)) \in Seq(Outer)
      BY <2>1, <2>3 DEF Front
    <3> QED  BY <1>3, <3>1, <3>2 DEF Inner, Last
  <2>5. said.entry = IF Inner.kind = "alg" THEN Inner.met ELSE {}
    BY <1>1 DEF VerdictInv, Remembered
  <2>6. request \in [es256 : BOOLEAN, unsupported_option : BOOLEAN]
        /\ said \in SaidType
    BY DEF VerdictInv, OnceInv
  <2> DEFINE offered == request.es256 \/ Offers(Inner)
             chosen  == said.es256 \/ said.entry = {"public-key", "es256"}
  <2>7. /\ request' \in [es256 : BOOLEAN, unsupported_option : BOOLEAN]
        /\ request'.es256 = offered
        /\ request'.unsupported_option = request.unsupported_option
    <3>1. offered \in BOOLEAN /\ request' = [request EXCEPT !.es256 = offered]
      BY <1>3 DEF Offers
    <3> HIDE DEF offered
    <3> QED  BY <2>6, <3>1
  <2>8. said'.wants = said.wants
        /\ said'.es256 = (IF Inner.kind = "alg" THEN chosen ELSE said.es256)
        /\ said'.entry = {}
    <3>1. CASE Inner.kind # "alg"
      BY <1>3, <2>5, <3>1
    <3>2. CASE Inner.kind = "alg"
      <4>1. chosen \in BOOLEAN
            /\ said' = [said EXCEPT !.entry = {}, !.es256 = chosen]
        BY <1>3, <3>2
      <4> HIDE DEF chosen
      <4> QED  BY <2>6, <3>2, <4>1 DEF SaidType
    <3> QED  BY <3>1, <3>2
  <2>9. request'.es256 = said'.es256
    <3>1. request.es256 = said.es256
      BY DEF VerdictInv, Remembered
    <3>2. request.es256 \in BOOLEAN /\ said.es256 \in BOOLEAN
      BY <2>6 DEF SaidType
    <3>3. CASE Inner.kind # "alg"
      <4>1. offered <=> request.es256
        BY <3>3, Zenon DEF Offers
      <4> QED  BY <2>7, <2>8, <3>1, <3>2, <3>3, <4>1, Zenon DEF Offers
    <3>4. CASE Inner.kind = "alg"
      <4>1. said.entry = Inner.met
        BY <2>5, <3>4
      <4>2. offered <=> chosen
        BY <3>1, <3>4, <4>1, Zenon DEF Offers
      <4>3. offered = chosen
        BY <4>2, Zenon
      <4> QED  BY <2>7, <2>8, <3>4, <4>3, Zenon
    <3> QED  BY <3>3, <3>4
  <2> HIDE DEF offered, chosen
  <2>10. Remembered'
    <3>1. Inner'.kind # "alg"
      BY <2>4 DEF Outer
    <3>2. request'.unsupported_option = said'.wants
      BY <2>7, <2>8 DEF VerdictInv, Remembered
    <3> QED  BY <2>8, <2>9, <3>1, <3>2 DEF Remembered
  <2>11. VerdictRight' /\ status' # "START"
    BY <1>1, <1>3, NotYet DEF Undecided
  <2> QED
    BY <1>3, <2>1, <2>2, <2>3, <2>4, <2>7, <2>10, <2>11 DEF VerdictInv
<1> QED  BY <1>2, <1>3 DEF EndFrame

LEMMA VerdictJudge ==
    ASSUME OnceInv, StepInv, VerdictInv, Judge  PROVE VerdictInv'
<1>1. /\ frames # <<>> /\ Len(frames) = 1 /\ frames \in Seq(Frame)
      /\ status = "READING" /\ skip = <<>>
      /\ Inner.left = 0 /\ Inner.due = <<>>
  BY DEF Judge, OnceInv
<1>2. CASE Return("INVALID_CBOR")
  BY <1>2, VerdictReturn DEF Undecided
<1>3. CASE Return("MISSING_PARAMETER")
  BY <1>3, VerdictReturn DEF Undecided
<1>4. ASSUME NEW s \in {"OK", "UNSUPPORTED_OPTION", "UNSUPPORTED_ALGORITHM"},
             Return(s), Required \subseteq Inner.have,
             s = "OK" => /\ ~ request.unsupported_option
                         /\ cmd = "make" => request.es256,
             s = "UNSUPPORTED_OPTION" => request.unsupported_option,
             s = "UNSUPPORTED_ALGORITHM" =>
               ~ request.unsupported_option /\ ~ request.es256
      PROVE  VerdictInv'
  <2>1. UNCHANGED <<cmd, frames, request, said, owed>> /\ status' = s
    BY <1>4 DEF Return
  <2>2. owed = 0
    <3>1. Total(LeftInAll(frames)) = Total(LeftInAll(Front(frames)))
      BY <1>1, LeftInNone, FramesTotal
    <3>2. Front(frames) = <<>>
      <4>1. Len(frames) - 1 = 0
        BY <1>1
      <4>2. SubSeq(frames, 1, 0) = <<>>
        BY SubSeqEmpty
      <4> QED  BY <4>1, <4>2 DEF Front
    <3>3. LeftInAll(<<>>) = <<>>
      BY DEF LeftInAll
    <3>4. Total(LeftInAll(frames)) = 0 /\ Total(skip) = 0
      BY <1>1, <3>1, <3>2, <3>3, TotalEmpty
    <3> QED  BY <1>1, <3>4 DEF StepInv, InStep, Owing
  <2>3. Required \subseteq Inner.began
    <3>1. Inner \in Accounted
      BY <1>1, AccountedStack
    <3> QED  BY <1>1, <1>4, <3>1 DEF Accounted, Awaited
  <2>4. /\ request.unsupported_option = said.wants
        /\ request.es256 = said.es256
    BY DEF VerdictInv, Remembered
  <2>5. VerdictRight'
    <3>1. owed' = 0 /\ (Required \subseteq Inner.began)'
      BY <2>1, <2>2, <2>3 DEF Required, Inner
    <3>2. status' = "OK" => ~ said'.wants /\ (cmd' = "make" => said'.es256)
      BY <1>4, <2>1, <2>4
    <3>3. status' = "UNSUPPORTED_OPTION" => said'.wants
      BY <1>4, <2>1, <2>4
    <3>4. status' = "UNSUPPORTED_ALGORITHM" => ~ said'.es256 /\ ~ said'.wants
      BY <1>4, <2>1, <2>4
    <3> QED  BY <3>1, <3>2, <3>3, <3>4 DEF VerdictRight
  <2>6. Accounted' = Accounted
    BY <2>1 DEF Accounted, Awaited, Tracked, Known
  <2>7. status' # "START"
    BY <1>4, <2>1
  <2> QED  BY <2>1, <2>5, <2>6, <2>7 DEF VerdictInv, Remembered, Inner
<1>5. ASSUME Required \subseteq Inner.have  PROVE VerdictInv'
  <2>1. CASE Return("UNSUPPORTED_OPTION") /\ request.unsupported_option
    BY <1>4, <1>5, <2>1
  <2>2. CASE /\ Return("UNSUPPORTED_ALGORITHM")
             /\ ~ request.unsupported_option /\ ~ request.es256
    BY <1>4, <1>5, <2>2
  <2>3. CASE /\ Return("OK") /\ ~ request.unsupported_option
             /\ ~ (cmd = "make" /\ ~ request.es256)
    <3>1. cmd = "make" => request.es256
      BY <2>3
    <3> QED  BY <1>4, <1>5, <2>3, <3>1
  <2> QED  BY <1>2, <1>5, <2>1, <2>2, <2>3 DEF Judge
<1>6. CASE ~ Required \subseteq Inner.have
  BY <1>2, <1>3, <1>6 DEF Judge
<1> QED  BY <1>5, <1>6

LEMMA VerdictAll ==
    ASSUME OnceInv, StepInv, VerdictInv, [Next]_vars  PROVE VerdictInv'
<1>1. CASE ReadWrong
  <2>1. CASE Refuse(LAMBDA h : Fits(Expected, h), "UNEXPECTED_TYPE")
    BY <2>1, VerdictReturn DEF Refuse, Undecided
  <2>2. CASE \E h \in Heads : /\ Unacceptable(Expected, h) # "OK"
                             /\ Return(Unacceptable(Expected, h))
    <3>1. PICK h \in Heads : /\ Unacceptable(Expected, h) # "OK"
                             /\ Return(Unacceptable(Expected, h))
      BY <2>2
    <3>2. Unacceptable(Expected, h) \in Undecided
      BY <3>1 DEF Unacceptable, Undecided
    <3> QED  BY <3>1, <3>2, VerdictReturn
  <2> QED  BY <1>1, <2>1, <2>2 DEF ReadWrong
<1>2. CASE Again
  <2>1. /\ frames' = <<>> /\ request' = Fresh /\ status' = "START"
        /\ said' = Silence
    BY <1>2 DEF Again
  <2>2. Remembered' /\ said'.entry = {}
    BY <2>1 DEF Remembered, Fresh, Silence
  <2>3. request' \in [es256 : BOOLEAN, unsupported_option : BOOLEAN]
    BY <2>1 DEF Fresh
  <2> QED  BY <2>1, <2>2, <2>3 DEF VerdictInv
<1>3. CASE UNCHANGED vars
  <2>1. UNCHANGED <<cmd, frames, request, said, owed, status>>
    BY <1>3 DEF vars
  <2>2. Accounted' = Accounted
    BY <2>1 DEF Accounted, Awaited, Tracked, Known
  <2>3. VerdictRight' <=> VerdictRight
    BY <2>1 DEF VerdictRight, Required, Inner
  <2> QED  BY <2>1, <2>2, <2>3 DEF VerdictInv, Remembered, Inner
<1> QED
  BY <1>1, <1>2, <1>3, VerdictOpen, VerdictKey, VerdictContainer,
     VerdictData, VerdictSkip, VerdictItem, VerdictEnd, VerdictJudge DEF Next

(* What read_request returns is right of the whole message.                 *)
THEOREM VerdictTheorem == Spec => []VerdictRight
<1>1. Init => VerdictInv
  BY DEF Init, VerdictInv, Remembered, Fresh, Silence
<1>2. OnceInv /\ StepInv /\ VerdictInv /\ [Next]_vars => VerdictInv'
  BY VerdictAll
<1>3. VerdictInv => VerdictRight
  BY DEF VerdictInv, VerdictRight
<1> QED  BY <1>1, <1>2, <1>3, OnceAlways, StepAlways, PTL DEF Spec
=============================================================================
