--------------------------- MODULE CtapHid_proofs ---------------------------
(***************************************************************************)
(* Proofs about CtapHid: whatever tasks, hosts and bus do, the core they   *)
(* share only takes steps of its own specification, so that what is proved *)
(* of the core holds in the transport; messages do not mix on the bus; a   *)
(* claim names the request in processing; and hosts are served as          *)
(* RequestService says.                                                    *)
(*                                                                         *)
(* The invariant says who holds the core mutex at which point (LockOK),    *)
(* what each task may assume of the message it sends while it holds it     *)
(* (ReplyOK, AnswerOK, BusOK), and what a claim says (ClaimCurrent).       *)
(***************************************************************************)
EXTENDS CtapHid, CtapHidCore_proofs, SequenceTheorems

\* The points of a task at which it holds the core mutex.
Point(place) ==
    IF place \in {"emit", "check", "put"} THEN "sending"
    ELSE IF place = "sent" THEN "sent"
    ELSE IF place \in {"admit", "feed", "claim"} THEN "holding" ELSE "free"
TransportAt == Point(pc.transport)
ConsumerAt  == Point(pc.consumer)
LockOK == /\ mutex = "transport" <=> TransportAt # "free"
          /\ mutex = "consumer" <=> ConsumerAt # "free"

\* The report in hand is one a host has sent.
ReportOK == pc.transport \in {"taken", "lock", "admit", "feed"}
                => got.packet \in HostReport

\* The transport task's reply ends a transaction only if that is the PING it
\* echoes; without a reply there is none to end.
ReplyOK ==
    IF TransportAt \in {"sending", "sent"}
    THEN /\ TransportAt = "sending" => tx.transport.sent < tx.transport.total
         /\ tx.transport.generation # 0 =>
               tx.transport.cid \in Cid /\ core.active_command = "PING"
    ELSE tx.transport = NoTx

\* The consumer's message is for the transaction in processing.
AnswerOK ==
    IF ConsumerAt \in {"sending", "sent"}
    THEN /\ tx.consumer.command \in {"KEEPALIVE", "CANCELLED", "CBOR"}
         /\ tx.consumer.total = IF tx.consumer.command = "CBOR"
                                THEN ResponseReports ELSE 1
         /\ ConsumerAt = "sending" => tx.consumer.sent < tx.consumer.total
         /\ Current(core, tx.consumer.cid, tx.consumer.generation)
    ELSE tx.consumer = NoTx

\* Whose message has begun has put the last report on the bus.
BusOK == /\ tx.transport.sent > 0 => last.task = "transport"
         /\ tx.consumer.sent > 0 => last.task = "consumer"

HidInv == /\ IInv /\ TasksTypeOK /\ LockOK /\ ReportOK
          /\ ReplyOK /\ AnswerOK /\ BusOK /\ ClaimCurrent
-----------------------------------------------------------------------------
(* Values and their types. *)

\* The empty values have their types.
LEMMA EmptyFact ==
    /\ NoTx \in TxType /\ NoClaim \in ClaimType /\ GotNone \in GotType
    /\ 0 \in UsbGen /\ 0 \in Gen /\ NoTx.sent = 0 /\ NoTx.generation = 0
    /\ NoClaim.valid = FALSE
<1>1. 0 \in UsbGen /\ 0 \in Gen /\ 0 \in 0 .. ResponseReports
  BY CoreAssumption, TransportAssumption DEF UsbGen, Gen
<1> QED
  BY <1>1 DEF NoTx, TxType, NoClaim, ClaimType, GotNone, GotType, AnyCid, Command

\* A transaction in processing is of an allocated channel.
LEMMA CurrentFact ==
    ASSUME NEW c, CoreOK(c), NEW cid, NEW gen, Current(c, cid, gen)
    PROVE  cid \in Cid /\ gen \in Gen /\ c.phase = "PROCESSING"
<1>1. PICK s \in Slot : Holds(c, s, cid) /\ c.channels[s].generation = gen
  BY DEF Current
<1> QED
  BY <1>1 DEF CoreOK, Unique, Holds, CoreType, Channel, Current
-----------------------------------------------------------------------------
(* Every step of the transport is a step of the core, or none. *)

\* The report fed, the transaction finished and the message taken are ones
\* the core's specification has.
LEMMA CoreStep == HidInv /\ [HidNext]_vars => [Next]_coreVars
<1> SUFFICES ASSUME HidInv, [HidNext]_vars PROVE [Next]_coreVars
  OBVIOUS
<1> USE DEF NoCoreStep
<1>1. CASE Attached \/ Detached \/ Suspended \/ Resumed
           \/ \E p \in HostReport : SetReport(p)
  BY <1>1 DEF Attached, Detached, Suspended, Resumed, SetReport, Boundary, UsbStep
<1>2. ASSUME NEW t \in Task, Send(t) PROVE [Next]_coreVars
  BY <1>2 DEF Send, Emit, Check, Put, PutWait, PutTimeout, SendStep
<1>3. CASE Transport
  <2>1. CASE NoResetRequested \/ ReadGeneration \/ TakeReport \/ RecheckReport
             \/ TakeNothing \/ LockForReport
             \/ WakeThen("wake_sync", "sync") \/ WakeThen("wake_take", "take")
             \/ WakeThen("wake_reset", "reset")
    BY <2>1 DEF NoResetRequested, ReadGeneration, TakeReport, RecheckReport,
                TakeNothing, LockForReport, WakeThen
  <2>2. CASE ProcessReset \/ Sync \/ Admit
    BY <2>2 DEF ProcessReset, Sync, Admit, ResetCore, Next
  <2>3. CASE CleanUp
    BY <2>3 DEF CleanUp, Next
  <2>4. CASE FeedReport
    <3>1. Step(Feed(got.packet), got.packet.cid)
      BY <2>4 DEF FeedReport
    <3>2. CASE got.packet \in InitialPacket /\ FeedInitial(got.packet)
      BY <3>1, <3>2 DEF Step, Next
    <3>3. CASE got.packet \in Continuation /\ FeedContinuation(got.packet)
      BY <3>1, <3>3 DEF Step, Next
    <3> QED
      BY <3>1, <3>2, <3>3 DEF Step, Feed
  <2>5. CASE Replied
    <3>1. CASE Finishes
      <4>1. tx.transport.cid \in Cid /\ tx.transport.generation \in Gen
        BY <2>5, <3>1 DEF Replied, Finishes, HidInv, ReplyOK, TransportAt, Point,
                          TasksTypeOK, TxType
      <4>2. Step(FinishResponse(tx.transport.cid, tx.transport.generation),
                 NoReport)
        BY <2>5, <3>1 DEF Replied
      <4> QED
        BY <4>1, <4>2 DEF Next
    <3> QED
      BY <2>5, <3>1 DEF Replied
  <2> QED
    BY <1>2, <1>3, <2>1, <2>2, <2>3, <2>4, <2>5 DEF Transport, Task
<1>4. CASE Consumer
  <2>1. CASE TakeAllowed \/ Woken \/ WaitOver \/ Drain \/ Work("keepalive")
             \/ Keepalive \/ KeepaliveSent \/ Work("respond") \/ Respond
    BY <2>1 DEF TakeAllowed, Woken, WaitOver, Drain, Work, Keepalive,
                KeepaliveSent, Respond
  <2>2. CASE Claim
    BY <2>2 DEF Claim, ResetCore, Next
  <2>3. CASE Responded
    <3>1. Current(core, tx.consumer.cid, tx.consumer.generation)
      BY <2>3 DEF Responded, HidInv, AnswerOK, ConsumerAt, Point
    <3>2. tx.consumer.cid \in Cid /\ tx.consumer.generation \in Gen
      BY <3>1, IInvFact, CurrentFact DEF HidInv
    <3>3. Step(FinishResponse(tx.consumer.cid, tx.consumer.generation), NoReport)
      BY <2>3 DEF Responded
    <3> QED
      BY <3>2, <3>3 DEF Next
  <2> QED
    BY <1>2, <1>4, <2>1, <2>2, <2>3 DEF Consumer, Task
<1>5. CASE Resetter
  BY <1>5 DEF Resetter, PublishReset, ResetAll, ResetCore, Next
<1>6. CASE (\E t \in Task : LockTimeout(t)) \/ Passing
  BY <1>6 DEF LockTimeout, Passing, Next
<1>7. CASE UNCHANGED vars
  BY <1>7 DEF vars
<1> QED
  BY <1>1, <1>3, <1>4, <1>5, <1>6, <1>7 DEF HidNext
-----------------------------------------------------------------------------
(* Steps that begin and end no message. *)

\* Neither task passes one of the points the invariant speaks of.
SamePlaces == TransportAt' = TransportAt /\ ConsumerAt' = ConsumerAt
Apart == /\ TransportAt \notin {"sending", "sent"}
         /\ ConsumerAt \notin {"sending", "sent"}

\* Where nothing is sent, the core may change.
LEMMA FrameOK ==
    ASSUME HidInv, SamePlaces, UNCHANGED <<tx, last, mutex>>,
           core' = core \/ Apart
    PROVE  LockOK' /\ ReplyOK' /\ AnswerOK' /\ BusOK'
<1>1. LockOK'
  BY DEF HidInv, LockOK, SamePlaces
<1>2. BusOK'
  BY DEF HidInv, BusOK
<1>3. ReplyOK' /\ AnswerOK'
  <2>1. CASE core' = core
    BY <2>1 DEF HidInv, SamePlaces, ReplyOK, AnswerOK, Current, Holds
  <2>2. CASE Apart
    BY <2>2 DEF HidInv, SamePlaces, Apart, ReplyOK, AnswerOK
  <2> QED
    BY <2>1, <2>2
<1> QED
  BY <1>1, <1>2, <1>3

\* A claim that is given up, or a core that is left alone, keeps it current.
LEMMA ClaimKept ==
    ASSUME HidInv,
           \/ hid'.claim = NoClaim
           \/ core' = core /\ hid'.claim = hid.claim
    PROVE  ClaimCurrent'
  BY EmptyFact DEF HidInv, ClaimCurrent, Current, Holds

\* What every step has to show beside CoreStep.
Kept == /\ TasksTypeOK' /\ LockOK' /\ ReportOK'
        /\ ReplyOK' /\ AnswerOK' /\ BusOK' /\ ClaimCurrent'

\* A step of this kind keeps the invariant if it keeps the types.
LEMMA QuietOK ==
    ASSUME HidInv, TasksTypeOK', ReportOK', SamePlaces,
           UNCHANGED <<tx, last, mutex>>,
           core' = core \/ Apart,
           \/ hid'.claim = NoClaim
           \/ core' = core /\ hid'.claim = hid.claim
    PROVE  Kept
  BY FrameOK, ClaimKept DEF Kept
-----------------------------------------------------------------------------
(* USB events. *)

\* Events and reports change nothing but what p4_usb.c keeps.
LEMMA UsbOK ==
    ASSUME HidInv,
           \/ Attached \/ Detached \/ Suspended \/ Resumed
           \/ \E p \in HostReport : SetReport(p)
    PROVE  Kept
<1>1. \E u : UsbStep(u)
  BY DEF Attached, Detached, Suspended, Resumed, SetReport, Boundary
<1>2. usb' \in UsbType /\ Len(usb'.queue) <= RxDepth
  <2>0. usb \in UsbType /\ Len(usb.queue) <= RxDepth /\ <<>> \in Seq(HostReport)
        /\ Len(<<>>) = 0
    BY DEF HidInv, TasksTypeOK
  <2>1. ASSUME NEW m \in BOOLEAN, NEW r \in BOOLEAN, Boundary(m, r)
        PROVE  usb' \in UsbType /\ Len(usb'.queue) <= RxDepth
    <3>1. usb.gen + 1 \in UsbGen
      BY <2>0, <2>1, TransportAssumption DEF Boundary, UsbType, UsbGen
    <3>2. usb' = [mounted |-> m, ready |-> r, gen |-> usb.gen + 1, queue |-> <<>>]
      BY <2>1 DEF Boundary, UsbStep
    <3> QED
      BY <2>0, <3>1, <3>2, TransportAssumption DEF UsbType
  <2>2. CASE Attached \/ Detached \/ Suspended
    BY <2>0, <2>1, <2>2 DEF Attached, Detached, Suspended, UsbType
  <2>3. CASE Resumed
    BY <2>0, <2>3 DEF Resumed, UsbStep, UsbType
  <2>4. ASSUME NEW p \in HostReport, SetReport(p)
        PROVE  usb' \in UsbType /\ Len(usb'.queue) <= RxDepth
    <3>1. usb' = [usb EXCEPT !.queue = Append(usb.queue, p)]
          /\ Len(usb.queue) < RxDepth
      BY <2>4 DEF SetReport, UsbStep
    <3>2. usb.queue \in Seq(HostReport)
      BY <2>0 DEF UsbType
    <3>3. /\ Append(usb.queue, p) \in Seq(HostReport)
          /\ Len(Append(usb.queue, p)) = Len(usb.queue) + 1
          /\ Len(usb.queue) \in Nat
      BY <3>2
    <3>4. usb' \in UsbType /\ usb'.queue = Append(usb.queue, p)
      BY <2>0, <3>1, <3>3 DEF UsbType
    <3> QED
      BY <3>1, <3>3, <3>4, TransportAssumption
  <2> QED
    BY <2>2, <2>3, <2>4
<1>3. /\ core' = core
      /\ UNCHANGED <<hid, mutex, wake, pc, got, work, tx, last>>
  BY <1>1 DEF UsbStep, NoCoreStep, coreVars
<1>4. TasksTypeOK' /\ ReportOK'
  BY <1>2, <1>3 DEF HidInv, TasksTypeOK, ReportOK
<1>5. SamePlaces
  BY <1>3 DEF SamePlaces, TransportAt, ConsumerAt
<1> QED
  BY <1>3, <1>4, <1>5, QuietOK
-----------------------------------------------------------------------------
(* The transport task. *)

\* Where the mutex is held.
LEMMA PointFact ==
    /\ \A place \in {"emit", "check", "put"} : Point(place) = "sending"
    /\ \A place \in {"admit", "feed", "claim"} : Point(place) = "holding"
    /\ Point("sent") = "sent"
    /\ \A place \in {"reset", "sync", "sync_lock", "take", "taken", "cleanup",
                     "lock", "wake_sync", "wake_take", "wake_reset", "wait",
                     "drain", "work", "keepalive", "respond"} :
          Point(place) = "free"
  BY DEF Point

\* Going somewhere changes one component of pc.
LEMMA GotoFact ==
    ASSUME HidInv, NEW to
    PROVE  /\ Goto("transport", to) =>
                 /\ pc'.transport = to /\ pc'.consumer = pc.consumer
                 /\ pc'.resetter = pc.resetter
                 /\ ConsumerAt' = ConsumerAt /\ TransportAt' = Point(to)
                 /\ Point(to) = Point(pc.transport) => SamePlaces
                 /\ to \in TransportPlace => pc' \in PcType
           /\ Goto("consumer", to) =>
                 /\ pc'.consumer = to /\ pc'.transport = pc.transport
                 /\ pc'.resetter = pc.resetter
                 /\ TransportAt' = TransportAt /\ ConsumerAt' = Point(to)
                 /\ Point(to) = Point(pc.consumer) => SamePlaces
                 /\ to \in ConsumerPlace => pc' \in PcType
           /\ Goto("resetter", to) =>
                 /\ pc'.consumer = pc.consumer /\ pc'.transport = pc.transport
                 /\ SamePlaces
                 /\ to \in {"idle", "lock"} => pc' \in PcType
  BY DEF Goto, HidInv, TasksTypeOK, PcType, SamePlaces, TransportAt, ConsumerAt

\* What a reset of the core leaves of the statics has their type.
LEMMA ForgetFact ==
    ASSUME NEW h \in HidType
    PROVE  /\ Forget(h) \in HidType /\ Forget(h).claim = NoClaim
           /\ Forget(h).message_gen = 0 /\ Forget(h).seen_gen = h.seen_gen
           /\ Forget(h).reset_requested = h.reset_requested
  BY EmptyFact DEF Forget, HidType

\* What a drop leaves of the USB state has its type.
LEMMA DroppedFact ==
    ASSUME NEW u \in UsbType
    PROVE  Dropped(u) \in UsbType /\ Len(Dropped(u).queue) <= RxDepth
<1>1. <<>> \in Seq(HostReport) /\ Len(<<>>) = 0
  OBVIOUS
<1>2. Dropped(u) \in UsbType /\ Dropped(u).queue = <<>>
  BY <1>1 DEF Dropped, UsbType
<1> QED
  BY <1>1, <1>2, TransportAssumption

\* The steps between two messages.
LEMMA TransportQuiet ==
    ASSUME HidInv,
           \/ NoResetRequested \/ ProcessReset \/ ReadGeneration \/ Sync
           \/ TakeReport \/ RecheckReport \/ TakeNothing
           \/ WakeThen("wake_sync", "sync") \/ WakeThen("wake_take", "take")
           \/ WakeThen("wake_reset", "reset")
    PROVE  Kept
<1>0. /\ TasksTypeOK /\ ReportOK /\ LockOK
      /\ pc \in PcType /\ got \in GotType /\ usb \in UsbType /\ hid \in HidType
  BY DEF HidInv, TasksTypeOK
<1> USE DEF NoCoreStep, coreVars, Locked
<1>1. CASE NoResetRequested
  <2>1. TasksTypeOK' /\ ReportOK'
    BY <1>0, <1>1, GotoFact DEF NoResetRequested, TasksTypeOK, ReportOK, TransportPlace
  <2>2. SamePlaces
    BY <1>0, <1>1, GotoFact, PointFact DEF NoResetRequested
  <2> QED
    BY <1>1, <2>1, <2>2, QuietOK DEF NoResetRequested
<1>2. CASE ProcessReset
  <2>1. hid' \in HidType /\ hid'.claim = NoClaim
    BY <1>0, <1>2, ForgetFact DEF ProcessReset, HidType
  <2>2. TasksTypeOK' /\ ReportOK'
    BY <1>0, <1>2, <2>1, GotoFact, DroppedFact
    DEF ProcessReset, TasksTypeOK, ReportOK, TransportPlace
  <2>3. SamePlaces /\ Apart
    BY <1>0, <1>2, GotoFact, PointFact
    DEF ProcessReset, TransportAt, Apart, LockOK
  <2> QED
    BY <1>2, <2>1, <2>2, <2>3, QuietOK DEF ProcessReset
<1>3. CASE ReadGeneration
  <2>1. got' \in GotType
    BY <1>0, <1>3 DEF ReadGeneration, GotType, UsbType
  <2>2. TasksTypeOK' /\ ReportOK'
    BY <1>0, <1>3, <2>1, GotoFact DEF ReadGeneration, TasksTypeOK, ReportOK, TransportPlace
  <2>3. SamePlaces
    BY <1>0, <1>3, GotoFact, PointFact DEF ReadGeneration
  <2> QED
    BY <1>3, <2>2, <2>3, QuietOK DEF ReadGeneration
<1>4. CASE Sync
  <2>1. /\ hid' \in HidType
        /\ \/ hid'.claim = NoClaim
           \/ core' = core /\ hid'.claim = hid.claim
    BY <1>0, <1>4, ForgetFact DEF Sync, HidType, GotType
  <2>2. got' = GotNone /\ \/ Goto("transport", "take")
                          \/ Goto("transport", "wake_take")
    BY <1>4 DEF Sync
  <2>3. TasksTypeOK' /\ ReportOK'
    BY <1>0, <1>4, <2>1, <2>2, GotoFact, EmptyFact
    DEF Sync, TasksTypeOK, ReportOK, TransportPlace
  <2>4. SamePlaces /\ Apart
    BY <1>0, <1>4, <2>2, GotoFact, PointFact DEF Sync, TransportAt, Apart, LockOK
  <2> QED
    BY <1>4, <2>1, <2>3, <2>4, QuietOK DEF Sync
<1>5. CASE TakeReport
  <2>0. usb.queue \in Seq(HostReport) /\ usb.queue # <<>>
        /\ Len(usb.queue) <= RxDepth
    BY <1>0, <1>5 DEF TakeReport, UsbType, TasksTypeOK
  <2>1. /\ Head(usb.queue) \in HostReport /\ Tail(usb.queue) \in Seq(HostReport)
        /\ Len(Tail(usb.queue)) <= RxDepth
    <3>1. PICK q \in Seq(HostReport) : q = usb.queue
      BY <2>0
    <3>2. q # <<>> /\ Len(q) <= RxDepth
      BY <2>0, <3>1
    <3>3. Len(q) \in Nat
      BY LenProperties, Zenon
    <3>4. /\ Head(q) \in HostReport /\ Tail(q) \in Seq(HostReport)
          /\ Len(Tail(q)) = Len(q) - 1
      BY <3>2, HeadTailProperties, Zenon
    <3>5. Len(Tail(q)) <= RxDepth
      <4>1. \A n, d \in Nat : n <= d => n - 1 <= d
        OBVIOUS
      <4>2. RxDepth \in Nat
        BY TransportAssumption
      <4> QED
        BY <3>2, <3>3, <3>4, <4>1, <4>2, Zenon
    <3> QED
      BY <3>1, <3>4, <3>5
  <2>2. /\ got' \in GotType /\ got'.packet \in HostReport
        /\ usb' \in UsbType /\ Len(usb'.queue) <= RxDepth
    BY <1>0, <1>5, <2>1 DEF TakeReport, GotType, UsbType
  <2>3. TasksTypeOK' /\ ReportOK'
    BY <1>0, <1>5, <2>2, GotoFact DEF TakeReport, TasksTypeOK, ReportOK, TransportPlace
  <2>4. SamePlaces
    BY <1>0, <1>5, GotoFact, PointFact DEF TakeReport
  <2> QED
    BY <1>5, <2>3, <2>4, QuietOK DEF TakeReport
<1>6. CASE RecheckReport
  <2>1. TasksTypeOK' /\ ReportOK'
    <3>0. pc.transport = "taken"
          /\ UNCHANGED <<usb, hid, mutex, wake, work, tx, last>>
      BY <1>6 DEF RecheckReport
    <3>1. CASE Goto("transport", "lock") /\ UNCHANGED got
      BY <1>0, <3>0, <3>1, GotoFact DEF TasksTypeOK, ReportOK, TransportPlace
    <3>2. CASE Goto("transport", "reset") /\ got' = GotNone
      BY <1>0, <3>0, <3>2, GotoFact, EmptyFact
      DEF TasksTypeOK, ReportOK, TransportPlace
    <3> QED
      BY <1>6, <3>1, <3>2 DEF RecheckReport
  <2>2. SamePlaces
    BY <1>0, <1>6, GotoFact, PointFact DEF RecheckReport
  <2> QED
    BY <1>6, <2>1, <2>2, QuietOK DEF RecheckReport
<1>7. CASE TakeNothing
  <2>1. Goto("transport", "cleanup") \/ Goto("transport", "reset")
    BY <1>7 DEF TakeNothing
  <2>2. TasksTypeOK' /\ ReportOK'
    BY <1>0, <1>7, <2>1, GotoFact DEF TakeNothing, TasksTypeOK, ReportOK, TransportPlace
  <2>3. SamePlaces
    BY <1>0, <1>7, <2>1, GotoFact, PointFact DEF TakeNothing
  <2> QED
    BY <1>7, <2>2, <2>3, QuietOK DEF TakeNothing
<1>8. ASSUME NEW from \in {"wake_sync", "wake_take", "wake_reset"},
             NEW to \in {"sync", "take", "reset"}, WakeThen(from, to)
      PROVE  Kept
  <2>1. TasksTypeOK' /\ ReportOK'
    BY <1>0, <1>8, GotoFact DEF WakeThen, TasksTypeOK, ReportOK, TransportPlace
  <2>2. SamePlaces
    BY <1>0, <1>8, GotoFact, PointFact DEF WakeThen
  <2> QED
    BY <1>8, <2>1, <2>2, QuietOK DEF WakeThen
<1> QED
  BY <1>1, <1>2, <1>3, <1>4, <1>5, <1>6, <1>7, <1>8

\* The cleanup touches no request in processing.
LEMMA CleanUpOK == HidInv /\ CleanUp => Kept
<1> SUFFICES ASSUME HidInv, CleanUp PROVE Kept
  OBVIOUS
<1>0. TasksTypeOK /\ LockOK /\ ClaimCurrent
  BY DEF HidInv
<1>1. /\ core' = Cleanup(core, now) /\ mutex = "free" /\ mutex' = "free"
      /\ pc.transport = "cleanup" /\ Goto("transport", "reset")
      /\ UNCHANGED <<usb, hid, wake, got, work, tx, last>>
  BY DEF CleanUp, Locked, Step, PeriodicCleanup
<1>2. TasksTypeOK' /\ ReportOK'
  BY <1>0, <1>1, GotoFact DEF TasksTypeOK, ReportOK, TransportPlace
<1>3. SamePlaces /\ Apart
  BY <1>0, <1>1, GotoFact, PointFact DEF TransportAt, LockOK, Apart
<1>4. ClaimCurrent'
  <2>1. core.phase = "PROCESSING" => core' = core
    BY <1>1 DEF Cleanup
  <2> QED
    BY <1>0, <1>1, <2>1 DEF ClaimCurrent, Current, Holds
<1> QED
  BY <1>1, <1>2, <1>3, <1>4, FrameOK DEF Kept

\* Taking the mutex for a report.
LEMMA LockForReportOK == HidInv /\ LockForReport => Kept
<1> SUFFICES ASSUME HidInv, LockForReport PROVE Kept
  OBVIOUS
<1>0. /\ TasksTypeOK /\ ReportOK /\ LockOK /\ ReplyOK /\ AnswerOK /\ BusOK
      /\ usb \in UsbType /\ got \in GotType
  BY DEF HidInv, TasksTypeOK
<1>1. /\ mutex = "free" /\ mutex' = "transport" /\ UNCHANGED coreVars
      /\ pc.transport = "lock" /\ Goto("transport", "admit")
      /\ got' = [got EXCEPT !.current = usb.gen]
      /\ UNCHANGED <<usb, hid, wake, work, tx, last>>
  BY DEF LockForReport, Lock, NoCoreStep
<1>2. got' \in GotType /\ got'.packet = got.packet
  BY <1>0, <1>1 DEF GotType, UsbType
<1>3. TasksTypeOK' /\ ReportOK'
  BY <1>0, <1>1, <1>2, GotoFact DEF TasksTypeOK, ReportOK, TransportPlace, Task
<1>4. TransportAt = "free" /\ TransportAt' = "holding" /\ ConsumerAt' = ConsumerAt
  BY <1>1, GotoFact, PointFact DEF TransportAt
<1>5. LockOK'
  BY <1>0, <1>1, <1>4 DEF LockOK
<1>6. ReplyOK' /\ AnswerOK' /\ BusOK'
  BY <1>0, <1>1, <1>4 DEF ReplyOK, AnswerOK, BusOK, coreVars, Current, Holds
<1> QED
  BY <1>1, <1>3, <1>5, <1>6, ClaimKept DEF Kept, coreVars

\* The report is admitted, or dropped with the mutex given back; the core may
\* be reset on the way.
LEMMA AdmitOK == HidInv /\ Admit => Kept
<1> SUFFICES ASSUME HidInv, Admit PROVE Kept
  OBVIOUS
<1>0. /\ TasksTypeOK /\ ReportOK /\ LockOK /\ ReplyOK /\ AnswerOK /\ BusOK
      /\ usb \in UsbType /\ got \in GotType /\ hid \in HidType
      /\ pc.transport = "admit"
  BY DEF HidInv, TasksTypeOK, Admit
<1>1. UNCHANGED <<wake, work, tx, last>>
  BY DEF Admit
<1>2. /\ hid' \in HidType
      /\ \/ hid'.claim = NoClaim
         \/ core' = core /\ hid'.claim = hid.claim
  <2> DEFINE seen == [hid EXCEPT !.seen_gen = got.current,
                                 !.reset_requested = FALSE]
  <2>1. seen \in HidType /\ seen.claim = hid.claim
    BY <1>0 DEF HidType, GotType
  <2>2. hid' = Forget(seen) \/ (hid' = seen /\ core' = core)
    BY DEF Admit, NoCoreStep, coreVars
  <2> HIDE DEF seen
  <2> QED
    BY <2>1, <2>2, ForgetFact
<1>3. usb' \in UsbType /\ Len(usb'.queue) <= RxDepth
  BY <1>0, DroppedFact DEF Admit, TasksTypeOK
<1>4. TransportAt = "holding" /\ mutex = "transport" /\ ConsumerAt = "free"
  BY <1>0, PointFact DEF TransportAt, LockOK
<1>5. CASE /\ Goto("transport", "feed") /\ UNCHANGED mutex
           /\ got' = [got EXCEPT !.current = 0]
  <2>1. got' \in GotType /\ got'.packet = got.packet
    BY <1>0, <1>5, EmptyFact DEF GotType
  <2>2. TasksTypeOK' /\ ReportOK'
    BY <1>0, <1>1, <1>2, <1>3, <1>5, <2>1, GotoFact
    DEF TasksTypeOK, ReportOK, TransportPlace
  <2>3. SamePlaces /\ Apart
    BY <1>0, <1>4, <1>5, GotoFact, PointFact DEF Apart
  <2> QED
    BY <1>1, <1>2, <1>5, <2>2, <2>3, QuietOK
<1>6. CASE Goto("transport", "wake_reset") /\ Unlock /\ got' = GotNone
  <2>1. TasksTypeOK' /\ ReportOK'
    BY <1>0, <1>1, <1>2, <1>3, <1>6, GotoFact, EmptyFact
    DEF TasksTypeOK, ReportOK, TransportPlace, Unlock
  <2>2. TransportAt' = "free" /\ ConsumerAt' = "free" /\ mutex' = "free"
    BY <1>4, <1>6, GotoFact, PointFact DEF Unlock
  <2>3. LockOK'
    BY <2>2 DEF LockOK
  <2>4. ReplyOK' /\ AnswerOK' /\ BusOK'
    BY <1>0, <1>1, <1>4, <2>2 DEF ReplyOK, AnswerOK, BusOK
  <2> QED
    BY <1>2, <2>1, <2>3, <2>4, ClaimKept DEF Kept
<1> QED
  BY <1>5, <1>6 DEF Admit

\* What feeding a report brings about: see Outcome of CtapHidCore_proofs.
LEMMA FeedFact ==
    ASSUME HidInv, FeedReport
    PROVE  /\ Outcome(core) /\ CoreOK(core) /\ CoreOK(core')
           /\ action' \in ActionType
           /\ action'.kind = "SEND" /\ action'.generation # 0 =>
                 action'.cid \in Cid /\ core'.active_command = "PING"
           /\ action'.kind = "SEND" => Reply \in TxType /\ Reply.total > 0
<1>1. Feed(got.packet)
  BY DEF FeedReport, Step
<1>2. /\ Outcome(core) /\ CoreOK(core) /\ CoreOK(core')
      /\ action' \in ActionType
  BY <1>1, FeedOK, IInvFact DEF Feed, HidInv
<1>3. ASSUME action'.kind = "SEND"
      PROVE  /\ action'.command \in Request \cup {"INIT", "ERROR"}
             /\ action'.generation # 0 =>
                   action'.cid \in Cid /\ core'.active_command = "PING"
  BY <1>2, <1>3 DEF Outcome, Minor, Completed, Request
<1>4. ASSUME action'.kind = "SEND"
      PROVE  Reply \in TxType /\ Reply.total > 0
  <2>1. /\ ResponseReports \in Nat \ {0} /\ got.usb_gen \in UsbGen
    BY TransportAssumption DEF HidInv, TasksTypeOK, GotType
  <2>2. Reports(action'.command) \in 1 .. ResponseReports
    BY <2>1 DEF Reports
  <2> QED
    BY <1>2, <1>3, <1>4, <2>1, <2>2 DEF Reply, TxType, ActionType, Command
<1> QED
  BY <1>2, <1>3, <1>4

\* Feeding a report: the claim survives only with its transaction, and what
\* is replied to a complete PING ends that PING.
LEMMA FeedReportOK == HidInv /\ FeedReport => Kept
<1> SUFFICES ASSUME HidInv, FeedReport PROVE Kept
  OBVIOUS
<1>0. /\ TasksTypeOK /\ LockOK /\ ReplyOK /\ AnswerOK /\ BusOK /\ ClaimCurrent
      /\ got \in GotType /\ hid \in HidType /\ tx \in [transport : TxType, consumer : TxType]
      /\ pc.transport = "feed"
  BY DEF HidInv, TasksTypeOK, FeedReport
<1>1. got' = GotNone /\ UNCHANGED <<usb, wake, work, last>>
  BY DEF FeedReport
<1>2. hid' = [hid EXCEPT !.claim = KeptClaim(core'), !.message_gen =
                IF action'.kind = "MESSAGE" THEN got.usb_gen
                                            ELSE hid.message_gen]
  BY DEF FeedReport
<1>3. /\ hid' \in HidType /\ hid'.claim = KeptClaim(core')
      /\ KeptClaim(core') \in {hid.claim, NoClaim}
  BY <1>0, <1>2, EmptyFact DEF HidType, GotType, KeptClaim
<1>4. /\ TransportAt = "holding" /\ mutex = "transport" /\ ConsumerAt = "free"
      /\ tx.transport = NoTx /\ tx.consumer = NoTx
  BY <1>0, PointFact DEF TransportAt, LockOK, ReplyOK, AnswerOK
<1>5. ClaimCurrent'
  <2>1. SUFFICES ASSUME hid'.claim.valid
                 PROVE  /\ Current(core', hid'.claim.cid, hid'.claim.generation)
                        /\ core'.active_command = "CBOR"
                        /\ ~ core'.message_ready
    BY DEF ClaimCurrent, Current, Holds
  <2>2. /\ hid'.claim = hid.claim /\ hid.claim.valid
        /\ Current(core', hid.claim.cid, hid.claim.generation)
    BY <1>3, <2>1, EmptyFact DEF KeptClaim, ClaimMatches
  <2>3. /\ core.phase = "PROCESSING" /\ core'.phase = "PROCESSING"
        /\ core.active_command = "CBOR" /\ ~ core.message_ready
    BY <1>0, <2>2 DEF ClaimCurrent, Current
  <2>4. Continues(core, core')
    BY <2>3, FeedFact DEF Outcome
  <2> QED
    BY <2>2, <2>3, <2>4 DEF Continues
<1>6. CASE action'.kind = "SEND" /\ StartSending("transport", Reply)
           /\ UNCHANGED mutex
  <2>1. /\ tx' = [tx EXCEPT !.transport = Reply]
        /\ \/ Goto("transport", "emit")
           \/ Goto("transport", "sent")
    BY <1>6 DEF StartSending
  <2>2. /\ tx'.transport = Reply /\ tx'.consumer = NoTx
        /\ tx' \in [transport : TxType, consumer : TxType]
    BY <1>0, <1>4, <1>6, <2>1, FeedFact
  <2>3. TasksTypeOK' /\ ReportOK'
    BY <1>0, <1>1, <1>3, <1>6, <2>1, <2>2, GotoFact, EmptyFact
    DEF TasksTypeOK, ReportOK, TransportPlace
  <2>4. TransportAt' \in {"sending", "sent"} /\ ConsumerAt' = "free"
    BY <1>4, <2>1, GotoFact, PointFact
  <2>5. LockOK' /\ AnswerOK'
    BY <1>4, <1>6, <2>2, <2>4 DEF LockOK, AnswerOK
  <2>6. /\ Reply.sent = 0 /\ Reply.total > 0
        /\ Reply.generation = action'.generation /\ Reply.cid = action'.cid
    BY <1>6, FeedFact DEF Reply
  <2>7. ReplyOK' /\ BusOK'
    BY <1>6, <2>2, <2>4, <2>6, FeedFact, EmptyFact DEF ReplyOK, BusOK
  <2> QED
    BY <1>5, <2>3, <2>5, <2>7 DEF Kept
<1>7. CASE action'.kind # "SEND" /\ Unlock /\ Goto("transport", AfterFeed)
           /\ UNCHANGED tx
  <2>1. Goto("transport", "wake_reset") \/ Goto("transport", "reset")
    BY <1>7 DEF AfterFeed
  <2>2. TasksTypeOK' /\ ReportOK'
    BY <1>0, <1>1, <1>3, <1>7, <2>1, GotoFact, EmptyFact
    DEF TasksTypeOK, ReportOK, TransportPlace, Unlock
  <2>3. TransportAt' = "free" /\ ConsumerAt' = "free" /\ mutex' = "free"
    BY <1>4, <1>7, <2>1, GotoFact, PointFact DEF Unlock
  <2>4. LockOK' /\ ReplyOK' /\ AnswerOK' /\ BusOK'
    BY <1>0, <1>1, <1>4, <1>7, <2>3 DEF LockOK, ReplyOK, AnswerOK, BusOK
  <2> QED
    BY <1>5, <2>2, <2>4 DEF Kept
<1> QED
  BY <1>6, <1>7 DEF FeedReport

\* One report of a message, or the end of it.
LEMMA TransportSendOK == HidInv /\ Send("transport") => Kept
<1> SUFFICES ASSUME HidInv, Send("transport") PROVE Kept
  OBVIOUS
<1>0. /\ TasksTypeOK /\ LockOK /\ ReplyOK /\ AnswerOK /\ BusOK
      /\ tx \in [transport : TxType, consumer : TxType]
  BY DEF HidInv, TasksTypeOK
<1>1. /\ pc.transport \in {"emit", "check", "put"}
      /\ UNCHANGED coreVars
      /\ UNCHANGED <<usb, hid, mutex, wake, got, work>>
  BY DEF Send, Emit, Check, Put, PutWait, PutTimeout, SendStep, NoCoreStep
<1>2. /\ TransportAt = "sending" /\ mutex = "transport" /\ ConsumerAt = "free"
      /\ tx.consumer = NoTx /\ tx.transport.sent < tx.transport.total
      /\ tx.transport.generation # 0 =>
             tx.transport.cid \in Cid /\ core.active_command = "PING"
  BY <1>0, <1>1, PointFact DEF TransportAt, LockOK, ReplyOK, AnswerOK
<1>3. CASE /\ UNCHANGED <<tx, last>>
           /\ \E to \in {"check", "put", "sent"} : Goto("transport", to)
  <2>1. TasksTypeOK' /\ ReportOK'
    BY <1>0, <1>1, <1>3, GotoFact DEF TasksTypeOK, ReportOK, TransportPlace
  <2>2. TransportAt' \in {"sending", "sent"} /\ ConsumerAt' = "free"
    BY <1>2, <1>3, GotoFact, PointFact
  <2>3. LockOK' /\ ReplyOK' /\ AnswerOK' /\ BusOK'
    BY <1>0, <1>1, <1>2, <1>3, <2>2
    DEF LockOK, ReplyOK, AnswerOK, BusOK, coreVars
  <2> QED
    BY <1>1, <2>1, <2>3, ClaimKept DEF Kept, coreVars
<1>4. CASE Put("transport")
  <2>1. /\ tx' = [tx EXCEPT !.transport =
                    [tx.transport EXCEPT !.sent = tx.transport.sent + 1]]
        /\ last' = [task |-> "transport",
                    late |-> usb.gen # tx.transport.usb_gen]
        /\ \/ Goto("transport", "sent")
           \/ /\ Goto("transport", "emit")
              /\ tx.transport.sent + 1 # tx.transport.total
    BY <1>0, <1>4 DEF Put
  <2>2. tx.transport \in TxType /\ tx.transport.sent + 1 \in 0 .. ResponseReports
    BY <1>0, <1>2, TransportAssumption DEF TxType
  <2>3. /\ tx' \in [transport : TxType, consumer : TxType]
        /\ tx'.consumer = NoTx /\ tx'.transport.sent = tx.transport.sent + 1
        /\ tx'.transport.total = tx.transport.total
        /\ tx'.transport.cid = tx.transport.cid
        /\ tx'.transport.generation = tx.transport.generation
    BY <1>0, <1>2, <2>1, <2>2 DEF TxType
  <2>4. last'.task = "transport"
        /\ last' \in [task : Task \cup {NoTask}, late : BOOLEAN]
    BY <2>1 DEF Task
  <2>5. TasksTypeOK' /\ ReportOK'
    BY <1>0, <1>1, <2>1, <2>3, <2>4, GotoFact
    DEF TasksTypeOK, ReportOK, TransportPlace
  <2>6. /\ TransportAt' \in {"sending", "sent"} /\ ConsumerAt' = "free"
        /\ TransportAt' = "sending" =>
               tx.transport.sent + 1 # tx.transport.total
    BY <1>2, <2>1, GotoFact, PointFact
  <2>7. LockOK' /\ AnswerOK'
    BY <1>1, <1>2, <2>3, <2>6 DEF LockOK, AnswerOK
  <2>8. ReplyOK' /\ BusOK'
    BY <1>1, <1>2, <2>2, <2>3, <2>4, <2>6, EmptyFact
    DEF ReplyOK, BusOK, TxType, coreVars
  <2> QED
    BY <1>1, <2>5, <2>7, <2>8, ClaimKept DEF Kept, coreVars
<1> QED
  BY <1>3, <1>4 DEF Send, Emit, Check, PutWait, PutTimeout, SendStep

\* The reply is over: only a PING ends with it, so no claim is touched.
LEMMA RepliedOK == HidInv /\ Replied => Kept
<1> SUFFICES ASSUME HidInv, Replied PROVE Kept
  OBVIOUS
<1>0. /\ TasksTypeOK /\ LockOK /\ ReplyOK /\ AnswerOK /\ BusOK /\ ClaimCurrent
      /\ tx \in [transport : TxType, consumer : TxType]
      /\ pc.transport = "sent"
  BY DEF HidInv, TasksTypeOK, Replied
<1>1. /\ tx' = [tx EXCEPT !.transport = NoTx] /\ mutex' = "free"
      /\ Goto("transport", "reset")
      /\ UNCHANGED <<usb, hid, wake, got, work, last>>
  BY DEF Replied, Unlock
<1>2. /\ TransportAt = "sent" /\ ConsumerAt = "free" /\ tx.consumer = NoTx
      /\ tx.transport.generation # 0 => core.active_command = "PING"
  BY <1>0, PointFact DEF TransportAt, LockOK, ReplyOK, AnswerOK
<1>3. /\ tx' \in [transport : TxType, consumer : TxType]
      /\ tx'.transport = NoTx /\ tx'.consumer = NoTx
  BY <1>0, <1>1, <1>2, EmptyFact
<1>4. TasksTypeOK' /\ ReportOK'
  BY <1>0, <1>1, <1>3, GotoFact DEF TasksTypeOK, ReportOK, TransportPlace
<1>5. TransportAt' = "free" /\ ConsumerAt' = "free"
  BY <1>1, <1>2, GotoFact, PointFact
<1>6. LockOK' /\ ReplyOK' /\ AnswerOK' /\ BusOK'
  BY <1>1, <1>3, <1>5, EmptyFact DEF LockOK, ReplyOK, AnswerOK, BusOK
<1>7. ClaimCurrent'
  <2>1. CASE Finishes
    <3>1. ~ hid'.claim.valid
      BY <1>0, <1>1, <1>2, <2>1 DEF Finishes, ClaimCurrent
    <3> QED
      BY <3>1 DEF ClaimCurrent
  <2>2. CASE ~ Finishes
    BY <1>1, <2>2, ClaimKept DEF Replied, NoCoreStep, coreVars
  <2> QED
    BY <2>1, <2>2
<1> QED
  BY <1>4, <1>6, <1>7 DEF Kept

\* All steps of the transport task.
LEMMA TransportOK == HidInv /\ Transport => Kept
  BY TransportQuiet, CleanUpOK, LockForReportOK, AdmitOK, FeedReportOK,
     TransportSendOK, RepliedOK DEF Transport
-----------------------------------------------------------------------------
(* The consumer. *)

\* The steps between two messages.
LEMMA ConsumerQuiet ==
    ASSUME HidInv,
           \/ Woken \/ WaitOver \/ Drain \/ Work("keepalive") \/ Work("respond")
    PROVE  Kept
<1>0. TasksTypeOK /\ ReportOK
  BY DEF HidInv
<1>1. /\ UNCHANGED coreVars
      /\ UNCHANGED <<usb, hid, mutex, got, work, tx, last>>
      /\ wake' \in BOOLEAN
      /\ \E to \in {"take", "work", "keepalive", "respond"} :
            /\ pc.consumer \in {"wait", "drain", "work"}
            /\ Goto("consumer", to)
  BY <1>0 DEF Woken, WaitOver, Drain, Work, NoCoreStep, TasksTypeOK
<1>2. TasksTypeOK' /\ ReportOK'
  BY <1>0, <1>1, GotoFact DEF TasksTypeOK, ReportOK, ConsumerPlace
<1>3. SamePlaces
  BY <1>1, GotoFact, PointFact
<1> QED
  BY <1>1, <1>2, <1>3, QuietOK DEF coreVars

\* Taking the mutex to look for a message.
LEMMA TakeAllowedOK == HidInv /\ TakeAllowed => Kept
<1> SUFFICES ASSUME HidInv, TakeAllowed PROVE Kept
  OBVIOUS
<1>0. TasksTypeOK /\ ReportOK /\ LockOK /\ ReplyOK /\ AnswerOK /\ BusOK
  BY DEF HidInv
<1>1. /\ mutex = "free" /\ mutex' = "consumer" /\ UNCHANGED coreVars
      /\ pc.consumer = "take" /\ Goto("consumer", "claim")
      /\ UNCHANGED <<usb, hid, wake, got, work, tx, last>>
  BY DEF TakeAllowed, Lock, NoCoreStep
<1>2. TasksTypeOK' /\ ReportOK'
  BY <1>0, <1>1, GotoFact DEF TasksTypeOK, ReportOK, ConsumerPlace, Task
<1>3. /\ ConsumerAt = "free" /\ ConsumerAt' = "holding"
      /\ TransportAt' = TransportAt
  BY <1>1, GotoFact, PointFact DEF ConsumerAt
<1>4. LockOK' /\ ReplyOK' /\ AnswerOK' /\ BusOK'
  BY <1>0, <1>1, <1>3 DEF LockOK, ReplyOK, AnswerOK, BusOK, coreVars
<1> QED
  BY <1>1, <1>2, <1>4, ClaimKept DEF Kept, coreVars

\* The consumer claims the message that waits: it is the request in
\* processing.
LEMMA ClaimOK == HidInv /\ Claim => Kept
<1> SUFFICES ASSUME HidInv, Claim PROVE Kept
  OBVIOUS
<1>0. /\ TasksTypeOK /\ ReportOK /\ LockOK /\ ReplyOK /\ AnswerOK /\ BusOK
      /\ hid \in HidType /\ pc.consumer = "claim" /\ CoreOK(core)
      /\ core \in CoreType /\ Owned(core)
  BY IInvFact DEF HidInv, TasksTypeOK, Claim, CoreOK
<1>1. mutex' = "free" /\ UNCHANGED <<usb, wake, got, tx, last>>
  BY DEF Claim, Unlock
<1>2. /\ ConsumerAt = "holding" /\ mutex = "consumer" /\ TransportAt = "free"
  BY <1>0, PointFact DEF ConsumerAt, LockOK
<1>3. CASE \/ Goto("consumer", "wait") /\ NoCoreStep /\ UNCHANGED <<hid, work>>
           \/ /\ hid' = Forget(hid) /\ Goto("consumer", "take")
              /\ UNCHANGED work
  <2>1. /\ hid' \in HidType
        /\ \/ hid'.claim = NoClaim
           \/ core' = core /\ hid'.claim = hid.claim
    BY <1>0, <1>3, ForgetFact DEF NoCoreStep, coreVars
  <2>2. /\ UNCHANGED work
        /\ \E to \in {"wait", "take"} : Goto("consumer", to)
    BY <1>3
  <2>3. TasksTypeOK' /\ ReportOK'
    BY <1>0, <1>1, <2>1, <2>2, GotoFact DEF TasksTypeOK, ReportOK, ConsumerPlace
  <2>4. ConsumerAt' = "free" /\ TransportAt' = "free"
    BY <1>2, <2>2, GotoFact, PointFact
  <2>5. LockOK' /\ ReplyOK' /\ AnswerOK' /\ BusOK'
    BY <1>0, <1>1, <1>2, <2>4 DEF LockOK, ReplyOK, AnswerOK, BusOK
  <2> QED
    BY <2>1, <2>3, <2>5, ClaimKept DEF Kept
<1>4. CASE /\ Step(TakeMessage, NoReport)
           /\ work' = core.complete.cid
           /\ hid' = [hid EXCEPT
               !.claim = [valid |-> TRUE, cid |-> core.complete.cid,
                          generation |-> core.complete.generation,
                          usb_gen |-> hid.message_gen],
               !.message_gen = 0]
           /\ Goto("consumer", "drain")
  <2>1. core.message_ready /\ core' = Taken(core)
    BY <1>4 DEF Step, TakeMessage
  <2>2. PICK s \in Slot : WaitingMessage(core, s)
    BY <1>0, <2>1 DEF Owned
  <2>3. /\ core.complete.cid = core.active_cid
        /\ core.complete.generation = core.channels[s].generation
        /\ core.complete.cid \in Cid \cup {NullCid}
        /\ core.complete.generation \in Gen
        /\ core.phase = "PROCESSING" /\ core.active_command = "CBOR"
        /\ Holds(core, s, core.active_cid)
    BY <1>0, <2>2 DEF WaitingMessage, CoreType, Message
  <2>4. /\ hid' \in HidType /\ hid'.claim.valid
        /\ hid'.claim.cid = core.complete.cid
        /\ hid'.claim.generation = core.complete.generation
    BY <1>0, <1>4, <2>3, EmptyFact DEF HidType, ClaimType
  <2>5. /\ core'.phase = core.phase /\ core'.active_cid = core.active_cid
        /\ core'.active_command = core.active_command
        /\ core'.channels = core.channels /\ core'.message_ready = FALSE
    BY <1>0, <2>1 DEF Taken, CoreType
  <2>6. ClaimCurrent'
    <3>1. Holds(core, s, hid'.claim.cid)
          /\ core'.channels[s].generation = hid'.claim.generation
      BY <2>3, <2>4, <2>5
    <3>2. Holds(core', s, hid'.claim.cid)
      BY <2>5, <3>1 DEF Holds
    <3> QED
      BY <2>3, <2>4, <2>5, <3>1, <3>2 DEF ClaimCurrent, Current, Holds
  <2>7. TasksTypeOK' /\ ReportOK'
    BY <1>0, <1>1, <1>4, <2>3, <2>4, GotoFact
    DEF TasksTypeOK, ReportOK, ConsumerPlace
  <2>8. ConsumerAt' = "free" /\ TransportAt' = "free"
    BY <1>2, <1>4, GotoFact, PointFact
  <2>9. LockOK' /\ ReplyOK' /\ AnswerOK' /\ BusOK'
    BY <1>0, <1>1, <1>2, <2>8 DEF LockOK, ReplyOK, AnswerOK, BusOK
  <2> QED
    BY <2>6, <2>7, <2>9 DEF Kept
<1> QED
  BY <1>3, <1>4 DEF Claim

\* A message of the consumer begins: for the claimed request, which is the
\* one in processing.
LEMMA BeginOK ==
    ASSUME HidInv,
           NEW command \in {"KEEPALIVE", "CANCELLED", "CBOR"}, NEW total,
           total = IF command = "CBOR" THEN ResponseReports ELSE 1,
           ClaimMatches(core, work), Lock("consumer"),
           pc.consumer \in {"keepalive", "respond"},
           StartSending("consumer", Answer(command, total)),
           NoCoreStep, UNCHANGED <<usb, hid, wake, got, work, last>>
    PROVE  /\ Kept
           /\ ConsumerAt = "free" /\ ConsumerAt' \in {"sending", "sent"}
           /\ tx'.consumer = Answer(command, total)
<1> DEFINE m == Answer(command, total)
<1>0. /\ TasksTypeOK /\ ReportOK /\ LockOK /\ ReplyOK /\ AnswerOK /\ BusOK
      /\ hid \in HidType /\ tx \in [transport : TxType, consumer : TxType]
      /\ CoreOK(core)
  BY IInvFact DEF HidInv, TasksTypeOK
<1>1. Current(core, work, hid.claim.generation) /\ work \in Cid
  BY <1>0, CurrentFact DEF ClaimMatches
<1>2. /\ m.cid = work /\ m.command = command /\ m.total = total /\ m.sent = 0
      /\ m.generation = hid.claim.generation /\ m \in TxType /\ total > 0
  <2>1. total \in 1 .. ResponseReports /\ 0 \in 0 .. ResponseReports
    BY TransportAssumption
  <2>2. m = [cid |-> work, command |-> command, total |-> total, sent |-> 0,
             usb_gen |-> hid.claim.usb_gen,
             generation |-> hid.claim.generation]
    BY DEF Answer
  <2>3. hid.claim.usb_gen \in UsbGen /\ hid.claim.generation \in Gen
    BY <1>0 DEF HidType, ClaimType
  <2>4. total > 0 /\ total \in 0 .. ResponseReports
    BY <2>1
  <2> HIDE DEF m
  <2>5. m \in TxType
    BY <1>1, <2>1, <2>2, <2>3, <2>4 DEF TxType, AnyCid, Command, Request
  <2> QED
    BY <2>2, <2>4, <2>5
<1> HIDE DEF m
<1>3. /\ tx' = [tx EXCEPT !.consumer = m] /\ Goto("consumer", "emit")
  BY <1>1, <1>2, CoreAssumption DEF StartSending, m
<1>4. /\ mutex = "free" /\ mutex' = "consumer" /\ core' = core
      /\ UNCHANGED <<usb, hid, wake, got, work, last>>
  BY DEF Lock, NoCoreStep, coreVars
<1>5. /\ tx' \in [transport : TxType, consumer : TxType]
      /\ tx'.consumer = m /\ tx'.transport = tx.transport
  BY <1>0, <1>2, <1>3
<1>6. TasksTypeOK' /\ ReportOK'
  BY <1>0, <1>3, <1>4, <1>5, GotoFact DEF TasksTypeOK, ReportOK, ConsumerPlace, Task
<1>7. /\ ConsumerAt = "free" /\ ConsumerAt' = "sending"
      /\ TransportAt = "free" /\ TransportAt' = "free"
  BY <1>0, <1>3, <1>4, GotoFact, PointFact DEF ConsumerAt, LockOK, Task
<1>8. LockOK' /\ ReplyOK' /\ BusOK'
  BY <1>0, <1>2, <1>4, <1>5, <1>7 DEF LockOK, ReplyOK, BusOK
<1>9. AnswerOK'
  BY <1>1, <1>2, <1>4, <1>5, <1>7 DEF AnswerOK, Current, Holds
<1> QED
  BY <1>4, <1>5, <1>6, <1>7, <1>8, <1>9, ClaimKept DEF Kept, m

\* A keepalive or a response that is not sent.
LEMMA NotSentOK ==
    ASSUME HidInv, Locked, NoCoreStep,
           pc.consumer \in {"keepalive", "respond"},
           NEW to \in {"respond", "work", "take"}, Goto("consumer", to),
           work' \in {work, NullCid},
           UNCHANGED <<usb, hid, wake, got, tx, last>>
    PROVE  Kept /\ ConsumerAt = "free" /\ ConsumerAt' = "free"
<1>1. TasksTypeOK' /\ ReportOK'
  BY GotoFact DEF HidInv, TasksTypeOK, ReportOK, ConsumerPlace, Locked
<1>2. SamePlaces /\ ConsumerAt = "free" /\ ConsumerAt' = "free"
  BY GotoFact, PointFact DEF ConsumerAt
<1> QED
  BY <1>1, <1>2, QuietOK DEF Locked, NoCoreStep, coreVars

\* A keepalive or a response begins, or does not.
LEMMA KeepaliveOK == HidInv /\ Keepalive => Kept
<1> SUFFICES ASSUME HidInv, Keepalive PROVE Kept
  OBVIOUS
<1>1. CASE ~ HidCancelled /\ Lock("consumer")
           /\ StartSending("consumer", Answer("KEEPALIVE", 1))
  <2>1. ClaimMatches(core, work)
    BY <1>1 DEF HidCancelled
  <2> QED
    BY <1>1, <2>1, BeginOK DEF Keepalive
<1>2. CASE /\ Locked /\ UNCHANGED tx
           /\ Goto("consumer", IF HidCancelled THEN "respond" ELSE "work")
  BY <1>2, NotSentOK DEF Keepalive
<1> QED
  BY <1>1, <1>2 DEF Keepalive

\* A response begins, or the request is over.
LEMMA RespondOK == HidInv /\ Respond => Kept
<1> SUFFICES ASSUME HidInv, Respond PROVE Kept
  OBVIOUS
<1>1. CASE /\ MayRespond /\ Lock("consumer") /\ UNCHANGED work
           /\ \/ StartSending("consumer", Answer("CANCELLED", 1))
              \/ StartSending("consumer", Answer("CBOR", ResponseReports))
  BY <1>1, BeginOK DEF Respond, MayRespond
<1>2. CASE /\ Locked /\ Goto("consumer", "take") /\ work' = NullCid
           /\ UNCHANGED tx
  BY <1>2, NotSentOK DEF Respond
<1> QED
  BY <1>1, <1>2 DEF Respond

\* One report of the consumer's message, or the end of it.
LEMMA ConsumerSendOK == HidInv /\ Send("consumer") => Kept
<1> SUFFICES ASSUME HidInv, Send("consumer") PROVE Kept
  OBVIOUS
<1>0. /\ TasksTypeOK /\ LockOK /\ ReplyOK /\ AnswerOK /\ BusOK /\ ReportOK
      /\ tx \in [transport : TxType, consumer : TxType]
  BY DEF HidInv, TasksTypeOK
<1>1. /\ pc.consumer \in {"emit", "check", "put"}
      /\ UNCHANGED coreVars
      /\ UNCHANGED <<usb, hid, mutex, wake, got, work>>
  BY DEF Send, Emit, Check, Put, PutWait, PutTimeout, SendStep, NoCoreStep
<1>2. /\ ConsumerAt = "sending" /\ mutex = "consumer" /\ TransportAt = "free"
      /\ tx.transport = NoTx /\ tx.consumer.sent < tx.consumer.total
  BY <1>0, <1>1, PointFact DEF ConsumerAt, LockOK, ReplyOK, AnswerOK
<1>3. CASE /\ UNCHANGED <<tx, last>>
           /\ \E to \in {"check", "put", "sent"} : Goto("consumer", to)
  <2>1. TasksTypeOK' /\ ReportOK'
    BY <1>0, <1>1, <1>3, GotoFact DEF TasksTypeOK, ReportOK, ConsumerPlace
  <2>2. ConsumerAt' \in {"sending", "sent"} /\ TransportAt' = "free"
    BY <1>2, <1>3, GotoFact, PointFact
  <2>3. LockOK' /\ ReplyOK' /\ BusOK'
    BY <1>0, <1>1, <1>2, <1>3, <2>2 DEF LockOK, ReplyOK, BusOK
  <2>4. AnswerOK'
    BY <1>0, <1>1, <1>2, <1>3, <2>2 DEF AnswerOK, coreVars, Current, Holds
  <2> QED
    BY <1>1, <2>1, <2>3, <2>4, ClaimKept DEF Kept, coreVars
<1>4. CASE Put("consumer")
  <2>1. /\ tx' = [tx EXCEPT !.consumer =
                    [tx.consumer EXCEPT !.sent = tx.consumer.sent + 1]]
        /\ last' = [task |-> "consumer",
                    late |-> usb.gen # tx.consumer.usb_gen]
        /\ \/ Goto("consumer", "sent")
           \/ /\ Goto("consumer", "emit")
              /\ tx.consumer.sent + 1 # tx.consumer.total
    BY <1>0, <1>4 DEF Put
  <2>2. tx.consumer \in TxType /\ tx.consumer.sent + 1 \in 0 .. ResponseReports
    BY <1>0, <1>2, TransportAssumption DEF TxType
  <2>3. /\ tx' \in [transport : TxType, consumer : TxType]
        /\ tx'.transport = NoTx /\ tx'.consumer.sent = tx.consumer.sent + 1
        /\ tx'.consumer.total = tx.consumer.total
        /\ tx'.consumer.command = tx.consumer.command
        /\ tx'.consumer.cid = tx.consumer.cid
        /\ tx'.consumer.generation = tx.consumer.generation
    BY <1>0, <1>2, <2>1, <2>2 DEF TxType
  <2>4. last'.task = "consumer"
        /\ last' \in [task : Task \cup {NoTask}, late : BOOLEAN]
    BY <2>1 DEF Task
  <2>5. TasksTypeOK' /\ ReportOK'
    BY <1>0, <1>1, <2>1, <2>3, <2>4, GotoFact
    DEF TasksTypeOK, ReportOK, ConsumerPlace
  <2>6. /\ ConsumerAt' \in {"sending", "sent"} /\ TransportAt' = "free"
        /\ ConsumerAt' = "sending" => tx.consumer.sent + 1 # tx.consumer.total
    BY <1>2, <2>1, GotoFact, PointFact
  <2>7. LockOK' /\ ReplyOK'
    BY <1>1, <1>2, <2>3, <2>6 DEF LockOK, ReplyOK
  <2>8. BusOK'
    BY <2>3, <2>4, EmptyFact DEF BusOK
  <2>9. tx'.consumer.sent < tx'.consumer.total
        \/ tx.consumer.sent + 1 = tx.consumer.total
    BY <1>2, <2>2, <2>3 DEF TxType
  <2>10. AnswerOK'
    BY <1>0, <1>1, <1>2, <2>3, <2>6, <2>9
    DEF AnswerOK, coreVars, Current, Holds
  <2> QED
    BY <1>1, <2>5, <2>7, <2>8, <2>10, ClaimKept DEF Kept, coreVars
<1> QED
  BY <1>3, <1>4 DEF Send, Emit, Check, PutWait, PutTimeout, SendStep

\* A keepalive is over: the request stays the consumer's.
LEMMA KeepaliveSentOK == HidInv /\ KeepaliveSent => Kept
<1> SUFFICES ASSUME HidInv, KeepaliveSent PROVE Kept
  OBVIOUS
<1>0. /\ TasksTypeOK /\ LockOK /\ ReplyOK /\ AnswerOK /\ BusOK /\ ReportOK
      /\ tx \in [transport : TxType, consumer : TxType]
      /\ pc.consumer = "sent"
  BY DEF HidInv, TasksTypeOK, KeepaliveSent
<1>1. /\ tx' = [tx EXCEPT !.consumer = NoTx] /\ mutex' = "free"
      /\ Goto("consumer", "work") \/ Goto("consumer", "respond")
      /\ UNCHANGED coreVars /\ UNCHANGED <<usb, hid, wake, got, work, last>>
  BY DEF KeepaliveSent, Unlock, NoCoreStep
<1>2. ConsumerAt = "sent" /\ TransportAt = "free" /\ tx.transport = NoTx
  BY <1>0, PointFact DEF ConsumerAt, LockOK, ReplyOK
<1>3. /\ tx' \in [transport : TxType, consumer : TxType]
      /\ tx'.transport = NoTx /\ tx'.consumer = NoTx
  BY <1>0, <1>1, <1>2, EmptyFact
<1>4. TasksTypeOK' /\ ReportOK'
  BY <1>0, <1>1, <1>3, GotoFact DEF TasksTypeOK, ReportOK, ConsumerPlace
<1>5. ConsumerAt' = "free" /\ TransportAt' = "free"
  BY <1>1, <1>2, GotoFact, PointFact
<1>6. LockOK' /\ ReplyOK' /\ AnswerOK' /\ BusOK'
  BY <1>1, <1>3, <1>5, EmptyFact DEF LockOK, ReplyOK, AnswerOK, BusOK
<1> QED
  BY <1>1, <1>4, <1>6, ClaimKept DEF Kept, coreVars

\* The response is over, and the claim with it.
LEMMA RespondedOK == HidInv /\ Responded => Kept
<1> SUFFICES ASSUME HidInv, Responded PROVE Kept
  OBVIOUS
<1>0. /\ TasksTypeOK /\ LockOK /\ ReplyOK /\ AnswerOK /\ BusOK /\ ReportOK
      /\ tx \in [transport : TxType, consumer : TxType] /\ hid \in HidType
      /\ pc.consumer = "sent"
  BY DEF HidInv, TasksTypeOK, Responded
<1>1. /\ tx' = [tx EXCEPT !.consumer = NoTx] /\ mutex' = "free"
      /\ Goto("consumer", "take") /\ work' = NullCid
      /\ hid' = [hid EXCEPT !.claim = NoClaim]
      /\ UNCHANGED <<usb, wake, got, last>>
  BY DEF Responded, Unlock
<1>2. ConsumerAt = "sent" /\ TransportAt = "free" /\ tx.transport = NoTx
  BY <1>0, PointFact DEF ConsumerAt, LockOK, ReplyOK
<1>3. /\ tx' \in [transport : TxType, consumer : TxType]
      /\ tx'.transport = NoTx /\ tx'.consumer = NoTx
      /\ hid' \in HidType /\ hid'.claim = NoClaim
  BY <1>0, <1>1, <1>2, EmptyFact DEF HidType
<1>4. TasksTypeOK' /\ ReportOK'
  BY <1>0, <1>1, <1>3, GotoFact DEF TasksTypeOK, ReportOK, ConsumerPlace
<1>5. ConsumerAt' = "free" /\ TransportAt' = "free"
  BY <1>1, <1>2, GotoFact, PointFact
<1>6. LockOK' /\ ReplyOK' /\ AnswerOK' /\ BusOK'
  BY <1>1, <1>3, <1>5, EmptyFact DEF LockOK, ReplyOK, AnswerOK, BusOK
<1> QED
  BY <1>3, <1>4, <1>6, ClaimKept DEF Kept

\* All steps of the consumer.
LEMMA ConsumerOK == HidInv /\ Consumer => Kept
  BY ConsumerQuiet, TakeAllowedOK, ClaimOK, KeepaliveOK, RespondOK,
     ConsumerSendOK, KeepaliveSentOK, RespondedOK DEF Consumer
-----------------------------------------------------------------------------
(* Resets, lock timeouts and time. *)

\* A reset is published, or done under the mutex.
LEMMA ResetterOK == HidInv /\ Resetter => Kept
<1> SUFFICES ASSUME HidInv, Resetter PROVE Kept
  OBVIOUS
<1>0. /\ TasksTypeOK /\ LockOK /\ ReportOK /\ hid \in HidType
      /\ usb \in UsbType
  BY DEF HidInv, TasksTypeOK
<1> USE DEF NoCoreStep, coreVars, Locked
<1>1. CASE PublishReset
  <2>1. hid' \in HidType /\ hid'.claim = hid.claim
    BY <1>0, <1>1 DEF PublishReset, HidType
  <2>2. TasksTypeOK' /\ ReportOK' /\ SamePlaces
    BY <1>0, <1>1, <2>1, GotoFact DEF PublishReset, TasksTypeOK, ReportOK
  <2> QED
    BY <1>1, <2>1, <2>2, QuietOK DEF PublishReset
<1>2. CASE ResetAll
  <2>1. hid' \in HidType /\ hid'.claim = NoClaim
    BY <1>0, <1>2, ForgetFact DEF ResetAll, HidType
  <2>2. TasksTypeOK' /\ ReportOK' /\ SamePlaces
    BY <1>0, <1>2, <2>1, GotoFact, DroppedFact
    DEF ResetAll, TasksTypeOK, ReportOK
  <2>3. Apart
    BY <1>0, <1>2 DEF ResetAll, Apart, LockOK
  <2> QED
    BY <1>2, <2>1, <2>2, <2>3, QuietOK DEF ResetAll
<1> QED
  BY <1>1, <1>2 DEF Resetter

\* A task that waits for the mutex in vain does not hold it.
LEMMA TimeoutOK == HidInv /\ (\E t \in Task : LockTimeout(t)) => Kept
<1> SUFFICES ASSUME HidInv, NEW t \in Task, LockTimeout(t) PROVE Kept
  OBVIOUS
<1>0. TasksTypeOK /\ ReportOK
  BY DEF HidInv
<1>1. /\ UNCHANGED coreVars /\ UNCHANGED <<usb, hid, mutex, wake, tx, last>>
      /\ got' \in {got, GotNone}
      /\ t # "transport" => got' = got
      /\ work' \in {work, NullCid}
  BY DEF LockTimeout, NoCoreStep
<1>2. CASE t = "transport"
  <2>1. pc.transport \in {"sync_lock", "cleanup", "lock"}
        /\ Goto("transport", "reset")
    BY <1>2 DEF LockTimeout, GivesUp
  <2>2. TasksTypeOK' /\ ReportOK'
    BY <1>0, <1>1, <2>1, GotoFact, EmptyFact
    DEF TasksTypeOK, ReportOK, TransportPlace
  <2>3. SamePlaces
    BY <2>1, GotoFact, PointFact
  <2> QED
    BY <1>1, <2>2, <2>3, QuietOK DEF coreVars
<1>3. CASE t = "consumer"
  <2>1. PICK to \in {"respond", "take"} :
           /\ pc.consumer \in {"keepalive", "respond"}
           /\ Goto("consumer", to)
    BY <1>3 DEF LockTimeout, GivesUp
  <2>2. got' = got
    BY <1>1, <1>3
  <2>3. TasksTypeOK' /\ ReportOK'
    BY <1>0, <1>1, <2>1, <2>2, GotoFact, CoreAssumption
    DEF TasksTypeOK, ReportOK, ConsumerPlace
  <2>4. SamePlaces
    BY <2>1, GotoFact, PointFact
  <2> QED
    BY <1>1, <2>3, <2>4, QuietOK DEF coreVars
<1>4. CASE t = "resetter"
  <2>1. Goto("resetter", "idle")
    BY <1>4 DEF LockTimeout, GivesUp
  <2>2. got' = got
    BY <1>1, <1>4
  <2>3. TasksTypeOK' /\ ReportOK' /\ SamePlaces
    BY <1>0, <1>1, <2>1, <2>2, GotoFact DEF TasksTypeOK, ReportOK
  <2> QED
    BY <1>1, <2>3, QuietOK DEF coreVars
<1> QED
  BY <1>2, <1>3, <1>4 DEF Task

\* Where nothing of the transport changes, and the core does not, neither
\* does the invariant.
LEMMA StutterOK == HidInv /\ core' = core /\ UNCHANGED hidVars => Kept
<1> SUFFICES ASSUME HidInv, core' = core, UNCHANGED hidVars PROVE Kept
  OBVIOUS
<1>1. UNCHANGED <<usb, hid, mutex, wake, pc, got, work, tx, last>>
  BY DEF hidVars
<1>2. TasksTypeOK' /\ ReportOK' /\ SamePlaces
  BY <1>1 DEF HidInv, TasksTypeOK, ReportOK, SamePlaces, TransportAt, ConsumerAt
<1> QED
  BY <1>1, <1>2, QuietOK
-----------------------------------------------------------------------------
(* The invariant. *)

\* It holds at the start.
LEMMA HidInitOK == HidInit => HidInv
<1> SUFFICES ASSUME HidInit PROVE HidInv
  OBVIOUS
<1>1. IInv
  BY InitOK DEF HidInit
<1>2. /\ <<>> \in Seq(HostReport) /\ Len(<<>>) = 0
      /\ RxDepth \in Nat
  BY TransportAssumption
<1>3. usb \in UsbType /\ Len(usb.queue) <= RxDepth
  BY <1>2, EmptyFact DEF HidInit, UsbType
<1>4. TasksTypeOK
  BY <1>3, EmptyFact
  DEF HidInit, TasksTypeOK, HidType, PcType, TransportPlace, ConsumerPlace, Task
<1>5. TransportAt = "free" /\ ConsumerAt = "free" /\ mutex = "free"
  BY PointFact DEF HidInit, TransportAt, ConsumerAt
<1>6. tx.transport = NoTx /\ tx.consumer = NoTx /\ ~ hid.claim.valid
  BY EmptyFact DEF HidInit
<1>7. LockOK /\ ReplyOK /\ AnswerOK /\ BusOK /\ ClaimCurrent
  BY <1>5, <1>6, EmptyFact DEF LockOK, ReplyOK, AnswerOK, BusOK, ClaimCurrent
<1>8. ReportOK
  BY DEF HidInit, ReportOK
<1> QED
  BY <1>1, <1>4, <1>7, <1>8 DEF HidInv

\* Every step keeps it.
LEMMA HidStepOK == HidInv /\ [HidNext]_vars => HidInv'
<1> SUFFICES ASSUME HidInv, [HidNext]_vars PROVE HidInv'
  OBVIOUS
<1>1. IInv'
  BY CoreStep, StepOK DEF HidInv
<1>2. Kept
  <2>1. CASE Passing
    BY <2>1, StutterOK DEF Passing, Tick
  <2>2. CASE UNCHANGED vars
    BY <2>2, StutterOK DEF vars, coreVars
  <2> QED
    BY <2>1, <2>2, UsbOK, TransportOK, ConsumerOK, ResetterOK, TimeoutOK
    DEF HidNext
<1> QED
  BY <1>1, <1>2 DEF HidInv, Kept

\* The invariant holds throughout.
THEOREM HidInvariance == HidSpec => []HidInv
  BY HidInitOK, HidStepOK, PTL DEF HidSpec

\* Whatever tasks, hosts, resets and USB events do, the core the tasks share
\* only takes steps of its own specification.
THEOREM CoreRefined == HidSpec => Spec
<1>1. HidInit => Init
  BY DEF HidInit
<1> QED
  BY <1>1, CoreStep, HidInvariance, PTL DEF HidSpec, Spec

\* So what is proved of the core alone holds in the transport: here, that
\* phase, channel, assembly and waiting message are those of one transaction.
THEOREM OneTransactionInTransport == HidSpec => []TransactionOwned
  BY CoreRefined, OneTransaction, PTL

\* And that the pool's bytes are all accounted for, that a half-received
\* request expires when it should, and that a report spares the other CIDs,
\* while hosts, consumer and transport run against one another.
THEOREM CoreInTransport ==
    HidSpec => []BuffersExact /\ []TimeoutExact /\ NonInterference
  BY CoreRefined, BuffersTheorem, TimeoutTheorem, NonInterferenceTheorem, PTL

\* A claim always names the request in processing, for any number of
\* channels, reports, USB generations and tasks that lose patience.
THEOREM ClaimCurrentTheorem == HidSpec => []ClaimCurrent
<1>1. HidInv => ClaimCurrent
  BY DEF HidInv
<1> QED
  BY <1>1, HidInvariance, PTL

\* Two messages never mix on the bus.
THEOREM NoInterleavingTheorem == HidSpec => NoInterleaving
<1>1. HidInv /\ [HidNext]_vars =>
        [\A t \in {"transport", "consumer"} :
           (tx'[t].sent > tx[t].sent /\ tx[t].sent > 0) => last.task = t]_vars
  BY DEF HidInv, BusOK
<1> QED
  BY <1>1, HidInvariance, PTL DEF HidSpec, NoInterleaving
-----------------------------------------------------------------------------
(* Hosts are served as RequestService says.  Where the consumer sends       *)
(* nothing, what matters of a step is what it does to the request served;   *)
(* where it sends, the core stands still until the message is over.         *)

\* The consumer is about a message exactly while it holds the mutex for it.
LEMMA MessagingFact ==
    /\ HidInv => (Messaging <=> ConsumerAt \in {"sending", "sent"})
    /\ HidInv /\ ~ Messaging => tx.consumer = NoTx /\ OnItsWay = "nothing"
    /\ HidInv /\ mutex # "consumer" => ~ Messaging
<1>1. HidInv => (Messaging <=> ConsumerAt \in {"sending", "sent"})
  BY DEF HidInv, TasksTypeOK, PcType, ConsumerPlace, Messaging, Sending,
         ConsumerAt, Point
<1> QED
  BY <1>1 DEF HidInv, AnswerOK, LockOK, OnItsWay

\* A step that hosts see as one of their service, or not at all.
Served == [Service!Next]_(Service!service)

\* Neither before nor after the step the consumer is about a message.
Silent == ~ Messaging /\ ~ Messaging' /\ tx'.consumer = tx.consumer

\* While the consumer is silent, a request that ends was given up.
LEMMA EndOfRequest ==
    ASSUME HidInv, Silent, ~ Serving'
    PROVE  Served
<1>1. /\ Stage' = "none" /\ ServedHost' = NullCid /\ ServedCancelled' = FALSE
      /\ OnItsWay = "nothing" /\ OnItsWay' = "nothing"
  BY DEF Stage, ServedHost, ServedCancelled, OnItsWay, Silent
<1>2. CASE Serving
  <2>1. Stage # "none"
    BY <1>2 DEF Stage
  <2> QED
    BY <1>1, <2>1 DEF Served, Silent, Service!Next, Service!GiveUp, Service!Nothing
<1>3. CASE ~ Serving
  BY <1>1, <1>3
  DEF Stage, ServedHost, ServedCancelled, Silent, Served, Service!service
<1> QED
  BY <1>2, <1>3

\* Nothing is served differently while the core stands still.
LEMMA SameService ==
    ASSUME core' = core, OnItsWay' = OnItsWay,
           tx'.consumer.sent = tx.consumer.sent
    PROVE  Served
<1>1. Serving' = Serving
  BY DEF Serving
<1>2. Stage' = Stage /\ ServedHost' = ServedHost
  BY <1>1 DEF Stage, ServedHost
<1>3. ServedCancelled' = ServedCancelled
  BY <1>1 DEF ServedCancelled, Holds
<1> QED
  BY <1>2, <1>3 DEF Served, Service!service

\* A reset gives the request up.
LEMMA ResetServed ==
    ASSUME HidInv, Silent, ResetCore
    PROVE  Served
<1>1. ~ Serving'
  BY DEF ResetCore, Step, CoreReset, CoreInit, Serving
<1> QED
  BY <1>1, EndOfRequest

\* A report leaves the request alone, cancels it, has it given up, or is the
\* last of a new one.
LEMMA FeedServed ==
    ASSUME HidInv, FeedReport, Silent
    PROVE  Served
<1>0. Outcome(core) /\ CoreOK(core')
  BY FeedFact
<1>1. OnItsWay = "nothing" /\ OnItsWay' = "nothing"
  BY DEF Silent, OnItsWay
<1>2. CASE core.phase = "PROCESSING" /\ Continues(core, core')
  <2>1. /\ Serving' = Serving /\ Stage' = Stage /\ ServedHost' = ServedHost
        /\ ServedCancelled => ServedCancelled'
    BY <1>2 DEF Continues, Serving, Stage, ServedHost, ServedCancelled
  <2>2. CASE ServedCancelled' = ServedCancelled
    BY <1>1, <2>1, <2>2 DEF Served, Silent, Service!service
  <2>3. CASE ServedCancelled' # ServedCancelled
    <3>1. ServedCancelled' = TRUE /\ Serving'
      BY <2>1, <2>3 DEF ServedCancelled
    <3>2. Stage # "none"
      BY <2>1, <3>1 DEF Stage
    <3> QED
      BY <1>1, <2>1, <3>1, <3>2
      DEF Served, Silent, Service!Next, Service!Cancel, Service!Nothing
  <2> QED
    BY <2>2, <2>3
<1>3. CASE core'.phase # "PROCESSING"
  BY <1>3, EndOfRequest DEF Serving
<1>4. CASE core.phase # "PROCESSING" /\ Completed
  <2>1. CASE core'.active_command = "PING"
    BY <2>1, EndOfRequest DEF Serving
  <2>2. CASE core'.active_command = "CBOR" /\ core'.message_ready
    <3>1. /\ Stage = "none" /\ ServedCancelled = FALSE /\ Serving'
          /\ Stage' = "waiting" /\ ServedHost' = core'.active_cid
      BY <1>4, <2>2
      DEF Completed, Serving, Stage, ServedHost, ServedCancelled
    <3>2. ServedCancelled' = FALSE
      BY <1>4 DEF Completed, ServedCancelled
    <3>3. core'.active_cid \in Cid
      <4>1. PICK s \in Slot : WaitingMessage(core', s)
        BY <1>0, <2>2 DEF CoreOK, Owned
      <4> QED
        BY <1>0, <4>1
        DEF WaitingMessage, Holds, CoreOK, Unique, CoreType, Channel
    <3>4. Service!Arrive(core'.active_cid)
      BY <1>1, <3>1, <3>2 DEF Served, Silent, Service!Arrive
    <3> QED
      BY <3>3, <3>4 DEF Served, Service!Next
  <2> QED
    BY <1>4, <2>1, <2>2 DEF Completed
<1> QED
  BY <1>0, <1>2, <1>3, <1>4 DEF Outcome

\* The steps of the transport task.
LEMMA TransportServed ==
    ASSUME HidInv, HidInv', Transport
    PROVE  Served
<1>0. CoreOK(core) /\ pc \in PcType
  BY IInvFact DEF HidInv, TasksTypeOK
<1>1. /\ ConsumerAt' = ConsumerAt /\ Messaging' = Messaging
      /\ tx'.consumer = tx.consumer
  <2>1. \E to : Goto("transport", to)
    BY DEF Transport, NoResetRequested, ProcessReset, ReadGeneration, Sync,
           TakeReport, RecheckReport, TakeNothing, CleanUp, LockForReport, Admit,
           FeedReport, Send, Emit, Check, Put, PutWait, PutTimeout, Replied,
           StartSending, WakeThen
  <2>2. pc'.consumer = pc.consumer /\ ConsumerAt' = ConsumerAt
    BY <2>1, GotoFact
  <2>3. tx'.consumer = tx.consumer
    <3>1. tx \in [transport : TxType, consumer : TxType]
      BY DEF HidInv, TasksTypeOK
    <3> QED
      BY <3>1
      DEF Transport, NoResetRequested, ProcessReset, ReadGeneration, Sync,
          TakeReport, RecheckReport, TakeNothing, CleanUp, LockForReport, Admit,
          FeedReport, Send, Emit, Check, Put, PutWait, PutTimeout, Replied,
          StartSending, WakeThen
  <2> QED
    BY <2>2, <2>3 DEF Messaging, Sending
<1>2. CASE UNCHANGED coreVars
  <2>1. OnItsWay' = OnItsWay
    BY <1>1 DEF OnItsWay
  <2> QED
    BY <1>1, <1>2, <2>1, SameService DEF coreVars
<1>3. ASSUME mutex = "free" \/ pc.transport \in {"admit", "feed", "sent"}
      PROVE  Silent
  <2>1. mutex # "consumer"
    BY <1>3, PointFact DEF HidInv, LockOK, TransportAt
  <2> QED
    BY <1>1, <2>1, MessagingFact DEF Silent
<1>4. CASE ResetCore /\ (mutex = "free" \/ pc.transport = "admit")
  BY <1>3, <1>4, ResetServed
<1>5. CASE CleanUp
  <2>1. core' = core \/ ~ Serving'
    BY <1>0, <1>5
    DEF CleanUp, Step, PeriodicCleanup, Cleanup, Serving, CoreOK, CoreType
  <2>2. Silent /\ OnItsWay' = OnItsWay
    BY <1>1, <1>3, <1>5 DEF CleanUp, Locked, OnItsWay
  <2> QED
    BY <1>1, <2>1, <2>2, EndOfRequest, SameService
<1>6. CASE FeedReport
  BY <1>3, <1>6, FeedServed DEF FeedReport
<1>7. CASE Replied /\ Finishes
  <2>1. Silent /\ OnItsWay' = OnItsWay
    BY <1>1, <1>3, <1>7 DEF Replied, OnItsWay
  <2>2. core.active_command = "PING"
    BY <1>7, PointFact DEF HidInv, ReplyOK, Replied, Finishes, TransportAt
  <2>3. core' = core \/ core'.phase = "IDLE"
    <3>1. core' = Finished(core, tx.transport.cid, tx.transport.generation)
      BY <1>7 DEF Replied, Step, FinishResponse
    <3> QED
      BY <1>0, <3>1, ClearActiveOK DEF Finished, Current
  <2>4. ~ Serving'
    BY <2>2, <2>3 DEF Serving
  <2> QED
    BY <2>1, <2>4, EndOfRequest
<1> QED
  BY <1>2, <1>4, <1>5, <1>6, <1>7
  DEF Transport, NoCoreStep, Locked, NoResetRequested, ProcessReset,
      ReadGeneration, Sync, TakeReport, RecheckReport, TakeNothing, LockForReport,
      Admit, Send, Emit, Check, Put, PutWait, PutTimeout, SendStep, Replied, WakeThen

\* Taking the request.
LEMMA ClaimServed ==
    ASSUME HidInv, HidInv', Claim
    PROVE  Served
<1>0. CoreOK(core) /\ core \in CoreType
  BY IInvFact DEF HidInv, CoreOK
<1>1. Silent
  <2>1. /\ ConsumerAt = "holding" /\ tx' = tx
        /\ \E to \in {"wait", "take", "drain"} : Goto("consumer", to)
    BY PointFact DEF Claim, ConsumerAt
  <2>2. ConsumerAt' = "free"
    BY <2>1, GotoFact, PointFact
  <2>3. ~ Messaging'
    BY <2>1 DEF Messaging, Sending, Goto, HidInv, TasksTypeOK, PcType
  <2> QED
    BY <2>1, <2>2, <2>3, MessagingFact DEF Silent
<1>2. OnItsWay = "nothing" /\ OnItsWay' = "nothing"
  BY <1>1 DEF Silent, OnItsWay
<1>3. CASE NoCoreStep
  BY <1>1, <1>2, <1>3, SameService DEF NoCoreStep, coreVars, Silent
<1>4. CASE ResetCore
  BY <1>1, <1>4, ResetServed
<1>5. CASE Step(TakeMessage, NoReport)
  <2>1. core.message_ready /\ core' = Taken(core)
    BY <1>5 DEF Step, TakeMessage
  <2>2. Serving
    BY <1>0, <2>1 DEF CoreOK, Owned, WaitingMessage, Serving
  <2>3. /\ core'.phase = core.phase /\ core'.active_cid = core.active_cid
        /\ core'.active_command = core.active_command
        /\ core'.channels = core.channels /\ core'.message_ready = FALSE
    BY <1>0, <2>1 DEF Taken, CoreType
  <2>4. Serving'
    BY <2>2, <2>3 DEF Serving
  <2>5. /\ Stage = "waiting" /\ Stage' = "taken"
        /\ ServedHost' = ServedHost
    BY <2>1, <2>2, <2>3, <2>4 DEF Stage, ServedHost
  <2>6. ServedCancelled' = ServedCancelled
    BY <2>2, <2>3, <2>4 DEF ServedCancelled, Holds
  <2> QED
    BY <1>1, <1>2, <2>5, <2>6 DEF Served, Silent, Service!Next, Service!Take
<1> QED
  BY <1>3, <1>4, <1>5 DEF Claim

\* A message begins for the request that was taken, and says whether it is
\* cancelled.
LEMMA BeginServed ==
    ASSUME HidInv,
           NEW command \in {"KEEPALIVE", "CANCELLED", "CBOR"}, NEW total,
           total = IF command = "CBOR" THEN ResponseReports ELSE 1,
           ClaimMatches(core, work), Lock("consumer"),
           (command = "CANCELLED") = HidCancelled,
           pc.consumer \in {"keepalive", "respond"},
           StartSending("consumer", Answer(command, total)),
           NoCoreStep, UNCHANGED <<usb, hid, wake, got, work, last>>
    PROVE  Served
<1>1. /\ Kept /\ ConsumerAt = "free" /\ ConsumerAt' \in {"sending", "sent"}
      /\ tx'.consumer = Answer(command, total)
  BY BeginOK
<1>2. core' = core /\ IInv'
  BY DEF NoCoreStep, coreVars, HidInv, IInv, TypeOK, UniqueCids,
         TransactionOwned, FlagsInScope
<1>3. Messaging' /\ ~ Messaging
  <2>1. HidInv'
    BY <1>1, <1>2 DEF Kept, HidInv
  <2>2. Messaging' <=> ConsumerAt' \in {"sending", "sent"}
    BY <1>1, <2>1 DEF HidInv, TasksTypeOK, PcType, ConsumerPlace, Messaging,
                      Sending, ConsumerAt, Point
  <2> QED
    BY <1>1, <2>2, MessagingFact
<1>4. /\ OnItsWay = "nothing" /\ OnItsWay' = command
      /\ tx'.consumer.sent = 0
  BY <1>1, <1>3 DEF OnItsWay, Answer
<1>5. /\ Current(core, work, hid.claim.generation)
      /\ core.active_command = "CBOR" /\ ~ core.message_ready
  BY DEF ClaimMatches, HidInv, ClaimCurrent
<1>6. Serving /\ Stage = "taken" /\ core.active_cid = work
  BY <1>5 DEF Serving, Stage, Current
<1>7. HidCancelled = ServedCancelled
  BY <1>5, <1>6 DEF HidCancelled, Cancelled, ServedCancelled
<1>8. /\ Stage' = Stage /\ ServedHost' = ServedHost
      /\ ServedCancelled' = ServedCancelled
  BY <1>2 DEF Stage, Serving, ServedHost, ServedCancelled, Holds
<1>9. Service!Begin(command)
  BY <1>4, <1>6, <1>7, <1>8 DEF Service!Begin, Service!Nothing
<1> QED
  BY <1>9 DEF Served, Service!Next, Service!Answer

\* A keepalive or the response begins, or nothing is sent.
LEMMA AnsweringServed ==
    ASSUME HidInv, HidInv', Keepalive \/ Respond
    PROVE  Served
<1>0. /\ NoCoreStep /\ UNCHANGED <<usb, hid, wake, got, last>>
      /\ pc.consumer \in {"keepalive", "respond"}
  BY DEF Keepalive, Respond
<1>1. CASE /\ Keepalive /\ ~ HidCancelled /\ Lock("consumer")
           /\ StartSending("consumer", Answer("KEEPALIVE", 1))
  BY <1>0, <1>1, BeginServed DEF Keepalive, HidCancelled
<1>2. CASE /\ Respond /\ MayRespond /\ Lock("consumer") /\ UNCHANGED work
           /\ StartSending("consumer",
                IF HidCancelled THEN Answer("CANCELLED", 1)
                                ELSE Answer("CBOR", ResponseReports))
  <2>1. HidCancelled \in BOOLEAN
    BY DEF HidCancelled
  <2>2. CASE HidCancelled
    BY <1>0, <1>2, <2>2, BeginServed DEF MayRespond
  <2>3. CASE ~ HidCancelled
    <3>1. ("CBOR" = "CANCELLED") = HidCancelled
      BY <2>1, <2>3
    <3>2. StartSending("consumer", Answer("CBOR", ResponseReports))
      BY <1>2, <2>3
    <3>3. ClaimMatches(core, work)
      BY <1>2 DEF MayRespond
    <3> QED
      BY <1>0, <1>2, <3>1, <3>2, <3>3, BeginServed
  <2> QED
    BY <2>2, <2>3
<1>3. CASE /\ UNCHANGED tx
           /\ \E to \in {"respond", "work", "take"} : Goto("consumer", to)
  <2>1. ~ Messaging /\ ~ Messaging'
    BY <1>0, <1>3 DEF Messaging, Sending, Goto, HidInv, TasksTypeOK, PcType
  <2>2. OnItsWay' = OnItsWay
    BY <2>1 DEF OnItsWay
  <2> QED
    BY <1>0, <1>3, <2>2, SameService DEF NoCoreStep, coreVars
<1> QED
  BY <1>1, <1>2, <1>3 DEF Keepalive, Respond

\* A report goes out; a message ends.
LEMMA SendingServed ==
    ASSUME HidInv, HidInv', Send("consumer") \/ KeepaliveSent \/ Responded
    PROVE  Served
<1>0. /\ CoreOK(core) /\ tx \in [transport : TxType, consumer : TxType]
      /\ pc \in PcType /\ ConsumerAt \in {"sending", "sent"} /\ Messaging
  <2>1. /\ pc.consumer \in {"emit", "check", "put", "sent"}
        /\ tx \in [transport : TxType, consumer : TxType] /\ pc \in PcType
    BY DEF Send, Emit, Check, Put, PutWait, PutTimeout, KeepaliveSent,
           Responded, HidInv, TasksTypeOK
  <2> QED
    BY <2>1, IInvFact, PointFact DEF HidInv, ConsumerAt, Messaging, Sending
<1>1. /\ tx.consumer.command \in {"KEEPALIVE", "CANCELLED", "CBOR"}
      /\ tx.consumer.total = Service!Length(tx.consumer.command)
      /\ ConsumerAt = "sending" => tx.consumer.sent < tx.consumer.total
      /\ Current(core, tx.consumer.cid, tx.consumer.generation)
      /\ OnItsWay = tx.consumer.command
  BY <1>0 DEF HidInv, AnswerOK, Service!Length, OnItsWay
<1>2. CASE /\ Send("consumer") /\ UNCHANGED tx
  <2>1. core' = core /\ Messaging'
    BY <1>0, <1>2 DEF Send, Emit, Check, Put, PutWait, PutTimeout, SendStep,
        NoCoreStep, coreVars, Goto, PcType, Messaging, Sending
  <2>2. OnItsWay' = OnItsWay
    BY <1>0, <1>2, <2>1 DEF OnItsWay
  <2> QED
    BY <1>2, <2>1, <2>2, SameService
<1>3. CASE Put("consumer")
  <2>1. core' = core /\ Messaging' /\ ConsumerAt = "sending"
    BY <1>0, <1>3, PointFact DEF Put, SendStep, NoCoreStep, coreVars, Goto, PcType,
        Messaging, Sending, ConsumerAt
  <2>2. tx'.consumer = [tx.consumer EXCEPT !.sent = tx.consumer.sent + 1]
    BY <1>0, <1>3 DEF Put
  <2>3. /\ tx'.consumer.sent = tx.consumer.sent + 1
        /\ tx'.consumer.command = tx.consumer.command
    BY <1>0, <2>2 DEF TxType
  <2>4. OnItsWay' = OnItsWay /\ OnItsWay # "nothing"
    BY <1>0, <1>1, <2>1, <2>3 DEF OnItsWay
  <2>5. /\ Stage' = Stage /\ ServedHost' = ServedHost
        /\ ServedCancelled' = ServedCancelled
    BY <2>1 DEF Stage, Serving, ServedHost, ServedCancelled, Holds
  <2>6. Service!Report
    BY <1>1, <2>1, <2>3, <2>4, <2>5 DEF Service!Report, Service!Nothing
  <2> QED
    BY <2>6 DEF Served, Service!Next
<1>4. CASE KeepaliveSent \/ Responded
  <2>1. /\ ~ Messaging' /\ OnItsWay' = "nothing" /\ tx'.consumer = NoTx
    BY <1>0, <1>4 DEF KeepaliveSent, Responded, Goto, PcType, Messaging, Sending,
                      OnItsWay
  <2>2. tx'.consumer.sent = 0
    BY <2>1, EmptyFact
  <2>3. CASE KeepaliveSent
    <3>1. OnItsWay = "KEEPALIVE" /\ core' = core
      BY <1>1, <2>3 DEF KeepaliveSent, NoCoreStep, coreVars
    <3>2. /\ Stage' = Stage /\ ServedHost' = ServedHost
          /\ ServedCancelled' = ServedCancelled
      BY <3>1 DEF Stage, Serving, ServedHost, ServedCancelled, Holds
    <3>3. Service!KeepaliveOver
      BY <2>1, <2>2, <3>1, <3>2 DEF Service!KeepaliveOver, Service!Nothing
    <3> QED
      BY <3>3 DEF Served, Service!Next
  <2>4. CASE Responded
    <3>1. OnItsWay \in {"CBOR", "CANCELLED"}
      BY <1>1, <2>4 DEF Responded
    <3>2. core' = Finished(core, tx.consumer.cid, tx.consumer.generation)
      BY <2>4 DEF Responded, Step, FinishResponse
    <3>3. core'.phase = "IDLE"
      BY <1>0, <1>1, <3>2, ClearActiveOK DEF Finished, Current
    <3>4. /\ Stage' = "none" /\ ServedHost' = NullCid
          /\ ServedCancelled' = FALSE
      BY <3>3 DEF Stage, Serving, ServedHost, ServedCancelled
    <3>5. Service!Answered
      BY <2>1, <2>2, <3>1, <3>4
      DEF Service!Answered, Service!Nothing, Service!Answer
    <3> QED
      BY <3>5 DEF Served, Service!Next
  <2> QED
    BY <1>4, <2>3, <2>4
<1> QED
  BY <1>2, <1>3, <1>4 DEF Send, Emit, Check, PutWait, PutTimeout

\* Steps that neither serve nor send.
LEMMA IdleServed ==
    ASSUME HidInv, HidInv', UNCHANGED tx, core' = core,
           \/ UNCHANGED pc
           \/ \E to : Goto("resetter", to)
           \/ Goto("transport", "reset")
           \/ /\ pc.consumer \in {"take", "wait", "drain", "work", "keepalive",
                                  "respond"}
              /\ \E to \in {"take", "claim", "work", "keepalive", "respond"} :
                    Goto("consumer", to)
    PROVE  Served
<1>1. Messaging' = Messaging
  BY GotoFact DEF Messaging, Sending, Goto, HidInv, TasksTypeOK, PcType
<1>2. OnItsWay' = OnItsWay
  BY <1>1 DEF OnItsWay
<1> QED
  BY <1>2, SameService

\* Every step is one of the service, or none.
LEMMA StepServed ==
    ASSUME HidInv, HidInv', [HidNext]_vars
    PROVE  Served
<1> USE DEF NoCoreStep, coreVars
<1>1. CASE Attached \/ Detached \/ Suspended \/ Resumed
           \/ \E p \in HostReport : SetReport(p)
  BY <1>1, IdleServed
  DEF Attached, Detached, Suspended, Resumed, SetReport, Boundary, UsbStep
<1>2. CASE Consumer
  <2>1. CASE TakeAllowed \/ Woken \/ WaitOver \/ Drain \/ Work("keepalive")
             \/ Work("respond")
    BY <2>1, IdleServed DEF TakeAllowed, Woken, WaitOver, Drain, Work
  <2> QED
    BY <1>2, <2>1, ClaimServed, AnsweringServed, SendingServed DEF Consumer
<1>3. CASE Resetter
  <2>1. CASE PublishReset
    BY <2>1, IdleServed DEF PublishReset
  <2>2. CASE ResetAll
    <3>1. ~ Messaging
      BY <2>2, MessagingFact DEF ResetAll, Locked
    <3>2. Silent
      BY <2>2, <3>1 DEF ResetAll, Goto, Messaging, Sending, Silent, HidInv,
                        TasksTypeOK, PcType
    <3> QED
      BY <2>2, <3>2, ResetServed DEF ResetAll
  <2> QED
    BY <1>3, <2>1, <2>2 DEF Resetter
<1>4. ASSUME NEW t \in Task, LockTimeout(t) PROVE Served
  <2>1. CASE t = "transport"
    BY <1>4, <2>1, IdleServed DEF LockTimeout, GivesUp
  <2>2. CASE t = "consumer"
    BY <1>4, <2>2, IdleServed DEF LockTimeout, GivesUp
  <2>3. CASE t = "resetter"
    BY <1>4, <2>3, IdleServed DEF LockTimeout
  <2> QED
    BY <2>1, <2>2, <2>3 DEF Task
<1>5. CASE Passing \/ UNCHANGED vars
  BY <1>5, IdleServed DEF Passing, Tick, vars, hidVars
<1> QED
  BY <1>1, <1>2, <1>3, <1>4, <1>5, TransportServed DEF HidNext

\* However tasks, resets and USB events interleave, hosts are served as
\* RequestService says: one request at a time, answered at most once and by
\* its own answer, which says so if it was cancelled, and never after it was
\* given up.
THEOREM ServiceImplemented == HidSpec => ImplementsService
<1>1. HidInit => Service!Init
  <2> SUFFICES ASSUME HidInit PROVE Service!Init
    OBVIOUS
  <2>1. core.phase = "IDLE" /\ ~ Messaging /\ tx.consumer.sent = 0
    BY EmptyFact DEF HidInit, Init, CoreInit, Messaging, Sending
  <2> QED
    BY <2>1 DEF Service!Init, Service!Nothing, Stage, Serving, ServedHost,
                ServedCancelled, OnItsWay
<1>2. HidInv /\ HidInv' /\ [HidNext]_vars => [Service!Next]_(Service!service)
  BY StepServed DEF Served
<1> QED
  BY <1>1, <1>2, HidInvariance, PTL DEF HidSpec, ImplementsService, Service!Spec
=============================================================================
