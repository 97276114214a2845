------------------------ MODULE CtapHidOwner_proofs ------------------------
(***************************************************************************)
(* Proofs about who ends what in CtapHid: a request in processing has      *)
(* somebody who will end it but for the two steps OrphansOnlyBy names, a   *)
(* message belongs to the connection the core was reset for, its wake-up is*)
(* never lost, and a cancel is never taken back.                           *)
(*                                                                         *)
(* The connections come first (ConnInv): what each task has read of the    *)
(* USB generation is no newer than it is, and once the core was reset      *)
(* behind the transport task's back, nothing enters it before the task has *)
(* looked.                                                                 *)
(***************************************************************************)
EXTENDS CtapHid_proofs

\* Between its look at the connection and the admission of a report the
\* transport task relies on what it saw.
AfterSync == {"take", "taken", "cleanup", "lock", "admit", "wake_take"}

ConnInv ==
    /\ usb.ready => usb.mounted
    /\ hid.seen_gen <= usb.gen /\ got.current <= usb.gen
    /\ pc.consumer = "claim" /\ usb.gen = hid.seen_gen => usb.ready
    /\ hid.reset_since_sync /\ pc.transport \in AfterSync => core.phase = "IDLE"
    /\ pc.transport = "feed" => got.usb_gen = hid.seen_gen
    /\ MessageOfConnection
    /\ hid.claim.valid =>
          /\ hid.claim.usb_gen = hid.seen_gen
          /\ hid.claim.usb_gen = usb.gen => usb.ready

\* The owner of a request, the worker of a claim left aside.
OwnInv ==
    core.phase = "PROCESSING" =>
        \/ PingOwned
        \/ core.active_command = "CBOR"
             /\ (core.message_ready \/ hid.claim.valid)
        \/ ResetDue
-----------------------------------------------------------------------------
(* Facts about states. *)

\* Only a request in processing waits to be taken, is claimed, or is a
\* transaction.
LEMMA ProcessingFact ==
    ASSUME HidInv
    PROVE  /\ core.message_ready =>
                 core.phase = "PROCESSING" /\ core.active_command = "CBOR"
           /\ hid.claim.valid => core.phase = "PROCESSING"
  BY IInvFact DEF HidInv, CoreOK, Owned, WaitingMessage, ClaimCurrent, Current

\* A reset of the core leaves it idle.
LEMMA ResetIdle == ResetCore => core'.phase = "IDLE"
  BY DEF ResetCore, Step, CoreReset, CoreInit

\* An idle core has nothing waiting and nothing claimed.
LEMMA IdleFact ==
    ASSUME HidInv', core'.phase # "PROCESSING"
    PROVE  ~ core'.message_ready /\ ~ hid'.claim.valid
<1>1. core'.message_ready => core'.phase = "PROCESSING"
  BY DEF HidInv, IInv, TransactionOwned, Owned, WaitingMessage
<1>2. hid'.claim.valid => core'.phase = "PROCESSING"
  BY DEF HidInv, ClaimCurrent, Current
<1> QED
  BY <1>1, <1>2

\* The types the steps below rely on.
LEMMA TypesFact ==
    ASSUME HidInv
    PROVE  /\ usb \in UsbType /\ hid \in HidType /\ got \in GotType /\ pc \in PcType
           /\ tx \in [transport : TxType, consumer : TxType]
           /\ usb.gen \in Nat /\ hid.seen_gen \in Nat /\ got.current \in Nat
  BY TransportAssumption
  DEF HidInv, TasksTypeOK, UsbType, HidType, GotType, UsbGen
-----------------------------------------------------------------------------
(* Most steps change neither the connection nor the statics, and at most    *)
(* end a transaction.                                                       *)

Calm == /\ UNCHANGED <<usb, hid>>
        /\ core' = core \/ core'.phase = "IDLE"
             \/ (core'.phase # "PROCESSING" /\ pc'.transport \notin AfterSync)
        /\ got'.current <= usb.gen
        /\ pc'.transport = "feed" => pc.transport = "feed" /\ got' = got
        /\ pc'.transport \in AfterSync => pc.transport \in AfterSync
        /\ pc'.consumer = "claim" => pc.consumer = "claim" \/ Takeable

\* They disturb nothing the connections are about.
LEMMA CalmConn ==
    ASSUME HidInv, HidInv', ConnInv, Calm
    PROVE  ConnInv'
<1>1. MessageOfConnection'
  <2>1. CASE core' = core
    BY <2>1 DEF Calm, ConnInv, MessageOfConnection
  <2>2. CASE core'.phase # "PROCESSING"
    BY <2>2, IdleFact DEF MessageOfConnection
  <2> QED
    BY <2>1, <2>2 DEF Calm
<1>2. hid'.reset_since_sync /\ pc'.transport \in AfterSync
        => core'.phase = "IDLE"
  BY DEF Calm, ConnInv
<1>3. pc'.consumer = "claim" /\ usb'.gen = hid'.seen_gen => usb'.ready
  BY DEF Calm, ConnInv, Takeable
<1> QED
  BY <1>1, <1>2, <1>3 DEF Calm, ConnInv

\* Nor do they disturb the owner, unless it is the one who ends a PING.
LEMMA CalmOwn ==
    ASSUME HidInv, HidInv', OwnInv, Calm,
           PingOwned => PingOwned' \/ core'.phase = "IDLE"
    PROVE  OwnInv'
<1>1. CASE core' = core
  BY <1>1 DEF Calm, OwnInv, ResetDue
<1>2. CASE core'.phase # "PROCESSING"
  BY <1>2 DEF OwnInv
<1> QED
  BY <1>1, <1>2 DEF Calm

\* What the transport task does between two looks at the connection.
LEMMA CalmTransport ==
    ASSUME HidInv, ConnInv,
           \/ NoResetRequested \/ ReadGeneration \/ RecheckReport
           \/ TakeNothing \/ CleanUp \/ LockForReport
           \/ WakeThen("wake_sync", "sync") \/ WakeThen("wake_take", "take")
           \/ WakeThen("wake_reset", "reset")
    PROVE  Calm /\ ~ PingOwned
<1>0. /\ got \in GotType /\ got.current <= usb.gen /\ GotNone.current <= usb.gen
      /\ usb \in UsbType /\ usb.gen \in Nat /\ hid \in HidType
  BY TypesFact DEF ConnInv, GotNone
<1>1. PICK from \in {"reset", "sync", "taken", "take", "cleanup", "lock",
                     "wake_sync", "wake_take", "wake_reset"},
           to \in {"sync", "sync_lock", "lock", "reset", "cleanup", "admit",
                   "take"} :
         /\ pc.transport = from /\ Goto("transport", to)
         /\ to \in AfterSync => from \in AfterSync
  BY DEF NoResetRequested, ReadGeneration, RecheckReport, TakeNothing, CleanUp,
         LockForReport, WakeThen, AfterSync
<1>2. /\ pc'.transport = to /\ pc'.consumer = pc.consumer
      /\ to # "feed" /\ ~ PingOwned
  BY <1>1, GotoFact DEF PingOwned
<1>3. UNCHANGED <<usb, hid>>
  BY DEF NoResetRequested, ReadGeneration, RecheckReport, TakeNothing, CleanUp,
         LockForReport, WakeThen
<1>4. got'.current <= usb.gen
  <2>1. got' = got \/ got' = GotNone \/ got' = [got EXCEPT !.current = usb.gen]
    BY DEF NoResetRequested, ReadGeneration, RecheckReport, TakeNothing, CleanUp,
           LockForReport, WakeThen
  <2> QED
    BY <1>0, <2>1 DEF GotType
<1>5. core' = core \/ core'.phase = "IDLE"
        \/ (core'.phase # "PROCESSING" /\ pc'.transport \notin AfterSync)
  <2>1. CASE CleanUp
    <3>1. core' = Cleanup(core, now) /\ pc'.transport \notin AfterSync
      BY <1>1, <2>1, GotoFact DEF CleanUp, Step, PeriodicCleanup, AfterSync
    <3>2. core \in CoreType
      BY IInvFact DEF HidInv, CoreOK
    <3> QED
      BY <3>1, <3>2 DEF Cleanup, CoreType
  <2>2. CASE UNCHANGED coreVars
    BY <2>2 DEF coreVars
  <2> QED
    BY <2>1, <2>2
    DEF NoResetRequested, ReadGeneration, RecheckReport, TakeNothing,
        LockForReport, WakeThen, NoCoreStep
<1> QED
  BY <1>1, <1>2, <1>3, <1>4, <1>5 DEF Calm

\* One report of the transport task's reply.
LEMMA CalmReply ==
    ASSUME HidInv, ConnInv, Send("transport")
    PROVE  Calm /\ (PingOwned => PingOwned')
<1>1. /\ UNCHANGED coreVars /\ UNCHANGED <<usb, hid, mutex, got>>
      /\ \E to \in {"emit", "check", "put", "sent"} : Goto("transport", to)
  BY DEF Send, Emit, Check, Put, PutWait, PutTimeout, SendStep, NoCoreStep
<1>2. /\ pc'.transport \in {"emit", "check", "put", "sent"}
      /\ pc'.consumer = pc.consumer
  BY <1>1, GotoFact
<1>3. /\ tx'.transport.cid = tx.transport.cid
      /\ tx'.transport.generation = tx.transport.generation
  BY TypesFact DEF Send, Emit, Check, Put, PutWait, PutTimeout, TxType
<1>4. Calm
  BY <1>1, <1>2 DEF Calm, ConnInv, coreVars, AfterSync
<1>5. PingOwned => PingOwned'
  BY <1>1, <1>2, <1>3 DEF PingOwned, coreVars, Current, Holds
<1> QED
  BY <1>4, <1>5

\* The end of the reply: a PING in the task's hands ends with it.
LEMMA CalmReplied ==
    ASSUME HidInv, ConnInv, Replied
    PROVE  Calm /\ (PingOwned => core'.phase = "IDLE")
<1>0. CoreOK(core)
  BY IInvFact DEF HidInv
<1>1. /\ UNCHANGED <<usb, hid, got>>
      /\ pc'.transport = "reset" /\ pc'.consumer = pc.consumer
  BY GotoFact DEF Replied
<1>2. CASE Finishes
  <2>1. core' = Finished(core, tx.transport.cid, tx.transport.generation)
    BY <1>2 DEF Replied, Step, FinishResponse
  <2>2. CASE Current(core, tx.transport.cid, tx.transport.generation)
    <3>1. core'.phase = "IDLE"
      BY <1>0, <2>1, <2>2, ClearActiveOK DEF Finished, Current
    <3> QED
      BY <1>1, <3>1 DEF Calm, ConnInv, AfterSync
  <2>3. CASE ~ Current(core, tx.transport.cid, tx.transport.generation)
    BY <1>1, <2>1, <2>3 DEF Calm, ConnInv, AfterSync, Finished, PingOwned
  <2> QED
    BY <2>2, <2>3
<1>3. CASE ~ Finishes
  BY <1>1, <1>3
  DEF Replied, NoCoreStep, coreVars, Calm, ConnInv, AfterSync, PingOwned, Finishes
<1> QED
  BY <1>2, <1>3

\* The consumer, but for taking a request and for the end of its response.
LEMMA CalmConsumer ==
    ASSUME HidInv, ConnInv,
           \/ TakeAllowed \/ Woken \/ WaitOver \/ Drain \/ Work("keepalive")
           \/ Keepalive \/ KeepaliveSent \/ Work("respond") \/ Respond
           \/ Send("consumer")
    PROVE  Calm /\ (PingOwned => PingOwned')
<1>1. /\ UNCHANGED coreVars /\ UNCHANGED <<usb, hid, got>>
      /\ tx'.transport = tx.transport
      /\ \E to : Goto("consumer", to) /\ (to = "claim" => Takeable)
  BY TypesFact
  DEF TakeAllowed, Woken, WaitOver, Drain, Work, Keepalive, KeepaliveSent,
      Respond, StartSending, Send, Emit, Check, Put, PutWait, PutTimeout,
      SendStep, NoCoreStep
<1>2. /\ pc'.transport = pc.transport
      /\ pc'.consumer = "claim" => Takeable
  BY <1>1, GotoFact
<1>3. Calm
  BY <1>1, <1>2 DEF Calm, ConnInv, coreVars
<1>4. mutex = "transport" => mutex' = "transport"
  BY PointFact
  DEF TakeAllowed, Woken, WaitOver, Drain, Work, Keepalive, KeepaliveSent,
      Respond, Send, Emit, Check, Put, PutWait, PutTimeout, SendStep, Lock,
      Locked, Unlock, HidInv, LockOK, ConsumerAt
<1>5. PingOwned => PingOwned'
  BY <1>1, <1>2, <1>4 DEF PingOwned, coreVars, Current, Holds
<1> QED
  BY <1>3, <1>5

\* Giving up a wait, passing time and stuttering.
LEMMA CalmRest ==
    ASSUME HidInv, ConnInv,
           (\E t \in Task : LockTimeout(t)) \/ Passing \/ UNCHANGED vars
    PROVE  Calm /\ (PingOwned => PingOwned')
<1>1. CASE Passing \/ UNCHANGED vars
  <2>1. core' = core /\ UNCHANGED hidVars
    BY <1>1 DEF Passing, Tick, vars, coreVars
  <2> QED
    BY <2>1 DEF hidVars, Calm, ConnInv, PingOwned, Current, Holds
<1>2. ASSUME NEW t \in Task, LockTimeout(t)
      PROVE  Calm /\ (PingOwned => PingOwned')
  <2>1. /\ UNCHANGED coreVars /\ UNCHANGED <<usb, hid, mutex, tx>>
        /\ got' = got \/ got' = GotNone
    BY <1>2 DEF LockTimeout, NoCoreStep
  <2>2. /\ pc'.consumer # "claim"  \/ pc'.consumer = pc.consumer
        /\ \/ pc'.transport = pc.transport /\ got' = got
           \/ pc'.transport = "reset" /\ pc.transport \in {"sync_lock", "cleanup", "lock"}
    <3>1. CASE t = "transport"
      <4>1. Goto("transport", "reset")
            /\ pc.transport \in {"sync_lock", "cleanup", "lock"}
        BY <1>2, <3>1 DEF LockTimeout, GivesUp
      <4> QED
        BY <4>1, GotoFact
    <3>2. CASE t = "consumer"
      <4>1. (Goto("consumer", "respond") \/ Goto("consumer", "take")) /\ got' = got
        BY <1>2, <3>2 DEF LockTimeout, GivesUp
      <4> QED
        BY <4>1, GotoFact
    <3>3. CASE t = "resetter"
      <4>1. Goto("resetter", "idle") /\ got' = got
        BY <1>2, <3>3 DEF LockTimeout, GivesUp
      <4> QED
        BY <4>1, GotoFact
    <3> QED
      BY <3>1, <3>2, <3>3 DEF Task
  <2>3. GotNone.current <= usb.gen
    BY TypesFact DEF GotNone
  <2>4. Calm
    BY <2>1, <2>2, <2>3 DEF Calm, ConnInv, coreVars, AfterSync
  <2>5. PingOwned => PingOwned'
    BY <2>1, <2>2 DEF PingOwned, coreVars, Current, Holds
  <2> QED
    BY <2>4, <2>5
<1> QED
  BY <1>1, <1>2
-----------------------------------------------------------------------------
(* The steps that change the connection or the statics. *)

\* A reset that is due stays due as long as the transport task has not looked.
LEMMA UsbConn ==
    ASSUME HidInv, ConnInv,
           \/ Attached \/ Detached \/ Suspended \/ Resumed
           \/ \E p \in HostReport : SetReport(p)
    PROVE  ConnInv' /\ (OwnInv => OwnInv')
<1>0. usb.gen \in Nat /\ hid.seen_gen \in Nat /\ usb \in UsbType /\ got.current \in Nat
      /\ hid \in HidType
  BY TypesFact
<1>1. /\ UNCHANGED coreVars
      /\ UNCHANGED <<hid, mutex, wake, pc, got, work, tx, last>>
  BY DEF Attached, Detached, Suspended, Resumed, SetReport, Boundary, UsbStep,
         NoCoreStep
<1>2. CASE Attached \/ Detached \/ Suspended
  <2>1. PICK m \in BOOLEAN, r \in BOOLEAN :
           Boundary(m, r) /\ (r => m)
    BY <1>0, <1>2 DEF Attached, Detached, Suspended, UsbType
  <2>2. usb'.mounted = m /\ usb'.ready = r /\ usb'.gen = usb.gen + 1
    BY <2>1 DEF Boundary, UsbStep
  <2>3. ConnInv'
    <3>1. MessageOfConnection'
      BY <1>1 DEF ConnInv, MessageOfConnection, coreVars
    <3>2. hid'.seen_gen <= usb.gen /\ got'.current <= usb.gen
      BY <1>1 DEF ConnInv
    <3>3. hid'.seen_gen <= usb'.gen /\ got'.current <= usb'.gen
          /\ usb'.gen # hid'.seen_gen
      BY <1>0, <1>1, <2>2, <3>2
    <3>4. hid'.claim.valid => hid'.claim.usb_gen = hid'.seen_gen
      BY <1>1 DEF ConnInv
    <3> QED
      BY <1>1, <2>1, <2>2, <3>1, <3>3, <3>4 DEF ConnInv, coreVars
  <2>4. ResetDue'
    BY <1>0, <1>1, <2>2 DEF ConnInv, ResetDue
  <2> QED
    BY <2>3, <2>4 DEF OwnInv
<1>3. CASE Resumed \/ \E p \in HostReport : SetReport(p)
  <2>1. /\ usb'.gen = usb.gen /\ usb'.mounted = usb.mounted
        /\ usb'.ready => usb'.mounted
        /\ usb.ready => usb'.ready
    BY <1>0, <1>3 DEF Resumed, SetReport, UsbStep, UsbType, ConnInv
  <2>2. ConnInv'
    <3>1. MessageOfConnection'
      BY <1>1 DEF ConnInv, MessageOfConnection, coreVars
    <3> QED
      BY <1>1, <2>1, <3>1 DEF ConnInv, coreVars
  <2>3. OwnInv => OwnInv'
    BY <1>1, <2>1 DEF OwnInv, PingOwned, ResetDue, coreVars, Current, Holds
  <2> QED
    BY <2>2, <2>3
<1> QED
  BY <1>2, <1>3

\* A reset done by the transport task or by hid_reset_all.
LEMMA ResetConn ==
    ASSUME HidInv, HidInv', ConnInv, ProcessReset \/ ResetAll
    PROVE  ConnInv' /\ OwnInv'
<1>0. usb \in UsbType /\ hid \in HidType /\ usb.gen \in Nat /\ hid.seen_gen \in Nat
  BY TypesFact
<1>1. /\ usb' = Dropped(usb) /\ got' = got /\ ResetCore
      /\ hid' = [Forget(hid) EXCEPT !.reset_requested = FALSE]
      /\ mutex = "free"
      /\ \/ Goto("transport", "wake_sync")
         \/ Goto("resetter", "idle")
  BY DEF ProcessReset, ResetAll, Locked
<1>2. /\ usb'.gen = usb.gen /\ usb'.ready = usb.ready
      /\ usb'.mounted = usb.mounted
  BY <1>0, <1>1 DEF Dropped, UsbType
<1>3. hid'.seen_gen = hid.seen_gen
  BY <1>0, <1>1, ForgetFact DEF HidType
<1>4. core'.phase = "IDLE" /\ ~ core'.message_ready /\ ~ hid'.claim.valid
  BY <1>1, ResetIdle, IdleFact
<1>5. /\ pc'.consumer = pc.consumer
      /\ pc'.transport = "feed" => pc.transport = "feed"
  BY <1>1, GotoFact
<1>6. ConnInv'
  BY <1>1, <1>2, <1>3, <1>4, <1>5 DEF ConnInv, MessageOfConnection
<1> QED
  BY <1>4, <1>6 DEF OwnInv

\* Publishing a reset makes it due.
LEMMA PublishConn ==
    ASSUME HidInv, ConnInv, PublishReset
    PROVE  ConnInv' /\ OwnInv'
<1>0. hid \in HidType
  BY TypesFact
<1>1. /\ UNCHANGED coreVars /\ UNCHANGED <<usb, got>>
      /\ hid' = [hid EXCEPT !.reset_requested = TRUE]
      /\ Goto("resetter", "lock")
  BY DEF PublishReset, NoCoreStep
<1>2. /\ hid'.seen_gen = hid.seen_gen /\ hid'.claim = hid.claim
      /\ hid'.message_gen = hid.message_gen /\ hid'.reset_requested
      /\ hid'.reset_since_sync = hid.reset_since_sync
  BY <1>0, <1>1 DEF HidType
<1>3. pc'.consumer = pc.consumer /\ pc'.transport = pc.transport
  BY <1>1, GotoFact
<1>4. ConnInv'
  BY <1>1, <1>2, <1>3 DEF ConnInv, MessageOfConnection, coreVars
<1> QED
  BY <1>2, <1>4 DEF OwnInv, ResetDue

\* The transport task looks at the connection.
LEMMA SyncConn ==
    ASSUME HidInv, HidInv', ConnInv, Sync
    PROVE  ConnInv' /\ (OwnInv => OwnInv')
<1>0. /\ hid \in HidType /\ got \in GotType /\ usb \in UsbType
      /\ usb.gen \in Nat /\ hid.seen_gen \in Nat /\ got.current \in Nat
      /\ got.current <= usb.gen
  BY TypesFact DEF ConnInv
<1>1. /\ mutex = "free" /\ got' = GotNone /\ pc.transport = "sync_lock"
      /\ usb' = usb
      /\ pc'.consumer = pc.consumer /\ pc'.transport # "feed"
      /\ got'.current <= usb.gen
  BY <1>0, GotoFact DEF Sync, Locked, GotNone
<1>2. pc.consumer # "claim"
  BY <1>1, PointFact DEF HidInv, LockOK, ConsumerAt
<1>3. CASE /\ hid' = [hid EXCEPT !.reset_since_sync = FALSE]
           /\ NoCoreStep
  <2>1. /\ hid'.seen_gen = hid.seen_gen /\ hid'.claim = hid.claim
        /\ hid'.message_gen = hid.message_gen
        /\ hid'.reset_requested = hid.reset_requested
        /\ hid'.reset_since_sync = FALSE
    BY <1>0, <1>3 DEF HidType
  <2>2. ConnInv'
    BY <1>1, <1>2, <1>3, <2>1
    DEF ConnInv, MessageOfConnection, NoCoreStep, coreVars
  <2>3. OwnInv => OwnInv'
    BY <1>1, <1>3, <2>1
    DEF OwnInv, ResetDue, PingOwned, NoCoreStep, coreVars
  <2> QED
    BY <2>2, <2>3
<1>4. CASE /\ hid' = [Forget(hid) EXCEPT !.seen_gen = got.current,
                                        !.reset_since_sync = FALSE]
           /\ ResetCore
  <2>1. hid'.seen_gen = got.current
    BY <1>0, <1>4, ForgetFact DEF HidType
  <2>2. core'.phase = "IDLE" /\ ~ core'.message_ready /\ ~ hid'.claim.valid
    BY <1>4, ResetIdle, IdleFact
  <2>3. ConnInv'
    BY <1>0, <1>1, <1>2, <2>1, <2>2 DEF ConnInv, MessageOfConnection
  <2> QED
    BY <2>2, <2>3 DEF OwnInv
<1> QED
  BY <1>3, <1>4 DEF Sync

\* It takes a report.
LEMMA TakeReportConn ==
    ASSUME HidInv, ConnInv, TakeReport
    PROVE  ConnInv' /\ (OwnInv => OwnInv')
<1>1. /\ UNCHANGED coreVars /\ UNCHANGED <<hid, mutex, tx>>
      /\ pc.transport = "take" /\ pc'.transport = "taken"
      /\ pc'.consumer = pc.consumer
  BY GotoFact DEF TakeReport, NoCoreStep
<1>2. /\ usb'.gen = usb.gen /\ usb'.ready = usb.ready
      /\ usb'.mounted = usb.mounted /\ got'.current = got.current
  BY TypesFact DEF TakeReport, UsbType, GotType
<1>3. ConnInv'
  BY <1>1, <1>2 DEF ConnInv, MessageOfConnection, AfterSync, coreVars
<1>4. OwnInv => OwnInv'
  BY <1>1, <1>2 DEF OwnInv, ResetDue, PingOwned, coreVars
<1> QED
  BY <1>3, <1>4

\* It admits the report, or drops it and follows the new connection.
LEMMA AdmitConn ==
    ASSUME HidInv, HidInv', ConnInv, Admit
    PROVE  ConnInv' /\ (OwnInv => OwnInv')
<1> DEFINE seen == [hid EXCEPT !.seen_gen = got.current,
                               !.reset_requested = FALSE]
<1>0. /\ hid \in HidType /\ got \in GotType /\ usb \in UsbType
      /\ usb.gen \in Nat /\ hid.seen_gen \in Nat /\ got.current \in Nat
      /\ got.current <= usb.gen
  BY TypesFact DEF ConnInv
<1>1. /\ seen \in HidType /\ seen.seen_gen = got.current
      /\ seen.claim = hid.claim /\ seen.message_gen = hid.message_gen
      /\ seen.reset_requested = FALSE
  BY <1>0 DEF HidType, GotType
<1>2. \/ ResetCore /\ hid' = Forget(seen)
      \/ /\ NoCoreStep /\ hid' = seen /\ ~ hid.reset_requested
         /\ NewConnection => Raced
  BY DEF Admit
<1>3. /\ usb'.gen = usb.gen /\ usb'.ready = usb.ready
      /\ usb'.mounted = usb.mounted
  BY <1>0 DEF Admit, Dropped, UsbType
<1>4. /\ pc.transport = "admit" /\ pc.consumer # "claim"
      /\ pc'.consumer = pc.consumer
      /\ pc'.transport \in {"feed", "wake_reset"}
  BY GotoFact, PointFact DEF Admit, HidInv, LockOK, TransportAt, ConsumerAt
<1>5. /\ got'.current <= usb'.gen
      /\ pc'.transport = "feed" => got'.usb_gen = got.current
  <2>1. \/ /\ Admissible /\ got' = [got EXCEPT !.current = 0]
        \/ got' = GotNone /\ Goto("transport", "wake_reset")
    BY DEF Admit
  <2> QED
    BY <1>0, <1>3, <2>1, GotoFact DEF GotNone, GotType, Admissible
<1> HIDE DEF seen
<1>6. CASE ResetCore /\ hid' = Forget(seen)
  <2>1. hid'.seen_gen = got.current
    BY <1>1, <1>6, ForgetFact
  <2>2. core'.phase = "IDLE" /\ ~ core'.message_ready /\ ~ hid'.claim.valid
    BY <1>6, ResetIdle, IdleFact
  <2>3. ConnInv'
    BY <1>0, <1>3, <1>4, <1>5, <2>1, <2>2 DEF ConnInv, MessageOfConnection
  <2> QED
    BY <2>2, <2>3 DEF OwnInv
<1>7. CASE /\ NoCoreStep /\ hid' = seen /\ ~ hid.reset_requested
           /\ NewConnection => Raced
  <2>0. core' = core
    BY <1>7 DEF NoCoreStep, coreVars
  <2>1. CASE NewConnection
    <3>1. core.phase = "IDLE"
      BY <1>4, <1>7, <2>1 DEF Raced, ConnInv, AfterSync
    <3>2. core'.phase = "IDLE" /\ ~ core'.message_ready /\ ~ hid'.claim.valid
      BY <2>0, <3>1, IdleFact
    <3>3. ConnInv'
      BY <1>0, <1>1, <1>3, <1>4, <1>5, <1>7, <3>2
      DEF ConnInv, MessageOfConnection
    <3> QED
      BY <3>2, <3>3 DEF OwnInv
  <2>2. CASE ~ NewConnection
    <3>1. /\ hid'.seen_gen = hid.seen_gen /\ hid'.claim = hid.claim
          /\ hid'.message_gen = hid.message_gen
          /\ hid'.reset_requested = hid.reset_requested
          /\ hid'.seen_gen = got.current
      BY <1>0, <1>1, <1>7, <2>2 DEF NewConnection, HidType
    <3>2. ConnInv'
      <4>1. hid'.claim.valid => /\ hid'.claim.usb_gen = hid'.seen_gen
                                /\ hid'.claim.usb_gen = usb'.gen => usb'.ready
        BY <1>3, <3>1 DEF ConnInv
      <4>2. MessageOfConnection'
        BY <2>0, <3>1 DEF ConnInv, MessageOfConnection
      <4> QED
        BY <1>0, <1>3, <1>4, <1>5, <3>1, <4>1, <4>2 DEF ConnInv, AfterSync
    <3>3. OwnInv => OwnInv'
      BY <1>3, <1>4, <2>0, <3>1 DEF OwnInv, ResetDue, PingOwned
    <3> QED
      BY <3>2, <3>3
  <2> QED
    BY <2>1, <2>2
<1> QED
  BY <1>2, <1>6, <1>7

\* A claim on a transaction that goes on is kept, or a reset is due.
LEMMA ClaimGoesOn ==
    ASSUME HidInv, ConnInv, hid.claim.valid, Continues(core, core'),
           ~ ResetDue
    PROVE  KeptClaim(core') = hid.claim
<1>1. Current(core, hid.claim.cid, hid.claim.generation)
  BY DEF HidInv, ClaimCurrent
<1>2. Current(core', hid.claim.cid, hid.claim.generation)
  <2>1. PICK s \in Slot : Holds(core, s, hid.claim.cid)
                          /\ core.channels[s].generation = hid.claim.generation
    BY <1>1 DEF Current
  <2>2. hid.claim.cid = core.active_cid
    BY <1>1 DEF Current
  <2>3. /\ core'.phase = "PROCESSING" /\ core'.active_cid = hid.claim.cid
        /\ Holds(core', s, hid.claim.cid)
        /\ core'.channels[s].generation = hid.claim.generation
    BY <1>1, <2>1, <2>2 DEF Continues, Current
  <2> QED
    BY <2>3 DEF Current
<1>3. ClaimMatches(core', hid.claim.cid)
  BY <1>2 DEF ClaimMatches, ConnInv, ResetDue
<1> QED
  BY <1>3 DEF KeptClaim

\* The report reaches the core: a request it completes is the transport
\* task's to answer or waits for the consumer.
LEMMA FeedConn ==
    ASSUME HidInv, HidInv', ConnInv, FeedReport
    PROVE  ConnInv' /\ (OwnInv /\ ~ WrappedPing => OwnInv')
<1>0. /\ hid \in HidType /\ got \in GotType
      /\ usb.gen \in Nat /\ Outcome(core)
      /\ tx \in [transport : TxType, consumer : TxType]
  BY TypesFact, FeedFact
<1>1. /\ pc.transport = "feed" /\ usb' = usb /\ got' = GotNone
      /\ got.usb_gen = hid.seen_gen /\ got'.current <= usb.gen
  BY <1>0 DEF FeedReport, ConnInv, GotNone
<1>2. mutex = "transport" /\ pc.consumer # "claim"
  BY <1>1, PointFact DEF HidInv, LockOK, TransportAt, ConsumerAt
<1>3. /\ hid'.claim = KeptClaim(core') /\ hid'.seen_gen = hid.seen_gen
      /\ hid'.reset_requested = hid.reset_requested
      /\ hid'.message_gen = IF action'.kind = "MESSAGE" THEN got.usb_gen
                                                       ELSE hid.message_gen
  BY <1>0 DEF FeedReport, HidType
<1>4. hid'.claim = hid.claim \/ ~ hid'.claim.valid
  BY <1>3, EmptyFact DEF KeptClaim
<1>5. \/ /\ action'.kind = "SEND" /\ mutex' = "transport"
         /\ tx'.transport = Reply
         /\ pc'.transport \in {"emit", "sent"}
      \/ /\ action'.kind # "SEND"
         /\ pc'.transport \in {"wake_reset", "reset"}
  BY <1>0, <1>2, GotoFact DEF FeedReport, StartSending, AfterFeed
<1>6. pc'.consumer = pc.consumer
  BY GotoFact DEF FeedReport, StartSending
<1>7. MessageOfConnection'
  <2>1. SUFFICES ASSUME core'.message_ready
                 PROVE  hid'.message_gen = hid'.seen_gen
    BY DEF MessageOfConnection
  <2>2. core'.phase = "PROCESSING" /\ core'.active_command = "CBOR"
    BY <2>1 DEF HidInv, IInv, TransactionOwned, Owned, WaitingMessage
  <2>3. CASE core.phase = "PROCESSING"
    <3>1. Minor /\ Continues(core, core')
      BY <1>0, <2>2, <2>3 DEF Outcome
    <3>2. core.message_ready /\ action'.kind # "MESSAGE"
      BY <2>1, <3>1 DEF Continues, Minor
    <3> QED
      BY <1>3, <3>2 DEF ConnInv, MessageOfConnection
  <2>4. CASE core.phase # "PROCESSING"
    <3>1. action'.kind = "MESSAGE"
      BY <1>0, <2>2, <2>4 DEF Outcome, Completed
    <3> QED
      BY <1>1, <1>3, <3>1
  <2> QED
    BY <2>3, <2>4
<1>8. ConnInv'
  BY <1>1, <1>2, <1>3, <1>4, <1>5, <1>6, <1>7 DEF ConnInv, AfterSync
<1>9. ASSUME OwnInv, ~ WrappedPing, core'.phase = "PROCESSING", ~ ResetDue'
      PROVE  \/ PingOwned'
             \/ core'.active_command = "CBOR"
                  /\ (core'.message_ready \/ hid'.claim.valid)
  <2>1. ~ ResetDue
    BY <1>1, <1>3, <1>9 DEF ResetDue
  <2>2. CASE core.phase = "PROCESSING"
    <3>1. Continues(core, core')
      BY <1>0, <1>9, <2>2 DEF Outcome
    <3>2. core.active_command = "CBOR" /\ (core.message_ready \/ hid.claim.valid)
      BY <1>1, <1>9, <2>1, <2>2 DEF OwnInv, PingOwned
    <3>3. hid.claim.valid => hid'.claim.valid
      BY <1>3, <2>1, <3>1, ClaimGoesOn
    <3> QED
      BY <3>1, <3>2, <3>3 DEF Continues
  <2>3. CASE core.phase # "PROCESSING"
    <3>1. Completed
      BY <1>0, <1>9, <2>3 DEF Outcome
    <3>2. CASE core'.active_command = "PING"
      <4>1. /\ action'.kind = "SEND" /\ action'.command = "PING"
            /\ Current(core', action'.cid, action'.generation)
        BY <3>1, <3>2 DEF Completed
      <4>2. action'.generation # 0
        BY <1>9, <4>1 DEF WrappedPing
      <4>3. /\ tx'.transport.cid = action'.cid
            /\ tx'.transport.generation = action'.generation
        BY <1>5, <4>1 DEF Reply
      <4> QED
        BY <1>5, <3>2, <4>1, <4>2, <4>3 DEF PingOwned, Current, Holds
    <3>3. CASE core'.active_command = "CBOR"
      BY <3>1, <3>3 DEF Completed
    <3> QED
      BY <3>1, <3>2, <3>3 DEF Completed
  <2> QED
    BY <2>2, <2>3
<1> QED
  BY <1>8, <1>9 DEF OwnInv

\* The consumer takes the request and claims it for its connection.
LEMMA ClaimConn ==
    ASSUME HidInv, HidInv', ConnInv, Claim
    PROVE  ConnInv' /\ (OwnInv => OwnInv')
<1>0. hid \in HidType /\ core \in CoreType
  BY TypesFact, IInvFact DEF HidInv, CoreOK
<1>1. /\ pc.consumer = "claim" /\ usb' = usb /\ got' = got
      /\ pc'.transport = pc.transport /\ pc'.consumer # "claim"
  BY GotoFact DEF Claim
<1>2. mutex = "consumer"
  BY <1>1, PointFact DEF HidInv, LockOK, ConsumerAt
<1>3. CASE NoCoreStep /\ UNCHANGED hid
  BY <1>1, <1>2, <1>3
  DEF NoCoreStep, coreVars, ConnInv, MessageOfConnection, OwnInv, PingOwned, ResetDue
<1>4. CASE ResetCore /\ hid' = Forget(hid)
  <2>1. hid'.seen_gen = hid.seen_gen
    BY <1>0, <1>4, ForgetFact
  <2>2. core'.phase = "IDLE" /\ ~ core'.message_ready /\ ~ hid'.claim.valid
    BY <1>4, ResetIdle, IdleFact
  <2>3. ConnInv'
    BY <1>1, <2>1, <2>2 DEF ConnInv, MessageOfConnection
  <2> QED
    BY <2>2, <2>3 DEF OwnInv
<1>5. CASE /\ Step(TakeMessage, NoReport)
           /\ hid' = [hid EXCEPT
               !.claim = [valid |-> TRUE, cid |-> core.complete.cid,
                          generation |-> core.complete.generation,
                          usb_gen |-> hid.message_gen],
               !.message_gen = 0]
  <2>1. core.message_ready /\ core' = Taken(core)
    BY <1>5 DEF Step, TakeMessage
  <2>2. /\ core'.phase = core.phase /\ ~ core'.message_ready
        /\ core'.active_command = core.active_command
    BY <1>0, <2>1 DEF Taken, CoreType
  <2>3. /\ hid'.claim.valid /\ hid'.claim.usb_gen = hid.message_gen
        /\ hid'.seen_gen = hid.seen_gen
        /\ hid'.reset_since_sync = hid.reset_since_sync
    BY <1>0, <1>5 DEF HidType
  <2>4. hid.message_gen = hid.seen_gen
    BY <2>1 DEF ConnInv, MessageOfConnection
  <2>5. ConnInv'
    BY <1>1, <2>2, <2>3, <2>4 DEF ConnInv, MessageOfConnection
  <2>6. OwnInv'
    BY <2>1, <2>2, <2>3, ProcessingFact DEF OwnInv
  <2> QED
    BY <2>5, <2>6
<1> QED
  BY <1>3, <1>4, <1>5 DEF Claim

\* The response ends the transaction.
LEMMA RespondedConn ==
    ASSUME HidInv, HidInv', ConnInv, Responded
    PROVE  ConnInv' /\ OwnInv'
<1>0. hid \in HidType /\ CoreOK(core)
  BY TypesFact, IInvFact DEF HidInv
<1>1. /\ usb' = usb /\ got' = got /\ hid' = [hid EXCEPT !.claim = NoClaim]
      /\ pc.consumer = "sent" /\ Goto("consumer", "take")
  BY DEF Responded
<1>2. /\ pc'.transport = pc.transport /\ pc'.consumer # "claim"
  BY <1>1, GotoFact
<1>3. Current(core, tx.consumer.cid, tx.consumer.generation)
  BY <1>1, PointFact DEF HidInv, AnswerOK, ConsumerAt
<1>4. core' = ClearActive(core, TRUE)
  BY <1>3 DEF Responded, Step, FinishResponse, Finished
<1>5. core'.phase = "IDLE"
  BY <1>0, <1>3, <1>4, ClearActiveOK DEF Current
<1>6. ~ core'.message_ready /\ ~ hid'.claim.valid /\ hid'.seen_gen = hid.seen_gen
  BY <1>0, <1>1, <1>5, IdleFact DEF HidType
<1>7. ConnInv'
  BY <1>1, <1>2, <1>5, <1>6 DEF ConnInv, MessageOfConnection
<1> QED
  BY <1>5, <1>7 DEF OwnInv
-----------------------------------------------------------------------------
(* The invariants. *)

\* Every step.
LEMMA OwnerStep ==
    ASSUME HidInv, HidInv', ConnInv, [HidNext]_vars
    PROVE  ConnInv' /\ (OwnInv /\ ~ WrappedPing => OwnInv')
<1>1. CASE Attached \/ Detached \/ Suspended \/ Resumed
           \/ \E p \in HostReport : SetReport(p)
  BY <1>1, UsbConn
<1>2. CASE Transport
  <2>1. CASE ProcessReset \/ Sync \/ TakeReport \/ Admit \/ FeedReport
    BY <2>1, ResetConn, SyncConn, TakeReportConn, AdmitConn, FeedConn
  <2>2. CASE Send("transport") \/ Replied
    BY <2>2, CalmReply, CalmReplied, CalmConn, CalmOwn
  <2> QED
    BY <1>2, <2>1, <2>2, CalmTransport, CalmConn, CalmOwn DEF Transport
<1>3. CASE Consumer
  <2>1. CASE Claim \/ Responded
    BY <2>1, ClaimConn, RespondedConn
  <2> QED
    BY <1>3, <2>1, CalmConsumer, CalmConn, CalmOwn DEF Consumer
<1>4. CASE Resetter
  BY <1>4, ResetConn, PublishConn DEF Resetter
<1>5. CASE (\E t \in Task : LockTimeout(t)) \/ Passing \/ UNCHANGED vars
  BY <1>5, CalmRest, CalmConn, CalmOwn
<1> QED
  BY <1>1, <1>2, <1>3, <1>4, <1>5 DEF HidNext

\* The initial states.
LEMMA OwnerInit == HidInit => ConnInv /\ OwnInv
<1> SUFFICES ASSUME HidInit PROVE ConnInv /\ OwnInv
  OBVIOUS
<1>1. /\ usb.gen = 0 /\ ~ usb.ready /\ hid.seen_gen = 0 /\ ~ hid.claim.valid
      /\ got.current = 0 /\ pc.consumer = "take" /\ pc.transport = "reset"
      /\ core.phase = "IDLE" /\ ~ core.message_ready
  BY EmptyFact DEF HidInit, Init, CoreInit, GotNone
<1> QED
  BY <1>1 DEF ConnInv, OwnInv, MessageOfConnection, AfterSync

\* What tasks know of the connection holds throughout.
LEMMA ConnInvariance == HidSpec => []ConnInv
<1>1. HidInv /\ HidInv' /\ ConnInv /\ [HidNext]_vars => ConnInv'
  BY OwnerStep
<1> QED
  BY <1>1, OwnerInit, HidInvariance, PTL DEF HidSpec

\* The message that waits came over the connection the core was last reset
\* for, however USB events fall between the reads of the generation.
THEOREM MessageOfConnectionTheorem == HidSpec => []MessageOfConnection
<1>1. ConnInv => MessageOfConnection
  BY DEF ConnInv
<1> QED
  BY <1>1, ConnInvariance, PTL

-----------------------------------------------------------------------------
(* Wake-ups. *)

\* No step wakes the consumer too late: a message comes with the transport
\* task about to wake it, and only the consumer takes a wake-up away.
LEMMA WakeStep ==
    ASSUME HidInv, HidInv', NoLostWake, [HidNext]_vars
    PROVE  NoLostWake'
<1> SUFFICES ASSUME pc'.consumer = "wait", core'.message_ready
             PROVE  wake' \/ pc'.transport = "wake_reset"
  BY DEF NoLostWake
<1>0. pc \in PcType /\ CoreOK(core)
  BY TypesFact, IInvFact DEF HidInv
<1>1. ASSUME pc.consumer = "wait", core.message_ready, wake' = wake,
             pc.transport = "wake_reset" => pc'.transport = "wake_reset"
      PROVE  wake' \/ pc'.transport = "wake_reset"
  BY <1>1 DEF NoLostWake
<1>2. CASE \/ Attached \/ Detached \/ Suspended \/ Resumed
           \/ \E p \in HostReport : SetReport(p)
           \/ Passing \/ UNCHANGED vars
  <2>1. core' = core /\ pc' = pc /\ wake' = wake
    BY <1>2 DEF Attached, Detached, Suspended, Resumed, SetReport, Boundary,
                UsbStep, NoCoreStep, coreVars, Passing, Tick, hidVars, vars
  <2> QED
    BY <1>1, <2>1
<1>3. ASSUME ResetCore
      PROVE  FALSE
  BY <1>3, ResetIdle, IdleFact
<1>4. CASE Transport
  <2>1. CASE \/ WakeThen("wake_sync", "sync") \/ WakeThen("wake_take", "take")
             \/ WakeThen("wake_reset", "reset")
    BY <2>1 DEF WakeThen
  <2>2. CASE FeedReport
    <3>0. Outcome(core)
      BY <2>2, FeedFact
    <3>1. core'.phase = "PROCESSING" /\ core'.active_command = "CBOR"
      BY DEF HidInv, IInv, TransactionOwned, Owned, WaitingMessage
    <3>2. pc.transport = "feed" /\ wake' = wake /\ pc'.consumer = pc.consumer
      BY <2>2, GotoFact DEF FeedReport, StartSending
    <3>3. CASE core.phase = "PROCESSING"
      <4>1. core.message_ready
        BY <3>0, <3>1, <3>3 DEF Outcome, Continues
      <4> QED
        BY <1>1, <3>2, <4>1
    <3>4. CASE core.phase # "PROCESSING"
      <4>1. action'.kind = "MESSAGE"
        BY <3>0, <3>1, <3>4 DEF Outcome, Completed
      <4>2. Goto("transport", "wake_reset")
        BY <2>2, <4>1 DEF FeedReport, AfterFeed
      <4> QED
        BY <4>2, GotoFact
    <3> QED
      BY <3>3, <3>4
  <2>3. CASE Replied \/ CleanUp
    <3>1. /\ wake' = wake /\ pc'.consumer = pc.consumer
          /\ pc.transport # "wake_reset"
      BY <2>3, GotoFact DEF Replied, CleanUp
    <3>2. core' = core
      <4>1. core'.phase = "PROCESSING"
        BY DEF HidInv, IInv, TransactionOwned, Owned, WaitingMessage
      <4>2. CASE CleanUp
        <5>1. core' = Cleanup(core, now)
          BY <4>2 DEF CleanUp, Step, PeriodicCleanup
        <5> QED
          BY <1>0, <4>1, <5>1 DEF Cleanup, CoreOK, CoreType
      <4>3. CASE Replied /\ Finishes
        <5>1. core' = Finished(core, tx.transport.cid, tx.transport.generation)
          BY <4>3 DEF Replied, Step, FinishResponse
        <5> QED
          BY <1>0, <4>1, <5>1, ClearActiveOK DEF Finished, Current
      <4>4. CASE Replied /\ ~ Finishes
        BY <4>4 DEF Replied, NoCoreStep, coreVars
      <4> QED
        BY <2>3, <4>2, <4>3, <4>4
    <3> QED
      BY <1>1, <3>1, <3>2
  <2>4. CASE NoCoreStep /\ ~ FeedReport /\ ~ Replied /\ ~ CleanUp
    <3>1. \/ /\ wake' = wake /\ pc'.consumer = pc.consumer
             /\ pc.transport # "wake_reset"
          \/ wake'
      <4>1. \/ \E to : Goto("transport", to)
                       /\ wake' = wake /\ pc.transport # "wake_reset"
            \/ wake'
        BY <1>4, <2>4
        DEF Transport, NoResetRequested, ProcessReset, ReadGeneration, Sync,
            TakeReport, RecheckReport, TakeNothing, LockForReport, Admit, Send,
            Emit, Check, Put, PutWait, PutTimeout, SendStep, WakeThen
      <4> QED
        BY <4>1, GotoFact
    <3> QED
      BY <1>1, <2>4, <3>1 DEF NoCoreStep, coreVars
  <2> QED
    BY <1>3, <1>4, <2>1, <2>2, <2>3, <2>4
    DEF Transport, NoResetRequested, ProcessReset, ReadGeneration, Sync,
        TakeReport, RecheckReport, TakeNothing, LockForReport, Admit, Send,
        Emit, Check, Put, PutWait, PutTimeout, SendStep
<1>5. CASE Consumer
  <2>1. Claim
    <3>1. ASSUME NEW to \in {"take", "claim", "work", "keepalive", "respond",
                             "emit", "check", "put", "sent"},
                 Goto("consumer", to)
          PROVE  FALSE
      BY <3>1, GotoFact
    <3> QED
      BY <1>5, <3>1
      DEF Consumer, TakeAllowed, Woken, WaitOver, Drain, Work, Keepalive,
          KeepaliveSent, Respond, StartSending, Responded, Send, Emit, Check, Put,
          PutWait, PutTimeout
  <2>2. ~ core.message_ready /\ NoCoreStep
    <3>1. Goto("consumer", "take") \/ Goto("consumer", "drain") => FALSE
      BY GotoFact
    <3> QED
      BY <2>1, <3>1 DEF Claim
  <2> QED
    BY <2>2 DEF NoCoreStep, coreVars
<1>6. CASE Resetter
  BY <1>6 DEF Resetter, PublishReset, ResetAll
<1>7. CASE \E t \in Task : LockTimeout(t)
  <2>1. PICK t \in Task : LockTimeout(t)
    BY <1>7
  <2>2. core' = core /\ wake' = wake
    BY <2>1 DEF LockTimeout, NoCoreStep, coreVars
  <2>3. pc'.consumer = pc.consumer
        /\ (pc.transport = "wake_reset" => pc'.transport = "wake_reset")
    <3>1. CASE t = "transport"
      <4>1. Goto("transport", "reset")
            /\ pc.transport \in {"sync_lock", "cleanup", "lock"}
        BY <2>1, <3>1 DEF LockTimeout, GivesUp
      <4> QED
        BY <4>1, GotoFact
    <3>2. CASE t = "consumer"
      <4>1. Goto("consumer", "respond") \/ Goto("consumer", "take")
        BY <2>1, <3>2 DEF LockTimeout, GivesUp
      <4> QED
        BY <4>1, GotoFact
    <3>3. CASE t = "resetter"
      <4>1. Goto("resetter", "idle")
        BY <2>1, <3>3 DEF LockTimeout, GivesUp
      <4> QED
        BY <4>1, GotoFact
    <3> QED
      BY <3>1, <3>2, <3>3 DEF Task
  <2> QED
    BY <1>1, <2>2, <2>3
<1> QED
  BY <1>2, <1>4, <1>5, <1>6, <1>7 DEF HidNext

\* A waiting consumer never sleeps through a message.
THEOREM NoLostWakeTheorem == HidSpec => []NoLostWake
<1>1. HidInit => NoLostWake
  BY DEF HidInit, NoLostWake
<1>2. HidInv /\ HidInv' /\ NoLostWake /\ [HidNext]_vars => NoLostWake'
  BY WakeStep
<1> QED
  BY <1>1, <1>2, HidInvariance, PTL DEF HidSpec
-----------------------------------------------------------------------------
(* Claims and their worker. *)

\* A claim has its worker, or a reset is due that ends it.
ClaimWorked == hid.claim.valid => ClaimOwned \/ ResetDue

\* What a step not of the consumer may do to a claim: a reset that is due is
\* done or stays due, and a claim stays as it is or is gone.
Beside == /\ work' = work /\ pc'.consumer = pc.consumer
          /\ hid'.claim.valid => hid'.claim = hid.claim
          /\ ResetDue => ResetDue' \/ ~ hid'.claim.valid

\* Every step that is not the consumer's is one of these.
LEMMA BesideOK ==
    ASSUME HidInv, HidInv', ConnInv,
           \/ Attached \/ Detached \/ Suspended \/ Resumed
           \/ \E p \in HostReport : SetReport(p)
           \/ Transport \/ Resetter \/ Passing \/ UNCHANGED vars
    PROVE  Beside
<1>0. /\ usb \in UsbType /\ hid \in HidType /\ got \in GotType
      /\ usb.gen \in Nat /\ hid.seen_gen \in Nat
  BY TypesFact
<1>1. CASE \/ Attached \/ Detached \/ Suspended \/ Resumed
           \/ \E p \in HostReport : SetReport(p)
  <2>1. UNCHANGED <<hid, pc, work>>
    BY <1>1 DEF Attached, Detached, Suspended, Resumed, SetReport, Boundary, UsbStep
  <2>2. usb'.gen = usb.gen \/ usb'.gen = usb.gen + 1
    BY <1>0, <1>1 DEF Attached, Detached, Suspended, Resumed, SetReport,
                      Boundary, UsbStep, UsbType
  <2>3. hid.seen_gen <= usb.gen
    BY DEF ConnInv
  <2>4. ResetDue => ResetDue'
    BY <1>0, <2>1, <2>2, <2>3 DEF ResetDue
  <2> QED
    BY <2>1, <2>4 DEF Beside
<1>2. CASE Transport
  <2>1. work' = work /\ pc'.consumer = pc.consumer
    <3>1. work' = work /\ \E to : Goto("transport", to)
      BY <1>2
      DEF Transport, NoResetRequested, ProcessReset, ReadGeneration, Sync,
          TakeReport, RecheckReport, TakeNothing, CleanUp, LockForReport, Admit,
          FeedReport, Send, Emit, Check, Put, PutWait, PutTimeout, SendStep,
          Replied, StartSending, WakeThen
    <3> QED
      BY <3>1, GotoFact
  <2>2. CASE UNCHANGED <<usb, hid>>
    BY <2>1, <2>2 DEF Beside, ResetDue
  <2>3. CASE ResetCore
    <3>1. ~ hid'.claim.valid
      BY <2>3, ResetIdle, IdleFact
    <3> QED
      BY <2>1, <3>1 DEF Beside
  <2>4. CASE /\ usb'.gen = usb.gen /\ hid'.seen_gen = hid.seen_gen
             /\ hid'.reset_requested = hid.reset_requested
             /\ hid'.claim = hid.claim
    BY <2>1, <2>4 DEF Beside, ResetDue
  <2>7. CASE TakeReport
    <3>1. usb'.gen = usb.gen /\ hid' = hid
      BY <1>0, <2>7 DEF TakeReport, UsbType
    <3> QED
      BY <2>4, <3>1
  <2>8. CASE Sync
    <3>1. CASE /\ hid' = [hid EXCEPT !.reset_since_sync = FALSE]
               /\ UNCHANGED usb
      BY <1>0, <2>4, <3>1 DEF HidType
    <3> QED
      BY <2>3, <2>8, <3>1 DEF Sync
  <2>5. CASE Admit /\ NoCoreStep
    <3>1. CASE ~ hid'.claim.valid
      BY <2>1, <3>1 DEF Beside
    <3>2. CASE hid'.claim.valid /\ ~ ResetCore
      <4>1. /\ hid' = [hid EXCEPT !.seen_gen = got.current,
                                  !.reset_requested = FALSE]
            /\ ~ hid.reset_requested /\ (NewConnection => Raced)
            /\ pc.transport = "admit" /\ usb' = usb
        BY <2>5, <3>2 DEF Admit
      <4>2. core.phase = "PROCESSING"
        BY <2>5, <3>2, IdleFact DEF NoCoreStep, coreVars
      <4>3. ~ NewConnection
        BY <4>1, <4>2 DEF Raced, ConnInv, AfterSync
      <4>4. /\ hid'.claim = hid.claim /\ hid'.seen_gen = hid.seen_gen
            /\ hid'.reset_requested = hid.reset_requested
        BY <1>0, <4>1, <4>3 DEF NewConnection, HidType
      <4> QED
        BY <2>1, <4>1, <4>4 DEF Beside, ResetDue
    <3> QED
      BY <2>3, <3>1, <3>2
  <2>6. CASE FeedReport
    <3>1. /\ hid'.claim \in {hid.claim, NoClaim} /\ usb' = usb
          /\ hid'.seen_gen = hid.seen_gen
          /\ hid'.reset_requested = hid.reset_requested
      BY <1>0, <2>6 DEF FeedReport, KeptClaim, HidType
    <3> QED
      BY <2>1, <3>1, EmptyFact DEF Beside, ResetDue
  <2> QED
    BY <1>2, <2>2, <2>3, <2>5, <2>6, <2>7, <2>8
    DEF Transport, NoResetRequested, ProcessReset, ReadGeneration,
        RecheckReport, TakeNothing, CleanUp, LockForReport, Admit, Send, Emit,
        Check, Put, PutWait, PutTimeout, SendStep, Replied, WakeThen
<1>3. CASE Resetter
  <2>1. work' = work /\ pc'.consumer = pc.consumer
    BY <1>3, GotoFact DEF Resetter, PublishReset, ResetAll
  <2>2. CASE PublishReset
    <3>1. hid'.claim = hid.claim /\ hid'.reset_requested
      BY <1>0, <2>2 DEF PublishReset, HidType
    <3> QED
      BY <2>1, <3>1 DEF Beside, ResetDue
  <2>3. CASE ResetAll
    <3>1. ~ hid'.claim.valid
      BY <2>3, ResetIdle, IdleFact DEF ResetAll
    <3> QED
      BY <2>1, <3>1 DEF Beside
  <2> QED
    BY <1>3, <2>2, <2>3 DEF Resetter
<1>4. CASE Passing \/ UNCHANGED vars
  BY <1>4 DEF Passing, hidVars, vars, Beside, ResetDue
<1> QED
  BY <1>1, <1>2, <1>3, <1>4

\* A claim that does not match the core any more is one a reset is due for.
LEMMA ClaimLostFact ==
    ASSUME HidInv, ConnInv, hid.claim.valid, ~ ClaimMatches(core, hid.claim.cid)
    PROVE  ResetDue
  BY DEF HidInv, ClaimCurrent, ClaimMatches, ConnInv, ResetDue

\* The consumer's own steps: it goes from one point of its work to the next,
\* and leaves only when the claim is gone or lost.
LEMMA ConsumerWorks ==
    ASSUME HidInv, HidInv', ConnInv, ClaimWorked, Consumer
    PROVE  ClaimWorked'
<1> SUFFICES ASSUME hid'.claim.valid, ~ ResetDue'
             PROVE  work' = hid'.claim.cid /\ AtWork'
  BY DEF ClaimWorked, ClaimOwned, AtWork, Sending, ResetDue
<1>0. hid \in HidType /\ pc \in PcType
  BY TypesFact
<1>1. CASE Claim
  <2>1. CASE hid' = hid
    <3>1. pc.consumer = "claim" /\ ~ ResetDue
      BY <1>1, <2>1 DEF Claim, ResetDue
    <3> QED
      BY <2>1, <3>1 DEF ClaimWorked, ClaimOwned, AtWork, Sending
  <2>2. CASE ResetCore
    BY <2>2, ResetIdle, IdleFact
  <2>3. CASE /\ work' = core.complete.cid
             /\ hid' = [hid EXCEPT
                  !.claim = [valid |-> TRUE, cid |-> core.complete.cid,
                             generation |-> core.complete.generation,
                             usb_gen |-> hid.message_gen],
                  !.message_gen = 0]
             /\ Goto("consumer", "drain")
    <3>1. hid'.claim.cid = work' /\ pc'.consumer = "drain"
      BY <1>0, <2>3, GotoFact DEF HidType
    <3> QED
      BY <3>1 DEF AtWork
  <2> QED
    BY <1>1, <2>1, <2>2, <2>3 DEF Claim
<1>2. CASE Responded
  <2>1. ~ hid'.claim.valid
    BY <1>0, <1>2, EmptyFact DEF Responded, HidType
  <2> QED
    BY <2>1
<1>3. CASE /\ UNCHANGED <<usb, hid, work>>
           /\ AtWork => AtWork'
  BY <1>3 DEF ClaimWorked, ClaimOwned, AtWork, ResetDue
<1>4. CASE Respond /\ ~ MayRespond
  <2>1. UNCHANGED <<usb, hid>> /\ ~ ClaimMatches(core, work)
    BY <1>4 DEF Respond, MayRespond
  <2>2. hid.claim.valid /\ ~ ResetDue
    BY <2>1 DEF ResetDue
  <2>3. work = hid.claim.cid
    BY <2>2 DEF ClaimWorked, ClaimOwned
  <2> QED
    BY <2>1, <2>2, <2>3, ClaimLostFact
<1>5. CASE Consumer /\ ~ Claim /\ ~ Responded /\ ~ (Respond /\ ~ MayRespond)
  <2>1. UNCHANGED <<usb, hid, work>>
    BY <1>5
    DEF Consumer, TakeAllowed, Woken, WaitOver, Drain, Work, Keepalive,
        KeepaliveSent, Respond, Send, Emit, Check, Put, PutWait, PutTimeout,
        SendStep
  <2>2. \/ pc.consumer \in {"take", "wait"}
        \/ \E to \in {"work", "keepalive", "respond", "emit", "check", "put",
                      "sent"} : Goto("consumer", to)
    BY <1>5
    DEF Consumer, TakeAllowed, Woken, WaitOver, Drain, Work, Keepalive,
        KeepaliveSent, Respond, StartSending, Send, Emit, Check, Put, PutWait,
        PutTimeout
  <2>3. AtWork => AtWork'
    BY <2>2, GotoFact DEF AtWork, Sending
  <2> QED
    BY <1>3, <2>1, <2>3
<1> QED
  BY <1>1, <1>2, <1>4, <1>5

\* Every step but the one by which the consumer gives up its response.
LEMMA WorkedStep ==
    ASSUME HidInv, HidInv', ConnInv, ClaimWorked, [HidNext]_vars,
           ~ GivesUpResponse
    PROVE  ClaimWorked'
<1>1. CASE Beside
  BY <1>1 DEF Beside, ClaimWorked, ClaimOwned, AtWork, Sending, ResetDue
<1>2. CASE Consumer
  BY <1>2, ConsumerWorks
<1>3. CASE LockTimeout("transport") \/ LockTimeout("resetter")
  <2>1. PICK t \in {"transport", "resetter"} : LockTimeout(t)
    BY <1>3
  <2>2. UNCHANGED <<usb, hid>> /\ pc[t] # "respond"
    BY <2>1 DEF LockTimeout, GivesUp
  <2>3. work' = work /\ \E to : Goto("transport", to) \/ Goto("resetter", to)
    BY <2>1, <2>2 DEF LockTimeout
  <2>4. pc'.consumer = pc.consumer
    BY <2>3, GotoFact
  <2> QED
    BY <2>2, <2>3, <2>4 DEF ClaimWorked, ClaimOwned, AtWork, Sending, ResetDue
<1>4. CASE LockTimeout("consumer")
  <2>1. pc.consumer = "keepalive"
    BY <1>4 DEF LockTimeout, GivesUp, GivesUpResponse
  <2>2. UNCHANGED <<usb, hid, work>> /\ Goto("consumer", "respond")
    BY <1>4, <2>1 DEF LockTimeout, GivesUp
  <2>3. pc'.consumer = "respond"
    BY <2>2, GotoFact
  <2> QED
    BY <2>1, <2>2, <2>3 DEF ClaimWorked, ClaimOwned, AtWork, ResetDue
<1> QED
  BY <1>1, <1>2, <1>3, <1>4, BesideOK DEF HidNext, Task
-----------------------------------------------------------------------------
(* A request in processing and its owner. *)

\* It has one if and only if it has one with the claims left aside and every
\* claim has its worker.
LEMMA OwnerFact ==
    ASSUME HidInv
    PROVE  NoOrphan <=> OwnInv /\ ClaimWorked
<1>1. hid.claim.valid => /\ core.phase = "PROCESSING"
                         /\ core.active_command = "CBOR"
                         /\ ~ core.message_ready
  BY DEF HidInv, ClaimCurrent, Current
<1>2. NoOrphan => OwnInv
  BY DEF NoOrphan, OwnInv, ClaimOwned
<1>3. NoOrphan => ClaimWorked
  BY <1>1 DEF NoOrphan, ClaimWorked, PingOwned
<1>4. OwnInv /\ ClaimWorked => NoOrphan
  BY DEF NoOrphan, OwnInv, ClaimWorked
<1> QED
  BY <1>2, <1>3, <1>4

\* The same of the state after a step.
LEMMA OwnerFactNext ==
    ASSUME HidInv', OwnInv', ClaimWorked'
    PROVE  NoOrphan'
  BY DEF NoOrphan, OwnInv, ClaimWorked

\* One step.
LEMMA OrphanStep ==
    ASSUME HidInv, HidInv', ConnInv, NoOrphan, [HidNext]_vars,
           ~ GivesUpResponse, ~ WrappedPing
    PROVE  NoOrphan'
<1>1. OwnInv /\ ClaimWorked
  BY OwnerFact
<1>2. OwnInv'
  BY <1>1, OwnerStep
<1>3. ClaimWorked'
  BY <1>1, WorkedStep
<1> QED
  BY <1>2, <1>3, OwnerFactNext

\* In the beginning there is no request.
LEMMA OrphanInit == HidInit => NoOrphan
  BY DEF HidInit, Init, CoreInit, NoOrphan

\* Whichever tasks may give up their waits for the core mutex and however
\* many requests, resets and connections there are: a request in processing
\* comes to be without an owner only when hid_send_msg gives up its wait, or
\* when a PING got the generation that means there is nothing to finish.
THEOREM OrphansOnlyByTheorem == HidSpec => OrphansOnlyBy
<1>1. HidInv /\ HidInv' /\ ConnInv /\ [HidNext]_vars
        => [NoOrphan /\ ~ NoOrphan' => GivesUpResponse \/ WrappedPing]_vars
  BY OrphanStep
<1> QED
  BY <1>1, OrphanInit, HidInvariance, ConnInvariance, PTL
  DEF HidSpec, OrphansOnlyBy

\* Hence, in a run in which neither happens, every request in processing has
\* at all times somebody who will end it.
THEOREM NoOrphanTheorem ==
    HidSpec /\ [][~ GivesUpResponse /\ ~ WrappedPing]_vars => []NoOrphan
<1>1. UNCHANGED vars /\ HidInv' /\ NoOrphan => NoOrphan'
  BY DEF vars, coreVars, hidVars, NoOrphan, PingOwned, ClaimOwned, AtWork,
     Sending, ResetDue, Current, Holds
<1>2. /\ HidInv /\ HidInv' /\ ConnInv /\ NoOrphan /\ [HidNext]_vars
      /\ [~ GivesUpResponse /\ ~ WrappedPing]_vars
      => NoOrphan'
  BY <1>1, OrphanStep
<1> QED
  BY <1>2, OrphanInit, HidInvariance, ConnInvariance, PTL DEF HidSpec
-----------------------------------------------------------------------------
(* What the handlers are told of a cancel. *)

\* The consumer is between having taken a request and having dealt with it.
Busy == pc.consumer \notin {"take", "claim", "wait"}

\* Once hid_cancelled says that the request is cancelled it says so until the
\* request is dealt with: no reset, resynchronisation or host takes that back.
\* Press and Ctap rest on it, whose Cancel only ever sets the flag they poll.
CancelStays == [][(Busy /\ Busy' /\ HidCancelled) => HidCancelled']_vars

\* What a step that leaves the consumer busy may do to its request, whoever's
\* step it is.
LEMMA BusyStep ==
    ASSUME HidInv, HidInv', ConnInv, [HidNext]_vars, Busy, Busy'
    PROVE  /\ work' = work
           /\ hid'.claim.valid => hid'.claim = hid.claim
           /\ ResetDue => (ResetDue' \/ ~ hid'.claim.valid)
<1>1. CASE Beside
  BY <1>1 DEF Beside
<1>2. CASE Consumer
  <2>1. ~ Claim
    BY DEF Claim, Busy
  <2>2. pc'.consumer # "take"
    BY DEF Busy
  <2>3. ~ Responded /\ ~ (Respond /\ ~ MayRespond)
    BY <2>2, GotoFact DEF Responded, Respond
  <2>4. UNCHANGED <<usb, hid, work>>
    BY <1>2, <2>1, <2>3
    DEF Consumer, TakeAllowed, Woken, WaitOver, Drain, Work, Keepalive,
        KeepaliveSent, Respond, Send, Emit, Check, Put, PutWait, PutTimeout,
        SendStep
  <2> QED
    BY <2>4 DEF ResetDue
<1>3. ASSUME NEW t \in Task, LockTimeout(t)
      PROVE  UNCHANGED <<usb, hid, work>>
  <2>1. CASE pc[t] = "respond"
    <3>1. t = "consumer"
      BY <1>3, <2>1 DEF Task, LockTimeout, GivesUp
    <3>2. pc'.consumer = "take"
      BY <1>3, <2>1, <3>1, GotoFact DEF LockTimeout, GivesUp
    <3> QED
      BY <3>2 DEF Busy
  <2>2. CASE pc[t] # "respond"
    BY <1>3, <2>2 DEF LockTimeout
  <2> QED
    BY <2>1, <2>2
<1>4. CASE \E t \in Task : LockTimeout(t)
  BY <1>3, <1>4 DEF ResetDue
<1> QED
  BY <1>1, <1>2, <1>4, BesideOK DEF HidNext

\* The claimed request is the one served, and hid_cancelled's flag is its.
LEMMA ClaimServedFact ==
    ASSUME HidInv, hid.claim.valid
    PROVE  /\ Serving /\ Stage = "taken" /\ core.active_cid = hid.claim.cid
           /\ Current(core, hid.claim.cid, hid.claim.generation)
           /\ Cancelled(core, hid.claim.cid, hid.claim.generation)
                <=> ServedCancelled
<1>1. /\ Current(core, hid.claim.cid, hid.claim.generation)
      /\ core.active_command = "CBOR" /\ ~ core.message_ready
  BY DEF HidInv, ClaimCurrent
<1>2. Serving /\ Stage = "taken" /\ core.active_cid = hid.claim.cid
  BY <1>1 DEF Current, Serving, Stage
<1> QED
  BY <1>1, <1>2 DEF Cancelled, ServedCancelled

\* A request that was taken and goes on being served keeps its cancel flag.
LEMMA FlagStays ==
    ASSUME Served, Stage = "taken", Stage' = "taken", ServedCancelled
    PROVE  ServedCancelled'
  BY DEF Served, Service!Next, Service!Arrive, Service!Take, Service!Cancel,
         Service!Begin, Service!Report, Service!KeepaliveOver,
         Service!Answered, Service!GiveUp, Service!service

\* One step, case by case of why the request counts as cancelled.
LEMMA CancelStep ==
    ASSUME HidInv, HidInv', ConnInv, [HidNext]_vars,
           Busy, Busy', HidCancelled
    PROVE  HidCancelled'
<1>1. /\ work' = work
      /\ hid'.claim.valid => hid'.claim = hid.claim
      /\ ResetDue => (ResetDue' \/ ~ hid'.claim.valid)
  BY BusyStep
<1>2. CASE ~ hid'.claim.valid
  BY <1>2 DEF HidCancelled, ClaimMatches
<1>3. CASE hid'.claim.valid /\ ~ ClaimMatches(core, work)
  <2>1. hid'.claim = hid.claim /\ hid.claim.valid
    BY <1>1, <1>3
  <2>2. CASE hid.claim.cid # work
    BY <1>1, <2>1, <2>2 DEF HidCancelled, ClaimMatches
  <2>3. CASE hid.claim.cid = work
    <3>1. ResetDue
      BY <1>3, <2>1, <2>3, ClaimLostFact
    <3>2. ResetDue'
      BY <1>1, <1>3, <3>1
    <3> QED
      BY <3>2 DEF ResetDue, HidCancelled, ClaimMatches
  <2> QED
    BY <2>2, <2>3
<1>4. CASE hid'.claim.valid /\ ClaimMatches(core, work)
  <2>1. /\ hid'.claim = hid.claim /\ hid.claim.valid
        /\ hid.claim.cid = work
    BY <1>1, <1>4 DEF ClaimMatches
  <2>2. Stage = "taken" /\ ServedCancelled
    BY <1>4, <2>1, ClaimServedFact DEF HidCancelled
  <2>3. /\ Current(core, hid.claim.cid, hid.claim.generation)'
        /\ core'.active_command = "CBOR" /\ ~ core'.message_ready
    BY <1>4 DEF HidInv, ClaimCurrent
  <2>4. Stage' = "taken"
    BY <2>3 DEF Current, Serving, Stage
  <2>5. ServedCancelled'
    BY <2>2, <2>4, StepServed, FlagStays
  <2>6. core'.active_cid = work'
    BY <1>1, <2>1, <2>3 DEF Current
  <2> QED
    BY <2>5, <2>6 DEF ServedCancelled, HidCancelled, Cancelled, Holds
<1> QED
  BY <1>2, <1>3, <1>4

\* What the handlers poll is never taken back while they work on the request.
THEOREM CancelStaysTheorem == HidSpec => CancelStays
<1>1. HidInv /\ HidInv' /\ ConnInv /\ [HidNext]_vars
        => [(Busy /\ Busy' /\ HidCancelled) => HidCancelled']_vars
  BY CancelStep
<1> QED
  BY <1>1, HidInvariance, ConnInvariance, PTL DEF HidSpec, CancelStays
=============================================================================
