------------------------------ MODULE CtapHid ------------------------------
(***************************************************************************)
(* The CTAPHID transport around the protocol core: the transport task that *)
(* feeds USB reports to the core and sends its immediate replies, the task *)
(* that takes CBOR requests, works on them and responds, a caller of       *)
(* hid_reset_all, and the USB event callbacks that run beside them         *)
(* (p4_ctaphid.c, p4_usb.c, p4_usb_queue.c, main/ctap_stub.c).             *)
(*                                                                         *)
(* One action per stretch of code that runs without letting another task   *)
(* see or change what it uses.  A task that holds s_core_mutex across      *)
(* several actions is the value of mutex; a critical section that is one   *)
(* action needs the mutex free.  Both tx mutexes are only ever taken with  *)
(* s_core_mutex held and so never waited for.                              *)
(***************************************************************************)
EXTENDS CtapHidCore, Sequences

CONSTANTS
    HostReport,       \* bound: the reports hosts send
    RxDepth,          \* P4_USB_RX_QUEUE_DEPTH
    MaxUsbGen,        \* bound: how often the USB generation changes
    ResponseReports,  \* bound: the reports a full response takes
    ResetCalls,       \* whether a task calls hid_reset_all (none in main/ does)
    Impatient         \* the tasks whose lock wait can reach its 1000 ms

Task == {"transport", "consumer", "resetter"}

ASSUME TransportAssumption ==
    /\ HostReport \subseteq InitialPacket \cup Continuation
    /\ RxDepth \in Nat \ {0} /\ MaxUsbGen \in Nat
    /\ ResponseReports \in Nat \ {0}
    /\ Impatient \subseteq Task /\ ResetCalls \in BOOLEAN

VARIABLES
    usb,      \* p4_usb.c: mounted, ready, generation and receive queue
    hid,      \* the statics of p4_ctaphid.c that s_core_mutex protects,
              \* and s_reset_requested
    mutex,    \* the holder of s_core_mutex, or "free"
    wake,     \* s_message_wake, a binary semaphore
    pc,       \* where each task is
    got,      \* transport task: the report it took, its USB generation and
              \* the last generation it read
    work,     \* consumer task: the CID of the request it works on
    tx,       \* the message each task is sending
    last      \* history: who put the last report on the bus, and whether it
              \* was of an earlier connection

hidVars == <<usb, hid, mutex, wake, pc, got, work, tx, last>>
vars == <<coreVars, hidVars>>
-----------------------------------------------------------------------------
UsbGen  == 0 .. MaxUsbGen
NoClaim == [valid |-> FALSE, cid |-> NullCid, generation |-> 0, usb_gen |-> 0]
NoTx    == [cid |-> NullCid, command |-> "NONE", total |-> 0, sent |-> 0,
            usb_gen |-> 0, generation |-> 0]
NoTask  == "nobody"
NoPacket == [cid |-> NullCid, command |-> "NONE", len |-> 0]
GotNone == [packet |-> NoPacket, usb_gen |-> 0, current |-> 0]

\* s_reset_epoch is only compared with the value the transport task read at
\* its last sync: reset_since_sync says whether they differ.
HidInit ==
    /\ Init /\ now = 0
    /\ usb = [mounted |-> FALSE, ready |-> FALSE, gen |-> 0, queue |-> <<>>]
    /\ hid = [claim |-> NoClaim, message_gen |-> 0, seen_gen |-> 0,
              reset_requested |-> FALSE, reset_since_sync |-> FALSE]
    /\ mutex = "free"
    /\ wake = FALSE
    /\ pc = [transport |-> "reset", consumer |-> "take", resetter |-> "idle"]
    /\ got = GotNone
    /\ work = NullCid
    /\ tx = [transport |-> NoTx, consumer |-> NoTx]
    /\ last = [task |-> NoTask, late |-> FALSE]

\* Mutant: whoever wants the lock has it.
LockIgnored(t) == mutex' = t

Goto(t, to) == pc' = [pc EXCEPT ![t] = to]
Lock(t)     == mutex = "free" /\ mutex' = t
Locked      == mutex = "free" /\ UNCHANGED mutex  \* taken and given back
Unlock      == mutex' = "free"

NoCoreStep == UNCHANGED coreVars

ResetCore == Step(CoreReset, NoReport)

\* claim_matches_locked, on a core c
ClaimMatches(c, cid) ==
    /\ ~ hid.reset_requested
    /\ hid.claim.valid /\ hid.claim.cid = cid
    /\ Current(c, cid, hid.claim.generation)
    /\ hid.seen_gen = hid.claim.usb_gen
    /\ usb.gen = hid.claim.usb_gen
    /\ usb.ready

\* Mutant: the reset leaves the claim of the request it drops.
ForgetButClaim(h) == [h EXCEPT !.message_gen = 0, !.reset_since_sync = TRUE]

\* The statics after reset_core_locked.
Forget(h) == [h EXCEPT !.claim = NoClaim, !.message_gen = 0,
                       !.reset_since_sync = TRUE]
Dropped(u) == [u EXCEPT !.queue = <<>>]
-----------------------------------------------------------------------------
(* USB: tinyusb's task runs usb_event, which trusts no order of the events  *)
(* (a host may reset and configure a mounted device), and                   *)
(* tud_hid_set_report_cb.                                                   *)

UsbStep(u) ==
    /\ usb' = u
    /\ NoCoreStep
    /\ UNCHANGED <<hid, mutex, wake, pc, got, work, tx, last>>

Boundary(mounted, ready) ==
    /\ usb.gen < MaxUsbGen
    /\ UsbStep([mounted |-> mounted, ready |-> ready, gen |-> usb.gen + 1,
                queue |-> <<>>])
Attached  == Boundary(TRUE, TRUE)
Detached  == Boundary(FALSE, FALSE)
Suspended == Boundary(usb.mounted, FALSE)
Resumed   == UsbStep([usb EXCEPT !.ready = usb.mounted])

\* A full queue rejects the newest report.
SetReport(p) ==
    /\ usb.ready
    /\ Len(usb.queue) < RxDepth
    /\ UsbStep([usb EXCEPT !.queue = Append(@, p)])
-----------------------------------------------------------------------------
(* Sending one message report by report, the core mutex held throughout:    *)
(* emit_usb_report and usb_send_for_generation.                             *)

Sending(t) == pc[t] \in {"emit", "check", "put"}
\* p4_ctaphid_tx_send refuses CID 0 before it emits anything.
StartSending(t, m) ==
    /\ tx' = [tx EXCEPT ![t] = m]
    /\ Goto(t, IF m.cid = NullCid THEN "sent" ELSE "emit")
SendStep ==
    /\ NoCoreStep
    /\ UNCHANGED <<usb, hid, mutex, wake, got, work>>

BusAllows(t) == usb.ready /\ usb.gen = tx[t].usb_gen

\* The reset flag is looked at once per report, the bus before every try.
Emit(t) ==
    /\ pc[t] = "emit"
    /\ Goto(t, IF ~ hid.reset_requested /\ BusAllows(t) THEN "put" ELSE "sent")
    /\ SendStep
    /\ UNCHANGED <<tx, last>>
Check(t) ==
    /\ pc[t] = "check"
    /\ Goto(t, IF BusAllows(t) THEN "put" ELSE "sent")
    /\ SendStep
    /\ UNCHANGED <<tx, last>>

\* The bus takes the report, whichever connection it is by now: nothing ties
\* the test of the generation to tud_hid_n_report.
Put(t) ==
    /\ pc[t] = "put"
    /\ usb.ready
    /\ tx' = [tx EXCEPT ![t].sent = @ + 1]
    /\ last' = [task |-> t, late |-> usb.gen # tx[t].usb_gen]
    /\ Goto(t, IF tx[t].sent + 1 = tx[t].total THEN "sent" ELSE "emit")
    /\ SendStep

\* The endpoint is busy: wait for tx_wake, or give up after 250 ms.
PutWait(t) ==
    /\ pc[t] = "put"
    /\ Goto(t, "check")
    /\ SendStep
    /\ UNCHANGED <<tx, last>>
PutTimeout(t) ==
    /\ pc[t] = "put"
    /\ Goto(t, "sent")
    /\ SendStep
    /\ UNCHANGED <<tx, last>>

Send(t) == Emit(t) \/ Check(t) \/ Put(t) \/ PutWait(t) \/ PutTimeout(t)
-----------------------------------------------------------------------------
(* The transport task, once round transport_task's loop. *)

\* Mutant: the loop may go on without looking at the request.
ResetOverlooked ==
    /\ pc.transport = "reset"
    /\ Goto("transport", "sync")
    /\ NoCoreStep
    /\ UNCHANGED <<usb, hid, mutex, wake, got, work, tx, last>>

\* process_requested_reset
NoResetRequested ==
    /\ pc.transport = "reset"
    /\ ~ hid.reset_requested
    /\ Goto("transport", "sync")
    /\ NoCoreStep
    /\ UNCHANGED <<usb, hid, mutex, wake, got, work, tx, last>>
ProcessReset ==
    /\ pc.transport = "reset"
    /\ hid.reset_requested
    /\ Locked
    /\ ResetCore
    /\ hid' = [Forget(hid) EXCEPT !.reset_requested = FALSE]
    /\ usb' = Dropped(usb)
    /\ Goto("transport", "wake_sync")
    /\ UNCHANGED <<wake, got, work, tx, last>>

\* sync_usb_before_take: the generation is read before the wait for the lock.
ReadGeneration ==
    /\ pc.transport = "sync"
    /\ got' = [got EXCEPT !.current = usb.gen]
    /\ Goto("transport", "sync_lock")
    /\ NoCoreStep
    /\ UNCHANGED <<usb, hid, mutex, wake, work, tx, last>>
Sync ==
    /\ pc.transport = "sync_lock"
    /\ Locked
    /\ \/ /\ got.current = hid.seen_gen
          /\ hid' = [hid EXCEPT !.reset_since_sync = FALSE]
          /\ Goto("transport", "take")
          /\ NoCoreStep
       \/ /\ got.current # hid.seen_gen
          /\ ResetCore
          /\ hid' = [Forget(hid) EXCEPT !.seen_gen = got.current,
                                        !.reset_since_sync = FALSE]
          /\ Goto("transport", "wake_take")
    /\ got' = GotNone
    /\ UNCHANGED <<usb, wake, work, tx, last>>

\* usb_take_with_generation.  What is queued is always of the current
\* generation, since every event that changes it empties the queue.
TakeReport ==
    /\ pc.transport = "take"
    /\ usb.queue # <<>>
    /\ got' = [got EXCEPT !.packet = Head(usb.queue), !.usb_gen = usb.gen]
    /\ usb' = [usb EXCEPT !.queue = Tail(@)]
    /\ Goto("transport", "taken")
    /\ NoCoreStep
    /\ UNCHANGED <<hid, mutex, wake, work, tx, last>>
\* The connection is looked at once more after the report is popped.
RecheckReport ==
    /\ pc.transport = "taken"
    /\ \/ /\ usb.ready /\ usb.gen = got.usb_gen
          /\ Goto("transport", "lock")
          /\ UNCHANGED got
       \/ /\ ~ (usb.ready /\ usb.gen = got.usb_gen)
          /\ Goto("transport", "reset")
          /\ got' = GotNone
    /\ NoCoreStep
    /\ UNCHANGED <<usb, hid, mutex, wake, work, tx, last>>
TakeNothing ==
    /\ pc.transport = "take"
    /\ usb.queue = <<>>
    /\ Goto("transport", IF usb.ready THEN "cleanup" ELSE "reset")
    /\ NoCoreStep
    /\ UNCHANGED <<usb, hid, mutex, wake, got, work, tx, last>>
CleanUp ==
    /\ pc.transport = "cleanup"
    /\ Locked
    /\ Step(PeriodicCleanup, NoReport)
    /\ Goto("transport", "reset")
    /\ UNCHANGED <<usb, hid, wake, got, work, tx, last>>

LockForReport ==
    /\ pc.transport = "lock"
    /\ Lock("transport")
    /\ got' = [got EXCEPT !.current = usb.gen]
    /\ Goto("transport", "admit")
    /\ NoCoreStep
    /\ UNCHANGED <<usb, hid, wake, work, tx, last>>

\* Does the report still belong to the core it is meant for?
Raced == hid.reset_since_sync \/ hid.reset_requested
NewConnectionOverlooked == FALSE  \* Mutant
NewConnection == got.current # hid.seen_gen
Admissible == ~ Raced /\ got.current = got.usb_gen
Admit ==
    /\ pc.transport = "admit"
    /\ LET seen == [hid EXCEPT !.seen_gen = got.current,
                               !.reset_requested = FALSE]
           reset == hid.reset_requested \/ (NewConnection /\ ~ Raced)
       IN IF reset THEN ResetCore /\ hid' = Forget(seen)
                   ELSE NoCoreStep /\ hid' = seen
    /\ usb' = IF hid.reset_requested THEN Dropped(usb) ELSE usb
    /\ \/ /\ Admissible
          /\ Goto("transport", "feed")
          /\ got' = [got EXCEPT !.current = 0]
          /\ UNCHANGED mutex
       \/ /\ ~ Admissible
          /\ Goto("transport", "wake_reset")
          /\ Unlock
          /\ got' = GotNone
    /\ UNCHANGED <<wake, work, tx, last>>

\* p4_ctaphid_core_feed, the claim's check and what the action asks for.
Feed(p) == \/ p \in InitialPacket /\ FeedInitial(p)
           \/ p \in Continuation  /\ FeedContinuation(p)
Reports(command) == IF command \in Request THEN ResponseReports ELSE 1
Reply == [cid |-> action'.cid, command |-> action'.command,
          total |-> Reports(action'.command), sent |-> 0,
          usb_gen |-> got.usb_gen, generation |-> action'.generation]

\* Mutant: any report takes the consumer's claim away.
KeptClaimNever(c) == NoClaim

\* clear_stale_claim_locked
KeptClaim(c) == IF ClaimMatches(c, hid.claim.cid) THEN hid.claim ELSE NoClaim

AfterFeedSilent == "reset"  \* Mutant: nobody is told of the message
AfterFeed == IF action'.kind = "MESSAGE" THEN "wake_reset" ELSE "reset"

FeedReport ==
    /\ pc.transport = "feed"
    /\ Step(Feed(got.packet), got.packet.cid)
    /\ hid' = [hid EXCEPT
         !.claim = KeptClaim(core'),
         !.message_gen = IF action'.kind = "MESSAGE" THEN got.usb_gen ELSE @]
    /\ \/ /\ action'.kind = "SEND"
          /\ StartSending("transport", Reply)
          /\ UNCHANGED mutex
       \/ /\ action'.kind # "SEND"
          /\ Unlock
          /\ Goto("transport", AfterFeed)
          /\ UNCHANGED tx
    /\ got' = GotNone
    /\ UNCHANGED <<usb, wake, work, last>>

\* Mutant: a PING whose echo failed is not finished.
FinishesOnlyIfSent ==
    /\ tx.transport.generation # 0
    /\ tx.transport.sent = tx.transport.total
Finishes == tx.transport.generation # 0

\* The reply is out or has failed; generation 0 means there is no transaction.
Replied ==
    /\ pc.transport = "sent"
    /\ IF Finishes
       THEN Step(FinishResponse(tx.transport.cid, tx.transport.generation),
                     NoReport)
       ELSE NoCoreStep
    /\ tx' = [tx EXCEPT !.transport = NoTx]
    /\ Unlock
    /\ Goto("transport", "reset")
    /\ UNCHANGED <<usb, hid, wake, got, work, last>>

\* The consumer is woken after the lock is given back.
WakeThen(from, to) ==
    /\ pc.transport = from
    /\ wake' = TRUE
    /\ Goto("transport", to)
    /\ NoCoreStep
    /\ UNCHANGED <<usb, hid, mutex, got, work, tx, last>>

Transport ==
    \/ NoResetRequested \/ ProcessReset \/ ReadGeneration \/ Sync
    \/ TakeReport \/ RecheckReport \/ TakeNothing \/ CleanUp
    \/ LockForReport \/ Admit \/ FeedReport \/ Send("transport") \/ Replied
    \/ WakeThen("wake_sync", "sync")
    \/ WakeThen("wake_take", "take")
    \/ WakeThen("wake_reset", "reset")
-----------------------------------------------------------------------------
(* The consumer task: ctap_stub_task calls hid_take_msg, dispatches the     *)
(* request, which may send keepalives, and calls hid_send_msg.              *)

\* hid_take_msg, under the lock.  A call that fails at once, for want of
\* this, is repeated: the task stays where it is.
Takeable == /\ ~ hid.reset_requested
            /\ ~ hid.claim.valid
            /\ usb.ready /\ usb.gen = hid.seen_gen
TakeAllowed ==
    /\ pc.consumer = "take"
    /\ Lock("consumer")
    /\ Takeable
    /\ Goto("consumer", "claim")
    /\ NoCoreStep
    /\ UNCHANGED <<usb, hid, wake, got, work, tx, last>>

\* The generation is read again: by now it may have changed.
Claim ==
    /\ pc.consumer = "claim"
    /\ Unlock
    /\ \/ /\ ~ core.message_ready
          /\ Goto("consumer", "wait")
          /\ NoCoreStep
          /\ UNCHANGED <<hid, work>>
       \/ /\ core.message_ready
          /\ usb.gen # hid.message_gen
          /\ ResetCore
          /\ hid' = Forget(hid)
          /\ Goto("consumer", "take")
          /\ UNCHANGED work
       \/ /\ usb.gen = hid.message_gen
          /\ Step(TakeMessage, NoReport)
          /\ work' = core.complete.cid
          /\ hid' = [hid EXCEPT
               !.claim = [valid |-> TRUE, cid |-> core.complete.cid,
                          generation |-> core.complete.generation,
                          usb_gen |-> hid.message_gen],
               !.message_gen = 0]
          /\ Goto("consumer", "drain")
    /\ UNCHANGED <<usb, wake, got, tx, last>>

\* Wait for the wake-up, or for the second hid_take_msg was given.
Woken ==
    /\ pc.consumer = "wait"
    /\ wake
    /\ wake' = FALSE
    /\ Goto("consumer", "take")
    /\ NoCoreStep
    /\ UNCHANGED <<usb, hid, mutex, got, work, tx, last>>
WaitOver ==
    /\ pc.consumer = "wait"
    /\ Goto("consumer", "take")
    /\ NoCoreStep
    /\ UNCHANGED <<usb, hid, mutex, wake, got, work, tx, last>>

\* drain_message_wake, after the lock is given back
Drain ==
    /\ pc.consumer = "drain"
    /\ wake' = FALSE
    /\ Goto("consumer", "work")
    /\ NoCoreStep
    /\ UNCHANGED <<usb, hid, mutex, got, work, tx, last>>

\* The handler of the request asks for a keepalive or is done.
Work(next) ==
    /\ pc.consumer = "work"
    /\ Goto("consumer", next)
    /\ NoCoreStep
    /\ UNCHANGED <<usb, hid, mutex, wake, got, work, tx, last>>

\* Mutant: only a claim that is gone counts as cancelled.
HidCancelledByClaim == ~ ClaimMatches(core, work)

\* hid_cancelled, apart from the lock
HidCancelled == \/ ~ ClaimMatches(core, work)
                \/ Cancelled(core, work, hid.claim.generation)

Answer(command, total) ==
    [cid |-> work, command |-> command, total |-> total, sent |-> 0,
     usb_gen |-> hid.claim.usb_gen, generation |-> hid.claim.generation]

\* hid_keepalive; a handler whose keepalive fails responds at once, one that
\* is only too early (the rate limit) goes on.
Keepalive ==
    /\ pc.consumer = "keepalive"
    /\ \/ /\ ~ HidCancelled
          /\ Lock("consumer")
          /\ StartSending("consumer", Answer("KEEPALIVE", 1))
       \/ /\ Locked
          /\ Goto("consumer", IF HidCancelled THEN "respond" ELSE "work")
          /\ UNCHANGED tx
    /\ NoCoreStep
    /\ UNCHANGED <<usb, hid, wake, got, work, last>>

\* Mutant: the mutex is not given back after a keepalive.
KeepaliveKeepsLock ==
    /\ pc.consumer = "sent"
    /\ tx.consumer.command = "KEEPALIVE"
    /\ tx' = [tx EXCEPT !.consumer = NoTx]
    /\ Goto("consumer", IF tx.consumer.sent = 1 THEN "work" ELSE "respond")
    /\ NoCoreStep
    /\ UNCHANGED <<usb, hid, mutex, wake, got, work, last>>

KeepaliveSent ==
    /\ pc.consumer = "sent"
    /\ tx.consumer.command = "KEEPALIVE"
    /\ tx' = [tx EXCEPT !.consumer = NoTx]
    /\ Unlock
    /\ Goto("consumer", IF tx.consumer.sent = 1 THEN "work" ELSE "respond")
    /\ NoCoreStep
    /\ UNCHANGED <<usb, hid, wake, got, work, last>>

\* hid_send_msg: a cancelled request is answered with one status byte.
MayRespond == ClaimMatches(core, work)
Respond ==
    /\ pc.consumer = "respond"
    /\ \/ /\ MayRespond
          /\ Lock("consumer")
          /\ StartSending("consumer",
               IF HidCancelled THEN Answer("CANCELLED", 1)
                               ELSE Answer("CBOR", ResponseReports))
          /\ UNCHANGED work
       \/ /\ ~ MayRespond
          /\ Locked
          /\ Goto("consumer", "take")
          /\ work' = NullCid
          /\ UNCHANGED tx
    /\ NoCoreStep
    /\ UNCHANGED <<usb, hid, wake, got, last>>

Responded ==
    /\ pc.consumer = "sent"
    /\ tx.consumer.command # "KEEPALIVE"
    /\ Step(FinishResponse(tx.consumer.cid, tx.consumer.generation),
                NoReport)
    /\ hid' = [hid EXCEPT !.claim = NoClaim]
    /\ tx' = [tx EXCEPT !.consumer = NoTx]
    /\ work' = NullCid
    /\ Unlock
    /\ Goto("consumer", "take")
    /\ UNCHANGED <<usb, wake, got, last>>

Consumer ==
    \/ TakeAllowed \/ Claim \/ Woken \/ WaitOver \/ Drain
    \/ Work("keepalive") \/ Keepalive \/ KeepaliveSent
    \/ Work("respond") \/ Respond \/ Responded \/ Send("consumer")
-----------------------------------------------------------------------------
(* A task that calls hid_reset_all. *)

\* The request is published before the wait for the lock.  The wake-up that
\* follows is part of the step: a wake-up too many is harmless.
PublishReset ==
    /\ ResetCalls
    /\ pc.resetter = "idle"
    /\ hid' = [hid EXCEPT !.reset_requested = TRUE]
    /\ wake' = TRUE
    /\ Goto("resetter", "lock")
    /\ NoCoreStep
    /\ UNCHANGED <<usb, mutex, got, work, tx, last>>
ResetAll ==
    /\ pc.resetter = "lock"
    /\ Locked
    /\ ResetCore
    /\ hid' = [Forget(hid) EXCEPT !.reset_requested = FALSE]
    /\ usb' = Dropped(usb)
    /\ wake' = TRUE
    /\ Goto("resetter", "idle")
    /\ UNCHANGED <<got, work, tx, last>>

Resetter == PublishReset \/ ResetAll
-----------------------------------------------------------------------------
\* Where a task goes that gives up its wait for the core mutex: the transport
\* task starts over and drops the report it holds; a response not sent
\* leaves its claim behind; a reset stays published.
GivesUp == [transport |-> [x \in {"sync_lock", "cleanup", "lock"} |-> "reset"],
            consumer  |-> [keepalive |-> "respond", respond |-> "take"],
            resetter  |-> [lock |-> "idle"]]

\* Only a message under way holds the lock for as long as a second.
LockTimeout(t) ==
    /\ t \in Impatient
    /\ pc[t] \in DOMAIN GivesUp[t]
    /\ mutex # "free" /\ Sending(mutex)
    /\ Goto(t, GivesUp[t][pc[t]])
    /\ got' = IF t = "transport" THEN GotNone ELSE got
    /\ work' = IF pc[t] = "respond" THEN NullCid ELSE work
    /\ NoCoreStep
    /\ UNCHANGED <<usb, hid, mutex, wake, tx, last>>

\* Time only matters while a request is being assembled.
Passing == core.phase = "RX" /\ Tick /\ UNCHANGED hidVars

HidNext ==
    \/ Attached \/ Detached \/ Suspended \/ Resumed
    \/ \E p \in HostReport : SetReport(p)
    \/ Transport
    \/ Consumer
    \/ Resetter
    \/ \E t \in Task : LockTimeout(t)
    \/ Passing

HidSpec == HidInit /\ [][HidNext]_vars
-----------------------------------------------------------------------------
TransportPlace ==
    {"reset", "sync", "sync_lock", "take", "taken", "cleanup", "lock", "admit",
     "feed", "emit", "check", "put", "sent",
     "wake_sync", "wake_take", "wake_reset"}
ConsumerPlace ==
    {"take", "claim", "wait", "drain", "work", "keepalive", "respond",
     "emit", "check", "put", "sent"}
PcType == [transport : TransportPlace, consumer : ConsumerPlace,
           resetter : {"idle", "lock"}]
TxType ==
    [cid : AnyCid,
     command : Command \cup {"INIT", "ERROR", "KEEPALIVE", "CANCELLED"},
     total : 0 .. ResponseReports, sent : 0 .. ResponseReports,
     usb_gen : UsbGen, generation : Gen]

UsbType == [mounted : BOOLEAN, ready : BOOLEAN, gen : UsbGen,
            queue : Seq(HostReport)]
ClaimType == [valid : BOOLEAN, cid : Cid \cup {NullCid}, generation : Gen,
              usb_gen : UsbGen]
HidType == [claim : ClaimType, message_gen : UsbGen, seen_gen : UsbGen,
            reset_requested : BOOLEAN, reset_since_sync : BOOLEAN]
GotType == [packet : HostReport \cup {NoPacket}, usb_gen : UsbGen,
            current : UsbGen]

\* The type invariant of the transport.
TasksTypeOK ==
    /\ usb \in UsbType /\ Len(usb.queue) <= RxDepth
    /\ hid \in HidType
    /\ mutex \in Task \cup {"free"}
    /\ wake \in BOOLEAN
    /\ pc \in PcType
    /\ got \in GotType
    /\ work \in Cid \cup {NullCid}
    /\ tx \in [transport : TxType, consumer : TxType]
    /\ last \in [task : Task \cup {NoTask}, late : BOOLEAN]
HidTypeOK == TypeOK /\ TasksTypeOK
-----------------------------------------------------------------------------
(* Safety. *)

\* A claim always names the request the core is processing, in its
\* generation, and that request is no longer waiting to be taken: no reset,
\* resynchronisation or response of any task leaves a claim on a request
\* that is over.
ClaimCurrent ==
    hid.claim.valid =>
        /\ Current(core, hid.claim.cid, hid.claim.generation)
        /\ core.active_command = "CBOR"
        /\ ~ core.message_ready

\* The transport task or hid_reset_all will reset the core: a reset has been
\* published, or the connection has changed since the last one.
ResetDue == hid.reset_requested \/ usb.gen # hid.seen_gen

\* The transport task echoes a PING in the critical section that fed it and
\* knows that it is to finish it.
PingOwned ==
    /\ core.active_command = "PING" /\ mutex = "transport"
    /\ pc.transport \in {"emit", "check", "put", "sent"}
    /\ Current(core, tx.transport.cid, tx.transport.generation)
    /\ tx.transport.generation # 0

\* The consumer is between having taken a request and having answered it.
AtWork == \/ pc.consumer \in {"drain", "work", "keepalive", "respond", "sent"}
          \/ Sending("consumer")

\* It is so with the request that is claimed.
ClaimOwned == hid.claim.valid /\ work = hid.claim.cid /\ AtWork

\* A request in processing has somebody who will end it: the transport task,
\* the consumer that will find it waiting or works on it, or a reset that is
\* due.
NoOrphan ==
    core.phase = "PROCESSING" =>
        \/ PingOwned
        \/ core.active_command = "CBOR" /\ (core.message_ready \/ ClaimOwned)
        \/ ResetDue

\* hid_send_msg gives up its wait for the core mutex.  It leaves the claim as
\* it is and send_dispatch_result ignores its result.
GivesUpResponse == LockTimeout("consumer") /\ pc.consumer = "respond"

\* A PING is complete whose generation has wrapped to 0, for the transport
\* task the sign that there is nothing to finish.
WrappedPing ==
    /\ FeedReport
    /\ action'.kind = "SEND" /\ action'.command = "PING"
    /\ action'.generation = 0

\* These two steps are all that can leave a request to nobody, so that the
\* transport stays busy until its CID resynchronises or a reset; no early
\* return, lost reply, new connection or reset of any task does.
OrphansOnlyBy ==
    /\ NoOrphan
    /\ [][NoOrphan /\ ~ NoOrphan' => GivesUpResponse \/ WrappedPing]_vars

\* The message that waits came over the connection the core was last reset
\* for ("a report from the old connection never enters the new core").
MessageOfConnection ==
    core.message_ready => hid.message_gen = hid.seen_gen

\* A waiting consumer never sleeps through a message: the wake-up is given or
\* about to be, though drain_message_wake runs after the lock is given back.
NoLostWake ==
    (pc.consumer = "wait" /\ core.message_ready) =>
        wake \/ pc.transport = "wake_reset"

\* Two messages never mix on the bus: a report that continues a message
\* follows the report before it of the same message.
NoInterleaving ==
    [][\A t \in {"transport", "consumer"} :
         (tx'[t].sent > tx[t].sent /\ tx[t].sent > 0) => last.task = t]_vars

\* p4_usb.c treats "suspend as a disconnect boundary for held reports": no
\* report held for one connection goes out on a later one.  The generation
\* is tested before tud_hid_n_report and not under the same lock.
HeldReportsEnd == ~ last.late
-----------------------------------------------------------------------------
(* What the hosts see of all this. *)

\* The message to the host the consumer is about.
Messaging == Sending("consumer") \/ pc.consumer = "sent"
OnItsWay  == IF Messaging THEN tx.consumer.command ELSE "nothing"

\* The request the core serves.
Serving         == core.phase = "PROCESSING" /\ core.active_command = "CBOR"
Stage           == IF ~ Serving THEN "none"
                   ELSE IF core.message_ready THEN "waiting" ELSE "taken"
ServedHost      == IF Serving THEN core.active_cid ELSE NullCid
ServedCancelled == /\ Serving
                   /\ \E s \in Slot : /\ Holds(core, s, core.active_cid)
                                      /\ core.channels[s].cancel

Service == INSTANCE RequestService WITH
    Host <- Cid, None <- NullCid, FullAnswer <- ResponseReports,
    stage <- Stage, host <- ServedHost, cancelled <- ServedCancelled,
    sending <- OnItsWay, reports <- tx.consumer.sent

\* However tasks, resets and USB events interleave, hosts are served as
\* RequestService says: a response answers the very request that was taken
\* ("the caller owns the core mutex so a resync cannot cut through a
\* response"), at most once, never after the host gave the request up, and
\* the final decision about CANCEL is made "under the same lock as
\* transmission".
ImplementsService == Service!Spec
-----------------------------------------------------------------------------
(* Liveness.  No task is starved of the processor or of the mutex (they     *)
(* block for 10 to 1000 ms between their uses of it), a report that the     *)
(* host does not fetch fails after 250 ms, and a handler is done when       *)
(* press_wait times out after 30 s at the latest.                           *)

FairHid ==
    /\ HidSpec
    /\ SF_vars(Transport)
    /\ SF_vars(Consumer)
    /\ SF_vars(Work("respond"))
    /\ \A t \in {"transport", "consumer"} : SF_vars(Put(t) \/ PutTimeout(t))

\* A request owns the transport for a finite time: it is answered, aborted
\* or reset, whatever hosts, bus and button do ("only one request owns the
\* transport until its response finishes").
TransactionEnds == core.phase = "PROCESSING" ~> core.phase # "PROCESSING"

\* A published reset happens even when hid_reset_all gave up its wait ("the
\* transport task completes the already published request").
ResetHappens == hid.reset_requested ~> ~ hid.reset_requested
=============================================================================
