---------------------------- MODULE CtapHidCore ----------------------------
(***************************************************************************)
(* The CTAPHID protocol core of components/p4_ctaphid: the channel table,  *)
(* the reassembly of requests from 64-byte reports, the single transaction *)
(* that owns the transport, cancellation and the message timeout           *)
(* (p4_ctaphid_rx.c, p4_ctaphid_chan.c, p4_ctaphid_time.c).  The core is   *)
(* passive: the transport task feeds it one report at a time and acts on   *)
(* the action it returns.                                                  *)
(*                                                                         *)
(* Abstractions: a CID is a value of Cid; a payload byte is the packet it  *)
(* came in, so that order and ownership of bytes show and their values do  *)
(* not; lengths, sequence numbers, clock and generation keep the source's  *)
(* arithmetic over small bounds.                                           *)
(***************************************************************************)
EXTENDS Integers, FiniteSets

CONSTANTS
    Cid,             \* the CIDs the random source can yield for a channel
    NullCid,         \* CID 0
    Broadcast,       \* CTAPHID_BROADCAST_CID
    ChannelCount,    \* P4_CTAPHID_CHANNEL_COUNT
    MaxPayload,      \* P4_CTAPHID_MAX_PAYLOAD
    InitData,        \* P4_CTAPHID_INIT_DATA_BYTES
    ContData,        \* P4_CTAPHID_CONT_DATA_BYTES
    NonceLen,        \* the 8 bytes an INIT request must declare
    MaxLen,          \* bound: largest length a packet declares (2^16 - 1)
    MaxSeq,          \* bound: largest sequence byte (127)
    GenMod,          \* channel generations wrap here (2^32)
    TimeMod,         \* the millisecond clock wraps here (2^32)
    MessageTimeout,  \* P4_CTAPHID_MESSAGE_TIMEOUT_MS
    QueueFullMax     \* queue_full_count saturates here (UINT32_MAX)

ASSUME CoreAssumption ==
    /\ NullCid \notin Cid /\ Broadcast \notin Cid /\ NullCid # Broadcast
    /\ ChannelCount \in Nat /\ MaxPayload \in Nat
    /\ InitData \in Nat \ {0} /\ ContData \in Nat \ {0}
    /\ NonceLen \in Nat /\ MaxLen \in Nat /\ MaxSeq \in Nat
    /\ GenMod \in Nat \ {0} /\ TimeMod \in Nat \ {0}
    /\ MessageTimeout \in 1 .. (TimeMod - 1)
    /\ QueueFullMax \in Nat

VARIABLES
    core,     \* the p4_ctaphid_core_t
    action,   \* what the last fed report asks the transport to do
    now,      \* the millisecond clock the transport passes in
    fed,      \* history: the CID of the report just handled, or NoReport
    silence   \* history: true time since the last accepted packet of the
              \* request being assembled, where the clock itself wraps

coreVars == <<core, action, now, fed, silence>>
-----------------------------------------------------------------------------
Slot     == 1 .. ChannelCount
AnyCid   == Cid \cup {NullCid, Broadcast}
Gen      == 0 .. (GenMod - 1)
Time     == 0 .. (TimeMod - 1)
Position == 1 .. MaxPayload
Length   == 0 .. MaxPayload

NoByte    == [cid |-> NullCid, packet |-> 0]
Byte      == [cid : Cid \cup {NullCid}, packet : 0 .. (MaxSeq + 1)]
Zeroed    == [i \in Position |-> NoByte]
BufferIds == {0, 1}
NoBuffer  == 255

Request == {"PING", "CBOR"}
Command == Request \cup {"NONE"}
Error   == {"INVALID_CMD", "INVALID_LEN", "INVALID_SEQ", "MSG_TIMEOUT",
            "CHANNEL_BUSY", "INVALID_CHANNEL", "OTHER"}

\* A report with bit 7 of byte 4 set opens a request; UNKNOWN stands for
\* every command code the core does not know.
InitialPacket ==
    [cid : AnyCid, command : Request \cup {"INIT", "CANCEL", "UNKNOWN"},
     len : 0 .. MaxLen]
Continuation == [cid : AnyCid, sequence : 0 .. MaxSeq]

FreeChannel ==
    [cid |-> NullCid, allocated |-> FALSE, partial_active |-> FALSE,
     command |-> "NONE", declared_len |-> 0, received |-> 0,
     next_sequence |-> 0, last_packet_ms |-> 0, generation |-> 0,
     cancel |-> FALSE, timeout_pending |-> FALSE]
NewChannel(cid) == [FreeChannel EXCEPT !.cid = cid, !.allocated = TRUE]

NoMessage == [buffer |-> NoBuffer, cid |-> NullCid, command |-> "NONE",
              len |-> 0, generation |-> 0]

\* A wiped core: what p4_ctaphid_core_init and p4_ctaphid_core_reset leave.
CoreInit ==
    [channels |-> [s \in Slot |-> FreeChannel],
     buffers |-> [b \in BufferIds |-> Zeroed],
     rx_buffer |-> 0, phase |-> "IDLE", active_cid |-> NullCid,
     active_command |-> "NONE", message_ready |-> FALSE,
     complete |-> NoMessage, queue_full_count |-> 0]

\* What the transport has to do; code holds an ERROR's code or the CID an INIT reply assigns.
NoReport == "NO REPORT"
NoAction == [kind |-> "NONE", cid |-> NullCid, command |-> "NONE",
             code |-> "NONE", generation |-> 0]
SendAction(cid, command, code) ==
    [NoAction EXCEPT !.kind = "SEND", !.cid = cid, !.command = command,
                     !.code = code]
ErrorAction(cid, error) == SendAction(cid, "ERROR", error)
InitReply(cid, assigned) == SendAction(cid, "INIT", assigned)
-----------------------------------------------------------------------------
(* Operators on a core, one per helper of the source. *)

\* p4_ctaphid_chan_find: slots never share a CID (UniqueCids), so the first
\* match is the only one.
Holds(c, s, cid)  == c.channels[s].allocated /\ c.channels[s].cid = cid
Allocated(c, cid) == \E s \in Slot : Holds(c, s, cid)
ActiveSlot(c)     == CHOOSE s \in Slot : Holds(c, s, c.active_cid)

\* Mutant: the deadline is computed instead of the elapsed time.
TimeExpiredByDeadline(t, then) == t >= then + MessageTimeout

\* Unsigned subtraction: right across the wrap of the clock.
TimeExpired(t, then) == (t - then) % TimeMod >= MessageTimeout

CountQueueFull(c) ==
    [c EXCEPT !.queue_full_count = IF @ < QueueFullMax THEN @ + 1 ELSE @]
CountIfReady(c) == IF c.message_ready THEN CountQueueFull(c) ELSE c

ClearChannelRx(ch) ==
    [ch EXCEPT !.partial_active = FALSE, !.command = "NONE",
               !.declared_len = 0, !.received = 0, !.next_sequence = 0,
               !.last_packet_ms = 0]

\* Mutant: a generation that is no 32-bit counter.
NextGenerationUnbounded(ch) == ch.generation + 1

NextGeneration(ch) == (ch.generation + 1) % GenMod

\* The active request is over: its channel forgets it and the assembly
\* buffer is wiped; drop also wipes a complete message nobody took.
ClearActive(c, drop) ==
    LET lost == drop /\ c.message_ready
    IN [c EXCEPT
          !.channels[ActiveSlot(c)] = [ClearChannelRx(@) EXCEPT !.cancel = FALSE],
          !.buffers = [b \in BufferIds |->
              IF b = c.rx_buffer \/ (lost /\ b = c.complete.buffer)
              THEN Zeroed ELSE c.buffers[b]],
          !.message_ready = @ /\ ~ drop,
          !.complete = IF lost THEN NoMessage ELSE @,
          !.phase = "IDLE", !.active_cid = NullCid, !.active_command = "NONE"]

\* The message timeout: the partial request is dropped and a tombstone stays
\* behind for the continuation that may still come.
Cleanup(c, t) ==
    IF c.phase = "RX" /\ TimeExpired(t, c.channels[ActiveSlot(c)].last_packet_ms)
    THEN [c EXCEPT
            !.channels[ActiveSlot(c)] =
                [ClearChannelRx(@) EXCEPT !.timeout_pending = TRUE],
            !.buffers[c.rx_buffer] = Zeroed,
            !.phase = "IDLE", !.active_cid = NullCid, !.active_command = "NONE"]
    ELSE c

BeginMessage(c, s, p, t) ==
    [c EXCEPT
       !.phase = "RX", !.active_cid = p.cid, !.active_command = p.command,
       !.channels[s] =
           [@ EXCEPT !.partial_active = TRUE, !.command = p.command,
                      !.declared_len = p.len, !.received = 0,
                      !.next_sequence = 0, !.last_packet_ms = t,
                      !.cancel = FALSE, !.timeout_pending = FALSE,
                      !.generation = NextGeneration(c.channels[s])],
       !.buffers[c.rx_buffer] = Zeroed]

\* Copy what the request still lacks, at most room bytes, never the padding.
StoreBytes(c, s, byte, room) ==
    LET ch   == c.channels[s]
        left == ch.declared_len - ch.received
        take == IF left < room THEN left ELSE room
    IN [c EXCEPT
          !.channels[s].received = @ + take,
          !.buffers[c.rx_buffer] = [i \in Position |->
              IF i \in (ch.received + 1) .. (ch.received + take)
              THEN byte ELSE c.buffers[c.rx_buffer][i]]]

\* The filled buffer becomes the complete message, the other one receives.
HandOver(c, s) ==
    [c EXCEPT
       !.complete = [buffer |-> c.rx_buffer, cid |-> c.channels[s].cid,
                     command |-> c.channels[s].command,
                     len |-> c.channels[s].declared_len,
                     generation |-> c.channels[s].generation],
       !.rx_buffer = 1 - @, !.message_ready = TRUE]
-----------------------------------------------------------------------------
(* Handlers.  c is the core after the cleanup that opens every feed. *)

CompleteMessage(c, s) ==
    LET ch   == c.channels[s]
        d    == [c EXCEPT !.phase = "PROCESSING",
                          !.channels[s].partial_active = FALSE]
        done == [NoAction EXCEPT !.cid = ch.cid, !.command = ch.command,
                                 !.generation = ch.generation]
    IN \/ /\ ch.command = "PING"
          /\ core' = d
          /\ action' = [done EXCEPT !.kind = "SEND"]
       \/ /\ ch.command # "PING"
          /\ core' = IF d.message_ready
                     THEN ClearActive(CountQueueFull(d), FALSE)
                     ELSE HandOver(d, s)
          /\ action' = IF d.message_ready
                       THEN ErrorAction(ch.cid, "CHANNEL_BUSY")
                       ELSE [done EXCEPT !.kind = "MESSAGE"]

CompleteIfFull(c, s) ==
    \/ /\ c.channels[s].received = c.channels[s].declared_len
       /\ CompleteMessage(c, s)
    \/ /\ c.channels[s].received # c.channels[s].declared_len
       /\ core' = c
       /\ action' = NoAction

\* Mutant: a request still being assembled can be cancelled.
CancellableInAnyPhase(c, s, p) ==
    p.len = 0 /\ c.active_cid = p.cid /\ Holds(c, s, p.cid)

Cancellable(c, s, p) ==
    /\ p.len = 0
    /\ c.phase = "PROCESSING"
    /\ c.active_cid = p.cid
    /\ c.active_command = "CBOR"
    /\ Holds(c, s, p.cid)

\* CANCEL never gets a response, not even when it is malformed.
HandleCancel(c, p) ==
    \/ \E s \in Slot :
          /\ Cancellable(c, s, p)
          /\ core' = [c EXCEPT !.channels[s].cancel = TRUE]
          /\ action' = [kind |-> "CANCEL", cid |-> p.cid,
                        command |-> "CANCEL", code |-> "NONE",
                        generation |-> c.channels[s].generation]
    \/ /\ ~ \E s \in Slot : Cancellable(c, s, p)
       /\ core' = c
       /\ action' = NoAction

\* Mutant: the random CID is not compared with those in use.
UsableUnchecked(c, cid) == cid \in Cid

\* p4_ctaphid_chan_allocate skips zero, broadcast and CIDs in use.
Usable(c, cid) == cid \in Cid /\ ~ Allocated(c, cid)

\* INIT on the broadcast CID: the first free slot gets one of the up to 16
\* candidates drawn.
AllocateChannel(c, p) ==
    \/ \E s \in Slot, cid \in Cid :
          /\ ~ c.channels[s].allocated
          /\ \A t \in Slot : t < s => c.channels[t].allocated
          /\ Usable(c, cid)
          /\ core' = [c EXCEPT !.channels[s] = NewChannel(cid)]
          /\ action' = InitReply(p.cid, cid)
    \/ /\ core' = c
       /\ \/ /\ \A s \in Slot : c.channels[s].allocated
             /\ action' = ErrorAction(p.cid, "CHANNEL_BUSY")
          \/ /\ \E s \in Slot : ~ c.channels[s].allocated
             /\ action' = ErrorAction(p.cid, "OTHER")  \* no usable random CID

\* INIT on a channel's own CID aborts whatever that channel was doing.
Resynchronise(c, s, p) ==
    LET d == IF c.active_cid = p.cid THEN ClearActive(c, TRUE) ELSE c
    IN /\ core' = [d EXCEPT !.channels[s] =
                      [ClearChannelRx(@) EXCEPT
                         !.cancel = FALSE, !.timeout_pending = FALSE,
                         !.generation = NextGeneration(d.channels[s])]]
       /\ action' = InitReply(p.cid, p.cid)

HandleInit(c, p) ==
    \/ /\ p.len # NonceLen
       /\ core' = c
       /\ action' = ErrorAction(p.cid, "INVALID_LEN")
    \/ /\ p.len = NonceLen
       /\ p.cid = Broadcast
       /\ AllocateChannel(c, p)
    \/ /\ p.len = NonceLen
       /\ p.cid # Broadcast
       /\ ~ Allocated(c, p.cid)
       /\ core' = c
       /\ action' = ErrorAction(p.cid, "INVALID_CHANNEL")
    \/ /\ p.len = NonceLen
       /\ Allocated(c, p.cid)
       /\ c.phase # "IDLE" /\ c.active_cid # p.cid
       /\ core' = CountIfReady(c)
       /\ action' = ErrorAction(p.cid, "CHANNEL_BUSY")
    \/ \E s \in Slot :
          /\ p.len = NonceLen
          /\ Holds(c, s, p.cid)
          /\ c.phase = "IDLE" \/ c.active_cid = p.cid
          /\ Resynchronise(c, s, p)

\* Why an idle core refuses to start the request, in the order it looks.
Refusal(p) ==
    CASE p.len > MaxPayload                 -> "INVALID_LEN"
      [] p.len <= MaxPayload
           /\ p.command \notin Request      -> "INVALID_CMD"
      [] p.command = "CBOR" /\ p.len = 0    -> "INVALID_LEN"
      [] OTHER                              -> "NONE"

HandleRequest(c, p) ==
    \/ /\ ~ Allocated(c, p.cid)
       /\ core' = c
       /\ action' = ErrorAction(p.cid, "INVALID_CHANNEL")
    \/ \E s \in Slot :
          /\ Holds(c, s, p.cid)
          /\ LET d == [c EXCEPT !.channels[s].timeout_pending = FALSE]
             IN \/ /\ d.phase # "IDLE"
                   /\ d.active_cid # p.cid \/ d.phase # "RX"
                   /\ core' = CountIfReady(d)
                   /\ action' = ErrorAction(p.cid, "CHANNEL_BUSY")
                \/ /\ d.phase = "RX" /\ d.active_cid = p.cid
                   /\ core' = ClearActive(CountIfReady(d), TRUE)
                   /\ action' = ErrorAction(p.cid, "INVALID_SEQ")
                \/ /\ d.phase = "IDLE"
                   /\ Refusal(p) # "NONE"
                   /\ core' = d
                   /\ action' = ErrorAction(p.cid, Refusal(p))
                \/ /\ d.phase = "IDLE"
                   /\ Refusal(p) = "NONE"
                   /\ CompleteIfFull(
                        StoreBytes(BeginMessage(d, s, p, now), s,
                                   [cid |-> p.cid, packet |-> 0], InitData), s)

\* The continuation is the next packet of the request being assembled.
Assemble(c, s, p) ==
    LET d == StoreBytes(c, s, [cid |-> p.cid, packet |-> p.sequence + 1],
                        ContData)
    IN CompleteIfFull(
         [d EXCEPT !.channels[s].last_packet_ms = now,
                   !.channels[s].next_sequence = @ + 1], s)

\* Mutant: whoever sends it, a continuation goes to the active request.
AssemblingForAnyone(c, s, cid) ==
    c.channels[s].partial_active /\ c.phase = "RX"

Assembling(c, s, cid) ==
    /\ Holds(c, s, cid)
    /\ c.channels[s].partial_active
    /\ c.phase = "RX" /\ c.active_cid = cid

\* The source tests the timeout once more here; the cleanup that opened the
\* feed has used the same clock value, so that test never succeeds.
HandleContinuation(c, p) ==
    \/ \E s \in Slot :
          /\ Holds(c, s, p.cid)
          /\ c.channels[s].timeout_pending
          /\ core' = [c EXCEPT !.channels[s].timeout_pending = FALSE]
          /\ action' = ErrorAction(p.cid, "MSG_TIMEOUT")
    \/ \E s \in Slot :
          /\ Assembling(c, s, p.cid)
          /\ ~ c.channels[s].timeout_pending
          /\ \/ /\ p.sequence # c.channels[s].next_sequence
                /\ core' = ClearActive(c, TRUE)
                /\ action' = ErrorAction(p.cid, "INVALID_SEQ")
             \/ /\ p.sequence = c.channels[s].next_sequence
                /\ Assemble(c, s, p)
    \/ /\ \A s \in Slot : /\ ~ Assembling(c, s, p.cid)
                          /\ Holds(c, s, p.cid) =>
                                ~ c.channels[s].timeout_pending
       /\ core' = c
       /\ action' = NoAction

\* p4_ctaphid_core_feed: expire stale input, then classify the packet.
FeedInitial(p) ==
    LET c == Cleanup(core, now)
    IN \/ p.command = "CANCEL" /\ HandleCancel(c, p)
       \/ p.command = "INIT"   /\ HandleInit(c, p)
       \/ p.command \notin {"CANCEL", "INIT"} /\ HandleRequest(c, p)
FeedContinuation(p) == HandleContinuation(Cleanup(core, now), p)
-----------------------------------------------------------------------------
(* The other entry points of the core. *)

\* Mutant: a wait that ends without a report does no cleanup.
PeriodicCleanupForgotten == core' = core /\ action' = NoAction

\* p4_ctaphid_core_cleanup on its own, when no report came for 25 ms.
PeriodicCleanup ==
    /\ core' = Cleanup(core, now)
    /\ action' = NoAction

\* Mutant: the consumer's copy is taken, the pool's stays behind.
TakenUnwiped(c) == [c EXCEPT !.message_ready = FALSE, !.complete = NoMessage]

\* p4_ctaphid_core_take_message: the consumer copies the complete message
\* and its buffer is wiped; the transaction stays in processing.
Taken(c) == [c EXCEPT !.buffers[c.complete.buffer] = Zeroed,
                      !.message_ready = FALSE, !.complete = NoMessage]
TakeMessage ==
    /\ core.message_ready
    /\ core' = Taken(core)
    /\ action' = NoAction

\* Is (cid, gen) the transaction being processed?
Current(c, cid, gen) ==
    /\ c.phase = "PROCESSING"
    /\ c.active_cid = cid
    /\ \E s \in Slot : Holds(c, s, cid) /\ c.channels[s].generation = gen

\* Mutant: a response sent before its request was taken leaves the message.
FinishedKeepingMessage(c, cid, gen) ==
    IF Current(c, cid, gen) THEN ClearActive(c, FALSE) ELSE c

\* p4_ctaphid_core_finish_response; a stale CID or generation changes nothing.
Finished(c, cid, gen) ==
    IF Current(c, cid, gen) THEN ClearActive(c, TRUE) ELSE c
FinishResponse(cid, gen) ==
    /\ core' = Finished(core, cid, gen)
    /\ action' = NoAction

\* p4_ctaphid_core_clear_cancel
CancelCleared(c, cid, gen) ==
    IF Current(c, cid, gen)
    THEN [c EXCEPT !.channels[ActiveSlot(c)].cancel = FALSE]
    ELSE c
ClearCancel(cid, gen) ==
    /\ core' = CancelCleared(core, cid, gen)
    /\ action' = NoAction

\* p4_ctaphid_core_cancelled
Cancelled(c, cid, gen) ==
    \/ ~ Current(c, cid, gen)
    \/ \E s \in Slot : Holds(c, s, cid) /\ c.channels[s].cancel

\* p4_ctaphid_core_reset: channels, generations and buffers all go.
CoreReset ==
    /\ core' = CoreInit
    /\ action' = NoAction

\* Time passes.  Bound: the transport polls the core every 25 ms, so the
\* clock never runs once around (49 days) over a request being assembled.
Tick ==
    /\ core.phase = "RX" => silence < TimeMod - 1
    /\ now' = (now + 1) % TimeMod
    /\ silence' = IF core.phase = "RX" THEN silence + 1 ELSE 0
    /\ fed' = NoReport
    /\ core' = core /\ action' = NoAction

\* The last packet was accepted, and the request still lacks bytes.
Accepted == \E s \in Slot :
    /\ core'.channels[s].partial_active
    /\ core'.channels[s] # core.channels[s]

Step(A, cid) ==
    /\ A
    /\ fed' = cid
    /\ now' = now
    /\ silence' = IF core'.phase # "RX" \/ Accepted THEN 0 ELSE silence

Init ==
    /\ core = CoreInit
    /\ action = NoAction
    /\ fed = NoReport
    /\ now \in Time
    /\ silence = 0

Next ==
    \/ \E p \in InitialPacket : Step(FeedInitial(p), p.cid)
    \/ \E p \in Continuation : Step(FeedContinuation(p), p.cid)
    \/ Step(PeriodicCleanup, NoReport)
    \/ Step(TakeMessage, NoReport)
    \/ \E cid \in Cid, gen \in Gen : Step(FinishResponse(cid, gen), NoReport)
    \/ \E cid \in Cid, gen \in Gen : Step(ClearCancel(cid, gen), NoReport)
    \/ Step(CoreReset, NoReport)
    \/ Tick

Spec == Init /\ [][Next]_coreVars
-----------------------------------------------------------------------------
(* Types. *)

Channel ==
    [cid : Cid \cup {NullCid}, allocated : BOOLEAN, partial_active : BOOLEAN,
     command : Command, declared_len : Length, received : Length,
     next_sequence : 0 .. (MaxSeq + 1), last_packet_ms : Time,
     generation : Gen, cancel : BOOLEAN, timeout_pending : BOOLEAN]
Message ==
    [buffer : BufferIds \cup {NoBuffer}, cid : Cid \cup {NullCid},
     command : Command, len : Length, generation : Gen]
CoreType ==
    [channels : [Slot -> Channel], buffers : [BufferIds -> [Position -> Byte]],
     rx_buffer : BufferIds, phase : {"IDLE", "RX", "PROCESSING"},
     active_cid : Cid \cup {NullCid}, active_command : Command,
     message_ready : BOOLEAN, complete : Message,
     queue_full_count : 0 .. QueueFullMax]
ActionType ==
    [kind : {"NONE", "SEND", "MESSAGE", "CANCEL"}, cid : AnyCid,
     command : Command \cup {"INIT", "CANCEL", "ERROR"},
     code : Error \cup Cid \cup {"NONE"}, generation : Gen]

\* The type invariant of the core, the returned action and the clock.
TypeOK ==
    /\ core \in CoreType
    /\ action \in ActionType
    /\ now \in Time
    /\ fed \in AnyCid \cup {NoReport}
    /\ silence \in Nat
-----------------------------------------------------------------------------
(* Safety. *)

\* No CID names two channels: p4_ctaphid_chan_find always has one answer.
Unique(c) ==
    \A s, t \in Slot :
        /\ c.channels[s].allocated => c.channels[s].cid \in Cid
        /\ (c.channels[s].allocated /\ c.channels[t].allocated
              /\ c.channels[s].cid = c.channels[t].cid) => s = t
UniqueCids == Unique(core)

\* One transaction owns the transport (rx.c: "only one request owns the
\* transport until its response finishes"): the phase, the active CID, the
\* channel that assembles and the message that waits for the consumer always
\* describe the same transaction, in the same generation, so a finished
\* request never finds an older message still waiting.
ActiveRequest(c, s) ==
    /\ Holds(c, s, c.active_cid)
    /\ c.active_command \in Request
    /\ c.channels[s].command = c.active_command
    /\ c.channels[s].received <= c.channels[s].declared_len
    /\ c.phase = "PROCESSING" =>
          c.channels[s].received = c.channels[s].declared_len
WaitingMessage(c, s) ==
    /\ c.phase = "PROCESSING" /\ c.active_command = "CBOR"
    /\ Holds(c, s, c.active_cid)
    /\ c.complete = [buffer |-> 1 - c.rx_buffer, cid |-> c.active_cid,
                     command |-> "CBOR", len |-> c.channels[s].declared_len,
                     generation |-> c.channels[s].generation]
Owned(c) ==
    /\ c.phase = "IDLE" <=> c.active_cid = NullCid
    /\ c.phase # "IDLE" => \E s \in Slot : ActiveRequest(c, s)
    /\ \A s \in Slot :
          c.channels[s].partial_active <=>
             c.phase = "RX" /\ Holds(c, s, c.active_cid)
    /\ IF c.message_ready THEN \E s \in Slot : WaitingMessage(c, s)
                          ELSE c.complete = NoMessage
TransactionOwned == Owned(core)

\* A cancel flag stands only on the CBOR request now being processed, so no
\* later request of the channel starts out cancelled; and a timeout tombstone
\* never stands on the channel that owns the transport.
InScope(c) ==
    \A s \in Slot :
        /\ c.channels[s].cancel =>
              /\ Holds(c, s, c.active_cid)
              /\ c.phase = "PROCESSING" /\ c.active_command = "CBOR"
        /\ c.channels[s].timeout_pending => ~ Holds(c, s, c.active_cid)
FlagsInScope == InScope(core)

\* Which packet of a request brings its i-th byte.
PacketOf(i) ==
    IF i <= InitData THEN 0 ELSE ((i - InitData - 1) \div ContData) + 1
Bytes(cid, n) ==
    [i \in Position |-> IF i <= n THEN [cid |-> cid, packet |-> PacketOf(i)]
                        ELSE NoByte]

\* Every byte of the pool is accounted for: the assembly buffer holds, in
\* order, the bytes received for the active request, a waiting message is
\* whole, and everything else is wiped ("an aborted transaction never leaves
\* request bytes for later reuse").
BuffersExact ==
    LET rx    == core.rx_buffer
        held == IF core.phase = "RX" \/ core.active_command = "PING"
                 THEN core.channels[ActiveSlot(core)].received
                 ELSE 0
    IN /\ core.buffers[rx] = Bytes(core.active_cid, held)
       /\ core.buffers[1 - rx] = IF core.message_ready
                                 THEN Bytes(core.complete.cid, core.complete.len)
                                 ELSE Zeroed

\* The wrapping clock measures the silence of a request exactly, so that it
\* expires after MessageTimeout and not before, wherever the clock wraps.
TimeoutExact ==
    \A s \in Slot :
        core.channels[s].partial_active =>
           (TimeExpired(now, core.channels[s].last_packet_ms)
              <=> silence >= MessageTimeout)

\* A report disturbs neither another CID's channel nor another CID's
\* transaction, its bytes and its waiting message included, beyond the
\* timeout that is due anyway ("allocation ... never disturbs another CID",
\* "spurious continuations never allocate or disturb another channel").
NonInterference ==
    [][fed' # NoReport =>
         LET c == Cleanup(core, now)
         IN /\ \A s \in Slot :
                 (c.channels[s].allocated /\ ~ Holds(c, s, fed'))
                    => core'.channels[s] = c.channels[s]
            /\ (c.phase # "IDLE" /\ c.active_cid # fed') =>
                 [core' EXCEPT !.channels = c.channels,
                               !.queue_full_count = c.queue_full_count] = c
      ]_coreVars

\* A test of the repository says that a completed PING carries a token other
\* than 0 (tests/host/ctaphid_rx_test.c, CHECK(action.generation != 0)), and
\* transport_task takes 0 for "no transaction to finish".  The generation
\* wraps, so the claim fails.
PingTokenNonZero ==
    action.command = "PING" => action.generation # 0
-----------------------------------------------------------------------------
(* Liveness.  The transport runs the cleanup at least every 25 ms and the   *)
(* clock does not stop.                                                     *)

FairSpec ==
    /\ Spec
    /\ WF_coreVars(Tick)
    /\ WF_coreVars(Step(PeriodicCleanup, NoReport))

\* A half-received request does not hold the transport for ever, whatever
\* the hosts send: it completes, is aborted or times out.
Receiving(cid, gen) ==
    \E s \in Slot : /\ Assembling(core, s, cid)
                    /\ core.channels[s].generation = gen
PartialEnds ==
    \A cid \in Cid, gen \in Gen : Receiving(cid, gen) ~> ~ Receiving(cid, gen)
=============================================================================
