------------------------- MODULE CtapHidCore_proofs -------------------------
(***************************************************************************)
(* Proofs about CtapHidCore.  The handlers of the source are compositions  *)
(* of small helpers on a p4_ctaphid_core_t, and so are the proofs: each    *)
(* helper has a lemma saying that it keeps CoreOK, the part of the         *)
(* inductive invariant that speaks of one core, and what else its callers  *)
(* rely on; each handler's lemma cites those of the helpers it calls.      *)
(***************************************************************************)
EXTENDS CtapHidCore, TLAPS

\* What every helper keeps.  The three parts need one another: releasing a
\* request is only right when exactly one slot holds the active CID (Unique),
\* and a completed request finds the pool free only because the waiting
\* message belongs to the request being processed (Owned).
CoreOK(c) == c \in CoreType /\ Unique(c) /\ Owned(c) /\ InScope(c)

\* The cleared values lie in the ranges of the fields they clear.
LEMMA ZeroFact ==
    /\ 0 \in Length /\ 0 \in Time /\ 0 \in Gen /\ 0 \in 0 .. (MaxSeq + 1)
    /\ 0 \in 0 .. QueueFullMax /\ "NONE" \in Command /\ NullCid \in Cid \cup {NullCid}
  BY CoreAssumption DEF Length, Time, Command, Request, Gen

\* A wiped buffer and the empty message have their types.
LEMMA ZeroedFact == Zeroed \in [Position -> Byte] /\ NoMessage \in Message
<1>1. NoByte \in Byte
  BY ZeroFact DEF NoByte, Byte
<1> QED
  BY <1>1, ZeroFact DEF Zeroed, NoMessage, Message

\* While a request is active, exactly one slot holds its CID: what
\* p4_ctaphid_chan_find(core, core->active_cid) returns.
LEMMA ActiveSlotFact ==
    ASSUME NEW c, CoreOK(c), c.phase # "IDLE"
    PROVE  /\ ActiveSlot(c) \in Slot
           /\ ActiveRequest(c, ActiveSlot(c))
           /\ \A s \in Slot : Holds(c, s, c.active_cid) <=> s = ActiveSlot(c)
<1>1. PICK s \in Slot : ActiveRequest(c, s)
  BY DEF CoreOK, Owned
<1>2. Holds(c, s, c.active_cid)
  BY <1>1 DEF ActiveRequest
<1>3. ActiveSlot(c) \in Slot /\ Holds(c, ActiveSlot(c), c.active_cid)
  BY <1>2 DEF ActiveSlot
<1>4. \A t \in Slot : Holds(c, t, c.active_cid) => t = s
  BY <1>2 DEF CoreOK, Unique, Holds
<1> QED
  BY <1>1, <1>2, <1>3, <1>4

\* clear_channel_rx resets the assembly fields and keeps the identity, the
\* flags and the generation of a channel.
LEMMA ClearChannelRxFact ==
    ASSUME NEW ch \in Channel
    PROVE  /\ ClearChannelRx(ch) \in Channel
           /\ ClearChannelRx(ch).cid = ch.cid
           /\ ClearChannelRx(ch).allocated = ch.allocated
           /\ ClearChannelRx(ch).partial_active = FALSE
           /\ ClearChannelRx(ch).cancel = ch.cancel
           /\ ClearChannelRx(ch).timeout_pending = ch.timeout_pending
           /\ ClearChannelRx(ch).generation = ch.generation
<1>1. ClearChannelRx(ch) \in Channel
  BY ZeroFact DEF Channel, ClearChannelRx
<1> QED
  BY <1>1 DEF Channel, ClearChannelRx

\* clear_active leaves an idle core, provided it drops the waiting message
\* or there is none.
LEMMA ClearActiveOK ==
    ASSUME NEW c, CoreOK(c), c.phase # "IDLE", NEW drop \in BOOLEAN,
           drop \/ ~ c.message_ready
    PROVE  CoreOK(ClearActive(c, drop)) /\ ClearActive(c,drop).phase = "IDLE"
<1> DEFINE d == ClearActive(c, drop)
           a == ActiveSlot(c)
<1>0. c \in CoreType /\ Unique(c) /\ Owned(c) /\ InScope(c)
  BY DEF CoreOK
<1>1. /\ a \in Slot /\ ActiveRequest(c, a)
      /\ \A s \in Slot : Holds(c, s, c.active_cid) <=> s = a
  BY ActiveSlotFact
<1>2. /\ d.phase = "IDLE" /\ d.active_cid = NullCid /\ d.active_command = "NONE"
      /\ d.message_ready = FALSE
      /\ d.complete = NoMessage
      /\ d.rx_buffer = c.rx_buffer /\ d.queue_full_count = c.queue_full_count
      /\ d.buffers = [b \in BufferIds |->
              IF b = c.rx_buffer \/ (drop /\ c.message_ready /\ b = c.complete.buffer)
              THEN Zeroed ELSE c.buffers[b]]
  BY <1>0 DEF ClearActive, CoreType, Owned
<1>3. d.channels = [c.channels EXCEPT ![a] = [ClearChannelRx(c.channels[a]) EXCEPT !.cancel = FALSE]]
  BY <1>0, <1>1 DEF ClearActive, CoreType
<1>3a. DOMAIN d.channels = Slot /\ \A s \in Slot : s # a => d.channels[s] = c.channels[s]
  BY <1>0, <1>1, <1>3 DEF CoreType
<1>3b. /\ d.channels[a].cid = c.channels[a].cid
       /\ d.channels[a].allocated = c.channels[a].allocated
       /\ d.channels[a].partial_active = FALSE
       /\ d.channels[a].cancel = FALSE
       /\ d.channels[a].timeout_pending = c.channels[a].timeout_pending
       /\ d.channels[a] \in Channel
  <2>1. c.channels[a] \in Channel /\ DOMAIN c.channels = Slot
    BY <1>0, <1>1 DEF CoreType
  <2>2. d.channels[a] = [ClearChannelRx(c.channels[a]) EXCEPT !.cancel = FALSE]
    BY <1>1, <1>3, <2>1
  <2> QED
    BY <2>1, <2>2, ClearChannelRxFact DEF Channel
<1>4. d \in CoreType
  <2>1. Zeroed \in [Position -> Byte]
    BY CoreAssumption DEF Zeroed, Byte, NoByte
  <2>2. d.buffers \in [BufferIds -> [Position -> Byte]]
    BY <1>2, <2>1, <1>0 DEF CoreType
  <2>3. d.channels \in [Slot -> Channel]
    BY <1>0, <1>1, <1>3, <1>3b DEF CoreType
  <2>4. NoMessage \in Message
    BY CoreAssumption DEF Message, NoMessage, NoBuffer, Command, Length, Gen
  <2> QED
    BY <1>0, <1>2, <2>2, <2>3, <2>4 DEF CoreType, ClearActive, Command
<1>5. Unique(d)
  BY <1>0, <1>3a, <1>3b DEF Unique
<1>6. Owned(d)
  <2>1. \A s \in Slot : d.channels[s].partial_active = FALSE
    BY <1>0, <1>1, <1>3a, <1>3b DEF Owned, CoreType, Channel
  <2> QED
    BY <1>2, <2>1 DEF Owned
<1>7. InScope(d)
  <2>1. \A s \in Slot : d.channels[s].cancel = FALSE
    BY <1>0, <1>1, <1>3a, <1>3b DEF InScope, CoreType, Channel
  <2>2. \A s \in Slot : ~ Holds(d, s, NullCid)
    BY <1>5, CoreAssumption DEF Unique, Holds
  <2> QED
    BY <1>2, <2>1, <2>2 DEF InScope
<1> QED BY <1>2, <1>4, <1>5, <1>6, <1>7 DEF CoreOK

\* Counting a refusal, saturating, touches nothing else.
LEMMA CountQueueFullOK ==
    ASSUME NEW c, CoreOK(c)
    PROVE  /\ CoreOK(CountQueueFull(c))
           /\ CountQueueFull(c).phase = c.phase
           /\ CountQueueFull(c).active_cid = c.active_cid
           /\ CountQueueFull(c).channels = c.channels
           /\ CountQueueFull(c).message_ready = c.message_ready
<1> DEFINE d == CountQueueFull(c)
<1>1. d \in CoreType /\ d = [c EXCEPT !.queue_full_count = d.queue_full_count]
  BY CoreAssumption DEF CoreOK, CoreType, CountQueueFull
<1>2. /\ d.channels = c.channels /\ d.phase = c.phase /\ d.rx_buffer = c.rx_buffer
      /\ d.active_cid = c.active_cid /\ d.active_command = c.active_command
      /\ d.message_ready = c.message_ready /\ d.complete = c.complete
  BY DEF CoreOK, CoreType, CountQueueFull
<1>3. Unique(d)
  BY <1>2 DEF CoreOK, Unique
<1>4. Owned(d)
  BY <1>2 DEF CoreOK, Owned, ActiveRequest, WaitingMessage, Holds
<1>5. InScope(d)
  BY <1>2 DEF CoreOK, InScope, Holds
<1> QED
  BY <1>1, <1>2, <1>3, <1>4, <1>5 DEF CoreOK

\* Two states of a channel that describe the same request.
SameRequest(ch, old) ==
    /\ ch.cid = old.cid /\ ch.allocated = old.allocated
    /\ ch.partial_active = old.partial_active /\ ch.command = old.command
    /\ ch.declared_len = old.declared_len /\ ch.received = old.received
    /\ ch.generation = old.generation

\* A change to the flags, the clock or the sequence number of one channel
\* keeps CoreOK, as long as the flags stay in scope.
LEMMA TouchOK ==
    ASSUME NEW c, CoreOK(c), NEW s \in Slot, NEW ch \in Channel,
           SameRequest(ch, c.channels[s]),
           ch.cancel => \/ c.channels[s].cancel
                        \/ /\ Holds(c, s, c.active_cid)
                           /\ c.phase = "PROCESSING" /\ c.active_command = "CBOR",
           ch.timeout_pending => c.channels[s].timeout_pending
    PROVE  CoreOK([c EXCEPT !.channels[s] = ch])
<1> DEFINE d == [c EXCEPT !.channels[s] = ch]
<1>0. c \in CoreType /\ Unique(c) /\ Owned(c) /\ InScope(c)
  BY DEF CoreOK
<1>1. d \in CoreType
  BY <1>0 DEF CoreType
<1>2. /\ d.phase = c.phase /\ d.rx_buffer = c.rx_buffer
      /\ d.active_cid = c.active_cid /\ d.active_command = c.active_command
      /\ d.message_ready = c.message_ready /\ d.complete = c.complete
      /\ d.channels[s] = ch
      /\ \A t \in Slot : t # s => d.channels[t] = c.channels[t]
  BY <1>0 DEF CoreType
<1>3. \A t \in Slot : SameRequest(d.channels[t], c.channels[t])
  BY <1>2 DEF SameRequest
<1>4. \A t \in Slot : \A cid : Holds(d, t, cid) <=> Holds(c, t, cid)
  BY <1>3 DEF Holds, SameRequest
<1> HIDE DEF d
<1>5. Unique(d)
  BY <1>0, <1>3 DEF SameRequest, Unique
<1>6. Owned(d)
  <2>1. \A t \in Slot : ActiveRequest(c, t) => ActiveRequest(d, t)
    BY <1>2, <1>3, <1>4 DEF ActiveRequest, SameRequest
  <2>2. \A t \in Slot : WaitingMessage(c, t) => WaitingMessage(d, t)
    BY <1>2, <1>3, <1>4 DEF WaitingMessage, SameRequest
  <2> QED
    BY <1>0, <1>2, <1>3, <1>4, <2>1, <2>2 DEF Owned, SameRequest
<1>7. InScope(d)
  BY <1>0, <1>2, <1>4 DEF InScope
<1> QED
  BY <1>1, <1>5, <1>6, <1>7 DEF CoreOK, d

\* The message timeout leaves an idle core and a tombstone on a channel that
\* no longer owns the transport.
LEMMA CleanupOK ==
    ASSUME NEW c, CoreOK(c), NEW t \in Time
    PROVE  CoreOK(Cleanup(c, t))
<1> DEFINE d == Cleanup(c, t)
           a == ActiveSlot(c)
<1>0. c \in CoreType /\ Unique(c) /\ Owned(c) /\ InScope(c)
  BY DEF CoreOK
<1>1. CASE ~ (c.phase = "RX" /\ TimeExpired(t, c.channels[a].last_packet_ms))
  BY <1>1 DEF Cleanup
<1>2. CASE c.phase = "RX" /\ TimeExpired(t, c.channels[a].last_packet_ms)
  <2>1. /\ a \in Slot /\ ActiveRequest(c, a)
        /\ \A s \in Slot : Holds(c, s, c.active_cid) <=> s = a
    BY <1>2, ActiveSlotFact
  <2>2. /\ d.phase = "IDLE" /\ d.active_cid = NullCid /\ d.active_command = "NONE"
        /\ d.message_ready = c.message_ready /\ d.complete = c.complete
        /\ d.channels = [c.channels EXCEPT ![a] =
              [ClearChannelRx(c.channels[a]) EXCEPT !.timeout_pending = TRUE]]
    BY <1>0, <1>2 DEF Cleanup, CoreType
  <2>3. c.message_ready = FALSE
    BY <1>0, <1>2 DEF Owned, WaitingMessage, CoreType
  <2>4. c.channels[a] \in Channel /\ DOMAIN c.channels = Slot
    BY <1>0, <2>1 DEF CoreType
  <2>5. /\ d.channels[a] = [ClearChannelRx(c.channels[a]) EXCEPT !.timeout_pending = TRUE]
        /\ \A s \in Slot : s # a => d.channels[s] = c.channels[s]
    BY <2>1, <2>2, <2>4
  <2>6. /\ d.channels[a].cid = c.channels[a].cid
        /\ d.channels[a].allocated = c.channels[a].allocated
        /\ d.channels[a].partial_active = FALSE
        /\ d.channels[a].cancel = c.channels[a].cancel
        /\ d.channels[a] \in Channel
    BY <2>4, <2>5, ClearChannelRxFact DEF Channel
  <2>7. d \in CoreType
    <3>1. d.channels \in [Slot -> Channel]
      BY <1>0, <2>1, <2>2, <2>6 DEF CoreType
    <3>2. d = [c EXCEPT !.channels = d.channels,
                        !.buffers = [c.buffers EXCEPT ![c.rx_buffer] = Zeroed],
                        !.phase = "IDLE", !.active_cid = NullCid,
                        !.active_command = "NONE"]
      BY <1>2, <2>2 DEF Cleanup
    <3>3. [c.buffers EXCEPT ![c.rx_buffer] = Zeroed]
             \in [BufferIds -> [Position -> Byte]]
      BY <1>0, ZeroedFact DEF CoreType
    <3> HIDE DEF d
    <3> QED
      BY <1>0, <3>1, <3>2, <3>3, ZeroFact DEF CoreType
  <2> HIDE DEF d
  <2>8. Unique(d)
    <3>1. \A s \in Slot : /\ d.channels[s].cid = c.channels[s].cid
                          /\ d.channels[s].allocated = c.channels[s].allocated
      BY <2>5, <2>6
    <3> QED
      BY <1>0, <3>1 DEF Unique
  <2>9. Owned(d)
    <3>1. \A s \in Slot : d.channels[s].partial_active = FALSE
      BY <1>0, <2>1, <2>5, <2>6 DEF Owned, CoreType, Channel
    <3> QED
      BY <1>0, <2>2, <2>3, <3>1 DEF Owned
  <2>10. InScope(d)
    <3>1. \A s \in Slot : d.channels[s].cancel = FALSE
      BY <1>0, <1>2, <2>5, <2>6 DEF InScope, CoreType, Channel
    <3>2. \A s \in Slot : ~ Holds(d, s, NullCid)
      BY <2>8, CoreAssumption DEF Unique, Holds
    <3> QED
      BY <2>2, <3>1, <3>2 DEF InScope
  <2> QED
    BY <2>7, <2>8, <2>9, <2>10 DEF CoreOK, d
<1> QED
  BY <1>1, <1>2

\* begin_message makes the channel the owner of an idle core, in a new
\* generation and with nothing received.
LEMMA BeginMessageOK ==
    ASSUME NEW c, CoreOK(c), c.phase = "IDLE", NEW s \in Slot, NEW t \in Time,
           NEW p \in InitialPacket, Holds(c, s, p.cid),
           p.command \in Request, p.len <= MaxPayload
    PROVE  LET d == BeginMessage(c, s, p, t)
           IN /\ CoreOK(d) /\ d.phase = "RX" /\ d.active_cid = p.cid
              /\ Holds(d, s, p.cid)
<1> DEFINE d == BeginMessage(c, s, p, t)
<1>0. c \in CoreType /\ Unique(c) /\ Owned(c) /\ InScope(c)
  BY DEF CoreOK
<1>1. c.channels[s] \in Channel /\ DOMAIN c.channels = Slot
  BY <1>0 DEF CoreType
<1>2. NextGeneration(c.channels[s]) \in Gen
  BY <1>1, CoreAssumption DEF NextGeneration, Gen, Channel
<1>3. p.cid \in Cid /\ p.len \in Length /\ p.command \in Command
  BY <1>0, CoreAssumption DEF Unique, Holds, InitialPacket, Length, Command
<1>4. /\ d.phase = "RX" /\ d.active_cid = p.cid /\ d.active_command = p.command
      /\ d.message_ready = c.message_ready /\ d.complete = c.complete
      /\ d.rx_buffer = c.rx_buffer
      /\ \A u \in Slot : u # s => d.channels[u] = c.channels[u]
      /\ d.channels[s].cid = c.channels[s].cid
      /\ d.channels[s].allocated = c.channels[s].allocated
      /\ d.channels[s].partial_active = TRUE
      /\ d.channels[s].command = p.command
      /\ d.channels[s].declared_len = p.len
      /\ d.channels[s].received = 0
      /\ d.channels[s].cancel = FALSE
      /\ d.channels[s].timeout_pending = FALSE
  BY <1>0, <1>1 DEF BeginMessage, CoreType, Channel
<1>5. d \in CoreType
  <2>1. d.channels \in [Slot -> Channel]
    <3> DEFINE ch == [c.channels[s] EXCEPT
                      !.partial_active = TRUE, !.command = p.command,
                      !.declared_len = p.len, !.received = 0,
                      !.next_sequence = 0, !.last_packet_ms = t,
                      !.cancel = FALSE, !.timeout_pending = FALSE,
                      !.generation = NextGeneration(c.channels[s])]
    <3>1. ch \in Channel
      BY <1>1, <1>2, <1>3, ZeroFact DEF Channel
    <3>2. d.channels = [c.channels EXCEPT ![s] = ch]
      BY <1>0 DEF BeginMessage, CoreType
    <3> HIDE DEF ch
    <3> QED
      BY <1>0, <3>1, <3>2 DEF CoreType
  <2>2. d = [c EXCEPT !.channels = d.channels,
                      !.buffers = [c.buffers EXCEPT ![c.rx_buffer] = Zeroed],
                      !.phase = "RX", !.active_cid = p.cid,
                      !.active_command = p.command]
    BY <1>0 DEF BeginMessage, CoreType
  <2>3. [c.buffers EXCEPT ![c.rx_buffer] = Zeroed]
           \in [BufferIds -> [Position -> Byte]]
    BY <1>0, ZeroedFact DEF CoreType
  <2> HIDE DEF d
  <2> QED
    BY <1>0, <1>3, <2>1, <2>2, <2>3 DEF CoreType
<1> HIDE DEF d
<1>6. \A u \in Slot : \A cid : Holds(d, u, cid) <=> Holds(c, u, cid)
  BY <1>4 DEF Holds
<1>7. Unique(d)
  BY <1>0, <1>4 DEF Unique
<1>8. \A u \in Slot : Holds(d, u, p.cid) <=> u = s
  BY <1>6, <1>7, <1>3 DEF Holds, Unique
<1>9. Owned(d)
  <2>1. ActiveRequest(d, s)
    BY <1>3, <1>4, <1>8 DEF ActiveRequest, Length
  <2>2. \A u \in Slot : u # s => c.channels[u].partial_active = FALSE
    BY <1>0 DEF Owned, CoreType, Channel
  <2>3. c.message_ready = FALSE /\ c.complete = NoMessage
    BY <1>0 DEF Owned, WaitingMessage, CoreType
  <2> QED
    BY <1>3, <1>4, <1>8, <2>1, <2>2, <2>3, CoreAssumption DEF Owned
<1>10. InScope(d)
  <2>1. \A u \in Slot : c.channels[u].cancel = FALSE
    BY <1>0 DEF InScope, CoreType, Channel
  <2> QED
    BY <1>4, <1>8, <2>1 DEF InScope
<1> QED
  BY <1>4, <1>5, <1>7, <1>8, <1>9, <1>10 DEF CoreOK, d

\* Storing a packet never receives more than was declared.
LEMMA StoreBytesOK ==
    ASSUME NEW c, CoreOK(c), c.phase = "RX", NEW s \in Slot,
           Holds(c, s, c.active_cid), NEW byte \in Byte, NEW room \in Nat
    PROVE  LET d == StoreBytes(c, s, byte, room)
           IN /\ CoreOK(d) /\ d.phase = "RX" /\ d.active_cid = c.active_cid
              /\ Holds(d, s, c.active_cid)
              /\ d.channels[s].next_sequence = c.channels[s].next_sequence
<1> DEFINE d == StoreBytes(c, s, byte, room)
           ch == c.channels[s]
           left == ch.declared_len - ch.received
           take == IF left < room THEN left ELSE room
<1>0. c \in CoreType /\ Unique(c) /\ Owned(c) /\ InScope(c)
  BY DEF CoreOK
<1>1. ch \in Channel /\ DOMAIN c.channels = Slot
  BY <1>0 DEF CoreType
<1>2. ActiveRequest(c, s)
  BY ActiveSlotFact
<1>3. /\ ch.received + take \in Length
      /\ ch.received + take <= ch.declared_len
  BY <1>1, <1>2, CoreAssumption DEF ActiveRequest, Channel, Length
<1>4. /\ d.phase = "RX" /\ d.active_cid = c.active_cid
      /\ d.active_command = c.active_command
      /\ d.message_ready = c.message_ready /\ d.complete = c.complete
      /\ d.channels = [c.channels EXCEPT ![s].received = ch.received + take]
  BY <1>0 DEF StoreBytes, CoreType
<1>5. /\ \A u \in Slot : u # s => d.channels[u] = c.channels[u]
      /\ d.channels[s].cid = ch.cid /\ d.channels[s].allocated = ch.allocated
      /\ d.channels[s].partial_active = ch.partial_active
      /\ d.channels[s].command = ch.command
      /\ d.channels[s].declared_len = ch.declared_len
      /\ d.channels[s].received = ch.received + take
      /\ d.channels[s].cancel = ch.cancel
      /\ d.channels[s].timeout_pending = ch.timeout_pending
      /\ d.channels[s].next_sequence = ch.next_sequence
      /\ d.channels[s] \in Channel
  <2>1. d.channels[s] = [ch EXCEPT !.received = ch.received + take]
    BY <1>1, <1>4
  <2> QED
    BY <1>1, <1>3, <1>4, <2>1 DEF Channel
<1>6. d \in CoreType
  <2>1. d.channels \in [Slot -> Channel]
    BY <1>0, <1>4, <1>5 DEF CoreType
  <2> DEFINE stored == [i \in Position |->
              IF i \in (ch.received + 1) .. (ch.received + take)
              THEN byte ELSE c.buffers[c.rx_buffer][i]]
  <2>2. stored \in [Position -> Byte]
    BY <1>0 DEF CoreType
  <2>3. d = [c EXCEPT !.channels = d.channels,
                      !.buffers = [c.buffers EXCEPT ![c.rx_buffer] = stored]]
    BY <1>0 DEF StoreBytes, CoreType
  <2>4. [c.buffers EXCEPT ![c.rx_buffer] = stored]
           \in [BufferIds -> [Position -> Byte]]
    BY <1>0, <2>2 DEF CoreType
  <2> HIDE DEF d, stored
  <2> QED
    BY <1>0, <2>1, <2>3, <2>4 DEF CoreType
<1> HIDE DEF d
<1>7. \A u \in Slot : /\ d.channels[u].cid = c.channels[u].cid
                      /\ d.channels[u].allocated = c.channels[u].allocated
                      /\ d.channels[u].cancel = c.channels[u].cancel
                      /\ d.channels[u].partial_active = c.channels[u].partial_active
                      /\ d.channels[u].timeout_pending = c.channels[u].timeout_pending
  BY <1>5
<1>8. \A u \in Slot : \A cid : Holds(d, u, cid) <=> Holds(c, u, cid)
  BY <1>7 DEF Holds
<1>9. Unique(d)
  BY <1>0, <1>7 DEF Unique
<1>10. Owned(d)
  <2>1. ActiveRequest(d, s)
    BY <1>2, <1>3, <1>4, <1>5, <1>8 DEF ActiveRequest
  <2>2. c.message_ready = FALSE
    BY <1>0 DEF Owned, WaitingMessage, CoreType
  <2> QED
    BY <1>0, <1>4, <1>7, <1>8, <2>1, <2>2 DEF Owned
<1>11. InScope(d)
  BY <1>0, <1>4, <1>7, <1>8 DEF InScope
<1> QED
  BY <1>4, <1>5, <1>6, <1>8, <1>9, <1>10, <1>11 DEF CoreOK, d

\* Handing the assembly buffer over makes the waiting message that of the
\* request now being processed.
LEMMA HandOverOK ==
    ASSUME NEW c, CoreOK(c), c.phase = "PROCESSING", NEW s \in Slot,
           Holds(c, s, c.active_cid), c.channels[s].command = "CBOR",
           ~ c.message_ready
    PROVE  CoreOK(HandOver(c, s))
<1> DEFINE d == HandOver(c, s)
           ch == c.channels[s]
<1>0. c \in CoreType /\ Unique(c) /\ Owned(c) /\ InScope(c)
  BY DEF CoreOK
<1>1. ch \in Channel /\ ch.cid = c.active_cid
  BY <1>0 DEF CoreType, Holds
<1>2. ActiveRequest(c, s)
  BY ActiveSlotFact
<1>3. /\ d.phase = c.phase /\ d.active_cid = c.active_cid
      /\ d.active_command = c.active_command /\ d.channels = c.channels
      /\ d.message_ready = TRUE /\ d.rx_buffer = 1 - c.rx_buffer
      /\ d.complete = [buffer |-> c.rx_buffer, cid |-> ch.cid,
                       command |-> ch.command, len |-> ch.declared_len,
                       generation |-> ch.generation]
  BY <1>0 DEF HandOver, CoreType
<1>4. d \in CoreType
  <2>1. 1 - c.rx_buffer \in BufferIds
    BY <1>0 DEF CoreType, BufferIds
  <2>2. d.complete \in Message
    BY <1>0, <1>1, <1>3 DEF Message, CoreType, Channel
  <2>3. d = [c EXCEPT !.complete = d.complete, !.rx_buffer = 1 - c.rx_buffer,
                      !.message_ready = TRUE]
    BY <1>0 DEF HandOver, CoreType
  <2> HIDE DEF d
  <2> QED
    BY <1>0, <2>1, <2>2, <2>3 DEF CoreType
<1> HIDE DEF d
<1>5. Unique(d)
  BY <1>0, <1>3 DEF Unique
<1>6. Owned(d)
  <2>1. c.rx_buffer = 1 - d.rx_buffer
    BY <1>0, <1>3 DEF CoreType, BufferIds
  <2>2. WaitingMessage(d, s)
    BY <1>1, <1>2, <1>3, <2>1 DEF WaitingMessage, ActiveRequest, Holds
  <2> QED
    BY <1>0, <1>3, <2>2 DEF Owned, ActiveRequest, Holds
<1>7. InScope(d)
  BY <1>0, <1>3 DEF InScope, Holds
<1> QED
  BY <1>4, <1>5, <1>6, <1>7 DEF CoreOK, d

\* The replies built by the handlers are well-typed actions.
LEMMA ActionFact ==
    ASSUME NEW cid \in AnyCid
    PROVE  /\ NoAction \in ActionType
           /\ \A error \in Error : ErrorAction(cid, error) \in ActionType
           /\ \A assigned \in Cid : InitReply(cid, assigned) \in ActionType
  BY ZeroFact DEF NoAction, ErrorAction, InitReply, SendAction, ActionType,
                  AnyCid, Command

\* The request just handed over is whole: a PING is echoed in the transaction
\* it opens, a CBOR request waits to be taken and starts out uncancelled.
Completed ==
    /\ core'.phase = "PROCESSING"
    /\ \A u \in Slot : core'.channels[u].cancel = FALSE
    /\ \/ /\ core'.active_command = "PING"
          /\ action'.kind = "SEND" /\ action'.command = "PING"
          /\ action'.cid \in Cid
          /\ Current(core', action'.cid, action'.generation)
       \/ /\ core'.active_command = "CBOR"
          /\ action'.kind = "MESSAGE" /\ core'.message_ready

\* The transport is asked for no more than a reply outside any transaction.
Minor == /\ action'.kind # "MESSAGE"
         /\ action'.kind = "SEND" => /\ action'.generation = 0
                                     /\ action'.command \in {"INIT", "ERROR"}

\* The transaction of c goes on in d; it may have been cancelled.
Continues(c, d) ==
    /\ d.phase = c.phase /\ d.active_cid = c.active_cid
    /\ d.active_command = c.active_command /\ d.message_ready = c.message_ready
    /\ \A s \in Slot :
          /\ Holds(d, s, c.active_cid) <=> Holds(c, s, c.active_cid)
          /\ Holds(c, s, c.active_cid) =>
                /\ d.channels[s].generation = c.channels[s].generation
                /\ c.channels[s].cancel => d.channels[s].cancel

\* What a report does to the transaction: one in processing goes on or is
\* aborted, and only a report that finds none brings a new one.
Outcome(c) ==
    IF c.phase = "PROCESSING"
    THEN Minor /\ (Continues(c, core') \/ core'.phase = "IDLE")
    ELSE (Minor /\ core'.phase # "PROCESSING") \/ Completed

\* Errors, INIT replies and no action at all are minor.
LEMMA MinorFact ==
    ASSUME NEW cid, NEW code,
           action' \in {NoAction, ErrorAction(cid, code), InitReply(cid, code)}
    PROVE  Minor
<1>1. /\ NoAction.kind = "NONE"
      /\ \A command : LET a == SendAction(cid, command, code)
                     IN a.kind = "SEND" /\ a.generation = 0 /\ a.command = command
  BY DEF NoAction, SendAction
<1> QED
  BY <1>1 DEF Minor, ErrorAction, InitReply

\* A transaction that goes on is an outcome.
LEMMA ContinuesOutcome ==
    ASSUME NEW c, Minor, Continues(c, core')
    PROVE  Outcome(c)
  BY DEF Outcome, Continues

\* Changes that leave a transaction alone add up.
LEMMA ContinuesTransitive ==
    ASSUME NEW c, NEW d, NEW e, Continues(c, d), Continues(d, e)
    PROVE  Continues(c, e)
  BY DEF Continues

\* A refusal, counted or not, leaves the transaction alone.
LEMMA ContinuesCounted ==
    ASSUME NEW c, CoreOK(c)
    PROVE  Continues(c, c) /\ Continues(c, CountIfReady(c))
<1>1. /\ CountQueueFull(c).active_command = c.active_command
      /\ CountQueueFull(c).channels = c.channels
  BY DEF CountQueueFull, CoreOK, CoreType
<1>2. \A s \in Slot : Holds(CountQueueFull(c), s, c.active_cid)
                         <=> Holds(c, s, c.active_cid)
  BY <1>1 DEF Holds
<1>3. Continues(c, CountQueueFull(c))
  BY <1>1, <1>2, CountQueueFullOK DEF Continues
<1>4. Continues(c, c)
  BY DEF Continues
<1> QED
  BY <1>3, <1>4 DEF CountIfReady

\* So does a tombstone taken away.
LEMMA ContinuesTombstone ==
    ASSUME NEW c, CoreOK(c), NEW s \in Slot
    PROVE  Continues(c, [c EXCEPT !.channels[s].timeout_pending = FALSE])
<1> DEFINE d == [c EXCEPT !.channels[s].timeout_pending = FALSE]
<1>1. c \in CoreType /\ c.channels[s] \in Channel /\ DOMAIN c.channels = Slot
  BY DEF CoreOK, CoreType
<1>2. /\ d.phase = c.phase /\ d.active_cid = c.active_cid
      /\ d.active_command = c.active_command /\ d.message_ready = c.message_ready
      /\ d.channels[s] = [c.channels[s] EXCEPT !.timeout_pending = FALSE]
      /\ \A t \in Slot : t # s => d.channels[t] = c.channels[t]
  BY <1>1 DEF CoreType
<1>3. /\ d.channels[s].cid = c.channels[s].cid
      /\ d.channels[s].allocated = c.channels[s].allocated
      /\ d.channels[s].generation = c.channels[s].generation
      /\ d.channels[s].cancel = c.channels[s].cancel
  BY <1>1, <1>2 DEF Channel
<1> HIDE DEF d
<1>4. \A t \in Slot : /\ d.channels[t].cid = c.channels[t].cid
                      /\ d.channels[t].allocated = c.channels[t].allocated
                      /\ d.channels[t].generation = c.channels[t].generation
                      /\ d.channels[t].cancel = c.channels[t].cancel
  BY <1>2, <1>3
<1>5. Continues(c, d)
  BY <1>2, <1>4 DEF Continues, Holds
<1> QED
  BY <1>5 DEF d

\* complete_message, on a request that has all its bytes.
LEMMA CompleteMessageOK ==
    ASSUME NEW c, CoreOK(c), c.phase = "RX", NEW s \in Slot,
           Holds(c, s, c.active_cid),
           c.channels[s].received = c.channels[s].declared_len,
           CompleteMessage(c, s)
    PROVE  CoreOK(core') /\ action' \in ActionType /\ Completed
<1> DEFINE ch == c.channels[s]
           d == [c EXCEPT !.phase = "PROCESSING",
                          !.channels[s].partial_active = FALSE]
           done == [NoAction EXCEPT !.cid = ch.cid, !.command = ch.command,
                                    !.generation = ch.generation]
<1>0. c \in CoreType /\ Unique(c) /\ Owned(c) /\ InScope(c)
  BY DEF CoreOK
<1>1. ch \in Channel /\ DOMAIN c.channels = Slot /\ ch.cid \in Cid
  BY <1>0 DEF CoreType, Holds, Unique
<1>2. ActiveRequest(c, s)
  BY ActiveSlotFact
<1>3. /\ d.phase = "PROCESSING" /\ d.active_cid = c.active_cid
      /\ d.active_command = c.active_command
      /\ d.message_ready = c.message_ready /\ d.complete = c.complete
      /\ d.rx_buffer = c.rx_buffer
      /\ d.channels = [c.channels EXCEPT ![s].partial_active = FALSE]
  BY <1>0 DEF CoreType
<1>4. /\ d.channels[s] = [ch EXCEPT !.partial_active = FALSE]
      /\ \A u \in Slot : u # s => d.channels[u] = c.channels[u]
  BY <1>1, <1>3
<1>5. /\ d.channels[s] \in Channel
      /\ d.channels[s].partial_active = FALSE
      /\ d.channels[s].cid = ch.cid /\ d.channels[s].allocated = ch.allocated
      /\ d.channels[s].command = ch.command
      /\ d.channels[s].declared_len = ch.declared_len
      /\ d.channels[s].received = ch.received
      /\ d.channels[s].generation = ch.generation
      /\ d.channels[s].cancel = ch.cancel
      /\ d.channels[s].timeout_pending = ch.timeout_pending
  <2> DEFINE e == [ch EXCEPT !.partial_active = FALSE]
  <2>1. /\ e \in Channel /\ e.partial_active = FALSE
        /\ e.cid = ch.cid /\ e.allocated = ch.allocated
        /\ e.command = ch.command /\ e.declared_len = ch.declared_len
        /\ e.received = ch.received /\ e.generation = ch.generation
        /\ e.cancel = ch.cancel /\ e.timeout_pending = ch.timeout_pending
    BY <1>1 DEF Channel
  <2> HIDE DEF e, d, ch
  <2> QED
    BY <1>4, <2>1 DEF e
<1>6. d \in CoreType
  <2>1. d.channels \in [Slot -> Channel]
    BY <1>0, <1>3, <1>5 DEF CoreType
  <2>2. d = [c EXCEPT !.phase = "PROCESSING", !.channels = d.channels]
    BY <1>0 DEF CoreType
  <2> HIDE DEF d
  <2> QED
    BY <1>0, <2>1, <2>2 DEF CoreType
<1> HIDE DEF d
<1>7. \A u \in Slot : /\ d.channels[u].cid = c.channels[u].cid
                      /\ d.channels[u].allocated = c.channels[u].allocated
                      /\ d.channels[u].cancel = c.channels[u].cancel
                      /\ d.channels[u].timeout_pending = c.channels[u].timeout_pending
  BY <1>4, <1>5
<1>8. \A u \in Slot : \A cid : Holds(d, u, cid) <=> Holds(c, u, cid)
  BY <1>7 DEF Holds
<1>9. Unique(d)
  BY <1>0, <1>7 DEF Unique
<1>10. c.message_ready = FALSE
  BY <1>0 DEF Owned, WaitingMessage, CoreType
<1>11. \A u \in Slot : Holds(c, u, c.active_cid) <=> u = s
  BY ActiveSlotFact
<1>12. Owned(d)
  <2>1. ActiveRequest(d, s)
    BY <1>2, <1>3, <1>5, <1>8 DEF ActiveRequest
  <2>2. \A u \in Slot : d.channels[u].partial_active = FALSE
    BY <1>0, <1>4, <1>5, <1>11 DEF Owned, CoreType, Channel
  <2> QED
    BY <1>0, <1>3, <1>10, <2>1, <2>2 DEF Owned
<1>13. InScope(d)
  <2>1. \A u \in Slot : c.channels[u].cancel = FALSE
    BY <1>0 DEF InScope, CoreType, Channel
  <2> QED
    BY <1>0, <1>3, <1>7, <1>8, <2>1 DEF InScope
<1>14. CoreOK(d)
  BY <1>6, <1>9, <1>12, <1>13 DEF CoreOK
<1>15. \A kind \in {"SEND", "MESSAGE"} : [done EXCEPT !.kind = kind] \in ActionType
  BY <1>1, ZeroFact DEF NoAction, ActionType, Channel, AnyCid
<1>18. \A u \in Slot : d.channels[u].cancel = FALSE
  BY <1>0, <1>7 DEF InScope, CoreType, Channel
<1>16. CASE ch.command = "PING"
  <2>1. core' = d /\ action' = [done EXCEPT !.kind = "SEND"]
    BY <1>16 DEF CompleteMessage, d
  <2>2. /\ action'.kind = "SEND" /\ action'.command = "PING"
        /\ action'.cid = ch.cid /\ action'.generation = ch.generation
    BY <1>16, <2>1 DEF NoAction
  <2>3. Current(core', action'.cid, action'.generation)
    <3>1. ch.cid = c.active_cid
      BY DEF Holds
    <3>2. Holds(d, s, ch.cid) /\ d.channels[s].generation = ch.generation
      BY <1>5, <1>8, <3>1
    <3>3. Current(d, ch.cid, ch.generation)
      BY <1>3, <3>1, <3>2 DEF Current
    <3> QED
      BY <2>1, <2>2, <3>3
  <2>4. Completed
    BY <1>1, <1>2, <1>3, <1>16, <1>18, <2>1, <2>2, <2>3 DEF Completed, ActiveRequest
  <2> QED
    BY <1>14, <1>15, <2>1, <2>4
<1>17. CASE ch.command # "PING"
  <2>1. core' = HandOver(d, s) /\ action' = [done EXCEPT !.kind = "MESSAGE"]
    BY <1>3, <1>10, <1>17 DEF CompleteMessage, d
  <2>2. ch.command = "CBOR"
    BY <1>2, <1>17 DEF ActiveRequest, Request
  <2>3. CoreOK(HandOver(d, s))
    BY <1>3, <1>5, <1>8, <1>10, <1>14, <2>2, HandOverOK
  <2>4. /\ core'.phase = d.phase /\ core'.active_command = d.active_command
        /\ core'.channels = d.channels /\ core'.message_ready = TRUE
    BY <1>6, <2>1 DEF HandOver, CoreType
  <2>5. Completed
    BY <1>2, <1>3, <1>18, <2>1, <2>2, <2>4 DEF Completed, ActiveRequest, NoAction
  <2> QED
    BY <1>15, <2>1, <2>3, <2>5
<1> QED
  BY <1>16, <1>17

\* The tail shared by feed_initial and feed_continuation.
LEMMA CompleteIfFullOK ==
    ASSUME NEW c, CoreOK(c), c.phase = "RX", NEW s \in Slot,
           Holds(c, s, c.active_cid), CompleteIfFull(c, s)
    PROVE  CoreOK(core') /\ action' \in ActionType /\ Outcome(c)
<1>1. NullCid \in AnyCid
  BY DEF AnyCid
<1>2. CASE CompleteMessage(c, s) /\ c.channels[s].received = c.channels[s].declared_len
  BY <1>2, CompleteMessageOK DEF Outcome
<1>3. CASE core' = c /\ action' = NoAction
  BY <1>1, <1>3, ActionFact, MinorFact DEF Outcome
<1> QED
  BY <1>2, <1>3 DEF CompleteIfFull

\* CANCEL flags only the CBOR request being processed.
LEMMA HandleCancelOK ==
    ASSUME NEW c, CoreOK(c), NEW p \in InitialPacket, HandleCancel(c, p)
    PROVE  CoreOK(core') /\ action' \in ActionType /\ Outcome(c)
<1>0. c \in CoreType /\ Unique(c)
  BY DEF CoreOK
<1>1. CASE core' = c /\ action' = NoAction
  BY <1>1, ActionFact, MinorFact, ContinuesCounted, ContinuesOutcome DEF AnyCid
<1>2. CASE \E s \in Slot :
             /\ c.phase = "PROCESSING" /\ c.active_cid = p.cid
             /\ c.active_command = "CBOR" /\ Holds(c, s, p.cid)
             /\ core' = [c EXCEPT !.channels[s].cancel = TRUE]
             /\ action' = [kind |-> "CANCEL", cid |-> p.cid,
                           command |-> "CANCEL", code |-> "NONE",
                           generation |-> c.channels[s].generation]
  <2>1. PICK s \in Slot :
             /\ c.phase = "PROCESSING" /\ c.active_cid = p.cid
             /\ c.active_command = "CBOR" /\ Holds(c, s, p.cid)
             /\ core' = [c EXCEPT !.channels[s].cancel = TRUE]
             /\ action' = [kind |-> "CANCEL", cid |-> p.cid,
                           command |-> "CANCEL", code |-> "NONE",
                           generation |-> c.channels[s].generation]
    BY <1>2
  <2> DEFINE ch == [c.channels[s] EXCEPT !.cancel = TRUE]
  <2>2. c.channels[s] \in Channel
    BY <1>0 DEF CoreType
  <2>3. ch \in Channel /\ SameRequest(ch, c.channels[s])
        /\ ch.timeout_pending = c.channels[s].timeout_pending
    BY <2>2 DEF Channel, SameRequest
  <2>4. core' = [c EXCEPT !.channels[s] = ch]
    BY <1>0, <2>1 DEF CoreType
  <2>5. action' \in ActionType
    BY <2>1, <2>2 DEF ActionType, Channel, InitialPacket
  <2> HIDE DEF ch
  <2>6. Holds(c, s, c.active_cid)
    BY <2>1
  <2>7. CoreOK([c EXCEPT !.channels[s] = ch])
    BY <2>1, <2>3, <2>6, TouchOK
  <2>8. core'.channels[s] = ch
        /\ \A t \in Slot : t # s => core'.channels[t] = c.channels[t]
    BY <1>0, <2>4 DEF CoreType
  <2>9. ch.cancel = TRUE
    BY <2>2 DEF ch, Channel
  <2>10. Continues(c, core')
    <3>1. /\ core'.phase = c.phase /\ core'.active_cid = c.active_cid
          /\ core'.active_command = c.active_command
          /\ core'.message_ready = c.message_ready
      BY <1>0, <2>4 DEF CoreType
    <3>2. \A t \in Slot : /\ core'.channels[t].cid = c.channels[t].cid
                          /\ core'.channels[t].allocated = c.channels[t].allocated
                          /\ core'.channels[t].generation = c.channels[t].generation
                          /\ c.channels[t].cancel => core'.channels[t].cancel
      BY <2>3, <2>8, <2>9 DEF SameRequest
    <3> QED
      BY <3>1, <3>2 DEF Continues, Holds
  <2>11. Outcome(c)
    BY <2>1, <2>10, ContinuesOutcome DEF Minor
  <2> QED
    BY <2>4, <2>5, <2>7, <2>11
<1> QED
  BY <1>1, <1>2 DEF HandleCancel, Cancellable

\* A new channel takes a free slot and a CID nobody has.
LEMMA AllocateChannelOK ==
    ASSUME NEW c, CoreOK(c), NEW p \in InitialPacket, AllocateChannel(c, p)
    PROVE  CoreOK(core') /\ action' \in ActionType /\ Outcome(c)
<1>0. c \in CoreType /\ Unique(c) /\ Owned(c) /\ InScope(c)
  BY DEF CoreOK
<1>1. p.cid \in AnyCid
  BY DEF InitialPacket
<1>2. CASE core' = c /\ (\/ action' = ErrorAction(p.cid, "CHANNEL_BUSY")
                         \/ action' = ErrorAction(p.cid, "OTHER"))
  BY <1>1, <1>2, ActionFact, MinorFact, ContinuesCounted, ContinuesOutcome DEF Error
<1>3. CASE \E s \in Slot, cid \in Cid :
          /\ ~ c.channels[s].allocated
          /\ ~ Allocated(c, cid)
          /\ core' = [c EXCEPT !.channels[s] = NewChannel(cid)]
          /\ action' = InitReply(p.cid, cid)
  <2>1. PICK s \in Slot, cid \in Cid :
          /\ ~ c.channels[s].allocated
          /\ ~ Allocated(c, cid)
          /\ core' = [c EXCEPT !.channels[s] = NewChannel(cid)]
          /\ action' = InitReply(p.cid, cid)
    BY <1>3
  <2> DEFINE d == [c EXCEPT !.channels[s] = NewChannel(cid)]
  <2>2. /\ NewChannel(cid) \in Channel
        /\ NewChannel(cid).cid = cid /\ NewChannel(cid).allocated = TRUE
        /\ NewChannel(cid).partial_active = FALSE
        /\ NewChannel(cid).cancel = FALSE
        /\ NewChannel(cid).timeout_pending = FALSE
    BY ZeroFact DEF NewChannel, FreeChannel, Channel
  <2>3. d \in CoreType
    BY <1>0, <2>2 DEF CoreType
  <2>4. /\ d.phase = c.phase /\ d.rx_buffer = c.rx_buffer
        /\ d.active_cid = c.active_cid /\ d.active_command = c.active_command
        /\ d.message_ready = c.message_ready /\ d.complete = c.complete
        /\ d.channels[s] = NewChannel(cid)
        /\ \A u \in Slot : u # s => d.channels[u] = c.channels[u]
    BY <1>0 DEF CoreType
  <2> HIDE DEF d
  <2>5. Unique(d)
    <3>1. \A u \in Slot : c.channels[u].allocated => c.channels[u].cid # cid
      BY <2>1 DEF Allocated, Holds
    <3> QED
      BY <1>0, <2>2, <2>4, <3>1 DEF Unique
  <2>6. \A u \in Slot : Holds(d, u, c.active_cid) <=> Holds(c, u, c.active_cid)
    <3>1. ~ Holds(c, s, c.active_cid)
      BY <2>1 DEF Holds
    <3>2. ~ Holds(d, s, c.active_cid)
      <4>1. CASE c.phase = "IDLE"
        BY <1>0, <4>1, <2>2, <2>4, CoreAssumption DEF Owned, Holds
      <4>2. CASE c.phase # "IDLE"
        <5>1. Allocated(c, c.active_cid)
          BY <1>0, <4>2 DEF Owned, ActiveRequest, Allocated
        <5> QED
          BY <2>1, <2>2, <2>4, <5>1 DEF Holds
      <4> QED
        BY <4>1, <4>2
    <3> QED
      BY <2>4, <3>1, <3>2 DEF Holds
  <2>7. Owned(d)
    <3>1. \A u \in Slot : ActiveRequest(c, u) => ActiveRequest(d, u)
      BY <2>1, <2>4, <2>6 DEF ActiveRequest, Holds
    <3>2. \A u \in Slot : WaitingMessage(c, u) => WaitingMessage(d, u)
      BY <2>1, <2>4, <2>6 DEF WaitingMessage, Holds
    <3>3. \A u \in Slot : d.channels[u].partial_active <=>
                             d.phase = "RX" /\ Holds(d, u, d.active_cid)
      BY <1>0, <2>1, <2>2, <2>4, <2>6 DEF Owned, Holds
    <3> QED
      BY <1>0, <2>4, <3>1, <3>2, <3>3 DEF Owned
  <2>8. InScope(d)
    BY <1>0, <2>2, <2>4, <2>6 DEF InScope
  <2>9. Continues(c, d)
    <3>1. \A u \in Slot : Holds(c, u, c.active_cid) => u # s
      BY <2>1 DEF Holds
    <3> QED
      BY <2>4, <2>6, <3>1 DEF Continues
  <2>10. Outcome(c)
    BY <2>1, <2>9, MinorFact, ContinuesOutcome DEF d
  <2> QED
    BY <1>1, <2>1, <2>3, <2>5, <2>7, <2>8, <2>10, ActionFact DEF CoreOK, d
<1> QED
  BY <1>2, <1>3 DEF AllocateChannel, Usable

\* INIT on an allocated channel that owns the transport, or finds it idle.
LEMMA ResynchroniseOK ==
    ASSUME NEW c, CoreOK(c), NEW s \in Slot, NEW p \in InitialPacket,
           Holds(c, s, p.cid), c.phase = "IDLE" \/ c.active_cid = p.cid,
           Resynchronise(c, s, p)
    PROVE  CoreOK(core') /\ action' \in ActionType /\ Outcome(c)
<1> DEFINE d == IF c.active_cid = p.cid THEN ClearActive(c, TRUE) ELSE c
           ch == [ClearChannelRx(d.channels[s]) EXCEPT
                    !.cancel = FALSE, !.timeout_pending = FALSE,
                    !.generation = NextGeneration(d.channels[s])]
           e == [d EXCEPT !.channels[s] = ch]
<1>0. c \in CoreType /\ Unique(c) /\ Owned(c) /\ InScope(c)
  BY DEF CoreOK
<1>1. p.cid \in Cid
  BY <1>0 DEF Holds, Unique
<1>2. CoreOK(d) /\ d.phase = "IDLE"
  <2>1. CASE c.active_cid = p.cid
    BY <1>0, <1>1, <2>1, CoreAssumption, ClearActiveOK DEF Owned
  <2>2. CASE c.active_cid # p.cid
    BY <2>2
  <2> QED
    BY <2>1, <2>2
<1>3. core' = e /\ action' = InitReply(p.cid, p.cid)
  BY DEF Resynchronise
<1>4. action' \in ActionType
  BY <1>1, <1>3, ActionFact DEF InitialPacket
<1> HIDE DEF d
<1>5. d \in CoreType /\ Unique(d) /\ Owned(d) /\ InScope(d)
  BY <1>2 DEF CoreOK
<1>6. d.channels[s] \in Channel
  BY <1>5 DEF CoreType
<1>7. NextGeneration(d.channels[s]) \in Gen
  BY <1>6, CoreAssumption DEF NextGeneration, Gen, Channel
<1>8. /\ ch \in Channel /\ ch.partial_active = FALSE
      /\ ch.cancel = FALSE /\ ch.timeout_pending = FALSE
      /\ ch.cid = d.channels[s].cid /\ ch.allocated = d.channels[s].allocated
  BY <1>6, <1>7, ClearChannelRxFact DEF Channel
<1> HIDE DEF ch
<1>9. e \in CoreType
  BY <1>5, <1>8 DEF CoreType
<1>10. /\ e.phase = d.phase /\ e.active_cid = d.active_cid
       /\ e.message_ready = d.message_ready /\ e.complete = d.complete
       /\ e.channels[s] = ch
       /\ \A u \in Slot : u # s => e.channels[u] = d.channels[u]
  BY <1>5 DEF CoreType
<1> HIDE DEF e
<1>11. \A u \in Slot : /\ e.channels[u].cid = d.channels[u].cid
                       /\ e.channels[u].allocated = d.channels[u].allocated
  BY <1>8, <1>10
<1>12. Unique(e)
  BY <1>5, <1>11 DEF Unique
<1>13. Owned(e)
  BY <1>2, <1>5, <1>8, <1>10 DEF Owned, WaitingMessage
<1>14. InScope(e)
  <2>1. \A u \in Slot : ~ Holds(e, u, NullCid)
    BY <1>12, CoreAssumption DEF Unique, Holds
  <2> QED
    BY <1>2, <1>5, <1>8, <1>10, <2>1 DEF InScope, Owned
<1>15. Outcome(c)
  BY <1>2, <1>3, <1>10, MinorFact DEF Outcome
<1> QED
  BY <1>3, <1>4, <1>9, <1>12, <1>13, <1>14, <1>15 DEF CoreOK

\* Every outcome of INIT.
LEMMA HandleInitOK ==
    ASSUME NEW c, CoreOK(c), NEW p \in InitialPacket, HandleInit(c, p)
    PROVE  CoreOK(core') /\ action' \in ActionType /\ Outcome(c)
<1>0. p.cid \in AnyCid
  BY DEF InitialPacket
<1>1. CASE core' = c /\ action' = ErrorAction(p.cid, "INVALID_LEN")
  BY <1>0, <1>1, ActionFact, MinorFact, ContinuesCounted, ContinuesOutcome DEF Error
<1>2. CASE AllocateChannel(c, p)
  BY <1>2, AllocateChannelOK
<1>3. CASE core' = c /\ action' = ErrorAction(p.cid, "INVALID_CHANNEL")
  BY <1>0, <1>3, ActionFact, MinorFact, ContinuesCounted, ContinuesOutcome DEF Error
<1>4. CASE core' = CountIfReady(c) /\ action' = ErrorAction(p.cid, "CHANNEL_BUSY")
  <2>1. CoreOK(core') /\ action' \in ActionType
    BY <1>0, <1>4, ActionFact, CountQueueFullOK DEF Error, CountIfReady
  <2> QED
    BY <1>4, <2>1, MinorFact, ContinuesCounted, ContinuesOutcome
<1>5. CASE \E s \in Slot : /\ Holds(c, s, p.cid)
                           /\ c.phase = "IDLE" \/ c.active_cid = p.cid
                           /\ Resynchronise(c, s, p)
  BY <1>5, ResynchroniseOK
<1> QED
  BY <1>1, <1>2, <1>3, <1>4, <1>5 DEF HandleInit

\* A new request takes its channel's tombstone away.
LEMMA TombstoneClearedOK ==
    ASSUME NEW c, CoreOK(c), NEW s \in Slot
    PROVE  LET d == [c EXCEPT !.channels[s].timeout_pending = FALSE]
           IN /\ CoreOK(d) /\ d.phase = c.phase /\ d.active_cid = c.active_cid
              /\ \A cid : Holds(d, s, cid) <=> Holds(c, s, cid)
              /\ d.message_ready = c.message_ready
<1> DEFINE ch == [c.channels[s] EXCEPT !.timeout_pending = FALSE]
           d == [c EXCEPT !.channels[s].timeout_pending = FALSE]
<1>1. c \in CoreType /\ c.channels[s] \in Channel
  BY DEF CoreOK, CoreType
<1>2. ch \in Channel /\ SameRequest(ch, c.channels[s])
      /\ ch.cancel = c.channels[s].cancel /\ ch.timeout_pending = FALSE
  BY <1>1 DEF Channel, SameRequest
<1>3. d = [c EXCEPT !.channels[s] = ch]
  BY <1>1 DEF CoreType
<1>4. /\ d.phase = c.phase /\ d.active_cid = c.active_cid
      /\ d.message_ready = c.message_ready /\ d.channels[s] = ch
  BY <1>1 DEF CoreType
<1> HIDE DEF ch, d
<1>5. CoreOK(d)
  BY <1>2, <1>3, TouchOK
<1>6. \A cid : Holds(d, s, cid) <=> Holds(c, s, cid)
  BY <1>2, <1>4 DEF Holds, SameRequest
<1> QED
  BY <1>4, <1>5, <1>6 DEF d

\* PING, CBOR and unknown commands.
LEMMA HandleRequestOK ==
    ASSUME NEW c, CoreOK(c), now \in Time, NEW p \in InitialPacket,
           HandleRequest(c, p)
    PROVE  CoreOK(core') /\ action' \in ActionType /\ Outcome(c)
<1>0. p.cid \in AnyCid
  BY DEF InitialPacket
<1>1. CASE core' = c /\ action' = ErrorAction(p.cid, "INVALID_CHANNEL")
  BY <1>0, <1>1, ActionFact, MinorFact, ContinuesCounted, ContinuesOutcome DEF Error
<1>2. ASSUME NEW s \in Slot, NEW d,
             Holds(c, s, p.cid),
             d = [c EXCEPT !.channels[s].timeout_pending = FALSE],
             \/ /\ core' = CountIfReady(d)
                /\ action' = ErrorAction(p.cid, "CHANNEL_BUSY")
             \/ /\ d.phase = "RX" /\ d.active_cid = p.cid
                /\ core' = ClearActive(CountIfReady(d), TRUE)
                /\ action' = ErrorAction(p.cid, "INVALID_SEQ")
             \/ /\ Refusal(p) # "NONE"
                /\ core' = d
                /\ action' = ErrorAction(p.cid, Refusal(p))
             \/ /\ d.phase = "IDLE"
                /\ Refusal(p) = "NONE"
                /\ CompleteIfFull(
                     StoreBytes(BeginMessage(d, s, p, now), s,
                                [cid |-> p.cid, packet |-> 0], InitData), s)
      PROVE  CoreOK(core') /\ action' \in ActionType /\ Outcome(c)
  <2>0. CoreOK(d) /\ Holds(d, s, p.cid) /\ d.phase = c.phase
    BY <1>2, TombstoneClearedOK
  <2>c. Continues(c, d) /\ Continues(c, CountIfReady(d))
    BY <1>2, <2>0, ContinuesTombstone, ContinuesCounted, ContinuesTransitive
  <2>1. CASE /\ core' = CountIfReady(d)
             /\ action' = ErrorAction(p.cid, "CHANNEL_BUSY")
    <3>1. CoreOK(core') /\ action' \in ActionType
      BY <1>0, <2>0, <2>1, ActionFact, CountQueueFullOK DEF Error, CountIfReady
    <3> QED
      BY <2>1, <2>c, <3>1, MinorFact, ContinuesOutcome
  <2>2. CASE /\ d.phase = "RX" /\ d.active_cid = p.cid
             /\ core' = ClearActive(CountIfReady(d), TRUE)
             /\ action' = ErrorAction(p.cid, "INVALID_SEQ")
    <3>1. CoreOK(CountIfReady(d)) /\ CountIfReady(d).phase = "RX"
      BY <2>0, <2>2, CountQueueFullOK DEF CountIfReady
    <3>2. /\ CoreOK(ClearActive(CountIfReady(d), TRUE))
          /\ ClearActive(CountIfReady(d), TRUE).phase = "IDLE"
      BY <3>1, ClearActiveOK
    <3>3. Minor
      BY <2>2, MinorFact
    <3>4. c.phase # "PROCESSING" /\ core'.phase # "PROCESSING"
      BY <2>0, <2>2, <3>2
    <3>5. Outcome(c)
      BY <3>3, <3>4 DEF Outcome
    <3> QED
      BY <1>0, <2>2, <3>2, <3>5, ActionFact DEF Error
  <2>3. CASE /\ Refusal(p) # "NONE" /\ core' = d
             /\ action' = ErrorAction(p.cid, Refusal(p))
    <3>1. Refusal(p) \in Error
      BY <2>3 DEF Refusal, Error
    <3> QED
      BY <1>0, <2>0, <2>c, <2>3, <3>1, ActionFact, MinorFact, ContinuesOutcome
  <2>4. CASE /\ d.phase = "IDLE" /\ Refusal(p) = "NONE"
             /\ CompleteIfFull(
                     StoreBytes(BeginMessage(d, s, p, now), s,
                                [cid |-> p.cid, packet |-> 0], InitData), s)
    <3> DEFINE b == BeginMessage(d, s, p, now)
               f == StoreBytes(b, s, [cid |-> p.cid, packet |-> 0], InitData)
    <3>1. p.command \in Request /\ p.len <= MaxPayload
      BY <2>4, CoreAssumption DEF Refusal, InitialPacket
    <3>2. CoreOK(b) /\ b.phase = "RX" /\ b.active_cid = p.cid /\ Holds(b, s, p.cid)
      BY <2>0, <2>4, <3>1, BeginMessageOK
    <3>3. p.cid \in Cid
      BY <2>0 DEF CoreOK, Unique, Holds
    <3>4. [cid |-> p.cid, packet |-> 0] \in Byte /\ InitData \in Nat
      BY <3>3, ZeroFact, CoreAssumption DEF Byte
    <3> HIDE DEF b
    <3>5. CoreOK(f) /\ f.phase = "RX" /\ f.active_cid = p.cid /\ Holds(f, s, p.cid)
      BY <3>2, <3>4, StoreBytesOK
    <3>6. CompleteIfFull(f, s)
      BY <2>4 DEF b
    <3> HIDE DEF f
    <3> QED
      BY <2>0, <2>4, <3>5, <3>6, CompleteIfFullOK DEF Outcome
  <2> QED
    BY <1>2, <2>1, <2>2, <2>3, <2>4
<1> QED
  BY <1>1, <1>2 DEF HandleRequest

\* The continuation that is the next packet of the active request.
LEMMA AssembleOK ==
    ASSUME NEW c, CoreOK(c), now \in Time, NEW p \in Continuation,
           NEW s \in Slot, Assembling(c, s, p.cid),
           p.sequence = c.channels[s].next_sequence, Assemble(c, s, p)
    PROVE  CoreOK(core') /\ action' \in ActionType /\ Outcome(c)
<1> DEFINE byte == [cid |-> p.cid, packet |-> p.sequence + 1]
           d == StoreBytes(c, s, byte, ContData)
           ch == [d.channels[s] EXCEPT !.last_packet_ms = now,
                             !.next_sequence = d.channels[s].next_sequence + 1]
           e == [d EXCEPT !.channels[s].last_packet_ms = now,
                          !.channels[s].next_sequence = @ + 1]
<1>1. /\ c.phase = "RX" /\ Holds(c, s, c.active_cid) /\ p.cid = c.active_cid
  BY DEF Assembling
<1>2. byte \in Byte /\ ContData \in Nat
  BY <1>1, CoreAssumption DEF CoreOK, Unique, Holds, Byte, Continuation
<1> HIDE DEF byte
<1>3. /\ CoreOK(d) /\ d.phase = "RX" /\ d.active_cid = c.active_cid
      /\ Holds(d, s, c.active_cid)
      /\ d.channels[s].next_sequence = p.sequence
  BY <1>1, <1>2, StoreBytesOK
<1>4. CompleteIfFull(e, s)
  BY DEF Assemble, byte
<1> HIDE DEF d
<1>5. d \in CoreType /\ d.channels[s] \in Channel
  BY <1>3 DEF CoreOK, CoreType
<1>6. d.channels[s].next_sequence + 1 \in 0 .. (MaxSeq + 1)
  BY <1>3, CoreAssumption DEF Continuation
<1>7. /\ ch \in Channel /\ SameRequest(ch, d.channels[s])
      /\ ch.cancel = d.channels[s].cancel
      /\ ch.timeout_pending = d.channels[s].timeout_pending
  BY <1>5, <1>6 DEF Channel, SameRequest
<1>8. e = [d EXCEPT !.channels[s] = ch]
  BY <1>5 DEF CoreType
<1>9. e.phase = d.phase /\ e.active_cid = d.active_cid /\ e.channels[s] = ch
  BY <1>5, <1>8 DEF CoreType
<1> HIDE DEF ch, e
<1>10. CoreOK(e)
  BY <1>3, <1>7, <1>8, TouchOK
<1>11. Holds(e, s, e.active_cid)
  BY <1>3, <1>7, <1>9 DEF Holds, SameRequest
<1> QED
  BY <1>3, <1>4, <1>9, <1>1, <1>10, <1>11, CompleteIfFullOK DEF Outcome

\* Every outcome of a continuation packet.
LEMMA HandleContinuationOK ==
    ASSUME NEW c, CoreOK(c), now \in Time, NEW p \in Continuation,
           HandleContinuation(c, p)
    PROVE  CoreOK(core') /\ action' \in ActionType /\ Outcome(c)
<1>0. p.cid \in AnyCid
  BY DEF Continuation
<1>1. ASSUME NEW s \in Slot,
             core' = [c EXCEPT !.channels[s].timeout_pending = FALSE],
             action' = ErrorAction(p.cid, "MSG_TIMEOUT")
      PROVE  CoreOK(core') /\ action' \in ActionType /\ Outcome(c)
  <2>1. CoreOK(core') /\ action' \in ActionType
    BY <1>0, <1>1, TombstoneClearedOK, ActionFact DEF Error
  <2> QED
    BY <1>1, <2>1, ContinuesTombstone, MinorFact, ContinuesOutcome
<1>2. ASSUME NEW s \in Slot, Assembling(c, s, p.cid),
             core' = ClearActive(c, TRUE),
             action' = ErrorAction(p.cid, "INVALID_SEQ")
      PROVE  CoreOK(core') /\ action' \in ActionType /\ Outcome(c)
  <2>1. CoreOK(ClearActive(c, TRUE)) /\ ClearActive(c, TRUE).phase = "IDLE"
    BY <1>2, ClearActiveOK DEF Assembling
  <2>2. Minor
    BY <1>2, MinorFact
  <2>3. c.phase # "PROCESSING" /\ core'.phase # "PROCESSING"
    BY <1>2, <2>1 DEF Assembling
  <2>4. Outcome(c)
    BY <2>2, <2>3 DEF Outcome
  <2> QED
    BY <1>0, <1>2, <2>1, <2>4, ActionFact DEF Error
<1>3. ASSUME NEW s \in Slot, Assembling(c, s, p.cid),
             p.sequence = c.channels[s].next_sequence, Assemble(c, s, p)
      PROVE  CoreOK(core') /\ action' \in ActionType /\ Outcome(c)
  BY <1>3, AssembleOK
<1>4. CASE core' = c /\ action' = NoAction
  BY <1>0, <1>4, ActionFact, MinorFact, ContinuesCounted, ContinuesOutcome
<1> QED
  BY <1>1, <1>2, <1>3, <1>4 DEF HandleContinuation

\* The consumer takes the waiting message.
LEMMA TakenOK ==
    ASSUME NEW c, CoreOK(c), c.message_ready
    PROVE  CoreOK(Taken(c))
<1> DEFINE d == Taken(c)
<1>0. c \in CoreType /\ Unique(c) /\ Owned(c) /\ InScope(c)
  BY DEF CoreOK
<1>1. /\ d.phase = c.phase /\ d.active_cid = c.active_cid
      /\ d.active_command = c.active_command /\ d.channels = c.channels
      /\ d.message_ready = FALSE /\ d.complete = NoMessage
  BY <1>0 DEF Taken, CoreType
<1>2. d \in CoreType
  <2>1. [c.buffers EXCEPT ![c.complete.buffer] = Zeroed]
           \in [BufferIds -> [Position -> Byte]]
    BY <1>0, ZeroedFact DEF CoreType
  <2> QED
    BY <1>0, <2>1, ZeroedFact DEF Taken, CoreType
<1> HIDE DEF d
<1>3. Unique(d)
  BY <1>0, <1>1 DEF Unique
<1>4. Owned(d)
  BY <1>0, <1>1 DEF Owned, ActiveRequest, Holds
<1>5. InScope(d)
  BY <1>0, <1>1 DEF InScope, Holds
<1> QED
  BY <1>2, <1>3, <1>4, <1>5 DEF CoreOK, d

\* A response finishes the current transaction, or a stale one nothing.
LEMMA FinishedOK ==
    ASSUME NEW c, CoreOK(c), NEW cid, NEW gen
    PROVE  CoreOK(Finished(c, cid, gen))
  BY ClearActiveOK DEF Finished, Current

\* Clearing the cancel flag of the current transaction.
LEMMA CancelClearedOK ==
    ASSUME NEW c, CoreOK(c), NEW cid, NEW gen
    PROVE  CoreOK(CancelCleared(c, cid, gen))
<1>1. CASE ~ Current(c, cid, gen)
  BY <1>1 DEF CancelCleared
<1>2. CASE Current(c, cid, gen)
  <2> DEFINE a == ActiveSlot(c)
             ch == [c.channels[a] EXCEPT !.cancel = FALSE]
  <2>1. a \in Slot
    BY <1>2, ActiveSlotFact DEF Current
  <2>2. c \in CoreType /\ c.channels[a] \in Channel
    BY <2>1 DEF CoreOK, CoreType
  <2>3. ch \in Channel /\ SameRequest(ch, c.channels[a])
        /\ ch.cancel = FALSE /\ ch.timeout_pending = c.channels[a].timeout_pending
    BY <2>2 DEF Channel, SameRequest
  <2>4. CancelCleared(c, cid, gen) = [c EXCEPT !.channels[a] = ch]
    BY <1>2, <2>2 DEF CancelCleared, CoreType
  <2> HIDE DEF ch, a
  <2> QED
    BY <2>1, <2>3, <2>4, TouchOK
<1> QED
  BY <1>1, <1>2

\* A wiped core satisfies the invariant.
LEMMA CoreInitOK == CoreOK(CoreInit)
<1> DEFINE c == CoreInit
<1>1. FreeChannel \in Channel
  BY ZeroFact DEF FreeChannel, Channel
<1>2. c \in CoreType
  BY <1>1, ZeroFact, ZeroedFact DEF CoreInit, CoreType, BufferIds
<1>3. /\ c.phase = "IDLE" /\ c.active_cid = NullCid
      /\ c.message_ready = FALSE /\ c.complete = NoMessage
      /\ \A s \in Slot : c.channels[s] = FreeChannel
  BY DEF CoreInit
<1>4. /\ FreeChannel.allocated = FALSE /\ FreeChannel.partial_active = FALSE
      /\ FreeChannel.cancel = FALSE /\ FreeChannel.timeout_pending = FALSE
  BY DEF FreeChannel
<1> HIDE DEF c
<1>5. Unique(c)
  BY <1>3, <1>4 DEF Unique
<1>6. Owned(c)
  BY <1>3, <1>4 DEF Owned
<1>7. InScope(c)
  BY <1>3, <1>4 DEF InScope
<1> QED
  BY <1>2, <1>5, <1>6, <1>7 DEF CoreOK, c
-----------------------------------------------------------------------------
(* The inductive invariant of the specification. *)

IInv == TypeOK /\ UniqueCids /\ TransactionOwned /\ FlagsInScope

\* The invariant, conjunct by conjunct.
LEMMA IInvFact == IInv <=> /\ CoreOK(core) /\ action \in ActionType
                          /\ now \in Time /\ fed \in AnyCid \cup {NoReport}
                          /\ silence \in Nat
  BY DEF IInv, TypeOK, UniqueCids, TransactionOwned, FlagsInScope, CoreOK

\* The initial states satisfy the invariant.
LEMMA InitOK == Init => IInv
  BY IInvFact, CoreInitOK, ActionFact DEF Init, AnyCid

\* Every entry point of the core preserves the invariant of the core.
LEMMA FeedOK ==
    ASSUME IInv,
           \/ \E p \in InitialPacket : FeedInitial(p)
           \/ \E p \in Continuation : FeedContinuation(p)
    PROVE  CoreOK(core') /\ action' \in ActionType /\ Outcome(core)
<1> DEFINE c == Cleanup(core, now)
<1>1. CoreOK(c) /\ now \in Time
  BY IInvFact, CleanupOK
<1> HIDE DEF c
<1>2. ASSUME NEW p \in InitialPacket, FeedInitial(p)
      PROVE  CoreOK(core') /\ action' \in ActionType /\ Outcome(c)
  <2>1. CASE HandleCancel(c, p)
    BY <1>1, <2>1, HandleCancelOK
  <2>2. CASE HandleInit(c, p)
    BY <1>1, <2>2, HandleInitOK
  <2>3. CASE HandleRequest(c, p)
    BY <1>1, <2>3, HandleRequestOK
  <2> QED
    BY <1>2, <2>1, <2>2, <2>3 DEF FeedInitial, c
<1>3. ASSUME NEW p \in Continuation, FeedContinuation(p)
      PROVE  CoreOK(core') /\ action' \in ActionType /\ Outcome(c)
  BY <1>1, <1>3, HandleContinuationOK DEF FeedContinuation, c
<1>4. Outcome(c) => Outcome(core)
  <2>1. \/ c = core
        \/ core.phase = "RX" /\ c.phase = "IDLE"
    BY IInvFact DEF c, Cleanup, CoreOK, CoreType
  <2> QED
    BY <2>1 DEF Outcome
<1> QED
  BY <1>2, <1>3, <1>4

\* So do the other entry points of the core.
LEMMA CallOK ==
    ASSUME IInv,
           \/ PeriodicCleanup \/ TakeMessage \/ CoreReset
           \/ \E cid \in Cid, gen \in Gen : FinishResponse(cid, gen)
           \/ \E cid \in Cid, gen \in Gen : ClearCancel(cid, gen)
    PROVE  CoreOK(core') /\ action' \in ActionType
<1>1. /\ CoreOK(core) /\ action \in ActionType /\ now \in Time
      /\ NoAction \in ActionType
  BY IInvFact, ActionFact DEF AnyCid
<1>2. CASE PeriodicCleanup
  BY <1>1, <1>2, CleanupOK DEF PeriodicCleanup
<1>3. CASE TakeMessage
  BY <1>1, <1>3, TakenOK DEF TakeMessage
<1>4. CASE CoreReset
  BY <1>1, <1>4, CoreInitOK DEF CoreReset
<1>5. CASE \E cid \in Cid, gen \in Gen : FinishResponse(cid, gen)
  BY <1>1, <1>5, FinishedOK DEF FinishResponse
<1>6. CASE \E cid \in Cid, gen \in Gen : ClearCancel(cid, gen)
  BY <1>1, <1>6, CancelClearedOK DEF ClearCancel
<1> QED
  BY <1>2, <1>3, <1>4, <1>5, <1>6

\* The invariant is inductive.
LEMMA StepOK == IInv /\ [Next]_coreVars => IInv'
<1> SUFFICES ASSUME IInv, [Next]_coreVars PROVE IInv'
  OBVIOUS
<1>0. /\ CoreOK(core) /\ action \in ActionType /\ now \in Time
      /\ fed \in AnyCid \cup {NoReport} /\ silence \in Nat
  BY IInvFact
<1> DEFINE Good == /\ CoreOK(core') /\ action' \in ActionType
                   /\ now' \in Time /\ fed' \in AnyCid \cup {NoReport}
                   /\ silence' \in Nat
<1> SUFFICES Good
  BY DEF IInv, TypeOK, UniqueCids, TransactionOwned, FlagsInScope, CoreOK
<1>1. ASSUME NEW p \in InitialPacket, Step(FeedInitial(p), p.cid)
      PROVE  Good
  <2>1. FeedInitial(p) /\ p.cid \in AnyCid
    BY <1>1 DEF Step, InitialPacket
  <2> QED
    BY <1>0, <1>1, <2>1, FeedOK DEF Step
<1>2. ASSUME NEW p \in Continuation, Step(FeedContinuation(p), p.cid)
      PROVE  Good
  <2>1. FeedContinuation(p) /\ p.cid \in AnyCid
    BY <1>2 DEF Step, Continuation
  <2> QED
    BY <1>0, <1>2, <2>1, FeedOK DEF Step
<1>3. CASE Step(PeriodicCleanup, NoReport)
  BY <1>0, <1>3, CallOK DEF Step
<1>4. CASE Step(TakeMessage, NoReport)
  BY <1>0, <1>4, CallOK DEF Step
<1>5. ASSUME NEW cid \in Cid, NEW gen \in Gen,
             Step(FinishResponse(cid, gen), NoReport)
      PROVE  Good
  <2>1. FinishResponse(cid, gen)
    BY <1>5 DEF Step
  <2> QED
    BY <1>0, <1>5, <2>1, CallOK DEF Step
<1>6. ASSUME NEW cid \in Cid, NEW gen \in Gen,
             Step(ClearCancel(cid, gen), NoReport)
      PROVE  Good
  <2>1. ClearCancel(cid, gen)
    BY <1>6 DEF Step
  <2> QED
    BY <1>0, <1>6, <2>1, CallOK DEF Step
<1>7. CASE Step(CoreReset, NoReport)
  BY <1>0, <1>7, CallOK DEF Step
<1>8. CASE Tick
  BY <1>0, <1>8, CoreAssumption, ActionFact DEF Tick, Time, AnyCid
<1>9. CASE UNCHANGED coreVars
  BY <1>0, <1>9 DEF coreVars
<1> QED
  BY <1>1, <1>2, <1>3, <1>4, <1>5, <1>6, <1>7, <1>8, <1>9 DEF Next

\* The inductive invariant holds throughout.
THEOREM Invariance == Spec => []IInv
  BY InitOK, StepOK, PTL DEF Spec

\* The core, its actions and the clock keep their types.
THEOREM TypeCorrect == Spec => []TypeOK
<1>1. IInv => TypeOK
  BY DEF IInv
<1> QED
  BY <1>1, Invariance, PTL

\* A CID names at most one channel, whatever the random source draws.
THEOREM UniqueCidsTheorem == Spec => []UniqueCids
<1>1. IInv => UniqueCids
  BY DEF IInv
<1> QED
  BY <1>1, Invariance, PTL

\* Phase, active channel, assembly and waiting message are always those of
\* one transaction, for any number of channels and any lengths.
THEOREM OneTransaction == Spec => []TransactionOwned
<1>1. IInv => TransactionOwned
  BY DEF IInv
<1> QED
  BY <1>1, Invariance, PTL

\* Cancel flags and timeout tombstones never reach another request.
THEOREM FlagsTheorem == Spec => []FlagsInScope
<1>1. IInv => FlagsInScope
  BY DEF IInv
<1> QED
  BY <1>1, Invariance, PTL
-----------------------------------------------------------------------------
(* What a report leaves alone, and the clock of the one it extends. *)

\* Only channel s may differ between the two cores.
OnlySlot(c, d, s) == \A t \in Slot : t # s => d.channels[t] = c.channels[t]

\* The transaction, its bytes and its waiting message are those of c.
SameTransaction(c, d) ==
    /\ d.buffers = c.buffers /\ d.rx_buffer = c.rx_buffer
    /\ d.phase = c.phase /\ d.active_cid = c.active_cid
    /\ d.active_command = c.active_command
    /\ d.message_ready = c.message_ready /\ d.complete = c.complete

\* No CID but cid sees a change.
Spares(c, d, cid) ==
    /\ \A s \in Slot : (c.channels[s].allocated /\ ~ Holds(c, s, cid))
                          => d.channels[s] = c.channels[s]
    /\ (c.phase # "IDLE" /\ c.active_cid # cid) => SameTransaction(c, d)

\* A channel that still assembles was left alone or has just been extended.
Punctual(c, d) ==
    \A s \in Slot : d.channels[s].partial_active =>
        d.channels[s] = c.channels[s] \/ d.channels[s].last_packet_ms = now

Handled(c, cid) == Spares(c, core', cid) /\ Punctual(c, core')

\* The owner of the transport, or any channel when it is idle, may change
\* what it likes of its own channel and of the transaction.
LEMMA OwnerSpares ==
    ASSUME NEW c, NEW d, NEW s \in Slot, NEW cid, Holds(c, s, cid),
           c.phase = "IDLE" \/ c.active_cid = cid, OnlySlot(c, d, s)
    PROVE  Spares(c, d, cid)
  BY DEF Spares, OnlySlot

\* A handler that changes nothing, counted or not.
LEMMA NothingHandled ==
    ASSUME NEW c, CoreOK(c), NEW cid, core' = c \/ core' = CountIfReady(c)
    PROVE  Handled(c, cid)
<1>1. /\ CountQueueFull(c).channels = c.channels
      /\ SameTransaction(c, CountQueueFull(c))
  BY DEF CountQueueFull, CoreOK, CoreType, SameTransaction
<1>2. core'.channels = c.channels /\ SameTransaction(c, core')
  BY <1>1 DEF CountIfReady, SameTransaction
<1> QED
  BY <1>2 DEF Handled, Spares, Punctual

\* clear_active changes the active channel only and ends its assembly.
LEMMA ClearActiveOnly ==
    ASSUME NEW c, CoreOK(c), NEW s \in Slot, c.phase # "IDLE",
           Holds(c, s, c.active_cid), NEW drop
    PROVE  /\ OnlySlot(c, ClearActive(c, drop), s)
           /\ ClearActive(c, drop).channels[s].partial_active = FALSE
<1>1. ActiveSlot(c) = s
  BY ActiveSlotFact
<1>2. c.channels[s] \in Channel /\ DOMAIN c.channels = Slot /\ c \in CoreType
  BY DEF CoreOK, CoreType
<1>3. ClearActive(c, drop).channels =
        [c.channels EXCEPT ![s] = [ClearChannelRx(c.channels[s]) EXCEPT !.cancel = FALSE]]
  BY <1>1, <1>2 DEF ClearActive, CoreType
<1>4. [ClearChannelRx(c.channels[s]) EXCEPT !.cancel = FALSE].partial_active = FALSE
  BY <1>2, ClearChannelRxFact DEF Channel
<1> QED
  BY <1>2, <1>3, <1>4 DEF OnlySlot

\* The tail shared by feed_initial and feed_continuation.
LEMMA CompleteIfFullOnly ==
    ASSUME NEW c, CoreOK(c), c.phase = "RX", NEW s \in Slot,
           Holds(c, s, c.active_cid), CompleteIfFull(c, s)
    PROVE  /\ OnlySlot(c, core', s)
           /\ core'.channels[s].partial_active => core'.channels[s] = c.channels[s]
<1> DEFINE d == [c EXCEPT !.phase = "PROCESSING",
                          !.channels[s].partial_active = FALSE]
<1>0. c \in CoreType /\ Owned(c)
  BY DEF CoreOK
<1>1. d.channels = [c.channels EXCEPT ![s] = [c.channels[s] EXCEPT !.partial_active = FALSE]]
      /\ d.message_ready = FALSE /\ DOMAIN c.channels = Slot
      /\ c.channels[s] \in Channel
  BY <1>0 DEF CoreType, Owned, WaitingMessage
<1>2. OnlySlot(c, d, s) /\ d.channels[s].partial_active = FALSE
  BY <1>1 DEF OnlySlot, Channel
<1>3. HandOver(d, s).channels = d.channels
  BY <1>0 DEF HandOver, CoreType
<1>4. CASE core' = c
  BY <1>4 DEF OnlySlot
<1>5. CASE CompleteMessage(c, s)
  <2>1. core' = d \/ core' = HandOver(d, s)
    BY <1>1, <1>5 DEF CompleteMessage
  <2> QED
    BY <1>2, <1>3, <2>1 DEF OnlySlot
<1> QED
  BY <1>4, <1>5 DEF CompleteIfFull

\* A tombstone taken away changes its channel only; the channel that is
\* assembling has none.
LEMMA TombstoneOnly ==
    ASSUME NEW c, CoreOK(c), NEW s \in Slot
    PROVE  LET d == [c EXCEPT !.channels[s].timeout_pending = FALSE]
           IN /\ OnlySlot(c, d, s) /\ SameTransaction(c, d)
              /\ d.channels[s].partial_active => d.channels[s] = c.channels[s]
<1> DEFINE d == [c EXCEPT !.channels[s].timeout_pending = FALSE]
           ch == [c.channels[s] EXCEPT !.timeout_pending = FALSE]
<1>0. c \in CoreType /\ Owned(c) /\ InScope(c)
  BY DEF CoreOK
<1>1. /\ c.channels[s] \in Channel /\ DOMAIN c.channels = Slot
      /\ d.channels = [c.channels EXCEPT ![s] = ch]
      /\ SameTransaction(c, d)
  BY <1>0 DEF CoreType, SameTransaction
<1>2. ch.partial_active = c.channels[s].partial_active
  BY <1>1 DEF Channel
<1>3. ASSUME c.channels[s].partial_active PROVE ch = c.channels[s]
  <2>1. c.channels[s].timeout_pending = FALSE
    BY <1>0, <1>1, <1>3 DEF Owned, InScope, Channel
  <2> QED
    BY <1>1, <2>1 DEF Channel
<1> HIDE DEF ch
<1> QED
  BY <1>1, <1>2, <1>3 DEF OnlySlot

\* A packet stored changes its channel only.
LEMMA StoreBytesOnly ==
    ASSUME NEW c, CoreOK(c), NEW s \in Slot, NEW byte, NEW room
    PROVE  LET d == StoreBytes(c, s, byte, room)
           IN /\ OnlySlot(c, d, s)
              /\ d.channels[s].last_packet_ms = c.channels[s].last_packet_ms
<1> DEFINE d == StoreBytes(c, s, byte, room)
<1>1. c \in CoreType /\ c.channels[s] \in Channel /\ DOMAIN c.channels = Slot
  BY DEF CoreOK, CoreType
<1>2. PICK r : d.channels = [c.channels EXCEPT ![s] = [c.channels[s] EXCEPT !.received = r]]
  BY <1>1 DEF StoreBytes, CoreType
<1> HIDE DEF d
<1>3. d.channels[s] = [c.channels[s] EXCEPT !.received = r] /\ OnlySlot(c, d, s)
  BY <1>1, <1>2 DEF OnlySlot
<1>4. [c.channels[s] EXCEPT !.received = r].last_packet_ms = c.channels[s].last_packet_ms
  BY <1>1 DEF Channel
<1> QED
  BY <1>3, <1>4 DEF d

\* A request that starts changes its channel only and stamps it.
LEMMA BeginMessageOnly ==
    ASSUME NEW c, CoreOK(c), NEW s \in Slot, NEW p, NEW t
    PROVE  LET d == BeginMessage(c, s, p, t)
           IN OnlySlot(c, d, s) /\ d.channels[s].last_packet_ms = t
<1>1. c \in CoreType /\ c.channels[s] \in Channel /\ DOMAIN c.channels = Slot
  BY DEF CoreOK, CoreType
<1> QED
  BY <1>1 DEF BeginMessage, OnlySlot, CoreType, Channel

\* CANCEL touches the channel it cancels.
LEMMA HandleCancelHandled ==
    ASSUME NEW c, CoreOK(c), NEW p \in InitialPacket, HandleCancel(c, p)
    PROVE  Handled(c, p.cid)
<1>1. CASE core' = c
  BY <1>1, NothingHandled
<1>2. ASSUME NEW s \in Slot, Cancellable(c, s, p),
             core' = [c EXCEPT !.channels[s].cancel = TRUE]
      PROVE  Handled(c, p.cid)
  <2>1. /\ c \in CoreType /\ c.channels[s] \in Channel /\ DOMAIN c.channels = Slot
        /\ Owned(c)
    BY DEF CoreOK, CoreType
  <2>2. /\ core'.channels = [c.channels EXCEPT ![s] = [c.channels[s] EXCEPT !.cancel = TRUE]]
    BY <1>2, <2>1 DEF CoreType
  <2>3. [c.channels[s] EXCEPT !.cancel = TRUE].partial_active = FALSE
    BY <1>2, <2>1 DEF Owned, Cancellable, Channel
  <2>4. OnlySlot(c, core', s) /\ core'.channels[s].partial_active = FALSE
    BY <2>1, <2>2, <2>3 DEF OnlySlot
  <2> QED
    BY <1>2, <2>4, OwnerSpares DEF Handled, Punctual, OnlySlot, Cancellable
<1> QED
  BY <1>1, <1>2 DEF HandleCancel

\* INIT changes a free slot, or the channel it names.
LEMMA HandleInitHandled ==
    ASSUME NEW c, CoreOK(c), NEW p \in InitialPacket, HandleInit(c, p)
    PROVE  Handled(c, p.cid)
<1>0. c \in CoreType /\ Unique(c) /\ Owned(c)
  BY DEF CoreOK
<1>1. CASE core' = c \/ core' = CountIfReady(c)
  BY <1>1, NothingHandled
<1>2. ASSUME NEW s \in Slot, NEW cid \in Cid, ~ c.channels[s].allocated,
             core' = [c EXCEPT !.channels[s] = NewChannel(cid)]
      PROVE  Handled(c, p.cid)
  <2>1. core'.channels = [c.channels EXCEPT ![s] = NewChannel(cid)]
        /\ SameTransaction(c, core') /\ DOMAIN c.channels = Slot
    BY <1>0, <1>2 DEF CoreType, SameTransaction
  <2>2. OnlySlot(c, core', s) /\ core'.channels[s].partial_active = FALSE
    BY <2>1 DEF OnlySlot, NewChannel, FreeChannel
  <2> QED
    BY <1>2, <2>1, <2>2 DEF Handled, Spares, Punctual, OnlySlot
<1>3. ASSUME NEW s \in Slot, Holds(c, s, p.cid),
             c.phase = "IDLE" \/ c.active_cid = p.cid, Resynchronise(c, s, p)
      PROVE  Handled(c, p.cid)
  <2> DEFINE d == IF c.active_cid = p.cid THEN ClearActive(c, TRUE) ELSE c
             ch == [ClearChannelRx(d.channels[s]) EXCEPT
                      !.cancel = FALSE, !.timeout_pending = FALSE,
                      !.generation = NextGeneration(d.channels[s])]
  <2>1. CoreOK(d) /\ OnlySlot(c, d, s)
    <3>1. CASE c.active_cid = p.cid
      <4>1. c.phase # "IDLE" /\ Holds(c, s, c.active_cid)
        BY <1>0, <1>3, <3>1, CoreAssumption DEF Owned, Unique, Holds
      <4> QED
        BY <3>1, <4>1, ClearActiveOK, ClearActiveOnly
    <3>2. CASE c.active_cid # p.cid
      BY <3>2 DEF OnlySlot
    <3> QED
      BY <3>1, <3>2
  <2>2. core' = [d EXCEPT !.channels[s] = ch]
    BY <1>3 DEF Resynchronise
  <2> HIDE DEF d
  <2>3. d \in CoreType /\ d.channels[s] \in Channel /\ DOMAIN d.channels = Slot
    BY <2>1 DEF CoreOK, CoreType
  <2>4. ch.partial_active = FALSE
    BY <2>3, ClearChannelRxFact DEF Channel
  <2> HIDE DEF ch
  <2>5. core'.channels = [d.channels EXCEPT ![s] = ch]
    BY <2>2, <2>3 DEF CoreType
  <2>6. OnlySlot(c, core', s) /\ core'.channels[s].partial_active = FALSE
    BY <2>1, <2>3, <2>4, <2>5 DEF OnlySlot
  <2> QED
    BY <1>3, <2>6, OwnerSpares DEF Handled, Punctual, OnlySlot
<1>4. CASE AllocateChannel(c, p)
  BY <1>1, <1>2, <1>4 DEF AllocateChannel
<1> QED
  BY <1>1, <1>3, <1>4 DEF HandleInit

\* A request changes its own channel, and the transaction when it is its own
\* or starts it.
LEMMA HandleRequestHandled ==
    ASSUME NEW c, CoreOK(c), now \in Time, NEW p \in InitialPacket,
           HandleRequest(c, p)
    PROVE  Handled(c, p.cid)
<1>1. CASE core' = c
  BY <1>1, NothingHandled
<1>2. ASSUME NEW s \in Slot, Holds(c, s, p.cid),
             LET d == [c EXCEPT !.channels[s].timeout_pending = FALSE]
             IN \/ core' = CountIfReady(d)
                \/ /\ d.phase = "RX" /\ d.active_cid = p.cid
                   /\ core' = ClearActive(CountIfReady(d), TRUE)
                \/ core' = d
                \/ /\ d.phase = "IDLE"
                   /\ Refusal(p) = "NONE"
                   /\ CompleteIfFull(
                        StoreBytes(BeginMessage(d, s, p, now), s,
                                   [cid |-> p.cid, packet |-> 0], InitData), s)
      PROVE  Handled(c, p.cid)
  <2> DEFINE d == [c EXCEPT !.channels[s].timeout_pending = FALSE]
             e == CountIfReady(d)
  <2>1. /\ CoreOK(d) /\ Holds(d, s, p.cid) /\ d.phase = c.phase
        /\ d.active_cid = c.active_cid
        /\ OnlySlot(c, d, s) /\ SameTransaction(c, d)
        /\ d.channels[s].partial_active => d.channels[s] = c.channels[s]
    BY <1>2, TombstoneClearedOK, TombstoneOnly
  <2>2. \/ core' = e
        \/ /\ d.phase = "RX" /\ d.active_cid = p.cid
           /\ core' = ClearActive(e, TRUE)
        \/ core' = d
        \/ /\ d.phase = "IDLE" /\ Refusal(p) = "NONE"
           /\ CompleteIfFull(
                StoreBytes(BeginMessage(d, s, p, now), s,
                           [cid |-> p.cid, packet |-> 0], InitData), s)
    BY <1>2
  <2> HIDE DEF d
  <2>3. /\ CoreOK(e) /\ e.phase = d.phase /\ e.active_cid = d.active_cid
        /\ e.channels = d.channels /\ SameTransaction(d, e)
    <3>1. SameTransaction(d, CountQueueFull(d)) /\ SameTransaction(d, d)
      BY <2>1 DEF CountQueueFull, CoreOK, CoreType, SameTransaction
    <3> QED
      BY <2>1, <3>1, CountQueueFullOK DEF CountIfReady
  <2> HIDE DEF e
  <2>4. CASE core' = d \/ core' = e
    <3>1. core'.channels = d.channels /\ SameTransaction(c, core')
      BY <2>1, <2>3, <2>4 DEF SameTransaction
    <3> QED
      BY <1>2, <2>1, <3>1 DEF Handled, Spares, Punctual, OnlySlot
  <2>5. CASE /\ d.phase = "RX" /\ d.active_cid = p.cid
             /\ core' = ClearActive(e, TRUE)
    <3>1. Holds(e, s, e.active_cid) /\ e.phase # "IDLE"
      BY <2>1, <2>3, <2>5 DEF Holds
    <3>2. OnlySlot(e, core', s) /\ core'.channels[s].partial_active = FALSE
      BY <2>3, <2>5, <3>1, ClearActiveOnly
    <3>3. OnlySlot(c, core', s)
      BY <2>1, <2>3, <3>2 DEF OnlySlot
    <3> QED
      BY <1>2, <2>1, <2>5, <3>2, <3>3, OwnerSpares DEF Handled, Punctual, OnlySlot
  <2>6. CASE /\ d.phase = "IDLE" /\ Refusal(p) = "NONE"
             /\ CompleteIfFull(
                  StoreBytes(BeginMessage(d, s, p, now), s,
                             [cid |-> p.cid, packet |-> 0], InitData), s)
    <3> DEFINE b == BeginMessage(d, s, p, now)
               f == StoreBytes(b, s, [cid |-> p.cid, packet |-> 0], InitData)
    <3>1. p.command \in Request /\ p.len <= MaxPayload
      BY <2>6, CoreAssumption DEF Refusal, InitialPacket
    <3>2. /\ CoreOK(b) /\ b.phase = "RX" /\ b.active_cid = p.cid /\ Holds(b, s, p.cid)
          /\ OnlySlot(d, b, s) /\ b.channels[s].last_packet_ms = now
      BY <2>1, <2>6, <3>1, BeginMessageOK, BeginMessageOnly
    <3>3. [cid |-> p.cid, packet |-> 0] \in Byte /\ InitData \in Nat
      BY <2>1, ZeroFact, CoreAssumption DEF CoreOK, Unique, Holds, Byte
    <3> HIDE DEF b
    <3>4. /\ CoreOK(f) /\ f.phase = "RX" /\ f.active_cid = p.cid /\ Holds(f, s, p.cid)
          /\ OnlySlot(b, f, s) /\ f.channels[s].last_packet_ms = now
      BY <3>2, <3>3, StoreBytesOK, StoreBytesOnly
    <3>5. CompleteIfFull(f, s)
      BY <2>6 DEF b
    <3> HIDE DEF f
    <3>6. /\ OnlySlot(f, core', s)
          /\ core'.channels[s].partial_active => core'.channels[s] = f.channels[s]
      BY <3>4, <3>5, CompleteIfFullOnly
    <3>7. OnlySlot(c, core', s)
      BY <2>1, <3>2, <3>4, <3>6 DEF OnlySlot
    <3> QED
      BY <1>2, <2>1, <2>6, <3>4, <3>6, <3>7, OwnerSpares DEF Handled, Punctual, OnlySlot
  <2> QED
    BY <2>2, <2>4, <2>5, <2>6
<1> QED
  BY <1>1, <1>2 DEF HandleRequest

\* A continuation changes the channel whose request it belongs to, or takes
\* that channel's tombstone away.
LEMMA HandleContinuationHandled ==
    ASSUME NEW c, CoreOK(c), now \in Time, NEW p \in Continuation,
           HandleContinuation(c, p)
    PROVE  Handled(c, p.cid)
<1>1. CASE core' = c
  BY <1>1, NothingHandled
<1>2. ASSUME NEW s \in Slot, Holds(c, s, p.cid),
             core' = [c EXCEPT !.channels[s].timeout_pending = FALSE]
      PROVE  Handled(c, p.cid)
  BY <1>2, TombstoneOnly DEF Handled, Spares, Punctual, OnlySlot
<1>3. ASSUME NEW s \in Slot, Assembling(c, s, p.cid),
             core' = ClearActive(c, TRUE)
      PROVE  Handled(c, p.cid)
  <2>1. OnlySlot(c, core', s) /\ core'.channels[s].partial_active = FALSE
    BY <1>3, ClearActiveOnly DEF Assembling
  <2> QED
    BY <1>3, <2>1, OwnerSpares DEF Handled, Punctual, OnlySlot, Assembling
<1>4. ASSUME NEW s \in Slot, Assembling(c, s, p.cid),
             p.sequence = c.channels[s].next_sequence, Assemble(c, s, p)
      PROVE  Handled(c, p.cid)
  <2> DEFINE byte == [cid |-> p.cid, packet |-> p.sequence + 1]
             d == StoreBytes(c, s, byte, ContData)
             ch == [d.channels[s] EXCEPT !.last_packet_ms = now,
                               !.next_sequence = d.channels[s].next_sequence + 1]
             e == [d EXCEPT !.channels[s].last_packet_ms = now,
                            !.channels[s].next_sequence = @ + 1]
  <2>1. c.phase = "RX" /\ Holds(c, s, c.active_cid) /\ p.cid = c.active_cid
    BY <1>4 DEF Assembling
  <2>2. byte \in Byte /\ ContData \in Nat
    BY <2>1, CoreAssumption DEF CoreOK, Unique, Holds, Byte, Continuation
  <2> HIDE DEF byte
  <2>3. /\ CoreOK(d) /\ d.phase = "RX" /\ d.active_cid = c.active_cid
        /\ Holds(d, s, c.active_cid)
        /\ d.channels[s].next_sequence = p.sequence
        /\ OnlySlot(c, d, s)
    BY <1>4, <2>1, <2>2, StoreBytesOK, StoreBytesOnly
  <2>4. CompleteIfFull(e, s)
    BY <1>4 DEF Assemble, byte
  <2> HIDE DEF d
  <2>5. d \in CoreType /\ d.channels[s] \in Channel /\ DOMAIN d.channels = Slot
    BY <2>3 DEF CoreOK, CoreType
  <2>6. d.channels[s].next_sequence + 1 \in 0 .. (MaxSeq + 1)
    BY <2>3, CoreAssumption DEF Continuation
  <2>7. /\ ch \in Channel /\ SameRequest(ch, d.channels[s])
        /\ ch.cancel = d.channels[s].cancel
        /\ ch.timeout_pending = d.channels[s].timeout_pending
        /\ ch.last_packet_ms = now
    BY <2>5, <2>6 DEF Channel, SameRequest
  <2>8. e = [d EXCEPT !.channels[s] = ch]
    BY <2>5 DEF CoreType
  <2>9. /\ e.phase = d.phase /\ e.active_cid = d.active_cid /\ e.channels[s] = ch
        /\ OnlySlot(d, e, s)
    BY <2>5, <2>8 DEF CoreType, OnlySlot
  <2> HIDE DEF ch, e
  <2>10. CoreOK(e) /\ Holds(e, s, e.active_cid)
    BY <2>3, <2>7, <2>8, <2>9, TouchOK DEF Holds, SameRequest
  <2>11. /\ OnlySlot(e, core', s)
         /\ core'.channels[s].partial_active => core'.channels[s] = e.channels[s]
    BY <2>3, <2>4, <2>9, <2>10, CompleteIfFullOnly
  <2>12. OnlySlot(c, core', s)
    BY <2>3, <2>9, <2>11 DEF OnlySlot
  <2> QED
    BY <2>1, <2>7, <2>9, <2>11, <2>12, OwnerSpares DEF Handled, Punctual, OnlySlot
<1> QED
  BY <1>1, <1>2, <1>3, <1>4 DEF HandleContinuation
\* Every report, after the cleanup that opens its feed.
LEMMA FeedHandled ==
    ASSUME IInv
    PROVE  LET c == Cleanup(core, now)
           IN /\ \A p \in InitialPacket : FeedInitial(p) => Handled(c, p.cid)
              /\ \A p \in Continuation : FeedContinuation(p) => Handled(c, p.cid)
<1> DEFINE c == Cleanup(core, now)
<1>1. CoreOK(c) /\ now \in Time
  BY IInvFact, CleanupOK
<1>2. \A p \in InitialPacket : FeedInitial(p) =>
         HandleCancel(c, p) \/ HandleInit(c, p) \/ HandleRequest(c, p)
  BY DEF FeedInitial
<1>3. \A p \in Continuation : FeedContinuation(p) => HandleContinuation(c, p)
  BY DEF FeedContinuation
<1> HIDE DEF c
<1>4. /\ \A p \in InitialPacket : FeedInitial(p) => Handled(c, p.cid)
      /\ \A p \in Continuation : FeedContinuation(p) => Handled(c, p.cid)
  BY <1>1, <1>2, <1>3, HandleCancelHandled, HandleInitHandled,
     HandleRequestHandled, HandleContinuationHandled
<1> QED
  BY <1>4 DEF c

\* A step that handles a report spares the other CIDs.
LEMMA SparesStep ==
    IInv /\ IInv' /\ [Next]_coreVars =>
      [fed' # NoReport =>
         LET c == Cleanup(core, now)
         IN /\ \A s \in Slot :
                 (c.channels[s].allocated /\ ~ Holds(c, s, fed'))
                    => core'.channels[s] = c.channels[s]
            /\ (c.phase # "IDLE" /\ c.active_cid # fed') =>
                 [core' EXCEPT !.channels = c.channels,
                               !.queue_full_count = c.queue_full_count] = c
      ]_coreVars
<1> DEFINE c == Cleanup(core, now)
<1> SUFFICES ASSUME IInv, IInv', Next, fed' # NoReport
             PROVE  /\ \A s \in Slot :
                         (c.channels[s].allocated /\ ~ Holds(c, s, fed'))
                            => core'.channels[s] = c.channels[s]
                    /\ (c.phase # "IDLE" /\ c.active_cid # fed') =>
                         [core' EXCEPT !.channels = c.channels,
                                       !.queue_full_count = c.queue_full_count] = c
  OBVIOUS
<1>1. \/ \E p \in InitialPacket : FeedInitial(p) /\ fed' = p.cid
      \/ \E p \in Continuation : FeedContinuation(p) /\ fed' = p.cid
  BY DEF Next, Step, Tick
<1>2. Handled(c, fed')
  BY <1>1, FeedHandled
<1>3. c \in CoreType /\ core' \in CoreType
  BY IInvFact, CleanupOK DEF CoreOK, IInv, TypeOK
<1> HIDE DEF c
<1>4. SameTransaction(c, core') =>
        [core' EXCEPT !.channels = c.channels,
                      !.queue_full_count = c.queue_full_count] = c
  BY <1>3 DEF SameTransaction, CoreType
<1> QED
  BY <1>2, <1>4 DEF Handled, Spares

\* A report disturbs neither another CID's channel nor another CID's
\* transaction, for any number of channels and hosts.
THEOREM NonInterferenceTheorem == Spec => NonInterference
<1>1. IInv /\ IInv' /\ [Next]_coreVars =>
      [fed' # NoReport =>
         LET c == Cleanup(core, now)
         IN /\ \A s \in Slot :
                 (c.channels[s].allocated /\ ~ Holds(c, s, fed'))
                    => core'.channels[s] = c.channels[s]
            /\ (c.phase # "IDLE" /\ c.active_cid # fed') =>
                 [core' EXCEPT !.channels = c.channels,
                               !.queue_full_count = c.queue_full_count] = c
      ]_coreVars
  BY SparesStep
<1> QED
  BY <1>1, Invariance, PTL DEF Spec, NonInterference
-----------------------------------------------------------------------------
(* The clock. *)

\* The time stamp of a request being assembled is silence old, wherever the
\* clock has wrapped since.
StampedAt(t, age) == IF age <= t THEN t - age ELSE t - age + TimeMod
Stamped ==
    \A s \in Slot : core.channels[s].partial_active =>
        /\ silence < TimeMod
        /\ core.channels[s].last_packet_ms = StampedAt(now, silence)

\* Unsigned subtraction gives the age back.
LEMMA AgeFact ==
    ASSUME NEW t \in Time, NEW age \in Nat, age < TimeMod
    PROVE  (t - StampedAt(t, age)) % TimeMod = age
<1>1. TimeMod \in Nat \ {0} /\ t \in 0 .. (TimeMod - 1)
  BY CoreAssumption DEF Time
<1>2. age % TimeMod = age /\ (age - TimeMod) % TimeMod = age
  BY <1>1
<1>3. t - StampedAt(t, age) \in {age, age - TimeMod}
  BY <1>1 DEF StampedAt
<1> QED
  BY <1>2, <1>3

\* A tick ages the stamp by one.
LEMMA TickFact ==
    ASSUME NEW t \in Time, NEW age \in Nat, age < TimeMod - 1
    PROVE  StampedAt((t + 1) % TimeMod, age + 1) = StampedAt(t, age)
<1>1. TimeMod \in Nat \ {0} /\ t \in 0 .. (TimeMod - 1)
  BY CoreAssumption DEF Time
<1>2. (t + 1) % TimeMod = IF t + 1 = TimeMod THEN 0 ELSE t + 1
  BY <1>1
<1> QED
  BY <1>1, <1>2 DEF StampedAt

\* The stamps stay true.
LEMMA StampedStep ==
    IInv /\ IInv' /\ Stamped /\ [Next]_coreVars => Stamped'
<1> SUFFICES ASSUME IInv, IInv', Stamped, [Next]_coreVars,
                    NEW s \in Slot, core'.channels[s].partial_active
             PROVE  /\ silence' < TimeMod
                    /\ core'.channels[s].last_packet_ms = StampedAt(now', silence')
  BY DEF Stamped
<1>0. /\ CoreOK(core) /\ CoreOK(core') /\ now \in Time /\ silence \in Nat
      /\ TimeMod \in Nat \ {0}
  BY IInvFact, CoreAssumption
     DEF IInv, TypeOK, UniqueCids, TransactionOwned, FlagsInScope, CoreOK
<1>1. core'.phase = "RX" /\ Holds(core', s, core'.active_cid)
  BY <1>0 DEF CoreOK, Owned
<1>2. \A t \in Slot : core'.channels[t].partial_active => t = s
  BY <1>0, <1>1 DEF CoreOK, Owned, Unique, Holds
<1>3. ASSUME core'.channels[s] = core.channels[s], now' = now,
             silence' = IF core'.phase # "RX" \/ Accepted THEN 0 ELSE silence
      PROVE  /\ silence' < TimeMod
             /\ core'.channels[s].last_packet_ms = StampedAt(now', silence')
  <2>1. ~ Accepted
    BY <1>2, <1>3 DEF Accepted
  <2> QED
    BY <1>1, <1>3, <2>1 DEF Stamped
<1>4. ASSUME core'.channels[s] # core.channels[s],
             core'.channels[s].last_packet_ms = now, now' = now,
             silence' = IF core'.phase # "RX" \/ Accepted THEN 0 ELSE silence
      PROVE  /\ silence' < TimeMod
             /\ core'.channels[s].last_packet_ms = StampedAt(now', silence')
  <2>1. silence' = 0
    BY <1>4 DEF Accepted
  <2> QED
    BY <1>0, <1>4, <2>1 DEF StampedAt, Time
<1>5. ASSUME Punctual(Cleanup(core, now), core'), now' = now,
             silence' = IF core'.phase # "RX" \/ Accepted THEN 0 ELSE silence
      PROVE  /\ silence' < TimeMod
             /\ core'.channels[s].last_packet_ms = StampedAt(now', silence')
  <2> DEFINE c == Cleanup(core, now)
  <2>1. CoreOK(c)
    BY <1>0, CleanupOK
  <2>2. c = core \/ c.phase = "IDLE"
    BY <1>0 DEF Cleanup, CoreOK, CoreType
  <2>3. core'.channels[s] = c.channels[s] \/ core'.channels[s].last_packet_ms = now
    BY <1>5 DEF Punctual
  <2> HIDE DEF c
  <2>4. core'.channels[s] = c.channels[s] => c = core
    BY <2>1, <2>2 DEF CoreOK, Owned
  <2> QED
    BY <1>3, <1>4, <1>5, <2>3, <2>4
<1>6. CASE \/ \E p \in InitialPacket : Step(FeedInitial(p), p.cid)
           \/ \E p \in Continuation : Step(FeedContinuation(p), p.cid)
  <2>1. Punctual(Cleanup(core, now), core')
    BY <1>6, FeedHandled DEF Step, Handled
  <2>2. /\ now' = now
        /\ silence' = IF core'.phase # "RX" \/ Accepted THEN 0 ELSE silence
    BY <1>6 DEF Step
  <2> QED
    BY <1>5, <2>1, <2>2
<1>7. CASE Step(PeriodicCleanup, NoReport)
  BY <1>5, <1>7 DEF Step, PeriodicCleanup, Punctual
<1>8. CASE Step(TakeMessage, NoReport)
  <2>1. core'.channels = core.channels
    BY <1>0, <1>8 DEF Step, TakeMessage, Taken, CoreOK, CoreType
  <2> QED
    BY <1>3, <1>8, <2>1 DEF Step
<1>9. ASSUME NEW cid, NEW gen,
              \/ Step(FinishResponse(cid, gen), NoReport)
              \/ Step(ClearCancel(cid, gen), NoReport)
       PROVE  /\ silence' < TimeMod
              /\ core'.channels[s].last_packet_ms = StampedAt(now', silence')
  <2>1. Current(core, cid, gen) =>
           /\ Finished(core, cid, gen).phase = "IDLE"
           /\ CancelCleared(core, cid, gen).phase = "PROCESSING"
    BY <1>0, ClearActiveOK DEF Finished, CancelCleared, Current, CoreOK, CoreType
  <2>2. core' = core
    BY <1>1, <1>9, <2>1
       DEF Step, FinishResponse, ClearCancel, Finished, CancelCleared
  <2> QED
    BY <1>3, <1>9, <2>2 DEF Step
<1>10. ~ Step(CoreReset, NoReport)
  BY <1>1 DEF Step, CoreReset, CoreInit
<1>11. CASE Tick
  <2>1. /\ silence < TimeMod - 1 /\ silence' = silence + 1
        /\ now' = (now + 1) % TimeMod
    BY <1>1, <1>11 DEF Tick
  <2>2. core.channels[s].last_packet_ms = StampedAt(now, silence)
    BY <1>11 DEF Tick, Stamped
  <2> QED
    BY <1>0, <1>11, <2>1, <2>2, TickFact DEF Tick
<1>12. CASE UNCHANGED coreVars
  BY <1>12 DEF coreVars, Stamped
<1> QED
  BY <1>6, <1>7, <1>8, <1>9, <1>10, <1>11, <1>12 DEF Next

\* The wrapping clock measures the silence of a request exactly, for every
\* width of the clock and every timeout shorter than it.
THEOREM TimeoutTheorem == Spec => []TimeoutExact
<1>1. Init => Stamped
  BY DEF Init, CoreInit, FreeChannel, Stamped
<1>2. IInv /\ Stamped => TimeoutExact
  BY IInvFact, AgeFact DEF Stamped, TimeoutExact, TimeExpired
<1> QED
  BY <1>1, <1>2, Invariance, StampedStep, PTL DEF Spec
-----------------------------------------------------------------------------
(* The bytes of the pool. *)

\* Bytes of the active request in the assembly buffer.
Held(c) == IF c.phase = "RX" \/ c.active_command = "PING"
           THEN c.channels[ActiveSlot(c)].received ELSE 0

\* The buffer that does not assemble holds the waiting message, or nothing.
OtherExact(c) ==
    c.buffers[1 - c.rx_buffer] = IF c.message_ready
                                 THEN Bytes(c.complete.cid, c.complete.len)
                                 ELSE Zeroed
Exact(c) ==
    /\ c.buffers[c.rx_buffer] = Bytes(c.active_cid, Held(c))
    /\ OtherExact(c)
    /\ c.phase = "IDLE" => c.active_command = "NONE"

\* While a request assembles, its sequence number counts its packets.
Counted(ch) == ch.received = InitData + ch.next_sequence * ContData
Aligned(c) ==
    \A s \in Slot : c.channels[s].partial_active =>
        /\ c.channels[s].received < c.channels[s].declared_len
        /\ Counted(c.channels[s])

PoolOK(c) == Exact(c) /\ Aligned(c)

\* Nobody's bytes are no bytes.
LEMMA NoBytesFact == \A cid : Bytes(cid, 0) = Zeroed
  BY CoreAssumption DEF Bytes, Zeroed, Position

\* The buffers of a core, by number.
LEMMA BufferFact ==
    ASSUME NEW c, CoreOK(c)
    PROVE  /\ c.rx_buffer \in BufferIds /\ 1 - c.rx_buffer \in BufferIds
           /\ 1 - c.rx_buffer # c.rx_buffer
           /\ \A b \in BufferIds : b = c.rx_buffer \/ b = 1 - c.rx_buffer
           /\ DOMAIN c.buffers = BufferIds
           /\ c.message_ready => c.complete.buffer = 1 - c.rx_buffer
           /\ c.phase # "PROCESSING" => c.message_ready = FALSE
<1>1. c \in CoreType /\ Owned(c)
  BY DEF CoreOK
<1>2. c.message_ready => c.complete.buffer = 1 - c.rx_buffer
  <2> SUFFICES ASSUME c.message_ready PROVE c.complete.buffer = 1 - c.rx_buffer
    OBVIOUS
  <2>1. PICK s \in Slot : WaitingMessage(c, s)
    BY <1>1 DEF Owned
  <2>2. c.complete = [buffer |-> 1 - c.rx_buffer, cid |-> c.active_cid,
                      command |-> "CBOR", len |-> c.channels[s].declared_len,
                      generation |-> c.channels[s].generation]
    BY <2>1 DEF WaitingMessage
  <2> QED
    BY <2>2
<1>3. c.phase # "PROCESSING" => c.message_ready = FALSE
  BY <1>1 DEF Owned, WaitingMessage, CoreType
<1> QED
  BY <1>1, <1>2, <1>3 DEF CoreType, BufferIds

\* An idle core with wiped buffers.
LEMMA IdlePool ==
    ASSUME NEW c, CoreOK(c), c.phase = "IDLE", c.active_command = "NONE",
           \A b \in BufferIds : c.buffers[b] = Zeroed
    PROVE  PoolOK(c)
<1>1. c.buffers[c.rx_buffer] = Zeroed /\ c.buffers[1 - c.rx_buffer] = Zeroed
  BY BufferFact
<1>2. Held(c) = 0 /\ c.message_ready = FALSE
  BY BufferFact DEF Held
<1>3. \A s \in Slot : ~ c.channels[s].partial_active
  BY DEF CoreOK, Owned
<1> QED
  BY <1>1, <1>2, <1>3, NoBytesFact DEF PoolOK, Exact, OtherExact, Aligned

\* Releasing a request wipes both buffers.
LEMMA ClearActivePool ==
    ASSUME NEW c, CoreOK(c), OtherExact(c), c.phase # "IDLE",
           NEW drop \in BOOLEAN, drop \/ ~ c.message_ready
    PROVE  PoolOK(ClearActive(c, drop))
<1> DEFINE d == ClearActive(c, drop)
<1>1. CoreOK(d) /\ d.phase = "IDLE"
  BY ClearActiveOK
<1>2. /\ d.active_command = "NONE"
      /\ d.buffers = [b \in BufferIds |->
           IF b = c.rx_buffer \/ (drop /\ c.message_ready /\ b = c.complete.buffer)
           THEN Zeroed ELSE c.buffers[b]]
  BY DEF ClearActive, CoreOK, CoreType
<1> HIDE DEF d
<1>3. \A b \in BufferIds : d.buffers[b] = Zeroed
  BY <1>2, BufferFact DEF OtherExact
<1>4. PoolOK(d)
  BY <1>1, <1>2, <1>3, IdlePool
<1> QED
  BY <1>4 DEF d

\* Changes beside the transaction and what its channel has assembled.
SameAssembly(c, d) ==
    /\ SameTransaction(c, d)
    /\ \A s \in Slot : Holds(c, s, c.active_cid) =>
          /\ Holds(d, s, c.active_cid)
          /\ d.channels[s].received = c.channels[s].received
          /\ d.channels[s].declared_len = c.channels[s].declared_len
          /\ d.channels[s].next_sequence = c.channels[s].next_sequence

\* They leave the pool as it is.
LEMMA SameAssemblyPool ==
    ASSUME NEW c, NEW d, CoreOK(c), CoreOK(d), PoolOK(c), SameAssembly(c, d)
    PROVE  PoolOK(d)
<1>1. CASE c.phase = "IDLE"
  <2>1. Held(d) = Held(c)
    BY <1>1 DEF PoolOK, Exact, SameAssembly, SameTransaction, Held
  <2>2. \A s \in Slot : ~ d.channels[s].partial_active
    BY <1>1 DEF CoreOK, Owned, SameAssembly, SameTransaction
  <2> QED
    BY <2>1, <2>2
       DEF PoolOK, Exact, OtherExact, Aligned, SameAssembly, SameTransaction
<1>2. CASE c.phase # "IDLE"
  <2> DEFINE a == ActiveSlot(c)
  <2>1. a \in Slot /\ Holds(c, a, c.active_cid)
    BY <1>2, ActiveSlotFact
  <2>2. ActiveSlot(d) = a /\ \A s \in Slot : Holds(d, s, c.active_cid) => s = a
    BY <1>2, <2>1, ActiveSlotFact DEF SameAssembly, SameTransaction
  <2> HIDE DEF a
  <2>3. Held(d) = Held(c)
    BY <2>1, <2>2 DEF SameAssembly, SameTransaction, Held, a
  <2>4. Exact(d)
    BY <2>3 DEF PoolOK, Exact, OtherExact, SameAssembly, SameTransaction
  <2>5. \A s \in Slot : d.channels[s].partial_active =>
           s = a /\ c.channels[a].partial_active
    BY <2>1, <2>2 DEF CoreOK, Owned, SameAssembly, SameTransaction
  <2> QED
    BY <2>1, <2>4, <2>5 DEF PoolOK, Aligned, SameAssembly, Counted
<1> QED
  BY <1>1, <1>2

\* In an idle core no channel is active, so all of them may change.
LEMMA IdleAssembly ==
    ASSUME NEW c, NEW d, CoreOK(c), c.phase = "IDLE", SameTransaction(c, d)
    PROVE  SameAssembly(c, d)
  BY CoreAssumption DEF CoreOK, Owned, Unique, Holds, SameAssembly

\* Taking a tombstone away leaves the pool as it is.
LEMMA TombstonePool ==
    ASSUME NEW c, CoreOK(c), PoolOK(c), NEW s \in Slot
    PROVE  PoolOK([c EXCEPT !.channels[s].timeout_pending = FALSE])
<1> DEFINE d == [c EXCEPT !.channels[s].timeout_pending = FALSE]
           ch == [c.channels[s] EXCEPT !.timeout_pending = FALSE]
<1>1. /\ c.channels[s] \in Channel /\ DOMAIN c.channels = Slot
      /\ d.channels = [c.channels EXCEPT ![s] = ch]
      /\ CoreOK(d) /\ SameTransaction(c, d)
  BY TombstoneClearedOK, TombstoneOnly DEF CoreOK, CoreType
<1>2. /\ ch.cid = c.channels[s].cid /\ ch.allocated = c.channels[s].allocated
      /\ ch.received = c.channels[s].received
      /\ ch.declared_len = c.channels[s].declared_len
      /\ ch.next_sequence = c.channels[s].next_sequence
  BY <1>1 DEF Channel
<1> HIDE DEF d, ch
<1>3. SameAssembly(c, d)
  BY <1>1, <1>2 DEF SameAssembly, Holds
<1>4. PoolOK(d)
  BY <1>1, <1>3, SameAssemblyPool
<1> QED
  BY <1>4 DEF d

\* So does counting a refusal.
LEMMA CountedPool ==
    ASSUME NEW c, CoreOK(c), PoolOK(c)
    PROVE  PoolOK(CountIfReady(c))
<1>1. SameTransaction(c, CountQueueFull(c))
  BY DEF CountQueueFull, CoreOK, CoreType, SameTransaction
<1>2. SameAssembly(c, CountQueueFull(c))
  BY <1>1, CountQueueFullOK DEF SameAssembly, Holds
<1> QED
  BY <1>2, CountQueueFullOK, SameAssemblyPool DEF CountIfReady

\* The message timeout wipes the assembly buffer.
LEMMA CleanupPool ==
    ASSUME NEW c, CoreOK(c), PoolOK(c), NEW t \in Time
    PROVE  PoolOK(Cleanup(c, t))
<1> DEFINE d == Cleanup(c, t)
<1>1. CASE d = c
  BY <1>1
<1>2. CASE /\ c.phase = "RX" /\ d.phase = "IDLE" /\ d.active_command = "NONE"
           /\ d.buffers = [c.buffers EXCEPT ![c.rx_buffer] = Zeroed]
  <2>1. CoreOK(d)
    BY CleanupOK
  <2> HIDE DEF d
  <2>2. \A b \in BufferIds : d.buffers[b] = Zeroed
    <3>1. /\ d.buffers[c.rx_buffer] = Zeroed
          /\ d.buffers[1 - c.rx_buffer] = c.buffers[1 - c.rx_buffer]
      BY <1>2, BufferFact
    <3>2. c.buffers[1 - c.rx_buffer] = Zeroed
      BY <1>2, BufferFact DEF PoolOK, Exact, OtherExact
    <3> QED
      BY <3>1, <3>2, BufferFact
  <2>3. PoolOK(d)
    BY <1>2, <2>1, <2>2, IdlePool
  <2> QED
    BY <2>3 DEF d
<1>3. \/ d = c
      \/ /\ c.phase = "RX" /\ d.phase = "IDLE" /\ d.active_command = "NONE"
         /\ d.buffers = [c.buffers EXCEPT ![c.rx_buffer] = Zeroed]
  BY DEF Cleanup, CoreOK, CoreType
<1> QED
  BY <1>1, <1>2, <1>3

\* begin_message wipes the assembly buffer for a request with no bytes yet.
LEMMA BeginMessagePool ==
    ASSUME NEW c, CoreOK(c), PoolOK(c), c.phase = "IDLE", NEW s \in Slot,
           NEW t \in Time, NEW p \in InitialPacket, Holds(c, s, p.cid),
           p.command \in Request, p.len <= MaxPayload
    PROVE  LET d == BeginMessage(c, s, p, t)
           IN Exact(d) /\ d.channels[s].received = 0
<1> DEFINE d == BeginMessage(c, s, p, t)
<1>1. CoreOK(d) /\ d.phase = "RX" /\ d.active_cid = p.cid /\ Holds(d, s, p.cid)
  BY BeginMessageOK
<1>2. c \in CoreType /\ c.channels[s] \in Channel /\ DOMAIN c.channels = Slot
  BY DEF CoreOK, CoreType
<1>3. /\ d.channels[s].received = 0 /\ d.rx_buffer = c.rx_buffer
      /\ d.buffers = [c.buffers EXCEPT ![c.rx_buffer] = Zeroed]
      /\ d.message_ready = c.message_ready
  BY <1>2 DEF BeginMessage, CoreType, Channel
<1> HIDE DEF d
<1>4. ActiveSlot(d) = s
  BY <1>1, ActiveSlotFact
<1>5. Held(d) = 0
  BY <1>1, <1>3, <1>4 DEF Held
<1>6. /\ d.buffers[c.rx_buffer] = Zeroed
      /\ d.buffers[1 - c.rx_buffer] = c.buffers[1 - c.rx_buffer]
      /\ c.message_ready = FALSE
  BY <1>3, BufferFact
<1>7. Exact(d)
  BY <1>1, <1>3, <1>5, <1>6, NoBytesFact DEF PoolOK, Exact, OtherExact
<1> QED
  BY <1>3, <1>7 DEF d

\* The bytes of a packet land behind those received before it.
LEMMA StoreBytesPool ==
    ASSUME NEW c, CoreOK(c), Exact(c), c.phase = "RX", NEW s \in Slot,
           Holds(c, s, c.active_cid), NEW room \in Nat, NEW k \in 0 .. (MaxSeq + 1),
           \A i \in Int : (/\ c.channels[s].received < i
                           /\ i <= c.channels[s].received + room)
                              => PacketOf(i) = k
    PROVE  LET d == StoreBytes(c, s, [cid |-> c.active_cid, packet |-> k], room)
               ch == d.channels[s]
           IN /\ Exact(d)
              /\ ch.received # ch.declared_len =>
                    ch.received = c.channels[s].received + room
<1> DEFINE byte == [cid |-> c.active_cid, packet |-> k]
           d == StoreBytes(c, s, byte, room)
           n == c.channels[s].received
           left == c.channels[s].declared_len - n
           take == IF left < room THEN left ELSE room
<1>0. c \in CoreType /\ Unique(c) /\ Owned(c)
  BY DEF CoreOK
<1>1. /\ c.channels[s] \in Channel /\ DOMAIN c.channels = Slot
      /\ n \in Nat /\ c.channels[s].declared_len \in Nat
  BY <1>0, CoreAssumption DEF CoreType, Channel, Length
<1>2. ActiveRequest(c, s) /\ ActiveSlot(c) = s
  BY ActiveSlotFact
<1>3. take \in Nat /\ take <= room
  BY <1>1, <1>2 DEF ActiveRequest
<1>4. byte \in Byte
  BY <1>0 DEF CoreType, Byte
<1> HIDE DEF byte
<1>5. CoreOK(d) /\ d.phase = "RX" /\ d.active_cid = c.active_cid /\ Holds(d, s, c.active_cid)
  BY <1>4, StoreBytesOK
<1>6. /\ d.rx_buffer = c.rx_buffer /\ d.message_ready = c.message_ready
      /\ d.complete = c.complete
      /\ d.channels = [c.channels EXCEPT ![s].received = n + take]
      /\ d.buffers = [c.buffers EXCEPT ![c.rx_buffer] = [i \in Position |->
              IF i \in (n + 1) .. (n + take)
              THEN byte ELSE c.buffers[c.rx_buffer][i]]]
  BY <1>0 DEF StoreBytes, CoreType
<1> HIDE DEF d
<1>7. /\ d.channels[s].received = n + take
      /\ d.channels[s].declared_len = c.channels[s].declared_len
  BY <1>1, <1>6 DEF Channel
<1>8. ActiveSlot(d) = s
  BY <1>5, ActiveSlotFact
<1>9. Held(c) = n /\ Held(d) = n + take
  BY <1>2, <1>5, <1>7, <1>8 DEF Held
<1>10. c.buffers[c.rx_buffer] = Bytes(c.active_cid, n)
  BY <1>9 DEF Exact
<1>11. d.buffers[d.rx_buffer] = Bytes(c.active_cid, n + take)
  <2>1. d.buffers[d.rx_buffer] = [i \in Position |->
              IF i \in (n + 1) .. (n + take)
              THEN byte ELSE Bytes(c.active_cid, n)[i]]
    <3> HIDE DEF n, take
    <3>1. c.rx_buffer \in DOMAIN c.buffers
      BY BufferFact
    <3> QED
      BY <1>6, <1>10, <3>1
  <2> HIDE DEF n, take
  <2>2. ASSUME NEW i \in Position
        PROVE  (IF i \in (n + 1) .. (n + take)
                THEN byte ELSE Bytes(c.active_cid, n)[i])
               = Bytes(c.active_cid, n + take)[i]
    <3>1. i \in Int
      BY CoreAssumption DEF Position
    <3>2. CASE i \in (n + 1) .. (n + take)
      <4>1. PacketOf(i) = k
        BY <1>1, <1>3, <3>1, <3>2 DEF n
      <4> QED
        BY <1>1, <1>3, <3>1, <3>2, <4>1 DEF Bytes, byte
    <3>3. CASE i \notin (n + 1) .. (n + take)
      <4>1. i <= n <=> i <= n + take
        BY <1>1, <1>3, <3>1, <3>3
      <4> QED
        BY <3>3, <4>1 DEF Bytes
    <3> QED
      BY <3>2, <3>3
  <2>3. Bytes(c.active_cid, n + take)
          = [i \in Position |-> Bytes(c.active_cid, n + take)[i]]
    BY DEF Bytes
  <2> QED
    BY <2>1, <2>2, <2>3
<1>12. d.buffers[1 - c.rx_buffer] = c.buffers[1 - c.rx_buffer]
  BY <1>6, BufferFact
<1>13. Exact(d)
  BY <1>5, <1>6, <1>9, <1>11, <1>12 DEF Exact, OtherExact
<1>14. n + take # c.channels[s].declared_len => take = room
  BY <1>1
<1> QED
  BY <1>7, <1>13, <1>14 DEF d, byte

\* A whole request is echoed from its buffer or handed over with it.
LEMMA CompleteIfFullPool ==
    ASSUME NEW c, CoreOK(c), Exact(c), c.phase = "RX", NEW s \in Slot,
           Holds(c, s, c.active_cid), CompleteIfFull(c, s),
           c.channels[s].received # c.channels[s].declared_len =>
              Counted(c.channels[s])
    PROVE  PoolOK(core')
<1> DEFINE ch == c.channels[s]
           d == [c EXCEPT !.phase = "PROCESSING",
                          !.channels[s].partial_active = FALSE]
<1>0. c \in CoreType /\ Unique(c) /\ Owned(c) /\ CoreOK(core')
  BY CompleteIfFullOK DEF CoreOK
<1>1. /\ ch \in Channel /\ DOMAIN c.channels = Slot
      /\ ch.received \in Nat /\ ch.declared_len \in Nat
  BY <1>0, CoreAssumption DEF CoreType, Channel, Length
<1>2. ActiveRequest(c, s) /\ ActiveSlot(c) = s
  BY ActiveSlotFact
<1>3. c.buffers[c.rx_buffer] = Bytes(c.active_cid, ch.received)
  BY <1>2 DEF Exact, Held
<1>4. CASE core' = c /\ ch.received # ch.declared_len
  <2>1. ch.received < ch.declared_len /\ Counted(ch)
    BY <1>1, <1>2, <1>4 DEF ActiveRequest
  <2>2. \A t \in Slot : c.channels[t].partial_active => t = s
    BY <1>0 DEF Owned, Unique, Holds
  <2> QED
    BY <1>4, <2>1, <2>2 DEF PoolOK, Aligned
<1>5. CASE CompleteMessage(c, s) /\ ch.received = ch.declared_len
  <2>1. /\ d.phase = "PROCESSING" /\ d.active_cid = c.active_cid
        /\ d.active_command = c.active_command /\ d.buffers = c.buffers
        /\ d.message_ready = FALSE /\ d.rx_buffer = c.rx_buffer
        /\ d.channels = [c.channels EXCEPT ![s] = [ch EXCEPT !.partial_active = FALSE]]
        /\ d \in CoreType
    <3>1. [ch EXCEPT !.partial_active = FALSE] \in Channel
      BY <1>1 DEF Channel
    <3> QED
      BY <1>0, <1>1, <3>1, BufferFact DEF CoreType
  <2>2. /\ d.channels[s].received = ch.received /\ d.channels[s].cid = c.active_cid
        /\ d.channels[s].declared_len = ch.declared_len
        /\ d.channels[s].command = ch.command
    BY <1>1, <2>1 DEF Channel, Holds
  <2>3. \/ core' = d /\ ch.command = "PING"
        \/ core' = HandOver(d, s) /\ ch.command # "PING"
    BY <1>5, <2>1 DEF CompleteMessage
  <2> HIDE DEF d
  <2>4. CASE core' = d /\ ch.command = "PING"
    <3>1. Holds(core', s, core'.active_cid)
      BY <1>1, <2>1, <2>4 DEF Holds, Channel
    <3>2. ActiveSlot(core') = s
      BY <1>0, <2>1, <2>4, <3>1, ActiveSlotFact
    <3>3. c.active_command = "PING"
      BY <1>2, <2>4 DEF ActiveRequest
    <3>4. Held(core') = ch.received
      BY <2>1, <2>2, <2>4, <3>2, <3>3 DEF Held
    <3>5. Exact(core')
      BY <1>3, <2>1, <2>4, <3>4, BufferFact DEF Exact, OtherExact
    <3>6. \A t \in Slot : ~ core'.channels[t].partial_active
      BY <1>0, <2>1, <2>4 DEF CoreOK, Owned
    <3> QED
      BY <3>5, <3>6 DEF PoolOK, Aligned
  <2>5. CASE core' = HandOver(d, s) /\ ch.command # "PING"
    <3>1. /\ core'.phase = "PROCESSING" /\ core'.active_command = c.active_command
          /\ core'.rx_buffer = 1 - c.rx_buffer /\ core'.message_ready = TRUE
          /\ core'.buffers = c.buffers
          /\ core'.complete.cid = c.active_cid
          /\ core'.complete.len = ch.received
      BY <1>5, <2>1, <2>2, <2>5 DEF HandOver
    <3>2. c.active_command # "PING"
      BY <1>2, <2>5 DEF ActiveRequest
    <3>3. Held(core') = 0
      BY <3>1, <3>2 DEF Held
    <3>4. core'.buffers[core'.rx_buffer] = Zeroed
      BY <3>1, BufferFact DEF Exact, OtherExact
    <3>5. 1 - core'.rx_buffer = c.rx_buffer
      BY <1>0, <3>1 DEF CoreType, BufferIds
    <3>6. OtherExact(core')
      BY <1>3, <3>1, <3>5 DEF OtherExact
    <3>7. Exact(core')
      BY <3>1, <3>3, <3>4, <3>6, NoBytesFact DEF Exact
    <3>8. \A t \in Slot : ~ core'.channels[t].partial_active
      BY <1>0, <3>1 DEF CoreOK, Owned
    <3> QED
      BY <3>7, <3>8 DEF PoolOK, Aligned
  <2> QED
    BY <2>3, <2>4, <2>5
<1> QED
  BY <1>4, <1>5 DEF CompleteIfFull
\* CANCEL and its end touch the cancel flag only.
LEMMA CancelPool ==
    ASSUME NEW c, CoreOK(c), PoolOK(c), NEW s \in Slot, NEW flag,
           CoreOK([c EXCEPT !.channels[s].cancel = flag])
    PROVE  PoolOK([c EXCEPT !.channels[s].cancel = flag])
<1> DEFINE d == [c EXCEPT !.channels[s].cancel = flag]
           ch == [c.channels[s] EXCEPT !.cancel = flag]
<1>1. /\ c.channels[s] \in Channel /\ DOMAIN c.channels = Slot
      /\ d.channels = [c.channels EXCEPT ![s] = ch]
      /\ SameTransaction(c, d)
  BY DEF CoreOK, CoreType, SameTransaction
<1>2. /\ ch.cid = c.channels[s].cid /\ ch.allocated = c.channels[s].allocated
      /\ ch.received = c.channels[s].received
      /\ ch.declared_len = c.channels[s].declared_len
      /\ ch.next_sequence = c.channels[s].next_sequence
  BY <1>1 DEF Channel
<1> HIDE DEF d, ch
<1>3. SameAssembly(c, d)
  BY <1>1, <1>2 DEF SameAssembly, Holds
<1>4. PoolOK(d)
  BY <1>1, <1>3, SameAssemblyPool DEF d
<1> QED
  BY <1>4 DEF d

\* CANCEL touches no byte.
LEMMA HandleCancelPool ==
    ASSUME NEW c, CoreOK(c), PoolOK(c), NEW p \in InitialPacket, HandleCancel(c, p)
    PROVE  PoolOK(core')
<1>1. CoreOK(core')
  BY HandleCancelOK
<1>2. \/ core' = c
      \/ \E s \in Slot : core' = [c EXCEPT !.channels[s].cancel = TRUE]
  BY DEF HandleCancel
<1> QED
  BY <1>1, <1>2, CancelPool

\* INIT touches no byte, or aborts the active request and wipes both buffers.
LEMMA HandleInitPool ==
    ASSUME NEW c, CoreOK(c), PoolOK(c), NEW p \in InitialPacket, HandleInit(c, p)
    PROVE  PoolOK(core')
<1>0. c \in CoreType /\ Unique(c) /\ Owned(c) /\ CoreOK(core')
  BY HandleInitOK DEF CoreOK
<1>1. CASE core' = c \/ core' = CountIfReady(c)
  BY <1>1, CountedPool
<1>2. ASSUME NEW s \in Slot, NEW cid \in Cid, ~ c.channels[s].allocated,
             core' = [c EXCEPT !.channels[s] = NewChannel(cid)]
      PROVE  PoolOK(core')
  <2>1. /\ core'.channels = [c.channels EXCEPT ![s] = NewChannel(cid)]
        /\ SameTransaction(c, core') /\ DOMAIN c.channels = Slot
    BY <1>0, <1>2 DEF CoreType, SameTransaction
  <2>2. SameAssembly(c, core')
    BY <1>2, <2>1 DEF SameAssembly, Holds
  <2> QED
    BY <1>0, <2>2, SameAssemblyPool
<1>3. ASSUME NEW s \in Slot, Holds(c, s, p.cid),
             c.phase = "IDLE" \/ c.active_cid = p.cid, Resynchronise(c, s, p)
      PROVE  PoolOK(core')
  <2> DEFINE d == IF c.active_cid = p.cid THEN ClearActive(c, TRUE) ELSE c
             ch == [ClearChannelRx(d.channels[s]) EXCEPT
                      !.cancel = FALSE, !.timeout_pending = FALSE,
                      !.generation = NextGeneration(d.channels[s])]
  <2>1. CoreOK(d) /\ PoolOK(d) /\ d.phase = "IDLE"
    <3>1. CASE c.active_cid = p.cid
      <4>1. c.phase # "IDLE"
        BY <1>0, <1>3, <3>1, CoreAssumption DEF Owned, Unique, Holds
      <4> QED
        BY <3>1, <4>1, ClearActiveOK, ClearActivePool DEF PoolOK, Exact
    <3>2. CASE c.active_cid # p.cid
      BY <1>3, <3>2
    <3> QED
      BY <3>1, <3>2
  <2>2. core' = [d EXCEPT !.channels[s] = ch]
    BY <1>3 DEF Resynchronise
  <2> HIDE DEF d, ch
  <2>3. SameTransaction(d, core')
    BY <2>1, <2>2 DEF CoreOK, CoreType, SameTransaction
  <2> QED
    BY <1>0, <2>1, <2>3, IdleAssembly, SameAssemblyPool
<1>4. CASE AllocateChannel(c, p)
  BY <1>1, <1>2, <1>4 DEF AllocateChannel
<1> QED
  BY <1>1, <1>3, <1>4 DEF HandleInit

\* A request that starts holds exactly the bytes of its first packet; one that
\* is sent over its own assembly wipes it.
LEMMA HandleRequestPool ==
    ASSUME NEW c, CoreOK(c), PoolOK(c), now \in Time, NEW p \in InitialPacket,
           HandleRequest(c, p)
    PROVE  PoolOK(core')
<1>1. CASE core' = c
  BY <1>1
<1>2. ASSUME NEW s \in Slot, Holds(c, s, p.cid),
             LET d == [c EXCEPT !.channels[s].timeout_pending = FALSE]
             IN \/ core' = CountIfReady(d)
                \/ /\ d.phase = "RX"
                   /\ core' = ClearActive(CountIfReady(d), TRUE)
                \/ core' = d
                \/ /\ d.phase = "IDLE"
                   /\ Refusal(p) = "NONE"
                   /\ CompleteIfFull(
                        StoreBytes(BeginMessage(d, s, p, now), s,
                                   [cid |-> p.cid, packet |-> 0], InitData), s)
      PROVE  PoolOK(core')
  <2> DEFINE d == [c EXCEPT !.channels[s].timeout_pending = FALSE]
             e == CountIfReady(d)
  <2>1. CoreOK(d) /\ PoolOK(d) /\ Holds(d, s, p.cid)
    BY <1>2, TombstoneClearedOK, TombstonePool
  <2>2. \/ core' = e
        \/ d.phase = "RX" /\ core' = ClearActive(e, TRUE)
        \/ core' = d
        \/ /\ d.phase = "IDLE" /\ Refusal(p) = "NONE"
           /\ CompleteIfFull(
                StoreBytes(BeginMessage(d, s, p, now), s,
                           [cid |-> p.cid, packet |-> 0], InitData), s)
    BY <1>2
  <2> HIDE DEF d
  <2>3. CoreOK(e) /\ PoolOK(e) /\ e.phase = d.phase
    BY <2>1, CountQueueFullOK, CountedPool DEF CountIfReady
  <2> HIDE DEF e
  <2>4. CASE core' = d \/ core' = e
    BY <2>1, <2>3, <2>4
  <2>5. CASE d.phase = "RX" /\ core' = ClearActive(e, TRUE)
    BY <2>3, <2>5, ClearActivePool DEF PoolOK, Exact
  <2>6. CASE /\ d.phase = "IDLE" /\ Refusal(p) = "NONE"
             /\ CompleteIfFull(
                  StoreBytes(BeginMessage(d, s, p, now), s,
                             [cid |-> p.cid, packet |-> 0], InitData), s)
    <3> DEFINE b == BeginMessage(d, s, p, now)
               f == StoreBytes(b, s, [cid |-> p.cid, packet |-> 0], InitData)
    <3>1. p.command \in Request /\ p.len <= MaxPayload
      BY <2>6, CoreAssumption DEF Refusal, InitialPacket
    <3>2. /\ CoreOK(b) /\ b.phase = "RX" /\ b.active_cid = p.cid /\ Holds(b, s, p.cid)
          /\ Exact(b) /\ b.channels[s].received = 0
          /\ b.channels[s].next_sequence = 0
      <4>1. b.channels[s].next_sequence = 0
        <5>1. d \in CoreType /\ d.channels[s] \in Channel
          BY <2>1 DEF CoreOK, CoreType
        <5> QED
          BY <5>1 DEF BeginMessage, CoreType, Channel
      <4> QED
        BY <2>1, <2>6, <3>1, <4>1, BeginMessageOK, BeginMessagePool
    <3>3. /\ [cid |-> p.cid, packet |-> 0] \in Byte
          /\ InitData \in Nat /\ ContData \in Nat /\ 0 \in 0 .. (MaxSeq + 1)
      BY <2>1, ZeroFact, CoreAssumption DEF CoreOK, Unique, Holds, Byte
    <3> HIDE DEF b
    <3>4. /\ CoreOK(f) /\ f.phase = "RX" /\ f.active_cid = p.cid /\ Holds(f, s, p.cid)
          /\ f.channels[s].next_sequence = 0
      BY <3>2, <3>3, StoreBytesOK
    <3>5. \A i \in Int : (/\ b.channels[s].received < i
                          /\ i <= b.channels[s].received + InitData)
                             => PacketOf(i) = 0
      BY <3>2, <3>3 DEF PacketOf
    <3>6. /\ Exact(f)
          /\ f.channels[s].received # f.channels[s].declared_len =>
                f.channels[s].received = b.channels[s].received + InitData
      BY <3>2, <3>3, <3>5, StoreBytesPool
    <3>7. CompleteIfFull(f, s)
      BY <2>6 DEF b
    <3> HIDE DEF f
    <3>8. f.channels[s].received # f.channels[s].declared_len =>
             Counted(f.channels[s])
      BY <3>2, <3>3, <3>4, <3>6 DEF Counted
    <3> QED
      BY <3>4, <3>6, <3>7, <3>8, CompleteIfFullPool
  <2> QED
    BY <2>2, <2>4, <2>5, <2>6
<1> QED
  BY <1>1, <1>2 DEF HandleRequest

\* The k-th continuation packet brings the bytes that follow those of the
\* packets before it.
LEMMA PacketFact ==
    ASSUME NEW k \in Nat, NEW i \in Int,
           InitData + k * ContData < i, i <= InitData + k * ContData + ContData
    PROVE  PacketOf(i) = k + 1
<1>1. InitData \in Nat /\ ContData \in Nat \ {0}
  BY CoreAssumption
<1>2. k * ContData \in Nat
  BY <1>1
<1>3. ~ i <= InitData
  BY <1>1, <1>2
<1> DEFINE r == i - InitData - 1 - k * ContData
<1>4. r \in 0 .. (ContData - 1)
  BY <1>1, <1>2
<1>5. i - InitData - 1 = k * ContData + r
  BY <1>1, <1>2
<1> HIDE DEF r
<1>6. (k * ContData + r) \div ContData = k
  BY <1>1, <1>4
<1> QED
  BY <1>3, <1>5, <1>6 DEF PacketOf

\* A continuation brings exactly the next bytes.
LEMMA HandleContinuationPool ==
    ASSUME NEW c, CoreOK(c), PoolOK(c), now \in Time, NEW p \in Continuation,
           HandleContinuation(c, p)
    PROVE  PoolOK(core')
<1>1. CASE core' = c
  BY <1>1
<1>2. ASSUME NEW s \in Slot,
             core' = [c EXCEPT !.channels[s].timeout_pending = FALSE]
      PROVE  PoolOK(core')
  BY <1>2, TombstonePool
<1>3. ASSUME NEW s \in Slot, Assembling(c, s, p.cid), core' = ClearActive(c, TRUE)
      PROVE  PoolOK(core')
  BY <1>3, ClearActivePool DEF Assembling, PoolOK, Exact
<1>4. ASSUME NEW s \in Slot, Assembling(c, s, p.cid),
             p.sequence = c.channels[s].next_sequence, Assemble(c, s, p)
      PROVE  PoolOK(core')
  <2> DEFINE k == p.sequence + 1
             d == StoreBytes(c, s, [cid |-> c.active_cid, packet |-> k], ContData)
             ch == [d.channels[s] EXCEPT !.last_packet_ms = now,
                               !.next_sequence = d.channels[s].next_sequence + 1]
             e == [d EXCEPT !.channels[s].last_packet_ms = now,
                            !.channels[s].next_sequence = @ + 1]
  <2>1. c.phase = "RX" /\ Holds(c, s, c.active_cid) /\ p.cid = c.active_cid
    BY <1>4 DEF Assembling
  <2>2. /\ k \in 0 .. (MaxSeq + 1) /\ p.sequence \in Nat /\ ContData \in Nat
        /\ InitData \in Nat
        /\ [cid |-> c.active_cid, packet |-> k] \in Byte
    BY <2>1, CoreAssumption DEF CoreOK, Unique, Holds, Byte, Continuation
  <2>3. c.channels[s].received = InitData + p.sequence * ContData
    BY <1>4 DEF Assembling, PoolOK, Aligned, Counted
  <2>4. CompleteIfFull(e, s)
    BY <1>4, <2>1 DEF Assemble
  <2> HIDE DEF k
  <2>5. \A i \in Int : (/\ c.channels[s].received < i
                        /\ i <= c.channels[s].received + ContData)
                           => PacketOf(i) = k
    BY <2>2, <2>3, PacketFact DEF k
  <2>6. /\ CoreOK(d) /\ d.phase = "RX" /\ d.active_cid = c.active_cid
        /\ Holds(d, s, c.active_cid)
        /\ d.channels[s].next_sequence = p.sequence
    BY <1>4, <2>1, <2>2, StoreBytesOK
  <2>7. /\ Exact(d)
        /\ d.channels[s].received # d.channels[s].declared_len =>
              d.channels[s].received = c.channels[s].received + ContData
    BY <2>1, <2>2, <2>5, StoreBytesPool DEF PoolOK
  <2> HIDE DEF d
  <2>8. d \in CoreType /\ d.channels[s] \in Channel /\ DOMAIN d.channels = Slot
    BY <2>6 DEF CoreOK, CoreType
  <2>9. d.channels[s].next_sequence + 1 = k /\ k \in 0 .. (MaxSeq + 1)
    BY <2>2, <2>6 DEF k
  <2>10. /\ ch \in Channel /\ SameRequest(ch, d.channels[s])
         /\ ch.cancel = d.channels[s].cancel
         /\ ch.timeout_pending = d.channels[s].timeout_pending
         /\ ch.next_sequence = k
    BY <2>8, <2>9 DEF Channel, SameRequest
  <2>11. e = [d EXCEPT !.channels[s] = ch]
    BY <2>8 DEF CoreType
  <2>12. SameTransaction(d, e) /\ e.channels = [d.channels EXCEPT ![s] = ch]
    BY <2>8, <2>11 DEF CoreType, SameTransaction
  <2> HIDE DEF ch, e
  <2>13. CoreOK(e)
    BY <2>6, <2>10, <2>11, TouchOK
  <2>14. e.channels[s] = ch /\ Holds(e, s, e.active_cid) /\ e.phase = "RX"
    BY <2>6, <2>8, <2>10, <2>12 DEF Holds, SameRequest, SameTransaction
  <2>15. Exact(e)
    <3>1. ActiveSlot(e) = s /\ ActiveSlot(d) = s
      BY <2>6, <2>13, <2>14, ActiveSlotFact
    <3>2. Held(e) = Held(d)
      BY <2>6, <2>10, <2>14, <3>1 DEF Held, SameRequest
    <3> QED
      BY <2>7, <2>12, <3>2 DEF Exact, OtherExact, SameTransaction
  <2>16. ch.received # ch.declared_len => Counted(ch)
    <3>1. ASSUME ch.received # ch.declared_len
          PROVE  ch.received = InitData + k * ContData
      <4>1. ch.received = InitData + p.sequence * ContData + ContData
        BY <2>3, <2>7, <2>10, <3>1 DEF SameRequest
      <4>2. k * ContData = p.sequence * ContData + ContData
        BY <2>2 DEF k
      <4>3. p.sequence * ContData \in Nat
        BY <2>2
      <4>4. (InitData + p.sequence * ContData) + ContData
               = InitData + (p.sequence * ContData + ContData)
        BY <2>2, <4>3
      <4> QED
        BY <4>1, <4>2, <4>4
    <3> QED
      BY <2>10, <3>1 DEF Counted
  <2> QED
    BY <2>4, <2>13, <2>14, <2>15, <2>16, CompleteIfFullPool
<1> QED
  BY <1>1, <1>2, <1>3, <1>4 DEF HandleContinuation

\* Taking the message wipes its buffer.
LEMMA TakenPool ==
    ASSUME NEW c, CoreOK(c), PoolOK(c), c.message_ready
    PROVE  PoolOK(Taken(c))
<1> DEFINE d == Taken(c)
<1>1. /\ d.rx_buffer = c.rx_buffer /\ d.phase = c.phase
      /\ d.active_cid = c.active_cid /\ d.active_command = c.active_command
      /\ d.channels = c.channels /\ d.message_ready = FALSE
      /\ d.buffers = [c.buffers EXCEPT ![c.complete.buffer] = Zeroed]
  BY DEF Taken, CoreOK, CoreType
<1> HIDE DEF d
<1>2. /\ d.buffers[1 - c.rx_buffer] = Zeroed
      /\ d.buffers[c.rx_buffer] = c.buffers[c.rx_buffer]
  BY <1>1, BufferFact
<1>3. Held(d) = Held(c)
  BY <1>1 DEF Held, ActiveSlot, Holds
<1>4. PoolOK(d)
  BY <1>1, <1>2, <1>3 DEF PoolOK, Exact, OtherExact, Aligned
<1> QED
  BY <1>4 DEF d

\* A wiped core has a wiped pool.
LEMMA PoolInit == PoolOK(CoreInit)
<1>1. /\ CoreInit.phase = "IDLE" /\ CoreInit.active_command = "NONE"
      /\ \A b \in BufferIds : CoreInit.buffers[b] = Zeroed
  BY DEF CoreInit
<1> QED
  BY <1>1, CoreInitOK, IdlePool

\* The pool stays exact.
LEMMA PoolStep ==
    IInv /\ IInv' /\ PoolOK(core) /\ [Next]_coreVars => PoolOK(core)'
<1> SUFFICES ASSUME IInv, IInv', PoolOK(core), [Next]_coreVars
             PROVE  PoolOK(core')
  OBVIOUS
<1> DEFINE c == Cleanup(core, now)
<1>0. CoreOK(core) /\ CoreOK(core') /\ now \in Time
  BY IInvFact DEF IInv, TypeOK, UniqueCids, TransactionOwned, FlagsInScope, CoreOK
<1>1. CoreOK(c) /\ PoolOK(c)
  BY <1>0, CleanupOK, CleanupPool
<1>2. ASSUME NEW p \in InitialPacket, Step(FeedInitial(p), p.cid)
      PROVE  PoolOK(core')
  <2>1. HandleCancel(c, p) \/ HandleInit(c, p) \/ HandleRequest(c, p)
    BY <1>2 DEF Step, FeedInitial
  <2> HIDE DEF c
  <2> QED
    BY <1>0, <1>1, <2>1, HandleCancelPool, HandleInitPool, HandleRequestPool
<1>3. ASSUME NEW p \in Continuation, Step(FeedContinuation(p), p.cid)
      PROVE  PoolOK(core')
  <2>1. HandleContinuation(c, p)
    BY <1>3 DEF Step, FeedContinuation
  <2> HIDE DEF c
  <2> QED
    BY <1>0, <1>1, <2>1, HandleContinuationPool
<1>4. CASE Step(PeriodicCleanup, NoReport)
  BY <1>1, <1>4 DEF Step, PeriodicCleanup
<1>5. CASE Step(TakeMessage, NoReport)
  BY <1>0, <1>5, TakenPool DEF Step, TakeMessage
<1>6. ASSUME NEW cid, NEW gen, Step(FinishResponse(cid, gen), NoReport)
      PROVE  PoolOK(core')
  BY <1>0, <1>6, ClearActivePool
     DEF Step, FinishResponse, Finished, Current, PoolOK, Exact
<1>7. ASSUME NEW cid, NEW gen, Step(ClearCancel(cid, gen), NoReport)
      PROVE  PoolOK(core')
  <2>1. \/ core' = core
        \/ /\ core.phase # "IDLE"
           /\ core' = [core EXCEPT !.channels[ActiveSlot(core)].cancel = FALSE]
    BY <1>7 DEF Step, ClearCancel, CancelCleared, Current
  <2> QED
    BY <1>0, <2>1, ActiveSlotFact, CancelPool
<1>8. CASE Step(CoreReset, NoReport)
  <2>1. core' = CoreInit
    BY <1>8 DEF Step, CoreReset
  <2> QED
    BY <2>1, PoolInit
<1>9. CASE Tick
  BY <1>9 DEF Tick
<1>10. CASE UNCHANGED coreVars
  BY <1>10 DEF coreVars
<1> QED
  BY <1>2, <1>3, <1>4, <1>5, <1>6, <1>7, <1>8, <1>9, <1>10 DEF Next

\* Every byte of the pool is accounted for, for any lengths of requests and
\* packets: assembled in order, whole in a waiting message, wiped elsewhere.
THEOREM BuffersTheorem == Spec => []BuffersExact
<1>1. Init => PoolOK(core)
  BY PoolInit DEF Init
<1>2. IInv /\ PoolOK(core) => BuffersExact
  BY DEF PoolOK, Exact, OtherExact, Held, BuffersExact
<1> QED
  BY <1>1, <1>2, Invariance, PoolStep, PTL DEF Spec
=============================================================================
