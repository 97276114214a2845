----------------------------- MODULE MCCtapHid -----------------------------
(* A small instance of CtapHid for TLC: requests of one report. *)
EXTENDS CtapHid, TLC

Report(cid, command, len) == [cid |-> cid, command |-> command, len |-> len]

\* An INIT that allocates, and what a host sends on an allocated channel.
OnChannel(cid) == {Report(cid, "INIT", NonceLen), Report(cid, "CBOR", 1),
                   Report(cid, "CANCEL", 0)}
MCHostReport ==
    {Report(Broadcast, "INIT", NonceLen)} \cup UNION {OnChannel(c) : c \in Cid}

\* Enough for requests that are only ended by their response or by a reset.
MCOnlyRequests ==
    {p \in MCHostReport : p.command = "CBOR" \/ p.cid = Broadcast}

\* One host sends requests of two packets, which may stay incomplete,
\* and starts over; the others ping.
Restless == CHOOSE c \in Cid : TRUE
MCTwoHosts ==
    {Report(Broadcast, "INIT", NonceLen), Report(Restless, "INIT", NonceLen),
     Report(Restless, "CBOR", 2),
     [cid |-> Restless, sequence |-> 0]}
      \cup {Report(c, "PING", 1) : c \in Cid \ {Restless}}

\* No step reads action or fed, and last.late only matters to HeldReportsEnd.
MCView == <<core, now, silence, usb, hid, mutex, wake, pc, got, work, tx,
            last.task>>
=============================================================================
