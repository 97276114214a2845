# Verification of the ESP32-P4 2FA key firmware

TLA+ specifications of the firmware under `src/`, the TLC runs that check them
on small instances, and proofs that TLAPS checks for every value of the
constants.  `PROJECT.json` lists the components, runs, mutants, findings,
hazards and theorems, and maps every definition to the lines it models.

## The system

The device is a FIDO2 authenticator.  A report from the host takes this way:

    host -> tinyusb task (p4_usb: usb_event, tud_hid_set_report_cb)
         -> receive queue -> transport task (p4_ctaphid: transport_task)
         -> protocol core (p4_ctaphid_rx/chan) -> waiting message
         -> request task (main/ctap_stub: hid_take_msg, p4_ctap_dispatch)
         -> handlers (p4_ctap, p4_press, p4_cred, p4_crypto)
         -> hid_send_msg -> fragmenter (p4_ctaphid_tx) -> p4_usb -> host

| component | state it keeps | operations | what is hard |
|---|---|---|---|
| protocol core (`p4_ctaphid_rx.c`, `_chan.c`, `_time.c`) | `p4_ctaphid_core_t`: four channels, two buffers, phase, active CID, waiting message | feed, cleanup, take, finish, cancelled, clear_cancel, reset | interleaved packets of several CIDs, resynchronisation, late packets, wrapping clock and generation, buffer reuse |
| transport (`p4_ctaphid.c`) | claim, two USB generations, reset flag and epoch, core mutex, wake semaphore | transport_task, hid_take_msg, hid_send_msg, hid_keepalive, hid_cancelled, hid_reset_all | three tasks and the USB callbacks; generations read outside the lock; lock waits that fail |
| fragmenter (`p4_ctaphid_tx.c`) | none | p4_ctaphid_tx_send | stops in the middle of a message |
| USB driver (`p4_usb.c`, `p4_usb_queue.c`) | mounted, ready, generation, receive queue | usb_event, set_report callback, usb_take_with_generation, usb_send_for_generation, usb_drop_pending | bus events at any moment; test and use of the generation |
| request task (`main/ctap_stub.c`) | none between requests | take, dispatch, respond | ignores the result of its response |
| user presence (`p4_press.c`) | one sampling loop per request | press_wait | release first, debounce, cancel, timeout |
| wrapping root (`p4_root.c`) | `s_root_ready`, `s_root_failed`, the blob in NVS | p4_cred_init, p4_root_load | power cuts, failing flash |
| credential IDs (`p4_cred.c`) | none | cred_wrap, cred_open | secrets cleared on every path |
| commands (`p4_ctap*.c`) | none between requests | dispatch, makeCredential, getAssertion, getInfo | a dozen fallible steps with cancel checks between them |
| CBOR (`p4_cbor.c`) | reader and writer cursors | get, put, skip | bounds, nesting |
| cryptography (`p4_crypto*.c`) | PSA key slots | seal, open, make, sign, ... | slots over failing calls |

The transport task and the request task meet in the core, under
`s_core_mutex`; the tinyusb task and both of them meet in the statics of
`p4_usb.c`, under a spin lock; the generation counter of `p4_usb.c` ties
reports, messages and responses to one connection of the host.

What makes a component correct:

- core: one transaction owns the transport; a packet of one CID never changes
  the channel or the transaction of another; bytes go to the request that sent
  them, in order, and nowhere else; a flag never outlives its request; a request
  that stalls is dropped after the timeout and not before;
- transport: a response only ever answers the request it was made for; a
  request of an old connection is never worked on; every transaction has
  somebody who ends it (two steps excepted, see `OrphansOnlyBy`), and is ended;
  a wake-up is never lost; a cancelled
  request is never answered with a result; messages never mix on the bus;
- USB driver: a report of one connection is never sent on another.
- user presence: a press counts only if it was made, and debounced, during the
  request; a press that was made is not overlooked; a cancel is noticed at once;
- wrapping root and credential IDs: no credential is ever sealed under a root
  that the next power cut takes away; a failure is not mistaken for "not my
  credential", with one exception in the code (below, at `Vault`); buffers are
  clear after every call;
- commands: nothing that takes the user's consent comes before it; the answer
  is the one that the credentials recognised in the list call for; a cancel stops the work; nothing is
  left behind on any path;
- CBOR and requests: however a message nests and whatever is skipped, reader and
  message stay in step; the verdict on a request does not depend on the order of
  its keys; no head has two accepted forms;
- cryptography: no success while the call's key is still in the library; no path
  forgets a slot; a wrong tag is never accepted, whatever else fails.

## Modules

| module | models | extends |
|---|---|---|
| `CtapHidCore` | the protocol core and the report it is fed | |
| `CtapHidCore_proofs` | theorems about the core | `CtapHidCore`, `TLAPS` |
| `CtapHid` | transport, USB driver, request task and a caller of `hid_reset_all` around the core | `CtapHidCore` |
| `RequestService` | what all of that promises a host: the abstract specification `CtapHid` implements | |
| `CtapHid_proofs` | theorems about the transport, and the refinement | `CtapHid`, `CtapHidCore_proofs` |
| `CtapHidOwner_proofs` | theorems about who ends what in it | `CtapHid_proofs` |
| `Press` | `press_wait` with the cancels of the transport beside it | |
| `Press_proofs` | theorems about it | `Press`, `TLAPS` |
| `Cred` | `app_main`'s start-up, the root in NVS, `cred_wrap`, `cred_open`, power cuts | |
| `Vault` | what all of that promises: the abstract specification `Cred` implements | |
| `Cred_proofs` | theorems about it, and the refinement | `Cred`, `TLAPS` |
| `Ctap` | the request task's dispatch, makeCredential, getAssertion, the response | |
| `Authenticator` | what a request is promised: the abstract specification `Ctap` implements | |
| `Ctap_proofs` | theorems about it, and the refinement | `Ctap`, `TLAPS` |
| `CtapRequest` | `read_request` of both commands over the CBOR reader | |
| `CtapRequest_proofs` | theorems about it | `CtapRequest`, `SequenceTheorems`, `FiniteSetTheorems`, `TLAPS` |
| `KeySlots` | the PSA key slots over the gcm and p256 calls | |
| `KeySlots_proofs` | theorems about it | `KeySlots`, `TLAPS` |
| `MCCtapHidCore`, `MCCtapHid`, `MCPress`, `MCCred`, `MCCtap`, `MCCtapRequest`, `MCKeySlots` | instances for TLC | |

### CtapHidCore

`core` is `p4_ctaphid_core_t` field by field, `action` the
`p4_ctaphid_action_t` of the last feed, `now` the clock passed in.  Each helper
of the source that changes the core is an operator on core records
(`ClearActive`, `BeginMessage`, `Cleanup`, ...), each handler an action
(`HandleInit`, `HandleCancel`, `HandleRequest`, `HandleContinuation`), and
`FeedInitial`/`FeedContinuation` are `p4_ctaphid_core_feed` with the cleanup
that opens it.  A payload byte is the packet it came in (`[cid, packet]`),
which is what the properties about bytes tell apart; report layout, nonce and
version bytes are left out.  The random source may yield any unused CID or
fail.  Two history variables: `fed`, the CID of the last report, and `silence`,
the true time since the last accepted packet, against which the wrapping clock
is measured.

### CtapHid

One action per stretch of code that no other task can look into: a critical
section of `s_core_mutex` is one action, unless it sends reports (each report
is one to three actions, `Emit`, `Check`, `Put`, with the mutex held) or reads
the state of `p4_usb.c` more than once (`TakeAllowed`/`Claim`,
`LockForReport`/`Admit`/`FeedReport`), because USB events come in between.
`pc` is where each task is; its values name the next piece of code.  USB events
happen at any time and in any order.  A lock wait may fail for the tasks in
`Impatient`, though only while another task is sending, since nothing else
holds the mutex for as long.  There is one history variable, `last`: who sent
the last report, and whether it was of an earlier connection.

The handler of a request is one decision of the consumer: ask for a keepalive
or respond (`Work`).  A handler stops at a keepalive that failed, as
`press_wait` does.

The core inside the transport is the module `CtapHidCore` itself.  That every
step of every task is a step of the core's specification or leaves it alone is
a theorem (`CoreRefined`: `HidSpec => Spec`), so what is proved of the core
holds in the transport as well.

### RequestService

The abstract specification has no tasks, channels, locks, claims or USB: a
request is waiting or taken, it may be cancelled or given up, a message to its
host is on its way or not.  `CtapHid` implements it (`ImplementsService`) under
the mapping at its end: `Stage` is read off phase, command and `message_ready`
of the core, `ServedHost` is the active CID, `ServedCancelled` the cancel flag
of its channel, and `OnItsWay` the message that the consumer is sending.  What
the mapping leaves out, the transport task's own replies and PING, is what
`RequestService` says nothing of.  That an answer carries the host's own
request, at most once, that nothing is answered after it was given up, and that
a cancel which came before the answer shows in it are then no properties of
their own: a step that broke one would be no step of `RequestService`.

### Press

One action per call `press_wait` makes to the board or to the transport, so
that a cancel may arrive between any two of them.  Times are counted in samples
of `PRESS_SAMPLE_MS`; `stable`, `elapsed` and `need_release` are the locals of
the loop.  `hid_cancelled` may answer TRUE to any request, since it does so
when it does not get the core mutex; it never answers FALSE to a cancelled one:
that no step of the transport takes a cancel back while the request is worked on
is a theorem about `CtapHid` (`CancelStaysTheorem`).  History: `readings`, every
level the call read, in which the properties look for a press, and `late`, the
samples taken since the cancel.

### Cred

A boot runs `app_main`: `crypto_init`, `p4_cred_init`, then the tasks
(`hid_start`, `p4_ctap_stub_start`), and stops at the first failure, so that no
request is served before the root is there.  `stored` is the blob that NVS shows now, `flash` the one that a power cut leaves:
`nvs_set_blob` changes the first, `nvs_commit` makes the second agree, and until
then, or when either call fails, a cut may keep or lose the write.  A credential
ID is the record of the root, relying party and scalar it was sealed with, and it
opens under that root only; one the host altered, or made elsewhere, has
`ForeignRoot`.  `pc` is the step of the one call in progress (the request task
is the only caller), and `PowerCut` may come before any step.  `answer` holds
the last call's arguments and result, `creds` every credential ID handed out,
which the host keeps for ever.  Whether the library accepts the scalar that was
decrypted is a choice of `Compare`: `p256_pub` returns `P4_CRYPTO_KEY` for an
invalid scalar, and also when PSA answers one of its steps with INVALID_ARGUMENT
or DATA_INVALID; `cred_open` makes MISMATCH of it.  The field `refused` of an
answer, which the code does not have, says that this happened.

### Vault

The abstract specification has no NVS, buffers or steps: a key is found once and
kept, a credential ID is issued under it with the relying party and scalar that
were asked for, and an ID that is shown is revealed, disowned or the call fails.
`Cred` implements it (`ImplementsVault`) with `flash` for the key and `creds` for
the IDs issued, so that the key is the one that survives every power cut, and
`nvs_commit`, or the cut that happens to keep an uncommitted write, is the step
that finds it.  The rest of a start-up and of a call is stuttering.  An ID is
disowned if this device never issued it for this relying party: a failing tag
check, a failing library and a wrong relying party must not be confused.  There
is one exception, `Mistake`: an ID of this device, shown by its own relying
party, is disowned when the library refuses the scalar in it
(`p4_cred.c:203-206`).  The exit is deliberate (`cred_wrap_test.c` tests it with
a scalar of zero, which no `cred_wrap` seals), but a failure of the library that
PSA reports as INVALID_ARGUMENT or DATA_INVALID takes it as well, and then a
credential the device did make is disowned.  `MismatchHonest` says that there is
no other way.
What it does not say is when the buffers are cleared (`BuffersCleared`).

### Ctap

`pc` follows the two commands step by step; each step may fail, and failing is
`Leave`, the label `out` of both functions with what `p4_ctap_dispatch` does
with the status.  The waiting for the button is one step here, of which module
`Press` gives what is assumed of it, and so is `cred_open`, of which `Cred`
does.  The CBOR reader is a choice: an error, or one of `Lists`, the descriptors
of the exclude or allow list.  One of this device's credentials may be answered
MISMATCH too (`Opens`), as `Cred` shows; `check_exclude` and `find_cred` then go
on, so that an excluded credential is made again or an allowed one passed over.
A scalar is named by the credential it belongs to,
a signature by the scalar.  `cancelled` and `gone` are changed by the transport
at any point and read through `Answers`.  History: `presence`, `sent`, `late`,
the operations begun after a cancel, and `overlooked`, the places in the list at
which a credential of this device was disowned.

### Authenticator

The abstract specification has no steps, work area or failing calls: there is a
request with its list of credentials, the user may consent to it, it may be
cancelled or given up, and it is told at most one thing.  `Granted` says what a
request may get and `Refused` with what it may be turned down, both from the
list, the consent and the cancel alone.  The device may overlook one of its own
credentials in the list before it asks the user (`Overlook`); what the list calls
for is then told by the rest of it (`Recognised`), and nothing else changes.
`Ctap` implements it
(`ImplementsAuthenticator`) with `pc # "idle"` for a request being served, `gone`
for one given up, `presence` for the consent and `sent` for what was told.  So
the order of the steps of both commands, the early returns and the statuses they
leave with, the choice of the credential and the last decision of the transport
are all compared with one description of the outcome.  What it leaves out is
what happens on the way: that nothing is made or signed before the consent
(`PresenceFirst`), that the work stops at a cancel (`CancelStopsWork`), and what
stays in memory (`NothingLeft`).

### CtapRequest

The message is chosen head by head as the reader meets it, so that every
message over the given heads is read.  A head has its real major, form and
argument, and every limit of the reader is compared as in the code; of a string
only its length is kept and which of the keys or types it is, which is all the
code looks at.  The nested loops (map of the request, list, descriptor) are a
stack of frames, one for every open map or array, and the recursion of
`p4_cbor_skip` a stack of counters.  The end of the message in the middle of an
item fails the same call as a head that is refused, and so it is one here; the
sticky `failed` flag of the reader is left out because every caller returns at
the first failure.  Of `request` the two flags are kept that the order of the
keys could lose.  History: `owed`, the items that the heads read so far announce
and that have not come; `said`, what the message has said whatever the code made
of it; `strict`, whether every head was in the shortest form.

### KeySlots

`pc` is the step of the one call in progress; `status` is the local of that name,
`key_id` and `check_id` the slots the call holds (`None` when not live).  The gcm
calls free their slot themselves after a good result (`Destroy`) and through
`seal_fail`/`open_fail` after a bad one (`Abort`, then `Drop`); the p256 calls
always through `p4_crypto_key_drop` (`Drop`, `Retry`), which p256_make calls for
two slots.  The library is external: it may fail at any call, and a failed
`psa_destroy_key` may or may not have freed the slot, which is why the code tries
twice.  History: `mine`, `tries`, `verdict`.  Of the status values three are told
apart: success, a wrong tag or signature, any other error.

## Runs

| run | bounds | what it shows |
|---|---|---|
| `core` | 3 CIDs for 2 channels, payloads up to 4 of up to 3 packets, lengths to 5, generations mod 2, clock mod 3, timeout 2 | the safety of the core; three CIDs are an active one, a rival with a channel and one without; three packets are first, middle and last; every wrap happens |
| `core_live` | 2 CIDs, 2 channels, requests of up to 2 packets | a stalled request ends |
| `core_wrap` | 1 CID, generations mod 3 | finding: the generation reaches 0 |
| `transport` | 1 CID, 1 channel, requests of one packet (INIT, CBOR, CANCEL), queue of 1, 2 connection changes, responses of 2 reports, `hid_reset_all`, all lock waits may fail | the safety of the transport under every interleaving, that it implements `RequestService`, and which steps may leave a request to nobody |
| `transport_hosts` | 2 CIDs on 2 channels, CBOR in two packets from one that also starts over, PING from the other, generations mod 2 so that they wrap, 1 connection change, lock waits of the transport task and of the consumer may fail | which steps may leave a request to nobody, with a rival host, with aborted requests and with PING: a response given up and a PING of generation 0, no other |
| `transport_live` | 1 CID, allocation and CBOR only, 2 connection changes, responses of 1 report, `hid_reset_all`, lock waits of the transport task and of `hid_reset_all` may fail | every transaction ends; a published reset happens |
| `transport_held` | as `transport` | finding: a report of an old connection reaches the bus |
| `press` | 3 samples of debounce, 9 of timeout, a keepalive every 3 | every sequence of levels: a press and the release before it just fit (3 + 3 of 9), or just do not, with bounces between |
| `cred` | 2 roots, 2 relying parties, 2 scalars, which the library may refuse | a second root could replace the first; a credential asked for under the wrong name; any number of power cuts; that it implements `Vault` |
| `key_slots` | 3 slots | p256_make holds two at once; after calls that could not free theirs the store is full |
| `ctap_request` | messages of up to 5 pairs, containers of up to 4 items, depth of skipping 1, lists of 1; the two longest forms scaled to 65536 and 65537 | duplicates first and last, known and unknown items alternating at two depths, every boundary of a form from both sides, every limit met and passed |
| `ctap` | 2 own credentials, lists of up to 3 descriptors | a match first, last, twice, or between foreign and skipped ones, any of them overlooked; every request ends; that it implements `Authenticator` |

Bounds named in the modules: `MaxLen`, `MaxSeq`, `MaxUsbGen`,
`ResponseReports`, `HostReport`, `Heads`, `TopPairs`, `NestedItems`; the `silence` of a request stays below one
round of the clock, since the core is polled every 25 ms.  Generations, clock and lengths keep the arithmetic of the source over small moduli.
The CIDs are symmetric in `core`; the views leave out variables that no step
reads.

Every property of a passing run has a mutant of the code in `PROJECT.json`,
with which TLC finds it violated.

### Fairness

`core_live` assumes that the clock goes on and that the transport task polls
the core, which it does every 25 ms.  `FairHid` assumes strong fairness of the
transport task, of the request task, of the end of a handler's work and of a
report's transmission: FreeRTOS runs both tasks, each waits 10 to 1000 ms
between its uses of the mutex, so the other gets it again and again; a report
the host does not fetch fails after 250 ms; a handler ends at the latest when
`press_wait` times out after 30 s.  Nothing is assumed of hosts and bus.
`FairSpec` of `Ctap` assumes weak fairness of the request task's own steps
(`Command`) for the same reasons: every wait for the core mutex has a limit, and
`press_wait` ends.

### Findings

- `PingTokenNonZero`: after 2^32 requests on a channel its generation is 0,
  which `transport_task` takes for a reply without a transaction; the PING is
  answered and never finished (`WrappedPing` in the transport).
- `HeldReportsEnd`: `usb_send_common` tests the generation under `s_lock` and
  hands the report over after it, so a suspend and resume in between lets a
  report of the old connection out on the new one.

## Proofs

`CtapHidCore_proofs` proves, for every value of the constants that satisfies
`CoreAssumption` (a timeout shorter than the clock's round, CIDs that are
neither 0 nor broadcast), that `Spec` implies `[]TypeOK`, `[]UniqueCids`,
`[]TransactionOwned` and `[]FlagsInScope`.  The four are inductive only
together: `IInv` is their conjunction.  Freeing or finishing a request writes
through `ActiveSlot(c)`, a CHOOSE that is the right channel only if CIDs are
unique (`UniqueCids`) and the active CID has a channel (`TransactionOwned`);
that a taken message belongs to the request in processing needs the waiting
message to agree with the channel; and a cancel flag is dropped in time only
because the active channel is known.  The lemmas follow the helpers of the
source: each states that a helper keeps the invariant on core records, and one
step per handler combines them.  `Outcome` says what a report does to the
transaction of the core: one in processing goes on (`Continues`) or is aborted,
and only a report that finds none completes a new one (`Completed`).  It is what
the proofs about the transport use of the core.

Three more properties of the core rest on `IInv`.  `NonInterference`: most of a
handler's work is done in the slot of the sender (`OnlySlot`), and it touches
the transaction only when that is the sender's or there is none (`OwnerSpares`).
`TimeoutExact`: the time stamp of a request being assembled is `silence` old,
modulo the clock (`Stamped`), because a channel that still assembles after a
report is unchanged or has just been stamped (`Punctual`).  `BuffersExact`: by
itself it is not inductive, since where the next packet's bytes go depends on
how many were received; `Aligned` adds that a request still lacking bytes has
received exactly those of its `next_sequence` continuations, so that the bytes of
packet k land at the positions `PacketOf` gives to k (`PacketFact`), for any
packet sizes.

`CtapHid_proofs` assumes no more than `CoreAssumption` and
`TransportAssumption`.  Its invariant `HidInv` joins `IInv` to the types of the
tasks, to where each task holds the core mutex (`LockOK`), and to what a task
may assume of its message while it holds it: the transport task ends a
transaction only if that is the PING it echoes (`ReplyOK`), the consumer's
message is for the transaction in processing (`AnswerOK`), and whose message has
begun has put the last report on the bus (`BusOK`).  From it follow
`CoreRefined` (and so the core's theorems, `CoreInTransport`), `ClaimCurrent`, `NoInterleaving` and the refinement
`ServiceImplemented`: where the consumer sends nothing, all that matters of a
step is what it does to the request served, which `Outcome` tells; where it
sends, the core stands still until the message is over, and each of its steps is
one of `RequestService`'s.

`CtapHidOwner_proofs` proves `MessageOfConnection`, `NoLostWake`, `OrphansOnlyBy`
and `CancelStays`.  `ConnInv` is what the tasks know of the connection: no
generation that was read is newer than the one of `p4_usb.c`; if the core was
reset behind the transport task's back it stays idle until the task has looked;
the report that is fed, the message that waits and the claim are of the
connection the core was last reset for.  `NoOrphan` says that a request in
processing waits for the consumer, is being worked on by the one that claimed it,
is a PING in the transport task's hands, or has a reset due; a claim that nobody
works on is no owner.  It is not an invariant: `hid_send_msg` waits one second for
the mutex and then returns with the claim and the transaction as they are, and
nobody looks at its result (`GivesUpResponse`), and a PING whose generation has
wrapped is never finished (`WrappedPing`).  `OrphansOnlyBy`, which assumes nothing
of who gives up waiting, says that of all steps of all tasks, the host and the bus
these two are the only ones that can orphan a request; `NoOrphanTheorem` is the
corollary that in a behaviour without them none ever is.  The proof goes through
`ClaimWorked`, that a claim has its worker or a reset that is due, which each
step but the first of the two keeps.  `CancelStays`
is what `Press` and `Ctap` assume of the transport: once `hid_cancelled` says
that a request is cancelled it goes on saying so until the consumer is done with
it.  It may say so because a reset was published, the claim is gone, the
connection has changed or the host sent a CANCEL, and each is kept for a reason
of its own: the refinement of `RequestService` for the flag
of a CANCEL, `ConnInv` and `ClaimCurrent` for the others.

`Press_proofs` proves `FreshPress`, `PressNotMissed` and `CancelPrompt` for every
debounce time, timeout and keepalive period.  The inductive invariant says what the locals
remember of `readings`: the last `stable` samples are at the wanted level and the
one before them is not (`Counted`); `need_release` is set exactly while the button
was down at the call and no debounced release has been read (`Released`); and
while the loop runs no press has been seen.  For the cancel, `LateInv` bounds the
samples taken since it by the place in the loop.  `CallShortens` gives a variant:
every step of the call lowers `StepsLeft`, which is never more than
`3 * Timeout + 4`, so that `press_wait` cannot go round for ever whatever button
and transport do.

`Cred_proofs` proves `CredsOpenable`, `RootPermanent`, `OpenSound`,
`MismatchHonest` (with its one exception) and `BuffersCleared` for any sets of
roots, relying parties and scalars.  The invariant behind the first two (`RootInv`): a root is made only while the flash
has none, once it has one NVS shows that one, calls are served only then, and the
root a call seals or opens with is the one in the flash.
`BufferInv` says for every step of a call which of the buffers may be in use.
What is assumed of NVS is in `Cred`: a committed blob stays.  For the refinement
(`VaultImplemented`) the invariant of `OpenSound` is strengthened: what
`cred_wrap` has sealed is what it was asked for, under the root in the flash
(`SealedAsAsked`).  Only then is the step that hands an ID out one of `Vault`'s
`Issue`.

`CtapRequest_proofs` proves `HeadsCanonical` for all four boundaries of the
forms, and `KeysOnce`, `InStep` and `VerdictRight` for messages of any size and
nesting.  `KeysOnce`: the keys whose values a frame has read are among those it
has noted, in every open frame (`OnceInv`).

`InStep` compares the one number `owed` with a sum over the stack of frames and
one over the stack of the skip.  The sums are recursive functions (`Running`),
whose equations a prover has to earn: `SumsExist` shows by induction on the
length that the equations have a solution, and `RunningDef` that `Running` is
one.  The library's induction theorems take an operator as a parameter, which
the provers cannot instantiate, so `SetInduction` derives the induction that is
needed, for a set of numbers, from the order of finite sets by strict inclusion,
which the library proves well-founded.  The rest is what one
step does to a sum: a value that begins takes one item off the innermost frame
(`BegunLeft`), a container that opens adds what its head announces
(`OpenedLeft`), levels of a skip that are done are zeros (`UnwoundTotal`).  What
makes it inductive is `StepInv`: in a map at most one key waits for its value,
and in an array none does.

`VerdictRight` compares the verdict with `said`, which knows nothing of flags
and of the order of keys.  It follows from `VerdictInv`: a key noted as seen has
had its value read or is the one that waits for it; only the innermost frame can
be an entry of the list of algorithms, so that nothing else is lost when an entry
begins or ends; and the flags of the request and of that entry are what the
message has said so far.

`Ctap_proofs` proves `PresenceFirst`, `CancelStopsWork`, `NothingLeft` and
`ImplementsAuthenticator` for any credentials and lists of any length.  `IInv` has
a part for the list (what `excluded` and `index` say of the descriptors seen and
recognised; only those seen are overlooked), one
for the work area at every label of both commands, one for presence, and one for
the answer decided (`Right`), which says that it is the one the recognised
credentials of the list call for.
`LateInv`, for the cancels, and `BodyInv`, for the body of a response, stand
alone; the latter assumes that a body is something (`BodyAssumption`).  From these
follow two results no run needs to check any more: `ListRespected`, the list part
of the contract, and `BodyOnlyIfWanted`, that a response has a body only if it is
whole and was not cancelled when the transport decided.

The refinement (`AuthenticatorImplemented`) rests on `PromiseInv`: the answer
that is decided at `send` is one the contract allows; there is no consent until
`press_wait` has ended well; from `press` on getAssertion's credential is the first
of this device's recognised in the list.  A command may leave from every label with a status
of its own, so the first part takes a case for every failing step.  All steps but
the choice of the next request, the overlooking of a credential, the press, the
cancels and the sending map to stuttering.

`RequestShortens` is the safety half of `CommandEnds`: every step of the task
lowers `StepsLeft`, which is never more than twelve and one for every descriptor
of the list, and no step of the transport raises it.  The other half, that the
task can always take a step, needs ENABLED and stays with TLC.

`KeySlots_proofs` proves `KeySlotsTypeOK`, `OkMeansReleased`,
`LeftOnlyIfRefused`, `VerdictKept` and `NothingWithoutOk` for a store of any size.  The invariant: a slot that holds a key
is named by `key_id` or `check_id` of the running call or was refused twice
(`Accounted`); while the status is good no slot of the call has got lost (`Owned`);
the status is good up to the first error, and a bad verdict keeps it an error
(`Course`).

Only model-checked: the liveness properties `PartialEnds`, `TransactionEnds`,
`ResetHappens` and `CommandEnds`, since TLAPS reaches neither fairness nor
ENABLED.  Every other property of a passing run is a theorem.

## Not modelled

The list with reasons is in `PROJECT.json`.  Cryptography is the PSA library's;
descriptors, GPIO and logging keep no state worth a model; `usb_take`,
`usb_send` and the fixed exchange of `app_main` belong to a bring-up build.

## Plan

1. Fragmenter: the bytes of `p4_ctaphid_tx_send` and the core's reassembly as
   inverses.
2. The writer of `p4_cbor.c`: its overflow flag, and that no answer of a command
   reaches it.
