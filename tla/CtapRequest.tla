---------------------------- MODULE CtapRequest ----------------------------
(***************************************************************************)
(* How authenticatorMakeCredential and authenticatorGetAssertion read      *)
(* their request: read_request of p4_make_credential.c and of              *)
(* p4_get_assertion.c over the reader of p4_cbor.c.                        *)
(*                                                                         *)
(* The message is chosen head by head as the reader meets it.  The heads   *)
(* have their real arguments and bounds; of strings only the length and    *)
(* what the code compares them with are kept.  The nested loops of the     *)
(* code are a stack of frames, one for every open map or array, and the    *)
(* recursion of p4_cbor_skip a stack of counters.                          *)
(***************************************************************************)
EXTENDS Naturals, SequencesExt

CONSTANTS
    Heads,        \* bound: the heads hosts send, [major, form, arg]
    Top,          \* the largest argument of a head with 0, 1, 2, 4, 8 bytes
    IntMax,       \* INT64_MAX
    MaxItems,     \* P4_CBOR_MAX_CONTAINER_ITEMS
    MaxBytes,     \* P4_CBOR_MAX_BYTES
    MaxDepth,     \* P4_CBOR_MAX_DEPTH
    MaxList,      \* P4_CTAP_MAX_CREDENTIALS_IN_LIST
    MaxSeen,      \* the keys the word seen has bits for, 32
    HashLen,      \* P4_CRYPTO_SHA256_LEN
    TopPairs,     \* bound: the pairs of a message
    NestedItems   \* bound: the items of the containers in it

Form == 1 .. 5    \* the additional information: direct, 24, 25, 26, 27

ASSUME RequestAssumption ==
    /\ Top \in [Form -> Nat]
    /\ \A f, g \in Form : f < g => Top[f] < Top[g]
    /\ Heads \subseteq [major : 0 .. 7, form : Nat, arg : Nat]
    /\ \A h \in Heads : h.form \in Form => h.arg <= Top[h.form]
    /\ {IntMax, MaxItems, MaxBytes, MaxDepth, MaxList, MaxSeen, HashLen,
        TopPairs, NestedItems} \subseteq Nat

VARIABLES
    cmd,      \* the command whose request is read
    frames,   \* the maps and arrays that are open, the innermost last
    skip,     \* p4_cbor_skip: the items left at every level of the recursion
    request,  \* es256 and unsupported_option of the request structure
    status,   \* "START", "READING", "JUDGE" or what read_request returns
    owed,     \* history: the items the heads so far announce and that are
              \* still to come
    said,     \* history: what the message has said so far
    strict    \* history: every head was as writer_head would write it

vars == <<cmd, frames, skip, request, status, owed, said, strict>>
-----------------------------------------------------------------------------
(* Heads of items: reader_head and writer_head of p4_cbor.c. *)

\* Mutant: 2^8 - 1, 2^16 - 1, 2^32 - 1 pass in the longer form.
AcceptsBoundary(h) ==
    h.form \in Form /\ (h.form > 1 => h.arg >= Top[h.form - 1])

\* A longer form for an argument that fits the next shorter one is refused,
\* and so are the reserved forms.
Accepts(h) ==
    h.form \in Form /\ (h.form > 1 => h.arg > Top[h.form - 1])

\* The form writer_head gives to an argument.
Written(arg) ==
    CHOOSE f \in Form : arg <= Top[f] /\ \A g \in Form : g < f => arg > Top[g]

\* Majors: 0 uint, 1 negative, 2 bytes, 3 text, 4 array, 5 map, 7 simple.
False == 20
True  == 21

\* The items that follow the head of a container.
Children(h) == CASE h.major = 4 -> h.arg [] h.major = 5 -> 2 * h.arg
                 [] OTHER -> 0

\* What a head must be for each p4_cbor_get: the end of the message in the
\* head or in the data it announces makes the call fail like a form that is
\* refused.
Gets(major, h) ==
    /\ Accepts(h) /\ h.major = major
    /\ major \in {4, 5} => h.arg <= MaxItems
    /\ major \in {2, 3} => h.arg <= MaxBytes
    /\ major = 7 => h.arg \in {False, True}
GetsInt(h) == (Gets(0, h) \/ Gets(1, h)) /\ h.arg <= IntMax
-----------------------------------------------------------------------------
(* What the two commands expect where. *)

Command == {"make", "get"}

\* By key: the value that read_request wants.
TopValue ==
    [make |-> <<"hash", "rp", "user", "algs", "list", "ignored", "options",
                "pin", "protocol", "protocol">>,
     get  |-> <<"name", "hash", "list", "ignored", "options", "pin",
                "protocol">>]

\* The keys that a nested map knows, and the value of each.
Option(c) == IF c = "make" THEN [rk |-> "flag", uv |-> "flag"]
                           ELSE [up |-> "ignoredFlag", uv |-> "flag"]
DescHandle(c) == IF c = "make" THEN "handle" ELSE "anyHandle"
KnownIn(c) ==
    [rp      |-> [id |-> "name"],
     user    |-> [id |-> "handle"],
     alg     |-> [type |-> "type", alg |-> "number"],
     desc    |-> [type |-> "type", id |-> DescHandle(c)],
     options |-> Option(c),
     ignored |-> <<>>]
Known(kind) == IF kind = "top" THEN TopValue[cmd] ELSE KnownIn(cmd)[kind]

Element == [algs |-> "alg", list |-> "desc"]
IsArray(kind) == kind \in DOMAIN Element

RequiredIn(kind) ==
    CASE kind \in {"rp", "user"} -> {"id"}
      [] kind = "alg"  -> {"type", "alg"}
      [] kind = "desc" -> {"type", "id"}
      [] OTHER -> {}
Required == IF cmd = "make" THEN 1 .. 4 ELSE 1 .. 2

MajorOf(value) ==
    CASE value \in {"hash", "handle", "anyHandle", "pin"} -> 2
      [] value \in {"name", "type"} -> 3
      [] value \in {"algs", "list"} -> 4
      [] value \in {"flag", "ignoredFlag"} -> 7
      [] value = "protocol" -> 0
      [] OTHER -> 5

Container == {"rp", "user", "algs", "alg", "list", "desc", "ignored", "options"}
Fits(value, h) == IF value = "number" THEN GetsInt(h)
                                          ELSE Gets(MajorOf(value), h)
-----------------------------------------------------------------------------
(* The state: every call starts from cleared locals. *)

Fresh == [es256 |-> FALSE, unsupported_option |-> FALSE]
Silence == [wants |-> FALSE, es256 |-> FALSE, entry |-> {}, twice |-> FALSE]

Init ==
    /\ cmd \in Command
    /\ frames = <<>> /\ skip = <<>> /\ request = Fresh /\ status = "START"
    /\ owed = 1 /\ said = Silence /\ strict = TRUE

\* A map or array just opened.  due is the key whose value comes next, have
\* the keys seen, met what the entry says of its algorithm; began is history:
\* the keys whose values were read.
Opened(kind, items) == [kind |-> kind, left |-> items, due |-> <<>>,
                        have |-> {}, met |-> {}, began |-> {}]
Inner == Last(frames)
InMap == /\ status = "READING" /\ skip = <<>>
         /\ ~ IsArray(Inner.kind)
With(f) == Append(Front(frames), f)

\* What a head announces is owed, and the head itself no longer.
Consume(h) ==
    /\ owed' = owed + Children(h) - 1
    /\ strict' = (strict /\ h.form = Written(h.arg))

\* Bound on the containers in a message; one too large is refused anyway.
Affordable(h, bound) == Children(h) <= bound \/ h.arg > MaxItems

Return(s) ==
    /\ status' = s
    /\ UNCHANGED <<cmd, frames, skip, request, owed, said, strict>>

\* What comes next fails to be what Want(h) says.

Refuse(Want(_), s) == \E h \in Heads : ~ Want(h) /\ Return(s)
-----------------------------------------------------------------------------
(* The keys of maps. *)

OpenMessage ==
    /\ status = "START"
    /\ \/ Refuse(LAMBDA h : Gets(5, h), "INVALID_CBOR")
       \/ \E h \in Heads :
            /\ Gets(5, h) /\ Affordable(h, 2 * TopPairs)
            /\ frames' = <<Opened("top", h.arg)>>
            /\ status' = "READING"
            /\ Consume(h)
            /\ UNCHANGED <<cmd, skip, request, said>>

\* A text that is none of the keys the map knows.
OtherText == "other"

KeyHead(h) == IF Inner.kind = "top" THEN Gets(0, h) ELSE Gets(3, h)
KeysIn(h) == IF Inner.kind = "top" THEN {h.arg}
             ELSE {OtherText} \cup IF h.arg = 0 THEN {}
                                   ELSE DOMAIN Known(Inner.kind)
Tracked(kind, key) == IF kind = "top" THEN key <= MaxSeen
                      ELSE key \in DOMAIN Known(kind)

\* p4_cbor_known_key_once has no bit for key 0.
Repeated(key) == key \in Inner.have \/ (Inner.kind = "top" /\ key = 0)

\* Mutant: have_uv and the like are never set.
NotedOnlyOnTop(key) ==
    IF Inner.kind = "top" /\ key <= MaxSeen THEN {key} ELSE {}

\* A nested map notes its key once the value is read; nothing looks before.
Noted(key) == IF Tracked(Inner.kind, key) THEN {key} ELSE {}

ReadKey ==
    /\ InMap
    /\ Inner.left > 0 /\ Inner.due = <<>>
    /\ \/ Refuse(KeyHead, "UNEXPECTED_TYPE")
       \/ \E h \in Heads : KeyHead(h) /\ \E key \in KeysIn(h) :
            \/ Repeated(key) /\ Return("INVALID_CBOR")
            \/ /\ ~ Repeated(key)
               /\ frames' = With([Inner EXCEPT !.due = <<key>>,
                                               !.have = @ \cup Noted(key)])
               /\ Consume(h)
               /\ UNCHANGED <<cmd, skip, request, status, said>>
-----------------------------------------------------------------------------
(* Values.  Beginning one takes its key, or an element of an array, from    *)
(* what the frame still expects.                                            *)

Expects == \/ InMap /\ Inner.due # <<>>
           \/ /\ status = "READING" /\ skip = <<>>
              /\ IsArray(Inner.kind) /\ Inner.left > 0
Expected ==
    IF IsArray(Inner.kind) THEN Element[Inner.kind]
    ELSE LET key == Inner.due[1] IN
         IF key \in DOMAIN Known(Inner.kind) THEN Known(Inner.kind)[key]
         ELSE "any"

Began == IF Inner.due # <<>> /\ Tracked(Inner.kind, Inner.due[1])
         THEN {Inner.due[1]} ELSE {}
Begun == [Inner EXCEPT !.left = @ - 1, !.due = <<>>, !.began = @ \cup Began]
Said(now) == said' = [now EXCEPT
                        !.twice = @ \/ Began \cap Inner.began # {}]

\* What is well-formed and still no good.
Unacceptable(value, h) ==
    CASE value = "hash" /\ h.arg # HashLen -> "INVALID_PARAMETER"
      [] value \in {"name", "handle", "algs"} /\ h.arg = 0
           -> "INVALID_PARAMETER"
      [] value = "list" /\ h.arg > MaxList -> "LIMIT_EXCEEDED"
      [] OTHER -> "OK"

ReadWrong ==
    /\ Expects /\ Expected # "any"
    /\ \/ Refuse(LAMBDA h : Fits(Expected, h), "UNEXPECTED_TYPE")
       \/ \E h \in Heads :
            /\ Fits(Expected, h) /\ Unacceptable(Expected, h) # "OK"
            /\ Return(Unacceptable(Expected, h))

ReadContainer ==
    /\ Expects /\ Expected \in Container
    /\ \E h \in Heads :
         /\ Fits(Expected, h) /\ Unacceptable(Expected, h) = "OK"
         /\ Affordable(h, NestedItems)
         /\ frames' = Append(With(Begun), Opened(Expected, h.arg))
         /\ Consume(h)
         /\ Said(said)
         /\ UNCHANGED <<cmd, skip, request, status>>

\* Mutant: the last option decides.
OptionOverwrites(value, h) ==
    IF value = "flag" THEN h.arg = True
    ELSE request.unsupported_option \/ value \in {"pin", "protocol"}

\* An option that is asked for and pinUvAuth parameters are not supported.
Es256 == 6       \* -7, ES256, as the argument of a negative integer
OptionOf(value, h) ==
    \/ request.unsupported_option
    \/ value = "flag" /\ h.arg = True
    \/ value \in {"pin", "protocol"}

\* What a string or number says of an algorithm; a type is public-key or not.
Meanings(value, h) ==
    CASE value = "type" /\ h.arg # 0 -> {{}, {"public-key"}}
      [] value = "number" /\ h.major = 1 /\ h.arg = Es256 -> {{"es256"}}
      [] OTHER -> {{}}

ReadData ==
    /\ Expects /\ Expected # "any" /\ Expected \notin Container
    /\ \E h \in Heads :
         /\ Fits(Expected, h) /\ Unacceptable(Expected, h) = "OK"
         /\ \E meaning \in Meanings(Expected, h) :
              /\ frames' = With([Begun EXCEPT !.met = @ \cup meaning])
              /\ Said([said EXCEPT
                   !.entry = IF Inner.kind = "alg" THEN @ \cup meaning ELSE @,
                   !.wants = @ \/ Expected \in {"pin", "protocol"}
                               \/ (Expected = "flag" /\ h.arg = True)])
         /\ request' = [request EXCEPT
                         !.unsupported_option = OptionOf(Expected, h)]
         /\ Consume(h)
         /\ UNCHANGED <<cmd, skip, status>>

\* p4_cbor_skip begins with one item at depth 0.
BeginSkip ==
    /\ Expects /\ Expected = "any"
    /\ frames' = With(Begun)
    /\ skip' = <<1>>
    /\ Said(said)
    /\ UNCHANGED <<cmd, request, status, owed, strict>>
-----------------------------------------------------------------------------
(* reader_skip: an item that is read ends the levels it was the last of. *)

\* Mutant: a map is skipped as if it were an array.
ItemsOfContainer(h) == IF h.major \in {4, 5} THEN h.arg ELSE 0

SkippedItems(h) == Children(h)

Unwound(s) == SubSeq(s, 1, SelectLastInSeq(s, LAMBDA n : n # 0))
Skippable(h) == h.major # 6 /\ Gets(h.major, h) /\ Len(skip) - 1 <= MaxDepth

SkipItem ==
    /\ status = "READING" /\ skip # <<>>
    /\ \/ Refuse(Skippable, "INVALID_CBOR")
       \/ \E h \in Heads :
            /\ Skippable(h) /\ Affordable(h, NestedItems)
            /\ skip' = Unwound(Append([skip EXCEPT ![Len(skip)] = @ - 1],
                                      SkippedItems(h)))
            /\ Consume(h)
            /\ UNCHANGED <<cmd, frames, request, status, said>>
-----------------------------------------------------------------------------
(* The end of a map or array, and of the message. *)

Offers(f) == f.kind = "alg" /\ f.met = {"public-key", "es256"}

EndFrame ==
    /\ status = "READING" /\ skip = <<>>
    /\ Inner.left = 0 /\ Inner.due = <<>>
    /\ Len(frames) > 1
    /\ \/ ~ RequiredIn(Inner.kind) \subseteq Inner.have
            /\ Return("MISSING_PARAMETER")
       \/ /\ RequiredIn(Inner.kind) \subseteq Inner.have
          /\ frames' = Front(frames)
          /\ request' = [request EXCEPT !.es256 = @ \/ Offers(Inner)]
          /\ said' = IF Inner.kind # "alg" THEN said
                     ELSE [said EXCEPT !.entry = {},
                             !.es256 = @ \/ said.entry = {"public-key", "es256"}]
          /\ UNCHANGED <<cmd, skip, status, owed, strict>>

\* p4_cbor_reader_done refuses what follows the map.
Judge ==
    /\ status = "READING" /\ skip = <<>>
    /\ Len(frames) = 1 /\ Inner.left = 0 /\ Inner.due = <<>>
    /\ \/ Return("INVALID_CBOR")
       \/ Return(IF ~ Required \subseteq Inner.have THEN "MISSING_PARAMETER"
                 ELSE IF request.unsupported_option THEN "UNSUPPORTED_OPTION"
                 ELSE IF cmd = "make" /\ ~ request.es256
                   THEN "UNSUPPORTED_ALGORITHM"
                 ELSE "OK")

\* The next request is read afresh.
Again ==
    /\ status \notin {"START", "READING"}
    /\ cmd' \in Command
    /\ frames' = <<>> /\ skip' = <<>> /\ request' = Fresh /\ status' = "START"
    /\ owed' = 1 /\ said' = Silence /\ strict' = TRUE

Next ==
    \/ OpenMessage \/ ReadKey \/ ReadWrong \/ ReadContainer \/ ReadData
    \/ BeginSkip \/ SkipItem \/ EndFrame \/ Judge \/ Again

Spec == Init /\ [][Next]_vars
-----------------------------------------------------------------------------
(* Safety. *)

LeftIn(f) == IF IsArray(f.kind) THEN f.left ELSE 2 * f.left - Len(f.due)

\* The sums of the first n numbers of s, and of all of them.
Running(s) ==
    LET upto[n \in 0 .. Len(s)] == IF n = 0 THEN 0 ELSE upto[n - 1] + s[n]
    IN  upto
Total(s) == Running(s)[Len(s)]

LeftInAll(open) == [i \in 1 .. Len(open) |-> LeftIn(open[i])]
Owing == IF frames = <<>> THEN 1 ELSE Total(LeftInAll(frames)) + Total(skip)

\* The nested loops and the recursion of p4_cbor_skip never lose step with
\* the message: at every point they still expect as many items as the heads
\* read so far have announced, so no value is taken for a key or for a part
\* of another map, whatever is skipped.
InStep == owed = Owing

\* What read_request returns is right of the whole message, in whatever order
\* its keys came: OK only after every required value was read, once each map
\* and array is complete, with ES256 offered by one entry that is a
\* public-key and with nothing asked for that is not supported; and it calls
\* a request unsupported only for what the message really said.
VerdictRight ==
    /\ status \in {"OK", "UNSUPPORTED_OPTION", "UNSUPPORTED_ALGORITHM"} =>
         owed = 0 /\ Required \subseteq Inner.began
    /\ status = "OK" => ~ said.wants /\ (cmd = "make" => said.es256)
    /\ status = "UNSUPPORTED_OPTION" => said.wants
    /\ status = "UNSUPPORTED_ALGORITHM" => ~ said.es256 /\ ~ said.wants

\* No key the code knows is given a value twice in one map: a later value
\* never replaces one that was read and tested.
KeysOnce == ~ said.twice

\* Every argument has one accepted form: a head the reader accepts is the one
\* p4_cbor's own writer would write.  The order of a map's keys stays free.
HeadsCanonical == strict
=============================================================================
