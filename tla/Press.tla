------------------------------- MODULE Press -------------------------------
(***************************************************************************)
(* press_wait of p4_press.c: one request polls the button until it sees a  *)
(* fresh, debounced press, a cancel, a failed keepalive or its timeout.    *)
(*                                                                         *)
(* Times are counted in samples: the loop adds PRESS_SAMPLE_MS to every    *)
(* counter once per turn, and every limit is a multiple of it, so that     *)
(* Debounce = 40/10, Timeout = 30000/10 and Keepalive = 100/10 in the      *)
(* code.                                                                   *)
(*                                                                         *)
(* The transport runs beside the loop, so a cancel may arrive between any  *)
(* two of its steps.  cancelled is what hid_cancelled answers when it gets *)
(* the core mutex; when it does not it answers TRUE.                       *)
(***************************************************************************)
EXTENDS Integers, Sequences

CONSTANTS Debounce,   \* samples a level has to last to count
          Timeout,    \* samples a call takes at most
          Keepalive   \* samples between two keepalives

ASSUME PressAssumption == /\ Debounce \in Nat \ {0}
                          /\ Timeout \in Nat
                          /\ Keepalive \in Nat \ {0}

VARIABLES
  pc,            \* where the call is; "idle" when there is none
  need_release,  \* the button has to be released first
  stable,        \* samples the wanted level has lasted
  elapsed,       \* samples taken
  result,        \* what the last call returned, "NONE" while it runs
  cancelled,     \* the request is cancelled or its claim is gone
  readings,      \* history: every level the call has read, in order
  late           \* history: the samples taken since the cancel

vars == <<pc, need_release, stable, elapsed, result, cancelled, readings, late>>

Results == {"NONE", "OK", "CANCEL", "DENIED", "TIMEOUT"}

Init == /\ pc = "idle"
        /\ need_release = FALSE
        /\ stable = 0
        /\ elapsed = 0
        /\ result = "NONE"
        /\ cancelled = FALSE
        /\ readings = <<>>
        /\ late = 0

----------------------------------------------------------------------------
(* The pieces of the loop body.                                            *)

(* What hid_cancelled may answer.                                          *)
Answers == {cancelled, TRUE}

Return(r) == /\ pc' = "idle"
             /\ result' = r
             /\ UNCHANGED <<need_release, stable, elapsed, cancelled,
                            readings, late>>

Goto(label) == /\ pc' = label
               /\ UNCHANGED <<need_release, stable, elapsed, result, cancelled,
                              readings, late>>

(* The next value of stable once a level is read.                          *)
StableKept(pressed) ==
  IF pressed # need_release THEN stable + 1 ELSE stable

Stable(pressed) == IF pressed # need_release THEN stable + 1 ELSE 0

SettledLate(pressed) == Stable(pressed) > Debounce

Settled(pressed) == Stable(pressed) >= Debounce

(* A cancel ends the loop at its head, whatever the time.                  *)
StopsAtKeepalive(answer) == answer /\ elapsed % Keepalive = 0

Stops(answer) == answer

----------------------------------------------------------------------------
(* press_wait, one action per call it makes to the board or the transport. *)

(* Without a configured button the call is refused.                        *)
CallUnready == /\ pc = "idle"
               /\ result' = "DENIED"
               /\ cancelled' \in BOOLEAN
               /\ readings' = <<>>
               /\ late' = 0
               /\ UNCHANGED <<pc, need_release, stable, elapsed>>

Call(pressed) == /\ pc = "idle"
                 /\ pc' = "check"
                 /\ need_release' = pressed
                 /\ stable' = 0
                 /\ elapsed' = 0
                 /\ result' = "NONE"
                 /\ cancelled' \in BOOLEAN
                 /\ readings' = <<pressed>>
                 /\ late' = 0

Expire == /\ pc = "check"
          /\ elapsed >= Timeout
          /\ Return("TIMEOUT")

Check == /\ pc = "check"
         /\ elapsed < Timeout
         /\ \E answer \in Answers :
              \/ Stops(answer) /\ Return("CANCEL")
              \/ /\ ~Stops(answer)
                 /\ Goto(IF elapsed % Keepalive = 0 THEN "keepalive"
                                                    ELSE "sample")

(* A keepalive that only comes too early is no failure; a cancelled        *)
(* request gets none.                                                      *)
SendKeepalive == /\ pc = "keepalive"
                 /\ \/ ~cancelled /\ Goto("sample")
                    \/ Goto("failed")

KeepaliveFailed == /\ pc = "failed"
                   /\ \E answer \in Answers :
                        Return(IF answer THEN "CANCEL" ELSE "DENIED")

Sample(pressed) ==
  /\ pc = "sample"
  /\ readings' = Append(readings, pressed)
  /\ late' = IF cancelled THEN late + 1 ELSE late
  /\ \/ /\ Settled(pressed) /\ ~need_release
        /\ pc' = "accept"
        /\ stable' = Stable(pressed)
        /\ UNCHANGED <<need_release, elapsed>>
     \/ /\ Settled(pressed) /\ need_release
        /\ pc' = "check"
        /\ need_release' = FALSE
        /\ stable' = 0
        /\ elapsed' = elapsed + 1
     \/ /\ ~Settled(pressed)
        /\ pc' = "check"
        /\ stable' = Stable(pressed)
        /\ elapsed' = elapsed + 1
        /\ UNCHANGED need_release
  /\ UNCHANGED <<result, cancelled>>

Accept == /\ pc = "accept"
          /\ \E answer \in Answers :
               Return(IF answer THEN "CANCEL" ELSE "OK")

(* A CANCEL packet, a resynchronisation, a reset or a bus event.  Once     *)
(* hid_cancelled answers TRUE for a claim it goes on doing so, which is a  *)
(* theorem about CtapHid: CancelStaysTheorem in CtapHidOwner_proofs.       *)
CancelArrives == /\ pc # "idle"
                 /\ ~cancelled
                 /\ cancelled' = TRUE
                 /\ UNCHANGED <<pc, need_release, stable, elapsed, result,
                                readings, late>>

Step == \/ Expire
        \/ Check
        \/ SendKeepalive
        \/ KeepaliveFailed
        \/ \E pressed \in BOOLEAN : Sample(pressed)
        \/ Accept

Next == \/ CallUnready
        \/ \E pressed \in BOOLEAN : Call(pressed)
        \/ Step
        \/ CancelArrives

Spec == Init /\ [][Next]_vars

----------------------------------------------------------------------------
(* Properties.                                                             *)

(* The level is v for Debounce samples from the given one on.              *)
Lasts(from, v) == \A i \in from..(from + Debounce - 1) : readings[i] = v

(* The call has seen a debounced press which, if the button was down when  *)
(* the call began, came after a debounced release.                         *)
PressSeen ==
  \E p \in 2..(Len(readings) - Debounce + 1) :
     /\ Lasts(p, TRUE)
     /\ readings[1] => \E q \in 2..(p - Debounce) : Lasts(q, FALSE)

(* User presence is given only for a press made during this very request:  *)
(* a button held from before, or one that bounces, never counts.           *)
FreshPress == result = "OK" => PressSeen

(* The other way round: a call that times out took all its samples and     *)
(* overlooked no fresh press among them.                                   *)
PressNotMissed ==
  result = "TIMEOUT" => Len(readings) = Timeout + 1 /\ ~PressSeen

(* A cancel is noticed before the second sample after it, and presence is  *)
(* never given to a request that was cancelled while it waited.            *)
CancelPrompt == /\ late <= 1
                /\ result = "OK" => ~cancelled
============================================================================
