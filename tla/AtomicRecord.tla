---------------------------- MODULE AtomicRecord ----------------------------
(***************************************************************************)
(* What a persisted record promises its owner: a write takes effect as a   *)
(* whole or not at all, a write that reports success has taken effect, and *)
(* nothing but a write changes the record - whatever fails and whenever    *)
(* the power goes.                                                         *)
(***************************************************************************)
CONSTANTS Value, Default

VARIABLES
  durable,  \* what a boot at this moment would load
  busy,     \* a write is under way
  want,     \* the value it writes
  result    \* how the last write ended: "ok", "error", or "none" if power went

vars == <<durable, busy, want, result>>

Init == durable = Default /\ busy = FALSE /\ want = Default /\ result = "none"

Begin(v) ==
  /\ ~busy /\ busy' = TRUE /\ want' = v /\ result' = "none"
  /\ UNCHANGED durable

\* The write takes effect.
Commit == busy /\ durable' = want /\ UNCHANGED <<busy, want, result>>

Succeed ==
  /\ busy /\ busy' = FALSE /\ result' = "ok"
  /\ durable' = want
  /\ UNCHANGED want

\* An error leaves the old value or the new one.
Fail ==
  /\ busy /\ busy' = FALSE /\ result' = "error"
  /\ durable' \in {durable, want}
  /\ UNCHANGED want

\* So does a loss of power; without a write under way it changes nothing.
PowerLoss ==
  /\ busy' = FALSE /\ result' = "none"
  /\ durable' \in IF busy THEN {durable, want} ELSE {durable}
  /\ UNCHANGED want

Next == (\E v \in Value : Begin(v)) \/ Commit \/ Succeed \/ Fail \/ PowerLoss

Spec == Init /\ [][Next]_vars
=============================================================================
