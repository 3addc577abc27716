------------------------------ MODULE FrameLine -----------------------------
(***************************************************************************)
(* What a serial line promises the programs at its ends, whatever happens  *)
(* to its bytes: a frame that is delivered was sent, as it is delivered,   *)
(* and frames are delivered in the order in which they were sent, each at  *)
(* most once.  Any of them may be lost.                                    *)
(***************************************************************************)
EXTENDS Naturals, Sequences

CONSTANT Frames

VARIABLES
  sent,       \* the frames sent
  delivered,  \* the frames delivered
  last        \* which of those sent was delivered last, 0 before the first

vars == <<sent, delivered, last>>

Init == sent = <<>> /\ delivered = <<>> /\ last = 0

Send(f) == sent' = Append(sent, f) /\ UNCHANGED <<delivered, last>>

\* Those between last and i are lost.
Deliver(i) ==
  /\ i > last /\ last' = i /\ delivered' = Append(delivered, sent[i])
  /\ UNCHANGED sent

Next == (\E f \in Frames : Send(f)) \/ (\E i \in 1..Len(sent) : Deliver(i))

Spec == Init /\ [][Next]_vars
=============================================================================
