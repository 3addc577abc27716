------------------------------ MODULE GfciPolicy ------------------------------
(***************************************************************************)
(* The ground-fault decision of core/gfci_policy.h: debounce of the PE2    *)
(* line, the WARN edge latch and the raise-once latch.                     *)
(***************************************************************************)
EXTENDS Naturals

CONSTANT GFCI_PERSIST_TICKS  \* ticks PE2 must be low (3 in the firmware)

ASSUME GfciPersistAssumption == GFCI_PERSIST_TICKS \in Nat \ {0}

\* "OTHER" stands for a persisted byte that names no policy.
GfciPolicies == {"FAULT", "WARN", "OTHER"}
GfciActions  == {"NONE", "WARN_EMIT", "RAISE_FAULT"}
GfciContext  == [streak : 0..GFCI_PERSIST_TICKS, warned : BOOLEAN, faultActive : BOOLEAN]

gfci_context_init == [streak |-> 0, warned |-> FALSE, faultActive |-> FALSE]

\* Mutant: the WARN latch of an episode also swallows a later FAULT policy.
gfci_policy_step_WarnedWins(ctx, pe2Low, policy) ==
  LET streak == IF ~pe2Low THEN 0
                ELSE IF ctx.streak < GFCI_PERSIST_TICKS THEN ctx.streak + 1 ELSE ctx.streak
      warned == ctx.warned /\ pe2Low
      act    == IF streak < GFCI_PERSIST_TICKS \/ warned \/ ctx.faultActive THEN "NONE"
                ELSE IF policy = "WARN" THEN "WARN_EMIT" ELSE "RAISE_FAULT"
  IN  [ctx |-> [streak      |-> streak,
                warned      |-> warned \/ act = "WARN_EMIT",
                faultActive |-> ctx.faultActive \/ act = "RAISE_FAULT"],
       act |-> act]

gfci_policy_step(ctx, pe2Low, policy) ==
  LET streak == IF ~pe2Low THEN 0
                ELSE IF ctx.streak < GFCI_PERSIST_TICKS THEN ctx.streak + 1 ELSE ctx.streak
      warned == ctx.warned /\ pe2Low
      act    == CASE streak < GFCI_PERSIST_TICKS                              -> "NONE"
                  [] streak >= GFCI_PERSIST_TICKS /\ policy = "WARN"          ->
                       IF warned THEN "NONE" ELSE "WARN_EMIT"
                  [] streak >= GFCI_PERSIST_TICKS /\ policy # "WARN"          ->
                       IF ctx.faultActive THEN "NONE" ELSE "RAISE_FAULT"
  IN  [ctx |-> [streak      |-> streak,
                warned      |-> warned \/ act = "WARN_EMIT",
                faultActive |-> ctx.faultActive \/ act = "RAISE_FAULT"],
       act |-> act]
=============================================================================
