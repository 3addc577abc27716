------------------------------- MODULE Faults -------------------------------
(***************************************************************************)
(* The fault catalogue and the fault-state bookkeeping of core/fault.c.    *)
(*                                                                         *)
(* A fault state is a record: active is the set of ids whose bit is set in *)
(* active_bits, first is first_raised.  Ids are the enum's numbers because *)
(* clearing recomputes first_raised as the LOWEST active id.               *)
(***************************************************************************)
EXTENDS Naturals

FAULT_NONE                 == 0
FAULT_GFCI                 == 1
FAULT_RELAY_WELD           == 2
FAULT_RELAY_STUCK_OPEN     == 3
FAULT_CP_NO_PILOT          == 5
FAULT_BOOT_SELF_TEST       == 7
FAULT_GFCI_SELF_TEST       == 8
FAULT_ADC_OUT_OF_RANGE     == 11
FAULT_HARD_OVER_CURRENT    == 12
FAULT_CRASH_LOOP_SAFE_FAIL == 13
FAULT_OVER_TEMP            == 16
FAULT_SOFT_OVER_CURRENT    == 17
FAULT_AC_ABSENT            == 19
FAULT_COUNT                == 21

FAULT_FIRST_SELF_CLEARING  == FAULT_OVER_TEMP

FaultIds   == (FAULT_NONE + 1) .. (FAULT_COUNT - 1)
FaultState == [active : SUBSET FaultIds, first : FaultIds \cup {FAULT_NONE}]

fault_init == [active |-> {}, first |-> FAULT_NONE]

\* fault_is_latched_kind, as a set
LatchedKind == {id \in FaultIds : id < FAULT_FIRST_SELF_CLEARING}

fault_is_active(fs, id) == id \in fs.active

fault_any_latched_active(fs) == fs.active \cap LatchedKind # {}

\* The scan for a new first_raised: the lowest id still active.
LowestActive(active) ==
  IF active = {} THEN FAULT_NONE
  ELSE CHOOSE id \in active : \A other \in active : id <= other

fault_raise(fs, id) ==
  [active |-> fs.active \cup {id},
   first  |-> IF fs.first = FAULT_NONE THEN id ELSE fs.first]

\* FAULT_GFCI is refused: only a reset removes it.
fault_clear(fs, id) ==
  IF id \notin FaultIds \/ id = FAULT_GFCI \/ id \notin fs.active
  THEN fs
  ELSE [active |-> fs.active \ {id},
        first  |-> IF fs.first = id THEN LowestActive(fs.active \ {id}) ELSE fs.first]

\* Mutant: clear-all forgets the exception for FAULT_GFCI.
fault_clear_all_Latched(fs) ==
  LET left == fs.active \ LatchedKind
  IN  [active |-> left, first |-> LowestActive(left)]

fault_clear_all_clearable(fs) ==
  LET left == fs.active \ (LatchedKind \ {FAULT_GFCI})
  IN  [active |-> left, first |-> LowestActive(left)]
=============================================================================
