------------------------------ MODULE PingPong ------------------------------
(***************************************************************************)
(* Two-slot storage of one record on the W25Q flash (persist/pingpong.c).  *)
(* Every flash command of pingpong_store is a step, so that power can go   *)
(* between and inside any two of them.  A sector holds a record whose CRC  *)
(* matches, or it is Invalid: blank, half erased or half programmed.       *)
(***************************************************************************)
EXTENDS Naturals

CONSTANTS
  Value,        \* record payloads
  Default,      \* what a caller uses when no slot is valid
  COUNTER_MOD   \* width of monotonic_counter (2^32)

ASSUME StoreAssumption == Default \in Value /\ COUNTER_MOD \in Nat \ {0}

VARIABLES
  slot,    \* contents of sectors "A" and "B"
  st,      \* the command pingpong_store is about to issue, or "idle"
  cur,     \* cur_slot: where the valid record was when the store began
  rec,     \* the stamped record
  result   \* return value of the last store; "none" while unknown

storeVars == <<slot, st, cur, rec, result>>

Slots    == {"A", "B"}
Record   == [valid : BOOLEAN, value : Value, counter : 0..(COUNTER_MOD - 1)]
Invalid  == [valid |-> FALSE, value |-> Default, counter |-> 0]
Other(s) == IF s = "A" THEN "B" ELSE "A"

\* The slot load and store take for the current one: the newer, A on a tie.
Current(f) ==
  IF f["A"].valid /\ (~f["B"].valid \/ f["A"].counter >= f["B"].counter) THEN "A"
  ELSE IF f["B"].valid THEN "B" ELSE "none"

\* pingpong_load, with the caller's defaults when both slots are invalid.
pingpong_load(f) == IF Current(f) = "none" THEN Default ELSE f[Current(f)].value

\* target_slot.
target == IF cur = "A" THEN "B" ELSE "A"

StoreInit ==
  /\ slot = [s \in Slots |-> Invalid] /\ st = "idle" /\ cur = "none"
  /\ rec = Invalid /\ result = "none"

\* pingpong_store up to its first command: choose the target, stamp the counter.
StoreBegin(v) ==
  /\ st = "idle" /\ st' = "erase"
  /\ cur' = Current(slot)
  /\ rec' = [valid |-> TRUE, value |-> v,
             counter |-> (IF Current(slot) = "none" THEN 1
                          ELSE slot[Current(slot)].counter + 1) % COUNTER_MOD]
  /\ result' = "none"
  /\ UNCHANGED slot

\* What a command that fails, or is cut off by power loss, can leave behind.
MayLeave ==
  CASE st = "erase"   -> {slot, [slot EXCEPT ![target] = Invalid]}
    [] st = "program" -> {slot, [slot EXCEPT ![target] = rec]}
    [] st = "retire"  -> {slot, [slot EXCEPT ![Other(target)] = Invalid]}
    [] OTHER          -> {slot}

\* w25q_erase_sector(target_addr) succeeds.
EraseTarget ==
  /\ st = "erase" /\ st' = "program"
  /\ slot' = [slot EXCEPT ![target] = Invalid]
  /\ UNCHANGED <<cur, rec, result>>

\* w25q_program reports success; what is in the sector is for the verify to say.
Program ==
  /\ st = "program" /\ st' = "verify"
  /\ slot' \in MayLeave
  /\ UNCHANGED <<cur, rec, result>>

\* Mutant: the prior slot is erased without the verify-read.
Verify_Blind ==
  /\ st = "verify"
  /\ st' = IF cur # "none" THEN "retire" ELSE "idle"
  /\ result' = IF st' = "idle" THEN "ok" ELSE result
  /\ UNCHANGED <<slot, cur, rec>>

\* The verify-read; with no prior slot to retire the store is done.
Verify ==
  /\ st = "verify"
  /\ st' = IF slot[target] = rec /\ cur # "none" THEN "retire" ELSE "idle"
  /\ result' = IF slot[target] # rec THEN "error"
               ELSE IF cur = "none" THEN "ok" ELSE result
  /\ UNCHANGED <<slot, cur, rec>>

\* The prior slot is erased and the store returns 0.
RetirePrior ==
  /\ st = "retire" /\ st' = "idle" /\ result' = "ok"
  /\ slot' = [slot EXCEPT ![Other(target)] = Invalid]
  /\ UNCHANGED <<cur, rec>>

\* A command times out: pingpong_store returns -2, -3 or -6.
CommandFails ==
  /\ st \in {"erase", "program", "retire"} /\ st' = "idle" /\ result' = "error"
  /\ slot' \in MayLeave
  /\ UNCHANGED <<cur, rec>>

\* Power goes at any moment; the sectors keep what they hold.
PowerLoss ==
  /\ slot' \in MayLeave
  /\ st' = "idle" /\ result' = "none"
  /\ UNCHANGED <<cur, rec>>

StoreStep == EraseTarget \/ Program \/ Verify \/ RetirePrior \/ CommandFails

StoreNext == (\E v \in Value : StoreBegin(v)) \/ StoreStep \/ PowerLoss

StoreSpec == StoreInit /\ [][StoreNext]_storeVars

-----------------------------------------------------------------------------
\* Every location, slot and stamped record is in range; the counter wraps.
StoreTypeOK ==
  /\ slot \in [Slots -> Record]
  /\ st \in {"idle", "erase", "program", "verify", "retire"}
  /\ cur \in Slots \cup {"none"} /\ rec \in Record
  /\ result \in {"none", "ok", "error"}

\* A store under way never touches the current slot before the new record has
\* been read back: until then cur still is what a boot would load, and the
\* target holds nothing valid or the stamped record.
StoreProgress ==
  /\ st \in {"erase", "program"} => Current(slot) = cur
  /\ st # "idle" => rec.valid
  /\ st \in {"program", "verify"} => slot[target] = Invalid \/ slot[target] = rec
  /\ st = "program" => slot[target] = Invalid
  /\ st \in {"verify", "retire"} /\ cur # "none" => slot[cur].valid
  /\ st \in {"verify", "retire"} /\ cur = "none" => ~slot[Other(target)].valid
  /\ st = "retire" => cur # "none" /\ slot[target] = rec

\* pingpong_store implements an atomic record: whatever command fails and
\* whenever power goes, also across a wrap of the counter, a boot loads the old
\* or the new record, and the new one once the store has returned 0.
Atomic == INSTANCE AtomicRecord
  WITH durable <- pingpong_load(slot), busy <- (st # "idle"), want <- rec.value
AtomicStore == Atomic!Spec
=============================================================================
