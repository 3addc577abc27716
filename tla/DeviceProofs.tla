----------------------------- MODULE DeviceProofs ---------------------------
(***************************************************************************)
(* Proofs about the devices around the charger.  BootConfig: its store     *)
(* implements AtomicRecord, for every set of payloads and every width of   *)
(* the counter.  Panel: the alarm and the button count, for every poll     *)
(* period, debounce length, set of snapshots, ladder reading and beep.     *)
(* GfciMonitor: the handshake window, for every timing of the chip within  *)
(* GfciAssumption.                                                         *)
(***************************************************************************)
EXTENDS Panel, GfciMonitor, BootConfig, TLAPS

-----------------------------------------------------------------------------
(* pingpong_store.  The commit point is the program command (Program), or   *)
(* the erase of the prior slot (RetirePrior) when the counter has just      *)
(* wrapped; StoreProgress says what the two sectors hold at each command,   *)
(* which is what every step of the refinement needs.  Below it, the same    *)
(* for the boot_config record behind its setters.                           *)

StoreInv == StoreTypeOK /\ StoreProgress

LEMMA InvalidIsRecord == Invalid \in Record
BY StoreAssumption DEF Invalid, Record

LEMMA CurrentRange ==
  ASSUME NEW f \in [Slots -> Record]
  PROVE  /\ Current(f) \in Slots \cup {"none"}
         /\ Current(f) # "none" => f[Current(f)].valid
         /\ Current(f) = "none" => ~f["A"].valid /\ ~f["B"].valid
BY DEF Current, Slots, Record

LEMMA TargetRange ==
  ASSUME StoreTypeOK
  PROVE  /\ target \in Slots /\ Other(target) \in Slots /\ target # Other(target)
         /\ cur # "none" => cur = Other(target)
         /\ cur = "none" => target = "A"
BY DEF StoreTypeOK, target, Other, Slots

LEMMA StampRange ==
  ASSUME StoreTypeOK, NEW v \in Value, StoreBegin(v)
  PROVE  rec' \in Record /\ rec'.valid /\ rec'.value = v
<1>1. slot \in [Slots -> Record]
  BY DEF StoreTypeOK
<1>2. Current(slot) = "none" \/ slot[Current(slot)].counter \in Nat
  BY <1>1, CurrentRange, StoreAssumption DEF Record
<1>3. (IF Current(slot) = "none" THEN 1 ELSE slot[Current(slot)].counter + 1) \in Nat
  BY <1>2
<1>4. rec'.counter \in 0..(COUNTER_MOD - 1)
  BY <1>3, StoreAssumption DEF StoreBegin
<1> QED
  BY <1>4 DEF StoreBegin, Record

\* What an interrupted command leaves is always a pair of sectors.
LEMMA MayLeaveRange ==
  ASSUME StoreTypeOK, NEW f \in MayLeave
  PROVE  f \in [Slots -> Record]
BY InvalidIsRecord, TargetRange DEF MayLeave, StoreTypeOK

-----------------------------------------------------------------------------
LEMMA StoreInitInv == StoreInit => StoreInv
BY InvalidIsRecord, StoreAssumption
   DEF StoreInit, StoreInv, StoreTypeOK, StoreProgress, Slots

LEMMA StoreTypeStep == StoreTypeOK /\ [StoreNext]_storeVars => StoreTypeOK'
<1> SUFFICES ASSUME StoreTypeOK, [StoreNext]_storeVars PROVE StoreTypeOK'
  OBVIOUS
<1> USE InvalidIsRecord, TargetRange, MayLeaveRange
<1>1. ASSUME NEW v \in Value, StoreBegin(v) PROVE StoreTypeOK'
  BY <1>1, StampRange, CurrentRange DEF StoreBegin, StoreTypeOK
<1>2. CASE EraseTarget
  BY <1>2 DEF EraseTarget, StoreTypeOK
<1>3. CASE Program
  BY <1>3 DEF Program, StoreTypeOK
<1>4. CASE Verify
  BY <1>4 DEF Verify, StoreTypeOK
<1>5. CASE RetirePrior
  BY <1>5 DEF RetirePrior, StoreTypeOK
<1>6. CASE CommandFails
  BY <1>6 DEF CommandFails, StoreTypeOK
<1>7. CASE PowerLoss
  BY <1>7 DEF PowerLoss, StoreTypeOK
<1>8. CASE UNCHANGED storeVars
  BY <1>8 DEF storeVars, StoreTypeOK
<1> QED
  BY <1>1, <1>2, <1>3, <1>4, <1>5, <1>6, <1>7, <1>8 DEF StoreNext, StoreStep

LEMMA StoreProgressStep == StoreInv /\ [StoreNext]_storeVars => StoreProgress'
<1> SUFFICES ASSUME StoreTypeOK, StoreProgress, [StoreNext]_storeVars PROVE StoreProgress'
  BY DEF StoreInv
<1>1. ASSUME NEW v \in Value, StoreBegin(v) PROVE StoreProgress'
  <2>1. Current(slot') = cur' /\ st' = "erase"
    BY <1>1 DEF StoreBegin
  <2> QED
    BY <1>1, <2>1, StampRange DEF StoreProgress
<1>2. CASE EraseTarget
  <2>1. slot' = [slot EXCEPT ![target] = Invalid] /\ st' = "program" /\ target' = target
    BY <1>2 DEF EraseTarget, target
  <2>2. Current(slot') = cur
    BY <1>2, <2>1, TargetRange
       DEF EraseTarget, StoreProgress, StoreTypeOK, Current, target, Invalid, Slots, Record
  <2>3. slot'[target] = Invalid
    BY <2>1, TargetRange DEF StoreTypeOK
  <2> QED
    BY <1>2, <2>1, <2>2, <2>3 DEF EraseTarget, StoreProgress
<1>3. CASE Program
  <2>1. slot' \in {slot, [slot EXCEPT ![target] = rec]} /\ target' = target
    BY <1>3 DEF Program, MayLeave, target
  <2>2. slot'[target] = Invalid \/ slot'[target] = rec
    BY <1>3, <2>1, TargetRange DEF Program, StoreProgress, StoreTypeOK
  <2>3. slot'[Other(target)] = slot[Other(target)]
    BY <2>1, TargetRange DEF StoreTypeOK
  <2>4. IF cur = "none" THEN ~slot[Other(target)].valid ELSE slot[cur].valid
    BY <1>3, TargetRange, CurrentRange DEF Program, StoreProgress, StoreTypeOK, Slots
  <2> QED
    BY <1>3, <2>1, <2>2, <2>3, <2>4, TargetRange DEF Program, StoreProgress, Other
<1>4. CASE Verify
  BY <1>4 DEF Verify, StoreProgress, target, Other
<1>5. CASE RetirePrior \/ CommandFails \/ PowerLoss
  BY <1>5 DEF RetirePrior, CommandFails, PowerLoss, StoreProgress
<1>6. CASE UNCHANGED storeVars
  BY <1>6 DEF storeVars, StoreProgress, target, Other, Current
<1> QED
  BY <1>1, <1>2, <1>3, <1>4, <1>5, <1>6 DEF StoreNext, StoreStep

(***************************************************************************)
(* The sectors at every command of a store, whatever the payloads and the  *)
(* width of the counter: the current record is untouched until the new one *)
(* has been read back.                                                     *)
(***************************************************************************)
THEOREM StoreInvariant == StoreSpec => []StoreInv
<1>1. StoreInv /\ [StoreNext]_storeVars => StoreInv'
  BY StoreTypeStep, StoreProgressStep DEF StoreInv
<1> QED
  BY <1>1, StoreInitInv, PTL DEF StoreSpec

-----------------------------------------------------------------------------
(* Refinement. *)

\* What is loaded while only the target sector has changed and holds nothing
\* valid or the stamped record: the current record or the stamped one.
LEMMA TargetChange ==
  ASSUME StoreTypeOK, NEW f \in [Slots -> Record],
         f[Other(target)] = slot[Other(target)],
         ~f[target].valid \/ f[target] = rec,
         cur = "none" => ~slot[Other(target)].valid,
         cur # "none" => slot[cur].valid
  PROVE  pingpong_load(f) \in
           {rec.value, IF cur = "none" THEN Default ELSE slot[cur].value}
BY TargetRange DEF pingpong_load, Current, target, Other, Slots, Record, StoreTypeOK

\* With only the target sector valid, that is what is loaded.
LEMMA TargetAlone ==
  ASSUME StoreTypeOK, NEW f \in [Slots -> Record],
         ~f[Other(target)].valid, f[target] = rec, rec.valid
  PROVE  pingpong_load(f) = rec.value
BY TargetRange DEF pingpong_load, Current, target, Other, Slots

\* Before the program command the current record is what is loaded.
LEMMA LoadsCurrent ==
  ASSUME StoreInv, st \in {"erase", "program"}
  PROVE  /\ pingpong_load(slot) = IF cur = "none" THEN Default ELSE slot[cur].value
         /\ cur = "none" => ~slot[Other(target)].valid
         /\ cur # "none" => slot[cur].valid
<1>1. Current(slot) = cur
  BY DEF StoreInv, StoreProgress
<1> QED
  BY <1>1, CurrentRange, TargetRange DEF StoreInv, StoreTypeOK, pingpong_load, Slots

\* Every outcome of an interrupted or failing command is the old or the new value.
LEMMA InterruptedIsAtomic ==
  ASSUME StoreInv, NEW f \in MayLeave
  PROVE  /\ st # "idle" => pingpong_load(f) \in {pingpong_load(slot), rec.value}
         /\ st = "idle" => f = slot
<1> USE DEF StoreInv
<1>0. f \in [Slots -> Record]
  BY MayLeaveRange
<1>1. CASE st = "erase"
  <2>1. f \in {slot, [slot EXCEPT ![target] = Invalid]}
    BY <1>1 DEF MayLeave
  <2>2. CASE f = slot
    BY <2>2, <1>1
  <2>3. CASE f = [slot EXCEPT ![target] = Invalid]
    <3>1. f[Other(target)] = slot[Other(target)] /\ ~f[target].valid
      BY <2>3, TargetRange DEF StoreTypeOK, Invalid
    <3>2. Current(f) = Current(slot)
      BY <1>0, <1>1, <2>3, TargetRange, CurrentRange
         DEF StoreProgress, StoreTypeOK, Current, target, Invalid, Slots, Record
    <3>3. Current(slot) = cur
      BY <1>1 DEF StoreProgress
    <3>4. cur # "none" => f[cur] = slot[cur]
      BY <3>1, TargetRange
    <3> QED
      BY <1>1, <3>2, <3>3, <3>4 DEF pingpong_load
  <2> QED
    BY <2>1, <2>2, <2>3
<1>2. CASE st = "program"
  <2>1. f \in {slot, [slot EXCEPT ![target] = rec]}
    BY <1>2 DEF MayLeave
  <2>2. f[Other(target)] = slot[Other(target)] /\ (~f[target].valid \/ f[target] = rec)
    BY <1>2, <2>1, TargetRange DEF StoreProgress, StoreTypeOK, Invalid
  <2> QED
    BY <1>0, <1>2, <2>2, LoadsCurrent, TargetChange
<1>3. CASE st = "retire"
  <2>1. f \in {slot, [slot EXCEPT ![Other(target)] = Invalid]}
    BY <1>3 DEF MayLeave
  <2>2. CASE f = slot
    BY <2>2, <1>3
  <2>3. CASE f = [slot EXCEPT ![Other(target)] = Invalid]
    <3>1. ~f[Other(target)].valid /\ f[target] = rec
      BY <1>3, <2>3, TargetRange DEF StoreProgress, StoreTypeOK, Invalid
    <3> QED
      BY <1>0, <1>3, <3>1, TargetAlone DEF StoreProgress
  <2> QED
    BY <2>1, <2>2, <2>3
<1>4. CASE st \in {"idle", "verify"}
  BY <1>4 DEF MayLeave
<1> QED
  BY <1>1, <1>2, <1>3, <1>4 DEF StoreTypeOK

LEMMA AtomicInit == StoreInit => Atomic!Init
BY DEF StoreInit, Atomic!Init, pingpong_load, Current, Invalid, Slots

LEMMA AtomicStep == StoreInv /\ [StoreNext]_storeVars => [Atomic!Next]_(Atomic!vars)
<1> SUFFICES ASSUME StoreInv, [StoreNext]_storeVars
             PROVE  Atomic!Next \/ UNCHANGED Atomic!vars
  OBVIOUS
<1> USE DEF StoreInv
<1>1. ASSUME NEW v \in Value, StoreBegin(v) PROVE Atomic!Begin(v)
  BY <1>1, StampRange DEF StoreBegin, Atomic!Begin
<1>2. CASE EraseTarget
  <2>1. slot' = [slot EXCEPT ![target] = Invalid] /\ slot' \in MayLeave
    BY <1>2 DEF EraseTarget, MayLeave
  <2>2. Current(slot') = Current(slot)
    BY <1>2, <2>1, TargetRange, CurrentRange
       DEF EraseTarget, StoreProgress, StoreTypeOK, Current, target, Invalid, Slots, Record
  <2>3. Current(slot) = "none" \/ slot'[Current(slot)] = slot[Current(slot)]
    BY <1>2, <2>1, TargetRange DEF EraseTarget, StoreProgress, StoreTypeOK
  <2> QED
    BY <1>2, <2>2, <2>3 DEF EraseTarget, Atomic!vars, pingpong_load
<1>3. CASE Program
  <2>1. pingpong_load(slot') \in {pingpong_load(slot), rec.value}
    BY <1>3, InterruptedIsAtomic DEF Program
  <2> QED
    BY <1>3, <2>1 DEF Program, Atomic!Commit, Atomic!Next, Atomic!vars, pingpong_load
<1>4. CASE Verify
  <2>1. CASE slot[target] # rec
    BY <1>4, <2>1 DEF Verify, Atomic!Fail, Atomic!Next
  <2>2. CASE slot[target] = rec /\ cur = "none"
    <3>1. ~slot[Other(target)].valid /\ rec.valid
      BY <1>4, <2>2 DEF Verify, StoreProgress
    <3>2. pingpong_load(slot) = rec.value
      BY <2>2, <3>1, TargetAlone DEF StoreTypeOK
    <3> QED
      BY <1>4, <2>2, <3>2 DEF Verify, Atomic!Succeed, Atomic!Next
  <2>3. CASE slot[target] = rec /\ cur # "none"
    BY <1>4, <2>3 DEF Verify, Atomic!vars
  <2> QED
    BY <2>1, <2>2, <2>3
<1>5. CASE RetirePrior
  <2>1. slot' \in [Slots -> Record] /\ ~slot'[Other(target)].valid /\ slot'[target] = rec
    BY <1>5, TargetRange, InvalidIsRecord DEF RetirePrior, StoreProgress, StoreTypeOK, Invalid
  <2>2. pingpong_load(slot') = rec.value
    BY <1>5, <2>1, TargetAlone DEF RetirePrior, StoreProgress
  <2> QED
    BY <1>5, <2>2 DEF RetirePrior, Atomic!Succeed, Atomic!Next
<1>6. CASE CommandFails
  <2>1. pingpong_load(slot') \in {pingpong_load(slot), rec.value}
    BY <1>6, InterruptedIsAtomic DEF CommandFails
  <2> QED
    BY <1>6, <2>1 DEF CommandFails, Atomic!Fail, Atomic!Next
<1>7. CASE PowerLoss
  <2>1. /\ st # "idle" => pingpong_load(slot') \in {pingpong_load(slot), rec.value}
        /\ st = "idle" => slot' = slot
    BY <1>7, InterruptedIsAtomic DEF PowerLoss
  <2> QED
    BY <1>7, <2>1 DEF PowerLoss, Atomic!PowerLoss, Atomic!Next
<1>8. CASE UNCHANGED storeVars
  BY <1>8 DEF storeVars, Atomic!vars
<1> QED
  BY <1>1, <1>2, <1>3, <1>4, <1>5, <1>6, <1>7, <1>8 DEF StoreNext, StoreStep, Atomic!Next

(***************************************************************************)
(* pingpong_store is an atomic write: for every payload and counter width, *)
(* a failing command or a loss of power at any point leaves the old or the *)
(* new record to load, and a store that returned 0 the new one.            *)
(***************************************************************************)
THEOREM StoreIsAtomic == StoreSpec => AtomicStore
<1>1. StoreInv /\ [StoreNext]_storeVars => [Atomic!Next]_(Atomic!vars)
  BY AtomicStep
<1> QED
  BY <1>1, AtomicInit, StoreInvariant, PTL DEF StoreSpec, AtomicStore, Atomic!Spec

-----------------------------------------------------------------------------
(* The boot_config record. *)

\* While a store runs it writes the RAM copy, and nobody has been told of its end; before
\* the load there is no store and no answer.
ConfigInv ==
  /\ StoreInv /\ ram \in Value /\ ConfigTypeOK
  /\ st # "idle" => rec.value = ram /\ ack = "none"
  /\ ~up => st = "idle" /\ ack = "none"

LEMMA LoadRange ==
  ASSUME StoreTypeOK
  PROVE  pingpong_load(slot) \in Value
BY CurrentRange, StoreAssumption DEF StoreTypeOK, pingpong_load, Record

LEMMA ConfigInitInv == ConfigInit => ConfigInv
<1> SUFFICES ASSUME ConfigInit PROVE ConfigInv
  OBVIOUS
<1>1. StoreInv /\ st = "idle" /\ ack = "none" /\ up = FALSE /\ ram = Defaults
  BY StoreInitInv DEF ConfigInit, StoreInit
<1>2. Defaults \in Value /\ Defaults \in Configurations
  BY StoreAssumption, ConfigAssumption
<1> QED
  BY <1>1, <1>2 DEF ConfigInv, ConfigTypeOK, StoreInv

\* A setter or the load of a blank chip starts a store of what is then in RAM.
LEMMA BeginKeepsConfig ==
  ASSUME ConfigInv, NEW c \in Value, StoreBegin(c), ram' = c, up' = TRUE, ack' = "none"
  PROVE  ConfigInv' /\ StoreNext
<1>1. StoreNext /\ StoreTypeOK'
  BY StoreTypeStep DEF StoreNext, ConfigInv, StoreInv
<1>2. StoreInv'
  BY <1>1, StoreProgressStep DEF ConfigInv, StoreInv
<1>3. rec'.value = c
  BY StampRange DEF ConfigInv, StoreInv
<1>4. c \in Configurations
  BY ConfigAssumption
<1> QED
  BY <1>1, <1>2, <1>3, <1>4 DEF ConfigInv, ConfigTypeOK, StoreInv

\* So does every setter, or it leaves the record as it is.
LEMMA SetKeepsConfig ==
  ASSUME ConfigInv, NEW c \in Value, Set(c)
  PROVE  ConfigInv' /\ (StoreNext \/ UNCHANGED storeVars) /\ st = "idle"
<1>1. up /\ st = "idle" /\ up' = up
  BY DEF Set
<1>2. CASE c = ram
  BY <1>1, <1>2 DEF Set, ConfigInv, ConfigTypeOK, StoreInv, StoreTypeOK, StoreProgress, storeVars,
                    target, Other, Current
<1>3. CASE c # ram
  <2>1. StoreBegin(c) /\ ram' = c /\ up' = TRUE /\ ack' = "none"
    BY <1>1, <1>3 DEF Set, ConfigInv, ConfigTypeOK
  <2> QED
    BY <1>1, <2>1, BeginKeepsConfig
<1> QED
  BY <1>2, <1>3

\* Every argument of a setter makes a record.
LEMMA SetterMakesRecord ==
  ASSUME ram \in Value,
         \/ \E a \in Amps : boot_config_set_advertised_amps(a)
         \/ \E e \in AuthBytes : boot_config_set_require_rfid_auth(e)
         \/ \E p \in PolicyBytes : boot_config_set_gfci_fault_policy(p)
         \/ \E p \in 0..1, i \in Images : boot_config_set_pending_ota(p, i)
  PROVE  \/ \E c \in Value : Set(c)
         \/ up /\ st = "idle" /\ ack' = "error" /\ UNCHANGED <<storeVars, ram, up>>
<1>1. ASSUME NEW a \in Amps, boot_config_set_advertised_amps(a) PROVE \E c \in Value : Set(c)
  BY <1>1, ConfigAssumption DEF boot_config_set_advertised_amps
<1>2. ASSUME NEW e \in AuthBytes, boot_config_set_require_rfid_auth(e)
      PROVE  \E c \in Value : Set(c)
  <2> DEFINE b == IF e = 0 THEN 0 ELSE 1
  <2>1. b \in 0..1 /\ Set([ram EXCEPT !.auth = b])
    BY <1>2 DEF boot_config_set_require_rfid_auth
  <2> HIDE DEF b
  <2> QED
    BY <2>1, ConfigAssumption
<1>3. ASSUME NEW p \in PolicyBytes, boot_config_set_gfci_fault_policy(p)
      PROVE  \/ \E c \in Value : Set(c)
             \/ up /\ st = "idle" /\ ack' = "error" /\ UNCHANGED <<storeVars, ram, up>>
  <2>1. p \in Nat
    BY ConfigAssumption
  <2>2. ASSUME p <= 1, Set([ram EXCEPT !.policy = p]) PROVE \E c \in Value : Set(c)
    <3>1. p \in 0..1
      BY <2>1, <2>2
    <3> QED
      BY <2>2, <3>1, ConfigAssumption
  <2> QED
    BY <1>3, <2>2 DEF boot_config_set_gfci_fault_policy
<1>4. ASSUME NEW p \in 0..1, NEW i \in Images, boot_config_set_pending_ota(p, i)
      PROVE  \E c \in Value : Set(c)
  <2> DEFINE j == IF p = 0 THEN 0 ELSE i
  <2>1. j \in Images \cup {0} /\ Set([ram EXCEPT !.pending = p, !.image = j])
    BY <1>4 DEF boot_config_set_pending_ota
  <2> HIDE DEF j
  <2> QED
    BY <2>1, ConfigAssumption
<1> QED
  BY <1>1, <1>2, <1>3, <1>4

\* The end of a store that returned 0 is the commit of AtomicRecord.
LEMMA OkIsCommitted ==
  ASSUME StoreInv, StoreStep, st' = "idle", result' = "ok"
  PROVE  pingpong_load(slot') = rec.value
<1>1. st # "idle" /\ StoreNext
  BY DEF StoreStep, EraseTarget, Program, Verify, RetirePrior, CommandFails, StoreNext
<1>2. Atomic!Next \/ UNCHANGED Atomic!vars
  BY <1>1, AtomicStep
<1> QED
  BY <1>1, <1>2 DEF Atomic!Next, Atomic!vars, Atomic!Begin, Atomic!Commit, Atomic!Succeed,
                    Atomic!Fail, Atomic!PowerLoss

\* What every step of the record does: it keeps the invariant, it is a step of the store
\* or leaves it alone, and it acknowledges only what is stored.
ConfigMoves ==
  /\ ConfigInv' /\ (StoreNext \/ UNCHANGED storeVars)
  /\ st # "idle" /\ ack' = "ok" => pingpong_load(slot') = ram'

LEMMA StoreRunsMoves == ASSUME ConfigInv, StoreRuns PROVE ConfigMoves
<1>1. /\ StoreStep /\ UNCHANGED <<ram, up>>
      /\ ack' = IF st' = "idle" THEN result' ELSE ack
  BY DEF StoreRuns
<1>2. st # "idle" /\ StoreNext /\ rec' = rec
  BY <1>1 DEF StoreStep, EraseTarget, Program, Verify, RetirePrior, CommandFails, StoreNext
<1>3. StoreInv'
  BY <1>2, StoreTypeStep, StoreProgressStep DEF ConfigInv, StoreInv
<1>4. ack = "none" /\ rec.value = ram /\ up
  BY <1>2 DEF ConfigInv, ConfigTypeOK
<1>5. ConfigInv'
  BY <1>1, <1>2, <1>3, <1>4 DEF ConfigInv, ConfigTypeOK, StoreInv, StoreTypeOK
<1>6. ack' = "ok" => pingpong_load(slot') = ram'
  BY <1>1, <1>4, OkIsCommitted DEF ConfigInv
<1> QED
  BY <1>2, <1>5, <1>6 DEF ConfigMoves

LEMMA LoadMoves == ASSUME ConfigInv, Load PROVE ConfigMoves
<1>1. st = "idle" /\ ~up /\ up' = TRUE /\ ack' = "none" /\ ram' = pingpong_load(slot)
  BY DEF Load, ConfigInv
<1>2. CASE Current(slot) = "none"
  <2>1. StoreBegin(Defaults) /\ ram' = Defaults /\ Defaults \in Value
    BY <1>1, <1>2, StoreAssumption, ConfigAssumption DEF Load, pingpong_load
  <2> QED
    BY <1>1, <2>1, BeginKeepsConfig DEF ConfigMoves
<1>3. CASE Current(slot) # "none"
  <2>1. UNCHANGED storeVars /\ ram' \in Value /\ ram' \in Configurations
    BY <1>1, <1>3, LoadRange, ConfigAssumption DEF Load, ConfigInv, StoreInv
  <2>2. StoreInv'
    BY <2>1 DEF ConfigInv, StoreInv, StoreTypeOK, StoreProgress, storeVars, target, Other, Current
  <2> QED
    BY <1>1, <2>1, <2>2 DEF ConfigMoves, ConfigInv, ConfigTypeOK, StoreInv, storeVars
<1> QED
  BY <1>2, <1>3

LEMMA PowerLossMoves == ASSUME ConfigInv, ConfigPowerLoss PROVE ConfigMoves
<1>1. /\ PowerLoss /\ StoreNext /\ st' = "idle"
      /\ ram' = Defaults /\ up' = FALSE /\ ack' = "none"
  BY DEF ConfigPowerLoss, PowerLoss, StoreNext
<1>2. StoreInv'
  BY <1>1, StoreTypeStep, StoreProgressStep DEF ConfigInv, StoreInv
<1>3. Defaults \in Value /\ Defaults \in Configurations
  BY StoreAssumption, ConfigAssumption
<1> QED
  BY <1>1, <1>2, <1>3 DEF ConfigMoves, ConfigInv, ConfigTypeOK, StoreInv

LEMMA ConfigStep == ConfigInv /\ [ConfigNext]_configVars => ConfigMoves
<1> SUFFICES ASSUME ConfigInv, [ConfigNext]_configVars PROVE ConfigMoves
  OBVIOUS
<1>1. ASSUME NEW c \in Value, Set(c) PROVE ConfigMoves
  BY <1>1, SetKeepsConfig DEF ConfigMoves
<1>2. ASSUME UNCHANGED <<storeVars, ram, up>>, st # "idle" => ack' = ack,
             ack' \in {"none", "ok", "error"}, ~up => ack' = ack
      PROVE  ConfigMoves
  <2>1. StoreInv'
    BY <1>2 DEF ConfigInv, StoreInv, StoreTypeOK, StoreProgress, storeVars, target, Other, Current
  <2> QED
    BY <1>2, <2>1 DEF ConfigMoves, ConfigInv, ConfigTypeOK, StoreInv, storeVars
<1>3. CASE UNCHANGED configVars
  BY <1>2, <1>3 DEF configVars, ConfigInv, ConfigTypeOK
<1>4. CASE \/ \E a \in Amps : boot_config_set_advertised_amps(a)
           \/ \E e \in AuthBytes : boot_config_set_require_rfid_auth(e)
           \/ \E p \in PolicyBytes : boot_config_set_gfci_fault_policy(p)
           \/ \E p \in 0..1, i \in Images : boot_config_set_pending_ota(p, i)
  <2>1. \/ \E c \in Value : Set(c)
        \/ up /\ st = "idle" /\ ack' = "error" /\ UNCHANGED <<storeVars, ram, up>>
    BY <1>4, SetterMakesRecord DEF ConfigInv
  <2> QED
    BY <1>1, <1>2, <2>1
<1> QED
  BY <1>3, <1>4, LoadMoves, StoreRunsMoves, PowerLossMoves DEF ConfigNext

(***************************************************************************)
(* The settings record behind its setters, whatever their arguments: the   *)
(* RAM copy keeps every field in its range, a store under way writes what  *)
(* is in RAM, and nothing is acknowledged while it runs.                   *)
(***************************************************************************)
THEOREM ConfigInvariant == ConfigSpec => []ConfigInv
<1>1. ConfigInv /\ [ConfigNext]_configVars => ConfigInv'
  BY ConfigStep DEF ConfigMoves
<1> QED
  BY <1>1, ConfigInitInv, PTL DEF ConfigSpec

\* The setters, the load with its defaults and every loss of power use pingpong_store as
\* an atomic write.
THEOREM ConfigIsAtomic == ConfigSpec => AtomicStore
<1>1. ConfigInv /\ [ConfigNext]_configVars => [Atomic!Next]_(Atomic!vars)
  <2> SUFFICES ASSUME ConfigInv, [ConfigNext]_configVars PROVE [Atomic!Next]_(Atomic!vars)
    OBVIOUS
  <2>1. [StoreNext]_storeVars
    BY ConfigStep DEF ConfigMoves
  <2> QED
    BY <2>1, AtomicStep DEF ConfigInv
<1>2. ConfigInit => Atomic!Init
  BY AtomicInit DEF ConfigInit
<1> QED
  BY <1>1, <1>2, ConfigInvariant, PTL DEF ConfigSpec, AtomicStore, Atomic!Spec

\* What a setter acknowledges is what a boot loads, every field of it, also after earlier
\* setters whose stores failed.
THEOREM AcknowledgedIsDurable == ConfigSpec => StoredIsDurable
<1>1. ConfigInv /\ [ConfigNext]_configVars =>
        [st # "idle" /\ ack' = "ok" => pingpong_load(slot') = ram']_configVars
  BY ConfigStep DEF ConfigMoves
<1> QED
  BY <1>1, ConfigInvariant, PTL DEF ConfigSpec, StoredIsDurable

-----------------------------------------------------------------------------
(* The io task: the alarm, the lamp and the buttons. *)

Published == Snapshots \cup {Boot}
Patterns  == Alarms \cup {"OFF", "BOOT_PASS", "BOOT_FAIL", "SESSION_START", "SESSION_END", "ONESHOT"}

\* A copy that was not torn is what is published.
CopyInv ==
  /\ published \in Published /\ copy \in [busy : BOOLEAN, s : Published, torn : BOOLEAN]
  /\ copy.busy /\ ~copy.torn => copy.s = published

LEMMA CopyInit == PanelInit => CopyInv
BY DEF PanelInit, CopyInv, Published, NotCopying

LEMMA CopyStep == CopyInv /\ [PanelNext]_panelVars => CopyInv'
<1> SUFFICES ASSUME CopyInv, [PanelNext]_panelVars PROVE CopyInv' OBVIOUS
<1>1. ASSUME NEW s \in Snapshots, PublishState(s) PROVE CopyInv'
  BY <1>1 DEF PublishState, CopyInv, Published
<1>2. ASSUME NEW raw \in Raws, NEW pressed \in Pc9, PollBegin(raw, pressed) PROVE CopyInv'
  BY <1>2 DEF PollBegin, CopyInv
<1>3. ASSUME NEW busy \in BOOLEAN, PollEnd(busy) PROVE CopyInv'
  BY <1>3 DEF PollEnd, CopyInv, NotCopying, Published
<1>4. CASE UNCHANGED <<published, copy>>
  BY <1>4 DEF CopyInv
<1> QED
  BY <1>1, <1>2, <1>3, <1>4 DEF PanelNext, Beep, BeepStart, Override, HelperPoll,
     HelperPulseEnd, panelVars

-----------------------------------------------------------------------------
(* The button count. *)

LadderButtons == {"bot", "mid", "top", "none"}

\* The count is of readings in a row at the end of the window; the one before them, if the
\* window shows it, is of another button, or that button is committed already.  What is
\* committed is the top button from a window full of it to the next full of another.
LadderInv ==
  /\ ladder = [candidate |-> ladder.candidate, count |-> ladder.count, committed |-> ladder.committed]
  /\ ladder.candidate \in LadderButtons /\ ladder.committed \in LadderButtons
  /\ ladder.count \in 0..DEBOUNCE_N
  /\ recent \in [1..DEBOUNCE_N -> LadderButtons] /\ let_go \in BOOLEAN
  /\ recent[DEBOUNCE_N] = ladder.candidate
  /\ \A i \in 1..DEBOUNCE_N : i > DEBOUNCE_N - ladder.count => recent[i] = ladder.candidate
  /\ ladder.count < DEBOUNCE_N =>
       \/ recent[DEBOUNCE_N - ladder.count] # ladder.candidate
       \/ ladder.committed = ladder.candidate
  /\ let_go <=> ladder.committed # "top"

\* One poll of the ladder.
Polled(class) ==
  /\ ladder' = Debounced(ladder, class)
  /\ recent' = [i \in 1..DEBOUNCE_N |-> IF i < DEBOUNCE_N THEN recent[i + 1] ELSE class]
  /\ let_go' = IF AllOf(recent', "top") THEN FALSE
               ELSE let_go \/ \E other \in {"bot", "mid", "none"} : AllOf(recent', other)

LEMMA LadderInit == PanelInit => LadderInv
BY PanelAssumption DEF PanelInit, LadderInv, LadderButtons

LEMMA PollIsPolled ==
  ASSUME LadderInv, NEW raw \in Raws, NEW pressed \in Pc9, PollBegin(raw, pressed)
  PROVE  \E class \in LadderButtons : Polled(class)
<1> DEFINE class == classify_ladder(raw)
<1>1. class \in LadderButtons
  BY PanelAssumption DEF LadderInv, LadderButtons, classify_ladder, Band
<1>2. class = IF Band(raw) = "gap" THEN recent[DEBOUNCE_N] ELSE Band(raw)
  BY DEF LadderInv, classify_ladder
<1>3. recent' = [i \in 1..DEBOUNCE_N |-> IF i < DEBOUNCE_N THEN recent[i + 1] ELSE class]
  <2>1. \A i \in 1..DEBOUNCE_N : ~(i < DEBOUNCE_N) => i = DEBOUNCE_N
    BY PanelAssumption
  <2> HIDE DEF class
  <2> QED
    BY <1>2, <2>1 DEF PollBegin, buttons_poll, Reading
<1>4. Polled(class)
  BY <1>3 DEF PollBegin, buttons_poll, Polled
<1> QED
  BY <1>1, <1>4

\* The window after a poll, against the count and what is committed.
LEMMA PolledStep ==
  ASSUME LadderInv, NEW class \in LadderButtons, Polled(class)
  PROVE  /\ LadderInv'
         /\ ladder'.committed = "top" /\ ladder.committed # "top"
              <=> AllOf(recent', "top") /\ let_go
<1> DEFINE N == DEBOUNCE_N
           n == IF class = ladder.candidate THEN Upto(ladder.count, N) ELSE 1
<1>1. N \in Nat \ {0} /\ n \in 1..N
  BY PanelAssumption DEF LadderInv, Upto
<1>2. ladder' = [candidate |-> class, count |-> n,
                 committed |-> IF n >= N THEN class ELSE ladder.committed]
  BY DEF Polled, Debounced
<1>3. /\ recent' \in [1..N -> LadderButtons] /\ recent'[N] = class
      /\ \A i \in 1..N : i < N => recent'[i] = recent[i + 1]
  BY <1>1 DEF Polled, LadderInv
<1>4. \A i \in 1..N : i > N - n => recent'[i] = class
  <2>1. CASE class = ladder.candidate
    <3>1. n <= ladder.count + 1
      BY <1>1, <2>1 DEF Upto, LadderInv
    <3>2. ASSUME NEW i \in 1..N, i > N - n, i < N PROVE recent'[i] = class
      <4>1. i + 1 \in 1..N /\ i + 1 > N - ladder.count
        BY <1>1, <3>1, <3>2 DEF LadderInv
      <4> QED
        BY <1>3, <2>1, <3>2, <4>1 DEF LadderInv
    <3> QED
      BY <1>1, <1>3, <3>2
  <2>2. CASE class # ladder.candidate
    BY <1>1, <1>3, <2>2
  <2> QED
    BY <2>1, <2>2
<1>5. n < N => recent'[N - n] # class \/ ladder.committed = class
  <2> SUFFICES ASSUME n < N PROVE recent'[N - n] # class \/ ladder.committed = class
    OBVIOUS
  <2>1. N - n \in 1..N /\ recent'[N - n] = recent[N - n + 1]
    BY <1>1, <1>3
  <2>2. CASE class = ladder.candidate
    <3>1. n = ladder.count + 1 /\ ladder.count < N
      BY <1>1, <2>2 DEF Upto, LadderInv
    <3>2. N - n + 1 = N - ladder.count
      BY <1>1, <3>1 DEF LadderInv
    <3> QED
      BY <2>1, <2>2, <3>1, <3>2 DEF LadderInv
  <2>3. CASE class # ladder.candidate
    <3>1. N - n + 1 = N
      BY <1>1, <2>3
    <3> QED
      BY <2>1, <2>3, <3>1 DEF LadderInv
  <2> QED
    BY <2>2, <2>3
<1> DEFINE settled == IF n >= N THEN class ELSE ladder.committed
<1>6. settled \in LadderButtons /\ ladder'.committed = settled /\ ladder'.candidate = class
      /\ ladder'.count = n
  BY <1>2 DEF LadderInv
<1>7. \A b \in LadderButtons : AllOf(recent', b) => settled = b
  <2> SUFFICES ASSUME NEW b \in LadderButtons, AllOf(recent', b) PROVE settled = b
    OBVIOUS
  <2>1. class = b
    BY <1>1, <1>3 DEF AllOf
  <2>2. CASE n >= N
    BY <2>1, <2>2
  <2>3. CASE ~(n >= N)
    <3>1. N - n \in 1..N /\ n < N
      BY <1>1, <2>3
    <3>2. recent'[N - n] = class
      BY <2>1, <3>1 DEF AllOf
    <3> QED
      BY <1>5, <2>1, <2>3, <3>1, <3>2
  <2> QED
    BY <2>2, <2>3
<1>8. settled # ladder.committed => AllOf(recent', settled)
  <2> SUFFICES ASSUME settled # ladder.committed PROVE AllOf(recent', settled)
    OBVIOUS
  <2>1. n = N /\ settled = class
    BY <1>1
  <2> QED
    BY <1>1, <1>4, <2>1 DEF AllOf
<1> HIDE DEF settled, n
<1>9. settled = "top" /\ ladder.committed # "top" <=> AllOf(recent', "top") /\ let_go
  BY <1>7, <1>8 DEF LadderInv, LadderButtons
<1>10. let_go' \in BOOLEAN /\ (let_go' <=> settled # "top")
  <2>1. CASE AllOf(recent', "top")
    BY <1>7, <2>1 DEF Polled, LadderButtons
  <2>2. CASE ~AllOf(recent', "top")
    <3>1. let_go' = (let_go \/ \E other \in {"bot", "mid", "none"} : AllOf(recent', other))
      BY <2>2 DEF Polled
    <3>2. CASE settled # ladder.committed
      <4>1. settled \in {"bot", "mid", "none"} /\ AllOf(recent', settled)
        BY <1>6, <1>8, <2>2, <3>2 DEF LadderButtons
      <4> QED
        BY <3>1, <4>1
    <3>3. CASE settled = ladder.committed
      <4>1. ASSUME NEW other \in {"bot", "mid", "none"}, AllOf(recent', other) PROVE settled = other
        BY <1>7, <4>1 DEF LadderButtons
      <4> QED
        BY <3>1, <3>3, <4>1 DEF LadderInv
    <3> QED
      BY <3>2, <3>3
  <2> QED
    BY <2>1, <2>2
<1>11. LadderInv'
  <2>1. ladder' = [candidate |-> ladder'.candidate, count |-> ladder'.count,
                   committed |-> ladder'.committed]
    BY <1>2
  <2>2. n \in 0..N
    BY <1>1
  <2> QED
    BY <1>3, <1>4, <1>5, <1>6, <1>10, <2>1, <2>2 DEF LadderInv, settled
<1> QED
  BY <1>6, <1>9, <1>11

LEMMA LadderStep == LadderInv /\ [PanelNext]_panelVars => LadderInv'
<1> SUFFICES ASSUME LadderInv, [PanelNext]_panelVars PROVE LadderInv' OBVIOUS
<1>1. ASSUME NEW raw \in Raws, NEW pressed \in Pc9, PollBegin(raw, pressed) PROVE LadderInv'
  BY <1>1, PollIsPolled, PolledStep
<1>2. CASE UNCHANGED <<ladder, recent, let_go>>
  BY <1>2 DEF LadderInv
<1> QED
  BY <1>1, <1>2 DEF PanelNext, PublishState, PollEnd, Beep, BeepStart, Override, HelperPoll,
     HelperPulseEnd, buttonVars, panelVars

\* For every length of the debounce and every sequence of readings, the count and the last
\* candidate of buttons_poll decide as the window of the last DEBOUNCE_N readings does: the
\* top button is reported when they are all of it for the first time since they were all of
\* another (or PC9 is pressed in the same poll, which buttons_consume_event returns instead).
THEOREM PressesAreCounted == PanelSpec => PressesCount
<1>1. ASSUME CopyInv, LadderInv, [PanelNext]_panelVars
      PROVE  [copy'.busy /\ ~copy.busy =>
                \/ event' = "pc9"
                \/ event' = "top" <=> AllOf(recent', "top") /\ let_go]_panelVars
  <2> SUFFICES ASSUME PanelNext, copy'.busy, ~copy.busy
               PROVE  \/ event' = "pc9"
                      \/ event' = "top" <=> AllOf(recent', "top") /\ let_go
    BY <1>1
  <2>1. PICK raw \in Raws, pressed \in Pc9 : PollBegin(raw, pressed)
    <3>1. ASSUME NEW s \in Snapshots, PublishState(s) PROVE FALSE
      BY <1>1, <3>1 DEF PublishState, CopyInv
    <3>2. ASSUME NEW busy \in BOOLEAN, PollEnd(busy) PROVE FALSE
      BY <3>2 DEF PollEnd
    <3> QED BY <3>1, <3>2 DEF PanelNext, Beep, BeepStart, Override, HelperPoll, HelperPulseEnd
  <2>2. PICK class \in LadderButtons : Polled(class)
    BY <1>1, <2>1, PollIsPolled
  <2>3. ladder'.committed = "top" /\ ladder.committed # "top" <=> AllOf(recent', "top") /\ let_go
    BY <1>1, <2>2, PolledStep
  <2>4. event' = IF pc9'.committed /\ ~pc9.committed THEN "pc9"
                 ELSE IF ladder'.committed # ladder.committed THEN ladder'.committed ELSE "none"
    BY <2>1 DEF PollBegin, buttons_poll
  <2> QED BY <2>3, <2>4
<1> QED
  BY <1>1, CopyInit, CopyStep, LadderInit, LadderStep, PTL DEF PanelSpec, PressesCount

-----------------------------------------------------------------------------
(* The alarm. *)

\* An alarm pattern never reaches the length at which buzzer_tick ends a pattern.
Beeper(b) ==
  /\ b.pattern \in Patterns /\ b.age \in Int /\ b.oneshot \in Int /\ b.on \in BOOLEAN
  /\ b.pattern \in Alarms => b.age < 7000

\* Without latched faults no alarm sounds, whatever beeps and torn copies came; and
\* while nothing has disturbed it, neither the boot pattern nor the end of a session is due
\* in a poll that finds the fault it already knows.
EdgeInv ==
  /\ prev.fault = {} => buzzer.pattern \notin Alarms
  /\ beep # 0 => disturbed
  /\ ~disturbed /\ prev.fault # {} => ~prev.charging /\ ~armed /\ buzzer.pattern \in Alarms

\* The lamp looks at the bits.
LampInv ==
  /\ lamp = [scheme |-> lamp.scheme, ratio |-> lamp.ratio, fresh |-> lamp.fresh]
  /\ lamp.fresh /\ lamp.scheme # "override" =>
       (lamp.scheme \in {"red 2 Hz", "red 5 Hz"} <=> prev.fault # {})

AlarmInv == CopyInv /\ Beeper(buzzer) /\ EdgeInv /\ LampInv

LEMMA UnsetAge == UNSET \in Int /\ UNSET < 7000
BY DEF UNSET

\* Setting a pattern starts it, or leaves the one that runs.
LEMMA SetPattern ==
  ASSUME NEW b, Beeper(b), NEW p \in Patterns
  PROVE  Beeper(buzzer_set_pattern(b, p)) /\ buzzer_set_pattern(b, p).pattern = p
BY UnsetAge DEF buzzer_set_pattern, Buzzer, Beeper

\* What a pattern sounds like is on or off.
LEMMA SoundingType == ASSUME NEW b, NEW dt PROVE Sounding(b, dt) \in BOOLEAN
<1>1. CASE b.pattern = "BOOT_PASS" BY <1>1 DEF Sounding
<1>2. CASE b.pattern = "BOOT_FAIL" BY <1>2 DEF Sounding
<1>3. CASE b.pattern = "SESSION_START" BY <1>3 DEF Sounding
<1>4. CASE b.pattern = "SESSION_END" BY <1>4 DEF Sounding
<1>5. CASE b.pattern = "FAULT_NON_GFCI" BY <1>5 DEF Sounding
<1>6. CASE b.pattern = "FAULT_GFCI" BY <1>6 DEF Sounding
<1>7. CASE b.pattern = "ONESHOT" BY <1>7 DEF Sounding
<1>8. CASE b.pattern \notin {"BOOT_PASS", "BOOT_FAIL", "SESSION_START", "SESSION_END",
                             "FAULT_NON_GFCI", "FAULT_GFCI", "ONESHOT"}
  BY <1>8 DEF Sounding
<1> QED BY <1>1, <1>2, <1>3, <1>4, <1>5, <1>6, <1>7, <1>8

\* A tick keeps an alarm going, and starts none.
LEMMA TickPattern ==
  ASSUME NEW b, Beeper(b)
  PROVE  /\ Beeper(buzzer_tick(b))
         /\ b.pattern \in Alarms => buzzer_tick(b).pattern = b.pattern
         /\ b.pattern \notin Alarms => buzzer_tick(b).pattern \notin Alarms
<1> DEFINE dt == IF b.age = UNSET THEN 0 ELSE b.age + IO_TICK_MS
<1>1. dt \in Int /\ IO_TICK_MS \in 1..2000
  BY PanelAssumption, UnsetAge DEF Beeper
<1>2. ASSUME b.pattern \in Alarms PROVE dt < 9000
  <2>1. b.age \in Int /\ b.age < 7000 BY <1>2 DEF Beeper
  <2> QED BY <2>1, <1>1
<1> HIDE DEF dt
<1>3. Sounding(b, dt) \in BOOLEAN
  BY SoundingType
<1>4. Age(b, dt) \in Int /\ (b.pattern \in Alarms => Age(b, dt) < 7000)
  <2>1. CASE b.pattern \in {"FAULT_NON_GFCI", "BOOT_FAIL"}
    <3>1. Age(b, dt) = dt % 2000 BY <2>1 DEF Age
    <3>2. dt % 2000 \in 0..1999 BY <1>1
    <3> QED BY <3>1, <3>2
  <2>2. CASE b.pattern = "FAULT_GFCI"
    <3>1. Age(b, dt) = IF dt < 7000 THEN dt ELSE dt - 2000 BY <2>2 DEF Age
    <3> QED BY <3>1, <2>2, <1>1, <1>2 DEF Alarms
  <2>3. CASE b.pattern \notin {"FAULT_NON_GFCI", "BOOT_FAIL", "FAULT_GFCI"}
    <3>1. Age(b, dt) = IF dt > LONG THEN LONG ELSE dt BY <2>3 DEF Age
    <3> QED BY <3>1, <2>3, <1>1 DEF Alarms, LONG
  <2> QED BY <2>1, <2>2, <2>3
<1>5. ASSUME b.pattern \in Alarms PROVE Length(b) = LONG
  BY <1>5 DEF Length, Alarms
<1>6. CASE b.pattern = "OFF"
  <2> DEFINE age == IF b.age = UNSET THEN UNSET ELSE LONG
  <2>1. buzzer_tick(b) = Buzzer("OFF", age, b.oneshot, FALSE)
    BY <1>6 DEF buzzer_tick
  <2>2. age \in Int BY UnsetAge DEF LONG
  <2> HIDE DEF age
  <2> QED BY <2>1, <2>2, <1>6 DEF Beeper, Alarms, Patterns, Buzzer
<1>7. CASE b.pattern # "OFF"
  <2> DEFINE pattern == IF dt >= Length(b) THEN "OFF" ELSE b.pattern
  <2>1. buzzer_tick(b) = Buzzer(pattern, Age(b, dt), b.oneshot, Sounding(b, dt))
    BY <1>7 DEF buzzer_tick, dt
  <2>2. b.pattern \in Alarms => pattern = b.pattern
    BY <1>1, <1>2, <1>5 DEF LONG
  <2>3. pattern \in Patterns /\ (b.pattern \notin Alarms => pattern \notin Alarms)
    BY DEF Beeper, Patterns, Alarms
  <2> HIDE DEF pattern
  <2> QED BY <2>1, <2>2, <2>3, <1>3, <1>4 DEF Beeper, Buzzer
<1> QED BY <1>6, <1>7

\* What a copy shows: the EVSE state it began with, the fault bits it ended with.
LEMMA CopiedSnapshot ==
  ASSUME NEW c \in Published, NEW l, NEW a
  PROVE  /\ [c EXCEPT !.latched = l, !.amps_x10 = a].evse = c.evse
         /\ [c EXCEPT !.latched = l, !.amps_x10 = a].latched = l
         /\ c.evse \in {"BOOT", "SELF_TEST", "READY", "CHARGING", "USER_PAUSED", "COOLING_DOWN", "FAULT"}
         /\ c.evse = "FAULT" <=> c.latched # {}
<1>1. /\ c = Snapshot(c.evse, c.j1772, c.latched, c.adv, c.amps_x10)
      /\ c.evse \in {"BOOT", "SELF_TEST", "READY", "CHARGING", "USER_PAUSED", "COOLING_DOWN", "FAULT"}
      /\ c.evse = "FAULT" <=> c.latched # {}
  <2>1. CASE c \in Snapshots BY <2>1, PanelAssumption
  <2>2. CASE c = Boot BY <2>2 DEF Boot, Snapshot
  <2> QED BY <2>1, <2>2 DEF Published
<1>2. DOMAIN c = {"evse", "j1772", "latched", "adv", "amps_x10"}
  BY <1>1 DEF Snapshot
<1> QED BY <1>1, <1>2

\* The patterns of one poll: an alarm begins with the fault and ends with it.
LEMMA BuzzPattern ==
  ASSUME Beeper(buzzer), NEW s,
         prev.fault = {} => buzzer.pattern \notin Alarms
  PROVE  /\ Beeper(Buzz(buzzer, s))
         /\ s.latched = {} => Buzz(buzzer, s).pattern \notin Alarms
         /\ s.latched # {} /\ prev.fault = {} => Buzz(buzzer, s).pattern \in Alarms
         /\ s.latched # {} /\ prev.fault # {} /\ ~armed /\ ~prev.charging /\ s.evse # "CHARGING"
              => Buzz(buzzer, s) = buzzer
<1> DEFINE boot == BootBuzz(buzzer, s)  session == SessionBuzz(boot, s)
<1>1. /\ Beeper(boot) /\ (boot = buzzer \/ boot.pattern \in {"BOOT_PASS", "BOOT_FAIL"})
      /\ ~armed => boot = buzzer
  BY SetPattern DEF BootBuzz, Patterns
<1> HIDE DEF boot
<1>2. /\ Beeper(session) /\ (session = boot \/ session.pattern \in {"SESSION_START", "SESSION_END"})
      /\ ~prev.charging /\ s.evse # "CHARGING" => session = boot
  BY <1>1, SetPattern DEF SessionBuzz, Patterns
<1> HIDE DEF session
<1>3. Buzz(buzzer, s) = FaultBuzz(session, s) BY DEF Buzz, session, boot
<1>4. CASE s.latched # {} /\ prev.fault = {}
  <2> DEFINE p == IF "GFCI" \in s.latched THEN "FAULT_GFCI" ELSE "FAULT_NON_GFCI"
  <2>1. Buzz(buzzer, s) = buzzer_set_pattern(session, p) BY <1>3, <1>4 DEF FaultBuzz
  <2>2. p \in Alarms /\ p \in Patterns BY DEF Alarms, Patterns
  <2> HIDE DEF p
  <2> QED BY <1>2, <1>4, <2>1, <2>2, SetPattern
<1>5. CASE s.latched = {} /\ prev.fault # {}
  <2>1. Buzz(buzzer, s) = buzzer_set_pattern(session, "OFF") BY <1>3, <1>5 DEF FaultBuzz
  <2> QED BY <1>2, <1>5, <2>1, SetPattern DEF Patterns, Alarms
<1>6. CASE (s.latched = {}) <=> (prev.fault = {})
  <2>1. Buzz(buzzer, s) = session BY <1>3, <1>6 DEF FaultBuzz
  <2>2. prev.fault = {} => session.pattern \notin Alarms
    BY <1>1, <1>2 DEF Alarms
  <2> QED BY <1>1, <1>2, <1>6, <2>1, <2>2
<1> QED BY <1>4, <1>5, <1>6

LEMMA AlarmInit == PanelInit => AlarmInv
<1> SUFFICES ASSUME PanelInit PROVE AlarmInv OBVIOUS
<1>1. Beeper(buzzer) /\ buzzer.pattern = "OFF"
  BY UnsetAge DEF PanelInit, Beeper, Buzzer, Alarms, Patterns
<1>2. EdgeInv BY <1>1 DEF PanelInit, EdgeInv, Alarms
<1>3. LampInv BY DEF PanelInit, LampInv
<1> QED BY <1>1, <1>2, <1>3, CopyInit DEF AlarmInv

LEMMA AlarmStep == AlarmInv /\ [PanelNext]_panelVars => AlarmInv'
<1> SUFFICES ASSUME AlarmInv, [PanelNext]_panelVars PROVE AlarmInv' OBVIOUS
<1>0. CopyInv' BY CopyStep DEF AlarmInv
<1>1. ASSUME NEW busy \in BOOLEAN, PollEnd(busy) PROVE AlarmInv'
  <2> DEFINE s == [copy.s EXCEPT !.latched = published.latched, !.amps_x10 = published.amps_x10]
             b == Buzz(buzzer, s)
  <2>1. /\ s.latched = published.latched
        /\ s.evse \in {"BOOT", "SELF_TEST", "READY", "CHARGING", "USER_PAUSED", "COOLING_DOWN", "FAULT"}
        /\ ~copy.torn => (s.evse = "FAULT" <=> s.latched # {})
    <3>1. copy.s \in Published /\ (~copy.torn => copy.s = published)
      BY <1>1 DEF AlarmInv, CopyInv, PollEnd
    <3> QED BY <3>1, CopiedSnapshot
  <2>2. /\ armed' = (armed /\ s.evse \in {"BOOT", "SELF_TEST"})
        /\ prev' = [charging |-> s.evse = "CHARGING", fault |-> s.latched]
        /\ buzzer' = buzzer_tick(b)
        /\ lamp' = IF busy THEN [lamp EXCEPT !.fresh = FALSE] ELSE led_render(override, s)
        /\ disturbed' = IF s.latched = {} /\ ~copy.torn THEN beep # 0 ELSE disturbed \/ copy.torn
        /\ UNCHANGED beep
    BY <1>1 DEF PollEnd
  <2> HIDE DEF s
  <2>3. /\ Beeper(b)
        /\ s.latched = {} => b.pattern \notin Alarms
        /\ s.latched # {} /\ prev.fault = {} => b.pattern \in Alarms
        /\ s.latched # {} /\ prev.fault # {} /\ ~armed /\ ~prev.charging /\ s.evse # "CHARGING"
             => b = buzzer
    BY BuzzPattern DEF AlarmInv, EdgeInv
  <2> HIDE DEF b
  <2>4. Beeper(buzzer') /\ (buzzer'.pattern \in Alarms <=> b.pattern \in Alarms)
    BY <2>2, <2>3, TickPattern
  <2>5. EdgeInv'
    <3>1. prev'.fault = s.latched /\ prev'.charging = (s.evse = "CHARGING")
      BY <2>2
    <3>2. prev'.fault = {} => buzzer'.pattern \notin Alarms
      BY <2>3, <2>4, <3>1
    <3>3. beep' # 0 => disturbed'
      BY <2>2 DEF AlarmInv, EdgeInv
    <3>4. ASSUME ~disturbed', prev'.fault # {} 
          PROVE  ~prev'.charging /\ ~armed' /\ buzzer'.pattern \in Alarms
      <4>1. ~disturbed /\ ~copy.torn /\ s.latched # {} /\ s.evse = "FAULT"
        BY <2>1, <2>2, <3>1, <3>4
      <4>2. ~prev'.charging /\ ~armed'
        BY <2>2, <3>1, <4>1
      <4>3. CASE prev.fault = {} BY <2>3, <2>4, <4>1, <4>2, <4>3
      <4>4. CASE prev.fault # {}
        <5>1. ~prev.charging /\ ~armed /\ buzzer.pattern \in Alarms
          BY <4>1, <4>4 DEF AlarmInv, EdgeInv
        <5> QED BY <2>3, <2>4, <4>1, <4>2, <4>4, <5>1
      <4> QED BY <4>3, <4>4
    <3> QED BY <3>2, <3>3, <3>4 DEF EdgeInv
  <2>6. LampInv'
    <3>1. CASE busy
      <4>1. lamp' = [lamp EXCEPT !.fresh = FALSE] BY <2>2, <3>1
      <4>2. lamp = [scheme |-> lamp.scheme, ratio |-> lamp.ratio, fresh |-> lamp.fresh]
        BY DEF AlarmInv, LampInv
      <4>3. lamp' = [scheme |-> lamp.scheme, ratio |-> lamp.ratio, fresh |-> FALSE]
        BY <4>1, <4>2
      <4> QED BY <4>3 DEF LampInv
    <3>2. CASE ~busy
      <4>1. lamp' = led_render(override, s) /\ prev'.fault = s.latched BY <2>2, <3>2
      <4>2. /\ lamp' = [scheme |-> lamp'.scheme, ratio |-> lamp'.ratio, fresh |-> lamp'.fresh]
            /\ lamp'.scheme # "override" =>
                 (lamp'.scheme \in {"red 2 Hz", "red 5 Hz"} <=> s.latched # {})
        <5>1. CASE override = 1 BY <4>1, <5>1 DEF led_render
        <5>2. CASE override # 1 /\ s.latched # {} BY <4>1, <5>2 DEF led_render
        <5>3. CASE override # 1 /\ s.latched = {} BY <2>1, <4>1, <5>3 DEF led_render
        <5> QED BY <5>1, <5>2, <5>3
      <4> QED BY <4>1, <4>2 DEF LampInv
    <3> QED BY <3>1, <3>2
  <2> QED BY <1>0, <2>4, <2>5, <2>6 DEF AlarmInv
<1>2. ASSUME NEW ms \in Beeps, Beep(ms) PROVE AlarmInv'
  <2>1. Beeper(buzzer') /\ buzzer'.pattern \notin Alarms
    <3>1. CASE ms = 0
      <4>1. buzzer' = buzzer_set_pattern(buzzer, "OFF") BY <1>2, <3>1 DEF Beep
      <4> QED BY <4>1, SetPattern DEF AlarmInv, Patterns, Alarms
    <3>2. CASE ms > 0
      <4>1. PICK age \in {buzzer.age, LONG} :
              buzzer' = Buzzer("ONESHOT", IF buzzer.age = UNSET THEN UNSET ELSE age,
                               IF ms > 500 THEN 500 ELSE ms, buzzer.on)
        BY <1>2, <3>2 DEF Beep
      <4>2. ms \in Int BY PanelAssumption
      <4> QED BY <4>1, <4>2, UnsetAge DEF AlarmInv, Beeper, Buzzer, Patterns, Alarms, LONG
    <3> QED BY <1>2, <3>1, <3>2 DEF Beep
  <2> QED BY <1>0, <1>2, <2>1 DEF Beep, AlarmInv, EdgeInv, LampInv
<1>3. CASE BeepStart
  <2>1. Beeper(buzzer') /\ buzzer'.pattern = buzzer.pattern
    BY <1>3, UnsetAge DEF BeepStart, AlarmInv, Beeper, Buzzer
  <2>2. disturbed' /\ UNCHANGED <<prev, lamp>>
    BY <1>3 DEF BeepStart, AlarmInv, EdgeInv
  <2> QED BY <1>0, <1>3, <2>1, <2>2 DEF BeepStart, AlarmInv, EdgeInv, LampInv
<1>4. CASE UNCHANGED <<prev, buzzer, beep, armed, lamp, disturbed>>
  <2>1. Beeper(buzzer') BY <1>4 DEF AlarmInv
  <2>2. EdgeInv' BY <1>4 DEF AlarmInv, EdgeInv
  <2>3. LampInv' BY <1>4 DEF AlarmInv, LampInv
  <2> QED BY <1>0, <2>1, <2>2, <2>3 DEF AlarmInv
<1>5. CASE \E t \in Snapshots : PublishState(t)
  BY <1>4, <1>5 DEF PublishState
<1>6. CASE \E raw \in Raws, pressed \in Pc9 : PollBegin(raw, pressed)
  BY <1>4, <1>6 DEF PollBegin
<1>7. CASE \/ \E mode \in Overrides : Override(mode)
           \/ \E pressed \in Pc9 : HelperPoll(pressed)
           \/ HelperPulseEnd
  BY <1>4, <1>7 DEF Override, HelperPoll, HelperPulseEnd
<1>8. CASE UNCHANGED panelVars
  BY <1>4, <1>8 DEF panelVars
<1> QED BY <1>1, <1>2, <1>3, <1>5, <1>6, <1>7, <1>8 DEF PanelNext

\* However beeps, torn copies, skipped frames and sessions come, buzzer and lamp warn
\* exactly while a latched fault is shown (io_task.c, buzzer_set_pattern, led_render).
THEOREM AlarmIsKept == PanelSpec => []AlarmHolds
<1>1. AlarmInv => AlarmHolds
  BY DEF AlarmInv, EdgeInv, LampInv, AlarmHolds
<1> QED BY <1>1, AlarmInit, AlarmStep, PTL DEF PanelSpec

-----------------------------------------------------------------------------
(* The handshake window. *)

Refreshes == {"none", "idle", "pulse", "tail"}
Phases    == {"off", "float", "high", "idle", "pulse", "tail", "release"}

GfciTypeOK ==
  /\ test \in [at : Phases, t : Nat, cyc : Nat, saw : BOOLEAN]
  /\ refresh \in [at : Refreshes, t : Nat]
  /\ chip \in [delay : Nat, width : Nat]

\* A handshake is over when it should be, however it came about.
ChipBounded ==
  /\ chip.delay + chip.width <= PULSE + TAIL /\ chip.width <= RELEASE
  /\ chip.width = 0 => chip.delay = 0

\* While the safety task looks, a handshake under way or to come ends within the pulse and
\* the tail it belongs to; at the end of a test none is left.
InWindow ==
  test.at = "off" =>
    /\ refresh.at \in {"none", "idle"} => chip.width = 0
    /\ refresh.at = "pulse" => window /\ chip.delay + chip.width <= refresh.t + TAIL
    /\ refresh.at = "tail"  => window /\ chip.delay + chip.width <= refresh.t

InTest ==
  /\ test.at \in {"float", "high"} => test.cyc = 0 /\ ~test.saw
  /\ test.at = "idle" /\ test.saw => chip.delay = 0
  /\ test.at = "pulse"   => chip.delay + chip.width <= test.t + TAIL
  /\ test.at = "tail"    => chip.delay + chip.width <= test.t
  /\ test.at = "release" => chip.delay = 0 /\ chip.width <= test.t

WindowInv ==
  /\ GfciTypeOK /\ ChipBounded
  /\ ~mixed => test.at = "off" \/ refresh.at = "none"
  /\ ~mixed /\ ~fault => InWindow /\ InTest

LEMMA WindowInit == GfciInit => WindowInv
BY GfciAssumption DEF GfciInit, WindowInv, GfciTypeOK, ChipBounded, InWindow, InTest, Off, Quiet,
   None3, Phases, Refreshes

LEMMA GfciConstants ==
  /\ FLOAT \in Nat /\ HIGH \in Nat /\ IDLE \in Nat /\ PULSE \in Nat /\ TAIL \in Nat
  /\ RELEASE \in Nat /\ CYCLES \in Nat \ {0}
BY GfciAssumption

\* A CAL edge leaves the chip as it is or starts a handshake of the bench's length.
LEMMA DriveBounded ==
  ASSUME GfciTypeOK, ChipBounded, NEW level, pe3_drive(level)
  PROVE  /\ chip' \in [delay : Nat, width : Nat] /\ ChipBounded'
         /\ level # 1 => UNCHANGED chip
<1>1. CASE UNCHANGED chip
  BY <1>1 DEF GfciTypeOK, ChipBounded
<1>2. CASE level = 1 /\ chip' \in [delay : Delays, width : Widths]
  <2>1. PICK d \in Delays, w \in Widths : chip' = [delay |-> d, width |-> w]
    BY <1>2
  <2> QED BY <1>2, <2>1, GfciAssumption, GfciConstants DEF ChipBounded
<1> QED BY <1>1, <1>2 DEF pe3_drive

LEMMA GotoIs ==
  ASSUME GfciTypeOK, NEW at, NEW t, Goto(at, t)
  PROVE  test' = [at |-> at, t |-> t, cyc |-> test.cyc, saw |-> test.saw]
BY DEF GfciTypeOK, Goto

LEMMA WindowStep == WindowInv /\ [GfciNext]_gfciVars => WindowInv'
<1> SUFFICES ASSUME WindowInv, [GfciNext]_gfciVars PROVE WindowInv' OBVIOUS
<1> USE GfciConstants
<1>0. /\ GfciTypeOK /\ ChipBounded
      /\ ~mixed => test.at = "off" \/ refresh.at = "none"
      /\ ~mixed /\ ~fault => InWindow /\ InTest
  BY DEF WindowInv
<1>1. CASE TestBegin
  <2>1. CASE gfci_fault_active
    BY <1>0, <1>1, <2>1 DEF TestBegin, WindowInv, GfciTypeOK, ChipBounded, InWindow, InTest
  <2>2. CASE ~gfci_fault_active
    <3>1. /\ test' = [at |-> "float", t |-> FLOAT, cyc |-> 0, saw |-> FALSE]
          /\ pe3_drive(2) /\ mixed' = (mixed \/ refresh.at # "none")
          /\ UNCHANGED <<refresh, window, fault>>
      BY <1>1, <2>2 DEF TestBegin
    <3>2. UNCHANGED chip
      BY <1>0, <3>1, DriveBounded
    <3> QED BY <1>0, <3>1, <3>2 DEF WindowInv, GfciTypeOK, ChipBounded, InWindow, InTest, Phases
  <2> QED BY <2>1, <2>2
<1>2. CASE TestStep
  <2>0. test.at # "off" /\ test.t = 0 /\ UNCHANGED <<fault, mixed>>
    BY <1>2 DEF TestStep
  <2>1. CASE test.at = "float"
    <3>1. Goto("high", HIGH) /\ pe3_drive(1) /\ UNCHANGED refresh
      BY <1>2, <2>1 DEF TestStep
    <3>2. chip' \in [delay : Nat, width : Nat] /\ ChipBounded'
      BY <1>0, <3>1, DriveBounded
    <3>3. test' = [at |-> "high", t |-> HIGH, cyc |-> test.cyc, saw |-> test.saw]
      BY <1>0, <3>1, GotoIs
    <3> QED BY <1>0, <2>0, <2>1, <3>1, <3>2, <3>3 DEF WindowInv, GfciTypeOK, InWindow, InTest, Phases
  <2>2. ASSUME NextCycle,
               test.saw /\ ~mixed /\ ~fault => chip.delay = 0,
               ~test.saw /\ ~mixed /\ ~fault => test.cyc # CYCLES \/ chip.width = 0
        PROVE  WindowInv'
    <3>1. CASE test.saw
      <4>1. UNCHANGED <<chip, refresh>>
            /\ test' = [at |-> "release", t |-> RELEASE, cyc |-> test.cyc, saw |-> test.saw]
        BY <1>0, <2>2, <3>1, GotoIs DEF NextCycle
      <4> QED BY <1>0, <2>0, <2>2, <3>1, <4>1
          DEF WindowInv, GfciTypeOK, ChipBounded, InWindow, InTest, Phases
    <3>2. CASE ~test.saw /\ test.cyc = CYCLES
      <4>1. UNCHANGED <<chip, refresh>> /\ test' = [at |-> "off", t |-> 0, cyc |-> 0, saw |-> FALSE]
        BY <2>2, <3>2 DEF NextCycle, Off
      <4>2. ~mixed /\ ~fault => chip.width = 0 /\ refresh.at = "none"
        BY <1>0, <2>0, <2>2, <3>2
      <4>3. GfciTypeOK' /\ ChipBounded'
        BY <1>0, <4>1 DEF GfciTypeOK, ChipBounded, Phases
      <4>4. ~mixed /\ ~fault => InWindow' /\ InTest'
        BY <4>1, <4>2 DEF InWindow, InTest
      <4> QED BY <2>0, <4>1, <4>3, <4>4 DEF WindowInv
    <3>3. CASE ~test.saw /\ test.cyc # CYCLES
      <4>1. test' = [test EXCEPT !.at = "idle", !.t = IDLE, !.cyc = @ + 1]
            /\ pe3_drive(0) /\ UNCHANGED refresh
        BY <2>2, <3>3 DEF NextCycle
      <4>2. UNCHANGED chip
        BY <1>0, <4>1, DriveBounded
      <4>3. test' = [at |-> "idle", t |-> IDLE, cyc |-> test.cyc + 1, saw |-> test.saw]
        BY <1>0, <4>1 DEF GfciTypeOK
      <4>4. UNCHANGED refresh
        BY <4>1
      <4> QED BY <1>0, <2>0, <3>3, <4>2, <4>3, <4>4
          DEF WindowInv, GfciTypeOK, ChipBounded, InWindow, InTest, Phases
    <3> QED BY <3>1, <3>2, <3>3
  <2>3. CASE test.at = "high"
    BY <1>0, <1>2, <2>2, <2>3 DEF TestStep, InTest
  <2>4. CASE test.at = "idle" /\ test.saw
    BY <1>0, <1>2, <2>2, <2>4 DEF TestStep, InTest
  <2>5. CASE test.at = "idle" /\ ~test.saw
    <3>1. Goto("pulse", PULSE) /\ pe3_drive(1) /\ UNCHANGED refresh
      BY <1>2, <2>5 DEF TestStep
    <3>2. chip' \in [delay : Nat, width : Nat] /\ ChipBounded'
      BY <1>0, <3>1, DriveBounded
    <3>3. test' = [at |-> "pulse", t |-> PULSE, cyc |-> test.cyc, saw |-> test.saw]
      BY <1>0, <3>1, GotoIs
    <3> QED BY <1>0, <2>0, <2>5, <3>1, <3>2, <3>3
        DEF WindowInv, GfciTypeOK, ChipBounded, InWindow, InTest, Phases
  <2>6. CASE test.at = "pulse"
    <3>1. Goto("tail", TAIL) /\ pe3_drive(0) /\ UNCHANGED refresh
      BY <1>2, <2>6 DEF TestStep
    <3>2. UNCHANGED chip
      BY <1>0, <3>1, DriveBounded
    <3>3. test' = [at |-> "tail", t |-> TAIL, cyc |-> test.cyc, saw |-> test.saw]
      BY <1>0, <3>1, GotoIs
    <3> QED BY <1>0, <2>0, <2>6, <3>1, <3>2, <3>3
        DEF WindowInv, GfciTypeOK, ChipBounded, InWindow, InTest, Phases
  <2>7. CASE test.at = "tail"
    <3>1. ~mixed /\ ~fault => chip.width = 0 /\ chip.delay = 0
      BY <1>0, <2>0, <2>7 DEF InTest, GfciTypeOK
    <3> QED BY <1>2, <2>2, <2>7, <3>1 DEF TestStep
  <2>8. CASE test.at = "release"
    <3>1. Passed
      BY <1>2, <2>8 DEF TestStep
    <3>2. UNCHANGED chip /\ test' = Off
          /\ (UNCHANGED refresh \/ refresh' = [at |-> "idle", t |-> IDLE])
      BY <1>0, <3>1, DriveBounded DEF Passed
    <3>3. ~mixed /\ ~fault => chip.width = 0
      BY <1>0, <2>0, <2>8 DEF InTest, GfciTypeOK
    <3>4. ~mixed => refresh.at = "none"
      BY <1>0, <2>0
    <3> QED BY <1>0, <2>0, <3>2, <3>3, <3>4
        DEF Off, WindowInv, GfciTypeOK, ChipBounded, InWindow, InTest, Phases, Refreshes
  <2> QED BY <1>0, <2>0, <2>1, <2>3, <2>4, <2>5, <2>6, <2>7, <2>8 DEF GfciTypeOK, Phases
<1>3. CASE RefreshStep
  <2>0. /\ refresh.t = 0 /\ UNCHANGED <<test, fault>> /\ window' = (refresh.at # "tail")
        /\ refresh.at # "none"
        /\ mixed' = (mixed /\ ~(refresh.at = "idle" /\ test.at = "off" /\ chip.width = 0))
    BY <1>3 DEF RefreshStep
  <2>1. CASE refresh.at = "idle"
    <3>1. refresh' = [at |-> "pulse", t |-> PULSE] /\ pe3_drive(1)
      BY <1>3, <2>1 DEF RefreshStep
    <3>2. chip' \in [delay : Nat, width : Nat] /\ ChipBounded'
      BY <1>0, <3>1, DriveBounded
    <3>3. ~mixed' => test.at = "off"
      BY <1>0, <2>0, <2>1
    <3> QED BY <1>0, <2>0, <2>1, <3>1, <3>2, <3>3
        DEF WindowInv, GfciTypeOK, ChipBounded, InWindow, InTest, Refreshes
  <2>2. CASE refresh.at = "pulse"
    <3>1. refresh' = [at |-> "tail", t |-> TAIL] /\ UNCHANGED chip
      BY <1>0, <1>3, <2>2, DriveBounded DEF RefreshStep
    <3>2. (~mixed' => ~mixed) /\ (window' <=> TRUE)
      BY <2>0, <2>2
    <3> QED BY <1>0, <2>0, <2>2, <3>1, <3>2
        DEF WindowInv, GfciTypeOK, ChipBounded, InWindow, InTest, Refreshes
  <2>3. CASE refresh.at = "tail"
    <3>1. refresh' = [at |-> "idle", t |-> IDLE] /\ UNCHANGED chip
      BY <1>0, <1>3, <2>3, DriveBounded DEF RefreshStep
    <3>2. ~mixed' => ~mixed
      BY <2>0, <2>3
    <3> QED BY <1>0, <2>0, <2>3, <3>1, <3>2
        DEF WindowInv, GfciTypeOK, ChipBounded, InWindow, InTest, Refreshes
  <2> QED BY <1>0, <2>0, <2>1, <2>2, <2>3 DEF GfciTypeOK, Refreshes
<1>4. CASE ClockTick
  <2> DEFINE polled == test.at \in {"idle", "pulse"} /\ gfci_fault_active
             over   == \/ test.at = "idle" /\ polled
                       \/ test.at = "release" /\ ~gfci_fault_active
  <2>1. /\ test' = IF test.at = "off" THEN test
                   ELSE [test EXCEPT !.t = IF over THEN 0 ELSE @ - 1, !.saw = @ \/ polled]
        /\ refresh' = IF refresh.at = "none" THEN refresh ELSE [refresh EXCEPT !.t = @ - 1]
        /\ chip' = IF chip.delay > 0 THEN [chip EXCEPT !.delay = @ - 1]
                   ELSE IF chip.width > 0 THEN [chip EXCEPT !.width = @ - 1] ELSE chip
        /\ (test.at # "off" => test.t > 0) /\ (refresh.at # "none" => refresh.t > 0)
        /\ UNCHANGED <<window, fault, mixed>>
    BY <1>4 DEF ClockTick
  <2>2. /\ test'.at = test.at /\ test'.cyc = test.cyc
        /\ test'.saw = IF test.at = "off" THEN test.saw ELSE test.saw \/ polled
        /\ test'.t = IF test.at = "off" THEN test.t ELSE IF over THEN 0 ELSE test.t - 1
        /\ test' \in [at : Phases, t : Nat, cyc : Nat, saw : BOOLEAN]
    <3> HIDE DEF polled, over
    <3>1. CASE test.at = "off"
      BY <1>0, <2>1, <3>1 DEF GfciTypeOK
    <3>2. CASE test.at # "off"
      <4>1. test' = [at |-> test.at, t |-> IF over THEN 0 ELSE test.t - 1, cyc |-> test.cyc,
                     saw |-> test.saw \/ polled]
        BY <1>0, <2>1, <3>2 DEF GfciTypeOK
      <4>2. (IF over THEN 0 ELSE test.t - 1) \in Nat
        BY <1>0, <2>1, <3>2 DEF GfciTypeOK
      <4>3. (test.saw \/ polled) \in BOOLEAN
        OBVIOUS
      <4> QED BY <1>0, <3>2, <4>1, <4>2, <4>3 DEF GfciTypeOK
    <3> QED BY <3>1, <3>2
  <2>3. /\ refresh'.at = refresh.at
        /\ refresh.at # "none" => refresh'.t = refresh.t - 1
        /\ refresh' \in [at : Refreshes, t : Nat]
    BY <1>0, <2>1 DEF GfciTypeOK
  <2>4. /\ chip'.delay = IF chip.delay > 0 THEN chip.delay - 1 ELSE 0
        /\ chip'.width = IF chip.delay > 0 \/ chip.width = 0 THEN chip.width ELSE chip.width - 1
        /\ chip' \in [delay : Nat, width : Nat]
    BY <1>0, <2>1 DEF GfciTypeOK
  <2>5. GfciTypeOK' /\ ChipBounded'
    BY <1>0, <2>2, <2>3, <2>4 DEF GfciTypeOK, ChipBounded
  <2>6. ASSUME ~mixed, ~fault PROVE InWindow'
    BY <1>0, <2>1, <2>2, <2>3, <2>4, <2>6 DEF InWindow, GfciTypeOK, ChipBounded, Refreshes
  <2>7. ASSUME ~mixed, ~fault PROVE InTest'
    <3>1. gfci_fault_active <=> chip.delay = 0 /\ chip.width > 0
      BY <2>7 DEF gfci_fault_active, Handshake
    <3>2. test.at \in {"float", "high"} => ~polled /\ test'.saw = test.saw
      BY <1>0, <2>2 DEF GfciTypeOK
    <3>3. test.at = "idle" /\ test'.saw => chip.delay = 0
      BY <1>0, <2>2, <2>7, <3>1 DEF InTest
    <3>4. test.at \in {"pulse", "tail"} => test'.t = test.t - 1
      BY <2>2
    <3>5. test.at = "release" => chip'.width <= test'.t
      BY <1>0, <2>2, <2>4, <2>7, <3>1 DEF InTest, GfciTypeOK
    <3>6. test.at \in {"float", "high"} => test'.cyc = 0 /\ ~test'.saw
      BY <1>0, <2>2, <2>7, <3>2 DEF InTest
    <3>7. test.at # "off" => test.t > 0
      BY <2>1
    <3>8. test.at = "pulse" => chip'.delay + chip'.width <= test'.t + TAIL
      BY <1>0, <2>4, <2>7, <3>4, <3>7 DEF InTest, GfciTypeOK
    <3>9. test.at = "tail" => chip'.delay + chip'.width <= test'.t
      BY <1>0, <2>4, <2>7, <3>4, <3>7 DEF InTest, GfciTypeOK
    <3>10. chip.delay = 0 => chip'.delay = 0
      BY <2>4
    <3> QED BY <1>0, <2>2, <2>7, <3>3, <3>5, <3>6, <3>8, <3>9, <3>10 DEF InTest
  <2> QED BY <1>0, <2>1, <2>2, <2>3, <2>5, <2>6, <2>7 DEF WindowInv
<1>5. CASE GroundFault
  BY <1>0, <1>5 DEF GroundFault, WindowInv, GfciTypeOK, ChipBounded
<1>6. CASE UNCHANGED gfciVars
  BY <1>0, <1>6 DEF gfciVars, WindowInv, GfciTypeOK, ChipBounded, InWindow, InTest
<1> QED
  BY <1>1, <1>2, <1>3, <1>4, <1>5, <1>6 DEF GfciNext

\* The chip's handshake never looks like a ground fault to the safety task
\* (gfci_refresh_task and gfci_self_test of hal/gd32f205/gfci.c), unless both work at once.
THEOREM HandshakeIsMasked == GfciSpec => []HandshakeMasked
<1>1. WindowInv => HandshakeMasked
  BY DEF WindowInv, GfciTypeOK, InWindow, HandshakeMasked, Looking, Handshake, Refreshes
<1> QED
  BY WindowInit, WindowStep, <1>1, PTL DEF GfciSpec

=============================================================================
