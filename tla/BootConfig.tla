----------------------------- MODULE BootConfig -----------------------------
(***************************************************************************)
(* The boot_config record (persist/boot_config.c): a RAM copy that the     *)
(* tasks read, and setters, called by persist_task, that change the copy   *)
(* and then store it through PingPong.                                     *)
(***************************************************************************)
EXTENDS PingPong

CONSTANTS
  Amps, AuthBytes, PolicyBytes, Images  \* arguments of the four setters

VARIABLES
  ram,   \* s_cfg
  up,    \* boot_config_load has been called
  ack    \* return value of the last setter or load; "none" while it runs

configVars == <<storeVars, ram, up, ack>>

Configurations == [amps : Nat, auth : 0..1, policy : 0..1, pending : 0..1, image : Nat]
Defaults == [amps |-> 0, auth |-> 0, policy |-> 0, pending |-> 0, image |-> 0]

\* Value holds what the setters make of a record it holds.
ASSUME ConfigAssumption ==
  /\ Default = Defaults /\ Value \subseteq Configurations
  /\ Amps \subseteq Nat /\ AuthBytes \subseteq Nat /\ PolicyBytes \subseteq Nat
  /\ Images \subseteq Nat
  /\ \A c \in Value : /\ \A a \in Amps : [c EXCEPT !.amps = a] \in Value
                      /\ \A b \in 0..1 : {[c EXCEPT !.auth = b], [c EXCEPT !.policy = b]} \subseteq Value
                      /\ \A b \in 0..1, i \in Images \cup {0} :
                           [c EXCEPT !.pending = b, !.image = i] \in Value

ConfigInit == StoreInit /\ ram = Defaults /\ up = FALSE /\ ack = "none"

\* boot_config_load: a blank chip gets the defaults.
Load ==
  /\ ~up /\ up' = TRUE /\ st = "idle"
  /\ ram' = pingpong_load(slot)
  /\ IF Current(slot) = "none" THEN StoreBegin(Defaults) ELSE UNCHANGED storeVars
  /\ UNCHANGED ack

\* Mutant: the record is stored before the change is in it.
Set_StoreFirst(c) ==
  /\ up /\ st = "idle"
  /\ IF c = ram THEN ack' = "ok" /\ UNCHANGED <<storeVars, ram>>
     ELSE ram' = c /\ StoreBegin(ram) /\ ack' = "none"
  /\ UNCHANGED up

\* A setter: 0 at once if nothing changes, else the RAM copy first, then the store.
Set(c) ==
  /\ up /\ st = "idle"
  /\ IF c = ram THEN ack' = "ok" /\ UNCHANGED <<storeVars, ram>>
     ELSE ram' = c /\ StoreBegin(c) /\ ack' = "none"
  /\ UNCHANGED up

boot_config_set_advertised_amps(a) == Set([ram EXCEPT !.amps = a])

boot_config_set_require_rfid_auth(enable) ==
  Set([ram EXCEPT !.auth = IF enable = 0 THEN 0 ELSE 1])

\* A policy above WARN is rejected before anything changes.
boot_config_set_gfci_fault_policy(policy) ==
  \/ policy <= 1 /\ Set([ram EXCEPT !.policy = policy])
  \/ /\ policy > 1 /\ up /\ st = "idle"
     /\ ack' = "error" /\ UNCHANGED <<storeVars, ram, up>>

\* image stands for the staged size and CRC; pending = 0 zeroes it.
boot_config_set_pending_ota(pending, image) ==
  Set([ram EXCEPT !.pending = pending, !.image = IF pending = 0 THEN 0 ELSE image])

\* The store the setter (or the boot) waits for moves on; its result is the setter's.
StoreRuns ==
  /\ StoreStep
  /\ ack' = IF st' = "idle" THEN result' ELSE ack
  /\ UNCHANGED <<ram, up>>

ConfigPowerLoss ==
  /\ PowerLoss
  /\ ram' = Defaults /\ up' = FALSE /\ ack' = "none"

ConfigNext ==
  \/ Load
  \/ \E a \in Amps : boot_config_set_advertised_amps(a)
  \/ \E e \in AuthBytes : boot_config_set_require_rfid_auth(e)
  \/ \E p \in PolicyBytes : boot_config_set_gfci_fault_policy(p)
  \/ \E p \in 0..1, i \in Images : boot_config_set_pending_ota(p, i)
  \/ StoreRuns
  \/ ConfigPowerLoss

ConfigSpec == ConfigInit /\ [][ConfigNext]_configVars

-----------------------------------------------------------------------------
\* Every field keeps its range: a policy byte above WARN never gets into the record.
ConfigTypeOK ==
  /\ StoreTypeOK /\ ram \in Configurations /\ up \in BOOLEAN
  /\ ack \in {"none", "ok", "error"}

\* An acknowledged store is what a boot would load, field by field, also when it
\* carries fields that an earlier, failed setter left in the RAM copy.
StoredIsDurable == [][st # "idle" /\ ack' = "ok" => pingpong_load(slot') = ram']_configVars
=============================================================================
