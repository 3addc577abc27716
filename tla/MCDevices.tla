----------------------------- MODULE MCDevices -----------------------------
(* Instances of Panel, GfciMonitor, CardReader and BootConfig for TLC.  They  *)
(* share no state, so each behaviour runs one part: the io task among faults *)
(* and sessions, the io task under button presses, the flash helper beside   *)
(* it, the ground-fault monitor, the card reader, or the settings record.    *)
EXTENDS Panel, GfciMonitor, CardReader, BootConfig

CONSTANT Parts
VARIABLE part

MCSnapshots == {Snapshot("SELF_TEST", "A", {}, 32, 0), Snapshot("CHARGING", "C", {}, 16, 400),
                Snapshot("FAULT", "A", {"GFCI"}, 32, 0), Snapshot("FAULT", "A", {"other"}, 32, 0)}
MCUids == {<<"u", "v", "w", "x">>, <<"u", "AA", "w", "x">>}

\* The records the setters can build from their arguments.
MCValue == [amps : Amps \cup {0}, auth : 0..1, policy : 0..1, pending : 0..1, image : Images \cup {0}]

Alarm   == INSTANCE Panel WITH ALIVE_POLLS <- 0, Raws <- {4000}, Pc9 <- {FALSE}, FlashModes <- {FALSE}
Buttons == INSTANCE Panel WITH Snapshots <- {}, Beeps <- {}, Overrides <- {0}, FlashModes <- {FALSE}
Helper  == INSTANCE Panel WITH Snapshots <- {}, Beeps <- {}, Overrides <- {0}, Raws <- {4000}

DevicesInit ==
  /\ part \in Parts /\ GfciInit /\ ReaderInit /\ ConfigInit
  /\ CASE part = "buttons" -> Buttons!PanelInit
       [] part = "helper"  -> Helper!PanelInit
       [] OTHER            -> Alarm!PanelInit
DevicesNext ==
  /\ UNCHANGED part
  /\ \/ part = "alarm" /\ Alarm!PanelNext /\ UNCHANGED <<gfciVars, readerVars, configVars>>
     \/ part = "buttons" /\ Buttons!PanelNext /\ UNCHANGED <<gfciVars, readerVars, configVars>>
     \/ part = "helper" /\ Helper!PanelNext /\ UNCHANGED <<gfciVars, readerVars, configVars>>
     \/ part = "gfci" /\ GfciNext /\ UNCHANGED <<panelVars, readerVars, configVars>>
     \/ part = "reader" /\ ReaderNext /\ UNCHANGED <<panelVars, gfciVars, configVars>>
     \/ part = "store" /\ ConfigNext /\ UNCHANGED <<panelVars, gfciVars, readerVars>>
\* GfciFairness and ReaderFairness, each of the behaviours that run its part.
DevicesSpec ==
  /\ DevicesInit /\ [][DevicesNext]_<<part, panelVars, gfciVars, readerVars, configVars>>
  /\ WF_gfciVars(part = "gfci" /\ TestStep) /\ WF_gfciVars(part = "gfci" /\ RefreshStep)
  /\ WF_gfciVars(part = "gfci" /\ ClockTick) /\ WF_gfciVars(part = "gfci" /\ TestBegin /\ ~booted)
  /\ WF_readerVars(part = "reader" /\ ReaderTick) /\ WF_readerVars(part = "reader" /\ ReaderSends)
=============================================================================
