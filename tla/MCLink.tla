------------------------------- MODULE MCLink -------------------------------
(* Instances of Tlv, Link and OtaPush for TLC: the serial line byte by byte,  *)
(* the conversation of the tasks with the module, and a firmware upload.      *)
(* Each behaviour runs one of the three.                                      *)
EXTENDS Tlv, Link, OtaPush

CONSTANT Parts
VARIABLE part

MCPayloads == {<<PlainByte>>, <<SOF0, SOF1>>}
MCImages   == {<<"a", "b">>, <<"a">>, <<"b", "a">>, <<"b", "a", "b">>}

\* What users do and what happens, a few kinds at a time.
Mix(what, n) == [what |-> what, left |-> n]
MCMixes ==
  {Mix({"number", "switch"}, 2), Mix({"select", "fault", "CLEAR_FAULT"}, 2),
   Mix({"reset", "fc reset"}, 1),
   Mix({"charge", "unplug", "REQUEST_STOP", "REQUEST_START_RESUME"}, 2),
   Mix({"charge", "fault", "SIMULATE_REPLUG"}, 2), Mix({"REQUEST_START_RESUME", "SIMULATE_REPLUG"}, 2),
   Mix({"RFID_LEARN_NEXT", "swipe"}, 3), Mix({"swipe", "charge"}, 2),
   Mix({"RFID_LEARN_NEXT", "RFID_CLEAR_LIST", "RFID_REMOVE_UID", "timeout"}, 2),
   Mix({"PING", "GET_STATE", "GET_BUILD_INFO", "GET_FAULT_LOG", "GET_LIFETIME_KWH", "BUZZER_BEEP", "SET_LED_OVERRIDE",
        "WRITE_BL0939_CAL", "RFID_GET_LIST", "GET_TIME", "SET_TIME", "RESTART", "RUN_GFCI_CAL_TEST",
        "WRITE_CALIBRATION"}, 1)}

LinkRunInit ==
  /\ part \in Parts /\ TlvInit /\ LinkInit /\ PushInit
  /\ part # "bytes" => end = "mcu"
  /\ part # "mirror" => fc # FcReset /\ moves = Mix({"RFID_LEARN_NEXT", "swipe"}, 3) /\ cards = {}
  /\ evse.car <=> moves.what = {"REQUEST_START_RESUME", "SIMULATE_REPLUG"}
  /\ cards # {} => moves.what = {} \/ "swipe" \in moves.what
LinkRunNext ==
  /\ UNCHANGED part
  /\ \/ part = "bytes" /\ TlvNext /\ UNCHANGED <<linkVars, pushVars>>
     \/ part = "mirror" /\ LinkNext /\ UNCHANGED <<tlvVars, pushVars>>
     \/ part = "push" /\ PushNext /\ UNCHANGED <<tlvVars, linkVars>>
\* LinkFairness and PushFairness, each of the behaviours that run its part.
LinkRunSpec ==
  /\ LinkRunInit /\ [][LinkRunNext]_<<part, tlvVars, linkVars, pushVars>>
  /\ WF_linkVars(part = "mirror" /\ CommsDispatch) /\ WF_linkVars(part = "mirror" /\ (PersistSetting \/ PersistRecord))
  /\ WF_linkVars(part = "mirror" /\ SafetyServe) /\ WF_linkVars(part = "mirror" /\ FcDispatch)
  /\ WF_linkVars(part = "mirror" /\ FcLoop)
  /\ WF_pushVars(part = "push" /\ LoopTick)
=============================================================================
