--------------------------- MODULE MCDeltaBridge ---------------------------
(* Constant values for model checking DeltaBridge. *)
EXTENDS DeltaBridge

MCCommands == {<<"amps", 5>>, <<"amps", 16>>, <<"auth", 1>>, <<"clear_faults">>}

Budget(d, c, m, p, r) == [drops |-> d, commands |-> c, changes |-> m, posts |-> p, restarts |-> r]

\* Lost links against commands and changes; bursts of commands; the web page and restarts.
MCBudgets == {Budget(2, 0, 1, 0, 0), Budget(1, 1, 1, 0, 0), Budget(0, 3, 0, 0, 0),
              Budget(1, 0, 0, 1, 1), Budget(0, 1, 0, 1, 1), Budget(0, 1, 2, 0, 0)}
=============================================================================
