--------------------------- MODULE MCPersistTask ---------------------------
(* Instances of PersistTask for TLC. *)
EXTENDS PersistTask

MCOldCals == {Cal(1, 2, 3, 9), Cal(1, 2, 40, 0), Cal(1, 2, -40, 0), Cal(2, 2, 50, 9), Cal(3, 2, 50, 1)}
MCRequests ==
  ({"event", "session"} \X Times) \cup ({"alive", "clear"} \X {0})
  \cup ({"add", "remove"} \X (Uids \cup {0})) \cup ({"amps", "auth", "policy"} \X {0, 1, 2})
  \cup ({"cp"} \X {0, 1, 2}) \cup ({"bl0939"} \X {0, 50})
\* The crash count needs one boot more than the others.
MCMixes ==
  ({{"session"}, {"event"}} \X {{None}} \X {3})
  \cup ({{"add", "remove", "clear"}, {"auth", "policy"}} \X {{None}} \X {3})
  \cup {<<{"alive", "amps"}, {None}, 4>>}
  \cup {<<{"cp", "bl0939"}, MCOldCals \cup {None}, 3>>}
MCOverlap == {<<{"event", "add"}, {None}, 3>>}
=============================================================================
