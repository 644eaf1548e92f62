--------------------------------- MODULE MCRun ---------------------------------
(***************************************************************************)
(* The investigation end to end over an unreliable network.  Beside lost   *)
(* answers, handlers that are cut off and a Prime Agent that dies, one     *)
(* kind of fault is at work at a time; others may precede and follow it.   *)
(***************************************************************************)
EXTENDS InvestigationRun, FiniteSets, TLC

\* Handlers work side by side: that of an abandoned POST, or of an answered one whose
\* commit is still to come.
Overlaps == Cardinality({r \in Requests : txn[r].stage # "idle"}) > 1

\* The sandbox died before the bridge had an exit code.
Killed == phase = "exited" /\ exitCode = 2

AtWork ==
    (IF Overlaps THEN {"overlap"} ELSE {})
    \cup (IF silent THEN {"late heartbeat"} ELSE {})
    \cup (IF attempt.timeoutHit THEN {"hanging tool"} ELSE {})
    \cup (IF attempt.orphans THEN {"exception"} ELSE {})
    \cup (IF lost # {} \/ Killed THEN {"crash"} ELSE {})

OneFault == Cardinality(AtWork) <= 1

Perms == Permutations(Requests)
=============================================================================
