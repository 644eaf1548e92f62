----------------------------- MODULE InvestigationRun -----------------------------
(***************************************************************************)
(* An investigation end to end: the bridge in its sandbox, the control     *)
(* plane, and the HTTP between them.  The bridge's log is the control      *)
(* plane's log; a POST of the bridge is a request of the control plane,    *)
(* and either side may give it up without the other knowing.               *)
(***************************************************************************)
EXTENDS SandboxBridge

CONSTANTS Requests, Starter, Sweeper, HandlersMayDie, CommitMayFail,
          Reliable,     \* no POST times out, no sandbox is killed, and the control
                        \* plane does not restart, so its sweep finds nothing
          GraceSuffices \* the POST in flight at wind-down ends within its grace

VARIABLES status, silent, events, summary, launched, ignored, lost, txn, http,
          posting       \* the request the bridge awaits, "none" without one

CP == INSTANCE InvestigationControlPlane

ASSUME RunAssumption ==
    /\ CP!TxnAssumption
    /\ Reliable \in BOOLEAN /\ GraceSuffices \in BOOLEAN /\ "none" \notin Requests

recordVars == <<status, silent, events, summary>>
serverVars == <<recordVars, launched, ignored, lost, txn, http>>
runVars    == <<vars, serverVars, posting>>

RunInit == Init /\ CP!InitControlPlane /\ posting = "none"

\* The client end of the awaited POST is closed, whatever its handler does.
Release ==
    /\ posting' = "none"
    /\ http' = [r \in Requests |-> IF r = posting THEN "free" ELSE http[r]]
    /\ UNCHANGED <<recordVars, launched, ignored, lost, txn>>

\* In the reliable case start()'s commit precedes the sandbox's first call.
BridgePosts(r) ==
    /\ launched /\ (Reliable => status # CP!None)
    /\ PostBatch
    /\ CP!Receive(r, acked + 1 .. acked + window')
    /\ posting' = r

PostAnswered == PostSucceeds /\ http[posting] = "ok" /\ Release

PostRefused ==
    /\ PostFails
    /\ Reliable => http[posting] = "error"
    /\ Release

\* Wind-down cancels the flusher, and with it the POST it awaits.
BridgeWindsDown == (GraceSuffices => window = 0) /\ WindDownEnds /\ Release

BridgeStep ==
    /\ launched
    /\ PrimeNext \/ EventNext \/ WatchdogNext \/ (phase # "winddown" /\ RunNext)
    /\ UNCHANGED <<serverVars, posting>>

\* The sandbox's lifetime ends: the bridge is gone without a word.
SandboxDies ==
    /\ ~Reliable /\ launched /\ phase # "exited"
    /\ phase' = "exited" /\ window' = 0 /\ forced' = FALSE /\ prime' = "dead"
    /\ Release
    /\ UNCHANGED <<attempt, total, verdict, exitCode, log, acked, stdin, stdout,
                   cutoff, inputs>>

ControlPlaneStep ==
    /\ CP!ControlPlaneNext /\ (Reliable => ~silent')
    /\ UNCHANGED <<vars, posting>>

RunStep ==
    \/ \E r \in Requests : BridgePosts(r)
    \/ PostAnswered \/ PostRefused \/ BridgeWindsDown \/ BridgeStep \/ SandboxDies
    \/ ControlPlaneStep

RunSpec == RunInit /\ [][RunStep]_runVars

\* The bridge's fairness, and handlers that run to their commit.  FallSilent and
\* the sweep owe nothing: the sweep only runs at a restart.
RunFairness ==
    /\ WF_runVars(BridgeWindsDown)
    /\ WF_runVars(launched /\ phase # "winddown" /\ RunNext /\ UNCHANGED <<serverVars, posting>>)
    /\ WF_runVars(phase \in Forced /\ \E r \in Requests : BridgePosts(r))
    /\ WF_runVars(PostAnswered \/ PostRefused)
    /\ WF_runVars((CutoffPasses \/ WatchdogFires) /\ UNCHANGED <<serverVars, posting>>)
    /\ WF_runVars(RecoveryExpires /\ UNCHANGED <<serverVars, posting>>)
    /\ \A r \in Requests : WF_runVars(CP!ServerStep(r) /\ UNCHANGED <<vars, posting>>)
    /\ \A t \in CP!Txns : WF_runVars(CP!Commit(t) /\ UNCHANGED <<vars, posting>>)
    /\ WF_runVars((CP!LaunchSandbox \/ CP!LaunchFails) /\ UNCHANGED <<vars, posting>>)

RunFairSpec == RunSpec /\ RunFairness

-----------------------------------------------------------------------------
RunTypeOK ==
    /\ TypeOK
    /\ posting \in Requests \cup {"none"}
    /\ window > 0 <=> posting # "none"
    /\ events \subseteq DOMAIN log /\ ignored \cup lost \subseteq DOMAIN log
    /\ status \in CP!Statuses \cup {CP!None}

AtRest == phase = "exited" /\ \A t \in CP!Txns : txn[t].stage = "idle"

\* The control plane completes an investigation only if the bridge saw a valid
\* summary and an agent_end that was not the aborted run's.
CompletedRunEnded ==
    status = "completed" => total.summary /\ Recorded("finished", Len(log))

\* Exit code 0 leaves no open record behind, unless a commit failed after its answer:
\* all the bridge recorded has reached the control plane, which has passed a verdict on
\* it, and "Terminal records are immutable".
SuccessIsSettled == (AtRest /\ exitCode = 0 /\ lost = {}) => status \in CP!Terminal

\* An end of the run is recorded, or a batch was declined because the record was settled.
EndIsKept == ignored # {} \/ \E s \in events : log[s] \in {"finished", "error"}

\* The handler will set the record to running, or already has and is still to commit.
MayReopen(r) == txn[r].stage = "promote" \/ txn[r].target = "running"

\* The record was settled while such a handler was under way.
Overtaken == status \in CP!Terminal /\ \E r \in Requests : MayReopen(r)

\* What is left of that when the handlers of abandoned POSTs overlap later ones: exit
\* code 0 stands for an end the control plane keeps, the commit that first keeps one
\* settles the record at that moment, and nothing reopens it but the commit of a handler
\* that read it open before.
SuccessWasSettled ==
    /\ [](AtRest /\ exitCode = 0 /\ lost = {} => EndIsKept)
    /\ [][(EndIsKept' /\ ~EndIsKept) => (status' \in CP!Terminal)]_runVars
    /\ [][(status \in CP!Terminal /\ status' \notin CP!Terminal) => Overtaken]_runVars
    /\ [][\A r \in Requests :
             (MayReopen(r)' /\ ~MayReopen(r)) => (status \notin CP!Terminal)]_runVars

\* What the control plane has answered for: committed, about to be committed,
\* declined for good, or lost with a commit that failed after the answer.
Kept ==
    events \cup ignored \cup lost
    \cup UNION {txn[r].ins : r \in {q \in Requests : txn[q].stage = "committing"}}

Delivery == INSTANCE EventDelivery WITH Types <- Events, delivered <- Kept

\* Bridge and control plane deliver the events in order and without a gap, and the
\* bridge discards only what was delivered, although events are recorded while a POST
\* is out, POSTs are cut off by wind-down or by the death of the sandbox, and handlers
\* of abandoned POSTs go on.
RunDeliversInOrder == Delivery!Spec

\* A run whose summary and agent_end both occurred, in whichever order, and whose
\* bridge returned success, is a completed investigation.
SuccessIsCompleted == (AtRest /\ exitCode = 0) => status = "completed"

\* A failed run leaves an error event with the control plane, so it does not leave
\* its record open.
FailureIsSettled == (AtRest /\ exitCode = 1) => status \in CP!Terminal

\* With a run budget, a network and handlers that answer, and a grace period long
\* enough for the POST in flight, every investigation is settled: whatever Prime
\* Agent does, something the bridge records ends it.
EveryRunSettles == <>[](status \in CP!Terminal)

\* The safety half of that: nothing is left open when nobody is at work any more,
\* whether the sandbox was launched or not, and a settled record stays settled, although
\* a handler commits only after its answer and others overlap it meanwhile.
SettlesForGood ==
    /\ [](AtRest \/ (status # CP!None /\ ~launched) => status \in CP!Terminal)
    /\ [][(status \in CP!Terminal) => (status' \in CP!Terminal)]_runVars

=============================================================================
