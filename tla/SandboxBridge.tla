------------------------------ MODULE SandboxBridge ------------------------------
(***************************************************************************)
(* SandboxBridge.run: the supervisor inside the sandbox.  It launches      *)
(* Prime Agent, turns its stdout lines and its World Gateway calls into    *)
(* events, posts them, retries an attempt that crashed before it mutated   *)
(* anything, and aborts one that overruns.                                 *)
(*                                                                         *)
(* The bridge is one asyncio loop: what runs between two awaits is one     *)
(* action, and `phase` is the await run() stands at.  Prime Agent is the   *)
(* environment: it reads its stdin and writes its stdout through pipes, so *)
(* what it has written may be older than what the bridge last told it.     *)
(* Clocks are abstracted to the order in which the deadlines pass, and of   *)
(* the events the log keeps investigation_started and those the control    *)
(* plane decides on: a message, a tool event, a warning or a heartbeat     *)
(* takes its place in the buffer but changes nothing that is stated here.  *)
(***************************************************************************)
EXTENDS Naturals, Sequences

CONSTANTS MaxRetries,   \* max_retries: attempts after the first
          BatchSize,    \* batch_size of a periodic flush
          HasBudget,    \* SANDBOX_TIMEOUT_S is set
          Chat,         \* prompts are relayed from the inbox
          LateCalls,    \* a gateway call may outlive the attempt that made it
          MaxInputs     \* bound: lines, gateway calls and prompts

ASSUME BridgeAssumption ==
    /\ MaxRetries \in Nat /\ BatchSize \in Nat \ {0} /\ MaxInputs \in Nat
    /\ HasBudget \in BOOLEAN /\ Chat \in BOOLEAN /\ LateCalls \in BOOLEAN

Events == {"started", "summary", "finished", "error"}

\* Prime's stdout, as far as the bridge reacts to it.  "aborted_end" is the
\* agent_end Prime writes because of an abort: the bridge cannot tell it from
\* another.  "reject" is a line that is not JSON or a failed command response.
Lines == {"agent_start", "agent_end", "aborted_end", "tool_start", "tool_end",
          "error", "reject"}

Commands == {"prompt", "steer", "abort"}

Forced == {"boot", "persist", "cleanup"}     \* run() awaits flush_events(force_all=True)
Phases == Forced \cup {"gateway", "spawn", "race", "winddown", "backoff", "closing", "exited"}

VARIABLES
    phase,      \* where run() stands
    attempt,    \* the state run() resets for every attempt
    total,      \* the state that lasts for the whole run
    verdict,    \* what run() read when the race ended: "completed", "expired", "ended"
    exitCode,   \* the return value of run(), 2 before it is decided
    log,        \* the events recorded, in the order of the buffer
    acked,      \* how many of them have been deleted from event_buffer
    window,     \* len(batch_to_send) of the POST in flight, 0 without one
    forced,     \* that POST is one run() awaits, not the flusher or the reader
    prime,      \* Prime Agent: "none", "idle", "running" or "dead"
    stdin,      \* commands written to Prime and not yet read
    stdout,     \* lines written by Prime and not yet read
    cutoff,     \* overall_cutoff has passed
    inputs      \* what the environment may still do

bridgeVars == <<phase, attempt, total, verdict, exitCode>>
bufferVars == <<log, acked, window, forced>>
primeVars  == <<prime, stdin, stdout>>
vars       == <<bridgeVars, bufferVars, primeVars, cutoff, inputs>>

\* timeoutHit stands for tool_timeout_hit, abort_sent and recovery_deadline,
\* which handle_tool_timeout sets together; orphans says that run() was left by an
\* exception while the attempt's loops were running, which nothing cancels.
Fresh == [agentEnd |-> FALSE, protocolFailure |-> FALSE, activeTool |-> FALSE,
          timeoutHit |-> FALSE, abortedRunOpen |-> FALSE, readerDone |-> FALSE,
          completion |-> FALSE, expired |-> FALSE, orphans |-> FALSE]

Init ==
    /\ phase = "gateway" /\ attempt = Fresh /\ verdict = "ended" /\ exitCode = 2
    /\ total = [summary |-> FALSE, mutated |-> FALSE, crashes |-> 0]
    /\ log = <<>> /\ acked = 0 /\ window = 0 /\ forced = FALSE
    /\ prime = "none" /\ stdin = <<>> /\ stdout = <<>>
    /\ cutoff = FALSE /\ inputs = MaxInputs

Spend == inputs > 0 /\ inputs' = inputs - 1

\* Mutant: either condition completes the attempt.
CompletingEither(a, summary) ==
    [a EXCEPT !.completion = @ \/ summary \/ a.agentEnd]

\* _maybe_complete_attempt: the signal is never taken back within an attempt.
Completing(a, summary) ==
    [a EXCEPT !.completion = @ \/ (summary /\ a.agentEnd)]

-----------------------------------------------------------------------------
(* Prime Agent.                                                            *)

Alive == prime \in {"idle", "running"}

Write(line) == stdout' = Append(stdout, line)

PrimeReads ==
    /\ Alive /\ stdin # <<>>
    /\ stdin' = Tail(stdin)
    /\ \/ /\ Head(stdin) # "abort" /\ prime = "idle"
          /\ prime' = "running" /\ Write("agent_start")
       \/ /\ Head(stdin) = "abort" /\ prime = "running"
          /\ prime' = "idle" /\ Write("aborted_end")
       \/ /\ Head(stdin) = "abort" <=> prime = "idle"
          /\ UNCHANGED <<prime, stdout>>
    /\ UNCHANGED <<bridgeVars, bufferVars, cutoff, inputs>>

PrimeWrites(line) ==
    /\ prime = "running" /\ Spend
    /\ line \in Lines \ {"agent_start", "aborted_end"}
    /\ Write(line)
    /\ prime' = IF line = "agent_end" THEN "idle" ELSE prime
    /\ UNCHANGED <<bridgeVars, bufferVars, stdin, cutoff>>

PrimeDies ==
    /\ Alive
    /\ prime' = "dead"
    /\ UNCHANGED <<bridgeVars, bufferVars, stdin, stdout, cutoff, inputs>>

-----------------------------------------------------------------------------
(* The events: stdout lines and gateway calls.                             *)

Ends(line) == line \in {"agent_end", "aborted_end"}

\* What handle_stdout_line does to the attempt.  A rejected line stops the reader.
LineEffect(line) ==
    CASE line = "agent_start" ->
           [attempt EXCEPT !.abortedRunOpen = FALSE, !.agentEnd = FALSE]
      [] line = "tool_start"  -> [attempt EXCEPT !.activeTool = TRUE]
      [] line = "tool_end"    -> [attempt EXCEPT !.activeTool = FALSE]
      [] line = "reject"      ->
           [attempt EXCEPT !.protocolFailure = TRUE, !.readerDone = TRUE]
      [] Ends(line) -> Completing([attempt EXCEPT !.agentEnd = TRUE], total.summary)
      [] OTHER      -> attempt

LineEvent(line) ==
    CASE line \in {"error", "reject"} -> "error"
      [] Ends(line) -> "finished"
      [] OTHER      -> "none"

Reading ==
    /\ ~attempt.readerDone
    /\ phase \in {"race", "winddown"} \/ (attempt.orphans /\ phase \in {"closing", "cleanup"})

ReadLine ==
    /\ Reading /\ stdout # <<>>
    /\ LET line == Head(stdout)
       IN  IF Ends(line) /\ attempt.abortedRunOpen
           THEN UNCHANGED <<attempt, log>>
           ELSE /\ attempt' = LineEffect(line)
                /\ log' = IF LineEvent(line) = "none" THEN log
                                                     ELSE Append(log, LineEvent(line))
    /\ stdout' = Tail(stdout)
    /\ UNCHANGED <<phase, total, verdict, exitCode, acked, window, forced, prime, stdin,
                   cutoff, inputs>>

ReadEOF ==
    /\ Reading /\ stdout = <<>> /\ prime = "dead"
    /\ attempt' = [attempt EXCEPT !.readerDone = TRUE]
    /\ UNCHANGED <<phase, total, verdict, exitCode, bufferVars, primeVars, cutoff, inputs>>

\* The World Gateway answers from before the first attempt until stop_gateway.
GatewayOpen ==
    /\ phase \in Phases \ {"gateway", "cleanup", "exited"}
    /\ Alive \/ (LateCalls /\ prime = "dead")

\* scenario.run, proposal.create, or a summary.submit that is not valid.
CallMutates ==
    /\ GatewayOpen /\ Spend
    /\ total' = [total EXCEPT !.mutated = TRUE]
    /\ UNCHANGED <<phase, attempt, verdict, exitCode, bufferVars, primeVars, cutoff>>

\* A valid summary.submit, which emits summary_submitted the first time only.
CallSubmits ==
    /\ GatewayOpen /\ Spend
    /\ total' = [total EXCEPT !.mutated = TRUE, !.summary = TRUE]
    /\ attempt' = IF total.summary THEN attempt ELSE Completing(attempt, TRUE)
    /\ log' = IF total.summary THEN log ELSE Append(log, "summary")
    /\ UNCHANGED <<phase, verdict, exitCode, acked, window, forced, primeVars, cutoff>>

\* The inbox poller writes a user's prompt to Prime.
RelayPrompt ==
    /\ Chat /\ phase = "race" /\ Spend
    /\ stdin' = Append(stdin, "prompt")
    /\ UNCHANGED <<bridgeVars, bufferVars, prime, stdout, cutoff>>

-----------------------------------------------------------------------------
(* The watchdog.                                                           *)

CutoffPasses ==
    /\ HasBudget /\ ~cutoff
    /\ cutoff' = TRUE
    /\ UNCHANGED <<bridgeVars, bufferVars, primeVars, inputs>>

\* Mutant: the aborted run is not remembered as open.
AbortedUnscoped ==
    [attempt EXCEPT !.timeoutHit = TRUE, !.activeTool = FALSE, !.agentEnd = FALSE]

\* handle_tool_timeout's effect on the attempt.
Aborted ==
    [attempt EXCEPT !.timeoutHit = TRUE, !.activeTool = FALSE,
                    !.agentEnd = FALSE, !.abortedRunOpen = TRUE]

\* Mutant: the watchdog knows tools only.
WatchdogWithoutBudget ==
    /\ phase = "race" /\ ~attempt.timeoutHit /\ ~attempt.expired
    /\ attempt.activeTool
    /\ attempt' = Aborted
    /\ stdin' = Append(Append(stdin, "abort"), "steer")
    /\ UNCHANGED <<phase, total, verdict, exitCode, bufferVars, prime, stdout,
                   cutoff, inputs>>

WatchdogFires ==
    /\ phase = "race" /\ ~attempt.timeoutHit /\ ~attempt.expired
    /\ cutoff \/ attempt.activeTool
    /\ attempt' = Aborted
    /\ stdin' = Append(Append(stdin, "abort"), "steer")
    /\ UNCHANGED <<phase, total, verdict, exitCode, bufferVars, prime, stdout,
                   cutoff, inputs>>

RecoveryExpires ==
    /\ phase = "race" /\ attempt.timeoutHit /\ ~attempt.expired
    /\ attempt' = [attempt EXCEPT !.expired = TRUE]
    /\ UNCHANGED <<phase, total, verdict, exitCode, bufferVars, primeVars, cutoff, inputs>>

-----------------------------------------------------------------------------
(* flush_events.                                                           *)

\* run() awaits a flush of everything that is buffered.
ForcedPost ==
    /\ phase \in Forced /\ window = 0 /\ acked < Len(log)
    /\ window' = Len(log) - acked /\ forced' = TRUE
    /\ UNCHANGED <<bridgeVars, log, acked, primeVars, cutoff, inputs>>

\* The flusher's interval is over, or the reader finds batch_size events; a batch
\* may hold events the log leaves out.  The lock is granted in the order it was
\* asked for, so no loop overtakes the flush of the cleanup.
LoopPost(n) ==
    /\ \/ phase = "race"
       \/ phase = "winddown" /\ ~attempt.readerDone
       \/ phase = "closing" /\ attempt.orphans
    /\ window = 0 /\ n <= BatchSize /\ acked + n <= Len(log)
    /\ window' = n /\ forced' = FALSE
    /\ UNCHANGED <<bridgeVars, log, acked, primeVars, cutoff, inputs>>

PostBatch == ForcedPost \/ \E n \in 1 .. BatchSize : LoopPost(n)

\* Mutant: one event too many is deleted.
PostEvictsOneMore ==
    /\ window > 0
    /\ acked' = acked + window + 1 /\ window' = 0 /\ forced' = FALSE
    /\ UNCHANGED <<bridgeVars, log, primeVars, cutoff, inputs>>

PostSucceeds ==
    /\ window > 0
    /\ acked' = acked + window /\ window' = 0 /\ forced' = FALSE
    /\ UNCHANGED <<bridgeVars, log, primeVars, cutoff, inputs>>

\* Where run() goes when a forced flush returns.
AfterFlush(delivered) ==
    \/ /\ phase = "boot"
       /\ phase' = "spawn"
       /\ UNCHANGED <<exitCode, log>>
    \/ /\ phase = "persist"
       /\ phase' = "closing"
       /\ exitCode' = IF delivered THEN 0 ELSE 1
       /\ log' = IF delivered THEN log ELSE Append(log, "error")
    \/ /\ phase = "cleanup"
       /\ phase' = "exited"
       /\ UNCHANGED <<exitCode, log>>

\* Mutant: the batch is deleted before the outcome of the POST is known.
PostFailsButEvicts ==
    /\ window > 0 /\ window' = 0 /\ forced' = FALSE /\ acked' = acked + window
    /\ IF forced THEN AfterFlush(FALSE) ELSE UNCHANGED <<phase, exitCode, log>>
    /\ UNCHANGED <<attempt, total, verdict, primeVars, cutoff, inputs>>

PostFails ==
    /\ window > 0 /\ window' = 0 /\ forced' = FALSE
    /\ IF forced THEN AfterFlush(FALSE) ELSE UNCHANGED <<phase, exitCode, log>>
    /\ UNCHANGED <<attempt, total, verdict, acked, primeVars, cutoff, inputs>>

\* Mutant: the forced flush returns after one batch.
FlushDoneEarly ==
    /\ phase \in Forced /\ window = 0 /\ acked > 0
    /\ AfterFlush(TRUE)
    /\ UNCHANGED <<attempt, total, verdict, acked, window, forced, primeVars, cutoff, inputs>>

FlushDone ==
    /\ phase \in Forced /\ window = 0 /\ acked = Len(log)
    /\ AfterFlush(TRUE)
    /\ UNCHANGED <<attempt, total, verdict, acked, window, forced, primeVars, cutoff, inputs>>

-----------------------------------------------------------------------------
(* run().                                                                  *)

GatewayStarts ==
    /\ phase = "gateway"
    /\ phase' = "boot" /\ log' = Append(log, "started")
    /\ UNCHANGED <<attempt, total, verdict, exitCode, acked, window, forced, primeVars,
                   cutoff, inputs>>

Spawn ==
    /\ phase = "spawn"
    /\ phase' = "race" /\ attempt' = Fresh
    /\ prime' = "idle" /\ stdin' = <<"prompt">> /\ stdout' = <<>>
    /\ UNCHANGED <<total, verdict, exitCode, bufferVars, cutoff, inputs>>

\* The except clause of run().
Raise ==
    /\ phase' = "closing" /\ exitCode' = 1 /\ log' = Append(log, "error")
    /\ UNCHANGED <<total, verdict, acked, window, forced, primeVars, cutoff, inputs>>

\* start_gateway, start_rpc_process or the first write raises.
StartFails ==
    /\ phase \in {"gateway", "spawn"}
    /\ attempt' = Fresh
    /\ Raise

\* The reader raises on a line longer than its buffer, or the watchdog on a pipe
\* that Prime's end has closed.
LoopRaises ==
    /\ phase = "race"
    /\ \/ /\ ~attempt.readerDone /\ stdout # <<>>
          /\ attempt' = [attempt EXCEPT !.readerDone = TRUE, !.orphans = TRUE]
       \/ /\ ~attempt.timeoutHit /\ (cutoff \/ attempt.activeTool)
          /\ prime = "dead"
          /\ attempt' = [Aborted EXCEPT !.orphans = TRUE]
    /\ Raise

\* asyncio.wait returns; run() notes how the race ended and stops the loops.
RaceEnds ==
    /\ phase = "race"
    /\ attempt.readerDone \/ attempt.completion \/ attempt.expired
    /\ phase' = "winddown"
    /\ verdict' = IF attempt.completion THEN "completed"
                  ELSE IF attempt.expired THEN "expired" ELSE "ended"
    /\ UNCHANGED <<attempt, total, exitCode, bufferVars, primeVars, cutoff, inputs>>

\* Mutant: the retry policy forgets the mutation.
OutcomeReplays ==
    IF verdict = "completed" THEN "persist"
    ELSE IF verdict = "expired" THEN "error"
    ELSE IF attempt.protocolFailure THEN "stop"
    ELSE IF total.crashes < MaxRetries THEN "retry" ELSE "exhausted"

\* Mutant: the expiry of the recovery is not recorded.
OutcomeSilent ==
    IF verdict = "completed" THEN "persist"
    ELSE IF verdict = "expired" \/ attempt.protocolFailure THEN "stop"
    ELSE IF total.mutated THEN "error"
    ELSE IF total.crashes < MaxRetries THEN "retry" ELSE "exhausted"

Outcome ==
    IF verdict = "completed" THEN "persist"
    ELSE IF verdict = "expired" THEN "error"
    ELSE IF attempt.protocolFailure THEN "stop"
    ELSE IF total.mutated THEN "error"
    ELSE IF total.crashes < MaxRetries THEN "retry" ELSE "exhausted"

\* The grace period is over: stragglers are cancelled (a POST in flight among
\* them), the child is terminated and waited for, and the outcome is evaluated.
WindDownEnds ==
    /\ phase = "winddown"
    /\ prime' = "dead" /\ stdin' = <<>> /\ stdout' = <<>> /\ window' = 0
    /\ forced' = FALSE
    /\ phase' = CASE Outcome = "persist" -> "persist"
                  [] Outcome = "retry"   -> "backoff"
                  [] OTHER               -> "closing"
    /\ exitCode' = IF Outcome \in {"persist", "retry"} THEN exitCode ELSE 1
    /\ log' = IF Outcome \in {"error", "exhausted"} THEN Append(log, "error") ELSE log
    /\ total' = IF Outcome \in {"retry", "exhausted"}
                THEN [total EXCEPT !.crashes = @ + 1] ELSE total
    /\ UNCHANGED <<attempt, verdict, acked, cutoff, inputs>>

BackoffEnds ==
    /\ phase = "backoff"
    /\ phase' = "spawn"
    /\ UNCHANGED <<attempt, total, verdict, exitCode, bufferVars, primeVars, cutoff, inputs>>

\* The finally clause: the child has ended or was terminated, the gateway stops.
Close ==
    /\ phase = "closing"
    /\ phase' = "cleanup"
    /\ prime' = IF prime = "none" THEN prime ELSE "dead"
    /\ UNCHANGED <<attempt, total, verdict, exitCode, bufferVars, stdin, stdout, cutoff, inputs>>

-----------------------------------------------------------------------------
PrimeNext == PrimeReads \/ PrimeDies \/ \E line \in Lines : PrimeWrites(line)

EventNext == ReadLine \/ ReadEOF \/ CallMutates \/ CallSubmits \/ RelayPrompt

WatchdogNext == CutoffPasses \/ WatchdogFires \/ RecoveryExpires

RunNext == \/ GatewayStarts \/ Spawn \/ StartFails \/ LoopRaises \/ RaceEnds
           \/ WindDownEnds \/ BackoffEnds \/ Close \/ FlushDone

Next == \/ PrimeNext \/ EventNext \/ WatchdogNext \/ RunNext
        \/ PostBatch \/ PostSucceeds \/ PostFails

Spec == Init /\ [][Next]_vars

\* The event loop runs whatever is ready; httpx ends a POST after 10 seconds, the
\* clock passes every deadline, and the grace periods are bounded.  Prime Agent
\* owes nothing.
Fairness ==
    /\ WF_vars(RunNext)
    /\ WF_vars(ForcedPost)
    /\ WF_vars(PostSucceeds \/ PostFails)
    /\ WF_vars(CutoffPasses) /\ WF_vars(WatchdogFires) /\ WF_vars(RecoveryExpires)

FairSpec == Spec /\ Fairness

-----------------------------------------------------------------------------
Attempts == [agentEnd : BOOLEAN, protocolFailure : BOOLEAN, activeTool : BOOLEAN,
             timeoutHit : BOOLEAN, abortedRunOpen : BOOLEAN, readerDone : BOOLEAN,
             completion : BOOLEAN, expired : BOOLEAN, orphans : BOOLEAN]

Totals == [summary : BOOLEAN, mutated : BOOLEAN, crashes : 0 .. MaxRetries + 1]

RunTypes ==
    /\ phase \in Phases /\ verdict \in {"completed", "expired", "ended"}
    /\ exitCode \in 0 .. 2 /\ attempt \in Attempts /\ total \in Totals
    /\ cutoff \in BOOLEAN /\ inputs \in 0 .. MaxInputs

BufferTypes ==
    /\ log \in Seq(Events) /\ acked \in Nat /\ window \in Nat
    /\ acked + window <= Len(log)
    /\ forced \in BOOLEAN

PrimeTypes ==
    /\ prime \in {"none", "idle", "running", "dead"}
    /\ stdin \in Seq(Commands) /\ stdout \in Seq(Lines)

TypeOK == RunTypes /\ BufferTypes /\ PrimeTypes

Recorded(type, upTo) == \E s \in 1 .. upTo : log[s] = type

\* Exit code 0 is returned only after a summary and an agent_end were recorded
\* and the control plane has acknowledged everything up to both.
SuccessIsDelivered ==
    exitCode = 0 => Recorded("summary", acked) /\ Recorded("finished", acked)

\* A run that fails leaves an error event, whichever way it failed.
FailureIsVisible == exitCode = 1 => Recorded("error", Len(log))

\* A crash after a state-changing gateway call must not be replayed: no attempt
\* starts once one was handled.
NoReplayAfterMutation == [][Spawn => ~total.mutated]_vars

\* The agent_end that Prime writes because of the watchdog's abort closes only the
\* aborted run: it emits no investigation_finished and completes nothing.
AbortedEndIsIgnored ==
    [][(ReadLine /\ Head(stdout) = "aborted_end") => UNCHANGED <<attempt, log>>]_vars

\* With a run budget, run() returns: no silent agent, hung tool, crash loop or
\* unreachable control plane keeps the sandbox alive.
Terminates == <>(phase = "exited")

=============================================================================
