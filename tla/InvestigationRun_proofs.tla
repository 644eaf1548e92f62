-------------------------- MODULE InvestigationRun_proofs --------------------------
(***************************************************************************)
(* Theorems about an investigation.  The bridge alone, whatever Prime      *)
(* Agent writes, the network does and the clock says: exit code 0 stands   *)
(* for a delivered summary and end, exit code 1 for a recorded error, and  *)
(* no attempt replays a mutation as long as no gateway call outlives its   *)
(* attempt.  Without a budget and relayed prompts the end of an aborted    *)
(* run completes nothing.  With the control plane: a completed record is   *)
(* earned by the bridge's log, the two implement EventDelivery however     *)
(* handlers overlap, success leaves a settled record, and when nothing     *)
(* fails every run does.                                                   *)
(***************************************************************************)
EXTENDS InvestigationRun, TLAPS

LEMMA BufferGrows ==
    ASSUME NEW l \in Seq(Events), NEW e \in Events
    PROVE  /\ Append(l, e) \in Seq(Events)
           /\ Len(l) \in Nat /\ Len(Append(l, e)) = Len(l) + 1
           /\ \A s \in 1 .. Len(l) : Append(l, e)[s] = l[s]
           /\ Append(l, e)[Len(l) + 1] = e
  OBVIOUS

LEMMA PipeTypes ==
    ASSUME NEW S, NEW q \in Seq(S)
    PROVE  /\ \A x \in S : Append(q, x) \in Seq(S)
           /\ q # <<>> => Head(q) \in S /\ Tail(q) \in Seq(S)
  OBVIOUS

LEMMA EventTypes == {"started", "summary", "finished", "error"} \subseteq Events
  BY DEF Events

LEMMA CommandTypes == "prompt" \in Commands /\ "steer" \in Commands /\ "abort" \in Commands
  BY DEF Commands

LEMMA LineTypes == "agent_start" \in Lines /\ "aborted_end" \in Lines
  BY DEF Lines

-----------------------------------------------------------------------------
(* Type correctness, group by group.                                        *)

\* A step of the bridge or its environment adds at most one event to the log.
LogStep == log' = log \/ \E e \in Events : log' = Append(log, e)

LEMMA LogSteps == TypeOK /\ [Next]_vars => LogStep
  <1> SUFFICES ASSUME TypeOK, [Next]_vars PROVE LogStep
    OBVIOUS
  <1> USE EventTypes DEF LogStep, bufferVars
  <1>1. CASE ReadLine
    BY <1>1 DEF ReadLine, LineEvent
  <1>2. CASE CallSubmits
    BY <1>2 DEF CallSubmits
  <1>3. CASE WindDownEnds \/ StartFails \/ LoopRaises \/ GatewayStarts \/ PostFails \/ FlushDone
    BY <1>3
    DEF WindDownEnds, GatewayStarts, StartFails, LoopRaises, Raise, PostFails, FlushDone,
        AfterFlush
  <1>4. CASE PrimeNext
    BY <1>4 DEF PrimeNext, PrimeReads, PrimeWrites, PrimeDies
  <1> QED
    BY <1>1, <1>2, <1>3, <1>4
    DEF Next, EventNext, WatchdogNext, RunNext, vars, ReadEOF, CallMutates, RelayPrompt,
        CutoffPasses, WatchdogFires, RecoveryExpires, Spawn, RaceEnds, BackoffEnds,
        Close, PostBatch, ForcedPost, LoopPost, PostSucceeds

LEMMA ForcedNext == TypeOK /\ [Next]_vars => forced' \in BOOLEAN
  <1> SUFFICES ASSUME forced \in BOOLEAN, [Next]_vars PROVE forced' \in BOOLEAN
    BY DEF TypeOK, BufferTypes
  <1>1. UNCHANGED forced \/ forced' = FALSE \/ forced' = TRUE
    <2>1. CASE PrimeNext \/ EventNext \/ WatchdogNext
      BY <2>1
      DEF PrimeNext, EventNext, WatchdogNext, PrimeReads, PrimeWrites, PrimeDies, ReadLine,
          ReadEOF, CallMutates, CallSubmits, RelayPrompt, CutoffPasses, WatchdogFires,
          RecoveryExpires, bufferVars
    <2>2. CASE RunNext
      BY <2>2
      DEF RunNext, Spawn, GatewayStarts, StartFails, LoopRaises, Raise, Close, RaceEnds,
          WindDownEnds, BackoffEnds, FlushDone, bufferVars
    <2>3. CASE PostBatch \/ PostSucceeds \/ PostFails
      BY <2>3 DEF PostBatch, ForcedPost, LoopPost, PostSucceeds, PostFails
    <2> QED
      BY <2>1, <2>2, <2>3 DEF Next, vars, bufferVars
  <1> QED
    BY <1>1

\* What the buffer is over: the log only grows, eviction follows the window.
LEMMA BufferNext == TypeOK /\ [Next]_vars => BufferTypes'
  <1> SUFFICES ASSUME TypeOK, [Next]_vars PROVE BufferTypes'
    OBVIOUS
  <1>1. log' \in Seq(Events) /\ Len(log) \in Nat /\ Len(log') \in Nat /\ Len(log) <= Len(log')
    BY LogSteps, BufferGrows DEF LogStep, TypeOK, BufferTypes
  <1>2. \/ UNCHANGED <<acked, window>>
        \/ acked' = acked /\ window' = 0
        \/ PostBatch
        \/ PostSucceeds
    <2>1. CASE PrimeNext \/ EventNext \/ WatchdogNext
      BY <2>1
      DEF PrimeNext, EventNext, WatchdogNext, PrimeReads, PrimeWrites, PrimeDies, ReadLine,
          ReadEOF, CallMutates, CallSubmits, RelayPrompt, CutoffPasses, WatchdogFires,
          RecoveryExpires, bufferVars
    <2>2. CASE RunNext \/ PostFails
      BY <2>2
      DEF RunNext, Spawn, GatewayStarts, StartFails, LoopRaises, Raise, Close, RaceEnds,
          WindDownEnds, BackoffEnds, FlushDone, PostFails, bufferVars
    <2> QED
      BY <2>1, <2>2 DEF Next, vars, bufferVars
  <1>0. forced' \in BOOLEAN
    BY ForcedNext
  <1>3. CASE UNCHANGED <<acked, window>> \/ (acked' = acked /\ window' = 0)
    BY <1>1, <1>3, <1>0 DEF TypeOK, BufferTypes
  <1>4. CASE PostBatch
    <2>1. window' \in Nat /\ acked + window' <= Len(log) /\ acked' = acked
      <3>1. CASE ForcedPost
        BY <1>1, <3>1 DEF ForcedPost, bufferVars, TypeOK, BufferTypes
      <3>2. ASSUME NEW n \in 1 .. BatchSize, LoopPost(n)
            PROVE  window' \in Nat /\ acked + window' <= Len(log) /\ acked' = acked
        BY <3>2, BridgeAssumption DEF LoopPost
      <3> QED
        BY <1>4, <3>1, <3>2 DEF PostBatch
    <2> QED
      BY <1>1, <1>0, <2>1 DEF TypeOK, BufferTypes
  <1>5. CASE PostSucceeds
    BY <1>1, <1>5, <1>0 DEF PostSucceeds, TypeOK, BufferTypes
  <1> QED
    BY <1>2, <1>3, <1>4, <1>5

LEMMA PrimeTypesNext == TypeOK /\ [Next]_vars => PrimeTypes'
  <1> SUFFICES ASSUME PrimeTypes, [Next]_vars PROVE PrimeTypes'
    BY DEF TypeOK
  <1>0. <<"prompt">> \in Seq(Commands) /\ <<>> \in Seq(Commands) /\ <<>> \in Seq(Lines)
    BY DEF Commands
  <1> USE PipeTypes, CommandTypes, LineTypes DEF PrimeTypes, primeVars
  <1>1. CASE PrimeNext
    <2>1. CASE PrimeReads
      BY <2>1 DEF PrimeReads, Write
    <2>2. ASSUME NEW line \in Lines, PrimeWrites(line) PROVE PrimeTypes'
      BY <2>2 DEF PrimeWrites, Write
    <2> QED
      BY <1>1, <2>1, <2>2 DEF PrimeNext, PrimeDies
  <1>2. CASE ReadLine \/ RelayPrompt \/ WatchdogFires
    BY <1>2 DEF ReadLine, RelayPrompt, WatchdogFires
  <1>3. CASE Spawn \/ WindDownEnds
    BY <1>0, <1>3 DEF Spawn, WindDownEnds
  <1> QED
    BY <1>1, <1>2, <1>3
    DEF Next, EventNext, WatchdogNext, RunNext, vars, ReadEOF, CallMutates, CallSubmits,
        CutoffPasses, RecoveryExpires, GatewayStarts, StartFails, LoopRaises, Raise,
        Close, RaceEnds, BackoffEnds, FlushDone, PostBatch, ForcedPost, LoopPost,
        PostSucceeds, PostFails

\* Until the run is given up the retries are not exhausted.
CrashesBounded == phase \notin {"closing", "cleanup", "exited"} => total.crashes <= MaxRetries

LEMMA RunTypesNext == TypeOK /\ CrashesBounded /\ [Next]_vars => RunTypes'
  <1> SUFFICES ASSUME RunTypes, PrimeTypes, CrashesBounded, [Next]_vars PROVE RunTypes'
    BY DEF TypeOK
  <1> USE DEF RunTypes, bridgeVars, Phases, Forced
  <1>0. inputs' \in 0 .. MaxInputs
    <2>1. inputs' = inputs \/ Spend
      BY DEF Next, PrimeNext, PrimeReads, PrimeWrites, PrimeDies, EventNext, WatchdogNext,
             RunNext, vars, ReadLine, ReadEOF, CallMutates, CallSubmits, RelayPrompt,
             CutoffPasses, WatchdogFires, RecoveryExpires, Spawn, GatewayStarts,
             StartFails, LoopRaises, Raise, Close, RaceEnds, WindDownEnds, BackoffEnds,
             FlushDone, PostBatch, ForcedPost, LoopPost, PostSucceeds, PostFails
    <2> QED
      BY <2>1, BridgeAssumption DEF Spend
  <1>1. CASE PrimeNext
    BY <1>0, <1>1 DEF PrimeNext, PrimeReads, PrimeWrites, PrimeDies
  <1>2. CASE ReadLine
    <2>1. Head(stdout) \in Lines
      BY <1>2, PipeTypes DEF ReadLine, PrimeTypes
    <2>2. attempt' \in Attempts
      BY <1>2, <2>1
      DEF ReadLine, LineEffect, Completing, Ends, Lines, Attempts, Totals
    <2> QED
      BY <1>0, <1>2, <2>2 DEF ReadLine
  <1>3. CASE CallSubmits \/ CallMutates
    <2>1. attempt' \in Attempts /\ total' \in Totals
      BY <1>3 DEF CallSubmits, CallMutates, Completing, Attempts, Totals
    <2> QED
      BY <1>0, <1>3, <2>1 DEF CallSubmits, CallMutates
  <1>4. CASE WatchdogFires \/ RecoveryExpires \/ ReadEOF
    <2>1. attempt' \in Attempts
      BY <1>4 DEF WatchdogFires, Aborted, RecoveryExpires, ReadEOF, Attempts
    <2> QED
      BY <1>0, <1>4, <2>1 DEF WatchdogFires, RecoveryExpires, ReadEOF
  <1>5. CASE CutoffPasses \/ RelayPrompt
    BY <1>0, <1>5 DEF CutoffPasses, RelayPrompt
  <1>6. CASE Spawn
    BY <1>0, <1>6 DEF Spawn, Fresh, Attempts
  <1>11. CASE StartFails \/ LoopRaises
    <2>1. attempt' \in Attempts
      <3>1. CASE StartFails
        BY <3>1 DEF StartFails, Fresh, Attempts
      <3>2. CASE LoopRaises
        BY <3>2 DEF LoopRaises, Aborted, Attempts
      <3> QED
        BY <1>11, <3>1, <3>2
    <2>2. Raise
      BY <1>11 DEF StartFails, LoopRaises
    <2> QED
      BY <1>0, <2>1, <2>2 DEF Raise
  <1>7. CASE GatewayStarts \/ Close \/ RaceEnds \/ BackoffEnds
    BY <1>0, <1>7 DEF GatewayStarts, StartFails, LoopRaises, Raise, Close, RaceEnds,
                      BackoffEnds
  <1>8. CASE WindDownEnds
    <2>1. total' \in Totals
      <3>1. CASE Outcome \in {"retry", "exhausted"}
        <4>1. total.crashes \in 0 .. MaxRetries + 1 /\ total.crashes <= MaxRetries
          BY <1>8 DEF Totals, CrashesBounded, WindDownEnds
        <4>2. total.crashes + 1 \in 0 .. MaxRetries + 1
          BY <4>1, BridgeAssumption
        <4> QED
          BY <1>8, <3>1, <4>2 DEF WindDownEnds, Totals
      <3>2. CASE Outcome \notin {"retry", "exhausted"}
        BY <1>8, <3>2 DEF WindDownEnds
      <3> QED
        BY <3>1, <3>2
    <2> QED
      BY <1>0, <1>8, <2>1 DEF WindDownEnds
  <1>9. CASE PostFails \/ FlushDone
    BY <1>0, <1>9 DEF PostFails, FlushDone, AfterFlush
  <1>10. CASE PostBatch \/ PostSucceeds \/ UNCHANGED vars
    BY <1>0, <1>10 DEF PostBatch, ForcedPost, LoopPost, PostSucceeds, vars
  <1> QED
    BY <1>1, <1>2, <1>3, <1>4, <1>5, <1>6, <1>7, <1>8, <1>9, <1>10, <1>11
    DEF Next, EventNext, WatchdogNext, RunNext

LEMMA CrashesNext == TypeOK /\ CrashesBounded /\ [Next]_vars => CrashesBounded'
  <1> SUFFICES ASSUME RunTypes, CrashesBounded, [Next]_vars PROVE CrashesBounded'
    BY DEF TypeOK
  <1> USE DEF CrashesBounded, bridgeVars
  <1>1. CASE WindDownEnds
    <2>1. CASE Outcome = "retry"
      <3>1. total.crashes < MaxRetries /\ total.crashes \in Nat
        BY <2>1 DEF Outcome, RunTypes, Totals
      <3>2. total'.crashes = total.crashes + 1
        BY <1>1, <2>1 DEF WindDownEnds, RunTypes, Totals
      <3> QED
        BY <3>1, <3>2, BridgeAssumption
    <2>2. CASE Outcome = "persist"
      BY <1>1, <2>2 DEF WindDownEnds
    <2>3. CASE Outcome \notin {"retry", "persist"}
      <3>1. phase' \in {"closing"}
        BY <1>1, <2>3 DEF WindDownEnds
      <3> QED
        BY <3>1
    <2> QED
      BY <2>1, <2>2, <2>3
  <1>2. CASE CallMutates \/ CallSubmits
    BY <1>2 DEF CallMutates, CallSubmits, RunTypes, Totals
  <1>3. CASE PostFails \/ FlushDone \/ StartFails \/ LoopRaises \/ Close
    BY <1>3 DEF PostFails, FlushDone, GatewayStarts, StartFails, LoopRaises, Raise, Close,
                AfterFlush
  <1>4. CASE PrimeNext \/ WatchdogNext \/ PostBatch \/ PostSucceeds \/ UNCHANGED vars
    BY <1>4
    DEF PrimeNext, PrimeReads, PrimeWrites, PrimeDies, WatchdogNext, CutoffPasses,
        WatchdogFires, RecoveryExpires, PostBatch, ForcedPost, LoopPost, PostSucceeds, vars
  <1>5. CASE ReadLine \/ ReadEOF \/ RelayPrompt
    BY <1>5 DEF ReadLine, ReadEOF, RelayPrompt
  <1>6. CASE GatewayStarts \/ Spawn \/ RaceEnds \/ BackoffEnds
    BY <1>6 DEF GatewayStarts, Spawn, RaceEnds, BackoffEnds
  <1> QED
    BY <1>1, <1>2, <1>3, <1>4, <1>5, <1>6 DEF Next, EventNext, RunNext

LEMMA TypeInit == Init => TypeOK /\ CrashesBounded
  <1> SUFFICES ASSUME Init PROVE TypeOK /\ CrashesBounded
    OBVIOUS
  <1>1. RunTypes /\ CrashesBounded
    <2>1. attempt \in Attempts
      BY DEF Init, Fresh, Attempts
    <2>2. total \in Totals /\ total.crashes <= MaxRetries
      BY BridgeAssumption DEF Init, Totals
    <2>3. cutoff \in BOOLEAN
      BY DEF Init
    <2>4. /\ phase \in Phases /\ verdict \in {"completed", "expired", "ended"}
          /\ exitCode \in 0 .. 2 /\ inputs \in 0 .. MaxInputs
      BY BridgeAssumption DEF Init, Phases, Forced
    <2> QED
      BY <2>1, <2>2, <2>3, <2>4 DEF RunTypes, CrashesBounded
  <1>2. BufferTypes /\ PrimeTypes
    <2>1. forced \in BOOLEAN
      BY DEF Init
    <2> QED
      BY <2>1 DEF Init, BufferTypes, PrimeTypes, Events
  <1> QED
    BY <1>1, <1>2 DEF TypeOK

\* Every state of the bridge is well-typed; in particular acked + window never
\* exceeds what was recorded, so eviction never runs past the buffer.
THEOREM BridgeTypeCorrect == Spec => []TypeOK
  <1>1. Spec => [](TypeOK /\ CrashesBounded)
    <2>1. TypeOK /\ CrashesBounded /\ [Next]_vars => (TypeOK /\ CrashesBounded)'
      BY BufferNext, PrimeTypesNext, RunTypesNext, CrashesNext DEF TypeOK
    <2> QED
      BY <2>1, TypeInit, PTL DEF Spec
  <1> QED
    BY <1>1, PTL

-----------------------------------------------------------------------------
(* Exit codes.                                                              *)

Evidence(n) == Recorded("summary", n) /\ Recorded("finished", n)

\* What run() knows of the attempt is in the log: it is recorded in the step
\* that sets the flag, and the log never loses an entry.
FlagsAreRecorded ==
    /\ attempt.agentEnd => Recorded("finished", Len(log))
    /\ attempt.protocolFailure => Recorded("error", Len(log))
    /\ attempt.completion => Evidence(Len(log))
    /\ total.summary => Recorded("summary", Len(log))

ExitsAreRecorded ==
    /\ verdict = "completed" => Evidence(Len(log))
    /\ phase = "persist" => verdict = "completed"
    /\ exitCode = 0 => Evidence(acked)
    /\ exitCode = 1 => Recorded("error", Len(log))

\* Nothing recorded is lost, and nothing acknowledged is taken back.
LEMMA RecordsLast ==
    ASSUME TypeOK, TypeOK', [Next]_vars, NEW type \in Events
    PROVE  /\ Recorded(type, Len(log)) => Recorded(type, Len(log))'
           /\ Recorded(type, acked) => Recorded(type, acked)'
  <1>1. /\ Len(log) \in Nat /\ Len(log') \in Nat /\ Len(log) <= Len(log')
        /\ \A s \in 1 .. Len(log) : log'[s] = log[s]
    <2>1. log \in Seq(Events)
      BY DEF TypeOK, BufferTypes
    <2>2. CASE log' = log
      BY <2>1, <2>2
    <2>3. ASSUME NEW e \in Events, log' = Append(log, e)
          PROVE  /\ Len(log) \in Nat /\ Len(log') = Len(log) + 1
                 /\ \A s \in 1 .. Len(log) : log'[s] = log[s]
      BY <2>1, <2>3, BufferGrows
    <2> QED
      BY <2>2, <2>3, LogSteps DEF LogStep
  <1>2. acked' = acked \/ PostSucceeds
    BY DEF Next, PrimeNext, PrimeReads, PrimeWrites, PrimeDies, EventNext, WatchdogNext,
           RunNext, vars, bufferVars, ReadLine, ReadEOF, CallMutates, CallSubmits,
           RelayPrompt, CutoffPasses, WatchdogFires, RecoveryExpires, Spawn,
           GatewayStarts, StartFails, LoopRaises, Raise, Close, RaceEnds, WindDownEnds,
           BackoffEnds, FlushDone, PostBatch, ForcedPost, LoopPost, PostFails
  <1>3. acked \in Nat /\ acked' \in Nat /\ acked <= acked' /\ acked <= Len(log)
    BY <1>1, <1>2 DEF PostSucceeds, TypeOK, BufferTypes
  <1> QED
    BY <1>1, <1>3 DEF Recorded

\* What a step appends is recorded.
LEMMA AppendedIsRecorded ==
    ASSUME TypeOK, NEW type \in Events, log' = Append(log, type)
    PROVE  Recorded(type, Len(log))'
  <1>1. /\ Len(log) \in Nat /\ Len(log') = Len(log) + 1
        /\ log'[Len(log) + 1] = type
    BY BufferGrows DEF TypeOK, BufferTypes
  <1> QED
    BY <1>1 DEF Recorded

LEMMA FlagsNext ==
    ASSUME TypeOK, TypeOK', [Next]_vars, FlagsAreRecorded
    PROVE  FlagsAreRecorded'
  <1>1. \A type \in Events : Recorded(type, Len(log)) => Recorded(type, Len(log))'
    BY RecordsLast
  <1>2. Evidence(Len(log)) => Evidence(Len(log))'
    BY <1>1, EventTypes DEF Evidence
  <1>3. CASE ReadLine
    <2> DEFINE line == Head(stdout)
    <2>1. CASE Ends(line) /\ attempt.abortedRunOpen
      BY <1>1, <1>2, <1>3, <2>1, EventTypes DEF ReadLine, FlagsAreRecorded
    <2>2. CASE Ends(line) /\ ~attempt.abortedRunOpen
      <3>1. Recorded("finished", Len(log))'
        BY <1>3, <2>2, AppendedIsRecorded, EventTypes DEF ReadLine, LineEvent, Ends
      <3>2. attempt' = Completing([attempt EXCEPT !.agentEnd = TRUE], total.summary)
        BY <1>3, <2>2 DEF ReadLine, LineEffect, Ends
      <3>3. /\ attempt'.protocolFailure = attempt.protocolFailure
            /\ attempt'.completion => attempt.completion \/ total.summary
            /\ total' = total
        BY <1>3, <3>2 DEF ReadLine, Completing, TypeOK, RunTypes, Attempts, Totals
      <3> QED
        BY <1>1, <1>2, <3>1, <3>3, EventTypes DEF FlagsAreRecorded, Evidence
    <2>3. CASE line = "reject"
      <3>1. Recorded("error", Len(log))'
        BY <1>3, <2>3, AppendedIsRecorded, EventTypes DEF ReadLine, LineEvent, Ends
      <3>2. /\ attempt'.agentEnd = attempt.agentEnd /\ total' = total
            /\ attempt'.completion = attempt.completion
        BY <1>3, <2>3 DEF ReadLine, LineEffect, Ends, TypeOK, RunTypes, Attempts
      <3> QED
        BY <1>1, <1>2, <3>1, <3>2, EventTypes DEF FlagsAreRecorded
    <2>4. CASE ~Ends(line) /\ line # "reject"
      <3>1. /\ attempt'.agentEnd => attempt.agentEnd
            /\ attempt'.completion = attempt.completion
            /\ attempt'.protocolFailure = attempt.protocolFailure /\ total' = total
        BY <1>3, <2>4 DEF ReadLine, LineEffect, Ends, TypeOK, RunTypes, Attempts
      <3> QED
        BY <1>1, <1>2, <3>1, EventTypes DEF FlagsAreRecorded
    <2> QED
      BY <2>1, <2>2, <2>3, <2>4
  <1>4. CASE CallSubmits
    <2>1. CASE total.summary
      <3>1. attempt' = attempt /\ total'.summary = total.summary
        BY <1>4, <2>1 DEF CallSubmits, TypeOK, RunTypes, Totals
      <3> QED
        BY <1>1, <1>2, <3>1, EventTypes DEF FlagsAreRecorded
    <2>2. CASE ~total.summary
      <3>1. Recorded("summary", Len(log))'
        BY <1>4, <2>2, AppendedIsRecorded, EventTypes DEF CallSubmits
      <3>2. /\ attempt'.agentEnd = attempt.agentEnd
            /\ attempt'.protocolFailure = attempt.protocolFailure
            /\ attempt'.completion => attempt.completion \/ attempt.agentEnd
        BY <1>4, <2>2 DEF CallSubmits, Completing, TypeOK, RunTypes, Attempts
      <3> QED
        BY <1>1, <1>2, <3>1, <3>2, EventTypes DEF FlagsAreRecorded, Evidence
    <2> QED
      BY <2>1, <2>2
  <1>5. CASE Spawn \/ StartFails
    BY <1>1, <1>5, EventTypes DEF Spawn, StartFails, Raise, Fresh, FlagsAreRecorded
  <1>6. CASE CallMutates \/ WindDownEnds
    <2>1. attempt' = attempt /\ total'.summary = total.summary
      BY <1>6 DEF CallMutates, WindDownEnds, TypeOK, RunTypes, Totals
    <2> QED
      BY <1>1, <1>2, <2>1, EventTypes DEF FlagsAreRecorded
  <1>7. CASE WatchdogFires \/ RecoveryExpires \/ ReadEOF \/ LoopRaises
    <2>1. /\ attempt'.agentEnd => attempt.agentEnd
          /\ attempt'.protocolFailure = attempt.protocolFailure
          /\ attempt'.completion = attempt.completion /\ total' = total
      BY <1>7
      DEF WatchdogFires, Aborted, RecoveryExpires, ReadEOF, LoopRaises, Raise, TypeOK,
          RunTypes, Attempts
    <2> QED
      BY <1>1, <1>2, <2>1, EventTypes DEF FlagsAreRecorded
  <1>8. CASE UNCHANGED <<attempt, total>>
    BY <1>1, <1>2, <1>8, EventTypes DEF FlagsAreRecorded
  <1>9. \/ ReadLine \/ CallSubmits \/ Spawn \/ StartFails \/ CallMutates \/ WindDownEnds
        \/ LoopRaises \/ WatchdogFires \/ RecoveryExpires \/ ReadEOF \/ UNCHANGED <<attempt, total>>
    BY DEF Next, PrimeNext, PrimeReads, PrimeWrites, PrimeDies, EventNext, WatchdogNext,
           RunNext, vars, bridgeVars, RelayPrompt, CutoffPasses, GatewayStarts,
           StartFails, LoopRaises, Raise, Close, RaceEnds, BackoffEnds, FlushDone,
           PostBatch, ForcedPost, LoopPost, PostFails, PostSucceeds
  <1> QED
    BY <1>3, <1>4, <1>5, <1>6, <1>7, <1>8, <1>9

LEMMA ExitsNext ==
    ASSUME TypeOK, TypeOK', [Next]_vars, FlagsAreRecorded, ExitsAreRecorded
    PROVE  ExitsAreRecorded'
  <1>1. \A type \in Events : /\ Recorded(type, Len(log)) => Recorded(type, Len(log))'
                             /\ Recorded(type, acked) => Recorded(type, acked)'
    BY RecordsLast
  <1>2. /\ Evidence(Len(log)) => Evidence(Len(log))'
        /\ Evidence(acked) => Evidence(acked)'
    BY <1>1, EventTypes DEF Evidence
  <1>3. CASE StartFails \/ LoopRaises
    <2>1. Recorded("error", Len(log))'
      BY <1>3, AppendedIsRecorded, EventTypes
      DEF GatewayStarts, StartFails, LoopRaises, Raise, Close
    <2> QED
      BY <1>2, <1>3, <2>1 DEF GatewayStarts, StartFails, LoopRaises, Raise, Close,
                              ExitsAreRecorded
  <1>4. CASE RaceEnds
    BY <1>1, <1>2, <1>4, EventTypes DEF RaceEnds, FlagsAreRecorded, ExitsAreRecorded
  <1>5. CASE WindDownEnds
    <2>1. CASE Outcome = "persist"
      BY <1>1, <1>2, <1>5, <2>1, EventTypes DEF WindDownEnds, Outcome, ExitsAreRecorded
    <2>2. CASE Outcome = "retry"
      BY <1>1, <1>2, <1>5, <2>2, EventTypes DEF WindDownEnds, ExitsAreRecorded
    <2>3. CASE Outcome = "stop"
      <3>1. Recorded("error", Len(log))'
        BY <1>1, <2>3, EventTypes DEF Outcome, FlagsAreRecorded
      <3> QED
        BY <1>2, <1>5, <2>3, <3>1 DEF WindDownEnds, ExitsAreRecorded
    <2>4. CASE Outcome \in {"error", "exhausted"}
      <3>1. Recorded("error", Len(log))'
        BY <1>5, <2>4, AppendedIsRecorded, EventTypes DEF WindDownEnds
      <3> QED
        BY <1>2, <1>5, <2>4, <3>1 DEF WindDownEnds, ExitsAreRecorded
    <2> QED
      BY <2>1, <2>2, <2>3, <2>4 DEF Outcome
  <1>6. CASE PostFails
    <2>0. CASE ~forced
      BY <1>1, <1>2, <1>6, <2>0, EventTypes DEF PostFails, ExitsAreRecorded
    <2>1. CASE forced /\ phase = "persist"
      <3>1. Recorded("error", Len(log))'
        BY <1>6, <2>1, AppendedIsRecorded, EventTypes DEF PostFails, AfterFlush, Forced
      <3> QED
        BY <1>2, <1>6, <2>1, <3>1 DEF PostFails, AfterFlush, Forced, ExitsAreRecorded
    <2>2. CASE forced /\ phase # "persist"
      BY <1>1, <1>2, <1>6, <2>2, EventTypes DEF PostFails, AfterFlush, ExitsAreRecorded
    <2> QED
      BY <2>0, <2>1, <2>2
  <1>7. CASE FlushDone
    <2>1. CASE phase = "persist"
      BY <1>1, <1>2, <1>7, <2>1, EventTypes DEF FlushDone, AfterFlush, ExitsAreRecorded
    <2>2. CASE phase # "persist"
      BY <1>1, <1>2, <1>7, <2>2, EventTypes DEF FlushDone, AfterFlush, ExitsAreRecorded
    <2> QED
      BY <2>1, <2>2
  <1>8. CASE GatewayStarts \/ Spawn \/ BackoffEnds \/ Close
    BY <1>1, <1>2, <1>8, EventTypes DEF GatewayStarts, Close, Spawn, BackoffEnds,
                                        ExitsAreRecorded
  <1>9. CASE UNCHANGED <<phase, verdict, exitCode>>
    BY <1>1, <1>2, <1>9, EventTypes DEF ExitsAreRecorded
  <1>10. RunNext \/ PostFails \/ UNCHANGED <<phase, verdict, exitCode>>
    BY DEF Next, PrimeNext, PrimeReads, PrimeWrites, PrimeDies, EventNext, WatchdogNext,
           vars, bridgeVars, ReadLine, ReadEOF, CallMutates, CallSubmits, RelayPrompt,
           CutoffPasses, WatchdogFires, RecoveryExpires, PostBatch, ForcedPost, LoopPost,
           PostSucceeds
  <1> QED
    BY <1>3, <1>4, <1>5, <1>6, <1>7, <1>8, <1>9, <1>10 DEF RunNext

\* The invariant of the run: types, and every decision backed by the log.
BridgeInv == /\ TypeOK /\ CrashesBounded
             /\ FlagsAreRecorded /\ ExitsAreRecorded

LEMMA BridgeInvNext == BridgeInv /\ [Next]_vars => BridgeInv'
  <1> SUFFICES ASSUME BridgeInv, [Next]_vars PROVE BridgeInv'
    OBVIOUS
  <1>1. TypeOK' /\ CrashesBounded'
    BY BufferNext, PrimeTypesNext, RunTypesNext, CrashesNext DEF BridgeInv, TypeOK
  <1> QED
    BY <1>1, FlagsNext, ExitsNext DEF BridgeInv

LEMMA BridgeInvInit == Init => BridgeInv
  BY TypeInit DEF Init, Fresh, BridgeInv, FlagsAreRecorded, ExitsAreRecorded

LEMMA BridgeInvariant == Spec => []BridgeInv
  BY BridgeInvInit, BridgeInvNext, PTL DEF Spec

\* Exit code 0 is only returned for a delivered run: the control plane has
\* acknowledged a summary and an end of the run, whatever else happened.
THEOREM SuccessMeansDelivered == Spec => []SuccessIsDelivered
  <1>1. BridgeInv => SuccessIsDelivered
    BY DEF BridgeInv, ExitsAreRecorded, Evidence, SuccessIsDelivered
  <1> QED
    BY <1>1, BridgeInvariant, PTL

\* A run that returns 1 has recorded an error event, on every path to it.
THEOREM FailureMeansError == Spec => []FailureIsVisible
  <1>1. BridgeInv => FailureIsVisible
    BY DEF BridgeInv, ExitsAreRecorded, FailureIsVisible
  <1> QED
    BY <1>1, BridgeInvariant, PTL

-----------------------------------------------------------------------------
(* Replay.                                                                  *)

\* Between two attempts there is nobody who could call the gateway.
AttemptGap == {"gateway", "boot", "spawn", "backoff"}

QuietBetweenAttempts ==
    phase \in AttemptGap => ~total.mutated /\ prime \in {"none", "dead"}

LEMMA QuietNext ==
    ASSUME ~LateCalls, RunTypes, QuietBetweenAttempts, [Next]_vars
    PROVE  QuietBetweenAttempts'
  <1> USE DEF QuietBetweenAttempts, AttemptGap
  <1>1. CASE WindDownEnds
    <2>1. CASE Outcome = "retry"
      <3>1. ~total.mutated
        BY <1>1, <2>1 DEF Outcome
      <3>2. total'.mutated = total.mutated
        BY <1>1, <2>1 DEF WindDownEnds, RunTypes, Totals
      <3> QED
        BY <1>1, <3>1, <3>2 DEF WindDownEnds
    <2>2. CASE Outcome # "retry"
      BY <1>1, <2>2 DEF WindDownEnds
    <2> QED
      BY <2>1, <2>2
  <1>2. CASE CallMutates \/ CallSubmits
    BY <1>2 DEF CallMutates, CallSubmits, GatewayOpen, Alive, primeVars
  <1>3. CASE PrimeNext
    BY <1>3 DEF PrimeNext, PrimeReads, PrimeWrites, PrimeDies, Alive, bridgeVars
  <1>4. CASE PostFails \/ FlushDone
    BY <1>4 DEF PostFails, FlushDone, AfterFlush, primeVars, Forced
  <1>5. CASE GatewayStarts \/ Spawn \/ StartFails \/ LoopRaises \/ Close \/ RaceEnds \/ BackoffEnds
    BY <1>5 DEF Spawn, GatewayStarts, StartFails, LoopRaises, Raise, Close, RaceEnds,
                BackoffEnds, primeVars
  <1>6. CASE ReadLine \/ ReadEOF \/ RelayPrompt \/ WatchdogNext \/ PostBatch
             \/ PostSucceeds \/ UNCHANGED vars
    BY <1>6
    DEF ReadLine, ReadEOF, RelayPrompt, WatchdogNext, CutoffPasses, WatchdogFires,
        RecoveryExpires, PostBatch, ForcedPost, LoopPost, PostSucceeds, vars, bridgeVars,
        primeVars
  <1> QED
    BY <1>1, <1>2, <1>3, <1>4, <1>5, <1>6 DEF Next, EventNext, RunNext

\* As long as no gateway call outlives the attempt that made it, no attempt is
\* started once a state-changing call was handled: the crash is not replayed.
THEOREM MutationIsNotReplayed ==
    ASSUME ~LateCalls
    PROVE  Spec => NoReplayAfterMutation
  <1>1. Init => QuietBetweenAttempts
    BY DEF Init, QuietBetweenAttempts
  <1>2. TypeOK /\ QuietBetweenAttempts /\ [Next]_vars => QuietBetweenAttempts'
    BY QuietNext DEF TypeOK
  <1>3. QuietBetweenAttempts => (Spawn => ~total.mutated)
    BY DEF QuietBetweenAttempts, AttemptGap, Spawn
  <1> QED
    BY <1>1, <1>2, <1>3, BridgeTypeCorrect, PTL DEF Spec, NoReplayAfterMutation

-----------------------------------------------------------------------------
(* The end of an aborted run.                                               *)

\* No line like this is waiting to be read.
Unwritten(line) == \A i \in 1 .. Len(stdout) : stdout[i] # line

PipesEmpty ==
    phase \in AttemptGap => stdin = <<>> /\ stdout = <<>> /\ prime \in {"none", "dead"}

\* Before the abort: only the prompt starts a run, and a tool's start is read after
\* the start of its run.
NotAborted ==
    /\ stdin \in {<<"prompt">>, <<>>}
    /\ stdin # <<>> => prime # "running" /\ stdout = <<>> /\ ~attempt.activeTool
    /\ Unwritten("aborted_end")
    /\ \A i \in 1 .. Len(stdout) : stdout[i] = "agent_start" => i = 1 /\ ~attempt.activeTool

\* After it: the aborted run's end is written before the steer starts another run.
AbortedOnce ==
    /\ stdin \in {<<"abort", "steer">>, <<"steer">>, <<>>}
    /\ stdin # <<>> => attempt.abortedRunOpen /\ Unwritten("agent_start")
    /\ stdin = <<"abort", "steer">> => Unwritten("aborted_end")
    /\ \A i \in 1 .. Len(stdout) : stdout[i] = "aborted_end" =>
          attempt.abortedRunOpen /\ \A j \in 1 .. i : stdout[j] # "agent_start"

Scoped == IF attempt.timeoutHit THEN AbortedOnce ELSE NotAborted

AbortInv == ~cutoff /\ PipesEmpty /\ Scoped

LEMMA PipeLines ==
    ASSUME NEW q \in Seq(Lines), NEW line \in Lines
    PROVE  /\ Len(q) \in Nat /\ Len(Append(q, line)) = Len(q) + 1
           /\ \A i \in 1 .. Len(q) : Append(q, line)[i] = q[i]
           /\ Append(q, line)[Len(q) + 1] = line
           /\ q # <<>> => /\ Head(q) = q[1] /\ Len(q) > 0 /\ Len(Tail(q)) = Len(q) - 1
                          /\ \A i \in 1 .. Len(Tail(q)) : Tail(q)[i] = q[i + 1]
  OBVIOUS

\* Prime writes a line that is no agent_start and no aborted end.
LEMMA WriteKeepsScope ==
    ASSUME PrimeTypes, Scoped, prime = "running", NEW line \in Lines,
           line \notin {"agent_start", "aborted_end"}, stdout' = Append(stdout, line),
           stdin' = stdin, attempt' = attempt
    PROVE  Scoped'
  <1> USE PipeLines DEF PrimeTypes, Unwritten
  <1>1. \A i \in 1 .. Len(stdout') :
           (i \in 1 .. Len(stdout) /\ stdout'[i] = stdout[i])
           \/ stdout'[i] \notin {"agent_start", "aborted_end"}
    OBVIOUS
  <1>2. \A i \in 1 .. Len(stdout') : stdout'[i] \in {"agent_start", "aborted_end"} =>
           \A j \in 1 .. i : j \in 1 .. Len(stdout) /\ stdout'[j] = stdout[j]
    OBVIOUS
  <1>3. CASE attempt.timeoutHit
    <2>1. AbortedOnce
      BY <1>3 DEF Scoped
    <2>2. AbortedOnce'
      BY <1>1, <1>2, <2>1 DEF AbortedOnce
    <2> QED
      BY <1>3, <2>2 DEF Scoped
  <1>4. CASE ~attempt.timeoutHit
    <2>1. NotAborted
      BY <1>4 DEF Scoped
    <2>2. stdin = <<>>
      BY <2>1 DEF NotAborted
    <2>3. NotAborted'
      BY <1>1, <2>1, <2>2 DEF NotAborted
    <2> QED
      BY <1>4, <2>3 DEF Scoped
  <1> QED
    BY <1>3, <1>4

\* Prime reads the prompt, the abort or the steer.
LEMMA ReadKeepsScope ==
    ASSUME PrimeTypes, Scoped, PrimeReads
    PROVE  Scoped'
  <1>0. /\ stdout \in Seq(Lines) /\ "agent_start" \in Lines /\ "aborted_end" \in Lines
        /\ attempt' = attempt
    BY LineTypes DEF PrimeTypes, PrimeReads, bridgeVars
  <1> DEFINE Started == prime' = "running" /\ stdout' = Append(stdout, "agent_start")
             Stopped == prime' = "idle" /\ stdout' = Append(stdout, "aborted_end")
             Ignored == prime' = prime /\ stdout' = stdout
  <1>1. CASE attempt.timeoutHit
    <2>1. AbortedOnce
      BY <1>1 DEF Scoped
    <2>2. CASE stdin = <<"abort", "steer">>
      <3>1. stdin' = <<"steer">> /\ (Stopped \/ Ignored)
        BY <2>2 DEF PrimeReads, Write
      <3>2. attempt.abortedRunOpen /\ Unwritten("agent_start") /\ Unwritten("aborted_end")
        BY <2>1, <2>2 DEF AbortedOnce
      <3>3. Unwritten("agent_start")'
        BY <1>0, <3>1, <3>2, PipeLines DEF Unwritten
      <3>4. AbortedOnce'
        BY <1>0, <3>1, <3>2, <3>3 DEF AbortedOnce, Unwritten
      <3> QED
        BY <1>0, <1>1, <3>4 DEF Scoped
    <2>3. CASE stdin = <<"steer">>
      <3>1. stdin' = <<>> /\ (Started \/ Ignored)
        BY <2>3 DEF PrimeReads, Write, Alive
      <3>2. attempt.abortedRunOpen /\ Unwritten("agent_start")
        BY <2>1, <2>3 DEF AbortedOnce
      <3>3. \A i \in 1 .. Len(stdout') : stdout'[i] = "aborted_end" =>
               \A j \in 1 .. i : stdout'[j] # "agent_start"
        BY <1>0, <3>1, <3>2, PipeLines DEF Unwritten
      <3>4. AbortedOnce'
        BY <1>0, <3>1, <3>2, <3>3 DEF AbortedOnce
      <3> QED
        BY <1>0, <1>1, <3>4 DEF Scoped
    <2> QED
      BY <2>1, <2>2, <2>3 DEF AbortedOnce, PrimeReads
  <1>2. CASE ~attempt.timeoutHit
    <2>1. NotAborted
      BY <1>2 DEF Scoped
    <2>2. stdin = <<"prompt">> /\ stdout = <<>> /\ ~attempt.activeTool /\ prime # "running"
      BY <2>1 DEF NotAborted, PrimeReads
    <2>3. stdin' = <<>> /\ (Started \/ Ignored)
      BY <2>2 DEF PrimeReads, Write, Alive
    <2>4. \A i \in 1 .. Len(stdout') : i = 1 /\ stdout'[i] = "agent_start"
      <3>1. CASE Started
        <4>1. stdout' = <<"agent_start">>
          BY <2>2, <3>1
        <4> QED
          BY <4>1
      <3>2. CASE Ignored
        BY <2>2, <3>2
      <3> QED
        BY <2>3, <3>1, <3>2
    <2>5. NotAborted'
      BY <1>0, <2>2, <2>3, <2>4 DEF NotAborted, Unwritten
    <2> QED
      BY <1>0, <1>2, <2>5 DEF Scoped
  <1> QED
    BY <1>1, <1>2

\* The bridge reads a line: only the start of a run closes the aborted one.
LEMMA LineKeepsScope ==
    ASSUME TypeOK, Scoped, ReadLine
    PROVE  Scoped'
  <1> DEFINE line == Head(stdout)
  <1>1. /\ stdout \in Seq(Lines) /\ stdout # <<>> /\ stdout' = Tail(stdout) /\ stdin' = stdin
        /\ prime' = prime /\ attempt \in Attempts /\ line \in Lines
    BY PipeTypes DEF TypeOK, RunTypes, PrimeTypes, ReadLine
  <1>2. /\ line = stdout[1] /\ Len(stdout) \in Nat \ {0} /\ Len(stdout') = Len(stdout) - 1
        /\ \A i \in 1 .. Len(stdout') : stdout'[i] = stdout[i + 1]
    BY <1>1, PipeLines
  <1>3. /\ attempt'.timeoutHit <=> attempt.timeoutHit
        /\ line # "agent_start" => (attempt'.abortedRunOpen <=> attempt.abortedRunOpen)
        /\ line \notin {"tool_start", "tool_end"} => (attempt'.activeTool <=> attempt.activeTool)
    BY <1>1 DEF ReadLine, LineEffect, Attempts, Completing, Ends
  <1> HIDE DEF line
  <1>4. CASE attempt.timeoutHit
    <2>1. AbortedOnce
      BY <1>4 DEF Scoped
    <2>2. \A i \in 1 .. Len(stdout') : stdout'[i] = "aborted_end" =>
             attempt'.abortedRunOpen /\ \A j \in 1 .. i : stdout'[j] # "agent_start"
      <3> SUFFICES ASSUME NEW i \in 1 .. Len(stdout'), stdout'[i] = "aborted_end"
                   PROVE  attempt'.abortedRunOpen /\ \A j \in 1 .. i : stdout'[j] # "agent_start"
        OBVIOUS
      <3>1. i + 1 \in 1 .. Len(stdout) /\ stdout[i + 1] = "aborted_end"
        BY <1>2
      <3>2. attempt.abortedRunOpen /\ \A j \in 1 .. i + 1 : stdout[j] # "agent_start"
        BY <2>1, <3>1 DEF AbortedOnce
      <3>3. \A j \in 1 .. i : j + 1 \in 1 .. i + 1 /\ stdout'[j] = stdout[j + 1]
        BY <1>2
      <3>4. stdout[1] # "agent_start"
        BY <1>2, <3>2
      <3> QED
        BY <1>2, <1>3, <3>2, <3>3, <3>4
    <2>3. stdin # <<>> => line # "agent_start" /\ Unwritten("agent_start")'
      BY <1>2, <2>1 DEF AbortedOnce, Unwritten
    <2>4. stdin = <<"abort", "steer">> => Unwritten("aborted_end")'
      BY <1>2, <2>1 DEF AbortedOnce, Unwritten
    <2>5. AbortedOnce'
      BY <1>1, <1>3, <2>1, <2>2, <2>3, <2>4 DEF AbortedOnce
    <2> QED
      BY <1>3, <1>4, <2>5 DEF Scoped
  <1>5. CASE ~attempt.timeoutHit
    <2>1. NotAborted
      BY <1>5 DEF Scoped
    <2>2. Unwritten("agent_start")' /\ Unwritten("aborted_end")' /\ stdin = <<>>
      BY <1>1, <1>2, <2>1 DEF NotAborted, Unwritten
    <2>3. NotAborted'
      BY <1>1, <2>2 DEF NotAborted, Unwritten
    <2> QED
      BY <1>3, <1>5, <2>3 DEF Scoped
  <1> QED
    BY <1>4, <1>5

\* The watchdog aborts once, when the run of the active tool has been read.
LEMMA AbortKeepsScope ==
    ASSUME TypeOK, Scoped, ~cutoff, ~attempt.timeoutHit, attempt.activeTool,
           attempt'.timeoutHit, attempt'.abortedRunOpen, stdout' = stdout,
           stdin' \in {stdin, Append(Append(stdin, "abort"), "steer")}
    PROVE  Scoped'
  <1>1. NotAborted
    BY DEF Scoped
  <1>2. stdin = <<>> /\ Unwritten("agent_start") /\ Unwritten("aborted_end")
    BY <1>1 DEF NotAborted, Unwritten
  <1>3. stdin' \in {<<>>, <<"abort", "steer">>}
    BY <1>2
  <1>4. AbortedOnce'
    BY <1>2, <1>3 DEF AbortedOnce, Unwritten
  <1> QED
    BY <1>4 DEF Scoped

\* Steps that leave the pipes and what the abort hangs on.
LEMMA ScopeStays ==
    ASSUME Scoped, stdin' = stdin, stdout' = stdout, prime' \in {prime, "dead"},
           attempt'.timeoutHit <=> attempt.timeoutHit,
           attempt'.abortedRunOpen <=> attempt.abortedRunOpen,
           attempt'.activeTool <=> attempt.activeTool
    PROVE  Scoped'
  BY DEF Scoped, AbortedOnce, NotAborted, Unwritten

LEMMA PipesNext ==
    ASSUME ~Chat, PipesEmpty, [Next]_vars
    PROVE  PipesEmpty'
  <1> USE DEF PipesEmpty, AttemptGap
  <1>1. CASE PrimeNext
    BY <1>1 DEF PrimeNext, PrimeReads, PrimeWrites, PrimeDies, Alive, bridgeVars
  <1>2. CASE EventNext \/ WatchdogNext
    BY <1>2 DEF EventNext, ReadLine, Reading, ReadEOF, CallMutates, CallSubmits, RelayPrompt,
                WatchdogNext, CutoffPasses, WatchdogFires, RecoveryExpires, primeVars, bridgeVars
  <1>3. CASE PostBatch \/ PostSucceeds \/ PostFails \/ FlushDone
    BY <1>3 DEF PostBatch, ForcedPost, LoopPost, PostSucceeds, PostFails, FlushDone, AfterFlush,
                Forced, primeVars, bridgeVars
  <1>4. CASE GatewayStarts \/ Spawn \/ StartFails \/ LoopRaises \/ RaceEnds \/ WindDownEnds
    BY <1>4 DEF GatewayStarts, Spawn, StartFails, LoopRaises, Raise, RaceEnds, WindDownEnds,
                primeVars
  <1>5. CASE BackoffEnds \/ Close \/ UNCHANGED vars
    BY <1>5 DEF BackoffEnds, Close, primeVars, vars, bridgeVars
  <1> QED
    BY <1>1, <1>2, <1>3, <1>4, <1>5 DEF Next, RunNext

LEMMA AbortNext ==
    ASSUME ~HasBudget, ~Chat, TypeOK, AbortInv, [Next]_vars
    PROVE  AbortInv'
  <1> USE DEF AbortInv
  <1>1. ~cutoff'
    BY DEF Next, PrimeNext, PrimeReads, PrimeWrites, PrimeDies, EventNext, ReadLine, ReadEOF,
           CallMutates, CallSubmits, RelayPrompt, WatchdogNext, CutoffPasses, WatchdogFires,
           RecoveryExpires, RunNext, GatewayStarts, Spawn, StartFails, LoopRaises, Raise,
           RaceEnds, WindDownEnds, BackoffEnds, Close, FlushDone, PostBatch, ForcedPost,
           LoopPost, PostSucceeds, PostFails, vars
  <1>2. PipesEmpty'
    BY PipesNext
  <1>3. Scoped'
    <2>1. CASE PrimeReads
      BY <2>1, ReadKeepsScope DEF TypeOK
    <2>2. ASSUME NEW line \in Lines, PrimeWrites(line) PROVE Scoped'
      BY <2>2, WriteKeepsScope DEF TypeOK, PrimeWrites, Write, bridgeVars
    <2>3. CASE ReadLine
      BY <2>3, LineKeepsScope
    <2>4. CASE WatchdogFires
      <3>1. attempt'.timeoutHit /\ attempt'.abortedRunOpen /\ attempt.activeTool
        BY <2>4 DEF WatchdogFires, Aborted, TypeOK, RunTypes, Attempts
      <3> QED
        BY <2>4, <3>1, AbortKeepsScope DEF WatchdogFires
    <2>5. CASE LoopRaises
      <3>0. stdin' = stdin /\ stdout' = stdout /\ prime' = prime
        BY <2>5 DEF LoopRaises, Raise, primeVars
      <3>1. CASE attempt' = [attempt EXCEPT !.readerDone = TRUE, !.orphans = TRUE]
        <4>1. /\ attempt'.timeoutHit <=> attempt.timeoutHit
              /\ attempt'.abortedRunOpen <=> attempt.abortedRunOpen
              /\ attempt'.activeTool <=> attempt.activeTool
          BY <3>1 DEF TypeOK, RunTypes, Attempts
        <4> QED
          BY <3>0, <4>1, ScopeStays
      <3>2. CASE /\ ~attempt.timeoutHit /\ attempt.activeTool
                 /\ attempt' = [Aborted EXCEPT !.orphans = TRUE]
        <4>1. attempt'.timeoutHit /\ attempt'.abortedRunOpen
          BY <3>2 DEF Aborted, TypeOK, RunTypes, Attempts
        <4> QED
          BY <3>0, <3>2, <4>1, AbortKeepsScope
      <3> QED
        BY <2>5, <3>1, <3>2 DEF LoopRaises
    <2>6. CASE Spawn
      <3>1. ~attempt'.timeoutHit /\ ~attempt'.activeTool /\ stdin' = <<"prompt">>
            /\ stdout' = <<>> /\ prime' = "idle"
        BY <2>6 DEF Spawn, Fresh
      <3> QED
        BY <3>1 DEF Scoped, NotAborted, Unwritten
    <2>7. CASE WindDownEnds
      <3>1. attempt' = attempt /\ stdin' = <<>> /\ stdout' = <<>>
        BY <2>7 DEF WindDownEnds
      <3> QED
        BY <3>1 DEF Scoped, NotAborted, AbortedOnce, Unwritten
    <2>8. CASE StartFails
      <3>1. ~attempt'.timeoutHit /\ stdin' = <<>> /\ stdout' = <<>>
        BY <2>8 DEF StartFails, Raise, Fresh, PipesEmpty, AttemptGap, primeVars
      <3> QED
        BY <3>1 DEF Scoped, NotAborted, Unwritten
    <2>9. ASSUME /\ stdin' = stdin /\ stdout' = stdout /\ prime' \in {prime, "dead"}
                 /\ \/ attempt' = attempt
                    \/ attempt' = [attempt EXCEPT !.readerDone = TRUE]
                    \/ attempt' = [attempt EXCEPT !.expired = TRUE]
                    \/ attempt' = Completing(attempt, TRUE)
          PROVE  Scoped'
      <3>1. /\ attempt'.timeoutHit <=> attempt.timeoutHit
            /\ attempt'.abortedRunOpen <=> attempt.abortedRunOpen
            /\ attempt'.activeTool <=> attempt.activeTool
        BY <2>9 DEF TypeOK, RunTypes, Attempts, Completing
      <3> QED
        BY <2>9, <3>1, ScopeStays
    <2>10. CASE PrimeDies \/ ReadEOF \/ CallMutates \/ CallSubmits \/ RecoveryExpires
      BY <2>9, <2>10 DEF PrimeDies, ReadEOF, CallMutates, CallSubmits, RecoveryExpires,
                         bridgeVars, primeVars
    <2>11. CASE PostBatch \/ PostSucceeds \/ PostFails \/ FlushDone
      BY <2>9, <2>11 DEF PostBatch, ForcedPost, LoopPost, PostSucceeds, PostFails, FlushDone,
                         bridgeVars, primeVars
    <2>12. CASE GatewayStarts \/ RaceEnds \/ BackoffEnds \/ Close \/ UNCHANGED vars
      BY <2>9, <2>12 DEF GatewayStarts, RaceEnds, BackoffEnds, Close, vars, bridgeVars, primeVars
    <2>13. ~CutoffPasses /\ ~RelayPrompt
      BY DEF CutoffPasses, RelayPrompt
    <2> QED
      BY <2>1, <2>2, <2>3, <2>4, <2>5, <2>6, <2>7, <2>8, <2>10, <2>11, <2>12, <2>13
      DEF Next, PrimeNext, EventNext, WatchdogNext, RunNext
  <1> QED
    BY <1>1, <1>2, <1>3

\* Without a run budget and relayed prompts only a tool that overruns is aborted, in a
\* run whose start has been read: the agent_end that Prime writes because of it emits no
\* investigation_finished and completes no attempt.  bridge_abort shows the budget's case.
THEOREM AbortedRunIsIgnored ==
    ASSUME ~HasBudget, ~Chat
    PROVE  Spec => AbortedEndIsIgnored
  <1>1. Init => AbortInv
    BY DEF Init, AbortInv, PipesEmpty, AttemptGap, Scoped, NotAborted, Unwritten, Fresh
  <1>2. TypeOK /\ AbortInv /\ [Next]_vars => AbortInv'
    BY AbortNext
  <1>3. TypeOK /\ AbortInv => (ReadLine /\ Head(stdout) = "aborted_end" => UNCHANGED <<attempt, log>>)
    <2> SUFFICES ASSUME TypeOK, AbortInv, ReadLine, Head(stdout) = "aborted_end"
                 PROVE  UNCHANGED <<attempt, log>>
      OBVIOUS
    <2>1. stdout \in Seq(Lines) /\ stdout # <<>>
      BY DEF TypeOK, PrimeTypes, ReadLine
    <2>2. Len(stdout) \in Nat /\ 1 \in 1 .. Len(stdout) /\ stdout[1] = "aborted_end"
      BY <2>1, PipeLines, LineTypes
    <2>3. attempt.abortedRunOpen
      BY <2>2 DEF AbortInv, Scoped, AbortedOnce, NotAborted, Unwritten
    <2> QED
      BY <2>3 DEF ReadLine, Ends
  <1> QED
    BY <1>1, <1>2, <1>3, BridgeTypeCorrect, PTL DEF Spec, AbortedEndIsIgnored

-----------------------------------------------------------------------------
(* The investigation end to end.  Bridge and control plane share the log:   *)
(* what a handler decides is decided by events that stay in it.             *)

Ended == total.summary /\ Recorded("finished", Len(log))

\* A summary event is only emitted with the flag that outlives the attempts.
SummaryRemembered == Recorded("summary", Len(log)) => total.summary

\* What a handler holds comes from the log.
Sound(x) ==
    /\ x \in CP!TxnRecords /\ x.batch \in SUBSET (1 .. Len(log)) /\ x.ins \in SUBSET (1 .. Len(log))
    /\ x.sum => total.summary
    /\ x.target = "completed" => Ended

HandlersInv == txn \in [CP!Txns -> CP!TxnRecords] /\ \A t \in CP!Txns : Sound(txn[t])

RecordInv ==
    /\ status \in CP!Statuses \cup {CP!None} /\ summary \in BOOLEAN
    /\ events \in SUBSET (1 .. Len(log)) /\ ignored \in SUBSET (1 .. Len(log))
    /\ lost \in SUBSET (1 .. Len(log))
    /\ summary => total.summary
    /\ status = "completed" => Ended

PostingInv ==
    /\ posting \in Requests \cup {"none"}
    /\ window > 0 <=> posting # "none"

RunInv == BridgeInv /\ SummaryRemembered /\ HandlersInv /\ RecordInv /\ PostingInv

\* The death of a sandbox forges no evidence.
LEMMA DeathKeepsBridge ==
    ASSUME BridgeInv, SandboxDies
    PROVE  BridgeInv' /\ UNCHANGED <<log, total, acked>>
<1>1. /\ UNCHANGED <<attempt, total, verdict, exitCode, log, acked, stdin, stdout, cutoff, inputs>>
      /\ phase' = "exited" /\ window' = 0 /\ forced' = FALSE /\ prime' = "dead"
  BY DEF SandboxDies
<1>2. TypeOK'
  <2>1. RunTypes'
    BY <1>1 DEF BridgeInv, TypeOK, RunTypes, Phases
  <2>2. BufferTypes'
    <3>1. log \in Seq(Events) /\ acked \in Nat /\ window \in Nat /\ acked + window <= Len(log)
      BY DEF BridgeInv, TypeOK, BufferTypes
    <3>2. Len(log) \in Nat
      BY <3>1, BufferGrows
    <3>3. acked <= Len(log) /\ acked + 0 <= Len(log)
      BY <3>1, <3>2
    <3>4. UNCHANGED <<log, acked>> /\ window' = 0 /\ forced' = FALSE
      BY <1>1
    <3>5. log' \in Seq(Events) /\ acked' \in Nat /\ window' \in Nat /\ forced' \in BOOLEAN
      BY <3>1, <3>4
    <3>6. acked' + window' <= Len(log')
      BY <3>3, <3>4
    <3> QED BY <3>5, <3>6 DEF BufferTypes
  <2>3. PrimeTypes'
    BY <1>1 DEF BridgeInv, TypeOK, PrimeTypes
  <2> QED BY <2>1, <2>2, <2>3 DEF TypeOK
<1>3. CrashesBounded'
  BY <1>1 DEF CrashesBounded
<1>4. FlagsAreRecorded'
  BY <1>1 DEF BridgeInv, FlagsAreRecorded, Recorded, Evidence
<1>5. ExitsAreRecorded'
  BY <1>1 DEF BridgeInv, ExitsAreRecorded, Recorded, Evidence
<1> QED BY <1>1, <1>2, <1>3, <1>4, <1>5 DEF BridgeInv

LEMMA SummaryNext ==
    ASSUME TypeOK, [Next]_vars, SummaryRemembered
    PROVE  SummaryRemembered' /\ (total.summary => total'.summary)
<1>1. log \in Seq(Events) /\ total \in Totals
  BY DEF TypeOK, BufferTypes, RunTypes
<1>2. total.summary => total'.summary
  BY <1>1 DEF Totals, Next, vars, bridgeVars, PrimeNext, PrimeReads, PrimeWrites, PrimeDies,
       EventNext, ReadLine, ReadEOF, CallMutates, CallSubmits, RelayPrompt, WatchdogNext,
       CutoffPasses, WatchdogFires, RecoveryExpires, RunNext, GatewayStarts, Spawn, StartFails,
       Raise, LoopRaises, RaceEnds, WindDownEnds, BackoffEnds, Close, FlushDone, PostBatch,
       ForcedPost, LoopPost, PostSucceeds, PostFails
<1>3. \/ log' = log
      \/ total'.summary
      \/ \E e \in Events \ {"summary"} : log' = Append(log, e)
  <2>1. CASE CallSubmits
    BY <1>1, <2>1 DEF CallSubmits, Totals
  <2>2. CASE ~CallSubmits
    BY <2>2 DEF Events, Next, vars, bufferVars, PrimeNext, PrimeReads, PrimeWrites, PrimeDies,
       EventNext, ReadLine, LineEvent, ReadEOF, CallMutates, RelayPrompt, WatchdogNext,
       CutoffPasses, WatchdogFires, RecoveryExpires, RunNext, GatewayStarts, Spawn, StartFails,
       Raise, LoopRaises, RaceEnds, WindDownEnds, BackoffEnds, Close, FlushDone, AfterFlush,
       PostBatch, ForcedPost, LoopPost, PostSucceeds, PostFails
  <2> QED BY <2>1, <2>2
<1>4. ASSUME NEW e \in Events \ {"summary"}, log' = Append(log, e) PROVE SummaryRemembered'
  <2>1. /\ Len(log) \in Nat /\ Len(log') = Len(log) + 1 /\ log'[Len(log) + 1] = e
        /\ \A s \in 1 .. Len(log) : log'[s] = log[s]
    BY <1>1, <1>4, BufferGrows
  <2>2. Recorded("summary", Len(log))' => Recorded("summary", Len(log))
    BY <2>1 DEF Recorded
  <2> QED BY <1>2, <2>2 DEF SummaryRemembered
<1>5. CASE log' = log
  BY <1>2, <1>5 DEF SummaryRemembered, Recorded
<1>6. CASE total'.summary
  BY <1>6 DEF SummaryRemembered
<1> QED BY <1>2, <1>3, <1>4, <1>5, <1>6

\* What a bridge step leaves to the control plane stays true.
LEMMA BridgeLasts ==
    ASSUME RunInv, TypeOK', [Next]_vars
    PROVE  Len(log) \in Nat /\ 1 .. Len(log) \in SUBSET (1 .. Len(log')) /\ (Ended => Ended')
           /\ (total.summary => total'.summary)
<1>1. TypeOK /\ SummaryRemembered
  BY DEF RunInv, BridgeInv
<1>2. log \in Seq(Events) /\ log' \in Seq(Events)
  BY <1>1 DEF TypeOK, BufferTypes
<1>3. Len(log) \in Nat /\ Len(log') \in Nat /\ Len(log) <= Len(log')
  BY <1>1, <1>2, LogSteps, BufferGrows DEF LogStep
<1>4. 1 .. Len(log) \in SUBSET (1 .. Len(log'))
  BY <1>3
<1>5. Recorded("finished", Len(log)) => Recorded("finished", Len(log))'
  BY <1>1, RecordsLast, EventTypes
<1>6. total.summary => total'.summary
  BY <1>1, SummaryNext
<1> QED BY <1>3, <1>4, <1>5, <1>6 DEF Ended

LEMMA HandlersWait ==
    ASSUME RunInv, Len(log) \in Nat, 1 .. Len(log) \in SUBSET (1 .. Len(log')), Ended => Ended',
           total.summary => total'.summary,
           UNCHANGED <<recordVars, ignored, lost>>
    PROVE  RecordInv' /\ (\A x : Sound(x) => Sound(x)')
<1>1. RecordInv'
  <2>1. UNCHANGED <<status, summary, events, ignored, lost>>
    BY DEF recordVars
  <2>2. RecordInv
    BY DEF RunInv
  <2> QED BY <2>1, <2>2 DEF RecordInv
<1>2. ASSUME NEW x, Sound(x) PROVE Sound(x)'
  BY <1>2 DEF Sound
<1> QED BY <1>1, <1>2

\* One handler moves on.
LEMMA OneHandler ==
    ASSUME HandlersInv, NEW t \in CP!Txns, NEW x, txn' = [txn EXCEPT ![t] = x],
           \A y : Sound(y) => Sound(y)', Sound(x)'
    PROVE  HandlersInv'
<1>1. txn \in [CP!Txns -> CP!TxnRecords] /\ x \in CP!TxnRecords
  BY DEF HandlersInv, Sound
<1>2. ASSUME NEW u \in CP!Txns PROVE Sound(txn[u])'
  <2>1. CASE u = t
    BY <1>1, <2>1
  <2>2. CASE u # t
    <3>1. txn'[u] = txn[u] /\ Sound(txn[u])
      BY <1>1, <2>2 DEF HandlersInv
    <3> QED BY <3>1 DEF Sound
  <2> QED BY <2>1, <2>2
<1> QED BY <1>1, <1>2 DEF HandlersInv

\* The statements of record_events that hold or decide something.
LEMMA RecordStays ==
    ASSUME RecordInv, UNCHANGED <<vars, recordVars, lost>>,
           ignored' \in SUBSET (1 .. Len(log))
    PROVE  RecordInv' /\ \A y : Sound(y) => Sound(y)'
<1>1. UNCHANGED <<log, total>>
  BY DEF vars, bridgeVars, bufferVars
<1>2. UNCHANGED <<status, summary, events>>
  BY DEF recordVars
<1>3. RecordInv'
  BY <1>1, <1>2 DEF RecordInv, Ended, Recorded
<1>4. ASSUME NEW y, Sound(y) PROVE Sound(y)'
  BY <1>1, <1>4 DEF Sound, Ended, Recorded
<1> QED BY <1>3, <1>4

LEMMA IdleIsSound == Sound(CP!Idle)
  BY DEF Sound, CP!Idle, CP!TxnRecords, CP!Stages, CP!None

LEMMA TypesAreRecorded ==
    ASSUME NEW x, Sound(x), NEW type \in CP!TypesIn(x.batch)
    PROVE  Recorded(type, Len(log))
  BY DEF Sound, CP!TypesIn, Recorded

\* A verdict is earned.
LEMMA ProjectIsSound ==
    ASSUME RunInv, NEW r \in Requests, CP!ProjectBatch(r)
    PROVE  \E x : Sound(x) /\ txn' = [txn EXCEPT ![r] = x]
<1> DEFINE types == CP!TypesIn(txn[r].batch)
           submitted == "summary" \in types
           decision == CP!Verdict(types, summary \/ submitted)
           target == IF decision = CP!None THEN txn[r].target ELSE decision
           stage == IF decision = CP!None /\ "heartbeat" \notin types THEN "committing" ELSE "update"
           x == [txn[r] EXCEPT !.sum = submitted, !.target = target, !.stage = stage]
<1>1. Sound(txn[r]) /\ txn \in [CP!Txns -> CP!TxnRecords] /\ r \in CP!Txns
  BY DEF RunInv, HandlersInv, CP!Txns
<1>2. txn' = [txn EXCEPT ![r] = x]
  BY <1>1 DEF CP!ProjectBatch, CP!TxnRecords
<1>3. "summary" \in types => total.summary
  BY <1>1, TypesAreRecorded DEF RunInv, SummaryRemembered
<1>4. decision \in {"completed", "failed", CP!None}
  BY DEF CP!Verdict
<1>5. decision = "completed" => "finished" \in types /\ (summary \/ "summary" \in types)
  BY DEF CP!Verdict, CP!None
<1>6. decision = "completed" => Ended
  BY <1>1, <1>3, <1>5, TypesAreRecorded DEF RunInv, RecordInv, Ended
<1>7. /\ submitted \in BOOLEAN /\ stage \in CP!Stages
      /\ target \in CP!Statuses \cup {CP!None}
      /\ target = "completed" => Ended
  BY <1>1, <1>4, <1>6 DEF Sound, CP!TxnRecords, CP!Stages, CP!Statuses, CP!Terminal
<1> HIDE DEF submitted, target, stage
<1>8. /\ x.batch = txn[r].batch /\ x.ins = txn[r].ins /\ x.sum = submitted /\ x.target = target
      /\ x \in CP!TxnRecords
  BY <1>1, <1>7 DEF Sound, CP!TxnRecords
<1> HIDE DEF x
<1>9. Sound(x)
  <2>1. submitted => total.summary
    BY <1>3 DEF submitted
  <2> QED BY <1>1, <1>7, <1>8, <2>1 DEF Sound
<1> QED BY <1>2, <1>9

LEMMA HandlerStepSound ==
    ASSUME RunInv, NEW r \in Requests, CP!ServerStep(r)
    PROVE  /\ \E x : Sound(x) /\ txn' = [txn EXCEPT ![r] = x]
           /\ UNCHANGED <<recordVars, lost>> /\ ignored' \in SUBSET (1 .. Len(log))
<1>1. Sound(txn[r]) /\ txn \in [CP!Txns -> CP!TxnRecords] /\ r \in CP!Txns
  BY DEF RunInv, HandlersInv, CP!Txns
<1>2. ignored \in SUBSET (1 .. Len(log)) /\ txn[r].batch \in SUBSET (1 .. Len(log))
  BY <1>1 DEF RunInv, RecordInv, Sound
<1>3. UNCHANGED <<recordVars, lost>> /\ ignored' \in SUBSET (1 .. Len(log))
  BY <1>2 DEF CP!ServerStep, CP!RejectToken, CP!AcceptOpen, CP!AcceptClosing, CP!IgnoreTerminal,
       CP!PromoteToRunning, CP!InsertEvents, CP!InsertClosing, CP!ProjectBatch,
       CP!RejectSecondSummary, CP!UpdateRecord, CP!AbortRequest, CP!Fail, CP!recordVars,
       CP!historyVars, recordVars
<1>4. CASE CP!RejectToken(r) \/ CP!RejectSecondSummary(r) \/ CP!AbortRequest(r)
  <2>1. txn' = [txn EXCEPT ![r] = CP!Idle]
    BY <1>4 DEF CP!RejectToken, CP!RejectSecondSummary, CP!AbortRequest, CP!Fail
  <2> QED BY <1>3, <2>1, IdleIsSound
<1>5. CASE CP!AcceptOpen(r) \/ CP!AcceptClosing(r) \/ CP!IgnoreTerminal(r)
  <2>1. PICK stage \in CP!Stages : txn' = [txn EXCEPT ![r] = [txn[r] EXCEPT !.stage = stage]]
    BY <1>1, <1>5 DEF CP!AcceptOpen, CP!AcceptClosing, CP!IgnoreTerminal, CP!Stages
  <2>2. Sound([txn[r] EXCEPT !.stage = stage])
    BY <1>1 DEF Sound, CP!TxnRecords
  <2> QED BY <1>3, <2>1, <2>2
<1>6. CASE CP!PromoteToRunning(r)
  <2> DEFINE x == [txn[r] EXCEPT !.stage = "insert", !.row = TRUE, !.target = "running"]
  <2>1. txn' = [txn EXCEPT ![r] = x]
    BY <1>1, <1>6 DEF CP!PromoteToRunning, CP!TxnRecords
  <2>2. Sound(x)
    BY <1>1 DEF Sound, CP!TxnRecords, CP!Stages, CP!Statuses
  <2> QED BY <1>3, <2>1, <2>2
<1>7. CASE CP!InsertEvents(r) \/ CP!InsertClosing(r)
  <2>1. PICK stage \in CP!Stages :
            txn' = [txn EXCEPT ![r] = [txn[r] EXCEPT !.stage = stage, !.ins = txn[r].batch \ events]]
    BY <1>1, <1>7 DEF CP!InsertEvents, CP!InsertClosing, CP!TxnRecords, CP!Stages
  <2> DEFINE x == [txn[r] EXCEPT !.stage = stage, !.ins = txn[r].batch \ events]
  <2>2. txn[r].batch \ events \in SUBSET Nat /\ txn[r].batch \ events \in SUBSET (1 .. Len(log))
    BY <1>1 DEF Sound, CP!TxnRecords
  <2>3. Sound(x)
    BY <1>1, <2>2 DEF Sound, CP!TxnRecords
  <2> QED BY <1>3, <2>1, <2>3
<1>8. CASE CP!ProjectBatch(r)
  BY <1>3, <1>8, ProjectIsSound
<1>9. CASE CP!UpdateRecord(r)
  <2> DEFINE x == [txn[r] EXCEPT !.stage = "committing", !.row = TRUE]
  <2>1. txn' = [txn EXCEPT ![r] = x]
    BY <1>1, <1>9 DEF CP!UpdateRecord, CP!TxnRecords
  <2>2. Sound(x)
    BY <1>1 DEF Sound, CP!TxnRecords, CP!Stages
  <2> QED BY <1>3, <2>1, <2>2
<1> QED BY <1>4, <1>5, <1>6, <1>7, <1>8, <1>9 DEF CP!ServerStep

\* A commit publishes only what its handler held.
LEMMA CommitKeepsRun ==
    ASSUME RunInv, NEW t \in CP!Txns, CP!Commit(t) \/ CP!CommitFails(t), UNCHANGED <<vars, posting>>
    PROVE  RecordInv' /\ HandlersInv'
<1>1. Sound(txn[t]) /\ RecordInv /\ HandlersInv
  BY DEF RunInv, HandlersInv
<1>2. UNCHANGED <<log, total>>
  BY DEF vars, bridgeVars, bufferVars
<1>3. txn' = [txn EXCEPT ![t] = CP!Idle]
  BY DEF CP!Commit, CP!CommitFails
<1>4. \A y : Sound(y) => Sound(y)'
  BY <1>2 DEF Sound, Ended, Recorded
<1>5. HandlersInv'
  BY <1>1, <1>3, <1>4, IdleIsSound, OneHandler
<1>6. RecordInv'
  <2>1. CASE CP!Commit(t)
    <3>1. /\ events' = events \cup txn[t].ins /\ summary' = (summary \/ txn[t].sum)
          /\ status' = IF txn[t].target = CP!None THEN status ELSE txn[t].target
          /\ UNCHANGED <<ignored, lost>>
      BY <2>1 DEF CP!Commit, CP!historyVars
    <3>2. /\ txn[t].ins \in SUBSET (1 .. Len(log)) /\ txn[t].sum \in BOOLEAN
          /\ txn[t].target \in CP!Statuses \cup {CP!None}
          /\ txn[t].sum => total.summary
          /\ txn[t].target = "completed" => Ended
      BY <1>1 DEF Sound, CP!TxnRecords
    <3>3. Ended' <=> Ended
      BY <1>2 DEF Ended, Recorded
    <3>4. events' \in SUBSET (1 .. Len(log)) /\ summary' \in BOOLEAN /\ (summary' => total.summary)
      <4>1. events \in SUBSET (1 .. Len(log)) /\ summary \in BOOLEAN /\ (summary => total.summary)
        BY <1>1 DEF RecordInv
      <4>2. events' \in SUBSET (1 .. Len(log))
        BY <3>1, <3>2, <4>1
      <4>3. summary' \in BOOLEAN /\ (summary' => total.summary)
        BY <3>1, <3>2, <4>1
      <4> QED BY <4>2, <4>3
    <3>5. status' \in CP!Statuses \cup {CP!None} /\ (status' = "completed" => Ended)
      <4>1. status \in CP!Statuses \cup {CP!None} /\ (status = "completed" => Ended)
        BY <1>1 DEF RecordInv
      <4>2. CASE txn[t].target = CP!None
        <5>1. status' = status
          BY <2>1, <4>2 DEF CP!Commit
        <5> QED BY <4>1, <5>1
      <4>3. CASE txn[t].target # CP!None
        <5>1. status' = txn[t].target
          BY <2>1, <4>3 DEF CP!Commit
        <5>2. txn[t].target \in CP!Statuses \cup {CP!None} /\ (txn[t].target = "completed" => Ended)
          BY <3>2
        <5> QED BY <5>1, <5>2
      <4> QED BY <4>2, <4>3
    <3>6. ignored' \in SUBSET (1 .. Len(log)) /\ lost' \in SUBSET (1 .. Len(log))
      BY <1>1, <3>1 DEF RecordInv
    <3> QED BY <1>2, <3>3, <3>4, <3>5, <3>6 DEF RecordInv
  <2>2. CASE CP!CommitFails(t)
    <3>1. lost' = lost \cup txn[t].ins /\ UNCHANGED <<status, summary, events, ignored>>
      BY <2>2 DEF CP!CommitFails, CP!recordVars
    <3>2. txn[t].ins \in SUBSET (1 .. Len(log))
      BY <1>1 DEF Sound
    <3> QED BY <1>1, <1>2, <3>1, <3>2 DEF RecordInv, Ended, Recorded
  <2> QED BY <2>1, <2>2
<1> QED BY <1>5, <1>6

LEMMA ControlPlaneKeepsRun ==
    ASSUME RunInv, ControlPlaneStep
    PROVE  RunInv'
<1>1. UNCHANGED <<vars, posting>> /\ CP!ControlPlaneNext
  BY DEF ControlPlaneStep
<1>2. UNCHANGED <<log, total, window>>
  BY <1>1 DEF vars, bridgeVars, bufferVars
<1>3. BridgeInv' /\ SummaryRemembered' /\ PostingInv'
  <2>1. BridgeInv'
    BY <1>1 DEF RunInv, BridgeInv, TypeOK, RunTypes, BufferTypes, PrimeTypes, CrashesBounded,
         FlagsAreRecorded, ExitsAreRecorded, Evidence, Recorded, vars, bridgeVars, bufferVars,
         primeVars
  <2>2. SummaryRemembered' /\ PostingInv'
    BY <1>1, <1>2 DEF RunInv, SummaryRemembered, Recorded, PostingInv
  <2> QED BY <2>1, <2>2
<1>4. RecordInv /\ HandlersInv
  BY DEF RunInv
<1>5. /\ Starter \in CP!Txns /\ Sweeper \in CP!Txns /\ Requests \in SUBSET CP!Txns
      /\ \A t \in CP!Txns : Sound(txn[t])
      /\ txn \in [CP!Txns -> CP!TxnRecords]
  BY <1>4 DEF CP!Txns, HandlersInv
<1>6. ASSUME NEW t \in CP!Txns, NEW x, Sound(x), txn' = [txn EXCEPT ![t] = x],
             UNCHANGED <<recordVars, lost>>, ignored' \in SUBSET (1 .. Len(log))
      PROVE  RecordInv' /\ HandlersInv'
  <2>1. RecordInv' /\ \A y : Sound(y) => Sound(y)'
    BY <1>1, <1>4, <1>6, RecordStays
  <2> QED BY <1>4, <1>6, <2>1, OneHandler
<1>7. ignored \in SUBSET (1 .. Len(log))
  BY <1>4 DEF RecordInv
<1>8. ASSUME CP!LaunchSandbox \/ CP!LaunchFails PROVE RecordInv' /\ HandlersInv'
  <2>1. PICK target \in {"pending", "failed"} :
            txn' = [txn EXCEPT ![Starter] =
                       [txn[Starter] EXCEPT !.stage = "committing", !.target = target]]
    BY <1>5, <1>8 DEF CP!LaunchSandbox, CP!LaunchFails, CP!TxnRecords
  <2> DEFINE x == [txn[Starter] EXCEPT !.stage = "committing", !.target = target]
  <2>2. Sound(x)
    BY <1>5 DEF Sound, CP!TxnRecords, CP!Stages, CP!Statuses, CP!Terminal
  <2>3. UNCHANGED <<recordVars, lost, ignored>>
    BY <1>8 DEF CP!LaunchSandbox, CP!LaunchFails, CP!recordVars, CP!historyVars, recordVars
  <2> QED BY <1>5, <1>6, <1>7, <2>1, <2>2, <2>3
<1>9. ASSUME NEW r \in Requests, CP!ServerStep(r) PROVE RecordInv' /\ HandlersInv'
  BY <1>5, <1>6, <1>9, HandlerStepSound
<1>10. ASSUME CP!SelectStale \/ CP!UpdateRecord(Sweeper) PROVE RecordInv' /\ HandlersInv'
  <2>1. CASE CP!SelectStale
    <3> DEFINE x == [txn[Sweeper] EXCEPT !.stage = "update", !.target = "failed"]
    <3>1. txn' = [txn EXCEPT ![Sweeper] = x] /\ UNCHANGED <<recordVars, lost, ignored>>
      BY <1>5, <2>1 DEF CP!SelectStale, CP!TxnRecords, CP!recordVars, CP!historyVars, recordVars
    <3>2. Sound(x)
      BY <1>5 DEF Sound, CP!TxnRecords, CP!Stages, CP!Statuses, CP!Terminal
    <3> QED BY <1>5, <1>6, <1>7, <3>1, <3>2
  <2>2. CASE CP!UpdateRecord(Sweeper)
    <3> DEFINE x == [txn[Sweeper] EXCEPT !.stage = "committing", !.row = TRUE]
    <3>1. txn' = [txn EXCEPT ![Sweeper] = x] /\ UNCHANGED <<recordVars, lost, ignored>>
      BY <1>5, <2>2 DEF CP!UpdateRecord, CP!TxnRecords, CP!recordVars, CP!historyVars, recordVars
    <3>2. Sound(x)
      BY <1>5 DEF Sound, CP!TxnRecords, CP!Stages
    <3> QED BY <1>5, <1>6, <1>7, <3>1, <3>2
  <2> QED BY <1>10, <2>1, <2>2
<1>11. ASSUME CP!FallSilent PROVE RecordInv' /\ HandlersInv'
  <2>1. UNCHANGED <<status, events, summary, ignored, lost, txn>>
    BY <1>11 DEF CP!FallSilent, CP!historyVars
  <2>2. RecordInv'
    BY <1>2, <1>4, <2>1 DEF RecordInv, Ended, Recorded
  <2>3. HandlersInv'
    BY <1>2, <1>4, <2>1 DEF HandlersInv, Sound, Ended, Recorded
  <2> QED BY <2>2, <2>3
<1>12. ASSUME NEW t \in CP!Txns, CP!Commit(t) \/ CP!CommitFails(t) PROVE RecordInv' /\ HandlersInv'
  BY <1>1, <1>12, CommitKeepsRun
<1>13. RecordInv' /\ HandlersInv'
  BY <1>1, <1>8, <1>9, <1>10, <1>11, <1>12 DEF CP!ControlPlaneNext
<1> QED BY <1>3, <1>13 DEF RunInv

LEMMA IntervalWithin ==
    ASSUME NEW a \in Nat, NEW n \in Nat, NEW l \in Nat, a + n <= l
    PROVE  (a + 1 .. a + n) \in SUBSET (1 .. l) /\ (a + 1 .. a + n) \in SUBSET Nat
  OBVIOUS

\* The steps of the bridge, its environment and its POSTs.
LEMMA BridgeKeepsRun ==
    ASSUME RunInv, "none" \notin Requests,
           \/ \E r \in Requests : BridgePosts(r)
           \/ PostAnswered \/ PostRefused \/ BridgeWindsDown \/ BridgeStep \/ SandboxDies
    PROVE  RunInv'
<1>1. BridgeInv /\ TypeOK /\ SummaryRemembered /\ RecordInv /\ HandlersInv /\ PostingInv
  BY DEF RunInv, BridgeInv
<1>2. ~SandboxDies => Next
  BY DEF BridgePosts, PostAnswered, PostRefused, BridgeWindsDown, BridgeStep, Next, RunNext
<1>3. BridgeInv' /\ SummaryRemembered'
  <2>1. CASE SandboxDies
    BY <1>1, <2>1, DeathKeepsBridge DEF SummaryRemembered, Recorded
  <2>2. CASE ~SandboxDies
    BY <1>1, <1>2, <2>2, BridgeInvNext, SummaryNext
  <2> QED BY <2>1, <2>2
<1>4. /\ Len(log) \in Nat /\ 1 .. Len(log) \in SUBSET (1 .. Len(log')) /\ (Ended => Ended')
      /\ (total.summary => total'.summary)
  <2>1. CASE SandboxDies
    <3>1. log \in Seq(Events)
      BY <1>1 DEF TypeOK, BufferTypes
    <3> QED BY <1>1, <2>1, <3>1, DeathKeepsBridge DEF Ended, Recorded
  <2>2. CASE ~SandboxDies
    BY <1>2, <1>3, <2>2, BridgeLasts DEF BridgeInv
  <2> QED BY <2>1, <2>2
<1>5. UNCHANGED <<recordVars, ignored, lost>>
  BY DEF BridgePosts, CP!Receive, CP!recordVars, CP!historyVars, recordVars, PostAnswered,
       PostRefused, BridgeWindsDown, BridgeStep, SandboxDies, Release, serverVars
<1>6. RecordInv' /\ \A x : Sound(x) => Sound(x)'
  BY <1>4, <1>5, HandlersWait
<1>7. HandlersInv'
  <2>1. ASSUME NEW r \in Requests, BridgePosts(r) PROVE HandlersInv'
    <3> DEFINE batch == acked + 1 .. acked + window'
               x == [txn[r] EXCEPT !.stage = "received", !.batch = batch]
    <3>1. Sound(txn[r]) /\ r \in CP!Txns /\ txn \in [CP!Txns -> CP!TxnRecords]
      BY <1>1 DEF HandlersInv, CP!Txns
    <3>2. txn' = [txn EXCEPT ![r] = x]
      BY <2>1, <3>1 DEF BridgePosts, CP!Receive, CP!TxnRecords
    <3>3. acked' = acked /\ acked \in Nat /\ window' \in Nat /\ acked + window' <= Len(log')
          /\ Len(log') \in Nat
      <4>1. acked' = acked
        BY <2>1 DEF BridgePosts, PostBatch, ForcedPost, LoopPost
      <4>2. /\ acked' \in Nat /\ window' \in Nat /\ acked' + window' <= Len(log')
            /\ log' \in Seq(Events)
        BY <1>3 DEF BridgeInv, TypeOK, BufferTypes
      <4> QED BY <4>1, <4>2
    <3>4. batch \in SUBSET (1 .. Len(log')) /\ batch \in SUBSET Nat
      BY <3>3, IntervalWithin
    <3> HIDE DEF batch
    <3>5. /\ x \in CP!TxnRecords /\ x.batch = batch /\ x.ins = txn[r].ins /\ x.sum = txn[r].sum
          /\ x.target = txn[r].target
      BY <3>1, <3>4 DEF Sound, CP!TxnRecords, CP!Stages
    <3> HIDE DEF x
    <3>6. Sound(txn[r]) => /\ txn[r].ins \in SUBSET (1 .. Len(log')) /\ (txn[r].sum => total'.summary)
                           /\ (txn[r].target = "completed" => Ended')
      BY <1>4 DEF Sound
    <3>7. PICK y : y = x
      OBVIOUS
    <3>8. Sound(y)'
      BY <3>1, <3>4, <3>5, <3>6, <3>7 DEF Sound
    <3>9. txn' = [txn EXCEPT ![r] = y]
      BY <3>2, <3>7
    <3> QED BY <1>1, <1>6, <3>1, <3>8, <3>9, OneHandler
  <2>2. ASSUME UNCHANGED txn PROVE HandlersInv'
    BY <1>1, <1>6, <2>2 DEF HandlersInv
  <2> QED BY <2>1, <2>2 DEF PostAnswered, PostRefused, BridgeWindsDown, BridgeStep, SandboxDies,
                           Release, serverVars
<1>8. PostingInv'
  <2>1. ASSUME NEW r \in Requests, BridgePosts(r) PROVE PostingInv'
    <3>1. posting' = r
      BY <2>1 DEF BridgePosts
    <3>2. window' > 0
      <4>1. acked \in Nat /\ Len(log) \in Nat /\ BatchSize \in Nat
        BY <1>1, <1>4, BridgeAssumption DEF TypeOK, BufferTypes
      <4> QED BY <2>1, <4>1 DEF BridgePosts, PostBatch, ForcedPost, LoopPost
    <3> QED BY <3>1, <3>2 DEF PostingInv
  <2>2. CASE PostAnswered \/ PostRefused \/ BridgeWindsDown \/ SandboxDies
    <3>1. posting' = "none" /\ window' = 0
      BY <2>2 DEF PostAnswered, PostSucceeds, PostRefused, PostFails, BridgeWindsDown, WindDownEnds,
                  SandboxDies, Release
    <3> QED BY <3>1 DEF PostingInv
  <2>3. CASE BridgeStep
    <3>1. posting' = posting /\ window' = window
      BY <2>3 DEF BridgeStep, PrimeNext, PrimeReads, PrimeWrites, PrimeDies,
       EventNext, ReadLine, ReadEOF, CallMutates, CallSubmits, RelayPrompt, WatchdogNext,
       CutoffPasses, WatchdogFires, RecoveryExpires, RunNext, GatewayStarts, Spawn, StartFails,
       Raise, LoopRaises, RaceEnds, WindDownEnds, BackoffEnds, Close, FlushDone, bufferVars
    <3> QED BY <1>1, <3>1 DEF PostingInv
  <2> QED BY <2>1, <2>2, <2>3
<1> QED BY <1>3, <1>6, <1>7, <1>8 DEF RunInv

LEMMA RunInitInv == RunInit => RunInv
<1> SUFFICES ASSUME RunInit PROVE RunInv
  OBVIOUS
<1>1. Init /\ CP!InitControlPlane /\ posting = "none"
  BY DEF RunInit
<1>2. BridgeInv
  BY <1>1, BridgeInvInit
<1>3. log = <<>> /\ window = 0 /\ total.summary = FALSE
  BY <1>1 DEF Init
<1>4. ~Recorded("summary", Len(log))
  BY <1>3 DEF Recorded
<1>5. RecordInv
  BY <1>1 DEF CP!InitControlPlane, RecordInv, CP!None
<1>6. HandlersInv
  <2> DEFINE first == [CP!Idle EXCEPT !.stage = "launch"]
  <2>1. Sound(first)
    BY DEF Sound, CP!Idle, CP!TxnRecords, CP!Stages, CP!None
  <2>2. txn = [t \in CP!Txns |-> IF t = Starter THEN first ELSE CP!Idle]
    BY <1>1 DEF CP!InitControlPlane
  <2> HIDE DEF first
  <2>3. \A t \in CP!Txns : Sound(txn[t])
    BY <2>1, <2>2, IdleIsSound
  <2>4. first \in CP!TxnRecords /\ CP!Idle \in CP!TxnRecords
    BY <2>1, IdleIsSound DEF Sound
  <2> QED BY <2>2, <2>3, <2>4 DEF HandlersInv
<1> QED BY <1>1, <1>2, <1>3, <1>4, <1>5, <1>6 DEF RunInv, SummaryRemembered, PostingInv

LEMMA RunStepInv == RunInv /\ [RunStep]_runVars => RunInv'
<1> SUFFICES ASSUME RunInv, [RunStep]_runVars PROVE RunInv'
  OBVIOUS
<1>1. CASE ControlPlaneStep
  BY <1>1, ControlPlaneKeepsRun
<1>2. CASE UNCHANGED runVars
  BY <1>2 DEF runVars, serverVars, recordVars, vars, bridgeVars, bufferVars, primeVars, RunInv,
       BridgeInv, TypeOK, RunTypes, BufferTypes, PrimeTypes, CrashesBounded, FlagsAreRecorded,
       ExitsAreRecorded, Evidence, Recorded, SummaryRemembered, HandlersInv, Sound, Ended,
       RecordInv, PostingInv
<1> QED BY <1>1, <1>2, BridgeKeepsRun, RunAssumption DEF RunStep

LEMMA RunInvHolds == RunSpec => []RunInv
  BY RunInitInv, RunStepInv, PTL DEF RunSpec

\* Bridge, control plane and HTTP together: every reachable state is well-typed, what is stored
\* or given up is an event of the bridge, and the bridge awaits a POST exactly when one is out.
THEOREM RunTypeCorrect == RunSpec => []RunTypeOK
<1>1. RunInv => RunTypeOK
  <2> SUFFICES ASSUME RunInv PROVE RunTypeOK
    OBVIOUS
  <2>1. DOMAIN log = 1 .. Len(log)
    BY DEF RunInv, BridgeInv, TypeOK, BufferTypes
  <2> QED BY <2>1 DEF RunInv, BridgeInv, RecordInv, PostingInv, RunTypeOK
<1> QED BY <1>1, RunInvHolds, PTL

\* transition_status to completed: whatever dies, times out or overlaps, the control plane
\* completes an investigation only if the bridge saw a valid summary and the end of a run.
THEOREM CompletionIsEarned == RunSpec => []CompletedRunEnded
<1>1. RunInv => CompletedRunEnded
  BY DEF RunInv, RecordInv, Ended, CompletedRunEnded
<1> QED BY <1>1, RunInvHolds, PTL

-----------------------------------------------------------------------------
(* Delivery in order.  What the bridge takes for delivered is kept, and what *)
(* a handler holds is an interval that starts no later than the first event  *)
(* the bridge still buffers, however many handlers overlap.                  *)

KeptBy(s, t) == txn[t].stage = "committing" /\ s \in txn[t].ins
IsKept(s)    == s \in events \cup ignored \cup lost \/ \E r \in Requests : KeptBy(s, r)

LEMMA KeptMembers == \A s : (s \in Kept <=> IsKept(s)) /\ (s \in Kept' <=> IsKept(s)')
  BY DEF Kept, IsKept, KeptBy

IsWindow(S) == \E lo \in 1 .. acked + 1, hi \in 1 .. Len(log) : S = lo .. hi

\* What a handler holds of its batch.
Holding(x) ==
    /\ x.stage \in {"idle", "received"} => x.ins = {}
    /\ x.ins \in SUBSET x.batch
    /\ x.stage \in {"project", "update"} => x.batch \in SUBSET (events \cup x.ins)
    /\ x.stage # "idle" => IsWindow(x.batch)

HoldInv ==
    /\ \A r \in Requests : Holding(txn[r])
    /\ txn[Starter].ins = {} /\ txn[Sweeper].ins = {}

Awaited == acked + 1 .. acked + window

\* What the bridge has evicted is kept, and so is what it is told to evict.
DeliveryInv ==
    /\ http \in [Requests -> {"free", "open", "ok", "error"}]
    /\ \A s \in 1 .. acked : IsKept(s)
    /\ \A r \in Requests :
          /\ r # posting => http[r] = "free"
          /\ http[r] = "open" => txn[r].stage \notin {"idle", "committing"} /\ txn[r].batch = Awaited
          /\ http[r] = "ok" => \A s \in Awaited : IsKept(s)

LEMMA IdleHolds == Holding(CP!Idle) /\ CP!Idle.stage = "idle" /\ CP!Idle.ins = {}
  BY DEF Holding, CP!Idle

LEMMA RolesDiffer == Starter \notin Requests /\ Sweeper \notin Requests /\ Starter # Sweeper
  BY RunAssumption DEF CP!TxnAssumption

\* One statement of a handler, seen from the bridge: it goes on, raises, or answers.
Moves(r, x) ==
    /\ txn' = [txn EXCEPT ![r] = x] /\ Holding(x) /\ txn[r].stage \notin {"idle", "committing"}
    /\ x.stage # "idle" => x.batch = txn[r].batch
    /\ \/ http' = http /\ x.stage \notin {"idle", "committing"} /\ ignored' = ignored
       \/ CP!Answer(r, "error") /\ x.stage = "idle" /\ ignored' = ignored
       \/ /\ CP!Answer(r, "ok") /\ x.stage = "committing"
          /\ ignored' \in {ignored, ignored \cup x.batch}
          /\ x.batch \in SUBSET (events \cup ignored' \cup x.ins)

LEMMA HandlerMoves ==
    ASSUME RunInv, HoldInv, NEW r \in Requests, CP!ServerStep(r)
    PROVE  \E x : Moves(r, x)
<1>1. /\ txn[r] \in CP!TxnRecords /\ Holding(txn[r]) /\ r \in CP!Txns
      /\ txn \in [CP!Txns -> CP!TxnRecords]
  BY DEF RunInv, HandlersInv, HoldInv, CP!Txns
<1>2. CASE CP!RejectToken(r) \/ CP!RejectSecondSummary(r) \/ CP!AbortRequest(r)
  <2>1. /\ txn' = [txn EXCEPT ![r] = CP!Idle] /\ CP!Answer(r, "error") /\ ignored' = ignored
        /\ txn[r].stage \notin {"idle", "committing"}
    BY <1>2 DEF CP!RejectToken, CP!RejectSecondSummary, CP!AbortRequest, CP!Fail, CP!historyVars
  <2> QED BY <2>1, IdleHolds DEF Moves
<1>3. CASE CP!AcceptOpen(r) \/ CP!AcceptClosing(r) \/ CP!PromoteToRunning(r)
  <2>1. PICK x : /\ txn' = [txn EXCEPT ![r] = x] /\ http' = http /\ ignored' = ignored
                 /\ x.stage \in {"insert", "promote", "close"}
                 /\ x.ins = txn[r].ins /\ x.batch = txn[r].batch
                 /\ txn[r].stage \in {"received", "promote"}
    <3>1. CASE CP!AcceptOpen(r) \/ CP!AcceptClosing(r)
      <4>1. PICK stage \in {"insert", "promote", "close"} :
                /\ txn' = [txn EXCEPT ![r] = [txn[r] EXCEPT !.stage = stage]]
                /\ http' = http /\ ignored' = ignored /\ txn[r].stage = "received"
        BY <1>1, <3>1 DEF CP!AcceptOpen, CP!AcceptClosing, CP!historyVars
      <4> DEFINE x == [txn[r] EXCEPT !.stage = stage]
      <4>2. x.stage = stage /\ x.batch = txn[r].batch /\ x.ins = txn[r].ins
        BY <1>1 DEF CP!TxnRecords
      <4>3. txn' = [txn EXCEPT ![r] = x]
        BY <4>1
      <4> HIDE DEF x
      <4> QED BY <4>1, <4>2, <4>3
    <3>2. CASE CP!PromoteToRunning(r)
      <4> DEFINE x == [txn[r] EXCEPT !.stage = "insert", !.row = TRUE, !.target = "running"]
      <4>1. /\ txn' = [txn EXCEPT ![r] = x] /\ http' = http /\ ignored' = ignored
            /\ txn[r].stage = "promote"
        BY <1>1, <3>2 DEF CP!PromoteToRunning, CP!TxnRecords, CP!historyVars
      <4>2. x.stage = "insert" /\ x.batch = txn[r].batch /\ x.ins = txn[r].ins
        BY <1>1 DEF CP!TxnRecords
      <4> HIDE DEF x
      <4> QED BY <4>1, <4>2
    <3> QED BY <1>3, <3>1, <3>2
  <2>2. Holding(x)
    BY <1>1, <2>1 DEF Holding
  <2> QED BY <2>1, <2>2 DEF Moves
<1>4. CASE CP!IgnoreTerminal(r)
  <2> DEFINE x == [txn[r] EXCEPT !.stage = "committing"]
  <2>1. /\ txn' = [txn EXCEPT ![r] = x] /\ txn[r].stage = "received" /\ CP!Answer(r, "ok")
        /\ ignored' = ignored \cup txn[r].batch
    BY <1>1, <1>4 DEF CP!IgnoreTerminal, CP!TxnRecords
  <2>2. x.stage = "committing" /\ x.ins = txn[r].ins /\ x.batch = txn[r].batch
    BY <1>1 DEF CP!TxnRecords
  <2> HIDE DEF x
  <2>3. Holding(x)
    BY <1>1, <2>1, <2>2 DEF Holding
  <2> QED BY <2>1, <2>2, <2>3 DEF Moves
<1>5. CASE CP!InsertEvents(r) \/ CP!InsertClosing(r)
  <2>1. PICK stage \in {"project", "committing"} :
            /\ txn' = [txn EXCEPT ![r] = [txn[r] EXCEPT !.stage = stage, !.ins = txn[r].batch \ events]]
            /\ IF stage = "project" THEN http' = http ELSE CP!Answer(r, "ok")
            /\ ignored' = ignored /\ txn[r].stage \in {"insert", "close"}
    BY <1>1, <1>5 DEF CP!InsertEvents, CP!InsertClosing, CP!TxnRecords, CP!historyVars
  <2> DEFINE x == [txn[r] EXCEPT !.stage = stage, !.ins = txn[r].batch \ events]
  <2>2. x.stage = stage /\ x.batch = txn[r].batch /\ x.ins = txn[r].batch \ events
    BY <1>1 DEF CP!TxnRecords
  <2> HIDE DEF x
  <2>3. Holding(x)
    BY <1>1, <2>1, <2>2 DEF Holding
  <2> QED BY <2>1, <2>2, <2>3 DEF Moves, x
<1>6. CASE CP!ProjectBatch(r) \/ CP!UpdateRecord(r)
  <2>1. PICK x : /\ txn' = [txn EXCEPT ![r] = x] /\ ignored' = ignored
                 /\ x.ins = txn[r].ins /\ x.batch = txn[r].batch
                 /\ x.stage \in {"update", "committing"}
                 /\ IF x.stage = "update" THEN http' = http ELSE CP!Answer(r, "ok")
                 /\ txn[r].stage \in {"project", "update"}
    <3>1. CASE CP!ProjectBatch(r)
      <4> DEFINE types == CP!TypesIn(txn[r].batch)
                 submitted == "summary" \in types
                 decision == CP!Verdict(types, summary \/ submitted)
                 target == IF decision = CP!None THEN txn[r].target ELSE decision
                 quiet == decision = CP!None /\ "heartbeat" \notin types
                 stage == IF quiet THEN "committing" ELSE "update"
                 x == [txn[r] EXCEPT !.sum = submitted, !.target = target, !.stage = stage]
      <4>1. /\ txn' = [txn EXCEPT ![r] = x] /\ IF quiet THEN CP!Answer(r, "ok") ELSE http' = http
            /\ txn[r].stage = "project" /\ ignored' = ignored
        BY <1>1, <3>1 DEF CP!ProjectBatch, CP!TxnRecords, CP!historyVars
      <4>2. /\ stage \in {"update", "committing"}
            /\ IF stage = "update" THEN http' = http ELSE CP!Answer(r, "ok")
        BY <4>1
      <4> HIDE DEF stage, target, submitted
      <4>3. x.stage = stage /\ x.batch = txn[r].batch /\ x.ins = txn[r].ins
        BY <1>1 DEF CP!TxnRecords
      <4> HIDE DEF x
      <4> QED BY <4>1, <4>2, <4>3
    <3>2. CASE CP!UpdateRecord(r)
      <4> DEFINE x == [txn[r] EXCEPT !.stage = "committing", !.row = TRUE]
      <4>1. /\ txn' = [txn EXCEPT ![r] = x] /\ txn[r].stage = "update" /\ CP!Answer(r, "ok")
            /\ ignored' = ignored
        BY <1>1, <3>2 DEF CP!UpdateRecord, CP!TxnRecords, CP!historyVars
      <4>2. x.stage = "committing" /\ x.batch = txn[r].batch /\ x.ins = txn[r].ins
        BY <1>1 DEF CP!TxnRecords
      <4> HIDE DEF x
      <4> QED BY <4>1, <4>2
    <3> QED BY <1>6, <3>1, <3>2
  <2>2. Holding(x) /\ x.batch \in SUBSET (events \cup x.ins)
    BY <1>1, <2>1 DEF Holding
  <2> QED BY <2>1, <2>2 DEF Moves
<1> QED BY <1>2, <1>3, <1>4, <1>5, <1>6 DEF CP!ServerStep

LEMMA KeptStays ==
    ASSUME events \in SUBSET events', ignored \in SUBSET ignored', lost \in SUBSET lost',
           txn \in [CP!Txns -> CP!TxnRecords], NEW u \in CP!Txns, NEW x,
           txn' = [txn EXCEPT ![u] = x],
           txn[u].stage = "committing" => txn[u].ins \in SUBSET (events' \cup lost'),
           NEW s, IsKept(s)
    PROVE  IsKept(s)'
<1>1. CASE s \in events \cup ignored \cup lost
  BY <1>1 DEF IsKept
<1>2. CASE \E t \in Requests : KeptBy(s, t)
  <2>1. PICK t \in Requests : KeptBy(s, t)
    BY <1>2
  <2>2. CASE t = u
    BY <2>1, <2>2 DEF KeptBy, IsKept
  <2>3. CASE t # u
    <3>1. txn'[t] = txn[t]
      BY <2>3 DEF CP!Txns
    <3> QED BY <2>1, <3>1 DEF KeptBy, IsKept
  <2> QED BY <2>2, <2>3
<1> QED BY <1>1, <1>2 DEF IsKept

LEMMA HandlerDelivers ==
    ASSUME RunInv, HoldInv, DeliveryInv, NEW r \in Requests, CP!ServerStep(r),
           UNCHANGED <<vars, posting>>
    PROVE  DeliveryInv'
<1>1. PICK x : Moves(r, x)
  BY HandlerMoves
<1>2. /\ UNCHANGED <<events, lost, acked, window, posting>> /\ ignored \in SUBSET ignored'
  BY <1>1, HandlerStepSound DEF Moves, recordVars, vars, bridgeVars, bufferVars
<1>3. /\ txn' = [txn EXCEPT ![r] = x] /\ txn[r].stage # "committing"
      /\ txn \in [CP!Txns -> CP!TxnRecords] /\ r \in CP!Txns /\ Requests \in SUBSET CP!Txns
  BY <1>1 DEF Moves, RunInv, HandlersInv, CP!Txns
<1>4. txn'[r] = x /\ \A q \in Requests \ {r} : txn'[q] = txn[q]
  BY <1>3
<1>5. ASSUME NEW s, IsKept(s) PROVE IsKept(s)'
  BY <1>2, <1>3, <1>5, KeptStays
<1>6. Awaited' = Awaited
  BY <1>2 DEF Awaited
<1>7. /\ http' \in [Requests -> {"free", "open", "ok", "error"}]
      /\ \A q \in Requests \ {r} : http'[q] = http[q]
      /\ http[r] # "open" => http'[r] = http[r]
      /\ \/ http'[r] = http[r] /\ x.stage \notin {"idle", "committing"} /\ x.batch = txn[r].batch
         \/ http'[r] = IF http[r] = "open" THEN "error" ELSE http[r]
         \/ /\ http'[r] = IF http[r] = "open" THEN "ok" ELSE http[r]
            /\ x.stage = "committing" /\ txn[r].batch \in SUBSET (events \cup ignored' \cup x.ins)
  BY <1>1 DEF Moves, DeliveryInv, CP!Answer
<1>8. \A s \in 1 .. acked' : IsKept(s)'
  BY <1>2, <1>5 DEF DeliveryInv
<1>9. ASSUME NEW q \in Requests
      PROVE  /\ q # posting' => http'[q] = "free"
             /\ http'[q] = "open" => txn'[q].stage \notin {"idle", "committing"}
                                     /\ txn'[q].batch = Awaited'
             /\ http'[q] = "ok" => \A s \in Awaited' : IsKept(s)'
  <2>1. /\ q # posting => http[q] = "free"
        /\ http[q] = "open" => txn[q].stage \notin {"idle", "committing"} /\ txn[q].batch = Awaited
        /\ http[q] = "ok" => \A s \in Awaited : IsKept(s)
    BY DEF DeliveryInv
  <2>2. CASE q # r
    BY <1>2, <1>4, <1>5, <1>6, <1>7, <2>1, <2>2
  <2>3. CASE q = r
    <3>1. q # posting' => http'[q] = "free"
      BY <1>2, <1>7, <2>1, <2>3
    <3>2. http'[q] = "open" => txn'[q].stage \notin {"idle", "committing"} /\ txn'[q].batch = Awaited'
      BY <1>4, <1>6, <1>7, <2>1, <2>3
    <3>3. ASSUME http'[q] = "ok", NEW s \in Awaited' PROVE IsKept(s)'
      <4>1. CASE http[r] = "ok"
        BY <1>5, <1>6, <2>1, <2>3, <3>3, <4>1
      <4>2. CASE http[r] = "open"
        <5>1. x.stage = "committing" /\ s \in events \cup ignored' \cup x.ins
          BY <1>6, <1>7, <2>1, <2>3, <3>3, <4>2
        <5>2. s \in x.ins => KeptBy(s, r)'
          BY <1>4, <5>1 DEF KeptBy
        <5> QED BY <1>2, <1>3, <5>1, <5>2 DEF IsKept
      <4> QED BY <1>7, <2>3, <3>3, <4>1, <4>2
    <3> QED BY <3>1, <3>2, <3>3
  <2> QED BY <2>2, <2>3
<1> QED BY <1>7, <1>8, <1>9 DEF DeliveryInv

LEMMA OthersDeliver ==
    ASSUME RunInv, HoldInv, DeliveryInv, UNCHANGED <<vars, posting>>,
           CP!LaunchSandbox \/ CP!LaunchFails \/ CP!SelectStale \/ CP!UpdateRecord(Sweeper)
           \/ CP!FallSilent \/ \E t \in CP!Txns : CP!Commit(t) \/ CP!CommitFails(t)
    PROVE  DeliveryInv'
<1>1. UNCHANGED <<acked, window, posting>> /\ Awaited' = Awaited
  BY DEF vars, bridgeVars, bufferVars, Awaited
<1>2. /\ events \in SUBSET events' /\ ignored' = ignored /\ lost \in SUBSET lost'
  BY DEF CP!LaunchSandbox, CP!LaunchFails, CP!SelectStale, CP!UpdateRecord, CP!FallSilent,
         CP!Commit, CP!CommitFails, CP!recordVars, CP!historyVars
<1>3. http' = http
  BY RolesDiffer DEF DeliveryInv, CP!LaunchSandbox, CP!LaunchFails, CP!SelectStale,
     CP!UpdateRecord, CP!FallSilent, CP!Commit, CP!CommitFails, CP!Answer
<1>4. txn \in [CP!Txns -> CP!TxnRecords] /\ Starter \in CP!Txns /\ Sweeper \in CP!Txns
      /\ Requests \in SUBSET CP!Txns
  BY DEF RunInv, HandlersInv, CP!Txns
<1>5. \E u \in CP!Txns : \E x :
          /\ txn' = [txn EXCEPT ![u] = x]
          /\ txn[u].stage = "committing" => txn[u].ins \in SUBSET (events' \cup lost')
          /\ u \in Requests => txn[u].stage = "committing" \/ x = txn[u]
  <2>1. CASE CP!LaunchSandbox \/ CP!LaunchFails
    BY <1>4, <2>1, RolesDiffer DEF CP!LaunchSandbox, CP!LaunchFails
  <2>2. CASE CP!SelectStale \/ CP!UpdateRecord(Sweeper)
    BY <1>4, <2>2, RolesDiffer DEF CP!SelectStale, CP!UpdateRecord
  <2>3. CASE CP!FallSilent
    <3>1. txn' = [txn EXCEPT ![Starter] = txn[Starter]]
      BY <1>4, <2>3 DEF CP!FallSilent
    <3>2. txn[Starter].ins \in SUBSET (events' \cup lost')
      BY DEF HoldInv
    <3> QED BY <1>4, <3>1, <3>2, RolesDiffer
  <2>4. ASSUME NEW t \in CP!Txns, CP!Commit(t) \/ CP!CommitFails(t)
        PROVE  /\ txn' = [txn EXCEPT ![t] = CP!Idle] /\ txn[t].stage = "committing"
               /\ txn[t].ins \in SUBSET (events' \cup lost')
    BY <2>4 DEF CP!Commit, CP!CommitFails
  <2> QED BY <2>1, <2>2, <2>3, <2>4
<1>6. PICK u \in CP!Txns : \E x :
          /\ txn' = [txn EXCEPT ![u] = x]
          /\ txn[u].stage = "committing" => txn[u].ins \in SUBSET (events' \cup lost')
          /\ u \in Requests => txn[u].stage = "committing" \/ x = txn[u]
  BY <1>5
<1>7. PICK x :
          /\ txn' = [txn EXCEPT ![u] = x]
          /\ txn[u].stage = "committing" => txn[u].ins \in SUBSET (events' \cup lost')
          /\ u \in Requests => txn[u].stage = "committing" \/ x = txn[u]
  BY <1>6
<1>8. ASSUME NEW s, IsKept(s) PROVE IsKept(s)'
  BY <1>2, <1>4, <1>7, <1>8, KeptStays
<1>9. \A q \in Requests : txn'[q] = txn[q] \/ txn[q].stage = "committing"
  BY <1>4, <1>7
<1> QED BY <1>1, <1>3, <1>8, <1>9 DEF DeliveryInv

LEMMA BridgeDelivers ==
    ASSUME RunInv, DeliveryInv, UNCHANGED runVars
           \/ (\E r \in Requests : BridgePosts(r))
           \/ PostAnswered \/ PostRefused \/ BridgeWindsDown \/ BridgeStep \/ SandboxDies
    PROVE  DeliveryInv'
<1>1. UNCHANGED <<events, ignored, lost>>
  BY DEF BridgePosts, CP!Receive, CP!recordVars, CP!historyVars, recordVars, PostAnswered,
       PostRefused, BridgeWindsDown, BridgeStep, SandboxDies, Release, serverVars, runVars
<1>2. /\ acked \in Nat /\ window \in Nat /\ posting \in Requests \cup {"none"}
      /\ window > 0 <=> posting # "none"
      /\ txn \in [CP!Txns -> CP!TxnRecords] /\ Requests \in SUBSET CP!Txns
  BY DEF RunInv, BridgeInv, TypeOK, BufferTypes, PostingInv, HandlersInv, CP!Txns
<1>3. /\ http \in [Requests -> {"free", "open", "ok", "error"}]
      /\ \A s \in 1 .. acked : IsKept(s)
      /\ \A r \in Requests : r # posting => http[r] = "free"
      /\ \A r \in Requests : http[r] = "ok" => \A s \in Awaited : IsKept(s)
  BY DEF DeliveryInv
<1>4. ASSUME UNCHANGED txn, NEW s, IsKept(s) PROVE IsKept(s)'
  BY <1>1, <1>4 DEF IsKept, KeptBy
<1>5. ASSUME Release, UNCHANGED acked \/ (acked' = acked + window /\ http[posting] = "ok" /\ window > 0)
      PROVE  DeliveryInv'
  <2>1. /\ posting' = "none" /\ UNCHANGED txn
        /\ http' = [r \in Requests |-> IF r = posting THEN "free" ELSE http[r]]
    BY <1>5 DEF Release
  <2>2. \A r \in Requests : http'[r] = "free"
    BY <1>3, <2>1
  <2>3. \A s \in 1 .. acked' : IsKept(s)
    <3>1. CASE UNCHANGED acked
      BY <1>3, <3>1
    <3>2. CASE acked' = acked + window /\ http[posting] = "ok" /\ window > 0
      <4>1. \A s \in Awaited : IsKept(s)
        BY <1>2, <1>3, <3>2
      <4>2. \A s \in 1 .. acked' : s \in 1 .. acked \/ s \in Awaited
        BY <1>2, <3>2 DEF Awaited
      <4> QED BY <1>3, <4>1, <4>2
    <3> QED BY <1>5, <3>1, <3>2
  <2>4. \A s \in 1 .. acked' : IsKept(s)'
    BY <1>4, <2>1, <2>3
  <2>5. http' \in [Requests -> {"free", "open", "ok", "error"}]
    BY <1>3, <2>1
  <2> QED BY <2>2, <2>4, <2>5 DEF DeliveryInv
<1>6. ASSUME NEW r \in Requests, BridgePosts(r) PROVE DeliveryInv'
  <2> DEFINE batch == acked + 1 .. acked + window'
             x == [txn[r] EXCEPT !.stage = "received", !.batch = batch]
  <2>1. /\ txn' = [txn EXCEPT ![r] = x] /\ txn[r].stage = "idle"
        /\ http' = [http EXCEPT ![r] = "open"] /\ posting' = r
    BY <1>2, <1>6 DEF BridgePosts, CP!Receive, CP!TxnRecords
  <2>2. x.stage = "received" /\ x.batch = batch
    BY <1>2 DEF CP!TxnRecords
  <2>3. window = 0 /\ acked' = acked
    BY <1>6 DEF BridgePosts, PostBatch, ForcedPost, LoopPost
  <2>4. batch = Awaited'
    BY <2>3 DEF Awaited
  <2> HIDE DEF batch, x
  <2>5. txn'[r] = x
    BY <1>2, <2>1
  <2>6. \A q \in Requests : http[q] = "free"
    <3>1. posting = "none"
      BY <1>2, <2>3
    <3> QED BY <1>3, <3>1, RunAssumption
  <2>7. http'[r] = "open" /\ \A q \in Requests \ {r} : http'[q] = "free"
    BY <1>3, <2>1, <2>6
  <2>8. \A s \in 1 .. acked' : IsKept(s)'
    BY <1>1, <1>2, <1>3, <2>1, <2>3, KeptStays
  <2>9. http' \in [Requests -> {"free", "open", "ok", "error"}]
    BY <1>3, <2>1
  <2> QED BY <2>1, <2>2, <2>4, <2>5, <2>7, <2>8, <2>9 DEF DeliveryInv
<1>7. ASSUME UNCHANGED <<txn, http, posting, acked, window>> PROVE DeliveryInv'
  <2>1. Awaited' = Awaited
    BY <1>7 DEF Awaited
  <2> QED BY <1>4, <1>7, <2>1 DEF DeliveryInv
<1>8. CASE BridgeStep
  <2>1. UNCHANGED <<acked, window, txn, http, posting>>
    BY <1>8 DEF BridgeStep, serverVars, PrimeNext, PrimeReads, PrimeWrites, PrimeDies,
       EventNext, ReadLine, ReadEOF, CallMutates, CallSubmits, RelayPrompt, WatchdogNext,
       CutoffPasses, WatchdogFires, RecoveryExpires, RunNext, GatewayStarts, Spawn, StartFails,
       Raise, LoopRaises, RaceEnds, WindDownEnds, BackoffEnds, Close, FlushDone, bufferVars
  <2> QED BY <1>7, <2>1
<1>9. CASE UNCHANGED runVars
  BY <1>7, <1>9 DEF runVars, serverVars, vars, bufferVars
<1>10. CASE PostAnswered \/ PostRefused \/ BridgeWindsDown \/ SandboxDies
  <2>1. /\ Release
        /\ UNCHANGED acked \/ (acked' = acked + window /\ http[posting] = "ok" /\ window > 0)
    BY <1>10 DEF PostAnswered, PostSucceeds, PostRefused, PostFails, BridgeWindsDown,
       WindDownEnds, SandboxDies, bufferVars
  <2> QED BY <1>5, <2>1
<1> QED BY <1>6, <1>8, <1>9, <1>10

LEMMA ReachGrows ==
    ASSUME NEW m \in Nat, NEW n \in Nat, m <= n
    PROVE  /\ \A i \in 1 .. m + 1 : i \in 1 .. n + 1
           /\ \A i \in 1 .. m : i \in 1 .. n
  OBVIOUS

LEMMA NextIsInReach ==
    ASSUME NEW a \in Nat, NEW n \in Nat, NEW l \in Nat, n > 0, a + n <= l
    PROVE  a + 1 \in 1 .. a + 1 /\ a + n \in 1 .. l
  OBVIOUS

\* What is held stays within the bridge's reach while it records and evicts.
LEMMA HoldingStays ==
    ASSUME NEW x, Holding(x), events \in SUBSET events',
           acked \in Nat, acked' \in Nat, acked <= acked',
           Len(log) \in Nat, Len(log') \in Nat, Len(log) <= Len(log')
    PROVE  Holding(x)'
<1>1. IsWindow(x.batch) => IsWindow(x.batch)'
  <2> SUFFICES ASSUME IsWindow(x.batch) PROVE IsWindow(x.batch)'
    OBVIOUS
  <2>1. PICK lo \in 1 .. acked + 1, hi \in 1 .. Len(log) : x.batch = lo .. hi
    BY DEF IsWindow
  <2>2. lo \in 1 .. acked' + 1 /\ hi \in 1 .. Len(log')
    BY ReachGrows
  <2> QED BY <2>1, <2>2 DEF IsWindow
<1>2. x.stage \in {"project", "update"} => x.batch \in SUBSET (events' \cup x.ins)
  BY DEF Holding
<1> QED BY <1>1, <1>2 DEF Holding

LEMMA HoldNext ==
    ASSUME RunInv, RunInv', HoldInv, [RunStep]_runVars
    PROVE  HoldInv'
<1>1. /\ acked \in Nat /\ acked' \in Nat /\ log \in Seq(Events) /\ log' \in Seq(Events)
      /\ window \in Nat /\ window' \in Nat /\ acked' + window' <= Len(log')
  BY DEF RunInv, BridgeInv, TypeOK, BufferTypes
<1>2. /\ txn \in [CP!Txns -> CP!TxnRecords] /\ Starter \in CP!Txns /\ Sweeper \in CP!Txns
      /\ Requests \in SUBSET CP!Txns
  BY DEF RunInv, HandlersInv, CP!Txns
<1>3. /\ \A r \in Requests : Holding(txn[r])
      /\ txn[Starter].ins = {} /\ txn[Sweeper].ins = {}
  BY DEF HoldInv
<1>4. acked <= acked' /\ Len(log) <= Len(log')
  <2>1. CASE [Next]_vars
    <3>1. Len(log) <= Len(log')
      BY <1>1, <2>1, LogSteps, BufferGrows DEF RunInv, BridgeInv, LogStep
    <3>2. acked' = acked \/ acked' = acked + window
      BY <2>1 DEF Next, vars, bufferVars, PrimeNext, PrimeReads, PrimeWrites, PrimeDies,
         EventNext, ReadLine, ReadEOF, CallMutates, CallSubmits, RelayPrompt, WatchdogNext,
         CutoffPasses, WatchdogFires, RecoveryExpires, RunNext, GatewayStarts, Spawn, StartFails,
         Raise, LoopRaises, RaceEnds, WindDownEnds, BackoffEnds, Close, FlushDone, PostBatch,
         ForcedPost, LoopPost, PostSucceeds, PostFails
    <3> QED BY <1>1, <3>1, <3>2
  <2>2. CASE UNCHANGED <<acked, log>>
    BY <1>1, <2>2
  <2>3. [Next]_vars \/ UNCHANGED <<acked, log>>
    BY DEF RunStep, BridgePosts, PostAnswered, PostRefused, BridgeWindsDown, BridgeStep, Next,
       RunNext, SandboxDies, ControlPlaneStep, runVars, vars, bufferVars
  <2> QED BY <2>1, <2>2, <2>3
<1>5. Len(log) \in Nat /\ Len(log') \in Nat
  BY <1>1
<1>6. ASSUME NEW t \in CP!Txns, NEW x, txn' = [txn EXCEPT ![t] = x], events \in SUBSET events',
             t \in Requests => Holding(x)', t \notin Requests => x.ins = {}
      PROVE  HoldInv'
  <2>1. ASSUME NEW r \in Requests PROVE Holding(txn[r])'
    <3>1. CASE r = t
      BY <1>2, <1>6, <3>1 DEF Holding
    <3>2. CASE r # t
      <4>1. txn'[r] = txn[r]
        BY <1>2, <1>6, <3>2
      <4>2. PICK y : y = txn[r]
        OBVIOUS
      <4>3. Holding(y)'
        BY <1>1, <1>3, <1>4, <1>5, <1>6, <4>2, HoldingStays
      <4> QED BY <4>1, <4>2, <4>3 DEF Holding
    <3> QED BY <3>1, <3>2
  <2>2. txn'[Starter].ins = {} /\ txn'[Sweeper].ins = {}
    BY <1>2, <1>3, <1>6, RolesDiffer
  <2> QED BY <2>1, <2>2 DEF HoldInv
<1>7. ASSUME UNCHANGED txn, events \in SUBSET events' PROVE HoldInv'
  <2>1. txn' = [txn EXCEPT ![Starter] = txn[Starter]]
    BY <1>2, <1>7
  <2> QED BY <1>2, <1>3, <1>6, <1>7, <2>1, RolesDiffer
<1>8. ASSUME NEW r \in Requests, CP!ServerStep(r), UNCHANGED vars PROVE HoldInv'
  <2>1. PICK x : Moves(r, x)
    BY <1>8, HandlerMoves
  <2>2. UNCHANGED <<events, acked, log>>
    BY <1>8, HandlerStepSound DEF recordVars, vars, bridgeVars, bufferVars
  <2>3. txn' = [txn EXCEPT ![r] = x] /\ Holding(x)'
    BY <2>1, <2>2 DEF Moves, Holding, IsWindow
  <2> QED BY <1>2, <1>6, <2>2, <2>3
<1>9. ASSUME NEW t \in CP!Txns, CP!Commit(t) \/ CP!CommitFails(t) PROVE HoldInv'
  <2>1. txn' = [txn EXCEPT ![t] = CP!Idle] /\ events \in SUBSET events'
    BY <1>9 DEF CP!Commit, CP!CommitFails, CP!recordVars
  <2>2. Holding(CP!Idle)'
    BY DEF Holding, CP!Idle
  <2> QED BY <1>6, <2>1, <2>2, IdleHolds
<1>10. ASSUME CP!LaunchSandbox \/ CP!LaunchFails PROVE HoldInv'
  <2>1. PICK target \in {"pending", "failed"} :
            txn' = [txn EXCEPT ![Starter] =
                       [txn[Starter] EXCEPT !.stage = "committing", !.target = target]]
    BY <1>2, <1>10 DEF CP!LaunchSandbox, CP!LaunchFails, CP!TxnRecords
  <2> DEFINE x == [txn[Starter] EXCEPT !.stage = "committing", !.target = target]
  <2>2. x.ins = {} /\ txn' = [txn EXCEPT ![Starter] = x]
    BY <1>2, <1>3, <2>1 DEF CP!TxnRecords
  <2>3. events' = events
    BY <1>10 DEF CP!LaunchSandbox, CP!LaunchFails, CP!recordVars
  <2> HIDE DEF x
  <2> QED BY <1>2, <1>6, <2>2, <2>3, RolesDiffer
<1>11. ASSUME CP!SelectStale \/ CP!UpdateRecord(Sweeper) PROVE HoldInv'
  <2>1. PICK x : txn' = [txn EXCEPT ![Sweeper] = x] /\ x.ins = txn[Sweeper].ins
    <3>1. CASE CP!SelectStale
      <4> DEFINE x == [txn[Sweeper] EXCEPT !.stage = "update", !.target = "failed"]
      <4>1. txn' = [txn EXCEPT ![Sweeper] = x] /\ x.ins = txn[Sweeper].ins
        BY <1>2, <3>1 DEF CP!SelectStale, CP!TxnRecords
      <4> HIDE DEF x
      <4> QED BY <4>1
    <3>2. CASE CP!UpdateRecord(Sweeper)
      <4> DEFINE x == [txn[Sweeper] EXCEPT !.stage = "committing", !.row = TRUE]
      <4>1. txn' = [txn EXCEPT ![Sweeper] = x] /\ x.ins = txn[Sweeper].ins
        BY <1>2, <3>2 DEF CP!UpdateRecord, CP!TxnRecords
      <4> HIDE DEF x
      <4> QED BY <4>1
    <3> QED BY <1>11, <3>1, <3>2
  <2>2. events' = events
    BY <1>11 DEF CP!SelectStale, CP!UpdateRecord, CP!recordVars
  <2> QED BY <1>2, <1>3, <1>6, <2>1, <2>2, RolesDiffer
<1>12. CASE ControlPlaneStep
  <2>1. CP!ControlPlaneNext /\ UNCHANGED vars
    BY <1>12 DEF ControlPlaneStep
  <2>2. CASE CP!FallSilent
    BY <1>7, <2>2 DEF CP!FallSilent
  <2> QED BY <1>8, <1>9, <1>10, <1>11, <2>1, <2>2 DEF CP!ControlPlaneNext
<1>13. ASSUME NEW r \in Requests, BridgePosts(r) PROVE HoldInv'
  <2> DEFINE batch == acked + 1 .. acked + window'
             x == [txn[r] EXCEPT !.stage = "received", !.batch = batch]
  <2>1. /\ txn' = [txn EXCEPT ![r] = x] /\ txn[r].stage = "idle" /\ posting' = r
        /\ events' = events /\ acked' = acked
    BY <1>2, <1>13 DEF BridgePosts, CP!Receive, CP!TxnRecords, CP!recordVars, PostBatch,
                       ForcedPost, LoopPost
  <2>2. x.stage = "received" /\ x.batch = batch /\ x.ins = txn[r].ins
    BY <1>2 DEF CP!TxnRecords
  <2>3. window' > 0
    <3>1. posting' # "none"
      BY <2>1, RunAssumption
    <3>2. PostingInv'
      BY DEF RunInv
    <3> QED BY <3>1, <3>2 DEF PostingInv
  <2>4. acked' + 1 \in 1 .. acked' + 1 /\ acked' + window' \in 1 .. Len(log')
    BY <1>1, <1>5, <2>3, NextIsInReach
  <2> HIDE DEF x
  <2>5. \E lo \in 1 .. acked' + 1, hi \in 1 .. Len(log') : x.batch = lo .. hi
    BY <2>1, <2>2, <2>4
  <2>6. x.ins = {}
    BY <1>3, <2>1, <2>2 DEF Holding
  <2>7. PICK y : y = x
    OBVIOUS
  <2>8. Holding(y)'
    BY <2>2, <2>5, <2>6, <2>7 DEF Holding, IsWindow
  <2> QED BY <1>2, <1>6, <2>1, <2>7, <2>8
<1>14. CASE PostAnswered \/ PostRefused \/ BridgeWindsDown \/ BridgeStep \/ SandboxDies
            \/ UNCHANGED runVars
  <2>1. UNCHANGED <<txn, events>>
    BY <1>14 DEF PostAnswered, PostRefused, BridgeWindsDown, BridgeStep, SandboxDies, Release,
                 serverVars, recordVars, runVars
  <2> QED BY <1>7, <2>1
<1> QED BY <1>12, <1>13, <1>14 DEF RunStep

\* The run, whatever overlaps.
HeldInv == RunInv /\ HoldInv /\ DeliveryInv

LEMMA HeldInit == RunInit => HeldInv
<1> SUFFICES ASSUME RunInit PROVE HeldInv
  OBVIOUS
<1>1. RunInv /\ CP!InitControlPlane /\ Init /\ posting = "none"
  BY RunInitInv DEF RunInit
<1>2. /\ txn = [t \in CP!Txns |-> IF t = Starter THEN [CP!Idle EXCEPT !.stage = "launch"]
                                                 ELSE CP!Idle]
      /\ acked = 0 /\ http = [r \in Requests |-> "free"]
  BY <1>1 DEF CP!InitControlPlane, Init
<1>3. \A r \in Requests : txn[r] = CP!Idle
  BY <1>2, RolesDiffer DEF CP!Txns
<1>4. txn[Sweeper] = CP!Idle /\ txn[Starter] = [CP!Idle EXCEPT !.stage = "launch"]
  BY <1>2, RolesDiffer DEF CP!Txns
<1>5. txn[Starter].ins = {} /\ txn[Sweeper].ins = {}
  BY <1>4 DEF CP!Idle
<1>6. HoldInv
  BY <1>3, <1>5, IdleHolds DEF HoldInv
<1>7. DeliveryInv
  BY <1>2 DEF DeliveryInv
<1> QED BY <1>1, <1>6, <1>7 DEF HeldInv

LEMMA HeldNext == HeldInv /\ [RunStep]_runVars => HeldInv'
<1> SUFFICES ASSUME HeldInv, [RunStep]_runVars PROVE HeldInv'
  OBVIOUS
<1>1. RunInv /\ HoldInv /\ DeliveryInv
  BY DEF HeldInv
<1>2. RunInv' /\ HoldInv'
  BY <1>1, RunStepInv, HoldNext
<1>3. DeliveryInv'
  <2>1. CASE ControlPlaneStep
    <3>1. UNCHANGED <<vars, posting>> /\ CP!ControlPlaneNext
      BY <2>1 DEF ControlPlaneStep
    <3>2. ASSUME NEW r \in Requests, CP!ServerStep(r) PROVE DeliveryInv'
      BY <1>1, <3>1, <3>2, HandlerDelivers
    <3> QED BY <1>1, <3>1, <3>2, OthersDeliver DEF CP!ControlPlaneNext
  <2> QED BY <1>1, <2>1, BridgeDelivers DEF RunStep
<1> QED BY <1>2, <1>3 DEF HeldInv

\* Keeping a window is delivering everything up to its end.
LEMMA KeepingDelivers ==
    ASSUME acked \in Nat, \A s \in 1 .. acked : IsKept(s), NEW batch, IsWindow(batch),
           Len(log) \in Nat, UNCHANGED <<log, acked>>, Kept' = Kept \cup batch
    PROVE  Delivery!Deliver
<1>1. PICK lo \in 1 .. acked + 1, hi \in 1 .. Len(log) : batch = lo .. hi
  BY DEF IsWindow
<1>2. \A s \in 1 .. hi : s \in 1 .. acked \/ s \in lo .. hi
  BY <1>1
<1>3. \A s \in lo .. hi : s \in 1 .. hi
  BY <1>1
<1>4. \A s \in 1 .. acked : s \in Kept
  BY KeptMembers
<1>5. Kept' = Kept \cup 1 .. hi
  BY <1>1, <1>2, <1>3, <1>4
<1> QED BY <1>5 DEF Delivery!Deliver

LEMMA HandlerKeepsOrder ==
    ASSUME RunInv, HoldInv, DeliveryInv, NEW r \in Requests, CP!ServerStep(r), UNCHANGED vars
    PROVE  Kept' = Kept \/ Delivery!Deliver
<1>1. PICK x : Moves(r, x)
  BY HandlerMoves
<1>2. UNCHANGED <<events, lost, log, acked>>
  BY HandlerStepSound DEF recordVars, vars, bridgeVars, bufferVars
<1>3. /\ txn' = [txn EXCEPT ![r] = x] /\ txn[r].stage \notin {"idle", "committing"}
      /\ txn \in [CP!Txns -> CP!TxnRecords] /\ r \in CP!Txns /\ Requests \in SUBSET CP!Txns
  BY <1>1 DEF Moves, RunInv, HandlersInv, CP!Txns
<1>4. txn'[r] = x /\ \A q \in Requests \ {r} : txn'[q] = txn[q]
  BY <1>3
<1>5. \A s : ~KeptBy(s, r)
  BY <1>3 DEF KeptBy
<1>6. CASE x.stage # "committing"
  <2>1. ignored' = ignored
    BY <1>1, <1>6 DEF Moves
  <2>2. \A s : ~KeptBy(s, r)'
    BY <1>4, <1>6 DEF KeptBy
  <2>3. \A s, q : q \in Requests \ {r} => (KeptBy(s, q)' <=> KeptBy(s, q))
    BY <1>4 DEF KeptBy
  <2>4. \A s : IsKept(s)' <=> IsKept(s)
    BY <1>2, <1>5, <2>1, <2>2, <2>3 DEF IsKept
  <2> QED BY <2>4, KeptMembers
<1>7. CASE x.stage = "committing"
  <2>1. /\ ignored' \in {ignored, ignored \cup x.batch} /\ x.ins \in SUBSET x.batch
        /\ x.batch \in SUBSET (events \cup ignored' \cup x.ins) /\ IsWindow(x.batch)
    BY <1>1, <1>7 DEF Moves, Holding
  <2>2. \A s : KeptBy(s, r)' <=> s \in x.ins
    BY <1>4, <1>7 DEF KeptBy
  <2>3. \A s, q : q \in Requests \ {r} => (KeptBy(s, q)' <=> KeptBy(s, q))
    BY <1>4 DEF KeptBy
  <2>4. \A s : IsKept(s)' <=> IsKept(s) \/ s \in x.batch
    BY <1>2, <1>5, <2>1, <2>2, <2>3 DEF IsKept
  <2>5. Kept' = Kept \cup x.batch
    BY <2>4, KeptMembers
  <2>6. acked \in Nat /\ Len(log) \in Nat /\ \A s \in 1 .. acked : IsKept(s)
    BY DEF RunInv, BridgeInv, TypeOK, BufferTypes, DeliveryInv
  <2> QED BY <1>2, <2>1, <2>5, <2>6, KeepingDelivers
<1> QED BY <1>6, <1>7

LEMMA OthersKeepOrder ==
    ASSUME RunInv, HoldInv,
           CP!LaunchSandbox \/ CP!LaunchFails \/ CP!SelectStale \/ CP!UpdateRecord(Sweeper)
           \/ CP!FallSilent \/ \E t \in CP!Txns : CP!Commit(t) \/ CP!CommitFails(t)
    PROVE  Kept' = Kept
<1>1. /\ txn \in [CP!Txns -> CP!TxnRecords] /\ Starter \in CP!Txns /\ Sweeper \in CP!Txns
      /\ Requests \in SUBSET CP!Txns
  BY DEF RunInv, HandlersInv, CP!Txns
<1>2. ASSUME UNCHANGED <<events, ignored, lost>>, \A q \in Requests : txn'[q] = txn[q]
      PROVE  Kept' = Kept
  <2>1. \A s : IsKept(s)' <=> IsKept(s)
    BY <1>2 DEF IsKept, KeptBy
  <2> QED BY <2>1, KeptMembers
<1>3. CASE CP!LaunchSandbox \/ CP!LaunchFails
  BY <1>1, <1>2, <1>3, RolesDiffer DEF CP!LaunchSandbox, CP!LaunchFails, CP!recordVars, CP!historyVars
<1>4. CASE CP!SelectStale \/ CP!UpdateRecord(Sweeper) \/ CP!FallSilent
  BY <1>1, <1>2, <1>4, RolesDiffer
  DEF CP!SelectStale, CP!UpdateRecord, CP!FallSilent, CP!recordVars, CP!historyVars
<1>5. ASSUME NEW t \in CP!Txns, CP!Commit(t) \/ CP!CommitFails(t) PROVE Kept' = Kept
  <2>1. /\ \/ events' = events \cup txn[t].ins /\ lost' = lost
           \/ events' = events /\ lost' = lost \cup txn[t].ins
        /\ ignored' = ignored /\ txn' = [txn EXCEPT ![t] = CP!Idle]
        /\ txn[t].stage = "committing"
    BY <1>5 DEF CP!Commit, CP!CommitFails, CP!recordVars, CP!historyVars
  <2>2. CASE t \in Requests
    <3>1. txn'[t] = CP!Idle /\ \A q \in Requests \ {t} : txn'[q] = txn[q]
      BY <1>1, <2>1, <2>2
    <3>2. \A s : (KeptBy(s, t) <=> s \in txn[t].ins) /\ ~KeptBy(s, t)'
      BY <2>1, <3>1, IdleHolds DEF KeptBy
    <3>3. \A s, q : q \in Requests \ {t} => (KeptBy(s, q)' <=> KeptBy(s, q))
      BY <3>1 DEF KeptBy
    <3>4. \A s : IsKept(s)' <=> IsKept(s)
      BY <2>1, <2>2, <3>2, <3>3 DEF IsKept
    <3> QED BY <3>4, KeptMembers
  <2>3. CASE t \notin Requests
    <3>1. txn[t].ins = {}
      BY <2>3 DEF HoldInv, CP!Txns
    <3>2. UNCHANGED <<events, ignored, lost>> /\ \A q \in Requests : txn'[q] = txn[q]
      BY <1>1, <2>1, <2>3, <3>1
    <3> QED BY <1>2, <3>2
  <2> QED BY <2>2, <2>3
<1> QED BY <1>3, <1>4, <1>5

\* What the bridge does to the log and to what it has evicted.
LEMMA BridgeSteps ==
    ASSUME TypeOK, [Next]_vars
    PROVE  \/ UNCHANGED <<log, acked>>
           \/ acked' = acked /\ \E e \in Events : log' = Append(log, e)
           \/ PostSucceeds
<1>1. CASE UNCHANGED acked
  BY <1>1, LogSteps DEF LogStep
<1>2. acked' # acked => PostSucceeds
  BY DEF Next, vars, bufferVars, PrimeNext, PrimeReads, PrimeWrites, PrimeDies,
     EventNext, ReadLine, ReadEOF, CallMutates, CallSubmits, RelayPrompt, WatchdogNext,
     CutoffPasses, WatchdogFires, RecoveryExpires, RunNext, GatewayStarts, Spawn, StartFails,
     Raise, LoopRaises, RaceEnds, WindDownEnds, BackoffEnds, Close, FlushDone, PostBatch,
     ForcedPost, LoopPost, PostFails
<1> QED BY <1>1, <1>2

LEMMA RunKeepsOrder ==
    ASSUME HeldInv, HeldInv', [RunStep]_runVars
    PROVE  [Delivery!Next]_<<log, Kept, acked>>
<1>1. RunInv /\ HoldInv /\ DeliveryInv /\ DeliveryInv' /\ TypeOK
  BY DEF HeldInv, RunInv, BridgeInv
<1>2. /\ acked \in Nat /\ window \in Nat /\ log \in Seq(Events) /\ acked + window <= Len(log)
      /\ txn \in [CP!Txns -> CP!TxnRecords] /\ Requests \in SUBSET CP!Txns
  BY <1>1 DEF TypeOK, BufferTypes, RunInv, HandlersInv, CP!Txns
<1>3. CASE ControlPlaneStep
  <2>1. CP!ControlPlaneNext /\ UNCHANGED vars /\ UNCHANGED <<log, acked>>
    BY <1>3 DEF ControlPlaneStep, vars, bufferVars
  <2>2. ASSUME NEW r \in Requests, CP!ServerStep(r) PROVE Kept' = Kept \/ Delivery!Deliver
    BY <1>1, <2>1, <2>2, HandlerKeepsOrder
  <2>3. Kept' = Kept \/ Delivery!Deliver
    BY <1>1, <2>1, <2>2, OthersKeepOrder DEF CP!ControlPlaneNext
  <2> QED BY <2>1, <2>3 DEF Delivery!Next
<1>4. CASE ~ControlPlaneStep
  <2>1. Kept' = Kept
    <3>1. UNCHANGED <<events, ignored, lost>>
      BY <1>4 DEF RunStep, BridgePosts, CP!Receive, CP!recordVars, CP!historyVars, recordVars,
         PostAnswered, PostRefused, BridgeWindsDown, BridgeStep, SandboxDies, Release,
         serverVars, runVars
    <3>2. UNCHANGED txn \/ \E r \in Requests : /\ \A q \in Requests \ {r} : txn'[q] = txn[q]
                                               /\ txn[r].stage = "idle" /\ txn'[r].stage = "received"
      <4>1. ASSUME NEW r \in Requests, BridgePosts(r)
            PROVE  /\ \A q \in Requests \ {r} : txn'[q] = txn[q]
                   /\ txn[r].stage = "idle" /\ txn'[r].stage = "received"
        BY <1>2, <4>1 DEF BridgePosts, CP!Receive, CP!TxnRecords
      <4> QED BY <1>4, <4>1 DEF RunStep, PostAnswered, PostRefused, BridgeWindsDown, BridgeStep,
                                SandboxDies, Release, serverVars, runVars
    <3>3. \A s : IsKept(s)' <=> IsKept(s)
      <4>1. CASE UNCHANGED txn
        BY <3>1, <4>1 DEF IsKept, KeptBy
      <4>2. ASSUME NEW r \in Requests, \A q \in Requests \ {r} : txn'[q] = txn[q],
                   txn[r].stage = "idle", txn'[r].stage = "received"
            PROVE  \A s : IsKept(s)' <=> IsKept(s)
        BY <3>1, <4>2 DEF IsKept, KeptBy
      <4> QED BY <3>2, <4>1, <4>2
    <3> QED BY <3>3, KeptMembers
  <2>2. CASE UNCHANGED <<log, acked>>
    BY <2>1, <2>2
  <2>3. CASE acked' = acked /\ \E e \in Events : log' = Append(log, e)
    BY <2>1, <2>3 DEF Delivery!Next, Delivery!Record
  <2>4. CASE PostSucceeds
    <3>1. acked' = acked + window /\ log' = log /\ window > 0
      BY <2>4 DEF PostSucceeds
    <3>2. \A s \in 1 .. acked' : s \in Kept
      BY <1>1, <2>1, KeptMembers DEF DeliveryInv
    <3>3. acked' \in 1 .. Len(log) /\ acked <= acked'
      BY <1>2, <3>1
    <3> QED BY <2>1, <3>1, <3>2, <3>3 DEF Delivery!Next, Delivery!Discard
  <2>5. SandboxDies => UNCHANGED <<log, acked>>
    BY DEF SandboxDies
  <2>6. ~SandboxDies => [Next]_vars
    BY <1>4 DEF RunStep, BridgePosts, PostAnswered, PostRefused, BridgeWindsDown, BridgeStep, Next,
       RunNext, runVars
  <2> QED BY <1>1, <2>2, <2>3, <2>4, <2>5, <2>6, BridgeSteps
<1> QED BY <1>3, <1>4

\* Bridge and control plane together implement an ordered delivery without a gap: whatever is
\* recorded while a POST is out, however POSTs time out, are cancelled by wind-down or die with
\* the sandbox, and however many handlers of abandoned POSTs go on, abort or lose their commit.
THEOREM RunDelivers == RunSpec => RunDeliversInOrder
<1>1. RunInit => Delivery!Init
  <2> SUFFICES ASSUME RunInit PROVE Delivery!Init
    OBVIOUS
  <2>1. /\ log = <<>> /\ acked = 0 /\ events = {} /\ ignored = {} /\ lost = {}
        /\ \A r \in Requests : txn[r] = CP!Idle
    BY RolesDiffer DEF RunInit, Init, CP!InitControlPlane, CP!Txns
  <2>2. \A s : ~IsKept(s)
    BY <2>1, IdleHolds DEF IsKept, KeptBy
  <2>3. Kept = {}
    BY <2>2, KeptMembers
  <2> QED BY <2>1, <2>3 DEF Delivery!Init
<1>2. HeldInv /\ HeldInv' /\ [RunStep]_runVars => [Delivery!Next]_<<log, Kept, acked>>
  BY RunKeepsOrder
<1> QED BY <1>1, <1>2, HeldInit, HeldNext, PTL DEF RunSpec, RunDeliversInOrder, Delivery!Spec

-----------------------------------------------------------------------------
(* Success was settled.  The handler that keeps the first end commits a     *)
(* verdict with it, and only the commit of a handler that read the record   *)
(* pending, and that another has overtaken since, can reopen it.            *)

EndsIn(S) == \E s \in S : log[s] \in {"finished", "error"}

\* A handler: the end it is about to commit comes with a verdict, unless one is kept.
RequestOK(x) ==
    /\ x.stage \in {"idle", "received"} => x.ins = {}
    /\ x.stage \in {"idle", "received", "promote", "close"} => x.target = CP!None
    /\ x.stage \in {"insert", "project"} => x.target \in {CP!None, "running"}
    /\ x.target \in {CP!None, "running"} \cup CP!Terminal
    /\ x.stage \in {"update", "committing"} /\ EndsIn(x.ins)
       => x.target \in CP!Terminal \/ EndIsKept
    /\ x.target = "completed" => EndsIn(x.ins) \/ EndIsKept
    /\ x.stage = "close" => EndIsKept
    /\ x.stage \notin {"idle", "received"} => status # CP!None

\* The starter commits first, the sweep only finds what runs.
OthersOK ==
    /\ txn[Starter].stage # "idle" => status = CP!None
    /\ txn[Sweeper].stage # "idle" => txn[Sweeper].target = "failed" /\ status # CP!None
    /\ txn[Starter].target \in {CP!None, "pending", "failed"}

CompletionEnds == status = "completed" => EndIsKept

SettleInv == (\A r \in Requests : RequestOK(txn[r])) /\ OthersOK /\ CompletionEnds

\* What a step may do to the record: keep an end only with a verdict, and reopen it only
\* by a handler that another has overtaken.
Settles ==
    /\ EndIsKept => EndIsKept'
    /\ EndIsKept' /\ ~EndIsKept => status' \in CP!Terminal
    /\ status \in CP!Terminal /\ status' \notin CP!Terminal => Overtaken
    /\ \A r \in Requests : MayReopen(r)' /\ ~MayReopen(r) => status \notin CP!Terminal

LEMMA EndsStay ==
    ASSUME TypeOK, [Next]_vars \/ UNCHANGED log, NEW S \in SUBSET (1 .. Len(log))
    PROVE  EndsIn(S)' <=> EndsIn(S)
<1>1. CASE UNCHANGED log
  BY <1>1 DEF EndsIn
<1>2. CASE [Next]_vars
  <2>1. log \in Seq(Events)
    BY DEF TypeOK, BufferTypes
  <2>2. \A s \in 1 .. Len(log) : log'[s] = log[s]
    BY <1>2, <2>1, LogSteps, BufferGrows DEF LogStep
  <2> QED BY <2>2 DEF EndsIn
<1> QED BY <1>1, <1>2

LEMMA IdleIsOK == RequestOK(CP!Idle) /\ CP!Idle.stage = "idle" /\ CP!Idle.ins = {}
                  /\ CP!Idle.target = CP!None
  BY DEF RequestOK, EndsIn, CP!Idle, CP!None

LEMMA ProjectDecides ==
    ASSUME RunInv, HoldInv, SettleInv, NEW r \in Requests, CP!ProjectBatch(r)
    PROVE  RequestOK(txn'[r])
<1> DEFINE types == CP!TypesIn(txn[r].batch)
           submitted == "summary" \in types
           decision == CP!Verdict(types, summary \/ submitted)
           target == IF decision = CP!None THEN txn[r].target ELSE decision
           quiet == decision = CP!None /\ "heartbeat" \notin types
           stage == IF quiet THEN "committing" ELSE "update"
           x == [txn[r] EXCEPT !.sum = submitted, !.target = target, !.stage = stage]
<1>1. /\ RequestOK(txn[r]) /\ Holding(txn[r]) /\ r \in CP!Txns
      /\ txn[r].stage = "project" /\ txn \in [CP!Txns -> CP!TxnRecords]
  BY DEF RunInv, HandlersInv, HoldInv, SettleInv, CP!Txns, CP!ProjectBatch
<1>2. txn' = [txn EXCEPT ![r] = x]
  BY <1>1 DEF CP!ProjectBatch, CP!TxnRecords
<1>3. /\ decision \in {"completed", "failed", CP!None}
      /\ "finished" \in types \/ "error" \in types => decision # CP!None
      /\ decision = "completed" => "finished" \in types
  BY DEF CP!Verdict, CP!None
<1>4. EndsIn(txn[r].batch) => "finished" \in types \/ "error" \in types
  BY DEF EndsIn, CP!TypesIn
<1>5. EndsIn(txn[r].ins) => EndsIn(txn[r].batch)
  BY <1>1 DEF Holding, EndsIn
<1>6. /\ target \in {CP!None, "running"} \cup CP!Terminal
      /\ EndsIn(txn[r].ins) => target \in CP!Terminal
      /\ target = "completed" => "finished" \in types
      /\ stage \in {"update", "committing"}
  BY <1>1, <1>3, <1>4, <1>5 DEF RequestOK, CP!Terminal, CP!None
<1> HIDE DEF stage, target, submitted
<1>7. x.stage = stage /\ x.target = target /\ x.ins = txn[r].ins
  BY <1>1 DEF CP!TxnRecords
<1>8. txn'[r] = x
  BY <1>1, <1>2
<1> HIDE DEF x
<1>9. target = "completed" => EndsIn(txn[r].ins) \/ EndIsKept
  BY <1>1, <1>6 DEF Holding, EndsIn, EndIsKept, CP!TypesIn
<1>10. RequestOK(x)
  BY <1>1, <1>6, <1>7, <1>9 DEF RequestOK
<1> QED BY <1>8, <1>10

\* A statement of a handler decides on what its session has read.
LEMMA HandlerDecides ==
    ASSUME RunInv, HoldInv, SettleInv, NEW r \in Requests, CP!ServerStep(r)
    PROVE  /\ RequestOK(txn'[r])
           /\ ignored \in SUBSET ignored' /\ (ignored' # ignored => status \in CP!Terminal)
<1>1. /\ RequestOK(txn[r]) /\ r \in CP!Txns
      /\ txn \in [CP!Txns -> CP!TxnRecords] /\ status \in CP!Statuses \cup {CP!None}
  BY DEF RunInv, HandlersInv, RecordInv, SettleInv, CP!Txns
<1>2. ignored \in SUBSET ignored' /\ (ignored' # ignored => status \in CP!Terminal)
  BY DEF CP!ServerStep, CP!RejectToken, CP!AcceptOpen, CP!AcceptClosing, CP!IgnoreTerminal,
       CP!PromoteToRunning, CP!InsertEvents, CP!InsertClosing, CP!ProjectBatch,
       CP!RejectSecondSummary, CP!UpdateRecord, CP!AbortRequest, CP!Fail, CP!historyVars
<1>3. CASE CP!RejectToken(r) \/ CP!RejectSecondSummary(r) \/ CP!AbortRequest(r)
  <2>1. txn'[r] = CP!Idle
    BY <1>1, <1>3 DEF CP!RejectToken, CP!RejectSecondSummary, CP!AbortRequest, CP!Fail
  <2> QED BY <1>2, <2>1, IdleIsOK
<1>4. CASE CP!AcceptOpen(r) \/ CP!AcceptClosing(r)
  <2>1. PICK stage \in {"insert", "promote", "close"} :
            /\ txn' = [txn EXCEPT ![r] = [txn[r] EXCEPT !.stage = stage]]
            /\ stage = "close" => status = "completed"
            /\ status # CP!None /\ txn[r].stage = "received"
    BY <1>1, <1>4 DEF CP!AcceptOpen, CP!AcceptClosing, CP!Statuses, CP!Terminal, CP!None
  <2> DEFINE x == [txn[r] EXCEPT !.stage = stage]
  <2>2. x.stage = stage /\ x.ins = txn[r].ins /\ x.target = txn[r].target /\ txn'[r] = x
    BY <1>1, <2>1 DEF CP!TxnRecords
  <2> HIDE DEF x
  <2>3. RequestOK(x)
    BY <1>1, <2>1, <2>2 DEF RequestOK, SettleInv, CompletionEnds, EndsIn, CP!None
  <2> QED BY <1>2, <2>2, <2>3
<1>5. CASE CP!IgnoreTerminal(r)
  <2> DEFINE x == [txn[r] EXCEPT !.stage = "committing"]
  <2>1. txn[r].stage = "received" /\ status \in CP!Terminal /\ txn'[r] = x
    BY <1>1, <1>5 DEF CP!IgnoreTerminal, CP!TxnRecords
  <2>2. x.stage = "committing" /\ x.ins = {} /\ x.target = CP!None
    BY <1>1, <2>1 DEF CP!TxnRecords, RequestOK
  <2> HIDE DEF x
  <2>3. RequestOK(x)
    BY <2>1, <2>2 DEF RequestOK, EndsIn, CP!Terminal, CP!None
  <2> QED BY <1>2, <2>1, <2>3
<1>6. CASE CP!PromoteToRunning(r)
  <2> DEFINE x == [txn[r] EXCEPT !.stage = "insert", !.row = TRUE, !.target = "running"]
  <2>1. txn'[r] = x /\ txn[r].stage = "promote"
    BY <1>1, <1>6 DEF CP!PromoteToRunning, CP!TxnRecords
  <2>2. x.stage = "insert" /\ x.ins = txn[r].ins /\ x.target = "running"
    BY <1>1 DEF CP!TxnRecords
  <2> HIDE DEF x
  <2>3. RequestOK(x)
    BY <1>1, <2>1, <2>2 DEF RequestOK, CP!None
  <2> QED BY <1>2, <2>1, <2>3
<1>7. CASE CP!InsertEvents(r) \/ CP!InsertClosing(r)
  <2>1. PICK stage \in {"project", "committing"} :
            /\ txn' = [txn EXCEPT ![r] = [txn[r] EXCEPT !.stage = stage, !.ins = txn[r].batch \ events]]
            /\ txn[r].stage = IF stage = "project" THEN "insert" ELSE "close"
    BY <1>1, <1>7 DEF CP!InsertEvents, CP!InsertClosing, CP!TxnRecords
  <2> DEFINE x == [txn[r] EXCEPT !.stage = stage, !.ins = txn[r].batch \ events]
  <2>2. x.stage = stage /\ x.target = txn[r].target /\ txn'[r] = x
    BY <1>1, <2>1 DEF CP!TxnRecords
  <2> HIDE DEF x
  <2>3. RequestOK(x)
    BY <1>1, <2>1, <2>2 DEF RequestOK, CP!None
  <2> QED BY <1>2, <2>2, <2>3
<1>8. CASE CP!ProjectBatch(r)
  BY <1>2, <1>8, ProjectDecides
<1>9. CASE CP!UpdateRecord(r)
  <2> DEFINE x == [txn[r] EXCEPT !.stage = "committing", !.row = TRUE]
  <2>1. txn'[r] = x /\ txn[r].stage = "update"
    BY <1>1, <1>9 DEF CP!UpdateRecord, CP!TxnRecords
  <2>2. x.stage = "committing" /\ x.ins = txn[r].ins /\ x.target = txn[r].target
    BY <1>1 DEF CP!TxnRecords
  <2> HIDE DEF x
  <2>3. RequestOK(x)
    BY <1>1, <2>1, <2>2 DEF RequestOK
  <2> QED BY <1>2, <2>1, <2>3
<1> QED BY <1>3, <1>4, <1>5, <1>6, <1>7, <1>8, <1>9 DEF CP!ServerStep

\* Only a handler that has read an open record goes on to set it to running.
LEMMA HandlerReopens ==
    ASSUME RunInv, NEW r \in Requests, CP!ServerStep(r), MayReopen(r)', ~MayReopen(r)
    PROVE  status \notin CP!Terminal
<1>1. r \in CP!Txns /\ txn \in [CP!Txns -> CP!TxnRecords]
  BY DEF RunInv, HandlersInv, CP!Txns
<1>2. CASE CP!AcceptOpen(r)
  BY <1>2 DEF CP!AcceptOpen
<1>3. CASE CP!RejectToken(r) \/ CP!RejectSecondSummary(r) \/ CP!AbortRequest(r)
  <2>1. txn'[r] = CP!Idle
    BY <1>1, <1>3 DEF CP!RejectToken, CP!RejectSecondSummary, CP!AbortRequest, CP!Fail
  <2> QED BY <2>1 DEF MayReopen, CP!Idle, CP!None
<1>4. CASE \/ CP!AcceptClosing(r) \/ CP!IgnoreTerminal(r) \/ CP!InsertEvents(r)
           \/ CP!InsertClosing(r) \/ CP!UpdateRecord(r)
  <2>1. txn'[r].target = txn[r].target /\ txn'[r].stage # "promote"
    BY <1>1, <1>4 DEF CP!AcceptClosing, CP!IgnoreTerminal, CP!InsertEvents, CP!InsertClosing,
       CP!UpdateRecord, CP!TxnRecords
  <2> QED BY <2>1 DEF MayReopen
<1>5. CASE CP!PromoteToRunning(r)
  BY <1>5 DEF CP!PromoteToRunning, MayReopen
<1>6. CASE CP!ProjectBatch(r)
  <2>1. /\ txn'[r].target \in {txn[r].target, "completed", "failed"}
        /\ txn'[r].stage \in {"committing", "update"}
    BY <1>1, <1>6 DEF CP!ProjectBatch, CP!Verdict, CP!None, CP!TxnRecords
  <2> QED BY <2>1 DEF MayReopen
<1> QED BY <1>2, <1>3, <1>4, <1>5, <1>6 DEF CP!ServerStep

\* RequestOK looks at the record only through the ends it keeps and its presence.
LEMMA RequestStaysOK ==
    ASSUME NEW x, RequestOK(x), EndsIn(x.ins)' <=> EndsIn(x.ins), EndIsKept => EndIsKept',
           status # CP!None => status' # CP!None
    PROVE  RequestOK(x)'
  BY DEF RequestOK

LEMMA HandlerSettles ==
    ASSUME RunInv, HoldInv, SettleInv, NEW r \in Requests, CP!ServerStep(r), UNCHANGED vars
    PROVE  SettleInv' /\ Settles
<1>1. PICK x : txn' = [txn EXCEPT ![r] = x]
  BY HandlerStepSound
<1>2. /\ UNCHANGED <<status, events, log>>
      /\ ignored \in SUBSET ignored' /\ (ignored' # ignored => status \in CP!Terminal)
  BY HandlerDecides, HandlerStepSound DEF recordVars, vars, bridgeVars, bufferVars
<1>3. /\ txn \in [CP!Txns -> CP!TxnRecords] /\ r \in CP!Txns /\ Requests \in SUBSET CP!Txns
      /\ Starter \in CP!Txns /\ Sweeper \in CP!Txns
  BY DEF RunInv, HandlersInv, CP!Txns
<1>4. /\ txn'[r] = x /\ txn'[Starter] = txn[Starter] /\ txn'[Sweeper] = txn[Sweeper]
      /\ \A q \in Requests \ {r} : txn'[q] = txn[q]
  BY <1>1, <1>3, RolesDiffer
<1>5. /\ EndIsKept => EndIsKept'
      /\ EndIsKept' /\ ~EndIsKept => status' \in CP!Terminal
  BY <1>2 DEF EndIsKept
<1>6. ASSUME NEW y, RequestOK(y) PROVE RequestOK(y)'
  BY <1>2, <1>5, <1>6, RequestStaysOK DEF EndsIn
<1>7. RequestOK(x)'
  BY <1>4, <1>6, HandlerDecides
<1>8. ASSUME NEW q \in Requests \ {r} PROVE RequestOK(txn[q])'
  <2>1. PICK y : y = txn[q]
    OBVIOUS
  <2>2. RequestOK(y)'
    BY <1>6, <2>1 DEF SettleInv
  <2> QED BY <1>4, <2>1, <2>2 DEF RequestOK
<1>9. \A q \in Requests : RequestOK(txn[q])'
  <2>1. RequestOK(txn[r])'
    BY <1>4, <1>7 DEF RequestOK
  <2> QED BY <1>8, <2>1
<1>10. OthersOK' /\ CompletionEnds'
  BY <1>2, <1>4, <1>5 DEF SettleInv, OthersOK, CompletionEnds
<1>11. \A q \in Requests : MayReopen(q)' /\ ~MayReopen(q) => status \notin CP!Terminal
  BY <1>4, HandlerReopens DEF MayReopen
<1> QED BY <1>2, <1>5, <1>9, <1>10, <1>11 DEF SettleInv, Settles

\* The starter and the sweep, up to their commits.
LEMMA OthersSettle ==
    ASSUME RunInv, SettleInv, UNCHANGED vars,
           CP!LaunchSandbox \/ CP!LaunchFails \/ CP!SelectStale \/ CP!UpdateRecord(Sweeper)
           \/ CP!FallSilent
    PROVE  SettleInv' /\ Settles
<1>1. UNCHANGED <<status, events, ignored, log>>
  BY DEF CP!LaunchSandbox, CP!LaunchFails, CP!SelectStale, CP!UpdateRecord, CP!FallSilent,
         CP!recordVars, CP!historyVars, vars, bridgeVars, bufferVars
<1>2. txn \in [CP!Txns -> CP!TxnRecords] /\ Starter \in CP!Txns /\ Sweeper \in CP!Txns
      /\ Requests \in SUBSET CP!Txns
  BY DEF RunInv, HandlersInv, CP!Txns
<1>3. \A r \in Requests : txn'[r] = txn[r]
  BY <1>2, RolesDiffer DEF CP!LaunchSandbox, CP!LaunchFails, CP!SelectStale, CP!UpdateRecord,
     CP!FallSilent
<1>4. CompletionEnds' /\ Settles
  BY <1>1, <1>3 DEF SettleInv, CompletionEnds, Settles, EndIsKept, MayReopen
<1>5. \A r \in Requests : RequestOK(txn[r])'
  BY <1>1, <1>3 DEF SettleInv, RequestOK, EndsIn, EndIsKept
<1>6. OthersOK'
  <2>1. CASE CP!LaunchSandbox \/ CP!LaunchFails
    <3>1. PICK target \in {"pending", "failed"} :
              txn' = [txn EXCEPT ![Starter] =
                         [txn[Starter] EXCEPT !.stage = "committing", !.target = target]]
      BY <1>2, <2>1 DEF CP!LaunchSandbox, CP!LaunchFails, CP!TxnRecords
    <3> DEFINE x == [txn[Starter] EXCEPT !.stage = "committing", !.target = target]
    <3>2. x.ins = txn[Starter].ins /\ x.target = target
      BY <1>2 DEF CP!TxnRecords
    <3>3. txn'[Starter] = x /\ txn'[Sweeper] = txn[Sweeper]
      BY <1>2, <3>1, RolesDiffer
    <3> HIDE DEF x
    <3>4. txn[Starter].stage # "idle"
      BY <2>1 DEF CP!LaunchSandbox, CP!LaunchFails
    <3> QED BY <1>1, <3>2, <3>3, <3>4 DEF SettleInv, OthersOK
  <2>2. CASE CP!SelectStale
    <3> DEFINE x == [txn[Sweeper] EXCEPT !.stage = "update", !.target = "failed"]
    <3>1. txn' = [txn EXCEPT ![Sweeper] = x] /\ status = "running"
      BY <1>2, <2>2 DEF CP!SelectStale, CP!TxnRecords
    <3>2. x.ins = txn[Sweeper].ins /\ x.target = "failed" /\ x.stage = "update"
      BY <1>2 DEF CP!TxnRecords
    <3>3. txn'[Sweeper] = x /\ txn'[Starter] = txn[Starter]
      BY <1>2, <3>1, RolesDiffer
    <3> HIDE DEF x
    <3> QED BY <1>1, <3>1, <3>2, <3>3 DEF SettleInv, OthersOK, CP!None
  <2>3. CASE CP!UpdateRecord(Sweeper)
    <3> DEFINE x == [txn[Sweeper] EXCEPT !.stage = "committing", !.row = TRUE]
    <3>1. txn' = [txn EXCEPT ![Sweeper] = x] /\ txn[Sweeper].stage = "update"
      BY <1>2, <2>3 DEF CP!UpdateRecord, CP!TxnRecords
    <3>2. x.ins = txn[Sweeper].ins /\ x.target = txn[Sweeper].target
      BY <1>2 DEF CP!TxnRecords
    <3>3. txn'[Sweeper] = x /\ txn'[Starter] = txn[Starter]
      BY <1>2, <3>1, RolesDiffer
    <3> HIDE DEF x
    <3> QED BY <1>1, <3>1, <3>2, <3>3 DEF SettleInv, OthersOK
  <2>4. CASE CP!FallSilent
    <3>1. UNCHANGED txn
      BY <2>4 DEF CP!FallSilent
    <3> QED BY <1>1, <3>1 DEF SettleInv, OthersOK
  <2> QED BY <2>1, <2>2, <2>3, <2>4
<1> QED BY <1>4, <1>5, <1>6 DEF SettleInv

LEMMA CommitSettles ==
    ASSUME RunInv, HoldInv, SettleInv, NEW t \in CP!Txns, CP!Commit(t), UNCHANGED vars
    PROVE  SettleInv' /\ Settles
<1>1. /\ events' = events \cup txn[t].ins /\ UNCHANGED <<ignored, log>>
      /\ status' = IF txn[t].target = CP!None THEN status ELSE txn[t].target
      /\ txn' = [txn EXCEPT ![t] = CP!Idle] /\ txn[t].stage = "committing"
  BY DEF CP!Commit, CP!historyVars, vars, bridgeVars, bufferVars
<1>2. /\ txn \in [CP!Txns -> CP!TxnRecords] /\ Starter \in CP!Txns /\ Sweeper \in CP!Txns
      /\ Requests \in SUBSET CP!Txns
  BY DEF RunInv, HandlersInv, CP!Txns
<1>3. \A u \in CP!Txns : txn'[u] = IF u = t THEN CP!Idle ELSE txn[u]
  BY <1>1, <1>2
<1>4. /\ \A r \in Requests : RequestOK(txn[r])
      /\ txn[Starter].ins = {} /\ txn[Sweeper].ins = {}
      /\ txn[Starter].stage # "idle" => status = CP!None
      /\ txn[Sweeper].stage # "idle" => txn[Sweeper].target = "failed" /\ status # CP!None
      /\ txn[Starter].target \in {CP!None, "pending", "failed"}
      /\ status = "completed" => EndIsKept
  BY DEF HoldInv, SettleInv, OthersOK, CompletionEnds
<1>5. /\ \A S : EndsIn(S)' <=> EndsIn(S)
      /\ EndIsKept' <=> EndIsKept \/ EndsIn(txn[t].ins)
  BY <1>1 DEF EndsIn, EndIsKept
\* What a commit makes of the record depends on whose it is.
<1>6. /\ EndsIn(txn[t].ins) => txn[t].target \in CP!Terminal \/ EndIsKept
      /\ txn[t].target = "completed" => EndIsKept'
      /\ status \in CP!Terminal /\ status' \notin CP!Terminal => Overtaken
      /\ status # CP!None => status' # CP!None
  <2>1. CASE t = Starter
    BY <1>1, <1>3, <1>4, <2>1 DEF EndsIn, CP!None, CP!Terminal
  <2>2. CASE t = Sweeper
    BY <1>1, <1>4, <2>2 DEF EndsIn, CP!None, CP!Terminal
  <2>3. CASE t \in Requests
    <3>1. RequestOK(txn[t]) /\ status # CP!None
      BY <1>1, <1>4, <2>3 DEF RequestOK
    <3>2. /\ EndsIn(txn[t].ins) => txn[t].target \in CP!Terminal \/ EndIsKept
          /\ txn[t].target = "completed" => EndIsKept \/ EndsIn(txn[t].ins)
          /\ txn[t].target \in {CP!None, "running"} \cup CP!Terminal
      BY <1>1, <3>1 DEF RequestOK
    <3>3. status \in CP!Terminal /\ status' \notin CP!Terminal => Overtaken
      BY <1>1, <2>3, <3>2 DEF Overtaken, MayReopen, CP!None
    <3> QED BY <1>1, <1>5, <3>1, <3>2, <3>3 DEF CP!None, CP!Terminal
  <2> QED BY <2>1, <2>2, <2>3 DEF CP!Txns
<1>7. Settles
  <2>1. EndIsKept' /\ ~EndIsKept => status' \in CP!Terminal
    BY <1>1, <1>5, <1>6 DEF CP!None, CP!Terminal
  <2>2. \A r \in Requests : txn'[r] = txn[r] \/ (txn'[r].stage = "idle" /\ txn'[r].target = CP!None)
    BY <1>2, <1>3, IdleIsOK
  <2>3. \A r \in Requests : MayReopen(r)' => MayReopen(r)
    BY <2>2 DEF MayReopen, CP!None
  <2> QED BY <1>5, <1>6, <2>1, <2>3 DEF Settles
<1>8. CompletionEnds'
  BY <1>1, <1>4, <1>5, <1>6 DEF CompletionEnds
<1>9. ASSUME NEW r \in Requests PROVE RequestOK(txn[r])'
  <2>1. PICK x : x = txn'[r]
    OBVIOUS
  <2>2. RequestOK(x)
    BY <1>2, <1>3, <1>4, <2>1, IdleIsOK
  <2>3. RequestOK(x)'
    BY <1>5, <1>6, <2>2, RequestStaysOK
  <2> QED BY <2>1, <2>3 DEF RequestOK
<1>10. OthersOK'
  <2>1. CASE t = Starter
    <3>1. txn'[Starter] = CP!Idle /\ txn'[Sweeper] = txn[Sweeper]
      BY <1>2, <1>3, <2>1, RolesDiffer
    <3> QED BY <1>4, <1>6, <3>1, IdleIsOK DEF OthersOK
  <2>2. CASE t # Starter
    <3>1. txn'[Starter] = txn[Starter] /\ (txn'[Sweeper] = CP!Idle \/ txn'[Sweeper] = txn[Sweeper])
      BY <1>2, <1>3, <2>2
    <3>2. status # CP!None
      <4>1. t \in Requests \cup {Sweeper}
        BY <2>2 DEF CP!Txns
      <4> QED BY <1>1, <1>4, <4>1 DEF RequestOK
    <3> QED BY <1>4, <1>6, <3>1, <3>2, IdleIsOK DEF OthersOK
  <2> QED BY <2>1, <2>2
<1> QED BY <1>7, <1>8, <1>9, <1>10 DEF SettleInv

LEMMA FailedCommitSettles ==
    ASSUME RunInv, SettleInv, NEW t \in CP!Txns, CP!CommitFails(t), UNCHANGED vars
    PROVE  SettleInv' /\ Settles
<1>1. UNCHANGED <<status, events, ignored, log>> /\ txn' = [txn EXCEPT ![t] = CP!Idle]
  BY DEF CP!CommitFails, CP!recordVars, vars, bridgeVars, bufferVars
<1>2. /\ txn \in [CP!Txns -> CP!TxnRecords] /\ Starter \in CP!Txns /\ Sweeper \in CP!Txns
      /\ Requests \in SUBSET CP!Txns
  BY DEF RunInv, HandlersInv, CP!Txns
<1>3. \A u \in CP!Txns : txn'[u] = CP!Idle \/ txn'[u] = txn[u]
  BY <1>1, <1>2
<1>4. RequestOK(CP!Idle)'
  BY <1>1, IdleIsOK DEF RequestOK, EndsIn, CP!Idle, CP!None
<1>5. \A r \in Requests : RequestOK(txn[r])'
  BY <1>1, <1>2, <1>3, <1>4 DEF SettleInv, RequestOK, EndsIn, EndIsKept
<1>6. OthersOK'
  BY <1>1, <1>2, <1>3, IdleIsOK DEF SettleInv, OthersOK
<1>7. \A r \in Requests : MayReopen(r)' => MayReopen(r)
  BY <1>2, <1>3, IdleIsOK DEF MayReopen, CP!None
<1> QED BY <1>1, <1>5, <1>6, <1>7 DEF SettleInv, CompletionEnds, Settles, EndIsKept

\* The bridge and its environment only lengthen the log, or hand over a batch.
LEMMA BridgeSettles ==
    ASSUME RunInv, SettleInv,
           \/ \E r \in Requests : BridgePosts(r)
           \/ PostAnswered \/ PostRefused \/ BridgeWindsDown \/ BridgeStep \/ SandboxDies
    PROVE  SettleInv' /\ Settles
<1>1. UNCHANGED <<status, events, ignored>>
  BY DEF BridgePosts, CP!Receive, CP!recordVars, CP!historyVars, recordVars, PostAnswered,
       PostRefused, BridgeWindsDown, BridgeStep, SandboxDies, Release, serverVars
<1>2. [Next]_vars \/ UNCHANGED log
  BY DEF BridgePosts, PostAnswered, PostRefused, BridgeWindsDown, BridgeStep, Next, RunNext,
         SandboxDies
<1>3. /\ txn \in [CP!Txns -> CP!TxnRecords] /\ Starter \in CP!Txns /\ Sweeper \in CP!Txns
      /\ Requests \in SUBSET CP!Txns
  BY DEF RunInv, HandlersInv, CP!Txns
<1>4. \A S \in SUBSET (1 .. Len(log)) : EndsIn(S)' <=> EndsIn(S)
  BY <1>2, EndsStay DEF RunInv, BridgeInv
<1>5. EndIsKept' <=> EndIsKept
  <2>1. PICK S : S = events
    OBVIOUS
  <2>2. EndsIn(S)' <=> EndsIn(S)
    BY <1>4, <2>1 DEF RunInv, RecordInv
  <2> QED BY <1>1, <2>1, <2>2 DEF EndIsKept, EndsIn
<1>6. ASSUME NEW r \in Requests, txn'[r] = txn[r] PROVE RequestOK(txn[r])'
  <2>1. PICK x : x = txn[r]
    OBVIOUS
  <2>2. RequestOK(x) /\ x.ins \in SUBSET (1 .. Len(log))
    BY <1>3, <2>1 DEF SettleInv, RunInv, HandlersInv, Sound
  <2>3. EndsIn(x.ins)' <=> EndsIn(x.ins)
    BY <1>4, <2>2
  <2>4. RequestOK(x)'
    BY <1>1, <1>5, <2>2, <2>3, RequestStaysOK
  <2> QED BY <1>6, <2>1, <2>4 DEF RequestOK
<1>7. ASSUME NEW r \in Requests, BridgePosts(r) PROVE SettleInv'
  <2> DEFINE batch == acked + 1 .. acked + window'
             x == [txn[r] EXCEPT !.stage = "received", !.batch = batch]
  <2>1. txn' = [txn EXCEPT ![r] = x] /\ txn[r].stage = "idle"
    BY <1>3, <1>7 DEF BridgePosts, CP!Receive, CP!TxnRecords
  <2>2. /\ x.stage = "received" /\ x.ins = txn[r].ins /\ x.target = txn[r].target
    BY <1>3 DEF CP!TxnRecords
  <2> HIDE DEF x
  <2>3. \A u \in CP!Txns : txn'[u] = IF u = r THEN x ELSE txn[u]
    BY <1>3, <2>1
  <2>4. x.ins = {} /\ x.target = CP!None
    BY <2>1, <2>2 DEF SettleInv, RequestOK
  <2>5. PICK y : y = x
    OBVIOUS
  <2>6. RequestOK(y)'
    BY <2>2, <2>4, <2>5 DEF RequestOK, EndsIn, CP!None
  <2>7. RequestOK(txn[r])'
    BY <1>3, <2>3, <2>5, <2>6 DEF RequestOK
  <2>8. \A s \in Requests : RequestOK(txn[s])'
    BY <1>3, <1>6, <2>3, <2>7
  <2>9. OthersOK'
    <3>1. txn'[Starter] = txn[Starter] /\ txn'[Sweeper] = txn[Sweeper]
      BY <1>3, <2>3, RolesDiffer
    <3> QED BY <1>1, <3>1 DEF SettleInv, OthersOK
  <2> QED BY <1>1, <1>5, <2>8, <2>9 DEF SettleInv, CompletionEnds
<1>8. ASSUME UNCHANGED txn PROVE SettleInv'
  <2>1. \A s \in Requests : RequestOK(txn[s])'
    BY <1>6, <1>8
  <2>2. OthersOK'
    BY <1>1, <1>8 DEF SettleInv, OthersOK
  <2> QED BY <1>1, <1>5, <2>1, <2>2 DEF SettleInv, CompletionEnds
<1>9. Settles
  <2>1. ASSUME NEW r \in Requests, BridgePosts(r)
        PROVE  \A q \in Requests : MayReopen(q)' => MayReopen(q)
    <3>1. txn' = [txn EXCEPT ![r] = [txn[r] EXCEPT !.stage = "received",
                                                    !.batch = acked + 1 .. acked + window']]
      BY <1>3, <2>1 DEF BridgePosts, CP!Receive, CP!TxnRecords
    <3> DEFINE x == [txn[r] EXCEPT !.stage = "received", !.batch = acked + 1 .. acked + window']
    <3>2. x.stage = "received" /\ x.target = txn[r].target
      BY <1>3 DEF CP!TxnRecords
    <3>3. \A q \in Requests : txn'[q] = IF q = r THEN x ELSE txn[q]
      BY <1>3, <3>1
    <3> HIDE DEF x
    <3> QED BY <3>2, <3>3 DEF MayReopen
  <2>2. UNCHANGED txn => \A q \in Requests : MayReopen(q)' => MayReopen(q)
    BY DEF MayReopen
  <2>3. UNCHANGED txn \/ \E r \in Requests : BridgePosts(r)
    BY DEF PostAnswered, PostRefused, BridgeWindsDown, BridgeStep, SandboxDies, Release, serverVars
  <2> QED BY <1>1, <1>5, <2>1, <2>2, <2>3 DEF Settles
<1> QED BY <1>7, <1>8, <1>9 DEF PostAnswered, PostRefused, BridgeWindsDown, BridgeStep, SandboxDies,
                          Release, serverVars

LEMMA SettleNext ==
    ASSUME RunInv, HoldInv, SettleInv, [RunStep]_runVars
    PROVE  SettleInv' /\ Settles
<1>1. CASE UNCHANGED runVars
  BY <1>1 DEF SettleInv, OthersOK, CompletionEnds, RequestOK, EndsIn, EndIsKept, Settles,
              MayReopen, runVars, serverVars, recordVars, vars, bridgeVars, bufferVars
<1>2. CASE ControlPlaneStep
  <2>1. UNCHANGED vars /\ CP!ControlPlaneNext
    BY <1>2 DEF ControlPlaneStep
  <2>2. ASSUME NEW r \in Requests, CP!ServerStep(r) PROVE SettleInv' /\ Settles
    BY <2>1, <2>2, HandlerSettles
  <2>3. ASSUME NEW t \in CP!Txns, CP!Commit(t) \/ CP!CommitFails(t) PROVE SettleInv' /\ Settles
    BY <2>1, <2>3, CommitSettles, FailedCommitSettles
  <2> QED BY <2>1, <2>2, <2>3, OthersSettle DEF CP!ControlPlaneNext
<1> QED BY <1>1, <1>2, BridgeSettles DEF RunStep

SettledInv == HeldInv /\ SettleInv

LEMMA SettledNext ==
    ASSUME SettledInv, [RunStep]_runVars
    PROVE  SettledInv' /\ Settles
  BY HeldNext, SettleNext DEF SettledInv, HeldInv

LEMMA SettledInit == RunInit => SettledInv
<1> SUFFICES ASSUME RunInit PROVE SettledInv
  OBVIOUS
<1>1. CP!InitControlPlane
  BY DEF RunInit
<1>2. /\ txn = [t \in CP!Txns |-> IF t = Starter THEN [CP!Idle EXCEPT !.stage = "launch"]
                                                 ELSE CP!Idle]
      /\ status = CP!None /\ events = {} /\ ignored = {}
  BY <1>1 DEF CP!InitControlPlane
<1>3. \A r \in Requests : RequestOK(txn[r])
  BY <1>2, IdleIsOK, RolesDiffer DEF CP!Txns
<1>4. txn[Sweeper] = CP!Idle /\ txn[Starter] = [CP!Idle EXCEPT !.stage = "launch"]
  BY <1>2, RolesDiffer DEF CP!Txns
<1>5. OthersOK
  <2>1. txn[Starter].target = CP!None /\ txn[Sweeper].stage = "idle"
    BY <1>4 DEF CP!Idle
  <2> QED BY <1>2, <2>1 DEF OthersOK
<1>6. CompletionEnds
  BY <1>2 DEF CompletionEnds, CP!None
<1> QED BY <1>3, <1>5, <1>6, HeldInit DEF SettledInv, SettleInv

LEMMA SuccessIsKept ==
    ASSUME SettledInv, AtRest, exitCode = 0, lost = {}
    PROVE  EndIsKept
<1>1. PICK s \in 1 .. acked : log[s] = "finished"
  BY DEF SettledInv, HeldInv, RunInv, BridgeInv, ExitsAreRecorded, Evidence, Recorded
<1>2. IsKept(s) /\ \A r \in Requests : ~KeptBy(s, r)
  BY DEF SettledInv, HeldInv, DeliveryInv, AtRest, KeptBy, CP!Txns
<1>3. s \in events \/ s \in ignored
  BY <1>2 DEF IsKept
<1> QED BY <1>1, <1>3 DEF EndIsKept

\* Exit code 0 against the committed record, for any log, batch size, number of retries, lost
\* answers, dying handlers and handlers that overlap: when all is at rest and no commit has
\* failed after its answer, the control plane keeps an end of the run, or has declined events
\* of a settled record.  The commit that kept the first end settled the record, and nothing
\* but the commit of a handler that was overtaken after it read the record has reopened it.
THEOREM SuccessSettles == RunSpec => SuccessWasSettled
<1>1. SettledInv /\ [RunStep]_runVars => SettledInv' /\ Settles
  BY SettledNext
<1>2. SettledInv => (AtRest /\ exitCode = 0 /\ lost = {} => EndIsKept)
  BY SuccessIsKept
<1>3. SettledInv /\ [RunStep]_runVars
      => [(EndIsKept' /\ ~EndIsKept) => (status' \in CP!Terminal)]_runVars
  BY SettledNext DEF Settles
<1>4. SettledInv /\ [RunStep]_runVars
      => [(status \in CP!Terminal /\ status' \notin CP!Terminal) => Overtaken]_runVars
  BY SettledNext DEF Settles
<1>5. SettledInv /\ [RunStep]_runVars
      => [\A r \in Requests :
             (MayReopen(r)' /\ ~MayReopen(r)) => (status \notin CP!Terminal)]_runVars
  BY SettledNext DEF Settles
<1> QED BY <1>1, <1>2, <1>3, <1>4, <1>5, SettledInit, PTL DEF RunSpec, SuccessWasSettled

\* A successful run is left open in no other way: as long as no handler is overtaken after it
\* has read the record, exit code 0 leaves a settled record.
COROLLARY SuccessStaysSettled == RunSpec /\ []~Overtaken => []SuccessIsSettled
<1> DEFINE I == SettledInv /\ (EndIsKept => status \in CP!Terminal)
<1>1. RunInit => I
  <2>1. RunInit => ~EndIsKept
    BY DEF RunInit, CP!InitControlPlane, EndIsKept
  <2> QED BY <2>1, SettledInit
<1>2. I /\ ~Overtaken /\ [RunStep]_runVars => I'
  BY SettledNext DEF Settles
<1>3. I => SuccessIsSettled
  BY SuccessIsKept DEF SuccessIsSettled
<1> HIDE DEF I
<1> QED BY <1>1, <1>2, <1>3, PTL DEF RunSpec

-----------------------------------------------------------------------------
(* Every run settles.  When no handler and no commit fails, only one handler *)
(* is ever at work: the others have answered and have but their commit to    *)
(* do.  So a record is settled for good although handlers overlap.           *)

EndsSettle == (ignored # {} \/ EndsIn(events)) => status \in CP!Terminal

\* The gateway did not start: its error is all there will be.
Refused ==
    /\ log = <<"error">> /\ prime = "none" /\ ~attempt.orphans
    /\ phase \in {"closing", "cleanup", "exited"}

\* The bridge: its first event goes out alone, and it leaves nothing behind.
BootInv ==
    /\ phase \in {"gateway", "boot"} => prime = "none"
    /\ phase = "gateway" => log = <<>>
    /\ phase = "boot" => log = <<"started">>
    /\ acked = 0 => phase \in {"gateway", "boot"} \/ Refused
    /\ log # <<>> => log[1] = "started" \/ Refused
    /\ phase \in {"closing", "cleanup", "exited"} => exitCode \in {0, 1}
    /\ phase = "exited" => acked = Len(log)

OneSummary == \A s, t \in 1 .. Len(log) : log[s] = "summary" /\ log[t] = "summary" => s = t

\* What the bridge may do when no POST fails and no sandbox dies.
DependableStep ==
    \/ PrimeNext \/ EventNext \/ WatchdogNext \/ RunNext \/ PostBatch \/ PostSucceeds
    \/ UNCHANGED vars

LEMMA LogLength ==
    ASSUME TypeOK
    PROVE  /\ log \in Seq(Events) /\ Len(log) \in Nat /\ acked \in Nat /\ window \in Nat
           /\ acked + window <= Len(log)
           /\ acked # 0 => log # <<>>
  BY DEF TypeOK, BufferTypes

\* What is appended behind the first event leaves the first as it is.
LEMMA FirstStays ==
    ASSUME TypeOK, log # <<>>, NEW e \in Events, log' = Append(log, e)
    PROVE  log' # <<>> /\ log'[1] = log[1]
<1>1. Len(log) \in Nat /\ Len(log) # 0
  BY LogLength
<1> QED BY <1>1, LogLength, BufferGrows

LEMMA BootNext ==
    ASSUME TypeOK, BootInv, DependableStep
    PROVE  BootInv'
<1> USE DEF BootInv, Refused
<1>0. phase \notin {"gateway", "boot", "closing", "cleanup", "exited"} => acked # 0 /\ log # <<>>
  BY LogLength
<1>1. CASE PrimeNext
  <2>1. /\ prime # "none" /\ prime' # "none"
        /\ UNCHANGED <<phase, exitCode, log, acked, attempt>>
    BY <1>1 DEF PrimeNext, PrimeReads, PrimeWrites, PrimeDies, Alive, bridgeVars, bufferVars
  <2>2. phase \notin {"gateway", "boot"} /\ ~Refused
    BY <2>1
  <2> QED BY <2>1, <2>2
<1>2. CASE ReadLine \/ ReadEOF
  <2>1. /\ phase \in {"race", "winddown"} \/ (attempt.orphans /\ phase \in {"closing", "cleanup"})
        /\ UNCHANGED <<phase, exitCode, acked>>
        /\ log' = log \/ \E e \in Events : log' = Append(log, e)
    BY <1>2 DEF ReadLine, ReadEOF, Reading, LineEvent, bufferVars, Events
  <2>2. ~Refused /\ acked # 0 /\ log # <<>>
    BY <1>0, <2>1, LogLength
  <2>3. log' # <<>> /\ log'[1] = log[1]
    BY <2>1, <2>2, FirstStays
  <2> QED BY <2>1, <2>2, <2>3
<1>3. CASE CallSubmits \/ CallMutates
  <2>1. /\ prime # "none" /\ prime' = prime /\ phase \notin {"gateway", "cleanup", "exited"}
        /\ UNCHANGED <<phase, exitCode, acked>>
        /\ log' = log \/ \E e \in Events : log' = Append(log, e)
    BY <1>3 DEF CallSubmits, CallMutates, GatewayOpen, Alive, primeVars, bufferVars, Events
  <2>2. ~Refused /\ acked # 0 /\ log # <<>>
    BY <1>0, <2>1, LogLength
  <2>3. log' # <<>> /\ log'[1] = log[1]
    BY <2>1, <2>2, FirstStays
  <2> QED BY <2>1, <2>2, <2>3
<1>4. CASE RelayPrompt \/ WatchdogNext
  <2>1. /\ UNCHANGED <<phase, exitCode, log, acked, prime>>
        /\ attempt' = attempt \/ phase = "race"
    BY <1>4 DEF RelayPrompt, WatchdogNext, CutoffPasses, WatchdogFires, RecoveryExpires,
       bridgeVars, bufferVars, primeVars
  <2> QED BY <2>1
<1>5. CASE GatewayStarts
  <2>1. phase' = "boot" /\ log' = <<"started">> /\ prime' = prime /\ phase = "gateway"
    BY <1>5, LogLength DEF GatewayStarts, primeVars
  <2> QED BY <2>1
<1>6. CASE StartFails
  <2>1. /\ phase \in {"gateway", "spawn"} /\ phase' = "closing" /\ exitCode' = 1
        /\ log' = Append(log, "error") /\ UNCHANGED <<acked, prime>> /\ attempt' = Fresh
    BY <1>6 DEF StartFails, Raise, primeVars
  <2>2. CASE phase = "gateway"
    <3>1. log' = <<"error">> /\ prime' = "none" /\ ~attempt'.orphans
      BY <2>1, <2>2 DEF Fresh
    <3> QED BY <2>1, <3>1
  <2>3. CASE phase = "spawn"
    <3>1. log' # <<>> /\ log'[1] = log[1] /\ acked # 0
      BY <1>0, <2>1, <2>3, FirstStays, EventTypes
    <3>2. log[1] = "started"
      BY <1>0, <2>3
    <3> QED BY <2>1, <2>3, <3>1, <3>2
  <2> QED BY <2>1, <2>2, <2>3
<1>7. CASE LoopRaises \/ (WindDownEnds /\ log' # log)
  <2>1. /\ phase \in {"race", "winddown"} /\ phase' = "closing" /\ exitCode' = 1
        /\ log' = Append(log, "error") /\ acked' = acked
    BY <1>7 DEF LoopRaises, Raise, WindDownEnds
  <2>2. log' # <<>> /\ log'[1] = log[1] /\ acked # 0
    BY <1>0, <2>1, FirstStays, EventTypes
  <2>3. log[1] = "started"
    BY <1>0, <2>1
  <2> QED BY <2>1, <2>2, <2>3
<1>8. CASE Spawn \/ RaceEnds \/ BackoffEnds \/ (WindDownEnds /\ log' = log)
  <2>1. /\ phase \in {"spawn", "race", "backoff", "winddown"}
        /\ phase' \in {"race", "winddown", "spawn", "persist", "backoff", "closing"}
        /\ phase' = "closing" => exitCode' = 1
        /\ UNCHANGED <<log, acked>>
    BY <1>8 DEF Spawn, RaceEnds, BackoffEnds, WindDownEnds, bufferVars
  <2> QED BY <1>0, <2>1
<1>9. CASE Close
  <2>1. /\ phase = "closing" /\ phase' = "cleanup" /\ (prime = "none" => prime' = "none")
        /\ UNCHANGED <<attempt, exitCode, log, acked>>
    BY <1>9 DEF Close, bufferVars
  <2> QED BY <2>1
<1>10. CASE FlushDone
  <2>1. /\ acked = Len(log) /\ UNCHANGED <<attempt, acked, prime>>
        /\ \/ phase = "boot" /\ phase' = "spawn" /\ UNCHANGED <<exitCode, log>>
           \/ phase = "persist" /\ phase' = "closing" /\ exitCode' = 0 /\ log' = log
           \/ phase = "cleanup" /\ phase' = "exited" /\ UNCHANGED <<exitCode, log>>
    BY <1>10 DEF FlushDone, AfterFlush, primeVars
  <2>2. CASE phase = "boot"
    <3>1. acked' # 0 /\ log' # <<>> /\ log'[1] = "started" /\ phase' = "spawn"
      BY <2>1, <2>2
    <3> QED BY <3>1
  <2>3. CASE phase = "persist"
    <3>1. acked # 0 /\ log # <<>> /\ log[1] = "started"
      BY <1>0, <2>3
    <3> QED BY <2>1, <2>3, <3>1
  <2>4. CASE phase = "cleanup"
    BY <2>1, <2>4
  <2> QED BY <2>1, <2>2, <2>3, <2>4
<1>11. CASE PostBatch \/ UNCHANGED vars
  <2>1. UNCHANGED <<phase, exitCode, log, acked, prime, attempt>>
    BY <1>11 DEF PostBatch, ForcedPost, LoopPost, vars, bridgeVars, bufferVars, primeVars
  <2> QED BY <2>1
<1>12. CASE PostSucceeds
  <2>1. /\ window > 0 /\ acked' = acked + window
        /\ UNCHANGED <<phase, exitCode, log, prime, attempt>>
    BY <1>12 DEF PostSucceeds, bridgeVars, primeVars
  <2>2. acked' # 0 /\ phase # "exited"
    BY <2>1, LogLength
  <2> QED BY <2>1, <2>2
<1> QED BY <1>1, <1>2, <1>3, <1>4, <1>5, <1>6, <1>7, <1>8, <1>9, <1>10, <1>11, <1>12
        DEF DependableStep, EventNext, RunNext

LEMMA OneSummaryNext ==
    ASSUME TypeOK, SummaryRemembered, OneSummary, DependableStep
    PROVE  OneSummary'
<1>1. CASE log' = log
  BY <1>1 DEF OneSummary
<1>2. ASSUME NEW e \in Events, log' = Append(log, e),
             e = "summary" => ~Recorded("summary", Len(log))
      PROVE  OneSummary'
  <2>1. /\ Len(log) \in Nat /\ Len(log') = Len(log) + 1 /\ log'[Len(log) + 1] = e
        /\ \A s \in 1 .. Len(log) : log'[s] = log[s]
    BY <1>2, LogLength, BufferGrows
  <2>2. \A s \in 1 .. Len(log') : s \in 1 .. Len(log) \/ s = Len(log) + 1
    BY <2>1
  <2>3. e = "summary" => \A s \in 1 .. Len(log) : log[s] # "summary"
    BY <1>2 DEF Recorded
  <2> QED BY <2>1, <2>2, <2>3 DEF OneSummary
<1>3. CASE CallSubmits
  BY <1>1, <1>2, <1>3 DEF CallSubmits, Events, SummaryRemembered
<1>4. \/ log' = log \/ CallSubmits
      \/ \E e \in Events \ {"summary"} : log' = Append(log, e)
  BY DEF Events, DependableStep, vars, bufferVars, PrimeNext, PrimeReads, PrimeWrites, PrimeDies,
     EventNext, ReadLine, LineEvent, ReadEOF, CallMutates, RelayPrompt, WatchdogNext,
     CutoffPasses, WatchdogFires, RecoveryExpires, RunNext, GatewayStarts, Spawn, StartFails,
     Raise, LoopRaises, RaceEnds, WindDownEnds, BackoffEnds, Close, FlushDone, AfterFlush,
     PostBatch, ForcedPost, LoopPost, PostSucceeds
<1> QED BY <1>1, <1>2, <1>3, <1>4

Working(x) == x.stage \notin {"idle", "committing"}

\* What the bridge has been told, or knows it will be told, is delivered.
Delivered ==
    1 .. IF \E r \in Requests : Working(txn[r]) THEN acked ELSE acked + window

\* The starter commits before the first call; there is nothing for the sweep.
StarterInv ==
    /\ ~silent /\ lost = {} /\ txn[Sweeper].stage = "idle"
    /\ txn[Starter].stage \in {"idle", "launch", "committing"} /\ ~txn[Starter].sum
    /\ txn[Starter].stage = "launch" => ~launched
    /\ txn[Starter].stage = "committing" =>
          txn[Starter].target = IF launched THEN "pending" ELSE "failed"
    /\ status = CP!None <=> txn[Starter].stage # "idle"
    /\ status = CP!None \/ ~launched =>
          events = {} /\ ignored = {} /\ \A r \in Requests : txn[r].stage = "idle"
    /\ ~launched => status \in {CP!None, "failed"}
    /\ status \in {CP!None, "pending", "running"} \cup CP!Terminal

\* No handler raises, so whoever works is answering the POST that is awaited.
AnsweredInv ==
    \A r \in Requests : http[r] # "error" /\ (Working(txn[r]) => http[r] = "open")

\* What is committed, or about to be, is delivered.
OrderedInv ==
    /\ events \in SUBSET Delivered
    /\ \A r \in Requests : txn[r].stage = "committing" => txn[r].batch \in SUBSET Delivered
    /\ summary => \E s \in events : log[s] = "summary"

SumsIn(S) == \E s \in S : log[s] = "summary"

\* A handler: what it has decided, and by which events.
Deciding(x) ==
    /\ x.stage \in {"idle", "received", "promote", "insert", "project", "close"} => ~x.sum
    /\ x.sum => SumsIn(x.ins)
    /\ x.stage \in {"idle", "received", "promote", "close"} => x.target = CP!None
    /\ x.target \in {CP!None, "running"} \cup CP!Terminal
    /\ x.target = "running" => x.row
    /\ x.target \in CP!Terminal => x.stage \in {"update", "committing"} /\ EndsIn(x.batch)
    /\ x.stage = "update" => x.target \in CP!Terminal
    /\ x.stage = "close" => status \in CP!Terminal
    /\ x.stage = "committing" /\ EndsIn(x.ins) => x.target \in CP!Terminal \/ status \in CP!Terminal

\* Until the record runs there is but one event: only its POSTs promote.
FirstOnly(x) ==
    x.stage \in {"insert", "project", "update", "committing"} =>
        x.row /\ x.target # CP!None /\ x.batch = {1}

FirstInv ==
    status = "pending" =>
        events = {} /\ ignored = {} /\ \A r \in Requests : FirstOnly(txn[r])

\* The record is settled, or will be by a commit that nothing can stop.
Settling(x) == x.stage = "committing" /\ x.target \in CP!Terminal
Settled == status \in CP!Terminal \/ \E r \in Requests : Settling(txn[r])
Reopens(x) == x.stage = "promote" \/ x.target = "running"

StaysInv == Settled => \A r \in Requests : ~Reopens(txn[r])

DecideInv == (\A r \in Requests : Deciding(txn[r])) /\ FirstInv /\ StaysInv /\ EndsSettle

DependableInv ==
    HeldInv /\ BootInv /\ OneSummary /\ StarterInv /\ AnsweredInv /\ OrderedInv /\ DecideInv

LEMMA TheOneAtWork ==
    ASSUME HeldInv, AnsweredInv, NEW r \in Requests, Working(txn[r])
    PROVE  /\ r = posting /\ txn[r].batch = Awaited /\ window > 0 /\ http[r] = "open"
           /\ \A q \in Requests : Working(txn[q]) => q = r
           /\ Delivered = 1 .. acked
<1>1. http[r] = "open" /\ \A q \in Requests : Working(txn[q]) => http[q] = "open"
  BY DEF AnsweredInv
<1>2. \A q \in Requests : q # posting => http[q] = "free"
  BY DEF HeldInv, DeliveryInv
<1>3. r = posting /\ \A q \in Requests : Working(txn[q]) => q = r
  BY <1>1, <1>2
<1>4. txn[r].batch = Awaited
  BY <1>1 DEF HeldInv, DeliveryInv
<1>5. window > 0
  BY <1>3, RunAssumption DEF HeldInv, RunInv, PostingInv
<1>6. Delivered = 1 .. acked
  BY DEF Delivered
<1> QED BY <1>1, <1>3, <1>4, <1>5, <1>6

\* One statement of the handler at work, r, that leaves its record at x.
Opens(y, x) ==
    /\ y.stage = "received" /\ x.stage \in {"insert", "promote", "close"}
    /\ x.stage = "insert" => status = "running"
    /\ x.stage = "promote" => status = "pending"
    /\ x.stage = "close" => status \in CP!Terminal
    /\ x.ins = y.ins /\ x.sum = y.sum /\ x.row = y.row /\ x.target = y.target

Declines(y, x) ==
    /\ y.stage = "received" /\ x.stage = "committing" /\ status \in CP!Terminal
    /\ x.ins = y.ins /\ x.sum = y.sum /\ x.row = y.row /\ x.target = y.target

Promotes(y, x) ==
    /\ y.stage = "promote" /\ x.stage = "insert" /\ x.row /\ x.target = "running"
    /\ x.ins = y.ins /\ x.sum = y.sum

Inserts(y, x) ==
    /\ \/ y.stage = "insert" /\ x.stage = "project"
       \/ y.stage = "close" /\ x.stage = "committing"
    /\ x.sum = y.sum /\ x.row = y.row /\ x.target = y.target

Projects(y, x) ==
    /\ y.stage = "project" /\ x.stage = IF EndsIn(y.batch) THEN "update" ELSE "committing"
    /\ IF EndsIn(y.batch) THEN x.target \in CP!Terminal ELSE x.target = y.target
    /\ x.sum => SumsIn(x.ins)
    /\ x.ins = y.ins /\ x.row = y.row

Updates(y, x) ==
    /\ y.stage = "update" /\ x.stage = "committing" /\ x.row
    /\ x.ins = y.ins /\ x.sum = y.sum /\ x.target = y.target

Statement(r, y, x) ==
    /\ txn' = [txn EXCEPT ![r] = x] /\ y = txn[r] /\ x.batch = y.batch
    /\ x.ins \in SUBSET x.batch
    /\ \/ Opens(y, x) \/ Declines(y, x) \/ Inserts(y, x) \/ Projects(y, x)
       \/ (Promotes(y, x) \/ Updates(y, x)) /\ CP!RowFree(r)
    /\ IF x.stage = "committing" THEN CP!Answer(r, "ok") ELSE http' = http
    /\ ignored' = ignored \/ status \in CP!Terminal
    /\ UNCHANGED <<status, silent, events, summary, launched, lost>>

LEMMA NewEventsAhead ==
    ASSUME HeldInv, AnsweredInv, NEW r \in Requests, Working(txn[r])
    PROVE  \A s \in txn[r].batch : s \notin Delivered
<1>1. acked \in Nat /\ window \in Nat
  BY DEF HeldInv, RunInv, BridgeInv, TypeOK, BufferTypes
<1>2. txn[r].batch = acked + 1 .. acked + window /\ Delivered = 1 .. acked
  BY TheOneAtWork DEF Awaited
<1> QED BY <1>1, <1>2

\* A summary cannot be refused as a second one: there is only one event that carries it.
LEMMA SummaryIsNew ==
    ASSUME HeldInv, AnsweredInv, OneSummary, OrderedInv,
           NEW r \in Requests, Working(txn[r]), "summary" \in CP!TypesIn(txn[r].batch)
    PROVE  ~summary
<1> SUFFICES ASSUME summary PROVE FALSE
  OBVIOUS
<1>1. PICK s \in txn[r].batch : log[s] = "summary"
  BY DEF CP!TypesIn
<1>2. PICK t \in events : log[t] = "summary"
  BY DEF OrderedInv
<1>3. s \notin Delivered /\ t \in Delivered
  BY NewEventsAhead DEF OrderedInv
<1>4. txn[r].batch \in SUBSET (1 .. Len(log)) /\ events \in SUBSET (1 .. Len(log))
  BY DEF HeldInv, RunInv, HandlersInv, RecordInv, Sound, CP!Txns
<1>5. s = t
  BY <1>1, <1>2, <1>4 DEF OneSummary
<1> QED BY <1>3, <1>5

LEMMA ProjectStates ==
    ASSUME DependableInv, NEW r \in Requests, CP!ProjectBatch(r)
    PROVE  \E y, x : Statement(r, y, x)
<1> DEFINE y == txn[r]
           types == CP!TypesIn(y.batch)
           submitted == "summary" \in types
           decision == CP!Verdict(types, summary \/ submitted)
           target == IF decision = CP!None THEN y.target ELSE decision
           quiet == decision = CP!None /\ "heartbeat" \notin types
           stage == IF quiet THEN "committing" ELSE "update"
           x == [y EXCEPT !.sum = submitted, !.target = target, !.stage = stage]
<1>1. /\ Holding(y) /\ r \in CP!Txns /\ y \in CP!TxnRecords
      /\ y.stage = "project" /\ txn \in [CP!Txns -> CP!TxnRecords]
      /\ y.batch \in SUBSET (1 .. Len(log)) /\ log \in Seq(Events)
  BY DEF DependableInv, HeldInv, RunInv, HandlersInv, HoldInv, Sound, CP!Txns, CP!ProjectBatch,
         BridgeInv, TypeOK, BufferTypes
<1>2. /\ txn' = [txn EXCEPT ![r] = x]
      /\ IF quiet THEN CP!Answer(r, "ok") ELSE http' = http
      /\ UNCHANGED <<status, silent, events, summary, launched, lost, ignored>>
  BY <1>1 DEF CP!ProjectBatch, CP!TxnRecords, CP!recordVars, CP!historyVars
<1>3. "heartbeat" \notin types
  BY <1>1 DEF CP!TypesIn, Events
<1>4. EndsIn(y.batch) <=> "finished" \in types \/ "error" \in types
  BY DEF EndsIn, CP!TypesIn
<1>5. /\ "finished" \in types \/ "error" \in types => decision \in {"completed", "failed"}
      /\ ~("finished" \in types \/ "error" \in types) => decision = CP!None
  BY DEF CP!Verdict
<1>6. /\ stage = IF EndsIn(y.batch) THEN "update" ELSE "committing"
      /\ IF EndsIn(y.batch) THEN target \in CP!Terminal ELSE target = y.target
      /\ quiet <=> stage = "committing"
  BY <1>3, <1>4, <1>5 DEF CP!None, CP!Terminal
<1>7. submitted => SumsIn(y.ins)
  <2> SUFFICES ASSUME submitted PROVE SumsIn(y.ins)
    OBVIOUS
  <2>1. PICK s \in y.batch : log[s] = "summary"
    BY DEF CP!TypesIn
  <2>2. s \notin events
    BY <1>1, <2>1, NewEventsAhead DEF DependableInv, OrderedInv, Working
  <2>3. s \in y.ins
    BY <1>1, <2>1, <2>2 DEF Holding
  <2> QED BY <2>1, <2>3 DEF SumsIn
<1>8. y.ins \in SUBSET y.batch
  BY <1>1 DEF Holding
<1> HIDE DEF stage, target, submitted, quiet
<1>9. /\ x.stage = stage /\ x.target = target /\ x.ins = y.ins /\ x.batch = y.batch
      /\ x.row = y.row /\ (x.sum <=> submitted)
  BY <1>1 DEF CP!TxnRecords
<1> HIDE DEF x
<1>10. Projects(y, x)
  BY <1>1, <1>6, <1>7, <1>9 DEF Projects
<1>11. Statement(r, y, x)
  BY <1>2, <1>6, <1>8, <1>9, <1>10 DEF Statement
<1> QED BY <1>11

\* What a handler's statement does when it may neither die nor be refused.
LEMMA HandlerStates ==
    ASSUME DependableInv, ~HandlersMayDie, NEW r \in Requests, CP!ServerStep(r)
    PROVE  \E y, x : Statement(r, y, x)
<1> DEFINE y == txn[r]
<1>1. /\ y \in CP!TxnRecords /\ Holding(y) /\ r \in CP!Txns
      /\ txn \in [CP!Txns -> CP!TxnRecords] /\ StarterInv
      /\ y.ins \in SUBSET y.batch
  BY DEF DependableInv, HeldInv, RunInv, HandlersInv, HoldInv, Holding, CP!Txns
<1>2. ~CP!RejectToken(r) /\ ~CP!RejectSecondSummary(r) /\ ~CP!AbortRequest(r)
  <2>1. ~CP!RejectToken(r)
    BY <1>1 DEF StarterInv, CP!RejectToken
  <2>2. ~CP!RejectSecondSummary(r)
    BY SummaryIsNew DEF CP!RejectSecondSummary, DependableInv, Working
  <2> QED BY <2>1, <2>2 DEF CP!AbortRequest
<1>3. CASE CP!AcceptOpen(r) \/ CP!AcceptClosing(r)
  <2>1. PICK stage \in {"insert", "promote", "close"} :
            /\ txn' = [txn EXCEPT ![r] = [y EXCEPT !.stage = stage]]
            /\ http' = http /\ ignored' = ignored /\ y.stage = "received"
            /\ stage = "insert" => status = "running"
            /\ stage = "promote" => status = "pending"
            /\ stage = "close" => status \in CP!Terminal
            /\ UNCHANGED <<status, silent, events, summary, launched, lost>>
    BY <1>1, <1>3 DEF CP!AcceptOpen, CP!AcceptClosing, CP!historyVars, CP!recordVars, StarterInv,
       CP!Statuses, CP!Terminal, CP!None
  <2> DEFINE x == [y EXCEPT !.stage = stage]
  <2>2. /\ x.stage = stage /\ x.batch = y.batch /\ x.ins = y.ins /\ x.sum = y.sum
        /\ x.row = y.row /\ x.target = y.target
    BY <1>1 DEF CP!TxnRecords
  <2>3. txn' = [txn EXCEPT ![r] = x]
    BY <2>1
  <2> HIDE DEF x
  <2>4. Opens(y, x)
    BY <2>1, <2>2 DEF Opens
  <2>5. Statement(r, y, x)
    BY <1>1, <2>1, <2>2, <2>3, <2>4 DEF Statement
  <2> QED BY <2>5
<1>4. CASE CP!IgnoreTerminal(r)
  <2> DEFINE x == [y EXCEPT !.stage = "committing"]
  <2>1. /\ txn' = [txn EXCEPT ![r] = x] /\ y.stage = "received" /\ CP!Answer(r, "ok")
        /\ status \in CP!Terminal /\ UNCHANGED <<status, silent, events, summary, launched, lost>>
    BY <1>1, <1>4 DEF CP!IgnoreTerminal, CP!TxnRecords, CP!recordVars
  <2>2. /\ x.stage = "committing" /\ x.batch = y.batch /\ x.ins = y.ins /\ x.sum = y.sum
        /\ x.row = y.row /\ x.target = y.target
    BY <1>1 DEF CP!TxnRecords
  <2> HIDE DEF x
  <2>3. Declines(y, x)
    BY <2>1, <2>2 DEF Declines
  <2>4. Statement(r, y, x)
    BY <1>1, <2>1, <2>2, <2>3 DEF Statement
  <2> QED BY <2>4
<1>5. CASE CP!PromoteToRunning(r)
  <2> DEFINE x == [y EXCEPT !.stage = "insert", !.row = TRUE, !.target = "running"]
  <2>1. /\ txn' = [txn EXCEPT ![r] = x] /\ http' = http /\ ignored' = ignored
        /\ y.stage = "promote" /\ CP!RowFree(r)
        /\ UNCHANGED <<status, silent, events, summary, launched, lost>>
    BY <1>1, <1>5 DEF CP!PromoteToRunning, CP!TxnRecords, CP!historyVars, CP!recordVars
  <2>2. /\ x.stage = "insert" /\ x.batch = y.batch /\ x.ins = y.ins /\ x.sum = y.sum
        /\ x.row /\ x.target = "running"
    BY <1>1 DEF CP!TxnRecords
  <2> HIDE DEF x
  <2>3. Promotes(y, x)
    BY <2>1, <2>2 DEF Promotes
  <2>4. Statement(r, y, x)
    BY <1>1, <2>1, <2>2, <2>3 DEF Statement
  <2> QED BY <2>4
<1>6. CASE CP!InsertEvents(r) \/ CP!InsertClosing(r)
  <2>1. PICK stage \in {"project", "committing"} :
            /\ txn' = [txn EXCEPT ![r] = [y EXCEPT !.stage = stage, !.ins = y.batch \ events]]
            /\ IF stage = "committing" THEN CP!Answer(r, "ok") ELSE http' = http
            /\ y.stage = IF stage = "project" THEN "insert" ELSE "close"
            /\ ignored' = ignored
            /\ UNCHANGED <<status, silent, events, summary, launched, lost>>
    BY <1>1, <1>6 DEF CP!InsertEvents, CP!InsertClosing, CP!TxnRecords, CP!historyVars,
       CP!recordVars
  <2> DEFINE x == [y EXCEPT !.stage = stage, !.ins = y.batch \ events]
  <2>2. /\ x.stage = stage /\ x.batch = y.batch /\ x.ins = y.batch \ events /\ x.sum = y.sum
        /\ x.row = y.row /\ x.target = y.target
    BY <1>1 DEF CP!TxnRecords
  <2>3. txn' = [txn EXCEPT ![r] = x]
    BY <2>1
  <2> HIDE DEF x
  <2>4. Inserts(y, x)
    BY <2>1, <2>2 DEF Inserts
  <2>5. x.ins \in SUBSET x.batch
    BY <2>2
  <2>6. Statement(r, y, x)
    BY <2>1, <2>2, <2>3, <2>4, <2>5 DEF Statement
  <2> QED BY <2>6
<1>7. CASE CP!UpdateRecord(r)
  <2> DEFINE x == [y EXCEPT !.stage = "committing", !.row = TRUE]
  <2>1. /\ txn' = [txn EXCEPT ![r] = x] /\ CP!Answer(r, "ok") /\ ignored' = ignored
        /\ y.stage = "update" /\ CP!RowFree(r)
        /\ UNCHANGED <<status, silent, events, summary, launched, lost>>
    BY <1>1, <1>7 DEF CP!UpdateRecord, CP!TxnRecords, CP!historyVars, CP!recordVars
  <2>2. /\ x.stage = "committing" /\ x.batch = y.batch /\ x.ins = y.ins /\ x.sum = y.sum
        /\ x.row /\ x.target = y.target
    BY <1>1 DEF CP!TxnRecords
  <2> HIDE DEF x
  <2>3. Updates(y, x)
    BY <2>1, <2>2 DEF Updates
  <2>4. Statement(r, y, x)
    BY <1>1, <2>1, <2>2, <2>3 DEF Statement
  <2> QED BY <2>4
<1> QED BY <1>2, <1>3, <1>4, <1>5, <1>6, <1>7, ProjectStates DEF CP!ServerStep

\* Before the record runs, the only event there is has just been posted.
LEMMA FirstPosted ==
    ASSUME DependableInv, NEW r \in Requests, txn[r].stage = "promote", CP!RowFree(r),
           status = "pending"
    PROVE  txn[r].batch = {1}
<1>1. Working(txn[r])
  BY DEF Working
<1>2. r = posting /\ txn[r].batch = acked + 1 .. acked + window /\ window > 0
  BY <1>1, TheOneAtWork DEF DependableInv, Awaited
<1>3. /\ acked \in Nat /\ window \in Nat /\ log \in Seq(Events) /\ acked + window <= Len(log)
  BY DEF DependableInv, HeldInv, RunInv, BridgeInv, TypeOK, BufferTypes
<1>4. acked = 0
  <2> SUFFICES ASSUME acked # 0 PROVE FALSE
    OBVIOUS
  <2>1. IsKept(1)
    BY <1>3 DEF DependableInv, HeldInv, DeliveryInv
  <2>2. events = {} /\ ignored = {} /\ lost = {}
    BY DEF DependableInv, DecideInv, FirstInv, StarterInv
  <2>3. PICK u \in Requests : KeptBy(1, u)
    BY <2>1, <2>2 DEF IsKept
  <2>4. txn[u].stage = "committing" /\ txn[u].row
    BY <2>3 DEF KeptBy, DependableInv, DecideInv, FirstInv, FirstOnly
  <2>5. u # r /\ u \in CP!Txns
    BY <2>4 DEF CP!Txns
  <2> QED BY <2>4, <2>5 DEF CP!RowFree
<1>5. Len(log) = 1
  <2>1. log = <<>> \/ log = <<"started">> \/ log = <<"error">>
    BY <1>4 DEF DependableInv, BootInv, Refused
  <2>2. log # <<>>
    BY <1>2, <1>3
  <2> QED BY <2>1, <2>2
<1>6. window = 1
  BY <1>2, <1>3, <1>4, <1>5
<1> QED BY <1>2, <1>4, <1>6

\* An event that ends the run is never the first of a run that goes on.
LEMMA PromoteMeansOpen ==
    ASSUME DependableInv, NEW r \in Requests, Working(txn[r]), status = "pending"
    PROVE  ~Settled
<1> SUFFICES ASSUME NEW u \in Requests, Settling(txn[u]) PROVE FALSE
  BY DEF Settled, CP!Terminal
<1>1. txn[u].batch = {1} /\ EndsIn(txn[u].batch)
  BY DEF Settling, DependableInv, DecideInv, FirstInv, FirstOnly, Deciding
<1>2. Delivered = 1 .. acked /\ window > 0
  BY TheOneAtWork DEF DependableInv
<1>3. /\ acked \in Nat /\ window \in Nat /\ log \in Seq(Events) /\ acked + window <= Len(log)
      /\ Len(log) \in Nat
  BY LogLength DEF DependableInv, HeldInv, RunInv, BridgeInv, TypeOK, BufferTypes
<1>4. 1 \in 1 .. acked
  BY <1>1, <1>2 DEF DependableInv, OrderedInv, Settling
<1>5. log[1] \in {"finished", "error"}
  BY <1>1 DEF EndsIn
<1>6. Len(log) > 1
  BY <1>2, <1>3, <1>4
<1>7. log # <<>> /\ log # <<"error">>
  <2>1. log = <<>> => Len(log) = 0
    OBVIOUS
  <2>2. log = <<"error">> => Len(log) = 1
    OBVIOUS
  <2>3. \A n \in Nat : n > 1 => n # 0 /\ n # 1
    OBVIOUS
  <2> QED BY <1>3, <1>6, <2>1, <2>2, <2>3, Zenon
<1> QED BY <1>5, <1>7 DEF DependableInv, BootInv, Refused

\* The handlers, as far as their own records go.
LEMMA StatementDecides ==
    ASSUME DependableInv, NEW r \in Requests, NEW y, NEW x, Statement(r, y, x)
    PROVE  /\ Deciding(x) /\ (status = "pending" => FirstOnly(x))
           /\ Working(y) /\ x.stage # "idle"
<1>1. /\ Deciding(y) /\ Holding(y) /\ (status = "pending" => FirstOnly(y))
  BY DEF DependableInv, HeldInv, HoldInv, DecideInv, FirstInv, Statement
<1>2. /\ x.batch = y.batch /\ x.ins \in SUBSET x.batch /\ y = txn[r]
      /\ Opens(y, x) \/ Declines(y, x) \/ Inserts(y, x) \/ Projects(y, x)
         \/ ((Promotes(y, x) \/ Updates(y, x)) /\ CP!RowFree(r))
  BY DEF Statement
<1>3. EndsIn(x.ins) => EndsIn(y.batch)
  BY <1>2 DEF EndsIn
<1>4. CASE Opens(y, x)
  <2>1. Deciding(x)
    BY <1>1, <1>4 DEF Opens, Deciding, CP!Terminal, CP!None
  <2>2. status = "pending" => FirstOnly(x)
    BY <1>4 DEF Opens, FirstOnly
  <2> QED BY <1>4, <2>1, <2>2 DEF Opens, Working
<1>5. CASE Declines(y, x)
  <2>1. Deciding(x)
    BY <1>1, <1>5 DEF Declines, Deciding, CP!Terminal, CP!None
  <2>2. status # "pending"
    BY <1>5 DEF Declines, CP!Terminal
  <2> QED BY <1>5, <2>1, <2>2 DEF Declines, Working
<1>6. CASE Inserts(y, x)
  <2>1. Deciding(x)
    BY <1>1, <1>6 DEF Inserts, Deciding, CP!Terminal, CP!None
  <2>2. status = "pending" => FirstOnly(x)
    BY <1>1, <1>2, <1>6 DEF Inserts, FirstOnly, Deciding, CP!Terminal
  <2> QED BY <1>6, <2>1, <2>2 DEF Inserts, Working
<1>7. CASE Projects(y, x)
  <2>1. Deciding(x)
    <3>1. CASE EndsIn(y.batch)
      BY <1>1, <1>2, <1>7, <3>1 DEF Projects, Deciding, CP!Terminal, CP!None
    <3>2. CASE ~EndsIn(y.batch)
      BY <1>1, <1>2, <1>3, <1>7, <3>2 DEF Projects, Deciding, CP!Terminal, CP!None
    <3> QED BY <3>1, <3>2
  <2>2. status = "pending" => FirstOnly(x)
    BY <1>1, <1>2, <1>7 DEF Projects, FirstOnly, CP!Terminal, CP!None
  <2> QED BY <1>7, <2>1, <2>2 DEF Projects, Working
<1>8. CASE Promotes(y, x) /\ CP!RowFree(r)
  <2>1. Deciding(x)
    BY <1>1, <1>8 DEF Promotes, Deciding, CP!Terminal, CP!None
  <2>2. status = "pending" => FirstOnly(x)
    BY <1>2, <1>8, FirstPosted DEF Promotes, FirstOnly, CP!None
  <2> QED BY <1>8, <2>1, <2>2 DEF Promotes, Working
<1>9. CASE Updates(y, x)
  <2>1. Deciding(x)
    BY <1>1, <1>2, <1>9 DEF Updates, Deciding, CP!Terminal, CP!None
  <2>2. status = "pending" => FirstOnly(x)
    BY <1>1, <1>2, <1>9 DEF Updates, FirstOnly
  <2> QED BY <1>9, <2>1, <2>2 DEF Updates, Working
<1> QED BY <1>2, <1>4, <1>5, <1>6, <1>7, <1>8, <1>9

\* A statement leaves the others alone, and a settled record settled.
LEMMA StatementStays ==
    ASSUME DependableInv, NEW r \in Requests, NEW y, NEW x, Statement(r, y, x)
    PROVE  /\ Settled => ~Reopens(x)
           /\ ~Settled /\ Settling(x) => \A u \in Requests \ {r} : ~Reopens(txn[u])
<1>1. /\ Deciding(y) /\ Working(y) /\ y = txn[r] /\ (Settled => ~Reopens(y))
  BY StatementDecides DEF DependableInv, DecideInv, StaysInv, Statement
<1>2. Settled => ~Reopens(x)
  <2> SUFFICES ASSUME Settled PROVE ~Reopens(x)
    OBVIOUS
  <2>1. status # "pending"
    BY <1>1, PromoteMeansOpen
  <2>2. y.stage # "promote" /\ y.target # "running"
    BY <1>1 DEF Reopens
  <2> QED BY <2>1, <2>2 DEF Statement, Opens, Declines, Inserts, Projects, Promotes, Updates,
       Reopens, CP!Terminal
<1>3. ASSUME Settling(x), NEW u \in Requests \ {r} PROVE ~Reopens(txn[u])
  <2>1. CP!RowFree(r)
    BY <1>1, <1>3 DEF Settling, Statement, Opens, Declines, Inserts, Projects, Promotes, Updates,
       Deciding, CP!Terminal, CP!None
  <2>2. ~txn[u].row
    BY <2>1 DEF CP!RowFree, CP!Txns
  <2>3. Deciding(txn[u])
    BY DEF DependableInv, DecideInv
  <2>4. ~Working(txn[u])
    BY <1>1, TheOneAtWork DEF DependableInv
  <2> QED BY <2>2, <2>3, <2>4 DEF Deciding, Reopens, Working
<1> QED BY <1>2, <1>3

LEMMA PastGrows ==
    ASSUME NEW a \in Nat, NEW w \in Nat
    PROVE  /\ 1 .. a \in SUBSET (1 .. a + w) /\ a + 1 .. a + w \in SUBSET (1 .. a + w)
           /\ 1 .. a \in SUBSET (1 .. a)
  OBVIOUS

\* Once nobody is at work any more, the whole window counts as delivered.
LEMMA StatementOrders ==
    ASSUME DependableInv, NEW r \in Requests, NEW y, NEW x, Statement(r, y, x),
           UNCHANGED <<vars, posting>>
    PROVE  /\ Delivered \in SUBSET Delivered'
           /\ x.stage = "committing" => x.batch \in SUBSET Delivered'
<1>1. /\ Working(y) /\ y = txn[r] /\ txn' = [txn EXCEPT ![r] = x] /\ r \in CP!Txns
      /\ txn \in [CP!Txns -> CP!TxnRecords] /\ Requests \in SUBSET CP!Txns /\ x.batch = y.batch
      /\ x.stage # "idle"
  BY StatementDecides DEF Statement, DependableInv, HeldInv, RunInv, HandlersInv, CP!Txns
<1>2. /\ txn[r].batch = acked + 1 .. acked + window /\ Delivered = 1 .. acked
      /\ \A q \in Requests : Working(txn[q]) => q = r
  BY <1>1, TheOneAtWork DEF DependableInv, Awaited
<1>3. acked \in Nat /\ window \in Nat /\ UNCHANGED <<acked, window>>
  BY DEF DependableInv, HeldInv, RunInv, BridgeInv, TypeOK, BufferTypes, vars, bufferVars
<1>4. Delivered' \in {1 .. acked, 1 .. acked + window}
  BY <1>3 DEF Delivered
<1>5. x.stage = "committing" => Delivered' = 1 .. acked + window
  <2> SUFFICES ASSUME x.stage = "committing" PROVE Delivered' = 1 .. acked + window
    OBVIOUS
  <2>1. \A q \in Requests : txn'[q].stage \in {"idle", "committing"}
    BY <1>1, <1>2 DEF Working
  <2> QED BY <1>3, <2>1 DEF Delivered, Working
<1> QED BY <1>1, <1>2, <1>3, <1>4, <1>5, PastGrows

LEMMA HandlerKeepsIt ==
    ASSUME DependableInv, HeldInv', ~HandlersMayDie, NEW r \in Requests, CP!ServerStep(r),
           UNCHANGED <<vars, posting>>
    PROVE  DependableInv'
<1>1. PICK y, x : Statement(r, y, x)
  BY HandlerStates
<1>2. /\ y = txn[r] /\ txn' = [txn EXCEPT ![r] = x] /\ Working(y) /\ Deciding(x)
      /\ (status = "pending" => FirstOnly(x)) /\ x.stage # "idle"
      /\ UNCHANGED <<status, silent, events, summary, launched, lost>>
  BY <1>1, StatementDecides DEF Statement
<1>3. /\ txn \in [CP!Txns -> CP!TxnRecords] /\ Starter \in CP!Txns /\ Sweeper \in CP!Txns
      /\ Requests \in SUBSET CP!Txns
  BY DEF DependableInv, HeldInv, RunInv, HandlersInv, CP!Txns
<1>4. /\ txn'[r] = x /\ txn'[Starter] = txn[Starter] /\ txn'[Sweeper] = txn[Sweeper]
      /\ \A u \in Requests \ {r} : txn'[u] = txn[u]
  BY <1>2, <1>3, RolesDiffer
<1>5. UNCHANGED <<phase, exitCode, log, acked, window, prime, attempt>>
  BY DEF vars, bridgeVars, bufferVars, primeVars
<1>6. BootInv' /\ OneSummary'
  BY <1>5 DEF DependableInv, BootInv, Refused, OneSummary
<1>7. StarterInv'
  <2>1. StarterInv /\ status # CP!None /\ launched
    BY <1>2 DEF DependableInv, StarterInv, Working
  <2> QED BY <1>2, <1>4, <2>1 DEF StarterInv
<1>8. AnsweredInv'
  <2>1. ASSUME NEW q \in Requests
        PROVE  http'[q] # "error" /\ (Working(txn'[q]) => http'[q] = "open")
    <3>1. http[q] # "error" /\ (Working(txn[q]) => http[q] = "open") /\ http[r] = "open"
      BY <1>2 DEF DependableInv, AnsweredInv
    <3>2. CASE x.stage = "committing"
      <4>1. http'[q] = IF q = r /\ http[q] = "open" THEN "ok" ELSE http[q]
        BY <1>1, <3>2 DEF Statement, CP!Answer
      <4> QED BY <1>4, <3>1, <3>2, <4>1 DEF Working
    <3>3. CASE x.stage # "committing"
      BY <1>1, <1>4, <3>1, <3>3 DEF Statement
    <3> QED BY <3>2, <3>3
  <2> QED BY <2>1 DEF AnsweredInv, Working
<1>9. OrderedInv'
  <2>1. /\ Delivered \in SUBSET Delivered'
        /\ x.stage = "committing" => x.batch \in SUBSET Delivered'
    BY <1>1, StatementOrders
  <2>2. \A q \in Requests : txn'[q].stage = "committing" => txn'[q].batch \in SUBSET Delivered'
    BY <1>4, <2>1 DEF DependableInv, OrderedInv
  <2>3. events' \in SUBSET Delivered' /\ (summary' => \E s \in events' : log'[s] = "summary")
    BY <1>2, <1>5, <2>1 DEF DependableInv, OrderedInv
  <2> QED BY <2>2, <2>3 DEF OrderedInv
<1>10. \A z : (Deciding(z)' <=> Deciding(z)) /\ (FirstOnly(z)' <=> FirstOnly(z))
  BY <1>2, <1>5 DEF Deciding, EndsIn, SumsIn, FirstOnly
<1>11. \A q \in Requests : Deciding(txn[q])'
  <2>1. ASSUME NEW q \in Requests, NEW z, z = txn'[q] PROVE Deciding(z)'
    BY <1>2, <1>4, <1>10, <2>1 DEF DependableInv, DecideInv
  <2> QED BY <2>1 DEF Deciding
<1>12. FirstInv'
  <2> SUFFICES ASSUME status = "pending"
               PROVE  events' = {} /\ ignored' = {} /\ \A q \in Requests : FirstOnly(txn'[q])
    BY <1>2 DEF FirstInv, FirstOnly
  <2>1. ignored' = ignored
    BY <1>1 DEF Statement, CP!Terminal
  <2> QED BY <1>2, <1>4, <2>1 DEF DependableInv, DecideInv, FirstInv
<1>13. StaysInv'
  <2> SUFFICES ASSUME Settled' PROVE \A q \in Requests : ~Reopens(txn'[q])
    BY DEF StaysInv, Reopens
  <2>1. Settled \/ Settling(x)
    BY <1>2, <1>4 DEF Settled, Settling
  <2>2. CASE Settled
    BY <1>1, <1>4, <2>2, StatementStays DEF DependableInv, DecideInv, StaysInv
  <2>3. CASE ~Settled /\ Settling(x)
    <3>1. ~Reopens(x)
      BY <2>3 DEF Settling, Reopens, CP!Terminal
    <3> QED BY <1>1, <1>4, <2>3, <3>1, StatementStays
  <2> QED BY <2>1, <2>2, <2>3
<1>14. EndsSettle'
  BY <1>1, <1>2, <1>5 DEF Statement, DependableInv, DecideInv, EndsSettle, EndsIn
<1> QED BY <1>6, <1>7, <1>8, <1>9, <1>11, <1>12, <1>13, <1>14 DEF DependableInv, DecideInv

LEMMA IdleDecides ==
    /\ CP!Idle.stage = "idle" /\ CP!Idle.target = CP!None /\ ~CP!Idle.sum /\ CP!Idle.ins = {}
    /\ ~Working(CP!Idle) /\ Deciding(CP!Idle) /\ FirstOnly(CP!Idle) /\ ~Reopens(CP!Idle)
    /\ ~Settling(CP!Idle)
  BY DEF CP!Idle, Working, Deciding, FirstOnly, Reopens, Settling, CP!None, CP!Terminal

\* The starter's commit opens the record, or closes it when there is no sandbox.
LEMMA StarterCommits ==
    ASSUME DependableInv, HeldInv', CP!Commit(Starter), UNCHANGED <<vars, posting>>
    PROVE  DependableInv'
<1>1. /\ events' = events \cup txn[Starter].ins /\ (summary' <=> summary \/ txn[Starter].sum)
      /\ status' = IF txn[Starter].target = CP!None THEN status ELSE txn[Starter].target
      /\ txn' = [txn EXCEPT ![Starter] = CP!Idle] /\ txn[Starter].stage = "committing"
      /\ UNCHANGED <<launched, ignored, lost, http>> /\ (silent' => silent)
  BY DEF CP!Commit, CP!historyVars
<1>2. /\ txn \in [CP!Txns -> CP!TxnRecords] /\ Starter \in CP!Txns /\ Sweeper \in CP!Txns
      /\ Requests \in SUBSET CP!Txns /\ txn[Starter].ins = {}
  BY DEF DependableInv, HeldInv, HoldInv, RunInv, HandlersInv, CP!Txns
<1>3. /\ txn'[Starter] = CP!Idle /\ txn'[Sweeper] = txn[Sweeper]
      /\ \A r \in Requests : txn'[r] = txn[r]
  BY <1>1, <1>2, RolesDiffer
<1>4. StarterInv /\ status = CP!None
  BY <1>1 DEF DependableInv, StarterInv
<1>5. /\ events' = {} /\ ignored' = {} /\ events = {} /\ (summary' <=> summary)
      /\ \A r \in Requests : txn'[r].stage = "idle"
  BY <1>1, <1>2, <1>3, <1>4 DEF StarterInv
<1>6. status' = IF launched THEN "pending" ELSE "failed"
  BY <1>1, <1>4 DEF StarterInv, CP!None
<1>7. UNCHANGED <<phase, exitCode, log, acked, window, prime, attempt>>
  BY DEF vars, bridgeVars, bufferVars, primeVars
<1>8. BootInv' /\ OneSummary'
  BY <1>7 DEF DependableInv, BootInv, Refused, OneSummary
<1>9. StarterInv'
  BY <1>1, <1>3, <1>4, <1>5, <1>6, IdleDecides DEF StarterInv, CP!None, CP!Terminal
<1>10. AnsweredInv'
  BY <1>1, <1>3 DEF DependableInv, AnsweredInv, Working
<1>11. OrderedInv'
  BY <1>5 DEF DependableInv, OrderedInv
<1>12. ASSUME NEW r \in Requests PROVE Deciding(txn[r])' /\ FirstOnly(txn[r])' /\ ~Reopens(txn[r])'
  <2>1. PICK x : x = txn[r]
    OBVIOUS
  <2>2. Deciding(x) /\ x.stage = "idle" /\ txn'[r] = x
    BY <1>3, <1>5, <2>1 DEF DependableInv, DecideInv
  <2>3. Deciding(x)'
    BY <2>2 DEF Deciding, CP!Terminal, CP!None
  <2>4. FirstOnly(x) /\ ~Reopens(x)
    BY <2>2 DEF FirstOnly, Reopens, Deciding, CP!None
  <2> QED BY <2>2, <2>3, <2>4 DEF Deciding, FirstOnly, Reopens
<1>13. FirstInv' /\ StaysInv' /\ EndsSettle'
  BY <1>5, <1>12 DEF FirstInv, StaysInv, EndsSettle, EndsIn
<1> QED BY <1>8, <1>9, <1>10, <1>11, <1>12, <1>13 DEF DependableInv, DecideInv

\* A handler's commit brings about what it decided, and undoes nothing.
LEMMA HandlerCommits ==
    ASSUME DependableInv, HeldInv', NEW t \in Requests, CP!Commit(t), UNCHANGED <<vars, posting>>
    PROVE  DependableInv'
<1> DEFINE y == txn[t]
<1>1. /\ events' = events \cup y.ins /\ (summary' => summary \/ y.sum)
      /\ status' = IF y.target = CP!None THEN status ELSE y.target
      /\ txn' = [txn EXCEPT ![t] = CP!Idle] /\ y.stage = "committing"
      /\ UNCHANGED <<launched, ignored, lost, http>> /\ (silent' => silent)
  BY DEF CP!Commit, CP!historyVars
<1>2. /\ txn \in [CP!Txns -> CP!TxnRecords] /\ Starter \in CP!Txns /\ Sweeper \in CP!Txns
      /\ Requests \in SUBSET CP!Txns /\ y.ins \in SUBSET y.batch /\ Deciding(y)
      /\ StarterInv
  BY DEF DependableInv, DecideInv, HeldInv, HoldInv, Holding, RunInv, HandlersInv, CP!Txns
<1>3. /\ txn'[Starter] = txn[Starter] /\ txn'[Sweeper] = txn[Sweeper]
      /\ \A r \in Requests : txn'[r] = IF r = t THEN CP!Idle ELSE txn[r]
  BY <1>1, <1>2, RolesDiffer
<1>4. UNCHANGED <<phase, exitCode, log, acked, window, prime, attempt>>
  BY DEF vars, bridgeVars, bufferVars, primeVars
<1>5. BootInv' /\ OneSummary'
  BY <1>4 DEF DependableInv, BootInv, Refused, OneSummary
<1>6. status # CP!None /\ launched /\ status \in {"pending", "running"} \cup CP!Terminal
  BY <1>1, <1>2 DEF StarterInv
<1>7. /\ status' \in {status, "running"} \cup CP!Terminal
      /\ status \in CP!Terminal => status' \in CP!Terminal
      /\ y.target \in CP!Terminal => status' \in CP!Terminal
      /\ status' \in CP!Terminal => Settled
  <2>1. status \in CP!Terminal => y.target # "running"
    BY DEF DependableInv, DecideInv, StaysInv, Settled, Reopens
  <2>2. y.target \in {CP!None, "running"} \cup CP!Terminal
    BY <1>2 DEF Deciding
  <2>3. y.target \in CP!Terminal => Settled
    BY <1>1 DEF Settled, Settling
  <2>4. y.target = CP!None => y.target \notin CP!Terminal /\ status' = status
    BY <1>1 DEF CP!None, CP!Terminal
  <2>5. y.target # CP!None => status' = y.target
    BY <1>1
  <2> QED BY <2>1, <2>2, <2>3, <2>4, <2>5 DEF Settled, CP!Terminal
<1>8. StarterInv'
  <2>1. txn[Starter].stage = "idle"
    BY <1>2, <1>6 DEF StarterInv
  <2>2. status' # CP!None /\ status' \in {CP!None, "pending", "running"} \cup CP!Terminal
    BY <1>6, <1>7 DEF CP!None, CP!Terminal
  <2> QED BY <1>1, <1>2, <1>3, <1>6, <2>1, <2>2 DEF StarterInv
<1>9. AnsweredInv'
  BY <1>1, <1>3, IdleDecides DEF DependableInv, AnsweredInv, Working
<1>10. OrderedInv'
  <2>1. \A r \in Requests : Working(txn[r])' <=> Working(txn[r])
    BY <1>1, <1>3, IdleDecides DEF Working
  <2>2. Delivered' = Delivered
    BY <1>4, <2>1 DEF Delivered
  <2>3. events' \in SUBSET Delivered
    BY <1>1, <1>2 DEF DependableInv, OrderedInv
  <2>4. y.sum => \E s \in y.ins : log[s] = "summary"
    BY <1>2 DEF Deciding, SumsIn
  <2>5. summary' => \E s \in events' : log'[s] = "summary"
    BY <1>1, <1>4, <2>4 DEF DependableInv, OrderedInv
  <2>6. \A r \in Requests : txn'[r].stage = "committing" => txn'[r].batch \in SUBSET Delivered'
    BY <1>3, <2>2, IdleDecides DEF DependableInv, OrderedInv
  <2> QED BY <2>2, <2>3, <2>5, <2>6 DEF OrderedInv
<1>11. \A r \in Requests : Deciding(txn[r])'
  <2>1. ASSUME NEW z, Deciding(z) PROVE Deciding(z)'
    BY <1>4, <1>7, <2>1 DEF Deciding, EndsIn, SumsIn
  <2>2. ASSUME NEW r \in Requests, NEW z, z = txn'[r] PROVE Deciding(z)'
    BY <1>3, <2>1, <2>2, IdleDecides DEF DependableInv, DecideInv
  <2> QED BY <2>2 DEF Deciding
<1>12. FirstInv'
  <2> SUFFICES ASSUME status' = "pending" PROVE FALSE
    BY DEF FirstInv
  <2>1. status = "pending" /\ (y.target = CP!None \/ y.target = "pending")
    BY <1>1, <1>7 DEF CP!Terminal
  <2>2. y.target = CP!None
    BY <1>2, <2>1 DEF Deciding, CP!Terminal
  <2>3. FirstOnly(y)
    BY <2>1 DEF DependableInv, DecideInv, FirstInv
  <2> QED BY <1>1, <2>2, <2>3 DEF FirstOnly
<1>13. StaysInv'
  <2> SUFFICES ASSUME Settled' PROVE \A q \in Requests : ~Reopens(txn'[q])
    BY DEF StaysInv, Reopens
  <2>1. Settled
    BY <1>3, <1>7, IdleDecides DEF Settled, Settling
  <2> QED BY <1>3, <2>1, IdleDecides DEF DependableInv, DecideInv, StaysInv
<1>14. EndsSettle'
  <2>1. EndsIn(events)' => EndsIn(events) \/ EndsIn(y.ins)
    BY <1>1, <1>4 DEF EndsIn
  <2>2. EndsIn(y.ins) => y.target \in CP!Terminal \/ status \in CP!Terminal
    BY <1>1, <1>2 DEF Deciding
  <2> QED BY <1>1, <1>7, <2>1, <2>2 DEF DependableInv, DecideInv, EndsSettle
<1> QED BY <1>5, <1>8, <1>9, <1>10, <1>11, <1>12, <1>13, <1>14 DEF DependableInv, DecideInv

\* The launch is all the starter does besides, and the sweep finds nothing.
LEMMA LaunchKeepsIt ==
    ASSUME DependableInv, HeldInv', CP!LaunchSandbox \/ CP!LaunchFails,
           UNCHANGED <<vars, posting>>
    PROVE  DependableInv'
<1>1. txn \in [CP!Txns -> CP!TxnRecords] /\ Starter \in CP!Txns /\ Sweeper \in CP!Txns
      /\ Requests \in SUBSET CP!Txns /\ StarterInv
  BY DEF DependableInv, HeldInv, RunInv, HandlersInv, CP!Txns
<1>2. UNCHANGED <<status, silent, events, summary, ignored, lost, http>>
  BY DEF CP!LaunchSandbox, CP!LaunchFails, CP!recordVars, CP!historyVars
<1>3. PICK target \in {"pending", "failed"} :
          /\ txn' = [txn EXCEPT ![Starter] =
                        [txn[Starter] EXCEPT !.stage = "committing", !.target = target]]
          /\ txn[Starter].stage = "launch"
          /\ target = IF launched' THEN "pending" ELSE "failed"
  <2>1. ~launched
    BY <1>1 DEF StarterInv, CP!LaunchSandbox, CP!LaunchFails
  <2>2. CASE CP!LaunchSandbox
    <3>1. /\ txn' = [txn EXCEPT ![Starter] =
                        [txn[Starter] EXCEPT !.stage = "committing", !.target = "pending"]]
          /\ txn[Starter].stage = "launch" /\ launched' = TRUE
      BY <1>1, <2>2 DEF CP!LaunchSandbox, CP!TxnRecords
    <3> QED BY <3>1
  <2>3. CASE CP!LaunchFails
    <3>1. /\ txn' = [txn EXCEPT ![Starter] =
                        [txn[Starter] EXCEPT !.stage = "committing", !.target = "failed"]]
          /\ txn[Starter].stage = "launch" /\ launched' = launched
      BY <1>1, <2>3 DEF CP!LaunchFails, CP!TxnRecords
    <3> QED BY <2>1, <3>1
  <2> QED BY <2>2, <2>3
<1> DEFINE x == [txn[Starter] EXCEPT !.stage = "committing", !.target = target]
<1>4. x.stage = "committing" /\ x.target = target /\ x.sum = txn[Starter].sum
  BY <1>1 DEF CP!TxnRecords
<1>5. /\ txn'[Starter] = x /\ txn'[Sweeper] = txn[Sweeper]
      /\ \A r \in Requests : txn'[r] = txn[r]
  BY <1>1, <1>3, RolesDiffer
<1> HIDE DEF x
<1>6. UNCHANGED <<phase, exitCode, log, acked, window, prime, attempt>>
  BY DEF vars, bridgeVars, bufferVars, primeVars
<1>7. BootInv' /\ OneSummary'
  BY <1>6 DEF DependableInv, BootInv, Refused, OneSummary
<1>8. StarterInv'
  <2>1. /\ status = CP!None /\ events = {} /\ ignored = {}
        /\ \A r \in Requests : txn[r].stage = "idle"
    BY <1>1, <1>3 DEF StarterInv
  <2> QED BY <1>1, <1>2, <1>3, <1>4, <1>5, <2>1 DEF StarterInv
<1>9. AnsweredInv' /\ OrderedInv'
  <2>1. Delivered' = Delivered
    BY <1>5, <1>6 DEF Delivered, Working
  <2> QED BY <1>2, <1>5, <1>6, <2>1 DEF DependableInv, AnsweredInv, OrderedInv, Working
<1>10. DecideInv'
  <2>1. \A r \in Requests : Deciding(txn[r])'
    BY <1>2, <1>5, <1>6 DEF DependableInv, DecideInv, Deciding, EndsIn, SumsIn
  <2>2. FirstInv' /\ StaysInv' /\ EndsSettle'
    BY <1>2, <1>5, <1>6 DEF DependableInv, DecideInv, FirstInv, FirstOnly, StaysInv, Settled,
       Settling, Reopens, EndsSettle, EndsIn
  <2> QED BY <2>1, <2>2 DEF DecideInv
<1> QED BY <1>7, <1>8, <1>9, <1>10 DEF DependableInv

LEMMA ControlPlaneKeepsIt ==
    ASSUME DependableInv, HeldInv', Reliable, ~HandlersMayDie, ~CommitMayFail, ControlPlaneStep
    PROVE  DependableInv'
<1>1. CP!ControlPlaneNext /\ UNCHANGED <<vars, posting>> /\ ~silent'
  BY DEF ControlPlaneStep
<1>2. ~CP!SelectStale /\ ~CP!FallSilent /\ ~CP!UpdateRecord(Sweeper)
  BY <1>1 DEF CP!SelectStale, CP!FallSilent, CP!UpdateRecord, DependableInv, StarterInv
<1>3. ASSUME NEW t \in CP!Txns, CP!Commit(t) \/ CP!CommitFails(t) PROVE DependableInv'
  <2>1. CP!Commit(t) /\ t # Sweeper
    BY <1>3 DEF CP!CommitFails, CP!Commit, DependableInv, StarterInv
  <2>2. t = Starter \/ t \in Requests
    BY <2>1 DEF CP!Txns
  <2> QED BY <1>1, <2>1, <2>2, StarterCommits, HandlerCommits
<1>4. ASSUME NEW r \in Requests, CP!ServerStep(r) PROVE DependableInv'
  BY <1>1, <1>4, HandlerKeepsIt
<1> QED BY <1>1, <1>2, <1>3, <1>4, LaunchKeepsIt DEF CP!ControlPlaneNext

\* The bridge's steps: a POST, its answer, or something for the log.
LEMMA BridgeSide ==
    ASSUME DependableInv, Reliable, GraceSuffices,
           \/ \E r \in Requests : BridgePosts(r)
           \/ PostAnswered \/ PostRefused \/ BridgeWindsDown \/ BridgeStep \/ SandboxDies
    PROVE  /\ DependableStep /\ [Next]_vars
           /\ UNCHANGED <<status, silent, events, summary, launched, ignored, lost>>
           /\ \/ \E r \in Requests : BridgePosts(r)
              \/ PostAnswered
              \/ UNCHANGED <<acked, window, txn, http, posting>>
<1>1. ~SandboxDies
  BY DEF SandboxDies
<1>2. ~PostRefused
  <2> SUFFICES ASSUME PostRefused PROVE FALSE
    OBVIOUS
  <2>1. window > 0 /\ http[posting] = "error"
    BY DEF PostRefused, PostFails
  <2>2. posting \in Requests
    BY <2>1 DEF DependableInv, HeldInv, RunInv, PostingInv
  <2> QED BY <2>1, <2>2 DEF DependableInv, AnsweredInv
<1>3. /\ window \in Nat /\ (window > 0 <=> posting # "none")
      /\ http \in [Requests -> {"free", "open", "ok", "error"}]
  BY DEF DependableInv, HeldInv, RunInv, PostingInv, DeliveryInv, BridgeInv, TypeOK, BufferTypes
<1>4. CASE BridgeWindsDown
  <2>1. /\ WindDownEnds /\ Release /\ window = 0 /\ window' = 0 /\ acked' = acked
    BY <1>4 DEF BridgeWindsDown, WindDownEnds
  <2>2. posting = "none" /\ posting \notin Requests
    BY <1>3, <2>1, RunAssumption
  <2>3. http' = http
    BY <1>3, <2>1, <2>2 DEF Release
  <2> QED BY <2>1, <2>2, <2>3 DEF Release, recordVars, Next, RunNext, DependableStep
<1>5. CASE BridgeStep
  <2>1. UNCHANGED <<serverVars, posting>>
        /\ (PrimeNext \/ EventNext \/ WatchdogNext \/ (phase # "winddown" /\ RunNext))
    BY <1>5 DEF BridgeStep
  <2>2. UNCHANGED <<acked, window>>
    BY <2>1 DEF PrimeNext, PrimeReads, PrimeWrites, PrimeDies,
     EventNext, ReadLine, ReadEOF, CallMutates, CallSubmits, RelayPrompt, WatchdogNext,
     CutoffPasses, WatchdogFires, RecoveryExpires, RunNext, GatewayStarts, Spawn, StartFails,
     Raise, LoopRaises, RaceEnds, WindDownEnds, BackoffEnds, Close, FlushDone, bufferVars
  <2> QED BY <2>1, <2>2 DEF serverVars, recordVars, Next, DependableStep
<1>6. CASE \E r \in Requests : BridgePosts(r)
  BY <1>6 DEF BridgePosts, CP!Receive, CP!recordVars, CP!historyVars, Next, DependableStep
<1>7. CASE PostAnswered
  BY <1>7 DEF PostAnswered, Release, recordVars, Next, DependableStep
<1> QED BY <1>1, <1>2, <1>4, <1>5, <1>6, <1>7

\* What the log says of the events it has, it goes on saying.
LEMMA LogKeeps ==
    ASSUME DependableInv, [Next]_vars
    PROVE  /\ \A S \in SUBSET (1 .. Len(log)) : (EndsIn(S)' <=> EndsIn(S)) /\ (SumsIn(S)' <=> SumsIn(S))
           /\ \A r \in Requests : /\ txn[r].ins \in SUBSET (1 .. Len(log))
                                  /\ txn[r].batch \in SUBSET (1 .. Len(log))
           /\ events \in SUBSET (1 .. Len(log))
<1>1. TypeOK /\ log \in Seq(Events)
  BY DEF DependableInv, HeldInv, RunInv, BridgeInv, TypeOK, BufferTypes
<1>2. \A s \in 1 .. Len(log) : log'[s] = log[s]
  BY <1>1, LogSteps, BufferGrows DEF LogStep
<1>3. \A S \in SUBSET (1 .. Len(log)) : (EndsIn(S)' <=> EndsIn(S)) /\ (SumsIn(S)' <=> SumsIn(S))
  BY <1>2 DEF EndsIn, SumsIn
<1> QED BY <1>3 DEF DependableInv, HeldInv, RunInv, RecordInv, HandlersInv, Sound, CP!Txns

\* A handler that has not moved decides as before.
LEMMA DecidingStays ==
    ASSUME DependableInv, [Next]_vars, status' = status,
           NEW r \in Requests, NEW x, x = txn[r]
    PROVE  Deciding(x)'
<1>1. Deciding(x) /\ (EndsIn(x.ins)' <=> EndsIn(x.ins)) /\ (SumsIn(x.ins)' <=> SumsIn(x.ins))
      /\ (EndsIn(x.batch)' <=> EndsIn(x.batch))
  BY LogKeeps DEF DependableInv, DecideInv
<1> QED BY <1>1 DEF Deciding

LEMMA BridgeKeepsIt ==
    ASSUME DependableInv, HeldInv', Reliable, GraceSuffices,
           \/ \E r \in Requests : BridgePosts(r)
           \/ PostAnswered \/ PostRefused \/ BridgeWindsDown \/ BridgeStep \/ SandboxDies
    PROVE  DependableInv'
<1>1. /\ DependableStep /\ [Next]_vars
      /\ UNCHANGED <<status, silent, events, summary, launched, ignored, lost>>
  BY BridgeSide
<1>2. /\ txn \in [CP!Txns -> CP!TxnRecords] /\ Starter \in CP!Txns /\ Sweeper \in CP!Txns
      /\ Requests \in SUBSET CP!Txns /\ TypeOK /\ SummaryRemembered
      /\ acked \in Nat /\ window \in Nat /\ (window > 0 <=> posting # "none")
      /\ http \in [Requests -> {"free", "open", "ok", "error"}]
      /\ \A r \in Requests : r # posting => http[r] = "free"
  BY DEF DependableInv, HeldInv, RunInv, HandlersInv, BridgeInv, CP!Txns, PostingInv, DeliveryInv,
         TypeOK, BufferTypes
<1>3. BootInv' /\ OneSummary'
  BY <1>1, <1>2, BootNext, OneSummaryNext DEF DependableInv
<1>4. EndsSettle' /\ (summary' => \E s \in events' : log'[s] = "summary")
  <2>1. PICK S : S = events
    OBVIOUS
  <2>2. (EndsIn(S)' <=> EndsIn(S)) /\ (SumsIn(S)' <=> SumsIn(S))
    BY <1>1, <2>1, LogKeeps
  <2>3. (EndsIn(events)' <=> EndsIn(events)) /\ (SumsIn(events)' <=> SumsIn(events))
    BY <1>1, <2>1, <2>2 DEF EndsIn, SumsIn
  <2> QED BY <1>1, <2>3 DEF DependableInv, DecideInv, EndsSettle, OrderedInv, SumsIn
<1>5. ASSUME UNCHANGED txn, \A r \in Requests : Working(txn[r]) => http'[r] = http[r],
             \A r \in Requests : http'[r] # "error", Delivered' = Delivered
      PROVE  DependableInv'
  <2>1. StarterInv'
    BY <1>1, <1>5 DEF DependableInv, StarterInv
  <2>2. AnsweredInv'
    BY <1>5 DEF DependableInv, AnsweredInv, Working
  <2>3. OrderedInv'
    BY <1>1, <1>4, <1>5 DEF DependableInv, OrderedInv
  <2>4. \A r \in Requests : Deciding(txn[r])'
    <3>1. ASSUME NEW r \in Requests, NEW x, x = txn[r] PROVE Deciding(x)'
      BY <1>1, <3>1, DecidingStays
    <3> QED BY <1>5, <3>1 DEF Deciding
  <2>5. FirstInv' /\ StaysInv'
    BY <1>1, <1>5 DEF DependableInv, DecideInv, FirstInv, FirstOnly, StaysInv, Settled, Settling,
       Reopens
  <2> QED BY <1>3, <1>4, <2>1, <2>2, <2>3, <2>4, <2>5 DEF DependableInv, DecideInv
<1>6. CASE UNCHANGED <<acked, window, txn, http, posting>>
  <2>1. Delivered' = Delivered
    BY <1>6 DEF Delivered, Working
  <2> QED BY <1>5, <1>6, <2>1 DEF DependableInv, AnsweredInv
<1>7. CASE PostAnswered
  <2>1. /\ http[posting] = "ok" /\ window > 0 /\ window' = 0 /\ acked' = acked + window
        /\ http' = [r \in Requests |-> IF r = posting THEN "free" ELSE http[r]]
        /\ UNCHANGED txn
    BY <1>7 DEF PostAnswered, PostSucceeds, Release
  <2>2. \A r \in Requests : ~Working(txn[r])
    BY <2>1, TheOneAtWork DEF DependableInv
  <2>3. \A r \in Requests : ~Working(txn'[r])
    BY <2>1, <2>2
  <2>4. acked' + window' = acked + window
    BY <1>2, <2>1
  <2>5. Delivered' = Delivered
    BY <2>2, <2>3, <2>4 DEF Delivered, Working
  <2>6. \A r \in Requests : http'[r] # "error"
    BY <2>1 DEF DependableInv, AnsweredInv
  <2> QED BY <1>5, <2>1, <2>2, <2>5, <2>6
<1>8. ASSUME NEW r \in Requests, BridgePosts(r) PROVE DependableInv'
  <2> DEFINE batch == acked + 1 .. acked + window'
             x == [txn[r] EXCEPT !.stage = "received", !.batch = batch]
  <2>1. /\ txn' = [txn EXCEPT ![r] = x] /\ txn[r].stage = "idle" /\ launched /\ status # CP!None
        /\ http' = [http EXCEPT ![r] = "open"] /\ posting' = r /\ window = 0 /\ acked' = acked
    BY <1>2, <1>8 DEF BridgePosts, CP!Receive, CP!TxnRecords, PostBatch, ForcedPost, LoopPost
  <2>2. /\ x.stage = "received" /\ x.ins = txn[r].ins /\ x.target = txn[r].target
        /\ x.sum = txn[r].sum /\ x.row = txn[r].row
    BY <1>2 DEF CP!TxnRecords
  <2>3. /\ txn'[r] = x /\ \A q \in Requests \ {r} : txn'[q] = txn[q]
        /\ txn'[Starter] = txn[Starter] /\ txn'[Sweeper] = txn[Sweeper]
    BY <1>2, <2>1, RolesDiffer
  <2> HIDE DEF x
  <2>4. Deciding(txn[r]) /\ Holding(txn[r])
    BY DEF DependableInv, DecideInv, HeldInv, HoldInv
  <2>5. x.ins = {} /\ x.target = CP!None /\ ~x.sum
    BY <2>1, <2>2, <2>4 DEF Deciding, Holding
  <2>6. PICK z : z = x
    OBVIOUS
  <2>7. Deciding(z)' /\ FirstOnly(z) /\ ~Reopens(z) /\ ~Settling(z)
    BY <2>2, <2>5, <2>6 DEF Deciding, FirstOnly, Reopens, Settling, EndsIn, SumsIn, CP!None, CP!Terminal
  <2>8. StarterInv'
    BY <1>1, <2>1, <2>3 DEF DependableInv, StarterInv
  <2>9. \A q \in Requests : ~Working(txn[q])
    BY <1>2, <2>1, TheOneAtWork DEF DependableInv
  <2>10. AnsweredInv'
    BY <1>2, <2>1, <2>3, <2>9 DEF DependableInv, AnsweredInv, Working
  <2>11. OrderedInv'
    <3>1. Delivered = 1 .. acked + window
      BY <2>9 DEF Delivered
    <3>2. acked + window = acked
      BY <1>2, <2>1
    <3>3. Delivered' = 1 .. acked
      BY <2>1, <2>2, <2>3 DEF Delivered, Working
    <3>4. \A q \in Requests : txn'[q].stage = "committing" => txn'[q].batch \in SUBSET Delivered'
      BY <2>2, <2>3, <3>1, <3>2, <3>3 DEF DependableInv, OrderedInv
    <3>5. events' \in SUBSET Delivered'
      BY <1>1, <3>1, <3>2, <3>3 DEF DependableInv, OrderedInv
    <3> QED BY <1>4, <3>4, <3>5 DEF OrderedInv
  <2>12. \A q \in Requests : Deciding(txn[q])'
    <3>1. ASSUME NEW q \in Requests, NEW w, w = txn'[q] PROVE Deciding(w)'
      <4>1. CASE q = r
        BY <2>3, <2>6, <2>7, <3>1, <4>1
      <4>2. CASE q # r
        BY <1>1, <2>3, <3>1, <4>2, DecidingStays
      <4> QED BY <4>1, <4>2
    <3> QED BY <3>1 DEF Deciding
  <2>13. FirstInv'
    BY <1>1, <2>3, <2>6, <2>7 DEF DependableInv, DecideInv, FirstInv, FirstOnly
  <2>14. StaysInv'
    <3>1. Settled' => Settled
      BY <1>1, <2>3, <2>6, <2>7 DEF Settled, Settling
    <3> QED BY <2>3, <2>6, <2>7, <3>1 DEF DependableInv, DecideInv, StaysInv, Reopens
  <2> QED BY <1>3, <1>4, <2>8, <2>10, <2>11, <2>12, <2>13, <2>14 DEF DependableInv, DecideInv
<1> QED BY <1>6, <1>7, <1>8, BridgeSide

LEMMA DependableNext ==
    ASSUME Reliable, GraceSuffices, ~HandlersMayDie, ~CommitMayFail
    PROVE  DependableInv /\ [RunStep]_runVars => DependableInv'
<1> SUFFICES ASSUME DependableInv, [RunStep]_runVars PROVE DependableInv'
  OBVIOUS
<1>1. HeldInv'
  BY HeldNext DEF DependableInv
<1>2. CASE UNCHANGED runVars
  <2>1. /\ UNCHANGED <<phase, exitCode, log, acked, window, prime, attempt>>
        /\ UNCHANGED <<status, silent, events, summary, launched, ignored, lost, txn, http, posting>>
    BY <1>2 DEF runVars, serverVars, recordVars, vars, bridgeVars, bufferVars, primeVars
  <2>2. BootInv' /\ OneSummary' /\ StarterInv' /\ AnsweredInv'
    BY <2>1 DEF DependableInv, BootInv, Refused, OneSummary, StarterInv, AnsweredInv, Working
  <2>3. OrderedInv'
    BY <2>1 DEF DependableInv, OrderedInv, Delivered, Working
  <2>4. DecideInv'
    BY <2>1 DEF DependableInv, DecideInv, Deciding, FirstInv, FirstOnly, StaysInv, Settled,
       Settling, Reopens, EndsSettle, EndsIn, SumsIn
  <2> QED BY <1>1, <2>2, <2>3, <2>4 DEF DependableInv
<1>3. CASE ControlPlaneStep
  BY <1>1, <1>3, ControlPlaneKeepsIt
<1>4. CASE RunStep /\ ~ControlPlaneStep
  BY <1>1, <1>4, BridgeKeepsIt DEF RunStep
<1> QED BY <1>2, <1>3, <1>4

LEMMA DependableInit == RunInit => DependableInv
<1> SUFFICES ASSUME RunInit PROVE DependableInv
  OBVIOUS
<1>1. HeldInv /\ CP!InitControlPlane /\ Init
  BY HeldInit DEF RunInit
<1>2. /\ txn = [t \in CP!Txns |-> IF t = Starter THEN [CP!Idle EXCEPT !.stage = "launch"]
                                                 ELSE CP!Idle]
      /\ http = [r \in Requests |-> "free"]
      /\ status = CP!None /\ silent = FALSE /\ events = {} /\ summary = FALSE
      /\ launched = FALSE /\ ignored = {} /\ lost = {}
  BY <1>1 DEF CP!InitControlPlane
<1>3. phase = "gateway" /\ log = <<>> /\ acked = 0 /\ prime = "none" /\ exitCode = 2
  BY <1>1 DEF Init
<1>4. /\ \A r \in Requests : txn[r] = CP!Idle
      /\ txn[Sweeper] = CP!Idle /\ txn[Starter] = [CP!Idle EXCEPT !.stage = "launch"]
  BY <1>2, RolesDiffer DEF CP!Txns
<1>5. txn[Starter].stage = "launch" /\ ~txn[Starter].sum
  BY <1>4 DEF CP!Idle
<1>6. BootInv
  BY <1>3 DEF BootInv
<1>7. OneSummary
  BY <1>3 DEF OneSummary
<1>8. StarterInv
  BY <1>2, <1>4, <1>5, IdleDecides DEF StarterInv
<1>9. AnsweredInv /\ OrderedInv
  BY <1>2, <1>4, IdleDecides DEF AnsweredInv, OrderedInv
<1>10. DecideInv
  BY <1>2, <1>4, IdleDecides DEF DecideInv, FirstInv, StaysInv, EndsSettle, EndsIn
<1> QED BY <1>1, <1>6, <1>7, <1>8, <1>9, <1>10 DEF DependableInv

\* At rest the bridge has said how it ended, and the control plane has heard it.
LEMMA RestIsSettled ==
    ASSUME DependableInv, AtRest \/ (status # CP!None /\ ~launched)
    PROVE  status \in CP!Terminal
<1>1. StarterInv
  BY DEF DependableInv
<1>2. CASE ~launched
  <2>1. status # CP!None
    BY <1>1 DEF AtRest, StarterInv, CP!Txns
  <2> QED BY <1>1, <1>2, <2>1 DEF StarterInv, CP!Terminal
<1>3. CASE launched
  <2>1. phase = "exited" /\ \A t \in CP!Txns : txn[t].stage = "idle"
    BY <1>3 DEF AtRest
  <2>2. acked = Len(log) /\ exitCode \in {0, 1}
    BY <2>1 DEF DependableInv, BootInv
  <2>3. PICK s \in 1 .. acked : log[s] \in {"finished", "error"}
    BY <2>2 DEF DependableInv, HeldInv, RunInv, BridgeInv, ExitsAreRecorded, Evidence, Recorded
  <2>4. IsKept(s) /\ \A r \in Requests : ~KeptBy(s, r)
    BY <2>1 DEF DependableInv, HeldInv, DeliveryInv, KeptBy, CP!Txns
  <2>5. s \in events \/ s \in ignored
    BY <1>1, <2>4 DEF IsKept, StarterInv
  <2>6. EndsIn(events) \/ ignored # {}
    BY <2>3, <2>5 DEF EndsIn
  <2> QED BY <2>6 DEF DependableInv, DecideInv, EndsSettle
<1> QED BY <1>2, <1>3 DEF DependableInv, StarterInv

\* Only a commit changes the record, and none of a settled one.
LEMMA SettledLasts ==
    ASSUME DependableInv, DependableInv', [RunStep]_runVars, status \in CP!Terminal
    PROVE  status' \in CP!Terminal
<1>1. CASE UNCHANGED status
  BY <1>1
<1>2. ASSUME NEW t \in CP!Txns, CP!Commit(t) PROVE status' \in CP!Terminal
  <2>1. /\ status' = IF txn[t].target = CP!None THEN status ELSE txn[t].target
        /\ txn[t].stage = "committing"
    BY <1>2 DEF CP!Commit
  <2>2. t \in Requests
    BY <2>1 DEF CP!Txns, DependableInv, StarterInv, CP!Terminal, CP!None
  <2>3. Deciding(txn[t]) /\ txn[t].target # "running"
    BY <2>2 DEF DependableInv, DecideInv, StaysInv, Settled, Reopens
  <2> QED BY <2>1, <2>3 DEF Deciding
<1>3. status' # status => \E t \in CP!Txns : CP!Commit(t)
  <2> USE DEF CP!recordVars, recordVars, serverVars
  <2>1. CASE ControlPlaneStep
    BY <2>1 DEF ControlPlaneStep, CP!ControlPlaneNext, CP!LaunchSandbox, CP!LaunchFails,
       CP!SelectStale, CP!FallSilent, CP!UpdateRecord, CP!CommitFails, CP!ServerStep,
       CP!RejectToken, CP!AcceptOpen, CP!AcceptClosing, CP!IgnoreTerminal, CP!PromoteToRunning,
       CP!InsertEvents, CP!InsertClosing, CP!ProjectBatch, CP!RejectSecondSummary,
       CP!AbortRequest, CP!Fail
  <2>2. CASE ~ControlPlaneStep
    BY <2>2 DEF RunStep, runVars, BridgePosts, CP!Receive, PostAnswered, PostRefused,
       BridgeWindsDown, BridgeStep, SandboxDies, Release
  <2> QED BY <2>1, <2>2
<1> QED BY <1>1, <1>2, <1>3

\* The safety half of EveryRunSettles, for any log, batch size, number of retries and of handlers
\* that overlap: with a network and handlers that answer, a grace period that suffices and
\* commits that succeed, nothing is left open once nobody is at work, and a settled record
\* stays settled.
THEOREM RunsSettle ==
    ASSUME Reliable, GraceSuffices, ~HandlersMayDie, ~CommitMayFail
    PROVE  RunSpec => SettlesForGood
<1>1. DependableInv /\ [RunStep]_runVars => DependableInv'
  BY DependableNext
<1>2. RunSpec => []DependableInv
  BY <1>1, DependableInit, PTL DEF RunSpec
<1>3. DependableInv => (AtRest \/ (status # CP!None /\ ~launched) => status \in CP!Terminal)
  BY RestIsSettled
<1>4. DependableInv /\ DependableInv' /\ [RunStep]_runVars
      => [(status \in CP!Terminal) => (status' \in CP!Terminal)]_runVars
  BY SettledLasts
<1> QED BY <1>2, <1>3, <1>4, PTL DEF RunSpec, SettlesForGood

=============================================================================
