------------------------- MODULE ExperimentOperator -------------------------
(***************************************************************************)
(* The synchronous execution of support experiments.  A worker is one      *)
(* start request; what it does between two commits is one action.  It      *)
(* holds an advisory lock on a connection of its own while it executes and *)
(* persists every boundary in a transaction of its own.  Cancel requests   *)
(* and other workers come in between.                                      *)
(*                                                                         *)
(* A transaction that changes one record takes effect at its commit: until *)
(* then writers of the row wait for it, and readers see the old row.       *)
(***************************************************************************)
EXTENDS Naturals, FiniteSets

CONSTANTS Experiments, Workers, None,
          Planned,      \* iterations of an experiment's plan
          DbMayFail,    \* a transaction may fail, or succeed without an answer
          WorkersMayDie,
          LockMayDrop   \* the connection that holds the operator lock may be lost

ASSUME OperatorAssumption ==
    /\ Planned \in Nat \ {0}
    /\ None \notin Workers
    /\ {DbMayFail, WorkersMayDie, LockMayDrop} \subseteq BOOLEAN

Statuses == {"pending", "running", "completed", "failed", "cancelled"}
Terminal == {"completed", "failed", "cancelled"}
Kinds    == {"plan_created", "iteration_started", "iteration_completed",
             "iteration_failed", "limit_reached", "experiment_completed",
             "experiment_failed"}

VARIABLES
    \* committed rows
    status,     \* of each experiment's record
    owner,      \* its execution_id: the worker that was admitted
    events,     \* its events, [seq, kind]
    outcomes,   \* of its iterations, "none" without a row
    results,    \* the experiments with a result row
    \* processes
    worker,     \* the start requests
    lock,       \* the worker whose connection holds the operator lock
    canceller,  \* the cancel request, and the answer to the last one
    \* history
    calls,      \* model calls begun for each iteration
    dropped     \* the workers that lost the operator lock and go on

rowVars == <<status, owner, events, outcomes, results>>
history == <<calls, dropped>>
vars    == <<rowVars, worker, lock, canceller, history>>

Idle == [pc |-> "idle", exp |-> None, seq |-> 0, pos |-> 0, allOk |-> TRUE, last |-> "none"]

Init ==
    /\ status   = [e \in Experiments |-> "pending"]
    /\ owner    = [e \in Experiments |-> None]
    /\ events   = [e \in Experiments |-> {}]
    /\ outcomes = [e \in Experiments |-> [i \in 1 .. Planned |-> "none"]]
    /\ results  = {}
    /\ worker   = [w \in Workers |-> Idle]
    /\ lock = None
    /\ canceller = [exp |-> None, at |-> "idle"]
    /\ calls = [e \in Experiments |-> [i \in 1 .. Planned |-> 0]]
    /\ dropped = {}

At(w, pc) == worker[w].pc = pc
Exp(w)    == worker[w].exp
Goto(w, pc) == worker' = [worker EXCEPT ![w].pc = pc]

\* _lock_running_attempt: the row, locked, is still this worker's running attempt.
Owns(w) == status[Exp(w)] = "running" /\ owner[Exp(w)] = w

-----------------------------------------------------------------------------
(* start(): preparation, the operator lock, reconciliation, admission.      *)

\* A preparation that is refused changes nothing.
Prepare(w, e) ==
    /\ At(w, "idle") /\ status[e] = "pending"
    /\ worker' = [worker EXCEPT ![w] = [Idle EXCEPT !.pc = "lock", !.exp = e]]
    /\ UNCHANGED <<rowVars, lock, canceller, history>>

\* Mutant: the result of pg_try_advisory_lock is ignored.
AcquireLockAlways(w) ==
    /\ At(w, "lock")
    /\ lock' = (IF lock = None THEN w ELSE lock) /\ Goto(w, "reconcile")
    /\ UNCHANGED <<rowVars, canceller, history>>

AcquireLock(w) ==
    /\ At(w, "lock")
    /\ IF lock = None THEN lock' = w /\ Goto(w, "reconcile")
                      ELSE lock' = lock /\ worker' = [worker EXCEPT ![w] = Idle]
    /\ UNCHANGED <<rowVars, canceller, history>>

Reconcile(w) ==
    /\ At(w, "reconcile")
    /\ status' = [e \in Experiments |-> IF status[e] = "running" THEN "failed" ELSE status[e]]
    /\ Goto(w, "admit")
    /\ UNCHANGED <<owner, events, outcomes, results, lock, canceller, history>>

\* Mutant: admission does not look for a running experiment.
AdmissionReadUnchecked(w) ==
    /\ At(w, "admit") /\ \A v \in Workers : ~At(v, "admitting")
    /\ IF status[Exp(w)] = "pending" /\ owner[Exp(w)] = None
       THEN Goto(w, "admitting") ELSE Goto(w, "failing")
    /\ UNCHANGED <<rowVars, lock, canceller, history>>

\* Under the admission lock, which the transaction holds until it ends.
AdmissionRead(w) ==
    /\ At(w, "admit") /\ \A v \in Workers : ~At(v, "admitting")
    /\ IF /\ status[Exp(w)] = "pending" /\ owner[Exp(w)] = None
          /\ \A e \in Experiments : status[e] # "running"
       THEN Goto(w, "admitting") ELSE Goto(w, "failing")
    /\ UNCHANGED <<rowVars, lock, canceller, history>>

AdmissionUpdate(w) ==
    LET e == Exp(w) IN
    /\ At(w, "admitting")
    /\ \/ /\ status[e] = "pending" /\ owner[e] = None
          /\ status' = [status EXCEPT ![e] = "running"]
          /\ owner' = [owner EXCEPT ![e] = w]
          /\ Goto(w, "plan") \/ (DbMayFail /\ Goto(w, "failing"))
       \/ /\ status[e] # "pending" \/ DbMayFail
          /\ Goto(w, "failing")
          /\ UNCHANGED <<status, owner>>
    /\ UNCHANGED <<events, outcomes, results, lock, canceller, history>>

-----------------------------------------------------------------------------
(* _execute_incrementally()                                                 *)

\* Mutant: an event is inserted without _lock_running_attempt.
FitsUnowned(w) == \A ev \in events[Exp(w)] : ev.seq # worker[w].seq + 1

Fits(w) == Owns(w) /\ \A ev \in events[Exp(w)] : ev.seq # worker[w].seq + 1

Inserted(w, kind) ==
    events' = [events EXCEPT ![Exp(w)] = @ \cup {[seq |-> worker[w].seq + 1, kind |-> kind]}]

Moves(w, pc) == worker' = [worker EXCEPT ![w].pc = pc, ![w].seq = @ + 1]

\* A transaction raises: it was refused or failed, or its answer was lost.
Raises(w) == Goto(w, "failing")

\* persist_event, and the step to what follows it.
Persist(w, kind, next) ==
    /\ \/ Fits(w) /\ Inserted(w, kind) /\ (Moves(w, next) \/ (DbMayFail /\ Raises(w)))
       \/ (~Fits(w) \/ DbMayFail) /\ UNCHANGED events /\ Raises(w)
    /\ UNCHANGED <<status, owner, outcomes, results, lock, canceller, dropped>>

PlanCreated(w) ==
    At(w, "plan") /\ Persist(w, "plan_created", "next") /\ UNCHANGED calls

\* Mutant: one iteration too many.
IterationStartedPastPlan(w) ==
    LET e == Exp(w)  i == worker[w].pos + 1 IN
    /\ At(w, "next") /\ i <= Planned + 1 /\ worker[w].allOk
    /\ Persist(w, "iteration_started", "call") /\ UNCHANGED calls

IterationStarted(w) ==
    LET e == Exp(w)  i == worker[w].pos + 1 IN
    /\ At(w, "next") /\ i <= Planned
    /\ Persist(w, "iteration_started", "call")
    /\ calls' = IF At(w, "call")' THEN [calls EXCEPT ![e][i] = @ + 1] ELSE calls

\* The runner's evidence, its failure, or the end of the total duration.
CallReturns(w) ==
    /\ At(w, "call")
    /\ \E r \in {"completed", "failed", "expired"} :
          worker' = [worker EXCEPT ![w].pc = "record", ![w].last = r]
    /\ UNCHANGED <<rowVars, lock, canceller, history>>

EventOf(result) == IF result = "completed" THEN "iteration_completed" ELSE "iteration_failed"

\* Mutant: the outcome is committed before its event.
IterationRecordedTwoSteps(w) ==
    LET e == Exp(w)  i == worker[w].pos + 1
        ok == worker[w].last = "completed"
    IN
    /\ At(w, "record") /\ Fits(w)
    /\ outcomes' = [outcomes EXCEPT ![e][i] = IF ok THEN "completed" ELSE "failed"]
    /\ UNCHANGED events /\ Raises(w)
    /\ UNCHANGED <<status, owner, results, lock, canceller, history>>

\* _record_iteration: the outcome and its event in one transaction.
IterationRecorded(w) ==
    LET e == Exp(w)  i == worker[w].pos + 1
        ok == worker[w].last = "completed"
        Proceeds == worker' = [worker EXCEPT
            ![w].pc = IF worker[w].last = "expired" THEN "limit" ELSE "next",
            ![w].seq = @ + 1, ![w].pos = i, ![w].allOk = @ /\ ok, ![w].last = "none"]
    IN
    /\ At(w, "record")
    /\ \/ /\ Fits(w)
          /\ outcomes' = [outcomes EXCEPT ![e][i] = IF ok THEN "completed" ELSE "failed"]
          /\ Inserted(w, EventOf(IF ok THEN "completed" ELSE "failed"))
          /\ Proceeds \/ (DbMayFail /\ Raises(w))
       \/ (~Fits(w) \/ DbMayFail) /\ UNCHANGED <<outcomes, events>> /\ Raises(w)
    /\ UNCHANGED <<status, owner, results, lock, canceller, history>>

DeadlinePasses(w) ==
    /\ At(w, "next") /\ worker[w].pos < Planned
    /\ Goto(w, "limit")
    /\ UNCHANGED <<rowVars, lock, canceller, history>>

LimitReached(w) ==
    At(w, "limit") /\ Persist(w, "limit_reached", "expire") /\ UNCHANGED calls

\* EXPERIMENT_FAILED of the deadline; its handler fails the record and returns.
DeadlineFailed(w) ==
    At(w, "expire") /\ Persist(w, "experiment_failed", "expired") /\ UNCHANGED calls

IterationsFailed(w) ==
    /\ At(w, "next") /\ worker[w].pos = Planned /\ ~worker[w].allOk
    /\ Persist(w, "experiment_failed", "fail") /\ UNCHANGED calls

-----------------------------------------------------------------------------
(* The end of _run_prepared_execution()                                     *)

\* The assembled result differs from the plan: the record is failed.
IntegrityFails(w) ==
    /\ At(w, "next") /\ worker[w].pos = Planned /\ worker[w].allOk
    /\ Goto(w, "fail")
    /\ UNCHANGED <<rowVars, lock, canceller, history>>

\* Mutant: the result is committed before the status.
PublishTwoSteps(w) ==
    LET e == Exp(w) IN
    /\ At(w, "next") /\ worker[w].pos = Planned /\ worker[w].allOk
    /\ Fits(w) /\ Inserted(w, "experiment_completed")
    /\ results' = results \cup {e} /\ Raises(w)
    /\ UNCHANGED <<status, owner, outcomes, lock, canceller, history>>

\* publish_result: every planned outcome is there, then event, result and status.
Publish(w) ==
    LET e == Exp(w)
        ready == /\ Fits(w) /\ \A i \in 1 .. Planned : outcomes[e][i] = "completed"
                 /\ e \notin results
    IN
    /\ At(w, "next") /\ worker[w].pos = Planned /\ worker[w].allOk
    /\ \/ /\ ready
          /\ Inserted(w, "experiment_completed")
          /\ results' = results \cup {e}
          /\ status' = [status EXCEPT ![e] = "completed"]
          /\ Moves(w, "done") \/ (DbMayFail /\ Raises(w))
       \/ (~ready \/ DbMayFail) /\ UNCHANGED <<events, results, status>> /\ Raises(w)
    /\ UNCHANGED <<owner, outcomes, lock, canceller, history>>

\* Mutant: a failure that cannot be stored is tried for ever.
FailExecutionRetries(w) ==
    LET e == Exp(w) IN
    /\ worker[w].pc \in {"fail", "expired", "failing"}
    /\ status' = IF Owns(w) THEN [status EXCEPT ![e] = "failed"] ELSE status
    /\ Goto(w, IF Owns(w) THEN "done" ELSE "failing")
    /\ UNCHANGED <<owner, events, outcomes, results, lock, canceller, history>>

\* _fail_execution: at "fail" an error is caught and answered by a second attempt,
\* at "expired" it leaves start(), at "failing" it is swallowed.
FailExecution(w) ==
    LET e == Exp(w) IN
    /\ worker[w].pc \in {"fail", "expired", "failing"}
    /\ \/ /\ Owns(w)
          /\ status' = [status EXCEPT ![e] = "failed"]
          /\ Goto(w, "done") \/ (DbMayFail /\ At(w, "fail") /\ Raises(w))
       \/ /\ ~Owns(w) \/ DbMayFail
          /\ status' = status
          /\ Goto(w, IF At(w, "fail") THEN "failing" ELSE "done")
    /\ UNCHANGED <<owner, events, outcomes, results, lock, canceller, history>>

\* The request is cancelled at an await: _attempt_failure, then it is raised again.
RequestCancelled(w) ==
    /\ worker[w].pc \in {"plan", "call", "next", "record", "limit"}
    /\ Goto(w, "failing")
    /\ UNCHANGED <<rowVars, lock, canceller, history>>

Released(w) == IF lock = w THEN None ELSE lock

Return(w) ==
    /\ At(w, "done")
    /\ lock' = Released(w) /\ worker' = [worker EXCEPT ![w] = Idle]
    /\ dropped' = dropped \ {w}
    /\ UNCHANGED <<rowVars, canceller, calls>>

\* The transaction of the reconciliation fails, or the worker's process ends.
Abandon(w) ==
    /\ \/ At(w, "reconcile") /\ DbMayFail
       \/ ~At(w, "idle") /\ WorkersMayDie
    /\ lock' = Released(w) /\ worker' = [worker EXCEPT ![w] = Idle]
    /\ dropped' = dropped \ {w}
    /\ UNCHANGED <<rowVars, canceller, calls>>

\* The server ends the session that holds the lock; its worker does not notice.
DropLock ==
    /\ LockMayDrop /\ lock # None
    /\ lock' = None /\ dropped' = dropped \cup {lock}
    /\ UNCHANGED <<rowVars, worker, canceller, calls>>

-----------------------------------------------------------------------------
(* cancel(): a check, then a transaction that reads again and updates.      *)

CancelChecks(e) ==
    /\ canceller.at \notin {"checked", "finishing"}
    /\ canceller' = [exp |-> e, at |-> IF status[e] = "pending" THEN "checked" ELSE "refused"]
    /\ UNCHANGED <<rowVars, worker, lock, history>>

\* An admission in between is a plain ExperimentPersistenceError, which cancel()
\* does not translate.
CancelReads ==
    LET now == status[canceller.exp] IN
    /\ canceller.at = "checked"
    /\ canceller' = [canceller EXCEPT !.at = CASE now = "pending" -> "finishing"
                                               [] now \in Terminal -> "refused"
                                               [] OTHER -> "error"]
    /\ UNCHANGED <<rowVars, worker, lock, history>>

CancelUpdates ==
    LET e == canceller.exp IN
    /\ canceller.at = "finishing"
    /\ IF status[e] = "pending" /\ owner[e] = None
       THEN /\ status' = [status EXCEPT ![e] = "cancelled"]
            /\ canceller' = [canceller EXCEPT !.at = "cancelled"]
       ELSE status' = status /\ canceller' = [canceller EXCEPT !.at = "refused"]
    /\ UNCHANGED <<owner, events, outcomes, results, worker, lock, history>>

-----------------------------------------------------------------------------
WorkerNext(w) ==
    \/ AcquireLock(w) \/ Reconcile(w) \/ AdmissionRead(w) \/ AdmissionUpdate(w)
    \/ PlanCreated(w) \/ IterationStarted(w) \/ CallReturns(w) \/ IterationRecorded(w)
    \/ DeadlinePasses(w) \/ LimitReached(w) \/ DeadlineFailed(w) \/ IterationsFailed(w)
    \/ IntegrityFails(w) \/ Publish(w) \/ FailExecution(w) \/ Return(w)

CancelNext == (\E e \in Experiments : CancelChecks(e)) \/ CancelReads \/ CancelUpdates

Next ==
    \/ \E w \in Workers :
          \/ \E e \in Experiments : Prepare(w, e)
          \/ WorkerNext(w) \/ RequestCancelled(w) \/ Abandon(w)
    \/ DropLock
    \/ CancelNext

Spec == Init /\ [][Next]_vars

\* A start request runs on: its transactions end, asyncio.timeout ends a call, and
\* PostgreSQL grants the admission lock to its waiters in turn.
Fairness == \A w \in Workers : WF_vars(WorkerNext(w)) /\ SF_vars(AdmissionRead(w))

FairSpec == Spec /\ Fairness

-----------------------------------------------------------------------------
Pcs == {"idle", "lock", "reconcile", "admit", "admitting", "plan", "next", "call",
        "record", "limit", "expire", "expired", "fail", "failing", "done"}

TypeOK ==
    /\ status \in [Experiments -> Statuses]
    /\ owner \in [Experiments -> Workers \cup {None}]
    /\ events \in [Experiments -> SUBSET [seq : Nat \ {0}, kind : Kinds]]
    /\ outcomes \in [Experiments -> [1 .. Planned -> {"none", "completed", "failed"}]]
    /\ results \subseteq Experiments
    /\ worker \in [Workers -> [pc : Pcs, exp : Experiments \cup {None}, seq : Nat,
                               pos : 0 .. Planned, allOk : BOOLEAN,
                               last : {"none", "completed", "failed", "expired"}]]
    /\ lock \in Workers \cup {None}
    /\ canceller \in [exp : Experiments \cup {None},
                      at : {"idle", "checked", "finishing", "cancelled", "refused", "error"}]
    /\ calls \in [Experiments -> [1 .. Planned -> Nat]]
    /\ dropped \subseteq Workers

\* A result exists exactly for the completed experiments, and every planned
\* iteration stands behind it with its evidence and its two events.
ResultMeansCompleted ==
    \A e \in Experiments :
        /\ e \in results <=> status[e] = "completed"
        /\ e \in results => /\ \A i \in 1 .. Planned : outcomes[e][i] = "completed"
                            /\ Cardinality(events[e]) = 2 * Planned + 2

\* What may come after an event of each kind.
Follows ==
    [kind \in Kinds |->
        CASE kind = "plan_created"      -> {"iteration_started", "limit_reached"}
          [] kind = "iteration_started" -> {"iteration_completed", "iteration_failed"}
          [] kind \in {"iteration_completed", "iteration_failed"} ->
                 {"iteration_started", "limit_reached", "experiment_failed",
                  "experiment_completed"}
          [] kind = "limit_reached"     -> {"experiment_failed"}
          [] OTHER                      -> {}]

\* A replay that asks for what follows its cursor misses nothing and repeats
\* nothing: sequence numbers are contiguous, one event each, in an order the plan
\* allows, with no more iterations than it has, and an iteration's outcome row is there
\* exactly with its terminal event.
EventLogIsLegal ==
    \A e \in Experiments :
        /\ \A ev \in events[e] :
              \/ ev.seq = 1 /\ ev.kind = "plan_created"
              \/ \E before \in events[e] :
                    before.seq = ev.seq - 1 /\ ev.kind \in Follows[before.kind]
        /\ \A ev, other \in events[e] : ev.seq = other.seq => ev = other
        /\ \A ev \in events[e] : ev.kind = "iteration_started" => ev.seq <= 2 * Planned
        /\ \A i \in 1 .. Planned : \A result \in {"completed", "failed"} :
              outcomes[e][i] = result <=>
                  [seq |-> 2 * i + 1, kind |-> EventOf(result)] \in events[e]

\* No iteration is called twice, and none of an experiment that is pending or was
\* cancelled; and the model is called for one worker at a time, only with the
\* operator lock, unless that worker's lock was lost under it.
OneCallAtATime ==
    /\ \A e \in Experiments : \A i \in 1 .. Planned :
          /\ calls[e][i] <= 1
          /\ status[e] \in {"pending", "cancelled"} => calls[e][i] = 0
    /\ \A w \in Workers \ dropped :
          /\ worker[w].pc \notin {"idle", "lock"} => lock = w
          /\ At(w, "call") => \A v \in Workers \ dropped : At(v, "call") => v = w

\* A terminal record, its log and its outcomes stay as they are.
TerminalIsImmutable ==
    [][\A e \in Experiments : status[e] \in Terminal =>
          UNCHANGED <<status[e], owner[e], events[e], outcomes[e], e \in results>>]_vars

\* The record, its log and its result together keep the lifecycle's promise.
Lifecycle == INSTANCE ExperimentLifecycle WITH
    state <- status, progress <- [e \in Experiments |-> Cardinality(events[e])],
    published <- results

FollowsLifecycle == Lifecycle!LifecycleSpec

\* Every start request returns.
StartsReturn == \A w \in Workers : ~At(w, "idle") ~> At(w, "idle")

=============================================================================
