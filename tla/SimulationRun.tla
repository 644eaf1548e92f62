---------------------------- MODULE SimulationRun ----------------------------
(***************************************************************************)
(* One case run in the background (ExecutionService.start_run, run_bundle):*)
(* a disposable environment, the agent in it, the evaluators, the clean-up,*)
(* and the clients that follow its events.  What the task does between two *)
(* awaits is one action.  The agent is external: it emits events and then  *)
(* answers, is stopped by the environment, or raises.                      *)
(***************************************************************************)
EXTENDS Naturals, Sequences, SequencesExt

CONSTANTS Clients,
          MaxAgentEvents, Evaluators,  \* numbers of events
          SubscriberBuffer             \* 256 in the code

ASSUME SimAssumption ==
    /\ {MaxAgentEvents, Evaluators} \subseteq Nat
    /\ SubscriberBuffer \in Nat \ {0}

VARIABLES
    task,        \* where the background task stands
    environment, \* the session and transaction of the environment
    ending,      \* how the agent ended
    raised,      \* the first exception
    handle,      \* ExecutionHandle: the status and the error it reports
    transcript,  \* the kinds of the events, in order
    client       \* GET /runs/{id}/events

simVars == <<task, environment, ending, raised, handle, transcript, client>>

Away == [pc |-> "away", queue |-> <<>>, joined |-> 0, got |-> 0, last |-> 0, overflowed |-> FALSE]

SimInit ==
    /\ task = "start" /\ environment = "none" /\ ending = "none" /\ raised = "none"
    /\ handle = [status |-> "running", error |-> "none"]
    /\ transcript = <<>>
    /\ client = [c \in Clients |-> Away]

-----------------------------------------------------------------------------
(* SimulationEventCollector.emit                                            *)

\* What a client's queue would hold with k more events after the n-th.
Offered(c, n, k) == c.queue \o [i \in 1 .. k |-> n + i]
Excess(all)      == IF Len(all) > SubscriberBuffer THEN Len(all) - SubscriberBuffer ELSE 0

\* Mutant: a full queue loses the new events.
OfferDropsNewest(c, n, k) ==
    LET all == Offered(c, n, k) IN
    [c EXCEPT !.queue = SubSeq(all, 1, Len(all) - Excess(all)), !.overflowed = @ \/ Excess(all) > 0]

\* Mutant: an unbounded queue.
OfferUnbounded(c, n, k) == [c EXCEPT !.queue = Offered(c, n, k)]

\* A full queue loses its oldest event for each that comes.
Offer(c, n, k) ==
    LET all == Offered(c, n, k) IN
    [c EXCEPT !.queue = SubSeq(all, Excess(all) + 1, Len(all)), !.overflowed = @ \/ Excess(all) > 0]

Emit(kinds) ==
    /\ transcript' = transcript \o kinds
    /\ client' = [c \in Clients |->
           IF client[c].pc # "streaming" THEN client[c]
           ELSE Offer(client[c], Len(transcript), Len(kinds))]

Silent == UNCHANGED <<transcript, client>>

-----------------------------------------------------------------------------
(* run_bundle in _run_case_task                                             *)

Settle(error) ==
    /\ task' = "done"
    /\ handle' = IF error = "none" THEN [handle EXCEPT !.status = "completed"]
                                   ELSE [status |-> "failed", error |-> error]

\* An exception inside the try: the environment is destroyed, then it is raised.
Raise(error) == task' = "destroy" /\ raised' = error

\* The checks of the bundle and of its coverage come before any environment.
RejectBundle ==
    /\ task = "start"
    /\ raised' = "rejected" /\ Settle("rejected")
    /\ Silent /\ UNCHANGED <<environment, ending>>

CreateEnvironment ==
    /\ task = "start"
    /\ task' = "seed" /\ environment' = "open"
    /\ Emit(<<"environment.created">>)
    /\ UNCHANGED <<ending, raised, handle>>

\* verify_target fails: create() rolls back and closes what it opened.
CreateFails ==
    /\ task = "start"
    /\ environment' = "closed" /\ Raise("environment")
    /\ Silent /\ UNCHANGED <<ending, handle>>

SeedEnvironment ==
    /\ task = "seed"
    /\ task' = "agent" /\ Emit(<<"environment.seeded">>)
    /\ UNCHANGED <<environment, ending, raised, handle>>

SeedFails ==
    /\ task = "seed"
    /\ Raise("environment")
    /\ Silent /\ UNCHANGED <<environment, ending, handle>>

\* The seeding's two events come before the agent's.
AgentEmits ==
    /\ task = "agent" /\ Len(transcript) < MaxAgentEvents + 2
    /\ Emit(<<"agent">>)
    /\ UNCHANGED <<task, environment, ending, raised, handle>>

\* Unsupported and malformed accesses and missing coverage abort the run, and it
\* still completes; any other exception is the run's.
AgentEnds ==
    /\ task = "agent"
    /\ \/ /\ ending' \in {"response", "unexpected_access", "missing_coverage"}
          /\ task' = "final_state" /\ UNCHANGED raised
       \/ ending' = ending /\ \E e \in {"domain", "model"} : Raise(e)
    /\ Silent /\ UNCHANGED <<environment, handle>>

FinalStateFails ==
    /\ task = "final_state"
    /\ Raise("environment")
    /\ Silent /\ UNCHANGED <<environment, ending, handle>>

\* Metrics, evaluators and verdict come before the first of their events.
EvaluatorsFail ==
    /\ task = "final_state"
    /\ Raise("evaluator")
    /\ Silent /\ UNCHANGED <<environment, ending, handle>>

\* The final state, the evaluators on a response, the verdict, RUN_COMPLETED.
Evaluate ==
    /\ task = "final_state"
    /\ LET results == IF ending = "response" THEN Evaluators ELSE 0
       IN Emit([k \in 1 .. results |-> "evaluator.result"] \o <<"run.completed">>)
    /\ task' = "destroy"
    /\ UNCHANGED <<environment, ending, raised, handle>>

\* destroy() does nothing for an environment that create() has closed.
DestroyEnvironment ==
    /\ task = "destroy"
    /\ IF environment = "open" THEN environment' = "closed" /\ Emit(<<"environment.destroyed">>)
                               ELSE UNCHANGED environment /\ Silent
    /\ Settle(raised)
    /\ UNCHANGED <<ending, raised>>

\* Mutant: the error of the clean-up replaces the run's.
DestroyFailsLoudly ==
    /\ task = "destroy" /\ environment = "open"
    /\ environment' = "closed"
    /\ Settle("cleanup")
    /\ Silent /\ UNCHANGED <<ending, raised>>

\* The rollback raises; the session is closed all the same.
DestroyFails ==
    /\ task = "destroy" /\ environment = "open"
    /\ environment' = "closed"
    /\ Settle(IF raised = "none" THEN "cleanup" ELSE raised)
    /\ Silent /\ UNCHANGED <<ending, raised>>

-----------------------------------------------------------------------------
(* ExecutionService.events                                                  *)

\* A run that is done is replayed; a client of a running one gets what follows.
Join(c) ==
    /\ client[c].pc = "away"
    /\ LET n == Len(transcript) IN
       client' = [client EXCEPT ![c] =
           IF task = "done" THEN [Away EXCEPT !.pc = "ended", !.got = n, !.last = n]
                            ELSE [Away EXCEPT !.pc = "streaming", !.joined = n]]
    /\ UNCHANGED <<task, environment, ending, raised, handle, transcript>>

Receive(c) ==
    /\ client[c].pc = "streaming" /\ client[c].queue # <<>>
    /\ client' = [client EXCEPT ![c].queue = Tail(@), ![c].got = @ + 1,
                                ![c].last = Head(client[c].queue)]
    /\ UNCHANGED <<task, environment, ending, raised, handle, transcript>>

\* Mutant: the stream waits for the completion instead of the end of the task.
EndStreamCompleted(c) ==
    /\ client[c].pc = "streaming" /\ client[c].queue = <<>> /\ handle.status = "completed"
    /\ client' = [client EXCEPT ![c].pc = "ended"]
    /\ UNCHANGED <<task, environment, ending, raised, handle, transcript>>

EndStream(c) ==
    /\ client[c].pc = "streaming" /\ client[c].queue = <<>> /\ task = "done"
    /\ client' = [client EXCEPT ![c].pc = "ended"]
    /\ UNCHANGED <<task, environment, ending, raised, handle, transcript>>

\* The client goes; its queue is removed.
Disconnect(c) ==
    /\ client[c].pc = "streaming"
    /\ client' = [client EXCEPT ![c] = Away]
    /\ UNCHANGED <<task, environment, ending, raised, handle, transcript>>

TaskNext ==
    \/ RejectBundle \/ CreateEnvironment \/ CreateFails \/ SeedEnvironment \/ SeedFails
    \/ AgentEmits \/ AgentEnds \/ FinalStateFails \/ EvaluatorsFail \/ Evaluate
    \/ DestroyEnvironment \/ DestroyFails

StreamNext(c) == Receive(c) \/ EndStream(c)

SimNext == TaskNext \/ \E c \in Clients : Join(c) \/ StreamNext(c) \/ Disconnect(c)

\* Every await of the task ends, and the loop serves each stream: wait_for gives
\* up after 0.1 s and looks again.
SimFairness == WF_simVars(TaskNext) /\ \A c \in Clients : WF_simVars(StreamNext(c))

SimSpec == SimInit /\ [][SimNext]_simVars /\ SimFairness

-----------------------------------------------------------------------------
SimTypeOK ==
    /\ task \in {"start", "seed", "agent", "final_state", "destroy", "done"}
    /\ environment \in {"none", "open", "closed"}
    /\ \A c \in Clients : /\ client[c].pc \in {"away", "streaming", "ended"}
                          /\ Len(client[c].queue) <= SubscriberBuffer
                          /\ {client[c].joined, client[c].last} \subseteq 0 .. Len(transcript)

\* What waits for a client is the newest part of the transcript, behind what the
\* client has, and no more than the queue takes; only an overflow or a late start takes
\* events from it; and a stream that ended has given it the last event of a run that has
\* its answer.
StreamFollowsTranscript ==
    \A c \in Clients :
        LET q == client[c].queue  n == Len(transcript) IN
        /\ \A k \in 1 .. Len(q) : q[k] = n - Len(q) + k
        /\ Len(q) <= SubscriberBuffer
        /\ client[c].pc # "away" =>
              /\ client[c].last = n - Len(q) \/ client[c].overflowed
                 \/ (client[c].got = 0 /\ client[c].joined = n - Len(q))
              /\ client[c].last <= n - Len(q)
              /\ ~client[c].overflowed => client[c].got + Len(q) = n - client[c].joined
        /\ client[c].pc = "ended" =>
              /\ handle.status # "running"
              /\ client[c].last = n \/ client[c].joined = n

\* Whatever happened, no environment outlives its run.  The run is reported as
\* completed exactly if run.completed and the destruction of the environment end its
\* transcript, and as failed with its first error: a failing clean-up replaces none.
SettledRunIsCleanedUp ==
    task = "done" =>
        /\ environment # "open"
        /\ handle.status = "completed" <=>
              IsSuffix(<<"run.completed", "environment.destroyed">>, transcript)
        /\ raised # "none" => handle = [status |-> "failed", error |-> raised]
        /\ raised = "none" => handle.error \in {"none", "cleanup"}

\* Every stream ends, or its client leaves first.
StreamsEnd == \A c \in Clients : client[c].pc = "streaming" ~> client[c].pc # "streaming"
=============================================================================
