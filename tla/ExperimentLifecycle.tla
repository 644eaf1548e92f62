------------------------ MODULE ExperimentLifecycle ------------------------
(***************************************************************************)
(* What the experiment subsystem promises of each record: it is cancelled  *)
(* before it starts or runs once, its log only grows while it runs, and a  *)
(* result appears with the completion, behind the whole log, never else.   *)
(***************************************************************************)
EXTENDS Naturals

CONSTANTS Experiments,
          Planned      \* iterations of an experiment's plan

VARIABLES state, progress, published

jobVars == <<state, progress, published>>

LifecycleInit ==
    /\ state = [e \in Experiments |-> "pending"]
    /\ progress = [e \in Experiments |-> 0]
    /\ published = {}

Running == {e \in Experiments : state[e] = "running"}

Begin(e) ==
    /\ state[e] = "pending" /\ Running = {}
    /\ state' = [state EXCEPT ![e] = "running"]
    /\ UNCHANGED <<progress, published>>

Withdraw(e) ==
    /\ state[e] = "pending"
    /\ state' = [state EXCEPT ![e] = "cancelled"]
    /\ UNCHANGED <<progress, published>>

Advance(e) ==
    /\ state[e] = "running" /\ progress[e] < 2 * Planned + 3
    /\ progress' = [progress EXCEPT ![e] = @ + 1]
    /\ UNCHANGED <<state, published>>

Complete(e) ==
    /\ state[e] = "running" /\ progress[e] = 2 * Planned + 1
    /\ state' = [state EXCEPT ![e] = "completed"]
    /\ progress' = [progress EXCEPT ![e] = @ + 1]
    /\ published' = published \cup {e}

Fail(e) ==
    /\ state[e] = "running"
    /\ state' = [state EXCEPT ![e] = "failed"]
    /\ UNCHANGED <<progress, published>>

LifecycleNext ==
    \E e \in Experiments : Begin(e) \/ Withdraw(e) \/ Advance(e) \/ Complete(e) \/ Fail(e)

LifecycleSpec == LifecycleInit /\ [][LifecycleNext]_jobVars

=============================================================================
