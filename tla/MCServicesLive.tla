---------------------------- MODULE MCServicesLive ----------------------------
(***************************************************************************)
(* One instance for the components with liveness: a behaviour is one of    *)
(* theirs, the others stay as they are initially.                          *)
(***************************************************************************)
EXTENDS SupportWorkflow, SimulationRun, ExperimentOperator

VARIABLE subject

servicesVars == <<subject, workflowVars, simVars, vars>>

\* What may be missing for a refund: one thing at a time, since the first that is
\* missed ends the way.
Missing == (IF case.owner THEN 0 ELSE 1) + (IF case.reference THEN 0 ELSE 1)
           + (IF case.policy THEN 0 ELSE 1) + (IF order = "delivered" THEN 0 ELSE 1)

\* Only the subject has more than one initial state.
ServicesInit ==
    /\ subject \in {"workflow", "simulation", "experiment"}
    /\ WorkflowInit /\ SimInit /\ Init
    /\ Missing <= 1
    /\ subject # "workflow" => Missing = 0 /\ case.intent = "refund"

\* Requests are alike: the one that starts the workflow is the same in every behaviour.
First == CHOOSE r \in Requests : TRUE
FirstStarts == \A r \in Requests \ {First} : request[First] = Waiting => request[r] = Waiting

ServicesNext ==
    /\ UNCHANGED subject
    /\ \/ subject = "workflow" /\ WorkflowNext /\ FirstStarts' /\ UNCHANGED <<simVars, vars>>
       \/ subject = "simulation" /\ SimNext /\ UNCHANGED <<workflowVars, vars>>
       \/ subject = "experiment" /\ Next /\ UNCHANGED <<workflowVars, simVars>>

\* SimFairness, of the simulation's behaviours: its task is ready to start in the
\* others too, where the workflow's requests and the workers are all idle.
ServicesSpec ==
    /\ ServicesInit /\ [][ServicesNext]_servicesVars
    /\ WorkflowFairness /\ Fairness
    /\ WF_simVars(subject = "simulation" /\ TaskNext)
    /\ \A c \in Clients : WF_simVars(StreamNext(c))
=============================================================================
