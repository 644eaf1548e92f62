------------------------------ MODULE MCServices ------------------------------
(***************************************************************************)
(* One instance for components that share no state: a behaviour is one of  *)
(* theirs, the others stay as they are initially.                          *)
(***************************************************************************)
EXTENDS ExperimentOperator, CaseLibrary, FailureReview, SupportAgent, SuiteComparison,
        InvestigationStream, InvestigationChat, TLC

VARIABLE subject

servicesVars == <<subject, vars, libVars, reviewVars, agentVars, comparisonVars,
                  streamVars, chatVars>>

\* Only the subject has more than one initial state.
ServicesInit ==
    /\ subject \in {"experiment", "library", "imports", "review", "agent", "comparison",
                    "stream", "chat"}
    /\ Init /\ LibInit /\ ReviewInit /\ AgentInit /\ ComparisonInit /\ StreamInit /\ ChatInit
    /\ subject # "agent" => ~turn.refundConfirmed /\ \A o \in Orders : book[o] = "delivered"

\* Imports have nothing to do with cases and suites.
SavesSubject ==
    \A s \in Savers : saver[s] # Asleep => (saver[s].item \in Imports <=> subject = "imports")

ServicesNext ==
    /\ UNCHANGED subject
    /\ \/ /\ subject = "experiment" /\ Next
          /\ UNCHANGED <<libVars, reviewVars, agentVars, comparisonVars, streamVars, chatVars>>
       \/ /\ subject \in {"library", "imports"} /\ LibNext /\ SavesSubject'
          /\ UNCHANGED <<vars, reviewVars, agentVars, comparisonVars, streamVars, chatVars>>
       \/ /\ subject = "review" /\ ReviewNext
          /\ UNCHANGED <<vars, libVars, agentVars, comparisonVars, streamVars, chatVars>>
       \/ /\ subject = "agent" /\ AgentNext
          /\ UNCHANGED <<vars, libVars, reviewVars, comparisonVars, streamVars, chatVars>>
       \/ /\ subject = "comparison" /\ ComparisonNext
          /\ UNCHANGED <<vars, libVars, reviewVars, agentVars, streamVars, chatVars>>
       \/ /\ subject = "stream" /\ StreamStep
          /\ UNCHANGED <<vars, libVars, reviewVars, agentVars, comparisonVars, chatVars>>
       \/ /\ subject = "chat" /\ ChatNext
          /\ UNCHANGED <<vars, libVars, reviewVars, agentVars, comparisonVars, streamVars>>

ServicesSpec == ServicesInit /\ [][ServicesNext]_servicesVars

Symmetry == Permutations(Experiments) \cup Permutations(Workers)
=============================================================================
