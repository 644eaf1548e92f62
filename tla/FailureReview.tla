---------------------------- MODULE FailureReview ----------------------------
(***************************************************************************)
(* The human review of proposed failure groups.  A proposal is found again *)
(* by its fingerprint; a review is written once, under the row lock of its *)
(* proposal, with the status that follows from it.  A review request is    *)
(* one transaction whose commit follows its answer.                        *)
(***************************************************************************)
EXTENDS Naturals, FiniteSets

CONSTANTS Proposals,  \* fingerprints
          Reviewers,  \* review requests: who asks, and why
          Nobody

ASSUME ReviewAssumption == Nobody \notin Reviewers

Verdicts == [confirm |-> "confirmed", correct |-> "corrected", reject |-> "rejected"]
Decided  == {Verdicts[d] : d \in DOMAIN Verdicts}

VARIABLES standing,  \* the committed status of each proposal, "absent" without a row
          review,    \* the committed review of each proposal
          reviewer,  \* the review requests
          consumer   \* require_confirmed: the proposal it has read, and what it returned

reviewVars == <<standing, review, reviewer, consumer>>

NoReview == [by |-> Nobody, decision |-> "none"]
Resting  == [pc |-> "idle", on |-> Nobody, decision |-> "none", saw |-> NoReview]

ReviewInit ==
    /\ standing = [p \in Proposals |-> "absent"]
    /\ review   = [p \in Proposals |-> NoReview]
    /\ reviewer = [r \in Reviewers |-> Resting]
    /\ consumer = [on |-> Nobody, kind |-> "none", got |-> NoReview]

\* Mutant: a rejected group may be proposed again.
ProposeAgain(p) ==
    /\ standing[p] \in {"absent", "rejected"}
    /\ standing' = [standing EXCEPT ![p] = "proposed"]
    /\ UNCHANGED <<review, reviewer, consumer>>

\* save_proposal: an equivalent proposal, a rejected one too, is kept as it is.
Propose(p) ==
    /\ standing[p] = "absent"
    /\ standing' = [standing EXCEPT ![p] = "proposed"]
    /\ UNCHANGED <<review, reviewer, consumer>>

\* Those whose transaction holds the row.
HoldsRow(r, p) == reviewer[r].on = p /\ reviewer[r].pc \in {"decide", "written"}

\* Mutant: the proposal is read without FOR UPDATE.
LockProposalUnlocked(r, p, d) ==
    /\ reviewer[r].pc = "idle" /\ standing[p] # "absent"
    /\ LET pc == IF standing[p] = "proposed" THEN "decide"
                 ELSE IF review[p] = [by |-> r, decision |-> d] THEN "accepted" ELSE "refused"
       IN reviewer' = [reviewer EXCEPT ![r] = [pc |-> pc, on |-> p, decision |-> d, saw |-> review[p]]]
    /\ UNCHANGED <<standing, review, consumer>>

\* lock_proposal, and what is read under the lock.
LockProposal(r, p, d) ==
    /\ reviewer[r].pc = "idle" /\ standing[p] # "absent"
    /\ \A q \in Reviewers : ~HoldsRow(q, p)
    /\ LET pc == IF standing[p] = "proposed" THEN "decide"
                 ELSE IF review[p] = [by |-> r, decision |-> d] THEN "accepted" ELSE "refused"
       IN reviewer' = [reviewer EXCEPT ![r] = [pc |-> pc, on |-> p, decision |-> d, saw |-> review[p]]]
    /\ UNCHANGED <<standing, review, consumer>>

\* save_review and update_proposal.  A review that another transaction wrote
\* first is refused by its unique key, and the proposal is answered as it is.
WriteReview(r) ==
    /\ reviewer[r].pc = "decide"
    /\ LET p == reviewer[r].on IN
       /\ \A q \in Reviewers : ~(reviewer[q].on = p /\ reviewer[q].pc = "written")
       /\ reviewer' = [reviewer EXCEPT ![r].pc = IF review[p] = NoReview THEN "written" ELSE "accepted"]
    /\ UNCHANGED <<standing, review, consumer>>

\* Mutant: every review that does not reject confirms.
ReviewCommitConfirms(r) ==
    LET p == reviewer[r].on  d == reviewer[r].decision IN
    /\ reviewer[r].pc = "written"
    /\ review' = [review EXCEPT ![p] = [by |-> r, decision |-> d]]
    /\ standing' = [standing EXCEPT ![p] = IF d = "reject" THEN "rejected" ELSE "confirmed"]
    /\ reviewer' = [reviewer EXCEPT ![r].pc = "accepted"]
    /\ UNCHANGED consumer

ReviewCommit(r) ==
    LET p == reviewer[r].on  d == reviewer[r].decision IN
    /\ reviewer[r].pc = "written"
    /\ review' = [review EXCEPT ![p] = [by |-> r, decision |-> d]]
    /\ standing' = [standing EXCEPT ![p] = Verdicts[d]]
    /\ reviewer' = [reviewer EXCEPT ![r].pc = "accepted"]
    /\ UNCHANGED consumer

\* The transaction is rolled back: its commit fails, or the process dies.
ReviewLose(r) ==
    /\ reviewer[r].pc \in {"decide", "written"}
    /\ reviewer' = [reviewer EXCEPT ![r] = Resting]
    /\ UNCHANGED <<standing, review, consumer>>

\* The same person sends another review, or the same one again.
AskAgain(r) ==
    /\ reviewer[r].pc \in {"accepted", "refused"}
    /\ reviewer' = [reviewer EXCEPT ![r] = Resting]
    /\ UNCHANGED <<standing, review, consumer>>

\* require_confirmed: two reads, each of what is committed at that time.
ReadProposal(p) ==
    /\ consumer.on = Nobody /\ standing[p] \in {"confirmed", "corrected"}
    /\ consumer' = [on |-> p, kind |-> standing[p], got |-> NoReview]
    /\ UNCHANGED <<standing, review, reviewer>>

ReadReview ==
    /\ consumer.on # Nobody
    /\ consumer' = IF consumer.got = NoReview /\ review[consumer.on] # NoReview
                   THEN [consumer EXCEPT !.got = review[consumer.on]]
                   ELSE [on |-> Nobody, kind |-> "none", got |-> NoReview]
    /\ UNCHANGED <<standing, review, reviewer>>

ReviewNext ==
    \/ \E p \in Proposals : Propose(p) \/ ReadProposal(p)
    \/ \E r \in Reviewers :
          \/ \E p \in Proposals, d \in DOMAIN Verdicts : LockProposal(r, p, d)
          \/ WriteReview(r) \/ ReviewCommit(r) \/ ReviewLose(r) \/ AskAgain(r)
    \/ ReadReview

ReviewSpec == ReviewInit /\ [][ReviewNext]_reviewVars

-----------------------------------------------------------------------------
ReviewTypeOK ==
    /\ standing \in [Proposals -> {"absent", "proposed"} \cup Decided]
    /\ review \in [Proposals -> [by : Reviewers \cup {Nobody},
                                 decision : DOMAIN Verdicts \cup {"none"}]]
    /\ DOMAIN reviewer = Reviewers
    /\ \A r \in Reviewers :
          reviewer[r].pc \in {"idle", "decide", "written", "accepted", "refused"}

\* Whoever is told that a review was applied is told the truth: the stored review
\* is the decision that person sent, so of two contrary reviews one is refused.
AcceptedIsStored ==
    \A r \in Reviewers : reviewer[r].pc = "accepted" =>
        LET p == reviewer[r].on IN
        /\ review[p] = [by |-> r, decision |-> reviewer[r].decision]
        /\ standing[p] = Verdicts[reviewer[r].decision]

\* What require_confirmed hands on is one review's outcome, although it reads the
\* proposal and the review separately.
ConfirmedGroupIsConsistent ==
    consumer.got # NoReview => Verdicts[consumer.got.decision] = consumer.kind

\* A review is final: neither another review nor a new proposal with the same
\* fingerprint changes a reviewed proposal.
ReviewedIsFinal ==
    [][\A p \in Proposals : standing[p] \in Decided =>
          standing'[p] = standing[p] /\ review'[p] = review[p]]_reviewVars
=============================================================================
