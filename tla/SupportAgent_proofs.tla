------------------------- MODULE SupportAgent_proofs -------------------------
(***************************************************************************)
(* What the agent says about refunds is true of the orders, for any number *)
(* of orders and whatever tools the model calls in whatever order.         *)
(***************************************************************************)
EXTENDS SupportAgent, TLAPS

USE AgentAssumption

Errors  == {"none", "order_not_found", "refund_blocked_forbidden", "refund_blocked_ineligible",
            "refund_blocked_unconfirmed"}
Reasons == Errors \cup {"escalated", "missing_reference", "model_error", "order_status_ok",
                        "policy_answer", "policy_answer_ungrounded", "tool_error",
                        "refund_confirmed", "refund_proposed"}
Books   == {"delivered", "shipped", "missing", "foreign", "refunded"}

TurnRecords ==
    [pc : {"route", "answer", "confirm", "answered", "committed", "raised"},
     refundConfirmed : BOOLEAN, intent : Intents \cup {"none"},
     order : Orders \cup {NoOrder}, pending : SUBSET Orders,
     asked : Orders \cup {NoOrder}, confirmedIds : SUBSET Orders,
     lastOrder : Orders \cup {NoOrder}, lastError : Errors, grounded : BOOLEAN,
     ticket : BOOLEAN, draft : Intents \cup {"none"}, reason : Reasons]

AgentTypeInv ==
    /\ turn \in TurnRecords
    /\ book \in [Orders -> Books]
    /\ repaid \in [Orders -> {0, 1}]

\* Only a refund turn gets as far as a refund, and one that owes it is confirmed.
StageInv ==
    /\ turn.pc = "route" => turn.pending = {} /\ turn.confirmedIds = {} /\ turn.asked = NoOrder
    /\ turn.pc = "answer" => turn.intent \in {"order_status", "policy", "refund"}
    /\ turn.pc \in {"route", "answer", "confirm"} => turn.reason = "none"
    /\ turn.pc = "confirm" =>
          /\ turn.intent = "refund" /\ turn.refundConfirmed /\ turn.order \in turn.pending
          /\ turn.draft \in Intents
    /\ turn.confirmedIds # {} \/ turn.asked # NoOrder
       => turn.refundConfirmed /\ turn.intent = "refund"

\* The turn holds the rows of what it has refunded until it ends.
RowInv ==
    /\ \A o \in Orders : repaid[o] = 1 <=> book[o] = "refunded"
    /\ \A o \in turn.confirmedIds :
          /\ o \notin turn.pending
          /\ turn.pc \notin {"committed", "raised"} => book[o] = "delivered"
          /\ turn.pc = "committed" => book[o] = "refunded"

ReasonInv ==
    /\ turn.reason = "refund_confirmed" => turn.order \in turn.confirmedIds
    /\ turn.reason = "refund_proposed" => ~(turn.refundConfirmed /\ turn.intent = "refund")

AgentInv == AgentTypeInv /\ StageInv /\ RowInv /\ ReasonInv

LEMMA AgentInitInv == AgentInit => AgentInv
  BY DEF AgentInit, AgentInv, AgentTypeInv, StageInv, RowInv, ReasonInv, NewTurn,
     TurnRecords, Intents, Errors, Reasons, Books

\* What is read is one of the values that an order has.
LEMMA FetchedTypes ==
    ASSUME AgentTypeInv, NEW o \in Orders
    PROVE  Fetched(o) \in Books /\ ProposalError(o) \in Errors
  BY DEF AgentTypeInv, Fetched, ProposalError, Books, Errors

\* The reasons a draft can be answered with.
LEMMA ReasonTypes ==
    ASSUME NEW t \in TurnRecords, NEW draft \in Intents
    PROVE  /\ ReasonFor(t, draft) \in Reasons
           /\ ReasonFor(t, draft) = "refund_confirmed" => t.order \in t.confirmedIds
           /\ ReasonFor(t, draft) = "refund_proposed" =>
                 t.order \in t.pending /\ ~ConfirmedRefundFor(t, t.order)
<1> USE DEF Intents, Reasons, Errors, TurnRecords
<1>1. CASE draft = "order_status"
  BY <1>1 DEF ReasonFor
<1>2. CASE draft = "policy"
  BY <1>2 DEF ReasonFor
<1>3. CASE draft = "escalate"
  BY <1>3 DEF ReasonFor
<1>4. CASE draft = "refund" /\ ConfirmedRefundFor(t, t.order)
  <2>1. ReasonFor(t, draft) = "refund_confirmed"
    BY <1>4 DEF ReasonFor
  <2> QED BY <2>1, <1>4 DEF ConfirmedRefundFor
<1>5. CASE draft = "refund" /\ ~ConfirmedRefundFor(t, t.order)
  <2>1. ReasonFor(t, draft) = IF t.order \in t.pending THEN "refund_proposed"
            ELSE IF t.lastError # "none" THEN t.lastError ELSE "refund_blocked_unconfirmed"
    BY <1>5 DEF ReasonFor
  <2> QED BY <2>1, <1>5
<1> QED BY <1>1, <1>2, <1>3, <1>4, <1>5

\* A refund by the tool or after the answer.
LEMMA RefundKeeps ==
    ASSUME AgentInv, NEW o \in Orders, turn.asked = o, Refundable(o),
           turn.pc \in {"answer", "confirm"}
    PROVE  /\ Refunded(o) \in TurnRecords
           /\ Refunded(o).pc = turn.pc /\ Refunded(o).intent = "refund"
           /\ Refunded(o).refundConfirmed /\ Refunded(o).order = turn.order
           /\ Refunded(o).reason = "none"
           /\ Refunded(o).confirmedIds = turn.confirmedIds \cup {o}
           /\ Refunded(o).pending = turn.pending \ {o}
           /\ Refunded(o).lastOrder = o /\ Refunded(o).asked = NoOrder
           /\ book[o] = "delivered" /\ o \notin turn.confirmedIds
  BY DEF AgentInv, AgentTypeInv, StageInv, Refundable, Fetched, Refunded, TurnRecords, Errors

LEMMA AgentStep == AgentInv /\ [AgentNext]_agentVars => AgentInv'
<1> SUFFICES ASSUME AgentInv, [AgentNext]_agentVars PROVE AgentInv'
  OBVIOUS
<1> USE DEF AgentInv, Remember
<1>1. ASSUME NEW intent \in Intents, NEW o \in Orders \cup {NoOrder}, Route(intent, o)
      PROVE AgentInv'
  <2>1. /\ turn.pc = "route" /\ UNCHANGED <<book, repaid>>
        /\ turn.pending = {} /\ turn.confirmedIds = {} /\ turn.asked = NoOrder
        /\ turn.reason = "none"
    BY <1>1 DEF Route, Respond, StageInv
  <2>2. \/ \E ticket \in BOOLEAN, reason \in {"escalated", "missing_reference"} :
               turn' = [turn EXCEPT !.intent = intent, !.order = o, !.ticket = ticket,
                                    !.pc = "answered", !.reason = reason]
        \/ /\ intent \in {"order_status", "policy", "refund"}
           /\ turn' = [turn EXCEPT !.intent = intent, !.order = o, !.pc = "answer"]
    <3>1. CASE intent = "escalate"
      BY <1>1, <3>1 DEF Route, Respond, AgentTypeInv, TurnRecords
    <3>2. CASE intent \in {"order_status", "refund"} /\ o = NoOrder
      BY <1>1, <3>2 DEF Route, Respond, AgentTypeInv, TurnRecords
    <3>3. CASE intent # "escalate" /\ ~(intent \in {"order_status", "refund"} /\ o = NoOrder)
      <4>1. turn' = [turn EXCEPT !.intent = intent, !.order = o, !.pc = "answer"]
        BY <1>1, <3>3 DEF Route, AgentTypeInv, TurnRecords
      <4> QED BY <4>1, <3>3 DEF Intents
    <3> QED BY <3>1, <3>2, <3>3
  <2>3. /\ turn' \in TurnRecords /\ turn'.pending = {} /\ turn'.confirmedIds = {}
        /\ turn'.asked = NoOrder
        /\ \/ turn'.pc = "answered" /\ turn'.reason \in {"escalated", "missing_reference"}
           \/ /\ turn'.pc = "answer" /\ turn'.reason = "none"
              /\ turn'.intent \in {"order_status", "policy", "refund"}
    <3>1. ASSUME NEW ticket \in BOOLEAN, NEW reason \in {"escalated", "missing_reference"},
                 turn' = [turn EXCEPT !.intent = intent, !.order = o, !.ticket = ticket,
                                      !.pc = "answered", !.reason = reason]
          PROVE  /\ turn' \in TurnRecords /\ turn'.pending = {} /\ turn'.confirmedIds = {}
                 /\ turn'.asked = NoOrder
                 /\ turn'.pc = "answered" /\ turn'.reason \in {"escalated", "missing_reference"}
      BY <2>1, <3>1 DEF AgentTypeInv, TurnRecords, Reasons
    <3>2. ASSUME intent \in {"order_status", "policy", "refund"},
                 turn' = [turn EXCEPT !.intent = intent, !.order = o, !.pc = "answer"]
          PROVE  /\ turn' \in TurnRecords /\ turn'.pending = {} /\ turn'.confirmedIds = {}
                 /\ turn'.asked = NoOrder
                 /\ turn'.pc = "answer" /\ turn'.reason = "none" /\ turn'.intent = intent
      BY <2>1, <3>2 DEF AgentTypeInv, TurnRecords
    <3> QED BY <2>2, <3>1, <3>2
  <2>4. AgentTypeInv'
    BY <2>1, <2>3 DEF AgentTypeInv
  <2>5. StageInv' /\ RowInv' /\ ReasonInv'
    BY <2>1, <2>3 DEF StageInv, RowInv, ReasonInv
  <2> QED BY <2>4, <2>5
<1>2. CASE ModelFails
  BY <1>2 DEF ModelFails, Respond, AgentTypeInv, StageInv, RowInv, ReasonInv, TurnRecords, Reasons
<1>3. ASSUME NEW o \in Orders, GetOrderStatus(o) PROVE AgentInv'
  <2>1. turn' \in TurnRecords
    BY <1>3 DEF GetOrderStatus, AgentTypeInv, TurnRecords
  <2>2. /\ turn'.pc = "answer" /\ turn.pc = "answer" /\ turn'.intent = turn.intent
        /\ turn'.refundConfirmed = turn.refundConfirmed /\ turn'.order = turn.order
        /\ turn'.pending = turn.pending /\ turn'.confirmedIds = turn.confirmedIds
        /\ turn'.asked = turn.asked /\ turn'.reason = turn.reason /\ UNCHANGED <<book, repaid>>
    BY <1>3 DEF GetOrderStatus, MayCall, AgentTypeInv, TurnRecords
  <2>3. AgentTypeInv'
    BY <2>1, <2>2 DEF AgentTypeInv
  <2>4. StageInv' /\ ReasonInv'
    BY <2>2 DEF StageInv, ReasonInv
  <2>5. RowInv'
    BY <2>2 DEF RowInv, AgentTypeInv, TurnRecords
  <2> QED BY <2>3, <2>4, <2>5
<1>4. CASE GetPolicy \/ Escalate
  <2>1. turn.pc = "answer" /\ UNCHANGED <<book, repaid>>
    BY <1>4 DEF GetPolicy, Escalate, MayCall
  <2>2. \/ \E accepted \in BOOLEAN : turn' = [turn EXCEPT !.grounded = accepted]
        \/ turn' = [turn EXCEPT !.ticket = TRUE]
    BY <1>4 DEF GetPolicy, Escalate
  <2>3. AgentTypeInv'
    BY <2>1, <2>2 DEF AgentTypeInv, TurnRecords
  <2>4. StageInv' /\ RowInv' /\ ReasonInv'
    BY <2>1, <2>2 DEF AgentTypeInv, TurnRecords, StageInv, RowInv, ReasonInv
  <2> QED BY <2>3, <2>4
<1>5. ASSUME NEW o \in Orders, ProposeRefund(o) PROVE AgentInv'
  <2>1. turn' \in TurnRecords
    BY <1>5, FetchedTypes DEF ProposeRefund, AgentTypeInv, TurnRecords
  <2>2. /\ turn'.pc = turn.pc /\ turn'.intent = turn.intent
        /\ turn'.refundConfirmed = turn.refundConfirmed /\ turn'.order = turn.order
        /\ turn'.confirmedIds = turn.confirmedIds /\ turn'.reason = turn.reason
        /\ turn'.asked = turn.asked
    BY <1>5 DEF ProposeRefund, AgentTypeInv, TurnRecords
  <2>3. /\ turn'.pending \subseteq turn.pending \cup {o}
        /\ o \in turn'.pending \ turn.pending => Fetched(o) = "delivered"
    BY <1>5 DEF ProposeRefund, AgentTypeInv, TurnRecords
  <2>4. turn.pc = "answer" /\ UNCHANGED <<book, repaid>>
    BY <1>5 DEF ProposeRefund, MayCall
  <2>5. \A p \in turn.confirmedIds : p \notin turn'.pending
    BY <2>3 DEF RowInv, Fetched
  <2>6. AgentTypeInv'
    BY <2>1, <2>4 DEF AgentTypeInv
  <2>7. StageInv' /\ ReasonInv'
    BY <2>2, <2>4 DEF StageInv, ReasonInv
  <2>8. RowInv'
    BY <2>2, <2>4, <2>5 DEF RowInv, AgentTypeInv, TurnRecords
  <2> QED BY <2>6, <2>7, <2>8
<1>6. ASSUME NEW o \in Orders, ConfirmRefund(o) PROVE AgentInv'
  <2>1. turn.pc = "answer" /\ turn.intent = "refund" /\ UNCHANGED <<book, repaid>>
    BY <1>6 DEF ConfirmRefund, MayCall, ToolsByIntent, StageInv
  <2>2. \/ turn' = [turn EXCEPT !.lastError = "refund_blocked_unconfirmed"]
        \/ turn' = turn
        \/ turn' = [turn EXCEPT !.asked = o] /\ turn.refundConfirmed
    BY <1>6 DEF ConfirmRefund, Executable
  <2>3. AgentTypeInv'
    BY <2>1, <2>2 DEF AgentTypeInv, TurnRecords, Errors
  <2>4. StageInv' /\ RowInv' /\ ReasonInv'
    BY <2>1, <2>2 DEF AgentTypeInv, TurnRecords, StageInv, RowInv, ReasonInv
  <2> QED BY <2>3, <2>4
<1>7. ASSUME NEW draft \in Intents, ModelAnswers(draft) PROVE AgentInv'
  <2>1. turn.pc = "answer" /\ UNCHANGED <<book, repaid>>
    BY <1>7 DEF ModelAnswers, Respond
  <2>2. CASE Owed
    <3>1. turn' = [turn EXCEPT !.pc = "confirm", !.draft = draft]
      BY <1>7, <2>2 DEF ModelAnswers
    <3>2. AgentTypeInv'
      BY <2>1, <3>1 DEF AgentTypeInv, TurnRecords
    <3>3. StageInv'
      BY <2>1, <2>2, <3>1 DEF StageInv, Owed, Executable, AgentTypeInv, TurnRecords
    <3>4. RowInv' /\ ReasonInv'
      BY <2>1, <3>1 DEF RowInv, ReasonInv, StageInv, AgentTypeInv, TurnRecords
    <3> QED BY <3>2, <3>3, <3>4
  <2>3. CASE ~Owed
    <3>1. turn' = [turn EXCEPT !.pc = "answered", !.reason = ReasonFor(turn, draft)]
      BY <1>7, <2>3 DEF ModelAnswers, Respond
    <3>2. ReasonFor(turn, draft) \in Reasons
      BY ReasonTypes DEF AgentTypeInv
    <3>3. AgentTypeInv' /\ StageInv' /\ RowInv'
      BY <2>1, <3>1, <3>2 DEF AgentTypeInv, StageInv, RowInv, TurnRecords
    <3>4. ReasonInv'
      BY <2>3, <3>1, ReasonTypes DEF ReasonInv, AgentTypeInv, TurnRecords, Owed, Executable
    <3> QED BY <3>3, <3>4
  <2> QED BY <2>2, <2>3
<1>8. ASSUME NEW o \in Orders, RefundRow(o) PROVE AgentInv'
  <2>1. turn.pc = "answer" /\ turn.asked = o /\ UNCHANGED <<book, repaid>>
    BY <1>8 DEF RefundRow
  <2>2. CASE ~Refundable(o)
    <3>1. turn' = [turn EXCEPT !.asked = NoOrder]
      BY <1>8, <2>2 DEF RefundRow
    <3> QED BY <2>1, <3>1 DEF AgentTypeInv, StageInv, RowInv, ReasonInv, TurnRecords
  <2>3. CASE Refundable(o)
    <3>1. turn' = Refunded(o)
      BY <1>8, <2>3 DEF RefundRow
    <3>2. AgentTypeInv'
      BY <2>1, <2>3, <3>1, RefundKeeps DEF AgentTypeInv
    <3>3. StageInv' /\ ReasonInv'
      BY <2>1, <2>3, <3>1, RefundKeeps DEF StageInv, ReasonInv
    <3>4. RowInv'
      BY <2>1, <2>3, <3>1, RefundKeeps DEF RowInv, AgentTypeInv, TurnRecords
    <3> QED BY <3>2, <3>3, <3>4
  <2> QED BY <2>2, <2>3
<1>9. CASE ReadAfterAnswer
  <2>1. /\ turn.pc = "confirm" /\ turn.refundConfirmed /\ turn.intent = "refund"
        /\ turn.order \in Orders /\ UNCHANGED <<book, repaid>>
    BY <1>9 DEF ReadAfterAnswer, StageInv, AgentTypeInv, TurnRecords
  <2>2. turn' = [turn EXCEPT !.asked = turn.order] \/ turn' = [turn EXCEPT !.pc = "raised"]
    BY <1>9 DEF ReadAfterAnswer
  <2>3. AgentTypeInv'
    BY <2>1, <2>2 DEF AgentTypeInv, TurnRecords
  <2>4. StageInv' /\ RowInv' /\ ReasonInv'
    BY <2>1, <2>2 DEF AgentTypeInv, TurnRecords, StageInv, RowInv, ReasonInv
  <2> QED BY <2>3, <2>4
<1>10. CASE ConfirmAfterAnswer
  <2> DEFINE o == turn.order
  <2>1. /\ turn.pc = "confirm" /\ turn.asked = o /\ o \in Orders /\ UNCHANGED <<book, repaid>>
    BY <1>10 DEF ConfirmAfterAnswer, Respond, StageInv, AgentTypeInv, TurnRecords
  <2>2. CASE ~Refundable(o)
    <3>1. turn' = [turn EXCEPT !.pc = "raised"]
      BY <1>10, <2>2 DEF ConfirmAfterAnswer
    <3> QED BY <2>1, <3>1 DEF AgentTypeInv, StageInv, RowInv, ReasonInv, TurnRecords
  <2>3. CASE Refundable(o)
    <3> DEFINE t == Refunded(o)
    <3>1. turn' = [t EXCEPT !.pc = "answered", !.reason = ReasonFor(t, turn.draft)]
      BY <1>10, <2>3 DEF ConfirmAfterAnswer, Respond
    <3>2. /\ t \in TurnRecords /\ t.intent = "refund" /\ t.refundConfirmed /\ t.order = o
          /\ t.confirmedIds = turn.confirmedIds \cup {o} /\ t.pending = turn.pending \ {o}
          /\ t.lastOrder = o /\ book[o] = "delivered"
      BY <2>1, <2>3, RefundKeeps
    <3>3. turn.draft \in Intents
      BY <2>1 DEF StageInv
    <3> DEFINE reason == ReasonFor(t, turn.draft)
    <3>4. /\ reason \in Reasons /\ reason # "refund_proposed"
      BY <3>2, <3>3, ReasonTypes
    <3> HIDE DEF t, reason
    <3>5. /\ turn' \in TurnRecords /\ turn'.pc = "answered" /\ turn'.intent = "refund"
          /\ turn'.refundConfirmed /\ turn'.order = o /\ turn'.reason = reason
          /\ turn'.confirmedIds = turn.confirmedIds \cup {o}
          /\ turn'.pending = turn.pending \ {o}
      BY <3>1, <3>2, <3>4 DEF TurnRecords, reason
    <3>6. AgentTypeInv'
      BY <2>1, <3>5 DEF AgentTypeInv
    <3>7. StageInv' /\ ReasonInv'
      BY <3>4, <3>5 DEF StageInv, ReasonInv
    <3>8. RowInv'
      BY <2>1, <3>2, <3>5 DEF RowInv, AgentTypeInv, TurnRecords
    <3> QED BY <3>6, <3>7, <3>8
  <2> QED BY <2>2, <2>3
<1>11. CASE CommitTurn
  BY <1>11 DEF CommitTurn, AgentTypeInv, StageInv, RowInv, ReasonInv, TurnRecords, Books
<1>12. CASE RollBack
  BY <1>12 DEF RollBack, AgentTypeInv, StageInv, RowInv, ReasonInv, TurnRecords
<1>13. ASSUME NEW confirmed \in BOOLEAN, NextTurn(confirmed) PROVE AgentInv'
  BY <1>13 DEF NextTurn, NewTurn, AgentTypeInv, StageInv, RowInv, ReasonInv, TurnRecords,
     Intents, Reasons, Errors
<1>14. ASSUME NEW o \in Orders, RefundByAnother(o) PROVE AgentInv'
  BY <1>14 DEF RefundByAnother, AgentTypeInv, StageInv, RowInv, ReasonInv, TurnRecords, Books
<1>15. CASE UNCHANGED agentVars
  BY <1>15 DEF agentVars, AgentTypeInv, StageInv, RowInv, ReasonInv
<1> QED
  BY <1>1, <1>2, <1>3, <1>4, <1>5, <1>6, <1>7, <1>8, <1>9, <1>10, <1>11, <1>12, <1>13, <1>14,
     <1>15
  DEF AgentNext

LEMMA AgentInvariant == AgentSpec => []AgentInv
  BY AgentInitInv, AgentStep, PTL DEF AgentSpec

\* Every reachable turn is well-typed; what SupportAgentService has pending or confirmed
\* are orders.
THEOREM AgentTypes == AgentSpec => []AgentTypeOK
<1>1. AgentInv => AgentTypeOK
  BY DEF AgentInv, AgentTypeInv, AgentTypeOK, TurnRecords, Books
<1> QED BY <1>1, AgentInvariant, PTL

\* Whatever the model calls and answers, and whoever refunds meanwhile: an order is
\* repaid once at most, by a confirmed refund turn, and the answer says what happened.
THEOREM AgentTellsTheRefund == AgentSpec => []TurnTellsTheRefund
<1>1. AgentInv => TurnTellsTheRefund
  BY DEF AgentInv, AgentTypeInv, StageInv, RowInv, ReasonInv, TurnTellsTheRefund, TurnRecords
<1> QED BY <1>1, AgentInvariant, PTL
=============================================================================
