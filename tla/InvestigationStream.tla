------------------------- MODULE InvestigationStream -------------------------
(***************************************************************************)
(* GET /investigations/{id}/events: a client follows the committed events  *)
(* of an investigation by a cursor over their sequence numbers, and the    *)
(* stream closes once the record is terminal.                              *)
(*                                                                         *)
(* The writers are the handlers of InvestigationControlPlane, reduced to   *)
(* what a reader can tell: which events they insert, whether they end the  *)
(* investigation, and when they commit.  A handler that changes the record *)
(* waits for its row; a handler of other events does not, so that it may   *)
(* commit before one that inserted earlier events.                         *)
(***************************************************************************)
EXTENDS Naturals, FiniteSets, FiniteSetsExt

CONSTANTS Writers,     \* record_events handlers that are open at one time
          Viewers,
          StreamPage,  \* events of one read, 50 in the code
          MaxSeq       \* bound: events of the investigation

ASSUME StreamAssumption == StreamPage \in Nat \ {0} /\ MaxSeq \in Nat

VARIABLES
    recorded,   \* the events that some handler has inserted, 1 .. recorded
    shown,      \* the committed events
    over,       \* the committed status is terminal
    ending,     \* the event whose batch ended it, 0 when the sweep did
    writer,     \* the handlers: what they have inserted, and what it does to the record
    viewer,     \* the streams and what their clients have
    overtaken   \* history: the events committed when a viewer's cursor was past them

streamVars == <<recorded, shown, over, ending, writer, viewer, overtaken>>

Free   == [batch |-> {}, does |-> "nothing"]
Absent == [pc |-> "away", cursor |-> 0, got |-> {}, full |-> FALSE]

StreamInit ==
    /\ recorded = 0 /\ shown = {} /\ over = FALSE /\ ending = 0
    /\ writer = [w \in Writers |-> Free]
    /\ viewer = [v \in Viewers |-> Absent]
    /\ overtaken = [v \in Viewers |-> {}]

-----------------------------------------------------------------------------
(* The handlers                                                             *)

\* The bridge posts the next events once the handler before has answered.  Only a
\* batch that ends the investigation takes the row; its last event ends it.  Its handler
\* read the record open, which the sweep may have ended since.
InsertBatch(w, n, does) ==
    /\ writer[w] = Free /\ n \in 1 .. MaxSeq - recorded
    /\ does = "ends" => \A u \in Writers : writer[u].does # "ends"
    /\ writer' = [writer EXCEPT ![w] = [batch |-> recorded + 1 .. recorded + n, does |-> does]]
    /\ recorded' = recorded + n
    /\ UNCHANGED <<shown, over, ending, viewer, overtaken>>

\* Events, summary and status appear at once.
CommitBatch(w) ==
    /\ writer[w] # Free
    /\ shown' = shown \cup writer[w].batch
    /\ over' = (over \/ writer[w].does = "ends")
    /\ ending' = IF writer[w].does = "ends" /\ ~over THEN Max(writer[w].batch) ELSE ending
    /\ overtaken' = [v \in Viewers |->
           overtaken[v] \cup {s \in writer[w].batch : s <= viewer[v].cursor}]
    /\ writer' = [writer EXCEPT ![w] = Free]
    /\ UNCHANGED <<recorded, viewer>>

\* The bridge has evicted the events already: they are gone.
LoseBatch(w) ==
    /\ writer[w] # Free
    /\ writer' = [writer EXCEPT ![w] = Free]
    /\ UNCHANGED <<recorded, shown, over, ending, viewer, overtaken>>

\* The sweep, or the failed launch.
EndWithoutEvent ==
    /\ ~over
    /\ over' = TRUE
    /\ UNCHANGED <<recorded, shown, ending, writer, viewer, overtaken>>

-----------------------------------------------------------------------------
(* stream_investigation_events                                              *)

Beyond(cursor) == {s \in shown : s > cursor}

\* Mutant: a page is not ordered by sequence number.
LatestPage(cursor) ==
    {s \in Beyond(cursor) : Cardinality({t \in Beyond(cursor) : t > s}) < StreamPage}

\* get_events: the first StreamPage events after the cursor.
Page(cursor) ==
    {s \in Beyond(cursor) : Cardinality({t \in Beyond(cursor) : t < s}) < StreamPage}

\* The client asks with the id of the last event it has.
Open(v) ==
    /\ viewer[v].pc \in {"away", "closed"}
    /\ viewer' = [viewer EXCEPT ![v].pc = "read"]
    /\ UNCHANGED <<recorded, shown, over, ending, writer, overtaken>>

\* What one get_events_stream returned is sent.
Sends(v, pc) ==
    LET page == Page(viewer[v].cursor) IN
    viewer' = [viewer EXCEPT ![v].pc = pc, ![v].got = @ \cup page,
                             ![v].cursor = IF page = {} THEN @ ELSE Max(page),
                             ![v].full = Cardinality(page) = StreamPage]

ReadEvents(v) ==
    /\ viewer[v].pc = "read"
    /\ Sends(v, "check")
    /\ UNCHANGED <<recorded, shown, over, ending, writer, overtaken>>

\* Mutant: a terminal record closes the stream at once.
CheckStatusCloses(v) ==
    /\ viewer[v].pc = "check"
    /\ viewer' = [viewer EXCEPT ![v].pc = IF over THEN "closed" ELSE "read"]
    /\ UNCHANGED <<recorded, shown, over, ending, writer, overtaken>>

\* The status is read after the events, in a statement of its own.
CheckStatus(v) ==
    /\ viewer[v].pc = "check"
    /\ viewer' = [viewer EXCEPT ![v].pc = IF over THEN "trailing" ELSE "read"]
    /\ UNCHANGED <<recorded, shown, over, ending, writer, overtaken>>

ReadTrailing(v) ==
    /\ viewer[v].pc = "trailing"
    /\ Sends(v, "closed")
    /\ UNCHANGED <<recorded, shown, over, ending, writer, overtaken>>

\* The connection ends in the middle of a page; the client keeps what it has.
Leave(v) ==
    LET now  == viewer[v]
        page == IF now.pc = "check" THEN {} ELSE Page(now.cursor)
    IN
    /\ now.pc \in {"read", "check", "trailing"}
    /\ \E last \in page \cup {now.cursor} :
          viewer' = [viewer EXCEPT ![v].pc = "away", ![v].cursor = last,
                                   ![v].got = @ \cup {s \in page : s <= last}]
    /\ UNCHANGED <<recorded, shown, over, ending, writer, overtaken>>

StreamStep ==
    \/ \E w \in Writers :
          \/ \E n \in 1 .. MaxSeq, does \in {"nothing", "ends"} : InsertBatch(w, n, does)
          \/ CommitBatch(w) \/ LoseBatch(w)
    \/ EndWithoutEvent
    \/ \E v \in Viewers :
          Open(v) \/ ReadEvents(v) \/ CheckStatus(v) \/ ReadTrailing(v) \/ Leave(v)

StreamSpec == StreamInit /\ [][StreamStep]_streamVars

-----------------------------------------------------------------------------
StreamTypeOK ==
    /\ recorded \in 0 .. MaxSeq /\ shown \subseteq 1 .. recorded
    /\ ending \in 0 .. MaxSeq
    /\ \A v \in Viewers :
          /\ viewer[v].pc \in {"away", "read", "check", "trailing", "closed"}
          /\ viewer[v].got \subseteq shown
          /\ viewer[v].full \in BOOLEAN

\* However reads, reconnects and commits interleave, a client lacks no event behind
\* its cursor but those committed after its cursor had passed them; and a stream that
\* closes has shown what ended the investigation, unless its last
\* page was full.
StreamIsComplete ==
    \A v \in Viewers :
        LET seen == viewer[v].got \cup overtaken[v] IN
        /\ \A s \in shown : s <= viewer[v].cursor => s \in seen
        /\ viewer[v].pc = "closed" /\ ending # 0 /\ ~viewer[v].full => ending \in seen
=============================================================================
