-------------------------- MODULE InvestigationChat --------------------------
(***************************************************************************)
(* Messages from a user to the investigating agent: record_user_message    *)
(* stores them, the bridge's inbox poller fetches them by a cursor over    *)
(* their ids and writes them to Prime's stdin.  The cursor belongs to the  *)
(* bridge, the poller and the stdin to one attempt.                        *)
(*                                                                         *)
(* Ids are drawn when a message is inserted and seen when it is committed; *)
(* a rollback leaves a gap.  The bodies and modes of messages are left out.*)
(***************************************************************************)
EXTENDS Naturals, Sequences, FiniteSets, SequencesExt

CONSTANTS Senders,       \* POST /messages requests open at one time
          InboxPage,     \* messages of one poll, 50 in the code
          MaxMessages,   \* bound: ids drawn
          MaxAttempts    \* max_retries + 1

ASSUME ChatAssumption == {InboxPage, MaxAttempts} \subseteq Nat \ {0} /\ MaxMessages \in Nat

VARIABLES
    lastId,     \* the last id drawn
    sender,     \* the message requests
    inbox,      \* the ids of the committed messages
    finished,   \* the committed status of the record is terminal
    cursor,     \* SandboxBridge.cursor
    poller,     \* where the inbox poller of the attempt stands
    polled,     \* what it has fetched and not written
    attempt,    \* its number, and whether its stdin is open
    relayed,    \* history: the messages written to an open stdin, in order
    unwritten,  \* history: those fetched and never written
    passedOver  \* history: those committed when the cursor was past them

chatVars   == <<lastId, sender, inbox, finished, cursor, poller, polled, attempt,
                relayed, unwritten, passedOver>>
serverVars == <<lastId, sender, inbox, finished>>
bridgeVars == <<cursor, poller, polled, attempt, relayed, unwritten>>

Mute == [pc |-> "idle", id |-> 0]

ChatInit ==
    /\ lastId = 0 /\ sender = [s \in Senders |-> Mute] /\ inbox = {} /\ finished = FALSE
    /\ cursor = 0 /\ poller = "polling" /\ polled = <<>>
    /\ attempt = [number |-> 1, stdin |-> "open"]
    /\ relayed = <<>> /\ unwritten = {} /\ passedOver = {}

-----------------------------------------------------------------------------
(* record_user_message                                                      *)

SendChecks(s) ==
    /\ sender[s].pc = "idle" /\ ~finished
    /\ sender' = [sender EXCEPT ![s].pc = "checked"]
    /\ UNCHANGED <<lastId, inbox, finished, passedOver, bridgeVars>>

SendInserts(s) ==
    /\ sender[s].pc = "checked" /\ lastId < MaxMessages
    /\ sender' = [sender EXCEPT ![s] = [pc |-> "inserted", id |-> lastId + 1]]
    /\ lastId' = lastId + 1
    /\ UNCHANGED <<inbox, finished, passedOver, bridgeVars>>

\* The commit follows the answer.
SendCommits(s) ==
    LET id == sender[s].id IN
    /\ sender[s].pc = "inserted"
    /\ inbox' = inbox \cup {id}
    /\ passedOver' = IF id <= cursor THEN passedOver \cup {id} ELSE passedOver
    /\ sender' = [sender EXCEPT ![s] = Mute]
    /\ UNCHANGED <<lastId, finished, bridgeVars>>

SendRollsBack(s) ==
    /\ sender[s].pc \in {"checked", "inserted"}
    /\ sender' = [sender EXCEPT ![s] = Mute]
    /\ UNCHANGED <<lastId, inbox, finished, passedOver, bridgeVars>>

RecordFinishes ==
    /\ ~finished /\ finished' = TRUE
    /\ UNCHANGED <<lastId, sender, inbox, passedOver, bridgeVars>>

-----------------------------------------------------------------------------
(* inbox_poller                                                             *)

NotPolled == {id \in inbox : id > cursor}
NextMessages == {id \in NotPolled : Cardinality({other \in NotPolled : other < id}) < InboxPage}

\* ORDER BY id: the sequences that have the next messages in the order of their ids.
NextPages ==
    {page \in [1 .. Cardinality(NextMessages) -> NextMessages] :
        ToSet(page) = NextMessages /\ \A m, n \in DOMAIN page : m < n => page[m] < page[n]}

\* Mutant: the cursor counts messages, as where an answer has no next_cursor.
PollAnsweredCounting ==
    /\ poller = "polling"
    /\ \E page \in NextPages : polled' = page
    /\ cursor' = cursor + Cardinality(NextMessages)
    /\ poller' = "relaying"
    /\ UNCHANGED <<serverVars, attempt, relayed, unwritten, passedOver>>

\* The answer of GET /internal/inbox moves the cursor before anything is written.
PollAnswered ==
    /\ poller = "polling"
    /\ \E page \in NextPages : polled' = page
    /\ cursor' = IF NextMessages = {} THEN cursor ELSE Last(polled')
    /\ poller' = "relaying"
    /\ UNCHANGED <<serverVars, attempt, relayed, unwritten, passedOver>>

\* An error status, a lost answer, the 30-second timeout.
PollFails ==
    /\ poller = "polling"
    /\ poller' = "waiting"
    /\ UNCHANGED <<serverVars, cursor, polled, attempt, relayed, unwritten, passedOver>>

\* send_rpc_command writes nothing to a stdin that is closing.
RelayMessage ==
    /\ poller = "relaying" /\ polled # <<>>
    /\ IF attempt.stdin = "open"
       THEN relayed' = Append(relayed, Head(polled)) /\ UNCHANGED unwritten
       ELSE unwritten' = unwritten \cup {Head(polled)} /\ UNCHANGED relayed
    /\ polled' = Tail(polled)
    /\ UNCHANGED <<serverVars, cursor, poller, attempt, passedOver>>

Dropping == unwritten' = unwritten \cup ToSet(polled) /\ polled' = <<>>

\* The write fails: Prime has died.  The poller's except clause goes on to its wait.
RelayRaises ==
    /\ poller = "relaying" /\ polled # <<>> /\ attempt.stdin = "open"
    /\ Dropping /\ poller' = "waiting"
    /\ UNCHANGED <<serverVars, cursor, attempt, relayed, passedOver>>

RelayEnds ==
    /\ poller = "relaying" /\ polled = <<>>
    /\ poller' = "waiting"
    /\ UNCHANGED <<serverVars, cursor, polled, attempt, relayed, unwritten, passedOver>>

\* The wait for stop_loops_event, which wind-down sets before it closes stdin and an
\* exception of the run does not.
WaitEnds ==
    /\ poller = "waiting"
    /\ poller' = IF attempt.stdin = "closing" THEN "stopped" ELSE "polling"
    /\ UNCHANGED <<serverVars, cursor, polled, attempt, relayed, unwritten, passedOver>>

-----------------------------------------------------------------------------
(* The attempts of run()                                                    *)

WindDown ==
    /\ attempt.stdin = "open"
    /\ attempt' = [attempt EXCEPT !.stdin = "closing"]
    /\ UNCHANGED <<serverVars, cursor, poller, polled, relayed, unwritten, passedOver>>

\* run() leaves through its except clause; the poller is not stopped.
RunRaises ==
    /\ attempt.stdin = "open"
    /\ attempt' = [attempt EXCEPT !.stdin = "closed"]
    /\ UNCHANGED <<serverVars, cursor, poller, polled, relayed, unwritten, passedOver>>

\* The poller has stopped or is cancelled at the end of the grace period.
AttemptEnds ==
    /\ attempt.stdin = "closing" /\ poller # "ended"
    /\ Dropping /\ poller' = "ended"
    /\ UNCHANGED <<serverVars, cursor, attempt, relayed, passedOver>>

NextAttempt ==
    /\ attempt.stdin = "closing" /\ poller = "ended" /\ attempt.number < MaxAttempts
    /\ attempt' = [number |-> attempt.number + 1, stdin |-> "open"]
    /\ poller' = "polling"
    /\ UNCHANGED <<serverVars, cursor, polled, relayed, unwritten, passedOver>>

ChatNext ==
    \/ \E s \in Senders : SendChecks(s) \/ SendInserts(s) \/ SendCommits(s) \/ SendRollsBack(s)
    \/ RecordFinishes
    \/ PollAnswered \/ PollFails \/ RelayMessage \/ RelayRaises \/ RelayEnds \/ WaitEnds
    \/ WindDown \/ RunRaises \/ AttemptEnds \/ NextAttempt

ChatSpec == ChatInit /\ [][ChatNext]_chatVars

-----------------------------------------------------------------------------
ChatTypeOK ==
    /\ inbox \subseteq 1 .. lastId /\ lastId \in 0 .. MaxMessages
    /\ cursor \in 0 .. lastId
    /\ poller \in {"polling", "relaying", "waiting", "stopped", "ended"}
    /\ attempt \in [number : 1 .. MaxAttempts, stdin : {"open", "closing", "closed"}]

\* Across polls that fail, attempts that end and ids that are committed out of order,
\* Prime gets the messages in the order of their ids and none of them twice, and the
\* cursor tells the rest: every message it has passed was written, is about to be,
\* was dropped with its attempt, or was committed too late.
MessagesAreRelayedOnce ==
    /\ \A m, n \in DOMAIN relayed : m < n => relayed[m] < relayed[n]
    /\ {id \in inbox : id <= cursor} = ToSet(relayed) \cup ToSet(polled) \cup unwritten \cup passedOver
    /\ (ToSet(relayed) \cup ToSet(polled)) \cap (unwritten \cup passedOver) = {}
    /\ ToSet(relayed) \cap ToSet(polled) = {}
=============================================================================
