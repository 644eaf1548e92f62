-------------------------- MODULE Simulation_proofs --------------------------
(***************************************************************************)
(* A run of a case and the comparison of a suite's runs, for any number of *)
(* clients, any size of their queues and any suite.                        *)
(*                                                                         *)
(* Of a run: what has been recorded says how far run_bundle came, what the *)
(* handle says agrees with it, and a client's queue holds the last events  *)
(* of the transcript, one after the other.  Of a comparison: the counters  *)
(* of the cohort say what was seen, and exchanging the sides of a case     *)
(* turns an improvement into a regression.                                 *)
(***************************************************************************)
EXTENDS SimulationRun, SuiteComparison, SequenceTheorems, TLAPS

-----------------------------------------------------------------------------
(* The run of one case                                                      *)

Kinds   == {"environment.created", "environment.seeded", "environment.destroyed", "agent",
            "evaluator.result", "run.completed"}
Errors  == {"none", "rejected", "environment", "domain", "model", "evaluator"}
Streams == [pc : {"away", "streaming", "ended"}, queue : Seq(Nat), joined : Nat, got : Nat,
            last : Nat, overflowed : BOOLEAN]

SimTypeInv ==
    /\ task \in {"start", "seed", "agent", "final_state", "destroy", "done"}
    /\ environment \in {"none", "open", "closed"}
    /\ raised \in Errors
    /\ handle \in [status : {"running", "completed", "failed"}, error : Errors \cup {"cleanup"}]
    /\ transcript \in Seq(Kinds)
    /\ client \in [Clients -> Streams]

Occurs(kind) == \E k \in 1 .. Len(transcript) : transcript[k] = kind
EndsWith(kind, k) == Len(transcript) >= k /\ transcript[Len(transcript) - k + 1] = kind

\* Where the task stands tells what the run has and has not done so far.
ProgressInv ==
    /\ task # "done" => handle = [status |-> "running", error |-> "none"]
                        /\ ~Occurs("environment.destroyed")
    /\ task = "start" => environment = "none"
    /\ task \in {"seed", "agent", "final_state"} => environment = "open"
    /\ task \in {"start", "seed", "agent", "final_state"} => raised = "none"
    /\ task \notin {"destroy", "done"} \/ raised # "none" => ~Occurs("run.completed")
    /\ task = "destroy" => /\ environment \in {"open", "closed"}
                           /\ raised = "none" => environment = "open" /\ EndsWith("run.completed", 1)

\* How it is reported follows from how it ended.
SettledInv ==
    task = "done" =>
        /\ environment # "open"
        /\ raised # "none" => handle = [status |-> "failed", error |-> raised]
        /\ raised = "none" =>
              \/ /\ handle = [status |-> "completed", error |-> "none"]
                 /\ EndsWith("run.completed", 2) /\ EndsWith("environment.destroyed", 1)
              \/ /\ handle = [status |-> "failed", error |-> "cleanup"]
                 /\ ~Occurs("environment.destroyed")

\* Consecutive numbers, from the one that follows o.
Consecutive(s, o) == \A i \in 1 .. Len(s) : s[i] = o + i

\* What a client's queue holds, and what it has had, by the length of the transcript.
Follows(c, n) ==
    /\ Len(c.queue) <= SubscriberBuffer
    /\ Consecutive(c.queue, n - Len(c.queue))
    /\ c.pc = "away" => c = Away
    /\ c.pc # "away" =>
          /\ Len(c.queue) <= n
          /\ c.joined <= n - Len(c.queue) /\ c.last <= n - Len(c.queue)
          /\ c.last = n - Len(c.queue) \/ (c.overflowed /\ c.queue # <<>>)
             \/ (c.got = 0 /\ c.joined = n - Len(c.queue) /\ ~c.overflowed)
          /\ ~c.overflowed => c.got + Len(c.queue) = n - c.joined
    /\ c.pc = "ended" => c.queue = <<>>

StreamInv ==
    \A c \in Clients : /\ Follows(client[c], Len(transcript))
                       /\ client[c].pc = "ended" => task = "done"

SimInv == SimTypeInv /\ ProgressInv /\ SettledInv /\ StreamInv

-----------------------------------------------------------------------------
(* The queue of a client                                                    *)

LEMMA BufferHasRoom == SubscriberBuffer \in Nat /\ SubscriberBuffer > 0
  BY SimAssumption

\* What is left of consecutive numbers when the first of them go.
LEMMA RestConsecutive ==
    ASSUME NEW s \in Seq(Nat), NEW o \in Nat, NEW x \in Nat, x <= Len(s), Consecutive(s, o)
    PROVE  /\ SubSeq(s, x + 1, Len(s)) \in Seq(Nat)
           /\ Len(SubSeq(s, x + 1, Len(s))) = Len(s) - x
           /\ Consecutive(SubSeq(s, x + 1, Len(s)), o + x)
<1> DEFINE q == SubSeq(s, x + 1, Len(s))
<1>1. Len(s) \in Nat
  OBVIOUS
<1>2. \A i \in x + 1 .. Len(s) : s[i] \in Nat
  BY <1>1
<1>3. /\ q \in Seq(Nat)
      /\ Len(q) = (IF x + 1 <= Len(s) THEN Len(s) - (x + 1) + 1 ELSE 0)
      /\ \A i \in 1 .. Len(s) - (x + 1) + 1 : q[i] = s[(x + 1) + i - 1]
  BY <1>1, <1>2, SubSeqProperties
<1> HIDE DEF q
<1>4. Len(q) = Len(s) - x
  BY <1>1, <1>3
<1>5. ASSUME NEW i \in 1 .. Len(q) PROVE q[i] = o + x + i
  <2>1. i \in 1 .. Len(s) - (x + 1) + 1 /\ (x + 1) + i - 1 = x + i /\ x + i \in 1 .. Len(s)
    BY <1>1, <1>4
  <2>2. q[i] = s[x + i]
    BY <1>3, <2>1
  <2>3. s[x + i] = o + (x + i)
    BY <2>1 DEF Consecutive
  <2> QED BY <2>1, <2>2, <2>3
<1> QED BY <1>3, <1>4, <1>5 DEF q, Consecutive

\* What the new events' numbers make of them.
LEMMA MoreCount ==
    ASSUME NEW s \in Seq(Nat), NEW n \in Nat, NEW k \in Nat, NEW o \in Nat, n = o + Len(s),
           Consecutive(s, o)
    PROVE  LET all == s \o [i \in 1 .. k |-> n + i] IN
           all \in Seq(Nat) /\ Len(all) = Len(s) + k /\ Consecutive(all, o)
<1> DEFINE new == [i \in 1 .. k |-> n + i]
           all == s \o new
<1>1. Len(s) \in Nat
  OBVIOUS
<1>2. new \in Seq(Nat) /\ Len(new) = k /\ \A i \in 1 .. k : new[i] = n + i
  OBVIOUS
<1> HIDE DEF new
<1>3. /\ all \in Seq(Nat) /\ Len(all) = Len(s) + k
      /\ \A i \in 1 .. Len(s) + k : all[i] = IF i <= Len(s) THEN s[i] ELSE new[i - Len(s)]
  BY <1>2, ConcatProperties
<1> HIDE DEF all
<1>4. ASSUME NEW i \in 1 .. Len(all) PROVE all[i] = o + i
  <2>1. i \in 1 .. Len(s) + k /\ (i > Len(s) => i - Len(s) \in 1 .. k)
    BY <1>1, <1>3
  <2>2. CASE i <= Len(s)
    <3>1. all[i] = s[i] /\ i \in 1 .. Len(s)
      BY <1>1, <1>3, <2>1, <2>2
    <3> QED BY <3>1 DEF Consecutive
  <2>3. CASE i > Len(s)
    <3>1. all[i] = new[i - Len(s)] /\ i - Len(s) \in 1 .. k
      BY <1>1, <1>3, <2>1, <2>3
    <3>2. all[i] = n + (i - Len(s))
      BY <1>2, <3>1
    <3> QED BY <1>1, <2>1, <3>2
  <2> QED BY <1>1, <2>1, <2>2, <2>3
<1> QED BY <1>3, <1>4 DEF all, new, Consecutive

\* What has to go leaves what there is room for.
LEMMA ExcessLeaves ==
    ASSUME NEW all \in Seq(Nat)
    PROVE  /\ Excess(all) \in Nat /\ Excess(all) <= Len(all)
           /\ Len(all) - Excess(all) <= SubscriberBuffer
           /\ Excess(all) > 0 => Len(all) - Excess(all) = SubscriberBuffer
<1>1. Len(all) \in Nat
  OBVIOUS
<1> QED BY <1>1, BufferHasRoom DEF Excess

\* What a queue of the newest events holds once more have come: the newest of all.
LEMMA NewestStay ==
    ASSUME NEW s \in Seq(Nat), NEW n \in Nat, NEW k \in Nat, Len(s) <= n,
           Consecutive(s, n - Len(s))
    PROVE  LET all == s \o [i \in 1 .. k |-> n + i]
               x   == Excess(all)
               q  == SubSeq(all, x + 1, Len(all)) IN
           /\ x \in Nat
           /\ q \in Seq(Nat)
           /\ Len(q) = Len(s) + k - x
           /\ Len(q) <= SubscriberBuffer
           /\ x > 0 => Len(q) = SubscriberBuffer
           /\ Consecutive(q, n + k - Len(q))
<1> DEFINE all == s \o [i \in 1 .. k |-> n + i]
           x == Excess(all)
           q == SubSeq(all, x + 1, Len(all))
<1>1. PICK l : l = Len(s)
  OBVIOUS
<1>2. PICK o : o = n - l
  OBVIOUS
<1>3. l \in Nat /\ l <= n /\ o \in Nat /\ n = o + l /\ Consecutive(s, o)
  <2>1. l \in Nat
    BY <1>1
  <2> QED BY <1>1, <1>2, <2>1
<1>4. all \in Seq(Nat) /\ Len(all) = l + k /\ Consecutive(all, o)
  BY <1>1, <1>3, MoreCount
<1> HIDE DEF all
<1>5. /\ x \in Nat /\ x <= l + k /\ l + k - x <= SubscriberBuffer
      /\ x > 0 => l + k - x = SubscriberBuffer
  <2>1. all \in Seq(Nat)
    BY <1>4
  <2>2. /\ x \in Nat /\ x <= Len(all) /\ Len(all) - x <= SubscriberBuffer
        /\ x > 0 => Len(all) - x = SubscriberBuffer
    BY <2>1, ExcessLeaves
  <2> HIDE DEF x
  <2> QED BY <1>3, <1>4, <2>2
<1> HIDE DEF x
<1>6. q \in Seq(Nat) /\ Len(q) = l + k - x /\ Consecutive(q, o + x)
  <2>1. x <= Len(all)
    BY <1>4, <1>5
  <2>2. all \in Seq(Nat) /\ Consecutive(all, o) /\ o \in Nat /\ x \in Nat
    BY <1>3, <1>4, <1>5
  <2>3. q \in Seq(Nat) /\ Len(q) = Len(all) - x /\ Consecutive(q, o + x)
    BY <2>1, <2>2, RestConsecutive
  <2> QED BY <1>3, <1>4, <1>5, <2>3
<1> HIDE DEF q
<1>7. o + x = n + k - Len(q)
  BY <1>3, <1>5, <1>6
<1> QED BY <1>1, <1>5, <1>6, <1>7 DEF q, x, all

\* What is offered to a client keeps what its queue means: the newest events, in
\* their order, and never more than there is room for.
LEMMA OfferFollows ==
    ASSUME NEW c \in Streams, c.pc = "streaming", NEW n \in Nat, NEW k \in Nat, Follows(c, n)
    PROVE  /\ Offer(c, n, k) \in Streams
           /\ Offer(c, n, k).pc = "streaming"
           /\ Follows(Offer(c, n, k), n + k)
<1> USE BufferHasRoom
<1> DEFINE all == c.queue \o [i \in 1 .. k |-> n + i]
           x   == Excess(all)
           q   == SubSeq(all, x + 1, Len(all))
           d   == Offer(c, n, k)
<1>1. /\ c.joined \in Nat /\ c.got \in Nat /\ c.last \in Nat /\ c.overflowed \in BOOLEAN
      /\ c.queue \in Seq(Nat)
  BY DEF Streams
<1>2. PICK l \in Nat, joined \in Nat, got \in Nat, last \in Nat :
         l = Len(c.queue) /\ joined = c.joined /\ got = c.got /\ last = c.last
  BY <1>1
<1>3. l = 0 => c.queue = <<>>
  BY <1>1, <1>2, EmptySeq
<1>4. /\ l <= SubscriberBuffer /\ l <= n
      /\ joined <= n - l /\ last <= n - l
      /\ last = n - l \/ (c.overflowed /\ c.queue # <<>>)
         \/ (got = 0 /\ joined = n - l /\ ~c.overflowed)
      /\ ~c.overflowed => got + l = n - joined
  BY <1>2 DEF Follows
<1>5. Consecutive(c.queue, n - Len(c.queue))
  BY DEF Follows
<1>6. /\ x \in Nat /\ q \in Seq(Nat)
      /\ Len(q) = Len(c.queue) + k - x /\ Len(q) <= SubscriberBuffer
      /\ x > 0 => Len(q) = SubscriberBuffer
      /\ Consecutive(q, n + k - Len(q))
  <2>1. c.queue \in Seq(Nat) /\ Len(c.queue) <= n
    BY <1>1, <1>2, <1>4
  <2> QED BY <1>5, <2>1, NewestStay
<1>7. /\ d.queue = q /\ (d.overflowed <=> (c.overflowed \/ x > 0))
      /\ d.pc = "streaming" /\ d.joined = joined /\ d.got = got /\ d.last = last
      /\ d \in Streams
  <2>1. q \in Seq(Nat) /\ x \in Nat
    BY <1>6
  <2>2. d = [c EXCEPT !.queue = q, !.overflowed = @ \/ x > 0]
    BY DEF Offer, Offered
  <2> HIDE DEF q, x, d
  <2> QED BY <1>1, <1>2, <2>1, <2>2 DEF Streams
<1> HIDE DEF d, q, x, all
<1>8. PICK m \in Nat, y \in Nat : m = Len(q) /\ y = x
  <2>1. q \in Seq(Nat) /\ x \in Nat
    BY <1>6
  <2> QED BY <2>1
<1>9. /\ m = l + k - y /\ m <= SubscriberBuffer
      /\ y > 0 => m = SubscriberBuffer
  BY <1>2, <1>6, <1>8
<1>10. m # 0 => q # <<>>
  BY <1>8
<1>11. joined <= n + k - m /\ last <= n + k - m /\ m <= n + k
  BY <1>4, <1>9
<1>12. last = n + k - m \/ (d.overflowed /\ q # <<>>)
       \/ (got = 0 /\ joined = n + k - m /\ ~d.overflowed)
  <2>1. ASSUME y > 0 PROVE d.overflowed /\ q # <<>>
    <3>1. m # 0
      BY <1>9, <2>1
    <3> QED BY <1>7, <1>8, <1>10, <2>1, <3>1
  <2>2. ASSUME ~(y > 0)
        PROVE  last = n + k - m \/ (d.overflowed /\ q # <<>>)
               \/ (got = 0 /\ joined = n + k - m /\ ~d.overflowed)
    <3>1. n + k - m = n - l /\ (l # 0 => m # 0)
      BY <1>9, <2>2
    <3>2. d.overflowed <=> c.overflowed
      BY <1>7, <1>8, <2>2
    <3> QED BY <1>3, <1>4, <1>10, <3>1, <3>2
  <2> QED BY <2>1, <2>2
<1>13. ~d.overflowed => got + m = n + k - joined
  <2> SUFFICES ASSUME ~d.overflowed PROVE got + m = n + k - joined
    OBVIOUS
  <2>1. ~(y > 0) /\ ~c.overflowed
    BY <1>7, <1>8
  <2> QED BY <1>4, <1>9, <2>1
<1>14. Follows(d, n + k)
  <2>1. Len(d.queue) = m /\ d.queue = q /\ d.pc = "streaming"
        /\ d.joined = joined /\ d.got = got /\ d.last = last
    BY <1>7, <1>8
  <2>2. Consecutive(d.queue, n + k - Len(d.queue))
    BY <1>6, <2>1
  <2>3. m <= SubscriberBuffer
    BY <1>9
  <2> QED BY <1>11, <1>12, <1>13, <2>1, <2>2, <2>3 DEF Follows
<1> QED BY <1>7, <1>14 DEF d

\* Every event reaches the transcript and the clients of the run.
LEMMA EmitKeeps ==
    ASSUME SimTypeInv, StreamInv, NEW kinds \in Seq(Kinds), Emit(kinds), task # "done"
    PROVE  /\ transcript' \in Seq(Kinds) /\ Len(transcript') = Len(transcript) + Len(kinds)
           /\ client' \in [Clients -> Streams]
           /\ \A c \in Clients : /\ Follows(client'[c], Len(transcript'))
                                 /\ client'[c].pc # "ended"
<1>1. /\ transcript \in Seq(Kinds) /\ Len(transcript) \in Nat /\ Len(kinds) \in Nat
      /\ transcript' = transcript \o kinds
  BY DEF SimTypeInv, Emit
<1>2. transcript' \in Seq(Kinds) /\ Len(transcript') = Len(transcript) + Len(kinds)
  BY <1>1
<1>3. ASSUME NEW c \in Clients
      PROVE  /\ client'[c] \in Streams /\ Follows(client'[c], Len(transcript'))
             /\ client'[c].pc # "ended"
  <2>1. /\ client[c] \in Streams /\ Follows(client[c], Len(transcript))
        /\ client[c].pc # "ended" /\ client[c].pc \in {"away", "streaming", "ended"}
    BY DEF SimTypeInv, StreamInv, Streams
  <2>2. ASSUME client[c].pc = "streaming"
        PROVE  /\ client'[c] \in Streams /\ Follows(client'[c], Len(transcript'))
               /\ client'[c].pc = "streaming"
    <3>1. client'[c] = Offer(client[c], Len(transcript), Len(kinds))
      BY <2>2 DEF Emit
    <3>2. Offer(client[c], Len(transcript), Len(kinds)).pc = "streaming"
          /\ Offer(client[c], Len(transcript), Len(kinds)) \in Streams
          /\ Follows(Offer(client[c], Len(transcript), Len(kinds)), Len(transcript) + Len(kinds))
      BY <1>1, <2>1, <2>2, OfferFollows
    <3> QED BY <1>2, <3>1, <3>2
  <2>3. ASSUME client[c].pc = "away"
        PROVE  /\ client'[c] \in Streams /\ Follows(client'[c], Len(transcript'))
               /\ client'[c].pc = "away"
    <3>1. client'[c] = client[c] /\ client[c] = Away
      BY <2>1, <2>3 DEF Emit, Follows
    <3>2. Away.queue = <<>> /\ Away.pc = "away" /\ Len(<<>>) = 0
      BY DEF Away
    <3>3. Consecutive(Away.queue, Len(transcript') - Len(Away.queue))
      BY <3>2 DEF Consecutive
    <3> QED BY <2>1, <3>1, <3>2, <3>3, BufferHasRoom DEF Follows
  <2> QED BY <2>1, <2>2, <2>3
<1>4. client' = [c \in Clients |-> client'[c]]
  BY DEF Emit
<1> QED BY <1>2, <1>3, <1>4

-----------------------------------------------------------------------------
(* The steps of the task                                                    *)

\* What the transcript holds after some events, and how it ends.
LEMMA EmitShows ==
    ASSUME transcript \in Seq(Kinds), NEW kinds \in Seq(Kinds), Emit(kinds)
    PROVE  /\ \A kind : Occurs(kind)' => Occurs(kind) \/ \E k \in 1 .. Len(kinds) : kinds[k] = kind
           /\ Len(kinds) > 0 => \A kind : EndsWith(kind, 1)' <=> kinds[Len(kinds)] = kind
           /\ Len(kinds) = 1 => \A kind : EndsWith(kind, 1) => EndsWith(kind, 2)'
<1>1. PICK m \in Nat, l \in Nat : m = Len(transcript) /\ l = Len(kinds)
  OBVIOUS
<1>2. /\ transcript' = transcript \o kinds
      /\ Len(transcript') = m + l
      /\ \A k \in 1 .. m + l : transcript'[k] = IF k <= m THEN transcript[k] ELSE kinds[k - m]
  BY <1>1, ConcatProperties DEF Emit
<1>3. ASSUME NEW kind, Occurs(kind)'
      PROVE  Occurs(kind) \/ \E k \in 1 .. Len(kinds) : kinds[k] = kind
  <2>1. PICK k \in 1 .. m + l : transcript'[k] = kind
    BY <1>2, <1>3 DEF Occurs
  <2>2. CASE k <= m
    <3>1. transcript[k] = kind /\ k \in 1 .. Len(transcript)
      BY <1>1, <1>2, <2>1, <2>2
    <3> QED BY <3>1 DEF Occurs
  <2>3. CASE k > m
    <3>1. kinds[k - m] = kind /\ k - m \in 1 .. Len(kinds)
      BY <1>1, <1>2, <2>1, <2>3
    <3> QED BY <3>1
  <2> QED BY <1>1, <2>1, <2>2, <2>3
<1>4. ASSUME Len(kinds) > 0, NEW kind PROVE EndsWith(kind, 1)' <=> kinds[Len(kinds)] = kind
  <2>1. l > 0 /\ m + l \in 1 .. m + l /\ ~(m + l <= m) /\ m + l - m = l
    BY <1>1, <1>4
  <2>2. transcript'[m + l] = kinds[l]
    BY <1>2, <2>1
  <2>3. Len(transcript') >= 1 /\ Len(transcript') - 1 + 1 = m + l
    BY <1>1, <1>2, <2>1
  <2> QED BY <1>1, <2>2, <2>3 DEF EndsWith
<1>5. ASSUME Len(kinds) = 1, NEW kind, EndsWith(kind, 1) PROVE EndsWith(kind, 2)'
  <2>1. m >= 1 /\ transcript[m] = kind /\ l = 1
    BY <1>1, <1>5 DEF EndsWith
  <2>2. transcript'[m] = kind
    BY <1>1, <1>2, <2>1
  <2>3. Len(transcript') >= 2 /\ Len(transcript') - 2 + 1 = m
    BY <1>1, <1>2, <2>1
  <2> QED BY <2>2, <2>3 DEF EndsWith
<1> QED BY <1>3, <1>4, <1>5

LEMMA OneKind ==
    ASSUME NEW kind \in Kinds
    PROVE  /\ <<kind>> \in Seq(Kinds) /\ Len(<<kind>>) = 1
           /\ \A k \in 1 .. Len(<<kind>>) : <<kind>>[k] = kind
  OBVIOUS

\* A step of the task that says nothing changes nothing for the clients.
LEMMA SilentKeeps ==
    ASSUME StreamInv, task # "done", Silent PROVE StreamInv'
  BY DEF StreamInv, Silent

LEMMA EmitKeepsStreams ==
    ASSUME SimTypeInv, StreamInv, NEW kinds \in Seq(Kinds), Emit(kinds), task # "done"
    PROVE  StreamInv'
  BY EmitKeeps DEF StreamInv

LEMMA RejectStep == SimInv /\ RejectBundle => SimInv'
<1> SUFFICES ASSUME SimInv, RejectBundle PROVE SimInv'
  OBVIOUS
<1>1. StreamInv'
  BY SilentKeeps DEF SimInv, RejectBundle
<1>2. SimTypeInv'
  BY DEF SimInv, SimTypeInv, RejectBundle, Settle, Silent, Errors
<1>3. ProgressInv' /\ SettledInv'
  BY DEF SimInv, ProgressInv, SettledInv, RejectBundle, Settle, Silent, Occurs
<1> QED BY <1>1, <1>2, <1>3 DEF SimInv

\* The failures before the clean-up: the environment is as it was, or closed.
LEMMA RaiseStep ==
    ASSUME SimInv, CreateFails \/ SeedFails \/ FinalStateFails \/ EvaluatorsFail \/ AgentEnds
    PROVE  SimInv'
<1>1. task # "done" /\ Silent
  BY DEF CreateFails, SeedFails, FinalStateFails, EvaluatorsFail, AgentEnds
<1>2. StreamInv'
  BY <1>1, SilentKeeps DEF SimInv
<1>3. SimTypeInv'
  BY <1>1 DEF SimInv, SimTypeInv, CreateFails, SeedFails, FinalStateFails, EvaluatorsFail,
     AgentEnds, Raise, Silent, Errors
<1>4. UNCHANGED <<transcript, handle>> /\ task' \in {"destroy", "final_state"}
      /\ (task' = "destroy" => raised' # "none" /\ environment' \in {"open", "closed"})
      /\ (task' = "final_state" => raised' = raised /\ environment' = environment /\ task = "agent")
      /\ task \in {"start", "seed", "agent", "final_state"}
  BY DEF SimInv, ProgressInv, CreateFails, SeedFails, FinalStateFails, EvaluatorsFail,
     AgentEnds, Raise, Silent
<1>5. ProgressInv' /\ SettledInv'
  BY <1>4 DEF SimInv, ProgressInv, SettledInv, Occurs
<1> QED BY <1>2, <1>3, <1>5 DEF SimInv

LEMMA EmittingStep ==
    SimInv /\ (CreateEnvironment \/ SeedEnvironment \/ AgentEmits) => SimInv'
<1> SUFFICES ASSUME SimInv, CreateEnvironment \/ SeedEnvironment \/ AgentEmits PROVE SimInv'
  OBVIOUS
<1>1. PICK kind \in {"environment.created", "environment.seeded", "agent"} : Emit(<<kind>>)
  BY DEF CreateEnvironment, SeedEnvironment, AgentEmits
<1>2. <<kind>> \in Seq(Kinds) /\ Len(<<kind>>) = 1
      /\ \A k \in 1 .. Len(<<kind>>) : <<kind>>[k] = kind
  BY OneKind DEF Kinds
<1>3. SimTypeInv /\ StreamInv /\ task \in {"start", "seed", "agent"} /\ task' \in {"seed", "agent"}
      /\ transcript \in Seq(Kinds)
  BY DEF SimInv, SimTypeInv, CreateEnvironment, SeedEnvironment, AgentEmits
<1>4. StreamInv'
  BY <1>1, <1>2, <1>3, EmitKeepsStreams
<1>5. transcript' \in Seq(Kinds) /\ client' \in [Clients -> Streams]
  BY <1>1, <1>2, <1>3, EmitKeeps
<1>6. SimTypeInv'
  BY <1>3, <1>5 DEF SimTypeInv, CreateEnvironment, SeedEnvironment, AgentEmits
<1>7. ~Occurs("run.completed") /\ ~Occurs("environment.destroyed")
  BY <1>3 DEF SimInv, ProgressInv
<1>8. ~Occurs("run.completed")' /\ ~Occurs("environment.destroyed")'
  <2>1. \A other : Occurs(other)' => Occurs(other) \/ \E k \in 1 .. Len(<<kind>>) : <<kind>>[k] = other
    BY <1>1, <1>2, <1>3, EmitShows
  <2> QED BY <1>2, <1>7, <2>1
<1>9. environment' = "open" /\ UNCHANGED <<raised, handle>>
  BY DEF SimInv, ProgressInv, CreateEnvironment, SeedEnvironment, AgentEmits
<1>10. ProgressInv' /\ SettledInv'
  BY <1>3, <1>8, <1>9 DEF SimInv, ProgressInv, SettledInv
<1> QED BY <1>4, <1>6, <1>10 DEF SimInv

LEMMA EvaluateStep == SimInv /\ Evaluate => SimInv'
<1> SUFFICES ASSUME SimInv, Evaluate PROVE SimInv'
  OBVIOUS
<1> DEFINE Results(n) == [k \in 1 .. n |-> "evaluator.result"] \o <<"run.completed">>
<1>1. PICK n \in Nat : Emit(Results(n))
  <2>1. Evaluators \in Nat
    BY SimAssumption
  <2>2. CASE ending = "response"
    BY <2>1, <2>2 DEF Evaluate
  <2>3. CASE ending # "response"
    BY <2>3 DEF Evaluate
  <2> QED BY <2>2, <2>3
<1>2. PICK kinds : kinds = Results(n)
  OBVIOUS
<1>3. kinds \in Seq(Kinds) /\ Len(kinds) = n + 1 /\ kinds[n + 1] = "run.completed"
      /\ \A k \in 1 .. n + 1 : kinds[k] \in {"evaluator.result", "run.completed"}
  <2> DEFINE evaluations == [k \in 1 .. n |-> "evaluator.result"]
  <2>1. evaluations \in Seq(Kinds) /\ Len(evaluations) = n
        /\ \A k \in 1 .. n : evaluations[k] = "evaluator.result"
    BY DEF Kinds
  <2>2. <<"run.completed">> \in Seq(Kinds) /\ Len(<<"run.completed">>) = 1
        /\ \A k \in 1 .. 1 : <<"run.completed">>[k] = "run.completed"
    BY OneKind DEF Kinds
  <2> HIDE DEF evaluations
  <2>3. kinds = evaluations \o <<"run.completed">>
    BY <1>2 DEF evaluations
  <2>4. kinds \in Seq(Kinds) /\ Len(kinds) = n + 1
        /\ \A k \in 1 .. n + 1 : kinds[k] = IF k <= n THEN evaluations[k] ELSE <<"run.completed">>[k - n]
    BY <2>1, <2>2, <2>3, ConcatProperties
  <2>5. ASSUME NEW k \in 1 .. n + 1
        PROVE  kinds[k] = IF k <= n THEN "evaluator.result" ELSE "run.completed"
    <3>1. CASE k <= n
      BY <2>1, <2>4, <3>1
    <3>2. CASE ~(k <= n)
      <4>1. k - n \in 1 .. 1
        BY <3>2
      <4> QED BY <2>2, <2>4, <3>2, <4>1
    <3> QED BY <3>1, <3>2
  <2> QED BY <2>4, <2>5
<1>4. Emit(kinds)
  BY <1>1, <1>2
<1> HIDE DEF Results
<1>5. SimTypeInv /\ StreamInv /\ task = "final_state" /\ transcript \in Seq(Kinds)
  BY DEF SimInv, SimTypeInv, Evaluate
<1>6. StreamInv'
  BY <1>3, <1>4, <1>5, EmitKeepsStreams
<1>7. transcript' \in Seq(Kinds) /\ client' \in [Clients -> Streams]
  BY <1>3, <1>4, <1>5, EmitKeeps
<1>8. task' = "destroy" /\ UNCHANGED <<environment, raised, handle>>
      /\ environment = "open" /\ raised = "none" /\ handle = [status |-> "running", error |-> "none"]
  BY <1>5 DEF SimInv, ProgressInv, Evaluate
<1>9. SimTypeInv'
  BY <1>5, <1>7, <1>8 DEF SimTypeInv
<1>10. ~Occurs("environment.destroyed")' /\ EndsWith("run.completed", 1)'
  <2>1. ~Occurs("environment.destroyed")
    BY <1>5 DEF SimInv, ProgressInv
  <2>2. Len(kinds) > 0 /\ kinds[Len(kinds)] = "run.completed"
        /\ \A k \in 1 .. Len(kinds) : kinds[k] # "environment.destroyed"
    BY <1>3
  <2> QED BY <1>3, <1>4, <1>5, <2>1, <2>2, EmitShows
<1>11. ProgressInv' /\ SettledInv'
  BY <1>8, <1>10 DEF ProgressInv, SettledInv
<1> QED BY <1>6, <1>9, <1>11 DEF SimInv

\* The clean-up: after it the handle tells how the run ended.
LEMMA DestroyStep == SimInv /\ (DestroyEnvironment \/ DestroyFails) => SimInv'
<1> SUFFICES ASSUME SimInv, DestroyEnvironment \/ DestroyFails PROVE SimInv'
  OBVIOUS
<1>1. /\ SimTypeInv /\ StreamInv /\ task = "destroy" /\ task' = "done" /\ UNCHANGED raised
      /\ transcript \in Seq(Kinds) /\ environment' # "open" /\ environment' \in {"none", "open", "closed"}
      /\ handle = [status |-> "running", error |-> "none"]
      /\ ~Occurs("environment.destroyed")
      /\ raised = "none" => environment = "open" /\ EndsWith("run.completed", 1)
      /\ raised # "none" => ~Occurs("run.completed")
      /\ raised \in Errors
  <2>1. task = "destroy" /\ task' = "done" /\ UNCHANGED raised
        /\ environment' # "open" /\ environment' \in {"none", "open", "closed"}
    BY DEF SimInv, SimTypeInv, DestroyEnvironment, DestroyFails, Settle
  <2> QED BY <2>1 DEF SimInv, SimTypeInv, ProgressInv
<1>2. CASE DestroyEnvironment /\ environment = "open"
  <2>1. Emit(<<"environment.destroyed">>) /\ Settle(raised)
    BY <1>2 DEF DestroyEnvironment
  <2>2. <<"environment.destroyed">> \in Seq(Kinds) /\ Len(<<"environment.destroyed">>) = 1
        /\ \A k \in 1 .. Len(<<"environment.destroyed">>) :
              <<"environment.destroyed">>[k] = "environment.destroyed"
    BY OneKind DEF Kinds
  <2>3. StreamInv'
    BY <1>1, <2>1, <2>2, EmitKeepsStreams
  <2>4. transcript' \in Seq(Kinds) /\ client' \in [Clients -> Streams]
    BY <1>1, <2>1, <2>2, EmitKeeps
  <2>5. handle' = IF raised = "none" THEN [status |-> "completed", error |-> "none"]
                                     ELSE [status |-> "failed", error |-> raised]
    BY <1>1, <2>1 DEF Settle
  <2>6. SimTypeInv'
    BY <1>1, <2>4, <2>5 DEF SimTypeInv
  <2>7. /\ EndsWith("environment.destroyed", 1)'
        /\ raised = "none" => EndsWith("run.completed", 2)'
        /\ raised # "none" => ~Occurs("run.completed")'
    <3> DEFINE kinds == <<"environment.destroyed">>
    <3>1. kinds[Len(kinds)] = "environment.destroyed" /\ Len(kinds) > 0 /\ Len(kinds) = 1
          /\ kinds \in Seq(Kinds) /\ Emit(kinds)
          /\ \A k \in 1 .. Len(kinds) : kinds[k] # "run.completed"
      BY <2>1, <2>2
    <3> HIDE DEF kinds
    <3>2. /\ \A kind : Occurs(kind)' => Occurs(kind) \/ \E k \in 1 .. Len(kinds) : kinds[k] = kind
          /\ \A kind : EndsWith(kind, 1)' <=> kinds[Len(kinds)] = kind
          /\ \A kind : EndsWith(kind, 1) => EndsWith(kind, 2)'
      BY <1>1, <3>1, EmitShows
    <3> QED BY <1>1, <3>1, <3>2
  <2>8. ProgressInv' /\ SettledInv'
    BY <1>1, <2>5, <2>7 DEF ProgressInv, SettledInv
  <2> QED BY <2>3, <2>6, <2>8 DEF SimInv
<1>3. CASE ~(DestroyEnvironment /\ environment = "open")
  <2>1. Silent /\ (raised = "none" => DestroyFails)
    BY <1>1, <1>3 DEF DestroyEnvironment, DestroyFails
  <2>2. StreamInv'
    BY <1>1, <2>1, SilentKeeps
  <2>3. handle' = [status |-> "failed", error |-> IF raised = "none" THEN "cleanup" ELSE raised]
    <3>1. CASE raised = "none"
      BY <2>1, <3>1 DEF DestroyFails, Settle
    <3>2. CASE raised # "none"
      BY <1>1, <3>2 DEF DestroyEnvironment, DestroyFails, Settle
    <3> QED BY <3>1, <3>2
  <2>4. SimTypeInv'
    BY <1>1, <2>1, <2>3 DEF SimTypeInv, Silent
  <2>5. ProgressInv' /\ SettledInv'
    BY <1>1, <2>1, <2>3 DEF ProgressInv, SettledInv, Silent, Occurs
  <2> QED BY <2>2, <2>4, <2>5 DEF SimInv
<1> QED BY <1>2, <1>3

-----------------------------------------------------------------------------
(* The steps of the clients                                                 *)

LEMMA JoinStep == ASSUME SimInv, NEW c \in Clients, Join(c) PROVE SimInv'
<1>1. PICK n \in Nat : n = Len(transcript)
  BY DEF SimInv, SimTypeInv
<1>2. PICK d : client' = [client EXCEPT ![c] = d]
               /\ d = IF task = "done" THEN [Away EXCEPT !.pc = "ended", !.got = n, !.last = n]
                                       ELSE [Away EXCEPT !.pc = "streaming", !.joined = n]
  BY <1>1 DEF Join
<1>3. d \in Streams /\ Follows(d, n) /\ (d.pc = "ended" => task = "done")
  <2>1. /\ d.queue = <<>> /\ Len(d.queue) = 0 /\ d.overflowed = FALSE
        /\ d.pc = (IF task = "done" THEN "ended" ELSE "streaming")
        /\ d.joined = (IF task = "done" THEN 0 ELSE n)
        /\ d.got = (IF task = "done" THEN n ELSE 0)
        /\ d.last = (IF task = "done" THEN n ELSE 0)
    BY <1>1, <1>2 DEF Away
  <2>2. d \in Streams
    <3>1. Away \in Streams
      BY DEF Away, Streams
    <3>2. [Away EXCEPT !.pc = "ended", !.got = n, !.last = n] \in Streams
      BY <3>1 DEF Streams
    <3>3. [Away EXCEPT !.pc = "streaming", !.joined = n] \in Streams
      BY <3>1 DEF Streams
    <3> QED BY <1>2, <3>2, <3>3
  <2>3. Consecutive(d.queue, n - Len(d.queue))
    BY <2>1 DEF Consecutive
  <2> QED BY <1>1, <2>1, <2>2, <2>3, BufferHasRoom DEF Follows
<1>4. UNCHANGED <<task, environment, ending, raised, handle, transcript>>
  BY DEF Join
<1>5. SimTypeInv'
  BY <1>2, <1>3, <1>4 DEF SimInv, SimTypeInv
<1>6. StreamInv'
  BY <1>1, <1>2, <1>3, <1>4 DEF SimInv, SimTypeInv, StreamInv
<1>7. ProgressInv' /\ SettledInv'
  BY <1>4 DEF SimInv, ProgressInv, SettledInv, Occurs, EndsWith
<1> QED BY <1>5, <1>6, <1>7 DEF SimInv

\* What a client has received is where its queue begins.
LEMMA ReceiveStep == ASSUME SimInv, NEW c \in Clients, Receive(c) PROVE SimInv'
<1>1. PICK n \in Nat : n = Len(transcript)
  BY DEF SimInv, SimTypeInv
<1>2. PICK b : b = client[c]
  OBVIOUS
<1>3. PICK d : d = [b EXCEPT !.queue = Tail(b.queue), !.got = b.got + 1, !.last = Head(b.queue)]
  OBVIOUS
<1>4. client' = [client EXCEPT ![c] = d] /\ b.pc = "streaming" /\ b.queue # <<>>
      /\ UNCHANGED <<task, environment, ending, raised, handle, transcript>>
  <2>1. client' = [client EXCEPT ![c].queue = Tail(@), ![c].got = @ + 1,
                                 ![c].last = Head(client[c].queue)]
        /\ client \in [Clients -> Streams]
    BY DEF Receive, SimInv, SimTypeInv
  <2>2. client' = [client EXCEPT ![c] = d]
    BY <1>2, <1>3, <2>1 DEF Streams
  <2> QED BY <1>2, <2>2 DEF Receive
<1>5. b \in Streams /\ Follows(b, n)
  BY <1>1, <1>2 DEF SimInv, SimTypeInv, StreamInv
<1>6. b.queue \in Seq(Nat) /\ b.joined \in Nat /\ b.got \in Nat /\ b.overflowed \in BOOLEAN
  BY <1>5 DEF Streams
<1>7. PICK l \in Nat, joined \in Nat, got \in Nat : l = Len(b.queue) /\ joined = b.joined /\ got = b.got
  BY <1>6
<1>8. l <= SubscriberBuffer /\ l <= n /\ joined <= n - l /\ (~b.overflowed => got + l = n - joined)
      /\ Consecutive(b.queue, n - l)
  BY <1>4, <1>5, <1>7 DEF Follows
<1>9. l > 0 /\ Head(b.queue) \in Nat /\ Tail(b.queue) \in Seq(Nat) /\ Len(Tail(b.queue)) = l - 1
      /\ Head(b.queue) = b.queue[1]
      /\ \A i \in 1 .. l - 1 : Tail(b.queue)[i] = b.queue[i + 1]
  <2>1. l > 0
    BY <1>4, <1>6, <1>7, EmptySeq
  <2>2. Head(b.queue) \in Nat /\ Tail(b.queue) \in Seq(Nat) /\ Len(Tail(b.queue)) = Len(b.queue) - 1
        /\ \A i \in 1 .. Len(Tail(b.queue)) : Tail(b.queue)[i] = b.queue[i + 1]
    BY <1>4, <1>6, HeadTailProperties
  <2>3. Head(b.queue) = b.queue[1]
    BY <1>6
  <2> QED BY <1>7, <2>1, <2>2, <2>3
<1>10. PICK q, h : q = Tail(b.queue) /\ h = Head(b.queue)
  OBVIOUS
<1>11. h = n - l + 1 /\ h = n - Len(q) /\ Len(q) = l - 1
  <2>1. 1 \in 1 .. Len(b.queue) /\ Consecutive(b.queue, n - l)
    BY <1>7, <1>8, <1>9, BufferHasRoom
  <2>2. b.queue[1] = n - l + 1
    BY <2>1 DEF Consecutive
  <2>3. h = b.queue[1] /\ Len(q) = l - 1
    BY <1>9, <1>10
  <2> QED BY <2>2, <2>3
<1>12. Consecutive(q, n - Len(q))
  <2>1. ASSUME NEW i \in 1 .. Len(q) PROVE q[i] = n - Len(q) + i
    <3>1. i \in 1 .. l - 1 /\ i + 1 \in 1 .. Len(b.queue)
      BY <1>7, <1>11
    <3>2. q[i] = b.queue[i + 1]
      BY <1>9, <1>10, <3>1
    <3>3. b.queue[i + 1] = n - l + (i + 1)
      BY <1>8, <3>1 DEF Consecutive
    <3> QED BY <1>11, <3>1, <3>2, <3>3
  <2> QED BY <2>1 DEF Consecutive
<1>13. d.queue = q /\ d.got = got + 1 /\ d.last = h /\ d.joined = joined /\ d.pc = "streaming"
       /\ (d.overflowed <=> b.overflowed) /\ d \in Streams
  <2>1. q \in Seq(Nat) /\ h \in Nat /\ got + 1 \in Nat
    BY <1>9, <1>10
  <2>2. d = [b EXCEPT !.queue = q, !.got = got + 1, !.last = h]
    BY <1>3, <1>7, <1>10
  <2> QED BY <1>4, <1>5, <1>7, <2>1, <2>2 DEF Streams
<1>14. Follows(d, n)
  <2>1. d.joined <= n - Len(d.queue) /\ d.last <= n - Len(d.queue) /\ d.last = n - Len(d.queue)
        /\ Len(d.queue) <= n /\ Len(d.queue) <= SubscriberBuffer
    BY <1>8, <1>11, <1>13, BufferHasRoom
  <2>2. ~d.overflowed => d.got + Len(d.queue) = n - d.joined
    BY <1>8, <1>11, <1>13, BufferHasRoom
  <2> QED BY <1>12, <1>13, <2>1, <2>2 DEF Follows
<1>15. SimTypeInv'
  BY <1>4, <1>13 DEF SimInv, SimTypeInv
<1>16. StreamInv'
  BY <1>1, <1>4, <1>13, <1>14 DEF SimInv, SimTypeInv, StreamInv
<1>17. ProgressInv' /\ SettledInv'
  BY <1>4 DEF SimInv, ProgressInv, SettledInv, Occurs, EndsWith
<1> QED BY <1>15, <1>16, <1>17 DEF SimInv

LEMMA LeaveStep == ASSUME SimInv, NEW c \in Clients, EndStream(c) \/ Disconnect(c) PROVE SimInv'
<1>1. PICK d : client' = [client EXCEPT ![c] = d]
               /\ \/ /\ d = [client[c] EXCEPT !.pc = "ended"] /\ client[c].queue = <<>>
                     /\ client[c].pc = "streaming" /\ task = "done"
                  \/ d = Away
  BY DEF EndStream, Disconnect, SimInv, SimTypeInv
<1>2. client[c] \in Streams /\ Follows(client[c], Len(transcript))
  BY DEF SimInv, SimTypeInv, StreamInv
<1>3. d \in Streams /\ Follows(d, Len(transcript)) /\ (d.pc = "ended" => task = "done")
  <2>1. CASE d = Away
    <3>1. Away.queue = <<>> /\ Len(<<>>) = 0 /\ Away.pc = "away" /\ Away \in Streams
      BY DEF Away, Streams
    <3>2. Consecutive(Away.queue, Len(transcript) - Len(Away.queue))
      BY <3>1 DEF Consecutive
    <3> QED BY <2>1, <3>1, <3>2, BufferHasRoom DEF Follows
  <2>2. CASE d # Away
    <3>1. d = [client[c] EXCEPT !.pc = "ended"] /\ client[c].queue = <<>>
          /\ client[c].pc = "streaming" /\ task = "done"
      BY <1>1, <2>2
    <3>2. d \in Streams /\ d.pc = "ended" /\ d.queue = client[c].queue /\ d.joined = client[c].joined
          /\ d.got = client[c].got /\ d.last = client[c].last
          /\ (d.overflowed <=> client[c].overflowed)
      BY <1>2, <3>1 DEF Streams
    <3> QED BY <1>2, <3>1, <3>2 DEF Follows
  <2> QED BY <2>1, <2>2
<1>4. UNCHANGED <<task, environment, ending, raised, handle, transcript>>
  BY DEF EndStream, Disconnect
<1>5. SimTypeInv'
  BY <1>1, <1>3, <1>4 DEF SimInv, SimTypeInv
<1>6. StreamInv'
  BY <1>1, <1>3, <1>4 DEF SimInv, SimTypeInv, StreamInv
<1>7. ProgressInv' /\ SettledInv'
  BY <1>4 DEF SimInv, ProgressInv, SettledInv, Occurs, EndsWith
<1> QED BY <1>5, <1>6, <1>7 DEF SimInv

-----------------------------------------------------------------------------
(* What follows                                                             *)

LEMMA SimInitInv == SimInit => SimInv
<1> SUFFICES ASSUME SimInit PROVE SimInv
  OBVIOUS
<1>1. transcript = <<>> /\ Len(transcript) = 0 /\ transcript \in Seq(Kinds)
  BY DEF SimInit
<1>2. Away \in Streams /\ Away.queue = <<>> /\ Len(<<>>) = 0 /\ Away.pc = "away"
  BY DEF Away, Streams
<1>3. SimTypeInv
  BY <1>1, <1>2 DEF SimInit, SimTypeInv, Errors
<1>4. ProgressInv /\ SettledInv
  BY <1>1 DEF SimInit, ProgressInv, SettledInv, Occurs
<1>5. Follows(Away, 0)
  <2>1. Consecutive(Away.queue, 0 - Len(Away.queue))
    BY <1>2 DEF Consecutive
  <2> QED BY <1>2, <2>1, BufferHasRoom DEF Follows
<1>6. StreamInv
  BY <1>1, <1>2, <1>5 DEF SimInit, StreamInv
<1> QED BY <1>3, <1>4, <1>6 DEF SimInv

LEMMA SimStep == SimInv /\ [SimNext]_simVars => SimInv'
<1> SUFFICES ASSUME SimInv, [SimNext]_simVars PROVE SimInv'
  OBVIOUS
<1>1. CASE TaskNext
  BY <1>1, RejectStep, RaiseStep, EmittingStep, EvaluateStep, DestroyStep DEF TaskNext
<1>2. CASE \E c \in Clients : Join(c) \/ StreamNext(c) \/ Disconnect(c)
  BY <1>2, JoinStep, ReceiveStep, LeaveStep DEF StreamNext
<1>3. CASE UNCHANGED simVars
  BY <1>3 DEF SimInv, SimTypeInv, ProgressInv, SettledInv, StreamInv, simVars, Occurs, EndsWith
<1> QED BY <1>1, <1>2, <1>3 DEF SimNext

LEMMA SimInvariant == SimSpec => []SimInv
<1>1. SimInit => SimInv
  BY SimInitInv
<1>2. SimInv /\ [SimNext]_simVars => SimInv'
  BY SimStep
<1> QED BY <1>1, <1>2, PTL DEF SimSpec

\* The task, the environment, the handle and the transcript of a run are well-typed; no
\* subscriber's queue outgrows its bound, and none is ahead of the transcript.
THEOREM SimulationTypes == SimSpec => []SimTypeOK
<1>1. SimInv => SimTypeOK
  <2> SUFFICES ASSUME SimInv, NEW c \in Clients
               PROVE  /\ client[c].pc \in {"away", "streaming", "ended"}
                      /\ Len(client[c].queue) <= SubscriberBuffer
                      /\ {client[c].joined, client[c].last} \subseteq 0 .. Len(transcript)
    BY DEF SimInv, SimTypeInv, SimTypeOK
  <2>1. PICK n \in Nat : n = Len(transcript)
    BY DEF SimInv, SimTypeInv
  <2>2. client[c] \in Streams /\ Follows(client[c], n)
    BY <2>1 DEF SimInv, SimTypeInv, StreamInv
  <2>3. PICK l \in Nat, joined \in Nat, last \in Nat :
           l = Len(client[c].queue) /\ joined = client[c].joined /\ last = client[c].last
    BY <2>2 DEF Streams
  <2>4. CASE client[c].pc = "away"
    <3>1. joined = 0 /\ last = 0
      BY <2>2, <2>3, <2>4 DEF Follows, Away
    <3> QED BY <2>1, <2>2, <2>3, <3>1 DEF Follows, Streams
  <2>5. CASE client[c].pc # "away"
    <3>1. joined <= n - l /\ last <= n - l
      BY <2>2, <2>3, <2>5 DEF Follows
    <3> QED BY <2>1, <2>2, <2>3, <3>1 DEF Follows, Streams
  <2> QED BY <2>4, <2>5
<1> QED BY <1>1, SimInvariant, PTL

\* SimulationEventCollector: whenever clients join, lag, lose their oldest events or leave, a
\* queue holds the newest events without a gap, a client that lost none has had every event
\* since it joined, and a stream ends only with a settled handle and its last event sent.
THEOREM StreamsFollowTheTranscript == SimSpec => []StreamFollowsTranscript
<1>1. SimInv => StreamFollowsTranscript
  <2> SUFFICES ASSUME SimInv, NEW c \in Clients
               PROVE  LET q == client[c].queue  n == Len(transcript) IN
                      /\ \A k \in 1 .. Len(q) : q[k] = n - Len(q) + k
                      /\ Len(q) <= SubscriberBuffer
                      /\ client[c].pc # "away" =>
                            /\ client[c].last = n - Len(q) \/ client[c].overflowed
                               \/ (client[c].got = 0 /\ client[c].joined = n - Len(q))
                            /\ client[c].last <= n - Len(q)
                            /\ ~client[c].overflowed => client[c].got + Len(q) = n - client[c].joined
                      /\ client[c].pc = "ended" =>
                            /\ handle.status # "running"
                            /\ client[c].last = n \/ client[c].joined = n
    BY DEF StreamFollowsTranscript
  <2>1. PICK n \in Nat : n = Len(transcript)
    BY DEF SimInv, SimTypeInv
  <2>2. client[c] \in Streams /\ Follows(client[c], n) /\ (client[c].pc = "ended" => task = "done")
    BY <2>1 DEF SimInv, SimTypeInv, StreamInv
  <2>3. task = "done" => handle.status # "running"
    BY DEF SimInv, SettledInv
  <2>4. client[c].pc = "ended" => client[c].last = n \/ client[c].joined = n
    <3>1. Len(<<>>) = 0 /\ n - 0 = n
      BY <2>1
    <3> QED BY <2>2, <3>1 DEF Follows
  <2> QED BY <2>1, <2>2, <2>3, <2>4 DEF Follows, Consecutive
<1> QED BY <1>1, SimInvariant, PTL

LEMMA FirstTwo ==
    ASSUME NEW S, NEW s \in Seq(S), Len(s) >= 2
    PROVE  SubSeq(s, 1, 2) = <<s[1], s[2]>>
<1> DEFINE t == SubSeq(s, 1, 2)
<1>1. s[1] \in S /\ s[2] \in S
  OBVIOUS
<1>2. \A i \in 1 .. 2 : s[i] \in S
  OBVIOUS
<1>3. t \in Seq(S) /\ Len(t) = 2 /\ \A i \in 1 .. 2 - 1 + 1 : t[i] = s[1 + i - 1]
  BY <1>2, SubSeqProperties
<1> HIDE DEF t
<1>4. t[1] = s[1] /\ t[2] = s[2]
  <2>1. 1 \in 1 .. 2 - 1 + 1 /\ 2 \in 1 .. 2 - 1 + 1 /\ 1 + 1 - 1 = 1 /\ 1 + 2 - 1 = 2
    OBVIOUS
  <2> QED BY <1>3, <2>1
<1>5. t = <<s[1], s[2]>>
  <2>1. <<s[1], s[2]>> \in Seq(S) /\ Len(<<s[1], s[2]>>) = 2
        /\ <<s[1], s[2]>>[1] = s[1] /\ <<s[1], s[2]>>[2] = s[2]
    BY <1>1
  <2>2. \A i \in 1 .. Len(t) : t[i] = <<s[1], s[2]>>[i]
    BY <1>3, <1>4, <2>1
  <2> QED BY <1>3, <2>1, <2>2, SeqEqual
<1> QED BY <1>5 DEF t

\* How a sequence ends, by its last two elements.
LEMMA PairSuffix ==
    ASSUME NEW S, NEW s \in Seq(S), NEW a, NEW b
    PROVE  IsSuffix(<<a, b>>, s) <=> Len(s) >= 2 /\ s[Len(s) - 1] = a /\ s[Len(s)] = b
<1> DEFINE r == Reverse(s)
           p == Reverse(<<a, b>>)
<1>1. PICK n \in Nat : n = Len(s)
  OBVIOUS
<1>2. r = [i \in 1 .. n |-> s[(n - i) + 1]] /\ r \in Seq(S) /\ Len(r) = n
  <2>1. \A i \in 1 .. n : (n - i) + 1 \in 1 .. n
    BY <1>1
  <2> QED BY <1>1, <2>1 DEF Reverse
<1>3. p = <<b, a>>
  <2>1. Len(<<a, b>>) = 2 /\ <<a, b>>[1] = a /\ <<a, b>>[2] = b
    OBVIOUS
  <2>2. p = [i \in 1 .. 2 |-> <<a, b>>[(2 - i) + 1]]
    BY <2>1 DEF Reverse
  <2>3. p = [i \in 1 .. 2 |-> IF i = 1 THEN b ELSE a]
    BY <2>1, <2>2
  <2> QED BY <2>3
<1> HIDE DEF r, p
<1>4. IsSuffix(<<a, b>>, s) <=> 2 <= n /\ SubSeq(<<b, a>>, 1, 2) = SubSeq(r, 1, 2)
  BY <1>2, <1>3 DEF IsSuffix, IsPrefix, r, p
<1>5. SubSeq(<<b, a>>, 1, 2) = <<b, a>>
  <2>1. <<b, a>> \in Seq({a, b}) /\ Len(<<b, a>>) >= 2 /\ <<b, a>>[1] = b /\ <<b, a>>[2] = a
    OBVIOUS
  <2> QED BY <2>1, FirstTwo
<1>6. ASSUME 2 <= n PROVE SubSeq(r, 1, 2) = <<r[1], r[2]>>
  <2>1. Len(r) >= 2
    BY <1>1, <1>2, <1>6
  <2> QED BY <1>2, <2>1, FirstTwo
<1>7. ASSUME 2 <= n PROVE r[1] = s[n] /\ r[2] = s[n - 1]
  <2>1. 1 \in 1 .. n /\ 2 \in 1 .. n /\ (n - 1) + 1 = n /\ (n - 2) + 1 = n - 1
    BY <1>1, <1>7
  <2> QED BY <1>2, <2>1
<1> QED BY <1>1, <1>4, <1>5, <1>6, <1>7

\* run_bundle and _run_case_task, wherever a run fails: no environment outlives its run, the
\* handle is completed exactly where the transcript ends with the completion and the
\* destruction of the environment, and a failing clean-up replaces no error.
THEOREM RunsAreCleanedUp == SimSpec => []SettledRunIsCleanedUp
<1>1. SimInv => SettledRunIsCleanedUp
  <2> SUFFICES ASSUME SimInv, task = "done"
               PROVE  /\ environment # "open"
                      /\ handle.status = "completed" <=>
                            IsSuffix(<<"run.completed", "environment.destroyed">>, transcript)
                      /\ raised # "none" => handle = [status |-> "failed", error |-> raised]
                      /\ raised = "none" => handle.error \in {"none", "cleanup"}
    BY DEF SettledRunIsCleanedUp
  <2>1. PICK n \in Nat : n = Len(transcript) /\ transcript \in Seq(Kinds)
    BY DEF SimInv, SimTypeInv
  <2>2. IsSuffix(<<"run.completed", "environment.destroyed">>, transcript)
        <=> n >= 2 /\ transcript[n - 1] = "run.completed" /\ transcript[n] = "environment.destroyed"
    BY <2>1, PairSuffix
  <2>3. (n - 1) + 0 = n - 1 /\ n - 2 + 1 = n - 1 /\ n - 1 + 1 = n
        /\ (n >= 2 => n - 1 \in 1 .. n /\ n \in 1 .. n)
    BY <2>1
  <2>4. CASE raised # "none"
    <3>1. ~Occurs("run.completed") /\ handle = [status |-> "failed", error |-> raised]
      BY <2>4 DEF SimInv, ProgressInv, SettledInv
    <3> QED BY <2>1, <2>2, <2>3, <2>4, <3>1 DEF SimInv, SettledInv, Occurs
  <2>5. CASE raised = "none"
    <3>1. CASE /\ handle = [status |-> "completed", error |-> "none"]
               /\ EndsWith("run.completed", 2) /\ EndsWith("environment.destroyed", 1)
      <4>1. n >= 2 /\ transcript[n - 1] = "run.completed" /\ transcript[n] = "environment.destroyed"
        BY <2>1, <2>3, <3>1 DEF EndsWith
      <4> QED BY <2>2, <2>5, <3>1, <4>1 DEF SimInv, SettledInv
    <3>2. CASE handle = [status |-> "failed", error |-> "cleanup"] /\ ~Occurs("environment.destroyed")
      BY <2>1, <2>2, <2>3, <2>5, <3>2 DEF SimInv, SettledInv, Occurs
    <3> QED BY <2>5, <3>1, <3>2 DEF SimInv, SettledInv
  <2> QED BY <2>4, <2>5
<1> QED BY <1>1, SimInvariant, PTL

-----------------------------------------------------------------------------
(* The comparison of a suite                                                *)

CountRecords == [cases : Nat, regressions : Nat, insufficient : Nat, safety : Nat,
                 baseline : Nat, candidate : Nat]
Bad          == {"task_lost", "candidate_regresses", "insufficient_evidence"}

\* No counter outgrows the cases, and there are cases left while there is a next one.
CountsInv ==
    /\ stage \in {"validate", "refused", "baseline", "candidate", "raised",
                  "keep_baseline", "inconclusive", "recommend_candidate"}
    /\ baselineRun \in CaseRuns \cup {NotRun}
    /\ counts \in CountRecords /\ mirrored \in CountRecords
    /\ counts.cases <= SuiteSize
    /\ stage \in {"validate", "baseline", "candidate"} => counts.cases < SuiteSize
    /\ counts.regressions <= counts.cases /\ counts.insufficient <= counts.cases
    /\ counts.safety <= counts.cases
    /\ counts.baseline <= counts.cases /\ counts.candidate <= counts.cases

\* What the counters of the cohort say of its cases.
CohortInv ==
    /\ counts.regressions = 0 /\ counts.insufficient = 0 =>
          /\ seen \cap Bad = {}
          /\ counts.candidate > counts.baseline => "candidate_passes" \in seen
    /\ "candidate_passes" \in seen => mirrored.regressions > 0
    /\ stage = "recommend_candidate" =>
          /\ counts.regressions = 0 /\ counts.insufficient = 0
          /\ counts.candidate > counts.baseline

ComparisonInv == CountsInv /\ CohortInv

\* An improvement is a regression the other way round; a lost task regresses, and a
\* won one improves, unless there is no evidence.
LEMMA ComparedRuns ==
    ASSUME NEW b, NEW c
    PROVE  /\ CompareRuns(b, c) = "candidate_passes" => CompareRuns(c, b) = "candidate_regresses"
           /\ TaskSuccess(b) /\ ~TaskSuccess(c) =>
                 CompareRuns(b, c) \in {"candidate_regresses", "insufficient_evidence"}
           /\ TaskSuccess(c) /\ ~TaskSuccess(b) =>
                 CompareRuns(b, c) \in {"candidate_regresses", "insufficient_evidence", "candidate_passes"}
           /\ CompareRuns(b, c) \in {"candidate_regresses", "insufficient_evidence",
                                     "candidate_passes", "no_material_difference"}
<1>1. Improves(b, c) = Regresses(c, b)
  BY DEF Improves, Regresses
<1>2. (Comparable(b, c) <=> Comparable(c, b)) /\ (Measured(b, c) <=> Measured(c, b))
  BY DEF Comparable, Measured
<1>3. TaskSuccess(b) /\ ~TaskSuccess(c) => Regresses(b, c)
  BY DEF TaskSuccess, Regresses, LostEvaluators
<1>4. TaskSuccess(c) /\ ~TaskSuccess(b) => Regresses(c, b)
  BY DEF TaskSuccess, Regresses, LostEvaluators
<1>5. CompareRuns(b, c) = "candidate_passes"
      => Comparable(b, c) /\ Measured(b, c) /\ Improves(b, c)
  BY DEF CompareRuns
<1>6. Comparable(c, b) /\ Measured(c, b) /\ Regresses(c, b)
      => CompareRuns(c, b) = "candidate_regresses"
  BY DEF CompareRuns
<1>7. Regresses(b, c) => CompareRuns(b, c) \in {"candidate_regresses", "insufficient_evidence"}
  BY DEF CompareRuns
<1>8. Improves(b, c) => CompareRuns(b, c) \in {"candidate_regresses", "insufficient_evidence",
                                              "candidate_passes"}
  BY DEF CompareRuns
<1>9. CompareRuns(b, c) \in {"candidate_regresses", "insufficient_evidence",
                             "candidate_passes", "no_material_difference"}
  BY DEF CompareRuns
<1> QED BY <1>1, <1>2, <1>3, <1>4, <1>5, <1>6, <1>7, <1>8, <1>9

LEMMA ComparisonInitInv == ComparisonInit => ComparisonInv
  BY ComparisonAssumption DEF ComparisonInit, ComparisonInv, CountsInv, CohortInv, CountRecords,
     NoCounts, Bad

LEMMA RunCandidateStep ==
    ASSUME ComparisonInv, NEW c \in CaseRuns, RunCandidate(c) PROVE ComparisonInv'
<1> DEFINE b == baselineRun
<1>1. PICK r \in {0, 1}, i \in {0, 1}, s \in {0, 1}, tb \in {0, 1}, tc \in {0, 1} :
         /\ r = One(CompareRuns(b, c) = "candidate_regresses")
         /\ i = One(CompareRuns(b, c) = "insufficient_evidence")
         /\ s = One(SafetyRegression(b, c))
         /\ tb = One(TaskSuccess(b)) /\ tc = One(TaskSuccess(c))
  BY DEF One
<1>2. PICK n, m, k, j, x, y : n = counts.cases /\ m = counts.regressions /\ k = counts.insufficient
                              /\ j = counts.safety /\ x = counts.baseline /\ y = counts.candidate
  OBVIOUS
<1>3. /\ n \in Nat /\ m \in Nat /\ k \in Nat /\ j \in Nat /\ x \in Nat /\ y \in Nat
      /\ n < SuiteSize /\ m <= n /\ k <= n /\ j <= n /\ x <= n /\ y <= n
      /\ SuiteSize \in Nat
  BY <1>2, ComparisonAssumption DEF ComparisonInv, CountsInv, CountRecords, RunCandidate
<1>4. counts' = [cases |-> n + 1, regressions |-> m + r, insufficient |-> k + i, safety |-> j + s,
                 baseline |-> x + tb, candidate |-> y + tc]
  BY <1>1, <1>2 DEF RunCandidate, Counted
<1>5. /\ counts' \in CountRecords
      /\ counts'.cases = n + 1 /\ counts'.regressions = m + r /\ counts'.insufficient = k + i
      /\ counts'.safety = j + s /\ counts'.baseline = x + tb /\ counts'.candidate = y + tc
  BY <1>3, <1>4 DEF CountRecords
<1>6. PICK w \in {0, 1} : w = One(CompareRuns(c, b) = "candidate_regresses")
  BY DEF One
<1>7. /\ mirrored' \in CountRecords
      /\ mirrored'.regressions = mirrored.regressions + w
      /\ mirrored.regressions \in Nat
  <2>1. PICK i2 \in {0, 1}, s2 \in {0, 1} :
           /\ i2 = One(CompareRuns(c, b) = "insufficient_evidence")
           /\ s2 = One(SafetyRegression(c, b))
    BY DEF One
  <2>2. mirrored' = [cases |-> mirrored.cases + 1, regressions |-> mirrored.regressions + w,
                     insufficient |-> mirrored.insufficient + i2, safety |-> mirrored.safety + s2,
                     baseline |-> mirrored.baseline + tc, candidate |-> mirrored.candidate + tb]
    BY <1>1, <1>6, <2>1 DEF RunCandidate, Counted
  <2>3. mirrored \in CountRecords
    BY DEF ComparisonInv, CountsInv
  <2> QED BY <2>2, <2>3 DEF CountRecords
<1>8. seen' = seen \cup {CompareRuns(b, c)} \cup (IF tb = 1 /\ tc = 0 THEN {"task_lost"} ELSE {})
  <2>1. (TaskSuccess(b) /\ ~TaskSuccess(c)) <=> (tb = 1 /\ tc = 0)
    BY <1>1 DEF One
  <2> QED BY <2>1 DEF RunCandidate
<1>9. /\ stage' = IF n + 1 = SuiteSize THEN Recommendation(counts') ELSE "baseline"
      /\ baselineRun' = NotRun
  BY <1>5 DEF RunCandidate
<1>10. Recommendation(counts') \in {"keep_baseline", "inconclusive", "recommend_candidate"}
       /\ (Recommendation(counts') = "recommend_candidate" =>
             m + r = 0 /\ k + i = 0 /\ y + tc > x + tb)
  <2>1. PICK u, v, z, d, e : u = m + r /\ v = k + i /\ z = j + s /\ d = x + tb /\ e = y + tc
    OBVIOUS
  <2>2. u \in Nat /\ v \in Nat /\ z \in Nat /\ d \in Nat /\ e \in Nat
    BY <1>1, <1>3, <2>1
  <2>3. /\ counts'.regressions = u /\ counts'.insufficient = v
        /\ counts'.safety = z /\ counts'.baseline = d /\ counts'.candidate = e
    BY <1>5, <2>1
  <2>4. Recommendation(counts') =
           IF u > 0 \/ z > 0 THEN "keep_baseline"
           ELSE IF v > 0 THEN "inconclusive"
           ELSE IF e > d THEN "recommend_candidate"
           ELSE IF e < d THEN "keep_baseline" ELSE "inconclusive"
    BY <2>3 DEF Recommendation
  <2>5. Recommendation(counts') = "recommend_candidate" => u = 0 /\ v = 0 /\ e > d
    BY <2>2, <2>4
  <2>6. Recommendation(counts') \in {"keep_baseline", "inconclusive", "recommend_candidate"}
    BY <2>4
  <2> QED BY <2>1, <2>5, <2>6
<1>11. CountsInv'
  <2>1. stage' \in {"baseline", "keep_baseline", "inconclusive", "recommend_candidate"}
        /\ (stage' = "baseline" => n + 1 # SuiteSize)
    BY <1>9, <1>10
  <2> QED BY <1>1, <1>3, <1>5, <1>7, <1>9, <2>1 DEF CountsInv
<1>12. CohortInv'
  <2>1. ASSUME m + r = 0, k + i = 0
        PROVE  /\ seen' \cap Bad = {}
               /\ y + tc > x + tb => "candidate_passes" \in seen'
    <3>1. m = 0 /\ k = 0 /\ r = 0 /\ i = 0
      <4>1. m \in Nat /\ k \in Nat /\ r \in Nat /\ i \in Nat
        BY <1>1, <1>3
      <4> QED BY <2>1, <4>1
    <3>2. CompareRuns(b, c) \notin {"candidate_regresses", "insufficient_evidence"}
      BY <1>1, <3>1 DEF One
    <3>3. ~(tb = 1 /\ tc = 0) /\ (tc = 1 /\ tb = 0 => CompareRuns(b, c) = "candidate_passes")
      BY <1>1, <3>2, ComparedRuns DEF One
    <3>4. seen \cap Bad = {} /\ (y > x => "candidate_passes" \in seen)
      BY <1>2, <3>1 DEF ComparisonInv, CohortInv
    <3>5. CompareRuns(b, c) \in {"candidate_passes", "no_material_difference"}
      BY <3>2, ComparedRuns
    <3>6. seen' \cap Bad = {}
      BY <1>8, <3>3, <3>4, <3>5 DEF Bad
    <3>7. ASSUME y + tc > x + tb PROVE "candidate_passes" \in seen'
      <4>1. (tc = 1 /\ tb = 0) \/ y > x
        BY <1>1, <1>3, <3>7
      <4> QED BY <1>8, <3>3, <3>4, <4>1
    <3> QED BY <3>6, <3>7
  <2>2. "candidate_passes" \in seen' => mirrored.regressions + w > 0
    <3>1. CompareRuns(b, c) = "candidate_passes" => w = 1
      BY <1>6, ComparedRuns DEF One
    <3>2. "candidate_passes" \in seen => mirrored.regressions > 0
      BY DEF ComparisonInv, CohortInv
    <3>3. "candidate_passes" \in seen' => "candidate_passes" \in seen \/ CompareRuns(b, c) = "candidate_passes"
      BY <1>8
    <3> QED BY <1>6, <1>7, <3>1, <3>2, <3>3
  <2>3. stage' = "recommend_candidate" => m + r = 0 /\ k + i = 0 /\ y + tc > x + tb
    BY <1>9, <1>10
  <2> QED BY <1>5, <1>7, <2>1, <2>2, <2>3 DEF CohortInv
<1> QED BY <1>11, <1>12 DEF ComparisonInv

LEMMA ComparisonStep == ComparisonInv /\ [ComparisonNext]_comparisonVars => ComparisonInv'
<1> SUFFICES ASSUME ComparisonInv, [ComparisonNext]_comparisonVars PROVE ComparisonInv'
  OBVIOUS
<1>1. CASE Validate
  BY <1>1 DEF Validate, ComparisonInv, CountsInv, CohortInv
<1>2. CASE CaseRaises
  BY <1>2 DEF CaseRaises, ComparisonInv, CountsInv, CohortInv
<1>3. ASSUME NEW r \in CaseRuns, RunBaseline(r) PROVE ComparisonInv'
  BY <1>3 DEF RunBaseline, ComparisonInv, CountsInv, CohortInv
<1>4. CASE UNCHANGED comparisonVars
  BY <1>4 DEF comparisonVars, ComparisonInv, CountsInv, CohortInv
<1> QED BY <1>1, <1>2, <1>3, <1>4, RunCandidateStep DEF ComparisonNext

LEMMA ComparisonInvariant == ComparisonSpec => []ComparisonInv
<1>1. ComparisonInit => ComparisonInv
  BY ComparisonInitInv
<1>2. ComparisonInv /\ [ComparisonNext]_comparisonVars => ComparisonInv'
  BY ComparisonStep
<1> QED BY <1>1, <1>2, PTL DEF ComparisonSpec

\* Every counter of a cohort stays within the suite's cases.
THEOREM ComparisonTypes == ComparisonSpec => []ComparisonTypeOK
<1>1. ComparisonInv => ComparisonTypeOK
  <2> SUFFICES ASSUME ComparisonInv PROVE ComparisonTypeOK
    OBVIOUS
  <2>1. SuiteSize \in Nat
    BY ComparisonAssumption
  <2>2. DOMAIN counts = {"cases", "regressions", "insufficient", "safety", "baseline", "candidate"}
        /\ DOMAIN NoCounts = {"cases", "regressions", "insufficient", "safety", "baseline", "candidate"}
    BY DEF ComparisonInv, CountsInv, CountRecords, NoCounts
  <2>3. /\ counts.cases \in Nat /\ counts.regressions \in Nat /\ counts.insufficient \in Nat
        /\ counts.safety \in Nat /\ counts.baseline \in Nat /\ counts.candidate \in Nat
    BY DEF ComparisonInv, CountsInv, CountRecords
  <2>4. \A k \in DOMAIN counts : counts[k] \in 0 .. SuiteSize
    BY <2>1, <2>2, <2>3 DEF ComparisonInv, CountsInv
  <2> QED BY <2>2, <2>4 DEF ComparisonInv, CountsInv, ComparisonTypeOK
<1> QED BY <1>1, ComparisonInvariant, PTL

\* run_suite_comparison recommends a candidate only where no case lost the task, regressed
\* or lacked evidence and one improved; with the two exchanged it says to keep the baseline.
THEOREM RecommendationsAreEarned == ComparisonSpec => []RecommendationIsEarned
<1>1. ComparisonInv => RecommendationIsEarned
  BY DEF ComparisonInv, CohortInv, RecommendationIsEarned, Recommendation, Bad
<1> QED BY <1>1, ComparisonInvariant, PTL
=============================================================================
