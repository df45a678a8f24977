---------------------------- MODULE Consolidation ----------------------------
(***************************************************************************)
(* The scheduler's sleep cycle (scheduler.py run_consolidation and         *)
(* run_llm_consolidation): one coroutine that, every tick, reads a window  *)
(* of the spine from its cursor on and the window of the newest events,    *)
(* folds what it has not seen into the memory graph, and hands the events  *)
(* without hints to the language model tier.  Other coroutines append to   *)
(* the spine at any await, with timestamps taken before they wait for the  *)
(* insert, or imported from elsewhere.                                     *)
(*                                                                         *)
(* Events are numbered in the order of their (timestamp, id).  Events of   *)
(* low importance, on which both tiers pass, are left out.                 *)
(***************************************************************************)
EXTENDS Naturals, FiniteSets

CONSTANTS
  Event,        \* ids, in the order of events_after
  Stamp,        \* the timestamp of each event
  Hint,         \* the topic an event hints at, NoTopic if it has no hint
  NoTopic,
  Batch,        \* _consolidation_batch
  Threshold,    \* batch size of the language model tier
  MinStale,     \* the backlog a stale tier needs, 8 in the code
  StaleTicks,   \* _llm_staleness_ticks
  MaxBackoff,   \* 16 in the code
  Burst,        \* bound: appends between two reads of the newest events
  MaxMishaps    \* bound: reads and folds that raise, and restarts

ASSUME ConsolidationAssumption ==
  /\ Event \subseteq Nat \ {0}
  /\ Stamp \in [Event -> Nat]
  /\ \A e, f \in Event : e < f => Stamp[e] <= Stamp[f]
  /\ Hint = [e \in Event |-> Hint[e]]
  /\ {Batch, Threshold, MinStale, StaleTicks, MaxBackoff} \subseteq Nat \ {0}
  /\ {Burst, MaxMishaps} \subseteq Nat

VARIABLES
  ledger,    \* the events table
  live,      \* the event whose statement is live for each topic, 0 for none
  \* The memory of the scheduler.
  mark,      \* _last_consolidated_ts and _id; 0 at boot
  seen,      \* _processed_event_ids
  backlog,   \* _llm_backlog
  idle, failures, backoff,  \* _llm_idle_ticks, _consecutive_failures, _backoff_ticks
  \* The pass that is under way.
  pc,        \* what the scheduler does next
  old,       \* old_rows
  oldTodo, newTodo,  \* the events still to fold, of old_rows and of recent_rows
  newest,    \* newest_ts and newest_id
  sent,      \* what the language model is working on
  \* History and bounds.
  done,      \* how often each event was consumed by the fold, in this life
  shown,     \* how often it was shown to the language model, in this life
  folded,    \* events folded into the graph, in any life
  spoiled,   \* events whose fold raised
  late,      \* events appended after one of a later number
  arrivals,  \* appends since the newest events were last read
  mishaps

llmVars  == <<backlog, idle, failures, backoff, sent>>
passVars == <<old, oldTodo, newTodo, newest>>
foldVars == <<live, done, folded, spoiled>>
envVars  == <<ledger, late, arrivals>>
vars == <<envVars, foldVars, mark, seen, llmVars, pc, passVars, shown, mishaps>>

Topics   == {Hint[e] : e \in Event} \ {NoTopic}
Unhinted == {e \in Event : Hint[e] = NoTopic}
Never    == [e \in Event |-> 0]

ConsolidationTypeOK ==
  /\ ledger \in SUBSET Event /\ late \in SUBSET Event
  /\ live \in [Topics -> Event \cup {0}]
  /\ mark \in Event \cup {0} /\ newest \in Event \cup {0}
  /\ seen \in SUBSET Event /\ old \in SUBSET Event
  /\ oldTodo \in SUBSET Event /\ newTodo \in SUBSET Event
  /\ backlog \in SUBSET Unhinted /\ sent \in SUBSET Unhinted
  /\ idle \in 0..StaleTicks /\ backoff \in 0..MaxBackoff /\ failures \in Nat
  /\ pc \in {"sleep", "recent", "fold", "llm", "call"}
  /\ done \in [Event -> Nat] /\ shown \in [Event -> Nat]
  /\ folded \in SUBSET Event /\ spoiled \in SUBSET Event
  /\ arrivals \in 0..Burst /\ mishaps \in 0..MaxMishaps

Init ==
  /\ ledger = {} /\ late = {} /\ arrivals = 0 /\ mishaps = 0
  /\ live = [p \in Topics |-> 0]
  /\ mark = 0 /\ seen = {} /\ newest = 0
  /\ backlog = {} /\ sent = {} /\ idle = 0 /\ failures = 0 /\ backoff = 0
  /\ pc = "sleep" /\ old = {} /\ oldTodo = {} /\ newTodo = {}
  /\ done = Never /\ shown = Never /\ folded = {} /\ spoiled = {}

-----------------------------------------------------------------------------
(* The spine *)

\* db.append_event by another coroutine.
Append(e) ==
  /\ e \notin ledger /\ arrivals < Burst
  /\ ledger' = ledger \cup {e}
  /\ arrivals' = arrivals + 1
  /\ late' = IF \E f \in ledger : e < f THEN late \cup {e} ELSE late
  /\ UNCHANGED <<foldVars, mark, seen, llmVars, pc, passVars, shown, mishaps>>

\* db.events_after: the first Batch events beyond the cursor.
EventsAfter(m) ==
  LET rows == {e \in ledger : e > m}
  IN  {e \in rows : Cardinality({f \in rows : f < e}) < Batch}

\* db.recent_events: Batch events with the latest timestamps; which of several
\* with one timestamp is left to the database.
RecentEvents(W) ==
  /\ Cardinality(W) <= Batch
  /\ W = ledger \/ Cardinality(W) = Batch
  /\ \A e \in W, f \in ledger \ W : Stamp[f] <= Stamp[e]

-----------------------------------------------------------------------------
(* run_consolidation *)

Mishap == mishaps < MaxMishaps /\ mishaps' = mishaps + 1

\* The tick begins.  A failed read ends the deterministic pass.
ReadOld ==
  /\ pc = "sleep"
  /\ \/ pc' = "recent" /\ old' = EventsAfter(mark) /\ UNCHANGED mishaps
     \/ pc' = "llm" /\ UNCHANGED old /\ Mishap
  /\ UNCHANGED <<envVars, foldVars, mark, seen, llmVars, oldTodo, newTodo, newest, shown>>

\* Mutant of Take: the rows of the forward scan do not enter the seen set.
TakeForgetful(W) ==
  /\ seen' = seen \cup W
  /\ oldTodo' = old \ seen
  /\ newTodo' = W \ (seen \cup old)

\* Mark the rows of both reads as seen and keep those that were not.
Take(W) ==
  /\ seen' = seen \cup old \cup W
  /\ oldTodo' = old \ seen
  /\ newTodo' = W \ (seen \cup old)

\* Everything between the second read and the first await of the fold.  Only an
\* unseen row of the forward scan moves the cursor: when all rows were seen the
\* cursor is assigned the value it has.
ReadRecent ==
  /\ pc = "recent"
  /\ \E W \in SUBSET ledger :
       /\ \/ RecentEvents(W) /\ arrivals' = 0 /\ UNCHANGED mishaps
          \/ W = {} /\ UNCHANGED arrivals /\ Mishap
       /\ Take(W)
       /\ IF oldTodo' \cup newTodo' = {}
          THEN pc' = "llm" /\ UNCHANGED <<newest, backlog>>
          ELSE /\ pc' = "fold"
               /\ newest' \in oldTodo' \cup {mark}
               /\ \A e \in oldTodo' : e <= newest'
               /\ backlog' = backlog \cup ((oldTodo' \cup newTodo') \cap Unhinted)
  /\ old' = {}
  /\ UNCHANGED <<ledger, late, foldVars, mark, idle, failures, backoff, sent, shown>>

\* consume_events takes the rows of the forward scan in their order, then those of
\* the newest events in the order of that read, newest first.
NextToFold(e) ==
  \/ e \in oldTodo /\ \A f \in oldTodo : e <= f
  \/ oldTodo = {} /\ e \in newTodo /\ \A f \in newTodo : Stamp[f] <= Stamp[e]

\* One event: its statement supersedes the live one of its topic.  A hint whose
\* application raises is skipped, and the event counts as consumed.
FoldOne ==
  /\ pc = "fold"
  /\ \E e \in oldTodo \cup newTodo :
       /\ NextToFold(e)
       /\ oldTodo' = oldTodo \ {e} /\ newTodo' = newTodo \ {e}
       /\ done' = [done EXCEPT ![e] = @ + 1]
       /\ \/ /\ folded' = folded \cup {e}
             /\ live' = [p \in Topics |-> IF p = Hint[e] THEN e ELSE live[p]]
             /\ UNCHANGED <<spoiled, mishaps>>
          \/ /\ e \notin Unhinted /\ spoiled' = spoiled \cup {e}
             /\ Mishap /\ UNCHANGED <<live, folded>>
  /\ UNCHANGED <<envVars, mark, seen, llmVars, pc, old, newest, shown>>

\* Mutant of FoldDone: the cursor moves to the newest event of either read.
JumpToSeen ==
  /\ pc = "fold" /\ oldTodo \cup newTodo = {}
  /\ pc' = "llm"
  /\ mark' \in seen /\ \A e \in seen : e <= mark'
  /\ UNCHANGED <<envVars, foldVars, seen, llmVars, passVars, shown, mishaps>>

FoldDone ==
  /\ pc = "fold" /\ oldTodo \cup newTodo = {}
  /\ pc' = "llm"
  /\ mark' = newest
  /\ UNCHANGED <<envVars, foldVars, seen, llmVars, passVars, shown, mishaps>>

-----------------------------------------------------------------------------
(* run_llm_consolidation, for a tier that is configured *)

Ready ==
  \/ Cardinality(backlog) >= Threshold
  \/ idle + 1 >= StaleTicks /\ Cardinality(backlog) >= MinStale

Waits(tick) == IF tick < StaleTicks THEN tick ELSE StaleTicks  \* bound on idle

\* Mutant of LlmWait: the backoff is only counted down by ticks without a backlog.
WaitWhileEmpty ==
  /\ pc = "llm" /\ pc' = "sleep"
  /\ \/ backoff > 0 /\ backlog = {} /\ backoff' = backoff - 1 /\ UNCHANGED idle
     \/ backoff > 0 /\ backlog # {} /\ UNCHANGED <<backoff, idle>>
     \/ backoff = 0 /\ backlog = {} /\ idle' = 0 /\ UNCHANGED backoff
     \/ backoff = 0 /\ backlog # {} /\ ~Ready /\ idle' = Waits(idle + 1) /\ UNCHANGED backoff
  /\ UNCHANGED <<envVars, foldVars, mark, seen, backlog, failures, sent, passVars, shown, mishaps>>

\* A tick in which the tier backs off, has nothing to do, or not enough.
LlmWait ==
  /\ pc = "llm" /\ pc' = "sleep"
  /\ \/ backoff > 0 /\ backoff' = backoff - 1 /\ UNCHANGED idle
     \/ backoff = 0 /\ backlog = {} /\ idle' = 0 /\ UNCHANGED backoff
     \/ backoff = 0 /\ backlog # {} /\ ~Ready /\ idle' = Waits(idle + 1) /\ UNCHANGED backoff
  /\ UNCHANGED <<envVars, foldVars, mark, seen, backlog, failures, sent, passVars, shown, mishaps>>

\* The backlog is taken before the call, whatever becomes of it.
LlmCall ==
  /\ pc = "llm" /\ pc' = "call"
  /\ backoff = 0 /\ backlog # {} /\ Ready
  /\ sent' = backlog /\ backlog' = {} /\ idle' = 0
  /\ UNCHANGED <<envVars, foldVars, mark, seen, failures, backoff, passVars, shown, mishaps>>

\* The smaller of 2 ^ n and the limit.
Backoff(n) == IF 2 ^ n \in 0..MaxBackoff THEN 2 ^ n ELSE MaxBackoff

\* consume_unhinted returns: it ran, the call failed, or neither (every event
\* was filtered out, or something else raised).  Bound: failures stop counting
\* once the backoff has reached its limit.
LlmReturn ==
  /\ pc = "call" /\ pc' = "sleep"
  /\ shown' = [e \in Event |-> IF e \in sent THEN shown[e] + 1 ELSE shown[e]]
  /\ sent' = {}
  /\ \/ failures' = 0 /\ backoff' = 0
     \/ /\ failures' = IF failures < MaxBackoff THEN failures + 1 ELSE failures
        /\ backoff' = Backoff(failures')
     \/ UNCHANGED <<failures, backoff>>
  /\ UNCHANGED <<envVars, foldVars, mark, seen, backlog, idle, passVars, mishaps>>

\* The process dies and is started again: the spine and the graph are kept, the
\* scheduler's memory is not.
Restart ==
  /\ Mishap
  /\ mark' = 0 /\ seen' = {} /\ newest' = 0
  /\ backlog' = {} /\ sent' = {} /\ idle' = 0 /\ failures' = 0 /\ backoff' = 0
  /\ pc' = "sleep" /\ old' = {} /\ oldTodo' = {} /\ newTodo' = {}
  /\ done' = Never /\ shown' = Never
  /\ UNCHANGED <<envVars, live, folded, spoiled>>

-----------------------------------------------------------------------------

Tick ==
  \/ ReadOld \/ ReadRecent \/ FoldOne \/ FoldDone
  \/ LlmWait \/ LlmCall \/ LlmReturn

Next == Tick \/ Restart \/ \E e \in Event : Append(e)

\* The event loop runs the scheduler's coroutine for ever (scheduler.py _loop);
\* nothing makes the others append.
Spec == Init /\ [][Next]_vars /\ WF_vars(Tick)

-----------------------------------------------------------------------------

\* The cursor never passes an event that this process has not seen, unless the
\* event arrived behind a later one (scheduler.py run_consolidation).
NothingSkipped ==
  \A e \in ledger : e <= mark => e \in seen \cup late

Fold == INSTANCE SpineFold WITH spine <- ledger, folded <- done

\* In one life of the process no event is folded twice and none is shown to the
\* model twice or before its fold, with two overlapping reads per pass and a
\* backlog that outlives it (scheduler.py; consolidation.py event_has_hints: "the
\* two tiers never double-write").
FoldsOnce == Fold!Spec

-----------------------------------------------------------------------------
(* Why: these formulas are inductive (proved in Consolidation_proofs). *)

\* Nothing unseen up to event m, except what arrived late.
Covered(m) == \A e \in ledger : e <= m => e \in seen \cup late

\* The cursor, where the pass will put it, and the rows it has just read.
CursorInv ==
  /\ mark \in ledger \cup {0} /\ Covered(mark)
  /\ pc = "fold" => newest \in ledger \cup {0} /\ Covered(newest)
  /\ pc = "recent" =>
       \A f \in old, e \in ledger : e <= f => e \in old \cup seen \cup late

\* What the fold has consumed is what was seen and is not waiting.
FoldInv ==
  /\ old \subseteq ledger /\ seen \subseteq ledger
  /\ oldTodo \subseteq seen /\ newTodo \subseteq seen /\ oldTodo \cap newTodo = {}
  /\ pc # "fold" => oldTodo \cup newTodo = {}
  /\ \A e \in Event : done[e] = IF e \in seen \ (oldTodo \cup newTodo) THEN 1 ELSE 0

\* An unhinted event is waiting for the model, with it, or was shown to it.
BacklogInv ==
  /\ pc # "call" => sent = {}
  /\ backlog \cup sent \subseteq seen /\ backlog \cap sent = {}
  /\ \A e \in Event :
       /\ shown[e] \in {0, 1}
       /\ e \in backlog \cup sent => shown[e] = 0
       /\ e \notin seen => shown[e] = 0

\* A topic has a live statement from the first that was folded for it on, and it is
\* one of those, in whatever order the two reads brought them.
TopicInv ==
  /\ \A p \in Topics : live[p] # 0 => live[p] \in folded /\ Hint[live[p]] = p
  /\ \A e \in folded \ Unhinted : live[Hint[e]] # 0

\* All of it holds in every reachable state, through failures and restarts.
ConsolidationInv ==
  /\ ConsolidationTypeOK /\ IsFiniteSet(ledger)
  /\ CursorInv /\ FoldInv /\ BacklogInv /\ TopicInv

-----------------------------------------------------------------------------

\* Every event recorded in its turn is folded into the graph, or its hint raised: "Each
\* tick drains the events appended since the last run" (scheduler.py), and an import is
\* folded "on the next scheduler tick, exactly like native events" (app.py).  It does
\* not hold.  When more than Batch events arrive between two reads, the read of the
\* newest ones sees some that lie a full batch before the cursor; from then on the
\* forward scan returns seen rows only, which do not move the cursor, and what the read
\* of the newest misses is never read.
EventsAreFolded ==
  \A e \in Event : e \in ledger ~> e \in folded \cup spoiled \cup late

\* A backlog that staleness applies to is handed to the model, through failures
\* and backoff (scheduler.py run_llm_consolidation).
BacklogDrains == Cardinality(backlog) >= MinStale ~> backlog = {}

=============================================================================
