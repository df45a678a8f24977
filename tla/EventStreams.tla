----------------------------- MODULE EventStreams -----------------------------
(***************************************************************************)
(* One event service (event.ts): writers commit events and then wake the   *)
(* streams of the aggregate; a stream subscribes to the wakes, reads what  *)
(* is stored, and reads again after every wake.  A writer is between its   *)
(* commit and its wake when another commits, wakes, or a stream reads.     *)
(* The wake channel of a stream holds one message and drops older ones, so *)
(* that it is a flag.                                                      *)
(***************************************************************************)
EXTENDS EventStore, Sequences, FiniteSets

CONSTANTS
  Writer,       \* fibers that publish, replay, claim or remove
  Reader,       \* consumers of aggregateEvents
  NoAggregate   \* a writer with nothing to announce

ASSUME StreamsAssumption == NoAggregate \notin Aggregate

VARIABLES
  db,       \* the tables of EventStore
  waking,   \* the aggregate a writer has committed to and not yet announced
  stream    \* the aggregateEvents stream of each reader

vars == <<db, waking, stream>>

\* start is the cursor a stream was opened with; emitted what it delivered, and
\* stale that its aggregate was removed under it: both are only for properties.
Stream == [state   : {"closed", "subscribed", "live"},
           of      : Aggregate \cup {NoAggregate},
           start   : Nat \cup {-1},
           cursor  : Nat \cup {-1},
           wake    : BOOLEAN,
           emitted : Seq(Row),
           stale   : BOOLEAN]

Closed == [state |-> "closed", of |-> NoAggregate, start |-> -1, cursor |-> -1,
           wake |-> FALSE, emitted |-> <<>>, stale |-> FALSE]

Init ==
  /\ db = EmptyDb
  /\ waking = [w \in Writer |-> NoAggregate]
  /\ stream = [r \in Reader |-> Closed]

-------------------------------------------------------------------------------
(* Writers *)

\* The transaction of a writer; only a new event has to be announced.
Commit(w, a, result) ==
  /\ waking[w] = NoAggregate
  /\ db' = result.db
  /\ waking' = IF result.outcome = "committed" THEN [waking EXCEPT ![w] = a] ELSE waking
  /\ UNCHANGED stream

Publish(w, a, id) == Commit(w, a, PublishResult(db, a, id))

\* Mutant of Replay: replayed events wake nobody.
ReplaySilently(w, a, id, n, own, strict) ==
  Commit(w, a, [ReplayResult(db, a, id, n, own, strict) EXCEPT !.outcome = "ignored"])

Replay(w, a, id, n, own, strict) == Commit(w, a, ReplayResult(db, a, id, n, own, strict))

Announce(w) ==
  /\ waking[w] # NoAggregate
  /\ stream' = [r \in Reader |-> IF stream[r].of = waking[w]
                                 THEN [stream[r] EXCEPT !.wake = TRUE]
                                 ELSE stream[r]]
  /\ waking' = [waking EXCEPT ![w] = NoAggregate]
  /\ UNCHANGED db

Claim(a, own) == db' = ClaimResult(db, a, own) /\ UNCHANGED <<waking, stream>>

RemoveAggregate(a) ==
  /\ db' = RemoveResult(db, a)
  /\ stream' = [r \in Reader |-> IF stream[r].of = a
                                 THEN [stream[r] EXCEPT !.stale = TRUE]
                                 ELSE stream[r]]
  /\ UNCHANGED waking

-------------------------------------------------------------------------------
(* Streams *)

\* The subscription is in place before the stored events are read.
Open(r, a, after) ==
  /\ stream[r].state = "closed"
  /\ stream' = [stream EXCEPT ![r] = [Closed EXCEPT !.state = "subscribed", !.of = a,
                                                    !.start = after, !.cursor = after]]
  /\ UNCHANGED <<db, waking>>

\* Mutant of LastSeq: the cursor moves to the first row of the batch.
FirstSeq(rows, cursor) ==
  IF rows = {} THEN cursor ELSE (CHOOSE r \in rows : \A q \in rows : r.seq <= q.seq).seq

\* The cursor moves to the last row of the batch, if there is one.
LastSeq(rows, cursor) ==
  IF rows = {} THEN cursor ELSE (CHOOSE r \in rows : \A q \in rows : q.seq <= r.seq).seq

\* The statement orders by number: a row comes after those with a smaller one.
InNumberOrder(rows) ==
  [i \in 1..Cardinality(rows) |->
     CHOOSE r \in rows : Cardinality({q \in rows : q.seq < r.seq}) = i - 1]

\* One read: what follows the cursor, in the order of the log.
Read(s) ==
  LET rows == RowsAfter(db, s.of, s.cursor)
  IN  [s EXCEPT !.state = "live",
                !.cursor = LastSeq(rows, @),
                !.emitted = @ \o InNumberOrder(rows)]

ReadHistory(r) ==
  /\ stream[r].state = "subscribed"
  /\ stream' = [stream EXCEPT ![r] = Read(@)]
  /\ UNCHANGED <<db, waking>>

ReadLive(r) ==
  /\ stream[r].state = "live"
  /\ stream[r].wake
  /\ stream' = [stream EXCEPT ![r] = Read([@ EXCEPT !.wake = FALSE])]
  /\ UNCHANGED <<db, waking>>

Close(r) ==
  /\ stream[r].state # "closed"
  /\ stream' = [stream EXCEPT ![r] = Closed]
  /\ UNCHANGED <<db, waking>>

-------------------------------------------------------------------------------

\* Numbers that a replayed event may carry: stored, next or one too far.  The sync
\* loop names the workspace it follows (workspace.ts:375); the replay request of a
\* server its own workspace, if it has one, and is strict (sync.ts:51).
ReplayedSeq(a) == 0..(db.latest[a] + 2)

Write(w) ==
  \E a \in Aggregate, id \in EventId :
    \/ Publish(w, a, id)
    \/ \E n \in ReplayedSeq(a), own \in Owner : Replay(w, a, id, n, own, FALSE)
    \/ \E n \in ReplayedSeq(a), own \in Owner \cup {NoOwner} : Replay(w, a, id, n, own, TRUE)

Consume(r) ==
  \/ \E a \in Aggregate : \E after \in -1..db.latest[a] : Open(r, a, after)
  \/ ReadHistory(r)
  \/ ReadLive(r)
  \/ Close(r)

Next ==
  \/ \E w \in Writer : Write(w) \/ Announce(w)
  \/ \E a \in Aggregate : RemoveAggregate(a) \/ \E own \in Owner : Claim(a, own)
  \/ \E r \in Reader : Consume(r)

\* A writer that has committed is uninterruptible until it has announced, and a
\* stream that is consumed reads when it can.  Nobody has to write or to close.
Fairness ==
  /\ \A w \in Writer : WF_vars(Announce(w))
  /\ \A r \in Reader : WF_vars(ReadHistory(r)) /\ WF_vars(ReadLive(r))

Spec == Init /\ [][Next]_vars /\ Fairness

-------------------------------------------------------------------------------
(* Properties *)

\* Every variable has values of its kind.
StreamsTypeOK ==
  /\ db \in Db
  /\ waking \in [Writer -> Aggregate \cup {NoAggregate}]
  /\ stream \in [Reader -> Stream]

\* The numbers of an aggregate have no gap and no double, and an identifier is at
\* one place of one aggregate, whatever mixture of local and replayed events the
\* writers commit (the checks of commitSyncEvent, event.ts:279-332).
LogContiguous == Contiguous(db)

\* A live stream that is behind its log has a wake waiting, or a writer that is
\* about to send one: the subscription precedes the first read, and one slot in
\* the channel is enough (event.ts:588, 612).
NoLostWake ==
  \A r \in Reader :
    stream[r].state = "live" /\ stream[r].cursor < db.latest[stream[r].of]
      => stream[r].wake \/ \E w \in Writer : waking[w] = stream[r].of

\* A stream delivers the events of its aggregate after the cursor it was opened
\* with, each once, in the order of the log and without a gap, and delivers what is
\* stored as long as nobody removes the aggregate (event.ts:614-625).
InOrder(s) ==
  /\ Len(s.emitted) = s.cursor - s.start
  /\ \A i \in DOMAIN s.emitted :
       s.emitted[i].seq = s.start + i /\ s.emitted[i].aggregate = s.of
  /\ ~s.stale => \A i \in DOMAIN s.emitted : s.emitted[i] \in db.rows

StreamInOrder == \A r \in Reader : InOrder(stream[r])

\* An event that is in the log when a stream is open is delivered, unless the
\* stream is closed or the event removed first.
StreamCatchesUp ==
  \A r \in Reader, a \in Aggregate : \A n \in 0..Cardinality(EventId) :
    stream[r].of = a /\ db.latest[a] >= n
      ~> stream[r].of # a \/ stream[r].cursor >= n \/ db.latest[a] < n

\* The tables implement one append-only log for each aggregate.
LogOf(a) ==
  [n \in 0..db.latest[a] |-> (CHOOSE r \in db.rows : r.aggregate = a /\ r.seq = n).id]

Log == INSTANCE AppendOnlyLog
         WITH last <- db.latest, log <- [a \in Aggregate |-> LogOf(a)]

LogImplements == Log!Spec

===============================================================================
