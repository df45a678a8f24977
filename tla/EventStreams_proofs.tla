------------------------- MODULE EventStreams_proofs -------------------------
(***************************************************************************)
(* Proofs about the event tables and their streams, for any numbers of     *)
(* aggregates, events, owners, writers and readers.  Liveness stays with   *)
(* TLC.                                                                    *)
(***************************************************************************)
EXTENDS EventStreams, FiniteSetTheorems, SequenceTheorems, TLAPS

------------------------------------------------------------------------------
(* The transactions *)

\* A transaction leaves a well-formed database: the one before, as far as the logs
\* go, or that one with a new event after the last of its aggregate.
GrowsAtItsEnd(d, a, id, res) ==
  /\ res.db \in Db
  /\ Contiguous(res.db)
  /\ res.outcome # "committed" => res.db.latest = d.latest /\ res.db.rows = d.rows
  /\ res.outcome = "committed"
       => /\ ~IdTaken(d, id)
          /\ res.db.latest = [d.latest EXCEPT ![a] = d.latest[a] + 1]
          /\ res.db.rows = d.rows \cup
               {[id |-> id, aggregate |-> a, seq |-> d.latest[a] + 1]}

\* An event goes in at the end, under an identifier that is new, or not at all.
LEMMA InsertKeepsLog ==
  ASSUME NEW d \in Db, NEW a \in Aggregate, NEW id \in EventId,
         NEW own \in Owner \cup {NoOwner}, Contiguous(d)
  PROVE  GrowsAtItsEnd(d, a, id, Insert(d, a, id, d.latest[a] + 1, own))
<1> DEFINE n == d.latest[a] + 1
           new == [id |-> id, aggregate |-> a, seq |-> n]
           res == Insert(d, a, id, n, own)
<1>1. CASE IdTaken(d, id)
  BY <1>1 DEF Insert, Refused, GrowsAtItsEnd
<1>2. CASE ~IdTaken(d, id)
  <2>1. n \in Nat /\ d.latest[a] \in Nat \cup {-1}
    BY DEF Db
  <2>2. /\ res.outcome = "committed"
        /\ res.db = [latest |-> [d.latest EXCEPT ![a] = n], owner |-> TakeOwner(d, a, own),
                     rows |-> d.rows \cup {new}]
    BY <1>2 DEF Insert, Committed
  <2>3. res.db \in Db
    BY <2>1, <2>2 DEF Db, Row, TakeOwner
  <2>4. /\ \A b \in Aggregate : res.db.latest[b] = IF b = a THEN n ELSE d.latest[b]
        /\ res.db.rows = d.rows \cup {new}
    BY <2>2 DEF Db
  <2>5. \A r \in d.rows : r.id # id
    BY <1>2 DEF IdTaken
  <2>6. \A r \in d.rows : r.aggregate = a => r.seq # n
    BY <2>1 DEF Contiguous, Db, Row
  <2>7. \A b \in Aggregate, r \in res.db.rows :
           r.aggregate = b => r.seq \in 0..res.db.latest[b]
    BY <2>1, <2>4 DEF Contiguous, Db, Row
  <2>8. \A b \in Aggregate : \A m \in 0..res.db.latest[b] :
           \E r \in res.db.rows : r.aggregate = b /\ r.seq = m
    <3> SUFFICES ASSUME NEW b \in Aggregate, NEW m \in 0..res.db.latest[b]
                 PROVE  \E r \in res.db.rows : r.aggregate = b /\ r.seq = m
      OBVIOUS
    <3>1. CASE b = a /\ m = n
      <4>1. new \in res.db.rows /\ new.aggregate = a /\ new.seq = n
        BY <2>4
      <4> QED
        BY <3>1, <4>1
    <3>2. CASE ~(b = a /\ m = n)
      <4>1. m \in 0..d.latest[b]
        BY <3>2, <2>1, <2>4 DEF Db
      <4> QED
        BY <4>1, <2>4 DEF Contiguous
    <3> QED
      BY <3>1, <3>2
  <2>9. \A r, s \in res.db.rows :
           /\ r.aggregate = s.aggregate /\ r.seq = s.seq => r = s
           /\ r.id = s.id => r = s
    BY <2>4, <2>5, <2>6 DEF Contiguous
  <2>10. Contiguous(res.db)
    BY <2>7, <2>8, <2>9 DEF Contiguous
  <2> QED
    BY <1>2, <2>2, <2>3, <2>10 DEF GrowsAtItsEnd
<1> QED
  BY <1>1, <1>2

\* A replayed event extends its log by the next number or leaves every log alone.
LEMMA ReplayKeepsLog ==
  ASSUME NEW d \in Db, NEW a \in Aggregate, NEW id \in EventId, NEW n \in Nat,
         NEW own \in Owner \cup {NoOwner}, NEW strict \in BOOLEAN, Contiguous(d)
  PROVE  GrowsAtItsEnd(d, a, id, ReplayResult(d, a, id, n, own, strict))
<1> DEFINE res == ReplayResult(d, a, id, n, own, strict)
<1>1. CASE res = Insert(d, a, id, d.latest[a] + 1, own)
  BY <1>1, InsertKeepsLog
<1>2. CASE res = Ignored(d) \/ res = Refused(d)
  BY <1>2 DEF Ignored, Refused, GrowsAtItsEnd
<1>3. CASE res = Ignored([d EXCEPT !.owner = TakeOwner(d, a, own)])
  <2>1. /\ res.outcome = "ignored" /\ res.db.latest = d.latest /\ res.db.rows = d.rows
        /\ res.db \in Db
    BY <1>3 DEF Ignored, Db, TakeOwner
  <2> QED
    BY <2>1 DEF Contiguous, GrowsAtItsEnd
<1> QED
  BY <1>1, <1>2, <1>3 DEF ReplayResult, ReplayStored, ReplayNew

------------------------------------------------------------------------------
(* The inductive invariant *)

\* What the steps need to know of a stream; what it has emitted is left open.
StreamShape(s) ==
  /\ s \in [state : {"closed", "subscribed", "live"}, of : Aggregate \cup {NoAggregate},
            start : {s.start}, cursor : Nat \cup {-1}, wake : BOOLEAN,
            emitted : {s.emitted}, stale : {s.stale}]
  /\ s.state # "closed" => s.of \in Aggregate

StreamsShape ==
  /\ db \in Db
  /\ waking \in [Writer -> Aggregate \cup {NoAggregate}]
  /\ stream = [r \in Reader |-> stream[r]]
  /\ \A r \in Reader : StreamShape(stream[r])

IInv == StreamsShape /\ LogContiguous /\ NoLostWake

\* Nothing is stored, announced or read at first.
LEMMA InitIInv == Init => IInv
<1> SUFFICES ASSUME Init PROVE IInv
  OBVIOUS
<1> USE DEF Init, EmptyDb, Closed
<1>1. StreamsShape
  BY DEF StreamsShape, StreamShape, Db
<1>2. Contiguous(db)
  BY DEF Contiguous
<1>3. NoLostWake
  BY DEF NoLostWake
<1> QED
  BY <1>1, <1>2, <1>3 DEF IInv, LogContiguous

\* A read moves the cursor to the end of the log, or leaves it beyond.
LEMMA ReadReachesEnd ==
  ASSUME NEW a \in Aggregate, NEW c \in Nat \cup {-1}, db \in Db, Contiguous(db)
  PROVE  /\ LastSeq(RowsAfter(db, a, c), c) \in Nat \cup {-1}
         /\ LastSeq(RowsAfter(db, a, c), c) >= db.latest[a]
<1> DEFINE rows == RowsAfter(db, a, c)
<1>1. db.latest[a] \in Nat \cup {-1}
  BY DEF Db
<1>2. CASE c >= db.latest[a]
  <2>1. rows = {}
    BY <1>1, <1>2 DEF RowsAfter, Contiguous, Db, Row
  <2> QED
    BY <2>1, <1>2 DEF LastSeq
<1>3. CASE c < db.latest[a]
  <2>1. PICK r \in db.rows : r.aggregate = a /\ r.seq = db.latest[a]
    BY <1>1, <1>3 DEF Contiguous
  <2>2. r \in rows
    BY <1>3, <2>1 DEF RowsAfter
  <2>3. \A q \in rows : q.seq <= r.seq /\ q.seq \in Nat
    BY <1>1, <2>1 DEF RowsAfter, Contiguous, Db, Row
  <2> DEFINE top == CHOOSE t \in rows : \A q \in rows : q.seq <= t.seq
  <2>4. top \in rows /\ \A q \in rows : q.seq <= top.seq
    BY <2>2, <2>3
  <2>5. top.seq = db.latest[a]
    BY <1>1, <2>1, <2>2, <2>3, <2>4
  <2> QED
    BY <1>1, <2>2, <2>5 DEF LastSeq
<1> QED
  BY <1>1, <1>2, <1>3

\* A transaction that only adds to the log, or only changes owners, keeps the
\* invariant: a stream it leaves behind will be woken by the writer.
LEMMA CommitKeepsIInv ==
  ASSUME IInv, NEW w \in Writer, NEW a \in Aggregate, NEW id, NEW result,
         GrowsAtItsEnd(db, a, id, result), Commit(w, a, result)
  PROVE  IInv'
<1> USE DEF IInv
<1>1. /\ db' = result.db /\ stream' = stream /\ waking[w] = NoAggregate
      /\ db' \in Db /\ Contiguous(db')
  BY DEF Commit, GrowsAtItsEnd
<1>2. waking' \in [Writer -> Aggregate \cup {NoAggregate}]
  BY DEF Commit, StreamsShape
<1>3. StreamsShape'
  BY <1>1, <1>2 DEF StreamsShape
<1>4. NoLostWake'
  <2> SUFFICES ASSUME NEW r \in Reader, stream[r].state = "live",
                      stream[r].cursor < db'.latest[stream[r].of], ~stream[r].wake
               PROVE  \E v \in Writer : waking'[v] = stream[r].of
    BY <1>1 DEF NoLostWake
  <2>0. stream[r].of \in Aggregate
    BY DEF StreamsShape, StreamShape
  <2>1. CASE stream[r].cursor < db.latest[stream[r].of]
    <3>1. PICK v \in Writer : waking[v] = stream[r].of
      BY <2>1 DEF NoLostWake
    <3>2. waking'[v] = stream[r].of
      BY <1>1, <2>0, <3>1, StreamsAssumption DEF Commit, StreamsShape
    <3> QED
      BY <3>2
  <2>2. CASE ~(stream[r].cursor < db.latest[stream[r].of])
    <3>1. result.outcome = "committed" /\ stream[r].of = a
      BY <1>1, <2>0, <2>2 DEF GrowsAtItsEnd, StreamsShape, Db
    <3>2. waking'[w] = a
      BY <3>1 DEF Commit, StreamsShape
    <3> QED
      BY <3>1, <3>2
  <2> QED
    BY <2>1, <2>2
<1> QED
  BY <1>1, <1>3, <1>4 DEF LogContiguous

\* A read leaves its stream at the end of the log.
LEMMA ReadKeepsIInv ==
  ASSUME IInv, NEW r \in Reader, NEW s, StreamShape(s), s.of \in Aggregate,
         stream' = [stream EXCEPT ![r] = Read(s)], UNCHANGED <<db, waking>>
  PROVE  IInv'
<1> USE DEF IInv
<1>1. /\ LastSeq(RowsAfter(db, s.of, s.cursor), s.cursor) \in Nat \cup {-1}
      /\ LastSeq(RowsAfter(db, s.of, s.cursor), s.cursor) >= db.latest[s.of]
  BY ReadReachesEnd DEF StreamsShape, LogContiguous, StreamShape
<1>2. /\ StreamShape(Read(s))
      /\ Read(s).of = s.of
      /\ Read(s).cursor >= db.latest[s.of]
  BY <1>1 DEF Read, StreamShape
<1>3. StreamsShape'
  BY <1>2 DEF StreamsShape
<1>4. NoLostWake'
  <2> SUFFICES ASSUME NEW q \in Reader, stream'[q].state = "live",
                      stream'[q].cursor < db.latest[stream'[q].of], ~stream'[q].wake
               PROVE  \E v \in Writer : waking[v] = stream'[q].of
    BY DEF NoLostWake
  <2>1. CASE q = r
    <3>1. stream'[q] = Read(s)
      BY <2>1 DEF StreamsShape
    <3>2. db.latest[s.of] \in Nat \cup {-1} /\ Read(s).cursor \in Nat \cup {-1}
      BY <1>2 DEF StreamsShape, Db, StreamShape
    <3> QED
      BY <3>1, <3>2, <1>2
  <2>2. CASE q # r
    BY <2>2 DEF StreamsShape, NoLostWake
  <2> QED
    BY <2>1, <2>2
<1> QED
  BY <1>3, <1>4 DEF LogContiguous

\* No step of a writer, of an owner change or of a stream breaks the invariant.
LEMMA NextIInv == IInv /\ [Next]_vars => IInv'
<1> SUFFICES ASSUME IInv, [Next]_vars PROVE IInv'
  OBVIOUS
<1> USE DEF IInv
<1>1. ASSUME NEW w \in Writer, Write(w)
      PROVE  IInv'
  <2>1. PICK a \in Aggregate, id \in EventId :
          \/ Publish(w, a, id)
          \/ \E n \in ReplayedSeq(a), own \in Owner : Replay(w, a, id, n, own, FALSE)
          \/ \E n \in ReplayedSeq(a), own \in Owner \cup {NoOwner} : Replay(w, a, id, n, own, TRUE)
    BY <1>1 DEF Write
  <2>2. CASE Publish(w, a, id)
    <3>1. GrowsAtItsEnd(db, a, id, PublishResult(db, a, id))
      BY InsertKeepsLog DEF PublishResult, StreamsShape, LogContiguous
    <3> QED
      BY <2>2, <3>1, CommitKeepsIInv DEF Publish
  <2>3. ASSUME NEW n \in ReplayedSeq(a), NEW own \in Owner \cup {NoOwner}, NEW strict \in BOOLEAN,
               Replay(w, a, id, n, own, strict)
        PROVE  IInv'
    <3>1. n \in Nat
      BY DEF ReplayedSeq, StreamsShape, Db
    <3>2. GrowsAtItsEnd(db, a, id, ReplayResult(db, a, id, n, own, strict))
      BY <3>1, ReplayKeepsLog DEF StreamsShape, LogContiguous
    <3> QED
      BY <2>3, <3>2, CommitKeepsIInv DEF Replay
  <2> QED
    BY <2>1, <2>2, <2>3
<1>2. ASSUME NEW w \in Writer, Announce(w)
      PROVE  IInv'
  <2> USE <1>2 DEF Announce
  <2>1. \A r \in Reader :
          stream'[r] = IF stream[r].of = waking[w] THEN [stream[r] EXCEPT !.wake = TRUE] ELSE stream[r]
    OBVIOUS
  <2>2. \A r \in Reader : /\ StreamShape(stream'[r])
                          /\ stream'[r].of = stream[r].of /\ stream'[r].cursor = stream[r].cursor
                          /\ stream'[r].state = stream[r].state
                          /\ stream'[r].wake = (stream[r].wake \/ stream[r].of = waking[w])
    BY <2>1 DEF StreamsShape, StreamShape
  <2>3. StreamsShape'
    BY <2>2 DEF StreamsShape
  <2>4. NoLostWake'
    BY <2>2 DEF StreamsShape, NoLostWake
  <2> QED
    BY <2>3, <2>4 DEF LogContiguous
<1>3. ASSUME NEW a \in Aggregate, NEW own \in Owner, Claim(a, own)
      PROVE  IInv'
  <2>1. db' \in Db /\ db'.latest = db.latest /\ db'.rows = db.rows /\ UNCHANGED <<waking, stream>>
    BY <1>3 DEF Claim, ClaimResult, StreamsShape, Db
  <2> QED
    BY <2>1 DEF StreamsShape, LogContiguous, Contiguous, NoLostWake
<1>4. ASSUME NEW a \in Aggregate, RemoveAggregate(a)
      PROVE  IInv'
  <2> USE <1>4 DEF RemoveAggregate, RemoveResult
  <2>1. db' \in Db
    BY DEF StreamsShape, Db
  <2>2. Contiguous(db')
    BY DEF LogContiguous, Contiguous, StreamsShape, Db, Row
  <2>3. \A r \in Reader : /\ StreamShape(stream'[r])
                          /\ stream'[r].of = stream[r].of /\ stream'[r].cursor = stream[r].cursor
                          /\ stream'[r].state = stream[r].state /\ stream'[r].wake = stream[r].wake
    BY DEF StreamsShape, StreamShape
  <2>4. StreamsShape'
    BY <2>1, <2>3 DEF StreamsShape
  <2>5. NoLostWake'
    BY <2>3 DEF StreamsShape, StreamShape, NoLostWake, Db
  <2> QED
    BY <2>2, <2>4, <2>5 DEF LogContiguous
<1>5. ASSUME NEW r \in Reader, Consume(r)
      PROVE  IInv'
  <2>0. StreamShape(stream[r])
    BY DEF StreamsShape
  <2>1. ASSUME NEW a \in Aggregate, NEW after \in -1..db.latest[a], Open(r, a, after)
        PROVE  IInv'
    <3> USE <2>1 DEF Open
    <3>1. after \in Nat \cup {-1}
      BY DEF StreamsShape, Db
    <3>2. StreamsShape'
      BY <3>1 DEF StreamsShape, StreamShape, Closed
    <3>3. NoLostWake'
      BY DEF NoLostWake, StreamsShape, Closed
    <3> QED
      BY <3>2, <3>3 DEF LogContiguous
  <2>2. CASE ReadHistory(r)
    BY <2>0, <2>2, ReadKeepsIInv DEF ReadHistory, StreamShape
  <2>3. CASE ReadLive(r)
    <3>1. StreamShape([stream[r] EXCEPT !.wake = FALSE])
      BY <2>0 DEF StreamShape
    <3>2. [stream[r] EXCEPT !.wake = FALSE].of \in Aggregate
      BY <2>0, <2>3 DEF ReadLive, StreamShape
    <3> QED
      BY <2>3, <3>1, <3>2, ReadKeepsIInv DEF ReadLive
  <2>4. CASE Close(r)
    <3> USE <2>4 DEF Close
    <3>1. StreamsShape'
      BY DEF StreamsShape, StreamShape, Closed
    <3>2. NoLostWake'
      BY DEF NoLostWake, StreamsShape, Closed
    <3> QED
      BY <3>1, <3>2 DEF LogContiguous
  <2> QED
    BY <1>5, <2>1, <2>2, <2>3, <2>4 DEF Consume
<1>6. CASE UNCHANGED vars
  BY <1>6 DEF vars, StreamsShape, LogContiguous, NoLostWake
<1> QED
  BY <1>1, <1>2, <1>3, <1>4, <1>5, <1>6 DEF Next

\* The invariant holds in every reachable state.
THEOREM StreamsInvariant == Spec => []IInv
<1>1. Init => IInv
  BY InitIInv
<1>2. IInv /\ [Next]_vars => IInv'
  BY NextIInv
<1> QED
  BY <1>1, <1>2, PTL DEF Spec

\* The log of every aggregate is gapless and without doubles, for any number of
\* writers, local or replaying (commitSyncEvent).
THEOREM LogIsContiguous == Spec => []LogContiguous
<1>1. IInv => LogContiguous
  BY DEF IInv
<1> QED
  BY <1>1, StreamsInvariant, PTL

\* No stream that is behind its log is left without a wake (streamEvents).
THEOREM WakesAreNotLost == Spec => []NoLostWake
<1>1. IInv => NoLostWake
  BY DEF IInv
<1> QED
  BY <1>1, StreamsInvariant, PTL

------------------------------------------------------------------------------
(* What a stream delivers *)

\* Between a cursor and a number of the log there is one row for every number.
LEMMA RowsUpTo ==
  ASSUME NEW d \in Db, Contiguous(d), NEW a \in Aggregate,
         NEW c \in Nat \cup {-1}, NEW k \in Nat \cup {-1}, c <= k, k <= d.latest[a]
  PROVE  /\ IsFiniteSet({r \in RowsAfter(d, a, c) : r.seq <= k})
         /\ Cardinality({r \in RowsAfter(d, a, c) : r.seq <= k}) = k - c
<1> DEFINE S == {r \in RowsAfter(d, a, c) : r.seq <= k}
           I == (c + 1)..k
           f == [n \in I |-> CHOOSE r \in d.rows : r.aggregate = a /\ r.seq = n]
<1>1. d.latest[a] \in Nat \cup {-1}
  BY DEF Db
<1>2. \A n \in I : n \in 0..d.latest[a]
  BY <1>1
<1>3. \A n \in I : f[n] \in d.rows /\ f[n].aggregate = a /\ f[n].seq = n
  BY <1>2 DEF Contiguous
<1>4. \A n \in I : f[n] \in S
  BY <1>3 DEF RowsAfter
<1>5. \A r \in S : r.seq \in I /\ r \in d.rows /\ r.aggregate = a
  BY DEF RowsAfter, Db, Row
<1>6. \A r \in S : f[r.seq] = r
  BY <1>3, <1>5 DEF Contiguous
<1> HIDE DEF f
<1>7. f \in [I -> S]
  BY <1>4 DEF f
<1>8. f \in Injection(I, S)
  BY <1>3, <1>7 DEF Injection, IsInjective
<1>9. f \in Surjection(I, S)
  BY <1>5, <1>6, <1>7 DEF Surjection
<1>10. ExistsBijection(I, S)
  BY <1>8, <1>9 DEF Bijection, ExistsBijection
<1>11. IsFiniteSet(I) /\ Cardinality(I) = k - c
  <2>1. IsFiniteSet(I) /\ Cardinality(I) = IF c + 1 > k THEN 0 ELSE k - (c + 1) + 1
    BY FS_Interval
  <2> QED
    BY <2>1
<1> QED
  BY <1>10, <1>11, FS_Bijection

\* A batch is the run of rows after the cursor: the i-th has the i-th number after
\* it, and the cursor moves by the length of the batch.
LEMMA BatchIsRun ==
  ASSUME NEW d \in Db, Contiguous(d), NEW a \in Aggregate, NEW c \in Nat \cup {-1},
         NEW batch, batch = InNumberOrder(RowsAfter(d, a, c))
  PROVE  /\ LastSeq(RowsAfter(d, a, c), c) \in Nat \cup {-1}
         /\ batch \in Seq(Row)
         /\ Len(batch) = LastSeq(RowsAfter(d, a, c), c) - c
         /\ \A i \in 1..Len(batch) : /\ batch[i] \in d.rows
                                     /\ batch[i].aggregate = a
                                     /\ batch[i].seq = c + i
<1> DEFINE rows == RowsAfter(d, a, c)
           m == d.latest[a]
<1>1. m \in Nat \cup {-1} /\ d.rows \subseteq Row
  BY DEF Db
<1>2. \A r \in rows : r \in d.rows /\ r \in Row /\ r.aggregate = a /\ r.seq \in (c + 1)..m
  BY <1>1 DEF RowsAfter, Contiguous, Row
<1>3. CASE c >= m
  <2>1. rows = {}
    BY <1>1, <1>2, <1>3
  <2>2. Cardinality(rows) = 0
    BY <2>1, FS_EmptySet
  <2>3. batch = <<>>
    BY <2>2 DEF InNumberOrder
  <2>4. LastSeq(rows, c) = c
    BY <2>1 DEF LastSeq
  <2>5. Len(batch) = 0 /\ batch \in Seq(Row)
    BY <2>3
  <2>6. c - c = 0
    OBVIOUS
  <2> QED
    BY <2>4, <2>5, <2>6
<1>4. CASE c < m
  <2>1. PICK top \in rows : top.seq = m
    BY <1>1, <1>4 DEF Contiguous, RowsAfter
  <2>2. LastSeq(rows, c) = m
    <3> DEFINE last == CHOOSE r \in rows : \A q \in rows : q.seq <= r.seq
    <3>1. \A q \in rows : q.seq <= top.seq
      BY <1>1, <1>2, <2>1
    <3>2. last \in rows /\ \A q \in rows : q.seq <= last.seq
      BY <3>1, <2>1
    <3>3. last.seq = m
      BY <1>1, <1>2, <2>1, <3>2
    <3> QED
      BY <2>1, <3>3 DEF LastSeq
  <2>3. Cardinality(rows) = m - c
    <3>1. rows = {r \in RowsAfter(d, a, c) : r.seq <= m}
      BY <1>1, <1>2
    <3>2. c <= m /\ m <= d.latest[a]
      BY <1>1, <1>4
    <3>3. Cardinality({r \in RowsAfter(d, a, c) : r.seq <= m}) = m - c
      BY <3>2, <1>1, RowsUpTo
    <3> QED
      BY <3>1, <3>3
  <2>4. \A r \in rows : Cardinality({q \in rows : q.seq < r.seq}) = r.seq - c - 1
    <3> SUFFICES ASSUME NEW r \in rows
                 PROVE  Cardinality({q \in rows : q.seq < r.seq}) = r.seq - c - 1
      OBVIOUS
    <3>1. /\ r.seq - 1 \in Nat \cup {-1} /\ c <= r.seq - 1 /\ r.seq - 1 <= m
          /\ r.seq \in Int
      BY <1>1, <1>2
    <3>2. {q \in rows : q.seq < r.seq} = {q \in RowsAfter(d, a, c) : q.seq <= r.seq - 1}
      BY <1>2, <3>1
    <3>3. Cardinality({q \in RowsAfter(d, a, c) : q.seq <= r.seq - 1}) = (r.seq - 1) - c
      BY <3>1, RowsUpTo
    <3>4. (r.seq - 1) - c = r.seq - c - 1
      BY <3>1
    <3> QED
      BY <3>2, <3>3, <3>4
  <2>5. batch = [i \in 1..(m - c) |->
                   CHOOSE r \in rows : Cardinality({q \in rows : q.seq < r.seq}) = i - 1]
    BY <2>3 DEF InNumberOrder
  <2>6. ASSUME NEW i \in 1..(m - c)
        PROVE  batch[i] \in rows /\ batch[i].seq = c + i
    <3>1. c + i \in 0..m /\ c + i > c
      BY <1>1
    <3>2. PICK r \in rows : r.seq = c + i
      BY <3>1 DEF Contiguous, RowsAfter
    <3>3. Cardinality({q \in rows : q.seq < r.seq}) = i - 1
      BY <2>4, <3>2
    <3>4. batch[i] = CHOOSE t \in rows : Cardinality({q \in rows : q.seq < t.seq}) = i - 1
      BY <2>5
    <3>5. batch[i] \in rows /\ Cardinality({q \in rows : q.seq < batch[i].seq}) = i - 1
      BY <3>2, <3>3, <3>4
    <3>6. batch[i].seq - c - 1 = i - 1 /\ batch[i].seq \in Int
      BY <1>1, <1>2, <2>4, <3>5
    <3> QED
      BY <3>5, <3>6
  <2> HIDE DEF rows
  <2>7. batch \in Seq(Row) /\ Len(batch) = m - c
    BY <1>1, <1>2, <1>4, <2>5, <2>6
  <2> QED
    BY <1>1, <1>2, <2>2, <2>6, <2>7 DEF rows
<1> QED
  BY <1>1, <1>3, <1>4

\* What a read appends continues what the stream has delivered.
LEMMA ReadContinues ==
  ASSUME db \in Db, Contiguous(db), NEW s \in Stream, s.of \in Aggregate, InOrder(s)
  PROVE  /\ Read(s) \in Stream
         /\ InOrder(Read(s))
<1> DEFINE batch == InNumberOrder(RowsAfter(db, s.of, s.cursor))
           next == LastSeq(RowsAfter(db, s.of, s.cursor), s.cursor)
<1>1. /\ s.cursor \in Nat \cup {-1} /\ s.start \in Nat \cup {-1}
      /\ s.emitted \in Seq(Row) /\ Len(s.emitted) \in Nat
      /\ DOMAIN s.emitted = 1..Len(s.emitted)
  BY DEF Stream
<1>2. /\ next \in Nat \cup {-1} /\ batch \in Seq(Row) /\ Len(batch) = next - s.cursor
      /\ \A i \in 1..Len(batch) : /\ batch[i] \in db.rows
                                  /\ batch[i].aggregate = s.of
                                  /\ batch[i].seq = s.cursor + i
  BY <1>1, BatchIsRun
<1>3. Read(s) = [s EXCEPT !.state = "live", !.cursor = next, !.emitted = s.emitted \o batch]
  BY DEF Read, Stream
<1> HIDE DEF batch, next
<1>4. /\ s.emitted \o batch \in Seq(Row)
      /\ Len(s.emitted \o batch) = Len(s.emitted) + Len(batch)
      /\ \A i \in 1..(Len(s.emitted) + Len(batch)) :
           (s.emitted \o batch)[i] = IF i <= Len(s.emitted) THEN s.emitted[i]
                                     ELSE batch[i - Len(s.emitted)]
  BY <1>1, <1>2, ConcatProperties
<1>5. /\ Read(s) \in Stream
      /\ Read(s).emitted = s.emitted \o batch /\ Read(s).cursor = next
      /\ Read(s).start = s.start /\ Read(s).of = s.of /\ Read(s).stale = s.stale
  BY <1>2, <1>3, <1>4 DEF Stream
<1>6. Len(Read(s).emitted) = Read(s).cursor - Read(s).start
  <2>1. Len(s.emitted) = s.cursor - s.start
    BY DEF InOrder
  <2>2. s.cursor \in Int /\ s.start \in Int /\ next \in Int
    BY <1>1, <1>2
  <2>3. Len(batch) = next - s.cursor /\ Len(s.emitted \o batch) = Len(s.emitted) + Len(batch)
    BY <1>2, <1>4
  <2>4. Len(s.emitted \o batch) = next - s.start
    BY <2>1, <2>2, <2>3
  <2> QED
    BY <1>5, <2>4
<1>7. ASSUME NEW i \in DOMAIN Read(s).emitted
      PROVE  /\ Read(s).emitted[i].seq = s.start + i
             /\ Read(s).emitted[i].aggregate = s.of
             /\ ~s.stale => Read(s).emitted[i] \in db.rows
  <2>1. i \in 1..(Len(s.emitted) + Len(batch))
    BY <1>4, <1>5
  <2>2. CASE i <= Len(s.emitted)
    <3>1. i \in DOMAIN s.emitted /\ Read(s).emitted[i] = s.emitted[i]
      BY <1>1, <1>2, <1>4, <1>5, <2>1, <2>2
    <3> QED
      BY <3>1 DEF InOrder
  <2>3. CASE ~(i <= Len(s.emitted))
    <3> DEFINE j == i - Len(s.emitted)
    <3>0. i \in Int /\ Len(s.emitted) \in Int /\ Len(batch) \in Nat
      BY <1>1, <1>2, <2>1
    <3>1. j \in 1..Len(batch) /\ Read(s).emitted[i] = batch[j]
      <4>1. j \in 1..Len(batch)
        BY <2>1, <2>3, <3>0
      <4>2. Read(s).emitted[i] = (s.emitted \o batch)[i]
        BY <1>5
      <4>3. (s.emitted \o batch)[i] = batch[j]
        BY <1>4, <2>1, <2>3
      <4> QED
        BY <4>1, <4>2, <4>3
    <3>2. s.cursor + j = s.start + i
      <4>1. Len(s.emitted) = s.cursor - s.start
        BY DEF InOrder
      <4>2. s.cursor \in Int /\ s.start \in Int
        BY <1>1
      <4> QED
        BY <3>0, <4>1, <4>2
    <3> QED
      BY <1>2, <3>1, <3>2
  <2> QED
    BY <2>2, <2>3
<1> QED
  BY <1>5, <1>6, <1>7 DEF InOrder

\* Each stream has what a stream has, and has delivered what it should.
DeliveryInv == StreamsTypeOK /\ StreamInOrder

\* A stream that is not open has delivered nothing.
LEMMA ClosedIsInOrder == Closed \in Stream /\ InOrder(Closed) /\ InOrder(Closed)'
<1>1. Closed \in Stream
  BY DEF Closed, Stream
<1>2. InOrder(Closed) /\ InOrder(Closed)'
  BY DEF Closed, InOrder
<1> QED
  BY <1>1, <1>2

\* A removal marks the open streams of its aggregate, and leaves the others theirs.
LEMMA RemovalKeepsDelivery ==
  ASSUME DeliveryInv, StreamsShape', stream' = [r \in Reader |-> stream'[r]],
         NEW a,
         \A r \in Reader : /\ stream'[r] \in Stream
                           /\ stream'[r].start = stream[r].start
                           /\ stream'[r].cursor = stream[r].cursor
                           /\ stream'[r].emitted = stream[r].emitted
                           /\ stream'[r].of = stream[r].of
                           /\ ~stream'[r].stale => ~stream[r].stale /\ stream[r].of # a,
         \A q \in db.rows : q.aggregate # a => q \in db'.rows
  PROVE  DeliveryInv'
<1>1. StreamsTypeOK'
  BY DEF StreamsShape, StreamsTypeOK
<1>2. ASSUME NEW r \in Reader PROVE InOrder(stream[r])'
  <2>1. stream[r] \in Stream /\ InOrder(stream[r])
    BY DEF DeliveryInv, StreamsTypeOK, StreamInOrder
  <2> QED
    BY <2>1 DEF InOrder
<1> QED
  BY <1>1, <1>2 DEF DeliveryInv, StreamInOrder

\* One stream moves to a state in which it has delivered what it should.
LEMMA OneStreamMoves ==
  ASSUME DeliveryInv, StreamsShape', NEW r \in Reader, NEW t \in Stream,
         stream' = [stream EXCEPT ![r] = t], db' = db, InOrder(t)
  PROVE  DeliveryInv'
<1>1. stream' \in [Reader -> Stream]
  BY DEF DeliveryInv, StreamsTypeOK
<1>2. StreamsTypeOK'
  BY <1>1 DEF StreamsShape, StreamsTypeOK
<1>3. ASSUME NEW q \in Reader PROVE InOrder(stream[q])'
  <2>1. stream'[q] = IF q = r THEN t ELSE stream[q]
    BY DEF DeliveryInv, StreamsTypeOK
  <2>2. InOrder(stream'[q])
    BY <2>1 DEF DeliveryInv, StreamInOrder
  <2> QED
    BY <2>2 DEF InOrder
<1> QED
  BY <1>2, <1>3 DEF DeliveryInv, StreamInOrder

\* No step of a writer, of an owner change or of a stream breaks the order.
LEMMA NextDeliveryInv == IInv /\ DeliveryInv /\ [Next]_vars => DeliveryInv'
<1> SUFFICES ASSUME IInv, DeliveryInv, [Next]_vars PROVE DeliveryInv'
  OBVIOUS
<1>0. /\ StreamsShape' /\ stream \in [Reader -> Stream] /\ db \in Db /\ Contiguous(db)
      /\ \A r \in Reader : InOrder(stream[r]) /\ StreamShape(stream[r])
  BY NextIInv DEF IInv, DeliveryInv, StreamsTypeOK, StreamInOrder, LogContiguous, StreamsShape
<1>1. ASSUME UNCHANGED stream, db.rows \subseteq db'.rows PROVE DeliveryInv'
  <2>1. StreamsTypeOK'
    BY <1>0, <1>1 DEF StreamsShape, StreamsTypeOK
  <2>2. StreamInOrder'
    BY <1>0, <1>1 DEF StreamInOrder, InOrder
  <2> QED
    BY <2>1, <2>2 DEF DeliveryInv
<1>2. ASSUME NEW w \in Writer, Write(w) PROVE DeliveryInv'
  <2>1. PICK a \in Aggregate, id \in EventId :
          \/ Publish(w, a, id)
          \/ \E n \in ReplayedSeq(a), own \in Owner : Replay(w, a, id, n, own, FALSE)
          \/ \E n \in ReplayedSeq(a), own \in Owner \cup {NoOwner} : Replay(w, a, id, n, own, TRUE)
    BY <1>2 DEF Write
  <2>2. ASSUME NEW result, GrowsAtItsEnd(db, a, id, result), Commit(w, a, result)
        PROVE  DeliveryInv'
    <3>1. UNCHANGED stream /\ db.rows \subseteq db'.rows
      BY <2>2 DEF GrowsAtItsEnd, Commit
    <3> QED
      BY <1>1, <3>1
  <2>3. CASE Publish(w, a, id)
    <3>1. GrowsAtItsEnd(db, a, id, PublishResult(db, a, id))
      BY <1>0, InsertKeepsLog DEF PublishResult
    <3> QED
      BY <2>2, <2>3, <3>1 DEF Publish
  <2>4. ASSUME NEW n \in ReplayedSeq(a), NEW own \in Owner \cup {NoOwner}, NEW strict \in BOOLEAN,
               Replay(w, a, id, n, own, strict)
        PROVE  DeliveryInv'
    <3>1. n \in Nat
      BY <1>0 DEF ReplayedSeq, Db
    <3>2. GrowsAtItsEnd(db, a, id, ReplayResult(db, a, id, n, own, strict))
      BY <1>0, <3>1, ReplayKeepsLog
    <3> QED
      BY <2>2, <2>4, <3>2 DEF Replay
  <2> QED
    BY <2>1, <2>3, <2>4
<1>3. ASSUME NEW w \in Writer, Announce(w) PROVE DeliveryInv'
  <2>1. /\ stream' = [r \in Reader |-> stream'[r]] /\ db' = db
        /\ \A r \in Reader : stream'[r] = IF stream[r].of = waking[w]
                                          THEN [stream[r] EXCEPT !.wake = TRUE] ELSE stream[r]
    BY <1>3 DEF Announce
  <2>2. \A r \in Reader : /\ stream'[r] \in Stream
                          /\ stream'[r].start = stream[r].start
                          /\ stream'[r].cursor = stream[r].cursor
                          /\ stream'[r].emitted = stream[r].emitted
                          /\ stream'[r].of = stream[r].of
                          /\ stream'[r].stale = stream[r].stale
    BY <1>0, <2>1 DEF Stream
  <2>3. stream' \in [Reader -> Stream]
    BY <2>1, <2>2
  <2>4. StreamsTypeOK'
    BY <1>0, <2>3 DEF StreamsShape, StreamsTypeOK
  <2>5. StreamInOrder'
    BY <1>0, <2>1, <2>2 DEF StreamInOrder, InOrder
  <2> QED
    BY <2>4, <2>5 DEF DeliveryInv
<1>4. ASSUME NEW a \in Aggregate, NEW own \in Owner, Claim(a, own) PROVE DeliveryInv'
  <2>1. UNCHANGED stream /\ db'.rows = db.rows
    BY <1>0, <1>4 DEF Claim, ClaimResult, Db
  <2> QED
    BY <1>1, <2>1
<1>5. ASSUME NEW a \in Aggregate, RemoveAggregate(a) PROVE DeliveryInv'
  <2>1. /\ stream' = [r \in Reader |-> stream'[r]] /\ db'.rows = {q \in db.rows : q.aggregate # a}
        /\ \A r \in Reader : stream'[r] = IF stream[r].of = a
                                          THEN [stream[r] EXCEPT !.stale = TRUE] ELSE stream[r]
    BY <1>5 DEF RemoveAggregate, RemoveResult
  <2>2. \A r \in Reader : /\ stream'[r] \in Stream
                          /\ stream'[r].start = stream[r].start
                          /\ stream'[r].cursor = stream[r].cursor
                          /\ stream'[r].emitted = stream[r].emitted
                          /\ stream'[r].of = stream[r].of
                          /\ ~stream'[r].stale => ~stream[r].stale /\ stream[r].of # a
    BY <1>0, <2>1 DEF Stream
  <2> QED
    BY <1>0, <2>1, <2>2, RemovalKeepsDelivery
<1>6. ASSUME NEW r \in Reader, Consume(r) PROVE DeliveryInv'
  <2>1. ASSUME NEW a \in Aggregate, NEW after \in -1..db.latest[a], Open(r, a, after)
        PROVE  DeliveryInv'
    <3> DEFINE t == [Closed EXCEPT !.state = "subscribed", !.of = a,
                                   !.start = after, !.cursor = after]
    <3>1. after \in Nat \cup {-1}
      BY <1>0 DEF Db
    <3>2. t \in Stream /\ InOrder(t)
      <4>1. t \in Stream
        BY <3>1, <2>1, ClosedIsInOrder DEF Stream
      <4>2. t.emitted = <<>> /\ t.cursor = after /\ t.start = after /\ after - after = 0
        BY <3>1 DEF Closed
      <4> HIDE DEF t
      <4> QED
        BY <4>1, <4>2 DEF InOrder
    <3>3. stream' = [stream EXCEPT ![r] = t] /\ db' = db
      BY <2>1 DEF Open
    <3> HIDE DEF t
    <3> QED
      BY <1>0, <3>2, <3>3, OneStreamMoves
  <2>2. CASE ReadHistory(r)
    <3>1. stream[r] \in Stream /\ stream[r].of \in Aggregate /\ InOrder(stream[r])
      BY <1>0, <2>2 DEF ReadHistory, StreamShape
    <3>2. Read(stream[r]) \in Stream /\ InOrder(Read(stream[r]))
      BY <1>0, <3>1, ReadContinues
    <3>3. stream' = [stream EXCEPT ![r] = Read(stream[r])] /\ db' = db
      BY <2>2 DEF ReadHistory
    <3> QED
      BY <1>0, <3>2, <3>3, OneStreamMoves
  <2>3. CASE ReadLive(r)
    <3> DEFINE s == [stream[r] EXCEPT !.wake = FALSE]
    <3>1. s \in Stream /\ s.of \in Aggregate /\ InOrder(s)
      <4>1. stream[r] \in Stream /\ stream[r].of \in Aggregate /\ InOrder(stream[r])
        BY <1>0, <2>3 DEF ReadLive, StreamShape
      <4>2. /\ s \in Stream /\ s.of = stream[r].of /\ s.emitted = stream[r].emitted
            /\ s.cursor = stream[r].cursor /\ s.start = stream[r].start
            /\ s.stale = stream[r].stale
        BY <4>1 DEF Stream
      <4> HIDE DEF s
      <4> QED
        BY <4>1, <4>2 DEF InOrder
    <3>2. stream' = [stream EXCEPT ![r] = Read(s)] /\ db' = db
      BY <2>3 DEF ReadLive
    <3> HIDE DEF s
    <3>3. Read(s) \in Stream /\ InOrder(Read(s))
      BY <1>0, <3>1, ReadContinues
    <3> QED
      BY <1>0, <3>2, <3>3, OneStreamMoves
  <2>4. CASE Close(r)
    <3>1. stream' = [stream EXCEPT ![r] = Closed] /\ db' = db
      BY <2>4 DEF Close
    <3> QED
      BY <1>0, <3>1, ClosedIsInOrder, OneStreamMoves
  <2> QED
    BY <1>6, <2>1, <2>2, <2>3, <2>4 DEF Consume
<1>7. CASE UNCHANGED vars
  BY <1>1, <1>7 DEF vars
<1> QED
  BY <1>2, <1>3, <1>4, <1>5, <1>6, <1>7 DEF Next

\* Nothing is open at first.
LEMMA InitDeliveryInv == Init => DeliveryInv
<1> SUFFICES ASSUME Init PROVE DeliveryInv
  OBVIOUS
<1>1. db \in Db
  BY DEF Init, EmptyDb, Db
<1>2. StreamsTypeOK
  BY <1>1, ClosedIsInOrder DEF Init, StreamsTypeOK
<1>3. StreamInOrder
  BY ClosedIsInOrder DEF Init, StreamInOrder
<1> QED
  BY <1>2, <1>3 DEF DeliveryInv

\* The streams have delivered what they should in every reachable state.
LEMMA DeliveryInvariant == Spec => []DeliveryInv
<1>1. Init => DeliveryInv
  BY InitDeliveryInv
<1>2. IInv /\ DeliveryInv /\ [Next]_vars => DeliveryInv'
  BY NextDeliveryInv
<1> QED
  BY <1>1, <1>2, StreamsInvariant, PTL DEF Spec

\* A stream delivers the log of its aggregate from its cursor on, each event once,
\* in order and without a gap, however reads, commits and removals interleave
\* (streamEvents, readAfter).
THEOREM StreamsDeliverInOrder == Spec => []StreamInOrder
<1>1. DeliveryInv => StreamInOrder
  BY DEF DeliveryInv
<1> QED
  BY <1>1, DeliveryInvariant, PTL

\* The tables, the wakes and the streams have values of their kind: what a stream
\* delivered are rows, and its cursor is a number or -1.
THEOREM StreamsTypes == Spec => []StreamsTypeOK
<1>1. DeliveryInv => StreamsTypeOK
  BY DEF DeliveryInv
<1> QED
  BY <1>1, DeliveryInvariant, PTL

------------------------------------------------------------------------------
(* The tables implement append-only logs *)

\* The entry of a log is the one row of the table with its number.
LEMMA EntryIsRow ==
  ASSUME db \in Db, Contiguous(db), NEW a \in Aggregate, NEW n \in 0..db.latest[a]
  PROVE  /\ \E r \in db.rows : r.aggregate = a /\ r.seq = n
         /\ \A r \in db.rows : r.aggregate = a /\ r.seq = n => LogOf(a)[n] = r.id
  BY DEF Contiguous, LogOf

\* An identifier is in a log when it is in the table.
LEMMA LoggedIsTaken ==
  ASSUME db \in Db, Contiguous(db), NEW id \in EventId, Log!Logged(id)
  PROVE  IdTaken(db, id)
  BY EntryIsRow DEF Log!Logged, IdTaken

\* The transaction of a writer appends one event or leaves the logs alone.
LEMMA CommitImplements ==
  ASSUME StreamsShape, LogContiguous, NEW a \in Aggregate, NEW id \in EventId, NEW result,
         GrowsAtItsEnd(db, a, id, result), db' = result.db
  PROVE  Log!Append(a, id) \/ UNCHANGED Log!vars
<1>1. CASE result.outcome # "committed"
  <2>1. db'.latest = db.latest /\ db'.rows = db.rows
    BY <1>1 DEF GrowsAtItsEnd
  <2> QED
    BY <2>1 DEF Log!vars, LogOf
<1>2. CASE result.outcome = "committed"
  <2> DEFINE n == db.latest[a] + 1
             new == [id |-> id, aggregate |-> a, seq |-> n]
  <2>1. /\ ~IdTaken(db, id) /\ db' \in Db /\ Contiguous(db')
        /\ db'.latest = [db.latest EXCEPT ![a] = n]
        /\ db'.rows = db.rows \cup {new}
    BY <1>2 DEF GrowsAtItsEnd
  <2>2. /\ db \in Db /\ Contiguous(db) /\ n \in Nat
    BY DEF StreamsShape, LogContiguous, Db
  <2>3. ~Log!Logged(id)
    BY <2>1, <2>2, LoggedIsTaken
  <2>4. LogOf(a)' = [m \in 0..n |-> IF m = n THEN id ELSE LogOf(a)[m]]
    <3>1. db'.latest[a] = n
      BY <2>1, <2>2 DEF Db
    <3>2. ASSUME NEW m \in 0..n, m = n
          PROVE  (CHOOSE r \in db'.rows : r.aggregate = a /\ r.seq = m).id = id
      <4>1. new \in db'.rows /\ new.aggregate = a /\ new.seq = m /\ new.id = id
        BY <2>1, <3>2
      <4> QED
        BY <2>1, <4>1 DEF Contiguous
    <3>3. ASSUME NEW m \in 0..(n - 1)
          PROVE  (CHOOSE r \in db'.rows : r.aggregate = a /\ r.seq = m).id = LogOf(a)[m]
      <4>1. m \in 0..db.latest[a]
        BY <2>2 DEF Db
      <4>2. PICK r \in db.rows : r.aggregate = a /\ r.seq = m
        BY <2>2, <4>1, EntryIsRow
      <4>3. LogOf(a)[m] = r.id
        BY <2>2, <4>1, <4>2, EntryIsRow
      <4> QED
        BY <2>1, <4>2, <4>3 DEF Contiguous
    <3>4. \A m \in 0..n : m = n \/ m \in 0..(n - 1)
      BY <2>2
    <3>5. LogOf(a)' = [m \in 0..n |-> (CHOOSE r \in db'.rows : r.aggregate = a /\ r.seq = m).id]
      BY <3>1 DEF LogOf
    <3>6. ASSUME NEW m \in 0..n
          PROVE  (CHOOSE r \in db'.rows : r.aggregate = a /\ r.seq = m).id
                   = IF m = n THEN id ELSE LogOf(a)[m]
      <4>1. CASE m = n
        BY <4>1, <3>2
      <4>2. CASE m # n
        <5>1. m \in 0..(n - 1)
          BY <4>2, <3>4
        <5> QED
          BY <4>2, <5>1, <3>3
      <4> QED
        BY <4>1, <4>2
    <3> QED
      BY <3>5, <3>6
  <2>5. ASSUME NEW b \in Aggregate, b # a
        PROVE  LogOf(b)' = LogOf(b)
    <3>1. db'.latest[b] = db.latest[b]
      BY <2>1, <2>2, <2>5 DEF Db
    <3>2. ASSUME NEW m \in 0..db.latest[b]
          PROVE  (CHOOSE r \in db'.rows : r.aggregate = b /\ r.seq = m).id = LogOf(b)[m]
      <4>1. PICK r \in db.rows : r.aggregate = b /\ r.seq = m
        BY <2>2, EntryIsRow
      <4>2. LogOf(b)[m] = r.id
        BY <2>2, <4>1, EntryIsRow
      <4> QED
        BY <2>1, <4>1, <4>2 DEF Contiguous
    <3> QED
      BY <3>1, <3>2 DEF LogOf
  <2> QED
    BY <2>1, <2>2, <2>3, <2>4, <2>5 DEF Log!Append
<1> QED
  BY <1>1, <1>2

\* A removal empties one log.
LEMMA RemoveImplements ==
  ASSUME StreamsShape, LogContiguous, NEW a \in Aggregate, RemoveAggregate(a)
  PROVE  Log!Remove(a)
<1> USE DEF RemoveAggregate, RemoveResult
<1>1. db'.latest = [db.latest EXCEPT ![a] = -1]
  OBVIOUS
<1>2. LogOf(a)' = [n \in 0..-1 |-> n]
  BY <1>1 DEF LogOf, StreamsShape, Db
<1>3. ASSUME NEW b \in Aggregate, b # a
      PROVE  LogOf(b)' = LogOf(b)
  <2>1. db'.latest[b] = db.latest[b]
    BY <1>1, <1>3 DEF StreamsShape, Db
  <2>2. ASSUME NEW m \in 0..db.latest[b]
        PROVE  (CHOOSE r \in db'.rows : r.aggregate = b /\ r.seq = m).id = LogOf(b)[m]
    <3>1. PICK r \in db.rows : r.aggregate = b /\ r.seq = m
      BY EntryIsRow DEF StreamsShape, LogContiguous
    <3>2. LogOf(b)[m] = r.id
      BY <3>1, EntryIsRow DEF StreamsShape, LogContiguous
    <3>3. r \in db'.rows /\ db'.rows \subseteq db.rows
      BY <1>3, <3>1
    <3> QED
      BY <3>1, <3>2, <3>3 DEF LogContiguous, Contiguous
  <2> QED
    BY <2>1, <2>2 DEF LogOf
<1> QED
  BY <1>1, <1>2, <1>3 DEF Log!Remove

\* Every step of the service is a step of the logs, or none.
LEMMA StepImplements == IInv /\ [Next]_vars => [Log!Next]_(Log!vars)
<1> SUFFICES ASSUME IInv, [Next]_vars PROVE Log!Next \/ UNCHANGED Log!vars
  OBVIOUS
<1> USE DEF IInv
<1>1. ASSUME UNCHANGED db PROVE UNCHANGED Log!vars
  BY <1>1 DEF Log!vars, LogOf
<1>2. ASSUME NEW w \in Writer, Write(w) PROVE Log!Next \/ UNCHANGED Log!vars
  <2>1. PICK a \in Aggregate, id \in EventId :
          \/ Publish(w, a, id)
          \/ \E n \in ReplayedSeq(a), own \in Owner : Replay(w, a, id, n, own, FALSE)
          \/ \E n \in ReplayedSeq(a), own \in Owner \cup {NoOwner} : Replay(w, a, id, n, own, TRUE)
    BY <1>2 DEF Write
  <2>2. CASE Publish(w, a, id)
    <3>1. GrowsAtItsEnd(db, a, id, PublishResult(db, a, id))
      BY InsertKeepsLog DEF PublishResult, StreamsShape, LogContiguous
    <3> QED
      BY <2>2, <3>1, CommitImplements DEF Publish, Commit, Log!Next
  <2>3. ASSUME NEW n \in ReplayedSeq(a), NEW own \in Owner \cup {NoOwner}, NEW strict \in BOOLEAN,
               Replay(w, a, id, n, own, strict)
        PROVE  Log!Next \/ UNCHANGED Log!vars
    <3>1. n \in Nat
      BY DEF ReplayedSeq, StreamsShape, Db
    <3>2. GrowsAtItsEnd(db, a, id, ReplayResult(db, a, id, n, own, strict))
      BY <3>1, ReplayKeepsLog DEF StreamsShape, LogContiguous
    <3> QED
      BY <2>3, <3>2, CommitImplements DEF Replay, Commit, Log!Next
  <2> QED
    BY <2>1, <2>2, <2>3
<1>3. ASSUME NEW a \in Aggregate, NEW own \in Owner, Claim(a, own) PROVE UNCHANGED Log!vars
  BY <1>3 DEF Claim, ClaimResult, Log!vars, LogOf, StreamsShape, Db
<1>4. ASSUME NEW a \in Aggregate, RemoveAggregate(a) PROVE Log!Next
  BY <1>4, RemoveImplements DEF Log!Next
<1>5. ASSUME NEW w \in Writer, Announce(w) PROVE UNCHANGED db
  BY <1>5 DEF Announce
<1>6. ASSUME NEW r \in Reader, Consume(r) PROVE UNCHANGED db
  BY <1>6 DEF Consume, Open, ReadHistory, ReadLive, Close
<1> QED
  BY <1>1, <1>2, <1>3, <1>4, <1>5, <1>6 DEF Next, vars

\* The tables of one database implement append-only logs, and nothing a stream does
\* shows in them (commitSyncEvent, remove).
THEOREM TablesImplementLogs == Spec => LogImplements
<1>1. Init => Log!Init
  BY DEF Init, EmptyDb, LogOf, Log!Init
<1>2. IInv /\ [Next]_vars => [Log!Next]_(Log!vars)
  BY StepImplements
<1> QED
  BY <1>1, <1>2, StreamsInvariant, PTL DEF Spec, LogImplements, Log!Spec

==============================================================================
