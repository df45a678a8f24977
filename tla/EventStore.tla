----------------------------- MODULE EventStore -----------------------------
(***************************************************************************)
(* The synchronized event tables of one database (event.ts).  EventSequence *)
(* holds the latest sequence number and the owner of each aggregate,       *)
(* Event one row for every committed event.  Every operator here is one    *)
(* immediate transaction: it gives the database it leaves behind and what  *)
(* the caller is told.  A refused transaction is a defect and rolls back.  *)
(*                                                                         *)
(* The type, the version and the data of an event never change once its id *)
(* is given out, so that an id stands for all of them.                     *)
(***************************************************************************)
EXTENDS Integers

CONSTANTS
  Aggregate,  \* what events belong to: sessions
  EventId,    \* identifiers of events
  Owner,      \* workspaces that may own an aggregate
  NoOwner     \* the null of the owner column

ASSUME OwnerAssumption == NoOwner \notin Owner

Row == [id : EventId, aggregate : Aggregate, seq : Nat]

Db == [latest : [Aggregate -> Nat \cup {-1}],
       owner  : [Aggregate -> Owner \cup {NoOwner}],
       rows   : SUBSET Row]

\* The latest sequence number of an aggregate without a row reads as -1.
EmptyDb == [latest |-> [a \in Aggregate |-> -1],
            owner  |-> [a \in Aggregate |-> NoOwner],
            rows   |-> {}]

Committed(db) == [outcome |-> "committed", db |-> db]
Ignored(db)   == [outcome |-> "ignored", db |-> db]
Refused(db)   == [outcome |-> "refused", db |-> db]

IdTaken(db, id) == \E r \in db.rows : r.id = id

StoredAt(db, a, id, n) == [id |-> id, aggregate |-> a, seq |-> n] \in db.rows

\* An ownerless aggregate takes the owner that a replay names; no other does.
TakeOwner(db, a, own) ==
  IF own # NoOwner /\ db.owner[a] = NoOwner
  THEN [db.owner EXCEPT ![a] = own]
  ELSE db.owner

\* Mutant of Insert: an identifier is not looked up before it is inserted.
InsertUnchecked(db, a, id, n, own) ==
  Committed([latest |-> [db.latest EXCEPT ![a] = n],
             owner  |-> TakeOwner(db, a, own),
             rows   |-> db.rows \cup {[id |-> id, aggregate |-> a, seq |-> n]}])

\* Guards, projectors and the local commit hook run before the two inserts, in
\* the same transaction; one that fails refuses the event and is not shown.
Insert(db, a, id, n, own) ==
  IF IdTaken(db, id)
  THEN Refused(db)
  ELSE Committed([latest |-> [db.latest EXCEPT ![a] = n],
                  owner  |-> TakeOwner(db, a, own),
                  rows   |-> db.rows \cup {[id |-> id, aggregate |-> a, seq |-> n]}])

\* A local event takes the next number, whoever owns the aggregate.
PublishResult(db, a, id) == Insert(db, a, id, db.latest[a] + 1, NoOwner)

\* Mutant of ReplayStored: a replayed event takes the place of the stored one.
ReplayOverwrites(db, a, id, n, own) ==
  Ignored([db EXCEPT !.rows = {r \in @ : r.aggregate # a \/ r.seq # n}
                                \cup {[id |-> id, aggregate |-> a, seq |-> n]}])

\* A replayed event that is stored already changes nothing but a missing owner.
ReplayStored(db, a, id, n, own) ==
  IF StoredAt(db, a, id, n)
  THEN Ignored([db EXCEPT !.owner = TakeOwner(db, a, own)])
  ELSE Refused(db)

OwnedByOther(db, a, own) == db.owner[a] # NoOwner /\ db.owner[a] # own

\* Mutant of ReplayNew: a replayed event gets the next number of the replica.
ReplayRenumbers(db, a, id, n, own) ==
  IF OwnedByOther(db, a, own) THEN Ignored(db)
  ELSE Insert(db, a, id, db.latest[a] + 1, own)

\* Mutant of ReplayNew: the owner is not compared.
ReplayFromAnyone(db, a, id, n, own) ==
  IF n # db.latest[a] + 1 THEN Refused(db) ELSE Insert(db, a, id, n, own)

ReplayNew(db, a, id, n, own) ==
  IF OwnedByOther(db, a, own) THEN Ignored(db)
  ELSE IF n # db.latest[a] + 1 THEN Refused(db)
  ELSE Insert(db, a, id, n, own)

ReplayResult(db, a, id, n, own, strict) ==
  IF strict /\ OwnedByOther(db, a, own) THEN Refused(db)
  ELSE IF n <= db.latest[a] THEN ReplayStored(db, a, id, n, own)
  ELSE ReplayNew(db, a, id, n, own)

\* An update: nothing happens to an aggregate without a row.
ClaimResult(db, a, own) ==
  IF db.latest[a] = -1 THEN db ELSE [db EXCEPT !.owner[a] = own]

RemoveResult(db, a) ==
  [latest |-> [db.latest EXCEPT ![a] = -1],
   owner  |-> [db.owner EXCEPT ![a] = NoOwner],
   rows   |-> {r \in db.rows : r.aggregate # a}]

\* The rows that follow a cursor; the statement orders them by number.
RowsAfter(db, a, cursor) == {r \in db.rows : r.aggregate = a /\ r.seq > cursor}

(***************************************************************************)
(* What every database satisfies: the numbers of an aggregate are          *)
(* 0, 1, ..., latest, each given out once, and no identifier occurs twice. *)
(***************************************************************************)
Contiguous(db) ==
  /\ \A a \in Aggregate :
       /\ \A r \in db.rows : r.aggregate = a => r.seq \in 0..db.latest[a]
       /\ \A n \in 0..db.latest[a] : \E r \in db.rows : r.aggregate = a /\ r.seq = n
  /\ \A r, s \in db.rows : r.aggregate = s.aggregate /\ r.seq = s.seq => r = s
  /\ \A r, s \in db.rows : r.id = s.id => r = s

=============================================================================
