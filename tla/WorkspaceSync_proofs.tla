------------------------- MODULE WorkspaceSync_proofs -------------------------
(***************************************************************************)
(* Proofs about the session that a control plane follows and moves, for    *)
(* any workspaces, events, warps and failures.  SyncInv says where every   *)
(* row comes from; FollowInv, which rests on it, what a control plane that *)
(* writes nothing itself knows of the session it follows.                  *)
(***************************************************************************)
EXTENDS WorkspaceSync, TLAPS

USE SyncAssumption, OwnerAssumption

------------------------------------------------------------------------------
(* The transactions *)

\* A new event is one more row, or none, and leaves the owner alone.
LEMMA PublishRows ==
  ASSUME NEW d \in Db, NEW id \in EventId
  PROVE  LET res == PublishResult(d, Session, id)
         IN  /\ res.db \in Db
             /\ res.db.owner = d.owner
             /\ \/ res.db.rows = d.rows
                \/ \E q \in Row : q.id = id /\ res.db.rows = d.rows \cup {q}
<1> DEFINE n == d.latest[Session] + 1
           q == [id |-> id, aggregate |-> Session, seq |-> n]
           e == [latest |-> [d.latest EXCEPT ![Session] = n], owner |-> d.owner,
                 rows |-> d.rows \cup {q}]
<1>1. n \in Nat /\ Session \in Aggregate
  BY DEF Db
<1>2. q \in Row /\ q.id = id
  BY <1>1 DEF Row
<1>3. PublishResult(d, Session, id) \in {Refused(d), Committed(e)}
  BY DEF PublishResult, Insert, TakeOwner
<1>4. e \in Db
  BY <1>1, <1>2 DEF Db
<1> HIDE DEF e, q
<1>5. e.owner = d.owner /\ e.rows = d.rows \cup {q}
  BY DEF e
<1>6. CASE PublishResult(d, Session, id) = Refused(d)
  BY <1>6 DEF Refused
<1>7. CASE PublishResult(d, Session, id) = Committed(e)
  BY <1>2, <1>4, <1>5, <1>7 DEF Committed
<1> QED
  BY <1>3, <1>6, <1>7

\* A replay adds its row or none, and adds it only for who owns the session; an
\* owner that there is stays.
AddsForOwner(d, r, own, res) ==
  /\ res.db \in Db
  /\ d.owner[Session] # NoOwner => res.db.owner[Session] = d.owner[Session]
  /\ \/ res.db.rows = d.rows
     \/ res.db.rows = d.rows \cup {r} /\ d.owner[Session] \in {NoOwner, own}

LEMMA ReplayRows ==
  ASSUME NEW d \in Db, NEW r \in Row, NEW own \in Owner, NEW strict \in BOOLEAN,
         NEW res, res = ReplayResult(d, Session, r.id, r.seq, own, strict)
  PROVE  AddsForOwner(d, r, own, res)
<1> USE DEF AddsForOwner
<1> DEFINE o == TakeOwner(d, Session, own)
           e1 == [d EXCEPT !.owner = o]
           e2 == [latest |-> [d.latest EXCEPT ![Session] = r.seq], owner |-> o,
                  rows |-> d.rows \cup {r}]
<1>1. /\ Session \in Aggregate /\ r.aggregate = Session /\ r.seq \in Nat /\ r.id \in EventId
      /\ r = [id |-> r.id, aggregate |-> Session, seq |-> r.seq]
  BY DEF Row
<1>2. /\ o \in [Aggregate -> Owner \cup {NoOwner}]
      /\ d.owner[Session] # NoOwner => o[Session] = d.owner[Session]
  BY <1>1 DEF TakeOwner, Db
<1>3. \/ res \in {Refused(d), Ignored(d), Ignored(e1)}
      \/ res = Committed(e2) /\ ~OwnedByOther(d, Session, own)
  BY <1>1 DEF ReplayResult, ReplayStored, ReplayNew, Insert
<1>4. e1 \in Db /\ e1.owner = o /\ e1.rows = d.rows
  BY <1>2 DEF Db
<1>5. e2 \in Db /\ e2.owner = o /\ e2.rows = d.rows \cup {r}
  BY <1>1, <1>2 DEF Db
<1> HIDE DEF o, e1, e2
<1>6. CASE res \in {Refused(d), Ignored(d)}
  BY <1>6 DEF Refused, Ignored
<1>7. CASE res = Ignored(e1)
  BY <1>2, <1>4, <1>7 DEF Ignored
<1>8. CASE res = Committed(e2) /\ ~OwnedByOther(d, Session, own)
  BY <1>2, <1>5, <1>8 DEF Committed, OwnedByOther
<1> QED
  BY <1>3, <1>6, <1>7, <1>8

------------------------------------------------------------------------------
(* What the steps have in common *)

\* Logs only grow, by rows of the right origin, and events stay what they are.
LogsGrow ==
  /\ dbs' \in [Node -> Db]
  /\ event' \in [EventId -> [by : Node \cup {None}, home : Node \cup {None}, fenced : BOOLEAN]]
  /\ home' \in [Node -> Node \cup {None}]
  /\ \A n \in Node : dbs[n].rows \subseteq dbs'[n].rows
  /\ RowsArePublished' /\ RowsHaveOrigin' /\ FencedHasOwner'
  /\ \A r \in dbs'[Control].rows \ dbs[Control].rows :
       event'[r.id].fenced => OwnerAt(Control) = event'[r.id].by

\* An event that is published at a node goes into the log of that node.
LEMMA PublishGrows ==
  ASSUME SyncInv, NEW n \in Node, NEW h \in Node \cup {None}, PublishAt(n, h)
  PROVE  /\ LogsGrow
         /\ unsent' \in [Workspace -> SUBSET Row]
         /\ \A w \in Workspace : unsent'[w] \subseteq unsent[w] \cup dbs'[w].rows
<1> USE DEF SyncInv
<1>1. PICK id \in EventId : /\ id = CHOOSE i \in EventId : event[i].by = None
                            /\ event[id].by = None
  BY DEF PublishAt
<1>2. PICK e \in [by : Node \cup {None}, home : Node \cup {None}, fenced : BOOLEAN] :
        e = [by |-> n, home |-> h,
             fenced |-> n # Control /\ OwnerAt(Control) \notin {n, NoOwner}]
  <2> DEFINE f == n # Control /\ OwnerAt(Control) \notin {n, NoOwner}
             x == [by |-> n, home |-> h, fenced |-> f]
  <2>1. f \in BOOLEAN
    OBVIOUS
  <2> HIDE DEF f
  <2>2. x \in [by : Node \cup {None}, home : Node \cup {None}, fenced : BOOLEAN]
    BY <2>1
  <2> QED
    BY <2>2 DEF f
<1>3. /\ e.by = n /\ e.home = h
      /\ e.fenced => n # Control /\ OwnerAt(Control) # NoOwner
  BY <1>2
<1>4. PICK d \in Db : /\ d = PublishResult(dbs[n], Session, id).db
                      /\ d.owner = dbs[n].owner
                      /\ \/ d.rows = dbs[n].rows
                         \/ \E q \in Row : q.id = id /\ d.rows = dbs[n].rows \cup {q}
  <2>1. dbs[n] \in Db
    BY DEF SyncTypeOK
  <2> QED
    BY <2>1, PublishRows
<1>5. /\ event' = [event EXCEPT ![id] = e]
      /\ dbs' = [dbs EXCEPT ![n] = d]
      /\ home' = SetHome(n, e)
      /\ unsent' = IF n = Control THEN unsent
                   ELSE [unsent EXCEPT ![n] = unsent[n] \cup (d.rows \ dbs[n].rows)]
  BY <1>1, <1>2, <1>4 DEF PublishAt, SyncTypeOK
<1>6. /\ dbs' \in [Node -> Db]
      /\ \A m \in Node : dbs'[m] = IF m = n THEN d ELSE dbs[m]
  BY <1>4, <1>5 DEF SyncTypeOK
<1>7. /\ event' \in [EventId -> [by : Node \cup {None}, home : Node \cup {None}, fenced : BOOLEAN]]
      /\ \A i \in EventId : event'[i] = IF i = id THEN e ELSE event[i]
  BY <1>5 DEF SyncTypeOK
<1>8. /\ home' \in [Node -> Node \cup {None}]
      /\ \A m \in Node : home'[m] = IF m = n /\ h # None THEN h ELSE home[m]
  BY <1>3, <1>5 DEF SetHome, SyncTypeOK
<1>9. \A m \in Node : dbs[m].rows \subseteq dbs'[m].rows /\ dbs'[m].owner = dbs[m].owner
  BY <1>4, <1>6
<1>10. \A m \in Node : \A r \in dbs[m].rows : r.id \in EventId /\ event'[r.id] = event[r.id]
  BY <1>1, <1>7 DEF RowsArePublished, SyncTypeOK, Db, Row
<1>11. \A m \in Node : \A r \in dbs'[m].rows \ dbs[m].rows : m = n /\ event'[r.id] = e
  BY <1>4, <1>6, <1>7
<1>12. None \notin Node /\ Control \notin Workspace
  OBVIOUS
<1>13. RowsArePublished'
  BY <1>3, <1>10, <1>11, <1>12 DEF RowsArePublished
<1>14. RowsHaveOrigin'
  <2>1. ASSUME NEW w \in Workspace, NEW r \in dbs'[w].rows
        PROVE  event'[r.id].by = w \/ r \in dbs'[Control].rows
    <3>1. w \in Node /\ Control \in Node
      BY DEF Node
    <3>2. CASE r \in dbs[w].rows
      BY <1>9, <1>10, <3>1, <3>2 DEF RowsHaveOrigin
    <3>3. CASE r \notin dbs[w].rows
      BY <1>3, <1>11, <2>1, <3>1, <3>3
    <3> QED
      BY <3>2, <3>3
  <2>2. ASSUME NEW r \in dbs'[Control].rows, event'[r.id].by \in Workspace
        PROVE  r \in dbs'[event'[r.id].by].rows
    <3>1. Control \in Node /\ Workspace \subseteq Node
      BY DEF Node
    <3>2. CASE r \in dbs[Control].rows
      BY <1>9, <1>10, <2>2, <3>1, <3>2 DEF RowsHaveOrigin
    <3>3. CASE r \notin dbs[Control].rows
      BY <1>3, <1>11, <1>12, <2>2, <3>1, <3>3
    <3> QED
      BY <3>2, <3>3
  <2> QED
    BY <2>1, <2>2 DEF RowsHaveOrigin
<1>15. OwnerAt(Control)' = OwnerAt(Control)
  BY <1>9 DEF OwnerAt, Node
<1>16. FencedHasOwner'
  BY <1>3, <1>7, <1>15 DEF FencedHasOwner
<1>17. \A r \in dbs'[Control].rows \ dbs[Control].rows : ~event'[r.id].fenced
  BY <1>3, <1>11 DEF Node
<1>18. LogsGrow
  BY <1>6, <1>7, <1>8, <1>9, <1>13, <1>14, <1>16, <1>17 DEF LogsGrow
<1>19. /\ unsent' \in [Workspace -> SUBSET Row]
       /\ \A w \in Workspace : unsent'[w] \subseteq unsent[w] \cup dbs'[w].rows
  <2>1. d.rows \subseteq Row /\ (n # Control => n \in Workspace)
    BY DEF Db, Node
  <2>2. CASE n = Control
    BY <1>5, <2>2 DEF SyncTypeOK
  <2>3. CASE n # Control
    BY <1>5, <1>6, <2>1, <2>3 DEF SyncTypeOK
  <2> QED
    BY <2>2, <2>3
<1> QED
  BY <1>18, <1>19

\* A row that is replayed comes from a workspace, for that workspace, into the log
\* of the control plane, or from there into the log of a workspace.
LEMMA ReplayGrows ==
  ASSUME SyncInv, NEW n \in Node, NEW own \in Workspace, NEW strict \in BOOLEAN,
         NEW r \in Row, ReplayAt(n, r, own, strict),
         n = Control => r \in dbs[own].rows,
         n # Control => r \in dbs[Control].rows
  PROVE  LogsGrow
<1> USE DEF SyncInv
<1>1. PICK d \in Db :
        /\ d = Replayed(n, r, own, strict).db
        /\ dbs[n].owner[Session] # NoOwner => d.owner[Session] = dbs[n].owner[Session]
        /\ \/ d.rows = dbs[n].rows
           \/ d.rows = dbs[n].rows \cup {r} /\ dbs[n].owner[Session] \in {NoOwner, own}
  <2>1. own \in Owner /\ dbs[n] \in Db
    BY DEF SyncTypeOK
  <2> DEFINE res == Replayed(n, r, own, strict)
  <2>2. res = ReplayResult(dbs[n], Session, r.id, r.seq, own, strict)
    BY DEF Replayed
  <2> HIDE DEF res
  <2>3. AddsForOwner(dbs[n], r, own, res)
    BY <2>1, <2>2, ReplayRows
  <2> QED
    BY <2>3 DEF res, AddsForOwner
<1>2. /\ dbs' = [dbs EXCEPT ![n] = d] /\ UNCHANGED event
      /\ home' \in {home, SetHome(n, event[r.id])}
  BY <1>1 DEF ReplayAt
<1>3. /\ dbs' \in [Node -> Db]
      /\ \A m \in Node : dbs'[m] = IF m = n THEN d ELSE dbs[m]
  BY <1>1, <1>2 DEF SyncTypeOK
<1>4. r.id \in EventId
  BY DEF Row
<1>5. /\ home' \in [Node -> Node \cup {None}]
      /\ \A m \in Node : home'[m] \in {home[m], event[r.id].home}
  BY <1>2, <1>4 DEF SetHome, SyncTypeOK
<1>6. /\ \A m \in Node : dbs[m].rows \subseteq dbs'[m].rows
      /\ \A m \in Node : \A q \in dbs'[m].rows \ dbs[m].rows :
           q = r /\ m = n /\ dbs[n].owner[Session] \in {NoOwner, own}
  BY <1>1, <1>3
<1>7. Control \in Node /\ Workspace \subseteq Node /\ Control \notin Workspace
      /\ None \notin Node /\ NoOwner \notin Workspace
      /\ (n # Control => n \in Workspace)
  BY DEF Node
<1>8. RowsArePublished'
  <2>1. event[r.id].by # None
    BY <1>7 DEF RowsArePublished
  <2> QED
    BY <1>2, <1>6, <2>1 DEF RowsArePublished
<1>9. ASSUME n = Control, r \notin dbs[Control].rows PROVE event[r.id].by = own
  BY <1>9 DEF RowsHaveOrigin
<1>10. RowsHaveOrigin'
  <2>1. ASSUME NEW w \in Workspace, NEW q \in dbs'[w].rows
        PROVE  event'[q.id].by = w \/ q \in dbs'[Control].rows
    <3>1. CASE q \in dbs[w].rows
      BY <1>2, <1>6, <1>7, <3>1 DEF RowsHaveOrigin
    <3>2. CASE q \notin dbs[w].rows
      BY <1>6, <1>7, <2>1, <3>2
    <3> QED
      BY <3>1, <3>2
  <2>2. ASSUME NEW q \in dbs'[Control].rows, event'[q.id].by \in Workspace
        PROVE  q \in dbs'[event'[q.id].by].rows
    <3>1. CASE q \in dbs[Control].rows
      BY <1>2, <1>6, <1>7, <2>2, <3>1 DEF RowsHaveOrigin
    <3>2. CASE q \notin dbs[Control].rows
      <4>1. q = r /\ n = Control
        BY <1>6, <1>7, <2>2, <3>2
      <4> QED
        BY <1>2, <1>6, <1>7, <1>9, <3>2, <4>1
    <3> QED
      BY <3>1, <3>2
  <2> QED
    BY <2>1, <2>2 DEF RowsHaveOrigin
<1>11. FencedHasOwner'
  <2>1. OwnerAt(Control) # NoOwner => OwnerAt(Control)' # NoOwner
    BY <1>1, <1>3, <1>7 DEF OwnerAt
  <2> QED
    BY <1>2, <2>1 DEF FencedHasOwner
<1>12. \A q \in dbs'[Control].rows \ dbs[Control].rows :
         event'[q.id].fenced => OwnerAt(Control) = event'[q.id].by
  <2> SUFFICES ASSUME NEW q \in dbs'[Control].rows, q \notin dbs[Control].rows,
                      event[q.id].fenced
               PROVE  OwnerAt(Control) = event[q.id].by
    BY <1>2
  <2>1. q = r /\ n = Control /\ OwnerAt(Control) \in {NoOwner, own}
    BY <1>6, <1>7 DEF OwnerAt
  <2>2. OwnerAt(Control) # NoOwner
    BY <1>4, <2>1 DEF FencedHasOwner
  <2> QED
    BY <1>9, <2>1, <2>2
<1>13. LogsGrow
  BY <1>2, <1>3, <1>5, <1>6, <1>8, <1>10, <1>11, <1>12 DEF LogsGrow, SyncTypeOK
<1> QED
  BY <1>13

\* Where no log changes, nothing is added to one.
LEMMA QuietGrows ==
  ASSUME SyncInv, UNCHANGED <<dbs, event, home>>
  PROVE  LogsGrow
<1> USE DEF SyncInv
<1>1. RowsArePublished' /\ RowsHaveOrigin' /\ FencedHasOwner'
  BY DEF RowsArePublished, RowsHaveOrigin, FencedHasOwner, OwnerAt
<1> QED
  BY <1>1 DEF LogsGrow, SyncTypeOK

------------------------------------------------------------------------------
(* The invariant *)

LEMMA SyncInit == Init => SyncInv
<1> SUFFICES ASSUME Init PROVE SyncInv
  OBVIOUS
<1> USE DEF Init
<1>1. EmptyDb \in Db /\ EmptyDb.rows = {}
  BY DEF EmptyDb, Db
<1>2. SyncTypeOK
  BY <1>1 DEF SyncTypeOK, Unused, NoWarp, Warp, Link
<1>3. RowsArePublished /\ RowsHaveOrigin /\ FencedHasOwner
  BY <1>1 DEF RowsArePublished, RowsHaveOrigin, FencedHasOwner, Unused, Node
<1>4. InTransit
  BY DEF InTransit, NoWarp
<1> QED
  BY <1>2, <1>3, <1>4 DEF SyncInv

\* What the loops hold keeps its kind and its origin.
LoopsKeep ==
  /\ unsent' \in [Workspace -> SUBSET Row] /\ rows' \in [Workspace -> SUBSET Row]
  /\ link' \in [Workspace -> Link] /\ fence' \in [Workspace -> Nat \cup {-1}]
  /\ stream' \in [Workspace -> Seq(Row)] /\ settled' \in [Workspace -> BOOLEAN]
  /\ \A w \in Workspace :
       /\ rows'[w] \cup unsent'[w] \subseteq dbs'[w].rows
       /\ \A i \in 1..Len(stream'[w]) : stream'[w][i] \in dbs'[w].rows

\* What the warp holds keeps its kind and its origin.
WarpKeeps ==
  /\ warp' \in Warp
  /\ warp'.pc # "idle" => warp'.to # None
  /\ warps' \in 0..MaxWarps /\ drops' \in 0..MaxDrops
  /\ warp'.pc = "replay" => warp'.from \in Workspace /\ warp'.rows \subseteq dbs'[warp'.from].rows
  /\ warp'.pc = "final" => warp'.from \in Workspace
  /\ warp'.pc \in {"sending", "finish"} => warp'.to \in Workspace
  /\ warp'.pc = "sending" => warp'.rows \subseteq dbs'[Control].rows

\* The parts of a step together.
LEMMA PartsKeep ==
  ASSUME LogsGrow, LoopsKeep, WarpKeeps
  PROVE  SyncInv'
<1>1. SyncTypeOK'
  BY DEF LogsGrow, LoopsKeep, WarpKeeps, SyncTypeOK
<1>2. InTransit'
  BY DEF LoopsKeep, WarpKeeps, InTransit
<1> QED
  BY <1>1, <1>2 DEF LogsGrow, SyncInv

\* A step that leaves the warp alone.
LEMMA WarpStays ==
  ASSUME SyncInv, LogsGrow, UNCHANGED <<warp, warps>>, drops' \in 0..MaxDrops
  PROVE  WarpKeeps
<1>1. Workspace \subseteq Node /\ Control \in Node
  BY DEF Node
<1> QED
  BY <1>1 DEF SyncInv, SyncTypeOK, InTransit, LogsGrow, WarpKeeps

\* A step that leaves the loops alone, but for what a workspace has yet to announce.
LEMMA LoopsStay ==
  ASSUME SyncInv, LogsGrow, UNCHANGED <<link, fence, rows, stream>>,
         settled' \in [Workspace -> BOOLEAN], unsent' \in [Workspace -> SUBSET Row],
         \A w \in Workspace : unsent'[w] \subseteq unsent[w] \cup dbs'[w].rows
  PROVE  LoopsKeep
<1>1. \A w \in Workspace : dbs[w].rows \subseteq dbs'[w].rows
  BY DEF LogsGrow, Node
<1>2. \A w \in Workspace : rows[w] \cup unsent[w] \subseteq dbs[w].rows
  BY DEF SyncInv, InTransit
<1>3. \A w \in Workspace : rows'[w] \cup unsent'[w] \subseteq dbs'[w].rows
  BY <1>1, <1>2
<1>4. \A w \in Workspace : \A i \in 1..Len(stream'[w]) : stream'[w][i] \in dbs'[w].rows
  BY <1>1 DEF SyncInv, InTransit
<1> QED
  BY <1>3, <1>4 DEF SyncInv, SyncTypeOK, LoopsKeep

LEMMA PublishKeeps ==
  ASSUME SyncInv, NEW n \in Node, Create(n) \/ Work(n)
  PROVE  SyncInv' /\ LogsGrow
<1>1. PICK h \in {None, n} : PublishAt(n, h) /\ (h = n => Create(n)) /\ (h = None => Work(n))
  BY DEF Create, Work, Node
<1>2. h \in Node \cup {None} /\ UNCHANGED <<loopVars, warp, warps, drops>>
  BY <1>1 DEF Create, Work
<1>3. LogsGrow /\ unsent' \in [Workspace -> SUBSET Row]
      /\ \A w \in Workspace : unsent'[w] \subseteq unsent[w] \cup dbs'[w].rows
  BY <1>1, <1>2, PublishGrows
<1>4. LoopsKeep
  BY <1>2, <1>3, LoopsStay DEF loopVars, SyncInv, SyncTypeOK
<1>5. WarpKeeps
  BY <1>2, <1>3, WarpStays DEF SyncInv, SyncTypeOK
<1> QED
  BY <1>3, <1>4, <1>5, PartsKeep

\* A step of a loop that changes no log.
LEMMA LoopKeeps ==
  ASSUME SyncInv, NEW w \in Workspace,
         \/ Emit(w) \/ Connect(w) \/ AskHistory(w) \/ ServeHistory(w)
         \/ Connected(w) \/ Drop(w) \/ StartSync(w)
  PROVE  SyncInv' /\ LogsGrow
<1> USE DEF SyncInv
<1>1. UNCHANGED <<dbs, event, home, warp, warps>>
  BY DEF Emit, Connect, AskHistory, ServeHistory, Connected, Drop, StartSync, nodeVars
<1>2. LogsGrow
  BY <1>1, QuietGrows
<1>3. drops' \in 0..MaxDrops
  BY DEF Emit, Connect, AskHistory, ServeHistory, Connected, Drop, StartSync, SyncTypeOK
<1>4. WarpKeeps
  BY <1>1, <1>2, <1>3, WarpStays
<1>6. LoopsKeep
  <2>1. CASE Emit(w)
    <3>1. PICK r \in unsent[w] :
            /\ unsent' = [unsent EXCEPT ![w] = unsent[w] \ {r}]
            /\ stream' \in {stream, [stream EXCEPT ![w] = Append(stream[w], r)]}
      BY <2>1 DEF Emit, SyncTypeOK
    <3>2. UNCHANGED <<link, fence, rows, settled>>
      BY <2>1 DEF Emit
    <3>3. r \in Row /\ r \in dbs[w].rows
      BY <3>1 DEF SyncTypeOK, InTransit
    <3>4. /\ unsent' \in [Workspace -> SUBSET Row]
          /\ \A v \in Workspace : unsent'[v] \subseteq unsent[v]
      BY <3>1 DEF SyncTypeOK
    <3>7. PICK t \in Seq(Row) : t = Append(stream[w], r)
      <4>1. stream[w] \in Seq(Row)
        BY DEF SyncTypeOK
      <4>2. Append(stream[w], r) \in Seq(Row)
        BY <3>3, <4>1
      <4> QED
        BY <4>2
    <3>5. /\ stream' \in [Workspace -> Seq(Row)]
          /\ \A v \in Workspace : stream'[v] = stream[v] \/ (v = w /\ stream'[v] = t)
      <4> DEFINE T == Seq(Row)
      <4>1. stream \in [Workspace -> T] /\ stream' \in {stream, [stream EXCEPT ![w] = t]} /\ t \in T
        BY <3>1, <3>7 DEF SyncTypeOK
      <4> HIDE DEF T
      <4>2. /\ stream' \in [Workspace -> T]
            /\ \A v \in Workspace : stream'[v] = stream[v] \/ (v = w /\ stream'[v] = t)
        <5>1. CASE stream' = stream
          BY <4>1, <5>1
        <5>2. CASE stream' = [stream EXCEPT ![w] = t]
          BY <4>1, <5>2
        <5> QED
          BY <4>1, <5>1, <5>2
      <4> QED
        BY <4>2 DEF T
    <3>6. \A v \in Workspace : \A i \in 1..Len(stream'[v]) : stream'[v][i] \in dbs[v].rows
      <4> SUFFICES ASSUME NEW v \in Workspace, NEW i \in 1..Len(stream'[v])
                   PROVE  stream'[v][i] \in dbs[v].rows
        OBVIOUS
      <4>1. CASE stream'[v] = stream[v]
        BY <4>1 DEF InTransit
      <4>2. CASE v = w /\ stream'[v] = t
        <5>1. /\ stream[w] \in Seq(Row)
              /\ i \in 1..(Len(stream[w]) + 1)
              /\ stream'[v][i] = IF i = Len(stream[w]) + 1 THEN r ELSE stream[w][i]
          BY <3>3, <3>7, <4>2 DEF SyncTypeOK
        <5>2. i # Len(stream[w]) + 1 => i \in 1..Len(stream[w])
          BY <5>1
        <5> QED
          BY <3>3, <4>2, <5>1, <5>2 DEF InTransit
      <4> QED
        BY <3>5, <4>1, <4>2
    <3> QED
      BY <1>1, <3>2, <3>4, <3>5, <3>6 DEF LoopsKeep, SyncTypeOK, InTransit
  <2>2. CASE AskHistory(w)
    <3>1. Latest(Control) \in Nat \cup {-1}
      BY DEF SyncTypeOK, Db, Latest, Node
    <3> QED
      BY <1>1, <2>2, <3>1 DEF AskHistory, LoopsKeep, SyncTypeOK, InTransit, Link, nodeVars
  <2>3. CASE ServeHistory(w)
    <3>1. RowsAfter(dbs[w], Session, fence[w]) \subseteq dbs[w].rows
      BY DEF RowsAfter
    <3>2. dbs[w].rows \subseteq Row
      BY DEF SyncTypeOK, Db, Node
    <3> QED
      BY <1>1, <2>3, <3>1, <3>2 DEF ServeHistory, LoopsKeep, SyncTypeOK, InTransit, Link, nodeVars
  <2>4. CASE Connect(w) \/ Connected(w) \/ StartSync(w)
    BY <1>1, <2>4 DEF Connect, Connected, StartSync, LoopsKeep, SyncTypeOK, InTransit, Link, nodeVars
  <2>5. CASE Drop(w)
    BY <1>1, <2>5 DEF Drop, LoopsKeep, SyncTypeOK, InTransit, Link, nodeVars
  <2> QED
    BY <2>1, <2>2, <2>3, <2>4, <2>5
<1> QED
  BY <1>2, <1>4, <1>6, PartsKeep

\* A loop that replays history, or an event of the stream, at the control plane.
LEMMA LoopReplayKeeps ==
  ASSUME SyncInv, NEW w \in Workspace, ReplayHistory(w) \/ Deliver(w)
  PROVE  SyncInv' /\ LogsGrow
<1> USE DEF SyncInv
<1>1. PICK r \in dbs[w].rows : ReplayAt(Control, r, w, FALSE)
  <2>1. CASE ReplayHistory(w)
    BY <2>1 DEF ReplayHistory, Earliest, InTransit
  <2>2. CASE Deliver(w)
    <3>1. Len(stream[w]) \in Nat \ {0} /\ Head(stream[w]) = stream[w][1]
      BY <2>2 DEF Deliver, SyncTypeOK
    <3>2. stream[w][1] \in dbs[w].rows
      BY <3>1 DEF InTransit
    <3>3. ReplayAt(Control, Head(stream[w]), w, FALSE)
      BY <2>2 DEF Deliver
    <3> QED
      BY <3>1, <3>2, <3>3
  <2> QED
    BY <2>1, <2>2
<1>2. r \in Row /\ Control \in Node /\ FALSE \in BOOLEAN
  BY DEF SyncTypeOK, Db, Node
<1>3. LogsGrow
  BY <1>1, <1>2, ReplayGrows
<1>4. UNCHANGED <<event, unsent, fence, settled, warp, warps, drops>>
  BY <1>1 DEF ReplayHistory, Deliver, ReplayAt
<1>5. WarpKeeps
  BY <1>3, <1>4, WarpStays DEF SyncTypeOK
<1>7. /\ link' \in [Workspace -> Link] /\ rows' \in [Workspace -> SUBSET Row]
      /\ \A v \in Workspace : rows'[v] \subseteq rows[v]
  <2>1. CASE Deliver(w)
    BY <2>1 DEF Deliver, SyncTypeOK
  <2>2. CASE ReplayHistory(w)
    <3>1. PICK q \in rows[w] : rows' \in {[rows EXCEPT ![w] = {}], [rows EXCEPT ![w] = rows[w] \ {q}]}
      BY <2>2 DEF ReplayHistory, Earliest, SyncTypeOK
    <3>2. link' \in {link, [link EXCEPT ![w] = "dead"]}
      BY <2>2 DEF ReplayHistory
    <3>3. link' \in [Workspace -> Link]
      BY <3>2 DEF SyncTypeOK, Link
    <3>4. CASE rows' = [rows EXCEPT ![w] = {}]
      BY <3>3, <3>4 DEF SyncTypeOK
    <3>5. CASE rows' = [rows EXCEPT ![w] = rows[w] \ {q}]
      BY <3>3, <3>5 DEF SyncTypeOK
    <3> QED
      BY <3>1, <3>4, <3>5
  <2> QED
    BY <2>1, <2>2
<1>8. /\ stream' \in [Workspace -> Seq(Row)]
      /\ \A v \in Workspace : stream'[v] \in {stream[v], <<>>}
                              \/ (stream[v] # <<>> /\ stream'[v] = Tail(stream[v]))
  <2>1. CASE Deliver(w)
    <3>1. stream[w] \in Seq(Row) /\ stream[w] # <<>>
          /\ stream' = [stream EXCEPT ![w] = Tail(stream[w])]
      BY <2>1 DEF Deliver, SyncTypeOK
    <3>2. Tail(stream[w]) \in Seq(Row)
      BY <3>1
    <3> QED
      BY <3>1, <3>2 DEF SyncTypeOK
  <2>2. CASE ReplayHistory(w)
    <3>1. stream' \in {stream, [stream EXCEPT ![w] = <<>>]}
      BY <2>2 DEF ReplayHistory
    <3>2. <<>> \in Seq(Row)
      OBVIOUS
    <3>3. CASE stream' = stream
      BY <3>3 DEF SyncTypeOK
    <3>4. CASE stream' = [stream EXCEPT ![w] = <<>>]
      BY <3>2, <3>4 DEF SyncTypeOK
    <3> QED
      BY <3>1, <3>3, <3>4
  <2> QED
    BY <2>1, <2>2
<1>9. \A v \in Workspace : dbs[v].rows \subseteq dbs'[v].rows
  BY <1>3 DEF LogsGrow, Node
<1>10. \A v \in Workspace : \A i \in 1..Len(stream'[v]) : stream'[v][i] \in dbs'[v].rows
  <2> SUFFICES ASSUME NEW v \in Workspace, NEW i \in 1..Len(stream'[v])
               PROVE  stream'[v][i] \in dbs'[v].rows
    OBVIOUS
  <2>1. CASE stream'[v] = stream[v]
    BY <1>9, <2>1 DEF InTransit
  <2>2. CASE stream'[v] = <<>>
    BY <2>2
  <2>3. CASE stream[v] # <<>> /\ stream'[v] = Tail(stream[v])
    <3>1. i + 1 \in 1..Len(stream[v]) /\ stream'[v][i] = stream[v][i + 1]
      BY <2>3 DEF SyncTypeOK
    <3> QED
      BY <1>9, <3>1 DEF InTransit
  <2> QED
    BY <1>8, <2>1, <2>2, <2>3
<1>11. LoopsKeep
  BY <1>4, <1>7, <1>8, <1>9, <1>10 DEF LoopsKeep, SyncTypeOK, InTransit
<1> QED
  BY <1>3, <1>5, <1>11, PartsKeep

\* A step of a warp that changes no log.
LEMMA QuietWarpKeeps ==
  ASSUME SyncInv,
         (\E to \in Node : WarpStart(to)) \/ WarpFinal \/ WarpSend \/ WarpFails
  PROVE  SyncInv' /\ LogsGrow
<1> USE DEF SyncInv
<1>1. UNCHANGED <<dbs, event, home, unsent, link, fence, rows, stream, settled>>
  BY DEF WarpStart, WarpFinal, WarpSend, WarpFails, nodeVars, loopVars
<1>2. LogsGrow
  BY <1>1, QuietGrows
<1>3. LoopsKeep
  BY <1>1, <1>2, LoopsStay DEF SyncTypeOK
<1>4. Control \in Node /\ Workspace = Node \ {Control} /\ None \notin Node
      /\ NoWarp.pc = "idle"
      /\ NoWarp \in Warp
  BY DEF Node, NoWarp, Warp
<1>5. \A n \in Node : dbs[n].rows \subseteq Row
  BY DEF SyncTypeOK, Db
<1>6. WarpKeeps
  <2>1. ASSUME NEW to \in Node, WarpStart(to) PROVE WarpKeeps
    <3>1. /\ home[Control] \in Node /\ warps' = warps + 1 /\ warps' \in 0..MaxWarps
          /\ drops' = drops
      BY <1>4, <2>1 DEF WarpStart, SyncTypeOK
    <3>2. /\ warp'.pc = IF home[Control] = Control THEN "send" ELSE "final"
          /\ warp'.from = home[Control] /\ warp'.to = to /\ warp'.rows = {}
          /\ warp' \in Warp
      BY <2>1, <3>1 DEF WarpStart, Local, Warp
    <3>3. warps' # 0
      BY <3>1 DEF SyncTypeOK
    <3> QED
      BY <1>4, <3>1, <3>2, <3>3 DEF WarpKeeps, SyncTypeOK
  <2>2. CASE WarpFinal
    <3>1. PICK pc \in {"replay", "claim"}, rs \in SUBSET dbs[warp.from].rows :
            /\ warp' = [warp EXCEPT !.pc = pc, !.rows = rs]
            /\ warps' = warps /\ drops' \in 0..MaxDrops
      <4> DEFINE from == IF home[Control] = warp.from THEN Latest(Control) ELSE -1
                 rs == RowsAfter(dbs[warp.from], Session, from)
      <4>1. rs \in SUBSET dbs[warp.from].rows /\ {} \in SUBSET dbs[warp.from].rows
        BY DEF RowsAfter
      <4>2. \/ warp' = [warp EXCEPT !.pc = "replay", !.rows = rs] /\ UNCHANGED drops
            \/ warp' = [warp EXCEPT !.pc = "claim", !.rows = {}] /\ drops < MaxDrops /\ drops' = drops + 1
        BY <2>2 DEF WarpFinal, Then
      <4>3. warps' = warps /\ drops' \in 0..MaxDrops
        BY <2>2, <4>2 DEF WarpFinal, SyncTypeOK
      <4> HIDE DEF rs
      <4> QED
        BY <4>1, <4>2, <4>3
    <3>2. warp.pc = "final" /\ warp.from \in Workspace
      BY <2>2 DEF WarpFinal, InTransit
    <3>3. /\ warp'.pc = pc /\ warp'.from = warp.from /\ warp'.to = warp.to /\ warp'.rows = rs
          /\ warp' \in Warp
      BY <1>4, <1>5, <3>1, <3>2 DEF SyncTypeOK, Warp
    <3> QED
      BY <1>1, <3>1, <3>2, <3>3 DEF WarpKeeps, SyncTypeOK
  <2>3. CASE WarpSend
    <3>1. /\ warp.pc = "send" /\ warp.to # Control /\ warps' = warps /\ drops' = drops
          /\ warp' = [warp EXCEPT !.pc = "sending", !.rows = dbs[Control].rows]
      BY <2>3 DEF WarpSend, Then, Local
    <3>2. warp.to \in Workspace
      BY <1>4, <3>1 DEF SyncTypeOK, Warp
    <3>3. /\ warp'.pc = "sending" /\ warp'.to = warp.to /\ warp'.rows = dbs[Control].rows
          /\ warp' \in Warp
      BY <1>4, <1>5, <3>1 DEF SyncTypeOK, Warp
    <3> QED
      BY <1>1, <1>4, <3>1, <3>2, <3>3 DEF WarpKeeps, SyncTypeOK
  <2>4. CASE WarpFails
    <3>1. warp' = NoWarp /\ warps' = warps /\ drops' \in 0..MaxDrops
      BY <2>4 DEF WarpFails, SyncTypeOK
    <3> QED
      BY <1>2, <1>4, <3>1 DEF WarpKeeps, SyncTypeOK
  <2> QED
    BY <2>1, <2>2, <2>3, <2>4
<1> QED
  BY <1>2, <1>3, <1>6, PartsKeep

\* A step of a warp after which it stands at a place that asks nothing of its rows.
LEMMA WarpMoves ==
  ASSUME SyncInv, LogsGrow, warp.pc # "idle", UNCHANGED <<warps, drops>>,
         NEW pc \in {"replay", "send", "sending", "finish"},
         NEW rs \in SUBSET warp.rows,
         \/ warp' = NoWarp
         \/ /\ warp' = [warp EXCEPT !.pc = pc, !.rows = rs]
            /\ pc \in {"replay", "sending"} => pc = warp.pc
            /\ pc = "finish" => warp.pc = "sending"
  PROVE  WarpKeeps
<1> USE DEF SyncInv
<1>3. /\ Control \in Node /\ Workspace \subseteq Node
      /\ warps' \in 0..MaxWarps /\ drops' \in 0..MaxDrops
  BY DEF Node, SyncTypeOK
<1>4. CASE warp' = NoWarp
  <2>1. /\ NoWarp \in Warp
        /\ NoWarp.pc = "idle"
    BY DEF NoWarp, Warp
  <2> QED
    BY <1>3, <1>4, <2>1 DEF WarpKeeps
<1>5. CASE /\ warp' = [warp EXCEPT !.pc = pc, !.rows = rs]
           /\ pc \in {"replay", "sending"} => pc = warp.pc
           /\ pc = "finish" => warp.pc = "sending"
  <2>1. /\ warp'.pc = pc /\ warp'.from = warp.from /\ warp'.to = warp.to /\ warp'.rows = rs
        /\ warp' \in Warp
    BY <1>5 DEF SyncTypeOK, Warp
  <2>2. \A n \in Node : dbs[n].rows \subseteq dbs'[n].rows
    BY DEF LogsGrow
  <2>3. /\ warp.pc = "replay" => warp.from \in Workspace /\ rs \subseteq dbs'[warp.from].rows
        /\ warp.pc = "sending" => warp.to \in Workspace /\ rs \subseteq dbs'[Control].rows
    BY <1>3, <2>2 DEF InTransit
  <2> QED
    <3>1. warp.to # None
      BY DEF SyncTypeOK
    <3>2. pc = "finish" => warp.to \in Workspace
      BY <1>5, <2>3
    <3>3. pc = "sending" => warp.to \in Workspace /\ rs \subseteq dbs'[Control].rows
      BY <1>5, <2>3
    <3>4. pc = "replay" => warp.from \in Workspace /\ rs \subseteq dbs'[warp.from].rows
      BY <1>5, <2>3
    <3> QED
      BY <1>3, <2>1, <3>1, <3>2, <3>3, <3>4 DEF WarpKeeps
<1> QED
  BY <1>4, <1>5

LEMMA WarpReplayKeeps ==
  ASSUME SyncInv, WarpReplay \/ WarpTransfer
  PROVE  SyncInv' /\ LogsGrow
<1> USE DEF SyncInv
<1>1. PICK n \in Node, own \in Workspace, strict \in BOOLEAN, r \in warp.rows :
        /\ ReplayAt(n, r, own, strict)
        /\ n = Control => r \in dbs[own].rows
        /\ n # Control => r \in dbs[Control].rows
        /\ \/ warp' = NoWarp
           \/ warp' = [warp EXCEPT !.pc = warp.pc, !.rows = warp.rows \ {r}]
  <2>1. Control \in Node /\ Workspace \subseteq Node /\ Control \notin Workspace
    BY DEF Node
  <2>2. CASE WarpReplay
    <3>1. warp.pc = "replay" /\ warp.from \in Workspace /\ warp.rows \subseteq dbs[warp.from].rows
      BY <2>2 DEF WarpReplay, InTransit
    <3>2. PICK r \in warp.rows :
            /\ ReplayAt(Control, r, warp.from, FALSE)
            /\ \/ warp' = NoWarp
               \/ warp' = [warp EXCEPT !.pc = warp.pc, !.rows = warp.rows \ {r}]
      BY <2>2, <3>1 DEF WarpReplay, Earliest, Then
    <3> QED
      BY <2>1, <3>1, <3>2
  <2>3. CASE WarpTransfer
    <3>1. warp.pc = "sending" /\ warp.to \in Workspace /\ warp.rows \subseteq dbs[Control].rows
      BY <2>3 DEF WarpTransfer, InTransit
    <3>2. PICK r \in warp.rows :
            /\ ReplayAt(warp.to, r, warp.to, TRUE)
            /\ \/ warp' = NoWarp
               \/ warp' = [warp EXCEPT !.pc = warp.pc, !.rows = warp.rows \ {r}]
      BY <2>3, <3>1 DEF WarpTransfer, Earliest, Then
    <3> QED
      BY <2>1, <3>1, <3>2
  <2> QED
    BY <2>2, <2>3
<1>2. r \in Row
  BY DEF SyncTypeOK, Warp
<1>3. LogsGrow
  BY <1>1, <1>2, ReplayGrows
<1>4. UNCHANGED <<unsent, link, fence, rows, stream, settled, warps, drops>>
      /\ warp.pc \in {"replay", "sending"}
  BY DEF WarpReplay, WarpTransfer, ReplayAt, loopVars
<1>5. WarpKeeps
  BY <1>1, <1>3, <1>4, WarpMoves
<1>6. LoopsKeep
  BY <1>3, <1>4, LoopsStay DEF SyncTypeOK
<1> QED
  BY <1>3, <1>5, <1>6, PartsKeep

LEMMA WarpClaimKeeps ==
  ASSUME SyncInv, WarpClaim
  PROVE  SyncInv' /\ LogsGrow
<1> USE DEF SyncInv
<1>1. PICK own \in Owner : own = IF warp.to = Local THEN Project ELSE warp.to
  BY DEF WarpClaim, SyncTypeOK, Node, Local, Warp
<1>2. PICK d \in Db : /\ d = ClaimResult(dbs[Control], Session, own)
                      /\ d.rows = dbs[Control].rows
                      /\ d.owner[Session] \in {dbs[Control].owner[Session], own}
  <2>1. dbs[Control] \in Db
    BY DEF SyncTypeOK, Node
  <2> DEFINE e == [dbs[Control] EXCEPT !.owner[Session] = own]
  <2>2. /\ e \in Db /\ e.rows = dbs[Control].rows /\ e.owner[Session] = own
    BY <2>1 DEF Db
  <2> HIDE DEF e
  <2>3. ClaimResult(dbs[Control], Session, own) \in {dbs[Control], e}
    BY DEF ClaimResult, e
  <2> QED
    BY <2>1, <2>2, <2>3
<1>3. /\ dbs' = [dbs EXCEPT ![Control] = d]
      /\ UNCHANGED <<event, home, unsent, link, fence, rows, stream, warps, drops>>
      /\ warp' = [warp EXCEPT !.pc = "send", !.rows = {}]
      /\ warp.pc \in {"claim", "replay"}
  BY <1>1, <1>2 DEF WarpClaim, Then, loopVars
<1>4. /\ dbs' \in [Node -> Db]
      /\ \A n \in Node : dbs'[n].rows = dbs[n].rows
      /\ OwnerAt(Control)' \in {OwnerAt(Control), own}
  BY <1>2, <1>3 DEF SyncTypeOK, OwnerAt, Node
<1>5. RowsArePublished' /\ RowsHaveOrigin' /\ FencedHasOwner'
  BY <1>3, <1>4 DEF RowsArePublished, RowsHaveOrigin, FencedHasOwner, Node
<1>6. LogsGrow
  BY <1>3, <1>4, <1>5 DEF LogsGrow, SyncTypeOK, Node
<1>7. WarpKeeps
  <2>1. {} \in SUBSET warp.rows /\ "send" \in {"replay", "send", "sending", "finish"}
    OBVIOUS
  <2> QED
    BY <1>3, <1>6, <2>1, WarpMoves
<1>8. LoopsKeep
  <2>1. settled' \in [Workspace -> BOOLEAN]
    BY DEF WarpClaim
  <2> QED
    BY <1>3, <1>6, <2>1, LoopsStay DEF SyncTypeOK
<1> QED
  BY <1>6, <1>7, <1>8, PartsKeep

\* A warp sets the home of the session, at the target or at the control plane.
LEMMA WarpPublishKeeps ==
  ASSUME SyncInv, WarpHome \/ WarpSteal \/ WarpFinish
  PROVE  SyncInv' /\ LogsGrow
<1> USE DEF SyncInv
<1>1. PICK n \in Node, h \in Node : PublishAt(n, h)
  BY DEF WarpHome, WarpSteal, WarpFinish, InTransit, Node, Local
<1>2. LogsGrow /\ unsent' \in [Workspace -> SUBSET Row]
      /\ \A w \in Workspace : unsent'[w] \subseteq unsent[w] \cup dbs'[w].rows
  BY <1>1, PublishGrows
<1>3. /\ UNCHANGED <<link, fence, rows, stream, settled, warps, drops>>
      /\ warp.pc # "idle"
      /\ \/ warp' = NoWarp
         \/ warp' = [warp EXCEPT !.pc = "finish", !.rows = {}] /\ warp.pc = "sending"
  BY DEF WarpHome, WarpSteal, WarpFinish, Then, loopVars
<1>4. WarpKeeps
  BY <1>2, <1>3, WarpMoves
<1>5. LoopsKeep
  BY <1>2, <1>3, LoopsStay DEF SyncTypeOK
<1> QED
  BY <1>2, <1>4, <1>5, PartsKeep

LEMMA SyncStep == SyncInv /\ [Next]_vars => SyncInv' /\ LogsGrow
<1> SUFFICES ASSUME SyncInv, [Next]_vars PROVE SyncInv' /\ LogsGrow
  OBVIOUS
<1>1. ASSUME NEW n \in Node, Create(n) \/ Work(n) PROVE SyncInv' /\ LogsGrow
  BY <1>1, PublishKeeps
<1>2. ASSUME NEW w \in Workspace, LoopStep(w) PROVE SyncInv' /\ LogsGrow
  BY <1>2, LoopKeeps, LoopReplayKeeps DEF LoopStep
<1>3. CASE WarpStep
  BY <1>3, QuietWarpKeeps, WarpReplayKeeps, WarpClaimKeeps, WarpPublishKeeps DEF WarpStep
<1>4. CASE UNCHANGED vars
  <2>1. UNCHANGED <<dbs, event, home, unsent, link, fence, rows, stream, settled, warp, warps, drops>>
    BY <1>4 DEF vars, nodeVars, loopVars
  <2>2. LogsGrow
    BY <2>1, QuietGrows
  <2>3. LoopsKeep
    BY <2>1, <2>2, LoopsStay DEF SyncInv, SyncTypeOK
  <2>4. WarpKeeps
    BY <2>1, <2>2, WarpStays DEF SyncInv, SyncTypeOK
  <2> QED
    BY <2>2, <2>3, <2>4, PartsKeep
<1> QED
  BY <1>1, <1>2, <1>3, <1>4 DEF Next

------------------------------------------------------------------------------
(* What the logs agree on *)

\* A log that is extended by its next number, under a new identifier, is whole.
LEMMA NextNumberKeepsWhole ==
  ASSUME NEW d \in Db, Contiguous(d), NEW e \in Db, NEW q \in Row,
         \A r \in d.rows : r.id # q.id, q.seq = d.latest[Session] + 1,
         e.latest[Session] = q.seq, e.rows = d.rows \cup {q}
  PROVE  Contiguous(e) /\ q \notin d.rows
<1> DEFINE m == d.latest[Session]
<1>1. m \in Nat \cup {-1} /\ q.seq = m + 1 /\ q.aggregate = Session
  BY DEF Db, Row
<1>2. \A r \in d.rows : r.aggregate = Session /\ r.seq \in 0..m
  BY DEF Contiguous, Db, Row
<1>3. \A r \in e.rows : r.aggregate = Session /\ r.seq \in 0..(m + 1)
  BY <1>1, <1>2
<1>4. \A n \in 0..(m + 1) : \E r \in e.rows : r.seq = n
  <2> SUFFICES ASSUME NEW n \in 0..(m + 1) PROVE \E r \in e.rows : r.seq = n
    OBVIOUS
  <2>1. CASE n = m + 1
    BY <1>1, <2>1
  <2>2. CASE n # m + 1
    <3>1. n \in 0..m
      BY <1>1, <2>2
    <3> QED
      BY <3>1 DEF Contiguous
  <2> QED
    BY <2>1, <2>2
<1>5. \A r \in d.rows : r.seq # q.seq
  BY <1>1, <1>2
<1>6. \A r, t \in e.rows : (r.seq = t.seq => r = t) /\ (r.id = t.id => r = t)
  BY <1>2, <1>5 DEF Contiguous
<1>7. Contiguous(e)
  BY <1>1, <1>3, <1>4, <1>6 DEF Contiguous
<1> QED
  BY <1>5, <1>7

\* What one replay does to a log that is whole.
ReplayEffect(d, r, own, strict, res) ==
  /\ res.db \in Db /\ Contiguous(res.db)
  /\ d.owner[Session] # NoOwner => res.db.owner[Session] = d.owner[Session]
  /\ \/ /\ res.outcome = "committed"
        /\ r \notin d.rows /\ r.seq = d.latest[Session] + 1
        /\ res.db.rows = d.rows \cup {r}
        /\ d.owner[Session] \in {NoOwner, own}
     \/ /\ res.outcome = "ignored" /\ res.db.rows = d.rows
        /\ r \in d.rows \/ (~strict /\ d.owner[Session] \notin {NoOwner, own})
     \/ res.outcome = "refused" /\ res.db.rows = d.rows

LEMMA ReplayIsWhole ==
  ASSUME NEW d \in Db, Contiguous(d), NEW r \in Row, NEW own \in Owner, NEW strict \in BOOLEAN,
         NEW res, res = ReplayResult(d, Session, r.id, r.seq, own, strict)
  PROVE  ReplayEffect(d, r, own, strict, res)
<1> USE DEF ReplayEffect
<1> DEFINE o == TakeOwner(d, Session, own)
           e1 == [d EXCEPT !.owner = o]
           e2 == [latest |-> [d.latest EXCEPT ![Session] = r.seq], owner |-> o,
                  rows |-> d.rows \cup {r}]
<1>1. /\ Session \in Aggregate /\ r.aggregate = Session /\ r.seq \in Nat /\ r.id \in EventId
      /\ r = [id |-> r.id, aggregate |-> Session, seq |-> r.seq]
  BY DEF Row
<1>2. /\ o \in [Aggregate -> Owner \cup {NoOwner}]
      /\ d.owner[Session] # NoOwner => o[Session] = d.owner[Session]
  BY <1>1 DEF TakeOwner, Db
<1>3. \/ res = Refused(d)
      \/ res = Ignored(d) /\ ~strict /\ OwnedByOther(d, Session, own)
      \/ res = Ignored(e1) /\ r \in d.rows
      \/ /\ res = Committed(e2) /\ ~OwnedByOther(d, Session, own) /\ ~IdTaken(d, r.id)
         /\ r.seq = d.latest[Session] + 1
  BY <1>1 DEF ReplayResult, ReplayStored, StoredAt, ReplayNew, Insert
<1>4. e1 \in Db /\ e1.owner = o /\ e1.rows = d.rows /\ e1.latest = d.latest
  BY <1>2 DEF Db
<1>5. /\ e2 \in Db /\ e2.owner = o /\ e2.rows = d.rows \cup {r}
      /\ e2.latest[Session] = r.seq
  BY <1>1, <1>2 DEF Db
<1> HIDE DEF o, e1, e2
<1>6. CASE res = Refused(d)
  BY <1>6 DEF Refused
<1>7. CASE res = Ignored(d) /\ ~strict /\ OwnedByOther(d, Session, own)
  BY <1>7 DEF Ignored, OwnedByOther
<1>8. CASE res = Ignored(e1) /\ r \in d.rows
  <2>1. Contiguous(e1)
    BY <1>4 DEF Contiguous
  <2> QED
    BY <1>2, <1>4, <1>8, <2>1 DEF Ignored
<1>9. CASE /\ res = Committed(e2) /\ ~OwnedByOther(d, Session, own) /\ ~IdTaken(d, r.id)
           /\ r.seq = d.latest[Session] + 1
  <2>1. Contiguous(e2) /\ r \notin d.rows
    BY <1>5, <1>9, NextNumberKeepsWhole DEF IdTaken
  <2> QED
    BY <1>2, <1>5, <1>9, <2>1 DEF Committed, OwnedByOther
<1> QED
  BY <1>3, <1>6, <1>7, <1>8, <1>9

------------------------------------------------------------------------------
(* What the steps do to the logs *)

\* Node n has published a new event, that sets the home h if it sets one.
Publishes(n, h) ==
  \E id \in EventId, q \in Row :
    /\ event[id].by = None /\ event'[id].by = n /\ event'[id].home = h
    /\ \A i \in EventId \ {id} : event'[i] = event[i]
    /\ q.id = id /\ q \notin dbs[n].rows /\ q.seq = Latest(n) + 1
    /\ dbs'[n].rows = dbs[n].rows \cup {q} /\ dbs'[n].owner = dbs[n].owner
    /\ Contiguous(dbs'[n])
    /\ \A m \in Node \ {n} : dbs'[m] = dbs[m]
    /\ \A m \in Node : home'[m] = IF m = n /\ h # None THEN h ELSE home[m]
    /\ n # Control => q \in unsent'[n]
    /\ \A w \in Workspace : unsent[w] \subseteq unsent'[w]

\* Node n has replayed a row, and committed, skipped or refused it.
Replays(n, r, own, strict) ==
  /\ UNCHANGED <<event, unsent>>
  /\ Contiguous(dbs'[n])
  /\ \A m \in Node \ {n} : dbs'[m] = dbs[m] /\ home'[m] = home[m]
  /\ OwnerAt(n) # NoOwner => OwnerAt(n)' = OwnerAt(n)
  /\ \/ /\ r \notin dbs[n].rows /\ r.seq = Latest(n) + 1
        /\ dbs'[n].rows = dbs[n].rows \cup {r}
        /\ OwnerAt(n) \in {NoOwner, own}
        /\ home'[n] = IF event[r.id].home = None THEN home[n] ELSE event[r.id].home
     \/ /\ dbs'[n].rows = dbs[n].rows /\ UNCHANGED home
        /\ \/ r \in dbs[n].rows
           \/ ~strict /\ OwnerAt(n) \notin {NoOwner, own}
           \/ Replayed(n, r, own, strict).outcome = "refused"

LEMMA PublishingPublishes ==
  ASSUME SyncInv, LogsWhole, NEW n \in Node, NEW h \in Node \cup {None}, PublishAt(n, h)
  PROVE  Publishes(n, h)
<1> USE DEF SyncInv
<1>1. PICK id \in EventId : /\ id = CHOOSE i \in EventId : event[i].by = None
                            /\ event[id].by = None
  BY DEF PublishAt
<1> DEFINE d == dbs[n]
           q == [id |-> id, aggregate |-> Session, seq |-> d.latest[Session] + 1]
           e == [latest |-> [d.latest EXCEPT ![Session] = d.latest[Session] + 1],
                 owner |-> d.owner, rows |-> d.rows \cup {q}]
           x == [by |-> n, home |-> h,
                 fenced |-> n # Control /\ OwnerAt(Control) \notin {n, NoOwner}]
<1>2. d \in Db /\ Contiguous(d) /\ Session \in Aggregate /\ d.latest[Session] \in Nat \cup {-1}
  <2>1. d \in Db
    BY DEF SyncTypeOK
  <2>2. Contiguous(d)
    BY DEF LogsWhole
  <2> HIDE DEF d
  <2> QED
    BY <2>1, <2>2 DEF Db
<1>3. \A r \in d.rows : r.id # id
  BY <1>1 DEF RowsArePublished
<1>4. q \in Row /\ q.id = id /\ q.seq = Latest(n) + 1
  BY <1>2 DEF Row, Latest
<1>5. /\ e \in Db /\ e.owner = d.owner /\ e.rows = d.rows \cup {q}
      /\ e.latest[Session] = q.seq
  BY <1>2, <1>4 DEF Db
<1>6. PublishResult(d, Session, id) = Committed(e)
  BY <1>3 DEF PublishResult, Insert, IdTaken, TakeOwner
<1>7. PublishResult(d, Session, id).db = e
  BY <1>6 DEF Committed
<1>8. x.by = n /\ x.home = h
  OBVIOUS
<1>9. /\ event' = [event EXCEPT ![id] = x]
      /\ dbs' = [dbs EXCEPT ![n] = e]
      /\ home' = SetHome(n, x)
      /\ unsent' = IF n = Control THEN unsent
                   ELSE [unsent EXCEPT ![n] = unsent[n] \cup (e.rows \ d.rows)]
  BY <1>1, <1>7 DEF PublishAt, SyncTypeOK
<1> HIDE DEF q, e, x
<1>10. Contiguous(e) /\ q \notin d.rows
  BY <1>2, <1>3, <1>4, <1>5, NextNumberKeepsWhole DEF Latest
<1>11. \A m \in Node : dbs'[m] = IF m = n THEN e ELSE dbs[m]
  BY <1>9 DEF SyncTypeOK
<1>12. \A i \in EventId : event'[i] = IF i = id THEN x ELSE event[i]
  BY <1>9 DEF SyncTypeOK
<1>13. \A m \in Node : home'[m] = IF m = n /\ h # None THEN h ELSE home[m]
  BY <1>8, <1>9 DEF SetHome, SyncTypeOK
<1>14. /\ n # Control => q \in unsent'[n]
       /\ \A w \in Workspace : unsent[w] \subseteq unsent'[w]
  <2>1. CASE n = Control
    BY <1>9, <2>1
  <2>2. CASE n # Control
    <3>1. n \in Workspace
      BY <2>2 DEF Node
    <3>2. unsent' = [unsent EXCEPT ![n] = unsent[n] \cup (e.rows \ d.rows)]
      BY <1>9, <2>2
    <3> QED
      BY <1>5, <1>10, <3>1, <3>2 DEF SyncTypeOK
  <2> QED
    BY <2>1, <2>2
<1>15. /\ event[id].by = None /\ event'[id].by = n /\ event'[id].home = h
       /\ \A i \in EventId \ {id} : event'[i] = event[i]
  BY <1>1, <1>8, <1>12
<1>16. /\ q.id = id /\ q \notin dbs[n].rows /\ q.seq = Latest(n) + 1
       /\ dbs'[n].rows = dbs[n].rows \cup {q} /\ dbs'[n].owner = dbs[n].owner
       /\ Contiguous(dbs'[n])
       /\ \A m \in Node \ {n} : dbs'[m] = dbs[m]
  BY <1>4, <1>5, <1>10, <1>11
<1> QED
  BY <1>4, <1>13, <1>14, <1>15, <1>16 DEF Publishes

LEMMA ReplayingReplays ==
  ASSUME SyncInv, LogsWhole, NEW n \in Node, NEW own \in Workspace, NEW strict \in BOOLEAN,
         NEW r \in Row, ReplayAt(n, r, own, strict)
  PROVE  Replays(n, r, own, strict)
<1> USE DEF SyncInv
<1> DEFINE res == Replayed(n, r, own, strict)
<1>1. res = ReplayResult(dbs[n], Session, r.id, r.seq, own, strict)
  BY DEF Replayed
<1>2. dbs[n] \in Db /\ Contiguous(dbs[n]) /\ own \in Owner
  BY DEF SyncTypeOK, LogsWhole
<1>3. /\ dbs' = [dbs EXCEPT ![n] = res.db] /\ UNCHANGED <<event, unsent>>
      /\ home' = IF res.outcome = "committed" THEN SetHome(n, event[r.id]) ELSE home
  BY DEF ReplayAt
<1>4. Replayed(n, r, own, strict) = res
  OBVIOUS
<1> HIDE DEF res
<1>5. ReplayEffect(dbs[n], r, own, strict, res)
  BY <1>1, <1>2, ReplayIsWhole
<1>6. dbs'[n] = res.db /\ \A m \in Node \ {n} : dbs'[m] = dbs[m]
  BY <1>3 DEF SyncTypeOK
<1>7. \A m \in Node \ {n} : home'[m] = home[m]
  BY <1>3 DEF SetHome, SyncTypeOK
<1>8. CASE res.outcome = "committed"
  <2>1. home'[n] = IF event[r.id].home = None THEN home[n] ELSE event[r.id].home
    BY <1>3, <1>8 DEF SetHome, SyncTypeOK
  <2> QED
    BY <1>3, <1>5, <1>6, <1>7, <1>8, <2>1 DEF Replays, ReplayEffect, OwnerAt, Latest
<1>9. CASE res.outcome # "committed"
  BY <1>3, <1>4, <1>5, <1>6, <1>7, <1>9 DEF Replays, ReplayEffect, OwnerAt, Latest
<1> QED
  BY <1>8, <1>9

------------------------------------------------------------------------------
(* What a control plane that only follows knows *)

\* The logs stay whole and the homes set, and what a workspace gets that the control
\* plane does not have is still to be announced.
LogsAdvance ==
  /\ LogsWhole' /\ HomesAreSet'
  /\ Follows' => Follows
  /\ dbs[Control].rows \subseteq dbs'[Control].rows
  /\ OwnerAt(Control) # NoOwner => OwnerAt(Control)' = OwnerAt(Control)
  /\ \A w \in Workspace :
       dbs'[w].rows \subseteq dbs[w].rows \cup dbs'[Control].rows \cup unsent'[w]

LEMMA PublishAdvances ==
  ASSUME SyncInv, LogsWhole, HomesAreSet, NEW n \in Node, NEW h \in Node \cup {None},
         Publishes(n, h), n = Control \/ h \in {None, n}
  PROVE  LogsAdvance /\ (n = Control => ~Follows')
<1>1. PICK id \in EventId, q \in Row :
         /\ event[id].by = None /\ event'[id].by = n /\ event'[id].home = h
         /\ \A i \in EventId \ {id} : event'[i] = event[i]
         /\ q.id = id /\ q \notin dbs[n].rows /\ q.seq = Latest(n) + 1
         /\ dbs'[n].rows = dbs[n].rows \cup {q} /\ dbs'[n].owner = dbs[n].owner
         /\ Contiguous(dbs'[n])
         /\ \A m \in Node \ {n} : dbs'[m] = dbs[m]
         /\ \A m \in Node : home'[m] = IF m = n /\ h # None THEN h ELSE home[m]
         /\ n # Control => q \in unsent'[n]
         /\ \A w \in Workspace : unsent[w] \subseteq unsent'[w]
  BY DEF Publishes
<1>2. Control \in Node /\ Workspace \subseteq Node /\ None \notin Node /\ Control \notin Workspace
      /\ Node = {Control} \cup Workspace
  BY DEF Node
<1>3. \A m \in Node : \A r \in dbs[m].rows : r.id \in EventId /\ r.id # id /\ event'[r.id] = event[r.id]
  <2>1. \A m \in Node : \A r \in dbs[m].rows : r.id \in EventId
    BY DEF SyncInv, SyncTypeOK, Db, Row
  <2> QED
    BY <1>1, <2>1 DEF SyncInv, RowsArePublished
<1>4. \A m \in Node : dbs[m].rows \subseteq dbs'[m].rows
  BY <1>1
<1>5. LogsWhole'
  BY <1>1 DEF LogsWhole
<1>6. HomesAreSet'
  <2>1. ASSUME NEW m \in Node, home'[m] # None
        PROVE  \E r \in dbs'[m].rows : event'[r.id].home = home'[m]
    <3>1. CASE m = n /\ h # None
      BY <1>1, <3>1
    <3>2. CASE ~(m = n /\ h # None)
      <4>1. home'[m] = home[m]
        BY <1>1, <3>2
      <4>2. PICK r \in dbs[m].rows : event[r.id].home = home[m]
        BY <2>1, <4>1 DEF HomesAreSet
      <4> QED
        BY <1>3, <1>4, <4>1, <4>2
    <3> QED
      BY <3>1, <3>2
  <2>2. ASSUME NEW i \in EventId, event'[i].by # Control
        PROVE  event'[i].home \in {None, event'[i].by}
    BY <1>1, <2>2 DEF HomesAreSet
  <2> QED
    BY <2>1, <2>2 DEF HomesAreSet
<1>7. Follows' => Follows
  BY <1>2, <1>3, <1>4 DEF Follows
<1>8. n = Control => ~Follows'
  BY <1>1 DEF Follows
<1>9. OwnerAt(Control)' = OwnerAt(Control)
  BY <1>1, <1>2 DEF OwnerAt
<1>10. \A w \in Workspace : dbs'[w].rows \subseteq dbs[w].rows \cup unsent'[w]
  BY <1>1, <1>2
<1> QED
  BY <1>2, <1>4, <1>5, <1>6, <1>7, <1>8, <1>9, <1>10 DEF LogsAdvance

LEMMA ReplayAdvances ==
  ASSUME SyncInv, LogsWhole, HomesAreSet, NEW n \in Node, NEW own \in Workspace, NEW strict,
         NEW r \in Row, Replays(n, r, own, strict), n # Control => r \in dbs[Control].rows
  PROVE  LogsAdvance
<1>1. Control \in Node /\ Workspace \subseteq Node
  BY DEF Node
<1>2. /\ \A m \in Node : dbs[m].rows \subseteq dbs'[m].rows
      /\ \A m \in Node : dbs'[m].rows \subseteq dbs[m].rows \cup dbs'[Control].rows \cup unsent'[m]
  BY <1>1 DEF Replays
<1>3. LogsWhole'
  BY DEF LogsWhole, Replays
<1>4. HomesAreSet'
  <2>1. ASSUME NEW m \in Node, home'[m] # None
        PROVE  \E q \in dbs'[m].rows : event'[q.id].home = home'[m]
    <3>1. CASE home'[m] = home[m]
      BY <1>2, <2>1, <3>1 DEF HomesAreSet, Replays
    <3>2. CASE home'[m] # home[m]
      <4>1. m = n /\ r \in dbs'[m].rows /\ home'[m] = event[r.id].home
        BY <3>2 DEF Replays
      <4> QED
        BY <4>1 DEF Replays
    <3> QED
      BY <3>1, <3>2
  <2> QED
    BY <2>1 DEF HomesAreSet, Replays
<1>5. Follows' => Follows
  BY <1>1, <1>2 DEF Follows, Replays
<1>6. OwnerAt(Control) # NoOwner => OwnerAt(Control)' = OwnerAt(Control)
  BY <1>1 DEF OwnerAt, Replays
<1> QED
  BY <1>1, <1>2, <1>3, <1>4, <1>5, <1>6 DEF LogsAdvance

LEMMA QuietAdvances ==
  ASSUME LogsWhole, HomesAreSet, UNCHANGED <<dbs, event, home>>
  PROVE  LogsAdvance /\ (Follows => Follows') /\ (OneHome => OneHome')
  BY DEF LogsAdvance, LogsWhole, HomesAreSet, Follows, OwnerAt, OneHome

\* The history of a loop that does not move goes on covering what is missing.
LEMMA CoverStays ==
  ASSUME NEW w \in Workspace, Covered(w), LogsAdvance,
         link'[w] = link[w], fence'[w] = fence[w], rows'[w] = rows[w],
         settled'[w] => settled[w],
         unsent[w] \cup ToSet(stream[w]) \subseteq unsent'[w] \cup ToSet(stream'[w])
  PROVE  Covered(w)'
<1> SUFFICES ASSUME settled'[w], Follows', OwnerAt(Control)' \in {NoOwner, w}
             PROVE  /\ link'[w] = "asked" => \A r \in Missing(w)' : r.seq > fence'[w]
                    /\ link'[w] = "history" => Missing(w)' \subseteq rows'[w]
  BY DEF Covered
<1>1. Missing(w)' \subseteq Missing(w)
  BY DEF Missing, LogsAdvance
<1>2. settled[w] /\ Follows /\ OwnerAt(Control) \in {NoOwner, w}
  BY DEF LogsAdvance
<1> QED
  BY <1>1, <1>2 DEF Covered

\* What is claimed stays claimed while the warp does not move.
LEMMA ClaimStays ==
  ASSUME SyncInv, WarpClaimed, LogsAdvance, UNCHANGED warp
  PROVE  WarpClaimed'
<1>1. ASSUME warp.pc # "idle" PROVE dbs'[Control].rows # {}
  BY <1>1 DEF WarpClaimed, LogsAdvance
<1>2. ASSUME Follows', warp.pc \in {"send", "sending", "finish"}, warp.to # Local
      PROVE  OwnerAt(Control)' = warp.to
  <2>1. OwnerAt(Control) = warp.to
    BY <1>2 DEF WarpClaimed, LogsAdvance
  <2>2. warp.to \in Workspace
    BY <1>2 DEF SyncInv, SyncTypeOK, Warp, Node, Local
  <2> QED
    BY <2>1, <2>2 DEF LogsAdvance
<1> QED
  BY <1>1, <1>2 DEF WarpClaimed

\* Where there is one author, the control plane has what the author has; after a steal
\* it has what the thief has, once it knows that the session lives there.
LEMMA FollowsHome ==
  ASSUME SyncInv, FollowInv, Follows, NEW w \in Workspace, home[Control] = w
  PROVE  dbs[Control].rows \subseteq dbs[w].rows
<1> SUFFICES ASSUME NEW r \in dbs[Control].rows PROVE r \in dbs[w].rows
  OBVIOUS
<1>1. Control \in Node /\ Workspace \subseteq Node /\ None \notin Node /\ r.id \in EventId
  BY DEF SyncInv, SyncTypeOK, Db, Row, Node
<1>2. event[r.id].by # None
  BY <1>1 DEF SyncInv, RowsArePublished
<1>3. CASE OneHome
  <2>1. PICK a \in Node : /\ \A id \in EventId : event[id].by \in {None, a}
                          /\ home[Control] \in {None, a}
    BY <1>1, <1>3 DEF OneHome
  <2>2. event[r.id].by = w
    BY <1>1, <1>2, <2>1
  <2> QED
    BY <2>2 DEF SyncInv, RowsHaveOrigin
<1>4. ASSUME warp.pc = "finish", NEW a \in Node, TwoHomes(a, warp.to)
      PROVE  r \in dbs[w].rows
  <2>1. CASE w = warp.to
    BY <1>4, <2>1 DEF FollowInv, TransferWhole
  <2>2. CASE w # warp.to
    <3>1. event[r.id].by # warp.to /\ home[Control] \in {None, a, warp.to}
          /\ event[r.id].by \in {None, a, warp.to}
      BY <1>1, <1>4, <2>2 DEF TwoHomes
    <3>2. event[r.id].by = w
      BY <1>1, <1>2, <2>2, <3>1
    <3> QED
      BY <3>2 DEF SyncInv, RowsHaveOrigin
  <2> QED
    BY <2>1, <2>2
<1> QED
  BY <1>3, <1>4 DEF FollowInv, KnownAuthors

\* A replay leaves the one author alone: it sets no home that no event has set.
LEMMA OneHomeStays ==
  ASSUME SyncInv, OneHome, NEW n \in Node, NEW own, NEW strict, NEW r \in Row,
         Replays(n, r, own, strict)
  PROVE  OneHome'
<1>1. PICK a \in Node : /\ \A id \in EventId : {event[id].by, event[id].home} \subseteq {None, a}
                        /\ \A m \in Node : home[m] \in {None, a}
  BY DEF OneHome
<1>2. r.id \in EventId
  BY DEF Row
<1>3. \A m \in Node : home'[m] \in {home[m], event[r.id].home}
  BY DEF Replays
<1>4. \A m \in Node : home'[m] \in {None, a}
  BY <1>1, <1>2, <1>3
<1> QED
  BY <1>1, <1>4 DEF OneHome, Replays

\* Two rows of one log with the same number are one, and all are below the latest.
LEMMA NumbersAreUnique ==
  ASSUME SyncInv, LogsWhole, NEW n \in Node
  PROVE  /\ Latest(n) \in Nat \cup {-1}
         /\ \A r \in dbs[n].rows : r.seq \in 0..Latest(n)
         /\ \A r, q \in dbs[n].rows : r.seq = q.seq => r = q
         /\ \A i \in 0..Latest(n) : \E r \in dbs[n].rows : r.seq = i
<1>1. dbs[n] \in Db /\ Contiguous(dbs[n])
  BY DEF SyncInv, SyncTypeOK, LogsWhole
<1>2. \A r \in dbs[n].rows : r.aggregate = Session
  BY <1>1 DEF Db, Row
<1> QED
  BY <1>1, <1>2 DEF Contiguous, Db, Latest

\* Once the session is stolen, the control plane learns of the steal before it gets
\* anything else from the thief.
LEMMA TwoHomesStay ==
  ASSUME SyncInv, FollowInv, Follows', NEW own \in Workspace, NEW r \in dbs[own].rows,
         Replays(Control, r, own, FALSE), UNCHANGED warp, warp.pc = "finish",
         NEW a \in Node, TwoHomes(a, warp.to), Follows
  PROVE  TwoHomes(a, warp.to)'
<1> DEFINE v == warp.to
<1>1. Control \in Node /\ Workspace \subseteq Node /\ Control \notin Workspace /\ None \notin Node
      /\ NoOwner \notin Workspace
  BY DEF Node
<1>2. v \in Workspace /\ OwnerAt(Control) = v /\ dbs[Control].rows \subseteq dbs[v].rows
  BY <1>1 DEF SyncInv, InTransit, FollowInv, WarpClaimed, TransferWhole, Local
<1>3. r \in Row /\ r.id \in EventId
  BY <1>1 DEF SyncInv, SyncTypeOK, Db, Row
<1>4. UNCHANGED event /\ dbs'[v] = dbs[v] /\ \A m \in Node \ {Control} : home'[m] = home[m]
  BY <1>1, <1>2 DEF Replays
<1>5. PICK s \in dbs[v].rows : /\ event[s.id].home = v
                               /\ \A q \in dbs[v].rows : event[q.id].by = v => s.seq <= q.seq
  BY DEF TwoHomes
<1>6. CASE dbs'[Control].rows = dbs[Control].rows /\ UNCHANGED home
  BY <1>4, <1>6 DEF TwoHomes
<1>7. CASE /\ r \notin dbs[Control].rows /\ r.seq = Latest(Control) + 1
           /\ dbs'[Control].rows = dbs[Control].rows \cup {r}
           /\ OwnerAt(Control) \in {NoOwner, own}
           /\ home'[Control] = IF event[r.id].home = None THEN home[Control] ELSE event[r.id].home
  <2>1. own = v
    BY <1>1, <1>2, <1>7
  <2>2. event[r.id].by = v
    BY <1>7, <2>1 DEF SyncInv, RowsHaveOrigin
  <2>3. event[r.id].home \in {None, v}
    BY <1>1, <1>2, <1>3, <2>2 DEF FollowInv, HomesAreSet
  <2>4. home[Control] = v \/ event[r.id].home = v
    <3> SUFFICES ASSUME home[Control] # v PROVE event[r.id].home = v
      OBVIOUS
    <3>1. \A q \in dbs[Control].rows : event[q.id].by # v
      BY DEF TwoHomes
    <3>2. s \notin dbs[Control].rows
      <4>1. s.id \in EventId /\ event[s.id].by # Control
        BY <1>1, <1>2, <1>5 DEF SyncInv, SyncTypeOK, Db, Row, RowsHaveOrigin, Follows
      <4>2. event[s.id].by = v
        BY <1>1, <1>2, <1>5, <4>1 DEF FollowInv, HomesAreSet
      <4> QED
        BY <3>1, <4>2
    <3>3. Latest(Control) < s.seq
      <4> SUFFICES ASSUME ~(Latest(Control) < s.seq) PROVE FALSE
        OBVIOUS
      <4>1. /\ Latest(Control) \in Nat \cup {-1} /\ s.seq \in 0..Latest(v)
            /\ Latest(v) \in Nat \cup {-1}
        BY <1>1, <1>2, <1>5, NumbersAreUnique DEF FollowInv
      <4>2. s.seq \in 0..Latest(Control)
        BY <4>1
      <4>3. PICK q \in dbs[Control].rows : q.seq = s.seq
        BY <1>1, <4>2, NumbersAreUnique DEF FollowInv
      <4>4. q = s
        BY <1>1, <1>2, <1>5, <4>3, NumbersAreUnique DEF FollowInv
      <4> QED
        BY <3>2, <4>3, <4>4
    <3>4. s.seq <= r.seq
      BY <1>5, <2>1, <2>2
    <3>5. /\ Latest(Control) \in Int /\ s.seq \in Int
      <4>1. Latest(Control) \in Nat \cup {-1}
        BY <1>1, NumbersAreUnique DEF FollowInv
      <4>2. s.seq \in 0..Latest(v)
        BY <1>1, <1>2, <1>5, NumbersAreUnique DEF FollowInv
      <4> QED
        BY <4>1, <4>2
    <3>6. s.seq = r.seq
      BY <1>7, <3>3, <3>4, <3>5
    <3>7. s = r
      BY <1>1, <1>2, <1>5, <2>1, <3>6, NumbersAreUnique DEF FollowInv
    <3> QED
      BY <1>5, <3>7
  <2>5. home'[Control] = v
    BY <1>1, <1>2, <1>7, <2>3, <2>4
  <2> QED
    BY <1>1, <1>2, <1>4, <1>5, <2>5 DEF TwoHomes
<1> QED
  BY <1>6, <1>7 DEF Replays

\* A replay at the control plane, by a loop, while the warp does not move.
LEMMA LoopReplayFollows ==
  ASSUME SyncInv, FollowInv, NEW own \in Workspace, NEW r \in dbs[own].rows,
         Replays(Control, r, own, FALSE), UNCHANGED warp, LogsAdvance
  PROVE  WarpClaimed' /\ TransferWhole' /\ KnownAuthors'
<1>1. Control \in Node /\ Workspace \subseteq Node /\ NoOwner \notin Workspace
      /\ Control \notin Workspace
  BY DEF Node
<1>2. r \in Row
  BY <1>1 DEF SyncInv, SyncTypeOK, Db
<1>3. WarpClaimed'
  BY ClaimStays DEF FollowInv
<1>4. TransferWhole'
  <2> SUFFICES ASSUME Follows', warp.pc \in {"sending", "finish"}
               PROVE  dbs'[Control].rows \subseteq dbs'[warp.to].rows \cup warp.rows
    BY DEF FollowInv, TransferWhole
  <2>1. warp.to \in Workspace /\ OwnerAt(Control) = warp.to /\ Follows
    BY <1>1 DEF SyncInv, InTransit, FollowInv, WarpClaimed, Local, LogsAdvance
  <2>2. dbs'[warp.to] = dbs[warp.to]
    BY <1>1, <2>1 DEF Replays
  <2>3. \/ dbs'[Control].rows = dbs[Control].rows
        \/ own = warp.to /\ dbs'[Control].rows = dbs[Control].rows \cup {r}
    BY <1>1, <2>1 DEF Replays
  <2> QED
    BY <2>1, <2>2, <2>3 DEF FollowInv, TransferWhole
<1>5. KnownAuthors'
  <2> SUFFICES ASSUME Follows'
               PROVE  \/ OneHome'
                      \/ warp.pc = "finish" /\ \E a \in Node : TwoHomes(a, warp.to)'
    BY DEF KnownAuthors
  <2>1. Follows
    BY DEF LogsAdvance
  <2>2. CASE OneHome
    BY <1>1, <1>2, <2>2, OneHomeStays
  <2>3. ASSUME warp.pc = "finish", NEW a \in Node, TwoHomes(a, warp.to)
        PROVE  warp.pc = "finish" /\ TwoHomes(a, warp.to)'
    BY <2>1, <2>3, TwoHomesStay
  <2> QED
    BY <2>1, <2>2, <2>3 DEF FollowInv, KnownAuthors
<1> QED
  BY <1>3, <1>4, <1>5

\* Work on the session, by the one who has it.
LEMMA WorkFollows ==
  ASSUME SyncInv, FollowInv, NEW n \in Node, Create(n) \/ Work(n)
  PROVE  FollowInv'
<1> USE DEF FollowInv
<1>1. PICK h \in {None, n} : PublishAt(n, h) /\ (h = n => Create(n)) /\ (h = None => Work(n))
  BY DEF Create, Work, Node
<1>2. /\ UNCHANGED <<link, fence, rows, stream, settled, warp>>
      /\ h \in Node \cup {None}
  BY <1>1 DEF Create, Work, loopVars
<1>3. Publishes(n, h)
  BY <1>1, <1>2, PublishingPublishes
<1>4. LogsAdvance /\ (n = Control => ~Follows')
  BY <1>1, <1>2, <1>3, PublishAdvances
<1>5. Control \in Node /\ Workspace \subseteq Node /\ Control \notin Workspace /\ None \notin Node
  BY DEF Node
<1>6. PICK id \in EventId, q \in Row :
         /\ event[id].by = None /\ event'[id].by = n /\ event'[id].home = h
         /\ \A i \in EventId \ {id} : event'[i] = event[i]
         /\ q.id = id /\ q \notin dbs[n].rows /\ q.seq = Latest(n) + 1
         /\ dbs'[n].rows = dbs[n].rows \cup {q}
         /\ \A m \in Node \ {n} : dbs'[m] = dbs[m]
         /\ \A m \in Node : home'[m] = IF m = n /\ h # None THEN h ELSE home[m]
         /\ \A w \in Workspace : unsent[w] \subseteq unsent'[w]
  BY <1>3 DEF Publishes
<1>7. WarpClaimed'
  BY <1>2, <1>4, ClaimStays
<1>8. TransferWhole'
  BY <1>2, <1>4, <1>5, <1>6 DEF TransferWhole, SyncInv, InTransit, LogsAdvance
<1>9. HistoryCovers'
  BY <1>2, <1>4, <1>6, CoverStays DEF HistoryCovers
<1>10. KnownAuthors'
  <2> SUFFICES ASSUME Follows'
               PROVE  \/ OneHome'
                      \/ warp.pc = "finish" /\ \E a \in Node : TwoHomes(a, warp.to)'
    BY <1>2 DEF KnownAuthors
  <2>1. Follows /\ n # Control
    BY <1>4 DEF LogsAdvance
  <2>2. ASSUME NEW a \in Node,
               \A i \in EventId : {event[i].by, event[i].home} \subseteq {None, a},
               \A m \in Node : home[m] \in {None, a}
        PROVE  OneHome'
    <3>1. CASE h = n
      <4>1. /\ \A i \in EventId : event[i] = Unused
            /\ \A m \in Node : home[m] = None
        BY <1>1, <3>1 DEF Create
      <4>2. \A i \in EventId : {event'[i].by, event'[i].home} \subseteq {None, n}
        BY <1>6, <3>1, <4>1 DEF Unused
      <4>3. \A m \in Node : home'[m] \in {None, n}
        BY <1>6, <3>1, <4>1
      <4> QED
        BY <4>2, <4>3 DEF OneHome
    <3>2. CASE h = None
      <4>1. a = n
        BY <1>1, <1>5, <2>2, <3>2 DEF Work
      <4> QED
        BY <1>6, <2>2, <3>2, <4>1 DEF OneHome
    <3> QED
      BY <3>1, <3>2
  <2>3. ASSUME warp.pc = "finish", NEW a \in Node, TwoHomes(a, warp.to)
        PROVE  TwoHomes(a, warp.to)'
    <3>1. PICK v \in Workspace : v = warp.to
      BY <2>3 DEF SyncInv, InTransit
    <3>2. PICK s \in dbs[v].rows :
             /\ event[s.id].home = v
             /\ \A r \in dbs[v].rows : event[r.id].by = v => s.seq <= r.seq
      BY <2>3, <3>1 DEF TwoHomes
    <3>3. \A m \in Node : \A r \in dbs[m].rows : r.id \in EventId /\ event[r.id].by # None
      BY DEF SyncInv, SyncTypeOK, Db, Row, RowsArePublished
    <3>4. \A m \in Node : \A r \in dbs[m].rows : event'[r.id] = event[r.id]
      BY <1>6, <3>3
    <3>5. h = None /\ home[n] = n
      <4>1. event[s.id] # Unused
        BY <1>5, <3>1, <3>2 DEF Unused
      <4> QED
        BY <1>1, <1>5, <3>2, <3>1, <3>3, <4>1 DEF Create, Work
    <3>6. n \in {a, v}
      BY <1>5, <2>3, <3>1, <3>5 DEF TwoHomes
    <3>7. \A i \in EventId : event'[i].by \in {None, a, v}
      BY <1>6, <2>3, <3>1, <3>6 DEF TwoHomes
    <3>8. \A m \in Node : home'[m] \in {None, a, v}
      BY <1>6, <2>3, <3>1, <3>5 DEF TwoHomes
    <3>9. s.seq <= q.seq \/ n # v
      <4>1. Latest(v) \in Nat \cup {-1} /\ s.seq \in 0..Latest(v)
        BY <1>5, <3>1, <3>2, NumbersAreUnique
      <4>2. Latest(v) \in Int /\ s.seq \in Int /\ s.seq <= Latest(v)
        BY <4>1
      <4>3. n = v => q.seq = Latest(v) + 1
        BY <1>6
      <4> QED
        BY <4>2, <4>3
    <3>10. /\ s \in dbs'[v].rows /\ event'[s.id].home = v
           /\ \A r \in dbs'[v].rows : event'[r.id].by = v => s.seq <= r.seq
      <4>1. s \in dbs'[v].rows /\ event'[s.id].home = v
        BY <1>5, <1>6, <3>1, <3>2, <3>4
      <4>2. ASSUME NEW r \in dbs'[v].rows, event'[r.id].by = v
            PROVE  s.seq <= r.seq
        <5>1. CASE r \in dbs[v].rows
          BY <1>5, <3>1, <3>2, <3>4, <4>2, <5>1
        <5>2. CASE r \notin dbs[v].rows
          <6>1. n = v /\ r = q
            BY <1>5, <1>6, <4>2, <5>2
          <6> QED
            BY <3>9, <6>1
        <5> QED
          BY <5>1, <5>2
      <4> QED
        BY <4>1, <4>2
    <3>11. home'[Control] = v \/ \A r \in dbs'[Control].rows : event'[r.id].by # v
      <4>1. home'[Control] = home[Control] /\ dbs'[Control] = dbs[Control]
        BY <1>5, <1>6, <2>1, <3>5
      <4> QED
        BY <1>5, <2>3, <3>1, <3>4, <4>1 DEF TwoHomes
    <3> QED
      BY <1>2, <3>1, <3>7, <3>8, <3>10, <3>11 DEF TwoHomes
  <2> QED
    BY <2>1, <2>2, <2>3 DEF KnownAuthors, OneHome
<1> QED
  BY <1>4, <1>7, <1>8, <1>9, <1>10 DEF LogsAdvance

\* A step that changes no log and leaves the warp alone.
LEMMA QuietFollows ==
  ASSUME SyncInv, FollowInv, UNCHANGED <<dbs, event, home, warp>>
  PROVE  LogsAdvance /\ WarpClaimed' /\ TransferWhole' /\ KnownAuthors'
<1> USE DEF FollowInv
<1>1. LogsAdvance
  BY QuietAdvances
<1>2. WarpClaimed'
  BY <1>1, ClaimStays
<1>3. TransferWhole'
  BY DEF TransferWhole, Follows
<1>4. KnownAuthors'
  BY DEF KnownAuthors, Follows, OneHome, TwoHomes
<1> QED
  BY <1>1, <1>2, <1>3, <1>4

LEMMA AppendedSet ==
  ASSUME NEW s \in Seq(Row), NEW r \in Row
  PROVE  ToSet(Append(s, r)) = ToSet(s) \cup {r}
<1> DEFINE t == Append(s, r)
<1>1. /\ Len(s) \in Nat /\ DOMAIN s = 1..Len(s) /\ DOMAIN t = 1..(Len(s) + 1)
      /\ \A i \in 1..(Len(s) + 1) : t[i] = IF i = Len(s) + 1 THEN r ELSE s[i]
  OBVIOUS
<1> HIDE DEF t
<1>2. ToSet(t) \subseteq ToSet(s) \cup {r}
  BY <1>1 DEF ToSet
<1>3. ToSet(s) \subseteq ToSet(t)
  <2> SUFFICES ASSUME NEW i \in 1..Len(s) PROVE s[i] \in ToSet(t)
    BY <1>1 DEF ToSet
  <2>1. i \in 1..(Len(s) + 1) /\ t[i] = s[i]
    BY <1>1
  <2> QED
    BY <1>1, <2>1 DEF ToSet
<1>4. r \in ToSet(t)
  <2>1. Len(s) + 1 \in DOMAIN t /\ t[Len(s) + 1] = r
    BY <1>1
  <2> QED
    BY <2>1 DEF ToSet
<1> QED
  BY <1>2, <1>3, <1>4 DEF t

\* A step of a loop that changes no log: what it is sent covers what is missing.
LEMMA LoopFollows ==
  ASSUME SyncInv, FollowInv, NEW w \in Workspace,
         \/ Emit(w) \/ Connect(w) \/ AskHistory(w) \/ ServeHistory(w)
         \/ Connected(w) \/ Drop(w) \/ StartSync(w)
  PROVE  FollowInv'
<1>1. UNCHANGED <<dbs, event, home, warp>>
  BY DEF Emit, Connect, AskHistory, ServeHistory, Connected, Drop, StartSync, nodeVars
<1>2. LogsAdvance /\ WarpClaimed' /\ TransferWhole' /\ KnownAuthors'
  BY <1>1, QuietFollows
<1>3. /\ unsent \in [Workspace -> SUBSET Row] /\ rows \in [Workspace -> SUBSET Row]
      /\ link \in [Workspace -> Link] /\ fence \in [Workspace -> Nat \cup {-1}]
      /\ stream \in [Workspace -> Seq(Row)] /\ settled \in [Workspace -> BOOLEAN]
  BY DEF SyncInv, SyncTypeOK
<1>4. \A v \in Workspace \ {w} :
        /\ link'[v] = link[v] /\ fence'[v] = fence[v] /\ rows'[v] = rows[v]
        /\ settled'[v] = settled[v] /\ unsent'[v] = unsent[v] /\ stream'[v] = stream[v]
  BY <1>3 DEF Emit, Connect, AskHistory, ServeHistory, Connected, Drop, StartSync, nodeVars
<1>5. \A v \in Workspace \ {w} : Covered(v)'
  BY <1>2, <1>4, CoverStays DEF FollowInv, HistoryCovers
<1>6. Covered(w)
  BY DEF FollowInv, HistoryCovers
<1>7. Control \in Node /\ Workspace \subseteq Node
  BY DEF Node
<1>8. \A r \in dbs[w].rows : r.seq \in Nat /\ r.aggregate = Session
  BY <1>7 DEF SyncInv, SyncTypeOK, Db, Row
<1>9. Covered(w)'
  <2>1. CASE Emit(w)
    <3>1. PICK r \in unsent[w] :
             /\ unsent' = [unsent EXCEPT ![w] = unsent[w] \ {r}]
             /\ stream' = IF IsOpen(w) THEN [stream EXCEPT ![w] = Append(stream[w], r)] ELSE stream
      BY <2>1 DEF Emit
    <3>2. UNCHANGED <<link, fence, rows, settled>>
      BY <2>1 DEF Emit
    <3>3. CASE IsOpen(w)
      <4>1. r \in Row /\ stream[w] \in Seq(Row) /\ stream'[w] = Append(stream[w], r)
        BY <1>3, <3>1, <3>3
      <4>2. ToSet(stream'[w]) = ToSet(stream[w]) \cup {r}
        BY <4>1, AppendedSet
      <4>3. unsent'[w] = unsent[w] \ {r}
        BY <1>3, <3>1
      <4> QED
        BY <1>2, <1>6, <3>2, <4>2, <4>3, CoverStays
    <3>4. CASE ~IsOpen(w)
      BY <3>2, <3>4 DEF IsOpen, Link, Covered
    <3> QED
      BY <3>3, <3>4
  <2>2. CASE Connect(w) \/ Connected(w) \/ Drop(w) \/ StartSync(w)
    <3>1. link'[w] \in {"opened", "connected", "down"}
      BY <1>3, <2>2 DEF Connect, Connected, Drop, StartSync
    <3> QED
      BY <3>1 DEF Covered
  <2>3. CASE AskHistory(w)
    <3>1. /\ link'[w] = "asked"
          /\ fence'[w] = IF home[Control] = w THEN Latest(Control) ELSE -1
          /\ UNCHANGED <<dbs, event, home, unsent, stream>>
      BY <1>3, <2>3 DEF AskHistory, nodeVars
    <3>2. ASSUME Follows, NEW r \in Missing(w) PROVE r.seq > fence'[w]
      <4>1. r \in dbs[w].rows /\ r \notin dbs[Control].rows /\ r.seq \in Nat
        BY <1>8, <3>2 DEF Missing
      <4>2. CASE home[Control] # w
        <5>1. fence'[w] = -1
          BY <3>1, <4>2
        <5> QED
          BY <4>1, <5>1
      <4>3. CASE home[Control] = w
        <5>1. dbs[Control].rows \subseteq dbs[w].rows
          BY <3>2, <4>3, FollowsHome
        <5>2. LogsWhole
          BY DEF FollowInv
        <5>3. r.seq \notin 0..Latest(Control)
          <6> SUFFICES ASSUME r.seq \in 0..Latest(Control) PROVE FALSE
            OBVIOUS
          <6>1. PICK c \in dbs[Control].rows : c.seq = r.seq
            BY <1>7, <5>2, NumbersAreUnique
          <6>2. c = r
            BY <1>7, <4>1, <5>1, <5>2, <6>1, NumbersAreUnique
          <6> QED
            BY <4>1, <6>2
        <5>4. Latest(Control) \in Nat \cup {-1}
          BY <1>7, <5>2, NumbersAreUnique
        <5>5. Latest(Control) \in Int
          BY <5>4
        <5>6. r.seq > Latest(Control)
          BY <4>1, <5>3, <5>5
        <5> QED
          BY <3>1, <4>3, <5>6
      <4> QED
        BY <4>2, <4>3
    <3> QED
      BY <3>1, <3>2 DEF Covered, Missing, Follows
  <2>4. CASE ServeHistory(w)
    <3>1. /\ link[w] = "asked" /\ link'[w] = "history"
          /\ rows'[w] = RowsAfter(dbs[w], Session, fence[w])
          /\ UNCHANGED <<dbs, event, home, unsent, stream, settled>>
      BY <1>3, <2>4 DEF ServeHistory, nodeVars
    <3>2. ASSUME settled[w], Follows, OwnerAt(Control) \in {NoOwner, w}
          PROVE  Missing(w) \subseteq rows'[w]
      <4>1. \A r \in Missing(w) : r.seq > fence[w]
        BY <1>6, <3>1, <3>2 DEF Covered
      <4> QED
        BY <1>8, <3>1, <4>1 DEF Missing, RowsAfter
    <3> QED
      BY <3>1, <3>2 DEF Covered, Missing, Follows, OwnerAt
  <2> QED
    BY <2>1, <2>2, <2>3, <2>4
<1>10. HistoryCovers'
  BY <1>5, <1>9 DEF HistoryCovers
<1> QED
  BY <1>2, <1>10 DEF FollowInv, LogsAdvance

\* A loop that replays: what leaves the history is at the control plane.
LEMMA ReplayFollows ==
  ASSUME SyncInv, FollowInv, NEW w \in Workspace, ReplayHistory(w) \/ Deliver(w)
  PROVE  FollowInv'
<1> USE DEF FollowInv
<1>1. PICK r \in dbs[w].rows :
         /\ ReplayAt(Control, r, w, FALSE)
         /\ \/ Deliver(w)
            \/ /\ ReplayHistory(w)
               /\ IF Replayed(Control, r, w, FALSE).outcome = "refused"
                  THEN link'[w] = "dead"
                  ELSE rows'[w] = rows[w] \ {r} /\ UNCHANGED <<link, stream>>
  <2>1. CASE ReplayHistory(w)
    <3>1. rows[w] \subseteq dbs[w].rows
      BY DEF SyncInv, InTransit
    <3>2. link \in [Workspace -> Link] /\ rows \in [Workspace -> SUBSET Row]
      BY DEF SyncInv, SyncTypeOK
    <3> QED
      BY <2>1, <3>1, <3>2 DEF ReplayHistory, Earliest
  <2>2. CASE Deliver(w)
    <3>1. Len(stream[w]) \in Nat \ {0} /\ Head(stream[w]) = stream[w][1]
      BY <2>2 DEF Deliver, SyncInv, SyncTypeOK
    <3>2. stream[w][1] \in dbs[w].rows
      BY <3>1 DEF SyncInv, InTransit
    <3>3. ReplayAt(Control, Head(stream[w]), w, FALSE)
      BY <2>2 DEF Deliver
    <3> QED
      BY <2>2, <3>1, <3>2, <3>3
  <2> QED
    BY <2>1, <2>2
<1>2. r \in Row /\ Control \in Node /\ Workspace \subseteq Node
  BY DEF SyncInv, SyncTypeOK, Db, Node
<1>3. Replays(Control, r, w, FALSE)
  BY <1>1, <1>2, ReplayingReplays
<1>4. LogsAdvance
  BY <1>2, <1>3, ReplayAdvances
<1>5. UNCHANGED <<fence, settled, warp, unsent>>
  BY <1>3 DEF ReplayHistory, Deliver, Replays
<1>6. WarpClaimed' /\ TransferWhole' /\ KnownAuthors'
  BY <1>3, <1>4, <1>5, LoopReplayFollows
<1>7. ASSUME NEW v \in Workspace \ {w} PROVE Covered(v)'
  <2>1. link'[v] = link[v] /\ rows'[v] = rows[v] /\ stream'[v] = stream[v]
    BY DEF ReplayHistory, Deliver, SyncInv, SyncTypeOK
  <2> QED
    BY <1>4, <1>5, <2>1, CoverStays DEF HistoryCovers
<1>8. Covered(w)'
  <2>1. CASE Deliver(w)
    <3>1. link'[w] = "connected"
      BY <2>1 DEF Deliver
    <3> QED
      BY <3>1 DEF Covered
  <2>2. CASE ReplayHistory(w) /\ link'[w] = "dead"
    BY <2>2 DEF Covered
  <2>3. CASE /\ ReplayHistory(w) /\ Replayed(Control, r, w, FALSE).outcome # "refused"
             /\ rows'[w] = rows[w] \ {r} /\ UNCHANGED <<link, stream>>
    <3>1. link[w] = "history"
      BY <2>3 DEF ReplayHistory
    <3> SUFFICES ASSUME settled[w], Follows', OwnerAt(Control)' \in {NoOwner, w}
                 PROVE  Missing(w)' \subseteq rows'[w]
      BY <1>5, <2>3, <3>1 DEF Covered
    <3>2. Follows /\ OwnerAt(Control) \in {NoOwner, w}
      BY <1>4 DEF LogsAdvance
    <3>3. Missing(w) \subseteq rows[w]
      BY <3>1, <3>2 DEF HistoryCovers, Covered
    <3>4. r \in dbs'[Control].rows
      BY <1>3, <2>3, <3>2 DEF Replays
    <3>5. Missing(w)' \subseteq Missing(w) \ {r}
      BY <1>4, <1>5, <2>3, <3>4 DEF Missing, LogsAdvance
    <3> QED
      BY <2>3, <3>3, <3>5
  <2> QED
    BY <1>1, <2>1, <2>2, <2>3
<1>9. HistoryCovers'
  BY <1>7, <1>8 DEF HistoryCovers
<1> QED
  BY <1>4, <1>6, <1>9 DEF LogsAdvance

\* What a warp does to a log leaves the loops alone.
LEMMA WarpCovers ==
  ASSUME FollowInv, LogsAdvance, UNCHANGED <<link, fence, rows, stream, settled>>,
         \A w \in Workspace : unsent[w] \subseteq unsent'[w]
  PROVE  HistoryCovers'
BY CoverStays DEF FollowInv, HistoryCovers

\* A session lives at the control plane only after the control plane wrote that.
LEMMA HomeIsWritten ==
  ASSUME SyncInv, HomesAreSet, home[Control] # None
  PROVE  dbs[Control].rows # {} /\ (home[Control] = Local => ~Follows)
<1>1. Control \in Node /\ None \notin Node
  BY DEF Node
<1>2. PICK r \in dbs[Control].rows : event[r.id].home = home[Control]
  BY <1>1 DEF HomesAreSet
<1>3. r.id \in EventId
  BY <1>1 DEF SyncInv, SyncTypeOK, Db, Row
<1>4. home[Control] = Local => event[r.id].by = Control
  BY <1>1, <1>2, <1>3 DEF HomesAreSet, Local
<1> QED
  BY <1>2, <1>4 DEF Follows

\* A step of a warp that changes no log.
LEMMA QuietWarpFollows ==
  ASSUME SyncInv, FollowInv,
         (\E to \in Node : WarpStart(to)) \/ WarpFinal \/ WarpSend \/ WarpFails
  PROVE  FollowInv'
<1> USE DEF FollowInv
<1>1. UNCHANGED <<dbs, event, home, unsent, link, fence, rows, stream, settled>>
  BY DEF WarpStart, WarpFinal, WarpSend, WarpFails, nodeVars, loopVars
<1>2. LogsAdvance /\ (Follows' <=> Follows) /\ (OneHome => OneHome')
      /\ OwnerAt(Control)' = OwnerAt(Control)
  BY <1>1, QuietAdvances DEF LogsAdvance, OwnerAt
<1>3. HistoryCovers'
  BY <1>1, <1>2, WarpCovers
<1>4. warp \in Warp /\ NoWarp.pc = "idle"
  BY DEF SyncInv, SyncTypeOK, NoWarp
<1>5. WarpClaimed' /\ TransferWhole' /\ KnownAuthors'
  <2>1. ASSUME NEW to \in Node, WarpStart(to) PROVE WarpClaimed' /\ TransferWhole' /\ KnownAuthors'
    <3>1. /\ warp.pc = "idle" /\ home[Control] # None
          /\ warp'.pc = IF home[Control] = Local THEN "send" ELSE "final"
      BY <2>1 DEF WarpStart
    <3>2. dbs[Control].rows # {} /\ (home[Control] = Local => ~Follows)
      BY <3>1, HomeIsWritten
    <3> QED
      BY <1>1, <1>2, <3>1, <3>2 DEF WarpClaimed, TransferWhole, KnownAuthors
  <2>2. CASE WarpFinal
    <3>1. warp.pc = "final" /\ warp'.pc \in {"replay", "claim"}
      BY <1>4, <2>2 DEF WarpFinal, Then, Warp
    <3> QED
      BY <1>1, <1>2, <3>1 DEF WarpClaimed, TransferWhole, KnownAuthors
  <2>3. CASE WarpSend
    <3>1. /\ warp.pc = "send" /\ warp'.pc = "sending" /\ warp'.to = warp.to
          /\ warp'.rows = dbs[Control].rows
      BY <1>4, <2>3 DEF WarpSend, Then, Warp
    <3> QED
      BY <1>1, <1>2, <3>1 DEF WarpClaimed, TransferWhole, KnownAuthors
  <2>4. CASE WarpFails
    <3>1. warp.pc \in {"send", "sending"} /\ warp' = NoWarp
      BY <2>4 DEF WarpFails
    <3> QED
      BY <1>1, <1>2, <1>4, <3>1 DEF WarpClaimed, TransferWhole, KnownAuthors
  <2> QED
    BY <2>1, <2>2, <2>3, <2>4
<1> QED
  BY <1>2, <1>3, <1>5 DEF LogsAdvance

\* The last history of the old workspace, and the transfer to the new one.
LEMMA WarpReplayFollows ==
  ASSUME SyncInv, FollowInv, WarpReplay \/ WarpTransfer
  PROVE  FollowInv'
<1> USE DEF FollowInv
<1>1. Control \in Node /\ Workspace \subseteq Node /\ Control \notin Workspace
  BY DEF Node
<1>2. warp \in Warp /\ NoWarp.pc = "idle" /\ warp.rows \subseteq Row
  BY DEF SyncInv, SyncTypeOK, NoWarp, Warp
<1>3. PICK n \in Node, own \in Workspace, strict \in BOOLEAN, r \in warp.rows :
        /\ ReplayAt(n, r, own, strict)
        /\ \/ warp' = NoWarp
           \/ /\ warp' = [warp EXCEPT !.pc = warp.pc, !.rows = warp.rows \ {r}]
              /\ Replayed(n, r, own, strict).outcome # "refused"
        /\ \/ warp.pc = "replay" /\ n = Control
           \/ /\ warp.pc = "sending" /\ n = warp.to /\ n # Control /\ strict
              /\ r \in dbs[Control].rows
  <2>1. CASE WarpReplay
    <3>1. warp.pc = "replay" /\ warp.from \in Workspace
      BY <2>1 DEF WarpReplay, SyncInv, InTransit
    <3>2. PICK r \in warp.rows :
            /\ ReplayAt(Control, r, warp.from, FALSE)
            /\ IF Replayed(Control, r, warp.from, FALSE).outcome = "refused" THEN warp' = NoWarp
               ELSE warp' = [warp EXCEPT !.pc = warp.pc, !.rows = warp.rows \ {r}]
      BY <2>1, <3>1 DEF WarpReplay, Earliest, Then
    <3> QED
      BY <1>1, <3>1, <3>2
  <2>2. CASE WarpTransfer
    <3>1. warp.pc = "sending" /\ warp.to \in Workspace /\ warp.rows \subseteq dbs[Control].rows
      BY <2>2 DEF WarpTransfer, SyncInv, InTransit
    <3>2. PICK r \in warp.rows :
            /\ ReplayAt(warp.to, r, warp.to, TRUE)
            /\ IF Replayed(warp.to, r, warp.to, TRUE).outcome = "refused" THEN warp' = NoWarp
               ELSE warp' = [warp EXCEPT !.pc = warp.pc, !.rows = warp.rows \ {r}]
      BY <2>2, <3>1 DEF WarpTransfer, Earliest, Then
    <3> QED
      BY <1>1, <3>1, <3>2
  <2> QED
    BY <2>1, <2>2
<1>4. r \in Row
  BY <1>2
<1>5. Replays(n, r, own, strict)
  BY <1>3, <1>4, ReplayingReplays
<1>6. LogsAdvance
  BY <1>3, <1>4, <1>5, ReplayAdvances
<1>7. UNCHANGED <<event, unsent, link, fence, rows, stream, settled>>
  BY <1>5 DEF WarpReplay, WarpTransfer, loopVars, Replays
<1>8. HistoryCovers'
  BY <1>6, <1>7, WarpCovers
<1>9. KnownAuthors'
  <2>1. Follows' => OneHome
    BY <1>3, <1>6 DEF KnownAuthors, LogsAdvance
  <2>2. OneHome => OneHome'
    BY <1>4, <1>5, OneHomeStays
  <2> QED
    BY <2>1, <2>2 DEF KnownAuthors
<1>10. /\ warp'.pc \in {"idle", warp.pc}
       /\ warp'.pc # "idle" =>
            /\ warp'.to = warp.to /\ warp'.rows = warp.rows \ {r}
            /\ Replayed(n, r, own, strict).outcome # "refused"
  BY <1>2, <1>3 DEF Warp
<1>11. WarpClaimed'
  <2>1. warp'.pc # "idle" => dbs'[Control].rows # {}
    BY <1>6, <1>10 DEF WarpClaimed, LogsAdvance
  <2>2. ASSUME Follows', warp'.pc = "sending", warp'.to # Local
        PROVE  OwnerAt(Control)' = warp'.to
    <3>1. OwnerAt(Control) = warp.to
      BY <1>6, <1>10, <2>2 DEF WarpClaimed, LogsAdvance
    <3>2. OwnerAt(Control)' = OwnerAt(Control)
      BY <1>3, <1>7, <1>5, <1>1, <1>10, <2>2 DEF OwnerAt, Replays
    <3> QED
      BY <1>10, <2>2, <3>1, <3>2
  <2> QED
    BY <1>3, <1>10, <2>1, <2>2 DEF WarpClaimed
<1>12. TransferWhole'
  <2> SUFFICES ASSUME Follows', warp'.pc = "sending"
               PROVE  dbs'[Control].rows \subseteq dbs'[warp'.to].rows \cup warp'.rows
    BY <1>3, <1>10 DEF TransferWhole
  <2>1. /\ warp.pc = "sending" /\ n = warp.to /\ n # Control /\ strict
        /\ warp'.to = warp.to /\ warp'.rows = warp.rows \ {r}
        /\ Replayed(n, r, own, strict).outcome # "refused"
    BY <1>3, <1>10
  <2>2. dbs'[Control] = dbs[Control] /\ r \in dbs'[n].rows /\ dbs[n].rows \subseteq dbs'[n].rows
    BY <1>1, <1>5, <2>1 DEF Replays
  <2>3. dbs[Control].rows \subseteq dbs[n].rows \cup warp.rows
    BY <1>6, <2>1 DEF TransferWhole, LogsAdvance
  <2> QED
    BY <2>1, <2>2, <2>3
<1> QED
  BY <1>6, <1>8, <1>9, <1>11, <1>12 DEF LogsAdvance

\* A claim starts everything anew: no loop knows any more what it was sent.
LEMMA WarpClaimFollows ==
  ASSUME SyncInv, FollowInv, WarpClaim
  PROVE  FollowInv'
<1> USE DEF FollowInv
<1>1. Control \in Node /\ Workspace \subseteq Node /\ None \notin Node /\ Session \in Aggregate
  BY DEF Node
<1>2. PICK own : own = IF warp.to = Local THEN Project ELSE warp.to
  OBVIOUS
<1>3. /\ dbs' = [dbs EXCEPT ![Control] = ClaimResult(dbs[Control], Session, own)]
      /\ settled' = [w \in Workspace |-> FALSE]
      /\ warp' = [warp EXCEPT !.pc = "send", !.rows = {}]
      /\ UNCHANGED <<event, home, unsent, link, fence, rows, stream>>
      /\ warp.pc \in {"claim", "replay"}
  BY <1>2 DEF WarpClaim, Then
<1>4. PICK r \in dbs[Control].rows : TRUE
  BY <1>3 DEF WarpClaimed
<1>5. dbs[Control].latest[Session] # -1
  <2>1. Latest(Control) \in Nat \cup {-1} /\ r.seq \in 0..Latest(Control)
    BY <1>1, NumbersAreUnique
  <2>2. Latest(Control) # -1
    BY <2>1
  <2> QED
    BY <2>2 DEF Latest
<1> DEFINE e == [dbs[Control] EXCEPT !.owner[Session] = own]
<1>6. dbs[Control] \in Db
  BY <1>1 DEF SyncInv, SyncTypeOK
<1>7. /\ e.rows = dbs[Control].rows /\ e.latest = dbs[Control].latest
      /\ e.owner[Session] = own
  BY <1>1, <1>6 DEF Db
<1>8. ClaimResult(dbs[Control], Session, own) = e
  BY <1>5 DEF ClaimResult
<1> HIDE DEF e
<1>9. /\ dbs'[Control] = e
      /\ \A n \in Node : /\ dbs'[n].rows = dbs[n].rows
                         /\ dbs'[n].latest = dbs[n].latest
  BY <1>1, <1>3, <1>7, <1>8 DEF SyncInv, SyncTypeOK
<1>10. OwnerAt(Control)' = own
  BY <1>7, <1>9 DEF OwnerAt
<1>11. /\ warp'.pc = "send" /\ warp'.to = warp.to
  BY <1>3 DEF SyncInv, SyncTypeOK, Warp
<1>12. LogsWhole' /\ HomesAreSet'
  BY <1>3, <1>9 DEF LogsWhole, Contiguous, HomesAreSet
<1>13. WarpClaimed' /\ TransferWhole'
  BY <1>1, <1>2, <1>4, <1>9, <1>10, <1>11 DEF WarpClaimed, TransferWhole
<1>14. KnownAuthors'
  BY <1>1, <1>3, <1>9 DEF KnownAuthors, Follows, OneHome
<1>15. HistoryCovers'
  BY <1>3 DEF HistoryCovers, Covered
<1> QED
  BY <1>12, <1>13, <1>14, <1>15

\* The control plane writes where the session lives, and only follows no more.
LEMMA WarpHomeFollows ==
  ASSUME SyncInv, FollowInv, WarpHome \/ WarpFinish
  PROVE  FollowInv'
<1> USE DEF FollowInv
<1>1. PICK h \in Node : PublishAt(Control, h)
  BY DEF WarpHome, WarpFinish, SyncInv, InTransit, Local, Node
<1>2. /\ UNCHANGED <<link, fence, rows, stream, settled>> /\ warp' = NoWarp
      /\ Control \in Node
  BY DEF WarpHome, WarpFinish, loopVars, Node
<1>3. Publishes(Control, h)
  BY <1>1, <1>2, PublishingPublishes
<1>4. LogsAdvance /\ ~Follows'
  BY <1>2, <1>3, PublishAdvances
<1>5. HistoryCovers'
  BY <1>2, <1>3, <1>4, WarpCovers DEF Publishes
<1>6. WarpClaimed' /\ TransferWhole' /\ KnownAuthors'
  BY <1>2, <1>4 DEF WarpClaimed, TransferWhole, KnownAuthors, NoWarp
<1> QED
  BY <1>4, <1>5, <1>6 DEF LogsAdvance

\* The steal: the target has all there is, and is from now on the second author.
LEMMA WarpStealFollows ==
  ASSUME SyncInv, FollowInv, WarpSteal
  PROVE  FollowInv'
<1> USE DEF FollowInv
<1>1. PICK v \in Workspace : v = warp.to
  BY DEF WarpSteal, SyncInv, InTransit
<1>2. /\ warp.pc = "sending" /\ warp.rows = {} /\ PublishAt(v, v)
      /\ warp'.pc = "finish" /\ warp'.to = v /\ warp'.rows = {}
      /\ UNCHANGED <<link, fence, rows, stream, settled>>
  BY <1>1 DEF WarpSteal, Then, loopVars, SyncInv, SyncTypeOK, Warp
<1>3. Control \in Node /\ Workspace \subseteq Node /\ Control \notin Workspace /\ None \notin Node
      /\ NoOwner \notin Workspace
  BY DEF Node
<1>4. Publishes(v, v)
  BY <1>2, <1>3, PublishingPublishes
<1>5. LogsAdvance
  BY <1>3, <1>4, PublishAdvances
<1>6. HistoryCovers'
  BY <1>2, <1>4, <1>5, WarpCovers DEF Publishes
<1>7. PICK id \in EventId, q \in Row :
         /\ event[id].by = None /\ event'[id].by = v /\ event'[id].home = v
         /\ \A i \in EventId \ {id} : event'[i] = event[i]
         /\ q.id = id /\ q \notin dbs[v].rows
         /\ dbs'[v].rows = dbs[v].rows \cup {q}
         /\ \A m \in Node \ {v} : dbs'[m] = dbs[m]
         /\ \A m \in Node : home'[m] = IF m = v THEN v ELSE home[m]
  BY <1>3, <1>4 DEF Publishes
<1>8. ASSUME Follows'
      PROVE  Follows /\ OwnerAt(Control)' = v /\ dbs[Control].rows \subseteq dbs[v].rows
  <2>1. Follows /\ OwnerAt(Control) = v
    BY <1>1, <1>2, <1>3, <1>5, <1>8 DEF LogsAdvance, WarpClaimed, Local
  <2> QED
    BY <1>1, <1>2, <1>3, <1>5, <2>1 DEF LogsAdvance, TransferWhole
<1>9. WarpClaimed'
  BY <1>2, <1>5, <1>8 DEF WarpClaimed, LogsAdvance
<1>10. TransferWhole'
  BY <1>2, <1>3, <1>7, <1>8 DEF TransferWhole
<1>11. KnownAuthors'
  <2> SUFFICES ASSUME Follows' PROVE OneHome' \/ \E a \in Node : TwoHomes(a, v)'
    BY <1>2 DEF KnownAuthors
  <2>1. PICK a \in Node :
          /\ \A i \in EventId : {event[i].by, event[i].home} \subseteq {None, a}
          /\ \A m \in Node : home[m] \in {None, a}
    BY <1>2, <1>8 DEF KnownAuthors, OneHome
  <2>2. CASE a = v
    <3>1. \A i \in EventId : {event'[i].by, event'[i].home} \subseteq {None, v}
      BY <1>7, <2>1, <2>2
    <3>2. \A m \in Node : home'[m] \in {None, v}
      BY <1>7, <2>1, <2>2
    <3> QED
      BY <1>3, <3>1, <3>2 DEF OneHome
  <2>3. CASE a # v
    <3>1. \A m \in Node : \A r \in dbs[m].rows : event'[r.id].by \in {None, a}
      <4>1. \A m \in Node : \A r \in dbs[m].rows : r.id \in EventId /\ event[r.id].by # None
        BY DEF SyncInv, SyncTypeOK, Db, Row, RowsArePublished
      <4> QED
        BY <1>7, <2>1, <4>1
    <3>2. /\ \A i \in EventId : event'[i].by \in {None, a, v}
          /\ \A m \in Node : home'[m] \in {None, a, v}
      BY <1>7, <2>1
    <3>3. /\ q \in dbs'[v].rows /\ event'[q.id].home = v
          /\ \A r \in dbs'[v].rows : event'[r.id].by = v => r = q
      BY <1>3, <1>7, <2>3, <3>1
    <3>4. \A r \in dbs'[Control].rows : event'[r.id].by # v
      BY <1>3, <1>7, <2>3, <3>1
    <3>5. q.seq <= q.seq
      BY DEF Row
    <3> QED
      BY <3>2, <3>3, <3>4, <3>5 DEF TwoHomes
  <2> QED
    BY <2>2, <2>3
<1> QED
  BY <1>5, <1>6, <1>9, <1>10, <1>11 DEF LogsAdvance

LEMMA InitFollows == Init => FollowInv
<1> SUFFICES ASSUME Init PROVE FollowInv
  OBVIOUS
<1> USE DEF Init
<1>1. /\ \A n \in Node : dbs[n] = EmptyDb
      /\ EmptyDb.rows = {} /\ \A a \in Aggregate : EmptyDb.latest[a] = -1
  BY DEF EmptyDb
<1>2. \A i \in 0..-1 : FALSE
  OBVIOUS
<1>3. LogsWhole
  BY <1>1, <1>2 DEF LogsWhole, Contiguous
<1>4. HomesAreSet /\ OneHome
  BY DEF HomesAreSet, OneHome, Unused, Node
<1>5. WarpClaimed /\ TransferWhole
  BY DEF WarpClaimed, TransferWhole, NoWarp
<1>6. HistoryCovers
  BY DEF HistoryCovers, Covered
<1> QED
  BY <1>3, <1>4, <1>5, <1>6 DEF FollowInv, KnownAuthors

LEMMA FollowStep == SyncInv /\ FollowInv /\ [Next]_vars => FollowInv'
<1> SUFFICES ASSUME SyncInv, FollowInv, [Next]_vars PROVE FollowInv'
  OBVIOUS
<1>1. ASSUME NEW n \in Node, Create(n) \/ Work(n) PROVE FollowInv'
  BY <1>1, WorkFollows
<1>2. ASSUME NEW w \in Workspace, LoopStep(w) PROVE FollowInv'
  BY <1>2, LoopFollows, ReplayFollows DEF LoopStep
<1>3. CASE WarpStep
  BY <1>3, QuietWarpFollows, WarpReplayFollows, WarpClaimFollows, WarpHomeFollows,
     WarpStealFollows DEF WarpStep
<1>4. CASE UNCHANGED vars
  <2>1. UNCHANGED <<dbs, event, home, unsent, link, fence, rows, stream, settled, warp>>
    BY <1>4 DEF vars, nodeVars, loopVars
  <2>2. LogsAdvance /\ WarpClaimed' /\ TransferWhole' /\ KnownAuthors'
    BY <2>1, QuietFollows
  <2>3. HistoryCovers'
    BY <2>1, <2>2, WarpCovers
  <2> QED
    BY <2>2, <2>3 DEF FollowInv, LogsAdvance
<1> QED
  BY <1>1, <1>2, <1>3, <1>4 DEF Next

------------------------------------------------------------------------------
(* Theorems *)

\* Every row of every log has an origin that still has it, whatever was dropped,
\* repeated, delayed or moved.
THEOREM SyncInvariant == Spec => []SyncInv
<1> QED
  BY SyncInit, SyncStep, PTL DEF Spec

\* Every variable of the sync has values of its kind.
THEOREM SyncTypes == Spec => []SyncTypeOK
<1>1. SyncInv => SyncTypeOK
  BY DEF SyncInv
<1> QED
  BY <1>1, SyncInvariant, PTL

\* What is written after the session was claimed away comes back only while it is
\* claimed for its author (workspace.ts:603-605).
THEOREM LateWorkIsFenced == Spec => FencedWork
<1> DEFINE Fenced == \A r \in dbs'[Control].rows \ dbs[Control].rows :
                       event'[r.id].fenced => OwnerAt(Control) = event'[r.id].by
<1>1. SyncInv /\ [Next]_vars => [Fenced]_vars
  BY SyncStep DEF LogsGrow
<1>2. Spec => [][Fenced]_vars
  BY SyncInvariant, <1>1, PTL DEF Spec
<1> QED
  BY <1>2 DEF FencedWork

\* Logs have no gaps, what is claimed is claimed, one author or an author and a thief
\* have written all there is, and history covers what is missing: in every state.
THEOREM FollowInvariant == Spec => []FollowInv
<1> QED
  BY InitFollows, FollowStep, SyncInvariant, PTL DEF Spec

\* A control plane that only follows never has what the workspace of the session does
\* not have.
THEOREM ReplicaNeverLeads == Spec => []ReplicaIsPrefix
<1>1. SyncInv /\ FollowInv => ReplicaIsPrefix
  BY FollowsHome DEF ReplicaIsPrefix
<1> QED
  BY <1>1, SyncInvariant, FollowInvariant, PTL

\* When the loop of a workspace reports that it is connected and nobody has claimed the
\* session since it asked, nothing that the workspace has is lost to the control plane
\* (workspace.ts:392-409).
THEOREM ConnectedLoopsAreCaughtUp == Spec => ConnectedIsCaughtUp
<1> DEFINE CaughtUp(w) == Connected(w) /\ settled[w] /\ OwnerAt(Control) = w /\ Follows
                          => \A r \in dbs[w].rows : r \in dbs[Control].rows \/ r \in unsent[w]
                                                     \/ r \in ToSet(stream[w])
<1>1. FollowInv => \A w \in Workspace : CaughtUp(w)
  BY DEF FollowInv, HistoryCovers, Covered, Connected, Missing
<1>2. FollowInv /\ [Next]_vars => [\A w \in Workspace : CaughtUp(w)]_vars
  BY <1>1
<1>3. Spec => [][\A w \in Workspace : CaughtUp(w)]_vars
  BY FollowInvariant, <1>2, PTL DEF Spec
<1> QED
  BY <1>3 DEF ConnectedIsCaughtUp

===============================================================================
