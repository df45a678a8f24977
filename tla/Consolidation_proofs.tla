------------------------- MODULE Consolidation_proofs -------------------------
(***************************************************************************)
(* Proofs that the sleep cycle of Consolidation skips nothing and handles  *)
(* no event twice in a life of the process, for every spine, batch size    *)
(* and number of failures.  That every event is folded in the end is a     *)
(* liveness property and left to TLC.                                      *)
(***************************************************************************)
EXTENDS Consolidation, FiniteSetTheorems, TLAPS

USE ConsolidationAssumption

\* The scheduler starts with nothing seen and its cursor before every event.
LEMMA CycleInit == Init => ConsolidationInv
<1> SUFFICES ASSUME Init PROVE ConsolidationInv
  OBVIOUS
<1>1. IsFiniteSet(ledger)
  BY FS_EmptySet DEF Init
<1>2. ConsolidationTypeOK
  BY DEF Init, ConsolidationTypeOK, Topics, Unhinted, Never
<1>3. CursorInv /\ FoldInv /\ BacklogInv /\ TopicInv
  BY DEF Init, CursorInv, Covered, FoldInv, BacklogInv, TopicInv, Never
<1> QED
  BY <1>1, <1>2, <1>3 DEF ConsolidationInv

\* No step of the scheduler or of a writer puts a value of a wrong type anywhere.
LEMMA CycleTypes == ConsolidationTypeOK /\ [Next]_vars => ConsolidationTypeOK'
<1> SUFFICES ASSUME ConsolidationTypeOK, [Next]_vars PROVE ConsolidationTypeOK'
  OBVIOUS
<1> USE DEF ConsolidationTypeOK, envVars, foldVars, llmVars, passVars, Mishap
<1>1. ASSUME NEW e \in Event, Append(e) PROVE ConsolidationTypeOK'
  BY <1>1 DEF Append
<1>2. CASE ReadOld
  <2>1. EventsAfter(mark) \in SUBSET Event
    BY DEF EventsAfter
  <2>2. old' \in SUBSET Event /\ pc' \in {"recent", "llm"} /\ mishaps' \in 0..MaxMishaps
    BY <1>2, <2>1 DEF ReadOld
  <2> QED
    BY <1>2, <2>2 DEF ReadOld
<1>3. CASE ReadRecent
  BY <1>3 DEF ReadRecent, Take
<1>4. CASE FoldOne
  BY <1>4 DEF FoldOne
<1>5. CASE FoldDone
  BY <1>5 DEF FoldDone
<1>6. CASE LlmWait
  BY <1>6 DEF LlmWait, Waits
<1>7. CASE LlmCall
  BY <1>7 DEF LlmCall
<1>8. CASE LlmReturn
  BY <1>8 DEF LlmReturn, Backoff
<1>9. CASE Restart
  BY <1>9 DEF Restart, Never
<1>10. CASE UNCHANGED vars
  BY <1>10 DEF vars
<1> QED
  BY <1>1, <1>2, <1>3, <1>4, <1>5, <1>6, <1>7, <1>8, <1>9, <1>10 DEF Next, Tick

\* The forward scan leaves out no event before one that it returns.
LEMMA ScanIsContiguous ==
  ASSUME IsFiniteSet(ledger), ledger \subseteq Nat, NEW m \in Nat,
         NEW f \in EventsAfter(m), NEW e \in ledger, m < e, e <= f
  PROVE  e \in EventsAfter(m)
<1> DEFINE rows == {g \in ledger : g > m}
           Below(x) == {g \in rows : g < x}
<1>1. Below(e) \subseteq Below(f)
  BY DEF EventsAfter
<1>2. IsFiniteSet(Below(f))
  BY FS_Subset
<1>3. /\ Cardinality(Below(e)) \in Nat /\ Cardinality(Below(f)) \in Nat
      /\ Cardinality(Below(e)) <= Cardinality(Below(f))
  BY <1>1, <1>2, FS_Subset, FS_CardinalityType
<1>4. Cardinality(Below(f)) < Batch
  BY DEF EventsAfter
<1>5. Cardinality(Below(e)) < Batch
  BY <1>3, <1>4
<1>6. e \in rows
  OBVIOUS
<1> QED
  BY <1>5, <1>6 DEF EventsAfter

-----------------------------------------------------------------------------
(* The cursor *)

\* Every step keeps the cursor, and where the pass will put it, behind nothing but
\* seen and late events.
LEMMA CursorStep == ConsolidationInv /\ [Next]_vars => CursorInv' /\ IsFiniteSet(ledger')
<1> SUFFICES ASSUME ConsolidationInv, [Next]_vars PROVE CursorInv' /\ IsFiniteSet(ledger')
  OBVIOUS
<1>t. ConsolidationTypeOK /\ IsFiniteSet(ledger) /\ CursorInv /\ FoldInv
  BY DEF ConsolidationInv
<1> USE <1>t DEF CursorInv, Covered
<1>1. ASSUME NEW e \in Event, Append(e) PROVE CursorInv' /\ IsFiniteSet(ledger')
  <2> USE <1>1
  <2>1. IsFiniteSet(ledger')
    BY FS_AddElement DEF Append
  <2>2. ASSUME NEW f \in ledger, e <= f PROVE e \in late'
    BY <2>2 DEF Append, ConsolidationTypeOK
  <2>3. UNCHANGED <<mark, seen, pc, old, newest>> /\ ledger' = ledger \cup {e} /\ late \subseteq late'
    BY DEF Append, passVars
  <2>4. old \subseteq ledger /\ e > 0 /\ ledger \subseteq Nat
    BY DEF FoldInv, ConsolidationTypeOK
  <2>5. (mark \in ledger \cup {0} /\ Covered(mark))'
    BY <2>2, <2>3, <2>4
  <2>6. (pc = "fold" => newest \in ledger \cup {0} /\ Covered(newest))'
    BY <2>2, <2>3, <2>4
  <2>7. (pc = "recent" => \A f \in old, g \in ledger : g <= f => g \in old \cup seen \cup late)'
    BY <2>2, <2>3, <2>4
  <2> QED
    BY <2>1, <2>5, <2>6, <2>7
<1>2. CASE ReadOld
  <2>1. UNCHANGED <<ledger, late, mark, seen, newest>>
    BY <1>2 DEF ReadOld, envVars
  <2>2. CASE pc' = "recent"
    <3>1. old' = EventsAfter(mark)
      BY <1>2, <2>2 DEF ReadOld
    <3>2. ASSUME NEW f \in EventsAfter(mark), NEW e \in ledger, e <= f
          PROVE  e \in EventsAfter(mark) \cup seen \cup late
      <4>1. ledger \subseteq Nat /\ mark \in Nat
        BY DEF ConsolidationTypeOK
      <4>2. CASE e <= mark
        BY <4>2
      <4>3. CASE mark < e
        BY <4>1, <4>3, <3>2, ScanIsContiguous
      <4> QED
        BY <4>1, <4>2, <4>3
    <3> QED
      BY <2>1, <2>2, <3>1, <3>2
  <2>3. CASE pc' = "llm"
    BY <2>1, <2>3
  <2> QED
    BY <1>2, <2>2, <2>3 DEF ReadOld
<1>3. CASE ReadRecent
  <2>1. UNCHANGED <<ledger, late, mark>> /\ seen \cup old \subseteq seen' /\ pc' \in {"llm", "fold"}
    BY <1>3 DEF ReadRecent, Take
  <2>2. (mark \in ledger \cup {0} /\ Covered(mark))'
    BY <2>1
  <2>3. ASSUME pc' = "fold" PROVE newest' \in ledger \cup {0} /\ Covered(newest)'
    <3>1. pc = "recent" /\ newest' \in oldTodo' \cup {mark} /\ oldTodo' \subseteq old
      BY <1>3, <2>3 DEF ReadRecent, Take
    <3>2. CASE newest' = mark
      BY <2>1, <3>2
    <3>3. CASE newest' \in old
      BY <2>1, <3>1, <3>3 DEF FoldInv
    <3> QED
      BY <3>1, <3>2, <3>3
  <2> QED
    BY <2>1, <2>2, <2>3
<1>4. CASE FoldOne
  BY <1>4 DEF FoldOne, envVars
<1>5. CASE FoldDone
  BY <1>5 DEF FoldDone, envVars, passVars
<1>6. CASE LlmWait \/ LlmCall \/ LlmReturn
  BY <1>6 DEF LlmWait, LlmCall, LlmReturn, envVars, passVars
<1>7. CASE Restart
  BY <1>7 DEF Restart, envVars, ConsolidationTypeOK
<1>8. CASE UNCHANGED vars
  BY <1>8 DEF vars, envVars, passVars
<1> QED
  BY <1>1, <1>2, <1>3, <1>4, <1>5, <1>6, <1>7, <1>8 DEF Next, Tick

-----------------------------------------------------------------------------
(* The fold and the backlog *)

\* Every step keeps the count of folds at one for what was seen and is not waiting.
LEMMA FoldStep == ConsolidationInv /\ [Next]_vars => FoldInv'
<1> SUFFICES ASSUME ConsolidationInv, [Next]_vars PROVE FoldInv'
  OBVIOUS
<1>t. ConsolidationTypeOK /\ FoldInv
  BY DEF ConsolidationInv
<1> USE <1>t DEF FoldInv
<1>1. ASSUME NEW e \in Event, Append(e) PROVE FoldInv'
  BY <1>1 DEF Append, foldVars, passVars
<1>2. CASE ReadOld
  BY <1>2 DEF ReadOld, EventsAfter, envVars, foldVars
<1>3. CASE ReadRecent
  <2>1. UNCHANGED <<ledger, done>> /\ old' = {}
    BY <1>3 DEF ReadRecent, foldVars
  <2>2. PICK W \in SUBSET ledger : Take(W)
    BY <1>3 DEF ReadRecent
  <2>3. oldTodo = {} /\ newTodo = {}
    BY <1>3 DEF ReadRecent
  <2>4. pc' # "fold" => oldTodo' \cup newTodo' = {}
    BY <1>3 DEF ReadRecent
  <2>5. seen' \ (oldTodo' \cup newTodo') = seen
    BY <2>2 DEF Take
  <2>6. \A e \in Event : done'[e] = IF e \in seen' \ (oldTodo' \cup newTodo') THEN 1 ELSE 0
    BY <2>1, <2>3, <2>5
  <2>7. /\ seen' \subseteq ledger /\ oldTodo' \subseteq seen' /\ newTodo' \subseteq seen'
        /\ oldTodo' \cap newTodo' = {}
    BY <2>2 DEF Take
  <2> QED
    BY <2>1, <2>4, <2>6, <2>7
<1>4. CASE FoldOne
  <2>1. PICK e \in oldTodo \cup newTodo :
          /\ oldTodo' = oldTodo \ {e} /\ newTodo' = newTodo \ {e}
          /\ done' = [done EXCEPT ![e] = @ + 1]
    BY <1>4 DEF FoldOne
  <2>2. UNCHANGED <<ledger, seen, old, pc>> /\ pc = "fold"
    BY <1>4 DEF FoldOne, envVars
  <2>3. e \in Event /\ done[e] = 0
    BY DEF ConsolidationTypeOK
  <2>4. \A f \in Event : done'[f] = IF f = e THEN 1 ELSE done[f]
    BY <2>1, <2>3 DEF ConsolidationTypeOK
  <2>5. \A f \in Event : f \in seen' \ (oldTodo' \cup newTodo') <=>
                           f = e \/ f \in seen \ (oldTodo \cup newTodo)
    BY <2>1, <2>2
  <2>6. \A f \in Event : done'[f] = IF f \in seen' \ (oldTodo' \cup newTodo') THEN 1 ELSE 0
    BY <2>4, <2>5
  <2> QED
    BY <2>1, <2>2, <2>6
<1>5. CASE FoldDone
  BY <1>5 DEF FoldDone, envVars, foldVars, passVars
<1>6. CASE LlmWait \/ LlmCall \/ LlmReturn
  BY <1>6 DEF LlmWait, LlmCall, LlmReturn, envVars, foldVars, passVars
<1>7. CASE Restart
  BY <1>7 DEF Restart, envVars, Never
<1>8. CASE UNCHANGED vars
  BY <1>8 DEF vars, envVars, foldVars, passVars
<1> QED
  BY <1>1, <1>2, <1>3, <1>4, <1>5, <1>6, <1>7, <1>8 DEF Next, Tick

\* Every step keeps an unhinted event waiting, with the model, or shown once.
LEMMA BacklogStep == ConsolidationInv /\ [Next]_vars => BacklogInv'
<1> SUFFICES ASSUME ConsolidationInv, [Next]_vars PROVE BacklogInv'
  OBVIOUS
<1>t. ConsolidationTypeOK /\ FoldInv /\ BacklogInv
  BY DEF ConsolidationInv
<1> USE <1>t DEF BacklogInv
<1>1. ASSUME NEW e \in Event, Append(e) PROVE BacklogInv'
  BY <1>1 DEF Append, llmVars
<1>2. CASE ReadOld
  BY <1>2 DEF ReadOld, llmVars
<1>3. CASE ReadRecent
  <2>1. UNCHANGED <<sent, shown>> /\ pc' \in {"llm", "fold"} /\ sent = {}
    BY <1>3 DEF ReadRecent
  <2>2. PICK W \in SUBSET ledger : Take(W)
    BY <1>3 DEF ReadRecent
  <2>3. backlog' \subseteq backlog \cup oldTodo' \cup newTodo'
    BY <1>3 DEF ReadRecent
  <2>4. seen \subseteq seen' /\ oldTodo' \cup newTodo' \subseteq seen' \ seen
    BY <2>2 DEF Take
  <2> QED
    BY <2>1, <2>3, <2>4
<1>4. CASE FoldOne
  BY <1>4 DEF FoldOne, llmVars
<1>5. CASE FoldDone
  BY <1>5 DEF FoldDone, llmVars
<1>6. CASE LlmWait
  BY <1>6 DEF LlmWait
<1>7. CASE LlmCall
  BY <1>7 DEF LlmCall
<1>8. CASE LlmReturn
  BY <1>8 DEF LlmReturn, ConsolidationTypeOK
<1>9. CASE Restart
  BY <1>9 DEF Restart, Never
<1>10. CASE UNCHANGED vars
  BY <1>10 DEF vars, llmVars
<1> QED
  BY <1>1, <1>2, <1>3, <1>4, <1>5, <1>6, <1>7, <1>8, <1>9, <1>10 DEF Next, Tick

-----------------------------------------------------------------------------

\* Every step leaves each topic with a statement that was folded for it.
LEMMA TopicStep == ConsolidationInv /\ [Next]_vars => TopicInv'
<1> SUFFICES ASSUME ConsolidationInv, [Next]_vars PROVE TopicInv'
  OBVIOUS
<1>t. ConsolidationTypeOK /\ TopicInv
  BY DEF ConsolidationInv
<1> USE <1>t DEF TopicInv
<1>1. CASE UNCHANGED <<live, folded>>
  BY <1>1
<1>2. CASE FoldOne /\ ~UNCHANGED <<live, folded>>
  <2>1. PICK e \in oldTodo \cup newTodo :
          /\ folded' = folded \cup {e}
          /\ live' = [p \in Topics |-> IF p = Hint[e] THEN e ELSE live[p]]
    BY <1>2 DEF FoldOne
  <2>2. e \in Event /\ e # 0
    BY ConsolidationAssumption DEF ConsolidationTypeOK
  <2>3. \A f \in Event \ Unhinted : Hint[f] \in Topics
    BY DEF Unhinted, Topics
  <2>4. folded \subseteq Event
    BY DEF ConsolidationTypeOK
  <2> QED
    BY <2>1, <2>2, <2>3, <2>4
<1> QED
  BY <1>1, <1>2 DEF Next, Tick, Append, ReadOld, ReadRecent, FoldDone, LlmWait, LlmCall,
     LlmReturn, Restart, vars, foldVars

\* The inductive invariant is kept by every step.
LEMMA CycleStep == ConsolidationInv /\ [Next]_vars => ConsolidationInv'
  BY CycleTypes, CursorStep, FoldStep, BacklogStep, TopicStep DEF ConsolidationInv

\* What the scheduler has seen, folded, staged and passed with its cursor fits
\* together in every reachable state (scheduler.py run_consolidation).
THEOREM ConsolidationInvariant == Spec => []ConsolidationInv
  BY CycleInit, CycleStep, PTL DEF Spec

\* Cursor, counters and sets of the scheduler stay well formed: the backoff within its
\* limit, the backlog free of events with hints (scheduler.py).
THEOREM CycleTypesCorrect == Spec => []ConsolidationTypeOK
<1>1. ConsolidationInv => ConsolidationTypeOK
  BY DEF ConsolidationInv
<1> QED
  BY <1>1, ConsolidationInvariant, PTL

\* The cursor passes no event unseen, unless it arrived behind a later one: late
\* imports and rows stamped before they are inserted are the only ones at risk.
THEOREM CursorSkipsNothing == Spec => []NothingSkipped
<1>1. ConsolidationInv => NothingSkipped
  BY DEF ConsolidationInv, CursorInv, Covered, NothingSkipped
<1> QED
  BY <1>1, ConsolidationInvariant, PTL

\* Every step records one event, consumes one, shows a batch to the model, begins a
\* new life, or changes nothing that SpineFold sees.
LEMMA FoldRefinementStep ==
  ConsolidationInv /\ [Next]_vars => [Fold!Next]_(Fold!vars)
<1> SUFFICES ASSUME ConsolidationInv, [Next]_vars PROVE [Fold!Next]_(Fold!vars)
  OBVIOUS
<1>t. ConsolidationTypeOK /\ FoldInv /\ BacklogInv
  BY DEF ConsolidationInv
<1>1. ASSUME NEW e \in Event, Append(e) PROVE Fold!Record(e)
  BY <1>1 DEF Append, foldVars, Fold!Record
<1>2. CASE ReadOld \/ ReadRecent \/ FoldDone \/ LlmWait \/ LlmCall
  BY <1>2 DEF ReadOld, ReadRecent, FoldDone, LlmWait, LlmCall, envVars, foldVars, Fold!vars
<1>3. ASSUME FoldOne PROVE \E e \in Event : Fold!Fold(e)
  <2>1. PICK e \in oldTodo \cup newTodo : done' = [done EXCEPT ![e] = @ + 1]
    BY <1>3 DEF FoldOne
  <2>2. e \in Event /\ e \in ledger /\ done[e] = 0
    BY <1>t DEF FoldInv, ConsolidationTypeOK
  <2>3. UNCHANGED <<ledger, shown>>
    BY <1>3 DEF FoldOne, envVars
  <2>4. done' = [done EXCEPT ![e] = 1]
    BY <2>1, <2>2
  <2>5. Fold!Fold(e)
    BY <2>2, <2>3, <2>4 DEF Fold!Fold
  <2> QED
    BY <2>2, <2>5
<1>4. ASSUME LlmReturn PROVE \E S \in SUBSET Event : Fold!Show(S)
  <2>1. \A e \in sent : e \in Event /\ e \in Unhinted /\ done[e] = 1 /\ shown[e] = 0
    BY <1>t, <1>4 DEF LlmReturn, FoldInv, BacklogInv, ConsolidationTypeOK, Unhinted
  <2>2. shown' = [e \in Event |-> IF e \in sent THEN 1 ELSE shown[e]]
    BY <1>4, <2>1 DEF LlmReturn
  <2>3. UNCHANGED <<ledger, done>>
    BY <1>4 DEF LlmReturn, envVars, foldVars
  <2> QED
    BY <2>1, <2>2, <2>3 DEF Fold!Show
<1>5. ASSUME Restart PROVE Fold!Restart
  BY <1>5 DEF Restart, envVars, Fold!Restart, Fold!Never, Never
<1>6. CASE UNCHANGED vars
  BY <1>6 DEF vars, envVars, foldVars, Fold!vars
<1> QED
  BY <1>1, <1>2, <1>3, <1>4, <1>5, <1>6 DEF Next, Tick, Fold!Next

\* The two overlapping reads, the backlog and the restarts of the scheduler implement
\* SpineFold: in one life an event is folded at most once, and shown to the model at
\* most once and after its fold.
THEOREM FoldRefinement == Spec => FoldsOnce
<1>1. Init => Fold!Init
  BY DEF Init, Fold!Init, Fold!Never, Never
<1>2. Spec => Fold!Init /\ [][Fold!Next]_(Fold!vars)
  BY <1>1, ConsolidationInvariant, FoldRefinementStep, PTL DEF Spec
<1> QED
  BY <1>2 DEF FoldsOnce, Fold!Spec

=============================================================================
