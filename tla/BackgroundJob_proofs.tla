------------------------- MODULE BackgroundJob_proofs -------------------------
(***************************************************************************)
(* Proofs about the registry of background jobs, for any numbers of        *)
(* waiters, generations and runs.  Liveness stays with TLC.                *)
(***************************************************************************)
EXTENDS BackgroundJob, FiniteSetTheorems, WellFoundedInduction, TLAPS

USE JobAssumption

------------------------------------------------------------------------------
(* Counting *)

\* The runs that are counted are finitely many.
LEMMA UnsettledFinite ==
  ASSUME NEW g \in Generation
  PROVE  /\ IsFiniteSet(Unsettled(g))
         /\ Cardinality(Unsettled(g)) \in Nat
<1>1. IsFiniteSet(Sequence)
  BY FS_Interval DEF Sequence
<1>2. Unsettled(g) \subseteq Sequence
  BY DEF Unsettled
<1>3. IsFiniteSet(Unsettled(g))
  BY <1>1, <1>2, FS_Subset
<1> QED
  BY <1>3, FS_CardinalityType

\* One more of them, when a run is reserved that was not there.
LEMMA OneMore ==
  ASSUME NEW g \in Generation, NEW s \in Sequence, JobTypeOK,
         run[g][s] = "none", SetRun(g, s, "reserved")
  PROVE  Cardinality(Unsettled(g)') = Cardinality(Unsettled(g)) + 1
<1>1. Unsettled(g)' = Unsettled(g) \cup {s}
  BY DEF JobTypeOK, Unsettled, SetRun
<1>2. s \notin Unsettled(g)
  BY DEF Unsettled
<1> QED
  BY <1>1, <1>2, UnsettledFinite, FS_AddElement

\* One less, when a run settles.
LEMMA OneLess ==
  ASSUME NEW g \in Generation, NEW s \in Sequence, JobTypeOK,
         run[g][s] = "leaving", SetRun(g, s, "gone")
  PROVE  Cardinality(Unsettled(g)') = Cardinality(Unsettled(g)) - 1
<1>1. Unsettled(g)' = Unsettled(g) \ {s}
  BY DEF JobTypeOK, Unsettled, SetRun
<1>2. s \in Unsettled(g)
  BY DEF Unsettled
<1> QED
  BY <1>1, <1>2, UnsettledFinite, FS_RemoveElement

\* The last run to settle leaves nobody behind.
LEMMA LastOne ==
  ASSUME NEW g \in Generation, NEW s \in Sequence,
         s \in Unsettled(g), Cardinality(Unsettled(g)) <= 1
  PROVE  Unsettled(g) = {s}
<1>1. /\ IsFiniteSet(Unsettled(g) \ {s})
      /\ Cardinality(Unsettled(g) \ {s}) = Cardinality(Unsettled(g)) - 1
  BY UnsettledFinite, FS_RemoveElement
<1>2. Cardinality(Unsettled(g) \ {s}) = 0
  BY <1>1, UnsettledFinite, FS_CardinalityType
<1>3. Unsettled(g) \ {s} = {}
  BY <1>1, <1>2, FS_EmptySet
<1> QED
  BY <1>3

------------------------------------------------------------------------------
(* The invariant *)

LEMMA JobInit == Init => JobInv
<1> SUFFICES ASSUME Init PROVE JobInv
  OBVIOUS
<1>1. JobTypeOK
  BY DEF Init, JobTypeOK, NoJob, Job, RunState, Outcome, Ended, Generation, Sequence
<1>2. FutureInv /\ TurnInv
  BY DEF Init, FutureInv, TurnInv
<1>3. CountInv /\ EndInv /\ WholeInv
  BY DEF Init, CountInv, EndInv, WholeInv, NoJob, IsRunning, Ended
<1> QED
  BY <1>1, <1>2, <1>3 DEF JobInv

\* A new generation, of one run that is reserved.
LEMMA StartKeeps == JobInv /\ Start => JobInv'
<1> SUFFICES ASSUME JobInv, Start PROVE JobInv'
  OBVIOUS
<1> USE DEF JobInv
<1>0. PICK n \in Generation : n = job.gen + 1
  BY DEF JobTypeOK, Job, Start, Generation
<1>1. /\ n \in Generation /\ n > job.gen /\ job.gen \in 0..MaxStarts
      /\ 0 \in Sequence
  BY <1>0 DEF JobTypeOK, Job, Generation, Sequence
<1>2. /\ job' = [gen |-> n, status |-> "running", pending |-> 1, next |-> 1,
                 output |-> -1, background |-> FALSE]
      /\ SetRun(n, 0, "reserved")
      /\ UNCHANGED <<outcome, ending, done, closed, waiter>>
  BY <1>0 DEF Start, NoJob
<1>3. /\ run' \in [Generation -> [Sequence -> RunState]]
      /\ \A g \in Generation, s \in Sequence :
           run'[g][s] = IF g = n /\ s = 0 THEN "reserved" ELSE run[g][s]
  BY <1>1, <1>2 DEF JobTypeOK, SetRun, RunState
<1>4. /\ n \notin closed /\ ending[n] = "none" /\ done[n] = "none"
      /\ \A s \in Sequence : run[n][s] = "none" /\ outcome[n][s] = "none"
  BY <1>0, <1>1 DEF FutureInv
<1>5. job' \in Job
  BY <1>1, <1>2 DEF Job, Generation, Ended, Sequence
<1>6. JobTypeOK'
  BY <1>2, <1>3, <1>5 DEF JobTypeOK
<1>7. FutureInv'
  BY <1>0, <1>1, <1>2, <1>3 DEF FutureInv, Generation
<1>8. TurnInv'
  BY <1>1, <1>2, <1>3, <1>4 DEF TurnInv, Sequence
<1>9. CountInv'
  <2>1. Unsettled(n) = {}
    BY <1>4 DEF Unsettled
  <2>2. Cardinality(Unsettled(n)) = 0
    BY <2>1, FS_EmptySet
  <2>3. Cardinality(Unsettled(n)') = 1
    BY <1>1, <1>2, <1>4, <2>2, OneMore
  <2>4. job'.gen = n /\ Unsettled(job.gen)' = Unsettled(n)'
    BY <1>2 DEF Unsettled
  <2>5. \A s \in Sequence : (run'[n][s] = "none" <=> s >= 1) /\ run'[n][s] # "gone"
    <3> SUFFICES ASSUME NEW s \in Sequence
                 PROVE  (run'[n][s] = "none" <=> s >= 1) /\ run'[n][s] # "gone"
      OBVIOUS
    <3>1. CASE s = 0
      BY <1>1, <1>3, <3>1
    <3>2. CASE s # 0
      BY <1>1, <1>3, <1>4, <3>2 DEF Sequence
    <3> QED
      BY <3>1, <3>2
  <2> QED
    BY <1>1, <1>2, <1>4, <2>3, <2>4, <2>5 DEF CountInv, Generation
<1>10. EndInv'
  BY <1>1, <1>2, <1>4 DEF EndInv, IsRunning, Ended, Generation
<1>11. WholeInv'
  BY <1>2 DEF WholeInv
<1> QED
  BY <1>6, <1>7, <1>8, <1>9, <1>10, <1>11

\* A further run of the generation that runs.
LEMMA ExtendKeeps == JobInv /\ Extend => JobInv'
<1> SUFFICES ASSUME JobInv, Extend PROVE JobInv'
  OBVIOUS
<1> USE DEF JobInv
<1>0. PICK g0 \in Generation, n \in Sequence : g0 = job.gen /\ n = job.next
  BY DEF JobTypeOK, Job, Extend, CountInv, Generation, Sequence
<1>1. /\ g0 \in Generation /\ n \in Sequence /\ g0 \notin closed /\ IsRunning
      /\ job.pending \in Nat /\ job.output \in Sequence \cup {-1} /\ job.output < n
      /\ job.pending = Cardinality(Unsettled(g0))
      /\ \A s \in Sequence : run[g0][s] = "none" <=> s >= n
  BY <1>0 DEF JobTypeOK, Job, Extend, CountInv, Generation, Sequence
<1>2. /\ job'.gen = g0 /\ job'.status = "running" /\ job'.pending = job.pending + 1
      /\ job'.next = n + 1 /\ job'.output = job.output
      /\ SetRun(g0, n, "reserved") /\ run[g0][n] = "none"
      /\ UNCHANGED <<outcome, ending, done, closed, waiter>>
  BY <1>0, <1>1 DEF Extend, JobTypeOK, Job, IsRunning, Sequence
<1>3. /\ run' \in [Generation -> [Sequence -> RunState]]
      /\ \A g \in Generation, s \in Sequence :
           run'[g][s] = IF g = g0 /\ s = n THEN "reserved" ELSE run[g][s]
  BY <1>1, <1>2 DEF JobTypeOK, SetRun, RunState
<1>4. job' \in Job
  <2>1. job' = [job EXCEPT !.pending = @ + 1, !.next = @ + 1]
    BY DEF Extend
  <2>2. job.pending + 1 \in Nat /\ job.next + 1 \in 0..MaxRuns /\ job \in Job
    BY <1>0, <1>1 DEF Extend, JobTypeOK, Job, Sequence
  <2> QED
    BY <2>1, <2>2 DEF Job
<1>5. JobTypeOK'
  BY <1>2, <1>3, <1>4 DEF JobTypeOK
<1>6. FutureInv'
  BY <1>0, <1>1, <1>2, <1>3 DEF FutureInv, Generation
<1>7. TurnInv'
  BY <1>1, <1>2, <1>3 DEF TurnInv
<1>8. CountInv'
  <2>1. Cardinality(Unsettled(g0)') = job.pending + 1
    BY <1>1, <1>2, OneMore
  <2>2. Unsettled(job.gen)' = Unsettled(g0)'
    BY <1>2 DEF Unsettled
  <2>3. \A s \in Sequence : run'[g0][s] = "none" <=> s >= n + 1
    <3> SUFFICES ASSUME NEW s \in Sequence PROVE run'[g0][s] = "none" <=> s >= n + 1
      OBVIOUS
    <3>1. s \in Int /\ n \in Int
      BY DEF Sequence
    <3>2. CASE s = n
      BY <1>3, <3>1, <3>2
    <3>3. CASE s # n
      BY <1>1, <1>3, <3>1, <3>3
    <3> QED
      BY <3>2, <3>3
  <2>4. \A s \in Sequence : run'[g0][s] = "gone" =>
           outcome'[g0][s] = "success" /\ s <= job'.output
    BY <1>0, <1>1, <1>2, <1>3 DEF CountInv
  <2> QED
    BY <1>1, <1>2, <2>1, <2>2, <2>3, <2>4 DEF CountInv, Generation, Sequence
<1>9. EndInv'
  BY <1>0, <1>1, <1>2 DEF EndInv, IsRunning, Ended, Generation
<1>10. WholeInv'
  BY <1>2 DEF WholeInv
<1> QED
  BY <1>5, <1>6, <1>7, <1>8, <1>9, <1>10

\* A step of a fiber that the registry does not hear of leaves the counts alone.
LEMMA QuietStep ==
  ASSUME JobInv, NEW g \in Generation, NEW s \in Sequence,
         NEW q \in {"gone", "runs", "waits", "leaving"},
         SetRun(g, s, q), UNCHANGED <<job, ending, done, closed, waiter>>,
         run[g][s] \in {"reserved", "waits", "runs"},
         q = "gone" => g \in closed,
         JobTypeOK', TurnInv',
         outcome' = outcome \/ (q = "leaving" /\ outcome[g][s] = "none"),
         \A h \in Generation, t \in Sequence :
           outcome'[h][t] # outcome[h][t] => h = g /\ t = s
  PROVE  JobInv'
<1> USE DEF JobInv
<1>1. \A h \in Generation, t \in Sequence :
         run'[h][t] = IF h = g /\ t = s THEN q ELSE run[h][t]
  BY DEF JobTypeOK, SetRun
<1>2. g <= job.gen
  <2> SUFFICES ASSUME g > job.gen PROVE FALSE
    BY DEF JobTypeOK, Job, Generation
  <2> QED
    BY DEF FutureInv
<1>3. FutureInv'
  BY <1>1, <1>2 DEF FutureInv, JobTypeOK, Job, Generation
<1>4. CountInv'
  <2> SUFFICES ASSUME IsRunning
               PROVE  CountInv'
    BY DEF CountInv, IsRunning
  <2>1. job.gen \notin closed /\ job.gen \in Generation
    BY DEF CountInv, JobTypeOK, Job, Generation
  <2>2. Unsettled(job.gen)' = Unsettled(job.gen)
    BY <1>1, <2>1 DEF Unsettled
  <2>3. \A t \in Sequence : run'[job.gen][t] = "gone" => 
           run[job.gen][t] = "gone" /\ outcome'[job.gen][t] = outcome[job.gen][t]
    BY <1>1, <2>1
  <2>4. \A t \in Sequence : run'[job.gen][t] = "none" <=> run[job.gen][t] = "none"
    BY <1>1, <2>1
  <2> QED
    BY <2>1, <2>2, <2>3, <2>4 DEF CountInv, IsRunning
<1>5. EndInv'
  BY DEF EndInv, IsRunning
<1>6. WholeInv'
  <2> SUFFICES ASSUME job.status = "completed",
                      NEW t \in 0..(job.next - 1)
               PROVE  /\ job.output = job.next - 1
                      /\ run'[job.gen][t] = "gone" /\ outcome'[job.gen][t] = "success"
    BY DEF WholeInv
  <2>1. job.gen \in Generation /\ t \in Sequence
    BY DEF EndInv, JobTypeOK, Job, Generation, Sequence
  <2> QED
    BY <1>1, <2>1 DEF WholeInv
<1> QED
  BY <1>3, <1>4, <1>5, <1>6

LEMMA ForkKeeps ==
  ASSUME JobInv, NEW g \in Generation, NEW s \in Sequence, Fork(g, s)
  PROVE  JobInv'
<1>1. PICK q \in {"gone", "runs", "waits"} :
        /\ SetRun(g, s, q) /\ (q = "gone" => g \in closed)
        /\ q = "runs" => s = 0
        /\ q = "waits" => s # 0
  BY DEF Fork
<1>2. /\ run[g][s] = "reserved"
      /\ UNCHANGED <<job, outcome, ending, done, closed, waiter>>
  BY DEF Fork
<1>3. /\ run' \in [Generation -> [Sequence -> RunState]]
      /\ \A h \in Generation, t \in Sequence :
           run'[h][t] = IF h = g /\ t = s THEN q ELSE run[h][t]
  BY <1>1 DEF JobInv, JobTypeOK, SetRun, RunState
<1>4. JobTypeOK'
  BY <1>2, <1>3 DEF JobInv, JobTypeOK
<1>5. TurnInv'
  <2> SUFFICES ASSUME NEW h \in Generation, NEW t \in Sequence
               PROVE  /\ run'[h][t] \in {"none", "reserved", "waits", "runs"} => outcome[h][t] = "none"
                      /\ run'[h][t] = "waits" => t > 0
                      /\ run'[h][t] = "leaving" => outcome[h][t] # "none"
                      /\ h \notin closed =>
                           /\ run'[h][t] = "gone" => outcome[h][t] # "none"
                           /\ run'[h][t] \in {"runs", "leaving", "gone"} =>
                                \A u \in Sequence : u < t => outcome[h][u] # "none"
    BY <1>2 DEF TurnInv
  <2>1. CASE ~(h = g /\ t = s)
    BY <1>3, <2>1 DEF JobInv, TurnInv
  <2>2. CASE h = g /\ t = s
    <3>1. run'[h][t] = q /\ outcome[h][t] = "none"
      BY <1>2, <1>3, <2>2 DEF JobInv, TurnInv
    <3>2. \A u \in Sequence : u >= 0 /\ u \in Int
      BY DEF Sequence
    <3> QED
      BY <1>1, <2>2, <3>1, <3>2
  <2> QED
    BY <2>1, <2>2
<1> QED
  BY <1>1, <1>2, <1>4, <1>5, QuietStep

LEMMA BeginKeeps ==
  ASSUME JobInv, NEW g \in Generation, NEW s \in Sequence, Begin(g, s)
  PROVE  JobInv'
<1>1. /\ run[g][s] = "waits" /\ outcome[g][s - 1] # "none" /\ SetRun(g, s, "runs")
      /\ UNCHANGED <<job, outcome, ending, done, closed, waiter>>
  BY DEF Begin
<1>2. /\ run' \in [Generation -> [Sequence -> RunState]]
      /\ \A h \in Generation, t \in Sequence :
           run'[h][t] = IF h = g /\ t = s THEN "runs" ELSE run[h][t]
  BY <1>1 DEF JobInv, JobTypeOK, SetRun, RunState
<1>3. JobTypeOK'
  BY <1>1, <1>2 DEF JobInv, JobTypeOK
<1>4. s > 0 /\ s - 1 \in Sequence
  BY <1>1 DEF JobInv, TurnInv, Sequence
<1>5. g \notin closed => \A t \in Sequence : t < s => outcome[g][t] # "none"
  <2> SUFFICES ASSUME g \notin closed, NEW t \in Sequence, t < s
               PROVE  outcome[g][t] # "none"
    OBVIOUS
  <2>1. run[g][s - 1] \in {"leaving", "gone"}
    BY <1>1, <1>4 DEF JobInv, TurnInv, JobTypeOK, RunState
  <2>2. CASE t = s - 1
    BY <1>1, <2>2
  <2>3. CASE t < s - 1
    BY <1>4, <2>1, <2>3 DEF JobInv, TurnInv
  <2> QED
    BY <1>4, <2>2, <2>3 DEF Sequence
<1>6. TurnInv'
  BY <1>1, <1>2, <1>4, <1>5 DEF JobInv, TurnInv
<1> QED
  BY <1>1, <1>3, <1>6, QuietStep

\* A body that ends, of itself or because its scope is closed.
LEMMA LeaveKeeps ==
  ASSUME JobInv, NEW g \in Generation, NEW s \in Sequence, NEW o \in Outcome,
         run[g][s] = "runs" \/ (run[g][s] = "waits" /\ g \in closed),
         Leave(g, s, o)
  PROVE  JobInv'
<1>1. /\ SetRun(g, s, "leaving") /\ outcome' = [outcome EXCEPT ![g][s] = o]
      /\ UNCHANGED <<job, ending, done, closed, waiter>>
      /\ o # "none"
  BY DEF Leave, Outcome
<1>2. /\ run' \in [Generation -> [Sequence -> RunState]]
      /\ \A h \in Generation, t \in Sequence :
           run'[h][t] = IF h = g /\ t = s THEN "leaving" ELSE run[h][t]
  BY <1>1 DEF JobInv, JobTypeOK, SetRun, RunState
<1>3. /\ outcome' \in [Generation -> [Sequence -> Outcome \cup {"none"}]]
      /\ \A h \in Generation, t \in Sequence :
           outcome'[h][t] = IF h = g /\ t = s THEN o ELSE outcome[h][t]
  BY <1>1 DEF JobInv, JobTypeOK
<1>4. JobTypeOK'
  BY <1>1, <1>2, <1>3 DEF JobInv, JobTypeOK
<1>5. TurnInv'
  BY <1>1, <1>2, <1>3 DEF JobInv, TurnInv
<1>6. outcome[g][s] = "none"
  BY DEF JobInv, TurnInv
<1> QED
  BY <1>1, <1>3, <1>4, <1>5, <1>6, QuietStep

\* What a run that settles leaves, whatever the registry makes of it.
LEMMA SettleTurns ==
  ASSUME JobInv, NEW g \in Generation, NEW s \in Sequence,
         run[g][s] = "leaving", SetRun(g, s, "gone"),
         UNCHANGED <<outcome, done, closed, waiter>>
  PROVE  /\ run' \in [Generation -> [Sequence -> RunState]]
         /\ \A h \in Generation, t \in Sequence :
              run'[h][t] = IF h = g /\ t = s THEN "gone" ELSE run[h][t]
         /\ TurnInv'
         /\ g <= job.gen
<1>1. /\ run' \in [Generation -> [Sequence -> RunState]]
      /\ \A h \in Generation, t \in Sequence :
           run'[h][t] = IF h = g /\ t = s THEN "gone" ELSE run[h][t]
  BY DEF JobInv, JobTypeOK, SetRun, RunState
<1>2. TurnInv'
  BY <1>1 DEF JobInv, TurnInv
<1>3. g <= job.gen
  <2> SUFFICES ASSUME g > job.gen PROVE FALSE
    BY DEF JobInv, JobTypeOK, Job, Generation
  <2> QED
    BY DEF JobInv, FutureInv
<1> QED
  BY <1>1, <1>2, <1>3

\* A run settles: a stranger to the job, one of several, or the one that ends it.
LEMMA SettleKeeps ==
  ASSUME JobInv, NEW g \in Generation, NEW s \in Sequence, Settle(g, s)
  PROVE  JobInv'
<1> USE DEF JobInv
<1>1. /\ run[g][s] = "leaving" /\ SetRun(g, s, "gone")
      /\ UNCHANGED <<outcome, done, closed, waiter>>
  BY DEF Settle
<1>2. /\ run' \in [Generation -> [Sequence -> RunState]]
      /\ \A h \in Generation, t \in Sequence :
           run'[h][t] = IF h = g /\ t = s THEN "gone" ELSE run[h][t]
      /\ TurnInv'
      /\ g <= job.gen
  BY <1>1, SettleTurns
<1>3. outcome[g][s] \in Outcome
  BY <1>1 DEF TurnInv, JobTypeOK
<1>4. CASE job.gen # g \/ ~IsRunning
  <2>1. UNCHANGED <<job, ending>>
    BY <1>4 DEF Settle
  <2>2. JobTypeOK' /\ FutureInv' /\ EndInv'
    BY <1>1, <1>2, <2>1 DEF JobTypeOK, FutureInv, EndInv, IsRunning, Job, Generation
  <2>3. CountInv'
    <3> SUFFICES ASSUME IsRunning PROVE CountInv'
      BY <2>1 DEF CountInv, IsRunning
    <3>1. job.gen # g /\ job.gen \in Generation
      BY <1>4 DEF CountInv, JobTypeOK, Job, Generation
    <3>2. Unsettled(job.gen)' = Unsettled(job.gen)
      BY <1>2, <2>1, <3>1 DEF Unsettled
    <3>3. \A t \in Sequence : run'[job.gen][t] = run[job.gen][t]
      BY <1>2, <3>1
    <3> QED
      BY <1>1, <2>1, <3>1, <3>2, <3>3 DEF CountInv, IsRunning
  <2>4. WholeInv'
    <3> SUFFICES ASSUME job.status = "completed", NEW t \in 0..(job.next - 1)
                 PROVE  /\ job.output = job.next - 1
                        /\ run'[job.gen][t] = "gone" /\ outcome'[job.gen][t] = "success"
      BY <2>1 DEF WholeInv
    <3>1. job.gen \in Generation /\ t \in Sequence
      BY DEF EndInv, JobTypeOK, Job, Generation, Sequence
    <3> QED
      BY <1>1, <1>2, <3>1 DEF WholeInv
  <2> QED
    BY <1>2, <2>2, <2>3, <2>4
<1>5. CASE job.gen = g /\ IsRunning
  <2> DEFINE o == IF outcome[g][s] = "success" /\ s > job.output THEN s ELSE job.output
  <2>1. PICK j \in Job : 
          /\ j = WithOutput(g, s) /\ j.output = o
          /\ j.gen = g /\ j.status = "running" /\ j.next = job.next
          /\ j.pending = job.pending /\ j.background = job.background
    <3>1. WithOutput(g, s) \in Job
      BY DEF WithOutput, JobTypeOK, Job
    <3> QED
      BY <1>5, <3>1 DEF WithOutput, JobTypeOK, Job, IsRunning
  <2>2. /\ g \notin closed /\ job.pending = Cardinality(Unsettled(g))
        /\ job.output < job.next /\ job.output \in Int /\ job.next \in Nat
        /\ \A t \in Sequence :
             /\ run[g][t] = "none" <=> t >= job.next
             /\ run[g][t] = "gone" => outcome[g][t] = "success" /\ t <= job.output
        /\ ending[g] = "none" /\ done[g] = "none"
    BY <1>5 DEF CountInv, EndInv, JobTypeOK, Job, Sequence
  <2>3. /\ s < job.next /\ s \in Int /\ job.output <= o /\ o < job.next /\ o \in Int
        /\ outcome[g][s] = "success" => s <= o
    BY <1>1, <2>2 DEF Sequence
  <2>4. CASE OthersPending(g, s)
    <3>1. /\ job' = [j EXCEPT !.pending = j.pending - 1]
          /\ ending' = ending /\ outcome[g][s] = "success" /\ job.pending > 1
          /\ job.pending \in Nat
      BY <1>5, <2>1, <2>4 DEF Settle, OthersPending, JobTypeOK, Job
    <3>2. /\ job'.gen = g /\ job'.status = "running" /\ job'.next = job.next
          /\ job'.pending = job.pending - 1 /\ job'.output = o
          /\ job' \in Job
      BY <2>1, <3>1 DEF Job
    <3>3. Cardinality(Unsettled(g)') = job.pending - 1
      BY <1>1, <2>2, OneLess
    <3>4. Unsettled(job.gen)' = Unsettled(g)'
      BY <3>2 DEF Unsettled
    <3>5. \A t \in Sequence : (run'[g][t] = "none" <=> t >= job.next)
                              /\ (run'[g][t] = "gone" => outcome'[g][t] = "success" /\ t <= o)
      <4> SUFFICES ASSUME NEW t \in Sequence
                   PROVE  (run'[g][t] = "none" <=> t >= job.next)
                          /\ (run'[g][t] = "gone" => outcome'[g][t] = "success" /\ t <= o)
        OBVIOUS
      <4>1. t \in Int
        BY DEF Sequence
      <4> HIDE DEF o
      <4>2. CASE t = s
        BY <1>1, <1>2, <2>2, <2>3, <3>1, <4>1, <4>2
      <4>3. CASE t # s
        BY <1>1, <1>2, <2>2, <2>3, <4>1, <4>3
      <4> QED
        BY <4>2, <4>3
    <3>6. JobTypeOK'
      BY <1>1, <1>2, <3>1, <3>2 DEF JobTypeOK
    <3> HIDE DEF o
    <3>7. CountInv'
      BY <1>1, <2>2, <2>3, <3>2, <3>3, <3>4, <3>5 DEF CountInv, Generation
    <3>8. FutureInv'
      BY <1>1, <1>2, <1>5, <3>1, <3>2 DEF FutureInv, Generation
    <3>9. EndInv'
      BY <1>1, <2>2, <3>1, <3>2 DEF EndInv, IsRunning, Ended, Generation
    <3>10. WholeInv'
      BY <3>2 DEF WholeInv
    <3> QED
      BY <1>2, <3>6, <3>7, <3>8, <3>9, <3>10
  <2>5. CASE ~OthersPending(g, s)
    <3>1. PICK st \in Ended : st = StatusAfter(outcome[g][s])
      BY DEF StatusAfter, Ended
    <3>2. /\ job' = [j EXCEPT !.status = st, !.pending = 0]
          /\ ending' = [ending EXCEPT ![g] = st]
      BY <1>5, <2>1, <2>5, <3>1 DEF Settle, End
    <3>3. /\ job'.gen = g /\ job'.status = st /\ job'.next = job.next
          /\ job'.pending = 0 /\ job'.output = o /\ job' \in Job
      BY <2>1, <3>2 DEF Job
    <3>4. /\ ending' \in [Generation -> Ended \cup {"none"}]
          /\ \A h \in Generation : ending'[h] = IF h = g THEN st ELSE ending[h]
      BY <3>2 DEF JobTypeOK
    <3>5. JobTypeOK'
      BY <1>1, <1>2, <3>3, <3>4 DEF JobTypeOK
    <3> HIDE DEF o
    <3>6. CountInv'
      BY <3>3 DEF CountInv, IsRunning, Ended
    <3>7. FutureInv'
      BY <1>1, <1>2, <1>5, <3>3, <3>4 DEF FutureInv, Generation
    <3>8. EndInv'
      BY <1>1, <2>2, <3>1, <3>3, <3>4 DEF EndInv, IsRunning, Ended, Generation
    <3>9. WholeInv'
      <4> SUFFICES ASSUME st = "completed" PROVE WholeInv'
        BY <3>3 DEF WholeInv
      <4>1. outcome[g][s] = "success"
        BY <1>3, <3>1 DEF StatusAfter, Outcome
      <4>2. Cardinality(Unsettled(g)) <= 1
        BY <2>2, <2>5, <4>1, UnsettledFinite DEF OthersPending
      <4>3. s \in Unsettled(g)
        BY <1>1 DEF Unsettled
      <4>4. Unsettled(g) = {s}
        BY <4>2, <4>3, LastOne
      <4>5. \A t \in Sequence : t < job.next /\ t # s => run[g][t] = "gone"
        <5> SUFFICES ASSUME NEW t \in Sequence, t < job.next, t # s
                     PROVE  run[g][t] = "gone"
          OBVIOUS
        <5>1. t \notin Unsettled(g) /\ t \in Int
          BY <4>4 DEF Sequence
        <5>2. run[g][t] # "none"
          BY <2>2, <5>1
        <5> QED
          BY <5>1, <5>2 DEF Unsettled, JobTypeOK, RunState
      <4>6. \A t \in Sequence : t < job.next =>
               run'[g][t] = "gone" /\ outcome'[g][t] = "success" /\ t <= o
        <5> SUFFICES ASSUME NEW t \in Sequence, t < job.next
                     PROVE  run'[g][t] = "gone" /\ outcome'[g][t] = "success" /\ t <= o
          OBVIOUS
        <5>1. t \in Int
          BY DEF Sequence
        <5>2. CASE t = s
          BY <1>1, <1>2, <2>3, <4>1, <5>2
        <5>3. CASE t # s
          BY <1>1, <1>2, <2>2, <2>3, <4>5, <5>1, <5>3
        <5> QED
          BY <5>2, <5>3
      <4>7. job.next - 1 \in Sequence /\ job.next - 1 < job.next
        BY <2>2, <2>3 DEF JobTypeOK, Job, Sequence
      <4>8. o = job.next - 1
        BY <2>2, <2>3, <4>6, <4>7
      <4>9. \A t \in 0..(job.next - 1) : t \in Sequence /\ t < job.next
        BY <2>2, <4>7 DEF Sequence
      <4> QED
        BY <3>3, <4>6, <4>8, <4>9 DEF WholeInv
    <3> QED
      BY <1>2, <3>5, <3>6, <3>7, <3>8, <3>9
  <2> QED
    BY <2>4, <2>5
<1> QED
  BY <1>4, <1>5

LEMMA CancelKeeps == JobInv /\ Cancel => JobInv'
<1> SUFFICES ASSUME JobInv, Cancel PROVE JobInv'
  OBVIOUS
<1> USE DEF JobInv
<1>1. /\ IsRunning /\ job' = [job EXCEPT !.status = "cancelled", !.pending = 0]
      /\ ending' = [ending EXCEPT ![job.gen] = "cancelled"]
      /\ UNCHANGED <<run, outcome, done, closed, waiter>>
  BY DEF Cancel, End
<1>2. /\ job'.gen = job.gen /\ job'.status = "cancelled" /\ job' \in Job
      /\ job.gen \in Generation
  <2>1. job.gen \in Generation
    BY <1>1 DEF JobTypeOK, Job, CountInv, Generation
  <2>2. "cancelled" \in {"none", "running"} \cup Ended
    BY DEF Ended
  <2> QED
    BY <1>1, <2>1, <2>2 DEF JobTypeOK, Job
<1>3. /\ ending' \in [Generation -> Ended \cup {"none"}]
      /\ \A h \in Generation : ending'[h] = IF h = job.gen THEN "cancelled" ELSE ending[h]
  BY <1>1 DEF JobTypeOK, Ended
<1>4. JobTypeOK' /\ TurnInv' /\ FutureInv'
  BY <1>1, <1>2, <1>3 DEF JobTypeOK, TurnInv, FutureInv, Generation
<1>5. CountInv' /\ WholeInv'
  BY <1>2 DEF CountInv, WholeInv, IsRunning
<1>6. EndInv'
  BY <1>1, <1>2, <1>3 DEF EndInv, IsRunning, Ended, Generation
<1> QED
  BY <1>4, <1>5, <1>6

LEMMA PromoteKeeps == JobInv /\ Promote => JobInv'
<1> SUFFICES ASSUME JobInv, Promote PROVE JobInv'
  OBVIOUS
<1> USE DEF JobInv
<1>1. /\ IsRunning /\ job' = [job EXCEPT !.background = TRUE]
      /\ UNCHANGED <<run, outcome, ending, done, closed, waiter>>
  BY DEF Promote
<1>2. /\ job' \in Job /\ job'.gen = job.gen /\ job'.status = job.status
      /\ job'.pending = job.pending /\ job'.next = job.next /\ job'.output = job.output
  BY <1>1 DEF JobTypeOK, Job
<1>3. JobTypeOK' /\ TurnInv' /\ FutureInv'
  BY <1>1, <1>2 DEF JobTypeOK, TurnInv, FutureInv
<1>4. Unsettled(job.gen)' = Unsettled(job.gen)
  BY <1>1, <1>2 DEF Unsettled
<1>5. CountInv' /\ WholeInv' /\ EndInv'
  BY <1>1, <1>2, <1>4 DEF CountInv, WholeInv, EndInv, IsRunning
<1> QED
  BY <1>3, <1>5

LEMMA AnnounceKeeps ==
  ASSUME JobInv, NEW g \in Generation, Announce(g)
  PROVE  JobInv'
<1> USE DEF JobInv
<1>1. /\ ending[g] # "none" /\ closed' = closed \cup {g}
      /\ UNCHANGED <<job, run, outcome, waiter>>
  BY DEF Announce
<1>2. /\ done' \in [Generation -> Ended \cup {"none"}]
      /\ ending' \in [Generation -> Ended \cup {"none"}]
      /\ \A h \in Generation : done'[h] = IF h = g THEN ending[g] ELSE done[h]
      /\ \A h \in Generation : ending'[h] = IF h = g THEN "none" ELSE ending[h]
  BY DEF Announce, JobTypeOK
<1>3. ~(g > job.gen) /\ ~(IsRunning /\ job.gen = g)
  BY <1>1 DEF FutureInv, EndInv
<1>4. JobTypeOK'
  BY <1>1, <1>2 DEF JobTypeOK
<1>5. TurnInv' /\ FutureInv' /\ WholeInv'
  BY <1>1, <1>2, <1>3 DEF TurnInv, FutureInv, WholeInv
<1>6. Unsettled(job.gen)' = Unsettled(job.gen)
  BY <1>1 DEF Unsettled
<1>7. CountInv'
  BY <1>1, <1>3, <1>6 DEF CountInv, IsRunning
<1>8. EndInv'
  <2>1. job.gen > 0 => job.gen \in Generation
    BY DEF JobTypeOK, Job, Generation
  <2>2. job.status # "none" => job.gen > 0
    BY DEF EndInv, JobTypeOK, Job
  <2> QED
    BY <1>1, <1>2, <1>3, <2>1, <2>2 DEF EndInv, IsRunning, Ended
<1> QED
  BY <1>4, <1>5, <1>7, <1>8

\* Who waits, is told or gives up changes nothing of the job.
LEMMA WaiterKeeps ==
  ASSUME JobInv, NEW w \in Waiter, Wait(w) \/ Answer(w) \/ TimeOut(w)
  PROVE  JobInv'
<1> USE DEF JobInv
<1>1. UNCHANGED <<job, run, outcome, ending, done, closed>>
  BY DEF Wait, Answer, TimeOut
<1>2. PICK x \in [gen : 0..MaxStarts, told : {"nothing", "waits", "timedOut"} \cup Ended] :
        waiter' = [waiter EXCEPT ![w] = x] /\ (x.told = "waits" => x.gen > 0)
  <2>1. CASE Wait(w)
    <3> DEFINE x == [gen |-> job.gen, told |-> IF IsRunning THEN "waits" ELSE job.status]
    <3>1. waiter' = [waiter EXCEPT ![w] = x] /\ job.gen > 0
      BY <2>1 DEF Wait
    <3>2. job.status \in {"running"} \cup Ended /\ job.gen \in 0..MaxStarts
      BY <3>1 DEF JobTypeOK, Job, EndInv
    <3>3. x \in [gen : 0..MaxStarts, told : {"nothing", "waits", "timedOut"} \cup Ended]
      BY <3>2 DEF IsRunning
    <3> QED
      BY <3>1, <3>3
  <2>2. CASE Answer(w)
    <3> DEFINE x == [waiter[w] EXCEPT !.told = done[waiter[w].gen]]
    <3>1. waiter' = [waiter EXCEPT ![w] = x] /\ done[waiter[w].gen] # "none"
          /\ waiter[w].told = "waits"
      BY <2>2 DEF Answer, Tell, JobTypeOK
    <3>2. waiter[w].gen \in Generation
      BY <3>1 DEF EndInv, JobTypeOK, Generation
    <3>3. done[waiter[w].gen] \in Ended
      BY <3>1, <3>2 DEF JobTypeOK
    <3>4. x \in [gen : 0..MaxStarts, told : {"nothing", "waits", "timedOut"} \cup Ended]
          /\ x.told = done[waiter[w].gen]
      BY <3>3 DEF JobTypeOK
    <3>5. x.told # "waits"
      BY <3>3, <3>4 DEF Ended
    <3> HIDE DEF x
    <3> QED
      BY <3>1, <3>4, <3>5
  <2>3. CASE TimeOut(w)
    <3> DEFINE x == [waiter[w] EXCEPT !.told = "timedOut"]
    <3>1. waiter' = [waiter EXCEPT ![w] = x]
      BY <2>3 DEF TimeOut, Tell, JobTypeOK
    <3>2. x \in [gen : 0..MaxStarts, told : {"nothing", "waits", "timedOut"} \cup Ended]
          /\ x.told = "timedOut"
      BY DEF JobTypeOK
    <3> HIDE DEF x
    <3> QED
      BY <3>1, <3>2
  <2> QED
    BY <2>1, <2>2, <2>3
<1>3. \A v \in Waiter : waiter'[v] = IF v = w THEN x ELSE waiter[v]
  BY <1>2 DEF JobTypeOK
<1>4. JobTypeOK'
  BY <1>1, <1>2 DEF JobTypeOK
<1>5. FutureInv' /\ TurnInv' /\ WholeInv'
  BY <1>1 DEF FutureInv, TurnInv, WholeInv
<1>6. Unsettled(job.gen)' = Unsettled(job.gen)
  BY <1>1 DEF Unsettled
<1>7. CountInv'
  BY <1>1, <1>6 DEF CountInv, IsRunning
<1>8. EndInv'
  BY <1>1, <1>2, <1>3 DEF EndInv, IsRunning
<1> QED
  BY <1>4, <1>5, <1>7, <1>8

LEMMA JobStep == JobInv /\ [Next]_vars => JobInv'
<1> SUFFICES ASSUME JobInv, [Next]_vars PROVE JobInv'
  OBVIOUS
<1>1. CASE Start
  BY <1>1, StartKeeps
<1>2. CASE Extend
  BY <1>2, ExtendKeeps
<1>3. CASE Cancel
  BY <1>3, CancelKeeps
<1>4. CASE Promote
  BY <1>4, PromoteKeeps
<1>5. ASSUME NEW g \in Generation, Announce(g) PROVE JobInv'
  BY <1>5, AnnounceKeeps
<1>6. ASSUME NEW g \in Generation, NEW s \in Sequence, FiberStep(g, s) PROVE JobInv'
  <2>1. CASE Fork(g, s)
    BY <2>1, ForkKeeps
  <2>2. CASE Begin(g, s)
    BY <2>2, BeginKeeps
  <2>3. CASE BodyEnds(g, s)
    BY <2>3, LeaveKeeps DEF BodyEnds
  <2>4. CASE IsInterrupted(g, s)
    <3>1. "interrupted" \in Outcome
      BY DEF Outcome
    <3> QED
      BY <2>4, <3>1, LeaveKeeps DEF IsInterrupted
  <2>5. CASE Settle(g, s)
    BY <2>5, SettleKeeps
  <2> QED
    BY <1>6, <2>1, <2>2, <2>3, <2>4, <2>5 DEF FiberStep
<1>7. ASSUME NEW w \in Waiter, Wait(w) \/ Answer(w) \/ TimeOut(w) PROVE JobInv'
  BY <1>7, WaiterKeeps
<1>8. CASE UNCHANGED vars
  <2>1. Unsettled(job.gen)' = Unsettled(job.gen)
    BY <1>8 DEF vars, Unsettled
  <2> QED
    BY <1>8, <2>1 DEF vars, JobInv, JobTypeOK, FutureInv, TurnInv, CountInv, EndInv,
                      WholeInv, IsRunning
<1> QED
  BY <1>1, <1>2, <1>3, <1>4, <1>5, <1>6, <1>7, <1>8 DEF Next

------------------------------------------------------------------------------
(* Who waits *)

LEMMA HeldInit == Init => HeldInv
  BY DEF Init, HeldInv, NoJob, IsRunning, Generation

\* A count is taken down to nothing only by an end, and a generation follows only one
\* that has ended.
LEMMA HeldStep == JobInv /\ HeldInv /\ [Next]_vars => HeldInv'
<1> SUFFICES ASSUME JobInv, HeldInv, [Next]_vars PROVE HeldInv'
  OBVIOUS
<1>1. job \in Job /\ job.gen \in Nat /\ job.pending \in Nat
  BY DEF JobInv, JobTypeOK, Job
<1>2. ASSUME job'.gen = job.gen, IsRunning' => job'.pending > 0,
             UNCHANGED waiter,
             \A g \in Generation : ending[g] # "none" => ending'[g] # "none" \/ done'[g] # "none",
             \A g \in Generation : done[g] # "none" => done'[g] # "none"
      PROVE  HeldInv'
  BY <1>2 DEF HeldInv
<1>3. CASE Start
  <2>1. /\ ~IsRunning /\ job'.gen = job.gen + 1 /\ job'.pending = 1
        /\ UNCHANGED <<ending, done, waiter>>
    BY <1>3 DEF Start, NoJob
  <2>2. job.gen > 0 => ending[job.gen] # "none" \/ done[job.gen] # "none"
    BY <1>1, <2>1 DEF JobInv, EndInv, JobTypeOK, Job, IsRunning, Ended
  <2>3. ASSUME NEW g \in Generation, g < job'.gen
        PROVE  ending[g] # "none" \/ done[g] # "none"
    BY <1>1, <2>1, <2>2, <2>3 DEF HeldInv, Generation
  <2>4. ASSUME NEW w \in Waiter, waiter[w].told = "waits"
        PROVE  waiter[w].gen <= job'.gen
    BY <1>1, <2>1, <2>4 DEF HeldInv, JobInv, JobTypeOK
  <2>5. QED  BY <2>1, <2>3, <2>4 DEF HeldInv
<1>4. CASE Extend \/ Cancel \/ Promote
  <2>1. /\ job'.gen = job.gen
        /\ IsRunning' => job'.pending > 0
        /\ UNCHANGED <<done, waiter>>
    <3>1. CASE Extend
      BY <1>1, <3>1 DEF Extend, Job
    <3>2. CASE Cancel
      BY <1>1, <3>2 DEF Cancel, End, IsRunning, Job
    <3>3. CASE Promote
      BY <1>1, <3>3 DEF Promote, IsRunning, HeldInv, Job
    <3>4. QED  BY <1>4, <3>1, <3>2, <3>3
  <2>2. \A g \in Generation : ending[g] # "none" => ending'[g] # "none"
    <3>1. ending' = ending \/ ending' = [ending EXCEPT ![job.gen] = "cancelled"]
      BY <1>4 DEF Extend, Cancel, Promote, End
    <3>2. QED  BY <3>1 DEF JobInv, JobTypeOK
  <2>3. QED  BY <1>2, <2>1, <2>2
<1>5. ASSUME NEW g \in Generation, Announce(g) PROVE HeldInv'
  BY <1>2, <1>5 DEF Announce, JobInv, JobTypeOK, HeldInv, IsRunning
<1>6. ASSUME NEW g \in Generation, NEW s \in Sequence, FiberStep(g, s) PROVE HeldInv'
  <2>1. CASE Fork(g, s) \/ Begin(g, s) \/ BodyEnds(g, s) \/ IsInterrupted(g, s)
    <3>1. UNCHANGED <<job, ending, done, waiter>>
      BY <2>1 DEF Fork, Begin, BodyEnds, IsInterrupted, Leave
    <3>2. QED  BY <3>1 DEF HeldInv, IsRunning
  <2>2. CASE Settle(g, s)
    <3>1. UNCHANGED <<done, waiter>>
      BY <2>2 DEF Settle
    <3>2. CASE job.gen # g \/ ~IsRunning
      BY <1>2, <2>2, <3>1, <3>2 DEF Settle, HeldInv, IsRunning
    <3>3. CASE job.gen = g /\ IsRunning /\ OthersPending(g, s)
      <4>1. job' = [WithOutput(g, s) EXCEPT !.pending = @ - 1] /\ UNCHANGED ending
        BY <2>2, <3>3 DEF Settle
      <4>2. job'.gen = job.gen /\ job'.pending = job.pending - 1
        BY <1>1, <4>1 DEF WithOutput, Job
      <4>3. QED  BY <1>1, <1>2, <3>1, <3>3, <4>1, <4>2 DEF OthersPending
    <3>4. CASE job.gen = g /\ IsRunning /\ ~OthersPending(g, s)
      <4>1. PICK st \in Ended : st = StatusAfter(outcome[g][s])
        BY DEF StatusAfter, Ended
      <4>2. /\ job' = [WithOutput(g, s) EXCEPT !.status = st, !.pending = 0]
            /\ ending' = [ending EXCEPT ![WithOutput(g, s).gen] = st]
        BY <2>2, <3>4, <4>1 DEF Settle, End
      <4>3. job'.gen = job.gen /\ job'.status = st
        BY <1>1, <4>2 DEF WithOutput, Job
      <4>4. ~IsRunning' /\ st # "none"
        BY <4>1, <4>3 DEF IsRunning, Ended
      <4>5. \A h \in Generation : ending[h] # "none" => ending'[h] # "none"
        BY <4>2, <4>4 DEF JobInv, JobTypeOK
      <4>6. QED  BY <1>2, <3>1, <4>3, <4>4, <4>5
    <3>5. QED  BY <3>2, <3>3, <3>4
  <2>3. QED  BY <1>6, <2>1, <2>2 DEF FiberStep
<1>7. ASSUME NEW w \in Waiter, Wait(w) \/ Answer(w) \/ TimeOut(w) PROVE HeldInv'
  <2>1. UNCHANGED <<job, ending, done>>
    BY <1>7 DEF Wait, Answer, TimeOut
  <2>2. ASSUME NEW v \in Waiter, waiter'[v].told = "waits"
        PROVE  waiter'[v].gen <= job.gen
    <3>1. CASE Wait(w)
      <4>1. waiter'[v] = waiter[v] \/ waiter'[v].gen = job.gen
        BY <3>1 DEF Wait, JobInv, JobTypeOK
      <4>2. QED  BY <1>1, <2>2, <4>1 DEF HeldInv
    <3>2. CASE Answer(w)
      <4>1. waiter[w].gen \in Generation
        BY <3>2 DEF Answer, JobInv, EndInv, JobTypeOK, Generation
      <4>2. done[waiter[w].gen] # "waits"
        BY <4>1 DEF JobInv, JobTypeOK, Ended
      <4>3. waiter'[v] = waiter[v]
        BY <2>2, <3>2, <4>2 DEF Answer, Tell, JobInv, JobTypeOK
      <4>4. QED  BY <2>2, <4>3 DEF HeldInv
    <3>3. CASE TimeOut(w)
      <4>1. waiter'[v] = waiter[v]
        BY <2>2, <3>3 DEF TimeOut, Tell, JobInv, JobTypeOK
      <4>2. QED  BY <2>2, <4>1 DEF HeldInv
    <3>4. QED  BY <1>7, <3>1, <3>2, <3>3
  <2>3. QED  BY <2>1, <2>2 DEF HeldInv, IsRunning
<1>8. CASE UNCHANGED vars
  BY <1>8 DEF vars, HeldInv, IsRunning
<1>9. QED  BY <1>3, <1>4, <1>5, <1>6, <1>7, <1>8 DEF Next

\* Some number in a set is the smallest: the intervals below its members are finite
\* sets, and one of them has no other strictly within it.
LEMMA SmallestMember ==
  ASSUME NEW T \in SUBSET Nat, T # {}
  PROVE  \E s \in T : \A t \in T : s <= t
<1> DEFINE B == {0..t : t \in T}
<1>1. B \subseteq FiniteSubsetsOf(Nat)
  <2>1. ASSUME NEW t \in T PROVE 0..t \in FiniteSubsetsOf(Nat)
    <3>1. t \in Nat /\ 0 \in Int /\ t \in Int
      OBVIOUS
    <3>2. IsFiniteSet(0..t)
      BY <3>1, FS_Interval
    <3>3. QED  BY <3>1, <3>2 DEF FiniteSubsetsOf
  <2>2. QED  BY <2>1
<1>2. IsWellFoundedOn(StrictSubsetOrdering(Nat), FiniteSubsetsOf(Nat))
  BY FS_StrictSubsetOrderingWellFounded
<1>3. B # {}
  OBVIOUS
<1>4. \E x \in B : \A y \in B : <<y, x>> \notin StrictSubsetOrdering(Nat)
  <2> HIDE DEF B
  <2>1. QED  BY <1>1, <1>2, <1>3, WFMin
<1>5. PICK s \in T : \A t \in T : <<0..t, 0..s>> \notin StrictSubsetOrdering(Nat)
  BY <1>4
<1>6. ASSUME NEW t \in T, ~(s <= t) PROVE FALSE
  <2>1. t \in Nat /\ s \in Nat /\ t < s
    BY <1>6
  <2>2. 0..t \subseteq 0..s /\ s \in 0..s /\ s \notin 0..t
    BY <2>1
  <2>3. <<0..t, 0..s>> \in StrictSubsetOrdering(Nat)
    BY <2>1, <2>2 DEF StrictSubsetOrdering
  <2>4. QED  BY <1>5, <2>3
<1>7. QED  BY <1>6

\* Of the runs that a job counts, the first can always move: the runs before it have
\* settled, so what it may be waiting for has an outcome.
LEMMA FirstRunMoves ==
  ASSUME JobInv, HeldInv, IsRunning
  PROVE  \E s \in Sequence :
           \/ run[job.gen][s] \in {"reserved", "runs", "leaving"}
           \/ run[job.gen][s] = "waits" /\ outcome[job.gen][s - 1] # "none"
<1>1. PICK g \in Generation : g = job.gen
  BY DEF JobInv, CountInv, JobTypeOK, Job, Generation
<1>2. Unsettled(g) # {}
  <2>1. Cardinality(Unsettled(g)) > 0
    BY <1>1 DEF JobInv, CountInv, HeldInv
  <2>2. QED  BY <2>1, FS_EmptySet
<1>3. Unsettled(g) \in SUBSET Nat
  BY DEF Unsettled, Sequence
<1>4. PICK s \in Unsettled(g) : \A t \in Unsettled(g) : s <= t
  BY <1>2, <1>3, SmallestMember
<1>5. s \in Sequence /\ run[g][s] \in {"reserved", "waits", "runs", "leaving"}
  BY DEF Unsettled
<1>6. CASE run[g][s] # "waits"
  BY <1>1, <1>5, <1>6
<1>7. CASE run[g][s] = "waits"
  <2>1. s - 1 \in Sequence /\ s \in Int
    BY <1>5, <1>7 DEF JobInv, TurnInv, Sequence
  <2>2. run[g][s - 1] = "gone"
    <3>1. s - 1 \notin Unsettled(g)
      BY <1>4, <2>1
    <3>2. ~(s >= job.next) /\ job.next \in Int
      BY <1>1, <1>5 DEF JobInv, CountInv, JobTypeOK, Job
    <3>3. run[g][s - 1] # "none"
      BY <1>1, <2>1, <3>2 DEF JobInv, CountInv
    <3>4. QED  BY <2>1, <3>1, <3>3 DEF Unsettled, JobInv, JobTypeOK, RunState
  <2>3. outcome[g][s - 1] = "success"
    BY <1>1, <2>1, <2>2 DEF JobInv, CountInv
  <2>4. QED  BY <1>1, <1>5, <1>7, <2>3
<1>8. QED  BY <1>6, <1>7

------------------------------------------------------------------------------
(* Theorems *)

\* The registry counts the runs that have yet to settle, and no generation is
\* decided twice (background-job.ts:130-170).
THEOREM JobInvariant == Spec => []JobInv
<1> QED
  BY JobInit, JobStep, PTL DEF Spec

\* A completed job is a job all of whose runs succeeded (background-job.ts:137-149).
THEOREM CompletedIsComplete == Spec => []CompletedIsWhole
<1>1. JobInv => CompletedIsWhole
  BY DEF JobInv, WholeInv, CompletedIsWhole
<1> QED
  BY JobInvariant, <1>1, PTL

\* Runs of an open generation never overlap (background-job.ts:281-284).
THEOREM RunsNeverOverlap == Spec => []RunsTakeTurns
<1>1. JobInv => RunsTakeTurns
  <2> SUFFICES ASSUME JobInv, NEW g \in Generation \ closed,
                      NEW s \in Sequence, NEW t \in Sequence,
                      run[g][s] = "runs", run[g][t] = "runs", s < t
               PROVE  FALSE
    BY DEF RunsTakeTurns, Sequence
  <2> QED
    BY DEF JobInv, TurnInv
<1> QED
  BY JobInvariant, <1>1, PTL

\* Whoever settles or cancels, an end is final and told alike (background-job.ts:135-136, 341).
THEOREM EndsAreFinal == Spec => EndsOnce
<1> DEFINE Kept ==
      /\ \A g \in Generation : done[g] # "none" => done'[g] = done[g]
      /\ \A w \in Waiter : waiter'[w].told \in Ended /\ waiter'[w].told # waiter[w].told =>
            \/ done'[waiter'[w].gen] = waiter'[w].told
            \/ ending'[waiter'[w].gen] = waiter'[w].told
      /\ job.status \in Ended /\ job'.gen = job.gen => job' = job
<1>1. JobInv /\ [Next]_vars => [Kept]_vars
  <2> SUFFICES ASSUME JobInv, Next PROVE Kept
    OBVIOUS
  <2>1. CASE Start \/ Extend \/ Cancel \/ Promote
    <3>1. UNCHANGED <<done, waiter>>
      BY <2>1 DEF Start, Extend, Cancel, Promote
    <3>2. job.status \in Ended => Start
      BY <2>1 DEF Extend, Cancel, Promote, IsRunning, Ended
    <3>3. Start => job'.gen # job.gen
      BY DEF Start, NoJob, JobInv, JobTypeOK, Job
    <3> QED
      BY <3>1, <3>2, <3>3
  <2>2. ASSUME NEW g \in Generation, Announce(g) PROVE Kept
    BY <2>2 DEF Announce, JobInv, EndInv, JobTypeOK
  <2>3. ASSUME NEW g \in Generation, NEW s \in Sequence, FiberStep(g, s) PROVE Kept
    <3>1. UNCHANGED <<done, waiter>>
      BY <2>3 DEF FiberStep, Fork, Begin, BodyEnds, IsInterrupted, Leave, Settle
    <3>2. ~IsRunning => job' = job
      BY <2>3 DEF FiberStep, Fork, Begin, BodyEnds, IsInterrupted, Leave, Settle
    <3>3. job.status \in Ended => ~IsRunning
      BY DEF IsRunning, Ended
    <3> QED
      BY <3>1, <3>2, <3>3
  <2>4. ASSUME NEW w \in Waiter, Wait(w) \/ Answer(w) \/ TimeOut(w) PROVE Kept
    <3>1. UNCHANGED <<job, ending, done>>
      BY <2>4 DEF Wait, Answer, TimeOut
    <3> SUFFICES ASSUME NEW v \in Waiter, waiter'[v].told \in Ended,
                        waiter'[v].told # waiter[v].told
                 PROVE  waiter'[v].told \in {done[waiter'[v].gen], ending[waiter'[v].gen]}
      BY <3>1
    <3>2. CASE Wait(w)
      <4>1. v = w /\ waiter'[v].gen = job.gen
            /\ waiter'[v].told = IF IsRunning THEN "waits" ELSE job.status
        BY <3>2 DEF Wait, JobInv, JobTypeOK
      <4>2. waiter'[v].told = job.status /\ job.status \in Ended
        BY <4>1 DEF Ended
      <4> QED
        BY <4>1, <4>2 DEF JobInv, EndInv
    <3>3. CASE Answer(w)
      <4>1. v = w /\ waiter'[v].gen = waiter[v].gen
            /\ waiter'[v].told = done[waiter[v].gen]
        BY <3>3 DEF Answer, Tell, JobInv, JobTypeOK
      <4> QED
        BY <4>1
    <3>4. CASE TimeOut(w)
      <4>1. waiter'[v].told \in {"timedOut", waiter[v].told}
        BY <3>4 DEF TimeOut, Tell, JobInv, JobTypeOK
      <4> QED
        BY <4>1 DEF Ended
    <3> QED
      BY <2>4, <3>2, <3>3, <3>4
  <2> QED
    BY <2>1, <2>2, <2>3, <2>4 DEF Next
<1>2. Spec => [][Kept]_vars
  BY JobInvariant, <1>1, PTL DEF Spec
<1> QED
  BY <1>2 DEF EndsOnce

\* Whoever waits has an end that is on its way, or a fiber that can move: runs do not
\* wait for each other in vain (background-job.ts:137-149, 281-284).
THEOREM WaitersHaveMover == Spec => []NobodyWaitsInVain
<1>1. JobInv /\ HeldInv => NobodyWaitsInVain
  <2> SUFFICES ASSUME JobInv, HeldInv, NEW w \in Waiter, waiter[w].told = "waits"
               PROVE  \/ ending[waiter[w].gen] # "none" \/ done[waiter[w].gen] # "none"
                      \/ \E s \in Sequence :
                           \/ run[waiter[w].gen][s] \in {"reserved", "runs", "leaving"}
                           \/ run[waiter[w].gen][s] = "waits" /\ outcome[waiter[w].gen][s - 1] # "none"
    BY DEF NobodyWaitsInVain
  <2>1. waiter[w].gen \in Generation /\ waiter[w].gen <= job.gen /\ job.gen \in Nat
    BY DEF JobInv, EndInv, HeldInv, JobTypeOK, Job, Generation
  <2>2. CASE waiter[w].gen < job.gen
    BY <2>1, <2>2 DEF HeldInv
  <2>3. CASE waiter[w].gen = job.gen /\ IsRunning
    BY <2>3, FirstRunMoves
  <2>4. CASE waiter[w].gen = job.gen /\ ~IsRunning
    <3>1. job.status \in Ended
      BY <2>1, <2>4 DEF JobInv, EndInv, JobTypeOK, Job, IsRunning, Generation
    <3>2. QED  BY <2>4, <3>1 DEF JobInv, EndInv, Ended
  <2>5. QED  BY <2>1, <2>2, <2>3, <2>4 DEF Generation
<1>2. Spec => [](JobInv /\ HeldInv)
  BY JobInit, JobStep, HeldInit, HeldStep, PTL DEF Spec
<1> QED
  BY <1>1, <1>2, PTL

===============================================================================
