----------------------------- MODULE BackgroundJob -----------------------------
(***************************************************************************)
(* The registry of background jobs (background-job.ts), for one job id.    *)
(* A job is started, extended with further runs that take their turn, and  *)
(* ends when the last run has settled, when one fails, or when it is       *)
(* cancelled; then it may be started again under the same id, and fibers   *)
(* of the old generation may still be on their way out.                    *)
(*                                                                         *)
(* A run lets its successor begin before it settles itself, so that runs   *)
(* settle in any order.  The registry is changed in one step, and who      *)
(* waits for the job is told, and its scope closed, in a later one.        *)
(***************************************************************************)
EXTENDS Integers, FiniteSets

CONSTANTS
  Waiter,     \* fibers that wait for the job
  MaxStarts,  \* generations of the job
  MaxRuns     \* runs of one generation

ASSUME JobAssumption == MaxStarts \in Nat \ {0} /\ MaxRuns \in Nat \ {0}

Generation == 1..MaxStarts
Sequence == 0..(MaxRuns - 1)

VARIABLES
  job,      \* the registry's entry, gen 0 before the first start
  run,      \* where the fiber of each run of each generation stands
  outcome,  \* how the body of a run ended
  ending,   \* what the fiber that ended a generation has yet to announce
  done,     \* what the waiters of a generation are told
  closed,   \* scopes of generations that are closed: their fibers are interrupted
  waiter    \* what each waiter waits for, or has been told

vars == <<job, run, outcome, ending, done, closed, waiter>>

Ended == {"completed", "error", "cancelled"}
Outcome == {"success", "failed", "interrupted"}

Job == [gen     : 0..MaxStarts,
        status  : {"none", "running"} \cup Ended,
        pending : Nat,
        next    : 0..MaxRuns,
        output  : Sequence \cup {-1},
        background : BOOLEAN]

NoJob == [gen |-> 0, status |-> "none", pending |-> 0, next |-> 0, output |-> -1,
          background |-> FALSE]

\* reserved: counted and not yet forked; waits: for the run before it; leaving: the
\* body is over and has let the next one begin; gone: settled, or never forked.
RunState == {"none", "reserved", "waits", "runs", "leaving", "gone"}

Init ==
  /\ job = NoJob
  /\ run = [g \in Generation |-> [s \in Sequence |-> "none"]]
  /\ outcome = [g \in Generation |-> [s \in Sequence |-> "none"]]
  /\ ending = [g \in Generation |-> "none"]
  /\ done = [g \in Generation |-> "none"]
  /\ closed = {}
  /\ waiter = [w \in Waiter |-> [gen |-> 0, told |-> "nothing"]]

-------------------------------------------------------------------------------
(* Operations *)

IsRunning == job.status = "running"

SetRun(g, s, state) == run' = [run EXCEPT ![g][s] = state]

\* Starting a job that is running gives the one that is there.
Start ==
  /\ ~IsRunning /\ job.gen < MaxStarts
  /\ job' = [NoJob EXCEPT !.gen = job.gen + 1, !.status = "running", !.pending = 1, !.next = 1]
  /\ SetRun(job'.gen, 0, "reserved")
  /\ UNCHANGED <<outcome, ending, done, closed, waiter>>

Extend ==
  /\ IsRunning /\ job.next < MaxRuns
  /\ job' = [job EXCEPT !.pending = @ + 1, !.next = @ + 1]
  /\ SetRun(job.gen, job.next, "reserved")
  /\ UNCHANGED <<outcome, ending, done, closed, waiter>>

\* The end of a generation, by whoever was first to find it running.
End(j, status) ==
  /\ job' = [j EXCEPT !.status = status, !.pending = 0]
  /\ ending' = [ending EXCEPT ![j.gen] = status]

\* Mutant of Cancel: nobody is told of a cancellation.
CancelSilently ==
  /\ IsRunning
  /\ job' = [job EXCEPT !.status = "cancelled", !.pending = 0]
  /\ UNCHANGED <<run, outcome, ending, done, closed, waiter>>

Cancel ==
  /\ IsRunning
  /\ End(job, "cancelled")
  /\ UNCHANGED <<run, outcome, done, closed, waiter>>

\* A job goes on in the background, and its caller need not wait.
Promote ==
  /\ IsRunning /\ ~job.background
  /\ job' = [job EXCEPT !.background = TRUE]
  /\ UNCHANGED <<run, outcome, ending, done, closed, waiter>>

\* Who waits is told, and the scope is closed, which interrupts what is in it.
Announce(g) ==
  /\ ending[g] # "none"
  /\ done' = [done EXCEPT ![g] = ending[g]]
  /\ closed' = closed \cup {g}
  /\ ending' = [ending EXCEPT ![g] = "none"]
  /\ UNCHANGED <<job, run, outcome, waiter>>

-------------------------------------------------------------------------------
(* Fibers *)

\* A fiber that is forked into a closed scope does not run.
Fork(g, s) ==
  /\ run[g][s] = "reserved"
  /\ SetRun(g, s, IF g \in closed THEN "gone" ELSE IF s = 0 THEN "runs" ELSE "waits")
  /\ UNCHANGED <<job, outcome, ending, done, closed, waiter>>

\* Mutant of Begin: an extension does not wait for the run before it.
BeginAtOnce(g, s) ==
  /\ run[g][s] = "waits"
  /\ SetRun(g, s, "runs")
  /\ UNCHANGED <<job, outcome, ending, done, closed, waiter>>

Begin(g, s) ==
  /\ run[g][s] = "waits"
  /\ outcome[g][s - 1] # "none"
  /\ SetRun(g, s, "runs")
  /\ UNCHANGED <<job, outcome, ending, done, closed, waiter>>

Leave(g, s, o) ==
  /\ SetRun(g, s, "leaving")
  /\ outcome' = [outcome EXCEPT ![g][s] = o]
  /\ UNCHANGED <<job, ending, done, closed, waiter>>

BodyEnds(g, s) == run[g][s] = "runs" /\ \E o \in Outcome : Leave(g, s, o)

\* A body may be slow to end when its scope is closed, but it ends.
IsInterrupted(g, s) ==
  /\ run[g][s] \in {"waits", "runs"} /\ g \in closed
  /\ Leave(g, s, "interrupted")

StatusAfter(o) == IF o = "success" THEN "completed"
                  ELSE IF o = "interrupted" THEN "cancelled"
                  ELSE "error"

\* Mutant of WithOutput: whoever settles last sets the output.
WithLatestOutput(g, s) == [job EXCEPT !.output = IF outcome[g][s] = "success" THEN s ELSE @]

\* The output is kept of the newest run that succeeded.
WithOutput(g, s) == [job EXCEPT !.output = IF outcome[g][s] = "success" /\ s > @ THEN s ELSE @]

OthersPending(g, s) == outcome[g][s] = "success" /\ job.pending > 1

\* Mutant of Settle: a run settles the job that it finds, of whatever generation.
SettleAnyway(g, s) ==
  /\ run[g][s] = "leaving"
  /\ SetRun(g, s, "gone")
  /\ IF OthersPending(g, s)
     THEN job' = [WithOutput(g, s) EXCEPT !.pending = @ - 1] /\ UNCHANGED ending
     ELSE End(WithOutput(g, s), StatusAfter(outcome[g][s]))
  /\ UNCHANGED <<outcome, done, closed, waiter>>

\* A run of an older generation, or of a job that has ended, changes nothing.
Settle(g, s) ==
  /\ run[g][s] = "leaving"
  /\ SetRun(g, s, "gone")
  /\ IF job.gen # g \/ ~IsRunning THEN UNCHANGED <<job, ending>>
     ELSE IF OthersPending(g, s)
     THEN job' = [WithOutput(g, s) EXCEPT !.pending = @ - 1] /\ UNCHANGED ending
     ELSE End(WithOutput(g, s), StatusAfter(outcome[g][s]))
  /\ UNCHANGED <<outcome, done, closed, waiter>>

-------------------------------------------------------------------------------
(* Waiters *)

Tell(w, what) == waiter' = [waiter EXCEPT ![w].told = what]

Wait(w) ==
  /\ waiter[w].told = "nothing" /\ job.gen > 0
  /\ waiter' = [waiter EXCEPT ![w] = [gen |-> job.gen,
                                      told |-> IF IsRunning THEN "waits" ELSE job.status]]
  /\ UNCHANGED <<job, run, outcome, ending, done, closed>>

Answer(w) ==
  /\ waiter[w].told = "waits" /\ done[waiter[w].gen] # "none"
  /\ Tell(w, done[waiter[w].gen])
  /\ UNCHANGED <<job, run, outcome, ending, done, closed>>

TimeOut(w) ==
  /\ waiter[w].told = "waits"
  /\ Tell(w, "timedOut")
  /\ UNCHANGED <<job, run, outcome, ending, done, closed>>

-------------------------------------------------------------------------------

FiberStep(g, s) ==
  Fork(g, s) \/ Begin(g, s) \/ BodyEnds(g, s) \/ IsInterrupted(g, s) \/ Settle(g, s)

Next ==
  \/ Start \/ Extend \/ Cancel \/ Promote
  \/ \E g \in Generation : Announce(g) \/ \E s \in Sequence : FiberStep(g, s)
  \/ \E w \in Waiter : Wait(w) \/ Answer(w) \/ TimeOut(w)

\* Fibers run; a body need not end, and nobody has to start, cancel or time out.
Fairness ==
  /\ \A g \in Generation :
       /\ WF_vars(Announce(g))
       /\ \A s \in Sequence : WF_vars(Fork(g, s)) /\ WF_vars(Begin(g, s)) /\ WF_vars(Settle(g, s))
  /\ \A w \in Waiter : WF_vars(Answer(w))

Spec == Init /\ [][Next]_vars /\ Fairness

-------------------------------------------------------------------------------
(* Properties *)

\* Every variable has values of its kind.
JobTypeOK ==
  /\ job \in Job
  /\ run \in [Generation -> [Sequence -> RunState]]
  /\ outcome \in [Generation -> [Sequence -> Outcome \cup {"none"}]]
  /\ ending \in [Generation -> Ended \cup {"none"}]
  /\ done \in [Generation -> Ended \cup {"none"}]
  /\ closed \subseteq Generation
  /\ waiter \in [Waiter -> [gen : 0..MaxStarts,
                            told : {"nothing", "waits", "timedOut"} \cup Ended]]

\* A job is completed only when each of its runs has succeeded, and then its output
\* is that of the last one, in whatever order they settled (background-job.ts:137-149).
CompletedIsWhole ==
  job.status = "completed" =>
    /\ \A s \in 0..(job.next - 1) : outcome[job.gen][s] = "success"
    /\ job.output = job.next - 1

\* Runs of one generation take turns, until its scope is closed: a run that is
\* interrupted while it waits lets its successor pass (background-job.ts:281-284).
RunsTakeTurns ==
  \A g \in Generation \ closed, s, t \in Sequence :
    run[g][s] = "runs" /\ run[g][t] = "runs" => s = t

\* A generation ends once, and everybody is told the same of it, whoever else
\* settles, cancels or starts anew meanwhile (background-job.ts:135-136, 341).
EndsOnce ==
  [][/\ \A g \in Generation : done[g] # "none" => done'[g] = done[g]
     /\ \A w \in Waiter : waiter'[w].told \in Ended /\ waiter'[w].told # waiter[w].told =>
          \/ done'[waiter'[w].gen] = waiter'[w].told
          \/ ending'[waiter'[w].gen] = waiter'[w].told
     /\ job.status \in Ended /\ job'.gen = job.gen => job' = job]_vars

\* Who waits for ever waits for a body that runs for ever: no run is counted that
\* never settles, and no end is decided without being announced.
WaitersAreTold ==
  \A w \in Waiter :
    <>[](waiter[w].told = "waits") =>
      <>[](\E g \in Generation, s \in Sequence : g = waiter[w].gen /\ run[g][s] = "runs")

-------------------------------------------------------------------------------
(* Why *)

\* The runs of generation g that are counted and have not settled.
Unsettled(g) == {s \in Sequence : run[g][s] \in {"reserved", "waits", "runs", "leaving"}}

\* Nothing is there of a generation that is not started.
FutureInv ==
  \A g \in Generation : g > job.gen =>
    /\ g \notin closed /\ ending[g] = "none" /\ done[g] = "none"
    /\ \A s \in Sequence : run[g][s] = "none" /\ outcome[g][s] = "none"

\* A run that begins has all runs before it behind it, while the scope is open.
TurnInv ==
  \A g \in Generation, s \in Sequence :
    /\ run[g][s] \in {"none", "reserved", "waits", "runs"} => outcome[g][s] = "none"
    /\ run[g][s] = "waits" => s > 0
    /\ run[g][s] = "leaving" => outcome[g][s] # "none"
    /\ g \notin closed =>
         /\ run[g][s] = "gone" => outcome[g][s] # "none"
         /\ run[g][s] \in {"runs", "leaving", "gone"} =>
              \A t \in Sequence : t < s => outcome[g][t] # "none"

\* A job that runs counts its unsettled runs, and the others have succeeded.
CountInv ==
  IsRunning =>
    /\ job.gen > 0 /\ job.gen \notin closed
    /\ job.pending = Cardinality(Unsettled(job.gen))
    /\ job.output < job.next
    /\ \A s \in Sequence :
         /\ run[job.gen][s] = "none" <=> s >= job.next
         /\ run[job.gen][s] = "gone" => outcome[job.gen][s] = "success" /\ s <= job.output

\* A generation that has ended is on its way to be announced, or is; one that runs is not.
EndInv ==
  /\ job.status = "none" <=> job.gen = 0
  /\ IsRunning => ending[job.gen] = "none" /\ done[job.gen] = "none"
  /\ job.status \in Ended => job.status \in {ending[job.gen], done[job.gen]}
  /\ \A g \in Generation : ending[g] = "none" \/ done[g] = "none"
  /\ \A w \in Waiter : waiter[w].told = "waits" => waiter[w].gen > 0

WholeInv ==
  job.status = "completed" =>
    /\ job.output = job.next - 1
    /\ \A s \in 0..(job.next - 1) :
         run[job.gen][s] = "gone" /\ outcome[job.gen][s] = "success"

\* The safe half of WaitersAreTold: while somebody waits, the end is decided, or some
\* fiber of that generation has a step to take.  Runs never wait for one another in
\* vain, and no count is left that nobody takes down (background-job.ts:137-149, 281-284).
NobodyWaitsInVain ==
  \A w \in Waiter : waiter[w].told = "waits" =>
    \/ ending[waiter[w].gen] # "none" \/ done[waiter[w].gen] # "none"
    \/ \E s \in Sequence :
         \/ run[waiter[w].gen][s] \in {"reserved", "runs", "leaving"}
         \/ run[waiter[w].gen][s] = "waits" /\ outcome[waiter[w].gen][s - 1] # "none"

\* A job that runs counts somebody, and what came before it has ended.
HeldInv ==
  /\ IsRunning => job.pending > 0
  /\ \A g \in Generation : g < job.gen => ending[g] # "none" \/ done[g] # "none"
  /\ \A w \in Waiter : waiter[w].told = "waits" => waiter[w].gen <= job.gen

JobInv == JobTypeOK /\ FutureInv /\ TurnInv /\ CountInv /\ EndInv /\ WholeInv

===============================================================================
