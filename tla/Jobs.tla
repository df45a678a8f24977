--------------------------------- MODULE Jobs ---------------------------------
(***************************************************************************)
(* The long-running work of the agent core: jobs.py, with the task and     *)
(* approval rows of db.py that it reads and writes, and the asyncio rules  *)
(* it runs under.                                                          *)
(*                                                                         *)
(* All coroutines share one thread, so the code between two awaits is one  *)
(* step.  Every row operation is one SQLite transaction run by a worker    *)
(* thread: the step of a coroutine that awaits it is the transaction, and  *)
(* the transactions of different coroutines land in any order.  A          *)
(* transaction already handed to a worker thread lands even if the         *)
(* coroutine that awaits it is cancelled: these are the late writes.       *)
(*                                                                         *)
(* This module has the job coroutine (_run_job), the approval gate it      *)
(* gives to its hand (_await_approval), cancellation, the `_running`       *)
(* registry, process crash and recover_on_boot.  Who starts and cancels    *)
(* jobs, and who answers approvals, is in ControlPlane.                    *)
(***************************************************************************)
EXTENDS Naturals, FiniteSets

CONSTANTS
  Task,       \* task ids
  Job,        \* asyncio tasks running _run_job, numbered in order of creation
  Approval,   \* approval ids, numbered in order of creation
  None,       \* no job, no approval, no task
  MaxMishaps  \* bound: how often an operation may raise or the process may die

ASSUME ConstantsAssumption ==
  /\ Job \subseteq Nat /\ Approval \subseteq Nat
  /\ None \notin Job \cup Approval \cup Task
  /\ MaxMishaps \in Nat

VARIABLES
  \* The database.
  status,     \* tasks.status; "absent" when there is no row
  apv,        \* approvals.status; "absent" when there is no row
  kind,       \* approvals.requested_action: "start" for coding.start_task,
              \* "steer" for coding.steer_session, "hand" for a hand's tool
  subject,    \* approvals.task_id
  told,       \* ledger: the terminal events recorded by each job (kept until
              \* the job is reaped; events of other types are left out)
  \* The memory of the process.
  mode,       \* "up"; "down" after a crash; "recover" while recover_on_boot runs
  orphans,    \* the tasks it has listed as running and not marked stale yet
  owner,      \* the task_id a job was started for
  pc,         \* where each job is in _run_job
  res,        \* the terminal status a job computed from its hand's result
  gate,       \* the approval row the job's hand is waiting for
  gpc,        \* where the gate is in _await_approval
  registry,   \* Jobs._running
  lateStatus, \* status writes in a worker thread whose coroutine is gone
  lateDeny,   \* the same, for the timeout's write of an approval row
  \* History and bounds.
  granted,    \* approvals a person said yes to
  answer,     \* what the gate returned to the hand that asked
  mishaps     \* operations that raised, and crashes

dbVars   == <<status, apv, kind, subject, told>>
apvVars  == <<apv, kind, subject, granted>>
gateVars == <<gate, gpc, answer, lateDeny>>
jobVars  == <<mode, orphans, status, told, owner, pc, res, registry, lateStatus,
              mishaps>>

TaskStatus == {"pending", "running", "completed", "failed", "cancelled", "stale"}

JobPC == {"none",                                  \* not created
          "new", "exec", "store", "tell", "note",  \* the try block
          "fail", "ftell",                         \* the except block
          "over", "killed", "dead",  \* returned, cancelled, or raised
          "gone",                                  \* done callback has run
          "lost"}                    \* of a process that died

Finished == {"over", "killed", "dead"}
Live     == {"new", "exec", "store", "tell", "note", "fail", "ftell"}

TypeOK ==
  /\ status \in [Task -> TaskStatus \cup {"absent"}]
  /\ apv \in [Approval -> {"absent", "pending", "approved", "rejected"}]
  /\ kind \in [Approval -> {"start", "steer", "hand"}]
  /\ subject \in [Approval -> Task \cup {None}]
  /\ told \in [Job -> SUBSET {"completed", "failed"}]
  /\ mode \in {"up", "down", "recover"}
  /\ orphans \in SUBSET Task
  /\ owner \in [Job -> Task \cup {None}]
  /\ pc \in [Job -> JobPC]
  /\ res \in [Job -> {"none", "completed", "failed"}]
  /\ gate \in [Job -> Approval \cup {None}]
  /\ gpc \in [Job -> {"none", "poll", "allow", "deny"}]
  /\ registry \in [Task -> Job \cup {None}]
  /\ lateStatus \in SUBSET (Task \X TaskStatus)
  /\ lateDeny \in SUBSET Approval
  /\ granted \in SUBSET Approval
  /\ answer \in [Approval -> {"none", "allow", "deny"}]
  /\ mishaps \in 0..MaxMishaps

Init ==
  /\ status = [t \in Task |-> "absent"]
  /\ apv = [a \in Approval |-> "absent"]
  /\ kind = [a \in Approval |-> "start"]
  /\ subject = [a \in Approval |-> None]
  /\ told = [j \in Job |-> {}]
  /\ mode = "up"
  /\ orphans = {}
  /\ owner = [j \in Job |-> None]
  /\ pc = [j \in Job |-> "none"]
  /\ res = [j \in Job |-> "none"]
  /\ gate = [j \in Job |-> None]
  /\ gpc = [j \in Job |-> "none"]
  /\ registry = [t \in Task |-> None]
  /\ lateStatus = {}
  /\ lateDeny = {}
  /\ granted = {}
  /\ answer = [a \in Approval |-> "none"]
  /\ mishaps = 0

-----------------------------------------------------------------------------
(* Rows *)

\* The next id of a set numbered in order of creation.
FreshJob(j) ==
  pc[j] = "none" /\ \A i \in Job : i < j => pc[i] # "none"

FreshApproval(a) ==
  apv[a] = "absent" /\ \A b \in Approval : b < a => apv[b] # "absent"

\* db.create_approval
InsertApproval(a, k, t) ==
  /\ FreshApproval(a)
  /\ apv' = [apv EXCEPT ![a] = "pending"]
  /\ kind' = [kind EXCEPT ![a] = k]
  /\ subject' = [subject EXCEPT ![a] = t]

\* db.update_task: the row is overwritten whatever its status is.
SetStatus(t, s) == status' = [status EXCEPT ![t] = s]

-----------------------------------------------------------------------------
(* Starting and cancelling, as called by the handlers of ControlPlane *)

\* Jobs.start: the registry entry of an earlier job of the task is overwritten.
StartJob(t, j) ==
  /\ FreshJob(j)
  /\ owner' = [owner EXCEPT ![j] = t]
  /\ pc' = [pc EXCEPT ![j] = "new"]
  /\ registry' = [registry EXCEPT ![t] = j]

\* The status write a job is awaiting, which a worker thread may already have.
InFlight(j) ==
  {owner[j]} \X {s \in TaskStatus :
                    \/ pc[j] = "new" /\ s = "running"
                    \/ pc[j] = "store" /\ s = res[j]
                    \/ pc[j] = "fail" /\ s = "failed"}

\* The terminal event a job is appending.
InAppend(j) ==
  {e \in {"completed", "failed"} :
     \/ pc[j] = "tell" /\ e = res[j]
     \/ pc[j] = "ftell" /\ e = "failed"}

\* The gate of j is torn down with its connection: nobody waits for the row any
\* more, which stays as it is.  The write of a timeout may be on its way.
DropGate(j) ==
  /\ gate' = [gate EXCEPT ![j] = None]
  /\ gpc' = [gpc EXCEPT ![j] = "none"]
  /\ \/ UNCHANGED lateDeny
     \/ gpc[j] = "poll" /\ lateDeny' = lateDeny \cup {gate[j]}
  /\ UNCHANGED answer

\* Mutant of CancelRegistered: the entry is dropped, the asyncio task is not cancelled.
CancelOnlyForgets(t) ==
  /\ registry' = [registry EXCEPT ![t] = None]
  /\ UNCHANGED <<pc, lateStatus, told, gateVars>>

\* The part of Jobs.cancel after its row write: cancel the registered asyncio
\* task and drop the entry.  CancelledError is not an Exception, so neither
\* block of _run_job runs on: no terminal event is recorded.
CancelRegistered(t) ==
  /\ registry' = [registry EXCEPT ![t] = None]
  /\ LET j == registry[t]
     IN  IF j # None /\ pc[j] \in Live
         THEN /\ pc' = [pc EXCEPT ![j] = "killed"]
              /\ UNCHANGED lateStatus \/ lateStatus' = lateStatus \cup InFlight(j)
              /\ UNCHANGED told \/ told' = [told EXCEPT ![j] = @ \cup InAppend(j)]
              /\ DropGate(j)
         ELSE UNCHANGED <<pc, lateStatus, told, gateVars>>

-----------------------------------------------------------------------------
(* _run_job *)

\* Move job j from one control point to another, leaving everything else of
\* the process alone except what the action names.
Goto(j, from, to) ==
  /\ mode = "up"
  /\ pc[j] = from
  /\ pc' = [pc EXCEPT ![j] = to]
  /\ UNCHANGED <<mode, orphans, owner, registry, lateStatus, mishaps, apvVars>>

\* The row is read and set to running, whatever happened to it meanwhile.
JobBegin(j) ==
  /\ Goto(j, "new", "exec")
  /\ SetStatus(owner[j], "running")
  /\ UNCHANGED <<told, res, gateVars>>

\* hands.execute returns.  Its failures are results too: Hands.execute turns an
\* exception of a hand into one.  A hand that waits on its gate reads nothing
\* else from its agent, so it only returns from there by its own timeout.
HandReturns(j) ==
  /\ Goto(j, "exec", "store")
  /\ gpc[j] = "none"
  /\ \E s \in {"completed", "failed"} : res' = [res EXCEPT ![j] = s]
  /\ UNCHANGED <<status, told, gateVars>>

HandTimesOut(j) ==
  /\ Goto(j, "exec", "store")
  /\ gpc[j] # "none" /\ DropGate(j)
  /\ res' = [res EXCEPT ![j] = "failed"]
  /\ UNCHANGED <<status, told>>

\* The same, with another hand left to take over the work from its start.
HandDegrades(j) ==
  /\ mode = "up" /\ pc[j] = "exec"
  /\ gpc[j] # "none" /\ DropGate(j)
  /\ UNCHANGED <<jobVars, apvVars>>

JobStore(j) ==
  /\ Goto(j, "store", "tell")
  /\ SetStatus(owner[j], res[j])
  /\ UNCHANGED <<told, res, gateVars>>

\* task.completed or task.failed
JobTell(j) ==
  /\ Goto(j, "tell", "note")
  /\ told' = [told EXCEPT ![j] = @ \cup {res[j]}]
  /\ UNCHANGED <<status, res, gateVars>>

\* task.updated, the last event of a job
JobNote(j) ==
  /\ Goto(j, "note", "over")
  /\ UNCHANGED <<status, told, res, gateVars>>

\* Mutant of JobFail: the row is written and task.failed is not recorded.
FailSilently(j) ==
  /\ Goto(j, "fail", "over")
  /\ SetStatus(owner[j], "failed")
  /\ UNCHANGED <<told, res, gateVars>>

JobFail(j) ==
  /\ Goto(j, "fail", "ftell")
  /\ SetStatus(owner[j], "failed")
  /\ UNCHANGED <<told, res, gateVars>>

\* task.failed and task.updated
JobFailTell(j) ==
  /\ Goto(j, "ftell", "over")
  /\ told' = [told EXCEPT ![j] = @ \cup {"failed"}]
  /\ UNCHANGED <<status, res, gateVars>>

\* A row or ledger operation raises.  In the try block the except block takes
\* over, even when the terminal status or event is already out; get_task, the
\* first operation, is outside of the try; nothing catches the except block.
JobFault(j) ==
  /\ mode = "up" /\ mishaps < MaxMishaps
  /\ mishaps' = mishaps + 1
  /\ \/ pc[j] \in {"new", "store", "tell", "note"} /\ pc' = [pc EXCEPT ![j] = "fail"]
     \/ pc[j] \in {"new", "fail", "ftell"} /\ pc' = [pc EXCEPT ![j] = "dead"]
  /\ UNCHANGED <<mode, orphans, status, told, owner, res, registry, lateStatus, apvVars,
                 gateVars>>

\* The done callback pops the task's entry, whichever job it holds by now.
JobReaped(j) ==
  /\ mode = "up" /\ pc[j] \in Finished
  /\ pc' = [pc EXCEPT ![j] = "gone"]
  /\ registry' = [registry EXCEPT ![owner[j]] = None]
  /\ res' = [res EXCEPT ![j] = "none"]
  /\ told' = [told EXCEPT ![j] = {}]
  /\ UNCHANGED <<mode, orphans, status, owner, lateStatus, mishaps, apvVars, gateVars>>

-----------------------------------------------------------------------------
(* _await_approval, run for the hand of job j *)

\* The row is created, then approval.requested recorded; until the first poll
\* nothing else of this coroutine is visible.
GateAsk(j) ==
  /\ mode = "up" /\ pc[j] = "exec" /\ gpc[j] = "none"
  /\ \E a \in Approval :
       /\ InsertApproval(a, "hand", owner[j])
       /\ gate' = [gate EXCEPT ![j] = a]
  /\ gpc' = [gpc EXCEPT ![j] = "poll"]
  /\ UNCHANGED <<jobVars, granted, answer, lateDeny>>

\* A poll that finds the row resolved; one that does not changes nothing.
GateResolved(j) ==
  /\ mode = "up" /\ gpc[j] = "poll"
  /\ apv[gate[j]] \in {"approved", "rejected"}
  /\ gpc' = [gpc EXCEPT ![j] = IF apv[gate[j]] = "approved" THEN "allow" ELSE "deny"]
  /\ UNCHANGED <<jobVars, apvVars, gate, answer, lateDeny>>

\* Mutant of GateTimeout: the deadline is only looked at once the row is resolved.
TimeoutNeedsAnswer(j) ==
  /\ mode = "up" /\ gpc[j] = "poll"
  /\ apv[gate[j]] # "pending"
  /\ gpc' = [gpc EXCEPT ![j] = "deny"]
  /\ UNCHANGED <<jobVars, apvVars, gate, answer, lateDeny>>

\* The deadline passes after a poll that found the row pending.  The row is
\* written without looking again: it may have been approved since.
GateTimeout(j) ==
  /\ mode = "up" /\ gpc[j] = "poll"
  /\ apv' = [apv EXCEPT ![gate[j]] = "rejected"]
  /\ gpc' = [gpc EXCEPT ![j] = "deny"]
  /\ UNCHANGED <<jobVars, kind, subject, granted, gate, answer, lateDeny>>

\* Mutant of GateReturns: the gate polls on after it has answered.
ReturnKeepsPolling(j) ==
  /\ mode = "up" /\ gpc[j] \in {"allow", "deny"}
  /\ answer' = [answer EXCEPT ![gate[j]] = gpc[j]]
  /\ gpc' = [gpc EXCEPT ![j] = "poll"]
  /\ UNCHANGED <<jobVars, apv, kind, subject, granted, gate, lateDeny>>

\* approval.resolved is recorded and the outcome returned to the hand.
GateReturns(j) ==
  /\ mode = "up" /\ gpc[j] \in {"allow", "deny"}
  /\ answer' = [answer EXCEPT ![gate[j]] = gpc[j]]
  /\ gate' = [gate EXCEPT ![j] = None]
  /\ gpc' = [gpc EXCEPT ![j] = "none"]
  /\ UNCHANGED <<jobVars, apv, kind, subject, granted, lateDeny>>

\* Mutant of GateFault: the outcome defaults to allow when the gate raises.
FaultAllows(j) ==
  /\ mode = "up" /\ mishaps < MaxMishaps /\ gpc[j] # "none"
  /\ mishaps' = mishaps + 1
  /\ answer' = [answer EXCEPT ![gate[j]] = "allow"]
  /\ gate' = [gate EXCEPT ![j] = None]
  /\ gpc' = [gpc EXCEPT ![j] = "none"]
  /\ UNCHANGED <<mode, orphans, status, told, owner, pc, res, registry, lateStatus,
                 apvVars, lateDeny>>

\* An operation of the gate raises: the hand takes an exception for a denial.
GateFault(j) ==
  /\ mode = "up" /\ mishaps < MaxMishaps /\ gpc[j] # "none"
  /\ mishaps' = mishaps + 1
  /\ answer' = [answer EXCEPT ![gate[j]] = "deny"]
  /\ gate' = [gate EXCEPT ![j] = None]
  /\ gpc' = [gpc EXCEPT ![j] = "none"]
  /\ UNCHANGED <<mode, orphans, status, told, owner, pc, res, registry, lateStatus,
                 apvVars, lateDeny>>

-----------------------------------------------------------------------------
(* Worker threads, crash and boot *)

LateStatusLands ==
  /\ mode = "up"
  /\ \E w \in lateStatus :
       /\ SetStatus(w[1], w[2])
       /\ lateStatus' = lateStatus \ {w}
  /\ UNCHANGED <<mode, orphans, told, owner, pc, res, registry, mishaps,
                 apvVars, gateVars>>

LateDenyLands ==
  /\ mode = "up"
  /\ \E a \in lateDeny :
       /\ apv' = [apv EXCEPT ![a] = "rejected"]
       /\ lateDeny' = lateDeny \ {a}
  /\ UNCHANGED <<jobVars, kind, subject, granted, gate, gpc, answer>>

\* Everything in memory is lost; the rows and the ledger are not.
Crash ==
  /\ mode = "up" /\ mishaps < MaxMishaps
  /\ mode' = "down" /\ mishaps' = mishaps + 1
  /\ pc' = [j \in Job |-> IF pc[j] = "none" THEN "none" ELSE "lost"]
  /\ registry' = [t \in Task |-> None]
  /\ res' = [j \in Job |-> "none"]
  /\ told' = [j \in Job |-> {}]
  /\ gate' = [j \in Job |-> None]
  /\ gpc' = [j \in Job |-> "none"]
  /\ lateStatus' = {} /\ lateDeny' = {}
  /\ UNCHANGED <<status, owner, orphans, apvVars, answer>>

\* The process is started again; recover_on_boot lists the running tasks, once.
BootReads ==
  /\ mode = "down"
  /\ mode' = "recover"
  /\ orphans' = {t \in Task : status[t] = "running"}
  /\ UNCHANGED <<status, told, owner, pc, res, registry, lateStatus, mishaps, apvVars, gateVars>>

\* It marks the rows it listed stale, one update at a time.
Recover(t) ==
  /\ mode = "recover" /\ t \in orphans
  /\ SetStatus(t, "stale")
  /\ orphans' = orphans \ {t}
  /\ UNCHANGED <<mode, told, owner, pc, res, registry, lateStatus, mishaps, apvVars, gateVars>>

\* Mutant of Boot: the rows are marked by a background task of their own.
BootAtOnce ==
  /\ mode = "recover"
  /\ mode' = "up"
  /\ UNCHANGED <<orphans, status, told, owner, pc, res, registry, lateStatus, mishaps, apvVars,
                 gateVars>>

\* Requests are served once the loop over the listed rows has ended.
Boot ==
  /\ mode = "recover" /\ orphans = {}
  /\ mode' = "up"
  /\ UNCHANGED <<orphans, status, told, owner, pc, res, registry, lateStatus, mishaps, apvVars,
                 gateVars>>

\* The process dies, or an update raises, during recovery: the next boot starts over
\* with the rows that are left.
BootDies ==
  /\ mode = "recover"
  /\ mode' = "down" /\ orphans' = {}
  /\ UNCHANGED <<status, told, owner, pc, res, registry, lateStatus, mishaps, apvVars, gateVars>>

-----------------------------------------------------------------------------

\* What a job and its gate do by themselves.
JobStep(j) ==
  \/ JobBegin(j) \/ HandReturns(j) \/ HandTimesOut(j) \/ HandDegrades(j) \/ JobStore(j)
  \/ JobTell(j) \/ JobNote(j) \/ JobFail(j) \/ JobFailTell(j) \/ JobReaped(j)
  \/ GateAsk(j) \/ GateResolved(j) \/ GateTimeout(j) \/ GateReturns(j)
  \/ JobFault(j) \/ GateFault(j)

BootStep == BootReads \/ (\E t \in Task : Recover(t)) \/ Boot \/ BootDies

JobsNext ==
  \/ \E j \in Job : JobStep(j)
  \/ LateStatusLands \/ LateDenyLands
  \/ BootStep

jobsVars == <<dbVars, mode, orphans, owner, pc, res, gateVars, registry, lateStatus,
              granted, mishaps>>

=============================================================================
