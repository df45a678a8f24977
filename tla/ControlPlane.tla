----------------------------- MODULE ControlPlane -----------------------------
(***************************************************************************)
(* The requests that drive the jobs: the coordinator's handlers for a      *)
(* coding task, a steering message and a spoken approval response, and the *)
(* HTTP handlers approve, reject and cancel.  Each request is a coroutine  *)
(* of its own; the set Req bounds how many are served at a time, not how   *)
(* many there are.  A handler's control point names what it does next.     *)
(***************************************************************************)
EXTENDS Jobs, Permissions

CONSTANTS
  Req,          \* slots for concurrent requests
  Levels        \* the autonomy levels the process may be configured with

ASSUME RequestsAssumption == Levels \subseteq Autonomy

VARIABLES
  autonomy,  \* Settings.autonomy_level, read once
  rpc,       \* what the handler of a request does next; "idle" when none is served
  rtask,     \* the task the request is about
  rapv       \* the approval it answers

reqVars == <<rpc, rtask, rapv>>
vars == <<jobsVars, autonomy, reqVars>>

\* "approve" is the resolve step of POST /approvals/{id}/approve, "yes" that of an
\* affirmative chat message, "no" that of a refusal by either way.
ReqPC == {"idle", "ask", "approve", "yes", "no", "start", "mark", "kill", "unregister"}

ControlTypeOK ==
  /\ TypeOK
  /\ autonomy \in Levels
  /\ rpc \in [Req -> ReqPC]
  /\ rtask \in [Req -> Task \cup {None}]
  /\ rapv \in [Req -> Approval \cup {None}]

ControlInit ==
  /\ Init
  /\ autonomy \in Levels
  /\ rpc = [r \in Req |-> "idle"]
  /\ rtask = [r \in Req |-> None]
  /\ rapv = [r \in Req |-> None]

-----------------------------------------------------------------------------

\* Request r arrives and its handler, having read what it needs, goes on to `to`.
Accept(r, to, t, a) ==
  /\ mode = "up" /\ rpc[r] = "idle"
  /\ rpc' = [rpc EXCEPT ![r] = to]
  /\ rtask' = [rtask EXCEPT ![r] = t]
  /\ rapv' = [rapv EXCEPT ![r] = a]
  /\ UNCHANGED autonomy

\* The handler of r goes on to its next step, or returns and frees its slot.
Advance(r, to) ==
  /\ rpc' = [rpc EXCEPT ![r] = to]
  /\ rtask' = IF to = "idle" THEN [rtask EXCEPT ![r] = None] ELSE rtask
  /\ rapv' = [rapv EXCEPT ![r] = None]
  /\ UNCHANGED autonomy

At(r, step) == mode = "up" /\ rpc[r] = step

NeedsApproval(action) == Verdict(autonomy, action) = "approval_required"

\* Mutant of SubmitCoding: the verdict is only looked at for "blocked".
SubmitUnasked(r, t) ==
  /\ status[t] = "absent"
  /\ Verdict(autonomy, "coding.start_task") # "blocked"
  /\ Accept(r, "start", t, None)
  /\ SetStatus(t, "pending")
  /\ UNCHANGED <<mode, orphans, told, owner, pc, res, registry, lateStatus, mishaps, apvVars,
                 gateVars>>

\* _handle_coding_task: the thread and the task row are created first.
SubmitCoding(r, t) ==
  /\ status[t] = "absent"
  /\ Verdict(autonomy, "coding.start_task") # "blocked"
  /\ Accept(r, IF NeedsApproval("coding.start_task") THEN "ask" ELSE "start", t, None)
  /\ SetStatus(t, "pending")
  /\ UNCHANGED <<mode, orphans, told, owner, pc, res, registry, lateStatus, mishaps, apvVars,
                 gateVars>>

\* _create_approval, with its approval.requested events; the handler returns.
AskApproval(r) ==
  /\ At(r, "ask") /\ Advance(r, "idle")
  /\ \E a \in Approval : InsertApproval(a, "start", rtask[r])
  /\ UNCHANGED <<jobVars, gateVars, granted>>

\* _handle_steering, as far as it leaves a row behind: an approval of no task,
\* on which nobody acts.  Steering that is allowed changes no row.
SubmitSteering ==
  /\ mode = "up" /\ NeedsApproval("coding.steer_session")
  /\ \E a \in Approval : InsertApproval(a, "steer", None)
  /\ UNCHANGED <<jobVars, gateVars, granted, autonomy, reqVars>>

\* approve and reject read the row and return at once unless it is pending.
ApiAnswer(r, a, step) ==
  /\ apv[a] = "pending"
  /\ Accept(r, step, subject[a], a)
  /\ UNCHANGED jobsVars

\* _handle_approval_response answers the newest pending approval, of any kind.
ChatAnswer(r, a, step) ==
  /\ \A b \in Approval : apv[b] = "pending" => b <= a
  /\ ApiAnswer(r, a, step)

\* POST /tasks/{id}/cancel
CancelTask(r, t) ==
  /\ status[t] # "absent"
  /\ Accept(r, "kill", t, None)
  /\ UNCHANGED jobsVars

\* Mutant of Resolve: a spoken approval is stored, and nothing is started.
ChatOnlyResolves(r) ==
  LET a     == rapv[r]
      yes   == rpc[r] \in {"approve", "yes"}
      acts  == rtask[r] # None /\ rpc[r] # "yes" /\ (rpc[r] = "approve" => kind[a] = "start")
  IN  /\ mode = "up" /\ rpc[r] \in {"approve", "yes", "no"}
      /\ Advance(r, IF ~acts THEN "idle" ELSE IF yes THEN "start" ELSE "kill")
      /\ apv' = [apv EXCEPT ![a] = IF yes THEN "approved" ELSE "rejected"]
      /\ granted' = IF yes THEN granted \cup {a} ELSE granted
      /\ UNCHANGED <<jobVars, kind, subject, gateVars>>

\* db.resolve_approval overwrites the row: that it was pending was read earlier.
\* Then a job is started, of which only approve looks at what was asked for, or
\* the task is cancelled.
Resolve(r) ==
  LET a     == rapv[r]
      yes   == rpc[r] \in {"approve", "yes"}
      acts  == rtask[r] # None /\ (rpc[r] = "approve" => kind[a] = "start")
  IN  /\ mode = "up" /\ rpc[r] \in {"approve", "yes", "no"}
      /\ \/ acts /\ yes /\ Advance(r, "start")
         \/ acts /\ ~yes /\ Advance(r, "kill")
         \/ ~acts /\ Advance(r, "idle")
      /\ apv' = [apv EXCEPT ![a] = IF yes THEN "approved" ELSE "rejected"]
      /\ granted' = IF yes THEN granted \cup {a} ELSE granted
      /\ UNCHANGED <<jobVars, kind, subject, gateVars>>

\* The brief is built, then jobs.start called (_handle_coding_task,
\* start_approved_task), whatever jobs and status the task has by now.
Start(r) ==
  /\ At(r, "start") /\ Advance(r, "mark")
  /\ \E j \in Job : StartJob(rtask[r], j)
  /\ UNCHANGED <<mode, orphans, status, told, res, lateStatus, mishaps, apvVars, gateVars>>

\* Mutant of Mark: the request waits for the registry entry of a job that may be over.
MarkNeedsEntry(r) ==
  /\ At(r, "mark") /\ Advance(r, "idle")
  /\ registry[rtask[r]] # None
  /\ SetStatus(rtask[r], "running")
  /\ UNCHANGED <<mode, orphans, told, owner, pc, res, registry, lateStatus, mishaps, apvVars,
                 gateVars>>

\* The row is marked running after the job was started, perhaps after it ended.
Mark(r) ==
  /\ At(r, "mark") /\ Advance(r, "idle")
  /\ SetStatus(rtask[r], "running")
  /\ UNCHANGED <<mode, orphans, told, owner, pc, res, registry, lateStatus, mishaps, apvVars,
                 gateVars>>

\* Jobs.cancel: the row, then the registered job.
KillRow(r) ==
  /\ At(r, "kill") /\ Advance(r, "unregister")
  /\ SetStatus(rtask[r], "cancelled")
  /\ UNCHANGED <<mode, orphans, told, owner, pc, res, registry, lateStatus, mishaps, apvVars,
                 gateVars>>

KillJob(r) ==
  /\ At(r, "unregister") /\ Advance(r, "idle")
  /\ CancelRegistered(rtask[r])
  /\ UNCHANGED <<mode, orphans, status, owner, res, mishaps, apvVars>>

\* An operation of a handler raises: the request fails where it stands.
RequestFault(r) ==
  /\ mode = "up" /\ mishaps < MaxMishaps
  /\ rpc[r] # "idle" /\ Advance(r, "idle")
  /\ mishaps' = mishaps + 1
  /\ UNCHANGED <<mode, orphans, status, told, owner, pc, res, registry, lateStatus,
                 apvVars, gateVars>>

\* The process dies with the handlers it was serving.
CrashAll ==
  /\ Crash
  /\ rpc' = [r \in Req |-> "idle"]
  /\ rtask' = [r \in Req |-> None]
  /\ rapv' = [r \in Req |-> None]
  /\ UNCHANGED autonomy

-----------------------------------------------------------------------------

\* Bound: nobody asks unless there are ids left for the start approvals that
\* requests are about to ask for.
ApprovalsLast ==
  Cardinality({a \in Approval : apv[a] = "absent"}) >=
  Cardinality({r \in Req : rpc[r] = "ask"})

\* Bound: requests that may start a job arrive only while there are ids for it.
JobSpare ==
  Cardinality({j \in Job : pc[j] = "none"}) >
  Cardinality({r \in Req : rpc[r] \in {"approve", "yes", "start"}})

RequestArrives(r) ==
  \/ JobSpare /\ \E t \in Task : SubmitCoding(r, t)
  \/ JobSpare /\ \E a \in Approval : ApiAnswer(r, a, "approve") \/ ChatAnswer(r, a, "yes")
  \/ \E a \in Approval : ApiAnswer(r, a, "no") \/ ChatAnswer(r, a, "no")
  \/ \E t \in Task : CancelTask(r, t)

RequestStep(r) ==
  \/ AskApproval(r) \/ Resolve(r) \/ Start(r) \/ Mark(r) \/ KillRow(r) \/ KillJob(r)

Next ==
  /\ \/ JobsNext /\ UNCHANGED <<autonomy, reqVars>>
     \/ \E r \in Req : RequestArrives(r) \/ RequestStep(r) \/ RequestFault(r)
     \/ SubmitSteering
     \/ CrashAll
  /\ ApprovalsLast'

Spec == ControlInit /\ [][Next]_vars

-----------------------------------------------------------------------------
(* Safety *)

\* A job runs for a task that needs approval only if a person approved the start
\* of that task.  The chat handler starts a job on the approval of a hand's tool
\* too, so this rests on where such approvals come from (jobs.py _await_approval,
\* coordinator.py _handle_approval_response, app.py approve).
GatedStart ==
  \A j \in Job :
    pc[j] # "none" /\ NeedsApproval("coding.start_task")
      => \E a \in granted : kind[a] = "start" /\ subject[a] = owner[j]

\* Cancellation can reach every live job, unless its task was given a second one:
\* the registry is keyed by task, an entry is overwritten by a second start, and
\* dropped by the done callback of either (jobs.py start, cancel).
LiveJobReachable ==
  \A j \in Job : pc[j] \in Live =>
    \/ registry[owner[j]] = j
    \/ \E i \in Job \ {j} : owner[i] = owner[j]

Announced(j) ==
  \/ told[j] = {"completed"} /\ res[j] = "completed"
  \/ "failed" \in told[j]

\* A job whose coroutine returned has put its outcome on the ledger: a success
\* that its hand reported, or a failure, which is announced even when an operation
\* raised after the success had been (jobs.py _run_job).
EndIsAnnounced == \A j \in Job : pc[j] = "over" => Announced(j)

\* A job started for t since the process was, over or not.
StartedHere(t) == \E j \in Job : pc[j] \notin {"none", "lost"} /\ owner[j] = t

\* While requests are served, a row that says running belongs to a task that this
\* process has started a job for, never to work that died with an earlier process:
\* whatever the crash interrupted, however often recovery itself was, and whichever
\* request, job or late write marks rows (jobs.py recover_on_boot: "any DB task marked
\* running has lost its supervisor").
RunningHasJob ==
  mode = "up" => \A t \in Task : status[t] = "running" => StartedHere(t)

\* Somebody works on the task, or a request is about to let a job do so.
Served(t) ==
  \/ \E r \in Req : rpc[r] = "start" /\ rtask[r] = t
  \/ \E j \in Job : pc[j] # "none" /\ owner[j] = t

\* It is on its way to a question, whose answer is awaited, or to its cancellation.
Decided(t) ==
  \/ \E r \in Req : rpc[r] \in {"ask", "kill"} /\ rtask[r] = t
  \/ \E a \in Approval : apv[a] = "pending" /\ kind[a] = "start" /\ subject[a] = t

\* Unless an operation raises or the process dies, an approved start is on its way to
\* a job, and a task that says pending waits for a decision that somebody is asked
\* for: neither is lost between the handlers, whichever answers, timeouts and
\* cancellations race (coordinator.py _handle_coding_task and start_approved_task,
\* app.py approve and reject).
NoStartIsLost ==
  mishaps = 0 =>
    /\ \A a \in granted : kind[a] = "start" => Served(subject[a])
    /\ \A t \in Task : status[t] = "pending" => Served(t) \/ Decided(t)

-----------------------------------------------------------------------------
(* What the gate implements *)

Gate == INSTANCE ApprovalGate WITH
          asked <- {a \in Approval : apv[a] # "absent"}

\* The gate, with rows resolved by racing handlers, timeouts, late writes, faults
\* and crashes, keeps the promise made to hands and users (jobs.py
\* _await_approval): at most one answer, and "allow" only after a grant.
GateImplements == Gate!Spec

-----------------------------------------------------------------------------
(* Why the invariants hold: together these formulas, and the invariants above, are
   inductive (proved in ControlPlane_proofs). *)

\* The operands of every step are there when it is taken.
Shape ==
  /\ \A j \in Job :
       /\ owner[j] = None <=> pc[j] = "none"
       /\ pc[j] \in {"store", "tell"} => res[j] \in {"completed", "failed"}
       /\ gate[j] = None <=> gpc[j] = "none"
  /\ \A r \in Req :
       /\ rpc[r] \in {"approve", "yes", "no"} => rapv[r] \in Approval
       /\ rpc[r] \in {"ask", "start", "mark", "kill", "unregister"} => rtask[r] \in Task

Granted(t) == \E a \in granted : kind[a] = "start" /\ subject[a] = t

\* A request that is about to start a job for a task that needs it has a grant,
\* one that answers an approval holds a row and its task.
HasConsent(r) ==
  /\ rpc[r] = "start" /\ NeedsApproval("coding.start_task") => Granted(rtask[r])
  /\ rpc[r] \in {"approve", "yes", "no"} =>
       apv[rapv[r]] # "absent" /\ rtask[r] = subject[rapv[r]]

\* A hand's question belongs to a task that had a job, a steering question to none.
AskedFor(a) ==
  apv[a] # "absent" =>
    /\ kind[a] = "hand" => \E j \in Job : pc[j] # "none" /\ owner[j] = subject[a]
    /\ kind[a] = "steer" => subject[a] = None

\* Every way to a job passes a grant.
Consent ==
  /\ \A r \in Req : HasConsent(r)
  /\ \A a \in Approval : AskedFor(a)
  /\ \A a \in granted : apv[a] # "absent"

\* A gate waits for a row of its own, not answered yet, and lets its hand go on
\* only after a grant.
GateWaits(j) ==
  gpc[j] # "none" =>
    /\ apv[gate[j]] # "absent"
    /\ answer[gate[j]] = "none"
    /\ gpc[j] = "allow" => gate[j] \in granted
    /\ \A i \in Job : gate[i] = gate[j] => i = j

\* A row that says approved was granted; only rows that exist have an answer.
RowAnswered(a) ==
  /\ apv[a] = "absent" => answer[a] = "none"
  /\ apv[a] = "approved" => a \in granted

GateInv ==
  /\ \A j \in Job : GateWaits(j)
  /\ \A a \in Approval : RowAnswered(a)
  /\ \A a \in lateDeny : apv[a] # "absent"

\* What a job has announced at each of its control points.
Announcing ==
  \A j \in Job :
    /\ pc[j] \in {"none", "new", "exec", "store", "tell"} => told[j] = {}
    /\ pc[j] \in {"note", "over"} => Announced(j)

\* Gates wait for, and their timeouts refuse, questions of hands only; the start that
\* is asked for is that of a task; and no write on its way makes a task pending.
RowKinds ==
  /\ \A j \in Job : gpc[j] # "none" => kind[gate[j]] = "hand"
  /\ \A a \in lateDeny : kind[a] = "hand"
  /\ \A a \in Approval : apv[a] # "absent" /\ kind[a] = "start" => subject[a] \in Task
  /\ \A w \in lateStatus : w[2] # "pending"

\* Recovery has every row that still says running on its list, and nobody marks a row
\* running but for a job of this process.
Recovering ==
  /\ mode = "recover" => \A t \in Task : status[t] = "running" => t \in orphans
  /\ \A w \in lateStatus : w[2] = "running" => StartedHere(w[1])
  /\ \A r \in Req : rpc[r] = "mark" => StartedHere(rtask[r])

\* All of it holds in every reachable state, with faults and crashes.
ControlInv ==
  /\ ControlTypeOK /\ Shape /\ Consent /\ GateInv /\ Announcing
  /\ GatedStart /\ LiveJobReachable /\ RowKinds /\ NoStartIsLost
  /\ Recovering /\ RunningHasJob

-----------------------------------------------------------------------------
(* Fairness: the event loop runs every ready coroutine, worker threads run every
   transaction, a hand returns (each has a timeout of its own), and a process that
   died is started again.  Users, hands that ask, faults and crashes are free. *)

OwnStep(j) ==
  \/ JobBegin(j) \/ JobStore(j) \/ JobTell(j) \/ JobNote(j)
  \/ JobFail(j) \/ JobFailTell(j) \/ JobReaped(j)

GateStep(j) == GateResolved(j) \/ GateTimeout(j) \/ GateReturns(j)

Fairness ==
  /\ \A j \in Job :
       /\ WF_vars(OwnStep(j) /\ UNCHANGED <<autonomy, reqVars>>)
       /\ WF_vars(GateStep(j) /\ UNCHANGED <<autonomy, reqVars>>)
       /\ WF_vars(HandReturns(j) /\ UNCHANGED <<autonomy, reqVars>>)
  /\ \A r \in Req : WF_vars(RequestStep(r))
  /\ WF_vars((LateStatusLands \/ LateDenyLands) /\ UNCHANGED <<autonomy, reqVars>>)
  /\ WF_vars(BootStep /\ UNCHANGED <<autonomy, reqVars>>)

LiveSpec == Spec /\ Fairness

\* A hand never waits for ever on its gate, answered or not: "A timeout denies
\* with a reason rather than hanging the hand forever" (jobs.py _await_approval).
GateNeverHangs == \A j \in Job : gpc[j] # "none" ~> gpc[j] = "none"

\* Every job that is started ends and leaves the registry, unless the process dies, and
\* every request is answered (jobs.py _run_job and start, coordinator.py, app.py).
WorkEnds ==
  /\ \A j \in Job : pc[j] \in Live ~> pc[j] \in {"gone", "lost"}
  /\ \A r \in Req : rpc[r] # "idle" ~> rpc[r] = "idle"

\* "I'll start that once you approve" (coordinator.py _handle_coding_task): an
\* approved start is followed by a job.
ApprovedStartHappens ==
  \A a \in Approval :
    a \in granted /\ kind[a] = "start"
      ~> \E j \in Job : pc[j] # "none" /\ owner[j] = subject[a]

=============================================================================
