------------------------- MODULE ControlPlane_proofs -------------------------
(***************************************************************************)
(* Proofs about the control plane, for any numbers of tasks, jobs,         *)
(* approvals, concurrent requests and mishaps.                             *)
(***************************************************************************)
EXTENDS ControlPlane, TLAPS

-----------------------------------------------------------------------------
(* Types and shape *)

USE ConstantsAssumption, RequestsAssumption

\* The process starts with well-formed rows, registry and request slots.
LEMMA TypeInit == ControlInit => ControlTypeOK /\ Shape
  BY DEF ControlInit, Init, ControlTypeOK, TypeOK, Shape, TaskStatus, JobPC, ReqPC

GateTypeOK ==
  /\ gate \in [Job -> Approval \cup {None}]
  /\ gpc \in [Job -> {"none", "poll", "allow", "deny"}]
  /\ \A j \in Job : gate[j] = None <=> gpc[j] = "none"
  /\ lateDeny \in SUBSET Approval

\* A gate that waits has a row.
LEMMA GateHasRow ==
  ASSUME ControlTypeOK, Shape
  PROVE  \A j \in Job : gpc[j] # "none" => gate[j] \in Approval
<1>1. gate \in [Job -> Approval \cup {None}]
  BY DEF ControlTypeOK, TypeOK
<1>2. \A j \in Job : gate[j] = None <=> gpc[j] = "none"
  BY DEF Shape
<1>3. QED  BY <1>1, <1>2

\* Tearing a gate down leaves the memory of the gates well formed.
LEMMA DropGateType ==
  ASSUME NEW j \in Job, GateTypeOK, DropGate(j)
  PROVE  GateTypeOK' /\ answer' = answer
  BY DEF GateTypeOK, DropGate

\* So does cancelling whatever job a task has in the registry.
LEMMA CancelType ==
  ASSUME NEW t \in Task, GateTypeOK, CancelRegistered(t),
         registry \in [Task -> Job \cup {None}], pc \in [Job -> JobPC],
         told \in [Job -> SUBSET {"completed", "failed"}],
         lateStatus \in SUBSET (Task \X TaskStatus),
         \A j \in Job : pc[j] # "none" => owner[j] \in Task
  PROVE  /\ GateTypeOK' /\ answer' = answer
         /\ registry' \in [Task -> Job \cup {None}]
         /\ told' \in [Job -> SUBSET {"completed", "failed"}]
         /\ lateStatus' \in SUBSET (Task \X TaskStatus)
         /\ \/ pc' = pc
            \/ \E k \in Job : pc[k] \in Live /\ pc' = [pc EXCEPT ![k] = "killed"]
<1> DEFINE k == registry[t]
<1>1. CASE k # None /\ pc[k] \in Live
  <2>1. k \in Job /\ owner[k] \in Task
    BY <1>1 DEF Live
  <2>2. InFlight(k) \subseteq Task \X TaskStatus /\ InAppend(k) \subseteq {"completed", "failed"}
    BY <2>1 DEF InFlight, InAppend
  <2>3. GateTypeOK' /\ answer' = answer
    BY <1>1, <2>1, DropGateType DEF CancelRegistered
  <2>4. lateStatus' \in SUBSET (Task \X TaskStatus)
    BY <1>1, <2>2 DEF CancelRegistered
  <2>5. told' \in [Job -> SUBSET {"completed", "failed"}]
    BY <1>1, <2>1, <2>2 DEF CancelRegistered
  <2> QED
    BY <1>1, <2>1, <2>3, <2>4, <2>5 DEF CancelRegistered
<1>2. CASE ~(k # None /\ pc[k] \in Live)
  BY <1>2 DEF CancelRegistered, gateVars, GateTypeOK
<1> QED
  BY <1>1, <1>2

\* No step of a job, gate, request, worker thread, crash or boot puts a value of a
\* wrong type anywhere, or leaves a step without its operands.
LEMMA TypeStep == ControlTypeOK /\ Shape /\ [Next]_vars => ControlTypeOK' /\ Shape'
<1> SUFFICES ASSUME ControlTypeOK, Shape, [Next]_vars PROVE ControlTypeOK' /\ Shape'
  OBVIOUS
<1> USE DEF ControlTypeOK, TypeOK, Shape, JobPC, TaskStatus, ReqPC, apvVars, gateVars, jobVars, reqVars
<1>0. GateTypeOK
  BY DEF GateTypeOK
<1>10. \A j \in Job : pc[j] # "none" => owner[j] \in Task
  OBVIOUS
<1>1. ASSUME NEW j \in Job, JobStep(j), UNCHANGED <<autonomy, reqVars>>
      PROVE  ControlTypeOK' /\ Shape'
  <2> USE <1>1
  <2>1. CASE JobBegin(j)
    <3>1. /\ status' \in [Task -> TaskStatus \cup {"absent"}]
          /\ pc[j] = "new" /\ pc' = [pc EXCEPT ![j] = "exec"]
      BY <2>1 DEF JobBegin, Goto, SetStatus
    <3>2. UNCHANGED <<mode, orphans, owner, registry, lateStatus, mishaps, apvVars, told, res,
                      gateVars>>
      BY <2>1 DEF JobBegin, Goto
    <3> QED
      BY <3>1, <3>2
  <2>2. CASE HandReturns(j)
    BY <2>2 DEF HandReturns, Goto
  <2>3. CASE HandTimesOut(j)
    <3>1. GateTypeOK' /\ answer' = answer
      BY <1>0, <2>3, DropGateType DEF HandTimesOut
    <3> QED
      BY <2>3, <3>1 DEF HandTimesOut, Goto, GateTypeOK, DropGate
  <2>16. CASE HandDegrades(j)
    <3>1. GateTypeOK' /\ answer' = answer
      BY <1>0, <2>16, DropGateType DEF HandDegrades
    <3> QED
      BY <2>16, <3>1 DEF HandDegrades, GateTypeOK
  <2>4. CASE JobStore(j)
    BY <2>4 DEF JobStore, Goto, SetStatus
  <2>5. CASE JobTell(j)
    BY <2>5 DEF JobTell, Goto
  <2>6. CASE JobNote(j)
    BY <2>6 DEF JobNote, Goto
  <2>7. CASE JobFail(j)
    BY <2>7 DEF JobFail, Goto, SetStatus
  <2>8. CASE JobFailTell(j)
    BY <2>8 DEF JobFailTell, Goto
  <2>9. CASE JobReaped(j)
    BY <2>9 DEF JobReaped, Finished
  <2>10. CASE GateAsk(j)
    BY <2>10 DEF GateAsk, InsertApproval, FreshApproval
  <2>11. CASE GateResolved(j)
    BY <2>11 DEF GateResolved
  <2>12. CASE GateTimeout(j)
    BY <2>12 DEF GateTimeout
  <2>13. CASE GateReturns(j)
    BY <2>13 DEF GateReturns
  <2>14. CASE JobFault(j)
    BY <2>14 DEF JobFault
  <2>15. CASE GateFault(j)
    BY <2>15 DEF GateFault
  <2> QED
    BY <2>1, <2>2, <2>3, <2>4, <2>5, <2>6, <2>7, <2>8, <2>9, <2>10, <2>11, <2>12,
       <2>13, <2>14, <2>15, <2>16 DEF JobStep
<1>2. ASSUME LateStatusLands \/ LateDenyLands \/ BootStep,
             UNCHANGED <<autonomy, reqVars>>
      PROVE  ControlTypeOK' /\ Shape'
  <2> USE <1>2
  <2>1. CASE LateStatusLands
    BY <2>1 DEF LateStatusLands, SetStatus
  <2>2. CASE LateDenyLands
    BY <2>2 DEF LateDenyLands
  <2>3. CASE BootStep
    <3>1. /\ mode' \in {"up", "down", "recover"} /\ orphans' \in SUBSET Task
          /\ status' \in [Task -> TaskStatus \cup {"absent"}]
      BY <2>3 DEF BootStep, BootReads, Recover, Boot, BootDies, SetStatus
    <3>2. UNCHANGED <<told, owner, pc, res, registry, lateStatus, mishaps, apvVars, gateVars>>
      BY <2>3 DEF BootStep, BootReads, Recover, Boot, BootDies
    <3> QED
      BY <3>1, <3>2
  <2> QED
    BY <1>2, <2>1, <2>2, <2>3
<1>3. ASSUME NEW r \in Req, RequestArrives(r)
      PROVE  ControlTypeOK' /\ Shape'
  <2>1. CASE \E t \in Task : SubmitCoding(r, t)
    BY <2>1 DEF SubmitCoding, Accept, SetStatus
  <2>2. CASE \E a \in Approval : \E step \in {"approve", "yes", "no"} : ApiAnswer(r, a, step)
    <3>1. /\ rpc' \in [Req -> ReqPC] /\ rtask' \in [Req -> Task \cup {None}]
          /\ rapv' \in [Req -> Approval \cup {None}] /\ autonomy' = autonomy
          /\ \A q \in Req :
               /\ rpc'[q] \in {"approve", "yes", "no"} => rapv'[q] \in Approval
               /\ rpc'[q] \in {"ask", "start", "mark", "kill", "unregister"} => rtask'[q] \in Task
      BY <2>2 DEF ApiAnswer, Accept
    <3>2. UNCHANGED jobsVars
      BY <2>2 DEF ApiAnswer
    <3> QED
      BY <3>1, <3>2 DEF jobsVars, dbVars
  <2>3. CASE \E t \in Task : CancelTask(r, t)
    BY <2>3 DEF CancelTask, Accept, jobsVars, dbVars
  <2> QED
    BY <1>3, <2>1, <2>2, <2>3 DEF RequestArrives, ChatAnswer
<1>4. ASSUME NEW r \in Req, RequestStep(r) \/ RequestFault(r)
      PROVE  ControlTypeOK' /\ Shape'
  <2>1. CASE AskApproval(r)
    BY <2>1 DEF AskApproval, At, Advance, InsertApproval
  <2>2. CASE Resolve(r)
    <3> DEFINE yes == rpc[r] \in {"approve", "yes"}
    <3>1. /\ apv' \in [Approval -> {"absent", "pending", "approved", "rejected"}]
          /\ granted' \in SUBSET Approval
          /\ UNCHANGED <<jobVars, kind, subject, gateVars>>
      BY <2>2 DEF Resolve
    <3>2. \/ Advance(r, "idle")
          \/ rtask[r] # None /\ \E to \in {"start", "kill"} : Advance(r, to)
      BY <2>2 DEF Resolve
    <3>3. /\ rpc' \in [Req -> ReqPC] /\ rtask' \in [Req -> Task \cup {None}]
          /\ rapv' \in [Req -> Approval \cup {None}] /\ autonomy' = autonomy
          /\ \A q \in Req :
               /\ rpc'[q] \in {"approve", "yes", "no"} => rapv'[q] \in Approval
               /\ rpc'[q] \in {"ask", "start", "mark", "kill", "unregister"} => rtask'[q] \in Task
      BY <3>2 DEF Advance
    <3> QED
      BY <3>1, <3>3
  <2>3. CASE Start(r)
    BY <2>3 DEF Start, At, Advance, StartJob, FreshJob
  <2>4. CASE Mark(r)
    BY <2>4 DEF Mark, At, Advance, SetStatus
  <2>5. CASE KillRow(r)
    BY <2>5 DEF KillRow, At, Advance, SetStatus
  <2>6. CASE KillJob(r)
    <3>1. rtask[r] \in Task
      BY <2>6 DEF KillJob, At
    <3>2. /\ GateTypeOK' /\ answer' = answer
          /\ registry' \in [Task -> Job \cup {None}]
          /\ told' \in [Job -> SUBSET {"completed", "failed"}]
          /\ lateStatus' \in SUBSET (Task \X TaskStatus)
          /\ \/ pc' = pc
             \/ \E k \in Job : pc[k] \in Live /\ pc' = [pc EXCEPT ![k] = "killed"]
      BY <1>0, <1>10, <2>6, <3>1, CancelType DEF KillJob
    <3> QED
      BY <2>6, <3>2 DEF KillJob, At, Advance, GateTypeOK, Live
  <2>7. CASE RequestFault(r)
    BY <2>7 DEF RequestFault, Advance
  <2> QED
    BY <1>4, <2>1, <2>2, <2>3, <2>4, <2>5, <2>6, <2>7 DEF RequestStep
<1>5. CASE SubmitSteering
  BY <1>5 DEF SubmitSteering, InsertApproval
<1>6. CASE CrashAll
  BY <1>6 DEF CrashAll, Crash
<1>7. CASE UNCHANGED vars
  BY <1>7 DEF vars, jobsVars, dbVars
<1> QED
  BY <1>1, <1>2, <1>3, <1>4, <1>5, <1>6, <1>7 DEF Next, JobsNext

\* Rows, registry, gates and requests stay well formed whatever jobs.py, coordinator.py
\* and app.py do, for any number of tasks, jobs, approvals and requests.
THEOREM TypesCorrect == Spec => []ControlTypeOK
<1>1. Spec => [](ControlTypeOK /\ Shape)
  BY TypeInit, TypeStep, PTL DEF Spec
<1> QED
  BY <1>1, PTL

-----------------------------------------------------------------------------
(* Consent *)

\* What Consent and GatedStart are about, and its types.
ConsentTypes ==
  /\ apv \in [Approval -> {"absent", "pending", "approved", "rejected"}]
  /\ kind \in [Approval -> {"start", "steer", "hand"}]
  /\ subject \in [Approval -> Task \cup {None}]
  /\ granted \in SUBSET Approval
  /\ owner \in [Job -> Task \cup {None}]
  /\ pc \in [Job -> JobPC]
  /\ rpc \in [Req -> ReqPC]
  /\ rtask \in [Req -> Task \cup {None}]
  /\ rapv \in [Req -> Approval \cup {None}]
  /\ \A r \in Req : rpc[r] \in {"approve", "yes", "no"} => rapv[r] \in Approval
  /\ \A j \in Job : owner[j] = None <=> pc[j] = "none"

\* Most steps move jobs, or overwrite the status of an approval, and no more.
ConsentFrame ==
  /\ UNCHANGED <<kind, subject, granted, owner>>
  /\ \A j \in Job : pc'[j] = "none" <=> pc[j] = "none"
  /\ \A a \in Approval : apv'[a] = "absent" <=> apv[a] = "absent"

\* A request comes to none of the steps that matter, or stays where it is.
Harmless(r) ==
  \/ rpc'[r] \in {"idle", "ask", "mark", "kill", "unregister"}
  \/ rpc'[r] = rpc[r] /\ rtask'[r] = rtask[r] /\ rapv'[r] = rapv[r]

\* A handler that only moves to a step without side conditions keeps its consent.
LEMMA HarmlessKeepsConsent ==
  ASSUME ConsentTypes, NEW r \in Req, HasConsent(r), Harmless(r),
         UNCHANGED <<kind, subject, autonomy>>, granted \subseteq granted',
         \A a \in Approval : apv[a] # "absent" => apv'[a] # "absent"
  PROVE  HasConsent(r)'
<1>1. Granted(rtask[r]) /\ rtask'[r] = rtask[r] => Granted(rtask[r])'
  BY DEF Granted
<1>2. NeedsApproval("coding.start_task")' = NeedsApproval("coding.start_task")
  BY DEF NeedsApproval
<1>3. CASE rpc'[r] \in {"idle", "ask", "mark", "kill", "unregister"}
  BY <1>3 DEF HasConsent
<1>4. CASE rpc'[r] = rpc[r] /\ rtask'[r] = rtask[r] /\ rapv'[r] = rapv[r]
  BY <1>1, <1>2, <1>4 DEF HasConsent, ConsentTypes
<1> QED
  BY <1>3, <1>4 DEF Harmless

\* A step within the frame keeps consent if every request it touches has it.
LEMMA FrameKeepsConsent ==
  ASSUME ConsentTypes, Consent, GatedStart, ConsentFrame, autonomy' = autonomy,
         \A r \in Req : Harmless(r) \/ HasConsent(r)'
  PROVE  Consent' /\ GatedStart'
<1>1. NeedsApproval("coding.start_task")' = NeedsApproval("coding.start_task")
  BY DEF NeedsApproval
<1>2. \A r \in Req : HasConsent(r)'
  BY HarmlessKeepsConsent DEF Consent, ConsentFrame
<1>3. \A a \in Approval : AskedFor(a)'
  BY DEF Consent, AskedFor, ConsentFrame
<1>4. \A a \in granted' : apv'[a] # "absent"
  BY DEF Consent, ConsentFrame, ConsentTypes
<1>5. GatedStart'
  BY <1>1 DEF GatedStart, ConsentFrame
<1> QED
  BY <1>2, <1>3, <1>4, <1>5 DEF Consent

\* A row that is inserted is not the row of any earlier grant.
LEMMA InsertKeepsConsent ==
  ASSUME ConsentTypes, Consent, GatedStart, UNCHANGED <<autonomy, granted, owner, pc>>,
         NEW a \in Approval, NEW k, NEW t, InsertApproval(a, k, t),
         k \in {"start", "steer", "hand"},
         k = "hand" => \E j \in Job : pc[j] # "none" /\ owner[j] = t,
         k = "steer" => t = None,
         \A r \in Req : Harmless(r)
  PROVE  Consent' /\ GatedStart'
<1>1. apv[a] = "absent" /\ a \notin granted
  BY DEF InsertApproval, FreshApproval, Consent
<1>2. \A b \in Approval \ {a} : apv'[b] = apv[b] /\ kind'[b] = kind[b] /\ subject'[b] = subject[b]
  BY DEF InsertApproval, ConsentTypes
<1>3. apv'[a] = "pending" /\ kind'[a] = k /\ subject'[a] = t
  BY DEF InsertApproval, ConsentTypes
<1>4. NeedsApproval("coding.start_task")' = NeedsApproval("coding.start_task")
  BY DEF NeedsApproval
<1>5. ASSUME NEW r \in Req PROVE HasConsent(r)'
  <2>1. /\ rpc[r] = "start" /\ NeedsApproval("coding.start_task") => Granted(rtask[r])
        /\ rpc[r] \in {"approve", "yes", "no"} =>
             rapv[r] \in Approval \ {a} /\ apv[rapv[r]] # "absent" /\ rtask[r] = subject[rapv[r]]
    BY <1>1 DEF Consent, HasConsent, ConsentTypes
  <2>2. Granted(rtask[r]) /\ rtask'[r] = rtask[r] => Granted(rtask[r])'
    BY <1>1, <1>2 DEF Granted, ConsentTypes
  <2>3. CASE rpc'[r] \in {"idle", "ask", "mark", "kill", "unregister"}
    BY <2>3 DEF HasConsent
  <2>4. CASE rpc'[r] = rpc[r] /\ rtask'[r] = rtask[r] /\ rapv'[r] = rapv[r]
    BY <1>2, <1>4, <2>1, <2>2, <2>4 DEF HasConsent
  <2> QED
    BY <2>3, <2>4 DEF Harmless
<1>6. ASSUME NEW b \in Approval PROVE AskedFor(b)'
  <2>1. CASE b = a
    BY <1>3, <2>1 DEF AskedFor
  <2>2. CASE b # a
    BY <1>2, <2>2 DEF Consent, AskedFor
  <2> QED
    BY <2>1, <2>2
<1>7. \A b \in granted' : apv'[b] # "absent"
  BY <1>1, <1>2 DEF Consent, ConsentTypes
<1>8. GatedStart'
  BY <1>1, <1>2, <1>4 DEF GatedStart, ConsentTypes
<1> QED
  BY <1>5, <1>6, <1>7, <1>8 DEF Consent

\* Every step keeps the chain of consent from a person's yes to a started job.
LEMMA ConsentStep ==
  ASSUME ControlTypeOK, Shape, GateInv, Consent, GatedStart, [Next]_vars
  PROVE  Consent' /\ GatedStart'
<1>1. ConsentTypes
  BY DEF ControlTypeOK, TypeOK, Shape, ConsentTypes
<1>2. (\A r \in Req : Harmless(r)) /\ autonomy' = autonomy /\ ConsentFrame => Consent' /\ GatedStart'
  BY <1>1, FrameKeepsConsent
<1>3. ASSUME NEW j \in Job, JobStep(j), UNCHANGED <<autonomy, reqVars>>
      PROVE  Consent' /\ GatedStart'
  <2>1. CASE GateAsk(j)
    <3>1. PICK a \in Approval : InsertApproval(a, "hand", owner[j])
      BY <2>1 DEF GateAsk
    <3>2. pc[j] # "none" /\ UNCHANGED <<granted, owner, pc>>
      BY <2>1 DEF GateAsk, jobVars
    <3> QED
      BY <1>1, <1>3, <3>1, <3>2, InsertKeepsConsent DEF Harmless, reqVars
  <2>2. CASE ~GateAsk(j)
    <3>1. UNCHANGED <<kind, subject, granted, owner>>
      BY <1>3, <2>2 DEF JobStep, JobBegin, HandReturns, HandTimesOut, HandDegrades, JobStore,
         JobTell, JobNote, JobFail, JobFailTell, JobReaped, JobFault, GateFault, GateResolved,
         GateTimeout, GateReturns, Goto, apvVars, jobVars
    <3>2. \A i \in Job : pc'[i] = "none" <=> pc[i] = "none"
      BY <1>1, <1>3, <2>2 DEF JobStep, JobBegin, HandReturns, HandTimesOut, HandDegrades,
         JobStore, JobTell, JobNote, JobFail, JobFailTell, JobReaped, JobFault, GateFault,
         GateResolved, GateTimeout, GateReturns, Goto, jobVars, Finished, ConsentTypes
    <3>3. \A a \in Approval : apv'[a] = "absent" <=> apv[a] = "absent"
      <4>1. CASE GateTimeout(j)
        <5>1. gpc[j] # "none" /\ apv[gate[j]] # "absent"
          BY <4>1 DEF GateTimeout, GateInv, GateWaits
        <5>2. gate[j] \in Approval
          BY <1>3, <5>1, GateHasRow
        <5> QED
          BY <1>1, <4>1, <5>1, <5>2 DEF GateTimeout, ConsentTypes
      <4>2. CASE ~GateTimeout(j)
        BY <1>3, <2>2, <4>2 DEF JobStep, JobBegin, HandReturns, HandTimesOut, HandDegrades,
           JobStore, JobTell, JobNote, JobFail, JobFailTell, JobReaped, JobFault, GateFault,
           GateResolved, GateReturns, Goto, apvVars
      <4> QED
        BY <4>1, <4>2
    <3> QED
      BY <1>2, <1>3, <3>1, <3>2, <3>3 DEF ConsentFrame, Harmless, reqVars
  <2> QED
    BY <2>1, <2>2
<1>4. ASSUME LateStatusLands \/ LateDenyLands \/ BootStep,
             UNCHANGED <<autonomy, reqVars>>
      PROVE  Consent' /\ GatedStart'
  <2>1. UNCHANGED <<kind, subject, granted, owner, pc>>
    BY <1>4 DEF LateStatusLands, LateDenyLands, BootStep, BootReads, Recover, Boot, BootDies,
                apvVars, jobVars
  <2>2. \A a \in Approval : apv'[a] = "absent" <=> apv[a] = "absent"
    BY <1>1, <1>4 DEF LateStatusLands, LateDenyLands, BootStep, BootReads, Recover, Boot, BootDies,
      apvVars, ConsentTypes,
       GateInv, ControlTypeOK, TypeOK
  <2> QED
    BY <1>2, <1>4, <2>1, <2>2 DEF ConsentFrame, Harmless, reqVars
<1>5. ASSUME NEW r \in Req, RequestArrives(r)
      PROVE  Consent' /\ GatedStart'
  <2>1. ConsentFrame /\ autonomy' = autonomy
    BY <1>5 DEF RequestArrives, SubmitCoding, ApiAnswer, ChatAnswer, CancelTask, Accept,
       ConsentFrame, jobsVars, dbVars, apvVars
  <2>2. \A q \in Req \ {r} : Harmless(q)
    BY <1>1, <1>5 DEF RequestArrives, SubmitCoding, ApiAnswer, ChatAnswer, CancelTask, Accept,
       Harmless, ConsentTypes
  <2>3. CASE \E t \in Task : SubmitCoding(r, t)
    <3>1. Harmless(r) \/ HasConsent(r)'
      <4>1. PICK t \in Task :
              Accept(r, IF NeedsApproval("coding.start_task") THEN "ask" ELSE "start", t, None)
        BY <2>3 DEF SubmitCoding
      <4>2. rpc'[r] = IF NeedsApproval("coding.start_task") THEN "ask" ELSE "start"
        BY <1>1, <4>1 DEF Accept, ConsentTypes
      <4> QED
        BY <2>1, <4>2 DEF Harmless, HasConsent, NeedsApproval
    <3> QED
      BY <1>1, <2>1, <2>2, <3>1, FrameKeepsConsent
  <2>4. CASE \E a \in Approval : \E step \in {"approve", "yes", "no"} : ApiAnswer(r, a, step)
    <3>1. /\ rpc'[r] \in {"approve", "yes", "no"} /\ rapv'[r] \in Approval
          /\ apv[rapv'[r]] # "absent" /\ rtask'[r] = subject[rapv'[r]]
      BY <1>1, <2>4 DEF ApiAnswer, Accept, ConsentTypes
    <3>2. HasConsent(r)'
      BY <2>1, <3>1 DEF HasConsent, ConsentFrame
    <3> QED
      BY <1>1, <2>1, <2>2, <3>2, FrameKeepsConsent
  <2>5. CASE \E t \in Task : CancelTask(r, t)
    <3>1. Harmless(r)
      BY <1>1, <2>5 DEF CancelTask, Accept, Harmless, ConsentTypes
    <3> QED
      BY <1>2, <2>1, <2>2, <3>1
  <2> QED
    BY <1>5, <2>3, <2>4, <2>5 DEF RequestArrives, ChatAnswer
<1>6. ASSUME NEW r \in Req, AskApproval(r)
      PROVE  Consent' /\ GatedStart'
  <2>1. PICK a \in Approval : InsertApproval(a, "start", rtask[r])
    BY <1>6 DEF AskApproval
  <2>2. UNCHANGED <<autonomy, granted, owner, pc>>
    BY <1>6 DEF AskApproval, Advance, jobVars
  <2>3. \A q \in Req : Harmless(q)
    BY <1>1, <1>6 DEF AskApproval, Advance, Harmless, ConsentTypes
  <2> QED
    BY <1>1, <2>1, <2>2, <2>3, InsertKeepsConsent
<1>7. CASE SubmitSteering
  <2>1. PICK a \in Approval : InsertApproval(a, "steer", None)
    BY <1>7 DEF SubmitSteering
  <2>2. UNCHANGED <<autonomy, granted, owner, pc>> /\ \A q \in Req : Harmless(q)
    BY <1>7 DEF SubmitSteering, jobVars, reqVars, Harmless
  <2> QED
    BY <1>1, <2>1, <2>2, InsertKeepsConsent
<1>8. ASSUME NEW r \in Req, Mark(r) \/ KillRow(r) \/ KillJob(r) \/ RequestFault(r)
      PROVE  Consent' /\ GatedStart'
  <2>1. UNCHANGED <<apvVars, owner, autonomy>>
    BY <1>8 DEF Mark, KillRow, KillJob, RequestFault, Advance
  <2>2. \A q \in Req : Harmless(q)
    BY <1>1, <1>8 DEF Mark, KillRow, KillJob, RequestFault, Advance, Harmless, ConsentTypes
  <2>3. \A j \in Job : pc'[j] = "none" <=> pc[j] = "none"
    BY <1>1, <1>8 DEF Mark, KillRow, KillJob, RequestFault, CancelRegistered, Live, ConsentTypes
  <2> QED
    BY <1>2, <2>1, <2>2, <2>3 DEF ConsentFrame, apvVars
<1>9. CASE CrashAll
  <2>1. UNCHANGED <<apvVars, owner, autonomy>> /\ \A q \in Req : Harmless(q)
    BY <1>9 DEF CrashAll, Crash, Harmless
  <2>2. \A j \in Job : pc'[j] = "none" <=> pc[j] = "none"
    BY <1>9 DEF CrashAll, Crash
  <2> QED
    BY <1>2, <2>1, <2>2 DEF ConsentFrame, apvVars
<1>10. ASSUME NEW r \in Req, Resolve(r)
       PROVE  Consent' /\ GatedStart'
  <2> DEFINE a == rapv[r]
  <2>1. /\ a \in Approval /\ apv[a] # "absent" /\ rtask[r] = subject[a]
        /\ rpc[r] \in {"approve", "yes", "no"}
    BY <1>1, <1>10 DEF Resolve, Consent, HasConsent, ConsentTypes
  <2>2. /\ UNCHANGED <<kind, subject, owner, pc, autonomy>>
        /\ \A b \in Approval : apv'[b] = "absent" <=> apv[b] = "absent"
        /\ granted \subseteq granted' /\ granted' \subseteq granted \cup {a}
        /\ rpc[r] \in {"approve", "yes"} => a \in granted'
    BY <1>1, <1>10, <2>1 DEF Resolve, Advance, jobVars, ConsentTypes
  <2>3. /\ \A q \in Req \ {r} : Harmless(q)
        /\ rpc'[r] \in {"idle", "start", "kill"}
        /\ rpc'[r] = "start" => /\ rpc[r] \in {"approve", "yes"} /\ rtask'[r] = rtask[r]
                                /\ rtask[r] # None
                                /\ rpc[r] = "approve" => kind[a] = "start"
    BY <1>1, <1>10, <2>1 DEF Resolve, Advance, Harmless, ConsentTypes
  <2>4. GatedStart'
    BY <2>2 DEF GatedStart, NeedsApproval
  <2>5. ASSUME rpc'[r] = "start", NeedsApproval("coding.start_task")
        PROVE  Granted(rtask[r])'
    <3>1. rtask'[r] = subject[a] /\ a \in granted' /\ subject[a] # None
      BY <2>1, <2>2, <2>3, <2>5
    <3>2. CASE kind[a] = "start"
      BY <2>2, <3>1, <3>2 DEF Granted
    <3>3. CASE kind[a] = "hand"
      <4>1. PICK j \in Job : pc[j] # "none" /\ owner[j] = subject[a]
        BY <2>1, <3>3 DEF Consent, AskedFor
      <4>2. Granted(subject[a])
        BY <2>5, <4>1 DEF GatedStart, Granted
      <4> QED
        BY <2>2, <3>1, <4>2 DEF Granted
    <3>4. CASE kind[a] = "steer"
      BY <2>1, <3>1, <3>4 DEF Consent, AskedFor
    <3> QED
      BY <1>1, <2>1, <3>2, <3>3, <3>4 DEF ConsentTypes
  <2>6. HasConsent(r)'
    BY <2>2, <2>3, <2>5 DEF HasConsent, NeedsApproval
  <2>7. \A q \in Req \ {r} : HasConsent(q)'
    BY <1>1, <2>2, <2>3, HarmlessKeepsConsent DEF Consent
  <2>8. \A b \in Approval : AskedFor(b)'
    BY <2>2 DEF Consent, AskedFor
  <2>9. \A b \in granted' : apv'[b] # "absent"
    BY <1>1, <2>1, <2>2 DEF Consent, ConsentTypes
  <2> QED
    BY <2>4, <2>6, <2>7, <2>8, <2>9 DEF Consent
<1>11. ASSUME NEW r \in Req, Start(r)
       PROVE  Consent' /\ GatedStart'
  <2>1. PICK j \in Job : StartJob(rtask[r], j)
    BY <1>11 DEF Start
  <2>2. rpc[r] = "start" /\ UNCHANGED <<apv, kind, subject, granted, autonomy>>
    BY <1>11 DEF Start, At, Advance, apvVars
  <2>3. /\ pc[j] = "none" /\ pc'[j] = "new" /\ owner'[j] = rtask[r]
        /\ \A i \in Job \ {j} : pc'[i] = pc[i] /\ owner'[i] = owner[i]
    BY <1>1, <2>1 DEF StartJob, FreshJob, ConsentTypes
  <2>4. \A q \in Req : Harmless(q)
    BY <1>1, <1>11 DEF Start, At, Advance, Harmless, ConsentTypes
  <2>5. NeedsApproval("coding.start_task")' = NeedsApproval("coding.start_task")
    BY <2>2 DEF NeedsApproval
  <2>6. GatedStart'
    <3> SUFFICES ASSUME NEW i \in Job, pc'[i] # "none", NeedsApproval("coding.start_task")
                 PROVE  \E a \in granted : kind[a] = "start" /\ subject[a] = owner'[i]
      BY <2>2, <2>5 DEF GatedStart
    <3>1. CASE i = j
      <4>1. Granted(rtask[r])
        BY <2>2 DEF Consent, HasConsent
      <4> QED
        BY <2>3, <3>1, <4>1 DEF Granted
    <3>2. CASE i # j
      BY <2>3, <3>2 DEF GatedStart
    <3> QED
      BY <3>1, <3>2
  <2>7. \A q \in Req : HasConsent(q)'
    BY <1>1, <2>2, <2>4, HarmlessKeepsConsent DEF Consent
  <2>8. \A b \in Approval : AskedFor(b)'
    BY <2>2, <2>3 DEF Consent, AskedFor
  <2> QED
    BY <2>2, <2>6, <2>7, <2>8 DEF Consent
<1>12. CASE UNCHANGED vars
  <2>1. ConsentFrame /\ autonomy' = autonomy /\ \A q \in Req : Harmless(q)
    BY <1>12 DEF vars, jobsVars, dbVars, reqVars, ConsentFrame, Harmless
  <2> QED
    BY <1>2, <2>1
<1> QED
  BY <1>3, <1>4, <1>5, <1>6, <1>7, <1>8, <1>9, <1>10, <1>11, <1>12
  DEF Next, JobsNext, RequestStep

-----------------------------------------------------------------------------
(* Gates *)

\* What GateInv is about, and its types.
GateTypes ==
  /\ apv \in [Approval -> {"absent", "pending", "approved", "rejected"}]
  /\ granted \in SUBSET Approval
  /\ answer \in [Approval -> {"none", "allow", "deny"}]
  /\ GateTypeOK

\* Most steps leave the gates alone, delete no row, and approve none without a
\* grant.
GateFrame ==
  /\ UNCHANGED gateVars
  /\ granted \subseteq granted'
  /\ \A a \in Approval : /\ apv[a] # "absent" => apv'[a] # "absent"
                         /\ apv'[a] = "approved" => a \in granted'

\* A step that leaves the gates alone, and approves no row without a grant, keeps
\* what the gates rely on.
LEMMA FrameKeepsGate ==
  ASSUME GateTypes, GateInv, GateFrame
  PROVE  GateInv'
<1>1. ASSUME NEW j \in Job PROVE GateWaits(j)'
  <2>1. gpc[j] # "none" => gate[j] \in Approval
    BY DEF GateTypes, GateTypeOK
  <2> QED
    BY <2>1 DEF GateInv, GateWaits, GateFrame, gateVars
<1>2. \A a \in Approval : RowAnswered(a)'
  BY DEF GateInv, RowAnswered, GateFrame, gateVars
<1>3. \A a \in lateDeny' : apv'[a] # "absent"
  BY DEF GateTypes, GateTypeOK, GateInv, GateFrame, gateVars
<1> QED
  BY <1>1, <1>2, <1>3 DEF GateInv

\* A new approval row disturbs no gate: its id is fresh.
LEMMA InsertKeepsGate ==
  ASSUME GateTypes, GateInv, UNCHANGED <<gateVars, granted>>,
         NEW a \in Approval, NEW k, NEW t, InsertApproval(a, k, t)
  PROVE  GateInv'
<1>1. GateFrame
  BY DEF GateTypes, GateInv, RowAnswered, InsertApproval, FreshApproval, GateFrame
<1> QED
  BY <1>1, FrameKeepsGate

\* Tearing one gate down (cancellation, a hand's timeout) disturbs no other.
LEMMA DropKeepsGate ==
  ASSUME GateTypes, GateInv, NEW j \in Job, DropGate(j), UNCHANGED <<apv, granted>>
  PROVE  GateInv'
<1>1. \A i \in Job \ {j} : gate'[i] = gate[i] /\ gpc'[i] = gpc[i]
  BY DEF DropGate, GateTypes, GateTypeOK
<1>2. gate'[j] = None /\ gpc'[j] = "none" /\ answer' = answer
  BY DEF DropGate, GateTypes, GateTypeOK
<1>3. \A a \in lateDeny' : apv'[a] # "absent"
  <2>1. gpc[j] = "poll" => apv[gate[j]] # "absent"
    BY DEF GateInv, GateWaits
  <2> QED
    BY <2>1 DEF DropGate, GateInv
<1>4. \A i \in Job \ {j} : gpc[i] # "none" => gate[i] \in Approval
  BY DEF GateTypes, GateTypeOK
<1> QED
  BY <1>1, <1>2, <1>3, <1>4 DEF GateInv, GateWaits, RowAnswered

\* Every step keeps the relation between gates, approval rows and answers.
LEMMA GateInvStep ==
  ASSUME ControlTypeOK, Shape, Consent, GateInv, [Next]_vars
  PROVE  GateInv'
<1>1. GateTypes
  BY DEF ControlTypeOK, TypeOK, Shape, GateTypes, GateTypeOK
<1>2. UNCHANGED <<gateVars, apv, granted>> => GateInv'
  BY <1>1, FrameKeepsGate DEF GateFrame, GateInv, RowAnswered
<1>3. ASSUME NEW j \in Job, JobStep(j)
      PROVE  GateInv'
  <2>1. CASE HandTimesOut(j) \/ HandDegrades(j)
    BY <1>1, <2>1, DropKeepsGate DEF HandTimesOut, HandDegrades, Goto, apvVars
  <2>2. CASE GateAsk(j)
    <3>1. PICK a \in Approval : /\ InsertApproval(a, "hand", owner[j])
                                /\ gate' = [gate EXCEPT ![j] = a]
      BY <2>2 DEF GateAsk
    <3>2. /\ \A i \in Job \ {j} : gate'[i] = gate[i] /\ gpc'[i] = gpc[i]
          /\ gate'[j] = a /\ gpc'[j] = "poll" /\ UNCHANGED <<granted, answer, lateDeny>>
      BY <1>1, <2>2, <3>1 DEF GateAsk, GateTypes, GateTypeOK
    <3>3. /\ apv[a] = "absent" /\ apv'[a] = "pending"
          /\ \A b \in Approval \ {a} : apv'[b] = apv[b]
      BY <1>1, <3>1 DEF InsertApproval, FreshApproval, GateTypes
    <3>4. \A i \in Job : gate[i] # a /\ (gpc[i] # "none" => gate[i] \in Approval)
      BY <1>1, <3>3 DEF GateInv, GateWaits, GateTypes, GateTypeOK
    <3>5. answer[a] = "none" /\ a \notin lateDeny
      BY <3>3 DEF GateInv, RowAnswered
    <3>6. ASSUME NEW i \in Job PROVE GateWaits(i)'
      <4>1. CASE i = j
        BY <3>2, <3>3, <3>4, <3>5, <4>1 DEF GateWaits
      <4>2. CASE i # j
        <5>1. GateWaits(i)
          BY DEF GateInv
        <5> QED
          BY <3>2, <3>3, <3>4, <4>2, <5>1 DEF GateWaits
      <4> QED
        BY <4>1, <4>2
    <3>7. \A b \in Approval : RowAnswered(b)'
      BY <3>2, <3>3 DEF GateInv, RowAnswered
    <3>8. \A b \in lateDeny' : apv'[b] # "absent"
      BY <1>1, <3>2, <3>3, <3>5 DEF GateInv, GateTypes, GateTypeOK
    <3> QED
      BY <3>6, <3>7, <3>8 DEF GateInv
  <2>3. CASE GateResolved(j)
    <3>1. gate[j] \in Approval
      BY <1>1, <2>3 DEF GateResolved, GateTypes, GateTypeOK
    <3>2. /\ UNCHANGED <<apv, granted, gate, answer, lateDeny>>
          /\ \A i \in Job \ {j} : gpc'[i] = gpc[i]
          /\ gpc[j] # "none" /\ gpc'[j] = "allow" => gate[j] \in granted
      BY <1>1, <2>3, <3>1 DEF GateResolved, apvVars, GateTypes, GateTypeOK, GateInv, RowAnswered
    <3> QED
      BY <2>3, <3>2 DEF GateInv, GateWaits, RowAnswered, GateResolved
  <2>4. CASE GateTimeout(j)
    <3>1. gate[j] \in Approval
      BY <1>1, <2>4 DEF GateTimeout, GateTypes, GateTypeOK
    <3>2. /\ UNCHANGED <<granted, gate, answer, lateDeny>>
          /\ \A i \in Job \ {j} : gpc'[i] = gpc[i]
          /\ gpc[j] = "poll" /\ gpc'[j] = "deny"
          /\ apv'[gate[j]] = "rejected"
          /\ \A a \in Approval \ {gate[j]} : apv'[a] = apv[a]
      BY <1>1, <2>4, <3>1 DEF GateTimeout, GateTypes, GateTypeOK
    <3>3. ASSUME NEW i \in Job PROVE GateWaits(i)'
      <4>1. GateWaits(i) /\ (gpc[i] # "none" => gate[i] \in Approval)
        BY <1>1 DEF GateInv, GateTypes, GateTypeOK
      <4> QED
        BY <3>2, <4>1 DEF GateWaits
    <3>4. \A a \in Approval : RowAnswered(a)'
      BY <3>2 DEF GateInv, RowAnswered
    <3>5. \A a \in lateDeny' : apv'[a] # "absent"
      BY <1>1, <3>2 DEF GateInv, GateTypes, GateTypeOK
    <3> QED
      BY <3>3, <3>4, <3>5 DEF GateInv
  <2>5. CASE GateReturns(j) \/ GateFault(j)
    <3>1. gate[j] \in Approval /\ gpc[j] # "none" /\ apv[gate[j]] # "absent"
      BY <1>1, <2>5 DEF GateReturns, GateFault, GateTypes, GateTypeOK, GateInv, GateWaits
    <3>2. /\ UNCHANGED <<apv, granted, lateDeny>>
          /\ \A i \in Job \ {j} : gpc'[i] = gpc[i] /\ gate'[i] = gate[i]
          /\ gpc'[j] = "none" /\ gate'[j] = None
          /\ \A a \in Approval \ {gate[j]} : answer'[a] = answer[a]
      BY <1>1, <2>5 DEF GateReturns, GateFault, apvVars, GateTypes, GateTypeOK
    <3>3. ASSUME NEW i \in Job PROVE GateWaits(i)'
      <4>1. CASE i = j
        BY <3>2, <4>1 DEF GateWaits
      <4>2. CASE i # j
        <5>1. GateWaits(i) /\ (gpc[i] # "none" => gate[i] \in Approval \ {gate[j]})
          BY <1>1, <3>1, <4>2 DEF GateInv, GateWaits, GateTypes, GateTypeOK
        <5> QED
          BY <3>2, <4>2, <5>1 DEF GateWaits
      <4> QED
        BY <4>1, <4>2
    <3>4. \A a \in Approval : RowAnswered(a)'
      BY <3>1, <3>2 DEF GateInv, RowAnswered
    <3> QED
      BY <3>2, <3>3, <3>4 DEF GateInv
  <2>6. CASE \/ JobBegin(j) \/ HandReturns(j) \/ JobStore(j) \/ JobTell(j) \/ JobNote(j)
             \/ JobFail(j) \/ JobFailTell(j) \/ JobReaped(j) \/ JobFault(j)
    BY <1>2, <2>6 DEF JobBegin, HandReturns, JobStore, JobTell, JobNote, JobFail, JobFailTell,
       JobReaped, JobFault, Goto, apvVars
  <2> QED
    BY <1>3, <2>1, <2>2, <2>3, <2>4, <2>5, <2>6 DEF JobStep
<1>4. CASE LateDenyLands
  <2>1. PICK a \in lateDeny : apv' = [apv EXCEPT ![a] = "rejected"] /\ lateDeny' = lateDeny \ {a}
    BY <1>4 DEF LateDenyLands
  <2>2. UNCHANGED <<granted, gate, gpc, answer>>
    BY <1>4 DEF LateDenyLands
  <2>3. a \in Approval /\ apv'[a] = "rejected" /\ \A b \in Approval \ {a} : apv'[b] = apv[b]
    BY <1>1, <2>1 DEF GateTypes, GateTypeOK
  <2>4. ASSUME NEW i \in Job PROVE GateWaits(i)'
    <3>1. GateWaits(i) /\ (gpc[i] # "none" => gate[i] \in Approval)
      BY <1>1 DEF GateInv, GateTypes, GateTypeOK
    <3> QED
      BY <2>2, <2>3, <3>1 DEF GateWaits
  <2>5. \A b \in Approval : RowAnswered(b)'
    BY <2>2, <2>3 DEF GateInv, RowAnswered
  <2>6. \A b \in lateDeny' : apv'[b] # "absent"
    BY <1>1, <2>1, <2>3 DEF GateInv, GateTypes, GateTypeOK
  <2> QED
    BY <2>4, <2>5, <2>6 DEF GateInv
<1>5. CASE LateStatusLands \/ BootStep
  BY <1>2, <1>5 DEF LateStatusLands, BootStep, BootReads, Recover, Boot, BootDies, apvVars
<1>6. ASSUME NEW r \in Req, RequestArrives(r)
      PROVE  GateInv'
  BY <1>2, <1>6 DEF RequestArrives, SubmitCoding, ApiAnswer, ChatAnswer, CancelTask, apvVars,
     jobsVars, dbVars
<1>7. ASSUME NEW r \in Req, AskApproval(r)
      PROVE  GateInv'
  BY <1>1, <1>7, InsertKeepsGate DEF AskApproval
<1>8. CASE SubmitSteering
  BY <1>1, <1>8, InsertKeepsGate DEF SubmitSteering
<1>9. ASSUME NEW r \in Req, Resolve(r)
      PROVE  GateInv'
  <2>1. rapv[r] \in Approval
    BY <1>9 DEF Resolve, Shape
  <2>2. GateFrame
    BY <1>1, <1>9, <2>1 DEF Resolve, GateFrame, GateInv, RowAnswered, GateTypes
  <2> QED
    BY <1>1, <2>2, FrameKeepsGate
<1>10. ASSUME NEW r \in Req, KillJob(r)
       PROVE  GateInv'
  <2>1. rtask[r] \in Task
    BY <1>10 DEF KillJob, At, Shape
  <2>2. registry[rtask[r]] \in Job \cup {None}
    BY <2>1 DEF ControlTypeOK, TypeOK
  <2>3. UNCHANGED <<apv, granted>>
    BY <1>10 DEF KillJob, apvVars
  <2>4. \/ UNCHANGED gateVars
        \/ \E k \in Job : DropGate(k)
    BY <1>10, <2>2 DEF KillJob, CancelRegistered
  <2> QED
    BY <1>1, <1>2, <2>3, <2>4, DropKeepsGate
<1>11. ASSUME NEW r \in Req, Start(r) \/ Mark(r) \/ KillRow(r) \/ RequestFault(r)
       PROVE  GateInv'
  BY <1>2, <1>11 DEF Start, Mark, KillRow, RequestFault, apvVars
<1>12. CASE CrashAll
  BY <1>12 DEF CrashAll, Crash, apvVars, GateInv, GateWaits, RowAnswered
<1>13. CASE UNCHANGED vars
  BY <1>2, <1>13 DEF vars, jobsVars, dbVars
<1> QED
  BY <1>3, <1>4, <1>5, <1>6, <1>7, <1>8, <1>9, <1>10, <1>11, <1>12, <1>13
  DEF Next, JobsNext, RequestStep

-----------------------------------------------------------------------------
(* Reachable jobs *)

RegistryTypes ==
  /\ owner \in [Job -> Task \cup {None}]
  /\ pc \in [Job -> JobPC]
  /\ registry \in [Task -> Job \cup {None}]
  /\ \A j \in Job : owner[j] = None <=> pc[j] = "none"

\* Every step keeps live jobs in the registry, unless their task has two.
LEMMA ReachableStep ==
  ASSUME ControlTypeOK, Shape, LiveJobReachable, [Next]_vars
  PROVE  LiveJobReachable'
<1>1. RegistryTypes
  BY DEF ControlTypeOK, TypeOK, Shape, RegistryTypes
<1>2. ASSUME UNCHANGED <<owner, registry>>, \A j \in Job : pc'[j] \in Live => pc[j] \in Live
      PROVE  LiveJobReachable'
  BY <1>2 DEF LiveJobReachable
<1>3. ASSUME NEW j \in Job, JobStep(j)
      PROVE  LiveJobReachable'
  <2>1. CASE JobReaped(j)
    <3>1. owner[j] \in Task /\ pc[j] \notin Live /\ pc'[j] = "gone" /\ owner' = owner
      BY <1>1, <2>1 DEF JobReaped, Finished, Live, RegistryTypes
    <3>2. /\ \A i \in Job \ {j} : pc'[i] = pc[i]
          /\ \A t \in Task \ {owner[j]} : registry'[t] = registry[t]
      BY <1>1, <2>1 DEF JobReaped, RegistryTypes
    <3> SUFFICES ASSUME NEW i \in Job, pc'[i] \in Live, registry'[owner[i]] # i
                 PROVE  \E k \in Job \ {i} : owner[k] = owner[i]
      BY <3>1 DEF LiveJobReachable
    <3>3. i # j /\ pc[i] \in Live /\ owner[i] \in Task
      BY <1>1, <3>1, <3>2 DEF Live, RegistryTypes
    <3> QED
      BY <3>2, <3>3 DEF LiveJobReachable
  <2>2. CASE ~JobReaped(j)
    <3>1. UNCHANGED <<owner, registry>>
      BY <1>3, <2>2 DEF JobStep, JobBegin, HandReturns, HandTimesOut, HandDegrades, JobStore,
         JobTell, JobNote, JobFail, JobFailTell, JobFault, GateFault, GateAsk, GateResolved,
         GateTimeout, GateReturns, Goto, jobVars
    <3>2. \A i \in Job : pc'[i] \in Live => pc[i] \in Live
      BY <1>1, <1>3, <2>2 DEF JobStep, JobBegin, HandReturns, HandTimesOut, HandDegrades,
         JobStore, JobTell, JobNote, JobFail, JobFailTell, JobFault, GateFault, GateAsk,
         GateResolved, GateTimeout, GateReturns, Goto, jobVars, Live, RegistryTypes
    <3> QED
      BY <1>2, <3>1, <3>2
  <2> QED
    BY <2>1, <2>2
<1>4. ASSUME NEW r \in Req, Start(r)
      PROVE  LiveJobReachable'
  <2>1. PICK j \in Job : StartJob(rtask[r], j)
    BY <1>4 DEF Start
  <2>2. rtask[r] \in Task
    BY <1>4 DEF Start, At, Shape
  <2>3. /\ pc[j] = "none" /\ owner[j] = None /\ owner'[j] = rtask[r]
        /\ \A i \in Job \ {j} : pc'[i] = pc[i] /\ owner'[i] = owner[i]
        /\ registry'[rtask[r]] = j
        /\ \A t \in Task \ {rtask[r]} : registry'[t] = registry[t]
    BY <1>1, <2>1, <2>2 DEF StartJob, FreshJob, RegistryTypes
  <2> SUFFICES ASSUME NEW i \in Job, pc'[i] \in Live, registry'[owner'[i]] # i
               PROVE  \E k \in Job \ {i} : owner'[k] = owner'[i]
    BY DEF LiveJobReachable
  <2>4. i # j /\ pc[i] \in Live /\ owner[i] \in Task
    BY <1>1, <2>3 DEF Live, RegistryTypes
  <2>5. CASE owner[i] = rtask[r]
    BY <2>3, <2>4, <2>5
  <2>6. CASE owner[i] # rtask[r]
    <3>1. PICK k \in Job \ {i} : owner[k] = owner[i]
      BY <2>3, <2>4, <2>6 DEF LiveJobReachable
    <3> QED
      BY <2>3, <2>4, <3>1
  <2> QED
    BY <2>5, <2>6
<1>5. ASSUME NEW r \in Req, KillJob(r)
      PROVE  LiveJobReachable'
  <2> DEFINE t == rtask[r]
  <2>1. t \in Task /\ owner' = owner
    BY <1>5 DEF KillJob, At, Shape
  <2>2. /\ registry'[t] = None /\ \A u \in Task \ {t} : registry'[u] = registry[u]
        /\ \A i \in Job : pc'[i] \in Live => pc[i] \in Live /\ registry[t] # i
    BY <1>1, <1>5, <2>1 DEF KillJob, CancelRegistered, Live, RegistryTypes
  <2> SUFFICES ASSUME NEW i \in Job, pc'[i] \in Live, registry'[owner[i]] # i
               PROVE  \E k \in Job \ {i} : owner[k] = owner[i]
    BY <2>1 DEF LiveJobReachable
  <2>3. pc[i] \in Live /\ owner[i] \in Task
    BY <1>1, <2>2 DEF Live, RegistryTypes
  <2>4. registry[owner[i]] # i
    BY <2>2, <2>3
  <2> QED
    BY <2>3, <2>4 DEF LiveJobReachable
<1>6. ASSUME NEW r \in Req, RequestArrives(r)
      PROVE  LiveJobReachable'
  BY <1>2, <1>6 DEF RequestArrives, SubmitCoding, ApiAnswer, ChatAnswer, CancelTask, jobsVars
<1>7. ASSUME NEW r \in Req,
             AskApproval(r) \/ Resolve(r) \/ Mark(r) \/ KillRow(r) \/ RequestFault(r)
      PROVE  LiveJobReachable'
  BY <1>2, <1>7 DEF AskApproval, Resolve, Mark, KillRow, RequestFault, jobVars
<1>8. CASE LateStatusLands \/ LateDenyLands \/ BootStep
  BY <1>2, <1>8 DEF LateStatusLands, LateDenyLands, BootStep, BootReads, Recover, Boot,
                    BootDies, jobVars
<1>9. CASE SubmitSteering
  BY <1>2, <1>9 DEF SubmitSteering, jobVars
<1>10. CASE CrashAll
  BY <1>10 DEF CrashAll, Crash, LiveJobReachable, Live
<1>11. CASE UNCHANGED vars
  BY <1>2, <1>11 DEF vars, jobsVars
<1> QED
  BY <1>3, <1>4, <1>5, <1>6, <1>7, <1>8, <1>9, <1>10, <1>11 DEF Next, JobsNext, RequestStep

-----------------------------------------------------------------------------
(* Announcements *)

\* Every step keeps what a job has put on the ledger at its control point.
LEMMA AnnouncingStep ==
  ASSUME ControlTypeOK, Shape, Announcing, [Next]_vars
  PROVE  Announcing'
<1> DEFINE Types == /\ pc \in [Job -> JobPC]
                    /\ told \in [Job -> SUBSET {"completed", "failed"}]
                    /\ res \in [Job -> {"none", "completed", "failed"}]
                    /\ \A j \in Job : pc[j] \in {"store", "tell"} => res[j] \in {"completed", "failed"}
<1>1. Types
  BY DEF ControlTypeOK, TypeOK, Shape
<1>2. UNCHANGED <<pc, told, res>> => Announcing'
  BY DEF Announcing, Announced
<1>3. ASSUME NEW j \in Job, JobStep(j)
      PROVE  Announcing'
  <2>1. CASE JobTell(j) \/ JobFailTell(j)
    BY <1>1, <2>1 DEF JobTell, JobFailTell, Goto, Announcing, Announced
  <2>2. CASE \/ JobBegin(j) \/ HandReturns(j) \/ HandTimesOut(j) \/ JobStore(j) \/ JobNote(j)
             \/ JobFail(j) \/ JobReaped(j) \/ JobFault(j)
    BY <1>1, <2>2 DEF JobBegin, HandReturns, HandTimesOut, JobStore, JobNote, JobFail, JobReaped,
       JobFault, Goto, Announcing, Announced
  <2>3. CASE HandDegrades(j) \/ GateAsk(j) \/ GateResolved(j) \/ GateTimeout(j) \/ GateReturns(j)
             \/ GateFault(j)
    BY <1>2, <2>3 DEF HandDegrades, GateAsk, GateResolved, GateTimeout, GateReturns, GateFault,
       jobVars
  <2> QED
    BY <1>3, <2>1, <2>2, <2>3 DEF JobStep
<1>4. ASSUME NEW r \in Req, Start(r)
      PROVE  Announcing'
  BY <1>1, <1>4 DEF Start, StartJob, FreshJob, Announcing, Announced
<1>5. ASSUME NEW r \in Req, KillJob(r)
      PROVE  Announcing'
  BY <1>1, <1>2, <1>5 DEF KillJob, CancelRegistered, Live, Announcing, Announced
<1>6. ASSUME NEW r \in Req, RequestArrives(r)
      PROVE  Announcing'
  BY <1>2, <1>6 DEF RequestArrives, SubmitCoding, ApiAnswer, ChatAnswer, CancelTask, jobsVars,
     dbVars
<1>7. ASSUME NEW r \in Req,
             AskApproval(r) \/ Resolve(r) \/ Mark(r) \/ KillRow(r) \/ RequestFault(r)
      PROVE  Announcing'
  BY <1>2, <1>7 DEF AskApproval, Resolve, Mark, KillRow, RequestFault, jobVars
<1>8. CASE LateStatusLands \/ LateDenyLands \/ BootStep
  BY <1>2, <1>8 DEF LateStatusLands, LateDenyLands, BootStep, BootReads, Recover, Boot,
                    BootDies, jobVars
<1>9. CASE SubmitSteering
  BY <1>2, <1>9 DEF SubmitSteering, jobVars
<1>10. CASE CrashAll
  BY <1>10 DEF CrashAll, Crash, Announcing, Announced
<1>11. CASE UNCHANGED vars
  BY <1>2, <1>11 DEF vars, jobsVars, dbVars
<1> QED
  BY <1>3, <1>4, <1>5, <1>6, <1>7, <1>8, <1>9, <1>10, <1>11 DEF Next, JobsNext, RequestStep

-----------------------------------------------------------------------------
(* Kinds of rows *)

\* Most steps change no row but its status, and take no new question to a gate.
KindFrame ==
  /\ UNCHANGED <<kind, subject>>
  /\ \A a \in Approval : apv'[a] # "absent" => apv[a] # "absent"
  /\ \A j \in Job : gpc'[j] # "none" => gpc[j] # "none" /\ gate'[j] = gate[j]
  /\ \A a \in lateDeny' : a \in lateDeny \/ \E j \in Job : gpc[j] # "none" /\ gate[j] = a
  /\ \A w \in lateStatus' : w \in lateStatus \/ w[2] # "pending"

\* Such a step keeps what the rows are about.
LEMMA FrameKeepsKinds ==
  ASSUME RowKinds, KindFrame
  PROVE  RowKinds'
  BY DEF RowKinds, KindFrame

\* A row that is inserted is the row of no gate that was there before.
LEMMA InsertKeepsKinds ==
  ASSUME ControlTypeOK, Shape, GateInv, RowKinds, UNCHANGED <<lateDeny, lateStatus>>,
         NEW a \in Approval, NEW k, NEW t, InsertApproval(a, k, t),
         k = "start" => t \in Task,
         \A j \in Job : gpc'[j] # "none" =>
           \/ gpc[j] # "none" /\ gate'[j] = gate[j]
           \/ gate'[j] = a /\ k = "hand"
  PROVE  RowKinds'
<1>1. apv[a] = "absent" /\ apv'[a] = "pending" /\ kind'[a] = k /\ subject'[a] = t
  BY DEF InsertApproval, FreshApproval, ControlTypeOK, TypeOK
<1>2. \A b \in Approval \ {a} : apv'[b] = apv[b] /\ kind'[b] = kind[b] /\ subject'[b] = subject[b]
  BY DEF InsertApproval, ControlTypeOK, TypeOK
<1>3. ASSUME NEW j \in Job, gpc'[j] # "none" PROVE kind'[gate'[j]] = "hand"
  <2>1. CASE gate'[j] = a /\ k = "hand"
    BY <1>1, <2>1
  <2>2. CASE gpc[j] # "none" /\ gate'[j] = gate[j]
    <3>1. gate[j] \in Approval /\ apv[gate[j]] # "absent" /\ kind[gate[j]] = "hand"
      BY <2>2 DEF GateInv, GateWaits, RowKinds, Shape, ControlTypeOK, TypeOK
    <3>2. QED  BY <1>1, <1>2, <2>2, <3>1
  <2>3. QED  BY <1>3, <2>1, <2>2
<1>4. \A b \in lateDeny' : kind'[b] = "hand"
  <2>1. \A b \in lateDeny : b \in Approval /\ apv[b] # "absent" /\ kind[b] = "hand"
    BY DEF GateInv, RowKinds, ControlTypeOK, TypeOK
  <2>2. QED  BY <1>1, <1>2, <2>1
<1>5. \A b \in Approval : apv'[b] # "absent" /\ kind'[b] = "start" => subject'[b] \in Task
  BY <1>1, <1>2 DEF RowKinds
<1>6. QED  BY <1>3, <1>4, <1>5 DEF RowKinds

\* What tearing a gate down leaves.
LEMMA DropKeepsQuestions ==
  ASSUME ControlTypeOK, NEW j \in Job, DropGate(j)
  PROVE  /\ \A i \in Job : gpc'[i] # "none" => gpc[i] # "none" /\ gate'[i] = gate[i]
         /\ \A a \in lateDeny' : a \in lateDeny \/ \E i \in Job : gpc[i] # "none" /\ gate[i] = a
  BY DEF DropGate, ControlTypeOK, TypeOK

\* Every step leaves questions where they were asked, whoever asks and answers.
LEMMA RowKindsStep ==
  ASSUME ControlTypeOK, Shape, Consent, GateInv, RowKinds, [Next]_vars
  PROVE  RowKinds'
<1>1. ASSUME UNCHANGED <<kind, subject, gate, gpc, lateDeny, lateStatus>>,
             \A a \in Approval : apv'[a] # "absent" => apv[a] # "absent"
      PROVE  RowKinds'
  BY <1>1, FrameKeepsKinds DEF KindFrame
<1>2. ASSUME NEW j \in Job, JobStep(j)
      PROVE  RowKinds'
  <2>1. CASE HandTimesOut(j) \/ HandDegrades(j)
    <3>1. DropGate(j) /\ UNCHANGED <<apvVars, lateStatus>>
      BY <2>1 DEF HandTimesOut, HandDegrades, Goto, jobVars
    <3>2. QED  BY <3>1, DropKeepsQuestions, FrameKeepsKinds DEF KindFrame, apvVars
  <2>2. CASE GateAsk(j)
    <3>1. PICK a \in Approval : InsertApproval(a, "hand", owner[j]) /\ gate' = [gate EXCEPT ![j] = a]
      BY <2>2 DEF GateAsk
    <3>2. /\ \A i \in Job \ {j} : gate'[i] = gate[i] /\ gpc'[i] = gpc[i]
          /\ gate'[j] = a /\ UNCHANGED <<lateDeny, lateStatus>>
      BY <2>2, <3>1 DEF GateAsk, jobVars, ControlTypeOK, TypeOK
    <3>3. QED  BY <3>1, <3>2, InsertKeepsKinds
  <2>3. CASE GateResolved(j) \/ GateTimeout(j) \/ GateReturns(j) \/ GateFault(j)
    <3>1. /\ UNCHANGED <<kind, subject, lateDeny, lateStatus>>
          /\ \A i \in Job : gpc'[i] # "none" => gpc[i] # "none" /\ gate'[i] = gate[i]
      BY <2>3 DEF GateResolved, GateTimeout, GateReturns, GateFault, apvVars, jobVars,
                  ControlTypeOK, TypeOK
    <3>2. \A a \in Approval : apv'[a] # "absent" => apv[a] # "absent"
      <4>1. CASE GateTimeout(j)
        <5>1. gate[j] \in Approval /\ apv[gate[j]] # "absent"
          BY <4>1, GateHasRow DEF GateTimeout, GateInv, GateWaits
        <5>2. QED  BY <4>1, <5>1 DEF GateTimeout, ControlTypeOK, TypeOK
      <4>2. CASE ~GateTimeout(j)
        BY <2>3, <4>2 DEF GateResolved, GateReturns, GateFault, apvVars
      <4>3. QED  BY <4>1, <4>2
    <3>3. QED  BY <3>1, <3>2, FrameKeepsKinds DEF KindFrame
  <2>4. CASE ~(HandTimesOut(j) \/ HandDegrades(j) \/ GateAsk(j) \/ GateResolved(j)
               \/ GateTimeout(j) \/ GateReturns(j) \/ GateFault(j))
    <3>1. UNCHANGED <<apvVars, gateVars, lateStatus>>
      BY <1>2, <2>4 DEF JobStep, JobBegin, HandReturns, JobStore, JobTell, JobNote, JobFail,
         JobFailTell, JobReaped, JobFault, Goto
    <3>2. QED  BY <1>1, <3>1 DEF apvVars, gateVars
  <2>5. QED  BY <2>1, <2>2, <2>3, <2>4
<1>3. CASE LateDenyLands
  <2>1. /\ UNCHANGED <<kind, subject, gate, gpc, lateStatus>> /\ lateDeny' \subseteq lateDeny
        /\ \A a \in Approval : apv'[a] # "absent" => apv[a] # "absent"
    BY <1>3 DEF LateDenyLands, GateInv, jobVars, ControlTypeOK, TypeOK
  <2>2. QED  BY <2>1, FrameKeepsKinds DEF KindFrame
<1>4. CASE LateStatusLands \/ BootStep
  <2>1. UNCHANGED <<apvVars, gateVars>> /\ lateStatus' \subseteq lateStatus
    BY <1>4 DEF LateStatusLands, BootStep, BootReads, Recover, Boot, BootDies
  <2>2. QED  BY <2>1, FrameKeepsKinds DEF KindFrame, apvVars, gateVars
<1>5. ASSUME NEW r \in Req, RequestArrives(r) \/ Start(r) \/ Mark(r) \/ KillRow(r) \/ RequestFault(r)
      PROVE  RowKinds'
  <2>1. UNCHANGED <<apvVars, gateVars, lateStatus>>
    BY <1>5 DEF RequestArrives, SubmitCoding, ApiAnswer, ChatAnswer, CancelTask, Start, Mark,
                KillRow, RequestFault, jobsVars, dbVars, apvVars, gateVars
  <2>2. QED  BY <1>1, <2>1 DEF apvVars, gateVars
<1>6. ASSUME NEW r \in Req, AskApproval(r)
      PROVE  RowKinds'
  <2>1. PICK a \in Approval : InsertApproval(a, "start", rtask[r])
    BY <1>6 DEF AskApproval
  <2>2. rtask[r] \in Task /\ UNCHANGED <<gateVars, lateStatus>>
    BY <1>6 DEF AskApproval, At, Shape, jobVars
  <2>3. QED  BY <2>1, <2>2, InsertKeepsKinds DEF gateVars
<1>7. CASE SubmitSteering
  <2>1. PICK a \in Approval : InsertApproval(a, "steer", None)
    BY <1>7 DEF SubmitSteering
  <2>2. UNCHANGED <<gateVars, lateStatus>>
    BY <1>7 DEF SubmitSteering, jobVars
  <2>3. QED  BY <2>1, <2>2, InsertKeepsKinds DEF gateVars
<1>8. ASSUME NEW r \in Req, Resolve(r)
      PROVE  RowKinds'
  <2>1. rapv[r] \in Approval /\ UNCHANGED <<kind, subject, gateVars, lateStatus>>
    BY <1>8 DEF Resolve, Shape, jobVars
  <2>2. apv[rapv[r]] # "absent"
    BY <1>8 DEF Resolve, Consent, HasConsent
  <2>3. \A a \in Approval : apv'[a] # "absent" => apv[a] # "absent"
    BY <1>8, <2>1, <2>2 DEF Resolve, ControlTypeOK, TypeOK
  <2>4. QED  BY <1>1, <2>1, <2>3 DEF gateVars
<1>9. ASSUME NEW r \in Req, KillJob(r)
      PROVE  RowKinds'
  <2> DEFINE j == registry[rtask[r]]
  <2>1. CancelRegistered(rtask[r]) /\ UNCHANGED apvVars
    BY <1>9 DEF KillJob
  <2>2. CASE j # None /\ pc[j] \in Live
    <3>1. j \in Job
      BY <1>9, <2>2 DEF KillJob, At, Shape, ControlTypeOK, TypeOK
    <3>2. DropGate(j) /\ lateStatus' \subseteq lateStatus \cup InFlight(j)
      BY <2>1, <2>2 DEF CancelRegistered
    <3>3. \A w \in InFlight(j) : w[2] # "pending"
      BY <3>1 DEF InFlight, Shape
    <3>4. KindFrame
      BY <2>1, <3>1, <3>2, <3>3, DropKeepsQuestions DEF KindFrame, apvVars
    <3>5. QED  BY <3>4, FrameKeepsKinds
  <2>3. CASE ~(j # None /\ pc[j] \in Live)
    <3>1. UNCHANGED <<lateStatus, gateVars>>
      BY <2>1, <2>3 DEF CancelRegistered
    <3>2. QED  BY <1>1, <2>1, <3>1 DEF apvVars, gateVars
  <2>4. QED  BY <2>2, <2>3
<1>10. CASE CrashAll
  BY <1>10 DEF CrashAll, Crash, RowKinds, apvVars
<1>11. CASE UNCHANGED vars
  BY <1>1, <1>11 DEF vars, jobsVars, dbVars, gateVars
<1>12. QED
  BY <1>2, <1>3, <1>4, <1>5, <1>6, <1>7, <1>8, <1>9, <1>10, <1>11
     DEF Next, JobsNext, RequestStep

-----------------------------------------------------------------------------
(* Starts *)

\* A job that was started stays one of its task.
KeepsWork == \A j \in Job : pc[j] # "none" => pc'[j] # "none" /\ owner'[j] = owner[j]

KeepsRequest(r) == rpc'[r] = rpc[r] /\ rtask'[r] = rtask[r]

KeepsRow(a) == apv'[a] = apv[a] /\ kind'[a] = kind[a] /\ subject'[a] = subject[a]

\* What a step may take away from a task, and what it has to leave in its place.
LEMMA NothingIsLost ==
  ASSUME NoStartIsLost, mishaps' = 0 => mishaps = 0, KeepsWork,
         \A r \in Req, t \in Task :
           rpc[r] = "start" /\ rtask[r] = t => KeepsRequest(r) \/ Served(t)',
         \A r \in Req, t \in Task :
           rpc[r] \in {"ask", "kill"} /\ rtask[r] = t
             => KeepsRequest(r) \/ Decided(t)' \/ status'[t] # "pending",
         \A a \in Approval, t \in Task :
           apv[a] = "pending" /\ kind[a] = "start" /\ subject[a] = t
             => KeepsRow(a) \/ Served(t)' \/ Decided(t)',
         \A a \in granted', t \in Task :
           kind'[a] = "start" /\ subject'[a] = t
             => \/ a \in granted /\ kind[a] = "start" /\ subject[a] = t
                \/ Served(t)',
         \A a \in granted' : kind'[a] = "start" => subject'[a] \in Task,
         \A t \in Task : status'[t] = "pending" => status[t] = "pending" \/ Served(t)' \/ Decided(t)'
  PROVE  NoStartIsLost'
<1>1. SUFFICES ASSUME mishaps' = 0
               PROVE  /\ \A a \in granted' : kind'[a] = "start" => Served(subject[a])'
                      /\ \A t \in Task : status'[t] = "pending" => Served(t)' \/ Decided(t)'
  BY DEF NoStartIsLost
<1>2. ASSUME NEW t \in Task, Served(t) PROVE Served(t)'
  BY <1>2 DEF Served, KeepsWork, KeepsRequest
<1>3. ASSUME NEW t \in Task, Decided(t), status'[t] = "pending" PROVE Served(t)' \/ Decided(t)'
  <2>1. CASE \E r \in Req : rpc[r] \in {"ask", "kill"} /\ rtask[r] = t
    <3>1. PICK r \in Req : rpc[r] \in {"ask", "kill"} /\ rtask[r] = t
      BY <2>1
    <3>2. CASE KeepsRequest(r)
      BY <3>1, <3>2 DEF Decided, KeepsRequest
    <3>3. CASE ~KeepsRequest(r)
      BY <1>3, <3>1, <3>3
    <3>4. QED  BY <3>2, <3>3
  <2>2. CASE \E a \in Approval : apv[a] = "pending" /\ kind[a] = "start" /\ subject[a] = t
    <3>1. PICK a \in Approval : apv[a] = "pending" /\ kind[a] = "start" /\ subject[a] = t
      BY <2>2
    <3>2. CASE KeepsRow(a)
      BY <3>1, <3>2 DEF Decided, KeepsRow
    <3>3. CASE ~KeepsRow(a)
      BY <3>1, <3>3
    <3>4. QED  BY <3>2, <3>3
  <2>3. QED  BY <1>3, <2>1, <2>2 DEF Decided
<1>4. ASSUME NEW a \in granted', kind'[a] = "start" PROVE Served(subject[a])'
  <2>1. PICK t \in Task : t = subject'[a]
    BY <1>4
  <2>2. Served(t)'
    BY <1>1, <1>2, <1>4, <2>1 DEF NoStartIsLost
  <2>3. QED  BY <2>1, <2>2 DEF Served
<1>5. ASSUME NEW t \in Task, status'[t] = "pending" PROVE Served(t)' \/ Decided(t)'
  BY <1>1, <1>2, <1>3, <1>5 DEF NoStartIsLost
<1>6. QED  BY <1>4, <1>5

\* Most steps take nothing away: they end no request that is about to start, to ask
\* or to cancel, answer no question about a start, and say yes to nothing.
StartFrame ==
  /\ mishaps' = 0 => mishaps = 0
  /\ granted' = granted
  /\ KeepsWork
  /\ \A r \in Req : rpc[r] \in {"start", "ask", "kill"} => KeepsRequest(r)
  /\ \A a \in Approval : apv[a] # "absent" /\ kind[a] = "start" => KeepsRow(a)
  /\ \A a \in Approval : apv[a] # "absent" => kind'[a] = kind[a]
  /\ \A t \in Task : status'[t] = "pending" => status[t] = "pending"

LEMMA FrameKeepsStarts ==
  ASSUME ControlTypeOK, Consent, RowKinds, NoStartIsLost, StartFrame
  PROVE  NoStartIsLost'
<1>1. \A a \in granted : a \in Approval /\ apv[a] # "absent"
  BY DEF ControlTypeOK, TypeOK, Consent
<1>2. \A a \in granted' : kind'[a] = "start" =>
        /\ a \in granted /\ kind[a] = "start" /\ subject'[a] = subject[a]
        /\ subject[a] \in Task
  BY <1>1 DEF StartFrame, KeepsRow, RowKinds
<1>3. \A a \in Approval : apv[a] = "pending" /\ kind[a] = "start" => KeepsRow(a)
  BY DEF StartFrame
<1>4. QED  BY <1>2, <1>3, NothingIsLost DEF StartFrame

\* A row that is inserted answers no question, and is granted by nobody yet.
LEMMA InsertKeepsStarts ==
  ASSUME ControlTypeOK, Consent, RowKinds, NoStartIsLost,
         NEW a \in Approval, NEW k, NEW t, InsertApproval(a, k, t),
         UNCHANGED <<mishaps, granted, status, pc, owner>>,
         \A r \in Req : rpc[r] \in {"start", "ask", "kill"} =>
           \/ KeepsRequest(r)
           \/ rpc[r] = "ask" /\ k = "start" /\ rtask[r] = t
  PROVE  NoStartIsLost'
<1>1. /\ apv[a] = "absent" /\ apv'[a] = "pending" /\ kind'[a] = k /\ subject'[a] = t
      /\ \A b \in Approval \ {a} : KeepsRow(b)
  BY DEF InsertApproval, FreshApproval, KeepsRow, ControlTypeOK, TypeOK
<1>2. \A b \in granted : b \in Approval /\ apv[b] # "absent" /\ KeepsRow(b)
  BY <1>1 DEF ControlTypeOK, TypeOK, Consent
<1>3. \A b \in granted' : kind'[b] = "start" =>
        /\ b \in granted /\ kind[b] = "start" /\ subject'[b] = subject[b]
        /\ subject[b] \in Task
  BY <1>2 DEF KeepsRow, RowKinds
<1>4. \A b \in Approval : apv[b] = "pending" => KeepsRow(b)
  BY <1>1
<1>5. KeepsWork
  BY DEF KeepsWork
<1>6. k = "start" => Decided(t)'
  BY <1>1 DEF Decided
<1>7. \A r \in Req, u \in Task :
        /\ rpc[r] = "start" /\ rtask[r] = u => KeepsRequest(r)
        /\ rpc[r] \in {"ask", "kill"} /\ rtask[r] = u => KeepsRequest(r) \/ Decided(u)'
  BY <1>6
<1>8. QED  BY <1>3, <1>4, <1>5, <1>7, NothingIsLost

\* Jobs and their gates start nothing, and their timeouts refuse only hands.
LEMMA JobKeepsStarts ==
  ASSUME ControlTypeOK, Shape, Consent, GateInv, RowKinds, NoStartIsLost,
         NEW j \in Job, JobStep(j), UNCHANGED reqVars
  PROVE  NoStartIsLost'
<1>1. \A r \in Req : KeepsRequest(r)
  BY DEF KeepsRequest, reqVars
<1>2. CASE GateAsk(j)
  <2>1. PICK a \in Approval : InsertApproval(a, "hand", owner[j])
    BY <1>2 DEF GateAsk
  <2>2. UNCHANGED <<mishaps, granted, status, pc, owner>>
    BY <1>2 DEF GateAsk, jobVars
  <2>3. QED  BY <1>1, <2>1, <2>2, InsertKeepsStarts
<1>3. CASE JobFault(j) \/ GateFault(j)
  BY <1>3 DEF JobFault, GateFault, NoStartIsLost, ControlTypeOK, TypeOK
<1>4. CASE GateTimeout(j)
  <2>1. gate[j] \in Approval /\ kind[gate[j]] = "hand"
    BY <1>4, GateHasRow DEF GateTimeout, RowKinds
  <2>2. /\ UNCHANGED <<mishaps, granted, status, pc, owner, kind, subject>>
        /\ \A a \in Approval \ {gate[j]} : apv'[a] = apv[a]
    BY <1>4, <2>1 DEF GateTimeout, jobVars, ControlTypeOK, TypeOK
  <2>3. StartFrame
    BY <1>1, <2>1, <2>2 DEF StartFrame, KeepsWork, KeepsRow
  <2>4. QED  BY <2>3, FrameKeepsStarts
<1>5. CASE ~(GateAsk(j) \/ JobFault(j) \/ GateFault(j) \/ GateTimeout(j))
  <2>1. UNCHANGED <<mishaps, apvVars, owner>>
    BY <1>5 DEF JobStep, JobBegin, HandReturns, HandTimesOut, HandDegrades, JobStore, JobTell,
       JobNote, JobFail, JobFailTell, JobReaped, GateResolved, GateReturns, Goto, jobVars, apvVars
  <2>2. KeepsWork
    BY <1>5, <2>1 DEF KeepsWork, JobStep, JobBegin, HandReturns, HandTimesOut, HandDegrades,
       JobStore, JobTell, JobNote, JobFail, JobFailTell, JobReaped, GateResolved, GateReturns,
       Goto, jobVars, ControlTypeOK, TypeOK
  <2>3. \A t \in Task : status'[t] = "pending" => status[t] = "pending"
    <3>1. CASE JobBegin(j) \/ JobStore(j) \/ JobFail(j)
      <4>1. \E s \in {"running", "completed", "failed"} : SetStatus(owner[j], s)
        BY <3>1 DEF JobBegin, JobStore, JobFail, Goto, Shape
      <4>2. QED  BY <4>1 DEF SetStatus, ControlTypeOK, TypeOK
    <3>2. CASE ~(JobBegin(j) \/ JobStore(j) \/ JobFail(j))
      BY <1>5, <3>2 DEF JobStep, HandReturns, HandTimesOut, HandDegrades, JobTell, JobNote,
         JobFailTell, JobReaped, GateResolved, GateReturns, jobVars
    <3>3. QED  BY <3>1, <3>2
  <2>4. QED  BY <1>1, <2>1, <2>2, <2>3, FrameKeepsStarts DEF StartFrame, KeepsRow, apvVars
<1>6. QED  BY <1>2, <1>3, <1>4, <1>5

\* Nor do the worker threads and recovery.
LEMMA ThreadKeepsStarts ==
  ASSUME ControlTypeOK, Consent, RowKinds, NoStartIsLost, UNCHANGED reqVars,
         LateStatusLands \/ LateDenyLands \/ BootStep
  PROVE  NoStartIsLost'
<1>1. (\A r \in Req : KeepsRequest(r)) /\ UNCHANGED <<mishaps, granted, pc, owner, kind, subject>>
  BY DEF KeepsRequest, reqVars, LateStatusLands, LateDenyLands, BootStep, BootReads, Recover, Boot,
         BootDies, apvVars, jobVars
<1>2. \A a \in Approval : apv'[a] = apv[a] \/ kind[a] = "hand"
  BY DEF LateStatusLands, LateDenyLands, BootStep, BootReads, Recover, Boot, BootDies, apvVars,
         RowKinds, ControlTypeOK, TypeOK
<1>3. \A t \in Task : status'[t] = "pending" => status[t] = "pending"
  <2>1. CASE LateStatusLands
    <3>1. PICK w \in lateStatus : SetStatus(w[1], w[2])
      BY <2>1 DEF LateStatusLands
    <3>2. QED  BY <3>1 DEF RowKinds, SetStatus, ControlTypeOK, TypeOK
  <2>2. CASE BootStep
    BY <2>2 DEF BootStep, BootReads, Recover, Boot, BootDies, SetStatus, ControlTypeOK, TypeOK
  <2>3. CASE LateDenyLands
    BY <2>3 DEF LateDenyLands, jobVars
  <2>4. QED  BY <2>1, <2>2, <2>3
<1>4. StartFrame
  BY <1>1, <1>2, <1>3 DEF StartFrame, KeepsWork, KeepsRow
<1>5. QED  BY <1>4, FrameKeepsStarts

\* An answer about a start becomes the start, or the cancellation, of its task.
LEMMA ResolveKeepsStarts ==
  ASSUME ControlTypeOK, Shape, Consent, RowKinds, NoStartIsLost, NEW r \in Req, Resolve(r)
  PROVE  NoStartIsLost'
<1> DEFINE a == rapv[r]
           yes == rpc[r] \in {"approve", "yes"}
<1>1. /\ a \in Approval /\ apv[a] # "absent" /\ rtask[r] = subject[a]
      /\ rpc[r] \in {"approve", "yes", "no"}
  BY DEF Resolve, Shape, Consent, HasConsent
<1>2. /\ \A b \in Approval \ {a} : KeepsRow(b)
      /\ UNCHANGED <<kind, subject, status, mishaps>> /\ KeepsWork
      /\ granted' = IF yes THEN granted \cup {a} ELSE granted
  BY <1>1 DEF Resolve, KeepsRow, KeepsWork, jobVars, ControlTypeOK, TypeOK
<1>3. \A q \in Req \ {r} : KeepsRequest(q)
  BY DEF Resolve, Advance, KeepsRequest, ControlTypeOK
<1>4. ASSUME NEW t \in Task, kind[a] = "start", subject[a] = t
      PROVE  /\ yes => Served(t)'
             /\ ~yes => Decided(t)'
  <2>1. rtask[r] # None
    BY <1>1, <1>4, ConstantsAssumption
  <2>2. Advance(r, IF yes THEN "start" ELSE "kill")
    BY <1>1, <1>4, <2>1 DEF Resolve
  <2>3. rpc'[r] = (IF yes THEN "start" ELSE "kill") /\ rtask'[r] = t
    BY <1>1, <1>4, <2>2 DEF Advance, ControlTypeOK
  <2>4. QED  BY <2>3 DEF Served, Decided
<1>5. \A b \in granted' : b \in Approval /\ (b = a \/ (b \in granted /\ apv[b] # "absent"))
  BY <1>1, <1>2 DEF Consent, ControlTypeOK, TypeOK
<1>6. ASSUME NEW b \in granted', NEW t \in Task, kind'[b] = "start", subject'[b] = t
      PROVE  \/ b \in granted /\ kind[b] = "start" /\ subject[b] = t
             \/ Served(t)'
  <2>1. CASE b \in granted
    BY <1>2, <1>6, <2>1
  <2>2. CASE b \notin granted
    BY <1>2, <1>4, <1>5, <1>6, <2>2
  <2>3. QED  BY <2>1, <2>2
<1>7. \A b \in granted' : kind'[b] = "start" => subject'[b] \in Task
  BY <1>1, <1>2, <1>5 DEF RowKinds
<1>8. ASSUME NEW b \in Approval, NEW t \in Task, apv[b] = "pending", kind[b] = "start", subject[b] = t
      PROVE  KeepsRow(b) \/ Served(t)' \/ Decided(t)'
  BY <1>2, <1>4, <1>8
<1>9. \A q \in Req : rpc[q] \in {"start", "ask", "kill"} => KeepsRequest(q)
  BY <1>1, <1>3
<1>10. QED  BY <1>2, <1>6, <1>7, <1>8, <1>9, NothingIsLost

\* The handlers hand a start on: to a question, from the answer, to a job.
LEMMA RequestKeepsStarts ==
  ASSUME ControlTypeOK, Shape, Consent, RowKinds, NoStartIsLost,
         NEW r \in Req, RequestArrives(r) \/ RequestStep(r) \/ RequestFault(r)
  PROVE  NoStartIsLost'
<1>1. ASSUME \A q \in Req \ {r} : KeepsRequest(q),
             UNCHANGED <<mishaps, granted, apv, kind, subject>>,
             rpc[r] \in {"idle", "mark", "unregister"}, KeepsWork,
             \A t \in Task : status'[t] = "pending" => status[t] = "pending"
      PROVE  NoStartIsLost'
  BY <1>1, FrameKeepsStarts DEF StartFrame, KeepsRow
<1>2. CASE \E t \in Task : SubmitCoding(r, t)
  <2>1. PICK t \in Task : SubmitCoding(r, t)
    BY <1>2
  <2>2. /\ rpc[r] = "idle" /\ rpc'[r] \in {"ask", "start"} /\ rtask'[r] = t
        /\ \A q \in Req \ {r} : KeepsRequest(q)
        /\ \A u \in Task \ {t} : status'[u] = status[u]
        /\ UNCHANGED <<mishaps, granted, apv, kind, subject, pc, owner>>
    BY <2>1 DEF SubmitCoding, Accept, SetStatus, KeepsRequest, apvVars, ControlTypeOK, TypeOK
  <2>3. Served(t)' \/ Decided(t)'
    BY <2>2 DEF Served, Decided
  <2>4. \A b \in granted' : kind'[b] = "start" => subject'[b] \in Task
    BY <2>2 DEF Consent, RowKinds, ControlTypeOK, TypeOK
  <2>5. KeepsWork /\ \A b \in Approval : KeepsRow(b)
    BY <2>2 DEF KeepsWork, KeepsRow
  <2>6. QED  BY <2>2, <2>3, <2>4, <2>5, NothingIsLost
<1>3. CASE \/ \E b \in Approval, step \in ReqPC : ApiAnswer(r, b, step)
           \/ \E t \in Task : CancelTask(r, t)
  BY <1>1, <1>3 DEF ApiAnswer, CancelTask, Accept, jobsVars, dbVars, KeepsRequest, KeepsWork,
     ControlTypeOK
<1>4. CASE AskApproval(r)
  <2>1. PICK b \in Approval : InsertApproval(b, "start", rtask[r])
    BY <1>4 DEF AskApproval
  <2>2. UNCHANGED <<mishaps, granted, status, pc, owner>>
    BY <1>4 DEF AskApproval, jobVars
  <2>3. rpc[r] = "ask" /\ \A q \in Req \ {r} : KeepsRequest(q)
    BY <1>4 DEF AskApproval, At, Advance, KeepsRequest, ControlTypeOK
  <2>4. PICK t : t = rtask[r]
    OBVIOUS
  <2>5. QED  BY <2>1, <2>2, <2>3, <2>4, InsertKeepsStarts
<1>5. CASE Resolve(r)
  BY <1>5, ResolveKeepsStarts
<1>6. CASE Start(r)
  <2>1. PICK t \in Task : t = rtask[r]
    BY <1>6 DEF Start, At, Shape
  <2>2. PICK j \in Job : StartJob(t, j)
    BY <1>6, <2>1 DEF Start
  <2>3. KeepsWork /\ Served(t)'
    BY <2>2 DEF StartJob, FreshJob, KeepsWork, Served, ControlTypeOK, TypeOK
  <2>4. /\ rpc[r] = "start" /\ \A q \in Req \ {r} : KeepsRequest(q)
        /\ UNCHANGED <<mishaps, granted, status, apv, kind, subject>>
    BY <1>6 DEF Start, At, Advance, KeepsRequest, apvVars, ControlTypeOK
  <2>5. \A b \in granted' : kind'[b] = "start" => subject'[b] \in Task
    BY <2>4 DEF Consent, RowKinds, ControlTypeOK, TypeOK
  <2>6. \A b \in Approval : KeepsRow(b)
    BY <2>4 DEF KeepsRow
  <2>7. QED  BY <2>1, <2>3, <2>4, <2>5, <2>6, NothingIsLost
<1>7. CASE Mark(r)
  BY <1>1, <1>7 DEF Mark, At, Advance, SetStatus, apvVars, KeepsRequest, KeepsWork,
     ControlTypeOK, TypeOK
<1>8. CASE KillRow(r)
  <2>1. /\ rpc[r] = "kill" /\ rtask[r] \in Task /\ status'[rtask[r]] = "cancelled"
        /\ \A q \in Req \ {r} : KeepsRequest(q)
        /\ \A t \in Task : status'[t] = "pending" => status[t] = "pending"
        /\ UNCHANGED <<mishaps, granted, apv, kind, subject, pc, owner>>
    BY <1>8 DEF KillRow, At, Advance, SetStatus, KeepsRequest, apvVars, Shape, ControlTypeOK, TypeOK
  <2>2. \A b \in granted' : kind'[b] = "start" => subject'[b] \in Task
    BY <2>1 DEF Consent, RowKinds, ControlTypeOK, TypeOK
  <2>3. KeepsWork /\ \A b \in Approval : KeepsRow(b)
    BY <2>1 DEF KeepsWork, KeepsRow
  <2>4. QED  BY <2>1, <2>2, <2>3, NothingIsLost
<1>9. CASE KillJob(r)
  <2>1. /\ rpc[r] = "unregister" /\ \A q \in Req \ {r} : KeepsRequest(q)
        /\ UNCHANGED <<mishaps, granted, apv, kind, subject, status, owner>>
    BY <1>9 DEF KillJob, At, Advance, KeepsRequest, apvVars, ControlTypeOK
  <2>2. KeepsWork
    BY <1>9, <2>1 DEF KillJob, CancelRegistered, KeepsWork, ControlTypeOK, TypeOK
  <2>3. QED  BY <1>1, <2>1, <2>2
<1>10. CASE RequestFault(r)
  BY <1>10 DEF RequestFault, NoStartIsLost, ControlTypeOK, TypeOK
<1>11. QED
  BY <1>2, <1>3, <1>4, <1>5, <1>6, <1>7, <1>8, <1>9, <1>10
     DEF RequestArrives, RequestStep, ChatAnswer, ReqPC

\* No step loses an approved start, or a task that waits for one.
LEMMA NoStartStep ==
  ASSUME ControlTypeOK, Shape, Consent, GateInv, RowKinds, NoStartIsLost, [Next]_vars
  PROVE  NoStartIsLost'
<1>1. CASE JobsNext /\ UNCHANGED <<autonomy, reqVars>>
  BY <1>1, JobKeepsStarts, ThreadKeepsStarts DEF JobsNext
<1>2. CASE \E r \in Req : RequestArrives(r) \/ RequestStep(r) \/ RequestFault(r)
  BY <1>2, RequestKeepsStarts
<1>3. CASE SubmitSteering
  <2>1. PICK a \in Approval : InsertApproval(a, "steer", None)
    BY <1>3 DEF SubmitSteering
  <2>2. UNCHANGED <<mishaps, granted, status, pc, owner>> /\ \A r \in Req : KeepsRequest(r)
    BY <1>3 DEF SubmitSteering, jobVars, reqVars, KeepsRequest
  <2>3. QED  BY <2>1, <2>2, InsertKeepsStarts
<1>4. CASE CrashAll
  BY <1>4 DEF CrashAll, Crash, NoStartIsLost, ControlTypeOK, TypeOK
<1>5. CASE UNCHANGED vars
  <2>1. UNCHANGED <<mishaps, granted, pc, owner, apv, kind, subject, status, rpc, rtask>>
    BY <1>5 DEF vars, jobsVars, dbVars, reqVars
  <2>2. QED  BY <2>1, FrameKeepsStarts DEF StartFrame, KeepsWork, KeepsRequest, KeepsRow
<1>6. QED  BY <1>1, <1>2, <1>3, <1>4, <1>5 DEF Next

-----------------------------------------------------------------------------
(* Recovery *)

Here(j) == pc[j] \notin {"none", "lost"}

\* Most steps leave the process as it runs, lose no job, and mark a row running, or
\* leave such a write on its way, only for a task that has a job.
RunningFrame ==
  /\ UNCHANGED <<mode, orphans>>
  /\ mode = "up" \/ UNCHANGED status
  /\ \A j \in Job : Here(j) => pc'[j] \notin {"none", "lost"} /\ owner'[j] = owner[j]
  /\ \A t \in Task : status'[t] = "running" => status[t] = "running" \/ StartedHere(t)
  /\ \A w \in lateStatus' : w \in lateStatus \/ (w[2] = "running" => StartedHere(w[1]))
  /\ \A r \in Req : rpc'[r] = "mark" =>
       \/ rpc[r] = "mark" /\ rtask'[r] = rtask[r]
       \/ \E j \in Job : pc'[j] \notin {"none", "lost"} /\ owner'[j] = rtask'[r]

\* A step that does so keeps recovery complete.
LEMMA FrameKeepsRunning ==
  ASSUME Recovering, RunningHasJob, RunningFrame
  PROVE  Recovering' /\ RunningHasJob'
<1>1. ASSUME NEW t, StartedHere(t)
      PROVE  \E j \in Job : pc'[j] \notin {"none", "lost"} /\ owner'[j] = t
  BY <1>1 DEF StartedHere, RunningFrame, Here
<1>2. \A w \in lateStatus' : w[2] = "running" => StartedHere(w[1])
  BY DEF Recovering, RunningFrame
<1>3. Recovering'
  BY <1>1, <1>2 DEF Recovering, RunningFrame, StartedHere
<1>4. RunningHasJob'
  BY <1>1 DEF RunningHasJob, RunningFrame, StartedHere
<1>5. QED  BY <1>3, <1>4

\* Every step keeps the rows that say running those of this process, or on the list.
LEMMA RecoveringStep ==
  ASSUME ControlTypeOK, Shape, Recovering, RunningHasJob, [Next]_vars
  PROVE  Recovering' /\ RunningHasJob'
<1>1. ASSUME NEW j \in Job, JobStep(j), UNCHANGED <<autonomy, reqVars>>
      PROVE  RunningFrame
  <2>1. mode = "up" /\ UNCHANGED <<mode, orphans, owner, lateStatus, rpc, rtask>>
    BY <1>1 DEF JobStep, JobBegin, HandReturns, HandTimesOut, HandDegrades, JobStore, JobTell,
       JobNote, JobFail, JobFailTell, JobReaped, JobFault, GateAsk, GateResolved, GateTimeout,
       GateReturns, GateFault, Goto, jobVars, reqVars
  <2>2. \A i \in Job : Here(i) => pc'[i] \notin {"none", "lost"}
    BY <1>1 DEF Here, JobStep, JobBegin, HandReturns, HandTimesOut, HandDegrades, JobStore, JobTell,
       JobNote, JobFail, JobFailTell, JobReaped, JobFault, GateAsk, GateResolved, GateTimeout,
       GateReturns, GateFault, Goto, jobVars, ControlTypeOK, TypeOK
  <2>3. \A t \in Task : status'[t] = "running" => status[t] = "running" \/ StartedHere(t)
    <3>1. CASE JobBegin(j)
      <4>1. Here(j) /\ SetStatus(owner[j], "running")
        BY <3>1 DEF JobBegin, Goto, Here
      <4>2. QED  BY <4>1 DEF SetStatus, StartedHere, Here, ControlTypeOK, TypeOK
    <3>2. CASE JobStore(j) \/ JobFail(j)
      <4>1. \E s \in {"completed", "failed"} : SetStatus(owner[j], s)
        BY <3>2 DEF JobStore, JobFail, Goto, Shape
      <4>2. QED  BY <4>1 DEF SetStatus, ControlTypeOK, TypeOK
    <3>3. CASE ~(JobBegin(j) \/ JobStore(j) \/ JobFail(j))
      <4>1. UNCHANGED status
        BY <1>1, <3>3 DEF JobStep, HandReturns, HandTimesOut, HandDegrades, JobTell, JobNote,
           JobFailTell, JobReaped, JobFault, GateAsk, GateResolved, GateTimeout, GateReturns,
           GateFault, jobVars
      <4>2. QED  BY <4>1
    <3>4. QED  BY <3>1, <3>2, <3>3
  <2>4. QED  BY <2>1, <2>2, <2>3 DEF RunningFrame
<1>2. CASE LateStatusLands /\ UNCHANGED <<autonomy, reqVars>>
  <2>1. PICK w \in lateStatus : SetStatus(w[1], w[2]) /\ lateStatus' = lateStatus \ {w}
    BY <1>2 DEF LateStatusLands
  <2>2. \A t \in Task : status'[t] = "running" => status[t] = "running" \/ StartedHere(t)
    BY <2>1 DEF SetStatus, Recovering, ControlTypeOK, TypeOK
  <2>3. mode = "up" /\ UNCHANGED <<mode, orphans, pc, owner, rpc, rtask>>
    BY <1>2 DEF LateStatusLands, reqVars
  <2>4. RunningFrame
    BY <2>1, <2>2, <2>3 DEF RunningFrame, Here
  <2>5. QED  BY <2>4, FrameKeepsRunning
<1>3. CASE LateDenyLands /\ UNCHANGED <<autonomy, reqVars>>
  <2>1. RunningFrame
    BY <1>3 DEF RunningFrame, Here, LateDenyLands, jobVars, reqVars
  <2>2. QED  BY <2>1, FrameKeepsRunning
<1>4. CASE BootStep /\ UNCHANGED <<autonomy, reqVars>>
  <2>1. UNCHANGED <<pc, owner, lateStatus, rpc, rtask>>
    BY <1>4 DEF BootStep, BootReads, Recover, Boot, BootDies, reqVars
  <2>2. CASE BootReads
    BY <2>1, <2>2 DEF BootReads, Recovering, RunningHasJob, StartedHere
  <2>3. CASE \E t \in Task : Recover(t)
    BY <2>1, <2>3 DEF Recover, SetStatus, Recovering, RunningHasJob, StartedHere, ControlTypeOK,
                      TypeOK
  <2>4. CASE Boot
    BY <2>1, <2>4 DEF Boot, Recovering, RunningHasJob, StartedHere
  <2>5. CASE BootDies
    BY <2>1, <2>5 DEF BootDies, Recovering, RunningHasJob, StartedHere
  <2>6. QED  BY <1>4, <2>2, <2>3, <2>4, <2>5 DEF BootStep
<1>5. ASSUME NEW r \in Req, RequestArrives(r) \/ AskApproval(r) \/ Resolve(r) \/ KillRow(r)
                            \/ RequestFault(r)
      PROVE  RunningFrame
  <2>1. mode = "up" /\ UNCHANGED <<mode, orphans, pc, owner, lateStatus>>
    BY <1>5 DEF RequestArrives, SubmitCoding, ApiAnswer, ChatAnswer, CancelTask, Accept,
       AskApproval, Resolve, KillRow, RequestFault, At, jobsVars, jobVars
  <2>2. \A q \in Req : rpc'[q] = "mark" => rpc[q] = "mark" /\ rtask'[q] = rtask[q]
    BY <1>5 DEF RequestArrives, SubmitCoding, ApiAnswer, ChatAnswer, CancelTask, Accept,
       AskApproval, Resolve, KillRow, RequestFault, At, Advance, ControlTypeOK
  <2>3. \A t \in Task : status'[t] = "running" => status[t] = "running"
    <3>1. CASE (\E t \in Task : SubmitCoding(r, t)) \/ KillRow(r)
      BY <3>1 DEF SubmitCoding, KillRow, SetStatus, ControlTypeOK, TypeOK
    <3>2. CASE ~((\E t \in Task : SubmitCoding(r, t)) \/ KillRow(r))
      BY <1>5, <3>2 DEF RequestArrives, ApiAnswer, ChatAnswer, CancelTask, AskApproval, Resolve,
         RequestFault, jobsVars, dbVars, jobVars
    <3>3. QED  BY <3>1, <3>2
  <2>4. QED  BY <2>1, <2>2, <2>3 DEF RunningFrame, Here
<1>6. ASSUME NEW r \in Req, Mark(r)
      PROVE  RunningFrame
  <2>1. StartedHere(rtask[r]) /\ SetStatus(rtask[r], "running")
    BY <1>6 DEF Mark, At, Recovering
  <2>2. \A t \in Task : status'[t] = "running" => status[t] = "running" \/ StartedHere(t)
    BY <2>1 DEF SetStatus, ControlTypeOK, TypeOK
  <2>3. \A q \in Req : rpc'[q] = "mark" => rpc[q] = "mark" /\ rtask'[q] = rtask[q]
    BY <1>6 DEF Mark, At, Advance, ControlTypeOK
  <2>4. QED  BY <1>6, <2>2, <2>3 DEF Mark, At, RunningFrame, Here
<1>7. ASSUME NEW r \in Req, Start(r)
      PROVE  RunningFrame
  <2>1. PICK j \in Job : StartJob(rtask[r], j)
    BY <1>7 DEF Start
  <2>2. \A i \in Job : Here(i) => pc'[i] \notin {"none", "lost"} /\ owner'[i] = owner[i]
    BY <2>1 DEF StartJob, FreshJob, Here, ControlTypeOK, TypeOK
  <2>3. pc'[j] = "new" /\ owner'[j] = rtask[r] /\ rtask' = rtask
    BY <1>7, <2>1 DEF Start, StartJob, Advance, ControlTypeOK, TypeOK
  <2>4. \A q \in Req : rpc'[q] = "mark" => rpc[q] = "mark" \/ q = r
    BY <1>7 DEF Start, Advance, ControlTypeOK
  <2>5. QED  BY <1>7, <2>2, <2>3, <2>4 DEF Start, At, RunningFrame
<1>8. ASSUME NEW r \in Req, KillJob(r)
      PROVE  RunningFrame
  <2> DEFINE j == registry[rtask[r]]
  <2>1. mode = "up" /\ UNCHANGED <<mode, orphans, status, owner>> /\ CancelRegistered(rtask[r])
    BY <1>8 DEF KillJob, At
  <2>2. \A q \in Req : rpc'[q] = "mark" => rpc[q] = "mark" /\ rtask'[q] = rtask[q]
    BY <1>8 DEF KillJob, At, Advance, ControlTypeOK
  <2>3. CASE j # None /\ pc[j] \in Live
    <3>1. j \in Job /\ Here(j)
      BY <1>8, <2>3 DEF KillJob, At, Shape, Live, Here, ControlTypeOK, TypeOK
    <3>2. pc' = [pc EXCEPT ![j] = "killed"] /\ lateStatus' \subseteq lateStatus \cup InFlight(j)
      BY <2>1, <2>3 DEF CancelRegistered
    <3>3. \A w \in InFlight(j) : StartedHere(w[1])
      BY <3>1 DEF InFlight, StartedHere, Here
    <3>4. \A i \in Job : Here(i) => pc'[i] \notin {"none", "lost"}
      BY <3>2 DEF Here, ControlTypeOK, TypeOK
    <3>5. QED  BY <2>1, <2>2, <3>2, <3>3, <3>4 DEF RunningFrame
  <2>4. CASE ~(j # None /\ pc[j] \in Live)
    <3>1. UNCHANGED <<pc, lateStatus>>
      BY <2>1, <2>4 DEF CancelRegistered
    <3>2. QED  BY <2>1, <2>2, <3>1 DEF RunningFrame, Here
  <2>5. QED  BY <2>3, <2>4
<1>9. CASE SubmitSteering
  <2>1. RunningFrame
    BY <1>9 DEF SubmitSteering, RunningFrame, Here, jobVars, reqVars
  <2>2. QED  BY <2>1, FrameKeepsRunning
<1>10. CASE CrashAll
  BY <1>10 DEF CrashAll, Crash, Recovering, RunningHasJob
<1>11. CASE UNCHANGED vars
  <2>1. RunningFrame
    BY <1>11 DEF vars, jobsVars, dbVars, reqVars, RunningFrame, Here
  <2>2. QED  BY <2>1, FrameKeepsRunning
<1>12. QED
  BY <1>1, <1>2, <1>3, <1>4, <1>5, <1>6, <1>7, <1>8, <1>9, <1>10, <1>11, FrameKeepsRunning
     DEF Next, JobsNext, RequestStep

-----------------------------------------------------------------------------
(* The invariant of the control plane *)

\* The inductive invariant holds when the process starts.
LEMMA InvInit == ControlInit => ControlInv
<1> SUFFICES ASSUME ControlInit PROVE ControlInv
  OBVIOUS
<1>1. ControlTypeOK /\ Shape
  BY TypeInit
<1>2. Consent /\ GatedStart
  BY DEF ControlInit, Init, Consent, HasConsent, AskedFor, GatedStart
<1>3. GateInv /\ Announcing /\ LiveJobReachable
  BY DEF ControlInit, Init, GateInv, GateWaits, RowAnswered, Announcing, LiveJobReachable, Live
<1>4. RowKinds /\ NoStartIsLost
  BY DEF ControlInit, Init, RowKinds, NoStartIsLost
<1>5. Recovering /\ RunningHasJob
  BY DEF ControlInit, Init, Recovering, RunningHasJob
<1> QED
  BY <1>1, <1>2, <1>3, <1>4, <1>5 DEF ControlInv

\* The inductive invariant is kept by every step.
LEMMA InvStep == ControlInv /\ [Next]_vars => ControlInv'
  BY TypeStep, ConsentStep, GateInvStep, ReachableStep, AnnouncingStep, RowKindsStep,
     NoStartStep, RecoveringStep DEF ControlInv

\* The conjunction from which the safety of the control plane follows: jobs.py,
\* coordinator.py and app.py keep it through races, faults, crashes and recovery.
THEOREM ControlInvariant == Spec => []ControlInv
  BY InvInit, InvStep, PTL DEF Spec

\* No job runs for a task that needs approval without a person's yes to that start
\* (coordinator.py start_approved_task, app.py approve).
THEOREM StartsAreGated == Spec => []GatedStart
<1>1. ControlInv => GatedStart
  BY DEF ControlInv
<1> QED
  BY <1>1, ControlInvariant, PTL

\* Jobs.cancel finds every live job in the registry, unless its task was started
\* twice (jobs.py start, cancel).
THEOREM LiveJobsAreReachable == Spec => []LiveJobReachable
<1>1. ControlInv => LiveJobReachable
  BY DEF ControlInv
<1> QED
  BY <1>1, ControlInvariant, PTL

\* Races of answers, timeouts and cancellations lose no approved start, and no task
\* that is pending; only a fault or a crash does (coordinator.py _handle_coding_task
\* and start_approved_task, app.py approve and reject).
THEOREM StartsAreNotLost == Spec => []NoStartIsLost
<1>1. ControlInv => NoStartIsLost
  BY DEF ControlInv
<1> QED
  BY <1>1, ControlInvariant, PTL

\* While requests are served, a running row belongs to a task this process started a
\* job for, after any number of crashes, also of recovery itself (jobs.py
\* recover_on_boot; runtime.py boot, which completes before a request is served).
THEOREM RunningRowsHaveJobs == Spec => []RunningHasJob
<1>1. ControlInv => RunningHasJob
  BY DEF ControlInv
<1> QED
  BY <1>1, ControlInvariant, PTL

\* A job that returned has put its terminal event on the ledger (jobs.py _run_job).
THEOREM EndsAreAnnounced == Spec => []EndIsAnnounced
<1>1. ControlInv => EndIsAnnounced
  BY DEF ControlInv, Announcing, EndIsAnnounced
<1> QED
  BY <1>1, ControlInvariant, PTL

-----------------------------------------------------------------------------
(* The gate implements ApprovalGate *)

\* A step that inserts no row, grants nothing and answers nothing is invisible.
LEMMA GateStutters ==
  ASSUME \A a \in Approval : apv'[a] = "absent" <=> apv[a] = "absent",
         granted' = granted, answer' = answer
  PROVE  UNCHANGED Gate!vars
  BY DEF Gate!vars

\* Inserting a row is asking a question.
LEMMA InsertAsks ==
  ASSUME ControlTypeOK, NEW a \in Approval, NEW k, NEW t, InsertApproval(a, k, t),
         granted' = granted, answer' = answer
  PROVE  Gate!Ask(a)
<1>1. apv[a] = "absent" /\ apv'[a] = "pending" /\ \A b \in Approval \ {a} : apv'[b] = apv[b]
  BY DEF ControlTypeOK, TypeOK, InsertApproval, FreshApproval
<1>2. {b \in Approval : apv'[b] # "absent"} = {b \in Approval : apv[b] # "absent"} \cup {a}
  BY <1>1
<1> QED
  BY <1>1, <1>2 DEF Gate!Ask

\* Every step asks, grants, allows or denies one question, or is invisible.
LEMMA GateRefinementStep ==
  ASSUME ControlTypeOK, Shape, Consent, GateInv, [Next]_vars
  PROVE  [Gate!Next]_(Gate!vars)
<1> USE DEF Gate!Next
<1>1. /\ apv \in [Approval -> {"absent", "pending", "approved", "rejected"}]
      /\ granted \in SUBSET Approval
      /\ answer \in [Approval -> {"none", "allow", "deny"}]
  BY DEF ControlTypeOK, TypeOK
<1>2. \A j \in Job : gpc[j] # "none" => gate[j] \in Approval /\ GateWaits(j)
  BY DEF ControlTypeOK, TypeOK, Shape, GateInv
<1>3. UNCHANGED <<apv, granted, answer>> => UNCHANGED Gate!vars
  BY GateStutters
<1>4. ASSUME NEW j \in Job, JobStep(j)
      PROVE  [Gate!Next]_(Gate!vars)
  <2>1. CASE GateAsk(j)
    <3>1. PICK a \in Approval : InsertApproval(a, "hand", owner[j])
      BY <2>1 DEF GateAsk
    <3> QED
      BY <2>1, <3>1, InsertAsks DEF GateAsk
  <2>2. CASE GateTimeout(j)
    <3>1. gate[j] \in Approval /\ apv[gate[j]] # "absent"
      BY <1>2, <2>2 DEF GateTimeout, GateWaits
    <3>2. \A a \in Approval : apv'[a] = "absent" <=> apv[a] = "absent"
      BY <1>1, <2>2, <3>1 DEF GateTimeout
    <3> QED
      BY <2>2, <3>2, GateStutters DEF GateTimeout
  <2>3. CASE GateReturns(j) \/ GateFault(j)
    <3> DEFINE a == gate[j]
    <3>1. /\ a \in Approval /\ apv[a] # "absent" /\ answer[a] = "none"
          /\ gpc[j] = "allow" => a \in granted
      BY <1>2, <2>3 DEF GateReturns, GateFault, GateWaits
    <3>2. /\ UNCHANGED <<apv, granted>>
          /\ \/ gpc[j] = "allow" /\ answer' = [answer EXCEPT ![a] = "allow"]
             \/ answer' = [answer EXCEPT ![a] = "deny"]
      BY <2>3 DEF GateReturns, GateFault, apvVars
    <3>3. Gate!Allow(a) \/ Gate!Deny(a)
      BY <3>1, <3>2 DEF Gate!Allow, Gate!Deny
    <3> QED
      BY <3>1, <3>3
  <2>4. CASE ~(GateAsk(j) \/ GateTimeout(j) \/ GateReturns(j) \/ GateFault(j))
    <3>1. UNCHANGED <<apv, granted, answer>>
      BY <1>4, <2>4 DEF JobStep, JobBegin, HandReturns, HandTimesOut, HandDegrades, JobStore,
         JobTell, JobNote, JobFail, JobFailTell, JobReaped, JobFault, GateResolved, Goto,
         DropGate, apvVars, gateVars
    <3> QED
      BY <1>3, <3>1
  <2> QED
    BY <2>1, <2>2, <2>3, <2>4
<1>5. CASE LateDenyLands
  <2>1. \A a \in Approval : apv'[a] = "absent" <=> apv[a] = "absent"
    BY <1>1, <1>5 DEF LateDenyLands, GateInv
  <2> QED
    BY <1>5, <2>1, GateStutters DEF LateDenyLands
<1>6. CASE LateStatusLands \/ BootStep
  BY <1>3, <1>6 DEF LateStatusLands, BootStep, BootReads, Recover, Boot, BootDies, apvVars, gateVars
<1>7. ASSUME NEW r \in Req, Resolve(r)
      PROVE  [Gate!Next]_(Gate!vars)
  <2> DEFINE a == rapv[r]
  <2>1. a \in Approval /\ apv[a] # "absent"
    BY <1>7 DEF Resolve, Shape, Consent, HasConsent
  <2>2. /\ answer' = answer
        /\ \A b \in Approval : apv'[b] = "absent" <=> apv[b] = "absent"
        /\ granted' = granted \/ granted' = granted \cup {a}
    BY <1>1, <1>7, <2>1 DEF Resolve, gateVars
  <2>3. CASE granted' = granted
    BY <2>2, <2>3, GateStutters
  <2>4. CASE granted' = granted \cup {a}
    <3>1. {b \in Approval : apv'[b] # "absent"} = {b \in Approval : apv[b] # "absent"}
      BY <2>2
    <3>2. Gate!Grant(a)
      BY <2>1, <2>2, <2>4, <3>1 DEF Gate!Grant
    <3> QED
      BY <2>1, <3>2
  <2> QED
    BY <2>2, <2>3, <2>4
<1>8. ASSUME NEW r \in Req, AskApproval(r)
      PROVE  [Gate!Next]_(Gate!vars)
  <2>1. PICK a \in Approval : InsertApproval(a, "start", rtask[r])
    BY <1>8 DEF AskApproval
  <2> QED
    BY <1>8, <2>1, InsertAsks DEF AskApproval, gateVars
<1>9. CASE SubmitSteering
  <2>1. PICK a \in Approval : InsertApproval(a, "steer", None)
    BY <1>9 DEF SubmitSteering
  <2> QED
    BY <1>9, <2>1, InsertAsks DEF SubmitSteering, gateVars
<1>10. ASSUME NEW r \in Req,
              \/ RequestArrives(r) \/ RequestFault(r)
              \/ Start(r) \/ Mark(r) \/ KillRow(r) \/ KillJob(r)
       PROVE  [Gate!Next]_(Gate!vars)
  <2>1. UNCHANGED <<apv, granted, answer>>
    BY <1>10 DEF RequestArrives, SubmitCoding, ApiAnswer, ChatAnswer, CancelTask, RequestFault,
       Start, Mark, KillRow, KillJob, CancelRegistered, DropGate, apvVars, gateVars, jobsVars, dbVars
  <2> QED
    BY <1>3, <2>1
<1>11. CASE CrashAll
  BY <1>3, <1>11 DEF CrashAll, Crash, apvVars
<1>12. CASE UNCHANGED vars
  BY <1>3, <1>12 DEF vars, jobsVars, dbVars, gateVars
<1> QED
  BY <1>4, <1>5, <1>6, <1>7, <1>8, <1>9, <1>10, <1>11, <1>12 DEF Next, JobsNext, RequestStep

\* The gate of jobs.py _await_approval, with every racing writer of its row,
\* implements ApprovalGate: one answer per question, and allow only after a grant.
THEOREM GateRefinement == Spec => GateImplements
<1>1. ControlInit => Gate!Init
  BY DEF ControlInit, Init, Gate!Init
<1>2. ControlInv /\ [Next]_vars => [Gate!Next]_(Gate!vars)
  BY GateRefinementStep DEF ControlInv
<1> QED
  BY <1>1, <1>2, ControlInvariant, PTL DEF Spec, GateImplements, Gate!Spec

=============================================================================
