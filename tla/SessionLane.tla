------------------------------ MODULE SessionLane ------------------------------
(***************************************************************************)
(* Prompts, runs and interrupts of one session, the lane that coordinates  *)
(* them, and the drain that the lane owns (session.ts, run-coordinator.ts, *)
(* input.ts, and the loop of runner/llm.ts).                               *)
(*                                                                         *)
(* A client's prompt is committed first and its wake reaches the lane      *)
(* later, from a fiber of its own; so does an interrupt.  The drain reads  *)
(* the inbox between any two of these.                                     *)
(***************************************************************************)
EXTENDS SessionInbox, RunCoordinator

CONSTANTS
  Caller,         \* fibers that resume the session and wait for the answer
  MaxSteps,       \* MAX_STEPS of the runner
  MaxExtras       \* bound: interrupts, and prompts that are sent once more, together

ASSUME LaneAssumption ==
  MaxSteps \in Nat \ {0} /\ MaxExtras \in Nat

VARIABLES
  inbox,      \* prompts of the session
  log,        \* number of the session's latest event
  wakes,      \* numbers of the prompts whose wake has not reached the lane
  interrupts, \* numbers of the interrupts that have not reached the lane
  lane,       \* the entry of the session, its follow-up and its boundaries
  drain,      \* where the owner of the entry stands
  caller,     \* what each caller waits for, or has been answered
  forced,     \* whether a forced drain has been active since it called
  extras,     \* how often clients have interrupted or sent a prompt again
  asked,      \* prompts that were to be resumed
  failed,     \* latest event when a drain last failed
  stopped     \* latest event when an interrupt last stopped a run

vars == <<inbox, log, wakes, interrupts, lane, drain, caller, forced, extras, asked, failed,
          stopped>>

\* What only the properties read.
history == <<forced, asked, failed, stopped>>

Waiting == {"done", "explicit", "settled"}
Exit == {"success", "failed", "interrupted"}

Drain == [pc     : {"none", "steer?", "queue?", "take", "steers", "turn", "more?", "left?", "end"},
          step   : 0..(MaxSteps - 1),
          cutoff : Nat]

NoDrain == [pc |-> "none", step |-> 0, cutoff |-> 0]
NewDrain == [NoDrain EXCEPT !.pc = "steer?"]

Init ==
  /\ inbox = EmptyInbox
  /\ log = 0
  /\ wakes = {} /\ interrupts = {}
  /\ lane = NoLane /\ drain = NoDrain
  /\ caller = [c \in Caller |-> "idle"]
  /\ forced = [c \in Caller |-> FALSE]
  /\ extras = 0
  /\ asked = {} /\ failed = 0 /\ stopped = 0

-------------------------------------------------------------------------------
(* Clients *)

EnqueueWake(p) ==
  /\ wakes' = wakes \cup {inbox'[p].seq}
  /\ asked' = asked \cup {p}

SendPrompt(p, d, resume) ==
  /\ ~IsAdmitted(inbox, p)
  /\ log' = log + 1
  /\ inbox' = AdmitResult(inbox, p, d, log')
  /\ IF resume THEN EnqueueWake(p) ELSE UNCHANGED <<wakes, asked>>
  /\ UNCHANGED <<interrupts, lane, drain, caller, forced, extras, failed, stopped>>

\* The same prompt may be sent again, and is then only woken for again; one that
\* differs is refused.
ResendPrompt(p) ==
  /\ IsAdmitted(inbox, p)
  /\ extras < MaxExtras /\ extras' = extras + 1
  /\ inbox' = AdmitResult(inbox, p, inbox[p].delivery, log + 1)
  /\ EnqueueWake(p)
  /\ UNCHANGED <<log, interrupts, lane, drain, caller, forced, failed, stopped>>

RequestInterrupt ==
  /\ extras < MaxExtras /\ extras' = extras + 1
  /\ log' = log + 1
  /\ interrupts' = interrupts \cup {log'}
  /\ UNCHANGED <<inbox, wakes, lane, drain, caller, history>>

-------------------------------------------------------------------------------
(* Transitions of the lane *)

\* A lane that becomes active starts the drain of its entry.
Started(l) == IF IsActive(lane) \/ ~IsActive(l) THEN drain ELSE NewDrain

\* Callers for whom a forced drain is running now.
MarkForced(l, callers) ==
  forced' = [c \in Caller |-> forced[c] \/ (callers[c] \in Waiting /\ l.current = "run")]

Wake(n) ==
  /\ n \in wakes
  /\ wakes' = wakes \ {n}
  /\ lane' = WakeResult(lane, n)
  /\ drain' = Started(lane')
  /\ UNCHANGED <<inbox, log, interrupts, caller, extras, history>>

Interrupt(n) ==
  /\ n \in interrupts
  /\ interrupts' = interrupts \ {n}
  /\ lane' = InterruptResult(lane, n)
  /\ stopped' = IF lane'.stopping /\ ~lane.stopping /\ "run" \in {lane.current, lane.pending}
                 THEN log ELSE stopped
  /\ UNCHANGED <<inbox, log, wakes, drain, caller, extras, forced, asked, failed>>

\* A caller that waited for a stopping entry to settle calls again.
Run(c) ==
  /\ caller[c] \in {"idle", "again"}
  /\ lane' = RunResult(lane)
  /\ drain' = Started(lane')
  /\ caller' = [caller EXCEPT ![c] = RunWaitsFor(lane)]
  /\ MarkForced(lane', caller')
  /\ UNCHANGED <<inbox, log, wakes, interrupts, extras, asked, failed, stopped>>

\* What the end of the drain means for a caller.
AnswerTo(c, exit) ==
  CASE caller[c] = "explicit" /\ AnswersWaiter(lane)    -> exit
    [] caller[c] = "done" /\ ~GoesOn(lane, exit)        -> exit
    [] caller[c] = "settled" /\ ~GoesOn(lane, exit)     -> "again"
    [] OTHER                                            -> caller[c]

Settle(exit) ==
  /\ lane' = SettleResult(lane, exit)
  /\ drain' = IF IsActive(lane') THEN NewDrain ELSE NoDrain
  /\ caller' = [c \in Caller |-> AnswerTo(c, exit)]
  /\ MarkForced(lane', caller')
  /\ failed' = IF exit = "failed" /\ ~lane.stopping THEN log ELSE failed
  /\ UNCHANGED <<inbox, log, wakes, interrupts, extras, asked, stopped>>

-------------------------------------------------------------------------------
(* The drain.  One that is stopping does nothing more in the inbox. *)

At(pc) == drain.pc = pc /\ ~lane.stopping

GoTo(pc) == drain' = [drain EXCEPT !.pc = pc]

DrainStep == UNCHANGED <<wakes, interrupts, lane, caller, extras, history>>

ReadOnly == DrainStep /\ UNCHANGED <<inbox, log>>

\* A forced drain has a turn even when nothing is pending.
FindSteer ==
  /\ At("steer?")
  /\ IF HasPending(inbox, "steer") THEN drain' = [drain EXCEPT !.pc = "steers", !.cutoff = log]
                                   ELSE GoTo("queue?")
  /\ ReadOnly

FindQueue ==
  /\ At("queue?")
  /\ GoTo(IF HasPending(inbox, "queue") THEN "take"
          ELSE IF lane.current = "run" THEN "turn"
          ELSE "end")
  /\ ReadOnly

Promote(p) ==
  /\ log' = log + 1
  /\ inbox' = PromoteResult(inbox, p, log')

\* The cutoff is read before the queued prompt is taken.
TakeQueued ==
  /\ At("take")
  /\ \E p \in Prompt : IsFirst(inbox, p, "queue", log) /\ Promote(p)
  /\ drain' = [drain EXCEPT !.pc = "steers", !.cutoff = log]
  /\ DrainStep

TakeSteer ==
  /\ At("steers")
  /\ \E p \in Prompt : IsFirst(inbox, p, "steer", drain.cutoff) /\ Promote(p)
  /\ UNCHANGED drain
  /\ DrainStep

SteersTaken ==
  /\ At("steers")
  /\ ~\E p \in PendingOf(inbox, "steer") : inbox[p].seq <= drain.cutoff
  /\ GoTo("turn")
  /\ ReadOnly

\* Another turn promotes the steering prompts that have come in.
NextTurn == drain' = [drain EXCEPT !.pc = "steers", !.step = @ + 1, !.cutoff = log]

LimitReached == drain.step + 1 = MaxSteps

\* The turn of the model called tools whose results it has to see.
TurnContinues ==
  /\ At("turn") /\ ~LimitReached
  /\ NextTurn
  /\ ReadOnly

TurnEnds ==
  /\ At("turn")
  /\ GoTo("more?")
  /\ ReadOnly

NoMoreSteers ==
  /\ At("more?") /\ ~HasPending(inbox, "steer")
  /\ GoTo("left?")
  /\ ReadOnly

MoreSteers ==
  /\ At("more?") /\ HasPending(inbox, "steer") /\ ~LimitReached
  /\ NextTurn
  /\ ReadOnly

FindLeft ==
  /\ At("left?")
  /\ drain' = IF HasPending(inbox, "queue") THEN [drain EXCEPT !.pc = "take", !.step = 0]
                                            ELSE [drain EXCEPT !.pc = "end"]
  /\ ReadOnly

Finish == At("end") /\ Settle("success")

\* A turn fails, also before it has promoted what it was for (its context cannot be set
\* up, or the session has moved), or is ended by a question that was dismissed.
TurnFails ==
  /\ At("take") \/ At("steers") \/ At("turn")
  /\ Settle("failed")

StepLimitExceeded ==
  /\ LimitReached
  /\ At("turn") \/ (At("more?") /\ HasPending(inbox, "steer"))
  /\ Settle("failed")

\* A turn that is cut off may end with a failure of its own.
Unwind ==
  /\ lane.stopping
  /\ Settle("interrupted") \/ (drain.pc = "turn" /\ Settle("failed"))

DrainNext ==
  \/ FindSteer \/ FindQueue \/ TakeQueued \/ TakeSteer \/ SteersTaken
  \/ TurnContinues \/ TurnEnds \/ NoMoreSteers \/ MoreSteers \/ FindLeft
  \/ Finish \/ TurnFails \/ StepLimitExceeded \/ Unwind

-------------------------------------------------------------------------------

Client ==
  \/ \E p \in Prompt, d \in Delivery, resume \in BOOLEAN : SendPrompt(p, d, resume)
  \/ \E p \in Prompt : ResendPrompt(p)
  \/ RequestInterrupt

\* A fiber that was forked by a client's commit reaches the lane.
Deliver ==
  \/ \E n \in wakes : Wake(n)
  \/ \E n \in interrupts : Interrupt(n)

LaneNext == Deliver \/ \E c \in Caller : Run(c)

Next == Client \/ LaneNext \/ DrainNext

\* The fibers that were forked run, in any order; a turn ends, or is cut off.  Clients
\* need not act.
Fairness ==
  /\ WF_vars(Deliver)
  /\ \A c \in Caller : WF_vars(caller[c] = "again" /\ Run(c))
  /\ WF_vars(DrainNext)

Spec == Init /\ [][Next]_vars /\ Fairness

-------------------------------------------------------------------------------
(* Properties *)

\* Every variable has values of its kind, and a drain runs while there is an entry.
LaneTypeOK ==
  /\ inbox \in Inbox /\ log \in Nat
  /\ wakes \subseteq 1..log /\ interrupts \subseteq 1..log
  /\ lane \in Lane /\ drain \in Drain
  /\ caller \in [Caller -> {"idle", "again"} \cup Waiting \cup Exit]
  /\ forced \in [Caller -> BOOLEAN]
  /\ extras \in 0..MaxExtras
  /\ asked \subseteq Prompt /\ failed \in 0..log /\ stopped \in 0..log
  /\ IsActive(lane) <=> drain.pc # "none"

\* A prompt that is to be resumed, newer than every interrupt and failure, and
\* neither taken nor on its way to the lane.
Forgotten(p) ==
  /\ p \in asked /\ IsPending(inbox, p) /\ inbox[p].seq \notin wakes
  /\ inbox[p].seq > lane.latest /\ inbox[p].seq > failed

\* When the lane is idle no prompt lies there for nobody: its wake is still on its
\* way, or it is older than an interrupt, a failure or the stop of a run.  This is
\* the order of commit, wake and check in session.ts:359-373 and llm.ts:377-394,
\* and the numbers that coalesced wakes keep (run-coordinator.ts:53-56, 257-266).
NothingForgotten ==
  ~IsActive(lane) => \A p \in Prompt : Forgotten(p) => inbox[p].seq <= stopped

\* "Advisory wakes from before the interrupt boundary are suppressed; advisory wakes
\* after the boundary run after cleanup" (run-coordinator.ts:26-27).
WakesAfterBoundaryRun == ~IsActive(lane) => ~\E p \in Prompt : Forgotten(p)

\* Prompts of one kind are taken in the order of their admission.
TakenInOrder ==
  \A p, q \in Prompt :
    /\ inbox[p].delivery = inbox[q].delivery
    /\ inbox[q].promoted > 0 /\ IsAdmitted(inbox, p) /\ inbox[p].seq < inbox[q].seq
    => inbox[p].promoted \in 1..(inbox[q].promoted - 1)

\* A caller that is told of success has had a drain that was forced: its demand was
\* not taken for a wake (run-coordinator.ts:21, 54).
SuccessWasForced == \A c \in Caller : caller[c] = "success" => forced[c]

\* Nobody waits for what will not come: there is an entry; one that waits for it to
\* settle waits for a stop; and the explicit waiter, which the entry hands on to its
\* successor, has a forced drain before it or a stop, whatever was coalesced into the
\* follow-up or suppressed in it meanwhile (run-coordinator.ts:117-150, 220-235).
WaitersAreServed ==
  \A c \in Caller :
    /\ caller[c] \in Waiting => IsActive(lane)
    /\ caller[c] = "settled" => lane.stopping
    /\ caller[c] = "explicit" =>
         /\ lane.waiter
         /\ lane.stopping \/ "run" \in {lane.current, lane.pending}

\* A caller that waits is answered (run-coordinator.ts:118-150).
CallersAreAnswered ==
  \A c \in Caller : caller[c] \in Waiting ~> caller[c] \in Exit

\* A prompt that is to be resumed is taken, unless a newer interrupt, a failure or
\* the stop of a run comes before that.
PromptsAreTaken ==
  \A p \in Prompt :
    p \in asked /\ IsPending(inbox, p)
      ~> \/ ~IsPending(inbox, p)
         \/ inbox[p].seq <= lane.latest
         \/ inbox[p].seq <= failed
         \/ inbox[p].seq <= stopped

===============================================================================
