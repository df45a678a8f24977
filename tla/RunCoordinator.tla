---------------------------- MODULE RunCoordinator ----------------------------
(***************************************************************************)
(* The lane of one session (session/run-coordinator.ts): at most one drain *)
(* and at most one coalesced follow-up.  Every operator is one synchronous *)
(* transition of the coordinator: it gives the lane it leaves behind.      *)
(*                                                                         *)
(* A demand is a run, which somebody waits for, or a wake, which carries   *)
(* the number of the prompt that it was sent for.  Sequence number 0       *)
(* stands for undefined.                                                   *)
(***************************************************************************)
EXTENDS Integers

Demand == {"run", "wake"}

\* current is "none" when there is no entry; boundary is the newest interrupt that
\* stopped the entry; waiter says that it has an explicitWaiter.  latest is the newest
\* interrupt of the session, which the coordinator keeps when no entry is left.
Lane == [current    : Demand \cup {"none"},
         seq        : Nat,
         pending    : Demand \cup {"none"},
         pendingSeq : Nat,
         waiter     : BOOLEAN,
         stopping   : BOOLEAN,
         boundary   : Nat,
         latest     : Nat]

NoLane == [current |-> "none", seq |-> 0, pending |-> "none", pendingSeq |-> 0,
           waiter |-> FALSE, stopping |-> FALSE, boundary |-> 0, latest |-> 0]

IsActive(lane) == lane.current # "none"

MaxSeq(m, n) == IF m < n THEN n ELSE m

\* An entry of its own: latest survives, and a waiter that is handed on.
MakeEntry(lane, demand, seq, waiter) ==
  [current |-> demand, seq |-> seq, pending |-> "none", pendingSeq |-> 0,
   waiter |-> waiter, stopping |-> FALSE, boundary |-> 0, latest |-> lane.latest]

\* Mutant of Coalesce: the newest demand takes the place of the one that is there.
CoalesceNewest(lane, demand, seq) ==
  [lane EXCEPT !.pending = demand, !.pendingSeq = IF demand = "run" THEN 0 ELSE MaxSeq(@, seq)]

\* Runs dominate; wakes keep the newest number.
Coalesce(lane, demand, seq) ==
  IF "run" \in {lane.pending, demand}
  THEN [lane EXCEPT !.pending = "run", !.pendingSeq = 0]
  ELSE [lane EXCEPT !.pending = "wake", !.pendingSeq = MaxSeq(@, seq)]

IsAfterInterrupt(lane, seq) == seq > lane.latest

AcceptsWake(lane, seq) == lane.stopping => seq > lane.boundary

\* Mutant of WakeResult: an active lane takes no wakes.
WakeIdleOnly(lane, seq) ==
  IF IsAfterInterrupt(lane, seq) /\ ~IsActive(lane) THEN MakeEntry(lane, "wake", seq, FALSE)
  ELSE lane

WakeResult(lane, seq) ==
  IF ~IsAfterInterrupt(lane, seq) THEN lane
  ELSE IF ~IsActive(lane) THEN MakeEntry(lane, "wake", seq, FALSE)
  ELSE IF AcceptsWake(lane, seq) THEN Coalesce(lane, "wake", seq)
  ELSE lane

\* A follow-up survives an interrupt only as a wake for a newer prompt.
SuppressPendingAtOrBefore(lane, seq) ==
  IF lane.pending = "wake" /\ lane.pendingSeq > seq
  THEN lane
  ELSE [lane EXCEPT !.pending = "none", !.pendingSeq = 0]

\* Work that was woken for a newer prompt than the interrupt goes on.
Outruns(lane, seq) == lane.current = "wake" /\ lane.seq > seq

InterruptResult(lane, seq) ==
  LET noted == [lane EXCEPT !.latest = seq]
  IN  IF seq <= lane.latest THEN lane
      ELSE IF ~IsActive(lane) \/ Outruns(lane, seq) THEN noted
      ELSE [SuppressPendingAtOrBefore(noted, seq) EXCEPT
              !.stopping = TRUE, !.boundary = MaxSeq(@, seq)]

\* What a caller of run waits for: that the entry which is being stopped settles,
\* and then again; that the follow-up is done; or that the whole entry is.
RunWaitsFor(lane) ==
  IF ~IsActive(lane) THEN "done"
  ELSE IF lane.stopping THEN "settled"
  ELSE IF lane.current = "wake" THEN "explicit"
  ELSE "done"

RunResult(lane) ==
  IF ~IsActive(lane) THEN MakeEntry(lane, "run", 0, FALSE)
  ELSE IF lane.stopping \/ lane.current = "run" THEN lane
  ELSE [Coalesce(lane, "run", 0) EXCEPT !.waiter = TRUE]

\* Mutant of AnswersWaiter: a waiter is answered by the drain that it found.
AnswersAtOnce(lane) == lane.waiter

\* Mutant of AnswersWaiter: an interrupt forgets the waiter.
AnswersRunOnly(lane) == lane.waiter /\ lane.current = "run"

\* The drain that ends answers the waiter if it was a run, or is being stopped.
AnswersWaiter(lane) == lane.waiter /\ (lane.current = "run" \/ lane.stopping)

\* A success goes on to the follow-up within the entry; any other end settles the
\* entry, and a follow-up that is left gets an entry of its own.
GoesOn(lane, exit) == exit = "success" /\ ~lane.stopping /\ lane.pending # "none"

\* Mutant of SettleResult: an entry that did not succeed drops its follow-up.
SettleDropsFollowUp(lane, exit) ==
  LET waiter == lane.waiter /\ ~AnswersWaiter(lane)
  IN  IF GoesOn(lane, exit)
      THEN [lane EXCEPT !.current = lane.pending, !.seq = lane.pendingSeq,
                        !.pending = "none", !.pendingSeq = 0, !.waiter = waiter]
      ELSE MakeEntry(lane, "none", 0, FALSE)

SettleResult(lane, exit) ==
  LET waiter == lane.waiter /\ ~AnswersWaiter(lane)
  IN  IF GoesOn(lane, exit)
      THEN [lane EXCEPT !.current = lane.pending, !.seq = lane.pendingSeq,
                        !.pending = "none", !.pendingSeq = 0, !.waiter = waiter]
      ELSE MakeEntry(lane, lane.pending, lane.pendingSeq, waiter)

===============================================================================
