--------------------------- MODULE SessionLane_proofs ---------------------------
(***************************************************************************)
(* Theorems about SessionLane, for any number of prompts and callers.      *)
(*                                                                         *)
(* The argument for NothingForgotten follows a prompt whose wake has       *)
(* reached the lane.  Either the follow-up carries it, with a number that  *)
(* an interrupt respects, or the drain has not yet made the check in which *)
(* it will be found.                                                       *)
(***************************************************************************)
EXTENDS SessionLane, TLAPS

\* The follow-up of the lane was asked for this prompt, or for a newer one.
Carried(p) ==
  \/ lane.pending = "run"
  \/ lane.pending = "wake" /\ lane.pendingSeq >= inbox[p].seq

\* The checks that the drain has yet to make will find the prompt.
WillSee(p) ==
  \/ drain.pc \in {"steer?", "take", "steers", "turn", "more?"}
  \/ drain.pc \in {"queue?", "left?"} /\ inbox[p].delivery = "queue"

\* An interrupt that the prompt outruns does not stop the entry.
Protected(p) == lane.current = "run" \/ lane.seq >= inbox[p].seq

\* Where a prompt may be that is still owed a drain.
Owed(p) == Forgotten(p) /\ inbox[p].seq > stopped

Placed(p) ==
  /\ IsActive(lane)
  /\ Carried(p) \/ (~lane.stopping /\ WillSee(p) /\ Protected(p))

OwedArePlaced == \A p \in Prompt : Owed(p) => Placed(p)

\* Bounds on the numbers that are compared.
Numbers ==
  /\ \A p \in Prompt : inbox[p].seq \in 0..log /\ inbox[p].promoted \in 0..log
  /\ \A p \in asked : IsAdmitted(inbox, p)
  /\ lane.boundary <= lane.latest
  /\ lane.stopping => lane.pending # "run"

\* What a caller that waits has seen.
WaitersWereForced ==
  \A c \in Caller :
    caller[c] \in Waiting /\ (lane.current = "run" \/ caller[c] = "done") => forced[c]

IInv ==
  /\ LaneTypeOK
  /\ Numbers
  /\ OwedArePlaced
  /\ TakenInOrder
  /\ WaitersWereForced
  /\ SuccessWasForced
  /\ WaitersAreServed

-------------------------------------------------------------------------------
(* The lane *)

LEMMA MaxSeqNat ==
  ASSUME NEW m \in Nat, NEW n \in Nat
  PROVE  MaxSeq(m, n) \in Nat /\ MaxSeq(m, n) >= m /\ MaxSeq(m, n) >= n
BY DEF MaxSeq

\* What the transitions of the lane give is a lane.
LEMMA EntryIsLane ==
  ASSUME NEW l \in Lane, NEW d \in Demand \cup {"none"}, NEW n \in Nat, NEW w \in BOOLEAN
  PROVE  /\ MakeEntry(l, d, n, w) \in Lane
         /\ MakeEntry(l, d, n, w) =
              [current |-> d, seq |-> n, pending |-> "none", pendingSeq |-> 0,
               waiter |-> w, stopping |-> FALSE, boundary |-> 0, latest |-> l.latest]
BY DEF MakeEntry, NoLane, Lane, Demand

LEMMA CoalesceIsLane ==
  ASSUME NEW l \in Lane, NEW d \in Demand, NEW n \in Nat
  PROVE  /\ Coalesce(l, d, n) \in Lane
         /\ \/ Coalesce(l, d, n).pending = "run"
            \/ /\ Coalesce(l, d, n).pending = "wake"
               /\ Coalesce(l, d, n).pendingSeq >= n
               /\ Coalesce(l, d, n).pendingSeq >= l.pendingSeq
         /\ d = "wake" /\ l.pending # "run" => Coalesce(l, d, n).pending = "wake"
         /\ d = "run" \/ l.pending = "run" => Coalesce(l, d, n).pending = "run"
         /\ Coalesce(l, d, n).current = l.current /\ Coalesce(l, d, n).seq = l.seq
         /\ Coalesce(l, d, n).stopping = l.stopping
         /\ Coalesce(l, d, n).boundary = l.boundary
         /\ Coalesce(l, d, n).latest = l.latest
<1>1. CASE "run" \in {l.pending, d}
  <2>1. Coalesce(l, d, n) = [l EXCEPT !.pending = "run", !.pendingSeq = 0]
    BY <1>1 DEF Coalesce
  <2> DEFINE k == [l EXCEPT !.pending = "run", !.pendingSeq = 0]
  <2>2. /\ k \in Lane /\ k.pending = "run" /\ k.current = l.current /\ k.seq = l.seq
        /\ k.stopping = l.stopping /\ k.boundary = l.boundary /\ k.latest = l.latest
    BY DEF Lane, Demand
  <2>3. Coalesce(l, d, n) = k
    BY <2>1
  <2>4. ~(d = "wake" /\ l.pending # "run")
    BY <1>1
  <2> HIDE DEF k
  <2>5. QED  BY <2>2, <2>3, <2>4
<1>2. CASE "run" \notin {l.pending, d}
  <2>1. Coalesce(l, d, n) =
          [l EXCEPT !.pending = "wake", !.pendingSeq = MaxSeq(l.pendingSeq, n)]
    BY <1>2 DEF Coalesce
  <2>2. /\ MaxSeq(l.pendingSeq, n) \in Nat /\ MaxSeq(l.pendingSeq, n) >= n
        /\ MaxSeq(l.pendingSeq, n) >= l.pendingSeq
    BY MaxSeqNat DEF Lane
  <2>3. QED  BY <1>2, <2>1, <2>2 DEF Lane, Demand
<1>3. QED  BY <1>1, <1>2

LEMMA SuppressIsLane ==
  ASSUME NEW l \in Lane, NEW n \in Nat, NEW s, s = SuppressPendingAtOrBefore(l, n)
  PROVE  /\ s \in Lane
         /\ s.pending \in {"wake", "none"}
         /\ l.pending = "wake" /\ l.pendingSeq > n =>
              s.pending = "wake" /\ s.pendingSeq = l.pendingSeq
         /\ s.current = l.current /\ s.seq = l.seq
         /\ s.boundary = l.boundary /\ s.latest = l.latest
BY DEF SuppressPendingAtOrBefore, Lane, Demand

LEMMA RunIsLane ==
  ASSUME NEW l \in Lane
  PROVE  /\ RunResult(l) \in Lane
         /\ IsActive(RunResult(l))
         /\ ~IsActive(l) => RunResult(l) = MakeEntry(l, "run", 0, FALSE)
         /\ IsActive(l) =>
              /\ RunResult(l).current = l.current /\ RunResult(l).seq = l.seq
              /\ RunResult(l).stopping = l.stopping
              /\ RunResult(l).boundary = l.boundary /\ RunResult(l).latest = l.latest
              /\ \/ RunResult(l) = l
                 \/ ~l.stopping /\ RunResult(l).pending = "run"
<1>1. CASE ~IsActive(l)
  <2>1. RunResult(l) = MakeEntry(l, "run", 0, FALSE)
    BY <1>1 DEF RunResult
  <2>2. /\ MakeEntry(l, "run", 0, FALSE) \in Lane
        /\ MakeEntry(l, "run", 0, FALSE).current = "run"
    BY DEF MakeEntry, Lane, Demand
  <2>3. QED  BY <1>1, <2>1, <2>2 DEF IsActive
<1>2. CASE IsActive(l) /\ (l.stopping \/ l.current = "run")
  BY <1>2 DEF RunResult
<1>3. CASE IsActive(l) /\ ~l.stopping /\ l.current # "run"
  <2> DEFINE k == Coalesce(l, "run", 0)
  <2>1. RunResult(l) = [k EXCEPT !.waiter = TRUE]
    BY <1>3 DEF RunResult
  <2>2. /\ k \in Lane /\ k.pending = "run" /\ k.current = l.current /\ k.seq = l.seq
        /\ k.stopping = l.stopping /\ k.boundary = l.boundary /\ k.latest = l.latest
    BY CoalesceIsLane DEF Demand
  <2> HIDE DEF k
  <2>3. QED  BY <1>3, <2>1, <2>2 DEF Lane, IsActive
<1>4. QED  BY <1>1, <1>2, <1>3

\* An interrupt is old; or it is noted only; or it stops the entry.
LEMMA InterruptIsLane ==
  ASSUME NEW l \in Lane, NEW n \in Nat, NEW i, i = InterruptResult(l, n)
  PROVE  /\ i \in Lane
         /\ i.current = l.current /\ i.seq = l.seq
         /\ \/ i = l /\ n <= l.latest
            \/ /\ n > l.latest /\ i.latest = n
               /\ ~IsActive(l) \/ Outruns(l, n)
               /\ i.pending = l.pending /\ i.pendingSeq = l.pendingSeq
               /\ i.stopping = l.stopping /\ i.boundary = l.boundary
            \/ /\ n > l.latest /\ i.latest = n
               /\ i.stopping /\ i.boundary >= n
               /\ i.boundary = n \/ i.boundary = l.boundary
               /\ i.pending \in {"wake", "none"}
               /\ l.pending = "wake" /\ l.pendingSeq > n =>
                    i.pending = "wake" /\ i.pendingSeq = l.pendingSeq
               /\ ~Outruns(l, n)
<1> DEFINE noted == [l EXCEPT !.latest = n]
<1>1. CASE n <= l.latest
  BY <1>1 DEF InterruptResult
<1>2. /\ noted \in Lane /\ noted.latest = n /\ noted.current = l.current
      /\ noted.seq = l.seq /\ noted.pending = l.pending
      /\ noted.pendingSeq = l.pendingSeq /\ noted.stopping = l.stopping
      /\ noted.boundary = l.boundary
  BY DEF Lane
<1>3. CASE ~(n <= l.latest) /\ (~IsActive(l) \/ Outruns(l, n))
  <2>1. InterruptResult(l, n) = noted
    BY <1>3 DEF InterruptResult
  <2>2. n > l.latest
    BY <1>3 DEF Lane
  <2> HIDE DEF noted
  <2>3. QED  BY <1>2, <1>3, <2>1, <2>2
<1>4. CASE ~(n <= l.latest) /\ ~(~IsActive(l) \/ Outruns(l, n))
  <2> DEFINE s == SuppressPendingAtOrBefore(noted, n)
  <2>1. InterruptResult(l, n) =
          [s EXCEPT !.stopping = TRUE, !.boundary = MaxSeq(s.boundary, n)]
    BY <1>4 DEF InterruptResult
  <2> HIDE DEF noted
  <2>2a. /\ s \in Lane /\ s.pending \in {"wake", "none"}
         /\ noted.pending = "wake" /\ noted.pendingSeq > n =>
              s.pending = "wake" /\ s.pendingSeq = noted.pendingSeq
         /\ s.current = noted.current /\ s.seq = noted.seq
         /\ s.boundary = noted.boundary /\ s.latest = noted.latest
    BY <1>2, SuppressIsLane
  <2> HIDE DEF s
  <2>2. /\ s \in Lane /\ s.pending \in {"wake", "none"}
        /\ l.pending = "wake" /\ l.pendingSeq > n =>
             s.pending = "wake" /\ s.pendingSeq = l.pendingSeq
        /\ s.current = l.current /\ s.seq = l.seq
        /\ s.boundary = l.boundary /\ s.latest = n
    BY <1>2, <2>2a
  <2>3. n > l.latest
    BY <1>4 DEF Lane
  <2>4. /\ MaxSeq(s.boundary, n) \in Nat /\ MaxSeq(s.boundary, n) >= n
        /\ MaxSeq(s.boundary, n) \in {n, l.boundary}
    BY <2>2, MaxSeqNat DEF Lane, MaxSeq
  <2>5. QED  BY <1>4, <2>1, <2>2, <2>3, <2>4 DEF Lane
<1>5. QED  BY <1>1, <1>3, <1>4

LEMMA SettleIsLane ==
  ASSUME NEW l \in Lane, NEW exit \in Exit
  PROVE  SettleResult(l, exit) \in Lane
BY EntryIsLane DEF SettleResult, AnswersWaiter, Lane, Demand

-------------------------------------------------------------------------------
(* Types and bounds *)

LEMMA TypeInit == Init => LaneTypeOK /\ Numbers
BY LaneAssumption DEF Init, LaneTypeOK, Numbers, EmptyInbox, Inbox, Entry, Delivery, NoLane,
   Lane, Demand, NoDrain, Drain, IsActive, Waiting, Exit

LEMMA ClientType ==
  ASSUME LaneTypeOK, Numbers, Client
  PROVE  LaneTypeOK' /\ Numbers'
<1>1. ASSUME NEW p \in Prompt, NEW d \in Delivery, NEW resume \in BOOLEAN,
             SendPrompt(p, d, resume)
      PROVE  LaneTypeOK' /\ Numbers'
  <2>1. /\ inbox' = [inbox EXCEPT ![p] = [seq |-> log + 1, delivery |-> d, promoted |-> 0]]
        /\ log' = log + 1
        /\ inbox'[p].seq = log + 1
        /\ wakes' \subseteq wakes \cup {log + 1} /\ asked' \subseteq asked \cup {p}
    BY <1>1 DEF SendPrompt, EnqueueWake, AdmitResult, LaneTypeOK, Inbox
  <2>2. inbox' \in Inbox /\ log' \in Nat
    BY <2>1 DEF LaneTypeOK, Inbox, Entry
  <2>3. LaneTypeOK'
    BY <1>1, <2>1, <2>2 DEF SendPrompt, LaneTypeOK
  <2>4. Numbers'
    BY <1>1, <2>1 DEF SendPrompt, LaneTypeOK, Numbers, Inbox, Entry, IsAdmitted
  <2>5. QED  BY <2>3, <2>4
<1>2. ASSUME NEW p \in Prompt, ResendPrompt(p)
      PROVE  LaneTypeOK' /\ Numbers'
  <2>1. /\ inbox' = inbox /\ wakes' = wakes \cup {inbox[p].seq} /\ asked' = asked \cup {p}
    BY <1>2 DEF ResendPrompt, EnqueueWake, AdmitResult
  <2>2. inbox[p].seq \in 1..log /\ IsAdmitted(inbox, p)
    BY <1>2 DEF ResendPrompt, IsAdmitted, Numbers, LaneTypeOK
  <2>3. extras' \in 0..MaxExtras
    BY <1>2, LaneAssumption DEF ResendPrompt, LaneTypeOK
  <2>4. LaneTypeOK'
    BY <1>2, <2>1, <2>2, <2>3 DEF ResendPrompt, LaneTypeOK
  <2>5. Numbers'
    BY <1>2, <2>1, <2>2 DEF ResendPrompt, Numbers
  <2>6. QED  BY <2>4, <2>5
<1>3. CASE RequestInterrupt
  <2>1. log' = log + 1 /\ extras' \in 0..MaxExtras
    BY <1>3, LaneAssumption DEF RequestInterrupt, LaneTypeOK
  <2>2. LaneTypeOK'
    BY <1>3, <2>1 DEF RequestInterrupt, history, LaneTypeOK
  <2>3. Numbers'
    BY <1>3, <2>1 DEF RequestInterrupt, history, LaneTypeOK, Numbers
  <2>4. QED  BY <2>2, <2>3
<1>4. QED  BY <1>1, <1>2, <1>3 DEF Client

LEMMA StartedDrain ==
  ASSUME LaneTypeOK, NEW l \in Lane, IsActive(lane) => IsActive(l)
  PROVE  Started(l) \in Drain /\ (IsActive(l) <=> Started(l).pc # "none")
BY LaneAssumption DEF Started, LaneTypeOK, NewDrain, NoDrain, Drain

LEMMA LaneType ==
  ASSUME LaneTypeOK, Numbers, LaneNext
  PROVE  LaneTypeOK' /\ Numbers'
<1>0. lane \in Lane
  BY DEF LaneTypeOK
<1>1. ASSUME NEW n \in wakes, Wake(n)
      PROVE  LaneTypeOK' /\ Numbers'
  <2>0. n \in Nat
    BY DEF LaneTypeOK
  <2>1. /\ lane' \in Lane /\ (IsActive(lane) => IsActive(lane'))
        /\ lane'.boundary <= lane'.latest
        /\ lane'.stopping => lane'.pending # "run"
    <3>1. CASE lane' = lane
      BY <1>0, <3>1 DEF Numbers
    <3>2. CASE ~IsActive(lane) /\ lane' = MakeEntry(lane, "wake", n, FALSE)
      BY <1>0, <2>0, <3>2 DEF MakeEntry, IsActive, Demand, Lane
    <3>3. CASE lane' = Coalesce(lane, "wake", n)
      BY <1>0, <2>0, <3>3, CoalesceIsLane DEF IsActive, Demand, Numbers
    <3>4. QED  BY <1>1, <3>1, <3>2, <3>3 DEF Wake, WakeResult
  <2>2. drain' \in Drain /\ (IsActive(lane') <=> drain'.pc # "none")
    BY <1>1, <2>1, StartedDrain DEF Wake
  <2>3. QED
    BY <1>1, <2>1, <2>2 DEF Wake, history, LaneTypeOK, Numbers
<1>2. ASSUME NEW n \in interrupts, Interrupt(n)
      PROVE  LaneTypeOK' /\ Numbers'
  <2>0. n \in Nat /\ lane' = InterruptResult(lane, n)
    BY <1>2 DEF LaneTypeOK, Interrupt
  <2>1. /\ lane' \in Lane /\ lane'.current = lane.current
        /\ lane'.boundary <= lane'.latest
        /\ lane'.stopping => lane'.pending # "run"
    <3>1. lane.boundary \in Nat /\ lane.latest \in Nat /\ lane.boundary <= lane.latest
      BY <1>0 DEF Lane, Numbers
    <3>2. lane.stopping => lane.pending # "run"
      BY DEF Numbers
    <3>3. /\ lane' \in Lane /\ lane'.current = lane.current
          /\ \/ lane' = lane
             \/ /\ lane'.latest = n /\ n > lane.latest /\ lane'.boundary = lane.boundary
                /\ lane'.pending = lane.pending /\ lane'.stopping = lane.stopping
             \/ /\ lane'.latest = n /\ n > lane.latest
                /\ lane'.boundary \in {n, lane.boundary}
                /\ lane'.pending \in {"wake", "none"}
      BY <1>0, <2>0, InterruptIsLane
    <3>4. QED  BY <2>0, <3>1, <3>2, <3>3
  <2>2. QED
    BY <1>2, <2>1 DEF Interrupt, LaneTypeOK, Numbers, IsActive
<1>3. ASSUME NEW c \in Caller, Run(c)
      PROVE  LaneTypeOK' /\ Numbers'
  <2>1. /\ lane' \in Lane /\ IsActive(lane')
        /\ lane'.boundary <= lane'.latest
        /\ lane'.stopping => lane'.pending # "run"
    <3>1. lane' = RunResult(lane)
      BY <1>3 DEF Run
    <3>2. CASE IsActive(lane)
      BY <1>0, <3>1, <3>2, RunIsLane DEF Numbers
    <3>3. CASE ~IsActive(lane)
      BY <1>0, <3>1, <3>3, RunIsLane DEF MakeEntry, Lane
    <3>4. QED  BY <3>2, <3>3
  <2>2. drain' \in Drain /\ (IsActive(lane') <=> drain'.pc # "none")
    BY <1>3, <2>1, StartedDrain DEF Run
  <2>3. /\ caller' \in [Caller -> {"idle", "again"} \cup Waiting \cup Exit]
        /\ forced' \in [Caller -> BOOLEAN]
    BY <1>3 DEF Run, MarkForced, RunWaitsFor, LaneTypeOK, Waiting
  <2>4. QED
    BY <1>3, <2>1, <2>2, <2>3 DEF Run, LaneTypeOK, Numbers
<1>4. QED  BY <1>1, <1>2, <1>3 DEF LaneNext, Deliver

LEMMA AnswersType ==
  ASSUME LaneTypeOK, NEW exit \in Exit, caller' = [c \in Caller |-> AnswerTo(c, exit)]
  PROVE  caller' \in [Caller -> {"idle", "again"} \cup Waiting \cup Exit]
<1>1. ASSUME NEW c \in Caller
      PROVE  AnswerTo(c, exit) \in {"idle", "again"} \cup Waiting \cup Exit
  <2>1. caller[c] \in {"idle", "again"} \cup Waiting \cup Exit
    BY DEF LaneTypeOK
  <2>2. AnswerTo(c, exit) \in {exit, "again", caller[c]}
    BY DEF AnswerTo
  <2>3. QED  BY <2>1, <2>2
<1>2. QED  BY <1>1

LEMMA SettleType ==
  ASSUME LaneTypeOK, Numbers, NEW exit \in Exit, Settle(exit)
  PROVE  LaneTypeOK' /\ Numbers'
<1>0. lane \in Lane
  BY DEF LaneTypeOK
<1>1. /\ lane' \in Lane /\ lane'.boundary <= lane'.latest
      /\ lane'.stopping => lane'.pending # "run"
  <2>1. lane' = SettleResult(lane, exit) /\ lane' \in Lane
    BY <1>0, SettleIsLane DEF Settle
  <2>2. CASE GoesOn(lane, exit)
    <3>1. /\ lane'.boundary = lane.boundary /\ lane'.latest = lane.latest
          /\ lane'.pending = "none"
      BY <1>0, <2>1, <2>2 DEF SettleResult, Lane
    <3>2. QED  BY <2>1, <3>1 DEF Numbers
  <2>3. CASE ~GoesOn(lane, exit)
    <3>1. lane'.boundary = 0 /\ lane'.latest = lane.latest /\ lane'.pending = "none"
      BY <2>1, <2>3 DEF SettleResult, MakeEntry
    <3>2. QED  BY <1>0, <2>1, <3>1 DEF Lane
  <2>4. QED  BY <2>2, <2>3
<1>2. drain' \in Drain /\ (IsActive(lane') <=> drain'.pc # "none")
  BY LaneAssumption DEF Settle, NewDrain, NoDrain, Drain
<1>3. caller' \in [Caller -> {"idle", "again"} \cup Waiting \cup Exit]
  BY AnswersType DEF Settle
<1>4. forced' \in [Caller -> BOOLEAN]
  BY DEF Settle, MarkForced, LaneTypeOK
<1>5. failed' \in 0..log
  BY DEF Settle, LaneTypeOK
<1>6. QED
  BY <1>1, <1>2, <1>3, <1>4, <1>5 DEF Settle, LaneTypeOK, Numbers

\* Every step of the drain within the entry.
Move ==
  \/ FindSteer \/ FindQueue \/ TakeQueued \/ TakeSteer \/ SteersTaken
  \/ TurnContinues \/ TurnEnds \/ NoMoreSteers \/ MoreSteers \/ FindLeft

\* A step of the drain within the entry; one that ends it.
LEMMA DrainSteps ==
  ASSUME DrainNext
  PROVE  \/ Move
         \/ At("end") /\ Settle("success")
         \/ ~lane.stopping /\ Settle("failed")
         \/ lane.stopping /\ (Settle("interrupted") \/ Settle("failed"))
BY DEF DrainNext, Move, Finish, TurnFails, StepLimitExceeded, Unwind, At

LEMMA PromoteInbox ==
  ASSUME LaneTypeOK, Numbers, NEW p \in Prompt, Promote(p)
  PROVE  /\ inbox' = [inbox EXCEPT ![p].promoted = log + 1]
         /\ inbox' \in Inbox /\ log' = log + 1
         /\ inbox'[p].promoted = log + 1
         /\ \A q \in Prompt \ {p} : inbox'[q] = inbox[q]
         /\ \A q \in Prompt : /\ inbox'[q].seq = inbox[q].seq
                              /\ inbox'[q].delivery = inbox[q].delivery
BY DEF Promote, PromoteResult, LaneTypeOK, Inbox, Entry

LEMMA MoveInbox ==
  ASSUME LaneTypeOK, Numbers, Move
  PROVE  /\ inbox' \in Inbox /\ log' \in Nat /\ log' >= log
         /\ \A p \in Prompt : inbox'[p].seq \in 0..log' /\ inbox'[p].promoted \in 0..log'
         /\ \A p \in Prompt : IsAdmitted(inbox, p) => IsAdmitted(inbox', p)
<1>1. CASE UNCHANGED <<inbox, log>>
  BY <1>1 DEF LaneTypeOK, Numbers
<1>2. CASE \E p \in Prompt : Promote(p)
  BY <1>2, PromoteInbox DEF LaneTypeOK, Numbers, IsAdmitted
<1>3. UNCHANGED <<inbox, log>> \/ \E p \in Prompt : Promote(p)
  BY DEF Move, FindSteer, FindQueue, TakeQueued, TakeSteer, SteersTaken, TurnContinues,
         TurnEnds, NoMoreSteers, MoreSteers, FindLeft, ReadOnly
<1>4. QED  BY <1>1, <1>2, <1>3

LEMMA MoveType ==
  ASSUME LaneTypeOK, Numbers, Move
  PROVE  LaneTypeOK' /\ Numbers'
<1>1. drain' \in Drain /\ drain.pc # "none" /\ drain'.pc # "none"
  <2>1. drain \in Drain /\ log \in Nat /\ 0 \in 0..(MaxSteps - 1)
    BY LaneAssumption DEF LaneTypeOK
  <2>2. ~LimitReached => drain.step + 1 \in 0..(MaxSteps - 1)
    BY <2>1, LaneAssumption DEF LimitReached, Drain
  <2>3. CASE FindSteer \/ FindQueue
    BY <2>1, <2>3 DEF FindSteer, FindQueue, GoTo, At, Drain
  <2>4. CASE TakeQueued \/ TakeSteer \/ SteersTaken
    BY <2>1, <2>4 DEF TakeQueued, TakeSteer, SteersTaken, GoTo, At, Drain
  <2>5. CASE TurnContinues \/ MoreSteers
    BY <2>1, <2>2, <2>5 DEF TurnContinues, MoreSteers, NextTurn, At, Drain
  <2>6. CASE TurnEnds \/ NoMoreSteers \/ FindLeft
    BY <2>1, <2>6 DEF TurnEnds, NoMoreSteers, FindLeft, GoTo, At, Drain
  <2>7. QED  BY <2>3, <2>4, <2>5, <2>6 DEF Move
<1>2. /\ inbox' \in Inbox /\ log' \in Nat /\ log' >= log
      /\ \A p \in Prompt : inbox'[p].seq \in 0..log' /\ inbox'[p].promoted \in 0..log'
      /\ \A p \in Prompt : IsAdmitted(inbox, p) => IsAdmitted(inbox', p)
  BY MoveInbox
<1>3. DrainStep
  BY DEF Move, FindSteer, FindQueue, TakeQueued, TakeSteer, SteersTaken, TurnContinues,
         TurnEnds, NoMoreSteers, MoreSteers, FindLeft, ReadOnly
<1>4. asked \subseteq Prompt
  BY DEF LaneTypeOK
<1>5. QED
  BY <1>1, <1>2, <1>3, <1>4 DEF DrainStep, history, LaneTypeOK, Numbers, IsActive

LEMMA TypeStep ==
  ASSUME LaneTypeOK, Numbers, [Next]_vars
  PROVE  LaneTypeOK' /\ Numbers'
<1>1. CASE Client
  BY <1>1, ClientType
<1>2. CASE LaneNext
  BY <1>2, LaneType
<1>3. CASE DrainNext
  BY <1>3, DrainSteps, MoveType, SettleType DEF Exit
<1>4. CASE UNCHANGED vars
  BY <1>4 DEF vars, LaneTypeOK, Numbers, IsActive
<1>5. QED  BY <1>1, <1>2, <1>3, <1>4 DEF Next

-------------------------------------------------------------------------------
(* The order in which prompts are taken *)

LEMMA FirstIsTaken ==
  ASSUME LaneTypeOK, Numbers, TakenInOrder,
         NEW p \in Prompt, NEW d \in Delivery, NEW cutoff \in Nat,
         IsFirst(inbox, p, d, cutoff), Promote(p)
  PROVE  TakenInOrder'
<1> SUFFICES ASSUME NEW a \in Prompt, NEW b \in Prompt,
                    inbox'[a].delivery = inbox'[b].delivery,
                    inbox'[b].promoted > 0, IsAdmitted(inbox', a),
                    inbox'[a].seq < inbox'[b].seq
             PROVE  inbox'[a].promoted \in 1..(inbox'[b].promoted - 1)
  BY DEF TakenInOrder
<1>1. /\ inbox'[p].promoted = log + 1 /\ log \in Nat
      /\ \A q \in Prompt \ {p} : inbox'[q] = inbox[q]
      /\ \A q \in Prompt : /\ inbox'[q].seq = inbox[q].seq
                           /\ inbox'[q].delivery = inbox[q].delivery
  BY PromoteInbox DEF LaneTypeOK
<1>2. /\ inbox[a].promoted \in 0..log /\ inbox[b].promoted \in 0..log
      /\ inbox[a].seq \in Nat /\ inbox[b].seq \in Nat /\ IsAdmitted(inbox, a)
  BY <1>1 DEF Numbers, IsAdmitted, LaneTypeOK
<1>3. /\ IsPending(inbox, p) /\ inbox[p].delivery = d
      /\ \A q \in Prompt : IsPending(inbox, q) /\ inbox[q].delivery = d
                             => inbox[p].seq <= inbox[q].seq
  BY DEF IsFirst, PendingOf
<1>4. CASE b = p
  <2>1. a # p /\ inbox[a].delivery = d
    BY <1>1, <1>2, <1>3, <1>4
  <2>2. ~IsPending(inbox, a)
    BY <1>1, <1>2, <1>3, <1>4, <2>1
  <2>3. inbox[a].promoted # 0
    BY <1>2, <2>2 DEF IsPending
  <2>4. QED  BY <1>1, <1>2, <1>4, <2>1, <2>3
<1>5. CASE b # p
  <2>1. inbox[a].promoted \in 1..(inbox[b].promoted - 1)
    BY <1>1, <1>2, <1>5 DEF TakenInOrder
  <2>2. a # p
    BY <1>2, <1>3, <2>1 DEF IsPending
  <2>3. QED  BY <1>1, <1>5, <2>1, <2>2
<1>6. QED  BY <1>4, <1>5

LEMMA AdmittedLast ==
  ASSUME LaneTypeOK, Numbers, TakenInOrder,
         NEW p \in Prompt, NEW d \in Delivery, NEW resume \in BOOLEAN,
         SendPrompt(p, d, resume)
  PROVE  TakenInOrder'
<1>1. /\ inbox' = [inbox EXCEPT ![p] = [seq |-> log + 1, delivery |-> d, promoted |-> 0]]
      /\ log \in Nat
  BY DEF SendPrompt, AdmitResult, LaneTypeOK
<1>2. /\ inbox'[p].seq = log + 1 /\ inbox'[p].promoted = 0
      /\ \A q \in Prompt \ {p} : inbox'[q] = inbox[q]
  BY <1>1 DEF LaneTypeOK, Inbox
<1>3. \A q \in Prompt : inbox[q].seq \in 0..log
  BY DEF Numbers
<1>4. QED
  BY <1>1, <1>2, <1>3 DEF TakenInOrder, IsAdmitted

LEMMA OrderStep ==
  ASSUME LaneTypeOK, Numbers, TakenInOrder, [Next]_vars
  PROVE  TakenInOrder'
<1>1. CASE UNCHANGED inbox
  BY <1>1 DEF TakenInOrder
<1>2. CASE TakeQueued
  BY <1>2, FirstIsTaken DEF TakeQueued, LaneTypeOK, Delivery
<1>3. CASE TakeSteer
  BY <1>3, FirstIsTaken DEF TakeSteer, LaneTypeOK, Drain, Delivery
<1>4. CASE Client
  <2>1. ASSUME NEW p \in Prompt, ResendPrompt(p)
        PROVE  TakenInOrder'
    <3>1. UNCHANGED inbox
      BY <2>1 DEF ResendPrompt, AdmitResult
    <3>2. QED  BY <1>1, <3>1
  <2>2. CASE RequestInterrupt
    BY <1>1, <2>2 DEF RequestInterrupt
  <2>3. QED  BY <1>4, <2>1, <2>2, AdmittedLast DEF Client
<1>5. CASE LaneNext
  BY <1>1, <1>5 DEF LaneNext, Deliver, Wake, Interrupt, Run
<1>6. CASE DrainNext /\ ~TakeQueued /\ ~TakeSteer
  <2>1. \A exit \in Exit : Settle(exit) => UNCHANGED inbox
    BY DEF Settle
  <2>2. Move => UNCHANGED inbox
    BY <1>6 DEF Move, FindSteer, FindQueue, SteersTaken, TurnContinues, TurnEnds,
                NoMoreSteers, MoreSteers, FindLeft, ReadOnly
  <2>3. QED  BY <1>1, <1>6, <2>1, <2>2, DrainSteps DEF Exit
<1>7. CASE UNCHANGED vars
  BY <1>1, <1>7 DEF vars
<1>8. QED  BY <1>2, <1>3, <1>4, <1>5, <1>6, <1>7 DEF Next

-------------------------------------------------------------------------------
(* Callers *)

LEMMA ForcedStep ==
  ASSUME LaneTypeOK, WaitersWereForced, SuccessWasForced, [Next]_vars
  PROVE  WaitersWereForced' /\ SuccessWasForced'
<1>0. lane \in Lane /\ lane \in Lane /\ forced \in [Caller -> BOOLEAN]
  BY DEF LaneTypeOK
<1>1. ASSUME UNCHANGED <<caller, forced>>, lane'.current = "run" => lane.current = "run"
      PROVE  WaitersWereForced' /\ SuccessWasForced'
  BY <1>1 DEF WaitersWereForced, SuccessWasForced
<1>2. CASE Client
  BY <1>1, <1>2 DEF Client, SendPrompt, ResendPrompt, RequestInterrupt, history
<1>3. ASSUME NEW n \in wakes, Wake(n)
      PROVE  WaitersWereForced' /\ SuccessWasForced'
  <2>1. n \in Nat
    BY <1>3 DEF LaneTypeOK
  <2>2. lane'.current = "run" => lane.current = "run"
    BY <1>0, <1>3, <2>1, CoalesceIsLane DEF Wake, WakeResult, MakeEntry, Demand
  <2>3. QED  BY <1>1, <1>3, <2>2 DEF Wake, history
<1>4. ASSUME NEW n \in interrupts, Interrupt(n)
      PROVE  WaitersWereForced' /\ SuccessWasForced'
  <2>1. n \in Nat
    BY <1>4 DEF LaneTypeOK
  <2>2. lane'.current = lane.current
    BY <1>0, <1>4, <2>1, InterruptIsLane DEF Interrupt
  <2>3. QED  BY <1>1, <1>4, <2>2 DEF Interrupt
<1>5. ASSUME NEW c \in Caller, Run(c)
      PROVE  WaitersWereForced' /\ SuccessWasForced'
  <2>1. /\ caller' = [caller EXCEPT ![c] = RunWaitsFor(lane)]
        /\ forced' = [b \in Caller |-> forced[b] \/ (caller'[b] \in Waiting /\ lane'.current = "run")]
    BY <1>5 DEF Run, MarkForced
  <2>2. RunWaitsFor(lane) \in Waiting
    BY DEF RunWaitsFor, Waiting
  <2>3. RunWaitsFor(lane) = "done" => lane'.current = "run"
    BY <1>0, <1>5, RunIsLane DEF Run, RunWaitsFor, MakeEntry, IsActive, Lane, Demand
  <2>4. lane.current = "run" => lane'.current = "run"
    BY <1>0, <1>5, RunIsLane DEF Run, IsActive
  <2>5. \A b \in Caller : caller'[b] = IF b = c THEN RunWaitsFor(lane) ELSE caller[b]
    BY <2>1 DEF LaneTypeOK
  <2>6. WaitersWereForced'
    BY <2>1, <2>2, <2>3, <2>5 DEF WaitersWereForced
  <2>7. SuccessWasForced'
    BY <2>1, <2>2, <2>5 DEF SuccessWasForced, Waiting
  <2>8. QED  BY <2>6, <2>7
<1>6. ASSUME NEW exit \in Exit, Settle(exit), exit = "success" => ~lane.stopping
      PROVE  WaitersWereForced' /\ SuccessWasForced'
  <2>1. /\ \A c \in Caller : caller'[c] = AnswerTo(c, exit)
        /\ forced' = [c \in Caller |-> forced[c] \/ (caller'[c] \in Waiting /\ lane'.current = "run")]
    BY <1>6 DEF Settle, MarkForced
  <2>2. WaitersWereForced'
    BY <2>1 DEF WaitersWereForced, AnswerTo, Exit, Waiting
  <2>3. ASSUME NEW c \in Caller, caller'[c] = "success"
        PROVE  forced[c]
    <3>1. AnswerTo(c, exit) = "success"
      BY <2>1, <2>3
    <3>2. CASE caller[c] = "success"
      BY <3>2 DEF SuccessWasForced
    <3>3. CASE caller[c] # "success"
      <4>1. exit = "success" /\ (caller[c] = "done" \/ (caller[c] = "explicit" /\ AnswersWaiter(lane)))
        BY <3>1, <3>3 DEF AnswerTo
      <4>2. caller[c] = "explicit" => lane.current = "run"
        BY <1>6, <4>1 DEF AnswersWaiter
      <4>3. QED  BY <4>1, <4>2 DEF WaitersWereForced, Waiting
    <3>4. QED  BY <3>2, <3>3
  <2>4. SuccessWasForced'
    BY <2>1, <2>3 DEF SuccessWasForced
  <2>5. QED  BY <2>2, <2>4
<1>7. CASE DrainNext
  <2>1. CASE Move
    <3>1. DrainStep
      BY <2>1 DEF Move, FindSteer, FindQueue, TakeQueued, TakeSteer, SteersTaken,
                  TurnContinues, TurnEnds, NoMoreSteers, MoreSteers, FindLeft, ReadOnly
    <3>2. QED  BY <1>1, <3>1 DEF DrainStep, history
  <2>2. QED  BY <1>6, <1>7, <2>1, DrainSteps DEF At, Exit
<1>8. CASE UNCHANGED vars
  BY <1>1, <1>8 DEF vars
<1>9. QED  BY <1>2, <1>3, <1>4, <1>5, <1>7, <1>8 DEF Next, LaneNext, Deliver

\* No transition but the end of a drain takes the explicit waiter from an entry.
LEMMA WaiterStays ==
  ASSUME NEW l \in Lane, NEW n \in Nat
  PROVE  /\ IsActive(l) => WakeResult(l, n).waiter = l.waiter
         /\ InterruptResult(l, n).waiter = l.waiter
         /\ l.waiter => RunResult(l).waiter \/ ~IsActive(l)
         /\ RunWaitsFor(l) = "explicit" => RunResult(l).waiter
<1>1. ASSUME NEW k \in Lane, NEW d \in Demand, NEW m \in Nat
      PROVE  Coalesce(k, d, m) \in Lane /\ Coalesce(k, d, m).waiter = k.waiter
  BY CoalesceIsLane DEF Coalesce, Lane
<1>2. IsActive(l) => WakeResult(l, n).waiter = l.waiter
  BY <1>1 DEF WakeResult, Demand
<1>3. InterruptResult(l, n).waiter = l.waiter
  BY DEF InterruptResult, SuppressPendingAtOrBefore, Lane
<1>4. ASSUME IsActive(l), ~(l.stopping \/ l.current = "run")
      PROVE  RunResult(l).waiter
  <2>1. PICK k \in Lane : k = Coalesce(l, "run", 0)
    BY <1>1 DEF Demand
  <2>2. RunResult(l) = [k EXCEPT !.waiter = TRUE]
    BY <1>4, <2>1 DEF RunResult
  <2>3. QED  BY <2>2 DEF Lane
<1>5. l.waiter => RunResult(l).waiter \/ ~IsActive(l)
  <2>1. CASE IsActive(l) /\ (l.stopping \/ l.current = "run")
    BY <2>1 DEF RunResult
  <2>2. QED  BY <1>4, <2>1
<1>6. RunWaitsFor(l) = "explicit" => RunResult(l).waiter
  <2>1. RunWaitsFor(l) = "explicit" => IsActive(l) /\ ~(l.stopping \/ l.current = "run")
    BY DEF RunWaitsFor
  <2>2. QED  BY <1>4, <2>1
<1>7. QED  BY <1>2, <1>3, <1>5, <1>6

LEMMA ServedStep ==
  ASSUME LaneTypeOK, WaitersAreServed, [Next]_vars
  PROVE  WaitersAreServed'
<1>0. lane \in Lane
  BY DEF LaneTypeOK
<1>1. ASSUME UNCHANGED caller, IsActive(lane) => IsActive(lane'),
             lane.stopping => lane'.stopping, lane.waiter => lane'.waiter,
             lane.current = "run" => lane'.current = "run",
             lane.pending = "run" => lane'.pending = "run" \/ lane'.stopping
      PROVE  WaitersAreServed'
  BY <1>1 DEF WaitersAreServed
<1>2. CASE UNCHANGED <<lane, caller>>
  BY <1>2 DEF WaitersAreServed
<1>3. ASSUME NEW n \in wakes, Wake(n)
      PROVE  WaitersAreServed'
  <2>1. n \in Nat /\ lane' = WakeResult(lane, n) /\ UNCHANGED caller
    BY <1>3 DEF LaneTypeOK, Wake, history
  <2>2. CASE ~IsActive(lane)
    BY <2>1, <2>2 DEF WaitersAreServed, Waiting
  <2>3. CASE IsActive(lane)
    <3>1. lane' \in {lane, Coalesce(lane, "wake", n)} /\ lane'.waiter = lane.waiter
      BY <1>0, <2>1, <2>3, WaiterStays DEF WakeResult
    <3>2. CASE lane' = Coalesce(lane, "wake", n)
      <4>1. /\ lane'.current = lane.current /\ lane'.stopping = lane.stopping
            /\ lane.pending = "run" => lane'.pending = "run"
        BY <1>0, <2>1, <3>2, CoalesceIsLane DEF Demand
      <4>2. QED  BY <1>1, <2>1, <3>1, <4>1 DEF IsActive
    <3>3. QED  BY <1>2, <2>1, <3>1, <3>2
  <2>4. QED  BY <2>2, <2>3
<1>4. ASSUME NEW n \in interrupts, Interrupt(n)
      PROVE  WaitersAreServed'
  <2>1. n \in Nat /\ lane' = InterruptResult(lane, n) /\ UNCHANGED caller
    BY <1>4 DEF LaneTypeOK, Interrupt
  <2>2. lane'.waiter = lane.waiter
    BY <1>0, <2>1, WaiterStays
  <2>3. /\ lane'.current = lane.current
        /\ \/ lane'.stopping
           \/ lane'.stopping = lane.stopping /\ lane'.pending = lane.pending
    BY <1>0, <2>1, InterruptIsLane
  <2>4. QED  BY <1>1, <2>1, <2>2, <2>3 DEF IsActive
<1>5. ASSUME NEW c \in Caller, Run(c)
      PROVE  WaitersAreServed'
  <2>1. /\ lane' = RunResult(lane)
        /\ \A b \in Caller : caller'[b] = IF b = c THEN RunWaitsFor(lane) ELSE caller[b]
    BY <1>5 DEF Run, LaneTypeOK
  <2>2. IsActive(lane')
    BY <1>0, <2>1, RunIsLane
  <2>3. /\ RunWaitsFor(lane) = "settled" => lane'.stopping
        /\ RunWaitsFor(lane) = "explicit" => lane'.waiter /\ lane'.pending = "run"
    <3>1. RunWaitsFor(lane) = "explicit" => lane'.waiter
      BY <1>0, <2>1, WaiterStays, 0 \in Nat
    <3>2. RunWaitsFor(lane) = "settled" => lane'.stopping
      BY <1>0, <2>1, RunIsLane DEF RunWaitsFor
    <3>3. RunWaitsFor(lane) = "explicit" => lane'.pending = "run"
      <4>1. Coalesce(lane, "run", 0) \in Lane /\ Coalesce(lane, "run", 0).pending = "run"
        BY <1>0, CoalesceIsLane DEF Demand
      <4>2. QED  BY <2>1, <4>1 DEF RunWaitsFor, RunResult, Lane
    <3>4. QED  BY <3>1, <3>2, <3>3
  <2>4. IsActive(lane) =>
          /\ lane.stopping => lane'.stopping
          /\ lane.waiter => lane'.waiter
          /\ "run" \in {lane.current, lane.pending} => "run" \in {lane'.current, lane'.pending}
    <3>1. IsActive(lane) /\ lane.waiter => lane'.waiter
      BY <1>0, <2>1, WaiterStays, 0 \in Nat
    <3>2. QED  BY <1>0, <2>1, <3>1, RunIsLane
  <2>5. ASSUME NEW b \in Caller
        PROVE  /\ caller'[b] = "settled" => lane'.stopping
               /\ caller'[b] = "explicit" =>
                    /\ lane'.waiter
                    /\ lane'.stopping \/ "run" \in {lane'.current, lane'.pending}
    <3>1. CASE b = c
      BY <2>1, <2>3, <3>1
    <3>2. CASE b # c
      BY <2>1, <2>4, <3>2 DEF WaitersAreServed, Waiting
    <3>3. QED  BY <3>1, <3>2
  <2>6. QED  BY <2>2, <2>5 DEF WaitersAreServed
<1>6. ASSUME NEW exit \in Exit, Settle(exit)
      PROVE  WaitersAreServed'
  <2>1. lane' = SettleResult(lane, exit) /\ \A c \in Caller : caller'[c] = AnswerTo(c, exit)
    BY <1>6 DEF Settle
  <2>2. exit \notin Waiting /\ "again" \notin Waiting
    BY DEF Exit, Waiting
  <2>3. ASSUME NEW c \in Caller, caller'[c] \in Waiting
        PROVE  /\ caller'[c] = caller[c]
               /\ caller[c] \in {"done", "settled"} => GoesOn(lane, exit)
               /\ caller[c] = "explicit" => ~AnswersWaiter(lane)
    BY <2>1, <2>2, <2>3 DEF AnswerTo
  <2>4. ASSUME NEW c \in Caller, caller'[c] \in Waiting
        PROVE  /\ IsActive(lane') /\ caller'[c] # "settled"
               /\ caller'[c] = "explicit" => lane'.waiter /\ lane'.current = "run"
    <3>1. CASE caller[c] = "explicit"
      <4>1. lane.waiter /\ ~AnswersWaiter(lane) /\ lane.pending = "run"
        BY <2>3, <2>4, <3>1 DEF WaitersAreServed, AnswersWaiter
      <4>2. lane'.waiter /\ lane'.current = "run"
        BY <1>0, <2>1, <4>1 DEF SettleResult, MakeEntry, Lane
      <4>3. QED  BY <2>3, <2>4, <3>1, <4>2 DEF IsActive
    <3>2. CASE caller[c] # "explicit"
      <4>1. caller[c] \in {"done", "settled"} /\ GoesOn(lane, exit)
        BY <2>3, <2>4, <3>2 DEF Waiting
      <4>2. IsActive(lane')
        BY <1>0, <2>1, <4>1 DEF SettleResult, GoesOn, IsActive, Lane
      <4>3. caller[c] # "settled"
        BY <4>1 DEF GoesOn, WaitersAreServed
      <4>4. QED  BY <2>3, <2>4, <3>2, <4>2, <4>3
    <3>3. QED  BY <3>1, <3>2
  <2>5. QED  BY <2>4 DEF WaitersAreServed, Waiting
<1>7. CASE Client
  BY <1>2, <1>7 DEF Client, SendPrompt, ResendPrompt, RequestInterrupt
<1>8. CASE DrainNext
  <2>1. CASE Move
    BY <1>2, <2>1 DEF Move, FindSteer, FindQueue, TakeQueued, TakeSteer, SteersTaken,
                TurnContinues, TurnEnds, NoMoreSteers, MoreSteers, FindLeft, ReadOnly, DrainStep
  <2>2. QED  BY <1>6, <1>8, <2>1, DrainSteps DEF Exit
<1>9. CASE UNCHANGED vars
  BY <1>2, <1>9 DEF vars
<1>10. QED  BY <1>3, <1>4, <1>5, <1>7, <1>8, <1>9 DEF Next, LaneNext, Deliver

-------------------------------------------------------------------------------
(* Prompts that are owed a drain *)

LEMMA PendingFacts ==
  ASSUME LaneTypeOK, NEW p \in Prompt
  PROVE  /\ inbox[p].seq \in Nat /\ inbox[p].delivery \in Delivery
         /\ (IsPending(inbox, p) /\ inbox[p].delivery = "steer" => HasPending(inbox, "steer"))
         /\ (IsPending(inbox, p) /\ inbox[p].delivery = "queue" => HasPending(inbox, "queue"))
BY DEF LaneTypeOK, Inbox, Entry, HasPending, PendingOf

\* A client owes nothing new: the wake of the prompt is on its way.
LEMMA ClientOwes ==
  ASSUME LaneTypeOK, Numbers, OwedArePlaced, Client
  PROVE  OwedArePlaced'
<1> SUFFICES ASSUME NEW q \in Prompt, Owed(q)' PROVE Placed(q)'
  BY DEF OwedArePlaced
<1>1. ASSUME inbox'[q] = inbox[q], q \in asked, inbox[q].seq \notin wakes,
             UNCHANGED <<lane, drain, failed, stopped>>
      PROVE  Placed(q)'
  <2>1. Owed(q)
    BY <1>1 DEF Owed, Forgotten, IsPending, IsAdmitted
  <2>2. Placed(q)
    BY <2>1 DEF OwedArePlaced
  <2>3. QED  BY <1>1, <2>2 DEF Placed, Carried, WillSee, Protected
<1>2. ASSUME NEW p \in Prompt, NEW d \in Delivery, NEW resume \in BOOLEAN,
             SendPrompt(p, d, resume)
      PROVE  Placed(q)'
  <2>1. inbox' = [inbox EXCEPT ![p] = [seq |-> log + 1, delivery |-> d, promoted |-> 0]]
    BY <1>2 DEF SendPrompt, AdmitResult
  <2>2. q # p
    <3>1. p \notin asked
      BY <1>2 DEF SendPrompt, Numbers
    <3>2. resume => inbox'[p].seq \in wakes'
      BY <1>2 DEF SendPrompt, EnqueueWake
    <3>3. q \in asked' /\ inbox'[q].seq \notin wakes'
      BY DEF Owed, Forgotten
    <3>4. resume \/ asked' = asked
      BY <1>2 DEF SendPrompt
    <3>5. QED  BY <3>1, <3>2, <3>3, <3>4
  <2>3. inbox'[q] = inbox[q]
    BY <2>1, <2>2 DEF LaneTypeOK, Inbox
  <2>4. q \in asked /\ inbox[q].seq \notin wakes
    BY <1>2, <2>2, <2>3 DEF Owed, Forgotten, SendPrompt, EnqueueWake
  <2>5. QED  BY <1>1, <1>2, <2>3, <2>4 DEF SendPrompt
<1>3. ASSUME NEW p \in Prompt, ResendPrompt(p)
      PROVE  Placed(q)'
  <2>1. inbox' = inbox /\ wakes' = wakes \cup {inbox[p].seq} /\ asked' = asked \cup {p}
    BY <1>3 DEF ResendPrompt, EnqueueWake, AdmitResult
  <2>2. q \in asked /\ inbox[q].seq \notin wakes
    BY <2>1 DEF Owed, Forgotten
  <2>3. QED  BY <1>1, <1>3, <2>1, <2>2 DEF ResendPrompt
<1>4. CASE RequestInterrupt
  BY <1>1, <1>4 DEF RequestInterrupt, history, Owed, Forgotten
<1>5. QED  BY <1>2, <1>3, <1>4 DEF Client

\* A new entry starts a drain that will find every prompt.
LEMMA FreshDrain ==
  ASSUME NEW p \in Prompt, IsActive(lane'), ~lane'.stopping, drain'.pc = "steer?",
         lane'.current = "run" \/ lane'.seq >= inbox'[p].seq
  PROVE  Placed(p)'
BY DEF Placed, WillSee, Protected

\* A prompt keeps its place when the entry and the drain go on as before.
LEMMA SamePlace ==
  ASSUME LaneTypeOK, OwedArePlaced, NEW p \in Prompt, Owed(p), UNCHANGED <<inbox, drain>>,
         lane'.current = lane.current, lane'.seq = lane.seq, lane'.stopping = lane.stopping,
         Carried(p) => Carried(p)'
  PROVE  Placed(p)'
BY DEF OwedArePlaced, Placed, WillSee, Protected, IsActive

LEMMA WakeOwes ==
  ASSUME LaneTypeOK, Numbers, OwedArePlaced, NEW n \in wakes, Wake(n)
  PROVE  OwedArePlaced'
<1> SUFFICES ASSUME NEW q \in Prompt, Owed(q)' PROVE Placed(q)'
  BY DEF OwedArePlaced
<1>0. /\ lane \in Lane /\ n \in Nat /\ inbox[q].seq \in Nat
      /\ lane.boundary \in Nat /\ lane.latest \in Nat /\ lane.boundary <= lane.latest
      /\ lane.pendingSeq \in Nat
  BY PendingFacts DEF LaneTypeOK, Lane, Numbers
<1>1. /\ lane' = WakeResult(lane, n) /\ drain' = Started(lane') /\ inbox' = inbox
      /\ UNCHANGED <<asked, failed, stopped>>
  BY DEF Wake, history
<1>2. inbox[q].seq = n \/ inbox[q].seq \notin wakes
  BY <1>1 DEF Owed, Forgotten, Wake
<1>3. CASE lane' = lane
  <2>1. inbox[q].seq > lane.latest
    BY <1>1, <1>3 DEF Owed, Forgotten
  <2>2. CASE inbox[q].seq = n
    <3>1. IsAfterInterrupt(lane, n)
      BY <2>1, <2>2 DEF IsAfterInterrupt
    <3>2. IsActive(lane)
      BY <1>1, <1>3, <3>1 DEF WakeResult, MakeEntry, IsActive
    <3>3. AcceptsWake(lane, n)
      BY <1>0, <2>1, <2>2 DEF AcceptsWake
    <3>4. lane' = Coalesce(lane, "wake", n)
      BY <1>1, <3>1, <3>2, <3>3 DEF WakeResult
    <3>5. \/ lane'.pending = "run"
          \/ lane'.pending = "wake" /\ lane'.pendingSeq >= n
      <4>1. "wake" \in Demand
        BY DEF Demand
      <4>2. QED  BY <1>0, <3>4, <4>1, CoalesceIsLane
    <3>6. QED  BY <1>1, <1>3, <2>2, <3>2, <3>5 DEF Placed, Carried, IsActive
  <2>3. CASE inbox[q].seq \notin wakes
    <3>1. Owed(q) /\ UNCHANGED drain
      BY <1>1, <1>3, <2>3 DEF Owed, Forgotten, Started
    <3>2. QED  BY <1>1, <1>3, <3>1, SamePlace DEF Carried
  <2>4. QED  BY <1>2, <2>2, <2>3
<1>4. CASE ~IsActive(lane) /\ lane' = MakeEntry(lane, "wake", n, FALSE)
  <2>1. /\ IsActive(lane') /\ lane'.seq = n /\ ~lane'.stopping /\ drain'.pc = "steer?"
    BY <1>1, <1>4 DEF MakeEntry, IsActive, Started, NewDrain, NoDrain
  <2>2. inbox[q].seq = n
    <3>1. ASSUME inbox[q].seq \notin wakes  PROVE FALSE
      <4>1. Owed(q)
        BY <1>1, <1>4, <3>1 DEF Owed, Forgotten, MakeEntry
      <4>2. QED  BY <1>4, <4>1 DEF OwedArePlaced, Placed
    <3>2. QED  BY <1>2, <3>1
  <2>3. QED  BY <1>0, <1>1, <2>1, <2>2, FreshDrain
<1>5. CASE IsActive(lane) /\ lane' = Coalesce(lane, "wake", n)
  <2>1. /\ lane'.current = lane.current /\ lane'.seq = lane.seq
        /\ lane'.stopping = lane.stopping /\ lane'.latest = lane.latest
        /\ \/ lane'.pending = "run"
           \/ /\ lane'.pending = "wake" /\ lane.pending # "run"
              /\ lane'.pendingSeq >= n /\ lane'.pendingSeq >= lane.pendingSeq
              /\ lane'.pendingSeq \in Nat
    <3>1. "wake" \in Demand
      BY DEF Demand
    <3>2. lane' \in Lane => lane'.pendingSeq \in Nat
      BY DEF Lane
    <3>3. lane.pending = "run" => lane'.pending = "run"
      BY <1>0, <1>5, <3>1, CoalesceIsLane
    <3>4. /\ lane'.current = lane.current /\ lane'.seq = lane.seq
          /\ lane'.stopping = lane.stopping /\ lane'.latest = lane.latest
          /\ lane' \in Lane
      <4>1. lane \in Lane /\ n \in Nat /\ lane' = Coalesce(lane, "wake", n)
        BY <1>0, <1>5
      <4>2. QED  BY <3>1, <4>1, CoalesceIsLane, Zenon
    <3>5. \/ lane'.pending = "run"
          \/ /\ lane'.pending = "wake"
             /\ lane'.pendingSeq >= n /\ lane'.pendingSeq >= lane.pendingSeq
      BY <1>0, <1>5, <3>1, CoalesceIsLane
    <3>6. QED  BY <3>2, <3>3, <3>4, <3>5
  <2>2. IsActive(lane')
    BY <1>5, <2>1 DEF IsActive
  <2>3. CASE inbox[q].seq = n
    BY <1>0, <1>1, <2>1, <2>2, <2>3 DEF Placed, Carried
  <2>4. CASE inbox[q].seq \notin wakes
    <3>1. Owed(q) /\ UNCHANGED drain
      BY <1>1, <1>5, <2>1, <2>4 DEF Owed, Forgotten, Started
    <3>2. Carried(q) => Carried(q)'
      BY <1>0, <1>1, <2>1 DEF Carried
    <3>3. QED  BY <1>1, <2>1, <3>1, <3>2, SamePlace
  <2>5. QED  BY <1>2, <2>3, <2>4
<1>6. QED  BY <1>1, <1>3, <1>4, <1>5 DEF WakeResult

LEMMA InterruptOwes ==
  ASSUME LaneTypeOK, Numbers, OwedArePlaced, NEW n \in interrupts, Interrupt(n)
  PROVE  OwedArePlaced'
<1> SUFFICES ASSUME NEW q \in Prompt, Owed(q)' PROVE Placed(q)'
  BY DEF OwedArePlaced
<1>0. /\ lane \in Lane /\ n \in Nat /\ inbox[q].seq \in 0..log /\ log \in Nat
      /\ lane.latest \in Nat /\ lane.pendingSeq \in Nat /\ lane.seq \in Nat
      /\ stopped \in 0..log
  BY DEF LaneTypeOK, Lane, Numbers
<1>1. /\ lane' = InterruptResult(lane, n) /\ UNCHANGED <<inbox, drain, wakes, asked, failed>>
      /\ stopped' = IF lane'.stopping /\ ~lane.stopping /\ "run" \in {lane.current, lane.pending}
                    THEN log ELSE stopped
  BY DEF Interrupt
<1>2. /\ lane'.current = lane.current /\ lane'.seq = lane.seq
      /\ \/ lane' = lane
         \/ /\ lane'.latest = n /\ n > lane.latest
            /\ lane'.pending = lane.pending /\ lane'.pendingSeq = lane.pendingSeq
            /\ lane'.stopping = lane.stopping
         \/ /\ lane'.latest = n /\ n > lane.latest /\ lane'.stopping
            /\ lane.pending = "wake" /\ lane.pendingSeq > n =>
                 lane'.pending = "wake" /\ lane'.pendingSeq = lane.pendingSeq
            /\ ~Outruns(lane, n)
  <2>1. /\ lane'.current = lane.current /\ lane'.seq = lane.seq
        /\ \/ lane' = lane /\ n <= lane.latest
           \/ /\ n > lane.latest /\ lane'.latest = n
              /\ ~IsActive(lane) \/ Outruns(lane, n)
              /\ lane'.pending = lane.pending /\ lane'.pendingSeq = lane.pendingSeq
              /\ lane'.stopping = lane.stopping /\ lane'.boundary = lane.boundary
           \/ /\ n > lane.latest /\ lane'.latest = n
              /\ lane'.stopping /\ lane'.boundary >= n
              /\ lane'.boundary = n \/ lane'.boundary = lane.boundary
              /\ lane'.pending \in {"wake", "none"}
              /\ lane.pending = "wake" /\ lane.pendingSeq > n =>
                   lane'.pending = "wake" /\ lane'.pendingSeq = lane.pendingSeq
              /\ ~Outruns(lane, n)
    <3>1. lane \in Lane /\ n \in Nat /\ lane' = InterruptResult(lane, n)
      BY <1>0, <1>1
    <3>2. QED  BY <3>1, InterruptIsLane
  <2>2. QED  BY <2>1
<1>3. inbox[q].seq > lane'.latest /\ inbox[q].seq > stopped'
  BY <1>1 DEF Owed, Forgotten
<1>4. ~(lane'.stopping /\ ~lane.stopping /\ "run" \in {lane.current, lane.pending})
  BY <1>0, <1>1, <1>3
<1>5. Owed(q)
  BY <1>0, <1>1, <1>2, <1>3 DEF Owed, Forgotten
<1>6. Placed(q)
  BY <1>5 DEF OwedArePlaced
<1>7. CASE \/ lane' = lane
           \/ /\ lane'.pending = lane.pending /\ lane'.pendingSeq = lane.pendingSeq
              /\ lane'.stopping = lane.stopping
  BY <1>1, <1>2, <1>5, <1>7, SamePlace DEF Carried
<1>8. CASE /\ lane'.latest = n /\ n > lane.latest /\ lane'.stopping
           /\ lane.pending = "wake" /\ lane.pendingSeq > n =>
                lane'.pending = "wake" /\ lane'.pendingSeq = lane.pendingSeq
           /\ ~Outruns(lane, n)
  <2>1. lane.pending # "run"
    BY <1>4, <1>8 DEF Numbers
  <2>2. CASE Carried(q)
    <3>1. lane'.pending = "wake" /\ lane'.pendingSeq = lane.pendingSeq
      BY <1>0, <1>3, <1>8, <2>1, <2>2 DEF Carried
    <3>2. QED  BY <1>1, <1>2, <1>6, <2>1, <2>2, <3>1 DEF Placed, Carried, IsActive
  <2>3. CASE ~Carried(q)
    <3>1. ~lane.stopping /\ Protected(q) /\ IsActive(lane)
      BY <1>6, <2>3 DEF Placed
    <3>2. lane.current = "wake" /\ lane.seq >= inbox[q].seq
      BY <1>0, <1>4, <1>8, <3>1 DEF Protected, IsActive, Lane, Demand
    <3>3. QED  BY <1>0, <1>3, <1>8, <3>2 DEF Outruns
  <2>4. QED  BY <2>2, <2>3
<1>9. QED  BY <1>2, <1>7, <1>8

LEMMA RunOwes ==
  ASSUME LaneTypeOK, OwedArePlaced, NEW c \in Caller, Run(c)
  PROVE  OwedArePlaced'
<1> SUFFICES ASSUME NEW q \in Prompt, Owed(q)' PROVE Placed(q)'
  BY DEF OwedArePlaced
<1>0. lane \in Lane
  BY DEF LaneTypeOK
<1>1. /\ lane' = RunResult(lane) /\ drain' = Started(lane')
      /\ UNCHANGED <<inbox, wakes, asked, failed, stopped>>
  BY DEF Run
<1>2. lane'.latest = lane.latest
  BY <1>0, <1>1, RunIsLane DEF MakeEntry
<1>3. Owed(q)
  BY <1>1, <1>2 DEF Owed, Forgotten
<1>4. IsActive(lane)
  BY <1>3 DEF OwedArePlaced, Placed
<1>5. /\ lane'.current = lane.current /\ lane'.seq = lane.seq
      /\ lane'.stopping = lane.stopping
      /\ lane' = lane \/ lane'.pending = "run"
  BY <1>0, <1>1, <1>4, RunIsLane
<1>6. UNCHANGED drain
  BY <1>1, <1>4 DEF Started
<1>7. Carried(q) => Carried(q)'
  BY <1>1, <1>5 DEF Carried
<1>8. QED  BY <1>1, <1>3, <1>5, <1>6, <1>7, SamePlace

\* The end of a drain leaves owed only what the follow-up carries: a success has
\* made its last check, a failure is written down, and an interrupt stops a lane
\* whose follow-up carries the rest.
LEMMA SettleOwes ==
  ASSUME LaneTypeOK, Numbers, OwedArePlaced, NEW exit \in Exit, Settle(exit),
         \/ At("end") /\ exit = "success"
         \/ ~lane.stopping /\ exit = "failed"
         \/ lane.stopping
  PROVE  OwedArePlaced'
<1> SUFFICES ASSUME NEW q \in Prompt, Owed(q)' PROVE Placed(q)'
  BY DEF OwedArePlaced
<1>0. /\ lane \in Lane /\ inbox[q].seq \in 0..log /\ log \in Nat /\ failed \in 0..log
  BY DEF LaneTypeOK, Numbers
<1>1. /\ lane' = SettleResult(lane, exit) /\ UNCHANGED <<inbox, wakes, asked, stopped>>
      /\ drain' = IF IsActive(lane') THEN NewDrain ELSE NoDrain
      /\ failed' = IF exit = "failed" /\ ~lane.stopping THEN log ELSE failed
  BY DEF Settle
<1>2. /\ lane'.current = lane.pending /\ lane'.seq = lane.pendingSeq
      /\ lane'.stopping = FALSE /\ lane'.latest = lane.latest
  BY <1>0, <1>1 DEF SettleResult, MakeEntry, GoesOn, Lane
<1>3. ~(exit = "failed" /\ ~lane.stopping)
  BY <1>0, <1>1 DEF Owed, Forgotten
<1>4. Owed(q)
  BY <1>1, <1>2, <1>3 DEF Owed, Forgotten
<1>5. Carried(q)
  <2>1. Placed(q)
    BY <1>4 DEF OwedArePlaced
  <2>2. At("end") => ~WillSee(q)
    BY DEF At, WillSee
  <2>3. QED  BY <1>3, <2>1, <2>2 DEF Placed
<1>6. IsActive(lane') /\ drain'.pc = "steer?"
  BY <1>1, <1>2, <1>5 DEF Carried, IsActive, NewDrain, NoDrain
<1>7. QED  BY <1>1, <1>2, <1>5, <1>6, FreshDrain DEF Carried

\* Each check passes over a prompt only when it finds none of its kind.
LEMMA MoveOwes ==
  ASSUME LaneTypeOK, Numbers, OwedArePlaced, Move
  PROVE  OwedArePlaced'
<1> SUFFICES ASSUME NEW q \in Prompt, Owed(q)' PROVE Placed(q)'
  BY DEF OwedArePlaced
<1>1. UNCHANGED <<lane, wakes, asked, failed, stopped>>
  BY DEF Move, FindSteer, FindQueue, TakeQueued, TakeSteer, SteersTaken, TurnContinues,
         TurnEnds, NoMoreSteers, MoreSteers, FindLeft, ReadOnly, DrainStep, history
<1>2. inbox'[q] = inbox[q]
  <2>1. CASE UNCHANGED inbox
    BY <2>1
  <2>2. ASSUME NEW p \in Prompt, Promote(p)
        PROVE  inbox'[q] = inbox[q]
    <3>1. q # p
      BY <2>2, PromoteInbox DEF Owed, Forgotten, IsPending, LaneTypeOK
    <3>2. QED  BY <2>2, <3>1, PromoteInbox
  <2>3. UNCHANGED inbox \/ \E p \in Prompt : Promote(p)
    BY DEF Move, FindSteer, FindQueue, TakeQueued, TakeSteer, SteersTaken, TurnContinues,
           TurnEnds, NoMoreSteers, MoreSteers, FindLeft, ReadOnly
  <2>4. QED  BY <2>1, <2>2, <2>3
<1>3. Owed(q) /\ IsPending(inbox, q)
  BY <1>1, <1>2 DEF Owed, Forgotten, IsPending, IsAdmitted
<1>4. Placed(q)
  BY <1>3 DEF OwedArePlaced
<1>5. WillSee(q) => WillSee(q)'
  <2>1. inbox[q].delivery = "steer" => HasPending(inbox, "steer")
    BY <1>3, PendingFacts
  <2>2. inbox[q].delivery = "queue" => HasPending(inbox, "queue")
    BY <1>3, PendingFacts
  <2>3. inbox[q].delivery \in {"steer", "queue"} /\ drain \in Drain
    BY PendingFacts DEF Delivery, LaneTypeOK
  <2>4. CASE FindSteer
    BY <1>2, <2>1, <2>3, <2>4 DEF FindSteer, GoTo, At, WillSee, Drain
  <2>5. CASE FindQueue
    BY <1>2, <2>2, <2>3, <2>5 DEF FindQueue, GoTo, At, WillSee, Drain
  <2>6. CASE TakeQueued \/ TakeSteer \/ SteersTaken
    BY <1>2, <2>3, <2>6 DEF TakeQueued, TakeSteer, SteersTaken, GoTo, At, WillSee, Drain
  <2>7. CASE TurnContinues \/ TurnEnds \/ MoreSteers
    BY <1>2, <2>3, <2>7 DEF TurnContinues, TurnEnds, MoreSteers, NextTurn, GoTo, At, WillSee, Drain
  <2>8. CASE NoMoreSteers
    BY <1>2, <2>1, <2>3, <2>8 DEF NoMoreSteers, GoTo, At, WillSee, Drain
  <2>9. CASE FindLeft
    BY <1>2, <2>2, <2>3, <2>9 DEF FindLeft, GoTo, At, WillSee, Drain
  <2>10. QED  BY <2>4, <2>5, <2>6, <2>7, <2>8, <2>9 DEF Move
<1>6. QED  BY <1>1, <1>2, <1>4, <1>5 DEF Placed, Carried, Protected

LEMMA OwedStep ==
  ASSUME LaneTypeOK, Numbers, OwedArePlaced, [Next]_vars
  PROVE  OwedArePlaced'
<1>1. CASE Client
  BY <1>1, ClientOwes
<1>2. CASE LaneNext
  BY <1>2, WakeOwes, InterruptOwes, RunOwes DEF LaneNext, Deliver
<1>3. CASE DrainNext
  BY <1>3, DrainSteps, MoveOwes, SettleOwes DEF Exit
<1>4. CASE UNCHANGED vars
  BY <1>4 DEF vars, OwedArePlaced, Owed, Forgotten, IsPending, IsAdmitted, Placed, Carried,
              WillSee, Protected, IsActive
<1>5. QED  BY <1>1, <1>2, <1>3, <1>4 DEF Next

-------------------------------------------------------------------------------
(* Theorems *)

LEMMA InvariantInit == Init => IInv
<1> SUFFICES ASSUME Init PROVE IInv
  OBVIOUS
<1>1. LaneTypeOK /\ Numbers
  BY TypeInit
<1>2. asked = {} /\ \A p \in Prompt : ~IsAdmitted(inbox, p)
  BY DEF Init, EmptyInbox, IsAdmitted
<1>3. OwedArePlaced /\ TakenInOrder
  BY <1>2 DEF OwedArePlaced, Owed, Forgotten, TakenInOrder
<1>4. WaitersWereForced /\ SuccessWasForced
  BY DEF Init, WaitersWereForced, SuccessWasForced, Waiting
<1>5. WaitersAreServed
  BY DEF Init, WaitersAreServed, Waiting
<1>6. QED  BY <1>1, <1>3, <1>4, <1>5 DEF IInv

LEMMA InvariantStep == IInv /\ [Next]_vars => IInv'
BY TypeStep, OwedStep, OrderStep, ForcedStep, ServedStep DEF IInv

\* The inductive invariant, and with it the types, the order in which prompts are
\* taken and the success of callers, for any number of prompts and callers.
THEOREM LaneInvariant == Spec => []IInv
BY InvariantInit, InvariantStep, PTL DEF Spec

\* Every variable has values of its kind (the state of run-coordinator.ts:41-50).
THEOREM LaneTypes == Spec => []LaneTypeOK
<1>1. IInv => LaneTypeOK
  BY DEF IInv
<1>2. QED  BY <1>1, LaneInvariant, PTL

\* An idle lane leaves no prompt behind that is newer than every interrupt, failure
\* and stop of a run: the commit of a prompt comes before its wake, the drain checks
\* after every turn, and a follow-up keeps the newest number (llm.ts:377-394,
\* run-coordinator.ts:53-56).
THEOREM NoPromptForgotten == Spec => []NothingForgotten
<1>1. IInv => NothingForgotten
  <2> SUFFICES ASSUME IInv, ~IsActive(lane), NEW p \in Prompt, Forgotten(p)
               PROVE  inbox[p].seq <= stopped
    BY DEF NothingForgotten
  <2>1. ~Owed(p)
    BY DEF IInv, OwedArePlaced, Placed
  <2>2. inbox[p].seq \in Nat /\ stopped \in Nat
    BY DEF IInv, LaneTypeOK, Numbers
  <2>3. QED  BY <2>1, <2>2 DEF Owed
<1>2. QED  BY <1>1, LaneInvariant, PTL

\* Prompts of one kind are taken in the order of their admission (input.ts:317, 338).
THEOREM PromptsInOrder == Spec => []TakenInOrder
<1>1. IInv => TakenInOrder
  BY DEF IInv
<1>2. QED  BY <1>1, LaneInvariant, PTL

\* Who is told of success has had a drain that was forced (run-coordinator.ts:21, 54).
THEOREM SuccessNeedsForce == Spec => []SuccessWasForced
<1>1. IInv => SuccessWasForced
  BY DEF IInv
<1>2. QED  BY <1>1, LaneInvariant, PTL

\* Nobody waits for an entry that is not there, for a stop that is over, or for a
\* forced drain that was lost from the follow-up (run-coordinator.ts:117-150, 220-235).
THEOREM WaitersHaveEntry == Spec => []WaitersAreServed
<1>1. IInv => WaitersAreServed
  BY DEF IInv
<1>2. QED  BY <1>1, LaneInvariant, PTL

===============================================================================
