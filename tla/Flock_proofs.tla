----------------------------- MODULE Flock_proofs -----------------------------
(***************************************************************************)
(* The lock excludes, for any number of processes and crashes, until a     *)
(* crash leaves a breaker behind.                                          *)
(***************************************************************************)
EXTENDS Flock, TLAPS

\* The breaker exists while exactly one live process is between making and
\* removing it, so that it never gets old.
BreakerIsHeld ==
    /\ breaker.exists =>
          /\ ~breaker.old
          /\ pc[breaker.made[1]] \in Breaking
          /\ breaker.made = Me(breaker.made[1])
    /\ \A p \in Process : pc[p] \in Breaking => breaker.exists /\ breaker.made = Me(p)
    /\ \A p \in Process : pc[p] # "rmBreaker"

\* An old lock is a dead owner's.
OldIsDead == lock.exists => (lock.old => Dead(lock.made))

\* The lock that the breaker's holder is about to remove is still the old one.
ClearedIsOld == \A p \in Process : pc[p] = "clear" => lock.exists /\ lock.old

Guarded ==
    /\ FlockTypeOK
    /\ BreakerIsHeld
    /\ OwnersHaveLock
    /\ OldIsDead
    /\ ClearedIsOld

\* The invariant: all of it until a crash leaves a breaker behind.
FlockInv == FlockTypeOK /\ (~orphaned => Guarded)

Owning == {"unbreakMade", "made", "beaten"} \union Held

\* What the proof needs of the records, which stay folded from here on.
LEMMA Directories ==
    ASSUME FlockTypeOK, NEW p \in Process
    PROVE  /\ Me(p) \in Token /\ Me(p)[1] = p /\ Me(p)[2] = life[p]
           /\ \A q \in Process : Me(q) = Me(p) => q = p
           /\ NewLock(p) \in Lock /\ NewLock(p).exists /\ NewLock(p).made = Me(p) /\ ~NewLock(p).old
           /\ NewBreaker(p) \in Breaker /\ NewBreaker(p).exists
           /\ NewBreaker(p).made = Me(p) /\ ~NewBreaker(p).old
           /\ ~NoDir.exists
BY FlockAssumption
   DEF FlockTypeOK, Me, Token, NewLock, NewBreaker, Lock, Breaker, NoDir, NoToken

LEMMA Tokens ==
    ASSUME FlockTypeOK
    PROVE  /\ lock.exists => lock \in Lock /\ lock.made \in Token /\ lock.made[1] \in Process
           /\ breaker.exists => breaker \in Breaker /\ breaker.made \in Token /\ breaker.made[1] \in Process
<1>1. \A t \in Token : t[1] \in Process
  BY DEF Token
<1>2. ~NoDir.exists
  BY DEF NoDir
<1>3. lock.exists => lock \in Lock
  BY <1>2 DEF FlockTypeOK
<1>4. breaker.exists => breaker \in Breaker
  BY <1>2 DEF FlockTypeOK
<1>5. \A l \in Lock : l.made \in Token
  BY DEF Lock
<1>6. \A b \in Breaker : b.made \in Token
  BY DEF Breaker
<1> QED
  BY <1>1, <1>3, <1>4, <1>5, <1>6

\* A write into the directory keeps its maker.
LEMMA Written ==
    ASSUME NEW l \in Lock, NEW t \in Token
    PROVE  /\ [l EXCEPT !.heartbeat = TRUE, !.old = FALSE] \in Lock
           /\ [l EXCEPT !.heartbeat = TRUE, !.old = FALSE].exists
           /\ [l EXCEPT !.heartbeat = TRUE, !.old = FALSE].made = l.made
           /\ ~[l EXCEPT !.heartbeat = TRUE, !.old = FALSE].old
           /\ [l EXCEPT !.meta = t, !.old = FALSE] \in Lock
           /\ [l EXCEPT !.meta = t, !.old = FALSE].exists
           /\ [l EXCEPT !.meta = t, !.old = FALSE].made = l.made
           /\ ~[l EXCEPT !.meta = t, !.old = FALSE].old
           /\ [l EXCEPT !.old = TRUE] \in Lock
           /\ [l EXCEPT !.old = TRUE].exists
           /\ [l EXCEPT !.old = TRUE].made = l.made
BY DEF Lock

LEMMA Moved ==
    ASSUME pc \in [Process -> Place], NEW p \in Process, NEW from, NEW to \in Place, Go(p, from, to)
    PROVE  /\ pc' \in [Process -> Place]
           /\ pc[p] = from /\ pc'[p] = to
           /\ \A q \in Process : q # p => pc'[q] = pc[q]
BY DEF Go

USE DEF FirstCheck, SecondCheck, Held

LEMMA InitHolds ==
    ASSUME Init PROVE Guarded
<1>1. "idle" \in Place /\ "idle" \notin Breaking /\ "idle" \notin Owning
  BY DEF Place, Owning, Breaking
<1>2. ~NoDir.exists
  BY DEF NoDir
<1>3. orphaned \in BOOLEAN
  BY DEF Init
<1> QED
  BY <1>1, <1>2, <1>3, FlockAssumption
     DEF Init, Guarded, FlockTypeOK, BreakerIsHeld, OwnersHaveLock, OldIsDead, ClearedIsOld, Owning

\* A step that only looks keeps the invariant if it does not enter or leave
\* the breaker, does not come by a lock, and clears only what is old.
LEMMA QuietMove ==
    ASSUME Guarded, NEW p \in Process, NEW from, NEW to \in Place, Go(p, from, to),
           UNCHANGED <<life, lock, breaker, orphaned>>,
           from \in Breaking <=> to \in Breaking,
           to \in Owning => from \in Owning,
           to # "rmBreaker",
           to = "clear" => lock.exists /\ lock.old
    PROVE  Guarded'
<1>1. /\ pc' \in [Process -> Place] /\ pc[p] = from /\ pc'[p] = to
      /\ \A q \in Process : q # p => pc'[q] = pc[q]
  BY Moved DEF Guarded, FlockTypeOK
<1>2. \A q \in Process : Me(q)' = Me(q)
  BY DEF Me
<1>3. FlockTypeOK'
  BY <1>1 DEF Guarded, FlockTypeOK
<1>4. BreakerIsHeld'
  BY <1>1, <1>2, Tokens DEF Guarded, BreakerIsHeld
<1>5. OwnersHaveLock'
  BY <1>1, <1>2 DEF Guarded, OwnersHaveLock, Owning
<1>6. OldIsDead'
  BY DEF Guarded, OldIsDead, Dead
<1>7. ClearedIsOld'
  BY <1>1 DEF Guarded, ClearedIsOld
<1> QED
  BY <1>3, <1>4, <1>5, <1>6, <1>7 DEF Guarded

\* A process makes the directory, outside of the breaker or under it.
LEMMA LockMade ==
    ASSUME Guarded, NEW p \in Process, NEW from, NEW to, Go(p, from, to),
           <<from, to>> \in {<<"idle", "made">>, <<"remake", "unbreakMade">>},
           ~lock.exists, lock' = NewLock(p), UNCHANGED <<life, breaker, orphaned>>
    PROVE  Guarded'
<1>1. /\ to \in Place /\ to \in Owning /\ to # "clear" /\ to # "rmBreaker"
      /\ from \in Breaking <=> to \in Breaking
  BY DEF Place, Owning, Breaking
<1>2. /\ pc' \in [Process -> Place] /\ pc[p] = from /\ pc'[p] = to
      /\ \A q \in Process : q # p => pc'[q] = pc[q]
  BY <1>1, Moved DEF Guarded, FlockTypeOK
<1>3. \A q \in Process : Me(q)' = Me(q)
  BY DEF Me
<1>4. lock' \in Lock /\ lock'.exists /\ lock'.made = Me(p) /\ ~lock'.old
  BY Directories DEF Guarded
<1>5. FlockTypeOK'
  BY <1>2, <1>4 DEF Guarded, FlockTypeOK
<1>6. BreakerIsHeld'
  BY <1>1, <1>2, <1>3, Tokens DEF Guarded, BreakerIsHeld
<1>7. OwnersHaveLock'
  BY <1>2, <1>3, <1>4 DEF Guarded, OwnersHaveLock
<1>8. OldIsDead'
  BY <1>4 DEF OldIsDead
<1>9. ClearedIsOld'
  BY <1>1, <1>2 DEF Guarded, ClearedIsOld
<1> QED
  BY <1>5, <1>6, <1>7, <1>8, <1>9 DEF Guarded

\* The directory goes: with its own owner, or as the old one that is cleared.
LEMMA LockGone ==
    ASSUME Guarded, NEW p \in Process, NEW from, NEW to, Go(p, from, to),
           <<from, to>> \in {<<"clear", "remake">>, <<"removing", "idle">>,
                             <<"made", "idle">>, <<"beaten", "idle">>},
           lock' = NoDir, UNCHANGED <<life, breaker, orphaned>>
    PROVE  Guarded'
<1>1. /\ to \in Place /\ to \notin Owning /\ to # "clear" /\ to # "rmBreaker"
      /\ from \in Breaking <=> to \in Breaking
      /\ from = "clear" \/ from \in Owning
  BY DEF Place, Owning, Breaking
<1>2. /\ pc' \in [Process -> Place] /\ pc[p] = from /\ pc'[p] = to
      /\ \A q \in Process : q # p => pc'[q] = pc[q]
  BY <1>1, Moved DEF Guarded, FlockTypeOK
<1>3. \A q \in Process : Me(q)' = Me(q)
  BY DEF Me
<1>4. ~lock'.exists
  BY Directories DEF Guarded
<1>5. \A q \in Process : Me(q) = Me(p) => q = p
  BY Directories DEF Guarded
<1>6. \A q \in Process : q # p => pc[q] \notin Owning /\ pc[q] # "clear"
  <2> SUFFICES ASSUME NEW q \in Process, q # p
               PROVE  pc[q] \notin Owning /\ pc[q] # "clear"
    OBVIOUS
  <2>1. CASE from = "clear"
    <3>1. lock.exists /\ Dead(lock.made)
      BY <2>1, <1>2 DEF Guarded, ClearedIsOld, OldIsDead
    <3>2. Me(q)[1] = q /\ Me(q)[2] = life[q] /\ life[q] \in Nat
      BY Directories, FlockAssumption DEF Guarded, FlockTypeOK
    <3>3. lock.made # Me(q)
      BY <3>1, <3>2 DEF Dead
    <3>4. pc[q] \notin Owning
      BY <3>3 DEF Guarded, OwnersHaveLock, Owning
    <3>5. pc[q] # "clear"
      BY <2>1, <1>2, <1>5 DEF Guarded, BreakerIsHeld, Breaking
    <3> QED
      BY <3>4, <3>5
  <2>2. CASE from \in Owning
    <3>1. lock.exists /\ lock.made = Me(p)
      BY <2>2, <1>2 DEF Guarded, OwnersHaveLock, Owning
    <3>2. pc[q] \notin Owning
      BY <3>1, <1>5 DEF Guarded, OwnersHaveLock, Owning
    <3>3. pc[q] # "clear"
      <4>1. Me(p)[1] = p /\ Me(p)[2] = life[p] /\ life[p] \in Nat
        BY Directories, FlockAssumption DEF Guarded, FlockTypeOK
      <4>2. ~lock.old
        BY <3>1, <4>1 DEF Guarded, OldIsDead, Dead
      <4> QED
        BY <4>2 DEF Guarded, ClearedIsOld
    <3> QED
      BY <3>2, <3>3
  <2> QED
    BY <2>1, <2>2, <1>1
<1>7. FlockTypeOK'
  BY <1>2 DEF Guarded, FlockTypeOK
<1>8. BreakerIsHeld'
  BY <1>1, <1>2, <1>3, Tokens DEF Guarded, BreakerIsHeld
<1>9. OwnersHaveLock'
  BY <1>1, <1>2, <1>6 DEF OwnersHaveLock, Owning
<1>10. OldIsDead'
  BY <1>4 DEF OldIsDead
<1>11. ClearedIsOld'
  BY <1>1, <1>2, <1>6 DEF ClearedIsOld
<1> QED
  BY <1>7, <1>8, <1>9, <1>10, <1>11 DEF Guarded

\* A write by the one who made the directory keeps it, and keeps it young.
LEMMA LockWritten ==
    ASSUME Guarded, NEW p \in Process, NEW from, NEW to, Go(p, from, to),
           <<from, to>> \in {<<"made", "beaten">>, <<"beaten", "holding">>},
           lock' \in Lock, lock'.exists, lock'.made = lock.made, ~lock'.old,
           UNCHANGED <<life, breaker, orphaned>>
    PROVE  Guarded'
<1>1. /\ to \in Place /\ from \in Owning /\ to # "clear" /\ to # "rmBreaker"
      /\ from \in Breaking <=> to \in Breaking
  BY DEF Place, Owning, Breaking
<1>2. /\ pc' \in [Process -> Place] /\ pc[p] = from /\ pc'[p] = to
      /\ \A q \in Process : q # p => pc'[q] = pc[q]
  BY <1>1, Moved DEF Guarded, FlockTypeOK
<1>3. \A q \in Process : Me(q)' = Me(q)
  BY DEF Me
<1>4. \A q \in Process : q # p => pc[q] # "clear"
  <2>1. lock.exists /\ lock.made = Me(p)
    BY <1>1, <1>2 DEF Guarded, OwnersHaveLock, Owning
  <2>2. Me(p)[1] = p /\ Me(p)[2] = life[p] /\ life[p] \in Nat
    BY Directories, FlockAssumption DEF Guarded, FlockTypeOK
  <2>3. ~lock.old
    BY <2>1, <2>2 DEF Guarded, OldIsDead, Dead
  <2> QED
    BY <2>3 DEF Guarded, ClearedIsOld
<1>5. FlockTypeOK'
  BY <1>2 DEF Guarded, FlockTypeOK
<1>6. BreakerIsHeld'
  BY <1>1, <1>2, <1>3, Tokens DEF Guarded, BreakerIsHeld
<1>7. OwnersHaveLock'
  BY <1>1, <1>2, <1>3 DEF Guarded, OwnersHaveLock, Owning
<1>8. OldIsDead'
  BY DEF OldIsDead
<1>9. ClearedIsOld'
  BY <1>1, <1>2, <1>4 DEF ClearedIsOld
<1> QED
  BY <1>5, <1>6, <1>7, <1>8, <1>9 DEF Guarded

\* The breaker is made only where there is none, and by one process.
LEMMA BreakerMade ==
    ASSUME Guarded, NEW p \in Process, Go(p, "break", "restatHeartbeat"),
           ~breaker.exists, breaker' = NewBreaker(p), UNCHANGED <<life, lock, orphaned>>
    PROVE  Guarded'
<1>1. "restatHeartbeat" \in Place /\ "restatHeartbeat" \in Breaking /\ "restatHeartbeat" \notin Owning
  BY DEF Place, Owning, Breaking
<1>2. /\ pc' \in [Process -> Place] /\ pc[p] = "break" /\ pc'[p] = "restatHeartbeat"
      /\ \A q \in Process : q # p => pc'[q] = pc[q]
  BY <1>1, Moved DEF Guarded, FlockTypeOK
<1>3. \A q \in Process : Me(q)' = Me(q)
  BY DEF Me
<1>4. /\ breaker' \in Breaker /\ breaker'.exists /\ breaker'.made = Me(p) /\ ~breaker'.old
      /\ Me(p)[1] = p
  BY Directories DEF Guarded
<1>5. FlockTypeOK'
  BY <1>2, <1>4 DEF Guarded, FlockTypeOK
<1>6. BreakerIsHeld'
  BY <1>1, <1>2, <1>3, <1>4 DEF Guarded, BreakerIsHeld
<1>7. OwnersHaveLock'
  BY <1>1, <1>2, <1>3 DEF Guarded, OwnersHaveLock, Owning
<1>8. OldIsDead'
  BY DEF Guarded, OldIsDead, Dead
<1>9. ClearedIsOld'
  BY <1>2 DEF Guarded, ClearedIsOld
<1> QED
  BY <1>5, <1>6, <1>7, <1>8, <1>9 DEF Guarded

\* The breaker goes with the one process that made it.
LEMMA BreakerGone ==
    ASSUME Guarded, NEW p \in Process, NEW from, NEW to, Go(p, from, to),
           <<from, to>> \in {<<"unbreak", "idle">>, <<"unbreakMade", "made">>},
           breaker' = NoDir, UNCHANGED <<life, lock, orphaned>>
    PROVE  Guarded'
<1>1. /\ to \in Place /\ to \notin Breaking /\ to # "clear" /\ to # "rmBreaker"
      /\ from \in Breaking
      /\ to \in Owning => from \in Owning
  BY DEF Place, Owning, Breaking
<1>2. /\ pc' \in [Process -> Place] /\ pc[p] = from /\ pc'[p] = to
      /\ \A q \in Process : q # p => pc'[q] = pc[q]
  BY <1>1, Moved DEF Guarded, FlockTypeOK
<1>3. \A q \in Process : Me(q)' = Me(q)
  BY DEF Me
<1>4. ~breaker'.exists
  BY Directories DEF Guarded
<1>5. \A q \in Process : q # p => pc[q] \notin Breaking
  <2>1. \A q \in Process : Me(q) = Me(p) => q = p
    BY Directories DEF Guarded
  <2> QED
    BY <2>1, <1>1, <1>2 DEF Guarded, BreakerIsHeld
<1>6. FlockTypeOK'
  BY <1>2 DEF Guarded, FlockTypeOK
<1>7. BreakerIsHeld'
  BY <1>1, <1>2, <1>4, <1>5 DEF Guarded, BreakerIsHeld
<1>8. OwnersHaveLock'
  BY <1>1, <1>2, <1>3 DEF Guarded, OwnersHaveLock, Owning
<1>9. OldIsDead'
  BY DEF Guarded, OldIsDead, Dead
<1>10. ClearedIsOld'
  BY <1>1, <1>2 DEF Guarded, ClearedIsOld
<1> QED
  BY <1>6, <1>7, <1>8, <1>9, <1>10 DEF Guarded

\* A crash makes a token dead for good, and never that of a breaker.
LEMMA Crashed ==
    ASSUME Guarded, NEW p \in Process, Crash(p), ~orphaned'
    PROVE  Guarded'
<1>1. "idle" \in Place /\ "idle" \notin Breaking /\ "idle" \notin Owning
  BY DEF Place, Owning, Breaking
<1>2. /\ pc' \in [Process -> Place] /\ pc'[p] = "idle" /\ pc[p] \notin Breaking
      /\ \A q \in Process : q # p => pc'[q] = pc[q]
  BY <1>1 DEF Crash, Guarded, FlockTypeOK
<1>3. /\ life' \in [Process -> 0..MaxCrashes]
      /\ \A q \in Process : life[q] \in Nat /\ life'[q] \in Nat /\ life[q] <= life'[q]
  BY FlockAssumption DEF Crash, Guarded, FlockTypeOK
<1>4. \A q \in Process : q # p => life'[q] = life[q]
  BY DEF Crash, Guarded, FlockTypeOK
<1>5. \A q \in Process : q # p => Me(q)' = Me(q)
  BY <1>4 DEF Me
<1>6. lock' = lock /\ breaker' = breaker /\ orphaned' \in BOOLEAN
  BY DEF Crash
<1>7. FlockTypeOK'
  BY <1>2, <1>3, <1>6 DEF Guarded, FlockTypeOK
<1>8. BreakerIsHeld'
  BY <1>1, <1>2, <1>5, <1>6, Tokens DEF Guarded, BreakerIsHeld
<1>9. OwnersHaveLock'
  BY <1>1, <1>2, <1>5, <1>6 DEF Guarded, OwnersHaveLock, Owning
<1>10. OldIsDead'
  <2>1. SUFFICES ASSUME lock.exists, lock.old PROVE Dead(lock.made)'
    BY <1>6 DEF OldIsDead
  <2>2. Dead(lock.made) /\ lock.made[1] \in Process /\ lock.made[2] \in Nat
    BY <2>1, Tokens, FlockAssumption DEF Guarded, OldIsDead, Token
  <2> QED
    BY <2>2, <1>3, <1>6 DEF Dead
<1>11. ClearedIsOld'
  BY <1>2, <1>6 DEF Guarded, ClearedIsOld
<1> QED
  BY <1>7, <1>8, <1>9, <1>10, <1>11 DEF Guarded

\* Only what a crash left gets old, which is a lock and never the breaker.
LEMMA Expired ==
    ASSUME Guarded, ExpireLock \/ ExpireBreaker
    PROVE  Guarded'
<1>1. pc' = pc /\ life' = life /\ orphaned' = orphaned /\ \A q \in Process : Me(q)' = Me(q)
  BY DEF ExpireLock, ExpireBreaker, Me
<1>2. ~ExpireBreaker
  <2>1. SUFFICES ASSUME ExpireBreaker PROVE FALSE
    OBVIOUS
  <2>2. breaker.exists /\ Dead(breaker.made)
    BY <2>1 DEF ExpireBreaker
  <2>3. breaker.made[1] \in Process /\ breaker.made = Me(breaker.made[1])
    BY <2>2, Tokens DEF Guarded, BreakerIsHeld
  <2>4. breaker.made[2] = life[breaker.made[1]] /\ life[breaker.made[1]] \in Nat
    BY <2>3, Directories, FlockAssumption DEF Guarded, FlockTypeOK
  <2> QED
    BY <2>2, <2>4 DEF Dead
<1>3. ExpireLock
  BY <1>2
<1>4. lock.exists /\ lock \in Lock /\ Dead(lock.made) /\ breaker' = breaker
  BY <1>3, Tokens DEF Guarded, ExpireLock
<1>5. lock' \in Lock /\ lock'.exists /\ lock'.made = lock.made
  BY <1>3, <1>4 DEF ExpireLock, Lock
<1>6. lock'.old
  BY <1>3, <1>4 DEF ExpireLock, Lock
<1>7. FlockTypeOK'
  BY <1>1, <1>4, <1>5 DEF Guarded, FlockTypeOK
<1>8. BreakerIsHeld'
  BY <1>1, <1>4, Tokens DEF Guarded, BreakerIsHeld
<1>9. OwnersHaveLock'
  BY <1>1, <1>5 DEF Guarded, OwnersHaveLock
<1>10. OldIsDead'
  BY <1>1, <1>4, <1>5 DEF OldIsDead, Dead
<1>11. ClearedIsOld'
  BY <1>1, <1>5, <1>6 DEF Guarded, ClearedIsOld
<1> QED
  BY <1>7, <1>8, <1>9, <1>10, <1>11 DEF Guarded

\* Every step falls under one of the lemmas above.
LEMMA StepHolds ==
    ASSUME Guarded, [Next]_vars, ~orphaned'
    PROVE  Guarded'
<1>1. ASSUME NEW p \in Process, Step(p) PROVE Guarded'
  <2> USE <1>1
  <2>1. CASE Mkdir(p)
    BY <2>1, LockMade, QuietMove DEF Mkdir, Place, Breaking, Owning
  <2>2. CASE Stale(p)
    BY <2>2, QuietMove DEF Stale, Stat, Place, Breaking, Owning
  <2>3. CASE MkdirBreaker(p)
    BY <2>3, BreakerMade, QuietMove DEF MkdirBreaker, Place, Breaking, Owning
  <2>4. CASE StatBreaker(p)
    <3>1. ~(breaker.exists /\ breaker.old)
      BY DEF Guarded, BreakerIsHeld
    <3> QED
      BY <2>4, <3>1, QuietMove DEF StatBreaker, Place, Breaking, Owning
  <2>5. CASE RmBreaker(p, "rmBreaker", "idle")
    BY <2>5 DEF RmBreaker, Go, Guarded, BreakerIsHeld
  <2>6. CASE StaleAgain(p)
    BY <2>6, QuietMove DEF StaleAgain, Stat, Place, Breaking, Owning
  <2>7. CASE RmLock(p, "clear", "remake") \/ RmLock(p, "removing", "idle")
    BY <2>7, LockGone DEF RmLock
  <2>8. CASE MkdirAgain(p)
    BY <2>8, LockMade, QuietMove DEF MkdirAgain, Place, Breaking, Owning
  <2>9. CASE RmBreaker(p, "unbreak", "idle") \/ RmBreaker(p, "unbreakMade", "made")
    BY <2>9, BreakerGone DEF RmBreaker
  <2>10. CASE WriteHeartbeat(p)
    <3>1. CASE lock.exists /\ ~lock.heartbeat
      <4>1. lock' = [lock EXCEPT !.heartbeat = TRUE, !.old = FALSE] /\ Go(p, "made", "beaten")
        BY <2>10, <3>1 DEF WriteHeartbeat
      <4>2. lock \in Lock /\ Me(p) \in Token
        BY <3>1, Tokens, Directories DEF Guarded
      <4>3. lock' \in Lock /\ lock'.exists /\ lock'.made = lock.made /\ ~lock'.old
        BY <4>1, <4>2, Written
      <4> QED
        BY <2>10, <4>1, <4>3, LockWritten DEF WriteHeartbeat
    <3>2. CASE ~(lock.exists /\ ~lock.heartbeat)
      BY <2>10, <3>2, LockGone DEF WriteHeartbeat
    <3> QED
      BY <3>1, <3>2
  <2>11. CASE WriteMeta(p)
    <3>1. CASE lock.exists /\ lock.meta = NoToken
      <4>1. lock' = [lock EXCEPT !.meta = Me(p), !.old = FALSE] /\ Go(p, "beaten", "holding")
        BY <2>11, <3>1 DEF WriteMeta
      <4>2. lock \in Lock /\ Me(p) \in Token
        BY <3>1, Tokens, Directories DEF Guarded
      <4>3. lock' \in Lock /\ lock'.exists /\ lock'.made = lock.made /\ ~lock'.old
        BY <4>1, <4>2, Written
      <4> QED
        BY <2>11, <4>1, <4>3, LockWritten DEF WriteMeta
    <3>2. CASE ~(lock.exists /\ lock.meta = NoToken)
      BY <2>11, <3>2, LockGone DEF WriteMeta
    <3> QED
      BY <3>1, <3>2
  <2>12. CASE ReadMeta(p)
    BY <2>12, QuietMove DEF ReadMeta, Place, Breaking, Owning
  <2> QED
    BY <2>1, <2>2, <2>3, <2>4, <2>5, <2>6, <2>7, <2>8, <2>9, <2>10, <2>11, <2>12 DEF Step
<1>2. ASSUME NEW p \in Process, StartRelease(p) PROVE Guarded'
  BY <1>2, QuietMove DEF StartRelease, Place, Breaking, Owning
<1>3. ASSUME NEW p \in Process, Crash(p) PROVE Guarded'
  BY <1>3, Crashed
<1>4. CASE ExpireLock \/ ExpireBreaker
  BY <1>4, Expired
<1>5. CASE UNCHANGED vars
  BY <1>5 DEF vars, Guarded, FlockTypeOK, BreakerIsHeld, OwnersHaveLock, OldIsDead, ClearedIsOld, Me, Dead
<1> QED
  BY <1>1, <1>2, <1>3, <1>4, <1>5 DEF Next

\* Types do not depend on who crashed where.
LEMMA TypesKept ==
    ASSUME FlockTypeOK, [Next]_vars
    PROVE  FlockTypeOK'
<1>1. \A p \in Process : Me(p) \in Token /\ NewLock(p) \in Lock /\ NewBreaker(p) \in Breaker
  BY Directories
<1>2. pc' \in [Process -> Place]
  <2>1. ASSUME NEW p \in Process, Step(p) \/ StartRelease(p) PROVE pc' \in [Process -> Place]
    BY <2>1 DEF FlockTypeOK, Step, StartRelease, Go, Place, Breaking, Mkdir, Stale, Stat, MkdirBreaker,
           StatBreaker, RmBreaker, StaleAgain, RmLock, MkdirAgain, WriteHeartbeat, WriteMeta, ReadMeta
  <2>2. ASSUME NEW p \in Process, Crash(p) PROVE pc' \in [Process -> Place]
    BY <2>2 DEF FlockTypeOK, Crash, Place
  <2> QED
    BY <2>1, <2>2 DEF FlockTypeOK, Next, ExpireLock, ExpireBreaker, vars
<1>3. life' \in [Process -> 0..MaxCrashes] /\ orphaned' \in BOOLEAN
  <2>1. ASSUME NEW p \in Process, Crash(p) PROVE life' \in [Process -> 0..MaxCrashes] /\ orphaned' \in BOOLEAN
    <3>1. life[p] + 1 \in 0..MaxCrashes
      BY <2>1, FlockAssumption DEF FlockTypeOK, Crash
    <3> QED
      BY <2>1, <3>1 DEF FlockTypeOK, Crash
  <2>2. ASSUME NEW p \in Process, Step(p) \/ StartRelease(p) PROVE life' = life /\ orphaned' = orphaned
    BY <2>2 DEF Step, StartRelease, Mkdir, Stale, Stat, MkdirBreaker,
           StatBreaker, RmBreaker, StaleAgain, RmLock, MkdirAgain, WriteHeartbeat, WriteMeta, ReadMeta
  <2> QED
    BY <2>1, <2>2 DEF FlockTypeOK, Next, ExpireLock, ExpireBreaker, vars
<1>4. lock' \in Lock \union {NoDir}
  <2>1. lock.exists => lock \in Lock
    BY Tokens
  <2>2. ASSUME NEW p \in Process, Step(p) \/ StartRelease(p) PROVE lock' \in Lock \union {NoDir}
    <3>1. lock' \in {lock, NewLock(p), NoDir} \/ WriteHeartbeat(p) \/ WriteMeta(p)
      BY <2>2 DEF Step, StartRelease, Mkdir, Stale, Stat, MkdirBreaker,
             StatBreaker, RmBreaker, StaleAgain, RmLock, MkdirAgain, ReadMeta
    <3>2. CASE WriteHeartbeat(p) \/ WriteMeta(p)
      BY <3>2, <2>1, <1>1, Written DEF WriteHeartbeat, WriteMeta
    <3> QED
      BY <3>1, <3>2, <1>1 DEF FlockTypeOK
  <2>3. ASSUME ExpireLock PROVE lock' \in Lock
    BY <2>1, <2>3 DEF ExpireLock, Lock
  <2> QED
    BY <2>2, <2>3 DEF FlockTypeOK, Next, Crash, ExpireBreaker, vars
<1>5. breaker' \in Breaker \union {NoDir}
  <2>1. breaker.exists => breaker \in Breaker
    BY Tokens
  <2>2. ASSUME NEW p \in Process, Step(p) \/ StartRelease(p) PROVE breaker' \in {breaker, NewBreaker(p), NoDir}
    BY <2>2 DEF Step, StartRelease, Mkdir, Stale, Stat, MkdirBreaker,
           StatBreaker, RmBreaker, StaleAgain, RmLock, MkdirAgain, WriteHeartbeat, WriteMeta, ReadMeta
  <2>3. ASSUME ExpireBreaker PROVE breaker' \in Breaker
    BY <2>1, <2>3 DEF ExpireBreaker, Breaker
  <2> QED
    BY <2>2, <2>3, <1>1 DEF FlockTypeOK, Next, Crash, ExpireLock, vars
<1> QED
  BY <1>2, <1>3, <1>4, <1>5 DEF FlockTypeOK

\* A breaker once left behind stays on record.
LEMMA OrphanStays ==
    ASSUME [Next]_vars, ~orphaned'
    PROVE  ~orphaned
<1>1. ASSUME NEW p \in Process, Step(p) \/ StartRelease(p) PROVE orphaned' = orphaned
  BY <1>1 DEF Step, StartRelease, Mkdir, Stale, Stat, MkdirBreaker,
         StatBreaker, RmBreaker, StaleAgain, RmLock, MkdirAgain, WriteHeartbeat, WriteMeta, ReadMeta
<1> QED
  BY <1>1 DEF Next, Crash, ExpireLock, ExpireBreaker, vars

\* In every behaviour the types hold, and the rest until a breaker is left.
THEOREM FlockInvariant == Spec => []FlockInv
<1>1. Init => FlockInv
  BY InitHolds DEF FlockInv, Guarded
<1>2. FlockInv /\ [Next]_vars => FlockInv'
  BY StepHolds, TypesKept, OrphanStays DEF FlockInv
<1> QED
  BY <1>1, <1>2, PTL DEF Spec

\* The types of flock.ts's state hold in every behaviour.
THEOREM FlockTypes == Spec => []FlockTypeOK
<1>1. FlockInv => FlockTypeOK
  BY DEF FlockInv
<1> QED
  BY <1>1, FlockInvariant, PTL

\* A live owner's directory is never taken from it (flock.ts:148-272), until
\* a crash leaves a breaker behind.
THEOREM OwnerKeepsLock == Spec => []LiveOwnerKeepsLock
<1>1. FlockInv => LiveOwnerKeepsLock
  BY DEF FlockInv, Guarded, LiveOwnerKeepsLock
<1> QED
  BY <1>1, FlockInvariant, PTL

\* No two processes hold the lock, since the directory names one maker, until
\* a crash leaves a breaker behind.
THEOREM LockExcludes == Spec => []MutualExclusion
<1>1. ASSUME FlockInv PROVE MutualExclusion
  <2>1. \A p, q \in Process : Me(p) = Me(q) => p = q
    BY <1>1, Directories DEF FlockInv
  <2> QED
    BY <1>1, <2>1 DEF FlockInv, Guarded, OwnersHaveLock, MutualExclusion
<1> QED
  BY <1>1, FlockInvariant, PTL
==============================================================================
