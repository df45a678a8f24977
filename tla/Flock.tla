-------------------------------- MODULE Flock --------------------------------
(***************************************************************************)
(* The lock between processes of packages/core/src/util/flock.ts: a        *)
(* directory that whoever creates it owns, a heartbeat and a metadata file *)
(* in it, and a second directory, the breaker, that guards the removal of  *)
(* a lock left behind by a crashed owner.  Every file operation is a step  *)
(* of its own; a recursive rm is one step.                                 *)
(*                                                                         *)
(* Time is the age of a directory: Expire makes one old.  Only what a      *)
(* crashed process left behind gets old, since live ones beat three times  *)
(* in staleMs and do their steps in less: the lock assumes as much.        *)
(***************************************************************************)
EXTENDS Naturals

CONSTANTS
    Process,
    MaxCrashes  \* bound on the crashes of each process

ASSUME FlockAssumption == MaxCrashes \in Nat

VARIABLES
    pc,         \* where each process is
    life,       \* how often each process has crashed: a new life draws a new token
    lock,       \* the lock directory
    breaker,    \* the breaker directory
    orphaned    \* history: whether a crash ever left a breaker behind

vars == <<pc, life, lock, breaker, orphaned>>

Token == Process \X (0..MaxCrashes)
NoDir == [exists |-> FALSE]
NoToken == <<>>

\* `made` and `old` of a directory are facts of the file system: whose mkdir
\* made it, and whether everything in it was last touched staleMs ago.
Lock == [exists : {TRUE}, made : Token, old : BOOLEAN, heartbeat : BOOLEAN, meta : Token \union {NoToken}]
Breaker == [exists : {TRUE}, made : Token, old : BOOLEAN]

Me(p) == <<p, life[p]>>
NewLock(p) == [exists |-> TRUE, made |-> Me(p), old |-> FALSE, heartbeat |-> FALSE, meta |-> NoToken]
NewBreaker(p) == [exists |-> TRUE, made |-> Me(p), old |-> FALSE]
Dead(token) == token[2] < life[token[1]]

\* The first check of staleness, the second under the breaker, and the rest.
FirstCheck == {"statHeartbeat", "statMeta", "statDir"}
SecondCheck == {"restatHeartbeat", "restatMeta", "restatDir"}
Breaking == SecondCheck \union {"clear", "remake", "unbreak", "unbreakMade"}
Held == {"holding", "reading", "removing"}
Place == {"idle", "break", "statBreaker", "rmBreaker", "made", "beaten"}
            \union FirstCheck \union Breaking \union Held

Init ==
    /\ pc = [p \in Process |-> "idle"]
    /\ life = [p \in Process |-> 0]
    /\ lock = NoDir
    /\ breaker = NoDir
    /\ orphaned = FALSE

Go(p, from, to) == pc[p] = from /\ pc' = [pc EXCEPT ![p] = to]

-----------------------------------------------------------------------------
(* One attempt.  A process that does not get the lock is idle again: it    *)
(* sleeps and retries, or its timeout or abort signal ends the wait.       *)

Mkdir(p) ==
    /\ \/ ~lock.exists /\ lock' = NewLock(p) /\ Go(p, "idle", "made")
       \/ lock.exists /\ UNCHANGED lock /\ Go(p, "idle", "statHeartbeat")
    /\ UNCHANGED <<life, breaker, orphaned>>

\* stale: the age of the heartbeat, else of the metadata, else of the directory.
Stat(p, at, next, present, ifOld, ifNot) ==
    /\ IF present
          THEN IF lock.old THEN Go(p, at, ifOld) ELSE Go(p, at, ifNot)
          ELSE Go(p, at, next)
    /\ UNCHANGED <<life, lock, breaker, orphaned>>

\* Mutant of Stale: a lock without files in it has no age.
StaleByFiles(p) ==
    \/ Stat(p, "statHeartbeat", "statMeta", lock.exists /\ lock.heartbeat, "break", "idle")
    \/ Stat(p, "statMeta", "idle", lock.exists /\ lock.meta # NoToken, "break", "idle")

Stale(p) ==
    \/ Stat(p, "statHeartbeat", "statMeta", lock.exists /\ lock.heartbeat, "break", "idle")
    \/ Stat(p, "statMeta", "statDir", lock.exists /\ lock.meta # NoToken, "break", "idle")
    \/ Stat(p, "statDir", "idle", lock.exists, "break", "idle")

\* Mutant of MkdirBreaker: a breaker that is there stops nobody.
IgnoreBreaker(p) ==
    /\ breaker' = NewBreaker(p) /\ Go(p, "break", "restatHeartbeat")
    /\ UNCHANGED <<life, lock, orphaned>>

\* The breaker serialises the cleanup; an old one is removed and not taken.
MkdirBreaker(p) ==
    /\ \/ ~breaker.exists /\ breaker' = NewBreaker(p) /\ Go(p, "break", "restatHeartbeat")
       \/ breaker.exists /\ UNCHANGED breaker /\ Go(p, "break", "statBreaker")
    /\ UNCHANGED <<life, lock, orphaned>>

StatBreaker(p) ==
    /\ IF breaker.exists /\ breaker.old
          THEN Go(p, "statBreaker", "rmBreaker")
          ELSE Go(p, "statBreaker", "idle")
    /\ UNCHANGED <<life, lock, breaker, orphaned>>

RmBreaker(p, from, to) ==
    /\ Go(p, from, to)
    /\ breaker' = NoDir
    /\ UNCHANGED <<life, lock, orphaned>>

\* Mutant of StaleAgain: the cleanup trusts the check from before the breaker.
StaleStill(p) == Go(p, "restatHeartbeat", "clear") /\ UNCHANGED <<life, lock, breaker, orphaned>>

StaleAgain(p) ==
    \/ Stat(p, "restatHeartbeat", "restatMeta", lock.exists /\ lock.heartbeat, "clear", "unbreak")
    \/ Stat(p, "restatMeta", "restatDir", lock.exists /\ lock.meta # NoToken, "clear", "unbreak")
    \/ Stat(p, "restatDir", "unbreak", lock.exists, "clear", "unbreak")

RmLock(p, from, to) ==
    /\ Go(p, from, to)
    /\ lock' = NoDir
    /\ UNCHANGED <<life, breaker, orphaned>>

\* After the cleanup the process competes for the directory like any other.
MkdirAgain(p) ==
    /\ \/ ~lock.exists /\ lock' = NewLock(p) /\ Go(p, "remake", "unbreakMade")
       \/ lock.exists /\ UNCHANGED lock /\ Go(p, "remake", "unbreak")
    /\ UNCHANGED <<life, breaker, orphaned>>

\* Each file is created exclusively; a failure removes the directory and throws.
WriteHeartbeat(p) ==
    /\ \/ /\ lock.exists /\ ~lock.heartbeat
          /\ lock' = [lock EXCEPT !.heartbeat = TRUE, !.old = FALSE]
          /\ Go(p, "made", "beaten")
       \/ /\ lock.exists => lock.heartbeat
          /\ lock' = NoDir
          /\ Go(p, "made", "idle")
    /\ UNCHANGED <<life, breaker, orphaned>>

WriteMeta(p) ==
    /\ \/ /\ lock.exists /\ lock.meta = NoToken
          /\ lock' = [lock EXCEPT !.meta = Me(p), !.old = FALSE]
          /\ Go(p, "beaten", "holding")
       \/ /\ lock.exists => lock.meta # NoToken
          /\ lock' = NoDir
          /\ Go(p, "beaten", "idle")
    /\ UNCHANGED <<life, breaker, orphaned>>

\* release refuses a lock whose metadata is missing or names another token.
ReadMeta(p) ==
    /\ IF lock.exists /\ lock.meta = Me(p)
          THEN Go(p, "reading", "removing")
          ELSE Go(p, "reading", "idle")
    /\ UNCHANGED <<life, lock, breaker, orphaned>>

StartRelease(p) == Go(p, "holding", "reading") /\ UNCHANGED <<life, lock, breaker, orphaned>>

-----------------------------------------------------------------------------
\* A crash forgets the process and leaves its directories.
Crash(p) ==
    /\ pc[p] # "idle" /\ life[p] < MaxCrashes
    /\ pc' = [pc EXCEPT ![p] = "idle"]
    /\ life' = [life EXCEPT ![p] = @ + 1]
    /\ orphaned' = (orphaned \/ pc[p] \in Breaking)
    /\ UNCHANGED <<lock, breaker>>

\* staleMs pass over what a crashed process left.
ExpireLock ==
    /\ lock.exists /\ ~lock.old /\ Dead(lock.made)
    /\ lock' = [lock EXCEPT !.old = TRUE]
    /\ UNCHANGED <<pc, life, breaker, orphaned>>

ExpireBreaker ==
    /\ breaker.exists /\ ~breaker.old /\ Dead(breaker.made)
    /\ breaker' = [breaker EXCEPT !.old = TRUE]
    /\ UNCHANGED <<pc, life, lock, orphaned>>

\* What a process does once it has begun to try, and to release.
Step(p) ==
    \/ Mkdir(p) \/ Stale(p)
    \/ MkdirBreaker(p) \/ StatBreaker(p) \/ RmBreaker(p, "rmBreaker", "idle")
    \/ StaleAgain(p) \/ RmLock(p, "clear", "remake") \/ MkdirAgain(p)
    \/ RmBreaker(p, "unbreak", "idle") \/ RmBreaker(p, "unbreakMade", "made")
    \/ WriteHeartbeat(p) \/ WriteMeta(p)
    \/ ReadMeta(p) \/ RmLock(p, "removing", "idle")

Next ==
    \/ \E p \in Process : Step(p) \/ StartRelease(p) \/ Crash(p)
    \/ ExpireLock \/ ExpireBreaker

\* Contenders go on retrying, and time passes.
Fairness ==
    /\ \A p \in Process : WF_vars(Step(p))
    /\ WF_vars(ExpireLock) /\ WF_vars(ExpireBreaker)

Spec == Init /\ [][Next]_vars
FairSpec == Spec /\ Fairness

-----------------------------------------------------------------------------
(* Properties. *)

\* Types of the processes' places and of the two directories.
FlockTypeOK ==
    /\ pc \in [Process -> Place]
    /\ life \in [Process -> 0..MaxCrashes]
    /\ lock \in Lock \union {NoDir}
    /\ breaker \in Breaker \union {NoDir}
    /\ orphaned \in BOOLEAN

\* No two processes hold the lock, whatever crashes, stale checks and cleanups
\* came before, as long as no crash has left a breaker behind (flock.ts:148).
MutualExclusion ==
    ~orphaned => \A p, q \in Process : pc[p] \in Held /\ pc[q] \in Held => p = q

OwnersHaveLock ==
    \A p \in Process :
        pc[p] \in {"unbreakMade", "made", "beaten"} \union Held =>
            lock.exists /\ lock.made = Me(p)

\* From the mkdir that made it on, a live owner's directory is not removed
\* and not replaced by a contender who took it for a stale one (flock.ts:184-202),
\* with the same proviso.
LiveOwnerKeepsLock == ~orphaned => OwnersHaveLock

\* "Breaker ownership ensures only one contender performs stale cleanup"
\* (flock.ts:185).
OneCleaner ==
    \A p, q \in Process : pc[p] = "clear" /\ pc[q] = "clear" => p = q

\* A lock that its owner's crash left behind does not stay.
StaleLockIsCleared ==
    (lock.exists /\ Dead(lock.made)) ~> ~(lock.exists /\ Dead(lock.made))
==============================================================================
