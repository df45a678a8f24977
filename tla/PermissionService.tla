-------------------------- MODULE PermissionService --------------------------
(***************************************************************************)
(* The permission service of one location (packages/core/src/permission.ts *)
(* and permission/saved.ts): tools assert that they may do something, the  *)
(* service evaluates the rules and, where they say "ask", parks the call   *)
(* on a pending request; users reply "once", "always" or "reject".  A      *)
(* reply runs across several awaits and touches requests other than its    *)
(* own: "reject" rejects the whole session, "always" saves patterns and    *)
(* grants every pending request that they now cover.  Calls and replies    *)
(* interleave at every await.                                              *)
(*                                                                         *)
(* Every assertion is of one action, a resource is a value and a pattern   *)
(* the set of the resources it matches.  The agent's rules do not change.  *)
(* The map of pending requests is a set here: a loop over it takes its     *)
(* items in any order, not only in that of their insertion.                *)
(*                                                                         *)
(* Publishing runs the listeners in turn, and a failure may come after the *)
(* first of them has seen the event.  That event counts as not announced:  *)
(* what a listener does with an event is outside of this service.          *)
(***************************************************************************)
EXTENDS Naturals, FiniteSets, Sequences

CONSTANTS
    Request,        \* the calls of assert, one request each
    User,           \* the concurrent calls of reply
    Session,
    Resource,
    SessionOf,      \* the session of a request
    ResourcesOf,    \* the resources a request names
    SaveOf,         \* the patterns that an "always" to a request would save
    RulesOf,        \* the rules of the agent of a session
    Removable,      \* bound: the sessions that may be removed
    MaxAnswers      \* bound: the different answers that users give

Effect == {"allow", "deny", "ask"}
Reply == {"once", "always", "reject"}
Pattern == SUBSET Resource
Rule == [matches : Pattern, effect : Effect]

ASSUME RequestAssumption ==
    /\ Request # {}
    /\ SessionOf \in [Request -> Session]
    /\ ResourcesOf \in [Request -> SUBSET Resource]
    /\ SaveOf \in [Request -> SUBSET Pattern]
    /\ \A s \in Session : RulesOf[s] \in Seq(Rule)
    /\ Removable \subseteq Session /\ MaxAnswers \in Nat

VARIABLES
    sessions,   \* the sessions that exist
    saved,      \* the patterns in the permission table
    pending,    \* the requests of the map `pending`
    settled,    \* the deferred of each request
    call,       \* where each call of assert is
    reply,      \* each call of reply: its place, request, answer, rules read, items visited
    replied,    \* the answers that Replied events announced to every listener
    chosen      \* history: the answers that users gave to each request

vars == <<sessions, saved, pending, settled, call, reply, replied, chosen>>

-----------------------------------------------------------------------------
(* The rules. *)

\* The last rule that matches decides, and without one the user is asked.
Evaluate(resource, rules) ==
    LET hits == {i \in DOMAIN rules : resource \in rules[i].matches}
    IN  IF hits = {} THEN "ask" ELSE rules[CHOOSE i \in hits : \A j \in hits : j <= i].effect

Denied(r, rules) == \E x \in ResourcesOf[r] : Evaluate(x, rules) = "deny"

\* An allow rule for each saved pattern follows the configured rules, so that a
\* pattern that matches comes last.
EvaluateAll(resource, rules, patterns) ==
    IF \E p \in patterns : resource \in p THEN "allow" ELSE Evaluate(resource, rules)

Allowed(r, rules, patterns) == \A x \in ResourcesOf[r] : EvaluateAll(x, rules, patterns) = "allow"

\* What an assertion comes to once the configured rules do not deny it.
EffectOf(r, patterns) ==
    LET rules == RulesOf[SessionOf[r]]
    IN  IF \E x \in ResourcesOf[r] : EvaluateAll(x, rules, patterns) = "deny" THEN "deny"
        ELSE IF Allowed(r, rules, patterns) THEN "allow" ELSE "ask"

-----------------------------------------------------------------------------
Answer == Reply \union {"none"}
Outcome == {"allowed", "denied", "rejected", "interrupted", "failed"}
CallState == {"idle", "configured", "evaluated", "created", "asked", "waiting"} \union Outcome
Place == {"idle", "failed", "announce", "settle", "save", "grant", "remember",
          "rejecting", "rejectItem", "granting", "check", "grantItem"}
NoReply == [at |-> "idle", req |-> CHOOSE r \in Request : TRUE, answer |-> "once",
            item |-> CHOOSE r \in Request : TRUE, visited |-> {}, remembered |-> {}]

Forget(r) == pending \ {r}

Init ==
    /\ sessions = Session
    /\ saved = {}
    /\ pending = {}
    /\ settled = [r \in Request |-> "none"]
    /\ call = [r \in Request |-> "idle"]
    /\ reply = [u \in User |-> NoReply]
    /\ replied = [r \in Request |-> {}]
    /\ chosen = [r \in Request |-> {}]

-----------------------------------------------------------------------------
(* A call of assert, or of ask. *)

Come(r, from, to) == call[r] = from /\ call' = [call EXCEPT ![r] = to]

\* Mutant of Configured: a configured deny does not end the call before saved rules are read.
ConfiguredUndenied(r) ==
    /\ IF SessionOf[r] \in sessions THEN Come(r, "idle", "configured") ELSE Come(r, "idle", "failed")
    /\ UNCHANGED <<sessions, saved, pending, settled, reply, replied, chosen>>

\* configured reads the agent's rules, and a deny among them ends the call.
Configured(r) ==
    /\ \/ SessionOf[r] \notin sessions /\ Come(r, "idle", "failed")
       \/ /\ SessionOf[r] \in sessions
          /\ IF Denied(r, RulesOf[SessionOf[r]])
                THEN Come(r, "idle", "denied")
                ELSE Come(r, "idle", "configured")
    /\ UNCHANGED <<sessions, saved, pending, settled, reply, replied, chosen>>

\* The saved rules are read from the table, and decide what is left.
EvaluateInput(r) ==
    /\ CASE EffectOf(r, saved) = "deny"  -> Come(r, "configured", "denied")
         [] EffectOf(r, saved) = "allow" -> Come(r, "configured", "allowed")
         [] OTHER                        -> Come(r, "configured", "evaluated")
    /\ UNCHANGED <<sessions, saved, pending, settled, reply, replied, chosen>>

\* The request becomes visible before its Asked event is published.
Create(r) ==
    /\ Come(r, "evaluated", "created")
    /\ pending' = pending \union {r}
    /\ UNCHANGED <<sessions, saved, settled, reply, replied, chosen>>

\* The event is published, or a listener's failure takes the request back.  A call
\* of assert then waits; one of ask returns, and leaves the request to be answered.
PublishAsked(r) ==
    /\ \/ Come(r, "created", "waiting") /\ UNCHANGED pending
       \/ Come(r, "created", "asked") /\ UNCHANGED pending
       \/ Come(r, "created", "failed") /\ pending' = Forget(r)
    /\ UNCHANGED <<sessions, saved, settled, reply, replied, chosen>>

\* The wait ends with what settled the request, or with an interrupt.
EndOfWait(r, outcome) ==
    /\ Come(r, "waiting", outcome)
    /\ pending' = Forget(r)
    /\ UNCHANGED <<sessions, saved, settled, reply, replied, chosen>>

Return(r) == settled[r] # "none" /\ EndOfWait(r, settled[r])
InterruptCall(r) == EndOfWait(r, "interrupted")

-----------------------------------------------------------------------------
(* A call of reply.  It cannot be interrupted, and dies where a listener   *)
(* of its events or the database fails.                                    *)

Move(u, from, to) == reply[u].at = from /\ reply' = [reply EXCEPT ![u].at = to]

Fail(u) == reply' = [reply EXCEPT ![u] = [NoReply EXCEPT !.at = "failed"]]
End(u) == reply' = [reply EXCEPT ![u] = NoReply]

Settle(r, outcome) ==
    /\ settled' = [settled EXCEPT ![r] = IF @ = "none" THEN outcome ELSE @]
    /\ pending' = Forget(r)

Announce(r, answer) == replied' = [replied EXCEPT ![r] = @ \union {answer}]

StartReply(u, r, answer) ==
    /\ reply[u].at \in {"idle", "failed"}
    /\ r \in pending
    /\ reply' = [reply EXCEPT ![u] = [NoReply EXCEPT !.at = "announce", !.req = r, !.item = r, !.answer = answer]]
    /\ chosen' = [chosen EXCEPT ![r] = @ \union {answer}]
    /\ Cardinality({x \in Request \X Reply : x[2] \in chosen'[x[1]]}) <= MaxAnswers
    /\ UNCHANGED <<sessions, saved, pending, settled, call, replied>>

\* Mutant of PublishReplied: the listeners run after the event is out.
PublishRepliedFirst(u) ==
    LET r == reply[u].req
        answer == reply[u].answer
    IN  /\ Announce(r, answer)
        /\ \/ reply[u].at = "announce" /\ Fail(u)
           \/ CASE answer = "reject" -> Move(u, "announce", "settle")
                [] answer = "always" /\ SaveOf[r] # {} -> Move(u, "announce", "save")
                [] OTHER -> Move(u, "announce", "grant")
        /\ UNCHANGED <<sessions, saved, pending, settled, call, chosen>>

PublishReplied(u) ==
    LET r == reply[u].req
        answer == reply[u].answer
    IN  /\ \/ reply[u].at = "announce" /\ Fail(u) /\ UNCHANGED replied
           \/ /\ Announce(r, answer)
              /\ CASE answer = "reject" -> Move(u, "announce", "settle")
                   [] answer = "always" /\ SaveOf[r] # {} -> Move(u, "announce", "save")
                   [] OTHER -> Move(u, "announce", "grant")
        /\ UNCHANGED <<sessions, saved, pending, settled, call, chosen>>

\* A rejection fails the request, and goes on to the others of its session.
RejectRequest(u) ==
    /\ Move(u, "settle", "rejecting")
    /\ Settle(reply[u].req, "rejected")
    /\ UNCHANGED <<sessions, saved, call, replied, chosen>>

\* An iteration of a JavaScript map meets what is added during the loop,
\* and not what is deleted before its turn.
Unvisited(u) == pending \ reply[u].visited
UnvisitedOfSession(u) == {r \in Unvisited(u) : SessionOf[r] = SessionOf[reply[u].req]}
Visit(u, r, to) ==
    reply' = [reply EXCEPT ![u].at = to, ![u].item = r, ![u].visited = @ \union {r}]

\* Mutant of RejectNext: the other requests of the session are failed without an event.
RejectNextSilently(u) ==
    /\ reply[u].at = "rejecting"
    /\ \/ UnvisitedOfSession(u) = {} /\ End(u)
       \/ \E r \in UnvisitedOfSession(u) : Visit(u, r, "rejectItem")
    /\ UNCHANGED <<sessions, saved, pending, settled, call, replied, chosen>>

RejectNext(u) ==
    /\ reply[u].at = "rejecting"
    /\ \/ UnvisitedOfSession(u) = {} /\ End(u) /\ UNCHANGED replied
       \/ \E r \in UnvisitedOfSession(u) :
             \/ Visit(u, r, "rejectItem") /\ Announce(r, "reject")
             \/ Fail(u) /\ UNCHANGED replied
    /\ UNCHANGED <<sessions, saved, pending, settled, call, chosen>>

RejectItem(u) ==
    /\ Move(u, "rejectItem", "rejecting")
    /\ Settle(reply[u].item, "rejected")
    /\ UNCHANGED <<sessions, saved, call, replied, chosen>>

\* Mutant of AddSaved: the request is taken off the map before its patterns are saved.
AddSavedForgets(u) ==
    /\ \/ Move(u, "save", "grant") /\ saved' = saved \union SaveOf[reply[u].req]
       \/ reply[u].at = "save" /\ Fail(u) /\ UNCHANGED saved
    /\ pending' = Forget(reply[u].req)
    /\ UNCHANGED <<sessions, settled, call, replied, chosen>>

\* "always" saves the patterns that the request offered before it grants it.
AddSaved(u) ==
    /\ \/ Move(u, "save", "grant") /\ saved' = saved \union SaveOf[reply[u].req]
       \/ reply[u].at = "save" /\ Fail(u) /\ UNCHANGED saved
    /\ UNCHANGED <<sessions, pending, settled, call, replied, chosen>>

GrantRequest(u) ==
    LET r == reply[u].req
    IN  /\ IF reply[u].answer = "always" /\ SaveOf[r] # {}
              THEN Move(u, "grant", "remember")
              ELSE reply[u].at = "grant" /\ End(u)
        /\ Settle(r, "allowed")
        /\ UNCHANGED <<sessions, saved, call, replied, chosen>>

\* Mutant of ReadRemembered: the pending requests are listed before the loop.
ReadRememberedAndList(u) ==
    /\ reply[u].at = "remember"
    /\ reply' = [reply EXCEPT ![u].at = "granting", ![u].remembered = saved,
                              ![u].visited = Request \ pending]
    /\ UNCHANGED <<sessions, saved, pending, settled, call, replied, chosen>>

\* The saved rules are read once for the whole loop.
ReadRemembered(u) ==
    /\ reply[u].at = "remember"
    /\ reply' = [reply EXCEPT ![u].at = "granting", ![u].remembered = saved]
    /\ UNCHANGED <<sessions, saved, pending, settled, call, replied, chosen>>

\* A request is covered when its agent does not deny it and all rules allow it.
Covered(r, patterns) ==
    LET rules == RulesOf[SessionOf[r]]
    IN  SessionOf[r] \in sessions /\ ~Denied(r, rules) /\ Allowed(r, rules, patterns)

GrantNext(u) ==
    /\ reply[u].at = "granting"
    /\ \/ Unvisited(u) = {} /\ End(u)
       \/ \E r \in Unvisited(u) : Visit(u, r, "check")
    /\ UNCHANGED <<sessions, saved, pending, settled, call, replied, chosen>>

\* The agent's rules are read anew for each item, which may be settled meanwhile.
CheckItem(u) ==
    /\ IF Covered(reply[u].item, reply[u].remembered)
          THEN \/ Move(u, "check", "grantItem") /\ Announce(reply[u].item, "always")
               \/ reply[u].at = "check" /\ Fail(u) /\ UNCHANGED replied
          ELSE Move(u, "check", "granting") /\ UNCHANGED replied
    /\ UNCHANGED <<sessions, saved, pending, settled, call, chosen>>

GrantItem(u) ==
    /\ Move(u, "grantItem", "granting")
    /\ Settle(reply[u].item, "allowed")
    /\ UNCHANGED <<sessions, saved, call, replied, chosen>>

-----------------------------------------------------------------------------
(* A session may be removed, and a saved pattern taken back by its user.   *)

RemoveSession(s) ==
    /\ s \in sessions \intersect Removable
    /\ sessions' = sessions \ {s}
    /\ UNCHANGED <<saved, pending, settled, call, reply, replied, chosen>>

RemoveSaved(p) ==
    /\ p \in saved
    /\ saved' = saved \ {p}
    /\ UNCHANGED <<sessions, pending, settled, call, reply, replied, chosen>>

CallStep(r) == Configured(r) \/ EvaluateInput(r) \/ Create(r) \/ PublishAsked(r) \/ Return(r)

ReplyStep(u) ==
    \/ PublishReplied(u)
    \/ RejectRequest(u) \/ RejectNext(u) \/ RejectItem(u)
    \/ AddSaved(u) \/ GrantRequest(u) \/ ReadRemembered(u)
    \/ GrantNext(u) \/ CheckItem(u) \/ GrantItem(u)

Next ==
    \/ \E r \in Request : CallStep(r) \/ InterruptCall(r)
    \/ \E u \in User : ReplyStep(u)
    \/ \E u \in User, r \in Request, answer \in Reply : StartReply(u, r, answer)
    \/ \E s \in Session : RemoveSession(s)
    \/ \E p \in saved : RemoveSaved(p)

Spec == Init /\ [][Next]_vars

-----------------------------------------------------------------------------
(* Properties. *)

Patterns == UNION {SaveOf[r] : r \in Request}

\* Types of the service's state.
PermTypeOK ==
    /\ sessions \subseteq Session
    /\ saved \subseteq Patterns
    /\ pending \subseteq Request
    /\ settled \in [Request -> {"none", "allowed", "rejected"}]
    /\ call \in [Request -> CallState]
    /\ reply \in [User -> [at : Place, req : Request, answer : Reply, item : Request,
                           visited : SUBSET Request, remembered : SUBSET Patterns]]
    /\ replied \in [Request -> SUBSET Reply]
    /\ chosen \in [Request -> SUBSET Reply]

\* The patterns that some user has chosen to allow for good.
Consented == UNION {SaveOf[r] : r \in {q \in Request : "always" \in chosen[q]}}

\* A tool goes on only if no configured rule denies it and a user said yes to
\* this very request, or the rules and the patterns users consented to allow
\* each of its resources, whatever replies and saved rules crossed it.
GrantWasDue ==
    \A r \in Request :
        call[r] = "allowed" =>
            /\ ~Denied(r, RulesOf[SessionOf[r]])
            /\ \/ chosen[r] \intersect {"once", "always"} # {}
               \/ Allowed(r, RulesOf[SessionOf[r]], Consented)

\* A call that waits and that nothing has settled is still listed as pending,
\* so that a user can answer it, whatever replies touched it and then died.
NobodyIsStuck ==
    \A r \in Request :
        call[r] \in {"created", "asked", "waiting"} /\ settled[r] = "none" => r \in pending

\* What settles a request has been announced by a Replied event before.
OutcomeIsAnnounced ==
    \A r \in Request :
        /\ settled[r] = "allowed" => replied[r] \intersect {"once", "always"} # {}
        /\ settled[r] = "rejected" => "reject" \in replied[r]

\* A rejection that runs to its end leaves no request of the session pending,
\* and an "always" none that the rules it read allow, those created while the
\* loop ran included.
SweepIsComplete ==
    [][\A u \in User :
        reply'[u].at = "idle" =>
            /\ reply[u].at = "rejecting" =>
                  \A r \in pending' : SessionOf[r] # SessionOf[reply[u].req]
            /\ reply[u].at = "granting" =>
                  \A r \in pending' : ~Covered(r, reply[u].remembered)]_vars

\* A reply that is about to settle a request.
CarriesOut(u, r) ==
    \/ reply[u].at \in {"settle", "grant"} /\ reply[u].req = r
    \/ reply[u].at = "rejectItem" /\ reply[u].item = r

\* An answer "once" or "reject" that was announced has settled its request, or
\* a reply is on its way to do so: no failure comes in between.
AnswersAreCarriedOut ==
    \A r \in Request :
        replied[r] \intersect {"once", "reject"} # {} /\ settled[r] = "none" =>
            \E u \in User : CarriesOut(u, r)

-----------------------------------------------------------------------------
(* Why: these formulas are inductive (proved in PermissionService_proofs). *)

Fresh == {"idle", "configured", "evaluated"}
Open == {"created", "asked", "waiting"}

AllowedByConsent(r) == Allowed(r, RulesOf[SessionOf[r]], Consented)
WasGranted(r) == chosen[r] \intersect {"once", "always"} # {} \/ AllowedByConsent(r)

\* A request is pending only after its agent's rules did not deny it, and what
\* settled it was due.
CallInv ==
    /\ saved \subseteq Consented
    /\ \A r \in Request :
        /\ r \in pending => call[r] \notin Fresh
        /\ call[r] \in {"configured", "evaluated", "allowed"} \union Open =>
              ~Denied(r, RulesOf[SessionOf[r]])
        /\ settled[r] = "allowed" \/ call[r] = "allowed" => WasGranted(r)

\* What a reply is about to do was chosen by its user and announced.
ReplyOK(u) ==
    LET x == reply[u]
    IN  /\ x.at \notin {"idle", "failed"} => x.answer \in chosen[x.req]
        /\ x.at = "settle" => x.answer = "reject" /\ "reject" \in replied[x.req]
        /\ x.at \in {"save", "grant"} => x.answer # "reject" /\ x.answer \in replied[x.req]
        /\ x.at = "save" => x.answer = "always"
        /\ x.at = "rejectItem" => "reject" \in replied[x.item]
        /\ x.at = "grantItem" => "always" \in replied[x.item] /\ AllowedByConsent(x.item)
        /\ x.remembered \subseteq Consented

\* What a loop has visited and dealt with is no longer pending, or not covered.
DealtWith(u) ==
    IF reply[u].at \in {"rejectItem", "check", "grantItem"}
    THEN reply[u].visited \ {reply[u].item} ELSE reply[u].visited

SweepOK(u) ==
    LET x == reply[u]
    IN  /\ x.at \in {"announce", "settle", "save", "grant", "remember"} => x.visited = {}
        /\ \A r \in x.visited : call[r] \notin Fresh
        /\ x.at \in {"rejecting", "rejectItem"} => DealtWith(u) \intersect pending = {}
        /\ x.at \in {"granting", "check", "grantItem"} =>
              \A r \in DealtWith(u) \intersect pending : ~Covered(r, x.remembered)

ReplyInv == \A u \in User : ReplyOK(u) /\ SweepOK(u)

\* All of it holds in every reachable state.
PermInv ==
    /\ PermTypeOK /\ CallInv /\ ReplyInv
    /\ NobodyIsStuck /\ OutcomeIsAnnounced /\ AnswersAreCarriedOut
==============================================================================
