------------------------ MODULE PermissionService_proofs ------------------------
(***************************************************************************)
(* Proofs about PermissionService: PermInv is inductive, and with it the   *)
(* safety properties hold for any requests, sessions, rules and users, and *)
(* for any number of answers.                                              *)
(***************************************************************************)
EXTENDS PermissionService, TLAPS

USE RequestAssumption

ReplyRecord == [at : Place, req : Request, answer : Reply, item : Request,
                visited : SUBSET Request, remembered : SUBSET Patterns]

-----------------------------------------------------------------------------
(* What the helpers do to the record of a reply. *)

LEMMA NoReplyType ==
    /\ NoReply \in ReplyRecord
    /\ NoReply.at = "idle" /\ NoReply.visited = {} /\ NoReply.remembered = {}
BY DEF NoReply, ReplyRecord, Place, Reply

LEMMA Moved ==
    ASSUME PermTypeOK, NEW u \in User, NEW from, NEW to \in Place, Move(u, from, to)
    PROVE  /\ reply[u].at = from
           /\ reply' \in [User -> ReplyRecord]
           /\ \A v \in User \ {u} : reply'[v] = reply[v]
           /\ reply'[u].at = to
           /\ reply'[u].req = reply[u].req /\ reply'[u].answer = reply[u].answer
           /\ reply'[u].item = reply[u].item /\ reply'[u].visited = reply[u].visited
           /\ reply'[u].remembered = reply[u].remembered
BY DEF Move, PermTypeOK, ReplyRecord

LEMMA Reset ==
    ASSUME PermTypeOK, NEW u \in User, NEW at \in {"idle", "failed"},
           reply' = [reply EXCEPT ![u] = [NoReply EXCEPT !.at = at]]
    PROVE  /\ reply' \in [User -> ReplyRecord]
           /\ \A v \in User \ {u} : reply'[v] = reply[v]
           /\ reply'[u].at = at /\ reply'[u].visited = {} /\ reply'[u].remembered = {}
<1>1. reply \in [User -> ReplyRecord]
  BY DEF PermTypeOK, ReplyRecord
<1>2. [NoReply EXCEPT !.at = at] \in ReplyRecord
  BY NoReplyType DEF ReplyRecord, Place
<1>3. reply'[u] = [NoReply EXCEPT !.at = at]
  BY <1>1
<1> QED
  BY <1>1, <1>2, <1>3, NoReplyType DEF ReplyRecord

LEMMA Failed ==
    ASSUME PermTypeOK, NEW u \in User, Fail(u)
    PROVE  /\ reply' \in [User -> ReplyRecord]
           /\ \A v \in User \ {u} : reply'[v] = reply[v]
           /\ reply'[u].at = "failed" /\ reply'[u].visited = {} /\ reply'[u].remembered = {}
BY Reset DEF Fail

LEMMA Ended ==
    ASSUME PermTypeOK, NEW u \in User, End(u)
    PROVE  /\ reply' \in [User -> ReplyRecord]
           /\ \A v \in User \ {u} : reply'[v] = reply[v]
           /\ reply'[u].at = "idle" /\ reply'[u].visited = {} /\ reply'[u].remembered = {}
<1>1. NoReply = [NoReply EXCEPT !.at = "idle"]
  BY DEF NoReply
<1> QED
  BY <1>1, Reset DEF End

LEMMA Visited ==
    ASSUME PermTypeOK, NEW u \in User, NEW r \in Request, NEW to \in Place, Visit(u, r, to)
    PROVE  /\ reply' \in [User -> ReplyRecord]
           /\ \A v \in User \ {u} : reply'[v] = reply[v]
           /\ reply'[u].at = to
           /\ reply'[u].req = reply[u].req /\ reply'[u].answer = reply[u].answer
           /\ reply'[u].item = r /\ reply'[u].visited = reply[u].visited \union {r}
           /\ reply'[u].remembered = reply[u].remembered
<1> DEFINE x == [reply[u] EXCEPT !.at = to, !.item = r, !.visited = @ \union {r}]
<1>1. reply \in [User -> ReplyRecord] /\ reply[u] \in ReplyRecord
  BY DEF PermTypeOK, ReplyRecord
<1>2. reply' = [reply EXCEPT ![u] = x]
  BY <1>1 DEF Visit
<1>3. x \in ReplyRecord
  BY <1>1 DEF ReplyRecord
<1>4. /\ x.at = to /\ x.req = reply[u].req /\ x.answer = reply[u].answer /\ x.item = r
      /\ x.visited = reply[u].visited \union {r} /\ x.remembered = reply[u].remembered
  BY <1>1 DEF ReplyRecord
<1> HIDE DEF x
<1> QED
  BY <1>1, <1>2, <1>3, <1>4

LEMMA Begun ==
    ASSUME PermTypeOK, NEW u \in User, NEW r \in Request, NEW answer \in Reply,
           StartReply(u, r, answer)
    PROVE  /\ reply[u].at \in {"idle", "failed"}
           /\ reply' \in [User -> ReplyRecord]
           /\ \A v \in User \ {u} : reply'[v] = reply[v]
           /\ reply'[u].at = "announce" /\ reply'[u].req = r /\ reply'[u].answer = answer
           /\ reply'[u].visited = {} /\ reply'[u].remembered = {}
<1> DEFINE x == [NoReply EXCEPT !.at = "announce", !.req = r, !.item = r, !.answer = answer]
<1>1. reply \in [User -> ReplyRecord]
  BY DEF PermTypeOK, ReplyRecord
<1>2. reply[u].at \in {"idle", "failed"} /\ reply' = [reply EXCEPT ![u] = x]
  BY DEF StartReply
<1>3. x \in ReplyRecord
  BY NoReplyType DEF ReplyRecord, Place
<1>4. /\ x.at = "announce" /\ x.req = r /\ x.answer = answer
      /\ x.visited = {} /\ x.remembered = {}
  BY NoReplyType DEF ReplyRecord
<1> HIDE DEF x
<1> QED
  BY <1>1, <1>2, <1>3, <1>4

LEMMA Remembered ==
    ASSUME PermTypeOK, NEW u \in User, ReadRemembered(u)
    PROVE  /\ reply[u].at = "remember"
           /\ reply' \in [User -> ReplyRecord]
           /\ \A v \in User \ {u} : reply'[v] = reply[v]
           /\ reply'[u].at = "granting"
           /\ reply'[u].req = reply[u].req /\ reply'[u].answer = reply[u].answer
           /\ reply'[u].item = reply[u].item /\ reply'[u].visited = reply[u].visited
           /\ reply'[u].remembered = saved
BY DEF ReadRemembered, PermTypeOK, ReplyRecord, Place

-----------------------------------------------------------------------------
(* What no step takes back. *)

LEMMA Growth ==
    ASSUME PermTypeOK, Next
    PROVE  \A r \in Request :
              /\ chosen[r] \subseteq chosen'[r] /\ replied[r] \subseteq replied'[r]
              /\ settled[r] # "none" => settled'[r] = settled[r]
<1> DEFINE Grown == \A r \in Request :
              /\ chosen[r] \subseteq chosen'[r] /\ replied[r] \subseteq replied'[r]
              /\ settled[r] # "none" => settled'[r] = settled[r]
<1> USE DEF PermTypeOK
<1>1. ASSUME NEW r \in Request, CallStep(r) \/ InterruptCall(r) PROVE Grown
  BY <1>1 DEF CallStep, Configured, EvaluateInput, Create, PublishAsked, Return, InterruptCall, EndOfWait
<1>2. ASSUME NEW u \in User, NEW r \in Request, NEW answer \in Reply, StartReply(u, r, answer)
      PROVE  Grown
  <2>1. chosen' = [chosen EXCEPT ![r] = @ \union {answer}] /\ UNCHANGED <<replied, settled>>
    BY <1>2 DEF StartReply
  <2> QED
    BY <2>1
<1>3. ASSUME NEW u \in User, ReplyStep(u) PROVE Grown
  <2>1. UNCHANGED chosen
    BY <1>3 DEF ReplyStep, PublishReplied, RejectRequest, RejectNext, RejectItem, AddSaved,
       GrantRequest, ReadRemembered, GrantNext, CheckItem, GrantItem
  <2>2. \/ UNCHANGED replied
        \/ \E r \in Request, answer \in Reply : Announce(r, answer)
    <3>1. reply[u].req \in Request /\ reply[u].item \in Request /\ reply[u].answer \in Reply
      OBVIOUS
    <3> QED
      BY <1>3, <3>1 DEF ReplyStep, PublishReplied, RejectRequest, RejectNext, RejectItem, AddSaved,
         GrantRequest, ReadRemembered, GrantNext, CheckItem, GrantItem, Unvisited,
         UnvisitedOfSession, Reply
  <2>3. \/ UNCHANGED settled
        \/ \E r \in Request, outcome \in Outcome : Settle(r, outcome)
    <3>1. reply[u].req \in Request /\ reply[u].item \in Request
      OBVIOUS
    <3> QED
      BY <1>3, <3>1 DEF ReplyStep, PublishReplied, RejectRequest, RejectNext, RejectItem, AddSaved,
         GrantRequest, ReadRemembered, GrantNext, CheckItem, GrantItem, Outcome
  <2>4. \A r \in Request : replied[r] \subseteq replied'[r]
    BY <2>2 DEF Announce
  <2>5. \A r \in Request : settled[r] # "none" => settled'[r] = settled[r]
    BY <2>3 DEF Settle
  <2> QED
    BY <2>1, <2>4, <2>5
<1>4. ASSUME NEW s, RemoveSession(s) \/ RemoveSaved(s) PROVE Grown
  BY <1>4 DEF RemoveSession, RemoveSaved
<1> QED
  BY <1>1, <1>2, <1>3, <1>4 DEF Next

\* More patterns allow no less.
LEMMA AllowedIsMonotone ==
    ASSUME NEW r \in Request, NEW rules, NEW P, NEW Q, P \subseteq Q, Allowed(r, rules, P)
    PROVE  Allowed(r, rules, Q)
BY DEF Allowed, EvaluateAll

\* Consent is not taken back, and what was due stays so.
LEMMA ConsentGrows ==
    ASSUME PermTypeOK, Next
    PROVE  Consented \subseteq Consented'
BY Growth DEF Consented

LEMMA GrantsStay ==
    ASSUME PermTypeOK, Next, NEW r \in Request, WasGranted(r)
    PROVE  WasGranted(r)'
<1>1. CASE AllowedByConsent(r)
  BY <1>1, ConsentGrows, AllowedIsMonotone DEF WasGranted, AllowedByConsent
<1>2. CASE chosen[r] \intersect {"once", "always"} # {}
  BY <1>2, Growth DEF WasGranted
<1> QED
  BY <1>1, <1>2 DEF WasGranted

\* Sessions only go, and with them what is covered.
LEMMA CoverageShrinks ==
    ASSUME Next, NEW r, NEW patterns, ~Covered(r, patterns)
    PROVE  ~Covered(r, patterns)'
<1>1. sessions' \subseteq sessions
  BY DEF Next, CallStep, Configured, EvaluateInput, Create, PublishAsked, Return, InterruptCall,
     EndOfWait, StartReply, ReplyStep, PublishReplied, RejectRequest, RejectNext, RejectItem,
     AddSaved, GrantRequest, ReadRemembered, GrantNext, CheckItem, GrantItem, RemoveSession, RemoveSaved
<1> QED
  BY <1>1 DEF Covered

-----------------------------------------------------------------------------
(* The parts of the invariant hold at the start. *)

LEMMA PermStart == Init => PermInv
<1> SUFFICES ASSUME Init PROVE PermInv
  OBVIOUS
<1> USE DEF Init
<1>1. PermTypeOK
  BY NoReplyType DEF PermTypeOK, ReplyRecord, CallState
<1>2. CallInv
  BY DEF CallInv, Fresh, Open
<1>3. ReplyInv
  BY NoReplyType DEF ReplyInv, ReplyOK, SweepOK, DealtWith
<1>4. NobodyIsStuck /\ OutcomeIsAnnounced /\ AnswersAreCarriedOut
  BY DEF NobodyIsStuck, OutcomeIsAnnounced, AnswersAreCarriedOut
<1> QED
  BY <1>1, <1>2, <1>3, <1>4 DEF PermInv

-----------------------------------------------------------------------------
(* A call keeps the invariant: it changes its own place and the map only. *)

LEMMA CallKeeps ==
    ASSUME PermInv, NEW r \in Request, CallStep(r) \/ InterruptCall(r)
    PROVE  PermInv'
<1>t. PermTypeOK
  BY DEF PermInv
<1>1. UNCHANGED <<sessions, saved, settled, reply, replied, chosen>>
  BY DEF CallStep, Configured, EvaluateInput, Create, PublishAsked, Return, InterruptCall, EndOfWait
<1>2. \/ Configured(r) \/ EvaluateInput(r) \/ Create(r) \/ PublishAsked(r)
      \/ Return(r) \/ InterruptCall(r)
  BY DEF CallStep
<1>3. \E to \in CallState : call' = [call EXCEPT ![r] = to]
  <2>1. settled[r] \in {"none", "allowed", "rejected"}
    BY <1>t DEF PermTypeOK
  <2> QED
    BY <1>2, <2>1 DEF Configured, EvaluateInput, Create, PublishAsked, Return, InterruptCall,
       EndOfWait, Come, CallState, Outcome
<1>4. /\ call' \in [Request -> CallState]
      /\ \A q \in Request \ {r} : call'[q] = call[q]
  BY <1>t, <1>3 DEF PermTypeOK
<1>5. \/ pending' = pending
      \/ pending' = pending \union {r} /\ call[r] = "evaluated"
      \/ pending' = pending \ {r}
  BY <1>2 DEF Configured, EvaluateInput, Create, PublishAsked, Return, InterruptCall,
     EndOfWait, Come, Forget
<1>6. PermTypeOK'
  BY <1>t, <1>1, <1>4, <1>5 DEF PermTypeOK
<1>7. Consented' = Consented
  BY <1>1 DEF Consented
<1>8. CallInv'
  <2>1. \A q \in Request : WasGranted(q)' <=> WasGranted(q)
    BY <1>1, <1>7 DEF WasGranted, AllowedByConsent
  <2>2. \A q \in Request \ {r} :
           /\ q \in pending' => call'[q] \notin Fresh
           /\ call'[q] \in {"configured", "evaluated", "allowed"} \union Open =>
                 ~Denied(q, RulesOf[SessionOf[q]])
           /\ settled'[q] = "allowed" \/ call'[q] = "allowed" => WasGranted(q)
    BY <1>1, <1>4, <1>5 DEF PermInv, CallInv
  <2>3. settled[r] = "allowed" => WasGranted(r)
    BY DEF PermInv, CallInv
  <2>4. r \in pending' => call'[r] \notin Fresh
    BY <1>t, <1>2 DEF PermInv, CallInv, Configured, EvaluateInput, Create, PublishAsked, Return,
       InterruptCall, EndOfWait, Come, Forget, Fresh, PermTypeOK
  <2>5. call'[r] \in {"configured", "evaluated", "allowed"} \union Open =>
           ~Denied(r, RulesOf[SessionOf[r]])
    BY <1>t, <1>2 DEF PermInv, CallInv, Configured, EvaluateInput, Create, PublishAsked, Return,
       InterruptCall, EndOfWait, Come, Open, PermTypeOK
  <2>6. call'[r] = "allowed" => WasGranted(r)
    <3>1. CASE EvaluateInput(r) /\ EffectOf(r, saved) = "allow"
      <4>1. Allowed(r, RulesOf[SessionOf[r]], saved)
        BY <3>1 DEF EffectOf
      <4>2. saved \subseteq Consented
        BY DEF PermInv, CallInv
      <4> QED
        BY <4>1, <4>2, AllowedIsMonotone DEF WasGranted, AllowedByConsent
    <3>2. CASE EvaluateInput(r) /\ EffectOf(r, saved) # "allow"
      BY <1>t, <3>2 DEF EvaluateInput, Come, PermTypeOK
    <3>3. CASE ~EvaluateInput(r)
      BY <1>t, <1>2, <2>3, <3>3 DEF Configured, Create, PublishAsked, Return,
         InterruptCall, EndOfWait, Come, PermTypeOK
    <3> QED
      BY <3>1, <3>2, <3>3
  <2> QED
    BY <1>1, <1>7, <2>1, <2>2, <2>3, <2>4, <2>5, <2>6 DEF PermInv, CallInv
<1>9. ASSUME NEW u \in User PROVE ReplyOK(u)'
  BY <1>1, <1>7 DEF PermInv, ReplyInv, ReplyOK, AllowedByConsent
<1>10. ASSUME NEW u \in User PROVE SweepOK(u)'
  <2>1. \A q, patterns : Covered(q, patterns)' <=> Covered(q, patterns)
    BY <1>1 DEF Covered
  <2>2. \A q \in Request : call[q] \notin Fresh => call'[q] \notin Fresh
    BY <1>t, <1>2, <1>4 DEF Configured, EvaluateInput, Create, PublishAsked, Return,
       InterruptCall, EndOfWait, Come, Fresh, PermTypeOK, Outcome
  <2>3. \A q \in Request : call[q] \notin Fresh /\ q \in pending' => q \in pending
    BY <1>5 DEF Fresh
  <2>4. reply[u].visited \subseteq Request
    BY <1>t DEF PermTypeOK
  <2> QED
    BY <1>1, <2>1, <2>2, <2>3, <2>4 DEF PermInv, ReplyInv, SweepOK, DealtWith, Covered
<1>11. NobodyIsStuck'
  BY <1>t, <1>1, <1>2, <1>4, <1>5 DEF PermInv, NobodyIsStuck, Configured, EvaluateInput, Create,
     PublishAsked, Return, InterruptCall, EndOfWait, Come, Forget, PermTypeOK, Outcome
<1>12. OutcomeIsAnnounced' /\ AnswersAreCarriedOut'
  BY <1>1 DEF PermInv, OutcomeIsAnnounced, AnswersAreCarriedOut, CarriesOut
<1> QED
  BY <1>6, <1>8, <1>9, <1>10, <1>11, <1>12 DEF PermInv, ReplyInv

-----------------------------------------------------------------------------
(* A step of a reply keeps the invariant if it changes only its own record *)
(* and that soundly, settles only what is due, and lets go of no request   *)
(* that it is to settle.                                                   *)

OneReply(u) ==
    /\ UNCHANGED <<sessions, call>>
    /\ \A v \in User \ {u} : reply'[v] = reply[v]
    /\ ReplyOK(u)' /\ SweepOK(u)'

Typed ==
    /\ reply' \in [User -> ReplyRecord]
    /\ saved' \subseteq Patterns \intersect Consented'
    /\ chosen' \in [Request -> SUBSET Reply]

SettlesWhatIsDue ==
    \/ UNCHANGED <<settled, pending>>
    \/ \E r \in Request :
          \/ Settle(r, "allowed") /\ WasGranted(r) /\ replied[r] \intersect {"once", "always"} # {}
          \/ Settle(r, "rejected") /\ "reject" \in replied[r]

AnnouncesWhatItDoes(u) ==
    \/ UNCHANGED replied
    \/ \E r \in Request, answer \in Reply :
          Announce(r, answer) /\ (answer # "always" => CarriesOut(u, r)')

KeepsCarrying(u) ==
    \A r \in Request : CarriesOut(u, r) => CarriesOut(u, r)' \/ settled'[r] # "none"

LEMMA ReplyKeeps ==
    ASSUME PermInv, Next, NEW u \in User, OneReply(u), Typed, SettlesWhatIsDue,
           AnnouncesWhatItDoes(u), KeepsCarrying(u)
    PROVE  PermInv'
<1>t. PermTypeOK
  BY DEF PermInv
<1>1. pending' \subseteq pending
  BY DEF SettlesWhatIsDue, Settle, Forget
<1>2. \A r \in Request :
        \/ settled'[r] = settled[r]
        \/ settled'[r] = "allowed" /\ WasGranted(r) /\ replied[r] \intersect {"once", "always"} # {}
        \/ settled'[r] = "rejected" /\ "reject" \in replied[r]
  BY <1>t DEF SettlesWhatIsDue, Settle, PermTypeOK
<1>3. \A r \in Request : r \in pending /\ r \notin pending' => settled'[r] # "none"
  BY <1>t DEF SettlesWhatIsDue, Settle, Forget, PermTypeOK
<1>4. PermTypeOK'
  <2>1. settled' \in [Request -> {"none", "allowed", "rejected"}]
    BY <1>t DEF SettlesWhatIsDue, Settle, PermTypeOK
  <2>2. replied' \in [Request -> SUBSET Reply]
    BY <1>t DEF AnnouncesWhatItDoes, Announce, PermTypeOK
  <2> QED
    BY <1>t, <1>1, <2>1, <2>2 DEF OneReply, Typed, PermTypeOK, ReplyRecord
<1>5. CallInv'
  <2>1. saved' \subseteq Consented'
    BY DEF Typed
  <2>2. ASSUME NEW r \in Request, WasGranted(r) PROVE WasGranted(r)'
    BY <1>t, <2>2, GrantsStay
  <2>3. \A r \in Request : r \in pending' => call'[r] \notin Fresh
    BY <1>1 DEF OneReply, PermInv, CallInv
  <2>4. \A r \in Request : settled'[r] = "allowed" \/ call'[r] = "allowed" => WasGranted(r)
    BY <1>2 DEF OneReply, PermInv, CallInv
  <2> QED
    BY <2>1, <2>2, <2>3, <2>4 DEF OneReply, PermInv, CallInv
<1>6. ASSUME NEW v \in User PROVE ReplyOK(v)' /\ SweepOK(v)'
  <2>1. CASE v = u
    BY <2>1 DEF OneReply
  <2>2. CASE v # u
    <3>1. reply'[v] = reply[v] /\ ReplyOK(v) /\ SweepOK(v) /\ reply[v] \in ReplyRecord
      BY <1>t, <2>2 DEF OneReply, PermInv, ReplyInv, PermTypeOK, ReplyRecord
    <3>2. ReplyOK(v)'
      <4>1. \A r \in Request : chosen[r] \subseteq chosen'[r] /\ replied[r] \subseteq replied'[r]
        BY <1>t, Growth
      <4>2. Consented \subseteq Consented'
        BY <1>t, ConsentGrows
      <4>3. AllowedByConsent(reply[v].item) => Allowed(reply[v].item, RulesOf[SessionOf[reply[v].item]], Consented')
        BY <3>1, <4>2, AllowedIsMonotone DEF AllowedByConsent, ReplyRecord
      <4> QED
        BY <3>1, <4>1, <4>2, <4>3 DEF ReplyOK, AllowedByConsent, ReplyRecord
    <3>3. SweepOK(v)'
      BY <1>1, <3>1 DEF SweepOK, DealtWith, OneReply, Covered
    <3> QED
      BY <3>2, <3>3
  <2> QED
    BY <2>1, <2>2
<1>7. NobodyIsStuck'
  BY <1>2, <1>3 DEF OneReply, PermInv, NobodyIsStuck
<1>8. OutcomeIsAnnounced'
  <2>1. \A r \in Request : replied[r] \subseteq replied'[r]
    BY <1>t, Growth
  <2> QED
    BY <1>2, <2>1 DEF PermInv, OutcomeIsAnnounced
<1>9. AnswersAreCarriedOut'
  <2> SUFFICES ASSUME NEW r \in Request, replied'[r] \intersect {"once", "reject"} # {},
                      settled'[r] = "none"
               PROVE  \E v \in User : CarriesOut(v, r)'
    BY DEF AnswersAreCarriedOut
  <2>1. settled[r] = "none"
    BY <1>t, Growth
  <2>2. CASE replied[r] \intersect {"once", "reject"} # {}
    <3>1. PICK v \in User : CarriesOut(v, r)
      BY <2>1, <2>2 DEF PermInv, AnswersAreCarriedOut
    <3>2. CASE v = u
      BY <3>1, <3>2 DEF KeepsCarrying
    <3>3. CASE v # u
      BY <3>1, <3>3 DEF OneReply, CarriesOut
    <3> QED
      BY <3>2, <3>3
  <2>3. CASE replied[r] \intersect {"once", "reject"} = {}
    <3>1. PICK q \in Request, answer \in Reply :
            Announce(q, answer) /\ (answer # "always" => CarriesOut(u, q)')
      BY <2>3 DEF AnnouncesWhatItDoes
    <3>2. q = r /\ answer # "always"
      BY <1>t, <2>3, <3>1 DEF Announce, PermTypeOK
    <3> QED
      BY <3>1, <3>2
  <2> QED
    BY <2>2, <2>3
<1> QED
  BY <1>4, <1>5, <1>6, <1>7, <1>8, <1>9 DEF PermInv, ReplyInv

-----------------------------------------------------------------------------
(* The steps of a reply. *)

LEMMA StartKeeps ==
    ASSUME PermInv, Next, NEW u \in User, NEW r \in Request, NEW answer \in Reply,
           StartReply(u, r, answer)
    PROVE  PermInv'
<1>t. PermTypeOK
  BY DEF PermInv
<1>1. UNCHANGED <<sessions, saved, pending, settled, call, replied>>
  BY DEF StartReply
<1>2. /\ chosen' \in [Request -> SUBSET Reply]
      /\ answer \in chosen'[r]
  BY <1>t DEF StartReply, PermTypeOK
<1>3. OneReply(u)
  <2>1. ReplyOK(u)'
    BY <1>t, <1>2, Begun DEF ReplyOK
  <2>2. SweepOK(u)'
    BY <1>t, Begun DEF SweepOK
  <2> QED
    BY <1>t, <1>1, <2>1, <2>2, Begun DEF OneReply
<1>4. Typed
  BY <1>t, <1>1, <1>2, Begun, ConsentGrows DEF Typed, PermInv, CallInv, PermTypeOK
<1>5. KeepsCarrying(u)
  BY <1>t, Begun DEF KeepsCarrying, CarriesOut
<1> QED
  BY <1>1, <1>3, <1>4, <1>5, ReplyKeeps DEF SettlesWhatIsDue, AnnouncesWhatItDoes

\* A reply dies only where it has nothing announced left to do.
LEMMA FailKeeps ==
    ASSUME PermInv, Next, NEW u \in User, Fail(u),
           reply[u].at \in {"announce", "save", "rejecting", "check"},
           UNCHANGED <<sessions, saved, pending, settled, call, replied, chosen>>
    PROVE  PermInv'
<1>t. PermTypeOK
  BY DEF PermInv
<1>1. OneReply(u)
  BY <1>t, Failed DEF OneReply, ReplyOK, SweepOK
<1>2. Typed
  BY <1>t, Failed, ConsentGrows DEF Typed, PermInv, CallInv, PermTypeOK
<1>3. KeepsCarrying(u)
  BY DEF KeepsCarrying, CarriesOut
<1> QED
  BY <1>1, <1>2, <1>3, ReplyKeeps DEF SettlesWhatIsDue, AnnouncesWhatItDoes

LEMMA EndKeeps ==
    ASSUME PermInv, Next, NEW u \in User, End(u),
           reply[u].at \in {"rejecting", "granting"},
           UNCHANGED <<sessions, saved, pending, settled, call, replied, chosen>>
    PROVE  PermInv'
<1>t. PermTypeOK
  BY DEF PermInv
<1>1. OneReply(u)
  BY <1>t, Ended DEF OneReply, ReplyOK, SweepOK
<1>2. Typed
  BY <1>t, Ended, ConsentGrows DEF Typed, PermInv, CallInv, PermTypeOK
<1>3. KeepsCarrying(u)
  BY DEF KeepsCarrying, CarriesOut
<1> QED
  BY <1>1, <1>2, <1>3, ReplyKeeps DEF SettlesWhatIsDue, AnnouncesWhatItDoes

LEMMA PublishKeeps ==
    ASSUME PermInv, Next, NEW u \in User, PublishReplied(u)
    PROVE  PermInv'
<1> DEFINE r == reply[u].req
           answer == reply[u].answer
<1>t. PermTypeOK /\ r \in Request /\ answer \in Reply
  BY DEF PermInv, PermTypeOK
<1>1. UNCHANGED <<sessions, saved, pending, settled, call, chosen>>
  BY DEF PublishReplied
<1>2. CASE reply[u].at = "announce" /\ Fail(u) /\ UNCHANGED replied
  BY <1>1, <1>2, FailKeeps
<1>3. CASE Announce(r, answer) /\ \E to \in {"settle", "save", "grant"} :
              /\ Move(u, "announce", to)
              /\ to = "settle" <=> answer = "reject"
              /\ to = "save" => answer = "always"
  <2>1. PICK to \in {"settle", "save", "grant"} :
              /\ Move(u, "announce", to)
              /\ to = "settle" <=> answer = "reject"
              /\ to = "save" => answer = "always"
    BY <1>3
  <2>2. to \in Place
    BY DEF Place
  <2>3. answer \in replied'[r] /\ answer \in chosen'[r]
    BY <1>t, <1>1, <1>3, <2>1 DEF Announce, Move, PermInv, ReplyInv, ReplyOK, PermTypeOK
  <2>m. /\ reply[u].at = "announce" /\ reply'[u].at = to
        /\ reply'[u].req = r /\ reply'[u].answer = answer
        /\ reply'[u].visited = reply[u].visited /\ reply'[u].remembered = reply[u].remembered
        /\ reply' \in [User -> ReplyRecord]
        /\ \A v \in User \ {u} : reply'[v] = reply[v]
    BY <1>t, <2>1, <2>2, Moved
  <2>4. ReplyOK(u)'
    <3>1. reply[u].remembered \subseteq Consented'
      BY <1>t, ConsentGrows DEF PermInv, ReplyInv, ReplyOK
    <3> QED
      BY <2>1, <2>3, <2>m, <3>1 DEF ReplyOK
  <2>5. SweepOK(u)'
    BY <1>1, <2>m DEF PermInv, ReplyInv, SweepOK
  <2>6. OneReply(u) /\ Typed
    BY <1>t, <1>1, <2>4, <2>5, <2>m, ConsentGrows DEF OneReply, Typed, PermInv, CallInv, PermTypeOK
  <2>7. ASSUME NEW q \in Request, q = r, answer # "always" PROVE CarriesOut(u, q)'
    BY <1>t, <2>1, <2>7, <2>m DEF CarriesOut
  <2>8. KeepsCarrying(u)
    BY <2>m DEF KeepsCarrying, CarriesOut
  <2>9. SettlesWhatIsDue
    BY <1>1 DEF SettlesWhatIsDue
  <2>10. AnnouncesWhatItDoes(u)
    <3>1. PICK q \in Request, a \in Reply : q = r /\ a = answer
      BY <1>t
    <3>2. Announce(q, a) /\ (a # "always" => CarriesOut(u, q)')
      BY <1>3, <2>7, <3>1
    <3> QED
      BY <3>2 DEF AnnouncesWhatItDoes
  <2> QED
    BY <2>6, <2>8, <2>9, <2>10, ReplyKeeps
<1> QED
  BY <1>t, <1>2, <1>3 DEF PublishReplied, Reply

\* A settling step: the request it settles leaves the map.
LEMMA RejectRequestKeeps ==
    ASSUME PermInv, Next, NEW u \in User, RejectRequest(u)
    PROVE  PermInv'
<1>t. PermTypeOK
  BY DEF PermInv
<1>1. PICK q \in Request : q = reply[u].req
  BY <1>t DEF PermTypeOK
<1>2. UNCHANGED <<sessions, saved, call, replied, chosen>> /\ Settle(q, "rejected")
  BY <1>1 DEF RejectRequest
<1>3. /\ reply[u].at = "settle" /\ reply'[u].at = "rejecting"
      /\ reply'[u].req = q /\ reply'[u].answer = reply[u].answer
      /\ reply'[u].visited = reply[u].visited /\ reply'[u].remembered = reply[u].remembered
      /\ reply' \in [User -> ReplyRecord]
      /\ \A v \in User \ {u} : reply'[v] = reply[v]
  BY <1>t, <1>1, Moved DEF RejectRequest, Place
<1>4. ReplyOK(u)'
  BY <1>1, <1>2, <1>3 DEF PermInv, ReplyInv, ReplyOK, Consented
<1>5. SweepOK(u)'
  BY <1>3 DEF PermInv, ReplyInv, SweepOK, DealtWith
<1>6. OneReply(u) /\ Typed
  BY <1>t, <1>2, <1>3, <1>4, <1>5, ConsentGrows DEF OneReply, Typed, PermInv, CallInv, PermTypeOK
<1>7. KeepsCarrying(u)
  BY <1>t, <1>1, <1>2, <1>3 DEF KeepsCarrying, CarriesOut, Settle, PermTypeOK
<1>8. SettlesWhatIsDue
  BY <1>1, <1>2, <1>3 DEF SettlesWhatIsDue, PermInv, ReplyInv, ReplyOK
<1> QED
  BY <1>2, <1>6, <1>7, <1>8, ReplyKeeps DEF AnnouncesWhatItDoes

LEMMA RejectNextKeeps ==
    ASSUME PermInv, Next, NEW u \in User, RejectNext(u)
    PROVE  PermInv'
<1>t. PermTypeOK
  BY DEF PermInv
<1>1. UNCHANGED <<sessions, saved, pending, settled, call, chosen>> /\ reply[u].at = "rejecting"
  BY DEF RejectNext
<1>2. CASE (End(u) \/ Fail(u)) /\ UNCHANGED replied
  BY <1>1, <1>2, EndKeeps, FailKeeps
<1>3. ASSUME NEW r \in UnvisitedOfSession(u), Visit(u, r, "rejectItem"), Announce(r, "reject")
      PROVE  PermInv'
  <2>1. r \in Request /\ r \in pending
    BY <1>t DEF UnvisitedOfSession, Unvisited, PermTypeOK
  <2>2. /\ reply'[u].at = "rejectItem" /\ reply'[u].item = r
        /\ reply'[u].req = reply[u].req /\ reply'[u].answer = reply[u].answer
        /\ reply'[u].visited = reply[u].visited \union {r}
        /\ reply'[u].remembered = reply[u].remembered
        /\ reply' \in [User -> ReplyRecord]
        /\ \A v \in User \ {u} : reply'[v] = reply[v]
    BY <1>t, <1>3, <2>1, Visited DEF Place
  <2>3. "reject" \in replied'[r]
    BY <1>t, <1>3, <2>1 DEF Announce, PermTypeOK
  <2>4. ReplyOK(u)'
    BY <1>1, <2>2, <2>3 DEF PermInv, ReplyInv, ReplyOK, Consented
  <2>5. SweepOK(u)'
    BY <1>1, <2>1, <2>2 DEF PermInv, CallInv, ReplyInv, SweepOK, DealtWith
  <2>6. OneReply(u) /\ Typed
    BY <1>t, <1>1, <2>2, <2>4, <2>5, ConsentGrows DEF OneReply, Typed, PermInv, CallInv, PermTypeOK
  <2>7. CarriesOut(u, r)'
    BY <2>2 DEF CarriesOut
  <2>8. KeepsCarrying(u)
    BY <1>1 DEF KeepsCarrying, CarriesOut
  <2> QED
    BY <1>1, <1>3, <2>1, <2>6, <2>7, <2>8, ReplyKeeps DEF SettlesWhatIsDue, AnnouncesWhatItDoes, Reply
<1> QED
  BY <1>2, <1>3 DEF RejectNext

LEMMA RejectItemKeeps ==
    ASSUME PermInv, Next, NEW u \in User, RejectItem(u)
    PROVE  PermInv'
<1>t. PermTypeOK
  BY DEF PermInv
<1>1. PICK q \in Request : q = reply[u].item
  BY <1>t DEF PermTypeOK
<1>2. UNCHANGED <<sessions, saved, call, replied, chosen>> /\ Settle(q, "rejected")
  BY <1>1 DEF RejectItem
<1>3. /\ reply[u].at = "rejectItem" /\ reply'[u].at = "rejecting"
      /\ reply'[u].req = reply[u].req /\ reply'[u].answer = reply[u].answer
      /\ reply'[u].visited = reply[u].visited /\ reply'[u].remembered = reply[u].remembered
      /\ reply' \in [User -> ReplyRecord]
      /\ \A v \in User \ {u} : reply'[v] = reply[v]
  BY <1>t, Moved DEF RejectItem, Place
<1>4. ReplyOK(u)'
  BY <1>2, <1>3 DEF PermInv, ReplyInv, ReplyOK, Consented
<1>5. SweepOK(u)'
  <2>1. pending' = pending \ {q}
    BY <1>2 DEF Settle, Forget
  <2> QED
    BY <1>1, <1>2, <1>3, <2>1 DEF PermInv, ReplyInv, SweepOK, DealtWith
<1>6. OneReply(u) /\ Typed
  BY <1>t, <1>2, <1>3, <1>4, <1>5, ConsentGrows DEF OneReply, Typed, PermInv, CallInv, PermTypeOK
<1>7. KeepsCarrying(u)
  BY <1>t, <1>1, <1>2, <1>3 DEF KeepsCarrying, CarriesOut, Settle, PermTypeOK
<1>8. SettlesWhatIsDue
  BY <1>1, <1>2, <1>3 DEF SettlesWhatIsDue, PermInv, ReplyInv, ReplyOK
<1> QED
  BY <1>2, <1>6, <1>7, <1>8, ReplyKeeps DEF AnnouncesWhatItDoes

LEMMA AddSavedKeeps ==
    ASSUME PermInv, Next, NEW u \in User, AddSaved(u)
    PROVE  PermInv'
<1>t. PermTypeOK
  BY DEF PermInv
<1>1. UNCHANGED <<sessions, pending, settled, call, replied, chosen>>
  BY DEF AddSaved
<1>2. CASE reply[u].at = "save" /\ Fail(u) /\ UNCHANGED saved
  BY <1>1, <1>2, FailKeeps
<1>3. CASE Move(u, "save", "grant") /\ saved' = saved \union SaveOf[reply[u].req]
  <2>1. PICK q \in Request : q = reply[u].req
    BY <1>t DEF PermTypeOK
  <2>2. /\ reply[u].at = "save" /\ reply'[u].at = "grant"
        /\ reply'[u].req = q /\ reply'[u].answer = reply[u].answer
        /\ reply'[u].visited = reply[u].visited /\ reply'[u].remembered = reply[u].remembered
        /\ reply' \in [User -> ReplyRecord]
        /\ \A v \in User \ {u} : reply'[v] = reply[v]
    BY <1>t, <1>3, <2>1, Moved DEF Place
  <2>3. reply[u].answer = "always" /\ "always" \in chosen[q]
    BY <2>1, <2>2 DEF PermInv, ReplyInv, ReplyOK
  <2>4. SaveOf[q] \subseteq Patterns \intersect Consented'
    BY <1>1, <2>3 DEF Patterns, Consented
  <2>5. saved' \subseteq Patterns \intersect Consented'
    <3>1. saved \subseteq Patterns /\ saved \subseteq Consented
      BY <1>t DEF PermTypeOK, PermInv, CallInv
    <3> QED
      BY <1>t, <1>3, <2>1, <2>4, <3>1, ConsentGrows
  <2>6. ReplyOK(u)'
    BY <1>1, <2>1, <2>2, <2>3 DEF PermInv, ReplyInv, ReplyOK, Consented
  <2>7. SweepOK(u)'
    BY <1>1, <2>2 DEF PermInv, ReplyInv, SweepOK
  <2>8. OneReply(u) /\ Typed
    BY <1>t, <1>1, <2>2, <2>5, <2>6, <2>7 DEF OneReply, Typed, PermTypeOK
  <2>9. KeepsCarrying(u)
    BY <2>2 DEF KeepsCarrying, CarriesOut
  <2> QED
    BY <1>1, <2>8, <2>9, ReplyKeeps DEF SettlesWhatIsDue, AnnouncesWhatItDoes
<1> QED
  BY <1>2, <1>3 DEF AddSaved

LEMMA GrantRequestKeeps ==
    ASSUME PermInv, Next, NEW u \in User, GrantRequest(u)
    PROVE  PermInv'
<1>t. PermTypeOK
  BY DEF PermInv
<1>1. PICK q \in Request : q = reply[u].req
  BY <1>t DEF PermTypeOK
<1>2. UNCHANGED <<sessions, saved, call, replied, chosen>> /\ Settle(q, "allowed")
  BY <1>1 DEF GrantRequest
<1>3. /\ reply[u].at = "grant" /\ reply'[u].at \in {"remember", "idle"}
      /\ reply'[u].at # "idle" => reply'[u].req = q /\ reply'[u].answer = reply[u].answer
      /\ reply'[u].visited \subseteq reply[u].visited
      /\ reply'[u].remembered \subseteq reply[u].remembered
      /\ reply' \in [User -> ReplyRecord]
      /\ \A v \in User \ {u} : reply'[v] = reply[v]
  <2>1. CASE Move(u, "grant", "remember")
    BY <1>t, <1>1, <2>1, Moved DEF Place
  <2>2. CASE reply[u].at = "grant" /\ End(u)
    BY <1>t, <2>2, Ended
  <2> QED
    BY <2>1, <2>2 DEF GrantRequest
<1>4. ReplyOK(u)'
  BY <1>1, <1>2, <1>3 DEF PermInv, ReplyInv, ReplyOK, Consented
<1>5. SweepOK(u)'
  BY <1>2, <1>3 DEF PermInv, ReplyInv, SweepOK
<1>6. OneReply(u) /\ Typed
  BY <1>t, <1>2, <1>3, <1>4, <1>5, ConsentGrows DEF OneReply, Typed, PermInv, CallInv, PermTypeOK
<1>7. KeepsCarrying(u)
  BY <1>t, <1>1, <1>2, <1>3 DEF KeepsCarrying, CarriesOut, Settle, PermTypeOK
<1>8. SettlesWhatIsDue
  <2>1. reply[u].answer \in {"once", "always"} /\ reply[u].answer \in replied[q]
        /\ reply[u].answer \in chosen[q]
    BY <1>t, <1>1, <1>3 DEF PermInv, ReplyInv, ReplyOK, PermTypeOK, Reply
  <2> QED
    BY <1>2, <2>1 DEF SettlesWhatIsDue, WasGranted
<1> QED
  BY <1>2, <1>6, <1>7, <1>8, ReplyKeeps DEF AnnouncesWhatItDoes

LEMMA ReadRememberedKeeps ==
    ASSUME PermInv, Next, NEW u \in User, ReadRemembered(u)
    PROVE  PermInv'
<1>t. PermTypeOK
  BY DEF PermInv
<1>1. UNCHANGED <<sessions, saved, pending, settled, call, replied, chosen>>
  BY DEF ReadRemembered
<1>2. ReplyOK(u)'
  BY <1>t, <1>1, Remembered DEF PermInv, CallInv, ReplyInv, ReplyOK, Consented
<1>3. SweepOK(u)'
  BY <1>t, <1>1, Remembered DEF PermInv, ReplyInv, SweepOK, DealtWith
<1>4. OneReply(u) /\ Typed
  BY <1>t, <1>1, <1>2, <1>3, Remembered, ConsentGrows DEF OneReply, Typed, PermInv, CallInv, PermTypeOK
<1>5. KeepsCarrying(u)
  BY <1>t, Remembered DEF KeepsCarrying, CarriesOut
<1> QED
  BY <1>1, <1>4, <1>5, ReplyKeeps DEF SettlesWhatIsDue, AnnouncesWhatItDoes

LEMMA GrantNextKeeps ==
    ASSUME PermInv, Next, NEW u \in User, GrantNext(u)
    PROVE  PermInv'
<1>t. PermTypeOK
  BY DEF PermInv
<1>1. /\ UNCHANGED <<sessions, saved, pending, settled, call, replied, chosen>>
      /\ reply[u].at = "granting"
  BY DEF GrantNext
<1>2. CASE End(u)
  BY <1>1, <1>2, EndKeeps
<1>3. ASSUME NEW r \in Unvisited(u), Visit(u, r, "check")
      PROVE  PermInv'
  <2>1. r \in Request /\ r \in pending
    BY <1>t DEF Unvisited, PermTypeOK
  <2>2. /\ reply'[u].at = "check" /\ reply'[u].item = r
        /\ reply'[u].req = reply[u].req /\ reply'[u].answer = reply[u].answer
        /\ reply'[u].visited = reply[u].visited \union {r}
        /\ reply'[u].remembered = reply[u].remembered
        /\ reply' \in [User -> ReplyRecord]
        /\ \A v \in User \ {u} : reply'[v] = reply[v]
    BY <1>t, <1>3, <2>1, Visited DEF Place
  <2>3. ReplyOK(u)'
    BY <1>1, <2>2 DEF PermInv, ReplyInv, ReplyOK, Consented
  <2>4. SweepOK(u)'
    BY <1>1, <2>1, <2>2 DEF PermInv, CallInv, ReplyInv, SweepOK, DealtWith, Covered
  <2>5. OneReply(u) /\ Typed
    BY <1>t, <1>1, <2>2, <2>3, <2>4, ConsentGrows DEF OneReply, Typed, PermInv, CallInv, PermTypeOK
  <2>6. KeepsCarrying(u)
    BY <1>1 DEF KeepsCarrying, CarriesOut
  <2> QED
    BY <1>1, <2>5, <2>6, ReplyKeeps DEF SettlesWhatIsDue, AnnouncesWhatItDoes
<1> QED
  BY <1>2, <1>3 DEF GrantNext

LEMMA CheckItemKeeps ==
    ASSUME PermInv, Next, NEW u \in User, CheckItem(u)
    PROVE  PermInv'
<1>t. PermTypeOK
  BY DEF PermInv
<1>1. /\ UNCHANGED <<sessions, saved, pending, settled, call, chosen>>
      /\ reply[u].at = "check"
  BY DEF CheckItem, Move
<1>2. PICK q \in Request : q = reply[u].item
  BY <1>t DEF PermTypeOK
<1>3. CASE Fail(u) /\ UNCHANGED replied
  BY <1>1, <1>3, FailKeeps
<1>4. ASSUME NEW to \in {"grantItem", "granting"}, Move(u, "check", to),
             to = "grantItem" =>
                Announce(q, "always") /\ Covered(q, reply[u].remembered),
             to = "granting" => UNCHANGED replied /\ ~Covered(q, reply[u].remembered)
      PROVE  PermInv'
  <2>1. /\ reply'[u].at = to /\ reply'[u].item = q
        /\ reply'[u].req = reply[u].req /\ reply'[u].answer = reply[u].answer
        /\ reply'[u].visited = reply[u].visited /\ reply'[u].remembered = reply[u].remembered
        /\ reply' \in [User -> ReplyRecord]
        /\ \A v \in User \ {u} : reply'[v] = reply[v]
    BY <1>t, <1>2, <1>4, Moved DEF Place
  <2>2. Consented' = Consented
    BY <1>1 DEF Consented
  <2>3. reply[u].remembered \subseteq Consented
    BY DEF PermInv, ReplyInv, ReplyOK
  <2>4. to = "grantItem" => "always" \in replied'[q] /\ Allowed(q, RulesOf[SessionOf[q]], Consented)
    BY <1>t, <1>4, <2>3, AllowedIsMonotone DEF Announce, Covered, PermTypeOK
  <2>5. ReplyOK(u)'
    BY <1>1, <2>1, <2>2, <2>4 DEF PermInv, ReplyInv, ReplyOK, AllowedByConsent
  <2>6. SweepOK(u)'
    BY <1>1, <1>2, <1>4, <2>1 DEF PermInv, ReplyInv, SweepOK, DealtWith, Covered
  <2>7. OneReply(u) /\ Typed
    BY <1>t, <1>1, <2>1, <2>5, <2>6, ConsentGrows DEF OneReply, Typed, PermInv, CallInv, PermTypeOK
  <2>8. KeepsCarrying(u)
    BY <1>1 DEF KeepsCarrying, CarriesOut
  <2>9. AnnouncesWhatItDoes(u)
    BY <1>2, <1>4 DEF AnnouncesWhatItDoes, Reply
  <2> QED
    BY <1>1, <2>7, <2>8, <2>9, ReplyKeeps DEF SettlesWhatIsDue
<1> QED
  BY <1>2, <1>3, <1>4 DEF CheckItem

LEMMA GrantItemKeeps ==
    ASSUME PermInv, Next, NEW u \in User, GrantItem(u)
    PROVE  PermInv'
<1>t. PermTypeOK
  BY DEF PermInv
<1>1. PICK q \in Request : q = reply[u].item
  BY <1>t DEF PermTypeOK
<1>2. UNCHANGED <<sessions, saved, call, replied, chosen>> /\ Settle(q, "allowed")
  BY <1>1 DEF GrantItem
<1>3. /\ reply[u].at = "grantItem" /\ reply'[u].at = "granting"
      /\ reply'[u].req = reply[u].req /\ reply'[u].answer = reply[u].answer
      /\ reply'[u].visited = reply[u].visited /\ reply'[u].remembered = reply[u].remembered
      /\ reply' \in [User -> ReplyRecord]
      /\ \A v \in User \ {u} : reply'[v] = reply[v]
  BY <1>t, Moved DEF GrantItem, Place
<1>4. ReplyOK(u)'
  BY <1>2, <1>3 DEF PermInv, ReplyInv, ReplyOK, Consented
<1>5. SweepOK(u)'
  <2>1. pending' = pending \ {q}
    BY <1>2 DEF Settle, Forget
  <2> QED
    BY <1>1, <1>2, <1>3, <2>1 DEF PermInv, ReplyInv, SweepOK, DealtWith, Covered
<1>6. OneReply(u) /\ Typed
  BY <1>t, <1>2, <1>3, <1>4, <1>5, ConsentGrows DEF OneReply, Typed, PermInv, CallInv, PermTypeOK
<1>7. KeepsCarrying(u)
  BY <1>3 DEF KeepsCarrying, CarriesOut
<1>8. SettlesWhatIsDue
  BY <1>1, <1>2, <1>3 DEF SettlesWhatIsDue, PermInv, ReplyInv, ReplyOK, WasGranted
<1> QED
  BY <1>2, <1>6, <1>7, <1>8, ReplyKeeps DEF AnnouncesWhatItDoes

-----------------------------------------------------------------------------
(* Removals keep the invariant: they cover less. *)

LEMMA RemovalKeeps ==
    ASSUME PermInv, \/ \E s \in Session : RemoveSession(s)
                    \/ \E p \in saved : RemoveSaved(p)
    PROVE  PermInv'
<1>1. /\ UNCHANGED <<pending, settled, call, reply, replied, chosen>>
      /\ sessions' \subseteq sessions /\ saved' \subseteq saved
  BY DEF RemoveSession, RemoveSaved
<1>2. Consented' = Consented
  BY <1>1 DEF Consented
<1>3. PermTypeOK'
  BY <1>1 DEF PermInv, PermTypeOK
<1>4. CallInv'
  BY <1>1, <1>2 DEF PermInv, CallInv, WasGranted, AllowedByConsent
<1>5. ASSUME NEW u \in User PROVE ReplyOK(u)' /\ SweepOK(u)'
  <2>1. ReplyOK(u)'
    BY <1>1, <1>2 DEF PermInv, ReplyInv, ReplyOK, AllowedByConsent
  <2>2. SweepOK(u)'
    BY <1>1 DEF PermInv, ReplyInv, SweepOK, DealtWith, Covered
  <2> QED
    BY <2>1, <2>2
<1>6. NobodyIsStuck' /\ OutcomeIsAnnounced' /\ AnswersAreCarriedOut'
  BY <1>1 DEF PermInv, NobodyIsStuck, OutcomeIsAnnounced, AnswersAreCarriedOut, CarriesOut
<1> QED
  BY <1>3, <1>4, <1>5, <1>6 DEF PermInv, ReplyInv

-----------------------------------------------------------------------------
(* Theorems. *)

LEMMA PermStep == PermInv /\ [Next]_vars => PermInv'
<1> SUFFICES ASSUME PermInv, [Next]_vars PROVE PermInv'
  OBVIOUS
<1>1. ASSUME Next, NEW r \in Request, CallStep(r) \/ InterruptCall(r) PROVE PermInv'
  BY <1>1, CallKeeps
<1>2. ASSUME Next, NEW u \in User, ReplyStep(u) PROVE PermInv'
  BY <1>2, PublishKeeps, RejectRequestKeeps, RejectNextKeeps, RejectItemKeeps, AddSavedKeeps,
     GrantRequestKeeps, ReadRememberedKeeps, GrantNextKeeps, CheckItemKeeps, GrantItemKeeps
     DEF ReplyStep
<1>3. ASSUME Next, NEW u \in User, NEW r \in Request, NEW answer \in Reply,
             StartReply(u, r, answer)
      PROVE  PermInv'
  BY <1>3, StartKeeps
<1>4. ASSUME \/ \E s \in Session : RemoveSession(s)
             \/ \E p \in saved : RemoveSaved(p)
      PROVE  PermInv'
  BY <1>4, RemovalKeeps
<1>5. CASE UNCHANGED vars
  <2>1. UNCHANGED <<sessions, saved, pending, settled, call, reply, replied, chosen>>
    BY <1>5 DEF vars
  <2>2. PermTypeOK'
    BY <2>1 DEF PermInv, PermTypeOK
  <2>3. CallInv'
    BY <2>1 DEF PermInv, CallInv, WasGranted, AllowedByConsent, Consented
  <2>4. ASSUME NEW u \in User PROVE ReplyOK(u)' /\ SweepOK(u)'
    BY <2>1 DEF PermInv, ReplyInv, ReplyOK, SweepOK, DealtWith, Covered, AllowedByConsent, Consented
  <2>5. NobodyIsStuck' /\ OutcomeIsAnnounced' /\ AnswersAreCarriedOut'
    BY <2>1 DEF PermInv, NobodyIsStuck, OutcomeIsAnnounced, AnswersAreCarriedOut, CarriesOut
  <2> QED
    BY <2>2, <2>3, <2>4, <2>5 DEF PermInv, ReplyInv
<1> QED
  BY <1>1, <1>2, <1>3, <1>4, <1>5 DEF Next

\* Calls, replies and the map of pending requests fit together in every reachable
\* state, whatever fails and whoever answers meanwhile (permission.ts).
THEOREM PermissionInvariant == Spec => []PermInv
BY PermStart, PermStep, PTL DEF Spec

\* Records of calls and replies stay well formed (permission.ts).
THEOREM PermissionTypes == Spec => []PermTypeOK
<1>1. PermInv => PermTypeOK
  BY DEF PermInv
<1> QED
  BY <1>1, PermissionInvariant, PTL

\* No tool goes on that its agent's rules deny, or that nobody consented to
\* (permission.ts evaluateInput, reply).
THEOREM GrantsAreDue == Spec => []GrantWasDue
<1>1. PermInv => GrantWasDue
  BY DEF PermInv, CallInv, GrantWasDue, WasGranted, AllowedByConsent, Open
<1> QED
  BY <1>1, PermissionInvariant, PTL

\* A request that is not settled can be answered (permission.ts create, assert).
THEOREM RequestsStayAnswerable == Spec => []NobodyIsStuck
<1>1. PermInv => NobodyIsStuck
  BY DEF PermInv
<1> QED
  BY <1>1, PermissionInvariant, PTL

\* Nothing is settled without a Replied event before it (permission.ts reply).
THEOREM OutcomesAreAnnounced == Spec => []OutcomeIsAnnounced
<1>1. PermInv => OutcomeIsAnnounced
  BY DEF PermInv
<1> QED
  BY <1>1, PermissionInvariant, PTL

\* Whoever announced "once" or "reject" carries it out (permission.ts reply).
THEOREM AnswersLead == Spec => []AnswersAreCarriedOut
<1>1. PermInv => AnswersAreCarriedOut
  BY DEF PermInv
<1> QED
  BY <1>1, PermissionInvariant, PTL

\* A sweep that runs to its end leaves nothing behind that it should have met, also
\* what came while it ran (permission.ts:262, 287).
THEOREM SweepsAreComplete == Spec => SweepIsComplete
<1> DEFINE Complete ==
      \A u \in User :
        reply'[u].at = "idle" =>
            /\ reply[u].at = "rejecting" =>
                  \A r \in pending' : SessionOf[r] # SessionOf[reply[u].req]
            /\ reply[u].at = "granting" =>
                  \A r \in pending' : ~Covered(r, reply[u].remembered)
<1>1. PermInv /\ [Next]_vars => [Complete]_vars
  <2> SUFFICES ASSUME PermInv, Next PROVE Complete
    OBVIOUS
  <2> SUFFICES ASSUME NEW u \in User, reply'[u].at = "idle",
                      reply[u].at \in {"rejecting", "granting"}
               PROVE  /\ reply[u].at = "rejecting" =>
                            \A r \in pending' : SessionOf[r] # SessionOf[reply[u].req]
                      /\ reply[u].at = "granting" =>
                            \A r \in pending' : ~Covered(r, reply[u].remembered)
    BY DEF Complete
  <2>t. PermTypeOK
    BY DEF PermInv
  <2>1. ASSUME NEW v \in User, ReplyStep(v) PROVE RejectNext(u) \/ GrantNext(u)
    <3>1. reply'[u] # reply[u]
      OBVIOUS
    <3>2. v = u
      <4> SUFFICES ASSUME v # u PROVE reply'[u] = reply[u]
        BY <3>1
      <4>1. reply \in [User -> ReplyRecord]
        BY <2>t DEF PermTypeOK, ReplyRecord
      <4>2. \E x : reply' = [reply EXCEPT ![v] = x]
        BY <2>1, <4>1 DEF ReplyStep, PublishReplied, RejectRequest, RejectNext, RejectItem, AddSaved,
           GrantRequest, ReadRemembered, GrantNext, CheckItem, GrantItem, Move, Fail, End, Visit
      <4> QED
        BY <4>1, <4>2
    <3> QED
      BY <2>1, <3>2 DEF ReplyStep, PublishReplied, RejectRequest, RejectItem, AddSaved,
         GrantRequest, ReadRemembered, CheckItem, GrantItem, Move
  <2>2. CASE RejectNext(u)
    <3>1. UnvisitedOfSession(u) = {} /\ UNCHANGED pending
      <4>1. ASSUME NEW r \in UnvisitedOfSession(u), Visit(u, r, "rejectItem") PROVE FALSE
        BY <2>t, <4>1, Visited DEF UnvisitedOfSession, Unvisited, PermTypeOK, Place
      <4>2. ~Fail(u)
        BY <2>t, Failed
      <4> QED
        BY <2>2, <4>1, <4>2 DEF RejectNext
    <3>2. reply[u].at = "rejecting" /\ reply[u].visited \intersect pending = {}
      BY <2>2 DEF RejectNext, PermInv, ReplyInv, SweepOK, DealtWith
    <3> QED
      BY <3>1, <3>2 DEF UnvisitedOfSession, Unvisited
  <2>3. CASE GrantNext(u)
    <3>1. Unvisited(u) = {} /\ UNCHANGED pending
      <4>1. ASSUME NEW r \in Unvisited(u), Visit(u, r, "check") PROVE FALSE
        BY <2>t, <4>1, Visited DEF Unvisited, PermTypeOK, Place
      <4> QED
        BY <2>3, <4>1 DEF GrantNext
    <3>2. /\ reply[u].at = "granting"
          /\ \A r \in reply[u].visited \intersect pending : ~Covered(r, reply[u].remembered)
      BY <2>3 DEF GrantNext, PermInv, ReplyInv, SweepOK, DealtWith
    <3> QED
      BY <3>1, <3>2 DEF Unvisited
  <2>4. ASSUME NEW v \in User, NEW r \in Request, NEW answer \in Reply, StartReply(v, r, answer)
        PROVE  FALSE
    BY <2>t, <2>4, Begun
  <2>5. CASE UNCHANGED reply
    BY <2>5
  <2> QED
    BY <2>1, <2>2, <2>3, <2>4, <2>5 DEF Next, CallStep, Configured, EvaluateInput, Create,
       PublishAsked, Return, InterruptCall, EndOfWait, RemoveSession, RemoveSaved
<1> QED
  BY <1>1, PermissionInvariant, PTL DEF Spec, SweepIsComplete

=============================================================================
