----------------------------- MODULE WorkspaceSync -----------------------------
(***************************************************************************)
(* One session whose events are kept by a control plane and by remote      *)
(* workspaces (control-plane/workspace.ts, handlers/sync.ts, and           *)
(* event-v2-bridge.ts, which puts every event a workspace publishes on its *)
(* server-sent stream).  The control plane follows each workspace in a     *)
(* sync loop, and moves the session from one place to another by a warp.   *)
(*                                                                         *)
(* Each node has the tables of EventStore.  A request is sent, served and  *)
(* its answer used in separate steps; streams lose their tail when they    *)
(* drop; two events that were committed one after the other may reach the  *)
(* stream in either order, because each is announced after its commit.     *)
(***************************************************************************)
EXTENDS EventStore, SequencesExt

CONSTANTS
  Control,    \* the node of the control plane
  Workspace,  \* the remote workspaces, which are also owners
  Session,    \* the aggregate
  Project,    \* the owner that a warp to no workspace claims for (workspace.ts:605)
  None,
  MaxWarps,   \* warps that are started
  MaxDrops    \* streams and requests that fail

Node == {Control} \cup Workspace
Local == Control            \* the home of a session without a workspace

ASSUME SyncAssumption ==
  /\ Control \notin Workspace /\ None \notin Node
  /\ Aggregate = {Session}
  /\ Owner = Workspace \cup {Project} /\ Project \notin Workspace
  /\ MaxWarps \in Nat /\ MaxDrops \in Nat

VARIABLES
  dbs,     \* the event tables of each node
  event,   \* of each event: who published it, the home it sets, whether its
           \* author had lost the session when it was published
  home,    \* workspace_id of the session row of each node, None without a row
  unsent,  \* events of a workspace committed and not yet on its stream
  link,    \* where the sync loop of a workspace stands
  fence,   \* the sequence number that the loop sends with its history request
  rows,    \* history that was answered and is being replayed
  stream,  \* events on the open stream of a workspace
  settled, \* nobody has claimed the session since the loop asked (for properties)
  warp,    \* the warp request that is being served
  warps, drops

nodeVars == <<dbs, event, home, unsent>>
loopVars == <<link, fence, rows, stream, settled>>
vars == <<nodeVars, loopVars, warp, warps, drops>>

Link == {"down", "opened", "asked", "history", "connected", "dead"}
Warp == [pc : {"idle", "final", "replay", "claim", "send", "sending", "finish"},
         from : Node \cup {None}, to : Node \cup {None}, rows : SUBSET Row]
NoWarp == [pc |-> "idle", from |-> None, to |-> None, rows |-> {}]
Unused == [by |-> None, home |-> None, fenced |-> FALSE]

Latest(n) == dbs[n].latest[Session]
OwnerAt(n) == dbs[n].owner[Session]

\* History travels and is replayed in the order of the sequence numbers.
Earliest(S) == {r \in S : \A q \in S : r.seq <= q.seq}

\* Mutant of IsOpen: the stream is opened after the history.
IsConnected(w) == link[w] = "connected"

IsOpen(w) == link[w] \in Link \ {"down", "dead"}

Init ==
  /\ dbs = [n \in Node |-> EmptyDb]
  /\ event = [id \in EventId |-> Unused]
  /\ home = [n \in Node |-> None]
  /\ unsent = [w \in Workspace |-> {}]
  /\ link = [w \in Workspace |-> "down"]
  /\ fence = [w \in Workspace |-> -1]
  /\ rows = [w \in Workspace |-> {}]
  /\ stream = [w \in Workspace |-> <<>>]
  /\ settled = [w \in Workspace |-> FALSE]
  /\ warp = NoWarp /\ warps = 0 /\ drops = 0

-------------------------------------------------------------------------------
(* What a node does with an event *)

\* The projector of the session row: an event may set its workspace.
SetHome(n, e) == IF e.home = None THEN home ELSE [home EXCEPT ![n] = e.home]

\* A new event of node n; h is the home it sets.  A workspace announces it later.
PublishAt(n, h) ==
  LET id  == CHOOSE i \in EventId : event[i].by = None
      e   == [by |-> n, home |-> h,
              fenced |-> n # Control /\ OwnerAt(Control) \notin {n, NoOwner}]
      res == PublishResult(dbs[n], Session, id)
  IN  /\ \E i \in EventId : event[i].by = None
      /\ event' = [event EXCEPT ![id] = e]
      /\ dbs' = [dbs EXCEPT ![n] = res.db]
      /\ home' = SetHome(n, e)
      /\ unsent' = IF n = Control THEN unsent
                   ELSE [unsent EXCEPT ![n] = @ \cup (res.db.rows \ dbs[n].rows)]

Replayed(n, r, own, strict) == ReplayResult(dbs[n], Session, r.id, r.seq, own, strict)

\* Node n replays a row for an owner; a replay is not announced to other nodes.
ReplayAt(n, r, own, strict) ==
  LET res == Replayed(n, r, own, strict)
  IN  /\ dbs' = [dbs EXCEPT ![n] = res.db]
      /\ home' = IF res.outcome = "committed" THEN SetHome(n, event[r.id]) ELSE home
      /\ UNCHANGED <<event, unsent>>

\* A session is created in a workspace, or at the control plane without one.
Create(n) ==
  /\ \A m \in Node : home[m] = None
  /\ \A id \in EventId : event[id] = Unused
  /\ PublishAt(n, n)
  /\ UNCHANGED <<loopVars, warp, warps, drops>>

\* The session is worked on wherever its row says that it lives.
Work(n) ==
  /\ home[n] = n
  /\ PublishAt(n, None)
  /\ UNCHANGED <<loopVars, warp, warps, drops>>

-------------------------------------------------------------------------------
(* The stream of a workspace and the loop that follows it *)

Emit(w) ==
  /\ \E r \in unsent[w] :
       /\ unsent' = [unsent EXCEPT ![w] = @ \ {r}]
       /\ stream' = IF IsOpen(w) THEN [stream EXCEPT ![w] = Append(@, r)] ELSE stream
  /\ UNCHANGED <<dbs, event, home, link, fence, rows, settled, warp, warps, drops>>

Connect(w) ==
  /\ link[w] = "down"
  /\ link' = [link EXCEPT ![w] = "opened"]
  /\ UNCHANGED <<nodeVars, fence, rows, stream, settled, warp, warps, drops>>

\* The fence is the latest number of each session that lives in the workspace.
AskHistory(w) ==
  /\ link[w] = "opened"
  /\ link' = [link EXCEPT ![w] = "asked"]
  /\ fence' = [fence EXCEPT ![w] = IF home[Control] = w THEN Latest(Control) ELSE -1]
  /\ settled' = [settled EXCEPT ![w] = TRUE]
  /\ UNCHANGED <<nodeVars, rows, stream, warp, warps, drops>>

\* The workspace answers with everything it has past the fence.
ServeHistory(w) ==
  /\ link[w] = "asked"
  /\ link' = [link EXCEPT ![w] = "history"]
  /\ rows' = [rows EXCEPT ![w] = RowsAfter(dbs[w], Session, fence[w])]
  /\ fence' = [fence EXCEPT ![w] = -1]
  /\ UNCHANGED <<nodeVars, stream, settled, warp, warps, drops>>

\* A refused replay is a defect, which the loop does not catch.
ReplayHistory(w) ==
  /\ link[w] = "history"
  /\ \E r \in Earliest(rows[w]) :
       /\ ReplayAt(Control, r, w, FALSE)
       /\ IF Replayed(Control, r, w, FALSE).outcome = "refused"
          THEN /\ link' = [link EXCEPT ![w] = "dead"]
               /\ rows' = [rows EXCEPT ![w] = {}]
               /\ stream' = [stream EXCEPT ![w] = <<>>]
          ELSE /\ rows' = [rows EXCEPT ![w] = @ \ {r}]
               /\ UNCHANGED <<link, stream>>
  /\ UNCHANGED <<fence, settled, warp, warps, drops>>

Connected(w) ==
  /\ link[w] = "history" /\ rows[w] = {}
  /\ link' = [link EXCEPT ![w] = "connected"]
  /\ settled' = [settled EXCEPT ![w] = FALSE]
  /\ UNCHANGED <<nodeVars, fence, rows, stream, warp, warps, drops>>

\* On the stream a refused replay is logged and the event dropped.
Deliver(w) ==
  /\ link[w] = "connected" /\ stream[w] # <<>>
  /\ ReplayAt(Control, Head(stream[w]), w, FALSE)
  /\ stream' = [stream EXCEPT ![w] = Tail(@)]
  /\ UNCHANGED <<link, fence, rows, settled, warp, warps, drops>>

\* The stream ends or a request fails; the loop waits and connects again.
Drop(w) ==
  /\ IsOpen(w) /\ drops < MaxDrops
  /\ drops' = drops + 1
  /\ link' = [link EXCEPT ![w] = "down"]
  /\ rows' = [rows EXCEPT ![w] = {}]
  /\ stream' = [stream EXCEPT ![w] = <<>>]
  /\ fence' = [fence EXCEPT ![w] = -1]
  /\ settled' = [settled EXCEPT ![w] = FALSE]
  /\ UNCHANGED <<nodeVars, warp, warps>>

\* A client asks for the workspaces of the project to be followed: a loop that
\* died is no longer in the map of fibers, and is started again.
StartSync(w) ==
  /\ link[w] = "dead"
  /\ link' = [link EXCEPT ![w] = "down"]
  /\ UNCHANGED <<nodeVars, fence, rows, stream, settled, warp, warps, drops>>

-------------------------------------------------------------------------------
(* A warp *)

Then(pc, rs) == warp' = [warp EXCEPT !.pc = pc, !.rows = rs]

WarpStart(to) ==
  /\ warp.pc = "idle" /\ warps < MaxWarps
  /\ home[Control] # None
  /\ warps' = warps + 1
  /\ warp' = [pc |-> IF home[Control] = Local THEN "send" ELSE "final",
              from |-> home[Control], to |-> to, rows |-> {}]
  /\ UNCHANGED <<nodeVars, loopVars, drops>>

\* The last history of the old workspace; without an answer the warp goes on.
WarpFinal ==
  /\ warp.pc = "final"
  /\ \/ /\ Then("replay", RowsAfter(dbs[warp.from], Session,
                            IF home[Control] = warp.from THEN Latest(Control) ELSE -1))
        /\ UNCHANGED drops
     \/ /\ drops < MaxDrops /\ drops' = drops + 1
        /\ Then("claim", {})
  /\ UNCHANGED <<nodeVars, loopVars, warps>>

WarpReplay ==
  /\ warp.pc = "replay"
  /\ \E r \in Earliest(warp.rows) :
       /\ ReplayAt(Control, r, warp.from, FALSE)
       /\ IF Replayed(Control, r, warp.from, FALSE).outcome = "refused"
          THEN warp' = NoWarp
          ELSE Then("replay", warp.rows \ {r})
  /\ UNCHANGED <<loopVars, warps, drops>>

\* From here on what the old workspace still writes is ignored.
WarpClaim ==
  /\ warp.pc = "claim" \/ (warp.pc = "replay" /\ warp.rows = {})
  /\ dbs' = [dbs EXCEPT ![Control] =
               ClaimResult(@, Session, IF warp.to = Local THEN Project ELSE warp.to)]
  /\ settled' = [w \in Workspace |-> FALSE]
  /\ Then("send", {})
  /\ UNCHANGED <<event, home, unsent, link, fence, rows, stream, warps, drops>>

WarpHome ==
  /\ warp.pc = "send" /\ warp.to = Local
  /\ PublishAt(Control, Local)
  /\ warp' = NoWarp
  /\ UNCHANGED <<loopVars, warps, drops>>

WarpSend ==
  /\ warp.pc = "send" /\ warp.to # Local
  /\ Then("sending", dbs[Control].rows)
  /\ UNCHANGED <<nodeVars, loopVars, warps, drops>>

\* The target replays strictly, for itself; what it refuses ends the warp.
WarpTransfer ==
  /\ warp.pc = "sending"
  /\ \E r \in Earliest(warp.rows) :
       /\ ReplayAt(warp.to, r, warp.to, TRUE)
       /\ IF Replayed(warp.to, r, warp.to, TRUE).outcome = "refused"
          THEN warp' = NoWarp
          ELSE Then("sending", warp.rows \ {r})
  /\ UNCHANGED <<loopVars, warps, drops>>

WarpSteal ==
  /\ warp.pc = "sending" /\ warp.rows = {}
  /\ PublishAt(warp.to, warp.to)
  /\ Then("finish", {})
  /\ UNCHANGED <<loopVars, warps, drops>>

WarpFinish ==
  /\ warp.pc = "finish"
  /\ PublishAt(Control, warp.to)
  /\ warp' = NoWarp
  /\ UNCHANGED <<loopVars, warps, drops>>

\* A request to the target fails, or the patch does not apply.
WarpFails ==
  /\ warp.pc \in {"send", "sending"} /\ drops < MaxDrops
  /\ drops' = drops + 1
  /\ warp' = NoWarp
  /\ UNCHANGED <<nodeVars, loopVars, warps>>

-------------------------------------------------------------------------------

LoopStep(w) ==
  \/ Emit(w) \/ Connect(w) \/ AskHistory(w) \/ ServeHistory(w) \/ ReplayHistory(w)
  \/ Connected(w) \/ Deliver(w) \/ StartSync(w) \/ Drop(w)

WarpStep ==
  \/ \E to \in Node : WarpStart(to)
  \/ WarpFinal \/ WarpReplay \/ WarpClaim \/ WarpHome \/ WarpSend
  \/ WarpTransfer \/ WarpSteal \/ WarpFinish \/ WarpFails

Next ==
  \/ \E n \in Node : Create(n) \/ Work(n)
  \/ \E w \in Workspace : LoopStep(w)
  \/ WarpStep

\* The loop and the workspaces take their steps; clients and networks need not.
Fairness ==
  \A w \in Workspace :
    /\ WF_vars(Emit(w)) /\ WF_vars(Connect(w)) /\ WF_vars(AskHistory(w))
    /\ WF_vars(ServeHistory(w)) /\ WF_vars(ReplayHistory(w))
    /\ WF_vars(Connected(w)) /\ WF_vars(Deliver(w))

Spec == Init /\ [][Next]_vars /\ Fairness

-------------------------------------------------------------------------------
(* Properties *)

\* The control plane has written nothing of the session itself.
Follows == \A r \in dbs[Control].rows : event[r.id].by # Control

\* A control plane that only follows has a prefix of what the workspace of the
\* session has, whatever is dropped, repeated by history and stream, or out of
\* order, and whatever warps were begun and failed.
ReplicaIsPrefix ==
  Follows =>
    \A w \in Workspace : home[Control] = w => dbs[Control].rows \subseteq dbs[w].rows

\* What a workspace writes after the session was claimed away from it reaches the
\* control plane only while the session is claimed for that workspace again, by
\* whichever loop, answer or warp that is late (workspace.ts:603-605).
FencedWork ==
  [][\A r \in dbs'[Control].rows \ dbs[Control].rows :
       event'[r.id].fenced => OwnerAt(Control) = event'[r.id].by]_vars

\* When the loop of a workspace reports that it is connected, the control plane
\* has every event that the workspace had when it served the history, if nobody
\* claimed the session in between: what is replayed while the session is claimed
\* for another is skipped and not asked for again, even if it is claimed back.
ConnectedIsCaughtUp ==
  [][\A w \in Workspace :
       Connected(w) /\ settled[w] /\ OwnerAt(Control) = w /\ Follows
       => \A r \in dbs[w].rows : r \in dbs[Control].rows \/ r \in unsent[w]
                                  \/ r \in ToSet(stream[w])]_vars

-------------------------------------------------------------------------------
(* Why *)

\* Every variable has values of its kind.
SyncTypeOK ==
  /\ dbs \in [Node -> Db]
  /\ event \in [EventId -> [by : Node \cup {None}, home : Node \cup {None}, fenced : BOOLEAN]]
  /\ home \in [Node -> Node \cup {None}]
  /\ unsent \in [Workspace -> SUBSET Row] /\ rows \in [Workspace -> SUBSET Row]
  /\ link \in [Workspace -> Link] /\ fence \in [Workspace -> Nat \cup {-1}]
  /\ stream \in [Workspace -> Seq(Row)] /\ settled \in [Workspace -> BOOLEAN]
  /\ warp \in Warp
  /\ warp.pc # "idle" => warp.to # None
  /\ warps \in 0..MaxWarps /\ drops \in 0..MaxDrops

\* Every row stands for an event that was published, and keeps its identifier.
RowsArePublished == \A n \in Node : \A r \in dbs[n].rows : event[r.id].by # None

\* What travels was read from a log that still has it.
InTransit ==
  /\ \A w \in Workspace :
       /\ rows[w] \cup unsent[w] \subseteq dbs[w].rows
       /\ \A i \in 1..Len(stream[w]) : stream[w][i] \in dbs[w].rows
  /\ warp.pc = "replay" => warp.from \in Workspace /\ warp.rows \subseteq dbs[warp.from].rows
  /\ warp.pc = "final" => warp.from \in Workspace
  /\ warp.pc \in {"sending", "finish"} => warp.to \in Workspace
  /\ warp.pc = "sending" => warp.rows \subseteq dbs[Control].rows

\* A workspace has its own events and what the control plane gave it; the control
\* plane has its own and what their authors still have.
RowsHaveOrigin ==
  /\ \A w \in Workspace : \A r \in dbs[w].rows : event[r.id].by = w \/ r \in dbs[Control].rows
  /\ \A r \in dbs[Control].rows : event[r.id].by \in Workspace => r \in dbs[event[r.id].by].rows

\* Work is fenced only where there is an owner, which there then always is.
FencedHasOwner == (\E id \in EventId : event[id].fenced) => OwnerAt(Control) # NoOwner

SyncInv == SyncTypeOK /\ RowsArePublished /\ InTransit /\ RowsHaveOrigin /\ FencedHasOwner

\* The numbers of every log have no gap and no double.
LogsWhole == \A n \in Node : Contiguous(dbs[n])

\* A session row has the home that an event of its log has set, and only the control
\* plane sends a session to a place that is not its own.
HomesAreSet ==
  /\ \A n \in Node : home[n] # None => \E r \in dbs[n].rows : event[r.id].home = home[n]
  /\ \A id \in EventId : event[id].by # Control => event[id].home \in {None, event[id].by}

\* The session that is warped exists, and is claimed for its target before it is sent.
WarpClaimed ==
  /\ warp.pc # "idle" => dbs[Control].rows # {}
  /\ Follows /\ warp.pc \in {"send", "sending", "finish"} /\ warp.to # Local
       => OwnerAt(Control) = warp.to

\* What the target does not have yet is still to be sent.
TransferWhole ==
  /\ Follows /\ warp.pc \in {"sending", "finish"}
       => dbs[Control].rows \subseteq dbs[warp.to].rows \cup warp.rows
  /\ warp.pc = "finish" => warp.rows = {}

\* One author has written all there is, and the session lives with it.
OneHome ==
  \E author \in Node :
    /\ \A id \in EventId : {event[id].by, event[id].home} \subseteq {None, author}
    /\ \A n \in Node : home[n] \in {None, author}

\* The author and the thief: what the thief writes begins with its steal, and the
\* control plane has something of the thief only when it knows of the steal.
TwoHomes(author, thief) ==
  /\ \A id \in EventId : event[id].by \in {None, author, thief}
  /\ \A n \in Node : home[n] \in {None, author, thief}
  /\ \E s \in dbs[thief].rows :
       /\ event[s.id].home = thief
       /\ \A r \in dbs[thief].rows : event[r.id].by = thief => s.seq <= r.seq
  /\ home[Control] = thief \/ \A r \in dbs[Control].rows : event[r.id].by # thief

\* Until it writes itself, a control plane sees one author, or two between the steal
\* of a warp and its end.
KnownAuthors ==
  Follows => \/ OneHome
             \/ warp.pc = "finish" /\ \E author \in Node : TwoHomes(author, warp.to)

\* What a workspace has, the control plane has not, and its stream will not bring.
Missing(w) == dbs[w].rows \ (dbs[Control].rows \cup unsent[w] \cup ToSet(stream[w]))

\* The history that a loop asks for, or is about to replay, has all that is missing.
Covered(w) ==
  settled[w] /\ Follows /\ OwnerAt(Control) \in {NoOwner, w} =>
    /\ link[w] = "asked" => \A r \in Missing(w) : r.seq > fence[w]
    /\ link[w] = "history" => Missing(w) \subseteq rows[w]

HistoryCovers == \A w \in Workspace : Covered(w)

FollowInv ==
  /\ LogsWhole /\ HomesAreSet /\ WarpClaimed /\ TransferWhole /\ KnownAuthors
  /\ HistoryCovers

===============================================================================
