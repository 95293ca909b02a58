------------------------------ MODULE StateSync ------------------------------
(***************************************************************************)
(* Revisioned state synchronisation, from the hub's canonical projection   *)
(* to the browser pages that show it: the single-writer coordinator        *)
(* (pkg/state/coordinator.go), the WebSocket handler of each connection    *)
(* (pkg/ws/hub.go, handleCanonicalEvents), the wire, and the state         *)
(* provider of each page (web/src/state).                                  *)
(*                                                                         *)
(* The writer's fan-out is a sequence of steps, one per subscriber, and    *)
(* the draining of a full queue is one step per test and one per receive,  *)
(* because the handler of that queue keeps receiving from it meanwhile.    *)
(* A connection's wire holds what its handler has taken from the queue and *)
(* the page has not yet handled: the socket buffers and the message the    *)
(* handler is blocked on writing.                                          *)
(***************************************************************************)
EXTENDS Projection, Functions

CONSTANTS
    Pages,          \* browser pages
    Conns,          \* WebSocket connections; one is reused once both ends left it
    NoConn,         \* no connection
    Batches,        \* the batches of operations producers commit
    QueueSize,      \* capacity of a subscriber's queue (64 in the code)
    WireSize,       \* envelopes in flight before a write blocks
    MaxInstance,    \* bound: hub processes in a behaviour
    MaxRevision,    \* bound: commits of one hub process
    MaxFaults,      \* bound: lost connections and page visibility changes
    Schema          \* Schema[i]: state schema spoken by the i-th hub process

ASSUME StateSyncAssumption ==
    /\ NoConn \notin Conns
    /\ Batches \subseteq Seq(Operations)
    /\ QueueSize \in Nat \ {0}
    /\ WireSize \in Nat \ {0}
    /\ MaxInstance \in Nat \ {0}
    /\ MaxRevision \in Nat
    /\ MaxFaults \in Nat
    /\ Schema \in [1 .. MaxInstance -> Nat]

VARIABLES
    (* the coordinator, owned by its run goroutine *)
    instance, revision, projection,
    subscribers,    \* connections whose subscription is registered
    fanout,         \* subscribers the last commit has still to be sent to
    delta,          \* the delta envelope of the last commit
    overflowed,     \* the subscriber whose full queue is being drained
    receiving,      \* the drain loop saw a message and is about to take it
    (* each connection: its subscriber queue, its handler, its wire *)
    queue, handler, wire,
    alive,          \* the network path and the browser's end still exist
    (* each page: its state provider and connection controller *)
    view,           \* reducer: instance, revision and projection shown
    status,         \* reducer: the connection state shown to the user
    socket,         \* controller: the current WebSocket
    timer,          \* controller: a reconnect timer is pending
    synced,         \* controller: hasReadySnapshot
    hidden,         \* document.hidden
    pageSchema,     \* the schema the loaded frontend speaks
    (* bookkeeping of the model *)
    committed,      \* every state any hub process has committed
    faults          \* faults so far

hubVars == <<instance, revision, projection, committed>>
fanVars == <<subscribers, fanout, delta, overflowed, receiving>>
connVars == <<queue, handler, wire, alive>>
shownVars == <<view, status, synced>>
ctrlVars == <<socket, timer, hidden, pageSchema>>
vars == <<hubVars, fanVars, connVars, shownVars, ctrlVars, faults>>

-----------------------------------------------------------------------------
(* Envelopes *)

Current == [inst |-> instance, rev |-> revision, proj |-> projection]

Snapshot(s) == [type |-> "snapshot", state |-> s]

Delta(i, base, batch) ==
    [type |-> "delta", inst |-> i, base |-> base, rev |-> base + 1, ops |-> batch]

Resync == [type |-> "resync-required"]

Reload == [type |-> "reload-required"]

Envelopes ==
    [type : {"snapshot"}, state : States]
    \cup [type : {"delta"}, inst : Nat, base : Nat, rev : Nat, ops : Batches]
    \cup {Resync, Reload}

-----------------------------------------------------------------------------
TypeOK ==
    /\ instance \in 1 .. MaxInstance
    /\ revision \in 0 .. MaxRevision
    /\ projection \in Projections
    /\ subscribers \subseteq Conns
    /\ fanout \subseteq Conns
    /\ delta \in Envelopes
    /\ overflowed \in Conns \cup {NoConn}
    /\ receiving \in BOOLEAN
    /\ queue \in [Conns -> Seq(Envelopes)]
    /\ handler \in [Conns -> {"none", "dialing", "opened", "serving", "leaving"}]
    /\ wire \in [Conns -> Seq(Envelopes)]
    /\ alive \in [Conns -> BOOLEAN]
    /\ view \in [Pages -> States \cup {NoView}]
    /\ status \in [Pages -> {"unloaded", "connecting", "reconnecting",
                             "rehydrating", "ready", "reload-required"}]
    /\ socket \in [Pages -> Conns \cup {NoConn}]
    /\ timer \in [Pages -> BOOLEAN]
    /\ synced \in [Pages -> BOOLEAN]
    /\ hidden \in [Pages -> BOOLEAN]
    /\ pageSchema \in [Pages -> Nat]
    /\ committed \subseteq States
    /\ faults \in 0 .. MaxFaults

Init ==
    /\ instance = 1
    /\ revision = 0
    /\ projection = NewProjection
    /\ committed = {Current}
    /\ subscribers = {}
    /\ fanout = {}
    /\ delta = Resync
    /\ overflowed = NoConn
    /\ receiving = FALSE
    /\ queue = [c \in Conns |-> <<>>]
    /\ handler = [c \in Conns |-> "none"]
    /\ wire = [c \in Conns |-> <<>>]
    /\ alive = [c \in Conns |-> FALSE]
    /\ view = [p \in Pages |-> NoView]
    /\ status = [p \in Pages |-> "unloaded"]
    /\ socket = [p \in Pages |-> NoConn]
    /\ timer = [p \in Pages |-> FALSE]
    /\ synced = [p \in Pages |-> FALSE]
    /\ hidden = [p \in Pages |-> FALSE]
    /\ pageSchema = [p \in Pages |-> Schema[1]]
    /\ faults = 0

-----------------------------------------------------------------------------
(* The writer is back at the top of its loop, ready for the next command.   *)
WriterReady == fanout = {} /\ overflowed = NoConn

(* Defects the properties must notice, each a variant of an action below.   *)

(* The delta names the new revision as its base.                            *)
CommitWithNewBase(batch) ==
    LET next == ApplyBatch(projection, batch) IN
    /\ WriterReady
    /\ revision < MaxRevision
    /\ next # projection
    /\ projection' = next
    /\ revision' = revision + 1
    /\ delta' = Delta(instance, revision + 1, batch)
    /\ committed' = committed \cup {[inst |-> instance, rev |-> revision + 1, proj |-> next]}
    /\ fanout' = subscribers
    /\ UNCHANGED <<instance, subscribers, overflowed, receiving,
                   connVars, shownVars, ctrlVars, faults>>

(* The projection changes under the old revision.                           *)
CommitInPlace(batch) ==
    LET next == ApplyBatch(projection, batch) IN
    /\ WriterReady
    /\ next # projection
    /\ projection' = next
    /\ committed' = committed \cup {[inst |-> instance, rev |-> revision, proj |-> next]}
    /\ UNCHANGED <<instance, revision, fanVars, connVars, shownVars, ctrlVars, faults>>

(* A delta that finds the queue full is dropped.                            *)
OverflowDrops(c) ==
    /\ c \in fanout
    /\ overflowed = NoConn
    /\ Len(queue[c]) >= QueueSize
    /\ fanout' = fanout \ {c}
    /\ UNCHANGED <<hubVars, subscribers, delta, overflowed, receiving,
                   connVars, shownVars, ctrlVars, faults>>

(* The fan-out ends at the first subscriber that is cut.                    *)
DrainEndsFanOut ==
    /\ overflowed # NoConn
    /\ ~receiving
    /\ queue[overflowed] = <<>>
    /\ queue' = [queue EXCEPT ![overflowed] = <<Resync>>]
    /\ subscribers' = subscribers \ {overflowed}
    /\ fanout' = {}
    /\ overflowed' = NoConn
    /\ UNCHANGED <<hubVars, delta, receiving, handler, wire, alive,
                   shownVars, ctrlVars, faults>>

(* A restarted hub calls itself by the name of the process before it.       *)
RestartSameInstance ==
    /\ instance < MaxInstance
    /\ revision' = 0
    /\ projection' = NewProjection
    /\ subscribers' = {}
    /\ fanout' = {}
    /\ overflowed' = NoConn
    /\ receiving' = FALSE
    /\ queue' = [c \in Conns |-> <<>>]
    /\ handler' = [c \in Conns |-> "none"]
    /\ UNCHANGED <<instance, committed, delta, wire, alive, shownVars, ctrlVars, faults>>

(* The handler closes an incompatible page without telling it to reload.    *)
RejectSilently(c) ==
    /\ handler[c] = "opened"
    /\ alive[c]
    /\ \E p \in Pages : socket[p] = c /\ pageSchema[p] # Schema[instance]
    /\ handler' = [handler EXCEPT ![c] = "none"]
    /\ UNCHANGED <<hubVars, fanVars, queue, wire, alive, shownVars, ctrlVars, faults>>

(* The handler returns without the deferred Cancel.                         *)
ExitWithoutCancel(c) ==
    /\ ~alive[c]
    /\ handler[c] \in {"dialing", "opened", "serving"}
    /\ handler' = [handler EXCEPT ![c] = "none"]
    /\ UNCHANGED <<hubVars, fanVars, queue, wire, alive, shownVars, ctrlVars, faults>>

-----------------------------------------------------------------------------
(* The coordinator's run goroutine *)

(* commandCommit: a batch that changes nothing commits nothing.             *)
Commit(batch) ==
    LET next == ApplyBatch(projection, batch) IN
    /\ WriterReady
    /\ revision < MaxRevision
    /\ next # projection
    /\ projection' = next
    /\ revision' = revision + 1
    /\ delta' = Delta(instance, revision, batch)
    /\ committed' = committed \cup {[inst |-> instance, rev |-> revision + 1, proj |-> next]}
    /\ fanout' = subscribers
    /\ UNCHANGED <<instance, subscribers, overflowed, receiving,
                   connVars, shownVars, ctrlVars, faults>>

(* select { case sub.ch <- message }: there is room in the queue of c.      *)
Enqueue(c) ==
    /\ c \in fanout
    /\ overflowed = NoConn
    /\ Len(queue[c]) < QueueSize
    /\ queue' = [queue EXCEPT ![c] = Append(@, delta)]
    /\ fanout' = fanout \ {c}
    /\ UNCHANGED <<hubVars, subscribers, delta, overflowed, receiving,
                   handler, wire, alive, shownVars, ctrlVars, faults>>

(* select { default }: the queue of c is full, start draining it.           *)
Overflow(c) ==
    /\ c \in fanout
    /\ overflowed = NoConn
    /\ Len(queue[c]) >= QueueSize
    /\ overflowed' = c
    /\ UNCHANGED <<hubVars, subscribers, fanout, delta, receiving,
                   connVars, shownVars, ctrlVars, faults>>

(* for len(sub.ch) > 0: the loop condition is true.                         *)
DrainTest ==
    /\ overflowed # NoConn
    /\ ~receiving
    /\ queue[overflowed] # <<>>
    /\ receiving' = TRUE
    /\ UNCHANGED <<hubVars, subscribers, fanout, delta, overflowed,
                   connVars, shownVars, ctrlVars, faults>>

(* <-sub.ch: blocks while the queue is empty.                               *)
DrainReceive ==
    /\ receiving
    /\ queue[overflowed] # <<>>
    /\ queue' = [queue EXCEPT ![overflowed] = Tail(@)]
    /\ receiving' = FALSE
    /\ UNCHANGED <<hubVars, subscribers, fanout, delta, overflowed,
                   handler, wire, alive, shownVars, ctrlVars, faults>>

(* The loop ended: the outcome, close(sub.ch), delete(subscribers, id).     *)
DrainDone ==
    /\ overflowed # NoConn
    /\ ~receiving
    /\ queue[overflowed] = <<>>
    /\ queue' = [queue EXCEPT ![overflowed] = <<Resync>>]
    /\ subscribers' = subscribers \ {overflowed}
    /\ fanout' = fanout \ {overflowed}
    /\ overflowed' = NoConn
    /\ UNCHANGED <<hubVars, delta, receiving, handler, wire, alive,
                   shownVars, ctrlVars, faults>>

(* commandUnsubscribe, for a handler that has returned.                     *)
Unsubscribe(c) ==
    /\ handler[c] = "leaving"
    /\ WriterReady
    /\ subscribers' = subscribers \ {c}
    /\ queue' = [queue EXCEPT ![c] = <<>>]
    /\ handler' = [handler EXCEPT ![c] = "none"]
    /\ UNCHANGED <<hubVars, fanout, delta, overflowed, receiving, wire, alive,
                   shownVars, ctrlVars, faults>>

(* The process ends and another one starts, with a fresh instance ID, an    *)
(* empty projection and no connections.                                     *)
HubRestart ==
    /\ instance < MaxInstance
    /\ instance' = instance + 1
    /\ revision' = 0
    /\ projection' = NewProjection
    /\ committed' = committed \cup {[inst |-> instance + 1, rev |-> 0, proj |-> NewProjection]}
    /\ subscribers' = {}
    /\ fanout' = {}
    /\ overflowed' = NoConn
    /\ receiving' = FALSE
    /\ queue' = [c \in Conns |-> <<>>]
    /\ handler' = [c \in Conns |-> "none"]
    /\ UNCHANGED <<delta, wire, alive, shownVars, ctrlVars, faults>>

-----------------------------------------------------------------------------
(* The WebSocket handler of connection c *)

(* A page speaking another schema gets reload-required and is closed.       *)
Reject(c) ==
    /\ handler[c] = "opened"
    /\ alive[c]
    /\ \E p \in Pages : socket[p] = c /\ pageSchema[p] # Schema[instance]
    /\ wire' = [wire EXCEPT ![c] = Append(@, Reload)]
    /\ handler' = [handler EXCEPT ![c] = "none"]
    /\ UNCHANGED <<hubVars, fanVars, queue, alive, shownVars, ctrlVars, faults>>

(* Registration and snapshot are one command of the single writer.          *)
Subscribe(c) ==
    /\ handler[c] = "opened"
    /\ alive[c]
    /\ \E p \in Pages : socket[p] = c /\ pageSchema[p] = Schema[instance]
    /\ WriterReady
    /\ subscribers' = subscribers \cup {c}
    /\ wire' = [wire EXCEPT ![c] = Append(@, Snapshot(Current))]
    /\ handler' = [handler EXCEPT ![c] = "serving"]
    /\ UNCHANGED <<hubVars, fanout, delta, overflowed, receiving, queue, alive,
                   shownVars, ctrlVars, faults>>

(* case message := <-subscription.C, then the write; an outcome is the last *)
(* message, after which the handler returns.                                *)
ForwardMessage(c) ==
    /\ handler[c] = "serving"
    /\ alive[c]
    /\ queue[c] # <<>>
    /\ Len(wire[c]) < WireSize
    /\ queue' = [queue EXCEPT ![c] = Tail(@)]
    /\ wire' = [wire EXCEPT ![c] = Append(@, Head(queue[c]))]
    /\ handler' = [handler EXCEPT ![c] =
                    IF Head(queue[c]) = Resync THEN "leaving" ELSE @]
    /\ UNCHANGED <<hubVars, fanVars, alive, shownVars, ctrlVars, faults>>

(* The browser's end is gone: the read loop ends (case <-disconnected), or  *)
(* the write of one more message fails.  The deferred Cancel follows.       *)
HandlerExit(c) ==
    /\ ~alive[c]
    /\ \/ /\ handler[c] \in {"dialing", "opened"}
          /\ handler' = [handler EXCEPT ![c] = "none"]
          /\ UNCHANGED queue
       \/ /\ handler[c] = "serving"
          /\ handler' = [handler EXCEPT ![c] = "leaving"]
          /\ \/ UNCHANGED queue
             \/ queue[c] # <<>> /\ queue' = [queue EXCEPT ![c] = Tail(@)]
    /\ UNCHANGED <<hubVars, fanVars, wire, alive, shownVars, ctrlVars, faults>>

(* The network path of c breaks and what was in flight is lost.             *)
LoseConnection(c) ==
    /\ faults < MaxFaults
    /\ alive[c]
    /\ faults' = faults + 1
    /\ alive' = [alive EXCEPT ![c] = FALSE]
    /\ wire' = [wire EXCEPT ![c] = <<>>]
    /\ UNCHANGED <<hubVars, fanVars, queue, handler, shownVars, ctrlVars>>

-----------------------------------------------------------------------------
(* The page: StateConnectionController and the reducer.  A handler runs to  *)
(* completion with the microtasks it queued, so each event is one step.     *)

Free(c) == handler[c] = "none" /\ \A p \in Pages : socket[p] # c

(* connect(): a new socket and, until it opens, a status without data.      *)
Dial(p, c, ready) ==
    /\ socket' = [socket EXCEPT ![p] = c]
    /\ handler' = [handler EXCEPT ![c] = "dialing"]
    /\ wire' = [wire EXCEPT ![c] = <<>>]
    /\ alive' = [alive EXCEPT ![c] = TRUE]
    /\ status' = [status EXCEPT ![p] = IF ready THEN "reconnecting" ELSE "connecting"]

(* socket.close(), the handlers of the socket already detached.             *)
DropSocket(p) ==
    /\ socket' = [socket EXCEPT ![p] = NoConn]
    /\ alive' = [alive EXCEPT ![socket[p]] = FALSE]
    /\ wire' = [wire EXCEPT ![socket[p]] = <<>>]

(* A defect: the socket is dropped but no reconnect is scheduled.           *)
RehydrateWithoutTimer(p) ==
    /\ status' = [status EXCEPT ![p] = "rehydrating"]
    /\ DropSocket(p)
    /\ UNCHANGED timer

(* rehydrate(): drop the socket and, unless hidden, reconnect at once.      *)
Rehydrate(p) ==
    /\ status' = [status EXCEPT ![p] = "rehydrating"]
    /\ DropSocket(p)
    /\ timer' = [timer EXCEPT ![p] = ~hidden[p]]

(* The first envelope on the current socket of p is of the given type.      *)
Receives(p, type) ==
    /\ socket[p] # NoConn
    /\ wire[socket[p]] # <<>>
    /\ Head(wire[socket[p]]).type = type

(* The connection of p has ended and everything received on it is handled.  *)
Ended(p) ==
    /\ socket[p] # NoConn
    /\ wire[socket[p]] = <<>>
    /\ ~alive[socket[p]] \/ handler[socket[p]] \in {"none", "leaving"}

Handled(p) == wire' = [wire EXCEPT ![socket[p]] = Tail(@)]

(* The frontend is loaded (again) from the running hub and start()s.  The   *)
(* user reloads a page that asks for it; a tab may load in the background.  *)
LoadPage(p) ==
    /\ status[p] \in {"unloaded", "reload-required"}
    /\ socket[p] = NoConn
    /\ pageSchema' = [pageSchema EXCEPT ![p] = Schema[instance]]
    /\ view' = [view EXCEPT ![p] = NoView]
    /\ synced' = [synced EXCEPT ![p] = FALSE]
    /\ \/ /\ hidden' = [hidden EXCEPT ![p] = FALSE]
          /\ \E c \in Conns : Free(c) /\ Dial(p, c, FALSE)
       \/ /\ hidden' = [hidden EXCEPT ![p] = TRUE]
          /\ status' = [status EXCEPT ![p] = "connecting"]
          /\ UNCHANGED <<socket, handler, wire, alive>>
    /\ UNCHANGED <<hubVars, fanVars, queue, timer, faults>>

(* socket.onopen: open, but not yet synchronised.                           *)
OnOpen(p) ==
    /\ socket[p] # NoConn
    /\ handler[socket[p]] = "dialing"
    /\ alive[socket[p]]
    /\ handler' = [handler EXCEPT ![socket[p]] = "opened"]
    /\ status' = [status EXCEPT ![p] = "rehydrating"]
    /\ UNCHANGED <<hubVars, fanVars, queue, wire, alive, view, synced, ctrlVars, faults>>

(* The reducer refuses a snapshot of another schema, but the controller     *)
(* announces ready for every snapshot.                                      *)
OnSnapshot(p) ==
    /\ Receives(p, "snapshot")
    /\ LET s == Head(wire[socket[p]]).state IN
         view' = [view EXCEPT ![p] = IF Schema[s.inst] = pageSchema[p] THEN s ELSE @]
    /\ status' = [status EXCEPT ![p] = "ready"]
    /\ synced' = [synced EXCEPT ![p] = TRUE]
    /\ Handled(p)
    /\ UNCHANGED <<hubVars, fanVars, queue, handler, alive, ctrlVars, faults>>

(* A defect: the base of a delta is not compared with the revision shown.   *)
HasGapByInstance(v, d) == v = NoView \/ d.inst # v.inst

(* The provider's gap test, which the reducer's agrees with.                *)
HasGap(v, d) ==
    \/ v = NoView
    \/ d.inst # v.inst
    \/ d.rev > v.rev /\ d.base # v.rev

(* A delta that is old is ignored, the next one is applied.                 *)
OnDelta(p) ==
    LET d == Head(wire[socket[p]])
        v == view[p]
    IN
    /\ Receives(p, "delta")
    /\ ~HasGap(v, d)
    /\ IF d.rev <= v.rev
       THEN UNCHANGED <<view, status>>
       ELSE /\ view' = [view EXCEPT ![p] =
                          [inst |-> v.inst, rev |-> d.rev, proj |-> ApplyBatch(v.proj, d.ops)]]
            /\ status' = [status EXCEPT ![p] = "ready"]
    /\ Handled(p)
    /\ UNCHANGED <<hubVars, fanVars, queue, handler, alive, synced, ctrlVars, faults>>

(* A gap: the delta is discarded and a microtask rehydrates the page.       *)
OnGap(p) ==
    /\ Receives(p, "delta")
    /\ HasGap(view[p], Head(wire[socket[p]]))
    /\ Rehydrate(p)
    /\ UNCHANGED <<hubVars, fanVars, queue, handler, view, synced, hidden, pageSchema, faults>>

OnResync(p) ==
    /\ Receives(p, "resync-required")
    /\ Rehydrate(p)
    /\ UNCHANGED <<hubVars, fanVars, queue, handler, view, synced, hidden, pageSchema, faults>>

(* reload-required: stopSocket, and no timer.                               *)
OnReload(p) ==
    /\ Receives(p, "reload-required")
    /\ status' = [status EXCEPT ![p] = "reload-required"]
    /\ DropSocket(p)
    /\ UNCHANGED <<hubVars, fanVars, queue, handler, view, synced, timer, hidden,
                   pageSchema, faults>>

(* socket.onclose, after onerror or after the last message of the server.   *)
(* A hidden page neither schedules a reconnect nor changes its status.      *)
OnClose(p) ==
    /\ Ended(p)
    /\ DropSocket(p)
    /\ IF hidden[p]
       THEN UNCHANGED <<timer, status>>
       ELSE /\ timer' = [timer EXCEPT ![p] = TRUE]
            /\ status' = [status EXCEPT ![p] =
                            IF synced[p] THEN "reconnecting" ELSE "connecting"]
    /\ UNCHANGED <<hubVars, fanVars, queue, handler, view, synced, hidden, pageSchema, faults>>

(* The reconnect timer fires; connect() does nothing on a hidden page.      *)
TimerFires(p) ==
    /\ timer[p]
    /\ timer' = [timer EXCEPT ![p] = FALSE]
    /\ IF hidden[p]
       THEN UNCHANGED <<socket, handler, wire, alive, status>>
       ELSE \E c \in Conns : Free(c) /\ Dial(p, c, synced[p])
    /\ UNCHANGED <<hubVars, fanVars, queue, view, synced, hidden, pageSchema, faults>>

Hide(p) ==
    /\ faults < MaxFaults
    /\ status[p] # "unloaded"
    /\ ~hidden[p]
    /\ hidden' = [hidden EXCEPT ![p] = TRUE]
    /\ faults' = faults + 1
    /\ UNCHANGED <<hubVars, fanVars, connVars, shownVars, socket, timer, pageSchema>>

(* A defect: a pending reconnect timer does not stop a second connection.   *)
AvailableDespiteTimer(p) ==
    /\ status[p] # "unloaded"
    /\ hidden[p]
    /\ hidden' = [hidden EXCEPT ![p] = FALSE]
    /\ socket[p] = NoConn
    /\ \E c \in Conns : Free(c) /\ Dial(p, c, synced[p])
    /\ UNCHANGED <<hubVars, fanVars, queue, view, synced, timer, pageSchema, faults>>

(* visibilitychange of a hidden page, or pageshow of a visible one:         *)
(* onPageAvailable reconnects a page that has no timer and no socket, or    *)
(* one that is closing already: its onclose then finds another generation.  *)
OnPageAvailable(p) ==
    /\ status[p] # "unloaded"
    /\ \/ hidden[p] /\ UNCHANGED faults
       \/ ~hidden[p] /\ faults < MaxFaults /\ faults' = faults + 1
    /\ hidden' = [hidden EXCEPT ![p] = FALSE]
    /\ \/ /\ timer[p] \/ socket[p] # NoConn
          /\ UNCHANGED <<socket, handler, wire, alive, status>>
       \/ /\ ~timer[p]
          /\ socket[p] = NoConn \/ Ended(p)
          /\ \E c \in Conns : Free(c) /\ Dial(p, c, synced[p])
    /\ UNCHANGED <<hubVars, fanVars, queue, view, synced, timer, pageSchema>>

-----------------------------------------------------------------------------
FanOutStep ==
    \/ \E c \in Conns : Enqueue(c) \/ Overflow(c)
    \/ DrainTest \/ DrainReceive \/ DrainDone

HandlerStep(c) ==
    \/ Reject(c) \/ Subscribe(c) \/ ForwardMessage(c) \/ HandlerExit(c) \/ Unsubscribe(c)

PageStep(p) ==
    \/ OnOpen(p) \/ OnSnapshot(p) \/ OnDelta(p) \/ OnGap(p) \/ OnResync(p)
    \/ OnReload(p) \/ OnClose(p) \/ TimerFires(p)

Next ==
    \/ \E batch \in Batches : Commit(batch)
    \/ FanOutStep
    \/ HubRestart
    \/ \E c \in Conns : HandlerStep(c) \/ LoseConnection(c)
    \/ \E p \in Pages : PageStep(p) \/ LoadPage(p) \/ Hide(p) \/ OnPageAvailable(p)

(* Goroutines and browser tasks that can run do run.  Nobody has to commit, *)
(* restart the hub, reload or show a page, and nothing has to fail.         *)
Fairness ==
    /\ WF_vars(FanOutStep)
    /\ \A c \in Conns : WF_vars(HandlerStep(c))
    /\ \A p \in Pages : WF_vars(PageStep(p))

Spec == Init /\ [][Next]_vars /\ Fairness

-----------------------------------------------------------------------------
(* Safety *)

(* A page never shows a state no hub process committed: snapshot and deltas *)
(* add up to exactly the projection the coordinator had at that revision,   *)
(* whatever was drained, lost, resent after a restart or still in flight.   *)
ShowsCommitted == \A p \in Pages : view[p] # NoView => view[p] \in committed

(* What page p has still to receive from the hub on its current connection. *)
Pending(p) == wire[socket[p]] \o queue[socket[p]]

(* A page that announces ready is following the hub: its connection has not *)
(* silently lost a revision.  The envelopes under way are the deltas from   *)
(* the revision it shows to the hub's, less the one the writer has not yet  *)
(* fanned out, unless the subscription was or is being cut, in which case   *)
(* the stream ends and the page will notice (coordinator.go:213-228,        *)
(* reducer.ts:96-105).                                                      *)
ReadyFollowsHub ==
    \A p \in Pages :
        LET c == socket[p] IN
        status[p] = "ready" =>
            /\ view[p] # NoView
            /\ c = NoConn => hidden[p]
            /\ (c \in subscribers /\ c # overflowed /\ alive[c] /\ handler[c] = "serving") =>
                /\ view[p].inst = instance
                /\ view[p].rev + Len(Pending(p)) + (IF c \in fanout THEN 1 ELSE 0) = revision
                /\ \A i \in DOMAIN Pending(p) :
                    /\ Pending(p)[i].type = "delta"
                    /\ Pending(p)[i].base = view[p].rev + i - 1
            /\ (c # NoConn /\ c \notin subscribers /\ handler[c] = "serving") =>
                    queue[c] = <<Resync>>

(* The controller can neither stall nor pile up connections: a loaded,      *)
(* visible page has a socket or a pending timer, never both, and a page     *)
(* told to reload has neither (connection.ts:77-173).                       *)
ReconnectDiscipline ==
    \A p \in Pages :
        /\ timer[p] => socket[p] = NoConn
        /\ status[p] \in {"unloaded", "reload-required"} => ~timer[p] /\ socket[p] = NoConn
        /\ (~hidden[p] /\ status[p] \notin {"unloaded", "reload-required"}) =>
                timer[p] \/ socket[p] # NoConn

(* A slow subscriber is cut, it never blocks the writer for everyone.       *)
WriterBlocked == receiving /\ queue[overflowed] = <<>>

SlowSubscriberCannotBlockWriter == ~WriterBlocked

(* A page never goes back in time, except by being loaded again: a restart, *)
(* a reconnect or a late message never replaces a state by an older one.    *)
NeverBackwards ==
    [][\A p \in Pages : view'[p] # NoView => Forward(view[p], view'[p])]_vars

(* Together: the pages are readers of a revisioned state.                   *)
RS == INSTANCE RevisionedState WITH committed <- committed, view <- view

ImplementsRevisionedState == RS!AbsSpec

-----------------------------------------------------------------------------
(* The inductive invariant behind ShowsCommitted and NeverBackwards *)

(* One state per instance and revision, and the current one is the latest.  *)
CommittedHistory ==
    /\ Current \in committed
    /\ \A s \in committed : NotAfter(s, Current)
    /\ \A s, t \in committed : s.inst = t.inst /\ s.rev = t.rev => s = t

(* Given the committed states C, an envelope m tells the truth: a snapshot  *)
(* is one of them, a delta leads from one to the next one.                  *)
Genuine(C, m) ==
    /\ m.type = "snapshot" => m.state \in C
    /\ m.type = "delta" =>
        /\ m.rev = m.base + 1
        /\ \E t \in C : NotAfter(m, t)
        /\ \A s \in C : s.inst = m.inst /\ s.rev = m.base =>
            [inst |-> m.inst, rev |-> m.rev, proj |-> ApplyBatch(s.proj, m.ops)] \in C

(* The envelopes a page may still be sent.                                  *)
InFlight == {delta} \cup UNION {Range(queue[c]) \cup Range(wire[c]) : c \in Conns}

EnvelopesGenuine == \A m \in InFlight : Genuine(committed, m)

(* The snapshot is the first envelope of a connection ...                   *)
SnapshotFirst ==
    /\ delta.type # "snapshot"
    /\ \A c \in Conns :
        /\ \A m \in Range(queue[c]) : m.type # "snapshot"
        /\ handler[c] \in {"dialing", "opened"} => wire[c] = <<>>
        /\ \A i \in 2 .. Len(wire[c]) : wire[c][i].type # "snapshot"

(* ... and the page that waits for it shows nothing later.                  *)
SnapshotAwaited ==
    \A p \in Pages :
        Receives(p, "snapshot") => Forward(view[p], Head(wire[socket[p]]).state)

ViewsCommitted == \A p \in Pages : view[p] \in committed \cup {NoView}

HistoryInv ==
    /\ TypeOK
    /\ CommittedHistory
    /\ EnvelopesGenuine
    /\ SnapshotFirst
    /\ SnapshotAwaited
    /\ ViewsCommitted

-----------------------------------------------------------------------------
(* The inductive invariant behind ReadyFollowsHub *)

(* Message m brings a page that follows hub process i to revision r.        *)
Brings(i, m, r) ==
    \/ m.type = "delta" /\ m.inst = i /\ m.base = r - 1 /\ m.rev = r
    \/ m.type = "snapshot" /\ m.state.inst = i /\ m.state.rev = r

(* Revisions the writer has still to send on c.                             *)
Unsent(c) == IF c \in fanout THEN 1 ELSE 0

(* A subscription nobody has cut, cancelled or lost.                        *)
Live(c) == c \in subscribers /\ c # overflowed /\ alive[c] /\ handler[c] = "serving"

(* A subscription begins when its handler serves, and whoever cuts it says  *)
(* so in the queue.                                                         *)
Subscriptions ==
    /\ fanout \subseteq subscribers
    /\ overflowed \in fanout \cup {NoConn}
    /\ fanout # {} => delta.type = "delta" /\ Brings(instance, delta, revision)
    /\ \A c \in Conns :
        /\ handler[c] \in {"none", "dialing", "opened"} => c \notin subscribers /\ queue[c] = <<>>
        /\ handler[c] = "serving" /\ c \notin subscribers => queue[c] = <<Resync>>

(* What is under way brings the page, one by one, to the hub's revision.    *)
Streams ==
    \A c \in Conns : Live(c) =>
        /\ \A i \in 1 .. Len(wire[c]) :
             Brings(instance, wire[c][i], revision - (Len(wire[c]) - i + Len(queue[c]) + Unsent(c)))
        /\ \A i \in 1 .. Len(queue[c]) :
             /\ queue[c][i].type = "delta"
             /\ Brings(instance, queue[c][i], revision - (Len(queue[c]) - i + Unsent(c)))

(* And the page that has its snapshot is where the stream begins.           *)
Followed ==
    \A p \in Pages : socket[p] # NoConn /\ Live(socket[p]) /\ ~ Receives(p, "snapshot") =>
        /\ view[p] # NoView
        /\ view[p].inst = instance
        /\ view[p].rev + Len(wire[socket[p]]) + Len(queue[socket[p]]) + Unsent(socket[p]) = revision

(* No two pages share a connection; a page is ready once it has handled its *)
(* snapshot, which speaks its schema.                                       *)
Readiness ==
    /\ \A p, q \in Pages : socket[p] = socket[q] /\ socket[p] # NoConn => p = q
    /\ \A p \in Pages :
        /\ status[p] = "ready" =>
             /\ view[p] # NoView /\ ~ timer[p]
             /\ socket[p] # NoConn => handler[socket[p]] \notin {"dialing", "opened"}
        /\ Receives(p, "snapshot") =>
             /\ status[p] # "ready"
             /\ Schema[Head(wire[socket[p]]).state.inst] = pageSchema[p]

IInv ==
    /\ HistoryInv
    /\ ReconnectDiscipline
    /\ Subscriptions
    /\ Streams
    /\ Followed
    /\ Readiness

-----------------------------------------------------------------------------
(* Liveness *)

InSync(p) == view[p] = Current /\ status[p] = "ready"

(* Once hub, network and user are quiet, every page that is visible, and    *)
(* not waiting to be reloaded, ends up showing the hub's current state,     *)
(* unless the writer is blocked (see SlowSubscriberCannotBlockWriter).      *)
Converges ==
    \A p \in Pages :
        <>[](\/ hidden[p]
            \/ status[p] \in {"unloaded", "reload-required"}
            \/ WriterBlocked
            \/ InSync(p))

(* A frontend too old or too new for the hub is not left reconnecting for   *)
(* ever: its page ends up asking to be reloaded (hub.go:297-311,            *)
(* connection.ts:112-132).                                                  *)
ReloadRequested ==
    \A p \in Pages :
        <>[](\/ hidden[p]
            \/ status[p] \in {"unloaded", "reload-required"}
            \/ WriterBlocked
            \/ pageSchema[p] = Schema[instance])

(* The subscription of a connection its page has left does not stay: the    *)
(* handler notices, cancels, and the writer forgets it.                     *)
SubscriptionsReleased ==
    \A c \in Conns :
        (c \in subscribers /\ ~alive[c]) ~> (c \notin subscribers \/ WriterBlocked)
=============================================================================
