--------------------------- MODULE StateSyncProofs ---------------------------
(***************************************************************************)
(* Proofs about StateSync for every set of pages, connections, keys and    *)
(* values, every queue and wire size and every bound.  First its type      *)
(* invariant; then, from the inductive invariant HistoryInv, that a page   *)
(* only shows committed states and never goes back in time, and that       *)
(* StateSync implements RevisionedState; and from the larger one, IInv,    *)
(* that a page that announces ready follows the hub.                       *)
(***************************************************************************)
EXTENDS StateSync, TLAPS

(* Facts about the operators the model is built from. *)

(* A batch of operations turns a projection into a projection.             *)
LEMMA ApplyBatchType ==
    ASSUME NEW proj \in Projections, NEW batch \in Seq(Operations)
    PROVE  ApplyBatch(proj, batch) \in Projections
<1>1. ASSUME NEW k \in Keys
      PROVE  LastWrite(batch, k) \subseteq Values \cup {Absent}
  <2>1. \A i \in DOMAIN batch : batch[i] \in Operations
    OBVIOUS
  <2>2. QED
    BY <2>1 DEF LastWrite, Operations
<1>2. ASSUME NEW k \in Keys
      PROVE  (IF LastWrite(batch, k) = {} THEN proj[k]
              ELSE CHOOSE v \in LastWrite(batch, k) : TRUE) \in Values \cup {Absent}
  BY <1>1 DEF Projections
<1>3. QED
  BY <1>2 DEF ApplyBatch, Projections

(* The empty projection is a projection.                                   *)
LEMMA NewProjectionType == NewProjection \in Projections
BY DEF NewProjection, Projections

(* Every envelope the hub builds is an envelope of the protocol.           *)
LEMMA EnvelopeTypes ==
    /\ Resync \in Envelopes
    /\ Reload \in Envelopes
    /\ \A s \in States : Snapshot(s) \in Envelopes
    /\ \A i, r \in Nat, batch \in Batches : Delta(i, r, batch) \in Envelopes
BY DEF Resync, Reload, Snapshot, Delta, Envelopes

(* What the types of envelopes say of their fields.                        *)
LEMMA EnvelopeFields ==
    ASSUME NEW m \in Envelopes
    PROVE  /\ m.type = "snapshot" => m.state \in States
           /\ m.type = "delta" =>
                /\ m.inst \in Nat /\ m.base \in Nat /\ m.rev \in Nat
                /\ m.ops \in Seq(Operations)
BY StateSyncAssumption DEF Resync, Reload, Envelopes

(* The current position of the hub is a state.                             *)
LEMMA CurrentType == TypeOK => Current \in States
BY StateSyncAssumption DEF TypeOK, Current, States

-----------------------------------------------------------------------------
(* The initial state is well typed.                                        *)
LEMMA InitTypeOK == Init => TypeOK
<1> SUFFICES ASSUME Init PROVE TypeOK
  OBVIOUS
<1>1. Current \in States
  BY NewProjectionType DEF Init, Current, States
<1>2. <<>> \in Seq(Envelopes)
  OBVIOUS
<1>3. Schema[1] \in Nat
  BY StateSyncAssumption
<1>4. queue \in [Conns -> Seq(Envelopes)] /\ wire \in [Conns -> Seq(Envelopes)]
  BY <1>2 DEF Init
<1>5. /\ handler \in [Conns -> {"none", "dialing", "opened", "serving", "leaving"}]
      /\ status \in [Pages -> {"unloaded", "connecting", "reconnecting",
                                "rehydrating", "ready", "reload-required"}]
      /\ alive \in [Conns -> BOOLEAN]
      /\ socket \in [Pages -> Conns \cup {NoConn}]
      /\ pageSchema \in [Pages -> Nat]
      /\ view \in [Pages -> States \cup {NoView}]
      /\ committed \subseteq States
  BY <1>1, <1>3 DEF Init
<1>6. timer \in [Pages -> BOOLEAN] /\ synced \in [Pages -> BOOLEAN] /\ hidden \in [Pages -> BOOLEAN]
  BY DEF Init
<1>7. /\ instance \in 1 .. MaxInstance /\ revision \in 0 .. MaxRevision
      /\ faults \in 0 .. MaxFaults
  BY StateSyncAssumption DEF Init
<1>8. QED
  BY <1>4, <1>5, <1>6, <1>7, NewProjectionType, EnvelopeTypes DEF Init, TypeOK

(* The writer's steps preserve the types.                                  *)
LEMMA HubTypeOK ==
    TypeOK /\ ((\E batch \in Batches : Commit(batch)) \/ FanOutStep \/ HubRestart)
        => TypeOK'
<1> SUFFICES ASSUME TypeOK,
                    (\E batch \in Batches : Commit(batch)) \/ FanOutStep \/ HubRestart
             PROVE  TypeOK'
  OBVIOUS
<1> USE StateSyncAssumption DEF fanVars, connVars, shownVars, ctrlVars, hubVars
<1>1. ASSUME NEW batch \in Batches, Commit(batch) PROVE TypeOK'
  <2>1. ApplyBatch(projection, batch) \in Projections
    BY ApplyBatchType DEF TypeOK
  <2>2. Delta(instance, revision, batch) \in Envelopes
    BY EnvelopeTypes DEF TypeOK
  <2>3. [inst |-> instance, rev |-> revision + 1, proj |-> ApplyBatch(projection, batch)]
            \in States
    BY <2>1 DEF TypeOK, States
  <2>4. QED
    BY <1>1, <2>1, <2>2, <2>3 DEF Commit, TypeOK
<1>2. ASSUME NEW c \in Conns, Enqueue(c) PROVE TypeOK'
  BY <1>2 DEF Enqueue, TypeOK
<1>3. ASSUME NEW c \in Conns, Overflow(c) PROVE TypeOK'
  BY <1>3 DEF Overflow, TypeOK
<1>4. CASE DrainTest
  BY <1>4 DEF DrainTest, TypeOK
<1>5. CASE DrainReceive
  <2>1. queue' \in [Conns -> Seq(Envelopes)]
    <3>1. CASE overflowed \in Conns
      <4>1. Tail(queue[overflowed]) \in Seq(Envelopes)
        BY <1>5, <3>1 DEF DrainReceive, TypeOK
      <4>2. QED
        BY <1>5, <4>1 DEF DrainReceive, TypeOK
    <3>2. CASE overflowed \notin Conns
      BY <1>5, <3>2 DEF DrainReceive, TypeOK
    <3>3. QED
      BY <3>1, <3>2
  <2>2. QED
    BY <1>5, <2>1 DEF DrainReceive, TypeOK
<1>6. CASE DrainDone
  <2>1. <<Resync>> \in Seq(Envelopes)
    BY EnvelopeTypes
  <2>2. QED
    BY <1>6, <2>1 DEF DrainDone, TypeOK
<1>7. CASE HubRestart
  <2>1. [inst |-> instance + 1, rev |-> 0, proj |-> NewProjection] \in States
    BY NewProjectionType DEF TypeOK, States
  <2>2. queue' \in [Conns -> Seq(Envelopes)] /\ committed' \subseteq States
    BY <1>7, <2>1 DEF HubRestart, TypeOK
  <2>3. handler' \in [Conns -> {"none", "dialing", "opened", "serving", "leaving"}]
    BY <1>7 DEF HubRestart
  <2>4. instance' \in 1 .. MaxInstance /\ revision' \in 0 .. MaxRevision
    BY <1>7 DEF HubRestart, TypeOK
  <2>5. QED
    BY <1>7, <2>2, <2>3, <2>4, NewProjectionType DEF HubRestart, TypeOK
<1>8. QED
  BY <1>1, <1>2, <1>3, <1>4, <1>5, <1>6, <1>7 DEF FanOutStep

(* The handlers' steps, and the network's, preserve the types.             *)
LEMMA HandlerTypeOK ==
    ASSUME TypeOK, NEW c \in Conns, HandlerStep(c) \/ LoseConnection(c)
    PROVE  TypeOK'
<1> USE StateSyncAssumption DEF fanVars, connVars, shownVars, ctrlVars, hubVars
<1>0. <<>> \in Seq(Envelopes)
  OBVIOUS
<1>1. CASE Reject(c)
  BY <1>1, EnvelopeTypes DEF Reject, TypeOK
<1>2. CASE Subscribe(c)
  <2>1. Snapshot(Current) \in Envelopes
    BY CurrentType, EnvelopeTypes
  <2>2. QED
    BY <1>2, <2>1 DEF Subscribe, TypeOK
<1>3. CASE ForwardMessage(c)
  <2>1. Head(queue[c]) \in Envelopes /\ Tail(queue[c]) \in Seq(Envelopes)
    BY <1>3 DEF ForwardMessage, TypeOK
  <2>2. QED
    BY <1>3, <2>1 DEF ForwardMessage, TypeOK
<1>4. CASE HandlerExit(c)
  <2>1. queue' \in [Conns -> Seq(Envelopes)]
    <3>1. queue[c] # <<>> => Tail(queue[c]) \in Seq(Envelopes)
      BY DEF TypeOK
    <3>2. QED
      BY <1>4, <3>1 DEF HandlerExit, TypeOK
  <2>2. handler' \in [Conns -> {"none", "dialing", "opened", "serving", "leaving"}]
    BY <1>4 DEF HandlerExit, TypeOK
  <2>3. QED
    BY <1>4, <2>1, <2>2 DEF HandlerExit, TypeOK
<1>5. CASE Unsubscribe(c)
  BY <1>5, <1>0 DEF Unsubscribe, TypeOK
<1>6. CASE LoseConnection(c)
  BY <1>6, <1>0 DEF LoseConnection, TypeOK
<1>7. QED
  BY <1>1, <1>2, <1>3, <1>4, <1>5, <1>6 DEF HandlerStep

(* The types of what connecting a page changes.                            *)
DialledTypes ==
    /\ socket' \in [Pages -> Conns \cup {NoConn}]
    /\ handler' \in [Conns -> {"none", "dialing", "opened", "serving", "leaving"}]
    /\ wire' \in [Conns -> Seq(Envelopes)]
    /\ alive' \in [Conns -> BOOLEAN]
    /\ status' \in [Pages -> {"unloaded", "connecting", "reconnecting",
                              "rehydrating", "ready", "reload-required"}]

(* What dialling, and dropping or reading the socket, do to the types.     *)
LEMMA DialType ==
    ASSUME TypeOK, NEW p \in Pages, NEW c \in Conns, NEW b \in BOOLEAN, Dial(p, c, b)
    PROVE  DialledTypes
<1>1. <<>> \in Seq(Envelopes)
  OBVIOUS
<1>2. QED
  BY <1>1 DEF Dial, TypeOK, DialledTypes

LEMMA DropSocketType ==
    ASSUME TypeOK, NEW p \in Pages, DropSocket(p)
    PROVE  /\ socket' \in [Pages -> Conns \cup {NoConn}]
           /\ wire' \in [Conns -> Seq(Envelopes)]
           /\ alive' \in [Conns -> BOOLEAN]
<1>1. <<>> \in Seq(Envelopes)
  OBVIOUS
<1>2. QED
  BY <1>1 DEF DropSocket, TypeOK

LEMMA ReceivesType ==
    ASSUME TypeOK, NEW p \in Pages, NEW type, Receives(p, type)
    PROVE  /\ socket[p] \in Conns
           /\ Head(wire[socket[p]]) \in Envelopes
           /\ Head(wire[socket[p]]).type = type
           /\ Handled(p) => wire' \in [Conns -> Seq(Envelopes)]
<1>1. socket[p] \in Conns /\ wire[socket[p]] \in Seq(Envelopes) /\ wire[socket[p]] # <<>>
  BY DEF Receives, TypeOK
<1>2. Head(wire[socket[p]]) \in Envelopes /\ Tail(wire[socket[p]]) \in Seq(Envelopes)
  BY <1>1
<1>3. QED
  BY <1>1, <1>2 DEF Receives, Handled, TypeOK

(* The pages' steps preserve the types.                                    *)
LEMMA PageTypeOK ==
    ASSUME TypeOK, NEW p \in Pages,
           PageStep(p) \/ LoadPage(p) \/ Hide(p) \/ OnPageAvailable(p)
    PROVE  TypeOK'
<1> USE StateSyncAssumption DEF fanVars, connVars, shownVars, ctrlVars, hubVars
<1>1. CASE OnOpen(p)
  BY <1>1 DEF OnOpen, TypeOK
<1>2. CASE OnSnapshot(p)
  <2>1. Receives(p, "snapshot") /\ Handled(p)
    BY <1>2 DEF OnSnapshot
  <2>2. Head(wire[socket[p]]).state \in States
    BY <2>1, ReceivesType, EnvelopeFields
  <2>3. view' \in [Pages -> States \cup {NoView}]
    BY <1>2, <2>2 DEF OnSnapshot, TypeOK
  <2>4. wire' \in [Conns -> Seq(Envelopes)]
    BY <2>1, ReceivesType
  <2>5. QED
    BY <1>2, <2>3, <2>4 DEF OnSnapshot, TypeOK
<1>3. CASE OnDelta(p)
  <2> DEFINE d == Head(wire[socket[p]])
             v == view[p]
             w == [inst |-> v.inst, rev |-> d.rev, proj |-> ApplyBatch(v.proj, d.ops)]
  <2>1. Receives(p, "delta") /\ Handled(p) /\ ~HasGap(v, d)
    BY <1>3 DEF OnDelta
  <2>2. d.rev \in Nat /\ d.ops \in Seq(Operations)
    BY <2>1, ReceivesType, EnvelopeFields
  <2>3. v \in States
    BY <2>1 DEF HasGap, TypeOK
  <2>4. w \in States
    BY <2>2, <2>3, ApplyBatchType DEF States
  <2>5. view' = view \/ view' = [view EXCEPT ![p] = w]
    BY <1>3 DEF OnDelta
  <2>6. view' \in [Pages -> States \cup {NoView}]
    BY <2>4, <2>5 DEF TypeOK
  <2>7. wire' \in [Conns -> Seq(Envelopes)]
    BY <2>1, ReceivesType
  <2>8. QED
    BY <1>3, <2>6, <2>7 DEF OnDelta, TypeOK
<1>4. CASE OnGap(p) \/ OnResync(p)
  <2>1. Rehydrate(p)
    BY <1>4 DEF OnGap, OnResync
  <2>2. QED
    BY <1>4, <2>1, DropSocketType DEF OnGap, OnResync, Rehydrate, TypeOK
<1>5. CASE OnReload(p)
  <2>1. DropSocket(p)
    BY <1>5 DEF OnReload
  <2>2. QED
    BY <1>5, <2>1, DropSocketType DEF OnReload, TypeOK
<1>6. CASE OnClose(p)
  <2>1. DropSocket(p)
    BY <1>6 DEF OnClose
  <2>2. QED
    BY <1>6, <2>1, DropSocketType DEF OnClose, TypeOK
<1>7. CASE TimerFires(p)
  <2>1. synced[p] \in BOOLEAN
    BY DEF TypeOK
  <2>2. CASE hidden[p]
    BY <1>7, <2>2 DEF TimerFires, TypeOK
  <2>3. CASE ~hidden[p]
    <3>1. PICK c \in Conns : Dial(p, c, synced[p])
      BY <1>7, <2>3 DEF TimerFires
    <3>2. DialledTypes
      BY <2>1, <3>1, DialType
    <3>3. QED
      BY <1>7, <3>2 DEF TimerFires, TypeOK, DialledTypes
  <2>4. QED
    BY <2>2, <2>3
<1>8. CASE LoadPage(p)
  <2>1. Schema[instance] \in Nat
    BY DEF TypeOK
  <2>2. CASE \E c \in Conns : Free(c) /\ Dial(p, c, FALSE)
    BY <1>8, <2>1, <2>2, DialType DEF LoadPage, TypeOK, DialledTypes
  <2>3. CASE ~\E c \in Conns : Free(c) /\ Dial(p, c, FALSE)
    BY <1>8, <2>1, <2>3 DEF LoadPage, TypeOK
  <2>4. QED
    BY <2>2, <2>3
<1>9. CASE Hide(p)
  BY <1>9 DEF Hide, TypeOK
<1>10. CASE OnPageAvailable(p)
  <2>1. synced[p] \in BOOLEAN
    BY DEF TypeOK
  <2>2. CASE UNCHANGED <<socket, handler, wire, alive, status>>
    BY <1>10, <2>2 DEF OnPageAvailable, TypeOK
  <2>3. CASE \E c \in Conns : Dial(p, c, synced[p])
    <3>1. PICK c \in Conns : Dial(p, c, synced[p])
      BY <2>3
    <3>2. faults' \in 0 .. MaxFaults
      BY <1>10 DEF OnPageAvailable, TypeOK
    <3>3. DialledTypes
      BY <2>1, <3>1, DialType
    <3>4. QED
      BY <1>10, <3>2, <3>3 DEF OnPageAvailable, TypeOK, DialledTypes
  <2>4. QED
    BY <1>10, <2>2, <2>3 DEF OnPageAvailable
<1>11. QED
  BY <1>1, <1>2, <1>3, <1>4, <1>5, <1>6, <1>7, <1>8, <1>9, <1>10 DEF PageStep

LEMMA NextTypeOK == TypeOK /\ [Next]_vars => TypeOK'
<1> SUFFICES ASSUME TypeOK, [Next]_vars PROVE TypeOK'
  OBVIOUS
<1>1. CASE UNCHANGED vars
  BY <1>1 DEF TypeOK, vars, hubVars, fanVars, connVars, shownVars, ctrlVars
<1>2. CASE Next
  BY <1>2, HubTypeOK, HandlerTypeOK, PageTypeOK DEF Next
<1>3. QED
  BY <1>1, <1>2

(* Type correctness: every reachable state is well typed, whatever the     *)
(* order in which writer, handlers, network and pages take their steps.    *)
THEOREM TypeCorrect == Spec => []TypeOK
BY InitTypeOK, NextTypeOK, PTL DEF Spec

-----------------------------------------------------------------------------
(* The elements of a sequence and of what Append and Tail make of it.      *)
LEMMA SeqElements ==
    ASSUME NEW S, NEW q \in Seq(S), NEW e \in S
    PROVE  /\ Range(<<>>) = {}
           /\ Range(<<e>>) = {e}
           /\ Range(Append(q, e)) \subseteq Range(q) \cup {e}
           /\ Range(q) \subseteq S
           /\ q # <<>> => /\ Head(q) \in Range(q)
                          /\ Range(Tail(q)) \subseteq Range(q)
<1>1. Range(<<>>) = {} /\ Range(<<e>>) = {e}
  BY DEF Range
<1>2. Range(q) \subseteq S
  BY DEF Range
<1>3. Range(Append(q, e)) \subseteq Range(q) \cup {e}
  BY DEF Range
<1>4. ASSUME q # <<>>
      PROVE  Head(q) \in Range(q) /\ Range(Tail(q)) \subseteq Range(q)
  BY <1>4 DEF Range
<1>5. QED
  BY <1>1, <1>2, <1>3, <1>4

(* A truthful envelope stays truthful when the hub commits a later state.  *)
LEMMA GenuineGrows ==
    ASSUME NEW C \in SUBSET States, NEW n \in States,
           \A t \in C : NotAfter(t, n) /\ ~NotAfter(n, t),
           NEW m \in Envelopes, Genuine(C, m)
    PROVE  Genuine(C \cup {n}, m)
<1>1. CASE m.type = "delta"
  <2>1. PICK t \in C : NotAfter(m, t)
    BY <1>1 DEF Genuine
  <2>2. m.inst \in Nat /\ m.rev \in Nat /\ m.base \in Nat /\ m.rev = m.base + 1
    BY <1>1, EnvelopeFields DEF Genuine
  <2>3. ~(n.inst = m.inst /\ n.rev = m.base)
    BY <2>1, <2>2 DEF NotAfter, States
  <2>4. QED
    BY <1>1, <2>3 DEF Genuine
<1>2. CASE m.type # "delta"
  BY <1>2 DEF Genuine
<1>3. QED
  BY <1>1, <1>2

(* Only a commit makes a new delta.                                        *)
LEMMA DeltaStep ==
    [Next]_vars => delta' = delta \/ \E batch \in Batches : Commit(batch)
BY DEF Next, HubRestart, FanOutStep, Enqueue, Overflow, DrainTest, DrainReceive, DrainDone,
       HandlerStep, Reject, Subscribe, ForwardMessage, HandlerExit, Unsubscribe,
       LoseConnection, PageStep, OnOpen, OnSnapshot, OnDelta, OnGap, OnResync, OnReload,
       OnClose, TimerFires, LoadPage, Hide, OnPageAvailable, fanVars, vars

(* How one step changes the queue of a subscriber.                         *)
QueueMoves(c) ==
    \/ queue'[c] = queue[c]
    \/ queue'[c] = Append(queue[c], delta)
    \/ queue[c] # <<>> /\ queue'[c] = Tail(queue[c])
    \/ queue'[c] = <<Resync>>
    \/ queue'[c] = <<>>

LEMMA QueueStep ==
    ASSUME TypeOK, [Next]_vars, NEW c \in Conns
    PROVE  QueueMoves(c)
<1> USE DEF fanVars, connVars, shownVars, ctrlVars, hubVars, QueueMoves
<1>1. CASE (\E batch \in Batches : Commit(batch)) \/ HubRestart \/ UNCHANGED vars
  BY <1>1 DEF Commit, HubRestart, vars
<1>2. CASE FanOutStep
  <2>1. CASE DrainTest \/ \E d \in Conns : Overflow(d)
    BY <2>1 DEF DrainTest, Overflow
  <2>2. ASSUME NEW d \in Conns, Enqueue(d)
        PROVE  queue'[c] = queue[c] \/ queue'[c] = Append(queue[c], delta)
    BY <2>2 DEF Enqueue, TypeOK
  <2>3. CASE DrainReceive
    BY <2>3 DEF DrainReceive, TypeOK
  <2>4. CASE DrainDone
    BY <2>4 DEF DrainDone, TypeOK
  <2>5. QED
    BY <1>2, <2>1, <2>2, <2>3, <2>4 DEF FanOutStep
<1>3. ASSUME NEW d \in Conns, HandlerStep(d) \/ LoseConnection(d)
      PROVE  \/ queue'[c] = queue[c]
             \/ queue[c] # <<>> /\ queue'[c] = Tail(queue[c])
             \/ queue'[c] = <<>>
  <2>1. CASE Reject(d) \/ Subscribe(d) \/ LoseConnection(d)
    BY <2>1 DEF Reject, Subscribe, LoseConnection
  <2>2. CASE ForwardMessage(d)
    BY <2>2 DEF ForwardMessage, TypeOK
  <2>3. CASE HandlerExit(d)
    BY <2>3 DEF HandlerExit, TypeOK
  <2>4. CASE Unsubscribe(d)
    BY <2>4 DEF Unsubscribe, TypeOK
  <2>5. QED
    BY <1>3, <2>1, <2>2, <2>3, <2>4 DEF HandlerStep
<1>4. ASSUME NEW p \in Pages, PageStep(p) \/ LoadPage(p) \/ Hide(p) \/ OnPageAvailable(p)
      PROVE  queue'[c] = queue[c]
  BY <1>4 DEF PageStep, OnOpen, OnSnapshot, OnDelta, OnGap, OnResync, OnReload, OnClose,
              TimerFires, LoadPage, Hide, OnPageAvailable
<1>5. QED
  BY <1>1, <1>2, <1>3, <1>4 DEF Next

(* How one step changes the wire of a connection.                          *)
NotYetServed(h) == h \in {"dialing", "opened"}

WireMoves(c) ==
    \/ /\ wire'[c] = wire[c]
       /\ NotYetServed(handler'[c]) => NotYetServed(handler[c])
    \/ wire'[c] = <<>>
    \/ /\ wire[c] # <<>>
       /\ wire'[c] = Tail(wire[c])
       /\ handler'[c] = handler[c]
    \/ /\ wire'[c] = Append(wire[c], Reload)
       /\ handler[c] = "opened" /\ handler'[c] = "none"
    \/ /\ wire'[c] = Append(wire[c], Snapshot(Current))
       /\ handler[c] = "opened" /\ handler'[c] = "serving"
    \/ /\ queue[c] # <<>>
       /\ wire'[c] = Append(wire[c], Head(queue[c]))
       /\ ~NotYetServed(handler'[c])

LEMMA WireStep ==
    ASSUME TypeOK, [Next]_vars, NEW c \in Conns
    PROVE  WireMoves(c)
<1> USE DEF fanVars, connVars, shownVars, ctrlVars, hubVars, WireMoves, NotYetServed
<1>1. CASE (\E batch \in Batches : Commit(batch)) \/ HubRestart \/ FanOutStep \/ UNCHANGED vars
  BY <1>1 DEF Commit, HubRestart, vars,
              FanOutStep, Enqueue, Overflow, DrainTest, DrainReceive, DrainDone
<1>2. ASSUME NEW d \in Conns, HandlerStep(d) \/ LoseConnection(d)
      PROVE  WireMoves(c)
  <2>1. CASE Reject(d)
    BY <2>1 DEF Reject, TypeOK
  <2>2. CASE Subscribe(d)
    BY <2>2 DEF Subscribe, TypeOK
  <2>3. CASE ForwardMessage(d)
    BY <2>3 DEF ForwardMessage, TypeOK
  <2>4. CASE HandlerExit(d)
    BY <2>4 DEF HandlerExit, TypeOK
  <2>5. CASE Unsubscribe(d)
    BY <2>5 DEF Unsubscribe, TypeOK
  <2>6. CASE LoseConnection(d)
    BY <2>6 DEF LoseConnection, TypeOK
  <2>7. QED
    BY <1>2, <2>1, <2>2, <2>3, <2>4, <2>5, <2>6 DEF HandlerStep
<1>3. ASSUME NEW p \in Pages, NEW d \in Conns, NEW b, Dial(p, d, b)
      PROVE  WireMoves(c)
  BY <1>3 DEF Dial, TypeOK
<1>4. ASSUME NEW p \in Pages, DropSocket(p), handler' = handler
      PROVE  WireMoves(c)
  BY <1>4 DEF DropSocket, TypeOK
<1>5. ASSUME NEW p \in Pages, PageStep(p)
      PROVE  WireMoves(c)
  <2>1. CASE OnOpen(p)
    BY <2>1 DEF OnOpen, TypeOK
  <2>2. CASE OnSnapshot(p) \/ OnDelta(p)
    BY <2>2 DEF OnSnapshot, OnDelta, Receives, Handled, TypeOK
  <2>3. CASE OnGap(p) \/ OnResync(p) \/ OnReload(p) \/ OnClose(p)
    BY <1>4, <2>3 DEF OnGap, OnResync, OnReload, OnClose, Rehydrate
  <2>4. CASE TimerFires(p)
    BY <1>3, <2>4 DEF TimerFires
  <2>5. QED
    BY <1>5, <2>1, <2>2, <2>3, <2>4 DEF PageStep
<1>6. ASSUME NEW p \in Pages, LoadPage(p) \/ Hide(p) \/ OnPageAvailable(p)
      PROVE  WireMoves(c)
  <2>1. CASE LoadPage(p)
    BY <1>3, <2>1 DEF LoadPage
  <2>2. CASE Hide(p)
    BY <2>2 DEF Hide
  <2>3. CASE OnPageAvailable(p)
    BY <1>3, <2>3 DEF OnPageAvailable
  <2>4. QED
    BY <1>6, <2>1, <2>2, <2>3
<1>7. QED
  BY <1>1, <1>2, <1>5, <1>6 DEF Next

(* What one step can put in flight: what was, the snapshot of the current  *)
(* state, an outcome, and the delta of a commit.                           *)
LEMMA StepInFlight ==
    ASSUME TypeOK, TypeOK', [Next]_vars
    PROVE  InFlight' \subseteq InFlight \cup {Resync, Reload, Snapshot(Current), delta'}
<1> USE DEF fanVars, connVars, shownVars, ctrlVars, hubVars
<1> DEFINE New == {Resync, Reload, Snapshot(Current), delta'}
<1>0. SUFFICES ASSUME NEW c \in Conns
               PROVE  /\ Range(queue'[c]) \subseteq Range(queue[c]) \cup {delta} \cup New
                      /\ Range(wire'[c]) \subseteq Range(wire[c]) \cup Range(queue[c]) \cup New
  BY DEF InFlight
<1>1. /\ queue[c] \in Seq(Envelopes) /\ wire[c] \in Seq(Envelopes)
      /\ delta \in Envelopes /\ Snapshot(Current) \in Envelopes
  BY EnvelopeTypes, CurrentType DEF TypeOK
<1>2. /\ Range(Append(queue[c], delta)) \subseteq Range(queue[c]) \cup {delta}
      /\ Range(<<>>) = {} /\ Range(<<Resync>>) = {Resync}
      /\ queue[c] # <<>> => /\ Head(queue[c]) \in Range(queue[c])
                            /\ Head(queue[c]) \in Envelopes
                            /\ Range(Tail(queue[c])) \subseteq Range(queue[c])
      /\ wire[c] # <<>> => Range(Tail(wire[c])) \subseteq Range(wire[c])
      /\ Range(Append(wire[c], Reload)) \subseteq Range(wire[c]) \cup {Reload}
      /\ Range(Append(wire[c], Snapshot(Current)))
            \subseteq Range(wire[c]) \cup {Snapshot(Current)}
  <2>1. Resync \in Envelopes /\ Reload \in Envelopes
    BY EnvelopeTypes
  <2>2. ASSUME NEW q \in Seq(Envelopes), NEW e \in Envelopes
        PROVE  /\ Range(<<>>) = {}
               /\ Range(<<e>>) = {e}
               /\ Range(Append(q, e)) \subseteq Range(q) \cup {e}
               /\ q # <<>> => Head(q) \in Range(q) /\ Range(Tail(q)) \subseteq Range(q)
    BY SeqElements
  <2>3. queue[c] # <<>> => Head(queue[c]) \in Envelopes
    BY <1>1
  <2>4. QED
    BY <1>1, <2>1, <2>2, <2>3
<1>3. queue[c] # <<>> =>
        Range(Append(wire[c], Head(queue[c]))) \subseteq Range(wire[c]) \cup Range(queue[c])
  <2>1. ASSUME NEW e \in Envelopes
        PROVE  Range(Append(wire[c], e)) \subseteq Range(wire[c]) \cup {e}
    BY <1>1, SeqElements
  <2>2. QED
    BY <1>2, <2>1
<1>4. QED
  BY <1>2, <1>3, QueueStep, WireStep DEF QueueMoves, WireMoves

-----------------------------------------------------------------------------
(* The history of commits.                                                 *)

(* A step of the hub either commits nothing or one state after all others. *)
HubStands == committed' = committed /\ Current' = Current

HubCommits ==
    /\ committed' = committed \cup {Current'}
    /\ \A t \in committed : NotAfter(t, Current') /\ ~NotAfter(Current', t)

LEMMA HubStep ==
    ASSUME TypeOK, CommittedHistory, [Next]_vars
    PROVE  HubStands \/ HubCommits
<1>1. ASSUME NEW batch \in Batches, Commit(batch)
      PROVE  HubCommits
  BY <1>1 DEF Commit, HubCommits, CommittedHistory, Current, NotAfter, TypeOK, States
<1>2. CASE HubRestart
  <2>1. /\ Current' = [inst |-> instance + 1, rev |-> 0, proj |-> NewProjection]
        /\ committed' = committed \cup {Current'}
    BY <1>2 DEF HubRestart, Current
  <2>2. instance \in Nat
    BY DEF TypeOK
  <2>3. \A t \in committed : t.inst \in Nat /\ t.inst <= instance
    <3>1. committed \subseteq States
      BY DEF TypeOK
    <3>2. ASSUME NEW t \in committed
          PROVE  t.inst < instance \/ t.inst = instance
      BY DEF CommittedHistory, Current, NotAfter
    <3>3. QED
      BY <2>2, <3>1, <3>2 DEF States
  <2>4. QED
    BY <2>1, <2>2, <2>3 DEF HubCommits, NotAfter
<1>3. CASE FanOutStep
  BY <1>3 DEF FanOutStep, Enqueue, Overflow, DrainTest, DrainReceive, DrainDone,
              hubVars, HubStands, Current
<1>4. ASSUME NEW c \in Conns, HandlerStep(c) \/ LoseConnection(c)
      PROVE  HubStands
  BY <1>4 DEF HandlerStep, Reject, Subscribe, ForwardMessage, HandlerExit, Unsubscribe,
              LoseConnection, hubVars, HubStands, Current
<1>5. ASSUME NEW p \in Pages, PageStep(p) \/ LoadPage(p) \/ Hide(p) \/ OnPageAvailable(p)
      PROVE  HubStands
  BY <1>5 DEF PageStep, OnOpen, OnSnapshot, OnDelta, OnGap, OnResync, OnReload, OnClose,
              TimerFires, LoadPage, Hide, OnPageAvailable, hubVars, HubStands, Current
<1>6. CASE UNCHANGED vars
  BY <1>6 DEF vars, hubVars, HubStands, Current
<1>7. CASE Next
  <2>1. CASE \E batch \in Batches : Commit(batch)
    BY <1>1, <2>1
  <2>2. CASE \E c \in Conns : HandlerStep(c) \/ LoseConnection(c)
    BY <1>4, <2>2
  <2>3. CASE \E p \in Pages : PageStep(p) \/ LoadPage(p) \/ Hide(p) \/ OnPageAvailable(p)
    BY <1>5, <2>3
  <2>4. QED
    BY <1>2, <1>3, <1>7, <2>1, <2>2, <2>3 DEF Next
<1>8. QED
  BY <1>6, <1>7

LEMMA HistoryStep ==
    ASSUME TypeOK, TypeOK', CommittedHistory, [Next]_vars
    PROVE  CommittedHistory'
<1>1. CASE HubStands
  BY <1>1 DEF HubStands, CommittedHistory
<1>2. CASE HubCommits
  <2>1. NotAfter(Current', Current')
    BY CurrentType DEF NotAfter, States, TypeOK, Current
  <2>2. \A s, t \in committed' : s.inst = t.inst /\ s.rev = t.rev => s = t
    BY <1>2 DEF HubCommits, CommittedHistory, NotAfter, States, TypeOK
  <2>3. QED
    BY <1>2, <2>1, <2>2 DEF HubCommits, CommittedHistory
<1>3. QED
  BY <1>1, <1>2, HubStep

(* Every envelope in flight stays truthful.                                *)
LEMMA GenuineStep ==
    ASSUME TypeOK, TypeOK', CommittedHistory, EnvelopesGenuine, [Next]_vars
    PROVE  EnvelopesGenuine'
<1>1. Current \in committed /\ committed \subseteq committed'
  BY HubStep DEF CommittedHistory, HubStands, HubCommits
<1>2. ASSUME NEW m \in InFlight PROVE Genuine(committed', m)
  <2>1. Genuine(committed, m)
    BY DEF EnvelopesGenuine
  <2>2. m \in Envelopes
    BY DEF InFlight, TypeOK, Range
  <2>3. CASE HubStands
    BY <2>1, <2>3 DEF HubStands
  <2>4. CASE HubCommits
    <3>1. Current' \in States /\ committed \in SUBSET States
      BY CurrentType DEF TypeOK, Current, States
    <3>2. QED
      BY <2>1, <2>2, <2>4, <3>1, GenuineGrows DEF HubCommits
  <2>5. QED
    BY <2>3, <2>4, HubStep
<1>3. Genuine(committed', Resync) /\ Genuine(committed', Reload)
  BY DEF Genuine, Resync, Reload
<1>4. Genuine(committed', Snapshot(Current))
  BY <1>1 DEF Genuine, Snapshot
<1>5. Genuine(committed', delta')
  <2>1. ASSUME NEW batch \in Batches, Commit(batch)
        PROVE  Genuine(committed', delta')
    <3>1. delta' = Delta(instance, revision, batch)
      BY <2>1 DEF Commit
    <3>2. /\ Current' \in committed'
          /\ Current' = [inst |-> instance, rev |-> revision + 1,
                         proj |-> ApplyBatch(projection, batch)]
      BY <2>1 DEF Commit, Current
    <3>3. NotAfter(delta', Current')
      BY <3>1, <3>2 DEF NotAfter, Delta, TypeOK
    <3>4. ASSUME NEW s \in committed', s.inst = instance, s.rev = revision
          PROVE  s.proj = projection
      <4>1. s # Current'
        BY <3>2, <3>4 DEF TypeOK
      <4>2. s \in committed
        BY <2>1, <3>2, <4>1 DEF Commit, Current
      <4>3. s = Current
        BY <1>1, <3>4, <4>2 DEF CommittedHistory, Current
      <4>4. QED
        BY <4>3 DEF Current
    <3>5. QED
      BY <3>1, <3>2, <3>3, <3>4 DEF Genuine, Delta
  <2>2. CASE delta' = delta
    BY <1>2, <2>2 DEF InFlight
  <2>3. delta' = delta \/ \E batch \in Batches : Commit(batch)
    BY DeltaStep
  <2>4. QED
    BY <2>1, <2>2, <2>3
<1>6. \A m \in InFlight' : Genuine(committed', m)
  BY <1>2, <1>3, <1>4, <1>5, StepInFlight
<1>7. QED
  BY <1>6 DEF EnvelopesGenuine

-----------------------------------------------------------------------------
(* The snapshot stays the first envelope of its connection.                *)
LEMMA SnapshotFirstStep ==
    ASSUME TypeOK, TypeOK', SnapshotFirst, [Next]_vars
    PROVE  SnapshotFirst'
<1>1. delta'.type # "snapshot"
  <2>1. ASSUME NEW batch \in Batches, Commit(batch)
        PROVE  delta'.type # "snapshot"
    BY <2>1 DEF Commit, Delta
  <2>2. delta' = delta \/ \E batch \in Batches : Commit(batch)
    BY DeltaStep
  <2>3. QED
    BY <2>1, <2>2 DEF SnapshotFirst
<1>2. ASSUME NEW c \in Conns, NEW m \in Range(queue'[c])
      PROVE  m.type # "snapshot"
  <2>1. queue[c] \in Seq(Envelopes) /\ delta \in Envelopes
    BY DEF TypeOK
  <2>2. /\ Range(Append(queue[c], delta)) \subseteq Range(queue[c]) \cup {delta}
        /\ queue[c] # <<>> => Range(Tail(queue[c])) \subseteq Range(queue[c])
    BY <2>1, SeqElements
  <2>3. Range(<<>>) = {} /\ Range(<<Resync>>) = {Resync}
    BY <2>1, SeqElements, EnvelopeTypes
  <2>4. m \in Range(queue[c]) \cup {delta, Resync}
    <3>1. QueueMoves(c)
      BY QueueStep
    <3>2. Range(queue'[c]) \subseteq Range(queue[c]) \cup {delta, Resync}
      <4>1. CASE queue'[c] = queue[c]
        BY <4>1
      <4>2. CASE queue'[c] = Append(queue[c], delta)
        BY <2>2, <4>2
      <4>3. CASE queue[c] # <<>> /\ queue'[c] = Tail(queue[c])
        BY <2>2, <4>3
      <4>4. CASE queue'[c] = <<Resync>> \/ queue'[c] = <<>>
        BY <2>3, <4>4
      <4>5. QED
        BY <3>1, <4>1, <4>2, <4>3, <4>4 DEF QueueMoves
    <3>3. QED
      BY <1>2, <3>2
  <2>5. QED
    BY <2>4 DEF SnapshotFirst, Resync
<1>3. ASSUME NEW c \in Conns
      PROVE  /\ NotYetServed(handler'[c]) => wire'[c] = <<>>
             /\ \A i \in 2 .. Len(wire'[c]) : wire'[c][i].type # "snapshot"
  <2>1. /\ wire[c] \in Seq(Envelopes)
        /\ NotYetServed(handler[c]) => wire[c] = <<>>
        /\ \A i \in 2 .. Len(wire[c]) : wire[c][i].type # "snapshot"
    BY DEF TypeOK, SnapshotFirst, NotYetServed
  <2>2. ASSUME NEW e \in Envelopes, wire'[c] = Append(wire[c], e),
               wire[c] = <<>> \/ e.type # "snapshot"
        PROVE  \A i \in 2 .. Len(wire'[c]) : wire'[c][i].type # "snapshot"
    BY <2>1, <2>2
  <2>3. CASE wire'[c] = wire[c] /\ (NotYetServed(handler'[c]) => NotYetServed(handler[c]))
    BY <2>1, <2>3
  <2>4. CASE wire'[c] = <<>>
    BY <2>4
  <2>5. CASE wire[c] # <<>> /\ wire'[c] = Tail(wire[c]) /\ handler'[c] = handler[c]
    BY <2>1, <2>5
  <2>6. CASE /\ wire'[c] = Append(wire[c], Reload)
             /\ handler[c] = "opened" /\ handler'[c] = "none"
    BY <2>1, <2>2, <2>6, EnvelopeTypes DEF NotYetServed
  <2>7. CASE /\ wire'[c] = Append(wire[c], Snapshot(Current))
             /\ handler[c] = "opened" /\ handler'[c] = "serving"
    BY <2>1, <2>2, <2>7, EnvelopeTypes, CurrentType DEF NotYetServed
  <2>8. CASE /\ queue[c] # <<>>
             /\ wire'[c] = Append(wire[c], Head(queue[c]))
             /\ ~NotYetServed(handler'[c])
    <3>1. Head(queue[c]) \in Envelopes /\ Head(queue[c]) \in Range(queue[c])
      <4>1. queue[c] \in Seq(Envelopes) /\ queue[c] # <<>>
        BY <2>8 DEF TypeOK
      <4>2. Head(queue[c]) \in Envelopes
        BY <4>1
      <4>3. QED
        BY <4>1, <4>2, SeqElements
    <3>2. Head(queue[c]).type # "snapshot"
      BY <3>1 DEF SnapshotFirst
    <3>3. QED
      BY <2>2, <2>8, <3>1, <3>2
  <2>9. QED
    BY <2>3, <2>4, <2>5, <2>6, <2>7, <2>8, WireStep DEF WireMoves
<1>4. QED
  BY <1>1, <1>2, <1>3 DEF SnapshotFirst, NotYetServed

-----------------------------------------------------------------------------
(* How one step changes what a page shows and the socket it listens to.    *)
AppliesSnapshot(q) ==
    /\ Receives(q, "snapshot")
    /\ view'[q] = Head(wire[socket[q]]).state

AppliesDelta(q) ==
    LET d == Head(wire[socket[q]])
        v == view[q]
    IN  /\ Receives(q, "delta")
        /\ ~HasGap(v, d)
        /\ ~(d.rev <= v.rev)
        /\ view'[q] = [inst |-> v.inst, rev |-> d.rev, proj |-> ApplyBatch(v.proj, d.ops)]

ViewMoves(q) ==
    \/ view'[q] = view[q]
    \/ view'[q] = NoView
    \/ /\ AppliesSnapshot(q) \/ AppliesDelta(q)
       /\ wire'[socket[q]] = Tail(wire[socket[q]])

SocketMoves(q) ==
    \/ socket'[q] = socket[q]
    \/ socket'[q] = NoConn
    \/ socket'[q] \in Conns /\ wire'[socket'[q]] = <<>>

LEMMA PageMoves ==
    ASSUME TypeOK, [Next]_vars, NEW q \in Pages
    PROVE  ViewMoves(q) /\ SocketMoves(q)
<1> USE DEF fanVars, connVars, shownVars, ctrlVars, hubVars
<1>1. CASE (\E batch \in Batches : Commit(batch)) \/ HubRestart \/ FanOutStep \/ UNCHANGED vars
  BY <1>1 DEF Commit, HubRestart, vars, ViewMoves, SocketMoves,
              FanOutStep, Enqueue, Overflow, DrainTest, DrainReceive, DrainDone
<1>2. ASSUME NEW c \in Conns, HandlerStep(c) \/ LoseConnection(c)
      PROVE  view' = view /\ socket' = socket
  BY <1>2 DEF HandlerStep, Reject, Subscribe, ForwardMessage, HandlerExit, Unsubscribe,
              LoseConnection
<1>3. ASSUME NEW p \in Pages, NEW c \in Conns, NEW b, Dial(p, c, b)
      PROVE  SocketMoves(q)
  BY <1>3 DEF Dial, TypeOK, SocketMoves
<1>4. ASSUME NEW p \in Pages, DropSocket(p)
      PROVE  SocketMoves(q)
  BY <1>4 DEF DropSocket, TypeOK, SocketMoves
<1>5. ASSUME NEW p \in Pages, PageStep(p)
      PROVE  ViewMoves(q) /\ SocketMoves(q)
  <2>1. CASE OnOpen(p)
    BY <2>1 DEF OnOpen, ViewMoves, SocketMoves
  <2>2. CASE OnSnapshot(p)
    <3>1. socket' = socket /\ Receives(p, "snapshot") /\ Handled(p)
      BY <2>2 DEF OnSnapshot
    <3>2. wire'[socket[p]] = Tail(wire[socket[p]])
      BY <3>1, ReceivesType DEF Handled, TypeOK
    <3>3. view'[q] = view[q] \/ (q = p /\ view'[q] = Head(wire[socket[q]]).state)
      BY <2>2 DEF OnSnapshot, TypeOK
    <3>4. QED
      BY <3>1, <3>2, <3>3 DEF ViewMoves, SocketMoves, AppliesSnapshot
  <2>3. CASE OnDelta(p)
    <3> DEFINE d == Head(wire[socket[p]])
               v == view[p]
               w == [inst |-> v.inst, rev |-> d.rev, proj |-> ApplyBatch(v.proj, d.ops)]
    <3>1. socket' = socket /\ Receives(p, "delta") /\ Handled(p) /\ ~HasGap(v, d)
      BY <2>3 DEF OnDelta
    <3>2. wire'[socket[p]] = Tail(wire[socket[p]])
      BY <3>1, ReceivesType DEF Handled, TypeOK
    <3>3. view' = view \/ (~(d.rev <= v.rev) /\ view' = [view EXCEPT ![p] = w])
      BY <2>3 DEF OnDelta
    <3>4. view'[q] = view[q] \/ (q = p /\ ~(d.rev <= v.rev) /\ view'[q] = w)
      BY <3>3 DEF TypeOK
    <3>5. QED
      BY <3>1, <3>2, <3>4 DEF ViewMoves, SocketMoves, AppliesDelta
  <2>4. CASE OnGap(p) \/ OnResync(p) \/ OnReload(p) \/ OnClose(p)
    BY <1>4, <2>4 DEF OnGap, OnResync, OnReload, OnClose, Rehydrate, ViewMoves
  <2>5. CASE TimerFires(p)
    BY <1>3, <2>5 DEF TimerFires, ViewMoves, SocketMoves
  <2>6. QED
    BY <1>5, <2>1, <2>2, <2>3, <2>4, <2>5 DEF PageStep
<1>6. ASSUME NEW p \in Pages, LoadPage(p) \/ Hide(p) \/ OnPageAvailable(p)
      PROVE  ViewMoves(q) /\ SocketMoves(q)
  <2>1. CASE LoadPage(p)
    BY <1>3, <2>1 DEF LoadPage, ViewMoves, SocketMoves, TypeOK
  <2>2. CASE Hide(p)
    BY <2>2 DEF Hide, ViewMoves, SocketMoves
  <2>3. CASE OnPageAvailable(p)
    BY <1>3, <2>3 DEF OnPageAvailable, ViewMoves, SocketMoves
  <2>4. QED
    BY <1>6, <2>1, <2>2, <2>3
<1>7. QED
  BY <1>1, <1>2, <1>5, <1>6 DEF Next, ViewMoves, SocketMoves

(* What a page shows next is committed, and not older than what it showed. *)
LEMMA ViewStep ==
    ASSUME TypeOK, EnvelopesGenuine, SnapshotAwaited, ViewsCommitted, [Next]_vars,
           NEW q \in Pages
    PROVE  \/ view'[q] = NoView
           \/ view'[q] \in committed /\ Forward(view[q], view'[q])
<1>1. /\ view[q] \in committed \cup {NoView} /\ committed \subseteq States
      /\ NoView \notin States
  BY ProjectionAssumption DEF ViewsCommitted, TypeOK
<1>2. ASSUME NEW type, Receives(q, type)
      PROVE  /\ Head(wire[socket[q]]) \in Envelopes
             /\ Head(wire[socket[q]]).type = type
             /\ Genuine(committed, Head(wire[socket[q]]))
  <2>1. /\ socket[q] \in Conns
        /\ Head(wire[socket[q]]) \in Envelopes
        /\ Head(wire[socket[q]]).type = type
    BY <1>2, ReceivesType
  <2>2. wire[socket[q]] \in Seq(Envelopes) /\ wire[socket[q]] # <<>>
    BY <1>2, <2>1 DEF Receives, TypeOK
  <2>3. Head(wire[socket[q]]) \in Range(wire[socket[q]])
    BY <2>1, <2>2, SeqElements
  <2>4. Head(wire[socket[q]]) \in InFlight
    BY <2>1, <2>3 DEF InFlight
  <2>5. QED
    BY <2>1, <2>4 DEF EnvelopesGenuine
<1>3. CASE view'[q] = view[q]
  BY <1>1, <1>3 DEF Forward, NotAfter, States
<1>4. CASE AppliesSnapshot(q)
  BY <1>2, <1>4 DEF AppliesSnapshot, Genuine, SnapshotAwaited
<1>5. CASE AppliesDelta(q)
  <2> DEFINE d == Head(wire[socket[q]])
             v == view[q]
  <2>1. /\ Receives(q, "delta") /\ ~HasGap(v, d) /\ ~(d.rev <= v.rev)
        /\ view'[q] = [inst |-> v.inst, rev |-> d.rev, proj |-> ApplyBatch(v.proj, d.ops)]
    BY <1>5 DEF AppliesDelta
  <2>2. d.type = "delta" /\ Genuine(committed, d) /\ d.rev \in Nat
    BY <1>2, <2>1, EnvelopeFields
  <2>3. v \in committed /\ v.rev \in Nat /\ v.inst \in Nat
    BY <1>1, <2>1 DEF HasGap, States
  <2>4. d.inst = v.inst /\ d.base = v.rev
    BY <2>1, <2>2, <2>3 DEF HasGap
  <2>5. view'[q] \in committed
    BY <2>1, <2>2, <2>3, <2>4 DEF Genuine
  <2>6. NotAfter(v, view'[q])
    BY <2>1, <2>2, <2>3 DEF NotAfter
  <2>7. QED
    BY <1>1, <2>5, <2>6 DEF Forward
<1>6. QED
  BY <1>3, <1>4, <1>5, PageMoves DEF ViewMoves

(* The page that waits for its snapshot shows nothing later meanwhile.      *)
LEMMA SnapshotAwaitedStep ==
    ASSUME TypeOK, TypeOK', CommittedHistory, SnapshotFirst, SnapshotAwaited, ViewsCommitted,
           [Next]_vars
    PROVE  SnapshotAwaited'
<1>1. SUFFICES ASSUME NEW q \in Pages, Receives(q, "snapshot")', view'[q] # NoView
               PROVE  Forward(view'[q], Head(wire'[socket'[q]]).state)
  BY DEF SnapshotAwaited, Forward
<1> DEFINE c == socket'[q]
<1>2. /\ c \in Conns /\ wire'[c] # <<>>
      /\ Head(wire'[c]).type = "snapshot"
  BY <1>1 DEF Receives, TypeOK
<1>3. c = socket[q]
  BY <1>2, PageMoves, StateSyncAssumption DEF SocketMoves
<1>4. /\ wire[c] \in Seq(Envelopes)
      /\ \A i \in 2 .. Len(wire[c]) : wire[c][i].type # "snapshot"
      /\ NotYetServed(handler[c]) => wire[c] = <<>>
  BY <1>2 DEF TypeOK, SnapshotFirst, NotYetServed
<1>5. ~(wire[c] # <<>> /\ wire'[c] = Tail(wire[c]))
  <2>1. SUFFICES ASSUME wire[c] # <<>>, wire'[c] = Tail(wire[c]) PROVE FALSE
    OBVIOUS
  <2>2. Len(wire[c]) >= 2 /\ Head(wire'[c]) = wire[c][2]
    BY <1>2, <1>4, <2>1
  <2>3. QED
    BY <1>2, <1>4, <2>2
<1>6. view'[q] = view[q]
  <2>1. CASE AppliesSnapshot(q) \/ AppliesDelta(q)
    BY <1>3, <1>5, <2>1, PageMoves, <1>1, <1>2
       DEF ViewMoves, AppliesSnapshot, AppliesDelta, Receives
  <2>2. QED
    BY <1>1, <2>1, PageMoves DEF ViewMoves
<1>7. CASE wire'[c] = wire[c]
  BY <1>1, <1>2, <1>3, <1>6, <1>7 DEF SnapshotAwaited, Receives
<1>8. CASE wire'[c] = Append(wire[c], Reload) /\ handler[c] = "opened"
  BY <1>2, <1>4, <1>8 DEF Reload, NotYetServed
<1>9. CASE wire'[c] = Append(wire[c], Snapshot(Current)) /\ handler[c] = "opened"
  <2>1. Head(wire'[c]).state = Current
    BY <1>2, <1>4, <1>9 DEF Snapshot, NotYetServed
  <2>2. view[q] \in committed
    BY <1>1, <1>6 DEF ViewsCommitted
  <2>3. NotAfter(view[q], Current) /\ Current # NoView
    BY <2>2, ProjectionAssumption DEF CommittedHistory, TypeOK
  <2>4. QED
    BY <1>6, <2>1, <2>3 DEF Forward
<1>10. CASE queue[c] # <<>> /\ wire'[c] = Append(wire[c], Head(queue[c]))
  <2>1. Head(queue[c]) \in Envelopes /\ Head(queue[c]).type # "snapshot"
    <3>1. queue[c] \in Seq(Envelopes) /\ queue[c] # <<>>
      BY <1>2, <1>10 DEF TypeOK
    <3>2. Head(queue[c]) \in Envelopes
      BY <3>1
    <3>3. Head(queue[c]) \in Range(queue[c])
      BY <3>1, <3>2, SeqElements
    <3>4. QED
      BY <1>2, <3>2, <3>3 DEF SnapshotFirst
  <2>2. wire[c] # <<>> /\ Head(wire'[c]) = Head(wire[c])
    BY <1>2, <1>4, <1>10, <2>1
  <2>3. Receives(q, "snapshot")
    BY <1>1, <1>2, <1>3, <2>2 DEF Receives
  <2>4. QED
    BY <1>3, <1>6, <2>2, <2>3 DEF SnapshotAwaited
<1>11. QED
  <2>1. WireMoves(c)
    BY <1>2, WireStep
  <2>2. QED
    BY <1>2, <1>5, <1>7, <1>8, <1>9, <1>10, <2>1 DEF WireMoves

-----------------------------------------------------------------------------
(* The inductive invariant and its consequences.                           *)
LEMMA InitHistoryInv == Init => HistoryInv
<1> SUFFICES ASSUME Init PROVE HistoryInv
  OBVIOUS
<1>1. TypeOK
  BY InitTypeOK
<1>2. committed = {Current} /\ Current \in States
  BY <1>1, CurrentType DEF Init, TypeOK
<1>3. CommittedHistory
  BY <1>2 DEF CommittedHistory, NotAfter, States
<1>4. InFlight = {Resync}
  BY StateSyncAssumption DEF Init, InFlight, Range
<1>5. EnvelopesGenuine
  BY <1>4 DEF EnvelopesGenuine, Genuine, Resync
<1>6. SnapshotFirst
  BY DEF Init, SnapshotFirst, Resync, Range
<1>7. SnapshotAwaited /\ ViewsCommitted
  BY DEF Init, SnapshotAwaited, ViewsCommitted, Forward
<1>8. QED
  BY <1>1, <1>3, <1>5, <1>6, <1>7 DEF HistoryInv

LEMMA StepHistoryInv == HistoryInv /\ [Next]_vars => HistoryInv'
<1> SUFFICES ASSUME HistoryInv, [Next]_vars PROVE HistoryInv'
  OBVIOUS
<1> USE DEF HistoryInv
<1>1. TypeOK'
  BY NextTypeOK
<1>2. CommittedHistory' /\ EnvelopesGenuine' /\ SnapshotFirst' /\ SnapshotAwaited'
  BY <1>1, HistoryStep, GenuineStep, SnapshotFirstStep, SnapshotAwaitedStep
<1>3. ViewsCommitted'
  <2>1. committed \subseteq committed'
    BY HubStep DEF HubStands, HubCommits
  <2>2. QED
    BY <2>1, ViewStep DEF ViewsCommitted
<1>4. QED
  BY <1>1, <1>2, <1>3

(* Whatever the sizes of the queues, the wires, the batches and the sets of *)
(* pages and connections, HistoryInv holds: envelopes in flight are         *)
(* truthful and in order (coordinator.go:208-265, hub.go:295-377,           *)
(* reducer.ts:48-139).                                                      *)
THEOREM HistoryInvariance == Spec => []HistoryInv
BY InitHistoryInv, StepHistoryInv, PTL DEF Spec

(* No page ever shows a state the coordinator has not committed: a drained  *)
(* queue, a lost connection or a restart of the hub cannot make the reducer *)
(* put together a projection of its own (coordinator.go:208-230,            *)
(* reducer.ts:90-139).                                                      *)
THEOREM PagesShowCommitted == Spec => []ShowsCommitted
<1>1. HistoryInv => ShowsCommitted
  BY DEF HistoryInv, ViewsCommitted, ShowsCommitted
<1>2. QED
  BY <1>1, HistoryInvariance, PTL

(* No page ever replaces what it shows by an older state: the reducer       *)
(* ignores old deltas, and a snapshot is never older than what was shown    *)
(* when its connection was opened (reducer.ts:57-105, connection.ts:89-138).*)
THEOREM PagesNeverGoBack == Spec => NeverBackwards
<1>1. HistoryInv /\ [Next]_vars =>
        [\A p \in Pages : view'[p] # NoView => Forward(view[p], view'[p])]_vars
  <2> SUFFICES ASSUME HistoryInv, [Next]_vars, NEW p \in Pages, view'[p] # NoView
               PROVE  Forward(view[p], view'[p])
    OBVIOUS
  <2>1. QED
    BY ViewStep DEF HistoryInv
<1>2. QED
  BY <1>1, HistoryInvariance, PTL DEF Spec, NeverBackwards

-----------------------------------------------------------------------------
(* StateSync implements RevisionedState.                                   *)

(* A step changes what one page shows, or commits, but not both.           *)
LEMMA OneChange ==
    ASSUME TypeOK, [Next]_vars
    PROVE  \/ view' = view
           \/ /\ committed' = committed
              /\ \E p \in Pages : view' = [view EXCEPT ![p] = view'[p]]
<1> USE DEF fanVars, connVars, shownVars, ctrlVars, hubVars
<1>1. CASE (\E batch \in Batches : Commit(batch)) \/ HubRestart \/ FanOutStep \/ UNCHANGED vars
  BY <1>1 DEF Commit, HubRestart, vars,
              FanOutStep, Enqueue, Overflow, DrainTest, DrainReceive, DrainDone
<1>2. ASSUME NEW c \in Conns, HandlerStep(c) \/ LoseConnection(c)
      PROVE  view' = view
  BY <1>2 DEF HandlerStep, Reject, Subscribe, ForwardMessage, HandlerExit, Unsubscribe,
              LoseConnection
<1>3. ASSUME NEW p \in Pages, PageStep(p) \/ LoadPage(p) \/ Hide(p) \/ OnPageAvailable(p)
      PROVE  /\ committed' = committed
             /\ view' = view \/ view' = [view EXCEPT ![p] = view'[p]]
  <2>1. CASE OnSnapshot(p) \/ OnDelta(p) \/ LoadPage(p)
    BY <2>1 DEF OnSnapshot, OnDelta, LoadPage, TypeOK
  <2>2. CASE ~(OnSnapshot(p) \/ OnDelta(p) \/ LoadPage(p))
    BY <1>3, <2>2 DEF PageStep, OnOpen, OnGap, OnResync, OnReload, OnClose, TimerFires,
                      Hide, OnPageAvailable
  <2>3. QED
    BY <2>1, <2>2
<1>4. QED
  BY <1>1, <1>2, <1>3 DEF Next

(* Every behaviour of coordinator, connections and pages is one of readers  *)
(* of a revisioned state: commits are totally ordered and pages move        *)
(* forward among them (coordinator.go:190-293, hub.go:295-377,              *)
(* reducer.ts:48-139, connection.ts:89-173).                                *)
THEOREM Implementation == Spec => ImplementsRevisionedState
<1>1. Init => RS!AbsInit
  BY DEF Init, RS!AbsInit, Current, RS!NewProjection, NewProjection
<1>2. HistoryInv /\ HistoryInv' /\ [Next]_vars => [RS!AbsNext]_(RS!absVars)
  <2> SUFFICES ASSUME HistoryInv, HistoryInv', [Next]_vars
               PROVE  RS!AbsNext \/ (committed' = committed /\ view' = view)
    BY DEF RS!absVars
  <2> USE DEF HistoryInv
  <2>1. CASE view' = view
    <3>1. CASE HubStands
      BY <2>1, <3>1 DEF HubStands
    <3>2. CASE HubCommits
      <4>1. Current' \in States /\ Current' \in committed'
        BY DEF TypeOK, CommittedHistory
      <4>2. RS!AbsCommit
        BY <2>1, <3>2, <4>1 DEF HubCommits, RS!AbsCommit, RS!NotAfter, NotAfter,
                                RS!States, States, RS!Projections, Projections
      <4>3. QED
        BY <4>2 DEF RS!AbsNext
    <3>3. QED
      BY <3>1, <3>2, HubStep
  <2>2. ASSUME committed' = committed,
               NEW p \in Pages, view' = [view EXCEPT ![p] = view'[p]]
        PROVE  RS!AbsNext
    <3>1. CASE view'[p] = NoView
      BY <2>2, <3>1 DEF RS!AbsNext, RS!AbsReload
    <3>2. CASE view'[p] \in committed /\ Forward(view[p], view'[p])
      <4>1. RS!Forward(view[p], view'[p])
        BY <3>2 DEF RS!Forward, Forward, RS!NotAfter, NotAfter
      <4>2. RS!AbsAdvance(p)
        BY <2>2, <3>2, <4>1 DEF RS!AbsAdvance
      <4>3. QED
        BY <4>2 DEF RS!AbsNext
    <3>3. QED
      BY <3>1, <3>2, ViewStep
  <2>3. QED
    BY <2>1, <2>2, OneChange
<1>3. QED
  BY <1>1, <1>2, HistoryInvariance, PTL DEF Spec, ImplementsRevisionedState, RS!AbsSpec

-----------------------------------------------------------------------------
(* The controller keeps its connection discipline.                         *)
Disciplined(q) ==
    /\ timer[q] => socket[q] = NoConn
    /\ status[q] \in {"unloaded", "reload-required"} => ~timer[q] /\ socket[q] = NoConn
    /\ (~hidden[q] /\ status[q] \notin {"unloaded", "reload-required"}) =>
            timer[q] \/ socket[q] # NoConn

LEMMA DisciplineStep ==
    ASSUME TypeOK, ReconnectDiscipline, [Next]_vars, NEW q \in Pages, Disciplined(q)
    PROVE  Disciplined(q)'
<1> USE DEF fanVars, connVars, shownVars, ctrlVars, hubVars, Disciplined
<1>1. CASE (\E batch \in Batches : Commit(batch)) \/ HubRestart \/ FanOutStep \/ UNCHANGED vars
  BY <1>1 DEF Commit, HubRestart, vars,
              FanOutStep, Enqueue, Overflow, DrainTest, DrainReceive, DrainDone
<1>2. ASSUME NEW c \in Conns, HandlerStep(c) \/ LoseConnection(c)
      PROVE  Disciplined(q)'
  BY <1>2 DEF HandlerStep, Reject, Subscribe, ForwardMessage, HandlerExit, Unsubscribe,
              LoseConnection
<1>3. ASSUME NEW p \in Pages, NEW c \in Conns, Dial(p, c, synced[p]),
             UNCHANGED timer \/ timer' = [timer EXCEPT ![p] = FALSE],
             hidden' = hidden \/ hidden' = [hidden EXCEPT ![p] = FALSE],
             ~timer'[p]
      PROVE  Disciplined(q)'
  <2>1. c # NoConn /\ socket'[p] = c /\ status'[p] \in {"reconnecting", "connecting"}
    BY <1>3, StateSyncAssumption DEF Dial, TypeOK
  <2>2. CASE q = p
    BY <1>3, <2>1, <2>2
  <2>3. CASE q # p
    BY <1>3, <2>3 DEF Dial, TypeOK
  <2>4. QED
    BY <2>2, <2>3
<1>4. ASSUME NEW p \in Pages, PageStep(p)
      PROVE  Disciplined(q)'
  <2>1. CASE OnOpen(p) \/ OnSnapshot(p) \/ OnDelta(p)
    BY <2>1 DEF OnOpen, OnSnapshot, OnDelta, Receives, TypeOK
  <2>2. CASE OnGap(p) \/ OnResync(p)
    <3>1. Rehydrate(p) /\ UNCHANGED hidden
      BY <2>2 DEF OnGap, OnResync, Rehydrate
    <3>2. CASE q = p
      BY <3>1, <3>2 DEF Rehydrate, DropSocket, TypeOK
    <3>3. CASE q # p
      BY <3>1, <3>3 DEF Rehydrate, DropSocket, TypeOK
    <3>4. QED
      BY <3>2, <3>3
  <2>3. CASE OnReload(p)
    BY <2>3 DEF OnReload, Receives, DropSocket, TypeOK
  <2>4. CASE OnClose(p)
    BY <2>4 DEF OnClose, Ended, DropSocket, TypeOK
  <2>5. CASE TimerFires(p)
    <3>1. CASE hidden[p]
      BY <2>5, <3>1 DEF TimerFires, TypeOK
    <3>2. CASE ~hidden[p]
      BY <1>3, <2>5, <3>2 DEF TimerFires, TypeOK
    <3>3. QED
      BY <3>1, <3>2
  <2>6. QED
    BY <1>4, <2>1, <2>2, <2>3, <2>4, <2>5 DEF PageStep
<1>5. ASSUME NEW p \in Pages, LoadPage(p)
      PROVE  Disciplined(q)'
  <2>1. ASSUME NEW c \in Conns, Dial(p, c, FALSE)
        PROVE  Disciplined(q)'
    <3>1. c # NoConn /\ socket'[p] = c /\ status'[p] = "connecting" /\ ~timer[p]
      BY <1>5, <2>1, StateSyncAssumption DEF LoadPage, Dial, TypeOK, ReconnectDiscipline
    <3>2. CASE q = p
      BY <1>5, <3>1, <3>2 DEF LoadPage
    <3>3. CASE q # p
      <4>1. /\ socket'[q] = socket[q] /\ status'[q] = status[q]
            /\ timer'[q] = timer[q] /\ hidden'[q] = hidden[q]
        BY <1>5, <2>1, <3>3 DEF LoadPage, Dial, TypeOK
      <4>2. QED
        BY <4>1
    <3>4. QED
      BY <3>2, <3>3
  <2>2. CASE ~\E c \in Conns : Dial(p, c, FALSE)
    BY <1>5, <2>2 DEF LoadPage, TypeOK
  <2>3. QED
    BY <2>1, <2>2
<1>6. ASSUME NEW p \in Pages, OnPageAvailable(p)
      PROVE  Disciplined(q)'
  <2>1. CASE UNCHANGED <<socket, handler, wire, alive, status>> /\ (timer[p] \/ socket[p] # NoConn)
    BY <1>6, <2>1 DEF OnPageAvailable, TypeOK
  <2>2. CASE ~timer[p] /\ \E c \in Conns : Dial(p, c, synced[p])
    BY <1>3, <1>6, <2>2 DEF OnPageAvailable
  <2>3. QED
    BY <1>6, <2>1, <2>2 DEF OnPageAvailable
<1>7. ASSUME NEW p \in Pages, Hide(p)
      PROVE  Disciplined(q)'
  BY <1>7 DEF Hide, TypeOK
<1>8. QED
  BY <1>1, <1>2, <1>4, <1>5, <1>6, <1>7 DEF Next

(* The controller never stalls and never piles up connections, whatever     *)
(* mix of closes, errors, outcomes, timers and visibility changes it meets  *)
(* (connection.ts:77-202).                                                  *)
THEOREM ControllerDiscipline == Spec => []ReconnectDiscipline
<1>1. Init => ReconnectDiscipline
  BY DEF Init, ReconnectDiscipline
<1>2. TypeOK /\ ReconnectDiscipline /\ [Next]_vars => ReconnectDiscipline'
  <2> SUFFICES ASSUME TypeOK, ReconnectDiscipline, [Next]_vars, NEW p \in Pages
               PROVE  Disciplined(p)'
    BY DEF ReconnectDiscipline, Disciplined
  <2>1. Disciplined(p)
    BY DEF ReconnectDiscipline, Disciplined
  <2>2. QED
    BY <2>1, DisciplineStep
<1>3. QED
  BY <1>1, <1>2, TypeCorrect, PTL DEF Spec

-----------------------------------------------------------------------------
(* A page that announces ready follows the hub.                            *)

(* The steps of the hub and of the network.                                *)
HubSide ==
    \/ \E batch \in Batches : Commit(batch)
    \/ FanOutStep \/ HubRestart
    \/ \E c \in Conns : HandlerStep(c) \/ LoseConnection(c)

(* The hub's side of a page is as it was, or has been left.                *)
StreamStands(c) ==
    /\ instance' = instance /\ revision' = revision
    /\ wire'[c] = wire[c] /\ queue'[c] = queue[c]
    /\ c \in fanout' <=> c \in fanout
    /\ Live(c)' => Live(c)

(* How one of those steps changes what is under way on a live connection.  *)
StreamMoves(c) ==
    \/ ~ Live(c)'
    \/ StreamStands(c)
    \/ /\ Live(c) /\ instance' = instance /\ revision' = revision + 1
       /\ c \notin fanout /\ c \in fanout' /\ wire'[c] = wire[c] /\ queue'[c] = queue[c]
    \/ /\ Live(c) /\ instance' = instance /\ revision' = revision
       /\ c \in fanout /\ c \notin fanout'
       /\ wire'[c] = wire[c] /\ queue'[c] = Append(queue[c], delta)
    \/ /\ Live(c) /\ instance' = instance /\ revision' = revision
       /\ c \in fanout' <=> c \in fanout
       /\ queue[c] # <<>> /\ queue'[c] = Tail(queue[c])
       /\ wire'[c] = Append(wire[c], Head(queue[c]))
    \/ /\ instance' = instance /\ revision' = revision /\ c \notin fanout'
       /\ wire'[c] = <<Snapshot(Current)>> /\ queue'[c] = <<>>

LEMMA HubSideMoves ==
    ASSUME TypeOK, SnapshotFirst, Subscriptions, HubSide, NEW c \in Conns
    PROVE  StreamMoves(c)
<1> USE DEF fanVars, connVars, shownVars, ctrlVars, hubVars, StreamStands, StreamMoves
<1>1. ASSUME NEW batch \in Batches, Commit(batch) PROVE StreamMoves(c)
  BY <1>1 DEF Commit, WriterReady, Live, Subscriptions, TypeOK
<1>2. CASE FanOutStep
  <2>1. ASSUME NEW d \in Conns, Enqueue(d) PROVE StreamMoves(c)
    <3>1. /\ d \in fanout /\ overflowed = NoConn /\ fanout' = fanout \ {d}
          /\ \A e \in Conns : queue'[e] = IF e = d THEN Append(queue[d], delta) ELSE queue[e]
          /\ UNCHANGED <<instance, revision, wire, alive, handler, subscribers, overflowed>>
      BY <2>1 DEF Enqueue, TypeOK
    <3>2. CASE c = d
      BY <3>1, <3>2 DEF Live
    <3>3. CASE c # d
      BY <3>1, <3>3 DEF Live
    <3>4. QED
      BY <3>2, <3>3
  <2>2. ASSUME NEW d \in Conns, Overflow(d) PROVE StreamMoves(c)
    BY <2>2, StateSyncAssumption DEF Overflow, Live
  <2>3. CASE DrainTest
    BY <2>3 DEF DrainTest, Live
  <2>4. CASE DrainReceive
    <3>1. /\ UNCHANGED <<instance, revision, wire, alive, handler, subscribers, overflowed, fanout>>
          /\ c # overflowed => queue'[c] = queue[c]
      BY <2>4 DEF DrainReceive, TypeOK
    <3>2. QED
      BY <3>1 DEF Live
  <2>5. CASE DrainDone
    <3>1. /\ UNCHANGED <<instance, revision, wire, alive, handler>>
          /\ subscribers' = subscribers \ {overflowed} /\ fanout' = fanout \ {overflowed}
          /\ c # overflowed => queue'[c] = queue[c]
      BY <2>5 DEF DrainDone, TypeOK
    <3>2. QED
      BY <3>1 DEF Live
  <2>6. QED
    BY <1>2, <2>1, <2>2, <2>3, <2>4, <2>5 DEF FanOutStep
<1>3. CASE HubRestart
  BY <1>3 DEF HubRestart, Live
<1>4. ASSUME NEW d \in Conns, HandlerStep(d) \/ LoseConnection(d) PROVE StreamMoves(c)
  <2>1. CASE Reject(d)
    <3>1. /\ UNCHANGED <<instance, revision, queue, alive, subscribers, fanout, overflowed>>
          /\ c # d => wire'[c] = wire[c] /\ handler'[c] = handler[c]
          /\ handler'[d] = "none"
      BY <2>1 DEF Reject, TypeOK
    <3>2. QED
      BY <3>1 DEF Live
  <2>2. CASE Subscribe(d)
    <3>1. /\ UNCHANGED <<instance, revision, queue, alive, fanout, overflowed>> /\ fanout = {}
          /\ subscribers' = subscribers \cup {d} /\ handler[d] = "opened"
          /\ c # d => wire'[c] = wire[c] /\ handler'[c] = handler[c]
          /\ wire'[d] = Append(wire[d], Snapshot(Current))
      BY <2>2 DEF Subscribe, TypeOK, WriterReady
    <3>2. CASE c = d
      <4>1. wire[d] = <<>> /\ queue[d] = <<>>
        BY <3>1 DEF SnapshotFirst, Subscriptions
      <4>2. wire'[c] = <<Snapshot(Current)>> /\ queue'[c] = <<>> /\ c \notin fanout'
        BY <3>1, <3>2, <4>1
      <4>3. QED
        BY <3>1, <4>2
    <3>3. CASE c # d
      BY <3>1, <3>3 DEF Live
    <3>4. QED
      BY <3>2, <3>3
  <2>3. CASE ForwardMessage(d)
    <3>1. /\ UNCHANGED <<instance, revision, alive, subscribers, fanout, overflowed>>
          /\ handler[d] = "serving" /\ queue[d] # <<>>
          /\ c # d => wire'[c] = wire[c] /\ handler'[c] = handler[c] /\ queue'[c] = queue[c]
          /\ wire'[d] = Append(wire[d], Head(queue[d])) /\ queue'[d] = Tail(queue[d])
      BY <2>3 DEF ForwardMessage, TypeOK
    <3>2. CASE c = d
      BY <3>1, <3>2 DEF Live
    <3>3. CASE c # d
      BY <3>1, <3>3 DEF Live
    <3>4. QED
      BY <3>2, <3>3
  <2>4. CASE HandlerExit(d)
    <3>1. /\ UNCHANGED <<instance, revision, wire, alive, subscribers, fanout, overflowed>>
          /\ c # d => handler'[c] = handler[c] /\ queue'[c] = queue[c]
          /\ handler'[d] \in {"none", "leaving"}
      BY <2>4 DEF HandlerExit, TypeOK
    <3>2. QED
      BY <3>1 DEF Live
  <2>5. CASE Unsubscribe(d)
    <3>1. /\ UNCHANGED <<instance, revision, wire, alive, fanout, overflowed>>
          /\ subscribers' = subscribers \ {d}
          /\ c # d => handler'[c] = handler[c] /\ queue'[c] = queue[c]
      BY <2>5 DEF Unsubscribe, TypeOK
    <3>2. QED
      BY <3>1 DEF Live
  <2>6. CASE LoseConnection(d)
    <3>1. /\ UNCHANGED <<instance, revision, queue, handler, subscribers, fanout, overflowed>>
          /\ c # d => wire'[c] = wire[c] /\ alive'[c] = alive[c]
          /\ ~ alive'[d]
      BY <2>6 DEF LoseConnection, TypeOK
    <3>2. QED
      BY <3>1 DEF Live
  <2>7. QED
    BY <1>4, <2>1, <2>2, <2>3, <2>4, <2>5, <2>6 DEF HandlerStep
<1>5. QED
  BY <1>1, <1>2, <1>3, <1>4 DEF HubSide

(* What Streams says of one connection, and Followed of one page.          *)
Stream(c) ==
    /\ \A i \in 1 .. Len(wire[c]) :
         Brings(instance, wire[c][i], revision - (Len(wire[c]) - i + Len(queue[c]) + Unsent(c)))
    /\ \A i \in 1 .. Len(queue[c]) :
         /\ queue[c][i].type = "delta"
         /\ Brings(instance, queue[c][i], revision - (Len(queue[c]) - i + Unsent(c)))

Following(p) ==
    /\ view[p] # NoView
    /\ view[p].inst = instance
    /\ view[p].rev + Len(wire[socket[p]]) + Len(queue[socket[p]]) + Unsent(socket[p]) = revision

(* Facts about the lengths and elements of queues.                         *)
LEMMA AppendTail ==
    ASSUME NEW S, NEW s \in Seq(S), NEW x
    PROVE  /\ Len(s) \in Nat
           /\ Len(Append(s, x)) = Len(s) + 1
           /\ Append(s, x)[Len(s) + 1] = x
           /\ \A i \in 1 .. Len(s) : Append(s, x)[i] = s[i]
           /\ s # <<>> =>
                /\ Len(s) >= 1 /\ Head(s) = s[1] /\ Len(Tail(s)) = Len(s) - 1
                /\ \A i \in 1 .. Len(s) - 1 : Tail(s)[i] = s[i + 1]
                /\ Head(Append(s, x)) = Head(s)
<1>1. /\ s \in Seq(S \cup {x}) /\ x \in S \cup {x}
  OBVIOUS
<1>2. QED
  BY <1>1

(* The last of one more.                                                   *)
LEMMA OneMore == \A n \in Nat : \A i \in 1 .. n + 1 : i \in 1 .. n \/ i = n + 1
OBVIOUS

(* A message forwarded is no nearer to the hub's revision.                 *)
LEMMA AfterForward ==
    \A n, m \in Nat, u \in {0, 1}, i \in Int : (n + 1) - i + (m - 1) + u = n - i + m + u
OBVIOUS

(* Such a step keeps the stream.                                           *)
LEMMA StreamKept ==
    ASSUME TypeOK, Subscriptions, Streams, NEW c \in Conns, StreamMoves(c), Live(c)'
    PROVE  Stream(c)'
<1>0. /\ queue[c] \in Seq(Envelopes) /\ wire[c] \in Seq(Envelopes)
      /\ Len(queue[c]) \in Nat /\ Len(wire[c]) \in Nat /\ revision \in Nat
  BY StateSyncAssumption DEF TypeOK
<1>s. Live(c) => Stream(c)
  BY DEF Streams, Stream
<1>1. CASE StreamStands(c)
  <2>1. Unsent(c)' = Unsent(c)
    BY <1>1 DEF StreamStands, Unsent
  <2>2. QED
    BY <1>1, <1>s, <2>1 DEF StreamStands, Stream
<1>2. CASE /\ Live(c) /\ instance' = instance /\ revision' = revision + 1
           /\ c \notin fanout /\ c \in fanout' /\ wire'[c] = wire[c] /\ queue'[c] = queue[c]
  <2>1. Unsent(c) = 0 /\ Unsent(c)' = 1
    BY <1>2 DEF Unsent
  <2>2. /\ \A i \in 1 .. Len(wire[c]) :
             Brings(instance, wire[c][i], revision - (Len(wire[c]) - i + Len(queue[c]) + 0))
        /\ \A i \in 1 .. Len(queue[c]) :
             queue[c][i].type = "delta" /\ Brings(instance, queue[c][i], revision - (Len(queue[c]) - i + 0))
    BY <1>2, <1>s, <2>1 DEF Stream
  <2>3. ASSUME NEW i \in 1 .. Len(wire[c])
        PROVE  Brings(instance', wire'[c][i], revision' - (Len(wire'[c]) - i + Len(queue'[c]) + 1))
    <3>1. revision' - (Len(wire[c]) - i + Len(queue[c]) + 1) = revision - (Len(wire[c]) - i + Len(queue[c]) + 0)
      BY <1>0, <1>2
    <3>2. QED
      BY <1>2, <2>2, <3>1
  <2>4. ASSUME NEW i \in 1 .. Len(queue[c])
        PROVE  Brings(instance', queue'[c][i], revision' - (Len(queue'[c]) - i + 1))
    <3>1. revision' - (Len(queue[c]) - i + 1) = revision - (Len(queue[c]) - i + 0)
      BY <1>0, <1>2
    <3>2. QED
      BY <1>2, <2>2, <3>1
  <2>5. QED
    BY <1>2, <2>1, <2>2, <2>3, <2>4 DEF Stream
<1>3. CASE /\ Live(c) /\ instance' = instance /\ revision' = revision
           /\ c \in fanout /\ c \notin fanout'
           /\ wire'[c] = wire[c] /\ queue'[c] = Append(queue[c], delta)
  <2>1. Unsent(c) = 1 /\ Unsent(c)' = 0
    BY <1>3 DEF Unsent
  <2>2. /\ Len(queue'[c]) = Len(queue[c]) + 1 /\ queue'[c][Len(queue[c]) + 1] = delta
        /\ \A i \in 1 .. Len(queue[c]) : queue'[c][i] = queue[c][i]
    BY <1>0, <1>3, AppendTail
  <2>3. delta.type = "delta" /\ Brings(instance, delta, revision)
    BY <1>3 DEF Subscriptions
  <2>4. ASSUME NEW i \in 1 .. Len(wire[c])
        PROVE  Brings(instance, wire'[c][i], revision - (Len(wire[c]) - i + Len(queue'[c]) + 0))
    <3>1. Brings(instance, wire[c][i], revision - (Len(wire[c]) - i + Len(queue[c]) + 1))
      BY <1>3, <1>s, <2>1 DEF Stream
    <3>2. revision - (Len(wire[c]) - i + Len(queue[c]) + 1) = revision - (Len(wire[c]) - i + Len(queue'[c]) + 0)
      BY <1>0, <2>2
    <3>3. QED
      BY <1>3, <3>1, <3>2
  <2>5. ASSUME NEW i \in 1 .. Len(queue'[c])
        PROVE  queue'[c][i].type = "delta" /\ Brings(instance, queue'[c][i], revision - (Len(queue'[c]) - i + 0))
    <3>1. CASE i \in 1 .. Len(queue[c])
      <4>1. queue[c][i].type = "delta" /\ Brings(instance, queue[c][i], revision - (Len(queue[c]) - i + 1))
        BY <1>3, <1>s, <2>1, <3>1 DEF Stream
      <4>2. revision - (Len(queue[c]) - i + 1) = revision - (Len(queue'[c]) - i + 0)
        BY <1>0, <2>2
      <4>3. QED
        BY <1>3, <2>2, <3>1, <4>1, <4>2
    <3>2. CASE i = Len(queue[c]) + 1
      <4>1. revision - (Len(queue'[c]) - i + 0) = revision
        BY <1>0, <2>2, <3>2
      <4>2. QED
        BY <1>3, <2>2, <2>3, <3>2, <4>1
    <3>3. QED
      BY <1>0, <2>2, <3>1, <3>2, OneMore
  <2>6. QED
    BY <1>3, <2>1, <2>4, <2>5 DEF Stream
<1>4. CASE /\ Live(c) /\ instance' = instance /\ revision' = revision
           /\ c \in fanout' <=> c \in fanout
           /\ queue[c] # <<>> /\ queue'[c] = Tail(queue[c])
           /\ wire'[c] = Append(wire[c], Head(queue[c]))
  <2> DEFINE u == Unsent(c)
  <2>1. Unsent(c)' = u /\ u \in {0, 1}
    BY <1>4 DEF Unsent
  <2>2. /\ Len(queue'[c]) = Len(queue[c]) - 1 /\ Len(queue[c]) >= 1
        /\ \A i \in 1 .. Len(queue[c]) - 1 : queue'[c][i] = queue[c][i + 1]
        /\ Len(wire'[c]) = Len(wire[c]) + 1 /\ wire'[c][Len(wire[c]) + 1] = queue[c][1]
        /\ \A i \in 1 .. Len(wire[c]) : wire'[c][i] = wire[c][i]
    BY <1>0, <1>4, AppendTail
  <2>3. /\ \A i \in 1 .. Len(wire[c]) :
             Brings(instance, wire[c][i], revision - (Len(wire[c]) - i + Len(queue[c]) + u))
        /\ \A i \in 1 .. Len(queue[c]) :
             queue[c][i].type = "delta" /\ Brings(instance, queue[c][i], revision - (Len(queue[c]) - i + u))
    BY <1>4, <1>s DEF Stream
  <2> HIDE DEF u
  <2>4. ASSUME NEW i \in 1 .. Len(wire'[c])
        PROVE  Brings(instance, wire'[c][i], revision - (Len(wire'[c]) - i + Len(queue'[c]) + u))
    <3>1. CASE i \in 1 .. Len(wire[c])
      <4>1. Len(wire'[c]) - i + Len(queue'[c]) + u = Len(wire[c]) - i + Len(queue[c]) + u
        <5>1. i \in Int /\ Len(wire'[c]) = Len(wire[c]) + 1 /\ Len(queue'[c]) = Len(queue[c]) - 1
          BY <1>0, <2>2, <3>1
        <5>2. (Len(wire[c]) + 1) - i + (Len(queue[c]) - 1) + u = Len(wire[c]) - i + Len(queue[c]) + u
          BY <1>0, <2>1, <5>1, AfterForward
        <5>3. QED
          BY <5>1, <5>2, Zenon
      <4>2. QED
        BY <2>2, <2>3, <3>1, <4>1
    <3>2. CASE i = Len(wire[c]) + 1
      <4>1. Len(wire'[c]) - i + Len(queue'[c]) + u = Len(queue[c]) - 1 + u /\ 1 \in 1 .. Len(queue[c])
        BY <1>0, <2>1, <2>2, <3>2
      <4>2. QED
        BY <2>2, <2>3, <3>2, <4>1
    <3>3. QED
      BY <1>0, <2>2, <3>1, <3>2, OneMore
  <2>5. ASSUME NEW i \in 1 .. Len(queue'[c])
        PROVE  queue'[c][i].type = "delta" /\ Brings(instance, queue'[c][i], revision - (Len(queue'[c]) - i + u))
    <3> DEFINE k == Len(queue[c])
    <3>1. k \in Nat /\ Len(queue'[c]) = k - 1 /\ \A j \in 1 .. k - 1 : queue'[c][j] = queue[c][j + 1]
      BY <1>0, <2>2
    <3>2. i \in 1 .. k - 1
      BY <3>1, Zenon
    <3>3. \A j \in 1 .. k : queue[c][j].type = "delta" /\ Brings(instance, queue[c][j], revision - (k - j + u))
      BY <2>3
    <3> HIDE DEF k
    <3>4. i + 1 \in 1 .. k /\ (k - 1) - i + u = k - (i + 1) + u
      BY <2>1, <3>1, <3>2
    <3>5. QED
      BY <3>1, <3>2, <3>3, <3>4, Zenon
  <2>6. QED
    BY <1>4, <2>1, <2>4, <2>5 DEF Stream
<1>5. CASE /\ instance' = instance /\ revision' = revision /\ c \notin fanout'
           /\ wire'[c] = <<Snapshot(Current)>> /\ queue'[c] = <<>>
  <2>1. /\ Unsent(c)' = 0 /\ Len(wire'[c]) = 1 /\ Len(queue'[c]) = 0
        /\ wire'[c][1] = Snapshot(Current)
    BY <1>5 DEF Unsent
  <2>2. Brings(instance', Snapshot(Current), revision')
    BY <1>5 DEF Brings, Snapshot, Current
  <2>3. \A i \in 1 .. 1 : i = 1 /\ revision - (1 - i + 0 + 0) = revision
    BY <1>0
  <2>4. QED
    BY <1>5, <2>1, <2>2, <2>3 DEF Stream, Brings, Snapshot, Current
<1>6. QED
  BY <1>1, <1>2, <1>3, <1>4, <1>5 DEF StreamMoves

(* And its page follows it as before.                                      *)
LEMMA FollowKept ==
    ASSUME TypeOK, Subscriptions, Streams, Followed, NEW p \in Pages, socket[p] \in Conns,
           StreamMoves(socket[p]), Live(socket[p])', ~ Receives(p, "snapshot")',
           socket'[p] = socket[p], view'[p] = view[p]
    PROVE  Following(p)'
<1> DEFINE c == socket[p]
<1>0. /\ queue[c] \in Seq(Envelopes) /\ wire[c] \in Seq(Envelopes)
      /\ Len(queue[c]) \in Nat /\ Len(wire[c]) \in Nat /\ revision \in Nat /\ c # NoConn
  BY StateSyncAssumption DEF TypeOK
<1>1. Live(c) /\ ~ Receives(p, "snapshot") => /\ Following(p) /\ view[p].rev \in Nat
                                             /\ view[p].inst = instance
  BY <1>0 DEF Followed, Following, TypeOK, States
<1>r. \A t : Receives(p, t) <=> wire[c] # <<>> /\ Head(wire[c]).type = t
  BY <1>0 DEF Receives
<1>s. \A t : Receives(p, t)' <=> wire'[c] # <<>> /\ Head(wire'[c]).type = t
  BY <1>0 DEF Receives
<1> DEFINE n == Len(wire[c])
           m == Len(queue[c])
           v == view[p].rev
<1>n. n \in Nat /\ m \in Nat /\ revision \in Nat
  BY <1>0
<1>e. n = Len(wire[c]) /\ m = Len(queue[c]) /\ v = view[p].rev
  OBVIOUS
<1> HIDE DEF c, n, m, v
<1>2. CASE StreamStands(c)
  <2>1. Live(c) /\ ~ Receives(p, "snapshot") /\ Unsent(c)' = Unsent(c)
    BY <1>2, <1>r, <1>s DEF StreamStands, Unsent, c
  <2>2. QED
    BY <1>1, <1>2, <2>1 DEF StreamStands, Following, c
<1>3. CASE /\ Live(c) /\ instance' = instance /\ revision' = revision + 1
           /\ c \notin fanout /\ c \in fanout' /\ wire'[c] = wire[c] /\ queue'[c] = queue[c]
  <2>1. ~ Receives(p, "snapshot") /\ Unsent(c) = 0 /\ Unsent(c)' = 1
    BY <1>3, <1>r, <1>s DEF Unsent, c
  <2>2. QED
    BY <1>0, <1>1, <1>3, <2>1 DEF Following, c
<1>4. CASE /\ Live(c) /\ instance' = instance /\ revision' = revision
           /\ c \in fanout /\ c \notin fanout'
           /\ wire'[c] = wire[c] /\ queue'[c] = Append(queue[c], delta)
  <2>1. ~ Receives(p, "snapshot") /\ Unsent(c) = 1 /\ Unsent(c)' = 0
    BY <1>4, <1>r, <1>s DEF Unsent, c
  <2>2. Len(queue'[c]) = Len(queue[c]) + 1
    BY <1>0, <1>4, AppendTail
  <2>3. view[p] # NoView /\ v \in Nat /\ view[p].inst = instance /\ v + n + m + 1 = revision
    BY <1>1, <1>4, <1>e, <2>1 DEF Following, c
  <2>4. v + n + (m + 1) + 0 = revision
    BY <1>n, <2>3
  <2>5. QED
    BY <1>4, <1>e, <2>1, <2>2, <2>3, <2>4, Zenon DEF Following, c
<1>5. CASE /\ Live(c) /\ instance' = instance /\ revision' = revision
           /\ c \in fanout' <=> c \in fanout
           /\ queue[c] # <<>> /\ queue'[c] = Tail(queue[c])
           /\ wire'[c] = Append(wire[c], Head(queue[c]))
  <2>1. /\ Len(queue'[c]) = Len(queue[c]) - 1 /\ Len(wire'[c]) = Len(wire[c]) + 1
        /\ wire[c] # <<>> => Head(wire'[c]) = Head(wire[c])
        /\ wire'[c] # <<>>
    BY <1>0, <1>5, AppendTail
  <2>2. ~ Receives(p, "snapshot")
    BY <2>1, <1>r, <1>s DEF c
  <2>3. Unsent(c)' = Unsent(c) /\ Unsent(c) \in {0, 1}
    BY <1>5 DEF Unsent, c
  <2>4. view[p] # NoView /\ v \in Nat /\ view[p].inst = instance /\ v + n + m + Unsent(c) = revision
    BY <1>1, <1>5, <1>e, <2>2 DEF Following, c
  <2>5. v + (n + 1) + (m - 1) + Unsent(c) = revision
    BY <1>n, <2>3, <2>4
  <2>6. QED
    BY <1>5, <1>e, <2>1, <2>3, <2>4, <2>5, Zenon DEF Following, c
<1>6. CASE wire'[c] = <<Snapshot(Current)>>
  BY <1>6, <1>s DEF Snapshot
<1>7. QED
  BY <1>2, <1>3, <1>4, <1>5, <1>6 DEF StreamMoves, c

-----------------------------------------------------------------------------
(* The page handles a snapshot, or a delta without a gap.                  *)
Handles(p) == OnSnapshot(p) \/ OnDelta(p)

PageSide(p) == PageStep(p) \/ LoadPage(p) \/ Hide(p) \/ OnPageAvailable(p)

(* What the steps of a page leave alone, and what becomes of a connection   *)
(* and of the socket of a page.                                             *)
PageFrame == UNCHANGED <<instance, revision, fanout, subscribers, overflowed, delta, queue>>

LEMMA DialMoves ==
    ASSUME TypeOK, NEW p \in Pages, NEW d \in Conns, NEW b, Dial(p, d, b), PageFrame,
           NEW q \in Pages, NEW c \in Conns, q # p => view'[q] = view[q]
    PROVE  /\ StreamStands(c) \/ ~ Live(c)'
           /\ socket'[q] = c /\ Live(c)' => socket[q] = c /\ view'[q] = view[q]
<1>1. /\ socket'[p] = d /\ handler'[d] = "dialing"
      /\ q # p => socket'[q] = socket[q]
      /\ c # d => handler'[c] = handler[c] /\ wire'[c] = wire[c] /\ alive'[c] = alive[c]
  BY DEF Dial, TypeOK
<1>2. ~ Live(d)'
  BY <1>1 DEF Live
<1>3. StreamStands(c) \/ ~ Live(c)'
  BY <1>1, <1>2 DEF StreamStands, Live, PageFrame
<1>4. QED
  BY <1>1, <1>2, <1>3

LEMMA DropMoves ==
    ASSUME TypeOK, NEW p \in Pages, DropSocket(p), UNCHANGED <<handler, view>>, PageFrame,
           NEW q \in Pages, NEW c \in Conns
    PROVE  /\ StreamStands(c) \/ ~ Live(c)'
           /\ socket'[q] = c /\ Live(c)' => socket[q] = c /\ view'[q] = view[q]
<1>0. view' = view
  OBVIOUS
<1>1. /\ socket'[p] = NoConn
      /\ q # p => socket'[q] = socket[q]
      /\ c = socket[p] => ~ alive'[c]
      /\ c # socket[p] => wire'[c] = wire[c] /\ alive'[c] = alive[c]
  BY DEF DropSocket, TypeOK
<1>2. StreamStands(c) \/ ~ Live(c)'
  BY <1>1 DEF StreamStands, Live, PageFrame
<1>3. socket'[q] = c => q # p /\ socket[q] = c
  BY <1>1, StateSyncAssumption
<1>4. view'[q] = view[q]
  BY <1>0
<1>5. QED
  BY <1>2, <1>3, <1>4

LEMMA PageSideMoves ==
    ASSUME TypeOK, NEW p \in Pages, PageSide(p), ~ Handles(p), NEW q \in Pages, NEW c \in Conns
    PROVE  /\ StreamStands(c) \/ ~ Live(c)'
           /\ socket'[q] = c /\ Live(c)' => socket[q] = c /\ view'[q] = view[q]
<1> USE DEF fanVars, connVars, shownVars, ctrlVars, hubVars
<1>1. PageFrame
  BY DEF PageSide, PageStep, OnOpen, OnSnapshot, OnDelta, OnGap, OnResync, OnReload, OnClose,
         TimerFires, LoadPage, Hide, OnPageAvailable, PageFrame
<1>2. CASE OnOpen(p)
  <2>1. /\ UNCHANGED <<wire, alive, view, socket>>
        /\ c = socket[p] => handler'[c] = "opened"
        /\ c # socket[p] => handler'[c] = handler[c]
    BY <1>2 DEF OnOpen, TypeOK
  <2>2. QED
    BY <1>1, <2>1 DEF StreamStands, Live, PageFrame
<1>3. CASE OnGap(p) \/ OnResync(p) \/ OnReload(p) \/ OnClose(p)
  <2>1. DropSocket(p) /\ UNCHANGED <<handler, view>>
    BY <1>3 DEF OnGap, OnResync, OnReload, OnClose, Rehydrate
  <2>2. QED
    BY <1>1, <2>1, DropMoves
<1>4. CASE UNCHANGED <<socket, handler, wire, alive, view>>
  BY <1>1, <1>4 DEF StreamStands, Live, PageFrame
<1>5. ASSUME NEW d \in Conns, NEW b, Dial(p, d, b), q # p => view'[q] = view[q]
      PROVE  /\ StreamStands(c) \/ ~ Live(c)'
             /\ socket'[q] = c /\ Live(c)' => socket[q] = c /\ view'[q] = view[q]
  BY <1>1, <1>5, DialMoves
<1>6. CASE TimerFires(p) \/ OnPageAvailable(p)
  <2>1. view' = view
    BY <1>6 DEF TimerFires, OnPageAvailable
  <2>2. CASE UNCHANGED <<socket, handler, wire, alive>>
    BY <1>4, <2>1, <2>2
  <2>3. CASE \E d \in Conns : Dial(p, d, synced[p])
    BY <1>5, <2>1, <2>3
  <2>4. QED
    BY <1>6, <2>2, <2>3 DEF TimerFires, OnPageAvailable
<1>7. CASE LoadPage(p)
  <2>1. (q # p => view'[q] = view[q]) /\ socket[p] = NoConn
    BY <1>7 DEF LoadPage, TypeOK
  <2>2. CASE UNCHANGED <<socket, handler, wire, alive>>
    BY <1>1, <2>1, <2>2, StateSyncAssumption DEF StreamStands, Live, PageFrame
  <2>3. CASE \E d \in Conns : Dial(p, d, FALSE)
    BY <1>5, <2>1, <2>3
  <2>4. QED
    BY <1>7, <2>2, <2>3 DEF LoadPage
<1>8. CASE Hide(p)
  BY <1>4, <1>8 DEF Hide
<1>9. QED
  BY <1>2, <1>3, <1>6, <1>7, <1>8 DEF PageSide, PageStep, Handles

(* The page takes one message of its stream, and its view moves with it.   *)
LEMMA HandlesMoves ==
    ASSUME HistoryInv, Streams, Followed, Readiness, NEW p \in Pages, Handles(p),
           NEW c \in Conns, Live(c)'
    PROVE  /\ Stream(c)' /\ Live(c) /\ UNCHANGED socket
           /\ c # socket[p] => StreamStands(c)
           /\ \A q \in Pages : q # p => view'[q] = view[q]
           /\ c = socket[p] => Following(p)'
<1> USE DEF fanVars, connVars, shownVars, ctrlVars, hubVars, HistoryInv
<1> DEFINE w == wire[c]
<1>0. /\ queue[c] \in Seq(Envelopes) /\ w \in Seq(Envelopes)
      /\ Len(queue[c]) \in Nat /\ Len(w) \in Nat /\ revision \in Nat
  BY StateSyncAssumption DEF TypeOK
<1>1. /\ PageFrame /\ UNCHANGED <<handler, alive, socket>>
      /\ \A q \in Pages : q # p => view'[q] = view[q]
      /\ socket[p] \in Conns
  BY DEF Handles, OnSnapshot, OnDelta, PageFrame, TypeOK, Receives
<1>2. /\ wire[socket[p]] # <<>> /\ wire'[c] = IF c = socket[p] THEN Tail(w) ELSE w
  BY <1>1 DEF Handles, OnSnapshot, OnDelta, TypeOK, Receives, Handled
<1>3. Live(c) /\ Stream(c) /\ Unsent(c)' = Unsent(c)
  BY <1>1 DEF Live, PageFrame, Streams, Stream, Unsent
<1>4. CASE c # socket[p]
  <2>1. StreamStands(c)
    BY <1>1, <1>2, <1>3, <1>4 DEF StreamStands, PageFrame
  <2>2. Stream(c)'
    BY <1>3, <2>1 DEF StreamStands, Stream
  <2>3. QED
    BY <1>1, <1>3, <1>4, <2>1, <2>2
<1>5. CASE c = socket[p]
  <2> DEFINE m == Head(w)
             u == Unsent(c)
  <2>1. /\ w # <<>> /\ wire'[c] = Tail(w) /\ Len(w) >= 1 /\ m = w[1] /\ Len(Tail(w)) = Len(w) - 1
        /\ \A i \in 1 .. Len(w) - 1 : Tail(w)[i] = w[i + 1]
    BY <1>0, <1>2, <1>5, AppendTail
  <2>2. /\ \A i \in 1 .. Len(w) : Brings(instance, w[i], revision - (Len(w) - i + Len(queue[c]) + u))
        /\ \A i \in 1 .. Len(queue[c]) :
             queue[c][i].type = "delta" /\ Brings(instance, queue[c][i], revision - (Len(queue[c]) - i + u))
    BY <1>3 DEF Stream
  <2>3. u \in {0, 1}
    BY DEF Unsent
  <2>4. m \in Envelopes
    BY <1>0, <2>1
  <2>5. Brings(instance, m, revision - (Len(w) - 1 + Len(queue[c]) + u))
    <3>1. 1 \in 1 .. Len(w)
      BY <1>0, <2>1
    <3>2. QED
      BY <2>1, <2>2, <3>1, Zenon
  <2> DEFINE n == Len(w)
             k == Len(queue[c])
  <2>n. n \in Nat /\ k \in Nat /\ revision \in Nat
    BY <1>0
  <2>e. n = Len(w) /\ k = Len(queue[c]) /\ Len(Tail(w)) = n - 1
    BY <2>1
  <2> HIDE DEF w, m, u, n, k
  <2>6. Stream(c)'
    <3>1. ASSUME NEW i \in 1 .. Len(Tail(w))
          PROVE  Brings(instance, Tail(w)[i], revision - (Len(Tail(w)) - i + Len(queue[c]) + u))
      <4>0. i \in 1 .. n - 1 /\ i + 1 \in 1 .. n
        <5>1. i \in 1 .. n - 1
          BY <2>e, Zenon
        <5>2. QED
          BY <5>1, <2>n
      <4>1. i \in 1 .. Len(w) - 1 /\ i + 1 \in 1 .. Len(w) /\ Tail(w)[i] = w[i + 1]
        BY <2>1, <2>e, <4>0, Zenon
      <4>2. (n - 1) - i = n - (i + 1) /\ i \in Int
        BY <2>n, <4>0
      <4>3. QED
        BY <2>2, <2>e, <4>1, <4>2, Zenon
    <3>2. QED
      BY <1>1, <1>3, <2>1, <2>2, <3>1 DEF Stream, PageFrame, u
  <2>7. Following(p)'
    <3>1. m = Head(wire[socket[p]]) /\ Unsent(c)' = u /\ Len(wire'[c]) = Len(w) - 1
      BY <1>3, <1>5, <2>1 DEF m, w, u
    <3>2. CASE OnSnapshot(p)
      <4>1. Receives(p, "snapshot") /\ m.type = "snapshot"
        BY <3>1, <3>2 DEF OnSnapshot, Receives
      <4>2. Schema[m.state.inst] = pageSchema[p]
        BY <3>1, <4>1 DEF Readiness
      <4>3. view'[p] = m.state
        BY <3>1, <3>2, <4>2 DEF OnSnapshot, TypeOK
      <4>4. m.state \in States
        BY <2>4, <4>1, EnvelopeFields
      <4>5. m.state.inst = instance /\ m.state.rev = revision - (n - 1 + k + u)
        BY <2>5, <2>e, <4>1, Zenon DEF Brings
      <4>6. view'[p] # NoView
        BY <4>3, <4>4, ProjectionAssumption
      <4>7. view'[p].rev + (Len(w) - 1) + Len(queue[c]) + u = revision
        <5>1. m.state.rev \in Nat
          BY <4>4 DEF States
        <5>2. m.state.rev + (n - 1) + k + u = revision
          BY <2>3, <2>n, <4>5, <5>1
        <5>3. QED
          BY <2>e, <4>3, <5>2, Zenon
      <4>8. QED
        BY <1>1, <1>5, <3>1, <4>3, <4>5, <4>6, <4>7 DEF Following, PageFrame
    <3>3. CASE OnDelta(p)
      <4>1. m.type = "delta" /\ ~ Receives(p, "snapshot")
        BY <3>1, <3>3 DEF OnDelta, Receives
      <4>2. /\ view[p] # NoView /\ view[p].inst = instance
            /\ view[p].rev + n + k + u = revision
        BY <1>3, <1>5, <4>1, StateSyncAssumption DEF Followed, w, u, n, k
      <4>3. view[p].rev \in Nat
        BY <4>2 DEF TypeOK, States
      <4>4. m.inst = instance /\ m.rev = revision - (n - 1 + k + u)
        BY <2>5, <2>e, <4>1, Zenon DEF Brings
      <4>5. m.rev = view[p].rev + 1
        <5> DEFINE v == view[p].rev
        <5>1. v \in Nat /\ v + n + k + u = revision
          BY <4>2, <4>3
        <5> HIDE DEF v
        <5>2. revision - (n - 1 + k + u) = v + 1
          BY <2>3, <2>n, <5>1
        <5>3. QED
          BY <4>4, <5>2 DEF v
      <4>6. ~ (m.rev <= view[p].rev)
        BY <4>3, <4>5
      <4>7. view' = [view EXCEPT ![p] =
                       [inst |-> view[p].inst, rev |-> m.rev, proj |-> ApplyBatch(view[p].proj, m.ops)]]
        BY <3>1, <3>3, <4>6 DEF OnDelta
      <4>8. view'[p] = [inst |-> view[p].inst, rev |-> m.rev, proj |-> ApplyBatch(view[p].proj, m.ops)]
        BY <4>7 DEF TypeOK
      <4>9. view'[p] # NoView
        <5>1. m.ops \in Seq(Operations) /\ m.rev \in Nat
          BY <2>4, <4>1, EnvelopeFields
        <5>2. view[p] \in States
          BY <4>2 DEF TypeOK
        <5>3. ApplyBatch(view[p].proj, m.ops) \in Projections
          BY <5>1, <5>2, ApplyBatchType DEF States
        <5>4. view'[p] \in States
          BY <4>8, <5>1, <5>2, <5>3 DEF States
        <5>5. QED
          BY <5>4, ProjectionAssumption
      <4>10. view'[p].inst = instance /\ view'[p].rev + (Len(w) - 1) + Len(queue[c]) + u = revision
        <5>1. (view[p].rev + 1) + (n - 1) + k + u = revision
          <6> DEFINE v == view[p].rev
          <6>1. v \in Nat /\ v + n + k + u = revision
            BY <4>2, <4>3
          <6> HIDE DEF v
          <6>2. (v + 1) + (n - 1) + k + u = revision
            BY <2>3, <2>n, <6>1
          <6>3. QED
            BY <6>2 DEF v
        <5>2. view'[p].inst = instance /\ view'[p].rev = view[p].rev + 1
          BY <4>2, <4>5, <4>8
        <5>3. QED
          BY <2>e, <5>1, <5>2, Zenon
      <4>11. QED
        BY <1>1, <1>5, <3>1, <4>9, <4>10 DEF Following, PageFrame
    <3>4. QED
      BY <3>2, <3>3 DEF Handles
  <2>8. QED
    BY <1>1, <1>3, <1>5, <2>6, <2>7
<1>6. QED
  BY <1>4, <1>5

-----------------------------------------------------------------------------
(* What Subscriptions says of one connection.                              *)
Subscribed(c) ==
    /\ handler[c] \in {"none", "dialing", "opened"} => c \notin subscribers /\ queue[c] = <<>>
    /\ handler[c] = "serving" /\ c \notin subscribers => queue[c] = <<Resync>>

(* The subscriptions are in order after any step.                          *)
LEMMA SubscriptionsStep ==
    ASSUME TypeOK, Subscriptions, Next
    PROVE  Subscriptions'
<1> USE DEF fanVars, connVars, shownVars, ctrlVars, hubVars
<1>1. ASSUME NEW batch \in Batches, Commit(batch) PROVE Subscriptions'
  <2>1. /\ UNCHANGED <<instance, subscribers, overflowed, handler, queue>>
        /\ overflowed = NoConn /\ fanout' = subscribers
        /\ delta' = Delta(instance, revision, batch) /\ revision' = revision + 1
    BY <1>1 DEF Commit, WriterReady
  <2>2. (revision + 1) - 1 = revision
    BY StateSyncAssumption DEF TypeOK
  <2>3. delta'.type = "delta" /\ Brings(instance', delta', revision')
    BY <2>1, <2>2 DEF Delta, Brings
  <2>4. QED
    BY <2>1, <2>3 DEF Subscriptions
<1>2. CASE FanOutStep
  <2> SUFFICES ASSUME NEW c \in Conns
               PROVE  /\ fanout' \subseteq subscribers'
                      /\ overflowed' \in fanout' \cup {NoConn}
                      /\ fanout' # {} => fanout # {}
                      /\ Subscribed(c)'
    <3>1. UNCHANGED <<instance, revision, delta>>
      BY <1>2 DEF FanOutStep, Enqueue, Overflow, DrainTest, DrainReceive, DrainDone
    <3>2. CASE Conns = {}
      BY <1>2, <3>2 DEF TypeOK, FanOutStep, Enqueue, Overflow, DrainTest, DrainReceive,
                        DrainDone, Subscriptions
    <3>3. CASE Conns # {}
      BY <3>1, <3>3 DEF Subscriptions, Subscribed
    <3>4. QED
      BY <3>2, <3>3
  <2>s. Subscribed(c) /\ fanout \subseteq subscribers /\ overflowed \in fanout \cup {NoConn}
    BY DEF Subscriptions, Subscribed
  <2>1. ASSUME NEW d \in Conns, Enqueue(d) \/ Overflow(d)
        PROVE  /\ fanout' \subseteq subscribers'
               /\ overflowed' \in fanout' \cup {NoConn}
               /\ fanout' # {} => fanout # {}
               /\ Subscribed(c)'
    <3>1. /\ UNCHANGED <<subscribers, handler>> /\ d \in fanout
          /\ c # d => queue'[c] = queue[c]
          /\ fanout' \subseteq fanout
          /\ overflowed' = NoConn \/ (overflowed' = d /\ fanout' = fanout)
      <4>1. CASE Enqueue(d)
        BY <4>1 DEF Enqueue, TypeOK
      <4>2. CASE Overflow(d)
        BY <4>2 DEF Overflow
      <4>3. QED
        BY <2>1, <4>1, <4>2
    <3>2. d \in subscribers
      BY <2>s, <3>1
    <3>3. QED
      BY <2>s, <3>1, <3>2 DEF Subscribed
  <2>2. CASE DrainTest \/ DrainReceive
    <3>1. /\ UNCHANGED <<subscribers, handler, fanout, overflowed>>
          /\ c # overflowed => queue'[c] = queue[c]
      BY <2>2 DEF DrainTest, DrainReceive, TypeOK
    <3>2. c = overflowed => c \in subscribers
      BY <2>s, StateSyncAssumption
    <3>3. QED
      BY <2>s, <3>1, <3>2 DEF Subscribed
  <2>3. CASE DrainDone
    <3>1. /\ UNCHANGED handler /\ overflowed # NoConn /\ overflowed' = NoConn
          /\ subscribers' = subscribers \ {overflowed} /\ fanout' = fanout \ {overflowed}
          /\ c # overflowed => queue'[c] = queue[c]
          /\ c = overflowed => queue'[c] = <<Resync>>
      BY <2>3 DEF DrainDone, TypeOK
    <3>2. QED
      BY <2>s, <3>1 DEF Subscribed
  <2>4. QED
    BY <1>2, <2>1, <2>2, <2>3 DEF FanOutStep
<1>3. CASE HubRestart
  BY <1>3 DEF HubRestart, Subscriptions
<1>4. ASSUME UNCHANGED <<instance, revision, delta, fanout, overflowed>>,
             fanout \subseteq subscribers',
             \A c \in Conns : Subscribed(c)'
      PROVE  Subscriptions'
  BY <1>4 DEF Subscriptions, Subscribed
<1>5. ASSUME NEW d \in Conns, HandlerStep(d) \/ LoseConnection(d) PROVE Subscriptions'
  <2>1. UNCHANGED <<instance, revision, delta, fanout, overflowed>>
    BY <1>5 DEF HandlerStep, Reject, Subscribe, ForwardMessage, HandlerExit, Unsubscribe,
                LoseConnection
  <2>2. fanout \subseteq subscribers'
    BY <1>5 DEF HandlerStep, Reject, Subscribe, ForwardMessage, HandlerExit, Unsubscribe,
                LoseConnection, Subscriptions, WriterReady
  <2>3. ASSUME NEW c \in Conns PROVE Subscribed(c)'
    <3>0. Subscribed(c)
      BY DEF Subscriptions, Subscribed
    <3>1. CASE c # d
      <4>1. /\ handler'[c] = handler[c] /\ queue'[c] = queue[c]
            /\ c \in subscribers' <=> c \in subscribers
        BY <1>5, <3>1 DEF HandlerStep, Reject, Subscribe, ForwardMessage, HandlerExit,
                          Unsubscribe, LoseConnection, TypeOK
      <4>2. QED
        BY <3>0, <4>1 DEF Subscribed
    <3>2. CASE c = d
      <4>1. CASE Reject(d) \/ Subscribe(d) \/ HandlerExit(d) \/ LoseConnection(d)
        BY <3>0, <3>2, <4>1 DEF Reject, Subscribe, HandlerExit, LoseConnection, Subscribed, TypeOK
      <4>2. CASE ForwardMessage(d)
        <5>1. /\ handler[d] = "serving" /\ UNCHANGED subscribers
              /\ handler'[d] = IF Head(queue[d]) = Resync THEN "leaving" ELSE "serving"
          BY <4>2 DEF ForwardMessage, TypeOK
        <5>2. d \notin subscribers => Head(queue[d]) = Resync
          BY <3>0, <3>2, <5>1 DEF Subscribed
        <5>3. QED
          BY <3>2, <5>1, <5>2 DEF Subscribed
      <4>3. CASE Unsubscribe(d)
        BY <3>2, <4>3 DEF Unsubscribe, Subscribed, TypeOK
      <4>4. QED
        BY <1>5, <4>1, <4>2, <4>3 DEF HandlerStep
    <3>3. QED
      BY <3>1, <3>2
  <2>4. QED
    BY <1>4, <2>1, <2>2, <2>3
<1>6. ASSUME NEW p \in Pages, PageSide(p) PROVE Subscriptions'
  <2>1. PageFrame
    BY <1>6 DEF PageSide, PageStep, OnOpen, OnSnapshot, OnDelta, OnGap, OnResync, OnReload,
                OnClose, TimerFires, LoadPage, Hide, OnPageAvailable, PageFrame
  <2>2. ASSUME NEW c \in Conns PROVE Subscribed(c)'
    <3>0. Subscribed(c)
      BY DEF Subscriptions, Subscribed
    <3>1. \/ handler'[c] = handler[c]
          \/ handler'[c] \in {"dialing", "opened"} /\ handler[c] \in {"none", "dialing"}
      BY <1>6 DEF PageSide, PageStep, OnOpen, OnSnapshot, OnDelta, OnGap, OnResync, OnReload,
                  OnClose, TimerFires, LoadPage, Hide, OnPageAvailable, Dial, Free, TypeOK
    <3>2. QED
      BY <2>1, <3>0, <3>1 DEF Subscribed, PageFrame
  <2>3. QED
    BY <1>4, <2>1, <2>2 DEF PageFrame, Subscriptions
<1>7. QED
  BY <1>1, <1>2, <1>3, <1>5, <1>6 DEF Next, PageSide

-----------------------------------------------------------------------------
(* A step is one of the hub's side or of a page.                           *)
LEMMA Sides == Next => HubSide \/ \E p \in Pages : PageSide(p)
BY DEF Next, HubSide, PageSide

LEMMA HubSideFrame == HubSide => UNCHANGED <<socket, view, status, timer, hidden, pageSchema>>
BY DEF HubSide, Commit, FanOutStep, Enqueue, Overflow, DrainTest, DrainReceive, DrainDone,
       HubRestart, HandlerStep, Reject, Subscribe, ForwardMessage, HandlerExit, Unsubscribe,
       LoseConnection, fanVars, connVars, shownVars, ctrlVars, hubVars

(* The streams are in order after any step.                                *)
LEMMA StreamsStep ==
    ASSUME HistoryInv, Subscriptions, Streams, Followed, Readiness, Next
    PROVE  Streams'
<1> SUFFICES ASSUME NEW c \in Conns, Live(c)' PROVE Stream(c)'
  BY DEF Streams, Stream
<1>t. TypeOK /\ SnapshotFirst
  BY DEF HistoryInv
<1>1. CASE HubSide
  BY <1>1, <1>t, HubSideMoves, StreamKept
<1>2. ASSUME NEW p \in Pages, PageSide(p) PROVE Stream(c)'
  <2>1. CASE Handles(p)
    BY <2>1, HandlesMoves
  <2>2. CASE ~ Handles(p)
    <3>1. StreamStands(c)
      BY <1>2, <1>t, <2>2, PageSideMoves
    <3>2. QED
      BY <1>t, <3>1, StreamKept DEF StreamMoves
  <2>3. QED
    BY <2>1, <2>2
<1>3. QED
  BY <1>1, <1>2, Sides

(* And the pages follow them.                                              *)
LEMMA FollowedStep ==
    ASSUME HistoryInv, Subscriptions, Streams, Followed, Readiness, Next
    PROVE  Followed'
<1>t. TypeOK /\ SnapshotFirst
  BY DEF HistoryInv
<1> SUFFICES ASSUME NEW q \in Pages, NEW c \in Conns, socket'[q] = c, Live(c)',
                    ~ Receives(q, "snapshot")'
             PROVE  Following(q)'
  <2>1. socket' \in [Pages -> Conns \cup {NoConn}]
    BY <1>t, NextTypeOK DEF TypeOK
  <2>2. QED
    BY <2>1 DEF Followed, Following
<1>1. ASSUME socket[q] = c, view'[q] = view[q], StreamMoves(c) PROVE Following(q)'
  BY <1>1, <1>t, FollowKept
<1>2. CASE HubSide
  <2>1. socket[q] = c /\ view'[q] = view[q]
    BY <1>2, HubSideFrame
  <2>2. QED
    BY <1>1, <1>2, <1>t, <2>1, HubSideMoves
<1>3. ASSUME NEW p \in Pages, PageSide(p) PROVE Following(q)'
  <2>1. CASE Handles(p)
    <3>1. /\ UNCHANGED socket
          /\ c # socket[p] => StreamStands(c)
          /\ \A r \in Pages : r # p => view'[r] = view[r]
          /\ c = socket[p] => Following(p)'
      BY <2>1, HandlesMoves
    <3>2. CASE q = p
      BY <3>1, <3>2
    <3>3. CASE q # p
      <4>1. socket[q] = c /\ c # socket[p]
        BY <3>1, <3>3, StateSyncAssumption DEF Readiness
      <4>2. QED
        BY <1>1, <3>1, <3>3, <4>1 DEF StreamMoves
    <3>4. QED
      BY <3>2, <3>3
  <2>2. CASE ~ Handles(p)
    <3>1. StreamStands(c) /\ socket[q] = c /\ view'[q] = view[q]
      BY <1>3, <1>t, <2>2, PageSideMoves
    <3>2. QED
      BY <1>1, <3>1 DEF StreamMoves
  <2>3. QED
    BY <2>1, <2>2
<1>4. QED
  BY <1>2, <1>3, Sides

-----------------------------------------------------------------------------
(* What Readiness says of page q.                                          *)
Ready(q) ==
    /\ status[q] = "ready" =>
         /\ view[q] # NoView /\ ~ timer[q]
         /\ socket[q] # NoConn => handler[socket[q]] \notin {"dialing", "opened"}
    /\ Receives(q, "snapshot") =>
         /\ status[q] # "ready"
         /\ Schema[Head(wire[socket[q]]).state.inst] = pageSchema[q]

(* A page that dials takes a connection nobody has.                        *)
LEMMA SocketsStep ==
    ASSUME TypeOK, Readiness, Next, NEW p \in Pages, NEW q \in Pages,
           socket'[p] = socket'[q], socket'[p] # NoConn
    PROVE  p = q
<1> USE DEF fanVars, connVars, shownVars, ctrlVars, hubVars
<1>1. CASE HubSide
  BY <1>1, HubSideFrame DEF Readiness
<1>2. ASSUME NEW d \in Pages, PageSide(d) PROVE p = q
  <2>1. \A r \in Pages : r # d => socket'[r] = socket[r]
    BY <1>2 DEF PageSide, PageStep, OnOpen, OnSnapshot, OnDelta, OnGap, OnResync, OnReload,
                OnClose, TimerFires, LoadPage, Hide, OnPageAvailable, Rehydrate, DropSocket,
                Dial, TypeOK
  <2>2. \/ socket'[d] \in {socket[d], NoConn}
        \/ \A r \in Pages : socket[r] # socket'[d]
    BY <1>2 DEF PageSide, PageStep, OnOpen, OnSnapshot, OnDelta, OnGap, OnResync, OnReload,
                OnClose, TimerFires, LoadPage, Hide, OnPageAvailable, Rehydrate, DropSocket,
                Dial, Free, TypeOK
  <2>3. QED
    BY <2>1, <2>2 DEF Readiness
<1>3. QED
  BY <1>1, <1>2, Sides

(* The hub's side sends a snapshot only to a page that is not ready yet.   *)
LEMMA HubSideReady ==
    ASSUME TypeOK, SnapshotFirst, Subscriptions, Readiness, HubSide, NEW q \in Pages
    PROVE  Ready(q)'
<1> USE DEF fanVars, connVars, shownVars, ctrlVars, hubVars
<1>1. /\ UNCHANGED <<socket, view, status, timer, pageSchema>>
      /\ Ready(q)
  BY HubSideFrame DEF Readiness, Ready
<1>2. \A c \in Conns : handler'[c] \in {"dialing", "opened"} => handler'[c] = handler[c]
  BY DEF HubSide, Commit, FanOutStep, Enqueue, Overflow, DrainTest, DrainReceive, DrainDone,
         HubRestart, HandlerStep, Reject, Subscribe, ForwardMessage, HandlerExit, Unsubscribe,
         LoseConnection, TypeOK
<1>3. CASE socket[q] = NoConn
  BY <1>1, <1>3 DEF Ready, Receives
<1>4. CASE socket[q] \in Conns
  <2> DEFINE c == socket[q]
  <2>1. \/ wire'[c] = wire[c] \/ wire'[c] = <<>>
        \/ Reject(c) \/ Subscribe(c) \/ ForwardMessage(c)
    <3>1. CASE (\E batch \in Batches : Commit(batch)) \/ FanOutStep \/ HubRestart
      BY <3>1 DEF Commit, FanOutStep, Enqueue, Overflow, DrainTest, DrainReceive, DrainDone,
                  HubRestart
    <3>2. ASSUME NEW d \in Conns, HandlerStep(d) \/ LoseConnection(d), c # d
          PROVE  wire'[c] = wire[c]
      BY <1>4, <3>2 DEF HandlerStep, Reject, Subscribe, ForwardMessage, HandlerExit,
                        Unsubscribe, LoseConnection, TypeOK
    <3>3. CASE HandlerExit(c) \/ Unsubscribe(c) \/ LoseConnection(c)
      BY <1>4, <3>3 DEF HandlerExit, Unsubscribe, LoseConnection, TypeOK
    <3>4. QED
      BY <1>4, <3>1, <3>2, <3>3 DEF HubSide, HandlerStep
  <2>2. Receives(q, "snapshot")' =>
          status[q] # "ready" /\ Schema[Head(wire'[c]).state.inst] = pageSchema[q]
    <3> SUFFICES ASSUME wire'[c] # <<>>, Head(wire'[c]).type = "snapshot"
                 PROVE  status[q] # "ready" /\ Schema[Head(wire'[c]).state.inst] = pageSchema[q]
      BY <1>1 DEF Receives
    <3>1. CASE wire'[c] = wire[c]
      BY <1>1, <1>4, <3>1, StateSyncAssumption DEF Ready, Receives
    <3>2. CASE Reject(c)
      <4>1. wire'[c] = Append(wire[c], Reload) /\ wire[c] = <<>>
        BY <1>4, <3>2 DEF Reject, TypeOK, SnapshotFirst
      <4>2. QED
        BY <4>1 DEF Reload
    <3>3. CASE Subscribe(c)
      <4>1. /\ wire'[c] = Append(wire[c], Snapshot(Current)) /\ wire[c] = <<>>
            /\ handler[c] = "opened"
        BY <1>4, <3>3 DEF Subscribe, TypeOK, SnapshotFirst
      <4>2. Head(wire'[c]).state.inst = instance
        BY <4>1 DEF Snapshot, Current
      <4>3. pageSchema[q] = Schema[instance]
        BY <1>4, <3>3, StateSyncAssumption DEF Subscribe, Readiness
      <4>4. status[q] # "ready"
        BY <1>1, <1>4, <4>1, StateSyncAssumption DEF Ready
      <4>5. QED
        BY <4>2, <4>3, <4>4
    <3>4. CASE ForwardMessage(c)
      <4>1. /\ wire'[c] = Append(wire[c], Head(queue[c])) /\ queue[c] # <<>>
            /\ wire[c] \in Seq(Envelopes) /\ queue[c] \in Seq(Envelopes)
        BY <1>4, <3>4 DEF ForwardMessage, TypeOK
      <4>2. Head(queue[c]).type # "snapshot"
        <5>1. Head(queue[c]) \in Range(queue[c])
          BY <4>1, SeqElements, EnvelopeTypes
        <5>2. QED
          BY <1>4, <5>1 DEF SnapshotFirst
      <4>3. wire[c] # <<>> /\ Head(wire'[c]) = Head(wire[c])
        BY <4>1, <4>2, AppendTail
      <4>4. QED
        BY <1>1, <1>4, <4>3, StateSyncAssumption DEF Ready, Receives
    <3>5. QED
      BY <2>1, <3>1, <3>2, <3>3, <3>4
  <2>3. QED
    BY <1>1, <1>2, <1>4, <2>2 DEF Ready
<1>5. QED
  BY <1>3, <1>4 DEF TypeOK

(* What page p does to another page: nothing.                              *)
LEMMA OtherPages ==
    ASSUME TypeOK, Readiness, NEW p \in Pages, PageSide(p), NEW q \in Pages, q # p
    PROVE  /\ socket'[q] = socket[q] /\ status'[q] = status[q] /\ view'[q] = view[q]
           /\ timer'[q] = timer[q] /\ pageSchema'[q] = pageSchema[q]
           /\ socket[q] # NoConn =>
                handler'[socket[q]] = handler[socket[q]] /\ wire'[socket[q]] = wire[socket[q]]
<1> USE DEF fanVars, connVars, shownVars, ctrlVars, hubVars
<1>1. /\ socket'[q] = socket[q] /\ status'[q] = status[q] /\ view'[q] = view[q]
      /\ timer'[q] = timer[q] /\ pageSchema'[q] = pageSchema[q]
  BY DEF PageSide, PageStep, OnOpen, OnSnapshot, OnDelta, OnGap, OnResync, OnReload, OnClose,
         TimerFires, LoadPage, Hide, OnPageAvailable, Rehydrate, DropSocket, Dial, TypeOK
<1>2. CASE socket[q] \in Conns
  <2> DEFINE c == socket[q]
  <2>1. c # socket[p] /\ c # NoConn
    BY <1>2, StateSyncAssumption DEF Readiness
  <2>2. CASE OnOpen(p) \/ Hide(p)
    BY <1>2, <2>1, <2>2 DEF OnOpen, Hide, TypeOK
  <2>3. CASE OnSnapshot(p) \/ OnDelta(p)
    BY <1>2, <2>1, <2>3 DEF OnSnapshot, OnDelta, Handled, TypeOK
  <2>4. CASE OnGap(p) \/ OnResync(p) \/ OnReload(p) \/ OnClose(p)
    BY <1>2, <2>1, <2>4 DEF OnGap, OnResync, OnReload, OnClose, Rehydrate, DropSocket, TypeOK
  <2>5. ASSUME NEW d \in Conns, NEW b, Free(d), Dial(p, d, b)
        PROVE  handler'[c] = handler[c] /\ wire'[c] = wire[c]
    BY <1>2, <2>5 DEF Free, Dial, TypeOK
  <2>6. CASE TimerFires(p) \/ LoadPage(p) \/ OnPageAvailable(p)
    <3>1. CASE UNCHANGED <<handler, wire>>
      BY <1>1, <3>1
    <3>2. CASE \E d \in Conns, b \in BOOLEAN : Free(d) /\ Dial(p, d, b)
      BY <1>1, <2>5, <3>2
    <3>3. synced[p] \in BOOLEAN
      BY DEF TypeOK
    <3>4. QED
      BY <2>6, <3>1, <3>2, <3>3 DEF TimerFires, LoadPage, OnPageAvailable
  <2>7. QED
    BY <1>1, <2>2, <2>3, <2>4, <2>6 DEF PageSide, PageStep
<1>3. QED
  BY <1>1, <1>2 DEF TypeOK

(* A page is ready by a snapshot of its schema or by the delta after it.   *)
LEMMA PageSideReady ==
    ASSUME HistoryInv, ReconnectDiscipline, Readiness, NEW p \in Pages, PageSide(p)
    PROVE  Ready(p)'
<1> USE DEF fanVars, connVars, shownVars, ctrlVars, hubVars, HistoryInv
<1>0. Ready(p)
  BY DEF Readiness, Ready
<1>1. CASE OnOpen(p)
  <2>1. status'[p] = "rehydrating" /\ UNCHANGED <<socket, wire, pageSchema>>
    BY <1>1 DEF OnOpen, TypeOK
  <2>2. QED
    BY <1>0, <2>1 DEF Ready, Receives
<1>2. CASE Handles(p)
  <2> DEFINE c == socket[p]
  <2>1. /\ UNCHANGED <<socket, handler, timer, pageSchema>>
        /\ c \in Conns /\ wire[c] \in Seq(Envelopes) /\ wire[c] # <<>>
        /\ wire'[c] = Tail(wire[c])
    BY <1>2 DEF Handles, OnSnapshot, OnDelta, Receives, Handled, TypeOK
  <2>2. /\ ~ timer[p] /\ handler[c] \notin {"dialing", "opened"}
    BY <2>1, StateSyncAssumption DEF ReconnectDiscipline, SnapshotFirst
  <2>3. ~ Receives(p, "snapshot")'
    <3>1. ASSUME Tail(wire[c]) # <<>> PROVE Head(Tail(wire[c])) = wire[c][2] /\ Len(wire[c]) >= 2
      BY <2>1, <3>1
    <3>2. Tail(wire[c]) # <<>> => Head(Tail(wire[c])).type # "snapshot"
      <4>1. Len(wire[c]) \in Nat
        BY <2>1
      <4>2. QED
        BY <2>1, <3>1, <4>1 DEF SnapshotFirst
    <3>3. QED
      BY <2>1, <3>2 DEF Receives
  <2>4. view'[p] # NoView
    <3>1. CASE OnSnapshot(p)
      <4>1. Head(wire[c]).state \in States
        BY <3>1, ReceivesType, EnvelopeFields DEF OnSnapshot
      <4>2. view'[p] = Head(wire[c]).state
        BY <3>1 DEF OnSnapshot, Readiness, TypeOK
      <4>3. QED
        BY <4>1, <4>2, ProjectionAssumption
    <3>2. CASE OnDelta(p)
      <4>1. view[p] # NoView /\ view[p] \in States
        BY <3>2 DEF OnDelta, HasGap, TypeOK
      <4>2. CASE view' = view
        BY <4>1, <4>2
      <4>3. CASE view' # view
        <5> DEFINE m == Head(wire[c])
        <5>1. view'[p] = [inst |-> view[p].inst, rev |-> m.rev, proj |-> ApplyBatch(view[p].proj, m.ops)]
          BY <3>2, <4>3 DEF OnDelta, TypeOK
        <5>2. m.ops \in Seq(Operations) /\ m.rev \in Nat
          BY <3>2, ReceivesType, EnvelopeFields DEF OnDelta
        <5>3. ApplyBatch(view[p].proj, m.ops) \in Projections
          BY <4>1, <5>2, ApplyBatchType DEF States
        <5>4. view'[p] \in States
          BY <4>1, <5>1, <5>2, <5>3 DEF States
        <5>5. QED
          BY <5>4, ProjectionAssumption
      <4>4. QED
        BY <4>2, <4>3
    <3>3. QED
      BY <1>2, <3>1, <3>2 DEF Handles
  <2>5. QED
    BY <2>1, <2>2, <2>3, <2>4 DEF Ready
<1>3. CASE OnGap(p) \/ OnResync(p) \/ OnReload(p) \/ OnClose(p)
  <2>1. /\ socket'[p] = NoConn /\ view' = view
        /\ status'[p] = "ready" => status[p] = "ready" /\ timer' = timer
    BY <1>3 DEF OnGap, OnResync, OnReload, OnClose, Rehydrate, DropSocket, TypeOK
  <2>2. QED
    BY <1>0, <2>1 DEF Ready, Receives
<1>4. ASSUME NEW d \in Conns, NEW b, Dial(p, d, b) PROVE Ready(p)'
  <2>1. status'[p] # "ready" /\ socket'[p] = d /\ wire'[d] = <<>>
    BY <1>4 DEF Dial, TypeOK
  <2>2. QED
    BY <2>1 DEF Ready, Receives
<1>5. CASE LoadPage(p)
  <2>1. CASE \E d \in Conns : Dial(p, d, FALSE)
    BY <1>4, <2>1
  <2>2. CASE status'[p] = "connecting" /\ UNCHANGED socket /\ socket[p] = NoConn
    BY <2>2 DEF Ready, Receives
  <2>3. QED
    BY <1>5, <2>1, <2>2 DEF LoadPage, TypeOK
<1>6. CASE TimerFires(p) \/ OnPageAvailable(p)
  <2>1. CASE \E d \in Conns : Dial(p, d, synced[p])
    BY <1>4, <2>1
  <2>2. CASE UNCHANGED <<socket, handler, wire, status>>
    <3>1. UNCHANGED <<view, pageSchema>> /\ (timer'[p] => timer[p])
      BY <1>6 DEF TimerFires, OnPageAvailable, TypeOK
    <3>2. QED
      BY <1>0, <2>2, <3>1 DEF Ready, Receives
  <2>3. QED
    BY <1>6, <2>1, <2>2 DEF TimerFires, OnPageAvailable
<1>7. CASE Hide(p)
  BY <1>0, <1>7 DEF Hide, Ready, Receives
<1>8. QED
  BY <1>1, <1>2, <1>3, <1>5, <1>6, <1>7 DEF PageSide, PageStep, Handles

LEMMA ReadinessStep ==
    ASSUME HistoryInv, ReconnectDiscipline, Subscriptions, Readiness, Next
    PROVE  Readiness'
<1>t. TypeOK /\ SnapshotFirst
  BY DEF HistoryInv
<1>1. \A p, q \in Pages : socket'[p] = socket'[q] /\ socket'[p] # NoConn => p = q
  BY <1>t, SocketsStep
<1>2. ASSUME NEW q \in Pages PROVE Ready(q)'
  <2>1. CASE HubSide
    BY <1>t, <2>1, HubSideReady
  <2>2. ASSUME NEW p \in Pages, PageSide(p) PROVE Ready(q)'
    <3>1. CASE q = p
      BY <2>2, <3>1, PageSideReady
    <3>2. CASE q # p
      <4>1. Ready(q)
        BY DEF Readiness, Ready
      <4>2. QED
        BY <1>t, <2>2, <3>2, <4>1, OtherPages DEF Ready, Receives
    <3>3. QED
      BY <3>1, <3>2
  <2>3. QED
    BY <2>1, <2>2, Sides
<1>3. QED
  BY <1>1, <1>2 DEF Readiness, Ready

-----------------------------------------------------------------------------
LEMMA InitIInv == Init => IInv
<1> SUFFICES ASSUME Init PROVE IInv
  OBVIOUS
<1>1. HistoryInv
  BY InitHistoryInv
<1>2. ReconnectDiscipline /\ Subscriptions /\ Readiness
  BY DEF Init, ReconnectDiscipline, Subscriptions, Readiness, Receives
<1>3. Streams /\ Followed
  BY DEF Init, Streams, Followed, Live
<1>4. QED
  BY <1>1, <1>2, <1>3 DEF IInv

LEMMA StepIInv == IInv /\ [Next]_vars => IInv'
<1> SUFFICES ASSUME IInv, [Next]_vars PROVE IInv'
  OBVIOUS
<1> USE DEF IInv
<1>1. HistoryInv'
  BY StepHistoryInv
<1>2. ReconnectDiscipline'
  <2> SUFFICES ASSUME NEW p \in Pages PROVE Disciplined(p)'
    BY DEF ReconnectDiscipline, Disciplined
  <2>1. Disciplined(p) /\ TypeOK
    BY DEF ReconnectDiscipline, Disciplined, HistoryInv
  <2>2. QED
    BY <2>1, DisciplineStep
<1>3. CASE Next
  <2>1. TypeOK
    BY DEF HistoryInv
  <2>2. QED
    BY <1>1, <1>2, <1>3, <2>1, SubscriptionsStep, StreamsStep, FollowedStep, ReadinessStep
<1>4. CASE UNCHANGED vars
  <2>1. Subscriptions' /\ Readiness'
    BY <1>4 DEF vars, fanVars, connVars, shownVars, ctrlVars, hubVars, Subscriptions, Readiness,
                Receives, Brings
  <2>2. Streams' /\ Followed'
    <3>1. UNCHANGED <<instance, revision, fanout, subscribers, overflowed, queue, handler, wire,
                      alive, view, socket>>
      BY <1>4 DEF vars, fanVars, connVars, shownVars, ctrlVars, hubVars
    <3>2. ASSUME NEW c PROVE (Live(c)' <=> Live(c)) /\ Unsent(c)' = Unsent(c)
      BY <3>1 DEF Live, Unsent
    <3>3. Streams'
      <4> SUFFICES ASSUME NEW c \in Conns, Live(c)' PROVE Stream(c)'
        BY DEF Streams, Stream
      <4>1. StreamMoves(c) /\ TypeOK
        BY <3>1 DEF StreamMoves, StreamStands, Live, HistoryInv
      <4>2. QED
        BY <4>1, StreamKept
    <3>4. Followed'
      BY <3>1, <3>2 DEF Followed, Receives, Live, Unsent
    <3>5. QED
      BY <3>3, <3>4
  <2>3. QED
    BY <1>1, <1>2, <2>1, <2>2
<1>5. QED
  BY <1>3, <1>4

(* IInv holds in every reachable state: every live subscription carries the *)
(* deltas that lead its page, one by one, to the revision of the hub        *)
(* (coordinator.go:140-265, hub.go:295-377, connection.ts:77-202).          *)
THEOREM Invariance == Spec => []IInv
<1>1. QED
  BY InitIInv, StepIInv, PTL DEF Spec

(* A page that announces ready follows the hub: what its connection still   *)
(* carries are the deltas from the revision it shows to the hub's, without  *)
(* a gap, or the subscription is being cut and the page will be told        *)
(* (coordinator.go:213-228, reducer.ts:96-105).                             *)
THEOREM ReadyPagesFollow == Spec => []ReadyFollowsHub
<1>1. IInv => ReadyFollowsHub
  <2> SUFFICES ASSUME IInv, NEW p \in Pages, status[p] = "ready"
               PROVE  LET c == socket[p] IN
                      /\ view[p] # NoView
                      /\ c = NoConn => hidden[p]
                      /\ (c \in subscribers /\ c # overflowed /\ alive[c] /\ handler[c] = "serving") =>
                          /\ view[p].inst = instance
                          /\ view[p].rev + Len(Pending(p)) + (IF c \in fanout THEN 1 ELSE 0) = revision
                          /\ \A i \in DOMAIN Pending(p) :
                              /\ Pending(p)[i].type = "delta"
                              /\ Pending(p)[i].base = view[p].rev + i - 1
                      /\ (c # NoConn /\ c \notin subscribers /\ handler[c] = "serving") =>
                              queue[c] = <<Resync>>
    BY DEF ReadyFollowsHub
  <2> DEFINE c == socket[p]
  <2>t. TypeOK /\ c \in Conns \cup {NoConn}
    BY DEF IInv, HistoryInv, TypeOK
  <2>1. view[p] # NoView /\ ~ timer[p] /\ ~ Receives(p, "snapshot")
    BY DEF IInv, Readiness
  <2>2. c = NoConn => hidden[p]
    BY <2>1 DEF IInv, ReconnectDiscipline
  <2>3. c # NoConn /\ c \notin subscribers /\ handler[c] = "serving" => queue[c] = <<Resync>>
    BY <2>t DEF IInv, Subscriptions
  <2>4. ASSUME c \in subscribers, c # overflowed, alive[c], handler[c] = "serving"
        PROVE  /\ view[p].inst = instance
               /\ view[p].rev + Len(Pending(p)) + (IF c \in fanout THEN 1 ELSE 0) = revision
               /\ \A i \in DOMAIN Pending(p) :
                   /\ Pending(p)[i].type = "delta"
                   /\ Pending(p)[i].base = view[p].rev + i - 1
    <3>0. c \in Conns /\ c # NoConn /\ Live(c)
      BY <2>4, <2>t, StateSyncAssumption DEF TypeOK, Live
    <3> DEFINE n == Len(wire[c])
               k == Len(queue[c])
               v == view[p].rev
               u == Unsent(c)
               w == wire[c]
               s == queue[c]
    <3>1. w \in Seq(Envelopes) /\ s \in Seq(Envelopes) /\ n \in Nat /\ k \in Nat
      BY <2>t, <3>0 DEF TypeOK
    <3>2. view[p].inst = instance /\ v + n + k + u = revision
      BY <2>1, <3>0 DEF IInv, Followed
    <3>3. v \in Nat /\ u \in {0, 1}
      BY <2>t, <2>1 DEF TypeOK, States, Unsent
    <3>4. /\ \A i \in 1 .. Len(w) : Brings(instance, w[i], revision - (Len(w) - i + Len(s) + u))
          /\ \A i \in 1 .. Len(s) : s[i].type = "delta" /\ Brings(instance, s[i], revision - (Len(s) - i + u))
      BY <3>0 DEF IInv, Streams
    <3>e. n = Len(w) /\ k = Len(s)
      OBVIOUS
    <3>5. /\ Len(Pending(p)) = n + k
          /\ \A i \in 1 .. n : Pending(p)[i] = w[i]
          /\ \A i \in n + 1 .. n + k : Pending(p)[i] = s[i - n]
          /\ DOMAIN Pending(p) = 1 .. (n + k)
      <4>1. Pending(p) = w \o s
        BY DEF Pending
      <4>2. ASSUME NEW S, NEW a \in Seq(S), NEW b \in Seq(S)
            PROVE  /\ Len(a \o b) = Len(a) + Len(b)
                   /\ \A i \in 1 .. Len(a) : (a \o b)[i] = a[i]
                   /\ \A i \in Len(a) + 1 .. Len(a) + Len(b) : (a \o b)[i] = b[i - Len(a)]
                   /\ DOMAIN (a \o b) = 1 .. (Len(a) + Len(b))
        OBVIOUS
      <4> HIDE DEF n, k, w, s
      <4>3. /\ Len(w \o s) = Len(w) + Len(s)
            /\ \A i \in 1 .. Len(w) : (w \o s)[i] = w[i]
            /\ \A i \in Len(w) + 1 .. Len(w) + Len(s) : (w \o s)[i] = s[i - Len(w)]
            /\ DOMAIN (w \o s) = 1 .. (Len(w) + Len(s))
        BY <3>1, <4>2
      <4>4. QED
        BY <3>e, <4>1, <4>3, Zenon
    <3>6. \A i \in 1 .. Len(w) : w[i].type # "snapshot"
      <4>1. \A i \in 2 .. Len(w) : w[i].type # "snapshot"
        BY <3>0 DEF IInv, HistoryInv, SnapshotFirst
      <4>2. w # <<>> => Head(w).type # "snapshot"
        BY <2>1, <3>0 DEF Receives
      <4>3. QED
        BY <3>1, <4>1, <4>2
    <3>7. v + Len(Pending(p)) + u = revision
      <4> HIDE DEF n, k, v, u, w, s
      <4>1. v + (n + k) + u = revision
        BY <3>1, <3>2, <3>3
      <4>2. QED
        BY <3>5, <4>1, Zenon
    <3>8. ASSUME NEW i \in 1 .. n + k
          PROVE  Pending(p)[i].type = "delta" /\ Pending(p)[i].base = v + i - 1
      <4> HIDE DEF n, k, v, u, w, s
      <4>1. CASE i \in 1 .. n
        <5>1. revision - (n - i + k + u) - 1 = v + i - 1
          BY <3>1, <3>2, <3>3, <4>1
        <5>2. i \in 1 .. Len(w)
          BY <3>e, <4>1, Zenon
        <5>3. w[i].type # "snapshot" /\ Brings(instance, w[i], revision - (n - i + k + u))
          BY <3>4, <3>6, <3>e, <5>2, Zenon
        <5>4. w[i].type = "delta" /\ w[i].base = v + i - 1
          BY <5>1, <5>3, Zenon DEF Brings
        <5>5. QED
          BY <3>5, <4>1, <5>4, Zenon
      <4>2. CASE i \in n + 1 .. n + k
        <5>1. i - n \in 1 .. k /\ revision - (k - (i - n) + u) - 1 = v + i - 1
          BY <3>1, <3>2, <3>3, <4>2
        <5>2. i - n \in 1 .. Len(s)
          BY <3>e, <5>1, Zenon
        <5>3. s[i - n].type = "delta" /\ Brings(instance, s[i - n], revision - (k - (i - n) + u))
          BY <3>4, <3>e, <5>2, Zenon
        <5>4. s[i - n].base = v + i - 1
          BY <5>1, <5>3, Zenon DEF Brings
        <5>5. QED
          BY <3>5, <4>2, <5>3, <5>4, Zenon
      <4>3. QED
        BY <3>1, <4>1, <4>2
    <3>9. QED
      BY <3>2, <3>5, <3>7, <3>8 DEF Unsent
  <2>5. QED
    BY <2>1, <2>2, <2>3, <2>4
<1>2. QED
  BY <1>1, Invariance, PTL
=============================================================================
