---------------------------- MODULE PeerRequests ----------------------------
(***************************************************************************)
(* Actions on the sessions of an agent's host, from the HTTP request that  *)
(* asks for one to its answer: the router and the request tracker of the   *)
(* hub (pkg/peer/action_router.go, request_tracker.go), the connection     *)
(* with its bounded queue, its writer and its closing (connection.go), and *)
(* the agent that dispatches and executes (client.go, dispatcher.go).      *)
(*                                                                         *)
(* There is one agent; the registry is reduced to its current connection   *)
(* (PeerRegistry has the rest).  Every call of the router is a goroutine   *)
(* of its own, and so is every request at the agent.  The agent may crash  *)
(* and come back as another process, connections break, a new one replaces *)
(* an old one, and the peer may be revoked, at any moment.                 *)
(***************************************************************************)
EXTENDS Integers, Sequences, Functions

CONSTANTS
    Requests,       \* calls of ActionRouter.Execute, each with a fresh request ID
    MaxConns,       \* bound: control connections, each used once
    QueueSize,      \* capacity of a connection's send queue (64 in the code)
    MaxInstance     \* bound: processes of the agent

ASSUME PeerRequestsAssumption ==
    /\ MaxConns \in Nat
    /\ QueueSize \in Nat \ {0}
    /\ MaxInstance \in Nat \ {0}

(* A connection is its generation.  A handshake that fails is one that never *)
(* happened.                                                                 *)
Conns == 1 .. MaxConns

NoConn == 0

VARIABLES
    current,        \* the agent's connection in the registry
    (* each connection at the hub *)
    phase,          \* its handler: new, negotiated, activated, replacing, active, leaving, ended
    replaced,       \* the connection its handler replaced and has still to close
    revoked,        \* connections a revocation has still to close
    instance,       \* the process of the agent that dialled it
    sendQueue,      \* PeerConnection.send
    writer,         \* its writer goroutine runs
    closing,        \* how far CloseWith has come
    code,           \* with which error
    failing,        \* requests FailAll has removed and has still to answer
    pending,        \* RequestTracker.pending
    (* its WebSocket *)
    net, toAgent, toHub,
    (* each call at the hub *)
    pc, conn,
    expired,        \* its context is done
    outcome,        \* its outcome channel, of capacity one
    answer,         \* what the caller was told
    (* the agent *)
    process,        \* its current process
    dispatcher,     \* Client.dispatcher: the connection negotiated last
    task,           \* the goroutine that handles a request
    effect          \* what the executor has done for a request

registryVars == <<current, phase, replaced, revoked, instance>>
hubVars == <<registryVars, sendQueue, writer, closing, code, failing, pending>>
wireVars == <<net, toAgent, toHub>>
callVars == <<pc, conn, expired, outcome, answer>>
agentVars == <<process, dispatcher, task, effect>>
vars == <<hubVars, wireVars, callVars, agentVars>>

CloseCodes == {"peer-offline", "peer-revoked", "execution-unknown"}

(* Errors that say that the request was refused before its execution.        *)
Refusals == {"queue-full", "stale-generation", "invalid-target"}

Errors == CloseCodes \cup Refusals \cup {"execution-failed", "timeout"}

Outcomes == Errors \cup {"result"}

(* Positions of a call that is in the tracker, or was.                       *)
Awaiting == {"registered", "waiting", "draining"}

(* Messages of the agent; the acknowledgement ends nothing.                  *)
Replies == [request : Requests, reply : Outcomes \cup {"ack"}]

(* A defect: the flag is set when the connection has been closed.            *)
ClosedWhenDone(c) == closing[c] = "done"

Closed(c) == closing[c] # "open"

Init ==
    /\ current = NoConn
    /\ phase = [c \in Conns |-> "new"]
    /\ replaced = [c \in Conns |-> NoConn]
    /\ revoked = {}
    /\ instance = [c \in Conns |-> 0]
    /\ sendQueue = [c \in Conns |-> <<>>]
    /\ writer = [c \in Conns |-> FALSE]
    /\ closing = [c \in Conns |-> "open"]
    /\ code = [c \in Conns |-> "peer-offline"]
    /\ failing = [c \in Conns |-> {}]
    /\ pending = [c \in Conns |-> {}]
    /\ net = [c \in Conns |-> FALSE]
    /\ toAgent = [c \in Conns |-> <<>>]
    /\ toHub = [c \in Conns |-> <<>>]
    /\ pc = [r \in Requests |-> "idle"]
    /\ conn = [r \in Requests |-> NoConn]
    /\ expired = [r \in Requests |-> FALSE]
    /\ outcome = [r \in Requests |-> "none"]
    /\ answer = [r \in Requests |-> "none"]
    /\ process = 1
    /\ dispatcher = NoConn
    /\ task = [r \in Requests |-> "none"]
    /\ effect = [r \in Requests |-> "none"]

-----------------------------------------------------------------------------
(* A call at the hub.                                                        *)

(* The router looks up the current connection; there may be none.            *)
Route(r) ==
    /\ pc[r] = "idle"
    /\ IF current = NoConn
       THEN /\ pc' = [pc EXCEPT ![r] = "answered"]
            /\ answer' = [answer EXCEPT ![r] = "peer-offline"]
            /\ UNCHANGED conn
       ELSE /\ pc' = [pc EXCEPT ![r] = "routed"]
            /\ conn' = [conn EXCEPT ![r] = current]
            /\ UNCHANGED answer
    /\ UNCHANGED <<hubVars, wireVars, expired, outcome, agentVars>>

(* A request whose deadline has passed is refused.                           *)
Register(r) ==
    /\ pc[r] = "routed"
    /\ \/ /\ pending' = [pending EXCEPT ![conn[r]] = @ \cup {r}]
          /\ pc' = [pc EXCEPT ![r] = "registered"]
          /\ UNCHANGED answer
       \/ /\ expired[r]
          /\ pc' = [pc EXCEPT ![r] = "answered"]
          /\ answer' = [answer EXCEPT ![r] = "invalid-target"]
          /\ UNCHANGED pending
    /\ UNCHANGED <<registryVars, sendQueue, writer, closing, code, failing,
                   wireVars, conn, expired, outcome, agentVars>>

(* A defect: the tracker sends the outcome and leaves the entry to the        *)
(* caller.                                                                    *)
CompleteKeepsEntry(c, r, o) ==
    /\ outcome' = IF r \in pending[c] THEN [outcome EXCEPT ![r] = o] ELSE outcome
    /\ UNCHANGED pending


(* RequestTracker.complete: only a request that is still pending has its     *)
(* outcome, and only once.                                                   *)
Complete(c, r, o) ==
    /\ pending' = [pending EXCEPT ![c] = @ \ {r}]
    /\ outcome' = IF r \in pending[c] THEN [outcome EXCEPT ![r] = o] ELSE outcome

(* Send refuses on a closed connection; otherwise it chooses at random among *)
(* a context that is done and a queue that has room, and refuses if there is *)
(* neither.  A call that was refused completes its own request.              *)
SendOutcomes(r) ==
    LET c == conn[r]
        ready == (IF expired[r] THEN {"peer-offline"} ELSE {})
                 \cup (IF Len(sendQueue[c]) < QueueSize THEN {"sent"} ELSE {})
    IN  IF Closed(c) THEN {"peer-offline"}
        ELSE IF ready = {} THEN {"queue-full"} ELSE ready

Send(r) ==
    LET c == conn[r]
    IN  /\ pc[r] = "registered"
        /\ pc' = [pc EXCEPT ![r] = "waiting"]
        /\ \E o \in SendOutcomes(r) :
             IF o = "sent"
             THEN /\ sendQueue' = [sendQueue EXCEPT ![c] = Append(@, r)]
                  /\ UNCHANGED <<pending, outcome>>
             ELSE /\ Complete(c, r, o)
                  /\ UNCHANGED sendQueue
        /\ UNCHANGED <<registryVars, writer, closing, code, failing,
                       wireVars, conn, expired, answer, agentVars>>

(* The call's deadline, or the end of its HTTP request.                      *)
Expire(r) ==
    /\ pc[r] \in {"routed", "registered", "waiting"}
    /\ ~ expired[r]
    /\ expired' = [expired EXCEPT ![r] = TRUE]
    /\ UNCHANGED <<hubVars, wireVars, pc, conn, outcome, answer, agentVars>>

(* A defect: the call returns at its deadline and leaves its entry.           *)
TimeoutKeepsEntry(r) ==
    /\ pc[r] = "waiting"
    /\ expired[r]
    /\ pc' = [pc EXCEPT ![r] = "answered"]
    /\ answer' = [answer EXCEPT ![r] = "timeout"]
    /\ UNCHANGED <<hubVars, wireVars, conn, expired, outcome, agentVars>>


(* The context is done: the call completes its request itself, unless        *)
(* somebody was faster, whose outcome it then waits for.                     *)
Timeout(r) ==
    LET c == conn[r]
    IN  /\ pc[r] = "waiting"
        /\ expired[r]
        /\ pending' = [pending EXCEPT ![c] = @ \ {r}]
        /\ IF r \in pending[c]
           THEN /\ pc' = [pc EXCEPT ![r] = "answered"]
                /\ answer' = [answer EXCEPT ![r] = "timeout"]
           ELSE /\ pc' = [pc EXCEPT ![r] = "draining"]
                /\ UNCHANGED answer
        /\ UNCHANGED <<registryVars, sendQueue, writer, closing, code,
                       failing, wireVars, conn, expired, outcome, agentVars>>

Return(r) ==
    /\ pc[r] \in {"waiting", "draining"}
    /\ outcome[r] # "none"
    /\ pc' = [pc EXCEPT ![r] = "answered"]
    /\ answer' = [answer EXCEPT ![r] = outcome[r]]
    /\ UNCHANGED <<hubVars, wireVars, conn, expired, outcome, agentVars>>

-----------------------------------------------------------------------------
(* A connection at the hub.                                                  *)

(* The first caller of CloseWith decides on the error.                       *)
Mark(c, o) ==
    /\ closing' = [closing EXCEPT ![c] = IF @ = "open" THEN "marked" ELSE @]
    /\ code' = [code EXCEPT ![c] = IF closing[c] = "open" THEN o ELSE @]

(* A writer whose connection is closed stops, but chooses at random between  *)
(* the end of its context and a message it could still write.                *)
WriterSends(c) ==
    /\ writer[c]
    /\ sendQueue[c] # <<>>
    /\ net[c]
    /\ toAgent' = [toAgent EXCEPT ![c] = Append(@, Head(sendQueue[c]))]
    /\ sendQueue' = [sendQueue EXCEPT ![c] = Tail(@)]
    /\ UNCHANGED <<registryVars, writer, closing, code, failing, pending,
                   net, toHub, callVars, agentVars>>

WriterFails(c) ==
    /\ writer[c]
    /\ sendQueue[c] # <<>>
    /\ ~ net[c]
    /\ sendQueue' = [sendQueue EXCEPT ![c] = Tail(@)]
    /\ writer' = [writer EXCEPT ![c] = FALSE]
    /\ Mark(c, "peer-offline")
    /\ UNCHANGED <<registryVars, failing, pending, wireVars, callVars,
                   agentVars>>

WriterStops(c) ==
    /\ writer[c]
    /\ Closed(c)
    /\ writer' = [writer EXCEPT ![c] = FALSE]
    /\ UNCHANGED <<registryVars, sendQueue, closing, code, failing, pending,
                   wireVars, callVars, agentVars>>

(* A defect: only what the writer has not yet sent is failed.                 *)
FailUnsent(c) ==
    LET unsent == {r \in pending[c] : \E i \in 1 .. Len(sendQueue[c]) : sendQueue[c][i] = r}
    IN  /\ closing[c] = "marked"
        /\ failing' = [failing EXCEPT ![c] = unsent]
        /\ pending' = [pending EXCEPT ![c] = @ \ unsent]
        /\ closing' = [closing EXCEPT ![c] = "failing"]
        /\ UNCHANGED <<registryVars, sendQueue, writer, code, wireVars, callVars,
                       agentVars>>


(* FailAll empties the tracker under its lock and then answers one by one.   *)
FailAll(c) ==
    /\ closing[c] = "marked"
    /\ failing' = [failing EXCEPT ![c] = pending[c]]
    /\ pending' = [pending EXCEPT ![c] = {}]
    /\ closing' = [closing EXCEPT ![c] = "failing"]
    /\ UNCHANGED <<registryVars, sendQueue, writer, code, wireVars, callVars,
                   agentVars>>

FailOne(c, r) ==
    /\ closing[c] = "failing"
    /\ r \in failing[c]
    /\ failing' = [failing EXCEPT ![c] = @ \ {r}]
    /\ outcome' = [outcome EXCEPT ![r] = code[c]]
    /\ UNCHANGED <<registryVars, sendQueue, writer, closing, code, pending,
                   wireVars, pc, conn, expired, answer, agentVars>>

CloseSocket(c) ==
    /\ closing[c] = "failing"
    /\ failing[c] = {}
    /\ closing' = [closing EXCEPT ![c] = "done"]
    /\ net' = [net EXCEPT ![c] = FALSE]
    /\ UNCHANGED <<registryVars, sendQueue, writer, code, failing, pending,
                   toAgent, toHub, callVars, agentVars>>

(* A connection of a newer generation keeps its place.                       *)
Overtaken(c) == current > c

(* Otherwise the connection takes the place of the current one under the     *)
(* lock of the registry; its writer is started when that one is closed.      *)
Activate(c) ==
    /\ phase[c] = "negotiated"
    /\ ~ Overtaken(c)
    /\ phase' = [phase EXCEPT ![c] = "activated"]
    /\ replaced' = [replaced EXCEPT ![c] = current]
    /\ current' = c
    /\ UNCHANGED <<revoked, instance, sendQueue, writer, closing, code,
                   failing, pending, wireVars, callVars, agentVars>>

Refuse(c) ==
    /\ phase[c] = "negotiated"
    /\ Overtaken(c)
    /\ phase' = [phase EXCEPT ![c] = "ended"]
    /\ net' = [net EXCEPT ![c] = FALSE]
    /\ UNCHANGED <<current, replaced, revoked, instance, sendQueue, writer,
                   closing, code, failing, pending, toAgent, toHub, callVars, agentVars>>

(* The connection of another process of the agent leaves its requests in     *)
(* doubt.                                                                    *)
ClosePrevious(c) ==
    LET p == replaced[c]
    IN  /\ phase[c] = "activated"
        /\ p # NoConn
        /\ phase' = [phase EXCEPT ![c] = "replacing"]
        /\ Mark(p, IF instance[p] # instance[c] THEN "execution-unknown"
                   ELSE "peer-offline")
        /\ UNCHANGED <<current, replaced, revoked, instance, sendQueue,
                       writer, failing, pending, wireVars, callVars, agentVars>>

Start(c) ==
    /\ \/ phase[c] = "activated" /\ replaced[c] = NoConn
       \/ phase[c] = "replacing" /\ closing[replaced[c]] = "done"
    /\ phase' = [phase EXCEPT ![c] = "active"]
    /\ replaced' = [replaced EXCEPT ![c] = NoConn]
    /\ writer' = [writer EXCEPT ![c] = TRUE]
    /\ UNCHANGED <<current, revoked, instance, sendQueue, closing, code,
                   failing, pending, wireVars, callVars, agentVars>>

(* A defect: the acknowledgement ends the request.                            *)
ReceiveAckAsResult(c) ==
    LET m == Head(toHub[c])
    IN  /\ phase[c] = "active"
        /\ toHub[c] # <<>>
        /\ toHub' = [toHub EXCEPT ![c] = Tail(@)]
        /\ IF current = c
           THEN Complete(c, m.request, IF m.reply = "ack" THEN "result" ELSE m.reply)
           ELSE UNCHANGED <<pending, outcome>>
        /\ UNCHANGED <<registryVars, sendQueue, writer, closing, code,
                       failing, net, toAgent, pc, conn, expired, answer, agentVars>>


(* The handler reads a reply; it ignores it unless its connection is         *)
(* current, and an acknowledgement completes nothing.                        *)
Receive(c) ==
    LET m == Head(toHub[c])
    IN  /\ phase[c] = "active"
        /\ toHub[c] # <<>>
        /\ toHub' = [toHub EXCEPT ![c] = Tail(@)]
        /\ IF current = c /\ m.reply # "ack" THEN Complete(c, m.request, m.reply)
           ELSE UNCHANGED <<pending, outcome>>
        /\ UNCHANGED <<registryVars, sendQueue, writer, closing, code,
                       failing, net, toAgent, pc, conn, expired, answer, agentVars>>

(* Nothing more can be read: the entry goes offline, then the connection is  *)
(* closed.  What was sent before it broke may be lost with it.               *)
Unregister(c) ==
    /\ phase[c] = "active"
    /\ ~ net[c]
    /\ phase' = [phase EXCEPT ![c] = "leaving"]
    /\ current' = IF current = c THEN NoConn ELSE current
    /\ UNCHANGED <<replaced, revoked, instance, sendQueue, writer, closing, code, failing,
                   pending, wireVars, callVars, agentVars>>

Finish(c) ==
    /\ phase[c] = "leaving"
    /\ phase' = [phase EXCEPT ![c] = "ended"]
    /\ Mark(c, "peer-offline")
    /\ UNCHANGED <<current, replaced, revoked, instance, sendQueue, writer, failing,
                   pending, wireVars, callVars, agentVars>>

(* The peer may be paired again and come back.                               *)
Revoke ==
    /\ current # NoConn
    /\ current' = NoConn
    /\ revoked' = revoked \cup {current}
    /\ UNCHANGED <<phase, replaced, instance, sendQueue, writer, closing, code, failing,
                   pending, wireVars, callVars, agentVars>>

CloseRevoked(c) ==
    /\ c \in revoked
    /\ revoked' = revoked \ {c}
    /\ Mark(c, "peer-revoked")
    /\ UNCHANGED <<current, phase, replaced, instance, sendQueue, writer, failing,
                   pending, wireVars, callVars, agentVars>>

-----------------------------------------------------------------------------
(* The agent.                                                                *)

LoseNetwork(c) ==
    /\ net[c]
    /\ net' = [net EXCEPT ![c] = FALSE]
    /\ UNCHANGED <<hubVars, toAgent, toHub, callVars, agentVars>>

(* The agent dials when it has left its last connection, and negotiates.     *)
Negotiate(c) ==
    /\ phase[c] = "new"
    /\ \A d \in Conns : d < c => phase[d] # "new"
    /\ \A d \in Conns : ~ net[d]
    /\ phase' = [phase EXCEPT ![c] = "negotiated"]
    /\ instance' = [instance EXCEPT ![c] = process]
    /\ net' = [net EXCEPT ![c] = TRUE]
    /\ dispatcher' = c
    /\ UNCHANGED <<current, replaced, revoked, sendQueue, writer, closing, code, failing,
                   pending, toAgent, toHub, callVars, process, task, effect>>

(* The process ends, with everything it was doing, and another one starts.   *)
Crash ==
    /\ process < MaxInstance
    /\ process' = process + 1
    /\ dispatcher' = NoConn
    /\ task' = [r \in Requests |-> IF task[r] \in {"none", "done"} THEN task[r] ELSE "gone"]
    /\ net' = [c \in Conns |-> FALSE]
    /\ UNCHANGED <<hubVars, toAgent, toHub, callVars, effect>>

(* The read loop starts a goroutine for each request.  Until the agent       *)
(* leaves a connection it can still read what has reached it.                *)
Take(c) ==
    /\ dispatcher = c
    /\ toAgent[c] # <<>>
    /\ toAgent' = [toAgent EXCEPT ![c] = Tail(@)]
    /\ task' = [task EXCEPT ![Head(toAgent[c])] = "taken"]
    /\ UNCHANGED <<hubVars, net, toHub, callVars, process, dispatcher, effect>>

(* What is written on a broken connection is lost.                           *)
Reply(c, messages) ==
    toHub' = IF net[c] THEN [toHub EXCEPT ![c] = @ \o messages] ELSE toHub

(* A defect: the error is sent and the execution goes on.                     *)
RejectAndContinue(r) ==
    /\ task[r] = "taken"
    /\ task' = [task EXCEPT ![r] = "running"]
    /\ \E e \in {"invalid-target"} \cup (IF dispatcher # conn[r] THEN {"stale-generation"} ELSE {}) :
         Reply(conn[r], <<[request |-> r, reply |-> e]>>)
    /\ UNCHANGED <<hubVars, net, toAgent, callVars, process, dispatcher, effect>>


(* The goroutine reads the dispatcher of the connection negotiated last.     *)
(* The deadline is compared with the agent's clock.                          *)
Reject(r) ==
    /\ task[r] = "taken"
    /\ task' = [task EXCEPT ![r] = "done"]
    /\ \E e \in {"invalid-target"} \cup (IF dispatcher # conn[r] THEN {"stale-generation"} ELSE {}) :
         Reply(conn[r], <<[request |-> r, reply |-> e]>>)
    /\ UNCHANGED <<hubVars, net, toAgent, callVars, process, dispatcher, effect>>

Dispatch(r) ==
    /\ task[r] = "taken"
    /\ dispatcher = conn[r]
    /\ task' = [task EXCEPT ![r] = "running"]
    /\ UNCHANGED <<hubVars, wireVars, callVars, process, dispatcher, effect>>

Execute(r) ==
    /\ task[r] = "running"
    /\ task' = [task EXCEPT ![r] = "executed"]
    /\ \E e \in {"succeeded", "failed"} : effect' = [effect EXCEPT ![r] = e]
    /\ UNCHANGED <<hubVars, wireVars, callVars, process, dispatcher>>

(* The acknowledgement is written when the execution is over.                *)
Respond(r) ==
    LET o == IF effect[r] = "succeeded" THEN "result" ELSE "execution-failed"
    IN  /\ task[r] = "executed"
        /\ task' = [task EXCEPT ![r] = "done"]
        /\ Reply(conn[r], <<[request |-> r, reply |-> "ack"], [request |-> r, reply |-> o]>>)
        /\ UNCHANGED <<hubVars, net, toAgent, callVars, process, dispatcher, effect>>

-----------------------------------------------------------------------------
Call(r) ==
    Route(r) \/ Register(r) \/ Send(r) \/ Timeout(r) \/ Return(r)

Writer(c) == WriterSends(c) \/ WriterFails(c) \/ WriterStops(c)

Closer(c) == FailAll(c) \/ CloseSocket(c) \/ \E r \in Requests : FailOne(c, r)

Handler(c) ==
    \/ Activate(c) \/ Refuse(c) \/ ClosePrevious(c) \/ Start(c)
    \/ Receive(c) \/ Unregister(c) \/ Finish(c)

Connection(c) == Writer(c) \/ Closer(c) \/ Handler(c) \/ CloseRevoked(c)

Task(r) == Reject(r) \/ Dispatch(r) \/ Execute(r) \/ Respond(r)

Next ==
    \/ \E r \in Requests : Call(r) \/ Expire(r) \/ Task(r)
    \/ \E c \in Conns : Connection(c) \/ Take(c) \/ LoseNetwork(c) \/ Negotiate(c)
    \/ Revoke
    \/ Crash

Spec == Init /\ [][Next]_vars

(* Goroutines that can run are run, at the hub and at the agent, and tmux    *)
(* answers.  Nothing is assumed of the deadlines.                            *)
Fairness ==
    /\ \A r \in Requests :
         WF_vars(Register(r) \/ Send(r) \/ Return(r)) /\ WF_vars(Task(r))
    /\ \A c \in Conns :
         /\ WF_vars(Writer(c)) /\ WF_vars(Closer(c)) /\ WF_vars(Handler(c))
         /\ WF_vars(CloseRevoked(c)) /\ WF_vars(net[c] /\ Take(c))

FairSpec == Spec /\ Fairness

-----------------------------------------------------------------------------
(* Properties.                                                               *)

(* Every variable has its type.                                              *)
TypeOK ==
    /\ current \in Conns \cup {NoConn}
    /\ phase \in [Conns -> {"new", "negotiated", "activated", "replacing", "active", "leaving", "ended"}]
    /\ replaced \in [Conns -> Conns \cup {NoConn}]
    /\ revoked \subseteq Conns
    /\ instance \in [Conns -> 0 .. MaxInstance]
    /\ sendQueue \in [Conns -> Seq(Requests)]
    /\ \A c \in Conns : Len(sendQueue[c]) <= QueueSize
    /\ writer \in [Conns -> BOOLEAN]
    /\ closing \in [Conns -> {"open", "marked", "failing", "done"}]
    /\ code \in [Conns -> CloseCodes]
    /\ failing \in [Conns -> SUBSET Requests]
    /\ pending \in [Conns -> SUBSET Requests]
    /\ net \in [Conns -> BOOLEAN]
    /\ toAgent \in [Conns -> Seq(Requests)]
    /\ toHub \in [Conns -> Seq(Replies)]
    /\ pc \in [Requests -> {"idle", "routed", "registered", "waiting", "draining", "answered"}]
    /\ conn \in [Requests -> Conns \cup {NoConn}]
    /\ expired \in [Requests -> BOOLEAN]
    /\ outcome \in [Requests -> Outcomes \cup {"none"}]
    /\ answer \in [Requests -> Outcomes \cup {"none"}]
    /\ process \in 1 .. MaxInstance
    /\ dispatcher \in Conns \cup {NoConn}
    /\ task \in [Requests -> {"none", "taken", "running", "executed", "done", "gone"}]
    /\ effect \in [Requests -> {"none", "succeeded", "failed"}]

(* Success is reported only of an action that tmux has carried out, never of *)
(* one that was queued, sent or acknowledged (request_tracker.go:45,         *)
(* dispatcher.go:193).                                                       *)
SuccessMeansExecuted ==
    \A r \in Requests : answer[r] = "result" => effect[r] = "succeeded"

(* An action that was refused, for a full queue, a stale generation or a     *)
(* past deadline, is not executed, then or later (connection.go:85,          *)
(* dispatcher.go:176-181).                                                   *)
RefusedMeansNotExecuted ==
    \A r \in Requests : answer[r] \in Refusals =>
        effect[r] = "none" /\ task[r] \in {"none", "done"}

(* A call that returned has left nothing in the tracker                      *)
(* (request_tracker.go:80, 144).                                             *)
NothingLeftPending ==
    \A r \in Requests : pc[r] = "answered" =>
        \A c \in Conns : r \notin pending[c] \cup failing[c]

(* Once a connection is closed nobody waits for an answer on it: a request   *)
(* that was registered too late for FailAll finds the connection closed when *)
(* it is sent (connection.go:77, 100-106).                                   *)
ClosedLeavesNobodyWaiting ==
    \A r \in Requests :
        pc[r] \in {"waiting", "draining"} /\ closing[conn[r]] = "done" => outcome[r] # "none"

(* A call has at most one outcome: nobody can send on its channel a second   *)
(* time, which would block the sender for ever (request_tracker.go:74, 93).  *)
OneOutcome ==
    \A r \in Requests : outcome[r] # "none" =>
        \A c \in Conns : r \notin pending[c] \cup failing[c]

(* Who still owes a call its outcome: the tracker, or a FailAll under way     *)
(* (request_tracker.go:75, 92).                                              *)
Owed ==
    \A r \in Requests, c \in Conns :
        /\ r \in pending[c] =>
             conn[r] = c /\ pc[r] \in {"registered", "waiting"} /\ outcome[r] = "none"
        /\ r \in failing[c] =>
             /\ conn[r] = c /\ pc[r] \in Awaiting /\ outcome[r] = "none"
             /\ r \notin pending[c] /\ closing[c] = "failing"

(* A call that waits is owed its outcome or has it; before, there is none.   *)
Awaited ==
    \A r \in Requests :
        /\ pc[r] \in {"idle", "routed"} => outcome[r] = "none"
        /\ pc[r] \in Awaiting \cup {"routed"} => conn[r] \in Conns
        /\ pc[r] \in Awaiting =>
             r \in pending[conn[r]] \cup failing[conn[r]] \/ outcome[r] # "none"

(* After FailAll only calls that have not tried to send are in the tracker.  *)
Emptied ==
    \A r \in Requests :
        pc[r] \in {"waiting", "draining"} /\ closing[conn[r]] \in {"failing", "done"} =>
            r \notin pending[conn[r]]

(* A request is on its way at most once, in a queue of its own connection,   *)
(* and nothing of it has reached the agent (connection.go:85, 118).          *)
OnTheWay(c) == Range(sendQueue[c]) \cup Range(toAgent[c])

Travels ==
    \A c \in Conns :
        /\ IsInjective(sendQueue[c]) /\ IsInjective(toAgent[c])
        /\ Range(sendQueue[c]) \cap Range(toAgent[c]) = {}
        /\ \A r \in OnTheWay(c) :
             conn[r] = c /\ pc[r] \notin {"idle", "routed", "registered"} /\ task[r] = "none"

(* What is not sent is not taken, and what is not run has no effect.         *)
Works ==
    \A r \in Requests :
        /\ pc[r] \in {"idle", "routed", "registered"} => task[r] = "none"
        /\ task[r] \in {"none", "taken", "running"} => effect[r] = "none"

(* A request that will never be executed: the agent has refused it, or the   *)
(* hub has, which sends it no more.                                          *)
NeverExecuted(r) ==
    /\ effect[r] = "none"
    /\ \/ task[r] = "done"
       \/ /\ task[r] = "none" /\ pc[r] \in {"waiting", "draining", "answered"}
          /\ \A c \in Conns : r \notin OnTheWay(c)

(* What the agent has said is so.                                            *)
Replied ==
    \A c \in Conns : \A m \in Range(toHub[c]) :
        /\ m.reply = "result" => effect[m.request] = "succeeded"
        /\ m.reply \in Refusals => effect[m.request] = "none" /\ task[m.request] = "done"

(* And so is what the hub has recorded and what it has answered.             *)
Reported ==
    \A r \in Requests :
        /\ answer[r] # "none" => pc[r] = "answered"
        /\ "result" \in {outcome[r], answer[r]} => effect[r] = "succeeded"
        /\ {outcome[r], answer[r]} \cap Refusals # {} => NeverExecuted(r)

(* The inductive invariant.                                                  *)
IInv == TypeOK /\ Owed /\ Awaited /\ Emptied /\ Travels /\ Works /\ Replied /\ Reported

(* Every call is answered, even if its deadline never passes: by the agent,  *)
(* or by the end of the connection (connection.go:99, handler.go:172).       *)
EveryCallAnswered ==
    \A r \in Requests : (pc[r] = "routed") ~> (pc[r] = "answered")

(* What the documentation says of an agent that comes back as another        *)
(* process: an action whose result is unknown ends as execution-unknown.     *)
(* The handler of the broken connection usually closes it before the new     *)
(* one is activated (handler.go:174), and the code violates it.              *)
CrashEndsUnknown ==
    [][\A r \in Requests :
         answer'[r] # answer[r] /\ answer'[r] = "peer-offline" => task[r] # "gone"]_vars
=============================================================================
