---------------------------- MODULE PeerRegistry ----------------------------
(***************************************************************************)
(* The hub's registry of agents: which of an agent's control connections   *)
(* is the current one, who may take its place, and who closes the others.  *)
(* The registry is peer.Manager (pkg/peer/manager.go); each connection is  *)
(* served by a goroutine of its own (pkg/peer/handler.go, HandlePeer) that *)
(* authenticates, reserves a generation, is activated, reads messages and  *)
(* unregisters; the operator's socket revokes peers while this goes on.    *)
(*                                                                         *)
(* One step is what a goroutine does between taking and releasing the      *)
(* manager's lock.  A connection that was replaced or revoked is closed in *)
(* a later step, after the lock is released, and a message is applied by   *)
(* steps of its own after the check that its connection is current.        *)
(* Of what an agent reports the model keeps who reported it.               *)
(***************************************************************************)
EXTENDS Integers, FiniteSets, Sequences

CONSTANTS
    Peers,          \* agents, named by the fingerprint of their key
    Conns,          \* control connections, each dialled once
    NoConn,         \* no connection
    NoHost,         \* the registry has no entry for a peer
    MaxPairings     \* bound: times a revoked peer is paired again

ASSUME PeerRegistryAssumption ==
    /\ NoConn \notin Conns
    /\ NoHost \notin [conn : Conns \cup {NoConn}, generation : Nat,
                      reported : [{"sessions", "version"} -> Conns \cup {NoConn}]]
    /\ MaxPairings \in Nat

VARIABLES
    store,          \* peers the peer store authorizes
    hosts,          \* Manager.hosts: the entry of each peer
    generations,    \* Manager.generations: the last generation reserved
    (* the handler of each connection *)
    phase, peer, generation,
    previous,       \* the connection it replaced and has still to close
    writes,         \* the parts of a message it has still to apply
    (* each connection *)
    closed,         \* PeerConnection.closed
    net,            \* its WebSocket is open
    revoked,        \* connections RevokePeer has still to close
    pairings        \* bookkeeping of the model: pairings so far

handlers == <<phase, peer, generation, previous, writes>>
vars == <<store, hosts, generations, handlers, closed, net, revoked, pairings>>

Fields == {"sessions", "version"}

(* What an agent says of itself; activity and stats are replaced whole, as   *)
(* the sessions are, and carry nothing else.                                 *)
Reports == [field : Fields, by : Conns \cup {NoConn}]

Hosts == [conn : Conns \cup {NoConn}, generation : Nat,
          reported : [Fields -> Conns \cup {NoConn}]]

Phases == {"idle", "authenticated", "reserved", "activated", "running",
           "reading", "reporting", "exiting", "leaving", "done"}

(* The handler was activated and has not unregistered.                       *)
Serving == {"activated", "running", "reading", "reporting", "exiting"}

Online(p) == hosts[p] # NoHost /\ hosts[p].conn # NoConn

IsCurrent(c) ==
    LET p == peer[c]
    IN  phase[c] # "idle" /\ hosts[p] # NoHost
        /\ hosts[p].conn = c /\ hosts[p].generation = generation[c]

Init ==
    /\ store = Peers
    /\ hosts = [p \in Peers |-> NoHost]
    /\ generations = [p \in Peers |-> 0]
    /\ phase = [c \in Conns |-> "idle"]
    /\ peer \in [Conns -> Peers]
    /\ generation = [c \in Conns |-> 0]
    /\ previous = [c \in Conns |-> NoConn]
    /\ writes = [c \in Conns |-> <<>>]
    /\ closed = [c \in Conns |-> FALSE]
    /\ net = [c \in Conns |-> TRUE]
    /\ revoked = {}
    /\ pairings = 0

-----------------------------------------------------------------------------
(* The handshake.                                                            *)

(* The peer that answers the challenge must be in the store at this time.    *)
Authenticate(c) ==
    /\ phase[c] = "idle"
    /\ phase' = [phase EXCEPT ![c] = IF peer[c] \in store THEN "authenticated" ELSE "done"]
    /\ UNCHANGED <<store, hosts, generations, peer, generation, previous, writes,
                   closed, net, revoked, pairings>>

(* Defect: the counter is read and written under two locks; another          *)
(* handshake has taken the same generation in between.                       *)
ReserveUnlocked(c) ==
    /\ phase[c] = "authenticated"
    /\ generation' = [generation EXCEPT ![c] = generations[peer[c]] + 1]
    /\ phase' = [phase EXCEPT ![c] = "reserved"]
    /\ \/ UNCHANGED generations
       \/ generations' = [generations EXCEPT ![peer[c]] = @ + 1]
    /\ UNCHANGED <<store, hosts, peer, previous, writes, closed, net, revoked, pairings>>

Reserve(c) ==
    /\ phase[c] = "authenticated"
    /\ generations' = [generations EXCEPT ![peer[c]] = @ + 1]
    /\ generation' = [generation EXCEPT ![c] = generations[peer[c]] + 1]
    /\ phase' = [phase EXCEPT ![c] = "reserved"]
    /\ UNCHANGED <<store, hosts, peer, previous, writes, closed, net, revoked, pairings>>

(* Defect: a return between the activation and the deferred cleanup.         *)
HandshakeFailsActivated(c) ==
    /\ phase[c] \in {"authenticated", "reserved", "activated"}
    /\ phase' = [phase EXCEPT ![c] = "done"]
    /\ UNCHANGED <<store, hosts, generations, peer, generation, previous, writes,
                   closed, net, revoked, pairings>>

(* No hello, an incompatible one, or an acknowledgement that is not written. *)
HandshakeFails(c) ==
    /\ phase[c] \in {"authenticated", "reserved"}
    /\ phase' = [phase EXCEPT ![c] = "done"]
    /\ UNCHANGED <<store, hosts, generations, peer, generation, previous, writes,
                   closed, net, revoked, pairings>>

(* Defect: the authorization is checked in the handshake only.               *)
AdmitsUnauthorized(c) ==
    ~ (Online(peer[c]) /\ hosts[peer[c]].generation >= generation[c])

(* The final check of the authorization and of the generation, and the       *)
(* installation of the connection, under the manager's lock.                 *)
Admits(c) ==
    LET p == peer[c]
    IN  p \in store /\ ~ (Online(p) /\ hosts[p].generation >= generation[c])

Activate(c) ==
    LET p == peer[c]
    IN  /\ phase[c] = "reserved"
        /\ Admits(c)
        /\ previous' = [previous EXCEPT
                          ![c] = IF hosts[p] = NoHost THEN NoConn ELSE hosts[p].conn]
        /\ hosts' = [hosts EXCEPT
                       ![p] = [conn |-> c, generation |-> generation[c],
                               reported |-> [f \in Fields |-> NoConn]]]
        /\ phase' = [phase EXCEPT ![c] = "activated"]
        /\ UNCHANGED <<store, generations, peer, generation, writes, closed, net,
                       revoked, pairings>>

Refuse(c) ==
    /\ phase[c] = "reserved"
    /\ ~ Admits(c)
    /\ phase' = [phase EXCEPT ![c] = "done"]
    /\ UNCHANGED <<store, hosts, generations, peer, generation, previous, writes,
                   closed, net, revoked, pairings>>

(* CloseWith: once only; the connection sends no more and its socket closes. *)
Close(S) ==
    /\ closed' = [c \in Conns |-> closed[c] \/ c \in S]
    /\ net' = [c \in Conns |-> net[c] /\ c \notin S]

(* Defect: the replaced connection is left to its own devices.               *)
ClosePreviousForgotten(c) ==
    /\ phase[c] = "activated"
    /\ previous' = [previous EXCEPT ![c] = NoConn]
    /\ phase' = [phase EXCEPT ![c] = "reporting"]
    /\ writes' = [writes EXCEPT ![c] = <<[field |-> "version", by |-> c]>>]
    /\ UNCHANGED <<store, hosts, generations, peer, generation, closed, net, revoked,
                   pairings>>

(* The handler goes on to report the version of the agent's hello.           *)
ClosePrevious(c) ==
    /\ phase[c] = "activated"
    /\ Close({previous[c]})
    /\ previous' = [previous EXCEPT ![c] = NoConn]
    /\ phase' = [phase EXCEPT ![c] = "reporting"]
    /\ writes' = [writes EXCEPT ![c] = <<[field |-> "version", by |-> c]>>]
    /\ UNCHANGED <<store, hosts, generations, peer, generation, revoked, pairings>>

-----------------------------------------------------------------------------
(* Messages.                                                                 *)

(* A state update carries the sessions and, from newer agents, the version.  *)
Updates(c) ==
    LET sessions == [field |-> "sessions", by |-> c]
    IN  {<<sessions>>, <<sessions, [field |-> "version", by |-> c]>>}

(* A message of a connection that is not current is read and ignored.  Only  *)
(* the check is made here: the lock is released before the message is        *)
(* applied.  Messages buffered before the socket closed are still read.      *)
ReceiveUpdate(c) ==
    /\ phase[c] = "running"
    /\ IsCurrent(c)
    /\ phase' = [phase EXCEPT ![c] = "reporting"]
    /\ \E u \in Updates(c) : writes' = [writes EXCEPT ![c] = u]
    /\ UNCHANGED <<store, hosts, generations, peer, generation, previous, closed, net,
                   revoked, pairings>>

ReceiveEvent(c) ==
    /\ phase[c] = "running"
    /\ IsCurrent(c)
    /\ phase' = [phase EXCEPT ![c] = "reading"]
    /\ UNCHANGED <<store, hosts, generations, peer, generation, previous, writes,
                   closed, net, revoked, pairings>>

(* A state event makes the handler read the cached sessions and write them   *)
(* back, for the broadcast of the write, taking the lock twice.              *)
ReadSessions(c) ==
    LET h == hosts[peer[c]]
    IN  /\ phase[c] = "reading"
        /\ phase' = [phase EXCEPT ![c] = "reporting"]
        /\ writes' = [writes EXCEPT
                        ![c] = <<[field |-> "sessions",
                                  by |-> IF h = NoHost THEN NoConn
                                         ELSE h.reported["sessions"]]>>]
        /\ UNCHANGED <<store, hosts, generations, peer, generation, previous, closed,
                       net, revoked, pairings>>

(* UpdatePeerSessions, UpdatePeerVersion and their like find the entry by    *)
(* the peer's name; there may be none any more.                              *)
Report(c) ==
    LET p == peer[c]  r == Head(writes[c])
    IN  /\ phase[c] = "reporting"
        /\ hosts' = IF hosts[p] = NoHost THEN hosts
                    ELSE [hosts EXCEPT ![p].reported[r.field] = r.by]
        /\ writes' = [writes EXCEPT ![c] = Tail(@)]
        /\ phase' = [phase EXCEPT ![c] = IF Len(writes[c]) = 1 THEN "running" ELSE @]
        /\ UNCHANGED <<store, generations, peer, generation, previous, closed, net,
                       revoked, pairings>>

-----------------------------------------------------------------------------
(* The end of a connection.                                                  *)

(* The agent goes away, or nothing is heard of it for the read deadline.     *)
LoseNetwork(c) ==
    /\ net[c]
    /\ net' = [net EXCEPT ![c] = FALSE]
    /\ UNCHANGED <<store, hosts, generations, handlers, closed, revoked, pairings>>

(* The writer goroutine runs from Start until the connection is closed.      *)
WriterFails(c) ==
    /\ phase[c] \in (Serving \cup {"leaving"}) \ {"activated"}
    /\ ~ net[c] /\ ~ closed[c]
    /\ Close({c})
    /\ UNCHANGED <<store, hosts, generations, handlers, revoked, pairings>>

ReadFails(c) ==
    /\ phase[c] = "running"
    /\ ~ net[c]
    /\ phase' = [phase EXCEPT ![c] = "exiting"]
    /\ UNCHANGED <<store, hosts, generations, peer, generation, previous, writes,
                   closed, net, revoked, pairings>>

(* Defect: the entry is found by the peer alone, as UnregisterPeer does.     *)
UnregisterByPeer(c) ==
    LET p == peer[c]
    IN  /\ phase[c] = "exiting"
        /\ hosts' = IF hosts[p] # NoHost THEN [hosts EXCEPT ![p].conn = NoConn] ELSE hosts
        /\ phase' = [phase EXCEPT ![c] = "leaving"]
        /\ UNCHANGED <<store, generations, peer, generation, previous, writes, closed,
                       net, revoked, pairings>>

(* Defect: compares with the last generation reserved, installed or not.     *)
UnregisterLastReserved(c) ==
    LET p == peer[c]
    IN  /\ phase[c] = "exiting"
        /\ hosts' = IF hosts[p] # NoHost /\ generations[p] = generation[c]
                    THEN [hosts EXCEPT ![p].conn = NoConn] ELSE hosts
        /\ phase' = [phase EXCEPT ![c] = "leaving"]
        /\ UNCHANGED <<store, generations, peer, generation, previous, writes, closed,
                       net, revoked, pairings>>

(* UnregisterPeerGeneration: the entry stays, offline, if it is still ours.  *)
Unregister(c) ==
    LET p == peer[c]
    IN  /\ phase[c] = "exiting"
        /\ hosts' = IF hosts[p] # NoHost /\ hosts[p].generation = generation[c]
                    THEN [hosts EXCEPT ![p].conn = NoConn] ELSE hosts
        /\ phase' = [phase EXCEPT ![c] = "leaving"]
        /\ UNCHANGED <<store, generations, peer, generation, previous, writes, closed,
                       net, revoked, pairings>>

Finish(c) ==
    /\ phase[c] = "leaving"
    /\ Close({c})
    /\ phase' = [phase EXCEPT ![c] = "done"]
    /\ UNCHANGED <<store, hosts, generations, peer, generation, previous, writes,
                   revoked, pairings>>

-----------------------------------------------------------------------------
(* The operator and the clock.                                               *)

(* Defect: the entry is deleted before its connection is read.               *)
RevokeForgetsConnection(p) ==
    /\ p \in store
    /\ store' = store \ {p}
    /\ hosts' = [hosts EXCEPT ![p] = NoHost]
    /\ UNCHANGED <<generations, handlers, closed, net, revoked, pairings>>

(* Removal from the store and from the registry, under the manager's lock.   *)
Revoke(p) ==
    /\ p \in store
    /\ store' = store \ {p}
    /\ revoked' = IF Online(p) THEN revoked \cup {hosts[p].conn} ELSE revoked
    /\ hosts' = [hosts EXCEPT ![p] = NoHost]
    /\ UNCHANGED <<generations, handlers, closed, net, pairings>>

CloseRevoked(c) ==
    /\ c \in revoked
    /\ Close({c})
    /\ revoked' = revoked \ {c}
    /\ UNCHANGED <<store, hosts, generations, handlers, pairings>>

Pair(p) ==
    /\ p \notin store
    /\ pairings < MaxPairings
    /\ pairings' = pairings + 1
    /\ store' = store \cup {p}
    /\ UNCHANGED <<hosts, generations, handlers, closed, net, revoked>>

(* A peer that has been offline for too long is forgotten.                   *)
Prune(p) ==
    /\ hosts[p] # NoHost /\ ~ Online(p)
    /\ hosts' = [hosts EXCEPT ![p] = NoHost]
    /\ UNCHANGED <<store, generations, handlers, closed, net, revoked, pairings>>

-----------------------------------------------------------------------------
Handshake(c) ==
    \/ Authenticate(c) \/ Reserve(c) \/ HandshakeFails(c)
    \/ Activate(c) \/ Refuse(c) \/ ClosePrevious(c)

Serve(c) == ReceiveUpdate(c) \/ ReceiveEvent(c) \/ ReadSessions(c) \/ Report(c)

End(c) == LoseNetwork(c) \/ WriterFails(c) \/ ReadFails(c) \/ Unregister(c) \/ Finish(c)

Next ==
    \/ \E c \in Conns : Handshake(c) \/ Serve(c) \/ End(c) \/ CloseRevoked(c)
    \/ \E p \in Peers : Revoke(p) \/ Pair(p) \/ Prune(p)

Spec == Init /\ [][Next]_vars

(* A goroutine that can run is run.  What was buffered before a socket       *)
(* closed is finite, so its reads fail in the end: strong fairness.          *)
Fairness ==
    \A c \in Conns :
        /\ WF_vars(ClosePrevious(c))
        /\ WF_vars(ReadSessions(c))
        /\ WF_vars(Report(c))
        /\ SF_vars(ReadFails(c))
        /\ WF_vars(Unregister(c))
        /\ WF_vars(Finish(c))
        /\ WF_vars(CloseRevoked(c))

FairSpec == Spec /\ Fairness

-----------------------------------------------------------------------------
(* Properties.                                                               *)

(* Every variable has its type, and a handler has parts of a message to      *)
(* apply exactly while it applies them (handler.go, handlePeerMessage).      *)
TypeOK ==
    /\ store \subseteq Peers
    /\ hosts \in [Peers -> Hosts \cup {NoHost}]
    /\ generations \in [Peers -> Nat]
    /\ phase \in [Conns -> Phases]
    /\ peer \in [Conns -> Peers]
    /\ generation \in [Conns -> Nat]
    /\ previous \in [Conns -> Conns \cup {NoConn}]
    /\ writes \in [Conns -> Seq(Reports)]
    /\ \A c \in Conns : (phase[c] = "reporting") <=> (writes[c] # <<>>)
    /\ closed \in [Conns -> BOOLEAN]
    /\ net \in [Conns -> BOOLEAN]
    /\ revoked \subseteq Conns
    /\ pairings \in 0 .. MaxPairings

(* A revoked peer is in no way in the registry until it is paired again,     *)
(* whatever its handlers were doing when it was revoked: neither the         *)
(* activation of a connection authenticated before, nor a late report, nor   *)
(* a late unregistration brings an entry back (manager.go:354, 412).         *)
RevokedStaysOut == \A p \in Peers : hosts[p] # NoHost => p \in store

(* A connection that serves and has lost its place is closed already, or     *)
(* somebody has yet to close it: the handler that replaced it, the           *)
(* revocation, or its own handler.  None is forgotten open, with the         *)
(* requests and terminals it owns (manager.go:375, 413).                     *)
NoOrphans ==
    \A c \in Conns :
        phase[c] \in Serving /\ ~ IsCurrent(c) =>
            \/ closed[c]
            \/ c \in revoked
            \/ phase[c] = "exiting"
            \/ \E d \in Conns : phase[d] = "activated" /\ previous[d] = c

(* A peer shown online is served by the very handler that was activated      *)
(* last: it has not unregistered, so its exit will be noticed                *)
(* (handler.go:172, manager.go:424).                                         *)
OnlineIsServed ==
    \A p \in Peers : Online(p) =>
        LET c == hosts[p].conn
        IN  phase[c] \in Serving /\ peer[c] = p /\ IsCurrent(c)

(* No two connections of a peer have the same generation, and none has one   *)
(* that the peer has not reserved yet (manager.go:328).                      *)
GenerationsUnique ==
    /\ \A c \in Conns :
         /\ generation[c] <= generations[peer[c]]
         /\ (phase[c] \in Serving \cup {"reserved"}) => generation[c] # 0
    /\ \A c, d \in Conns :
         peer[c] = peer[d] /\ generation[c] = generation[d] /\ generation[c] # 0 => c = d

(* The inductive invariant.                                                  *)
IInv ==
    /\ TypeOK
    /\ RevokedStaysOut
    /\ GenerationsUnique
    /\ OnlineIsServed
    /\ NoOrphans

(* The current connection of a peer loses its place only to a newer          *)
(* generation, at the end of its own handler, or by revocation: the cleanup  *)
(* of an older handler never takes a newer connection offline                *)
(* (manager.go:356, 425).                                                    *)
DisplacedOnlyByNewer ==
    [][\A p \in Peers :
         Online(p) /\ ~ (hosts'[p] # NoHost /\ hosts'[p].conn = hosts[p].conn) =>
            \/ p \notin store'
            \/ phase[hosts[p].conn] = "exiting" /\ phase'[hosts[p].conn] = "leaving"
            \/ hosts'[p] # NoHost /\ hosts'[p].generation > hosts[p].generation]_vars

(* A peer whose connection is lost does not stay online on that connection   *)
(* (handler.go:205, 172).                                                    *)
OfflineNoticed ==
    \A c \in Conns :
        (phase[c] \in Serving /\ IsCurrent(c) /\ ~ net[c]) ~> ~ IsCurrent(c)

(* A handler that has lost its place comes to its end, and its connection    *)
(* is closed (manager.go:375, 413; connection.go:99).                        *)
StaleEnds ==
    \A c \in Conns :
        (phase[c] \in Serving /\ ~ IsCurrent(c)) ~> (phase[c] = "done" /\ closed[c])

(* What the specification of the protocol says of an older handler: it does  *)
(* not modify the state of a newer generation.  The check that a message's   *)
(* connection is current and its application are separate (handler.go:220,   *)
(* 246), and the code violates it.                                           *)
ReportedByCurrent ==
    \A p \in Peers : Online(p) =>
        \A f \in Fields :
            LET by == hosts[p].reported[f]
            IN  by # NoConn => generation[by] >= hosts[p].generation
=============================================================================
