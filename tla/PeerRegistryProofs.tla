-------------------------- MODULE PeerRegistryProofs --------------------------
(***************************************************************************)
(* Proofs about PeerRegistry for every set of peers and connections and    *)
(* every bound: its type invariant, that a revoked peer has no entry, that *)
(* no connection that lost its place is forgotten, and that a connection   *)
(* is displaced only by a newer one.                                       *)
(***************************************************************************)
EXTENDS PeerRegistry, SequenceTheorems, TLAPS

(* An entry and its absence are told apart, and so are the connections.      *)
LEMMA Distinct == NoHost \notin Hosts /\ NoConn \notin Conns
BY PeerRegistryAssumption DEF Hosts, Fields

(* What the entry of a peer that has one consists of.                        *)
LEMMA EntryType ==
    ASSUME TypeOK, NEW p \in Peers, hosts[p] # NoHost
    PROVE  /\ hosts[p] \in Hosts
           /\ hosts[p].conn \in Conns \cup {NoConn}
           /\ hosts[p].generation \in Nat
           /\ hosts[p].reported \in [Fields -> Conns \cup {NoConn}]
<1>1. hosts[p] \in Hosts
  BY DEF TypeOK
<1>2. QED
  BY <1>1 DEF Hosts

-----------------------------------------------------------------------------
(* The initial state is well typed.                                          *)
LEMMA InitTypeOK == Init => TypeOK
BY PeerRegistryAssumption DEF Init, TypeOK, Phases

(* The handshake, the operator and the clock keep the types.                 *)
LEMMA HandshakeTypeOK ==
    ASSUME TypeOK, NEW c \in Conns, Handshake(c)
    PROVE  TypeOK'
<1>1. CASE Authenticate(c)
  BY <1>1 DEF TypeOK, Authenticate, Phases
<1>2. CASE Reserve(c)
  <2>1. generations[peer[c]] + 1 \in Nat
    BY DEF TypeOK
  <2>2. generation' \in [Conns -> Nat] /\ generations' \in [Peers -> Nat]
    BY <1>2, <2>1 DEF TypeOK, Reserve
  <2>3. QED
    BY <1>2, <2>2 DEF TypeOK, Reserve, Phases
<1>3. CASE HandshakeFails(c)
  BY <1>3 DEF TypeOK, HandshakeFails, Phases
<1>4. CASE Activate(c)
  <2>1. [conn |-> c, generation |-> generation[c],
         reported |-> [f \in Fields |-> NoConn]] \in Hosts
    BY DEF TypeOK, Hosts
  <2>2. hosts' \in [Peers -> Hosts \cup {NoHost}]
    BY <1>4, <2>1 DEF TypeOK, Activate
  <2>3. previous' \in [Conns -> Conns \cup {NoConn}]
    BY <1>4, EntryType DEF TypeOK, Activate
  <2>4. QED
    BY <1>4, <2>2, <2>3 DEF TypeOK, Activate, Phases
<1>5. CASE Refuse(c)
  BY <1>5 DEF TypeOK, Refuse, Phases
<1>6. CASE ClosePrevious(c)
  <2>1. <<[field |-> "version", by |-> c]>> \in Seq(Reports)
    BY DEF Reports, Fields
  <2>2. <<[field |-> "version", by |-> c]>> # <<>>
    OBVIOUS
  <2>3. writes' \in [Conns -> Seq(Reports)]
    BY <1>6, <2>1 DEF TypeOK, ClosePrevious
  <2>4. \A d \in Conns : (phase'[d] = "reporting") <=> (writes'[d] # <<>>)
    BY <1>6, <2>2 DEF TypeOK, ClosePrevious
  <2>5. QED
    BY <1>6, <2>3, <2>4 DEF TypeOK, ClosePrevious, Close, Phases
<1>7. QED
  BY <1>1, <1>2, <1>3, <1>4, <1>5, <1>6 DEF Handshake

(* So do the messages.                                                       *)
LEMMA ServeTypeOK ==
    ASSUME TypeOK, NEW c \in Conns, Serve(c)
    PROVE  TypeOK'
<1>1. CASE ReceiveUpdate(c)
  <2>1. PICK u \in Updates(c) : writes' = [writes EXCEPT ![c] = u]
    BY <1>1 DEF ReceiveUpdate
  <2> DEFINE s == [field |-> "sessions", by |-> c]
             v == [field |-> "version", by |-> c]
  <2>2. u \in Seq(Reports) /\ u # <<>>
    <3>1. s \in Reports /\ v \in Reports
      BY DEF Reports, Fields
    <3>2. u = <<s>> \/ u = <<s, v>>
      BY DEF Updates
    <3> HIDE DEF s, v
    <3>3. <<s>> \in Seq(Reports) /\ <<s>> # <<>>
      BY <3>1
    <3>4. <<s, v>> \in Seq(Reports) /\ <<s, v>> # <<>>
      BY <3>1
    <3>5. QED
      BY <3>2, <3>3, <3>4
  <2>3. writes' \in [Conns -> Seq(Reports)]
    BY <2>1, <2>2 DEF TypeOK
  <2>4. \A d \in Conns : (phase'[d] = "reporting") <=> (writes'[d] # <<>>)
    BY <1>1, <2>1, <2>2 DEF TypeOK, ReceiveUpdate
  <2>5. QED
    BY <1>1, <2>3, <2>4 DEF TypeOK, ReceiveUpdate, Phases
<1>2. CASE ReceiveEvent(c)
  BY <1>2 DEF TypeOK, ReceiveEvent, Phases
<1>3. CASE ReadSessions(c)
  <2> DEFINE by == IF hosts[peer[c]] = NoHost THEN NoConn
                   ELSE hosts[peer[c]].reported["sessions"]
  <2>1. peer[c] \in Peers
    BY DEF TypeOK
  <2>2. by \in Conns \cup {NoConn}
    BY <2>1, EntryType DEF Fields
  <2>3. <<[field |-> "sessions", by |-> by]>> \in Seq(Reports)
    BY <2>2 DEF Reports, Fields
  <2>4. writes' = [writes EXCEPT ![c] = <<[field |-> "sessions", by |-> by]>>]
    BY <1>3 DEF ReadSessions
  <2> HIDE DEF by
  <2>5. writes' \in [Conns -> Seq(Reports)]
    BY <2>3, <2>4 DEF TypeOK
  <2>6. \A d \in Conns : (phase'[d] = "reporting") <=> (writes'[d] # <<>>)
    BY <1>3, <2>4 DEF TypeOK, ReadSessions
  <2>7. QED
    BY <1>3, <2>5, <2>6 DEF TypeOK, ReadSessions, Phases
<1>4. CASE Report(c)
  <2> DEFINE p == peer[c]
             r == Head(writes[c])
  <2>1. p \in Peers /\ writes[c] \in Seq(Reports) /\ writes[c] # <<>>
    BY <1>4 DEF TypeOK, Report
  <2>2. r \in Reports /\ Tail(writes[c]) \in Seq(Reports)
    BY <2>1
  <2>3. r.field \in Fields /\ r.by \in Conns \cup {NoConn}
    BY <2>2 DEF Reports
  <2>4. hosts' \in [Peers -> Hosts \cup {NoHost}]
    <3>1. CASE hosts[p] = NoHost
      BY <1>4, <3>1 DEF TypeOK, Report
    <3>2. CASE hosts[p] # NoHost
      <4>1. [hosts[p] EXCEPT !.reported = [@ EXCEPT ![r.field] = r.by]] \in Hosts
        BY <2>1, <2>3, <3>2, EntryType DEF Hosts
      <4>2. hosts' = [hosts EXCEPT
                        ![p] = [hosts[p] EXCEPT !.reported = [@ EXCEPT ![r.field] = r.by]]]
        BY <1>4, <3>2 DEF Report
      <4>3. QED
        BY <4>1, <4>2, <2>1 DEF TypeOK
    <3>3. QED
      BY <3>1, <3>2
  <2>5. writes' \in [Conns -> Seq(Reports)]
    BY <1>4, <2>2 DEF TypeOK, Report
  <2>6. (Len(writes[c]) = 1) <=> (Tail(writes[c]) = <<>>)
    <3> DEFINE w == writes[c]
    <3>1. w \in Seq(Reports) /\ w # <<>>
      BY <2>1
    <3> HIDE DEF w
    <3>2. Tail(w) \in Seq(Reports) /\ Len(Tail(w)) = Len(w) - 1 /\ Len(w) \in Nat
      BY <3>1, HeadTailProperties, EmptySeq
    <3>3. Tail(w) = <<>> <=> Len(Tail(w)) = 0
      BY <3>2, EmptySeq
    <3>4. QED
      BY <3>2, <3>3 DEF w
  <2>7. \A d \in Conns : (phase'[d] = "reporting") <=> (writes'[d] # <<>>)
    BY <1>4, <2>6 DEF TypeOK, Report
  <2>8. QED
    BY <1>4, <2>4, <2>5, <2>7 DEF TypeOK, Report, Phases
<1>5. QED
  BY <1>1, <1>2, <1>3, <1>4 DEF Serve

(* And the ends of connections, the operator and the clock.                  *)
LEMMA RestTypeOK ==
    ASSUME TypeOK,
           \/ \E c \in Conns : End(c) \/ CloseRevoked(c)
           \/ \E p \in Peers : Revoke(p) \/ Pair(p) \/ Prune(p)
           \/ UNCHANGED vars
    PROVE  TypeOK'
<1>1. ASSUME NEW c \in Conns, LoseNetwork(c) PROVE TypeOK'
  BY <1>1 DEF TypeOK, LoseNetwork, handlers
<1>2. ASSUME NEW c \in Conns, WriterFails(c) PROVE TypeOK'
  BY <1>2 DEF TypeOK, WriterFails, Close, handlers
<1>3. ASSUME NEW c \in Conns, ReadFails(c) PROVE TypeOK'
  BY <1>3 DEF TypeOK, ReadFails, Phases
<1>4. ASSUME NEW c \in Conns, Unregister(c) PROVE TypeOK'
  <2>1. peer[c] \in Peers
    BY DEF TypeOK
  <2>2. hosts' \in [Peers -> Hosts \cup {NoHost}]
    <3>1. CASE hosts[peer[c]] # NoHost
      <4>1. [hosts[peer[c]] EXCEPT !.conn = NoConn] \in Hosts
        BY <2>1, <3>1, EntryType DEF Hosts
      <4>2. QED
        BY <1>4, <2>1, <4>1 DEF TypeOK, Unregister
    <3>2. CASE hosts[peer[c]] = NoHost
      BY <1>4, <3>2 DEF TypeOK, Unregister
    <3>3. QED
      BY <3>1, <3>2
  <2>3. QED
    BY <1>4, <2>2 DEF TypeOK, Unregister, Phases
<1>5. ASSUME NEW c \in Conns, Finish(c) PROVE TypeOK'
  BY <1>5 DEF TypeOK, Finish, Close, Phases
<1>6. ASSUME NEW c \in Conns, CloseRevoked(c) PROVE TypeOK'
  BY <1>6 DEF TypeOK, CloseRevoked, Close, handlers
<1>7. ASSUME NEW p \in Peers, Revoke(p) PROVE TypeOK'
  <2>1. Online(p) => hosts[p].conn \in Conns
    BY EntryType DEF Online
  <2>2. QED
    BY <1>7, <2>1 DEF TypeOK, Revoke, handlers
<1>8. ASSUME NEW p \in Peers, Pair(p) PROVE TypeOK'
  BY <1>8, PeerRegistryAssumption DEF TypeOK, Pair, handlers
<1>9. ASSUME NEW p \in Peers, Prune(p) PROVE TypeOK'
  BY <1>9 DEF TypeOK, Prune, handlers
<1>10. CASE UNCHANGED vars
  BY <1>10 DEF TypeOK, vars, handlers
<1>11. QED
  BY <1>1, <1>2, <1>3, <1>4, <1>5, <1>6, <1>7, <1>8, <1>9, <1>10 DEF End

(* Every step keeps the types.                                               *)
LEMMA NextTypeOK == TypeOK /\ [Next]_vars => TypeOK'
BY HandshakeTypeOK, ServeTypeOK, RestTypeOK DEF Next

(* The type invariant of the registry and its handlers.                      *)
THEOREM TypeCorrect == Spec => []TypeOK
BY InitTypeOK, NextTypeOK, PTL DEF Spec

-----------------------------------------------------------------------------
(* What a report leaves of the entries: everything but what is reported.     *)
LEMMA ReportFrame ==
    ASSUME TypeOK, NEW c \in Conns, Report(c), NEW p \in Peers
    PROVE  /\ hosts'[p] = NoHost <=> hosts[p] = NoHost
           /\ hosts[p] # NoHost => /\ hosts'[p].conn = hosts[p].conn
                                  /\ hosts'[p].generation = hosts[p].generation
<1> DEFINE q == peer[c]
           r == Head(writes[c])
<1>1. CASE hosts[q] = NoHost
  BY <1>1 DEF Report
<1>2. CASE hosts[q] # NoHost
  <2>1. hosts' = [hosts EXCEPT ![q] = [hosts[q] EXCEPT !.reported = [@ EXCEPT ![r.field] = r.by]]]
    BY <1>2 DEF Report
  <2>2. q \in Peers /\ hosts[q] \in Hosts
    BY <1>2, EntryType DEF TypeOK
  <2>3. /\ hosts'[q] # NoHost
        /\ hosts'[q].conn = hosts[q].conn
        /\ hosts'[q].generation = hosts[q].generation
    <3>1. TypeOK'
      BY ServeTypeOK DEF Serve
    <3>2. hosts'[q] = [hosts[q] EXCEPT !.reported = [@ EXCEPT ![r.field] = r.by]]
      BY <2>1, <2>2 DEF TypeOK
    <3>3. DOMAIN hosts'[q] = {"conn", "generation", "reported"}
      BY <3>2, <2>2 DEF Hosts
    <3>4. hosts'[q].conn = hosts[q].conn /\ hosts'[q].generation = hosts[q].generation
      BY <3>2, <2>2 DEF Hosts
    <3>5. hosts'[q].reported \in [Fields -> Conns \cup {NoConn}]
      <4>1. hosts'[q].reported = [hosts[q].reported EXCEPT ![r.field] = r.by]
        BY <3>2, <2>2 DEF Hosts
      <4>2. writes[c] \in Seq(Reports) /\ writes[c] # <<>>
        BY DEF TypeOK, Report
      <4>3. r \in Reports
        BY <4>2
      <4>4. QED
        BY <4>1, <4>3, <2>2 DEF Hosts, Reports
    <3>6. hosts'[q] \in Hosts
      BY <3>2, <3>4, <3>5, <2>2 DEF Hosts
    <3>7. QED
      BY <3>4, <3>6, Distinct
  <2>4. p # q => hosts'[p] = hosts[p]
    BY <2>1 DEF TypeOK
  <2>5. QED
    BY <2>3, <2>4, <1>2
<1>3. QED
  BY <1>1, <1>2

(* What an unregistration does to the entries: one may go offline.           *)
LEMMA UnregisterFrame ==
    ASSUME TypeOK, NEW c \in Conns, Unregister(c), NEW p \in Peers
    PROVE  \/ hosts'[p] = hosts[p]
           \/ /\ p = peer[c] /\ hosts[p] # NoHost
              /\ hosts[p].generation = generation[c]
              /\ hosts'[p] \in Hosts
              /\ hosts'[p].conn = NoConn
              /\ hosts'[p].generation = hosts[p].generation
<1> DEFINE q == peer[c]
<1>1. CASE hosts[q] # NoHost /\ hosts[q].generation = generation[c]
  <2>1. hosts' = [hosts EXCEPT ![q] = [hosts[q] EXCEPT !.conn = NoConn]]
    BY <1>1 DEF Unregister
  <2>2. q \in Peers /\ hosts[q] \in Hosts
    BY <1>1, EntryType DEF TypeOK
  <2>3. [hosts[q] EXCEPT !.conn = NoConn] \in Hosts
    BY <2>2 DEF Hosts
  <2>4. hosts'[q] = [hosts[q] EXCEPT !.conn = NoConn]
    BY <2>1, <2>2 DEF TypeOK
  <2>5. hosts'[q].conn = NoConn /\ hosts'[q].generation = hosts[q].generation
    BY <2>4, <2>2 DEF Hosts
  <2>6. p # q => hosts'[p] = hosts[p]
    BY <2>1 DEF TypeOK
  <2>7. QED
    BY <1>1, <2>3, <2>4, <2>5, <2>6
<1>2. CASE ~ (hosts[q] # NoHost /\ hosts[q].generation = generation[c])
  BY <1>2 DEF Unregister
<1>3. QED
  BY <1>1, <1>2

-----------------------------------------------------------------------------
(* The initial state satisfies the inductive invariant.                      *)
LEMMA InitInv == Init => IInv
<1> SUFFICES ASSUME Init PROVE IInv
  OBVIOUS
<1>1. TypeOK
  BY InitTypeOK
<1>2. RevokedStaysOut /\ OnlineIsServed
  BY DEF Init, RevokedStaysOut, OnlineIsServed, Online
<1>3. GenerationsUnique /\ NoOrphans
  BY DEF Init, GenerationsUnique, NoOrphans, Serving
<1>4. QED
  BY <1>1, <1>2, <1>3 DEF IInv

(* Only a revocation takes an authorization away, and it takes the entry     *)
(* with it; only an activation, which looks at the store, makes one.         *)
LEMMA RevokedStaysOutStep == IInv /\ [Next]_vars => RevokedStaysOut'
<1> SUFFICES ASSUME IInv, [Next]_vars, NEW p \in Peers, hosts'[p] # NoHost
             PROVE  p \in store'
  BY DEF RevokedStaysOut
<1> USE DEF IInv
<1>1. CASE hosts[p] = NoHost
  <2>1. PICK c \in Conns : Activate(c) /\ peer[c] = p
    <3>1. ASSUME NEW c \in Conns, Report(c) PROVE FALSE
      BY <3>1, <1>1, ReportFrame
    <3>2. ASSUME NEW c \in Conns, Unregister(c) PROVE FALSE
      BY <3>2, <1>1, UnregisterFrame
    <3>3. ASSUME NEW c \in Conns, Activate(c), peer[c] # p PROVE FALSE
      BY <3>3, <1>1 DEF Activate, TypeOK
    <3>4. ASSUME NEW q \in Peers, Revoke(q) \/ Prune(q) PROVE FALSE
      BY <3>4, <1>1 DEF Revoke, Prune, TypeOK
    <3>5. QED
      BY <3>1, <3>2, <3>3, <3>4, <1>1
      DEF Next, vars, Handshake, Serve, End, Authenticate, Reserve, HandshakeFails,
          Refuse, ClosePrevious, ReceiveUpdate, ReceiveEvent, ReadSessions,
          LoseNetwork, WriterFails, ReadFails, Finish, CloseRevoked, Pair
  <2>2. QED
    BY <2>1 DEF Activate, Admits
<1>2. CASE hosts[p] # NoHost
  <2>1. p \in store
    BY <1>2 DEF RevokedStaysOut
  <2>2. ASSUME NEW q \in Peers, Revoke(q) PROVE p \in store'
    BY <2>1, <2>2 DEF Revoke, TypeOK
  <2>3. (\E q \in Peers : Pair(q)) => p \in store'
    BY <2>1 DEF Pair
  <2>4. QED
    BY <2>1, <2>2, <2>3
    DEF Next, vars, Handshake, Serve, End, Authenticate, Reserve, HandshakeFails,
        Activate, Refuse, ClosePrevious, ReceiveUpdate, ReceiveEvent, ReadSessions,
        Report, LoseNetwork, WriterFails, ReadFails, Unregister, Finish,
        CloseRevoked, Prune
<1>3. QED
  BY <1>1, <1>2

(* Generations are reserved under the manager's lock.                        *)
LEMMA GenerationsUniqueStep == IInv /\ [Next]_vars => GenerationsUnique'
<1> SUFFICES ASSUME IInv, [Next]_vars PROVE GenerationsUnique'
  OBVIOUS
<1> USE DEF IInv
<1>1. ASSUME NEW c \in Conns, Reserve(c) PROVE GenerationsUnique'
  <2>1. /\ generation' = [generation EXCEPT ![c] = generations[peer[c]] + 1]
        /\ generations' = [generations EXCEPT ![peer[c]] = @ + 1]
        /\ phase' = [phase EXCEPT ![c] = "reserved"]
        /\ peer' = peer
    BY <1>1 DEF Reserve
  <2>2. \A d \in Conns : generation[d] \in Nat /\ generations[peer[d]] \in Nat /\ peer[d] \in Peers
    BY DEF TypeOK
  <2>3. \A d \in Conns : d # c => generation'[d] = generation[d] /\ phase'[d] = phase[d]
    BY <2>1 DEF TypeOK
  <2>4. generation'[c] = generations[peer[c]] + 1 /\ generations'[peer[c]] = generations[peer[c]] + 1
    BY <2>1, <2>2 DEF TypeOK
  <2>5. \A d \in Conns : generations[peer[d]] <= generations'[peer[d]]
    BY <2>1, <2>2 DEF TypeOK
  <2>6. \A d \in Conns :
          /\ generation'[d] <= generations'[peer'[d]]
          /\ (phase'[d] \in Serving \cup {"reserved"}) => generation'[d] # 0
    BY <2>1, <2>2, <2>3, <2>4, <2>5 DEF GenerationsUnique, TypeOK
  <2>7. ASSUME NEW d \in Conns, NEW e \in Conns, peer'[d] = peer'[e],
               generation'[d] = generation'[e], generation'[d] # 0
        PROVE  d = e
    BY <2>1, <2>2, <2>3, <2>4, <2>7 DEF GenerationsUnique
  <2>8. QED
    BY <2>6, <2>7 DEF GenerationsUnique
<1>2. ASSUME UNCHANGED <<peer, generation, generations>>,
             \A c \in Conns : phase'[c] \in Serving \cup {"reserved"} =>
                                  phase[c] \in Serving \cup {"reserved"}
      PROVE  GenerationsUnique'
  BY <1>2 DEF GenerationsUnique
<1>3. ASSUME NEW c \in Conns, Handshake(c), ~ Reserve(c) PROVE GenerationsUnique'
  BY <1>2, <1>3 DEF TypeOK, Handshake, Serving, Authenticate, HandshakeFails, Activate,
                    Refuse, ClosePrevious
<1>4. ASSUME NEW c \in Conns, Serve(c) PROVE GenerationsUnique'
  BY <1>2, <1>4 DEF TypeOK, Serve, Serving, ReceiveUpdate, ReceiveEvent, ReadSessions, Report
<1>5. ASSUME NEW c \in Conns, End(c) \/ CloseRevoked(c) PROVE GenerationsUnique'
  BY <1>2, <1>5 DEF TypeOK, End, Serving, LoseNetwork, WriterFails, ReadFails, Unregister,
                    Finish, CloseRevoked, handlers
<1>6. ASSUME NEW p \in Peers, Revoke(p) \/ Pair(p) \/ Prune(p) PROVE GenerationsUnique'
  BY <1>2, <1>6 DEF Revoke, Pair, Prune, handlers
<1>7. CASE UNCHANGED vars
  BY <1>2, <1>7 DEF vars, handlers
<1>8. QED
  BY <1>1, <1>3, <1>4, <1>5, <1>6, <1>7 DEF Next

-----------------------------------------------------------------------------
(* What a step that is neither an activation nor an unregistration, a        *)
(* revocation or a pruning does to who is current: nothing.                  *)
LEMMA CurrentFrame ==
    ASSUME IInv, [Next]_vars,
           ~ \E c \in Conns : Activate(c) \/ Unregister(c),
           ~ \E p \in Peers : Revoke(p) \/ Prune(p)
    PROVE  /\ \A p \in Peers : /\ hosts'[p] = NoHost <=> hosts[p] = NoHost
                               /\ hosts[p] # NoHost =>
                                    /\ hosts'[p].conn = hosts[p].conn
                                    /\ hosts'[p].generation = hosts[p].generation
           /\ \A c \in Conns : /\ phase[c] \in Serving => generation'[c] = generation[c]
                               /\ phase'[c] \in Serving <=> phase[c] \in Serving
           /\ peer' = peer
<1> USE DEF IInv
<1>1. ASSUME NEW c \in Conns, Report(c)
      PROVE  \A p \in Peers : /\ hosts'[p] = NoHost <=> hosts[p] = NoHost
                              /\ hosts[p] # NoHost =>
                                    /\ hosts'[p].conn = hosts[p].conn
                                    /\ hosts'[p].generation = hosts[p].generation
  BY <1>1, ReportFrame
<1>2. (~ \E c \in Conns : Report(c)) => hosts' = hosts
  BY DEF Next, vars, Handshake, Serve, End, Authenticate, Reserve, HandshakeFails,
         Refuse, ClosePrevious, ReceiveUpdate, ReceiveEvent, ReadSessions,
         LoseNetwork, WriterFails, ReadFails, Finish, CloseRevoked, Pair
<1>3. ASSUME NEW c \in Conns PROVE phase[c] \in Serving => generation'[c] = generation[c]
  BY DEF Next, vars, handlers, Handshake, Serve, End, Authenticate, Reserve, HandshakeFails,
         Refuse, ClosePrevious, ReceiveUpdate, ReceiveEvent, ReadSessions, Report,
         LoseNetwork, WriterFails, ReadFails, Finish, CloseRevoked, Pair, Serving, TypeOK
<1>4. ASSUME NEW c \in Conns PROVE phase'[c] \in Serving <=> phase[c] \in Serving
  <2>1. ASSUME NEW d \in Conns, Handshake(d) PROVE phase'[c] \in Serving <=> phase[c] \in Serving
    BY <2>1 DEF Handshake, Authenticate, Reserve, HandshakeFails, Refuse, ClosePrevious,
                Serving, TypeOK
  <2>2. ASSUME NEW d \in Conns, Serve(d) PROVE phase'[c] \in Serving <=> phase[c] \in Serving
    BY <2>2 DEF Serve, ReceiveUpdate, ReceiveEvent, ReadSessions, Report, Serving, TypeOK
  <2>3. ASSUME NEW d \in Conns, End(d) \/ CloseRevoked(d)
        PROVE phase'[c] \in Serving <=> phase[c] \in Serving
    BY <2>3 DEF End, LoseNetwork, WriterFails, ReadFails, Finish, CloseRevoked, handlers,
                Serving, TypeOK
  <2>4. ((\E p \in Peers : Pair(p)) \/ UNCHANGED vars) => phase' = phase
    BY DEF Pair, vars, handlers
  <2>5. QED
    BY <2>1, <2>2, <2>3, <2>4 DEF Next
<1>5. peer' = peer
  BY DEF Next, vars, handlers, Handshake, Serve, End, Authenticate, Reserve, HandshakeFails,
         Refuse, ClosePrevious, ReceiveUpdate, ReceiveEvent, ReadSessions, Report,
         LoseNetwork, WriterFails, ReadFails, Finish, CloseRevoked, Pair
<1>6. QED
  BY <1>1, <1>2, <1>3, <1>4, <1>5

(* What an activation does to who is current.                                *)
LEMMA ActivateFrame ==
    ASSUME TypeOK, NEW d \in Conns, Activate(d)
    PROVE  /\ hosts'[peer[d]] \in Hosts
           /\ hosts'[peer[d]].conn = d
           /\ hosts'[peer[d]].generation = generation[d]
           /\ \A p \in Peers : p # peer[d] => hosts'[p] = hosts[p]
           /\ phase[d] = "reserved" /\ phase'[d] = "activated"
           /\ \A c \in Conns : c # d => phase'[c] = phase[c] /\ previous'[c] = previous[c]
           /\ previous'[d] = IF hosts[peer[d]] = NoHost THEN NoConn ELSE hosts[peer[d]].conn
           /\ UNCHANGED <<peer, generation, closed, revoked>>
<1>1. [conn |-> d, generation |-> generation[d],
       reported |-> [f \in Fields |-> NoConn]] \in Hosts
  BY DEF TypeOK, Hosts
<1>2. peer[d] \in Peers
  BY DEF TypeOK
<1>3. QED
  BY <1>1, <1>2 DEF TypeOK, Activate

(* The handler of a connection installed has just been activated, and the    *)
(* handler that unregisters takes its own entry offline.                     *)
LEMMA OnlineIsServedStep == IInv /\ [Next]_vars => OnlineIsServed'
<1> SUFFICES ASSUME IInv, [Next]_vars, NEW p \in Peers, Online(p)',
                    NEW c, c = hosts'[p].conn
             PROVE  phase'[c] \in Serving /\ peer'[c] = p
                    /\ hosts'[p].generation = generation'[c]
  <2>1. ASSUME NEW p \in Peers, Online(p)',
               phase'[hosts'[p].conn] \in Serving, peer'[hosts'[p].conn] = p,
               hosts'[p].generation = generation'[hosts'[p].conn]
        PROVE  IsCurrent(hosts[p].conn)'
    BY <2>1 DEF IsCurrent, Online, Serving
  <2>2. QED
    BY <2>1 DEF OnlineIsServed
<1> USE DEF IInv
<1>1. ASSUME hosts[p] # NoHost, hosts[p].conn = c
      PROVE  /\ c \in Conns /\ phase[c] \in Serving /\ peer[c] = p
             /\ hosts[p].generation = generation[c]
  <2>1. Online(p)
    <3>1. c # NoConn
      BY DEF Online
    <3>2. QED
      BY <1>1, <3>1 DEF Online
  <2>2. QED
    BY <1>1, <2>1, EntryType DEF OnlineIsServed, Online, IsCurrent
<1>2. ASSUME NEW d \in Conns, Activate(d)
      PROVE  phase'[c] \in Serving /\ peer'[c] = p /\ hosts'[p].generation = generation'[c]
  <2>1. CASE p = peer[d]
    BY <1>2, <2>1, ActivateFrame DEF Serving
  <2>2. CASE p # peer[d]
    <3>1. hosts'[p] = hosts[p] /\ hosts[p] # NoHost /\ hosts[p].conn = c
      BY <1>2, <2>2, ActivateFrame DEF Online
    <3>2. c # d
      BY <1>1, <3>1, <2>2
    <3>3. QED
      BY <1>1, <1>2, <3>1, <3>2, ActivateFrame
  <2>3. QED
    BY <2>1, <2>2
<1>3. ASSUME NEW d \in Conns, Unregister(d)
      PROVE  phase'[c] \in Serving /\ peer'[c] = p /\ hosts'[p].generation = generation'[c]
  <2>1. hosts'[p] = hosts[p]
    BY <1>3, UnregisterFrame DEF Online
  <2>2. hosts[p] # NoHost /\ hosts[p].conn = c /\ c # NoConn
    BY <2>1 DEF Online
  <2>3. c # d
    <3>1. SUFFICES ASSUME c = d PROVE FALSE
      OBVIOUS
    <3>2. hosts' = [hosts EXCEPT ![p] = [hosts[p] EXCEPT !.conn = NoConn]]
      BY <1>1, <1>3, <2>2, <3>1 DEF Unregister
    <3>3. hosts'[p].conn = NoConn
      BY <3>2, <2>2, EntryType DEF TypeOK, Hosts
    <3>4. QED
      BY <3>3, <2>2
  <2>4. QED
    BY <1>1, <1>3, <2>1, <2>2, <2>3 DEF Unregister, TypeOK
<1>4. ASSUME NEW q \in Peers, Revoke(q) \/ Prune(q)
      PROVE  phase'[c] \in Serving /\ peer'[c] = p /\ hosts'[p].generation = generation'[c]
  <2>1. hosts'[p] = hosts[p] /\ UNCHANGED handlers
    BY <1>4 DEF Revoke, Prune, Online, TypeOK
  <2>2. hosts[p] # NoHost /\ hosts[p].conn = c
    BY <2>1 DEF Online
  <2>3. QED
    BY <1>1, <2>1, <2>2 DEF handlers
<1>5. CASE ~ (\E d \in Conns : Activate(d) \/ Unregister(d))
           /\ ~ (\E q \in Peers : Revoke(q) \/ Prune(q))
  <2>1. /\ hosts[p] # NoHost /\ hosts'[p] # NoHost
        /\ hosts'[p].conn = hosts[p].conn /\ hosts'[p].generation = hosts[p].generation
    BY <1>5, CurrentFrame DEF Online
  <2>2. QED
    BY <1>1, <1>5, <2>1, CurrentFrame
<1>6. QED
  BY <1>2, <1>3, <1>4, <1>5

-----------------------------------------------------------------------------
(* Whoever takes a connection's place, or its entry away, takes over the     *)
(* duty to close it.                                                         *)
LEMMA NoOrphansStep == IInv /\ [Next]_vars => NoOrphans'
<1> SUFFICES ASSUME IInv, [Next]_vars, NEW c \in Conns,
                    phase'[c] \in Serving, ~ IsCurrent(c)',
                    ~ closed'[c], c \notin revoked', phase'[c] # "exiting"
             PROVE  \E d \in Conns : phase'[d] = "activated" /\ previous'[d] = c
  BY DEF NoOrphans
<1> USE DEF IInv
<1> DEFINE p == peer[c]
<1>1. p \in Peers
  BY DEF TypeOK
<1>2. ASSUME phase[c] \in Serving, ~ IsCurrent(c), ~ closed[c], c \notin revoked,
             phase[c] # "exiting"
      PROVE  \E d \in Conns : phase[d] = "activated" /\ previous[d] = c
  BY <1>2 DEF NoOrphans
<1>3. ASSUME NEW d \in Conns, Activate(d)
      PROVE  \E e \in Conns : phase'[e] = "activated" /\ previous'[e] = c
  <2>1. c # d
    <3>1. SUFFICES ASSUME c = d PROVE FALSE
      OBVIOUS
    <3>2. IsCurrent(c)'
      BY <1>3, <3>1, ActivateFrame, Distinct DEF IsCurrent
    <3>3. QED
      BY <3>2
  <2>2. /\ phase'[c] = phase[c] /\ closed' = closed /\ revoked' = revoked
        /\ generation' = generation /\ peer' = peer
    BY <1>3, <2>1, ActivateFrame
  <2>3. CASE IsCurrent(c)
    <3>1. p = peer[d]
      <4>1. SUFFICES ASSUME p # peer[d] PROVE FALSE
        OBVIOUS
      <4>2. hosts'[p] = hosts[p]
        BY <1>1, <1>3, <4>1, ActivateFrame
      <4>3. QED
        BY <4>2, <2>2, <2>3 DEF IsCurrent
    <3>2. previous'[d] = c /\ phase'[d] = "activated"
      BY <1>3, <2>3, <3>1, ActivateFrame DEF IsCurrent
    <3>3. QED
      BY <3>2
  <2>4. CASE ~ IsCurrent(c)
    <3>1. PICK e \in Conns : phase[e] = "activated" /\ previous[e] = c
      BY <1>2, <2>2, <2>4
    <3>2. e # d
      BY <1>3, <3>1, ActivateFrame
    <3>3. QED
      BY <1>3, <3>1, <3>2, ActivateFrame
  <2>5. QED
    BY <2>3, <2>4
<1>4. ASSUME NEW d \in Conns, Unregister(d)
      PROVE  \E e \in Conns : phase'[e] = "activated" /\ previous'[e] = c
  <2>1. /\ phase[d] = "exiting" /\ phase' = [phase EXCEPT ![d] = "leaving"]
        /\ UNCHANGED <<peer, generation, previous, closed, revoked>>
    BY <1>4 DEF Unregister
  <2>2. c # d /\ phase'[c] = phase[c]
    BY <2>1 DEF TypeOK, Serving
  <2>3. ~ IsCurrent(c)
    <3>1. SUFFICES ASSUME IsCurrent(c) PROVE FALSE
      OBVIOUS
    <3>2. hosts'[p] # hosts[p]
      BY <2>1, <2>2, <3>1 DEF IsCurrent
    <3>3. p = peer[d] /\ hosts[p].generation = generation[d]
      BY <1>1, <1>4, <3>2, UnregisterFrame
    <3>4. generation[c] = generation[d] /\ generation[d] # 0 /\ peer[c] = peer[d]
      BY <2>1, <3>1, <3>3 DEF IsCurrent, GenerationsUnique, Serving
    <3>5. QED
      BY <2>2, <3>4 DEF GenerationsUnique
  <2>4. PICK e \in Conns : phase[e] = "activated" /\ previous[e] = c
    BY <1>2, <2>1, <2>2, <2>3
  <2>5. phase'[e] = "activated" /\ previous'[e] = c
    BY <2>1, <2>4 DEF TypeOK
  <2>6. QED
    BY <2>5
<1>5. ASSUME NEW q \in Peers, Revoke(q) \/ Prune(q)
      PROVE  \E e \in Conns : phase'[e] = "activated" /\ previous'[e] = c
  <2>1. UNCHANGED <<phase, peer, generation, previous, closed>> /\ c \notin revoked
    BY <1>5 DEF Revoke, Prune, handlers
  <2>2. ~ IsCurrent(c)
    <3>1. SUFFICES ASSUME IsCurrent(c) PROVE FALSE
      OBVIOUS
    <3>2. Online(p) /\ hosts[p].conn = c
      BY <3>1, Distinct DEF IsCurrent, Online
    <3>3. hosts'[p] # hosts[p]
      BY <2>1, <3>1 DEF IsCurrent
    <3>4. p = q
      BY <1>1, <1>5, <3>3 DEF Revoke, Prune, TypeOK
    <3>5. QED
      BY <1>5, <3>2, <3>4 DEF Revoke, Prune
  <2>3. QED
    BY <1>2, <2>1, <2>2
<1>6. CASE ~ (\E d \in Conns : Activate(d) \/ Unregister(d))
           /\ ~ (\E q \in Peers : Revoke(q) \/ Prune(q))
  <2>1. phase[c] \in Serving /\ generation'[c] = generation[c] /\ peer' = peer
    BY <1>6, CurrentFrame
  <2>2. ~ IsCurrent(c)
    <3>1. SUFFICES ASSUME IsCurrent(c) PROVE FALSE
      OBVIOUS
    <3>2. hosts[p] # NoHost /\ hosts[p].conn = c /\ hosts[p].generation = generation[c]
      BY <3>1 DEF IsCurrent
    <3>3. /\ hosts'[p] # NoHost /\ hosts'[p].conn = c
          /\ hosts'[p].generation = generation[c]
      BY <1>1, <1>6, <3>2, CurrentFrame
    <3>4. QED
      BY <2>1, <3>3 DEF IsCurrent, Serving
  <2>3. ~ closed[c]
    BY DEF Next, vars, handlers, Handshake, Serve, End, Authenticate, Reserve, HandshakeFails,
           Activate, Refuse, ClosePrevious, ReceiveUpdate, ReceiveEvent, ReadSessions, Report,
           LoseNetwork, WriterFails, ReadFails, Unregister, Finish, CloseRevoked, Revoke,
           Pair, Prune, Close, TypeOK
  <2>4. c \notin revoked
    <3>1. ASSUME NEW d \in Conns, CloseRevoked(d) PROVE c \notin revoked
      BY <3>1 DEF CloseRevoked, Close, TypeOK
    <3>2. (~ \E d \in Conns : CloseRevoked(d)) => revoked' = revoked
      BY <1>6 DEF Next, vars, Handshake, Serve, End, Authenticate, Reserve,
             HandshakeFails, Refuse, ClosePrevious, ReceiveUpdate, ReceiveEvent,
             ReadSessions, Report, LoseNetwork, WriterFails, ReadFails, Finish, Pair
    <3>3. QED
      BY <3>1, <3>2
  <2>5. phase[c] # "exiting"
    <3>1. SUFFICES ASSUME phase[c] = "exiting" PROVE phase'[c] = "exiting"
      OBVIOUS
    <3>2. QED
      BY <1>6, <3>1 DEF Next, vars, handlers, Handshake, Serve, End, Authenticate, Reserve,
             HandshakeFails, Refuse, ClosePrevious, ReceiveUpdate, ReceiveEvent,
             ReadSessions, Report, LoseNetwork, WriterFails, ReadFails, Finish,
             CloseRevoked, Pair, TypeOK
  <2>6. PICK d \in Conns : phase[d] = "activated" /\ previous[d] = c
    BY <1>2, <2>1, <2>2, <2>3, <2>4, <2>5
  <2>7. ~ ClosePrevious(d)
    <3>1. SUFFICES ASSUME ClosePrevious(d) PROVE FALSE
      OBVIOUS
    <3>2. closed'[c]
      BY <2>6, <3>1 DEF ClosePrevious, Close
    <3>3. QED
      BY <3>2
  <2>8. phase'[d] = "activated" /\ previous'[d] = c
    BY <1>6, <2>6, <2>7 DEF Next, vars, handlers, Handshake, Serve, End, Authenticate, Reserve,
           HandshakeFails, Refuse, ClosePrevious, ReceiveUpdate, ReceiveEvent,
           ReadSessions, Report, LoseNetwork, WriterFails, ReadFails, Finish,
           CloseRevoked, Pair, TypeOK
  <2>9. QED
    BY <2>8
<1>7. QED
  BY <1>3, <1>4, <1>5, <1>6

-----------------------------------------------------------------------------
(* The invariant is inductive.                                               *)
THEOREM Invariance == Spec => []IInv
<1>1. IInv /\ [Next]_vars => IInv'
  BY NextTypeOK, RevokedStaysOutStep, GenerationsUniqueStep, OnlineIsServedStep,
     NoOrphansStep DEF IInv
<1>2. QED
  BY <1>1, InitInv, PTL DEF Spec

(* A revoked peer has no entry in the registry.                              *)
THEOREM RevocationHolds == Spec => []RevokedStaysOut
<1>1. IInv => RevokedStaysOut
  BY DEF IInv
<1>2. QED
  BY <1>1, Invariance, PTL

(* No connection that lost its place is forgotten open (manager.go:375).     *)
THEOREM NobodyForgotten == Spec => []NoOrphans
<1>1. IInv => NoOrphans
  BY DEF IInv
<1>2. QED
  BY <1>1, Invariance, PTL

(* A peer shown online has a handler that will notice its end                *)
(* (handler.go:172-176).                                                     *)
THEOREM OnlinePeersServed == Spec => []OnlineIsServed
<1>1. IInv => OnlineIsServed
  BY DEF IInv
<1>2. QED
  BY <1>1, Invariance, PTL

(* The cleanup of an older handler never takes a newer connection offline.   *)
THEOREM OnlyNewerDisplaces == Spec => DisplacedOnlyByNewer
<1> DEFINE Displaced(p) ==
             Online(p) /\ ~ (hosts'[p] # NoHost /\ hosts'[p].conn = hosts[p].conn)
<1>1. ASSUME IInv, [Next]_vars, NEW p \in Peers, Displaced(p)
      PROVE  \/ p \notin store'
             \/ phase[hosts[p].conn] = "exiting" /\ phase'[hosts[p].conn] = "leaving"
             \/ hosts'[p] # NoHost /\ hosts'[p].generation > hosts[p].generation
  <2> USE DEF IInv
  <2> DEFINE c == hosts[p].conn
  <2>1. hosts[p] # NoHost /\ c \in Conns
    BY <1>1, EntryType DEF Online
  <2>2. ASSUME NEW d \in Conns, Activate(d)
        PROVE  hosts'[p] # NoHost /\ hosts'[p].generation > hosts[p].generation
    <3>1. p = peer[d]
      BY <1>1, <2>2, ActivateFrame DEF Online
    <3>2. hosts'[p] # NoHost /\ hosts'[p].generation = generation[d]
      BY <1>1, <2>2, <3>1, ActivateFrame, Distinct
    <3>3. ~ (hosts[p].generation >= generation[d])
      BY <1>1, <2>2, <3>1 DEF Activate, Admits
    <3>4. hosts[p].generation \in Nat /\ generation[d] \in Nat
      BY <1>1, <2>1, EntryType DEF TypeOK
    <3>5. QED
      BY <3>2, <3>3, <3>4
  <2>3. ASSUME NEW d \in Conns, Unregister(d)
        PROVE  phase[c] = "exiting" /\ phase'[c] = "leaving"
    <3>1. p = peer[d] /\ hosts[p].generation = generation[d]
      BY <1>1, <2>1, <2>3, UnregisterFrame
    <3>2. peer[c] = p /\ generation[c] = hosts[p].generation
      BY <1>1 DEF OnlineIsServed, IsCurrent
    <3>3. phase[d] = "exiting" /\ phase'[d] = "leaving"
      BY <1>1, <2>3 DEF Unregister, TypeOK
    <3>4. generation[d] # 0
      BY <1>1, <3>3 DEF GenerationsUnique, Serving
    <3>5. c = d
      BY <1>1, <2>1, <3>1, <3>2, <3>4 DEF GenerationsUnique
    <3>6. QED
      BY <3>3, <3>5
  <2>4. ASSUME NEW q \in Peers, Revoke(q) PROVE p \notin store'
    <3>1. p = q
      BY <1>1, <2>1, <2>4 DEF Revoke, TypeOK
    <3>2. QED
      BY <2>4, <3>1 DEF Revoke
  <2>5. ASSUME NEW q \in Peers, Prune(q) PROVE FALSE
    BY <1>1, <2>1, <2>5 DEF Prune, TypeOK
  <2>6. (\E d \in Conns : Activate(d) \/ Unregister(d))
        \/ (\E q \in Peers : Revoke(q) \/ Prune(q))
    BY <1>1, <2>1, CurrentFrame
  <2>7. QED
    BY <2>2, <2>3, <2>4, <2>5, <2>6
<1>2. ASSUME IInv, [Next]_vars
      PROVE  \A p \in Peers : Displaced(p) =>
               \/ p \notin store'
               \/ phase[hosts[p].conn] = "exiting" /\ phase'[hosts[p].conn] = "leaving"
               \/ hosts'[p] # NoHost /\ hosts'[p].generation > hosts[p].generation
  BY <1>1, <1>2
<1>3. IInv /\ [Next]_vars =>
        [\A p \in Peers :
           Online(p) /\ ~ (hosts'[p] # NoHost /\ hosts'[p].conn = hosts[p].conn) =>
             \/ p \notin store'
             \/ phase[hosts[p].conn] = "exiting" /\ phase'[hosts[p].conn] = "leaving"
             \/ hosts'[p] # NoHost /\ hosts'[p].generation > hosts[p].generation]_vars
  BY <1>2
<1>4. QED
  BY <1>3, Invariance, PTL DEF Spec, DisplacedOnlyByNewer
=============================================================================
