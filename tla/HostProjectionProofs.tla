-------------------------- MODULE HostProjectionProofs --------------------------
(***************************************************************************)
(* Proofs about HostProjection, for every set of sessions, agents and      *)
(* updaters and every size of the channels: its type invariant, and that   *)
(* although the channels drop events, browsers see the hosts as the        *)
(* registry has them once nobody is on the way to the projection.          *)
(***************************************************************************)
EXTENDS HostProjection, TLAPS

(* Somebody is still to tell the server, or the server is about to read.   *)
Pending == owed > 0 \/ hubCh > 0 \/ loop.step = "stored" \/ refresher.step = "taken"

(* What the server has read of the registry, and what it has replaced since,*)
(* is what the registry has, host by host, but for those pruned meanwhile.  *)
Current ==
    \A h \in Hosts \ pruned :
        /\ refresher.step \in {"hosts", "health"} => refresher.read[h] = hosts[h]
        /\ refresher.step # "hosts" =>
             /\ canonHosts[h] = OnlineOf(hosts)[h]
             /\ \A s \in Sessions : <<h, s>> \in canonSessions <=> <<h, s>> \in SessionsOf(hosts)
        /\ refresher.step = "idle" => canonHealth[h] = Evaluated(hosts)[h]

HostInv ==
    /\ HostTypeOK
    /\ hosts[Local] # NotKnown
    /\ Pending \/ Current

-----------------------------------------------------------------------------
(* Facts about the operators *)

(* The difference of two maps, applied, gives the new one.                  *)
LEMMA DiffedIsNext ==
    ASSUME NEW current, NEW next, NEW h \in Hosts
    PROVE  Diffed(current, next)[h] = next[h]
BY DEF Diffed, Removes, Upserts, Known

(* What browsers see of a host depends on that host alone.                  *)
LEMMA HostByHost ==
    ASSUME NEW a, NEW b, NEW h \in Hosts, a[h] = b[h]
    PROVE  /\ OnlineOf(a)[h] = OnlineOf(b)[h]
           /\ Evaluated(a)[h] = Evaluated(b)[h]
           /\ \A s \in Sessions : <<h, s>> \in SessionsOf(a) <=> <<h, s>> \in SessionsOf(b)
BY DEF OnlineOf, Evaluated, SessionsOf

LEMMA SeenTypes ==
    ASSUME NEW a \in [Hosts -> HostStates \cup {NotKnown}]
    PROVE  /\ OnlineOf(a) \in [Hosts -> BOOLEAN \cup {NotKnown}]
           /\ Evaluated(a) \in [Hosts -> Health \cup {NotKnown}]
           /\ SessionsOf(a) \subseteq Hosts \X Sessions
<1>1. \A h \in Hosts : a[h] # NotKnown => a[h].online \in BOOLEAN
  BY DEF HostStates
<1>2. OnlineOf(a) \in [Hosts -> BOOLEAN \cup {NotKnown}]
  BY <1>1 DEF OnlineOf
<1>3. Evaluated(a) \in [Hosts -> Health \cup {NotKnown}]
  BY DEF Evaluated, Health
<1>4. QED
  BY <1>2, <1>3 DEF SessionsOf

(* An event that does not fit follows one that is still there.              *)
LEMMA NotifiedPends ==
    ASSUME NEW ch \in 0 .. ChannelCap
    PROVE  Notified(ch) \in 0 .. ChannelCap /\ Notified(ch) > 0
BY HostProjectionAssumption DEF Notified

LEMMA HostInitInv == HostInit => HostInv
<1> SUFFICES ASSUME HostInit PROVE HostInv
  OBVIOUS
<1> DEFINE local == [online |-> TRUE, sessions |-> {}]
<1>1. local \in HostStates /\ Local \in Hosts
  BY DEF HostStates, Hosts
<1>2. hosts \in [Hosts -> HostStates \cup {NotKnown}] /\ hosts[Local] = local
  BY <1>1 DEF HostInit, NoHosts
<1>3. local # NotKnown
  BY <1>1, HostProjectionAssumption DEF HostStates
<1>4. IdleRefresher \in RefresherStates /\ IdleLoop \in LoopStates /\ Idle \in UpdaterStates
  BY DEF IdleRefresher, RefresherStates, NoHosts, IdleLoop, LoopStates, Idle, UpdaterStates
<1>5. HostTypeOK
  <2>1. canonHosts \in [Hosts -> BOOLEAN \cup {NotKnown}]
        /\ canonHealth \in [Hosts -> Health \cup {NotKnown}]
    BY <1>2, SeenTypes DEF HostInit
  <2>2. localCh \in 0 .. ChannelCap /\ hubCh \in 0 .. ChannelCap
        /\ owed \in 0 .. MaxOwed /\ changes \in 0 .. MaxChanges
    BY HostProjectionAssumption DEF HostInit
  <2>3. QED
    BY <1>2, <1>4, <2>1, <2>2 DEF HostInit, HostTypeOK
<1>6. Current
  <2>1. \A h \in Hosts, s \in Sessions : <<h, s>> \notin SessionsOf(hosts)
    BY <1>2 DEF HostInit, SessionsOf, NoHosts
  <2>2. refresher.step = "idle"
    BY DEF HostInit, IdleRefresher
  <2>3. QED
    BY <2>1, <2>2 DEF HostInit, Current
<1>7. QED
  BY <1>2, <1>3, <1>5, <1>6 DEF HostInv

-----------------------------------------------------------------------------
(* Steps that do not touch the registry or the projection *)

(* Whatever the updaters and tmux do.                                       *)
LEMMA Elsewhere ==
    ASSUME HostInv, UNCHANGED <<hosts, refresher, canonVars, pruned, owed, hubCh>>,
           loop.step = "stored" => loop'.step = "stored",
           HostTypeOK'
    PROVE  HostInv'
<1>1. Pending => Pending'
  BY DEF Pending
<1>2. Current => Current'
  BY DEF Current, canonVars, OnlineOf, SessionsOf, Evaluated
<1>3. QED
  BY <1>1, <1>2 DEF HostInv

LEMMA TmuxStep ==
    ASSUME HostInv, TmuxChanges \/ ControlConnects \/ ControlDisconnects
    PROVE  HostInv'
<1> USE HostProjectionAssumption DEF HostInv, HostTypeOK, canonVars
<1>1. tmux' \subseteq Sessions
  BY DEF TmuxChanges, ControlConnects, ControlDisconnects
<1>2. connected' \in BOOLEAN /\ refresh' \in BOOLEAN
  BY DEF TmuxChanges, ControlConnects, ControlDisconnects
<1>3. changes' \in 0 .. MaxChanges
  BY DEF TmuxChanges, ControlConnects, ControlDisconnects
<1>4. UNCHANGED <<updater, cache, localCh, loop, hosts, owed, hubCh, refresher, canonVars, pruned>>
  BY DEF TmuxChanges, ControlConnects, ControlDisconnects
<1>5. HostTypeOK'
  BY <1>1, <1>2, <1>3, <1>4
<1>6. QED
  BY <1>4, <1>5, Elsewhere

LEMMA UpdaterStep ==
    ASSUME HostInv, DoRefresh \/ \E u \in Updaters : Discover(u) \/ UpdateSessions(u)
    PROVE  HostInv'
<1>1. /\ updater \in [Updaters -> UpdaterStates] /\ localCh \in 0 .. ChannelCap
      /\ tmux \subseteq Sessions /\ cache \subseteq Sessions
  BY DEF HostInv, HostTypeOK
<1>2. ASSUME NEW u \in Updaters, Lists(u)
      PROVE  updater' \in [Updaters -> UpdaterStates]
  <2>1. [Idle EXCEPT !.step = "listed", !.list = tmux] \in UpdaterStates
    BY <1>1 DEF Idle, UpdaterStates
  <2>2. QED
    BY <1>1, <1>2, <2>1 DEF Lists
<1>3. ASSUME DoRefresh \/ \E u \in Updaters : Discover(u)
      PROVE  HostInv'
  <2>1. updater' \in [Updaters -> UpdaterStates]
    BY <1>1, <1>2, <1>3, HostProjectionAssumption DEF DoRefresh, Discover
  <2>2. /\ UNCHANGED <<tmux, connected, cache, localCh, loop, hosts, owed, hubCh,
                       refresher, canonVars, pruned, changes>>
        /\ refresh' \in BOOLEAN
    BY <1>3 DEF DoRefresh, Discover, tmuxVars, HostInv, HostTypeOK
  <2>3. HostTypeOK'
    BY <2>1, <2>2 DEF HostInv, HostTypeOK, canonVars
  <2>4. QED
    BY <2>2, <2>3, Elsewhere
<1>4. ASSUME NEW u \in Updaters, UpdateSessions(u)
      PROVE  HostInv'
  <2>1. /\ UNCHANGED <<tmux, connected, refresh, loop, hosts, owed, hubCh,
                       refresher, canonVars, pruned, changes>>
    BY <1>4 DEF UpdateSessions, Compare, AnnounceName, StoreSessions, AnnounceSessions, tmuxVars
  <2>2. PICK x \in UpdaterStates : x = updater[u]
    BY <1>1
  <2>3. x.list \subseteq Sessions /\ x.names \subseteq Sessions
    BY DEF UpdaterStates
  <2>4. cache' \subseteq Sessions
    BY <1>1, <1>4, <2>2, <2>3
       DEF UpdateSessions, Compare, AnnounceName, StoreSessions, AnnounceSessions
  <2>5. localCh' \in 0 .. ChannelCap
    BY <1>1, <1>4, NotifiedPends
       DEF UpdateSessions, Compare, AnnounceName, StoreSessions, AnnounceSessions
  <2>6. updater' \in [Updaters -> UpdaterStates]
    <3>1. CASE Compare(u)
      <4>1. [x EXCEPT !.step = "announcing", !.names = cache \cup x.list] \in UpdaterStates
        BY <1>1, <2>3 DEF UpdaterStates
      <4>2. updater' = [updater EXCEPT ![u] =
                          [x EXCEPT !.step = "announcing", !.names = cache \cup x.list]]
        BY <2>2, <3>1 DEF Compare
      <4>3. QED
        BY <1>1, <4>1, <4>2
    <3>2. CASE AnnounceName(u)
      <4>1. PICK s \in x.names : updater' = [updater EXCEPT ![u].names = @ \ {s}]
        BY <2>2, <3>2 DEF AnnounceName
      <4>2. [x EXCEPT !.names = x.names \ {s}] \in UpdaterStates
        BY <2>3 DEF UpdaterStates
      <4>3. updater' = [updater EXCEPT ![u] = [x EXCEPT !.names = x.names \ {s}]]
        BY <2>2, <4>1
      <4>4. QED
        BY <1>1, <4>2, <4>3
    <3>3. CASE StoreSessions(u)
      <4>1. [x EXCEPT !.step = "stored"] \in UpdaterStates
        BY DEF UpdaterStates
      <4>2. updater' = [updater EXCEPT ![u] = [x EXCEPT !.step = "stored"]]
        BY <2>2, <3>3 DEF StoreSessions
      <4>3. QED
        BY <1>1, <4>1, <4>2
    <3>4. CASE AnnounceSessions(u)
      BY <1>1, <3>4 DEF AnnounceSessions, Idle, UpdaterStates
    <3>5. QED
      BY <1>4, <3>1, <3>2, <3>3, <3>4 DEF UpdateSessions
  <2>7. HostTypeOK'
    BY <2>1, <2>4, <2>5, <2>6 DEF HostInv, HostTypeOK, canonVars
  <2>8. QED
    BY <2>1, <2>7, Elsewhere
<1>5. QED
  BY <1>3, <1>4

-----------------------------------------------------------------------------
(* The registry *)

LEMMA LoopStep ==
    ASSUME HostInv, LoopNext \/ StatsTick
    PROVE  HostInv'
<1>1. PICK l \in LoopStates : l = loop
  BY DEF HostInv, HostTypeOK
<1>2. l.list \subseteq Sessions /\ l.stats \in BOOLEAN
  BY DEF LoopStates
<1>3. CASE TakeLocalEvent \/ StatsTick \/ GetSessions
  <2>1. /\ UNCHANGED <<tmuxVars, updater, cache, hosts, owed, hubCh, refresher, canonVars, pruned>>
        /\ loop.step # "stored"
    BY <1>3 DEF TakeLocalEvent, StatsTick, GetSessions
  <2>2. localCh' \in 0 .. ChannelCap /\ changes' \in 0 .. MaxChanges
    BY <1>3, HostProjectionAssumption
       DEF TakeLocalEvent, StatsTick, GetSessions, HostInv, HostTypeOK
  <2>3. loop' \in LoopStates
    <3>1. tmux \subseteq Sessions /\ cache \subseteq Sessions
      BY DEF HostInv, HostTypeOK
    <3>2. CASE TakeLocalEvent \/ StatsTick
      BY <1>1, <1>2, <3>2 DEF TakeLocalEvent, StatsTick, LoopStates
    <3>3. CASE GetSessions
      BY <1>1, <1>2, <3>1, <3>3 DEF GetSessions, LoopStates
    <3>4. QED
      BY <1>3, <3>2, <3>3
  <2>4. HostTypeOK'
    BY <2>1, <2>2, <2>3 DEF HostInv, HostTypeOK, tmuxVars, canonVars
  <2>5. QED
    BY <2>1, <2>4, Elsewhere
<1>4. CASE StoreLocalHost
  <2>1. loop' = [l EXCEPT !.step = "stored"]
    BY <1>1, <1>4 DEF StoreLocalHost
  <2>2. loop' \in LoopStates /\ loop'.step = "stored"
    BY <1>2, <2>1 DEF LoopStates
  <2>3. /\ hosts' \in [Hosts -> HostStates \cup {NotKnown}]
        /\ hosts'[Local] # NotKnown
    <3>1. Local \in Hosts /\ hosts \in [Hosts -> HostStates \cup {NotKnown}]
          /\ hosts[Local] # NotKnown
      BY DEF HostInv, HostTypeOK, Hosts
    <3>2. PICK y \in HostStates : y = hosts[Local]
      BY <3>1
    <3>3. [y EXCEPT !.sessions = l.list] \in HostStates
      BY <1>2 DEF HostStates
    <3>4. HostStates = [online : BOOLEAN, sessions : SUBSET Sessions]
      BY DEF HostStates
    <3>5. [y EXCEPT !.sessions = l.list] # NotKnown
      BY <3>3, <3>4, HostProjectionAssumption
    <3>6. hosts' = hosts \/ hosts' = [hosts EXCEPT ![Local] = [y EXCEPT !.sessions = l.list]]
      BY <1>1, <1>4, <3>2 DEF StoreLocalHost
    <3>7. QED
      BY <3>1, <3>3, <3>5, <3>6
  <2>4. HostTypeOK'
    BY <1>1, <1>2, <1>4, <2>2, <2>3 DEF StoreLocalHost, HostInv, HostTypeOK, tmuxVars, canonVars
  <2>5. QED
    BY <2>2, <2>3, <2>4 DEF HostInv, Pending
<1>5. CASE AnnounceLocalHost
  <2>1. hubCh' \in 0 .. ChannelCap /\ hubCh' > 0
    BY <1>5, NotifiedPends DEF AnnounceLocalHost, HostInv, HostTypeOK
  <2>2. loop' \in LoopStates
    BY <1>5 DEF AnnounceLocalHost, IdleLoop, LoopStates
  <2>3. HostTypeOK'
    BY <1>5, <2>1, <2>2 DEF AnnounceLocalHost, HostInv, HostTypeOK, tmuxVars, canonVars
  <2>4. QED
    BY <1>5, <2>1, <2>3 DEF AnnounceLocalHost, HostInv, Pending
<1>6. QED
  BY <1>3, <1>4, <1>5 DEF LoopNext

LEMMA PeerStep ==
    ASSUME HostInv, AnnouncePeer \/ \E r \in Remotes : PeerNext(r)
    PROVE  HostInv'
<1>1. hosts \in [Hosts -> HostStates \cup {NotKnown}] /\ hosts[Local] # NotKnown
  BY DEF HostInv, HostTypeOK
<1>2. ASSUME NEW r \in Remotes, NEW state \in HostStates \cup {NotKnown}, PeerChanges(r, state)
      PROVE  HostInv'
  <2>1. r \in Hosts /\ r # Local /\ Local \in Hosts
    BY HostProjectionAssumption DEF Hosts
  <2>2. hosts' \in [Hosts -> HostStates \cup {NotKnown}] /\ hosts'[Local] # NotKnown
    BY <1>1, <1>2, <2>1 DEF PeerChanges
  <2>3. owed' \in 0 .. MaxOwed /\ owed' > 0 /\ changes' \in 0 .. MaxChanges
    BY <1>2, HostProjectionAssumption DEF PeerChanges, HostInv, HostTypeOK
  <2>4. HostTypeOK'
    BY <1>2, <2>2, <2>3 DEF PeerChanges, HostInv, HostTypeOK, tmuxVars, canonVars
  <2>5. QED
    BY <2>2, <2>3, <2>4 DEF HostInv, Pending
<1>3. ASSUME NEW r \in Remotes, PeerRegisters(r) \/ PeerReports(r) \/ PeerUnregisters(r) \/ PeerRevoked(r)
      PROVE  HostInv'
  <2>1. r \in Hosts
    BY DEF Hosts
  <2>2. CASE PeerRegisters(r)
    <3>1. [online |-> TRUE, sessions |-> {}] \in HostStates
      BY DEF HostStates
    <3>2. QED
      BY <1>2, <2>2, <3>1 DEF PeerRegisters
  <2>3. CASE PeerReports(r)
    <3>1. PICK list \in SUBSET Sessions : PeerChanges(r, [hosts[r] EXCEPT !.sessions = list])
      BY <2>3 DEF PeerReports
    <3>2. PICK y \in HostStates : y = hosts[r]
      BY <1>1, <2>1, <2>3 DEF PeerReports
    <3>3. [y EXCEPT !.sessions = list] \in HostStates
      BY DEF HostStates
    <3>4. QED
      BY <1>2, <3>1, <3>2, <3>3
  <2>4. CASE PeerUnregisters(r)
    <3>1. PICK y \in HostStates : y = hosts[r]
      BY <1>1, <2>1, <2>4 DEF PeerUnregisters
    <3>2. [y EXCEPT !.online = FALSE] \in HostStates
      BY DEF HostStates
    <3>3. QED
      BY <1>2, <2>4, <3>1, <3>2 DEF PeerUnregisters
  <2>5. CASE PeerRevoked(r)
    BY <1>2, <2>5 DEF PeerRevoked
  <2>6. QED
    BY <1>3, <2>2, <2>3, <2>4, <2>5
<1>4. ASSUME NEW r \in Remotes, PruneOffline(r)
      PROVE  HostInv'
  <2>1. r \in Hosts /\ r # Local /\ Local \in Hosts
    BY HostProjectionAssumption DEF Hosts
  <2>2. hosts' \in [Hosts -> HostStates \cup {NotKnown}] /\ hosts'[Local] # NotKnown
    BY <1>1, <1>4, <2>1 DEF PruneOffline
  <2>3. pruned' = pruned \cup {r} /\ \A h \in Hosts \ pruned' : hosts'[h] = hosts[h]
    BY <1>1, <1>4 DEF PruneOffline
  <2>4. HostTypeOK'
    BY <1>4, <2>2, <2>3 DEF PruneOffline, HostInv, HostTypeOK, tmuxVars, canonVars
  <2>5. Pending => Pending'
    BY <1>4 DEF PruneOffline, Pending
  <2>6. Current => Current'
    <3>1. UNCHANGED <<refresher, canonVars>>
      BY <1>4 DEF PruneOffline
    <3>2. ASSUME NEW b, b = hosts'
          PROVE  \A h \in Hosts \ pruned' :
                   /\ OnlineOf(hosts)[h] = OnlineOf(b)[h]
                   /\ Evaluated(hosts)[h] = Evaluated(b)[h]
                   /\ \A s \in Sessions : <<h, s>> \in SessionsOf(hosts) <=> <<h, s>> \in SessionsOf(b)
      BY <2>3, <3>2, HostByHost
    <3>3. QED
      BY <2>3, <3>1, <3>2 DEF Current, canonVars, OnlineOf, SessionsOf, Evaluated
  <2>7. QED
    BY <2>2, <2>4, <2>5, <2>6 DEF HostInv
<1>5. CASE AnnouncePeer
  <2>1. hubCh' \in 0 .. ChannelCap /\ hubCh' > 0
    BY <1>5, NotifiedPends DEF AnnouncePeer, HostInv, HostTypeOK
  <2>2. owed' \in 0 .. MaxOwed
    BY <1>5, HostProjectionAssumption DEF AnnouncePeer, HostInv, HostTypeOK
  <2>3. HostTypeOK'
    BY <1>5, <2>1, <2>2 DEF AnnouncePeer, HostInv, HostTypeOK, tmuxVars, canonVars
  <2>4. QED
    BY <1>5, <2>1, <2>3 DEF AnnouncePeer, HostInv, Pending
<1>6. QED
  BY <1>3, <1>4, <1>5 DEF PeerNext

-----------------------------------------------------------------------------
(* The server's goroutine *)

LEMMA RefreshStep ==
    ASSUME HostInv, Refresh
    PROVE  HostInv'
<1>1. /\ hosts \in [Hosts -> HostStates \cup {NotKnown}] /\ hosts[Local] # NotKnown
      /\ refresher \in RefresherStates
      /\ canonHosts \in [Hosts -> BOOLEAN \cup {NotKnown}]
      /\ canonHealth \in [Hosts -> Health \cup {NotKnown}]
      /\ hubCh \in 0 .. ChannelCap
  BY DEF HostInv, HostTypeOK
<1>2. refresher.read \in [Hosts -> HostStates \cup {NotKnown}] /\ NoHosts \in [Hosts -> HostStates \cup {NotKnown}]
  BY <1>1 DEF RefresherStates, NoHosts
<1>3. CASE TakeHubEvent
  <2>1. refresher' \in RefresherStates /\ refresher'.step = "taken"
    BY <1>1, <1>3 DEF TakeHubEvent, RefresherStates
  <2>2. hubCh' \in 0 .. ChannelCap
    BY <1>1, <1>3, HostProjectionAssumption DEF TakeHubEvent
  <2>3. HostTypeOK'
    BY <1>3, <2>1, <2>2 DEF TakeHubEvent, HostInv, HostTypeOK, tmuxVars, canonVars
  <2>4. QED
    BY <1>3, <2>1, <2>3 DEF TakeHubEvent, HostInv, Pending
<1>4. CASE ReadHosts
  <2>1. refresher' = [step |-> "hosts", read |-> hosts]
    BY <1>4 DEF ReadHosts
  <2>2. refresher' \in RefresherStates
    BY <1>1, <2>1 DEF RefresherStates
  <2>3. HostTypeOK'
    BY <1>4, <2>2 DEF ReadHosts, HostInv, HostTypeOK, tmuxVars, canonVars
  <2>4. Current'
    BY <1>4, <2>1 DEF ReadHosts, Current
  <2>5. QED
    BY <1>1, <1>4, <2>3, <2>4 DEF ReadHosts, HostInv
<1>5. CASE ReplaceHosts
  <2>1. refresher' = [step |-> "projected", read |-> NoHosts] /\ refresher.step = "hosts"
    BY <1>5 DEF ReplaceHosts
  <2>2. refresher' \in RefresherStates
    BY <1>2, <2>1 DEF RefresherStates
  <2>3. /\ \A h \in Hosts : canonHosts'[h] = OnlineOf(refresher.read)[h]
        /\ canonSessions' = SessionsOf(refresher.read)
    BY <1>5, DiffedIsNext DEF ReplaceHosts
  <2>4. /\ canonHosts' \in [Hosts -> BOOLEAN \cup {NotKnown}]
        /\ canonSessions' \subseteq Hosts \X Sessions
    <3>1. canonHosts' = [h \in Hosts |-> canonHosts'[h]]
      BY <1>5 DEF ReplaceHosts, Diffed
    <3>2. OnlineOf(refresher.read) \in [Hosts -> BOOLEAN \cup {NotKnown}]
          /\ SessionsOf(refresher.read) \subseteq Hosts \X Sessions
      BY <1>2, SeenTypes
    <3>3. QED
      BY <2>3, <3>1, <3>2
  <2>5. HostTypeOK'
    BY <1>5, <2>2, <2>4 DEF ReplaceHosts, HostInv, HostTypeOK, tmuxVars
  <2>6. Pending => Pending'
    BY <1>5 DEF ReplaceHosts, Pending
  <2>7. Current => Current'
    <3> SUFFICES ASSUME Current PROVE Current'
      OBVIOUS
    <3>1. UNCHANGED <<hosts, pruned>>
      BY <1>5 DEF ReplaceHosts
    <3>2. \A h \in Hosts \ pruned : refresher.read[h] = hosts[h]
      BY <2>1 DEF Current
    <3>3. \A h \in Hosts \ pruned :
            /\ OnlineOf(refresher.read)[h] = OnlineOf(hosts)[h]
            /\ \A s \in Sessions : <<h, s>> \in SessionsOf(refresher.read) <=> <<h, s>> \in SessionsOf(hosts)
      BY <3>2, HostByHost
    <3>4. OnlineOf(hosts)' = OnlineOf(hosts) /\ SessionsOf(hosts)' = SessionsOf(hosts)
      BY <3>1 DEF OnlineOf, SessionsOf
    <3>5. QED
      BY <2>1, <2>3, <3>1, <3>3, <3>4 DEF Current
  <2>8. QED
    BY <1>1, <1>5, <2>5, <2>6, <2>7 DEF ReplaceHosts, HostInv
<1>6. CASE ReadHealth
  <2>1. refresher' = [step |-> "health", read |-> hosts] /\ refresher.step = "projected"
    BY <1>6 DEF ReadHealth
  <2>2. refresher' \in RefresherStates
    BY <1>1, <2>1 DEF RefresherStates
  <2>3. HostTypeOK'
    BY <1>6, <2>2 DEF ReadHealth, HostInv, HostTypeOK, tmuxVars, canonVars
  <2>4. Pending => Pending'
    BY <1>6 DEF ReadHealth, Pending
  <2>5. Current => Current'
    BY <1>6, <2>1 DEF ReadHealth, Current, canonVars, OnlineOf, SessionsOf, Evaluated
  <2>6. QED
    BY <1>1, <1>6, <2>3, <2>4, <2>5 DEF ReadHealth, HostInv
<1>7. CASE syncFleetHealth
  <2>1. refresher' = IdleRefresher /\ refresher.step = "health" /\ refresher'.step = "idle"
    BY <1>7 DEF syncFleetHealth, IdleRefresher
  <2>2. refresher' \in RefresherStates
    BY <1>2, <2>1 DEF RefresherStates, IdleRefresher
  <2>3. \A h \in Hosts : canonHealth'[h] = Evaluated(refresher.read)[h]
    BY <1>7, DiffedIsNext DEF syncFleetHealth
  <2>4. canonHealth' \in [Hosts -> Health \cup {NotKnown}]
    <3>1. canonHealth' = [h \in Hosts |-> canonHealth'[h]]
      BY <1>7 DEF syncFleetHealth, Diffed
    <3>2. Evaluated(refresher.read) \in [Hosts -> Health \cup {NotKnown}]
      BY <1>2, SeenTypes
    <3>3. QED
      BY <2>3, <3>1, <3>2
  <2>5. HostTypeOK'
    BY <1>7, <2>2, <2>4 DEF syncFleetHealth, HostInv, HostTypeOK, tmuxVars
  <2>6. Pending => Pending'
    BY <1>7 DEF syncFleetHealth, Pending
  <2>7. Current => Current'
    <3> SUFFICES ASSUME Current PROVE Current'
      OBVIOUS
    <3>1. UNCHANGED <<hosts, pruned, canonHosts, canonSessions>>
      BY <1>7 DEF syncFleetHealth
    <3>2. \A h \in Hosts \ pruned :
            /\ refresher.read[h] = hosts[h] /\ canonHosts[h] = OnlineOf(hosts)[h]
            /\ \A s \in Sessions : <<h, s>> \in canonSessions <=> <<h, s>> \in SessionsOf(hosts)
      BY <2>1 DEF Current
    <3>3. \A h \in Hosts \ pruned : Evaluated(refresher.read)[h] = Evaluated(hosts)[h]
      BY <3>2, HostByHost
    <3>4. OnlineOf(hosts)' = OnlineOf(hosts) /\ SessionsOf(hosts)' = SessionsOf(hosts)
          /\ Evaluated(hosts)' = Evaluated(hosts)
      BY <3>1 DEF OnlineOf, SessionsOf, Evaluated
    <3>5. QED
      BY <2>1, <2>3, <3>1, <3>2, <3>3, <3>4 DEF Current
  <2>8. QED
    BY <1>1, <1>7, <2>5, <2>6, <2>7 DEF syncFleetHealth, HostInv
<1>8. QED
  BY <1>3, <1>4, <1>5, <1>6, <1>7 DEF Refresh

-----------------------------------------------------------------------------

LEMMA HostStepInv == HostInv /\ [HostNext]_hostVars => HostInv'
<1>1. HostInv /\ HostNext => HostInv'
  BY TmuxStep, UpdaterStep, LoopStep, PeerStep, RefreshStep DEF HostNext
<1>2. ASSUME HostInv, UNCHANGED hostVars PROVE HostInv'
  <2>1. HostTypeOK'
    BY <1>2 DEF HostInv, HostTypeOK, hostVars, tmuxVars, canonVars
  <2>2. QED
    BY <1>2, <2>1, Elsewhere DEF hostVars
<1>3. QED
  BY <1>1, <1>2

(* The inductive invariant holds in every state.                            *)
THEOREM HostInvariance == HostSpec => []HostInv
BY HostInitInv, HostStepInv, PTL DEF HostSpec

(* Every variable has its type, in every state.                             *)
THEOREM HostTypes == HostSpec => []HostTypeOK
<1>1. HostInv => HostTypeOK
  BY DEF HostInv
<1>2. QED
  BY <1>1, HostInvariance, PTL

(* When nobody is on the way to the projection, browsers see each host as   *)
(* the registry has it, whatever the channels dropped.                      *)
THEOREM QuietIsCurrent == HostSpec => []QuietMeansCurrent
<1>1. HostInv => QuietMeansCurrent
  <2> SUFFICES ASSUME HostInv, HostsQuiet PROVE QuietMeansCurrent
    BY DEF QuietMeansCurrent
  <2>1. owed = 0 /\ hubCh = 0 /\ loop.step # "stored" /\ refresher.step = "idle"
    BY DEF HostsQuiet
  <2>2. Current
    BY <2>1 DEF HostInv, Pending
  <2>3. ASSUME NEW hs \in Hosts \X Sessions, hs[1] \notin pruned
        PROVE  hs \in canonSessions <=> hs \in SessionsOf(hosts)
    <3>1. PICK h \in Hosts, s \in Sessions : hs = <<h, s>>
      OBVIOUS
    <3>2. h \in Hosts \ pruned
      BY <2>3, <3>1
    <3>3. QED
      BY <2>1, <2>2, <3>1, <3>2 DEF Current
  <2>4. QED
    BY <2>1, <2>2, <2>3 DEF QuietMeansCurrent, Current
<1>2. QED
  BY <1>1, HostInvariance, PTL
=============================================================================
