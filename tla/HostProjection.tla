---------------------------- MODULE HostProjection ----------------------------
(***************************************************************************)
(* How the sessions of tmux and the registered peers become the hosts,     *)
(* sessions and health records that browsers see.  tmux is listed by a     *)
(* poll, by the debounced refresh of control mode and by an action's       *)
(* handler (pkg/tmux, pkg/server/runtime_api.go); each list is stored and  *)
(* announced by the session manager (pkg/state/manager.go); the peer       *)
(* manager lists tmux once more for each announcement and announces the    *)
(* change of its host (pkg/peer/manager.go); the server replaces the       *)
(* canonical hosts and the fleet health (pkg/server, pkg/state).  Both     *)
(* channels in between drop what does not fit.                             *)
(***************************************************************************)
EXTENDS Integers

CONSTANTS
    Sessions,       \* names of tmux sessions
    Local,          \* the host the server runs on
    Remotes,        \* fingerprints of the paired agents
    NotKnown,       \* the registry, or the projection, has no such host
    Updaters,       \* goroutines that list tmux and store what they listed
    ChannelCap,     \* the size of the two event channels, 64 in the code
    MaxOwed,        \* bound: peer handlers about to announce a change
    MaxChanges      \* bound: changes of tmux and of the peers, and failures

ASSUME HostProjectionAssumption ==
    /\ Local \notin Remotes
    /\ {"poll", "control"} \subseteq Updaters
    /\ ChannelCap \in Nat \ {0}
    /\ MaxOwed \in Nat /\ MaxChanges \in Nat
    /\ NotKnown \notin [online : BOOLEAN, sessions : SUBSET Sessions]

VARIABLES
    tmux,           \* the sessions there are
    connected,      \* control mode is attached to tmux
    refresh,        \* the debounce timer of control mode is set
    updater,        \* what each updater has listed, and how far it is
    cache,          \* state.Manager.sessions
    localCh,        \* events in the peer manager's subscription
    loop,           \* the goroutine of peer.Manager.RunContext
    hosts,          \* peer.Manager.hosts
    owed,           \* changes of hosts that are made and not yet announced
    hubCh,          \* events in the server's subscription
    refresher,      \* the server's goroutine that replaces the projection
    canonHosts,     \* hosts of the canonical projection
    canonSessions,  \* sessions of the canonical projection
    canonHealth,    \* health records of the canonical projection
    pruned,         \* history: hosts pruned since the projection was replaced
    changes         \* counts the environment's changes and failures

tmuxVars == <<tmux, connected, refresh>>
canonVars == <<canonHosts, canonSessions, canonHealth>>
hostVars == <<tmuxVars, updater, cache, localCh, loop, hosts, owed, hubCh,
              refresher, canonVars, pruned, changes>>

Hosts == {Local} \cup Remotes
HostStates == [online : BOOLEAN, sessions : SUBSET Sessions]
Known(entries) == {h \in Hosts : entries[h] # NotKnown}

UpdaterStates == [step : {"idle", "listed", "announcing", "stored"},
                  list : SUBSET Sessions, names : SUBSET Sessions]
LoopStates == [step : {"idle", "reading", "storing", "stored"},
               list : SUBSET Sessions, stats : BOOLEAN]
Idle == [step |-> "idle", list |-> {}, names |-> {}]
IdleLoop == [step |-> "idle", list |-> {}, stats |-> FALSE]

RefresherStates == [step : {"idle", "taken", "hosts", "projected", "health"},
                    read : [Hosts -> HostStates \cup {NotKnown}]]
Health == {"fresh", "offline"}

NoHosts == [h \in Hosts |-> NotKnown]
IdleRefresher == [step |-> "idle", read |-> NoHosts]

HostTypeOK ==
    /\ tmux \subseteq Sessions /\ cache \subseteq Sessions
    /\ connected \in BOOLEAN /\ refresh \in BOOLEAN
    /\ updater \in [Updaters -> UpdaterStates]
    /\ loop \in LoopStates
    /\ localCh \in 0 .. ChannelCap /\ hubCh \in 0 .. ChannelCap
    /\ hosts \in [Hosts -> HostStates \cup {NotKnown}]
    /\ refresher \in RefresherStates
    /\ canonHosts \in [Hosts -> BOOLEAN \cup {NotKnown}]
    /\ canonSessions \subseteq Hosts \X Sessions
    /\ canonHealth \in [Hosts -> Health \cup {NotKnown}]
    /\ pruned \subseteq Remotes
    /\ owed \in 0 .. MaxOwed /\ changes \in 0 .. MaxChanges

-----------------------------------------------------------------------------
(* The canonical projection: what a producer commits *)

(* Defect: a channel without a limit.                                        *)
NotifiedAlways(ch) == ch + 1

(* broadcast: select with default, an event that does not fit is dropped.    *)
Notified(ch) == IF ch < ChannelCap THEN ch + 1 ELSE ch

SessionsOf(entries) ==
    {hs \in Hosts \X Sessions :
        entries[hs[1]] # NotKnown /\ hs[2] \in entries[hs[1]].sessions}

OnlineOf(entries) ==
    [h \in Hosts |-> IF entries[h] = NotKnown THEN NotKnown ELSE entries[h].online]

(* Evaluate, by the one fact that the events here can change.                *)
Evaluated(entries) ==
    [h \in Hosts |-> IF entries[h] = NotKnown THEN NotKnown
                     ELSE IF entries[h].online THEN "fresh" ELSE "offline"]

(* appendMapDiff: keys to remove, and keys whose value is new or another.    *)
Removes(current, next) == {h \in Known(current) : next[h] = NotKnown}
Upserts(current, next) == {h \in Known(next) : current[h] # next[h]}

Diffed(current, next) ==
    [h \in Hosts |-> IF h \in Removes(current, next) THEN NotKnown
                     ELSE IF h \in Upserts(current, next) THEN next[h]
                     ELSE current[h]]

-----------------------------------------------------------------------------
(* tmux and control mode *)

(* A session is created or killed; control mode notices, scheduleRefresh     *)
(* sets the timer anew.                                                      *)
TmuxChanges ==
    /\ changes < MaxChanges
    /\ changes' = changes + 1
    /\ \E s \in Sessions : tmux' = IF s \in tmux THEN tmux \ {s} ELSE tmux \cup {s}
    /\ refresh' = (refresh \/ connected)
    /\ UNCHANGED <<connected, updater, cache, localCh, loop, hosts, owed, hubCh,
                   refresher, canonVars, pruned>>

(* The control client attaches.  What changed before is not refreshed.       *)
ControlConnects ==
    /\ ~connected
    /\ changes < MaxChanges
    /\ connected' = TRUE
    /\ changes' = changes + 1
    /\ UNCHANGED <<tmux, refresh, updater, cache, localCh, loop, hosts, owed, hubCh,
                   refresher, canonVars, pruned>>

(* The control client ends: a pending refresh is cancelled with it.          *)
ControlDisconnects ==
    /\ connected
    /\ connected' = FALSE
    /\ refresh' = FALSE
    /\ UNCHANGED <<tmux, updater, cache, localCh, loop, hosts, owed, hubCh,
                   refresher, canonVars, pruned, changes>>

(* ListSessions succeeds: a poll, an action's handler, or the refresh.       *)
Lists(u) ==
    /\ updater[u].step = "idle"
    /\ updater' = [updater EXCEPT ![u] = [Idle EXCEPT !.step = "listed", !.list = tmux]]

Discover(u) ==
    /\ u # "control"
    /\ Lists(u)
    /\ UNCHANGED <<tmuxVars, cache, localCh, loop, hosts, owed, hubCh,
                   refresher, canonVars, pruned, changes>>

DoRefresh ==
    /\ refresh
    /\ refresh' = FALSE
    /\ \/ Lists("control")
       \/ UNCHANGED updater          \* ListSessions fails: the refresh is over
    /\ UNCHANGED <<tmux, connected, cache, localCh, loop, hosts, owed, hubCh,
                   refresher, canonVars, pruned, changes>>

-----------------------------------------------------------------------------
(* state.Manager.UpdateSessions *)

(* The names stored now, of which those not listed were removed, and the     *)
(* names listed, each still to be looked up.                                 *)
Compare(u) ==
    /\ updater[u].step = "listed"
    /\ updater' = [updater EXCEPT
                     ![u].step = "announcing",
                     ![u].names = cache \cup updater[u].list]
    /\ UNCHANGED <<tmuxVars, cache, localCh, loop, hosts, owed, hubCh,
                   refresher, canonVars, pruned, changes>>

(* Removed names first, then new ones; each is broadcast with the mutex      *)
(* released, and whether the next is new is asked of what is stored by then. *)
AnnounceName(u) ==
    /\ updater[u].step = "announcing"
    /\ \E s \in updater[u].names :
         /\ s \in updater[u].list => updater[u].names \subseteq updater[u].list
         /\ updater' = [updater EXCEPT ![u].names = @ \ {s}]
         /\ localCh' = IF s \in updater[u].list \cap cache THEN localCh ELSE Notified(localCh)
    /\ UNCHANGED <<tmuxVars, cache, loop, hosts, owed, hubCh,
                   refresher, canonVars, pruned, changes>>

StoreSessions(u) ==
    /\ updater[u].step = "announcing"
    /\ updater[u].names = {}
    /\ cache' = updater[u].list
    /\ updater' = [updater EXCEPT ![u].step = "stored"]
    /\ UNCHANGED <<tmuxVars, localCh, loop, hosts, owed, hubCh,
                   refresher, canonVars, pruned, changes>>

(* Defect: the general event is taken for a repetition and left out.         *)
AnnounceNothing(u) ==
    /\ updater[u].step = "stored"
    /\ updater' = [updater EXCEPT ![u] = Idle]
    /\ UNCHANGED <<tmuxVars, cache, localCh, loop, hosts, owed, hubCh,
                   refresher, canonVars, pruned, changes>>

(* The general event, after the list is stored.                              *)
AnnounceSessions(u) ==
    /\ updater[u].step = "stored"
    /\ localCh' = Notified(localCh)
    /\ updater' = [updater EXCEPT ![u] = Idle]
    /\ UNCHANGED <<tmuxVars, cache, loop, hosts, owed, hubCh,
                   refresher, canonVars, pruned, changes>>

UpdateSessions(u) ==
    Compare(u) \/ AnnounceName(u) \/ StoreSessions(u) \/ AnnounceSessions(u)

-----------------------------------------------------------------------------
(* peer.Manager *)

(* The mutex of the registry is held while an event's tmux list is read.     *)
RegistryFree == loop.stats \/ loop.step \in {"idle", "stored"}

TakeLocalEvent ==
    /\ loop.step = "idle"
    /\ localCh > 0
    /\ localCh' = localCh - 1
    /\ loop' = [loop EXCEPT !.step = "reading"]
    /\ UNCHANGED <<tmuxVars, updater, cache, hosts, owed, hubCh,
                   refresher, canonVars, pruned, changes>>

StatsTick ==
    /\ loop.step = "idle"
    /\ loop' = [loop EXCEPT !.step = "reading", !.stats = TRUE]
    /\ UNCHANGED <<tmuxVars, updater, cache, localCh, hosts, owed, hubCh,
                   refresher, canonVars, pruned, changes>>

(* GetSessions lists tmux; when that fails it falls back on the cache.       *)
GetSessions ==
    /\ loop.step = "reading"
    /\ \/ /\ loop' = [loop EXCEPT !.step = "storing", !.list = tmux]
          /\ UNCHANGED changes
       \/ /\ changes < MaxChanges
          /\ changes' = changes + 1
          /\ loop' = [loop EXCEPT !.step = "storing", !.list = cache]
    /\ UNCHANGED <<tmuxVars, updater, cache, localCh, hosts, owed, hubCh,
                   refresher, canonVars, pruned>>

StoreLocalHost ==
    /\ loop.step = "storing"
    /\ cache' = loop.list
    /\ hosts' = IF loop.stats THEN hosts ELSE [hosts EXCEPT ![Local].sessions = loop.list]
    /\ loop' = [loop EXCEPT !.step = "stored"]
    /\ UNCHANGED <<tmuxVars, updater, localCh, owed, hubCh,
                   refresher, canonVars, pruned, changes>>

AnnounceLocalHost ==
    /\ loop.step = "stored"
    /\ hubCh' = Notified(hubCh)
    /\ loop' = IdleLoop
    /\ UNCHANGED <<tmuxVars, updater, cache, localCh, hosts, owed,
                   refresher, canonVars, pruned, changes>>

(* The handler of r registers it, reports its sessions, or unregisters it;   *)
(* the operator revokes it.  The event follows when the mutex is released.   *)
PeerChanges(r, state) ==
    /\ RegistryFree
    /\ changes < MaxChanges
    /\ owed < MaxOwed
    /\ hosts[r] # state
    /\ hosts' = [hosts EXCEPT ![r] = state]
    /\ changes' = changes + 1
    /\ owed' = owed + 1
    /\ UNCHANGED <<tmuxVars, updater, cache, localCh, loop, hubCh,
                   refresher, canonVars, pruned>>

PeerRegisters(r) == PeerChanges(r, [online |-> TRUE, sessions |-> {}])

PeerReports(r) ==
    /\ hosts[r] # NotKnown
    /\ \E list \in SUBSET Sessions : PeerChanges(r, [hosts[r] EXCEPT !.sessions = list])

(* Defect: an agent that leaves is not announced.                            *)
PeerLeavesSilently(r) ==
    /\ hosts[r] # NotKnown /\ hosts[r].online
    /\ RegistryFree
    /\ hosts' = [hosts EXCEPT ![r].online = FALSE]
    /\ UNCHANGED <<tmuxVars, updater, cache, localCh, loop, owed, hubCh,
                   refresher, canonVars, pruned, changes>>

PeerUnregisters(r) ==
    /\ hosts[r] # NotKnown
    /\ PeerChanges(r, [hosts[r] EXCEPT !.online = FALSE])

PeerRevoked(r) == PeerChanges(r, NotKnown)

AnnouncePeer ==
    /\ owed > 0
    /\ owed' = owed - 1
    /\ hubCh' = Notified(hubCh)
    /\ UNCHANGED <<tmuxVars, updater, cache, localCh, loop, hosts,
                   refresher, canonVars, pruned, changes>>

(* pruneOffline forgets a host that was offline for long, and tells nobody.  *)
PruneOffline(r) ==
    /\ loop.step = "idle"
    /\ hosts[r] # NotKnown /\ ~hosts[r].online
    /\ hosts' = [hosts EXCEPT ![r] = NotKnown]
    /\ pruned' = pruned \cup {r}
    /\ UNCHANGED <<tmuxVars, updater, cache, localCh, loop, owed, hubCh,
                   refresher, canonVars, changes>>

-----------------------------------------------------------------------------
(* The server's goroutine *)

TakeHubEvent ==
    /\ refresher.step = "idle"
    /\ hubCh > 0
    /\ hubCh' = hubCh - 1
    /\ refresher' = [refresher EXCEPT !.step = "taken"]
    /\ UNCHANGED <<tmuxVars, updater, cache, localCh, loop, hosts, owed,
                   canonVars, pruned, changes>>

(* StateHostSnapshots: a copy of the registry.                               *)
ReadHosts ==
    /\ refresher.step = "taken"
    /\ RegistryFree
    /\ refresher' = [step |-> "hosts", read |-> hosts]
    /\ pruned' = {}
    /\ UNCHANGED <<tmuxVars, updater, cache, localCh, loop, hosts, owed, hubCh,
                   canonVars, changes>>

(* ReplaceHosts: snapshot, difference, commit.  No other producer writes     *)
(* hosts or sessions, so that the snapshot is still current.                 *)
ReplaceHosts ==
    /\ refresher.step = "hosts"
    /\ canonHosts' = Diffed(canonHosts, OnlineOf(refresher.read))
    /\ canonSessions' = SessionsOf(refresher.read)
    /\ refresher' = [step |-> "projected", read |-> NoHosts]
    /\ UNCHANGED <<tmuxVars, updater, cache, localCh, loop, hosts, owed, hubCh,
                   canonHealth, pruned, changes>>

(* GetHosts reads the registry a second time.                                *)
ReadHealth ==
    /\ refresher.step = "projected"
    /\ RegistryFree
    /\ refresher' = [step |-> "health", read |-> hosts]
    /\ UNCHANGED <<tmuxVars, updater, cache, localCh, loop, hosts, owed, hubCh,
                   canonVars, pruned, changes>>

syncFleetHealth ==
    /\ refresher.step = "health"
    /\ canonHealth' = Diffed(canonHealth, Evaluated(refresher.read))
    /\ refresher' = IdleRefresher
    /\ UNCHANGED <<tmuxVars, updater, cache, localCh, loop, hosts, owed, hubCh,
                   canonHosts, canonSessions, pruned, changes>>

Refresh == TakeHubEvent \/ ReadHosts \/ ReplaceHosts \/ ReadHealth \/ syncFleetHealth

-----------------------------------------------------------------------------
(* The local host is registered with no sessions, the projection is replaced *)
(* once before the server listens; then it subscribes.                       *)
HostInit ==
    /\ tmux \in SUBSET Sessions
    /\ connected = FALSE /\ refresh = FALSE
    /\ updater = [u \in Updaters |-> Idle]
    /\ cache = {}
    /\ localCh = 0 /\ hubCh = 0 /\ owed = 0 /\ changes = 0
    /\ loop = IdleLoop
    /\ hosts = [NoHosts EXCEPT ![Local] = [online |-> TRUE, sessions |-> {}]]
    /\ refresher = IdleRefresher
    /\ canonHosts = OnlineOf(hosts)
    /\ canonSessions = {}
    /\ canonHealth = Evaluated(hosts)
    /\ pruned = {}

LoopNext ==
    \/ TakeLocalEvent \/ GetSessions \/ StoreLocalHost \/ AnnounceLocalHost

PeerNext(r) ==
    PeerRegisters(r) \/ PeerReports(r) \/ PeerUnregisters(r) \/ PeerRevoked(r) \/ PruneOffline(r)

HostNext ==
    \/ TmuxChanges \/ ControlConnects \/ ControlDisconnects \/ DoRefresh
    \/ \E u \in Updaters : Discover(u) \/ UpdateSessions(u)
    \/ LoopNext \/ StatsTick
    \/ \E r \in Remotes : PeerNext(r)
    \/ AnnouncePeer
    \/ Refresh

HostSpec == HostInit /\ [][HostNext]_hostVars

(* Goroutines run, the poll's timer fires for ever, whoever waits for the    *)
(* registry's mutex gets it in the end (sync.RWMutex starves nobody), and    *)
(* select picks a waiting event in the end although the tick of the          *)
(* statistics is as often ready.  tmux, control mode and the peers need not  *)
(* do anything.                                                              *)
HostFairness ==
    /\ WF_hostVars(Refresh) /\ SF_hostVars(ReadHosts \/ ReadHealth)
    /\ WF_hostVars(LoopNext) /\ SF_hostVars(TakeLocalEvent)
    /\ WF_hostVars(AnnouncePeer)
    /\ WF_hostVars(Discover("poll"))
    /\ \A u \in Updaters : WF_hostVars(UpdateSessions(u))

HostFairSpec == HostSpec /\ HostFairness

-----------------------------------------------------------------------------
(* Nothing is announced, and nobody is about to read what was.               *)
HostsQuiet ==
    /\ owed = 0 /\ hubCh = 0
    /\ loop.step # "stored"
    /\ refresher.step = "idle"

(* Although a full channel drops events, none is needed twice: when nobody   *)
(* is on the way to the projection, browsers see each host as the registry   *)
(* has it, but for hosts pruned since, which nobody is told of (the drop in  *)
(* manager.go:186-195 of the peer registry, the reread in                    *)
(* server.go:192-207, pruneOffline at manager.go:603).                       *)
QuietMeansCurrent ==
    HostsQuiet =>
        /\ \A h \in Hosts \ pruned :
             /\ canonHosts[h] = OnlineOf(hosts)[h]
             /\ canonHealth[h] = Evaluated(hosts)[h]
        /\ \A hs \in Hosts \X Sessions :
             hs[1] \notin pruned => (hs \in canonSessions <=> hs \in SessionsOf(hosts))

(* What browsers see of the local host once tmux has settled.                *)
ShowsTmux ==
    /\ \A s \in Sessions : <<Local, s>> \in canonSessions <=> s \in tmux
    /\ canonHosts = OnlineOf(hosts)
    /\ canonHealth = Evaluated(hosts)

(* When tmux and the peers stop changing, the projection becomes what they   *)
(* are and stays so: a stale list stored late, a cancelled refresh, a        *)
(* dropped event and a pruned host are all repaired by the next poll         *)
(* (discovery.go:59, manager.go:76-114, server.go:192-207).                  *)
Settles == <>[]ShowsTmux
=============================================================================
