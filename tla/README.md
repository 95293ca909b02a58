# tmuxatlas: specifications

TLA+ specifications of tmuxatlas, model-checked with TLC and, where a property
matters for every size of the system, proved with TLAPS.

tmuxatlas is a hub with a web interface for the tmux sessions of several
hosts. Agents on the hosts keep a WebSocket to the hub; browsers keep another
one; the hub folds what it learns into one canonical state and streams it to
every open page.

## The system

| Part | Source | State it keeps | Operations |
| --- | --- | --- | --- |
| Canonical projection | `pkg/state/projection.go` | eight maps of stable keys | upsert, remove, set-metadata |
| State coordinator | `pkg/state/coordinator.go` | projection, revision, subscriber registry, one queue per subscriber | commit, snapshot, subscribe, unsubscribe, stop |
| State producers | `pkg/state/{projector,adapters,manager}.go`, `pkg/server/{fleet,host}.go` | local sessions, health | ReplaceHosts, ReplaceActivity, ApplyToolEvent, ClearToolEvents |
| WebSocket handler | `pkg/ws/hub.go` | one goroutine pair per connection | schema check, snapshot, forward, exit |
| Browser state provider | `web/src/state/*.ts[x]` | reducer state; controller with socket, timer, generation | open, message, close, timer, visibility |
| Peer registry and handler | `pkg/peer/{manager,handler}.go` | hosts, their current connection and generation | reserve, activate, unregister, revoke, prune, update |
| Peer connection, request tracker | `pkg/peer/{connection,request_tracker}.go` | send queue, pending requests | send, close, register, complete, fail all |
| Agent dispatcher | `pkg/peer/{dispatcher,action_router}.go` | outcomes per idempotency key | do, dispatch, route |
| Agent client | `pkg/peer/client.go` | current connection, backoff | connect, forward, disconnect |
| PTY relay, PTY manager | `pkg/peer/pty_*.go`, `pkg/ws/pty_terminal.go` | pending and bridged streams | register, complete, bridge, teardown |
| Tool events | `pkg/toolevents/*.go` | active event per host and pane | record, clear, promote, reconcile |
| Identity and pairing | `pkg/identity/*.go` | pairing codes, trusted peers on disk | generate, complete, add, remove |
| Passkeys and sessions | `pkg/auth/*.go` | credentials on disk, ceremonies | register, finish, delete, rotate |
| Self-update | `pkg/commands/update/*.go` | transaction journal, installed executable | stage, replace, verify, commit, recover |
| tmux client | `pkg/tmux/*.go` | the control client, its debounce timer, the poll | list, refresh, poll |
| Activity | `pkg/activity/tracker.go` | a ring of buckets per session | record, get |
| Web push | `pkg/webpush/*.go` | subscriptions in memory and on disk | add, remove, send |
| Preferences | `pkg/preferences/preferences.go` | one record in memory and on disk | get, update |
| Install command, service units | `pkg/commands/install/install.go` | service files, processes | install, uninstall |
| HTTP routing, ingress, CLI tools, web UI | the rest | little of their own | not modelled, see below |

How they interact: producers call `Coordinator.Commit`, which hands a command
to the one goroutine that owns the projection; that goroutine puts a delta in
the queue of every subscriber; each WebSocket handler moves messages from its
queue to its page; the page's reducer adds them up. Agents reach the hub
through the peer handler, which updates the registry, whose events drive the
producers. Requests for an agent travel the other way through the request
tracker, PTY bytes through the relay.

What is hard: the writer's fan-out interleaves with handlers that receive from
the same queues; queues and sockets are bounded; pages outlive hubs and hubs
outlive pages; connections break at any point and are replaced by newer ones
while the old one's messages are still being handled; requests are retried
after their outcome is lost; files are written between two crashes.

What makes each part correct:

- *state synchronisation*: a page shows a committed state, never an older one
  than before, and in the end the current one; one slow page harms nobody;
- *peer runtime*: at most one current connection per host, and only it
  changes what the hub knows of the host; a revoked peer stays out;
- *requests and actions*: every request is answered exactly once, a retried
  action is executed once;
- *PTY relay*: a stream has one owner and is closed when its owner is gone;
- *producers*: what browsers see of hosts and sessions is what the registry
  and tmux hold, although lists are taken by three goroutines and every event
  channel may drop;
- *tool events*: an agent that waits is shown to wait once its last report has
  arrived, whatever was lost before (that one which does not wait is not shown
  is not claimed, see "What the runs show");
- *pairing, passkeys, push subscriptions*: a code pays for one peer, the last
  passkey stays, and what was answered is what is on disk (with one exception,
  an unsubscription of which only the file knew);
- *preferences*: what one request alone has put is in the store, on the screens
  and in the file, whatever the requests before it left apart;
- *self-update*: after a crash the installed executable, the backup and the
  journal agree, and only the restarted service is believed to be healthy.

## Modules

| Module | What it models |
| --- | --- |
| `Projection` | the projection, batches of operations, their application; the order of committed states. Pure operators. |
| `RevisionedState` | the abstract specification: a growing, totally ordered set of committed states and pages that move forward among them |
| `StateSync` | the synchronisation protocol: coordinator, handlers, wires, pages |
| `StateSyncProofs` | type correctness of `StateSync`, its two inductive invariants, their consequences, the refinement |
| `PeerRegistry` | the hub's registry of agents and the handlers of their connections, from authentication to cleanup, with revocation |
| `PeerRegistryProofs` | type correctness, the inductive invariant of `PeerRegistry`, its consequences |
| `PeerRequests` | actions on remote sessions: router, request tracker, connection and its closing, the agent that executes |
| `PeerRequestsProofs` | type correctness, the inductive invariant on the outcomes of calls, its consequences |
| `HostProjection` | from tmux and the registry of peers to the hosts, sessions and health that browsers see |
| `HostProjectionProofs` | type correctness, the inductive invariant of `HostProjection`, what it says of a quiet system |
| `ServiceUnits` | the service files and processes of one machine, install and uninstall, which service the updater finds |
| `UpdateTransaction` | the self-update: journal, backup, replacement, health wait, recovery, rollback; extends `ServiceUnits` |
| `UpdateTransactionProofs` | type correctness, the inductive invariant of the update, its consequences |
| `ToolEvents` | the agents in the panes of one host: tracker, reconciler, detector, silence monitor, promoter, dismissal, projection |
| `ActivityRing` | the ring of buckets behind a session's sparkline |
| `Passkeys`, `PasskeysProofs` | the passkey store, ceremonies, bootstrap token and sessions; the invariant |
| `Pairing`, `PairingProofs` | one-time codes, the pairing request, the two peer stores; the invariant |
| `HubSettings` | push subscriptions and preferences |
| `Terminals` | a terminal of a remote host: the browser's request, the relay, the closing of the control connection, the agent's tmux client |
| `OutcomeCache` | the outcomes an agent remembers, for requests that arrive again |
| `MCHubParts` | `ToolEvents`, `ActivityRing`, `Passkeys`, `Pairing`, `HubSettings`, `Terminals` and `OutcomeCache` in one specification |
| `HubPartsProofs` | the inductive invariants of `ToolEvents`, `ActivityRing`, `HubSettings`, `Terminals` and `OutcomeCache`, their consequences, and what all seven parts say together |
| `MCStateSync`, `MCPeerRegistry`, `MCPeerRequests`, `MCHostProjection`, `MCUpdateTransaction` | values of the constants for TLC |

The seven parts of `MCHubParts` have no variable in common. Five share a
process and nothing else. The other two meet `PeerRequests` in the control
connection: `Terminals` has its closing again, with the list of terminals in
place of the requests, and `OutcomeCache` is what `PeerRequests` needs only
for a request ID that arrives twice. Their interleavings would say
nothing that one part alone does not say, so a behaviour moves one part,
chosen in the initial state (`part`), and every state of each part is reached
without the product of all of them.

`PeerRequests` contains a reduction of `PeerRegistry` (one agent, the current
connection only) because the two meet in the closing of connections: the
registry decides who closes which connection and with which error, and that
error is the answer of every call that waits on it. The operators introduced
as defects, in the modules of the code, are the wrong versions that the
properties were tried against; no action of a specification uses them.

### StateSync and the code

The state of the coordinator is that of `run` (coordinator.go:190-257):
`projection`, `revision`, `subscribers`; a hub process is numbered by
`instance`, which stands for its random instance ID. Commands are atomic
because one goroutine runs them, except the commit: the loop over the
subscribers is `fanout`, one step per subscriber, and the draining of a full
queue is `overflowed` with `receiving` between the test `len(sub.ch) > 0` and
the receive. While a commit is under way no other command runs
(`WriterReady`).

A connection `c` has the queue of its subscription, the position of its
handler (`dialing`, `opened`, `serving`, `leaving`, `none`) and its `wire`:
whatever the handler has taken from the queue and the page has not handled
yet, so a full wire is a handler blocked in a write. `alive` is the network
path together with the browser's end.

A page has the reducer's state (`view`, `status`), the controller's
(`socket`, `timer`, `synced` for `hasReadySnapshot`), `hidden` and the schema
its frontend was built for. JavaScript runs a handler and the microtasks it
queued to completion, so each browser event is one action; the rehydration a
gap queues as a microtask is part of `OnGap`. A socket the controller has
dropped is detached and closed (connection.ts:153-171, 193-202), hence
delivers nothing, and the generation counter that guards against it is not
modelled. The reconnect delay is not modelled: a pending timer may fire at any
time. `committed` is a history variable.

Keys, values and batches are model values: the eight maps of the Go struct
have keys of different shapes and behave as one map. Validation failures
reject a batch as a whole (coordinator.go:276-283) and change nothing.

### PeerRegistry and the code

`hosts`, `generations` and `store` are the fields of `Manager`, all guarded by
its mutex: an action is one critical section, and what the code does between
two critical sections is a value of `phase` (the position of a handler in
`HandlePeer`, handler.go:80-216). `previous` and `revoked` hold the
connections somebody has taken out of the registry and has still to close, the
part of `activatePeerLocked` and `RevokePeer` after the unlock. A message is
checked by `IsCurrent` when it is received and applied later, one report after
the other (`writes`); `reported` is a history of who wrote each part of an
entry last. `closed` and `net` are the two ends of `CloseWith`, which is one
step here.

The peer store is its set of keys. A handshake that fails before a generation
is reserved and one that fails after it both end the handler; the counter is
never given back.

### PeerRequests and the code

A call of `ActionRouter.Execute` is a request with a position `pc`: looked up,
registered, sent, waiting, waiting for an outcome somebody else owes it
(`draining`), answered. `outcome` is its channel of capacity one, `pending` the
map of the tracker. `CloseWith` is taken apart (`closing`): the flag, the
removal of all entries under the lock, the answers one by one, the socket;
everything else runs in between. A connection is its generation. `Start` waits
for the end of the previous connection's `CloseWith`, as `conn.Start()` does
behind `previous.Close()`; requests may already queue up in the new connection
by then.

The agent starts a goroutine per request (`task`), which reads the dispatcher
of the connection negotiated last but answers on its own. `effect` is what
tmux did. The acknowledgement is written after the execution, as in
`handleRuntimeRequest`, where `Dispatch` returns both. The outcome cache has
a module of its own: here every request has a fresh ID, as in the router.
`Negotiate` installs the dispatcher in one step with the hub's acceptance of the
connection; in the code the hub may use the connection before the agent has read
the acknowledgement. An agent dials again only when it has left its connection,
so the refusal of a stale generation is written to a connection that is gone and
no property of the hub depends on it.
The deadline is compared with the agent's clock, which need not agree with the
hub's, so the agent may call any request late.

### HostProjection and the code

Three goroutines list tmux: the poll (`Discovery`), the debounced refresh of
control mode, and an action's handler; `Updaters` names them. Each takes its
list (`Discover`, `DoRefresh`) and later stores it in `state.Manager` with
`UpdateSessions`, whose comparison, whose announcements with the mutex
released, whose assignment and whose final event are steps of their own, so a
stale list may be stored last. `localCh` is the peer manager's subscription,
counted, because the loop ignores what an event says and lists tmux again
(`GetSessions`); `hubCh` is the server's, for the same reason. Both have a
capacity and drop what does not fit, as the `select` with `default` does. The
loop holds the registry's mutex while it lists (`RegistryFree`); peers'
handlers change an entry under the mutex and announce it afterwards (`owed`).
The server's goroutine reads the registry twice, once for `ReplaceHosts` and
once for the health. The difference of two maps (`appendMapDiff`) is
`Diffed`. Windows, panes and statistics are values inside the records and do
not change which steps are taken.

### UpdateTransaction, ServiceUnits and the code

`pc` is the updater's position in `execute` (update.go) and in the functions of
transaction.go it calls; a step is one change of a file or one call of the
service manager, and `Ends` may follow any of them: the process is killed, or
the step after it fails and the error is returned. A file is the release it
holds. The journal is replaced whole (`save`). `Offers` is whatever a release
server may deliver, the signature of a workflow being the only thing it cannot
make up. `unit` holds each service file's role and its process; `Machine` lets
the operator install, remove, start and stop services meanwhile. The two
service files and which of them a mode writes or stops are those of install.go
on each platform. `self`, the running updater's own release, becomes the
journal's previous version, as `common.SUMMARY` does. `accepted` and `before`
are histories.

### The parts of MCHubParts and the code

*ToolEvents.* `Record` is the part of `Tracker.Record` under the mutex,
`Broadcast` the part after it, so two threads' events may overtake each other.
The channel drops. Waiting and error, which are kept alike, are one status. Which
panes have been silent, which captures show a prompt and which entries are
older than a day are choices. The keys keep whether the host was filled in,
because the reconciler, the detector and the hooks differ in it. A capture that
looks like a prompt is taken for the agent's whatever runs in the pane by then.
`excused` is a history of the panes whose last report went astray: it was
dropped or overtaken, a dismissal overlapped it, or the reconciler took the agent
for dead with an event that has no host, which leaves the tracker's entry where
it was. The pane's next report with a host ends that, so what went wrong before
it is no excuse.

*ActivityRing.* Time is the number of the bucket. `Record` reads the clock
before it takes the session's mutex (`ReadClock`, `CountOutput`).

*Passkeys.* `memory` and `file` hold the label of each credential. A request is
a `handler` that moves from the check of its authority over its ceremony,
WebAuthn's verification and the store to its answer, each under its own mutex.
What nobody was told of yet is `Unknown` in the history `promised`.

*Pairing.* `completing` is the holder of the code manager's mutex during
`Complete`, whose commit writes the store's file and then its memory. The
agent's command waits, stores the hub, and saves its URL; the answer may be
lost at any time. Two agents may have one name. An operator may remove a peer
while the hub is down; that such a removal meets a hub which is starting, each
with its own copy of the file, is not modelled.

*HubSettings.* The subscriptions' file is replaced by a rename; a write may
fail before it or after it. `told` is a history of the answers, those to
unsubscriptions of an endpoint that memory does not have included; `returning`
keeps those of them at which the file had the endpoint all the same. The
preferences' file is written in place and may
be torn by a failure or a crash. A hub that could not read it has `NoStore`.
`disturbed` is a history of the last writers: they overlapped, or one of them
failed. A writer that finds nobody between store and projection, and does not
fail, ends that.

### Terminals and OutcomeCache and the code

A stream of `Terminals` is one call of `handleRemoteSession` (`viewer`). Every
step between two mutexes is an action: `ownPTY` tests `closed` under one and
adds under another (`TestOpen`, `OwnPTY`), `RegisterPending` follows, and only
then is the agent asked. `Teardown` is taken apart at its four critical
sections, `CloseWith` at the flag, the context, the list and the wait.
`Cancelled` is the stream's context, which is derived from the connection's.
`peerWS` is both ends of the data channel: when one closes, the other's next
read or write fails. The agent's `Open` (`opening`) is a goroutine that goes
on when the control connection is lost; `CloseAll` ends only what it finds
registered. The payload, the sequence numbers of its frames and resizing are
left out, and so are streams of other tokens: an attachment whose token,
identity, session or generation does not match ends like a late one. The
agent's request names the generation it was asked in.

`OutcomeCache` numbers goroutines by their entry into `Do`. Its lock is held
from the sweep to the decision (`Dispatch`), not during the execution
(`Execute` is its end). An entry is the execution it belongs to; a goroutine
that joined one keeps it (`joined`) when the table has forgotten it. Of the
validation in front of it only the deadline is kept, the rest is in
`PeerRequests`.

## Runs

Every run but `hosts` has `CHECK_DEADLOCK FALSE`, because revisions, instances and
faults are bounded: once they are used up a quiet system has nothing to do. In
`hosts` the poll never stops.

| Run | Instance | Checks |
| --- | --- | --- |
| `state_overflow` | 1 page, 2 connections, 2 keys, queue 2, 4 commits, 1 fault | `ShowsCommitted`, `ReadyFollowsHub`, `IInv` |
| `state_live` | 1 page, 2 connections, queue 1, 3 hub processes, 2 commits, 1 fault, new schema at a restart | `ReconnectDiscipline`, `NeverBackwards`, `ImplementsRevisionedState`, `ReloadRequested`, `Converges`, `SubscriptionsReleased` |
| `state_writer` | 1 page, 2 connections, queue 2, 4 commits | `SlowSubscriberCannotBlockWriter`: violated |
| `registry` | 1 peer, 2 connections, 1 new pairing | `RevokedStaysOut`, `NoOrphans`, `OnlineIsServed`, `IInv`, `DisplacedOnlyByNewer`, `OfflineNoticed`, `StaleEnds` |
| `registry_reports` | 1 peer, 2 connections | `ReportedByCurrent`: violated |
| `requests_queue` | 2 calls, 1 connection, queue 1, 2 processes of the agent | `SuccessMeansExecuted`, `RefusedMeansNotExecuted`, `NothingLeftPending`, `ClosedLeavesNobodyWaiting`, `OneOutcome`, `IInv` |
| `requests_live` | 1 call, 2 connections, 1 process | `EveryCallAnswered` |
| `requests_crash` | 1 call, 2 connections, 2 processes | `CrashEndsUnknown`: violated |
| `hosts` | 1 session, 1 agent, poll and control mode, channels of 1, 2 changes | `HostTypeOK`, `QuietMeansCurrent`, `Settles` |
| `update` | 2 releases, one of them broken, hub and agent, both platforms | `TypeOK`, `JournalMatchesFiles`, `HealthIsOfTheService`, `InterruptedIsSettled` |
| `update_backup` | the same | `BackupOnlyOverAccepted`: violated |
| `hub_parts` | 1 pane with 2 tools; ring of 3; 2 passkeys, 2 browsers, 3 ceremonies; 3 agents, 2 codes; 2 subscriptions, 2 writers of 3 preferences; 1 stream; 3 arrivals of 2 requests, cache of 1; 2 faults | `TypeOK`, `WaitingIsShown`, `SparklineIsHistory`, `AnswersSurvive`, `KeepsAPasskey`, `CodePaysForPeer`, `PreferencesShown`, `AttachedHasOwner`, `ClosedEndsTerminals`, `RetriesAreSafe` |

`IInv` includes the type correctness of its module.

The bounds: a queue of two with a wire of one overflows at the fourth commit
and leaves room for a message to be received in the middle of the drain, the
only way a page meets a gap; a queue of one overflows sooner and keeps the
liveness runs small. Two connections per page are an old and a new one;
a third adds nothing, since a page leaves one before it dials the next. Three
processes let a page skip one. In the registry two connections are an old one
and its successor, in either order of their handshakes; there is one
peer because peers touch each other in nothing, which the proofs confirm for
any number. Two calls fill a queue of one and can be failed together by one
`FailAll`; what one call sees of its connections needs two of them and, for
the crash, two processes. In `hosts` a channel of one drops at the second
event, two changes are one that is listed and one that is missed, and one
session is enough for a stale list to differ. Two releases are the installed
and the offered one, in either role after the first update. In `hub_parts` one
pane has all the events that can overtake each other, as the tracker keeps
panes apart; the ring is outrun, and exactly filled, by a clock of six; a
passkey beside the last one is what deletions race for; three agents are two
with one name and one without, and two codes let one replace the other. Streams
meet only in the connection's list, which is taken as a whole, so one stream
has every order of its parties (with two, 4 968 330 states, the same holds).
Three arrivals are a request, its retry and one that needs the place of the
first; the clock runs past the deadline and the outcome of both. The run has one
constraint, `FollowedExcused`: a pane whose last report went astray is followed
while its agent may still report and no dismissal, reconciliation or detection
is at work. Without it `ToolEvents` has 2 145 763 states, in which `WaitingIsShown`
holds as well, and the proof has no such bound.

### What the runs show

`state_writer` is a counterexample. The overflow branch
(coordinator.go:218-220) tests the length of the queue and then receives, and
the handler of that queue may take the last message in between; the receive
then waits for a message only the waiting goroutine could send. From then on
nothing is committed and nobody can subscribe. The specification
(openspec/specs/revisioned-state-sync/spec.md:20-22) promises the opposite.
Liveness is therefore stated up to `WriterBlocked`.

The other runs show that with this exception the protocol does what it
promises: overflow, restarts, lost connections, hidden pages and schema
changes never make a page show a state that was not committed, go back, or
stay behind.

`registry_reports` is a counterexample in the registry. A handler checks that
it is current, is replaced, and then writes what it read into the entry of the
newer connection, because the updates go by peer ID alone. It does not disturb
the rest: no connection is
forgotten open, an old handler's cleanup never takes a newer connection
offline, a revoked peer never comes back by a handshake that had already begun.

`requests_crash` shows that the promise of `execution-unknown` after a crash of
the agent depends on the order of two events: the hub's handler usually reads
the end of the broken connection before the new process has negotiated, and
closes it with `peer-offline`. That answer says nothing of the execution, which
may have happened. The other runs show that every call has one answer, that
nobody is left waiting on a closed connection, that success is reported only of
what was executed and that a refusal is final.

`hosts` shows that nothing is lost by dropping events from a full channel, as
each event only asks for a new reading, and that stale lists, a cancelled
refresh and a failed listing are repaired by the next poll.

`update_backup` is a counterexample in the updater. The executable is replaced
while the journal still says `staged`; an updater that ends there is taken by
the next one for one that replaced nothing, and that one backs the unproven
release up over the last one known to work. `update` shows what does hold: once
the journal records the replacement the backup is what was replaced, a health
wait succeeds only for the very service that was restarted, and an interrupted
transaction that has a backup is settled by a later invocation.

`hub_parts` shows that what was answered of a passkey and of a pairing is kept by
memory and file, also across failures of other requests that were under way, and
so is a push subscription that was confirmed. One that was reported gone is gone,
with one exception: after a subscription that failed when its file had been
replaced already, the file has an endpoint that memory does not, and an
unsubscription is answered from memory. `AnswersSurvive` excepts just those
endpoints (`returning`); what becomes of them is described below.

It shows that reports of an agent which are dropped, overtaken, dismissed or
cleared do no lasting harm: when the pane's next report has arrived in order,
browsers are shown what the tracker holds as waiting. Until then they may not be,
and nothing but a report repairs it. The other direction is not claimed. A tool
is shown until an event of the same tool in the same pane removes it: one that
the tracker forgot after a day, or whose pane another tool took over, stays, since
the reconciler looks only at the tracker.

It shows that requests for preferences which overlap, fail or break off leave
store, projection and file apart only until the next one that is alone. And the
sparkline is the history of the output.

It also shows that a terminal that is added to a connection in the middle of
its closing comes to nothing: the connection no longer tears it down, but the
agent can no longer be asked for it either, and its own handler does. Whoever
tears a stream down, the data channel is closed, and with it the agent's tmux
client. And a request that arrives again is executed once, under an assumption
on its deadline (`OutcomeCacheAssumption`): it passes before the outcome is
forgotten. The router's ten seconds and the default retention of five minutes
satisfy it, as long as the two clocks agree to within the difference.

### Read in the code, without a run of its own

- A preferences file torn by a crash (preferences.go:132 writes in place) is
  never repaired: `NewStore` fails, the server goes on without a store
  (commands/server/server.go:184-189), `PUT` answers 503, and the push sender,
  given a nil store inside an interface, panics at its first event
  (sender.go:128). `SenderPanics` is that step.
- Requests that put preferences are not serialised over store and projection
  (server.go:649-654), so two that overlap may leave the store with one value and
  the browsers with the other, and `Update` changes the store even when the file
  cannot be written and the request is refused (preferences.go:148-150). Both last
  until the next request or restart; meanwhile the sender's notifications
  and the browsers' go by different statuses, against
  openspec/specs/progressive-web-app/spec.md:128-129.
- A subscription whose write fails after the rename (subscriptions.go:168-179) is
  refused and is in the file. An unsubscription then finds nothing in memory,
  leaves the file alone and is answered with success (subscriptions.go:96-98,
  server.go:620-624). The next start of the hub loads the endpoint and notifies it
  again, against openspec/specs/progressive-web-app/spec.md:110-114. The model has
  these steps; `AnswersSurvive` with `returning` left out is violated by them.
- The sender removes a subscription whose endpoint is gone only when the send
  also returned an error (sender.go:107-115); an endpoint that answers 410 is
  kept.
- The reconciler's completed events carry no host (reconciler.go:112), so the
  tracker's entry stays and is reported again on every pass; the detector looks
  entries up without a host (detector.go:127-134) and skips none. The promoter
  records what it took out earlier, whatever happened meanwhile
  (tracker.go:268-295).
- A registration whose save fails leaves the passkey in memory
  (passkey.go:257-260), where the next login saves it.
- An agent whose pairing answer was lost is known to the hub; a new attempt
  conflicts until the operator removes it. After a revocation the agent's own
  store still has the hub and refuses to pair again.
- A stream whose connection takes it to be torn down between `ownPTY`
  (pty_relay.go:79) and the entry into `pending` (pty_relay.go:83-85) stays
  there: `once` has run, so neither the timer nor its handler removes it.
  Nothing can attach to it (`ClosedEndsTerminals` says so), but its entry is
  never freed, against openspec/specs/peer-runtime-protocol/spec.md:66-67.
- `TMUXATLAS_PEER_OUTCOME_TTL` may be any positive duration
  (dispatcher.go:49). Below the router's timeout a request can be executed
  twice. `resource-exhausted` is the answer both of a full cache, which executed
  nothing, and of an execution whose result was too large
  (dispatcher.go:124, 134).
- `pruneOffline` announces nothing (manager.go:603): browsers keep the host
  until some other event.
- `--rollback` when nothing was backed up leaves the journal at rolling-back.

## Fairness

`Fairness` is weak fairness of the writer's fan-out, of each handler and of
each page's event loop: goroutines and browser tasks that stay runnable run.
Nothing is assumed of commits, restarts, reloads, faults or visibility
changes. A lost connection is assumed to be noticed in the end by both
sides: the hub's read deadline of 45 seconds guarantees it there
(hub.go:323-327); the browser sends no heartbeat and depends on its TCP stack.

In `PeerRegistry` handlers that are runnable run. `ReadFails` has strong
fairness: a handler that still has buffered messages of a lost connection may
read those first, but they are finitely many. In `PeerRequests` each goroutine
(call, writer, closer, handler, task, read loop of the agent) is weakly fair as
a whole; a message of a lost connection need not arrive, tmux answers, and
nothing is assumed of deadlines, so `EveryCallAnswered` rests on the agent or on
the end of the connection. Reconnection is never assumed.

In `HostProjection` (`HostFairness`) the poll's timer fires for ever and each
goroutine runs. Reading the registry is strongly fair, because a `RWMutex`
starves no reader, and so is taking an event, because Go's `select` picks among
the ready cases at random and the tick of the statistics is only one of them.
tmux, control mode, the peers and an action's handler owe nothing.

`UpdateTransaction` has no fairness: `InterruptedIsSettled` names what it
assumes, that the operator goes on invoking the updater and that its steps stop
failing in the end.

## Proofs

Every safety property and every action property the passing runs check is
proved; what is only model-checked is liveness. A theorem of this section holds
for every value of the constants that satisfies the assumptions named with it:
every set of pages, peers, calls, panes and so on, every capacity and every
bound of the counters. The assumptions fix that a model value which stands for
"none" is none of the values it stands beside, that sizes and bounds are numbers
and that a channel or cache has room for one; those that say more are named
below.

State synchronisation (`StateSyncProofs`), under `ProjectionAssumption` and
`StateSyncAssumption`:

- `TypeCorrect`: `Spec => []TypeOK`.
- `HistoryInvariance`: `Spec => []HistoryInv`. `ShowsCommitted` is not
  inductive: a delta applied to a committed state gives a committed state only
  if the delta was made from that state, so `HistoryInv` says of every envelope
  in flight that it is genuine: a snapshot is a committed state, a delta leads
  from the committed state at its base to the one at its revision, and there is
  only one state per instance and revision (`CommittedHistory`). For
  `NeverBackwards` one must know that the snapshot a page waits for is not older
  than what it shows. That holds when the snapshot is taken, because the hub's
  state is the latest, and stays true because the snapshot is the first envelope
  of its connection (`SnapshotFirst`), so the page moves nowhere in the meantime
  (`SnapshotAwaited`).
- `PagesShowCommitted`, `PagesNeverGoBack`, and `Implementation`
  (`Spec => RS!AbsSpec`) follow from it. In the refinement a commit or a
  restart is `AbsCommit`, a snapshot or delta `AbsAdvance`, loading the page
  `AbsReload`, everything else stutters.
- `ControllerDiscipline`: `ReconnectDiscipline` is inductive given `TypeOK`.
- `Invariance` (`Spec => []IInv`) and `ReadyPagesFollow`. That a ready page
  misses nothing is a statement on three places at once: what a live
  subscription has on its wire, in its queue and still to come from the fan-out
  under way. `Streams` numbers them: the i-th message brings the page to the
  hub's revision less the number of those behind it, and `Followed` says the
  page is where they begin. This breaks at an overflow, a lost connection and a
  cancelled subscription, so it is claimed of live subscriptions only, and
  `Subscriptions` says that one whom the writer has cut has the resync message
  and nothing else in its queue. `Readiness` closes two gaps between page and
  connection: no two pages share one, and a page that is sent its snapshot is
  not ready yet.

The registry (`PeerRegistryProofs`), under `PeerRegistryAssumption`:

- `TypeCorrect` and `Invariance` (`Spec => []IInv`). None of the properties is
  inductive alone. That a current connection's handler is still serving
  (`OnlineIsServed`) is disturbed by the cleanup of another connection with the
  same generation, so generations must be unique per peer
  (`GenerationsUnique`), which in turn needs that none is above the peer's
  counter. `NoOrphans` needs both to know that the connection a newcomer finds
  in the registry is the only open one.
- `RevocationHolds`, `NobodyForgotten`, `OnlinePeersServed` and
  `OnlyNewerDisplaces` follow; the last is an action property and needs the
  invariant in its first state.

The requests (`PeerRequestsProofs`), under `PeerRequestsAssumption`:

- `TypeCorrect` and `Invariance`. `IInv` says who owes a call its outcome:
  while it waits, exactly one of the tracker's entry (`pending`), a `FailAll`
  that has removed the entry (`failing`) and its channel (`Owed`, `Awaited`).
  `ClosedLeavesNobodyWaiting` is not inductive because calls register on
  connections that are already closed; `Emptied` says that after `FailAll` only
  calls that have not yet tried to send are in the tracker, and those will see
  the flag. The second half of `IInv` follows a request through hub, network and
  agent: it is in one place at a time (`Travels`), nothing has an effect before
  a task runs it (`Works`), and what the agent's answers, the outcome and the
  caller's answer say is so (`Replied`, `Reported`). A refusal is the harder
  case: it must exclude an execution that is still to come, so `NeverExecuted`
  says of a call that was refused that no copy of it is left to be taken.
- `AnsweredOnce`, `NothingLeft`, `NobodyWaitsOnClosed`, `SuccessIsTrue` and
  `RefusalIsFinal` follow.

The projection of hosts (`HostProjectionProofs`), under
`HostProjectionAssumption`:

- `HostInvariance`. A dropped event is harmless only if another is on its way
  that will do as well. `HostInv` says so: either somebody still has to tell the
  server's goroutine, or it is about to read (`Pending`), or each thing that was
  read and not yet replaced, and each thing that was replaced, is what the
  registry holds (`Current`). The two readings of the registry are covered by
  making `Current` depend on the position of that goroutine; a change between
  them makes the state `Pending` again.
- `HostTypes` and `QuietIsCurrent` follow.

The update (`UpdateTransactionProofs`), under `UpdateAssumption` and
`ServiceUnitsAssumption`:

- `TypeCorrect` and `Invariance`. `JournalMatchesFiles` is not inductive: that
  the executable is the journal's target rests on what was verified before it
  was staged, and on the updater's own copy of the transaction, which is ahead
  of the journal by one phase (`UpdaterMatches`).
- `RollbackIsPossible` and `HealthIsBelievedRightly`. The second, an action
  property, needs `ServiceMatches`: the two services never run in each other's
  role, so an answer with the right role comes from the service asked for, and
  its process was started from what is installed.

The parts of the hub. Each has its own specification and its own assumption;
pairing and passkeys are proved in `PairingProofs` and `PasskeysProofs`, the
others in `HubPartsProofs`.

- *Pairing.* `PairInvariance`: what a code has added depends on what became of
  it (`Payments`), and the moment between the store and the code's removal is
  covered by the mutex (`Completion`). `CodesPayForPeers` and
  `ReportedArePaired` follow.
- *Passkeys*, for every finite set of credentials. `PasskeyInvariance`: what was
  answered survives only if what is about to be answered is true
  (`AnswersAgree`), and that a registration leaves a passkey for good needs that
  whoever is about to answer leaves one behind (`Kept`). `APasskeyIsKept` and
  `AnswersHold` follow.
- *Tool events.* `ToolInvariance`: what the tracker holds of a pane whose last
  report did not go astray is on its way to the projection with nothing newer
  behind it (`Newest`), or nothing is on
  the way and it is what browsers are shown (`Told`). A report makes it so from
  any state, which is why losses before it are no exception. A pane's events may be in
  the broadcasts and in the channel at once, so `Newest` speaks of the last in
  either. `Keyed` is needed because the tracker's key says whether the host was
  filled in and the projection's does not. `WaitingShown` follows.
- *Activity.* `RingInvariance`: the ring, read from behind its head, is the
  history (`Shows`), and nothing has been counted after the head's time, without
  which an advance over an old bucket would be a loss. The case of an advance by
  more than the ring's size is that of every slot cleared. `SparklineShowsHistory`
  follows.
- *Preferences and push subscriptions.* `SettingsInvariance`: a writer between
  the store and the projection carries what the store holds and is alone, unless
  writers have overlapped or one has failed, and without either the store is what
  the file would load (`Putting`); a lone writer establishes this from any state.
  `Said` relates the answers on subscriptions to memory and file. That the two
  agree between two requests is not part of it, since a failed write may leave
  the file ahead. `SubscriptionsAreKept` and `BrowsersSeePreferences` follow, the
  first with the exception of `returning`.
- *Terminals.* `TerminalInvariance`: every stream whose agent was asked is in the
  list the closing connection will find, among those it has taken, or has
  released itself (`Accounted`); an open data channel is being matched or is one
  a teardown will find (`Attachments`); and a stream that is torn down before the agent was asked is
  so by the connection (`Beginnings`). `DataChannelsHaveOwners` and
  `ClosingEndsTerminals` follow.
- *Outcomes.* `OutcomeInvariance`: a request has at most one executor, counted by
  `executions` (`Executors`). It is forgotten only after its deadline, because a
  deadline is never further away than the retention (`Deadlines`), and whoever
  joined it answers with its outcome (`Hearsay`). `RetriesSafe` follows. This is
  where `OutcomeCacheAssumption` says more than its types, see above.
- *Together* (`MCHubParts`). `PartsAreThere`: a behaviour of the composed
  specification is one of each part, since a step of one part leaves the others'
  variables alone; so every theorem on a part holds of what the run explores.
  `PartsTypes` (the types of all parts; `TypeOK`, which the run checks, speaks of the
  part that moves) and `AnswersAreKept` (`AnswersSurvive`, which relates
  passkeys, pairing and push subscriptions) are stated for it.

TLC looked for states that violate `HostInv` and the invariants of the parts on
the instances of their runs before they were proved; `IInv` of `StateSync`,
`PeerRegistry` and `PeerRequests` are invariants of runs.

Only model-checked: `Converges`, `ReloadRequested`, `SubscriptionsReleased`,
`OfflineNoticed`, `StaleEnds`, `EveryCallAnswered`, `InterruptedIsSettled` and
`Settles`. All are liveness properties under fairness, for which one would have
to reason about ENABLED, and that is out of the prover's reach. For the same reason there
is no proof that the system never deadlocks where it may not. The counterexamples of
`state_writer`, `registry_reports`, `requests_crash` and `update_backup` are
TLC's. What a fold over a batch of operations computes is used in the proofs as a
function of state and batch; that it is what a loop over the batch computes
would be an induction over data, which the provers cannot do here.

## Plan

What would come next, in this order:

1. The safety halves of the liveness properties: an invariant that in every
   state in which a page is not in sync, or a call is not answered, or the
   projection is behind, a named goroutine has something to do. These are state
   predicates and can be proved where ENABLED cannot.
2. That `PeerRequests` implements a registry of calls that are answered at most
   once, as an abstract specification, with the refinement proved.
3. That the agent's tmux client ends in the end when its control connection
   does, under the fairness of the goroutines.
4. Tool events that an agent forwards to the hub, which are lost while the
   connection is down.

## Not modelled

- The bytes of terminals, the sequence numbers of their frames and resizing,
  the terminals of the hub's own host, and the page's side of a terminal.
- Key material, fingerprints, WebAuthn's verification, cookies, origin checks,
  rate limits, ingress policy: pure functions of a request, or cryptography.
- Delivery of push messages, release downloads and signatures: external.
- Statistics of the machine, prompt parsing, the parsing of tmux's output:
  sampling and text; their results are choices.
- HTTP routing, command-line tools that print or edit configuration, the
  rendering of the web interface.
