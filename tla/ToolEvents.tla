------------------------------ MODULE ToolEvents ------------------------------
(***************************************************************************)
(* What the agents in the panes of one host report, and what browsers are  *)
(* told of it (pkg/toolevents, pkg/state/adapters.go, pkg/server).  Hooks, *)
(* the reconciler, the detector, the silence monitor and the inactivity    *)
(* promoter record events in the tracker; each record first updates the    *)
(* tracker's maps under its mutex and then, with the mutex released,       *)
(* broadcasts to channels that drop what does not fit.  The server applies *)
(* what arrives to the canonical projection.                               *)
(***************************************************************************)
EXTENDS Integers, Sequences, SequencesExt

CONSTANTS
    Panes,          \* panes of the host
    Tools,          \* the agents that can run in a pane
    Claude,         \* the tool that the silence monitor leaves alone
    NativeWaiting,  \* tools whose hooks say when they wait
    Nobody,         \* no agent runs in the pane: a shell, or no pane
    NoEvent,        \* the map has no entry
    MaxChecks,      \* captures of a silent pane, 2 in the code
    ChannelCap,     \* the size of a subscription's channel, 64 in the code
    MaxUnsent,      \* bound: records between the mutex and the broadcast
    MaxTurns        \* bound: what agents do, and failures of tmux

ASSUME ToolEventsAssumption ==
    /\ Claude \in NativeWaiting /\ NativeWaiting \subseteq Tools
    /\ Nobody \notin Tools
    /\ MaxChecks \in Nat /\ ChannelCap \in Nat \ {0} /\ MaxUnsent \in Nat \ {0} /\ MaxTurns \in Nat

VARIABLES
    agentIn,        \* the agent in each pane
    events,         \* Tracker.events
    lastActive,     \* Tracker.lastActive
    unsent,         \* records made and not yet broadcast, oldest first
    channel,        \* the server's subscription
    shown,          \* the tool events of the canonical projection
    reconciling,    \* events the reconciler has still to look at
    detecting,      \* the detector's pass: panes to look at, agents found
    seen,           \* Detector.seen
    monitored,      \* SilenceMonitor.monitored
    checking,       \* panes the silence monitor has still to capture
    prompting,      \* panes with a prompt recorded and not yet marked so
    promoting,      \* entries the promoter took out of lastActive
    dismissing,     \* panes dismissed in the tracker, not yet for browsers
    excused,        \* history: panes whose last report was not delivered in order
    turns           \* counts what agents do and the failures of tmux

recordVars == <<events, lastActive, unsent, excused>>
shownVars == <<channel, shown>>
workVars == <<reconciling, detecting, seen, monitored, checking, prompting, promoting>>
toolVars == <<agentIn, recordVars, shownVars, workVars, dismissing, turns>>

(* "waiting" stands for the two statuses that are kept, waiting and error.   *)
Statuses == {"active", "waiting", "completed"}

(* The host is the local one, or was left out by who made the event.         *)
Event == [tool : Tools, status : Statuses, host : {"local", "unset"},
          pane : Panes, auto : BOOLEAN]
PaneKeys == {"local", "unset"} \X Panes
KeyOf(e) == <<e.host, e.pane>>

Threads == Panes \cup {"reconciler", "detector", "silence", "promoter"}
Monitored == [tool : Tools, prompted : BOOLEAN, checks : 0 .. MaxChecks]
Shown == [status : Statuses, auto : BOOLEAN]

ToolTypeOK ==
    /\ agentIn \in [Panes -> Tools \cup {Nobody}]
    /\ events \in [PaneKeys -> Event \cup {NoEvent}]
    /\ lastActive \in [PaneKeys -> Event \cup {NoEvent}]
    /\ unsent \in Seq([by : Threads, event : Event]) /\ Len(unsent) <= MaxUnsent
    /\ channel \in Seq(Event) /\ Len(channel) <= ChannelCap
    /\ shown \in [Panes \X Tools -> Shown \cup {NoEvent}]
    /\ reconciling \subseteq Event /\ promoting \subseteq Event
    /\ detecting \in [todo : SUBSET Panes, skip : SUBSET Panes, found : SUBSET Panes,
                      on : BOOLEAN]
    /\ seen \in [Panes -> Tools \cup {Nobody}]
    /\ monitored \in [Panes -> Monitored \cup {NoEvent}]
    /\ checking \subseteq Panes /\ prompting \subseteq Panes
    /\ dismissing \subseteq Panes /\ excused \subseteq Panes
    /\ turns \in 0 .. MaxTurns

-----------------------------------------------------------------------------
(* Tracker *)

(* Thread t is not in the middle of a Record.                                *)
Free(t) == \A i \in DOMAIN unsent : unsent[i].by # t

(* The part of Record under the mutex.  Active and completed clear the       *)
(* entry; only hooks of a tool without waiting hooks arm the promoter.  What *)
(* comes without a host has a key of its own in the tracker, and none in the *)
(* projection.                                                               *)
Record(t, e) ==
    /\ Free(t)
    /\ Len(unsent) < MaxUnsent
    /\ events' = [events EXCEPT ![KeyOf(e)] =
                    IF e.status \in {"active", "completed"} THEN NoEvent ELSE e]
    /\ lastActive' =
         IF e.tool \in NativeWaiting \/ e.auto THEN lastActive
         ELSE [lastActive EXCEPT ![KeyOf(e)] = IF e.status = "active" THEN e ELSE NoEvent]
    /\ unsent' = Append(unsent, [by |-> t, event |-> e])
    /\ excused' = IF e.host = "local" THEN excused \ {e.pane} ELSE excused \cup {e.pane}

(* The part after it: records of two threads may be broadcast in the other   *)
(* order, and what does not fit is dropped.                                  *)
Broadcast(i) ==
    LET e == unsent[i].event
        overtakes == \E j \in 1 .. i - 1 : unsent[j].event.pane = e.pane
        dropped == Len(channel) >= ChannelCap
    IN
    /\ unsent' = RemoveAt(unsent, i)
    /\ channel' = IF dropped THEN channel ELSE Append(channel, e)
    /\ excused' = IF overtakes \/ dropped THEN excused \cup {e.pane} ELSE excused
    /\ UNCHANGED <<agentIn, events, lastActive, shown, workVars, dismissing, turns>>

(* Defect: what is shown of a tool is not replaced by a later event.         *)
ApplyFirst ==
    LET e == Head(channel)
        removes == (e.status = "active" /\ ~e.auto) \/ e.status = "completed"
    IN
    /\ channel # <<>>
    /\ shown' = [shown EXCEPT ![<<e.pane, e.tool>>] =
                   IF removes THEN NoEvent
                   ELSE IF @ # NoEvent THEN @ ELSE [status |-> e.status, auto |-> e.auto]]
    /\ channel' = Tail(channel)
    /\ UNCHANGED <<agentIn, recordVars, workVars, dismissing, turns>>

(* The server's goroutine, ApplyToolEvent.  No host means the local one.     *)
ApplyToolEvent ==
    LET e == Head(channel)
        removes == (e.status = "active" /\ ~e.auto) \/ e.status = "completed"
    IN
    /\ channel # <<>>
    /\ shown' = [shown EXCEPT ![<<e.pane, e.tool>>] =
                   IF removes THEN NoEvent ELSE [status |-> e.status, auto |-> e.auto]]
    /\ channel' = Tail(channel)
    /\ UNCHANGED <<agentIn, recordVars, workVars, dismissing, turns>>

Tracked(map) == {k \in PaneKeys : map[k] # NoEvent}

(* GetAll prunes what is older than a day: any part of the entries.          *)
GetAll(stale) ==
    /\ stale \subseteq Tracked(events)
    /\ events' = [k \in PaneKeys |-> IF k \in stale THEN NoEvent ELSE events[k]]

-----------------------------------------------------------------------------
(* The agents and their hooks *)

AgentStarts(p) ==
    /\ agentIn[p] = Nobody
    /\ turns < MaxTurns
    /\ turns' = turns + 1
    /\ \E t \in Tools : agentIn' = [agentIn EXCEPT ![p] = t]
    /\ UNCHANGED <<recordVars, shownVars, workVars, dismissing>>

AgentEnds(p) ==
    /\ agentIn[p] # Nobody
    /\ Free(p)
    /\ agentIn' = [agentIn EXCEPT ![p] = Nobody]
    /\ UNCHANGED <<recordVars, shownVars, workVars, dismissing, turns>>

(* localToolEventHandler: the hub's own host is filled in.                   *)
localToolEventHandler(p, status) ==
    /\ agentIn[p] # Nobody
    /\ turns < MaxTurns
    /\ turns' = turns + 1
    /\ Record(p, [tool |-> agentIn[p], status |-> status, host |-> "local",
                  pane |-> p, auto |-> FALSE])
    /\ UNCHANGED <<agentIn, shownVars, workVars, dismissing>>

-----------------------------------------------------------------------------
(* Reconciler *)

ReconcileBegins ==
    /\ reconciling = {} /\ Free("reconciler")
    /\ \E stale \in SUBSET Tracked(events) : GetAll(stale)
    /\ reconciling' = {events'[k] : k \in Tracked(events')}
    /\ UNCHANGED <<agentIn, lastActive, unsent, shownVars, detecting, seen, monitored,
                   checking, prompting, promoting, dismissing, excused, turns>>

(* The pane has a foreground program other than a shell.                     *)
ReconcileKeeps(e) ==
    /\ agentIn[e.pane] # Nobody
    /\ reconciling' = reconciling \ {e}
    /\ UNCHANGED <<agentIn, recordVars, shownVars, detecting, seen, monitored,
                   checking, prompting, promoting, dismissing, turns>>

(* No pane, a shell, or tmux could not be asked: a completed event, with no  *)
(* host.                                                                     *)
ReconcileClears(e) ==
    /\ \/ agentIn[e.pane] = Nobody /\ UNCHANGED turns
       \/ turns < MaxTurns /\ turns' = turns + 1
    /\ reconciling' = reconciling \ {e}
    /\ Record("reconciler", [e EXCEPT !.status = "completed", !.host = "unset", !.auto = FALSE])
    /\ UNCHANGED <<agentIn, shownVars, detecting, seen, monitored,
                   checking, prompting, promoting, dismissing>>

-----------------------------------------------------------------------------
(* Detector *)

(* The key that is looked up carries no host; those of the tracker do.       *)
TrackedAt(p) == <<"unset", p>> \in Tracked(events') \cup Tracked(lastActive)

(* A pass that lists no pane at all ends before it looks at the tracker, and *)
(* changes nothing.                                                          *)
DetectBegins ==
    /\ ~detecting.on
    /\ \E stale \in SUBSET Tracked(events) : GetAll(stale)
    /\ detecting' = [todo |-> Panes, found |-> {}, on |-> TRUE,
                     skip |-> {p \in Panes : TrackedAt(p)}]
    /\ UNCHANGED <<agentIn, lastActive, unsent, shownVars, reconciling, seen, monitored,
                   checking, prompting, promoting, dismissing, excused, turns>>

Skipped(p) == p \in detecting.skip \/ agentIn[p] = Nobody

DetectNothing(p) ==
    /\ p \in detecting.todo
    /\ Skipped(p)
    /\ detecting' = [detecting EXCEPT !.todo = @ \ {p}]
    /\ UNCHANGED <<agentIn, recordVars, shownVars, reconciling, seen, monitored,
                   checking, prompting, promoting, dismissing, turns>>

DetectAgent(p) ==
    /\ p \in detecting.todo
    /\ ~Skipped(p)
    /\ Free("detector")
    /\ detecting' = [detecting EXCEPT !.todo = @ \ {p}, !.found = @ \cup {p}]
    /\ seen' = [seen EXCEPT ![p] = agentIn[p]]
    /\ IF seen[p] # Nobody THEN UNCHANGED recordVars
       ELSE Record("detector", [tool |-> agentIn[p], status |-> "active", host |-> "local",
                                pane |-> p, auto |-> TRUE])
    /\ UNCHANGED <<agentIn, shownVars, reconciling, monitored, checking, prompting,
                   promoting, dismissing, turns>>

DetectEnds ==
    /\ detecting.on /\ detecting.todo = {}
    /\ Free("detector")
    /\ seen' = [p \in Panes |-> IF p \in detecting.found THEN seen[p] ELSE Nobody]
    /\ detecting' = [todo |-> {}, skip |-> {}, found |-> {}, on |-> FALSE]
    /\ UNCHANGED <<agentIn, recordVars, shownVars, reconciling, monitored, checking,
                   prompting, promoting, dismissing, turns>>

-----------------------------------------------------------------------------
(* SilenceMonitor *)

(* sync: the panes the detector has seen an agent in, but Claude's.          *)
Synced ==
    [p \in Panes |->
        IF seen[p] = Nobody THEN NoEvent
        ELSE IF monitored[p] # NoEvent THEN monitored[p]
        ELSE IF seen[p] = Claude THEN NoEvent
        ELSE [tool |-> seen[p], prompted |-> FALSE, checks |-> 0]]

(* sync, and the first half of checkSilentPanes: some of the panes have been *)
(* quiet for long.                                                           *)
SilenceTick ==
    /\ checking = {} /\ prompting = {} /\ Free("silence")
    /\ \E quiet \in SUBSET {p \in Panes : Synced[p] # NoEvent} :
         LET targets == {p \in quiet : ~Synced[p].prompted /\ Synced[p].checks < MaxChecks} IN
         /\ checking' = targets
         /\ monitored' = [p \in Panes |->
                            IF p \in targets THEN [Synced[p] EXCEPT !.checks = @ + 1]
                            ELSE Synced[p]]
    /\ UNCHANGED <<agentIn, recordVars, shownVars, reconciling, detecting, seen,
                   prompting, promoting, dismissing, turns>>

(* The capture shows no prompt, or fails.                                    *)
NoPrompt(p) ==
    /\ p \in checking
    /\ checking' = checking \ {p}
    /\ UNCHANGED <<agentIn, recordVars, shownVars, reconciling, detecting, seen, monitored,
                   prompting, promoting, dismissing, turns>>

(* Whatever runs in the pane by now, what it shows is taken for the agent's. *)
PromptDetected(p) ==
    /\ p \in checking
    /\ monitored[p] # NoEvent
    /\ checking' = checking \ {p}
    /\ prompting' = prompting \cup {p}
    /\ Record("silence", [tool |-> monitored[p].tool, status |-> "waiting", host |-> "local",
                          pane |-> p, auto |-> TRUE])
    /\ UNCHANGED <<agentIn, shownVars, reconciling, detecting, seen, monitored,
                   promoting, dismissing, turns>>

MarkPrompted(p) ==
    /\ p \in prompting
    /\ Free("silence")
    /\ prompting' = prompting \ {p}
    /\ monitored' = IF monitored[p] = NoEvent THEN monitored
                    ELSE [monitored EXCEPT ![p].prompted = TRUE]
    /\ UNCHANGED <<agentIn, recordVars, shownVars, reconciling, detecting, seen,
                   checking, promoting, dismissing, turns>>

RecordOutput(p) ==
    /\ monitored[p] # NoEvent
    /\ monitored' = [monitored EXCEPT ![p].prompted = FALSE, ![p].checks = 0]
    /\ UNCHANGED <<agentIn, recordVars, shownVars, reconciling, detecting, seen,
                   checking, prompting, promoting, dismissing, turns>>

-----------------------------------------------------------------------------
(* The inactivity promoter *)

(* The entries older than the timeout are taken out under the mutex ...      *)
PromoteTakes ==
    /\ promoting = {} /\ Free("promoter")
    /\ \E old \in SUBSET Tracked(lastActive) \ {{}} :
         /\ promoting' = {lastActive[k] : k \in old}
         /\ lastActive' = [k \in PaneKeys |-> IF k \in old THEN NoEvent ELSE lastActive[k]]
    /\ UNCHANGED <<agentIn, events, unsent, shownVars, reconciling, detecting, seen,
                   monitored, checking, prompting, dismissing, excused, turns>>

(* ... and recorded as waiting one by one, whatever happened meanwhile.      *)
PromoteRecords(e) ==
    /\ promoting' = promoting \ {e}
    /\ Record("promoter", [e EXCEPT !.status = "waiting"])
    /\ UNCHANGED <<agentIn, shownVars, reconciling, detecting, seen, monitored,
                   checking, prompting, dismissing, turns>>

-----------------------------------------------------------------------------
(* DELETE /tool-event, /tool-events: the tracker, then the projection.       *)

DismissTracked(P) ==
    /\ dismissing = {}
    /\ events' = [k \in PaneKeys |-> IF k[1] = "local" /\ k[2] \in P THEN NoEvent ELSE events[k]]
    /\ dismissing' = P
    /\ UNCHANGED <<agentIn, lastActive, unsent, shownVars, workVars, excused, turns>>

InFlight(p) ==
    \/ \E i \in DOMAIN unsent : unsent[i].event.pane = p
    \/ \E i \in DOMAIN channel : channel[i].pane = p

(* ClearToolEvents removes what is shown by now.                             *)
DismissShown ==
    /\ dismissing # {}
    /\ shown' = [pt \in Panes \X Tools |-> IF pt[1] \in dismissing THEN NoEvent ELSE shown[pt]]
    /\ excused' = excused \cup
         {p \in dismissing : InFlight(p) \/ \E h \in {"local", "unset"} : events[<<h, p>>] # NoEvent}
    /\ dismissing' = {}
    /\ UNCHANGED <<agentIn, events, lastActive, unsent, channel, workVars, turns>>

-----------------------------------------------------------------------------
(* The server may start while agents run.                                    *)
ToolInit ==
    /\ agentIn \in [Panes -> Tools \cup {Nobody}]
    /\ events = [k \in PaneKeys |-> NoEvent] /\ lastActive = [k \in PaneKeys |-> NoEvent]
    /\ unsent = <<>> /\ channel = <<>>
    /\ shown = [pt \in Panes \X Tools |-> NoEvent]
    /\ reconciling = {} /\ checking = {} /\ prompting = {} /\ promoting = {}
    /\ detecting = [todo |-> {}, skip |-> {}, found |-> {}, on |-> FALSE]
    /\ seen = [p \in Panes |-> Nobody]
    /\ monitored = [p \in Panes |-> NoEvent]
    /\ dismissing = {} /\ excused = {}
    /\ turns = 0

Hooks(p) == AgentStarts(p) \/ AgentEnds(p) \/ \E s \in Statuses : localToolEventHandler(p, s)

Reconcile == ReconcileBegins \/ \E e \in reconciling : ReconcileKeeps(e) \/ ReconcileClears(e)

Detect == DetectBegins \/ DetectEnds \/ \E p \in Panes : DetectNothing(p) \/ DetectAgent(p)

Silence ==
    SilenceTick \/ \E p \in Panes : NoPrompt(p) \/ PromptDetected(p) \/ MarkPrompted(p) \/ RecordOutput(p)

Promote == PromoteTakes \/ \E e \in promoting : PromoteRecords(e)

ToolNext ==
    \/ \E p \in Panes : Hooks(p)
    \/ Reconcile \/ Detect \/ Silence \/ Promote
    \/ \E i \in DOMAIN unsent : Broadcast(i)
    \/ ApplyToolEvent
    \/ \E P \in {{p} : p \in Panes} \cup {Panes} : DismissTracked(P)
    \/ DismissShown

ToolSpec == ToolInit /\ [][ToolNext]_toolVars

-----------------------------------------------------------------------------
(* An agent that waits is shown to wait, and is again after its next report  *)
(* whatever went wrong before.  Once nothing of a pane is on its way and no  *)
(* dismissal of it is under way, browsers are told what the tracker holds,   *)
(* unless what went wrong came after the pane's last report: it was dropped  *)
(* or overtaken between mutex and broadcast, a dismissal overlapped it, or   *)
(* the reconciler took the agent for dead (tracker.go:105-153,               *)
(* adapters.go:32-56, server.go:229-246 and 435-467, reconciler.go:96-121).  *)
WaitingIsShown ==
    \A p \in Panes :
        LET e == events[<<"local", p>>] IN
        (~InFlight(p) /\ p \notin dismissing \cup excused /\ e # NoEvent) =>
            shown[p, e.tool] = [status |-> e.status, auto |-> e.auto]
=============================================================================
