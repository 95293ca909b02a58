------------------------------- MODULE Terminals -------------------------------
(***************************************************************************)
(* Terminals of a remote host, from the browser's request to the tmux      *)
(* client that the agent starts for it: handleRemoteSession of the hub     *)
(* (pkg/server/server.go), the relay (pkg/peer/pty_relay.go), the list of  *)
(* terminals of the control connection (connection.go), and the agent      *)
(* (pty_manager.go, client.go).                                            *)
(*                                                                         *)
(* There is one control connection.  A stream is one request of a browser, *)
(* with an identifier and a token of its own, and the data channel that    *)
(* the agent dials for it.  Three parties may tear a stream down: its      *)
(* handler, the timer of its registration and the closing connection.      *)
(* What is typed and shown is left out.                                    *)
(***************************************************************************)
EXTENDS Integers

CONSTANT Streams

VARIABLES
    (* the control connection at the hub *)
    control,        \* how far CloseWith has come
    tearing,        \* the terminals it took and has to tear down
    ptys,           \* PeerConnection.ptys
    (* the relay *)
    pendingPTYs, activePTYs,
    ready,          \* streams whose owner.ready is closed
    timer,          \* the timer of a registration
    teardown,       \* how far a stream's Teardown has come
    attaching,      \* data channels that HandlePeerPTY has still to match
    (* the browser's request and the two WebSockets of a stream *)
    viewer,         \* where handleRemoteSession is
    browserWS,      \* whether the browser's WebSocket is open
    peerWS,         \* the data channel
    (* the agent *)
    agentControl,   \* its control connection: up, down, or another one
    opening         \* where PTYManager.Open is

connectionVars == <<control, tearing, ptys>>
relayVars == <<pendingPTYs, activePTYs, ready, timer, teardown, attaching>>
streamVars == <<viewer, browserWS, peerWS>>
ptyVars == <<agentControl, opening>>
terminalVars == <<connectionVars, relayVars, streamVars, ptyVars>>

TerminalTypeOK ==
    /\ control \in {"open", "refusing", "cancelled", "tearing", "closed"}
    /\ tearing \subseteq Streams /\ ptys \subseteq Streams
    /\ pendingPTYs \subseteq Streams /\ activePTYs \subseteq Streams
    /\ ready \subseteq Streams /\ attaching \subseteq Streams
    /\ timer \in [Streams -> {"unset", "armed", "fired", "off"}]
    /\ teardown \in [Streams -> {"none", "cancelled", "unindexed", "released", "done"}]
    /\ viewer \in [Streams -> {"idle", "checked", "owned", "registered", "asked",
                               "bridging", "leaving", "gone"}]
    /\ browserWS \in [Streams -> BOOLEAN]
    /\ peerWS \in [Streams -> {"none", "open", "closed"}]
    /\ agentControl \in {"up", "down", "renewed"}
    /\ opening \in [Streams -> {"none", "sent", "accepted", "spawned", "dialled",
                                "running", "ended"}]

TerminalInit ==
    /\ control = "open" /\ tearing = {} /\ ptys = {}
    /\ pendingPTYs = {} /\ activePTYs = {} /\ ready = {} /\ attaching = {}
    /\ timer = [s \in Streams |-> "unset"]
    /\ teardown = [s \in Streams |-> "none"]
    /\ viewer = [s \in Streams |-> "idle"]
    /\ browserWS = [s \in Streams |-> TRUE]
    /\ peerWS = [s \in Streams |-> "none"]
    /\ agentControl = "up"
    /\ opening = [s \in Streams |-> "none"]

(* PeerConnection.closed is set before the context is cancelled, and the     *)
(* context of a stream is derived from it.                                   *)
Cancelled(s) == teardown[s] # "none" \/ control \notin {"open", "refusing"}

ViewerGoes(s, to) == viewer' = [viewer EXCEPT ![s] = to]

-----------------------------------------------------------------------------
(* The browser's request *)

(* ownPTY tests the flag under one mutex and adds under another.             *)
TestOpen(s) ==
    /\ viewer[s] = "idle"
    /\ IF control = "open"
       THEN ViewerGoes(s, "checked") /\ UNCHANGED browserWS
       ELSE ViewerGoes(s, "gone") /\ browserWS' = [browserWS EXCEPT ![s] = FALSE]
    /\ UNCHANGED <<connectionVars, relayVars, peerWS, ptyVars>>

OwnPTY(s) ==
    /\ viewer[s] = "checked" /\ ViewerGoes(s, "owned")
    /\ ptys' = ptys \cup {s}
    /\ UNCHANGED <<control, tearing, relayVars, browserWS, peerWS, ptyVars>>

RegisterPending(s) ==
    /\ viewer[s] = "owned" /\ ViewerGoes(s, "registered")
    /\ pendingPTYs' = pendingPTYs \cup {s}
    /\ timer' = [timer EXCEPT ![s] = "armed"]
    /\ UNCHANGED <<connectionVars, activePTYs, ready, teardown, attaching,
                   browserWS, peerWS, ptyVars>>

(* The queue of a connection that is open may be full.                       *)
SendOpen(s) ==
    /\ viewer[s] = "registered"
    /\ \/ /\ control = "open" /\ ViewerGoes(s, "asked")
          /\ opening' = [opening EXCEPT ![s] = "sent"]
       \/ ViewerGoes(s, "leaving") /\ UNCHANGED opening
    /\ UNCHANGED <<connectionVars, relayVars, browserWS, peerWS, agentControl>>

(* A select over the attachment, fifteen seconds, and the connection.        *)
AwaitPeer(s) ==
    /\ viewer[s] = "asked"
    /\ \/ s \in ready /\ ViewerGoes(s, "bridging")
       \/ ViewerGoes(s, "leaving")
    /\ UNCHANGED <<connectionVars, relayVars, browserWS, peerWS, ptyVars>>

(* Bridge ends with the first of its two readers.                            *)
BridgeEnds(s) ==
    /\ viewer[s] = "bridging"
    /\ peerWS[s] = "closed" \/ ~browserWS[s]
    /\ ViewerGoes(s, "leaving")
    /\ UNCHANGED <<connectionVars, relayVars, browserWS, peerWS, ptyVars>>

(* It waits for whoever tears the stream down.                               *)
ViewerLeaves(s) ==
    /\ viewer[s] = "leaving" /\ teardown[s] = "done"
    /\ ViewerGoes(s, "gone")
    /\ UNCHANGED <<connectionVars, relayVars, browserWS, peerWS, ptyVars>>

BrowserCloses(s) ==
    /\ viewer[s] \notin {"idle", "gone"} /\ browserWS[s]
    /\ browserWS' = [browserWS EXCEPT ![s] = FALSE]
    /\ UNCHANGED <<connectionVars, relayVars, viewer, peerWS, ptyVars>>

-----------------------------------------------------------------------------
(* The relay *)

(* The timer looks at ready, and then calls Teardown.                        *)
TimerFires(s) ==
    /\ timer[s] = "armed"
    /\ timer' = [timer EXCEPT ![s] = IF s \in ready THEN "off" ELSE "fired"]
    /\ UNCHANGED <<connectionVars, pendingPTYs, activePTYs, ready, teardown, attaching,
                   streamVars, ptyVars>>

(* Whose Teardown runs first cancels the stream's context.                   *)
TornDown(s) == viewer[s] = "leaving" \/ timer[s] = "fired" \/ s \in tearing

TeardownGoes(s, from, to) ==
    teardown[s] = from /\ teardown' = [teardown EXCEPT ![s] = to]

(* A defect: the stream is looked up in an index it has left.                *)
CloseIndexed(s) ==
    /\ browserWS' = [browserWS EXCEPT ![s] = FALSE]
    /\ peerWS' = [peerWS EXCEPT ![s] = IF s \in activePTYs THEN "closed" ELSE @]

(* PeerWS, if there is one, is read when nobody can attach any more.         *)
CloseStream(s) ==
    /\ browserWS' = [browserWS EXCEPT ![s] = FALSE]
    /\ peerWS' = [peerWS EXCEPT ![s] = IF s \in ready THEN "closed" ELSE @]

Unindex(s) == pendingPTYs' = pendingPTYs \ {s} /\ activePTYs' = activePTYs \ {s}

(* The body of once.Do, with a mutex of its own for each step.               *)
Teardown(s) ==
    /\ \/ /\ TornDown(s) /\ TeardownGoes(s, "none", "cancelled")
          /\ UNCHANGED <<pendingPTYs, activePTYs, ptys, browserWS, peerWS>>
       \/ /\ TeardownGoes(s, "cancelled", "unindexed") /\ Unindex(s)
          /\ UNCHANGED <<ptys, browserWS, peerWS>>
       \/ /\ TeardownGoes(s, "unindexed", "released") /\ ptys' = ptys \ {s}
          /\ UNCHANGED <<pendingPTYs, activePTYs, browserWS, peerWS>>
       \/ /\ TeardownGoes(s, "released", "done") /\ CloseStream(s)
          /\ UNCHANGED <<pendingPTYs, activePTYs, ptys>>
    /\ UNCHANGED <<control, tearing, ready, timer, attaching, viewer, ptyVars>>

(* HandlePeerPTY: an attachment that is late or unknown is closed.           *)
CompletePending(s) ==
    /\ s \in attaching /\ attaching' = attaching \ {s}
    /\ IF s \in pendingPTYs /\ ~Cancelled(s)
       THEN /\ pendingPTYs' = pendingPTYs \ {s}
            /\ activePTYs' = activePTYs \cup {s}
            /\ ready' = ready \cup {s}
            /\ UNCHANGED peerWS
       ELSE /\ peerWS' = [peerWS EXCEPT ![s] = "closed"]
            /\ UNCHANGED <<pendingPTYs, activePTYs, ready>>
    /\ UNCHANGED <<connectionVars, timer, teardown, viewer, browserWS, ptyVars>>

-----------------------------------------------------------------------------
(* The control connection *)

ControlGoes(from, to) == control = from /\ control' = to

TakePTYs == tearing' = ptys /\ ptys' = {}

(* A defect: each terminal is torn down by a goroutine nobody waits for.      *)
CloseDoesNotWait ==
    /\ \/ ControlGoes("open", "refusing") /\ UNCHANGED <<tearing, ptys>>
       \/ ControlGoes("refusing", "cancelled") /\ UNCHANGED <<tearing, ptys>>
       \/ ControlGoes("cancelled", "closed") /\ TakePTYs
    /\ UNCHANGED <<relayVars, streamVars, ptyVars>>

(* The body of close.Do: its handler ends, its writer fails, the peer is     *)
(* revoked or replaced.                                                      *)
CloseWith ==
    /\ \/ ControlGoes("open", "refusing") /\ UNCHANGED <<tearing, ptys>>
       \/ ControlGoes("refusing", "cancelled") /\ UNCHANGED <<tearing, ptys>>
       \/ ControlGoes("cancelled", "tearing") /\ TakePTYs
       \/ /\ ControlGoes("tearing", "closed") /\ \A s \in tearing : teardown[s] = "done"
          /\ UNCHANGED <<tearing, ptys>>
    /\ UNCHANGED <<relayVars, streamVars, ptyVars>>

-----------------------------------------------------------------------------
(* The agent *)

OpeningGoes(s, from, to) ==
    opening[s] = from /\ opening' = [opening EXCEPT ![s] = to]

(* A goroutine for each message of the control connection.                   *)
ReadOpen(s) ==
    /\ agentControl = "up" /\ OpeningGoes(s, "sent", "accepted")
    /\ UNCHANGED <<connectionVars, relayVars, streamVars, agentControl>>

(* The generation must be the one negotiated last; tmux may fail to start.   *)
OpenPTY(s) ==
    /\ \/ agentControl # "renewed" /\ OpeningGoes(s, "accepted", "spawned")
       \/ OpeningGoes(s, "accepted", "ended")
    /\ UNCHANGED <<connectionVars, relayVars, streamVars, agentControl>>

(* The hub upgrades the connection and then looks for its stream.            *)
ConnectPTYWebSocket(s) ==
    /\ \/ /\ OpeningGoes(s, "spawned", "dialled")
          /\ peerWS' = [peerWS EXCEPT ![s] = "open"]
          /\ attaching' = attaching \cup {s}
       \/ OpeningGoes(s, "spawned", "ended") /\ UNCHANGED <<peerWS, attaching>>
    /\ UNCHANGED <<connectionVars, pendingPTYs, activePTYs, ready, timer, teardown,
                   viewer, browserWS, agentControl>>

AddSession(s) ==
    /\ OpeningGoes(s, "dialled", "running")
    /\ UNCHANGED <<connectionVars, relayVars, streamVars, agentControl>>

(* tmux ends, or the data channel does: ActivePTY.Teardown closes both.      *)
PTYEnds(s) ==
    /\ OpeningGoes(s, "running", "ended")
    /\ peerWS' = [peerWS EXCEPT ![s] = "closed"]
    /\ UNCHANGED <<connectionVars, relayVars, viewer, browserWS, agentControl>>

Running == {s \in Streams : opening[s] = "running"}

(* connectAndRun returns and CloseAll ends the terminals it finds: one that  *)
(* is still being opened is not among them.                                  *)
AgentDisconnects ==
    /\ agentControl = "up" /\ agentControl' = "down"
    /\ opening' = [s \in Streams |-> IF s \in Running THEN "ended" ELSE opening[s]]
    /\ peerWS' = [s \in Streams |-> IF s \in Running THEN "closed" ELSE peerWS[s]]
    /\ UNCHANGED <<connectionVars, relayVars, viewer, browserWS>>

AgentReconnects ==
    /\ agentControl = "down" /\ agentControl' = "renewed"
    /\ UNCHANGED <<connectionVars, relayVars, streamVars, opening>>

-----------------------------------------------------------------------------

Viewer(s) ==
    \/ TestOpen(s) \/ OwnPTY(s) \/ RegisterPending(s) \/ SendOpen(s)
    \/ AwaitPeer(s) \/ BridgeEnds(s) \/ ViewerLeaves(s) \/ BrowserCloses(s)

Relay(s) == TimerFires(s) \/ Teardown(s) \/ CompletePending(s)

Open(s) == ReadOpen(s) \/ OpenPTY(s) \/ ConnectPTYWebSocket(s) \/ AddSession(s) \/ PTYEnds(s)

TerminalNext ==
    \/ \E s \in Streams : Viewer(s) \/ Relay(s) \/ Open(s)
    \/ CloseWith \/ AgentDisconnects \/ AgentReconnects

TerminalSpec == TerminalInit /\ [][TerminalNext]_terminalVars

-----------------------------------------------------------------------------

Ending(s) == teardown[s] \in {"cancelled", "unindexed", "released"}

(* A data channel that is open is known at the hub to somebody who will      *)
(* close it: it is being matched, or is one end of a stream that is active   *)
(* or on its way down.  Otherwise the tmux client of the agent, which ends   *)
(* with its data channel, would run for ever (pty_relay.go:92-141).          *)
AttachedHasOwner ==
    \A s \in Streams : peerWS[s] = "open" =>
        s \in attaching \/ s \in activePTYs \/ Ending(s)

(* A control connection that is closed leaves no terminal behind, whenever   *)
(* the terminal was added to it: none of its streams is bridged any more or  *)
(* can be, but for the ones that are on their way down (connection.go:95-135,*)
(* server.go:139-166).                                                       *)
ClosedEndsTerminals ==
    control = "closed" =>
        \A s \in Streams :
            /\ s \in activePTYs \/ viewer[s] = "bridging" => teardown[s] # "none"
            /\ s \in pendingPTYs => opening[s] = "none" \/ Ending(s)
=============================================================================
