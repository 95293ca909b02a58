------------------------------- MODULE MCHubParts -------------------------------
(***************************************************************************)
(* Parts of a hub, and of an agent, that share no variable with each other:*)
(* the events of tools, the activity of sessions, the passkeys, pairing,   *)
(* what browsers leave with the hub, the terminals of remote hosts, and    *)
(* the outcomes an agent remembers.  As no step of one can be seen by      *)
(* another, each behaviour moves one part, chosen at the start.            *)
(***************************************************************************)
EXTENDS ToolEvents, ActivityRing, Passkeys, Pairing, HubSettings, Terminals, OutcomeCache

VARIABLE part

CONSTANTS claude, codex, a1, a2, a3

(* Two agents whose hosts have one name.                                     *)
Names == [a \in {a1, a2, a3} |-> IF a = a3 THEN "elsewhere" ELSE "laptop"]

Parts == {"tools", "activity", "passkeys", "pairing", "settings", "terminals", "outcomes"}

Init ==
    /\ part \in Parts
    /\ ToolInit /\ (part # "tools" => agentIn = [p \in Panes |-> Nobody])
    /\ RingInit /\ PasskeyInit /\ PairInit /\ SettingsInit /\ TerminalInit /\ OutcomeInit

ToolStep ==
    /\ part = "tools" /\ ToolNext
    /\ UNCHANGED <<ringVars, passkeyVars, pairVars, settingVars, terminalVars, outcomeVars>>

RingStep ==
    /\ part = "activity" /\ RingNext
    /\ UNCHANGED <<toolVars, passkeyVars, pairVars, settingVars, terminalVars, outcomeVars>>

PasskeyStep ==
    /\ part = "passkeys" /\ PasskeyNext
    /\ UNCHANGED <<toolVars, ringVars, pairVars, settingVars, terminalVars, outcomeVars>>

PairStep ==
    /\ part = "pairing" /\ PairNext
    /\ UNCHANGED <<toolVars, ringVars, passkeyVars, settingVars, terminalVars, outcomeVars>>

SettingsStep ==
    /\ part = "settings" /\ SettingsNext
    /\ UNCHANGED <<toolVars, ringVars, passkeyVars, pairVars, terminalVars, outcomeVars>>

TerminalStep ==
    /\ part = "terminals" /\ TerminalNext
    /\ UNCHANGED <<toolVars, ringVars, passkeyVars, pairVars, settingVars, outcomeVars>>

OutcomeStep ==
    /\ part = "outcomes" /\ OutcomeNext
    /\ UNCHANGED <<toolVars, ringVars, passkeyVars, pairVars, settingVars, terminalVars>>

Next ==
    /\ UNCHANGED part
    /\ \/ ToolStep \/ RingStep \/ PasskeyStep \/ PairStep \/ SettingsStep
       \/ TerminalStep \/ OutcomeStep

Spec == Init /\ [][Next]_<<part, toolVars, ringVars, passkeyVars, pairVars, settingVars, terminalVars, outcomeVars>>

(* Bound: a pane whose last report went astray is followed while its agent   *)
(* may still report, with no dismissal, reconciliation or detection at work. *)
FollowedExcused ==
    excused # {} => turns < MaxTurns /\ dismissing = {} /\ reconciling = {} /\ ~detecting.on

(* Every variable of the part that moves has its type (the declarations at   *)
(* the head of tracker.go, passkey.go, pairing.go, subscriptions.go and the  *)
(* others); the variables of the other parts never change.                   *)
TypeOK ==
    /\ part = "tools" => ToolTypeOK
    /\ part = "activity" => RingTypeOK
    /\ part = "passkeys" => PasskeyTypeOK
    /\ part = "pairing" => PairTypeOK
    /\ part = "settings" => SettingsTypeOK
    /\ part = "terminals" => TerminalTypeOK
    /\ part = "outcomes" => OutcomeTypeOK

(* What the hub answered is what it has, and what it will have after a crash *)
(* or a restart, for each of its stores: passkeys, peers, push subscriptions *)
(* (passkey.go:130-275, peers.go:145-191, subscriptions.go:75-106).          *)
AnswersSurvive == PasskeyAnswersSurvive /\ ReportedIsPaired /\ SubscriptionsSurvive
=============================================================================
