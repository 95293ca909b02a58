----------------------------- MODULE PairingProofs -----------------------------
(***************************************************************************)
(* A pairing code pays for one peer, and an agent that was told it is      *)
(* paired is, for all sets of agents and codes, any capacity of the codes  *)
(* and any number of crashes and lost answers.                             *)
(***************************************************************************)
EXTENDS Pairing, FiniteSetTheorems, TLAPS

(* While a code is completed it is pending; once the peer is stored the code *)
(* has added it (pairing.go:73-89).                                          *)
Completion ==
    /\ completing # NoRequest => codes[completing[2]] = "pending"
    /\ persisted =>
         completing # NoRequest /\ completing[1] \in pairedBy[completing[2]]

(* What a code has added, by what became of it.                              *)
Payments ==
    \A c \in Codes :
        /\ \A a, b \in pairedBy[c] : a = b
        /\ codes[c] = "unused" => pairedBy[c] = {}
        /\ codes[c] = "spent" => pairedBy[c] # {}
        /\ codes[c] = "pending" /\ pairedBy[c] # {} =>
             persisted /\ \E a \in pairedBy[c] : completing = <<a, c>>

(* Memory and file agree; what was added is there until it is removed, and   *)
(* so is whoever the hub answered.                                           *)
Stores ==
    /\ hubUp => peers = peersFile
    /\ \A c \in Codes : pairedBy[c] \subseteq peersFile \cup removed
    /\ \A a \in Agents :
         command[a].at \in {"answered", "stored"} => a \in peersFile \cup removed
    /\ reported \subseteq peersFile \cup removed
    /\ \A a, b \in peersFile : NameOf[a] = NameOf[b] => a = b

PairInv == PairTypeOK /\ Completion /\ Payments /\ Stores

-----------------------------------------------------------------------------
(* The request that is completed is a pair of an agent and a code.           *)
LEMMA CompletingPair ==
    ASSUME PairTypeOK, completing # NoRequest
    PROVE  /\ completing[1] \in Agents /\ completing[2] \in Codes
           /\ completing = <<completing[1], completing[2]>>
  BY DEF PairTypeOK

(* An answer changes the command of one agent, to idle or to what was        *)
(* answered, and only if it still waits.                                     *)
LEMMA AnsweredType ==
    ASSUME PairTypeOK, NEW a \in Agents, NEW c \in Codes,
           NEW next \in Commands, Answered(a, c, next)
    PROVE  /\ command' \in [Agents -> Commands]
           /\ \A b \in Agents : command'[b] = command[b] \/ (b = a /\ command'[b] = next)
  BY DEF PairTypeOK, Answered

(* Two of the commands' states.                                              *)
LEMMA CommandTypes ==
    /\ NoCommand \in Commands
    /\ NoCommand.at = "idle"
    /\ \A c \in Codes : [at |-> "answered", code |-> c] \in Commands
  BY DEF NoCommand, Commands

-----------------------------------------------------------------------------
(* The initial state satisfies the invariant.                                *)
LEMMA PairInitInv == PairInit => PairInv
<1> SUFFICES ASSUME PairInit PROVE PairInv
  OBVIOUS
<1> USE PairingAssumption
<1>1. PairTypeOK
  <2>1. faults \in 0 .. MaxFaults
    BY DEF PairInit
  <2>2. hubUp \in BOOLEAN /\ persisted \in BOOLEAN
    BY DEF PairInit
  <2>3. command \in [Agents -> Commands]
    BY CommandTypes DEF PairInit
  <2>4. codes \in [Codes -> CodeStates] /\ pairedBy \in [Codes -> SUBSET Agents]
    BY DEF PairInit, CodeStates
  <2>5. QED
    BY <2>1, <2>2, <2>3, <2>4 DEF PairInit, PairTypeOK
<1>2. Completion /\ Payments
  BY DEF PairInit, Completion, Payments
<1>3. Stores
  BY DEF PairInit, Stores, NoCommand
<1>4. QED
  BY <1>1, <1>2, <1>3 DEF PairInv

(* A step that leaves everything as it is.                                   *)
LEMMA PairStutter ==
    ASSUME PairInv, UNCHANGED pairVars PROVE PairInv'
<1> USE DEF PairInv, pairVars, hubVars, agentVars, historyVars
<1>1. PairTypeOK'
  BY DEF PairTypeOK
<1>2. Completion' /\ Payments'
  BY DEF Completion, Payments
<1>3. Stores'
  BY DEF Stores
<1>4. QED
  BY <1>1, <1>2, <1>3

(* Every step keeps the types.                                               *)
LEMMA PairTypeStep ==
    ASSUME PairTypeOK, PairNext PROVE PairTypeOK'
<1> USE PairingAssumption, CommandTypes DEF PairTypeOK, Faults, hubVars, agentVars, historyVars
<1>1. CASE GenerateCode
  BY <1>1 DEF GenerateCode, CodeStates
<1>2. CASE CommitPeer
  BY <1>2, CompletingPair DEF CommitPeer
<1>3. CASE CommitFails
  <2>1. completing[1] \in Agents /\ completing[2] \in Codes
    BY <1>3, CompletingPair DEF CommitFails
  <2>2. command' \in [Agents -> Commands]
    BY <1>3, <2>1, AnsweredType DEF CommitFails, Refused
  <2>3. QED
    BY <1>3, <2>2 DEF CommitFails
<1>4. CASE ConsumeCode
  <2>1. completing[1] \in Agents /\ completing[2] \in Codes
    BY <1>4, CompletingPair DEF ConsumeCode
  <2>2. command' \in [Agents -> Commands]
    BY <1>4, <2>1, AnsweredType DEF ConsumeCode
  <2>3. QED
    BY <1>4, <2>1, <2>2 DEF ConsumeCode, CodeStates
<1>5. CASE HubCrash
  <2>1. hubUp' \in BOOLEAN /\ persisted' \in BOOLEAN
    BY <1>5 DEF HubCrash
  <2>2. codes' \in [Codes -> CodeStates]
    BY <1>5 DEF HubCrash, CodeStates
  <2>3. command' \in [Agents -> Commands]
    BY <1>5 DEF HubCrash
  <2>4. QED
    BY <1>5, <2>1, <2>2, <2>3 DEF HubCrash
<1>6. CASE HubStarts
  BY <1>6 DEF HubStarts
<1>7. ASSUME NEW c \in Codes, CodeExpires(c) PROVE PairTypeOK'
  BY <1>7 DEF CodeExpires, CodeStates
<1>8. ASSUME NEW a \in Agents, NEW c \in Codes,
             PairCommand(a, c) \/ RefuseCode(a, c) \/ BeginComplete(a, c)
      PROVE  PairTypeOK'
  <2>1. CASE PairCommand(a, c)
    BY <2>1 DEF PairCommand, Commands
  <2>2. CASE RefuseCode(a, c)
    <3>1. command' \in [Agents -> Commands]
      BY <2>2, AnsweredType DEF RefuseCode, Refused
    <3>2. QED
      BY <2>2, <3>1 DEF RefuseCode, CodeStates
  <2>3. CASE BeginComplete(a, c)
    BY <2>3 DEF BeginComplete
  <2>4. QED
    BY <1>8, <2>1, <2>2, <2>3
<1>9. ASSUME NEW a \in Agents, AnswerLost(a) \/ StoreHubFails(a) \/ SaveURLFails(a)
      PROVE  PairTypeOK'
  BY <1>9 DEF AnswerLost, StoreHubFails, SaveURLFails
<1>10. ASSUME NEW a \in Agents, StoreHub(a) \/ SaveURL(a) PROVE PairTypeOK'
  BY <1>10 DEF StoreHub, SaveURL, Commands
<1>11. ASSUME NEW a \in Agents, RemovePeer(a) PROVE PairTypeOK'
  BY <1>11 DEF RemovePeer
<1>12. QED
  BY <1>1, <1>2, <1>3, <1>4, <1>5, <1>6, <1>7, <1>8, <1>9, <1>10, <1>11
     DEF PairNext, AgentNext

-----------------------------------------------------------------------------
(* Only these actions touch the codes, their completion or what they added.  *)
LEMMA CodesFrame ==
    ASSUME PairNext,
           ~ GenerateCode, ~ CommitPeer, ~ CommitFails, ~ ConsumeCode, ~ HubCrash,
           \A c \in Codes : ~ CodeExpires(c),
           \A a \in Agents, c \in Codes : ~ RefuseCode(a, c) /\ ~ BeginComplete(a, c)
    PROVE  UNCHANGED <<codes, completing, persisted, pairedBy>>
  BY DEF PairNext, AgentNext, HubStarts, PairCommand, AnswerLost, StoreHub, StoreHubFails,
         SaveURL, SaveURLFails, RemovePeer, hubVars, historyVars

(* The code that is being completed stays pending, and is paid for as soon   *)
(* as its peer is stored.                                                    *)
LEMMA CompletionStep ==
    ASSUME PairInv, PairNext PROVE Completion'
<1> USE DEF PairInv, Completion
<1>1. CASE GenerateCode
  BY <1>1, CompletingPair DEF GenerateCode, historyVars
<1>2. CASE CommitPeer
  <2>1. completing[1] \in Agents /\ completing[2] \in Codes
    BY <1>2, CompletingPair DEF CommitPeer
  <2>2. QED
    BY <1>2, <2>1 DEF CommitPeer, PairTypeOK
<1>3. CASE CommitFails
  BY <1>3 DEF CommitFails
<1>4. CASE ConsumeCode
  BY <1>4 DEF ConsumeCode
<1>5. CASE HubCrash
  BY <1>5 DEF HubCrash
<1>6. ASSUME NEW c \in Codes, CodeExpires(c) PROVE Completion'
  <2>1. completing # NoRequest => completing[2] # c /\ completing[2] \in Codes
    BY <1>6, CompletingPair DEF CodeExpires
  <2>2. QED
    BY <1>6, <2>1 DEF CodeExpires, historyVars, PairTypeOK
<1>7. ASSUME NEW a \in Agents, NEW c \in Codes, RefuseCode(a, c) PROVE Completion'
  BY <1>7 DEF RefuseCode, historyVars
<1>8. ASSUME NEW a \in Agents, NEW c \in Codes, BeginComplete(a, c) PROVE Completion'
  BY <1>8 DEF BeginComplete, historyVars
<1>9. ASSUME UNCHANGED <<codes, completing, persisted, pairedBy>> PROVE Completion'
  BY <1>9
<1>10. QED
  BY <1>1, <1>2, <1>3, <1>4, <1>5, <1>6, <1>7, <1>8, <1>9, CodesFrame

(* What a code has paid for: a peer is added only while the code is pending  *)
(* and has added nobody, and the code is used up only after that.            *)
LEMMA PaymentsStep ==
    ASSUME PairInv, PairNext PROVE Payments'
<1> USE DEF PairInv, Payments
<1>1. CASE GenerateCode
  <2>1. PICK d \in Codes :
          /\ codes[d] = "unused"
          /\ codes' = [e \in Codes |-> IF e = d THEN "pending"
                                      ELSE IF codes[e] = "expired" THEN "swept" ELSE codes[e]]
    BY <1>1 DEF GenerateCode
  <2>2. UNCHANGED <<completing, persisted, pairedBy>>
    BY <1>1 DEF GenerateCode, historyVars
  <2>3. QED
    BY <2>1, <2>2
<1>2. CASE CommitPeer
  <2> DEFINE a == completing[1]
             c == completing[2]
  <2>1. a \in Agents /\ c \in Codes /\ completing = <<a, c>> /\ codes[c] = "pending"
    BY <1>2, CompletingPair DEF CommitPeer, Completion
  <2>2. pairedBy[c] = {}
    BY <1>2, <2>1 DEF CommitPeer
  <2>3. /\ pairedBy' = [pairedBy EXCEPT ![c] = @ \cup {a}]
        /\ persisted' /\ UNCHANGED <<codes, completing>>
    BY <1>2 DEF CommitPeer
  <2>4. pairedBy'[c] = {a} /\ \A d \in Codes : d # c => pairedBy'[d] = pairedBy[d]
    BY <2>1, <2>2, <2>3 DEF PairTypeOK
  <2> HIDE DEF a, c
  <2>5. \A d \in Codes : codes'[d] = "pending" /\ pairedBy'[d] # {} =>
           persisted' /\ \E b \in pairedBy'[d] : completing' = <<b, d>>
    BY <1>2, <2>1, <2>3, <2>4 DEF CommitPeer
  <2>6. QED
    BY <2>1, <2>3, <2>4, <2>5
<1>3. CASE CommitFails
  BY <1>3 DEF CommitFails, historyVars
<1>4. CASE ConsumeCode
  <2>1. completing[2] \in Codes /\ completing = <<completing[1], completing[2]>>
    BY <1>4, CompletingPair DEF ConsumeCode
  <2>2. pairedBy[completing[2]] # {}
    BY <1>4 DEF ConsumeCode, Completion
  <2>3. \A d \in Codes : d # completing[2] /\ codes[d] = "pending" => pairedBy[d] = {}
    BY <2>1
  <2>4. QED
    BY <1>4, <2>1, <2>2, <2>3 DEF ConsumeCode, PairTypeOK, historyVars
<1>5. CASE HubCrash
  <2>1. \A c \in Codes :
          /\ codes'[c] # "pending"
          /\ codes'[c] \in {"unused", "spent"} => codes'[c] = codes[c]
    BY <1>5 DEF HubCrash
  <2>2. QED
    BY <1>5, <2>1 DEF HubCrash, historyVars
<1>6. ASSUME NEW c \in Codes, CodeExpires(c) PROVE Payments'
  BY <1>6 DEF CodeExpires, PairTypeOK, historyVars
<1>7. ASSUME NEW a \in Agents, NEW c \in Codes, RefuseCode(a, c) PROVE Payments'
  BY <1>7 DEF RefuseCode, PairTypeOK, historyVars
<1>8. ASSUME NEW a \in Agents, NEW c \in Codes, BeginComplete(a, c) PROVE Payments'
  BY <1>8 DEF BeginComplete, Completion, historyVars
<1>9. ASSUME UNCHANGED <<codes, completing, persisted, pairedBy>> PROVE Payments'
  BY <1>9
<1>10. QED
  BY <1>1, <1>2, <1>3, <1>4, <1>5, <1>6, <1>7, <1>8, <1>9, CodesFrame

-----------------------------------------------------------------------------
(* Steps that leave both stores and what the hub told as they are keep       *)
(* Stores, if whoever has an answer now had one before or is in the store.   *)
LEMMA StoresFrame ==
    ASSUME PairInv, UNCHANGED <<hubUp, peers, peersFile, pairedBy, reported, removed>>,
           \A a \in Agents : command'[a].at \in {"answered", "stored"} =>
             command[a].at \in {"answered", "stored"} \/ a \in peersFile \cup removed
    PROVE  Stores'
  BY DEF PairInv, Stores

(* Who was added stays in both stores until it is removed, whatever crashes  *)
(* and whoever tries to be added under the same name.                        *)
LEMMA StoresStep ==
    ASSUME PairInv, PairNext PROVE Stores'
<1> USE CommandTypes DEF PairInv, hubVars, historyVars
<1>1. CASE GenerateCode
  BY <1>1, StoresFrame DEF GenerateCode, agentVars
<1>2. CASE CommitPeer
  <2> DEFINE a == completing[1]
             c == completing[2]
  <2>1. a \in Agents /\ c \in Codes
    BY <1>2, CompletingPair DEF CommitPeer
  <2>2. hubUp /\ hubUp' /\ peersFile' = peersFile \cup {a} /\ peers' = peersFile'
    BY <1>2 DEF CommitPeer, Stores
  <2>3. peersFile \cup removed \cup {a} \subseteq peersFile' \cup removed'
    BY <1>2, <2>2 DEF CommitPeer
  <2>4. \A d \in Codes : pairedBy'[d] \subseteq pairedBy[d] \cup {a}
    BY <1>2, <2>1 DEF CommitPeer, PairTypeOK
  <2>5. \A p, q \in peersFile' : NameOf[p] = NameOf[q] => p = q
    BY <1>2, <2>2 DEF CommitPeer, Conflicts, Stores
  <2>6. UNCHANGED <<command, reported>>
    BY <1>2 DEF CommitPeer, agentVars
  <2> HIDE DEF a, c
  <2>7. QED
    BY <2>2, <2>3, <2>4, <2>5, <2>6 DEF Stores
<1>3. CASE CommitFails
  <2>1. completing[1] \in Agents /\ completing[2] \in Codes
    BY <1>3, CompletingPair DEF CommitFails
  <2>2. \A b \in Agents : command'[b] = command[b] \/ command'[b].at = "idle"
    BY <1>3, <2>1, AnsweredType DEF CommitFails, Refused
  <2>3. QED
    BY <1>3, <2>2, StoresFrame DEF CommitFails
<1>4. CASE ConsumeCode
  <2> DEFINE a == completing[1]
             c == completing[2]
  <2>1. a \in Agents /\ c \in Codes /\ a \in pairedBy[c]
    BY <1>4, CompletingPair DEF ConsumeCode, Completion
  <2>2. a \in peersFile \cup removed
    BY <2>1 DEF Stores
  <2>3. Answered(a, c, [at |-> "answered", code |-> c])
    BY <1>4 DEF ConsumeCode
  <2> HIDE DEF a, c
  <2>4. \A b \in Agents : command'[b] = command[b] \/ b = a
    BY <2>1, <2>3, AnsweredType
  <2>5. QED
    BY <1>4, <2>2, <2>4, StoresFrame DEF ConsumeCode
<1>5. CASE HubCrash
  <2>1. ~ hubUp' /\ UNCHANGED <<peersFile, pairedBy, reported, removed>>
    BY <1>5 DEF HubCrash
  <2>2. \A a \in Agents : command'[a] = command[a] \/ command'[a].at = "idle"
    BY <1>5 DEF HubCrash
  <2>3. QED
    BY <2>1, <2>2 DEF Stores
<1>6. CASE HubStarts
  BY <1>6 DEF HubStarts, agentVars, Stores
<1>7. ASSUME NEW c \in Codes, CodeExpires(c) PROVE Stores'
  BY <1>7, StoresFrame DEF CodeExpires, agentVars
<1>8. ASSUME NEW a \in Agents, NEW c \in Codes,
             PairCommand(a, c) \/ RefuseCode(a, c) \/ BeginComplete(a, c)
      PROVE  Stores'
  <2>1. CASE PairCommand(a, c)
    BY <2>1, StoresFrame DEF PairCommand, PairTypeOK
  <2>2. CASE RefuseCode(a, c)
    <3>1. \A b \in Agents : command'[b] = command[b] \/ command'[b].at = "idle"
      BY <2>2, AnsweredType DEF RefuseCode, Refused
    <3>2. QED
      BY <2>2, <3>1, StoresFrame DEF RefuseCode
  <2>3. CASE BeginComplete(a, c)
    BY <2>3, StoresFrame DEF BeginComplete, agentVars
  <2>4. QED
    BY <1>8, <2>1, <2>2, <2>3
<1>9. ASSUME NEW a \in Agents,
             AnswerLost(a) \/ StoreHub(a) \/ StoreHubFails(a) \/ SaveURLFails(a)
      PROVE  Stores'
  BY <1>9, StoresFrame
     DEF AnswerLost, StoreHub, StoreHubFails, SaveURLFails, PairTypeOK
<1>10. ASSUME NEW a \in Agents, SaveURL(a) PROVE Stores'
  <2>1. a \in peersFile \cup removed
    BY <1>10 DEF SaveURL, Stores
  <2>2. \A b \in Agents : command'[b] = command[b] \/ command'[b].at = "idle"
    BY <1>10 DEF SaveURL, PairTypeOK
  <2>3. QED
    BY <1>10, <2>1, <2>2 DEF SaveURL, Stores
<1>11. ASSUME NEW a \in Agents, RemovePeer(a) PROVE Stores'
  <2>1. peersFile' \cup removed' = peersFile \cup removed /\ peersFile' \subseteq peersFile
    BY <1>11 DEF RemovePeer, Stores
  <2>2. QED
    BY <1>11, <2>1 DEF RemovePeer, Stores, agentVars
<1>12. QED
  BY <1>1, <1>2, <1>3, <1>4, <1>5, <1>6, <1>7, <1>8, <1>9, <1>10, <1>11
     DEF PairNext, AgentNext

-----------------------------------------------------------------------------
(* The invariant is inductive.                                               *)
THEOREM PairInvariance == PairSpec => []PairInv
<1>1. PairInv /\ PairNext => PairInv'
  BY PairTypeStep, CompletionStep, PaymentsStep, StoresStep DEF PairInv
<1>2. PairInv /\ UNCHANGED pairVars => PairInv'
  BY PairStutter
<1>3. QED
  BY <1>1, <1>2, PairInitInv, PTL DEF PairSpec

(* A set whose members are all equal has at most one.                        *)
LEMMA AtMostOne ==
    ASSUME NEW S, \A a, b \in S : a = b
    PROVE  Cardinality(S) <= 1
<1>1. CASE S = {}
  BY <1>1, FS_EmptySet
<1>2. ASSUME NEW a \in S PROVE Cardinality(S) <= 1
  <2>1. S = {a}
    BY <1>2
  <2>2. QED
    BY <2>1, FS_Singleton
<1>3. QED
  BY <1>1, <1>2

(* A code pays for one peer, with any number of codes, requests and crashes  *)
(* (pairing.go:73-89, handler.go:349-357).                                   *)
THEOREM CodesPayForPeers == PairSpec => []CodePaysForPeer
<1>1. PairInv => CodePaysForPeer
  BY AtMostOne DEF PairInv, Payments, CodePaysForPeer
<1>2. QED
  BY <1>1, PairInvariance, PTL

(* Who reads that it is paired is in the hub's store until it is removed,    *)
(* and no two peers have one name (peers.go:145-191, pair.go:159-171).       *)
THEOREM ReportedArePaired == PairSpec => []ReportedIsPaired
<1>1. PairInv => ReportedIsPaired
  BY DEF PairInv, Stores, ReportedIsPaired
<1>2. QED
  BY <1>1, PairInvariance, PTL
=============================================================================
