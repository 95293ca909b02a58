-------------------------------- MODULE Pairing --------------------------------
(***************************************************************************)
(* Pairing an agent with the hub: the hub's one-time codes, the            *)
(* request of the agent's command line, the hub's peer store, and what the *)
(* agent keeps of the hub (pkg/identity, pkg/peer/handler.go,              *)
(* pkg/commands/pair).  The two sides share nothing but one HTTP request,  *)
(* whose answer may be lost; the hub may crash at any point and forgets    *)
(* its codes.                                                              *)
(***************************************************************************)
EXTENDS Integers, FiniteSets

CONSTANTS
    Agents,         \* each has a key of its own
    NameOf,         \* the name of an agent; two may have the same
    Codes,          \* pairing codes, each drawn once
    NoCode,         \* no pairing is being completed, none was asked for
    NoRequest,      \* nobody holds the mutex of the codes
    MaxPending,     \* the capacity of the codes, 32 in the code
    MaxFaults       \* bound: crashes, lost answers, saves that fail

ASSUME PairingAssumption ==
    /\ DOMAIN NameOf = Agents
    /\ NoCode \notin Codes
    /\ NoRequest \notin Agents \X Codes
    /\ MaxPending \in Nat \ {0} /\ MaxFaults \in Nat

VARIABLES
    hubUp,          \* the hub runs
    codes,          \* PairingManager.codes, and what became of the others
    completing,     \* the request that holds the mutex of the codes
    persisted,      \* its commit has succeeded
    requests,       \* requests the hub has still to handle
    peers,          \* PeerStore.store of the hub
    peersFile,      \* its peers.json
    command,        \* the pair command of each agent
    hubKnown,       \* agents that have the hub in their own peer store
    urlSaved,       \* agents that have the hub's URL in their environment
    pairedBy,       \* history: the agents that were added by each code
    reported,       \* history: agents whose operator read that they are paired
    removed,        \* history: agents removed since they were added
    faults          \* counts crashes, lost answers and saves that fail

hubVars == <<hubUp, codes, completing, persisted, requests, peers, peersFile>>
agentVars == <<command, hubKnown, urlSaved>>
historyVars == <<pairedBy, reported, removed>>
pairVars == <<hubVars, agentVars, historyVars, faults>>

CodeStates == {"unused", "pending", "expired", "swept", "spent", "lost"}
Commands == [at : {"idle", "waiting", "answered", "stored"}, code : Codes \cup {NoCode}]
NoCommand == [at |-> "idle", code |-> NoCode]

PairTypeOK ==
    /\ hubUp \in BOOLEAN /\ persisted \in BOOLEAN
    /\ codes \in [Codes -> CodeStates]
    /\ completing \in (Agents \X Codes) \cup {NoRequest}
    /\ requests \subseteq Agents \X Codes
    /\ peers \subseteq Agents /\ peersFile \subseteq Agents
    /\ command \in [Agents -> Commands]
    /\ hubKnown \subseteq Agents /\ urlSaved \subseteq Agents
    /\ pairedBy \in [Codes -> SUBSET Agents]
    /\ reported \subseteq Agents /\ removed \subseteq Agents
    /\ faults \in 0 .. MaxFaults

Faults == faults < MaxFaults /\ faults' = faults + 1

-----------------------------------------------------------------------------
(* The hub's codes *)

Pending == {c \in Codes : codes[c] = "pending"}

(* cleanupLocked, then the capacity.                                         *)
GenerateCode ==
    /\ hubUp /\ completing = NoRequest
    /\ Cardinality(Pending) < MaxPending
    /\ \E c \in Codes :
         /\ codes[c] = "unused"
         /\ codes' = [d \in Codes |-> IF d = c THEN "pending"
                                      ELSE IF codes[d] = "expired" THEN "swept" ELSE codes[d]]
    /\ UNCHANGED <<hubUp, completing, persisted, requests, peers, peersFile, agentVars,
                   historyVars, faults>>

CodeExpires(c) ==
    /\ codes[c] = "pending"
    /\ \A a \in Agents : completing # <<a, c>>
    /\ codes' = [codes EXCEPT ![c] = "expired"]
    /\ UNCHANGED <<hubUp, completing, persisted, requests, peers, peersFile, agentVars,
                   historyVars, faults>>

(* The answer reaches the command of a that still waits for it.              *)
Answered(a, c, next) ==
    command' = IF command[a] = [at |-> "waiting", code |-> c]
               THEN [command EXCEPT ![a] = next] ELSE command

Refused(a, c) == Answered(a, c, NoCommand)

(* Complete takes the mutex of the codes.  What is not pending is refused,   *)
(* and forgotten if it had expired.                                          *)
RefuseCode(a, c) ==
    /\ hubUp /\ completing = NoRequest
    /\ <<a, c>> \in requests
    /\ codes[c] # "pending"
    /\ requests' = requests \ {<<a, c>>}
    /\ codes' = IF codes[c] = "expired" THEN [codes EXCEPT ![c] = "swept"] ELSE codes
    /\ Refused(a, c)
    /\ UNCHANGED <<hubUp, completing, persisted, peers, peersFile, hubKnown, urlSaved,
                   historyVars, faults>>

BeginComplete(a, c) ==
    /\ hubUp /\ completing = NoRequest
    /\ <<a, c>> \in requests
    /\ codes[c] = "pending"
    /\ requests' = requests \ {<<a, c>>}
    /\ completing' = <<a, c>>
    /\ UNCHANGED <<hubUp, codes, persisted, peers, peersFile, agentVars, historyVars, faults>>

Conflicts(a) == \E p \in peers : p = a \/ NameOf[p] = NameOf[a]

(* PeerStore.Add: the file first, then memory, under the store's mutex.      *)
CommitPeer ==
    LET a == completing[1]
        c == completing[2] IN
    /\ hubUp /\ completing # NoRequest /\ ~persisted
    /\ ~Conflicts(a)
    /\ peersFile' = peers \cup {a}
    /\ peers' = peersFile'
    /\ pairedBy' = [pairedBy EXCEPT ![c] = @ \cup {a}]
    /\ removed' = removed \ {a}
    /\ persisted' = TRUE
    /\ UNCHANGED <<hubUp, codes, completing, requests, agentVars, reported, faults>>

(* Defect: a code is used up by an attempt that fails.                       *)
CommitFailsForGood ==
    LET a == completing[1]
        c == completing[2] IN
    /\ hubUp /\ completing # NoRequest /\ ~persisted
    /\ Faults
    /\ codes' = [codes EXCEPT ![c] = "spent"]
    /\ completing' = NoRequest
    /\ Refused(a, c)
    /\ UNCHANGED <<hubUp, persisted, requests, peers, peersFile, hubKnown, urlSaved,
                   historyVars>>

(* The key or the name is known already, or the file refuses.                *)
CommitFails ==
    LET a == completing[1]
        c == completing[2] IN
    /\ hubUp /\ completing # NoRequest /\ ~persisted
    /\ \/ Conflicts(a) /\ UNCHANGED faults
       \/ Faults
    /\ completing' = NoRequest
    /\ Refused(a, c)
    /\ UNCHANGED <<hubUp, codes, persisted, requests, peers, peersFile, hubKnown, urlSaved,
                   historyVars>>

(* The code is used up only now; the answer names the hub.                   *)
ConsumeCode ==
    LET a == completing[1]
        c == completing[2] IN
    /\ hubUp /\ completing # NoRequest /\ persisted
    /\ codes' = [codes EXCEPT ![c] = "spent"]
    /\ completing' = NoRequest
    /\ persisted' = FALSE
    /\ Answered(a, c, [at |-> "answered", code |-> c])
    /\ UNCHANGED <<hubUp, requests, peers, peersFile, hubKnown, urlSaved, historyVars, faults>>

(* PeerStore.Remove, by the operator: file and memory, or neither.  While    *)
(* the hub is down the command opens the store itself.                       *)
RemovePeer(a) ==
    LET stored == IF hubUp THEN peers ELSE peersFile IN
    /\ a \in stored
    /\ peersFile' = stored \ {a}
    /\ peers' = IF hubUp THEN peersFile' ELSE peers
    /\ removed' = removed \cup {a}
    /\ UNCHANGED <<hubUp, codes, completing, persisted, requests, agentVars, pairedBy,
                   reported, faults>>

HubCrash ==
    /\ hubUp
    /\ Faults
    /\ hubUp' = FALSE
    /\ codes' = [c \in Codes |-> IF codes[c] \in {"pending", "expired"} THEN "lost" ELSE codes[c]]
    /\ completing' = NoRequest /\ persisted' = FALSE
    /\ requests' = {} /\ peers' = {}
    /\ command' = [a \in Agents |-> IF command[a].at = "waiting" THEN NoCommand ELSE command[a]]
    /\ UNCHANGED <<peersFile, hubKnown, urlSaved, historyVars>>

(* loadPeerStore.                                                            *)
HubStarts ==
    /\ ~hubUp
    /\ hubUp' = TRUE
    /\ peers' = peersFile
    /\ UNCHANGED <<codes, completing, persisted, requests, peersFile, agentVars, historyVars, faults>>

-----------------------------------------------------------------------------
(* The agent's command *)

PairCommand(a, c) ==
    /\ hubUp
    /\ command[a].at = "idle"
    /\ codes[c] # "unused"
    /\ <<a, c>> \notin requests /\ completing # <<a, c>>
    /\ command' = [command EXCEPT ![a] = [at |-> "waiting", code |-> c]]
    /\ requests' = requests \cup {<<a, c>>}
    /\ UNCHANGED <<hubUp, codes, completing, persisted, peers, peersFile, hubKnown,
                   urlSaved, historyVars, faults>>

(* The client's timeout, or the connection is lost; the request goes on.     *)
AnswerLost(a) ==
    /\ command[a].at = "waiting"
    /\ Faults
    /\ command' = [command EXCEPT ![a] = NoCommand]
    /\ UNCHANGED <<hubVars, hubKnown, urlSaved, historyVars>>

(* The hub goes to the agent's store, unless it is there or the file refuses.*)
StoreHub(a) ==
    /\ command[a].at = "answered"
    /\ a \notin hubKnown
    /\ hubKnown' = hubKnown \cup {a}
    /\ command' = [command EXCEPT ![a].at = "stored"]
    /\ UNCHANGED <<hubVars, urlSaved, historyVars, faults>>

StoreHubFails(a) ==
    /\ command[a].at = "answered"
    /\ \/ a \in hubKnown /\ UNCHANGED faults
       \/ Faults
    /\ command' = [command EXCEPT ![a] = NoCommand]
    /\ UNCHANGED <<hubVars, hubKnown, urlSaved, historyVars>>

(* SaveEnvValue; then the operator reads that the agent is paired.           *)
SaveURL(a) ==
    /\ command[a].at = "stored"
    /\ command' = [command EXCEPT ![a] = NoCommand]
    /\ urlSaved' = urlSaved \cup {a}
    /\ reported' = reported \cup {a}
    /\ UNCHANGED <<hubVars, hubKnown, pairedBy, removed, faults>>

SaveURLFails(a) ==
    /\ command[a].at = "stored"
    /\ Faults
    /\ command' = [command EXCEPT ![a] = NoCommand]
    /\ UNCHANGED <<hubVars, hubKnown, urlSaved, historyVars>>

-----------------------------------------------------------------------------
PairInit ==
    /\ hubUp = FALSE
    /\ codes = [c \in Codes |-> "unused"]
    /\ completing = NoRequest /\ persisted = FALSE
    /\ requests = {} /\ peers = {} /\ peersFile = {}
    /\ command = [a \in Agents |-> NoCommand]
    /\ hubKnown = {} /\ urlSaved = {} /\ reported = {} /\ removed = {}
    /\ pairedBy = [c \in Codes |-> {}]
    /\ faults = 0

AgentNext(a) ==
    \/ \E c \in Codes : PairCommand(a, c) \/ RefuseCode(a, c) \/ BeginComplete(a, c)
    \/ AnswerLost(a) \/ StoreHub(a) \/ StoreHubFails(a) \/ SaveURL(a) \/ SaveURLFails(a)
    \/ RemovePeer(a)

PairNext ==
    \/ GenerateCode \/ CommitPeer \/ CommitFails \/ ConsumeCode \/ HubCrash \/ HubStarts
    \/ \E c \in Codes : CodeExpires(c)
    \/ \E a \in Agents : AgentNext(a)

PairSpec == PairInit /\ [][PairNext]_pairVars

-----------------------------------------------------------------------------
(* A code pays for one peer: it adds at most one, is used up only by the     *)
(* peer it added, and is good for nobody else afterwards, with requests that *)
(* are repeated, that outlive their clients or race each other, and saves    *)
(* that fail (pairing.go:73-89, handler.go:349-357).                         *)
CodePaysForPeer ==
    \A c \in Codes :
        /\ Cardinality(pairedBy[c]) <= 1
        /\ codes[c] = "spent" => pairedBy[c] # {}
        /\ codes[c] = "pending" /\ pairedBy[c] # {} =>
             persisted /\ \E a \in pairedBy[c] : completing = <<a, c>>

(* An agent whose operator read that it is paired is in the hub's store and  *)
(* stays there until it is removed; no two peers have one name               *)
(* (peers.go:145-191, pair.go:159-171).                                      *)
ReportedIsPaired ==
    /\ \A a \in reported \ removed : a \in peersFile /\ (hubUp => a \in peers)
    /\ \A a, b \in peersFile : NameOf[a] = NameOf[b] => a = b
=============================================================================
