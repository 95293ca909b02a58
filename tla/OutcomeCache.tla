----------------------------- MODULE OutcomeCache -----------------------------
(***************************************************************************)
(* The requests an agent receives and the outcomes it remembers, so that a *)
(* request that arrives again is not executed again                        *)
(* (RequestDispatcher.Dispatch and OutcomeCache.Do, pkg/peer/dispatcher.go)*)
(*                                                                         *)
(* Every request is a goroutine, numbered in the order of entry.  Between  *)
(* the test of its deadline and its entry into the cache no unit of the    *)
(* clock passes.  The agent gives its requests a context that never ends   *)
(* (client.go, handleRuntimeRequest), so one that joins an execution waits *)
(* as long as that takes.                                                  *)
(***************************************************************************)
EXTENDS Integers, FiniteSets

CONSTANTS
    MaxArrivals,    \* bound: requests that arrive at the agent
    RequestIDs,     \* what names them
    Payloads,       \* operation, target and payload: what the digest is of
    Horizon,        \* a deadline is at most this far away (ten seconds)
    TTL,            \* an outcome is remembered for this long (five minutes)
    MaxEntries,     \* capacity of the cache (1024 in the code)
    MaxTime         \* bound of the clock

ASSUME OutcomeCacheAssumption ==
    /\ MaxArrivals \in Nat
    /\ RequestIDs # {} /\ Payloads # {}
    /\ TTL \in Nat \ {0} /\ Horizon \in 1 .. TTL
    /\ MaxEntries \in Nat \ {0}
    /\ MaxTime \in Nat

Arrivals == 1 .. MaxArrivals

NoArrival == 0

(* A result too large to be kept is replaced by an error.                    *)
Terminal == {"result", "error"}

NotExecuted == {"invalid-target", "request-conflict", "cache-full"}

VARIABLES
    time,           \* the agent's clock
    deadline,       \* of each request, once the hub has made it
    asked,          \* the identifier and payload a goroutine came with
    doing,          \* idle, executing, joined, answered
    joined,         \* the execution whose outcome it waits for
    replied,        \* what it answered
    entries,        \* OutcomeCache.entries: the execution remembered for an identifier
    expires,        \* when the outcome of an execution is forgotten, once it is known
    executions      \* history: how often a request was executed

outcomeVars == <<time, deadline, asked, doing, joined, replied, entries, expires, executions>>

Times == 0 .. MaxTime + TTL

NoTime == -1

OutcomeTypeOK ==
    /\ time \in 0 .. MaxTime
    /\ deadline \in [RequestIDs -> Times \cup {NoTime}]
    /\ asked \in [Arrivals -> RequestIDs \X Payloads]
    /\ doing \in [Arrivals -> {"idle", "executing", "joined", "answered"}]
    /\ joined \in [Arrivals -> Arrivals \cup {NoArrival}]
    /\ replied \in [Arrivals -> Terminal \cup NotExecuted \cup {"none"}]
    /\ entries \in [RequestIDs -> Arrivals \cup {NoArrival}]
    /\ expires \in [Arrivals -> Times \cup {NoTime}]
    /\ executions \in [RequestIDs -> 0 .. Cardinality(Arrivals)]

(* A goroutine that is idle has not been asked anything yet.                 *)
OutcomeInit ==
    /\ time = 0
    /\ deadline = [i \in RequestIDs |-> NoTime]
    /\ asked = [a \in Arrivals |-> CHOOSE x \in RequestIDs \X Payloads : TRUE]
    /\ doing = [a \in Arrivals |-> "idle"]
    /\ joined = [a \in Arrivals |-> NoArrival]
    /\ replied = [a \in Arrivals |-> "none"]
    /\ entries = [i \in RequestIDs |-> NoArrival]
    /\ expires = [a \in Arrivals |-> NoTime]
    /\ executions = [i \in RequestIDs |-> 0]

-----------------------------------------------------------------------------

Tick ==
    /\ time < MaxTime /\ time' = time + 1
    /\ UNCHANGED <<deadline, asked, doing, joined, replied, entries, expires, executions>>

(* The hub makes a request and gives it a deadline.                          *)
MakeRequest(i) ==
    /\ deadline[i] = NoTime
    /\ deadline' = [deadline EXCEPT ![i] = time + Horizon]
    /\ UNCHANGED <<time, asked, doing, joined, replied, entries, expires, executions>>

Complete(a) == expires[a] # NoTime

(* A defect: the zero time of an execution under way has passed, too.        *)
ExpiredRunning(a) == time >= expires[a]

(* An execution that has not ended is never swept.                           *)
Expired(a) == Complete(a) /\ time >= expires[a]

Swept ==
    [i \in RequestIDs |->
        IF entries[i] # NoArrival /\ Expired(entries[i]) THEN NoArrival ELSE entries[i]]

Full(table) == Cardinality({i \in RequestIDs : table[i] # NoArrival}) >= MaxEntries

Reply(a, code) ==
    /\ doing' = [doing EXCEPT ![a] = "answered"]
    /\ replied' = [replied EXCEPT ![a] = code]

(* Dispatch validates the deadline, and Do sweeps the cache first.           *)
Dispatch(a, i, p) ==
    /\ doing[a] = "idle" /\ \A b \in 1 .. a - 1 : doing[b] # "idle"
    /\ deadline[i] # NoTime
    /\ asked' = [asked EXCEPT ![a] = <<i, p>>]
    /\ \/ /\ time >= deadline[i] /\ Reply(a, "invalid-target")
          /\ UNCHANGED <<joined, entries, executions>>
       \/ /\ time < deadline[i] /\ Swept[i] # NoArrival
          /\ entries' = Swept
          /\ IF asked[Swept[i]][2] # p
             THEN Reply(a, "request-conflict") /\ UNCHANGED joined
             ELSE /\ doing' = [doing EXCEPT ![a] = "joined"]
                  /\ joined' = [joined EXCEPT ![a] = Swept[i]]
                  /\ UNCHANGED replied
          /\ UNCHANGED executions
       \/ /\ time < deadline[i] /\ Swept[i] = NoArrival
          /\ IF Full(Swept)
             THEN Reply(a, "cache-full") /\ entries' = Swept /\ UNCHANGED executions
             ELSE /\ doing' = [doing EXCEPT ![a] = "executing"]
                  /\ entries' = [Swept EXCEPT ![i] = a]
                  /\ executions' = [executions EXCEPT ![i] = @ + 1]
                  /\ UNCHANGED replied
          /\ UNCHANGED joined
    /\ UNCHANGED <<time, deadline, expires>>

(* The execution ends without the mutex; its outcome is stored under it.     *)
Execute(a, outcome) ==
    /\ doing[a] = "executing"
    /\ expires' = [expires EXCEPT ![a] = time + TTL]
    /\ Reply(a, outcome)
    /\ UNCHANGED <<time, deadline, asked, joined, entries, executions>>

(* It waits for the execution it found, even if that is forgotten meanwhile. *)
Joined(a) ==
    /\ doing[a] = "joined" /\ Complete(joined[a])
    /\ Reply(a, replied[joined[a]])
    /\ UNCHANGED <<time, deadline, asked, joined, entries, expires, executions>>

OutcomeNext ==
    \/ Tick
    \/ \E i \in RequestIDs : MakeRequest(i)
    \/ \E a \in Arrivals, i \in RequestIDs, p \in Payloads : Dispatch(a, i, p)
    \/ \E a \in Arrivals, o \in Terminal : Execute(a, o)
    \/ \E a \in Arrivals : Joined(a)

OutcomeSpec == OutcomeInit /\ [][OutcomeNext]_outcomeVars

-----------------------------------------------------------------------------

(* However often a request arrives before its deadline, while it runs, when  *)
(* its outcome is known and when that has been forgotten: it is executed at  *)
(* most once, everybody who hears of an outcome hears of the same one and    *)
(* asked for the same thing, and no more outcomes are held than the cache    *)
(* may hold, those still to come included (dispatcher.go:96-142).  The       *)
(* deadline is what makes it so: it must not be later than an outcome lasts. *)
RetriesAreSafe ==
    /\ \A i \in RequestIDs : executions[i] <= 1
    /\ \A a, b \in Arrivals :
           {replied[a], replied[b]} \subseteq Terminal /\ asked[a][1] = asked[b][1]
               => replied[a] = replied[b] /\ asked[a][2] = asked[b][2]
    /\ Cardinality({i \in RequestIDs : entries[i] # NoArrival}) <= MaxEntries
=============================================================================
