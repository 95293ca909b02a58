----------------------------- MODULE Projection -----------------------------
(***************************************************************************)
(* The browser-visible state of the hub (pkg/state) as a value: one map    *)
(* from stable keys to values stands for the eight maps of the Go struct   *)
(* Projection, whose keys never collide because each kind of key carries   *)
(* its own path segment.  Operations are the upsert-... and remove-...     *)
(* members of the Operation union: an upsert carries a value, a remove     *)
(* carries none.  Every operator here is pure; both the coordinator (Go)   *)
(* and the reducer (TypeScript) apply batches of operations with it.       *)
(***************************************************************************)
EXTENDS Integers, Sequences

CONSTANTS
    Keys,      \* stable host, session, window, pane, tool-event, ... keys
    Values,    \* the values an entry can hold
    Absent,    \* the key has no entry in the map
    NoView     \* what a browser page shows before its first snapshot

Projections == [Keys -> Values \cup {Absent}]

(* A committed state: the hub process, its revision, the projection.       *)
States == [inst : Nat, rev : Nat, proj : Projections]

ASSUME ProjectionAssumption ==
    /\ Absent \notin Values
    /\ NoView \notin States

NewProjection == [k \in Keys |-> Absent]

(* Upserts carry a value; a remove is the operation whose value is Absent. *)
Operations == [key : Keys, value : Values \cup {Absent}]

(* What the last operation of a batch that touches key k leaves there, as a *)
(* set: empty when no operation does.                                       *)
LastWrite(batch, k) ==
    {batch[i].value : i \in
        {i \in DOMAIN batch :
            /\ batch[i].key = k
            /\ \A j \in DOMAIN batch : j > i => batch[j].key # k}}

(* Applying the operations of a batch, one after the other, to a clone.     *)
ApplyBatch(proj, batch) ==
    [k \in Keys |->
        IF LastWrite(batch, k) = {}
        THEN proj[k]
        ELSE CHOOSE v \in LastWrite(batch, k) : TRUE]

(* State s is older than t, or is at the same position.                    *)
NotAfter(s, t) == s.inst < t.inst \/ (s.inst = t.inst /\ s.rev <= t.rev)

(* A page that shows v may show w next without going back in time.         *)
Forward(v, w) == v = NoView \/ (w # NoView /\ NotAfter(v, w))
=============================================================================
