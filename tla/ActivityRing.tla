------------------------------ MODULE ActivityRing ------------------------------
(***************************************************************************)
(* The output of one tmux session, counted per bucket of time in a ring    *)
(* (pkg/activity/tracker.go).  Record reads the clock before it takes the  *)
(* session's mutex, so that two readers of the PTY may apply their counts  *)
(* in the other order; Get reads it inside.  The ring is advanced by both. *)
(***************************************************************************)
EXTENDS Integers

CONSTANTS
    Writers,        \* goroutines that forward output of the session
    BucketCount,    \* buckets of the ring, 20 in the code
    NotWriting,     \* the goroutine is not in the middle of a Record
    MaxClock,       \* bound: the bucket the clock can reach
    MaxBytes        \* bound: the output that is counted

ASSUME ActivityRingAssumption ==
    /\ BucketCount \in Nat \ {0} /\ MaxClock \in Nat /\ MaxBytes \in Nat
    /\ NotWriting \notin Nat

VARIABLES
    clock,          \* the wall clock, in buckets
    writing,        \* the clock as each writer has read it
    buckets,        \* SessionActivity.buckets
    headIdx,        \* SessionActivity.headIdx
    headTime,       \* SessionActivity.headTime
    totalBytes,     \* SessionActivity.totalBytes
    history         \* history: the output of each bucket of time

ringVars == <<clock, writing, buckets, headIdx, headTime, totalBytes, history>>

Ring == 0 .. BucketCount - 1
Clock == 0 .. MaxClock

RingTypeOK ==
    /\ clock \in Clock /\ headTime \in Clock
    /\ writing \in [Writers -> Clock \cup {NotWriting}]
    /\ buckets \in [Ring -> 0 .. MaxBytes]
    /\ headIdx \in Ring
    /\ totalBytes \in 0 .. MaxBytes
    /\ history \in [Clock -> 0 .. MaxBytes]

-----------------------------------------------------------------------------
(* The session is created by its first Record; time starts with it.          *)
RingInit ==
    /\ clock = 0 /\ headTime = 0 /\ headIdx = 0 /\ totalBytes = 0
    /\ writing = [w \in Writers |-> NotWriting]
    /\ buckets = [i \in Ring |-> 0]
    /\ history = [t \in Clock |-> 0]

(* Defect: after a long silence one bucket too few is cleared.               *)
StepsShort(t) ==
    IF t <= headTime THEN 0
    ELSE IF t - headTime >= BucketCount THEN BucketCount - 1
    ELSE t - headTime

(* Buckets to clear when the ring is brought to the time t: none when        *)
(* somebody else has brought it further, never more than there are.          *)
StepsTo(t) ==
    IF t <= headTime THEN 0
    ELSE IF t - headTime > BucketCount THEN BucketCount
    ELSE t - headTime

HeadAt(t) == (headIdx + StepsTo(t)) % BucketCount

ClearedTo(t) ==
    {(headIdx + i) % BucketCount : i \in 1 .. StepsTo(t)}

Advanced(t) == [i \in Ring |-> IF i \in ClearedTo(t) THEN 0 ELSE buckets[i]]

Later(t) == IF t > headTime THEN t ELSE headTime

TimePasses ==
    /\ \E t \in Clock : t > clock /\ clock' = t
    /\ UNCHANGED <<writing, buckets, headIdx, headTime, totalBytes, history>>

(* Record, before the mutex ...                                              *)
ReadClock(w) ==
    /\ writing[w] = NotWriting
    /\ writing' = [writing EXCEPT ![w] = clock]
    /\ UNCHANGED <<clock, buckets, headIdx, headTime, totalBytes, history>>

(* ... and under it.  Output whose time has passed counts as the newest.     *)
CountOutput(w, n) ==
    LET t == writing[w] IN
    /\ t # NotWriting
    /\ totalBytes + n <= MaxBytes
    /\ totalBytes' = totalBytes + n
    /\ buckets' = [Advanced(t) EXCEPT ![HeadAt(t)] = @ + n]
    /\ headIdx' = HeadAt(t)
    /\ headTime' = Later(t)
    /\ history' = [history EXCEPT ![Later(t)] = @ + n]
    /\ writing' = [writing EXCEPT ![w] = NotWriting]
    /\ UNCHANGED clock

(* Get advances the ring before it reads it.                                 *)
GetSnapshot ==
    /\ buckets' = Advanced(clock)
    /\ headIdx' = HeadAt(clock)
    /\ headTime' = Later(clock)
    /\ UNCHANGED <<clock, writing, totalBytes, history>>

RingNext ==
    \/ TimePasses
    \/ \E w \in Writers : ReadClock(w) \/ \E n \in 1 .. 2 : CountOutput(w, n)
    \/ GetSnapshot

RingSpec == RingInit /\ [][RingNext]_ringVars

-----------------------------------------------------------------------------
(* Get's sparkline, oldest bucket first.                                     *)
Sparkline == [i \in Ring |-> buckets[(headIdx + 1 + i) % BucketCount]]

(* The sparkline is the history: each of its buckets holds what was counted  *)
(* in that bucket of time, none that is older, however long nothing was      *)
(* counted and in whatever order the writers come (tracker.go:71-86 and      *)
(* 108-127).                                                                 *)
SparklineIsHistory ==
    \A i \in Ring :
        LET t == headTime - (BucketCount - 1) + i IN
        Sparkline[i] = IF t < 0 THEN 0 ELSE history[t]
=============================================================================
