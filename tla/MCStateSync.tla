----------------------------- MODULE MCStateSync -----------------------------
(* Small instances of StateSync for TLC.                                     *)
EXTENDS StateSync, TLC

CONSTANTS k1, k2, on, off, p1, p2, c1, c2

MCValues == {on, off}

Up(k, v) == [key |-> k, value |-> v]

(* Upserts, a remove, and a batch whose last operation wins.                 *)
MCBatches == {<<Up(k1, on)>>, <<Up(k1, Absent)>>, <<Up(k1, on), Up(k1, off)>>}

(* The fewest with which a commit can take back what the one before did.     *)
MCFewBatches == {<<Up(k1, on)>>, <<Up(k1, Absent)>>}

(* Entries that are missed, not overwritten, when a delta is lost.           *)
MCTwoKeyBatches == {<<Up(k1, on), Up(k1, off)>>, <<Up(k1, Absent), Up(k2, on)>>, <<Up(k2, off)>>}

(* The third hub process speaks another schema than the first two.           *)
MCSchema == [i \in 1 .. MaxInstance |-> IF i <= 2 THEN 1 ELSE 2]
=============================================================================
