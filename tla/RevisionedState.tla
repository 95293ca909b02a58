--------------------------- MODULE RevisionedState ---------------------------
(***************************************************************************)
(* What revisioned state synchronisation promises, with none of its        *)
(* machinery: hub instances commit a growing set of numbered states, and   *)
(* each page shows one of the committed states and only ever moves forward *)
(* in the order (instance, revision).  StateSync implements it.            *)
(***************************************************************************)
EXTENDS Projection

CONSTANT Pages     \* browser pages that follow the hub

VARIABLES
    committed, \* every state any hub instance has committed
    view       \* view[p]: the committed state page p shows

absVars == <<committed, view>>

AbsInit ==
    /\ committed = {[inst |-> 1, rev |-> 0, proj |-> NewProjection]}
    /\ view = [p \in Pages |-> NoView]

(* A commit or a restart adds one state that is later than all the others. *)
AbsCommit ==
    /\ \E s \in committed' :
        /\ s \in States
        /\ \A t \in committed : NotAfter(t, s) /\ ~NotAfter(s, t)
        /\ committed' = committed \cup {s}
    /\ UNCHANGED view

(* A page moves to a committed state that is not older than the one shown. *)
AbsAdvance(p) ==
    /\ \E s \in committed :
        /\ Forward(view[p], s)
        /\ view' = [view EXCEPT ![p] = s]
    /\ UNCHANGED committed

(* Loading the page again forgets what it showed. *)
AbsReload(p) ==
    /\ view' = [view EXCEPT ![p] = NoView]
    /\ UNCHANGED committed

AbsNext == AbsCommit \/ \E p \in Pages : AbsAdvance(p) \/ AbsReload(p)

AbsSpec == AbsInit /\ [][AbsNext]_absVars
=============================================================================
