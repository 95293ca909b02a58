---------------------------- MODULE MCHostProjection ----------------------------
(***************************************************************************)
(* One tmux session, the local host and one agent.                         *)
(***************************************************************************)
EXTENDS HostProjection

CONSTANTS local, agent, s1
=============================================================================
