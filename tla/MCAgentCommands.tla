-------------------------- MODULE MCAgentCommands --------------------------
(* Two commands to one agent. *)
EXTENDS AgentCommands

CONSTANTS pull, restart

MCCommand == {pull, restart}
=============================================================================
