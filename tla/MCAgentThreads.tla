--------------------------- MODULE MCAgentThreads ---------------------------
(* AgentThreads with the settings the agent is installed with,
   and with those of a PC that nothing is limited on. *)
EXTENDS AgentThreads
MCInitialDaily == [bed |-> 1, wake |-> 3, allowance |-> 2]
MCNoLimits == [bed |-> Unset, wake |-> 3, allowance |-> Unset]
=============================================================================
