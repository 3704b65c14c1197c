---------------------------- MODULE MCAgentCalls ----------------------------
(* A small instance of AgentCalls for TLC: the steps of MCToolGateway and   *)
(* the graphs of MCTestSelection; calls.cfg gives the processes and tokens  *)
(* of the store, of which one process is at work, and the budget.           *)
EXTENDS AgentCalls, MCToolGateway, MCTestSelection
=============================================================================
