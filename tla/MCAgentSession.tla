---------------------------- MODULE MCAgentSession ----------------------------
(* All three modes, and fewer for the counterexamples.                         *)
EXTENDS AgentSession

MCModes == {"assist", "interact", "agent"}
MCAgent == {"agent"}
MCAssist == {"assist"}
===============================================================================
