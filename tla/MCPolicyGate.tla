---------------------------- MODULE MCPolicyGate -----------------------------
(* An agent and a crew worker share the gate of a pentest VM on a LAN with one *)
(* host in scope.  The calls: a scan of that host, which runs freely; an       *)
(* opaque local shell command and a browser script, which need approval; and a *)
(* scan whose command names another host than it declares.                     *)
EXTENDS PolicyGate, TLC

CONSTANTS agent, worker

MCCallers == {agent, worker}
Symmetry == Permutations(MCCallers)
MCScope == {"inside"}
MCRoots == {"project"}

Terminal(opaque, targets, cmdTargets) ==
    [tool |-> "terminal", metadata |-> "active", declared |-> TRUE, riskArg |-> "recon",
     pattern |-> NoRisk, opaque |-> opaque, script |-> FALSE,
     netProgram |-> targets # {}, netDeclared |-> targets # {}, network |-> FALSE,
     brokerOnly |-> FALSE, targets |-> targets,
     words |-> {[kind |-> "address", target |-> t] : t \in cmdTargets},
     inputs |-> {Store}, outputs |-> {"project"}]

Scan == Terminal(FALSE, {"inside"}, {"inside"})
Shell == Terminal(TRUE, {}, {})
Stray == Terminal(FALSE, {"inside"}, {"outside"})
Script == [Scan EXCEPT !.tool = "browser", !.script = TRUE, !.network = TRUE]

MCCalls == {Scan, Shell, Stray, Script}
===============================================================================
