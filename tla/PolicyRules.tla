----------------------------- MODULE PolicyRules -----------------------------
(* The decision part of runtime/policy.py: SessionPolicy.evaluate up to the    *)
(* point where it consults the ApprovalStore.  It is a pure function of the    *)
(* session's policy and of one tool call.                                      *)
(*                                                                             *)
(* A tool call is a record.  What the regular expressions and parsers of the   *)
(* code find in a call's arguments is a field of it:                           *)
(*   tool        "terminal", "browser" or "other"                              *)
(*   metadata    the risk class in the tool's metadata, UnknownRisk if it has  *)
(*               none or one that is not of the classes                        *)
(*   declared    every required terminal declaration is present                *)
(*   riskArg     the risk class the caller declares, or UnknownRisk            *)
(*   pattern     the class of the first high-risk pattern the command matches, *)
(*               or NoRisk                                                     *)
(*   opaque      the command matches the opaque-shell pattern                  *)
(*   script      a browser call whose action is execute_js                     *)
(*   netProgram  the command names a network program                           *)
(*   netDeclared the call declares a network purpose and a network target      *)
(*   network     the tool's metadata asks for the network                      *)
(*   brokerOnly  ... but only through the broker                               *)
(*   targets     normalised targets from the target fields                     *)
(*   words       what the command names, as [kind, target]: an address or      *)
(*               network, a URL, or a name with a dot                          *)
(*   inputs      roots the declared input paths resolve below, Elsewhere among *)
(*               them if one is below none                                     *)
(*   outputs     ... and the output paths                                      *)
EXTENDS Integers, Sequences

CONSTANTS
    Profile,        \* runtime_profile of the session
    Network,        \* network_profile of the session
    Scope,          \* targets the host confirmed for the session
    Roots           \* project_root and output_root of the session, if it has them

Risks == {"recon", "active", "exploit", "credential", "persistence", "dos"}
NoRisk == "none"
UnknownRisk == "unknown"

ApprovalRequired == {"exploit", "credential", "persistence", "dos"}

(* ToolPolicyMetadata.from_mapping: a tool that does not say is an exploit.     *)
Baseline(call) == IF call.metadata = UnknownRisk THEN "exploit" ELSE call.metadata

ShellAllowed == Profile \in {"pentest-vm", "legacy-docker"}

(* _effective_terminal_risk: what the command shows outranks what the caller   *)
(* declares, and a declaration only raises the tool's own class.               *)
EffectiveTerminalRisk(call) ==
    CASE call.pattern # NoRisk -> call.pattern
      [] call.pattern = NoRisk /\ (call.opaque \/ Baseline(call) = "exploit") -> "exploit"
      [] OTHER ->
           IF call.riskArg \in ApprovalRequired THEN call.riskArg
           ELSE IF "active" \in {Baseline(call), call.riskArg} THEN "active"
           ELSE "recon"

Risk(call) ==
    CASE call.tool = "terminal" -> EffectiveTerminalRisk(call)
      [] call.tool = "browser" /\ call.script -> "exploit"
      [] OTHER -> Baseline(call)

(* Mutant: only the targets the caller declares count.                         *)
DeclaredTargets(call) == call.targets

(* _targets_from_command: a name counts only beside a network program.         *)
CommandTargets(call) ==
    {w.target : w \in {v \in call.words : v.kind = "name" => call.netProgram}}

(* Targets named by the fields, and for the terminal those in the command.     *)
TargetsOf(call) ==
    call.targets \cup (IF call.tool = "terminal" THEN CommandTargets(call) ELSE {})

(* Input paths may also be below the store of the system's programs.           *)
Elsewhere == "elsewhere"
Store == "/nix/store"
PathsAllowed(call) ==
    /\ call.inputs \subseteq Roots \cup {Store}
    /\ call.outputs \subseteq Roots

(* The refusals of evaluate, in the order of its early returns.                *)
Refusals(call) ==
    LET terminal == call.tool = "terminal"
        R(code, refused) == [code |-> code, refused |-> refused]
    IN  << R("missing-declaration", terminal /\ ~call.declared),
           R("invalid-risk", terminal /\ call.riskArg = UnknownRisk),
           R("host-shell-disabled", terminal /\ ~ShellAllowed),
           R("missing-network-target",
                \/ terminal /\ call.netProgram /\ ~call.netDeclared
                \/ call.network /\ ~call.brokerOnly /\ TargetsOf(call) = {}),
           R("network-offline", TargetsOf(call) # {} /\ Network = "offline"),
           R("out-of-scope", ~(TargetsOf(call) \subseteq Scope)),
           R("path-denied", ~PathsAllowed(call)) >>

(* The first refusal that applies; "pass", which is not a code of the source,  *)
(* stands for reaching the approval check.                                     *)
StaticCode(call) ==
    LET refusals == Refusals(call)
        hits == {i \in DOMAIN refusals : refusals[i].refused}
    IN  IF hits = {} THEN "pass"
        ELSE refusals[CHOOSE i \in hits : \A j \in hits : i <= j].code

(* evaluate consults the ApprovalStore for these.                              *)
NeedsApproval(call) == Risk(call) \in ApprovalRequired
=============================================================================
