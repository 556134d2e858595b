----------------------------- MODULE WorkspaceMeta ----------------------------
(* The targets of a workspace (workspaces/manager.py: meta.yaml, read and written *)
(* whole at each access, without a lock), the commands /target and /workspace of *)
(* the interfaces (interface/tui.py) and `pentestagent workspace', and what the   *)
(* agent of an interface is told of its target. The reads of one command are one *)
(* step, and each write is two: the file is emptied and then filled.             *)
EXTENDS Workspaces, Naturals, Sequences

CONSTANTS
    Interfaces,     \* programs with an agent; the others are commands
    Names, Networks,    \* targets: host names, and sets of addresses
    NoTarget,
    MaxMessages     \* bound: messages about targets in a history

VARIABLES
    meta,       \* meta.yaml of each workspace: targets and last_target
    editing,    \* the command that each program is in
    target,     \* target of the interface and of its agent
    manual,     \* programs whose agent has a _manual_target
    told,       \* what the history of each agent says of targets
    archive,    \* meta.yaml in the archive of each workspace
    granted     \* history: targets the operator gave to each workspace

metaVars == <<meta, editing, target, manual, told, archive, granted>>

Targets == Names \cup Networks

NoMeta == [there |-> "no", targets |-> {}, last |-> NoTarget]
NewMeta == [NoMeta EXCEPT !.there = "whole"]
\* A write that was cut short leaves a file that is read as a new one.
Emptied == [NoMeta EXCEPT !.there = "empty"]
NotEditing == [step |-> "no", edit |-> "none", name |-> NoWorkspace, meta |-> NoMeta]

MetaInit ==
    /\ meta = [w \in Workspaces |-> NoMeta]
    /\ archive = meta
    /\ editing = [p \in Programs |-> NotEditing]
    /\ target = [p \in Programs |-> NoTarget]
    /\ manual = {}
    /\ told = [p \in Programs |-> <<>>]
    /\ granted = [w \in Workspaces |-> {}]

Ready(p) == editing[p].step = "no"
EditMoves(p, step) == editing' = [editing EXCEPT ![p].step = step]
Done(p) == editing' = [editing EXCEPT ![p] = NotEditing]

\* _read_meta, of which the command will write a version of its own.
Writes(p, edit, w, new) ==
    editing' = [editing EXCEPT ![p] = [step |-> "writes", edit |-> edit, name |-> w, meta |-> new]]

Tell(p, history, by, t) ==
    [told EXCEPT ![p] = Append(history, [by |-> by, target |-> t])]

(* Commands. *)

\* /target: the agent is told, and the workspace that is active keeps the target.
SetTarget(p, t) ==
    /\ p \in Interfaces /\ Ready(p) /\ Len(told[p]) < MaxMessages
    /\ target' = [target EXCEPT ![p] = t]
    /\ told' = Tell(p, told[p], "operator", t)
    /\ manual' = manual \cup {p}
    /\ IF active = NoWorkspace
         THEN UNCHANGED <<editing, granted>>
         ELSE /\ Writes(p, "target", active, [there |-> "whole", last |-> t,
                                              targets |-> meta[active].targets \cup {t}])
              /\ granted' = [granted EXCEPT ![active] = @ \cup {t}]
    /\ UNCHANGED <<active, meta, archive>>

\* /workspace note: set_operator_note.
SetOperatorNote(p, w) ==
    /\ Ready(p)
    /\ Writes(p, "note", w, [meta[w] EXCEPT !.there = "whole"])
    /\ UNCHANGED <<active, meta, target, manual, told, archive, granted>>

\* /workspace NAME: create, the marker, the time, and the target to restore.
Activate(p, w) ==
    /\ Ready(p)
    /\ IF meta[w].there # "no"
         THEN editing' = [editing EXCEPT ![p] = [NotEditing EXCEPT !.step = "marks", !.name = w]]
         ELSE Writes(p, "create", w, NewMeta)
    /\ UNCHANGED <<active, meta, target, manual, told, archive, granted>>

Marks(p) ==
    /\ editing[p].step = "marks"
    /\ active' = editing[p].name
    /\ EditMoves(p, "stamps")
    /\ UNCHANGED <<meta, target, manual, told, archive, granted>>

Stamps(p) ==
    /\ editing[p].step = "stamps"
    /\ Writes(p, "stamp", editing[p].name, [meta[editing[p].name] EXCEPT !.there = "whole"])
    /\ UNCHANGED <<active, meta, target, manual, told, archive, granted>>

\* The agent is not told of the target it gets.
Applies(p) ==
    /\ editing[p].step = "applies"
    /\ LET last == meta[editing[p].name].last
       IN  target' = IF p \in Interfaces /\ last # NoTarget THEN [target EXCEPT ![p] = last]
                                                            ELSE target
    /\ Done(p)
    /\ UNCHANGED <<active, meta, manual, told, archive, granted>>

\* /workspace without a name: the agent is told, and its manual target superseded.
ShowWorkspace(p) ==
    /\ p \in Interfaces /\ Ready(p) /\ Len(told[p]) < MaxMessages
    /\ active # NoWorkspace /\ meta[active].last # NoTarget
    /\ LET last == meta[active].last
           ByWorkspace(m) == m.by = "workspace"
           kept == IF p \in manual THEN SelectSeq(told[p], ByWorkspace) ELSE told[p]
       IN  /\ target' = [target EXCEPT ![p] = last]
           /\ told' = Tell(p, kept, "workspace", last)
    /\ manual' = manual \ {p}
    /\ UNCHANGED <<active, meta, editing, archive, granted>>

\* /workspace clear.
ClearWorkspace(p) ==
    /\ Ready(p) /\ p \in Interfaces => Len(told[p]) < MaxMessages
    /\ ClearActive
    /\ IF p \in Interfaces
         THEN /\ target' = [target EXCEPT ![p] = NoTarget]
              /\ manual' = manual \ {p}
              /\ told' = Tell(p, told[p], "workspace", NoTarget)
         ELSE UNCHANGED <<target, manual, told>>
    /\ UNCHANGED <<meta, editing, archive, granted>>

(* Writing. *)

OpensMeta(p) ==
    /\ editing[p].step = "writes"
    /\ meta' = [meta EXCEPT ![editing[p].name] = Emptied]
    /\ EditMoves(p, "fills")
    /\ UNCHANGED <<active, target, manual, told, archive, granted>>

\* What follows a write that has ended.
NextStep(p) ==
    CASE editing[p].edit = "create" -> EditMoves(p, "marks")
      [] editing[p].edit = "stamp" -> EditMoves(p, "applies")
      [] OTHER -> Done(p)

FillsMeta(p) ==
    /\ editing[p].step = "fills"
    /\ meta' = [meta EXCEPT ![editing[p].name] = editing[p].meta]
    /\ NextStep(p)
    /\ UNCHANGED <<active, target, manual, told, archive, granted>>

\* The disk is full. Only a new workspace is given up.
FillFails(p) ==
    /\ editing[p].step = "fills"
    /\ IF editing[p].edit = "create" THEN Done(p) ELSE NextStep(p)
    /\ UNCHANGED <<active, meta, target, manual, told, archive, granted>>

(* Archives. *)

Export(w) ==
    /\ meta[w].there # "no"
    /\ archive' = [archive EXCEPT ![w] = meta[w]]
    /\ UNCHANGED <<active, meta, editing, target, manual, told, granted>>

\* Here or on another machine, where there is no workspace of that name.
Import(w) ==
    /\ archive[w].there = "whole" /\ meta[w].there = "no"
    /\ meta' = [meta EXCEPT ![w] = archive[w]]
    /\ UNCHANGED <<active, editing, target, manual, told, archive, granted>>

\* The operator deletes the directory of a workspace that is not active.
Delete(w) ==
    /\ meta[w].there # "no" /\ w # active
    /\ \A p \in Programs : editing[p].name # w
    /\ meta' = [meta EXCEPT ![w] = NoMeta]
    /\ UNCHANGED <<active, editing, target, manual, told, archive, granted>>

(* Programs. *)

\* /clear, or a task of the autonomous mode: the history goes, _manual_target stays.
ForgetHistory(p) ==
    /\ told[p] # <<>>
    /\ told' = [told EXCEPT ![p] = <<>>]
    /\ UNCHANGED <<active, meta, editing, target, manual, archive, granted>>

\* Killed at any point, and started with --target or with that of its last session.
Restart(p) ==
    /\ Done(p)
    /\ \E t \in Targets \cup {NoTarget} : target' = [target EXCEPT ![p] = t]
    /\ told' = [told EXCEPT ![p] = <<>>]
    /\ manual' = manual \ {p}
    /\ UNCHANGED <<active, meta, archive, granted>>

MetaStep(p) ==
    \/ \E t \in Targets : SetTarget(p, t)
    \/ \E w \in Workspaces : SetOperatorNote(p, w) \/ Activate(p, w)
    \/ Marks(p) \/ Stamps(p) \/ Applies(p) \/ ShowWorkspace(p) \/ ClearWorkspace(p)
    \/ OpensMeta(p) \/ FillsMeta(p) \/ FillFails(p) \/ ForgetHistory(p)

\* is_target_in_scope, of a target in a call and one that is allowed: addresses
\* and networks by what they contain, names when they are the same.
Covers(allowed, t) ==
    IF t \in Names THEN allowed = t ELSE allowed \in Networks /\ t \subseteq allowed

\* What _execute_tools asks before a tool runs on a target.
InScope(t) ==
    active # NoWorkspace => \E a \in meta[active].targets : Covers(a, t)

MetaTypeOK ==
    LET Metas == [there : {"no", "empty", "whole"}, targets : SUBSET Targets, last : Targets \cup {NoTarget}]
    IN  /\ active \in Scopes
        /\ meta \in [Workspaces -> Metas] /\ archive \in [Workspaces -> Metas]
        /\ editing \in [Programs -> [step : {"no", "writes", "fills", "marks", "stamps", "applies"},
                                     edit : {"none", "target", "note", "create", "stamp"},
                                     name : Scopes, meta : Metas]]
        /\ target \in [Programs -> Targets \cup {NoTarget}]
        /\ manual \subseteq Programs
        /\ \A p \in Programs : told[p] \in Seq([by : {"operator", "workspace"}, target : Targets \cup {NoTarget}])
        /\ granted \in [Workspaces -> SUBSET Targets]

\* base_agent.py:639: "Set workspace targets with /target". What a workspace allows,
\* the operator has given to that workspace: commands of other programs and of other
\* workspaces, lost updates, files cut short, archives and kills add nothing.
OnlyGrantedInScope ==
    \A t \in Targets :
        active # NoWorkspace /\ InScope(t) => \E a \in granted[active] : Covers(a, t)

\* tui.py:3434: "Inform the agent (LLM) that the operator changed the target so
\* subsequent generations use the new value instead of older workspace-bound targets".
\* What the agent is told last of its target, if anything, is its target.
AgentIsToldItsTarget ==
    \A p \in Interfaces :
        Ready(p) /\ told[p] # <<>> => told[p][Len(told[p])].target = target[p]
===============================================================================
