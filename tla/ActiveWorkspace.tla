---------------------------- MODULE ActiveWorkspace ----------------------------
(* What depends on the active workspace: its targets (WorkspaceMeta) and its      *)
(* knowledge (Knowledge). Both are in its directory, and go with it into an       *)
(* archive; the programs that use them start and end together.                    *)
EXTENDS WorkspaceMeta, Knowledge

workspaceVars == <<active, metaVars, knowledgeVars>>

WorkspaceInit == WorkspacesInit /\ MetaInit /\ KnowledgeInit

\* Commands of the interfaces and of `pentestagent workspace'.
Commands(p) == MetaStep(p) /\ UNCHANGED knowledgeVars

\* The knowledge base of a program, and of the operator.
Indexes == KnowledgeNext /\ UNCHANGED metaVars

RestartProgram(p) == Restart(p) /\ EngineGoes(p)

ExportWorkspace(w) == Export(w) /\ KnowledgeExported(w)

ImportWorkspace(w) == Import(w) /\ KnowledgeImported(w)

DeleteWorkspace(w) == Delete(w) /\ KnowledgeDeleted(w)

WorkspaceNext ==
    \/ \E p \in Programs : Commands(p) \/ RestartProgram(p)
    \/ Indexes
    \/ \E w \in Workspaces : ExportWorkspace(w) \/ ImportWorkspace(w) \/ DeleteWorkspace(w)

WorkspaceSpec == WorkspaceInit /\ [][WorkspaceNext]_workspaceVars

WorkspaceTypeOK == MetaTypeOK /\ KnowledgeTypeOK
===============================================================================
