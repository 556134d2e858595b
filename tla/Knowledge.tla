------------------------------ MODULE Knowledge ------------------------------
(* The knowledge base (knowledge/rag.py): each program builds an index of the   *)
(* sources of the workspace that is active when it starts, and keeps it. The    *)
(* index of a workspace is also stored, and a stored one is taken as it is.     *)
(* This is the knowledge of the directory ./knowledge and of the workspaces;    *)
(* without it a program reads the one it was delivered with.                    *)
EXTENDS Workspaces

CONSTANT Documents      \* files of sources, each one chunk

VARIABLES
    sources,    \* files in knowledge/sources, of each scope
    stored,     \* knowledge/embeddings/index.json of each workspace
    engine,     \* the RAGEngine of each program
    packed,     \* sources and index in the archive of each workspace
    been        \* history: the files that were among the sources of a scope

knowledgeVars == <<sources, stored, engine, packed, been>>

NoIndex == [there |-> FALSE, documents |-> {}]
NoEngine == [step |-> "none", scope |-> NoWorkspace, left |-> {}, documents |-> {}, rows |-> {}]

KnowledgeInit ==
    /\ sources = [s \in Scopes |-> {}]
    /\ stored = [w \in Workspaces |-> NoIndex]
    /\ engine = [p \in Programs |-> NoEngine]
    /\ packed = [w \in Workspaces |-> [sources |-> {}, index |-> NoIndex]]
    /\ been = [s \in Scopes |-> {}]

Engine(p, e) == engine' = [engine EXCEPT ![p] = e]
EngineMoves(p, step) == engine' = [engine EXCEPT ![p].step = step]
Stored(e) == e.scope # NoWorkspace      \* using_workspace

\* index, when the program starts, and when one that failed is searched or tried
\* again: the scope is resolved once, and a stored index is not built again.
Index(p) ==
    /\ engine[p].step \in {"none", "failed"}
    /\ IF active # NoWorkspace /\ stored[active].there
         THEN Engine(p, [step |-> "ready", scope |-> active, left |-> {},
                         documents |-> stored[active].documents,
                         rows |-> stored[active].documents])
         ELSE Engine(p, [step |-> "reads", scope |-> active, left |-> sources[active],
                         documents |-> {}, rows |-> {}])
    /\ UNCHANGED <<active, sources, stored, packed, been>>

\* A file that has gone since the directory was listed is skipped.
ReadsFile(p, d) ==
    /\ engine[p].step = "reads" /\ d \in engine[p].left
    /\ engine' = [engine EXCEPT ![p].left = @ \ {d},
                                ![p].documents = @ \cup ({d} \cap sources[engine[p].scope])]
    /\ UNCHANGED <<active, sources, stored, packed, been>>

\* Without documents there is nothing to embed, and nothing to store.
Embeds(p) ==
    /\ engine[p].step = "reads" /\ engine[p].left = {}
    /\ LET e == engine[p]
           next == IF Stored(e) /\ e.documents # {} THEN "saves" ELSE "ready"
       IN  Engine(p, [e EXCEPT !.step = next, !.rows = e.documents])
    /\ UNCHANGED <<active, sources, stored, packed, been>>

\* get_embeddings raises: the documents stay, without rows.
EmbedFails(p) ==
    /\ engine[p].step = "reads" /\ engine[p].left = {} /\ engine[p].documents # {}
    /\ EngineMoves(p, "failed")
    /\ UNCHANGED <<active, sources, stored, packed, been>>

\* save_index: a file beside it is written and replaces it.
Saves(p) ==
    /\ engine[p].step = "saves"
    /\ stored' = [stored EXCEPT ![engine[p].scope] =
                    [there |-> TRUE, documents |-> engine[p].documents]]
    /\ EngineMoves(p, "ready")
    /\ UNCHANGED <<active, sources, packed, been>>

IndexNotSaved(p) ==
    /\ engine[p].step = "saves"
    /\ EngineMoves(p, "ready")
    /\ UNCHANGED <<active, sources, stored, packed, been>>

\* The program ends or is killed, and another starts in its place.
EngineGoes(p) ==
    /\ Engine(p, NoEngine)
    /\ UNCHANGED <<sources, stored, packed, been>>

(* The operator. *)

AddSource(s, d) ==
    /\ sources' = [sources EXCEPT ![s] = @ \cup {d}]
    /\ been' = [been EXCEPT ![s] = @ \cup {d}]
    /\ UNCHANGED <<active, stored, engine, packed>>

RemoveSource(s, d) ==
    /\ d \in sources[s]
    /\ sources' = [sources EXCEPT ![s] = @ \ {d}]
    /\ UNCHANGED <<active, stored, engine, packed, been>>

KnowledgeExported(w) ==
    /\ packed' = [packed EXCEPT ![w] = [sources |-> sources[w], index |-> stored[w]]]
    /\ UNCHANGED <<sources, stored, engine, been>>

KnowledgeImported(w) ==
    /\ sources' = [sources EXCEPT ![w] = packed[w].sources]
    /\ stored' = [stored EXCEPT ![w] = packed[w].index]
    /\ UNCHANGED <<engine, packed, been>>

KnowledgeDeleted(w) ==
    /\ sources' = [sources EXCEPT ![w] = {}]
    /\ stored' = [stored EXCEPT ![w] = NoIndex]
    /\ UNCHANGED <<engine, packed, been>>

KnowledgeStep(p) ==
    \/ Index(p) \/ Embeds(p) \/ EmbedFails(p) \/ Saves(p) \/ IndexNotSaved(p)
    \/ \E d \in Documents : ReadsFile(p, d)

KnowledgeNext ==
    \/ \E p \in Programs : KnowledgeStep(p)
    \/ \E s \in Scopes, d \in Documents : AddSource(s, d) \/ RemoveSource(s, d)

\* search: what it puts into the prompt of an agent is among these.
Found(p) == IF engine[p].step = "ready" THEN engine[p].rows ELSE {}

KnowledgeTypeOK ==
    LET Indexes == [there : BOOLEAN, documents : SUBSET Documents]
    IN  /\ sources \in [Scopes -> SUBSET Documents] /\ been \in [Scopes -> SUBSET Documents]
        /\ stored \in [Workspaces -> Indexes]
        /\ packed \in [Workspaces -> [sources : SUBSET Documents, index : Indexes]]
        /\ engine \in [Programs -> [step : {"none", "reads", "saves", "failed", "ready"},
                                    scope : Scopes, left : SUBSET Documents,
                                    documents : SUBSET Documents, rows : SUBSET Documents]]

\* knowledge/rag.py:77 "prefer workspace if available": what a search of a program
\* finds was put among the sources of the workspace for which it was indexed, and a
\* stored index has a row for documents of its own workspace only, whichever
\* workspace has become active while another program was reading or embedding.
KnowledgeOfItsScope ==
    /\ \A p \in Programs : Found(p) \subseteq been[engine[p].scope]
    /\ \A w \in Workspaces : stored[w].documents \subseteq been[w]

\* "Resolve knowledge paths (prefer workspace if available)": an agent finds what
\* belongs to the workspace that is active. The engine is built once.
SearchesItsWorkspace ==
    \A p \in Programs : Found(p) # {} => engine[p].scope = active
===============================================================================
