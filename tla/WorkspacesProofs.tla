---------------------------- MODULE WorkspacesProofs ---------------------------
(* What the active workspace selects.  For any programs, workspaces, targets and *)
(* documents: what the operator did not give to a workspace is not in its scope, *)
(* and is not in its knowledge (ActiveWorkspace); and for any conversations and  *)
(* notes: what the programs of one operator store there is what they showed      *)
(* (OperatorStore).                                                              *)
EXTENDS ActiveWorkspace, OperatorStore,
        FiniteSetTheorems, SequenceTheorems, WellFoundedInduction, TLAPS

(* Targets. Every version of a meta.yaml has only targets that were given to its *)
(* workspace: the file, the archive, and the version a command is about to write. *)
Metas == [there : {"no", "empty", "whole"}, targets : SUBSET Targets,
          last : Targets \cup {NoTarget}]
Edits == [step : {"no", "writes", "fills", "marks", "stamps", "applies"},
          edit : {"none", "target", "note", "create", "stamp"}, name : Scopes, meta : Metas]

MetaTypes ==
    /\ active \in Scopes
    /\ meta \in [Workspaces -> Metas] /\ archive \in [Workspaces -> Metas]
    /\ editing \in [Programs -> Edits]
    /\ granted \in [Workspaces -> SUBSET Targets]

FilesGranted ==
    \A w \in Workspaces :
        meta[w].targets \subseteq granted[w] /\ archive[w].targets \subseteq granted[w]

EditsGranted ==
    \A p \in Programs :
        editing[p].step # "no" =>
            /\ editing[p].name \in Workspaces
            /\ editing[p].meta.targets \subseteq granted[editing[p].name]

MInv == MetaTypes /\ FilesGranted /\ EditsGranted

LEMMA MetaStart == WorkspacesInit /\ MetaInit => MInv
BY DEF WorkspacesInit, MetaInit, MInv, MetaTypes, Edits, Metas, FilesGranted, EditsGranted, NoMeta,
       NotEditing, Scopes, Targets

\* A command that writes a version, of a workspace that keeps its targets or gains one.
LEMMA BeginsWrite ==
    ASSUME MInv, NEW p \in Programs, NEW w \in Workspaces, Ready(p),
           NEW edit \in {"target", "note", "create", "stamp"},
           NEW new \in Metas,
           granted' \in [Workspaces -> SUBSET Targets],
           \A v \in Workspaces : granted[v] \subseteq granted'[v],
           new.targets \subseteq granted'[w],
           Writes(p, edit, w, new), UNCHANGED <<active, meta, archive>>
    PROVE  MInv'
<1>1. MetaTypes' BY DEF MInv, MetaTypes, Edits, Metas, Writes, Scopes
<1>3. FilesGranted' BY DEF MInv, FilesGranted
<1>4. ASSUME NEW q \in Programs, editing'[q].step # "no"
      PROVE  editing'[q].name \in Workspaces
             /\ editing'[q].meta.targets \subseteq granted'[editing'[q].name]
  <2>1. CASE q = p BY <2>1 DEF MInv, MetaTypes, Edits, Metas, Writes
  <2>2. CASE q # p
    <3>1. editing'[q] = editing[q] BY <2>2 DEF MInv, MetaTypes, Edits, Metas, Writes
    <3> QED BY <3>1, <1>4 DEF MInv, EditsGranted
  <2> QED BY <2>1, <2>2
<1> QED BY <1>1, <1>3, <1>4 DEF MInv, EditsGranted

\* The other steps of a command: what it will write is the same, or nothing.
LEMMA GoesOn ==
    ASSUME MInv, NEW p \in Programs, editing[p].step # "no", UNCHANGED granted,
           Done(p) \/ EditMoves(p, "fills") \/ EditMoves(p, "marks") \/ EditMoves(p, "stamps")
                   \/ EditMoves(p, "applies")
    PROVE  editing' \in [Programs -> Edits] /\ EditsGranted'
<1>1. CASE Done(p)
  BY <1>1 DEF MInv, MetaTypes, Edits, Metas, EditsGranted, Done, NotEditing, NoMeta, Scopes
<1>2. ASSUME NEW step \in {"writes", "fills", "marks", "stamps", "applies"}, EditMoves(p, step)
      PROVE  editing' \in [Programs -> Edits] /\ EditsGranted'
  <2>1. \A q \in Programs : editing'[q].name = editing[q].name /\ editing'[q].meta = editing[q].meta
                             /\ (editing'[q].step # "no" => editing[q].step # "no")
    BY <1>2 DEF EditMoves, MInv, MetaTypes, Edits, Metas
  <2>2. editing' \in [Programs -> Edits]
    <3>1. [editing[p] EXCEPT !.step = step] \in Edits BY DEF MInv, MetaTypes, Edits
    <3> QED BY <1>2, <3>1 DEF EditMoves, MInv, MetaTypes
  <2> QED BY <2>1, <2>2 DEF MInv, EditsGranted
<1> QED BY <1>1, <1>2

LEMMA CommandKeeps ==
    ASSUME MInv, NEW p \in Programs, MetaStep(p)
    PROVE  MInv'
<1>1. ASSUME NEW t \in Targets, SetTarget(p, t) PROVE MInv'
  <2>1. CASE active = NoWorkspace
    BY <1>1, <2>1 DEF SetTarget, MInv, MetaTypes, Edits, Metas, FilesGranted, EditsGranted
  <2>2. CASE active # NoWorkspace
    <3>1. active \in Workspaces BY <2>2 DEF MInv, MetaTypes, Edits, Metas, Scopes
    <3> DEFINE new == [there |-> "whole", last |-> t, targets |-> meta[active].targets \cup {t}]
    <3>2. Ready(p) /\ Writes(p, "target", active, new) /\ UNCHANGED <<active, meta, archive>>
      BY <1>1, <2>2 DEF SetTarget
    <3>3. granted' = [granted EXCEPT ![active] = @ \cup {t}] BY <1>1, <2>2 DEF SetTarget
    <3>4. meta[active].targets \subseteq granted[active] /\ meta[active].targets \subseteq Targets
      BY <3>1 DEF MInv, FilesGranted, MetaTypes, Metas
    <3>5. granted' \in [Workspaces -> SUBSET Targets]
          /\ \A v \in Workspaces : granted[v] \subseteq granted'[v]
      BY <3>3 DEF MInv, MetaTypes
    <3>6. new \in Metas /\ new.targets \subseteq granted'[active]
      BY <3>1, <3>3, <3>4 DEF Metas, MInv, MetaTypes
    <3> HIDE DEF new
    <3> QED BY <3>1, <3>2, <3>5, <3>6, BeginsWrite
  <2> QED BY <2>1, <2>2
<1>2. ASSUME NEW w \in Workspaces, SetOperatorNote(p, w) PROVE MInv'
  <2> DEFINE new == [meta[w] EXCEPT !.there = "whole"]
  <2>1. Ready(p) /\ Writes(p, "note", w, new) /\ UNCHANGED <<active, meta, archive, granted>>
    BY <1>2 DEF SetOperatorNote
  <2>2. new \in Metas /\ new.targets \subseteq granted'[w]
    BY <2>1 DEF MInv, MetaTypes, Metas, FilesGranted
  <2>3. granted' \in [Workspaces -> SUBSET Targets] BY <2>1 DEF MInv, MetaTypes
  <2> HIDE DEF new
  <2> QED BY <2>1, <2>2, <2>3, BeginsWrite
<1>3. ASSUME NEW w \in Workspaces, Activate(p, w) PROVE MInv'
  <2>1. CASE meta[w].there # "no"
    <3>1. editing' = [editing EXCEPT ![p] = [NotEditing EXCEPT !.step = "marks", !.name = w]]
      BY <1>3, <2>1 DEF Activate
    <3>2. MetaTypes' BY <1>3, <3>1 DEF Activate, MInv, MetaTypes, Edits, Metas, NotEditing, NoMeta, Scopes
    <3> QED BY <1>3, <3>1, <3>2 DEF Activate, MInv, MetaTypes, Edits, Metas, FilesGranted, EditsGranted,
                                    NotEditing, NoMeta
  <2>2. CASE meta[w].there = "no"
    <3>1. Ready(p) /\ Writes(p, "create", w, NewMeta) /\ UNCHANGED <<active, meta, archive, granted>>
      BY <1>3, <2>2 DEF Activate
    <3>2. NewMeta \in Metas /\ NewMeta.targets \subseteq granted'[w]
      BY DEF NewMeta, NoMeta, Metas
    <3>3. granted' \in [Workspaces -> SUBSET Targets] BY <3>1 DEF MInv, MetaTypes
    <3> QED BY <3>1, <3>2, <3>3, BeginsWrite
  <2> QED BY <2>1, <2>2
<1>4. CASE Marks(p)
  <2>1. editing[p].step # "no" /\ EditMoves(p, "stamps") /\ UNCHANGED <<meta, archive, granted>>
        /\ active' = editing[p].name
    BY <1>4 DEF Marks
  <2>2. active' \in Scopes BY <2>1 DEF MInv, EditsGranted, Scopes
  <2> QED BY <2>1, <2>2, GoesOn DEF MInv, MetaTypes, Edits, Metas, FilesGranted
<1>5. CASE Stamps(p)
  <2> DEFINE w == editing[p].name
             new == [meta[w] EXCEPT !.there = "whole"]
  <2>1. editing[p].step = "stamps" /\ Writes(p, "stamp", w, new)
        /\ UNCHANGED <<active, meta, archive, granted>>
    BY <1>5 DEF Stamps
  <2>2. w \in Workspaces BY <2>1 DEF MInv, EditsGranted
  <2>3. MetaTypes'
    <3>1. new \in Metas BY <2>2 DEF MInv, MetaTypes, Metas
    <3>2. [step |-> "writes", edit |-> "stamp", name |-> w, meta |-> new] \in Edits
      BY <2>2, <3>1 DEF Edits, Scopes
    <3> HIDE DEF new, w
    <3> QED BY <2>1, <3>2 DEF MInv, MetaTypes, Writes
  <2>4. new.targets \subseteq granted[w] BY <2>2 DEF MInv, MetaTypes, Edits, Metas, FilesGranted
  <2>5. EditsGranted' BY <2>1, <2>2, <2>4 DEF MInv, MetaTypes, Edits, Metas, EditsGranted, Writes
  <2> QED BY <2>1, <2>3, <2>5 DEF MInv, FilesGranted
<1>6. CASE Applies(p)
  <2>1. editing[p].step # "no" /\ Done(p) /\ UNCHANGED <<active, meta, archive, granted>>
    BY <1>6 DEF Applies
  <2> QED BY <2>1, GoesOn DEF MInv, MetaTypes, Edits, Metas, FilesGranted
<1>7. CASE ShowWorkspace(p)
  BY <1>7 DEF ShowWorkspace, MInv, MetaTypes, Edits, Metas, FilesGranted, EditsGranted
<1>8. CASE ClearWorkspace(p)
  BY <1>8 DEF ClearWorkspace, ClearActive, MInv, MetaTypes, Edits, Metas, FilesGranted, EditsGranted, Scopes
<1>9. CASE OpensMeta(p)
  <2>1. editing[p].step # "no" /\ EditMoves(p, "fills") /\ UNCHANGED <<active, archive, granted>>
        /\ meta' = [meta EXCEPT ![editing[p].name] = Emptied]
    BY <1>9 DEF OpensMeta
  <2>2. FilesGranted' /\ meta' \in [Workspaces -> Metas]
    BY <2>1 DEF MInv, MetaTypes, Edits, Metas, FilesGranted, Emptied, NoMeta
  <2> QED BY <2>1, <2>2, GoesOn DEF MInv, MetaTypes, Edits, Metas
<1>10. CASE FillsMeta(p)
  <2>1. editing[p].step # "no" /\ NextStep(p) /\ UNCHANGED <<active, archive, granted>>
        /\ meta' = [meta EXCEPT ![editing[p].name] = editing[p].meta]
    BY <1>10 DEF FillsMeta
  <2>2. Done(p) \/ EditMoves(p, "marks") \/ EditMoves(p, "applies") BY <2>1 DEF NextStep
  <2>3. editing[p].name \in Workspaces /\ editing[p].meta.targets \subseteq granted[editing[p].name]
    BY <2>1 DEF MInv, EditsGranted
  <2>4. meta' \in [Workspaces -> Metas]
    BY <2>1, <2>3 DEF MInv, MetaTypes, Edits, Metas
  <2>5. FilesGranted' BY <2>1, <2>3 DEF MInv, MetaTypes, Edits, Metas, FilesGranted
  <2> QED BY <2>1, <2>2, <2>4, <2>5, GoesOn DEF MInv, MetaTypes, Edits, Metas
<1>11. CASE FillFails(p)
  <2>1. editing[p].step # "no" /\ UNCHANGED <<active, meta, archive, granted>>
        /\ (Done(p) \/ NextStep(p))
    BY <1>11 DEF FillFails
  <2>2. Done(p) \/ EditMoves(p, "marks") \/ EditMoves(p, "applies") BY <2>1 DEF NextStep
  <2> QED BY <2>1, <2>2, GoesOn DEF MInv, MetaTypes, Edits, Metas, FilesGranted
<1>12. CASE ForgetHistory(p)
  BY <1>12 DEF ForgetHistory, MInv, MetaTypes, Edits, Metas, FilesGranted, EditsGranted
<1> QED BY <1>1, <1>2, <1>3, <1>4, <1>5, <1>6, <1>7, <1>8, <1>9, <1>10, <1>11, <1>12 DEF MetaStep

(* Knowledge. Every document of an index, of an engine or of an archive was among *)
(* the sources of its scope.                                                      *)
StoredIndexes == [there : BOOLEAN, documents : SUBSET Documents]

KnowledgeTypes ==
    /\ sources \in [Scopes -> SUBSET Documents] /\ been \in [Scopes -> SUBSET Documents]
    /\ stored \in [Workspaces -> StoredIndexes]
    /\ packed \in [Workspaces -> [sources : SUBSET Documents, index : StoredIndexes]]
    /\ engine \in [Programs -> [step : {"none", "reads", "saves", "failed", "ready"},
                                scope : Scopes, left : SUBSET Documents,
                                documents : SUBSET Documents, rows : SUBSET Documents]]

OfItsScope ==
    /\ \A s \in Scopes : sources[s] \subseteq been[s]
    /\ \A w \in Workspaces :
          /\ stored[w].documents \subseteq been[w]
          /\ packed[w].sources \subseteq been[w] /\ packed[w].index.documents \subseteq been[w]

EngineOfItsScope ==
    \A p \in Programs : engine[p].documents \subseteq been[engine[p].scope]
                        /\ engine[p].rows \subseteq been[engine[p].scope]

KInv == active \in Scopes /\ KnowledgeTypes /\ OfItsScope /\ EngineOfItsScope

LEMMA KnowledgeStart == WorkspacesInit /\ KnowledgeInit => KInv
BY DEF WorkspacesInit, KnowledgeInit, KInv, KnowledgeTypes, OfItsScope, EngineOfItsScope,
       NoIndex, NoEngine, Scopes, StoredIndexes

\* An engine that gets documents of its scope.
LEMMA EngineGets ==
    ASSUME KInv, NEW p \in Programs,
           NEW e \in [step : {"none", "reads", "saves", "failed", "ready"}, scope : Scopes,
                      left : SUBSET Documents, documents : SUBSET Documents,
                      rows : SUBSET Documents],
           e.documents \subseteq been[e.scope], e.rows \subseteq been[e.scope], Engine(p, e),
           UNCHANGED <<active, sources, stored, packed, been>>
    PROVE  KInv'
<1>1. engine' = [engine EXCEPT ![p] = e] BY DEF Engine
<1>2. \A q \in Programs : engine'[q] = IF q = p THEN e ELSE engine[q]
  BY <1>1 DEF KInv, KnowledgeTypes
<1>3. KnowledgeTypes' BY <1>1 DEF KInv, KnowledgeTypes
<1>4. EngineOfItsScope' BY <1>2 DEF KInv, EngineOfItsScope
<1> QED BY <1>3, <1>4 DEF KInv, OfItsScope

LEMMA EngineKeeps ==
    ASSUME KInv, NEW p \in Programs, KnowledgeStep(p)
    PROVE  KInv'
<1> DEFINE E == [step : {"none", "reads", "saves", "failed", "ready"}, scope : Scopes,
                 left : SUBSET Documents, documents : SUBSET Documents, rows : SUBSET Documents]
<1>a. engine[p] \in E /\ engine[p].documents \subseteq been[engine[p].scope]
      /\ engine[p].rows \subseteq been[engine[p].scope]
  BY DEF KInv, KnowledgeTypes, EngineOfItsScope
<1>1. CASE Index(p)
  <2>1. active \in Scopes /\ sources[active] \in SUBSET Documents BY DEF KInv, KnowledgeTypes
  <2>2. CASE active # NoWorkspace /\ stored[active].there
    <3>1. stored[active].documents \in SUBSET Documents /\ stored[active].documents \subseteq been[active]
      BY <2>1, <2>2 DEF KInv, KnowledgeTypes, OfItsScope, Scopes, StoredIndexes
    <3> DEFINE e == [step |-> "ready", scope |-> active, left |-> {},
                     documents |-> stored[active].documents, rows |-> stored[active].documents]
    <3>2. Engine(p, e) /\ UNCHANGED <<active, sources, stored, packed, been>>
      BY <1>1, <2>2 DEF Index
    <3>3. e \in E /\ e.documents \subseteq been[e.scope] /\ e.rows \subseteq been[e.scope]
      BY <2>1, <3>1
    <3> HIDE DEF e
    <3> QED BY <3>2, <3>3, EngineGets
  <2>3. CASE ~(active # NoWorkspace /\ stored[active].there)
    <3> DEFINE e == [step |-> "reads", scope |-> active, left |-> sources[active],
                     documents |-> {}, rows |-> {}]
    <3>2. Engine(p, e) /\ UNCHANGED <<active, sources, stored, packed, been>>
      BY <1>1, <2>3 DEF Index
    <3>3. e \in E /\ e.documents \subseteq been[e.scope] /\ e.rows \subseteq been[e.scope]
      BY <2>1
    <3> HIDE DEF e
    <3> QED BY <3>2, <3>3, EngineGets
  <2> QED BY <2>2, <2>3
<1>2. ASSUME NEW d \in Documents, ReadsFile(p, d) PROVE KInv'
  <2> DEFINE e == [engine[p] EXCEPT !.left = @ \ {d},
                                    !.documents = @ \cup ({d} \cap sources[engine[p].scope])]
  <2>1. Engine(p, e) /\ UNCHANGED <<active, sources, stored, packed, been>>
    BY <1>2 DEF ReadsFile, Engine
  <2>2. e \in E /\ e.documents \subseteq been[e.scope] /\ e.rows \subseteq been[e.scope]
    BY <1>a DEF KInv, KnowledgeTypes, OfItsScope
  <2> HIDE DEF e
  <2> QED BY <2>1, <2>2, EngineGets
<1>3. CASE Embeds(p)
  <2> DEFINE next == IF Stored(engine[p]) /\ engine[p].documents # {} THEN "saves" ELSE "ready"
             e == [engine[p] EXCEPT !.step = next, !.rows = engine[p].documents]
  <2>1. Engine(p, e) /\ UNCHANGED <<active, sources, stored, packed, been>> BY <1>3 DEF Embeds
  <2>2. e \in E /\ e.documents \subseteq been[e.scope] /\ e.rows \subseteq been[e.scope]
    BY <1>a
  <2> HIDE DEF e
  <2> QED BY <2>1, <2>2, EngineGets
<1>4. ASSUME NEW step \in {"failed", "ready"}, EngineMoves(p, step),
             UNCHANGED <<active, sources, stored, packed, been>>
      PROVE  KInv'
  <2> DEFINE e == [engine[p] EXCEPT !.step = step]
  <2>1. Engine(p, e) BY <1>4 DEF EngineMoves, Engine
  <2>2. e \in E /\ e.documents \subseteq been[e.scope] /\ e.rows \subseteq been[e.scope]
    BY <1>a
  <2> HIDE DEF e
  <2> QED BY <1>4, <2>1, <2>2, EngineGets
<1>5. CASE EmbedFails(p) BY <1>5, <1>4 DEF EmbedFails
<1>6. CASE IndexNotSaved(p) BY <1>6, <1>4 DEF IndexNotSaved
<1>7. CASE Saves(p)
  <2>1. stored' = [stored EXCEPT ![engine[p].scope] =
                     [there |-> TRUE, documents |-> engine[p].documents]]
        /\ engine' = [engine EXCEPT ![p] = [engine[p] EXCEPT !.step = "ready"]]
        /\ UNCHANGED <<active, sources, packed, been>>
    BY <1>7 DEF Saves, EngineMoves
  <2>2. stored' \in [Workspaces -> StoredIndexes]
        /\ \A w \in Workspaces : stored'[w].documents \subseteq been[w]
    BY <2>1, <1>a DEF KInv, KnowledgeTypes, OfItsScope, StoredIndexes
  <2>3. [engine[p] EXCEPT !.step = "ready"] \in E BY <1>a
  <2>4. KnowledgeTypes' BY <2>1, <2>2, <2>3 DEF KInv, KnowledgeTypes
  <2>5. \A q \in Programs : engine'[q].documents = engine[q].documents
                            /\ engine'[q].rows = engine[q].rows /\ engine'[q].scope = engine[q].scope
    BY <2>1, <1>a DEF KInv, KnowledgeTypes
  <2>6. EngineOfItsScope' BY <2>1, <2>5 DEF KInv, EngineOfItsScope
  <2> QED BY <2>1, <2>2, <2>4, <2>6 DEF KInv, OfItsScope
<1> QED BY <1>1, <1>2, <1>3, <1>5, <1>6, <1>7 DEF KnowledgeStep

\* The operator adds and removes sources.
LEMMA SourcesKeep ==
    ASSUME KInv, NEW s \in Scopes, NEW d \in Documents, AddSource(s, d) \/ RemoveSource(s, d)
    PROVE  KInv'
<1>1. UNCHANGED <<active, stored, engine, packed>> BY DEF AddSource, RemoveSource
<1>2. sources' \in [Scopes -> SUBSET Documents] /\ been' \in [Scopes -> SUBSET Documents]
      /\ \A r \in Scopes : sources'[r] \subseteq been'[r] /\ been[r] \subseteq been'[r]
  BY DEF AddSource, RemoveSource, KInv, KnowledgeTypes, OfItsScope
<1>3. KnowledgeTypes' BY <1>1, <1>2 DEF KInv, KnowledgeTypes
<1>4. OfItsScope' BY <1>1, <1>2 DEF KInv, OfItsScope, Scopes
<1>5. EngineOfItsScope'
  BY <1>1, <1>2 DEF KInv, EngineOfItsScope, KnowledgeTypes
<1> QED BY <1>1, <1>3, <1>4, <1>5 DEF KInv

\* What moves the marker of the active workspace leaves the knowledge alone.
LEMMA KnowledgeStays ==
    ASSUME KInv, active' \in Scopes, UNCHANGED knowledgeVars
    PROVE  KInv'
BY DEF KInv, knowledgeVars, KnowledgeTypes, OfItsScope, EngineOfItsScope

(* The two together. *)
WInv == MInv /\ KInv

LEMMA WorkspaceStart == WorkspaceInit => WInv
BY MetaStart, KnowledgeStart DEF WorkspaceInit, WInv

\* A directory is packed, unpacked where there is none, or deleted.
LEMMA DirectoryKeeps ==
    ASSUME WInv, NEW w \in Workspaces,
           ExportWorkspace(w) \/ ImportWorkspace(w) \/ DeleteWorkspace(w)
    PROVE  WInv'
<1>1. CASE ExportWorkspace(w)
  <2>1. MInv'
    BY <1>1 DEF ExportWorkspace, Export, WInv, MInv, MetaTypes, FilesGranted, EditsGranted
  <2>2. UNCHANGED <<active, sources, stored, engine, been>> BY <1>1
    DEF ExportWorkspace, Export, KnowledgeExported
  <2>3. packed' = [packed EXCEPT ![w] = [sources |-> sources[w], index |-> stored[w]]]
    BY <1>1 DEF ExportWorkspace, KnowledgeExported
  <2>4. KnowledgeTypes' BY <2>2, <2>3 DEF WInv, KInv, KnowledgeTypes, Scopes
  <2>5. OfItsScope' BY <2>2, <2>3 DEF WInv, KInv, OfItsScope, KnowledgeTypes, Scopes
  <2> QED BY <2>1, <2>2, <2>4, <2>5 DEF WInv, KInv, EngineOfItsScope
<1>2. CASE ImportWorkspace(w)
  <2>1. MInv'
    BY <1>2 DEF ImportWorkspace, Import, WInv, MInv, MetaTypes, FilesGranted, EditsGranted
  <2>2. UNCHANGED <<active, packed, engine, been>> BY <1>2
    DEF ImportWorkspace, Import, KnowledgeImported
  <2>3. sources' = [sources EXCEPT ![w] = packed[w].sources]
        /\ stored' = [stored EXCEPT ![w] = packed[w].index]
    BY <1>2 DEF ImportWorkspace, KnowledgeImported
  <2>4. KnowledgeTypes' BY <2>2, <2>3 DEF WInv, KInv, KnowledgeTypes
  <2>5. OfItsScope' BY <2>2, <2>3 DEF WInv, KInv, OfItsScope, KnowledgeTypes
  <2> QED BY <2>1, <2>2, <2>4, <2>5 DEF WInv, KInv, EngineOfItsScope
<1>3. CASE DeleteWorkspace(w)
  <2>1. MInv'
    BY <1>3 DEF DeleteWorkspace, Delete, WInv, MInv, MetaTypes, Metas, FilesGranted, EditsGranted,
                NoMeta
  <2>2. UNCHANGED <<active, packed, engine, been>> BY <1>3
    DEF DeleteWorkspace, Delete, KnowledgeDeleted
  <2>3. sources' = [sources EXCEPT ![w] = {}] /\ stored' = [stored EXCEPT ![w] = NoIndex]
    BY <1>3 DEF DeleteWorkspace, KnowledgeDeleted
  <2>4. KnowledgeTypes' BY <2>2, <2>3 DEF WInv, KInv, KnowledgeTypes, NoIndex, StoredIndexes
  <2>5. OfItsScope' BY <2>2, <2>3 DEF WInv, KInv, OfItsScope, KnowledgeTypes, NoIndex
  <2> QED BY <2>1, <2>2, <2>4, <2>5 DEF WInv, KInv, EngineOfItsScope
<1> QED BY <1>1, <1>2, <1>3

LEMMA WorkspaceStep == WInv /\ [WorkspaceNext]_workspaceVars => WInv'
<1> SUFFICES ASSUME WInv, [WorkspaceNext]_workspaceVars PROVE WInv' OBVIOUS
<1>1. ASSUME NEW p \in Programs, Commands(p) PROVE WInv'
  <2>1. MInv' BY <1>1, CommandKeeps DEF Commands, WInv
  <2>2. KInv' BY <1>1, <2>1, KnowledgeStays DEF Commands, WInv, MInv, MetaTypes
  <2> QED BY <2>1, <2>2 DEF WInv
<1>2. ASSUME NEW p \in Programs, RestartProgram(p) PROVE WInv'
  <2>1. editing' = [editing EXCEPT ![p] = NotEditing] /\ UNCHANGED <<active, meta, archive, granted>>
    BY <1>2 DEF RestartProgram, Restart, Done
  <2>2. NotEditing \in Edits /\ NotEditing.step = "no"
    BY DEF NotEditing, NoMeta, Edits, Metas, Scopes
  <2>3. MetaTypes' BY <2>1, <2>2 DEF WInv, MInv, MetaTypes
  <2>4. EditsGranted' BY <2>1, <2>2 DEF WInv, MInv, MetaTypes, EditsGranted
  <2>5. NoEngine \in [step : {"none", "reads", "saves", "failed", "ready"}, scope : Scopes,
                      left : SUBSET Documents, documents : SUBSET Documents,
                      rows : SUBSET Documents]
        /\ NoEngine.documents = {} /\ NoEngine.rows = {}
    BY DEF NoEngine, Scopes
  <2>6. KInv' BY <1>2, <2>1, <2>5, EngineGets DEF RestartProgram, EngineGoes, WInv
  <2> QED BY <2>1, <2>3, <2>4, <2>6 DEF WInv, MInv, FilesGranted
<1>3. CASE Indexes
  <2>1. UNCHANGED metaVars BY <1>3 DEF Indexes
  <2>2. KInv' /\ active' = active
    <3>1. ASSUME NEW p \in Programs, KnowledgeStep(p) PROVE KInv' /\ active' = active
      BY <3>1, EngineKeeps DEF WInv, KnowledgeStep, Index, ReadsFile, Embeds, EmbedFails, Saves,
                               IndexNotSaved
    <3>2. ASSUME NEW s \in Scopes, NEW d \in Documents, AddSource(s, d) \/ RemoveSource(s, d)
          PROVE  KInv' /\ active' = active
      BY <3>2, SourcesKeep DEF WInv, AddSource, RemoveSource
    <3> QED BY <1>3, <3>1, <3>2 DEF Indexes, KnowledgeNext
  <2>3. MInv' BY <2>1, <2>2 DEF metaVars, WInv, MInv, MetaTypes, FilesGranted, EditsGranted
  <2> QED BY <2>2, <2>3 DEF WInv
<1>4. ASSUME NEW w \in Workspaces,
             ExportWorkspace(w) \/ ImportWorkspace(w) \/ DeleteWorkspace(w)
      PROVE  WInv'
  BY <1>4, DirectoryKeeps
<1>5. CASE UNCHANGED workspaceVars
  <2>1. UNCHANGED <<active, metaVars, knowledgeVars>> BY <1>5 DEF workspaceVars
  <2>2. MInv' BY <2>1 DEF metaVars, WInv, MInv, MetaTypes, FilesGranted, EditsGranted
  <2>3. KInv' BY <2>1, KnowledgeStays DEF WInv, KInv
  <2> QED BY <2>2, <2>3 DEF WInv
<1> QED BY <1>1, <1>2, <1>3, <1>4, <1>5 DEF WorkspaceNext

LEMMA WorkspaceInvariant == WorkspaceSpec => []WInv
BY WorkspaceStart, WorkspaceStep, PTL DEF WorkspaceSpec

\* Whatever programs write to one meta.yaml, cut short and unpack, a workspace has
\* in its scope only what the operator gave to it.
THEOREM Granted == WorkspaceSpec => []OnlyGrantedInScope
<1>1. WInv => OnlyGrantedInScope
  BY DEF WInv, MInv, MetaTypes, FilesGranted, OnlyGrantedInScope, InScope, Scopes
<1> QED BY <1>1, WorkspaceInvariant, PTL

\* What a search finds, and what an index stores, was among the sources of the
\* workspace it was made for, whichever was active in between.
THEOREM KnowledgeApart == WorkspaceSpec => []KnowledgeOfItsScope
<1>1. WInv => KnowledgeOfItsScope
  BY DEF WInv, KInv, OfItsScope, EngineOfItsScope, KnowledgeOfItsScope, Found
<1> QED BY <1>1, WorkspaceInvariant, PTL

-------------------------------------------------------------------------------
(* What programs of one operator store (OperatorStore).  First the notes.      *)

NoteTypes ==
    /\ active \in Scopes
    /\ notesFile \in [Scopes -> SUBSET Notes] /\ recorded \in [Scopes -> SUBSET Notes]
    /\ notes \in [Programs -> SUBSET Notes]
    /\ noted \in [Programs -> Changes \cup {NoChange}]
    /\ kind \in [Programs -> {"off", "tui", "cli"}]
    /\ ready \subseteq Runs
    /\ inTurn \in BOOLEAN

(* Only a program that runs has notes, or writes them.                         *)
NotesOfRunning ==
    /\ \A p \in Programs : noted[p] # NoChange => p \in Runs
    /\ \A p \in Programs : p \notin Runs => notes[p] = {}

Changed(p) == IF noted[p] = NoChange THEN {} ELSE {noted[p].note}

(* While interfaces take turns, there is one program at most; what is recorded *)
(* in the active scope is in its memory but for the change it is writing, and  *)
(* what is recorded elsewhere, or while nothing is written, is in the file.    *)
TakesOver ==
    inTurn =>
        /\ \A p, q \in Runs : p = q
        /\ \A p \in Programs : noted[p] # NoChange =>
              /\ noted[p].scope = active /\ kind[p] = "tui"
              /\ noted[p].keeps => noted[p].note \in notes[p]
        /\ \A p \in Programs : kind[p] = "tui" => recorded[active] \subseteq notes[p] \cup Changed(p)
        /\ \A w \in Scopes : w # active \/ (\A p \in Programs : noted[p] = NoChange) =>
              recorded[w] \subseteq notesFile[w]

NotesInv == NoteTypes /\ NotesOfRunning /\ TakesOver

LEMMA NoChangeIsNone == NoChange \notin Changes
  BY NotesFileAssumption DEF NoChange, Changes

LEMMA NotesInitially == Init => NotesInv
  BY DEF Init, WorkspacesInit, NotesInit, NotesInv, NoteTypes, NotesOfRunning, TakesOver, Runs,
         Scopes, Changed

(* A program starts: an interface reads the notes.                             *)
LEMMA StartKeepsNotes ==
    ASSUME NotesInv, NEW p \in Programs, NEW k \in {"tui", "cli"}, Start(p, k)
    PROVE  NotesInv'
  <1>1. /\ kind[p] = "off" /\ kind' = [kind EXCEPT ![p] = k]
        /\ inTurn' = (inTurn /\ Runs = {}) /\ UNCHANGED <<active, notesFile, noted, recorded>>
        /\ k = "tui" => LoadNotes(p) /\ UNCHANGED ready
        /\ k # "tui" => ready' = ready \cup {p} /\ UNCHANGED notes
    BY DEF Start
  <1>2. Runs' = Runs \cup {p} /\ p \notin Runs
    BY <1>1 DEF Runs, NotesInv, NoteTypes
  <1>3. /\ notes' \in [Programs -> SUBSET Notes]
        /\ \A q \in Programs : q # p => notes'[q] = notes[q]
        /\ k = "tui" => notes'[p] = notesFile[active]
    BY <1>1, <1>2 DEF LoadNotes, NotesInv, NoteTypes, NotesOfRunning
  <1>4. NoteTypes'
    BY <1>1, <1>2, <1>3 DEF NotesInv, NoteTypes
  <1>5. NotesOfRunning'
    BY <1>1, <1>2, <1>3 DEF NotesInv, NotesOfRunning
  <1>6. ASSUME inTurn' PROVE TakesOver'
    <2>1. inTurn /\ Runs = {} /\ \A q \in Programs : noted[q] = NoChange
      BY <1>1, <1>6 DEF NotesInv, NotesOfRunning
    <2>2. \A w \in Scopes : recorded[w] \subseteq notesFile[w]
      BY <2>1 DEF NotesInv, TakesOver
    <2>3. ASSUME NEW q \in Programs, kind'[q] = "tui" PROVE recorded'[active'] \subseteq notes'[q]
      <3>1. q = p
        BY <1>1, <2>1, <2>3 DEF Runs, NotesInv, NoteTypes
      <3> QED BY <1>1, <1>3, <2>2, <2>3, <3>1 DEF NotesInv, NoteTypes
    <2> QED BY <1>1, <1>2, <2>1, <2>2, <2>3 DEF TakesOver, Changed
  <1> QED BY <1>4, <1>5, <1>6 DEF NotesInv, TakesOver

(* The notes tool.                                                             *)
LEMMA NoteKeepsNotes ==
    ASSUME NotesInv, NEW p \in Programs, Note(p)
    PROVE  NotesInv'
  <1>1. PICK n \in Notes : CreateNote(p, n) \/ UpdateNote(p, n) \/ DeleteNote(p, n)
    BY DEF Note
  <1>2. PICK keeps \in BOOLEAN : ChangeNote(p, n, keeps)
    BY <1>1 DEF CreateNote, UpdateNote, DeleteNote
  <1> DEFINE change == [scope |-> active, note |-> n, keeps |-> keeps]
  <1>3. /\ noted[p] = NoChange
        /\ notes' = [notes EXCEPT ![p] = IF keeps THEN @ \cup {n} ELSE @ \ {n}]
        /\ notesFile' = [notesFile EXCEPT ![active] = {}]
        /\ noted' = [noted EXCEPT ![p] = change]
        /\ UNCHANGED <<recorded, active, kind, ready>>
        /\ inTurn' = (inTurn /\ kind[p] = "tui") /\ p \in ready
    BY <1>2 DEF ChangeNote, Note, Idle
  <1>4. change \in Changes /\ change # NoChange
    BY NoChangeIsNone DEF Changes, NotesInv, NoteTypes
  <1>5. p \in Runs /\ Runs' = Runs
    BY <1>3 DEF Runs, NotesInv, NoteTypes
  <1>6. /\ \A q \in Programs : q # p => noted'[q] = noted[q] /\ notes'[q] = notes[q]
        /\ noted'[p] = change
        /\ notes'[p] = IF keeps THEN notes[p] \cup {n} ELSE notes[p] \ {n}
    BY <1>3 DEF NotesInv, NoteTypes
  <1>7. NoteTypes'
    BY <1>3, <1>4, <1>5 DEF NotesInv, NoteTypes
  <1>8. NotesOfRunning'
    BY <1>5, <1>6 DEF NotesInv, NotesOfRunning
  <1>9. ASSUME inTurn' PROVE TakesOver'
    <2>1. /\ inTurn /\ kind[p] = "tui" /\ \A q \in Runs : q = p
          /\ \A q \in Programs : noted[q] = NoChange
      BY <1>3, <1>5, <1>9 DEF NotesInv, TakesOver, NotesOfRunning
    <2>2. \A w \in Scopes : recorded[w] \subseteq notesFile[w]
      BY <2>1 DEF NotesInv, TakesOver
    <2>3. recorded[active] \subseteq notes[p]
      BY <2>1 DEF NotesInv, TakesOver, Changed
    <2>4. ASSUME NEW q \in Programs, kind'[q] = "tui"
          PROVE  recorded'[active'] \subseteq notes'[q] \cup Changed(q)'
      <3>1. q = p
        BY <1>3, <2>1, <2>4 DEF Runs
      <3>2. Changed(p)' = {n}
        BY <1>4, <1>6 DEF Changed
      <3> QED BY <1>3, <1>6, <2>3, <3>1, <3>2
    <2>5. ASSUME NEW w \in Scopes, w # active' \/ \A q \in Programs : noted'[q] = NoChange
          PROVE  recorded'[w] \subseteq notesFile'[w]
      <3>1. w # active
        BY <1>3, <1>4, <1>6, <2>5
      <3> QED BY <1>3, <2>2, <3>1 DEF NotesInv, NoteTypes
    <2>6. ASSUME NEW q \in Programs, noted'[q] # NoChange
          PROVE  /\ noted'[q].scope = active' /\ kind'[q] = "tui"
                 /\ noted'[q].keeps => noted'[q].note \in notes'[q]
      <3>1. q = p
        BY <1>6, <2>1, <2>6
      <3> QED BY <1>3, <1>6, <2>1, <3>1
    <2> QED BY <1>5, <2>1, <2>4, <2>5, <2>6 DEF TakesOver
  <1> QED BY <1>7, <1>8, <1>9 DEF NotesInv, TakesOver

LEMMA NoteSavedKeepsNotes ==
    ASSUME NotesInv, NEW p \in Programs, NoteSaved(p)
    PROVE  NotesInv'
  <1> DEFINE w == noted[p].scope
             n == noted[p].note
  <1>1. /\ noted[p] # NoChange /\ notesFile' = [notesFile EXCEPT ![w] = notes[p]]
        /\ recorded' = [recorded EXCEPT ![w] = IF noted[p].keeps THEN @ \cup {n} ELSE @ \ {n}]
        /\ noted' = [noted EXCEPT ![p] = NoChange]
        /\ UNCHANGED <<notes, active, kind, ready, inTurn>>
    BY DEF NoteSaved, SaveNotes
  <1>2. noted[p] \in Changes
    BY <1>1 DEF NotesInv, NoteTypes
  <1>3. w \in Scopes /\ n \in Notes /\ noted[p].keeps \in BOOLEAN
    BY <1>2 DEF Changes
  <1> HIDE DEF w, n
  <1>4. /\ \A q \in Programs : q # p => noted'[q] = noted[q]
        /\ noted'[p] = NoChange
    BY <1>1 DEF NotesInv, NoteTypes
  <1>5. NoteTypes'
    BY <1>1, <1>3 DEF NotesInv, NoteTypes, Runs
  <1>6. NotesOfRunning'
    BY <1>1, <1>4 DEF NotesInv, NotesOfRunning, Runs
  <1>7. ASSUME inTurn' PROVE TakesOver'
    <2>1. /\ inTurn /\ w = active /\ kind[p] = "tui"
          /\ noted[p].keeps => n \in notes[p]
          /\ \A q \in Runs : q = p
      BY <1>1, <1>7 DEF NotesInv, TakesOver, Runs, w, n
    <2>2. \A q \in Programs : noted'[q] = NoChange
      BY <1>4, <2>1 DEF NotesInv, NotesOfRunning
    <2>3. recorded[active] \subseteq notes[p] \cup {n}
      BY <1>1, <2>1 DEF NotesInv, TakesOver, Changed, n
    <2>4. recorded'[active] \subseteq notes[p] /\ notesFile'[active] = notes[p]
      BY <1>1, <1>3, <2>1, <2>3 DEF NotesInv, NoteTypes
    <2>5. ASSUME NEW v \in Scopes, v # active PROVE recorded'[v] \subseteq notesFile'[v]
      <3>1. recorded'[v] = recorded[v] /\ notesFile'[v] = notesFile[v]
        BY <1>1, <2>1, <2>5 DEF NotesInv, NoteTypes
      <3> QED BY <2>1, <2>5, <3>1 DEF NotesInv, TakesOver
    <2>6. ASSUME NEW q \in Programs, kind'[q] = "tui"
          PROVE  recorded'[active'] \subseteq notes'[q]
      <3>1. q = p
        BY <1>1, <2>1, <2>6 DEF Runs
      <3> QED BY <1>1, <2>4, <3>1
    <2>7. \A q, r \in Runs' : q = r
      BY <1>1, <2>1 DEF Runs
    <2> QED BY <1>1, <2>2, <2>4, <2>5, <2>6, <2>7 DEF TakesOver
  <1> QED BY <1>5, <1>6, <1>7 DEF NotesInv, TakesOver

(* A write that fails, or that is cut short when its program ends: what was    *)
(* recorded before does not count.                                             *)
LEMMA NotesEnd ==
    ASSUME NotesInv, NEW p \in Programs,
           noted' = [noted EXCEPT ![p] = NoChange],
           \/ UNCHANGED <<notes, kind, ready>>
           \/ /\ notes' = [notes EXCEPT ![p] = {}] /\ kind' = [kind EXCEPT ![p] = "off"]
              /\ ready' = ready \ {p},
           recorded' = IF noted[p] = NoChange THEN recorded ELSE [w \in Scopes |-> {}],
           UNCHANGED <<active, notesFile, inTurn>>
    PROVE  NotesInv'
  <1>1. /\ noted'[p] = NoChange
        /\ \A q \in Programs : q # p => /\ noted'[q] = noted[q] /\ notes'[q] = notes[q]
                                        /\ kind'[q] = kind[q]
        /\ \/ kind'[p] = kind[p] /\ notes'[p] = notes[p] /\ ready' = ready
           \/ kind'[p] = "off" /\ notes'[p] = {} /\ ready' = ready \ {p}
    BY DEF NotesInv, NoteTypes
  <1>2. Runs' \subseteq Runs /\ \A q \in Runs : q \in Runs' \/ (q = p /\ kind'[p] = "off")
    BY <1>1 DEF Runs, NotesInv, NoteTypes
  <1>3. NoteTypes'
    <2>1. ready' \subseteq Runs'
      BY <1>1, <1>2 DEF NotesInv, NoteTypes, Runs
    <2> QED BY <2>1 DEF NotesInv, NoteTypes
  <1>4. NotesOfRunning'
    BY <1>1, <1>2 DEF NotesInv, NotesOfRunning, Runs
  <1>5. ASSUME inTurn' PROVE TakesOver'
    <2>1. \A q, r \in Runs' : q = r
      BY <1>2, <1>5 DEF NotesInv, TakesOver
    <2>2. CASE noted[p] = NoChange
      <3>1. UNCHANGED <<recorded, noted>>
        BY <1>1, <2>2 DEF NotesInv, NoteTypes
      <3>2. \A q \in Programs : kind'[q] = "tui" => kind[q] = "tui" /\ notes'[q] = notes[q]
        BY <1>1
      <3>3. \A q \in Programs : noted'[q] # NoChange =>
               q # p /\ noted[q] # NoChange /\ kind'[q] = kind[q] /\ notes'[q] = notes[q]
        BY <1>1, <3>1
      <3> QED BY <1>5, <2>1, <3>1, <3>2, <3>3 DEF NotesInv, TakesOver, Changed
    <2>3. CASE noted[p] # NoChange
      <3>1. \A w \in Scopes : recorded'[w] = {}
        BY <2>3
      <3>2. \A q \in Programs : noted'[q] = NoChange
        BY <1>1, <1>5, <2>3 DEF NotesInv, TakesOver, NotesOfRunning
      <3> QED BY <2>1, <3>1, <3>2 DEF TakesOver, NotesInv, NoteTypes
    <2> QED BY <2>2, <2>3
  <1> QED BY <1>3, <1>4, <1>5 DEF NotesInv, TakesOver

LEMMA ShowNotesKeepsNotes ==
    ASSUME NotesInv, NEW p \in Programs, ShowNotes(p)
    PROVE  NotesInv'
  <1>1. /\ notes' = [notes EXCEPT ![p] = IF @ = {} THEN notesFile[active] ELSE @]
        /\ UNCHANGED <<active, notesFile, noted, recorded, kind, ready, inTurn>>
        /\ p \in ready /\ noted[p] = NoChange
    BY DEF ShowNotes, LoadNotes, Interface, Idle
  <1>2. /\ \A q \in Programs : notes[q] \subseteq notes'[q]
        /\ \A q \in Programs : q # p => notes'[q] = notes[q]
    BY <1>1 DEF NotesInv, NoteTypes
  <1>3. Runs' = Runs /\ p \in Runs /\ \A q \in Programs : Changed(q)' = Changed(q)
    BY <1>1 DEF Runs, NotesInv, NoteTypes, Changed
  <1>4. NoteTypes'
    BY <1>1, <1>3 DEF NotesInv, NoteTypes
  <1>5. NotesOfRunning'
    BY <1>1, <1>2, <1>3 DEF NotesInv, NotesOfRunning
  <1>6. TakesOver'
    BY <1>1, <1>2, <1>3 DEF NotesInv, TakesOver
  <1> QED BY <1>4, <1>5, <1>6 DEF NotesInv

(* Another workspace becomes active; in turn only while no program runs.       *)
LEMMA SwitchKeepsNotes ==
    ASSUME NotesInv, Switch
    PROVE  NotesInv'
  <1>1. /\ inTurn' = (inTurn /\ Runs = {}) /\ active' \in Scopes
        /\ UNCHANGED <<notesFile, notes, noted, recorded, kind, ready>>
    BY DEF Switch, SwitchWorkspace, ClearActive, SetActive, Scopes, notesVars
  <1>2. Runs' = Runs
    BY <1>1 DEF Runs
  <1>3. NoteTypes' /\ NotesOfRunning'
    BY <1>1, <1>2 DEF NotesInv, NoteTypes, NotesOfRunning
  <1>4. ASSUME inTurn' PROVE TakesOver'
    <2>1. inTurn /\ Runs = {} /\ \A q \in Programs : noted[q] = NoChange
      BY <1>1, <1>4 DEF NotesInv, NotesOfRunning
    <2>2. \A q \in Programs : kind[q] # "tui"
      BY <2>1 DEF Runs
    <2> QED BY <1>1, <1>2, <2>1, <2>2 DEF NotesInv, TakesOver
  <1> QED BY <1>3, <1>4 DEF NotesInv, TakesOver

LEMMA NotesStep == NotesInv /\ [Next]_vars => NotesInv'
  <1> SUFFICES ASSUME NotesInv, [Next]_vars PROVE NotesInv'
    OBVIOUS
  <1>1. ASSUME UNCHANGED <<active, notesVars, kind, ready, inTurn>> PROVE NotesInv'
    BY <1>1 DEF notesVars, NotesInv, NoteTypes, NotesOfRunning, TakesOver, Runs, Changed
  <1>2. ASSUME NEW p \in Programs, Restores(p) PROVE NotesInv'
    <2>1. /\ UNCHANGED <<active, notesFile, notes, noted, recorded, kind, inTurn>>
          /\ ready' = ready \cup {p} /\ kind[p] = "tui"
      BY <1>2 DEF Restores, notesVars
    <2> QED BY <2>1 DEF NotesInv, NoteTypes, NotesOfRunning, TakesOver, Runs, Changed
  <1>3. ASSUME NEW p \in Programs, Exit(p) \/ Kill(p) PROVE NotesInv'
    BY <1>3, NotesEnd DEF Exit, Kill, Stops, ForgetNotes
  <1>4. ASSUME NEW p \in Programs, NoteFails(p) PROVE NotesInv'
    BY <1>4, NotesEnd DEF NoteFails, SaveNotesFails
  <1>5. ASSUME NEW p \in Programs, Chat(p) \/ Save(p) \/ Quit(p) PROVE NotesInv'
    BY <1>1, <1>5 DEF Chat, Save, Quit
  <1>6. CASE UNCHANGED vars
    BY <1>1, <1>6 DEF vars
  <1> QED BY <1>2, <1>3, <1>4, <1>5, <1>6, StartKeepsNotes, NoteKeepsNotes, NoteSavedKeepsNotes,
             ShowNotesKeepsNotes, SwitchKeepsNotes DEF Next

(* README.md:536, "Notes persist across sessions": for any programs, workspaces *)
(* and notes, as long as interfaces write them in turn.                        *)
THEOREM NotesTakeTurns == Spec => []NotesPersistInTurn
  <1>1. Spec => []NotesInv
    BY NotesInitially, NotesStep, PTL DEF Spec
  <1>2. NotesInv => NotesPersistInTurn
    BY DEF NotesInv, TakesOver, NotesPersistInTurn, Quiet, RecordedInFile
  <1> QED BY <1>1, <1>2, PTL

-------------------------------------------------------------------------------
(* The conversations.                                                          *)

SaveRecords ==
    [step : Steps, scope : Scopes, entries : Seq(Ids), id : 0..MaxSaved,
     then : {"go on", "fork", "clear", "exit"}]

SaveTypes ==
    /\ saved \in [Scopes -> [Ids -> -1..MaxThreads]]
    /\ index \in [Scopes -> Seq(Ids) \cup {Cut}]
    /\ saving \in [Programs -> SaveRecords]
    /\ threads \in 0..MaxThreads
    /\ owner \in [Ids -> 0..MaxThreads]
    /\ damaged \subseteq Scopes \X (Ids \cup {AllFiles})

ChatTypes ==
    /\ active \in Scopes
    /\ session \in [Scopes -> 0..MaxSaved]
    /\ thread \in [Programs -> 0..MaxThreads]
    /\ convId \in [Programs -> 0..MaxSaved]
    /\ spoken \subseteq Runs /\ ready \subseteq Runs
    /\ kind \in [Programs -> {"off", "tui", "cli"}]

EntriesOf(p) == ToSet(saving[p].entries)
Once(s) == \A k, l \in DOMAIN s : s[k] = s[l] => k = l

(* Ids are given in their order.  What is in an index, or will be, has an      *)
(* owner, and is there once.                                                   *)
IdsInOrder == \A i, j \in Ids : i < j /\ owner[j] # 0 => owner[i] # 0

IndexOfOwned ==
    /\ \A w \in Scopes : Once(Entries(w)) /\ \A i \in Listed(w) : owner[i] # 0
    /\ \A p \in Programs : Once(saving[p].entries) /\ \A i \in EntriesOf(p) : owner[i] # 0

(* What a program shows, and what it saves, is the conversation of the id.     *)
ShowsItsOwn ==
    /\ \A p \in spoken : thread[p] # 0
    /\ \A p \in Programs : convId[p] # 0 => thread[p] # 0 /\ owner[convId[p]] = thread[p]

SavesItsOwn ==
    \A p \in Programs : ~InSave(p, "no") =>
        /\ p \in ready
        /\ saving[p].id \in Ids /\ thread[p] # 0 /\ owner[saving[p].id] = thread[p]

PrunesMore == \A p \in Programs : InSave(p, "prune") => Len(saving[p].entries) > MAX_CONVERSATIONS

FilesOfOwner == \A w \in Scopes, i \in Ids : saved[w][i] > 0 => saved[w][i] = owner[i]

(* The index and the files of a scope, of which no index was cut short: at     *)
(* most one program saves, and what is listed, or in the entries it is about   *)
(* to write, is what there is but for the file it is at.                       *)
Savers(w) == {p \in Programs : ~InSave(p, "no") /\ SaveScope(p) = w}
Sound(w) == <<w, AllFiles>> \notin damaged

FilesAre(w, S) == \A i \in Ids : <<w, i>> \notin damaged => (i \in S <=> saved[w][i] > 0)

SaveAgrees(w, p) ==
    /\ InSave(p, "write") \/ InSave(p, "prune") =>
          /\ EntriesOf(p) = Listed(w) \cup {saving[p].id}
          /\ \A i \in Ids : i # saving[p].id /\ <<w, i>> \notin damaged =>
                (i \in Listed(w) <=> saved[w][i] > 0)
    /\ InSave(p, "prune") => saved[w][saving[p].id] > 0
    /\ InSave(p, "index") =>
          EntriesOf(p) \subseteq Listed(w) \cup {saving[p].id} /\ FilesAre(w, EntriesOf(p))
    /\ InSave(p, "entries") => FilesAre(w, EntriesOf(p))
    /\ InSave(p, "return") \/ InSave(p, "failed") => FilesAre(w, Listed(w))

IndexAgrees(w) ==
    Sound(w) =>
        /\ \A p, q \in Savers(w) : p = q
        /\ Savers(w) = {} => FilesAre(w, Listed(w))
        /\ \A p \in Savers(w) : SaveAgrees(w, p)

StoreInv ==
    /\ SaveTypes /\ ChatTypes
    /\ IdsInOrder /\ IndexOfOwned /\ ShowsItsOwn /\ SavesItsOwn /\ PrunesMore /\ FilesOfOwner
    /\ \A w \in Scopes : IndexAgrees(w)

LEMMA StoreNumbers ==
    /\ MAX_CONVERSATIONS \in Nat /\ MaxSaved \in Nat /\ MaxThreads \in Nat
    /\ Ids \subseteq Nat /\ 0 \notin Ids /\ Ids \subseteq 0..MaxSaved /\ 0 \in 0..MaxSaved
    /\ 0..MaxSaved = Ids \cup {0} /\ 0 \in 0..MaxThreads /\ Empty \in -1..MaxThreads
    /\ 0..MaxThreads \subseteq -1..MaxThreads /\ ~(Empty > 0) /\ ~(Missing > 0)
    /\ Missing \in -1..MaxThreads /\ AllFiles \notin Ids
    /\ ~(0 > 0) /\ \A t \in 1..MaxThreads : t \in 0..MaxThreads /\ t # 0
  BY ConversationsAssumption DEF Ids, Empty, Missing, AllFiles

(* The entries of an index.                                                    *)
LEMMA EntriesType ==
    ASSUME SaveTypes, NEW w \in Scopes
    PROVE  Entries(w) \in Seq(Ids) /\ Listed(w) \subseteq Ids
  <1>1. Entries(w) \in Seq(Ids)
    BY EmptySeq DEF Entries, SaveTypes
  <1> QED BY <1>1, ElementOfSeq, LenProperties DEF Listed, ToSet

LEMMA EntriesOfType ==
    ASSUME SaveTypes, NEW p \in Programs
    PROVE  saving[p] \in SaveRecords /\ saving[p].entries \in Seq(Ids) /\ EntriesOf(p) \subseteq Ids
  <1>1. saving[p] \in SaveRecords /\ saving[p].entries \in Seq(Ids)
    BY DEF SaveTypes, SaveRecords
  <1> QED BY <1>1, ElementOfSeq, LenProperties DEF EntriesOf, ToSet

(* An index that was cut short is read as an empty one, and nothing else is.   *)
LEMMA CutIsNoIndex == Cut \notin Seq(Ids)
  <1> SUFFICES ASSUME Cut \in Seq(Ids) PROVE FALSE
    OBVIOUS
  <1>1. 1 \in 1..Len(Cut) /\ Cut[1] = 0
    BY DEF Cut
  <1> QED BY <1>1, ElementOfSeq, StoreNumbers

(* A new entry, and those that are kept.                                       *)
LEMMA NewEntry ==
    ASSUME NEW s \in Seq(Ids), NEW i \in Ids, i \notin ToSet(s), Once(s)
    PROVE  <<i>> \o s \in Seq(Ids) /\ Once(<<i>> \o s) /\ ToSet(<<i>> \o s) = ToSet(s) \cup {i}
  <1> DEFINE longer == <<i>> \o s
  <1>1. /\ <<i>> \in Seq(Ids) /\ Len(<<i>>) = 1 /\ <<i>>[1] = i
        /\ Len(s) \in Nat /\ DOMAIN s = 1..Len(s)
    BY LenProperties
  <1>2. /\ longer \in Seq(Ids) /\ Len(longer) = Len(<<i>>) + Len(s)
        /\ \A k \in 1..Len(<<i>>) + Len(s) :
              longer[k] = IF k <= Len(<<i>>) THEN <<i>>[k] ELSE s[k - Len(<<i>>)]
    BY <1>1, ConcatProperties
  <1>3. DOMAIN longer = 1..Len(longer)
    BY <1>2, LenProperties
  <1> HIDE DEF longer
  <1>4. DOMAIN longer = 1..Len(s) + 1
    BY <1>1, <1>2, <1>3
  <1>5. longer[1] = i /\ \A k \in 2..Len(s) + 1 : longer[k] = s[k - 1]
    BY <1>1, <1>2
  <1>6. \A k \in 1..Len(s) + 1 : k = 1 \/ (k \in 2..Len(s) + 1 /\ k - 1 \in 1..Len(s))
    BY <1>1
  <1>7. \A k \in 1..Len(s) : k + 1 \in 2..Len(s) + 1 /\ (k + 1) - 1 = k /\ k + 1 \in 1..Len(s) + 1
    BY <1>1
  <1>8. 1 \in 1..Len(s) + 1
    BY <1>1
  <1>9. \A k \in 1..Len(s) : s[k] # i
    BY <1>1 DEF ToSet
  <1>10. Once(longer)
    <2> SUFFICES ASSUME NEW k \in 1..Len(s) + 1, NEW l \in 1..Len(s) + 1, longer[k] = longer[l]
                 PROVE  k = l
      BY <1>4 DEF Once
    <2>1. CASE k = 1 \/ l = 1
      BY <1>5, <1>6, <1>9, <2>1
    <2>2. CASE k # 1 /\ l # 1
      <3>1. k - 1 = l - 1
        BY <1>1, <1>5, <1>6, <2>2 DEF Once
      <3> QED BY <3>1
    <2> QED BY <2>1, <2>2
  <1>11. ToSet(longer) = ToSet(s) \cup {i}
    <2>1. ASSUME NEW x \in ToSet(longer) PROVE x \in ToSet(s) \cup {i}
      <3>1. PICK k \in 1..Len(s) + 1 : longer[k] = x
        BY <1>4, <2>1 DEF ToSet
      <3> QED BY <1>1, <1>5, <1>6, <3>1 DEF ToSet
    <2>2. ASSUME NEW x \in ToSet(s) PROVE x \in ToSet(longer)
      <3>1. PICK k \in 1..Len(s) : s[k] = x
        BY <1>1, <2>2 DEF ToSet
      <3>2. longer[k + 1] = x /\ k + 1 \in DOMAIN longer
        BY <1>4, <1>5, <1>7, <3>1
      <3> QED BY <3>2 DEF ToSet
    <2>3. i \in ToSet(longer)
      BY <1>4, <1>5, <1>8 DEF ToSet
    <2> QED BY <2>1, <2>2, <2>3
  <1> QED BY <1>2, <1>10, <1>11 DEF longer

LEMMA KeptEntries ==
    ASSUME NEW s \in Seq(Ids), NEW n \in Nat, n < Len(s), Once(s)
    PROVE  LET kept == SubSeq(s, 1, n)
               gone == ToSet(SubSeq(s, n + 1, Len(s)))
           IN  /\ kept \in Seq(Ids) /\ Once(kept)
               /\ ToSet(kept) = ToSet(s) \ gone /\ gone \subseteq ToSet(s)
  <1> DEFINE kept == SubSeq(s, 1, n)
             rest == SubSeq(s, n + 1, Len(s))
  <1>1. Len(s) \in Nat /\ DOMAIN s = 1..Len(s) /\ \A k \in 1..Len(s) : s[k] \in Ids
    BY LenProperties, ElementOfSeq
  <1>2. kept = [k \in 1..n |-> s[k]]
    BY <1>1
  <1>3. kept \in Seq(Ids)
    <2> HIDE DEF kept
    <2>0. 1..n \subseteq 1..Len(s)
      BY <1>1
    <2>1. kept \in [1..n -> Ids]
      BY <1>1, <1>2, <2>0
    <2> QED BY <2>1, SeqDef
  <1>4. rest = [k \in 1..Len(s) - n |-> s[n + k]]
    <2>1. rest = [k \in 1..(Len(s) - (n + 1) + 1) |-> s[(n + 1) + k - 1]]
      BY <1>1
    <2>2. Len(s) - (n + 1) + 1 = Len(s) - n /\ \A k \in 1..Len(s) - n : (n + 1) + k - 1 = n + k
      BY <1>1
    <2> QED BY <2>1, <2>2
  <1> HIDE DEF kept, rest
  <1>5. Once(kept)
    BY <1>1, <1>2 DEF Once
  <1>6. \A x : x \in ToSet(kept) <=> \E k \in 1..n : s[k] = x
    BY <1>2 DEF ToSet
  <1>7. \A x : x \in ToSet(rest) <=> \E k \in n + 1..Len(s) : s[k] = x
    <2>1. ASSUME NEW x, x \in ToSet(rest) PROVE \E k \in n + 1..Len(s) : s[k] = x
      <3>1. PICK k \in 1..Len(s) - n : s[n + k] = x
        BY <1>4, <2>1 DEF ToSet
      <3>2. n + k \in n + 1..Len(s)
        BY <1>1
      <3> QED BY <3>1, <3>2
    <2>2. ASSUME NEW x, NEW k \in n + 1..Len(s), s[k] = x PROVE x \in ToSet(rest)
      <3>1. k - n \in 1..Len(s) - n /\ n + (k - n) = k
        BY <1>1
      <3>2. rest[k - n] = x /\ k - n \in DOMAIN rest
        BY <1>4, <2>2, <3>1
      <3> QED BY <3>2 DEF ToSet
    <2> QED BY <2>1, <2>2
  <1>8. \A x : x \in ToSet(s) <=> \E k \in 1..Len(s) : s[k] = x
    BY <1>1 DEF ToSet
  <1>9. \A k \in 1..Len(s) : (k \in 1..n \/ k \in n + 1..Len(s)) /\ ~(k \in 1..n /\ k \in n + 1..Len(s))
    BY <1>1
  <1>10. 1..n \subseteq 1..Len(s) /\ n + 1..Len(s) \subseteq 1..Len(s)
    BY <1>1
  <1>11. \A k, l \in 1..Len(s) : s[k] = s[l] => k = l
    BY <1>1 DEF Once
  <1>12. ToSet(rest) \subseteq ToSet(s)
    BY <1>7, <1>8, <1>10
  <1>13. ToSet(kept) = ToSet(s) \ ToSet(rest)
    <2>1. ASSUME NEW x \in ToSet(kept) PROVE x \in ToSet(s) \ ToSet(rest)
      <3>1. PICK k \in 1..n : s[k] = x
        BY <1>6, <2>1
      <3>2. ~\E l \in n + 1..Len(s) : s[l] = x
        BY <1>9, <1>10, <1>11, <3>1
      <3> QED BY <1>7, <1>8, <1>10, <3>1, <3>2
    <2>2. ASSUME NEW x \in ToSet(s) \ ToSet(rest) PROVE x \in ToSet(kept)
      BY <1>6, <1>7, <1>8, <1>9, <2>2
    <2> QED BY <2>1, <2>2
  <1> QED BY <1>3, <1>5, <1>12, <1>13 DEF kept, rest

-------------------------------------------------------------------------------
(* A save begins.                                                              *)

(* The next id is one that has no owner yet.                                   *)
LEMMA NextId ==
    ASSUME SaveTypes, IdsInOrder
    PROVE  LET given == {i \in Ids : owner[i] # 0}
               new == Cardinality(given) + 1
           IN  /\ new \in Ids => owner[new] = 0
               /\ \A i \in Ids : i < new => owner[i] # 0
  <1> DEFINE given == {i \in Ids : owner[i] # 0}
  <1>1. \E m \in 0..MaxSaved : given = 1..m
    <2> DEFINE last == {m \in 0..MaxSaved : m + 1 \notin given}
    <2>1. MaxSaved \in last
      BY StoreNumbers DEF Ids
    <2>2. PICK m \in last : \A k \in last : ~(<<k, m>> \in OpToRel(<, Nat))
      <3>1. last \subseteq Nat /\ last # {}
        BY <2>1, StoreNumbers
      <3> HIDE DEF last
      <3> QED BY <3>1, NatLessThanWellFounded, WFMin
    <2>3. m \in 0..MaxSaved /\ m \in Nat /\ m + 1 \notin given /\ \A k \in last : ~(k < m)
      <3>1. m \in 0..MaxSaved /\ m \in Nat /\ m + 1 \notin given /\ last \subseteq Nat
        BY StoreNumbers
      <3> HIDE DEF last
      <3>2. \A k \in last : ~(k < m)
        BY <2>2, <3>1 DEF OpToRel
      <3> QED BY <3>1, <3>2
    <2>4. ASSUME NEW i \in 1..m PROVE i \in given
      <3>1. i - 1 \in 0..MaxSaved /\ i - 1 < m /\ (i - 1) + 1 = i
        BY <2>3, StoreNumbers
      <3> QED BY <2>3, <3>1
    <2>5. ASSUME NEW i \in given PROVE i \in 1..m
      <3>1. i \in Ids /\ owner[i] # 0 /\ i \in 1..MaxSaved
        BY DEF Ids
      <3>2. CASE i <= m
        BY <2>3, <3>1, <3>2, StoreNumbers
      <3>3. CASE ~(i <= m)
        <4>1. m + 1 \in Ids /\ (m + 1 = i \/ m + 1 < i)
          BY <2>3, <3>1, <3>3, StoreNumbers DEF Ids
        <4>2. owner[m + 1] # 0
          BY <3>1, <4>1 DEF IdsInOrder
        <4> QED BY <2>3, <4>1, <4>2
      <3> QED BY <3>2, <3>3
    <2> QED BY <2>3, <2>4, <2>5
  <1>2. PICK m \in 0..MaxSaved : given = 1..m
    BY <1>1
  <1> HIDE DEF given
  <1>3. Cardinality(given) = m /\ m \in Nat
    <2>1. 1 \in Int /\ m \in Int /\ m \in Nat
      BY <1>2, StoreNumbers
    <2>2. Cardinality(1..m) = m
      BY <2>1, FS_Interval
    <2> QED BY <1>2, <2>1, <2>2
  <1>4. \A i \in Ids : owner[i] # 0 <=> i \in 1..m
    BY <1>2 DEF given
  <1>5. m + 1 \notin 1..m /\ \A i \in Ids : i < m + 1 => i \in 1..m
    BY <1>3, StoreNumbers DEF Ids
  <1> QED BY <1>3, <1>4, <1>5 DEF given

(* What a save begins with.                                                    *)
Begun(p, t, then, i, e) ==
    /\ saving' = [saving EXCEPT ![p] =
                    [step |-> "write", scope |-> active, id |-> i, then |-> then, entries |-> e]]
    /\ saved' = [saved EXCEPT ![active] = [@ EXCEPT ![i] = Empty]]
    /\ owner' = [owner EXCEPT ![i] = t]
    /\ owner[i] # 0 => owner[i] = t
    /\ \A j \in Ids : j < i => owner[j] # 0
    /\ e \in Seq(Ids) /\ Once(e) /\ ToSet(e) = Listed(active) \cup {i}
    /\ damaged' \in {damaged, damaged \cup {<<active, AllFiles>>}}
    /\ \/ \A q \in Programs : q # p => InSave(q, "no") \/ SaveScope(q) # active
       \/ <<active, AllFiles>> \in damaged'

LEMMA BeginsSave ==
    ASSUME StoreInv, NEW p \in Programs, NEW t \in 1..MaxThreads, NEW id \in 0..MaxSaved, NEW then,
           id # 0 => owner[id] = t, BeginSave(p, t, id, then)
    PROVE  \E i \in Ids, e \in Seq(Ids) : Begun(p, t, then, i, e)
  <1>0. /\ active \in Scopes /\ SaveTypes /\ IdsInOrder /\ IndexOfOwned
    BY DEF StoreInv, ChatTypes
  <1>1. Entries(active) \in Seq(Ids) /\ Listed(active) \subseteq Ids /\ Once(Entries(active))
        /\ Listed(active) = ToSet(Entries(active)) /\ \A i \in Listed(active) : owner[i] # 0
    BY <1>0, EntriesType DEF IndexOfOwned, Listed
  <1> DEFINE known == id \in Listed(active)
             given == {i \in Ids : owner[i] # 0}
             new == Cardinality(given) + 1
             place == IF known THEN id ELSE new
             e == IF known THEN Entries(active) ELSE <<place>> \o Entries(active)
  <1>2. /\ place \in Ids
        /\ saving' = [saving EXCEPT ![p] =
             [step |-> "write", scope |-> active, id |-> place, then |-> then, entries |-> e]]
        /\ saved' = [saved EXCEPT ![active][place] = Empty]
        /\ owner' = [owner EXCEPT ![place] = IF known THEN @ ELSE t]
    BY DEF BeginSave
  <1>3. /\ damaged' \in {damaged, damaged \cup {<<active, AllFiles>>}}
        /\ \/ \A q \in Programs : q # p => InSave(q, "no") \/ SaveScope(q) # active
           \/ damaged' = damaged \cup {<<active, AllFiles>>}
    BY DEF BeginSave
  <1>4. new \in Ids => owner[new] = 0
    BY <1>0, NextId
  <1>5. \A i \in Ids : i < new => owner[i] # 0
    BY <1>0, NextId
  <1> HIDE DEF new
  <1>6. ASSUME NEW i \in Ids, place = i, owner' = [owner EXCEPT ![i] = t],
               owner[i] # 0 => owner[i] = t, \A j \in Ids : j < i => owner[j] # 0,
               e \in Seq(Ids), Once(e), ToSet(e) = Listed(active) \cup {i}
        PROVE  Begun(p, t, then, i, e)
    <2>1. saved' = [saved EXCEPT ![active] = [@ EXCEPT ![i] = Empty]]
      BY <1>2, <1>6
    <2>2. saving' = [saving EXCEPT ![p] =
             [step |-> "write", scope |-> active, id |-> i, then |-> then, entries |-> e]]
      BY <1>2, <1>6
    <2>3. \/ \A q \in Programs : q # p => InSave(q, "no") \/ SaveScope(q) # active
          \/ <<active, AllFiles>> \in damaged'
      BY <1>3
    <2> HIDE DEF e, place
    <2> QED BY <1>3, <1>6, <2>1, <2>2, <2>3 DEF Begun
  <1>7. CASE known
    <2>1. id # 0 /\ id \in Ids
      BY <1>1, <1>7, StoreNumbers
    <2>2. owner[id] = t /\ owner[id] # 0 /\ place = id /\ e = Entries(active)
      BY <1>1, <1>7, <2>1
    <2>3. owner' = [owner EXCEPT ![id] = t]
      BY <1>2, <1>7, <2>2
    <2>4. \A j \in Ids : j < id => owner[j] # 0
      BY <1>0, <2>1, <2>2 DEF IdsInOrder
    <2>5. ToSet(e) = Listed(active) \cup {id} /\ e \in Seq(Ids) /\ Once(e)
      BY <1>1, <1>7, <2>2
    <2> HIDE DEF e, place, known
    <2>6. Begun(p, t, then, id, e)
      BY <1>6, <2>1, <2>2, <2>3, <2>4, <2>5
    <2> QED BY <2>1, <2>5, <2>6
  <1>8. CASE ~known
    <2>1. place = new /\ new \in Ids /\ e = <<new>> \o Entries(active)
      BY <1>2, <1>8
    <2>2. owner[new] = 0 /\ \A j \in Ids : j < new => owner[j] # 0
      BY <1>4, <1>5, <2>1
    <2>3. new \notin ToSet(Entries(active))
      BY <1>1, <2>2
    <2>4. owner' = [owner EXCEPT ![new] = t]
      BY <1>2, <1>8, <2>1
    <2>5. e \in Seq(Ids) /\ Once(e) /\ ToSet(e) = Listed(active) \cup {new}
      BY <1>1, <2>1, <2>3, NewEntry
    <2> HIDE DEF e, place, known
    <2>6. Begun(p, t, then, new, e)
      BY <1>6, <2>1, <2>2, <2>4, <2>5
    <2> QED BY <2>1, <2>5, <2>6
  <1> QED BY <1>7, <1>8

-------------------------------------------------------------------------------
(* Steps of a program that saves.                                              *)

(* What a program does in one scope leaves the index of another as it is.      *)
LEMMA AgreesElsewhere ==
    ASSUME NEW w, NEW p \in Programs, IndexAgrees(w),
           index'[w] = index[w], saved'[w] = saved[w], damaged \subseteq damaged',
           \A q \in Programs : q # p => saving'[q] = saving[q],
           p \notin Savers(w), p \notin Savers(w)'
    PROVE  IndexAgrees(w)'
  <1>1. Savers(w)' = Savers(w) /\ \A q \in Savers(w) : q # p
    BY DEF Savers, InSave, SaveScope
  <1>2. Listed(w)' = Listed(w)
    BY DEF Listed, Entries
  <1>3. ASSUME NEW S, FilesAre(w, S) PROVE FilesAre(w, S)'
    BY <1>3 DEF FilesAre
  <1>4. ASSUME NEW q \in Savers(w), SaveAgrees(w, q) PROVE SaveAgrees(w, q)'
    <2>1. saving'[q] = saving[q] /\ EntriesOf(q)' = EntriesOf(q)
      BY <1>1 DEF Savers, EntriesOf
    <2>2. \A S : FilesAre(w, S) => FilesAre(w, S)'
      BY <1>3
    <2>3. /\ FilesAre(w, EntriesOf(q)) => FilesAre(w, EntriesOf(q))'
          /\ FilesAre(w, Listed(w)) => FilesAre(w, Listed(w))'
      BY <1>2, <2>1 DEF FilesAre
    <2> QED BY <1>2, <1>4, <2>1, <2>3 DEF SaveAgrees, InSave
  <1>5. FilesAre(w, Listed(w)) => FilesAre(w, Listed(w))'
    BY <1>2 DEF FilesAre
  <1> QED BY <1>1, <1>4, <1>5 DEF IndexAgrees, Sound

(* A program that saves in a sound scope is the only one there.                *)
LEMMA OnlySaver ==
    ASSUME NEW w, NEW p \in Programs, IndexAgrees(w), p \in Savers(w), Sound(w),
           \A q \in Programs : q # p => saving'[q] = saving[q]
    PROVE  SaveAgrees(w, p) /\ Savers(w)' \subseteq {p}
  <1>1. SaveAgrees(w, p) /\ \A q \in Savers(w) : q = p
    BY DEF IndexAgrees
  <1>2. \A q \in Programs : q # p => (q \in Savers(w)' <=> q \in Savers(w))
    BY DEF Savers, InSave, SaveScope
  <1> QED BY <1>1, <1>2 DEF Savers

(* So its step keeps the index if it keeps what it has to see to.              *)
LEMMA AgreesHere ==
    ASSUME NEW w, NEW p \in Programs, Savers(w)' \subseteq {p},
           p \in Savers(w)' => SaveAgrees(w, p)',
           p \notin Savers(w)' => FilesAre(w, Listed(w))'
    PROVE  IndexAgrees(w)'
  BY DEF IndexAgrees

LEMMA BegunKeeps ==
    ASSUME StoreInv, NEW p \in Programs, NEW t \in 1..MaxThreads,
           NEW then \in {"go on", "fork", "clear", "exit"}, NEW i \in Ids, NEW e \in Seq(Ids),
           Begun(p, t, then, i, e), InSave(p, "no"), p \in ready,
           thread' \in [Programs -> 0..MaxThreads], thread'[p] = t,
           \A q \in Programs : q # p => thread'[q] = thread[q],
           convId[p] # 0 => owner[convId[p]] = t,
           spoken' \subseteq spoken \cup {p}, threads' \in 0..MaxThreads,
           UNCHANGED <<index, session, convId, active, kind, ready>>
    PROVE  StoreInv'
  <1> DEFINE s == [step |-> "write", scope |-> active, id |-> i, then |-> then, entries |-> e]
  <1>0. SaveTypes /\ ChatTypes
    BY DEF StoreInv
  <1>1. /\ saving' = [saving EXCEPT ![p] = s]
        /\ saved' = [saved EXCEPT ![active] = [@ EXCEPT ![i] = Empty]]
        /\ owner' = [owner EXCEPT ![i] = t]
        /\ owner[i] # 0 => owner[i] = t
        /\ \A j \in Ids : j < i => owner[j] # 0
        /\ e \in Seq(Ids) /\ Once(e) /\ ToSet(e) = Listed(active) \cup {i}
        /\ damaged' \in {damaged, damaged \cup {<<active, AllFiles>>}}
        /\ \/ \A q \in Programs : q # p => InSave(q, "no") \/ SaveScope(q) # active
           \/ <<active, AllFiles>> \in damaged'
    BY DEF Begun
  <1>2. s \in SaveRecords
    BY <1>0, StoreNumbers DEF SaveRecords, Steps, ChatTypes
  <1>3. saving'[p] = s /\ \A q \in Programs : q # p => saving'[q] = saving[q]
    BY <1>0, <1>1 DEF SaveTypes
  <1>4. /\ s.step = "write" /\ s.scope = active /\ s.id = i /\ s.entries = e
    OBVIOUS
  <1> HIDE DEF s
  <1>5. /\ t \in 0..MaxThreads /\ t # 0
        /\ owner'[i] = t /\ \A j \in Ids : j # i => owner'[j] = owner[j]
        /\ \A j \in Ids : owner[j] # 0 => owner'[j] = owner[j]
    <2>1. t \in 0..MaxThreads /\ t # 0
      BY Zenon, StoreNumbers
    <2>2. owner'[i] = t /\ \A j \in Ids : j # i => owner'[j] = owner[j]
      BY <1>0, <1>1 DEF SaveTypes
    <2> QED BY <1>1, <2>1, <2>2
  <1>6. /\ \A w \in Scopes : w # active => saved'[w] = saved[w]
        /\ saved'[active][i] = Empty
        /\ \A j \in Ids : j # i => saved'[active][j] = saved[active][j]
    BY <1>0, <1>1 DEF SaveTypes, ChatTypes
  <1>7. SaveTypes'
    <2>1. saved' \in [Scopes -> [Ids -> -1..MaxThreads]]
      BY <1>0, <1>1, StoreNumbers DEF SaveTypes
    <2>2. owner' \in [Ids -> 0..MaxThreads] /\ saving' \in [Programs -> SaveRecords]
      BY <1>0, <1>1, <1>2, <1>5 DEF SaveTypes
    <2>3. damaged' \subseteq Scopes \X (Ids \cup {AllFiles})
      <3>1. active \in Scopes
        BY <1>0 DEF ChatTypes
      <3>2. <<active, AllFiles>> \in Scopes \X (Ids \cup {AllFiles})
        BY <3>1
      <3> QED BY <1>0, <1>1, <3>2 DEF SaveTypes
    <2> QED BY <1>0, <2>1, <2>2, <2>3 DEF SaveTypes
  <1>8. ChatTypes'
    BY <1>0 DEF ChatTypes, Runs
  <1>9. IdsInOrder'
    <2> SUFFICES ASSUME NEW j \in Ids, NEW k \in Ids, j < k, owner'[k] # 0 PROVE owner'[j] # 0
      BY DEF IdsInOrder
    <2>1. owner[j] # 0
      BY <1>1, <1>5 DEF StoreInv, IdsInOrder
    <2> QED BY <1>5, <2>1
  <1>10. IndexOfOwned'
    <2>1. ASSUME NEW w \in Scopes PROVE Once(Entries(w))' /\ \A j \in Listed(w)' : owner'[j] # 0
      <3>1. Entries(w)' = Entries(w) /\ Listed(w)' = Listed(w)
        BY DEF Entries, Listed
      <3>2. Once(Entries(w)) /\ Listed(w) \subseteq Ids /\ \A j \in Listed(w) : owner[j] # 0
        BY <1>0, EntriesType DEF StoreInv, IndexOfOwned
      <3> QED BY <1>5, <3>1, <3>2 DEF Once
    <2>2. ASSUME NEW q \in Programs
          PROVE  Once(saving'[q].entries) /\ \A j \in EntriesOf(q)' : owner'[j] # 0
      <3>1. CASE q = p
        <4>1. EntriesOf(p)' = Listed(active) \cup {i}
          BY <1>1, <1>3, <1>4 DEF EntriesOf
        <4>2. Listed(active) \subseteq Ids /\ \A j \in Listed(active) : owner[j] # 0
          BY <1>0, EntriesType DEF StoreInv, IndexOfOwned, ChatTypes
        <4> QED BY <1>1, <1>3, <1>4, <1>5, <3>1, <4>1, <4>2
      <3>2. CASE q # p
        <4>1. saving'[q] = saving[q] /\ EntriesOf(q)' = EntriesOf(q) /\ EntriesOf(q) \subseteq Ids
          BY <1>0, <1>3, <3>2, EntriesOfType DEF EntriesOf
        <4> QED BY <1>5, <4>1 DEF StoreInv, IndexOfOwned
      <3> QED BY <3>1, <3>2
    <2> QED BY <2>1, <2>2 DEF IndexOfOwned, Once
  <1>11. ShowsItsOwn'
    <2>1. ASSUME NEW q \in Programs, convId[q] # 0
          PROVE  thread'[q] # 0 /\ owner'[convId[q]] = thread'[q]
      <3>1. convId[q] \in Ids
        BY <1>0, <2>1, StoreNumbers DEF ChatTypes
      <3>2. thread[q] # 0 /\ owner[convId[q]] = thread[q]
        BY <2>1 DEF StoreInv, ShowsItsOwn
      <3>3. owner'[convId[q]] = owner[convId[q]]
        BY <1>5, <3>1, <3>2
      <3> QED BY <1>5, <2>1, <3>2, <3>3
    <2>2. \A q \in spoken' : thread'[q] # 0
      BY <1>0, <1>5 DEF StoreInv, ShowsItsOwn, ChatTypes, Runs
    <2> QED BY <2>1, <2>2 DEF ShowsItsOwn
  <1>12. SavesItsOwn'
    <2> SUFFICES ASSUME NEW q \in Programs, ~InSave(q, "no")'
                 PROVE  /\ q \in ready' /\ saving'[q].id \in Ids /\ thread'[q] # 0
                        /\ owner'[saving'[q].id] = thread'[q]
      BY DEF SavesItsOwn
    <2>1. CASE q = p
      BY <1>3, <1>4, <1>5, <2>1
    <2>2. CASE q # p
      <3>1. q \in ready /\ saving[q].id \in Ids /\ thread[q] # 0 /\ owner[saving[q].id] = thread[q]
        BY <1>3, <2>2 DEF StoreInv, SavesItsOwn, InSave
      <3> QED BY <1>3, <1>5, <2>2, <3>1
    <2> QED BY <2>1, <2>2
  <1>13. PrunesMore'
    BY <1>3, <1>4 DEF StoreInv, PrunesMore, InSave
  <1>14. FilesOfOwner'
    <2> SUFFICES ASSUME NEW w \in Scopes, NEW j \in Ids, saved'[w][j] > 0
                 PROVE  saved'[w][j] = owner'[j]
      BY DEF FilesOfOwner
    <2>1. saved'[w][j] = saved[w][j]
      BY <1>6, StoreNumbers
    <2>2. saved[w][j] = owner[j] /\ owner[j] # 0
      <3>1. saved[w][j] > 0
        BY <2>1
      <3>2. saved[w][j] = owner[j]
        BY <3>1 DEF StoreInv, FilesOfOwner
      <3>3. ~(0 > 0)
        BY Zenon, StoreNumbers
      <3> QED BY <3>1, <3>2, <3>3
    <2> QED BY <1>5, <2>1, <2>2
  <1>15. ASSUME NEW w \in Scopes PROVE IndexAgrees(w)'
    <2>0. IndexAgrees(w) /\ damaged \subseteq damaged'
      BY <1>1 DEF StoreInv
    <2>1. CASE w # active
      <3>1. p \notin Savers(w) /\ p \notin Savers(w)'
        BY <1>3, <1>4, <2>1 DEF Savers, InSave, SaveScope
      <3>2. index'[w] = index[w] /\ saved'[w] = saved[w]
        BY <1>6, <2>1
      <3> QED BY <1>3, <2>0, <3>1, <3>2, AgreesElsewhere
    <2>2. CASE w = active /\ Sound(w)'
      <3>1. Sound(w) /\ \A q \in Programs : q # p => InSave(q, "no") \/ SaveScope(q) # active
        BY <1>1, <2>0, <2>2 DEF Sound
      <3>2. Savers(w) = {} /\ Savers(w)' \subseteq {p}
        BY <1>3, <2>2, <3>1 DEF Savers, InSave, SaveScope
      <3>3. FilesAre(w, Listed(w)) /\ Listed(w)' = Listed(w)
        BY <2>0, <3>1, <3>2 DEF IndexAgrees, Listed, Entries
      <3>4. InSave(p, "write")' /\ \A x : InSave(p, x)' => x = "write"
        BY <1>3, <1>4 DEF InSave
      <3>5. EntriesOf(p)' = Listed(w) \cup {i} /\ saving'[p].id = i
        BY <1>1, <1>3, <1>4, <2>2 DEF EntriesOf
      <3>6. ASSUME NEW j \in Ids, j # i, <<w, j>> \notin damaged'
            PROVE  j \in Listed(w) <=> saved'[w][j] > 0
        BY <1>6, <2>0, <2>2, <3>3, <3>6 DEF FilesAre
      <3>7. SaveAgrees(w, p)'
        BY <3>3, <3>4, <3>5, <3>6 DEF SaveAgrees
      <3>8. p \in Savers(w)'
        BY <1>3, <1>4, <2>2 DEF Savers, InSave, SaveScope
      <3> QED BY <3>2, <3>7, <3>8, AgreesHere
    <2>3. CASE ~Sound(w)'
      BY <2>3 DEF IndexAgrees
    <2> QED BY <2>1, <2>2, <2>3
  <1> QED BY <1>7, <1>8, <1>9, <1>10, <1>11, <1>12, <1>13, <1>14, <1>15 DEF StoreInv

(* What every step of a save keeps to: nothing but the step and the entries of *)
(* the program, and the files and the index of its scope.                      *)
Advances(p, w) ==
    /\ ~InSave(p, "no") /\ SaveScope(p) = w
    /\ UNCHANGED <<session, chatVars, threads, owner, active, kind, ready>>
    /\ \E x \in Steps \ {"no"}, e \in Seq(Ids) :
          /\ saving' = [saving EXCEPT ![p] = [@ EXCEPT !.step = x, !.entries = e]]
          /\ Once(e) /\ ToSet(e) \subseteq EntriesOf(p)
          /\ x = "prune" => Len(e) > MAX_CONVERSATIONS
    /\ index' \in [Scopes -> Seq(Ids) \cup {Cut}]
    /\ saved' \in [Scopes -> [Ids -> -1..MaxThreads]]
    /\ \A v \in Scopes : v # w => index'[v] = index[v] /\ saved'[v] = saved[v]
    /\ Once(Entries(w))' /\ Listed(w)' \subseteq Listed(w) \cup EntriesOf(p)
    /\ \A i \in Ids : saved'[w][i] > 0 => saved'[w][i] = owner[i]
    /\ damaged \subseteq damaged' /\ damaged' \subseteq Scopes \X (Ids \cup {AllFiles})

LEMMA SaveStepKeeps ==
    ASSUME StoreInv, NEW p \in Programs, NEW w \in Scopes, Advances(p, w),
           Sound(w)' /\ SaveAgrees(w, p) => SaveAgrees(w, p)'
    PROVE  StoreInv'
  <1>0. SaveTypes /\ ChatTypes
    BY DEF StoreInv
  <1>1. /\ ~InSave(p, "no") /\ SaveScope(p) = w
        /\ UNCHANGED <<session, chatVars, threads, owner, active, kind, ready>>
        /\ index' \in [Scopes -> Seq(Ids) \cup {Cut}]
        /\ saved' \in [Scopes -> [Ids -> -1..MaxThreads]]
        /\ \A v \in Scopes : v # w => index'[v] = index[v] /\ saved'[v] = saved[v]
        /\ Once(Entries(w))' /\ Listed(w)' \subseteq Listed(w) \cup EntriesOf(p)
        /\ \A i \in Ids : saved'[w][i] > 0 => saved'[w][i] = owner[i]
        /\ damaged \subseteq damaged' /\ damaged' \subseteq Scopes \X (Ids \cup {AllFiles})
    BY DEF Advances
  <1>2. PICK x \in Steps \ {"no"}, e \in Seq(Ids) :
              /\ saving' = [saving EXCEPT ![p] = [@ EXCEPT !.step = x, !.entries = e]]
              /\ Once(e) /\ ToSet(e) \subseteq EntriesOf(p)
              /\ x = "prune" => Len(e) > MAX_CONVERSATIONS
    BY DEF Advances
  <1>3. /\ saving'[p] = [saving[p] EXCEPT !.step = x, !.entries = e]
        /\ \A q \in Programs : q # p => saving'[q] = saving[q]
    BY <1>0, <1>2 DEF SaveTypes
  <1>4. saving[p] \in SaveRecords
    BY <1>0, EntriesOfType
  <1>5. /\ saving'[p] \in SaveRecords /\ saving'[p].step = x /\ saving'[p].entries = e
        /\ saving'[p].id = saving[p].id /\ saving'[p].scope = saving[p].scope
    BY <1>3, <1>4 DEF SaveRecords
  <1>6. SaveTypes'
    <2>1. saving' \in [Programs -> SaveRecords]
      <3>1. DOMAIN saving' = Programs /\ saving' = [q \in Programs |-> saving'[q]]
        BY <1>0, <1>2 DEF SaveTypes
      <3>2. \A q \in Programs : saving'[q] \in SaveRecords
        BY <1>0, <1>3, <1>5 DEF SaveTypes
      <3> QED BY <3>1, <3>2
    <2> QED BY <1>0, <1>1, <2>1 DEF SaveTypes
  <1>7. ChatTypes'
    BY <1>0, <1>1 DEF ChatTypes, Runs, chatVars
  <1>8. IdsInOrder'
    BY <1>1 DEF StoreInv, IdsInOrder
  <1>9. IndexOfOwned'
    <2>0. \A i \in Listed(w) \cup EntriesOf(p) : owner'[i] # 0
      BY <1>0, <1>1 DEF StoreInv, IndexOfOwned
    <2>1. ASSUME NEW v \in Scopes PROVE Once(Entries(v))' /\ \A i \in Listed(v)' : owner'[i] # 0
      <3>1. CASE v = w
        BY <1>1, <2>0, <3>1
      <3>2. CASE v # w
        <4>1. Entries(v)' = Entries(v) /\ Listed(v)' = Listed(v)
          BY <1>1, <3>2 DEF Entries, Listed
        <4> QED BY <1>1, <4>1 DEF StoreInv, IndexOfOwned, Once
      <3> QED BY <3>1, <3>2
    <2>2. ASSUME NEW q \in Programs
          PROVE  Once(saving'[q].entries) /\ \A i \in EntriesOf(q)' : owner'[i] # 0
      <3>1. CASE q = p
        BY <1>2, <1>5, <2>0, <3>1 DEF EntriesOf
      <3>2. CASE q # p
        <4>1. saving'[q] = saving[q] /\ EntriesOf(q)' = EntriesOf(q)
          BY <1>3, <3>2 DEF EntriesOf
        <4> QED BY <1>1, <4>1 DEF StoreInv, IndexOfOwned
      <3> QED BY <3>1, <3>2
    <2> QED BY <2>1, <2>2 DEF IndexOfOwned, Once
  <1>10. ShowsItsOwn'
    BY <1>1 DEF StoreInv, ShowsItsOwn, chatVars
  <1>11. SavesItsOwn'
    <2> SUFFICES ASSUME NEW q \in Programs, ~InSave(q, "no")'
                 PROVE  /\ q \in ready' /\ saving'[q].id \in Ids /\ thread'[q] # 0
                        /\ owner'[saving'[q].id] = thread'[q]
      BY DEF SavesItsOwn
    <2>1. ~InSave(q, "no") /\ saving'[q].id = saving[q].id
      BY <1>1, <1>3, <1>5 DEF InSave
    <2> QED BY <1>1, <2>1 DEF StoreInv, SavesItsOwn, chatVars
  <1>12. PrunesMore'
    BY <1>2, <1>3, <1>5 DEF StoreInv, PrunesMore, InSave
  <1>13. FilesOfOwner'
    <2> SUFFICES ASSUME NEW v \in Scopes, NEW i \in Ids, saved'[v][i] > 0
                 PROVE  saved'[v][i] = owner'[i]
      BY DEF FilesOfOwner
    <2>1. CASE v = w
      BY <1>1, <2>1
    <2>2. CASE v # w
      <3>1. saved'[v] = saved[v]
        BY <1>1, <2>2
      <3> QED BY <1>1, <3>1 DEF StoreInv, FilesOfOwner
    <2> QED BY <2>1, <2>2
  <1>14. ASSUME NEW v \in Scopes PROVE IndexAgrees(v)'
    <2>0. IndexAgrees(v)
      BY DEF StoreInv
    <2>1. CASE v # w
      <3>1. p \notin Savers(v) /\ p \notin Savers(v)'
        BY <1>1, <1>5, <2>1 DEF Savers, SaveScope
      <3>2. index'[v] = index[v] /\ saved'[v] = saved[v] /\ damaged \subseteq damaged'
        BY <1>1, <2>1
      <3> QED BY <1>3, <2>0, <3>1, <3>2, AgreesElsewhere
    <2>2. CASE v = w /\ Sound(v)'
      <3>1. Sound(v)
        BY <1>1, <2>2 DEF Sound
      <3>2. p \in Savers(v) /\ p \in Savers(v)'
        BY <1>1, <1>2, <1>5, <2>2 DEF Savers, SaveScope, InSave
      <3>3. SaveAgrees(v, p) /\ Savers(v)' \subseteq {p}
        BY <1>3, <2>0, <3>1, <3>2, OnlySaver
      <3>4. SaveAgrees(v, p)'
        BY <2>2, <3>3
      <3> QED BY <3>2, <3>3, <3>4, AgreesHere
    <2>3. CASE ~Sound(v)'
      BY <2>3 DEF IndexAgrees
    <2> QED BY <2>1, <2>2, <2>3
  <1> QED BY <1>6, <1>7, <1>8, <1>9, <1>10, <1>11, <1>12, <1>13, <1>14 DEF StoreInv

(* The end of a save, orderly or not.                                          *)
LEMMA SaveEndKeeps ==
    ASSUME StoreInv, NEW p \in Programs, saving' = [saving EXCEPT ![p] = NotSaving],
           UNCHANGED <<saved, index, threads, owner>>, ChatTypes', ShowsItsOwn',
           damaged \subseteq damaged', damaged' \subseteq Scopes \X (Ids \cup {AllFiles}),
           \A q \in Programs : q # p => thread'[q] = thread[q] /\ (q \in ready => q \in ready'),
           \A w \in Scopes : p \in Savers(w) /\ Sound(w)' /\ SaveAgrees(w, p) => FilesAre(w, Listed(w))'
    PROVE  StoreInv'
  <1>0. SaveTypes /\ ChatTypes
    BY DEF StoreInv
  <1>1. saving'[p] = NotSaving /\ \A q \in Programs : q # p => saving'[q] = saving[q]
    BY <1>0 DEF SaveTypes
  <1>2. NotSaving \in SaveRecords /\ NotSaving.step = "no" /\ NotSaving.entries = <<>>
    BY EmptySeq, StoreNumbers DEF NotSaving, SaveRecords, Steps, Scopes
  <1>3. InSave(p, "no")' /\ \A x : InSave(p, x)' => x = "no"
    BY <1>1, <1>2 DEF InSave
  <1>4. SaveTypes'
    BY <1>0, <1>2 DEF SaveTypes
  <1>5. IdsInOrder' /\ FilesOfOwner'
    BY DEF StoreInv, IdsInOrder, FilesOfOwner
  <1>6. IndexOfOwned'
    <2>1. ASSUME NEW w \in Scopes PROVE Once(Entries(w))' /\ \A i \in Listed(w)' : owner'[i] # 0
      BY DEF StoreInv, IndexOfOwned, Listed, Entries, Once
    <2>2. ASSUME NEW q \in Programs
          PROVE  Once(saving'[q].entries) /\ \A i \in EntriesOf(q)' : owner'[i] # 0
      <3>1. CASE q = p
        <4>1. saving'[q].entries = <<>> /\ DOMAIN <<>> = {}
          BY <1>1, <1>2, <3>1
        <4> QED BY <4>1 DEF EntriesOf, ToSet, Once
      <3>2. CASE q # p
        BY <1>1, <3>2 DEF StoreInv, IndexOfOwned, EntriesOf, Once
      <3> QED BY <3>1, <3>2
    <2> QED BY <2>1, <2>2 DEF IndexOfOwned, Once
  <1>7. SavesItsOwn'
    <2> SUFFICES ASSUME NEW q \in Programs, ~InSave(q, "no")'
                 PROVE  /\ q \in ready' /\ saving'[q].id \in Ids /\ thread'[q] # 0
                        /\ owner'[saving'[q].id] = thread'[q]
      BY DEF SavesItsOwn
    <2>1. q # p /\ saving'[q] = saving[q] /\ ~InSave(q, "no")
      BY <1>1, <1>3 DEF InSave
    <2> QED BY <2>1 DEF StoreInv, SavesItsOwn
  <1>8. PrunesMore'
    BY <1>1, <1>3 DEF StoreInv, PrunesMore, InSave
  <1>9. ASSUME NEW w \in Scopes PROVE IndexAgrees(w)'
    <2>0. IndexAgrees(w) /\ p \notin Savers(w)'
      BY <1>3 DEF StoreInv, Savers
    <2>1. CASE p \notin Savers(w)
      BY <1>1, <2>0, <2>1, AgreesElsewhere
    <2>2. CASE p \in Savers(w) /\ Sound(w)'
      <3>1. Sound(w)
        BY <2>2 DEF Sound
      <3>2. SaveAgrees(w, p) /\ Savers(w)' \subseteq {p}
        BY <1>1, <2>0, <2>2, <3>1, OnlySaver
      <3>3. FilesAre(w, Listed(w))'
        BY <2>2, <3>1, <3>2
      <3> QED BY <2>0, <3>2, <3>3, AgreesHere
    <2>3. CASE ~Sound(w)'
      BY <2>3 DEF IndexAgrees
    <2> QED BY <2>1, <2>2, <2>3
  <1> QED BY <1>4, <1>5, <1>6, <1>7, <1>8, <1>9 DEF StoreInv

(* A step of the interface that leaves the store as it is.                     *)
LEMMA ChatKeeps ==
    ASSUME StoreInv, UNCHANGED <<saved, index, saving, historyVars>>, ChatTypes', ShowsItsOwn',
           \A q \in Programs : ~InSave(q, "no") => thread'[q] = thread[q] /\ q \in ready'
    PROVE  StoreInv'
  <1>1. SaveTypes' /\ IdsInOrder' /\ PrunesMore' /\ FilesOfOwner'
    BY DEF StoreInv, SaveTypes, IdsInOrder, PrunesMore, FilesOfOwner, InSave, historyVars
  <1>2. IndexOfOwned'
    BY DEF StoreInv, IndexOfOwned, Listed, Entries, EntriesOf, Once, historyVars
  <1>3. SavesItsOwn'
    BY DEF StoreInv, SavesItsOwn, InSave, historyVars
  <1>4. ASSUME NEW w \in Scopes PROVE IndexAgrees(w)'
    <2>1. /\ Savers(w)' = Savers(w) /\ Sound(w)' = Sound(w) /\ Listed(w)' = Listed(w)
          /\ saving' = saving /\ saved' = saved /\ damaged' = damaged
      BY DEF Savers, Sound, Listed, Entries, InSave, SaveScope, historyVars
    <2>2. \A S : FilesAre(w, S)' <=> FilesAre(w, S)
      BY <2>1 DEF FilesAre
    <2>3. \A p \in Savers(w) : SaveAgrees(w, p) => SaveAgrees(w, p)'
      BY <2>1 DEF SaveAgrees, FilesAre, EntriesOf, InSave
    <2>4. FilesAre(w, Listed(w)) => FilesAre(w, Listed(w))'
      BY <2>1 DEF FilesAre
    <2> QED BY <2>1, <2>3, <2>4 DEF StoreInv, IndexAgrees
  <1> QED BY <1>1, <1>2, <1>3, <1>4 DEF StoreInv

(* The steps of a save.                                                        *)
Others == <<session, chatVars, threads, owner, active, kind, ready>>

LEMMA WriteKeeps ==
    ASSUME StoreInv, NEW p \in Programs, WriteConversation(p), UNCHANGED <<active, kind, ready>>
    PROVE  StoreInv'
  <1>0. SaveTypes /\ ChatTypes /\ saving[p] \in SaveRecords /\ saving[p].entries \in Seq(Ids)
    BY EntriesOfType DEF StoreInv
  <1>1. PICK w \in Scopes : SaveScope(p) = w
    BY <1>0 DEF SaveRecords, SaveScope
  <1>2. PICK e \in Seq(Ids) : saving[p].entries = e
    BY <1>0
  <1>3. PICK i \in Ids, t \in 1..MaxThreads : saving[p].id = i /\ thread[p] = t /\ owner[i] = t
    <2>1. saving[p].id \in Ids /\ thread[p] # 0 /\ owner[saving[p].id] = thread[p]
      BY DEF WriteConversation, InSave, StoreInv, SavesItsOwn
    <2>2. thread[p] \in 1..MaxThreads
      BY <1>0, <2>1, ConversationsAssumption DEF ChatTypes
    <2> QED BY <2>1, <2>2
  <1>4. PICK x \in {"prune", "index"} :
           x = (IF Len(e) > MAX_CONVERSATIONS THEN "prune" ELSE "index")
    OBVIOUS
  <1>5. /\ saving[p].step = "write" /\ UNCHANGED <<index, session, chatVars, historyVars>>
        /\ saving' = [saving EXCEPT ![p] = [@ EXCEPT !.step = x]]
        /\ saved' = [saved EXCEPT ![w] = [@ EXCEPT ![i] = t]]
    BY <1>1, <1>2, <1>3, <1>4 DEF WriteConversation, InSave, SaveMoves
  <1>6. saving'[p] = [saving[p] EXCEPT !.step = x]
    BY <1>0, <1>5 DEF SaveTypes
  <1>7. [saving[p] EXCEPT !.step = x] = [saving[p] EXCEPT !.step = x, !.entries = e]
    BY <1>0, <1>2 DEF SaveRecords
  <1>8. /\ saved' \in [Scopes -> [Ids -> -1..MaxThreads]]
        /\ \A v \in Scopes : v # w => saved'[v] = saved[v]
        /\ saved'[w][i] = t /\ \A j \in Ids : j # i => saved'[w][j] = saved[w][j]
    <2>1. t \in -1..MaxThreads
      BY ConversationsAssumption
    <2> QED BY <1>0, <1>5, <2>1 DEF SaveTypes
  <1>9. t > 0
    BY ConversationsAssumption
  <1>10. Advances(p, w)
    <2>1. ~InSave(p, "no") /\ UNCHANGED Others
      BY <1>5 DEF InSave, Others, historyVars
    <2>2. /\ x \in Steps \ {"no"} /\ ToSet(e) \subseteq EntriesOf(p)
          /\ saving' = [saving EXCEPT ![p] = [@ EXCEPT !.step = x, !.entries = e]]
      BY <1>2, <1>5, <1>7 DEF Steps, EntriesOf
    <2>3. Once(e) /\ (x = "prune" => Len(e) > MAX_CONVERSATIONS)
      BY <1>2, <1>4 DEF StoreInv, IndexOfOwned
    <2>4. index' \in [Scopes -> Seq(Ids) \cup {Cut}] /\ \A v \in Scopes : index'[v] = index[v]
      BY <1>0, <1>5 DEF SaveTypes
    <2>5. Once(Entries(w))' /\ Listed(w)' = Listed(w)
      BY <1>5 DEF StoreInv, IndexOfOwned, Listed, Entries, Once
    <2>6. \A j \in Ids : saved'[w][j] > 0 => saved'[w][j] = owner[j]
      BY <1>3, <1>8 DEF StoreInv, FilesOfOwner
    <2>7. damaged' = damaged /\ damaged' \subseteq Scopes \X (Ids \cup {AllFiles})
      BY <1>0, <1>5 DEF SaveTypes, historyVars
    <2> QED BY <1>1, <1>8, <2>1, <2>2, <2>3, <2>4, <2>5, <2>6, <2>7 DEF Advances, Others
  <1>11. ASSUME SaveAgrees(w, p) PROVE SaveAgrees(w, p)'
    <2>1. /\ saving'[p].step = x /\ saving'[p].id = i /\ saving'[p].entries = e
          /\ Listed(w)' = Listed(w) /\ EntriesOf(p)' = EntriesOf(p) /\ damaged' = damaged
      BY <1>0, <1>2, <1>3, <1>5, <1>6 DEF SaveRecords, Listed, Entries, EntriesOf, historyVars
    <2>2. /\ EntriesOf(p) = Listed(w) \cup {i}
          /\ \A j \in Ids : j # i /\ <<w, j>> \notin damaged => (j \in Listed(w) <=> saved[w][j] > 0)
      BY <1>3, <1>5, <1>11 DEF SaveAgrees, InSave
    <2>3. CASE x = "prune"
      BY <1>8, <1>9, <2>1, <2>2, <2>3 DEF SaveAgrees, InSave
    <2>4. CASE x = "index"
      <3>1. FilesAre(w, EntriesOf(p))'
        BY <1>8, <1>9, <2>1, <2>2 DEF FilesAre
      <3> QED BY <2>1, <2>2, <2>4, <3>1 DEF SaveAgrees, InSave
    <2> QED BY <2>3, <2>4
  <1> QED BY <1>10, <1>11, SaveStepKeeps

LEMMA PruneKeeps ==
    ASSUME StoreInv, NEW p \in Programs, Prune(p) \/ PruneFails(p), UNCHANGED <<active, kind, ready>>
    PROVE  StoreInv'
  <1>0. SaveTypes /\ ChatTypes /\ saving[p] \in SaveRecords /\ saving[p].entries \in Seq(Ids)
    BY EntriesOfType DEF StoreInv
  <1>1. PICK w \in Scopes : SaveScope(p) = w
    BY <1>0 DEF SaveRecords, SaveScope
  <1>2. PICK s \in Seq(Ids) : saving[p].entries = s
    BY <1>0
  <1>3. PICK i \in Ids : saving[p].id = i
    BY DEF Prune, PruneFails, InSave, StoreInv, SavesItsOwn
  <1>4. Len(s) > MAX_CONVERSATIONS /\ Once(s) /\ saving[p].step = "prune"
    BY <1>2 DEF Prune, PruneFails, InSave, StoreInv, PrunesMore, IndexOfOwned
  <1>5. PICK e \in Seq(Ids) :
           /\ e = SubSeq(s, 1, MAX_CONVERSATIONS) /\ Once(e)
           /\ ToSet(e) = ToSet(s) \ Pruned(p) /\ Pruned(p) \subseteq ToSet(s)
    <2>1. MAX_CONVERSATIONS \in Nat /\ Len(s) \in Nat
      BY ConversationsAssumption, LenProperties
    <2>2. MAX_CONVERSATIONS < Len(s)
      BY <1>4, <2>1
    <2> QED BY <1>2, <1>4, <2>1, <2>2, KeptEntries DEF Pruned
  <1>6. /\ saving' = [saving EXCEPT ![p] = [@ EXCEPT !.step = "index", !.entries = e]]
        /\ UNCHANGED <<index, session, chatVars, threads, owner>>
    <2>1. saving' = [saving EXCEPT ![p].step = "index",
                       ![p].entries = SubSeq(@, 1, MAX_CONVERSATIONS)]
      BY DEF Prune, PruneFails
    <2>2. UNCHANGED <<index, session, chatVars, threads, owner>>
      BY DEF Prune, PruneFails, filesVars, historyVars
    <2> QED BY <1>0, <1>2, <1>5, <2>1, <2>2 DEF SaveTypes, SaveRecords
  <1>7. saving'[p] = [saving[p] EXCEPT !.step = "index", !.entries = e]
    BY <1>0, <1>6 DEF SaveTypes
  <1>8. Pruned(p) \subseteq Ids
    BY <1>2, <1>5, EntriesOfType, <1>0 DEF EntriesOf
  <1>9. /\ saved' \in [Scopes -> [Ids -> -1..MaxThreads]]
        /\ damaged \subseteq damaged' /\ damaged' \subseteq Scopes \X (Ids \cup {AllFiles})
        /\ \A v \in Scopes : v # w => saved'[v] = saved[v]
        /\ \A j \in Ids : saved'[w][j] = saved[w][j] \/ saved'[w][j] = Missing
        /\ \A j \in Ids : j \notin Pruned(p) => saved'[w][j] = saved[w][j]
        /\ \A j \in Pruned(p) : saved'[w][j] = Missing \/ <<w, j>> \in damaged'
    <2>1. CASE Prune(p)
      <3>1. /\ saved' = [saved EXCEPT ![w] = [j \in Ids |-> IF j \in Pruned(p) THEN Missing ELSE @[j]]]
            /\ damaged' = damaged
        BY <1>1, <2>1 DEF Prune, historyVars
      <3>2. saved'[w] = [j \in Ids |-> IF j \in Pruned(p) THEN Missing ELSE saved[w][j]]
        BY <1>0, <3>1 DEF SaveTypes
      <3>3. saved'[w] \in [Ids -> -1..MaxThreads]
        BY <1>0, <3>2, StoreNumbers DEF SaveTypes
      <3>4. /\ saved' \in [Scopes -> [Ids -> -1..MaxThreads]]
            /\ \A v \in Scopes : v # w => saved'[v] = saved[v]
        BY <1>0, <3>1, <3>3 DEF SaveTypes
      <3> QED BY <1>0, <1>8, <3>1, <3>2, <3>4 DEF SaveTypes
    <2>2. CASE PruneFails(p)
      <3>1. saved' = saved /\ damaged' = damaged \cup ({w} \X Pruned(p))
        BY <1>1, <2>2 DEF PruneFails, filesVars
      <3>2. {w} \X Pruned(p) \subseteq Scopes \X (Ids \cup {AllFiles})
        BY <1>8
      <3> QED BY <1>0, <3>1, <3>2 DEF SaveTypes
    <2> QED BY <2>1, <2>2
  <1>10. Advances(p, w)
    <2>1. ~InSave(p, "no") /\ UNCHANGED Others
      BY <1>4, <1>6 DEF InSave, Others
    <2>2. "index" \in Steps \ {"no"} /\ ToSet(e) \subseteq EntriesOf(p) /\ "index" # "prune"
      BY <1>2, <1>5 DEF Steps, EntriesOf
    <2>4. index' \in [Scopes -> Seq(Ids) \cup {Cut}] /\ \A v \in Scopes : index'[v] = index[v]
      BY <1>0, <1>6 DEF SaveTypes
    <2>5. Once(Entries(w))' /\ Listed(w)' = Listed(w)
      BY <1>6 DEF StoreInv, IndexOfOwned, Listed, Entries, Once
    <2>6. \A j \in Ids : saved'[w][j] > 0 => saved'[w][j] = owner[j]
      BY <1>9, StoreNumbers DEF StoreInv, FilesOfOwner
    <2> QED BY <1>1, <1>5, <1>6, <1>9, <2>1, <2>2, <2>4, <2>5, <2>6 DEF Advances, Others
  <1>11. ASSUME SaveAgrees(w, p) PROVE SaveAgrees(w, p)'
    <2>1. /\ saving'[p].step = "index" /\ saving'[p].id = i /\ saving'[p].entries = e
          /\ Listed(w)' = Listed(w) /\ EntriesOf(p)' = EntriesOf(p) \ Pruned(p)
      BY <1>0, <1>2, <1>3, <1>5, <1>6, <1>7 DEF SaveRecords, Listed, Entries, EntriesOf
    <2>2. /\ EntriesOf(p) = Listed(w) \cup {i} /\ saved[w][i] > 0
          /\ \A j \in Ids : j # i /\ <<w, j>> \notin damaged => (j \in Listed(w) <=> saved[w][j] > 0)
      BY <1>3, <1>4, <1>11 DEF SaveAgrees, InSave
    <2>3. FilesAre(w, EntriesOf(p))'
      <3> SUFFICES ASSUME NEW j \in Ids, <<w, j>> \notin damaged'
                   PROVE  j \in EntriesOf(p) \ Pruned(p) <=> saved'[w][j] > 0
        BY <2>1 DEF FilesAre
      <3>1. j \in EntriesOf(p) <=> saved[w][j] > 0
        BY <1>9, <2>2
      <3>2. CASE j \in Pruned(p)
        BY <1>9, <3>2, StoreNumbers
      <3>3. CASE j \notin Pruned(p)
        BY <1>9, <3>1, <3>3
      <3> QED BY <3>2, <3>3
    <2> QED BY <2>1, <2>2, <2>3 DEF SaveAgrees, InSave
  <1> QED BY <1>10, <1>11, SaveStepKeeps

LEMMA OpenKeeps ==
    ASSUME StoreInv, NEW p \in Programs, OpenIndex(p), UNCHANGED <<active, kind, ready>>
    PROVE  StoreInv'
  <1>0. SaveTypes /\ ChatTypes /\ saving[p] \in SaveRecords /\ saving[p].entries \in Seq(Ids)
    BY EntriesOfType DEF StoreInv
  <1>1. PICK w \in Scopes : SaveScope(p) = w
    BY <1>0 DEF SaveRecords, SaveScope
  <1>2. PICK e \in Seq(Ids) : saving[p].entries = e
    BY <1>0
  <1>3. /\ saving[p].step = "index" /\ UNCHANGED <<saved, session, chatVars, historyVars>>
        /\ saving' = [saving EXCEPT ![p] = [@ EXCEPT !.step = "entries"]]
        /\ index' = [index EXCEPT ![w] = Cut]
    BY <1>1 DEF OpenIndex, InSave, SaveMoves
  <1>4. saving'[p] = [saving[p] EXCEPT !.step = "entries"]
    BY <1>0, <1>3 DEF SaveTypes
  <1>5. [saving[p] EXCEPT !.step = "entries"] = [saving[p] EXCEPT !.step = "entries", !.entries = e]
    BY <1>0, <1>2 DEF SaveRecords
  <1>6. /\ index' \in [Scopes -> Seq(Ids) \cup {Cut}] /\ index'[w] = Cut
        /\ \A v \in Scopes : v # w => index'[v] = index[v]
    BY <1>0, <1>3 DEF SaveTypes
  <1>7. Once(Entries(w))' /\ Listed(w)' = {}
    <2>1. Entries(w)' = <<>> /\ DOMAIN <<>> = {}
      BY <1>6 DEF Entries
    <2> QED BY <2>1 DEF Listed, ToSet, Once
  <1>8. Advances(p, w)
    <2>1. ~InSave(p, "no") /\ UNCHANGED Others
      BY <1>3 DEF InSave, Others, historyVars
    <2>2. /\ "entries" \in Steps \ {"no"} /\ ToSet(e) \subseteq EntriesOf(p) /\ "entries" # "prune"
          /\ saving' = [saving EXCEPT ![p] = [@ EXCEPT !.step = "entries", !.entries = e]]
      BY <1>2, <1>3, <1>5 DEF Steps, EntriesOf
    <2>3. Once(e)
      BY <1>2 DEF StoreInv, IndexOfOwned
    <2>6. \A j \in Ids : saved'[w][j] > 0 => saved'[w][j] = owner[j]
      BY <1>3 DEF StoreInv, FilesOfOwner
    <2>7. /\ damaged' = damaged /\ damaged' \subseteq Scopes \X (Ids \cup {AllFiles})
          /\ saved' = saved /\ saved' \in [Scopes -> [Ids -> -1..MaxThreads]]
      BY <1>0, <1>3 DEF SaveTypes, historyVars
    <2> QED BY <1>1, <1>6, <1>7, <2>1, <2>2, <2>3, <2>6, <2>7 DEF Advances, Others
  <1>9. ASSUME SaveAgrees(w, p) PROVE SaveAgrees(w, p)'
    <2>1. /\ saving'[p].step = "entries" /\ EntriesOf(p)' = EntriesOf(p)
          /\ saved' = saved /\ damaged' = damaged
      BY <1>0, <1>2, <1>3, <1>4 DEF SaveRecords, EntriesOf, historyVars
    <2>2. FilesAre(w, EntriesOf(p))
      BY <1>3, <1>9 DEF SaveAgrees, InSave
    <2>3. FilesAre(w, EntriesOf(p))'
      BY <2>1, <2>2 DEF FilesAre
    <2> QED BY <2>1, <2>3 DEF SaveAgrees, InSave
  <1> QED BY <1>8, <1>9, SaveStepKeeps

LEMMA WriteIndexKeeps ==
    ASSUME StoreInv, NEW p \in Programs, WriteIndex(p), UNCHANGED <<active, kind, ready>>
    PROVE  StoreInv'
  <1>0. SaveTypes /\ ChatTypes /\ saving[p] \in SaveRecords /\ saving[p].entries \in Seq(Ids)
    BY EntriesOfType DEF StoreInv
  <1>1. PICK w \in Scopes : SaveScope(p) = w
    BY <1>0 DEF SaveRecords, SaveScope
  <1>2. PICK e \in Seq(Ids) : saving[p].entries = e
    BY <1>0
  <1>3. /\ saving[p].step = "entries" /\ UNCHANGED <<saved, session, chatVars, historyVars>>
        /\ saving' = [saving EXCEPT ![p] = [@ EXCEPT !.step = "return"]]
        /\ index' = [index EXCEPT ![w] = e]
    BY <1>1, <1>2 DEF WriteIndex, InSave, SaveMoves
  <1>4. saving'[p] = [saving[p] EXCEPT !.step = "return"]
    BY <1>0, <1>3 DEF SaveTypes
  <1>5. [saving[p] EXCEPT !.step = "return"] = [saving[p] EXCEPT !.step = "return", !.entries = e]
    BY <1>0, <1>2 DEF SaveRecords
  <1>6. /\ index' \in [Scopes -> Seq(Ids) \cup {Cut}] /\ index'[w] = e
        /\ \A v \in Scopes : v # w => index'[v] = index[v]
    BY <1>0, <1>3 DEF SaveTypes
  <1>7. Once(e)
    BY <1>2 DEF StoreInv, IndexOfOwned
  <1>8. Entries(w)' = e /\ Listed(w)' = EntriesOf(p)
    <2>1. e # Cut
      BY CutIsNoIndex
    <2>2. Entries(w)' = e
      BY <1>6, <2>1 DEF Entries
    <2> QED BY <1>2, <2>2 DEF Listed, EntriesOf
  <1>9. Advances(p, w)
    <2>1. ~InSave(p, "no") /\ UNCHANGED Others
      BY <1>3 DEF InSave, Others, historyVars
    <2>2. /\ "return" \in Steps \ {"no"} /\ ToSet(e) \subseteq EntriesOf(p) /\ "return" # "prune"
          /\ saving' = [saving EXCEPT ![p] = [@ EXCEPT !.step = "return", !.entries = e]]
      BY <1>2, <1>3, <1>5 DEF Steps, EntriesOf
    <2>5. Once(Entries(w))'
      BY <1>7, <1>8 DEF Once
    <2>6. \A j \in Ids : saved'[w][j] > 0 => saved'[w][j] = owner[j]
      BY <1>3 DEF StoreInv, FilesOfOwner
    <2>7. /\ damaged' = damaged /\ damaged' \subseteq Scopes \X (Ids \cup {AllFiles})
          /\ saved' = saved /\ saved' \in [Scopes -> [Ids -> -1..MaxThreads]]
      BY <1>0, <1>3 DEF SaveTypes, historyVars
    <2> QED BY <1>1, <1>6, <1>7, <1>8, <2>1, <2>2, <2>5, <2>6, <2>7 DEF Advances, Others
  <1>10. ASSUME SaveAgrees(w, p) PROVE SaveAgrees(w, p)'
    <2>1. saving'[p].step = "return" /\ saved' = saved /\ damaged' = damaged
      BY <1>0, <1>3, <1>4 DEF SaveRecords, historyVars
    <2>2. FilesAre(w, EntriesOf(p))
      BY <1>3, <1>10 DEF SaveAgrees, InSave
    <2>3. FilesAre(w, Listed(w))'
      BY <1>8, <2>1, <2>2 DEF FilesAre
    <2> QED BY <2>1, <2>3 DEF SaveAgrees, InSave
  <1> QED BY <1>9, <1>10, SaveStepKeeps

(* A save that ends where it is leaves a scope sound, or spoils what it says.  *)
LEMMA SpoilsAre ==
    ASSUME StoreInv, NEW p \in Programs, Spoil(p)
    PROVE  damaged \subseteq damaged' /\ damaged' \subseteq Scopes \X (Ids \cup {AllFiles})
  <1>0. SaveTypes /\ ChatTypes /\ saving[p] \in SaveRecords
    BY EntriesOfType DEF StoreInv
  <1>1. SaveScope(p) \in Scopes /\ Listed(SaveScope(p)) \subseteq Ids
    BY <1>0, EntriesType DEF SaveRecords, SaveScope
  <1>2. Spoils(p) \subseteq Ids \cup {AllFiles}
    <2>1. ~InSave(p, "no") => saving[p].id \in Ids
      BY DEF StoreInv, SavesItsOwn
    <2> QED BY <1>1, <2>1 DEF Spoils, InSave
  <1>3. {SaveScope(p)} \X Spoils(p) \subseteq Scopes \X (Ids \cup {AllFiles})
    BY <1>1, <1>2
  <1> QED BY <1>0, <1>3 DEF Spoil, SaveTypes

LEMMA SpoiltAgrees ==
    ASSUME StoreInv, NEW p \in Programs, NEW w \in Scopes, SaveScope(p) = w, ~InSave(p, "no"),
           Spoil(p), UNCHANGED <<saved, index>>, Sound(w)', SaveAgrees(w, p)
    PROVE  FilesAre(w, Listed(w))'
  <1>1. PICK i \in Ids : saving[p].id = i
    BY DEF StoreInv, SavesItsOwn
  <1>2. Listed(w)' = Listed(w) /\ damaged' = damaged \cup ({w} \X Spoils(p))
    BY DEF Listed, Entries, Spoil
  <1>3. saving[p].step \in Steps
    BY EntriesOfType DEF StoreInv, SaveRecords
  <1>4. CASE InSave(p, "write") \/ InSave(p, "prune")
    <2>0. Spoils(p) = {i}
      BY <1>1, <1>4 DEF Spoils, InSave
    <2>1. <<w, i>> \in damaged'
      BY <1>2, <2>0
    <2>2. \A j \in Ids : j # i /\ <<w, j>> \notin damaged => (j \in Listed(w) <=> saved[w][j] > 0)
      BY <1>1, <1>4 DEF SaveAgrees
    <2> QED BY <1>2, <2>1, <2>2 DEF FilesAre
  <1>5. CASE InSave(p, "index")
    <2>1. Spoils(p) = {i} \cup (Listed(w) \ EntriesOf(p))
      BY <1>1, <1>5 DEF Spoils, InSave, EntriesOf
    <2>2. EntriesOf(p) \subseteq Listed(w) \cup {i} /\ FilesAre(w, EntriesOf(p))
      BY <1>1, <1>5 DEF SaveAgrees
    <2> QED BY <1>2, <2>1, <2>2 DEF FilesAre
  <1>6. CASE InSave(p, "entries")
    <2>1. Spoils(p) = {AllFiles}
      BY <1>6 DEF Spoils, InSave
    <2>2. <<w, AllFiles>> \in damaged'
      BY <1>2, <2>1
    <2> QED BY <2>2 DEF Sound
  <1>7. CASE InSave(p, "return") \/ InSave(p, "failed")
    <2>1. Spoils(p) = {} /\ FilesAre(w, Listed(w))
      BY <1>7 DEF Spoils, InSave, SaveAgrees
    <2> QED BY <1>2, <2>1 DEF FilesAre
  <1> QED BY <1>3, <1>4, <1>5, <1>6, <1>7 DEF Steps, InSave

LEMMA FailKeeps ==
    ASSUME StoreInv, NEW p \in Programs, SaveFails(p), UNCHANGED <<active, kind, ready>>
    PROVE  StoreInv'
  <1>0. SaveTypes /\ ChatTypes /\ saving[p] \in SaveRecords /\ saving[p].entries \in Seq(Ids)
    BY EntriesOfType DEF StoreInv
  <1>1. PICK w \in Scopes : SaveScope(p) = w
    BY <1>0 DEF SaveRecords, SaveScope
  <1>2. PICK e \in Seq(Ids) : saving[p].entries = e
    BY <1>0
  <1>3. PICK x \in {"failed", "return"} : saving' = [saving EXCEPT ![p] = [@ EXCEPT !.step = x]]
    BY DEF SaveFails, SaveMoves
  <1>4. ~InSave(p, "no") /\ Spoil(p) /\ UNCHANGED <<saved, index, session, chatVars, threads, owner>>
    BY DEF SaveFails, InSave, filesVars
  <1>5. saving'[p] = [saving[p] EXCEPT !.step = x]
    BY <1>0, <1>3 DEF SaveTypes
  <1>6. [saving[p] EXCEPT !.step = x] = [saving[p] EXCEPT !.step = x, !.entries = e]
    BY <1>0, <1>2 DEF SaveRecords
  <1>7. Advances(p, w)
    <2>1. UNCHANGED Others
      BY <1>4 DEF Others
    <2>2. /\ x \in Steps \ {"no"} /\ ToSet(e) \subseteq EntriesOf(p) /\ x # "prune"
          /\ saving' = [saving EXCEPT ![p] = [@ EXCEPT !.step = x, !.entries = e]]
      BY <1>2, <1>3, <1>6 DEF Steps, EntriesOf
    <2>3. Once(e) /\ Once(Entries(w))' /\ Listed(w)' = Listed(w)
      BY <1>2, <1>4 DEF StoreInv, IndexOfOwned, Listed, Entries, Once
    <2>6. \A j \in Ids : saved'[w][j] > 0 => saved'[w][j] = owner[j]
      BY <1>4 DEF StoreInv, FilesOfOwner
    <2>7. /\ damaged \subseteq damaged' /\ damaged' \subseteq Scopes \X (Ids \cup {AllFiles})
          /\ saved' = saved /\ saved' \in [Scopes -> [Ids -> -1..MaxThreads]]
          /\ index' = index /\ index' \in [Scopes -> Seq(Ids) \cup {Cut}]
      BY <1>0, <1>4, SpoilsAre DEF SaveTypes
    <2> QED BY <1>1, <1>4, <2>1, <2>2, <2>3, <2>6, <2>7 DEF Advances, Others
  <1>8. ASSUME Sound(w)', SaveAgrees(w, p) PROVE SaveAgrees(w, p)'
    <2>1. saving'[p].step = x
      BY <1>0, <1>5 DEF SaveRecords
    <2>2. FilesAre(w, Listed(w))'
      BY <1>1, <1>4, <1>8, SpoiltAgrees
    <2> QED BY <2>1, <2>2 DEF SaveAgrees, InSave
  <1> QED BY <1>7, <1>8, SaveStepKeeps

-------------------------------------------------------------------------------
(* Steps of a program as a whole.                                              *)

LEMMA LeaveKeeps ==
    ASSUME StoreInv, NEW p \in Programs, Leave(p), UNCHANGED <<owner, active, kind, ready>>
    PROVE  ChatTypes' /\ ShowsItsOwn' /\ \A q \in Programs : q # p => thread'[q] = thread[q]
  <1>0. /\ active \in Scopes /\ session \in [Scopes -> 0..MaxSaved]
        /\ thread \in [Programs -> 0..MaxThreads] /\ convId \in [Programs -> 0..MaxSaved]
        /\ spoken \subseteq Runs /\ ready \subseteq Runs
        /\ kind \in [Programs -> {"off", "tui", "cli"}]
    BY DEF StoreInv, ChatTypes
  <1>1. /\ thread' = [thread EXCEPT ![p] = 0] /\ spoken' = spoken \ {p}
        /\ session' = [session EXCEPT ![active] = 0] /\ convId' = [convId EXCEPT ![p] = 0]
    BY DEF Leave
  <1>2. /\ session' \in [Scopes -> 0..MaxSaved] /\ thread' \in [Programs -> 0..MaxThreads]
        /\ convId' \in [Programs -> 0..MaxSaved]
    BY <1>0, <1>1, StoreNumbers
  <1>3. ChatTypes'
    BY <1>0, <1>1, <1>2 DEF ChatTypes, Runs
  <1>4. /\ convId'[p] = 0 /\ p \notin spoken'
        /\ \A q \in Programs : q # p => thread'[q] = thread[q] /\ convId'[q] = convId[q]
    BY <1>0, <1>1
  <1>5. ShowsItsOwn'
    <2>1. ASSUME NEW q \in spoken' PROVE thread'[q] # 0
      BY <1>0, <1>1, <1>4 DEF StoreInv, ShowsItsOwn, Runs
    <2>2. ASSUME NEW q \in Programs, convId'[q] # 0
          PROVE  thread'[q] # 0 /\ owner'[convId'[q]] = thread'[q]
      <3>1. q # p
        BY <1>4, <2>2
      <3> QED BY <1>4, <2>2, <3>1 DEF StoreInv, ShowsItsOwn
    <2> QED BY <2>1, <2>2 DEF ShowsItsOwn
  <1> QED BY <1>3, <1>4, <1>5

LEMMA RestoreKeeps ==
    ASSUME StoreInv, NEW p \in Programs, NEW id \in 0..MaxSaved, Restore(p, id) \/ UNCHANGED chatVars,
           kind[p] = "tui", InSave(p, "no"),
           UNCHANGED <<filesVars, saving, historyVars, active, kind>>,
           ready' \in {ready, ready \cup {p}}
    PROVE  StoreInv'
  <1>0. SaveTypes /\ ChatTypes
    BY DEF StoreInv
  <1>1. p \in Runs
    BY DEF Runs
  <1>2. UNCHANGED <<saved, index, session, saving, threads, owner, damaged>>
    BY DEF filesVars, historyVars
  <1>3. CASE UNCHANGED chatVars
    <2>1. ChatTypes' /\ ShowsItsOwn'
      BY <1>0, <1>1, <1>2, <1>3 DEF ChatTypes, Runs, StoreInv, ShowsItsOwn, chatVars
    <2> QED BY <1>2, <1>3, <2>1, ChatKeeps DEF StoreInv, SavesItsOwn, chatVars, historyVars
  <1>4. CASE ~UNCHANGED chatVars
    <2>1. PICK i \in Ids, t \in 0..MaxThreads :
             /\ i = id /\ t = saved[active][i] /\ t # 0 /\ owner[i] = t
             /\ thread' = [thread EXCEPT ![p] = t]
             /\ spoken' = spoken \cup {p}
             /\ convId' = [convId EXCEPT ![p] = i]
      <3>1. /\ id # 0 /\ saved[active][id] > 0
            /\ thread' = [thread EXCEPT ![p] = saved[active][id]]
            /\ spoken' = spoken \cup {p}
            /\ convId' = [convId EXCEPT ![p] = id]
        BY <1>4 DEF Restore
      <3>2. id \in Ids /\ active \in Scopes
        BY <1>0, <3>1, StoreNumbers DEF ChatTypes
      <3>3. saved[active][id] = owner[id] /\ owner[id] \in 0..MaxThreads
        BY <1>0, <3>1, <3>2 DEF StoreInv, FilesOfOwner, SaveTypes
      <3>4. saved[active][id] # 0
        BY Zenon, <3>1, StoreNumbers
      <3> QED BY <3>1, <3>2, <3>3, <3>4
    <2>2. /\ thread' \in [Programs -> 0..MaxThreads] /\ thread'[p] = t
          /\ convId' \in [Programs -> 0..MaxSaved] /\ convId'[p] = i
          /\ \A q \in Programs : q # p => thread'[q] = thread[q] /\ convId'[q] = convId[q]
      BY <1>0, <2>1, StoreNumbers DEF ChatTypes
    <2>3. ChatTypes'
      BY <1>0, <1>1, <1>2, <2>1, <2>2 DEF ChatTypes, Runs
    <2>4. ShowsItsOwn'
      <3>1. ASSUME NEW q \in spoken' PROVE thread'[q] # 0
        <4>1. q \in Programs
          BY <2>3 DEF ChatTypes, Runs
        <4> QED BY <2>1, <2>2, <4>1 DEF StoreInv, ShowsItsOwn
      <3>2. ASSUME NEW q \in Programs, convId'[q] # 0
            PROVE  thread'[q] # 0 /\ owner'[convId'[q]] = thread'[q]
        <4>1. CASE q = p
          BY <1>2, <2>1, <2>2, <4>1
        <4>2. CASE q # p
          BY <1>2, <2>2, <3>2, <4>2 DEF StoreInv, ShowsItsOwn
        <4> QED BY <4>1, <4>2
      <3> QED BY <3>1, <3>2 DEF ShowsItsOwn
    <2>5. \A q \in Programs : ~InSave(q, "no") => thread'[q] = thread[q] /\ q \in ready'
      <3>1. ASSUME NEW q \in Programs, ~InSave(q, "no") PROVE q # p /\ q \in ready
        BY <3>1 DEF StoreInv, SavesItsOwn
      <3> QED BY <2>2, <3>1
    <2> QED BY <1>2, <2>3, <2>4, <2>5, ChatKeeps DEF historyVars
  <1> QED BY <1>3, <1>4

(* What a program begins to save: what it shows.                               *)
LEMMA ChatSaveKeeps ==
    ASSUME StoreInv, NEW p \in Programs, Idle(p), NEW t \in 1..MaxThreads,
           NEW then \in {"go on", "fork", "clear", "exit"}, NEW id \in 0..MaxSaved,
           id # 0 => owner[id] = t, convId[p] # 0 => owner[convId[p]] = t,
           BeginSave(p, t, id, then), thread' = [thread EXCEPT ![p] = t],
           spoken' \in {spoken, spoken \cup {p}}, threads' \in 0..MaxThreads,
           UNCHANGED <<index, session, convId, active, kind, ready>>
    PROVE  StoreInv'
  <1>1. PICK i \in Ids, e \in Seq(Ids) : Begun(p, t, then, i, e)
    BY BeginsSave
  <1>2. /\ thread' \in [Programs -> 0..MaxThreads] /\ thread'[p] = t
        /\ \A q \in Programs : q # p => thread'[q] = thread[q]
    BY StoreNumbers DEF StoreInv, ChatTypes
  <1>3. InSave(p, "no") /\ p \in ready /\ spoken' \subseteq spoken \cup {p}
    BY DEF Idle
  <1> QED BY ZenonT(60), <1>1, <1>2, <1>3, BegunKeeps

LEMMA ChatStepKeeps ==
    ASSUME StoreInv, NEW p \in Programs, Chat(p) PROVE StoreInv'
  <1>0. SaveTypes /\ ChatTypes
    BY DEF StoreInv
  <1>1. Idle(p) /\ kind[p] = "tui" /\ UNCHANGED <<active, kind, ready>> /\ InSave(p, "no")
    BY DEF Chat, Interface, Idle
  <1>2. convId[p] \in 0..MaxSaved /\ thread[p] \in 0..MaxThreads /\ 0 \in 0..MaxSaved
    BY <1>0, StoreNumbers DEF ChatTypes
  <1>3. /\ convId[p] # 0 => thread[p] # 0 /\ owner[convId[p]] = thread[p]
        /\ p \in spoken => thread[p] # 0
    BY DEF StoreInv, ShowsItsOwn
  <1>4. thread[p] # 0 => thread[p] \in 1..MaxThreads /\ thread = [thread EXCEPT ![p] = thread[p]]
    <2>1. \A t \in 0..MaxThreads : t # 0 => t \in 1..MaxThreads
      BY ConversationsAssumption
    <2> QED BY <1>0, <1>2, <2>1 DEF ChatTypes
  <1>5. CASE Turn(p)
    <2>1. PICK t : t = (IF thread[p] = 0 THEN threads + 1 ELSE thread[p])
      OBVIOUS
    <2>2. /\ t <= MaxThreads /\ thread' = [thread EXCEPT ![p] = t] /\ spoken' = spoken \cup {p}
          /\ threads' = (IF thread[p] = 0 THEN t ELSE threads)
          /\ BeginSave(p, t, convId[p], "go on") /\ UNCHANGED <<index, session, convId>>
      BY <1>5, <2>1 DEF Turn
    <2>3. t \in 1..MaxThreads /\ threads' \in 0..MaxThreads
      <3>1. threads \in 0..MaxThreads
        BY <1>0 DEF SaveTypes
      <3>2. \A n \in 0..MaxThreads :
               /\ n # 0 => n \in 1..MaxThreads
               /\ n + 1 <= MaxThreads => n + 1 \in 1..MaxThreads /\ n + 1 \in 0..MaxThreads
        BY ConversationsAssumption
      <3> QED BY <1>2, <2>1, <2>2, <3>1, <3>2
    <2>4. convId[p] # 0 => owner[convId[p]] = t
      BY <1>3, <2>1
    <2> QED BY <1>1, <1>2, <2>2, <2>3, <2>4, ChatSaveKeeps
  <1>6. CASE Rewind(p)
    <2>1. spoken' \subseteq spoken /\ UNCHANGED <<filesVars, thread, convId, saving, historyVars>>
      BY <1>6 DEF Rewind
    <2>2. UNCHANGED <<saved, index, session, threads, owner, damaged>>
      BY <2>1 DEF filesVars, historyVars
    <2>3. ChatTypes' /\ ShowsItsOwn'
      BY <1>0, <1>1, <2>1, <2>2 DEF ChatTypes, Runs, StoreInv, ShowsItsOwn
    <2>4. \A q \in Programs : ~InSave(q, "no") => thread'[q] = thread[q] /\ q \in ready'
      BY <1>1, <2>1 DEF StoreInv, SavesItsOwn
    <2> QED BY <2>1, <2>2, <2>3, <2>4, ChatKeeps
  <1>7. CASE Fork(p)
    <2>1. /\ p \in spoken /\ BeginSave(p, thread[p], 0, "fork") /\ UNCHANGED <<index, session, chatVars, threads>>
      BY <1>7 DEF Fork
    <2>2. UNCHANGED <<index, session, convId, thread, spoken>> /\ threads' \in 0..MaxThreads
      BY <1>0, <2>1 DEF chatVars, SaveTypes
    <2> QED BY <1>1, <1>2, <1>3, <1>4, <2>1, <2>2, ChatSaveKeeps
  <1>8. CASE Clear(p) /\ p \in spoken
    <2>1. BeginSave(p, thread[p], convId[p], "clear") /\ UNCHANGED <<index, session, chatVars, threads>>
      BY <1>8 DEF Clear
    <2>2. UNCHANGED <<index, session, convId, thread, spoken>> /\ threads' \in 0..MaxThreads
      BY <1>0, <2>1 DEF chatVars, SaveTypes
    <2> QED BY <1>1, <1>2, <1>3, <1>4, <1>8, <2>1, <2>2, ChatSaveKeeps
  <1>9. CASE Clear(p) /\ p \notin spoken
    <2>1. Leave(p) /\ UNCHANGED <<saved, index, saving, historyVars>>
      BY <1>9 DEF Clear
    <2>2. ChatTypes' /\ ShowsItsOwn' /\ \A q \in Programs : q # p => thread'[q] = thread[q]
      BY <1>1, <2>1, LeaveKeeps DEF historyVars
    <2>3. \A q \in Programs : ~InSave(q, "no") => thread'[q] = thread[q] /\ q \in ready'
      BY <1>1, <2>2 DEF StoreInv, SavesItsOwn
    <2> QED BY <2>1, <2>2, <2>3, ChatKeeps
  <1>10. CASE RestoreListed(p)
    <2>1. PICK id \in Listed(active) : Restore(p, id)
      BY <1>10 DEF RestoreListed
    <2>2. id \in 0..MaxSaved
      BY <1>0, EntriesType, StoreNumbers DEF ChatTypes
    <2>3. UNCHANGED <<filesVars, saving, historyVars>>
      BY <1>10 DEF RestoreListed
    <2> QED BY <1>1, <2>1, <2>2, <2>3, RestoreKeeps
  <1> QED BY <1>5, <1>6, <1>7, <1>8, <1>9, <1>10 DEF Chat

LEMMA ReturnKeeps ==
    ASSUME StoreInv, NEW p \in Programs, SaveReturns(p), UNCHANGED <<active, kind, ready>>
    PROVE  StoreInv'
  <1>0. SaveTypes /\ ChatTypes
    BY DEF StoreInv
  <1>1. /\ saving' = [saving EXCEPT ![p] = NotSaving] /\ UNCHANGED <<saved, index, historyVars>>
        /\ \E step \in {"return", "failed"} : InSave(p, step)
    BY DEF SaveReturns
  <1>2. /\ p \in ready /\ saving[p].id \in 0..MaxSaved /\ thread[p] # 0
        /\ owner[saving[p].id] = thread[p] /\ p \in Runs
    BY <1>0, <1>1, StoreNumbers DEF StoreInv, SavesItsOwn, InSave, ChatTypes
  <1>3. /\ ChatTypes' /\ ShowsItsOwn'
        /\ \A q \in Programs : q # p => thread'[q] = thread[q]
    <2>1. \/ spoken' \in {spoken, spoken \ {p}} /\ UNCHANGED <<session, thread, convId>>
          \/ Leave(p)
          \/ UNCHANGED <<session, chatVars>>
          \/ /\ convId' = [convId EXCEPT ![p] = saving[p].id]
             /\ session' = [session EXCEPT ![active] = saving[p].id]
             /\ UNCHANGED <<thread, spoken>>
      BY DEF SaveReturns
    <2>2. CASE spoken' \subseteq spoken /\ UNCHANGED <<session, thread, convId>>
      BY <1>0, <1>1, <2>2 DEF ChatTypes, Runs, StoreInv, ShowsItsOwn, historyVars
    <2>3. CASE Leave(p)
      BY <1>1, <2>3, LeaveKeeps DEF historyVars
    <2>4. CASE /\ convId' = [convId EXCEPT ![p] = saving[p].id]
               /\ session' = [session EXCEPT ![active] = saving[p].id]
               /\ UNCHANGED <<thread, spoken>>
      <3>1. /\ convId' \in [Programs -> 0..MaxSaved] /\ convId'[p] = saving[p].id
            /\ \A q \in Programs : q # p => convId'[q] = convId[q]
            /\ session' \in [Scopes -> 0..MaxSaved]
        BY <1>0, <1>2, <2>4 DEF ChatTypes
      <3>2. ChatTypes'
        BY <1>0, <2>4, <3>1 DEF ChatTypes, Runs
      <3>3. ShowsItsOwn'
        BY <1>1, <1>2, <2>4, <3>1 DEF StoreInv, ShowsItsOwn, historyVars
      <3> QED BY <2>4, <3>2, <3>3
    <2> QED BY <2>1, <2>2, <2>3, <2>4 DEF chatVars
  <1>4. ASSUME NEW w \in Scopes, SaveAgrees(w, p) PROVE FilesAre(w, Listed(w))'
    BY <1>1, <1>4 DEF SaveAgrees, FilesAre, Listed, Entries, historyVars
  <1>5. UNCHANGED <<threads, owner, damaged>> /\ damaged' \subseteq Scopes \X (Ids \cup {AllFiles})
    BY <1>0, <1>1 DEF historyVars, SaveTypes
  <1> QED BY <1>1, <1>3, <1>4, <1>5, SaveEndKeeps

(* A program stops: its save is over, or cut short.                            *)
LEMMA StopKeeps ==
    ASSUME StoreInv, NEW p \in Programs, Exit(p) \/ Kill(p)
    PROVE  StoreInv'
  <1>0. SaveTypes /\ ChatTypes
    BY DEF StoreInv
  <1>1. /\ kind' = [kind EXCEPT ![p] = "off"] /\ ready' = ready \ {p}
        /\ thread' = [thread EXCEPT ![p] = 0] /\ spoken' = spoken \ {p}
        /\ convId' = [convId EXCEPT ![p] = 0] /\ saving' = [saving EXCEPT ![p] = NotSaving]
    BY DEF Exit, Kill, Stops
  <1>2. UNCHANGED <<active, saved, index, threads, owner>>
    BY DEF Exit, Kill, filesVars, historyVars
  <1>3. /\ thread'[p] = 0 /\ convId'[p] = 0 /\ kind'[p] = "off"
        /\ \A q \in Programs : q # p =>
              thread'[q] = thread[q] /\ convId'[q] = convId[q] /\ kind'[q] = kind[q]
        /\ thread' \in [Programs -> 0..MaxThreads] /\ convId' \in [Programs -> 0..MaxSaved]
        /\ kind' \in [Programs -> {"off", "tui", "cli"}]
    BY <1>0, <1>1, StoreNumbers DEF ChatTypes
  <1>4. session' \in [Scopes -> 0..MaxSaved]
    <2>1. \/ session' = session
          \/ InSave(p, "return") /\ session' = [session EXCEPT ![active] = saving[p].id]
      BY DEF Exit, Kill, filesVars
    <2>2. InSave(p, "return") => saving[p].id \in 0..MaxSaved
      BY StoreNumbers DEF StoreInv, SavesItsOwn, InSave
    <2> QED BY <1>0, <2>1, <2>2 DEF ChatTypes
  <1>5. ChatTypes'
    <2>1. spoken' \subseteq Runs' /\ ready' \subseteq Runs'
      BY <1>0, <1>1, <1>3 DEF ChatTypes, Runs
    <2> QED BY <1>0, <1>2, <1>3, <1>4, <2>1 DEF ChatTypes
  <1>6. ShowsItsOwn'
    <2>1. ASSUME NEW q \in spoken' PROVE thread'[q] # 0
      BY <1>0, <1>1, <1>3 DEF StoreInv, ShowsItsOwn, ChatTypes, Runs
    <2>2. ASSUME NEW q \in Programs, convId'[q] # 0
          PROVE  thread'[q] # 0 /\ owner'[convId'[q]] = thread'[q]
      <3>1. q # p
        BY <1>3, <2>2
      <3> QED BY <1>2, <1>3, <2>2, <3>1 DEF StoreInv, ShowsItsOwn
    <2> QED BY <2>1, <2>2 DEF ShowsItsOwn
  <1>7. damaged \subseteq damaged' /\ damaged' \subseteq Scopes \X (Ids \cup {AllFiles})
    <2>1. damaged' = damaged \/ Spoil(p)
      BY DEF Exit, Kill, historyVars
    <2> QED BY <1>0, <2>1, SpoilsAre DEF SaveTypes
  <1>8. ASSUME NEW w \in Scopes, p \in Savers(w), Sound(w)', SaveAgrees(w, p)
        PROVE  FilesAre(w, Listed(w))'
    <2>1. SaveScope(p) = w /\ ~InSave(p, "no")
      BY <1>8 DEF Savers
    <2>2. CASE Kill(p)
      BY <1>2, <1>8, <2>1, <2>2, SpoiltAgrees DEF Kill
    <2>3. CASE Exit(p)
      <3>1. (InSave(p, "return") \/ InSave(p, "failed")) /\ damaged' = damaged
        BY <2>1, <2>3 DEF Exit, Idle, historyVars
      <3> QED BY <1>2, <1>8, <3>1 DEF SaveAgrees, FilesAre, Listed, Entries
    <2> QED BY <2>2, <2>3
  <1>9. \A q \in Programs : q # p => thread'[q] = thread[q] /\ (q \in ready => q \in ready')
    BY <1>1, <1>3
  <1> QED BY <1>1, <1>2, <1>5, <1>6, <1>7, <1>8, <1>9, SaveEndKeeps

LEMMA StoreStep == StoreInv /\ [Next]_vars => StoreInv'
  <1> SUFFICES ASSUME StoreInv, [Next]_vars PROVE StoreInv'
    OBVIOUS
  <1>0. SaveTypes /\ ChatTypes
    BY DEF StoreInv
  <1>1. ASSUME UNCHANGED conversationVars, ChatTypes', \A q \in ready : q \in ready'
        PROVE  StoreInv'
    <2>1. UNCHANGED <<saved, index, saving, historyVars, thread, spoken, convId>>
      BY <1>1 DEF conversationVars, filesVars, chatVars
    <2>2. ShowsItsOwn'
      BY <2>1 DEF StoreInv, ShowsItsOwn, historyVars
    <2>3. \A q \in Programs : ~InSave(q, "no") => thread'[q] = thread[q] /\ q \in ready'
      BY <1>1, <2>1 DEF StoreInv, SavesItsOwn
    <2> QED BY <1>1, <2>1, <2>2, <2>3, ChatKeeps
  <1>2. ASSUME UNCHANGED <<conversationVars, kind, ready>>, active' \in Scopes PROVE StoreInv'
    <2>1. ChatTypes'
      BY <1>0, <1>2 DEF ChatTypes, Runs, conversationVars, filesVars, chatVars
    <2> QED BY <1>1, <1>2, <2>1
  <1>3. ASSUME NEW p \in Programs, NEW k \in {"tui", "cli"}, Start(p, k) PROVE StoreInv'
    <2>1. /\ kind[p] = "off" /\ kind' = [kind EXCEPT ![p] = k]
          /\ ready' \in {ready, ready \cup {p}} /\ UNCHANGED <<active, conversationVars>>
      BY <1>3 DEF Start
    <2>2. kind' \in [Programs -> {"off", "tui", "cli"}] /\ Runs' = Runs \cup {p}
      BY <1>0, <2>1 DEF ChatTypes, Runs
    <2>3. ChatTypes'
      BY <1>0, <2>1, <2>2 DEF ChatTypes, conversationVars, filesVars, chatVars
    <2> QED BY <1>1, <2>1, <2>3
  <1>4. ASSUME NEW p \in Programs, Restores(p) PROVE StoreInv'
    <2>1. /\ kind[p] = "tui" /\ p \notin ready /\ ready' = ready \cup {p} /\ UNCHANGED <<active, kind>>
          /\ Restore(p, session[active]) \/ UNCHANGED chatVars
          /\ UNCHANGED <<filesVars, saving, historyVars>>
      BY <1>4 DEF Restores, RestoreSession
    <2>2. InSave(p, "no")
      BY <2>1 DEF StoreInv, SavesItsOwn
    <2>3. session[active] \in 0..MaxSaved
      BY <1>0 DEF ChatTypes
    <2> QED BY <2>1, <2>2, <2>3, RestoreKeeps
  <1>5. ASSUME NEW p \in Programs, Note(p) \/ NoteSaved(p) \/ NoteFails(p) \/ ShowNotes(p)
        PROVE  StoreInv'
    <2>1. UNCHANGED <<active, conversationVars, kind, ready>>
      BY <1>5 DEF Note, NoteSaved, NoteFails, ShowNotes
    <2> QED BY <1>0, <1>2, <2>1 DEF ChatTypes
  <1>6. ASSUME NEW p \in Programs, Save(p) PROVE StoreInv'
    <2>1. UNCHANGED <<active, kind, ready>>
      BY <1>6 DEF Save
    <2> QED BY <1>6, <2>1, WriteKeeps, PruneKeeps, OpenKeeps, WriteIndexKeeps, FailKeeps,
               ReturnKeeps DEF Save
  <1>7. ASSUME NEW p \in Programs, Quit(p) PROVE StoreInv'
    <2>1. /\ Idle(p) /\ p \in spoken /\ BeginSave(p, thread[p], convId[p], "exit")
          /\ UNCHANGED <<active, index, session, chatVars, threads, kind, ready>>
      BY <1>7 DEF Quit, Interface
    <2>2. /\ convId[p] \in 0..MaxSaved /\ thread[p] \in 1..MaxThreads
          /\ thread = [thread EXCEPT ![p] = thread[p]]
          /\ convId[p] # 0 => owner[convId[p]] = thread[p]
      <3>1. \A t \in 0..MaxThreads : t # 0 => t \in 1..MaxThreads
        BY ConversationsAssumption
      <3> QED BY <1>0, <2>1, <3>1 DEF ChatTypes, StoreInv, ShowsItsOwn
    <2>3. UNCHANGED <<index, session, convId, thread, spoken, active, kind, ready>>
          /\ threads' \in 0..MaxThreads
      BY <1>0, <2>1 DEF chatVars, SaveTypes
    <2> QED BY <2>1, <2>2, <2>3, ChatSaveKeeps
  <1>8. CASE Switch
    <2>1. active' \in Scopes /\ UNCHANGED <<conversationVars, kind, ready>>
      BY <1>8 DEF Switch, SwitchWorkspace, ClearActive, SetActive, Scopes
    <2> QED BY <1>2, <2>1
  <1>9. CASE UNCHANGED vars
    BY <1>0, <1>2, <1>9 DEF vars, ChatTypes
  <1> QED BY <1>3, <1>4, <1>5, <1>6, <1>7, <1>8, <1>9, ChatStepKeeps, StopKeeps DEF Next

LEMMA StoreInitially == Init => StoreInv
  <1> SUFFICES ASSUME Init PROVE StoreInv
    OBVIOUS
  <1>1. /\ active = NoWorkspace /\ kind = [p \in Programs |-> "off"] /\ ready = {}
        /\ saved = [w \in Scopes |-> [i \in Ids |-> Missing]]
        /\ index = [w \in Scopes |-> <<>>] /\ session = [w \in Scopes |-> 0]
        /\ thread = [p \in Programs |-> 0] /\ spoken = {} /\ convId = [p \in Programs |-> 0]
        /\ saving = [p \in Programs |-> NotSaving]
        /\ threads = 0 /\ owner = [i \in Ids |-> 0] /\ damaged = {}
    BY DEF Init, WorkspacesInit, ConversationsInit
  <1>2. NotSaving \in SaveRecords /\ NotSaving.step = "no" /\ NotSaving.entries = <<>>
    BY EmptySeq, StoreNumbers DEF NotSaving, SaveRecords, Steps, Scopes
  <1>3. \A p \in Programs : InSave(p, "no") /\ ~InSave(p, "prune") /\ EntriesOf(p) = {}
                            /\ Once(saving[p].entries)
    <2>1. DOMAIN <<>> = {}
      OBVIOUS
    <2> QED BY <1>1, <1>2, <2>1 DEF InSave, EntriesOf, ToSet, Once
  <1>4. \A w \in Scopes : Entries(w) = <<>> /\ Listed(w) = {} /\ Savers(w) = {} /\ Once(Entries(w))
    <2>1. <<>> # Cut /\ DOMAIN <<>> = {}
      BY DEF Cut
    <2> QED BY <1>1, <1>3, <2>1 DEF Entries, Listed, ToSet, Savers, Once
  <1>5. SaveTypes
    BY <1>1, <1>2, EmptySeq, StoreNumbers DEF SaveTypes
  <1>6. ChatTypes
    BY <1>1, StoreNumbers DEF ChatTypes, Scopes
  <1>7. IdsInOrder /\ IndexOfOwned /\ ShowsItsOwn /\ SavesItsOwn /\ PrunesMore
    BY <1>1, <1>3, <1>4 DEF IdsInOrder, IndexOfOwned, ShowsItsOwn, SavesItsOwn, PrunesMore
  <1>8. \A w \in Scopes, i \in Ids : ~(saved[w][i] > 0)
    BY <1>1, StoreNumbers
  <1>9. FilesOfOwner /\ \A w \in Scopes : IndexAgrees(w)
    BY <1>4, <1>8 DEF FilesOfOwner, IndexAgrees, FilesAre
  <1> QED BY <1>5, <1>6, <1>7, <1>9 DEF StoreInv

LEMMA StoreInvariant == Spec => []StoreInv
  BY StoreInitially, StoreStep, PTL DEF Spec

(* For any programs, workspaces and conversations: every variable has its type, *)
THEOREM StoreTypeCorrect == Spec => []TypeOK
  <1>1. Spec => []NotesInv
    BY NotesInitially, NotesStep, PTL DEF Spec
  <1>2. NotesInv /\ StoreInv => TypeOK
    <2> SUFFICES ASSUME NotesInv, StoreInv PROVE TypeOK
      OBVIOUS
    <2>1. SaveTypes /\ ChatTypes /\ \A w \in Scopes : Listed(w) \subseteq Ids
      BY EntriesType DEF StoreInv
    <2>2. \A p \in Programs : saving[p].step \in Steps /\ saving[p].scope \in Scopes
      BY <2>1, EntriesOfType DEF SaveRecords
    <2>3. \A p \in Programs : noted[p] = NoChange \/ noted[p] \in Changes
      BY DEF NotesInv, NoteTypes
    <2> QED BY <2>1, <2>2, <2>3 DEF NotesInv, NoteTypes, SaveTypes, ChatTypes, TypeOK
  <1> QED BY <1>1, <1>2, StoreInvariant, PTL

(* a program saves what it shows under the id made for it, and a file holds the *)
(* conversation for which it was made,                                         *)
THEOREM SavedAsItsOwn == Spec => []SavedUnderItsOwnId
  <1>1. StoreInv => SavedUnderItsOwnId
    BY DEF StoreInv, ShowsItsOwn, FilesOfOwner, SavedUnderItsOwnId
  <1> QED BY <1>1, StoreInvariant, PTL

(* and the list of a scope and its files agree but for what a save spoiled that *)
(* failed or was cut short.                                                    *)
THEOREM ListAgreesWithFiles == Spec => []ListedAreSaved
  <1>1. StoreInv => ListedAreSaved
    <2> SUFFICES ASSUME StoreInv, Quiet, NEW w \in Scopes, Sound(w), NEW i \in Ids
                 PROVE  <<w, i>> \in damaged \/ (i \in Listed(w) <=> saved[w][i] > 0)
      BY DEF ListedAreSaved, Sound
    <2>1. Savers(w) = {}
      BY DEF Quiet, Savers
    <2>2. FilesAre(w, Listed(w))
      BY <2>1 DEF StoreInv, IndexAgrees
    <2> QED BY <2>2 DEF FilesAre
  <1> QED BY <1>1, StoreInvariant, PTL
================================================================================
