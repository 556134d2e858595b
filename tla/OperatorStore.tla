----------------------------- MODULE OperatorStore ----------------------------
(* What programs of one operator store together: the terminal interface and the *)
(* child agents it starts, each of which has an interface too, and the command  *)
(* line and the MCP server, which have none.  They share the files of the       *)
(* active workspace and no lock.                                                *)
EXTENDS NotesFile, Conversations

VARIABLES
    kind,       \* what each program is; "off" if it does not run
    ready,      \* programs that have restored their session
    inTurn      \* history: only interfaces wrote notes, one at a time, each in one workspace

vars == <<active, notesVars, conversationVars, kind, ready, inTurn>>

Init ==
    /\ WorkspacesInit /\ NotesInit /\ ConversationsInit
    /\ kind = [p \in Programs |-> "off"]
    /\ ready = {}
    /\ inTurn = TRUE

Runs == {p \in Programs : kind[p] # "off"}
Idle(p) == p \in ready /\ InSave(p, "no") /\ noted[p] = NoChange
Interface(p) == kind[p] = "tui" /\ Idle(p)

(* Mutant: the notes are read only when they are asked for.                     *)
StartBare(p, k) ==
    /\ kind[p] = "off"
    /\ kind' = [kind EXCEPT ![p] = k]
    /\ ready' = IF k = "tui" THEN ready ELSE ready \cup {p}
    /\ inTurn' = (inTurn /\ Runs = {})
    /\ UNCHANGED <<active, notesVars, conversationVars>>

(* on_mount of the interface reads the notes; nothing else does at its start.   *)
Start(p, k) ==
    /\ kind[p] = "off"
    /\ kind' = [kind EXCEPT ![p] = k]
    /\ IF k = "tui" THEN LoadNotes(p) /\ UNCHANGED ready
                    ELSE ready' = ready \cup {p} /\ UNCHANGED notes
    /\ inTurn' = (inTurn /\ Runs = {})
    /\ UNCHANGED <<active, notesFile, noted, recorded, conversationVars>>

(* The components are built, then the session is restored.                      *)
Restores(p) ==
    /\ kind[p] = "tui" /\ p \notin ready
    /\ RestoreSession(p)
    /\ ready' = ready \cup {p}
    /\ UNCHANGED <<active, notesVars, kind, inTurn>>

(* The notes tool, in any program.                                              *)
Note(p) ==
    /\ Idle(p)
    /\ \E n \in Notes : CreateNote(p, n) \/ UpdateNote(p, n) \/ DeleteNote(p, n)
    /\ inTurn' = (inTurn /\ kind[p] = "tui")
    /\ UNCHANGED <<active, conversationVars, kind, ready>>

NoteSaved(p) ==
    /\ SaveNotes(p)
    /\ UNCHANGED <<active, conversationVars, kind, ready, inTurn>>

(* The file cannot be written; the notes stay in memory.                        *)
NoteFails(p) ==
    /\ SaveNotesFails(p)
    /\ UNCHANGED <<active, conversationVars, kind, ready, inTurn>>

(* /notes.                                                                      *)
ShowNotes(p) ==
    /\ Interface(p)
    /\ LoadNotes(p)
    /\ UNCHANGED <<active, notesFile, noted, recorded, conversationVars, kind, ready, inTurn>>

Chat(p) ==
    /\ Interface(p)
    /\ Turn(p) \/ Rewind(p) \/ Fork(p) \/ Clear(p) \/ RestoreListed(p)
    /\ UNCHANGED <<active, notesVars, kind, ready, inTurn>>

Save(p) ==
    /\ \/ WriteConversation(p) \/ Prune(p) \/ OpenIndex(p)
       \/ WriteIndex(p) \/ SaveFails(p) \/ PruneFails(p)
       \/ saving[p].then # "exit" /\ SaveReturns(p)
    /\ UNCHANGED <<active, notesVars, kind, ready, inTurn>>

(* /workspace in an interface, or the command of that name.                     *)
Switch ==
    /\ \/ \E p \in Programs : Interface(p)
       \/ Runs # Programs
    /\ SwitchWorkspace
    /\ inTurn' = (inTurn /\ Runs = {})
    /\ UNCHANGED <<notesVars, conversationVars, kind, ready>>

(* on_unmount saves the conversation.                                           *)
Quit(p) ==
    /\ Interface(p) /\ p \in spoken
    /\ BeginSave(p, thread[p], convId[p], "exit")
    /\ UNCHANGED <<active, notesVars, index, session, chatVars, threads, kind, ready, inTurn>>

Stops(p) ==
    /\ kind' = [kind EXCEPT ![p] = "off"]
    /\ ready' = ready \ {p}
    /\ ForgetNotes(p)
    /\ thread' = [thread EXCEPT ![p] = 0]
    /\ spoken' = spoken \ {p}
    /\ convId' = [convId EXCEPT ![p] = 0]
    /\ saving' = [saving EXCEPT ![p] = NotSaving]

Exit(p) ==
    /\ \/ Idle(p) /\ p \notin spoken /\ UNCHANGED session
       \/ /\ saving[p].then = "exit"
          /\ \/ InSave(p, "failed") /\ UNCHANGED session
             \/ InSave(p, "return") /\ session' = [session EXCEPT ![active] = saving[p].id]
    /\ Stops(p)
    /\ UNCHANGED <<active, saved, index, historyVars, inTurn>>

(* The program is killed, or despawned by its parent, at any point.             *)
Kill(p) ==
    /\ p \in Runs
    /\ Spoil(p)
    /\ Stops(p)
    /\ UNCHANGED <<active, filesVars, threads, owner, inTurn>>

Next ==
    \/ \E p \in Programs :
         \/ \E k \in {"tui", "cli"} : Start(p, k)
         \/ Restores(p) \/ Note(p) \/ NoteSaved(p) \/ NoteFails(p) \/ ShowNotes(p)
         \/ Chat(p) \/ Save(p) \/ Quit(p) \/ Exit(p) \/ Kill(p)
    \/ Switch

Spec == Init /\ [][Next]_vars

-------------------------------------------------------------------------------
(* Properties.                                                                  *)

Steps == {"no", "write", "prune", "index", "entries", "return", "failed"}

(* Every variable has its type.                                                 *)
TypeOK ==
    /\ active \in Scopes
    /\ notesFile \in [Scopes -> SUBSET Notes]
    /\ notes \in [Programs -> SUBSET Notes]
    /\ recorded \in [Scopes -> SUBSET Notes]
    /\ \A p \in Programs : noted[p] = NoChange \/ noted[p] \in Changes
    /\ saved \in [Scopes -> [Ids -> -1..MaxThreads]]
    /\ \A w \in Scopes : Listed(w) \subseteq Ids
    /\ session \in [Scopes -> 0..MaxSaved]
    /\ thread \in [Programs -> 0..MaxThreads]
    /\ spoken \subseteq Runs
    /\ convId \in [Programs -> 0..MaxSaved]
    /\ \A p \in Programs : saving[p].step \in Steps /\ saving[p].scope \in Scopes
    /\ threads \in 0..MaxThreads
    /\ owner \in [Ids -> 0..MaxThreads]
    /\ damaged \subseteq Scopes \X (Ids \cup {AllFiles})
    /\ kind \in [Programs -> {"off", "tui", "cli"}]
    /\ ready \subseteq Runs
    /\ inTurn \in BOOLEAN

Quiet == \A p \in Programs : InSave(p, "no") /\ noted[p] = NoChange

RecordedInFile == \A w \in Scopes : recorded[w] \subseteq notesFile[w]

(* README.md:536: "Notes persist across sessions".  A note that was acknowledged *)
(* and not deleted is in the file of its workspace, if no write is cut short ... *)
NotesPersist == Quiet => RecordedInFile

(* ... and as long as only interfaces write notes, one at a time, and none of    *)
(* them has its workspace switched: those that come one after another take over *)
(* what is there.                                                               *)
NotesPersistInTurn == Quiet /\ inTurn => RecordedInFile

(* The id under which an interface saves was made for the conversation it shows, *)
(* and a file holds the conversation for which it was made, through rewinding,  *)
(* forking, clearing, restoring and switching workspaces.                       *)
SavedUnderItsOwnId ==
    /\ \A p \in Programs : convId[p] # 0 => owner[convId[p]] = thread[p]
    /\ \A w \in Scopes, i \in Ids : saved[w][i] > 0 => saved[w][i] = owner[i]

(* The list of conversations and the files agree: every entry can be restored,  *)
(* and every file, once it is pruned no more, is listed.  A save that fails or  *)
(* is killed spoils no other conversation than its own and those it prunes,     *)
(* unless it is cut short in the index.                                         *)
ListedAreSaved ==
    Quiet => \A w \in Scopes : <<w, AllFiles>> \notin damaged =>
               \A i \in Ids : \/ <<w, i>> \in damaged
                              \/ i \in Listed(w) <=> saved[w][i] > 0
===============================================================================
