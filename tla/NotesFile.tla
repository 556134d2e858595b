------------------------------- MODULE NotesFile ------------------------------
(* The notes tool (tools/notes): a program keeps its notes in memory and writes *)
(* all of them to the file of the active workspace after each change.           *)
EXTENDS Workspaces

CONSTANT Notes

(* No note stands for there being none.                                         *)
ASSUME NotesFileAssumption == "none" \notin Notes

VARIABLES
    notesFile,  \* the notes in the file of each scope; a file cut short loads as none
    notes,      \* _notes of each program
    noted,      \* what is under way: the change of a program that is being written
    recorded    \* history: notes acknowledged since a write was cut short, and not deleted

notesVars == <<notesFile, notes, noted, recorded>>

NoChange == [scope |-> NoWorkspace, note |-> "none", keeps |-> FALSE]
Changes == [scope : Scopes, note : Notes, keeps : BOOLEAN]

NotesInit ==
    /\ notesFile = [w \in Scopes |-> {}]
    /\ notes = [p \in Programs |-> {}]
    /\ noted = [p \in Programs |-> NoChange]
    /\ recorded = [w \in Scopes |-> {}]

(* get_all_notes: the file is read if there are no notes in memory.             *)
LoadNotes(p) ==
    notes' = [notes EXCEPT ![p] = IF @ = {} THEN notesFile[active] ELSE @]

(* The memory changes and the file is opened, which empties it.                 *)
ChangeNote(p, n, keeps) ==
    /\ noted[p] = NoChange
    /\ notes' = [notes EXCEPT ![p] = IF keeps THEN @ \cup {n} ELSE @ \ {n}]
    /\ notesFile' = [notesFile EXCEPT ![active] = {}]
    /\ noted' = [noted EXCEPT ![p] = [scope |-> active, note |-> n, keeps |-> keeps]]
    /\ UNCHANGED recorded

CreateNote(p, n) == n \notin notes[p] /\ ChangeNote(p, n, TRUE)
UpdateNote(p, n) == ChangeNote(p, n, TRUE)
DeleteNote(p, n) == n \in notes[p] /\ ChangeNote(p, n, FALSE)

(* The text is in the file and the call is answered.                            *)
SaveNotes(p) ==
    /\ noted[p] # NoChange
    /\ LET w == noted[p].scope
           n == noted[p].note
       IN  /\ notesFile' = [notesFile EXCEPT ![w] = notes[p]]
           /\ recorded' = [recorded EXCEPT ![w] = IF noted[p].keeps THEN @ \cup {n} ELSE @ \ {n}]
    /\ noted' = [noted EXCEPT ![p] = NoChange]
    /\ UNCHANGED notes

(* The file stays empty; nothing of before counts.                              *)
SaveNotesFails(p) ==
    /\ noted[p] # NoChange
    /\ noted' = [noted EXCEPT ![p] = NoChange]
    /\ recorded' = [w \in Scopes |-> {}]
    /\ UNCHANGED <<notesFile, notes>>

(* The program ends.                                                            *)
ForgetNotes(p) ==
    /\ notes' = [notes EXCEPT ![p] = {}]
    /\ noted' = [noted EXCEPT ![p] = NoChange]
    /\ recorded' = IF noted[p] = NoChange THEN recorded ELSE [w \in Scopes |-> {}]
    /\ UNCHANGED notesFile
===============================================================================
