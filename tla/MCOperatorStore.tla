---------------------------- MODULE MCOperatorStore ---------------------------
(* Small instances of OperatorStore.                                           *)
EXTENDS OperatorStore

NoteSymmetry == Permutations(Notes)

(* Bound: two notes before the first conversation, one beside one, none beside *)
(* two.                                                                        *)
FewNotes ==
    LET inUse == UNION ({notesFile[w] : w \in Scopes} \cup {notes[p] : p \in Programs})
    IN  Cardinality(inUse) + threads <= 2
===============================================================================
