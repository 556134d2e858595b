SPECIFICATION Spec
CONSTANTS
    Workspaces = {w1}
    NoWorkspace = none
    Programs = {p1}
    Notes = {n1, n2}
    MAX_CONVERSATIONS = 1
    MaxSaved = 2
    MaxThreads = 2
INVARIANTS NotesPersistInTurn SavedUnderItsOwnId ListedAreSaved
CHECK_DEADLOCK FALSE
SYMMETRY NoteSymmetry
CONSTRAINT FewNotes
