----------------------------- MODULE Conversations ----------------------------
(* The conversations of the terminal interface (interface/tui.py) and their     *)
(* store (interface/conversation_store.py), of which each scope has one: a file *)
(* per conversation, an index, and a note of the conversation to reload.  Of a  *)
(* conversation only its identity counts, a number; what has no message of the  *)
(* user is not saved.  A file is emptied before it is written.                  *)
EXTENDS Workspaces, Integers, Sequences, SequencesExt

CONSTANTS
    MAX_CONVERSATIONS,
    MaxSaved,       \* bound: conversations that are saved as new
    MaxThreads      \* bound: conversations that are begun

ASSUME ConversationsAssumption ==
    MAX_CONVERSATIONS \in Nat /\ MaxSaved \in Nat /\ MaxThreads \in Nat

VARIABLES
    saved,      \* what is in the file of each conversation
    index,      \* index.json of each scope
    session,    \* session.json of each scope; 0 if there is none
    thread,     \* the conversation in the history of each program; 0 if none
    spoken,     \* programs whose history has a message of the user
    convId,     \* _current_conv_id of each program; 0 if None
    saving,     \* the save that a program is in
    threads,    \* history: conversations that were begun
    owner,      \* history: the conversation for which each id was made
    damaged     \* history: files that a save has spoiled which was cut short

filesVars == <<saved, index, session>>
chatVars == <<thread, spoken, convId>>
historyVars == <<threads, owner, damaged>>
conversationVars == <<filesVars, chatVars, saving, historyVars>>

Ids == 1..MaxSaved
Missing == 0
Empty == -1
Cut == <<0>>    \* an index that was cut short
AllFiles == 0   \* a damaged index costs the whole scope

NotSaving == [step |-> "no", scope |-> NoWorkspace, entries |-> <<>>, id |-> 0, then |-> "go on"]

ConversationsInit ==
    /\ saved = [w \in Scopes |-> [i \in Ids |-> Missing]]
    /\ index = [w \in Scopes |-> <<>>]
    /\ session = [w \in Scopes |-> 0]
    /\ thread = [p \in Programs |-> 0] /\ spoken = {}
    /\ convId = [p \in Programs |-> 0]
    /\ saving = [p \in Programs |-> NotSaving]
    /\ threads = 0 /\ owner = [i \in Ids |-> 0] /\ damaged = {}

(* _read_index.                                                                 *)
Entries(w) == IF index[w] = Cut THEN <<>> ELSE index[w]
Listed(w) == ToSet(Entries(w))

InSave(p, step) == saving[p].step = step
SaveScope(p) == saving[p].scope
SaveMoves(p, step) == saving' = [saving EXCEPT ![p].step = step]

-------------------------------------------------------------------------------
(* ConversationStore.save: the index is read and the file is opened, of a new   *)
(* conversation if the index does not have `id'.                                *)
BeginSave(p, t, id, then) ==
    LET known == id \in Listed(active)
        new == Cardinality({i \in Ids : owner[i] # 0}) + 1
        target == IF known THEN id ELSE new
        others == {q \in Programs \ {p} : ~InSave(q, "no") /\ SaveScope(q) = active}
    IN  /\ target \in Ids
        /\ saving' = [saving EXCEPT ![p] =
             [step |-> "write", scope |-> active, id |-> target, then |-> then,
              entries |-> IF known THEN Entries(active) ELSE <<target>> \o Entries(active)]]
        /\ saved' = [saved EXCEPT ![active][target] = Empty]
        /\ owner' = [owner EXCEPT ![target] = IF known THEN @ ELSE t]
        /\ damaged' = damaged \cup (IF others = {} THEN {} ELSE {<<active, AllFiles>>})

WriteConversation(p) ==
    /\ InSave(p, "write")
    /\ saved' = [saved EXCEPT ![SaveScope(p)][saving[p].id] = thread[p]]
    /\ SaveMoves(p, IF Len(saving[p].entries) > MAX_CONVERSATIONS THEN "prune" ELSE "index")
    /\ UNCHANGED <<index, session, chatVars, historyVars>>

Pruned(p) == ToSet(SubSeq(saving[p].entries, MAX_CONVERSATIONS + 1, Len(saving[p].entries)))

(* Mutant: the index is pruned, the files stay.                                 *)
PruneEntries(p) ==
    /\ InSave(p, "prune")
    /\ saving' = [saving EXCEPT ![p].step = "index",
                   ![p].entries = SubSeq(@, 1, MAX_CONVERSATIONS)]
    /\ UNCHANGED <<filesVars, chatVars, historyVars>>

(* _prune: the files of the oldest entries go.                                  *)
Prune(p) ==
    /\ InSave(p, "prune")
    /\ saved' = [saved EXCEPT ![SaveScope(p)] =
                   [i \in Ids |-> IF i \in Pruned(p) THEN Missing ELSE @[i]]]
    /\ saving' = [saving EXCEPT ![p].step = "index",
                   ![p].entries = SubSeq(@, 1, MAX_CONVERSATIONS)]
    /\ UNCHANGED <<index, session, chatVars, historyVars>>

OpenIndex(p) ==
    /\ InSave(p, "index")
    /\ index' = [index EXCEPT ![SaveScope(p)] = Cut]
    /\ SaveMoves(p, "entries")
    /\ UNCHANGED <<saved, session, chatVars, historyVars>>

WriteIndex(p) ==
    /\ InSave(p, "entries")
    /\ index' = [index EXCEPT ![SaveScope(p)] = saving[p].entries]
    /\ SaveMoves(p, "return")
    /\ UNCHANGED <<saved, session, chatVars, historyVars>>

(* What a save leaves spoiled that ends where it is.                            *)
Spoils(p) ==
    CASE InSave(p, "write") \/ InSave(p, "prune") -> {saving[p].id}
      [] InSave(p, "index") -> {saving[p].id} \cup (Listed(SaveScope(p)) \ ToSet(saving[p].entries))
      [] InSave(p, "entries") -> {AllFiles}
      [] OTHER -> {}

Spoil(p) == damaged' = damaged \cup ({SaveScope(p)} \X Spoils(p))

(* A write fails.  That of the index is passed over.                            *)
SaveFails(p) ==
    /\ \/ InSave(p, "write") /\ SaveMoves(p, "failed")
       \/ \E step \in {"index", "entries"} : InSave(p, step) /\ SaveMoves(p, "return")
    /\ Spoil(p)
    /\ UNCHANGED <<filesVars, chatVars, threads, owner>>

(* A file cannot be removed, which is passed over too.                          *)
PruneFails(p) ==
    /\ InSave(p, "prune")
    /\ saving' = [saving EXCEPT ![p].step = "index",
                   ![p].entries = SubSeq(@, 1, MAX_CONVERSATIONS)]
    /\ damaged' = damaged \cup ({SaveScope(p)} \X Pruned(p))
    /\ UNCHANGED <<filesVars, chatVars, threads, owner>>

-------------------------------------------------------------------------------
(* The interface.                                                               *)

(* A message of the user and the work it starts, after which it is saved.  A    *)
(* task of agent mode, which clears the history, is taken for the same          *)
(* conversation: it is saved in its place.                                      *)
Turn(p) ==
    LET t == IF thread[p] = 0 THEN threads + 1 ELSE thread[p]
    IN  /\ t <= MaxThreads
        /\ thread' = [thread EXCEPT ![p] = t]
        /\ spoken' = spoken \cup {p}
        /\ threads' = IF thread[p] = 0 THEN t ELSE threads
        /\ BeginSave(p, t, convId[p], "go on")
        /\ UNCHANGED <<index, session, convId>>

(* Rewinding to the first message leaves none of the user.                      *)
Rewind(p) ==
    /\ p \in spoken
    /\ spoken' = spoken \ {p}
    /\ UNCHANGED <<filesVars, thread, convId, saving, historyVars>>

(* _do_fork: the history is saved as new, and rewound.                          *)
Fork(p) ==
    /\ p \in spoken
    /\ BeginSave(p, thread[p], 0, "fork")
    /\ UNCHANGED <<index, session, chatVars, threads>>

(* Mutant: the id of the conversation is kept.                                  *)
LeaveIdSet(p) ==
    /\ thread' = [thread EXCEPT ![p] = 0]
    /\ spoken' = spoken \ {p}
    /\ session' = [session EXCEPT ![active] = 0]
    /\ UNCHANGED convId

(* /clear, after the save.                                                      *)
Leave(p) ==
    /\ thread' = [thread EXCEPT ![p] = 0]
    /\ spoken' = spoken \ {p}
    /\ session' = [session EXCEPT ![active] = 0]
    /\ convId' = [convId EXCEPT ![p] = 0]

Clear(p) ==
    IF p \in spoken
      THEN BeginSave(p, thread[p], convId[p], "clear") /\ UNCHANGED <<index, session, chatVars, threads>>
      ELSE Leave(p) /\ UNCHANGED <<saved, index, saving, historyVars>>

(* _restore_conversation: a file that cannot be read is not.                    *)
Restore(p, id) ==
    IF id # 0 /\ saved[active][id] > 0
      THEN /\ thread' = [thread EXCEPT ![p] = saved[active][id]]
           /\ spoken' = spoken \cup {p}
           /\ convId' = [convId EXCEPT ![p] = id]
      ELSE UNCHANGED chatVars

RestoreListed(p) ==
    /\ \E id \in Listed(active) : Restore(p, id)
    /\ UNCHANGED <<filesVars, saving, historyVars>>

(* _restore_session, if the operator has asked for it.                          *)
RestoreSession(p) ==
    /\ Restore(p, session[active]) \/ UNCHANGED chatVars
    /\ UNCHANGED <<filesVars, saving, historyVars>>

(* The end of _save_current_conversation, or of the save of a fork.             *)
SaveReturns(p) ==
    /\ \E step \in {"return", "failed"} : InSave(p, step)
    /\ saving' = [saving EXCEPT ![p] = NotSaving]
    /\ CASE saving[p].then = "fork" ->
              spoken' \in {spoken, spoken \ {p}} /\ UNCHANGED <<session, thread, convId>>
         [] saving[p].then = "clear" -> Leave(p)
         [] InSave(p, "failed") -> UNCHANGED <<session, chatVars>>
         [] OTHER ->
              /\ convId' = [convId EXCEPT ![p] = saving[p].id]
              /\ session' = [session EXCEPT ![active] = saving[p].id]
              /\ UNCHANGED <<thread, spoken>>
    /\ UNCHANGED <<saved, index, historyVars>>
===============================================================================
