-------------------------- MODULE ConversationMemory --------------------------
(* The memory of a model client (llm/memory.py, llm/llm.py): one summary of     *)
(* older messages, with the number of messages that it stands for, whichever    *)
(* conversation they are from.  The agents of a crew ask through one client, as *)
(* do the conversations that an interface has one after another.  A message is  *)
(* one token.                                                                   *)
EXTENDS Integers, Sequences, SequencesExt

CONSTANTS
    Conversations,      \* conversations that are held with the client
    token_budget,
    summarize_threshold,    \* of the budget
    recent_to_keep,
    max_retries,
    MaxSaid             \* bound: messages of a conversation, ever

VARIABLES
    history,            \* conversation_history of each agent
    said,               \* messages that a conversation has had
    cached_summary,     \* the messages that the summary is made of; {} if None
    summarized_count,
    calls,              \* the call of each agent: what it is at, and its messages
    prompts             \* what the model was last asked: a summary and messages

memoryVars == <<history, said, cached_summary, summarized_count, calls, prompts>>
cacheVars == <<cached_summary, summarized_count>>

NoCall == [step |-> "idle", messages |-> <<>>, attempt |-> 0]
NoPrompt == [summary |-> {}, messages |-> <<>>]

MemoryInit ==
    /\ history = [c \in Conversations |-> <<>>]
    /\ said = [c \in Conversations |-> 0]
    /\ cached_summary = {} /\ summarized_count = 0
    /\ calls = [c \in Conversations |-> NoCall]
    /\ prompts = [c \in Conversations |-> NoPrompt]

Idle(c) == calls[c].step = "idle"

(* The messages to summarize and those to keep.                                 *)
SplitPoint(messages) == Len(messages) - recent_to_keep
Older(messages) == SubSeq(messages, 1, SplitPoint(messages))
Recent(messages) == SubSeq(messages, SplitPoint(messages) + 1, Len(messages))

TruncateToFit(messages) ==
    IF Len(messages) <= token_budget THEN messages
    ELSE SubSeq(messages, Len(messages) - token_budget + 1, Len(messages))

-------------------------------------------------------------------------------
(* The agent: a message of the user or the result of a tool.                    *)
Say(c) ==
    /\ Idle(c)
    /\ said[c] < MaxSaid
    /\ said' = [said EXCEPT ![c] = @ + 1]
    /\ history' = [history EXCEPT ![c] = Append(@, <<c, said[c] + 1>>)]
    /\ UNCHANGED <<cacheVars, calls, prompts>>

(* The history is cleared or rewound, which the client is not told.             *)
Forget(c) ==
    /\ Idle(c)
    /\ \E n \in 0 .. Len(history[c]) - 1 : history' = [history EXCEPT ![c] = SubSeq(@, 1, n)]
    /\ UNCHANGED <<said, cacheVars, calls, prompts>>

(* The model is asked and answers after some time.                              *)
Ask(c, summary, messages) ==
    /\ calls' = [calls EXCEPT ![c] = [step |-> "asking", messages |-> history[c],
                                       attempt |-> 0]]
    /\ prompts' = [prompts EXCEPT ![c] = [summary |-> summary, messages |-> messages]]

(* generate, up to its first await.                                             *)
Generate(c) ==
    LET messages == history[c]
    IN  /\ Idle(c) /\ messages # <<>>
        /\ \/ /\ Len(messages) <= summarize_threshold
              /\ Ask(c, {}, messages)
           \/ /\ Len(messages) > summarize_threshold
              /\ Len(messages) <= recent_to_keep
              /\ Ask(c, {}, TruncateToFit(messages))
           \/ /\ Len(messages) > summarize_threshold
              /\ Len(messages) > recent_to_keep
              /\ IF SplitPoint(messages) <= summarized_count /\ cached_summary # {}
                   THEN Ask(c, cached_summary, Recent(messages))
                   ELSE /\ calls' = [calls EXCEPT ![c] =
                                       [step |-> "summarizing", messages |-> messages,
                                        attempt |-> 0]]
                        /\ UNCHANGED prompts
        /\ UNCHANGED <<history, said, cacheVars>>

(* The calls for all chunks have ended; one that fails leaves a remark.         *)
Summarized(c) ==
    /\ calls[c].step = "summarizing"
    /\ LET messages == calls[c].messages
       IN  /\ cached_summary' = ToSet(Older(messages))
           /\ summarized_count' = SplitPoint(messages)
           /\ Ask(c, ToSet(Older(messages)), Recent(messages))
    /\ UNCHANGED <<history, said>>

(* A rate limit: after a delay the same prompt is asked again, as it was.       *)
Retries(c) ==
    /\ calls[c].step = "asking"
    /\ calls[c].attempt < max_retries
    /\ calls' = [calls EXCEPT ![c].attempt = @ + 1]
    /\ UNCHANGED <<history, said, cacheVars, prompts>>

(* The response, or that the request failed, is put into the history.           *)
Answered(c) ==
    /\ calls[c].step = "asking"
    /\ said[c] < MaxSaid
    /\ said' = [said EXCEPT ![c] = @ + 1]
    /\ history' = [history EXCEPT ![c] = Append(@, <<c, said[c] + 1>>)]
    /\ calls' = [calls EXCEPT ![c] = NoCall]
    /\ prompts' = [prompts EXCEPT ![c] = NoPrompt]
    /\ UNCHANGED cacheVars

(* The agent is cancelled; what is not cached by then is lost.                  *)
Cancelled(c) ==
    /\ ~Idle(c)
    /\ calls' = [calls EXCEPT ![c] = NoCall]
    /\ prompts' = [prompts EXCEPT ![c] = NoPrompt]
    /\ UNCHANGED <<history, said, cacheVars>>

MemoryNext ==
    \E c \in Conversations :
        \/ Say(c) \/ Forget(c)
        \/ Generate(c) \/ Summarized(c) \/ Retries(c) \/ Answered(c) \/ Cancelled(c)

MemorySpec == MemoryInit /\ [][MemoryNext]_memoryVars

-------------------------------------------------------------------------------
(* llm/memory.py:129: "Messages with older ones summarized if over threshold":   *)
(* what is not among the messages of a prompt that has a summary is in it.      *)
OlderAreSummarized ==
    \A c \in Conversations :
        calls[c].step = "asking" /\ prompts[c].summary # {} =>
            ToSet(calls[c].messages) \subseteq
                prompts[c].summary \cup ToSet(prompts[c].messages)
===============================================================================
