SPECIFICATION MemorySpec
CONSTANTS
    Conversations = {a, b}
    token_budget = 4
    summarize_threshold = 2
    recent_to_keep = 1
    max_retries = 1
    MaxSaid = 4
INVARIANT OlderAreSummarized
CHECK_DEADLOCK FALSE
