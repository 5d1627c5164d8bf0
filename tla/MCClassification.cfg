SPECIFICATION FairSpec
CONSTANTS
    MaxRetries = 2
INVARIANTS
    EventsHaveTableAndKey
    PromptSuffices
PROPERTIES
    CallEnds
