SPECIFICATION LoopSpec
CONSTANTS
    Loops = {a, b}
    Rounds = 2
    MaxUses = 2
    Scores = {30, 90, 250}
    Unstated = Unstated
    Primary = "anthropic"
    Backup = "gemini"
    Keys = {"anthropic", "gemini"}
    Keep = 4
    MaxQueries = 3
INVARIANTS
    TranscriptSound
    ConversationPaired
    SilentAgentsFlagged
PROPERTY
    LoopsEnd
CHECK_DEADLOCK FALSE
