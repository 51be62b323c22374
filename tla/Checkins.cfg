SPECIFICATION Spec
CONSTANTS
    Requests = {p1, p2}
    Kinds = {"daily_devotion", "daily_verse", "weekly_book", "weekly_video", "weekly_outline"}
    Dates = {1, 3}
    Slot <- MCSlot
    Verses = {"a"}
    InitialTasks <- MCTasks
    Drafts <- MCDrafts
    MaxTasks = 6
    MaxWeeks = 3
    MaxChanges = 1
INVARIANTS
    OneCompletion
    TasksKept
PROPERTIES
    TargetIsCurrent
    CompletionsAnnounced
CHECK_DEADLOCK FALSE
