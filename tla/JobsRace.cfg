SPECIFICATION Spec
CONSTANTS
    a = a
    b = b
    Job = {a, b}
    Lazy = {a}
    NoJob = NoJob
    MaxClicks = 2
    MaxTries = 1
INVARIANTS
    PausedNotPublished
    ResumeIsUnfinished
    ClaimNotLeaked
    CapturedCanRun
    CancelledOnlyIfRefused
    CountsAgree
PROPERTIES
    OverIsOver
