SPECIFICATION Spec
CONSTANTS Procs = {p, q}
          MaxVersion = 3
          MaxStarts = 3
          MaxTime = 3
          Cooldown = 2
INVARIANTS InstalledIsWhole NoticeIsRecent
PROPERTY OnlyForward
CHECK_DEADLOCK FALSE
