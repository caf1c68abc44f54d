\* The boss and two cache workers, three messages.
SPECIFICATION Spec
CONSTANTS
    Threads = {boss, c1, c2}
    Boss = boss
    MaxMessages = 3
    Items = {1, 2, 3}
    NoItem = none
    MaxNodes = 4
INVARIANT CacheKeepsRunning
CHECK_DEADLOCK FALSE
