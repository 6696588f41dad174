SPECIFICATION Spec
CONSTANTS
    Providers = {v1}
    Exempt = {}
    Searches = {s1, s2, s3}
    Slots = 2
    Threshold = 2
    Cooldown = 1
    Waits = {2}
    DailyLimit = 1
    MaxTime = 2
    MaxSearches = 3
    MaxDays = 0
    MaxRestarts = 0
PROPERTIES
    CooldownHonoured
CHECK_DEADLOCK FALSE
