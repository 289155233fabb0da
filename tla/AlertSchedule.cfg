SPECIFICATION Spec
CONSTANTS
    rain = rain
    briefing = briefing
    wet = wet
    dry = dry
    Alerts = {rain}
    Briefing = briefing
    Forecasts = {wet, dry}
    Comes <- MCComes
    Lead = 2
    ShortLead = 1
    FreshFor = 1
    None = none
    MaxTime = 3
    MaxChanges = 2
    MaxTasks = 1
    MaxFailures = 1
INVARIANTS Consistent Heeded OptOutHolds AnnouncedOnce
CHECK_DEADLOCK FALSE
