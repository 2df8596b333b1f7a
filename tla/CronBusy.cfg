SPECIFICATION Spec
CONSTANTS
    daily = daily
    once = once
    tg = tg
    gone = gone
    NoJob = NoJob
    NoChannel = NoChannel
    LastSpoken = LastSpoken
    JobId = {daily, once}
    JobDef <- BusyDefs
    InitialJobs <- BusyJobs
    ChannelName = {tg, gone}
    Channel = {tg}
    Talker = {tg}
    BackoffStep <- OneStep
    Window = 3
    MaxNow = 1
    MaxFaults = 1
    MaxEdits = 1
    MaxExits = 1
PROPERTIES AnnouncesOnlyUserEdits RemindersKept
CHECK_DEADLOCK FALSE
