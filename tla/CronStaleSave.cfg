SPECIFICATION Spec
CONSTANTS
    daily = daily
    once = once
    tg = tg
    gone = gone
    NoJob = NoJob
    NoChannel = NoChannel
    LastSpoken = LastSpoken
    JobId = {daily, once}
    JobDef <- BusyDefs
    InitialJobs <- BusyJobs
    ChannelName = {tg, gone}
    Channel = {tg}
    Talker = {tg}
    BackoffStep <- OneStep
    Window = 3
    MaxNow = 1
    MaxFaults = 0
    MaxEdits = 0
    MaxExits = 1
INVARIANT FiresInOrder
CHECK_DEADLOCK FALSE
