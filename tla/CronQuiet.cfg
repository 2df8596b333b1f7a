SPECIFICATION FairSpec
CONSTANTS
    daily = daily
    once = once
    tg = tg
    gone = gone
    NoJob = NoJob
    NoChannel = NoChannel
    LastSpoken = LastSpoken
    JobId = {daily, once}
    JobDef <- QuietDefs
    InitialJobs <- QuietJobs
    ChannelName = {tg, gone}
    Channel = {tg}
    Talker = {}
    BackoffStep <- Steps
    Window = 3
    MaxNow = 4
    MaxFaults = 2
    MaxEdits = 0
    MaxExits = 2
INVARIANTS FiresInOrder
PROPERTIES BackoffHonoured OneShotHandled
CHECK_DEADLOCK FALSE
