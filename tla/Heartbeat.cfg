SPECIFICATION FairSpec
CONSTANTS
    Name = {aqi, poke}
    Check = {morning}
    Ticker = {daemon, other}
    Daemon = daemon
    MaxDrops = 2
    MaxDay = 2
    MaxRaises = 1
    MaxOdd = 1
PROPERTIES DeletesShownOrReplacing ShownOnce TriggerShown RaisedCheckShown
