CONSTANTS
    Campaigns = {c1}
    Chats = {h1, h2, h3}
    BatchSize = 2
    MaxTasks = 2
    MaxFaults = 1
    MaxSwitches = 1
    NoCampaign = NoCampaign
    NoChat = NoChat
SPECIFICATION FairSpec
INVARIANT TypeOK
INVARIANT MarksTellTruth
INVARIANT DraftIsQuiet
INVARIANT DoneIsComplete
INVARIANT ReportsAddUp
PROPERTY SettledStaysSettled
 
