CONSTANTS
    ann = ann
    ben = ben
    eve = eve
    Users <- MCUsers
    Listed <- MCListed
    Mentions <- MCMentions
    Nothing = Nothing
    QueueLimit = 1
    SeenLimit = 1
    HourlyLimit = 1
    MaxUnread = 1
    MaxDeliveries = 3
    MaxCrashes = 1
SPECIFICATION Spec
INVARIANTS
    ServedSound
    AskedOnce
    RecordedIsReplied
PROPERTY ServedAtLast
