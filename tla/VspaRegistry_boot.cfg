SPECIFICATION VspaSpec
CONSTANTS
    Files <- MCFiles
    BaseCaps <- MCBaseCaps
    RegMax = 2
    MaxBoots = 2
INVARIANTS
    RunningTruth
    ChannelExclusive
    ApplyCaps
PROPERTY
    BootEnds
\* A boot from an entry without its blob oopses with the registry lock held.
CHECK_DEADLOCK FALSE
