SPECIFICATION FairSpec
CONSTANTS
    SlotCount = 4
    Legacy = {1}
    MaxFaults = 6
INVARIANTS ReadyOwnsJournal NeverBricked
PROPERTIES DestructionIsFinal DestructionCompletes
CHECK_DEADLOCK FALSE
