\* Three references of two priorities in banks of two objects.
\* The system stops when the content is synchronised.
CONSTANTS
    Refs = {"a", "b", "c"}
    Priority <- OneImportant
    Capacity = 2
    SafeCapacity = 2
    Bursts = 2
    ErasedSeq = 7
    MaxSets = 3
    MaxRestarts = 1
    MaxFaults = 1
SPECIFICATION Spec
INVARIANTS TypeOK FlagsAgree LiveBankBoots
PROPERTIES IdleMeansSaved ImplementsStore Synchronises
CHECK_DEADLOCK FALSE
