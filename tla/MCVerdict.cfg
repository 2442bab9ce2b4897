CONSTANTS
    None = None
    Descriptors <- MCDescriptors
SPECIFICATION Spec
INVARIANTS WorstFindingDecides ClearShowsCall ClearedGrantIsTokenZero DescriptorStandsForCalls
