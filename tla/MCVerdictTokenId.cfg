CONSTANTS
    None = None
    Descriptors <- MCDescriptors
SPECIFICATION Spec
INVARIANTS TokenIdIsNoAllowance
