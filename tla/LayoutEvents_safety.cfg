SPECIFICATION Spec
CONSTANTS
    Tree <- Family
    Parent <- FamilyParent
    None = None
    Handlers <- FamilyHandlers
INVARIANTS SizeReported
PROPERTIES DrainProtocol
CHECK_DEADLOCK FALSE
