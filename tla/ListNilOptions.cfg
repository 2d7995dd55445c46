\* GetList called with a nil options object, as doWithAuth allows.
CONSTANTS
    MaxItems = 3
    InitItems = 3
    PageSize = 2
    MaxLists = 1
    MaxChanges = 0
    Outcomes = {"ok"}
    MetaKinds = {"count"}
    CallerOptions <- MCNilOptions
    ReuseOptions = FALSE
    NilRo = NilRo
    NoParams = NoParams
SPECIFICATION Spec
INVARIANT NoPanic
