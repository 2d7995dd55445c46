\* Another client inserts an item while GetList is between pages.
CONSTANTS
    MaxItems = 4
    InitItems = 3
    PageSize = 2
    MaxLists = 1
    MaxChanges = 1
    Outcomes = {"ok"}
    MetaKinds = {"count"}
    CallerOptions <- MCPlainOptions
    ReuseOptions = FALSE
    NilRo = NilRo
    NoParams = NoParams
SPECIFICATION Spec
INVARIANT NoDuplicateItems
