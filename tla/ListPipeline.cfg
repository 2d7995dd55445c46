\* Every caller option, page outcome and metadata shape, with other clients
\* changing the collection: GetList's result is the one the spec describes.
CONSTANTS
    MaxItems = 5
    InitItems = 4
    PageSize = 2
    MaxLists = 2
    MaxChanges = 2
    Outcomes = {"ok", "apierr", "err"}
    MetaKinds = {"none", "count", "nocount"}
    CallerOptions <- MCOptions
    ReuseOptions = FALSE
    NilRo = NilRo
    NoParams = NoParams
SPECIFICATION Spec
INVARIANTS TypeOK ListResult FetchesBounded
PROPERTY LoopAdvances
