\* Parameters a caller builds go to a query map and back, and query maps a
\* caller builds are read: ToMap output always reads back unchanged.
CONSTANTS
    ParamInputs <- MCParamInputs
    MapInputs <- MCMapInputs
SPECIFICATION Spec
INVARIANT ParamsRoundTrip
