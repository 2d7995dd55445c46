\* Query maps a caller builds with zero-padded decimal numbers.
CONSTANTS
    ParamInputs <- MCParamInputs
    MapInputs <- MCMapInputs
SPECIFICATION Spec
INVARIANT DecimalMapsRead
