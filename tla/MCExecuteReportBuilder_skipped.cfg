SPECIFICATION Spec
CONSTANTS
    Chains = {1}  Senders = {"s"}
    Inputs <- MCInputs
    Nonces <- MCNonces
    Settings <- MCSettings
    Costs = {1, 3}
    Conditions = {"ready"}
    MaxGases = {4}
    SecondChains = {1}
    Completeness = {TRUE}
INVARIANT NoSkippedNonces
CHECK_DEADLOCK FALSE
