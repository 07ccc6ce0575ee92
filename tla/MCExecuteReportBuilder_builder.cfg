SPECIFICATION Spec
CONSTANTS
    Chains = {1, 2}  Senders = {"s"}
    Inputs <- MCInputs
    Nonces <- MCNonces
    Settings <- MCSettings
    Costs = {1, 3}
    Conditions = {"ready", "deleted", "waiting", "executed"}
    MaxGases = {2, 4}
    SecondChains = {1, 2}
    Completeness = {TRUE, FALSE}
INVARIANTS WithinLimits EachMessageOnce NoncesGrow SomethingSelected EverythingSelected
CHECK_DEADLOCK FALSE
