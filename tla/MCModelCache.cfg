CONSTANTS
    valid1 = valid1
    valid2 = valid2
    broken = broken
    Engines = {engine1, engine2}
    Tenants = {tenant1}
    Callers = {caller1, caller2}
    Models <- AllModels
    Invalid <- Broken
    Deployments <- AllDeployments
SYMMETRY MCSymmetry
SPECIFICATION Spec
INVARIANTS
    OperationsAreFresh
    LoadIsVisible
PROPERTIES
    ActivationIsMonotone
    NotifiedInOrder
