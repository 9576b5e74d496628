SPECIFICATION Spec
CONSTANTS
    p = p
    q = q
    None = None
    Instances = {p, q}
    Deployments <- MCDeployments
    Target <- MCTarget
    Deployed <- MCDeployed
    Legacy = {a1, a2}
    Budget = 1
    MaxFaults = 2
    MaxStarts = 3
INVARIANTS
    FailoverIsWaitedOut
CHECK_DEADLOCK FALSE
