SPECIFICATION Spec
CONSTANTS
    Nodes = {n1, n2}
    Pids = {}
    None = None
    MaxAuthFailures = 1
    MaxRefresh = 1
    MaxRequests = 1
INVARIANT CredentialOfThisNode
