SPECIFICATION EvaluatorsSpec
CONSTANTS
    Modes = {"inmemory", "firewall"}
    FirewallMode = "firewall"
    MaxRepeat = 2
    MaxTargets = 2
    MaxGap = 3
    Names = {"a", "b"}
    Empty = Empty
    Targets <- MCTargets
    Rules <- MCRules
    HttpRequests <- MCRequests
    h1 = h1
    h2 = h2
    Hosts = {h1, h2}
    NoAddress = NoAddress
    Nets <- MCNets
    PortLists <- MCPortLists
    MaxPort = 2
    MaxOptions = 3
    Protocols = {"tcp", "udp"}
INVARIANTS
    VerdictAsWritten
    VerdictFollowsText
