SPECIFICATION FairSpec
CONSTANTS
  r1 = r1
  i1 = i1
  i2 = i2
  None = None
  Configured = TRUE
  Runs = {r1}
  ImageOf <- MCOneRun
  Images = {i1, i2}
  TagOf <- SharedTag
  MaxAttempts = 2
  Modes = {"local", "local-network", "inmemory", "aci", "github", "github-ghcr", "firewall", "unknown"}
INVARIANTS VerdictsAreObserved LeaksAreMishaps TargetsAreKept NoStaleResult
PROPERTY AttemptsReturn
