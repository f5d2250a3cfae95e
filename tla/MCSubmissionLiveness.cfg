SPECIFICATION LiveSpec
CONSTANTS
    Calls = {c1, c2, c3}
    Keys = {"k1", "k2"}
    Correlations = {"corr"}
    Modes = {"inmemory", "firewall"}
    DefaultMode = "inmemory"
    FirewallMode = "firewall"
    Connections = {"port 1389", "port 443"}
    Contents = {"x"}
    Urls = {"https://allowed", "https://elsewhere"}
    AllowedUrls = {"https://allowed"}
    Workflows = {"wf"}
    Signals = {"completion", "other"}
    CompletionSignal = "completion"
    Missing = ""
    Submissions <- Contenders
    NoSubmission = NoSubmission
    NoCall = NoCall
CHECK_DEADLOCK FALSE
PROPERTIES
    HandlersReturn
