SPECIFICATION HostFairSpec
CONSTANTS
    local = local
    agent = agent
    s1 = s1
    Sessions = {s1}
    Local = local
    Remotes = {agent}
    NotKnown = NotKnown
    Updaters = {"poll", "control"}
    ChannelCap = 1
    MaxOwed = 1
    MaxChanges = 2
INVARIANTS HostTypeOK QuietMeansCurrent
PROPERTIES Settles
