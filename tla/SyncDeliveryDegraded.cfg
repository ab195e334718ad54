SPECIFICATION Spec
CONSTANTS
    Consumers = {c1}
    News = news
    vix = vix
    Sections = {news, vix}
    Snapshots = 4
    Changed <- NewsAroundVix
    Withheld <- NewsDegraded
    Triggers = {1, 3}
    Profiles = {{news, vix}}
    MaxDeliveryAttempts = 2
    AttemptBound = 3
INVARIANT
    EveryDeltaApplies
CHECK_DEADLOCK FALSE
