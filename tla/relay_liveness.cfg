\* One call and its answer, under the fairness of the goroutines and a restart
\* of the bridge at any step; pages may do as they like.
CONSTANTS
    Callers = {c1}
    Urls = {u1, u2}
    NoUrl = NoUrl
    Tabs = {t1}
    NoTab = NoTab
    Handlers = {h1}
    ConnWindow = 1
    PollHold = 2
    FetchTimeout = 1
    StaleAge = 2
    MaxId = 1
    MaxRestarts = 1
SPECIFICATION FairSpec
PROPERTIES FetchTerminates DisconnectNoticed
