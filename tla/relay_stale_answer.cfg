\* A page that goes on working across a restart of the bridge.
CONSTANTS
    Callers = {c1}
    Urls = {u1, u2}
    NoUrl = NoUrl
    Tabs = {t1}
    NoTab = NoTab
    Handlers = {h1}
    ConnWindow = 1
    PollHold = 1
    FetchTimeout = 1
    StaleAge = 2
    MaxId = 1
    MaxRestarts = 1
SPECIFICATION Spec
INVARIANTS FetchReturnsItsUrl
