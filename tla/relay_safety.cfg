\* Two concurrent calls, one page whose poll may be orphaned, no restart.
CONSTANTS
    Callers = {c1, c2}
    Urls = {u1, u2}
    NoUrl = NoUrl
    Tabs = {t1}
    NoTab = NoTab
    Handlers = {h1}
    ConnWindow = 1
    PollHold = 1
    FetchTimeout = 1
    StaleAge = 2
    MaxId = 2
    MaxRestarts = 0
SPECIFICATION Spec
SYMMETRY Symmetry
INVARIANTS TypeOK HandedOutOnce AnswersMatch StaleHasTimedOut
PROPERTIES NoSilentDrop FirstAnswerWins KeepsPromise
