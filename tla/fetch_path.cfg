\* The default is the relay until somebody changes it.  Two changes and three
\* failures are too few for a third loop at once.
CONSTANTS
    Addons = {a1}
    Configured = "tab_relay"
    Loops = {1, 2, 3}
    MaxChanges = 2
    MaxEvents = 3
SPECIFICATION FairSpec
INVARIANTS TypeOK RelayFollowsSettings OneLoop
PROPERTIES RelayedIsTaken StoppedLoopsEnd
\* When the settings no longer change, a page that does not relay is at rest.
CHECK_DEADLOCK FALSE
