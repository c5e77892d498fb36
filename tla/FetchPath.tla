------------------------------ MODULE FetchPath ------------------------------
(***************************************************************************)
(* How a request for a wrapped addon gets to the addon: directly, or by    *)
(* the page of the bridge as a relay.  The settings say which              *)
(* (internal/api/handlers.go, Wrapper.fetchForAddon of                     *)
(* internal/addon/wrapper.go).  The page (ui/static/app.js) reads them     *)
(* after each change it makes, and starts or stops its polling loop to     *)
(* match; nobody tells it of changes made elsewhere.                       *)
(*                                                                         *)
(* The relay between the two is module Relay.  Here a request waits for a  *)
(* poll to take it: one of a loop of the page, or one the page has given   *)
(* up, since the bridge is not told that its client has gone.              *)
(***************************************************************************)
EXTENDS Naturals, Sequences, FiniteSets, SequencesExt

CONSTANTS
    Addons,      \* ids of the addons there may be
    Configured,  \* DEFAULT_FETCH_METHOD
    Loops,       \* bound: polling loops the page has at once
    MaxChanges,  \* bound: changes of the settings
    MaxEvents    \* bound: restarts of the bridge, and calls of the page that fail

ASSUME LoopsAssumption == Loops \subseteq Nat \ {0}
ASSUME BoundAssumption == MaxChanges \in Nat /\ MaxEvents \in Nat

(* A proxy is not used yet: what it is set for is fetched directly.        *)
GlobalMethods == {"tab_relay", "direct"}
Methods == GlobalMethods \cup {"global"}

ASSUME ConfiguredAssumption == Configured \in GlobalMethods

VARIABLES
    default,      \* Config.DefaultFetchMethod
    method,       \* method[a]: FetchMethod of addon a, "absent" if there is none
    relayActive,  \* of the page
    loop,         \* loop[l]: what relayPollLoop is doing
    controller,   \* relayAbortController: the loop it belongs to, or 0
    due,          \* the timers that will run checkRelayNeeded
    checks,       \* checkRelayNeeded, under way, in the order they were started
    waiting,      \* the addons for which a request waits in Wrapper.fetchViaRelay
    lost,         \* those of which such a poll has taken one
    orphaned,     \* HandlePending is under way for polls nobody waits for any more
    overtaken,    \* ghost: a check had its effect after one started later had
    unseen,       \* ghost: no check was made, or is due, since the last change
    strayed,      \* ghost: the relay was stopped with a loop in its back-off
    changes,      \* changes of the settings so far
    events        \* restarts and failures so far

settings == <<default, method>>
page == <<relayActive, loop, controller, strayed>>
checking == <<due, checks, overtaken, unseen>>
requests == <<waiting, lost, orphaned>>
bounds == <<changes, events>>
vars == <<settings, page, checking, requests, bounds>>

Present == {a \in Addons : method[a] # "absent"}

(* resolveEffectiveMethod, of an addon that may be gone by now; and the    *)
(* same on the page.                                                       *)
Effective(m, d) == IF m \in GlobalMethods THEN m ELSE d

(* What GET /api/addons tells about methods.                               *)
InUse == {method[a] : a \in Present}

Needed(ms, d) == \E m \in ms : Effective(m, d) = "tab_relay"

Live == {l \in Loops : loop[l] # "off"}

Polling == {l \in Loops : loop[l] = "polling"}

Init ==
    /\ default = Configured
    /\ method \in [Addons -> {"absent", "global"}]
    /\ relayActive = FALSE
    /\ loop = [l \in Loops |-> "off"]
    /\ controller = 0
    /\ due = 1
    /\ checks = <<>>
    /\ waiting = {} /\ lost = {}
    /\ orphaned = FALSE
    /\ overtaken = FALSE
    /\ unseen = FALSE
    /\ strayed = FALSE
    /\ changes = 0
    /\ events = 0

----------------------------------------------------------------------------
(* Variant: the reload of the settings after a change looks as well.       *)
Announced_Twice == due' = due + 2 /\ UNCHANGED unseen

(* Settings.  The page runs a check some time after a change of its own    *)
(* has been acknowledged; not when the reply is lost, nor after a change   *)
(* made by another client, nor when an addon is added or removed.          *)
Announced == due' = due + 1 /\ UNCHANGED unseen

Unannounced == unseen' = TRUE /\ UNCHANGED due

Changed(how) ==
    /\ changes < MaxChanges
    /\ changes' = changes + 1
    /\ how
    /\ UNCHANGED <<page, checks, overtaken, requests, events>>

(* HandleUpdateConfig: the engine and the limits of the cache, which come  *)
(* first, may be refused, and then the method is not looked at.            *)
SetDefault(m) ==
    /\ default # m
    /\ default' = m
    /\ UNCHANGED method
    /\ Changed(Announced) \/ Changed(Unannounced)

(* Variant: no check follows.                                              *)
SetMethod_Unchecked(a, m) ==
    /\ a \in Present /\ method[a] # m
    /\ method' = [method EXCEPT ![a] = m]
    /\ UNCHANGED default
    /\ Changed(UNCHANGED <<due, unseen>>) \/ Changed(Unannounced)

SetMethod(a, m) ==
    /\ a \in Present /\ method[a] # m
    /\ method' = [method EXCEPT ![a] = m]
    /\ UNCHANGED default
    /\ Changed(Announced) \/ Changed(Unannounced)

AddAddon(a) ==
    /\ a \notin Present
    /\ method' = [method EXCEPT ![a] = "global"]
    /\ UNCHANGED default
    /\ Changed(Unannounced)

RemoveAddon(a) ==
    /\ a \in Present
    /\ method' = [method EXCEPT ![a] = "absent"]
    /\ UNCHANGED default
    /\ Changed(Unannounced)

Event == events < MaxEvents /\ events' = events + 1 /\ UNCHANGED changes

(* The checks that have both their answers.                                *)
Answered == {i \in DOMAIN checks : checks[i].config # {} /\ checks[i].addons # {}}

(* The bridge is restarted, and what the page had asked it fails.  Addons  *)
(* are kept in a file, changes of the default are not.                     *)
Restart ==
    /\ Event
    /\ default' = Configured
    /\ unseen' = TRUE
    /\ waiting' = {} /\ lost' = {} /\ orphaned' = FALSE
    /\ loop' = [l \in Loops |-> IF loop[l] = "polling" THEN "backoff" ELSE loop[l]]
    /\ \E at \in [1..Cardinality(Answered) -> Answered] :
         /\ \A i, j \in DOMAIN at : i < j => at[i] < at[j]
         /\ checks' = [i \in DOMAIN at |-> checks[at[i]]]
    /\ UNCHANGED <<method, relayActive, controller, strayed, due, overtaken>>

(* The page is loaded again, and checks once it has loaded.                *)
PageLoads ==
    /\ Event
    /\ relayActive' = FALSE
    /\ loop' = [l \in Loops |-> "off"]
    /\ controller' = 0
    /\ due' = 1
    /\ checks' = <<>>
    /\ overtaken' = FALSE
    /\ unseen' = FALSE
    /\ strayed' = FALSE
    /\ orphaned' = (orphaned \/ Polling # {})
    /\ UNCHANGED <<settings, waiting, lost>>

----------------------------------------------------------------------------
(* checkRelayNeeded: two requests, answered in either order.               *)
CheckStarts ==
    /\ due > 0
    /\ due' = due - 1
    /\ checks' = Append(checks, [config |-> {}, addons |-> {}, passed |-> FALSE])
    /\ unseen' = FALSE
    /\ UNCHANGED <<settings, page, overtaken, requests, bounds>>

(* config and addons hold what has been read, if it has been.              *)
ConfigRead(i) ==
    /\ checks[i].config = {}
    /\ checks' = [checks EXCEPT ![i].config = {default}]
    /\ UNCHANGED <<settings, page, due, overtaken, unseen, requests, bounds>>

AddonsRead(i) ==
    /\ checks[i].addons = {}
    /\ checks' = [checks EXCEPT ![i].addons = {InUse}]
    /\ UNCHANGED <<settings, page, due, overtaken, unseen, requests, bounds>>

StartLoop ==
    LET l == CHOOSE k \in Loops : loop[k] = "off"
    IN  /\ Live # Loops
        /\ loop' = [loop EXCEPT ![l] = "polling"]
        /\ controller' = l

StartRelay ==
    /\ ~relayActive
    /\ relayActive' = TRUE
    /\ StartLoop
    /\ UNCHANGED <<strayed, orphaned>>

(* Variant: the poll that waits is not aborted.                            *)
StopRelay_NoAbort ==
    /\ relayActive
    /\ relayActive' = FALSE
    /\ strayed' = (strayed \/ \E l \in Loops : loop[l] = "backoff")
    /\ UNCHANGED <<loop, controller, orphaned>>

(* The abort reaches the request made last, if it still waits, and leaves  *)
(* its handler behind: a loop in its back-off is not told.                 *)
StopRelay ==
    /\ relayActive
    /\ relayActive' = FALSE
    /\ strayed' = (strayed \/ \E l \in Loops : loop[l] = "backoff")
    /\ loop' = [l \in Loops |-> IF l = controller /\ loop[l] = "polling"
                                THEN "off" ELSE loop[l]]
    /\ orphaned' = (orphaned \/ controller \in Polling)
    /\ controller' = 0

(* (passed: one started later has had its effect.)                         *)
CheckDecides(i) ==
    LET k == checks[i]
    IN  /\ k.config # {} /\ k.addons # {}
        /\ LET need == \E d \in k.config, ms \in k.addons : Needed(ms, d)
           IN  \/ need /\ StartRelay
               \/ ~need /\ StopRelay
               \/ need = relayActive /\ UNCHANGED <<page, orphaned>>
        /\ checks' = RemoveAt([j \in DOMAIN checks |->
                                 IF j < i THEN [checks[j] EXCEPT !.passed = TRUE]
                                 ELSE checks[j]], i)
        /\ overtaken' = k.passed
        /\ UNCHANGED <<settings, due, unseen, waiting, lost, bounds>>

(* One of the two requests fails; the check is not repeated.               *)
CheckFails(i) ==
    /\ Event
    /\ checks' = RemoveAt(checks, i)
    /\ unseen' = (unseen \/ (i = Len(checks) /\ ~checks[i].passed))
    /\ UNCHANGED <<settings, page, due, overtaken, requests>>

----------------------------------------------------------------------------
(* Variant: the loop looks at nothing but its own abort.                   *)
Again_Forever(l) == loop' = [loop EXCEPT ![l] = "polling"] /\ controller' = l

(* relayPollLoop.  A request that has been answered, or the end of the     *)
(* back-off, leads to another request as long as the relay is active.      *)
Again(l) ==
    IF relayActive THEN /\ loop' = [loop EXCEPT ![l] = "polling"]
                        /\ controller' = l
    ELSE loop' = [loop EXCEPT ![l] = "off"] /\ UNCHANGED controller

PollReturns(l) ==
    /\ loop[l] = "polling"
    /\ Again(l)
    /\ UNCHANGED <<relayActive, strayed, settings, checking, requests, bounds>>

(* The poll fails: its handler has ended, or the connection to it has.     *)
PollFails(l) ==
    /\ Event
    /\ loop[l] = "polling"
    /\ loop' = [loop EXCEPT ![l] = "backoff"]
    /\ orphaned' \in {orphaned, TRUE}
    /\ UNCHANGED <<relayActive, controller, strayed, settings, checking, waiting, lost>>

(* Variant: a loop whose poll failed is left to the next check.            *)
BackoffEnds_GivesUp(l) ==
    /\ loop[l] = "backoff"
    /\ loop' = [loop EXCEPT ![l] = "off"]
    /\ UNCHANGED <<relayActive, controller, strayed, settings, checking, requests, bounds>>

BackoffEnds(l) ==
    /\ loop[l] = "backoff"
    /\ Again(l)
    /\ UNCHANGED <<relayActive, strayed, settings, checking, requests, bounds>>

----------------------------------------------------------------------------
(* A request for an addon, of HandleManifest, HandleCatalog, HandleMeta or *)
(* HandleStream, whose method says the relay.  (The addon may be gone by   *)
(* now, and the default is taken.)  Those fetched directly concern nobody  *)
(* here, nor those that fetchViaRelay refuses at once because no poll has  *)
(* been seen of late: they leave no trace.                                 *)
RequestRelayed(a) ==
    /\ Effective(method[a], default) = "tab_relay"
    /\ waiting' = waiting \cup {a}
    /\ UNCHANGED <<settings, page, checking, lost, orphaned, bounds>>

(* A poll is answered with the request.                                    *)
PageTakes(l) ==
    /\ loop[l] = "polling"
    /\ \E a \in waiting : waiting' = waiting \ {a}
    /\ Again(l)
    /\ UNCHANGED <<relayActive, strayed, settings, checking, lost, orphaned, bounds>>

(* HandlePending goes on until its deadline, whoever waits for its answer, *)
(* and ends with the first request it finds.                               *)
OrphanTakes(a) ==
    /\ orphaned
    /\ a \in waiting
    /\ waiting' = waiting \ {a}
    /\ lost' = lost \cup {a}
    /\ orphaned' \in BOOLEAN
    /\ UNCHANGED <<settings, page, checking, bounds>>

OrphansEnd ==
    /\ orphaned
    /\ orphaned' = FALSE
    /\ UNCHANGED <<settings, page, checking, waiting, lost, bounds>>

(* Fetch waits for thirty seconds.  A request that a poll nobody waits for *)
(* has taken is never answered.  One that no poll took has met none: a     *)
(* poll looks when it begins and five times a second, so that one under    *)
(* way, of a loop or orphaned, would have it by now.                       *)
TimesOut(a) ==
    /\ \/ a \in lost /\ lost' = lost \ {a} /\ UNCHANGED waiting
       \/ /\ a \in waiting /\ Polling = {} /\ ~orphaned
          /\ waiting' = waiting \ {a} /\ UNCHANGED lost
    /\ UNCHANGED <<settings, page, checking, orphaned, bounds>>

CheckStep ==
    CheckStarts \/ \E i \in DOMAIN checks : \/ ConfigRead(i) \/ AddonsRead(i)
                                           \/ CheckDecides(i)

LoopStep(l) == PollReturns(l) \/ BackoffEnds(l) \/ PageTakes(l)

Next ==
    \/ \E m \in GlobalMethods : SetDefault(m)
    \/ \E a \in Addons : \/ AddAddon(a) \/ RemoveAddon(a)
                         \/ (\E m \in Methods : SetMethod(a, m))
                         \/ RequestRelayed(a) \/ OrphanTakes(a) \/ TimesOut(a)
    \/ OrphansEnd
    \/ Restart \/ PageLoads
    \/ CheckStep
    \/ \E i \in DOMAIN checks : CheckFails(i)
    \/ \E l \in Loops : LoopStep(l) \/ PollFails(l)

Spec == Init /\ [][Next]_vars

(* Timers fire, requests of the page are answered, and back-offs end.      *)
FairSpec == Spec /\ WF_vars(CheckStep) /\ \A l \in Loops : WF_vars(LoopStep(l))

----------------------------------------------------------------------------
(* The types; the controller is that of a loop that has polled.            *)
TypeOK ==
    /\ default \in GlobalMethods
    /\ method \in [Addons -> Methods \cup {"absent"}]
    /\ relayActive \in BOOLEAN
    /\ loop \in [Loops -> {"off", "polling", "backoff"}]
    /\ controller \in Loops \cup {0}
    /\ due \in 0..MaxChanges + 1
    /\ checks \in Seq([config : SUBSET GlobalMethods, addons : SUBSET SUBSET Methods,
                       passed : BOOLEAN])
    /\ waiting \subseteq Addons /\ lost \subseteq Addons
    /\ {orphaned, overtaken, unseen, strayed} \subseteq BOOLEAN
    /\ changes \in 0..MaxChanges /\ events \in 0..MaxEvents

Settled == due = 0 /\ checks = <<>> /\ ~unseen /\ ~overtaken

(* The page relays exactly when an addon is to be fetched by it, once it   *)
(* has looked: unless the last change was one it does not look after       *)
(* (somebody else's, an addon added or removed, a restart), the look       *)
(* failed, or an older one had its effect after it.  Its two requests may  *)
(* see the settings before and after a change; the check that follows the  *)
(* change puts that right.                                                 *)
RelayFollowsSettings == Settled => (relayActive <=> Needed(InUse, default))

(* The page polls in one loop at a time, as long as the relay is not       *)
(* stopped while a loop sits in its back-off (app.js:194).                 *)
OneLoop == strayed \/ Cardinality(Live) <= 1

(* A request that is to go through the page, and still should, times out   *)
(* only while the page has not caught up with the settings, or a poll of   *)
(* its has just failed; or because the handler of a poll the page had      *)
(* given up took it (relay.go:124), as it may although the page is in step *)
(* with the settings and polls.                                            *)
RelayedIsTaken ==
    [][\A a \in Addons : TimesOut(a) =>
          \/ ~Settled
          \/ a \notin Present
          \/ Effective(method[a], default) # "tab_relay"
          \/ \E l \in Loops : loop[l] = "backoff"
          \/ lost' # lost]_vars

(* Once the relay stays stopped all loops end, those too that no abort     *)
(* reached.                                                                *)
StoppedLoopsEnd == []<>relayActive \/ <>[](Live = {})
=============================================================================
