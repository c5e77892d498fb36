-------------------------- MODULE FetchPathProofs --------------------------
(***************************************************************************)
(* How many polling loops the page has, when it relays and what becomes of *)
(* the requests that wait for it, for any number of loops it could have,   *)
(* of addons, changes of the settings, restarts and failures.              *)
(***************************************************************************)
EXTENDS FetchPath, FiniteSetTheorems, SequenceTheorems, TLAPS

(* A page that relays has one loop, which the controller reaches while it  *)
(* polls; one that does not has none.                                      *)
LoopMatches ==
    IF relayActive
    THEN \E l \in Loops : Live = {l} /\ (loop[l] = "polling" => controller = l)
    ELSE Live = {}

LoopsInv ==
    /\ relayActive \in BOOLEAN /\ strayed \in BOOLEAN
    /\ loop \in [Loops -> {"off", "polling", "backoff"}]
    /\ strayed \/ LoopMatches

----------------------------------------------------------------------------
(* The four things that happen to the page.                                *)
LEMMA StartStep ==
    ASSUME LoopsInv, StartRelay
    PROVE  LoopsInv'
<1>1. PICK l \in Loops : /\ loop[l] = "off"
                         /\ loop' = [loop EXCEPT ![l] = "polling"] /\ controller' = l
  <2>1. \E k \in Loops : loop[k] = "off"
    BY DEF StartRelay, StartLoop, Live
  <2> QED
    BY <2>1 DEF StartRelay, StartLoop
<1>2. loop' \in [Loops -> {"off", "polling", "backoff"}]
  BY <1>1 DEF LoopsInv
<1>3. ASSUME LoopMatches
      PROVE  LoopMatches'
  <2>1. Live = {}
    BY <1>3 DEF LoopMatches, StartRelay
  <2>2. Live' = {l}
    BY <1>1, <2>1 DEF LoopsInv, Live
  <2> QED
    BY <1>1, <2>2 DEF LoopMatches, StartRelay
<1> QED
  BY <1>2, <1>3 DEF LoopsInv, StartRelay

(* The abort ends the only loop, unless it sits in its back-off.           *)
LEMMA StopStep ==
    ASSUME LoopsInv, StopRelay
    PROVE  LoopsInv'
<1>1. loop' \in [Loops -> {"off", "polling", "backoff"}]
  BY DEF LoopsInv, StopRelay
<1>2. ASSUME ~strayed'
      PROVE  LoopMatches'
  <2>1. ~strayed /\ \A k \in Loops : loop[k] # "backoff"
    BY <1>2 DEF StopRelay, LoopsInv
  <2>2. PICK l \in Loops : Live = {l} /\ (loop[l] = "polling" => controller = l)
    BY <2>1 DEF LoopsInv, LoopMatches, StopRelay
  <2>3. loop[l] = "polling" /\ controller = l
    BY <2>1, <2>2 DEF LoopsInv, Live
  <2>4. \A k \in Loops : loop'[k] = "off"
    BY <2>2, <2>3 DEF LoopsInv, Live, StopRelay
  <2> QED
    BY <2>4 DEF LoopMatches, Live, StopRelay
<1> QED
  BY <1>1, <1>2 DEF LoopsInv, StopRelay

(* A loop that goes on is the one there was.                               *)
LEMMA AgainStep ==
    ASSUME LoopsInv, NEW l \in Loops, loop[l] # "off", Again(l),
           UNCHANGED <<relayActive, strayed>>
    PROVE  LoopsInv'
<1>1. loop' \in [Loops -> {"off", "polling", "backoff"}]
  BY DEF LoopsInv, Again
<1>2. ASSUME LoopMatches
      PROVE  LoopMatches'
  <2>1. relayActive /\ Live = {l}
    BY <1>2 DEF LoopMatches, Live
  <2>2. loop' = [loop EXCEPT ![l] = "polling"] /\ controller' = l
    BY <2>1 DEF Again
  <2>3. Live' = {l}
    BY <2>1, <2>2 DEF LoopsInv, Live
  <2> QED
    BY <2>1, <2>2, <2>3 DEF LoopMatches
<1> QED
  BY <1>1, <1>2 DEF LoopsInv

(* Polls that fail, one or all, leave their loops in the back-off.         *)
LEMMA FailStep ==
    ASSUME LoopsInv, NEW S \in SUBSET {l \in Loops : loop[l] = "polling"},
           loop' = [l \in Loops |-> IF l \in S THEN "backoff" ELSE loop[l]],
           UNCHANGED <<relayActive, controller, strayed>>
    PROVE  LoopsInv'
<1>1. loop' \in [Loops -> {"off", "polling", "backoff"}]
  BY DEF LoopsInv
<1>2. Live' = Live /\ \A l \in Loops : loop'[l] = "polling" => loop[l] = "polling"
  BY DEF Live
<1> QED
  BY <1>1, <1>2 DEF LoopsInv, LoopMatches

(* What becomes of the requests leaves all else as it is.                  *)
RequestStep ==
    OrphansEnd \/ \E a \in Addons : RequestRelayed(a) \/ OrphanTakes(a) \/ TimesOut(a)

LEMMA RequestsAlone ==
    ASSUME RequestStep
    PROVE  UNCHANGED <<settings, page, checking, bounds>>
BY DEF RequestStep, OrphansEnd, RequestRelayed, OrphanTakes, TimesOut

----------------------------------------------------------------------------
(* No page has been loaded yet that relays.                                *)
LEMMA InitLoops == Init => LoopsInv
BY DEF Init, LoopsInv, LoopMatches, Live

(* Every step keeps the loops matched.                                     *)
LEMMA NextLoops == LoopsInv /\ [Next]_vars => LoopsInv'
<1> SUFFICES ASSUME LoopsInv, [Next]_vars PROVE LoopsInv'
  OBVIOUS
<1>1. ASSUME UNCHANGED page PROVE LoopsInv'
  BY <1>1 DEF page, LoopsInv, LoopMatches, Live
<1>2. CASE UNCHANGED vars
  BY <1>1, <1>2 DEF vars
<1>3. CASE \E m \in GlobalMethods : SetDefault(m)
  BY <1>1, <1>3 DEF SetDefault, Changed
<1>4. ASSUME NEW a \in Addons,
             \/ AddAddon(a) \/ RemoveAddon(a) \/ (\E m \in Methods : SetMethod(a, m))
      PROVE  LoopsInv'
  BY <1>1, <1>4 DEF AddAddon, RemoveAddon, SetMethod, Changed
<1>5. CASE Restart
  <2> DEFINE S == {l \in Loops : loop[l] = "polling"}
  <2>1. loop' = [l \in Loops |-> IF l \in S THEN "backoff" ELSE loop[l]]
    BY <1>5 DEF Restart
  <2> QED
    BY <1>5, <2>1, FailStep DEF Restart
<1>6. CASE PageLoads
  BY <1>6 DEF PageLoads, LoopsInv, LoopMatches, Live
<1>7. CASE CheckStarts
  BY <1>1, <1>7 DEF CheckStarts
<1>8. ASSUME NEW i \in DOMAIN checks, ConfigRead(i) \/ AddonsRead(i) \/ CheckFails(i)
      PROVE  LoopsInv'
  BY <1>1, <1>8 DEF ConfigRead, AddonsRead, CheckFails
<1>9. ASSUME NEW i \in DOMAIN checks, CheckDecides(i)
      PROVE  LoopsInv'
  <2>1. StartRelay \/ StopRelay \/ UNCHANGED page
    BY <1>9 DEF CheckDecides
  <2> QED
    BY <1>1, <2>1, StartStep, StopStep
<1>10. ASSUME NEW l \in Loops, PollReturns(l) \/ BackoffEnds(l) \/ PageTakes(l)
       PROVE  LoopsInv'
  <2>1. loop[l] # "off" /\ Again(l) /\ UNCHANGED <<relayActive, strayed>>
    BY <1>10 DEF PollReturns, BackoffEnds, PageTakes
  <2> QED
    BY <2>1, AgainStep
<1>11. ASSUME NEW l \in Loops, PollFails(l)
       PROVE  LoopsInv'
  <2>1. {l} \in SUBSET {k \in Loops : loop[k] = "polling"}
    BY <1>11 DEF PollFails
  <2>2. loop' = [k \in Loops |-> IF k \in {l} THEN "backoff" ELSE loop[k]]
    BY <1>11 DEF PollFails, LoopsInv
  <2> QED
    BY <1>11, <2>1, <2>2, FailStep DEF PollFails
<1>12. CASE RequestStep
  BY <1>1, <1>12, RequestsAlone
<1> QED
  BY <1>2, <1>3, <1>4, <1>5, <1>6, <1>7, <1>8, <1>9, <1>10, <1>11, <1>12
  DEF Next, CheckStep, LoopStep, RequestStep

----------------------------------------------------------------------------
CheckType == [config : SUBSET GlobalMethods, addons : SUBSET SUBSET Methods,
              passed : BOOLEAN]

SettingsOK == default \in GlobalMethods /\ method \in [Addons -> Methods \cup {"absent"}]

ChecksOK == due \in 0..changes + 1 /\ checks \in Seq(CheckType)

(* The inductive invariant of the types: no more checks are due than there *)
(* were changes, and one for the page.                                     *)
Typed ==
    /\ LoopsInv
    /\ SettingsOK
    /\ ChecksOK
    /\ controller \in Loops \cup {0}
    /\ waiting \subseteq Addons /\ lost \subseteq Addons /\ orphaned \in BOOLEAN
    /\ overtaken \in BOOLEAN /\ unseen \in BOOLEAN
    /\ changes \in 0..MaxChanges /\ events \in 0..MaxEvents

(* What is left of a sequence when one element is taken out.               *)
LEMMA RemoveAtProperties ==
    ASSUME NEW S, NEW s \in Seq(S), NEW i \in 1..Len(s)
    PROVE  /\ RemoveAt(s, i) \in Seq(S)
           /\ Len(RemoveAt(s, i)) = Len(s) - 1
           /\ \A j \in 1..(Len(s) - 1) :
                RemoveAt(s, i)[j] = IF j < i THEN s[j] ELSE s[j + 1]
<1> DEFINE front == SubSeq(s, 1, i - 1)
           back == SubSeq(s, i + 1, Len(s))
<1>1. front \in Seq(S) /\ Len(front) = i - 1 /\ \A j \in 1..(i - 1) : front[j] = s[j]
  BY SubSeqProperties
<1>2. /\ back \in Seq(S) /\ Len(back) = Len(s) - i
      /\ \A j \in 1..(Len(s) - i) : back[j] = s[i + j]
  BY SubSeqProperties
<1>3. RemoveAt(s, i) = front \o back
  BY DEF RemoveAt
<1> HIDE DEF front, back
<1>4. /\ front \o back \in Seq(S)
      /\ Len(front \o back) = Len(front) + Len(back)
      /\ \A j \in 1..(Len(front) + Len(back)) :
           (front \o back)[j] = IF j <= Len(front) THEN front[j]
                                ELSE back[j - Len(front)]
  BY <1>1, <1>2, ConcatProperties
<1> QED
  BY <1>1, <1>2, <1>3, <1>4

(* The checks, those before number i with the mark that it has overtaken   *)
(* them.                                                                   *)
Marked(i) == [j \in DOMAIN checks |->
                IF j < i THEN [checks[j] EXCEPT !.passed = TRUE] ELSE checks[j]]

(* Marking overtaken checks changes no other, and unmarks none.            *)
LEMMA MarkedProperties ==
    ASSUME checks \in Seq(CheckType), NEW i \in DOMAIN checks
    PROVE  /\ Marked(i) \in Seq(CheckType)
           /\ Len(Marked(i)) = Len(checks)
           /\ \A j \in DOMAIN checks :
                /\ j < i => Marked(i)[j].passed
                /\ checks[j].passed => Marked(i)[j].passed
                /\ j > i => Marked(i)[j] = checks[j]
<1>1. DOMAIN checks = 1..Len(checks) /\ Len(checks) \in Nat
  OBVIOUS
<1>2. \A j \in DOMAIN checks : checks[j] \in CheckType
  OBVIOUS
<1>3. \A j \in DOMAIN checks : /\ [checks[j] EXCEPT !.passed = TRUE] \in CheckType
                               /\ [checks[j] EXCEPT !.passed = TRUE].passed = TRUE
  BY <1>2 DEF CheckType
<1>4. \A j \in DOMAIN checks : Marked(i)[j] \in CheckType
  BY <1>2, <1>3 DEF Marked
<1>5. /\ Marked(i) \in Seq(CheckType)
      /\ Len(Marked(i)) = Len(checks)
  <2>1. DOMAIN Marked(i) = 1..Len(checks)
    BY <1>1 DEF Marked
  <2>2. Marked(i) \in [1..Len(checks) -> CheckType]
    BY <1>4, <2>1 DEF Marked
  <2> QED
    BY <1>1, <2>1, <2>2
<1> QED
  BY <1>1, <1>3, <1>5 DEF Marked

(* Every step keeps the types of the checks.                               *)
LEMMA ChecksStep ==
    ASSUME Typed, [Next]_vars
    PROVE  ChecksOK'
<1> USE DEF ChecksOK, Typed
<1>1. ASSUME UNCHANGED <<due, checks, changes>> PROVE ChecksOK'
  BY <1>1
<1>3. CASE \E m \in GlobalMethods : SetDefault(m)
  BY <1>3, BoundAssumption DEF SetDefault, Changed, Announced, Unannounced
<1>4. ASSUME NEW a \in Addons,
             \/ AddAddon(a) \/ RemoveAddon(a) \/ (\E m \in Methods : SetMethod(a, m))
      PROVE  ChecksOK'
  BY <1>4, BoundAssumption
  DEF AddAddon, RemoveAddon, SetMethod, Changed, Announced, Unannounced
<1>5. CASE RequestStep
  BY <1>1, <1>5, RequestsAlone DEF checking, bounds
<1>6. CASE Restart
  <2>1. PICK at \in [1..Cardinality(Answered) -> Answered] :
            checks' = [i \in DOMAIN at |-> checks[at[i]]]
    BY <1>6 DEF Restart
  <2>2. Cardinality(Answered) \in Nat
    <3>1. IsFiniteSet(DOMAIN checks)
      BY FS_Interval
    <3>2. IsFiniteSet(Answered)
      BY <3>1, FS_Subset DEF Answered
    <3> QED
      BY <3>2, FS_CardinalityType
  <2>3. \A i \in Answered : checks[i] \in CheckType
    BY DEF Answered
  <2>4. checks' \in Seq(CheckType)
    <3> DEFINE n == Cardinality(Answered)
    <3>1. DOMAIN at = 1..n /\ \A i \in 1..n : checks[at[i]] \in CheckType
      BY <2>1, <2>3
    <3>2. checks' = [i \in 1..n |-> checks[at[i]]]
      BY <2>1, <3>1
    <3> HIDE DEF n
    <3>3. checks' \in [1..n -> CheckType]
      BY <3>1, <3>2
    <3>4. n \in Nat
      BY <2>2 DEF n
    <3> QED
      BY <3>3, <3>4
  <2> QED
    BY <1>6, <2>4 DEF Restart, Event
<1>7. CASE PageLoads
  BY <1>7, BoundAssumption DEF PageLoads, Event
<1>8. CASE CheckStarts
  <2>1. [config |-> {}, addons |-> {}, passed |-> FALSE] \in CheckType
    BY DEF CheckType
  <2>2. checks' \in Seq(CheckType)
    BY <1>8, <2>1 DEF CheckStarts
  <2> QED
    BY <1>8, <2>2, BoundAssumption DEF CheckStarts, bounds
<1>9. ASSUME NEW i \in DOMAIN checks, ConfigRead(i) \/ AddonsRead(i) PROVE ChecksOK'
  <2>1. checks[i] \in CheckType
    OBVIOUS
  <2>2. InUse \subseteq Methods /\ default \in GlobalMethods
    BY DEF SettingsOK, InUse, Present
  <2>3. /\ [checks[i] EXCEPT !.config = {default}] \in CheckType
        /\ [checks[i] EXCEPT !.addons = {InUse}] \in CheckType
    BY <2>1, <2>2 DEF CheckType
  <2>4. \E c \in CheckType : checks' = [checks EXCEPT ![i] = c]
    BY <1>9, <2>3 DEF ConfigRead, AddonsRead
  <2>5. checks' \in Seq(CheckType)
    BY <2>4
  <2> QED
    BY <1>9, <2>5 DEF ConfigRead, AddonsRead, bounds
<1>10. ASSUME NEW i \in DOMAIN checks, CheckDecides(i) PROVE ChecksOK'
  <2>1. checks' = RemoveAt(Marked(i), i)
    BY <1>10 DEF CheckDecides, Marked
  <2>2. Marked(i) \in Seq(CheckType) /\ i \in 1..Len(Marked(i))
    BY MarkedProperties
  <2>3. checks' \in Seq(CheckType)
    BY <2>1, <2>2, RemoveAtProperties
  <2> QED
    BY <1>10, <2>3 DEF CheckDecides, bounds
<1>11. ASSUME NEW i \in DOMAIN checks, CheckFails(i) PROVE ChecksOK'
  <2>1. checks' \in Seq(CheckType)
    BY <1>11, RemoveAtProperties DEF CheckFails
  <2> QED
    BY <1>11, <2>1 DEF CheckFails, Event
<1>12. ASSUME NEW l \in Loops, LoopStep(l) \/ PollFails(l) PROVE ChecksOK'
  BY <1>1, <1>12
  DEF LoopStep, PollReturns, BackoffEnds, PageTakes, PollFails, Event, checking, bounds
<1>13. CASE UNCHANGED vars
  BY <1>1, <1>13 DEF vars, checking, bounds
<1> QED
  BY <1>3, <1>4, <1>5, <1>6, <1>7, <1>8, <1>9, <1>10, <1>11, <1>12, <1>13
  DEF Next, CheckStep, RequestStep

(* The types of what is left; every step keeps them.                       *)
RestOK ==
    /\ controller \in Loops \cup {0}
    /\ waiting \subseteq Addons /\ lost \subseteq Addons /\ orphaned \in BOOLEAN
    /\ overtaken \in BOOLEAN /\ unseen \in BOOLEAN
    /\ changes \in 0..MaxChanges /\ events \in 0..MaxEvents

(* Every step keeps the types of the variables that count or flag.         *)
LEMMA RestStep ==
    ASSUME Typed, [Next]_vars
    PROVE  RestOK'
<1> USE DEF Typed
<1>1. RestOK
  BY DEF RestOK
<1>2. ASSUME changes < MaxChanges, changes' = changes + 1, unseen' \in {unseen, TRUE},
             UNCHANGED <<controller, requests, overtaken, events>>
      PROVE  RestOK'
  <2>1. changes' \in 0..MaxChanges
    BY <1>2, BoundAssumption
  <2> QED
    BY <1>1, <1>2, <2>1 DEF RestOK, requests
<1>3. ASSUME \/ \E m \in GlobalMethods : SetDefault(m)
             \/ \E a \in Addons : \/ AddAddon(a) \/ RemoveAddon(a)
                                  \/ \E m \in Methods : SetMethod(a, m)
      PROVE  RestOK'
  BY <1>2, <1>3
  DEF AddAddon, RemoveAddon, SetMethod, SetDefault, Changed, Announced, Unannounced,
      page
<1>4. CASE RequestStep
  <2>1. waiting' \subseteq Addons /\ lost' \subseteq Addons /\ orphaned' \in BOOLEAN
    BY <1>1, <1>4 DEF RequestStep, OrphansEnd, RequestRelayed, OrphanTakes, TimesOut, RestOK
  <2> QED
    BY <1>1, <1>4, <2>1, RequestsAlone DEF page, checking, bounds, RestOK
<1>5. CASE Restart \/ PageLoads
  <2>1. events' \in 0..MaxEvents /\ UNCHANGED changes
    BY <1>1, <1>5, BoundAssumption DEF Restart, PageLoads, Event, RestOK
  <2> QED
    BY <1>1, <1>5, <2>1 DEF Restart, PageLoads, RestOK
<1>6. CASE CheckStarts
  BY <1>1, <1>6 DEF CheckStarts, page, bounds, requests, RestOK
<1>7. ASSUME NEW i \in DOMAIN checks, ConfigRead(i) \/ AddonsRead(i) PROVE RestOK'
  BY <1>1, <1>7 DEF ConfigRead, AddonsRead, page, bounds, requests, RestOK
<1>8. ASSUME NEW i \in DOMAIN checks, CheckDecides(i) PROVE RestOK'
  <2>1. checks[i] \in CheckType
    BY DEF ChecksOK
  <2>2. overtaken' \in BOOLEAN /\ UNCHANGED <<unseen, waiting, lost, changes, events>>
    BY <1>8, <2>1 DEF CheckDecides, CheckType, bounds
  <2>3. controller' \in Loops \cup {0}
    <3>1. CASE StartRelay
      <4>1. \E k \in Loops : loop[k] = "off"
        BY <3>1 DEF StartRelay, StartLoop, Live
      <4> QED
        BY <3>1, <4>1 DEF StartRelay, StartLoop
    <3>2. CASE StopRelay \/ UNCHANGED page
      BY <3>2 DEF StopRelay, page
    <3> QED
      BY <1>8, <3>1, <3>2 DEF CheckDecides
  <2>4. orphaned' \in BOOLEAN
    <3>1. (orphaned \/ controller \in Polling) \in BOOLEAN
      OBVIOUS
    <3> QED
      BY <1>1, <1>8, <3>1 DEF CheckDecides, StartRelay, StopRelay, RestOK
  <2> QED
    BY <1>1, <2>2, <2>3, <2>4 DEF RestOK
<1>9. ASSUME NEW i \in DOMAIN checks, CheckFails(i) PROVE RestOK'
  <2>1. checks[i] \in CheckType
    BY DEF ChecksOK
  <2>2. unseen' \in BOOLEAN
    BY <1>9 DEF CheckFails
  <2> QED
    BY <1>1, <1>9, <2>2, BoundAssumption DEF CheckFails, Event, page, requests, RestOK
<1>10. ASSUME NEW l \in Loops, LoopStep(l) \/ PollFails(l) PROVE RestOK'
  <2>1. /\ controller' \in {controller, l} /\ UNCHANGED <<overtaken, unseen, changes, lost>>
        /\ waiting' \subseteq waiting /\ orphaned' \in {orphaned, TRUE}
        /\ UNCHANGED events \/ Event
    BY <1>10 DEF LoopStep, PollReturns, BackoffEnds, PageTakes, PollFails, Again, Event,
                 checking, bounds, requests
  <2>2. events' \in 0..MaxEvents
    BY <1>1, <2>1, BoundAssumption DEF RestOK, Event
  <2> QED
    BY <1>1, <2>1, <2>2 DEF RestOK
<1>11. CASE UNCHANGED vars
  BY <1>1, <1>11 DEF vars, page, checking, bounds, requests, RestOK
<1> QED
  BY <1>3, <1>4, <1>5, <1>6, <1>7, <1>8, <1>9, <1>10, <1>11
  DEF Next, CheckStep, RequestStep

(* Every step keeps the types.                                             *)
LEMMA TypeStep ==
    ASSUME Typed, [Next]_vars
    PROVE  Typed'
<1>1. LoopsInv' /\ ChecksOK' /\ RestOK'
  BY NextLoops, ChecksStep, RestStep DEF Typed
<1>2. SettingsOK'
  BY ConfiguredAssumption
  DEF Typed, SettingsOK, Next, vars, settings, SetDefault, AddAddon, RemoveAddon,
      SetMethod, RequestRelayed, OrphanTakes, OrphansEnd, TimesOut, Restart, PageLoads, CheckStep, CheckStarts,
      ConfigRead, AddonsRead, CheckDecides, CheckFails, LoopStep, PollReturns,
      BackoffEnds, PageTakes, PollFails, Methods
<1> QED
  BY <1>1, <1>2 DEF Typed, RestOK

----------------------------------------------------------------------------
(* The check started last knows the settings as they are, as far as it has *)
(* read them, and is to have its effect after all others.                  *)
LastIsCurrent ==
    /\ checks # <<>>
    /\ LET last == checks[Len(checks)]
       IN  /\ ~last.passed
           /\ last.config \subseteq {default}
           /\ last.addons \subseteq {InUse}

(* It has had its effect, and those still under way were overtaken by it.  *)
LastIsDone ==
    /\ \A i \in DOMAIN checks : checks[i].passed
    /\ overtaken \/ (relayActive <=> Needed(InUse, default))

(* Once no check is due or missing, one of the two holds.                  *)
Follows == due = 0 /\ ~unseen => LastIsCurrent \/ LastIsDone

(* A page that relays has a loop, whatever was stopped when.               *)
ActiveHasLoop == relayActive => Live # {}

(* Every step keeps the page in step with the settings.                    *)
LEMMA FollowsStep ==
    ASSUME Typed, Follows, [Next]_vars
    PROVE  Follows'
<1> USE DEF Typed, ChecksOK
<1>0. UNCHANGED settings => InUse' = InUse
  BY DEF settings, InUse, Present
<1>1. ASSUME UNCHANGED <<settings, relayActive, due, checks, overtaken, unseen>>
      PROVE  Follows'
  BY <1>0, <1>1 DEF Follows, LastIsCurrent, LastIsDone, Needed, Effective, settings
<1>2. ASSUME due' # 0 \/ unseen' PROVE Follows'
  BY <1>2 DEF Follows
<1>3. CASE \E m \in GlobalMethods : SetDefault(m)
  BY <1>2, <1>3 DEF SetDefault, Changed, Announced, Unannounced
<1>4. ASSUME NEW a \in Addons,
             \/ AddAddon(a) \/ RemoveAddon(a) \/ (\E m \in Methods : SetMethod(a, m))
      PROVE  Follows'
  BY <1>2, <1>4
  DEF AddAddon, RemoveAddon, SetMethod, Changed, Announced, Unannounced
<1>5. CASE RequestStep
  BY <1>1, <1>5, RequestsAlone DEF page, checking
<1>6. CASE Restart \/ PageLoads
  BY <1>2, <1>6 DEF Restart, PageLoads
<1>7. CASE CheckStarts
  <2>1. /\ checks' # <<>>
        /\ checks'[Len(checks')] = [config |-> {}, addons |-> {}, passed |-> FALSE]
    BY <1>7 DEF CheckStarts
  <2> QED
    BY <2>1 DEF Follows, LastIsCurrent
<1>8. ASSUME NEW i \in DOMAIN checks, ConfigRead(i) \/ AddonsRead(i) PROVE Follows'
  <2>1. UNCHANGED <<settings, relayActive, due, overtaken, unseen>>
    BY <1>8 DEF ConfigRead, AddonsRead, page
  <2>2. \A j \in DOMAIN checks : checks[j] \in CheckType
    OBVIOUS
  <2>3. /\ DOMAIN checks' = DOMAIN checks /\ Len(checks') = Len(checks)
        /\ checks # <<>> <=> checks' # <<>>
        /\ \A j \in DOMAIN checks :
             /\ checks'[j].passed = checks[j].passed
             /\ checks'[j].config = checks[j].config \/ checks'[j].config = {default}
             /\ checks'[j].addons = checks[j].addons \/ checks'[j].addons = {InUse}
    <3>1. CASE ConfigRead(i)
      BY <2>2, <3>1 DEF ConfigRead, CheckType
    <3>2. CASE AddonsRead(i)
      BY <2>2, <3>2 DEF AddonsRead, CheckType
    <3> QED
      BY <1>8, <3>1, <3>2
  <2> QED
    BY <1>0, <2>1, <2>3
    DEF Follows, LastIsCurrent, LastIsDone, Needed, Effective, settings
<1>9. ASSUME NEW i \in DOMAIN checks, CheckFails(i) PROVE Follows'
  <2>1. /\ UNCHANGED <<settings, relayActive, due, overtaken>>
        /\ unseen' = (unseen \/ (i = Len(checks) /\ ~checks[i].passed))
    BY <1>9 DEF CheckFails, page
  <2>2. /\ Len(checks') = Len(checks) - 1
        /\ \A j \in 1..(Len(checks) - 1) :
             checks'[j] = IF j < i THEN checks[j] ELSE checks[j + 1]
    <3>1. i \in 1..Len(checks) /\ checks' = RemoveAt(checks, i)
      BY <1>9 DEF CheckFails
    <3> QED
      BY <3>1, RemoveAtProperties
  <2>3. DOMAIN checks = 1..Len(checks) /\ DOMAIN checks' = 1..(Len(checks) - 1)
    <3>1. checks' \in Seq(CheckType)
      BY ChecksStep
    <3> QED
      BY <2>2, <3>1
  <2> SUFFICES ASSUME due = 0, ~unseen, ~(i = Len(checks) /\ ~checks[i].passed)
               PROVE  LastIsCurrent' \/ LastIsDone'
    BY <2>1 DEF Follows
  <2>4. CASE LastIsDone
    <3>1. \A j \in DOMAIN checks' : checks'[j].passed
      <4>1. ASSUME NEW j \in DOMAIN checks'
            PROVE  /\ j \in DOMAIN checks /\ j + 1 \in DOMAIN checks
                   /\ checks'[j] \in {checks[j], checks[j + 1]}
        BY <2>2, <2>3
      <4> QED
        BY <2>4, <4>1 DEF LastIsDone
    <3> QED
      BY <1>0, <2>1, <2>4, <3>1 DEF LastIsDone, Needed, Effective, settings
  <2>5. CASE LastIsCurrent
    <3>1. i < Len(checks)
      BY <2>3, <2>5 DEF LastIsCurrent
    <3>2. checks' # <<>> /\ checks'[Len(checks')] = checks[Len(checks)]
      BY <2>2, <2>3, <3>1
    <3> QED
      BY <1>0, <2>1, <2>5, <3>2 DEF LastIsCurrent, settings
  <2> QED
    BY <2>4, <2>5 DEF Follows
<1>10. ASSUME NEW i \in DOMAIN checks, CheckDecides(i) PROVE Follows'
  <2> DEFINE need == \E d \in checks[i].config, ms \in checks[i].addons : Needed(ms, d)
  <2>1. /\ UNCHANGED <<settings, due, unseen>>
        /\ checks[i].config # {} /\ checks[i].addons # {}
        /\ overtaken' = checks[i].passed
        /\ checks' = RemoveAt(Marked(i), i)
    BY <1>10 DEF CheckDecides, Marked
  <2>2. relayActive' = need
    BY <1>10 DEF CheckDecides, StartRelay, StopRelay, page, LoopsInv
  <2> HIDE DEF need
  <2>3. /\ Marked(i) \in Seq(CheckType)
        /\ Len(Marked(i)) = Len(checks)
        /\ \A j \in DOMAIN checks :
             /\ j < i => Marked(i)[j].passed
             /\ checks[j].passed => Marked(i)[j].passed
             /\ j > i => Marked(i)[j] = checks[j]
    BY MarkedProperties
  <2>4. /\ Len(checks') = Len(checks) - 1
        /\ \A j \in 1..(Len(checks) - 1) :
             checks'[j] = IF j < i THEN Marked(i)[j] ELSE Marked(i)[j + 1]
    <3>1. i \in 1..Len(Marked(i))
      BY <2>3
    <3> QED
      BY <2>1, <2>3, <3>1, RemoveAtProperties
  <2>5. DOMAIN checks = 1..Len(checks) /\ DOMAIN checks' = 1..(Len(checks) - 1)
    <3>1. checks' \in Seq(CheckType)
      BY ChecksStep
    <3> QED
      BY <2>4, <3>1
  <2> SUFFICES ASSUME due = 0, ~unseen PROVE LastIsCurrent' \/ LastIsDone'
    BY <2>1 DEF Follows
  <2>6. CASE LastIsDone
    <3>1. overtaken'
      BY <2>1, <2>6 DEF LastIsDone
    <3>2. \A j \in DOMAIN checks : checks[j].passed /\ Marked(i)[j].passed
      BY <2>3, <2>6 DEF LastIsDone
    <3>3. ASSUME NEW j \in DOMAIN checks' PROVE checks'[j].passed
      <4>1. j \in DOMAIN checks /\ j + 1 \in DOMAIN checks
        BY <2>5
      <4> QED
        BY <2>4, <2>5, <3>2, <4>1
    <3> QED
      BY <3>1, <3>3 DEF LastIsDone
  <2>7. CASE LastIsCurrent /\ i = Len(checks)
    <3>1. ASSUME NEW j \in DOMAIN checks' PROVE checks'[j].passed
      <4>1. j \in DOMAIN checks /\ j < i /\ j \in 1..(Len(checks) - 1)
        BY <2>5, <2>7
      <4>2. checks'[j] = Marked(i)[j]
        BY <2>4, <4>1
      <4> QED
        BY <2>3, <4>1, <4>2
    <3>2. checks[i].config = {default} /\ checks[i].addons = {InUse}
      BY <2>1, <2>7 DEF LastIsCurrent
    <3>3. need <=> Needed(InUse, default)
      BY <3>2 DEF need
    <3> QED
      BY <1>0, <2>1, <2>2, <3>1, <3>3 DEF LastIsDone, Needed, Effective, settings
  <2>8. CASE LastIsCurrent /\ i # Len(checks)
    <3>1. i < Len(checks)
      BY <2>5, <2>8
    <3>2. checks' # <<>> /\ checks'[Len(checks')] = checks[Len(checks)]
      BY <2>3, <2>4, <2>5, <3>1
    <3> QED
      BY <1>0, <2>1, <2>8, <3>2 DEF LastIsCurrent, settings
  <2> QED
    BY <2>6, <2>7, <2>8 DEF Follows
<1>11. ASSUME NEW l \in Loops, LoopStep(l) \/ PollFails(l) PROVE Follows'
  BY <1>1, <1>11
  DEF LoopStep, PollReturns, BackoffEnds, PageTakes, PollFails, checking
<1>12. CASE UNCHANGED vars
  BY <1>1, <1>12 DEF vars, page, checking
<1> QED
  BY <1>3, <1>4, <1>5, <1>6, <1>7, <1>8, <1>9, <1>10, <1>11, <1>12
  DEF Next, CheckStep, RequestStep

(* Every step of a page that relays leaves it a loop.                      *)
LEMMA LoopStaysStep ==
    ASSUME Typed, ActiveHasLoop, [Next]_vars
    PROVE  ActiveHasLoop'
<1> USE DEF Typed
<1>1. ASSUME UNCHANGED page PROVE ActiveHasLoop'
  BY <1>1 DEF page, ActiveHasLoop, Live
<1>2. ASSUME UNCHANGED relayActive,
             \A l \in Loops : loop[l] # "off" => loop'[l] # "off"
      PROVE  ActiveHasLoop'
  BY <1>2 DEF ActiveHasLoop, Live
<1>3. CASE \E m \in GlobalMethods : SetDefault(m)
  BY <1>1, <1>3 DEF SetDefault, Changed
<1>4. ASSUME NEW a \in Addons,
             \/ AddAddon(a) \/ RemoveAddon(a) \/ (\E m \in Methods : SetMethod(a, m))
      PROVE  ActiveHasLoop'
  BY <1>1, <1>4 DEF AddAddon, RemoveAddon, SetMethod, Changed
<1>5. CASE Restart
  BY <1>2, <1>5 DEF Restart
<1>6. CASE PageLoads
  BY <1>6 DEF PageLoads, ActiveHasLoop
<1>7. CASE CheckStarts
  BY <1>1, <1>7 DEF CheckStarts
<1>8. ASSUME NEW i \in DOMAIN checks, ConfigRead(i) \/ AddonsRead(i) \/ CheckFails(i)
      PROVE  ActiveHasLoop'
  BY <1>1, <1>8 DEF ConfigRead, AddonsRead, CheckFails
<1>9. ASSUME NEW i \in DOMAIN checks, CheckDecides(i)
      PROVE  ActiveHasLoop'
  <2>1. CASE StartRelay
    <3>1. \E k \in Loops : loop[k] = "off"
      BY <2>1 DEF StartRelay, StartLoop, Live
    <3>2. \E l \in Loops : loop' = [loop EXCEPT ![l] = "polling"]
      BY <2>1, <3>1 DEF StartRelay, StartLoop
    <3> QED
      BY <3>2 DEF LoopsInv, ActiveHasLoop, Live
  <2>2. CASE StopRelay
    BY <2>2 DEF StopRelay, ActiveHasLoop
  <2> QED
    BY <1>1, <1>9, <2>1, <2>2 DEF CheckDecides
<1>10. ASSUME NEW l \in Loops, LoopStep(l) PROVE ActiveHasLoop'
  <2>1. Again(l) /\ UNCHANGED relayActive
    BY <1>10 DEF LoopStep, PollReturns, BackoffEnds, PageTakes
  <2> QED
    BY <2>1 DEF Again, LoopsInv, ActiveHasLoop, Live
<1>11. ASSUME NEW l \in Loops, PollFails(l) PROVE ActiveHasLoop'
  BY <1>2, <1>11 DEF PollFails, LoopsInv
<1>12. CASE UNCHANGED vars
  BY <1>1, <1>12 DEF vars
<1>13. CASE RequestStep
  BY <1>1, <1>13, RequestsAlone
<1> QED
  BY <1>3, <1>4, <1>5, <1>6, <1>7, <1>8, <1>9, <1>10, <1>11, <1>12, <1>13
  DEF Next, CheckStep, RequestStep

----------------------------------------------------------------------------
(* The inductive invariant.                                                *)
IInv == Typed /\ Follows /\ ActiveHasLoop

(* It holds when the bridge and the page have started.                     *)
LEMMA InvInit == Init => IInv
<1> SUFFICES ASSUME Init PROVE IInv
  OBVIOUS
<1>1. Typed
  <2>1. LoopsInv
    BY InitLoops
  <2>2. SettingsOK
    BY ConfiguredAssumption DEF Init, SettingsOK, Methods
  <2>3. ChecksOK
    BY DEF Init, ChecksOK
  <2> QED
    <3>1. changes \in 0..MaxChanges /\ events \in 0..MaxEvents
      BY BoundAssumption DEF Init
    <3>2. overtaken \in BOOLEAN /\ unseen \in BOOLEAN
      BY DEF Init
    <3> QED
      BY <2>1, <2>2, <2>3, <3>1, <3>2 DEF Init, Typed
<1>2. Follows /\ ActiveHasLoop
  BY DEF Init, Follows, ActiveHasLoop
<1> QED
  BY <1>1, <1>2 DEF IInv

(* Every step keeps it.                                                    *)
LEMMA InvStep == IInv /\ [Next]_vars => IInv'
BY TypeStep, FollowsStep, LoopStaysStep DEF IInv

(* The inductive invariant holds in every state.                           *)
LEMMA Invariance == Spec => []IInv
BY InvInit, InvStep, PTL DEF Spec

(* Settings, page and checks keep their types: there are never more checks *)
(* due than one for the page and one for each change (app.js:54, 366, 603).*)
THEOREM TypeCorrect == Spec => []TypeOK
<1>1. IInv => TypeOK
  <2> SUFFICES ASSUME IInv PROVE TypeOK
    OBVIOUS
  <2>1. due \in 0..MaxChanges + 1
    BY BoundAssumption DEF IInv, Typed, ChecksOK
  <2> QED
    BY <2>1 DEF IInv, Typed, LoopsInv, SettingsOK, ChecksOK, CheckType, TypeOK
<1> QED
  BY <1>1, Invariance, PTL

(* The page polls in one loop at a time, as long as the relay is not       *)
(* stopped while a loop sits in its back-off (app.js:194): an abort        *)
(* reaches the one loop there is, and none is started beside another.      *)
THEOREM SingleLoop == Spec => []OneLoop
<1>1. LoopsInv => OneLoop
  <2> SUFFICES ASSUME LoopsInv, LoopMatches PROVE Cardinality(Live) <= 1
    BY DEF OneLoop, LoopsInv
  <2>1. CASE relayActive
    <3>1. PICK l \in Loops : Live = {l}
      BY <2>1 DEF LoopMatches
    <3> QED
      BY <3>1, FS_Singleton
  <2>2. CASE ~relayActive
    <3>1. Live = {}
      BY <2>2 DEF LoopMatches
    <3> QED
      BY <3>1, FS_EmptySet
  <2> QED
    BY <2>1, <2>2
<1> QED
  BY <1>1, InitLoops, NextLoops, PTL DEF Spec

(* Once the page has looked after the last change, and no older look came  *)
(* after it, it relays exactly when an addon is to be fetched by it, for   *)
(* any number of checks (checkRelayNeeded) that overlap in any order.      *)
THEOREM RelayIsRight == Spec => []RelayFollowsSettings
<1>1. IInv => RelayFollowsSettings
  <2> SUFFICES ASSUME IInv, Settled PROVE relayActive <=> Needed(InUse, default)
    BY DEF RelayFollowsSettings
  <2>1. LastIsCurrent \/ LastIsDone
    BY DEF IInv, Follows, Settled
  <2> QED
    BY <2>1 DEF LastIsCurrent, LastIsDone, Settled
<1> QED
  BY <1>1, Invariance, PTL

(* Of a page that is in step with the settings, a request that is to go    *)
(* through it times out only while a failed poll waits to be repeated, or  *)
(* because a poll the page gave up took it (relay.go:124): a page that     *)
(* relays has a loop, even after others were left over.                    *)
THEOREM RelayedTaken == Spec => RelayedIsTaken
<1>1. ASSUME IInv, NEW a \in Addons, TimesOut(a), Settled, a \in Present,
             Effective(method[a], default) = "tab_relay", lost' = lost
      PROVE  \E l \in Loops : loop[l] = "backoff"
  <2>1. LastIsCurrent \/ LastIsDone
    BY <1>1 DEF IInv, Follows, Settled
  <2>2. relayActive <=> Needed(InUse, default)
    BY <1>1, <2>1 DEF LastIsCurrent, LastIsDone, Settled
  <2>3. Needed(InUse, default)
    BY <1>1 DEF Needed, InUse
  <2>4. PICK l \in Loops : loop[l] # "off"
    BY <1>1, <2>2, <2>3 DEF IInv, ActiveHasLoop, Live
  <2>5. Polling = {}
    BY <1>1 DEF TimesOut
  <2> QED
    BY <1>1, <2>4, <2>5 DEF Polling, IInv, Typed, LoopsInv
<1>2. IInv => \A a \in Addons : TimesOut(a) =>
                  \/ ~Settled
                  \/ a \notin Present
                  \/ Effective(method[a], default) # "tab_relay"
                  \/ \E l \in Loops : loop[l] = "backoff"
                  \/ lost' # lost
  BY <1>1
<1> QED
  BY <1>2, Invariance, PTL DEF RelayedIsTaken
=============================================================================
