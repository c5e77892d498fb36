------------------------------- MODULE Relay -------------------------------
(***************************************************************************)
(* The Browser Tab Relay (internal/relay/relay.go) and the poll loop that  *)
(* serves it in the web UI (internal/ui/static/app.js).                    *)
(*                                                                         *)
(* A Fetch gives its request a number, registers a response channel under  *)
(* that number, queues the request and waits.  A page long-polls           *)
(* HandlePending for the oldest queued request, fetches its URL and posts  *)
(* the body (or the error) to HandleResponse under the request's number.   *)
(*                                                                         *)
(* Time is kept as ages.  Tick adds one to every age, and an age stops at  *)
(* the limit the code compares it with: all that is ever asked of it.      *)
(***************************************************************************)
EXTENDS Naturals, FiniteSets

CONSTANTS
    Callers,       \* goroutines of the bridge that call Fetch
    Urls,          \* addon URLs
    NoUrl,         \* the URL of a caller that is not in Fetch
    Tabs,          \* poll loops of open pages
    NoTab,         \* where a connection leads whose page has gone
    Handlers,      \* HandlePending calls the server can be in at once
    ConnWindow,    \* Connected: 10 s
    PollHold,      \* HandlePending: 25 s
    FetchTimeout,  \* the timeout every caller of Fetch passes: 30 s
    StaleAge,      \* dequeue: 60 s
    MaxId,         \* bound: requests numbered by one run of the server
    MaxRestarts    \* bound: restarts of the server

ASSUME NamesAssumption == NoTab \notin Tabs /\ NoUrl \notin Urls

ASSUME TimesAssumption ==
    /\ ConnWindow \in Nat \ {0} /\ PollHold \in Nat \ {0}
    /\ FetchTimeout \in Nat \ {0} /\ StaleAge \in Nat
    /\ FetchTimeout <= StaleAge

ASSUME BoundsAssumption == MaxId \in Nat /\ MaxRestarts \in Nat

VARIABLES
    nextID,    \* Server.nextID
    pollAge,   \* age of Server.lastPoll
    pending,   \* Server.pending; pos is the place an entry got on arrival
    arrivals,  \* entries appended to pending so far
    caller,    \* the Fetch call of each caller, with its response channel
    handler,   \* the HandlePending calls
    jobs,      \* requests the pages work on, and their POSTs under way
    epoch      \* ghost: which run of the server this is

vars == <<nextID, pollAge, pending, arrivals, caller, handler, jobs, epoch>>

----------------------------------------------------------------------------
(* An answer's epoch is a ghost: the run of the server whose request it    *)
(* answers.  A channel holds one answer, so box is empty or a singleton.   *)
Answers == [url : Urls, kind : {"body", "error"}, epoch : Nat]

Entries == [id : Nat, url : Urls, age : 0..StaleAge, pos : Nat]

NoCall == [st |-> "idle", id |-> 0, url |-> NoUrl, age |-> 0,
           box |-> {}, got |-> {}]

CallStates ==
    {NoCall} \cup
    [st : {"allocated", "waiting", "leaving"}, id : Nat, url : Urls,
     age : 0..FetchTimeout,
     box : SUBSET Answers,   \* the buffer of the call's response channel
     got : SUBSET Answers]   \* what the select took from it; {} on a timeout

NoPoll == [st |-> "free", tab |-> NoTab, age |-> 0]

HandlerStates ==
    [st : {"free", "arrived", "waiting", "checking"},
     tab : Tabs \cup {NoTab}, age : 0..PollHold]

(* fetching: the page fetches the URL; posting: its POST is on the way;    *)
(* sending: HandleResponse has found the channel and not yet sent to it.   *)
Jobs ==
    LET In(states, kinds) == [id : Nat, url : Urls, epoch : Nat,
                              tab : Tabs \cup {NoTab}, st : states, kind : kinds]
    IN  In({"fetching"}, {"none"})
        \cup In({"posting", "sending"}, {"body", "error"})

(* `last' of 0 and a poll too long ago are the same to Connected.          *)
Connected == pollAge < ConnWindow

(* Server.channels: a call's channel is there from the append to the       *)
(* deferred delete.                                                        *)
Registered(c) == caller[c].st \in {"waiting", "leaving"}

Fresh == {p \in pending : p.age < StaleAge}

Oldest(p, S) == \A q \in S : p.pos <= q.pos

Older(age, limit) == IF age < limit THEN age + 1 ELSE age

Init ==
    /\ nextID = 0
    /\ pollAge = ConnWindow
    /\ pending = {}
    /\ arrivals = 0
    /\ caller = [c \in Callers |-> NoCall]
    /\ handler = [h \in Handlers |-> NoPoll]
    /\ jobs = {}
    /\ epoch = 0

----------------------------------------------------------------------------
(* Variant: a request is numbered by its place in the queue.               *)
FetchBegin_NumbersByPlace(c, u) ==
    /\ caller[c].st = "idle"
    /\ Connected
    /\ nextID < MaxId
    /\ nextID' = nextID + 1
    /\ caller' = [caller EXCEPT ![c] =
                    [st |-> "allocated", id |-> Cardinality(pending) + 1, url |-> u,
                     age |-> 0, box |-> {}, got |-> {}]]
    /\ UNCHANGED <<pollAge, pending, arrivals, handler, jobs, epoch>>

(* Fetch.  The number is taken before the lock: requests may be queued in  *)
(* another order than they are numbered.  A call with no browser connected *)
(* returns at once and changes nothing.                                    *)
FetchBegin(c, u) ==
    /\ caller[c].st = "idle"
    /\ Connected
    /\ nextID < MaxId
    /\ nextID' = nextID + 1
    /\ caller' = [caller EXCEPT ![c] =
                    [st |-> "allocated", id |-> nextID + 1, url |-> u,
                     age |-> 0, box |-> {}, got |-> {}]]
    /\ UNCHANGED <<pollAge, pending, arrivals, handler, jobs, epoch>>

(* Variant: createdAt is left zero.                                        *)
FetchEnqueue_Unstamped(c) ==
    /\ caller[c].st = "allocated"
    /\ caller' = [caller EXCEPT ![c].st = "waiting"]
    /\ arrivals' = arrivals + 1
    /\ pending' = pending \cup {[id |-> caller[c].id, url |-> caller[c].url,
                                 age |-> StaleAge, pos |-> arrivals + 1]}
    /\ UNCHANGED <<nextID, pollAge, handler, jobs, epoch>>

(* createdAt is taken under the lock and the timer is started right after  *)
(* it: two readings of the clock some microseconds apart, in a model whose *)
(* tick is of the size of the timeouts, are one.                           *)
FetchEnqueue(c) ==
    /\ caller[c].st = "allocated"
    /\ caller' = [caller EXCEPT ![c].st = "waiting"]
    /\ arrivals' = arrivals + 1
    /\ pending' = pending \cup {[id |-> caller[c].id, url |-> caller[c].url,
                                 age |-> 0, pos |-> arrivals + 1]}
    /\ UNCHANGED <<nextID, pollAge, handler, jobs, epoch>>

FetchReceive(c) ==
    /\ caller[c].st = "waiting"
    /\ caller[c].box # {}
    /\ caller' = [caller EXCEPT ![c] = [@ EXCEPT !.st = "leaving",
                                                 !.got = caller[c].box,
                                                 !.box = {}]]
    /\ UNCHANGED <<nextID, pollAge, pending, arrivals, handler, jobs, epoch>>

(* Variant: the timeout runs from when a page takes the request.           *)
FetchTimesOut_OnceTaken(c) ==
    /\ caller[c].st = "waiting"
    /\ caller[c].age = FetchTimeout
    /\ \A p \in pending : p.id # caller[c].id
    /\ caller' = [caller EXCEPT ![c].st = "leaving"]
    /\ UNCHANGED <<nextID, pollAge, pending, arrivals, handler, jobs, epoch>>

FetchTimesOut(c) ==
    /\ caller[c].st = "waiting"
    /\ caller[c].age = FetchTimeout
    /\ caller' = [caller EXCEPT ![c].st = "leaving"]
    /\ UNCHANGED <<nextID, pollAge, pending, arrivals, handler, jobs, epoch>>

(* The deferred delete.  The entry, if still queued, stays in pending.     *)
FetchReturn(c) ==
    /\ caller[c].st = "leaving"
    /\ caller' = [caller EXCEPT ![c] = NoCall]
    /\ UNCHANGED <<nextID, pollAge, pending, arrivals, handler, jobs, epoch>>

----------------------------------------------------------------------------
(* HandlePending.  lastPoll is stored before dequeue takes the lock.       *)
PollArrive(t, h) ==
    /\ handler[h].st = "free"
    /\ \A g \in Handlers : handler[g].tab # t
    /\ pollAge' = 0
    /\ handler' = [handler EXCEPT ![h] = [st |-> "arrived", tab |-> t, age |-> 0]]
    /\ UNCHANGED <<nextID, pending, arrivals, caller, jobs, epoch>>

(* Variant: the deadline is made anew in every round of the loop.          *)
PollTick_NewDeadline(h) ==
    /\ handler[h].st = "waiting"
    /\ pollAge' = 0
    /\ handler' = [handler EXCEPT ![h].st = "checking", ![h].age = 0]
    /\ UNCHANGED <<nextID, pending, arrivals, caller, jobs, epoch>>

PollTick(h) ==
    /\ handler[h].st = "waiting"
    /\ pollAge' = 0
    /\ handler' = [handler EXCEPT ![h].st = "checking"]
    /\ UNCHANGED <<nextID, pending, arrivals, caller, jobs, epoch>>

(* Variant: dequeue leaves the request it returns in the queue.            *)
PollTake_Leaves(h) ==
    /\ handler[h].st \in {"arrived", "checking"}
    /\ \E p \in Fresh :
         /\ Oldest(p, Fresh)
         /\ pending' = Fresh
         /\ jobs' = IF handler[h].tab = NoTab THEN jobs
                    ELSE jobs \cup {[id |-> p.id, url |-> p.url, epoch |-> epoch,
                                     tab |-> handler[h].tab,
                                     st |-> "fetching", kind |-> "none"]}
    /\ handler' = [handler EXCEPT ![h] = NoPoll]
    /\ UNCHANGED <<nextID, pollAge, arrivals, caller, epoch>>

(* Variant: dequeue empties the queue with the request it returns.         *)
PollTake_Empties(h) ==
    /\ handler[h].st \in {"arrived", "checking"}
    /\ \E p \in Fresh :
         /\ Oldest(p, Fresh)
         /\ pending' = {}
         /\ jobs' = IF handler[h].tab = NoTab THEN jobs
                    ELSE jobs \cup {[id |-> p.id, url |-> p.url, epoch |-> epoch,
                                     tab |-> handler[h].tab,
                                     st |-> "fetching", kind |-> "none"]}
    /\ handler' = [handler EXCEPT ![h] = NoPoll]
    /\ UNCHANGED <<nextID, pollAge, arrivals, caller, epoch>>

(* dequeue finds a request.  The handler does not learn that its page has  *)
(* gone: the request is then sent to nobody.                               *)
PollTake(h) ==
    /\ handler[h].st \in {"arrived", "checking"}
    /\ \E p \in Fresh :
         /\ Oldest(p, Fresh)
         /\ pending' = Fresh \ {p}
         /\ jobs' = IF handler[h].tab = NoTab THEN jobs
                    ELSE jobs \cup {[id |-> p.id, url |-> p.url, epoch |-> epoch,
                                     tab |-> handler[h].tab,
                                     st |-> "fetching", kind |-> "none"]}
    /\ handler' = [handler EXCEPT ![h] = NoPoll]
    /\ UNCHANGED <<nextID, pollAge, arrivals, caller, epoch>>

(* dequeue finds nothing; the first time, the hold time starts.            *)
PollEmpty(h) ==
    /\ handler[h].st \in {"arrived", "checking"}
    /\ Fresh = {}
    /\ pending' = {}
    /\ handler' = [handler EXCEPT ![h].st = "waiting"]
    /\ UNCHANGED <<nextID, pollAge, arrivals, caller, jobs, epoch>>

PollDeadline(h) ==
    /\ handler[h].st = "waiting"
    /\ handler[h].age = PollHold
    /\ handler' = [handler EXCEPT ![h] = NoPoll]
    /\ UNCHANGED <<nextID, pollAge, pending, arrivals, caller, jobs, epoch>>

----------------------------------------------------------------------------
(* The page.  Its poll ends without a reply: stopRelay aborts it, or the   *)
(* connection breaks.  The requests it already has go on.                  *)
Abandon(t) == [h \in Handlers |-> IF handler[h].tab = t
                                  THEN [handler[h] EXCEPT !.tab = NoTab]
                                  ELSE handler[h]]

TabDropsPoll(t) ==
    /\ \E h \in Handlers : handler[h].tab = t
    /\ handler' = Abandon(t)
    /\ UNCHANGED <<nextID, pollAge, pending, arrivals, caller, jobs, epoch>>

(* The page is closed: what it has not posted is lost.                     *)
TabCloses(t) ==
    /\ \/ \E h \in Handlers : handler[h].tab = t
       \/ \E j \in jobs : j.tab = t
    /\ handler' = Abandon(t)
    /\ jobs' = {j \in jobs : j.tab # t}
               \cup {[j EXCEPT !.tab = NoTab] :
                       j \in {i \in jobs : i.tab = t /\ i.st # "fetching"}}
    /\ UNCHANGED <<nextID, pollAge, pending, arrivals, caller, epoch>>

(* processRelayRequest has fetched the URL, or failed to.                  *)
JobFetched(j) ==
    /\ j.st = "fetching"
    /\ \E k \in {"body", "error"} :
         jobs' = (jobs \ {j}) \cup {[j EXCEPT !.st = "posting", !.kind = k]}
    /\ UNCHANGED <<nextID, pollAge, pending, arrivals, caller, handler, epoch>>

(* Variant: the second POST says neither body nor error.                   *)
Retry_Empty(j) == IF j.kind = "body" /\ j.tab # NoTab
                  THEN {[j EXCEPT !.st = "posting", !.kind = "none"]}
                  ELSE {}

(* What the page does when its POST throws: it reports a body's failure    *)
(* once, under the same number, and gives up on an error's.                *)
Retry(j) == IF j.kind = "body" /\ j.tab # NoTab
            THEN {[j EXCEPT !.st = "posting", !.kind = "error"]}
            ELSE {}

(* The POST fails, at the page at least: the server may still be handling  *)
(* it, or be about to.                                                     *)
PostFails(j) ==
    /\ j.st # "fetching"
    /\ j.tab # NoTab
    /\ \E still \in SUBSET {[j EXCEPT !.tab = NoTab]} :
         jobs' = (jobs \ {j}) \cup still \cup Retry(j)
    /\ UNCHANGED <<nextID, pollAge, pending, arrivals, caller, handler, epoch>>

----------------------------------------------------------------------------
(* HandleResponse.  The channel is looked up under the lock and used after *)
(* it.  No channel: 410, which the page takes for a success.               *)
PostLookup(j) ==
    /\ j.st = "posting"
    /\ jobs' = (jobs \ {j})
               \cup (IF \E c \in Callers : Registered(c) /\ caller[c].id = j.id
                     THEN {[j EXCEPT !.st = "sending"]} ELSE {})
    /\ UNCHANGED <<nextID, pollAge, pending, arrivals, caller, handler, epoch>>

(* Variant: a later answer replaces the one in the buffer.                 *)
PostSend_Replaces(j) ==
    /\ j.st = "sending"
    /\ jobs' = jobs \ {j}
    /\ caller' = [c \in Callers |->
                    IF Registered(c) /\ caller[c].id = j.id
                    THEN [caller[c] EXCEPT !.box = {[url |-> j.url, kind |-> j.kind,
                                                     epoch |-> j.epoch]}]
                    ELSE caller[c]]
    /\ UNCHANGED <<nextID, pollAge, pending, arrivals, handler, epoch>>

(* The send that does not block: into the buffer when it is empty, else,   *)
(* or when the call has returned, nowhere.                                 *)
PostSend(j) ==
    /\ j.st = "sending"
    /\ jobs' = jobs \ {j}
    /\ caller' = [c \in Callers |->
                    IF Registered(c) /\ caller[c].id = j.id /\ caller[c].box = {}
                    THEN [caller[c] EXCEPT !.box = {[url |-> j.url, kind |-> j.kind,
                                                     epoch |-> j.epoch]}]
                    ELSE caller[c]]
    /\ UNCHANGED <<nextID, pollAge, pending, arrivals, handler, epoch>>

----------------------------------------------------------------------------
(* The bridge restarts with NewServer.  The pages keep the requests they   *)
(* have; a POST the old server was handling throws.                        *)
Restart ==
    /\ epoch < MaxRestarts
    /\ epoch' = epoch + 1
    /\ nextID' = 0
    /\ pollAge' = ConnWindow
    /\ pending' = {}
    /\ arrivals' = 0
    /\ caller' = [c \in Callers |-> NoCall]
    /\ handler' = [h \in Handlers |-> NoPoll]
    /\ jobs' = {j \in jobs : j.st # "sending"}
               \cup UNION {Retry(j) : j \in {i \in jobs : i.st = "sending"}}

(* Time passes.  A handler's hold time starts with its first empty dequeue.*)
Tick ==
    /\ pollAge' = Older(pollAge, ConnWindow)
    /\ pending' = {[p EXCEPT !.age = Older(@, StaleAge)] : p \in pending}
    /\ caller' = [c \in Callers |->
                    IF caller[c].st = "waiting"
                    THEN [caller[c] EXCEPT !.age = Older(@, FetchTimeout)]
                    ELSE caller[c]]
    /\ handler' = [h \in Handlers |->
                    IF handler[h].st \in {"waiting", "checking"}
                    THEN [handler[h] EXCEPT !.age = Older(@, PollHold)]
                    ELSE handler[h]]
    /\ UNCHANGED <<nextID, arrivals, jobs, epoch>>

CallerStep(c) ==
    \/ FetchEnqueue(c)
    \/ FetchReceive(c)
    \/ FetchTimesOut(c)
    \/ FetchReturn(c)

HandlerStep(h) == PollTake(h) \/ PollEmpty(h) \/ PollTick(h) \/ PollDeadline(h)

JobStep(j) == JobFetched(j) \/ PostFails(j) \/ PostLookup(j) \/ PostSend(j)

Next ==
    \/ \E c \in Callers, u \in Urls : FetchBegin(c, u)
    \/ \E c \in Callers : CallerStep(c)
    \/ \E t \in Tabs, h \in Handlers : PollArrive(t, h)
    \/ \E h \in Handlers : HandlerStep(h)
    \/ \E t \in Tabs : TabDropsPoll(t) \/ TabCloses(t)
    \/ \E j \in jobs : JobStep(j)
    \/ Restart
    \/ Tick

Spec == Init /\ [][Next]_vars

(* The goroutines run and time passes.  A select whose two cases are ready *)
(* picks one at random, so the deadline of a handler whose ticker keeps    *)
(* firing is not missed for ever.  Nothing is asked of the pages.          *)
Fairness ==
    /\ WF_vars(Tick)
    /\ \A c \in Callers : WF_vars(CallerStep(c))
    /\ \A h \in Handlers : /\ WF_vars(PollTake(h) \/ PollEmpty(h))
                           /\ SF_vars(PollDeadline(h))

FairSpec == Spec /\ Fairness
----------------------------------------------------------------------------
(* The types: queue, calls, handlers and jobs are in states of their code. *)
TypeOK ==
    /\ nextID \in Nat /\ arrivals \in Nat /\ epoch \in Nat
    /\ pollAge \in 0..ConnWindow
    /\ pending \subseteq Entries
    /\ caller \in [Callers -> CallStates]
    /\ handler \in [Handlers -> HandlerStates]
    /\ jobs \subseteq Jobs

(* A queued request is in no page's hands, one a page fetches is in no     *)
(* other's, and no two are queued under one number: a request goes out at  *)
(* most once, whatever polls are open when it is dequeued.                 *)
HandedOutOnce ==
    /\ \A p, q \in pending : p.id = q.id => p = q
    /\ \A p \in pending, j \in jobs : j.epoch = epoch => j.id # p.id
    /\ \A i, j \in jobs : /\ i.id = j.id /\ i.epoch = j.epoch
                          /\ i.st = "fetching"
                          => i = j

(* Of the answers to requests of this run of the server, a call is only    *)
(* ever given one to its own URL, however late, doubled or out of order    *)
(* they come and however many calls are open.                              *)
AnswersMatch ==
    \A c \in Callers : \A a \in caller[c].box \cup caller[c].got :
        a.epoch = epoch => a.url = caller[c].url

(* relay.go:62: Fetch "sends a URL to the connected browser for fetching   *)
(* and waits for the response", and returns that response's body.          *)
FetchReturnsItsUrl ==
    \A c \in Callers : \A a \in caller[c].got : a.url = caller[c].url

(* dequeue throws an entry away as stale only when the Fetch that queued   *)
(* it has run out of time: the two clocks, of different length and started *)
(* at different places, never disagree.                                    *)
StaleHasTimedOut ==
    \A p \in pending, c \in Callers :
        /\ p.age = StaleAge
        /\ caller[c].st = "waiting"
        /\ caller[c].id = p.id
        => caller[c].age = FetchTimeout

(* Some Fetch with time left waits for the entry p to be served.           *)
Wanted(p) == \E c \in Callers : /\ caller[c].st = "waiting"
                                /\ caller[c].id = p.id
                                /\ caller[c].age < FetchTimeout

Left(p) == \A q \in pending' : q.id # p.id

(* While the server runs, a request some Fetch still waits for leaves the  *)
(* queue only as the reply to a poll, and one at a time.                   *)
NoSilentDrop ==
    [][epoch' = epoch =>
         /\ \A p, q \in pending : Wanted(p) /\ Wanted(q) /\ Left(p) /\ Left(q)
                                  => p = q
         /\ \A p \in pending : Wanted(p) /\ Left(p) =>
              \E h \in Handlers : /\ handler[h].st \in {"arrived", "checking"}
                                  /\ handler'[h].st = "free"]_vars

(* The first answer to reach a call is the one it returns: the error a     *)
(* page reports because the reply to its first POST was lost never         *)
(* displaces the body that POST delivered.                                 *)
FirstAnswerWins ==
    [][\A c \in Callers : caller[c].box # {} =>
         \/ caller'[c].box = caller[c].box
         \/ caller'[c].got = caller[c].box
         \/ caller'[c].st = "idle"]_vars

(* Every Fetch that started returns, whatever the pages do.                *)
FetchTerminates ==
    \A c \in Callers : caller[c].st # "idle" ~> caller[c].st = "idle"

(* Once no page polls any more, Connected turns false and stays so: a poll *)
(* nobody waits for keeps it true for no longer than its hold time.        *)
DisconnectNoticed ==
    <>[](\A h \in Handlers : handler[h].tab = NoTab) => <>[]~Connected

----------------------------------------------------------------------------
(* The promise of Fetch, over the calls' states here.                      *)
CallOf(c) ==
    CASE caller[c].st = "idle" -> [st |-> "closed", url |-> NoUrl]
      [] caller[c].st \in {"allocated", "waiting"} ->
           [st |-> "open", url |-> caller[c].url]
      [] caller[c].st = "leaving" ->
           IF \E a \in caller[c].got : a.kind = "body"
           THEN [st |-> "answered", url |-> (CHOOSE a \in caller[c].got : TRUE).url]
           ELSE [st |-> "failed", url |-> caller[c].url]

Promise == INSTANCE FetchService WITH call <- [c \in Callers |-> CallOf(c)]

(* The relay, for as long as the server is not restarted, does what Fetch  *)
(* promises.                                                               *)
KeepsPromise == Promise!Spec
=============================================================================
