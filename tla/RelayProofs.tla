----------------------------- MODULE RelayProofs -----------------------------
(***************************************************************************)
(* Proofs about Relay, for every set of callers, pages and handlers, every *)
(* bound and every choice of the four times with FetchTimeout <= StaleAge. *)
(***************************************************************************)
EXTENDS Relay, TLAPS

Active(c) == caller[c].st # "idle"

(* Every open call has a number this run of the server has given out, and  *)
(* no two have the same.                                                   *)
Numbers == \A c \in Callers : Active(c) => caller[c].id \in 1..nextID

Distinct == \A c, d \in Callers :
              Active(c) /\ Active(d) /\ caller[c].id = caller[d].id => c = d

(* What carries the number id and the URL u belongs to a call that has     *)
(* queued them, or to none that is open.                                   *)
Owned(id, u) ==
    /\ id <= nextID
    /\ \A c \in Callers : Active(c) /\ caller[c].id = id
                          => caller[c].url = u /\ caller[c].st # "allocated"

QueueOwned == \A p \in pending : Owned(p.id, p.url)

(* A job of an earlier run of the server need not belong to anything.      *)
JobsOwned == \A j \in jobs : /\ j.epoch <= epoch
                             /\ j.epoch = epoch => Owned(j.id, j.url)

(* The clock of a waiting Fetch is never behind that of its queue entry    *)
(* until it has run out.                                                   *)
ClocksAgree ==
    \A p \in pending, c \in Callers :
        caller[c].st = "waiting" /\ caller[c].id = p.id
        => p.age <= caller[c].age \/ caller[c].age = FetchTimeout

(* The inductive invariant.                                                *)
IInv ==
    /\ TypeOK
    /\ Numbers
    /\ Distinct
    /\ QueueOwned
    /\ JobsOwned
    /\ HandedOutOnce
    /\ AnswersMatch
    /\ ClocksAgree
----------------------------------------------------------------------------
(* Every variable keeps its type: what a step of any part of the relay     *)
(* writes is a state of that part.                                         *)
LEMMA TypeStep == TypeOK /\ [Next]_vars => TypeOK'
<1> SUFFICES ASSUME TypeOK, [Next]_vars PROVE TypeOK'
  OBVIOUS
<1> USE NamesAssumption, TimesAssumption DEF TypeOK
<1> NoCall \in CallStates /\ NoPoll \in HandlerStates
  BY DEF NoCall, CallStates, NoPoll, HandlerStates
<1> DEFINE ty == TypeOK'
<1>1. ASSUME NEW c \in Callers, NEW u \in Urls, FetchBegin(c, u) PROVE ty
  BY <1>1 DEF FetchBegin, CallStates
<1>2. ASSUME NEW c \in Callers, CallerStep(c) PROVE ty
  <2>1. CASE FetchEnqueue(c)
    BY <2>1 DEF FetchEnqueue, CallStates, NoCall, Entries
  <2>2. CASE FetchReceive(c)
    <3>1. caller[c] \in CallStates \ {NoCall}
      BY <2>2 DEF FetchReceive, NoCall
    <3>2. [caller[c] EXCEPT !.st = "leaving", !.got = caller[c].box, !.box = {}]
          \in CallStates
      BY <3>1 DEF CallStates
    <3> QED
      BY <2>2, <3>2 DEF FetchReceive
  <2>3. CASE FetchTimesOut(c)
    BY <2>3 DEF FetchTimesOut, CallStates, NoCall
  <2>4. CASE FetchReturn(c)
    BY <2>4 DEF FetchReturn
  <2> QED
    BY <1>2, <2>1, <2>2, <2>3, <2>4 DEF CallerStep
<1>3. ASSUME NEW t \in Tabs, NEW h \in Handlers, PollArrive(t, h) PROVE ty
  BY <1>3 DEF PollArrive, HandlerStates
<1>4. ASSUME NEW h \in Handlers, HandlerStep(h) PROVE ty
  <2>1. CASE PollTake(h)
    BY <2>1 DEF PollTake, Fresh, Jobs, HandlerStates, Entries
  <2>2. CASE PollEmpty(h)
    BY <2>2 DEF PollEmpty, HandlerStates
  <2>3. CASE PollTick(h)
    BY <2>3 DEF PollTick, HandlerStates
  <2>4. CASE PollDeadline(h)
    BY <2>4 DEF PollDeadline
  <2> QED
    BY <1>4, <2>1, <2>2, <2>3, <2>4 DEF HandlerStep
<1>5. ASSUME NEW t \in Tabs PROVE Abandon(t) \in [Handlers -> HandlerStates]
  BY DEF Abandon, HandlerStates
<1>6. ASSUME NEW t \in Tabs, TabDropsPoll(t) PROVE ty
  BY <1>5, <1>6 DEF TabDropsPoll
<1>7. ASSUME NEW t \in Tabs, TabCloses(t) PROVE ty
  BY <1>5, <1>7 DEF TabCloses, Jobs
<1>8. ASSUME NEW j \in jobs PROVE Retry(j) \subseteq Jobs
  BY DEF Retry, Jobs
<1>9. ASSUME NEW j \in jobs, JobStep(j) PROVE ty
  <2>1. CASE JobFetched(j)
    BY <2>1 DEF JobFetched, Jobs
  <2>2. CASE PostFails(j)
    BY <1>8, <2>2 DEF PostFails, Jobs
  <2>3. CASE PostLookup(j)
    BY <2>3 DEF PostLookup, Jobs
  <2>4. CASE PostSend(j)
    <3> DEFINE a == [url |-> j.url, kind |-> j.kind, epoch |-> j.epoch]
    <3>1. a \in Answers
      BY <2>4 DEF PostSend, Jobs, Answers
    <3>2. ASSUME NEW d \in Callers, Registered(d)
          PROVE  [caller[d] EXCEPT !.box = {a}] \in CallStates
      <4>1. caller[d] \in CallStates \ {NoCall}
        BY <3>2 DEF Registered, NoCall
      <4>2. {a} \in SUBSET Answers
        BY <3>1
      <4> HIDE DEF a
      <4> QED
        BY <4>1, <4>2 DEF CallStates
    <3>3. caller' \in [Callers -> CallStates]
      BY <2>4, <3>2 DEF PostSend
    <3> QED
      BY <2>4, <3>3 DEF PostSend
  <2> QED
    BY <1>9, <2>1, <2>2, <2>3, <2>4 DEF JobStep
<1>10. CASE Restart
  BY <1>8, <1>10 DEF Restart
<1>11. CASE Tick
  <2>1. \A limit \in Nat : \A age \in 0..limit : Older(age, limit) \in 0..limit
    BY DEF Older
  <2>2. pollAge' \in 0..ConnWindow
    BY <1>11, <2>1 DEF Tick
  <2>3. pending' \subseteq Entries
    BY <1>11, <2>1 DEF Tick, Entries
  <2>4. caller' \in [Callers -> CallStates]
    BY <1>11, <2>1 DEF Tick, CallStates, NoCall
  <2>5. handler' \in [Handlers -> HandlerStates]
    BY <1>11, <2>1 DEF Tick, HandlerStates
  <2> QED
    BY <1>11, <2>2, <2>3, <2>4, <2>5 DEF Tick
<1>12. CASE UNCHANGED vars
  BY <1>12 DEF vars
<1> QED
  BY <1>1, <1>2, <1>3, <1>4, <1>6, <1>7, <1>9, <1>10, <1>11, <1>12 DEF Next
----------------------------------------------------------------------------
(* A step that opens no call, and queues none unnoticed: every call open   *)
(* after it was open before, with the same number and URL.                 *)
CallsKept ==
    /\ nextID' = nextID
    /\ \A c \in Callers : Active(c)' =>
         /\ Active(c)
         /\ caller'[c].id = caller[c].id
         /\ caller'[c].url = caller[c].url
         /\ caller'[c].st = "allocated" => caller[c].st = "allocated"

(* Under such a step numbers stay distinct and stay with their calls.      *)
LEMMA KeepsNumbers ==
    ASSUME CallsKept
    PROVE  /\ Numbers => Numbers'
           /\ Distinct => Distinct'
           /\ \A id, u : Owned(id, u) => Owned(id, u)'
BY DEF CallsKept, Numbers, Distinct, Owned, Active

(* What the pages do with a request keeps its number, URL and epoch, and   *)
(* no two jobs come to fetch for one request.                              *)
JobsDescend ==
    \A j \in jobs' : \E i \in jobs :
        /\ j.id = i.id /\ j.url = i.url /\ j.epoch = i.epoch
        /\ \/ j = i
           \/ j.st # "fetching" /\ (i.st # "fetching" \/ i \notin jobs')

(* A number that is fetched by one page is so after a step that adds no    *)
(* fetching job.                                                           *)
LEMMA KeepsFetchers ==
    ASSUME JobsDescend, HandedOutOnce,
           NEW i \in jobs', NEW j \in jobs', i.id = j.id, i.epoch = j.epoch,
           i.st = "fetching"
    PROVE  i = j
<1>1. i \in jobs
  BY DEF JobsDescend
<1>2. PICK k \in jobs : /\ j.id = k.id /\ j.epoch = k.epoch
                        /\ \/ j = k
                           \/ /\ j.st # "fetching"
                              /\ k.st # "fetching" \/ k \notin jobs'
  BY DEF JobsDescend
<1>3. i = k
  BY <1>1, <1>2 DEF HandedOutOnce
<1> QED
  BY <1>2, <1>3

(* The jobs of a step that only moves jobs on still belong to their calls, *)
(* and fetch each request once.                                            *)
LEMMA KeepsJobs ==
    ASSUME JobsDescend, CallsKept, epoch' = epoch, pending' = pending
    PROVE  /\ JobsOwned => JobsOwned'
           /\ HandedOutOnce => HandedOutOnce'
<1>1. JobsOwned => JobsOwned'
  BY KeepsNumbers DEF JobsDescend, JobsOwned
<1>2. ASSUME HandedOutOnce PROVE HandedOutOnce'
  <2>1. \A p \in pending', j \in jobs' : j.epoch = epoch' => j.id # p.id
    BY <1>2 DEF HandedOutOnce, JobsDescend
  <2> QED
    BY <1>2, <2>1, KeepsFetchers DEF HandedOutOnce
<1> QED
  BY <1>1, <1>2

----------------------------------------------------------------------------
(* The inductive invariant holds of a relay that has just been made.       *)
LEMMA InvInit == Init => IInv
<1> SUFFICES ASSUME Init PROVE IInv
  OBVIOUS
<1>1. TypeOK
  BY TimesAssumption DEF Init, TypeOK, CallStates, HandlerStates, NoPoll
<1>2. \A c \in Callers : caller[c] = NoCall
  BY DEF Init
<1> QED
  BY <1>1, <1>2 DEF Init, IInv, NoCall, Active, Numbers, Distinct, QueueOwned,
     JobsOwned, HandedOutOnce, AnswersMatch, ClocksAgree

(* The steps of a Fetch call.                                              *)
LEMMA FetchBeginInv ==
    ASSUME IInv, NEW c \in Callers, NEW u \in Urls, FetchBegin(c, u), TypeOK'
    PROVE  IInv'
<1> USE DEF IInv
<1>1. caller' = [caller EXCEPT ![c] =
                   [st |-> "allocated", id |-> nextID + 1, url |-> u,
                    age |-> 0, box |-> {}, got |-> {}]]
      /\ nextID' = nextID + 1 /\ nextID \in Nat
      /\ UNCHANGED <<pending, jobs, epoch>>
  BY DEF FetchBegin, TypeOK
<1>2. \A d \in Callers : d # c => caller'[d] = caller[d]
  BY <1>1 DEF TypeOK
<1>3. /\ caller'[c].id = nextID + 1 /\ caller'[c].st = "allocated"
      /\ caller'[c].box = {} /\ caller'[c].got = {}
  BY <1>1 DEF TypeOK
<1>4. Numbers'
  BY <1>1, <1>2, <1>3 DEF Numbers, Active
<1>5. Distinct'
  BY <1>1, <1>2, <1>3 DEF Distinct, Numbers, Active
<1>6. ASSUME NEW id \in Nat, NEW v \in Urls, Owned(id, v) PROVE Owned(id, v)'
  BY <1>1, <1>2, <1>3, <1>6 DEF Owned, Active
<1>7. QueueOwned' /\ JobsOwned'
  <2>1. \A p \in pending : p.id \in Nat /\ p.url \in Urls
    BY DEF TypeOK, Entries
  <2>2. \A j \in jobs : j.id \in Nat /\ j.url \in Urls
    BY DEF TypeOK, Jobs
  <2> QED
    BY <1>1, <1>6, <2>1, <2>2 DEF QueueOwned, JobsOwned
<1>8. HandedOutOnce'
  BY <1>1 DEF HandedOutOnce
<1>9. AnswersMatch'
  BY <1>1, <1>2, <1>3 DEF AnswersMatch
<1>10. ClocksAgree'
  BY <1>1, <1>2, <1>3 DEF ClocksAgree
<1> QED
  BY <1>4, <1>5, <1>7, <1>8, <1>9, <1>10

(* Fetch puts its entry at the end of the queue.                           *)
LEMMA FetchEnqueueInv ==
    ASSUME IInv, NEW c \in Callers, FetchEnqueue(c), TypeOK'
    PROVE  IInv'
<1> USE DEF IInv
<1> DEFINE new == [id |-> caller[c].id, url |-> caller[c].url,
                   age |-> 0, pos |-> arrivals + 1]
<1>1. /\ caller[c].st = "allocated"
      /\ caller' = [caller EXCEPT ![c].st = "waiting"]
      /\ pending' = pending \cup {new}
      /\ UNCHANGED <<nextID, jobs, epoch>>
  BY DEF FetchEnqueue
<1>2. \A d \in Callers : d # c => caller'[d] = caller[d]
  BY <1>1 DEF TypeOK
<1>3. /\ caller'[c].st = "waiting" /\ caller'[c].id = caller[c].id
      /\ caller'[c].url = caller[c].url /\ caller'[c].age = caller[c].age
      /\ caller'[c].box = caller[c].box /\ caller'[c].got = caller[c].got
  BY <1>1 DEF TypeOK, CallStates, NoCall
<1>4. CallsKept
  BY <1>1, <1>2, <1>3 DEF CallsKept, Active
<1>5. new.id = caller[c].id /\ new.url = caller[c].url /\ new.age = 0
  OBVIOUS
<1> HIDE DEF new
<1>6. ASSUME NEW id, NEW v, id = caller[c].id, v = caller[c].url
      PROVE  Owned(id, v)'
  <2>1. id <= nextID'
    BY <1>1, <1>6 DEF Numbers, Active, TypeOK
  <2>2. \A d \in Callers : Active(d)' /\ caller'[d].id = id => d = c
    BY <1>1, <1>2, <1>6 DEF Distinct, Active
  <2> QED
    BY <1>3, <1>6, <2>1, <2>2 DEF Owned
<1>7. QueueOwned'
  <2>1. ASSUME NEW p \in pending' PROVE Owned(p.id, p.url)'
    <3>1. CASE p \in pending
      BY <1>4, <3>1, KeepsNumbers DEF QueueOwned
    <3>2. CASE p = new
      BY <1>5, <1>6, <3>2
    <3> QED
      BY <1>1, <3>1, <3>2
  <2> QED
    BY <2>1 DEF QueueOwned
<1>8. JobsOwned'
  BY <1>1, <1>4, KeepsNumbers DEF JobsOwned
<1>9. HandedOutOnce'
  <2>1. \A p \in pending : p.id # new.id
    BY <1>1, <1>5 DEF QueueOwned, Owned, Active
  <2>2. \A j \in jobs : j.epoch = epoch => j.id # new.id
    BY <1>1, <1>5 DEF JobsOwned, Owned, Active
  <2> QED
    BY <1>1, <2>1, <2>2 DEF HandedOutOnce
<1>10. AnswersMatch'
  BY <1>1, <1>2, <1>3 DEF AnswersMatch
<1>11. ClocksAgree'
  <2>1. ASSUME NEW p \in pending', NEW d \in Callers,
               caller'[d].st = "waiting", caller'[d].id = p.id
        PROVE  p.age <= caller'[d].age \/ caller'[d].age = FetchTimeout
    <3>1. CASE p \in pending /\ d # c
      BY <1>2, <2>1, <3>1 DEF ClocksAgree
    <3>2. CASE p \in pending /\ d = c
      BY <1>1, <1>3, <2>1, <3>2 DEF QueueOwned, Owned, Active
    <3>3. CASE p = new
      <4>1. caller'[d].age \in Nat
        BY TimesAssumption DEF TypeOK, CallStates, NoCall
      <4> QED
        BY <1>5, <3>3, <4>1
    <3> QED
      BY <1>1, <3>1, <3>2, <3>3
  <2> QED
    BY <2>1 DEF ClocksAgree
<1> QED
  BY <1>4, <1>7, <1>8, <1>9, <1>10, <1>11, KeepsNumbers

(* Fetch receives, times out and returns.                                  *)
LEMMA FetchEndInv ==
    ASSUME IInv, NEW c \in Callers, TypeOK',
           FetchReceive(c) \/ FetchTimesOut(c) \/ FetchReturn(c)
    PROVE  IInv'
<1> USE DEF IInv
<1>1. UNCHANGED <<nextID, pending, jobs, epoch>> /\ caller[c].st # "allocated"
  BY DEF FetchReceive, FetchTimesOut, FetchReturn
<1>2. \A d \in Callers : d # c => caller'[d] = caller[d]
  BY DEF FetchReceive, FetchTimesOut, FetchReturn, TypeOK
<1>3. \/ caller'[c] = NoCall
      \/ /\ caller[c].st = "waiting" /\ caller'[c].st = "leaving"
         /\ caller'[c].id = caller[c].id /\ caller'[c].url = caller[c].url
         /\ caller'[c].box \cup caller'[c].got
            \subseteq caller[c].box \cup caller[c].got
  <2>1. CASE FetchReceive(c)
    <3>1. caller'[c] = [caller[c] EXCEPT !.st = "leaving", !.got = caller[c].box,
                                         !.box = {}]
      BY <2>1 DEF FetchReceive, TypeOK
    <3>2. caller[c].st = "waiting"
      BY <2>1 DEF FetchReceive
    <3>3. caller[c] \in CallStates \ {NoCall}
      BY <3>2 DEF TypeOK, NoCall
    <3> QED
      BY <3>1, <3>2, <3>3 DEF CallStates
  <2>2. CASE FetchTimesOut(c)
    BY <2>2 DEF FetchTimesOut, TypeOK, CallStates, NoCall
  <2>3. CASE FetchReturn(c)
    BY <2>3 DEF FetchReturn, TypeOK
  <2> QED
    BY <2>1, <2>2, <2>3
<1>4. NoCall.st = "idle" /\ NoCall.box = {} /\ NoCall.got = {}
  BY DEF NoCall
<1>5. CallsKept
  BY <1>1, <1>2, <1>3, <1>4 DEF CallsKept, Active
<1>6. QueueOwned' /\ JobsOwned'
  BY <1>1, <1>5, KeepsNumbers DEF QueueOwned, JobsOwned
<1>7. HandedOutOnce'
  BY <1>1 DEF HandedOutOnce
<1>8. AnswersMatch'
  BY <1>1, <1>2, <1>3, <1>4 DEF AnswersMatch
<1>9. ClocksAgree'
  BY <1>1, <1>2, <1>3, <1>4 DEF ClocksAgree
<1> QED
  BY <1>5, <1>6, <1>7, <1>8, <1>9, KeepsNumbers

(* The steps of a handler and of a page that leave queue and jobs alone.   *)
LEMMA QuietInv ==
    ASSUME IInv, TypeOK',
           UNCHANGED <<nextID, pending, caller, jobs, epoch>>
    PROVE  IInv'
BY DEF IInv, Numbers, Distinct, QueueOwned, JobsOwned, Owned, Active,
       HandedOutOnce, AnswersMatch, ClocksAgree

(* dequeue: entries leave the queue, one of them into a page's hands.      *)
LEMMA PollTakeInv ==
    ASSUME IInv, TypeOK', NEW h \in Handlers, PollTake(h)
    PROVE  IInv'
<1> USE DEF IInv
<1>1. UNCHANGED <<nextID, caller, epoch>> /\ CallsKept
  BY DEF PollTake, CallsKept, Active
<1>2. PICK p \in Fresh :
        /\ pending' = Fresh \ {p}
        /\ jobs' = IF handler[h].tab = NoTab THEN jobs
                   ELSE jobs \cup {[id |-> p.id, url |-> p.url, epoch |-> epoch,
                                    tab |-> handler[h].tab,
                                    st |-> "fetching", kind |-> "none"]}
  BY DEF PollTake
<1>3. p \in pending /\ p \notin pending' /\ pending' \subseteq pending
  BY <1>2 DEF Fresh
<1>4. QueueOwned'
  BY <1>1, <1>3, KeepsNumbers DEF QueueOwned
<1>5. JobsOwned'
  <2>1. ASSUME NEW j \in jobs', j \notin jobs
        PROVE  j.id = p.id /\ j.url = p.url /\ j.epoch = epoch
    BY <1>2, <2>1
  <2>2. epoch <= epoch
    BY DEF TypeOK
  <2>3. Owned(p.id, p.url)
    BY <1>3 DEF QueueOwned
  <2>4. \A j \in jobs' : j.epoch <= epoch /\ (j.epoch = epoch => Owned(j.id, j.url))
    BY <2>1, <2>2, <2>3 DEF JobsOwned
  <2> QED
    BY <1>1, <2>4, KeepsNumbers DEF JobsOwned
<1>6. HandedOutOnce'
  <2>1. \A q \in pending' : q.id # p.id
    BY <1>3 DEF HandedOutOnce
  <2>2. \A j \in jobs : j.epoch = epoch => j.id # p.id
    BY <1>3 DEF HandedOutOnce
  <2>3. CASE jobs' = jobs
    BY <1>1, <1>3, <2>3 DEF HandedOutOnce
  <2>4. ASSUME NEW new, new.id = p.id, new.epoch = epoch,
               jobs' = jobs \cup {new}
        PROVE  HandedOutOnce'
    BY <1>1, <1>3, <2>1, <2>2, <2>4 DEF HandedOutOnce
  <2> QED
    BY <1>2, <2>3, <2>4
<1>7. AnswersMatch'
  BY <1>1 DEF AnswersMatch
<1>8. ClocksAgree'
  BY <1>1, <1>3 DEF ClocksAgree
<1> QED
  BY <1>1, <1>4, <1>5, <1>6, <1>7, <1>8, KeepsNumbers

(* The steps of the pages and of HandleResponse up to the send.            *)
LEMMA JobsInv ==
    ASSUME IInv, TypeOK', JobsDescend,
           UNCHANGED <<nextID, pending, caller, epoch>>
    PROVE  IInv'
<1> USE DEF IInv
<1>1. CallsKept
  BY DEF CallsKept, Active
<1>2. QueueOwned' /\ JobsOwned' /\ HandedOutOnce'
  BY <1>1, KeepsNumbers, KeepsJobs DEF QueueOwned
<1>3. AnswersMatch' /\ ClocksAgree'
  BY DEF AnswersMatch, ClocksAgree
<1> QED
  BY <1>1, <1>2, <1>3, KeepsNumbers

(* The send into a channel: its call still has the answer's number.        *)
LEMMA PostSendInv ==
    ASSUME IInv, TypeOK', NEW j \in jobs, PostSend(j)
    PROVE  IInv'
<1> USE DEF IInv
<1> DEFINE a == [url |-> j.url, kind |-> j.kind, epoch |-> j.epoch]
<1>1. jobs' = jobs \ {j} /\ UNCHANGED <<nextID, pending, epoch>>
  BY DEF PostSend
<1>2. JobsDescend
  BY <1>1 DEF JobsDescend
<1>3. ASSUME NEW c \in Callers
      PROVE  \/ caller'[c] = caller[c]
             \/ /\ Active(c) /\ caller[c].id = j.id
                /\ caller'[c] = [caller[c] EXCEPT !.box = {a}]
                /\ caller[c] \in CallStates \ {NoCall}
  <2>1. Registered(c) => Active(c) /\ caller[c] \in CallStates \ {NoCall}
    BY DEF Registered, Active, TypeOK, NoCall
  <2> QED
    BY <2>1 DEF PostSend
<1>4. a.url = j.url /\ a.epoch = j.epoch
  OBVIOUS
<1> HIDE DEF a
<1>5. ASSUME NEW c \in Callers
      PROVE  /\ caller'[c].st = caller[c].st /\ caller'[c].id = caller[c].id
             /\ caller'[c].url = caller[c].url /\ caller'[c].age = caller[c].age
             /\ caller'[c].got = caller[c].got
             /\ \/ caller'[c].box = caller[c].box
                \/ /\ Active(c) /\ caller[c].id = j.id
                   /\ caller'[c].box = {a}
  <2>1. CASE caller'[c] = caller[c]
    BY <2>1
  <2>2. CASE /\ Active(c) /\ caller[c].id = j.id
             /\ caller'[c] = [caller[c] EXCEPT !.box = {a}]
             /\ caller[c] \in CallStates \ {NoCall}
    BY <2>2 DEF CallStates
  <2> QED
    BY <1>3, <2>1, <2>2
<1>6. CallsKept
  BY <1>1, <1>5 DEF CallsKept, Active
<1>7. QueueOwned' /\ JobsOwned' /\ HandedOutOnce'
  BY <1>1, <1>2, <1>6, KeepsNumbers, KeepsJobs DEF QueueOwned
<1>8. AnswersMatch'
  BY <1>1, <1>4, <1>5 DEF AnswersMatch, JobsOwned, Owned
<1>9. ClocksAgree'
  BY <1>1, <1>5 DEF ClocksAgree
<1> QED
  BY <1>6, <1>7, <1>8, <1>9, KeepsNumbers

(* A new server knows no call, and its queue is empty.                     *)
LEMMA RestartInv ==
    ASSUME IInv, TypeOK', Restart
    PROVE  IInv'
<1> USE DEF IInv
<1>1. /\ epoch' = epoch + 1 /\ epoch \in Nat
      /\ pending' = {} /\ caller' = [c \in Callers |-> NoCall]
  BY DEF Restart, TypeOK
<1>2. ASSUME NEW j \in jobs'
      PROVE  \E i \in jobs :
               /\ j.id = i.id /\ j.url = i.url /\ j.epoch = i.epoch
               /\ j = i \/ (j.st # "fetching" /\ i.st # "fetching")
  <2>1. CASE j \in jobs
    BY <2>1
  <2>2. CASE j \notin jobs
    <3>1. PICK i \in jobs : i.st = "sending" /\ j \in Retry(i)
      BY <2>2 DEF Restart
    <3>2. j = [i EXCEPT !.st = "posting", !.kind = "error"]
      BY <3>1 DEF Retry
    <3> QED
      BY <3>1, <3>2 DEF TypeOK, Jobs
  <2> QED
    BY <2>1, <2>2
<1>3. JobsDescend
  BY <1>2 DEF JobsDescend
<1>4. \A j \in jobs' : j.epoch \in Nat /\ j.epoch < epoch'
  BY <1>1, <1>2 DEF JobsOwned, TypeOK, Jobs
<1>5. JobsOwned'
  BY <1>1, <1>4 DEF JobsOwned
<1>6. HandedOutOnce'
  BY <1>1, <1>3, KeepsFetchers DEF HandedOutOnce
<1> QED
  BY <1>1, <1>5, <1>6 DEF NoCall, Active, Numbers, Distinct, QueueOwned,
     AnswersMatch, ClocksAgree

(* The clocks advance together, so the queue entry's is not ahead.         *)
LEMMA TickInv ==
    ASSUME IInv, TypeOK', Tick
    PROVE  IInv'
<1> USE DEF IInv
<1>1. UNCHANGED <<nextID, jobs, epoch>>
  BY DEF Tick
<1>2. ASSUME NEW c \in Callers
      PROVE  /\ caller'[c].st = caller[c].st /\ caller'[c].id = caller[c].id
             /\ caller'[c].url = caller[c].url /\ caller'[c].box = caller[c].box
             /\ caller'[c].got = caller[c].got
             /\ caller[c].st = "waiting"
                => /\ caller'[c].age = Older(caller[c].age, FetchTimeout)
                   /\ caller[c].age \in 0..FetchTimeout
  <2>1. caller[c].st = "waiting" => caller[c] \in CallStates \ {NoCall}
    BY DEF TypeOK, NoCall
  <2> QED
    BY <2>1 DEF Tick, CallStates
<1>3. ASSUME NEW p \in pending'
      PROVE  \E q \in pending : /\ p.id = q.id /\ p.url = q.url
                               /\ p = [q EXCEPT !.age = Older(@, StaleAge)]
                               /\ p.age = Older(q.age, StaleAge)
                               /\ q.age \in 0..StaleAge
  BY DEF Tick, TypeOK, Entries
<1>4. CallsKept
  BY <1>1, <1>2 DEF CallsKept, Active
<1>5. QueueOwned'
  BY <1>3, <1>4, KeepsNumbers DEF QueueOwned
<1>6. JobsOwned'
  BY <1>1, <1>4, KeepsNumbers DEF JobsOwned
<1>7. HandedOutOnce'
  <2>1. \A p, r \in pending' : p.id = r.id => p = r
    BY <1>3 DEF HandedOutOnce
  <2>2. \A p \in pending', j \in jobs' : j.epoch = epoch' => j.id # p.id
    BY <1>1, <1>3 DEF HandedOutOnce
  <2> QED
    BY <1>1, <2>1, <2>2 DEF HandedOutOnce
<1>8. AnswersMatch'
  BY <1>1, <1>2 DEF AnswersMatch
<1>9. ClocksAgree'
  <2>1. ASSUME NEW p \in pending', NEW c \in Callers,
               caller'[c].st = "waiting", caller'[c].id = p.id
        PROVE  p.age <= caller'[c].age \/ caller'[c].age = FetchTimeout
    <3>1. PICK q \in pending : /\ p.id = q.id /\ p.age = Older(q.age, StaleAge)
                               /\ q.age \in 0..StaleAge
      BY <1>3
    <3>2. q.age <= caller[c].age \/ caller[c].age = FetchTimeout
      BY <1>2, <2>1, <3>1 DEF ClocksAgree
    <3> QED
      BY <1>2, <2>1, <3>1, <3>2, TimesAssumption DEF Older
  <2> QED
    BY <2>1 DEF ClocksAgree
<1> QED
  BY <1>4, <1>5, <1>6, <1>7, <1>8, <1>9, KeepsNumbers

(* Every step keeps the inductive invariant.                               *)
LEMMA InvStep == IInv /\ [Next]_vars => IInv'
<1> SUFFICES ASSUME IInv, [Next]_vars PROVE IInv'
  OBVIOUS
<1>0. TypeOK'
  BY TypeStep DEF IInv
<1>1. ASSUME NEW c \in Callers, NEW u \in Urls, FetchBegin(c, u) PROVE IInv'
  BY <1>0, <1>1, FetchBeginInv
<1>2. ASSUME NEW c \in Callers, CallerStep(c) PROVE IInv'
  BY <1>0, <1>2, FetchEnqueueInv, FetchEndInv DEF CallerStep
<1>3. ASSUME NEW t \in Tabs, NEW h \in Handlers, PollArrive(t, h) PROVE IInv'
  BY <1>0, <1>3, QuietInv DEF PollArrive
<1>4. ASSUME NEW h \in Handlers, HandlerStep(h) PROVE IInv'
  <2>1. CASE PollTake(h)
    BY <1>0, <2>1, PollTakeInv
  <2>2. CASE PollEmpty(h)
    <3>1. pending' = {} /\ UNCHANGED <<nextID, caller, jobs, epoch>>
      BY <2>2 DEF PollEmpty
    <3> QED
      BY <1>0, <3>1 DEF IInv, Numbers, Distinct, QueueOwned, JobsOwned, Owned,
         Active, HandedOutOnce, AnswersMatch, ClocksAgree
  <2>3. CASE PollTick(h) \/ PollDeadline(h)
    BY <1>0, <2>3, QuietInv DEF PollTick, PollDeadline
  <2> QED
    BY <1>4, <2>1, <2>2, <2>3 DEF HandlerStep
<1>5. ASSUME NEW t \in Tabs, TabDropsPoll(t) PROVE IInv'
  BY <1>0, <1>5, QuietInv DEF TabDropsPoll
<1>6. ASSUME NEW t \in Tabs, TabCloses(t) PROVE IInv'
  <2>1. ASSUME NEW i \in jobs
        PROVE  LET k == [i EXCEPT !.tab = NoTab]
               IN  /\ k.id = i.id /\ k.url = i.url /\ k.epoch = i.epoch
                   /\ k.st = i.st
    BY DEF IInv, TypeOK, Jobs
  <2>2. JobsDescend
    <3>1. ASSUME NEW j \in jobs', j \notin jobs
          PROVE  \E i \in jobs : /\ j.id = i.id /\ j.url = i.url
                                 /\ j.epoch = i.epoch
                                 /\ j.st # "fetching" /\ i.st # "fetching"
      <4>1. PICK i \in jobs : i.st # "fetching" /\ j = [i EXCEPT !.tab = NoTab]
        BY <1>6, <3>1 DEF TabCloses
      <4> QED
        BY <2>1, <4>1
    <3> QED
      BY <3>1 DEF JobsDescend
  <2> QED
    BY <1>0, <1>6, <2>2, JobsInv DEF TabCloses
<1>7. ASSUME NEW j \in jobs, JobStep(j) PROVE IInv'
  <2>1. CASE JobFetched(j)
    <3>1. JobsDescend
      BY <2>1 DEF JobFetched, JobsDescend, IInv, TypeOK, Jobs
    <3> QED
      BY <1>0, <2>1, <3>1, JobsInv DEF JobFetched
  <2>2. CASE PostFails(j)
    <3>1. JobsDescend
      BY <2>2 DEF PostFails, Retry, JobsDescend, IInv, TypeOK, Jobs
    <3> QED
      BY <1>0, <2>2, <3>1, JobsInv DEF PostFails
  <2>3. CASE PostLookup(j)
    <3>1. JobsDescend
      BY <2>3 DEF PostLookup, JobsDescend, IInv, TypeOK, Jobs
    <3> QED
      BY <1>0, <2>3, <3>1, JobsInv DEF PostLookup
  <2>4. CASE PostSend(j)
    BY <1>0, <2>4, PostSendInv
  <2> QED
    BY <1>7, <2>1, <2>2, <2>3, <2>4 DEF JobStep
<1>8. CASE Restart
  BY <1>0, <1>8, RestartInv
<1>9. CASE Tick
  BY <1>0, <1>9, TickInv
<1>10. CASE UNCHANGED vars
  BY <1>0, <1>10, QuietInv DEF vars
<1> QED
  BY <1>1, <1>2, <1>3, <1>4, <1>5, <1>6, <1>7, <1>8, <1>9, <1>10 DEF Next

----------------------------------------------------------------------------
(* The inductive invariant holds in every state of the relay.              *)
LEMMA Invariance == Spec => []IInv
BY InvInit, InvStep, PTL DEF Spec

(* Queue, calls, handlers and jobs of the relay (relay.go, app.js) keep    *)
(* their types.                                                            *)
THEOREM TypeCorrect == Spec => []TypeOK
<1>1. IInv => TypeOK
  BY DEF IInv
<1> QED
  BY <1>1, Invariance, PTL

(* A request goes out to the pages at most once, through any number of     *)
(* polls, restarts, retries and broken connections.                        *)
THEOREM OneDelivery == Spec => []HandedOutOnce
<1>1. IInv => HandedOutOnce
  BY DEF IInv
<1> QED
  BY <1>1, Invariance, PTL

(* Within one run of the server no answer reaches a call for another URL.  *)
THEOREM Correlation == Spec => []AnswersMatch
<1>1. IInv => AnswersMatch
  BY DEF IInv
<1> QED
  BY <1>1, Invariance, PTL

(* A request dequeue throws away as stale has no Fetch with time left.     *)
THEOREM StaleIsSafe == Spec => []StaleHasTimedOut
<1>1. IInv => StaleHasTimedOut
  <2>1. ASSUME IInv, NEW p \in pending, NEW c \in Callers,
               p.age = StaleAge, caller[c].st = "waiting", caller[c].id = p.id
        PROVE  caller[c].age = FetchTimeout
    <3>1. p.age <= caller[c].age \/ caller[c].age = FetchTimeout
      BY <2>1 DEF IInv, ClocksAgree
    <3>2. caller[c].age \in 0..FetchTimeout
      BY <2>1 DEF IInv, TypeOK, CallStates, NoCall
    <3> QED
      BY <2>1, <3>1, <3>2, TimesAssumption
  <2> QED
    BY <2>1 DEF StaleHasTimedOut
<1> QED
  BY <1>1, Invariance, PTL

----------------------------------------------------------------------------
(* What a step may never do, and that a relay that is not restarted        *)
(* implements FetchService.                                                *)

(* An idle call holds nothing.                                             *)
LEMMA IdleIsEmpty ==
    ASSUME TypeOK, NEW c \in Callers, caller[c].st = "idle"
    PROVE  caller[c] = NoCall
BY DEF TypeOK, CallStates

(* No step puts a second answer in the place of one a call already has.    *)
LEMMA FirstAnswerStep ==
    ASSUME TypeOK, [Next]_vars, NEW c \in Callers, caller[c].box # {}
    PROVE  \/ caller'[c].box = caller[c].box
           \/ caller'[c].got = caller[c].box
           \/ caller'[c].st = "idle"
<1> DEFINE fine == \/ caller'[c].box = caller[c].box
                   \/ caller'[c].got = caller[c].box
                   \/ caller'[c].st = "idle"
<1> USE DEF TypeOK
<1>0. /\ caller \in [Callers -> CallStates]
      /\ caller[c].st # "idle"
      /\ caller[c] \in CallStates \ {NoCall}
  BY IdleIsEmpty DEF NoCall
<1>1. ASSUME NEW d \in Callers, NEW u \in Urls, FetchBegin(d, u) PROVE fine
  BY <1>0, <1>1 DEF FetchBegin
<1>2. ASSUME NEW d \in Callers, CallerStep(d) PROVE fine
  <2>1. CASE d # c
    BY <1>0, <1>2, <2>1
       DEF CallerStep, FetchEnqueue, FetchReceive, FetchTimesOut, FetchReturn
  <2>2. CASE d = c /\ FetchReceive(c)
    BY <1>0, <2>2 DEF FetchReceive, CallStates
  <2>3. CASE d = c /\ FetchReturn(c)
    BY <1>0, <2>3 DEF FetchReturn, NoCall
  <2>4. CASE d = c /\ (FetchEnqueue(c) \/ FetchTimesOut(c))
    BY <1>0, <2>4 DEF FetchEnqueue, FetchTimesOut, CallStates
  <2> QED
    BY <1>2, <2>1, <2>2, <2>3, <2>4 DEF CallerStep
<1>3. ASSUME NEW t \in Tabs, NEW h \in Handlers, PollArrive(t, h) PROVE fine
  BY <1>3 DEF PollArrive
<1>4. ASSUME NEW h \in Handlers, HandlerStep(h) PROVE fine
  BY <1>4 DEF HandlerStep, PollTake, PollEmpty, PollTick, PollDeadline
<1>5. ASSUME NEW t \in Tabs, TabDropsPoll(t) \/ TabCloses(t) PROVE fine
  BY <1>5 DEF TabDropsPoll, TabCloses
<1>6. ASSUME NEW j \in jobs, JobStep(j) PROVE fine
  <2>1. CASE PostSend(j)
    BY <2>1 DEF PostSend
  <2> QED
    BY <1>6, <2>1 DEF JobStep, JobFetched, PostFails, PostLookup
<1>7. CASE Restart
  BY <1>7 DEF Restart, NoCall
<1>8. CASE Tick
  BY <1>0, <1>8 DEF Tick, CallStates
<1>9. CASE UNCHANGED vars
  BY <1>9 DEF vars
<1> QED
  BY <1>1, <1>2, <1>3, <1>4, <1>5, <1>6, <1>7, <1>8, <1>9 DEF Next

(* The first answer to reach a call (relay.go:167) is the one it returns,  *)
(* for any number of calls, pages and repeated POSTs.                      *)
THEOREM FirstAnswer == Spec => FirstAnswerWins
<1>1. TypeOK /\ [Next]_vars =>
        [\A c \in Callers : caller[c].box # {} =>
           \/ caller'[c].box = caller[c].box
           \/ caller'[c].got = caller[c].box
           \/ caller'[c].st = "idle"]_vars
  BY FirstAnswerStep
<1> QED
  BY <1>1, TypeCorrect, PTL DEF Spec, FirstAnswerWins

----------------------------------------------------------------------------
(* An entry whose number is still in the queue has not left it.            *)
LEMMA StaysQueued ==
    ASSUME NEW p \in pending, NEW q \in pending', q.id = p.id
    PROVE  ~Left(p)
BY DEF Left

(* A request a Fetch with time left waits for is not stale.                *)
LEMMA WantedIsFresh ==
    ASSUME TypeOK, StaleHasTimedOut, NEW p \in pending, Wanted(p)
    PROVE  p \in Fresh
<1>1. p.age \in 0..StaleAge
  BY DEF TypeOK, Entries
<1>2. PICK c \in Callers : /\ caller[c].st = "waiting"
                           /\ caller[c].id = p.id
                           /\ caller[c].age < FetchTimeout
  BY DEF Wanted
<1>3. p.age # StaleAge
  BY <1>2, TimesAssumption DEF StaleHasTimedOut
<1> QED
  BY <1>1, <1>3, TimesAssumption DEF Fresh

(* Of the steps of one run of the server only the reply to a poll takes a  *)
(* wanted request from the queue, and it takes one.                        *)
LEMMA DropStep ==
    ASSUME TypeOK, StaleHasTimedOut, [Next]_vars, epoch' = epoch
    PROVE  /\ \A p, q \in pending : Wanted(p) /\ Wanted(q) /\ Left(p) /\ Left(q)
                                    => p = q
           /\ \A p \in pending : Wanted(p) /\ Left(p) =>
                \E h \in Handlers : /\ handler[h].st \in {"arrived", "checking"}
                                    /\ handler'[h].st = "free"
<1> DEFINE kept == \A p \in pending : Wanted(p) => ~Left(p)
<1>1. ASSUME pending \subseteq pending' PROVE kept
  BY <1>1, StaysQueued
<1>2. ASSUME NEW h \in Handlers, PollTake(h)
      PROVE  /\ \A p, q \in pending : Wanted(p) /\ Wanted(q) /\ Left(p) /\ Left(q)
                                      => p = q
             /\ handler[h].st \in {"arrived", "checking"} /\ handler'[h].st = "free"
  <2>1. PICK r \in Fresh : pending' = Fresh \ {r}
    BY <1>2 DEF PollTake
  <2>2. ASSUME NEW p \in pending, Wanted(p), Left(p) PROVE p = r
    BY <2>1, <2>2, WantedIsFresh, StaysQueued
  <2> QED
    BY <1>2, <2>2 DEF PollTake, NoPoll, TypeOK
<1>3. ASSUME NEW h \in Handlers, PollEmpty(h) PROVE kept
  BY <1>3, WantedIsFresh DEF PollEmpty
<1>4. CASE Tick
  <2>1. ASSUME NEW p \in pending PROVE ~Left(p)
    <3> DEFINE q == [p EXCEPT !.age = Older(@, StaleAge)]
    <3>1. q \in pending' /\ q.id = p.id
      BY <1>4 DEF Tick, TypeOK, Entries
    <3> QED
      BY <3>1, StaysQueued
  <2> QED
    BY <2>1
<1>5. CASE Restart
  BY <1>5 DEF Restart, TypeOK
<1>6. ASSUME NEW c \in Callers, CallerStep(c) PROVE pending \subseteq pending'
  BY <1>6 DEF CallerStep, FetchEnqueue, FetchReceive, FetchTimesOut, FetchReturn
<1>7. ASSUME \/ \E c \in Callers, u \in Urls : FetchBegin(c, u)
             \/ \E t \in Tabs, h \in Handlers : PollArrive(t, h)
             \/ \E h \in Handlers : PollTick(h) \/ PollDeadline(h)
             \/ \E t \in Tabs : TabDropsPoll(t) \/ TabCloses(t)
             \/ \E j \in jobs : JobStep(j)
             \/ UNCHANGED vars
      PROVE  pending' = pending
  BY <1>7 DEF FetchBegin, PollArrive, PollTick, PollDeadline, TabDropsPoll, TabCloses,
              JobStep, JobFetched, PostFails, PostLookup, PostSend, vars
<1> QED
  BY <1>1, <1>2, <1>3, <1>4, <1>5, <1>6, <1>7 DEF Next, HandlerStep

(* While the server runs, dequeue (relay.go:193) loses no request that a   *)
(* Fetch with time left waits for.                                         *)
THEOREM NothingLost == Spec => NoSilentDrop
<1>1. TypeOK /\ StaleHasTimedOut /\ [Next]_vars =>
        [epoch' = epoch =>
           /\ \A p, q \in pending : Wanted(p) /\ Wanted(q) /\ Left(p) /\ Left(q)
                                    => p = q
           /\ \A p \in pending : Wanted(p) /\ Left(p) =>
                \E h \in Handlers : /\ handler[h].st \in {"arrived", "checking"}
                                    /\ handler'[h].st = "free"]_vars
  BY DropStep
<1> QED
  BY <1>1, TypeCorrect, StaleIsSafe, PTL DEF Spec, NoSilentDrop

----------------------------------------------------------------------------
(* In a relay that is not restarted every answer is of this run, and a     *)
(* call that is not over has taken none.                                   *)
Settled ==
    /\ epoch = 0
    /\ \A c \in Callers :
         /\ \A a \in caller[c].box \cup caller[c].got : a.epoch = 0
         /\ caller[c].st \in {"allocated", "waiting"} => caller[c].got = {}

(* A relay that has not restarted starts settled.                          *)
LEMMA SettledInit == Init => Settled
BY DEF Init, Settled, NoCall

(* A relay that never restarts stays settled.                              *)
LEMMA SettledStep ==
    ASSUME MaxRestarts = 0, TypeOK, JobsOwned, Settled, [Next]_vars
    PROVE  Settled'
<1> USE DEF TypeOK, Settled
<1>1. ASSUME NEW c \in Callers, NEW u \in Urls, FetchBegin(c, u) PROVE Settled'
  BY <1>1 DEF FetchBegin
<1>2. ASSUME NEW c \in Callers, CallerStep(c) PROVE Settled'
  <2>1. CASE FetchEnqueue(c)
    BY <2>1 DEF FetchEnqueue, CallStates, NoCall
  <2>2. CASE FetchReceive(c)
    BY <2>2 DEF FetchReceive, CallStates, NoCall
  <2>3. CASE FetchTimesOut(c)
    BY <2>3 DEF FetchTimesOut, CallStates, NoCall
  <2>4. CASE FetchReturn(c)
    BY <2>4 DEF FetchReturn, NoCall
  <2> QED
    BY <1>2, <2>1, <2>2, <2>3, <2>4 DEF CallerStep
<1>3. ASSUME NEW j \in jobs, PostSend(j) PROVE Settled'
  <2>1. j.epoch = 0
    BY DEF JobsOwned, Jobs
  <2>2. ASSUME NEW c \in Callers
        PROVE  /\ \A a \in caller'[c].box \cup caller'[c].got : a.epoch = 0
               /\ caller'[c].st \in {"allocated", "waiting"} => caller'[c].got = {}
    <3>1. CASE Registered(c) /\ caller[c].id = j.id /\ caller[c].box = {}
      <4>1. caller'[c] = [caller[c] EXCEPT !.box = {[url |-> j.url, kind |-> j.kind,
                                                     epoch |-> j.epoch]}]
        BY <1>3, <3>1 DEF PostSend
      <4>2. /\ caller'[c].box = {[url |-> j.url, kind |-> j.kind, epoch |-> j.epoch]}
            /\ caller'[c].got = caller[c].got /\ caller'[c].st = caller[c].st
        BY <4>1, <3>1 DEF CallStates, NoCall, Registered
      <4> QED
        BY <2>1, <4>2
    <3>2. CASE ~(Registered(c) /\ caller[c].id = j.id /\ caller[c].box = {})
      <4>1. caller'[c] = caller[c]
        BY <1>3, <3>2 DEF PostSend
      <4> QED
        BY <4>1
    <3> QED
      BY <3>1, <3>2
  <2> QED
    BY <1>3, <2>2 DEF PostSend
<1>4. CASE Tick
  <2>1. ASSUME NEW c \in Callers
        PROVE  /\ caller'[c].box = caller[c].box /\ caller'[c].got = caller[c].got
               /\ caller'[c].st = caller[c].st
    BY <1>4 DEF Tick, CallStates, NoCall
  <2> QED
    BY <1>4, <2>1 DEF Tick
<1>5. ~Restart
  BY DEF Restart
<1>6. ASSUME UNCHANGED <<caller, epoch>> PROVE Settled'
  BY <1>6
<1> QED
  BY <1>1, <1>2, <1>3, <1>4, <1>5, <1>6
     DEF Next, PollArrive, HandlerStep, PollTake, PollEmpty, PollTick, PollDeadline,
         TabDropsPoll, TabCloses, JobStep, JobFetched, PostFails, PostLookup, vars

(* The calls of FetchService, as Relay has them.                           *)
Mapped == [c \in Callers |-> CallOf(c)]

(* A call whose state, URL and result stay is the same call to its user.   *)
LEMMA SameCall ==
    ASSUME NEW c \in Callers,
           \/ caller'[c].st = caller[c].st
           \/ caller[c].st = "allocated" /\ caller'[c].st = "waiting",
           caller'[c].url = caller[c].url,
           caller'[c].got = caller[c].got
    PROVE  CallOf(c)' = CallOf(c)
<1>1. CASE caller'[c].st = caller[c].st
  BY <1>1 DEF CallOf
<1>2. CASE caller[c].st = "allocated" /\ caller'[c].st = "waiting"
  BY <1>2 DEF CallOf
<1> QED
  BY <1>1, <1>2

(* What an open, a finished and an idle call look like to their user.      *)
LEMMA OpenCall ==
    ASSUME NEW c \in Callers, caller[c].st \in {"allocated", "waiting"}
    PROVE  CallOf(c) = [st |-> "open", url |-> caller[c].url]
BY DEF CallOf

LEMMA IdleCall ==
    ASSUME NEW c \in Callers, caller[c].st = "idle"
    PROVE  CallOf(c) = [st |-> "closed", url |-> NoUrl]
BY DEF CallOf

(* The answer a call leaves with is one for its URL.                       *)
EndsRight(c) ==
    caller[c].st = "leaving" =>
        CallOf(c) \in {[st |-> "answered", url |-> caller[c].url],
                       [st |-> "failed", url |-> caller[c].url]}

AllEndRight == \A c \in Callers : EndsRight(c)

(* The answer that was sent to a call is the one it leaves with.           *)
LEMMA OverCall == AnswersMatch /\ Settled => AllEndRight
<1> SUFFICES ASSUME AnswersMatch, Settled,
                    NEW c \in Callers, caller[c].st = "leaving"
             PROVE  EndsRight(c)
  BY DEF AllEndRight, EndsRight
<1>1. \A a \in caller[c].got : a.url = caller[c].url
  BY DEF AnswersMatch, Settled
<1>2. CASE \E a \in caller[c].got : a.kind = "body"
  <2>1. (CHOOSE a \in caller[c].got : TRUE) \in caller[c].got
    BY <1>2
  <2>2. CallOf(c) = [st |-> "answered", url |-> (CHOOSE a \in caller[c].got : TRUE).url]
    BY <1>2 DEF CallOf
  <2> QED
    BY <1>1, <2>1, <2>2 DEF EndsRight
<1>3. CASE ~ \E a \in caller[c].got : a.kind = "body"
  BY <1>3 DEF CallOf, EndsRight
<1> QED
  BY <1>2, <1>3

(* A step after which one call looks different and the others the same.    *)
LEMMA OneCallMoves ==
    ASSUME NEW c \in Callers, NEW r, CallOf(c)' = r,
           \A d \in Callers \ {c} : CallOf(d)' = CallOf(d)
    PROVE  Mapped' = [Mapped EXCEPT ![c] = r]
BY DEF Mapped

(* Every step of a relay that is not restarted is one of FetchService, or  *)
(* none.                                                                   *)
LEMMA PromiseStep ==
    ASSUME MaxRestarts = 0, TypeOK, JobsOwned, AnswersMatch, AnswersMatch',
           Settled, [Next]_vars
    PROVE  [Promise!Next]_Mapped
<1> DEFINE goal == Promise!Next \/ UNCHANGED Mapped
<1>8. AllEndRight
  BY OverCall
<1>9. AllEndRight'
  <2>1. AnswersMatch' /\ Settled' => AllEndRight'
    BY OverCall, PTL
  <2> QED
    BY <2>1, SettledStep
<1>a. ASSUME \A c \in Callers : CallOf(c)' = CallOf(c) PROVE goal
  BY <1>a DEF Mapped
<1>b. ASSUME UNCHANGED caller PROVE goal
  BY <1>a, <1>b DEF CallOf
<1>c. ASSUME NEW c \in Callers, NEW d \in Callers, d # c, caller'[d] = caller[d]
      PROVE  CallOf(d)' = CallOf(d)
  BY <1>c, SameCall
<1>1. ASSUME NEW c \in Callers, NEW u \in Urls, FetchBegin(c, u) PROVE goal
  <2>1. /\ caller'[c].st = "allocated" /\ caller'[c].url = u
        /\ \A d \in Callers \ {c} : caller'[d] = caller[d]
    BY <1>1 DEF FetchBegin, TypeOK
  <2>2. CallOf(c)' = [st |-> "open", url |-> u]
    BY <2>1 DEF CallOf
  <2>3. CallOf(c) = [st |-> "closed", url |-> NoUrl]
    BY <1>1, IdleCall DEF FetchBegin
  <2>4. Mapped' = [Mapped EXCEPT ![c] = [st |-> "open", url |-> u]]
    BY <2>1, <2>2, <1>c, OneCallMoves
  <2>5. Promise!Open(c, u)
    BY <2>3, <2>4 DEF Mapped, Promise!Open, Promise!Closed
  <2> QED
    BY <2>5 DEF Promise!Next
<1>2. ASSUME NEW c \in Callers, FetchEnqueue(c) PROVE goal
  <2>1. /\ caller[c].st = "allocated" /\ caller'[c].st = "waiting"
        /\ caller'[c].url = caller[c].url /\ caller'[c].got = caller[c].got
    BY <1>2 DEF FetchEnqueue, TypeOK, CallStates, NoCall
  <2>2. \A d \in Callers \ {c} : caller'[d] = caller[d]
    BY <1>2 DEF FetchEnqueue, TypeOK
  <2>3. CallOf(c)' = CallOf(c)
    BY <2>1, SameCall
  <2> QED
    BY <2>2, <2>3, <1>a, <1>c
<1>3. ASSUME NEW c \in Callers, FetchReceive(c) \/ FetchTimesOut(c) PROVE goal
  <2>1. /\ caller[c].st = "waiting" /\ caller'[c].st = "leaving"
        /\ caller'[c].url = caller[c].url
        /\ \A d \in Callers \ {c} : caller'[d] = caller[d]
    <3>1. CASE FetchReceive(c)
      BY <3>1 DEF FetchReceive, TypeOK, CallStates, NoCall
    <3>2. CASE FetchTimesOut(c)
      BY <3>2 DEF FetchTimesOut, TypeOK, CallStates, NoCall
    <3> QED
      BY <1>3, <3>1, <3>2
  <2>2. Mapped[c] = [st |-> "open", url |-> caller[c].url]
    BY <2>1, OpenCall DEF Mapped
  <2>3. CallOf(c)' \in {[st |-> "answered", url |-> caller[c].url],
                       [st |-> "failed", url |-> caller[c].url]}
    <3>1. CallOf(c)' \in {[st |-> "answered", url |-> caller'[c].url],
                         [st |-> "failed", url |-> caller'[c].url]}
      BY <1>9, <2>1 DEF AllEndRight, EndsRight
    <3> QED
      BY <2>1, <3>1
  <2>4. CASE CallOf(c)' = [st |-> "answered", url |-> caller[c].url]
    <3>1. Mapped' = [Mapped EXCEPT ![c].st = "answered"]
      BY <2>1, <2>2, <2>4, <1>c, OneCallMoves
    <3>2. Promise!Answer(c)
      BY <2>2, <3>1 DEF Mapped, Promise!Answer
    <3> QED
      BY <3>2 DEF Promise!Next
  <2>5. CASE CallOf(c)' = [st |-> "failed", url |-> caller[c].url]
    <3>1. Mapped' = [Mapped EXCEPT ![c].st = "failed"]
      BY <2>1, <2>2, <2>5, <1>c, OneCallMoves
    <3>2. Promise!Fail(c)
      BY <2>2, <3>1 DEF Mapped, Promise!Fail
    <3> QED
      BY <3>2 DEF Promise!Next
  <2> QED
    BY <2>3, <2>4, <2>5
<1>4. ASSUME NEW c \in Callers, FetchReturn(c) PROVE goal
  <2>1. /\ caller[c].st = "leaving" /\ caller'[c].st = "idle"
        /\ \A d \in Callers \ {c} : caller'[d] = caller[d]
    BY <1>4 DEF FetchReturn, TypeOK, NoCall
  <2>2. Mapped[c].st \in {"answered", "failed"}
    BY <2>1, <1>8 DEF AllEndRight, EndsRight, Mapped
  <2>3. Mapped' = [Mapped EXCEPT ![c] = [st |-> "closed", url |-> NoUrl]]
    <3>1. CallOf(c)' = [st |-> "closed", url |-> NoUrl]
      BY <2>1 DEF CallOf
    <3> QED
      BY <2>1, <3>1, <1>c, OneCallMoves
  <2>4. Promise!Close(c)
    BY <2>2, <2>3 DEF Mapped, Promise!Close, Promise!Closed
  <2> QED
    BY <2>4 DEF Promise!Next
<1>5. ASSUME NEW j \in jobs, PostSend(j) PROVE goal
  <2>1. ASSUME NEW d \in Callers
        PROVE  /\ caller'[d].st = caller[d].st /\ caller'[d].url = caller[d].url
               /\ caller'[d].got = caller[d].got
    BY <1>5 DEF PostSend, Registered, TypeOK, CallStates, NoCall
  <2> QED
    BY <2>1, <1>a, SameCall
<1>6. ASSUME Tick PROVE goal
  <2>1. ASSUME NEW d \in Callers
        PROVE  /\ caller'[d].st = caller[d].st /\ caller'[d].url = caller[d].url
               /\ caller'[d].got = caller[d].got
    BY <1>6 DEF Tick, TypeOK, CallStates, NoCall
  <2> QED
    BY <2>1, <1>a, SameCall
<1>7. ~Restart
  BY DEF Restart, Settled
<1> HIDE DEF goal
<1>10. ASSUME NEW t \in Tabs, NEW h \in Handlers, PollArrive(t, h) PROVE goal
  BY <1>b, <1>10 DEF PollArrive
<1>11. ASSUME NEW h \in Handlers, HandlerStep(h) PROVE goal
  BY <1>b, <1>11 DEF HandlerStep, PollTake, PollEmpty, PollTick, PollDeadline
<1>12. ASSUME NEW t \in Tabs, TabDropsPoll(t) \/ TabCloses(t) PROVE goal
  BY <1>b, <1>12 DEF TabDropsPoll, TabCloses
<1>13. ASSUME NEW j \in jobs, JobStep(j) PROVE goal
  BY <1>b, <1>5, <1>13 DEF JobStep, JobFetched, PostFails, PostLookup
<1>14. ASSUME UNCHANGED vars PROVE goal
  BY <1>b, <1>14 DEF vars
<1>15. goal
  BY <1>1, <1>2, <1>3, <1>4, <1>6, <1>7, <1>10, <1>11, <1>12, <1>13, <1>14
     DEF Next, CallerStep
<1> QED
  BY <1>15 DEF goal

(* Server.Fetch (relay.go:65) in a bridge that is not restarted: every     *)
(* call, of any number at once, is answered with the body of its own URL   *)
(* or fails, and ends once.                                                *)
THEOREM Refinement ==
    ASSUME MaxRestarts = 0
    PROVE  Spec => KeepsPromise
<1>1. Init => Promise!Init
  BY IdleCall DEF Init, NoCall, Promise!Init, Promise!Closed
<1>2. /\ IInv /\ IInv' /\ Settled /\ [Next]_vars => Settled'
      /\ IInv /\ IInv' /\ Settled /\ [Next]_vars => [Promise!Next]_Mapped
  BY SettledStep, PromiseStep DEF IInv
<1>3. [Promise!Next]_Mapped => [Promise!Next]_[c \in Callers |-> CallOf(c)]
  BY DEF Mapped
<1> QED
  BY <1>1, <1>2, <1>3, Invariance, SettledInit, PTL
     DEF Spec, KeepsPromise, Promise!Spec
=============================================================================
