---------------------------- MODULE CacheManager ----------------------------
(***************************************************************************)
(* The cache manager (internal/cache/manager.go): the log of torrent       *)
(* accesses, the background loop that reconciles it with the engine, and   *)
(* the cleanup the loop and POST /api/cache/cleanup run, possibly at once. *)
(*                                                                         *)
(* The engine is another program.  Every call to it is a step of its own,  *)
(* made with the log unlocked, and it changes between them: streams add    *)
(* torrents, the API and the engine adapters remove them.                  *)
(***************************************************************************)
EXTENDS Integers, Sequences, FiniteSets, SequencesExt

CONSTANTS
    Torrents,    \* info hashes
    SizeOf,      \* SizeOf[h]: the size of torrent h, once its metadata is there
    Cleaners,    \* goroutines that run RunCleanup
    Loop,        \* the one of them that is CacheManager.loop
    CacheSizes,  \* what config.CacheSizeGB may be, in bytes
    MaxAges,     \* what config.CacheMaxAgeDays may be, in ticks
    Configured,  \* the limits that config.Load finds
    Changes,     \* the limits clients ask for, with age 0 when it stays
    Width,       \* an int64 counts bytes, or ticks, from -Width to Width - 1
    MaxUpdates,  \* bound: changes of the settings
    MaxStreams,  \* bound: streams opened
    MaxNow       \* bound: up to when time passes by itself

ASSUME SizesAssumption == SizeOf \in [Torrents -> Nat \ {0}]
ASSUME LimitsAssumption == /\ CacheSizes \subseteq Nat \ {0}
                           /\ MaxAges \subseteq Nat \ {0}
                           /\ Configured \in [size : CacheSizes, age : MaxAges]
                           /\ Changes \subseteq [size : CacheSizes,
                                                age : MaxAges \cup {0}]
                           /\ Width \in Nat \ {0}
ASSUME CleanersAssumption == Loop \in Cleaners
ASSUME BoundsAssumption == MaxUpdates \in Nat /\ MaxStreams \in Nat /\ MaxNow \in Nat

VARIABLES
    engine,     \* the torrents the engine has: hash -> TotalSize, 0 at first
    log,        \* accessLog: hash -> LastAccessed and Size
    recording,  \* RecordAccess calls under way, each with the size it read
    cleaner,    \* where each cleaner is
    now,        \* the clock; no two accesses read the same time
    streams,    \* streams opened so far
    config      \* the limits in force, how often they were set, and the
                \* requests that have set the one and not yet the other

vars == <<engine, log, recording, cleaner, now, streams, config>>

Entries == [last : Nat, size : Nat]

IdleCleaner == [pc |-> "idle", seen |-> <<>>, todo |-> <<>>]

(* A log that load() finds (module CacheFile) is as one made since: no     *)
(* cleaner is at work yet, and the engine may have lost any torrent.       *)
Init ==
    /\ engine = <<>>
    /\ log = <<>>
    /\ recording = {}
    /\ cleaner = [k \in Cleaners |-> IdleCleaner]
    /\ now = 0
    /\ streams = 0
    /\ config = [size |-> Configured.size, age |-> Configured.age,
                  updates |-> 0, due |-> {}]

----------------------------------------------------------------------------
(* Maps, as functions on the set of their keys.                            *)
Without(map, h) == [g \in DOMAIN map \ {h} |-> map[g]]

With(map, h, value) == [g \in DOMAIN map \cup {h} |-> IF g = h THEN value ELSE map[g]]

Bytes(S) == MapThenSumSet(LAMBDA h : log[h].size, S)

----------------------------------------------------------------------------
(* The engine.  A stream makes it add the torrent, and reads its info for  *)
(* RecordAccess: without a size when the call fails, or has come before    *)
(* the metadata.                                                           *)
StreamStarts(h) ==
    /\ streams < MaxStreams
    /\ streams' = streams + 1
    /\ \E size \in {0, SizeOf[h]} :
         /\ engine' = IF size = 0 /\ h \in DOMAIN engine THEN engine
                      ELSE With(engine, h, size)
         /\ recording' = recording \cup {[hash |-> h, size |-> size]}
    /\ UNCHANGED <<log, cleaner, now, config>>

MetadataArrives(h) ==
    /\ h \in DOMAIN engine
    /\ engine[h] = 0
    /\ engine' = [engine EXCEPT ![h] = SizeOf[h]]
    /\ UNCHANGED <<log, recording, cleaner, now, streams, config>>

(* HandleRemoveTorrent, or an adapter that removes other torrents: the log *)
(* is not told.                                                            *)
EngineDrops(h) ==
    /\ h \in DOMAIN engine
    /\ engine' = Without(engine, h)
    /\ UNCHANGED <<log, recording, cleaner, now, streams, config>>

----------------------------------------------------------------------------
(* HandleUpdateConfig, when it changes a limit: the size, and after it the *)
(* age, under no lock.  A size left out is as one set to what it is; an    *)
(* age left out, or not positive, ends the request with the size in force. *)
HandleUpdateConfig(new) ==
    /\ config.updates < MaxUpdates
    /\ LET n == config.updates + 1
       IN  config' = [config EXCEPT
                        !.size = new.size, !.updates = n,
                        !.due = IF new.age > 0
                                THEN @ \cup {[update |-> n, age |-> new.age]} ELSE @]
    /\ UNCHANGED <<engine, log, recording, cleaner, now, streams>>

UpdateMaxAge(u) ==
    /\ config' = [config EXCEPT !.age = u.age, !.due = @ \ {u}]
    /\ UNCHANGED <<engine, log, recording, cleaner, now, streams>>

----------------------------------------------------------------------------
(* Variant: an access is stamped with the time of the one before.          *)
RecordAccess_StaleTime(r) ==
    /\ recording' = recording \ {r}
    /\ now' = now + 1
    /\ log' = With(log, r.hash,
                   [last |-> now - 1,
                    size |-> IF r.size > 0 THEN r.size
                             ELSE IF r.hash \in DOMAIN log THEN log[r.hash].size
                             ELSE 0])
    /\ UNCHANGED <<engine, cleaner, streams, config>>

RecordAccess(r) ==
    /\ recording' = recording \ {r}
    /\ now' = now + 1
    /\ log' = With(log, r.hash,
                   [last |-> now + 1,
                    size |-> IF r.size > 0 THEN r.size
                             ELSE IF r.hash \in DOMAIN log THEN log[r.hash].size
                             ELSE 0])
    /\ UNCHANGED <<engine, cleaner, streams, config>>

(* syncWithEngine: the list is read first, and the log locked after.  A    *)
(* failed list ends the round with nothing changed.                        *)
ListTorrents ==
    /\ cleaner[Loop].pc = "idle"
    /\ cleaner' = [cleaner EXCEPT ![Loop].pc = "listed", ![Loop].seen = engine]
    /\ UNCHANGED <<engine, log, recording, now, streams, config>>

(* Variant: an entry made without a size keeps none.                       *)
Reconcile_FillsNoSizes ==
    /\ cleaner[Loop].pc = "listed"
    /\ LET seen == cleaner[Loop].seen
           new  == DOMAIN seen \ DOMAIN log
       IN  /\ log' = [h \in DOMAIN seen |->
                        IF h \in new THEN [last |-> now, size |-> seen[h]] ELSE log[h]]
           /\ now' = now + Cardinality(new)
    /\ cleaner' = [cleaner EXCEPT ![Loop].pc = "ready", ![Loop].seen = <<>>]
    /\ UNCHANGED <<engine, recording, streams, config>>

(* Variant: entries are never added, only filled and deleted.              *)
Reconcile_AddsNone ==
    /\ cleaner[Loop].pc = "listed"
    /\ log' = [h \in DOMAIN log \cap DOMAIN cleaner[Loop].seen |->
                 [log[h] EXCEPT !.size = IF @ = 0 THEN cleaner[Loop].seen[h] ELSE @]]
    /\ cleaner' = [cleaner EXCEPT ![Loop].pc = "ready", ![Loop].seen = <<>>]
    /\ UNCHANGED <<engine, recording, now, streams, config>>

Reconcile ==
    /\ cleaner[Loop].pc = "listed"
    /\ LET seen == cleaner[Loop].seen
           new  == DOMAIN seen \ DOMAIN log
       IN  /\ now' = now + Cardinality(new)
           /\ \E stamp \in Injection(new, (now + 1)..now') :
                log' = [h \in DOMAIN seen |->
                          IF h \in new THEN [last |-> stamp[h], size |-> seen[h]]
                          ELSE IF log[h].size = 0 THEN [log[h] EXCEPT !.size = seen[h]]
                          ELSE log[h]]
    /\ cleaner' = [cleaner EXCEPT ![Loop].pc = "ready", ![Loop].seen = <<>>]
    /\ UNCHANGED <<engine, recording, streams, config>>

----------------------------------------------------------------------------
(* Variant: newest first.                                                  *)
InOrder_NewestFirst(S) ==
    {order \in SetToSeqs(S) : \A i, j \in DOMAIN order :
        i < j => log[order[i]].last >= log[order[j]].last}

(* RunCleanup.  Under the lock: the entries oldest first, those past their *)
(* age, and of the rest as many from the front as it takes to fit.  (Two   *)
(* of the same age would come in any order.)                               *)
InOrder(S) ==
    {order \in SetToSeqs(S) : \A i, j \in DOMAIN order :
        i < j => log[order[i]].last <= log[order[j]].last}

(* The limits are multiplied out, to nanoseconds and bytes, in an int64.   *)
(* The age is read just before the size, and set after it: what a change   *)
(* leaves between the two is all that a cleanup can see of it besides.     *)
Wrapped(limit) == ((limit + Width) % (2 * Width)) - Width

Expired == {h \in DOMAIN log : now > log[h].last + Wrapped(config.age)}

(* What is left of the entries that are young enough, without the first n. *)
Left(remaining, n) == {remaining[i] : i \in (n + 1)..Len(remaining)}

(* The loop over them: drop them one by one while those left are too big.  *)
DropsUntilFits(remaining, n) ==
    /\ n = Len(remaining) \/ Bytes(Left(remaining, n)) <= Wrapped(config.size)
    /\ \A i \in 0..(n - 1) : Bytes(Left(remaining, i)) > Wrapped(config.size)

SelectVictims(k) ==
    /\ cleaner[k].pc = IF k = Loop THEN "ready" ELSE "idle"
    /\ \E expired \in InOrder(Expired), remaining \in InOrder(DOMAIN log \ Expired) :
       \E n \in 0..Len(remaining) :
          /\ DropsUntilFits(remaining, n)
          /\ LET victims == expired \o SubSeq(remaining, 1, n)
             IN  cleaner' = [cleaner EXCEPT ![k] =
                               IF victims = <<>> THEN IdleCleaner
                               ELSE [IdleCleaner EXCEPT !.pc = "removing",
                                                        !.todo = victims]]
    /\ UNCHANGED <<engine, log, recording, now, streams, config>>

(* The next victim, with the log unlocked.  An engine may say it removed a *)
(* torrent it did not have.                                                *)
RemoveTorrent(k) ==
    /\ cleaner[k].pc = "removing"
    /\ cleaner[k].todo # <<>>
    /\ engine' = Without(engine, Head(cleaner[k].todo))
    /\ cleaner' = [cleaner EXCEPT ![k].pc = "deleting"]
    /\ UNCHANGED <<log, recording, now, streams, config>>

(* The call fails, or times out after the engine did what it was asked:    *)
(* on to the next.                                                         *)
RemoveFails(k) ==
    /\ cleaner[k].pc = "removing"
    /\ cleaner[k].todo # <<>>
    /\ engine' \in {engine, Without(engine, Head(cleaner[k].todo))}
    /\ cleaner' = [cleaner EXCEPT ![k].todo = Tail(@)]
    /\ UNCHANGED <<log, recording, now, streams, config>>

DeleteEntry(k) ==
    /\ cleaner[k].pc = "deleting"
    /\ log' = Without(log, Head(cleaner[k].todo))
    /\ cleaner' = [cleaner EXCEPT ![k].pc = "removing", ![k].todo = Tail(@)]
    /\ UNCHANGED <<engine, recording, now, streams, config>>

CleanupReturns(k) ==
    /\ cleaner[k].pc = "removing"
    /\ cleaner[k].todo = <<>>
    /\ cleaner' = [cleaner EXCEPT ![k] = IdleCleaner]
    /\ UNCHANGED <<engine, log, recording, now, streams, config>>

Tick ==
    /\ now < MaxNow
    /\ now' = now + 1
    /\ UNCHANGED <<engine, log, recording, cleaner, streams, config>>

CleanupStep(k) == \/ SelectVictims(k) \/ RemoveTorrent(k) \/ RemoveFails(k)
                  \/ DeleteEntry(k) \/ CleanupReturns(k)

Next ==
    \/ \E h \in Torrents : StreamStarts(h) \/ MetadataArrives(h) \/ EngineDrops(h)
    \/ \E r \in recording : RecordAccess(r)
    \/ ListTorrents
    \/ Reconcile
    \/ \E k \in Cleaners : CleanupStep(k)
    \/ Tick
    \/ \E new \in Changes : HandleUpdateConfig(new)
    \/ \E u \in config.due : UpdateMaxAge(u)

Spec == Init /\ [][Next]_vars

(* The goroutines run.  The engine gets the metadata of a torrent it keeps *)
(* and does not fail every removal it is asked for; nothing is asked of    *)
(* the viewers, of other removals, of the clock, or of the settings.       *)
Fairness ==
    /\ \A h \in Torrents : WF_vars(MetadataArrives(h))
    /\ WF_vars(\E r \in recording : RecordAccess(r))
    /\ WF_vars(ListTorrents \/ Reconcile \/ SelectVictims(Loop))
    /\ \A k \in Cleaners : /\ SF_vars(RemoveTorrent(k))
                           /\ WF_vars(DeleteEntry(k) \/ CleanupReturns(k))

FairSpec == Spec /\ Fairness

----------------------------------------------------------------------------
IsMap(map, values) == /\ DOMAIN map \subseteq Torrents
                      /\ map \in [DOMAIN map -> values]

(* The types: engine and accessLog are maps, and what a cleanup has still  *)
(* to remove is a list of torrents.                                        *)
TypeOK ==
    /\ IsMap(engine, Nat)
    /\ IsMap(log, Entries)
    /\ recording \subseteq [hash : Torrents, size : Nat]
    /\ now \in Nat /\ streams \in 0..MaxStreams
    /\ config \in [size : CacheSizes, age : MaxAges, updates : 0..MaxUpdates,
                   due : SUBSET [update : 1..MaxUpdates, age : MaxAges]]
    /\ \A k \in Cleaners :
         /\ cleaner[k].pc \in {"idle", "listed", "ready", "removing", "deleting"}
         /\ IsMap(cleaner[k].seen, Nat)
         /\ cleaner[k].todo \in Seq(Torrents)

(* What a cleanup selects, when the settings fit an int64: the entries it  *)
(* keeps are young enough and fit the limit, every victim was used before  *)
(* every kept one, and the victim used last, unless it is too old, would   *)
(* not have fitted.                                                        *)
SelectionSound ==
    [][config.size < Width /\ config.age < Width => \A k \in Cleaners : SelectVictims(k) =>
         LET victims == ToSet(cleaner'[k].todo)
             kept    == DOMAIN log \ victims
             old(h)  == now - log[h].last > config.age
         IN  /\ Bytes(kept) <= config.size
             /\ \A h \in kept : ~old(h)
             /\ \A v \in victims, h \in kept : log[v].last < log[h].last
             /\ \A v \in victims :
                  (\A w \in victims : log[w].last <= log[v].last)
                  => old(v) \/ Bytes(kept \cup {v}) > config.size]_vars

(* However a removal, an access and a reconciliation interleave, the log   *)
(* comes to agree with the engine on each torrent again.                   *)
LogFollowsEngine ==
    \A h \in Torrents : []<>((h \in DOMAIN log) = (h \in DOMAIN engine))

(* The size limit is enforced: once no stream is opened any more, what the *)
(* engine holds comes to fit the limit last set, by a request that was     *)
(* refused half-way too, and stays so, although sizes are learnt late,     *)
(* removals fail, and entries are lost and made anew in between.           *)
UsageFits ==
    <>[](MapThenSumSet(LAMBDA h : engine[h], DOMAIN engine) <= config.size)
=============================================================================
