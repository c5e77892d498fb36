------------------------- MODULE CacheManagerProofs -------------------------
(***************************************************************************)
(* Proofs about CacheManager, for every set of torrents and of cleaners,   *)
(* all sizes, limits and bounds.                                           *)
(***************************************************************************)
EXTENDS CacheManager, FiniteSetTheorems, SequenceTheorems, TLAPS

(* Nothing takes no bytes.                                                 *)
LEMMA BytesOfNone == Bytes({}) = 0
<1> DEFINE sum(iter) == [s \in SUBSET {} |->
                           IF s = {} THEN 0
                           ELSE log[CHOOSE x \in s : TRUE].size
                                + iter[s \ {CHOOSE x \in s : TRUE}]]
           nothing == [s \in SUBSET {} |-> 0]
           chosen == CHOOSE iter : iter = sum(iter)
<1>1. nothing = sum(nothing)
  OBVIOUS
<1>2. chosen = sum(chosen)
  BY <1>1
<1>3. chosen[{}] = 0
  BY <1>2
<1>4. Bytes({}) = chosen[{}]
  BY DEF Bytes, MapThenSumSet, MapThenFoldSet
<1> QED
  BY <1>3, <1>4

(* A limit that fits an int64 is what it is.                               *)
LEMMA WrappedFits ==
    ASSUME NEW limit \in Nat, limit < Width
    PROVE  Wrapped(limit) = limit
<1> DEFINE a == limit + Width
           b == 2 * Width
<1>1. a \in Nat /\ b \in Nat /\ 0 < b /\ a < b
  BY LimitsAssumption
<1>2. a % b = a
  <2> HIDE DEF a, b
  <2> QED
    BY <1>1
<1>3. Wrapped(limit) = (a % b) - Width
  BY DEF Wrapped
<1> HIDE DEF b
<1> QED
  BY <1>2, <1>3, LimitsAssumption

----------------------------------------------------------------------------
(* What is in a list.                                                      *)
Listed(order) == {order[i] : i \in 1..Len(order)}

(* The entries of S in an order: each once, and none before an older one.  *)
LEMMA OrderProperties ==
    ASSUME NEW S, IsFiniteSet(S), NEW order \in InOrder(S)
    PROVE  /\ order \in Seq(S)
           /\ S = Listed(order)
           /\ \A i, j \in 1..Len(order) : order[i] = order[j] => i = j
           /\ \A i, j \in 1..Len(order) :
                i < j => log[order[i]].last <= log[order[j]].last
<1>1. Cardinality(S) \in Nat
  BY FS_CardinalityType
<1>2. /\ order \in [1..Cardinality(S) -> S]
      /\ \A i, j \in 1..Cardinality(S) : i # j => order[i] # order[j]
      /\ \A i, j \in DOMAIN order :
           i < j => log[order[i]].last <= log[order[j]].last
  BY DEF InOrder, SetToSeqs
<1>3. order \in Seq(S) /\ Len(order) = Cardinality(S)
  BY <1>1, <1>2
<1>4. order \in Surjection(1..Cardinality(S), S)
  <2>1. order \in Injection(1..Cardinality(S), S)
    BY <1>2 DEF Injection, IsInjective
  <2>2. Cardinality(1..Cardinality(S)) = Cardinality(S)
    BY <1>1, FS_Interval
  <2> QED
    BY <2>1, <2>2, FS_Injection
<1>5. S = {order[i] : i \in 1..Cardinality(S)}
  BY <1>2, <1>4 DEF Surjection
<1> QED
  BY <1>2, <1>3, <1>5 DEF Listed

(* What SelectVictims selects.                                             *)
Selected(expired, remaining, n) == expired \o SubSeq(remaining, 1, n)

(* The victims are the expired entries and the first n of the others, and  *)
(* the entries kept are the rest.                                          *)
LEMMA SelectedProperties ==
    ASSUME IsFiniteSet(DOMAIN log),
           NEW expired \in InOrder(Expired),
           NEW remaining \in InOrder(DOMAIN log \ Expired),
           NEW n \in 0..Len(remaining)
    PROVE  /\ Selected(expired, remaining, n) \in Seq(DOMAIN log)
           /\ ToSet(Selected(expired, remaining, n))
                = Expired \cup {remaining[i] : i \in 1..n}
           /\ DOMAIN log \ ToSet(Selected(expired, remaining, n))
                = Left(remaining, n)
<1> DEFINE young == DOMAIN log \ Expired
           front == SubSeq(remaining, 1, n)
           victims == Selected(expired, remaining, n)
<1>0. IsFiniteSet(Expired) /\ IsFiniteSet(young) /\ Expired \subseteq DOMAIN log
  BY FS_Subset DEF Expired
<1>1. /\ expired \in Seq(Expired)
      /\ Expired = Listed(expired)
  BY <1>0, OrderProperties
<1>2. /\ remaining \in Seq(young)
      /\ young = Listed(remaining)
      /\ \A i, j \in 1..Len(remaining) : remaining[i] = remaining[j] => i = j
  BY <1>0, OrderProperties
<1>3. /\ front \in Seq(young) /\ Len(front) = n
      /\ \A i \in 1..n : front[i] = remaining[i]
  BY <1>2, SubSeqProperties
<1>4. expired \in Seq(DOMAIN log) /\ front \in Seq(DOMAIN log)
  BY <1>0, <1>1, <1>3
<1> HIDE DEF front
<1>5. /\ victims \in Seq(DOMAIN log)
      /\ Len(victims) = Len(expired) + n
      /\ \A i \in 1..(Len(expired) + n) :
           victims[i] = IF i <= Len(expired) THEN expired[i] ELSE front[i - Len(expired)]
  <2>1. victims = expired \o front
    BY DEF front, Selected
  <2>2. Len(expired) \in Nat
    BY <1>4
  <2> QED
    <3>1. /\ expired \o front \in Seq(DOMAIN log)
          /\ Len(expired \o front) = Len(expired) + Len(front)
          /\ \A i \in 1..(Len(expired) + Len(front)) :
               (expired \o front)[i] = IF i <= Len(expired) THEN expired[i]
                                       ELSE front[i - Len(expired)]
      BY <1>4, ConcatProperties
    <3> HIDE DEF victims
    <3> QED
      BY <1>3, <2>1, <3>1
<1> HIDE DEF victims
<1>6. ToSet(victims) = Expired \cup {remaining[i] : i \in 1..n}
  <2>1. ToSet(victims) = {victims[i] : i \in 1..(Len(expired) + n)}
    <3>1. DOMAIN victims = 1..(Len(expired) + n)
      BY <1>5
    <3> QED
      BY <3>1 DEF ToSet
  <2>2. ASSUME NEW i \in 1..n PROVE remaining[i] \in ToSet(victims)
    <3>1. Len(expired) + i \in 1..(Len(expired) + n) /\ ~(Len(expired) + i <= Len(expired))
      BY <1>1
    <3>2. (Len(expired) + i) - Len(expired) = i
      BY <1>1
    <3>3. victims[Len(expired) + i] = front[i]
      BY <1>5, <3>1, <3>2
    <3> QED
      BY <1>3, <2>1, <3>1, <3>3
  <2>3. ASSUME NEW i \in 1..Len(expired) PROVE expired[i] \in ToSet(victims)
    <3>1. i \in 1..(Len(expired) + n) /\ i <= Len(expired)
      BY <1>1
    <3> QED
      BY <1>5, <2>1, <3>1
  <2>4. ASSUME NEW i \in 1..(Len(expired) + n)
        PROVE  victims[i] \in Expired \cup {remaining[j] : j \in 1..n}
    <3>1. CASE i <= Len(expired)
      BY <1>1, <1>5, <3>1 DEF Listed
    <3>2. CASE i > Len(expired)
      <4>1. i - Len(expired) \in 1..n
        BY <1>1, <3>2
      <4> QED
        BY <1>1, <1>3, <1>5, <3>2, <4>1
    <3> QED
      BY <1>1, <3>1, <3>2
  <2> QED
    BY <1>1, <2>1, <2>2, <2>3, <2>4 DEF Listed
<1>7. DOMAIN log \ ToSet(victims) = Left(remaining, n)
  <2>1. \A i \in 1..Len(remaining) : remaining[i] \in {remaining[j] : j \in 1..n} <=> i <= n
    BY <1>2
  <2>2. DOMAIN log \ ToSet(victims) = {remaining[i] : i \in (n + 1)..Len(remaining)}
    BY <1>0, <1>2, <1>6, <2>1 DEF Listed
  <2> QED
    BY <2>2 DEF Left
<1> QED
  BY <1>5, <1>6, <1>7 DEF victims

----------------------------------------------------------------------------
(* The maps with finitely many keys.                                       *)
Maps(values) == {m \in UNION {[S -> values] : S \in SUBSET Torrents} :
                   IsFiniteSet(DOMAIN m)}

CleanerType == [pc : {"idle", "listed", "ready", "removing", "deleting"},
                seen : Maps(Nat), todo : Seq(Torrents)]

ConfigOK ==
    config \in [size : CacheSizes, age : MaxAges, updates : 0..MaxUpdates,
                due : SUBSET [update : 1..MaxUpdates, age : MaxAges]]

CleanersOK ==
    /\ cleaner \in [Cleaners -> CleanerType]
    /\ \A k \in Cleaners : cleaner[k].pc = "deleting" => cleaner[k].todo # <<>>

LogOK == log \in Maps(Entries) /\ now \in Nat

RestOK ==
    /\ engine \in Maps(Nat)
    /\ recording \subseteq [hash : Torrents, size : Nat]
    /\ streams \in 0..MaxStreams

(* The types, and that a cleanup that is to delete an entry has one.       *)
Typed == ConfigOK /\ CleanersOK /\ LogOK /\ RestOK

(* No entry is from the future, and no two from the same time: there is    *)
(* one order, oldest first.                                                *)
TimesDiffer ==
    /\ \A h \in DOMAIN log : log[h].last <= now
    /\ \A g, h \in DOMAIN log : log[g].last = log[h].last => g = h

(* The inductive invariant.                                                *)
IInv == Typed /\ TimesDiffer

(* What it takes to be a map.                                              *)
LEMMA MapsAre ==
    ASSUME NEW V, NEW m
    PROVE  m \in Maps(V) <=> /\ DOMAIN m \subseteq Torrents
                             /\ m = [h \in DOMAIN m |-> m[h]]
                             /\ \A h \in DOMAIN m : m[h] \in V
                             /\ IsFiniteSet(DOMAIN m)
BY DEF Maps

(* Setting an entry of a map gives a map.                                  *)
LEMMA WithType ==
    ASSUME NEW V, NEW m \in Maps(V), NEW h \in Torrents, NEW v \in V
    PROVE  With(m, h, v) \in Maps(V)
<1>1. IsFiniteSet(DOMAIN m \cup {h})
  BY MapsAre, FS_AddElement
<1>2. DOMAIN With(m, h, v) = DOMAIN m \cup {h}
  BY DEF With
<1>3. \A g \in DOMAIN With(m, h, v) : With(m, h, v)[g] \in V
  BY MapsAre DEF With
<1>4. With(m, h, v) = [g \in DOMAIN With(m, h, v) |-> With(m, h, v)[g]]
  BY DEF With
<1>5. DOMAIN m \subseteq Torrents
  BY MapsAre
<1> QED
  BY <1>1, <1>2, <1>3, <1>4, <1>5, MapsAre

(* Deleting an entry of a map gives a map.                                 *)
LEMMA WithoutType ==
    ASSUME NEW V, NEW m \in Maps(V), NEW h
    PROVE  Without(m, h) \in Maps(V)
<1>1. IsFiniteSet(DOMAIN m \ {h})
  BY MapsAre, FS_RemoveElement
<1>2. DOMAIN Without(m, h) = DOMAIN m \ {h}
  BY DEF Without
<1>3. \A g \in DOMAIN Without(m, h) : Without(m, h)[g] \in V
  BY MapsAre DEF Without
<1>4. Without(m, h) = [g \in DOMAIN Without(m, h) |-> Without(m, h)[g]]
  BY DEF Without
<1>5. DOMAIN m \subseteq Torrents
  BY MapsAre
<1> QED
  BY <1>1, <1>2, <1>3, <1>4, <1>5, MapsAre

(* What an entry of the log is.                                            *)
LEMMA LogEntries ==
    ASSUME LogOK, NEW h \in DOMAIN log
    PROVE  /\ log[h] \in Entries
           /\ log[h] = [last |-> log[h].last, size |-> log[h].size]
           /\ log[h].last \in Nat /\ log[h].size \in Nat
<1>1. log[h] \in Entries
  BY MapsAre DEF LogOK
<1> QED
  BY <1>1 DEF Entries

(* The empty map is a map.                                                 *)
LEMMA EmptyMap == ASSUME NEW V PROVE <<>> \in Maps(V)
<1>1. DOMAIN <<>> = {} /\ <<>> = [h \in {} |-> {}]
  OBVIOUS
<1>2. IsFiniteSet(DOMAIN <<>>)
  BY <1>1, FS_EmptySet
<1> QED
  BY <1>1, <1>2 DEF Maps

(* What a cleanup may select is a list of torrents.                        *)
LEMMA SelectVictimsStep ==
    ASSUME Typed, NEW k \in Cleaners, SelectVictims(k)
    PROVE  \E expired \in InOrder(Expired), remaining \in InOrder(DOMAIN log \ Expired) :
           \E n \in 0..Len(remaining) :
              /\ DropsUntilFits(remaining, n)
              /\ cleaner'[k].todo = Selected(expired, remaining, n)
              /\ Selected(expired, remaining, n) \in Seq(Torrents)
              /\ cleaner'[k] \in CleanerType
              /\ cleaner'[k].pc # "deleting"
              /\ \A j \in Cleaners : j # k => cleaner'[j] = cleaner[j]
              /\ DOMAIN cleaner' = Cleaners
<1>1. PICK expired \in InOrder(Expired), remaining \in InOrder(DOMAIN log \ Expired) :
      \E n \in 0..Len(remaining) :
         /\ DropsUntilFits(remaining, n)
         /\ LET victims == Selected(expired, remaining, n)
            IN  cleaner' = [cleaner EXCEPT ![k] =
                              IF victims = <<>> THEN IdleCleaner
                              ELSE [IdleCleaner EXCEPT !.pc = "removing",
                                                       !.todo = victims]]
  BY DEF SelectVictims, Selected
<1>2. PICK n \in 0..Len(remaining) :
         /\ DropsUntilFits(remaining, n)
         /\ LET victims == Selected(expired, remaining, n)
            IN  cleaner' = [cleaner EXCEPT ![k] =
                              IF victims = <<>> THEN IdleCleaner
                              ELSE [IdleCleaner EXCEPT !.pc = "removing",
                                                       !.todo = victims]]
  BY <1>1
<1> DEFINE victims == Selected(expired, remaining, n)
<1>3. victims \in Seq(Torrents)
  <2>1. IsFiniteSet(DOMAIN log) /\ DOMAIN log \subseteq Torrents
    BY MapsAre DEF Typed, LogOK
  <2>2. victims \in Seq(DOMAIN log)
    BY <2>1, SelectedProperties
  <2> HIDE DEF victims
  <2> QED
    BY <2>1, <2>2
<1> HIDE DEF victims
<1>4. cleaner \in [Cleaners -> CleanerType]
  BY DEF Typed, CleanersOK
<1> DEFINE next == IF victims = <<>> THEN IdleCleaner
                   ELSE [IdleCleaner EXCEPT !.pc = "removing", !.todo = victims]
<1>5. next = [pc |-> IF victims = <<>> THEN "idle" ELSE "removing",
              seen |-> <<>>, todo |-> victims]
  BY DEF IdleCleaner
<1> HIDE DEF next
<1>6. next \in CleanerType /\ next.pc # "deleting" /\ next.todo = victims
  <2>1. <<>> \in Maps(Nat)
    BY EmptyMap
  <2>2. next.pc \in {"idle", "removing"} /\ next.seen = <<>> /\ next.todo = victims
    BY <1>5
  <2> QED
    BY <1>3, <1>5, <2>1, <2>2 DEF CleanerType
<1>7. cleaner' = [cleaner EXCEPT ![k] = next]
  BY <1>2 DEF victims, next
<1>8. cleaner'[k] = next /\ DOMAIN cleaner' = Cleaners
      /\ \A j \in Cleaners : j # k => cleaner'[j] = cleaner[j]
  BY <1>4, <1>7
<1> QED
  BY <1>2, <1>3, <1>6, <1>8 DEF victims

----------------------------------------------------------------------------
(* Every step keeps the types of the cleaners.                             *)
LEMMA CleanersStep == Typed /\ [Next]_vars => CleanersOK'
<1> SUFFICES ASSUME Typed, [Next]_vars PROVE CleanersOK'
  OBVIOUS
<1>0. cleaner \in [Cleaners -> CleanerType] /\ Loop \in Cleaners
  BY CleanersAssumption DEF Typed, CleanersOK
<1>1. ASSUME UNCHANGED cleaner PROVE CleanersOK'
  BY <1>1 DEF Typed, CleanersOK
<1>2. ASSUME NEW k \in Cleaners, NEW c \in CleanerType,
             cleaner' = [cleaner EXCEPT ![k] = c], c.pc = "deleting" => c.todo # <<>>
      PROVE  CleanersOK'
  BY <1>2 DEF Typed, CleanersOK
<1>3. CASE ListTorrents
  <2>1. [cleaner[Loop] EXCEPT !.pc = "listed", !.seen = engine] \in CleanerType
    BY <1>0 DEF CleanerType, Typed, RestOK
  <2>2. [cleaner[Loop] EXCEPT !.pc = "listed", !.seen = engine].pc # "deleting"
    BY <1>0 DEF CleanerType
  <2>3. cleaner' = [cleaner EXCEPT ![Loop] =
                      [cleaner[Loop] EXCEPT !.pc = "listed", !.seen = engine]]
    BY <1>3 DEF ListTorrents
  <2> QED
    BY <1>0, <1>2, <2>1, <2>2, <2>3
<1>4. CASE Reconcile
  <2>1. [cleaner[Loop] EXCEPT !.pc = "ready", !.seen = <<>>] \in CleanerType
    BY <1>0, EmptyMap DEF CleanerType
  <2>2. [cleaner[Loop] EXCEPT !.pc = "ready", !.seen = <<>>].pc # "deleting"
    BY <1>0 DEF CleanerType
  <2>3. cleaner' = [cleaner EXCEPT ![Loop] =
                      [cleaner[Loop] EXCEPT !.pc = "ready", !.seen = <<>>]]
    BY <1>4 DEF Reconcile
  <2> QED
    BY <1>0, <1>2, <2>1, <2>2, <2>3
<1>5. ASSUME NEW k \in Cleaners, SelectVictims(k) PROVE CleanersOK'
  <2>1. /\ cleaner'[k] \in CleanerType
        /\ cleaner'[k].pc # "deleting"
        /\ \A j \in Cleaners : j # k => cleaner'[j] = cleaner[j]
        /\ DOMAIN cleaner' = Cleaners
    BY <1>5, SelectVictimsStep
  <2>2. \A j \in Cleaners : /\ cleaner'[j] \in CleanerType
                            /\ cleaner'[j].pc = "deleting" => cleaner'[j].todo # <<>>
    BY <1>0, <2>1 DEF Typed, CleanersOK
  <2>3. cleaner' = [j \in Cleaners |-> cleaner'[j]]
    BY <1>0, <1>5 DEF SelectVictims
  <2> QED
    BY <2>2, <2>3 DEF CleanersOK
<1>6. ASSUME NEW k \in Cleaners, RemoveTorrent(k) PROVE CleanersOK'
  <2>1. /\ [cleaner[k] EXCEPT !.pc = "deleting"] \in CleanerType
        /\ [cleaner[k] EXCEPT !.pc = "deleting"].todo = cleaner[k].todo
    BY <1>0 DEF CleanerType
  <2> QED
    BY <1>2, <1>6, <2>1 DEF RemoveTorrent
<1>7. ASSUME NEW k \in Cleaners, RemoveFails(k) \/ DeleteEntry(k) PROVE CleanersOK'
  <2>1. cleaner[k].todo \in Seq(Torrents) /\ cleaner[k].todo # <<>>
    BY <1>0, <1>7 DEF RemoveFails, DeleteEntry, Typed, CleanersOK, CleanerType
  <2>2. Tail(cleaner[k].todo) \in Seq(Torrents)
    BY <2>1
  <2>3. cleaner' = [cleaner EXCEPT ![k] =
                      [cleaner[k] EXCEPT !.pc = "removing",
                                         !.todo = Tail(cleaner[k].todo)]]
    BY <1>0, <1>7 DEF RemoveFails, DeleteEntry, CleanerType
  <2>4. [cleaner[k] EXCEPT !.pc = "removing", !.todo = Tail(cleaner[k].todo)]
          \in CleanerType
    BY <1>0, <2>2 DEF CleanerType
  <2>5. [cleaner[k] EXCEPT !.pc = "removing", !.todo = Tail(cleaner[k].todo)].pc
          # "deleting"
    BY <1>0 DEF CleanerType
  <2> QED
    BY <1>2, <2>3, <2>4, <2>5
<1>8. ASSUME NEW k \in Cleaners, CleanupReturns(k) PROVE CleanersOK'
  <2>1. IdleCleaner \in CleanerType /\ IdleCleaner.pc # "deleting"
    BY EmptyMap DEF IdleCleaner, CleanerType
  <2> QED
    BY <1>2, <1>8, <2>1 DEF CleanupReturns
<1>9. CASE \/ \E h \in Torrents : StreamStarts(h) \/ MetadataArrives(h) \/ EngineDrops(h)
           \/ \E r \in recording : RecordAccess(r)
           \/ Tick
           \/ \E new \in Changes : HandleUpdateConfig(new)
           \/ \E u \in config.due : UpdateMaxAge(u)
           \/ UNCHANGED vars
  BY <1>1, <1>9
  DEF StreamStarts, MetadataArrives, EngineDrops, RecordAccess, Tick,
      HandleUpdateConfig, UpdateMaxAge, vars
<1> QED
  BY <1>3, <1>4, <1>5, <1>6, <1>7, <1>8, <1>9 DEF Next, CleanupStep

(* Every step keeps the log a map, and its times apart.                    *)
LEMMA RecordStep ==
    ASSUME IInv, NEW r \in recording, RecordAccess(r)
    PROVE  LogOK' /\ TimesDiffer'
<1> USE DEF IInv, Typed, LogOK
<1>1. r.hash \in Torrents /\ r.size \in Nat
  BY DEF RestOK
<1>2. \A h \in DOMAIN log : log[h].last \in Nat /\ log[h].size \in Nat
  BY LogEntries
<1>3. PICK size \in Nat : /\ now' = now + 1
                          /\ log' = With(log, r.hash, [last |-> now + 1, size |-> size])
  BY <1>1, <1>2 DEF RecordAccess
<1> DEFINE entry == [last |-> now + 1, size |-> size]
<1>4. entry \in Entries /\ entry.last = now + 1
  BY DEF Entries
<1> HIDE DEF entry
<1>5. log' \in Maps(Entries)
  BY <1>1, <1>3, <1>4, WithType DEF entry
<1>6. DOMAIN log' = DOMAIN log \cup {r.hash}
      /\ \A h \in DOMAIN log' : log'[h] = IF h = r.hash THEN entry ELSE log[h]
  BY <1>3 DEF With, entry
<1>7. \A h \in DOMAIN log' : \/ h = r.hash /\ log'[h].last = now'
                             \/ h # r.hash /\ h \in DOMAIN log /\ log'[h].last = log[h].last
  BY <1>3, <1>4, <1>6
<1>8. TimesDiffer'
  BY <1>2, <1>3, <1>7 DEF TimesDiffer
<1> QED
  BY <1>3, <1>5, <1>8

(* Logging what the engine holds, each torrent at a time of its own, and   *)
(* forgetting what it does not, keeps the log typed and its times apart.   *)
LEMMA ReconcileStep ==
    ASSUME IInv, Reconcile
    PROVE  LogOK' /\ TimesDiffer'
<1> USE DEF IInv, Typed, LogOK
<1> DEFINE seen == cleaner[Loop].seen
           new == DOMAIN seen \ DOMAIN log
<1>1. seen \in Maps(Nat)
  BY CleanersAssumption DEF CleanersOK, CleanerType
<1>2. DOMAIN seen \subseteq Torrents /\ IsFiniteSet(DOMAIN seen)
      /\ \A h \in DOMAIN seen : seen[h] \in Nat
  BY <1>1, MapsAre
<1>3. \A h \in DOMAIN log : /\ log[h] = [last |-> log[h].last, size |-> log[h].size]
                            /\ log[h].last \in Nat /\ log[h].size \in Nat
  BY LogEntries
<1>4. Cardinality(new) \in Nat
  BY <1>2, FS_Subset, FS_CardinalityType
<1>5. PICK stamp \in Injection(new, (now + 1)..now') :
           log' = [h \in DOMAIN seen |->
                     IF h \in new THEN [last |-> stamp[h], size |-> seen[h]]
                     ELSE IF log[h].size = 0 THEN [log[h] EXCEPT !.size = seen[h]]
                     ELSE log[h]]
  BY DEF Reconcile
<1>6. now' \in Nat /\ now <= now'
  BY <1>4 DEF Reconcile
<1>7. /\ \A h \in new : stamp[h] \in Nat /\ now < stamp[h] /\ stamp[h] <= now'
      /\ \A g, h \in new : stamp[g] = stamp[h] => g = h
  BY <1>5, <1>6 DEF Injection, IsInjective
<1> HIDE DEF seen
<1>8. \A h \in DOMAIN seen :
         /\ log'[h] \in Entries
         /\ log'[h].last = IF h \in new THEN stamp[h] ELSE log[h].last
  <2> SUFFICES ASSUME NEW h \in DOMAIN seen
               PROVE  /\ log'[h] \in Entries
                      /\ log'[h].last = IF h \in new THEN stamp[h] ELSE log[h].last
    OBVIOUS
  <2>1. CASE h \in new
    <3>1. log'[h] = [last |-> stamp[h], size |-> seen[h]]
      BY <1>5, <2>1
    <3> QED
      BY <1>2, <1>7, <2>1, <3>1 DEF Entries
  <2>2. CASE h \notin new
    <3>1. h \in DOMAIN log
      BY <2>2
    <3>2. log'[h] = [log[h] EXCEPT !.size = seen[h]] \/ log'[h] = log[h]
      BY <1>5, <2>2
    <3>3. [log[h] EXCEPT !.size = seen[h]] = [last |-> log[h].last, size |-> seen[h]]
      BY <1>3, <3>1
    <3> QED
      BY <1>2, <1>3, <2>2, <3>1, <3>2, <3>3 DEF Entries
  <2> QED
    BY <2>1, <2>2
<1>9. log' \in Maps(Entries)
  <2>1. DOMAIN log' = DOMAIN seen /\ log' = [h \in DOMAIN log' |-> log'[h]]
    BY <1>5
  <2> QED
    BY <1>2, <1>8, <2>1, MapsAre
<1>10. TimesDiffer'
  <2>1. DOMAIN log' = DOMAIN seen
    BY <1>5
  <2>2. \A h \in DOMAIN seen : h \notin new => h \in DOMAIN log
    OBVIOUS
  <2> HIDE DEF new
  <2> QED
    BY <1>3, <1>6, <1>7, <1>8, <2>1, <2>2 DEF TimesDiffer
<1> QED
  BY <1>6, <1>9, <1>10

(* Every step keeps the log typed and its times apart.                     *)
LEMMA LogStep == IInv /\ [Next]_vars => LogOK' /\ TimesDiffer'
<1> SUFFICES ASSUME IInv, [Next]_vars PROVE LogOK' /\ TimesDiffer'
  OBVIOUS
<1> USE DEF IInv, Typed, LogOK
<1>1. ASSUME UNCHANGED <<log, now>> PROVE LogOK' /\ TimesDiffer'
  BY <1>1 DEF TimesDiffer
<1>2. ASSUME NEW r \in recording, RecordAccess(r) PROVE LogOK' /\ TimesDiffer'
  BY <1>2, RecordStep
<1>3. CASE Reconcile
  BY <1>3, ReconcileStep
<1>4. ASSUME NEW k \in Cleaners, DeleteEntry(k) PROVE LogOK' /\ TimesDiffer'
  <2>1. log' = Without(log, Head(cleaner[k].todo)) /\ now' = now
    BY <1>4 DEF DeleteEntry
  <2>2. log' \in Maps(Entries)
    BY <2>1, WithoutType
  <2>3. DOMAIN log' \subseteq DOMAIN log /\ \A h \in DOMAIN log' : log'[h] = log[h]
    BY <2>1 DEF Without
  <2> QED
    BY <2>1, <2>2, <2>3 DEF TimesDiffer
<1>5. CASE Tick
  <2>1. \A h \in DOMAIN log : log[h].last \in Nat
    BY LogEntries
  <2> QED
    BY <1>5, <2>1 DEF Tick, TimesDiffer
<1>6. ASSUME NEW k \in Cleaners, \/ SelectVictims(k) \/ RemoveTorrent(k)
                                 \/ RemoveFails(k) \/ CleanupReturns(k)
      PROVE  LogOK' /\ TimesDiffer'
  BY <1>1, <1>6 DEF SelectVictims, RemoveTorrent, RemoveFails, CleanupReturns
<1>7. CASE \/ \E h \in Torrents : StreamStarts(h) \/ MetadataArrives(h) \/ EngineDrops(h)
           \/ ListTorrents
           \/ \E new \in Changes : HandleUpdateConfig(new)
           \/ \E u \in config.due : UpdateMaxAge(u)
           \/ UNCHANGED vars
  BY <1>1, <1>7
  DEF StreamStarts, MetadataArrives, EngineDrops, ListTorrents, HandleUpdateConfig,
      UpdateMaxAge, vars
<1> QED
  BY <1>2, <1>3, <1>4, <1>5, <1>6, <1>7 DEF Next, CleanupStep

(* Every step keeps the other types.                                       *)
LEMMA RestStep == Typed /\ [Next]_vars => ConfigOK' /\ RestOK'
<1> SUFFICES ASSUME Typed, [Next]_vars PROVE ConfigOK' /\ RestOK'
  OBVIOUS
<1> USE DEF Typed
<1>0. \A h \in Torrents : SizeOf[h] \in Nat
  BY SizesAssumption
<1>1. CASE \E new \in Changes : HandleUpdateConfig(new)
  <2>1. PICK new \in Changes : HandleUpdateConfig(new)
    BY <1>1
  <2>2. new.size \in CacheSizes /\ (new.age > 0 => new.age \in MaxAges)
    BY LimitsAssumption
  <2>3. config.updates + 1 \in 1..MaxUpdates
    BY <2>1, BoundsAssumption DEF HandleUpdateConfig, ConfigOK
  <2>4. new.age > 0 =>
          [update |-> config.updates + 1, age |-> new.age]
            \in [update : 1..MaxUpdates, age : MaxAges]
    BY <2>2, <2>3
  <2>5. ConfigOK'
    <3> DEFINE due == IF new.age > 0
                      THEN config.due \cup {[update |-> config.updates + 1,
                                             age |-> new.age]}
                      ELSE config.due
    <3>1. config' = [config EXCEPT !.size = new.size,
                                   !.updates = config.updates + 1, !.due = due]
      BY <2>1 DEF HandleUpdateConfig
    <3>2. due \in SUBSET [update : 1..MaxUpdates, age : MaxAges]
      BY <2>4 DEF ConfigOK
    <3>3. config.updates + 1 \in 0..MaxUpdates
      BY <2>3
    <3> HIDE DEF due
    <3> QED
      BY <2>2, <3>1, <3>2, <3>3 DEF ConfigOK
  <2> QED
    BY <2>1, <2>5 DEF HandleUpdateConfig, RestOK
<1>10. ASSUME NEW u \in config.due, UpdateMaxAge(u) PROVE ConfigOK' /\ RestOK'
  BY <1>10 DEF UpdateMaxAge, ConfigOK, RestOK
<1>2. ASSUME UNCHANGED config PROVE ConfigOK'
  BY <1>2 DEF ConfigOK
<1>3. ASSUME NEW h \in Torrents, StreamStarts(h) PROVE ConfigOK' /\ RestOK'
  <2>1. PICK size \in {0, SizeOf[h]} :
           /\ engine' = IF size = 0 /\ h \in DOMAIN engine THEN engine
                        ELSE With(engine, h, size)
           /\ recording' = recording \cup {[hash |-> h, size |-> size]}
    BY <1>3 DEF StreamStarts
  <2>2. size \in Nat
    BY <1>0
  <2>3. engine' \in Maps(Nat)
    BY <2>1, <2>2, WithType DEF RestOK
  <2>4. streams' \in 0..MaxStreams
    BY <1>3, BoundsAssumption DEF StreamStarts, RestOK
  <2> QED
    BY <1>2, <1>3, <2>1, <2>2, <2>3, <2>4 DEF StreamStarts, RestOK
<1>4. ASSUME NEW h \in Torrents, MetadataArrives(h) PROVE ConfigOK' /\ RestOK'
  <2>1. engine' = [engine EXCEPT ![h] = SizeOf[h]]
    BY <1>4 DEF MetadataArrives
  <2>2. engine' \in Maps(Nat)
    <3>1. /\ DOMAIN engine \subseteq Torrents /\ IsFiniteSet(DOMAIN engine)
          /\ \A g \in DOMAIN engine : engine[g] \in Nat
      BY MapsAre DEF RestOK
    <3>2. /\ DOMAIN engine' = DOMAIN engine /\ engine' = [g \in DOMAIN engine' |-> engine'[g]]
          /\ \A g \in DOMAIN engine' : engine'[g] \in Nat
      BY <1>0, <2>1, <3>1
    <3> QED
      BY <3>1, <3>2, MapsAre
  <2> QED
    BY <1>2, <1>4, <2>2 DEF MetadataArrives, RestOK
<1>5. ASSUME NEW h, UNCHANGED <<recording, streams, config>>,
             engine' = engine \/ engine' = Without(engine, h)
      PROVE  ConfigOK' /\ RestOK'
  BY <1>2, <1>5, WithoutType DEF RestOK
<1>6. ASSUME NEW h \in Torrents, EngineDrops(h) PROVE ConfigOK' /\ RestOK'
  BY <1>5, <1>6 DEF EngineDrops
<1>7. ASSUME NEW r \in recording, RecordAccess(r) PROVE ConfigOK' /\ RestOK'
  BY <1>2, <1>7 DEF RecordAccess, RestOK
<1>8. ASSUME NEW k \in Cleaners, CleanupStep(k) PROVE ConfigOK' /\ RestOK'
  BY <1>5, <1>8
  DEF CleanupStep, SelectVictims, RemoveTorrent, RemoveFails, DeleteEntry, CleanupReturns
<1>9. CASE ListTorrents \/ Reconcile \/ Tick \/ UNCHANGED vars
  BY <1>5, <1>9 DEF ListTorrents, Reconcile, Tick, vars
<1> QED
  BY <1>1, <1>3, <1>4, <1>6, <1>7, <1>8, <1>9, <1>10 DEF Next

----------------------------------------------------------------------------
(* The inductive invariant holds at the start.                             *)
LEMMA InvInit == Init => IInv
<1> SUFFICES ASSUME Init PROVE IInv
  OBVIOUS
<1> USE DEF Init
<1>1. ConfigOK
  <2>1. Configured.size \in CacheSizes /\ Configured.age \in MaxAges
    BY LimitsAssumption
  <2> QED
    BY <2>1, BoundsAssumption DEF ConfigOK
<1>2. CleanersOK
  <2>1. IdleCleaner \in CleanerType /\ IdleCleaner.pc # "deleting"
    BY EmptyMap DEF IdleCleaner, CleanerType
  <2> QED
    BY <2>1 DEF CleanersOK
<1>3. LogOK /\ RestOK
  BY EmptyMap, BoundsAssumption DEF LogOK, RestOK
<1>4. TimesDiffer
  BY DEF TimesDiffer
<1> QED
  BY <1>1, <1>2, <1>3, <1>4 DEF IInv, Typed

(* Every step keeps it.                                                    *)
LEMMA InvStep == IInv /\ [Next]_vars => IInv'
BY CleanersStep, LogStep, RestStep DEF IInv, Typed

(* The inductive invariant holds in every state.                           *)
LEMMA Invariance == Spec => []IInv
BY InvInit, InvStep, PTL DEF Spec

(* Engine, accessLog and what a cleanup has still to remove keep their     *)
(* types, for any number of cleanups at once.                              *)
THEOREM TypeCorrect == Spec => []TypeOK
<1>1. IInv => TypeOK
  <2> SUFFICES ASSUME IInv PROVE TypeOK
    OBVIOUS
  <2> USE DEF IInv, Typed
  <2>1. IsMap(engine, Nat)
    BY MapsAre DEF RestOK, IsMap
  <2>2. IsMap(log, Entries)
    BY MapsAre DEF LogOK, IsMap
  <2>3. ASSUME NEW k \in Cleaners
        PROVE  /\ cleaner[k].pc \in {"idle", "listed", "ready", "removing", "deleting"}
               /\ IsMap(cleaner[k].seen, Nat)
               /\ cleaner[k].todo \in Seq(Torrents)
    <3>1. cleaner[k] \in CleanerType
      BY DEF CleanersOK
    <3>2. cleaner[k].seen \in Maps(Nat)
      BY <3>1 DEF CleanerType
    <3>3. IsMap(cleaner[k].seen, Nat)
      BY <3>2, MapsAre DEF IsMap
    <3> QED
      BY <3>1, <3>3 DEF CleanerType
  <2> QED
    BY <2>1, <2>2, <2>3 DEF TypeOK, ConfigOK, LogOK, RestOK
<1> QED
  BY <1>1, Invariance, PTL

(* What a cleanup selects, of a log whose times differ.                    *)
LEMMA SelectionIsSound ==
    ASSUME IInv, config.size < Width, config.age < Width,
           NEW k \in Cleaners, SelectVictims(k)
    PROVE  LET victims == ToSet(cleaner'[k].todo)
               kept    == DOMAIN log \ victims
               old(h)  == now - log[h].last > config.age
           IN  /\ Bytes(kept) <= config.size
               /\ \A h \in kept : ~old(h)
               /\ \A v \in victims, h \in kept : log[v].last < log[h].last
               /\ \A v \in victims :
                    (\A w \in victims : log[w].last <= log[v].last)
                    => old(v) \/ Bytes(kept \cup {v}) > config.size
<1> USE DEF IInv, Typed
<1>1. /\ config.size \in Nat /\ 0 < config.size /\ Wrapped(config.size) = config.size
      /\ config.age \in Nat /\ Wrapped(config.age) = config.age
  <2>1. config.size \in Nat \ {0} /\ config.age \in Nat
    BY LimitsAssumption DEF ConfigOK
  <2> QED
    BY <2>1, WrappedFits
<1>2. /\ now \in Nat /\ IsFiniteSet(DOMAIN log)
      /\ \A h \in DOMAIN log : log[h].last \in Nat
  BY LogEntries, MapsAre DEF LogOK
<1>3. PICK expired \in InOrder(Expired), remaining \in InOrder(DOMAIN log \ Expired) :
      \E n \in 0..Len(remaining) : /\ DropsUntilFits(remaining, n)
                                   /\ cleaner'[k].todo = Selected(expired, remaining, n)
  BY SelectVictimsStep
<1>4. PICK n \in 0..Len(remaining) : /\ DropsUntilFits(remaining, n)
                                     /\ cleaner'[k].todo = Selected(expired, remaining, n)
  BY <1>3
<1> DEFINE victims == ToSet(cleaner'[k].todo)
           kept == DOMAIN log \ victims
           old(h) == now - log[h].last > config.age
<1>5. /\ victims = Expired \cup {remaining[i] : i \in 1..n}
      /\ kept = Left(remaining, n)
  <2> DEFINE selected == Selected(expired, remaining, n)
  <2>1. /\ ToSet(selected) = Expired \cup {remaining[i] : i \in 1..n}
        /\ DOMAIN log \ ToSet(selected) = Left(remaining, n)
    BY <1>2, SelectedProperties, Zenon
  <2> HIDE DEF selected
  <2>2. cleaner'[k].todo = selected
    BY <1>4 DEF selected
  <2> QED
    BY <2>1, <2>2
<1>6. /\ remaining \in Seq(DOMAIN log \ Expired)
      /\ \A i, j \in 1..Len(remaining) : remaining[i] = remaining[j] => i = j
      /\ \A i, j \in 1..Len(remaining) :
           i < j => log[remaining[i]].last <= log[remaining[j]].last
  <2>1. IsFiniteSet(DOMAIN log \ Expired)
    BY <1>2, FS_Subset
  <2> QED
    BY <2>1, OrderProperties
<1>7. Len(remaining) \in Nat
      /\ \A i \in 1..Len(remaining) : remaining[i] \in DOMAIN log \ Expired
  BY <1>6
<1> HIDE DEF victims
<1>8. \A h \in DOMAIN log : old(h) <=> h \in Expired
  BY <1>1, <1>2 DEF Expired
<1>9. Expired \subseteq DOMAIN log
  BY DEF Expired
<1>10. Bytes(kept) <= config.size
  <2>1. CASE n = Len(remaining)
    <3>1. Left(remaining, n) = {}
      BY <1>7, <2>1 DEF Left
    <3>2. kept = {}
      BY <1>5, <3>1
    <3> HIDE DEF kept
    <3>3. Bytes(kept) = 0
      BY <3>2, BytesOfNone
    <3> QED
      BY <1>1, <3>3
  <2>2. CASE n # Len(remaining)
    BY <1>1, <1>4, <1>5, <2>2 DEF DropsUntilFits
  <2> QED
    BY <2>1, <2>2
<1>11. \A h \in kept : ~old(h)
  BY <1>5, <1>8
<1>12. ASSUME NEW v \in victims, NEW h \in kept PROVE log[v].last < log[h].last
  <2>1. h \in DOMAIN log \ Expired
    BY <1>5, <1>12
  <2>2. CASE v \in Expired
    BY <1>1, <1>2, <1>8, <1>9, <2>1, <2>2
  <2>3. CASE v \notin Expired
    <3>1. PICK i \in 1..n : v = remaining[i]
      BY <1>5, <1>12, <2>3
    <3>2. PICK j \in (n + 1)..Len(remaining) : h = remaining[j]
      BY <1>5, <1>12 DEF Left
    <3>3. i \in 1..Len(remaining) /\ j \in 1..Len(remaining) /\ i < j
      BY <1>7
    <3>4. log[v].last <= log[h].last /\ v # h
      BY <1>6, <3>1, <3>2, <3>3
    <3>5. v \in DOMAIN log
      BY <1>7, <3>1, <3>3
    <3> QED
      BY <1>2, <2>1, <3>4, <3>5 DEF TimesDiffer
  <2> QED
    BY <2>2, <2>3
<1>13. ASSUME NEW v \in victims, \A w \in victims : log[w].last <= log[v].last, ~old(v)
       PROVE  Bytes(kept \cup {v}) > config.size
  <2>1. PICK i \in 1..n : v = remaining[i]
    BY <1>5, <1>8, <1>9, <1>13
  <2>2. /\ n \in 1..Len(remaining) /\ i \in 1..Len(remaining)
        /\ v \in DOMAIN log /\ remaining[n] \in DOMAIN log /\ remaining[n] \in victims
    BY <1>5, <1>7, <2>1
  <2>3. i = n
    <3>1. log[remaining[n]].last <= log[v].last
      BY <1>13, <2>2
    <3>2. i < n => log[v].last <= log[remaining[n]].last
      BY <1>6, <2>1, <2>2
    <3>3. i < n => log[v].last = log[remaining[n]].last
      BY <1>2, <2>2, <3>1, <3>2
    <3>4. i < n => v = remaining[n]
      BY <2>2, <3>3 DEF TimesDiffer
    <3> QED
      BY <1>6, <2>1, <2>2, <3>4
  <2>4. kept \cup {v} = Left(remaining, n - 1)
    <3>1. /\ kept = {remaining[j] : j \in (n + 1)..Len(remaining)}
          /\ Left(remaining, n - 1) = {remaining[j] : j \in n..Len(remaining)}
      BY <1>5, <1>7, <2>2 DEF Left
    <3>2. n..Len(remaining) = {n} \cup (n + 1)..Len(remaining)
      BY <1>7, <2>2
    <3> QED
      BY <2>1, <2>3, <3>1, <3>2
  <2>5. Bytes(Left(remaining, n - 1)) > config.size
    BY <1>1, <1>4, <2>2 DEF DropsUntilFits
  <2> QED
    BY <2>4, <2>5
<1> QED
  BY <1>10, <1>11, <1>12, <1>13 DEF victims

(* What RunCleanup keeps is young enough and fits the limit, what it drops *)
(* was used before all it keeps, and it drops no more than it has to, for  *)
(* every log and all limits that fit an int64.                             *)
THEOREM CleanupIsSound == Spec => SelectionSound
<1>1. IInv => (config.size < Width /\ config.age < Width =>
                 \A k \in Cleaners : SelectVictims(k) =>
                   LET victims == ToSet(cleaner'[k].todo)
                       kept    == DOMAIN log \ victims
                       old(h)  == now - log[h].last > config.age
                   IN  /\ Bytes(kept) <= config.size
                       /\ \A h \in kept : ~old(h)
                       /\ \A v \in victims, h \in kept : log[v].last < log[h].last
                       /\ \A v \in victims :
                            (\A w \in victims : log[w].last <= log[v].last)
                            => old(v) \/ Bytes(kept \cup {v}) > config.size)
  BY SelectionIsSound
<1> QED
  BY <1>1, Invariance, PTL DEF SelectionSound
=============================================================================
