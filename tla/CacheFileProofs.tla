-------------------------- MODULE CacheFileProofs --------------------------
(***************************************************************************)
(* What the file of the access log and the log itself say of the last use  *)
(* of a torrent, for any number of torrents, saves, failures and restarts. *)
(***************************************************************************)
EXTENDS CacheFile, TLAPS

(* Entered by the saves that have taken their snapshot.                    *)
Active == Started({"marshal", "opened"})

(* No access is being made, and none waits for its save to begin.          *)
Quiet == Unlocked /\ Started({"begun"}) = {}

(* What FileIsCurrent says of the file, of dates that are yet to be joined *)
(* by those of the entries in unread.                                      *)
Current(dates, unread) ==
    /\ \A h \in DOMAIN dates : played[h] <= dates[h]
    /\ \A h \in DOMAIN log :
         log[h] = played[h] /\ played[h] # LongAgo => h \in DOMAIN dates \cup unread

(* A save with none beside it is the only one, writes to the file it has   *)
(* emptied, and has what the accesses that are over have made of the log.  *)
AloneIsCurrent ==
    apart => /\ \A s, t \in Active : s = t
             /\ \A s \in Saves : save[s].pc = "opened" => file = Empty
             /\ Quiet => \A s \in Active : Current(save[s].data, save[s].unread)

(* The writer's entry is of now or before.                                 *)
WriterIsNow == \A w \in writer : log[w.hash] <= now

(* The cleaner saves after its last removal.                               *)
CleanerWaits == doomed # {} => save[Cleaner].pc = "idle"

IInv == TypeOK /\ CleanerWaits /\ WriterIsNow /\ AloneIsCurrent /\ FileIsCurrent /\ DatesStand

----------------------------------------------------------------------------
(* Maps from hashes to dates, and that they stay such.                     *)
LEMMA MapEntries ==
    ASSUME NEW map \in Maps
    PROVE  /\ DOMAIN map \in SUBSET Torrents
           /\ \A h \in DOMAIN map : map[h] \in Dates
<1>1. PICK S \in SUBSET Torrents : map \in [S -> Dates]
  BY DEF Maps
<1> QED
  BY <1>1

(* A function of dates over stored torrents is a map.                      *)
LEMMA MapMade ==
    ASSUME NEW S \in SUBSET Torrents, NEW map \in [S -> Dates]
    PROVE  map \in Maps
BY DEF Maps

(* What recording a date does to a map.                                    *)
LEMMA WithOps ==
    ASSUME NEW map \in Maps, NEW h \in Torrents, NEW date \in Dates
    PROVE  /\ With(map, h, date) \in Maps
           /\ DOMAIN With(map, h, date) = DOMAIN map \cup {h}
           /\ With(map, h, date)[h] = date
           /\ \A g \in DOMAIN map \ {h} : With(map, h, date)[g] = map[g]
<1>1. DOMAIN map \in SUBSET Torrents /\ \A g \in DOMAIN map : map[g] \in Dates
  BY MapEntries
<1>2. With(map, h, date) \in [DOMAIN map \cup {h} -> Dates]
  BY <1>1 DEF With
<1>3. With(map, h, date) \in Maps
  BY <1>1, <1>2, MapMade
<1> QED
  BY <1>3 DEF With

(* What leaving torrents out does to a map.                                *)
LEMMA RestrictOps ==
    ASSUME NEW map \in Maps, NEW h
    PROVE  /\ Restrict(map, DOMAIN map \ {h}) \in Maps
           /\ DOMAIN Restrict(map, DOMAIN map \ {h}) = DOMAIN map \ {h}
           /\ \A g \in DOMAIN map \ {h} : Restrict(map, DOMAIN map \ {h})[g] = map[g]
<1>1. DOMAIN map \in SUBSET Torrents /\ \A g \in DOMAIN map : map[g] \in Dates
  BY MapEntries
<1>2. Restrict(map, DOMAIN map \ {h}) \in [DOMAIN map \ {h} -> Dates]
  BY <1>1 DEF Restrict
<1>3. Restrict(map, DOMAIN map \ {h}) \in Maps
  BY <1>1, <1>2, MapMade
<1> QED
  BY <1>3 DEF Restrict

(* The empty log is a map, of no torrent.                                  *)
LEMMA NoDatesIsMap == NoDates \in Maps /\ DOMAIN NoDates = {}
<1>1. NoDates \in [{} -> Dates] /\ {} \in SUBSET Torrents
  BY DEF NoDates
<1> QED
  BY <1>1, MapMade DEF NoDates

(* The two dates outside of the clock are dates.                           *)
LEMMA LongAgoIsDate == LongAgo \in Dates /\ FarOff \in Dates /\ Dates \subseteq Nat
BY BoundsAssumption DEF LongAgo, FarOff, Dates

(* The values of save.                                                     *)
States == [pc : {"idle", "begun", "marshal", "opened"}, unread : SUBSET Torrents, data : Maps]

(* A save that is not under way is one of the states of a save.            *)
LEMMA IdleIsState == IdleSave \in States
BY NoDatesIsMap DEF IdleSave, States

(* An orphaned entry is read: the save has its date, and the rest stays.   *)
LEMMA OrphansAreRead ==
    ASSUME TypeOK, NEW gone \in SUBSET DOMAIN log
    PROVE  /\ Orphaned(gone) \in [Saves -> States]
           /\ \A s \in Saves :
                LET old == save[s]
                    new == Orphaned(gone)[s]
                IN  /\ new.pc = old.pc
                    /\ new.unread = old.unread \ gone
                    /\ DOMAIN new.data = DOMAIN old.data \cup (old.unread \cap gone)
                    /\ \A h \in DOMAIN new.data :
                         new.data[h] = IF h \in old.unread \cap gone THEN log[h] ELSE old.data[h]
<1>1. gone \in SUBSET Torrents /\ \A h \in gone : log[h] \in Dates
  BY MapEntries DEF TypeOK
<1>2. SUFFICES ASSUME NEW s \in Saves
      PROVE  LET old == save[s]
                 new == Orphaned(gone)[s]
             IN  /\ new \in States
                 /\ new.pc = old.pc
                 /\ new.unread = old.unread \ gone
                 /\ DOMAIN new.data = DOMAIN old.data \cup (old.unread \cap gone)
                 /\ \A h \in DOMAIN new.data :
                      new.data[h] = IF h \in old.unread \cap gone THEN log[h] ELSE old.data[h]
  BY DEF Orphaned
<1> DEFINE old == save[s]
           late == old.unread \cap gone
           data == [h \in DOMAIN old.data \cup late |-> IF h \in late THEN log[h] ELSE old.data[h]]
<1>3. old \in States
  BY DEF TypeOK, States
<1>4. DOMAIN old.data \in SUBSET Torrents /\ \A h \in DOMAIN old.data : old.data[h] \in Dates
  BY <1>3, MapEntries DEF States
<1>5. data \in [DOMAIN old.data \cup late -> Dates]
  BY <1>1, <1>4
<1>6. data \in Maps
  BY <1>4, <1>5, <1>1, MapMade
<1>7. Orphaned(gone)[s] = [old EXCEPT !.unread = old.unread \ late, !.data = data]
  BY DEF Orphaned
<1>8. Orphaned(gone)[s] = [pc |-> old.pc, unread |-> old.unread \ gone, data |-> data]
  BY <1>3, <1>7 DEF States
<1> HIDE DEF data
<1>9. Orphaned(gone)[s] \in States
  BY <1>3, <1>6, <1>8 DEF States
<1> QED
  BY <1>8, <1>9 DEF data

----------------------------------------------------------------------------
(* Each action preserves the invariant.                                    *)
LEMMA AccessBeginsStep ==
    ASSUME IInv, NEW h \in Torrents, AccessBegins(h)
    PROVE  IInv'
<1> USE DEF IInv
<1>1. now' \in Dates /\ now' = now + 1 /\ now \in Nat /\ now' \in 0..MaxNow
  BY BoundsAssumption DEF TypeOK, AccessBegins, Dates, FarOff
<1>2. /\ log' \in Maps
      /\ DOMAIN log' = DOMAIN log \cup {h}
      /\ log'[h] = now'
      /\ \A g \in DOMAIN log \ {h} : log'[g] = log[g]
  <2>1. log \in Maps /\ log' = With(log, h, now')
    BY DEF TypeOK, AccessBegins
  <2> QED
    BY <1>1, <2>1, WithOps
<1>3. /\ played' \in [Torrents -> 0..now']
      /\ played'[h] = now'
      /\ \A g \in Torrents \ {h} : played'[g] = played[g]
  BY <1>1 DEF TypeOK, AccessBegins
<1>4. \A g \in DOMAIN log : log[g] \in Dates /\ g \in Torrents
  BY MapEntries DEF TypeOK
<1>5. \E w \in [hash : DOMAIN log', was : Dates] : writer' = {w} /\ w.hash = h
  <2> DEFINE w == [hash |-> h, was |-> IF h \in DOMAIN log THEN log[h] ELSE now']
  <2>1. w \in [hash : DOMAIN log', was : Dates] /\ w.hash = h
    BY <1>1, <1>2, <1>4
  <2>2. writer' = {w}
    BY DEF AccessBegins
  <2> QED
    BY <2>1, <2>2
<1>6. TypeOK'
  <2>1. \A s \in Saves : save'[s].unread \subseteq IF save'[s].pc = "marshal" THEN DOMAIN log' ELSE {}
    BY <1>2 DEF TypeOK, AccessBegins
  <2> QED
    BY <1>1, <1>2, <1>3, <1>5, <2>1 DEF TypeOK, AccessBegins
<1>7. CleanerWaits'
  BY DEF CleanerWaits, AccessBegins
<1>8. WriterIsNow'
  BY <1>1, <1>2, <1>5 DEF WriterIsNow
<1>9. ~Unlocked'
  BY <1>5 DEF Unlocked
<1>10. AloneIsCurrent'
  BY <1>9 DEF AloneIsCurrent, Quiet, Active, Started, AccessBegins
<1>11. FileIsCurrent'
  BY <1>9 DEF FileIsCurrent, Settled
<1>12. DatesStand'
  <2> SUFFICES ASSUME NEW g \in DOMAIN log'
               PROVE  played'[g] <= log'[g] /\ (log'[g] <= now' \/ g \in loaded')
    BY DEF DatesStand
  <2>1. CASE g = h
    BY <2>1, <1>1, <1>2, <1>3
  <2>2. CASE g # h
    <3>1. g \in DOMAIN log /\ log'[g] = log[g] /\ played'[g] = played[g]
      BY <2>2, <1>2, <1>3, <1>4
    <3>2. played[g] <= log[g] /\ (log[g] <= now \/ g \in loaded)
      BY <3>1 DEF DatesStand
    <3>3. log[g] \in Nat
      BY <3>1, <1>4, LongAgoIsDate
    <3> QED
      BY <3>1, <3>2, <3>3, <1>1 DEF AccessBegins
  <2> QED
    BY <2>1, <2>2
<1> QED
  BY <1>6, <1>7, <1>8, <1>10, <1>11, <1>12

(* RecordAccess, once it has the lock, keeps the invariant.                *)
LEMMA AccessEndsStep ==
    ASSUME IInv, AccessEnds
    PROVE  IInv'
<1> USE DEF IInv
<1>1. PICK s \in Free : save' = [save EXCEPT ![s].pc = "begun"]
  BY DEF AccessEnds
<1>2. s \in Saves /\ save[s].pc = "idle" /\ s # Cleaner /\ save \in [Saves -> States]
  BY DEF Free, Started, TypeOK, States
<1>3. save' \in [Saves -> States] /\ save'[s].pc = "begun" /\ save'[s].unread = save[s].unread
      /\ \A t \in Saves \ {s} : save'[t] = save[t]
  BY <1>1, <1>2 DEF States
<1>4. TypeOK'
  <2>1. \A t \in Saves : save'[t].unread \subseteq IF save'[t].pc = "marshal" THEN DOMAIN log' ELSE {}
    BY <1>2, <1>3 DEF TypeOK, AccessEnds
  <2> QED
    BY <1>3, <2>1 DEF TypeOK, States, AccessEnds
<1>5. CleanerWaits'
  BY <1>2, <1>3, CleanerAssumption DEF CleanerWaits, AccessEnds
<1>6. WriterIsNow'
  BY DEF WriterIsNow, AccessEnds
<1>7. s \in Started({"begun"})' /\ s \in Started({"begun", "marshal", "opened"})'
  BY <1>2, <1>3 DEF Started
<1>8. AloneIsCurrent'
  <2>1. Active' = Active /\ \A t \in Active : save'[t] = save[t]
    BY <1>2, <1>3 DEF Active, Started
  <2>2. \A t \in Saves : save'[t].pc = "opened" => save[t].pc = "opened"
    BY <1>2, <1>3
  <2> QED
    BY <1>7, <2>1, <2>2 DEF AloneIsCurrent, Quiet, AccessEnds
<1>9. FileIsCurrent'
  BY <1>7 DEF FileIsCurrent, Settled
<1>10. DatesStand'
  BY DEF DatesStand, WriterIsNow, AccessEnds
<1> QED
  BY <1>4, <1>5, <1>6, <1>8, <1>9, <1>10

(* Taking the victims from the log keeps the invariant.                    *)
LEMMA CleanupSelectsStep ==
    ASSUME IInv, NEW victims \in SUBSET DOMAIN log, CleanupSelects(victims)
    PROVE  IInv'
<1> USE DEF IInv
<1>1. victims \subseteq Torrents
  BY MapEntries DEF TypeOK
<1>2. TypeOK'
  BY <1>1 DEF TypeOK, CleanupSelects
<1>3. CleanerWaits' /\ WriterIsNow' /\ DatesStand'
  BY DEF CleanerWaits, WriterIsNow, DatesStand, CleanupSelects
<1>4. AloneIsCurrent'
  BY DEF AloneIsCurrent, Active, Quiet, Unlocked, Current, Started, CleanupSelects
<1>5. FileIsCurrent'
  BY DEF FileIsCurrent, Settled, Unlocked, Started, CleanupSelects
<1> QED
  BY <1>2, <1>3, <1>4, <1>5

(* What saves have read stays true of a log that entries leave, or that     *)
(* is joined by new ones no access made.                                   *)
LEMMA AloneWhenEntriesLeave ==
    ASSUME IInv, NEW gone \in SUBSET DOMAIN log,
           UNCHANGED <<file, played, apart>>,
           Active' = Active, Quiet' => Quiet,
           \A s \in Active : save'[s] = Orphaned(gone)[s],
           \A h \in DOMAIN log' : log'[h] = played[h] => h \in DOMAIN log /\ log[h] = played[h]
    PROVE  AloneIsCurrent'
<1> USE DEF IInv
<1>1. \A s \in Saves : s \in Active <=> save[s].pc \in {"marshal", "opened"}
  BY DEF Active, Started
<1>2. \A s \in Saves : s \in Active' <=> save'[s].pc \in {"marshal", "opened"}
  BY DEF Active, Started
<1>3. \A s \in Active :
        /\ save'[s].pc = save[s].pc
        /\ save'[s].unread = save[s].unread \ gone
        /\ DOMAIN save'[s].data = DOMAIN save[s].data \cup (save[s].unread \cap gone)
        /\ \A h \in DOMAIN save'[s].data :
             save'[s].data[h] = IF h \in save[s].unread \cap gone THEN log[h] ELSE save[s].data[h]
  BY OrphansAreRead DEF Active, Started
<1> SUFFICES ASSUME apart'
             PROVE  /\ \A s, t \in Active' : s = t
                    /\ \A s \in Saves : save'[s].pc = "opened" => file' = Empty
                    /\ Quiet' => \A s \in Active' : Current(save[s].data, save[s].unread)'
  BY DEF AloneIsCurrent
<1>4. \A s, t \in Active' : s = t
  BY DEF AloneIsCurrent
<1>5. \A s \in Saves : save'[s].pc = "opened" => file' = Empty
  BY <1>1, <1>2, <1>3 DEF AloneIsCurrent
<1>6. ASSUME Quiet', NEW s \in Active'
      PROVE  Current(save[s].data, save[s].unread)'
  <2>1. Current(save[s].data, save[s].unread)
    BY <1>6 DEF AloneIsCurrent
  <2>2. ASSUME NEW h \in DOMAIN save'[s].data
        PROVE  played'[h] <= save'[s].data[h]
    BY <1>3, <2>1, <2>2 DEF DatesStand, Current
  <2>3. ASSUME NEW h \in DOMAIN log', log'[h] = played'[h], played'[h] # LongAgo
        PROVE  h \in DOMAIN save'[s].data \cup save'[s].unread
    <3>1. h \in DOMAIN save[s].data \cup save[s].unread
      BY <2>1, <2>3 DEF Current
    <3> QED
      BY <1>3, <3>1
  <2> QED
    BY <2>2, <2>3 DEF Current
<1> QED
  BY <1>4, <1>5, <1>6

(* Adding what the engine reports keeps the invariant.                     *)
LEMMA SyncStep ==
    ASSUME IInv, NEW listed \in SUBSET Torrents, Sync(listed)
    PROVE  IInv'
<1> USE DEF IInv
<1> DEFINE gone == DOMAIN log \ listed
<1>1. /\ now \in Nat /\ now' \in Nat /\ now' \in 0..MaxNow /\ now <= now' /\ now' \in Dates
      /\ \A h \in listed \ DOMAIN log : now' = now + 1
  BY BoundsAssumption DEF TypeOK, Sync, Dates, FarOff
<1>2. \A h \in DOMAIN log : h \in Torrents /\ log[h] \in Dates /\ log[h] \in Nat
  BY MapEntries, LongAgoIsDate DEF TypeOK
<1>3. \A h \in Torrents : played[h] \in Nat /\ played[h] <= now /\ played'[h] = played[h]
  BY <1>1 DEF TypeOK, Sync
<1>4. /\ log' \in Maps
      /\ DOMAIN log' = listed
      /\ \A h \in listed : log'[h] = IF h \in DOMAIN log THEN log[h] ELSE now'
  <2>1. log' = [h \in listed |-> IF h \in DOMAIN log THEN log[h] ELSE now']
    BY DEF Sync
  <2>2. log' \in [listed -> Dates]
    BY <1>1, <1>2, <2>1
  <2> QED
    BY <2>1, <2>2, MapMade
<1>5. \A h \in DOMAIN log' : log'[h] = played[h] => h \in DOMAIN log /\ log[h] = played[h]
  BY <1>1, <1>3, <1>4
<1>6. /\ save' \in [Saves -> States]
      /\ \A s \in Saves :
           /\ save'[s].pc = save[s].pc
           /\ save'[s].unread = save[s].unread \ gone
           /\ DOMAIN save'[s].data = DOMAIN save[s].data \cup (save[s].unread \cap gone)
           /\ \A h \in DOMAIN save'[s].data :
                save'[s].data[h] = IF h \in save[s].unread \cap gone THEN log[h] ELSE save[s].data[h]
  <2>1. save' = Orphaned(gone) /\ gone \in SUBSET DOMAIN log
    BY DEF Sync
  <2> QED
    BY <2>1, OrphansAreRead
<1>7. /\ writer = {} /\ writer' = {} /\ Unlocked /\ Unlocked'
      /\ \A pc : Started(pc)' = Started(pc)
  BY <1>6 DEF Sync, Unlocked, Started
<1> HIDE DEF gone
<1>8. TypeOK'
  <2>1. \A s \in Saves : save'[s].unread \subseteq IF save'[s].pc = "marshal" THEN DOMAIN log' ELSE {}
    BY <1>4, <1>6 DEF TypeOK, gone
  <2>2. played' \in [Torrents -> 0..now']
    BY <1>1 DEF TypeOK, Sync
  <2>3. loaded' \subseteq DOMAIN log'
    BY <1>4 DEF Sync
  <2> QED
    BY <1>1, <1>4, <1>6, <1>7, <2>1, <2>2, <2>3 DEF TypeOK, States, Sync
<1>9. CleanerWaits' /\ WriterIsNow'
  BY <1>6, <1>7, CleanerAssumption DEF CleanerWaits, WriterIsNow, Sync
<1>10. AloneIsCurrent'
  <2>1. gone \in SUBSET DOMAIN log
    BY DEF gone
  <2>2. Active' = Active /\ (Quiet' => Quiet)
    BY <1>7 DEF Active, Quiet
  <2>3. \A s \in Active : save'[s] = Orphaned(gone)[s]
    BY DEF Sync, gone
  <2> QED
    BY <1>5, <2>1, <2>2, <2>3, AloneWhenEntriesLeave DEF Sync
<1>11. FileIsCurrent'
  <2>1. Settled' => Settled
    BY <1>7 DEF Settled, Sync
  <2> QED
    BY <1>5, <2>1 DEF FileIsCurrent, Sync
<1>12. DatesStand'
  <2> SUFFICES ASSUME NEW h \in DOMAIN log'
               PROVE  played'[h] <= log'[h] /\ (log'[h] <= now' \/ h \in loaded')
    BY DEF DatesStand
  <2>1. CASE h \in DOMAIN log
    <3>1. log'[h] = log[h] /\ h \in Torrents
      BY <1>2, <1>4, <2>1
    <3>2. played[h] <= log[h] /\ (log[h] <= now \/ h \in loaded)
      BY <2>1 DEF DatesStand
    <3>3. h \in loaded => h \in loaded'
      BY <1>4 DEF Sync
    <3>4. log[h] <= now => log[h] <= now'
      BY <1>1, <1>2, <2>1
    <3> QED
      BY <1>3, <3>1, <3>2, <3>3, <3>4
  <2>2. CASE h \notin DOMAIN log
    BY <1>1, <1>3, <1>4, <2>2
  <2> QED
    BY <2>1, <2>2
<1> QED
  BY <1>8, <1>9, <1>10, <1>11, <1>12

(* The cleaner begins its save when nothing is left to remove.             *)
LEMMA SavesAfterKeeps ==
    ASSUME CleanerWaits, NEW h \in doomed, NEW saves \in [Saves -> States],
           saves[Cleaner].pc = save[Cleaner].pc
    PROVE  /\ SavesAfter(h, saves) \in [Saves -> States]
           /\ \A s \in Saves : /\ SavesAfter(h, saves)[s].unread = saves[s].unread
                               /\ s # Cleaner => SavesAfter(h, saves)[s] = saves[s]
           /\ saves[Cleaner].pc = "idle"
           /\ SavesAfter(h, saves)[Cleaner].pc \in {"idle", "begun"}
           /\ doomed \ {h} # {} => SavesAfter(h, saves)[Cleaner].pc = "idle"
<1>1. saves[Cleaner].pc = "idle" /\ saves[Cleaner] \in States
  BY CleanerAssumption DEF CleanerWaits
<1>2. CASE doomed = {h}
  <2>1. SavesAfter(h, saves) = [saves EXCEPT ![Cleaner].pc = "begun"]
    BY <1>2 DEF SavesAfter
  <2> QED
    BY <1>1, <1>2, <2>1, CleanerAssumption DEF States
<1>3. CASE doomed # {h}
  BY <1>1, <1>3 DEF SavesAfter
<1> QED
  BY <1>2, <1>3

(* A removal by the engine keeps the invariant.                            *)
LEMMA CleanupRemovesStep ==
    ASSUME IInv, NEW h \in doomed, CleanupRemoves(h)
    PROVE  IInv'
<1> USE DEF IInv
<1> DEFINE gone == DOMAIN log \cap {h}
<1>1. gone \in SUBSET DOMAIN log /\ DOMAIN log \ {h} = DOMAIN log \ gone
  OBVIOUS
<1>2. /\ Orphaned(gone) \in [Saves -> States]
      /\ \A s \in Saves : /\ Orphaned(gone)[s].pc = save[s].pc
                          /\ Orphaned(gone)[s].unread = save[s].unread \ gone
  BY <1>1, OrphansAreRead
<1>3. save' = SavesAfter(h, Orphaned(gone))
  BY DEF CleanupRemoves
<1> HIDE DEF gone
<1>4. /\ save' \in [Saves -> States]
      /\ \A s \in Saves : /\ save'[s].unread = save[s].unread \ gone
                          /\ s # Cleaner => save'[s] = Orphaned(gone)[s] /\ save'[s].pc = save[s].pc
      /\ save[Cleaner].pc = "idle"
      /\ save'[Cleaner].pc \in {"idle", "begun"}
      /\ doomed' # {} => save'[Cleaner].pc = "idle"
  <2>1. Orphaned(gone)[Cleaner].pc = save[Cleaner].pc /\ doomed' = doomed \ {h}
    BY <1>2, CleanerAssumption DEF CleanupRemoves
  <2> QED
    BY <1>2, <1>3, <2>1, SavesAfterKeeps
<1>5. /\ log' \in Maps
      /\ DOMAIN log' = DOMAIN log \ {h}
      /\ \A g \in DOMAIN log' : log'[g] = log[g]
  <2>1. log \in Maps /\ log' = Restrict(log, DOMAIN log \ {h})
    BY DEF TypeOK, CleanupRemoves
  <2> QED
    BY <2>1, RestrictOps
<1>6. /\ writer = {} /\ writer' = {} /\ Unlocked /\ Unlocked'
      /\ Active' = Active /\ Cleaner \notin Active
      /\ Started({"begun"}) \subseteq Started({"begun"})'
  BY <1>4 DEF CleanupRemoves, Unlocked, Started, Active
<1>7. TypeOK'
  <2>1. \A s \in Saves : save'[s].unread \subseteq IF save'[s].pc = "marshal" THEN DOMAIN log' ELSE {}
    BY <1>4, <1>5 DEF TypeOK, gone
  <2>2. loaded' \subseteq DOMAIN log' /\ doomed' \subseteq Torrents
    BY <1>5 DEF TypeOK, CleanupRemoves
  <2> QED
    BY <1>4, <1>5, <1>6, <2>1, <2>2 DEF TypeOK, States, CleanupRemoves
<1>8. CleanerWaits' /\ WriterIsNow'
  BY <1>4, <1>6 DEF CleanerWaits, WriterIsNow
<1>9. AloneIsCurrent'
  <2>1. Quiet' => Quiet
    BY <1>6 DEF Quiet
  <2>2. \A s \in Active : save'[s] = Orphaned(gone)[s]
    BY <1>4, <1>6 DEF Active, Started
  <2> QED
    BY <1>1, <1>5, <1>6, <2>1, <2>2, AloneWhenEntriesLeave DEF gone, CleanupRemoves
<1>10. FileIsCurrent'
  <2>1. Settled' => Settled
    BY <1>4, <1>6 DEF Settled, Started, CleanupRemoves
  <2> QED
    BY <1>5, <2>1 DEF FileIsCurrent, CleanupRemoves
<1>11. DatesStand'
  BY <1>5 DEF DatesStand, CleanupRemoves
<1> QED
  BY <1>7, <1>8, <1>9, <1>10, <1>11

(* A removal that fails keeps the invariant.                               *)
LEMMA RemovalFailsStep ==
    ASSUME IInv, NEW h \in doomed, RemovalFails(h)
    PROVE  IInv'
<1> USE DEF IInv
<1>1. save \in [Saves -> States]
  BY DEF TypeOK, States
<1>2. /\ save' \in [Saves -> States]
      /\ \A s \in Saves : /\ save'[s].unread = save[s].unread
                          /\ s # Cleaner => save'[s] = save[s]
      /\ save[Cleaner].pc = "idle"
      /\ save'[Cleaner].pc \in {"idle", "begun"}
      /\ doomed' # {} => save'[Cleaner].pc = "idle"
  BY <1>1, SavesAfterKeeps DEF RemovalFails
<1>3. /\ Active' = Active /\ Cleaner \notin Active
      /\ \A s \in Active : save'[s] = save[s] /\ s \in Saves
      /\ Started({"begun"}) \subseteq Started({"begun"})'
  BY <1>2 DEF Started, Active
<1>4. TypeOK'
  <2>1. \A s \in Saves : save'[s].unread \subseteq IF save'[s].pc = "marshal" THEN DOMAIN log' ELSE {}
    BY <1>2 DEF TypeOK, RemovalFails
  <2>2. doomed' \subseteq Torrents
    BY DEF TypeOK, RemovalFails
  <2> QED
    BY <1>2, <2>1, <2>2 DEF TypeOK, States, RemovalFails
<1>5. CleanerWaits' /\ WriterIsNow' /\ DatesStand'
  BY <1>2 DEF CleanerWaits, WriterIsNow, DatesStand, RemovalFails
<1>6. AloneIsCurrent'
  <2>1. Quiet' => Quiet
    BY <1>3 DEF Quiet, Unlocked, RemovalFails
  <2>2. \A s \in Saves : save'[s].pc = "opened" => save[s].pc = "opened"
    BY <1>2
  <2> QED
    BY <1>3, <2>1, <2>2 DEF AloneIsCurrent, Current, RemovalFails
<1>7. FileIsCurrent'
  <2>1. Settled' => Settled
    BY <1>2, <1>3 DEF Settled, Unlocked, Started, RemovalFails
  <2> QED
    BY <2>1 DEF FileIsCurrent, RemovalFails
<1> QED
  BY <1>4, <1>5, <1>6, <1>7

(* What is common to the steps of save s: the log, the accesses and the    *)
(* cleanup stay, and s is not between its beginning and its end before and *)
(* after.                                                                  *)
LEMMA SaveStep ==
    ASSUME IInv, NEW s \in Saves, NEW state \in States,
           save' = [save EXCEPT ![s] = state],
           save[s].pc # "idle",
           state.unread \subseteq IF state.pc = "marshal" THEN DOMAIN log ELSE {},
           UNCHANGED <<log, loaded, writer, doomed, now, restarts, played>>
    PROVE  /\ save' \in [Saves -> States]
           /\ save'[s] = state
           /\ \A t \in Saves \ {s} : save'[t] = save[t]
           /\ \A t \in Saves : save'[t].unread \subseteq IF save'[t].pc = "marshal" THEN DOMAIN log' ELSE {}
           /\ CleanerWaits' /\ WriterIsNow' /\ DatesStand'
<1> USE DEF IInv
<1>1. save \in [Saves -> States]
  BY DEF TypeOK, States
<1>2. /\ save' \in [Saves -> States]
      /\ save'[s] = state
      /\ \A t \in Saves \ {s} : save'[t] = save[t]
  BY <1>1
<1>3. \A t \in Saves : save'[t].unread \subseteq IF save'[t].pc = "marshal" THEN DOMAIN log' ELSE {}
  BY <1>2 DEF TypeOK
<1>4. CleanerWaits'
  BY <1>2, CleanerAssumption DEF CleanerWaits
<1>5. WriterIsNow' /\ DatesStand'
  BY DEF WriterIsNow, DatesStand
<1> QED
  BY <1>2, <1>3, <1>4, <1>5

(* Copying the log for a save keeps the invariant.                         *)
LEMMA SnapshotStep ==
    ASSUME IInv, NEW s \in Saves, Snapshot(s)
    PROVE  IInv'
<1> USE DEF IInv
<1> DEFINE state == [pc |-> "marshal", unread |-> DOMAIN log, data |-> NoDates]
<1>1. state \in States
  BY NoDatesIsMap, MapEntries DEF States, TypeOK
<1>2. /\ save' = [save EXCEPT ![s] = state]
      /\ save[s].pc = "begun"
      /\ state.unread = DOMAIN log /\ state.pc = "marshal" /\ state.data = NoDates
      /\ UNCHANGED <<log, loaded, writer, doomed, file, now, restarts, faults, played>>
  BY DEF Snapshot
<1> HIDE DEF state
<1>3. /\ save' \in [Saves -> States]
      /\ save'[s] = state
      /\ \A t \in Saves \ {s} : save'[t] = save[t]
      /\ \A t \in Saves : save'[t].unread \subseteq IF save'[t].pc = "marshal" THEN DOMAIN log' ELSE {}
      /\ CleanerWaits' /\ WriterIsNow' /\ DatesStand'
  BY <1>1, <1>2, SaveStep
<1>4. TypeOK'
  <2>1. apart' \in BOOLEAN
    BY DEF Snapshot
  <2> QED
    BY <1>2, <1>3, <2>1 DEF TypeOK, States
<1>5. AloneIsCurrent'
  <2> SUFFICES ASSUME apart'
               PROVE  /\ \A t, u \in Active' : t = u
                      /\ \A t \in Saves : save'[t].pc = "opened" => file' = Empty
                      /\ Quiet' => \A t \in Active' : Current(save[t].data, save[t].unread)'
    BY DEF AloneIsCurrent
  <2>1. \A t \in Saves : save[t].pc \notin {"marshal", "opened"}
    BY DEF Snapshot, Started
  <2>2. \A t \in Active' : t = s
    BY <1>3, <2>1 DEF Active, Started
  <2>3. \A t \in Saves : save'[t].pc # "opened"
    BY <1>2, <1>3, <2>1
  <2>4. Current(save[s].data, save[s].unread)'
    BY <1>2, <1>3, NoDatesIsMap DEF Current
  <2> QED
    BY <2>2, <2>3, <2>4
<1>6. FileIsCurrent'
  BY <1>2, <1>3 DEF FileIsCurrent, Settled, Started
<1> QED
  BY <1>3, <1>4, <1>5, <1>6

(* Encoding the copy keeps the invariant.                                  *)
LEMMA MarshalStep ==
    ASSUME IInv, NEW s \in Saves, NEW h \in Torrents, Marshal(s, h)
    PROVE  IInv'
<1> USE DEF IInv
<1>1. save[s].pc = "marshal" /\ h \in save[s].unread /\ h \in DOMAIN log
  BY DEF Marshal, TypeOK
<1>2. save[s] \in States
  BY DEF TypeOK, States
<1>3. PICK date \in Marshalled(h) : save' = [save EXCEPT ![s] = Reads(save[s], h, date)]
  BY DEF Marshal
<1>4. date \in Dates
  <2>1. log[h] \in Dates
    BY <1>1, MapEntries DEF TypeOK
  <2>2. \A w \in writer : w.was \in Dates
    BY DEF TypeOK
  <2> QED
    BY <1>3, <2>1, <2>2, LongAgoIsDate DEF Marshalled
<1> DEFINE state == Reads(save[s], h, date)
<1>5. /\ state \in States
      /\ state.pc = "marshal"
      /\ state.unread = save[s].unread \ {h}
      /\ state.data = With(save[s].data, h, date)
  <2>1. With(save[s].data, h, date) \in Maps
    BY <1>2, <1>4, WithOps DEF States
  <2> DEFINE data == With(save[s].data, h, date)
  <2>2. state = [save[s] EXCEPT !.unread = save[s].unread \ {h}, !.data = data]
    BY DEF Reads
  <2> HIDE DEF data
  <2>3. state = [pc |-> save[s].pc, unread |-> save[s].unread \ {h}, data |-> data]
    BY <1>2, <2>2 DEF States
  <2> QED
    BY <1>1, <1>2, <2>1, <2>3 DEF States, data
<1>6. DOMAIN state.data = DOMAIN save[s].data \cup {h}
      /\ state.data[h] = date /\ \A g \in DOMAIN save[s].data \ {h} : state.data[g] = save[s].data[g]
  <2>1. save[s].data \in Maps
    BY <1>2 DEF States
  <2> QED
    BY <1>4, <1>5, <2>1, WithOps
<1> HIDE DEF state
<1>7. /\ save' \in [Saves -> States]
      /\ save'[s] = state
      /\ \A t \in Saves \ {s} : save'[t] = save[t]
      /\ \A t \in Saves : save'[t].unread \subseteq IF save'[t].pc = "marshal" THEN DOMAIN log' ELSE {}
      /\ CleanerWaits' /\ WriterIsNow' /\ DatesStand'
  <2>1. save' = [save EXCEPT ![s] = state] /\ save[s].pc # "idle"
    BY <1>1, <1>3 DEF state
  <2>2. state.unread \subseteq IF state.pc = "marshal" THEN DOMAIN log ELSE {}
    BY <1>1, <1>5 DEF TypeOK
  <2>3. UNCHANGED <<log, loaded, writer, doomed, now, restarts, played>>
    BY DEF Marshal
  <2> QED
    BY <1>5, <2>1, <2>2, <2>3, SaveStep
<1>8. TypeOK'
  BY <1>7 DEF TypeOK, States, Marshal
<1>9. AloneIsCurrent'
  <2> SUFFICES ASSUME apart'
               PROVE  /\ \A t, u \in Active' : t = u
                      /\ \A t \in Saves : save'[t].pc = "opened" => file' = Empty
                      /\ Quiet' => \A t \in Active' : Current(save[t].data, save[t].unread)'
    BY DEF AloneIsCurrent
  <2>1. Active' = Active /\ apart /\ s \in Active
    BY <1>1, <1>5, <1>7 DEF Active, Started, Marshal
  <2>2. \A t, u \in Active' : t = u
    BY <2>1 DEF AloneIsCurrent
  <2>3. \A t \in Saves : save'[t].pc = "opened" => file' = Empty
    BY <1>5, <1>7, <2>1 DEF AloneIsCurrent, Marshal
  <2>4. ASSUME Quiet', NEW t \in Active'
        PROVE  Current(save[t].data, save[t].unread)'
    <3>1. t = s
      BY <2>1, <2>2
    <3>2. Quiet /\ writer = {}
      BY <1>1, <1>5, <1>7, <2>4 DEF Quiet, Unlocked, Started, Marshal
    <3>3. Current(save[s].data, save[s].unread)
      BY <2>1, <3>2 DEF AloneIsCurrent
    <3>4. date = log[h]
      BY <1>3, <3>2 DEF Marshalled
    <3>5. played[h] <= date
      BY <1>1, <3>4 DEF DatesStand
    <3> QED
      BY <1>5, <1>6, <1>7, <3>1, <3>3, <3>5 DEF Current, Marshal
  <2> QED
    BY <2>2, <2>3, <2>4
<1>10. FileIsCurrent'
  BY <1>5, <1>7 DEF FileIsCurrent, Settled, Started
<1> QED
  BY <1>7, <1>8, <1>9, <1>10

(* A save that fails is not one to rely on.                                *)
LEMMA FailureStep ==
    ASSUME IInv, NEW s \in Saves,
           save[s].pc \in {"marshal", "opened"},
           save' = [save EXCEPT ![s] = IdleSave],
           file' \in {file, Torn}, faults' \in 0..MaxFaults, ~apart', apart' \in BOOLEAN,
           UNCHANGED <<log, loaded, writer, doomed, now, restarts, played>>
    PROVE  IInv'
<1> USE DEF IInv
<1>1. /\ save' \in [Saves -> States]
      /\ \A t \in Saves : save'[t].unread \subseteq IF save'[t].pc = "marshal" THEN DOMAIN log' ELSE {}
      /\ CleanerWaits' /\ WriterIsNow' /\ DatesStand'
  <2>1. IdleSave.unread = {} /\ IdleSave.pc = "idle"
    BY DEF IdleSave
  <2> QED
    BY <2>1, IdleIsState, SaveStep
<1>2. TypeOK'
  <2>1. /\ file' \in [text : {"list", "empty", "torn"}, dates : Maps]
        /\ file'.text # "list" => DOMAIN file'.dates = {}
    BY NoDatesIsMap DEF TypeOK, Torn
  <2> QED
    BY <1>1, <2>1 DEF TypeOK, States
<1>3. AloneIsCurrent' /\ FileIsCurrent'
  BY DEF AloneIsCurrent, FileIsCurrent, Settled
<1> QED
  BY <1>1, <1>2, <1>3

(* Truncating the file keeps the invariant.                                *)
LEMMA OpenFileStep ==
    ASSUME IInv, NEW s \in Saves, OpenFile(s)
    PROVE  IInv'
<1> USE DEF IInv
<1> DEFINE state == [save[s] EXCEPT !.pc = "opened"]
<1>1. save[s] \in States /\ save[s].pc = "marshal" /\ save[s].unread = {}
  BY DEF TypeOK, States, OpenFile
<1>2. state \in States /\ state.pc = "opened" /\ state.unread = {} /\ state.data = save[s].data
  BY <1>1 DEF States
<1>3. save' = [save EXCEPT ![s] = state]
  BY DEF OpenFile
<1> HIDE DEF state
<1>4. /\ save' \in [Saves -> States]
      /\ save'[s] = state
      /\ \A t \in Saves \ {s} : save'[t] = save[t]
      /\ \A t \in Saves : save'[t].unread \subseteq IF save'[t].pc = "marshal" THEN DOMAIN log' ELSE {}
      /\ CleanerWaits' /\ WriterIsNow' /\ DatesStand'
  <2>1. UNCHANGED <<log, loaded, writer, doomed, now, restarts, played>>
    BY DEF OpenFile
  <2> QED
    BY <1>1, <1>2, <1>3, <2>1, SaveStep
<1>5. TypeOK'
  <2>1. /\ file' \in [text : {"list", "empty", "torn"}, dates : Maps]
        /\ file'.text # "list" => DOMAIN file'.dates = {}
    BY NoDatesIsMap DEF OpenFile, Empty
  <2> QED
    BY <1>4, <2>1 DEF TypeOK, States, OpenFile
<1>6. AloneIsCurrent'
  <2>1. Active' = Active
    BY <1>1, <1>2, <1>4 DEF Active, Started
  <2>2. Quiet' => Quiet
    BY <1>1, <1>2, <1>4 DEF Quiet, Unlocked, Started, OpenFile
  <2>3. \A t \in Active : save'[t].data = save[t].data /\ save'[t].unread = save[t].unread
    BY <1>1, <1>2, <1>4 DEF Active, Started
  <2> QED
    BY <2>1, <2>2, <2>3 DEF AloneIsCurrent, Current, OpenFile
<1>7. FileIsCurrent'
  BY <1>2, <1>4 DEF FileIsCurrent, Settled, Started
<1> QED
  BY <1>4, <1>5, <1>6, <1>7

(* Writing the bytes keeps the invariant.                                  *)
LEMMA WriteFileStep ==
    ASSUME IInv, NEW s \in Saves, WriteFile(s)
    PROVE  IInv'
<1> USE DEF IInv
<1>1. save[s] \in States /\ save[s].pc = "opened" /\ save[s].unread = {}
  BY DEF TypeOK, States, WriteFile
<1>2. /\ save' \in [Saves -> States]
      /\ save'[s] = IdleSave
      /\ \A t \in Saves \ {s} : save'[t] = save[t]
      /\ \A t \in Saves : save'[t].unread \subseteq IF save'[t].pc = "marshal" THEN DOMAIN log' ELSE {}
      /\ CleanerWaits' /\ WriterIsNow' /\ DatesStand'
  <2>1. IdleSave.unread = {} /\ IdleSave.pc = "idle"
    BY DEF IdleSave
  <2>2. save' = [save EXCEPT ![s] = IdleSave] /\ UNCHANGED <<log, loaded, writer, doomed, now, restarts, played>>
    BY DEF WriteFile
  <2> QED
    BY <1>1, <2>1, <2>2, IdleIsState, SaveStep
<1>3. file' \in {List(save[s].data), Torn}
  BY DEF WriteFile, Written
<1>4. TypeOK'
  <2>1. /\ file' \in [text : {"list", "empty", "torn"}, dates : Maps]
        /\ file'.text # "list" => DOMAIN file'.dates = {}
    BY <1>1, <1>3, NoDatesIsMap DEF List, Torn, States
  <2> QED
    BY <1>2, <2>1 DEF TypeOK, States, WriteFile
<1>5. s \in Active
  BY <1>1 DEF Active, Started
<1>6. AloneIsCurrent'
  <2>1. ASSUME apart' PROVE Active' = {}
    <3>1. apart /\ \A t \in Active : t = s
      BY <1>5, <2>1 DEF AloneIsCurrent, WriteFile
    <3> QED
      BY <1>2, <3>1 DEF Active, Started, IdleSave
  <2>2. \A t \in Saves : save'[t].pc = "opened" => t \in Active'
    BY DEF Active, Started
  <2> QED
    BY <2>1, <2>2 DEF AloneIsCurrent
<1>7. FileIsCurrent'
  <2> SUFFICES ASSUME Settled'
               PROVE  /\ file'.text = "list"
                      /\ \A h \in DOMAIN file'.dates : played[h] <= file'.dates[h]
                      /\ \A h \in DOMAIN log : log[h] = played[h] /\ played[h] # LongAgo
                                              => h \in DOMAIN file'.dates
    BY DEF FileIsCurrent, WriteFile
  <2>1. apart /\ Quiet
    <3>1. \A t \in Saves : save[t].pc # "begun"
      BY <1>1, <1>2 DEF Settled, Started
    <3> QED
      BY <3>1 DEF Settled, Quiet, Unlocked, Started, WriteFile
  <2>2. file = Empty /\ Current(save[s].data, {})
    BY <1>1, <1>5, <2>1 DEF AloneIsCurrent
  <2>3. file' = List(save[s].data)
    <3>1. Written(save[s].data) \subseteq {List(save[s].data)}
      BY <2>2 DEF Written, Empty, Torn, List
    <3> QED
      BY <3>1 DEF WriteFile
  <2> QED
    BY <2>2, <2>3 DEF Current, List
<1> QED
  BY <1>2, <1>4, <1>6, <1>7

(* A restart, that reads the file, keeps the invariant.                    *)
LEMMA RestartStep ==
    ASSUME IInv, Restart
    PROVE  IInv'
<1> USE DEF IInv
<1>1. /\ save' = [s \in Saves |-> IdleSave]
      /\ \A s \in Saves : save'[s].pc = "idle" /\ save'[s].unread = {}
      /\ writer' = {} /\ doomed' = {} /\ now' = now
  BY DEF Restart, IdleSave
<1>2. file' \in {file, Torn} /\ log' \in {file'.dates, NoDates} /\ loaded' = DOMAIN log'
  BY DEF Restart
<1>3. /\ file' \in [text : {"list", "empty", "torn"}, dates : Maps]
      /\ file'.text # "list" => DOMAIN file'.dates = {}
  BY <1>2, NoDatesIsMap DEF TypeOK, Torn
<1>4. log' \in Maps
  BY <1>2, <1>3, NoDatesIsMap
<1>5. \A h \in DOMAIN log' : log'[h] \in Nat /\ h \in Torrents
  BY <1>4, MapEntries, LongAgoIsDate
<1>6. /\ played' \in [Torrents -> 0..now'] /\ apart' \in BOOLEAN
      /\ played' = IF Settled THEN played ELSE [h \in Torrents |-> LongAgo]
  BY <1>1 DEF TypeOK, Restart, LongAgo, Settled
<1>7. TypeOK'
  <2>1. save' \in [Saves -> States]
    BY <1>1, IdleIsState
  <2>2. restarts' \in 0..MaxRestarts
    BY BoundsAssumption DEF TypeOK, Restart
  <2> QED
    BY <1>1, <1>2, <1>3, <1>4, <1>6, <2>1, <2>2 DEF TypeOK, States, Restart
<1>8. CleanerWaits' /\ WriterIsNow'
  BY <1>1 DEF CleanerWaits, WriterIsNow
<1>9. AloneIsCurrent'
  BY <1>1 DEF AloneIsCurrent, Active, Started
<1>10. ASSUME Settled
       PROVE  /\ file' = file /\ played' = played
              /\ \A h \in DOMAIN log' : h \in DOMAIN file.dates /\ log'[h] = file.dates[h]
  <2>1. file' = file
    BY <1>10 DEF Settled, Started, Restart
  <2> QED
    BY <1>2, <1>6, <1>10, <2>1, NoDatesIsMap
<1>11. FileIsCurrent'
  <2>1. Settled' => Settled
    BY DEF Settled, Restart
  <2> QED
    BY <1>10, <2>1 DEF FileIsCurrent
<1>12. DatesStand'
  <2>1. CASE Settled
    BY <1>2, <1>10, <2>1 DEF DatesStand, FileIsCurrent
  <2>2. CASE ~Settled
    BY <1>2, <1>5, <1>6, <2>2 DEF DatesStand, LongAgo
  <2> QED
    BY <2>1, <2>2
<1> QED
  BY <1>7, <1>8, <1>9, <1>11, <1>12

----------------------------------------------------------------------------
(* The invariant holds at the start.                                       *)
LEMMA InitInv == Init => IInv
<1> SUFFICES ASSUME Init PROVE IInv
  OBVIOUS
<1>1. TypeOK
  <2>1. /\ save \in [Saves -> States]
        /\ \A s \in Saves : save[s].unread = {}
    BY IdleIsState DEF Init, IdleSave
  <2>2. played \in [Torrents -> 0..now] /\ now \in 0..MaxNow /\ restarts \in 0..MaxRestarts
        /\ faults \in 0..MaxFaults
    BY BoundsAssumption DEF Init, LongAgo
  <2> QED
    BY <2>1, <2>2, NoDatesIsMap DEF Init, TypeOK, States, List
<1>2. CleanerWaits /\ WriterIsNow /\ DatesStand
  BY NoDatesIsMap DEF Init, CleanerWaits, WriterIsNow, DatesStand
<1>3. AloneIsCurrent
  BY DEF Init, AloneIsCurrent, Active, Started, IdleSave
<1>4. FileIsCurrent
  BY NoDatesIsMap DEF Init, FileIsCurrent, List
<1> QED
  BY <1>1, <1>2, <1>3, <1>4 DEF IInv

(* Every step keeps the invariant.                                         *)
LEMMA NextInv == IInv /\ [Next]_vars => IInv'
<1> SUFFICES ASSUME IInv, [Next]_vars PROVE IInv'
  OBVIOUS
<1>1. CASE UNCHANGED vars
  BY <1>1 DEF vars, IInv, TypeOK, CleanerWaits, WriterIsNow, AloneIsCurrent, FileIsCurrent,
              DatesStand, Settled, Unlocked, Started, Active, Quiet, Current
<1>2. CASE \E h \in Torrents : AccessBegins(h)
  BY <1>2, AccessBeginsStep
<1>3. CASE AccessEnds
  BY <1>3, AccessEndsStep
<1>4. CASE \E listed \in SUBSET Torrents : Sync(listed)
  BY <1>4, SyncStep
<1>5. CASE \E victims \in SUBSET DOMAIN log : CleanupSelects(victims)
  BY <1>5, CleanupSelectsStep
<1>6. CASE \E h \in doomed : CleanupRemoves(h) \/ RemovalFails(h)
  BY <1>6, CleanupRemovesStep, RemovalFailsStep
<1>7. CASE \E s \in Saves : Snapshot(s) \/ OpenFile(s) \/ WriteFile(s)
  BY <1>7, SnapshotStep, OpenFileStep, WriteFileStep
<1>8. ASSUME NEW s \in Saves, SaveFails(s)
      PROVE  IInv'
  <2>1. save[s].pc \in {"marshal", "opened"} /\ file' \in {file, Torn}
    BY <1>8 DEF SaveFails
  <2>2. faults' \in 0..MaxFaults
    BY <1>8, BoundsAssumption DEF IInv, TypeOK, SaveFails
  <2> QED
    BY <1>8, <2>1, <2>2, FailureStep DEF SaveFails
<1>9. ASSUME NEW s \in Saves, NEW h \in Torrents, MarshalFails(s, h)
      PROVE  IInv'
  <2>1. faults' \in 0..MaxFaults
    BY <1>9 DEF IInv, TypeOK, MarshalFails
  <2> QED
    BY <1>9, <2>1, FailureStep DEF MarshalFails
<1>10. CASE \E s \in Saves, h \in Torrents : Marshal(s, h)
  BY <1>10, MarshalStep
<1>11. CASE Restart
  BY <1>11, RestartStep
<1> QED
  BY <1>1, <1>2, <1>3, <1>4, <1>5, <1>6, <1>7, <1>8, <1>9, <1>10, <1>11 DEF Next

(* The invariant holds of every reachable state.                           *)
LEMMA Inductive == Spec => []IInv
BY InitInv, NextInv, PTL DEF Spec

(* The types, and what a save that marshals still has to read is in the    *)
(* log whatever syncs and cleanups do meanwhile.                           *)
THEOREM TypeCorrect == Spec => []TypeOK
<1>1. IInv => TypeOK
  BY DEF IInv
<1> QED
  BY <1>1, Inductive, PTL

(* Once a save that no other overlapped has ended and none is to come, the *)
(* file is whole and has every access, although the sync does not save and *)
(* json.MarshalIndent reads without the lock.                              *)
THEOREM FileCurrent == Spec => []FileIsCurrent
<1>1. IInv => FileIsCurrent
  BY DEF IInv
<1> QED
  BY <1>1, Inductive, PTL

(* The log never says that a torrent was last used before it was, also     *)
(* after a restart that came when the file was settled, and has a date yet *)
(* to come only from the file.                                             *)
THEOREM DatesRight == Spec => []DatesStand
<1>1. IInv => DatesStand
  BY DEF IInv
<1> QED
  BY <1>1, Inductive, PTL
=============================================================================
