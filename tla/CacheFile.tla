----------------------------- MODULE CacheFile -----------------------------
(***************************************************************************)
(* The file of the access log (internal/cache/manager.go, save and load).  *)
(*                                                                         *)
(* RecordAccess saves in a goroutine of its own, and a cleanup at its end; *)
(* the hourly sync changes the log and does not save.  A save copies the   *)
(* pointers of the log under the read lock and does the rest without it:   *)
(* it reads what the pointers point at while accesses go on writing there, *)
(* truncates the file and writes it.  Nothing keeps two saves apart, and   *)
(* nothing waits for them when the bridge stops.                           *)
(*                                                                         *)
(* Which torrents the engine lists, and which a cleanup removes, is left   *)
(* open here; CacheManager is about that.                                  *)
(***************************************************************************)
EXTENDS Naturals, FiniteSets, Functions

CONSTANTS
    Torrents,       \* info hashes
    Saves,          \* goroutines that may be in save at the same time
    Cleaner,        \* the one of them that runs the cleanup; accesses start the others
    MaxNow,         \* bound: accesses and syncs
    MaxRestarts,    \* bound: restarts of the bridge
    MaxFaults       \* bound: calls of the file system that fail

ASSUME CleanerAssumption == Cleaner \in Saves
ASSUME BoundsAssumption == MaxNow \in Nat /\ MaxRestarts \in Nat /\ MaxFaults \in Nat

VARIABLES
    log,        \* accessLog: hash -> LastAccessed
    loaded,     \* those of its dates that were read from the file
    writer,     \* the RecordAccess that has the lock, or none, as a set
    doomed,     \* torrents the cleanup under way has still to remove
    save,       \* where each save is
    file,       \* cache_access.json
    now,        \* the clock
    restarts,   \* restarts so far
    faults,     \* failed calls so far
    played,     \* history: hash -> the last access, unless a restart lost it
    apart       \* history: the last save to begin had no other beside it

vars == <<log, loaded, writer, doomed, save, file, now, restarts, faults, played, apart>>

(* A date made of the words of two others is of long ago or yet to come.   *)
LongAgo == 0
FarOff == MaxNow + 1
Dates == 0..FarOff

Maps == UNION {[S -> Dates] : S \in SUBSET Torrents}

NoDates == [h \in {} |-> LongAgo]

(* The file is a list, or empty, or torn: cut short, or a list with the    *)
(* tail of another after it.  json.Unmarshal accepts lists only.           *)
List(dates) == [text |-> "list", dates |-> dates]
Empty == [text |-> "empty", dates |-> NoDates]
Torn == [text |-> "torn", dates |-> NoDates]

(* pc: "idle"; "begun", before it has the lock; "marshal", with the        *)
(* pointers it has not followed yet; "opened", the file being truncated.   *)
IdleSave == [pc |-> "idle", unread |-> {}, data |-> NoDates]

Init ==
    /\ log = NoDates /\ loaded = {} /\ file = List(NoDates)
    /\ writer = {} /\ doomed = {}
    /\ save = [s \in Saves |-> IdleSave]
    /\ now = 0 /\ restarts = 0 /\ faults = 0
    /\ played = [h \in Torrents |-> LongAgo]
    /\ apart = TRUE

Unlocked == writer = {}

With(map, h, date) == [g \in DOMAIN map \cup {h} |-> IF g = h THEN date ELSE map[g]]

Started(pc) == {s \in Saves : save[s].pc \in pc}

Free == Started({"idle"}) \ {Cleaner}

Reads(s, h, date) == [s EXCEPT !.unread = @ \ {h}, !.data = With(@, h, date)]

(* An entry that leaves the log is not written to again: a save that has   *)
(* its pointer may as well read it now.                                    *)
Orphaned(gone) ==
    [s \in Saves |->
       LET late == save[s].unread \cap gone
       IN  [save[s] EXCEPT !.unread = @ \ late,
                           !.data = [h \in DOMAIN @ \cup late |->
                                       IF h \in late THEN log[h] ELSE @[h]]]]

----------------------------------------------------------------------------
(* RecordAccess.  LastAccessed is three words, written one after another.  *)
AccessBegins(h) ==
    /\ Unlocked
    /\ now < MaxNow /\ Free # {}
    /\ now' = now + 1
    /\ writer' = {[hash |-> h, was |-> IF h \in DOMAIN log THEN log[h] ELSE now']}
    /\ log' = With(log, h, now')
    /\ played' = [played EXCEPT ![h] = now']
    /\ UNCHANGED <<loaded, doomed, save, file, restarts, faults, apart>>

(* Variant: only a torrent that is new is saved.                           *)
AccessEnds_SavesNew ==
    /\ ~Unlocked
    /\ writer' = {}
    /\ loaded' = loaded \ {w.hash : w \in writer}
    /\ \E s \in Free, w \in writer :
         save' = [save EXCEPT ![s].pc = IF w.was = now THEN "begun" ELSE "idle"]
    /\ UNCHANGED <<log, doomed, file, now, restarts, faults, played, apart>>

AccessEnds ==
    /\ ~Unlocked
    /\ writer' = {}
    /\ loaded' = loaded \ {w.hash : w \in writer}
    /\ \E s \in Free : save' = [save EXCEPT ![s].pc = "begun"]
    /\ UNCHANGED <<log, doomed, file, now, restarts, faults, played, apart>>

(* Variant: entries the sync makes have no date.                           *)
Sync_Undated(listed) ==
    /\ Unlocked
    /\ now' = IF listed \subseteq DOMAIN log THEN now ELSE now + 1
    /\ now' <= MaxNow
    /\ log' = [h \in listed |-> IF h \in DOMAIN log THEN log[h] ELSE LongAgo]
    /\ loaded' = loaded \cap listed
    /\ save' = Orphaned(DOMAIN log \ listed)
    /\ UNCHANGED <<writer, doomed, file, restarts, faults, played, apart>>

(* syncWithEngine, with what the engine listed before.                     *)
Sync(listed) ==
    /\ Unlocked
    /\ now' = IF listed \subseteq DOMAIN log THEN now ELSE now + 1
    /\ now' <= MaxNow
    /\ log' = [h \in listed |-> IF h \in DOMAIN log THEN log[h] ELSE now']
    /\ loaded' = loaded \cap listed
    /\ save' = Orphaned(DOMAIN log \ listed)
    /\ UNCHANGED <<writer, doomed, file, restarts, faults, played, apart>>

(* RunCleanup: what to remove, each removal from the engine, which may     *)
(* fail, and the save after the last.                                      *)
CleanupSelects(victims) ==
    /\ Unlocked
    /\ doomed = {} /\ save[Cleaner].pc = "idle"
    /\ victims # {}
    /\ doomed' = victims
    /\ UNCHANGED <<log, loaded, writer, save, file, now, restarts, faults, played, apart>>

SavesAfter(h, saves) ==
    IF doomed = {h} THEN [saves EXCEPT ![Cleaner].pc = "begun"] ELSE saves

CleanupRemoves(h) ==
    /\ Unlocked
    /\ doomed' = doomed \ {h}
    /\ log' = Restrict(log, DOMAIN log \ {h})
    /\ loaded' = loaded \ {h}
    /\ save' = SavesAfter(h, Orphaned(DOMAIN log \cap {h}))
    /\ UNCHANGED <<writer, file, now, restarts, faults, played, apart>>

RemovalFails(h) ==
    /\ doomed' = doomed \ {h}
    /\ save' = SavesAfter(h, save)
    /\ UNCHANGED <<log, loaded, writer, file, now, restarts, faults, played, apart>>

----------------------------------------------------------------------------
(* save: the pointers, under the read lock.                                *)
Snapshot(s) ==
    /\ Unlocked
    /\ save[s].pc = "begun"
    /\ save' = [save EXCEPT ![s] = [pc |-> "marshal", unread |-> DOMAIN log, data |-> NoDates]]
    /\ apart' = (Started({"marshal", "opened"}) = {})
    /\ UNCHANGED <<log, loaded, writer, doomed, file, now, restarts, faults, played>>

(* json.MarshalIndent, without the lock.  In the middle of an access the   *)
(* date is the one before, the one after, or, when the one before came     *)
(* from the file and so has no monotonic clock reading, a mixture.         *)
Marshalled(h) ==
    LET before == {w.was : w \in {v \in writer : v.hash = h}}
    IN  {log[h]} \cup before
        \cup (IF before # {} /\ h \in loaded THEN {LongAgo, FarOff} ELSE {})

Marshal(s, h) ==
    /\ save[s].pc = "marshal"
    /\ h \in save[s].unread
    /\ \E date \in Marshalled(h) : save' = [save EXCEPT ![s] = Reads(@, h, date)]
    /\ UNCHANGED <<log, loaded, writer, doomed, file, now, restarts, faults, played, apart>>

(* A mixture may also be of a year that cannot be written.                 *)
MarshalFails(s, h) ==
    /\ save[s].pc = "marshal"
    /\ h \in save[s].unread \cap loaded
    /\ \E w \in writer : w.hash = h
    /\ save' = [save EXCEPT ![s] = IdleSave]
    /\ apart' = FALSE
    /\ UNCHANGED <<log, loaded, writer, doomed, file, now, restarts, faults, played>>

(* Variant: the list is encoded into the open file.                        *)
OpenFile_First(s) ==
    /\ save[s].pc = "marshal"
    /\ file' = Empty
    /\ save' = [save EXCEPT ![s].pc = "opened"]
    /\ UNCHANGED <<log, loaded, writer, doomed, now, restarts, faults, played, apart>>

(* os.WriteFile: open and truncate, then write, each of which may fail.    *)
OpenFile(s) ==
    /\ save[s].pc = "marshal" /\ save[s].unread = {}
    /\ file' = Empty
    /\ save' = [save EXCEPT ![s].pc = "opened"]
    /\ UNCHANGED <<log, loaded, writer, doomed, now, restarts, faults, played, apart>>

(* Over what another save wrote since the file was truncated: of a text    *)
(* that may be longer the tail may stay, and of one that is longer does.   *)
Written(dates) ==
    LET ahead  == Cardinality(DOMAIN file.dates)
        longer == file.text = "list" /\ ahead > Cardinality(DOMAIN dates)
        tail   == \/ file.text = "torn"
                  \/ file.text = "list" /\ ahead >= Cardinality(DOMAIN dates)
    IN  {text \in {List(dates), Torn} : IF text = Torn THEN tail ELSE ~longer}

WriteFile(s) ==
    /\ save[s].pc = "opened"
    /\ file' \in Written(save[s].data)
    /\ save' = [save EXCEPT ![s] = IdleSave]
    /\ UNCHANGED <<log, loaded, writer, doomed, now, restarts, faults, played, apart>>

SaveFails(s) ==
    /\ faults < MaxFaults
    /\ faults' = faults + 1
    /\ \/ save[s].pc = "marshal" /\ save[s].unread = {} /\ UNCHANGED file
       \/ save[s].pc = "opened" /\ file' \in {file, Torn}
    /\ save' = [save EXCEPT ![s] = IdleSave]
    /\ apart' = FALSE
    /\ UNCHANGED <<log, loaded, writer, doomed, now, restarts, played>>

----------------------------------------------------------------------------
(* Every access is in the file that the last save left there.              *)
Settled == Unlocked /\ apart /\ Started({"begun", "marshal", "opened"}) = {}

(* The bridge ends, wherever its goroutines are, and starts again: load,   *)
(* and an empty log when it fails.  A write under way may leave a part.    *)
Restart ==
    /\ restarts < MaxRestarts
    /\ restarts' = restarts + 1
    /\ file' \in {file} \cup (IF Started({"opened"}) = {} THEN {} ELSE {Torn})
    /\ log' \in {file'.dates, NoDates}
    /\ loaded' = DOMAIN log'
    /\ writer' = {} /\ doomed' = {}
    /\ save' = [s \in Saves |-> IdleSave]
    /\ played' = IF Settled THEN played ELSE [h \in Torrents |-> LongAgo]
    /\ apart' = Settled
    /\ UNCHANGED <<now, faults>>

Next ==
    \/ \E h \in Torrents : AccessBegins(h)
    \/ AccessEnds
    \/ \E listed \in SUBSET Torrents : Sync(listed)
    \/ \E victims \in SUBSET DOMAIN log : CleanupSelects(victims)
    \/ \E h \in doomed : CleanupRemoves(h) \/ RemovalFails(h)
    \/ \E s \in Saves : Snapshot(s) \/ OpenFile(s) \/ WriteFile(s) \/ SaveFails(s)
    \/ \E s \in Saves, h \in Torrents : Marshal(s, h) \/ MarshalFails(s, h)
    \/ Restart

Spec == Init /\ [][Next]_vars

----------------------------------------------------------------------------
(* The types.  A save follows pointers while it marshals, to entries that  *)
(* are in the log; the writer's entry stays there, and only a list has     *)
(* dates.                                                                  *)
TypeOK ==
    /\ log \in Maps /\ loaded \subseteq DOMAIN log
    /\ writer = {} \/ \E w \in [hash : DOMAIN log, was : Dates] : writer = {w}
    /\ doomed \subseteq Torrents
    /\ save \in [Saves -> [pc : {"idle", "begun", "marshal", "opened"},
                           unread : SUBSET Torrents, data : Maps]]
    /\ \A s \in Saves : save[s].unread \subseteq IF save[s].pc = "marshal" THEN DOMAIN log ELSE {}
    /\ file \in [text : {"list", "empty", "torn"}, dates : Maps]
    /\ file.text # "list" => DOMAIN file.dates = {}
    /\ now \in 0..MaxNow /\ restarts \in 0..MaxRestarts /\ faults \in 0..MaxFaults
    /\ played \in [Torrents -> 0..now] /\ apart \in BOOLEAN

(* Although the sync does not save and saves read while accesses write:    *)
(* once a save that no other overlapped has ended and none is to come, the *)
(* file is whole, says of no torrent that it was last used before it was,  *)
(* and has every torrent whose entry an access made or renewed.            *)
FileIsCurrent ==
    Settled =>
      /\ file.text = "list"
      /\ \A h \in DOMAIN file.dates : played[h] <= file.dates[h]
      /\ \A h \in DOMAIN log : (log[h] = played[h] /\ played[h] # LongAgo) => h \in DOMAIN file.dates

(* The log, from which cleanups choose: it says of no torrent that it was  *)
(* last used before it was, also after a restart that came when the file   *)
(* was settled, and a date yet to come can only have been loaded.          *)
DatesStand ==
    \A h \in DOMAIN log : /\ played[h] <= log[h]
                          /\ log[h] <= now \/ h \in loaded
=============================================================================
