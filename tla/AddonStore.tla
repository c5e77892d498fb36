----------------------------- MODULE AddonStore -----------------------------
(***************************************************************************)
(* The registrations of wrapped addons (internal/addon/store.go), in       *)
(* memory and in addons.json, with the requests that change them: the      *)
(* handlers of /api/addons, the goroutine that looks up the name of a new  *)
(* addon, and HandleManifest, which supplies a name still missing.         *)
(*                                                                         *)
(* A change is made in memory and then saved, both under the store's lock. *)
(* The write may fail, and the bridge may die in it.                       *)
(***************************************************************************)
EXTENDS FiniteSets

CONSTANTS
    Urls,      \* manifest URLs
    Ids,       \* addon ids
    IdOf,      \* IdOf[u]: the first 8 digits of the hash of u
    NoId,      \* the id of a request that is about none
    Names, NoName,
    Methods,   \* fetch methods
    Global,    \* the one of them a new addon has
    Requests,  \* goroutines that work on the store
    Torn       \* a file that does not parse

ASSUME IdsAssumption == IdOf \in [Urls -> Ids] /\ NoId \notin Ids
ASSUME NamesAssumption == NoName \notin Names
ASSUME MethodsAssumption == Global \in Methods

Addons == [url : Urls, name : Names \cup {NoName}, method : Methods]

Maps == UNION {[S -> Addons] : S \in SUBSET Ids}

ASSUME TornAssumption == Torn \notin Maps

VARIABLES
    up,      \* whether the bridge runs
    addons,  \* AddonStore.addons: id -> addon
    file,    \* addons.json; no file and an empty map load alike
    call,    \* the requests under way
    acked,   \* ghost: what the last request about an id was told
    unsaved  \* ghost: addons whose save failed and that no save has had since

vars == <<up, addons, file, call, acked, unsaved>>

(* Inside the store's lock, the change made and the save to come.          *)
Saving == {"adding", "removing", "naming", "updating"}

(* holding: has a pointer to the addon and is to look at its name; naming  *)
(* and updating wait for the lock as "name" and "method".                  *)
Calls == [op : {"idle", "holding", "name", "method"} \cup Saving,
          id : Ids \cup {NoId},
          gone : SUBSET (Names \cup {NoName})]  \* its name, once it is removed

Idle == [op |-> "idle", id |-> NoId, gone |-> {}]

Doing(op, id) == [op |-> op, id |-> id, gone |-> {}]

Acks == [is : {"unknown", "added", "removed", "notfound"},
         method : SUBSET Methods]

Unknown == [is |-> "unknown", method |-> {}]

Locked == \E r \in Requests : call[r].op \in Saving

Init ==
    /\ up = FALSE
    /\ addons = <<>>
    /\ file = <<>>
    /\ call = [r \in Requests |-> Idle]
    /\ acked = [id \in Ids |-> Unknown]
    /\ unsaved = {}

----------------------------------------------------------------------------
Without(map, id) == [i \in DOMAIN map \ {id} |-> map[i]]

With(map, id, addon) ==
    [i \in DOMAIN map \cup {id} |-> IF i = id THEN addon ELSE map[i]]

Free(r) == up /\ ~Locked /\ call[r] = Idle

(* HandleAddAddon.  An addon that is there already is acknowledged like a  *)
(* new one, without a save.                                                *)
AddExisting(r, u) ==
    /\ Free(r)
    /\ IdOf[u] \in DOMAIN addons
    /\ call' = [call EXCEPT ![r] = Doing("holding", IdOf[u])]
    /\ acked' = [acked EXCEPT ![IdOf[u]].is = "added"]
    /\ UNCHANGED <<up, addons, file, unsaved>>

AddNew(r, u) ==
    /\ Free(r)
    /\ IdOf[u] \notin DOMAIN addons
    /\ addons' = With(addons, IdOf[u], [url |-> u, name |-> NoName, method |-> Global])
    /\ call' = [call EXCEPT ![r] = Doing("adding", IdOf[u])]
    /\ acked' = [acked EXCEPT ![IdOf[u]] = Unknown]
    /\ UNCHANGED <<up, file, unsaved>>

(* HandleRemoveAddon.  Who holds a pointer to the addon keeps it, with the *)
(* name the addon now has.                                                 *)
Remove(r, id) ==
    /\ Free(r)
    /\ id \in DOMAIN addons
    /\ addons' = Without(addons, id)
    /\ call' = [q \in Requests |->
                  IF q = r THEN Doing("removing", id)
                  ELSE IF call[q] = Doing("holding", id)
                  THEN [call[q] EXCEPT !.gone = {addons[id].name}]
                  ELSE call[q]]
    /\ acked' = [acked EXCEPT ![id] = Unknown]
    /\ UNCHANGED <<up, file, unsaved>>

RemoveMissing(r, id) ==
    /\ Free(r)
    /\ id \notin DOMAIN addons
    /\ acked' = [acked EXCEPT ![id].is = IF @ = "removed" THEN @ ELSE "notfound"]
    /\ UNCHANGED <<up, addons, file, call, unsaved>>

(* HandleUpdateAddon looks the addon up, and UpdateFetchMethod does again. *)
UpdateChecked(r, id) ==
    /\ Free(r)
    /\ id \in DOMAIN addons
    /\ call' = [call EXCEPT ![r] = Doing("method", id)]
    /\ UNCHANGED <<up, addons, file, acked, unsaved>>

UpdateFetchMethod(r) ==
    /\ call[r].op = "method"
    /\ ~Locked
    /\ LET id == call[r].id
       IN  IF id \in DOMAIN addons
           THEN /\ \E m \in Methods : addons' = [addons EXCEPT ![id].method = m]
                /\ call' = [call EXCEPT ![r].op = "updating"]
                /\ acked' = [acked EXCEPT ![id].method = {}]
           ELSE call' = [call EXCEPT ![r] = Idle] /\ UNCHANGED <<addons, acked>>
    /\ UNCHANGED <<up, file, unsaved>>

----------------------------------------------------------------------------
(* HandleManifest has the addon's pointer from Get.                        *)
ManifestBegins(r, id) ==
    /\ Free(r)
    /\ id \in DOMAIN addons
    /\ call' = [call EXCEPT ![r] = Doing("holding", id)]
    /\ UNCHANGED <<up, addons, file, acked, unsaved>>

NameSeen(r) == IF call[r].gone = {} THEN {addons[call[r].id].name}
               ELSE call[r].gone

(* The name is read without the lock: by HandleManifest, once it has the   *)
(* manifest, and by HandleAddAddon, to start fetchAddonName.               *)
NeedsName(r) ==
    /\ call[r].op = "holding"
    /\ NoName \in NameSeen(r)
    /\ call' = [call EXCEPT ![r] = Doing("name", @.id)]
    /\ UNCHANGED <<up, addons, file, acked, unsaved>>

(* It has a name, or its manifest cannot be had or tells none.             *)
NoNewName(r) ==
    /\ call[r].op \in {"holding", "name"}
    /\ call' = [call EXCEPT ![r] = Idle]
    /\ UNCHANGED <<up, addons, file, acked, unsaved>>

(* Variant: a name that comes in registers the addon again.                *)
UpdateName_Registers(r) ==
    /\ call[r].op = "name"
    /\ ~Locked
    /\ \E n \in Names, u \in {v \in Urls : IdOf[v] = call[r].id} :
         addons' = With(addons, call[r].id, [url |-> u, name |-> n, method |-> Global])
    /\ call' = [call EXCEPT ![r].op = "naming"]
    /\ UNCHANGED <<up, file, acked, unsaved>>

UpdateName(r) ==
    /\ call[r].op = "name"
    /\ ~Locked
    /\ LET id == call[r].id
       IN  IF id \in DOMAIN addons
           THEN /\ \E n \in Names : addons' = [addons EXCEPT ![id].name = n]
                /\ call' = [call EXCEPT ![r].op = "naming"]
           ELSE call' = [call EXCEPT ![r] = Idle] /\ UNCHANGED addons
    /\ UNCHANGED <<up, file, acked, unsaved>>

----------------------------------------------------------------------------
(* The end of save, and the answer to the request.                         *)
Saved(r) ==
    /\ call[r].op \in Saving
    /\ file' = addons
    /\ LET id == call[r].id
       IN  CASE call[r].op = "adding" ->
                  /\ call' = [call EXCEPT ![r] = Doing("holding", id)]
                  /\ acked' = [acked EXCEPT ![id].is = "added"]
             [] call[r].op = "removing" ->
                  /\ call' = [call EXCEPT ![r] = Idle]
                  /\ acked' = [acked EXCEPT ![id].is = "removed"]
             [] call[r].op = "updating" ->
                  /\ call' = [call EXCEPT ![r] = Idle]
                  /\ acked' = [acked EXCEPT ![id].method = {addons[id].method}]
             [] call[r].op = "naming" ->
                  /\ call' = [call EXCEPT ![r] = Idle]
                  /\ UNCHANGED acked
    /\ unsaved' = unsaved \ DOMAIN addons
    /\ UNCHANGED <<up, addons>>

(* The file cannot be opened, or not be written to its end.  The change    *)
(* stays in memory; whoever asked for a removal is told "not found".       *)
SaveFails(r) ==
    /\ call[r].op \in Saving
    /\ file' \in {file, Torn}
    /\ call' = [call EXCEPT ![r] = Idle]
    /\ acked' = IF call[r].op = "removing"
                THEN [acked EXCEPT ![call[r].id].is = "notfound"] ELSE acked
    /\ unsaved' = IF call[r].op = "adding" THEN unsaved \cup {call[r].id} ELSE unsaved
    /\ UNCHANGED <<up, addons>>

(* WriteFile truncates the file and then writes it.                        *)
Crash ==
    /\ up
    /\ up' = FALSE
    /\ file' \in {file} \cup (IF Locked THEN {Torn, addons} ELSE {})
    /\ addons' = <<>>
    /\ call' = [r \in Requests |-> Idle]
    /\ UNCHANGED <<acked, unsaved>>

(* Variant: what does not parse is loaded as it is.                        *)
Start_AnyFile ==
    /\ ~up
    /\ up' = TRUE
    /\ addons' = file
    /\ UNCHANGED <<file, call, acked, unsaved>>

Start ==
    /\ ~up
    /\ file # Torn
    /\ up' = TRUE
    /\ addons' = file
    /\ UNCHANGED <<file, call, acked, unsaved>>

(* main exits when the store cannot be loaded.                             *)
StartFails == ~up /\ file = Torn /\ UNCHANGED vars

Next ==
    \/ \E r \in Requests, u \in Urls : AddExisting(r, u) \/ AddNew(r, u)
    \/ \E r \in Requests, id \in Ids :
         \/ Remove(r, id) \/ RemoveMissing(r, id)
         \/ UpdateChecked(r, id) \/ ManifestBegins(r, id)
    \/ \E r \in Requests :
         \/ UpdateFetchMethod(r) \/ NeedsName(r) \/ NoNewName(r) \/ UpdateName(r)
         \/ Saved(r) \/ SaveFails(r)
    \/ Crash \/ Start \/ StartFails

Spec == Init /\ [][Next]_vars

----------------------------------------------------------------------------
(* The types: the addons in memory are a map, and so is the file unless a  *)
(* crash tore it.                                                          *)
TypeOK ==
    /\ up \in BOOLEAN
    /\ addons \in Maps
    /\ file \in Maps \cup {Torn}
    /\ call \in [Requests -> Calls]
    /\ acked \in [Ids -> Acks]
    /\ unsaved \subseteq Ids

(* What the map holds of id is what was last acknowledged about it.  An    *)
(* addition that is repeated after its save failed is acknowledged without *)
(* another (store.go:50), and need not be there.                           *)
Agrees(map, id) ==
    /\ acked[id].is = "added" => id \in DOMAIN map \/ id \in unsaved
    /\ acked[id].is = "removed" => id \notin DOMAIN map
    /\ \A m \in acked[id].method : id \in DOMAIN map /\ map[id].method = m

(* An addition (201, also of an addon that was there), a removal or a      *)
(* choice of a method that was acknowledged stands, in the file and in the *)
(* running bridge, until another request for that id is made: through      *)
(* failed saves, crashes and restarts, requests for other ids, and names   *)
(* that come in late for an addon removed meanwhile.  The exception is an  *)
(* addon that was acknowledged because it was in memory, where a failed    *)
(* save had left it, and that no save has written since.                   *)
AcksAreDurable ==
    \A id \in Ids : /\ file # Torn => Agrees(file, id)
                    /\ up => Agrees(addons, id)
=============================================================================
