-------------------------- MODULE AddonStoreProofs --------------------------
(***************************************************************************)
(* Every acknowledgement of the addon store is durable, for any number of  *)
(* addons and of requests at once.                                         *)
(***************************************************************************)
EXTENDS AddonStore, TLAPS

(* Requests are made of a bridge that runs; one at a time is inside the    *)
(* lock, and the change it is to save is there in memory.                  *)
LockHolds ==
    \A r \in Requests :
        /\ call[r].op # "idle" => up /\ call[r].id \in Ids
        /\ call[r].op \in Saving =>
             \A q \in Requests : call[q].op \in Saving => q = r
        /\ call[r].op \in {"adding", "updating"} => call[r].id \in DOMAIN addons
        /\ call[r].op = "removing" => call[r].id \notin DOMAIN addons

(* A pointer whose addon has not been removed leads to a registered one.   *)
PointersHold ==
    \A r \in Requests : call[r].op = "holding" /\ call[r].gone = {}
                        => call[r].id \in DOMAIN addons

(* What is registered in memory is in the file, unless its save failed or  *)
(* is still to come: an addition that finds it there may be acknowledged.  *)
InFile(id) == id \in DOMAIN file \/ id \in unsaved

AddingIt(id) == \E r \in Requests : call[r].op = "adding" /\ call[r].id = id

FileHolds ==
    up /\ file # Torn => \A id \in DOMAIN addons : InFile(id) \/ AddingIt(id)

IInv == TypeOK /\ LockHolds /\ PointersHold /\ AcksAreDurable /\ FileHolds

----------------------------------------------------------------------------
(* Maps from ids to addons stay such when one is put in, taken out or      *)
(* changed.                                                                *)
LEMMA MapOps ==
    ASSUME NEW map \in Maps, NEW id \in Ids
    PROVE  /\ Without(map, id) \in Maps
           /\ DOMAIN Without(map, id) = DOMAIN map \ {id}
           /\ \A i \in DOMAIN map \ {id} : Without(map, id)[i] = map[i]
           /\ \A a \in Addons :
                /\ With(map, id, a) \in Maps
                /\ DOMAIN With(map, id, a) = DOMAIN map \cup {id}
                /\ \A i \in DOMAIN map \ {id} : With(map, id, a)[i] = map[i]
<1>1. PICK S \in SUBSET Ids : map \in [S -> Addons]
  BY DEF Maps
<1>2. DOMAIN map = S /\ \A i \in S : map[i] \in Addons
  BY <1>1
<1>3. Without(map, id) \in [S \ {id} -> Addons]
  BY <1>2 DEF Without
<1>4. ASSUME NEW a \in Addons
      PROVE  With(map, id, a) \in [S \cup {id} -> Addons]
  BY <1>2 DEF With
<1>5. S \ {id} \in SUBSET Ids /\ S \cup {id} \in SUBSET Ids
  OBVIOUS
<1>6. Without(map, id) \in Maps
  BY <1>3, <1>5 DEF Maps
<1>7. \A a \in Addons : With(map, id, a) \in Maps
  BY <1>4, <1>5 DEF Maps
<1> QED
  BY <1>6, <1>7 DEF Without, With

(* The addons of a map are addons, and what changes them only stays a map. *)
LEMMA MapEntries ==
    ASSUME NEW map \in Maps
    PROVE  /\ DOMAIN map \subseteq Ids
           /\ \A i \in DOMAIN map : map[i] \in Addons
           /\ \A f : DOMAIN f = DOMAIN map /\ f = [i \in DOMAIN f |-> f[i]]
                     /\ (\A i \in DOMAIN map : f[i] \in Addons) => f \in Maps
<1>1. PICK S \in SUBSET Ids : map \in [S -> Addons]
  BY DEF Maps
<1> QED
  BY <1>1 DEF Maps

(* The inductive invariant holds when the bridge first starts.             *)
LEMMA StoreInit == Init => IInv
<1> SUFFICES ASSUME Init PROVE IInv
  OBVIOUS
<1>1. addons \in Maps /\ file \in Maps /\ DOMAIN addons = {} /\ DOMAIN file = {}
  <2>1. <<>> \in [{} -> Addons]
    OBVIOUS
  <2> QED
    BY <2>1 DEF Init, Maps
<1> QED
  BY <1>1 DEF Init, IInv, TypeOK, LockHolds, PointersHold, AcksAreDurable, Agrees,
     FileHolds, Idle, Calls, Acks, Unknown, Saving

----------------------------------------------------------------------------
(* Steps that change neither map, and no call but to or from one outside   *)
(* the lock.                                                               *)
LEMMA OutsideInv ==
    ASSUME IInv, NEW r \in Requests, up' = up, addons' = addons, file' = file,
           unsaved' = unsaved, call[r].op \notin Saving,
           NEW s \in Calls, call' = [call EXCEPT ![r] = s],
           s.op \notin Saving,
           s.op # "idle" => up /\ s.id \in Ids,
           s.op = "holding" => s.id \in DOMAIN addons,
           acked' \in [Ids -> Acks],
           \A id \in Ids :
              /\ acked'[id].method = acked[id].method
              /\ \/ acked'[id].is \in {"added", "removed"} => acked'[id].is = acked[id].is
                 \/ /\ acked'[id].is = "added" /\ id \in DOMAIN addons
                    /\ file # Torn => InFile(id)
    PROVE  IInv'
<1>1. TypeOK'
  BY DEF IInv, TypeOK
<1>2. LockHolds'
  BY DEF IInv, TypeOK, LockHolds, Saving
<1>3. PointersHold'
  BY DEF IInv, TypeOK, PointersHold
<1>4. AcksAreDurable'
  BY DEF IInv, AcksAreDurable, Agrees, InFile
<1>5. FileHolds'
  <2>1. \A id : AddingIt(id) => AddingIt(id)'
    BY DEF IInv, TypeOK, AddingIt, Saving
  <2> QED
    BY <2>1 DEF IInv, FileHolds, InFile
<1> QED
  BY <1>1, <1>2, <1>3, <1>4, <1>5 DEF IInv

(* Requests that wait, answer or give up without a save keep the           *)
(* invariant.                                                              *)
LEMMA QuietSteps ==
    ASSUME IInv, NEW r \in Requests,
           \/ \E u \in Urls : AddExisting(r, u)
           \/ \E id \in Ids : UpdateChecked(r, id) \/ ManifestBegins(r, id)
           \/ NeedsName(r)
           \/ NoNewName(r)
    PROVE  IInv'
<1> USE DEF IInv, TypeOK
<1>0. \A id \in Ids, op \in {"holding", "method", "name"} :
         /\ Doing(op, id) \in Calls /\ Doing(op, id).op = op /\ Doing(op, id).id = id
  BY DEF Doing, Calls
<1>1. Idle \in Calls /\ Idle.op = "idle"
  BY DEF Idle, Calls
<1>2. CASE \E u \in Urls : AddExisting(r, u)
  <2> PICK u \in Urls : AddExisting(r, u)
    BY <1>2
  <2> DEFINE id == IdOf[u]
  <2>1. id \in Ids /\ acked[id] \in Acks
    BY IdsAssumption
  <2>2. acked' = [acked EXCEPT ![id].is = "added"]
    BY DEF AddExisting
  <2>3. acked' \in [Ids -> Acks]
    BY <2>1, <2>2 DEF Acks
  <2>4. \A i \in Ids : /\ acked'[i].method = acked[i].method
                       /\ i # id => acked'[i].is = acked[i].is
    BY <2>1, <2>2 DEF Acks
  <2>5. /\ acked'[id].is = "added" /\ id \in DOMAIN addons
        /\ file # Torn => InFile(id)
    <3>1. acked'[id].is = "added" /\ id \in DOMAIN addons /\ up /\ ~AddingIt(id)
      BY <2>1, <2>2 DEF AddExisting, Free, Locked, AddingIt, Saving, Acks
    <3> QED
      BY <3>1 DEF FileHolds
  <2>6. /\ UNCHANGED <<up, addons, file, unsaved>> /\ up
        /\ call[r].op \notin Saving
        /\ call' = [call EXCEPT ![r] = Doing("holding", id)]
    BY <1>1 DEF AddExisting, Free, Saving
  <2>7. \A i \in Ids :
           /\ acked'[i].method = acked[i].method
           /\ \/ acked'[i].is \in {"added", "removed"} => acked'[i].is = acked[i].is
              \/ /\ acked'[i].is = "added" /\ i \in DOMAIN addons
                 /\ file # Torn => InFile(i)
    BY <2>4, <2>5
  <2>8. /\ Doing("holding", id) \in Calls
        /\ Doing("holding", id).op = "holding" /\ Doing("holding", id).id = id
    BY <1>0, <2>1
  <2> HIDE DEF id
  <2> QED
    BY <2>1, <2>3, <2>5, <2>6, <2>7, <2>8, OutsideInv DEF Saving
<1>3. CASE \E id \in Ids : UpdateChecked(r, id) \/ ManifestBegins(r, id)
  BY <1>0, <1>1, <1>3, OutsideInv DEF UpdateChecked, ManifestBegins, Free, Saving
<1>4. CASE NeedsName(r)
  <2>1. up /\ call[r].id \in Ids /\ call[r].op = "holding"
    BY <1>4 DEF NeedsName, LockHolds
  <2>2. call' = [call EXCEPT ![r] = Doing("name", call[r].id)]
    BY <1>4 DEF NeedsName
  <2> DEFINE s == Doing("name", call[r].id)
  <2>3. s \in Calls /\ s.op = "name" /\ s.id = call[r].id
    BY <1>0, <2>1
  <2>4. UNCHANGED <<up, addons, file, acked, unsaved>> /\ call[r].op \notin Saving
    BY <1>4, <2>1 DEF NeedsName, Saving
  <2> HIDE DEF s
  <2> QED
    BY <2>1, <2>2, <2>3, <2>4, OutsideInv DEF s, Saving
<1>5. CASE NoNewName(r)
  BY <1>1, <1>5, OutsideInv DEF NoNewName, Saving
<1> QED
  BY <1>2, <1>3, <1>4, <1>5

----------------------------------------------------------------------------
(* A request that takes the lock and makes its change: what it must show   *)
(* for the lock and the pointers.                                          *)
LEMMA TakesLock ==
    ASSUME IInv, NEW r \in Requests, up, up' = up, ~Locked,
           NEW op \in Saving, NEW id \in Ids,
           call' \in [Requests -> Calls],
           call'[r].op = op, call'[r].id = id,
           \A q \in Requests \ {r} :
              \/ call'[q] = call[q]
              \/ /\ call[q].op = "holding" /\ call'[q].gone # {}
                 /\ call'[q].op = call[q].op /\ call'[q].id = call[q].id,
           op # "removing" => id \in DOMAIN addons',
           op = "removing" =>
              /\ id \notin DOMAIN addons'
              /\ \A q \in Requests \ {r} :
                   call[q].op = "holding" /\ call[q].gone = {} /\ call[q].id = id
                   => call'[q].gone # {},
           \A i \in Ids \ {id} : i \in DOMAIN addons' <=> i \in DOMAIN addons,
           DOMAIN addons' \subseteq Ids,
           file' = file, unsaved' = unsaved,
           op = "adding" \/ (id \in DOMAIN addons' => id \in DOMAIN addons)
    PROVE  LockHolds' /\ PointersHold' /\ FileHolds'
<1>1. \A q \in Requests : call[q].op \notin Saving
  BY DEF Locked
<1>2. LockHolds'
  BY <1>1 DEF IInv, LockHolds, Saving
<1>3. PointersHold'
  <2> SUFFICES ASSUME NEW q \in Requests, call'[q].op = "holding",
                      call'[q].gone = {}
               PROVE  call'[q].id \in DOMAIN addons'
    BY DEF PointersHold
  <2>1. q # r /\ call'[q] = call[q]
    BY DEF Saving
  <2>2. call[q].id \in DOMAIN addons /\ call[q].id \in Ids
    BY <2>1 DEF IInv, PointersHold, LockHolds
  <2> QED
    BY <2>1, <2>2
<1>4. FileHolds'
  <2> SUFFICES ASSUME file # Torn, NEW i \in DOMAIN addons', ~AddingIt(i)'
               PROVE  InFile(i)'
    BY DEF FileHolds
  <2>1. i \in DOMAIN addons
    BY DEF AddingIt
  <2>2. ~AddingIt(i)
    BY <1>1 DEF AddingIt, Saving
  <2> QED
    BY <2>1, <2>2 DEF IInv, FileHolds, InFile
<1> QED
  BY <1>2, <1>3, <1>4

(* Add registers an addon under the lock.                                  *)
LEMMA AddNewInv ==
    ASSUME IInv, NEW r \in Requests, NEW u \in Urls, AddNew(r, u)
    PROVE  IInv'
<1> DEFINE id == IdOf[u]
           a  == [url |-> u, name |-> NoName, method |-> Global]
<1> USE DEF IInv, TypeOK
<1>1. id \in Ids /\ a \in Addons
  BY IdsAssumption, MethodsAssumption DEF Addons
<1>2. /\ addons' = With(addons, id, a) /\ up /\ ~Locked
      /\ UNCHANGED <<up, file, unsaved>>
  BY DEF AddNew, Free
<1> HIDE DEF a
<1>3. /\ addons' \in Maps /\ DOMAIN addons' = DOMAIN addons \cup {id}
      /\ \A i \in DOMAIN addons \ {id} : addons'[i] = addons[i]
  <2>1. addons \in Maps
    OBVIOUS
  <2>2. \A b \in Addons :
           /\ With(addons, id, b) \in Maps
           /\ DOMAIN With(addons, id, b) = DOMAIN addons \cup {id}
           /\ \A i \in DOMAIN addons \ {id} : With(addons, id, b)[i] = addons[i]
    BY <1>1, <2>1, MapOps
  <2> QED
    BY <1>1, <1>2, <2>2
<1>4. /\ call' = [call EXCEPT ![r] = Doing("adding", id)]
      /\ acked' = [acked EXCEPT ![id] = Unknown]
  BY DEF AddNew
<1>5. Doing("adding", id) \in Calls /\ Unknown \in Acks
  BY <1>1 DEF Doing, Calls, Saving, Unknown, Acks
<1>6. TypeOK'
  BY <1>1, <1>2, <1>3, <1>4, <1>5
<1>7. LockHolds' /\ PointersHold' /\ FileHolds'
  <2>1. "adding" \in Saving /\ call'[r].op = "adding" /\ call'[r].id = id
    BY <1>4 DEF Saving, Doing
  <2>2. DOMAIN addons' \subseteq Ids /\ UNCHANGED <<file, unsaved>>
    BY <1>3, MapEntries DEF AddNew
  <2> QED
    BY <1>1, <1>2, <1>3, <1>4, <1>6, <2>1, <2>2, TakesLock
<1>8. AcksAreDurable'
  BY <1>1, <1>2, <1>3, <1>4 DEF AcksAreDurable, Agrees, Unknown
<1> QED
  BY <1>6, <1>7, <1>8

(* Remove takes one out of the map under the lock.                         *)
LEMMA RemoveInv ==
    ASSUME IInv, NEW r \in Requests, NEW id \in Ids,
           Remove(r, id) \/ RemoveMissing(r, id)
    PROVE  IInv'
<1> USE DEF IInv, TypeOK
<1>1. CASE RemoveMissing(r, id)
  <2>1. \A i \in Ids : /\ acked'[i].method = acked[i].method
                       /\ acked'[i] \in Acks
                       /\ acked'[i].is \in {"added", "removed"}
                            => acked'[i].is = acked[i].is
    BY <1>1 DEF RemoveMissing, Acks
  <2>2. acked' \in [Ids -> Acks]
    BY <1>1, <2>1 DEF RemoveMissing
  <2>3. UNCHANGED <<up, addons, file, call, unsaved>>
    BY <1>1 DEF RemoveMissing
  <2>4. AcksAreDurable'
    BY <2>1, <2>3 DEF AcksAreDurable, Agrees
  <2> QED
    BY <2>2, <2>3, <2>4 DEF LockHolds, PointersHold, FileHolds, InFile, AddingIt
<1>2. CASE Remove(r, id)
  <2>1. /\ addons' = Without(addons, id) /\ id \in DOMAIN addons
        /\ up /\ ~Locked /\ up' = up /\ file' = file /\ call[r] = Idle
        /\ unsaved' = unsaved
    BY <1>2 DEF Remove, Free
  <2>2. /\ addons' \in Maps /\ DOMAIN addons' = DOMAIN addons \ {id}
        /\ \A i \in DOMAIN addons \ {id} : addons'[i] = addons[i]
    BY <2>1, MapOps
  <2>3. addons[id].name \in Names \cup {NoName}
    BY <2>1, MapEntries DEF Addons
  <2>4. Doing("removing", id) \in Calls /\ Doing("removing", id).op = "removing"
        /\ Doing("removing", id).id = id
    BY DEF Doing, Calls, Saving
  <2>5. acked' = [acked EXCEPT ![id] = Unknown] /\ Unknown \in Acks
    BY <1>2 DEF Remove, Unknown, Acks
  <2>6. ASSUME NEW c \in Calls, NEW n \in Names \cup {NoName}
        PROVE  /\ [c EXCEPT !.gone = {n}] \in Calls
               /\ [c EXCEPT !.gone = {n}].gone # {}
               /\ [c EXCEPT !.gone = {n}].op = c.op
               /\ [c EXCEPT !.gone = {n}].id = c.id
    BY DEF Calls
  <2>7. /\ call'[r] = Doing("removing", id)
        /\ \A q \in Requests \ {r} :
             \/ call'[q] = call[q] /\ call[q] # Doing("holding", id)
             \/ /\ call[q].op = "holding" /\ call'[q].gone # {}
                /\ call'[q].op = call[q].op /\ call'[q].id = call[q].id
    <3>1. call'[r] = Doing("removing", id)
      BY <1>2 DEF Remove
    <3>2. ASSUME NEW q \in Requests \ {r}, call[q] # Doing("holding", id)
          PROVE  call'[q] = call[q]
      BY <1>2, <3>2 DEF Remove
    <3>3. ASSUME NEW q \in Requests \ {r}, call[q] = Doing("holding", id)
          PROVE  /\ call'[q] = [call[q] EXCEPT !.gone = {addons[id].name}]
                 /\ call[q].op = "holding"
      <4>1. call'[q] = [call[q] EXCEPT !.gone = {addons[id].name}]
        BY <1>2, <3>3 DEF Remove
      <4> QED
        BY <3>3, <4>1 DEF Doing
    <3>4. ASSUME NEW q \in Requests \ {r}, call[q] = Doing("holding", id)
          PROVE  /\ call'[q].gone # {}
                 /\ call'[q].op = call[q].op /\ call'[q].id = call[q].id
      <4>1. call[q] \in Calls
        OBVIOUS
      <4>2. call'[q] = [call[q] EXCEPT !.gone = {addons[id].name}]
        BY <3>3, <3>4
      <4>3. \A n \in Names \cup {NoName} :
              /\ [call[q] EXCEPT !.gone = {n}].gone # {}
              /\ [call[q] EXCEPT !.gone = {n}].op = call[q].op
              /\ [call[q] EXCEPT !.gone = {n}].id = call[q].id
        BY <2>6, <4>1
      <4> QED
        BY <2>3, <4>2, <4>3
    <3> QED
      BY <3>1, <3>2, <3>3, <3>4
  <2>12. call' \in [Requests -> Calls]
    <3>1. call' = [q \in Requests |->
                     IF q = r THEN Doing("removing", id)
                     ELSE IF call[q] = Doing("holding", id)
                     THEN [call[q] EXCEPT !.gone = {addons[id].name}]
                     ELSE call[q]]
      BY <1>2 DEF Remove
    <3>2. \A q \in Requests : /\ call[q] \in Calls
                              /\ [call[q] EXCEPT !.gone = {addons[id].name}] \in Calls
      <4>1. \A q \in Requests : call[q] \in Calls
        OBVIOUS
      <4> QED
        BY <2>3, <2>6, <4>1
    <3> QED
      BY <2>4, <3>1, <3>2
  <2>8. \A q \in Requests : call[q].op = "holding" /\ call[q].gone = {}
                            /\ call[q].id = id => call[q] = Doing("holding", id)
    BY DEF Doing, Calls
  <2>9. TypeOK'
    BY <2>1, <2>2, <2>5, <2>12
  <2>10. LockHolds' /\ PointersHold' /\ FileHolds'
    <3>1. "removing" \in Saving
      BY DEF Saving
    <3>2. \A q \in Requests \ {r} :
             call[q].op = "holding" /\ call[q].gone = {} /\ call[q].id = id
             => call'[q].gone # {}
      BY <2>7, <2>8
    <3>3. \A i \in Ids \ {id} : i \in DOMAIN addons' <=> i \in DOMAIN addons
      BY <2>2
    <3>4. id \notin DOMAIN addons'
      BY <2>2
    <3>5. call'[r].op = "removing" /\ call'[r].id = id
      BY <2>4, <2>7
    <3>6. \A q \in Requests \ {r} :
              \/ call'[q] = call[q]
              \/ /\ call[q].op = "holding" /\ call'[q].gone # {}
                 /\ call'[q].op = call[q].op /\ call'[q].id = call[q].id
      BY <2>7
    <3>7. DOMAIN addons' \subseteq Ids
      BY <2>2, MapEntries
    <3> QED
      BY <2>1, <2>12, <3>1, <3>2, <3>3, <3>4, <3>5, <3>6, <3>7, TakesLock
  <2>11. AcksAreDurable'
    BY <2>1, <2>2, <2>5 DEF AcksAreDurable, Agrees, Unknown
  <2> QED
    BY <2>9, <2>10, <2>11
<1> QED
  BY <1>1, <1>2

(* An addon in the map may be given another method, or another name.       *)
LEMMA UpdateInv ==
    ASSUME IInv, NEW r \in Requests, UpdateFetchMethod(r) \/ UpdateName(r)
    PROVE  IInv'
<1> DEFINE id == call[r].id
<1> USE DEF IInv, TypeOK
<1>1. /\ id \in Ids /\ up /\ up' = up /\ file' = file /\ ~Locked
      /\ unsaved' = unsaved
  BY DEF UpdateFetchMethod, UpdateName, LockHolds
<1>2. addons \in Maps /\ DOMAIN addons \subseteq Ids
      /\ \A i \in DOMAIN addons : addons[i] \in Addons
  BY MapEntries
<1>3. CASE id \notin DOMAIN addons
  <2>1. /\ UNCHANGED <<up, addons, file, acked, unsaved>>
        /\ call' = [call EXCEPT ![r] = Idle]
        /\ call[r].op \notin Saving
    BY <1>3 DEF UpdateFetchMethod, UpdateName, Saving
  <2>2. Idle \in Calls /\ Idle.op = "idle"
    BY DEF Idle, Calls
  <2> QED
    BY <2>1, <2>2, OutsideInv DEF Saving
<1>4. CASE id \in DOMAIN addons /\ UpdateFetchMethod(r)
  <2>1. PICK m \in Methods : addons' = [addons EXCEPT ![id].method = m]
    BY <1>4 DEF UpdateFetchMethod
  <2>2. call' = [call EXCEPT ![r].op = "updating"]
        /\ acked' = [acked EXCEPT ![id].method = {}]
    BY <1>4 DEF UpdateFetchMethod
  <2>3. DOMAIN addons' = DOMAIN addons
        /\ \A i \in DOMAIN addons \ {id} : addons'[i] = addons[i]
    BY <2>1
  <2>4. addons' \in Maps
    <3>1. PICK S \in SUBSET Ids : addons \in [S -> Addons]
      BY DEF Maps
    <3>2. [addons[id] EXCEPT !.method = m] \in Addons
      BY <1>2, <1>4 DEF Addons
    <3> QED
      BY <1>4, <2>1, <3>1, <3>2 DEF Maps
  <2>5. /\ call' \in [Requests -> Calls]
        /\ call'[r].op = "updating" /\ call'[r].id = id
        /\ \A q \in Requests \ {r} : call'[q] = call[q]
    BY <2>2 DEF Calls, Saving
  <2>6. /\ acked' \in [Ids -> Acks] /\ acked'[id].method = {}
        /\ acked'[id].is = acked[id].is
        /\ \A i \in Ids \ {id} : acked'[i] = acked[i]
    BY <1>1, <2>2 DEF Acks
  <2>7. LockHolds' /\ PointersHold' /\ FileHolds'
    <3>1. "updating" \in Saving
      BY DEF Saving
    <3> QED
      BY <1>1, <1>2, <1>4, <2>3, <2>5, <3>1, TakesLock
  <2>8. AcksAreDurable'
    BY <1>1, <1>4, <2>3, <2>6 DEF AcksAreDurable, Agrees
  <2> QED
    BY <1>1, <2>4, <2>5, <2>6, <2>7, <2>8
<1>5. CASE id \in DOMAIN addons /\ UpdateName(r)
  <2>1. PICK n \in Names : addons' = [addons EXCEPT ![id].name = n]
    BY <1>5 DEF UpdateName
  <2>2. call' = [call EXCEPT ![r].op = "naming"] /\ acked' = acked
    BY <1>5 DEF UpdateName
  <2>3. DOMAIN addons' = DOMAIN addons
        /\ \A i \in DOMAIN addons \ {id} : addons'[i] = addons[i]
    BY <2>1
  <2>4. addons' \in Maps /\ addons'[id].method = addons[id].method
    <3>1. PICK S \in SUBSET Ids : addons \in [S -> Addons]
      BY DEF Maps
    <3>2. [addons[id] EXCEPT !.name = n] \in Addons
          /\ [addons[id] EXCEPT !.name = n].method = addons[id].method
      BY <1>2, <1>5 DEF Addons
    <3> QED
      BY <1>5, <2>1, <3>1, <3>2 DEF Maps
  <2>5. /\ call' \in [Requests -> Calls]
        /\ call'[r].op = "naming" /\ call'[r].id = id
        /\ \A q \in Requests \ {r} : call'[q] = call[q]
    BY <2>2 DEF Calls, Saving
  <2>6. LockHolds' /\ PointersHold' /\ FileHolds'
    <3>1. "naming" \in Saving
      BY DEF Saving
    <3> QED
      BY <1>1, <1>2, <1>5, <2>3, <2>5, <3>1, TakesLock
  <2>7. AcksAreDurable'
    BY <1>1, <1>5, <2>2, <2>3, <2>4 DEF AcksAreDurable, Agrees
  <2> QED
    BY <1>1, <2>2, <2>4, <2>5, <2>6, <2>7
<1> QED
  BY <1>3, <1>4, <1>5

----------------------------------------------------------------------------
(* The end of a request that holds the lock.                               *)
LEMMA LeavesLock ==
    ASSUME IInv, NEW r \in Requests, call[r].op \in Saving,
           up' = up, addons' = addons,
           NEW s \in Calls, call' = [call EXCEPT ![r] = s],
           \/ s = Idle
           \/ s = Doing("holding", call[r].id) /\ call[r].id \in DOMAIN addons
    PROVE  LockHolds' /\ PointersHold'
<1>1. s.op \in {"idle", "holding"} /\ (s.op = "holding" => s.id = call[r].id)
  BY DEF Idle, Doing
<1>2. /\ call[r].op # "idle"
      /\ \A q \in Requests \ {r} : call'[q] = call[q] /\ call[q].op \notin Saving
      /\ call'[r] = s
  BY DEF IInv, TypeOK, LockHolds, Saving
<1>3. LockHolds'
  BY <1>1, <1>2 DEF IInv, LockHolds, Saving
<1>4. PointersHold'
  BY <1>1, <1>2 DEF IInv, PointersHold, Doing, Idle
<1> QED
  BY <1>3, <1>4

(* save writes the file, or fails, and the lock is released.               *)
LEMMA SaveInv ==
    ASSUME IInv, NEW r \in Requests, Saved(r) \/ SaveFails(r)
    PROVE  IInv'
<1> DEFINE id == call[r].id
<1> USE DEF IInv, TypeOK
<1>1. /\ call[r].op \in Saving /\ up' = up /\ addons' = addons
      /\ up /\ id \in Ids /\ acked[id] \in Acks
  <2>1. call[r].op \in Saving /\ up' = up /\ addons' = addons
    BY DEF Saved, SaveFails
  <2>2. call[r].op # "idle"
    BY <2>1 DEF Saving
  <2> QED
    BY <2>1, <2>2 DEF LockHolds
<1>2. Idle \in Calls /\ Doing("holding", id) \in Calls
  BY <1>1 DEF Idle, Doing, Calls
<1>3. CASE SaveFails(r)
  <2>1. /\ call' = [call EXCEPT ![r] = Idle] /\ file' \in {file, Torn}
        /\ acked' = IF call[r].op = "removing"
                    THEN [acked EXCEPT ![id].is = "notfound"] ELSE acked
    BY <1>3 DEF SaveFails
  <2>2. /\ acked' \in [Ids -> Acks]
        /\ \A i \in Ids : /\ acked'[i].method = acked[i].method
                          /\ \/ acked'[i].is = acked[i].is
                             \/ acked'[i].is = "notfound"
    BY <1>1, <2>1 DEF Acks
  <2>4. unsaved' = IF call[r].op = "adding" THEN unsaved \cup {id} ELSE unsaved
    BY <1>3 DEF SaveFails
  <2>5. unsaved \subseteq unsaved' /\ unsaved' \subseteq Ids
    BY <1>1, <2>4
  <2>3. AcksAreDurable'
    BY <1>1, <2>1, <2>2, <2>5 DEF AcksAreDurable, Agrees
  <2>6. FileHolds'
    <3> SUFFICES ASSUME file' # Torn, NEW i \in DOMAIN addons PROVE (InFile(i) \/ AddingIt(i))'
      BY <1>1 DEF FileHolds
    <3>1. file' = file /\ (InFile(i) \/ AddingIt(i))
      BY <1>1, <2>1 DEF FileHolds
    <3>2. AddingIt(i) => InFile(i)' \/ AddingIt(i)'
      <4> SUFFICES ASSUME NEW q \in Requests, call[q].op = "adding", call[q].id = i
                   PROVE  InFile(i)' \/ AddingIt(i)'
        BY DEF AddingIt
      <4>1. q = r
        BY <1>1 DEF LockHolds, Saving
      <4> QED
        BY <2>4, <4>1 DEF InFile
    <3> QED
      BY <2>5, <3>1, <3>2 DEF InFile
  <2> QED
    BY <1>1, <1>2, <2>1, <2>2, <2>3, <2>5, <2>6, LeavesLock
<1>4. CASE Saved(r)
  <2>1. file' = addons /\ unsaved' = unsaved \ DOMAIN addons /\ unsaved' \subseteq Ids
    BY <1>4 DEF Saved
  <2> SUFFICES TypeOK' /\ LockHolds' /\ PointersHold'
               /\ \A i \in Ids : Agrees(addons, i)'
    BY <1>1, <2>1 DEF AcksAreDurable, Agrees, FileHolds, InFile
  <2>2. \A i \in Ids : Agrees(addons, i)
    BY <1>1 DEF AcksAreDurable
  <2>3. CASE call[r].op = "adding"
    <3>1. /\ call' = [call EXCEPT ![r] = Doing("holding", id)]
          /\ acked' = [acked EXCEPT ![id].is = "added"]
          /\ id \in DOMAIN addons
      BY <1>4, <2>3 DEF Saved, LockHolds
    <3>2. acked' \in [Ids -> Acks]
      BY <1>1, <3>1 DEF Acks
    <3>3. \A i \in Ids : Agrees(addons, i)'
      BY <1>1, <2>1, <2>2, <3>1 DEF Agrees, Acks
    <3> QED
      BY <1>1, <1>2, <2>1, <3>1, <3>2, <3>3, LeavesLock
  <2>4. CASE call[r].op = "removing"
    <3>1. /\ call' = [call EXCEPT ![r] = Idle]
          /\ acked' = [acked EXCEPT ![id].is = "removed"]
          /\ id \notin DOMAIN addons
      BY <1>4, <2>4 DEF Saved, LockHolds
    <3>2. acked' \in [Ids -> Acks]
      BY <1>1, <3>1 DEF Acks
    <3>3. \A i \in Ids : Agrees(addons, i)'
      BY <1>1, <2>1, <2>2, <3>1 DEF Agrees, Acks
    <3> QED
      BY <1>1, <1>2, <2>1, <3>1, <3>2, <3>3, LeavesLock
  <2>5. CASE call[r].op = "updating"
    <3>1. /\ call' = [call EXCEPT ![r] = Idle]
          /\ acked' = [acked EXCEPT ![id].method = {addons[id].method}]
          /\ id \in DOMAIN addons
      BY <1>4, <2>5 DEF Saved, LockHolds
    <3>2. addons[id].method \in Methods
      BY <3>1, MapEntries DEF Addons
    <3>3. acked' \in [Ids -> Acks]
      BY <1>1, <3>1, <3>2 DEF Acks
    <3>4. \A i \in Ids : Agrees(addons, i)'
      BY <1>1, <2>1, <2>2, <3>1 DEF Agrees, Acks
    <3> QED
      BY <1>1, <1>2, <2>1, <3>1, <3>3, <3>4, LeavesLock
  <2>6. CASE call[r].op = "naming"
    <3>1. call' = [call EXCEPT ![r] = Idle] /\ acked' = acked
      BY <1>4, <2>6 DEF Saved
    <3>2. \A i \in Ids : Agrees(addons, i)'
      BY <1>1, <2>1, <2>2, <3>1 DEF Agrees
    <3> QED
      BY <1>1, <1>2, <2>1, <3>1, <3>2, LeavesLock
  <2> QED
    BY <1>1, <2>3, <2>4, <2>5, <2>6 DEF Saving
<1> QED
  BY <1>3, <1>4

(* A crash leaves the old, the new or a torn file; a start loads one that  *)
(* is whole.                                                               *)
LEMMA CrashInv == IInv /\ (Crash \/ Start) => IInv'
<1> SUFFICES ASSUME IInv, Crash \/ Start PROVE IInv'
  OBVIOUS
<1> USE DEF IInv, TypeOK
<1>1. <<>> \in Maps
  <2>1. <<>> \in [{} -> Addons]
    OBVIOUS
  <2> QED
    BY <2>1 DEF Maps
<1>2. CASE Crash
  <2>1. Idle \in Calls /\ Idle.op = "idle"
    BY DEF Idle, Calls
  <2>2. TypeOK'
    BY <1>1, <1>2, <2>1 DEF Crash
  <2>3. LockHolds' /\ PointersHold'
    BY <1>2, <2>1 DEF Crash, LockHolds, PointersHold, Saving
  <2>4. AcksAreDurable'
    BY <1>2 DEF Crash, AcksAreDurable, Agrees
  <2>5. FileHolds'
    BY <1>2 DEF Crash, FileHolds
  <2> QED
    BY <2>2, <2>3, <2>4, <2>5
<1>3. CASE Start
  <2>1. \A r \in Requests : call[r].op = "idle"
    BY <1>3 DEF Start, LockHolds
  <2>2. LockHolds' /\ PointersHold'
    BY <1>3, <2>1 DEF Start, LockHolds, PointersHold, Saving
  <2>3. AcksAreDurable'
    BY <1>3 DEF Start, AcksAreDurable, Agrees
  <2>4. TypeOK'
    BY <1>3 DEF Start
  <2>5. FileHolds'
    BY <1>3 DEF Start, FileHolds, InFile
  <2> QED
    BY <2>2, <2>3, <2>4, <2>5
<1> QED
  BY <1>2, <1>3

----------------------------------------------------------------------------
(* Every step keeps the inductive invariant.                               *)
LEMMA StoreStep == IInv /\ [Next]_vars => IInv'
<1> SUFFICES ASSUME IInv, [Next]_vars PROVE IInv'
  OBVIOUS
<1>1. CASE \E r \in Requests, u \in Urls : AddNew(r, u)
  BY <1>1, AddNewInv
<1>2. CASE \E r \in Requests, id \in Ids : Remove(r, id) \/ RemoveMissing(r, id)
  BY <1>2, RemoveInv
<1>3. CASE \E r \in Requests :
             \/ \E u \in Urls : AddExisting(r, u)
             \/ \E id \in Ids : UpdateChecked(r, id) \/ ManifestBegins(r, id)
             \/ NeedsName(r) \/ NoNewName(r)
  BY <1>3, QuietSteps
<1>4. CASE \E r \in Requests : UpdateFetchMethod(r) \/ UpdateName(r)
  BY <1>4, UpdateInv
<1>5. CASE \E r \in Requests : Saved(r) \/ SaveFails(r)
  BY <1>5, SaveInv
<1>6. CASE Crash \/ Start
  BY <1>6, CrashInv
<1>7. CASE StartFails \/ UNCHANGED vars
  BY <1>7 DEF StartFails, vars, IInv, TypeOK, LockHolds, PointersHold,
     AcksAreDurable, Agrees, FileHolds, InFile, AddingIt
<1> QED
  BY <1>1, <1>2, <1>3, <1>4, <1>5, <1>6, <1>7 DEF Next

(* The inductive invariant holds in every state of the store.              *)
LEMMA StoreInvariance == Spec => []IInv
<1> QED
  BY StoreInit, StoreStep, PTL DEF Spec

(* The store's maps, requests and acknowledgements keep their types.       *)
THEOREM TypeCorrect == Spec => []TypeOK
<1>1. IInv => TypeOK
  BY DEF IInv
<1> QED
  BY StoreInvariance, <1>1, PTL

(* What the store has acknowledged about an addon holds in its file and in *)
(* its memory until the next request about that addon, however saves fail  *)
(* and the bridge crashes: an addition repeated and answered 201 without a *)
(* save (store.go:50) too, but when the save of that very addon had failed *)
(* and no other had come.                                                  *)
THEOREM Durability == Spec => []AcksAreDurable
<1>1. IInv => AcksAreDurable
  BY DEF IInv
<1> QED
  BY StoreInvariance, <1>1, PTL
=============================================================================
