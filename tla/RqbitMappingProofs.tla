------------------------- MODULE RqbitMappingProofs -------------------------
(***************************************************************************)
(* While lists are numbered from 0 on without a gap, requests name the     *)
(* right torrent, for any number of torrents, numbers and calls at once.   *)
(***************************************************************************)
EXTENDS RqbitMapping, FiniteSetTheorems, TLAPS

CallType ==
    [op : Ops \cup {"none"}, hash : Hashes \cup {NoHash},
     at : Points \cup {"idle"}, id : IDs \cup {NoID},
     found : Hashes \cup {NoHash}, seen : [Hashes -> IDs \cup {NoID}]]

Mapping == [Hashes -> IDs \cup {NoID}]

(* The numbers that a call has taken from the map, from an answer or from  *)
(* a list were given to the torrents it holds them for.                    *)
CallIsRight(k, g) ==
    /\ k.at # "idle" => k.hash \in Hashes
    /\ k.at \in Requests \cup {"posted"} => k.id \in IDs /\ g[k.id] = k.hash
    /\ k.at = "got" => k.id \in IDs /\ k.found \in Hashes /\ g[k.id] = k.found
    /\ k.at = "listed" => \A h \in Hashes : k.seen[h] # NoID => g[k.seen[h]] = h

MapIsRight(m, g) == \A h \in Hashes : m[h] # NoID => g[m[h]] = h

Unused == \A i \in IDs : i >= nextID => given[i] = NoHash

Right ==
    ~misnumbered => /\ MapIsRight(hashToID, given)
                    /\ \A c \in Calls : CallIsRight(call[c], given)

IInv == TypeOK /\ Unused /\ Right

----------------------------------------------------------------------------
(* Constants of the type of a call.                                        *)
LEMMA NoCallType == NoCall \in CallType /\ Nowhere \in Mapping
BY DEF NoCall, CallType, Nowhere, Mapping, IDs, NoID

(* A place in the list is one of rqbit's numbers.                          *)
LEMMA PlaceIsID ==
    ASSUME held \subseteq IDs, NEW i \in held
    PROVE  Place(i) \in IDs
<1> DEFINE below == {j \in held : j < i}
<1>1. i \in Nat /\ i < MaxIDs
  BY BoundAssumption DEF IDs
<1>2. below \subseteq 0..(i - 1)
  <2>1. ASSUME NEW j \in held, j < i PROVE j \in 0..(i - 1)
    <3>1. j \in 0..(MaxIDs - 1)
      BY DEF IDs
    <3>2. j \in Int /\ 0 <= j
      BY <3>1, BoundAssumption
    <3> QED
      BY <1>1, <2>1, <3>2
  <2> QED
    BY <2>1
<1>3. IsFiniteSet(0..(i - 1)) /\ Cardinality(0..(i - 1)) = i
  <2>1. 0 \in Int /\ i - 1 \in Int
    BY <1>1
  <2>2. /\ IsFiniteSet(0..(i - 1))
        /\ Cardinality(0..(i - 1)) = IF 0 > i - 1 THEN 0 ELSE (i - 1) - 0 + 1
    BY <2>1, FS_Interval, Zenon
  <2> QED
    BY <1>1, <2>2
<1>4. IsFiniteSet(below) /\ Cardinality(below) <= i
  <2>1. IsFiniteSet(below) /\ Cardinality(below) <= Cardinality(0..(i - 1))
    BY <1>2, <1>3, FS_Subset, Zenon
  <2> QED
    BY <1>3, <2>1
<1>5. Cardinality(below) \in Nat
  BY <1>4, FS_CardinalityType
<1> QED
  BY <1>1, <1>4, <1>5, BoundAssumption DEF Place, IDs

(* What a list shows has the type of a map.                                *)
LEMMA ListedType ==
    ASSUME held \subseteq IDs
    PROVE  [h \in Hashes |-> IF IDsOf(h) = {} THEN NoID
                             ELSE Place(CHOOSE i \in IDsOf(h) : TRUE)] \in Mapping
<1>1. ASSUME NEW h \in Hashes, IDsOf(h) # {}
      PROVE  Place(CHOOSE i \in IDsOf(h) : TRUE) \in IDs
  <2>1. (CHOOSE i \in IDsOf(h) : TRUE) \in IDsOf(h)
    BY <1>1
  <2> QED
    BY <2>1, PlaceIsID DEF IDsOf
<1> QED
  BY <1>1 DEF Mapping

(* Every step of a call leaves a call of the right type in its place, and  *)
(* the same calls elsewhere.                                               *)
LEMMA CallChanges ==
    ASSUME call \in [Calls -> CallType], NEW c \in Calls, NEW k \in CallType,
           call' = [call EXCEPT ![c] = k]
    PROVE  /\ call' \in [Calls -> CallType]
           /\ call'[c] = k
           /\ \A d \in Calls \ {c} : call'[d] = call[d]
OBVIOUS

(* The updates of a call that the steps make.                              *)
LEMMA CallUpdates ==
    ASSUME call \in [Calls -> CallType], NEW c \in Calls
    PROVE  /\ \A p \in Points : [call[c] EXCEPT !.at = p] \in CallType
           /\ \A p \in Points : \A i \in IDs \cup {NoID} :
                [call[c] EXCEPT !.at = p, !.id = i] \in CallType
           /\ \A p \in Points : \A h \in Hashes \cup {NoHash} :
                [call[c] EXCEPT !.at = p, !.found = h] \in CallType
           /\ \A p \in Points : \A m \in Mapping :
                [call[c] EXCEPT !.at = p, !.seen = m] \in CallType
BY DEF CallType, Mapping

(* The type invariant holds at first and is kept by every step.            *)
LEMMA InitType == Init => TypeOK
<1> SUFFICES ASSUME Init PROVE TypeOK
  OBVIOUS
<1>1. /\ held \subseteq IDs /\ given \in [IDs -> Hashes \cup {NoHash}]
      /\ nextID \in 0..MaxIDs /\ misnumbered \in BOOLEAN
  <2>1. nextID \in 0..MaxIDs
    BY BoundAssumption DEF Init
  <2> QED
    BY <2>1 DEF Init
<1>2. hashToID \in Mapping /\ call \in [Calls -> CallType]
  BY NoCallType DEF Init
<1>3. \A c \in Calls : call[c].at = "idle"
  BY DEF Init, NoCall
<1> QED
  BY <1>1, <1>2, <1>3 DEF TypeOK, CallType, Mapping, Known, Requests

(* Every step of Next keeps the type invariant.                            *)
LEMMA NextType == TypeOK /\ [Next]_vars => TypeOK'
<1> SUFFICES ASSUME TypeOK, [Next]_vars PROVE TypeOK'
  OBVIOUS
<1> DEFINE CallsOK == /\ call \in [Calls -> CallType]
                      /\ \A c \in Calls : Known(call[c])
<1>t. /\ CallsOK /\ hashToID \in Mapping
      /\ held \subseteq IDs /\ given \in [IDs -> Hashes \cup {NoHash}]
      /\ nextID \in 0..MaxIDs /\ misnumbered \in BOOLEAN
  BY DEF TypeOK, CallType, Mapping
<1>f. \A c \in Calls : call[c] \in CallType
  BY <1>t
<1>g. \A k \in CallType : /\ k.id \in IDs \cup {NoID} /\ k.seen \in Mapping
                         /\ k.found \in Hashes \cup {NoHash}
  BY DEF CallType, Mapping
<1>n. NoCall.at = "idle"
  BY DEF NoCall
<1>p. "idle" \notin Points /\ Requests \subseteq Points
  BY DEF Points, Requests
<1>c. ASSUME NEW c \in Calls, NEW k \in CallType, call' = [call EXCEPT ![c] = k],
             Known(k)
      PROVE  CallsOK'
  <2>1. /\ call' \in [Calls -> CallType] /\ call'[c] = k
        /\ \A d \in Calls \ {c} : call'[d] = call[d]
    BY <1>c, <1>t, CallChanges
  <2> QED
    BY <1>c, <1>t, <2>1
<1>r. ASSUME NEW c \in Calls, Return(c) PROVE CallsOK'
  BY <1>r, <1>c, <1>n, NoCallType DEF Return, Known, Requests
<1>q. ASSUME NEW c \in Calls, NEW p \in Points, Goto(c, p), call[c].at # "idle",
             p \in Requests \cup {"posted"} => call[c].id \in IDs
      PROVE  CallsOK'
  <2>1. call' = [call EXCEPT ![c] = [call[c] EXCEPT !.at = p]]
    BY <1>q DEF Goto
  <2>2. [call[c] EXCEPT !.at = p] \in CallType
    BY <1>t, CallUpdates
  <2>3. LET k == [call[c] EXCEPT !.at = p]
        IN  k.at = p /\ k.id = call[c].id /\ k.hash = call[c].hash
    BY <1>f DEF CallType
  <2> QED
    BY <1>c, <1>q, <1>t, <2>1, <2>2, <2>3 DEF Known
<1>a. ASSUME NEW h, NEW id \in IDs, RqbitAdds(h, id), h \in Hashes \cup {NoHash}
      PROVE  /\ held' \subseteq IDs /\ given' \in [IDs -> Hashes \cup {NoHash}]
             /\ nextID' \in 0..MaxIDs
  <2>1. CASE UNCHANGED <<held, given, nextID>>
    BY <2>1, <1>t
  <2>2. CASE /\ nextID < MaxIDs
             /\ held' = held \cup {id}
             /\ given' = [given EXCEPT ![id] = h]
             /\ nextID' = nextID + 1
    <3>1. nextID' \in 0..MaxIDs
      BY <2>2, <1>t, BoundAssumption
    <3>2. held' \subseteq IDs /\ given' \in [IDs -> Hashes \cup {NoHash}]
      BY <2>2, <1>t, <1>a
    <3> QED
      BY <3>1, <3>2
  <2> QED
    BY <1>a, <2>1, <2>2 DEF RqbitAdds
<1>w. /\ CallsOK' /\ hashToID' \in Mapping
      /\ held' \subseteq IDs /\ given' \in [IDs -> Hashes \cup {NoHash}]
      /\ nextID' \in 0..MaxIDs /\ misnumbered' \in BOOLEAN
      => TypeOK'
  BY DEF TypeOK, CallType, Mapping
<1>1. ASSUME NEW c \in Calls, NEW op \in Ops, NEW h \in Hashes, Begin(c, op, h)
      PROVE  TypeOK'
  <2> DEFINE k == [NoCall EXCEPT !.op = op, !.hash = h, !.id = hashToID[h],
                          !.at = IF op # "list" /\ hashToID[h] # NoID THEN Request(op)
                                 ELSE IF op = "add" THEN "post" ELSE "list"]
  <2>1. Request(op) \in Requests
    BY DEF Request, Requests
  <2>2. hashToID[h] \in IDs \cup {NoID}
    BY <1>t DEF Mapping
  <2>3. (IF op # "list" /\ hashToID[h] # NoID THEN Request(op)
         ELSE IF op = "add" THEN "post" ELSE "list") \in Points
    BY <2>1, <1>p DEF Points
  <2>4. k \in CallType
    BY <2>2, <2>3, NoCallType DEF NoCall, CallType
  <2>5. Known(k)
    BY <2>2, NoCallType DEF NoCall, Requests, Known
  <2>6. CallsOK'
    BY <1>1, <1>c, <2>4, <2>5 DEF Begin
  <2> QED
    BY <1>1, <1>t, <1>w, <2>6 DEF Begin
<1>2. ASSUME NEW c \in Calls, Post(c) PROVE TypeOK'
  <2>1. PICK id \in IDs :
          /\ RqbitAdds(call[c].hash, id)
          /\ call' = [call EXCEPT ![c] = [call[c] EXCEPT !.at = "posted", !.id = id]]
    BY <1>2 DEF Post
  <2>2. [call[c] EXCEPT !.at = "posted", !.id = id] \in CallType
    BY <1>t, CallUpdates DEF Points
  <2>3. Known([call[c] EXCEPT !.at = "posted", !.id = id])
    BY <1>2, <1>t, <1>f DEF CallType, Post, Known
  <2>4. CallsOK'
    BY <1>c, <2>1, <2>2, <2>3
  <2>5. call[c].hash \in Hashes \cup {NoHash}
    BY <1>f DEF CallType
  <2> QED
    BY <1>2, <1>t, <1>w, <1>a, <2>1, <2>4, <2>5 DEF Post
<1>3. ASSUME NEW c \in Calls, PostFails(c) PROVE TypeOK'
  <2>1. call[c].hash \in Hashes \cup {NoHash}
    BY <1>f DEF CallType
  <2>2. /\ held' \subseteq IDs /\ given' \in [IDs -> Hashes \cup {NoHash}]
        /\ nextID' \in 0..MaxIDs
    BY <1>3, <1>t, <1>a, <2>1 DEF PostFails
  <2> QED
    BY <1>3, <1>t, <1>w, <1>r, <2>2 DEF PostFails
<1>4. ASSUME NEW c \in Calls, MapPosted(c) PROVE TypeOK'
  <2>1. call[c].at = "posted" /\ (Return(c) \/ Goto(c, "details"))
    BY <1>4 DEF MapPosted
  <2>2. hashToID' \in Mapping
    BY <1>4, <1>t, <1>f, <1>g DEF MapPosted, Mapping
  <2>3. call[c].id \in IDs
    BY <1>t, <2>1 DEF Known
  <2>4. CallsOK'
    BY <1>r, <1>q, <2>1, <2>3 DEF Points, Requests
  <2> QED
    BY <1>4, <1>t, <1>w, <2>2, <2>4 DEF MapPosted
<1>5. ASSUME NEW c \in Calls, Details(c) PROVE TypeOK'
  <2>6. PICK h \in {given[call[c].id], call[c].hash} :
                call' = [call EXCEPT ![c].at = "got", ![c].found = h]
    BY <1>5 DEF Details
  <2> DEFINE k == [call[c] EXCEPT !.at = "got", !.found = h]
  <2>1. call[c].id \in IDs
    BY <1>5, <1>t DEF Details, Known, Requests
  <2>2. h \in Hashes \cup {NoHash}
    BY <2>1, <1>t, <1>f DEF CallType
  <2>3. k \in CallType
    BY <2>2, <1>t, CallUpdates DEF Points
  <2>4. Known(k)
    BY <1>5, <1>t, <1>f DEF CallType, Details, Known, Requests
  <2>5. CallsOK'
    BY <1>c, <2>3, <2>4, <2>6
  <2> QED
    BY <1>5, <1>t, <1>w, <2>5 DEF Details
<1>6. ASSUME NEW c \in Calls, MapDetails(c) PROVE TypeOK'
  <2>1. hashToID' \in Mapping
    BY <1>6, <1>t, <1>f, <1>g DEF MapDetails, Mapping
  <2> QED
    BY <1>6, <1>t, <1>w, <1>r, <2>1 DEF MapDetails
<1>7. ASSUME NEW c \in Calls, List(c) PROVE TypeOK'
  <2> DEFINE seen == [h \in Hashes |-> IF IDsOf(h) = {} THEN NoID
                                       ELSE Place(CHOOSE i \in IDsOf(h) : TRUE)]
  <2>1. seen \in Mapping
    BY <1>t, ListedType
  <2> HIDE DEF seen
  <2> DEFINE k == [call[c] EXCEPT !.at = "listed", !.seen = seen]
  <2>2. k \in CallType
    BY <2>1, <1>t, CallUpdates DEF Points
  <2>3. Known(k)
    BY <1>7, <1>t, <1>f DEF CallType, List, Known, Requests
  <2>4. call' = [call EXCEPT ![c] = k]
    BY <1>7 DEF List, seen
  <2>5. CallsOK'
    BY <1>c, <2>2, <2>3, <2>4
  <2> QED
    BY <1>7, <1>t, <1>w, <2>5 DEF List
<1>8. ASSUME NEW c \in Calls, MapListed(c) PROVE TypeOK'
  <2>1. call[c].seen \in Mapping
    BY <1>f, <1>g
  <2>2. hashToID' \in Mapping
    BY <1>8, <1>t, <2>1 DEF MapListed, Mapping
  <2>3. CallsOK'
    BY <1>8, <1>r, <1>q DEF MapListed, Points, Requests
  <2> QED
    BY <1>8, <1>t, <1>w, <2>2, <2>3 DEF MapListed
<1>9. ASSUME NEW c \in Calls, LookAgain(c) PROVE TypeOK'
  <2> DEFINE id == hashToID[call[c].hash]
             p == Request(call[c].op)
             k == [call[c] EXCEPT !.at = p, !.id = id]
  <2>1. CASE id = NoID
    BY <1>9, <1>t, <1>w, <1>r, <2>1 DEF LookAgain
  <2>2. CASE id # NoID
    <3>1. id \in IDs /\ call[c].hash \in Hashes
      BY <1>9, <1>t, <2>2 DEF Mapping, LookAgain, Known
    <3>2. p \in Points
      BY DEF Request, Points, Requests
    <3>3. k \in CallType
      BY <1>t, <3>1, <3>2, CallUpdates
    <3>4. Known(k)
      BY <1>9, <1>f, <3>1 DEF CallType, Known
    <3>5. call' = [call EXCEPT ![c] = k]
      BY <1>9, <2>2 DEF LookAgain
    <3>6. CallsOK'
      BY <1>c, <3>1, <3>3, <3>4, <3>5
    <3> QED
      BY <1>9, <1>t, <1>w, <3>6 DEF LookAgain
  <2> QED
    BY <2>1, <2>2
<1>10. ASSUME NEW c \in Calls, Delete(c) PROVE TypeOK'
  <2>1. CallsOK'
    BY <1>10, <1>r, <1>q DEF Delete, Points, Requests
  <2> QED
    BY <1>10, <1>t, <1>w, <2>1 DEF Delete
<1>11. ASSUME NEW c \in Calls, MapDeleted(c) PROVE TypeOK'
  <2>1. hashToID' \in Mapping
    BY <1>11, <1>t DEF MapDeleted, Mapping
  <2> QED
    BY <1>11, <1>t, <1>w, <1>r, <2>1 DEF MapDeleted
<1>12. ASSUME NEW c \in Calls,
              DetailsFail(c) \/ ListFails(c) \/ Stream(c) \/ DeleteFails(c)
       PROVE  TypeOK'
  BY <1>12, <1>t, <1>w, <1>r DEF DetailsFail, ListFails, Stream, DeleteFails
<1>13. ASSUME NEW i \in IDs, RqbitDrops(i) PROVE TypeOK'
  BY <1>13, <1>t, <1>w DEF RqbitDrops
<1>14. CASE BridgeRestarts
  <2>1. CallsOK'
    BY <1>14, <1>n, NoCallType DEF BridgeRestarts, Known, Requests
  <2> QED
    BY <1>14, <1>t, <1>w, <2>1, NoCallType DEF BridgeRestarts
<1>15. CASE UNCHANGED vars
  BY <1>15, <1>t, <1>w DEF vars
<1> QED
  BY <1>1, <1>2, <1>3, <1>4, <1>5, <1>6, <1>7, <1>8, <1>9, <1>10, <1>11, <1>12,
     <1>13, <1>14, <1>15 DEF Next, CallStep

(* The numbers and calls of the adapter (rqbit.go) keep their types.       *)
THEOREM TypeCorrect == Spec => []TypeOK
<1>1. TypeOK /\ [Next]_vars => TypeOK'
  BY NextType
<1> QED
  BY InitType, <1>1, PTL DEF Spec

(* rqbit numbers new torrents only: what a number was given to stays.      *)
LEMMA GivenGrows ==
    ASSUME TypeOK, Unused, NEW h \in Hashes, NEW id \in IDs, RqbitAdds(h, id)
    PROVE  /\ Unused'
           /\ given'[id] = h
           /\ \A i \in IDs : \A x \in Hashes : given[i] = x => given'[i] = x
<1>1. nextID \in Nat /\ IDs \subseteq Int /\ given \in [IDs -> Hashes \cup {NoHash}]
  BY BoundAssumption DEF TypeOK, IDs
<1>2. CASE id \in IDsOf(h) /\ UNCHANGED <<held, given, nextID>>
  BY <1>2 DEF Unused, IDsOf
<1>3. CASE id = nextID /\ given' = [given EXCEPT ![id] = h] /\ nextID' = nextID + 1
  <2>1. given'[id] = h /\ \A i \in IDs \ {id} : given'[i] = given[i]
    BY <1>1, <1>3
  <2>2. given[id] = NoHash
    BY <1>1, <1>3 DEF Unused
  <2>3. ASSUME NEW i \in IDs, i >= nextID' PROVE given'[i] = NoHash
    <3>1. i # id /\ i >= nextID
      BY <1>1, <1>3, <2>3
    <3> QED
      BY <2>1, <3>1 DEF Unused
  <2> QED
    BY <2>1, <2>2, <2>3, HashAssumption DEF Unused
<1> QED
  BY <1>2, <1>3 DEF RqbitAdds

(* So do the numbers a call or the map has.                                *)
LEMMA StaysRight ==
    ASSUME NEW g, NEW g2, \A i \in IDs : \A x \in Hashes : g[i] = x => g2[i] = x
    PROVE  /\ \A k \in CallType : CallIsRight(k, g) => CallIsRight(k, g2)
           /\ \A m \in Mapping : MapIsRight(m, g) => MapIsRight(m, g2)
<1>1. ASSUME NEW m \in Mapping, MapIsRight(m, g) PROVE MapIsRight(m, g2)
  BY <1>1 DEF MapIsRight, Mapping
<1>2. ASSUME NEW k \in CallType, CallIsRight(k, g) PROVE CallIsRight(k, g2)
  <2>1. k.seen \in Mapping
    BY DEF CallType, Mapping
  <2>2. k.at = "listed" => \A h \in Hashes : k.seen[h] # NoID => g2[k.seen[h]] = h
    BY <1>2, <2>1 DEF CallIsRight, Mapping
  <2>3. k.at \in Requests \cup {"posted"} => g2[k.id] = k.hash
    BY <1>2 DEF CallIsRight, Requests
  <2>4. k.at = "got" => g2[k.id] = k.found
    BY <1>2 DEF CallIsRight
  <2> QED
    BY <1>2, <2>2, <2>3, <2>4 DEF CallIsRight
<1> QED
  BY <1>1, <1>2

(* Every step of Next keeps the map and the calls right.                   *)
LEMMA NextRight == IInv /\ [Next]_vars => Unused' /\ Right'
<1> SUFFICES ASSUME IInv, [Next]_vars PROVE Unused' /\ Right'
  OBVIOUS
<1>t. /\ TypeOK /\ Unused /\ Right
      /\ call \in [Calls -> CallType] /\ hashToID \in Mapping /\ held \subseteq IDs
      /\ given \in [IDs -> Hashes \cup {NoHash}]
      /\ \A c \in Calls : call[c] \in CallType /\ Known(call[c])
  BY DEF IInv, TypeOK, CallType, Mapping
<1>g. \A k \in CallType : /\ k.id \in IDs \cup {NoID} /\ k.seen \in Mapping
                         /\ k.found \in Hashes \cup {NoHash}
  BY DEF CallType, Mapping
<1>n. \A g : CallIsRight(NoCall, g)
  BY DEF CallIsRight, NoCall, Requests
<1>u. UNCHANGED <<given, nextID>> => Unused'
  BY <1>t DEF Unused
<1>m. ~misnumbered => /\ MapIsRight(hashToID, given)
                      /\ \A c \in Calls : CallIsRight(call[c], given)
  BY <1>t DEF Right
<1>c. ASSUME NEW c \in Calls, NEW k, call' = [call EXCEPT ![c] = k],
             UNCHANGED given, ~misnumbered, CallIsRight(k, given)
      PROVE  \A d \in Calls : CallIsRight(call'[d], given')
  <2>1. call'[c] = k /\ \A d \in Calls \ {c} : call'[d] = call[d]
    BY <1>c, <1>t
  <2> QED
    BY <1>c, <1>m, <2>1
<1>r. ASSUME NEW c \in Calls, Return(c), UNCHANGED given, ~misnumbered
      PROVE  \A d \in Calls : CallIsRight(call'[d], given')
  BY <1>r, <1>c, <1>n DEF Return
<1>q. ASSUME NEW c \in Calls, NEW p \in Points, Goto(c, p), UNCHANGED given,
             ~misnumbered, call[c].at # "idle", p \in {"again", "deleted", "details"},
             p = "details" => call[c].at = "posted"
      PROVE  \A d \in Calls : CallIsRight(call'[d], given')
  <2> DEFINE k == [call[c] EXCEPT !.at = p]
  <2>1. call' = [call EXCEPT ![c] = k]
    BY <1>q DEF Goto
  <2>2. k.at = p /\ k.id = call[c].id /\ k.hash = call[c].hash
    BY <1>t DEF CallType
  <2>3. CallIsRight(k, given)
    BY <1>q, <1>m, <2>2 DEF CallIsRight, Requests
  <2> QED
    BY <1>c, <1>q, <2>1, <2>3
<1>1. ASSUME NEW c \in Calls, NEW op \in Ops, NEW h \in Hashes, Begin(c, op, h)
      PROVE  Unused' /\ Right'
  <2> DEFINE p == IF op # "list" /\ hashToID[h] # NoID THEN Request(op)
                  ELSE IF op = "add" THEN "post" ELSE "list"
             k == [NoCall EXCEPT !.op = op, !.hash = h, !.id = hashToID[h], !.at = p]
  <2>1. hashToID[h] \in IDs \cup {NoID}
    BY <1>t DEF Mapping
  <2>2. Request(op) \in Requests
    BY DEF Request, Requests
  <2>3. \/ p \in {"list", "post"}
        \/ p \in Requests /\ hashToID[h] # NoID
    BY <2>2
  <2>4. k.at = p /\ k.id = hashToID[h] /\ k.hash = h
    BY NoCallType DEF NoCall
  <2>5. ~misnumbered => CallIsRight(k, given)
    BY <1>m, <2>1, <2>3, <2>4 DEF CallIsRight, MapIsRight, Requests
  <2> HIDE DEF k
  <2>6. call' = [call EXCEPT ![c] = k]
    BY <1>1 DEF Begin, k
  <2> QED
    BY <1>1, <1>c, <1>m, <1>u, <2>5, <2>6 DEF Begin, Right
<1>2. ASSUME NEW c \in Calls, Post(c) PROVE Unused' /\ Right'
  <2>1. PICK id \in IDs :
          /\ RqbitAdds(call[c].hash, id)
          /\ call' = [call EXCEPT ![c] = [call[c] EXCEPT !.at = "posted", !.id = id]]
    BY <1>2 DEF Post
  <2> DEFINE k == [call[c] EXCEPT !.at = "posted", !.id = id]
  <2>2. call[c].hash \in Hashes
    BY <1>2, <1>t DEF Post, Known
  <2>3. /\ Unused' /\ given'[id] = call[c].hash
        /\ \A i \in IDs : \A x \in Hashes : given[i] = x => given'[i] = x
    BY <1>t, <2>1, <2>2, GivenGrows
  <2>4. k.at = "posted" /\ k.id = id /\ k.hash = call[c].hash
    BY <1>t DEF CallType
  <2>5. CallIsRight(k, given')
    BY <2>2, <2>3, <2>4 DEF CallIsRight, Requests
  <2>6. call'[c] = k /\ \A d \in Calls \ {c} : call'[d] = call[d]
    BY <1>t, <2>1
  <2>7. ~misnumbered => /\ MapIsRight(hashToID, given')
                        /\ \A d \in Calls : CallIsRight(call'[d], given')
    BY <1>m, <1>t, <2>3, <2>5, <2>6, StaysRight
  <2> QED
    BY <1>2, <2>3, <2>7 DEF Post, Right
<1>3. ASSUME NEW c \in Calls, PostFails(c) PROVE Unused' /\ Right'
  <2>1. call[c].hash \in Hashes
    BY <1>3, <1>t DEF PostFails, Known
  <2>2. /\ Unused'
        /\ \A i \in IDs : \A x \in Hashes : given[i] = x => given'[i] = x
    BY <1>3, <1>t, <1>u, <2>1, GivenGrows DEF PostFails
  <2>3. call'[c] = NoCall /\ \A d \in Calls \ {c} : call'[d] = call[d]
    BY <1>3, <1>t DEF PostFails, Return
  <2>4. ~misnumbered => /\ MapIsRight(hashToID, given')
                        /\ \A d \in Calls : CallIsRight(call'[d], given')
    BY <1>m, <1>t, <1>n, <2>2, <2>3, StaysRight
  <2> QED
    BY <1>3, <2>2, <2>4 DEF PostFails, Right
<1>4. ASSUME NEW c \in Calls, MapPosted(c) PROVE Unused' /\ Right'
  <2>1. ~misnumbered => call[c].hash \in Hashes /\ given[call[c].id] = call[c].hash
    BY <1>4, <1>m DEF MapPosted, CallIsRight
  <2>2. ~misnumbered => MapIsRight(hashToID', given)
    BY <1>4, <1>m, <1>t, <2>1 DEF MapPosted, MapIsRight, Mapping
  <2>3. ~misnumbered => \A d \in Calls : CallIsRight(call'[d], given')
    BY <1>4, <1>r, <1>q DEF MapPosted, Points, Requests
  <2> QED
    BY <1>4, <1>u, <2>2, <2>3 DEF MapPosted, Right
<1>5. ASSUME NEW c \in Calls, Details(c) PROVE Unused' /\ Right'
  <2>5. PICK h \in {given[call[c].id], call[c].hash} :
                call' = [call EXCEPT ![c].at = "got", ![c].found = h]
    BY <1>5 DEF Details
  <2> DEFINE k == [call[c] EXCEPT !.at = "got", !.found = h]
  <2>1. ~misnumbered => /\ call[c].hash \in Hashes /\ call[c].id \in IDs
                        /\ given[call[c].id] = call[c].hash
    BY <1>5, <1>m DEF Details, CallIsRight, Requests
  <2>2. /\ k.at = "got" /\ k.id = call[c].id /\ k.hash = call[c].hash
        /\ k.found = h
    BY <1>t DEF CallType
  <2>3. ~misnumbered => CallIsRight(k, given)
    BY <2>1, <2>2 DEF CallIsRight, Requests
  <2> HIDE DEF k
  <2>4. call' = [call EXCEPT ![c] = k]
    BY <2>5 DEF k
  <2> QED
    BY <1>5, <1>c, <1>m, <1>u, <2>3, <2>4 DEF Details, Right
<1>6. ASSUME NEW c \in Calls, MapDetails(c) PROVE Unused' /\ Right'
  <2>1. ~misnumbered => call[c].found \in Hashes /\ given[call[c].id] = call[c].found
    BY <1>6, <1>m DEF MapDetails, CallIsRight
  <2>2. ~misnumbered => MapIsRight(hashToID', given)
    BY <1>6, <1>m, <1>t, <2>1 DEF MapDetails, MapIsRight, Mapping
  <2> QED
    BY <1>6, <1>r, <1>u, <2>2 DEF MapDetails, Right
<1>7. ASSUME NEW c \in Calls, List(c) PROVE Unused' /\ Right'
  <2> DEFINE seen == [h \in Hashes |-> IF IDsOf(h) = {} THEN NoID
                                       ELSE Place(CHOOSE i \in IDsOf(h) : TRUE)]
             k == [call[c] EXCEPT !.at = "listed", !.seen = seen]
  <2>1. SUFFICES ASSUME ~misnumbered' PROVE Unused' /\ Right'
    BY <1>7, <1>u DEF List, Right
  <2>2. ~misnumbered /\ \A i \in held : Place(i) = i
    BY <1>7, <2>1 DEF List
  <2>3. ASSUME NEW h \in Hashes, seen[h] # NoID PROVE given[seen[h]] = h
    <3>1. IDsOf(h) # {} /\ seen[h] = Place(CHOOSE i \in IDsOf(h) : TRUE)
      BY <2>3
    <3>2. (CHOOSE i \in IDsOf(h) : TRUE) \in IDsOf(h)
      BY <3>1
    <3>3. Place(CHOOSE i \in IDsOf(h) : TRUE) = (CHOOSE i \in IDsOf(h) : TRUE)
      BY <2>2, <3>2 DEF IDsOf
    <3> QED
      BY <3>1, <3>2, <3>3 DEF IDsOf
  <2> HIDE DEF seen
  <2>4. k.at = "listed" /\ k.seen = seen /\ k.hash = call[c].hash
    BY <1>t DEF CallType
  <2>5. call[c].hash \in Hashes
    BY <1>7, <1>t DEF List, Known
  <2>6. CallIsRight(k, given)
    BY <2>3, <2>4, <2>5 DEF CallIsRight, Requests
  <2> HIDE DEF k
  <2>7. call' = [call EXCEPT ![c] = k]
    BY <1>7 DEF List, k, seen
  <2> QED
    BY <1>7, <1>c, <1>m, <1>u, <2>2, <2>6, <2>7 DEF List, Right
<1>8. ASSUME NEW c \in Calls, MapListed(c) PROVE Unused' /\ Right'
  <2>1. ~misnumbered => \A h \in Hashes : call[c].seen[h] # NoID => given[call[c].seen[h]] = h
    BY <1>8, <1>m DEF MapListed, CallIsRight
  <2>2. ~misnumbered => MapIsRight(hashToID', given)
    BY <1>8, <1>m, <2>1 DEF MapListed, MapIsRight
  <2>3. ~misnumbered => \A d \in Calls : CallIsRight(call'[d], given')
    BY <1>8, <1>r, <1>q DEF MapListed, Points, Requests
  <2> QED
    BY <1>8, <1>u, <2>2, <2>3 DEF MapListed, Right
<1>9. ASSUME NEW c \in Calls, LookAgain(c) PROVE Unused' /\ Right'
  <2> DEFINE id == hashToID[call[c].hash]
             p == Request(call[c].op)
             k == [call[c] EXCEPT !.at = p, !.id = id]
  <2>1. CASE id = NoID
    BY <1>9, <1>m, <1>r, <1>u, <2>1 DEF LookAgain, Right
  <2>2. CASE id # NoID
    <3>1. id \in IDs /\ call[c].hash \in Hashes
      BY <1>9, <1>t, <2>2 DEF Mapping, LookAgain, Known
    <3>2. p \in Requests
      BY DEF Request, Requests
    <3>3. k.at = p /\ k.id = id /\ k.hash = call[c].hash
      BY <1>t DEF CallType
    <3>4. ~misnumbered => CallIsRight(k, given)
      BY <1>m, <2>2, <3>1, <3>2, <3>3 DEF CallIsRight, MapIsRight, Requests
    <3> HIDE DEF k
    <3>5. call' = [call EXCEPT ![c] = k]
      BY <1>9, <2>2 DEF LookAgain, k
    <3> QED
      BY <1>9, <1>c, <1>m, <1>u, <3>4, <3>5 DEF LookAgain, Right
  <2> QED
    BY <2>1, <2>2
<1>10. ASSUME NEW c \in Calls, Delete(c) PROVE Unused' /\ Right'
  <2>1. ~misnumbered => \A d \in Calls : CallIsRight(call'[d], given')
    BY <1>10, <1>r, <1>q DEF Delete, Points, Requests
  <2> QED
    BY <1>10, <1>m, <1>u, <2>1 DEF Delete, Right
<1>11. ASSUME NEW c \in Calls, MapDeleted(c) PROVE Unused' /\ Right'
  <2>1. ~misnumbered => MapIsRight(hashToID', given)
    BY <1>11, <1>m, <1>t DEF MapDeleted, MapIsRight, Mapping
  <2> QED
    BY <1>11, <1>r, <1>u, <2>1 DEF MapDeleted, Right
<1>12. ASSUME NEW c \in Calls,
              DetailsFail(c) \/ ListFails(c) \/ Stream(c) \/ DeleteFails(c)
       PROVE  Unused' /\ Right'
  BY <1>12, <1>m, <1>r, <1>u DEF DetailsFail, ListFails, Stream, DeleteFails, Right
<1>13. ASSUME NEW i \in IDs, RqbitDrops(i) PROVE Unused' /\ Right'
  BY <1>13, <1>m, <1>u DEF RqbitDrops, Right
<1>14. CASE BridgeRestarts
  <2>1. \A c \in Calls : CallIsRight(call'[c], given')
    BY <1>14, <1>n DEF BridgeRestarts
  <2> QED
    BY <1>14, <1>u, <2>1 DEF BridgeRestarts, Right, MapIsRight, Nowhere
<1>15. CASE UNCHANGED vars
  BY <1>15, <1>m, <1>u DEF vars, Right
<1> QED
  BY <1>1, <1>2, <1>3, <1>4, <1>5, <1>6, <1>7, <1>8, <1>9, <1>10, <1>11, <1>12,
     <1>13, <1>14, <1>15 DEF Next, CallStep

(* While every list that was read was numbered from 0 on without a gap, no *)
(* call of the adapter (rqbit.go) shows, streams or deletes a torrent that *)
(* it was not called for.                                                  *)
THEOREM RightTorrent == Spec => []NumbersAreRight
<1>1. Init => IInv
  <2> SUFFICES ASSUME Init PROVE Unused /\ Right
    BY InitType DEF IInv
  <2>1. Unused
    BY DEF Init, Unused
  <2>2. Right
    BY DEF Init, Right, MapIsRight, Nowhere, CallIsRight, NoCall, Requests
  <2> QED
    BY <2>1, <2>2
<1>2. IInv /\ [Next]_vars => IInv'
  BY NextType, NextRight DEF IInv
<1>3. IInv => NumbersAreRight
  BY DEF IInv, Right, CallIsRight, NumbersAreRight
<1> QED
  BY <1>1, <1>2, <1>3, PTL DEF Spec
=============================================================================
