---------------------------- MODULE RqbitMapping ----------------------------
(***************************************************************************)
(* RqbitAdapter (internal/engine/rqbit.go): rqbit numbers its torrents,    *)
(* the bridge names them by info hash, and the adapter remembers which     *)
(* number each hash has.  The lock is held only to look a number up or to  *)
(* write one: every request to rqbit happens in between, so calls overlap  *)
(* at each of them.                                                        *)
(*                                                                         *)
(* The reverse map idToHash is left out: it is written and never read.     *)
(***************************************************************************)
EXTENDS Integers, FiniteSets

CONSTANTS
    Hashes,
    NoHash,
    Calls,    \* calls of the adapter that can be under way at once
    MaxIDs    \* bound: torrents rqbit is given

ASSUME HashAssumption == NoHash \notin Hashes
ASSUME BoundAssumption == MaxIDs \in Nat

IDs == 0..(MaxIDs - 1)

NoID == -1

VARIABLES
    held,        \* the numbers of the torrents rqbit has
    given,       \* the hash each number was given to
    nextID,      \* the number rqbit gives next
    hashToID,    \* RqbitAdapter.hashToID
    call,        \* the calls under way
    misnumbered  \* ghost: a list was read that is not numbered from 0 on

vars == <<held, given, nextID, hashToID, call, misnumbered>>

Nowhere == [h \in Hashes |-> NoID]

NoCall == [op |-> "none", hash |-> NoHash, at |-> "idle", id |-> NoID,
           found |-> NoHash, seen |-> Nowhere]

(* GetTorrent, StreamFile, AddTorrent (PreloadTorrent is the same),        *)
(* RemoveTorrent and ListTorrents.                                         *)
Ops == {"get", "stream", "add", "remove", "list"}

(* The request a call is about to make, or the update of the map that      *)
(* follows the answer.                                                     *)
Requests == {"details", "stream", "delete"}
Points == Requests \cup {"post", "posted", "got", "list", "listed", "again", "deleted"}

Init ==
    /\ held = {} /\ nextID = 0
    /\ given = [i \in IDs |-> NoHash]
    /\ hashToID = Nowhere
    /\ call = [c \in Calls |-> NoCall]
    /\ misnumbered = FALSE

IDsOf(h) == {i \in held : given[i] = h}

Goto(c, point) == call' = [call EXCEPT ![c].at = point]

Return(c) == call' = [call EXCEPT ![c] = NoCall]

(* What a call does with the number of its torrent.                        *)
Request(op) == CASE op = "stream" -> "stream" [] op = "remove" -> "delete"
                 [] OTHER -> "details"

----------------------------------------------------------------------------
(* Variant: a stream of an unknown torrent does not look for it first.     *)
Begin_SkipsRefresh(c, op, h) ==
    /\ call[c].at = "idle"
    /\ op = "remove" => hashToID[h] # NoID
    /\ call' = [call EXCEPT ![c] =
         [NoCall EXCEPT !.op = op, !.hash = h, !.id = hashToID[h],
                        !.at = IF hashToID[h] = NoID /\ op = "add" THEN "post"
                               ELSE Request(op)]]
    /\ UNCHANGED <<held, given, nextID, hashToID, misnumbered>>

(* The number is looked up.  An unknown torrent is posted to be added, or  *)
(* looked for in the list, or refused to be removed.                       *)
Begin(c, op, h) ==
    /\ call[c].at = "idle"
    /\ op = "remove" => hashToID[h] # NoID
    /\ call' = [call EXCEPT ![c] =
         [NoCall EXCEPT !.op = op, !.hash = h, !.id = hashToID[h],
                        !.at = IF op # "list" /\ hashToID[h] # NoID THEN Request(op)
                               ELSE IF op = "add" THEN "post" ELSE "list"]]
    /\ UNCHANGED <<held, given, nextID, hashToID, misnumbered>>

(* POST /torrents: rqbit numbers a torrent it does not have.               *)
RqbitAdds(h, id) ==
    \/ id \in IDsOf(h) /\ UNCHANGED <<held, given, nextID>>
    \/ /\ IDsOf(h) = {} /\ nextID < MaxIDs
       /\ id = nextID
       /\ held' = held \cup {id}
       /\ given' = [given EXCEPT ![id] = h]
       /\ nextID' = nextID + 1

Post(c) ==
    /\ call[c].at = "post"
    /\ \E id \in IDs :
         /\ RqbitAdds(call[c].hash, id)
         /\ call' = [call EXCEPT ![c].at = "posted", ![c].id = id]
    /\ UNCHANGED <<hashToID, misnumbered>>

(* The answer is lost, or rqbit refuses.                                   *)
PostFails(c) ==
    /\ call[c].at = "post"
    /\ \/ UNCHANGED <<held, given, nextID>>
       \/ \E id \in IDs : RqbitAdds(call[c].hash, id)
    /\ Return(c)
    /\ UNCHANGED <<hashToID, misnumbered>>

(* Variant: a torrent has the last place of the list for a number.         *)
MapPosted_ByCount(c) ==
    /\ call[c].at = "posted"
    /\ held # {}
    /\ hashToID' = [hashToID EXCEPT ![call[c].hash] = Cardinality(held) - 1]
    /\ Return(c)
    /\ UNCHANGED <<held, given, nextID, misnumbered>>

(* By the hash in the answer or, when it has none, in the magnet (which    *)
(* has one, wrapper.go:276).  Without the details in the answer they are   *)
(* asked for.                                                              *)
MapPosted(c) ==
    /\ call[c].at = "posted"
    /\ \E h \in {given[call[c].id], call[c].hash} :
         hashToID' = [hashToID EXCEPT ![h] = call[c].id]
    /\ Return(c) \/ Goto(c, "details")
    /\ UNCHANGED <<held, given, nextID, misnumbered>>

(* getTorrentByID.  An answer without a hash is taken to be of the torrent *)
(* that was asked for.                                                     *)
Details(c) ==
    /\ call[c].at = "details"
    /\ call[c].id \in held
    /\ \E h \in {given[call[c].id], call[c].hash} :
         call' = [call EXCEPT ![c].at = "got", ![c].found = h]
    /\ UNCHANGED <<held, given, nextID, hashToID, misnumbered>>

DetailsFail(c) ==
    /\ call[c].at = "details"
    /\ Return(c)
    /\ UNCHANGED <<held, given, nextID, hashToID, misnumbered>>

MapDetails(c) ==
    /\ call[c].at = "got"
    /\ hashToID' = [hashToID EXCEPT ![call[c].found] = call[c].id]
    /\ Return(c)
    /\ UNCHANGED <<held, given, nextID, misnumbered>>

(* The place of a torrent in the list, which is in the order of numbers.   *)
Place(i) == Cardinality({j \in held : j < i})

(* GET /torrents answers with hashes and names, but no numbers.            *)
List(c) ==
    /\ call[c].at = "list"
    /\ call' = [call EXCEPT ![c].at = "listed",
         ![c].seen = [h \in Hashes |-> IF IDsOf(h) = {} THEN NoID
                                       ELSE Place(CHOOSE i \in IDsOf(h) : TRUE)]]
    /\ misnumbered' = (misnumbered \/ \E i \in held : Place(i) # i)
    /\ UNCHANGED <<held, given, nextID, hashToID>>

ListFails(c) ==
    /\ call[c].at = "list"
    /\ Return(c)
    /\ UNCHANGED <<held, given, nextID, hashToID, misnumbered>>

(* Places are taken for numbers, and what is not listed stays mapped.      *)
MapListed(c) ==
    /\ call[c].at = "listed"
    /\ hashToID' = [h \in Hashes |-> IF call[c].seen[h] # NoID THEN call[c].seen[h]
                                     ELSE hashToID[h]]
    /\ IF call[c].op = "list" THEN Return(c) ELSE Goto(c, "again")
    /\ UNCHANGED <<held, given, nextID, misnumbered>>

LookAgain(c) ==
    /\ call[c].at = "again"
    /\ LET id == hashToID[call[c].hash]
       IN  IF id = NoID THEN Return(c)
           ELSE call' = [call EXCEPT ![c].at = Request(call[c].op), ![c].id = id]
    /\ UNCHANGED <<held, given, nextID, hashToID, misnumbered>>

(* rqbit's answer is passed on, a 404 included.                            *)
Stream(c) ==
    /\ call[c].at = "stream"
    /\ Return(c)
    /\ UNCHANGED <<held, given, nextID, hashToID, misnumbered>>

Delete(c) ==
    /\ call[c].at = "delete"
    /\ call[c].id \in held
    /\ held' = held \ {call[c].id}
    /\ Goto(c, "deleted") \/ Return(c)  \* the answer is lost
    /\ UNCHANGED <<given, nextID, hashToID, misnumbered>>

(* The number stays mapped.                                                *)
DeleteFails(c) ==
    /\ call[c].at = "delete"
    /\ Return(c)
    /\ UNCHANGED <<held, given, nextID, hashToID, misnumbered>>

MapDeleted(c) ==
    /\ call[c].at = "deleted"
    /\ hashToID' = [hashToID EXCEPT ![call[c].hash] = NoID]
    /\ Return(c)
    /\ UNCHANGED <<held, given, nextID, misnumbered>>

----------------------------------------------------------------------------
(* rqbit has an interface of its own.                                      *)
RqbitDrops(i) ==
    /\ i \in held
    /\ held' = held \ {i}
    /\ UNCHANGED <<given, nextID, hashToID, call, misnumbered>>

BridgeRestarts ==
    /\ hashToID' = Nowhere
    /\ call' = [c \in Calls |-> NoCall]
    /\ UNCHANGED <<held, given, nextID, misnumbered>>

CallStep(c) ==
    \/ Post(c) \/ PostFails(c) \/ MapPosted(c)
    \/ Details(c) \/ DetailsFail(c) \/ MapDetails(c)
    \/ List(c) \/ ListFails(c) \/ MapListed(c) \/ LookAgain(c)
    \/ Stream(c) \/ Delete(c) \/ DeleteFails(c) \/ MapDeleted(c)

Next ==
    \/ \E c \in Calls : CallStep(c) \/ \E op \in Ops, h \in Hashes : Begin(c, op, h)
    \/ \E i \in IDs : RqbitDrops(i)
    \/ BridgeRestarts

Spec == Init /\ [][Next]_vars

----------------------------------------------------------------------------
(* A call under way has its torrent, and the number once it is looked up.  *)
Known(k) ==
    /\ k.at # "idle" => k.hash \in Hashes
    /\ k.at \in Requests \cup {"posted"} => k.id \in IDs

(* The types: a request to rqbit is made with a number, never without one. *)
TypeOK ==
    /\ held \subseteq IDs
    /\ given \in [IDs -> Hashes \cup {NoHash}]
    /\ nextID \in 0..MaxIDs
    /\ hashToID \in [Hashes -> IDs \cup {NoID}]
    /\ call \in [Calls ->
         [op : Ops \cup {"none"}, hash : Hashes \cup {NoHash},
          at : Points \cup {"idle"}, id : IDs \cup {NoID},
          found : Hashes \cup {NoHash}, seen : [Hashes -> IDs \cup {NoID}]]]
    /\ misnumbered \in BOOLEAN
    /\ \A c \in Calls : Known(call[c])

(* As long as every list that was read was numbered from 0 on without a    *)
(* gap, a request for a torrent names a number that was given to that      *)
(* torrent: whatever is added, removed, lost or restarted meanwhile, no    *)
(* call shows, streams or deletes another torrent.                         *)
NumbersAreRight ==
    ~misnumbered =>
        \A c \in Calls : call[c].at \in Requests => given[call[c].id] = call[c].hash

(* engine.go:88: GetTorrent "returns info about a specific torrent, or nil *)
(* if not found": the info is of the torrent it was asked for.             *)
GetsTheTorrent ==
    \A c \in Calls : call[c].op = "get" /\ call[c].at = "got"
                     => call[c].found = call[c].hash
=============================================================================
