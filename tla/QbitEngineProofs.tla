-------------------------- MODULE QbitEngineProofs --------------------------
(***************************************************************************)
(* Proofs about QbitEngine, for every set of torrents and files, every     *)
(* number of requests at once and every choice of the calls that may fail. *)
(***************************************************************************)
EXTENDS QbitEngine, FiniteSetTheorems, TLAPS

(* The types, of the torrents, the requests and the removals.              *)
TorrentType(h) == [st : {"absent", "running", "paused"}, meta : BOOLEAN,
                   sel : SUBSET FilesOf(h), parts : [FilesOf(h) -> 0..2]]

TorrentsOK == /\ DOMAIN torrent = Torrents
              /\ \A h \in Torrents : torrent[h] \in TorrentType(h)

StreamType == {r \in [st : StreamStates, hash : Torrents, file : Nat, whole : BOOLEAN] :
                 r.file \in FilesOf(r.hash)}

StreamsOK == /\ DOMAIN stream = Streams
             /\ \A s \in Streams : stream[s] \in StreamType \cup {NoStream}

SweepType == [n : 1..MaxBegins, keep : Torrents, listed : BOOLEAN,
              todo : SUBSET Torrents]

Typed ==
    /\ magnets \subseteq Torrents
    /\ TorrentsOK
    /\ StreamsOK
    /\ sweeps \subseteq SweepType
    /\ begins \in 0..MaxBegins
    /\ removed \subseteq Streams
    /\ unswept \in BOOLEAN

(* What an open request asked for has been asked for.                      *)
PlayedOK ==
    /\ DOMAIN played = Torrents
    /\ \A h \in Torrents : played[h] \subseteq FilesOf(h)
    /\ \A s \in Streams : Open(s) => stream[s].file \in played[stream[s].hash]

(* The requests that are to start a removal of the other torrents.         *)
ToSweep == {s \in Streams : stream[s].st \in {"adding", "resuming"}}

(* Every removal under way, and every one to come, is of a request of its  *)
(* own: there is a number left for each.                                   *)
SweepsCounted ==
    /\ IsFiniteSet(sweeps)
    /\ IsFiniteSet(ToSweep)
    /\ Cardinality(sweeps) + Cardinality(ToSweep) <= begins

(* A removal has nothing to do before it has read the list.                *)
UnlistedIsEmpty == \A w \in sweeps : ~w.listed => w.todo = {}

(* Of any two torrents one is to go: some removal has it on its list, or   *)
(* has yet to read the list.                                               *)
Surplus == \A g, h \in Present :
              g # h => \E w \in sweeps : ~w.listed \/ g \in w.todo \/ h \in w.todo

(* A file that is the only one of its torrent ever asked for is selected.  *)
OnlyIsSelected ==
    \A h \in Torrents : \A f \in FilesOf(h) :
        played[h] \subseteq {f} => f \in torrent[h].sel

(* The progress that was read was that of the file asked for, and it stays. *)
Whole(s) ==
    /\ stream[s].whole \/ stream[s].st = "direct"
    /\ played[stream[s].hash] = {stream[s].file}
    /\ s \notin removed

FileIsThere(s) ==
    torrent[stream[s].hash].parts[stream[s].file]
      = Parts[stream[s].hash][stream[s].file]

WholeIsDownloaded == \A s \in Streams : Whole(s) => FileIsThere(s)

(* The inductive invariant.                                                *)
IInv ==
    /\ Typed
    /\ SweepsCounted
    /\ UnlistedIsEmpty
    /\ (~unswept => Surplus)
    /\ PlayedOK
    /\ OnlyIsSelected
    /\ WholeIsDownloaded

----------------------------------------------------------------------------
(* These are the types of the model.                                       *)
LEMMA TypedIsTypeOK == Typed /\ PlayedOK => TypeOK
<1>1. StreamsOK <=> /\ DOMAIN stream = Streams
                    /\ \A s \in Streams :
                         \/ stream[s] = NoStream
                         \/ /\ stream[s] \in [st : StreamStates, hash : Torrents,
                                              file : Nat, whole : BOOLEAN]
                            /\ stream[s].file \in FilesOf(stream[s].hash)
  BY DEF StreamsOK, StreamType
<1> QED
  BY <1>1 DEF Typed, PlayedOK, TypeOK, TorrentsOK, TorrentType, SweepType

(* A torrent takes a state of its type.                                    *)
LEMMA TorrentSet ==
    ASSUME TorrentsOK, NEW h \in Torrents, NEW t \in TorrentType(h),
           torrent' = [torrent EXCEPT ![h] = t]
    PROVE  TorrentsOK'
BY DEF TorrentsOK, TorrentType, FilesOf

(* A request takes a state of its type.                                    *)
LEMMA StreamSet ==
    ASSUME StreamsOK, NEW s \in Streams, NEW r \in StreamType \cup {NoStream},
           stream' = [stream EXCEPT ![s] = r]
    PROVE  StreamsOK'
BY DEF StreamsOK, StreamType, FilesOf

(* A request that is not idle has its torrent, and a file of it.           *)
LEMMA OpenStream ==
    ASSUME StreamsOK, NEW s \in Streams, stream[s].st # "idle"
    PROVE  /\ stream[s] \in StreamType
           /\ stream[s].hash \in Torrents
           /\ stream[s].file \in FilesOf(stream[s].hash)
BY DEF StreamsOK, StreamType, NoStream

(* An open request moves on.                                               *)
LEMMA GotoType ==
    ASSUME StreamsOK, NEW s \in Streams, stream[s].st # "idle",
           NEW st \in StreamStates, Goto(s, st)
    PROVE  StreamsOK'
<1>1. stream[s] \in StreamType
  BY OpenStream
<1>2. [stream[s] EXCEPT !.st = st] \in StreamType
  BY <1>1 DEF StreamType
<1>3. stream' = [stream EXCEPT ![s] = [stream[s] EXCEPT !.st = st]]
  BY DEF Goto
<1> QED
  BY <1>2, <1>3, StreamSet

(* A request ends.                                                         *)
LEMMA EndType ==
    ASSUME StreamsOK, NEW s \in Streams, removed \subseteq Streams, End(s)
    PROVE  StreamsOK' /\ removed' \subseteq Streams
<1>1. stream' = [stream EXCEPT ![s] = NoStream]
  BY DEF End
<1>2. StreamsOK'
  BY <1>1, StreamSet
<1> QED
  BY <1>2 DEF End

(* A torrent starts or is paused.                                          *)
LEMMA StateType ==
    ASSUME TorrentsOK, NEW h \in Torrents, NEW st \in {"running", "paused"},
           torrent' = [torrent EXCEPT ![h].st = st]
    PROVE  TorrentsOK'
<1>1. [torrent[h] EXCEPT !.st = st] \in TorrentType(h)
  BY DEF TorrentsOK, TorrentType
<1> QED
  BY <1>1, TorrentSet

(* A torrent is deleted.                                                   *)
LEMMA DeleteType ==
    ASSUME TorrentsOK, NEW h \in Torrents, removed \subseteq Streams, Delete(h)
    PROVE  TorrentsOK' /\ removed' \subseteq Streams
<1>1. Absent(h) \in TorrentType(h)
  BY DEF Absent, TorrentType
<1>2. TorrentsOK'
  BY <1>1, TorrentSet DEF Delete
<1> QED
  BY <1>2 DEF Delete, Of

(* A removal has one torrent less to remove, or ends.                      *)
LEMMA LeftType ==
    ASSUME sweeps \subseteq SweepType, NEW w \in sweeps,
           NEW todo \in SUBSET Torrents, Left(w, todo)
    PROVE  sweeps' \subseteq SweepType
<1>1. w \in SweepType
  OBVIOUS
<1>2. [w EXCEPT !.listed = TRUE, !.todo = todo] \in SweepType
  BY <1>1 DEF SweepType
<1> QED
  BY <1>2 DEF Left

(* While fewer removals are under way than requests are allowed, there is  *)
(* a number for the next.                                                  *)
LEMMA FreeNumber ==
    ASSUME IsFiniteSet(sweeps), Cardinality(sweeps) < MaxBegins
    PROVE  \E i \in 1..MaxBegins : \A w \in sweeps : w.n # i
<1> SUFFICES ASSUME \A i \in 1..MaxBegins : \E w \in sweeps : w.n = i
             PROVE  FALSE
  OBVIOUS
<1> DEFINE numbers == {w.n : w \in sweeps}
           numberOf == [w \in sweeps |-> w.n]
<1>1. numberOf \in Surjection(sweeps, numbers)
  BY DEF Surjection
<1>2. IsFiniteSet(numbers) /\ Cardinality(numbers) <= Cardinality(sweeps)
  BY <1>1, FS_Surjection
<1>3. 1..MaxBegins \subseteq numbers
  OBVIOUS
<1> HIDE DEF numbers
<1>4. Cardinality(1..MaxBegins) <= Cardinality(numbers)
  BY <1>2, <1>3, FS_Subset
<1>5. Cardinality(1..MaxBegins) = MaxBegins
  BY BoundAssumption, FS_Interval
<1>6. Cardinality(sweeps) \in Nat /\ Cardinality(numbers) \in Nat
  BY <1>2, FS_CardinalityType
<1> QED
  BY <1>2, <1>4, <1>5, <1>6, BoundAssumption

(* A sweep that begins is one, with a number no other sweep has.           *)
LEMMA NewSweepType ==
    ASSUME IsFiniteSet(sweeps), Cardinality(sweeps) < MaxBegins,
           NEW h \in Torrents
    PROVE  NewSweep(h) \in SweepType
<1> DEFINE n == CHOOSE i \in 1..MaxBegins : \A w \in sweeps : w.n # i
<1>1. n \in 1..MaxBegins
  BY FreeNumber
<1>2. NewSweep(h) = [n |-> n, keep |-> h, listed |-> FALSE, todo |-> {}]
  BY DEF NewSweep
<1> HIDE DEF n
<1> QED
  BY <1>1, <1>2 DEF SweepType

(* A request that has yet to start its removal leaves a number for it.     *)
LEMMA RoomForSweep ==
    ASSUME SweepsCounted, begins \in 0..MaxBegins, NEW s \in ToSweep
    PROVE  /\ Cardinality(sweeps) < MaxBegins
           /\ IsFiniteSet(ToSweep \ {s})
           /\ Cardinality(ToSweep \ {s}) = Cardinality(ToSweep) - 1
           /\ Cardinality(sweeps) \in Nat /\ Cardinality(ToSweep) \in Nat
<1>1. Cardinality(sweeps) \in Nat /\ Cardinality(ToSweep) \in Nat
  BY FS_CardinalityType DEF SweepsCounted
<1>2. /\ IsFiniteSet(ToSweep \ {s})
      /\ Cardinality(ToSweep \ {s}) = Cardinality(ToSweep) - 1
  BY FS_RemoveElement DEF SweepsCounted
<1>3. Cardinality(ToSweep \ {s}) \in Nat
  BY <1>2, FS_CardinalityType
<1> QED
  BY <1>1, <1>2, <1>3, BoundAssumption DEF SweepsCounted

----------------------------------------------------------------------------
(* Every step keeps the types.                                             *)
LEMMA TypeStep == Typed /\ SweepsCounted /\ [Next]_vars => Typed'
<1> SUFFICES ASSUME Typed, SweepsCounted, [Next]_vars PROVE Typed'
  OBVIOUS
<1> USE DEF Typed, ghosts
<1>0. \A h \in Torrents : FilesOf(h) \subseteq Nat /\ Parts[h] \in [FilesOf(h) -> 1..2]
  BY PartsAssumption DEF FilesOf
<1>1. ASSUME NEW h \in Torrents, MetadataArrives(h) PROVE Typed'
  <2>1. [torrent[h] EXCEPT !.meta = TRUE] \in TorrentType(h)
    BY DEF TorrentsOK, TorrentType
  <2>2. TorrentsOK'
    BY <1>1, <2>1, TorrentSet DEF MetadataArrives
  <2> QED
    BY <1>1, <2>2 DEF MetadataArrives, StreamsOK
<1>2. ASSUME NEW h \in Torrents, NEW f \in FilesOf(h), Download(h, f)
      PROVE  Typed'
  <2> DEFINE t == [torrent[h] EXCEPT !.parts = [torrent[h].parts EXCEPT ![f] = @ + 1]]
  <2>1. torrent[h] \in TorrentType(h)
    BY DEF TorrentsOK
  <2>2. torrent[h].parts[f] + 1 \in 0..2
    BY <1>0, <1>2, <2>1 DEF Download, TorrentType
  <2>3. t \in TorrentType(h)
    BY <2>1, <2>2 DEF TorrentType
  <2>4. torrent' = [torrent EXCEPT ![h] = t]
    BY <1>2 DEF Download
  <2>5. TorrentsOK'
    BY <2>3, <2>4, TorrentSet
  <2> QED
    BY <1>2, <2>5 DEF Download, StreamsOK
<1>3. ASSUME NEW h \in Torrents, RemoveTorrent(h) PROVE Typed'
  BY <1>3, DeleteType DEF RemoveTorrent, StreamsOK
<1>4. ASSUME NEW h \in Torrents, PreloadTorrent(h) PROVE Typed'
  BY <1>4 DEF PreloadTorrent, StreamsOK, TorrentsOK
<1>5. ASSUME NEW s \in Streams, NEW h \in Torrents, NEW f \in FilesOf(h),
             StreamBegins(s, h, f)
      PROVE  Typed'
  <2> DEFINE r == [st |-> IF h \in magnets THEN "adding" ELSE "resuming",
                   hash |-> h, file |-> f, whole |-> FALSE]
  <2>1. r \in StreamType
    BY <1>0 DEF StreamType, StreamStates, Starts
  <2>2. stream' = [stream EXCEPT ![s] = r]
    BY <1>5 DEF StreamBegins
  <2> HIDE DEF r
  <2>3. StreamsOK'
    BY <2>1, <2>2, StreamSet
  <2>4. begins' \in 0..MaxBegins
    BY <1>5, BoundAssumption DEF StreamBegins
  <2> QED
    BY <1>5, <2>3, <2>4 DEF StreamBegins, TorrentsOK
<1>6. ASSUME NEW s \in Streams, Starting(s) PROVE Typed'
  <2>1. stream[s].st # "idle" /\ s \in ToSweep
    BY <1>6 DEF Starting, AddCalled, AddFails, ResumeCalled, ToSweep
  <2> DEFINE h == stream[s].hash
  <2>2. h \in Torrents
    BY <2>1, OpenStream
  <2>3. NewSweep(h) \in SweepType
    BY <2>1, <2>2, RoomForSweep, NewSweepType DEF SweepsCounted
  <2>4. "metadata" \in StreamStates
    BY DEF StreamStates, Starts
  <2>5. CASE AddCalled(s)
    <3>1. StreamsOK'
      BY <2>1, <2>4, <2>5, GotoType DEF AddCalled
    <3>2. TorrentsOK'
      BY <2>2, <2>5, StateType DEF AddCalled, TorrentsOK
    <3>3. sweeps' \subseteq SweepType
      BY <2>3, <2>5 DEF AddCalled, StartSweep
    <3> QED
      BY <2>5, <3>1, <3>2, <3>3 DEF AddCalled
  <2>6. CASE AddFails(s)
    <3>1. StreamsOK' /\ removed' \subseteq Streams
      BY <2>6, EndType DEF AddFails
    <3>2. TorrentsOK'
      BY <2>2, <2>6, StateType DEF AddFails, TorrentsOK
    <3> QED
      BY <2>6, <3>1, <3>2 DEF AddFails
  <2>7. CASE ResumeCalled(s)
    <3>1. StreamsOK'
      BY <2>1, <2>4, <2>7, GotoType DEF ResumeCalled
    <3>2. TorrentsOK'
      BY <2>2, <2>7, StateType DEF ResumeCalled, TorrentsOK
    <3>3. sweeps' \subseteq SweepType
      BY <2>3, <2>7 DEF ResumeCalled, StartSweep
    <3> QED
      BY <2>7, <3>1, <3>2, <3>3 DEF ResumeCalled
  <2> QED
    BY <1>6, <2>5, <2>6, <2>7 DEF Starting
<1>7. ASSUME NEW s \in Streams, Waiting(s) PROVE Typed'
  <2>1. stream[s].st # "idle"
    BY <1>7 DEF Waiting, InfoRead, FilesRead, AttemptFails, MetadataTimesOut, MayFail,
                FocusOthers, FocusTarget, FileOpened, OpenFails
  <2> DEFINE h == stream[s].hash
             f == stream[s].file
  <2>2. h \in Torrents /\ f \in FilesOf(h) /\ stream[s] \in StreamType
    BY <2>1, OpenStream
  <2>3. {"metadata", "listing", "found", "focusing", "opening", "direct", "first"}
           \subseteq StreamStates
    BY DEF StreamStates, Starts
  <2>4. ASSUME InfoRead(s) \/ AttemptFails(s) PROVE Typed'
    <3> DEFINE one == [[stream[s] EXCEPT !.st = "listing"] EXCEPT !.whole = Progress1(h)]
               two == [[stream[s] EXCEPT !.st = "metadata"] EXCEPT !.whole = FALSE]
    <3>1. Progress1(h) \in BOOLEAN
      BY <2>2 DEF Progress1, TorrentsOK, TorrentType
    <3>2. one \in StreamType /\ two \in StreamType
      BY <2>2, <2>3, <3>1 DEF StreamType
    <3>3. stream' = [stream EXCEPT ![s] = one] \/ stream' = [stream EXCEPT ![s] = two]
      BY <2>4 DEF InfoRead, AttemptFails, StreamsOK
    <3> HIDE DEF one, two
    <3>4. StreamsOK'
      BY <3>2, <3>3, StreamSet
    <3> QED
      BY <2>4, <3>4 DEF InfoRead, AttemptFails, TorrentsOK
  <2>5. CASE MetadataTimesOut(s)
    BY <2>5, EndType DEF MetadataTimesOut, TorrentsOK
  <2>6. ASSUME FocusOthers(s) \/ FocusTarget(s) PROVE Typed'
    <3>1. StreamsOK'
      BY <2>1, <2>3, <2>6, GotoType DEF FocusOthers, FocusTarget
    <3>2. torrent[h] \in TorrentType(h)
      BY <2>2 DEF TorrentsOK
    <3>3. \/ UNCHANGED torrent
          \/ \E sel \in SUBSET FilesOf(h) : torrent' = [torrent EXCEPT ![h].sel = sel]
      BY <2>2, <2>6, <3>2 DEF FocusOthers, FocusTarget, Select, TorrentType
    <3>4. \A sel \in SUBSET FilesOf(h) : [torrent[h] EXCEPT !.sel = sel] \in TorrentType(h)
      BY <3>2 DEF TorrentType
    <3>5. TorrentsOK'
      BY <2>2, <3>3, <3>4, TorrentSet DEF TorrentsOK
    <3> QED
      BY <2>6, <3>1, <3>5 DEF FocusOthers, FocusTarget
  <2>7. ASSUME FilesRead(s) \/ FileOpened(s) PROVE Typed'
    <3>1. StreamsOK'
      BY <2>1, <2>3, <2>7, GotoType DEF FilesRead, FileOpened
    <3> QED
      BY <2>7, <3>1 DEF FilesRead, FileOpened, TorrentsOK
  <2>8. CASE OpenFails(s)
    BY <2>8, EndType DEF OpenFails, TorrentsOK
  <2> QED
    BY <1>7, <2>4, <2>5, <2>6, <2>7, <2>8 DEF Waiting
<1>8. ASSUME NEW s \in Streams, Serving(s) PROVE Typed'
  <2>1. stream[s].st # "idle"
    BY <1>8 DEF Serving, FirstPieceReady, ReadBegins, ReadReturns, Close
  <2>2. {"sending", "blocked", "finished"} \subseteq StreamStates
    BY DEF StreamStates
  <2>3. ASSUME FirstPieceReady(s) \/ ReadBegins(s) \/ ReadReturns(s) PROVE Typed'
    <3>1. StreamsOK'
      BY <2>1, <2>2, <2>3, GotoType DEF FirstPieceReady, ReadBegins, ReadReturns
    <3> QED
      BY <2>3, <3>1 DEF FirstPieceReady, ReadBegins, ReadReturns, TorrentsOK
  <2>4. CASE Close(s)
    <3>1. StreamsOK' /\ removed' \subseteq Streams
      BY <2>4, EndType DEF Close
    <3>2. TorrentsOK'
      BY <2>1, <2>4, OpenStream, StateType DEF Close, TorrentsOK
    <3> QED
      BY <2>4, <3>1, <3>2 DEF Close
  <2> QED
    BY <1>8, <2>3, <2>4 DEF Serving
<1>9. ASSUME NEW w \in sweeps, Sweep(w) PROVE Typed'
  <2>1. w.todo \subseteq Torrents
    BY DEF SweepType
  <2>2. CASE SweepLists(w)
    BY <2>2, LeftType DEF SweepLists, Present, StreamsOK, TorrentsOK
  <2>3. ASSUME NEW h \in Torrents, SweepRemoves(w, h) PROVE Typed'
    BY <2>1, <2>3, LeftType, DeleteType DEF SweepRemoves, StreamsOK
  <2>4. CASE SweepFails(w)
    BY <2>1, <2>4, LeftType DEF SweepFails, StreamsOK, TorrentsOK
  <2> QED
    BY <1>9, <2>2, <2>3, <2>4 DEF Sweep
<1>10. CASE UNCHANGED vars
  BY <1>10 DEF vars, StreamsOK, TorrentsOK
<1> QED
  BY <1>1, <1>2, <1>3, <1>4, <1>5, <1>6, <1>7, <1>8, <1>9, <1>10 DEF Next

----------------------------------------------------------------------------
(* Where a request can go: its torrent and its file stay the same.         *)
Put(s, st, w) ==
    [st |-> st, hash |-> stream[s].hash, file |-> stream[s].file, whole |-> w]

Marks(s) == stream[s].whole \/ stream[s].st = "direct"

(* A step of an open request ends it or moves it on.  It is found complete *)
(* by InfoRead only, and no step of it takes a part of a file away.        *)
LEMMA RequestStep ==
    ASSUME Typed, NEW s \in Streams, Starting(s) \/ Waiting(s) \/ Serving(s)
    PROVE  /\ Open(s) /\ stream[s].hash \in Torrents
           /\ stream[s].file \in FilesOf(stream[s].hash)
           /\ UNCHANGED played
           /\ \A g \in Torrents : torrent'[g].parts = torrent[g].parts
           /\ \/ End(s)
              \/ /\ UNCHANGED removed
                 /\ \E st \in StreamStates \ {"adding", "resuming"}, w \in BOOLEAN :
                      /\ stream' = [stream EXCEPT ![s] = Put(s, st, w)]
                      /\ w \/ st = "direct" =>
                           Marks(s) \/ (UNCHANGED torrent /\ Progress1(stream[s].hash))
<1> DEFINE h == stream[s].hash
<1>1. Open(s)
  BY DEF Open, Starting, AddCalled, AddFails, ResumeCalled, Waiting, InfoRead, FilesRead,
         AttemptFails, MetadataTimesOut, MayFail, FocusOthers, FocusTarget, FileOpened,
         OpenFails, Serving, FirstPieceReady, ReadBegins, ReadReturns, Close
<1>2. stream[s] \in StreamType /\ h \in Torrents /\ stream[s].file \in FilesOf(h)
  BY <1>1, OpenStream DEF Open, Typed
<1>3. UNCHANGED played
  BY DEF ghosts, Starting, AddCalled, AddFails, ResumeCalled, Waiting, InfoRead, FilesRead,
         AttemptFails, MetadataTimesOut, FocusOthers, FocusTarget, FileOpened,
         OpenFails, Serving, FirstPieceReady, ReadBegins, ReadReturns, Close
<1>4. \A g \in Torrents : torrent'[g].parts = torrent[g].parts
  <2>1. \/ UNCHANGED torrent
        \/ \E st \in {"running", "paused"} : torrent' = [torrent EXCEPT ![h].st = st]
        \/ \E sel : torrent' = [torrent EXCEPT ![h].sel = sel]
    BY DEF Starting, AddCalled, AddFails, ResumeCalled, Waiting, InfoRead, FilesRead,
           AttemptFails, MetadataTimesOut, FocusOthers, FocusTarget, Select, FileOpened,
           OpenFails, Serving, FirstPieceReady, ReadBegins, ReadReturns, Close
  <2> HIDE DEF h
  <2>2. h \in Torrents
    BY <1>2 DEF h
  <2> QED
    BY <2>1, <2>2 DEF Typed, TorrentsOK, TorrentType
<1> DEFINE States == StreamStates \ {"adding", "resuming"}
<1>11. {"metadata", "listing", "found", "focusing", "opening", "direct", "first",
        "sending", "blocked", "finished"} \subseteq States
  BY DEF StreamStates, Starts
<1> HIDE DEF States
<1>12. \A st, w : /\ [stream[s] EXCEPT !.st = st] = Put(s, st, stream[s].whole)
                  /\ [[stream[s] EXCEPT !.st = st] EXCEPT !.whole = w] = Put(s, st, w)
  <2> SUFFICES ASSUME NEW st, NEW w
               PROVE  /\ [stream[s] EXCEPT !.st = st] = Put(s, st, stream[s].whole)
                      /\ [[stream[s] EXCEPT !.st = st] EXCEPT !.whole = w] = Put(s, st, w)
    OBVIOUS
  <2>1. stream[s] \in [st : StreamStates, hash : Torrents, file : Nat, whole : BOOLEAN]
    BY <1>2 DEF StreamType
  <2>2. [stream[s] EXCEPT !.st = st] = Put(s, st, stream[s].whole)
    BY <2>1 DEF Put
  <2>3. [Put(s, st, stream[s].whole) EXCEPT !.whole = w] = Put(s, st, w)
    BY DEF Put
  <2> QED
    BY <2>2, <2>3
<1>13. stream[s].whole \in BOOLEAN /\ DOMAIN stream = Streams
  BY <1>2 DEF StreamType, Typed, StreamsOK
<1> DEFINE goal == /\ UNCHANGED removed
                   /\ \E st \in States, w \in BOOLEAN :
                        /\ stream' = [stream EXCEPT ![s] = Put(s, st, w)]
                        /\ w \/ st = "direct" =>
                             Marks(s) \/ (UNCHANGED torrent /\ Progress1(h))
<1>5. ASSUME NEW st \in States, Goto(s, st), UNCHANGED removed,
             st = "direct" => Marks(s)
      PROVE  goal
  <2>1. stream' = [stream EXCEPT ![s] = Put(s, st, stream[s].whole)]
    BY <1>5, <1>12 DEF Goto
  <2>2. stream[s].whole \/ st = "direct" => Marks(s)
    BY <1>5 DEF Marks
  <2> QED
    BY <1>5, <1>13, <2>1, <2>2
<1>6. CASE \/ AddCalled(s) \/ ResumeCalled(s) \/ FilesRead(s) \/ FocusOthers(s)
           \/ FileOpened(s) \/ FirstPieceReady(s) \/ ReadBegins(s) \/ ReadReturns(s)
  <2>1. \E st \in States : Goto(s, st) /\ st # "direct"
    BY <1>6, <1>11 DEF AddCalled, ResumeCalled, FilesRead, FocusOthers, FileOpened,
                       FirstPieceReady, ReadBegins, ReadReturns
  <2>2. UNCHANGED removed
    BY <1>6 DEF AddCalled, ResumeCalled, FilesRead, FocusOthers, FileOpened,
                FirstPieceReady, ReadBegins, ReadReturns, ghosts
  <2>3. goal
    BY <1>5, <2>1, <2>2
  <2> QED
    BY <1>1, <1>2, <1>3, <1>4, <2>3 DEF States
<1>7. CASE FocusTarget(s)
  <2>1. \E st \in States : Goto(s, st) /\ (st = "direct" => Marks(s))
    BY <1>7, <1>11 DEF FocusTarget, Marks
  <2>2. UNCHANGED removed
    BY <1>7 DEF FocusTarget, ghosts
  <2>3. goal
    BY <1>5, <2>1, <2>2
  <2> QED
    BY <1>1, <1>2, <1>3, <1>4, <2>3 DEF States
<1>8. CASE InfoRead(s)
  <2>1. stream' = [stream EXCEPT ![s] = Put(s, "listing", Progress1(h))]
    BY <1>8, <1>12, <1>13 DEF InfoRead
  <2>2. Progress1(h) \in BOOLEAN
    BY <1>2 DEF Progress1, Typed, TorrentsOK, TorrentType
  <2>3. UNCHANGED <<removed, torrent>>
    BY <1>8 DEF InfoRead, ghosts
  <2>4. goal
    BY <1>11, <2>1, <2>2, <2>3
  <2> QED
    BY <1>1, <1>2, <1>3, <1>4, <2>4 DEF States
<1>9. CASE AttemptFails(s)
  <2>1. stream' = [stream EXCEPT ![s] = Put(s, "metadata", FALSE)]
    BY <1>9, <1>12, <1>13 DEF AttemptFails
  <2>2. UNCHANGED removed
    BY <1>9 DEF AttemptFails, ghosts
  <2>3. goal
    BY <1>11, <2>1, <2>2
  <2> QED
    BY <1>1, <1>2, <1>3, <1>4, <2>3 DEF States
<1>10. CASE AddFails(s) \/ MetadataTimesOut(s) \/ OpenFails(s) \/ Close(s)
  BY <1>1, <1>2, <1>3, <1>4, <1>10 DEF AddFails, MetadataTimesOut, OpenFails, Close
<1> QED
  BY <1>6, <1>7, <1>8, <1>9, <1>10 DEF Starting, Waiting, Serving

(* A request that starts no removal, now or then, leaves the count alone.  *)
LEMMA SameToSweep ==
    ASSUME Typed, NEW s \in Streams,
           stream[s].st \notin {"adding", "resuming"},
           NEW r, r.st \notin {"adding", "resuming"},
           stream' = [stream EXCEPT ![s] = r]
    PROVE  ToSweep' = ToSweep
BY DEF Typed, StreamsOK, ToSweep

(* One that was to start it is done with that.                             *)
LEMMA OneLessToSweep ==
    ASSUME Typed, NEW s \in Streams, NEW r, r.st \notin {"adding", "resuming"},
           stream' = [stream EXCEPT ![s] = r]
    PROVE  ToSweep' = ToSweep \ {s}
BY DEF Typed, StreamsOK, ToSweep

(* It started it.                                                          *)
LEMMA StartSweepCount ==
    ASSUME Typed, SweepsCounted, NEW s \in ToSweep, NEW h \in Torrents,
           ToSweep' = ToSweep \ {s}, StartSweep(h), UNCHANGED begins
    PROVE  SweepsCounted'
<1> USE DEF SweepsCounted, Typed
<1>1. /\ IsFiniteSet(ToSweep \ {s})
      /\ Cardinality(ToSweep \ {s}) = Cardinality(ToSweep) - 1
      /\ Cardinality(sweeps) \in Nat /\ Cardinality(ToSweep) \in Nat
  BY RoomForSweep
<1>2. /\ IsFiniteSet(sweeps')
      /\ Cardinality(sweeps') \in {Cardinality(sweeps), Cardinality(sweeps) + 1}
  BY FS_AddElement DEF StartSweep
<1> QED
  BY <1>1, <1>2, BoundAssumption

(* A removal that goes on stays one.                                       *)
LEMMA LeftCount ==
    ASSUME Typed, SweepsCounted, NEW w \in sweeps, NEW todo, Left(w, todo),
           ToSweep' = ToSweep, UNCHANGED begins
    PROVE  SweepsCounted'
<1> USE DEF SweepsCounted, Typed
<1> DEFINE rest == sweeps \ {w}
<1>1. IsFiniteSet(rest) /\ Cardinality(rest) = Cardinality(sweeps) - 1
  BY FS_RemoveElement
<1>2. /\ Cardinality(sweeps) \in Nat /\ Cardinality(ToSweep) \in Nat
      /\ Cardinality(rest) \in Nat
  BY <1>1, FS_CardinalityType
<1>3. \/ sweeps' = rest
      \/ sweeps' = rest \cup {[w EXCEPT !.listed = TRUE, !.todo = todo]}
  BY DEF Left
<1> HIDE DEF rest
<1>4. IsFiniteSet(sweeps') /\ Cardinality(sweeps') <= Cardinality(rest) + 1
  <2> DEFINE one == [w EXCEPT !.listed = TRUE, !.todo = todo]
  <2>1. /\ IsFiniteSet(rest \cup {one})
        /\ Cardinality(rest \cup {one}) \in {Cardinality(rest), Cardinality(rest) + 1}
    BY <1>1, FS_AddElement
  <2>2. \/ sweeps' = rest
        \/ sweeps' = rest \cup {one}
    BY <1>3
  <2> HIDE DEF one
  <2> QED
    BY <1>1, <1>2, <2>1, <2>2
<1>5. Cardinality(sweeps') \in Nat
  BY <1>4, FS_CardinalityType
<1> QED
  BY <1>1, <1>2, <1>4, <1>5, BoundAssumption

(* Every step keeps the count.                                             *)
LEMMA CountStep == Typed /\ SweepsCounted /\ [Next]_vars => SweepsCounted'
<1> SUFFICES ASSUME Typed, SweepsCounted, [Next]_vars PROVE SweepsCounted'
  OBVIOUS
<1>0. ASSUME ToSweep' = ToSweep, UNCHANGED <<sweeps, begins>> PROVE SweepsCounted'
  BY <1>0 DEF SweepsCounted
<1>1. ASSUME UNCHANGED stream, UNCHANGED <<sweeps, begins>> PROVE SweepsCounted'
  BY <1>0, <1>1 DEF ToSweep
<1>2. ASSUME NEW h \in Torrents, \/ MetadataArrives(h) \/ RemoveTorrent(h)
                                 \/ PreloadTorrent(h)
                                 \/ \E f \in FilesOf(h) : Download(h, f)
      PROVE  SweepsCounted'
  BY <1>1, <1>2 DEF MetadataArrives, RemoveTorrent, PreloadTorrent, Download
<1>3. ASSUME NEW s \in Streams, NEW h \in Torrents, NEW f \in FilesOf(h),
             StreamBegins(s, h, f)
      PROVE  SweepsCounted'
  <2>1. ToSweep' = ToSweep \cup {s} /\ begins' = begins + 1 /\ sweeps' = sweeps
    BY <1>3 DEF StreamBegins, ToSweep, Typed, StreamsOK
  <2>2. /\ IsFiniteSet(ToSweep')
        /\ Cardinality(ToSweep') \in {Cardinality(ToSweep), Cardinality(ToSweep) + 1}
    BY <2>1, FS_AddElement DEF SweepsCounted
  <2>3. Cardinality(sweeps) \in Nat /\ Cardinality(ToSweep) \in Nat
    BY FS_CardinalityType DEF SweepsCounted
  <2> QED
    BY <2>1, <2>2, <2>3, BoundAssumption DEF SweepsCounted, Typed
<1>4. ASSUME NEW s \in Streams, Starting(s) PROVE SweepsCounted'
  <2>1. s \in ToSweep /\ stream[s].st # "idle"
    BY <1>4 DEF Starting, AddCalled, AddFails, ResumeCalled, ToSweep
  <2>2. ToSweep' = ToSweep \ {s}
    <3>1. \/ stream' = [stream EXCEPT ![s] = NoStream]
          \/ \E st \in StreamStates \ {"adding", "resuming"}, w \in BOOLEAN :
                stream' = [stream EXCEPT ![s] = Put(s, st, w)]
      BY <1>4, RequestStep DEF End
    <3>2. NoStream.st = "idle" /\ \A st, w : Put(s, st, w).st = st
      BY DEF NoStream, Put
    <3> QED
      BY <3>1, <3>2, OneLessToSweep
  <2>3. stream[s].hash \in Torrents
    BY <2>1, OpenStream DEF Typed
  <2>4. CASE AddCalled(s) \/ ResumeCalled(s)
    BY <2>1, <2>2, <2>3, <2>4, StartSweepCount DEF AddCalled, ResumeCalled
  <2>5. CASE AddFails(s)
    <3>1. /\ IsFiniteSet(ToSweep')
          /\ Cardinality(ToSweep') = Cardinality(ToSweep) - 1
          /\ Cardinality(sweeps) \in Nat /\ Cardinality(ToSweep) \in Nat
      BY <2>1, <2>2, RoomForSweep DEF Typed
    <3> QED
      BY <2>5, <3>1, BoundAssumption DEF AddFails, SweepsCounted, Typed
  <2> QED
    BY <1>4, <2>4, <2>5 DEF Starting
<1>5. ASSUME NEW s \in Streams, Waiting(s) \/ Serving(s) PROVE SweepsCounted'
  <2>1. UNCHANGED <<sweeps, begins>>
    BY <1>5 DEF Waiting, Serving, InfoRead, FilesRead, AttemptFails,
                MetadataTimesOut, MayFail, FocusOthers, FocusTarget, FileOpened,
                OpenFails, FirstPieceReady, ReadBegins, ReadReturns, Close
  <2>2. stream[s].st \notin {"idle", "adding", "resuming"}
    BY <1>5 DEF Waiting, Serving, InfoRead, FilesRead, AttemptFails,
                MetadataTimesOut, MayFail, FocusOthers, FocusTarget, FileOpened,
                OpenFails, FirstPieceReady, ReadBegins, ReadReturns, Close
  <2>3. ToSweep' = ToSweep
    <3>1. \/ stream' = [stream EXCEPT ![s] = NoStream]
          \/ \E st \in StreamStates \ {"adding", "resuming"}, w \in BOOLEAN :
                stream' = [stream EXCEPT ![s] = Put(s, st, w)]
      BY <1>5, RequestStep DEF End
    <3>2. NoStream.st = "idle" /\ \A st, w : Put(s, st, w).st = st
      BY DEF NoStream, Put
    <3> QED
      BY <2>2, <3>1, <3>2, SameToSweep
  <2> QED
    BY <1>0, <2>1, <2>3
<1>6. ASSUME NEW w \in sweeps, Sweep(w) PROVE SweepsCounted'
  <2>1. UNCHANGED <<stream, begins>> /\ \E todo : Left(w, todo)
    BY <1>6 DEF Sweep, SweepLists, SweepRemoves, SweepFails
  <2>2. ToSweep' = ToSweep
    BY <2>1 DEF ToSweep
  <2> QED
    BY <2>1, <2>2, LeftCount
<1>7. CASE UNCHANGED vars
  BY <1>1, <1>7 DEF vars
<1> QED
  BY <1>2, <1>3, <1>4, <1>5, <1>6, <1>7 DEF Next

----------------------------------------------------------------------------
(* While no torrent is added and no removal ends, none is forgotten.       *)
LEMMA SurplusKept ==
    ASSUME UnlistedIsEmpty, ~unswept => Surplus,
           Present' \subseteq Present, UNCHANGED <<sweeps, unswept>>
    PROVE  UnlistedIsEmpty' /\ (~unswept' => Surplus')
<1>1. UnlistedIsEmpty'
  BY DEF UnlistedIsEmpty
<1>2. ASSUME ~unswept', NEW g \in Present', NEW h \in Present', g # h
      PROVE  \E w \in sweeps' : ~w.listed \/ g \in w.todo \/ h \in w.todo
  BY <1>2 DEF Surplus
<1> QED
  BY <1>1, <1>2 DEF Surplus

(* A removal that starts will read the list.                               *)
LEMMA SurplusSwept ==
    ASSUME UnlistedIsEmpty, NEW h, StartSweep(h)
    PROVE  UnlistedIsEmpty' /\ Surplus'
<1>1. NewSweep(h).listed = FALSE /\ NewSweep(h).todo = {}
  BY DEF NewSweep
<1>2. sweeps' = sweeps \cup {NewSweep(h)}
  BY DEF StartSweep
<1> QED
  BY <1>1, <1>2 DEF UnlistedIsEmpty, Surplus

(* What a removal that has read the list leaves behind.                    *)
LEMMA LeftSweep ==
    ASSUME Typed, UnlistedIsEmpty, NEW w \in sweeps,
           NEW todo \in SUBSET Torrents, Left(w, todo)
    PROVE  /\ UnlistedIsEmpty'
           /\ todo # {} => \E v \in sweeps' : v.listed /\ v.todo = todo
           /\ \A v \in sweeps : v # w => v \in sweeps'
<1> DEFINE v == [w EXCEPT !.listed = TRUE, !.todo = todo]
<1>1. w \in SweepType
  BY DEF Typed
<1>2. v.listed = TRUE /\ v.todo = todo
  BY <1>1 DEF SweepType
<1>3. sweeps' = (sweeps \ {w}) \cup (IF todo = {} THEN {} ELSE {v})
  BY DEF Left
<1> HIDE DEF v
<1> QED
  BY <1>2, <1>3 DEF UnlistedIsEmpty

(* No step leaves two torrents there that nobody is to remove.             *)
LEMMA SurplusStep ==
    Typed /\ UnlistedIsEmpty /\ (~unswept => Surplus) /\ [Next]_vars
    => UnlistedIsEmpty' /\ (~unswept' => Surplus')
<1> SUFFICES ASSUME Typed, UnlistedIsEmpty, ~unswept => Surplus, [Next]_vars
             PROVE  UnlistedIsEmpty' /\ (~unswept' => Surplus')
  OBVIOUS
<1> DEFINE goal == UnlistedIsEmpty' /\ (~unswept' => Surplus')
<1>0. DOMAIN torrent = Torrents /\ \A h \in Torrents : torrent[h] \in TorrentType(h)
  BY DEF Typed, TorrentsOK
<1>1. ASSUME NEW h \in Torrents, \/ MetadataArrives(h) \/ RemoveTorrent(h)
                                 \/ PreloadTorrent(h)
                                 \/ \E f \in FilesOf(h) : Download(h, f)
      PROVE  goal
  <2>1. UNCHANGED <<sweeps, unswept>>
    BY <1>1 DEF MetadataArrives, RemoveTorrent, PreloadTorrent, Download, ghosts
  <2>2. Present' \subseteq Present
    BY <1>0, <1>1 DEF MetadataArrives, RemoveTorrent, PreloadTorrent, Download,
                      Present, Delete, Absent, TorrentType
  <2> QED
    BY <2>1, <2>2, SurplusKept
<1>2. ASSUME NEW s \in Streams, NEW h \in Torrents, NEW f \in FilesOf(h),
             StreamBegins(s, h, f)
      PROVE  goal
  BY <1>2, SurplusKept DEF StreamBegins, Present
<1>3. ASSUME NEW s \in Streams, Starting(s) PROVE goal
  <2>1. CASE AddCalled(s) \/ ResumeCalled(s)
    BY <2>1, SurplusSwept DEF AddCalled, ResumeCalled
  <2>2. CASE AddFails(s)
    <3>1. CASE UNCHANGED <<torrent, unswept>>
      BY <2>2, <3>1, SurplusKept DEF AddFails, Present
    <3>2. CASE unswept' = TRUE
      BY <2>2, <3>2 DEF AddFails, UnlistedIsEmpty
    <3> QED
      BY <2>2, <3>1, <3>2 DEF AddFails
  <2> QED
    BY <1>3, <2>1, <2>2 DEF Starting
<1>4. ASSUME NEW s \in Streams, Waiting(s) \/ Serving(s) PROVE goal
  <2>1. UNCHANGED <<sweeps, unswept>>
    BY <1>4 DEF Waiting, Serving, InfoRead, FilesRead, AttemptFails,
                MetadataTimesOut, MayFail, FocusOthers, FocusTarget, FileOpened,
                OpenFails, FirstPieceReady, ReadBegins, ReadReturns, Close, ghosts
  <2>2. CASE UNCHANGED torrent
    BY <2>1, <2>2, SurplusKept DEF Present
  <2>3. CASE FocusOthers(s) \/ FocusTarget(s)
    <3>1. Present' \subseteq Present
      BY <1>0, <2>3 DEF FocusOthers, FocusTarget, Select, Present, TorrentType
    <3> QED
      BY <2>1, <3>1, SurplusKept
  <2>4. CASE Close(s)
    <3>1. Present' \subseteq Present
      BY <1>0, <2>4 DEF Close, Present
    <3> QED
      BY <2>1, <3>1, SurplusKept
  <2> QED
    BY <1>4, <2>2, <2>3, <2>4
    DEF Waiting, Serving, InfoRead, FilesRead, AttemptFails, MetadataTimesOut,
        FileOpened, OpenFails, FirstPieceReady, ReadBegins, ReadReturns
<1>5. ASSUME NEW w \in sweeps, SweepLists(w) PROVE goal
  <2> DEFINE todo == Present \ {w.keep}
  <2>1. Left(w, todo) /\ Present' = Present
    BY <1>5 DEF SweepLists, Present
  <2>2. todo \subseteq Torrents
    BY DEF Present
  <2>3. /\ UnlistedIsEmpty'
        /\ todo # {} => \E v \in sweeps' : v.listed /\ v.todo = todo
    BY <2>1, <2>2, LeftSweep
  <2>4. \A g, h \in Present : g # h => g \in todo \/ h \in todo
    OBVIOUS
  <2> HIDE DEF todo
  <2> QED
    BY <2>1, <2>3, <2>4 DEF Surplus
<1>6. ASSUME NEW w \in sweeps, NEW x \in Torrents, SweepRemoves(w, x) PROVE goal
  <2> DEFINE todo == w.todo \ {x}
  <2>1. w.listed /\ w.todo \subseteq Torrents
    BY <1>6 DEF SweepRemoves, UnlistedIsEmpty, Typed, SweepType
  <2>2. Left(w, todo) /\ UNCHANGED unswept
    BY <1>6 DEF SweepRemoves
  <2>3. /\ UnlistedIsEmpty'
        /\ todo # {} => \E v \in sweeps' : v.listed /\ v.todo = todo
        /\ \A v \in sweeps : v # w => v \in sweeps'
    BY <2>1, <2>2, LeftSweep
  <2>4. Present' = Present \ {x}
    BY <1>0, <1>6 DEF SweepRemoves, Delete, Absent, Present
  <2>5. ASSUME ~unswept', NEW g \in Present', NEW h \in Present', g # h
        PROVE  \E v \in sweeps' : ~v.listed \/ g \in v.todo \/ h \in v.todo
    <3>1. PICK v \in sweeps : ~v.listed \/ g \in v.todo \/ h \in v.todo
      BY <2>2, <2>4, <2>5 DEF Surplus
    <3>2. CASE v = w
      <4>1. g \in todo \/ h \in todo
        BY <2>1, <2>4, <2>5, <3>1, <3>2
      <4> HIDE DEF todo
      <4> QED
        BY <2>3, <4>1
    <3>3. CASE v # w
      BY <2>3, <3>1, <3>3
    <3> QED
      BY <3>2, <3>3
  <2> QED
    BY <2>3, <2>5 DEF Surplus
<1>7. ASSUME NEW w \in sweeps, SweepFails(w) PROVE goal
  <2>1. unswept' = TRUE /\ \E todo \in SUBSET Torrents : Left(w, todo)
    BY <1>7 DEF SweepFails, Typed, SweepType
  <2> QED
    BY <2>1, LeftSweep
<1>8. CASE UNCHANGED vars
  BY <1>8, SurplusKept DEF vars, ghosts, Present
<1> QED
  BY <1>1, <1>2, <1>3, <1>4, <1>5, <1>6, <1>7, <1>8 DEF Next, Sweep

----------------------------------------------------------------------------
(* The steps that are no request's.                                        *)
OtherStep ==
    \/ \E h \in Torrents : \/ MetadataArrives(h) \/ (\E f \in FilesOf(h) : Download(h, f))
                           \/ RemoveTorrent(h) \/ PreloadTorrent(h)
    \/ \E w \in sweeps : Sweep(w)
    \/ UNCHANGED vars

(* They end no request, nor start one.                                     *)
LEMMA OtherRequests ==
    ASSUME OtherStep
    PROVE  UNCHANGED <<stream, played>> /\ removed \subseteq removed'
BY DEF OtherStep, MetadataArrives, Download, RemoveTorrent, PreloadTorrent, Delete,
       Sweep, SweepLists, SweepRemoves, SweepFails, ghosts, vars

(* What has been asked for stays so.                                       *)
LEMMA PlayedStep == Typed /\ PlayedOK /\ [Next]_vars => PlayedOK'
<1> SUFFICES ASSUME Typed, PlayedOK, [Next]_vars PROVE PlayedOK'
  OBVIOUS
<1>1. CASE OtherStep
  BY <1>1, OtherRequests DEF PlayedOK, Open
<1>2. ASSUME NEW s \in Streams, Starting(s) \/ Waiting(s) \/ Serving(s)
      PROVE  PlayedOK'
  <2>1. /\ Open(s) /\ UNCHANGED played
        /\ \/ stream' = [stream EXCEPT ![s] = NoStream]
           \/ \E st, w : stream' = [stream EXCEPT ![s] = Put(s, st, w)]
    BY <1>2, RequestStep DEF End
  <2> SUFFICES ASSUME NEW q \in Streams, Open(q)'
               PROVE  stream'[q].file \in played[stream'[q].hash]
    BY <2>1 DEF PlayedOK
  <2>2. CASE q # s
    BY <2>1, <2>2 DEF PlayedOK, Open, Typed, StreamsOK
  <2>3. CASE q = s
    BY <2>1, <2>3 DEF PlayedOK, Open, Typed, StreamsOK, NoStream, Put
  <2> QED
    BY <2>2, <2>3
<1>3. ASSUME NEW s \in Streams, NEW h \in Torrents, NEW f \in FilesOf(h),
             StreamBegins(s, h, f)
      PROVE  PlayedOK'
  <2>1. /\ played' = [played EXCEPT ![h] = played[h] \cup {f}]
        /\ \A q \in Streams \ {s} : stream'[q] = stream[q]
        /\ stream'[s].hash = h /\ stream'[s].file = f
    BY <1>3 DEF StreamBegins, Typed, StreamsOK
  <2>2. \A g \in Torrents : played[g] \subseteq played'[g] /\ played'[g] \subseteq FilesOf(g)
    BY <2>1 DEF PlayedOK
  <2>3. \A q \in Streams : Open(q) => stream[q].hash \in Torrents
    BY OpenStream DEF Open, Typed
  <2>4. f \in played'[h] /\ DOMAIN played' = Torrents
    BY <2>1 DEF PlayedOK
  <2> QED
    BY <2>1, <2>2, <2>3, <2>4 DEF PlayedOK, Open
<1> QED
  BY <1>1, <1>2, <1>3 DEF Next, OtherStep

(* A file that was the only one asked for stays selected.                  *)
LEMMA SelectedStep ==
    Typed /\ PlayedOK /\ OnlyIsSelected /\ [Next]_vars => OnlyIsSelected'
<1> SUFFICES ASSUME Typed, PlayedOK, OnlyIsSelected, [Next]_vars PROVE OnlyIsSelected'
  OBVIOUS
<1>0. DOMAIN torrent = Torrents /\ \A h \in Torrents : torrent[h] \in TorrentType(h)
  BY DEF Typed, TorrentsOK
<1>1. ASSUME \A h \in Torrents : /\ played[h] \subseteq played'[h]
                                 /\ torrent'[h].sel \in {torrent[h].sel, FilesOf(h)}
      PROVE  OnlyIsSelected'
  BY <1>1 DEF OnlyIsSelected
<1>2. ASSUME NEW h \in Torrents, Delete(h)
      PROVE  \A g \in Torrents : torrent'[g].sel \in {torrent[g].sel, FilesOf(g)}
  BY <1>0, <1>2 DEF Delete, Absent
<1>3. CASE OtherStep
  <2>1. \A g \in Torrents : torrent'[g].sel \in {torrent[g].sel, FilesOf(g)}
    <3>1. \/ UNCHANGED torrent
          \/ \E h \in Torrents : Delete(h) \/ MetadataArrives(h)
          \/ \E h \in Torrents : \E f \in FilesOf(h) : Download(h, f)
      BY <1>3 DEF OtherStep, RemoveTorrent, PreloadTorrent, Sweep, SweepLists,
                  SweepRemoves, SweepFails, vars
    <3>2. ASSUME NEW h \in Torrents, MetadataArrives(h)
          PROVE  \A g \in Torrents : torrent'[g].sel = torrent[g].sel
      BY <1>0, <3>2 DEF MetadataArrives, TorrentType
    <3>3. ASSUME NEW h \in Torrents, NEW f \in FilesOf(h), Download(h, f)
          PROVE  \A g \in Torrents : torrent'[g].sel = torrent[g].sel
      <4>1. torrent' = [torrent EXCEPT ![h] = [torrent[h] EXCEPT
                          !.parts = [torrent[h].parts EXCEPT ![f] = @ + 1]]]
        BY <3>3 DEF Download
      <4> QED
        BY <1>0, <4>1 DEF TorrentType
    <3> QED
      BY <1>2, <3>1, <3>2, <3>3
  <2> QED
    BY <1>1, <1>3, <2>1, OtherRequests
<1>4. ASSUME NEW s \in Streams, NEW h \in Torrents, NEW f \in FilesOf(h),
             StreamBegins(s, h, f)
      PROVE  OnlyIsSelected'
  BY <1>1, <1>4 DEF StreamBegins, PlayedOK
<1>5. ASSUME NEW s \in Streams, Starting(s) \/ Waiting(s) \/ Serving(s)
      PROVE  OnlyIsSelected'
  <2> DEFINE x == stream[s].hash
             y == stream[s].file
  <2>1. Open(s) /\ x \in Torrents /\ UNCHANGED played
    BY <1>5, RequestStep
  <2>2. y \in played[x]
    BY <2>1 DEF PlayedOK
  <2>3. \/ UNCHANGED torrent
        \/ \E st \in {"running", "paused"} : torrent' = [torrent EXCEPT ![x].st = st]
        \/ torrent' = [torrent EXCEPT ![x].sel = torrent[x].sel \cap {y}]
        \/ torrent' = [torrent EXCEPT ![x].sel = torrent[x].sel \cup {y}]
    BY <1>5
    DEF Starting, AddCalled, AddFails, ResumeCalled, Waiting, InfoRead, FilesRead,
        AttemptFails, MetadataTimesOut, FocusOthers, FocusTarget, Select, FileOpened,
        OpenFails, Serving, FirstPieceReady, ReadBegins, ReadReturns, Close
  <2> HIDE DEF x, y
  <2> SUFFICES ASSUME NEW h \in Torrents, NEW f \in FilesOf(h), played[h] \subseteq {f}
               PROVE  f \in torrent'[h].sel
    BY <2>1 DEF OnlyIsSelected
  <2>4. f \in torrent[h].sel
    BY DEF OnlyIsSelected
  <2>5. h = x => y = f
    BY <2>2
  <2> QED
    BY <1>0, <2>1, <2>3, <2>4, <2>5 DEF TorrentType
<1> QED
  BY <1>3, <1>4, <1>5 DEF Next, OtherStep

----------------------------------------------------------------------------
(* A request whose torrent keeps its parts keeps its file.                 *)
LEMMA WholeKept ==
    ASSUME Typed, PlayedOK, WholeIsDownloaded, NEW r \in Streams, Open(r), Marks(r),
           stream'[r].hash = stream[r].hash, stream'[r].file = stream[r].file,
           r \in removed => r \in removed',
           \A h \in Torrents : /\ played[h] \subseteq played'[h]
                              /\ torrent'[h].parts = torrent[h].parts,
           Whole(r)'
    PROVE  FileIsThere(r)'
<1>1. stream[r].hash \in Torrents
  BY OpenStream DEF Open, Typed
<1>2. played[stream[r].hash] = {stream[r].file}
  BY <1>1 DEF PlayedOK, Whole
<1>3. Whole(r)
  BY <1>2 DEF Whole, Marks
<1> QED
  BY <1>1, <1>3 DEF WholeIsDownloaded, FileIsThere

(* A request that is marked is open.                                       *)
LEMMA MarkedIsOpen ==
    ASSUME Typed, NEW r \in Streams, Marks(r)
    PROVE  Open(r) /\ stream[r].hash \in Torrents
<1>1. Open(r)
  <2>1. CASE stream[r] = NoStream
    BY <2>1 DEF Marks, NoStream
  <2>2. CASE stream[r] # NoStream
    BY <2>2 DEF Open, Typed, StreamsOK, StreamType, StreamStates, Starts
  <2> QED
    BY <2>1, <2>2
<1> QED
  BY <1>1, OpenStream DEF Open, Typed

(* A torrent that goes takes the files of its requests along, and they     *)
(* know.                                                                   *)
LEMMA DeleteWhole ==
    ASSUME Typed, WholeIsDownloaded, NEW h \in Torrents, Delete(h),
           UNCHANGED <<stream, played>>
    PROVE  WholeIsDownloaded'
<1> SUFFICES ASSUME NEW r \in Streams, Whole(r)' PROVE FileIsThere(r)'
  BY DEF WholeIsDownloaded
<1>1. Whole(r) /\ r \notin Of(h) /\ FileIsThere(r)
  BY DEF Whole, Delete, WholeIsDownloaded
<1>2. stream[r].hash \in Torrents /\ stream[r].hash # h
  BY <1>1, MarkedIsOpen DEF Whole, Marks, Of
<1> QED
  BY <1>1, <1>2 DEF FileIsThere, Delete, Typed, TorrentsOK

(* Every step keeps the files that are served as they are.                 *)
LEMMA WholeStep ==
    Typed /\ PlayedOK /\ OnlyIsSelected /\ WholeIsDownloaded /\ [Next]_vars
    => WholeIsDownloaded'
<1> SUFFICES ASSUME Typed, PlayedOK, OnlyIsSelected, WholeIsDownloaded, [Next]_vars
             PROVE  WholeIsDownloaded'
  OBVIOUS
<1>1. ASSUME UNCHANGED <<stream, played>>, removed \subseteq removed',
             \A h \in Torrents : \A f \in FilesOf(h) :
               torrent'[h].parts[f] = torrent[h].parts[f] \/ torrent[h].parts[f] # Parts[h][f]
      PROVE  WholeIsDownloaded'
  <2> SUFFICES ASSUME NEW r \in Streams, Whole(r)' PROVE FileIsThere(r)'
    BY DEF WholeIsDownloaded
  <2>1. Whole(r) /\ FileIsThere(r)
    BY <1>1 DEF Whole, WholeIsDownloaded
  <2>2. stream[r].hash \in Torrents /\ stream[r].file \in FilesOf(stream[r].hash)
    BY <2>1, MarkedIsOpen, OpenStream DEF Whole, Marks, Open, Typed
  <2> QED
    BY <1>1, <2>1, <2>2 DEF FileIsThere
<1>2. CASE OtherStep
  <2>1. UNCHANGED <<stream, played>> /\ removed \subseteq removed'
    BY <1>2, OtherRequests
  <2>2. CASE UNCHANGED torrent
    BY <1>1, <2>1, <2>2
  <2>3. ASSUME NEW h \in Torrents, MetadataArrives(h) PROVE WholeIsDownloaded'
    <3>1. \A g \in Torrents : torrent'[g].parts = torrent[g].parts
      BY <2>3 DEF MetadataArrives, Typed, TorrentsOK, TorrentType
    <3> QED
      BY <1>1, <2>1, <3>1
  <2>4. ASSUME NEW h \in Torrents, NEW f \in FilesOf(h), Download(h, f)
        PROVE  WholeIsDownloaded'
    <3>1. torrent[h].parts[f] # Parts[h][f]
      <4>1. torrent[h].parts[f] \in Nat /\ Parts[h][f] \in Nat
        BY PartsAssumption DEF Typed, TorrentsOK, TorrentType, FilesOf
      <4> QED
        BY <2>4, <4>1 DEF Download
    <3>2. torrent' = [torrent EXCEPT ![h] = [torrent[h] EXCEPT
                        !.parts = [torrent[h].parts EXCEPT ![f] = @ + 1]]]
      BY <2>4 DEF Download
    <3>3. \A g \in Torrents : torrent[g] \in TorrentType(g)
      BY DEF Typed, TorrentsOK
    <3>4. \A g \in Torrents : \A e \in FilesOf(g) :
            torrent'[g].parts[e] = torrent[g].parts[e] \/ (g = h /\ e = f)
      BY <3>2, <3>3 DEF Typed, TorrentsOK, TorrentType
    <3> QED
      BY <1>1, <2>1, <3>1, <3>4
  <2>5. ASSUME NEW h \in Torrents, Delete(h) PROVE WholeIsDownloaded'
    BY <2>1, <2>5, DeleteWhole
  <2> QED
    BY <1>2, <2>2, <2>3, <2>4, <2>5
    DEF OtherStep, RemoveTorrent, PreloadTorrent, Sweep, SweepLists, SweepRemoves,
        SweepFails, vars
<1>3. ASSUME NEW s \in Streams, NEW h \in Torrents, NEW f \in FilesOf(h),
             StreamBegins(s, h, f)
      PROVE  WholeIsDownloaded'
  <2> SUFFICES ASSUME NEW q \in Streams, Whole(q)' PROVE FileIsThere(q)'
    BY DEF WholeIsDownloaded
  <2>1. UNCHANGED <<torrent, removed>> /\ \A g \in Torrents : played[g] \subseteq played'[g]
    BY <1>3 DEF StreamBegins, PlayedOK
  <2>2. CASE q = s
    BY <1>3, <2>2 DEF StreamBegins, Whole, Typed, StreamsOK
  <2>3. CASE q # s
    <3>1. stream'[q] = stream[q]
      BY <1>3, <2>3 DEF StreamBegins, Typed, StreamsOK
    <3>2. Marks(q)
      BY <3>1 DEF Whole, Marks
    <3> QED
      BY <2>1, <3>1, <3>2, MarkedIsOpen, WholeKept
  <2> QED
    BY <2>2, <2>3
<1>4. ASSUME NEW s \in Streams, Starting(s) \/ Waiting(s) \/ Serving(s)
      PROVE  WholeIsDownloaded'
  <2> SUFFICES ASSUME NEW q \in Streams, Whole(q)' PROVE FileIsThere(q)'
    BY DEF WholeIsDownloaded
  <2> DEFINE h == stream[s].hash
             f == stream[s].file
  <2>1. /\ Open(s) /\ h \in Torrents /\ f \in FilesOf(h) /\ UNCHANGED played
        /\ \A g \in Torrents : torrent'[g].parts = torrent[g].parts
    BY <1>4, RequestStep
  <2>2. removed \ {s} \subseteq removed' /\ \A r \in Streams \ {s} : stream'[r] = stream[r]
    BY <1>4, RequestStep DEF End, Typed, StreamsOK
  <2>3. CASE q # s
    <3>1. stream'[q] = stream[q] /\ (q \in removed => q \in removed')
      BY <2>2, <2>3
    <3>2. Marks(q)
      BY <3>1 DEF Whole, Marks
    <3> QED
      BY <2>1, <3>1, <3>2, MarkedIsOpen, WholeKept
  <2>4. CASE q = s
    <3>1. ~End(s)
      BY <2>4 DEF End, Whole, Typed, StreamsOK, NoStream
    <3>2. PICK st \in StreamStates, w \in BOOLEAN :
              /\ stream' = [stream EXCEPT ![s] = Put(s, st, w)]
              /\ w \/ st = "direct" => Marks(s) \/ (UNCHANGED torrent /\ Progress1(h))
      BY <1>4, <3>1, RequestStep
    <3>3. /\ UNCHANGED removed
          /\ stream'[s].hash = h /\ stream'[s].file = f
          /\ stream'[s].whole = w /\ stream'[s].st = st
      BY <1>4, <3>1, <3>2, RequestStep DEF Put, Typed, StreamsOK
    <3>4. Marks(s) \/ (UNCHANGED torrent /\ Progress1(h))
      BY <2>4, <3>2, <3>3 DEF Whole
    <3>5. CASE Marks(s)
      BY <2>1, <2>4, <3>3, <3>5, WholeKept
    <3>6. CASE UNCHANGED torrent /\ Progress1(h)
      <4>1. played[h] = {f}
        BY <2>1, <2>4, <3>3 DEF Whole
      <4>2. f \in torrent[h].sel
        BY <2>1, <4>1 DEF OnlyIsSelected
      <4> QED
        BY <2>4, <3>3, <3>6, <4>2 DEF Progress1, FileIsThere
    <3> QED
      BY <3>4, <3>5, <3>6
  <2> QED
    BY <2>3, <2>4
<1> QED
  BY <1>2, <1>3, <1>4 DEF Next, OtherStep

----------------------------------------------------------------------------
(* The inductive invariant holds before the first request.                 *)
LEMMA InvInit == Init => IInv
<1> SUFFICES ASSUME Init PROVE IInv
  OBVIOUS
<1> USE DEF Init
<1>1. Typed
  <2>1. TorrentsOK
    BY DEF TorrentsOK, TorrentType, Absent
  <2>2. StreamsOK
    BY DEF StreamsOK
  <2> QED
    <3>1. begins \in 0..MaxBegins
      BY BoundAssumption
    <3>2. magnets \subseteq Torrents /\ sweeps \subseteq SweepType
          /\ removed \subseteq Streams
      OBVIOUS
    <3>3. unswept \in BOOLEAN
      OBVIOUS
    <3> QED
      BY <2>1, <2>2, <3>1, <3>2, <3>3 DEF Typed
<1>2. SweepsCounted
  <2>1. ToSweep = {}
    BY DEF ToSweep, NoStream
  <2> QED
    BY <2>1, FS_EmptySet DEF SweepsCounted
<1>3. Present = {}
  BY DEF Present, Absent
<1>4. PlayedOK
  BY DEF PlayedOK, Open, NoStream
<1>5. OnlyIsSelected
  BY DEF OnlyIsSelected, Absent
<1>6. WholeIsDownloaded
  BY DEF WholeIsDownloaded, Whole, NoStream
<1> QED
  BY <1>1, <1>2, <1>3, <1>4, <1>5, <1>6 DEF IInv, UnlistedIsEmpty, Surplus

(* Every step keeps it.                                                    *)
LEMMA InvStep == IInv /\ [Next]_vars => IInv'
BY TypeStep, CountStep, SurplusStep, PlayedStep, SelectedStep, WholeStep DEF IInv

(* The inductive invariant holds in every state.                           *)
LEMMA Invariance == Spec => []IInv
BY InvInit, InvStep, PTL DEF Spec

(* The torrents, requests and removals (qbittorrent.go) keep their types:  *)
(* an open request has its torrent and a file of it, whatever comes and    *)
(* goes, and the removals never run out of numbers.                        *)
THEOREM TypeCorrect == Spec => []TypeOK
<1>1. IInv => TypeOK
  BY TypedIsTypeOK DEF IInv
<1> QED
  BY <1>1, Invariance, PTL

(* When no removal is under way and none failed, removeOtherTorrents has   *)
(* left one torrent at most, for any number of streams that start at once. *)
THEOREM SweepsLeaveOne == Spec => []OneTorrentStays
<1>1. IInv => OneTorrentStays
  <2> SUFFICES ASSUME IInv, sweeps = {}, ~unswept
               PROVE  Cardinality(Present) <= 1
    BY DEF OneTorrentStays
  <2>1. \A g, h \in Present : g = h
    BY DEF IInv, Surplus
  <2>2. Present = {} \/ \E h : Present = {h}
    BY <2>1
  <2> QED
    <3>1. CASE Present = {}
      BY <3>1, FS_EmptySet
    <3>2. ASSUME NEW h, Present = {h} PROVE Cardinality(Present) <= 1
      <4>1. Cardinality({h}) = 1
        BY FS_Singleton
      <4> QED
        BY <3>2, <4>1
    <3> QED
      BY <2>2, <3>1, <3>2
<1> QED
  BY <1>1, Invariance, PTL

(* A file that StreamFile returns without a piece reader (qbittorrent.go   *)
(* :326) is all there, if no other file of its torrent has ever been       *)
(* played: it was selected whenever the progress was read.  (Or its        *)
(* torrent has been removed under the request.)                            *)
THEOREM DirectIsWhole == Spec => []DirectIsDownloaded
<1>1. IInv => DirectIsDownloaded
  BY DEF IInv, WholeIsDownloaded, Whole, FileIsThere, DirectIsDownloaded
<1> QED
  BY <1>1, Invariance, PTL
=============================================================================
