----------------------------- MODULE QbitEngine -----------------------------
(***************************************************************************)
(* Streams over qBittorrent (internal/engine/qbittorrent.go): StreamFile   *)
(* adds or resumes a torrent, has all others removed in the background,    *)
(* waits for the metadata, has only the file asked for downloaded, waits   *)
(* for it and its first piece, and returns a reader that waits for the     *)
(* rest and pauses the torrent when it is closed.  Every call to           *)
(* qBittorrent is a step; streams and removals under way interleave at     *)
(* will.                                                                   *)
(*                                                                         *)
(* A file comes in two parts, the first piece asked for and the rest, or   *)
(* in one when the first piece is all of it.                               *)
(***************************************************************************)
EXTENDS Naturals, FiniteSets, FiniteSetsExt

CONSTANTS
    Torrents,  \* info hashes
    NoHash,
    Parts,     \* Parts[h][f]: the parts of file f of torrent h, 1 or 2
    Streams,   \* requests for /stream the bridge can be in at once, numbered
    Failing,   \* the calls to qBittorrent that may fail
    MaxBegins  \* bound: requests made

ASSUME HashAssumption == NoHash \notin Torrents
ASSUME PartsAssumption ==
    /\ DOMAIN Parts = Torrents
    /\ \A h \in Torrents : /\ DOMAIN Parts[h] \subseteq Nat /\ DOMAIN Parts[h] # {}
                           /\ Parts[h] \in [DOMAIN Parts[h] -> 1..2]
ASSUME StreamsAssumption == Streams \subseteq Nat
ASSUME FailingAssumption ==
    Failing \subseteq {"add", "resume", "info", "focus", "pause", "list", "remove"}
ASSUME BoundAssumption == MaxBegins \in Nat

VARIABLES
    magnets,    \* QBittorrentAdapter.magnets
    torrent,    \* the torrents of qBittorrent
    stream,     \* the requests, in StreamFile and after
    sweeps,     \* removeOtherTorrents goroutines
    begins,     \* requests made so far
    played,     \* ghost: played[h], the files of h requested so far
    removed,    \* ghost: the open requests whose torrent was removed since they began
    unswept     \* ghost: a removal was given up, or never started

ghosts == <<played, removed, unswept>>
vars == <<magnets, torrent, stream, sweeps, begins, ghosts>>

FilesOf(h) == DOMAIN Parts[h]

(* sel: the files that are to be downloaded, all of them at first.         *)
Absent(h) == [st |-> "absent", meta |-> FALSE, sel |-> FilesOf(h),
              parts |-> [f \in FilesOf(h) |-> 0]]

NoStream == [st |-> "idle", hash |-> NoHash, file |-> 0, whole |-> FALSE]

(* Where StreamFile is, up to "first"; from "listing" on it has read the   *)
(* progress, "whole" if that was 1.  Then where the response is: sending   *)
(* between two Reads, blocked in one, finished after the last, or direct   *)
(* from a file that is served as it is.                                    *)
Starts == {"adding", "resuming", "metadata", "listing", "found", "focusing", "opening"}
StreamStates == Starts \cup {"first", "sending", "blocked", "finished", "direct"}

Init ==
    /\ magnets = {}
    /\ torrent = [h \in Torrents |-> Absent(h)]
    /\ stream = [s \in Streams |-> NoStream]
    /\ sweeps = {}
    /\ begins = 0
    /\ played = [h \in Torrents |-> {}]
    /\ removed = {}
    /\ unswept = FALSE

Present == {h \in Torrents : torrent[h].st # "absent"}

Open(s) == stream[s].st # "idle"

Of(h) == {s \in Streams : stream[s].hash = h}

Goto(s, st) == stream' = [stream EXCEPT ![s].st = st]

(* The request ends.                                                       *)
End(s) ==
    /\ stream' = [stream EXCEPT ![s] = NoStream]
    /\ removed' = removed \ {s}

(* A torrent is deleted with its data.                                     *)
Delete(h) ==
    /\ torrent' = [torrent EXCEPT ![h] = Absent(h)]
    /\ removed' = removed \cup Of(h)

----------------------------------------------------------------------------
(* qBittorrent works on the torrents that are not paused, and in them on   *)
(* the files that are selected.                                            *)
MetadataArrives(h) ==
    /\ torrent[h].st = "running"
    /\ ~torrent[h].meta
    /\ torrent' = [torrent EXCEPT ![h].meta = TRUE]
    /\ UNCHANGED <<magnets, stream, sweeps, begins, ghosts>>

Download(h, f) ==
    /\ torrent[h].st = "running"
    /\ torrent[h].meta
    /\ f \in torrent[h].sel
    /\ torrent[h].parts[f] < Parts[h][f]
    /\ torrent' = [torrent EXCEPT ![h].parts[f] = @ + 1]
    /\ UNCHANGED <<magnets, stream, sweeps, begins, ghosts>>

(* progress of qBittorrent: of what is selected, if anything is, all is    *)
(* there.                                                                  *)
Progress1(h) ==
    /\ torrent[h].meta /\ torrent[h].sel # {}
    /\ \A f \in torrent[h].sel : torrent[h].parts[f] = Parts[h][f]

(* RemoveTorrent, called by the API or by the cache manager.               *)
RemoveTorrent(h) ==
    /\ h \in Present
    /\ Delete(h)
    /\ UNCHANGED <<magnets, stream, sweeps, begins, played, unswept>>

(* A list of streams is shown: the magnet is kept for the click.  (One no  *)
(* click takes makes no difference, so there are no more than clicks.)     *)
PreloadTorrent(h) ==
    /\ Cardinality(magnets) < MaxBegins - begins
    /\ magnets' = magnets \cup {h}
    /\ UNCHANGED <<torrent, stream, sweeps, begins, ghosts>>

----------------------------------------------------------------------------
(* (Which of the idle slots a request gets makes no difference.)           *)
StreamBegins(s, h, f) ==
    /\ \E r \in Streams : ~Open(r)
    /\ s = Min({r \in Streams : ~Open(r)})
    /\ begins < MaxBegins
    /\ begins' = begins + 1
    /\ stream' = [stream EXCEPT ![s] =
                    [st |-> IF h \in magnets THEN "adding" ELSE "resuming",
                     hash |-> h, file |-> f, whole |-> FALSE]]
    /\ magnets' = magnets \ {h}
    /\ played' = [played EXCEPT ![h] = @ \cup {f}]
    /\ UNCHANGED <<torrent, sweeps, removed, unswept>>

NewSweep(keep) ==
    [n |-> CHOOSE i \in 1..MaxBegins : \A w \in sweeps : w.n # i,
     keep |-> keep, listed |-> FALSE, todo |-> {}]

(* Variant: the sweep is given no hash to keep.                            *)
StartSweep_KeepsNone(h) == sweeps' = sweeps \cup {NewSweep(NoHash)}

StartSweep(h) == sweeps' = sweeps \cup {NewSweep(h)}

(* A torrent that is there already stays as it is, paused if it was: it is *)
(* not resumed.  A refusal with a status is not looked at.                 *)
AddCalled(s) ==
    /\ stream[s].st = "adding"
    /\ LET h == stream[s].hash
       IN  /\ \/ h \notin Present /\ torrent' = [torrent EXCEPT ![h].st = "running"]
              \/ (h \in Present \/ "add" \in Failing) /\ UNCHANGED torrent
           /\ StartSweep(h)
    /\ Goto(s, "metadata")
    /\ UNCHANGED <<magnets, begins, ghosts>>

(* The call fails, before or after qBittorrent did what it was asked.      *)
AddFails(s) ==
    /\ "add" \in Failing
    /\ stream[s].st = "adding"
    /\ \/ UNCHANGED <<torrent, unswept>>
       \/ /\ stream[s].hash \notin Present
          /\ torrent' = [torrent EXCEPT ![stream[s].hash].st = "running"]
          /\ unswept' = TRUE
    /\ End(s)
    /\ UNCHANGED <<magnets, sweeps, begins, played>>

(* What comes of the call is ignored, and so is a torrent that is absent.  *)
ResumeCalled(s) ==
    /\ stream[s].st = "resuming"
    /\ LET h == stream[s].hash
       IN  /\ \/ h \in Present /\ torrent' = [torrent EXCEPT ![h].st = "running"]
              \/ (h \notin Present \/ "resume" \in Failing) /\ UNCHANGED torrent
           /\ StartSweep(h)
    /\ Goto(s, "metadata")
    /\ UNCHANGED <<magnets, begins, ghosts>>

(* Variant: a torrent that has started is taken for one that is complete.  *)
InfoRead_Started(s) ==
    /\ stream[s].st = "metadata"
    /\ LET t == torrent[stream[s].hash]
       IN  /\ stream[s].hash \in Present
           /\ stream' = [stream EXCEPT ![s].st = "listing",
                  ![s].whole = t.meta /\ \A f \in t.sel : t.parts[f] > 0]
    /\ UNCHANGED <<magnets, torrent, sweeps, begins, ghosts>>

(* An attempt of the loop that waits for the metadata: getTorrentInfo, and *)
(* with it the progress.  It is of the files that are selected, which may  *)
(* be those of other requests.                                             *)
InfoRead(s) ==
    /\ stream[s].st = "metadata"
    /\ stream[s].hash \in Present
    /\ stream' = [stream EXCEPT ![s].st = "listing",
                                ![s].whole = Progress1(stream[s].hash)]
    /\ UNCHANGED <<magnets, torrent, sweeps, begins, ghosts>>

(* getFiles: the list is there, with the file in it.                       *)
FilesRead(s) ==
    /\ stream[s].st = "listing"
    /\ torrent[stream[s].hash].meta
    /\ Goto(s, "found")
    /\ UNCHANGED <<magnets, torrent, sweeps, begins, ghosts>>

(* The attempt s makes, or is about to make, comes to nothing.  (So do all *)
(* those for a file the torrent has not; that is as if the calls failed.)  *)
MayFail(s) ==
    /\ stream[s].st \in {"metadata", "listing"}
    /\ ~torrent[stream[s].hash].meta \/ "info" \in Failing

(* It is made again a second later.                                        *)
AttemptFails(s) ==
    /\ MayFail(s) /\ stream[s].st = "listing"
    /\ stream' = [stream EXCEPT ![s].st = "metadata", ![s].whole = FALSE]
    /\ UNCHANGED <<magnets, torrent, sweeps, begins, ghosts>>

(* Variant: the deadline is looked at only when the torrent is found.      *)
MetadataTimesOut_Found(s) ==
    /\ MayFail(s)
    /\ stream[s].hash \in Present
    /\ End(s)
    /\ UNCHANGED <<magnets, torrent, sweeps, begins, played, unswept>>

(* The deadline is looked at after each attempt that failed.               *)
MetadataTimesOut(s) ==
    /\ MayFail(s)
    /\ End(s)
    /\ UNCHANGED <<magnets, torrent, sweeps, begins, played, unswept>>

(* A call that selects files; it may fail, and nobody sees it.             *)
Select(h, sel) ==
    \/ torrent[h].meta /\ torrent' = [torrent EXCEPT ![h].sel = sel]
    \/ (~torrent[h].meta \/ "focus" \in Failing) /\ UNCHANGED torrent

(* focusFile: first all other files of the torrent are taken off, those of *)
(* other players too.                                                      *)
FocusOthers(s) ==
    LET h == stream[s].hash
    IN  /\ stream[s].st = "found"
        /\ FilesOf(h) # {stream[s].file}
        /\ Select(h, torrent[h].sel \cap {stream[s].file})
        /\ Goto(s, "focusing")
        /\ UNCHANGED <<magnets, sweeps, begins, ghosts>>

(* Then the file asked for is put on.                                      *)
FocusTarget(s) ==
    LET h == stream[s].hash
    IN  /\ \/ stream[s].st = "focusing"
           \/ stream[s].st = "found" /\ FilesOf(h) = {stream[s].file}
        /\ Select(h, torrent[h].sel \cup {stream[s].file})
        /\ Goto(s, IF stream[s].whole THEN "direct" ELSE "opening")
        /\ UNCHANGED <<magnets, sweeps, begins, ghosts>>

(* The piece size is known, and the file is on disk.                       *)
FileOpened(s) ==
    /\ stream[s].st = "opening"
    /\ LET t == torrent[stream[s].hash]
       IN  \/ t.st = "running" /\ stream[s].file \in t.sel
           \/ t.parts[stream[s].file] > 0
    /\ Goto(s, "first")
    /\ UNCHANGED <<magnets, torrent, sweeps, begins, ghosts>>

(* No piece size or no file in time, or a Range that is refused: the       *)
(* torrent is left as it is.                                               *)
OpenFails(s) ==
    /\ stream[s].st \in {"opening", "direct"}
    /\ End(s)
    /\ UNCHANGED <<magnets, torrent, sweeps, begins, played, unswept>>

(* The wait for the first piece has no limit: it ends when the piece is    *)
(* there.                                                                  *)
FirstPieceReady(s) ==
    /\ stream[s].st = "first"
    /\ torrent[stream[s].hash].parts[stream[s].file] > 0
    /\ Goto(s, "sending")
    /\ UNCHANGED <<magnets, torrent, sweeps, begins, ghosts>>

----------------------------------------------------------------------------
(* Read, called by whoever writes the response.                            *)
ReadBegins(s) ==
    /\ stream[s].st = "sending"
    /\ Goto(s, "blocked")
    /\ UNCHANGED <<magnets, torrent, sweeps, begins, ghosts>>

ReadReturns(s) ==
    /\ stream[s].st = "blocked"
    /\ torrent[stream[s].hash].parts[stream[s].file] = Parts[stream[s].hash][stream[s].file]
    /\ Goto(s, "finished")
    /\ UNCHANGED <<magnets, torrent, sweeps, begins, ghosts>>

(* The response has been written, or the player is found to have left:     *)
(* that is seen between two Reads only.  Close pauses the torrent, unless  *)
(* it was served directly, and whoever else watches it.                    *)
Close(s) ==
    /\ stream[s].st \in {"sending", "finished", "direct"}
    /\ LET h == stream[s].hash
       IN  \/ /\ stream[s].st # "direct" /\ h \in Present
              /\ torrent' = [torrent EXCEPT ![h].st = "paused"]
           \/ /\ stream[s].st = "direct" \/ h \notin Present \/ "pause" \in Failing
              /\ UNCHANGED torrent
    /\ End(s)
    /\ UNCHANGED <<magnets, sweeps, begins, played, unswept>>

----------------------------------------------------------------------------
(* w has the torrents of todo left to remove, and ends when there are none. *)
Left(w, todo) ==
    sweeps' = (sweeps \ {w}) \cup
              (IF todo = {} THEN {} ELSE {[w EXCEPT !.listed = TRUE, !.todo = todo]})

(* Variant: a torrent that is streamed by anyone is spared.                *)
SweepLists_SparesStreamed(w) ==
    /\ ~w.listed
    /\ Left(w, Present \ {stream[s].hash : s \in Streams})
    /\ unswept' = FALSE
    /\ UNCHANGED <<magnets, torrent, stream, begins, played, removed>>

(* removeOtherTorrents: the list, then one removal after the other.        *)
SweepLists(w) ==
    /\ ~w.listed
    /\ Left(w, Present \ {w.keep})
    /\ unswept' = FALSE
    /\ UNCHANGED <<magnets, torrent, stream, begins, played, removed>>

SweepRemoves(w, h) ==
    /\ h \in w.todo
    /\ Delete(h)
    /\ Left(w, w.todo \ {h})
    /\ UNCHANGED <<magnets, stream, begins, played, unswept>>

(* A list that fails ends it, a removal that fails is passed over.         *)
SweepFails(w) ==
    /\ \/ ~w.listed /\ "list" \in Failing /\ Left(w, {})
       \/ "remove" \in Failing /\ \E h \in w.todo : Left(w, w.todo \ {h})
    /\ unswept' = TRUE
    /\ UNCHANGED <<magnets, torrent, stream, begins, played, removed>>

Starting(s) == AddCalled(s) \/ AddFails(s) \/ ResumeCalled(s)

Waiting(s) == \/ InfoRead(s) \/ FilesRead(s) \/ AttemptFails(s) \/ MetadataTimesOut(s)
              \/ FocusOthers(s) \/ FocusTarget(s) \/ FileOpened(s) \/ OpenFails(s)

Serving(s) == \/ FirstPieceReady(s) \/ ReadBegins(s) \/ ReadReturns(s)
              \/ Close(s)

Sweep(w) == \/ SweepLists(w) \/ (\E h \in Torrents : SweepRemoves(w, h))
            \/ SweepFails(w)

Next ==
    \/ \E h \in Torrents : \/ MetadataArrives(h) \/ (\E f \in FilesOf(h) : Download(h, f))
                           \/ RemoveTorrent(h) \/ PreloadTorrent(h)
    \/ \E s \in Streams, h \in Torrents : \E f \in FilesOf(h) : StreamBegins(s, h, f)
    \/ \E s \in Streams : Starting(s) \/ Waiting(s) \/ Serving(s)
    \/ \E w \in sweeps : Sweep(w)

Spec == Init /\ [][Next]_vars

(* The requests and the goroutines run, responses are written and          *)
(* qBittorrent downloads what it is to download.  Attempts that keep       *)
(* failing fail past the deadline.                                         *)
Fairness ==
    /\ \A s \in Streams : /\ WF_vars(Starting(s) \/ Waiting(s) \/ Serving(s))
                          /\ WF_vars(MetadataTimesOut(s))
    /\ WF_vars(\E w \in sweeps : Sweep(w))
    /\ \A h \in Torrents :
         WF_vars(MetadataArrives(h) \/ \E f \in FilesOf(h) : Download(h, f))

FairSpec == Spec /\ Fairness

----------------------------------------------------------------------------
(* The types: a request that is open has its torrent, and every sweep the  *)
(* torrent it is to keep.                                                  *)
TypeOK ==
    /\ magnets \subseteq Torrents
    /\ DOMAIN torrent = Torrents
    /\ \A h \in Torrents :
         torrent[h] \in [st : {"absent", "running", "paused"}, meta : BOOLEAN,
                        sel : SUBSET FilesOf(h), parts : [FilesOf(h) -> 0..2]]
    /\ DOMAIN stream = Streams
    /\ \A s \in Streams :
         \/ stream[s] = NoStream
         \/ /\ stream[s] \in [st : StreamStates, hash : Torrents, file : Nat,
                              whole : BOOLEAN]
            /\ stream[s].file \in FilesOf(stream[s].hash)
    /\ sweeps \subseteq [n : 1..MaxBegins, keep : Torrents, listed : BOOLEAN,
                         todo : SUBSET Torrents]
    /\ begins \in 0..MaxBegins
    /\ DOMAIN played = Torrents /\ \A h \in Torrents : played[h] \subseteq FilesOf(h)
    /\ removed \subseteq Streams
    /\ unswept \in BOOLEAN

(* However the removals of several streams overlap, when they are over     *)
(* they have left one torrent at most, unless a call failed and no list    *)
(* was read since: the sweep of the stream that added last has seen all    *)
(* others.                                                                 *)
OneTorrentStays ==
    sweeps = {} /\ ~unswept => Cardinality(Present) <= 1

(* Every response ends, whether the player is there or not; or it waits,   *)
(* with no limit (qbittorrent.go:721), for a piece of a torrent that is    *)
(* gone or paused, or of a file that is not selected.  Nothing brings      *)
(* these back, whoever made them so: another request, a removal, a call    *)
(* that failed, or StreamFile itself, which adds a torrent that is paused  *)
(* without resuming it when it has a magnet for it, although "if the user  *)
(* plays again, StreamFile resumes it" (qbittorrent.go:757).  StreamFile   *)
(* is never stuck before that, and a Read never while the file is coming.  *)
Coming(s) == LET t == torrent[stream[s].hash]
             IN  t.st = "running" /\ stream[s].file \in t.sel

ResponseEnds ==
    \A s \in Streams :
        []<>(Open(s) => stream[s].st \in {"first", "blocked"} /\ ~Coming(s))

(* A file that is served without looking at its pieces is complete, if it  *)
(* is the only one of its torrent ever played: the progress of 1 was then  *)
(* its own (or the torrent has been removed since).                        *)
DirectIsDownloaded ==
    \A s \in Streams :
        LET h == stream[s].hash
            f == stream[s].file
        IN  stream[s].st = "direct" /\ played[h] = {f} /\ s \notin removed
            => torrent[h].parts[f] = Parts[h][f]

(* qbittorrent.go:755: Close pauses the torrent "when the stream ends      *)
(* (user stopped watching / closed tab)": not while another response sends *)
(* of it what has yet to be downloaded.                                    *)
Watched(r) ==
    /\ stream[r].st \in {"sending", "blocked"}
    /\ torrent[stream[r].hash].parts[stream[r].file] < Parts[stream[r].hash][stream[r].file]

PausesOnlyUnwatched ==
    [][\A s \in Streams : Close(s) /\ torrent' # torrent =>
         ~\E r \in Of(stream[s].hash) \ {s} : Watched(r)]_vars
=============================================================================
