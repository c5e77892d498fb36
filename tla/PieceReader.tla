----------------------------- MODULE PieceReader -----------------------------
(***************************************************************************)
(* One stream of a file that qBittorrent is still downloading: the part of *)
(* QBittorrentAdapter.StreamFile from the Range header on, and its         *)
(* pieceAwareReader (internal/engine/qbittorrent.go).  The file lies       *)
(* somewhere in its torrent, so its first and last pieces may hold bytes   *)
(* of other files.                                                         *)
(***************************************************************************)
EXTENDS RangeHeader, FiniteSets

CONSTANTS
    PieceSize,
    FileOffset,    \* where the file begins in the torrent
    FileSize,
    TorrentSize,
    MaxRead        \* the length of the buffer a Read is given

ASSUME LayoutAssumption ==
    /\ PieceSize \in Nat \ {0} /\ FileSize \in Nat \ {0} /\ MaxRead \in Nat \ {0}
    /\ FileOffset \in Nat /\ TorrentSize \in Nat
    /\ FileOffset + FileSize <= TorrentSize
    /\ TorrentSize <= MaxInt

Piece(pos) == (FileOffset + pos) \div PieceSize

Pieces == 0..((TorrentSize - 1) \div PieceSize)

(* The pieces focusFile leaves to be downloaded.                           *)
Wanted == Piece(0)..Piece(FileSize - 1)

VARIABLES
    have,         \* the pieces fetchPieceStates reports as downloaded
    pc,           \* where the stream is
    pos,          \* pieceAwareReader.pos
    left,         \* what is left of the file or of its LimitReader
    lastPieceOK,  \* pieceAwareReader.lastPieceOK
    asked,        \* ghost: the bytes the current request is for
    sent          \* ghost: the bytes that have been served to it

vars == <<have, pc, pos, left, lastPieceOK, asked, sent>>

(* Earlier streams may have left any pieces behind.                        *)
Init ==
    /\ have \in SUBSET Pieces
    /\ pc = "idle"
    /\ pos = 0 /\ left = 0 /\ lastPieceOK = -1
    /\ asked = {} /\ sent = {}

----------------------------------------------------------------------------
(* qBittorrent gets a piece, the first and the last ones early.            *)
Download(i) ==
    /\ i \in Wanted \ have
    /\ have' = have \cup {i}
    /\ UNCHANGED <<pc, pos, left, lastPieceOK, asked, sent>>

(* What may be selected for download when StreamFile reads the progress:   *)
(* any of the files before this one, it and those after it.                *)
Selections ==
    LET before == {Piece(b) : b \in (-FileOffset)..(-1)}
        after == {Piece(b) : b \in FileSize..(TorrentSize - FileOffset - 1)}
    IN  {UNION s : s \in SUBSET {before, Wanted, after}} \ {{}}

(* A torrent whose selected files are complete is served as it is; else    *)
(* the reader waits for the piece of the first byte.                       *)
Begin(start, length) ==
    /\ pos' = start
    /\ left' = length
    /\ \E selected \in Selections :
         pc' = IF selected \subseteq have THEN "direct" ELSE "first"

OpenWhole ==
    /\ pc = "idle"
    /\ Begin(0, FileSize)
    /\ asked' = 0..(FileSize - 1)
    /\ UNCHANGED <<have, lastPieceOK, sent>>

(* Variant: the end of the range is not clamped to the file.               *)
OpenRange_Unclamped(h) ==
    /\ pc = "idle"
    /\ asked' = Requested(h, FileSize)
    /\ IF Refused(h, FileSize)
       THEN pc' = "refused" /\ UNCHANGED <<pos, left>>
       ELSE Begin(Start(h, FileSize), End(h, FileSize) - Start(h, FileSize) + 1)
    /\ UNCHANGED <<have, lastPieceOK, sent>>

OpenRange(h) ==
    /\ pc = "idle"
    /\ asked' = Requested(h, FileSize)
    /\ IF Refused(h, FileSize)
       THEN pc' = "refused" /\ UNCHANGED <<pos, left>>
       ELSE Begin(Start(h, FileSize), Stop(h, FileSize) - Start(h, FileSize) + 1)
    /\ UNCHANGED <<have, lastPieceOK, sent>>

FirstPieceReady ==
    /\ pc = "first"
    /\ Piece(pos) \in have
    /\ pc' = "reading"
    /\ lastPieceOK' = -1
    /\ UNCHANGED <<have, pos, left, asked, sent>>

(* Variant: the piece after the checked run counts as checked.             *)
ReadBegins_OneTooFar ==
    /\ pc = "reading"
    /\ pc' = IF Piece(pos) > lastPieceOK + 1 THEN "waiting" ELSE "copying"
    /\ UNCHANGED <<have, pos, left, lastPieceOK, asked, sent>>

(* Read: on a piece already known to be there, or waitForPiece first.      *)
ReadBegins ==
    /\ pc = "reading"
    /\ pc' = IF Piece(pos) > lastPieceOK THEN "waiting" ELSE "copying"
    /\ UNCHANGED <<have, pos, left, lastPieceOK, asked, sent>>

(* n is the last piece of the run of downloaded pieces that starts at i.   *)
LastOfRun(i, n) == i..n \subseteq have /\ n + 1 \notin have

(* Variant: the run must reach the piece after the one that is read.       *)
WaitForPiece_WantsNext ==
    /\ pc = "waiting"
    /\ Piece(pos) \in have
    /\ \E n \in {m \in Pieces : m > Piece(pos)} :
         LastOfRun(Piece(pos), n) /\ lastPieceOK' = n
    /\ pc' = "copying"
    /\ UNCHANGED <<have, pos, left, asked, sent>>

WaitForPiece ==
    /\ pc = "waiting"
    /\ Piece(pos) \in have
    /\ \E n \in {m \in Pieces : m >= Piece(pos)} :
         LastOfRun(Piece(pos), n) /\ lastPieceOK' = n
    /\ pc' = "copying"
    /\ UNCHANGED <<have, pos, left, asked, sent>>

(* inner.Read: some bytes, at most a buffer full, or the end.              *)
Copy ==
    /\ pc \in {"copying", "direct"}
    /\ left > 0
    /\ \E n \in 1..MaxRead :
         /\ n <= left
         /\ pos' = pos + n
         /\ left' = left - n
         /\ sent' = sent \cup pos..(pos + n - 1)
    /\ pc' = IF pc = "copying" THEN "reading" ELSE "direct"
    /\ UNCHANGED <<have, lastPieceOK, asked>>

EndOfFile ==
    /\ pc \in {"copying", "direct"}
    /\ left = 0
    /\ pc' = "done"
    /\ UNCHANGED <<have, pos, left, lastPieceOK, asked, sent>>

(* The player is served, or leaves, and asks again.  Only between Reads    *)
(* does the server see that it left: nothing ends a wait for a piece.      *)
Close ==
    /\ pc \in {"reading", "direct", "done", "refused"}
    /\ pc' = "idle"
    /\ pos' = 0 /\ left' = 0 /\ lastPieceOK' = -1
    /\ asked' = {} /\ sent' = {}
    /\ UNCHANGED have

ReaderStep == FirstPieceReady \/ ReadBegins \/ WaitForPiece \/ Copy \/ EndOfFile

Next ==
    \/ \E i \in Wanted : Download(i)
    \/ OpenWhole
    \/ \E h \in Headers : ~Overflows(h, FileSize) /\ OpenRange(h)
    \/ ReaderStep
    \/ Close

Spec == Init /\ [][Next]_vars

(* Every wanted piece is downloaded in the end, and whoever writes the     *)
(* response reads the body until its end.                                  *)
FairSpec ==
    /\ Spec
    /\ \A i \in Wanted : WF_vars(Download(i))
    /\ WF_vars(ReaderStep)

----------------------------------------------------------------------------
(* The types: a stream never stands beyond the end of its file, and what   *)
(* is left of its range fits in it.                                        *)
TypeOK ==
    /\ have \subseteq Pieces
    /\ pc \in {"idle", "refused", "first", "reading", "waiting", "copying",
               "direct", "done"}
    /\ pos \in 0..FileSize /\ left \in 0..FileSize
    /\ lastPieceOK \in -1..((TorrentSize - 1) \div PieceSize)
    /\ {asked, sent} \subseteq SUBSET (0..(FileSize - 1))

(* A Read that skips or passes the check of the piece states begins in a   *)
(* downloaded piece, however far the reads before it have jumped and       *)
(* however old the run it was found in is.                                 *)
StartsDownloaded == pc = "copying" /\ left > 0 => Piece(pos) \in have

(* A range is refused when it asks for nothing; else the bytes served and  *)
(* those still to come are those asked for, from the first to the last,    *)
(* none served twice, and the body ends with nothing left of them.         *)
BodyIsTheRange ==
    /\ pc = "refused" => asked = {}
    /\ pc \notin {"idle", "refused"} =>
         /\ asked # {}
         /\ sent \cup pos..(pos + left - 1) = asked
         /\ \A b \in sent : b < pos
         /\ pc = "done" => left = 0

(* A stream that is not closed serves its range to the end.                *)
StreamEnds == pc = "first" ~> pc \in {"done", "idle"}
=============================================================================
