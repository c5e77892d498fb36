-------------------------- MODULE PieceReaderProofs --------------------------
(***************************************************************************)
(* Proofs about PieceReader, for every layout of a file in its torrent,    *)
(* every buffer length and every Range header an int64 can carry.          *)
(***************************************************************************)
EXTENDS PieceReader, TLAPS

(* A range that is not refused lies in the file and is not empty, so the   *)
(* seek and the length computed from it are sound: for every header and    *)
(* size an int64 holds, a negative suffix and a difference that overflows  *)
(* included.                                                               *)
THEOREM RangeInBounds ==
    \A h \in Headers : \A total \in 0..MaxInt :
        ~Refused(h, total) => /\ 0 <= Start(h, total)
                              /\ Start(h, total) <= Stop(h, total)
                              /\ Stop(h, total) < total
<1> SUFFICES ASSUME NEW h \in Headers, NEW total \in 0..MaxInt,
                    ~Refused(h, total)
             PROVE  /\ 0 <= Start(h, total)
                    /\ Start(h, total) <= Stop(h, total)
                    /\ Stop(h, total) < total
  OBVIOUS
<1>1. h.first \in 0..MaxInt /\ h.last \in Ints
  BY DEF Headers
<1>2. Start(h, total) \in Int /\ 0 <= Start(h, total)
  BY <1>1, MaxIntAssumption DEF Start, Wrap, Ints
<1>3. End(h, total) \in Int
  BY <1>1, MaxIntAssumption DEF End, Ints
<1> QED
  BY <1>2, <1>3, MaxIntAssumption DEF Refused, Stop

(* What is served is what was asked for, and only an empty request is      *)
(* refused: the clamping of long suffixes and of ends past the file loses  *)
(* and adds nothing, and a suffix with a sign of its own is no range,      *)
(* unless it is so long that the subtraction overflows.                    *)
THEOREM RangeExact ==
    \A h \in Headers : \A total \in 0..MaxInt :
        ~Overflows(h, total)
        => Requested(h, total) = IF Refused(h, total) THEN {}
                                 ELSE Start(h, total)..Stop(h, total)
<1> SUFFICES ASSUME NEW h \in Headers, NEW total \in 0..MaxInt,
                    ~Overflows(h, total)
             PROVE  Requested(h, total) = IF Refused(h, total) THEN {}
                                          ELSE Start(h, total)..Stop(h, total)
  OBVIOUS
<1>1. h.first \in 0..MaxInt /\ h.last \in Ints
      /\ h.form \in {"malformed", "suffix", "from", "both"}
  BY DEF Headers
<1>2. CASE h.form = "malformed"
  BY <1>2 DEF Requested, Refused
<1>3. CASE h.form = "suffix"
  BY <1>1, <1>3, MaxIntAssumption
  DEF Overflows, Requested, Refused, Start, Stop, End, Wrap, Ints
<1>4. CASE h.form \in {"from", "both"}
  BY <1>1, <1>4, MaxIntAssumption DEF Requested, Refused, Start, Stop, End, Ints
<1> QED
  BY <1>1, <1>2, <1>3, <1>4

----------------------------------------------------------------------------

(* A later byte is in no earlier piece.                                    *)
LEMMA PieceMonotone ==
    ASSUME NEW a \in Nat, NEW b \in Nat, a <= b
    PROVE  Piece(a) \in Nat /\ Piece(b) \in Nat /\ Piece(a) <= Piece(b)
BY LayoutAssumption DEF Piece

Reading == pc \in {"reading", "waiting", "copying"}

(* From the position on, every piece up to lastPieceOK is there.           *)
RunIsThere ==
    /\ Reading => \A i \in Nat : Piece(pos) <= i /\ i <= lastPieceOK => i \in have
    /\ pc = "copying" => Piece(pos) <= lastPieceOK

(* The inductive invariant.                                                *)
IInv == TypeOK /\ RunIsThere /\ BodyIsTheRange /\ (pc = "idle" => sent = {})

(* The inductive invariant holds before the first request.                 *)
LEMMA InvInit == Init => IInv
<1> SUFFICES ASSUME Init PROVE IInv
  OBVIOUS
<1>1. TypeOK
  BY LayoutAssumption DEF Init, TypeOK
<1> QED
  BY <1>1 DEF Init, IInv, RunIsThere, Reading, BodyIsTheRange

(* What a request sets up is sound when it is a part of the file.          *)
LEMMA BeginInv ==
    ASSUME IInv, NEW a \in Int, NEW b \in Int, 0 <= a, a <= b, b < FileSize,
           pos' = a, left' = b - a + 1, asked' = a..b,
           pc' \in {"direct", "first"}, sent = {}, UNCHANGED <<have, lastPieceOK, sent>>
    PROVE  IInv'
<1> USE LayoutAssumption DEF IInv
<1>1. pos' \in 0..FileSize /\ left' \in 0..FileSize
  OBVIOUS
<1>2. asked' \subseteq 0..(FileSize - 1)
  OBVIOUS
<1>3. TypeOK'
  BY <1>1, <1>2 DEF TypeOK
<1>4. RunIsThere'
  BY DEF RunIsThere, Reading
<1>5. BodyIsTheRange'
  <2>1. pos' + left' - 1 = b
    OBVIOUS
  <2>2. pos'..(pos' + left' - 1) = asked'
    BY <2>1
  <2>3. asked' # {}
    <3>1. a \in asked'
      OBVIOUS
    <3> QED
      BY <3>1
  <2> HIDE LayoutAssumption
  <2> QED
    BY <2>2, <2>3 DEF BodyIsTheRange
<1> QED
  BY <1>3, <1>4, <1>5

(* The part a Range header asks for is one.                                *)
LEMMA OpenRangeInv ==
    ASSUME IInv, NEW h \in Headers, ~Overflows(h, FileSize), OpenRange(h)
    PROVE  IInv'
<1> USE LayoutAssumption DEF IInv
<1>1. FileSize \in 0..MaxInt /\ MaxInt \in Nat
  BY MaxIntAssumption
<1>2. asked' = IF Refused(h, FileSize) THEN {}
               ELSE Start(h, FileSize)..Stop(h, FileSize)
  BY <1>1, RangeExact DEF OpenRange
<1>3. /\ UNCHANGED <<have, lastPieceOK, sent>>
      /\ pc = "idle" /\ sent = {}
  BY DEF OpenRange
<1>4. CASE Refused(h, FileSize)
  BY <1>2, <1>3, <1>4 DEF OpenRange, TypeOK, RunIsThere, Reading, BodyIsTheRange
<1>5. CASE ~Refused(h, FileSize)
  <2> DEFINE first == Start(h, FileSize)
             last == Stop(h, FileSize)
  <2>1. first \in Int /\ last \in Int
    BY <1>1 DEF Headers, Start, Stop, End, Wrap, Ints
  <2>2. 0 <= first /\ first <= last /\ last < FileSize
    BY <1>1, <1>5, RangeInBounds
  <2>3. pos' = first /\ left' = last - first + 1 /\ pc' \in {"direct", "first"}
    BY <1>5 DEF OpenRange, Begin
  <2>4. asked' = first..last
    BY <1>2, <1>5
  <2> HIDE DEF first, last
  <2> QED
    BY <1>3, <2>1, <2>2, <2>3, <2>4, BeginInv
<1> QED
  BY <1>4, <1>5

(* Every step of the reader, the player and qBittorrent keeps it.          *)
LEMMA InvStep == IInv /\ [Next]_vars => IInv'
<1> SUFFICES ASSUME IInv, [Next]_vars PROVE IInv'
  OBVIOUS
<1> USE LayoutAssumption DEF IInv
<1>0. Piece(pos) \in Nat
  BY PieceMonotone DEF TypeOK
<1>1. ASSUME NEW i \in Wanted, Download(i) PROVE IInv'
  <2>1. i \in Pieces
    BY <1>1, PieceMonotone DEF Wanted, Pieces, Piece
  <2> QED
    BY <1>1, <2>1 DEF Download, TypeOK, RunIsThere, Reading, BodyIsTheRange
<1>2. CASE OpenWhole
  BY <1>2, BeginInv DEF OpenWhole, Begin
<1>3. ASSUME NEW h \in Headers, ~Overflows(h, FileSize), OpenRange(h) PROVE IInv'
  BY <1>3, OpenRangeInv
<1>4. CASE FirstPieceReady
  BY <1>0, <1>4 DEF FirstPieceReady, TypeOK, RunIsThere, Reading, BodyIsTheRange
<1>5. CASE ReadBegins
  BY <1>0, <1>5 DEF ReadBegins, TypeOK, RunIsThere, Reading, BodyIsTheRange
<1>6. CASE WaitForPiece
  BY <1>0, <1>6
  DEF WaitForPiece, LastOfRun, Pieces, TypeOK, RunIsThere, Reading, BodyIsTheRange
<1>7. CASE Copy
  <2>1. PICK n \in 1..MaxRead : n <= left /\ pos' = pos + n /\ left' = left - n
    BY <1>7 DEF Copy
  <2>2. pos + left <= FileSize
    BY <1>7 DEF Copy, BodyIsTheRange, TypeOK
  <2>3. TypeOK'
    BY <1>7, <2>1, <2>2 DEF Copy, TypeOK
  <2>4. Piece(pos) <= Piece(pos') /\ Piece(pos') \in Nat
    BY <2>1, PieceMonotone DEF TypeOK
  <2>5. RunIsThere'
    BY <1>0, <1>7, <2>4 DEF Copy, RunIsThere, Reading, Piece
  <2>6. BodyIsTheRange'
    BY <1>7, <2>1 DEF Copy, BodyIsTheRange, TypeOK
  <2>7. pc' # "idle"
    BY <1>7 DEF Copy
  <2> QED
    BY <2>3, <2>5, <2>6, <2>7
<1>8. CASE EndOfFile
  BY <1>8 DEF EndOfFile, TypeOK, RunIsThere, Reading, BodyIsTheRange
<1>9. CASE Close
  BY <1>9 DEF Close, TypeOK, RunIsThere, Reading, BodyIsTheRange
<1>10. CASE UNCHANGED vars
  BY <1>10 DEF vars, TypeOK, RunIsThere, Reading, BodyIsTheRange, Piece
<1> QED
  BY <1>1, <1>2, <1>3, <1>4, <1>5, <1>6, <1>7, <1>8, <1>9, <1>10
  DEF Next, ReaderStep

(* The inductive invariant holds in every state.                           *)
LEMMA Invariance == Spec => []IInv
BY InvInit, InvStep, PTL DEF Spec

(* The position, the rest and the checked run of a stream (qbittorrent.go) *)
(* keep their types.                                                       *)
THEOREM TypeCorrect == Spec => []TypeOK
<1>1. IInv => TypeOK
  BY DEF IInv
<1> QED
  BY <1>1, Invariance, PTL

(* Every Read begins in a piece that is there.                             *)
THEOREM ReadsStartDownloaded == Spec => []StartsDownloaded
<1>1. IInv => StartsDownloaded
  BY PieceMonotone DEF IInv, TypeOK, RunIsThere, Reading, StartsDownloaded
<1> QED
  BY <1>1, Invariance, PTL

(* The body of every response is the range its request asked for.          *)
THEOREM ServesTheRange == Spec => []BodyIsTheRange
<1>1. IInv => BodyIsTheRange
  BY DEF IInv
<1> QED
  BY <1>1, Invariance, PTL
=============================================================================
