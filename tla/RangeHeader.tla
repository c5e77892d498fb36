----------------------------- MODULE RangeHeader -----------------------------
(***************************************************************************)
(* parseRangeHeader (internal/engine/qbittorrent.go): the bytes of a file  *)
(* an HTTP Range header asks for, in the int64 arithmetic of the code.     *)
(***************************************************************************)
EXTENDS Integers

CONSTANT MaxInt   \* the largest int64

ASSUME MaxIntAssumption == MaxInt \in Nat

Ints == (-MaxInt - 1)..MaxInt

Wrap(x) == IF x > MaxInt THEN x - 2 * (MaxInt + 1)
           ELSE IF x < -MaxInt - 1 THEN x + 2 * (MaxInt + 1)
           ELSE x

(* Of "bytes=first-last,...", the first range.  A header without "-", with *)
(* something else than numbers, or with neither of them, is malformed.     *)
(* What stands before the first "-" has no sign; what follows it may.      *)
Headers == [form : {"malformed", "suffix", "from", "both"},
            first : 0..MaxInt, last : Ints]

(* Variant: the last n bytes are taken to start after byte total - n - 1.  *)
Start_OneEarly(h, total) ==
    IF h.form = "suffix"
    THEN LET s == Wrap(total - h.last - 1) IN IF s < 0 THEN 0 ELSE s
    ELSE h.first

Start(h, total) ==
    IF h.form = "suffix"
    THEN LET s == Wrap(total - h.last) IN IF s < 0 THEN 0 ELSE s
    ELSE h.first

End(h, total) == IF h.form = "both" THEN h.last ELSE total - 1

Refused(h, total) ==
    \/ h.form = "malformed"
    \/ Start(h, total) > End(h, total)
    \/ Start(h, total) >= total

(* The last byte to serve; Start is the first.                             *)
Stop(h, total) == IF End(h, total) >= total THEN total - 1 ELSE End(h, total)

(* A negative suffix so long that the subtraction overflows.  It names no  *)
(* byte, as any negative suffix, and gets the whole file; others are       *)
(* refused.                                                                *)
Overflows(h, total) == h.form = "suffix" /\ total - h.last > MaxInt

----------------------------------------------------------------------------
(* The reference: the bytes of a file of that size the header names.       *)
Requested(h, total) ==
    {b \in 0..(total - 1) :
       CASE h.form = "suffix" -> b >= total - h.last
         [] h.form = "from"   -> b >= h.first
         [] h.form = "both"   -> b >= h.first /\ b <= h.last
         [] OTHER             -> FALSE}
=============================================================================
