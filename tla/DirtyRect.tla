----------------------------- MODULE DirtyRect -----------------------------
(***************************************************************************)
(* VncServer::compare(): one pass over the previously served picture       *)
(* (buffer0) and the served one (buffer1), 32-bit word by 32-bit word,     *)
(* that bounds the words which differ by a rectangle and has libvncserver  *)
(* mark it as modified.  All that compare() sees of the two pictures is    *)
(* which words differ.  A step is one iteration of one of its three loops, *)
(* or the code after them.                                                 *)
(***************************************************************************)
EXTENDS Integers

CONSTANTS Width,    \* words in a row
          Height,   \* rows, mHeight
          Stride,   \* words from one row to the next in a graphic buffer
          Shift     \* 1: two RGB565 pixels in a word, 0: one RGBA pixel

ASSUME WidthAssumption == Width \in 1..9999
ASSUME HeightAssumption == Height \in 1..9999
ASSUME StrideAssumption == Stride \in Nat /\ Stride >= Width
ASSUME ShiftAssumption == Shift \in {0, 1}

VARIABLES diff,     \* the words that differ, by their offset
          offset,   \* buffer0 and buffer1, as an offset
          i, j,     \* the column and row counters of the code
          minX, maxX, minY, maxY,
          pc,       \* the loop the code is in
          region    \* what was marked: x1, y1 inclusive, x2, y2 exclusive

vars == <<diff, offset, i, j, minX, maxX, minY, maxY, pc, region>>

DEFAULT_MIN == 10000
DEFAULT_MAX == -1
Size == Width * Height      \* words compare() looks at
NoRegion == [x1 |-> 0, y1 |-> 0, x2 |-> 0, y2 |-> 0]

\* The words of the picture, and where a word is on the screen.
Words == {w \in 0..(Stride * Height - 1) : w % Stride < Width}
Column(w) == w % Stride
Row(w) == w \div Stride
Pixels == 2^Shift           \* pixels in a word

\* Type invariant: the counters of compare() run at most two rows past the
\* picture, and what is marked lies on the screen.
TypeOK ==
  /\ diff \subseteq Words
  /\ offset \in 0..(Size + Width)
  /\ i \in 0..Width /\ j \in 0..(Height + 2)
  /\ minX \in 0..Width \cup {DEFAULT_MIN} /\ maxX \in DEFAULT_MAX..Width
  /\ minY \in 0..Height \cup {DEFAULT_MIN} /\ maxY \in DEFAULT_MAX..(Height + 1)
  /\ pc \in {"idle", "first", "scan", "lastRow", "mark", "done"}
  /\ region \in [x1 : 0..(Width * Pixels), y1 : 0..Height,
                 x2 : 0..(Width * Pixels), y2 : 0..Height]

Init ==
  /\ diff = {} /\ offset = 0 /\ i = 0 /\ j = 0
  /\ minX = DEFAULT_MIN /\ maxX = DEFAULT_MAX
  /\ minY = DEFAULT_MIN /\ maxY = DEFAULT_MAX
  /\ pc = "idle" /\ region = NoRegion

-----------------------------------------------------------------------------
\* "if (++i >= width) { i = 0; j++; }" from column x of row y
NextI(x) == IF x + 1 >= Width THEN 0 ELSE x + 1
NextJ(x, y) == IF x + 1 >= Width THEN y + 1 ELSE y

\* worker() calls compare() on two pictures that differ in the words d.
Call(d) ==
  /\ pc = "idle"
  /\ diff' = d
  /\ pc' = "first"
  /\ UNCHANGED <<offset, i, j, minX, maxX, minY, maxY, region>>

\* Any of the loops: buffer0 has reached bufEnd.
EndOfBuffer ==
  /\ pc \in {"first", "scan", "lastRow"} /\ offset >= Size
  /\ pc' = "mark"
  /\ UNCHANGED <<diff, offset, i, j, minX, maxX, minY, maxY, region>>

\* First loop: equal words are skipped.
FirstEqual ==
  /\ pc = "first" /\ offset < Size /\ offset \notin diff
  /\ offset' = offset + 1
  /\ i' = NextI(i) /\ j' = NextJ(i, j)
  /\ UNCHANGED <<diff, minX, maxX, minY, maxY, pc, region>>

\* First loop: the first word that differs; i and j are incremented once when
\* they are recorded and then stepped once more.
FirstDiffers ==
  /\ pc = "first" /\ offset < Size /\ offset \in diff
  /\ offset' = offset + 1
  /\ minX' = i /\ maxX' = i
  /\ minY' = j /\ maxY' = j
  /\ i' = NextI(i + 1) /\ j' = NextJ(i + 1, j + 1)
  /\ pc' = "scan"
  /\ UNCHANGED <<diff, region>>

\* Mutant: the buffers are not advanced.
ScanEqualStuck ==
  /\ pc = "scan" /\ offset < Size /\ offset \notin diff
  /\ i' = NextI(i) /\ j' = j
  /\ UNCHANGED <<diff, offset, minX, maxX, minY, maxY, pc, region>>

\* Second loop.
ScanEqual ==
  /\ pc = "scan" /\ offset < Size /\ offset \notin diff
  /\ offset' = offset + 1
  /\ i' = NextI(i) /\ j' = NextJ(i, j)
  /\ UNCHANGED <<diff, minX, maxX, minY, maxY, pc, region>>

\* Mutant: maxY is only kept up to date for differences on the left.
ScanRightNoMaxY ==
  /\ pc = "scan" /\ offset < Size /\ offset \in diff /\ i > minX
  /\ offset' = offset + 1
  /\ maxX' = IF i > maxX THEN i ELSE maxX
  /\ i' = NextI(i) /\ j' = NextJ(i, j)
  /\ UNCHANGED <<diff, minX, minY, maxY, pc, region>>

\* A difference to the right of minX.
ScanRight ==
  /\ pc = "scan" /\ offset < Size /\ offset \in diff /\ i > minX
  /\ offset' = offset + 1
  /\ maxX' = IF i > maxX THEN i ELSE maxX
  /\ maxY' = IF j > maxY THEN j ELSE maxY
  /\ i' = NextI(i) /\ j' = NextJ(i, j)
  /\ UNCHANGED <<diff, minX, minY, pc, region>>

\* A difference at or to the left of minX: the rest of the columns known to be
\* dirty is skipped.
ScanLeft ==
  LET delta == maxX - i IN
  /\ pc = "scan" /\ offset < Size /\ offset \in diff /\ i <= minX
  /\ delta # Width - 1
  /\ offset' = offset + 1 + delta
  /\ minX' = i
  /\ maxY' = IF j > maxY THEN j ELSE maxY
  /\ i' = NextI(i + delta) /\ j' = NextJ(i + delta, j)
  /\ UNCHANGED <<diff, maxX, minY, pc, region>>

\* The same, and now every column is dirty: only maxY is looked for.
ScanFullWidth ==
  LET delta == maxX - i IN
  /\ pc = "scan" /\ offset < Size /\ offset \in diff /\ i <= minX
  /\ delta = Width - 1
  /\ offset' = offset + 1 + delta
  /\ minX' = i
  /\ i' = 0 /\ j' = j + 1
  /\ pc' = "lastRow"
  /\ UNCHANGED <<diff, maxX, minY, maxY, region>>

\* Third loop.
LastRowEqual ==
  /\ pc = "lastRow" /\ offset < Size /\ offset \notin diff
  /\ offset' = offset + 1
  /\ i' = NextI(i) /\ j' = NextJ(i, j)
  /\ UNCHANGED <<diff, minX, maxX, minY, maxY, pc, region>>

\* Third loop: the rest of the row is skipped.
LastRowDiffers ==
  /\ pc = "lastRow" /\ offset < Size /\ offset \in diff
  /\ offset' = offset + Width - i
  /\ maxY' = j
  /\ i' = 0 /\ j' = j + 1
  /\ UNCHANGED <<diff, minX, maxX, minY, pc, region>>

-----------------------------------------------------------------------------
\* rfbMarkRectAsModified: order the corners, clip the upper left one at 0 and
\* the lower right one at the screen's size, ignore an empty rectangle.
Lower(a, b) == IF a > b THEN b ELSE a
Upper(a, b) == IF a > b THEN a ELSE b

MarkRect(x1, y1, x2, y2) ==
  LET r == [x1 |-> Upper(Lower(x1, x2), 0),
            y1 |-> Upper(Lower(y1, y2), 0),
            x2 |-> Lower(Upper(x1, x2), Width * Pixels),
            y2 |-> Lower(Upper(y1, y2), Height)]
  IN  IF r.x1 = r.x2 \/ r.y1 = r.y2 THEN NoRegion ELSE r

\* Mutant: no margin on the right and at the bottom, maxX and maxY being taken
\* for exclusive bounds.
MarkModifiedNoMargin ==
  /\ pc = "mark"
  /\ region' =
       IF minX = DEFAULT_MIN THEN NoRegion
       ELSE MarkRect((IF minX # 0 THEN minX - 1 ELSE minX) * Pixels,
                     IF minY # 0 THEN minY - 1 ELSE minY,
                     maxX * Pixels, maxY)
  /\ pc' = "done"
  /\ UNCHANGED <<diff, offset, i, j, minX, maxX, minY, maxY>>

\* The code after the loops: one column and row are added on each side.
MarkModified ==
  /\ pc = "mark"
  /\ region' =
       IF minX = DEFAULT_MIN THEN NoRegion
       ELSE MarkRect((IF minX # 0 THEN minX - 1 ELSE minX) * Pixels,
                     IF minY # 0 THEN minY - 1 ELSE minY,
                     (IF maxX < Width THEN maxX + 1 ELSE maxX) * Pixels,
                     IF maxY < Height THEN maxY + 1 ELSE maxY)
  /\ pc' = "done"
  /\ UNCHANGED <<diff, offset, i, j, minX, maxX, minY, maxY>>

\* compare() returns and its variables are gone.
Return ==
  /\ pc = "done"
  /\ pc' = "idle"
  /\ diff' = {} /\ offset' = 0 /\ i' = 0 /\ j' = 0
  /\ minX' = DEFAULT_MIN /\ maxX' = DEFAULT_MAX
  /\ minY' = DEFAULT_MIN /\ maxY' = DEFAULT_MAX
  /\ region' = NoRegion

Loop == \/ EndOfBuffer \/ FirstEqual \/ FirstDiffers
        \/ ScanEqual \/ ScanRight \/ ScanLeft \/ ScanFullWidth
        \/ LastRowEqual \/ LastRowDiffers \/ MarkModified \/ Return

Next == (\E d \in SUBSET Words : Call(d)) \/ Loop

Spec == Init /\ [][Next]_vars /\ WF_vars(Loop)

-----------------------------------------------------------------------------
(***************************************************************************)
(* Properties                                                              *)
(***************************************************************************)

\* Something is marked exactly when the pictures differ: no changed picture
\* goes unnoticed altogether and an unchanged one costs the clients nothing,
\* whatever the margins, the shift and the clipping do to the rectangle.
MarkedIffChanged == pc = "done" => (region # NoRegion <=> diff # {})

\* The marked region reaches far enough to the left and to the top for every
\* word that differs; to the right for all but the last column of words; and
\* to the bottom unless the scan took the full-width shortcut.
CoveredButEdges ==
  pc = "done" =>
    \A w \in diff :
      /\ region.x1 <= Column(w) * Pixels
      /\ region.y1 <= Row(w)
      /\ (Column(w) + 1) * Pixels <= region.x2 \/ Column(w) = Width - 1
      /\ Row(w) < region.y2 \/ maxX - minX = Width - 1

\* compare() terminates, although the skips move buffer0 and the counters by
\* different amounts.
Terminates == pc = "first" ~> pc = "done"

\* What libvncserver asks for ("Whenever you draw something, you have to call
\* rfbMarkRectAsModified", README): every pixel that differs is in the marked
\* region.  The code does not have it: the counters run one row and one column
\* ahead of the buffers after the first difference, so a difference in the last
\* column is taken for one in column 0, and the full-width shortcut does not
\* record its own row.
Covered ==
  pc = "done" =>
    \A w \in diff :
      /\ region.x1 <= Column(w) * Pixels /\ (Column(w) + 1) * Pixels <= region.x2
      /\ region.y1 <= Row(w) /\ Row(w) < region.y2
=============================================================================
