-------------------------- MODULE DirtyRectProofs --------------------------
(***************************************************************************)
(* Proofs about compare(), for pictures of any size and any set of words   *)
(* that differ.  The counters i and j run ahead of the buffers by the same *)
(* amount from the first difference on, a row or a row and a word; so what *)
(* the rectangle misses is a matter of the last column and of the shortcut.*)
(***************************************************************************)
EXTENDS DirtyRect, TLAPS

\* How far the counters are ahead of the buffers.
Ahead(n) == j * Width + i = offset + n

Counters ==
  /\ offset \in Nat /\ offset < Size + Width
  /\ i \in 0..(Width - 1) /\ j \in Nat
  /\ Ahead(0) \/ Ahead(Width) \/ Ahead(Width + 1)
  /\ pc \in {"idle", "first"} => Ahead(0)
  /\ pc = "idle" => offset = 0
  /\ pc \in {"scan", "lastRow"} => ~Ahead(0)

\* Nothing has been found, or the rectangle is one.
Unset == minX = DEFAULT_MIN /\ maxX = DEFAULT_MAX /\ minY = DEFAULT_MIN /\ maxY = DEFAULT_MAX
Box ==
  /\ minX \in 0..(Width - 1) /\ maxX \in minX..(Width - 1)
  /\ minY \in 0..(Height - 1) /\ maxY \in minY..(Height + 1)

Found ==
  /\ pc \in {"idle", "first"} => Unset
  /\ pc \in {"scan", "lastRow"} => Box /\ minY <= j
  /\ pc \in {"mark", "done"} => Unset \/ Box
  /\ pc = "lastRow" => maxX - minX = Width - 1

TypeInv ==
  /\ diff \subseteq Words
  /\ pc \in {"idle", "first", "scan", "lastRow", "mark", "done"}
  /\ region \in [x1 : 0..(Width * Pixels), y1 : 0..Height,
                 x2 : 0..(Width * Pixels), y2 : 0..Height]
  /\ Counters /\ Found

\* What the rectangle has of a word that differs, up to its margin.
Boxed(w) ==
  /\ minX <= Column(w) + 1
  /\ Column(w) <= maxX \/ Column(w) = Width - 1
  /\ minY <= Row(w)
  /\ Row(w) <= maxY \/ maxX - minX = Width - 1

Looked ==
  /\ Box => diff # {} /\ \A w \in diff : minY * Width <= w
  /\ Box => \A w \in diff : w < offset => Boxed(w)
  /\ Unset => \A w \in diff : w >= offset
  /\ pc \in {"mark", "done"} => offset >= Size

\* The rows of a graphic buffer follow each other without a gap.
Packed == Stride = Width

-----------------------------------------------------------------------------
(***************************************************************************)
(* Rows and columns                                                        *)
(***************************************************************************)

\* What the assumptions say of the sizes.
LEMMA Sizes ==
  /\ Width \in Nat /\ 1 <= Width /\ Width <= 9999
  /\ Height \in Nat /\ 1 <= Height /\ Height <= 9999
  /\ Size \in Nat /\ Size = Height * Width
  /\ Pixels \in {1, 2}
<1>1. Width \in Nat /\ 1 <= Width /\ Width <= 9999
  BY WidthAssumption
<1>2. Height \in Nat /\ 1 <= Height /\ Height <= 9999
  BY HeightAssumption
<1>3. Size \in Nat /\ Size = Height * Width
  BY <1>1, <1>2 DEF Size
<1>4. 2^0 = 1 /\ 2^1 = 2
  OBVIOUS
<1>5. Pixels \in {1, 2}
  BY <1>4, ShiftAssumption DEF Pixels
<1>6. QED BY <1>1, <1>2, <1>3, <1>5

\* Products of the length of a row, which the provers do not distribute.
LEMMA Rows ==
  ASSUME NEW y \in Int
  PROVE  /\ y * Width \in Int
         /\ (y + 1) * Width = y * Width + Width
         /\ (y + 2) * Width = y * Width + Width + Width
         /\ (y - 1) * Width = y * Width - Width
         /\ (y - 2) * Width = y * Width - Width - Width
BY Sizes

\* A row that begins before the end of another is not below it.
LEMMA RowBefore ==
  ASSUME NEW a \in Int, NEW b \in Int, a * Width < b * Width + Width
  PROVE  a <= b
<1> SUFFICES ASSUME b < a PROVE FALSE
  OBVIOUS
<1>1. Width \in Nat
  BY Sizes
<1>2. PICK k \in Nat : a = b + 1 + k
  <2>1. a - b - 1 \in Nat /\ a = b + 1 + (a - b - 1)
    OBVIOUS
  <2>2. QED BY <2>1
<1>3. a * Width = b * Width + Width + k * Width
  BY <1>1, <1>2
<1>4. k * Width >= 0 /\ k * Width \in Int /\ b * Width \in Int
  BY <1>1
<1>5. QED BY <1>1, <1>3, <1>4

\* The division of an offset by the length of a row.
LEMMA Divided ==
  ASSUME Packed, NEW q \in Nat, NEW r \in 0..(Width - 1), NEW w \in Nat, w = q * Width + r
  PROVE  Column(w) = r /\ Row(w) = q
<1>1. w % Width = r /\ w \div Width = q
  BY Sizes
<1>2. QED BY <1>1 DEF Packed, Column, Row

\* Where a word is when the counters stand at column x of row y.
LEMMA Where ==
  ASSUME Packed, NEW w \in Nat, NEW x \in 0..(Width - 1), NEW y \in Nat,
         y * Width + x = w + Width \/ y * Width + x = w + Width + 1
  PROVE  /\ x <= Column(w) + 1 /\ Row(w) <= y
         /\ Column(w) <= x \/ Column(w) = Width - 1
         /\ \A n \in Nat : n * Width <= w => n <= Row(w)
<1>1. Width \in Nat /\ 1 <= Width
  BY Sizes
<1>2. /\ y * Width \in Int /\ (y - 1) * Width = y * Width - Width
      /\ (y - 2) * Width = y * Width - Width - Width
  BY Rows
<1>3. ASSUME NEW q \in Int, NEW r \in 0..(Width - 1), w = q * Width + r
      PROVE  /\ q \in Nat /\ Column(w) = r /\ Row(w) = q
             /\ \A n \in Nat : n * Width <= w => n <= Row(w)
  <2>1. q * Width \in Int /\ 0 * Width = 0 /\ 0 * Width < q * Width + Width
    BY <1>1, <1>3
  <2>2. q \in Nat
    BY <2>1, RowBefore
  <2>3. Column(w) = r /\ Row(w) = q
    BY <1>3, <2>2, Divided
  <2>4. ASSUME NEW n \in Nat, n * Width <= w PROVE n <= Row(w)
    <3>1. n * Width \in Int /\ n * Width < q * Width + Width
      BY <1>1, <1>3, <2>1, <2>4
    <3>2. QED BY <2>3, <3>1, RowBefore
  <2>5. QED BY <2>2, <2>3, <2>4
<1>4. CASE y * Width + x = w + Width
  <2>1. w = (y - 1) * Width + x /\ y - 1 \in Int
    BY <1>1, <1>2, <1>4
  <2>2. /\ Column(w) = x /\ Row(w) = y - 1
        /\ \A n \in Nat : n * Width <= w => n <= Row(w)
    BY <1>3, <2>1
  <2>3. QED BY <1>1, <2>2
<1>5. CASE y * Width + x = w + Width + 1 /\ x >= 1
  <2>1. w = (y - 1) * Width + (x - 1) /\ x - 1 \in 0..(Width - 1) /\ y - 1 \in Int
    BY <1>1, <1>2, <1>5
  <2>2. /\ Column(w) = x - 1 /\ Row(w) = y - 1
        /\ \A n \in Nat : n * Width <= w => n <= Row(w)
    BY <1>3, <2>1
  <2>3. QED BY <1>1, <2>2
<1>6. CASE y * Width + x = w + Width + 1 /\ x = 0
  <2>1. w = (y - 2) * Width + (Width - 1) /\ Width - 1 \in 0..(Width - 1) /\ y - 2 \in Int
    BY <1>1, <1>2, <1>6
  <2>2. /\ Column(w) = Width - 1 /\ Row(w) = y - 2
        /\ \A n \in Nat : n * Width <= w => n <= Row(w)
    BY <1>3, <2>1
  <2>3. QED BY <1>1, <1>6, <2>2
<1>7. QED BY <1>4, <1>5, <1>6

\* One step of the counters is one word.
LEMMA Stepped ==
  ASSUME NEW x \in 0..(Width - 1), NEW y \in Nat
  PROVE  /\ NextI(x) \in 0..(Width - 1) /\ NextJ(x, y) \in Nat /\ y <= NextJ(x, y)
         /\ NextJ(x, y) * Width + NextI(x) = y * Width + x + 1
<1>1. Width \in Nat /\ 1 <= Width /\ y * Width \in Int /\ (y + 1) * Width = y * Width + Width
  BY Sizes, Rows
<1>2. QED BY <1>1 DEF NextI, NextJ

\* A row the counters can be in.
LEMMA RowBound ==
  ASSUME Counters
  PROVE  /\ j <= Height + 2
         /\ offset < Size => j <= Height + 1
         /\ offset < Size /\ Ahead(0) => j <= Height - 1
<1>1. /\ Width \in Nat /\ 1 <= Width /\ Height \in Nat /\ Size \in Nat /\ Size = Height * Width
      /\ offset \in Nat /\ i \in Nat /\ j \in Nat /\ j * Width \in Int
      /\ (Height + 1) * Width = Size + Width /\ (Height + 2) * Width = Size + Width + Width
      /\ (Height - 1) * Width = Size - Width
  BY Sizes, Rows DEF Counters
<1>2. j * Width <= offset + Width + 1
  BY <1>1 DEF Counters, Ahead
<1>3. j <= Height + 2
  <2>1. j * Width < (Height + 2) * Width + Width
    BY <1>1, <1>2 DEF Counters
  <2>2. QED BY <1>1, <2>1, RowBefore
<1>4. ASSUME offset < Size PROVE j <= Height + 1
  <2>1. j * Width < (Height + 1) * Width + Width
    BY <1>1, <1>2, <1>4
  <2>2. QED BY <1>1, <2>1, RowBefore
<1>5. ASSUME offset < Size, Ahead(0) PROVE j <= Height - 1
  <2>1. j * Width < (Height - 1) * Width + Width
    BY <1>1, <1>5 DEF Ahead
  <2>2. QED BY <1>1, <2>1, RowBefore
<1>6. QED BY <1>3, <1>4, <1>5

-----------------------------------------------------------------------------
(***************************************************************************)
(* Type correctness, for any stride                                        *)
(***************************************************************************)

\* compare() begins with the counters at the buffers and no bounds.
LEMMA TypeInit == Init => TypeInv
<1> SUFFICES ASSUME Init PROVE TypeInv
  OBVIOUS
<1>1. Width * Pixels \in Nat /\ 0 * Width = 0
  BY Sizes
<1>2. Counters
  BY Sizes, <1>1 DEF Init, Counters, Ahead
<1>3. Found
  BY DEF Init, Found, Unset
<1>4. region \in [x1 : 0..(Width * Pixels), y1 : 0..Height,
                 x2 : 0..(Width * Pixels), y2 : 0..Height]
  BY Sizes, <1>1 DEF Init, NoRegion
<1>5. QED BY <1>2, <1>3, <1>4 DEF Init, TypeInv

\* The rectangle that is marked.
Rectangle ==
  IF Unset THEN NoRegion
  ELSE [x1 |-> IF minX # 0 THEN (minX - 1) * Pixels ELSE 0,
        y1 |-> IF minY # 0 THEN minY - 1 ELSE 0,
        x2 |-> (maxX + 1) * Pixels,
        y2 |-> IF maxY < Height THEN maxY + 1 ELSE Height]

\* rfbMarkRectAsModified neither swaps the corners nor drops the rectangle: what is
\* marked is Rectangle.
LEMMA MarkedRectangle ==
  ASSUME TypeInv, MarkModified
  PROVE  /\ region' = Rectangle
         /\ region' \in [x1 : 0..(Width * Pixels), y1 : 0..Height,
                         x2 : 0..(Width * Pixels), y2 : 0..Height]
<1>1. /\ Width \in Nat /\ 1 <= Width /\ Width <= 9999 /\ Height \in Nat /\ 1 <= Height
      /\ Pixels \in {1, 2} /\ Width * Pixels \in Nat
  BY Sizes
<1>2. CASE Unset
  <2>1. region' = NoRegion
    BY <1>2 DEF MarkModified, Unset
  <2>2. QED BY <1>1, <1>2, <2>1 DEF Rectangle, NoRegion
<1>3. CASE Box
  <2>1. /\ minX \in Nat /\ maxX \in Nat /\ minX <= maxX /\ maxX < Width
        /\ minY \in Nat /\ maxY \in Nat /\ minY <= maxY /\ minY < Height
    BY <1>1, <1>3 DEF Box
  <2> DEFINE x1 == (IF minX # 0 THEN minX - 1 ELSE minX) * Pixels
             y1 == IF minY # 0 THEN minY - 1 ELSE minY
             x2 == (IF maxX < Width THEN maxX + 1 ELSE maxX) * Pixels
             y2 == IF maxY < Height THEN maxY + 1 ELSE maxY
  <2>2. region' = MarkRect(x1, y1, x2, y2) /\ ~Unset
    BY <1>1, <2>1 DEF MarkModified, Unset, DEFAULT_MIN
  <2>3. /\ x1 = IF minX # 0 THEN (minX - 1) * Pixels ELSE 0
        /\ x2 = (maxX + 1) * Pixels
        /\ x1 \in Nat /\ x2 \in Nat /\ x1 < x2 /\ x2 <= Width * Pixels
    BY <1>1, <2>1
  <2>4. y1 \in Nat /\ y2 \in Nat /\ y1 < y2 /\ y1 < Height
    BY <1>1, <2>1
  <2>5. Lower(y2, Height) = IF maxY < Height THEN maxY + 1 ELSE Height
    BY <1>1, <2>1 DEF Lower
  <2>6. y1 = IF minY # 0 THEN minY - 1 ELSE 0
    BY <2>1
  <2> HIDE DEF x1, x2, y1, y2
  <2>7. /\ Upper(Lower(x1, x2), 0) = x1 /\ Lower(Upper(x1, x2), Width * Pixels) = x2
        /\ Upper(Lower(y1, y2), 0) = y1 /\ Lower(Upper(y1, y2), Height) = Lower(y2, Height)
        /\ Lower(y2, Height) \in 0..Height /\ y1 < Lower(y2, Height)
    BY <1>1, <2>3, <2>4 DEF Upper, Lower
  <2>8. MarkRect(x1, y1, x2, y2) = [x1 |-> x1, y1 |-> y1, x2 |-> x2, y2 |-> Lower(y2, Height)]
    BY <2>3, <2>4, <2>7 DEF MarkRect
  <2>9. region' = Rectangle
    BY <2>2, <2>3, <2>5, <2>6, <2>8 DEF Rectangle
  <2>10. QED BY <1>1, <2>2, <2>3, <2>4, <2>7, <2>8, <2>9
<1>4. QED BY <1>2, <1>3 DEF TypeInv, Found, MarkModified

\* One step past a word, in any of the loops.
LEMMA OneWord ==
  ASSUME Counters, offset < Size, pc \in {"first", "scan", "lastRow"}, pc' = pc,
         offset' = offset + 1, i' = NextI(i), j' = NextJ(i, j)
  PROVE  Counters' /\ j <= j'
<1>1. /\ Width \in Nat /\ 1 <= Width /\ Size \in Nat /\ offset \in Nat /\ j \in Nat
      /\ i \in 0..(Width - 1) /\ j * Width \in Int
  BY Sizes, Rows DEF Counters
<1>2. i' \in 0..(Width - 1) /\ j' \in Nat /\ j <= j' /\ j' * Width + i' = j * Width + i + 1
  BY <1>1, Stepped
<1>3. \A n \in Nat : Ahead(n)' <=> Ahead(n)
  BY <1>1, <1>2 DEF Ahead
<1>4. QED BY <1>1, <1>2, <1>3 DEF Counters

\* The rest of the row up to column x is skipped.
LEMMA Skipped ==
  ASSUME Counters, offset < Size, pc \in {"scan", "lastRow"}, pc' \in {"scan", "lastRow"},
         NEW x \in i..(Width - 1), offset' = offset + (x - i) + 1,
         i' = NextI(x), j' = NextJ(x, j)
  PROVE  Counters' /\ j <= j'
<1>1. /\ Width \in Nat /\ 1 <= Width /\ Size \in Nat /\ offset \in Nat /\ j \in Nat
      /\ i \in 0..(Width - 1) /\ x \in 0..(Width - 1) /\ i <= x /\ j * Width \in Int
  BY Sizes, Rows DEF Counters
<1>2. i' \in 0..(Width - 1) /\ j' \in Nat /\ j <= j' /\ j' * Width + i' = j * Width + x + 1
  BY <1>1, Stepped
<1>3. \A n \in Nat : Ahead(n)' <=> Ahead(n)
  <2>1. j' * Width \in Int
    BY <1>2, Rows
  <2>2. offset' = offset + x - i + 1
    BY <1>1
  <2>3. QED BY <1>1, <1>2, <2>1, <2>2 DEF Ahead
<1>4. offset' \in Nat /\ offset' < Size + Width
  BY <1>1
<1>5. QED BY <1>1, <1>2, <1>3, <1>4 DEF Counters

\* No branch of a loop leaves the invariant of the counters and bounds.
LEMMA TypeNext == TypeInv /\ [Next]_vars => TypeInv'
<1> SUFFICES ASSUME TypeInv, [Next]_vars PROVE TypeInv'
  OBVIOUS
<1>1. /\ Width \in Nat /\ 1 <= Width /\ Width <= 9999 /\ Height \in Nat /\ 1 <= Height
      /\ Size \in Nat /\ Counters /\ Found
      /\ offset \in Nat /\ i \in 0..(Width - 1) /\ j \in Nat
  BY Sizes DEF TypeInv, Counters
<1>2. ASSUME NEW d \in SUBSET Words, Call(d) PROVE TypeInv'
  BY <1>2 DEF Call, TypeInv, Counters, Ahead, Found, Unset
<1>3. CASE EndOfBuffer
  BY <1>3 DEF EndOfBuffer, TypeInv, Counters, Ahead, Found, Unset, Box
<1>4. CASE FirstEqual
  <2>1. Counters'
    BY <1>1, <1>4, OneWord DEF FirstEqual
  <2>2. QED BY <1>4, <2>1 DEF FirstEqual, TypeInv, Found, Unset
<1>5. CASE FirstDiffers
  <2>1. Ahead(0) /\ j <= Height - 1
    BY <1>1, <1>5, RowBound DEF FirstDiffers, Counters
  <2>2. /\ j * Width \in Int /\ (j + 1) * Width = j * Width + Width
        /\ (j + 2) * Width = j * Width + Width + Width
    BY <1>1, Rows
  <2>3. \/ i + 2 < Width /\ i' = i + 2 /\ j' = j + 1
        \/ i + 2 >= Width /\ i' = 0 /\ j' = j + 2
    BY <1>1, <1>5 DEF FirstDiffers, NextI, NextJ
  <2>4. Counters'
    <3>1. i' \in 0..(Width - 1) /\ j' \in Nat /\ offset' \in Nat /\ offset' < Size + Width
      BY <1>1, <1>5, <2>3 DEF FirstDiffers
    <3>2. ~Ahead(0)' /\ (Ahead(Width)' \/ Ahead(Width + 1)')
      BY <1>1, <1>5, <2>1, <2>2, <2>3 DEF FirstDiffers, Ahead
    <3>3. QED BY <1>5, <3>1, <3>2 DEF FirstDiffers, Counters
  <2>5. Box' /\ (minY <= j)'
    BY <1>1, <1>5, <2>1, <2>3 DEF FirstDiffers, Box
  <2>6. QED BY <1>5, <2>4, <2>5 DEF FirstDiffers, TypeInv, Found
<1>6. CASE ScanEqual
  <2>1. Counters' /\ j <= j'
    BY <1>1, <1>6, OneWord DEF ScanEqual
  <2>2. Box' /\ (minY <= j)'
    BY <1>1, <1>6, <2>1 DEF ScanEqual, Found, Box, Counters
  <2>3. QED BY <1>6, <2>1, <2>2 DEF ScanEqual, TypeInv, Found
<1>7. CASE ScanRight
  <2>1. Counters' /\ j <= j' /\ j <= Height + 1
    BY <1>1, <1>7, OneWord, RowBound DEF ScanRight
  <2>2. Box' /\ (minY <= j)'
    <3>1. Box /\ minY <= j /\ j' \in Nat
      BY <1>1, <1>7, <2>1 DEF ScanRight, Found, Counters
    <3>2. QED BY <1>1, <1>7, <2>1, <3>1 DEF ScanRight, Box
  <2>3. QED BY <1>7, <2>1, <2>2 DEF ScanRight, TypeInv, Found
<1>8. CASE ScanLeft
  <2>1. Box /\ minY <= j /\ j <= Height + 1
    BY <1>1, <1>8, RowBound DEF ScanLeft, Found
  <2>2. maxX \in i..(Width - 1) /\ i + (maxX - i) = maxX /\ offset' = offset + (maxX - i) + 1
    BY <1>1, <1>8, <2>1 DEF ScanLeft, Box
  <2>3. i' = NextI(maxX) /\ j' = NextJ(maxX, j)
    BY <1>8, <2>2 DEF ScanLeft
  <2>4. Counters' /\ j <= j'
    BY <1>1, <1>8, <2>2, <2>3, Skipped DEF ScanLeft
  <2>5. Box' /\ (minY <= j)'
    BY <1>1, <1>8, <2>1, <2>4 DEF ScanLeft, Box, Counters
  <2>6. QED BY <1>8, <2>4, <2>5 DEF ScanLeft, TypeInv, Found
<1>9. CASE ScanFullWidth
  <2>1. Box /\ minY <= j
    BY <1>1, <1>9 DEF ScanFullWidth, Found
  <2>2. maxX \in i..(Width - 1) /\ maxX = Width - 1 /\ i = 0 /\ offset' = offset + (maxX - i) + 1
    BY <1>1, <1>9, <2>1 DEF ScanFullWidth, Box
  <2>3. i' = NextI(maxX) /\ j' = NextJ(maxX, j)
    BY <1>1, <1>9, <2>2 DEF ScanFullWidth, NextI, NextJ
  <2>4. Counters' /\ j <= j'
    BY <1>1, <1>9, <2>2, <2>3, Skipped DEF ScanFullWidth
  <2>5. Box' /\ (minY <= j)' /\ (maxX - minX = Width - 1)'
    BY <1>1, <1>9, <2>1, <2>2, <2>4 DEF ScanFullWidth, Box, Counters
  <2>6. QED BY <1>9, <2>4, <2>5 DEF ScanFullWidth, TypeInv, Found
<1>10. CASE LastRowEqual
  <2>1. Counters' /\ j <= j'
    BY <1>1, <1>10, OneWord DEF LastRowEqual
  <2>2. Box' /\ (minY <= j)' /\ (maxX - minX = Width - 1)'
    BY <1>1, <1>10, <2>1 DEF LastRowEqual, Found, Box, Counters
  <2>3. QED BY <1>10, <2>1, <2>2 DEF LastRowEqual, TypeInv, Found
<1>11. CASE LastRowDiffers
  <2>1. Box /\ minY <= j /\ j <= Height + 1 /\ maxX - minX = Width - 1
    BY <1>1, <1>11, RowBound DEF LastRowDiffers, Found
  <2>2. Width - 1 \in i..(Width - 1) /\ offset' = offset + ((Width - 1) - i) + 1
    BY <1>1, <1>11 DEF LastRowDiffers
  <2>3. i' = NextI(Width - 1) /\ j' = NextJ(Width - 1, j)
    BY <1>1, <1>11 DEF LastRowDiffers, NextI, NextJ
  <2>4. Counters' /\ j <= j'
    BY <1>1, <1>11, <2>2, <2>3, Skipped DEF LastRowDiffers
  <2>5. Box' /\ (minY <= j)' /\ (maxX - minX = Width - 1)'
    BY <1>1, <1>11, <2>1, <2>4 DEF LastRowDiffers, Box, Counters
  <2>6. QED BY <1>11, <2>4, <2>5 DEF LastRowDiffers, TypeInv, Found
<1>12. CASE MarkModified
  <2>1. region' \in [x1 : 0..(Width * Pixels), y1 : 0..Height,
                    x2 : 0..(Width * Pixels), y2 : 0..Height]
    BY <1>12, MarkedRectangle
  <2>2. QED BY <1>12, <2>1 DEF MarkModified, TypeInv, Counters, Ahead, Found, Unset, Box
<1>13. CASE Return
  <2>1. Width * Pixels \in Nat /\ 0 * Width = 0
    BY Sizes
  <2>2. Counters' /\ Found'
    BY <1>1, <1>13, <2>1 DEF Return, Counters, Ahead, Found, Unset
  <2>3. region' \in [x1 : 0..(Width * Pixels), y1 : 0..Height,
                    x2 : 0..(Width * Pixels), y2 : 0..Height]
    BY <1>1, <1>13, <2>1 DEF Return, NoRegion
  <2>4. QED BY <1>13, <2>2, <2>3 DEF Return, TypeInv
<1>14. CASE UNCHANGED vars
  BY <1>14 DEF vars, TypeInv, Counters, Ahead, Found, Unset, Box
<1>15. QED BY <1>2, <1>3, <1>4, <1>5, <1>6, <1>7, <1>8, <1>9, <1>10, <1>11, <1>12, <1>13, <1>14
           DEF Next, Loop

-----------------------------------------------------------------------------
(***************************************************************************)
(* What the rectangle has of the words that differ, with packed rows       *)
(***************************************************************************)
LookInv == TypeInv /\ Looked /\ (pc = "done" => region = Rectangle)

\* The words of packed rows are numbered without a gap.
LEMMA OfWords ==
  ASSUME TypeInv, Packed, NEW w \in diff
  PROVE  w \in Nat /\ w < Size /\ Column(w) \in Nat /\ Row(w) \in Nat
<1>1. Width \in Nat \ {0} /\ Height \in Nat /\ Stride * Height = Size /\ Size \in Nat
  BY Sizes DEF Packed, Size
<1>2. w \in Nat /\ w < Size
  BY <1>1 DEF TypeInv, Words
<1>3. w % Width \in Nat
  BY <1>1, <1>2
<1>4. w \div Width \in Nat
  BY <1>1, <1>2
<1>5. QED BY <1>2, <1>3, <1>4 DEF Packed, Column, Row

\* A word the scan has come to, at or after the one the counters stand for.
LEMMA CameTo ==
  ASSUME TypeInv, Packed, pc \in {"scan", "lastRow"}, Looked,
         NEW x \in i..(Width - 1), NEW w \in diff, w = offset + (x - i)
  PROVE  /\ x <= Column(w) + 1 /\ Row(w) <= j /\ minY <= Row(w)
         /\ Column(w) <= x \/ Column(w) = Width - 1
<1>1. /\ Width \in Nat /\ 1 <= Width /\ offset \in Nat /\ j \in Nat /\ i \in 0..(Width - 1)
      /\ x \in 0..(Width - 1) /\ w \in Nat /\ j * Width \in Int
  BY Sizes, Rows, OfWords DEF TypeInv, Counters
<1>2. j * Width + x = w + Width \/ j * Width + x = w + Width + 1
  BY <1>1 DEF TypeInv, Counters, Ahead
<1>3. minY \in Nat /\ minY * Width <= w
  BY Sizes DEF TypeInv, Found, Box, Looked
<1>4. QED BY <1>1, <1>2, <1>3, Where

\* The scan goes on to column x of the row, over words that are equal or that
\* the rectangle takes in.
LEMMA ScannedTo ==
  ASSUME TypeInv, TypeInv', Packed, Looked,
         pc \in {"scan", "lastRow"}, pc' \in {"scan", "lastRow"},
         NEW x \in i..(Width - 1), offset' = offset + (x - i) + 1,
         UNCHANGED <<diff, minY>>, minX' <= minX, maxX <= maxX',
         maxX' - minX' = Width - 1 \/ maxY <= maxY',
         \/ x = i /\ offset \notin diff
         \/ minX' <= i /\ x <= maxX' /\ (maxX' - minX' = Width - 1 \/ j <= maxY')
  PROVE  Looked'
<1>1. /\ Width \in Nat /\ 1 <= Width /\ Width <= 9999 /\ Height \in Nat
      /\ offset \in Nat /\ i \in 0..(Width - 1) /\ j \in Nat /\ x \in Nat /\ i <= x
      /\ Box /\ Box' /\ minX \in Nat /\ maxX \in Nat /\ minX' \in Nat /\ maxX' \in Nat
      /\ maxX' <= Width - 1 /\ minY \in Nat /\ maxY \in Nat /\ maxY' \in Nat
  BY Sizes DEF TypeInv, Counters, Found, Box
<1>2. ~Unset'
  BY <1>1 DEF Unset, DEFAULT_MIN, Box
<1>20. minX' <= minX /\ maxX <= maxX' /\ (maxX' - minX' = Width - 1 \/ maxY <= maxY')
  OBVIOUS
<1>21. \/ x = i /\ offset \notin diff
       \/ minX' <= i /\ x <= maxX' /\ (maxX' - minX' = Width - 1 \/ j <= maxY')
  OBVIOUS
<1>22. offset' = offset + (x - i) + 1 /\ minY' = minY
  OBVIOUS
<1>3. ASSUME NEW w \in diff, w < offset' PROVE Boxed(w)'
  <2>1. w \in Nat /\ Column(w) \in Nat /\ Row(w) \in Nat
    BY OfWords
  <2>2. CASE w < offset
    <3>1. Boxed(w)
      BY <1>1, <2>2 DEF Looked
    <3>2. maxX - minX = Width - 1 => maxX' - minX' = Width - 1
      <4>1. 0 <= minX' /\ minX' <= minX /\ maxX <= maxX' /\ maxX' <= Width - 1
        BY <1>1, <1>20
      <4>2. minX \in Int /\ maxX \in Int /\ minX' \in Int /\ maxX' \in Int /\ Width \in Int
        BY <1>1
      <4>3. maxX - minX = Width - 1 => minX' = 0 /\ maxX' = Width - 1
        BY ONLY <4>1, <4>2
      <4>4. Width - 1 - 0 = Width - 1
        BY <4>2
      <4>5. QED BY <4>3, <4>4
    <3>3. /\ minX \in Int /\ maxX \in Int /\ minX' \in Int /\ maxX' \in Int
          /\ minY \in Int /\ maxY \in Int /\ maxY' \in Int
          /\ Column(w) \in Int /\ Row(w) \in Int
      BY <1>1, <2>1
    <3>4. minX' <= Column(w) + 1
      BY ONLY <1>20, <3>1, <3>3 DEF Boxed
    <3>5. Column(w) <= maxX' \/ Column(w) = Width - 1
      BY ONLY <1>20, <3>1, <3>3 DEF Boxed
    <3>6. minY' <= Row(w)
      BY ONLY <1>22, <3>1, <3>3 DEF Boxed
    <3>7. Row(w) <= maxY' \/ maxX' - minX' = Width - 1
      <4>1. CASE maxX - minX = Width - 1
        BY <3>2, <4>1
      <4>2. CASE Row(w) <= maxY /\ maxY <= maxY'
        BY ONLY <3>3, <4>2
      <4>3. QED BY <1>20, <3>1, <4>1, <4>2 DEF Boxed
    <3>8. QED BY <3>4, <3>5, <3>6, <3>7 DEF Boxed
  <2>3. CASE w >= offset
    <3>1. PICK y \in i..(Width - 1) : y <= x /\ w = offset + (y - i)
      <4>1. (w - offset) + i \in i..(Width - 1) /\ (w - offset) + i <= x
        BY <1>1, <1>3, <2>1, <2>3
      <4>2. w = offset + (((w - offset) + i) - i)
        BY <1>1, <2>1
      <4>3. QED BY <4>1, <4>2
    <3>2. /\ y <= Column(w) + 1 /\ Row(w) <= j /\ minY <= Row(w)
          /\ Column(w) <= y \/ Column(w) = Width - 1
      BY <3>1, CameTo
    <3>3. y \in Nat /\ i <= y
      BY <1>1, <3>1
    <3>4. minX' <= i /\ x <= maxX' /\ (maxX' - minX' = Width - 1 \/ j <= maxY')
      <4>1. CASE x = i /\ offset \notin diff
        <5>1. w = offset
          BY ONLY <1>1, <2>1, <3>1, <3>3, <4>1
        <5>2. QED BY <4>1, <5>1
      <4>2. QED BY <1>21, <4>1
    <3>5. /\ i \in Int /\ x \in Int /\ y \in Int /\ j \in Int
          /\ minX' \in Int /\ maxX' \in Int /\ maxY' \in Int
          /\ Column(w) \in Int /\ Row(w) \in Int
      BY <1>1, <2>1, <3>3
    <3>6. minX' <= Column(w) + 1
      BY ONLY <3>2, <3>3, <3>4, <3>5
    <3>7. Column(w) <= maxX' \/ Column(w) = Width - 1
      BY ONLY <3>1, <3>2, <3>4, <3>5
    <3>8. minY' <= Row(w)
      BY <1>22, <3>2
    <3>9. Row(w) <= maxY' \/ maxX' - minX' = Width - 1
      <4>1. CASE j <= maxY'
        BY ONLY <3>2, <3>5, <4>1
      <4>2. QED BY <3>4, <4>1
    <3>10. QED BY <3>6, <3>7, <3>8, <3>9 DEF Boxed
  <2>4. QED BY <1>1, <2>1, <2>2, <2>3
<1>4. QED BY <1>1, <1>2, <1>3 DEF Looked

\* Nothing has been looked at when compare() begins.
LEMMA LookInit == Init => LookInv
<1> SUFFICES ASSUME Init PROVE LookInv
  OBVIOUS
<1>1. ~Box
  BY Sizes DEF Init, Box, DEFAULT_MIN
<1>2. Looked
  BY <1>1 DEF Looked, Init
<1>3. QED BY <1>2, TypeInit DEF LookInv, Init

\* Every branch of a loop takes the differences it passes into the bounds, but
\* for the last column and the shortcut.
LEMMA LookNext ==
  ASSUME Packed, LookInv, [Next]_vars
  PROVE  LookInv'
<1>1. /\ Width \in Nat /\ 1 <= Width /\ Width <= 9999 /\ Height \in Nat /\ 1 <= Height
      /\ Size \in Nat /\ Counters /\ Found /\ TypeInv /\ Looked
      /\ offset \in Nat /\ i \in 0..(Width - 1) /\ j \in Nat
  BY Sizes DEF LookInv, TypeInv, Counters
<1>2. TypeInv'
  BY TypeNext DEF LookInv
<1>3. ~(Box /\ Unset) /\ ~(Box /\ Unset)'
  BY <1>1 DEF Box, Unset, DEFAULT_MIN
<1>4. \A w \in diff : w \in Nat /\ w < Size /\ Column(w) \in Nat /\ Row(w) \in Nat
  BY <1>1, OfWords
<1>5. ASSUME NEW d \in SUBSET Words, Call(d) PROVE LookInv'
  <2>1. Unset' /\ pc' = "first" /\ diff' = d /\ offset' = 0
    BY <1>1, <1>5 DEF Call, Found, Unset, Counters, Ahead
  <2>2. QED BY <1>2, <1>3, <2>1 DEF LookInv, Looked, Words
<1>6. CASE EndOfBuffer
  BY <1>1, <1>2, <1>6 DEF EndOfBuffer, LookInv, Looked, Unset, Box, Boxed
<1>7. CASE FirstEqual
  <2>1. Unset /\ Unset' /\ pc' = "first" /\ diff' = diff /\ offset' = offset + 1 /\ offset \notin diff
    BY <1>1, <1>7 DEF FirstEqual, Found, Unset
  <2>2. \A w \in diff : w >= offset + 1
    BY <1>1, <1>4, <2>1 DEF Looked
  <2>3. QED BY <1>2, <1>3, <2>1, <2>2 DEF LookInv, Looked
<1>8. CASE FirstDiffers
  <2>1. /\ pc' = "scan" /\ diff' = diff /\ offset \in diff /\ offset' = offset + 1
        /\ minX' = i /\ maxX' = i /\ minY' = j /\ maxY' = j
    BY <1>8 DEF FirstDiffers
  <2>2. Unset /\ offset = j * Width + i /\ j * Width \in Int
    BY <1>1, <1>8, Rows DEF FirstDiffers, Found, Counters, Ahead
  <2>3. \A w \in diff : w >= offset
    BY <1>1, <2>2 DEF Looked
  <2>4. Box' /\ ~Unset'
    BY <1>2, <1>3, <2>1 DEF TypeInv, Found
  <2>5. \A w \in diff : minY' * Width <= w
    BY <1>1, <1>4, <2>1, <2>2, <2>3
  <2>6. Column(offset) = i /\ Row(offset) = j
    BY <1>1, <2>2, Divided
  <2>7. \A w \in diff : w < offset + 1 => w = offset
    BY <1>1, <1>4, <2>3
  <2>8. ASSUME NEW w \in diff, w < offset + 1 PROVE Boxed(w)'
    <3>1. Column(w) = i /\ Row(w) = j
      BY <2>6, <2>7, <2>8
    <3>2. QED BY <1>1, <2>1, <3>1 DEF Boxed
  <2>9. Looked'
    BY <2>1, <2>4, <2>5, <2>8 DEF Looked
  <2>10. QED BY <1>2, <2>1, <2>9 DEF LookInv
<1>9. ASSUME pc \in {"scan", "lastRow"}, pc' \in {"scan", "lastRow"}, Looked' PROVE LookInv'
  BY <1>2, <1>9 DEF LookInv
<1>10. ASSUME pc \in {"scan", "lastRow"}
       PROVE  /\ minX \in Int /\ maxX \in Int /\ minY \in Int /\ maxY \in Int
              /\ 0 <= minX /\ minX <= maxX /\ maxX <= Width - 1
              /\ minX <= minX /\ maxX <= maxX /\ maxY <= maxY
              /\ i \in i..(Width - 1) /\ offset + 1 = offset + (i - i) + 1
  <2>1. Box
    BY <1>1, <1>10 DEF Found
  <2>2. QED BY <1>1, <2>1 DEF Box
<1>11. CASE ScanEqual
  <2>1. pc = "scan" /\ pc' = "scan" /\ offset \notin diff /\ offset' = offset + 1
        /\ UNCHANGED <<diff, minX, maxX, minY, maxY>>
    BY <1>11 DEF ScanEqual
  <2>2. offset' = offset + (i - i) + 1 /\ minX' <= minX /\ maxX <= maxX' /\ maxY <= maxY'
    BY <1>10, <2>1
  <2>3. Looked'
    BY <1>1, <1>2, <1>10, <2>1, <2>2, ScannedTo
  <2>4. QED BY <1>9, <2>1, <2>3
<1>12. CASE ScanRight
  <2>1. pc = "scan" /\ pc' = "scan" /\ offset' = offset + 1 /\ UNCHANGED <<diff, minX, minY>>
        /\ i > minX /\ maxX' = (IF i > maxX THEN i ELSE maxX)
        /\ maxY' = (IF j > maxY THEN j ELSE maxY)
    BY <1>12 DEF ScanRight
  <2>2. offset' = offset + (i - i) + 1 /\ minX' <= minX /\ maxX <= maxX' /\ maxY <= maxY'
    BY <1>1, <1>10, <2>1
  <2>3. minX' <= i /\ i <= maxX' /\ j <= maxY'
    BY <1>1, <1>10, <2>1
  <2>4. Looked'
    BY <1>1, <1>2, <1>10, <2>1, <2>2, <2>3, ScannedTo
  <2>5. QED BY <1>9, <2>1, <2>4
<1>13. CASE ScanLeft
  <2>1. pc = "scan" /\ pc' = "scan" /\ offset' = offset + 1 + (maxX - i) /\ UNCHANGED <<diff, maxX, minY>>
        /\ i <= minX /\ minX' = i /\ maxY' = (IF j > maxY THEN j ELSE maxY)
    BY <1>13 DEF ScanLeft
  <2>2. /\ maxX \in i..(Width - 1) /\ offset' = offset + (maxX - i) + 1
        /\ minX' <= minX /\ maxX <= maxX' /\ maxY <= maxY'
    BY <1>1, <1>10, <2>1
  <2>3. minX' <= i /\ maxX <= maxX' /\ j <= maxY'
    BY <1>1, <1>10, <2>1
  <2>4. Looked'
    BY <1>1, <1>2, <2>1, <2>2, <2>3, ScannedTo
  <2>5. QED BY <1>9, <2>1, <2>4
<1>14. CASE ScanFullWidth
  <2>1. pc = "scan" /\ pc' = "lastRow" /\ offset' = offset + 1 + (maxX - i) /\ UNCHANGED <<diff, maxX, minY>>
        /\ i <= minX /\ minX' = i /\ maxX - i = Width - 1
    BY <1>14 DEF ScanFullWidth
  <2>2. /\ maxX \in i..(Width - 1) /\ offset' = offset + (maxX - i) + 1
        /\ minX' <= minX /\ maxX <= maxX'
    BY <1>1, <1>10, <2>1
  <2>3. minX' <= i /\ maxX <= maxX' /\ maxX' - minX' = Width - 1
    BY <1>1, <1>10, <2>1
  <2>4. Looked'
    BY <1>1, <1>2, <2>1, <2>2, <2>3, ScannedTo
  <2>5. QED BY <1>9, <2>1, <2>4
<1>15. CASE LastRowEqual
  <2>1. pc = "lastRow" /\ pc' = "lastRow" /\ offset \notin diff /\ offset' = offset + 1
        /\ UNCHANGED <<diff, minX, maxX, minY, maxY>>
    BY <1>15 DEF LastRowEqual
  <2>2. offset' = offset + (i - i) + 1 /\ minX' <= minX /\ maxX <= maxX' /\ maxY <= maxY'
    BY <1>10, <2>1
  <2>3. Looked'
    BY <1>1, <1>2, <1>10, <2>1, <2>2, ScannedTo
  <2>4. QED BY <1>9, <2>1, <2>3
<1>16. CASE LastRowDiffers
  <2>1. pc = "lastRow" /\ pc' = "lastRow" /\ offset' = offset + Width - i
        /\ UNCHANGED <<diff, minX, maxX, minY>>
    BY <1>16 DEF LastRowDiffers
  <2>2. maxX - minX = Width - 1
    BY <1>1, <2>1 DEF Found
  <2>3. minX = 0 /\ maxX = Width - 1
    BY <1>1, <1>10, <2>1, <2>2
  <2>4. /\ Width - 1 \in i..(Width - 1) /\ offset' = offset + ((Width - 1) - i) + 1
        /\ minX' <= minX /\ maxX <= maxX'
    BY <1>1, <1>10, <2>1
  <2>5. minX' <= i /\ Width - 1 <= maxX' /\ maxX' - minX' = Width - 1
    BY <1>1, <2>1, <2>2, <2>3
  <2>6. Looked'
    BY <1>1, <1>2, <2>1, <2>4, <2>5, ScannedTo
  <2>7. QED BY <1>9, <2>1, <2>6
<1>17. CASE MarkModified
  <2>1. region' = Rectangle
    BY <1>1, <1>17, MarkedRectangle
  <2>2. Rectangle' = Rectangle
    BY <1>17 DEF MarkModified, Rectangle, Unset
  <2>3. Looked'
    BY <1>1, <1>17 DEF MarkModified, Looked, Unset, Box, Boxed
  <2>4. QED BY <1>2, <2>1, <2>2, <2>3 DEF LookInv
<1>18. CASE Return
  BY <1>1, <1>2, <1>18 DEF Return, LookInv, Looked, Box, DEFAULT_MIN
<1>19. CASE UNCHANGED vars
  BY <1>1, <1>2, <1>19 DEF vars, LookInv, Looked, Unset, Box, Boxed, Rectangle
<1>20. QED BY <1>5, <1>6, <1>7, <1>8, <1>11, <1>12, <1>13, <1>14, <1>15, <1>16, <1>17, <1>18, <1>19
           DEF Next, Loop

-----------------------------------------------------------------------------
(***************************************************************************)
(* The theorems                                                            *)
(***************************************************************************)

\* From the first call of compare() on, the counters are ahead of the buffers
\* by nothing, by a row, or by a row and a word, and the bounds are unset or
\* bound a rectangle, whatever the stride of the buffers.
THEOREM Invariance == Spec => []TypeInv
<1>1. Init => TypeInv
  BY TypeInit
<1>2. TypeInv /\ [Next]_vars => TypeInv'
  BY TypeNext
<1>3. QED BY <1>1, <1>2, PTL DEF Spec

\* The counters of compare() run at most two rows past the picture, and what
\* it has libvncserver mark lies on the screen.
THEOREM TypeCorrect == Spec => []TypeOK
<1>1. TypeInv => TypeOK
  <2> SUFFICES ASSUME TypeInv PROVE TypeOK
    OBVIOUS
  <2>1. /\ Width \in Nat /\ 1 <= Width /\ Height \in Nat /\ 1 <= Height /\ Size \in Nat
        /\ Counters /\ Found
    BY Sizes DEF TypeInv
  <2>2. offset \in 0..(Size + Width) /\ i \in 0..Width /\ j \in 0..(Height + 2)
    BY <2>1, RowBound DEF Counters
  <2>3. Unset \/ Box
    BY DEF TypeInv, Found
  <2>4. /\ minX \in 0..Width \cup {DEFAULT_MIN} /\ maxX \in DEFAULT_MAX..Width
        /\ minY \in 0..Height \cup {DEFAULT_MIN} /\ maxY \in DEFAULT_MAX..(Height + 1)
    BY <2>1, <2>3 DEF Unset, Box, DEFAULT_MIN, DEFAULT_MAX
  <2>5. QED BY <2>2, <2>4 DEF TypeInv, TypeOK
<1>2. QED BY <1>1, Invariance, PTL

\* With packed rows the bounds have every word passed that differs, but for the
\* last column and for the rows that follow the shortcut, at every step of the
\* scan.
THEOREM LookInvariance ==
  ASSUME Packed
  PROVE  Spec => []LookInv
<1>1. LookInv /\ [Next]_vars => LookInv'
  BY Packed, LookNext
<1>2. QED BY <1>1, LookInit, PTL DEF Spec

\* compare() has something marked exactly when the two pictures differ.
THEOREM MarkedExactlyIfChanged ==
  ASSUME Packed
  PROVE  Spec => []MarkedIffChanged
<1>1. LookInv => MarkedIffChanged
  <2> SUFFICES ASSUME LookInv, pc = "done" PROVE region # NoRegion <=> diff # {}
    BY DEF MarkedIffChanged
  <2>1. /\ Width \in Nat /\ 1 <= Width /\ Width <= 9999 /\ Height \in Nat /\ Pixels \in {1, 2}
        /\ TypeInv /\ Looked /\ region = Rectangle /\ Size \in Nat /\ offset \in Nat
        /\ offset >= Size
    BY Sizes DEF LookInv, Looked, TypeInv, Counters
  <2>2. CASE Unset
    <3>1. diff = {}
      BY <2>1, <2>2, Packed, OfWords DEF Looked
    <3>2. QED BY <2>1, <2>2, <3>1 DEF Rectangle
  <2>3. CASE Box
    <3>1. diff # {}
      BY <2>1, <2>3 DEF Looked
    <3>2. ~Unset /\ maxX \in Nat
      BY <2>1, <2>3 DEF Unset, Box, DEFAULT_MIN
    <3>3. region.x2 = (maxX + 1) * Pixels
      BY <2>1, <3>2 DEF Rectangle
    <3>4. (maxX + 1) * Pixels # 0
      BY <2>1, <3>2
    <3>5. QED BY <3>1, <3>3, <3>4 DEF NoRegion
  <2>4. QED BY <2>1, <2>2, <2>3 DEF TypeInv, Found
<1>2. QED BY <1>1, LookInvariance, Packed, PTL

\* The rectangle marked takes in every word that differs, but for the last
\* column and, after the full-width shortcut, for the bottom rows.
THEOREM CoversAllButEdges ==
  ASSUME Packed
  PROVE  Spec => []CoveredButEdges
<1>1. LookInv => CoveredButEdges
  <2> SUFFICES ASSUME LookInv, pc = "done", NEW w \in diff
               PROVE  /\ region.x1 <= Column(w) * Pixels
                      /\ region.y1 <= Row(w)
                      /\ (Column(w) + 1) * Pixels <= region.x2 \/ Column(w) = Width - 1
                      /\ Row(w) < region.y2 \/ maxX - minX = Width - 1
    BY DEF CoveredButEdges
  <2>1. /\ Width \in Nat /\ 1 <= Width /\ Width <= 9999 /\ Height \in Nat /\ Pixels \in {1, 2}
        /\ TypeInv /\ Looked /\ region = Rectangle /\ Size \in Nat /\ offset \in Nat
        /\ offset >= Size /\ Size = Height * Width
    BY Sizes DEF LookInv, Looked, TypeInv, Counters
  <2>2. w \in Nat /\ w < Size /\ Column(w) \in Nat /\ Row(w) \in Nat
    BY <2>1, Packed, OfWords
  <2>3. ~Unset /\ Box
    BY <2>1, <2>2 DEF Looked, TypeInv, Found
  <2>4. Boxed(w)
    BY <2>1, <2>2, <2>3 DEF Looked
  <2>5. minX \in Nat /\ maxX \in Nat /\ minY \in Nat /\ maxY \in Nat
    BY <2>1, <2>3 DEF Box
  <2>6. Row(w) <= Height - 1
    <3>1. w = Row(w) * Width + Column(w)
      BY <2>1, <2>2 DEF Packed, Row, Column
    <3>2. Row(w) * Width < (Height - 1) * Width + Width
      <4>1. /\ Row(w) * Width \in Int /\ (Height - 1) * Width \in Int
            /\ (Height - 1) * Width + Width = Height * Width
        BY <2>1, <2>2
      <4>2. QED BY <2>1, <2>2, <3>1, <4>1
    <3>3. Row(w) \in Int /\ Height - 1 \in Int
      BY <2>1, <2>2
    <3>4. QED BY <3>2, <3>3, RowBefore
  <2>7. /\ region.x1 = (IF minX # 0 THEN (minX - 1) * Pixels ELSE 0)
        /\ region.y1 = (IF minY # 0 THEN minY - 1 ELSE 0)
        /\ region.x2 = (maxX + 1) * Pixels
        /\ region.y2 = (IF maxY < Height THEN maxY + 1 ELSE Height)
    BY <2>1, <2>3 DEF Rectangle
  <2>8. region.x1 <= Column(w) * Pixels
    <3>1. minX <= Column(w) + 1
      BY <2>4 DEF Boxed
    <3>2. QED BY <2>1, <2>2, <2>5, <2>7, <3>1
  <2>9. region.y1 <= Row(w)
    BY <2>1, <2>2, <2>4, <2>5, <2>7 DEF Boxed
  <2>10. (Column(w) + 1) * Pixels <= region.x2 \/ Column(w) = Width - 1
    <3>1. ASSUME Column(w) <= maxX PROVE (Column(w) + 1) * Pixels <= region.x2
      BY <2>1, <2>2, <2>5, <2>7, <3>1
    <3>2. QED BY <2>4, <3>1 DEF Boxed
  <2>11. Row(w) < region.y2 \/ maxX - minX = Width - 1
    <3>1. ASSUME Row(w) <= maxY PROVE Row(w) < region.y2
      BY <2>1, <2>2, <2>5, <2>6, <2>7, <3>1
    <3>2. QED BY <2>4, <3>1 DEF Boxed
  <2>12. QED BY <2>8, <2>9, <2>10, <2>11
<1>2. QED BY <1>1, LookInvariance, Packed, PTL
=============================================================================
