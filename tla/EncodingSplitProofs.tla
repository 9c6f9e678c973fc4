------------------------ MODULE EncodingSplitProofs ------------------------
(***************************************************************************)
(* Proofs about EncodingSplit, for every picture and all limits: what is   *)
(* sent is the rectangle of the update, each pixel once; as many           *)
(* rectangles are sent as announced, but for some without pixels; a solid  *)
(* area is of one colour; Tight's rectangles fit its buffers.              *)
(***************************************************************************)
EXTENDS EncodingSplit, SequenceTheorems, NaturalsInduction, WellFoundedInduction, TLAPS

-----------------------------------------------------------------------------
(***************************************************************************)
(* Arithmetic of the loops                                                 *)
(***************************************************************************)

\* A set of natural numbers that is not empty has a least element.
LEMMA LeastExists ==
  ASSUME NEW S \in SUBSET Nat, S # {}
  PROVE  Nearest(S) \in S /\ \A m \in S : Nearest(S) <= m
<1>1. PICK n \in S : \A m \in S : ~(<<m, n>> \in OpToRel(<, Nat))
  BY NatLessThanWellFounded, WFMin
<1>2. \A m \in S : ~(m < n)
  BY <1>1, Zenon DEF OpToRel
<1>3. \A m \in S : n <= m
  BY <1>2
<1>4. QED BY <1>3 DEF Nearest

\* A bounded one has a greatest, which Furthest finds.
LEMMA GreatestExists ==
  ASSUME NEW k \in Nat, NEW S \in SUBSET (0..k), S # {}
  PROVE  Furthest(S) \in S /\ \A m \in S : m <= Furthest(S)
<1> DEFINE R == {n \in Nat : k - n \in S}
<1>1. R \in SUBSET Nat /\ R # {}
  <2>1. PICK n \in S : TRUE
    OBVIOUS
  <2>2. k - n \in R
    BY <2>1
  <2>3. QED BY <2>2
<1>2. Nearest(R) \in R /\ \A m \in R : Nearest(R) <= m
  <2> HIDE DEF R
  <2> QED BY <1>1, LeastExists
<1>3. PICK r \in R : \A m \in R : r <= m
  BY <1>2
<1>4. k - r \in S /\ r \in Nat
  OBVIOUS
<1>5. ASSUME NEW m \in S PROVE m <= k - r
  <2>1. k - m \in R
    OBVIOUS
  <2>2. r <= k - m
    BY <2>1, <1>3
  <2>3. r \in Int /\ m \in Int /\ k \in Int
    OBVIOUS
  <2>4. QED BY ONLY <2>2, <2>3
<1>6. QED BY <1>4, <1>5 DEF Furthest

\* Division by a positive number, without the operator.
LEMMA Division ==
  ASSUME NEW a \in Nat, NEW m \in Nat \ {0}
  PROVE  /\ a \div m \in Nat
         /\ m * (a \div m) <= a
         /\ a < m * (a \div m) + m
OBVIOUS

\* The quotient is the only number between those bounds.
LEMMA Quotient ==
  ASSUME NEW a \in Nat, NEW m \in Nat \ {0}, NEW q \in Int, m * q <= a, a < m * q + m
  PROVE  a \div m = q
<1> DEFINE d == a \div m
<1>1. d \in Nat /\ m * d <= a /\ a < m * d + m
  BY Division
<1> HIDE DEF d
<1>2. m * d < m * (q + 1) /\ m * q < m * (d + 1)
  BY <1>1
<1>3. d < q + 1 /\ q < d + 1
  <2>1. ASSUME NEW i \in Int, NEW j \in Int, m * i < m * j PROVE i < j
    <3>1. SUFFICES ASSUME i >= j PROVE FALSE
      OBVIOUS
    <3>2. m * (i - j) >= 0
      BY <3>1
    <3>3. m * (i - j) = m * i - m * j
      OBVIOUS
    <3>4. m * i \in Int /\ m * j \in Int
      OBVIOUS
    <3>5. QED BY <3>2, <3>3, <3>4, <2>1
  <2>2. QED BY <2>1, <1>2, <1>1
<1>4. d = q
  BY <1>1, <1>3
<1>5. QED BY <1>4 DEF d

\* The division of C, of numbers that are not negative and of minus one.
LEMMA QuotIs ==
  /\ \A a \in Nat, m \in Nat \ {0} : Quot(a, m) = a \div m /\ Quot(a, m) \in Nat
  /\ \A m \in Nat \ {0, 1} : Quot(-1, m) = 0
<1>1. ASSUME NEW a \in Nat, NEW m \in Nat \ {0}
      PROVE  Quot(a, m) = a \div m /\ Quot(a, m) \in Nat
  BY Division DEF Quot
<1>2. ASSUME NEW m \in Nat \ {0, 1} PROVE Quot(-1, m) = 0
  <2>1. 1 \div m = 0
    BY Quotient
  <2>2. QED BY <2>1 DEF Quot
<1>3. QED BY <1>1, <1>2

\* A loop with steps of m over h makes one step and goes on with h - m, or it ends.
LEMMA LoopCount ==
  ASSUME NEW h \in Nat \ {0}, NEW m \in Nat \ {0}
  PROVE  /\ h > m => (h - 1) \div m + 1 = 1 + ((h - m - 1) \div m + 1)
         /\ h <= m => (h - 1) \div m + 1 = 1
<1>1. ASSUME h > m PROVE (h - 1) \div m + 1 = 1 + ((h - m - 1) \div m + 1)
  <2> DEFINE q == (h - m - 1) \div m
  <2>1. h - m - 1 \in Nat /\ h - 1 \in Nat
    BY <1>1
  <2>2. q \in Nat /\ m * q <= h - m - 1 /\ h - m - 1 < m * q + m
    BY <2>1, Division
  <2> HIDE DEF q
  <2>3. m * (q + 1) = m * q + m /\ m * q \in Int
    BY <2>2
  <2>4. (h - 1) \div m = q + 1
    BY <2>1, <2>2, <2>3, Quotient
  <2>5. QED BY <2>2, <2>4 DEF q
<1>2. ASSUME h <= m PROVE (h - 1) \div m + 1 = 1
  BY <1>2, Quotient
<1>3. QED BY <1>1, <1>2

-----------------------------------------------------------------------------
(***************************************************************************)
(* Rectangles of a sequence                                                *)
(***************************************************************************)

\* The pixels of the rectangles of a sequence; none is empty and no two meet.
Area(s) == UNION {Pixels(s[i]) : i \in DOMAIN s}
Apart(s) ==
  \A i \in DOMAIN s :
    Pixels(s[i]) # {} /\ \A j \in 1..(i - 1) : Pixels(s[i]) \cap Pixels(s[j]) = {}

\* No rectangle, and one.
LEMMA AreaEmpty == Area(<<>>) = {} /\ Apart(<<>>)
BY DEF Area, Apart

\* One rectangle.
LEMMA AreaOne ==
  ASSUME NEW f, Pixels(f) # {}
  PROVE  Area(<<f>>) = Pixels(f) /\ Apart(<<f>>)
BY DEF Area, Apart

\* Two sequences after each other.
LEMMA AreaConcat ==
  ASSUME NEW T, NEW s \in Seq(T), NEW t \in Seq(T)
  PROVE  /\ Area(s \o t) = Area(s) \cup Area(t)
         /\ Apart(s) /\ Apart(t) /\ Area(s) \cap Area(t) = {} => Apart(s \o t)
<1>1. /\ s \o t \in Seq(T) /\ DOMAIN (s \o t) = 1..(Len(s) + Len(t))
      /\ DOMAIN s = 1..Len(s) /\ DOMAIN t = 1..Len(t) /\ Len(s) \in Nat /\ Len(t) \in Nat
  OBVIOUS
<1>2. \A i \in DOMAIN s : i \in DOMAIN (s \o t) /\ (s \o t)[i] = s[i]
  OBVIOUS
<1>3. \A i \in DOMAIN t : i + Len(s) \in DOMAIN (s \o t) /\ (s \o t)[i + Len(s)] = t[i]
  OBVIOUS
<1>4. ASSUME NEW i \in DOMAIN (s \o t), i \notin DOMAIN s
      PROVE  i - Len(s) \in DOMAIN t /\ (s \o t)[i] = t[i - Len(s)]
  BY <1>4, <1>1
<1> DEFINE u == s \o t
<1> HIDE DEF u
<1>5. Area(u) = Area(s) \cup Area(t)
  <2>1. ASSUME NEW p \in Area(u) PROVE p \in Area(s) \cup Area(t)
    <3>1. PICK i \in DOMAIN u : p \in Pixels(u[i])
      BY DEF Area
    <3>2. CASE i \in DOMAIN s
      BY <3>1, <3>2, <1>2 DEF Area, u
    <3>3. CASE i \notin DOMAIN s
      BY <3>1, <3>3, <1>4 DEF Area, u
    <3>4. QED BY <3>2, <3>3
  <2>2. ASSUME NEW p \in Area(s) PROVE p \in Area(u)
    <3>1. PICK i \in DOMAIN s : p \in Pixels(s[i])
      BY DEF Area
    <3>2. QED BY <3>1, <1>2 DEF Area, u
  <2>3. ASSUME NEW p \in Area(t) PROVE p \in Area(u)
    <3>1. PICK i \in DOMAIN t : p \in Pixels(t[i])
      BY DEF Area
    <3>2. i + Len(s) \in DOMAIN u /\ u[i + Len(s)] = t[i]
      BY <1>3 DEF u
    <3>3. QED BY <3>1, <3>2 DEF Area
  <2>4. QED BY <2>1, <2>2, <2>3
<1>6. ASSUME Apart(s), Apart(t), Area(s) \cap Area(t) = {} PROVE Apart(u)
  <2> SUFFICES ASSUME NEW i \in DOMAIN u
               PROVE  /\ Pixels(u[i]) # {}
                      /\ \A j \in 1..(i - 1) : Pixels(u[i]) \cap Pixels(u[j]) = {}
    BY DEF Apart
  <2>0. i \in Nat /\ (i \in DOMAIN s => i \in 1..Len(s)) /\ 1..(i - 1) \subseteq DOMAIN u
    BY <1>1 DEF u
  <2>1. CASE i \in DOMAIN s
    <3>1. u[i] = s[i] /\ \A j \in 1..(i - 1) : j \in DOMAIN s /\ u[j] = s[j]
      <4>1. \A j \in 1..(i - 1) : j \in DOMAIN s
        BY <2>1, <2>0, <1>1
      <4>2. QED BY <4>1, <2>1, <1>2 DEF u
    <3>2. QED BY <3>1, <2>1, <1>6 DEF Apart
  <2>2. CASE i \notin DOMAIN s
    <3>1. PICK k \in DOMAIN t : k = i - Len(s) /\ u[i] = t[k]
      BY <2>2, <1>4 DEF u
    <3>2. Pixels(u[i]) # {} /\ Pixels(u[i]) \subseteq Area(t)
      BY <3>1, <1>6 DEF Apart, Area
    <3>3. ASSUME NEW j \in 1..(i - 1) PROVE Pixels(u[i]) \cap Pixels(u[j]) = {}
      <4>1. CASE j \in DOMAIN s
        <5>1. Pixels(u[j]) \subseteq Area(s)
          BY <4>1, <1>2 DEF u, Area
        <5>2. QED BY <5>1, <3>2, <1>6
      <4>2. CASE j \notin DOMAIN s
        <5>1. PICK l \in DOMAIN t : l = j - Len(s) /\ u[j] = t[l]
          BY <4>2, <2>0, <1>4 DEF u
        <5>2. l \in 1..(k - 1)
          BY <5>1, <3>1, <1>1, <2>0
        <5>3. QED BY <5>1, <5>2, <3>1, <1>6 DEF Apart
      <4>3. QED BY <4>1, <4>2
    <3>4. QED BY <3>2, <3>3
  <2>3. QED BY <2>1, <2>2
<1>7. QED BY <1>5, <1>6 DEF u

\* The head of a sequence and the rest of it.
LEMMA AreaTail ==
  ASSUME NEW T, NEW s \in Seq(T), s # <<>>
  PROVE  /\ Area(s) = Pixels(s[1]) \cup Area(Tail(s))
         /\ Apart(s) => Apart(Tail(s)) /\ Pixels(s[1]) \cap Area(Tail(s)) = {}
<1>1. /\ Tail(s) \in Seq(T) /\ DOMAIN s = 1..Len(s) /\ DOMAIN Tail(s) = 1..(Len(s) - 1)
      /\ Len(s) \in Nat \ {0} /\ 1 \in DOMAIN s
  OBVIOUS
<1>2. \A i \in DOMAIN Tail(s) : i + 1 \in DOMAIN s /\ Tail(s)[i] = s[i + 1]
  OBVIOUS
<1> DEFINE t == Tail(s)
<1> HIDE DEF t
<1>3. ASSUME NEW p \in Area(s) PROVE p \in Pixels(s[1]) \cup Area(t)
  <2>1. PICK i \in DOMAIN s : p \in Pixels(s[i])
    BY DEF Area
  <2>2. CASE i = 1
    BY <2>1, <2>2
  <2>3. CASE i # 1
    <3>1. i - 1 \in DOMAIN t /\ (i - 1) + 1 = i
      BY <2>3, <1>1 DEF t
    <3>2. t[i - 1] = s[i]
      BY <3>1, <1>2 DEF t
    <3>3. QED BY <3>1, <3>2, <2>1 DEF Area
  <2>4. QED BY <2>2, <2>3
<1>4. ASSUME NEW p \in Area(t) PROVE \E i \in DOMAIN s : i # 1 /\ p \in Pixels(s[i])
  <2>1. PICK i \in DOMAIN t : p \in Pixels(t[i])
    BY DEF Area
  <2>2. i + 1 \in DOMAIN s /\ t[i] = s[i + 1] /\ i + 1 # 1
    BY <1>1, <1>2 DEF t
  <2>3. QED BY <2>1, <2>2
<1>5. Area(s) = Pixels(s[1]) \cup Area(t)
  <2>1. Area(t) \subseteq Area(s)
    BY <1>4 DEF Area
  <2>2. Pixels(s[1]) \subseteq Area(s)
    BY <1>1 DEF Area
  <2>3. QED BY <1>3, <2>1, <2>2
<1>6. ASSUME Apart(s) PROVE Apart(t) /\ Pixels(s[1]) \cap Area(t) = {}
  <2>1. Pixels(s[1]) \cap Area(t) = {}
    <3>1. ASSUME NEW i \in DOMAIN s, i # 1 PROVE Pixels(s[i]) \cap Pixels(s[1]) = {}
      <4>1. 1 \in 1..(i - 1)
        BY <3>1, <1>1
      <4>2. QED BY <4>1, <1>6 DEF Apart
    <3>2. QED BY <3>1, <1>4
  <2>2. Apart(t)
    <3> SUFFICES ASSUME NEW i \in DOMAIN t
                 PROVE  /\ Pixels(t[i]) # {}
                        /\ \A j \in 1..(i - 1) : Pixels(t[i]) \cap Pixels(t[j]) = {}
      BY DEF Apart
    <3>1. i + 1 \in DOMAIN s /\ t[i] = s[i + 1] /\ i \in Nat
      BY <1>1, <1>2 DEF t
    <3>2. Pixels(t[i]) # {}
      BY <3>1, <1>6 DEF Apart
    <3>3. ASSUME NEW j \in 1..(i - 1) PROVE Pixels(t[i]) \cap Pixels(t[j]) = {}
      <4>1. j \in DOMAIN t /\ j + 1 \in 1..((i + 1) - 1)
        BY <3>1, <1>1 DEF t
      <4>2. t[j] = s[j + 1]
        BY <4>1, <1>2 DEF t
      <4>3. QED BY <3>1, <4>1, <4>2, <1>6 DEF Apart
    <3>4. QED BY <3>2, <3>3
  <2>3. QED BY <2>1, <2>2
<1>7. QED BY <1>5, <1>6 DEF t

-----------------------------------------------------------------------------
(***************************************************************************)
(* The inductive invariant                                                 *)
(***************************************************************************)
Pos == Nat \ {0}
Kinds == {"corre", "lines", "simple", "bands", "columns", "tight", "rows", "solid"}
Frames == [x : Nat, y : Nat, w : Pos, h : Pos, kind : Kinds, dy : Nat]
Pieces == [x : Nat, y : Nat, w : Pos, h : Pos, kind : Kinds]
Screen == (0..(Width - 1)) \X (0..(Height - 1))
Whole(r) == r \in Pieces /\ r.x + r.w <= Width /\ r.y + r.h <= Height

TypeOK ==
  /\ picture \in [Screen -> Colours]
  /\ rect = Nothing \/ Whole(rect)
  /\ announced \in Nat
  /\ todo \in Seq(Frames)
  /\ sent \in Seq(Pieces)

\* What is sent and what the calls on the stack stand for make up the rectangle.
Partition ==
  /\ rect = Nothing => todo = <<>> /\ sent = <<>>
  /\ rect # Nothing => Area(sent) \cup Area(todo) = Pixels(rect)
  /\ Apart(sent) /\ Apart(todo) /\ Area(sent) \cap Area(todo) = {}

\* The rectangles that a call will send, and whether that is known before.
Pending(f) ==
  CASE f.kind = "corre" -> CountCoRRE(f.w, f.h)
    [] f.kind = "lines" -> CountLines(f.w, f.h)
    [] f.kind = "bands" -> ((f.w - 1) \div TightRectWidth + 1) * ((f.h - 1) \div MaxHeight(f.w) + 1)
    [] f.kind = "columns" -> (f.w - 1) \div TightRectWidth + 1
    [] OTHER -> CountTight(f.w, f.h, FALSE)
Known(f) ==
  \/ f.kind \in {"corre", "lines", "simple", "bands", "columns"}
  \/ f.kind = "tight" /\ f.w * f.h < MinSplit

\* g[i]: what the calls from the i-th on will send.
Totals(s, g) ==
  /\ g[Len(s) + 1] = 0
  /\ \A i \in 1..Len(s) : g[i] = Pending(s[i]) + g[i + 1]

\* Unless a marker ends the update, what is announced is what is sent and what the
\* calls on the stack will send.
Counted ==
  \/ announced = LastRect
  \/ /\ \A i \in DOMAIN todo : Known(todo[i])
     /\ \E g \in [1..(Len(todo) + 1) -> Nat] : Totals(todo, g) /\ announced = Len(sent) + g[1]

OneColour(r) == \E c \in Colours : \A p \in Pixels(r) : picture[p] = c

\* What a call on the stack relies on.
FrameOK(f) ==
  /\ f.kind = "solid" => OneColour(f)
  /\ f.kind = "rows" => f.dy >= f.y
  /\ f.kind = "columns" => Lesser(f.w, TightRectWidth) * f.h <= TightRectSize
FramesOK == \A i \in DOMAIN todo : FrameOK(todo[i])

WithPixels == TypeOK /\ Partition /\ Counted /\ FramesOK /\ SolidIsSolid /\ FitsTightBuffer

\* A rectangle without pixels is never cut by Tight, and by CoRRE one limit at a time.
EmptyKinds == {"corre", "lines", "simple", "tight"}
EmptyPieces ==
  {r \in [x : Nat, y : Nat, w : Nat, h : Nat, kind : EmptyKinds] : r.w = 0 \/ r.h = 0}
EmptyCalls ==
  {f \in [x : Nat, y : Nat, w : Nat, h : Nat, kind : EmptyKinds, dy : Nat] : f.w = 0 \/ f.h = 0}
Unseen(s) ==
  s \in Seq(EmptyPieces) /\ \A i \in DOMAIN s : s[i].kind = "simple" => s[i].w <= TightRectWidth

EmptyCoRRE ==
  /\ rect.kind = "corre"
  /\ \/ todo = <<>> /\ announced = Len(sent)
     \/ \E f \in EmptyCalls :
          /\ todo = <<f>> /\ f.kind = "corre"
          /\ announced = Len(sent) + CountCoRRE(f.w, f.h)
     \/ \E f, g \in EmptyCalls :
          /\ todo = <<f, g>> /\ f.kind = "corre" /\ g.kind = "corre"
          /\ f.w <= CorreMax /\ f.h <= CorreMax
          /\ announced = Len(sent) + 1 + CountCoRRE(g.w, g.h)
EmptyLines ==
  /\ rect.kind = "lines" /\ announced = 1 /\ (rect.h = 0 => sent = <<>>)
  /\ \/ todo = <<>>
     \/ \E f \in EmptyCalls :
          todo = <<f>> /\ f.kind = "lines" /\ f.w = rect.w /\ f.h = rect.h
EmptyTight ==
  /\ rect.kind \in {"simple", "tight"}
  /\ \/ todo = <<>>
     \/ \E f \in EmptyCalls :
          todo = <<f>> /\ f.kind \in {"simple", "tight"} /\ f.w = rect.w /\ f.h = rect.h
  /\ rect.w > TightRectWidth => announced > 0 /\ sent = <<>>
  /\ ~(rect.w > TightRectWidth) => announced = Len(sent) + Len(todo)
WithoutPixels ==
  /\ rect \in EmptyPieces /\ Unseen(sent) /\ announced \in Nat
  /\ EmptyCoRRE \/ EmptyLines \/ EmptyTight

IInv == WithPixels \/ WithoutPixels

-----------------------------------------------------------------------------
(***************************************************************************)
(* Rectangles and limits                                                   *)
(***************************************************************************)

\* A rectangle with a width and a height has pixels.
LEMMA NotEmpty ==
  ASSUME NEW f, f.x \in Nat, f.y \in Nat, f.w \in Pos, f.h \in Pos
  PROVE  Pixels(f) # {}
<1>1. f.x \in f.x..(f.x + f.w - 1) /\ f.y \in f.y..(f.y + f.h - 1)
  BY DEF Pos
<1>2. <<f.x, f.y>> \in Pixels(f)
  BY <1>1 DEF Pixels
<1>3. QED BY <1>2

\* The limits of the encodings are positive.
LEMMA LimitsPositive ==
  /\ CorreMax \in Pos /\ Tile \in Pos /\ TightRectWidth \in Pos /\ TightRectSize \in Nat
  /\ MinSplit \in Pos /\ MinSolid \in Pos /\ Width \in Pos /\ Height \in Pos
  /\ \A w \in Pos : MaxLines(w) \in Pos /\ MAX_SIZE(w) \in Nat /\ w * MaxLines(w) <= MAX_SIZE(w)
  /\ \A w \in Pos : /\ MaxHeight(w) \in Pos
                    /\ Lesser(w, TightRectWidth) * MaxHeight(w) <= TightRectSize
<1>1. /\ CorreMax \in Pos /\ Tile \in Pos /\ TightRectWidth \in Pos /\ TightRectSize \in Nat
      /\ MinSplit \in Pos /\ MinSolid \in Pos /\ Width \in Pos /\ Height \in Pos
      /\ MaxRectSize \in Pos /\ TightRectSize >= Tile * TightRectWidth
  BY LimitsAssumption DEF Pos
<1>2. ASSUME NEW w \in Pos
      PROVE  MaxLines(w) \in Pos /\ MAX_SIZE(w) \in Nat /\ w * MaxLines(w) <= MAX_SIZE(w)
  <2> DEFINE n == MAX_SIZE(w)
  <2>1. n \in Nat /\ n >= w * 2 /\ w \in Nat \ {0}
    BY <1>1 DEF MAX_SIZE, Pos
  <2> HIDE DEF n
  <2>2. n \div w \in Nat /\ w * (n \div w) <= n /\ n < w * (n \div w) + w
    BY <2>1, Division
  <2>3. n \div w # 0
    BY <2>1, <2>2
  <2>4. Quot(n, w) = n \div w
    BY <2>1, QuotIs
  <2>5. QED BY <2>1, <2>2, <2>3, <2>4 DEF n, MaxLines, Pos
<1>3. ASSUME NEW w \in Pos
      PROVE  /\ MaxHeight(w) \in Pos
             /\ Lesser(w, TightRectWidth) * MaxHeight(w) <= TightRectSize
  <2> DEFINE m == Lesser(w, TightRectWidth)
  <2>1. m \in Nat \ {0} /\ m <= TightRectWidth
    BY <1>1 DEF Lesser, Pos
  <2> HIDE DEF m
  <2>2. Tile * TightRectWidth >= m
    <3>1. (Tile - 1) * TightRectWidth >= 0
      BY <1>1 DEF Pos
    <3>2. (Tile - 1) * TightRectWidth = Tile * TightRectWidth - TightRectWidth
      BY <1>1 DEF Pos
    <3>3. Tile * TightRectWidth \in Int
      BY <1>1 DEF Pos
    <3>4. QED BY <3>1, <3>2, <3>3, <2>1, <1>1 DEF Pos
  <2>3. m <= TightRectSize
    <3>1. Tile * TightRectWidth \in Int
      BY <1>1 DEF Pos
    <3>2. QED BY <3>1, <2>1, <2>2, <1>1
  <2> DEFINE q == TightRectSize \div m
  <2>4. q \in Nat /\ m * q <= TightRectSize /\ TightRectSize < m * q + m
    BY <2>1, <1>1, Division
  <2>5. q # 0
    <3> HIDE DEF q
    <3>1. SUFFICES ASSUME q = 0 PROVE FALSE
      OBVIOUS
    <3>2. m * q = 0
      BY <3>1, <2>1
    <3>3. QED BY <3>2, <2>1, <2>3, <2>4, <1>1
  <2>6. QED BY <2>4, <2>5 DEF m, q, MaxHeight, Pos
<1>4. QED BY <1>1, <1>2, <1>3

\* The counts of a rectangle with pixels.
LEMMA CountsAre ==
  ASSUME NEW w \in Pos, NEW h \in Pos
  PROVE  /\ CountCoRRE(w, h) = ((w - 1) \div CorreMax + 1) * ((h - 1) \div CorreMax + 1)
         /\ CountLines(w, h) = (h - 1) \div MaxLines(w) + 1
         /\ TooLarge(w, h) =>
              CountTight(w, h, FALSE)
                = ((w - 1) \div TightRectWidth + 1) * ((h - 1) \div MaxHeight(w) + 1)
         /\ ~TooLarge(w, h) => CountTight(w, h, FALSE) = 1
<1>1. /\ w - 1 \in Nat /\ h - 1 \in Nat /\ CorreMax \in Nat \ {0} /\ TightRectWidth \in Nat \ {0}
      /\ MaxLines(w) \in Nat \ {0} /\ MaxHeight(w) \in Nat \ {0}
  BY LimitsPositive DEF Pos
<1>2. /\ Quot(w - 1, CorreMax) = (w - 1) \div CorreMax
      /\ Quot(h - 1, CorreMax) = (h - 1) \div CorreMax
      /\ Quot(h - 1, MaxLines(w)) = (h - 1) \div MaxLines(w)
      /\ Quot(w - 1, TightRectWidth) = (w - 1) \div TightRectWidth
      /\ Quot(h - 1, MaxHeight(w)) = (h - 1) \div MaxHeight(w)
  BY <1>1, QuotIs
<1>3. QED BY <1>2 DEF CountCoRRE, CountLines, CountTight

\* The count of a known call is a number.
LEMMA KnownPending ==
  ASSUME NEW f \in Frames
  PROVE  Pending(f) \in Nat
<1>1. f.w \in Pos /\ f.h \in Pos /\ f.w - 1 \in Nat /\ f.h - 1 \in Nat
  BY DEF Frames, Pos
<1>2. /\ (f.w - 1) \div CorreMax \in Nat /\ (f.h - 1) \div CorreMax \in Nat
      /\ (f.w - 1) \div TightRectWidth \in Nat
  BY <1>1, LimitsPositive, Division DEF Pos
<1>3. (f.h - 1) \div MaxLines(f.w) \in Nat /\ (f.h - 1) \div MaxHeight(f.w) \in Nat
  <2>1. MaxLines(f.w) \in Nat \ {0} /\ MaxHeight(f.w) \in Nat \ {0}
    BY <1>1, LimitsPositive DEF Pos
  <2>2. QED BY <1>1, <2>1, Division
<1>4. /\ CountCoRRE(f.w, f.h) \in Nat /\ CountLines(f.w, f.h) \in Nat
      /\ ((f.w - 1) \div TightRectWidth + 1) * ((f.h - 1) \div MaxHeight(f.w) + 1) \in Nat
      /\ CountTight(f.w, f.h, FALSE) \in Nat
  <2> DEFINE a == (f.w - 1) \div CorreMax
             b == (f.h - 1) \div CorreMax
             c == (f.w - 1) \div TightRectWidth
             d == (f.h - 1) \div MaxHeight(f.w)
             e == (f.h - 1) \div MaxLines(f.w)
  <2>1. a \in Nat /\ b \in Nat /\ c \in Nat /\ d \in Nat /\ e \in Nat
    BY <1>2, <1>3
  <2>2. /\ CountCoRRE(f.w, f.h) = (a + 1) * (b + 1) /\ CountLines(f.w, f.h) = e + 1
        /\ TooLarge(f.w, f.h) => CountTight(f.w, f.h, FALSE) = (c + 1) * (d + 1)
        /\ ~TooLarge(f.w, f.h) => CountTight(f.w, f.h, FALSE) = 1
    BY <1>1, CountsAre
  <2> HIDE DEF a, b, c, d, e
  <2>3. (a + 1) * (b + 1) \in Nat /\ e + 1 \in Nat /\ (c + 1) * (d + 1) \in Nat /\ 1 \in Nat
    BY <2>1
  <2>4. CountTight(f.w, f.h, FALSE) \in Nat
    BY <2>2, <2>3, Zenon
  <2>5. QED BY <2>2, <2>3, <2>4, Zenon DEF c, d
<1>5. (f.w - 1) \div TightRectWidth + 1 \in Nat
  BY <1>2
<1>6. QED BY <1>4, <1>5, Zenon DEF Pending

-----------------------------------------------------------------------------
(***************************************************************************)
(* A step of the call at the top                                           *)
(***************************************************************************)

\* What sends out and leaves calls instead of f covers f, piece by piece, and sends
\* as many rectangles as f was to send.
PieceOK(r) ==
  /\ r.kind = "solid" => OneColour(r)
  /\ r.kind = "simple" => r.w <= TightRectWidth /\ r.w * r.h <= TightRectSize
SameArea(f, out, calls) ==
  /\ Area(out) \cup Area(calls) = Pixels(f) /\ Area(out) \cap Area(calls) = {}
  /\ Apart(out) /\ Apart(calls)
SameCount(f, out, calls) ==
  Known(f) =>
    /\ \A i \in DOMAIN calls : Known(calls[i])
    /\ \E g \in [1..(Len(calls) + 1) -> Nat] : Totals(calls, g) /\ Pending(f) = Len(out) + g[1]
StandsFor(f, out, calls) ==
  /\ out \in Seq(Pieces) /\ \A i \in DOMAIN out : PieceOK(out[i])
  /\ calls \in Seq(Frames) /\ \A i \in DOMAIN calls : FrameOK(calls[i])
  /\ SameArea(f, out, calls) /\ SameCount(f, out, calls)
Replaces(out, calls) ==
  /\ sent' = sent \o out /\ todo' = calls \o Tail(todo)
  /\ picture' = picture /\ rect' = rect /\ announced' = announced

\* The elements of a concatenation are those of its parts.
LEMMA ConcatElements ==
  ASSUME NEW T, NEW s \in Seq(T), NEW t \in Seq(T), NEW i \in DOMAIN (s \o t)
  PROVE  \/ i \in DOMAIN s /\ (s \o t)[i] = s[i]
         \/ i - Len(s) \in DOMAIN t /\ (s \o t)[i] = t[i - Len(s)]
OBVIOUS

\* The calls below the one at the top.
LEMMA TailElements ==
  ASSUME NEW T, NEW s \in Seq(T), s # <<>>
  PROVE  /\ Tail(s) \in Seq(T) /\ Len(Tail(s)) = Len(s) - 1 /\ Len(s) \in Pos
         /\ 1 \in DOMAIN s /\ s[1] \in T
         /\ \A i \in DOMAIN Tail(s) : i + 1 \in DOMAIN s /\ Tail(s)[i] = s[i + 1]
BY DEF Pos

\* The partition of the rectangle is kept,
LEMMA StepPartition ==
  ASSUME TypeOK, Partition, todo # <<>>, NEW out, NEW calls, Replaces(out, calls),
         StandsFor(todo[1], out, calls)
  PROVE  Partition'
<1>1. /\ todo \in Seq(Frames) /\ Tail(todo) \in Seq(Frames) /\ calls \in Seq(Frames)
      /\ sent \in Seq(Pieces) /\ out \in Seq(Pieces)
  BY TailElements DEF TypeOK, StandsFor
<1>2. /\ Area(todo) = Pixels(todo[1]) \cup Area(Tail(todo))
      /\ Apart(Tail(todo)) /\ Pixels(todo[1]) \cap Area(Tail(todo)) = {}
  BY <1>1, AreaTail DEF Partition
<1>3. SameArea(todo[1], out, calls)
  BY DEF StandsFor
<1>4. /\ rect # Nothing /\ Area(sent) \cup Area(todo) = Pixels(rect)
      /\ Apart(sent) /\ Area(sent) \cap Area(todo) = {}
  BY DEF Partition
<1>5. Area(sent') = Area(sent) \cup Area(out)
  BY <1>1, AreaConcat DEF Replaces
<1>6. Area(todo') = Area(calls) \cup Area(Tail(todo))
  BY <1>1, AreaConcat DEF Replaces
<1>7. Apart(sent')
  <2>1. Area(sent) \cap Area(out) = {}
    BY <1>2, <1>3, <1>4 DEF SameArea
  <2>2. QED BY <1>1, <1>3, <1>4, <2>1, AreaConcat DEF Replaces, SameArea
<1>8. Apart(todo')
  <2>1. Area(calls) \cap Area(Tail(todo)) = {}
    BY <1>2, <1>3 DEF SameArea
  <2>2. QED BY <1>1, <1>2, <1>3, <2>1, AreaConcat DEF Replaces, SameArea
<1>9. Area(sent') \cap Area(todo') = {} /\ Area(sent') \cup Area(todo') = Pixels(rect)
  BY <1>2, <1>3, <1>4, <1>5, <1>6 DEF SameArea
<1>10. rect' = rect
  BY DEF Replaces
<1>11. QED BY <1>4, <1>7, <1>8, <1>9, <1>10 DEF Partition, Area, Apart, Pixels, Nothing, Rect

\* what is announced,
LEMMA StepCounted ==
  ASSUME TypeOK, Counted, todo # <<>>, NEW out, NEW calls, Replaces(out, calls),
         StandsFor(todo[1], out, calls)
  PROVE  Counted'
<1>0. announced' = announced
  BY DEF Replaces
<1>a. CASE announced = LastRect
  BY <1>a, <1>0 DEF Counted
<1>b. CASE announced # LastRect
  <2>1. \A i \in DOMAIN todo : Known(todo[i])
    BY <1>b DEF Counted
  <2>2. PICK g \in [1..(Len(todo) + 1) -> Nat] : Totals(todo, g) /\ announced = Len(sent) + g[1]
    BY <1>b DEF Counted
  <2> DEFINE t == Tail(todo)
  <2>3. /\ todo \in Seq(Frames) /\ t \in Seq(Frames) /\ calls \in Seq(Frames)
        /\ sent \in Seq(Pieces) /\ out \in Seq(Pieces) /\ 1 \in DOMAIN todo
    BY TailElements DEF TypeOK, StandsFor
  <2>4. /\ Len(t) = Len(todo) - 1 /\ Len(todo) \in Pos
        /\ \A i \in DOMAIN t : i + 1 \in DOMAIN todo /\ t[i] = todo[i + 1]
    BY <2>3, TailElements
  <2> HIDE DEF t
  <2>5. PICK c \in [1..(Len(calls) + 1) -> Nat] :
          Totals(calls, c) /\ Pending(todo[1]) = Len(out) + c[1]
    BY <2>1, <2>3 DEF StandsFor, SameCount
  <2>6. \A i \in DOMAIN calls : Known(calls[i])
    BY <2>1, <2>3 DEF StandsFor, SameCount
  <2> DEFINE n == Len(calls)
             u == calls \o t
             k == [i \in 1..(Len(u) + 1) |-> IF i <= n THEN c[i] + g[2] ELSE g[i - n + 1]]
  <2>7. /\ u \in Seq(Frames) /\ Len(u) = n + Len(t) /\ n \in Nat /\ Len(t) \in Nat
        /\ DOMAIN t = 1..Len(t) /\ DOMAIN calls = 1..n /\ DOMAIN u = 1..Len(u)
    BY <2>3
  <2>8. \A i \in DOMAIN u : Known(u[i])
    <3> SUFFICES ASSUME NEW i \in DOMAIN u PROVE Known(u[i])
      OBVIOUS
    <3>1. \/ i \in DOMAIN calls /\ u[i] = calls[i]
          \/ i - n \in DOMAIN t /\ u[i] = t[i - n]
      BY <2>3, ConcatElements
    <3>2. QED BY <3>1, <2>1, <2>4, <2>6
  <2>a. n \in Nat
    BY <2>7
  <2>b. \A j \in 1..(Len(u) + 1) : j <= n => k[j] = c[j] + g[2]
    OBVIOUS
  <2>c. \A j \in 1..(Len(u) + 1) : ~(j <= n) => k[j] = g[j - n + 1]
    OBVIOUS
  <2>9. k \in [1..(Len(u) + 1) -> Nat]
    <3>1. ASSUME NEW i \in 1..(Len(u) + 1), i <= n PROVE c[i] + g[2] \in Nat
      <4>1. i \in 1..(n + 1) /\ 2 \in 1..(Len(todo) + 1)
        BY <3>1, <2>7, <2>4 DEF Pos
      <4>2. QED BY <4>1
    <3>2. ASSUME NEW i \in 1..(Len(u) + 1), ~(i <= n) PROVE g[i - n + 1] \in Nat
      <4>1. i - n + 1 \in 1..(Len(todo) + 1)
        BY <3>2, <2>7, <2>4 DEF Pos
      <4>2. QED BY <4>1
    <3> HIDE DEF n, u
    <3>3. QED BY <3>1, <3>2
  <2>10. Totals(u, k)
    <3>1. k[Len(u) + 1] = 0
      <4>1. /\ Len(u) + 1 \in 1..(Len(u) + 1) /\ ~(Len(u) + 1 <= n)
            /\ Len(u) + 1 - n + 1 = Len(todo) + 1
        BY <2>7, <2>4 DEF Pos
      <4> HIDE DEF n, u
      <4>2. k[Len(u) + 1] = g[Len(u) + 1 - n + 1]
        <5>1. PICK j \in 1..(Len(u) + 1) : j = Len(u) + 1
          BY <4>1
        <5>2. k[j] = g[j - n + 1]
          <6>1. ~(j <= n)
            BY <5>1, <4>1
          <6> HIDE DEF k, u, n
          <6>2. QED BY <6>1, <2>c
        <5>3. QED BY <5>1, <5>2, <2>7
      <4>3. g[Len(todo) + 1] = 0
        BY <2>2 DEF Totals
      <4>4. QED BY <4>1, <4>2, <4>3
    <3>2. ASSUME NEW i \in 1..Len(u) PROVE k[i] = Pending(u[i]) + k[i + 1]
      <4>0. i \in 1..(Len(u) + 1) /\ i + 1 \in 1..(Len(u) + 1) /\ i \in Nat
        BY <2>7
      <4>1. CASE i < n
        <5>1. i \in 1..n /\ i <= n /\ i + 1 <= n /\ i \in 1..(n + 1) /\ i + 1 \in 1..(n + 1)
          BY <4>1, <4>0, <2>7
        <5>2. u[i] = calls[i]
          BY <5>1, <2>3, <2>7
        <5>3. c[i] = Pending(calls[i]) + c[i + 1]
          BY <5>1, <2>5 DEF Totals
        <5>4. k[i] = c[i] + g[2] /\ k[i + 1] = c[i + 1] + g[2]
          <6> HIDE DEF n, u
          <6> QED BY <4>0, <5>1
        <5>5. c[i] \in Nat /\ c[i + 1] \in Nat /\ g[2] \in Nat
          <6>1. 2 \in 1..(Len(todo) + 1)
            BY <2>4 DEF Pos
          <6>2. QED BY <6>1, <5>1
        <5>6. Pending(calls[i]) = c[i] - c[i + 1]
          <6>1. Pending(calls[i]) \in Nat
            BY <2>3, <2>7, <5>1, KnownPending
          <6>2. QED BY <5>3, <5>5, <6>1
        <5>7. Pending(calls[i]) \in Nat
          BY <2>3, <2>7, <5>1, KnownPending
        <5>8. QED BY ONLY <5>2, <5>4, <5>5, <5>6, <5>7
      <4>2. CASE i = n
        <5>1. i \in 1..n /\ i <= n /\ ~(i + 1 <= n) /\ i \in 1..(n + 1) /\ i + 1 - n + 1 = 2
          BY <4>2, <4>0, <2>7
        <5>2. u[i] = calls[i]
          BY <5>1, <2>3, <2>7
        <5>3. c[i] = Pending(calls[i]) + c[i + 1] /\ c[i + 1] = 0
          BY <5>1, <4>2, <2>5 DEF Totals
        <5>4. k[i] = c[i] + g[2] /\ k[i + 1] = g[2]
          <6>1. PICK j \in 1..(Len(u) + 1) : j = i + 1
            BY <4>0
          <6>2. ~(j <= n)
            BY <5>1, <6>1
          <6> HIDE DEF n, u, k
          <6>3. k[j] = g[j - n + 1]
            BY <6>2, <2>c
          <6>4. k[i] = c[i] + g[2]
            BY <4>0, <5>1, <2>b
          <6>5. QED BY <6>1, <6>3, <6>4, <5>1, <4>0, <2>a
        <5>5. c[i] \in Nat /\ g[2] \in Nat
          <6>1. 2 \in 1..(Len(todo) + 1)
            BY <2>4 DEF Pos
          <6>2. QED BY <6>1, <5>1
        <5>6. Pending(calls[i]) \in Nat
          BY <2>3, <2>6, <2>7, <5>1, KnownPending
        <5>7. QED BY <5>2, <5>3, <5>4, <5>5, <5>6
      <4>3. CASE i > n
        <5>1. /\ ~(i <= n) /\ ~(i + 1 <= n) /\ i - n \in DOMAIN t /\ i - n + 1 \in 1..Len(todo)
              /\ i + 1 - n + 1 = (i - n + 1) + 1
          BY <4>3, <4>0, <2>7, <2>4 DEF Pos
        <5>2. u[i] = t[i - n]
          BY <4>3, <4>0, <2>3, <2>7
        <5>3. t[i - n] = todo[i - n + 1]
          BY <5>1, <2>4
        <5>4. g[i - n + 1] = Pending(todo[i - n + 1]) + g[(i - n + 1) + 1]
          BY <5>1, <2>2 DEF Totals
        <5>5. k[i] = g[i - n + 1] /\ k[i + 1] = g[i + 1 - n + 1]
          <6> HIDE DEF n, u
          <6>1. k[i] = g[i - n + 1]
            BY <4>0, <5>1
          <6>2. k[i + 1] = g[i + 1 - n + 1]
            <7>1. PICK j \in 1..(Len(u) + 1) : j = i + 1
              BY <4>0
            <7>2. ~(j <= n)
              BY <5>1, <7>1
            <7> HIDE DEF n, u, k
            <7>3. k[j] = g[j - n + 1]
              BY <7>2, <2>c
            <7>4. QED BY <7>1, <7>3, <4>0, <2>a
          <6>3. QED BY <6>1, <6>2
        <5>6. QED BY <5>1, <5>2, <5>3, <5>4, <5>5
      <4>4. i < n \/ i = n \/ i > n
        <5>1. i \in Nat
          BY <4>0
        <5> HIDE DEF k, u, n
        <5>2. QED BY ONLY <5>1, <2>a
      <4> HIDE DEF k, u
      <4>5. QED BY <4>1, <4>2, <4>3, <4>4
    <3> HIDE DEF k, u
    <3>3. QED BY <3>1, <3>2 DEF Totals
  <2>11. announced = Len(sent \o out) + k[1]
    <3>1. k[1] = c[1] + g[2]
      <4>1. CASE n = 0
        <5>1. ~(1 <= n) /\ 1 - n + 1 = 2 /\ 1 \in 1..(Len(u) + 1) /\ Len(calls) + 1 = 1
          BY <4>1, <2>7
        <5>2. c[1] = 0
          BY <5>1, <2>5 DEF Totals
        <5>3. k[1] = g[2]
          <6> HIDE DEF n, u
          <6> QED BY <5>1
        <5>4. g[2] \in Nat
          <6>1. 2 \in 1..(Len(todo) + 1)
            BY <2>4 DEF Pos
          <6>2. QED BY <6>1
        <5>5. QED BY <5>2, <5>3, <5>4
      <4>2. CASE n # 0
        <5>1. 1 <= n /\ 1 \in 1..(Len(u) + 1)
          BY <4>2, <2>7
        <5> HIDE DEF n, u
        <5>2. QED BY <5>1
      <4>3. QED BY <4>1, <4>2
    <3>2. g[1] = Pending(todo[1]) + g[2]
      <4>1. 1 \in 1..Len(todo)
        BY <2>4 DEF Pos
      <4>2. QED BY <4>1, <2>2 DEF Totals
    <3>3. Len(sent \o out) = Len(sent) + Len(out) /\ Len(sent) \in Nat /\ Len(out) \in Nat
      BY <2>3
    <3>4. c[1] \in Nat /\ g[2] \in Nat /\ g[1] \in Nat
      <4>1. 2 \in 1..(Len(todo) + 1) /\ 1 \in 1..(Len(todo) + 1) /\ 1 \in 1..(n + 1)
        BY <2>4, <2>7 DEF Pos
      <4>2. QED BY <4>1
    <3>5. QED BY <3>1, <3>2, <3>3, <3>4, <2>2, <2>5
  <2>12. todo' = u /\ sent' = sent \o out
    BY DEF Replaces, t
  <2> HIDE DEF u, k
  <2>13. QED BY <2>8, <2>9, <2>10, <2>11, <2>12, <1>0 DEF Counted, Totals, Known, Pending,
             CountCoRRE, CountLines, CountTight, MaxHeight, MaxLines, MAX_SIZE, TooLarge, Lesser
<1>1. QED BY <1>a, <1>b

\* and what the calls on the stack and the rectangles sent are known to be.
LEMMA StepPieces ==
  ASSUME TypeOK, FramesOK, SolidIsSolid, FitsTightBuffer, todo # <<>>, NEW out, NEW calls,
         Replaces(out, calls), StandsFor(todo[1], out, calls)
  PROVE  TypeOK' /\ FramesOK' /\ SolidIsSolid' /\ FitsTightBuffer'
<1>1. /\ todo \in Seq(Frames) /\ Tail(todo) \in Seq(Frames) /\ calls \in Seq(Frames)
      /\ sent \in Seq(Pieces) /\ out \in Seq(Pieces)
  BY TailElements DEF TypeOK, StandsFor
<1>2. TypeOK'
  <2>1. todo' \in Seq(Frames) /\ sent' \in Seq(Pieces)
    BY <1>1 DEF Replaces
  <2>2. /\ picture' \in [Screen -> Colours] /\ (rect' = Nothing \/ Whole(rect'))
        /\ announced' \in Nat
    BY DEF Replaces, TypeOK
  <2>3. QED BY <2>1, <2>2 DEF TypeOK, Whole, Nothing, Rect
<1>3. ASSUME NEW i \in DOMAIN todo' PROVE FrameOK(todo'[i])
  <2>1. todo' = calls \o Tail(todo)
    BY DEF Replaces
  <2>2. \/ i \in DOMAIN calls /\ todo'[i] = calls[i]
        \/ i - Len(calls) \in DOMAIN Tail(todo) /\ todo'[i] = Tail(todo)[i - Len(calls)]
    BY <1>1, <2>1, ConcatElements
  <2>3. CASE i \in DOMAIN calls /\ todo'[i] = calls[i]
    BY <2>3 DEF StandsFor
  <2>4. CASE i - Len(calls) \in DOMAIN Tail(todo) /\ todo'[i] = Tail(todo)[i - Len(calls)]
    <3>1. PICK j \in DOMAIN todo : todo'[i] = todo[j]
      BY <2>4, <1>1, TailElements
    <3>2. QED BY <3>1 DEF FramesOK
  <2>5. QED BY <2>2, <2>3, <2>4
<1>4. ASSUME NEW i \in DOMAIN sent' PROVE PieceOK(sent'[i])
  <2>1. sent' = sent \o out
    BY DEF Replaces
  <2>2. \/ i \in DOMAIN sent /\ sent'[i] = sent[i]
        \/ i - Len(sent) \in DOMAIN out /\ sent'[i] = out[i - Len(sent)]
    BY <1>1, <2>1, ConcatElements
  <2>3. CASE i \in DOMAIN sent /\ sent'[i] = sent[i]
    BY <2>3 DEF PieceOK, SolidIsSolid, FitsTightBuffer, OneColour
  <2>4. CASE i - Len(sent) \in DOMAIN out /\ sent'[i] = out[i - Len(sent)]
    BY <2>4 DEF StandsFor
  <2>5. QED BY <2>2, <2>3, <2>4
<1>5. picture' = picture
  BY DEF Replaces
<1>6. FramesOK'
  BY <1>3, <1>5 DEF FramesOK, FrameOK, OneColour, Pixels, Lesser
<1>7. SolidIsSolid' /\ FitsTightBuffer'
  BY <1>4, <1>5 DEF SolidIsSolid, FitsTightBuffer, PieceOK, OneColour, Pixels
<1>8. QED BY <1>2, <1>6, <1>7

\* So the inductive invariant is kept.
LEMMA StepIInv ==
  ASSUME WithPixels, todo # <<>>, NEW out, NEW calls, Replaces(out, calls),
         StandsFor(todo[1], out, calls)
  PROVE  WithPixels'
<1>1. TypeOK /\ Partition /\ Counted /\ FramesOK /\ SolidIsSolid /\ FitsTightBuffer
  BY DEF WithPixels
<1>2. Partition' /\ Counted'
  BY <1>1, StepPartition, StepCounted
<1>3. TypeOK' /\ FramesOK' /\ SolidIsSolid' /\ FitsTightBuffer'
  BY <1>1, StepPieces
<1>4. QED BY <1>2, <1>3 DEF WithPixels

-----------------------------------------------------------------------------
(***************************************************************************)
(* Cutting a rectangle                                                     *)
(***************************************************************************)
Box(x, y, w, h) == (x..(x + w - 1)) \X (y..(y + h - 1))

\* Calls and rectangles of that size.
LEMMA CallIs ==
  ASSUME NEW x \in Nat, NEW y \in Nat, NEW w \in Pos, NEW h \in Pos, NEW kind \in Kinds
  PROVE  /\ Call(x, y, w, h, kind) \in Frames
         /\ Rect(x, y, w, h, kind) \in Pieces
         /\ Pixels(Call(x, y, w, h, kind)) = Box(x, y, w, h)
         /\ Pixels(Rect(x, y, w, h, kind)) = Box(x, y, w, h)
         /\ Box(x, y, w, h) # {}
<1>1. Call(x, y, w, h, kind) \in Frames /\ Rect(x, y, w, h, kind) \in Pieces
  BY DEF Call, Rect, Frames, Pieces
<1>2. /\ Pixels(Call(x, y, w, h, kind)) = Box(x, y, w, h)
      /\ Pixels(Rect(x, y, w, h, kind)) = Box(x, y, w, h)
  BY DEF Pixels, Call, Rect, Box
<1>3. Box(x, y, w, h) # {}
  <2>1. x \in x..(x + w - 1) /\ y \in y..(y + h - 1)
    BY DEF Pos
  <2>2. <<x, y>> \in Box(x, y, w, h)
    BY <2>1 DEF Box
  <2>3. QED BY <2>2
<1>4. QED BY <1>1, <1>2, <1>3

\* One call, and the call for a part that may be empty.
LEMMA CallArea ==
  ASSUME NEW x \in Nat, NEW y \in Nat, NEW w \in Pos, NEW h \in Pos, NEW kind \in Kinds
  PROVE  /\ <<Call(x, y, w, h, kind)>> \in Seq(Frames)
         /\ <<Rect(x, y, w, h, kind)>> \in Seq(Pieces)
         /\ Area(<<Call(x, y, w, h, kind)>>) = Box(x, y, w, h)
         /\ Area(<<Rect(x, y, w, h, kind)>>) = Box(x, y, w, h)
         /\ Apart(<<Call(x, y, w, h, kind)>>) /\ Apart(<<Rect(x, y, w, h, kind)>>)
BY CallIs, AreaOne

\* Calls for a box.
Covers(s, x, y, w, h) == s \in Seq(Frames) /\ Area(s) = Box(x, y, w, h) /\ Apart(s)

\* Pieces for a box.
Fills(s, x, y, w, h) == s \in Seq(Pieces) /\ Area(s) = Box(x, y, w, h) /\ Apart(s)

\* One call and one piece.
LEMMA OneIsEnough ==
  ASSUME NEW x \in Nat, NEW y \in Nat, NEW w \in Pos, NEW h \in Pos, NEW kind \in Kinds
  PROVE  /\ Covers(<<Call(x, y, w, h, kind)>>, x, y, w, h)
         /\ Fills(<<Rect(x, y, w, h, kind)>>, x, y, w, h)
<1> DEFINE a == <<Call(x, y, w, h, kind)>>
           r == <<Rect(x, y, w, h, kind)>>
<1>1. /\ a \in Seq(Frames) /\ r \in Seq(Pieces)
      /\ Area(a) = Box(x, y, w, h) /\ Area(r) = Box(x, y, w, h) /\ Apart(a) /\ Apart(r)
  BY CallArea
<1> HIDE DEF a, r
<1>2. Covers(a, x, y, w, h) /\ Fills(r, x, y, w, h)
  BY <1>1 DEF Covers, Fills
<1>3. QED BY <1>2 DEF a, r

\* The call for a part.
LEMMA CallForArea ==
  ASSUME NEW x \in Nat, NEW y \in Nat, NEW w \in Nat, NEW h \in Nat, NEW kind \in Kinds
  PROVE  Covers(CallFor(x, y, w, h, kind), x, y, w, h)
<1>1. CASE w = 0 \/ h = 0
  <2>1. CallFor(x, y, w, h, kind) = <<>>
    BY <1>1 DEF CallFor
  <2>2. x..(x + w - 1) = {} \/ y..(y + h - 1) = {}
    BY <1>1
  <2>3. Box(x, y, w, h) = {}
    BY <2>2 DEF Box
  <2>4. <<>> \in Seq(Frames)
    OBVIOUS
  <2>5. QED BY <2>1, <2>3, <2>4, AreaEmpty DEF Covers
<1>2. CASE ~(w = 0 \/ h = 0)
  <2>1. w \in Pos /\ h \in Pos
    BY <1>2 DEF Pos
  <2>2. CallFor(x, y, w, h, kind) = <<Call(x, y, w, h, kind)>>
    BY <1>2 DEF CallFor
  <2>3. Covers(<<Call(x, y, w, h, kind)>>, x, y, w, h)
    BY <2>1, OneIsEnough
  <2>4. QED BY <2>2, <2>3
<1>3. QED BY <1>1, <1>2

\* A cut across and a cut down.
LEMMA CutLines ==
  ASSUME NEW x \in Nat, NEW y \in Nat, NEW w \in Nat, NEW h \in Nat, NEW a \in 0..h
  PROVE  /\ Box(x, y, w, h) = Box(x, y, w, a) \cup Box(x, y + a, w, h - a)
         /\ Box(x, y, w, a) \cap Box(x, y + a, w, h - a) = {}
<1> DEFINE X == x..(x + w - 1)
<1> HIDE DEF X
<1>1. /\ y..(y + h - 1) = (y..(y + a - 1)) \cup ((y + a)..(y + a + (h - a) - 1))
      /\ (y..(y + a - 1)) \cap ((y + a)..(y + a + (h - a) - 1)) = {}
  OBVIOUS
<1>2. ASSUME NEW A, NEW B, NEW C, C = A \cup B, A \cap B = {}
      PROVE  X \X C = (X \X A) \cup (X \X B) /\ (X \X A) \cap (X \X B) = {}
  BY <1>2
<1>3. QED BY <1>1, <1>2 DEF Box, X

\* Down.
LEMMA CutColumns ==
  ASSUME NEW x \in Nat, NEW y \in Nat, NEW w \in Nat, NEW h \in Nat, NEW a \in 0..w
  PROVE  /\ Box(x, y, w, h) = Box(x, y, a, h) \cup Box(x + a, y, w - a, h)
         /\ Box(x, y, a, h) \cap Box(x + a, y, w - a, h) = {}
<1> DEFINE Y == y..(y + h - 1)
<1> HIDE DEF Y
<1>1. /\ x..(x + w - 1) = (x..(x + a - 1)) \cup ((x + a)..(x + a + (w - a) - 1))
      /\ (x..(x + a - 1)) \cap ((x + a)..(x + a + (w - a) - 1)) = {}
  OBVIOUS
<1>2. ASSUME NEW A, NEW B, NEW C, C = A \cup B, A \cap B = {}
      PROVE  C \X Y = (A \X Y) \cup (B \X Y) /\ (A \X Y) \cap (B \X Y) = {}
  BY <1>2
<1>3. QED BY <1>1, <1>2 DEF Box, Y

\* The rectangle of a call.
LEMMA FrameBox ==
  ASSUME NEW f \in Frames
  PROVE  /\ f.x \in Nat /\ f.y \in Nat /\ f.w \in Pos /\ f.h \in Pos /\ f.kind \in Kinds
         /\ f.dy \in Nat /\ Pixels(f) = Box(f.x, f.y, f.w, f.h)
BY DEF Frames, Pixels, Box

\* How many rectangles none, one and two calls send.
LEMMA CountNone ==
  ASSUME NEW f, NEW out, Known(f) => Pending(f) = Len(out) /\ Len(out) \in Nat
  PROVE  SameCount(f, out, <<>>)
<1> DEFINE g == [i \in 1..1 |-> 0]
<1>1. Len(<<>>) + 1 = 1 /\ g \in [1..1 -> Nat] /\ g[1] = 0 /\ DOMAIN <<>> = {}
  OBVIOUS
<1> HIDE DEF g
<1>2. Totals(<<>>, g)
  BY <1>1 DEF Totals
<1>3. ASSUME Known(f) PROVE Pending(f) = Len(out) + g[1]
  BY <1>1, <1>3
<1>4. QED BY <1>1, <1>2, <1>3 DEF SameCount

\* One call.
LEMMA CountOne ==
  ASSUME NEW f, NEW out, NEW a, Len(out) \in Nat, Pending(a) \in Nat,
         Known(f) => Known(a) /\ Pending(f) = Len(out) + Pending(a)
  PROVE  SameCount(f, out, <<a>>)
<1> DEFINE g == [i \in 1..2 |-> IF i = 1 THEN Pending(a) ELSE 0]
<1>1. Len(<<a>>) = 1 /\ Len(<<a>>) + 1 = 2 /\ DOMAIN <<a>> = {1} /\ <<a>>[1] = a
  OBVIOUS
<1>2. g \in [1..2 -> Nat] /\ g[1] = Pending(a) /\ g[2] = 0
  OBVIOUS
<1> HIDE DEF g
<1>3. Totals(<<a>>, g)
  BY <1>1, <1>2 DEF Totals
<1>4. QED BY <1>1, <1>2, <1>3 DEF SameCount

\* Two calls.
LEMMA CountTwo ==
  ASSUME NEW f, NEW out, NEW a, NEW b, Len(out) \in Nat, Pending(a) \in Nat, Pending(b) \in Nat,
         Known(f) => Known(a) /\ Known(b) /\ Pending(f) = Len(out) + Pending(a) + Pending(b)
  PROVE  SameCount(f, out, <<a, b>>)
<1> DEFINE g == [i \in 1..3 |-> IF i = 1 THEN Pending(a) + Pending(b)
                                ELSE IF i = 2 THEN Pending(b) ELSE 0]
<1>1. /\ Len(<<a, b>>) = 2 /\ Len(<<a, b>>) + 1 = 3 /\ DOMAIN <<a, b>> = {1, 2}
      /\ <<a, b>>[1] = a /\ <<a, b>>[2] = b
  OBVIOUS
<1>2. /\ g \in [1..3 -> Nat] /\ g[1] = Pending(a) + Pending(b) /\ g[2] = Pending(b) /\ g[3] = 0
  OBVIOUS
<1> HIDE DEF g
<1>3. Totals(<<a, b>>, g)
  <2>1. g[2] = Pending(b) + g[3] /\ g[1] = Pending(a) + g[2]
    BY <1>2
  <2>2. \A i \in 1..2 : i = 1 \/ i = 2
    OBVIOUS
  <2>3. 1 + 1 = 2 /\ 2 + 1 = 3
    OBVIOUS
  <2>4. QED BY <1>1, <1>2, <2>1, <2>2, <2>3 DEF Totals
<1>4. QED BY <1>1, <1>2, <1>3 DEF SameCount

\* The two kinds of steps.
LEMMA CallsReplace ==
  ASSUME TypeOK, NEW calls, Calls(calls)
  PROVE  Replaces(<<>>, calls) /\ <<>> \in Seq(Pieces) /\ Len(<<>>) = 0
<1>1. sent \o <<>> = sent /\ <<>> \in Seq(Pieces)
  BY DEF TypeOK
<1>2. QED BY <1>1 DEF Calls, Replaces

\* A step that sends.
LEMMA SendsReplace ==
  ASSUME TypeOK, NEW r, NEW rest, Sends(r, rest)
  PROVE  Replaces(<<r>>, rest) /\ Len(<<r>>) = 1
<1>1. Append(sent, r) = sent \o <<r>> /\ Len(<<r>>) = 1
  BY DEF TypeOK
<1>2. QED BY <1>1 DEF Sends, Replaces

-----------------------------------------------------------------------------
(***************************************************************************)
(* The steps                                                               *)
(***************************************************************************)

\* Two calls one below the other, side by side: together the area of a call.
LEMMA AreaTwo ==
  ASSUME NEW f \in Frames, NEW a \in Frames, NEW b \in Frames,
         Pixels(f) = Pixels(a) \cup Pixels(b), Pixels(a) \cap Pixels(b) = {}
  PROVE  SameArea(f, <<>>, <<a, b>>) /\ <<a, b>> \in Seq(Frames)
<1> DEFINE s == <<a, b>>
<1>1. s \in Seq(Frames) /\ DOMAIN s = {1, 2} /\ s[1] = a /\ s[2] = b
  OBVIOUS
<1>2. Pixels(a) # {} /\ Pixels(b) # {}
  BY NotEmpty DEF Frames
<1> HIDE DEF s
<1>3. Area(s) = Pixels(a) \cup Pixels(b)
  BY <1>1, Zenon DEF Area
<1>4. Apart(s)
  <2>1. \A j \in 1..(1 - 1) : FALSE
    OBVIOUS
  <2>2. \A j \in 1..(2 - 1) : j = 1
    OBVIOUS
  <2>3. QED BY <1>1, <1>2, <2>1, <2>2 DEF Apart
<1>5. QED BY <1>1, <1>3, <1>4, AreaEmpty DEF SameArea, s

\* One call for another of the same area.
LEMMA AreaSame ==
  ASSUME NEW f \in Frames, NEW a \in Frames, Pixels(f) = Pixels(a)
  PROVE  SameArea(f, <<>>, <<a>>) /\ <<a>> \in Seq(Frames)
<1>1. Pixels(a) # {}
  BY NotEmpty DEF Frames
<1>2. Area(<<a>>) = Pixels(a) /\ Apart(<<a>>)
  BY <1>1, AreaOne
<1>3. QED BY <1>2, AreaEmpty DEF SameArea

\* A rectangle for a call of the same area.
LEMMA AreaSent ==
  ASSUME NEW f \in Frames, NEW kind \in Kinds
  PROVE  /\ SameArea(f, <<Rect(f.x, f.y, f.w, f.h, kind)>>, <<>>)
         /\ <<Rect(f.x, f.y, f.w, f.h, kind)>> \in Seq(Pieces) /\ <<>> \in Seq(Frames)
<1>1. /\ f.x \in Nat /\ f.y \in Nat /\ f.w \in Pos /\ f.h \in Pos
      /\ Pixels(f) = Box(f.x, f.y, f.w, f.h)
  BY FrameBox
<1>2. /\ <<Rect(f.x, f.y, f.w, f.h, kind)>> \in Seq(Pieces)
      /\ Area(<<Rect(f.x, f.y, f.w, f.h, kind)>>) = Box(f.x, f.y, f.w, f.h)
      /\ Apart(<<Rect(f.x, f.y, f.w, f.h, kind)>>)
  BY <1>1, CallArea
<1>3. <<>> \in Seq(Frames)
  OBVIOUS
<1>4. QED BY <1>1, <1>2, <1>3, AreaEmpty DEF SameArea

\* The elements of the shortest sequences.
LEMMA ShortSeqs ==
  ASSUME NEW a, NEW b
  PROVE  /\ DOMAIN <<>> = {} /\ DOMAIN <<a>> = {1} /\ DOMAIN <<a, b>> = {1, 2}
         /\ <<a>>[1] = a /\ <<a, b>>[1] = a /\ <<a, b>>[2] = b
OBVIOUS

\* What the limits count: one more limit, one more rectangle.
LEMMA CoRRECounts ==
  ASSUME NEW w \in Nat, NEW h \in Nat
  PROVE  /\ h > CorreMax => CountCoRRE(w, h) = CountCoRRE(w, CorreMax) + CountCoRRE(w, h - CorreMax)
         /\ w > CorreMax => CountCoRRE(w, h) = CountCoRRE(CorreMax, h) + CountCoRRE(w - CorreMax, h)
         /\ w <= CorreMax /\ h <= CorreMax => CountCoRRE(w, h) = 1
         /\ CountCoRRE(w, h) \in Nat
<1> DEFINE n(k) == Quot(k - 1, CorreMax) + 1
<1>1. CorreMax \in Nat \ {0, 1}
  BY LimitsAssumption
<1>2. \A k \in Nat : /\ k > CorreMax => n(k) = 1 + n(k - CorreMax)
                     /\ k <= CorreMax => n(k) = 1
  <2> SUFFICES ASSUME NEW k \in Nat
               PROVE  /\ k > CorreMax => n(k) = 1 + n(k - CorreMax)
                      /\ k <= CorreMax => n(k) = 1
    OBVIOUS
  <2>1. CASE k = 0
    BY <1>1, <2>1, QuotIs
  <2>2. CASE k # 0
    <3>1. k \in Nat \ {0} /\ k - 1 \in Nat /\ (k > CorreMax => k - CorreMax - 1 \in Nat)
      BY <1>1, <2>2
    <3>2. n(k) = (k - 1) \div CorreMax + 1
      BY <1>1, <3>1, QuotIs
    <3>3. k > CorreMax => n(k - CorreMax) = (k - CorreMax - 1) \div CorreMax + 1
      BY <1>1, <3>1, QuotIs
    <3> HIDE DEF n
    <3>4. QED BY <1>1, <3>1, <3>2, <3>3, LoopCount
  <2>3. QED BY <2>1, <2>2
<1>3. \A k \in Nat : n(k) \in Nat
  <2> SUFFICES ASSUME NEW k \in Nat PROVE n(k) \in Nat
    OBVIOUS
  <2>1. CASE k = 0
    BY <1>1, <2>1, QuotIs
  <2>2. CASE k # 0
    <3>1. k - 1 \in Nat
      BY <2>2
    <3>2. Quot(k - 1, CorreMax) \in Nat
      BY <1>1, <3>1, QuotIs
    <3>3. QED BY <3>2
  <2>3. QED BY <2>1, <2>2
<1>4. \A i, j : CountCoRRE(i, j) = n(i) * n(j)
  BY DEF CountCoRRE
<1> HIDE DEF n
<1>5. ASSUME h > CorreMax
      PROVE CountCoRRE(w, h) = CountCoRRE(w, CorreMax) + CountCoRRE(w, h - CorreMax)
  <2>1. h - CorreMax \in Nat
    BY <1>1, <1>5
  <2>2. n(h) = 1 + n(h - CorreMax) /\ n(CorreMax) = 1 /\ n(w) \in Nat /\ n(h - CorreMax) \in Nat
    BY <1>1, <1>2, <1>3, <1>5, <2>1
  <2>3. \A a, b \in Nat : a * (1 + b) = a * 1 + a * b
    OBVIOUS
  <2>4. QED BY <1>4, <2>2, <2>3
<1>6. ASSUME w > CorreMax
      PROVE CountCoRRE(w, h) = CountCoRRE(CorreMax, h) + CountCoRRE(w - CorreMax, h)
  <2>1. w - CorreMax \in Nat
    BY <1>1, <1>6
  <2>2. n(w) = 1 + n(w - CorreMax) /\ n(CorreMax) = 1 /\ n(h) \in Nat /\ n(w - CorreMax) \in Nat
    BY <1>1, <1>2, <1>3, <1>6, <2>1
  <2>3. \A a, b \in Nat : (1 + b) * a = 1 * a + b * a
    OBVIOUS
  <2>4. QED BY <1>4, <2>2, <2>3
<1>7. ASSUME w <= CorreMax, h <= CorreMax PROVE CountCoRRE(w, h) = 1
  BY <1>1, <1>2, <1>4, <1>7
<1>8. CountCoRRE(w, h) \in Nat
  <2>1. n(w) \in Nat /\ n(h) \in Nat
    BY <1>3
  <2>2. QED BY <1>4, <2>1
<1>9. QED BY <1>5, <1>6, <1>7, <1>8

\* CoRRE.
LEMMA CoRREStep ==
  ASSUME WithPixels, SendCoRRE
  PROVE  WithPixels'
<1> DEFINE f == todo[1]
<1>1. TypeOK /\ todo # <<>> /\ f.kind = "corre" /\ f \in Frames
  BY TailElements DEF WithPixels, TypeOK, SendCoRRE, Next1
<1> HIDE DEF f
<1>2. /\ f.x \in Nat /\ f.y \in Nat /\ f.w \in Pos /\ f.h \in Pos
      /\ Pixels(f) = Box(f.x, f.y, f.w, f.h) /\ CorreMax \in Pos
  BY <1>1, FrameBox, LimitsPositive
<1>3. "corre" \in Kinds
  BY DEF Kinds
<1>4. \A x, y, w, h : Pending(Call(x, y, w, h, "corre")) = CountCoRRE(w, h)
                      /\ Known(Call(x, y, w, h, "corre")) /\ FrameOK(Call(x, y, w, h, "corre"))
  BY DEF Pending, Known, FrameOK, Call
<1>5. Pending(f) = CountCoRRE(f.w, f.h)
  BY <1>1 DEF Pending
<1>a. ASSUME f.h > CorreMax,
             Calls(<<Call(f.x, f.y, f.w, CorreMax, "corre"),
                     Call(f.x, f.y + CorreMax, f.w, f.h - CorreMax, "corre")>>)
      PROVE  WithPixels'
  <2> DEFINE a == Call(f.x, f.y, f.w, CorreMax, "corre")
             b == Call(f.x, f.y + CorreMax, f.w, f.h - CorreMax, "corre")
  <2>1. f.y + CorreMax \in Nat /\ f.h - CorreMax \in Pos /\ CorreMax \in 0..f.h
        /\ f.w \in Nat /\ f.h \in Nat
    BY <1>a, <1>2 DEF Pos
  <2>2. /\ a \in Frames /\ b \in Frames /\ Pixels(a) = Box(f.x, f.y, f.w, CorreMax)
        /\ Pixels(b) = Box(f.x, f.y + CorreMax, f.w, f.h - CorreMax)
    BY <1>2, <1>3, <2>1, CallIs
  <2>3. Pending(a) = CountCoRRE(f.w, CorreMax) /\ Pending(b) = CountCoRRE(f.w, f.h - CorreMax)
        /\ Known(a) /\ Known(b) /\ FrameOK(a) /\ FrameOK(b)
    BY <1>4
  <2>4. Pixels(f) = Pixels(a) \cup Pixels(b) /\ Pixels(a) \cap Pixels(b) = {}
    <3>1. /\ Box(f.x, f.y, f.w, f.h)
               = Box(f.x, f.y, f.w, CorreMax) \cup Box(f.x, f.y + CorreMax, f.w, f.h - CorreMax)
          /\ Box(f.x, f.y, f.w, CorreMax) \cap Box(f.x, f.y + CorreMax, f.w, f.h - CorreMax) = {}
      BY <1>2, <2>1, CutLines
    <3> HIDE DEF a, b
    <3>2. QED BY <3>1, <1>2, <2>2
  <2>5. Pending(f) = Pending(a) + Pending(b)
    <3>1. CountCoRRE(f.w, f.h) = CountCoRRE(f.w, CorreMax) + CountCoRRE(f.w, f.h - CorreMax)
      BY <1>a, <2>1, CoRRECounts
    <3> HIDE DEF a, b
    <3>2. QED BY <1>5, <2>3, <3>1
  <2>6. Replaces(<<>>, <<a, b>>) /\ <<>> \in Seq(Pieces) /\ Len(<<>>) = 0
    BY <1>a, <1>1, CallsReplace
  <2> HIDE DEF a, b
  <2>7. Pending(a) \in Nat /\ Pending(b) \in Nat
    BY <2>2, KnownPending
  <2>8. SameArea(f, <<>>, <<a, b>>) /\ <<a, b>> \in Seq(Frames)
    BY <1>1, <2>2, <2>4, AreaTwo
  <2>9. SameCount(f, <<>>, <<a, b>>)
    BY <2>3, <2>5, <2>6, <2>7, CountTwo
  <2>10. StandsFor(f, <<>>, <<a, b>>)
    BY <2>3, <2>6, <2>8, <2>9, ShortSeqs DEF StandsFor
  <2>11. QED BY <1>1, <2>6, <2>10, StepIInv DEF f
<1>b. ASSUME f.w > CorreMax,
             Calls(<<Call(f.x, f.y, CorreMax, f.h, "corre"),
                     Call(f.x + CorreMax, f.y, f.w - CorreMax, f.h, "corre")>>)
      PROVE  WithPixels'
  <2> DEFINE a == Call(f.x, f.y, CorreMax, f.h, "corre")
             b == Call(f.x + CorreMax, f.y, f.w - CorreMax, f.h, "corre")
  <2>1. f.x + CorreMax \in Nat /\ f.w - CorreMax \in Pos /\ CorreMax \in 0..f.w
        /\ f.w \in Nat /\ f.h \in Nat
    BY <1>b, <1>2 DEF Pos
  <2>2. /\ a \in Frames /\ b \in Frames /\ Pixels(a) = Box(f.x, f.y, CorreMax, f.h)
        /\ Pixels(b) = Box(f.x + CorreMax, f.y, f.w - CorreMax, f.h)
    BY <1>2, <1>3, <2>1, CallIs
  <2>3. Pending(a) = CountCoRRE(CorreMax, f.h) /\ Pending(b) = CountCoRRE(f.w - CorreMax, f.h)
        /\ Known(a) /\ Known(b) /\ FrameOK(a) /\ FrameOK(b)
    BY <1>4
  <2>4. Pixels(f) = Pixels(a) \cup Pixels(b) /\ Pixels(a) \cap Pixels(b) = {}
    <3>1. /\ Box(f.x, f.y, f.w, f.h)
               = Box(f.x, f.y, CorreMax, f.h) \cup Box(f.x + CorreMax, f.y, f.w - CorreMax, f.h)
          /\ Box(f.x, f.y, CorreMax, f.h) \cap Box(f.x + CorreMax, f.y, f.w - CorreMax, f.h) = {}
      BY <1>2, <2>1, CutColumns
    <3> HIDE DEF a, b
    <3>2. QED BY <3>1, <1>2, <2>2
  <2>5. Pending(f) = Pending(a) + Pending(b)
    <3>1. CountCoRRE(f.w, f.h) = CountCoRRE(CorreMax, f.h) + CountCoRRE(f.w - CorreMax, f.h)
      BY <1>b, <2>1, CoRRECounts
    <3> HIDE DEF a, b
    <3>2. QED BY <1>5, <2>3, <3>1
  <2>6. Replaces(<<>>, <<a, b>>) /\ <<>> \in Seq(Pieces) /\ Len(<<>>) = 0
    BY <1>b, <1>1, CallsReplace
  <2> HIDE DEF a, b
  <2>7. Pending(a) \in Nat /\ Pending(b) \in Nat
    BY <2>2, KnownPending
  <2>8. SameArea(f, <<>>, <<a, b>>) /\ <<a, b>> \in Seq(Frames)
    BY <1>1, <2>2, <2>4, AreaTwo
  <2>9. SameCount(f, <<>>, <<a, b>>)
    BY <2>3, <2>5, <2>6, <2>7, CountTwo
  <2>10. StandsFor(f, <<>>, <<a, b>>)
    BY <2>3, <2>6, <2>8, <2>9, ShortSeqs DEF StandsFor
  <2>11. QED BY <1>1, <2>6, <2>10, StepIInv DEF f
<1>c. ASSUME f.h <= CorreMax, f.w <= CorreMax, Sends(Rect(f.x, f.y, f.w, f.h, "corre"), <<>>)
      PROVE  WithPixels'
  <2> DEFINE r == Rect(f.x, f.y, f.w, f.h, "corre")
  <2>1. Replaces(<<r>>, <<>>) /\ Len(<<r>>) = 1
    BY <1>c, <1>1, SendsReplace
  <2>2. SameArea(f, <<r>>, <<>>) /\ <<r>> \in Seq(Pieces) /\ <<>> \in Seq(Frames)
    BY <1>1, <1>3, AreaSent
  <2>3. PieceOK(r)
    BY <1>c DEF PieceOK, Rect
  <2>4. Pending(f) = 1
    <3>1. f.w \in Nat /\ f.h \in Nat
      BY <1>2 DEF Pos
    <3>2. QED BY <1>c, <1>5, <3>1, CoRRECounts
  <2> HIDE DEF r
  <2>5. SameCount(f, <<r>>, <<>>)
    BY <2>1, <2>4, CountNone
  <2>6. StandsFor(f, <<r>>, <<>>)
    BY <2>2, <2>3, <2>5, ShortSeqs DEF StandsFor
  <2>7. QED BY <1>1, <2>1, <2>6, StepIInv DEF f
<1>9. QED BY <1>a, <1>b, <1>c DEF SendCoRRE, f

\* The first n lines, sent or left to a call, and a call for the others.
LEMMA LinesRest ==
  ASSUME NEW f \in Frames, NEW n \in 1..f.h, NEW k1 \in Kinds, NEW k2 \in Kinds
  PROVE  LET r == <<Rect(f.x, f.y, f.w, n, k1)>>
             a == <<Call(f.x, f.y, f.w, n, k1)>>
             rest == CallFor(f.x, f.y + n, f.w, f.h - n, k2)
         IN /\ r \in Seq(Pieces) /\ rest \in Seq(Frames) /\ a \o rest \in Seq(Frames)
            /\ SameArea(f, r, rest) /\ SameArea(f, <<>>, a \o rest)
<1> DEFINE r == <<Rect(f.x, f.y, f.w, n, k1)>>
           a == <<Call(f.x, f.y, f.w, n, k1)>>
           rest == CallFor(f.x, f.y + n, f.w, f.h - n, k2)
<1>1. /\ f.x \in Nat /\ f.y \in Nat /\ f.w \in Pos /\ f.h \in Pos /\ f.w \in Nat /\ f.h \in Nat
      /\ Pixels(f) = Box(f.x, f.y, f.w, f.h)
  BY FrameBox DEF Pos
<1>2. n \in Pos /\ n \in 0..f.h /\ f.y + n \in Nat /\ f.h - n \in Nat
  BY <1>1 DEF Pos
<1>3. /\ a \in Seq(Frames) /\ r \in Seq(Pieces) /\ Apart(a) /\ Apart(r)
      /\ Area(a) = Box(f.x, f.y, f.w, n) /\ Area(r) = Box(f.x, f.y, f.w, n)
  <2>1. Covers(a, f.x, f.y, f.w, n) /\ Fills(r, f.x, f.y, f.w, n)
    BY <1>1, <1>2, OneIsEnough
  <2>2. QED BY <2>1 DEF Covers, Fills
<1>4. rest \in Seq(Frames) /\ Apart(rest) /\ Area(rest) = Box(f.x, f.y + n, f.w, f.h - n)
  <2>1. Covers(rest, f.x, f.y + n, f.w, f.h - n)
    BY <1>1, <1>2, CallForArea
  <2>2. QED BY <2>1 DEF Covers
<1>5. /\ Box(f.x, f.y, f.w, f.h) = Box(f.x, f.y, f.w, n) \cup Box(f.x, f.y + n, f.w, f.h - n)
      /\ Box(f.x, f.y, f.w, n) \cap Box(f.x, f.y + n, f.w, f.h - n) = {}
  BY <1>1, <1>2, CutLines
<1> HIDE DEF r, a, rest
<1>6. /\ a \o rest \in Seq(Frames) /\ Apart(a \o rest)
      /\ Area(a \o rest) = Area(a) \cup Area(rest)
  BY <1>3, <1>4, <1>5, AreaConcat
<1>7. SameArea(f, r, rest) /\ SameArea(f, <<>>, a \o rest)
  BY <1>1, <1>3, <1>4, <1>5, <1>6, AreaEmpty DEF SameArea
<1>8. QED BY <1>3, <1>4, <1>6, <1>7 DEF r, a, rest

\* The first n columns.
LEMMA ColumnsRest ==
  ASSUME NEW f \in Frames, NEW n \in 1..f.w, NEW k1 \in Kinds, NEW k2 \in Kinds
  PROVE  LET r == <<Rect(f.x, f.y, n, f.h, k1)>>
             rest == CallFor(f.x + n, f.y, f.w - n, f.h, k2)
         IN r \in Seq(Pieces) /\ rest \in Seq(Frames) /\ SameArea(f, r, rest)
<1> DEFINE r == <<Rect(f.x, f.y, n, f.h, k1)>>
           rest == CallFor(f.x + n, f.y, f.w - n, f.h, k2)
<1>1. /\ f.x \in Nat /\ f.y \in Nat /\ f.w \in Pos /\ f.h \in Pos /\ f.w \in Nat /\ f.h \in Nat
      /\ Pixels(f) = Box(f.x, f.y, f.w, f.h)
  BY FrameBox DEF Pos
<1>2. n \in Pos /\ n \in 0..f.w /\ f.x + n \in Nat /\ f.w - n \in Nat
  BY <1>1 DEF Pos
<1>3. r \in Seq(Pieces) /\ Apart(r) /\ Area(r) = Box(f.x, f.y, n, f.h)
  <2>1. Fills(r, f.x, f.y, n, f.h)
    BY <1>1, <1>2, OneIsEnough
  <2>2. QED BY <2>1 DEF Fills
<1>4. rest \in Seq(Frames) /\ Apart(rest) /\ Area(rest) = Box(f.x + n, f.y, f.w - n, f.h)
  <2>1. Covers(rest, f.x + n, f.y, f.w - n, f.h)
    BY <1>1, <1>2, CallForArea
  <2>2. QED BY <2>1 DEF Covers
<1>5. /\ Box(f.x, f.y, f.w, f.h) = Box(f.x, f.y, n, f.h) \cup Box(f.x + n, f.y, f.w - n, f.h)
      /\ Box(f.x, f.y, n, f.h) \cap Box(f.x + n, f.y, f.w - n, f.h) = {}
  BY <1>1, <1>2, CutColumns
<1> HIDE DEF r, rest
<1>6. SameArea(f, r, rest)
  BY <1>1, <1>3, <1>4, <1>5 DEF SameArea
<1>7. QED BY <1>3, <1>4, <1>6 DEF r, rest

\* The lesser of a limit and what is left.
LEMMA LesserIs ==
  ASSUME NEW m \in Pos, NEW n \in Pos
  PROVE  /\ Lesser(m, n) \in 1..n /\ Lesser(m, n) \in Pos /\ Lesser(m, n) <= m
         /\ n <= m => Lesser(m, n) = n
         /\ n > m => Lesser(m, n) = m
BY DEF Lesser, Pos

\* Zlib and Ultra.
LEMMA LinesStep ==
  ASSUME WithPixels, SendLines
  PROVE  WithPixels'
<1> DEFINE f == todo[1]
<1>1. TypeOK /\ todo # <<>> /\ f.kind = "lines" /\ f \in Frames
  BY TailElements DEF WithPixels, TypeOK, SendLines, Next1
<1> DEFINE m == MaxLines(f.w)
           n == Lesser(m, f.h)
           r == Rect(f.x, f.y, f.w, n, "lines")
           rest == CallFor(f.x, f.y + n, f.w, f.h - n, "lines")
           b == Call(f.x, f.y + n, f.w, f.h - n, "lines")
<1>0. \/ f.h = 0
      \/ Sends(r, IF n = f.h THEN <<>> ELSE <<b>>)
  BY DEF SendLines
<1> HIDE DEF f
<1>2. f.x \in Nat /\ f.y \in Nat /\ f.w \in Pos /\ f.h \in Pos /\ m \in Pos
  BY <1>1, FrameBox, LimitsPositive
<1>3. "lines" \in Kinds
  BY DEF Kinds
<1>4. n \in 1..f.h /\ n \in Pos /\ n <= m /\ (f.h <= m => n = f.h) /\ (f.h > m => n = m)
  BY <1>2, LesserIs
<1>5. r.kind = "lines" /\ r.w = f.w /\ r.h = n
  BY DEF Rect
<1>6. Pending(f) = (f.h - 1) \div m + 1 /\ Known(f)
  <2>1. Pending(f) = CountLines(f.w, f.h) /\ Known(f)
    BY <1>1 DEF Pending, Known
  <2>2. QED BY <2>1, <1>2, CountsAre
<1>7. (f.h - n # 0 => Pending(b) = (f.h - n - 1) \div m + 1) /\ Known(b) /\ FrameOK(b)
  <2>1. Pending(b) = CountLines(f.w, f.h - n) /\ Known(b) /\ FrameOK(b)
    BY DEF Pending, Known, FrameOK, Call
  <2>2. f.h - n # 0 => f.h - n \in Pos
    BY <1>2, <1>4 DEF Pos
  <2>3. QED BY <2>1, <2>2, <1>2, CountsAre
<1>8. rest = IF f.h - n = 0 THEN <<>> ELSE <<b>>
  BY <1>2 DEF CallFor, Pos
<1>9. Replaces(<<r>>, rest) /\ Len(<<r>>) = 1
  <2>1. f.h - n = 0 <=> n = f.h
    BY <1>2, <1>4 DEF Pos
  <2> HIDE DEF n, r, b, rest
  <2>2. Sends(r, rest)
    BY <1>0, <1>2, <1>8, <2>1 DEF Pos
  <2>3. QED BY <2>2, <1>1, SendsReplace
<1>10. SameArea(f, <<r>>, rest) /\ <<r>> \in Seq(Pieces) /\ rest \in Seq(Frames)
  BY <1>1, <1>3, <1>4, LinesRest
<1>11. PieceOK(r)
  BY <1>5 DEF PieceOK
<1> HIDE DEF m, n, r, b
<1>12. f.h > m => (f.h - 1) \div m + 1 = 1 + ((f.h - m - 1) \div m + 1)
  BY <1>2, LoopCount DEF Pos
<1>13. f.h <= m => (f.h - 1) \div m + 1 = 1
  BY <1>2, LoopCount DEF Pos
<1>14. ASSUME f.h - n # 0, b \in Frames PROVE SameCount(f, <<r>>, <<b>>)
  <2>1. f.h > m /\ n = m
    BY <1>2, <1>4, <1>14 DEF Pos
  <2>2. Pending(f) = 1 + Pending(b)
    BY <2>1, <1>6, <1>7, <1>12, <1>14
  <2>3. Pending(b) \in Nat
    BY <1>14, KnownPending
  <2>4. QED BY <2>2, <2>3, <1>7, <1>9, CountOne
<1>15. ASSUME f.h - n = 0 PROVE SameCount(f, <<r>>, <<>>)
  <2>1. f.h <= m
    BY <1>2, <1>4, <1>15 DEF Pos
  <2>2. QED BY <2>1, <1>6, <1>9, <1>13, CountNone
<1>16. b \in Frames \/ f.h - n = 0
  <2>1. f.y + n \in Nat /\ (f.h - n = 0 \/ f.h - n \in Pos)
    BY <1>2, <1>4 DEF Pos
  <2>2. QED BY <2>1, <1>2, <1>3, CallIs, Zenon DEF b
<1>17. SameCount(f, <<r>>, rest)
  <2> HIDE DEF rest
  <2> QED BY <1>8, <1>14, <1>15, <1>16
<1>18. \A i \in DOMAIN rest : FrameOK(rest[i])
  <2> HIDE DEF rest
  <2> QED BY <1>7, <1>8, ShortSeqs
<1>19. StandsFor(f, <<r>>, rest)
  <2> HIDE DEF rest
  <2> QED BY <1>10, <1>11, <1>17, <1>18, ShortSeqs DEF StandsFor
<1>20. QED BY <1>1, <1>9, <1>19, StepIInv DEF f

\* One call after another.
LEMMA TwoSeq ==
  ASSUME NEW a, NEW b
  PROVE  <<a>> \o <<b>> = <<a, b>> /\ <<a>> \o <<>> = <<a>>
<1>1. /\ <<a>> \in Seq({a, b}) /\ <<b>> \in Seq({a, b}) /\ <<a, b>> \in Seq({a, b})
      /\ Len(<<a>>) = 1 /\ Len(<<b>>) = 1 /\ Len(<<a, b>>) = 2
  OBVIOUS
<1>2. <<a>> \o <<b>> \in Seq({a, b}) /\ Len(<<a>> \o <<b>>) = 2
  BY <1>1
<1>3. (<<a>> \o <<b>>)[1] = a /\ (<<a>> \o <<b>>)[2] = b
  OBVIOUS
<1>4. \A i \in 1..2 : (<<a>> \o <<b>>)[i] = <<a, b>>[i]
  BY <1>3
<1>5. <<a>> \o <<b>> = <<a, b>>
  BY <1>1, <1>2, <1>4, SeqEqual
<1>6. <<a>> \o <<>> = <<a>>
  BY <1>1, ConcatEmptySeq
<1>7. QED BY <1>5, <1>6

\* SendRectSimple.
LEMMA SimpleStep ==
  ASSUME WithPixels, SendRectSimple
  PROVE  WithPixels'
<1> DEFINE f == todo[1]
<1>1. TypeOK /\ todo # <<>> /\ f.kind = "simple" /\ f \in Frames
  BY TailElements DEF WithPixels, TypeOK, SendRectSimple, Next1
<1> DEFINE a == Call(f.x, f.y, f.w, f.h, "bands")
           r == Rect(f.x, f.y, f.w, f.h, "simple")
<1>0. \/ TooLarge(f.w, f.h) /\ Calls(CallFor(f.x, f.y, f.w, f.h, "bands"))
      \/ ~TooLarge(f.w, f.h) /\ Sends(r, <<>>)
  BY DEF SendRectSimple
<1> HIDE DEF f
<1>2. f.x \in Nat /\ f.y \in Nat /\ f.w \in Pos /\ f.h \in Pos /\ "bands" \in Kinds /\ "simple" \in Kinds
  BY <1>1, FrameBox DEF Kinds
<1>3. /\ Pending(f) = CountTight(f.w, f.h, FALSE)
      /\ TooLarge(f.w, f.h) =>
           CountTight(f.w, f.h, FALSE)
             = ((f.w - 1) \div TightRectWidth + 1) * ((f.h - 1) \div MaxHeight(f.w) + 1)
      /\ ~TooLarge(f.w, f.h) => CountTight(f.w, f.h, FALSE) = 1
  <2>1. Pending(f) = CountTight(f.w, f.h, FALSE)
    BY <1>1 DEF Pending
  <2>2. QED BY <2>1, <1>2, CountsAre
<1>4. CallFor(f.x, f.y, f.w, f.h, "bands") = <<a>>
  BY <1>2 DEF CallFor, Pos
<1>a. ASSUME TooLarge(f.w, f.h), Calls(<<a>>) PROVE WithPixels'
  <2>1. Replaces(<<>>, <<a>>) /\ <<>> \in Seq(Pieces) /\ Len(<<>>) = 0
    BY <1>a, <1>1, CallsReplace
  <2>2. a \in Frames /\ Pixels(a) = Pixels(f)
    BY <1>1, <1>2, CallIs, FrameBox
  <2>3. Known(a) /\ FrameOK(a) /\ Pending(a) = Pending(f)
    BY <1>a, <1>3 DEF Known, FrameOK, Pending, Call
  <2> HIDE DEF a
  <2>4. Pending(a) \in Nat
    BY <2>2, KnownPending
  <2>5. SameCount(f, <<>>, <<a>>)
    BY <2>1, <2>3, <2>4, CountOne
  <2>6. SameArea(f, <<>>, <<a>>) /\ <<a>> \in Seq(Frames)
    BY <1>1, <2>2, AreaSame
  <2>7. StandsFor(f, <<>>, <<a>>)
    BY <2>1, <2>3, <2>5, <2>6, ShortSeqs DEF StandsFor
  <2>8. QED BY <1>1, <2>1, <2>7, StepIInv DEF f
<1>b. ASSUME ~TooLarge(f.w, f.h), Sends(r, <<>>) PROVE WithPixels'
  <2>1. Replaces(<<r>>, <<>>) /\ Len(<<r>>) = 1
    BY <1>b, <1>1, SendsReplace
  <2>2. SameArea(f, <<r>>, <<>>) /\ <<r>> \in Seq(Pieces) /\ <<>> \in Seq(Frames)
    BY <1>1, <1>2, AreaSent
  <2>3. PieceOK(r)
    <3>1. f.w * f.h \in Int /\ f.w \in Int /\ TightRectWidth \in Int /\ TightRectSize \in Int
      BY <1>2, LimitsPositive DEF Pos
    <3>2. f.w <= TightRectWidth /\ f.w * f.h <= TightRectSize
      BY <1>b, <3>1 DEF TooLarge
    <3>3. QED BY <3>2 DEF PieceOK, Rect
  <2>4. Pending(f) = 1
    BY <1>b, <1>3
  <2> HIDE DEF r
  <2>5. SameCount(f, <<r>>, <<>>)
    BY <2>1, <2>4, CountNone
  <2>6. StandsFor(f, <<r>>, <<>>)
    BY <2>2, <2>3, <2>5, ShortSeqs DEF StandsFor
  <2>7. QED BY <1>1, <2>1, <2>6, StepIInv DEF f
<1>9. QED BY <1>0, <1>4, <1>a, <1>b

\* An iteration over the bands.
LEMMA BandsStep ==
  ASSUME WithPixels, SendBands
  PROVE  WithPixels'
<1> DEFINE f == todo[1]
<1>1. TypeOK /\ todo # <<>> /\ f.kind = "bands" /\ f \in Frames
  BY TailElements DEF WithPixels, TypeOK, SendBands, Next1
<1> DEFINE m == MaxHeight(f.w)
           n == Lesser(m, f.h)
           c == (f.w - 1) \div TightRectWidth + 1
           a == Call(f.x, f.y, f.w, n, "columns")
           rest == CallFor(f.x, f.y + n, f.w, f.h - n, "bands")
           b == Call(f.x, f.y + n, f.w, f.h - n, "bands")
<1>0. Calls(<<a>> \o rest)
  BY DEF SendBands
<1> HIDE DEF f
<1>2. /\ f.x \in Nat /\ f.y \in Nat /\ f.w \in Pos /\ f.h \in Pos /\ m \in Pos
      /\ Lesser(f.w, TightRectWidth) * m <= TightRectSize
  BY <1>1, FrameBox, LimitsPositive
<1>3. "columns" \in Kinds /\ "bands" \in Kinds
  BY DEF Kinds
<1>4. n \in 1..f.h /\ n \in Pos /\ n <= m /\ (f.h <= m => n = f.h) /\ (f.h > m => n = m)
  BY <1>2, LesserIs
<1>5. a \in Frames
  BY <1>2, <1>3, <1>4, CallIs
<1>6. Pending(f) = c * ((f.h - 1) \div m + 1)
  BY <1>1 DEF Pending
<1>7. Pending(b) = c * ((f.h - n - 1) \div m + 1) /\ Known(b) /\ FrameOK(b)
  BY DEF Pending, Known, FrameOK, Call
<1>8. Pending(a) = c /\ Known(a)
  BY DEF Pending, Known, Call
<1>9. FrameOK(a)
  <2>1. Lesser(f.w, TightRectWidth) \in Nat /\ m \in Nat /\ n \in Nat
    BY <1>2, <1>4, LimitsPositive DEF Pos, Lesser
  <2>2. ASSUME NEW i \in Nat, NEW j \in Nat, NEW k \in Nat, j <= k PROVE i * j <= i * k
    <3>1. i * (k - j) >= 0 /\ i * (k - j) = i * k - i * j
      BY <2>2
    <3>2. i * k \in Int /\ i * j \in Int
      OBVIOUS
    <3>3. QED BY <3>1, <3>2
  <2>3. a.kind = "columns" /\ a.w = f.w /\ a.h = n
    BY DEF Call
  <2> DEFINE i == Lesser(f.w, TightRectWidth)
  <2> HIDE DEF i, m, n, a
  <2>4. i * n <= i * m /\ i * n \in Int /\ i * m \in Int
    BY <2>1, <2>2, <1>4 DEF i
  <2>5. i * n <= TightRectSize
    BY <2>4, <1>2, LimitsPositive DEF i
  <2>6. QED BY <2>3, <2>5 DEF FrameOK, i
<1>10. c \in Nat
  BY <1>1, <1>5, <1>8, KnownPending
<1>11. rest = IF f.h - n = 0 THEN <<>> ELSE <<b>>
  BY <1>2 DEF CallFor, Pos
<1>12. /\ Replaces(<<>>, <<a>> \o rest) /\ <<>> \in Seq(Pieces) /\ Len(<<>>) = 0
  BY <1>0, <1>1, CallsReplace
<1>13. SameArea(f, <<>>, <<a>> \o rest) /\ <<a>> \o rest \in Seq(Frames)
  BY <1>1, <1>3, <1>4, LinesRest
<1> HIDE DEF m, n, c, a, b
<1>14. f.h > m => (f.h - 1) \div m + 1 = 1 + ((f.h - m - 1) \div m + 1)
  BY <1>2, LoopCount DEF Pos
<1>15. f.h <= m => (f.h - 1) \div m + 1 = 1
  BY <1>2, LoopCount DEF Pos
<1>16. ASSUME f.h - n # 0
       PROVE /\ SameCount(f, <<>>, <<a>> \o rest)
             /\ \A i \in DOMAIN (<<a>> \o rest) : FrameOK((<<a>> \o rest)[i])
  <2>1. f.h > m /\ n = m /\ f.y + n \in Nat /\ f.h - n \in Pos
    BY <1>2, <1>4, <1>16 DEF Pos
  <2>2. b \in Frames
    BY <2>1, <1>2, <1>3, CallIs DEF b
  <2>3. Pending(b) \in Nat /\ Pending(a) \in Nat
    BY <2>2, <1>5, KnownPending
  <2>4. Pending(f) = Pending(a) + Pending(b)
    <3> DEFINE d == (f.h - m - 1) \div m
    <3>1. d \in Nat
      <4>1. f.h - m - 1 \in Nat /\ m \in Nat \ {0}
        BY <2>1, <1>2 DEF Pos
      <4>2. QED BY <4>1, Division
    <3>2. Pending(f) = c * (1 + (d + 1)) /\ Pending(b) = c * (d + 1)
      BY <2>1, <1>6, <1>7, <1>14
    <3> HIDE DEF d
    <3>3. \A k \in Nat : c * (1 + k) = c + c * k
      BY <1>10
    <3>4. QED BY <3>1, <3>2, <3>3, <1>8
  <2>5. <<a>> \o rest = <<a, b>>
    <3> HIDE DEF rest
    <3> QED BY <1>11, <1>16, TwoSeq
  <2> HIDE DEF rest
  <2>6. SameCount(f, <<>>, <<a, b>>)
    BY <2>3, <2>4, <1>7, <1>8, <1>12, CountTwo
  <2>7. \A i \in DOMAIN <<a, b>> : FrameOK(<<a, b>>[i])
    BY <1>7, <1>9, ShortSeqs
  <2>8. QED BY <2>5, <2>6, <2>7, Zenon
<1>17. ASSUME f.h - n = 0
       PROVE /\ SameCount(f, <<>>, <<a>> \o rest)
             /\ \A i \in DOMAIN (<<a>> \o rest) : FrameOK((<<a>> \o rest)[i])
  <2>1. f.h <= m
    BY <1>2, <1>4, <1>17 DEF Pos
  <2>2. Pending(f) = Pending(a) /\ Pending(a) \in Nat
    BY <2>1, <1>6, <1>8, <1>10, <1>15
  <2>3. <<a>> \o rest = <<a>>
    <3> HIDE DEF rest
    <3> QED BY <1>11, <1>17, TwoSeq
  <2> HIDE DEF rest
  <2>4. SameCount(f, <<>>, <<a>>)
    BY <2>2, <1>8, <1>12, CountOne
  <2>5. QED BY <2>3, <2>4, <1>9, ShortSeqs
<1> HIDE DEF rest
<1>18. StandsFor(f, <<>>, <<a>> \o rest)
  BY <1>12, <1>13, <1>16, <1>17, ShortSeqs DEF StandsFor
<1>19. QED BY <1>1, <1>12, <1>18, StepIInv DEF f

\* An iteration over the columns of a band.
LEMMA ColumnsStep ==
  ASSUME WithPixels, SendColumns
  PROVE  WithPixels'
<1> DEFINE f == todo[1]
<1>1. TypeOK /\ todo # <<>> /\ f.kind = "columns" /\ f \in Frames /\ FrameOK(f)
  BY TailElements DEF WithPixels, TypeOK, FramesOK, SendColumns, Next1
<1> DEFINE m == TightRectWidth
           n == Lesser(m, f.w)
           r == Rect(f.x, f.y, n, f.h, "simple")
           rest == CallFor(f.x + n, f.y, f.w - n, f.h, "columns")
           b == Call(f.x + n, f.y, f.w - n, f.h, "columns")
<1>0. Sends(r, rest)
  BY DEF SendColumns
<1> HIDE DEF f
<1>2. f.x \in Nat /\ f.y \in Nat /\ f.w \in Pos /\ f.h \in Pos /\ m \in Pos
  BY <1>1, FrameBox, LimitsPositive
<1>3. "columns" \in Kinds /\ "simple" \in Kinds
  BY DEF Kinds
<1>4. n \in 1..f.w /\ n \in Pos /\ n <= m /\ (f.w <= m => n = f.w) /\ (f.w > m => n = m)
  BY <1>2, LesserIs
<1>5. r.kind = "simple" /\ r.w = n /\ r.h = f.h
  BY DEF Rect
<1>6. Pending(f) = (f.w - 1) \div m + 1 /\ Known(f)
  BY <1>1 DEF Pending, Known
<1>7. Pending(b) = (f.w - n - 1) \div m + 1 /\ Known(b)
  BY DEF Pending, Known, Call
<1>8. rest = IF f.w - n = 0 THEN <<>> ELSE <<b>>
  BY <1>2 DEF CallFor, Pos
<1>9. Replaces(<<r>>, rest) /\ Len(<<r>>) = 1
  BY <1>0, <1>1, SendsReplace
<1>10. SameArea(f, <<r>>, rest) /\ <<r>> \in Seq(Pieces) /\ rest \in Seq(Frames)
  BY <1>1, <1>3, <1>4, ColumnsRest
<1>11. Lesser(f.w, m) * f.h <= TightRectSize /\ Lesser(f.w, m) = n
  <2>1. Lesser(f.w, m) * f.h <= TightRectSize
    BY <1>1 DEF FrameOK
  <2>2. Lesser(f.w, m) = n
    BY <1>2 DEF Lesser, Pos
  <2>3. QED BY <2>1, <2>2
<1>12. PieceOK(r)
  <2> HIDE DEF n, m, r
  <2>1. n <= TightRectWidth /\ n * f.h <= TightRectSize
    BY <1>4, <1>11 DEF m
  <2>2. QED BY <1>5, <2>1 DEF PieceOK
<1>13. FrameOK(b)
  <2>1. b.kind = "columns" /\ b.w = f.w - n /\ b.h = f.h
    BY DEF Call
  <2> DEFINE k == Lesser(f.w - n, m)
  <2>2. k \in Int /\ k <= n /\ n \in Int /\ f.h \in Nat
    BY <1>2, <1>4 DEF Lesser, Pos
  <2> HIDE DEF k, n, b, m
  <2>3. (n - k) * f.h >= 0 /\ (n - k) * f.h = n * f.h - k * f.h
    BY <2>2
  <2>4. n * f.h \in Int /\ k * f.h \in Int /\ n * f.h <= TightRectSize
    BY <2>2, <1>11
  <2>5. k * f.h <= TightRectSize
    BY <2>3, <2>4, LimitsPositive
  <2>6. QED BY <2>1, <2>5 DEF FrameOK, k, m
<1> HIDE DEF m, n, r, b
<1>14. f.w > m => (f.w - 1) \div m + 1 = 1 + ((f.w - m - 1) \div m + 1)
  BY <1>2, LoopCount DEF Pos
<1>15. f.w <= m => (f.w - 1) \div m + 1 = 1
  BY <1>2, LoopCount DEF Pos
<1>16. ASSUME f.w - n # 0 PROVE SameCount(f, <<r>>, <<b>>)
  <2>1. f.w > m /\ n = m /\ f.x + n \in Nat /\ f.w - n \in Pos
    BY <1>2, <1>4, <1>16 DEF Pos
  <2>2. Pending(f) = 1 + Pending(b)
    BY <2>1, <1>6, <1>7, <1>14
  <2>3. b \in Frames
    BY <2>1, <1>2, <1>3, CallIs DEF b
  <2>4. Pending(b) \in Nat
    BY <2>3, KnownPending
  <2>5. QED BY <2>2, <2>4, <1>7, <1>9, CountOne
<1>17. ASSUME f.w - n = 0 PROVE SameCount(f, <<r>>, <<>>)
  <2>1. f.w <= m
    BY <1>2, <1>4, <1>17 DEF Pos
  <2>2. QED BY <2>1, <1>6, <1>9, <1>15, CountNone
<1> HIDE DEF rest
<1>18. SameCount(f, <<r>>, rest)
  BY <1>8, <1>16, <1>17
<1>19. \A i \in DOMAIN rest : FrameOK(rest[i])
  BY <1>8, <1>13, ShortSeqs
<1>20. StandsFor(f, <<r>>, rest)
  BY <1>10, <1>12, <1>18, <1>19, ShortSeqs DEF StandsFor
<1>21. QED BY <1>1, <1>9, <1>20, StepIInv DEF f

\* A call of SendRectEncodingTight begins.
LEMMA TightStep ==
  ASSUME WithPixels, SendRectEncodingTight
  PROVE  WithPixels'
<1> DEFINE f == todo[1]
<1>1. TypeOK /\ todo # <<>> /\ f.kind = "tight" /\ f \in Frames
  BY TailElements DEF WithPixels, TypeOK, SendRectEncodingTight, Next1
<1> DEFINE kind == IF f.w * f.h < MinSplit THEN "simple" ELSE "rows"
           a == Call(f.x, f.y, f.w, f.h, kind)
<1>0. Calls(<<a>>)
  BY DEF SendRectEncodingTight
<1> HIDE DEF f
<1>2. f.x \in Nat /\ f.y \in Nat /\ f.w \in Pos /\ f.h \in Pos /\ kind \in Kinds
  BY <1>1, FrameBox DEF Kinds
<1>3. a.kind = kind /\ a.w = f.w /\ a.h = f.h /\ a.dy = a.y /\ a.y = f.y
  BY DEF Call
<1>4. kind # "solid" /\ kind # "columns"
  OBVIOUS
<1>5. FrameOK(a)
  BY <1>2, <1>3, <1>4 DEF FrameOK
<1>6. Known(f) => Pending(a) = Pending(f) /\ Known(a)
  <2>1. SUFFICES ASSUME Known(f) PROVE Pending(a) = Pending(f) /\ Known(a)
    OBVIOUS
  <2>2. kind = "simple"
    BY <1>1, <2>1 DEF Known
  <2> HIDE DEF a
  <2>3. QED BY <1>1, <1>3, <2>2 DEF Pending, Known
<1>7. Replaces(<<>>, <<a>>) /\ <<>> \in Seq(Pieces) /\ Len(<<>>) = 0
  BY <1>0, <1>1, CallsReplace
<1> HIDE DEF kind
<1>8. a \in Frames /\ Pixels(a) = Pixels(f)
  BY <1>1, <1>2, CallIs, FrameBox
<1> HIDE DEF a
<1>9. Pending(a) \in Nat
  BY <1>8, KnownPending
<1>10. SameCount(f, <<>>, <<a>>)
  BY <1>6, <1>7, <1>9, CountOne
<1>11. SameArea(f, <<>>, <<a>>) /\ <<a>> \in Seq(Frames)
  BY <1>1, <1>8, AreaSame
<1>12. StandsFor(f, <<>>, <<a>>)
  BY <1>5, <1>7, <1>10, <1>11, ShortSeqs DEF StandsFor
<1>13. QED BY <1>1, <1>7, <1>12, StepIInv DEF f

\* The upper part of the rectangle.
LEMMA UpperStep ==
  ASSUME WithPixels, SendUpperPart
  PROVE  WithPixels'
<1> DEFINE f == todo[1]
<1>1. TypeOK /\ todo # <<>> /\ f.kind = "rows" /\ f \in Frames /\ FrameOK(f)
  BY TailElements DEF WithPixels, TypeOK, FramesOK, SendUpperPart, Next1
<1> DEFINE m == MaxHeight(f.w)
           a == Call(f.x, f.y, f.w, m, "simple")
           b == [f EXCEPT !.y = f.y + m, !.h = f.h - m]
<1>0. f.dy < f.y + f.h /\ TooHigh(f) /\ Calls(<<a>> \o <<b>>)
  BY DEF SendUpperPart, SentAbove
<1> HIDE DEF f
<1>2. /\ f.x \in Nat /\ f.y \in Nat /\ f.w \in Pos /\ f.h \in Pos /\ f.dy \in Nat /\ m \in Pos
      /\ Pixels(f) = Box(f.x, f.y, f.w, f.h)
  BY <1>1, FrameBox, LimitsPositive
<1>3. f.dy - f.y >= m
  BY <1>0 DEF TooHigh
<1>4. /\ m \in 0..f.h /\ f.y + m \in Nat /\ f.h - m \in Pos /\ f.dy >= f.y + m
      /\ f.w \in Nat /\ f.h \in Nat
  BY <1>0, <1>2, <1>3 DEF Pos
<1>5. "simple" \in Kinds
  BY DEF Kinds
<1>6. a \in Frames /\ Pixels(a) = Box(f.x, f.y, f.w, m) /\ FrameOK(a)
  <2>1. FrameOK(a)
    BY DEF FrameOK, Call
  <2>2. QED BY <2>1, <1>2, <1>5, CallIs
<1>7. /\ b \in Frames /\ b.kind = "rows" /\ b.dy = f.dy /\ b.y = f.y + m
      /\ b.x = f.x /\ b.w = f.w /\ b.h = f.h - m
  <2> HIDE DEF m
  <2> QED BY <1>1, <1>4 DEF Frames
<1>8. Pixels(b) = Box(f.x, f.y + m, f.w, f.h - m) /\ FrameOK(b)
  <2> HIDE DEF b, m
  <2> QED BY <1>4, <1>7 DEF Pixels, Box, FrameOK
<1>9. Replaces(<<>>, <<a, b>>) /\ <<>> \in Seq(Pieces)
  <2> HIDE DEF a, b
  <2> QED BY <1>0, <1>1, TwoSeq, CallsReplace
<1>10. /\ Box(f.x, f.y, f.w, f.h) = Box(f.x, f.y, f.w, m) \cup Box(f.x, f.y + m, f.w, f.h - m)
       /\ Box(f.x, f.y, f.w, m) \cap Box(f.x, f.y + m, f.w, f.h - m) = {}
  <2> HIDE DEF m
  <2> QED BY <1>2, <1>4, CutLines
<1> HIDE DEF a, b, m
<1>11. SameArea(f, <<>>, <<a, b>>) /\ <<a, b>> \in Seq(Frames)
  <2>1. Pixels(f) = Pixels(a) \cup Pixels(b) /\ Pixels(a) \cap Pixels(b) = {}
    BY <1>2, <1>6, <1>8, <1>10
  <2>2. QED BY <1>1, <1>6, <1>7, <2>1, AreaTwo
<1>12. SameCount(f, <<>>, <<a, b>>)
  BY <1>1 DEF SameCount, Known
<1>13. StandsFor(f, <<>>, <<a, b>>)
  BY <1>6, <1>8, <1>9, <1>11, <1>12, ShortSeqs DEF StandsFor
<1>14. QED BY <1>1, <1>9, <1>13, StepIInv DEF f

\* A rectangle of one colour.
LEMMA SolidStep ==
  ASSUME WithPixels, SendSolidRect
  PROVE  WithPixels'
<1> DEFINE f == todo[1]
           r == Rect(f.x, f.y, f.w, f.h, "solid")
<1>1. TypeOK /\ todo # <<>> /\ f.kind = "solid" /\ f \in Frames /\ FrameOK(f)
  BY TailElements DEF WithPixels, TypeOK, FramesOK, SendSolidRect, Next1
<1>0. Sends(r, <<>>)
  BY DEF SendSolidRect
<1> HIDE DEF f
<1>2. "solid" \in Kinds
  BY DEF Kinds
<1>3. Replaces(<<r>>, <<>>) /\ Len(<<r>>) = 1
  BY <1>0, <1>1, SendsReplace
<1>4. SameArea(f, <<r>>, <<>>) /\ <<r>> \in Seq(Pieces) /\ <<>> \in Seq(Frames)
  BY <1>1, <1>2, AreaSent
<1>5. PieceOK(r)
  <2>1. OneColour(f)
    BY <1>1 DEF FrameOK
  <2>2. Pixels(r) = Pixels(f) /\ r.kind = "solid"
    BY DEF Pixels, Rect
  <2> HIDE DEF r
  <2>3. QED BY <2>1, <2>2 DEF PieceOK, OneColour
<1> HIDE DEF r
<1>6. SameCount(f, <<r>>, <<>>)
  BY <1>1 DEF SameCount, Known
<1>7. StandsFor(f, <<r>>, <<>>)
  BY <1>4, <1>5, <1>6, ShortSeqs DEF StandsFor
<1>8. QED BY <1>1, <1>3, <1>7, StepIInv DEF f

-----------------------------------------------------------------------------
(***************************************************************************)
(* Areas of one colour                                                     *)
(***************************************************************************)

\* A box is of one colour when its pixels are.
LEMMA SolidBox ==
  ASSUME NEW x, NEW y, NEW w, NEW h, NEW c
  PROVE  SolidOf(x, y, w, h, c) <=> \A p \in Box(x, y, w, h) : picture[p] = c
BY DEF SolidOf, Pixels, Rect, Box

\* An empty box is, and two that meet in the colour are one.
LEMMA SolidNone ==
  ASSUME NEW x \in Nat, NEW y \in Nat, NEW w \in Nat, NEW h \in Nat, NEW c, w = 0 \/ h = 0
  PROVE  SolidOf(x, y, w, h, c)
<1>1. x..(x + w - 1) = {} \/ y..(y + h - 1) = {}
  OBVIOUS
<1>2. Box(x, y, w, h) = {}
  BY <1>1 DEF Box
<1>3. QED BY <1>2, SolidBox

\* One below the other.
LEMMA SolidLines ==
  ASSUME NEW x \in Nat, NEW y \in Nat, NEW w \in Nat, NEW a \in Nat, NEW b \in Nat, NEW c,
         SolidOf(x, y, w, a, c), SolidOf(x, y + a, w, b, c)
  PROVE  SolidOf(x, y, w, a + b, c)
<1>1. a + b \in Nat /\ a \in 0..(a + b) /\ (a + b) - a = b
  OBVIOUS
<1>2. Box(x, y, w, a + b) = Box(x, y, w, a) \cup Box(x, y + a, w, b)
  <2>1. PICK h \in Nat : h = a + b
    BY <1>1
  <2>2. Box(x, y, w, h) = Box(x, y, w, a) \cup Box(x, y + a, w, h - a)
    BY <1>1, <2>1, CutLines
  <2>3. QED BY <1>1, <2>1, <2>2
<1>3. QED BY <1>2, SolidBox

\* One beside the other.
LEMMA SolidColumns ==
  ASSUME NEW x \in Nat, NEW y \in Nat, NEW h \in Nat, NEW a \in Nat, NEW b \in Nat, NEW c,
         SolidOf(x, y, a, h, c), SolidOf(x + a, y, b, h, c)
  PROVE  SolidOf(x, y, a + b, h, c)
<1>1. a + b \in Nat /\ a \in 0..(a + b) /\ (a + b) - a = b
  OBVIOUS
<1>2. Box(x, y, a + b, h) = Box(x, y, a, h) \cup Box(x + a, y, b, h)
  <2>1. PICK w \in Nat : w = a + b
    BY <1>1
  <2>2. Box(x, y, w, h) = Box(x, y, a, h) \cup Box(x + a, y, w - a, h)
    BY <1>1, <2>1, CutColumns
  <2>3. QED BY <1>1, <2>1, <2>2
<1>3. QED BY <1>2, SolidBox

\* The width in tiles of the rows down to h is one at which they are of the colour.
LEMMA SolidWidthIs ==
  ASSUME NEW x \in Nat, NEW y \in Nat, NEW w \in Nat, NEW h \in Nat, NEW c
  PROVE  SolidWidth(x, y, w, h, c) \in 0..w /\ SolidOf(x, y, SolidWidth(x, y, w, h, c), h, c)
<1> DEFINE S == {n \in Tiles(w) : SolidOf(x, y, n, h, c)}
<1>1. 0 \in Tiles(w)
  BY LimitsPositive DEF Tiles, Pos
<1>2. SolidOf(x, y, 0, h, c)
  BY SolidNone
<1>3. S \in SUBSET (0..w) /\ S # {}
  BY <1>1, <1>2 DEF Tiles
<1>4. Furthest(S) \in S
  <2> HIDE DEF S
  <2> QED BY <1>3, GreatestExists
<1>5. SolidWidth(x, y, w, h, c) = Furthest(S)
  BY DEF SolidWidth
<1> HIDE DEF S
<1>6. SolidWidth(x, y, w, h, c) \in S
  BY <1>4, <1>5
<1>7. QED BY <1>3, <1>6 DEF S

\* FindBestSolidArea finds an area of the colour inside the rectangle.
LEMMA BestIsSolid ==
  ASSUME NEW x \in Nat, NEW y \in Nat, NEW w \in Nat, NEW h \in Nat, NEW c
  PROVE  \E w1 \in 0..w, h1 \in 0..h :
           FindBestSolidArea(x, y, w, h, c) = Rect(x, y, w1, h1, "solid")
           /\ SolidOf(x, y, w1, h1, c)
<1> DEFINE area(n) == SolidWidth(x, y, w, n, c) * n
           A == {area(n) : n \in Tiles(h)}
           largest == Furthest(A)
           B == {n \in Tiles(h) : area(n) = largest}
           best == Nearest(B)
<1>1. Tiles(h) \subseteq 0..h /\ 0 \in Tiles(h)
  BY LimitsPositive DEF Tiles, Pos
<1>2. ASSUME NEW n \in Tiles(h) PROVE area(n) \in 0..(w * h)
  <2>1. n \in Nat /\ n <= h
    BY <1>1
  <2>2. PICK k \in 0..w : k = SolidWidth(x, y, w, n, c)
    BY <2>1, SolidWidthIs
  <2>3. k * n \in Nat /\ w * h \in Nat
    BY <2>1
  <2>4. k * n <= w * h
    <3>1. (w - k) * n >= 0 /\ (w - k) * n = w * n - k * n
      BY <2>1
    <3>2. w * (h - n) >= 0 /\ w * (h - n) = w * h - w * n
      BY <2>1
    <3>3. w * n \in Int /\ k * n \in Int /\ w * h \in Int
      BY <2>1
    <3>4. QED BY <3>1, <3>2, <3>3
  <2>5. QED BY <2>2, <2>3, <2>4
<1>3. A \in SUBSET (0..(w * h)) /\ A # {}
  BY <1>1, <1>2
<1>4. largest \in A
  <2>1. w * h \in Nat
    OBVIOUS
  <2> HIDE DEF A
  <2>2. QED BY <1>3, <2>1, GreatestExists
<1>5. B \in SUBSET Nat /\ B # {}
  <2>1. PICK n \in Tiles(h) : largest = area(n)
    <3> HIDE DEF largest, area
    <3> QED BY <1>4
  <2>2. n \in B
    <3> HIDE DEF largest, area
    <3> QED BY <2>1
  <2>3. B \in SUBSET Nat
    <3> HIDE DEF largest, area
    <3> QED BY <1>1
  <2>4. QED BY <2>2, <2>3
<1>6. best \in B
  <2> HIDE DEF B
  <2> QED BY <1>5, LeastExists
<1>7. best \in 0..h
  <2> HIDE DEF best, largest, area
  <2> QED BY <1>1, <1>6
<1>8. FindBestSolidArea(x, y, w, h, c) = Rect(x, y, SolidWidth(x, y, w, best, c), best, "solid")
  BY DEF FindBestSolidArea
<1> HIDE DEF best
<1>9. SolidWidth(x, y, w, best, c) \in 0..w /\ SolidOf(x, y, SolidWidth(x, y, w, best, c), best, c)
  BY <1>7, SolidWidthIs
<1>10. QED BY <1>7, <1>8, <1>9

\* What Furthest finds among the lines or columns of the colour.
LEMMA FurthestSolid ==
  ASSUME NEW k \in Nat, NEW S \in SUBSET (0..k), 0 \in S
  PROVE  Furthest(S) \in 0..k /\ Furthest(S) \in S
BY GreatestExists

\* An area of the colour inside a rectangle.
SolidWithin(r, x, y, w, h, c) ==
  \E ex \in Nat, ey \in Nat, ew \in Pos, eh \in Pos :
    /\ r = Rect(ex, ey, ew, eh, "solid")
    /\ x <= ex /\ ex + ew <= x + w /\ y <= ey /\ ey + eh <= y + h
    /\ SolidOf(ex, ey, ew, eh, c)

\* ExtendSolidArea keeps the area of the colour, inside the rectangle.
LEMMA ExtendIsSolid ==
  ASSUME NEW x \in Nat, NEW y \in Nat, NEW w \in Nat, NEW h \in Nat, NEW c,
         NEW bx \in Nat, NEW by \in Nat, NEW bw \in Pos, NEW bh \in Pos,
         x <= bx, bx + bw <= x + w, y <= by, by + bh <= y + h, SolidOf(bx, by, bw, bh, c)
  PROVE  SolidWithin(ExtendSolidArea(x, y, w, h, Rect(bx, by, bw, bh, "solid"), c), x, y, w, h, c)
<1>0. bw \in Nat /\ bh \in Nat /\ bw > 0 /\ bh > 0
  BY DEF Pos
<1> DEFINE U == {n \in 0..(by - y) : SolidOf(bx, by - n, bw, n, c)}
           up == Furthest(U)
           y1 == by - up
           D == {n \in 0..(y + h - by - bh) : SolidOf(bx, by + bh, bw, n, c)}
           down == Furthest(D)
           h1 == bh + up + down
           L == {n \in 0..(bx - x) : SolidOf(bx - n, y1, n, h1, c)}
           left == Furthest(L)
           R == {n \in 0..(x + w - bx - bw) : SolidOf(bx + bw, y1, n, h1, c)}
           right == Furthest(R)
<1>1. up \in 0..(by - y) /\ SolidOf(bx, by - up, bw, up, c)
  <2>1. by - y \in Nat /\ by - 0 = by
    OBVIOUS
  <2>2. SolidOf(bx, by, bw, 0, c)
    BY <1>0, SolidNone
  <2>3. U \in SUBSET (0..(by - y)) /\ 0 \in U
    BY <2>1, <2>2
  <2>4. up \in U
    <3> HIDE DEF U
    <3> QED BY <2>1, <2>3, FurthestSolid
  <2> HIDE DEF up
  <2>5. QED BY <2>4
<1>2. down \in 0..(y + h - by - bh) /\ SolidOf(bx, by + bh, bw, down, c)
  <2>1. y + h - by - bh \in Nat /\ by + bh \in Nat
    BY <1>0
  <2>2. SolidOf(bx, by + bh, bw, 0, c)
    BY <1>0, <2>1, SolidNone
  <2>3. D \in SUBSET (0..(y + h - by - bh)) /\ 0 \in D
    BY <2>1, <2>2
  <2>4. down \in D
    <3> HIDE DEF D
    <3> QED BY <2>1, <2>3, FurthestSolid
  <2> HIDE DEF down
  <2>5. QED BY <2>4
<1> HIDE DEF up, down
<1>3. y1 \in Nat /\ h1 \in Nat /\ h1 > 0 /\ y <= y1 /\ y1 + h1 <= y + h
  BY <1>0, <1>1, <1>2
<1>4. SolidOf(bx, y1, bw, h1, c)
  <2>1. SolidOf(bx, y1, bw, up + bh, c)
    <3>1. y1 + up = by /\ up \in Nat
      BY <1>1
    <3>2. QED BY <1>0, <1>1, <1>3, <3>1, SolidLines
  <2>2. (up + bh) + down = h1 /\ y1 + (up + bh) = by + bh /\ up + bh \in Nat /\ down \in Nat
    BY <1>0, <1>1, <1>2
  <2>3. SolidOf(bx, y1 + (up + bh), bw, down, c)
    BY <1>2, <2>2
  <2>4. SolidOf(bx, y1, bw, (up + bh) + down, c)
    BY <1>0, <1>3, <2>1, <2>2, <2>3, SolidLines
  <2>5. QED BY <2>2, <2>4
<1> HIDE DEF y1, h1
<1>5. left \in 0..(bx - x) /\ SolidOf(bx - left, y1, left, h1, c)
  <2>1. bx - x \in Nat /\ bx - 0 = bx
    OBVIOUS
  <2>2. SolidOf(bx, y1, 0, h1, c)
    BY <1>3, SolidNone
  <2>3. L \in SUBSET (0..(bx - x)) /\ 0 \in L
    BY <2>1, <2>2
  <2>4. left \in L
    <3> HIDE DEF L
    <3> QED BY <2>1, <2>3, FurthestSolid
  <2> HIDE DEF left
  <2>5. QED BY <2>4
<1>6. right \in 0..(x + w - bx - bw) /\ SolidOf(bx + bw, y1, right, h1, c)
  <2>1. x + w - bx - bw \in Nat /\ bx + bw \in Nat
    BY <1>0
  <2>2. SolidOf(bx + bw, y1, 0, h1, c)
    BY <1>3, <2>1, SolidNone
  <2>3. R \in SUBSET (0..(x + w - bx - bw)) /\ 0 \in R
    BY <2>1, <2>2
  <2>4. right \in R
    <3> HIDE DEF R
    <3> QED BY <2>1, <2>3, FurthestSolid
  <2> HIDE DEF right
  <2>5. QED BY <2>4
<1>7. ExtendSolidArea(x, y, w, h, Rect(bx, by, bw, bh, "solid"), c)
      = Rect(bx - left, y1, bw + left + right, h1, "solid")
  BY DEF ExtendSolidArea, Rect, up, down, y1, h1
<1> HIDE DEF left, right
<1>8. SolidOf(bx - left, y1, bw + left + right, h1, c)
  <2>1. bx - left \in Nat /\ left \in Nat /\ (bx - left) + left = bx
    BY <1>5
  <2>2. SolidOf(bx - left, y1, left + bw, h1, c)
    BY <1>0, <1>3, <1>4, <1>5, <2>1, SolidColumns
  <2>3. /\ (left + bw) + right = bw + left + right /\ (bx - left) + (left + bw) = bx + bw
        /\ left + bw \in Nat /\ right \in Nat
    BY <1>0, <1>5, <1>6
  <2>4. SolidOf((bx - left) + (left + bw), y1, right, h1, c)
    BY <1>6, <2>3
  <2>5. SolidOf(bx - left, y1, (left + bw) + right, h1, c)
    BY <1>3, <2>1, <2>2, <2>3, <2>4, SolidColumns
  <2>6. QED BY <2>3, <2>5
<1>9. /\ bx - left \in Nat /\ bw + left + right \in Pos /\ h1 \in Pos
      /\ x <= bx - left /\ (bx - left) + (bw + left + right) <= x + w
  BY <1>0, <1>3, <1>5, <1>6 DEF Pos
<1>10. QED BY <1>3, <1>7, <1>8, <1>9 DEF SolidWithin

-----------------------------------------------------------------------------
(***************************************************************************)
(* Around an area of one colour                                            *)
(***************************************************************************)

\* Calls for a box, each with what it relies on.
Ready(s, x, y, w, h) == Covers(s, x, y, w, h) /\ \A i \in DOMAIN s : FrameOK(s[i])

\* Calls for the upper part and for the lower part.
LEMMA ReadyLines ==
  ASSUME NEW s, NEW t, NEW x \in Nat, NEW y \in Nat, NEW w \in Nat, NEW a \in Nat, NEW b \in Nat,
         Ready(s, x, y, w, a), Ready(t, x, y + a, w, b)
  PROVE  Ready(s \o t, x, y, w, a + b)
<1>1. /\ s \in Seq(Frames) /\ t \in Seq(Frames) /\ Apart(s) /\ Apart(t)
      /\ Area(s) = Box(x, y, w, a) /\ Area(t) = Box(x, y + a, w, b)
  BY DEF Ready, Covers
<1>2. PICK h \in Nat : h = a + b /\ a \in 0..h /\ h - a = b
  OBVIOUS
<1>3. /\ Box(x, y, w, h) = Box(x, y, w, a) \cup Box(x, y + a, w, h - a)
      /\ Box(x, y, w, a) \cap Box(x, y + a, w, h - a) = {}
  BY <1>2, CutLines
<1>4. s \o t \in Seq(Frames) /\ Area(s \o t) = Box(x, y, w, h) /\ Apart(s \o t)
  <2>1. s \o t \in Seq(Frames) /\ Area(s \o t) = Area(s) \cup Area(t)
    BY <1>1, AreaConcat
  <2>2. Area(s) \cap Area(t) = {} /\ Area(s) \cup Area(t) = Box(x, y, w, h)
    BY <1>1, <1>2, <1>3
  <2>3. Apart(s \o t)
    BY <1>1, <2>2, AreaConcat
  <2>4. QED BY <2>1, <2>2, <2>3
<1>5. \A i \in DOMAIN (s \o t) : FrameOK((s \o t)[i])
  <2> SUFFICES ASSUME NEW i \in DOMAIN (s \o t) PROVE FrameOK((s \o t)[i])
    OBVIOUS
  <2>1. \/ i \in DOMAIN s /\ (s \o t)[i] = s[i]
        \/ i - Len(s) \in DOMAIN t /\ (s \o t)[i] = t[i - Len(s)]
    BY <1>1, ConcatElements
  <2>2. QED BY <2>1 DEF Ready
<1>6. QED BY <1>2, <1>4, <1>5 DEF Ready, Covers

\* For the left part and for the right part.
LEMMA ReadyColumns ==
  ASSUME NEW s, NEW t, NEW x \in Nat, NEW y \in Nat, NEW h \in Nat, NEW a \in Nat, NEW b \in Nat,
         Ready(s, x, y, a, h), Ready(t, x + a, y, b, h)
  PROVE  Ready(s \o t, x, y, a + b, h)
<1>1. /\ s \in Seq(Frames) /\ t \in Seq(Frames) /\ Apart(s) /\ Apart(t)
      /\ Area(s) = Box(x, y, a, h) /\ Area(t) = Box(x + a, y, b, h)
  BY DEF Ready, Covers
<1>2. PICK w \in Nat : w = a + b /\ a \in 0..w /\ w - a = b
  OBVIOUS
<1>3. /\ Box(x, y, w, h) = Box(x, y, a, h) \cup Box(x + a, y, w - a, h)
      /\ Box(x, y, a, h) \cap Box(x + a, y, w - a, h) = {}
  BY <1>2, CutColumns
<1>4. s \o t \in Seq(Frames) /\ Area(s \o t) = Box(x, y, w, h) /\ Apart(s \o t)
  <2>1. s \o t \in Seq(Frames) /\ Area(s \o t) = Area(s) \cup Area(t)
    BY <1>1, AreaConcat
  <2>2. Area(s) \cap Area(t) = {} /\ Area(s) \cup Area(t) = Box(x, y, w, h)
    BY <1>1, <1>2, <1>3
  <2>3. Apart(s \o t)
    BY <1>1, <2>2, AreaConcat
  <2>4. QED BY <2>1, <2>2, <2>3
<1>5. \A i \in DOMAIN (s \o t) : FrameOK((s \o t)[i])
  <2> SUFFICES ASSUME NEW i \in DOMAIN (s \o t) PROVE FrameOK((s \o t)[i])
    OBVIOUS
  <2>1. \/ i \in DOMAIN s /\ (s \o t)[i] = s[i]
        \/ i - Len(s) \in DOMAIN t /\ (s \o t)[i] = t[i - Len(s)]
    BY <1>1, ConcatElements
  <2>2. QED BY <2>1 DEF Ready
<1>6. QED BY <1>2, <1>4, <1>5 DEF Ready, Covers

\* The calls above, to the left, to the right and below rely on nothing.
LEMMA ReadyPart ==
  ASSUME NEW x \in Nat, NEW y \in Nat, NEW w \in Nat, NEW h \in Nat, NEW kind \in {"simple", "tight"}
  PROVE  Ready(CallFor(x, y, w, h, kind), x, y, w, h)
<1>1. kind \in Kinds
  BY DEF Kinds
<1>2. FrameOK(Call(x, y, w, h, kind))
  BY DEF FrameOK, Call
<1>3. Covers(CallFor(x, y, w, h, kind), x, y, w, h)
  BY <1>1, CallForArea
<1>4. \A i \in DOMAIN CallFor(x, y, w, h, kind) : FrameOK(CallFor(x, y, w, h, kind)[i])
  <2> DEFINE a == Call(x, y, w, h, kind)
  <2>1. CallFor(x, y, w, h, kind) = <<>> \/ CallFor(x, y, w, h, kind) = <<a>>
    BY DEF CallFor
  <2>2. FrameOK(a)
    BY <1>2
  <2> HIDE DEF a
  <2>3. QED BY <2>1, <2>2, ShortSeqs
<1>5. QED BY <1>3, <1>4 DEF Ready

\* The call for the area of one colour, whose colour is one of the picture.
LEMMA ReadySolid ==
  ASSUME NEW x \in Nat, NEW y \in Nat, NEW w \in Pos, NEW h \in Pos, NEW c \in Colours,
         SolidOf(x, y, w, h, c)
  PROVE  Ready(<<Call(x, y, w, h, "solid")>>, x, y, w, h)
<1> DEFINE a == Call(x, y, w, h, "solid")
<1>1. "solid" \in Kinds
  BY DEF Kinds
<1>2. Covers(<<a>>, x, y, w, h) /\ Pixels(a) = Box(x, y, w, h)
  <2>1. Pixels(a) = Box(x, y, w, h)
    BY <1>1, CallIs
  <2>2. <<a>> \in Seq(Frames) /\ Area(<<a>>) = Box(x, y, w, h) /\ Apart(<<a>>)
    BY <1>1, CallArea
  <2>3. QED BY <2>1, <2>2 DEF Covers
<1>3. a.kind = "solid"
  BY DEF Call
<1> HIDE DEF a
<1>4. OneColour(a)
  BY <1>2, SolidBox DEF OneColour
<1>5. FrameOK(a)
  BY <1>3, <1>4 DEF FrameOK
<1>6. \A i \in DOMAIN <<a>> : FrameOK(<<a>>[i])
  BY <1>5, ShortSeqs
<1>7. QED BY <1>2, <1>6 DEF Ready, a

\* The area and the calls around it cover the rectangle.
LEMMA AroundIsReady ==
  ASSUME NEW x \in Nat, NEW y \in Nat, NEW w \in Nat, NEW h \in Nat, NEW c \in Colours,
         NEW ex \in Nat, NEW ey \in Nat, NEW ew \in Pos, NEW eh \in Pos,
         x <= ex, ex + ew <= x + w, y <= ey, ey + eh <= y + h, SolidOf(ex, ey, ew, eh, c)
  PROVE  Ready(CallFor(x, y, w, ey - y, "simple")
               \o (CallFor(x, ey, ex - x, eh, "tight") \o <<Call(ex, ey, ew, eh, "solid")>>
                   \o CallFor(ex + ew, ey, w - (ex - x) - ew, eh, "tight"))
               \o CallFor(x, ey + eh, w, h - (ey - y) - eh, "tight"), x, y, w, h)
<1>0. ew \in Nat /\ eh \in Nat
  BY DEF Pos
<1>1. PICK l \in Nat, r \in Nat, u \in Nat, d \in Nat :
        /\ l = ex - x /\ r = w - (ex - x) - ew /\ u = ey - y /\ d = h - (ey - y) - eh
  <2>1. ex - x \in Nat /\ w - (ex - x) - ew \in Nat /\ ey - y \in Nat /\ h - (ey - y) - eh \in Nat
    BY <1>0
  <2>2. QED BY <2>1
<1>2. /\ ex = x + l /\ ex + ew = x + (l + ew) /\ (l + ew) + r = w /\ l + ew \in Nat
      /\ ey = y + u /\ ey + eh = y + (u + eh) /\ (u + eh) + d = h /\ u + eh \in Nat
      /\ ex + ew \in Nat /\ ey + eh \in Nat
  BY <1>0, <1>1
<1> DEFINE above == CallFor(x, y, w, u, "simple")
           lft == CallFor(x, ey, l, eh, "tight")
           sol == <<Call(ex, ey, ew, eh, "solid")>>
           rgt == CallFor(ex + ew, ey, r, eh, "tight")
           below == CallFor(x, ey + eh, w, d, "tight")
<1>3. Ready(above, x, y, w, u) /\ Ready(lft, x, ey, l, eh)
  BY <1>0, ReadyPart
<1>4. Ready(rgt, ex + ew, ey, r, eh) /\ Ready(below, x, ey + eh, w, d)
  BY <1>0, <1>2, ReadyPart
<1>5. Ready(sol, ex, ey, ew, eh)
  BY ReadySolid
<1> HIDE DEF above, lft, sol, rgt, below
<1>6. Ready(lft \o sol, x, ey, l + ew, eh)
  <2>1. Ready(sol, x + l, ey, ew, eh)
    BY <1>2, <1>5
  <2>2. QED BY <1>0, <1>3, <2>1, ReadyColumns
<1>7. Ready(lft \o sol \o rgt, x, ey, w, eh)
  <2>1. Ready(rgt, x + (l + ew), ey, r, eh)
    BY <1>2, <1>4
  <2>2. Ready((lft \o sol) \o rgt, x, ey, (l + ew) + r, eh)
    BY <1>0, <1>2, <1>6, <2>1, ReadyColumns
  <2>3. QED BY <1>2, <2>2
<1> DEFINE beside == lft \o sol \o rgt
<1> HIDE DEF beside
<1>8. Ready(above \o beside, x, y, w, u + eh)
  <2>1. Ready(beside, x, y + u, w, eh)
    BY <1>2, <1>7 DEF beside
  <2>2. QED BY <1>0, <1>3, <2>1, ReadyLines
<1>9. Ready(above \o beside \o below, x, y, w, h)
  <2>1. Ready(below, x, y + (u + eh), w, d)
    BY <1>2, <1>4
  <2>2. Ready((above \o beside) \o below, x, y, w, (u + eh) + d)
    BY <1>0, <1>2, <1>8, <2>1, ReadyLines
  <2>3. QED BY <1>2, <2>2
<1>10. QED BY <1>1, <1>9 DEF above, beside, lft, sol, rgt, below

\* A call on the stack is for a part of the picture.
LEMMA FrameOnScreen ==
  ASSUME TypeOK, Partition, todo # <<>>
  PROVE  Box(todo[1].x, todo[1].y, todo[1].w, todo[1].h) \subseteq Screen
<1>1. todo[1] \in Frames /\ 1 \in DOMAIN todo
  BY TailElements DEF TypeOK
<1>2. Pixels(todo[1]) \subseteq Pixels(rect)
  <2>1. Pixels(todo[1]) \subseteq Area(todo)
    BY <1>1 DEF Area
  <2>2. QED BY <2>1 DEF Partition
<1>3. Whole(rect)
  BY DEF TypeOK, Partition
<1>4. PICK x \in Nat, y \in Nat, w \in Pos, h \in Pos :
        x = rect.x /\ y = rect.y /\ w = rect.w /\ h = rect.h
  BY <1>3 DEF Whole, Pieces
<1>5. x + w <= Width /\ y + h <= Height /\ Pixels(rect) = Box(x, y, w, h)
  BY <1>3, <1>4 DEF Whole, Pixels, Box
<1>6. x..(x + w - 1) \subseteq 0..(Width - 1) /\ y..(y + h - 1) \subseteq 0..(Height - 1)
  BY <1>5, LimitsPositive DEF Pos
<1>7. Box(x, y, w, h) \subseteq Screen
  BY <1>6 DEF Box, Screen
<1>8. Pixels(todo[1]) = Box(todo[1].x, todo[1].y, todo[1].w, todo[1].h)
  BY <1>1, FrameBox
<1>9. QED BY <1>2, <1>5, <1>7, <1>8

\* The loop over the rows of tiles.
LEMMA RowStep ==
  ASSUME WithPixels, SendRow
  PROVE  WithPixels'
<1> DEFINE f == todo[1]
           dx == Nearest(Solid(f))
           c == picture[<<dx, f.dy>>]
           b == ExtendSolidArea(f.x, f.y, f.w, f.h, BestAt(f, dx), c)
           beside == CallFor(f.x, b.y, b.x - f.x, b.h, "tight")
                     \o <<Call(b.x, b.y, b.w, b.h, "solid")>>
                     \o CallFor(b.x + b.w, b.y, f.w - (b.x - f.x) - b.w, b.h, "tight")
           around == CallFor(f.x, f.y, f.w, b.y - f.y, "simple")
                     \o beside
                     \o CallFor(f.x, b.y + b.h, f.w, f.h - (b.y - f.y) - b.h, "tight")
           next == [f EXCEPT !.dy = f.dy + Tile]
           all == Call(f.x, f.y, f.w, f.h, "simple")
<1>1. TypeOK /\ Partition /\ todo # <<>> /\ f.kind = "rows" /\ f \in Frames /\ FrameOK(f)
  BY TailElements DEF WithPixels, TypeOK, FramesOK, SendRow, Next1
<1>0. \/ Calls(<<next>>)
      \/ f.dy < f.y + f.h /\ Solid(f) # {} /\ Calls(around)
      \/ Calls(<<all>>)
  BY DEF SendRow
<1>2. Box(f.x, f.y, f.w, f.h) \subseteq Screen
  BY <1>1, FrameOnScreen
<1> HIDE DEF f
<1>3. /\ f.x \in Nat /\ f.y \in Nat /\ f.w \in Pos /\ f.h \in Pos /\ f.dy \in Nat
      /\ Pixels(f) = Box(f.x, f.y, f.w, f.h) /\ Tile \in Pos
  BY <1>1, FrameBox, LimitsPositive
<1>4. f.dy >= f.y /\ f.w \in Nat /\ f.h \in Nat
  BY <1>1, <1>3 DEF FrameOK, Pos
<1>5. \A out, calls : SameCount(f, out, calls)
  BY <1>1 DEF SameCount, Known
<1>a. ASSUME Calls(<<next>>) PROVE WithPixels'
  <2>1. /\ next \in Frames /\ next.kind = "rows" /\ next.dy = f.dy + Tile
        /\ next.x = f.x /\ next.y = f.y /\ next.w = f.w /\ next.h = f.h
    BY <1>1, <1>3 DEF Frames, Pos
  <2>2. Replaces(<<>>, <<next>>) /\ <<>> \in Seq(Pieces)
    <3> HIDE DEF next
    <3> QED BY <1>a, <1>1, CallsReplace
  <2> HIDE DEF next
  <2>3. Pixels(next) = Pixels(f)
    BY <2>1 DEF Pixels
  <2>4. FrameOK(next)
    BY <2>1, <1>3, <1>4 DEF FrameOK, Pos
  <2>5. SameArea(f, <<>>, <<next>>) /\ <<next>> \in Seq(Frames)
    BY <1>1, <2>1, <2>3, AreaSame
  <2>6. StandsFor(f, <<>>, <<next>>)
    BY <1>5, <2>2, <2>4, <2>5, ShortSeqs DEF StandsFor
  <2>7. QED BY <1>1, <2>2, <2>6, StepIInv DEF f
<1>b. ASSUME Calls(<<all>>) PROVE WithPixels'
  <2>1. "simple" \in Kinds
    BY DEF Kinds
  <2>2. all \in Frames /\ Pixels(all) = Pixels(f) /\ FrameOK(all)
    <3>1. FrameOK(all)
      BY DEF FrameOK, Call
    <3>2. QED BY <3>1, <2>1, <1>3, CallIs
  <2>3. Replaces(<<>>, <<all>>) /\ <<>> \in Seq(Pieces)
    <3> HIDE DEF all
    <3> QED BY <1>b, <1>1, CallsReplace
  <2> HIDE DEF all
  <2>4. SameArea(f, <<>>, <<all>>) /\ <<all>> \in Seq(Frames)
    BY <1>1, <2>2, AreaSame
  <2>5. StandsFor(f, <<>>, <<all>>)
    BY <1>5, <2>2, <2>3, <2>4, ShortSeqs DEF StandsFor
  <2>6. QED BY <1>1, <2>3, <2>5, StepIInv DEF f
<1>c. ASSUME f.dy < f.y + f.h, Solid(f) # {}, Calls(around) PROVE WithPixels'
  <2>1. dx \in Solid(f)
    <3>1. Solid(f) \in SUBSET Nat
      BY <1>3 DEF Solid
    <3>2. QED BY <3>1, <1>c, LeastExists
  <2> HIDE DEF dx
  <2>2. /\ dx \in f.x..(f.x + f.w - 1)
        /\ \/ BestAt(f, dx).w * BestAt(f, dx).h = f.w * f.h
           \/ BestAt(f, dx).w * BestAt(f, dx).h >= MinSolid
    BY <2>1 DEF Solid
  <2>3. PICK W \in Nat, H \in Nat : W = f.w - (dx - f.x) /\ H = f.h - (f.dy - f.y)
    BY <2>2, <1>3, <1>4, <1>c
  <2>4. dx \in Nat
    BY <2>2, <1>3
  <2>5. c \in Colours
    <3>1. dx \in f.x..(f.x + f.w - 1) /\ f.dy \in f.y..(f.y + f.h - 1)
      BY <2>2, <1>3, <1>4, <1>c
    <3>2. <<dx, f.dy>> \in Screen
      BY <3>1, <1>2 DEF Box
    <3>3. picture \in [Screen -> Colours]
      BY <1>1 DEF TypeOK
    <3>4. QED BY <3>2, <3>3
  <2> HIDE DEF c
  <2>6. BestAt(f, dx) = FindBestSolidArea(dx, f.dy, W, H, c)
    BY <2>3 DEF BestAt, c
  <2>7. PICK w1 \in 0..W, h1 \in 0..H :
          BestAt(f, dx) = Rect(dx, f.dy, w1, h1, "solid") /\ SolidOf(dx, f.dy, w1, h1, c)
    BY <2>4, <2>6, <1>3, BestIsSolid
  <2>8. BestAt(f, dx).w = w1 /\ BestAt(f, dx).h = h1
    BY <2>7 DEF Rect
  <2>9. w1 \in Pos /\ h1 \in Pos
    <3>1. w1 * h1 # 0
      <4>1. f.w * f.h > 0 /\ MinSolid > 0 /\ MinSolid \in Nat /\ f.w * f.h \in Nat
        <5>1. \A i, j \in Nat \ {0} : i * j > 0 /\ i * j \in Nat
          OBVIOUS
        <5>2. QED BY <5>1, <1>3, LimitsPositive DEF Pos
      <4>2. QED BY <4>1, <2>2, <2>8
    <3>2. w1 # 0 /\ h1 # 0
      BY <3>1
    <3>3. QED BY <3>2 DEF Pos
  <2>10. f.x <= dx /\ dx + w1 <= f.x + f.w /\ f.y <= f.dy /\ f.dy + h1 <= f.y + f.h
    BY <2>2, <2>3, <1>3, <1>4
  <2>11. PICK ex \in Nat, ey \in Nat, ew \in Pos, eh \in Pos :
           /\ ExtendSolidArea(f.x, f.y, f.w, f.h, Rect(dx, f.dy, w1, h1, "solid"), c)
              = Rect(ex, ey, ew, eh, "solid")
           /\ f.x <= ex /\ ex + ew <= f.x + f.w /\ f.y <= ey /\ ey + eh <= f.y + f.h
           /\ SolidOf(ex, ey, ew, eh, c)
    <3>1. PICK x \in Nat, y \in Nat, w \in Nat, h \in Nat, by \in Nat :
            x = f.x /\ y = f.y /\ w = f.w /\ h = f.h /\ by = f.dy
      BY <1>3, <1>4
    <3>2. x <= dx /\ dx + w1 <= x + w /\ y <= by /\ by + h1 <= y + h /\ SolidOf(dx, by, w1, h1, c)
      BY <2>7, <2>10, <3>1
    <3>3. SolidWithin(ExtendSolidArea(x, y, w, h, Rect(dx, by, w1, h1, "solid"), c), x, y, w, h, c)
      BY <2>4, <2>9, <3>2, ExtendIsSolid
    <3>4. QED BY <3>1, <3>3 DEF SolidWithin
  <2>12. b.x = ex /\ b.y = ey /\ b.w = ew /\ b.h = eh
    BY <2>7, <2>11 DEF Rect
  <2> HIDE DEF b
  <2>13. Ready(around, f.x, f.y, f.w, f.h)
    BY <2>5, <2>11, <2>12, <1>3, <1>4, AroundIsReady
  <2> HIDE DEF around, beside
  <2>14. Replaces(<<>>, around) /\ <<>> \in Seq(Pieces)
    BY <1>c, <1>1, CallsReplace
  <2>15. SameArea(f, <<>>, around)
    BY <2>13, <1>3, AreaEmpty DEF SameArea, Ready, Covers
  <2>16. StandsFor(f, <<>>, around)
    BY <1>5, <2>13, <2>14, <2>15, ShortSeqs DEF StandsFor, Ready, Covers
  <2>17. QED BY <1>1, <2>14, <2>16, StepIInv DEF f
<1>9. QED BY <1>0, <1>a, <1>b, <1>c

-----------------------------------------------------------------------------
(***************************************************************************)
(* Rectangles without pixels                                               *)
(***************************************************************************)

\* A call for a rectangle without pixels, and such a rectangle.
LEMMA EmptyIs ==
  ASSUME NEW x \in Nat, NEW y \in Nat, NEW w \in Nat, NEW h \in Nat, w = 0 \/ h = 0,
         NEW kind \in EmptyKinds
  PROVE  /\ Call(x, y, w, h, kind) \in EmptyCalls
         /\ Rect(x, y, w, h, kind) \in EmptyPieces
BY DEF Call, Rect, EmptyCalls, EmptyPieces

\* It has no pixels.
LEMMA NoPixels ==
  ASSUME NEW r \in EmptyPieces
  PROVE  Pixels(r) = {}
<1>1. r.x \in Nat /\ r.y \in Nat /\ r.w \in Nat /\ r.h \in Nat /\ (r.w = 0 \/ r.h = 0)
  BY DEF EmptyPieces
<1>2. r.x..(r.x + r.w - 1) = {} \/ r.y..(r.y + r.h - 1) = {}
  BY <1>1
<1>3. QED BY <1>2 DEF Pixels

\* One more of them.
LEMMA OneMore ==
  ASSUME NEW s, Unseen(s), NEW r \in EmptyPieces, r.kind = "simple" => r.w <= TightRectWidth
  PROVE  Unseen(Append(s, r)) /\ Len(Append(s, r)) = Len(s) + 1 /\ Len(s) \in Nat
<1>1. s \in Seq(EmptyPieces)
  BY DEF Unseen
<1>2. /\ Append(s, r) \in Seq(EmptyPieces) /\ Len(Append(s, r)) = Len(s) + 1 /\ Len(s) \in Nat
      /\ \A i \in DOMAIN Append(s, r) : Append(s, r)[i] = IF i \in DOMAIN s THEN s[i] ELSE r
  BY <1>1
<1>3. QED BY <1>2 DEF Unseen

\* The calls below the one at the top, when there are two at the most.
LEMMA ShortTails ==
  ASSUME NEW a, NEW b, NEW c
  PROVE  /\ <<>> \o Tail(<<a>>) = <<>> /\ <<b>> \o Tail(<<a>>) = <<b>>
         /\ <<b, c>> \o Tail(<<a>>) = <<b, c>> /\ <<>> \o Tail(<<a, b>>) = <<b>>
         /\ <<a>>[1] = a /\ <<a, b>>[1] = a /\ <<a>> # <<>>
         /\ Len(<<>>) = 0 /\ Len(<<a>>) = 1
<1>1. Tail(<<a>>) = <<>> /\ Tail(<<a, b>>) = <<b>>
  OBVIOUS
<1>2. <<b>> \in Seq({b, c}) /\ <<b, c>> \in Seq({b, c}) /\ <<>> \in Seq({b, c})
  OBVIOUS
<1>3. <<>> \o <<>> = <<>> /\ <<b>> \o <<>> = <<b>> /\ <<b, c>> \o <<>> = <<b, c>>
      /\ <<>> \o <<b>> = <<b>>
  BY <1>2, ConcatEmptySeq
<1>4. /\ <<a>>[1] = a /\ <<a, b>>[1] = a /\ <<a>> # <<>> /\ Len(<<>>) = 0 /\ Len(<<a>>) = 1
  OBVIOUS
<1>5. QED BY <1>1, <1>3, <1>4

\* The call at the top.
LEMMA EmptyTop ==
  ASSUME WithoutPixels, todo # <<>>
  PROVE  /\ todo[1] \in EmptyCalls /\ todo[1].kind \in EmptyKinds
         /\ todo[1].kind = "corre" => EmptyCoRRE
         /\ todo[1].kind = "lines" => EmptyLines
         /\ todo[1].kind \in {"simple", "tight"} => EmptyTight
<1>1. ASSUME EmptyCoRRE PROVE todo[1] \in EmptyCalls /\ todo[1].kind = "corre"
  BY <1>1 DEF EmptyCoRRE
<1>2. ASSUME EmptyLines PROVE todo[1] \in EmptyCalls /\ todo[1].kind = "lines"
  BY <1>2 DEF EmptyLines
<1>3. ASSUME EmptyTight PROVE todo[1] \in EmptyCalls /\ todo[1].kind \in {"simple", "tight"}
  BY <1>3 DEF EmptyTight
<1>4. QED BY <1>1, <1>2, <1>3 DEF WithoutPixels, EmptyKinds

\* CoRRE cuts it into as many as it counts: each count is at least one.
LEMMA EmptyCoRREStep ==
  ASSUME WithoutPixels, SendCoRRE
  PROVE  WithoutPixels'
<1> DEFINE t == todo[1]
<1>1. /\ todo # <<>> /\ t.kind = "corre" /\ t \in EmptyCalls /\ EmptyCoRRE
      /\ rect \in EmptyPieces /\ Unseen(sent) /\ announced \in Nat
  BY EmptyTop DEF SendCoRRE, Next1, WithoutPixels
<1>2. /\ t.x \in Nat /\ t.y \in Nat /\ t.w \in Nat /\ t.h \in Nat /\ (t.w = 0 \/ t.h = 0)
      /\ CorreMax \in Nat \ {0} /\ "corre" \in EmptyKinds
  BY <1>1, LimitsPositive DEF EmptyCalls, EmptyKinds, Pos
<1>3. Len(sent) \in Nat
  BY <1>1 DEF Unseen
<1>4. \/ todo = <<t>> /\ announced = Len(sent) + CountCoRRE(t.w, t.h)
      \/ \E g \in EmptyCalls :
           /\ todo = <<t, g>> /\ g.kind = "corre" /\ t.w <= CorreMax /\ t.h <= CorreMax
           /\ announced = Len(sent) + 1 + CountCoRRE(g.w, g.h)
  <2>1. CASE todo = <<>> /\ announced = Len(sent)
    BY <2>1, <1>1
  <2>2. ASSUME NEW f \in EmptyCalls, todo = <<f>>, announced = Len(sent) + CountCoRRE(f.w, f.h)
        PROVE  todo = <<t>> /\ announced = Len(sent) + CountCoRRE(t.w, t.h)
    BY <2>2
  <2>3. ASSUME NEW f \in EmptyCalls, NEW g \in EmptyCalls, todo = <<f, g>>
        PROVE  t = f /\ todo = <<t, g>>
    BY <2>3
  <2> HIDE DEF t
  <2>4. QED BY <2>1, <2>2, <2>3, <1>1 DEF EmptyCoRRE
<1> HIDE DEF t
<1>a. ASSUME NEW a \in EmptyCalls, NEW b \in EmptyCalls, a.kind = "corre", b.kind = "corre",
             a.w <= CorreMax, a.h <= CorreMax, t.w > CorreMax \/ t.h > CorreMax,
             CountCoRRE(t.w, t.h) = 1 + CountCoRRE(b.w, b.h), Calls(<<a, b>>)
      PROVE  WithoutPixels'
  <2>1. todo = <<t>> /\ announced = Len(sent) + CountCoRRE(t.w, t.h)
    BY <1>4, <1>a, <1>2
  <2>2. todo' = <<a, b>> /\ sent' = sent /\ rect' = rect /\ announced' = announced
    BY <1>a, <2>1, ShortTails DEF Calls
  <2>3. CountCoRRE(b.w, b.h) \in Nat
    BY CoRRECounts DEF EmptyCalls
  <2>4. announced' = Len(sent') + 1 + CountCoRRE(b.w, b.h)
    BY <2>1, <2>2, <2>3, <1>3, <1>a
  <2>5. rect.kind = "corre"
    BY <1>1 DEF EmptyCoRRE
  <2>6. EmptyCoRRE'
    BY <1>a, <2>2, <2>4, <2>5 DEF EmptyCoRRE
  <2>7. QED BY <1>1, <2>2, <2>6 DEF WithoutPixels
<1>5. CASE t.h > CorreMax /\ Calls(<<Call(t.x, t.y, t.w, CorreMax, "corre"),
                                     Call(t.x, t.y + CorreMax, t.w, t.h - CorreMax, "corre")>>)
  <2> DEFINE a == Call(t.x, t.y, t.w, CorreMax, "corre")
             b == Call(t.x, t.y + CorreMax, t.w, t.h - CorreMax, "corre")
  <2>1. t.w = 0 /\ t.h - CorreMax \in Nat /\ t.y + CorreMax \in Nat /\ CorreMax \in Nat
    BY <1>2, <1>5
  <2>2. a \in EmptyCalls /\ b \in EmptyCalls
    BY <1>2, <2>1, EmptyIs
  <2>3. CountCoRRE(t.w, t.h) = 1 + CountCoRRE(t.w, t.h - CorreMax)
    <3>1. CountCoRRE(t.w, t.h) = CountCoRRE(t.w, CorreMax) + CountCoRRE(t.w, t.h - CorreMax)
      BY <1>2, <1>5, CoRRECounts
    <3>2. CountCoRRE(t.w, CorreMax) = 1
      BY <1>2, <2>1, CoRRECounts
    <3>3. QED BY <3>1, <3>2
  <2>4. /\ a.kind = "corre" /\ b.kind = "corre" /\ a.w = t.w /\ a.h = CorreMax
        /\ b.w = t.w /\ b.h = t.h - CorreMax
    BY DEF Call
  <2> HIDE DEF a, b
  <2>5. a.w <= CorreMax /\ a.h <= CorreMax
    BY <2>1, <2>4
  <2>6. Calls(<<a, b>>)
    BY <1>5 DEF a, b
  <2>7. QED BY <1>5, <1>a, <2>2, <2>3, <2>4, <2>5, <2>6
<1>6. CASE t.w > CorreMax /\ Calls(<<Call(t.x, t.y, CorreMax, t.h, "corre"),
                                     Call(t.x + CorreMax, t.y, t.w - CorreMax, t.h, "corre")>>)
  <2> DEFINE a == Call(t.x, t.y, CorreMax, t.h, "corre")
             b == Call(t.x + CorreMax, t.y, t.w - CorreMax, t.h, "corre")
  <2>1. t.h = 0 /\ t.w - CorreMax \in Nat /\ t.x + CorreMax \in Nat /\ CorreMax \in Nat
    BY <1>2, <1>6
  <2>2. a \in EmptyCalls /\ b \in EmptyCalls
    BY <1>2, <2>1, EmptyIs
  <2>3. CountCoRRE(t.w, t.h) = 1 + CountCoRRE(t.w - CorreMax, t.h)
    <3>1. CountCoRRE(t.w, t.h) = CountCoRRE(CorreMax, t.h) + CountCoRRE(t.w - CorreMax, t.h)
      BY <1>2, <1>6, CoRRECounts
    <3>2. CountCoRRE(CorreMax, t.h) = 1
      BY <1>2, <2>1, CoRRECounts
    <3>3. QED BY <3>1, <3>2
  <2>4. /\ a.kind = "corre" /\ b.kind = "corre" /\ a.w = CorreMax /\ a.h = t.h
        /\ b.w = t.w - CorreMax /\ b.h = t.h
    BY DEF Call
  <2> HIDE DEF a, b
  <2>5. a.w <= CorreMax /\ a.h <= CorreMax
    BY <2>1, <2>4
  <2>6. Calls(<<a, b>>)
    BY <1>6 DEF a, b
  <2>7. QED BY <1>6, <1>a, <2>2, <2>3, <2>4, <2>5, <2>6
<1>7. CASE t.h <= CorreMax /\ t.w <= CorreMax /\ Sends(Rect(t.x, t.y, t.w, t.h, "corre"), <<>>)
  <2> DEFINE r == Rect(t.x, t.y, t.w, t.h, "corre")
  <2>1. r \in EmptyPieces /\ r.kind = "corre"
    <3>1. r.kind = "corre"
      BY DEF Rect
    <3>2. QED BY <3>1, <1>2, EmptyIs
  <2>2. sent' = Append(sent, r) /\ todo' = <<>> \o Tail(todo) /\ rect' = rect /\ announced' = announced
    BY <1>7 DEF Sends
  <2> HIDE DEF r
  <2>3. Unseen(sent') /\ Len(sent') = Len(sent) + 1
    BY <1>1, <2>1, <2>2, OneMore
  <2>4. rect.kind = "corre"
    BY <1>1 DEF EmptyCoRRE
  <2>5. CountCoRRE(t.w, t.h) = 1
    BY <1>2, <1>7, CoRRECounts
  <2>6. EmptyCoRRE'
    <3>1. CASE todo = <<t>> /\ announced = Len(sent) + CountCoRRE(t.w, t.h)
      <4>1. todo' = <<>>
        BY <3>1, <2>2, ShortTails
      <4>2. announced' = Len(sent')
        BY <3>1, <2>2, <2>3, <2>5, <1>3
      <4>3. QED BY <4>1, <4>2, <2>2, <2>4 DEF EmptyCoRRE
    <3>2. ASSUME NEW g \in EmptyCalls, todo = <<t, g>>, g.kind = "corre",
                 announced = Len(sent) + 1 + CountCoRRE(g.w, g.h)
          PROVE  EmptyCoRRE'
      <4>1. todo' = <<g>>
        BY <3>2, <2>2, ShortTails
      <4>2. announced' = Len(sent') + CountCoRRE(g.w, g.h)
        BY <3>2, <2>2, <2>3
      <4>3. QED BY <3>2, <4>1, <4>2, <2>2, <2>4 DEF EmptyCoRRE
    <3>3. QED BY <3>1, <3>2, <1>4
  <2>7. QED BY <1>1, <2>2, <2>3, <2>6 DEF WithoutPixels
<1>8. QED BY <1>5, <1>6, <1>7 DEF SendCoRRE, t

\* Zlib and Ultra end the loop before the first rectangle when there are no lines,
\* and never when there is no width.
LEMMA EmptyLinesStep ==
  ASSUME WithoutPixels, SendLines
  PROVE  WithoutPixels'
<1>1. /\ todo # <<>> /\ EmptyLines /\ rect \in EmptyPieces /\ Unseen(sent) /\ announced \in Nat
  BY EmptyTop DEF SendLines, Next1, WithoutPixels
<1>2. PICK f \in EmptyCalls : todo = <<f>> /\ f.kind = "lines" /\ f.w = rect.w /\ f.h = rect.h
  BY <1>1 DEF EmptyLines
<1>3. /\ f.x \in Nat /\ f.y \in Nat /\ f.w \in Nat /\ f.h \in Nat /\ (f.w = 0 \/ f.h = 0)
      /\ "lines" \in EmptyKinds /\ todo[1] = f
  BY <1>2 DEF EmptyCalls, EmptyKinds
<1> DEFINE n == Lesser(MaxLines(f.w), f.h)
           b == Call(f.x, f.y + n, f.w, f.h - n, "lines")
           r == Rect(f.x, f.y, f.w, n, "lines")
<1>4. \/ f.h = 0 /\ Calls(<<>>)
      \/ f.h > 0 /\ Sends(r, IF n = f.h THEN <<>> ELSE <<b>>)
  BY <1>3 DEF SendLines
<1>5. CASE f.h = 0 /\ Calls(<<>>)
  <2>1. todo' = <<>> /\ sent' = sent /\ rect' = rect /\ announced' = announced
    BY <1>2, <1>5, ShortTails DEF Calls
  <2>2. EmptyLines'
    BY <1>1, <2>1 DEF EmptyLines
  <2>3. QED BY <1>1, <2>1, <2>2 DEF WithoutPixels
<1>6. CASE f.h > 0 /\ Sends(r, IF n = f.h THEN <<>> ELSE <<b>>)
  <2>1. f.w = 0 /\ n = 0
    <3>1. f.w = 0
      BY <1>3, <1>6
    <3>2. MaxLines(0) = 0
      BY DEF MaxLines, Quot
    <3>3. QED BY <3>1, <3>2, <1>6, <1>3 DEF Lesser
  <2>2. r \in EmptyPieces /\ b \in EmptyCalls /\ n # f.h
    <3> HIDE DEF n
    <3>1. f.y + n = f.y /\ f.h - n = f.h /\ n \in Nat /\ n # f.h
      BY <2>1, <1>3, <1>6
    <3>2. QED BY <3>1, <2>1, <1>3, EmptyIs
  <2>3. r.kind = "lines" /\ b.kind = "lines" /\ b.w = f.w /\ b.h = f.h - n
    BY DEF Rect, Call
  <2>4. b.h = f.h
    <3> HIDE DEF n, b
    <3> QED BY <2>1, <2>3, <1>3
  <2> HIDE DEF n, b, r
  <2>5. sent' = Append(sent, r) /\ todo' = <<b>> /\ rect' = rect /\ announced' = announced
    BY <1>2, <1>6, <2>2, ShortTails DEF Sends
  <2>6. Unseen(sent')
    BY <1>1, <2>2, <2>3, <2>5, OneMore
  <2>7. rect'.h # 0
    BY <1>2, <1>3, <1>6, <2>5
  <2>8. EmptyLines'
    BY <1>1, <1>2, <2>2, <2>3, <2>4, <2>5, <2>7 DEF EmptyLines
  <2>9. QED BY <1>1, <2>5, <2>6, <2>8 DEF WithoutPixels
<1>7. QED BY <1>4, <1>5, <1>6

\* Tight sends it as it is, or no band of it at all.
LEMMA EmptyTightStep ==
  ASSUME WithoutPixels, SendRectSimple \/ SendRectEncodingTight
  PROVE  WithoutPixels'
<1>1. /\ todo # <<>> /\ EmptyTight /\ rect \in EmptyPieces /\ Unseen(sent) /\ announced \in Nat
  BY EmptyTop DEF SendRectSimple, SendRectEncodingTight, Next1, WithoutPixels
<1>2. PICK f \in EmptyCalls :
        todo = <<f>> /\ f.kind \in {"simple", "tight"} /\ f.w = rect.w /\ f.h = rect.h
  BY <1>1 DEF EmptyTight
<1>3. /\ f.x \in Nat /\ f.y \in Nat /\ f.w \in Nat /\ f.h \in Nat /\ (f.w = 0 \/ f.h = 0)
      /\ "simple" \in EmptyKinds /\ todo[1] = f /\ Len(todo) = 1 /\ TightRectWidth \in Nat \ {0}
  BY <1>2, LimitsPositive DEF EmptyCalls, EmptyKinds, Pos
<1>4. f.w * f.h = 0
  BY <1>3
<1>5. TooLarge(f.w, f.h) <=> f.w > TightRectWidth
  <2>1. ~(f.w * f.h > TightRectSize)
    BY <1>4, LimitsPositive
  <2>2. QED BY <2>1 DEF TooLarge
<1>6. CASE SendRectEncodingTight
  <2> DEFINE a == Call(f.x, f.y, f.w, f.h, "simple")
  <2>1. f.w * f.h < MinSplit
    BY <1>4, LimitsPositive DEF Pos
  <2>2. Calls(<<a>>)
    BY <1>3, <1>6, <2>1 DEF SendRectEncodingTight
  <2>3. a \in EmptyCalls /\ a.kind = "simple" /\ a.w = f.w /\ a.h = f.h
    <3>1. a \in EmptyCalls
      BY <1>3, EmptyIs
    <3>2. QED BY <3>1 DEF Call
  <2> HIDE DEF a
  <2>4. todo' = <<a>> /\ sent' = sent /\ rect' = rect /\ announced' = announced
    BY <1>2, <2>2, ShortTails DEF Calls
  <2>5. Len(todo') = Len(todo)
    BY <1>3, <2>4
  <2>6. EmptyTight'
    BY <1>1, <1>2, <2>3, <2>4, <2>5 DEF EmptyTight
  <2>7. QED BY <1>1, <2>4, <2>6 DEF WithoutPixels
<1>7. CASE SendRectSimple /\ TooLarge(f.w, f.h)
  <2>1. f.w > TightRectWidth /\ f.h = 0
    BY <1>3, <1>5, <1>7
  <2>2. Calls(<<>>)
    BY <1>3, <1>7, <2>1 DEF SendRectSimple, CallFor
  <2>3. todo' = <<>> /\ sent' = sent /\ rect' = rect /\ announced' = announced
    BY <1>2, <2>2, ShortTails DEF Calls
  <2>4. EmptyTight'
    BY <1>1, <1>2, <2>1, <2>3 DEF EmptyTight
  <2>5. QED BY <1>1, <2>3, <2>4 DEF WithoutPixels
<1>8. CASE SendRectSimple /\ ~TooLarge(f.w, f.h)
  <2> DEFINE r == Rect(f.x, f.y, f.w, f.h, "simple")
  <2>1. Sends(r, <<>>)
    BY <1>3, <1>8 DEF SendRectSimple
  <2>2. r \in EmptyPieces /\ r.w = f.w /\ f.w <= TightRectWidth
    <3>1. f.w <= TightRectWidth
      BY <1>3, <1>5, <1>8
    <3>2. r \in EmptyPieces
      BY <1>3, EmptyIs
    <3>3. QED BY <3>1, <3>2 DEF Rect
  <2> HIDE DEF r
  <2>3. sent' = Append(sent, r) /\ todo' = <<>> /\ rect' = rect /\ announced' = announced
    BY <1>2, <2>1, ShortTails DEF Sends
  <2>4. Unseen(sent') /\ Len(sent') = Len(sent) + 1 /\ Len(sent) \in Nat
    BY <1>1, <2>2, <2>3, OneMore
  <2>5. ~(rect.w > TightRectWidth) /\ announced = Len(sent) + 1 /\ Len(todo') = 0
    BY <1>1, <1>2, <1>3, <2>2, <2>3 DEF EmptyTight
  <2>6. announced' = Len(sent') + Len(todo')
    BY <2>3, <2>4, <2>5
  <2>7. EmptyTight'
    BY <1>1, <2>3, <2>5, <2>6 DEF EmptyTight
  <2>8. QED BY <1>1, <2>3, <2>4, <2>7 DEF WithoutPixels
<1>9. QED BY <1>6, <1>7, <1>8

\* The call that an update of such a rectangle begins with.
LEMMA EmptyEncodeStep ==
  ASSUME rect = Nothing, sent = <<>>, NEW r \in UpdateRects, r.w = 0 \/ r.h = 0, NEW n,
         NEW kind \in EmptyKinds, Encode(r, n, kind),
         \/ kind = "corre" /\ n = CountCoRRE(r.w, r.h)
         \/ kind = "lines" /\ n = CountLines(r.w, r.h)
         \/ kind \in {"simple", "tight"} /\ n = CountTight(r.w, r.h, FALSE)
  PROVE  WithoutPixels'
<1> DEFINE f == Call(r.x, r.y, r.w, r.h, kind)
<1>1. /\ r.x \in Nat /\ r.y \in Nat /\ r.w \in Nat /\ r.h \in Nat
      /\ rect' = Rect(r.x, r.y, r.w, r.h, kind) /\ announced' = n /\ todo' = <<f>> /\ sent' = <<>>
  <2>1. PICK x \in 0..(Width - 1), y \in 0..(Height - 1), w \in 0..Width, h \in 0..Height :
          r = Rect(x, y, w, h, "update")
    BY DEF UpdateRects
  <2>2. r.x = x /\ r.y = y /\ r.w = w /\ r.h = h /\ [r EXCEPT !.kind = kind] = Rect(x, y, w, h, kind)
    BY <2>1 DEF Rect
  <2>3. x \in Nat /\ y \in Nat /\ w \in Nat /\ h \in Nat
    BY LimitsPositive DEF Pos
  <2>4. QED BY <2>2, <2>3 DEF Encode
<1>2. /\ rect' \in EmptyPieces /\ f \in EmptyCalls
      /\ rect'.kind = kind /\ rect'.w = r.w /\ rect'.h = r.h /\ f.kind = kind /\ f.w = r.w /\ f.h = r.h
  <2>1. rect' \in EmptyPieces /\ f \in EmptyCalls
    BY <1>1, EmptyIs
  <2>2. QED BY <2>1, <1>1 DEF Rect, Call
<1> HIDE DEF f
<1>3. Unseen(sent') /\ Len(sent') = 0 /\ Len(todo') = 1
  BY <1>1 DEF Unseen
<1>4. \A m \in Nat : 0 + m = m
  OBVIOUS
<1>5. CASE kind = "corre" /\ n = CountCoRRE(r.w, r.h)
  <2>1. n \in Nat
    BY <1>1, <1>5, CoRRECounts
  <2>2. announced' = Len(sent') + CountCoRRE(f.w, f.h)
    BY <1>1, <1>2, <1>3, <1>5, <2>1
  <2>3. EmptyCoRRE'
    BY <1>1, <1>2, <1>5, <2>2 DEF EmptyCoRRE
  <2>4. QED BY <1>1, <1>2, <1>3, <2>1, <2>3 DEF WithoutPixels
<1>6. CASE kind = "lines" /\ n = CountLines(r.w, r.h)
  <2>1. Quot(r.h - 1, MaxLines(r.w)) = 0
    <3>1. CASE r.w = 0
      BY <3>1 DEF MaxLines, Quot
    <3>2. CASE r.w # 0
      <4>1. r.w \in Nat \ {0} /\ r.h = 0 /\ MAX_SIZE(r.w) \in Nat /\ MAX_SIZE(r.w) >= r.w * 2
        <5>1. r.w \in Pos
          BY <1>1, <3>2 DEF Pos
        <5>2. r.w * 2 \in Nat /\ MaxRectSize \in Nat
          BY <1>1, LimitsAssumption
        <5>3. MAX_SIZE(r.w) \in Nat /\ MAX_SIZE(r.w) >= r.w * 2
          BY <5>2 DEF MAX_SIZE
        <5>4. r.h = 0
          BY <3>2
        <5>5. QED BY <5>1, <5>3, <5>4 DEF Pos
      <4> DEFINE k == MAX_SIZE(r.w)
                 m == k \div r.w
      <4>2. k \in Nat /\ k >= r.w * 2 /\ m \in Nat /\ k < r.w * m + r.w
        BY <4>1, Division
      <4>3. MaxLines(r.w) = m
        BY <4>1, <4>2, QuotIs DEF MaxLines
      <4> HIDE DEF k, m
      <4>4. m # 0 /\ m # 1
        BY <4>1, <4>2
      <4>5. r.h - 1 = -1
        BY <4>1
      <4>6. QED BY <4>2, <4>3, <4>4, <4>5, QuotIs
    <3>3. QED BY <3>1, <3>2
  <2>2. n = 1
    BY <1>6, <2>1 DEF CountLines
  <2>3. EmptyLines'
    BY <1>1, <1>2, <1>6, <2>2 DEF EmptyLines
  <2>4. QED BY <1>1, <1>2, <1>3, <2>2, <2>3 DEF WithoutPixels
<1>7. CASE kind \in {"simple", "tight"} /\ n = CountTight(r.w, r.h, FALSE)
  <2>1. r.w * r.h = 0
    BY <1>1
  <2>2. TooLarge(r.w, r.h) <=> r.w > TightRectWidth
    <3>1. ~(r.w * r.h > TightRectSize)
      BY <2>1, LimitsPositive
    <3>2. QED BY <3>1 DEF TooLarge
  <2>3. CASE r.w > TightRectWidth
    <3>1. /\ r.h = 0 /\ r.w - 1 \in Nat /\ r.w \in Pos /\ TightRectWidth \in Nat \ {0}
          /\ r.h - 1 = -1
      <4>1. TightRectWidth \in Nat \ {0}
        BY LimitsAssumption
      <4>2. r.w \in Nat /\ r.w > 0
        BY <1>1, <2>3, <4>1
      <4>3. r.h = 0
        BY <4>2
      <4>4. QED BY <4>1, <4>2, <4>3 DEF Pos
    <3> DEFINE m == TightRectSize \div TightRectWidth
               q == Quot(r.w - 1, TightRectWidth)
    <3>2. m \in Nat /\ TightRectSize < TightRectWidth * m + TightRectWidth /\ q \in Nat
      BY <3>1, LimitsPositive, Division, QuotIs
    <3>3. MaxHeight(r.w) = m
      BY <1>1, <2>3, <3>1 DEF MaxHeight, Lesser
    <3> HIDE DEF m, q
    <3>4. m # 0 /\ m # 1
      <4>1. TightRectSize >= 2 * TightRectWidth
        <5>1. Tile \in Nat /\ Tile >= 2 /\ TightRectSize >= Tile * TightRectWidth
              /\ TightRectWidth \in Nat /\ TightRectSize \in Nat
          BY LimitsAssumption
        <5>2. (Tile - 2) * TightRectWidth >= 0
          BY <5>1
        <5>3. (Tile - 2) * TightRectWidth = Tile * TightRectWidth - 2 * TightRectWidth
          BY <5>1
        <5>4. Tile * TightRectWidth \in Int
          BY <5>1
        <5>5. QED BY <5>1, <5>2, <5>3, <5>4
      <4>2. QED BY <3>1, <3>2, <4>1, LimitsPositive
    <3>5. Quot(r.h - 1, MaxHeight(r.w)) = 0
      BY <3>1, <3>2, <3>3, <3>4, QuotIs
    <3>6. n = (q + 1) * (0 + 1)
      BY <1>7, <2>2, <2>3, <3>5 DEF CountTight, q
    <3>7. n \in Nat /\ n > 0
      BY <3>2, <3>6
    <3>8. EmptyTight'
      BY <1>1, <1>2, <1>7, <2>3, <3>7 DEF EmptyTight
    <3>9. QED BY <1>1, <1>2, <1>3, <3>7, <3>8 DEF WithoutPixels
  <2>4. CASE ~(r.w > TightRectWidth)
    <3>1. n = 1
      BY <1>7, <2>2, <2>4 DEF CountTight
    <3>2. announced' = Len(sent') + Len(todo')
      BY <1>1, <1>3, <3>1
    <3>3. EmptyTight'
      BY <1>1, <1>2, <1>7, <2>4, <3>2 DEF EmptyTight
    <3>4. QED BY <1>1, <1>2, <1>3, <3>1, <3>3 DEF WithoutPixels
  <2>5. QED BY <2>3, <2>4
<1>8. QED BY <1>5, <1>6, <1>7

\* Every step keeps it.
LEMMA EmptyStep ==
  ASSUME WithoutPixels, Next
  PROVE  WithoutPixels'
<1>1. rect # Nothing
  BY DEF WithoutPixels, EmptyPieces, EmptyKinds, Nothing, Rect
<1>2. ASSUME todo # <<>> PROVE todo[1].kind \in EmptyKinds
  BY <1>2, EmptyTop
<1>3. ~(rfbSendRectEncodingCoRRE \/ rfbSendRectEncodingZlib \/ rfbSendRectEncodingTight)
  BY <1>1 DEF rfbSendRectEncodingCoRRE, rfbSendRectEncodingZlib, rfbSendRectEncodingTight, Encode
<1>4. ~(SendBands \/ SendColumns \/ SendUpperPart \/ SendRow \/ SendSolidRect)
  BY <1>2 DEF EmptyKinds, SendBands, SendColumns, SendUpperPart, SendRow, SendSolidRect, Next1
<1>5. QED BY <1>3, <1>4, EmptyCoRREStep, EmptyLinesStep, EmptyTightStep DEF Next

-----------------------------------------------------------------------------
(***************************************************************************)
(* The invariant holds                                                     *)
(***************************************************************************)

\* The call that an update begins with.
LEMMA EncodeStep ==
  ASSUME WithPixels, NEW r \in UpdateRects, r.w # 0, r.h # 0, NEW n, NEW kind \in Kinds,
         Encode(r, n, kind),
         FrameOK(Call(r.x, r.y, r.w, r.h, kind)),
         \/ n = LastRect
         \/ Known(Call(r.x, r.y, r.w, r.h, kind)) /\ n = Pending(Call(r.x, r.y, r.w, r.h, kind))
  PROVE  WithPixels'
<1> DEFINE a == Call(r.x, r.y, r.w, r.h, kind)
<1>1. /\ TypeOK /\ Partition /\ rect = Nothing /\ sent' = sent /\ picture' = picture
      /\ rect' = [r EXCEPT !.kind = kind] /\ announced' = n /\ todo' = <<a>>
  BY DEF WithPixels, Encode
<1>2. sent = <<>>
  BY <1>1 DEF Partition
<1>3. /\ r.x \in Nat /\ r.y \in Nat /\ r.w \in Pos /\ r.h \in Pos
      /\ Pixels(r) = Box(r.x, r.y, r.w, r.h)
      /\ Whole(rect') /\ rect' # Nothing /\ Pixels(rect') = Pixels(r)
  <2>1. PICK x \in 0..(Width - 1), y \in 0..(Height - 1), w \in 0..Width, h \in 0..Height :
          r = Rect(x, y, w, h, "update") /\ x + w <= Width /\ y + h <= Height
    BY DEF UpdateRects, Rect
  <2>2. /\ r.x = x /\ r.y = y /\ r.w = w /\ r.h = h /\ rect' = Rect(x, y, w, h, kind)
    BY <2>1, <1>1 DEF Rect
  <2>3. x \in Nat /\ y \in Nat /\ w \in Pos /\ h \in Pos
    BY <2>2, LimitsPositive DEF Pos
  <2>4. Whole(rect') /\ rect' # Nothing
    BY <2>1, <2>2, <2>3 DEF Whole, Pieces, Rect, Nothing, Pos
  <2>5. Pixels(rect') = Box(x, y, w, h)
    BY <2>2 DEF Pixels, Box, Rect
  <2>6. QED BY <2>2, <2>3, <2>4, <2>5 DEF Pixels, Box
<1>4. /\ a \in Frames /\ <<a>> \in Seq(Frames) /\ Area(<<a>>) = Pixels(r) /\ Apart(<<a>>)
  <2>1. PICK x \in Nat, y \in Nat, w \in Pos, h \in Pos : x = r.x /\ y = r.y /\ w = r.w /\ h = r.h
    BY <1>3
  <2>2. a = Call(x, y, w, h, kind)
    BY <2>1
  <2> HIDE DEF a
  <2>3. a \in Frames
    BY <2>2, CallIs
  <2>4. <<a>> \in Seq(Frames) /\ Area(<<a>>) = Box(x, y, w, h) /\ Apart(<<a>>)
    BY <2>2, CallArea
  <2>5. QED BY <2>1, <2>3, <2>4, <1>3
<1>5. Pending(a) \in Nat
  BY <1>4, KnownPending
<1>6. FrameOK(a) /\ (n = LastRect \/ (Known(a) /\ n = Pending(a)))
  OBVIOUS
<1> HIDE DEF a
<1>7. TypeOK'
  <2>1. n \in Nat
    BY <1>5, <1>6 DEF LastRect
  <2>2. QED BY <1>1, <1>2, <1>3, <1>4, <2>1 DEF TypeOK, Whole, Nothing, Rect
<1>8. Partition'
  <2>1. /\ rect' # Nothing /\ Area(sent') = {} /\ Area(todo') = Pixels(rect')
        /\ Apart(sent') /\ Apart(todo')
    BY <1>1, <1>2, <1>3, <1>4, AreaEmpty
  <2>2. QED BY <2>1 DEF Partition, Area, Apart, Pixels, Nothing, Rect
<1>9. Counted'
  <2>1. CASE n = LastRect
    BY <1>1, <2>1 DEF Counted
  <2>2. CASE Known(a) /\ n = Pending(a)
    <3> DEFINE g == [i \in 1..2 |-> IF i = 1 THEN n ELSE 0]
    <3>1. /\ Len(<<a>>) = 1 /\ Len(<<a>>) + 1 = 2 /\ DOMAIN <<a>> = {1} /\ <<a>>[1] = a
          /\ Len(<<>>) = 0
      OBVIOUS
    <3>2. g \in [1..2 -> Nat] /\ g[1] = n /\ g[2] = 0
      BY <2>2, <1>5
    <3> HIDE DEF g
    <3>3. Totals(<<a>>, g)
      <4>1. g[1] = Pending(a) + g[2]
        BY <2>2, <3>2, <1>5
      <4>2. 1 + 1 = 2 /\ \A i \in 1..1 : i = 1
        OBVIOUS
      <4>3. QED BY <3>1, <3>2, <4>1, <4>2 DEF Totals
    <3>4. n = Len(<<>>) + g[1]
      BY <2>2, <1>5, <3>1, <3>2
    <3>5. \A i \in DOMAIN <<a>> : Known(<<a>>[i])
      BY <2>2, <3>1
    <3>6. /\ \A i \in DOMAIN todo' : Known(todo'[i])
          /\ g \in [1..(Len(todo') + 1) -> Nat] /\ Totals(todo', g)
          /\ announced' = Len(sent') + g[1]
      BY <1>1, <1>2, <3>1, <3>2, <3>3, <3>4, <3>5
    <3>7. QED BY <3>6 DEF Counted, Totals, Known, Pending, CountCoRRE, CountLines, CountTight,
              MaxHeight, MaxLines, MAX_SIZE, TooLarge, Lesser
  <2>3. QED BY <1>6, <2>1, <2>2
<1>10. FramesOK' /\ SolidIsSolid' /\ FitsTightBuffer'
  <2>1. \A i \in DOMAIN <<a>> : FrameOK(<<a>>[i])
    BY <1>6, ShortSeqs
  <2>2. DOMAIN sent' = {}
    BY <1>1, <1>2
  <2>3. SolidIsSolid' /\ FitsTightBuffer'
    BY <2>2 DEF SolidIsSolid, FitsTightBuffer
  <2>4. \A i \in DOMAIN todo' : FrameOK(todo'[i])
    BY <1>1, <2>1
  <2>5. picture' = picture
    BY <1>1
  <2>6. FramesOK'
    BY <2>4, <2>5 DEF FramesOK, FrameOK, OneColour, Pixels, Lesser
  <2>7. QED BY <2>3, <2>6
<1>11. QED BY <1>7, <1>8, <1>9, <1>10 DEF WithPixels

\* Nothing has been sent.
LEMMA InitIInv == Init => IInv
<1> SUFFICES ASSUME Init PROVE IInv
  OBVIOUS
<1>1. /\ picture \in [Screen -> Colours] /\ rect = Nothing /\ announced = 0
      /\ todo = <<>> /\ sent = <<>>
  BY DEF Init, Screen
<1>2. <<>> \in Seq(Frames) /\ <<>> \in Seq(Pieces) /\ DOMAIN <<>> = {} /\ Len(<<>>) = 0
  OBVIOUS
<1>3. TypeOK
  BY <1>1, <1>2 DEF TypeOK
<1>4. Partition
  BY <1>1, AreaEmpty DEF Partition
<1>5. Counted
  <2> DEFINE g == [i \in 1..1 |-> 0]
  <2>1. g \in [1..1 -> Nat] /\ g[1] = 0
    OBVIOUS
  <2> HIDE DEF g
  <2>2. Totals(<<>>, g) /\ announced = Len(sent) + g[1]
    BY <1>1, <1>2, <2>1 DEF Totals
  <2>3. \A i \in DOMAIN todo : Known(todo[i])
    BY <1>1, <1>2
  <2>4. g \in [1..(Len(todo) + 1) -> Nat] /\ Totals(todo, g)
    BY <1>1, <1>2, <2>1, <2>2
  <2>5. QED BY <2>2, <2>3, <2>4 DEF Counted
<1>6. FramesOK /\ SolidIsSolid /\ FitsTightBuffer
  BY <1>1, <1>2 DEF FramesOK, SolidIsSolid, FitsTightBuffer
<1>7. QED BY <1>3, <1>4, <1>5, <1>6 DEF IInv, WithPixels

\* The call that an update begins with.
LEMMA BeginStep ==
  ASSUME WithPixels, NEW r \in UpdateRects, NEW n, NEW kind \in EmptyKinds, Encode(r, n, kind),
         \/ kind = "corre" /\ n = CountCoRRE(r.w, r.h)
         \/ kind = "lines" /\ n = CountLines(r.w, r.h)
         \/ kind = "simple" /\ n = CountTight(r.w, r.h, FALSE)
         \/ kind = "tight" /\ n = CountTight(r.w, r.h, TRUE)
  PROVE  IInv'
<1> DEFINE a == Call(r.x, r.y, r.w, r.h, kind)
<1>1. a.kind = kind /\ a.w = r.w /\ a.h = r.h /\ kind \in Kinds
  BY DEF Call, EmptyKinds, Kinds
<1>2. r.w \in Nat /\ r.h \in Nat /\ MinSplit \in Pos /\ rect = Nothing /\ sent = <<>>
  <2>1. r.w \in Nat /\ r.h \in Nat
    BY LimitsPositive DEF UpdateRects, Rect, Pos
  <2>2. QED BY <2>1, LimitsPositive DEF Encode, WithPixels, Partition
<1>3. kind = "tight" /\ ~(r.w * r.h >= MinSplit) => n = CountTight(r.w, r.h, FALSE)
  BY DEF CountTight
<1>4. CASE r.w = 0 \/ r.h = 0
  <2>1. ~(r.w * r.h >= MinSplit)
    BY <1>2, <1>4 DEF Pos
  <2>2. WithoutPixels'
    BY <1>2, <1>3, <1>4, <2>1, EmptyEncodeStep
  <2>3. QED BY <2>2 DEF IInv
<1>5. CASE r.w # 0 /\ r.h # 0
  <2>1. FrameOK(a)
    <3> HIDE DEF a
    <3> QED BY <1>1 DEF FrameOK, EmptyKinds
  <2>2. kind = "corre" => Known(a) /\ n = Pending(a)
    <3> HIDE DEF a
    <3> QED BY <1>1 DEF Known, Pending
  <2>3. kind = "lines" => Known(a) /\ n = Pending(a)
    <3> HIDE DEF a
    <3> QED BY <1>1 DEF Known, Pending
  <2>4. kind = "simple" => Known(a) /\ n = Pending(a)
    <3> HIDE DEF a
    <3> QED BY <1>1 DEF Known, Pending
  <2>5. kind = "tight" => n = LastRect \/ (Known(a) /\ n = Pending(a))
    <3> HIDE DEF a
    <3>1. CASE r.w * r.h >= MinSplit
      BY <3>1 DEF CountTight
    <3>2. CASE ~(r.w * r.h >= MinSplit)
      <4>1. r.w * r.h < MinSplit
        BY <1>2, <3>2 DEF Pos
      <4>2. QED BY <1>1, <1>3, <3>2, <4>1 DEF Known, Pending
    <3>3. QED BY <3>1, <3>2
  <2>6. n = LastRect \/ (Known(a) /\ n = Pending(a))
    BY <2>2, <2>3, <2>4, <2>5
  <2> HIDE DEF a
  <2>7. WithPixels'
    BY <1>1, <1>5, <2>1, <2>6, EncodeStep DEF a
  <2>8. QED BY <2>7 DEF IInv
<1>6. QED BY <1>4, <1>5

\* Every step of a rectangle with pixels, the first one included.
LEMMA NextWithPixels ==
  ASSUME WithPixels, Next
  PROVE  IInv'
<1>0. {"corre", "lines", "simple", "tight"} = EmptyKinds
  BY DEF EmptyKinds
<1>1. CASE rfbSendRectEncodingCoRRE
  <2>1. PICK r \in UpdateRects : Encode(r, CountCoRRE(r.w, r.h), "corre")
    BY <1>1 DEF rfbSendRectEncodingCoRRE
  <2>2. QED BY <2>1, <1>0, BeginStep
<1>2. CASE rfbSendRectEncodingZlib
  <2>1. PICK r \in UpdateRects : Encode(r, CountLines(r.w, r.h), "lines")
    BY <1>2 DEF rfbSendRectEncodingZlib
  <2>2. QED BY <2>1, <1>0, BeginStep
<1>3. CASE rfbSendRectEncodingTight
  <2>1. PICK r \in UpdateRects : \/ Encode(r, CountTight(r.w, r.h, FALSE), "simple")
                                 \/ Encode(r, CountTight(r.w, r.h, TRUE), "tight")
    BY <1>3 DEF rfbSendRectEncodingTight
  <2>2. QED BY <2>1, <1>0, BeginStep
<1>4. CASE SendCoRRE
  BY <1>4, CoRREStep DEF IInv
<1>5. CASE SendLines
  BY <1>5, LinesStep DEF IInv
<1>6. CASE SendRectSimple
  BY <1>6, SimpleStep DEF IInv
<1>7. CASE SendBands
  BY <1>7, BandsStep DEF IInv
<1>8. CASE SendColumns
  BY <1>8, ColumnsStep DEF IInv
<1>9. CASE SendRectEncodingTight
  BY <1>9, TightStep DEF IInv
<1>10. CASE SendUpperPart
  BY <1>10, UpperStep DEF IInv
<1>11. CASE SendRow
  BY <1>11, RowStep DEF IInv
<1>12. CASE SendSolidRect
  BY <1>12, SolidStep DEF IInv
<1>13. QED BY <1>1, <1>2, <1>3, <1>4, <1>5, <1>6, <1>7, <1>8, <1>9, <1>10, <1>11, <1>12 DEF Next

\* And a stuttering one.
LEMMA StutterWithPixels ==
  ASSUME WithPixels, UNCHANGED vars
  PROVE  WithPixels'
<1>1. picture' = picture /\ rect' = rect /\ announced' = announced /\ todo' = todo /\ sent' = sent
  BY DEF vars
<1>2. TypeOK /\ Partition /\ Counted /\ FramesOK /\ SolidIsSolid /\ FitsTightBuffer
  BY DEF WithPixels
<1>3. TypeOK'
  BY <1>1, <1>2 DEF TypeOK
<1>4. Partition'
  <2>1. /\ rect' = Nothing => todo' = <<>> /\ sent' = <<>>
        /\ rect' # Nothing => Area(sent') \cup Area(todo') = Pixels(rect')
        /\ Apart(sent') /\ Apart(todo') /\ Area(sent') \cap Area(todo') = {}
    BY <1>1, <1>2 DEF Partition
  <2>2. Nothing' = Nothing
    BY DEF Nothing, Rect
  <2> HIDE DEF Nothing
  <2>3. QED BY <2>1, <2>2 DEF Partition, Area, Apart, Pixels
<1>5. Counted'
  BY <1>1, <1>2 DEF Counted, Totals, Known, Pending, CountCoRRE, CountLines, CountTight,
     MaxHeight, MaxLines, MAX_SIZE, TooLarge, Lesser
<1>6. FramesOK'
  BY <1>1, <1>2 DEF FramesOK, FrameOK, OneColour, Pixels, Lesser
<1>7. SolidIsSolid' /\ FitsTightBuffer'
  BY <1>1, <1>2 DEF SolidIsSolid, FitsTightBuffer, Pixels
<1>8. QED BY <1>3, <1>4, <1>5, <1>6, <1>7 DEF WithPixels

\* Every step keeps it.
LEMMA NextIInv == IInv /\ [Next]_vars => IInv'
<1> SUFFICES ASSUME IInv, [Next]_vars PROVE IInv'
  OBVIOUS
<1>1. CASE WithoutPixels
  <2>1. CASE Next
    BY <1>1, <2>1, EmptyStep DEF IInv
  <2>2. CASE UNCHANGED vars
    <3>1. rect' = rect /\ announced' = announced /\ todo' = todo /\ sent' = sent
      BY <2>2 DEF vars
    <3>2. WithoutPixels'
      BY <1>1, <3>1 DEF WithoutPixels, EmptyCoRRE, EmptyLines, EmptyTight
    <3>3. QED BY <3>2 DEF IInv
  <2>3. QED BY <2>1, <2>2
<1>2. CASE WithPixels
  <2>1. CASE Next
    BY <1>2, <2>1, NextWithPixels DEF IInv
  <2>2. CASE UNCHANGED vars
    BY <1>2, <2>2, StutterWithPixels DEF IInv
  <2>3. QED BY <2>1, <2>2
<1>3. QED BY <1>1, <1>2 DEF IInv

\* The inductive invariant holds in every behaviour of the splitting, whatever the
\* picture, the rectangle and the limits of the encodings.
THEOREM Invariant == Spec => []IInv
BY InitIInv, NextIInv, PTL DEF Spec

\* The rectangles that rfbSendRectEncodingCoRRE, Zlib and Tight send are the rectangle
\* of the update: when all the calls are done no pixel is left out, and at no time
\* has a pixel been sent twice or a pixel outside it been sent.
THEOREM EachPixelOnce == Spec => []SentExactlyOnce
<1>1. WithPixels => SentExactlyOnce
  <2> SUFFICES ASSUME WithPixels PROVE SentExactlyOnce
    OBVIOUS
  <2>1. Partition
    BY DEF WithPixels
  <2>2. ASSUME Done, NEW p \in Pixels(rect) PROVE \E i \in DOMAIN sent : p \in Pixels(sent[i])
    <3>1. Area(todo) = {} /\ p \in Area(sent) \cup Area(todo)
      BY <2>1, <2>2, AreaEmpty DEF Done, Partition
    <3>2. QED BY <3>1 DEF Area
  <2>3. ASSUME NEW i \in DOMAIN sent
        PROVE  /\ Pixels(sent[i]) \subseteq Pixels(rect) /\ Pixels(sent[i]) # {}
               /\ \A j \in 1..(i - 1) : Pixels(sent[i]) \cap Pixels(sent[j]) = {}
    <3>1. rect # Nothing
      <4>1. SUFFICES ASSUME rect = Nothing PROVE FALSE
        OBVIOUS
      <4>2. sent = <<>>
        BY <2>1, <4>1 DEF Partition
      <4>3. QED BY <2>3, <4>2
    <3>2. Pixels(sent[i]) \subseteq Area(sent)
      BY DEF Area
    <3>3. Pixels(sent[i]) \subseteq Pixels(rect)
      BY <2>1, <3>1, <3>2 DEF Partition
    <3>4. QED BY <2>1, <3>3 DEF Partition, Apart
  <2>4. QED BY <2>2, <2>3 DEF SentExactlyOnce
<1>2. WithoutPixels => SentExactlyOnce
  <2> SUFFICES ASSUME WithoutPixels PROVE SentExactlyOnce
    OBVIOUS
  <2>1. Pixels(rect) = {}
    BY NoPixels DEF WithoutPixels
  <2>2. \A i \in DOMAIN sent : sent[i] \in EmptyPieces
    BY DEF WithoutPixels, Unseen
  <2>3. \A i \in DOMAIN sent : Pixels(sent[i]) = {}
    BY <2>2, NoPixels
  <2>4. QED BY <2>1, <2>3 DEF SentExactlyOnce
<1>3. QED BY Invariant, <1>1, <1>2, PTL DEF IInv

\* The header of an update (the counts of rfbSendFramebufferUpdate) announces as many
\* rectangles as the encoding sends: it never sends more, and when it is done not
\* fewer, or a marker ends them.  The exceptions are rectangles without width or
\* height: for those that are Miscounted something is announced, and nothing is sent
\* when there is no line.
THEOREM AsManyAsAnnounced == Spec => []AnnouncedUnlessEmpty
<1>1. WithPixels => AnnouncedUnlessEmpty
  <2> SUFFICES ASSUME WithPixels PROVE AnnouncedUnlessEmpty
    OBVIOUS
  <2>1. ~Miscounted(rect)
    BY DEF WithPixels, TypeOK, Whole, Pieces, Pos, Miscounted, Nothing, Rect
  <2>2. ASSUME announced # LastRect
        PROVE  Len(sent) <= announced /\ (Done => Len(sent) = announced)
    <3>1. PICK g \in [1..(Len(todo) + 1) -> Nat] : Totals(todo, g) /\ announced = Len(sent) + g[1]
      BY <2>2 DEF WithPixels, Counted
    <3>2. Len(todo) \in Nat /\ Len(sent) \in Nat
      BY DEF WithPixels, TypeOK
    <3>3. g[1] \in Nat
      BY <3>2
    <3>4. Done => g[1] = 0
      <4>1. Done => Len(todo) + 1 = 1
        BY DEF Done
      <4>2. QED BY <4>1, <3>1 DEF Totals
    <3>5. QED BY <3>1, <3>2, <3>3, <3>4
  <2>3. QED BY <2>1, <2>2 DEF AnnouncedUnlessEmpty, AnnouncedExact
<1>2. WithoutPixels => AnnouncedUnlessEmpty
  <2> SUFFICES ASSUME WithoutPixels PROVE AnnouncedUnlessEmpty
    OBVIOUS
  <2>0. Len(sent) \in Nat /\ rect \in EmptyPieces
    BY DEF WithoutPixels, Unseen
  <2>1. CASE EmptyCoRRE
    <3>1. ~Miscounted(rect)
      BY <2>1 DEF EmptyCoRRE, Miscounted
    <3>2. \A f \in EmptyCalls : CountCoRRE(f.w, f.h) \in Nat
      BY CoRRECounts DEF EmptyCalls
    <3>3. Len(sent) <= announced
      BY <2>0, <2>1, <3>2 DEF EmptyCoRRE
    <3>4. Done => Len(sent) = announced
      BY <2>1 DEF EmptyCoRRE, Done
    <3>5. QED BY <3>1, <3>3, <3>4 DEF AnnouncedUnlessEmpty, AnnouncedExact
  <2>2. CASE EmptyLines
    <3>1. Miscounted(rect)
      BY <2>0, <2>2 DEF EmptyLines, Miscounted, EmptyPieces
    <3>2. QED BY <2>2, <3>1 DEF EmptyLines, AnnouncedUnlessEmpty
  <2>3. CASE EmptyTight /\ rect.w > TightRectWidth
    <3>1. rect.h = 0
      BY <2>0, <2>3, LimitsPositive DEF EmptyPieces, Pos
    <3>2. Miscounted(rect)
      BY <2>3, <3>1 DEF EmptyTight, Miscounted
    <3>3. QED BY <2>3, <3>2 DEF EmptyTight, AnnouncedUnlessEmpty
  <2>4. CASE EmptyTight /\ ~(rect.w > TightRectWidth)
    <3>1. ~Miscounted(rect)
      BY <2>4 DEF EmptyTight, Miscounted
    <3>2. announced = Len(sent) + Len(todo) /\ Len(todo) \in Nat
      BY <2>4 DEF EmptyTight
    <3>3. Done => Len(todo) = 0
      BY DEF Done
    <3>4. QED BY <2>0, <3>1, <3>2, <3>3 DEF AnnouncedUnlessEmpty, AnnouncedExact
  <2>5. QED BY <2>1, <2>2, <2>3, <2>4 DEF WithoutPixels
<1>3. QED BY Invariant, <1>1, <1>2, PTL DEF IInv

\* What SendRectEncodingTight sends as an area of one colour, found by
\* FindBestSolidArea and grown by ExtendSolidArea, is of one colour.
THEOREM SolidAreasAreSolid == Spec => []SolidIsSolid
<1>1. WithPixels => SolidIsSolid
  BY DEF WithPixels
<1>2. WithoutPixels => SolidIsSolid
  <2>1. WithoutPixels => \A i \in DOMAIN sent : sent[i] \in EmptyPieces
    BY DEF WithoutPixels, Unseen
  <2>2. \A r \in EmptyPieces : r.kind # "solid"
    BY DEF EmptyPieces, EmptyKinds
  <2>3. QED BY <2>1, <2>2 DEF SolidIsSolid
<1>3. QED BY Invariant, <1>1, <1>2, PTL DEF IInv

\* The buffers of maxRectSize pixels that SendRectSimple allocates hold every rectangle
\* that Tight encodes as it is: the ones of rfbSendRectEncodingTight, the upper parts
\* and rests of SendRectEncodingTight and the pieces SendRectSimple cuts itself.
THEOREM TightBufferSuffices == Spec => []FitsTightBuffer
<1>1. WithPixels => FitsTightBuffer
  BY DEF WithPixels
<1>2. WithoutPixels => FitsTightBuffer
  <2> SUFFICES ASSUME WithoutPixels, NEW i \in DOMAIN sent, sent[i].kind = "simple"
               PROVE  sent[i].w <= TightRectWidth /\ sent[i].w * sent[i].h <= TightRectSize
    BY DEF FitsTightBuffer
  <2>1. sent[i] \in EmptyPieces /\ sent[i].w <= TightRectWidth
    BY DEF WithoutPixels, Unseen
  <2>2. sent[i].w * sent[i].h = 0
    BY <2>1 DEF EmptyPieces
  <2>3. QED BY <2>1, <2>2, LimitsPositive
<1>3. QED BY Invariant, <1>1, <1>2, PTL DEF IInv
=============================================================================
