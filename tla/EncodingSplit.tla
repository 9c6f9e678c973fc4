--------------------------- MODULE EncodingSplit ---------------------------
(***************************************************************************)
(* How an encoding cuts a rectangle of an update into the rectangles that  *)
(* are sent, and how many of them the header announces before: CoRRE, Zlib *)
(* and Ultra, and Tight with its search for areas of one colour.           *)
(*                                                                         *)
(* A rectangle of a picture is encoded; picture and rectangle are chosen   *)
(* at will, the limits of the code are constants.  The functions call      *)
(* themselves and each other: the calls still to be made are a stack, and  *)
(* a step is one call, or one iteration of a loop of the call at the top.  *)
(***************************************************************************)
EXTENDS Integers, Sequences

CONSTANTS Width, Height,   \* of the picture
          Colours,
          CorreMax,        \* cl->correMaxWidth, cl->correMaxHeight
          MaxRectSize,     \* ZLIB_MAX_RECT_SIZE, ULTRA_MAX_RECT_SIZE
          TightRectSize, TightRectWidth,  \* of tightConf, the same at every level
          MinSplit,        \* MIN_SPLIT_RECT_SIZE
          MinSolid,        \* MIN_SOLID_SUBRECT_SIZE
          Tile,            \* MAX_SPLIT_TILE_SIZE
          MaxEmpty         \* bound: rectangles without lines sent for one without width

ASSUME LimitsAssumption ==
  /\ {Width, Height, CorreMax, MaxRectSize, MinSplit, MinSolid, Tile} \subseteq Nat \ {0}
  /\ TightRectWidth \in Nat \ {0} /\ TightRectSize \in Nat
  /\ TightRectSize >= Tile * TightRectWidth
  /\ CorreMax >= 2 /\ Tile >= 2 /\ MaxEmpty \in Nat

VARIABLES picture,    \* the colour of every pixel
          rect,       \* the rectangle of the update
          announced,  \* rectangles announced, or LastRect
          todo,       \* the calls still to be made, the next one first
          sent        \* rectangles sent

vars == <<picture, rect, announced, todo, sent>>

LastRect == 65535  \* 0xFFFF: a marker ends the update
Lesser(a, b) == IF a < b THEN a ELSE b
Rect(x, y, w, h, kind) == [x |-> x, y |-> y, w |-> w, h |-> h, kind |-> kind]
Pixels(r) == (r.x..(r.x + r.w - 1)) \X (r.y..(r.y + r.h - 1))

\* Integer division of C, rounded towards zero.  Division by zero is undefined; the
\* app is built for arm64 only, whose division instruction then returns 0.
Quot(a, b) == IF b = 0 THEN 0 ELSE IF a < 0 THEN -((-a) \div b) ELSE a \div b

\* A call, or what is left of the loop of one; dy is the loop variable of
\* SendRectEncodingTight.
Call(x, y, w, h, kind) == [x |-> x, y |-> y, w |-> w, h |-> h, kind |-> kind, dy |-> y]

\* The call for a part of a rectangle, if there is such a part.
CallFor(x, y, w, h, kind) == IF w = 0 \/ h = 0 THEN <<>> ELSE <<Call(x, y, w, h, kind)>>

-----------------------------------------------------------------------------
(***************************************************************************)
(* Steps of the call at the top of the stack                               *)
(***************************************************************************)
Next1(kind) == todo # <<>> /\ todo[1].kind = kind

\* It makes the calls, then the ones below it go on.
Calls(calls) ==
  /\ todo' = calls \o Tail(todo)
  /\ UNCHANGED <<picture, rect, announced, sent>>

\* It sends r; what is left of its loop goes on, then the calls below it.
Sends(r, rest) ==
  /\ sent' = Append(sent, r)
  /\ todo' = rest \o Tail(todo)
  /\ UNCHANGED <<picture, rect, announced>>

\* CoRRE: the upper or left part, then the rest, until it is small enough.
SendCoRRE ==
  /\ Next1("corre")
  /\ LET f == todo[1]
     IN \/ /\ f.h > CorreMax
           /\ Calls(<<Call(f.x, f.y, f.w, CorreMax, "corre"),
                      Call(f.x, f.y + CorreMax, f.w, f.h - CorreMax, "corre")>>)
        \/ /\ f.h <= CorreMax /\ f.w > CorreMax
           /\ Calls(<<Call(f.x, f.y, CorreMax, f.h, "corre"),
                      Call(f.x + CorreMax, f.y, f.w - CorreMax, f.h, "corre")>>)
        \/ /\ f.h <= CorreMax /\ f.w <= CorreMax
           /\ Sends(Rect(f.x, f.y, f.w, f.h, "corre"), <<>>)

\* Rounded down.
CountCoRREDown(w, h) == Quot(w, CorreMax) * Quot(h, CorreMax)
CountCoRRE(w, h) == (Quot(w - 1, CorreMax) + 1) * (Quot(h - 1, CorreMax) + 1)

\* Zlib, Ultra: at least two lines of any width.
MAX_SIZE(w) == IF w * 2 > MaxRectSize THEN w * 2 ELSE MaxRectSize
MaxLines(w) == Quot(MAX_SIZE(w), w)

\* The loop while lines remain: of a rectangle without width it sends no line at a
\* time, for ever.
SendLines ==
  /\ Next1("lines")
  /\ LET f == todo[1]
         lines == Lesser(MaxLines(f.w), f.h)
     IN \/ f.h = 0 /\ Calls(<<>>)
        \/ /\ f.h > 0
           /\ lines = 0 => Len(sent) < MaxEmpty
           /\ Sends(Rect(f.x, f.y, f.w, lines, "lines"),
                    IF lines = f.h THEN <<>>
                    ELSE <<Call(f.x, f.y + lines, f.w, f.h - lines, "lines")>>)

CountLines(w, h) == Quot(h - 1, MaxLines(w)) + 1

-----------------------------------------------------------------------------
(***************************************************************************)
(* Tight                                                                   *)
(***************************************************************************)

\* SendRectSimple: as it is, or in bands that are cut into columns.
TooLarge(w, h) == w > TightRectWidth \/ w * h > TightRectSize
MaxHeight(w) == TightRectSize \div Lesser(w, TightRectWidth)

SendRectSimple ==
  /\ Next1("simple")
  /\ LET f == todo[1]
     IN \/ TooLarge(f.w, f.h) /\ Calls(CallFor(f.x, f.y, f.w, f.h, "bands"))
        \/ ~TooLarge(f.w, f.h) /\ Sends(Rect(f.x, f.y, f.w, f.h, "simple"), <<>>)

\* An iteration over dy, and one over dx.
SendBands ==
  /\ Next1("bands")
  /\ LET f == todo[1]
         rh == Lesser(MaxHeight(f.w), f.h)
     IN Calls(<<Call(f.x, f.y, f.w, rh, "columns")>>
              \o CallFor(f.x, f.y + rh, f.w, f.h - rh, "bands"))

SendColumns ==
  /\ Next1("columns")
  /\ LET f == todo[1]
         rw == Lesser(TightRectWidth, f.w)
     IN Sends(Rect(f.x, f.y, rw, f.h, "simple"),
              CallFor(f.x + rw, f.y, f.w - rw, f.h, "columns"))

\* rfbNumCodedRectsTight, where 0 stands for LastRect.
CountTight(w, h, lastRect) ==
  IF lastRect /\ w * h >= MinSplit THEN LastRect
  ELSE IF TooLarge(w, h)
  THEN (Quot(w - 1, TightRectWidth) + 1) * (Quot(h - 1, MaxHeight(w)) + 1)
  ELSE 1

\* CheckSolidTile with needSameColor.
SolidOfFirstRow(x, y, w, h, colour) ==
  \A p \in Pixels(Rect(x, y, w, h, "tile")) : p[2] = y => picture[p] = colour
SolidOf(x, y, w, h, colour) == \A p \in Pixels(Rect(x, y, w, h, "tile")) : picture[p] = colour

Furthest(S) == CHOOSE n \in S : \A m \in S : m <= n
Nearest(S) == CHOOSE n \in S : \A m \in S : n <= m

\* FindBestSolidArea: as many rows of tiles as make the largest area, each as wide
\* as the tiles of all of them go on in the colour; the fewest of those that tie.
Tiles(n) == {m \in 0..n : m % Tile = 0 \/ m = n}
SolidWidth(x, y, w, h, colour) == Furthest({n \in Tiles(w) : SolidOf(x, y, n, h, colour)})
FindBestSolidArea(x, y, w, h, colour) ==
  LET area(n) == SolidWidth(x, y, w, n, colour) * n
      largest == Furthest({area(n) : n \in Tiles(h)})
      best == Nearest({n \in Tiles(h) : area(n) = largest})
  IN Rect(x, y, SolidWidth(x, y, w, best, colour), best, "solid")

\* ExtendSolidArea: up, down, to the left, to the right, as far as the colour and
\* the rectangle go.
ExtendSolidArea(x, y, w, h, b, colour) ==
  LET up == Furthest({n \in 0..(b.y - y) : SolidOf(b.x, b.y - n, b.w, n, colour)})
      y1 == b.y - up
      down == Furthest({n \in 0..(y + h - b.y - b.h) : SolidOf(b.x, b.y + b.h, b.w, n, colour)})
      h1 == b.h + up + down
      left == Furthest({n \in 0..(b.x - x) : SolidOf(b.x - n, y1, n, h1, colour)})
      right == Furthest({n \in 0..(x + w - b.x - b.w) : SolidOf(b.x + b.w, y1, n, h1, colour)})
  IN Rect(b.x - left, y1, b.w + left + right, h1, "solid")

\* SendRectEncodingTight for a client with LastRect: small rectangles as they are.
SendRectEncodingTight ==
  /\ Next1("tight")
  /\ LET f == todo[1]
     IN Calls(<<Call(f.x, f.y, f.w, f.h, IF f.w * f.h < MinSplit THEN "simple" ELSE "rows")>>)

\* The upper part of the rectangle is forgotten.
SentAboveNever(f) == <<>>

\* "If a rectangle becomes too large, send its upper part now."
SentAbove(f) == <<Call(f.x, f.y, f.w, MaxHeight(f.w), "simple")>>

TooHigh(f) == f.dy - f.y >= MaxHeight(f.w)

SendUpperPart ==
  /\ Next1("rows")
  /\ LET f == todo[1]
     IN /\ f.dy < f.y + f.h /\ TooHigh(f)
        /\ Calls(SentAbove(f) \o <<[f EXCEPT !.y = f.y + MaxHeight(f.w),
                                             !.h = f.h - MaxHeight(f.w)]>>)

\* The tiles of row dy that begin an area of one colour that is large enough.
BestAt(f, dx) ==
  FindBestSolidArea(dx, f.dy, f.w - (dx - f.x), f.h - (f.dy - f.y), picture[<<dx, f.dy>>])
Solid(f) ==
  {dx \in f.x..(f.x + f.w - 1) :
     /\ (dx - f.x) % Tile = 0
     /\ SolidOf(dx, f.dy, Lesser(Tile, f.x + f.w - dx), Lesser(Tile, f.y + f.h - f.dy),
                picture[<<dx, f.dy>>])
     /\ \/ BestAt(f, dx).w * BestAt(f, dx).h = f.w * f.h
        \/ BestAt(f, dx).w * BestAt(f, dx).h >= MinSolid}

\* A row of tiles without one; the first of a row with its extended area, and
\* around it what is left of the rectangle; no row is left.
SendRow ==
  /\ Next1("rows")
  /\ LET f == todo[1]
         dx == Nearest(Solid(f))
         b == ExtendSolidArea(f.x, f.y, f.w, f.h, BestAt(f, dx), picture[<<dx, f.dy>>])
         beside == CallFor(f.x, b.y, b.x - f.x, b.h, "tight")
                   \o <<Call(b.x, b.y, b.w, b.h, "solid")>>
                   \o CallFor(b.x + b.w, b.y, f.w - (b.x - f.x) - b.w, b.h, "tight")
     IN \/ /\ f.dy < f.y + f.h /\ ~TooHigh(f) /\ Solid(f) = {}
           /\ Calls(<<[f EXCEPT !.dy = f.dy + Tile]>>)
        \/ /\ f.dy < f.y + f.h /\ ~TooHigh(f) /\ Solid(f) # {}
           /\ Calls(CallFor(f.x, f.y, f.w, b.y - f.y, "simple")
                    \o beside
                    \o CallFor(f.x, b.y + b.h, f.w, f.h - (b.y - f.y) - b.h, "tight"))
        \/ /\ f.dy >= f.y + f.h
           /\ Calls(<<Call(f.x, f.y, f.w, f.h, "simple")>>)

SendSolidRect ==
  /\ Next1("solid")
  /\ LET f == todo[1] IN Sends(Rect(f.x, f.y, f.w, f.h, "solid"), <<>>)

-----------------------------------------------------------------------------
Nothing == Rect(0, 0, 0, 0, "none")

Init ==
  /\ picture \in [(0..(Width - 1)) \X (0..(Height - 1)) -> Colours]
  /\ rect = Nothing /\ announced = 0 /\ todo = <<>> /\ sent = <<>>

\* The rectangles an update can have.  A request without width or height passes
\* rectSwapIfLEAndClip; intersected with what has changed it leaves such a rectangle,
\* if it lies strictly within a changed area.
UpdateRects ==
  {r \in {Rect(x, y, w, h, "update") : x \in 0..(Width - 1), y \in 0..(Height - 1),
                                       w \in 0..Width, h \in 0..Height} :
     /\ r.x + r.w <= Width /\ r.y + r.h <= Height
     /\ (r.w = 0 => r.x > 0) /\ (r.h = 0 => r.y > 0)}

\* The header of the update announces n rectangles, then the encoding is called.
Encode(r, n, kind) ==
  /\ rect = Nothing
  /\ rect' = [r EXCEPT !.kind = kind]
  /\ announced' = n /\ todo' = <<Call(r.x, r.y, r.w, r.h, kind)>>
  /\ UNCHANGED <<picture, sent>>

rfbSendRectEncodingCoRRE ==
  \E r \in UpdateRects : Encode(r, CountCoRRE(r.w, r.h), "corre")
rfbSendRectEncodingZlib ==
  \E r \in UpdateRects : Encode(r, CountLines(r.w, r.h), "lines")

\* For a client without LastRect, and with it.
rfbSendRectEncodingTight ==
  \E r \in UpdateRects :
    \/ Encode(r, CountTight(r.w, r.h, FALSE), "simple")
    \/ Encode(r, CountTight(r.w, r.h, TRUE), "tight")

Next ==
  \/ rfbSendRectEncodingCoRRE \/ rfbSendRectEncodingZlib \/ rfbSendRectEncodingTight
  \/ SendCoRRE \/ SendLines \/ SendRectSimple \/ SendBands \/ SendColumns
  \/ SendRectEncodingTight \/ SendUpperPart \/ SendRow \/ SendSolidRect

Spec == Init /\ [][Next]_vars

-----------------------------------------------------------------------------
(***************************************************************************)
(* Properties                                                              *)
(***************************************************************************)
Done == rect # Nothing /\ todo = <<>>

\* The rectangles sent are the rectangle of the update: no pixel is left out, no
\* pixel is sent twice and none outside it is touched; and nothing is sent in vain:
\* rectangles without pixels only for one without pixels.
SentExactlyOnce ==
  /\ Done => \A p \in Pixels(rect) : \E i \in DOMAIN sent : p \in Pixels(sent[i])
  /\ \A i \in DOMAIN sent :
       /\ Pixels(sent[i]) \subseteq Pixels(rect)
       /\ Pixels(rect) # {} => Pixels(sent[i]) # {}
       /\ \A j \in 1..(i - 1) : Pixels(sent[i]) \cap Pixels(sent[j]) = {}

\* "followed by nRects rectangles": as many as the header announces, never more on
\* the way, or a marker ends them.
AnnouncedExact ==
  announced # LastRect => Len(sent) <= announced /\ (Done => Len(sent) = announced)

\* The rectangles whose count and whose loop do not agree: without lines or without
\* width for Zlib and Ultra, wide ones without lines for Tight.
Miscounted(r) ==
  \/ r.kind = "lines" /\ (r.w = 0 \/ r.h = 0)
  \/ r.kind \in {"simple", "tight"} /\ r.h = 0 /\ r.w > TightRectWidth

\* Every other rectangle, with pixels or without, is announced exactly; the miscounted
\* ones are announced all the same, and without lines they are not sent.
AnnouncedUnlessEmpty ==
  IF Miscounted(rect) THEN announced > 0 /\ (rect.h = 0 => sent = <<>>) ELSE AnnouncedExact

\* What is sent as an area of one colour is of one colour.
SolidIsSolid ==
  \A i \in DOMAIN sent : sent[i].kind = "solid" =>
    \E c \in Colours : \A p \in Pixels(sent[i]) : picture[p] = c

\* A rectangle that Tight encodes as it is fits the buffer of maxRectSize pixels that
\* SendRectSimple allocates, whichever of its callers the rectangle comes from.
FitsTightBuffer ==
  \A i \in DOMAIN sent : sent[i].kind = "simple" =>
    sent[i].w <= TightRectWidth /\ sent[i].w * sent[i].h <= TightRectSize
=============================================================================
