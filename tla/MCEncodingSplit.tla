-------------------------- MODULE MCEncodingSplit --------------------------
(***************************************************************************)
(* An instance of EncodingSplit for TLC: the limits are in the .cfg files. *)
(* Its own is the loop of FindBestSolidArea, which EncodingSplit states by *)
(* what it computes.                                                       *)
(***************************************************************************)
EXTENDS EncodingSplit

\* How far row dy of tiles goes on in one colour,
RECURSIVE SolidUpTo(_, _, _, _, _)
SolidUpTo(dx, dy, end, dh, colour) ==
  LET dw == Lesser(Tile, end - dx)
  IN IF dx < end /\ SolidOf(dx, dy, dw, dh, colour)
     THEN SolidUpTo(dx + dw, dy, end, dh, colour) ELSE dx

\* and the largest area that rows from dy on can make with those above them.
RECURSIVE BestFrom(_, _, _, _, _, _, _)
BestFrom(x, y, w, h, dy, colour, best) ==
  LET dh == Lesser(Tile, y + h - dy)
      w1 == SolidUpTo(x, dy, x + w, dh, colour) - x
      h1 == dy + dh - y
  IN IF dy >= y + h \/ w1 = 0 THEN best
     ELSE BestFrom(x, y, w1, h, dy + Tile, colour,
                   IF w1 * h1 > best.w * best.h THEN [w |-> w1, h |-> h1] ELSE best)

\* The area that FindBestSolidArea finds is the one its loop finds, row by row.
BestAsTheLoop == rect = Nothing =>
  \A r \in {q \in UpdateRects : q.w > 0 /\ q.h > 0}, c \in Colours :
    LET best == FindBestSolidArea(r.x, r.y, r.w, r.h, c)
        loop == BestFrom(r.x, r.y, r.w, r.h, r.y, c, [w |-> 0, h |-> 0])
    IN best.w * best.h = loop.w * loop.h /\ (loop.w > 0 => best.w = loop.w /\ best.h = loop.h)
=============================================================================
