----------------------------- MODULE RfbRegion -----------------------------
(***************************************************************************)
(* The regions of libvncserver (rfbregion.c): a list of vertical spans,    *)
(* each with a list of horizontal spans.  Two regions are combined with    *)
(* each other, in any order and as often as one likes, next to the sets of *)
(* pixels they should stand for.                                           *)
(*                                                                         *)
(* The functions on lists call themselves for the lists within, so there   *)
(* is a stack of calls.  A step is one iteration of the loop of the call   *)
(* at the top, up to the call it makes; or the return to the loop below,   *)
(* with the rest of its iteration.                                         *)
(***************************************************************************)
EXTENDS Integers, Sequences

CONSTANTS Columns, Rows,  \* of the screen
          MinSide,        \* 0 if rectangles of width or height 0 are created
          NULL            \* the subspan of a horizontal span

VARIABLES region,   \* two regions: sequences of vertical spans
          pixels,   \* what they should contain
          call,     \* the operation under way on region call.i, or NULL
          calls     \* its loops, the innermost first

regionVars == <<region, pixels, call, calls>>

Span(start, end, subspan) == [start |-> start, end |-> end, subspan |-> subspan]

ASSUME RegionAssumption ==
  /\ Columns \in Nat \ {0} /\ Rows \in Nat \ {0} /\ MinSide \in {0, 1}
  /\ NULL \notin Seq([start : Nat, end : Nat, subspan : {NULL}])
  /\ NULL \notin [op : {"or", "and", "subtract"}, i : 1..2]

-----------------------------------------------------------------------------
(***************************************************************************)
(* Span lists                                                              *)
(***************************************************************************)
Front1(list) == SubSeq(list, 1, Len(list) - 1)
Last1(list) == list[Len(list)]

\* The spans a to b of a list touch each other and have these subspans.
Touching(list, a, b, subspan) ==
  /\ \A k \in a..b : list[k].subspan = subspan
  /\ \A k \in a..(b - 1) : list[k].end = list[k + 1].start

\* sraSpanMergePrevious: d swallows the spans before it that touch it and have
\* the same subspans.  The result ends with d.
MergePrevious(done, d) ==
  LET list == Append(done, d)
      same == {k \in 1..Len(list) : Touching(list, k, Len(list), d.subspan)}
      first == CHOOSE k \in same : \A m \in same : k <= m
  IN Append(SubSeq(done, 1, first - 1), [d EXCEPT !.start = list[first].start])

\* sraSpanMergeNext, likewise; the result begins with d.
MergeNext(d, rest) ==
  LET list == <<d>> \o rest
      same == {k \in 1..Len(list) : Touching(list, 1, k, d.subspan)}
      last == CHOOSE k \in same : \A m \in same : m <= k
  IN <<[d EXCEPT !.end = list[last].end]>> \o SubSeq(list, last + 1, Len(list))

\* What is split off d after end, and before start.
After(d, end, rest) ==
  IF end < d.end THEN <<Span(end, d.end, d.subspan)>> \o rest ELSE rest
Before(done, d, start) ==
  IF start > d.start THEN Append(done, Span(d.start, start, d.subspan)) ELSE done
Sooner(a, b) == IF a < b THEN a ELSE b
Later(a, b) == IF a > b THEN a ELSE b

\* d is cut to the part it shares with s.
Overlap(d, s) == Span(Later(d.start, s.start), Sooner(d.end, s.end), d.subspan)

-----------------------------------------------------------------------------
(***************************************************************************)
(* The loops: the spans of the destination before d_curr ("done") and from *)
(* it on ("rest"), those of the source from s_curr on ("src").             *)
(***************************************************************************)
Frame(done, rest, src) == [done |-> done, rest |-> rest, src |-> src]

\* d_curr, s_curr.
DCurr(f) == f.rest[1]
SCurr(f) == f.src[1]
Overlapping(f) == DCurr(f).start < SCurr(f).end /\ SCurr(f).start < DCurr(f).end

\* sraSpanListOr: d is split where s begins and ends,
OrSplit(f) ==
  LET p == IF SCurr(f).start < DCurr(f).start
           THEN MergePrevious(Append(f.done, Span(SCurr(f).start, DCurr(f).start, SCurr(f).subspan)),
                              DCurr(f))
           ELSE Append(f.done, DCurr(f))
  IN Frame(Before(Front1(p), Last1(p), SCurr(f).start),
           <<Overlap(Last1(p), SCurr(f))>> \o After(DCurr(f), SCurr(f).end, Tail(f.rest)), f.src)

\* and has got its new subspans.
OrJoin(f, sub) ==
  LET p == MergePrevious(f.done, [DCurr(f) EXCEPT !.subspan = sub])
      n == MergeNext(Last1(p), Tail(f.rest))
  IN IF SCurr(f).end > n[1].end
     THEN Frame(Append(Front1(p), n[1]), Tail(n),
                <<[SCurr(f) EXCEPT !.start = n[1].end]>> \o Tail(f.src))
     ELSE Frame(Front1(p), n, Tail(f.src))

\* sraSpanListAnd
AndSplit(f) ==
  Frame(f.done, <<Overlap(DCurr(f), SCurr(f))>> \o After(DCurr(f), SCurr(f).end, Tail(f.rest)), f.src)
\* Mutant: a row without spans stays in the list.
AndJoinKeepsEmpty(f, sub) ==
  Frame(MergePrevious(f.done, [DCurr(f) EXCEPT !.subspan = sub]), Tail(f.rest),
        IF SCurr(f).end <= DCurr(f).end THEN Tail(f.src) ELSE f.src)
AndJoin(f, sub) ==
  IF sub = <<>> THEN Frame(f.done, Tail(f.rest), f.src)
  ELSE Frame(MergePrevious(f.done, [DCurr(f) EXCEPT !.subspan = sub]), Tail(f.rest),
             IF SCurr(f).end <= DCurr(f).end THEN Tail(f.src) ELSE f.src)

\* sraSpanListSubtract
SubtractSplit(f) ==
  Frame(Before(f.done, DCurr(f), SCurr(f).start),
        <<Overlap(DCurr(f), SCurr(f))>> \o After(DCurr(f), SCurr(f).end, Tail(f.rest)), f.src)
SubtractJoin(f, sub) ==
  LET p == MergePrevious(f.done, [DCurr(f) EXCEPT !.subspan = sub])
      n == MergeNext(Last1(p), Tail(f.rest))
  IN IF sub = <<>> THEN Frame(f.done, Tail(f.rest), f.src)
     ELSE IF SCurr(f).end > n[1].end THEN Frame(Append(Front1(p), n[1]), Tail(n), f.src)
     ELSE Frame(Front1(p), n, Tail(f.src))

Split(f) == CASE call.op = "or" -> OrSplit(f)
              [] call.op = "and" -> AndSplit(f)
              [] OTHER -> SubtractSplit(f)
Join(f, sub) == CASE call.op = "or" -> OrJoin(f, sub)
                  [] call.op = "and" -> AndJoin(f, sub)
                  [] OTHER -> SubtractJoin(f, sub)

-----------------------------------------------------------------------------
(***************************************************************************)
(* Steps of the loop at the top of the stack                               *)
(***************************************************************************)
Loop(ops) == calls # <<>> /\ call.op \in ops /\ calls[1].src # <<>>
Becomes(f) == calls' = <<f>> \o Tail(calls) /\ UNCHANGED <<region, pixels, call>>

\* Or: s is added at the end, or before d.
OrAtEnd ==
  /\ Loop({"or"}) /\ calls[1].rest = <<>>
  /\ LET f == calls[1] IN Becomes(Frame(Append(f.done, SCurr(f)), <<>>, Tail(f.src)))
OrBefore ==
  /\ Loop({"or"}) /\ calls[1].rest # <<>>
  /\ LET f == calls[1]
         p == MergePrevious(Append(f.done, SCurr(f)), DCurr(f))
     IN /\ DCurr(f).start >= SCurr(f).end
        /\ Becomes(Frame(Front1(p), <<Last1(p)>> \o Tail(f.rest), Tail(f.src)))

\* And, Subtract: s is behind.
SkipSource ==
  /\ Loop({"and", "subtract"}) /\ calls[1].rest # <<>>
  /\ LET f == calls[1]
     IN /\ DCurr(f).start >= SCurr(f).end
        /\ Becomes(Frame(f.done, f.rest, Tail(f.src)))

\* d is behind: And removes it.
SkipDestination ==
  /\ Loop({"or", "and", "subtract"}) /\ calls[1].rest # <<>>
  /\ LET f == calls[1]
     IN /\ DCurr(f).start < SCurr(f).end /\ DCurr(f).end <= SCurr(f).start
        /\ Becomes(Frame(IF call.op = "and" THEN f.done ELSE Append(f.done, DCurr(f)),
                         Tail(f.rest), f.src))

\* Horizontal spans have no subspans: the call returns at once.
Overlaps ==
  /\ Loop({"or", "and", "subtract"}) /\ calls[1].rest # <<>> /\ Overlapping(calls[1])
  /\ LET f == Split(calls[1])
     IN IF DCurr(f).subspan = NULL
        THEN Becomes(Join(f, IF call.op = "subtract" THEN <<>> ELSE NULL))
        ELSE /\ calls' = <<Frame(<<>>, DCurr(f).subspan, SCurr(f).subspan), f>>
             /\ UNCHANGED <<region, pixels, call>>

Ended(f) == f.src = <<>> \/ (call.op # "or" /\ f.rest = <<>>)
\* And removes what is left of the destination.
\* Mutant: it is kept, as in Or and Subtract.
ResultKeepsRest(f) == f.done \o f.rest
Result(f) == IF call.op = "and" THEN f.done ELSE f.done \o f.rest

Return ==
  /\ Len(calls) = 2 /\ Ended(calls[1])
  /\ calls' = <<Join(calls[2], Result(calls[1]))>>
  /\ UNCHANGED <<region, pixels, call>>

\* What the region should contain after the operation.
Combined(a, b) == CASE call.op = "or" -> a \cup b
                    [] call.op = "and" -> a \cap b
                    [] OTHER -> a \ b

Finish ==
  /\ Len(calls) = 1 /\ Ended(calls[1])
  /\ region' = [region EXCEPT ![call.i] = Result(calls[1])]
  /\ pixels' = [pixels EXCEPT ![call.i] = Combined(@, pixels[3 - call.i])]
  /\ call' = NULL /\ calls' = <<>>

-----------------------------------------------------------------------------
(***************************************************************************)
(* Regions                                                                 *)
(***************************************************************************)
sraRgnCreateRect(x1, y1, x2, y2) == <<Span(y1, y2, <<Span(x1, x2, NULL)>>)>>

\* sraRgnIteratorNext: the rectangles of a region in the order they are sent.
RowRects(row) ==
  [j \in 1..Len(row.subspan) |->
     [x1 |-> row.subspan[j].start, x2 |-> row.subspan[j].end, y1 |-> row.start, y2 |-> row.end]]
Rects(r) ==
  LET sent[k \in 0..Len(r)] == IF k = 0 THEN <<>> ELSE sent[k - 1] \o RowRects(r[k])
  IN sent[Len(r)]
RectSet(r) == {Rects(r)[k] : k \in 1..Len(Rects(r))}

\* sraRgnBBox of a region that is not empty.
sraRgnBBox(r) ==
  LET least(N) == CHOOSE a \in N : \A b \in N : a <= b
      most(N) == CHOOSE a \in N : \A b \in N : a >= b
  IN sraRgnCreateRect(least({q.x1 : q \in RectSet(r)}), least({q.y1 : q \in RectSet(r)}),
                      most({q.x2 : q \in RectSet(r)}), most({q.y2 : q \in RectSet(r)}))

\* The pixels of a rectangle.
Area(q) == {p \in (0..(Columns - 1)) \X (0..(Rows - 1)) :
              q.x1 <= p[1] /\ p[1] < q.x2 /\ q.y1 <= p[2] /\ p[2] < q.y2}
PixelsOf(r) == UNION {Area(q) : q \in RectSet(r)}

RegionInit ==
  /\ region = [i \in 1..2 |-> <<>>] /\ pixels = [i \in 1..2 |-> {}]
  /\ call = NULL /\ calls = <<>>

CreateRect(i) ==
  /\ call = NULL
  /\ \E x1, x2 \in 0..Columns, y1, y2 \in 0..Rows :
       /\ x1 + MinSide <= x2 /\ y1 + MinSide <= y2
       /\ region' = [region EXCEPT ![i] = sraRgnCreateRect(x1, y1, x2, y2)]
       /\ pixels' = [pixels EXCEPT ![i] = Area([x1 |-> x1, x2 |-> x2, y1 |-> y1, y2 |-> y2])]
  /\ UNCHANGED <<call, calls>>

\* sraRgnOr, sraRgnAnd, sraRgnSubtract with region i as the destination.
Combine(op, i) ==
  /\ call = NULL
  /\ call' = [op |-> op, i |-> i]
  /\ calls' = <<Frame(<<>>, region[i], region[3 - i])>>
  /\ UNCHANGED <<region, pixels>>

sraRgnOr(i) == Combine("or", i)
sraRgnAnd(i) == Combine("and", i)
sraRgnSubtract(i) == Combine("subtract", i)

RegionNext ==
  \/ \E i \in 1..2 : CreateRect(i) \/ sraRgnOr(i) \/ sraRgnAnd(i) \/ sraRgnSubtract(i)
  \/ OrAtEnd \/ OrBefore \/ SkipSource \/ SkipDestination \/ Overlaps
  \/ Return \/ Finish

RegionSpec == RegionInit /\ [][RegionNext]_regionVars

-----------------------------------------------------------------------------
(***************************************************************************)
(* Properties                                                              *)
(***************************************************************************)

\* A region contains exactly the pixels of its set, however it was computed.
SetSemantics == \A i \in 1..2 : PixelsOf(region[i]) = pixels[i]

Ordered(list) == \A j, k \in 1..Len(list) : j < k => list[j].end <= list[k].start

\* The spans of a list are in order and do not overlap, and no row is empty;
\* so no pixel is sent twice and the iterator, which enters every row, finds a
\* rectangle in each.
SpansOrdered ==
  \A i \in 1..2 :
    /\ Ordered(region[i])
    /\ \A k \in 1..Len(region[i]) :
         region[i][k].subspan # <<>> /\ Ordered(region[i][k].subspan)

\* The bounding box, which replaces a region of too many rectangles, leaves
\* out none of its pixels.
BBoxCovers ==
  \A i \in 1..2 : region[i] # <<>> => pixels[i] \subseteq PixelsOf(sraRgnBBox(region[i]))

\* Regions are intersected with what a client asked for and sent: every
\* rectangle of an intersection is one that sraSpanCheck, "Check the span is
\* valid!", would let pass.
UpdateRectsValid ==
  Len(calls) = 1 /\ Ended(calls[1]) /\ call.op = "and" =>
    \A q \in RectSet(calls[1].done) : q.x1 # q.x2 /\ q.y1 # q.y2
=============================================================================
