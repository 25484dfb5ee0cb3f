------------------------------ MODULE RectSplit ------------------------------
(***************************************************************************)
(* The rectangles of a framebuffer update: rfbSendFramebufferUpdate tells  *)
(* the client how many will come before the encoders split those of the    *)
(* region, CoRRE in squares, Ultra and Zlib in strips and Tight around the *)
(* areas of one colour that it looks for.  Their number is then not known, *)
(* and the client is told to wait for a LastRect marker, if it knows one.  *)
(*                                                                         *)
(* An image is noise, every pixel of which has a colour of its own, with   *)
(* rectangles of one colour over it.  The limits of the code are constants *)
(* here, to be scaled down with the screen.                                *)
(***************************************************************************)
EXTENDS Integers, Sequences, FiniteSets, SequencesExt

CONSTANTS
    ScreenWidth, ScreenHeight,
    Updates,            \* the updates: an image, the rectangles of a region, what the client set
    CorreMax,           \* correMaxWidth and correMaxHeight
    MaxStripSize,       \* ULTRA_MAX_RECT_SIZE, ZLIB_MAX_RECT_SIZE
    MaxSplitTileSize, MinSplitRectSize, MinSolidSubrectSize,
    MaxRectSize, MaxRectWidth       \* tightConf

(* The rectangles of a region: none is empty.                              *)
Rectangle == [x : Nat, y : Nat, w : Nat \ {0}, h : Nat \ {0}]

ASSUME SplitAssumption ==
    /\ {ScreenWidth, ScreenHeight, CorreMax, MaxStripSize, MaxSplitTileSize, MinSplitRectSize,
        MaxRectSize, MaxRectWidth, MinSolidSubrectSize} \subseteq Nat \ {0}
    /\ MaxSplitTileSize * MaxRectWidth <= MaxRectSize
    /\ \A u \in Updates : /\ u.region \in Seq(Rectangle)
                          /\ u.encoding \in {"raw", "corre", "strips", "tight"}
                          /\ u.lastRect \in BOOLEAN

Many == -1              \* 0xFFFF rectangles are announced

VARIABLES
    phase,
    image, updateRegion,
    preferredEncoding, enableLastRectEncoding,
    nRects,             \* the number in the header of the update
    todo,               \* the calls of the encoders under way, the next one first
    sent                \* the rectangles sent

splitVars == <<phase, image, updateRegion, preferredEncoding, enableLastRectEncoding, nRects, todo,
               sent>>

Rect(x, y, w, h) == [x |-> x, y |-> y, w |-> w, h |-> h]
Task(op, r) == [op |-> op, r |-> r, dy |-> r.y]
Empty(r) == r.w = 0 \/ r.h = 0
Area(r) == r.w * r.h
\* Mutant of CeilDiv: one too many when it divides.
MutantCeilDiv(n, d) == n \div d + 1

CeilDiv(n, d) == (n - 1) \div d + 1
Least(a, b) == IF a < b THEN a ELSE b

(*--------------------------------- The image ------------------------------*)

In(x, y, r) == x \in r.x .. r.x + r.w - 1 /\ y \in r.y .. r.y + r.h - 1

Colour(x, y) ==
    LET over == {i \in DOMAIN image : In(x, y, image[i].r)} IN
    IF over = {} THEN <<x, y>> ELSE <<image[Max(over)].colour>>

Solid(r, colour) ==
    \A x \in r.x .. r.x + r.w - 1, y \in r.y .. r.y + r.h - 1 : Colour(x, y) = colour

(*------------------------------- What is counted --------------------------*)

MaxLines(w) == (IF w * 2 > MaxStripSize THEN w * 2 ELSE MaxStripSize) \div w

SubrectHeight(r) == MaxRectSize \div Least(r.w, MaxRectWidth)

(* SendRectSimple sends a grid when the rectangle is too large.            *)
TooLarge(r) == r.w > MaxRectWidth \/ Area(r) > MaxRectSize

SearchesSolid(r) == enableLastRectEncoding /\ Area(r) >= MinSplitRectSize

(* What a rectangle counts for: rfbNumCodedRectsTight, and the like for    *)
(* the others.                                                             *)
NumCodedRects(r) ==
    CASE preferredEncoding = "corre" -> CeilDiv(r.w, CorreMax) * CeilDiv(r.h, CorreMax)
      [] preferredEncoding = "strips" -> CeilDiv(r.h, MaxLines(r.w))
      [] preferredEncoding = "tight" ->
           IF TooLarge(r) THEN CeilDiv(r.w, MaxRectWidth) * CeilDiv(r.h, SubrectHeight(r)) ELSE 1
      [] OTHER -> 1

(* What the counts of the rectangles of the region come to.                *)
Counted ==
    LET upTo[i \in 0 .. Len(updateRegion)] ==
            IF i = 0 THEN 0 ELSE upTo[i - 1] + NumCodedRects(updateRegion[i])
    IN upTo[Len(updateRegion)]

(* The header of the update.                                               *)
Announce ==
    /\ phase = "announce"
    /\ nRects' = IF /\ preferredEncoding = "tight"
                    /\ \E i \in DOMAIN updateRegion : SearchesSolid(updateRegion[i])
                 THEN Many
                 ELSE Counted
    /\ todo' = [i \in DOMAIN updateRegion |-> Task(preferredEncoding, updateRegion[i])]
    /\ phase' = "send"
    /\ UNCHANGED <<image, updateRegion, preferredEncoding, enableLastRectEncoding, sent>>

(*-------------------------------- What is sent ----------------------------*)

Current == Head(todo)

(* The call under way is done but for the calls it makes itself, none of   *)
(* which is for nothing.                                                   *)
Call(op, r) == IF Empty(r) THEN <<>> ELSE <<Task(op, r)>>
Calls(tasks) == todo' = tasks \o Tail(todo) /\ UNCHANGED sent

Sends(rects) == sent' = sent \o rects /\ todo' = Tail(todo)

(* rfbSendRectEncodingCoRRE.                                               *)
Corre ==
    LET r == Current.r IN
    /\ Current.op = "corre"
    /\ \/ /\ r.h > CorreMax
          /\ Calls(<<Task("corre", Rect(r.x, r.y, r.w, CorreMax)),
                     Task("corre", Rect(r.x, r.y + CorreMax, r.w, r.h - CorreMax))>>)
       \/ /\ r.h <= CorreMax /\ r.w > CorreMax
          /\ Calls(<<Task("corre", Rect(r.x, r.y, CorreMax, r.h)),
                     Task("corre", Rect(r.x + CorreMax, r.y, r.w - CorreMax, r.h))>>)
       \/ r.h <= CorreMax /\ r.w <= CorreMax /\ Sends(<<r>>)

(* rfbSendRectEncodingUltra, rfbSendRectEncodingZlib.                      *)
Strips ==
    LET r == Current.r
        lines == Least(MaxLines(r.w), r.h) IN
    /\ Current.op = "strips"
    /\ sent' = Append(sent, Rect(r.x, r.y, r.w, lines))
    /\ todo' = (IF lines = r.h THEN <<>>
                ELSE <<Task("strips", Rect(r.x, r.y + lines, r.w, r.h - lines))>>) \o Tail(todo)

(* The encodings that send the rectangle as it is.                         *)
Whole == Current.op \in {"raw", "solid"} /\ Sends(<<Current.r>>)

(* SendRectSimple.                                                         *)
Simple ==
    LET r == Current.r
        columns == CeilDiv(r.w, MaxRectWidth)
        high == SubrectHeight(r)
        Cell(i) == LET dx == (i % columns) * MaxRectWidth  dy == (i \div columns) * high IN
                   Rect(r.x + dx, r.y + dy, Least(MaxRectWidth, r.w - dx), Least(high, r.h - dy))
    IN /\ Current.op = "simple"
       /\ Sends(IF TooLarge(r) THEN [n \in 1 .. columns * CeilDiv(r.h, high) |-> Cell(n - 1)]
                ELSE <<r>>)

(* SendRectEncodingTight, up to its search.                                *)
Tight ==
    /\ Current.op = "tight"
    /\ Calls(<<Task(IF SearchesSolid(Current.r) THEN "search" ELSE "simple", Current.r)>>)

(* FindBestSolidArea: the widest area in the first row of tiles, and then  *)
(* in each row below as far as it is as wide; the largest of these.        *)
BestSolidArea(x, y, w, h, colour) ==
    LET rows == CeilDiv(h, MaxSplitTileSize)
        To(k) == Least(k * MaxSplitTileSize, h)
        widths[k \in 0 .. rows] ==
            IF k = 0 THEN w
            ELSE Max({0} \cup
                     {n \in 1 .. widths[k - 1] :
                        /\ n = widths[k - 1] \/ n % MaxSplitTileSize = 0
                        /\ Solid(Rect(x, y + To(k - 1), n, To(k) - To(k - 1)), colour)})
        largest == Max({widths[k] * To(k) : k \in 1 .. rows})
        best == Min({k \in 1 .. rows : widths[k] * To(k) = largest})
    IN Rect(x, y, widths[best], To(best))

\* Mutant of Extended: to the right as far as r is wide.
MutantExtended(r, area, colour) ==
    LET x == area.x  w == area.w
        y == Min({n \in r.y .. area.y : Solid(Rect(x, n, w, area.y - n), colour)})
        h == Max({n \in 1 .. r.y + r.h - y : Solid(Rect(x, y, w, n), colour)})
        left == Min({n \in r.x .. x : Solid(Rect(n, y, x - n, h), colour)})
        width == Max({n \in 1 .. r.w : Solid(Rect(left, y, n, h), colour)})
    IN Rect(left, y, width, h)

(* ExtendSolidArea, within r: upwards, downwards, to the left and to the   *)
(* right.                                                                  *)
Extended(r, area, colour) ==
    LET x == area.x  w == area.w
        y == Min({n \in r.y .. area.y : Solid(Rect(x, n, w, area.y - n), colour)})
        h == Max({n \in 1 .. r.y + r.h - y : Solid(Rect(x, y, w, n), colour)})
        left == Min({n \in r.x .. x : Solid(Rect(n, y, x - n, h), colour)})
        width == Max({n \in 1 .. r.x + r.w - left : Solid(Rect(left, y, n, h), colour)})
    IN Rect(left, y, width, h)

(* The areas of one colour of the row of tiles at dy that are large enough *)
(* to be sent on their own.                                                *)
SolidAreas(r, dy) ==
    LET right == r.x + r.w  below == r.y + r.h
        columns == {d \in r.x .. right - 1 :
                      /\ (d - r.x) % MaxSplitTileSize = 0
                      /\ Solid(Rect(d, dy, Least(MaxSplitTileSize, right - d),
                                          Least(MaxSplitTileSize, below - dy)), Colour(d, dy))}
        areas == {BestSolidArea(d, dy, right - d, below - dy, Colour(d, dy)) : d \in columns}
    IN {a \in areas : Area(a) = Area(r) \/ Area(a) >= MinSolidSubrectSize}

(* A row of tiles of SendRectEncodingTight: past the last one, what is     *)
(* left is sent; what has become too large above it is sent now; the first *)
(* large area of one colour is sent, and what is around it.                *)
Search ==
    LET r == Current.r  dy == Current.dy
        maxRows == SubrectHeight(r) IN
    /\ Current.op = "search"
    /\ \/ /\ dy >= r.y + r.h
          /\ Calls(<<Task("simple", r)>>)
       \/ /\ dy < r.y + r.h /\ dy - r.y >= maxRows
          /\ Calls(<<Task("simple", Rect(r.x, r.y, r.w, maxRows)),
                     [Current EXCEPT !.r = Rect(r.x, r.y + maxRows, r.w, r.h - maxRows)]>>)
       \/ /\ dy < r.y + r.h /\ dy - r.y < maxRows
          /\ \E areas \in {SolidAreas(r, dy)} :
               \/ areas = {} /\ Calls(<<[Current EXCEPT !.dy = dy + MaxSplitTileSize]>>)
               \/ \E first \in {a \in areas : \A b \in areas : a.x <= b.x} :
                  \E b \in {Extended(r, first, Colour(first.x, first.y))} :
                    Calls(Call("simple", Rect(r.x, r.y, r.w, b.y - r.y))
                          \o Call("tight", Rect(r.x, b.y, b.x - r.x, b.h))
                          \o <<Task("solid", b)>>
                          \o Call("tight", Rect(b.x + b.w, b.y, r.x + r.w - b.x - b.w, b.h))
                          \o Call("tight", Rect(r.x, b.y + b.h, r.w, r.y + r.h - b.y - b.h)))

Send ==
    /\ phase = "send" /\ todo # <<>>
    /\ Corre \/ Strips \/ Whole \/ Simple \/ Tight \/ Search
    /\ UNCHANGED <<phase, image, updateRegion, preferredEncoding, enableLastRectEncoding, nRects>>

LastRect == Rect(0, 0, 0, 0)

(* The end of rfbSendFramebufferUpdate.                                    *)
Finish ==
    /\ phase = "send" /\ todo = <<>>
    /\ phase' = "sent"
    /\ sent' = IF nRects = Many THEN Append(sent, LastRect) ELSE sent
    /\ UNCHANGED <<image, updateRegion, preferredEncoding, enableLastRectEncoding, nRects, todo>>

(*---------------------------------- Updates -------------------------------*)

SplitInit ==
    /\ phase = "idle"
    /\ image = <<>> /\ updateRegion = <<>>
    /\ preferredEncoding = "raw" /\ enableLastRectEncoding = FALSE
    /\ nRects = 0 /\ todo = <<>> /\ sent = <<>>

Begin ==
    /\ phase = "idle" /\ phase' = "announce"
    /\ \E u \in Updates :
         /\ image' = u.image /\ updateRegion' = u.region
         /\ preferredEncoding' = u.encoding /\ enableLastRectEncoding' = u.lastRect
    /\ UNCHANGED <<nRects, todo, sent>>

Reset ==
    /\ phase = "sent"
    /\ phase' = "idle"
    /\ image' = <<>> /\ updateRegion' = <<>>
    /\ preferredEncoding' = "raw" /\ enableLastRectEncoding' = FALSE
    /\ nRects' = 0 /\ todo' = <<>> /\ sent' = <<>>

SplitNext == Begin \/ Announce \/ Send \/ Finish \/ Reset

SplitSpec == SplitInit /\ [][SplitNext]_splitVars

-------------------------------------------------------------------------------

(* The client finds as many rectangles as it was told, or, when it was not *)
(* told, a marker after the last one and not before.                       *)
CountKept ==
    phase = "sent" =>
        IF nRects = Many
        THEN \A i \in DOMAIN sent : sent[i] = LastRect <=> i = Len(sent)
        ELSE Len(sent) = nRects

(* While an update is sent, the rectangles sent and those that the calls   *)
(* under way have still to send cover each pixel of the region once, and   *)
(* no other, and one that is sent as a single pixel is of one colour: the  *)
(* areas that FindBestSolidArea and ExtendSolidArea find and what          *)
(* SendRectEncodingTight leaves around them fit together.                  *)
EachPixelOnce ==
    phase \in {"send", "sent"} =>
        /\ \A x \in 0 .. ScreenWidth - 1, y \in 0 .. ScreenHeight - 1 :
             Cardinality({i \in DOMAIN sent : In(x, y, sent[i])})
             + Cardinality({i \in DOMAIN todo : In(x, y, todo[i].r)})
             = Cardinality({i \in DOMAIN updateRegion : In(x, y, updateRegion[i])})
        /\ \A i \in DOMAIN todo :
             LET r == todo[i].r IN todo[i].op = "solid" => Solid(r, Colour(r.x, r.y))

===============================================================================
