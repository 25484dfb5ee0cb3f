------------------------------- MODULE MCCodec --------------------------------
(* The encodings that keep state from tile to tile, the splitting of the    *)
(* rectangles of an update, and the order in which a copied region is       *)
(* moved: three questions that share no state.                              *)
EXTENDS TileCodec, RectSplit, MCRegionCopy

VARIABLE kind
mcVars == <<kind, codecVars, splitVars, vars>>

MCSizes == {<<3, 2>>, <<2, 2>>, <<1, 2>>, <<3, 1>>}

ScreenRects == {r \in [x : 0 .. ScreenWidth - 1, y : 0 .. ScreenHeight - 1,
                 w : 1 .. ScreenWidth, h : 1 .. ScreenHeight] :
             r.x + r.w <= ScreenWidth /\ r.y + r.h <= ScreenHeight}

Regions == {<<Rect(0, 0, ScreenWidth, ScreenHeight)>>,
            <<Rect(1, 1, ScreenWidth - 2, ScreenHeight - 1)>>,
            <<Rect(0, 0, ScreenWidth, 3), Rect(2, 3, ScreenWidth - 2, ScreenHeight - 3)>>}

(* One area of any size, or two, of the same colour or of another.         *)
Images == {<<[r |-> r, colour |-> 1]>> : r \in ScreenRects}
          \cup {<<[r |-> r, colour |-> 1], [r |-> q, colour |-> c]>> :
                  r \in {s \in ScreenRects : s.x % 2 = 0 /\ s.w >= 4 /\ s.h >= 2},
                  q \in {Rect(0, 2, 4, 2), Rect(4, 1, 3, 3), Rect(2, 0, 2, ScreenHeight)},
                   c \in {1, 2}}

(* Only the search looks at the image.                                     *)
MCUpdates ==
    [image : Images, region : Regions, encoding : {"tight"}, lastRect : {TRUE}]
    \cup [image : {<<>>}, region : Regions \cup {<<r>> : r \in ScreenRects},
          encoding : {"raw", "corre", "strips", "tight"}, lastRect : BOOLEAN]

OneTile == encoding = "rre" /\ pixelSize = 1 /\ dec.fg = 0
NoCopy == region = {} /\ delta = <<1, 1>>

MCInit ==
    /\ CodecInit /\ SplitInit
    /\ \/ kind = "tiles" /\ NoCopy
       \/ kind = "split" /\ NoCopy /\ OneTile
       \/ kind = "copies" /\ OneTile
    /\ Init

\* Both sides have moved all there was to move.
CopyDone == serverTodo = {} /\ clientTodo = {} /\ UNCHANGED vars

MCNext ==
    \/ kind = "tiles" /\ CodecNext /\ UNCHANGED <<kind, splitVars, vars>>
    \/ kind = "split" /\ SplitNext /\ UNCHANGED <<kind, codecVars, vars>>
    \/ kind = "copies" /\ (Next \/ CopyDone) /\ UNCHANGED <<kind, codecVars, splitVars>>

MCSpec == MCInit /\ [][MCNext]_mcVars
===============================================================================
