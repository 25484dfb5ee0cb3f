------------------------------ MODULE TileCodec ------------------------------
(***************************************************************************)
(* The encodings that paint a background and subrectangles on it: Hextile, *)
(* whose encoder (libvncserver/hextile.c) and decoder                      *)
(* (libvncclient/hextile.c) each remember the colours of the tiles before, *)
(* so that a colour that stays is not sent again, and RRE and CoRRE, which *)
(* send every colour.  What would take more room than the pixels is sent   *)
(* as pixels.                                                              *)
(*                                                                         *)
(* A tile is at most 16 by 16 pixels, a rectangle of RRE of any size; the  *)
(* sizes here are small ones.  The encoder reads the framebuffer once: the *)
(* copies it makes for the search and for the pixels are taken to be the   *)
(* same.                                                                   *)
(***************************************************************************)
EXTENDS Integers, Sequences, FiniteSets, SequencesExt

CONSTANTS
    Sizes,          \* the widths and heights of tiles
    Colours,        \* pixels in the client's format, 0 among them
    PixelSizes,     \* bytes of a pixel
    Encodings

ASSUME CodecAssumption ==
    /\ Sizes \subseteq (Nat \ {0}) \X (Nat \ {0})
    /\ 0 \in Colours /\ Colours \subseteq Nat
    /\ PixelSizes \subseteq {1, 2, 4}
    /\ Encodings \subseteq {"hextile", "rre", "corre"}

VARIABLES
    encoding, pixelSize,
    enc,        \* validBg, bg, validFg and fg of sendHextiles
    dec,        \* bg and fg of HandleHextile
    tile,       \* the tile under way
    message,    \* what is sent for it
    painted     \* what the client shows of it

codecVars == <<encoding, pixelSize, enc, dec, tile, message, painted>>

Tile == UNION {[w : {s[1]}, h : {s[2]}, data : [1 .. s[1] * s[2] -> Colours]] : s \in Sizes}

None == <<>>        \* no tile, no message, no colour in a message

(*-------------------------------- The encoder -----------------------------*)

X(k, w) == (k - 1) % w
Y(k, w) == (k - 1) \div w
At(data, w, x, y) == data[y * w + x + 1]

(* The larger of the two rectangles of the colour at the pixel k with its  *)
(* corner there: the one as wide as the colour's run in that row, and the  *)
(* one as high as its run in that column.                                  *)
Biggest(data, w, h, k) ==
    LET x == X(k, w)  y == Y(k, w)  colour == data[k]
        rows == {j \in y .. h - 1 : \A i \in y .. j : At(data, w, x, i) = colour}
        width == [j \in rows |->
                    Max({n \in 1 .. w - x : \A i \in x .. x + n - 1 : At(data, w, i, j) = colour})]
        wide == [x |-> x, y |-> y, w |-> width[y],
                 h |-> Cardinality({j \in rows : \A i \in y .. j : width[i] >= width[y]})]
        tall == [x |-> x, y |-> y, w |-> Min({width[j] : j \in rows}), h |-> Cardinality(rows)]
    IN IF wide.w * wide.h > tall.w * tall.h THEN wide ELSE tall

Fill(data, w, r, colour) ==
    [k \in DOMAIN data |-> IF X(k, w) \in r.x .. r.x + r.w - 1 /\ Y(k, w) \in r.y .. r.y + r.h - 1
                           THEN colour ELSE data[k]]

\* Mutant of AddSubrect: the length is checked before the subrectangle is counted.
MutantAddSubrect(t, bg, size, e, k) ==
    IF ~e.fits \/ e.data[k] = bg THEN e
    ELSE IF e.len > t.w * t.h * pixelSize THEN [e EXCEPT !.fits = FALSE]
    ELSE LET r == Biggest(e.data, t.w, t.h, k) IN
         [e EXCEPT !.data = Fill(@, t.w, r, bg), !.len = @ + size,
                   !.rects = Append(@, r), !.colours = Append(@, e.data[k])]

(* One pixel of subrectEncode: if it still differs from the background, it *)
(* starts a subrectangle, unless they get longer than the pixels.          *)
AddSubrect(t, bg, size, e, k) ==
    IF ~e.fits \/ e.data[k] = bg THEN e
    ELSE IF e.len + size > t.w * t.h * pixelSize THEN [e EXCEPT !.fits = FALSE]
    ELSE LET r == Biggest(e.data, t.w, t.h, k) IN
         [e EXCEPT !.data = Fill(@, t.w, r, bg), !.len = @ + size,
                   !.rects = Append(@, r), !.colours = Append(@, e.data[k])]

(* subrectEncode: len bytes come before the subrectangles, of which each   *)
(* takes size.                                                             *)
SubrectEncode(t, bg, len, size) ==
    LET after[k \in 0 .. t.w * t.h] ==
            IF k = 0 THEN [data |-> t.data, len |-> len, rects |-> <<>>, colours |-> <<>>,
                           fits |-> TRUE]
            ELSE AddSubrect(t, bg, size, after[k - 1], k)
    IN after[t.w * t.h]

(* testColours: the first two colours, of which the one found more often   *)
(* before a third is the background.                                       *)
TestColours(t) ==
    LET first == t.data[1]
        others == {k \in DOMAIN t.data : t.data[k] # first}
        second == IF others = {} THEN 0 ELSE t.data[Min(others)]
        third == {k \in others : t.data[k] # second}
        seen == IF third = {} THEN DOMAIN t.data ELSE 1 .. Min(third) - 1
        Count(c) == Cardinality({k \in seen : t.data[k] = c})
        more == others = {} \/ Count(first) > Count(second)
    IN [solid |-> others = {}, mono |-> third = {},
        bg |-> IF more THEN first ELSE second, fg |-> IF more THEN second ELSE first]

RawMessage(t) ==
    [raw |-> TRUE, bg |-> None, fg |-> None, rects |-> <<>>, colours |-> <<>>, data |-> t.data,
     len |-> t.w * t.h * pixelSize]

\* Mutant of Remembered: the foreground is still taken for known after coloured subrectangles.
MutantForgetsColoured(c, newFg, raw) ==
    [validBg |-> ~raw, bg |-> c.bg,
     validFg |-> ~raw /\ (enc.validFg \/ newFg), fg |-> IF newFg THEN c.fg ELSE enc.fg]

\* Mutant of Remembered: pixels are taken for a tile that carried its colours.
MutantForgetsRaw(c, newFg, raw) ==
    [validBg |-> TRUE, bg |-> c.bg,
     validFg |-> c.mono /\ (enc.validFg \/ newFg), fg |-> IF newFg THEN c.fg ELSE enc.fg]

(* What sendHextiles knows of the client after a tile.                     *)
Remembered(c, newFg, raw) ==
    [validBg |-> ~raw, bg |-> c.bg,
     validFg |-> ~raw /\ c.mono /\ (enc.validFg \/ newFg), fg |-> IF newFg THEN c.fg ELSE enc.fg]

(* One tile of sendHextiles.                                               *)
EncodeHextile(t) ==
    LET c == TestColours(t)
        newBg == ~enc.validBg \/ c.bg # enc.bg
        newFg == ~c.solid /\ c.mono /\ (~enc.validFg \/ c.fg # enc.fg)
        e == SubrectEncode(t, c.bg, 1, IF c.mono THEN 2 ELSE 2 + pixelSize)
        raw == ~c.solid /\ ~e.fits
        Size(specified) == IF specified THEN pixelSize ELSE 0
    IN /\ enc' = Remembered(c, newFg, raw)
       /\ message' =
            IF raw THEN RawMessage(t)
            ELSE [raw |-> FALSE, data |-> <<>>, rects |-> e.rects,
                  colours |-> IF c.mono THEN <<>> ELSE e.colours,
                  bg |-> IF newBg THEN <<c.bg>> ELSE None,
                  fg |-> IF newFg THEN <<c.fg>> ELSE None,
                  len |-> Size(newBg) + Size(newFg) + (IF c.solid THEN 0 ELSE e.len)]

(* getBgColour: the first pixel; for pixels of a byte the most frequent    *)
(* one, by the counts that the threads of all clients share: any of them,  *)
(* or 0.                                                                   *)
BgColours(t) == IF pixelSize = 1 THEN ToSet(t.data) \cup {0} ELSE {t.data[1]}

(* The rectangle of rfbSendRectEncodingRRE and of                          *)
(* rfbSendSmallRectEncodingCoRRE.                                          *)
EncodeRRE(t) ==
    \E bg \in BgColours(t) :
        LET e == SubrectEncode(t, bg, pixelSize,
                               pixelSize + (IF encoding = "rre" THEN 8 ELSE 4))
        IN /\ message' = IF ~e.fits THEN RawMessage(t)
                         ELSE [raw |-> FALSE, data |-> <<>>, bg |-> <<bg>>, fg |-> None,
                               rects |-> e.rects, colours |-> e.colours, len |-> e.len]
           /\ UNCHANGED enc

Encode(t) ==
    /\ tile = None
    /\ tile' = t
    /\ \/ encoding = "hextile" /\ EncodeHextile(t)
       \/ encoding # "hextile" /\ EncodeRRE(t)
    /\ painted' = None
    /\ UNCHANGED <<encoding, pixelSize, dec>>

(*-------------------------------- The decoder -----------------------------*)

(* The colours of HandleHextile after a message: the last subrectangle's   *)
(* colour stays in fg.                                                     *)
Known(msg) ==
    [bg |-> IF msg.bg = None THEN dec.bg ELSE Head(msg.bg),
     fg |-> IF msg.colours # <<>> THEN Last(msg.colours)
            ELSE IF msg.fg = None THEN dec.fg ELSE Head(msg.fg)]

(* The subrectangles over the background.                                  *)
Paint(msg, w, h, known) ==
    LET after[i \in 0 .. Len(msg.rects)] ==
            IF i = 0 THEN [k \in 1 .. w * h |-> known.bg]
            ELSE Fill(after[i - 1], w, msg.rects[i],
                      IF msg.colours = <<>> THEN known.fg ELSE msg.colours[i])
    IN after[Len(msg.rects)]

(* One tile of HandleHextile, or HandleRRE and HandleCoRRE, which keep     *)
(* nothing.                                                                *)
Decode ==
    /\ message # None
    /\ painted' = IF message.raw THEN message.data
                  ELSE Paint(message, tile.w, tile.h, Known(message))
    /\ dec' = IF message.raw \/ encoding # "hextile" THEN dec ELSE Known(message)
    /\ message' = None
    /\ UNCHANGED <<encoding, pixelSize, enc, tile>>

Fresh ==
    /\ enc' = [validBg |-> FALSE, bg |-> 0, validFg |-> FALSE, fg |-> 0]
    /\ \E garbage \in Colours : dec' = [bg |-> 0, fg |-> garbage]   \* fg is not initialised

NextTile ==
    /\ painted # None
    /\ tile' = None /\ painted' = None
    /\ UNCHANGED <<encoding, pixelSize, enc, dec, message>>

(* The next rectangle, perhaps after SetEncodings and SetPixelFormat.      *)
NextRect ==
    /\ tile = None
    /\ encoding' \in Encodings /\ pixelSize' \in PixelSizes
    /\ Fresh
    /\ UNCHANGED <<tile, message, painted>>

CodecInit ==
    /\ encoding \in Encodings /\ pixelSize \in PixelSizes
    /\ enc = [validBg |-> FALSE, bg |-> 0, validFg |-> FALSE, fg |-> 0]
    /\ \E garbage \in Colours : dec = [bg |-> 0, fg |-> garbage]
    /\ tile = None /\ message = None /\ painted = None

CodecNext ==
    \/ \E t \in Tile : Encode(t)
    \/ Decode
    \/ NextTile
    \/ NextRect

CodecSpec == CodecInit /\ [][CodecNext]_codecVars

-------------------------------------------------------------------------------

(* What the client shows of a tile is what the server read of it, whatever *)
(* tiles and rectangles came before.                                       *)
PixelsRestored == painted # None => painted = tile.data

(* sendHextiles asks for room for a tile, 1 + (2 + 16 * 16) * (bpp / 8)    *)
(* bytes of updateBuf, before it knows what the tile takes: its colours    *)
(* and subrectangles never take more, and their number fits the byte it is *)
(* sent in (255 for a tile of 16 by 16 pixels).                            *)
TileFits ==
    message # None /\ encoding = "hextile" =>
        /\ message.len <= (2 + tile.w * tile.h) * pixelSize
        /\ Len(message.rects) < tile.w * tile.h

(* Between two tiles the encoder and the decoder agree on the colours that *)
(* the encoder will not send again; fg is not looked at until it is.       *)
InSync ==
    encoding = "hextile" /\ message = None =>
        /\ enc.validBg => dec.bg = enc.bg
        /\ enc.validFg => dec.fg = enc.fg

===============================================================================
