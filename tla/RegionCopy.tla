----------------------------- MODULE RegionCopy -----------------------------
(***************************************************************************)
(* A copy of a region of several rectangles, done twice: by the server in  *)
(* its own framebuffer (rfbDoCopyRegion) and by the client, from the       *)
(* CopyRect rectangles rfbSendCopyRegion writes.  Source and destination   *)
(* may overlap, so the order of the rectangles, of the rows and of the     *)
(* pixels decides what ends up where.  In FramebufferUpdate both are one   *)
(* step that moves the whole region at once; here is whether they may be.  *)
(*                                                                         *)
(* Every pixel starts as its own position, so a framebuffer shows where    *)
(* each of its pixels came from.                                           *)
(***************************************************************************)
EXTENDS Integers

CONSTANTS Width, Height,
          Deltas      \* the displacements tried, pairs of integers

ASSUME RegionCopyAssumption ==
    Width \in Nat \ {0} /\ Height \in Nat \ {0} /\ Deltas \subseteq Int \X Int

Pixels == (0 .. Width - 1) \X (0 .. Height - 1)
Minus(p, d) == <<p[1] - d[1], p[2] - d[2]>>

(***************************************************************************)
(* A region is a list of bands of equal rows, each a list of runs of       *)
(* columns (sraSpanList); its rectangles are the runs of the bands.        *)
(***************************************************************************)
Columns(R, y) == {x \in 0 .. Width - 1 : <<x, y>> \in R}

IsRun(X, a, b) == a <= b /\ a .. b \subseteq X /\ a - 1 \notin X /\ b + 1 \notin X

IsBand(R, a, b) ==
    /\ a <= b /\ Columns(R, a) # {}
    /\ \A y \in a .. b : Columns(R, y) = Columns(R, a)
    /\ Columns(R, a - 1) # Columns(R, a) /\ Columns(R, b + 1) # Columns(R, a)

Rects(R) ==
    {r \in [x1 : 0 .. Width - 1, x2 : 0 .. Width - 1,
            y1 : 0 .. Height - 1, y2 : 0 .. Height - 1] :
        IsBand(R, r.y1, r.y2) /\ IsRun(Columns(R, r.y1), r.x1, r.x2)}

\* The order of sraRgnGetReverseIterator: bands, then runs, each way reversed
\* on demand.
RectBefore(r, s, reverseX, reverseY) ==
    IF r.y1 # s.y1 THEN (r.y1 < s.y1) # reverseY ELSE (r.x1 < s.x1) # reverseX
-----------------------------------------------------------------------------
VARIABLES region, delta,
          frameBuffer, serverTodo,   \* rows the server has still to move
          remoteFrameBuffer, clientTodo  \* pixels the client has still to move

vars == <<region, delta, frameBuffer, serverTodo, remoteFrameBuffer, clientTodo>>

Rows(R) == UNION {{[rect |-> r, y |-> y] : y \in r.y1 .. r.y2} : r \in Rects(R)}
Cells(R) ==
    UNION {{[rect |-> r, x |-> x, y |-> y] : x \in r.x1 .. r.x2, y \in r.y1 .. r.y2} :
              r \in Rects(R)}

Init ==
    /\ delta \in Deltas
    /\ region \in SUBSET {p \in Pixels : Minus(p, delta) \in Pixels}
    /\ frameBuffer = [p \in Pixels |-> p]
    /\ remoteFrameBuffer = [p \in Pixels |-> p]
    /\ serverTodo = Rows(region)
    /\ clientTodo = Cells(region)

\* Mutant of ServerBefore: the rows of a rectangle in the other order.
MutantServerBefore(a, b) ==
    IF a.rect # b.rect
    THEN RectBefore(a.rect, b.rect, delta[1] < 0, delta[2] < 0)
    ELSE (a.y < b.y) # (delta[2] < 0)

\* The order of rfbDoCopyRegion: its iterator, then rows downwards when the
\* copy moves up and upwards otherwise.
ServerBefore(a, b) ==
    IF a.rect # b.rect
    THEN RectBefore(a.rect, b.rect, delta[1] < 0, delta[2] < 0)
    ELSE (a.y < b.y) # (delta[2] >= 0)

\* One memmove, which is right however source and destination overlap.
ServerCopyRow ==
    \E a \in serverTodo :
        /\ \A b \in serverTodo \ {a} : ServerBefore(a, b)
        /\ serverTodo' = serverTodo \ {a}
        /\ frameBuffer' = [p \in Pixels |->
               IF p[2] = a.y /\ p[1] \in a.rect.x1 .. a.rect.x2
               THEN frameBuffer[Minus(p, delta)] ELSE frameBuffer[p]]
        /\ UNCHANGED <<region, delta, remoteFrameBuffer, clientTodo>>

\* Mutant of ClientBefore: every row from left to right.
MutantClientBefore(a, b) ==
    IF a.rect # b.rect
    THEN RectBefore(a.rect, b.rect, delta[1] > 0, delta[2] > 0)
    ELSE IF a.y # b.y THEN (a.y < b.y) # (delta[2] >= 0)
    ELSE a.x < b.x

\* The order rfbSendCopyRegion writes the rectangles in, and the client's loops
\* over the pixels of each.
ClientBefore(a, b) ==
    IF a.rect # b.rect
    THEN RectBefore(a.rect, b.rect, delta[1] > 0, delta[2] > 0)
    ELSE IF a.y # b.y THEN (a.y < b.y) # (delta[2] >= 0)
    ELSE (a.x < b.x) # (delta[1] >= 0)

\* The update goes out after the server's own copy.
ClientCopyPixel ==
    \E a \in clientTodo :
        /\ serverTodo = {}
        /\ \A b \in clientTodo \ {a} : ClientBefore(a, b)
        /\ clientTodo' = clientTodo \ {a}
        /\ remoteFrameBuffer' =
             [remoteFrameBuffer EXCEPT ![<<a.x, a.y>>] =
                remoteFrameBuffer[Minus(<<a.x, a.y>>, delta)]]
        /\ UNCHANGED <<region, delta, frameBuffer, serverTodo>>

Next == ServerCopyRow \/ ClientCopyPixel
Spec == Init /\ [][Next]_vars
-----------------------------------------------------------------------------
\* The framebuffer a copy of the whole region at once would leave.
CopiedAtOnce == [p \in Pixels |-> IF p \in region THEN Minus(p, delta) ELSE p]

\* What FramebufferUpdate takes for granted of the client, for any region: "an
\* earlier CopyRect will not corrupt the source of a later one"
\* (rfbSendCopyRegion), ...
ClientCopiesAtOnce == clientTodo = {} => remoteFrameBuffer = CopiedAtOnce

\* ... and of the server, for the single rectangles of rfbDoCopyRect.
IsRect == \E r \in Rects(region) : Rects(region) = {r}
ServerCopiesRectAtOnce == IsRect /\ serverTodo = {} => frameBuffer = CopiedAtOnce

\* The claim behind copyRegion in rfb.h: the one copy brings the client's
\* framebuffer to the state of ours.
SameResult == serverTodo = {} /\ clientTodo = {} => remoteFrameBuffer = frameBuffer
=============================================================================
