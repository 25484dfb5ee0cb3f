-------------------------- MODULE PictureProofs ---------------------------
(***************************************************************************)
(* Three ways a picture is sent: as a copy of what the client shows        *)
(* already, as tiles that repeat the colours of the tiles before, and as   *)
(* the rectangles that a region is split in.                               *)
(*                                                                         *)
(* The order in which overlapping rectangles are copied is right: for      *)
(* every screen, region and displacement the client ends up as if all the  *)
(* pixels had moved at once, and so does the server when the region is one *)
(* rectangle.  The rectangles of a region are disjoint and cover it.  In a *)
(* framebuffer the pixels that have been copied show their source and the  *)
(* others themselves; the next pixel to be copied is before those that     *)
(* remain and the order puts no pixel before the one it is the source of,  *)
(* so what is read still shows itself.                                     *)
(*                                                                         *)
(* A tile of RRE or Hextile is painted as it was.  While subrectEncode     *)
(* goes through the pixels, each subrectangle it has sent is of one colour *)
(* in the tile, the pixels of those are background in the copy it works    *)
(* on, the others are as they were, and those behind it that are not the   *)
(* background are covered.  It sends no more subrectangles than it has met *)
(* pixels.  The encoder and the decoder of Hextile agree on the colours    *)
(* that a tile leaves to the next.                                         *)
(*                                                                         *)
(* The rectangles of a region are split so that each of its pixels is sent *)
(* once, in as many rectangles as the client was told.  At each step the   *)
(* calls and the rectangles that take the place of a call cover each pixel *)
(* as often as its rectangle did, and count for as many; the areas of one  *)
(* colour are found within the rectangle that is searched.                 *)
(***************************************************************************)
EXTENDS RegionCopy, TileCodec, RectSplit,
        FiniteSetTheorems, SequenceTheorems, WellFoundedInduction, TLAPS

Boxes == [x : Nat, y : Nat, w : Nat, h : Nat]

(*-------------------------- Numbers and induction -------------------------*)

(* A set of naturals has a least element, and a bounded one a greatest.    *)
LEMMA LeastNatural ==
  ASSUME NEW S, S \subseteq Nat, S # {}
  PROVE  \E x \in S : \A y \in S : x <= y
  <1> DEFINE Less == {p \in Nat \X Nat : p[1] < p[2]}
  <1>1. IsWellFoundedOn(Less, Nat)
    BY NatLessThanWellFounded DEF OpToRel
  <1> HIDE DEF Less
  <1>2. PICK x \in S : \A y \in S : <<y, x>> \notin Less
    BY <1>1, WFMin
  <1>3. \A y \in S : ~(y < x)
    BY <1>2 DEF Less
  <1> QED
    BY <1>3

LEMMA GreatestNatural ==
  ASSUME NEW n \in Nat, NEW S, S \subseteq 0 .. n, S # {}
  PROVE  \E x \in S : \A y \in S : y <= x
  <1> DEFINE D == {k \in 0 .. n : n - k \in S}
  <1>1. D \subseteq Nat
    OBVIOUS
  <1>2. \A s \in S : n - s \in D
    OBVIOUS
  <1>3. D # {}
    BY <1>2
  <1> HIDE DEF D
  <1>4. PICK d \in D : \A e \in D : d <= e
    BY <1>1, <1>3, LeastNatural
  <1>5. n - d \in S /\ d \in 0 .. n
    BY DEF D
  <1>6. \A y \in S : y <= n - d
    BY <1>2, <1>4, <1>5
  <1> QED
    BY <1>5, <1>6

(*-------------------------------- Recursion -------------------------------*)

(* Induction over the numbers up to m.                                     *)
LEMMA UpTo ==
  ASSUME NEW m \in Nat, NEW S, 0 \in S, \A n \in 1 .. m : n - 1 \in S => n \in S
  PROVE  \A n \in 0 .. m : n \in S
  <1> DEFINE Bad == {n \in 0 .. m : n \notin S}
  <1>1. SUFFICES ASSUME Bad # {} PROVE FALSE
    OBVIOUS
  <1>2. Bad \subseteq Nat
    OBVIOUS
  <1> HIDE DEF Bad
  <1>3. PICK n \in Bad : \A k \in Bad : n <= k
    BY <1>1, <1>2, LeastNatural
  <1>4. n \in 1 .. m
    BY DEF Bad
  <1>5. n - 1 \notin Bad /\ n - 1 \in 0 .. m
    BY <1>2, <1>3, <1>4
  <1> QED
    BY <1>4, <1>5 DEF Bad

(* What is repeated n times can be: the function that recursion defines.   *)
Steps(S, n) == [S -> [1 .. n -> S]]
Iterated(f, S, n, base, step) ==
    f \in [0 .. n -> S] /\ f[0] = base /\ \A k \in 1 .. n : f[k] = step[f[k - 1]][k]

LEMMA Iterates ==
  ASSUME NEW S, NEW n \in Nat, NEW base \in S, NEW step \in Steps(S, n)
  PROVE  \E f : Iterated(f, S, n, base, step)
  <1> DEFINE N == {m \in 0 .. n : \E f : Iterated(f, S, m, base, step)}
  <1>1. 0 \in N
    <2> DEFINE f == [k \in 0 .. 0 |-> base]
    <2>1. Iterated(f, S, 0, base, step)
      BY DEF Iterated
    <2> QED BY <2>1
  <1>2. ASSUME NEW m \in 1 .. n, m - 1 \in N PROVE m \in N
    <2>1. PICK f : Iterated(f, S, m - 1, base, step)
      BY <1>2
    <2>2. f \in [0 .. m - 1 -> S] /\ f[0] = base /\ \A k \in 1 .. m - 1 : f[k] = step[f[k - 1]][k]
      BY <2>1 DEF Iterated
    <2> DEFINE e == step[f[m - 1]][m]
               g == [k \in 0 .. m |-> IF k = m THEN e ELSE f[k]]
    <2>3. e \in S
      BY <2>2 DEF Steps
    <2> HIDE DEF e
    <2>4. g \in [0 .. m -> S] /\ g[m] = e /\ \A k \in 0 .. m - 1 : g[k] = f[k]
      BY <2>2, <2>3
    <2> HIDE DEF g
    <2>5. ASSUME NEW k \in 1 .. m PROVE g[k] = step[g[k - 1]][k]
      <3>1. CASE k = m
        <4>1. g[k - 1] = f[m - 1]
          BY <2>4, <3>1
        <4> QED BY <2>4, <3>1, <4>1 DEF e
      <3>2. CASE k # m
        <4>1. k \in 1 .. m - 1 /\ k - 1 \in 0 .. m - 1 /\ k \in 0 .. m - 1
          BY <3>2
        <4>2. g[k] = f[k] /\ g[k - 1] = f[k - 1]
          BY <2>4, <4>1
        <4> QED BY <2>2, <4>1, <4>2
      <3> QED BY <3>1, <3>2
    <2>6. g[0] = base
      BY <2>2, <2>4
    <2>7. Iterated(g, S, m, base, step)
      BY <2>4, <2>5, <2>6 DEF Iterated
    <2> QED BY <2>7
  <1>3. n \in N
    <2> HIDE DEF N
    <2>1. \A m \in 1 .. n : m - 1 \in N => m \in N
      BY <1>2
    <2>2. \A m \in 0 .. n : m \in N
      BY <1>1, <2>1, UpTo
    <2> QED BY <2>2
  <1> QED BY <1>3

(*--------------------------- Copying a region -----------------------------*)

(* Bands that have a row in common are the same, and so are runs that have *)
(* a column in common: the rectangles of a region are disjoint.            *)
LEMMA BandsDisjoint ==
  ASSUME NEW R, NEW a \in Int, NEW b \in Int, NEW c \in Int, NEW d \in Int,
         IsBand(R, a, b), IsBand(R, c, d), NEW y \in Int, y \in a .. b, y \in c .. d
  PROVE  a = c /\ b = d
  <1>1. Columns(R, a) = Columns(R, c)
    BY DEF IsBand
  <1>2. ~(a < c)
    <2> SUFFICES ASSUME a < c PROVE FALSE
      OBVIOUS
    <2>1. c - 1 \in a .. b
      OBVIOUS
    <2>2. Columns(R, c - 1) = Columns(R, a)
      BY <2>1 DEF IsBand
    <2> QED
      BY <1>1, <2>2 DEF IsBand
  <1>3. ~(c < a)
    <2> SUFFICES ASSUME c < a PROVE FALSE
      OBVIOUS
    <2>1. a - 1 \in c .. d
      OBVIOUS
    <2>2. Columns(R, a - 1) = Columns(R, c)
      BY <2>1 DEF IsBand
    <2> QED
      BY <1>1, <2>2 DEF IsBand
  <1>4. ~(b < d)
    <2> SUFFICES ASSUME b < d PROVE FALSE
      OBVIOUS
    <2>1. b + 1 \in c .. d
      OBVIOUS
    <2>2. Columns(R, b + 1) = Columns(R, c)
      BY <2>1 DEF IsBand
    <2> QED
      BY <1>1, <2>2 DEF IsBand
  <1>5. ~(d < b)
    <2> SUFFICES ASSUME d < b PROVE FALSE
      OBVIOUS
    <2>1. d + 1 \in a .. b
      OBVIOUS
    <2>2. Columns(R, d + 1) = Columns(R, a)
      BY <2>1 DEF IsBand
    <2> QED
      BY <1>1, <2>2 DEF IsBand
  <1> QED
    BY <1>2, <1>3, <1>4, <1>5

LEMMA RunsDisjoint ==
  ASSUME NEW Cols, NEW a \in Int, NEW b \in Int, NEW c \in Int, NEW d \in Int,
         IsRun(Cols, a, b), IsRun(Cols, c, d), NEW x \in Int, x \in a .. b, x \in c .. d
  PROVE  a = c /\ b = d
  <1>1. a < c => c - 1 \in a .. b
    OBVIOUS
  <1>2. c < a => a - 1 \in c .. d
    OBVIOUS
  <1>3. b < d => b + 1 \in c .. d
    OBVIOUS
  <1>4. d < b => d + 1 \in a .. b
    OBVIOUS
  <1> QED
    BY <1>1, <1>2, <1>3, <1>4 DEF IsRun

Within(x, y, r) == x \in r.x1 .. r.x2 /\ y \in r.y1 .. r.y2

LEMMA RectType ==
  ASSUME NEW R, NEW r \in Rects(R)
  PROVE  /\ {r.x1, r.x2, r.y1, r.y2} \subseteq Nat
         /\ r.x1 <= r.x2 /\ r.y1 <= r.y2 /\ r.x2 < Width /\ r.y2 < Height
         /\ r = [x1 |-> r.x1, x2 |-> r.x2, y1 |-> r.y1, y2 |-> r.y2]
         /\ IsBand(R, r.y1, r.y2) /\ IsRun(Columns(R, r.y1), r.x1, r.x2)
  <1>1. /\ r \in [x1 : 0 .. Width - 1, x2 : 0 .. Width - 1,
                  y1 : 0 .. Height - 1, y2 : 0 .. Height - 1]
        /\ IsBand(R, r.y1, r.y2) /\ IsRun(Columns(R, r.y1), r.x1, r.x2)
    BY DEF Rects
  <1>2. r.x1 <= r.x2 /\ r.y1 <= r.y2
    BY <1>1 DEF IsBand, IsRun
  <1> QED
    BY <1>1, <1>2, RegionCopyAssumption

LEMMA RectsDisjoint ==
  ASSUME NEW R, NEW r \in Rects(R), NEW s \in Rects(R)
  PROVE  /\ r.y1 = s.y1 => r.y2 = s.y2
         /\ \A y \in Int : y \in r.y1 .. r.y2 /\ y \in s.y1 .. s.y2 => r.y1 = s.y1
         /\ r.y1 = s.y1 => \A x \in Int : x \in r.x1 .. r.x2 /\ x \in s.x1 .. s.x2 => r = s
  <1>1. ASSUME NEW y \in Int, y \in r.y1 .. r.y2, y \in s.y1 .. s.y2
        PROVE  r.y1 = s.y1 /\ r.y2 = s.y2
    BY <1>1, BandsDisjoint, RectType
  <1>2. r.y1 = s.y1 => r.y2 = s.y2
    BY <1>1, RectType
  <1>3. ASSUME r.y1 = s.y1, NEW x \in Int, x \in r.x1 .. r.x2, x \in s.x1 .. s.x2
        PROVE  r = s
    <2>1. r.x1 = s.x1 /\ r.x2 = s.x2
      BY <1>3, RunsDisjoint, RectType
    <2> QED
      BY <1>2, <1>3, <2>1, RectType
  <1> QED
    BY <1>1, <1>2, <1>3
(* An element of a bounded set is in an interval of it that cannot be made *)
(* longer: the rectangles of a region cover it.                            *)
LEMMA LongestInterval ==
  ASSUME NEW n \in Nat, NEW S, S \subseteq 0 .. n, NEW k \in S
  PROVE  \E a, b \in 0 .. n : /\ a <= k /\ k <= b /\ a .. b \subseteq S
                              /\ a - 1 \notin S /\ b + 1 \notin S
  <1> DEFINE D == {j \in 0 .. k : j .. k \subseteq S}
             E == {j \in k .. n : k .. j \subseteq S}
  <1>1. k \in D /\ k \in E
    OBVIOUS
  <1>2. PICK a \in D : \A j \in D : a <= j
    <2>1. D \subseteq Nat
      OBVIOUS
    <2> HIDE DEF D
    <2> QED
      BY <1>1, <2>1, LeastNatural
  <1>3. PICK b \in E : \A j \in E : j <= b
    <2>1. E \subseteq 0 .. n
      OBVIOUS
    <2> HIDE DEF E
    <2> QED
      BY <1>1, <2>1, GreatestNatural
  <1>4. a .. b \subseteq S
    <2> SUFFICES ASSUME NEW j \in a .. b PROVE j \in S
      OBVIOUS
    <2>1. j \in a .. k \/ j \in k .. b
      OBVIOUS
    <2> QED
      BY <2>1
  <1>5. a - 1 \notin S
    <2> SUFFICES ASSUME a - 1 \in S PROVE FALSE
      OBVIOUS
    <2>1. \A j \in a - 1 .. k : j = a - 1 \/ j \in a .. k
      OBVIOUS
    <2>2. a - 1 \in D
      BY <2>1
    <2> QED
      BY <1>2, <2>2
  <1>6. b + 1 \notin S
    <2> SUFFICES ASSUME b + 1 \in S PROVE FALSE
      OBVIOUS
    <2>1. \A j \in k .. b + 1 : j = b + 1 \/ j \in k .. b
      OBVIOUS
    <2>2. b + 1 \in E
      BY <2>1
    <2> QED
      BY <1>3, <2>2
  <1> QED
    BY <1>4, <1>5, <1>6

LEMMA RectsInside ==
  ASSUME NEW R, NEW r \in Rects(R), NEW x \in Int, NEW y \in Int, Within(x, y, r)
  PROVE  <<x, y>> \in R
  <1>1. Columns(R, y) = Columns(R, r.y1)
    BY RectType DEF IsBand, Within
  <1>2. x \in Columns(R, y)
    BY <1>1, RectType DEF IsRun, Within
  <1> QED
    BY <1>2 DEF Columns

LEMMA RectsCover ==
  ASSUME NEW R, R \subseteq Pixels, NEW p \in R
  PROVE  \E r \in Rects(R) : Within(p[1], p[2], r)
  <1> DEFINE x == p[1]
             y == p[2]
             Cols == Columns(R, y)
             S == {j \in 0 .. Height - 1 : Columns(R, j) = Cols}
  <1>1. /\ p = <<x, y>> /\ x \in 0 .. Width - 1 /\ y \in 0 .. Height - 1
        /\ Width - 1 \in Nat /\ Height - 1 \in Nat
    BY RegionCopyAssumption DEF Pixels
  <1>2. Cols \subseteq 0 .. Width - 1 /\ x \in Cols
    BY <1>1 DEF Columns
  <1>3. S \subseteq 0 .. Height - 1 /\ y \in S
    BY <1>1
  <1>4. PICK a, b \in 0 .. Width - 1 :
           a <= x /\ x <= b /\ a .. b \subseteq Cols /\ a - 1 \notin Cols /\ b + 1 \notin Cols
    <2> HIDE DEF x, y, Cols
    <2> QED
      BY <1>1, <1>2, LongestInterval
  <1>5. PICK c, d \in 0 .. Height - 1 :
           c <= y /\ y <= d /\ c .. d \subseteq S /\ c - 1 \notin S /\ d + 1 \notin S
    <2> HIDE DEF x, y, S
    <2> QED
      BY <1>1, <1>3, LongestInterval
  <1>6. \A j \in Int : j \notin 0 .. Height - 1 => Columns(R, j) = {}
    BY DEF Columns, Pixels
  <1>7. IsBand(R, c, d)
    <2>1. \A j \in c .. d : Columns(R, j) = Cols
      BY <1>5
    <2>2. Columns(R, c - 1) # Cols /\ Columns(R, d + 1) # Cols
      BY <1>1, <1>2, <1>5, <1>6
    <2>3. c \in c .. d
      BY <1>1, <1>5
    <2> QED
      BY <1>1, <1>2, <1>5, <2>1, <2>2, <2>3 DEF IsBand
  <1>8. Columns(R, c) = Cols
    BY <1>1, <1>5
  <1>9. IsRun(Columns(R, c), a, b)
    BY <1>1, <1>4, <1>8 DEF IsRun
  <1> DEFINE r == [x1 |-> a, x2 |-> b, y1 |-> c, y2 |-> d]
  <1>10. r \in Rects(R)
    BY <1>7, <1>9 DEF Rects
  <1> QED
    BY <1>1, <1>4, <1>5, <1>10 DEF Within

-----------------------------------------------------------------------------
(* The cells of a region and its pixels are the same.                      *)
Cell(r, x, y) == [rect |-> r, x |-> x, y |-> y]

LEMMA CellsAre ==
  ASSUME NEW R
  PROVE  /\ \A a \in Cells(R) : /\ a.rect \in Rects(R) /\ Within(a.x, a.y, a.rect)
                                /\ a.x \in Int /\ a.y \in Int
                                /\ a = Cell(a.rect, a.x, a.y)
         /\ \A r \in Rects(R), x, y \in Int : Within(x, y, r) => Cell(r, x, y) \in Cells(R)
  BY RectType DEF Cells, Cell, Within

LEMMA CellsDistinct ==
  ASSUME NEW R, NEW a \in Cells(R), NEW b \in Cells(R), a.x = b.x, a.y = b.y
  PROVE  a = b
  <1>1. a.rect.y1 = b.rect.y1
    BY CellsAre, RectsDisjoint DEF Within
  <1>2. a.rect = b.rect
    BY <1>1, CellsAre, RectsDisjoint DEF Within
  <1> QED
    BY <1>2, CellsAre

(* The client's order puts no pixel before the one it is the source of.    *)
LEMMA ClientOrder ==
  ASSUME NEW R, NEW a \in Cells(R), NEW c \in Cells(R), delta \in Int \X Int,
         <<c.x, c.y>> = Minus(<<a.x, a.y>>, delta), c # a
  PROVE  ~ClientBefore(c, a)
  <1> DEFINE dx == delta[1]
             dy == delta[2]
  <1>1. /\ dx \in Int /\ dy \in Int /\ a.x \in Int /\ a.y \in Int
        /\ c.x = a.x - dx /\ c.y = a.y - dy
    BY CellsAre DEF Minus
  <1>2. CASE c.rect = a.rect
    <2>1. dy = 0 => dx # 0
      BY <1>1, CellsDistinct
    <2> QED
      BY <1>1, <1>2, <2>1 DEF ClientBefore
  <1>3. CASE c.rect # a.rect
    <2>1. /\ c.rect \in Rects(R) /\ a.rect \in Rects(R)
          /\ Within(c.x, c.y, c.rect) /\ Within(a.x, a.y, a.rect)
      BY CellsAre
    <2>2. CASE c.rect.y1 # a.rect.y1
      <3>1. ~(a.y \in c.rect.y1 .. c.rect.y2) /\ ~(c.y \in a.rect.y1 .. a.rect.y2)
        BY <1>1, <2>1, <2>2, RectsDisjoint DEF Within
      <3>2. dy # 0
        BY <1>1, <2>1, <3>1 DEF Within
      <3>3. dy > 0 => c.rect.y1 < a.rect.y1
        BY <1>1, <2>1, <3>1, RectType DEF Within
      <3>4. dy < 0 => a.rect.y1 < c.rect.y1
        BY <1>1, <2>1, <3>1, RectType DEF Within
      <3> QED
        BY <1>1, <1>3, <2>1, <2>2, <3>2, <3>3, <3>4, RectType DEF ClientBefore, RectBefore
    <2>3. CASE c.rect.y1 = a.rect.y1
      <3>1. ~(a.x \in c.rect.x1 .. c.rect.x2) /\ ~(c.x \in a.rect.x1 .. a.rect.x2)
        BY <1>1, <1>3, <2>1, <2>3, RectsDisjoint DEF Within
      <3>2. dx # 0
        BY <1>1, <2>1, <3>1 DEF Within
      <3>3. dx > 0 => c.rect.x1 < a.rect.x1
        BY <1>1, <2>1, <3>1, RectType DEF Within
      <3>4. dx < 0 => a.rect.x1 < c.rect.x1
        BY <1>1, <2>1, <3>1, RectType DEF Within
      <3> QED
        BY <1>1, <1>3, <2>1, <2>3, <3>2, <3>3, <3>4, RectType DEF ClientBefore, RectBefore
    <2> QED
      BY <2>2, <2>3
  <1> QED
    BY <1>2, <1>3

-----------------------------------------------------------------------------
(* A pixel of the region has been copied when it is in no cell or row that *)
(* remains; it shows its source then, and the others show themselves.      *)
ToCopy(p) == \E a \in clientTodo : p = <<a.x, a.y>>

ClientInv ==
    /\ delta \in Int \X Int
    /\ region \subseteq {p \in Pixels : Minus(p, delta) \in Pixels}
    /\ clientTodo \subseteq Cells(region)
    /\ \A a \in clientTodo, c \in Cells(region) \ clientTodo : ClientBefore(c, a)
    /\ remoteFrameBuffer =
          [p \in Pixels |-> IF p \in region /\ ~ToCopy(p) THEN Minus(p, delta) ELSE p]

LEMMA CellOfPixel ==
  ASSUME region \subseteq Pixels, NEW p \in region
  PROVE  \E a \in Cells(region) : p = <<a.x, a.y>>
  <1>1. PICK r \in Rects(region) : Within(p[1], p[2], r)
    BY RectsCover
  <1>2. p = <<p[1], p[2]>> /\ p[1] \in Int /\ p[2] \in Int
    BY DEF Pixels
  <1>3. Cell(r, p[1], p[2]) \in Cells(region)
    BY <1>1, <1>2, CellsAre
  <1>4. Cell(r, p[1], p[2]).x = p[1] /\ Cell(r, p[1], p[2]).y = p[2]
    BY DEF Cell
  <1> QED
    BY <1>2, <1>3, <1>4

LEMMA PixelOfCell ==
  ASSUME region \subseteq Pixels, NEW a \in Cells(region)
  PROVE  <<a.x, a.y>> \in region /\ <<a.x, a.y>> \in Pixels
  BY CellsAre, RectsInside

LEMMA ClientInit == Init => ClientInv
  <1> SUFFICES ASSUME Init PROVE ClientInv
    OBVIOUS
  <1>1. delta \in Int \X Int /\ region \subseteq {p \in Pixels : Minus(p, delta) \in Pixels}
    BY RegionCopyAssumption DEF Init
  <1>2. \A p \in region : ToCopy(p)
    BY <1>1, CellOfPixel DEF Init, ToCopy
  <1> QED
    BY <1>1, <1>2 DEF Init, ClientInv

LEMMA ClientStep == ClientInv /\ [Next]_vars => ClientInv'
  <1> SUFFICES ASSUME ClientInv, [Next]_vars PROVE ClientInv'
    OBVIOUS
  <1>1. CASE ClientCopyPixel
    <2>1. PICK a \in clientTodo :
            /\ \A b \in clientTodo \ {a} : ClientBefore(a, b)
            /\ clientTodo' = clientTodo \ {a}
            /\ remoteFrameBuffer' = [remoteFrameBuffer EXCEPT ![<<a.x, a.y>>] =
                                       remoteFrameBuffer[Minus(<<a.x, a.y>>, delta)]]
            /\ UNCHANGED <<region, delta>>
      BY <1>1 DEF ClientCopyPixel
    <2> DEFINE t == <<a.x, a.y>>
               q == Minus(t, delta)
    <2>2. region \subseteq Pixels /\ a \in Cells(region)
      BY DEF ClientInv
    <2>3. t \in region /\ t \in Pixels /\ q \in Pixels
      BY <2>2, PixelOfCell DEF ClientInv
    <2>4. remoteFrameBuffer[q] = q
      <3> SUFFICES ASSUME q \in region PROVE ToCopy(q)
        BY <2>3 DEF ClientInv
      <3>1. PICK c \in Cells(region) : q = <<c.x, c.y>>
        BY <2>2, CellOfPixel
      <3>2. CASE c \in clientTodo
        BY <3>1, <3>2 DEF ToCopy
      <3>3. CASE c \notin clientTodo
        BY <2>2, <3>1, <3>3, ClientOrder DEF ClientInv
      <3> QED
        BY <3>2, <3>3
    <2>5. \A p \in Pixels : ToCopy(p)' <=> ToCopy(p) /\ p # t
      <3>1. ASSUME NEW b \in clientTodo, b # a PROVE <<b.x, b.y>> # t
        BY <2>2, <3>1, CellsDistinct DEF ClientInv
      <3> QED
        BY <2>1, <3>1 DEF ToCopy
    <2>6. remoteFrameBuffer' =
            [p \in Pixels |-> IF p \in region' /\ ~ToCopy(p)' THEN Minus(p, delta') ELSE p]
      <3> HIDE DEF q
      <3>1. remoteFrameBuffer' = [p \in Pixels |-> IF p = t THEN q ELSE remoteFrameBuffer[p]]
        BY <2>1, <2>3, <2>4 DEF ClientInv, q
      <3> HIDE DEF t
      <3>2. \A p \in Pixels : remoteFrameBuffer[p] =
               IF p \in region /\ ~ToCopy(p) THEN Minus(p, delta) ELSE p
        BY DEF ClientInv
      <3>3. \A p \in Pixels : (IF p = t THEN q ELSE remoteFrameBuffer[p]) =
               IF p \in region /\ ~ToCopy(p)' THEN Minus(p, delta) ELSE p
        BY <2>3, <2>5, <3>2 DEF q
      <3>4. remoteFrameBuffer' =
              [p \in Pixels |-> IF p \in region /\ ~ToCopy(p)' THEN Minus(p, delta) ELSE p]
        BY <3>1, <3>3, Zenon
      <3> QED
        BY <2>1, <3>4
    <2>7. \A b \in clientTodo', c \in Cells(region') \ clientTodo' : ClientBefore(c, b)'
      BY <2>1 DEF ClientInv, ClientBefore
    <2> QED
      BY <2>1, <2>6, <2>7 DEF ClientInv
  <1>2. CASE ServerCopyRow \/ UNCHANGED vars
    <2>1. UNCHANGED <<region, delta, remoteFrameBuffer, clientTodo>>
      BY <1>2 DEF ServerCopyRow, vars
    <2> QED
      BY <2>1 DEF ClientInv, ToCopy, ClientBefore
  <1> QED
    BY <1>1, <1>2 DEF Next

(* What FramebufferUpdate takes for granted of rfbSendCopyRegion and of    *)
(* CopyRectangleFromRectangle: whatever region is copied wherever, the     *)
(* client's framebuffer is the one a copy of all pixels at once leaves.    *)
THEOREM ClientCopies == Spec => []ClientCopiesAtOnce
  <1>1. ClientInv => ClientCopiesAtOnce
    BY DEF ClientInv, ClientCopiesAtOnce, CopiedAtOnce, ToCopy
  <1> QED
    BY <1>1, ClientInit, ClientStep, PTL DEF Spec

-----------------------------------------------------------------------------
(* The server, when the region is one rectangle: it moves a row at a time, *)
(* and a pixel has been moved when its row has.                            *)
RowToCopy(p) == \E a \in serverTodo : p[2] = a.y

ServerInv ==
    /\ delta \in Int \X Int
    /\ region \subseteq {p \in Pixels : Minus(p, delta) \in Pixels}
    /\ serverTodo \subseteq Rows(region)
    /\ IsRect =>
        /\ \A a \in serverTodo, c \in Rows(region) \ serverTodo : ServerBefore(c, a)
        /\ frameBuffer =
              [p \in Pixels |-> IF p \in region /\ ~RowToCopy(p) THEN Minus(p, delta) ELSE p]

LEMMA RowsAre ==
  ASSUME NEW R
  PROVE  /\ \A a \in Rows(R) : /\ a.rect \in Rects(R) /\ a.y \in a.rect.y1 .. a.rect.y2
                                /\ a.y \in Int /\ a = [rect |-> a.rect, y |-> a.y]
         /\ \A r \in Rects(R), y \in Int :
               y \in r.y1 .. r.y2 => [rect |-> r, y |-> y] \in Rows(R)
  BY RectType DEF Rows

LEMMA RowOfPixel ==
  ASSUME region \subseteq Pixels, NEW p \in region
  PROVE  \E a \in Rows(region) : p[2] = a.y
  <1>1. PICK r \in Rects(region) : Within(p[1], p[2], r)
    BY RectsCover
  <1>2. p[2] \in Int
    BY DEF Pixels
  <1>3. [rect |-> r, y |-> p[2]] \in Rows(region)
    BY <1>1, <1>2, RowsAre DEF Within
  <1> QED
    BY <1>3

LEMMA ServerInit == Init => ServerInv
  <1> SUFFICES ASSUME Init PROVE ServerInv
    OBVIOUS
  <1>1. delta \in Int \X Int /\ region \subseteq {p \in Pixels : Minus(p, delta) \in Pixels}
    BY RegionCopyAssumption DEF Init
  <1>2. \A p \in region : RowToCopy(p)
    BY <1>1, RowOfPixel DEF Init, RowToCopy
  <1> QED
    BY <1>1, <1>2 DEF Init, ServerInv

LEMMA ServerStep == ServerInv /\ [Next]_vars => ServerInv'
  <1> SUFFICES ASSUME ServerInv, [Next]_vars PROVE ServerInv'
    OBVIOUS
  <1>1. CASE ServerCopyRow
    <2>1. PICK a \in serverTodo :
            /\ \A b \in serverTodo \ {a} : ServerBefore(a, b)
            /\ serverTodo' = serverTodo \ {a}
            /\ frameBuffer' = [p \in Pixels |->
                   IF p[2] = a.y /\ p[1] \in a.rect.x1 .. a.rect.x2
                   THEN frameBuffer[Minus(p, delta)] ELSE frameBuffer[p]]
            /\ UNCHANGED <<region, delta>>
      BY <1>1 DEF ServerCopyRow
    <2>2. IsRect' <=> IsRect
      BY <2>1 DEF IsRect
    <2> SUFFICES ASSUME IsRect
                 PROVE  /\ \A b \in serverTodo', c \in Rows(region') \ serverTodo' :
                             ServerBefore(c, b)'
                        /\ frameBuffer' = [p \in Pixels |->
                             IF p \in region' /\ ~RowToCopy(p)' THEN Minus(p, delta') ELSE p]
      BY <2>1, <2>2 DEF ServerInv
    <2>3. PICK r \in Rects(region) : Rects(region) = {r}
      BY DEF IsRect
    <2>4. /\ a \in Rows(region) /\ a.rect = r /\ a.y \in r.y1 .. r.y2
          /\ a.y \in Int /\ delta[1] \in Int /\ delta[2] \in Int /\ region \subseteq Pixels
      BY <2>3, RowsAre DEF ServerInv
    <2>5. \A p \in Pixels : p \in region <=> Within(p[1], p[2], r)
      <3> TAKE p \in Pixels
      <3>1. p = <<p[1], p[2]>> /\ p[1] \in Int /\ p[2] \in Int
        BY DEF Pixels
      <3> QED
        BY <2>3, <2>4, <3>1, RectsCover, RectsInside
    <2>6. \A b, c \in Rows(region) : b.y = c.y => b = c
      BY <2>3, RowsAre
    <2>7. ASSUME NEW p \in region, p[2] = a.y
          PROVE  Minus(p, delta) \in Pixels /\ frameBuffer[Minus(p, delta)] = Minus(p, delta)
      <3> DEFINE q == Minus(p, delta)
      <3>1. q \in Pixels /\ q[2] = a.y - delta[2] /\ q[2] \in Int
        BY <2>4, <2>7 DEF ServerInv, Minus
      <3> HIDE DEF q
      <3>2. ASSUME q \in region PROVE RowToCopy(q)
        <4>1. PICK c \in Rows(region) : q[2] = c.y
          BY <2>4, <3>2, RowOfPixel
        <4>2. CASE c \in serverTodo
          BY <4>1, <4>2 DEF RowToCopy
        <4>3. CASE c \notin serverTodo
          <5>1. ServerBefore(c, a)
            BY <4>3 DEF ServerInv
          <5>2. c.rect = a.rect /\ c.y = a.y - delta[2] /\ c.y \in Int
            BY <2>3, <2>4, <3>1, <4>1, RowsAre
          <5>3. c # a
            BY <4>3
          <5>4. delta[2] # 0
            BY <2>4, <2>6, <5>2, <5>3
          <5> QED
            BY <2>4, <5>1, <5>2, <5>4 DEF ServerBefore
        <4> QED
          BY <4>2, <4>3
      <3>3. frameBuffer[q] = IF q \in region /\ ~RowToCopy(q) THEN Minus(q, delta) ELSE q
        BY <3>1 DEF ServerInv
      <3> QED
        BY <3>1, <3>2, <3>3 DEF q
    <2>8. \A p \in Pixels : RowToCopy(p)' <=> RowToCopy(p) /\ p[2] # a.y
      <3>1. \A b \in serverTodo : b.y = a.y => b = a
        BY <2>4, <2>6 DEF ServerInv
      <3> QED
        BY <2>1, <3>1 DEF RowToCopy
    <2>9. \A p \in Pixels : (p[2] = a.y /\ p[1] \in a.rect.x1 .. a.rect.x2)
                               <=> (p \in region /\ p[2] = a.y)
      BY <2>4, <2>5 DEF Within
    <2>10. \A p \in Pixels :
             (IF p[2] = a.y /\ p[1] \in a.rect.x1 .. a.rect.x2
              THEN frameBuffer[Minus(p, delta)] ELSE frameBuffer[p])
             = IF p \in region /\ ~RowToCopy(p)' THEN Minus(p, delta) ELSE p
      <3> TAKE p \in Pixels
      <3>1. frameBuffer[p] = IF p \in region /\ ~RowToCopy(p) THEN Minus(p, delta) ELSE p
        BY DEF ServerInv
      <3>2. CASE p \in region /\ p[2] = a.y
        BY <2>7, <2>8, <2>9, <3>2
      <3>3. CASE ~(p \in region /\ p[2] = a.y)
        BY <2>8, <2>9, <3>1, <3>3
      <3> QED
        BY <3>2, <3>3
    <2>11. frameBuffer' = [p \in Pixels |->
             IF p \in region' /\ ~RowToCopy(p)' THEN Minus(p, delta') ELSE p]
      <3>1. frameBuffer' = [p \in Pixels |->
              IF p \in region /\ ~RowToCopy(p)' THEN Minus(p, delta) ELSE p]
        BY <2>1, <2>10, Zenon
      <3> QED
        BY <2>1, <3>1
    <2>12. \A b \in serverTodo', c \in Rows(region') \ serverTodo' : ServerBefore(c, b)'
      BY <2>1 DEF ServerInv, ServerBefore
    <2> QED
      BY <2>11, <2>12
  <1>2. CASE ClientCopyPixel \/ UNCHANGED vars
    <2>1. UNCHANGED <<region, delta, frameBuffer, serverTodo>>
      BY <1>2 DEF ClientCopyPixel, vars
    <2> QED
      BY <2>1 DEF ServerInv, RowToCopy, ServerBefore, IsRect
  <1> QED
    BY <1>1, <1>2 DEF Next

(* What FramebufferUpdate takes for granted of rfbDoCopyRect: one          *)
(* rectangle, moved row by row over itself, moves as if at once.           *)
THEOREM ServerCopies == Spec => []ServerCopiesRectAtOnce
  <1>1. ServerInv => ServerCopiesRectAtOnce
    BY DEF ServerInv, ServerCopiesRectAtOnce, CopiedAtOnce, RowToCopy
  <1> QED
    BY <1>1, ServerInit, ServerStep, PTL DEF Spec

(*------------------------------ Places in a tile --------------------------*)

LEMMA Place ==
  ASSUME NEW w \in Nat \ {0}, NEW h \in Nat \ {0}, NEW k \in 1 .. w * h
  PROVE  /\ X(k, w) \in 0 .. w - 1 /\ Y(k, w) \in 0 .. h - 1
         /\ Y(k, w) * w + X(k, w) + 1 = k
  <1> DEFINE x == X(k, w)
             y == Y(k, w)
  <1>1. w * h \in Nat
    OBVIOUS
  <1>2. k - 1 \in Nat
    OBVIOUS
  <1>3. x \in 0 .. w - 1 /\ y \in Nat /\ k - 1 = w * y + x
    BY <1>2 DEF X, Y
  <1> HIDE DEF x, y
  <1>4. y < h
    <2> SUFFICES ASSUME h <= y PROVE FALSE
      BY <1>3
    <2>1. w * h <= w * y
      BY <1>3
    <2> QED BY <1>1, <1>3, <2>1
  <1>5. w * y = y * w
    BY <1>3
  <1> QED BY <1>3, <1>4, <1>5 DEF x, y

(* The colour of a place is that of its pixel.                             *)
LEMMA Placed ==
  ASSUME NEW w \in Nat \ {0}, NEW h \in Nat \ {0}, NEW k \in 1 .. w * h, NEW data
  PROVE  At(data, w, X(k, w), Y(k, w)) = data[k]
  BY Place DEF At

(* A set of numbers from y on that is closed downwards is an interval.     *)
LEMMA Downwards ==
  ASSUME NEW y \in Nat, NEW m \in Nat, NEW S, S \subseteq y .. m, y \in S,
         \A j \in S : y .. j \subseteq S
  PROVE  Cardinality(S) \in Nat \ {0} /\ S = y .. y + Cardinality(S) - 1
  <1>1. S \subseteq 0 .. m
    OBVIOUS
  <1>2. PICK g \in S : \A j \in S : j <= g
    BY <1>1, GreatestNatural
  <1>3. g \in y .. m /\ y .. g \subseteq S
    BY <1>2
  <1>4. S = y .. g
    <2>1. \A j \in S : j \in y .. g
      BY <1>2, <1>3
    <2> QED BY <1>3, <2>1
  <1>5. Cardinality(y .. g) = g - y + 1
    BY <1>3, FS_Interval
  <1> QED BY <1>3, <1>4, <1>5

(*---------------------------- The subrectangles ---------------------------*)

InTile(j, w, r) == X(j, w) \in r.x .. r.x + r.w - 1 /\ Y(j, w) \in r.y .. r.y + r.h - 1

(* The largest run from x on.                                              *)
LEMMA Longest ==
  ASSUME NEW n \in Nat \ {0}, NEW S, S \subseteq 1 .. n, 1 \in S
  PROVE  Max(S) \in S /\ Max(S) \in 1 .. n
  <1>1. S \subseteq 0 .. n
    OBVIOUS
  <1>2. PICK g \in S : \A j \in S : j <= g
    BY <1>1, GreatestNatural
  <1>3. \A j \in S : g >= j
    BY <1>1, <1>2
  <1> QED BY <1>3 DEF Max

(* Biggest is a rectangle of the one colour, with its corner at k.         *)
LEMMA BiggestIsOneColour ==
  ASSUME NEW w \in Nat \ {0}, NEW h \in Nat \ {0}, NEW data, NEW k \in 1 .. w * h,
         NEW r, r = Biggest(data, w, h, k)
  PROVE  /\ r \in Boxes /\ InTile(k, w, r)
         /\ \A j \in 1 .. w * h : InTile(j, w, r) => data[j] = data[k]
  <1> DEFINE x == X(k, w)
             y == Y(k, w)
             colour == data[k]
             rows == {j \in y .. h - 1 : \A i \in y .. j : At(data, w, x, i) = colour}
             Run(j) == {n \in 1 .. w - x : \A i \in x .. x + n - 1 : At(data, w, i, j) = colour}
             width == [j \in rows |-> Max(Run(j))]
             lines == {j \in rows : \A i \in y .. j : width[i] >= width[y]}
             wide == [x |-> x, y |-> y, w |-> width[y], h |-> Cardinality(lines)]
             tall == [x |-> x, y |-> y, w |-> Min({width[j] : j \in rows}), h |-> Cardinality(rows)]
  <1>1. r = wide \/ r = tall
    BY DEF Biggest
  <1>2. x \in 0 .. w - 1 /\ y \in 0 .. h - 1 /\ At(data, w, x, y) = colour
    BY Place, Placed
  <1>10. \A j \in 1 .. w * h : At(data, w, X(j, w), Y(j, w)) = data[j] /\ X(j, w) \in Nat
         /\ Y(j, w) \in Nat
    <2> SUFFICES ASSUME NEW j \in 1 .. w * h
                 PROVE  At(data, w, X(j, w), Y(j, w)) = data[j] /\ X(j, w) \in Nat
                        /\ Y(j, w) \in Nat
      OBVIOUS
    <2>1. X(j, w) \in 0 .. w - 1 /\ Y(j, w) \in 0 .. h - 1
      BY Place
    <2>2. At(data, w, X(j, w), Y(j, w)) = data[j]
      BY Placed
    <2> QED BY <2>1, <2>2
  <1> HIDE DEF x, y, colour
  <1>3. /\ y \in rows /\ \A j \in rows : y .. j \subseteq rows /\ j \in Nat
        /\ rows \subseteq y .. h - 1
    BY <1>2
  <1>4. /\ Cardinality(rows) \in Nat \ {0}
        /\ rows = y .. y + Cardinality(rows) - 1
    <2>1. y \in Nat /\ h - 1 \in Nat
      BY <1>2
    <2> HIDE DEF rows
    <2> QED BY <1>3, <2>1, Downwards
  <1>5. \A j \in rows : width[j] \in Run(j) /\ width[j] \in 1 .. w - x
    <2> SUFFICES ASSUME NEW j \in rows PROVE Max(Run(j)) \in Run(j) /\ Max(Run(j)) \in 1 .. w - x
      OBVIOUS
    <2>1. At(data, w, x, j) = colour
      BY <1>2
    <2>2. 1 \in Run(j) /\ Run(j) \subseteq 1 .. w - x /\ w - x \in Nat \ {0}
      BY <1>2, <2>1
    <2> HIDE DEF Run
    <2> QED BY <2>2, Longest
  <1>6. \A j \in rows, i \in Nat : i \in x .. x + width[j] - 1 => At(data, w, i, j) = colour
    <2> HIDE DEF width, rows
    <2> QED BY <1>5
  <1> HIDE DEF rows, width, Run
  <1>7. ASSUME NEW b \in Boxes, b.x = x, b.y = y, b.w >= 1, b.h >= 1,
               \A j \in y .. y + b.h - 1 : j \in rows /\ b.w <= width[j]
        PROVE  /\ InTile(k, w, b)
               /\ \A j \in 1 .. w * h : InTile(j, w, b) => data[j] = colour
    <2>1. InTile(k, w, b)
      BY <1>2, <1>7 DEF InTile, Boxes, x, y
    <2>2. ASSUME NEW j \in 1 .. w * h, InTile(j, w, b) PROVE data[j] = colour
      <3> DEFINE i == X(j, w)
                 l == Y(j, w)
      <3>1. i \in x .. x + b.w - 1 /\ l \in y .. y + b.h - 1
        BY <1>7, <2>2 DEF InTile
      <3>2. At(data, w, i, l) = data[j] /\ i \in Nat /\ l \in Nat
        BY <1>10
      <3> HIDE DEF i, l
      <3>3. l \in rows /\ b.w <= width[l] /\ width[l] \in Nat
        BY <1>2, <1>5, <1>7, <3>1
      <3>4. i \in x .. x + width[l] - 1
        BY <1>2, <3>1, <3>2, <3>3 DEF Boxes
      <3> QED BY <1>6, <3>2, <3>3, <3>4
    <2> QED BY <2>1, <2>2
  <1>8. CASE r = wide
    <2>1. /\ lines \subseteq y .. h - 1 /\ y \in lines /\ \A j \in lines : y .. j \subseteq lines
      <3>1. width[y] \in Nat
        BY <1>3, <1>5, <1>2
      <3>2. y \in lines
        BY <1>2, <1>3, <3>1
      <3>3. ASSUME NEW j \in lines, NEW i \in y .. j PROVE i \in lines
        BY <1>2, <1>3
      <3> QED BY <1>3, <3>2, <3>3
    <2>2. /\ Cardinality(lines) \in Nat \ {0}
          /\ lines = y .. y + Cardinality(lines) - 1
      <3>1. y \in Nat /\ h - 1 \in Nat
        BY <1>2
      <3> HIDE DEF lines
      <3> QED BY <2>1, <3>1, Downwards
    <2>3. \A j \in lines : j \in rows /\ width[y] <= width[j]
      BY <1>2, <1>3, <1>5
    <2> HIDE DEF lines
    <2>4. r \in Boxes /\ r.x = x /\ r.y = y /\ r.w = width[y] /\ r.h = Cardinality(lines)
      BY <1>2, <1>3, <1>5, <1>8, <2>2 DEF Boxes
    <2>5. r.w >= 1 /\ r.h >= 1
      BY <1>2, <1>3, <1>5, <2>2, <2>4
    <2>6. \A j \in y .. y + r.h - 1 : j \in rows /\ r.w <= width[j]
      BY <2>2, <2>3, <2>4
    <2> QED BY <1>7, <2>4, <2>5, <2>6 DEF colour
  <1>9. CASE r = tall
    <2> DEFINE widths == {width[j] : j \in rows}
    <2>1. widths \subseteq Nat \ {0} /\ widths # {}
      BY <1>2, <1>3, <1>5
    <2>2. \A v \in rows : width[v] \in widths
      OBVIOUS
    <2> HIDE DEF widths
    <2>3. Min(widths) \in widths /\ \A v \in widths : Min(widths) <= v
      <3>1. PICK g \in widths : \A v \in widths : g <= v
        BY <2>1, LeastNatural
      <3> QED BY <3>1 DEF Min
    <2>4. r \in Boxes /\ r.x = x /\ r.y = y /\ r.w = Min(widths) /\ r.h = Cardinality(rows)
      BY <1>2, <1>4, <1>9, <2>1, <2>3 DEF Boxes, widths
    <2>5. r.w >= 1 /\ r.h >= 1
      <3>1. Min(widths) \in Nat \ {0}
        BY <2>1, <2>3
      <3> QED BY <1>4, <2>4, <3>1
    <2>6. \A j \in y .. y + r.h - 1 : j \in rows /\ r.w <= width[j]
      BY <1>4, <2>2, <2>3, <2>4
    <2> QED BY <1>7, <2>4, <2>5, <2>6 DEF colour
  <1> QED BY <1>1, <1>8, <1>9

(* A tile of w by h pixels.                                                *)
IsTile(t) == t.w \in Nat \ {0} /\ t.h \in Nat \ {0} /\ t.data \in [1 .. t.w * t.h -> Colours]

LEMMA TilesAre == ASSUME NEW t \in Tile PROVE IsTile(t) /\ t.w * t.h \in Nat \ {0}
  <1>1. PICK s \in Sizes : t \in [w : {s[1]}, h : {s[2]}, data : [1 .. s[1] * s[2] -> Colours]]
    BY DEF Tile
  <1>2. s[1] \in Nat \ {0} /\ s[2] \in Nat \ {0}
    BY CodecAssumption
  <1>3. t.w = s[1] /\ t.h = s[2] /\ t.data \in [1 .. s[1] * s[2] -> Colours]
    BY <1>1
  <1>4. \A a, b \in Nat \ {0} : a * b \in Nat \ {0}
    OBVIOUS
  <1> QED BY <1>2, <1>3, <1>4 DEF IsTile

Encoders(n) == [data : [1 .. n -> Colours], len : Nat, rects : Seq(Boxes), colours : Seq(Colours),
                fits : BOOLEAN]

(* What subrectEncode has done after k pixels: the subrectangles are of    *)
(* one colour each, and what they cover is background in its copy of the   *)
(* tile.                                                                   *)
CoverOneColour(t, bg, e) ==
    \A i \in DOMAIN e.rects :
       /\ e.colours[i] # bg
       /\ \E j \in DOMAIN t.data : InTile(j, t.w, e.rects[i])
       /\ \A j \in DOMAIN t.data : InTile(j, t.w, e.rects[i]) => t.data[j] = e.colours[i]
Covered(t, e, j) == \E i \in DOMAIN e.rects : InTile(j, t.w, e.rects[i])
Encoded(t, bg, len, e, k) ==
    /\ Len(e.colours) = Len(e.rects)
    /\ e.fits \/ \E j \in DOMAIN t.data : t.data[j] # bg
    /\ e.len = len \/ e.len <= t.w * t.h * pixelSize
    /\ CoverOneColour(t, bg, e)
    /\ \A j \in DOMAIN t.data : e.data[j] = IF Covered(t, e, j) THEN bg ELSE t.data[j]
    /\ e.fits => \A j \in 1 .. k : e.data[j] = bg
    /\ Len(e.rects) <= k
    /\ (\E p \in 1 .. k : t.data[p] = bg) => Len(e.rects) < k

LEMMA Appended ==
  ASSUME NEW S, NEW s, s \in Seq(S), NEW a \in S, NEW u, u = Append(s, a)
  PROVE  /\ u \in Seq(S) /\ Len(s) \in Nat /\ Len(u) = Len(s) + 1
         /\ DOMAIN u = 1 .. Len(s) + 1 /\ DOMAIN s = 1 .. Len(s)
         /\ u[Len(s) + 1] = a /\ \A i \in 1 .. Len(s) : u[i] = s[i]
  <1>1. /\ u \in Seq(S) /\ Len(u) = Len(s) + 1 /\ u[Len(s) + 1] = a
        /\ \A i \in 1 .. Len(s) : u[i] = s[i]
    BY AppendProperties
  <1>2. Len(s) \in Nat /\ DOMAIN s = 1 .. Len(s) /\ DOMAIN u = 1 .. Len(u)
    BY <1>1
  <1> QED BY <1>1, <1>2

(* A pixel that still differs from the background starts a subrectangle.   *)
LEMMA PixelAdded ==
  ASSUME NEW t, IsTile(t), NEW bg \in Colours, NEW len \in Nat, NEW size \in Nat, pixelSize \in Nat,
         NEW e \in Encoders(t.w * t.h), NEW k \in 1 .. t.w * t.h, NEW f,
         f = AddSubrect(t, bg, size, e, k)
  PROVE  /\ f \in Encoders(t.w * t.h)
         /\ Encoded(t, bg, len, e, k - 1) => Encoded(t, bg, len, f, k)
  <1> DEFINE n == t.w * t.h
             r == Biggest(e.data, t.w, t.h, k)
             room == n * pixelSize
  <1>1. /\ t.w \in Nat \ {0} /\ t.h \in Nat \ {0} /\ n \in Nat /\ DOMAIN t.data = 1 .. n
        /\ room \in Nat /\ k \in 1 .. n
    <2>1. \A a, b \in Nat : a * b \in Nat
      OBVIOUS
    <2> QED BY <2>1 DEF IsTile
  <1>2. /\ e.data \in [1 .. n -> Colours] /\ e.len \in Nat /\ e.rects \in Seq(Boxes)
        /\ e.colours \in Seq(Colours) /\ e.fits \in BOOLEAN
    BY DEF Encoders
  <1>3. CASE ~e.fits \/ e.data[k] = bg
    <2>1. f = e
      BY <1>3 DEF AddSubrect
    <2>2. ASSUME Encoded(t, bg, len, e, k - 1) PROVE Encoded(t, bg, len, e, k)
      <3> HIDE DEF n, r, room
      <3>1. Len(e.rects) \in Nat /\ Len(e.rects) < k
        BY <1>1, <1>2, <2>2 DEF Encoded
      <3>2. e.fits => \A j \in 1 .. k : e.data[j] = bg
        <4>1. \A j \in 1 .. k : j \in 1 .. k - 1 \/ j = k
          BY <1>1
        <4> QED BY <1>3, <2>2, <4>1 DEF Encoded
      <3>3. Len(e.rects) <= k
        BY <1>1, <3>1
      <3> QED BY <2>2, <3>1, <3>2, <3>3 DEF Encoded
    <2> QED BY <2>1, <2>2
  <1>4. CASE ~(~e.fits \/ e.data[k] = bg) /\ e.len + size > room
    <2>1. f = [e EXCEPT !.fits = FALSE]
      BY <1>4 DEF AddSubrect
    <2>2. /\ f.data = e.data /\ f.len = e.len /\ f.rects = e.rects /\ f.colours = e.colours
          /\ f.fits = FALSE /\ f \in Encoders(n)
      BY <2>1 DEF Encoders
    <2>3. ASSUME Encoded(t, bg, len, e, k - 1) PROVE Encoded(t, bg, len, f, k)
      <3> HIDE DEF n, r, room
      <3>1. Len(e.rects) \in Nat /\ Len(e.rects) <= k - 1
        BY <1>2, <2>3 DEF Encoded
      <3>2. Len(e.rects) < k
        BY <1>1, <3>1
      <3>3. e.data[k] # bg /\ e.data[k] = IF Covered(t, e, k) THEN bg ELSE t.data[k]
        BY <1>1, <1>4, <2>3 DEF Encoded
      <3>4. CoverOneColour(t, bg, f) /\ \A j : Covered(t, f, j) <=> Covered(t, e, j)
        BY <2>2, <2>3 DEF Encoded, CoverOneColour, Covered
      <3>5. \E j \in DOMAIN t.data : t.data[j] # bg
        BY <1>1, <3>3
      <3> QED BY <1>1, <2>2, <2>3, <3>1, <3>2, <3>4, <3>5 DEF Encoded
    <2> QED BY <2>2, <2>3
  <1>5. CASE ~(~e.fits \/ e.data[k] = bg) /\ ~(e.len + size > room)
    <2>1. f = [e EXCEPT !.data = Fill(@, t.w, r, bg), !.len = @ + size,
                        !.rects = Append(@, r), !.colours = Append(@, e.data[k])]
      BY <1>5 DEF AddSubrect
    <2>2. /\ r \in Boxes /\ InTile(k, t.w, r)
          /\ \A j \in 1 .. n : InTile(j, t.w, r) => e.data[j] = e.data[k]
      BY <1>1, BiggestIsOneColour
    <2>3. e.data[k] \in Colours /\ e.data[k] # bg /\ e.fits
      BY <1>1, <1>2, <1>5
    <2> HIDE DEF r
    <2>4. /\ f.data = Fill(e.data, t.w, r, bg) /\ f.len = e.len + size
          /\ f.rects = Append(e.rects, r) /\ f.colours = Append(e.colours, e.data[k])
          /\ f.fits = TRUE
      BY <2>1, <2>3 DEF Encoders
    <2>5. /\ f.data \in [1 .. n -> Colours]
          /\ \A j \in 1 .. n : f.data[j] = IF InTile(j, t.w, r) THEN bg ELSE e.data[j]
      <3>1. DOMAIN e.data = 1 .. n
        BY <1>2
      <3>2. f.data = [j \in 1 .. n |-> IF InTile(j, t.w, r) THEN bg ELSE e.data[j]]
        BY <2>4, <3>1 DEF Fill, InTile
      <3> HIDE DEF n
      <3>3. \A j \in 1 .. n : e.data[j] \in Colours
        BY <1>2
      <3> QED BY <3>2, <3>3
    <2> DEFINE m == Len(e.rects)
    <2>6. /\ f.rects \in Seq(Boxes) /\ Len(f.rects) = m + 1 /\ DOMAIN f.rects = 1 .. m + 1
          /\ DOMAIN e.rects = 1 .. m /\ m \in Nat /\ f.rects[m + 1] = r
          /\ \A i \in 1 .. m : f.rects[i] = e.rects[i]
      BY <1>2, <2>2, <2>4, Appended
    <2>7. /\ f.colours \in Seq(Colours) /\ Len(f.colours) = Len(e.colours) + 1
          /\ f.colours[Len(e.colours) + 1] = e.data[k]
          /\ \A i \in 1 .. Len(e.colours) : f.colours[i] = e.colours[i]
      BY <1>2, <2>3, <2>4, Appended
    <2>8. f \in Encoders(n)
      <3>1. f.len \in Nat
        BY <1>2, <2>4
      <3>2. f = [data |-> f.data, len |-> f.len, rects |-> f.rects, colours |-> f.colours,
                 fits |-> f.fits]
        BY <2>1 DEF Encoders
      <3> HIDE DEF n
      <3> QED BY <2>4, <2>5, <2>6, <2>7, <3>1, <3>2 DEF Encoders
    <2> HIDE DEF n, room, m
    <2>9. ASSUME Encoded(t, bg, len, e, k - 1) PROVE Encoded(t, bg, len, f, k)
      <3>1. /\ Len(e.colours) = m /\ m <= k - 1 /\ CoverOneColour(t, bg, e)
            /\ \A j \in 1 .. n : e.data[j] = IF Covered(t, e, j) THEN bg ELSE t.data[j]
            /\ \A j \in 1 .. k - 1 : e.data[j] = bg
            /\ (\E p \in 1 .. k - 1 : t.data[p] = bg) => m < k - 1
        BY <1>1, <2>3, <2>9 DEF Encoded, m
      <3>2. \A j \in 1 .. n : Covered(t, f, j) <=> Covered(t, e, j) \/ InTile(j, t.w, r)
        <4>1. \A i \in 1 .. m : i \in 1 .. m + 1
          BY <2>6
        <4>2. \A i \in 1 .. m + 1 : i \in 1 .. m \/ i = m + 1
          BY <2>6
        <4>3. m + 1 \in 1 .. m + 1
          BY <2>6
        <4> QED BY <2>6, <4>1, <4>2, <4>3 DEF Covered
      <3>3. \A j \in 1 .. n : InTile(j, t.w, r) => t.data[j] = e.data[k]
        BY <2>2, <2>3, <3>1
      <3>4. \A j \in 1 .. n : f.data[j] = IF Covered(t, f, j) THEN bg ELSE t.data[j]
        BY <2>5, <3>1, <3>2
      <3>5. CoverOneColour(t, bg, f)
        <4> SUFFICES ASSUME NEW i \in 1 .. m + 1
                     PROVE  /\ f.colours[i] # bg
                            /\ \E j \in 1 .. n : InTile(j, t.w, f.rects[i])
                            /\ \A j \in 1 .. n : InTile(j, t.w, f.rects[i])
                               => t.data[j] = f.colours[i]
          BY <1>1, <2>6 DEF CoverOneColour
        <4>1. CASE i = m + 1
          <5>1. f.rects[i] = r /\ f.colours[i] = e.data[k]
            BY <2>6, <2>7, <3>1, <4>1
          <5> QED BY <1>1, <2>2, <2>3, <3>3, <5>1
        <4>2. CASE i # m + 1
          <5>1. i \in 1 .. m
            BY <2>6, <4>2
          <5>2. f.rects[i] = e.rects[i] /\ f.colours[i] = e.colours[i] /\ i \in DOMAIN e.rects
            BY <2>6, <2>7, <3>1, <5>1
          <5> QED BY <1>1, <3>1, <5>2 DEF CoverOneColour
        <4> QED BY <4>1, <4>2
      <3>6. \A j \in 1 .. k : f.data[j] = bg
        <4>1. \A j \in 1 .. k : j \in 1 .. n /\ (j \in 1 .. k - 1 \/ j = k)
          BY <1>1
        <4> QED BY <2>2, <2>5, <3>1, <4>1
      <3>7. t.data[k] # bg
        BY <1>1, <2>3, <3>1
      <3>8. Len(f.rects) <= k /\ Len(f.colours) = Len(f.rects)
        BY <1>1, <2>6, <2>7, <3>1
      <3>9. ASSUME NEW p \in 1 .. k, t.data[p] = bg PROVE Len(f.rects) < k
        <4>1. p \in 1 .. k - 1
          BY <1>1, <3>7, <3>9
        <4>2. m < k - 1
          BY <3>1, <3>9, <4>1
        <4> QED BY <1>1, <2>6, <4>2
      <3>10. f.len <= room
        BY <1>1, <1>2, <1>5, <2>4
      <3> QED BY <1>1, <2>4, <3>4, <3>5, <3>6, <3>8, <3>9, <3>10 DEF Encoded, room, n
    <2> QED BY <2>8, <2>9 DEF n
  <1> QED BY <1>3, <1>4, <1>5

(* All the pixels have been looked at when subrectEncode ends.             *)
LEMMA SubrectsEncoded ==
  ASSUME NEW t, IsTile(t), NEW bg \in Colours, NEW len \in Nat, NEW size \in Nat, pixelSize \in Nat,
         NEW e, e = SubrectEncode(t, bg, len, size)
  PROVE  e \in Encoders(t.w * t.h) /\ Encoded(t, bg, len, e, t.w * t.h)
  <1> DEFINE n == t.w * t.h
             base == [data |-> t.data, len |-> len, rects |-> <<>>, colours |-> <<>>, fits |-> TRUE]
             S == Encoders(n)
             step == [f \in S |-> [k \in 1 .. n |-> AddSubrect(t, bg, size, f, k)]]
             R(f) == f = [k \in 0 .. n |-> IF k = 0 THEN base
                     ELSE AddSubrect(t, bg, size, f[k - 1], k)]
             after == CHOOSE f : R(f)
  <1>1. n \in Nat /\ t.data \in [1 .. n -> Colours] /\ DOMAIN t.data = 1 .. n
    <2>1. \A a, b \in Nat : a * b \in Nat
      OBVIOUS
    <2> QED BY <2>1 DEF IsTile
  <1>2. e = after[n]
    BY DEF SubrectEncode
  <1>3. base \in S /\ Encoded(t, bg, len, base, 0)
    <2>1. base \in S
      BY <1>1 DEF Encoders
    <2>2. CoverOneColour(t, bg, base) /\ \A j : ~Covered(t, base, j)
      BY DEF CoverOneColour, Covered
    <2>3. Len(base.colours) = 0 /\ Len(base.rects) = 0 /\ base.fits /\ base.len = len
      OBVIOUS
    <2>4. \A j \in DOMAIN t.data : base.data[j] = t.data[j]
      OBVIOUS
    <2> HIDE DEF base
    <2> QED BY <2>1, <2>2, <2>3, <2>4 DEF Encoded
  <1> HIDE DEF n, base
  <1>4. \A f \in S, k \in 1 .. n : AddSubrect(t, bg, size, f, k) \in S
    BY PixelAdded DEF n
  <1> HIDE DEF S
  <1>5. step \in Steps(S, n) /\ \A f \in S, k \in 1 .. n :
          step[f][k] = AddSubrect(t, bg, size, f, k)
    BY <1>4 DEF Steps
  <1> HIDE DEF step
  <1>6. PICK f \in [0 .. n -> S] : f[0] = base /\ \A k \in 1 .. n : f[k] = step[f[k - 1]][k]
    <2>1. \E f : Iterated(f, S, n, base, step)
      BY <1>1, <1>3, <1>5, Iterates
    <2> QED BY <2>1 DEF Iterated
  <1>7. R(f)
    <2>1. ASSUME NEW k \in 1 .. n PROVE f[k] = AddSubrect(t, bg, size, f[k - 1], k)
      <3>1. f[k - 1] \in S
        BY <1>1, <1>6
      <3> QED BY <1>5, <1>6, <3>1
    <2>2. \A k \in 0 .. n : f[k] = IF k = 0 THEN base ELSE AddSubrect(t, bg, size, f[k - 1], k)
      BY <1>1, <1>6, <2>1
    <2> QED BY <1>6, <2>2
  <1>8. R(after)
    <2> HIDE DEF R
    <2> QED BY <1>7
  <1> HIDE DEF after
  <1>9. after[0] = base /\ \A k \in 1 .. n : after[k] = AddSubrect(t, bg, size, after[k - 1], k)
    BY <1>1, <1>8
  <1> DEFINE N == {k \in 0 .. n : after[k] \in S /\ Encoded(t, bg, len, after[k], k)}
  <1>10. 0 \in N
    BY <1>1, <1>3, <1>9
  <1>11. ASSUME NEW k \in 1 .. n, k - 1 \in N PROVE k \in N
    <2> DEFINE d == after[k - 1]
    <2>1. d \in S /\ Encoded(t, bg, len, d, k - 1) /\ after[k] = AddSubrect(t, bg, size, d, k)
      BY <1>9, <1>11
    <2> HIDE DEF d
    <2>2. after[k] \in S /\ Encoded(t, bg, len, after[k], k)
      BY <2>1, PixelAdded DEF S, n
    <2> QED BY <2>2
  <1> HIDE DEF N
  <1>12. n \in N
    <2>1. \A k \in 1 .. n : k - 1 \in N => k \in N
      BY <1>11
    <2>2. \A k \in 0 .. n : k \in N
      BY <1>1, <1>10, <2>1, UpTo
    <2> QED BY <1>1, <2>2
  <1> QED BY <1>2, <1>12 DEF N, S, n

(*------------------------------- The painting -----------------------------*)

OnTile(d, n) == d = [j \in 1 .. n |-> d[j]]
ColourOf(msg, known, i) == IF msg.colours = <<>> THEN known.fg ELSE msg.colours[i]

(* What is painted at a pixel: the background, or the colour on which all  *)
(* the subrectangles over it agree.                                        *)
PaintedAs(msg, w, n, known, p) ==
    /\ OnTile(p, n)
    /\ \A j \in 1 .. n : \A v :
         (\A i \in 1 .. Len(msg.rects) : InTile(j, w, msg.rects[i]) => ColourOf(msg, known, i) = v)
            => p[j] = IF \E i \in 1 .. Len(msg.rects) : InTile(j, w, msg.rects[i]) THEN v
                      ELSE known.bg

LEMMA Painting ==
  ASSUME NEW msg, NEW w, NEW h, NEW known, NEW n, n = w * h, NEW m \in Nat, m = Len(msg.rects),
         NEW p, p = Paint(msg, w, h, known)
  PROVE  PaintedAs(msg, w, n, known, p)
  <1> DEFINE base == [k \in 1 .. n |-> known.bg]
             Over(d, i) == Fill(d, w, msg.rects[i], ColourOf(msg, known, i))
             C == {known.bg} \cup {ColourOf(msg, known, i) : i \in 1 .. m}
             S == [1 .. n -> C]
             step == [d \in S |-> [i \in 1 .. m |-> Over(d, i)]]
             R(f) == f = [i \in 0 .. m |-> IF i = 0 THEN base ELSE Over(f[i - 1], i)]
             after == CHOOSE f : R(f)
  <1>1. p = after[m]
    BY DEF Paint, ColourOf
  <1>2. ASSUME NEW d, OnTile(d, n), NEW i
        PROVE  /\ OnTile(Over(d, i), n)
               /\ \A j \in 1 .. n :
                    Over(d, i)[j] = IF InTile(j, w, msg.rects[i]) THEN ColourOf(msg, known, i)
                    ELSE d[j]
    <2>1. DOMAIN d = 1 .. n
      BY <1>2 DEF OnTile
    <2>2. Over(d, i) = [j \in 1 .. n |-> IF InTile(j, w, msg.rects[i])
          THEN ColourOf(msg, known, i) ELSE d[j]]
      BY <2>1 DEF Fill, InTile
    <2> HIDE DEF Over
    <2> QED BY <2>2 DEF OnTile
  <1>3. base \in S
    OBVIOUS
  <1> HIDE DEF Over
  <1>4. ASSUME NEW d \in S, NEW i \in 1 .. m PROVE Over(d, i) \in S
    <2>1. OnTile(d, n) /\ \A j \in 1 .. n : d[j] \in C
      <3> HIDE DEF C
      <3> QED BY DEF OnTile
    <2>2. ColourOf(msg, known, i) \in C
      OBVIOUS
    <2> HIDE DEF C
    <2>3. /\ OnTile(Over(d, i), n)
          /\ \A j \in 1 .. n :
               Over(d, i)[j] = IF InTile(j, w, msg.rects[i]) THEN ColourOf(msg, known, i) ELSE d[j]
      BY <1>2, <2>1
    <2> DEFINE o == Over(d, i)
               c == ColourOf(msg, known, i)
    <2> HIDE DEF o, c
    <2>4. \A j \in 1 .. n : o[j] = c \/ o[j] = d[j]
      BY <2>3 DEF o, c
    <2>5. \A j \in 1 .. n : o[j] \in C
      BY <2>1, <2>2, <2>4 DEF c
    <2> QED BY <2>3, <2>5 DEF o, OnTile
  <1>5. step \in Steps(S, m) /\ \A d \in S, i \in 1 .. m : step[d][i] = Over(d, i)
    <2> HIDE DEF S, Over
    <2> QED BY <1>4 DEF Steps
  <1>6. OnTile(base, n) /\ \A j \in 1 .. n : base[j] = known.bg
    BY DEF OnTile
  <1> HIDE DEF S, step, C, base
  <1> HIDE DEF Over
  <1>7. PICK f \in [0 .. m -> S] : f[0] = base /\ \A i \in 1 .. m : f[i] = step[f[i - 1]][i]
    <2>1. \E f : Iterated(f, S, m, base, step)
      BY <1>1, <1>3, <1>5, Iterates
    <2> QED BY <2>1 DEF Iterated
  <1>8. R(f)
    <2>1. ASSUME NEW i \in 1 .. m PROVE f[i] = Over(f[i - 1], i)
      <3>1. f[i - 1] \in S
        <4>1. i - 1 \in 0 .. m
          OBVIOUS
        <4> QED BY <1>1, <1>7, <4>1
      <3> QED BY <1>5, <1>7, <3>1
    <2>2. \A i \in 0 .. m : f[i] = IF i = 0 THEN base ELSE Over(f[i - 1], i)
      BY <1>7, <2>1
    <2> QED BY <1>7, <2>2
  <1>9. R(after)
    <2> HIDE DEF R
    <2> QED BY <1>8
  <1> HIDE DEF after
  <1>10. after[0] = base /\ \A i \in 1 .. m : after[i] = Over(after[i - 1], i)
    BY <1>9
  <1> DEFINE Agree(j, i, v) == \A l \in 1 .. i : InTile(j, w, msg.rects[l])
                               => ColourOf(msg, known, l) = v
             Over1(j, i) == \E l \in 1 .. i : InTile(j, w, msg.rects[l])
             P(i) == /\ OnTile(after[i], n)
                     /\ \A j \in 1 .. n : \A v :
                          Agree(j, i, v) => after[i][j] = IF Over1(j, i) THEN v ELSE known.bg
             N == {i \in 0 .. m : P(i)}
  <1>11. 0 \in N
    <2>1. (\A j : ~Over1(j, 0)) /\ 0 \in 0 .. m
      OBVIOUS
    <2> HIDE DEF Over1, Agree
    <2>2. P(0)
      BY <1>6, <1>10, <2>1
    <2> QED BY <2>2
  <1>12. ASSUME NEW i \in 1 .. m, i - 1 \in N PROVE i \in N
    <2> DEFINE d == after[i - 1]
    <2>1. OnTile(d, n) /\ after[i] = Over(d, i)
      BY <1>10, <1>12
    <2>2. \A j \in 1 .. n : \A v : Agree(j, i - 1, v)
          => d[j] = IF Over1(j, i - 1) THEN v ELSE known.bg
      BY <1>12
    <2>3. \A l \in 1 .. i : l \in 1 .. i - 1 \/ l = i
      OBVIOUS
    <2>4. \A l \in 1 .. i - 1 : l \in 1 .. i
      OBVIOUS
    <2>5. \A j : Over1(j, i) <=> Over1(j, i - 1) \/ InTile(j, w, msg.rects[i])
      BY <2>3, <2>4
    <2>6. \A j, v : Agree(j, i, v) =>
                     /\ Agree(j, i - 1, v)
                     /\ InTile(j, w, msg.rects[i]) => ColourOf(msg, known, i) = v
      BY <2>4
    <2> HIDE DEF d, Over1, Agree
    <2>7. /\ OnTile(after[i], n)
          /\ \A j \in 1 .. n :
               after[i][j] = IF InTile(j, w, msg.rects[i]) THEN ColourOf(msg, known, i) ELSE d[j]
      BY <1>2, <2>1
    <2>8. P(i)
      BY <2>2, <2>5, <2>6, <2>7
    <2> QED BY <2>8
  <1>13. m \in N
    <2> HIDE DEF N
    <2>1. \A i \in 1 .. m : i - 1 \in N => i \in N
      BY <1>12
    <2>2. \A i \in 0 .. m : i \in N
      BY <1>1, <1>11, <2>1, UpTo
    <2> QED BY <1>1, <2>2
  <1>14. P(m)
    BY <1>13
  <1> HIDE DEF after
  <1>15. OnTile(p, n)
    BY <1>1, <1>14
  <1>16. ASSUME NEW j \in 1 .. n, NEW v, Agree(j, m, v)
         PROVE  p[j] = IF Over1(j, m) THEN v ELSE known.bg
    <2> HIDE DEF Agree, Over1
    <2> QED BY <1>1, <1>14, <1>16
  <1> QED BY <1>15, <1>16 DEF PaintedAs

(*-------------------------------- Hextile ---------------------------------*)

(* What the decoder knows once it has read the message on its way.         *)
After == IF message = None \/ message.raw THEN dec ELSE Known(message)

(* InSync, whether a message is on its way or not, and there is none       *)
(* between two tiles or when the client shows one.                         *)
SyncInv ==
    /\ tile = None \/ painted # None => message = None
    /\ encoding = "hextile" =>
        /\ enc.validBg => After.bg = enc.bg
        /\ enc.validFg => After.fg = enc.fg

LEMMA TileIsSome == \A t \in Tile : t # None
  <1> SUFFICES ASSUME NEW t \in Tile, t = None PROVE FALSE
    OBVIOUS
  <1>1. "w" \in DOMAIN t
    BY DEF Tile
  <1>2. DOMAIN t = {}
    BY DEF None
  <1> QED BY <1>1, <1>2

(* A tile leaves the two in agreement, if they were.                       *)
LEMMA EncodeHextileSyncs ==
  ASSUME SyncInv, NEW t \in Tile, encoding = "hextile", tile = None, EncodeHextile(t),
         UNCHANGED <<encoding, dec>>
  PROVE  /\ enc'.validBg => After'.bg = enc'.bg
         /\ enc'.validFg => After'.fg = enc'.fg
  <1> DEFINE c == TestColours(t)
             newBg == ~enc.validBg \/ c.bg # enc.bg
             newFg == ~c.solid /\ c.mono /\ (~enc.validFg \/ c.fg # enc.fg)
             e == SubrectEncode(t, c.bg, 1, IF c.mono THEN 2 ELSE 2 + pixelSize)
             raw == ~c.solid /\ ~e.fits
  <1>1. enc' = Remembered(c, newFg, raw)
    BY Zenon DEF EncodeHextile
  <1>2. /\ enc.validBg => dec.bg = enc.bg
        /\ enc.validFg => dec.fg = enc.fg
    BY Zenon DEF SyncInv, After
  <1>3. CASE raw
    BY <1>1, <1>3 DEF Remembered
  <1>4. CASE ~raw
    <2>1. /\ ~message'.raw
          /\ message'.bg = IF newBg THEN <<c.bg>> ELSE None
          /\ message'.fg = IF newFg THEN <<c.fg>> ELSE None
          /\ c.mono => message'.colours = <<>>
          /\ DOMAIN message' # {}
      BY <1>4 DEF EncodeHextile
    <2>2. After' = Known(message')
      BY <2>1 DEF After, Known, None
    <2>3. ~newBg => enc.validBg /\ c.bg = enc.bg
      OBVIOUS
    <2> HIDE DEF c, newBg, newFg, e, raw
    <2>4. After'.bg = c.bg
      <3>1. CASE newBg
        BY <2>1, <2>2, <3>1 DEF Known, None
      <3>2. CASE ~newBg
        BY <1>2, <2>1, <2>2, <2>3, <3>2 DEF Known
      <3> QED BY <3>1, <3>2
    <2>5. ASSUME enc'.validFg PROVE After'.fg = enc'.fg
      <3>1. /\ c.mono /\ (enc.validFg \/ newFg)
            /\ enc'.fg = IF newFg THEN c.fg ELSE enc.fg
        BY <1>1, <2>5 DEF Remembered
      <3>2. CASE newFg
        BY <2>1, <2>2, <3>1, <3>2 DEF Known, None
      <3>3. CASE ~newFg
        BY <1>2, <2>1, <2>2, <3>1, <3>3 DEF Known
      <3> QED BY <3>2, <3>3
    <2>6. enc'.bg = c.bg
      BY <1>1 DEF Remembered
    <2> QED BY <2>4, <2>5, <2>6
  <1> QED BY <1>3, <1>4

LEMMA InitSync == CodecInit => SyncInv
  BY DEF CodecInit, SyncInv

LEMMA StepSync == SyncInv /\ [CodecNext]_codecVars => SyncInv'
  <1> SUFFICES ASSUME SyncInv, [CodecNext]_codecVars PROVE SyncInv'
    OBVIOUS
  <1>1. ASSUME NEW t \in Tile, Encode(t) PROVE SyncInv'
    <2>1. tile' # None
      BY <1>1, TileIsSome DEF Encode
    <2>2. CASE encoding = "hextile" /\ EncodeHextile(t)
      BY <1>1, <2>1, <2>2, EncodeHextileSyncs DEF Encode, SyncInv
    <2>3. CASE encoding # "hextile"
      BY <1>1, <2>1, <2>3 DEF Encode, SyncInv
    <2> QED BY <1>1, <2>2, <2>3 DEF Encode
  <1>2. CASE Decode
    <2>1. message' = None
      BY <1>2 DEF Decode
    <2>2. encoding = "hextile" => After' = After
      BY <1>2, <2>1 DEF Decode, After
    <2> QED BY <1>2, <2>1, <2>2 DEF Decode, SyncInv
  <1>3. CASE NextTile
    BY <1>3 DEF NextTile, SyncInv, After, Known, None
  <1>4. CASE NextRect
    BY <1>4 DEF NextRect, Fresh, SyncInv
  <1>5. CASE UNCHANGED codecVars
    BY <1>5 DEF codecVars, SyncInv, After, Known
  <1> QED BY <1>1, <1>2, <1>3, <1>4, <1>5 DEF CodecNext

(* Between two tiles of Hextile, the decoder has the background and the    *)
(* foreground that the encoder believes it has (validBg and validFg of     *)
(* sendHextiles), whatever was sent before: pixels, coloured               *)
(* subrectangles, other encodings.                                         *)
THEOREM HextileInSync == CodecSpec => []InSync
  <1>1. SyncInv => InSync
    BY DEF SyncInv, InSync, After
  <1> QED BY <1>1, InitSync, StepSync, PTL DEF CodecSpec

(* The subrectangles of a tile that fits give the tile back, if the        *)
(* viewer knows the background, and the other colour if there is one only. *)
ColoursKnown(t, bg, e, msg, known) ==
    \/ msg.colours = e.colours
    \/ msg.colours = <<>> /\ \A j \in DOMAIN t.data : t.data[j] \in {bg, known.fg}

LEMMA PaintsTile ==
  ASSUME NEW t, IsTile(t), NEW bg, NEW len, NEW e, Encoded(t, bg, len, e, t.w * t.h),
         e.rects \in Seq(Boxes), e.colours \in Seq(Colours), e.fits,
         NEW msg, msg.rects = e.rects, NEW known, known.bg = bg,
         ColoursKnown(t, bg, e, msg, known)
  PROVE  Paint(msg, t.w, t.h, known) = t.data
  <1> DEFINE n == t.w * t.h
             m == Len(msg.rects)
             p == Paint(msg, t.w, t.h, known)
  <1>1. m \in Nat /\ DOMAIN e.rects = 1 .. m /\ Len(e.colours) = m
    BY DEF Encoded
  <1>2. t.data \in [1 .. n -> Colours] /\ DOMAIN t.data = 1 .. n
    BY DEF IsTile
  <1>3. PaintedAs(msg, t.w, n, known, p)
    <2> HIDE DEF p, n, m
    <2>1. p = Paint(msg, t.w, t.h, known) /\ n = t.w * t.h /\ m = Len(msg.rects)
      BY DEF p, n, m
    <2> QED BY <1>1, <2>1, Painting
  <1> HIDE DEF p, n
  <1>4. ASSUME NEW j \in 1 .. n PROVE p[j] = t.data[j]
    <2> DEFINE v == t.data[j]
    <2>1. ASSUME NEW i \in 1 .. m, InTile(j, t.w, msg.rects[i]) PROVE ColourOf(msg, known, i) = v
      <3>1. v = e.colours[i] /\ e.colours[i] # bg
        BY <1>1, <1>2, <2>1 DEF Encoded, CoverOneColour
      <3>2. CASE msg.colours = e.colours
        <4>1. e.colours # <<>>
          BY <1>1
        <4> QED BY <3>1, <3>2, <4>1 DEF ColourOf
      <3>3. CASE msg.colours = <<>> /\ \A l \in DOMAIN t.data : t.data[l] \in {bg, known.fg}
        BY <1>2, <3>1, <3>3 DEF ColourOf
      <3> QED BY <3>2, <3>3 DEF ColoursKnown
    <2>2. p[j] = IF \E i \in 1 .. m : InTile(j, t.w, msg.rects[i]) THEN v ELSE known.bg
      <3> HIDE DEF v
      <3> QED BY <1>3, <2>1 DEF PaintedAs
    <2>3. Covered(t, e, j) <=> \E i \in 1 .. m : InTile(j, t.w, msg.rects[i])
      BY <1>1 DEF Covered
    <2>4. e.data[j] = bg /\ e.data[j] = IF Covered(t, e, j) THEN bg ELSE t.data[j]
      BY <1>2 DEF Encoded, n
    <2> QED BY <2>2, <2>3, <2>4
  <1> QED BY <1>2, <1>3, <1>4 DEF OnTile, PaintedAs, p

(* testColours: the background is there, and other colours but the         *)
(* foreground are not unless there are more than two.                      *)
LEMMA Tested ==
  ASSUME NEW t, IsTile(t), t.w * t.h \in Nat \ {0}, NEW c, c = TestColours(t)
  PROVE  /\ c.bg \in Colours /\ c.fg \in Colours
         /\ \E p \in DOMAIN t.data : t.data[p] = c.bg
         /\ c.solid => c.mono /\ \A j \in DOMAIN t.data : t.data[j] = c.bg
         /\ c.mono => \A j \in DOMAIN t.data : t.data[j] \in {c.bg, c.fg}
  <1> DEFINE n == t.w * t.h
             first == t.data[1]
             others == {k \in DOMAIN t.data : t.data[k] # first}
             second == IF others = {} THEN 0 ELSE t.data[Min(others)]
             third == {k \in others : t.data[k] # second}
             seen == IF third = {} THEN DOMAIN t.data ELSE 1 .. Min(third) - 1
             Count(d) == Cardinality({k \in seen : t.data[k] = d})
             more == others = {} \/ Count(first) > Count(second)
  <1>1. /\ c.solid = (others = {}) /\ c.mono = (third = {})
        /\ c.bg = IF more THEN first ELSE second
        /\ c.fg = IF more THEN second ELSE first
    BY DEF TestColours
  <1>2. t.data \in [1 .. n -> Colours] /\ DOMAIN t.data = 1 .. n /\ 1 \in 1 .. n
    BY DEF IsTile
  <1>3. others # {} => Min(others) \in others
    <2> SUFFICES ASSUME others # {} PROVE Min(others) \in others
      OBVIOUS
    <2>1. others \subseteq Nat
      BY <1>2
    <2> HIDE DEF others
    <2>2. PICK g \in others : \A v \in others : g <= v
      BY <2>1, LeastNatural
    <2> QED BY <2>2 DEF Min
  <1>4. first \in Colours /\ second \in Colours /\ others \subseteq DOMAIN t.data
    BY <1>2, <1>3, CodecAssumption
  <1>5. \A j \in DOMAIN t.data : j \in others <=> t.data[j] # first
    OBVIOUS
  <1>6. others # {} => \E p \in DOMAIN t.data : t.data[p] = second
    BY <1>3, <1>4
  <1>7. third = {} => \A j \in DOMAIN t.data : t.data[j] \in {first, second}
    OBVIOUS
  <1>8. others = {} => third = {} /\ more
    OBVIOUS
  <1>9. \E p \in DOMAIN t.data : t.data[p] = first
    BY <1>2
  <1> HIDE DEF first, second, others, third, more
  <1> QED BY <1>1, <1>4, <1>5, <1>6, <1>7, <1>8, <1>9

(*------------------------------- The message ------------------------------*)

(* What a message will show, and what room it takes.                       *)
Shows(t) ==
    IF message.raw THEN message.data = t.data
    ELSE Paint(message, t.w, t.h, Known(message)) = t.data
HasRoom(t) ==
    encoding = "hextile" =>
        /\ message.len <= (2 + t.w * t.h) * pixelSize
        /\ Len(message.rects) < t.w * t.h

CodecInv ==
    /\ pixelSize \in PixelSizes /\ SyncInv
    /\ message # None => tile \in Tile /\ Shows(tile) /\ HasRoom(tile)
    /\ painted # None => painted = tile.data

(* A tile of Hextile.                                                      *)
LEMMA HextileShows ==
  ASSUME CodecInv, NEW t \in Tile, encoding = "hextile", Encode(t)
  PROVE  Shows(t)' /\ HasRoom(t)'
  <1> DEFINE c == TestColours(t)
             newBg == ~enc.validBg \/ c.bg # enc.bg
             newFg == ~c.solid /\ c.mono /\ (~enc.validFg \/ c.fg # enc.fg)
             size == IF c.mono THEN 2 ELSE 2 + pixelSize
             e == SubrectEncode(t, c.bg, 1, size)
             raw == ~c.solid /\ ~e.fits
             Size(specified) == IF specified THEN pixelSize ELSE 0
             n == t.w * t.h
  <1>1. /\ tile = None /\ EncodeHextile(t) /\ UNCHANGED <<encoding, pixelSize, dec>>
    BY DEF Encode
  <1>2. message' = IF raw THEN RawMessage(t)
                   ELSE [raw |-> FALSE, data |-> <<>>, rects |-> e.rects,
                         colours |-> IF c.mono THEN <<>> ELSE e.colours,
                         bg |-> IF newBg THEN <<c.bg>> ELSE None,
                         fg |-> IF newFg THEN <<c.fg>> ELSE None,
                         len |-> Size(newBg) + Size(newFg) + (IF c.solid THEN 0 ELSE e.len)]
    BY <1>1 DEF EncodeHextile
  <1>3. /\ pixelSize \in Nat /\ pixelSize >= 1 /\ IsTile(t) /\ n \in Nat \ {0}
        /\ DOMAIN t.data = 1 .. n
    <2>1. pixelSize \in {1, 2, 4}
      BY CodecAssumption DEF CodecInv
    <2>2. pixelSize \in Nat /\ pixelSize >= 1
      BY <2>1
    <2> QED BY <2>2, TilesAre DEF IsTile
  <1>4. /\ c.bg \in Colours /\ \E p \in 1 .. n : t.data[p] = c.bg
        /\ c.solid => c.mono /\ \A j \in 1 .. n : t.data[j] = c.bg
        /\ c.mono => \A j \in 1 .. n : t.data[j] \in {c.bg, c.fg}
    BY <1>3, Tested
  <1>5. e \in Encoders(n) /\ Encoded(t, c.bg, 1, e, n)
    <2>1. size \in Nat
      BY <1>3
    <2> HIDE DEF c, size
    <2> QED BY <1>3, <1>4, <2>1, SubrectsEncoded
  <1>6. /\ enc.validBg => dec.bg = enc.bg
        /\ enc.validFg => dec.fg = enc.fg
    BY <1>1 DEF CodecInv, SyncInv, After
  <1>7. CASE raw
    <2>1. message' = [raw |-> TRUE, bg |-> None, fg |-> None, rects |-> <<>>, colours |-> <<>>,
                      data |-> t.data, len |-> n * pixelSize]
      BY <1>2, <1>7 DEF RawMessage
    <2>2. Shows(t)'
      BY <2>1 DEF Shows
    <2>3. message'.len = n * pixelSize /\ Len(message'.rects) = 0
      BY <2>1
    <2>4. n * pixelSize <= (2 + n) * pixelSize /\ 0 < n
      BY <1>3
    <2> QED BY <1>1, <2>2, <2>3, <2>4 DEF HasRoom
  <1>8. CASE ~raw
    <2>1. /\ ~message'.raw /\ message'.rects = e.rects
          /\ message'.colours = IF c.mono THEN <<>> ELSE e.colours
          /\ message'.bg = IF newBg THEN <<c.bg>> ELSE None
          /\ message'.fg = IF newFg THEN <<c.fg>> ELSE None
          /\ message'.len = Size(newBg) + Size(newFg) + (IF c.solid THEN 0 ELSE e.len)
      BY <1>2, <1>8
    <2>2. ~newBg => enc.validBg /\ c.bg = enc.bg
      OBVIOUS
    <2>3. ~newFg /\ c.mono /\ ~c.solid => enc.validFg /\ c.fg = enc.fg
      OBVIOUS
    <2>4. e.rects \in Seq(Boxes) /\ e.colours \in Seq(Colours) /\ e.len \in Nat
      <3> HIDE DEF e, n
      <3> QED BY <1>5 DEF Encoders
    <2>5. e.fits
      <3> HIDE DEF e, c, n
      <3> QED BY <1>3, <1>4, <1>5, <1>8 DEF Encoded
    <2>6. /\ Known(message)'.bg = IF message'.bg = None THEN dec.bg ELSE Head(message'.bg)
          /\ message'.colours = <<>> =>
               Known(message)'.fg = IF message'.fg = None THEN dec.fg ELSE Head(message'.fg)
      BY <1>1 DEF Known
    <2>7. Known(message)'.bg = c.bg
      <3> HIDE DEF c, newBg
      <3>1. CASE newBg
        BY <2>1, <2>6, <3>1 DEF None
      <3>2. CASE ~newBg
        BY <1>6, <2>1, <2>2, <2>6, <3>2
      <3> QED BY <3>1, <3>2
    <2>8. c.mono /\ ~c.solid => Known(message)'.fg = c.fg
      <3> HIDE DEF c, newFg
      <3>1. CASE newFg
        BY <2>1, <2>6, <3>1 DEF None
      <3>2. CASE ~newFg
        BY <1>6, <2>1, <2>3, <2>6, <3>2
      <3> QED BY <3>1, <3>2
    <2>9. \/ message'.colours = e.colours
          \/ message'.colours = <<>>
             /\ \A j \in DOMAIN t.data : t.data[j] \in {c.bg, Known(message)'.fg}
      <3> HIDE DEF c
      <3> QED BY <1>3, <1>4, <2>1, <2>8
    <2>10. Shows(t)'
      <3>1. Paint(message', t.w, t.h, Known(message)') = t.data
        <4>1. PICK msg, known : msg = message' /\ known = Known(message)'
          OBVIOUS
        <4> DEFINE bg == c.bg
        <4>2. /\ Encoded(t, bg, 1, e, t.w * t.h) /\ known.bg = bg
              /\ ColoursKnown(t, bg, e, msg, known)
          BY <1>5, <2>7, <2>9, <4>1 DEF ColoursKnown
        <4>3. msg.rects = e.rects
          BY <2>1, <4>1
        <4> HIDE DEF c, e, n, bg
        <4>4. IsTile(t)
          BY <1>3
        <4>5. Paint(msg, t.w, t.h, known) = t.data
          BY <2>4, <2>5, <4>2, <4>3, <4>4, PaintsTile
        <4> QED BY <4>1, <4>5
      <3> QED BY <2>1, <3>1 DEF Shows
    <2>11. Len(message'.rects) < n
      <3> HIDE DEF c, e, n
      <3> QED BY <1>4, <1>5, <2>1 DEF Encoded
    <2>12. e.len <= n * pixelSize
      <3>1. 1 <= n * pixelSize
        BY <1>3
      <3> HIDE DEF c, e
      <3> QED BY <1>5, <3>1 DEF Encoded
    <2>13. message'.len <= 2 * pixelSize + n * pixelSize
      <3> DEFINE room == n * pixelSize
      <3>1. room \in Nat
        BY <1>3
      <3>2. Size(newBg) \in 0 .. pixelSize /\ Size(newFg) \in 0 .. pixelSize
        BY <1>3
      <3> HIDE DEF c, e, newBg, newFg, Size, room
      <3>3. (IF c.solid THEN 0 ELSE e.len) \in 0 .. room
        BY <2>4, <2>12, <3>1 DEF room
      <3> QED BY <1>3, <2>1, <3>1, <3>2, <3>3 DEF room
    <2>14. (2 + n) * pixelSize = 2 * pixelSize + n * pixelSize
      BY <1>3
    <2> QED BY <1>1, <2>10, <2>11, <2>13, <2>14 DEF HasRoom
  <1> QED BY <1>7, <1>8

(* A rectangle of RRE or CoRRE, whose messages carry every colour.         *)
LEMMA RREShows ==
  ASSUME CodecInv, NEW t \in Tile, encoding # "hextile", Encode(t)
  PROVE  Shows(t)'
  <1>1. EncodeRRE(t) /\ UNCHANGED <<encoding, pixelSize, dec>>
    BY DEF Encode
  <1> DEFINE size == pixelSize + (IF encoding = "rre" THEN 8 ELSE 4)
             n == t.w * t.h
             e(bg) == SubrectEncode(t, bg, pixelSize, size)
  <1>2. PICK bg \in BgColours(t) :
           message' = IF ~e(bg).fits THEN RawMessage(t)
                      ELSE [raw |-> FALSE, data |-> <<>>, bg |-> <<bg>>, fg |-> None,
                            rects |-> e(bg).rects, colours |-> e(bg).colours, len |-> e(bg).len]
    BY <1>1 DEF EncodeRRE
  <1>3. IsTile(t) /\ n \in Nat \ {0} /\ pixelSize \in Nat
    <2>1. pixelSize \in {1, 2, 4}
      BY CodecAssumption DEF CodecInv
    <2> QED BY <2>1, TilesAre
  <1>4. bg \in Colours
    <2>1. bg = 0 \/ \E j \in DOMAIN t.data : bg = t.data[j]
      <3>1. 1 \in DOMAIN t.data
        BY <1>3 DEF IsTile
      <3> QED BY <3>1 DEF BgColours, ToSet
    <2> QED BY <1>3, <2>1, CodecAssumption DEF IsTile
  <1>5. PICK d : d = e(bg)
    OBVIOUS
  <1>6. d \in Encoders(n) /\ Encoded(t, bg, pixelSize, d, n)
    <2>1. size \in Nat /\ d = SubrectEncode(t, bg, pixelSize, size)
      BY <1>3, <1>5
    <2> HIDE DEF size
    <2> QED BY <1>3, <1>4, <2>1, SubrectsEncoded
  <1>7. CASE ~d.fits
    <2>1. message' = RawMessage(t)
      <3> HIDE DEF e
      <3> QED BY <1>2, <1>5, <1>7
    <2> QED BY <2>1 DEF RawMessage, Shows
  <1>8. CASE d.fits
    <2>1. message' = [raw |-> FALSE, data |-> <<>>, bg |-> <<bg>>, fg |-> None,
                      rects |-> d.rects, colours |-> d.colours, len |-> d.len]
      <3> HIDE DEF e
      <3> QED BY <1>2, <1>5, <1>8
    <2>2. PICK msg, known : msg = message' /\ known = Known(message)'
      OBVIOUS
    <2>3. /\ ~msg.raw /\ msg.rects = d.rects /\ msg.colours = d.colours
          /\ msg.bg = <<bg>>
      BY <2>1, <2>2
    <2>4. known.bg = bg
      <3>1. known.bg = Head(msg.bg)
        BY <2>2, <2>3 DEF Known, None
      <3> QED BY <2>3, <3>1
    <2>5. d.rects \in Seq(Boxes) /\ d.colours \in Seq(Colours)
      <3> HIDE DEF n
      <3> QED BY <1>6 DEF Encoders
    <2>6. ColoursKnown(t, bg, d, msg, known)
      BY <2>3 DEF ColoursKnown
    <2>7. Paint(msg, t.w, t.h, known) = t.data
      BY <1>3, <1>6, <1>8, <2>3, <2>4, <2>5, <2>6, PaintsTile
    <2> QED BY <2>2, <2>3, <2>7 DEF Shows
  <1> QED BY <1>7, <1>8

LEMMA CodecStep == CodecInv /\ [CodecNext]_codecVars => CodecInv'
  <1> SUFFICES ASSUME CodecInv, [CodecNext]_codecVars PROVE CodecInv'
    OBVIOUS
  <1>1. SyncInv'
    BY StepSync DEF CodecInv
  <1>2. ASSUME NEW t \in Tile, Encode(t) PROVE CodecInv'
    <2>1. Shows(t)' /\ HasRoom(t)'
      <3>1. CASE encoding = "hextile"
        BY <1>2, <3>1, HextileShows
      <3>2. CASE encoding # "hextile"
        <4>1. encoding' # "hextile"
          BY <1>2, <3>2 DEF Encode
        <4> QED BY <1>2, <3>2, <4>1, RREShows DEF HasRoom
      <3> QED BY <3>1, <3>2
    <2>2. tile' = t /\ painted' = None /\ pixelSize' = pixelSize
      BY <1>2 DEF Encode
    <2> QED BY <1>1, <2>1, <2>2 DEF CodecInv, Shows, HasRoom
  <1>3. CASE Decode
    <2>1. /\ message # None /\ message' = None /\ UNCHANGED <<pixelSize, tile>>
          /\ painted' = IF message.raw THEN message.data
                        ELSE Paint(message, tile.w, tile.h, Known(message))
      BY <1>3 DEF Decode
    <2>2. painted' = tile.data
      BY <2>1 DEF CodecInv, Shows
    <2> QED BY <1>1, <2>1, <2>2 DEF CodecInv
  <1>4. CASE NextTile
    <2>1. message = None
      BY <1>4 DEF NextTile, CodecInv, SyncInv
    <2> QED BY <1>1, <1>4, <2>1 DEF NextTile, CodecInv
  <1>5. CASE NextRect
    <2>1. message = None
      BY <1>5 DEF NextRect, CodecInv, SyncInv
    <2> QED BY <1>1, <1>5, <2>1 DEF NextRect, CodecInv
  <1>6. CASE UNCHANGED codecVars
    BY <1>1, <1>6 DEF codecVars, CodecInv, Shows, HasRoom, Known
  <1> QED BY <1>2, <1>3, <1>4, <1>5, <1>6 DEF CodecNext

LEMMA CodecStart == CodecInit => CodecInv
  BY InitSync DEF CodecInit, CodecInv

(* The pixels come back: what the client paints of the message of a tile,  *)
(* with the colours it remembers, is the tile the server read, for tiles   *)
(* of any size and any colours, in Hextile, RRE and CoRRE.                 *)
THEOREM TilesRestored == CodecSpec => []PixelsRestored
  <1>1. CodecInv => PixelsRestored
    BY DEF CodecInv, PixelsRestored
  <1> QED BY <1>1, CodecStart, CodecStep, PTL DEF CodecSpec

(* The buffer sendHextiles asks for is large enough, and the number of     *)
(* subrectangles less than that of the pixels, so a byte holds it.         *)
THEOREM MessagesFit == CodecSpec => []TileFits
  <1>1. CodecInv => TileFits
    BY DEF CodecInv, TileFits, HasRoom
  <1> QED BY <1>1, CodecStart, CodecStep, PTL DEF CodecSpec

(*---------------------- Counting in a sequence ----------------------------*)

Occurs(s, P) == Cardinality({i \in DOMAIN s : s[i] \in P})

LEMMA OccursNat ==
  ASSUME NEW S, NEW s, s \in Seq(S), NEW P
  PROVE  /\ IsFiniteSet({i \in DOMAIN s : s[i] \in P}) /\ Occurs(s, P) \in Nat
         /\ DOMAIN s = 1 .. Len(s) /\ Len(s) \in Nat
  <1>1. DOMAIN s = 1 .. Len(s) /\ Len(s) \in Nat
    OBVIOUS
  <1>2. IsFiniteSet(1 .. Len(s))
    BY <1>1, FS_Interval
  <1>3. {i \in DOMAIN s : s[i] \in P} \subseteq 1 .. Len(s)
    BY <1>1
  <1>4. IsFiniteSet({i \in DOMAIN s : s[i] \in P})
    BY <1>2, <1>3, FS_Subset
  <1> QED BY <1>1, <1>4, FS_CardinalityType DEF Occurs

LEMMA OccursNone == ASSUME NEW P PROVE Occurs(<<>>, P) = 0
  <1>1. {i \in DOMAIN <<>> : <<>>[i] \in P} = {}
    OBVIOUS
  <1> QED BY <1>1, FS_EmptySet DEF Occurs

LEMMA OccursOne ==
  ASSUME NEW a, NEW P PROVE Occurs(<<a>>, P) = IF a \in P THEN 1 ELSE 0
  <1>1. DOMAIN <<a>> = {1} /\ <<a>>[1] = a
    OBVIOUS
  <1>2. {i \in DOMAIN <<a>> : <<a>>[i] \in P} = IF a \in P THEN {1} ELSE {}
    BY <1>1
  <1> QED BY <1>2, FS_EmptySet, FS_Singleton DEF Occurs

(* Behind each other.                                                      *)
Cat(s, t) == s \o t
LEMMA OccursCat ==
  ASSUME NEW S, NEW s, s \in Seq(S), NEW t, t \in Seq(S), NEW P, NEW u, u = Cat(s, t)
  PROVE  u \in Seq(S) /\ Occurs(u, P) = Occurs(s, P) + Occurs(t, P)
  <1> DEFINE m == Len(s)
             n == Len(t)
             A == {i \in DOMAIN s : s[i] \in P}
             B == {i \in DOMAIN t : t[i] \in P}
             C == {i \in DOMAIN u : u[i] \in P}
             B2 == {i \in m + 1 .. m + n : t[i - m] \in P}
  <1>1. /\ m \in Nat /\ n \in Nat /\ DOMAIN s = 1 .. m /\ DOMAIN t = 1 .. n
        /\ u \in Seq(S) /\ Len(u) = m + n /\ DOMAIN u = 1 .. m + n
        /\ \A i \in 1 .. m : u[i] = s[i]
        /\ \A i \in m + 1 .. m + n : u[i] = t[i - m]
    <2>1. u \in Seq(S) /\ Len(u) = m + n
      BY ConcatProperties DEF Cat
    <2>2. \A i \in 1 .. m + n : u[i] = IF i <= m THEN s[i] ELSE t[i - m]
      BY <2>1, ConcatProperties DEF Cat
    <2>3. m \in Nat /\ n \in Nat /\ DOMAIN s = 1 .. m /\ DOMAIN t = 1 .. n
      OBVIOUS
    <2>4. DOMAIN u = 1 .. m + n
      BY <2>1
    <2> HIDE DEF m, n
    <2>5. (\A i \in 1 .. m : u[i] = s[i]) /\ \A i \in m + 1 .. m + n : u[i] = t[i - m]
      BY <2>2, <2>3
    <2> QED BY <2>1, <2>3, <2>4, <2>5
  <1> HIDE DEF m, n
  <1>2. C = A \cup B2
    <2>1. \A i : i \in 1 .. m + n <=> i \in 1 .. m \/ i \in m + 1 .. m + n
      BY <1>1
    <2> QED BY <1>1, <2>1
  <1>3. A \cap B2 = {}
    BY <1>1
  <1>4. IsFiniteSet(A) /\ IsFiniteSet(B) /\ Cardinality(A) \in Nat /\ Cardinality(B) \in Nat
    BY OccursNat DEF Occurs
  <1>5. Cardinality(B2) = Cardinality(B) /\ IsFiniteSet(B2)
    <2> DEFINE f == [i \in B |-> i + m]
    <2>1. f \in Bijection(B, B2)
      <3>1. \A i \in B : i + m \in B2
        BY <1>1
      <3>2. \A j \in B2 : j - m \in B /\ j = (j - m) + m
        BY <1>1
      <3>3. f \in [B -> B2]
        BY <3>1
      <3>4. \A i, j \in B : f[i] = f[j] => i = j
        BY <1>1
      <3>5. \A j \in B2 : \E i \in B : f[i] = j
        BY <3>2
      <3> HIDE DEF f, B, B2
      <3> QED BY <3>3, <3>4, <3>5 DEF Bijection, Injection, Surjection, IsInjective
    <2> HIDE DEF f, B, B2
    <2>2. ExistsBijection(B, B2)
      BY <2>1 DEF ExistsBijection
    <2> QED BY <1>4, <2>2, FS_Bijection
  <1> HIDE DEF A, B2, B, C
  <1>6. Cardinality(A \cup B2) = Cardinality(A) + Cardinality(B2)
    <2>1. Cardinality(A \cap B2) = 0
      BY <1>3, FS_EmptySet
    <2>2. Cardinality(A \cup B2) = Cardinality(A) + Cardinality(B2) - Cardinality(A \cap B2)
      BY <1>4, <1>5, FS_Union
    <2> QED BY <1>4, <1>5, <2>1, <2>2
  <1> QED BY <1>1, <1>2, <1>5, <1>6 DEF A, B, C, Occurs

(*------------------------------ Division ----------------------------------*)

LEMMA Division ==
  ASSUME NEW a \in Nat, NEW b \in Nat \ {0}
  PROVE  a \div b \in Nat /\ a % b \in 0 .. b - 1 /\ a = (a \div b) * b + (a % b)
  <1>1. a \div b \in Nat /\ a % b \in 0 .. b - 1 /\ a = b * (a \div b) + (a % b)
    OBVIOUS
  <1>2. \A q \in Nat : b * q = q * b
    OBVIOUS
  <1> QED BY <1>1, <1>2

(* There is one way only to divide.                                        *)
LEMMA DividesOnce ==
  ASSUME NEW b \in Nat \ {0}, NEW p \in Nat, NEW q \in Nat, NEW c \in 0 .. b - 1,
         NEW d \in 0 .. b - 1,
         p * b + c = q * b + d
  PROVE  p = q /\ c = d
  <1>1. \A x, y \in Nat : x < y => x * b + b <= y * b
    <2> SUFFICES ASSUME NEW x \in Nat, NEW y \in Nat, x < y PROVE x * b + b <= y * b
      OBVIOUS
    <2>1. PICK k \in Nat : y = x + 1 + k
      <3>1. y - x - 1 \in Nat /\ y = x + 1 + (y - x - 1)
        OBVIOUS
      <3> QED BY <3>1
    <2>2. y * b = x * b + b + k * b
      BY <2>1
    <2>3. k * b \in Nat /\ x * b \in Nat
      BY <2>1
    <2> QED BY <2>2, <2>3
  <1>2. p * b \in Nat /\ q * b \in Nat
    OBVIOUS
  <1>3. ~(p < q) /\ ~(q < p)
    BY <1>1, <1>2
  <1> QED BY <1>2, <1>3

(*------------------------- What covers a pixel ----------------------------*)

Ops == {"raw", "corre", "strips", "tight", "simple", "search", "solid"}
Tasks == [op : Ops, r : Rectangle, dy : Nat]
Over(x, y) == {r \in Boxes : In(x, y, r)}
Under(x, y) == {t \in Tasks : In(x, y, t.r)}
Hit(x, y, r) == IF In(x, y, r) THEN 1 ELSE 0

LEMMA HitOne ==
  ASSUME NEW x, NEW y
  PROVE  /\ \A r \in Boxes : Occurs(<<r>>, Over(x, y)) = Hit(x, y, r)
         /\ \A t \in Tasks : Occurs(<<t>>, Under(x, y)) = Hit(x, y, t.r)
  <1>1. ASSUME NEW r \in Boxes PROVE Occurs(<<r>>, Over(x, y)) = Hit(x, y, r)
    <2>1. r \in Over(x, y) <=> In(x, y, r)
      BY DEF Over
    <2> QED BY <2>1, OccursOne DEF Hit
  <1>2. ASSUME NEW t \in Tasks PROVE Occurs(<<t>>, Under(x, y)) = Hit(x, y, t.r)
    <2>1. t \in Under(x, y) <=> In(x, y, t.r)
      BY DEF Under
    <2> QED BY <2>1, OccursOne DEF Hit
  <1> QED BY <1>1, <1>2

LEMMA RectanglesAre ==
  /\ Rectangle \subseteq Boxes
  /\ \A r \in Rectangle : /\ r.x \in Nat /\ r.y \in Nat /\ r.w \in Nat \ {0} /\ r.h \in Nat \ {0}
                          /\ r = Rect(r.x, r.y, r.w, r.h)
  /\ \A x, y \in Nat, w, h \in Nat \ {0} : Rect(x, y, w, h) \in Rectangle
  <1>1. Rectangle \subseteq Boxes
    BY DEF Rectangle, Boxes
  <1>2. \A r \in Rectangle : /\ r.x \in Nat /\ r.y \in Nat /\ r.w \in Nat \ {0} /\ r.h \in Nat \ {0}
                             /\ r = Rect(r.x, r.y, r.w, r.h)
    BY DEF Rectangle, Rect
  <1>3. \A x, y \in Nat, w, h \in Nat \ {0} : Rect(x, y, w, h) \in Rectangle
    BY DEF Rectangle, Rect
  <1> QED BY <1>1, <1>2, <1>3

LEMMA TasksAre ==
  /\ \A t \in Tasks : t.op \in Ops /\ t.r \in Rectangle /\ t.dy \in Nat
  /\ \A op \in Ops, r \in Rectangle :
       Task(op, r) \in Tasks /\ Task(op, r).op = op /\ Task(op, r).r = r /\ Task(op, r).dy = r.y
  <1>1. \A t \in Tasks : t.op \in Ops /\ t.r \in Rectangle /\ t.dy \in Nat
    BY DEF Tasks
  <1>2. ASSUME NEW op \in Ops, NEW r \in Rectangle
        PROVE  Task(op, r) \in Tasks /\ Task(op, r).op = op /\ Task(op, r).r = r
               /\ Task(op, r).dy = r.y
    <2>1. r.y \in Nat
      BY RectanglesAre
    <2> QED BY <2>1 DEF Tasks, Task
  <1> QED BY <1>1, <1>2

(* A rectangle is cut in two.                                              *)
LEMMA CutAcross ==
  ASSUME NEW r \in Rectangle, NEW n \in 1 .. r.h - 1
  PROVE  /\ Rect(r.x, r.y, r.w, n) \in Rectangle
         /\ Rect(r.x, r.y + n, r.w, r.h - n) \in Rectangle
         /\ \A x, y \in Nat : Hit(x, y, Rect(r.x, r.y, r.w, n))
                              + Hit(x, y, Rect(r.x, r.y + n, r.w, r.h - n)) = Hit(x, y, r)
  <1> DEFINE rx == r.x  ry == r.y  rw == r.w  rh == r.h
             a == Rect(rx, ry, rw, n)
             b == Rect(rx, ry + n, rw, rh - n)
  <1>1. rx \in Nat /\ ry \in Nat /\ rw \in Nat \ {0} /\ rh \in Nat \ {0} /\ n \in 1 .. rh - 1
    BY RectanglesAre
  <1>2. ry + n \in Nat /\ rh - n \in Nat \ {0} /\ n \in Nat \ {0}
    <2> HIDE DEF ry, rh
    <2> QED BY <1>1
  <1>3. a \in Rectangle /\ b \in Rectangle
    BY <1>1, <1>2, RectanglesAre
  <1>4. ASSUME NEW x \in Nat, NEW y \in Nat PROVE Hit(x, y, a) + Hit(x, y, b) = Hit(x, y, r)
    <2>1. /\ In(x, y, r) <=> x \in rx .. rx + rw - 1 /\ y \in ry .. ry + rh - 1
          /\ In(x, y, a) <=> x \in rx .. rx + rw - 1 /\ y \in ry .. ry + n - 1
          /\ In(x, y, b) <=> x \in rx .. rx + rw - 1 /\ y \in ry + n .. (ry + n) + (rh - n) - 1
      BY DEF In, Rect
    <2> HIDE DEF a, b, rx, ry, rw, rh
    <2>2. y \in ry .. ry + rh - 1 <=> \/ y \in ry .. ry + n - 1
                                      \/ y \in ry + n .. (ry + n) + (rh - n) - 1
      BY <1>1
    <2>3. ~(y \in ry .. ry + n - 1 /\ y \in ry + n .. (ry + n) + (rh - n) - 1)
      BY <1>1
    <2> QED BY <2>1, <2>2, <2>3 DEF Hit
  <1> QED BY <1>3, <1>4

LEMMA CutDown ==
  ASSUME NEW r \in Rectangle, NEW n \in 1 .. r.w - 1
  PROVE  /\ Rect(r.x, r.y, n, r.h) \in Rectangle
         /\ Rect(r.x + n, r.y, r.w - n, r.h) \in Rectangle
         /\ \A x, y \in Nat : Hit(x, y, Rect(r.x, r.y, n, r.h))
                              + Hit(x, y, Rect(r.x + n, r.y, r.w - n, r.h)) = Hit(x, y, r)
  <1> DEFINE rx == r.x  ry == r.y  rw == r.w  rh == r.h
             a == Rect(rx, ry, n, rh)
             b == Rect(rx + n, ry, rw - n, rh)
  <1>1. rx \in Nat /\ ry \in Nat /\ rw \in Nat \ {0} /\ rh \in Nat \ {0} /\ n \in 1 .. rw - 1
    BY RectanglesAre
  <1>2. rx + n \in Nat /\ rw - n \in Nat \ {0} /\ n \in Nat \ {0}
    <2> HIDE DEF rx, rw
    <2> QED BY <1>1
  <1>3. a \in Rectangle /\ b \in Rectangle
    BY <1>1, <1>2, RectanglesAre
  <1>4. ASSUME NEW x \in Nat, NEW y \in Nat PROVE Hit(x, y, a) + Hit(x, y, b) = Hit(x, y, r)
    <2>1. /\ In(x, y, r) <=> x \in rx .. rx + rw - 1 /\ y \in ry .. ry + rh - 1
          /\ In(x, y, a) <=> x \in rx .. rx + n - 1 /\ y \in ry .. ry + rh - 1
          /\ In(x, y, b) <=> x \in rx + n .. (rx + n) + (rw - n) - 1 /\ y \in ry .. ry + rh - 1
      BY DEF In, Rect
    <2> HIDE DEF a, b, rx, ry, rw, rh
    <2>2. x \in rx .. rx + rw - 1 <=> \/ x \in rx .. rx + n - 1
                                      \/ x \in rx + n .. (rx + n) + (rw - n) - 1
      BY <1>1
    <2>3. ~(x \in rx .. rx + n - 1 /\ x \in rx + n .. (rx + n) + (rw - n) - 1)
      BY <1>1
    <2> QED BY <2>1, <2>2, <2>3 DEF Hit
  <1> QED BY <1>3, <1>4

LEMMA Limits ==
  /\ CorreMax \in Nat \ {0} /\ MaxStripSize \in Nat \ {0} /\ MaxSplitTileSize \in Nat \ {0}
  /\ MaxRectSize \in Nat \ {0} /\ MaxRectWidth \in Nat \ {0}
  /\ MaxSplitTileSize * MaxRectWidth <= MaxRectSize
  BY SplitAssumption

LEMMA CeilIs ==
  ASSUME NEW n \in Nat \ {0}, NEW d \in Nat \ {0}
  PROVE  /\ CeilDiv(n, d) \in Nat \ {0}
         /\ n <= d => CeilDiv(n, d) = 1
         /\ n > d => CeilDiv(n, d) = 1 + CeilDiv(n - d, d)
  <1> DEFINE q == (n - 1) \div d
             c == (n - 1) % d
  <1>1. n - 1 \in Nat
    OBVIOUS
  <1>2. q \in Nat /\ c \in 0 .. d - 1 /\ n - 1 = q * d + c
    BY <1>1, Division
  <1>3. CeilDiv(n, d) = q + 1
    BY DEF CeilDiv
  <1> HIDE DEF q, c
  <1>4. ASSUME n <= d PROVE q = 0
    <2>1. n - 1 \in 0 .. d - 1 /\ n - 1 = 0 * d + (n - 1)
      BY <1>4
    <2> DEFINE e == n - 1
    <2>2. e \in 0 .. d - 1 /\ q * d + c = 0 * d + e
      BY <1>2, <2>1
    <2> HIDE DEF e
    <2> QED BY <1>2, <2>2, DividesOnce
  <1>5. ASSUME n > d PROVE CeilDiv(n - d, d) = q
    <2> DEFINE p == (n - d - 1) \div d
               b == (n - d - 1) % d
    <2>1. n - d - 1 \in Nat
      BY <1>5
    <2>2. p \in Nat /\ b \in 0 .. d - 1 /\ n - d - 1 = p * d + b
      BY <2>1, Division
    <2>3. CeilDiv(n - d, d) = p + 1
      BY DEF CeilDiv
    <2> HIDE DEF p, b
    <2>4. (p + 1) * d = p * d + d
      BY <2>2
    <2> DEFINE p1 == p + 1
    <2>5. p1 \in Nat /\ p1 * d + b = q * d + c
      <3>1. p * d \in Nat /\ q * d \in Nat
        BY <1>2, <2>2
      <3> QED BY <1>2, <2>2, <2>4, <3>1
    <2> HIDE DEF p1
    <2>6. p1 = q
      BY <1>2, <2>2, <2>5, DividesOnce
    <2> QED BY <2>3, <2>6 DEF p1
  <1> QED BY <1>2, <1>3, <1>4, <1>5

LEMMA AtLeastOnce ==
  ASSUME NEW a \in Nat, NEW b \in Nat \ {0}, a >= b PROVE a \div b \in Nat \ {0}
  <1>1. a \div b \in Nat /\ a % b \in 0 .. b - 1 /\ a = (a \div b) * b + (a % b)
    BY Division
  <1>2. a \div b # 0
    <2> SUFFICES ASSUME a \div b = 0 PROVE FALSE
      OBVIOUS
    <2> DEFINE m == a % b
    <2>1. m \in 0 .. b - 1 /\ a = 0 * b + m
      BY <1>1
    <2> HIDE DEF m
    <2> QED BY <2>1
  <1> QED BY <1>1, <1>2

LEMMA LinesIs == \A w \in Nat \ {0} : MaxLines(w) \in Nat \ {0}
  <1> SUFFICES ASSUME NEW w \in Nat \ {0} PROVE MaxLines(w) \in Nat \ {0}
    OBVIOUS
  <1> DEFINE a == IF w * 2 > MaxStripSize THEN w * 2 ELSE MaxStripSize
  <1>1. a \in Nat /\ a >= w
    BY Limits
  <1>2. MaxLines(w) = a \div w
    BY DEF MaxLines
  <1> HIDE DEF a
  <1> QED BY <1>1, <1>2, AtLeastOnce

LEMMA HeightIs == \A r \in Rectangle : SubrectHeight(r) \in Nat \ {0}
  <1> SUFFICES ASSUME NEW r \in Rectangle PROVE SubrectHeight(r) \in Nat \ {0}
    OBVIOUS
  <1> DEFINE w == Least(r.w, MaxRectWidth)
  <1>1. w \in Nat \ {0} /\ w <= MaxRectWidth
    BY RectanglesAre, Limits DEF Least
  <1>2. SubrectHeight(r) = MaxRectSize \div w
    BY DEF SubrectHeight
  <1> HIDE DEF w
  <1>3. MaxRectWidth <= MaxRectSize
    <2>1. ASSUME NEW t \in Nat \ {0}, NEW m \in Nat \ {0} PROVE m <= t * m
      <3>1. PICK k \in Nat : t = k + 1
        <4>1. t - 1 \in Nat /\ t = (t - 1) + 1
          OBVIOUS
        <4> QED BY <4>1
      <3>2. t * m = k * m + m /\ k * m \in Nat
        BY <3>1
      <3> QED BY <3>2
    <2>2. MaxRectWidth <= MaxSplitTileSize * MaxRectWidth
      BY <2>1, Limits
    <2>3. MaxSplitTileSize * MaxRectWidth \in Nat
      BY Limits
    <2> QED BY <2>2, <2>3, Limits
  <1>4. MaxRectSize \in Nat /\ MaxRectSize >= w
    BY <1>1, <1>3, Limits
  <1> QED BY <1>1, <1>2, <1>4, AtLeastOnce

(*------------------------------- What is counted --------------------------*)

(* The rectangles of s count for n in all.                                 *)
Runs(f, N, s) ==
    /\ f \in [0 .. Len(s) -> Nat] /\ f[0] = 0
    /\ \A i \in 1 .. Len(s) : f[i] = f[i - 1] + N[s[i].r]
Counts(N, s, n) == \E f : Runs(f, N, s) /\ f[Len(s)] = n

Weights == [Rectangle -> Nat]

LEMMA CountsNone == ASSUME NEW N PROVE Counts(N, <<>>, 0)
  <1> DEFINE f == [i \in 0 .. 0 |-> 0]
  <1>1. Runs(f, N, <<>>)
    BY DEF Runs
  <1> QED BY <1>1 DEF Counts

LEMMA CountsOne == ASSUME NEW N \in Weights, NEW t \in Tasks PROVE Counts(N, <<t>>, N[t.r])
  <1> DEFINE f == [i \in 0 .. 1 |-> IF i = 0 THEN 0 ELSE N[t.r]]
  <1>1. N[t.r] \in Nat
    BY TasksAre DEF Weights
  <1>2. Len(<<t>>) = 1 /\ <<t>>[1] = t
    OBVIOUS
  <1>3. f \in [0 .. 1 -> Nat] /\ f[0] = 0 /\ f[1] = N[t.r]
    BY <1>1
  <1> HIDE DEF f
  <1>4. \A i \in 1 .. 1 : f[i] = f[i - 1] + N[<<t>>[i].r]
    BY <1>1, <1>2, <1>3
  <1>5. Runs(f, N, <<t>>)
    BY <1>2, <1>3, <1>4 DEF Runs
  <1> QED BY <1>2, <1>3, <1>5 DEF Counts

LEMMA CountsCat ==
  ASSUME NEW N \in Weights, NEW s, s \in Seq(Tasks), NEW t, t \in Seq(Tasks), NEW a \in Nat,
         NEW b \in Nat, Counts(N, s, a), Counts(N, t, b), NEW u, u = Cat(s, t)
  PROVE  Counts(N, u, a + b)
  <1> DEFINE m == Len(s)
             n == Len(t)
  <1>1. PICK f : Runs(f, N, s) /\ f[m] = a
    BY DEF Counts
  <1>2. PICK g : Runs(g, N, t) /\ g[n] = b
    BY DEF Counts
  <1>3. /\ m \in Nat /\ n \in Nat /\ Len(u) = m + n
        /\ \A i \in 1 .. m : u[i] = s[i]
        /\ \A i \in m + 1 .. m + n : u[i] = t[i - m]
    <2>1. Len(u) = m + n
      BY ConcatProperties DEF Cat
    <2>2. \A i \in 1 .. m + n : u[i] = IF i <= m THEN s[i] ELSE t[i - m]
      BY <2>1, ConcatProperties DEF Cat
    <2>3. m \in Nat /\ n \in Nat
      OBVIOUS
    <2> HIDE DEF m, n
    <2> QED BY <2>1, <2>2, <2>3
  <1>4. f \in [0 .. m -> Nat] /\ f[0] = 0 /\ \A i \in 1 .. m : f[i] = f[i - 1] + N[s[i].r]
    BY <1>1 DEF Runs
  <1>5. g \in [0 .. n -> Nat] /\ g[0] = 0 /\ \A i \in 1 .. n : g[i] = g[i - 1] + N[t[i].r]
    BY <1>2 DEF Runs
  <1>6. \A i \in 1 .. n : t[i].r \in Rectangle /\ N[t[i].r] \in Nat
    <2>1. \A i \in 1 .. n : t[i] \in Tasks
      OBVIOUS
    <2> QED BY <2>1, TasksAre DEF Weights
  <1> HIDE DEF m, n
  <1> DEFINE h == [i \in 0 .. m + n |-> IF i <= m THEN f[i] ELSE a + g[i - m]]
  <1>7. h \in [0 .. m + n -> Nat]
    <2> SUFFICES ASSUME NEW i \in 0 .. m + n PROVE h[i] \in Nat
      OBVIOUS
    <2>1. CASE i <= m
      <3>1. i \in 0 .. m
        BY <1>3, <2>1
      <3> QED BY <1>4, <2>1, <3>1
    <2>2. CASE ~(i <= m)
      <3>1. i - m \in 0 .. n
        BY <1>3, <2>2
      <3>2. g[i - m] \in Nat
        BY <1>5, <3>1
      <3> QED BY <2>2, <3>2
    <2> QED BY <2>1, <2>2
  <1>8. /\ \A i \in 0 .. m : h[i] = f[i]
        /\ \A i \in m + 1 .. m + n : h[i] = a + g[i - m]
    BY <1>3
  <1> HIDE DEF h
  <1>9. ASSUME NEW i \in 1 .. m + n PROVE h[i] = h[i - 1] + N[u[i].r]
    <2>1. CASE i <= m
      <3>1. i \in 1 .. m /\ i \in 0 .. m /\ i - 1 \in 0 .. m
        BY <1>3, <2>1
      <3> QED BY <1>3, <1>4, <1>8, <3>1
    <2>2. CASE i = m + 1
      <3>1. i \in m + 1 .. m + n /\ i - 1 = m /\ i - m = 1 /\ 1 \in 1 .. n /\ m \in 0 .. m
        BY <1>3, <2>2
      <3>2. h[i] = a + g[1] /\ h[i - 1] = a /\ u[i] = t[1]
        BY <1>1, <1>3, <1>8, <3>1
      <3>3. g[1] = g[1 - 1] + N[t[1].r]
        BY <1>5, <3>1
      <3>4. 1 - 1 = 0
        OBVIOUS
      <3> DEFINE e == N[t[1].r]
      <3>5. e \in Nat /\ g[1] = 0 + e
        BY <1>5, <1>6, <3>1, <3>3, <3>4
      <3> HIDE DEF e
      <3>6. g[1] = e
        BY <3>5
      <3> QED BY <3>2, <3>6 DEF e
    <2>3. CASE i > m + 1
      <3> DEFINE j == i - m
      <3>1. /\ i \in m + 1 .. m + n /\ i - 1 \in m + 1 .. m + n /\ j \in 1 .. n
            /\ (i - 1) - m = j - 1 /\ j - 1 \in 0 .. n
        BY <1>3, <2>3
      <3>2. h[i] = a + g[j] /\ h[i - 1] = a + g[j - 1] /\ u[i] = t[j]
        BY <1>3, <1>8, <3>1
      <3>3. g[j] = g[j - 1] + N[t[j].r] /\ g[j - 1] \in Nat /\ N[t[j].r] \in Nat
        BY <1>5, <1>6, <3>1
      <3> HIDE DEF j
      <3>4. a + (g[j - 1] + N[t[j].r]) = (a + g[j - 1]) + N[t[j].r]
        BY <3>3
      <3> QED BY <3>2, <3>3, <3>4
    <2> QED BY <1>3, <2>1, <2>2, <2>3
  <1>10. h[0] = 0
    BY <1>3, <1>4, <1>8
  <1>11. Runs(h, N, u)
    BY <1>3, <1>7, <1>9, <1>10 DEF Runs
  <1>12. h[m + n] = a + b
    <2>1. CASE n = 0
      <3>1. m + n = m /\ b = 0 /\ m \in 0 .. m
        BY <1>2, <1>3, <1>5, <2>1 DEF n
      <3>2. h[m] = a
        BY <1>1, <1>8, <3>1 DEF m
      <3> QED BY <3>1, <3>2
    <2>2. CASE n # 0
      <3>1. m + n \in m + 1 .. m + n /\ (m + n) - m = n
        BY <1>3, <2>2
      <3>2. g[n] = b
        BY <1>2 DEF n
      <3> QED BY <1>8, <3>1, <3>2
    <2> QED BY <2>1, <2>2
  <1> QED BY <1>3, <1>11, <1>12 DEF Counts

(* There is one number that it counts for.                                 *)
LEMMA CountsOnce ==
  ASSUME NEW N \in Weights, NEW s, s \in Seq(Tasks), NEW a \in Nat, Counts(N, s, a),
         NEW b \in Nat, Counts(N, s, b)
  PROVE  a = b
  <1> DEFINE m == Len(s)
  <1>1. PICK f : Runs(f, N, s) /\ f[m] = a
    BY DEF Counts
  <1>2. PICK g : Runs(g, N, s) /\ g[m] = b
    BY DEF Counts
  <1>3. m \in Nat
    OBVIOUS
  <1>4. f[0] = 0 /\ \A i \in 1 .. m : f[i] = f[i - 1] + N[s[i].r]
    BY <1>1 DEF Runs
  <1>5. g[0] = 0 /\ \A i \in 1 .. m : g[i] = g[i - 1] + N[s[i].r]
    BY <1>2 DEF Runs
  <1> HIDE DEF m
  <1> DEFINE K == {k \in 0 .. m : f[k] = g[k]}
  <1>6. 0 \in K
    BY <1>3, <1>4, <1>5
  <1>7. \A k \in 1 .. m : k - 1 \in K => k \in K
    BY <1>3, <1>4, <1>5
  <1> HIDE DEF K
  <1>8. \A k \in 0 .. m : k \in K
    BY <1>3, <1>6, <1>7, UpTo
  <1>9. m \in K
    BY <1>3, <1>8
  <1>10. f[m] = g[m]
    BY <1>9 DEF K
  <1> QED BY <1>1, <1>2, <1>10 DEF m

LEMMA HeadTail ==
  ASSUME NEW S, NEW s, s \in Seq(S), s # <<>>
  PROVE  Head(s) \in S /\ Tail(s) \in Seq(S) /\ s = Cat(<<Head(s)>>, Tail(s))
  BY HeadTailProperties DEF Cat

(* The elements of a sequence the first of which others have taken the     *)
(* place of.                                                               *)
LEMMA RestOf ==
  ASSUME NEW S, NEW s, s \in Seq(S), s # <<>>, NEW t, t \in Seq(S), NEW u, u = Cat(t, Tail(s)),
         NEW i \in DOMAIN u
  PROVE  (\E j \in DOMAIN s : u[i] = s[j]) \/ (\E j \in DOMAIN t : u[i] = t[j])
  <1> DEFINE m == Len(t)
             rest == Tail(s)
             n == Len(rest)
  <1>1. rest \in Seq(S) /\ n = Len(s) - 1 /\ \A k \in 1 .. n : rest[k] = s[k + 1]
    BY HeadTailProperties
  <1>2. /\ m \in Nat /\ n \in Nat /\ DOMAIN t = 1 .. m /\ DOMAIN s = 1 .. n + 1
    <2>1. DOMAIN s = 1 .. Len(s) /\ Len(s) \in Nat /\ DOMAIN t = 1 .. Len(t) /\ Len(t) \in Nat
      OBVIOUS
    <2>2. n \in Nat
      BY <1>1
    <2> QED BY <1>1, <2>1, <2>2
  <1> HIDE DEF rest
  <1>3. DOMAIN u = 1 .. m + n /\ \A k \in 1 .. m + n : u[k] = IF k <= m THEN t[k] ELSE rest[k - m]
    <2>1. u = t \o rest
      BY DEF Cat, rest
    <2>2. Len(u) = m + n /\ u \in Seq(S)
      BY <1>1, <2>1, ConcatProperties
    <2>3. \A k \in 1 .. m + n : u[k] = IF k <= m THEN t[k] ELSE rest[k - m]
      BY <1>1, <2>1, <2>2, ConcatProperties
    <2>4. DOMAIN u = 1 .. m + n
      BY <2>2
    <2> QED BY <2>3, <2>4
  <1> HIDE DEF m, n
  <1>4. i \in 1 .. m + n
    BY <1>3
  <1>5. CASE i <= m
    <2>1. i \in 1 .. m
      BY <1>2, <1>4, <1>5
    <2> QED BY <1>2, <1>3, <1>4, <1>5, <2>1
  <1>6. CASE ~(i <= m)
    <2>1. i - m \in 1 .. n /\ (i - m) + 1 \in 1 .. n + 1
      BY <1>2, <1>4, <1>6
    <2>2. u[i] = s[(i - m) + 1]
      BY <1>1, <1>3, <1>4, <1>6, <2>1
    <2> QED BY <1>2, <2>1, <2>2
  <1> QED BY <1>5, <1>6

LEMMA CountsSome ==
  ASSUME NEW N \in Weights, NEW s, s \in Seq(Tasks)
  PROVE  \E f : Runs(f, N, s)
  <1> DEFINE n == Len(s)
             step == [v \in Nat |-> [k \in 1 .. n |-> v + N[s[k].r]]]
  <1>1. n \in Nat
    OBVIOUS
  <1>2. \A k \in 1 .. n : N[s[k].r] \in Nat
    <2>1. \A k \in 1 .. n : s[k] \in Tasks
      OBVIOUS
    <2> QED BY <2>1, TasksAre DEF Weights
  <1> HIDE DEF n
  <1>3. step \in Steps(Nat, n) /\ \A v \in Nat, k \in 1 .. n : step[v][k] = v + N[s[k].r]
    BY <1>2 DEF Steps
  <1> HIDE DEF step
  <1>4. PICK f : Iterated(f, Nat, n, 0, step)
    BY <1>1, <1>3, Iterates
  <1>5. f \in [0 .. n -> Nat] /\ f[0] = 0 /\ \A k \in 1 .. n : f[k] = step[f[k - 1]][k]
    BY <1>4 DEF Iterated
  <1>6. ASSUME NEW k \in 1 .. n PROVE f[k] = f[k - 1] + N[s[k].r]
    <2>1. f[k - 1] \in Nat
      BY <1>1, <1>5
    <2> QED BY <1>3, <1>5, <2>1
  <1>7. Runs(f, N, s)
    BY <1>5, <1>6 DEF Runs, n
  <1> QED BY <1>7

LEMMA CountsRest ==
  ASSUME NEW N \in Weights, NEW s, s \in Seq(Tasks), s # <<>>, NEW n \in Nat, Counts(N, s, n)
  PROVE  \E m \in Nat : Counts(N, Tail(s), m) /\ n = N[Head(s).r] + m
  <1>1. Head(s) \in Tasks /\ Tail(s) \in Seq(Tasks) /\ s = Cat(<<Head(s)>>, Tail(s))
    BY HeadTail
  <1>2. PICK f : Runs(f, N, Tail(s))
    BY <1>1, CountsSome
  <1> DEFINE m == f[Len(Tail(s))]
             a == N[Head(s).r]
  <1>3. m \in Nat
    <2>1. Len(Tail(s)) \in Nat
      BY <1>1
    <2> QED BY <1>2, <2>1 DEF Runs
  <1>4. Counts(N, Tail(s), m)
    BY <1>2 DEF Counts
  <1>5. a \in Nat
    BY <1>1, TasksAre DEF Weights
  <1>6. Counts(N, <<Head(s)>>, a)
    BY <1>1, CountsOne
  <1>7. <<Head(s)>> \in Seq(Tasks)
    BY <1>1
  <1> HIDE DEF m, a
  <1>8. Counts(N, s, a + m)
    BY <1>1, <1>3, <1>4, <1>5, <1>6, <1>7, CountsCat
  <1>9. n = a + m
    <2> DEFINE b == a + m
    <2>1. b \in Nat
      BY <1>3, <1>5
    <2> HIDE DEF b
    <2>2. Counts(N, s, b)
      BY <1>8 DEF b
    <2>3. n = b
      BY <2>1, <2>2, CountsOnce
    <2> QED BY <2>3 DEF b
  <1> QED BY <1>3, <1>4, <1>9 DEF a

SplitEncodings == {"raw", "corre", "strips", "tight"}
Weight == [r \in Rectangle |-> NumCodedRects(r)]

LEMMA WeightIs == preferredEncoding \in SplitEncodings => Weight \in Weights
  <1> SUFFICES ASSUME preferredEncoding \in SplitEncodings, NEW r \in Rectangle
               PROVE  NumCodedRects(r) \in Nat
    BY DEF Weight, Weights
  <1> DEFINE rw == r.w
             rh == r.h
             high == SubrectHeight(r)
             lines == MaxLines(rw)
  <1>1. rw \in Nat \ {0} /\ rh \in Nat \ {0}
    BY RectanglesAre
  <1>2. high \in Nat \ {0}
    BY HeightIs
  <1>3. lines \in Nat \ {0}
    BY <1>1, LinesIs
  <1> HIDE DEF high, lines, rw, rh
  <1>4. /\ CeilDiv(rw, CorreMax) \in Nat /\ CeilDiv(rh, CorreMax) \in Nat
        /\ CeilDiv(rh, lines) \in Nat
        /\ CeilDiv(rw, MaxRectWidth) \in Nat /\ CeilDiv(rh, high) \in Nat
    BY <1>1, <1>2, <1>3, CeilIs, Limits
  <1>5. \A a, b \in Nat : a * b \in Nat
    OBVIOUS
  <1>6. /\ CeilDiv(rw, CorreMax) * CeilDiv(rh, CorreMax) \in Nat
        /\ CeilDiv(rw, MaxRectWidth) * CeilDiv(rh, high) \in Nat
    BY <1>4, <1>5
  <1>7. /\ preferredEncoding = "raw" => NumCodedRects(r) = 1
        /\ preferredEncoding = "corre"
           => NumCodedRects(r) = CeilDiv(rw, CorreMax) * CeilDiv(rh, CorreMax)
        /\ preferredEncoding = "strips" => NumCodedRects(r) = CeilDiv(rh, lines)
        /\ preferredEncoding = "tight" =>
             NumCodedRects(r) = IF TooLarge(r) THEN CeilDiv(rw, MaxRectWidth) * CeilDiv(rh, high)
             ELSE 1
    BY DEF NumCodedRects, rw, rh, high, lines
  <1> QED BY <1>4, <1>6, <1>7 DEF SplitEncodings

(*------------------------------- The invariant ----------------------------*)

SplitTypes ==
    /\ phase \in {"idle", "announce", "send", "sent"}
    /\ preferredEncoding \in SplitEncodings /\ enableLastRectEncoding \in BOOLEAN
    /\ nRects \in Nat \cup {Many}
    /\ updateRegion \in Seq(Rectangle)
    /\ todo \in Seq(Tasks)
    /\ sent \in Seq(Boxes)
    /\ phase \in {"idle", "announce"} => todo = <<>> /\ sent = <<>>
    /\ phase = "sent" => todo = <<>>

(* What is sent and what is left to send cover each pixel as the region    *)
(* does.                                                                   *)
Balance(x, y) ==
    Occurs(sent, Over(x, y)) + Occurs(todo, Under(x, y)) = Occurs(updateRegion, Over(x, y))
Balanced == phase \in {"send", "sent"} => \A x, y \in Nat : Balance(x, y)

TaskFits(t) ==
    /\ t.op = "solid" => Solid(t.r, Colour(t.r.x, t.r.y))
    /\ t.op = "search" => t.r.y <= t.dy

(* Where the number is announced, no call looks for areas of one colour.   *)
AsCounted(t) ==
    \/ preferredEncoding # "tight" /\ t.op = preferredEncoding
    \/ preferredEncoding = "tight" /\ nRects = Many
    \/ preferredEncoding = "tight" /\ t.op = "simple"
    \/ preferredEncoding = "tight" /\ t.op = "tight" /\ ~SearchesSolid(t.r)

Numbers ==
    phase = "send" =>
        /\ sent \in Seq(Rectangle)
        /\ \A i \in DOMAIN todo : TaskFits(todo[i]) /\ AsCounted(todo[i])
        /\ nRects # Many => \E n \in Nat : Counts(Weight, todo, n) /\ Len(sent) + n = nRects

SplitInv == SplitTypes /\ Balanced /\ Numbers /\ CountKept

(* A call under way is replaced by the calls it makes and the rectangles   *)
(* it sends.                                                               *)
Replaces(new, rects) ==
    /\ new \in Seq(Tasks) /\ rects \in Seq(Rectangle)
    /\ todo' = Cat(new, Tail(todo)) /\ sent' = Cat(sent, rects)
Covers(new, rects) ==
    \A x, y \in Nat :
      Occurs(new, Under(x, y)) + Occurs(rects, Over(x, y)) = Hit(x, y, Current.r)
Sound(new) == \A i \in DOMAIN new : TaskFits(new[i]) /\ AsCounted(new[i])
Numbered(new, rects) ==
    nRects # Many => \E m \in Nat : Counts(Weight, new, m) /\ Len(rects) + m = Weight[Current.r]
Good(new, rects) ==
    Replaces(new, rects) /\ Covers(new, rects) /\ Sound(new) /\ Numbered(new, rects)

(* What covers a pixel is counted along.                                   *)
LEMMA Exchange ==
  ASSUME NEW s, s \in Seq(Boxes), NEW t, t \in Seq(Tasks), t # <<>>, NEW new, new \in Seq(Tasks),
         NEW rects, rects \in Seq(Boxes), NEW x, NEW y,
         Occurs(new, Under(x, y)) + Occurs(rects, Over(x, y)) = Hit(x, y, Head(t).r),
         NEW t2, t2 = Cat(new, Tail(t)), NEW s2, s2 = Cat(s, rects)
  PROVE  Occurs(s2, Over(x, y)) + Occurs(t2, Under(x, y))
         = Occurs(s, Over(x, y)) + Occurs(t, Under(x, y))
  <1> DEFINE O == Over(x, y)
             U == Under(x, y)
             rest == Tail(t)
             one == <<Head(t)>>
             h == Hit(x, y, Head(t).r)
             os == Occurs(s, O)  orest == Occurs(rest, U)  onew == Occurs(new, U)
             orects == Occurs(rects, O)  ot == Occurs(t, U)
             os2 == Occurs(s2, O)  ot2 == Occurs(t2, U)
  <1>1. Head(t) \in Tasks /\ rest \in Seq(Tasks) /\ one \in Seq(Tasks) /\ t = Cat(one, rest)
    <2>1. Head(t) \in Tasks /\ Tail(t) \in Seq(Tasks) /\ t = Cat(<<Head(t)>>, Tail(t))
      BY HeadTail
    <2> QED BY <2>1
  <1>2. Occurs(one, U) = h
    BY <1>1, HitOne
  <1> HIDE DEF rest, one
  <1>3. ot = Occurs(one, U) + orest
    <2> HIDE DEF U
    <2> QED BY <1>1, OccursCat
  <1>4. ot2 = onew + orest
    <2>1. t2 = Cat(new, rest)
      BY DEF rest
    <2> HIDE DEF U
    <2> QED BY <1>1, <2>1, OccursCat
  <1>5. os2 = os + orects
    <2> HIDE DEF O
    <2> QED BY OccursCat
  <1>6. os \in Nat /\ orest \in Nat /\ onew \in Nat /\ orects \in Nat
    BY <1>1, OccursNat
  <1>7. onew + orects = h
    OBVIOUS
  <1> HIDE DEF h, os, orest, onew, orects, ot, os2, ot2
  <1>8. os2 + ot2 = os + ot
    BY <1>2, <1>3, <1>4, <1>5, <1>6, <1>7
  <1> QED BY <1>8 DEF os2, ot2, os, ot

LEMMA SendStep ==
  ASSUME SplitInv, Send, NEW new, NEW rects, Good(new, rects)
  PROVE  SplitInv'
  <1>1. /\ phase = "send" /\ todo # <<>>
        /\ phase' = phase /\ image' = image /\ updateRegion' = updateRegion
        /\ preferredEncoding' = preferredEncoding
        /\ enableLastRectEncoding' = enableLastRectEncoding /\ nRects' = nRects
    BY DEF Send
  <1>2. SplitTypes /\ Balanced /\ Numbers
    BY DEF SplitInv
  <1>3. todo \in Seq(Tasks) /\ sent \in Seq(Rectangle) /\ Rectangle \subseteq Boxes
    BY <1>1, <1>2, RectanglesAre DEF SplitTypes, Numbers
  <1>4. Head(todo) \in Tasks /\ Tail(todo) \in Seq(Tasks) /\ todo = Cat(<<Head(todo)>>, Tail(todo))
    BY <1>1, <1>3, HeadTail
  <1>5. /\ new \in Seq(Tasks) /\ rects \in Seq(Rectangle)
        /\ todo' = Cat(new, Tail(todo)) /\ sent' = Cat(sent, rects)
    BY DEF Good, Replaces
  <1>6. todo' \in Seq(Tasks) /\ sent' \in Seq(Rectangle) /\ sent' \in Seq(Boxes)
    <2>1. todo' \in Seq(Tasks) /\ sent' \in Seq(Rectangle)
      BY <1>3, <1>4, <1>5, ConcatProperties DEF Cat
    <2> QED BY <1>3, <2>1
  <1>7. SplitTypes'
    BY <1>1, <1>2, <1>6 DEF SplitTypes, Many
  <1>8. Balanced'
    <2> SUFFICES ASSUME NEW x \in Nat, NEW y \in Nat PROVE Balance(x, y)'
      BY DEF Balanced
    <2>1. Occurs(sent, Over(x, y)) + Occurs(todo, Under(x, y)) = Occurs(updateRegion, Over(x, y))
      BY <1>1, <1>2 DEF Balanced, Balance
    <2>2. Occurs(new, Under(x, y)) + Occurs(rects, Over(x, y)) = Hit(x, y, Head(todo).r)
      BY DEF Good, Covers, Current
    <2>3. rects \in Seq(Boxes) /\ sent \in Seq(Boxes)
      BY <1>3, <1>5
    <2>4. PICK t2 : t2 = todo'
      OBVIOUS
    <2>5. PICK s2 : s2 = sent'
      OBVIOUS
    <2>6. Occurs(s2, Over(x, y)) + Occurs(t2, Under(x, y))
          = Occurs(sent, Over(x, y)) + Occurs(todo, Under(x, y))
      BY <1>1, <1>3, <1>5, <2>2, <2>3, <2>4, <2>5, Exchange
    <2> QED BY <1>1, <2>1, <2>4, <2>5, <2>6 DEF Balance
  <1>9. Numbers'
    <2>1. \A t : (TaskFits(t)' <=> TaskFits(t)) /\ (AsCounted(t)' <=> AsCounted(t))
      BY <1>1 DEF TaskFits, AsCounted, SearchesSolid, Solid, Colour
    <2>2. \A i \in DOMAIN todo' : TaskFits(todo'[i]) /\ AsCounted(todo'[i])
      <3>1. \A i \in DOMAIN todo : TaskFits(todo[i]) /\ AsCounted(todo[i])
        BY <1>1, <1>2 DEF Numbers
      <3>2. \A i \in DOMAIN new : TaskFits(new[i]) /\ AsCounted(new[i])
        BY DEF Good, Sound
      <3> SUFFICES ASSUME NEW i \in DOMAIN todo' PROVE TaskFits(todo'[i]) /\ AsCounted(todo'[i])
        OBVIOUS
      <3>3. (\E j \in DOMAIN todo : todo'[i] = todo[j]) \/ (\E j \in DOMAIN new : todo'[i] = new[j])
        BY <1>1, <1>3, <1>5, RestOf
      <3> QED BY <3>1, <3>2, <3>3
    <2>3. Weight' = Weight
      BY <1>1 DEF Weight, NumCodedRects
    <2>4. ASSUME nRects # Many PROVE \E n \in Nat : Counts(Weight, todo', n)
                 /\ Len(sent') + n = nRects
      <3>1. PICK n \in Nat : Counts(Weight, todo, n) /\ Len(sent) + n = nRects
        BY <1>1, <1>2, <2>4 DEF Numbers
      <3>2. Weight \in Weights
        BY <1>2, WeightIs DEF SplitTypes
      <3>3. PICK m \in Nat : Counts(Weight, Tail(todo), m) /\ n = Weight[Head(todo).r] + m
        BY <1>1, <1>3, <3>1, <3>2, CountsRest
      <3>4. PICK k \in Nat : Counts(Weight, new, k) /\ Len(rects) + k = Weight[Head(todo).r]
        BY <2>4 DEF Good, Numbered, Current
      <3>5. Counts(Weight, todo', k + m)
        BY <1>4, <1>5, <3>2, <3>3, <3>4, CountsCat
      <3>6. Len(sent') = Len(sent) + Len(rects) /\ Len(sent) \in Nat /\ Len(rects) \in Nat
        BY <1>3, <1>5, ConcatProperties DEF Cat
      <3>7. k + m \in Nat /\ Len(sent') + (k + m) = nRects
        BY <3>1, <3>3, <3>4, <3>6
      <3> QED BY <3>5, <3>7
    <2> QED BY <1>1, <1>6, <2>1, <2>2, <2>3, <2>4 DEF Numbers
  <1>10. CountKept'
    BY <1>1 DEF CountKept
  <1> QED BY <1>7, <1>8, <1>9, <1>10 DEF SplitInv

(*------------------------------ The encoders ------------------------------*)

LEMMA NoTask ==
  ASSUME NEW x, NEW y, NEW N
  PROVE  /\ <<>> \in Seq(Tasks) /\ <<>> \in Seq(Rectangle)
         /\ Occurs(<<>>, Over(x, y)) = 0 /\ Occurs(<<>>, Under(x, y)) = 0
         /\ Counts(N, <<>>, 0)
  BY OccursNone, CountsNone

LEMMA TwoTasks ==
  ASSUME NEW a \in Tasks, NEW b \in Tasks, NEW N \in Weights
  PROVE  /\ <<a, b>> \in Seq(Tasks)
         /\ \A x, y : Occurs(<<a, b>>, Under(x, y)) = Hit(x, y, a.r) + Hit(x, y, b.r)
         /\ Counts(N, <<a, b>>, N[a.r] + N[b.r])
         /\ \A i \in DOMAIN <<a, b>> : <<a, b>>[i] = a \/ <<a, b>>[i] = b
  <1> DEFINE u == <<a, b>>
             s == <<a>>
             t == <<b>>
  <1>1. s \in Seq(Tasks) /\ t \in Seq(Tasks) /\ u = Cat(s, t)
    <2>1. s \in Seq(Tasks) /\ t \in Seq(Tasks)
      OBVIOUS
    <2>2. <<a, b>> = <<a>> \o <<b>>
      <3> DEFINE v == <<a, b>>
                 w == s \o t
      <3>1. v \in Seq(Tasks) /\ Len(v) = 2 /\ v[1] = a /\ v[2] = b
        OBVIOUS
      <3>2. w \in Seq(Tasks) /\ Len(w) = 2 /\ w[1] = a /\ w[2] = b
        <4>1. Len(s) = 1 /\ Len(t) = 1 /\ s[1] = a /\ t[1] = b
          OBVIOUS
        <4> HIDE DEF s, t
        <4>2. w \in Seq(Tasks) /\ Len(w) = 2
          BY <2>1, <4>1, ConcatProperties
        <4>3. w[1] = s[1] /\ w[2] = t[2 - 1]
          BY <2>1, <4>1, ConcatProperties
        <4> QED BY <4>1, <4>2, <4>3
      <3> HIDE DEF v, w
      <3>3. \A i \in 1 .. Len(v) : v[i] = w[i]
        BY <3>1, <3>2
      <3> v = w
        BY <3>1, <3>2, <3>3, SeqEqual
      <3> QED BY DEF v, w
    <2> QED BY <2>1, <2>2 DEF Cat
  <1>2. N[a.r] \in Nat /\ N[b.r] \in Nat
    BY TasksAre DEF Weights
  <1>3. Counts(N, s, N[a.r]) /\ Counts(N, t, N[b.r])
    BY CountsOne
  <1>4. \A x, y : Occurs(s, Under(x, y)) = Hit(x, y, a.r) /\ Occurs(t, Under(x, y)) = Hit(x, y, b.r)
    BY HitOne
  <1>5. \A i \in DOMAIN u : u[i] = a \/ u[i] = b
    OBVIOUS
  <1> HIDE DEF u, s, t
  <1>6. u \in Seq(Tasks) /\ \A P : Occurs(u, P) = Occurs(s, P) + Occurs(t, P)
    BY <1>1, OccursCat
  <1>7. Counts(N, u, N[a.r] + N[b.r])
    BY <1>1, <1>2, <1>3, CountsCat
  <1> QED BY <1>4, <1>5, <1>6, <1>7 DEF u

LEMMA OneTask ==
  ASSUME NEW a \in Tasks, NEW N \in Weights
  PROVE  /\ <<a>> \in Seq(Tasks)
         /\ \A x, y : Occurs(<<a>>, Under(x, y)) = Hit(x, y, a.r)
         /\ Counts(N, <<a>>, N[a.r])
         /\ \A i \in DOMAIN <<a>> : <<a>>[i] = a
  BY HitOne, CountsOne

LEMMA OneRect ==
  ASSUME NEW r \in Rectangle
  PROVE  /\ <<r>> \in Seq(Rectangle) /\ Len(<<r>>) = 1
         /\ \A x, y : Occurs(<<r>>, Over(x, y)) = Hit(x, y, r)
  BY HitOne, RectanglesAre

LEMMA HitIs == \A x, y, r : Hit(x, y, r) \in {0, 1}
  BY DEF Hit

(* The call that an encoder is about to go on with.                        *)
Sending == SplitInv /\ phase = "send" /\ todo # <<>>

LEMMA CurrentIs ==
  ASSUME Sending
  PROVE  /\ Current \in Tasks /\ Current.r \in Rectangle /\ Tail(todo) \in Seq(Tasks)
         /\ TaskFits(Current) /\ AsCounted(Current)
         /\ Weight \in Weights /\ preferredEncoding \in SplitEncodings
         /\ sent \in Seq(Rectangle)
         /\ sent = Cat(sent, <<>>) /\ Tail(todo) = Cat(<<>>, Tail(todo))
  <1>1. SplitTypes /\ Numbers /\ phase = "send" /\ todo # <<>>
    BY DEF Sending, SplitInv
  <1>2. todo \in Seq(Tasks) /\ preferredEncoding \in SplitEncodings /\ sent \in Seq(Rectangle)
    BY <1>1 DEF SplitTypes, Numbers
  <1>3. Current \in Tasks /\ Tail(todo) \in Seq(Tasks)
    BY <1>1, <1>2, HeadTail DEF Current
  <1>4. 1 \in DOMAIN todo /\ Current = todo[1]
    BY <1>1, <1>2 DEF Current
  <1>5. TaskFits(Current) /\ AsCounted(Current)
    BY <1>1, <1>4 DEF Numbers
  <1>6. sent = Cat(sent, <<>>) /\ Tail(todo) = Cat(<<>>, Tail(todo))
    BY <1>2, <1>3, ConcatEmptySeq DEF Cat
  <1> QED BY <1>2, <1>3, <1>5, <1>6, WeightIs, TasksAre

(* A rectangle is sent as it is.                                           *)
LEMMA SentWhole ==
  ASSUME Sending, sent' = sent \o <<Current.r>>, todo' = Tail(todo),
         nRects # Many => Weight[Current.r] = 1
  PROVE  \E new, rects : Good(new, rects)
  <1> DEFINE r == Current.r
             one == <<r>>
  <1>1. r \in Rectangle /\ Tail(todo) = Cat(<<>>, Tail(todo))
    BY CurrentIs
  <1>2. one \in Seq(Rectangle) /\ Len(one) = 1 /\ \A x, y : Occurs(one, Over(x, y)) = Hit(x, y, r)
    BY <1>1, OneRect
  <1>3. Replaces(<<>>, one)
    BY <1>1, <1>2, NoTask DEF Replaces, Cat
  <1> HIDE DEF one
  <1>4. Covers(<<>>, one)
    <2> SUFFICES ASSUME NEW x \in Nat, NEW y \in Nat
                 PROVE  Occurs(<<>>, Under(x, y)) + Occurs(one, Over(x, y)) = Hit(x, y, r)
      BY DEF Covers
    <2>1. Occurs(one, Over(x, y)) = Hit(x, y, r) /\ Hit(x, y, r) \in {0, 1}
      BY <1>2, HitIs
    <2>2. Occurs(<<>>, Under(x, y)) = 0
      BY NoTask
    <2> QED BY <2>1, <2>2
  <1>5. Sound(<<>>)
    BY DEF Sound
  <1>6. Numbered(<<>>, one)
    BY <1>2, NoTask DEF Numbered
  <1> QED BY <1>3, <1>4, <1>5, <1>6 DEF Good

(* A rectangle is cut in two, each with a call of its own.                 *)
LEMMA InTwo ==
  ASSUME Sending, NEW s \in Tasks, NEW t \in Tasks, sent' = sent,
         todo' = <<s, t>> \o Tail(todo),
         \A x, y \in Nat : Hit(x, y, s.r) + Hit(x, y, t.r) = Hit(x, y, Current.r),
         TaskFits(s), AsCounted(s), TaskFits(t), AsCounted(t),
         nRects # Many => Weight[s.r] + Weight[t.r] = Weight[Current.r]
  PROVE  \E new, rects : Good(new, rects)
  <1> DEFINE r == Current.r
             N == Weight
             new == <<s, t>>
  <1>1. r \in Rectangle /\ N \in Weights /\ sent = Cat(sent, <<>>)
    BY CurrentIs
  <1>2. /\ new \in Seq(Tasks)
        /\ \A x, y : Occurs(new, Under(x, y)) = Hit(x, y, s.r) + Hit(x, y, t.r)
        /\ Counts(N, new, N[s.r] + N[t.r])
        /\ \A i \in DOMAIN new : new[i] = s \/ new[i] = t
    BY <1>1, TwoTasks
  <1>3. Replaces(new, <<>>)
    BY <1>1, <1>2, NoTask DEF Replaces, Cat
  <1> HIDE DEF new
  <1>4. Covers(new, <<>>)
    <2> SUFFICES ASSUME NEW x \in Nat, NEW y \in Nat
                 PROVE  Occurs(new, Under(x, y)) + Occurs(<<>>, Over(x, y)) = Hit(x, y, r)
      BY DEF Covers
    <2>1. Occurs(new, Under(x, y)) = Hit(x, y, r) /\ Hit(x, y, r) \in {0, 1}
      BY <1>2, HitIs
    <2>2. Occurs(<<>>, Over(x, y)) = 0
      BY NoTask
    <2> QED BY <2>1, <2>2
  <1>5. Sound(new)
    BY <1>2 DEF Sound
  <1>6. Numbered(new, <<>>)
    <2> SUFFICES ASSUME nRects # Many
                 PROVE  \E m \in Nat : Counts(N, new, m) /\ Len(<<>>) + m = N[r]
      BY DEF Numbered
    <2>1. N[s.r] + N[t.r] = N[r] /\ N[r] \in Nat /\ Len(<<>>) = 0
      BY <1>1 DEF Weights
    <2>2. Counts(N, new, N[r])
      BY <1>2, <2>1
    <2> QED BY <2>1, <2>2
  <1> QED BY <1>3, <1>4, <1>5, <1>6 DEF Good

(* A rectangle goes on to a single call.                                   *)
LEMMA GoesOn ==
  ASSUME Sending, NEW t \in Tasks, t.r = Current.r, sent' = sent,
         todo' = <<t>> \o Tail(todo), TaskFits(t), AsCounted(t)
  PROVE  \E new, rects : Good(new, rects)
  <1> DEFINE r == Current.r
             N == Weight
             new == <<t>>
  <1>1. r \in Rectangle /\ N \in Weights /\ sent = Cat(sent, <<>>)
    BY CurrentIs
  <1>2. /\ new \in Seq(Tasks)
        /\ \A x, y : Occurs(new, Under(x, y)) = Hit(x, y, r)
        /\ Counts(N, new, N[r])
        /\ \A i \in DOMAIN new : new[i] = t
    BY <1>1, OneTask
  <1>3. Replaces(new, <<>>)
    BY <1>1, <1>2, NoTask DEF Replaces, Cat
  <1> HIDE DEF new
  <1>4. Covers(new, <<>>)
    <2> SUFFICES ASSUME NEW x \in Nat, NEW y \in Nat
                 PROVE  Occurs(new, Under(x, y)) + Occurs(<<>>, Over(x, y)) = Hit(x, y, r)
      BY DEF Covers
    <2>1. Occurs(new, Under(x, y)) = Hit(x, y, r) /\ Hit(x, y, r) \in {0, 1}
      BY <1>2, HitIs
    <2>2. Occurs(<<>>, Over(x, y)) = 0
      BY NoTask
    <2> QED BY <2>1, <2>2
  <1>5. Sound(new)
    BY <1>2 DEF Sound
  <1>6. Numbered(new, <<>>)
    <2>1. N[r] \in Nat /\ Len(<<>>) = 0
      BY <1>1 DEF Weights
    <2> QED BY <1>2, <2>1 DEF Numbered
  <1> QED BY <1>3, <1>4, <1>5, <1>6 DEF Good

LEMMA CorreGood ==
  ASSUME Sending, Corre PROVE \E new, rects : Good(new, rects)
  <1> DEFINE r == Current.r
             rw == r.w
             rh == r.h
             M == CorreMax
             N == Weight
  <1>1. Current \in Tasks /\ r \in Rectangle /\ AsCounted(Current)
    BY CurrentIs
  <1>2. rw \in Nat \ {0} /\ rh \in Nat \ {0} /\ M \in Nat \ {0}
    BY <1>1, RectanglesAre, Limits
  <1>3. Current.op = "corre"
    BY DEF Corre
  <1>4. ASSUME NEW t, t.op = "corre" PROVE AsCounted(t) /\ TaskFits(t)
    BY <1>1, <1>3, <1>4 DEF AsCounted, TaskFits
  <1>5. \A a \in Rectangle : nRects # Many => N[a] = CeilDiv(a.w, M) * CeilDiv(a.h, M)
    <2> SUFFICES ASSUME NEW a \in Rectangle, nRects # Many
                 PROVE  N[a] = CeilDiv(a.w, M) * CeilDiv(a.h, M)
      OBVIOUS
    <2>1. preferredEncoding = "corre"
      BY <1>1, <1>3 DEF AsCounted
    <2> QED BY <2>1 DEF Weight, NumCodedRects
  <1>6. CASE rh > M
    <2> DEFINE a == Rect(r.x, r.y, rw, M)
               b == Rect(r.x, r.y + M, rw, rh - M)
               s == Task("corre", a)
               t == Task("corre", b)
    <2>1. M \in 1 .. rh - 1
      BY <1>2, <1>6
    <2>2. a \in Rectangle /\ b \in Rectangle
          /\ \A x, y \in Nat : Hit(x, y, a) + Hit(x, y, b) = Hit(x, y, r)
      BY <1>1, <2>1, CutAcross
    <2>3. s \in Tasks /\ t \in Tasks /\ s.op = "corre" /\ t.op = "corre" /\ s.r = a /\ t.r = b
      BY <2>2, TasksAre DEF Ops
    <2>4. todo' = <<s, t>> \o Tail(todo) /\ sent' = sent
      BY <1>2, <1>6 DEF Corre, Calls
    <2>5. /\ a.w = rw /\ a.h = M /\ b.w = rw /\ b.h = rh - M
      BY DEF Rect
    <2>6. AsCounted(s) /\ TaskFits(s) /\ AsCounted(t) /\ TaskFits(t)
      BY <1>4, <2>3
    <2> HIDE DEF a, b, s, t
    <2>7. nRects # Many => N[a] + N[b] = N[r]
      <3> SUFFICES ASSUME nRects # Many PROVE N[a] + N[b] = N[r]
        OBVIOUS
      <3> DEFINE c == CeilDiv(rw, M)
                 d == CeilDiv(rh - M, M)
      <3>1. N[a] = c * CeilDiv(M, M) /\ N[b] = c * d /\ N[r] = c * CeilDiv(rh, M)
        BY <1>1, <1>5, <2>2, <2>5
      <3>2. CeilDiv(M, M) = 1 /\ CeilDiv(rh, M) = 1 + d /\ c \in Nat
        <4> HIDE DEF rw, rh, M
        <4>1. CeilDiv(M, M) = 1
          BY <1>2, CeilIs
        <4>2. CeilDiv(rh, M) = 1 + d
          BY <1>2, <1>6, CeilIs
        <4>3. c \in Nat
          BY <1>2, CeilIs
        <4> QED BY <4>1, <4>2, <4>3
      <3>3. d \in Nat
        <4>1. rh - M \in Nat \ {0}
          BY <1>2, <1>6
        <4> QED BY <1>2, <4>1, CeilIs
      <3> HIDE DEF c, d
      <3>4. c * 1 + c * d = c * (1 + d)
        BY <3>2, <3>3
      <3> QED BY <3>1, <3>2, <3>4
    <2> QED BY <2>2, <2>3, <2>4, <2>6, <2>7, InTwo
  <1>7. CASE rh <= M /\ rw > M
    <2> DEFINE a == Rect(r.x, r.y, M, rh)
               b == Rect(r.x + M, r.y, rw - M, rh)
               s == Task("corre", a)
               t == Task("corre", b)
    <2>1. M \in 1 .. rw - 1
      BY <1>2, <1>7
    <2>2. a \in Rectangle /\ b \in Rectangle
          /\ \A x, y \in Nat : Hit(x, y, a) + Hit(x, y, b) = Hit(x, y, r)
      BY <1>1, <2>1, CutDown
    <2>3. s \in Tasks /\ t \in Tasks /\ s.op = "corre" /\ t.op = "corre" /\ s.r = a /\ t.r = b
      BY <2>2, TasksAre DEF Ops
    <2>4. todo' = <<s, t>> \o Tail(todo) /\ sent' = sent
      BY <1>2, <1>7 DEF Corre, Calls
    <2>5. /\ a.w = M /\ a.h = rh /\ b.w = rw - M /\ b.h = rh
      BY DEF Rect
    <2>6. AsCounted(s) /\ TaskFits(s) /\ AsCounted(t) /\ TaskFits(t)
      BY <1>4, <2>3
    <2> HIDE DEF a, b, s, t
    <2>7. nRects # Many => N[a] + N[b] = N[r]
      <3> SUFFICES ASSUME nRects # Many PROVE N[a] + N[b] = N[r]
        OBVIOUS
      <3> DEFINE c == CeilDiv(rh, M)
                 d == CeilDiv(rw - M, M)
      <3>1. N[a] = CeilDiv(M, M) * c /\ N[b] = d * c /\ N[r] = CeilDiv(rw, M) * c
        BY <1>1, <1>5, <2>2, <2>5
      <3>2. CeilDiv(M, M) = 1 /\ CeilDiv(rw, M) = 1 + d /\ c \in Nat
        <4> HIDE DEF rw, rh, M
        <4>1. CeilDiv(M, M) = 1
          BY <1>2, CeilIs
        <4>2. CeilDiv(rw, M) = 1 + d
          BY <1>2, <1>7, CeilIs
        <4>3. c \in Nat
          BY <1>2, CeilIs
        <4> QED BY <4>1, <4>2, <4>3
      <3>3. d \in Nat
        <4>1. rw - M \in Nat \ {0}
          BY <1>2, <1>7
        <4> QED BY <1>2, <4>1, CeilIs
      <3> HIDE DEF c, d
      <3>4. 1 * c + d * c = (1 + d) * c
        BY <3>2, <3>3
      <3> QED BY <3>1, <3>2, <3>4
    <2> QED BY <2>2, <2>3, <2>4, <2>6, <2>7, InTwo
  <1>8. CASE rh <= M /\ rw <= M
    <2>1. sent' = sent \o <<r>> /\ todo' = Tail(todo)
      BY <1>2, <1>8 DEF Corre, Sends
    <2>2. nRects # Many => N[r] = 1
      <3>1. CeilDiv(rw, M) = 1 /\ CeilDiv(rh, M) = 1
        BY <1>2, <1>8, CeilIs
      <3> QED BY <1>1, <1>5, <3>1
    <2> QED BY <1>1, <2>1, <2>2, SentWhole
  <1> QED BY <1>2, <1>6, <1>7, <1>8

LEMMA WholeGood ==
  ASSUME Sending, Whole PROVE \E new, rects : Good(new, rects)
  <1>1. Current.r \in Rectangle /\ AsCounted(Current) /\ preferredEncoding \in SplitEncodings
    BY CurrentIs
  <1>2. Current.op \in {"raw", "solid"} /\ sent' = sent \o <<Current.r>> /\ todo' = Tail(todo)
    BY DEF Whole, Sends
  <1>3. nRects # Many => Weight[Current.r] = 1
    <2> SUFFICES ASSUME nRects # Many PROVE Weight[Current.r] = 1
      OBVIOUS
    <2>1. preferredEncoding = "raw"
      BY <1>1, <1>2 DEF AsCounted, SplitEncodings
    <2> QED BY <1>1, <2>1 DEF Weight, NumCodedRects
  <1> QED BY <1>2, <1>3, SentWhole

LEMMA TightGood ==
  ASSUME Sending, Tight PROVE \E new, rects : Good(new, rects)
  <1> DEFINE r == Current.r
             op == IF SearchesSolid(r) THEN "search" ELSE "simple"
             t == Task(op, r)
  <1>1. r \in Rectangle /\ AsCounted(Current) /\ preferredEncoding \in SplitEncodings
    BY CurrentIs
  <1>2. Current.op = "tight" /\ todo' = <<t>> \o Tail(todo) /\ sent' = sent
    BY DEF Tight, Calls
  <1>3. t \in Tasks /\ t.op = op /\ t.r = r /\ t.dy = r.y
    BY <1>1, TasksAre DEF Ops
  <1>4. TaskFits(t)
    <2>1. r.y \in Nat
      BY <1>1, RectanglesAre
    <2> QED BY <1>3, <2>1 DEF TaskFits
  <1>5. AsCounted(t)
    <2>1. CASE nRects = Many
      BY <1>1, <1>2, <2>1 DEF AsCounted, SplitEncodings
    <2>2. CASE nRects # Many
      <3>1. preferredEncoding = "tight" /\ ~SearchesSolid(r)
        BY <1>1, <1>2, <2>2 DEF AsCounted
      <3> QED BY <1>3, <3>1 DEF AsCounted
    <2> QED BY <2>1, <2>2
  <1> HIDE DEF t
  <1> QED BY <1>2, <1>3, <1>4, <1>5, GoesOn

LEMMA StripsGood ==
  ASSUME Sending, Strips PROVE \E new, rects : Good(new, rects)
  <1> DEFINE r == Current.r
             rw == r.w
             rh == r.h
             most == MaxLines(rw)
             N == Weight
  <1>1. Current \in Tasks /\ r \in Rectangle /\ AsCounted(Current) /\ N \in Weights
    BY CurrentIs
  <1>2. rw \in Nat \ {0} /\ rh \in Nat \ {0} /\ r = Rect(r.x, r.y, rw, rh)
    BY <1>1, RectanglesAre
  <1>3. most \in Nat \ {0}
    BY <1>2, LinesIs
  <1>4. Current.op = "strips"
    BY DEF Strips
  <1>5. ASSUME nRects # Many, NEW a \in Rectangle PROVE N[a] = CeilDiv(a.h, MaxLines(a.w))
    <2>1. preferredEncoding = "strips"
      BY <1>1, <1>4, <1>5 DEF AsCounted
    <2> QED BY <2>1 DEF Weight, NumCodedRects
  <1>6. CASE rh <= most
    <2>1. Least(most, rh) = rh
      <3> HIDE DEF most, rh
      <3> QED BY <1>2, <1>3, <1>6 DEF Least
    <2>2. sent' = Append(sent, Rect(r.x, r.y, rw, rh)) /\ todo' = <<>> \o Tail(todo)
      BY <2>1 DEF Strips
    <2>3. sent' = sent \o <<r>> /\ todo' = Tail(todo)
      <3>1. sent \in Seq(Rectangle) /\ Tail(todo) = <<>> \o Tail(todo)
        BY CurrentIs DEF Cat
      <3> QED BY <1>1, <1>2, <2>2, <3>1, AppendIsConcat
    <2>4. nRects # Many => N[r] = 1
      <3>1. CeilDiv(rh, most) = 1
        <4> HIDE DEF most, rh
        <4> QED BY <1>2, <1>3, <1>6, CeilIs
      <3> QED BY <1>1, <1>5, <3>1
    <2> QED BY <2>3, <2>4, SentWhole
  <1>7. CASE rh > most
    <2> DEFINE a == Rect(r.x, r.y, rw, most)
               b == Rect(r.x, r.y + most, rw, rh - most)
               t == Task("strips", b)
               new == <<t>>
               one == <<a>>
    <2>1. Least(most, rh) = most /\ most # rh /\ most \in 1 .. rh - 1
      <3> HIDE DEF most, rh
      <3> QED BY <1>2, <1>3, <1>7 DEF Least
    <2>2. a \in Rectangle /\ b \in Rectangle
          /\ \A x, y \in Nat : Hit(x, y, a) + Hit(x, y, b) = Hit(x, y, r)
      <3> DEFINE n == most
      <3>1. n \in 1 .. r.h - 1
        BY <2>1
      <3> HIDE DEF n
      <3>2. /\ Rect(r.x, r.y, r.w, n) \in Rectangle
            /\ Rect(r.x, r.y + n, r.w, r.h - n) \in Rectangle
            /\ \A x, y \in Nat : Hit(x, y, Rect(r.x, r.y, r.w, n))
                                 + Hit(x, y, Rect(r.x, r.y + n, r.w, r.h - n)) = Hit(x, y, r)
        BY <1>1, <3>1, CutAcross
      <3> QED BY <3>2 DEF n
    <2>3. t \in Tasks /\ t.op = "strips" /\ t.r = b
      BY <2>2, TasksAre DEF Ops
    <2>4. sent' = Append(sent, a) /\ todo' = new \o Tail(todo)
      BY <2>1 DEF Strips
    <2>5. a.w = rw /\ a.h = most /\ b.w = rw /\ b.h = rh - most
      BY DEF Rect
    <2>6. AsCounted(t) /\ TaskFits(t)
      BY <1>1, <1>4, <2>3 DEF AsCounted, TaskFits
    <2> HIDE DEF a, b, t
    <2>7. /\ new \in Seq(Tasks)
          /\ \A x, y : Occurs(new, Under(x, y)) = Hit(x, y, t.r)
          /\ Counts(N, new, N[t.r])
          /\ \A i \in DOMAIN new : new[i] = t
      BY <1>1, <2>3, OneTask
    <2>8. one \in Seq(Rectangle) /\ Len(one) = 1 /\ \A x, y : Occurs(one, Over(x, y)) = Hit(x, y, a)
      BY <2>2, OneRect
    <2>9. Replaces(new, one)
      <3>1. sent \in Seq(Rectangle)
        BY CurrentIs
      <3>2. sent' = sent \o one
        BY <2>2, <2>4, <3>1, AppendIsConcat
      <3> QED BY <2>4, <2>7, <2>8, <3>2 DEF Replaces, Cat
    <2> HIDE DEF new, one
    <2>10. Covers(new, one)
      <3> SUFFICES ASSUME NEW x \in Nat, NEW y \in Nat
                   PROVE  Occurs(new, Under(x, y)) + Occurs(one, Over(x, y)) = Hit(x, y, r)
        BY DEF Covers
      <3>1. Occurs(new, Under(x, y)) = Hit(x, y, b) /\ Occurs(one, Over(x, y)) = Hit(x, y, a)
        BY <2>3, <2>7, <2>8
      <3>2. Hit(x, y, a) + Hit(x, y, b) = Hit(x, y, r) /\ Hit(x, y, a) \in {0, 1}
            /\ Hit(x, y, b) \in {0, 1}
        BY <2>2, HitIs
      <3> QED BY <3>1, <3>2
    <2>11. Sound(new)
      BY <2>6, <2>7 DEF Sound
    <2>12. Numbered(new, one)
      <3> SUFFICES ASSUME nRects # Many
                   PROVE  \E m \in Nat : Counts(N, new, m) /\ Len(one) + m = N[r]
        BY DEF Numbered
      <3>1. N[b] = CeilDiv(rh - most, most) /\ N[r] = CeilDiv(rh, most) /\ N[b] \in Nat
        BY <1>1, <1>5, <2>2, <2>5 DEF Weights
      <3>2. CeilDiv(rh, most) = 1 + CeilDiv(rh - most, most)
        <4> HIDE DEF most, rh
        <4> QED BY <1>2, <1>3, <1>7, CeilIs
      <3> QED BY <2>3, <2>7, <2>8, <3>1, <3>2
    <2> QED BY <2>9, <2>10, <2>11, <2>12 DEF Good
  <1> QED BY <1>2, <1>3, <1>6, <1>7

(*--------------------------------- The grid -------------------------------*)

LEMMA MultMonotone ==
  ASSUME NEW b \in Nat, NEW p \in Nat, NEW q \in Nat, p <= q
  PROVE  p * b \in Nat /\ q * b \in Nat /\ p * b <= q * b /\ (p < q => p * b + b <= q * b)
  <1>1. \A c, d \in Nat : c * d \in Nat
    OBVIOUS
  <1>2. PICK k \in Nat : q = p + k
    <2>1. q - p \in Nat /\ q = p + (q - p)
      OBVIOUS
    <2> QED BY <2>1
  <1>3. q * b = p * b + k * b /\ k * b \in Nat /\ p * b \in Nat
    BY <1>1, <1>2
  <1>4. ASSUME p < q PROVE p * b + b <= q * b
    <2>1. PICK j \in Nat : k = j + 1
      <3>1. k - 1 \in Nat /\ k = (k - 1) + 1
        BY <1>2, <1>4
      <3> QED BY <3>1
    <2>2. k * b = j * b + b /\ j * b \in Nat
      BY <1>1, <2>1
    <2> QED BY <1>3, <2>2
  <1> QED BY <1>3, <1>4

(* The stripes of d that make up n.                                        *)
StripeAt(o, d, p) == o + p * d
StripeSize(n, d, p) == Least(d, n - p * d)
Stripe(o, n, d, p) == StripeAt(o, d, p) .. StripeAt(o, d, p) + StripeSize(n, d, p) - 1

StripeIs(o, n, d, p) ==
    /\ StripeAt(o, d, p) \in Nat /\ StripeSize(n, d, p) \in Nat \ {0}
    /\ \A x \in Nat : x \in Stripe(o, n, d, p) <=> x \in o .. o + n - 1 /\ p = (x - o) \div d

LEMMA Stripes ==
  ASSUME NEW n \in Nat \ {0}, NEW d \in Nat \ {0}, NEW o \in Nat, NEW p \in 0 .. CeilDiv(n, d) - 1
  PROVE  StripeIs(o, n, d, p)
  <1> DEFINE q == (n - 1) \div d
             c == (n - 1) % d
             a == p * d
  <1>1. n - 1 \in Nat
    OBVIOUS
  <1>2. q \in Nat /\ c \in 0 .. d - 1 /\ n - 1 = q * d + c
    BY <1>1, Division
  <1>3. CeilDiv(n, d) = q + 1
    BY DEF CeilDiv
  <1> HIDE DEF q, c
  <1>4. p \in Nat /\ p <= q
    BY <1>2, <1>3
  <1>5. a \in Nat /\ a <= q * d /\ q * d \in Nat
    BY <1>2, <1>4, MultMonotone
  <1>6. a <= n - 1
    BY <1>2, <1>5
  <1> HIDE DEF a
  <1>7. o + a \in Nat /\ Least(d, n - a) \in Nat \ {0} /\ Least(d, n - a) <= d
        /\ Least(d, n - a) <= n - a /\ (Least(d, n - a) = d \/ Least(d, n - a) = n - a)
    BY <1>5, <1>6 DEF Least
  <1> DEFINE m == Least(d, n - a)
  <1>8. ASSUME NEW x \in Nat
        PROVE  x \in o + a .. o + a + m - 1 <=> x \in o .. o + n - 1 /\ p = (x - o) \div d
    <2>1. ASSUME x \in o + a .. o + a + m - 1 PROVE x \in o .. o + n - 1 /\ p = (x - o) \div d
      <3> HIDE DEF m
      <3>1. x \in o .. o + n - 1 /\ (x - o) - a \in 0 .. d - 1 /\ x - o \in Nat
        BY <1>5, <1>6, <1>7, <2>1 DEF m
      <3> DEFINE v == x - o
                 e == v - a
                 s == v \div d
                 t == v % d
      <3>2. s \in Nat /\ t \in 0 .. d - 1 /\ v = s * d + t
        BY <3>1, Division
      <3>3. e \in 0 .. d - 1 /\ v = a + e
        BY <1>5, <3>1
      <3> HIDE DEF v, e, s, t
      <3>4. p * d + e = s * d + t
        BY <3>2, <3>3 DEF a
      <3>5. p = s
        BY <1>4, <3>2, <3>3, <3>4, DividesOnce
      <3> QED BY <3>1, <3>5 DEF s, v
    <2>2. ASSUME x \in o .. o + n - 1, p = (x - o) \div d PROVE x \in o + a .. o + a + m - 1
      <3> HIDE DEF m
      <3> DEFINE v == x - o
                 t == v % d
      <3>1. v \in 0 .. n - 1
        BY <2>2
      <3>2. v \in Nat /\ v \div d = p
        BY <2>2, <3>1
      <3>3. t \in 0 .. d - 1 /\ v = p * d + t
        <4> HIDE DEF v
        <4> QED BY <3>2, Division
      <3>4. x = o + v
        BY <2>2
      <3> HIDE DEF v, t
      <3>5. v = a + t
        BY <3>3 DEF a
      <3>6. v \in a .. a + m - 1
        BY <1>5, <1>6, <1>7, <3>1, <3>3, <3>5 DEF m
      <3> QED BY <1>5, <1>7, <3>4, <3>6 DEF m
    <2> QED BY <2>1, <2>2
  <1> QED BY <1>7, <1>8 DEF a, StripeIs, Stripe, StripeAt, StripeSize

LEMMA StripeOf ==
  ASSUME NEW n \in Nat \ {0}, NEW d \in Nat \ {0}, NEW v \in 0 .. n - 1
  PROVE  v \div d \in 0 .. CeilDiv(n, d) - 1
  <1> DEFINE q == (n - 1) \div d
             c == (n - 1) % d
             s == v \div d
             t == v % d
  <1>1. n - 1 \in Nat /\ v \in Nat
    OBVIOUS
  <1>2. q \in Nat /\ c \in 0 .. d - 1 /\ n - 1 = q * d + c
    BY <1>1, Division
  <1>3. s \in Nat /\ t \in 0 .. d - 1 /\ v = s * d + t
    BY <1>1, Division
  <1>4. CeilDiv(n, d) = q + 1
    BY DEF CeilDiv
  <1> HIDE DEF q, c, s, t
  <1>5. s <= q
    <2> SUFFICES ASSUME ~(s <= q) PROVE FALSE
      OBVIOUS
    <2>1. q < s /\ q <= s
      BY <1>2, <1>3
    <2>2. q * d + d <= s * d /\ q * d \in Nat /\ s * d \in Nat
      BY <1>2, <1>3, <2>1, MultMonotone
    <2> QED BY <1>2, <1>3, <2>2
  <1> QED BY <1>2, <1>3, <1>4, <1>5 DEF s

(* Numbers and their rows and columns.                                     *)
CellAt(i, c, p, q) == i \div c = q /\ i % c = p

LEMMA RowsAndColumns ==
  ASSUME NEW c \in Nat \ {0}, NEW r \in Nat \ {0}
  PROVE  /\ c * r \in Nat \ {0}
         /\ \A i \in 0 .. c * r - 1 : /\ i \div c \in 0 .. r - 1 /\ i % c \in 0 .. c - 1
                                      /\ i = (i \div c) * c + (i % c)
         /\ \A p \in 0 .. c - 1, q \in 0 .. r - 1 : \E i \in 0 .. c * r - 1 : CellAt(i, c, p, q)
         /\ \A p, q : \A i, j \in 0 .. c * r - 1 : CellAt(i, c, p, q) /\ CellAt(j, c, p, q) => i = j
  <1>1. c * r \in Nat \ {0} /\ c * r = r * c
    OBVIOUS
  <1> DEFINE n == c * r
  <1>2. n \in Nat \ {0} /\ n = r * c
    BY <1>1
  <1> HIDE DEF n
  <1>3. ASSUME NEW i \in 0 .. n - 1
        PROVE  i \div c \in 0 .. r - 1 /\ i % c \in 0 .. c - 1 /\ i = (i \div c) * c + (i % c)
    <2> DEFINE s == i \div c
               t == i % c
    <2>1. s \in Nat /\ t \in 0 .. c - 1 /\ i = s * c + t
      <3>1. i \in Nat
        BY <1>2
      <3> QED BY <3>1, Division
    <2> HIDE DEF s, t
    <2>2. s < r
      <3> SUFFICES ASSUME r <= s PROVE FALSE
        BY <2>1
      <3>1. r * c <= s * c /\ r * c \in Nat /\ s * c \in Nat
        BY <2>1, MultMonotone
      <3> QED BY <1>2, <2>1, <3>1
    <2>3. s \in 0 .. r - 1
      BY <2>1, <2>2
    <2> QED BY <2>1, <2>3 DEF s, t
  <1>4. ASSUME NEW p \in 0 .. c - 1, NEW q \in 0 .. r - 1
        PROVE  \E i \in 0 .. n - 1 : CellAt(i, c, p, q)
    <2> DEFINE i == q * c + p
    <2>1. q \in Nat /\ q < r /\ q <= r
      OBVIOUS
    <2>2. q * c + c <= r * c /\ q * c \in Nat /\ r * c \in Nat
      BY <2>1, MultMonotone
    <2>3. i \in 0 .. n - 1
      BY <1>2, <2>2
    <2> DEFINE s == i \div c
               t == i % c
    <2>4. i \in Nat
      BY <1>2, <2>3
    <2>5. s \in Nat /\ t \in 0 .. c - 1 /\ i = s * c + t
      <3> HIDE DEF i
      <3> QED BY <2>4, Division
    <2>6. s * c + t = q * c + p
      BY <2>5
    <2> HIDE DEF s, t
    <2>7. s = q /\ t = p
      BY <2>1, <2>5, <2>6, DividesOnce
    <2>8. CellAt(i, c, p, q)
      BY <2>7 DEF s, t, CellAt
    <2> QED BY <2>3, <2>8
  <1>5. ASSUME NEW p, NEW q, NEW i \in 0 .. n - 1,
               NEW j \in 0 .. n - 1, CellAt(i, c, p, q), CellAt(j, c, p, q)
        PROVE  i = j
    BY <1>3, <1>5 DEF CellAt
  <1> QED BY <1>1, <1>3, <1>4, <1>5 DEF n

LEMMA FunctionIsSequence ==
  ASSUME NEW S, NEW n \in Nat, NEW f \in [1 .. n -> S]
  PROVE  f \in Seq(S) /\ Len(f) = n /\ DOMAIN f = 1 .. n
  OBVIOUS

GridCell(r, w, h, columns, i) ==
    LET dx == (i % columns) * w  dy == (i \div columns) * h IN
    Rect(r.x + dx, r.y + dy, Least(w, r.w - dx), Least(h, r.h - dy))

LEMMA GridCovers ==
  ASSUME NEW r \in Rectangle, NEW w \in Nat \ {0}, NEW h \in Nat \ {0},
         NEW columns, columns = CeilDiv(r.w, w), NEW rows, rows = CeilDiv(r.h, h),
         NEW cells, cells = [n \in 1 .. columns * rows |-> GridCell(r, w, h, columns, n - 1)]
  PROVE  /\ cells \in Seq(Rectangle) /\ Len(cells) = columns * rows
         /\ \A x, y \in Nat : Occurs(cells, Over(x, y)) = Hit(x, y, r)
  <1> DEFINE rx == r.x
             ry == r.y
             rw == r.w
             rh == r.h
             count == columns * rows
  <1>1. rx \in Nat /\ ry \in Nat /\ rw \in Nat \ {0} /\ rh \in Nat \ {0}
        /\ Rectangle \subseteq Boxes
    BY RectanglesAre
  <1>2. columns \in Nat \ {0} /\ rows \in Nat \ {0}
    <2> HIDE DEF rw, rh
    <2>1. columns = CeilDiv(rw, w) /\ rows = CeilDiv(rh, h)
      BY DEF rw, rh
    <2> QED BY <1>1, <2>1, CeilIs
  <1>3. /\ count \in Nat \ {0}
        /\ \A i \in 0 .. count - 1 : i \div columns \in 0 .. rows - 1
           /\ i % columns \in 0 .. columns - 1
    BY <1>2, RowsAndColumns
  <1>9. \A p \in 0 .. columns - 1, q \in 0 .. rows - 1 : \E i \in 0 .. count - 1 :
          CellAt(i, columns, p, q)
    BY <1>2, RowsAndColumns
  <1>10. \A p, q : \A i, j \in 0 .. count - 1 : CellAt(i, columns, p, q)
         /\ CellAt(j, columns, p, q) => i = j
    BY <1>2, RowsAndColumns
  <1> HIDE DEF count
  <1>4. ASSUME NEW i \in 0 .. count - 1
        PROVE  /\ GridCell(r, w, h, columns, i) \in Rectangle
               /\ \A x, y \in Nat : In(x, y, GridCell(r, w, h, columns, i)) <=>
                    /\ In(x, y, r) /\ i % columns = (x - rx) \div w
                       /\ i \div columns = (y - ry) \div h
    <2> DEFINE p == i % columns
               q == i \div columns
               cell == GridCell(r, w, h, columns, i)
    <2>1. p \in 0 .. CeilDiv(rw, w) - 1 /\ q \in 0 .. CeilDiv(rh, h) - 1
      BY <1>3
    <2>2. cell = Rect(StripeAt(rx, w, p), StripeAt(ry, h, q), StripeSize(rw, w, p),
          StripeSize(rh, h, q))
      BY DEF GridCell, StripeAt, StripeSize
    <2> HIDE DEF p, q, rx, ry, rw, rh, cell
    <2>3. StripeIs(rx, rw, w, p) /\ StripeIs(ry, rh, h, q)
      BY <1>1, <2>1, Stripes
    <2>4. /\ StripeAt(rx, w, p) \in Nat /\ StripeSize(rw, w, p) \in Nat \ {0}
          /\ StripeAt(ry, h, q) \in Nat /\ StripeSize(rh, h, q) \in Nat \ {0}
      BY <2>3 DEF StripeIs
    <2>5. cell \in Rectangle
      BY <2>2, <2>4, RectanglesAre
    <2>6. ASSUME NEW x \in Nat, NEW y \in Nat
          PROVE  In(x, y, cell) <=> In(x, y, r) /\ p = (x - rx) \div w /\ q = (y - ry) \div h
      <3>1. In(x, y, cell) <=> x \in Stripe(rx, rw, w, p) /\ y \in Stripe(ry, rh, h, q)
        BY <2>2 DEF In, Rect, Stripe
      <3>2. In(x, y, r) <=> x \in rx .. rx + rw - 1 /\ y \in ry .. ry + rh - 1
        BY DEF In, rx, ry, rw, rh
      <3> QED BY <2>3, <3>1, <3>2 DEF StripeIs
    <2> QED BY <2>5, <2>6 DEF cell, p, q
  <1>5. \A n \in 1 .. count : n - 1 \in 0 .. count - 1
    BY <1>3
  <1>6. cells \in [1 .. count -> Rectangle]
        /\ \A n \in 1 .. count : cells[n] = GridCell(r, w, h, columns, n - 1)
    BY <1>4, <1>5 DEF count
  <1>7. cells \in Seq(Rectangle) /\ Len(cells) = count /\ DOMAIN cells = 1 .. count
    BY <1>3, <1>6, FunctionIsSequence
  <1>8. ASSUME NEW x \in Nat, NEW y \in Nat PROVE Occurs(cells, Over(x, y)) = Hit(x, y, r)
    <2> DEFINE px == (x - rx) \div w
               py == (y - ry) \div h
               H == {n \in DOMAIN cells : cells[n] \in Over(x, y)}
    <2>1. \A n \in 1 .. count :
            n \in H <=> In(x, y, r) /\ CellAt(n - 1, columns, px, py)
      <3> SUFFICES ASSUME NEW n \in 1 .. count
                   PROVE  n \in H <=> In(x, y, r) /\ CellAt(n - 1, columns, px, py)
        OBVIOUS
      <3> DEFINE i == n - 1
      <3>1. i \in 0 .. count - 1 /\ cells[n] = GridCell(r, w, h, columns, i)
        BY <1>5, <1>6
      <3> HIDE DEF i
      <3>2. n \in H <=> In(x, y, GridCell(r, w, h, columns, i))
        BY <1>1, <1>4, <1>7, <3>1 DEF Over
      <3>3. n \in H <=> In(x, y, r) /\ i % columns = px /\ i \div columns = py
        BY <1>4, <3>1, <3>2
      <3> QED BY <3>3 DEF i, CellAt
    <2>2. CASE ~In(x, y, r)
      <3>1. H = {}
        BY <1>7, <2>1, <2>2
      <3> QED BY <2>2, <3>1, FS_EmptySet DEF Occurs, Hit
    <2>3. CASE In(x, y, r)
      <3>1. px \in 0 .. columns - 1 /\ py \in 0 .. rows - 1
        <4>1. x \in rx .. rx + rw - 1 /\ y \in ry .. ry + rh - 1
          BY <2>3 DEF In
        <4>2. columns = CeilDiv(rw, w) /\ rows = CeilDiv(rh, h)
          OBVIOUS
        <4> DEFINE vx == x - rx
                   vy == y - ry
        <4> HIDE DEF rx, ry, rw, rh
        <4>3. vx \in 0 .. rw - 1 /\ vy \in 0 .. rh - 1
          BY <1>1, <4>1
        <4> HIDE DEF vx, vy
        <4>4. vx \div w \in 0 .. columns - 1 /\ vy \div h \in 0 .. rows - 1
          BY <1>1, <4>2, <4>3, StripeOf
        <4> QED BY <4>4 DEF vx, vy
      <3> HIDE DEF px, py
      <3>2. PICK i \in 0 .. count - 1 : CellAt(i, columns, px, py)
        BY <1>9, <3>1
      <3>3. \A j \in 0 .. count - 1 : CellAt(j, columns, px, py) => j = i
        BY <1>10, <3>2
      <3> DEFINE m == i + 1
      <3>4. m \in 1 .. count /\ m - 1 = i
        BY <1>3, <3>2
      <3>5. m \in H
        BY <2>1, <2>3, <3>2, <3>4
      <3>6. ASSUME NEW n \in H PROVE n = m
        <4>1. n \in 1 .. count
          BY <1>7
        <4>2. n - 1 = i
          BY <1>5, <2>1, <3>3, <3>6, <4>1
        <4> QED BY <4>1, <4>2
      <3> HIDE DEF H, m
      <3>7. H = {m}
        BY <3>5, <3>6
      <3> QED BY <2>3, <3>7, FS_Singleton DEF Occurs, Hit, H
    <2> QED BY <2>2, <2>3
  <1> QED BY <1>7, <1>8 DEF count

LEMMA SimpleGood ==
  ASSUME Sending, Simple PROVE \E new, rects : Good(new, rects)
  <1> DEFINE r == Current.r
             N == Weight
  <1>1. /\ r \in Rectangle /\ AsCounted(Current) /\ N \in Weights
           /\ preferredEncoding \in SplitEncodings
        /\ Tail(todo) = Cat(<<>>, Tail(todo))
    BY CurrentIs
  <1>2. Current.op = "simple"
    BY DEF Simple
  <1>3. nRects # Many =>
          N[r] = IF TooLarge(r) THEN CeilDiv(r.w, MaxRectWidth) * CeilDiv(r.h, SubrectHeight(r))
          ELSE 1
    <2> SUFFICES ASSUME nRects # Many
                 PROVE  N[r] = IF TooLarge(r)
                        THEN CeilDiv(r.w, MaxRectWidth) * CeilDiv(r.h, SubrectHeight(r))
                               ELSE 1
      OBVIOUS
    <2>1. preferredEncoding = "tight"
      BY <1>1, <1>2 DEF AsCounted, SplitEncodings
    <2> QED BY <1>1, <2>1 DEF Weight, NumCodedRects
  <1>4. CASE ~TooLarge(r)
    <2>1. sent' = sent \o <<r>> /\ todo' = Tail(todo)
      BY <1>4 DEF Simple, Sends
    <2> QED BY <1>3, <1>4, <2>1, SentWhole
  <1>5. CASE TooLarge(r)
    <2> DEFINE columns == CeilDiv(r.w, MaxRectWidth)
               high == SubrectHeight(r)
               rows == CeilDiv(r.h, high)
               cells == [n \in 1 .. columns * rows |-> GridCell(r, MaxRectWidth, high, columns,
                        n - 1)]
    <2>1. sent' = sent \o cells /\ todo' = Tail(todo)
      BY <1>5 DEF Simple, Sends, GridCell
    <2>2. high \in Nat \ {0}
      BY <1>1, HeightIs
    <2>3. /\ cells \in Seq(Rectangle) /\ Len(cells) = columns * rows
          /\ \A x, y \in Nat : Occurs(cells, Over(x, y)) = Hit(x, y, r)
      <3> DEFINE c == columns
                 d == rows
                 s == cells
                 g == high
      <3>1. c = CeilDiv(r.w, MaxRectWidth) /\ d = CeilDiv(r.h, g) /\ g \in Nat \ {0}
            /\ s = [n \in 1 .. c * d |-> GridCell(r, MaxRectWidth, g, c, n - 1)]
        BY <2>2
      <3> HIDE DEF c, d, s, g
      <3>2. /\ s \in Seq(Rectangle) /\ Len(s) = c * d
            /\ \A x, y \in Nat : Occurs(s, Over(x, y)) = Hit(x, y, r)
        BY <1>1, <3>1, Limits, GridCovers
      <3> QED BY <3>2 DEF c, d, s, g
    <2>4. nRects # Many => N[r] = columns * rows
      BY <1>3, <1>5
    <2> HIDE DEF cells, columns, rows
    <2>5. Replaces(<<>>, cells)
      BY <1>1, <2>1, <2>3, NoTask DEF Replaces, Cat
    <2>6. Covers(<<>>, cells)
      <3> SUFFICES ASSUME NEW x \in Nat, NEW y \in Nat
                   PROVE  Occurs(<<>>, Under(x, y)) + Occurs(cells, Over(x, y)) = Hit(x, y, r)
        BY DEF Covers
      <3>1. Occurs(cells, Over(x, y)) = Hit(x, y, r) /\ Hit(x, y, r) \in {0, 1}
        BY <2>3, HitIs
      <3>2. Occurs(<<>>, Under(x, y)) = 0
        BY NoTask
      <3> QED BY <3>1, <3>2
    <2>7. Sound(<<>>)
      BY DEF Sound
    <2>8. Numbered(<<>>, cells)
      <3> SUFFICES ASSUME nRects # Many
                   PROVE  \E m \in Nat : Counts(N, <<>>, m) /\ Len(cells) + m = N[r]
        BY DEF Numbered
      <3>1. Len(cells) = N[r] /\ N[r] \in Nat
        BY <1>1, <2>3, <2>4 DEF Weights
      <3>2. Counts(N, <<>>, 0) /\ Len(cells) + 0 = N[r]
        BY <3>1, NoTask
      <3> QED BY <3>2
    <2> QED BY <2>5, <2>6, <2>7, <2>8 DEF Good
  <1> QED BY <1>4, <1>5

(*------------------------- Areas of one colour ----------------------------*)

LEMMA MinIs ==
  ASSUME NEW S, S \subseteq Nat, S # {}
  PROVE  Min(S) \in S /\ \A y \in S : Min(S) <= y
  <1>1. \E x \in S : \A y \in S : x <= y
    BY LeastNatural
  <1> QED BY <1>1 DEF Min

LEMMA MaxIs ==
  ASSUME NEW n \in Nat, NEW S, S \subseteq 0 .. n, S # {}
  PROVE  Max(S) \in S /\ \A y \in S : y <= Max(S)
  <1>1. PICK x \in S : \A y \in S : y <= x
    BY GreatestNatural
  <1>2. \A y \in S : x >= y
    BY <1>1
  <1>3. Max(S) \in S /\ \A y \in S : Max(S) >= y
    BY <1>2 DEF Max
  <1> QED BY <1>3

LEMMA SolidRect ==
  ASSUME NEW x, NEW y, NEW w, NEW h, NEW c
  PROVE  Solid(Rect(x, y, w, h), c) <=>
           \A px \in x .. x + w - 1, py \in y .. y + h - 1 : Colour(px, py) = c
  BY DEF Solid, Rect

LEMMA SolidNothing ==
  ASSUME NEW x \in Nat, NEW y \in Nat, NEW w \in Nat, NEW h \in Nat, w = 0 \/ h = 0, NEW c
  PROVE  Solid(Rect(x, y, w, h), c)
  <1>1. \A px \in x .. x + w - 1, py \in y .. y + h - 1 : Colour(px, py) = c
    BY SMT
  <1> QED BY <1>1, SolidRect

LEMMA SolidAbove ==
  ASSUME NEW x \in Nat, NEW y \in Nat, NEW w \in Nat, NEW h \in Nat, NEW k \in Nat, NEW c,
         Solid(Rect(x, y, w, h), c), Solid(Rect(x, y + h, w, k), c)
  PROVE  Solid(Rect(x, y, w, h + k), c)
  <1> SUFFICES ASSUME NEW px \in x .. x + w - 1, NEW py \in y .. y + (h + k) - 1
               PROVE  Colour(px, py) = c
    BY SolidRect
  <1>1. py \in y .. y + h - 1 \/ py \in y + h .. (y + h) + k - 1
    OBVIOUS
  <1> QED BY <1>1, SolidRect

LEMMA SolidBeside ==
  ASSUME NEW x \in Nat, NEW y \in Nat, NEW w \in Nat, NEW h \in Nat, NEW k \in Nat, NEW c,
         Solid(Rect(x, y, w, h), c), Solid(Rect(x + w, y, k, h), c)
  PROVE  Solid(Rect(x, y, w + k, h), c)
  <1> SUFFICES ASSUME NEW px \in x .. x + (w + k) - 1, NEW py \in y .. y + h - 1
               PROVE  Colour(px, py) = c
    BY SolidRect
  <1>1. px \in x .. x + w - 1 \/ px \in x + w .. (x + w) + k - 1
    OBVIOUS
  <1> QED BY <1>1, SolidRect

LEMMA SolidNarrow ==
  ASSUME NEW x \in Nat, NEW y \in Nat, NEW w \in Nat, NEW h \in Nat, NEW v \in 0 .. w, NEW c,
         Solid(Rect(x, y, w, h), c)
  PROVE  Solid(Rect(x, y, v, h), c)
  <1> SUFFICES ASSUME NEW px \in x .. x + v - 1, NEW py \in y .. y + h - 1
               PROVE  Colour(px, py) = c
    BY SolidRect
  <1>1. px \in x .. x + w - 1
    OBVIOUS
  <1> QED BY <1>1, SolidRect

Inside(b, r) ==
    /\ r.x <= b.x /\ b.x + b.w <= r.x + r.w
    /\ r.y <= b.y /\ b.y + b.h <= r.y + r.h

(* ExtendSolidArea finds an area of the colour within r.                   *)
LEMMA ExtendedIs ==
  ASSUME NEW r \in Rectangle, NEW area \in Rectangle, Inside(area, r), NEW c, Solid(area, c)
  PROVE  /\ Extended(r, area, c) \in Rectangle /\ Inside(Extended(r, area, c), r)
         /\ Solid(Extended(r, area, c), c)
  <1> DEFINE rx == r.x
             ry == r.y
             rw == r.w
             rh == r.h
             x == area.x
             w == area.w
             ay == area.y
             ah == area.h
             Ups == {n \in ry .. ay : Solid(Rect(x, n, w, ay - n), c)}
             y == Min(Ups)
             Downs == {n \in 1 .. ry + rh - y : Solid(Rect(x, y, w, n), c)}
             h == Max(Downs)
             Lefts == {n \in rx .. x : Solid(Rect(n, y, x - n, h), c)}
             left == Min(Lefts)
             Rights == {n \in 1 .. rx + rw - left : Solid(Rect(left, y, n, h), c)}
             width == Max(Rights)
             b == Rect(left, y, width, h)
  <1>1. Extended(r, area, c) = b
    BY DEF Extended
  <1>2. /\ rx \in Nat /\ ry \in Nat /\ rw \in Nat \ {0} /\ rh \in Nat \ {0}
        /\ x \in Nat /\ ay \in Nat /\ w \in Nat \ {0} /\ ah \in Nat \ {0}
        /\ area = Rect(x, ay, w, ah)
    BY RectanglesAre
  <1>3. rx <= x /\ x + w <= rx + rw /\ ry <= ay /\ ay + ah <= ry + rh
    BY DEF Inside
  <1>4. Solid(Rect(x, ay, w, ah), c)
    BY <1>2
  <1> HIDE DEF rx, ry, rw, rh, x, w, ay, ah
  <1>5. y \in Ups
    <2>1. ay \in ry .. ay /\ ay - ay = 0
      BY <1>2, <1>3
    <2>2. Solid(Rect(x, ay, w, ay - ay), c)
      BY <1>2, <2>1, SolidNothing
    <2>3. ay \in Ups
      BY <2>1, <2>2
    <2>4. Ups \subseteq Nat
      BY <1>2
    <2> HIDE DEF Ups
    <2> QED BY <2>3, <2>4, MinIs
  <1>6. y \in ry .. ay /\ Solid(Rect(x, y, w, ay - y), c) /\ y \in Nat /\ ay - y \in Nat
    <2> HIDE DEF y
    <2>1. y \in ry .. ay /\ Solid(Rect(x, y, w, ay - y), c)
      BY <1>5
    <2> QED BY <1>2, <2>1
  <1> HIDE DEF y, Ups
  <1>7. h \in Downs
    <2> DEFINE g == ay - y
               n == g + ah
    <2>1. g \in Nat /\ ay = y + g
      BY <1>2, <1>6
    <2>2. n \in 1 .. ry + rh - y
      BY <1>2, <1>3, <1>6
    <2>3. Solid(Rect(x, y, w, g), c) /\ Solid(Rect(x, y + g, w, ah), c)
      BY <1>4, <1>6, <2>1
    <2> HIDE DEF g
    <2>4. Solid(Rect(x, y, w, n), c)
      BY <1>2, <1>6, <2>1, <2>3, SolidAbove
    <2> HIDE DEF n
    <2> DEFINE m == ry + rh - y
    <2>5. m \in Nat /\ Downs # {} /\ Downs \subseteq 0 .. m
      BY <1>2, <1>6, <2>2, <2>4
    <2> HIDE DEF Downs, m
    <2> QED BY <2>5, MaxIs
  <1>8. h \in 1 .. ry + rh - y /\ Solid(Rect(x, y, w, h), c) /\ h \in Nat \ {0}
    <2> HIDE DEF h
    <2>1. h \in 1 .. ry + rh - y /\ Solid(Rect(x, y, w, h), c)
      BY <1>7
    <2> QED BY <1>2, <1>6, <2>1
  <1> HIDE DEF h, Downs
  <1>9. left \in Lefts
    <2>1. x \in rx .. x /\ x - x = 0
      BY <1>2, <1>3
    <2>2. Solid(Rect(x, y, x - x, h), c)
      BY <1>2, <1>6, <1>8, <2>1, SolidNothing
    <2>3. x \in Lefts
      BY <2>1, <2>2
    <2>4. Lefts \subseteq Nat
      BY <1>2
    <2> HIDE DEF Lefts
    <2> QED BY <2>3, <2>4, MinIs
  <1>10. left \in rx .. x /\ Solid(Rect(left, y, x - left, h), c) /\ left \in Nat
         /\ x - left \in Nat
    <2> HIDE DEF left
    <2>1. left \in rx .. x /\ Solid(Rect(left, y, x - left, h), c)
      BY <1>9
    <2> QED BY <1>2, <2>1
  <1> HIDE DEF left, Lefts
  <1>11. width \in Rights
    <2> DEFINE g == x - left
               n == g + w
    <2>1. g \in Nat /\ x = left + g
      BY <1>2, <1>10
    <2>2. n \in 1 .. rx + rw - left
      BY <1>2, <1>3, <1>10
    <2>3. Solid(Rect(left, y, g, h), c) /\ Solid(Rect(left + g, y, w, h), c)
      BY <1>8, <1>10, <2>1
    <2> HIDE DEF g
    <2>4. Solid(Rect(left, y, n, h), c)
      BY <1>2, <1>6, <1>8, <1>10, <2>1, <2>3, SolidBeside
    <2> HIDE DEF n
    <2> DEFINE m == rx + rw - left
    <2>5. m \in Nat /\ Rights # {} /\ Rights \subseteq 0 .. m
      BY <1>2, <1>3, <1>10, <2>2, <2>4
    <2> HIDE DEF Rights, m
    <2> QED BY <2>5, MaxIs
  <1>12. width \in 1 .. rx + rw - left /\ Solid(b, c)
    <2> HIDE DEF width
    <2> QED BY <1>11
  <1> HIDE DEF width, Rights
  <1>13. width \in Nat \ {0}
    BY <1>2, <1>10, <1>12
  <1>14. b \in Rectangle
    BY <1>6, <1>8, <1>10, <1>13, RectanglesAre
  <1>15. Inside(b, r)
    <2>1. rx <= left /\ left + width <= rx + rw /\ ry <= y /\ y + h <= ry + rh
      BY <1>2, <1>6, <1>8, <1>10, <1>12
    <2> QED BY <2>1 DEF Inside, Rect, rx, ry, rw, rh
  <1> QED BY <1>1, <1>12, <1>14, <1>15

(* The rows of tiles of h lines, and the lines that the first k have.      *)
LinesTo(h, k) == Least(k * MaxSplitTileSize, h)

LEMMA LinesToIs ==
  ASSUME NEW h \in Nat \ {0}, NEW k \in Nat
  PROVE  /\ LinesTo(h, k) \in 0 .. h /\ LinesTo(h, 0) = 0
         /\ k # 0 => LinesTo(h, k) # 0 /\ LinesTo(h, k - 1) <= LinesTo(h, k)
         /\ LinesTo(h, 1) = Least(MaxSplitTileSize, h)
  <1> DEFINE T == MaxSplitTileSize
  <1>1. T \in Nat \ {0}
    BY Limits
  <1>2. 0 * T = 0 /\ 1 * T = T
    BY <1>1
  <1>3. k * T \in Nat
    BY <1>1
  <1>4. ASSUME k # 0 PROVE k * T # 0 /\ (k - 1) * T \in Nat /\ (k - 1) * T <= k * T
    <2>1. PICK j \in Nat : k = j + 1 /\ k - 1 = j
      <3>1. k - 1 \in Nat /\ k = (k - 1) + 1
        BY <1>4
      <3> QED BY <3>1
    <2>2. k * T = j * T + T /\ j * T \in Nat
      BY <1>1, <2>1
    <2> QED BY <1>1, <2>1, <2>2
  <1> DEFINE a == k * T
             b == (k - 1) * T
  <1>5. LinesTo(h, k) = Least(a, h) /\ LinesTo(h, k - 1) = Least(b, h)
        /\ LinesTo(h, 0) = Least(0 * T, h) /\ LinesTo(h, 1) = Least(1 * T, h)
    BY DEF LinesTo
  <1> HIDE DEF a, b, T
  <1>6. LinesTo(h, k) \in 0 .. h
    BY <1>3, <1>5 DEF Least, a
  <1>7. LinesTo(h, 0) = 0
    BY <1>2, <1>5 DEF Least
  <1>8. k # 0 => LinesTo(h, k) # 0 /\ LinesTo(h, k - 1) <= LinesTo(h, k)
    <2> SUFFICES ASSUME k # 0 PROVE LinesTo(h, k) # 0 /\ LinesTo(h, k - 1) <= LinesTo(h, k)
      OBVIOUS
    <2>1. a \in Nat /\ a # 0 /\ b \in Nat /\ b <= a
      BY <1>3, <1>4 DEF a, b
    <2> QED BY <1>5, <2>1 DEF Least
  <1>9. LinesTo(h, 1) = Least(T, h)
    BY <1>2, <1>5
  <1> QED BY <1>6, <1>7, <1>8, <1>9 DEF T

(* FindBestSolidArea finds one that starts at the tile it was given.       *)
LEMMA BestIs ==
  ASSUME NEW x \in Nat, NEW y \in Nat, NEW w \in Nat \ {0}, NEW h \in Nat \ {0}, NEW c,
         Solid(Rect(x, y, Least(MaxSplitTileSize, w), Least(MaxSplitTileSize, h)), c)
  PROVE  \E bw \in 1 .. w, bh \in 1 .. h :
           BestSolidArea(x, y, w, h, c) = Rect(x, y, bw, bh) /\ Solid(Rect(x, y, bw, bh), c)
  <1> DEFINE T == MaxSplitTileSize
             rows == CeilDiv(h, T)
             To(k) == LinesTo(h, k)
             Row(k, v, n) ==
                 /\ n = v \/ n % T = 0
                 /\ Solid(Rect(x, y + To(k - 1), n, To(k) - To(k - 1)), c)
             Widest(k, v) == Max({0} \cup {n \in 1 .. v : Row(k, v, n)})
             R(f) == f = [k \in 0 .. rows |-> IF k = 0 THEN w ELSE Widest(k, f[k - 1])]
             widths == CHOOSE f : R(f)
             largest == Max({widths[k] * To(k) : k \in 1 .. rows})
             best == Min({k \in 1 .. rows : widths[k] * To(k) = largest})
             S == 0 .. w
             step == [v \in S |-> [k \in 1 .. rows |-> Widest(k, v)]]
  <1>1. BestSolidArea(x, y, w, h, c) = Rect(x, y, widths[best], To(best))
    BY DEF BestSolidArea, LinesTo
  <1>2. T \in Nat \ {0} /\ rows \in Nat \ {0}
    BY Limits, CeilIs
  <1>3. \A k \in 0 .. rows : To(k) \in 0 .. h
    BY <1>2, LinesToIs
  <1>4. \A k \in 1 .. rows : To(k) \in 1 .. h /\ To(k - 1) \in 0 .. h /\ To(k) - To(k - 1) \in Nat
    <2> SUFFICES ASSUME NEW k \in 1 .. rows
                 PROVE  To(k) \in 1 .. h /\ To(k - 1) \in 0 .. h /\ To(k) - To(k - 1) \in Nat
      OBVIOUS
    <2>1. k \in Nat /\ k - 1 \in Nat /\ k # 0
      BY <1>2
    <2>2. To(k) \in 0 .. h /\ To(k) # 0 /\ To(k - 1) <= To(k) /\ To(k - 1) \in 0 .. h
      BY <2>1, LinesToIs
    <2> HIDE DEF To
    <2> QED BY <2>2
  <1>5. To(0) = 0 /\ To(1) = Least(T, h)
    BY LinesToIs
  <1> HIDE DEF To, T, rows
  <1>6. ASSUME NEW k \in 1 .. rows, NEW v \in S
        PROVE  /\ Widest(k, v) \in 0 .. v
               /\ Widest(k, v) # 0 => Row(k, v, Widest(k, v))
               /\ \A n \in 1 .. v : Row(k, v, n) => n <= Widest(k, v)
    <2> DEFINE Widths == {0} \cup {n \in 1 .. v : Row(k, v, n)}
    <2> HIDE DEF Row
    <2>1. v \in Nat /\ 0 \in Widths /\ Widths \subseteq 0 .. v
      OBVIOUS
    <2>2. \A n \in Widths : n # 0 => Row(k, v, n)
      OBVIOUS
    <2>3. \A n \in 1 .. v : Row(k, v, n) => n \in Widths
      OBVIOUS
    <2>4. Widest(k, v) = Max(Widths)
      OBVIOUS
    <2> HIDE DEF Widths, Widest
    <2>5. Max(Widths) \in Widths /\ \A n \in Widths : n <= Max(Widths)
      BY <2>1, MaxIs
    <2> QED BY <2>1, <2>2, <2>3, <2>4, <2>5
  <1> HIDE DEF Row, Widest
  <1>7. step \in Steps(S, rows) /\ \A v \in S, k \in 1 .. rows : step[v][k] = Widest(k, v)
    <2>1. \A v \in S, k \in 1 .. rows : Widest(k, v) \in S
      <3> SUFFICES ASSUME NEW v \in S, NEW k \in 1 .. rows PROVE Widest(k, v) \in S
        OBVIOUS
      <3>1. Widest(k, v) \in 0 .. v
        BY <1>6
      <3> QED BY <3>1
    <2> HIDE DEF S
    <2> QED BY <2>1 DEF Steps
  <1> HIDE DEF step
  <1>8. w \in S
    OBVIOUS
  <1> HIDE DEF S
  <1>9. PICK g : Iterated(g, S, rows, w, step)
    BY <1>2, <1>7, <1>8, Iterates
  <1>10. g \in [0 .. rows -> S] /\ g[0] = w /\ \A k \in 1 .. rows : g[k] = step[g[k - 1]][k]
    BY <1>9 DEF Iterated
  <1>11. R(g)
    <2>1. ASSUME NEW k \in 1 .. rows PROVE g[k] = Widest(k, g[k - 1])
      <3>1. g[k - 1] \in S
        BY <1>2, <1>10
      <3> QED BY <1>7, <1>10, <3>1
    <2>2. \A k \in 0 .. rows : g[k] = IF k = 0 THEN w ELSE Widest(k, g[k - 1])
      BY <1>2, <1>10, <2>1
    <2> QED BY <1>10, <2>2
  <1>12. R(widths)
    <2> HIDE DEF R
    <2> QED BY <1>11
  <1> HIDE DEF widths
  <1>13. widths[0] = w /\ \A k \in 1 .. rows : widths[k] = Widest(k, widths[k - 1])
    BY <1>2, <1>12
  <1> HIDE DEF R
  <1> DEFINE K == {k \in 0 .. rows : widths[k] \in S /\ Solid(Rect(x, y, widths[k], To(k)), c)}
  <1>14. 0 \in K
    <2>1. Solid(Rect(x, y, w, 0), c)
      BY SolidNothing
    <2> QED BY <1>2, <1>5, <1>8, <1>13, <2>1
  <1>15. ASSUME NEW k \in 1 .. rows, k - 1 \in K PROVE k \in K
    <2> DEFINE v == widths[k - 1]
               u == widths[k]
               a == To(k - 1)
               d == To(k) - To(k - 1)
    <2>1. v \in S /\ Solid(Rect(x, y, v, a), c) /\ u = Widest(k, v)
      BY <1>13, <1>15
    <2>2. a \in Nat /\ d \in Nat /\ To(k) = a + d
      BY <1>4
    <2> HIDE DEF v, u, a
    <2>3. u \in 0 .. v /\ (u # 0 => Row(k, v, u)) /\ v \in Nat
      BY <1>6, <2>1 DEF S
    <2>4. u \in S /\ u \in Nat
      BY <2>1, <2>3 DEF S
    <2>5. Solid(Rect(x, y + a, u, d), c)
      <3>1. CASE u = 0
        BY <2>2, <3>1, SolidNothing
      <3>2. CASE u # 0
        BY <2>3, <3>2 DEF Row, a
      <3> QED BY <3>1, <3>2
    <2>6. Solid(Rect(x, y, u, a), c)
      BY <2>1, <2>2, <2>3, SolidNarrow
    <2> HIDE DEF d
    <2>7. Solid(Rect(x, y, u, a + d), c)
      BY <2>2, <2>4, <2>5, <2>6, SolidAbove
    <2>8. widths[k] \in S /\ Solid(Rect(x, y, widths[k], To(k)), c)
      BY <2>2, <2>4, <2>7 DEF u
    <2> QED BY <2>8
  <1>16. \A k \in 0 .. rows : k \in K
    <2> HIDE DEF K
    <2>1. \A k \in 1 .. rows : k - 1 \in K => k \in K
      BY <1>15
    <2> QED BY <1>2, <1>14, <2>1, UpTo
  <1>17. \A k \in 0 .. rows : widths[k] \in 0 .. w /\ Solid(Rect(x, y, widths[k], To(k)), c)
    BY <1>16 DEF S
  <1>18. widths[1] # 0
    <2> DEFINE n == Least(T, w)
    <2>1. n \in 1 .. w /\ (n = w \/ n = T)
      BY <1>2 DEF Least
    <2>2. T % T = 0
      <3> DEFINE q == T \div T
                 t == T % T
      <3>1. q \in Nat /\ t \in 0 .. T - 1 /\ T = q * T + t
        BY <1>2, Division
      <3> HIDE DEF q, t
      <3>2. q * T + t = 1 * T + 0 /\ 0 \in 0 .. T - 1 /\ 1 \in Nat
        BY <1>2, <3>1
      <3>3. t = 0
        BY <1>2, <3>1, <3>2, DividesOnce
      <3> QED BY <3>3 DEF t
    <2>3. Solid(Rect(x, y, n, To(1)), c)
      BY <1>5 DEF T
    <2> HIDE DEF n
    <2>4. 1 \in 1 .. rows /\ 1 - 1 = 0 /\ w \in S
      BY <1>2, <1>8
    <2>5. y + To(0) = y /\ To(1) - To(0) = To(1)
      BY <1>4, <1>5, <2>4
    <2>6. Row(1, w, n)
      BY <2>1, <2>2, <2>3, <2>4, <2>5 DEF Row
    <2>7. n <= Widest(1, w)
      BY <1>6, <2>1, <2>4, <2>6
    <2>8. widths[1] = Widest(1, w)
      BY <1>13, <2>4
    <2> QED BY <2>1, <2>7, <2>8
  <1> DEFINE PieceSizes == {widths[k] * To(k) : k \in 1 .. rows}
  <1>19. PieceSizes \subseteq 0 .. w * h /\ w * h \in Nat
    <2>1. ASSUME NEW a \in 0 .. w, NEW b \in 0 .. h PROVE a * b \in 0 .. w * h
      <3>1. a * b \in Nat /\ w * b \in Nat /\ a * b <= w * b
        BY MultMonotone
      <3>2. b * w \in Nat /\ h * w \in Nat /\ b * w <= h * w
        BY MultMonotone
      <3>3. w * b = b * w /\ w * h = h * w
        OBVIOUS
      <3> QED BY <3>1, <3>2, <3>3
    <2>2. ASSUME NEW k \in 1 .. rows PROVE widths[k] * To(k) \in 0 .. w * h
      <3>1. k \in 0 .. rows
        BY <1>2
      <3>2. widths[k] \in 0 .. w /\ To(k) \in 0 .. h
        BY <1>3, <1>17, <3>1
      <3> QED BY <2>1, <3>2
    <2>3. w * h \in Nat
      OBVIOUS
    <2> QED BY <2>2, <2>3
  <1>20. 1 \in 1 .. rows
    BY <1>2
  <1>21. widths[1] * To(1) \in PieceSizes
    BY <1>20
  <1>22. largest \in PieceSizes /\ widths[1] * To(1) <= largest
    <2> DEFINE top == w * h
    <2> HIDE DEF top, PieceSizes
    <2>1. PieceSizes \subseteq 0 .. top /\ top \in Nat /\ PieceSizes # {}
      BY <1>19, <1>21 DEF top
    <2>2. Max(PieceSizes) \in PieceSizes /\ \A s \in PieceSizes : s <= Max(PieceSizes)
      BY <2>1, MaxIs
    <2> QED BY <1>21, <2>2 DEF PieceSizes
  <1> HIDE DEF largest
  <1> DEFINE Bests == {k \in 1 .. rows : widths[k] * To(k) = largest}
  <1>23. PICK k0 \in 1 .. rows : largest = widths[k0] * To(k0)
    BY <1>22
  <1>24. best \in Bests
    <2>1. k0 \in Bests
      BY <1>23
    <2>2. Bests \subseteq Nat
      BY <1>2
    <2> HIDE DEF Bests
    <2>3. Min(Bests) \in Bests
      BY <2>1, <2>2, MinIs
    <2> QED BY <2>3 DEF Bests
  <1> HIDE DEF PieceSizes
  <1>25. best \in 1 .. rows /\ widths[best] * To(best) = largest
    BY <1>24
  <1> HIDE DEF best, Bests
  <1>26. best \in 0 .. rows /\ To(best) \in 1 .. h
    BY <1>2, <1>4, <1>25
  <1>27. widths[best] \in 1 .. w
    <2> SUFFICES ASSUME widths[best] = 0 PROVE FALSE
      BY <1>17, <1>26
    <2>1. largest = 0
      <3> DEFINE t == To(best)
      <3>1. t \in Nat /\ 0 * t = 0
        BY <1>26
      <3> QED BY <1>25, <3>1
    <2>2. widths[1] \in Nat \ {0} /\ To(1) \in Nat \ {0}
      <3>1. 1 \in 0 .. rows
        BY <1>2
      <3> QED BY <1>4, <1>17, <1>18, <1>20, <3>1
    <2>3. \A a, b \in Nat \ {0} : a * b \in Nat \ {0}
      OBVIOUS
    <2>4. widths[1] * To(1) \in Nat \ {0}
      BY <2>2, <2>3
    <2> QED BY <1>22, <2>1, <2>4
  <1> QED BY <1>1, <1>17, <1>26, <1>27

LEMMA AreaIs ==
  ASSUME NEW r \in Rectangle, NEW dy \in Nat, r.y <= dy, dy < r.y + r.h, NEW a \in SolidAreas(r, dy)
  PROVE  a \in Rectangle /\ Inside(a, r) /\ Solid(a, Colour(a.x, a.y))
  <1> DEFINE rx == r.x
             ry == r.y
             rw == r.w
             rh == r.h
             right == rx + rw
             below == ry + rh
             T == MaxSplitTileSize
             columns == {d \in rx .. right - 1 :
                           /\ (d - rx) % T = 0
                           /\ Solid(Rect(d, dy, Least(T, right - d), Least(T, below - dy)),
                              Colour(d, dy))}
  <1>1. rx \in Nat /\ ry \in Nat /\ rw \in Nat \ {0} /\ rh \in Nat \ {0} /\ T \in Nat \ {0}
    BY RectanglesAre, Limits
  <1>2. PICK d \in columns : a = BestSolidArea(d, dy, right - d, below - dy, Colour(d, dy))
    BY DEF SolidAreas
  <1>3. /\ d \in rx .. right - 1
        /\ Solid(Rect(d, dy, Least(T, right - d), Least(T, below - dy)), Colour(d, dy))
    OBVIOUS
  <1>4. ry <= dy /\ dy < ry + rh
    OBVIOUS
  <1> DEFINE w == right - d
             h == below - dy
             c == Colour(d, dy)
  <1>5. a = BestSolidArea(d, dy, w, h, c) /\ Solid(Rect(d, dy, Least(T, w), Least(T, h)), c)
    BY <1>2, <1>3
  <1> HIDE DEF rx, ry, rw, rh, columns, c
  <1>6. d \in Nat /\ w \in Nat \ {0} /\ h \in Nat \ {0} /\ rx <= d /\ d + w = rx + rw
        /\ dy + h = ry + rh
    BY <1>1, <1>3, <1>4
  <1> HIDE DEF w, h, right, below
  <1>7. PICK bw \in 1 .. w, bh \in 1 .. h :
           BestSolidArea(d, dy, w, h, c) = Rect(d, dy, bw, bh) /\ Solid(Rect(d, dy, bw, bh), c)
    BY <1>5, <1>6, BestIs DEF T
  <1>8. a = Rect(d, dy, bw, bh) /\ bw \in Nat \ {0} /\ bh \in Nat \ {0}
    BY <1>5, <1>6, <1>7
  <1>9. a \in Rectangle /\ a.x = d /\ a.y = dy /\ a.w = bw /\ a.h = bh
    <2>1. a \in Rectangle
      BY <1>6, <1>8, RectanglesAre
    <2> QED BY <1>8, <2>1 DEF Rect
  <1>10. Inside(a, r)
    <2>1. rx <= d /\ d + bw <= rx + rw /\ ry <= dy /\ dy + bh <= ry + rh
      BY <1>1, <1>4, <1>6, <1>7
    <2> QED BY <1>9, <2>1 DEF Inside, rx, ry, rw, rh
  <1>11. Solid(a, Colour(a.x, a.y))
    BY <1>7, <1>8, <1>9 DEF c
  <1> QED BY <1>9, <1>10, <1>11

(*-------------------------------- The search ------------------------------*)

(* What is around an area, and it, make up the rectangle.                  *)
Above(r, b) == Rect(r.x, r.y, r.w, b.y - r.y)
LeftOf(r, b) == Rect(r.x, b.y, b.x - r.x, b.h)
RightOf(r, b) == Rect(b.x + b.w, b.y, r.x + r.w - b.x - b.w, b.h)
Below(r, b) == Rect(r.x, b.y + b.h, r.w, r.y + r.h - b.y - b.h)

LEMMA Around ==
  ASSUME NEW r \in Rectangle, NEW b \in Rectangle, Inside(b, r)
  PROVE  /\ {Above(r, b), LeftOf(r, b), RightOf(r, b), Below(r, b)} \subseteq Boxes
         /\ \A x, y \in Nat :
              Hit(x, y, r) = Hit(x, y, Above(r, b)) + Hit(x, y, LeftOf(r, b)) + Hit(x, y, b)
                             + Hit(x, y, RightOf(r, b)) + Hit(x, y, Below(r, b))
  <1> DEFINE rx == r.x
             ry == r.y
             rw == r.w
             rh == r.h
             bx == b.x
             by == b.y
             bw == b.w
             bh == b.h
             p1 == Above(r, b)
             p2 == LeftOf(r, b)
             p3 == RightOf(r, b)
             p4 == Below(r, b)
  <1>1. /\ rx \in Nat /\ ry \in Nat /\ rw \in Nat \ {0} /\ rh \in Nat \ {0}
        /\ bx \in Nat /\ by \in Nat /\ bw \in Nat \ {0} /\ bh \in Nat \ {0}
    BY RectanglesAre
  <1>2. rx <= bx /\ bx + bw <= rx + rw /\ ry <= by /\ by + bh <= ry + rh
    BY DEF Inside
  <1>3. /\ p1 = [x |-> rx, y |-> ry, w |-> rw, h |-> by - ry]
        /\ p2 = [x |-> rx, y |-> by, w |-> bx - rx, h |-> bh]
        /\ p3 = [x |-> bx + bw, y |-> by, w |-> rx + rw - bx - bw, h |-> bh]
        /\ p4 = [x |-> rx, y |-> by + bh, w |-> rw, h |-> ry + rh - by - bh]
    BY DEF Above, LeftOf, RightOf, Below, Rect
  <1>4. ASSUME NEW x \in Nat, NEW y \in Nat
        PROVE  /\ In(x, y, r) <=> x \in rx .. rx + rw - 1 /\ y \in ry .. ry + rh - 1
               /\ In(x, y, b) <=> x \in bx .. bx + bw - 1 /\ y \in by .. by + bh - 1
               /\ In(x, y, p1) <=> x \in rx .. rx + rw - 1 /\ y \in ry .. ry + (by - ry) - 1
               /\ In(x, y, p2) <=> x \in rx .. rx + (bx - rx) - 1 /\ y \in by .. by + bh - 1
               /\ In(x, y, p3) <=> x \in bx + bw .. (bx + bw) + (rx + rw - bx - bw) - 1
                                   /\ y \in by .. by + bh - 1
               /\ In(x, y, p4) <=> x \in rx .. rx + rw - 1
                                   /\ y \in by + bh .. (by + bh) + (ry + rh - by - bh) - 1
    BY <1>3 DEF In
  <1> HIDE DEF rx, ry, rw, rh, bx, by, bw, bh, p1, p2, p3, p4
  <1>5. p1 \in Boxes /\ p2 \in Boxes /\ p3 \in Boxes /\ p4 \in Boxes
    <2>1. /\ by - ry \in Nat /\ bx - rx \in Nat /\ rx + rw - bx - bw \in Nat
          /\ ry + rh - by - bh \in Nat /\ bx + bw \in Nat /\ by + bh \in Nat
      BY <1>1, <1>2
    <2> QED BY <1>1, <1>3, <2>1 DEF Boxes
  <1>6. ASSUME NEW x \in Nat, NEW y \in Nat
        PROVE  Hit(x, y, r) = Hit(x, y, p1) + Hit(x, y, p2) + Hit(x, y, b) + Hit(x, y, p3)
               + Hit(x, y, p4)
    <2> DEFINE above == y \in ry .. ry + (by - ry) - 1
               beside == y \in by .. by + bh - 1
               below == y \in by + bh .. (by + bh) + (ry + rh - by - bh) - 1
               before == x \in rx .. rx + (bx - rx) - 1
               at == x \in bx .. bx + bw - 1
               after == x \in bx + bw .. (bx + bw) + (rx + rw - bx - bw) - 1
               across == x \in rx .. rx + rw - 1
               down == y \in ry .. ry + rh - 1
    <2>1. /\ down <=> above \/ beside \/ below
          /\ ~(above /\ beside) /\ ~(above /\ below) /\ ~(beside /\ below)
      BY <1>1, <1>2
    <2>2. /\ across <=> before \/ at \/ after
          /\ ~(before /\ at) /\ ~(before /\ after) /\ ~(at /\ after)
      BY <1>1, <1>2
    <2>3. /\ In(x, y, r) <=> across /\ down
          /\ In(x, y, b) <=> at /\ beside
          /\ In(x, y, p1) <=> across /\ above
          /\ In(x, y, p2) <=> before /\ beside
          /\ In(x, y, p3) <=> after /\ beside
          /\ In(x, y, p4) <=> across /\ below
      BY <1>4
    <2> HIDE DEF above, beside, below, before, at, after, across, down
    <2> QED BY <2>1, <2>2, <2>3 DEF Hit
  <1> QED BY <1>5, <1>6 DEF p1, p2, p3, p4

LEMMA CallIs ==
  ASSUME NEW F, NEW op \in Ops, NEW r \in Boxes, \A t \in Tasks : t.op = op => t \in F
  PROVE  /\ Call(op, r) \in Seq(F) /\ Call(op, r) \in Seq(Tasks)
         /\ \A x, y \in Nat : Occurs(Call(op, r), Under(x, y)) = Hit(x, y, r)
  <1>1. r.x \in Nat /\ r.y \in Nat /\ r.w \in Nat /\ r.h \in Nat
    BY DEF Boxes
  <1>2. CASE Empty(r)
    <2>1. Call(op, r) = <<>>
      BY <1>2 DEF Call
    <2>2. \A x, y \in Nat : Hit(x, y, r) = 0
      BY <1>1, <1>2 DEF Hit, In, Empty
    <2> QED BY <2>1, <2>2, NoTask
  <1>3. CASE ~Empty(r)
    <2> DEFINE t == Task(op, r)
               s == <<t>>
    <2>1. r \in Rectangle
      BY <1>1, <1>3 DEF Rectangle, Boxes, Empty
    <2>2. t \in Tasks /\ t.op = op /\ t.r = r
      BY <2>1, TasksAre
    <2>3. Call(op, r) = s
      BY <1>3 DEF Call
    <2>4. t \in F
      BY <2>2
    <2> HIDE DEF t
    <2>5. \A x, y : Occurs(s, Under(x, y)) = Hit(x, y, r)
      BY <2>2, HitOne
    <2>6. s \in Seq(F) /\ s \in Seq(Tasks)
      BY <2>2, <2>4
    <2> QED BY <2>3, <2>5, <2>6
  <1> QED BY <1>2, <1>3

(* Five calls behind each other.                                           *)
InAll(F, u, a, b, c, d, e) ==
    /\ u \in Seq(F) /\ u \in Seq(Tasks)
    /\ \A P : Occurs(u, P) = Occurs(a, P) + Occurs(b, P) + Occurs(c, P) + Occurs(d, P)
       + Occurs(e, P)

LEMMA FiveCalls ==
  ASSUME NEW F, NEW a, a \in Seq(F), a \in Seq(Tasks), NEW b, b \in Seq(F), b \in Seq(Tasks),
         NEW c, c \in Seq(F), c \in Seq(Tasks), NEW d, d \in Seq(F), d \in Seq(Tasks),
         NEW e, e \in Seq(F), e \in Seq(Tasks), NEW u, u = a \o b \o c \o d \o e
  PROVE  InAll(F, u, a, b, c, d, e)
  <1> DEFINE u2 == Cat(a, b)
             u3 == Cat(u2, c)
             u4 == Cat(u3, d)
             u5 == Cat(u4, e)
  <1>1. u = u5
    BY DEF Cat
  <1>2. u2 \in Seq(F) /\ u2 \in Seq(Tasks) /\ \A P : Occurs(u2, P) = Occurs(a, P) + Occurs(b, P)
    BY OccursCat
  <1> HIDE DEF u2
  <1>3. u3 \in Seq(F) /\ u3 \in Seq(Tasks) /\ \A P : Occurs(u3, P) = Occurs(u2, P) + Occurs(c, P)
    BY <1>2, OccursCat
  <1> HIDE DEF u3
  <1>4. u4 \in Seq(F) /\ u4 \in Seq(Tasks) /\ \A P : Occurs(u4, P) = Occurs(u3, P) + Occurs(d, P)
    BY <1>3, OccursCat
  <1> HIDE DEF u4
  <1>5. u5 \in Seq(F) /\ u5 \in Seq(Tasks) /\ \A P : Occurs(u5, P) = Occurs(u4, P) + Occurs(e, P)
    BY <1>4, OccursCat
  <1> HIDE DEF u5
  <1> QED BY <1>1, <1>2, <1>3, <1>4, <1>5 DEF InAll

LEMMA SearchGood ==
  ASSUME Sending, Search PROVE \E new, rects : Good(new, rects)
  <1> DEFINE r == Current.r
             dy == Current.dy
             most == SubrectHeight(r)
  <1>1. /\ Current \in Tasks /\ r \in Rectangle /\ TaskFits(Current) /\ AsCounted(Current)
        /\ preferredEncoding \in SplitEncodings /\ sent = Cat(sent, <<>>)
    BY CurrentIs
  <1>2. Current.op = "search"
    BY DEF Search
  <1>3. preferredEncoding = "tight" /\ nRects = Many
    BY <1>1, <1>2 DEF AsCounted, SplitEncodings
  <1>4. \A t : AsCounted(t)
    BY <1>3 DEF AsCounted
  <1>5. dy \in Nat /\ r.y <= dy
    BY <1>1, <1>2, TasksAre DEF TaskFits
  <1>6. most \in Nat \ {0}
    BY <1>1, HeightIs
  <1>7. r.x \in Nat /\ r.y \in Nat /\ r.w \in Nat \ {0} /\ r.h \in Nat \ {0}
    BY <1>1, RectanglesAre
  <1>8. ASSUME Calls(<<Task("simple", r)>>) PROVE \E new, rects : Good(new, rects)
    <2> DEFINE t == Task("simple", r)
    <2>1. todo' = <<t>> \o Tail(todo) /\ sent' = sent
      BY <1>8 DEF Calls
    <2>2. t \in Tasks /\ t.op = "simple" /\ t.r = r
      BY <1>1, TasksAre DEF Ops
    <2>3. TaskFits(t) /\ AsCounted(t)
      BY <1>4, <2>2 DEF TaskFits
    <2> HIDE DEF t
    <2> QED BY <2>1, <2>2, <2>3, GoesOn
  <1>9. ASSUME dy < r.y + r.h, dy - r.y >= most,
               Calls(<<Task("simple", Rect(r.x, r.y, r.w, most)),
                       [Current EXCEPT !.r = Rect(r.x, r.y + most, r.w, r.h - most)]>>)
        PROVE  \E new, rects : Good(new, rects)
    <2> DEFINE a == Rect(r.x, r.y, r.w, most)
               b == Rect(r.x, r.y + most, r.w, r.h - most)
               s == Task("simple", a)
               t == [Current EXCEPT !.r = b]
    <2>1. todo' = <<s, t>> \o Tail(todo) /\ sent' = sent
      BY <1>9 DEF Calls
    <2>2. a \in Rectangle /\ b \in Rectangle
          /\ \A x, y \in Nat : Hit(x, y, a) + Hit(x, y, b) = Hit(x, y, r)
      <3> DEFINE n == most
      <3>1. n \in 1 .. r.h - 1
        <4> HIDE DEF r, dy, most
        <4> QED BY <1>5, <1>6, <1>7, <1>9
      <3> HIDE DEF n
      <3>2. /\ Rect(r.x, r.y, r.w, n) \in Rectangle
            /\ Rect(r.x, r.y + n, r.w, r.h - n) \in Rectangle
            /\ \A x, y \in Nat : Hit(x, y, Rect(r.x, r.y, r.w, n))
                                 + Hit(x, y, Rect(r.x, r.y + n, r.w, r.h - n)) = Hit(x, y, r)
        BY <1>1, <3>1, CutAcross
      <3> QED BY <3>2 DEF n
    <2>3. s \in Tasks /\ s.op = "simple" /\ s.r = a
      BY <2>2, TasksAre DEF Ops
    <2>4. t \in Tasks /\ t.op = "search" /\ t.r = b /\ t.dy = dy
      BY <1>1, <1>2, <2>2 DEF Tasks
    <2>5. TaskFits(s) /\ TaskFits(t) /\ AsCounted(s) /\ AsCounted(t)
      <3>1. b.y = r.y + most
        BY DEF Rect
      <3>2. r.y + most <= dy
        <4> HIDE DEF r, dy, most
        <4> QED BY <1>5, <1>6, <1>7, <1>9
      <3> QED BY <1>4, <2>3, <2>4, <3>1, <3>2 DEF TaskFits
    <2> HIDE DEF s, t
    <2>6. \A x, y \in Nat : Hit(x, y, s.r) + Hit(x, y, t.r) = Hit(x, y, r)
      BY <2>2, <2>3, <2>4
    <2> QED BY <1>3, <2>1, <2>3, <2>4, <2>5, <2>6, InTwo
  <1>10. ASSUME dy < r.y + r.h,
                \/ /\ SolidAreas(r, dy) = {}
                   /\ Calls(<<[Current EXCEPT !.dy = dy + MaxSplitTileSize]>>)
                \/ \E first \in SolidAreas(r, dy) : \E b :
                     /\ b = Extended(r, first, Colour(first.x, first.y))
                     /\ Calls(Call("simple", Rect(r.x, r.y, r.w, b.y - r.y))
                              \o Call("tight", Rect(r.x, b.y, b.x - r.x, b.h))
                              \o <<Task("solid", b)>>
                              \o Call("tight", Rect(b.x + b.w, b.y, r.x + r.w - b.x - b.w, b.h))
                              \o Call("tight", Rect(r.x, b.y + b.h, r.w, r.y + r.h - b.y - b.h)))
         PROVE  \E new, rects : Good(new, rects)
    <2>1. CASE /\ SolidAreas(r, dy) = {}
               /\ Calls(<<[Current EXCEPT !.dy = dy + MaxSplitTileSize]>>)
      <3> DEFINE t == [Current EXCEPT !.dy = dy + MaxSplitTileSize]
      <3>1. todo' = <<t>> \o Tail(todo) /\ sent' = sent
        BY <2>1 DEF Calls
      <3>2. dy + MaxSplitTileSize \in Nat /\ r.y <= dy + MaxSplitTileSize
        <4> HIDE DEF r, dy
        <4> QED BY <1>5, <1>7, Limits
      <3>3. t \in Tasks /\ t.op = "search" /\ t.r = r /\ t.dy = dy + MaxSplitTileSize
        BY <1>1, <1>2, <3>2 DEF Tasks
      <3>4. TaskFits(t) /\ AsCounted(t)
        BY <1>4, <3>2, <3>3 DEF TaskFits
      <3> HIDE DEF t
      <3> QED BY <3>1, <3>3, <3>4, GoesOn
    <2>2. ASSUME NEW first \in SolidAreas(r, dy), NEW b,
                 b = Extended(r, first, Colour(first.x, first.y)),
                 Calls(Call("simple", Rect(r.x, r.y, r.w, b.y - r.y))
                       \o Call("tight", Rect(r.x, b.y, b.x - r.x, b.h))
                       \o <<Task("solid", b)>>
                       \o Call("tight", Rect(b.x + b.w, b.y, r.x + r.w - b.x - b.w, b.h))
                       \o Call("tight", Rect(r.x, b.y + b.h, r.w, r.y + r.h - b.y - b.h)))
          PROVE  \E new, rects : Good(new, rects)
      <3> DEFINE c == Colour(first.x, first.y)
                 F == {t \in Tasks : TaskFits(t) /\ AsCounted(t)}
                 s1 == Call("simple", Above(r, b))
                 s2 == Call("tight", LeftOf(r, b))
                 t3 == Task("solid", b)
                 s3 == <<t3>>
                 s4 == Call("tight", RightOf(r, b))
                 s5 == Call("tight", Below(r, b))
                 new == s1 \o s2 \o s3 \o s4 \o s5
      <3>1. first \in Rectangle /\ Inside(first, r) /\ Solid(first, c)
        BY <1>1, <1>5, <1>10, AreaIs
      <3>2. b \in Rectangle /\ Inside(b, r) /\ Solid(b, c)
        <4> HIDE DEF c, r
        <4> QED BY <1>1, <2>2, <3>1, ExtendedIs DEF c
      <3>3. Solid(b, Colour(b.x, b.y))
        <4> DEFINE bx == b.x
                   by == b.y
                   bw == b.w
                   bh == b.h
        <4>1. bx \in Nat /\ by \in Nat /\ bw \in Nat \ {0} /\ bh \in Nat \ {0}
          BY <3>2, RectanglesAre
        <4>2. \A x \in bx .. bx + bw - 1, y \in by .. by + bh - 1 : Colour(x, y) = c
          BY <3>2 DEF Solid
        <4> HIDE DEF bx, by, bw, bh, c
        <4>3. Colour(bx, by) = c
          BY <4>1, <4>2
        <4> QED BY <3>2, <4>3 DEF bx, by
      <3>4. todo' = new \o Tail(todo) /\ sent' = sent
        BY <2>2 DEF Calls, Above, LeftOf, RightOf, Below
      <3>5. /\ {Above(r, b), LeftOf(r, b), RightOf(r, b), Below(r, b)} \subseteq Boxes
            /\ \A x, y \in Nat :
                 Hit(x, y, r) = Hit(x, y, Above(r, b)) + Hit(x, y, LeftOf(r, b)) + Hit(x, y, b)
                                + Hit(x, y, RightOf(r, b)) + Hit(x, y, Below(r, b))
        BY <1>1, <3>2, Around
      <3>6. \A op \in {"simple", "tight"} : \A t \in Tasks : t.op = op => t \in F
        BY <1>4 DEF TaskFits
      <3>7. t3 \in Tasks /\ t3.op = "solid" /\ t3.r = b
        BY <3>2, TasksAre DEF Ops
      <3>8. t3 \in F
        BY <1>4, <3>3, <3>7 DEF TaskFits
      <3>9. s3 \in Seq(F) /\ s3 \in Seq(Tasks)
        <4> HIDE DEF t3, F
        <4> QED BY <3>7, <3>8
      <3>10. \A x, y \in Nat : Occurs(s3, Under(x, y)) = Hit(x, y, b)
        <4> HIDE DEF t3
        <4> QED BY <3>7, HitOne
      <3> HIDE DEF F, s3, c, r
      <3>11. /\ s1 \in Seq(F) /\ s1 \in Seq(Tasks)
             /\ \A x, y \in Nat : Occurs(s1, Under(x, y)) = Hit(x, y, Above(r, b))
        BY <3>5, <3>6, CallIs DEF Ops
      <3>12. /\ s2 \in Seq(F) /\ s2 \in Seq(Tasks)
             /\ \A x, y \in Nat : Occurs(s2, Under(x, y)) = Hit(x, y, LeftOf(r, b))
        BY <3>5, <3>6, CallIs DEF Ops
      <3>13. /\ s4 \in Seq(F) /\ s4 \in Seq(Tasks)
             /\ \A x, y \in Nat : Occurs(s4, Under(x, y)) = Hit(x, y, RightOf(r, b))
        BY <3>5, <3>6, CallIs DEF Ops
      <3>14. /\ s5 \in Seq(F) /\ s5 \in Seq(Tasks)
             /\ \A x, y \in Nat : Occurs(s5, Under(x, y)) = Hit(x, y, Below(r, b))
        BY <3>5, <3>6, CallIs DEF Ops
      <3> HIDE DEF s1, s2, s4, s5
      <3>15. /\ new \in Seq(F) /\ new \in Seq(Tasks)
             /\ \A P : Occurs(new, P)
                = Occurs(s1, P) + Occurs(s2, P) + Occurs(s3, P) + Occurs(s4, P)
                                        + Occurs(s5, P)
        <4> DEFINE u == new
        <4>1. u = s1 \o s2 \o s3 \o s4 \o s5
          OBVIOUS
        <4> HIDE DEF u
        <4>2. InAll(F, u, s1, s2, s3, s4, s5)
          BY <3>9, <3>11, <3>12, <3>13, <3>14, <4>1, FiveCalls
        <4> QED BY <4>2 DEF u, InAll
      <3> HIDE DEF new
      <3>16. Replaces(new, <<>>)
        BY <1>1, <3>4, <3>15, NoTask DEF Replaces, Cat
      <3>17. Covers(new, <<>>)
        <4> SUFFICES ASSUME NEW x \in Nat, NEW y \in Nat
                     PROVE  Occurs(new, Under(x, y)) + Occurs(<<>>, Over(x, y)) = Hit(x, y, r)
          BY DEF Covers, r
        <4>1. Occurs(new, Under(x, y)) = Hit(x, y, r)
          BY <3>5, <3>10, <3>11, <3>12, <3>13, <3>14, <3>15
        <4>2. Occurs(<<>>, Over(x, y)) = 0 /\ Hit(x, y, r) \in {0, 1}
          BY NoTask, HitIs
        <4> QED BY <4>1, <4>2
      <3>18. Sound(new)
        <4>1. \A i \in DOMAIN new : new[i] \in F
          BY <3>15
        <4> QED BY <4>1 DEF Sound, F
      <3>19. Numbered(new, <<>>)
        BY <1>3 DEF Numbered
      <3> QED BY <3>16, <3>17, <3>18, <3>19 DEF Good
    <2> QED BY <1>10, <2>1, <2>2
  <1> QED BY <1>8, <1>9, <1>10 DEF Search

(*------------------------------- The update -------------------------------*)

(* The number announced is what the first calls count for.                 *)
LEMMA CountedIs ==
  ASSUME updateRegion \in Seq(Rectangle), preferredEncoding \in SplitEncodings,
         NEW s, s \in Seq(Tasks), Len(s) = Len(updateRegion),
         \A i \in 1 .. Len(s) : s[i].r = updateRegion[i]
  PROVE  Counted \in Nat /\ Counts(Weight, s, Counted)
  <1> DEFINE n == Len(updateRegion)
             R(f) == f = [i \in 0 .. n |-> IF i = 0 THEN 0
                     ELSE f[i - 1] + NumCodedRects(updateRegion[i])]
             upTo == CHOOSE f : R(f)
  <1>1. Counted = upTo[n]
    BY DEF Counted
  <1>2. n \in Nat /\ \A i \in 1 .. n : updateRegion[i] \in Rectangle
    OBVIOUS
  <1>3. Weight \in Weights
    BY WeightIs
  <1>4. PICK f : Runs(f, Weight, s)
    BY <1>3, CountsSome
  <1> HIDE DEF n
  <1>5. /\ f \in [0 .. n -> Nat] /\ f[0] = 0
        /\ \A i \in 1 .. n : f[i] = f[i - 1] + Weight[s[i].r]
    BY <1>4 DEF Runs, n
  <1>6. \A i \in 1 .. n : Weight[s[i].r] = NumCodedRects(updateRegion[i])
    BY <1>2 DEF Weight, n
  <1>7. R(f)
    <2>1. \A i \in 0 .. n : f[i] = IF i = 0 THEN 0 ELSE f[i - 1] + NumCodedRects(updateRegion[i])
      BY <1>2, <1>5, <1>6
    <2> QED BY <1>5, <2>1
  <1>8. R(upTo)
    <2> HIDE DEF R
    <2> QED BY <1>7
  <1> HIDE DEF upTo
  <1>9. upTo[0] = 0 /\ \A i \in 1 .. n : upTo[i] = upTo[i - 1] + NumCodedRects(updateRegion[i])
    BY <1>2, <1>8
  <1> DEFINE K == {k \in 0 .. n : upTo[k] = f[k]}
  <1>10. 0 \in K
    BY <1>2, <1>5, <1>9
  <1>11. \A k \in 1 .. n : k - 1 \in K => k \in K
    <2> SUFFICES ASSUME NEW k \in 1 .. n, k - 1 \in K PROVE k \in K
      OBVIOUS
    <2>1. upTo[k - 1] = f[k - 1] /\ k \in 0 .. n
      BY <1>2
    <2> HIDE DEF R
    <2>2. upTo[k] = f[k]
      BY <1>5, <1>6, <1>9, <2>1
    <2> QED BY <2>1, <2>2
  <1> HIDE DEF K
  <1>12. \A k \in 0 .. n : k \in K
    BY <1>2, <1>10, <1>11, UpTo
  <1>13. upTo[n] = f[n] /\ f[n] \in Nat
    <2>1. n \in K
      BY <1>2, <1>12
    <2> QED BY <1>2, <1>5, <2>1 DEF K
  <1> QED BY <1>1, <1>4, <1>13 DEF Counts, n

LEMMA AnnounceStep ==
  ASSUME SplitInv, Announce PROVE SplitInv'
  <1> DEFINE n == Len(updateRegion)
             calls == [i \in DOMAIN updateRegion |-> Task(preferredEncoding, updateRegion[i])]
  <1>1. SplitTypes /\ phase = "announce" /\ phase' = "send" /\ todo' = calls
        /\ UNCHANGED <<image, updateRegion, preferredEncoding, enableLastRectEncoding, sent>>
    BY DEF SplitInv, Announce
  <1>2. updateRegion \in Seq(Rectangle) /\ preferredEncoding \in SplitEncodings /\ sent = <<>>
    BY <1>1 DEF SplitTypes
  <1>3. n \in Nat /\ DOMAIN updateRegion = 1 .. n /\ \A i \in 1 .. n : updateRegion[i] \in Rectangle
    BY <1>2
  <1>4. ASSUME NEW i \in 1 .. n
        PROVE  calls[i] \in Tasks /\ calls[i].op = preferredEncoding /\ calls[i].r = updateRegion[i]
    BY <1>2, <1>3, TasksAre DEF Ops, SplitEncodings
  <1>5. calls \in [1 .. n -> Tasks]
    BY <1>3, <1>4
  <1> HIDE DEF calls
  <1>6. calls \in Seq(Tasks) /\ Len(calls) = n /\ DOMAIN calls = 1 .. n
    BY <1>3, <1>5, FunctionIsSequence
  <1>7. Counted \in Nat /\ Counts(Weight, calls, Counted)
    <2>1. Len(calls) = Len(updateRegion) /\ \A i \in 1 .. Len(calls) : calls[i].r = updateRegion[i]
      BY <1>4, <1>6
    <2> QED BY <1>2, <1>6, <2>1, CountedIs
  <1>8. /\ nRects' = Many \/ nRects' = Counted
        /\ \/ nRects' = Many /\ preferredEncoding = "tight"
           \/ preferredEncoding # "tight"
           \/ \A i \in 1 .. n : ~SearchesSolid(updateRegion[i])
    BY <1>3 DEF Announce
  <1>9. SplitTypes'
    <2>1. nRects' \in Nat \cup {Many}
      BY <1>7, <1>8
    <2>2. sent' = sent /\ todo' = calls /\ phase' = "send" /\ updateRegion' = updateRegion
          /\ preferredEncoding' = preferredEncoding
          /\ enableLastRectEncoding' = enableLastRectEncoding
      BY <1>1
    <2> QED BY <1>1, <1>6, <2>1, <2>2 DEF SplitTypes
  <1>10. Balanced'
    <2> SUFFICES ASSUME NEW x \in Nat, NEW y \in Nat PROVE Balance(x, y)'
      BY DEF Balanced
    <2>1. \A i \in 1 .. n : calls[i] \in Under(x, y) <=> updateRegion[i] \in Over(x, y)
      BY <1>3, <1>4, RectanglesAre DEF Under, Over
    <2>2. {i \in DOMAIN calls : calls[i] \in Under(x, y)}
          = {i \in DOMAIN updateRegion : updateRegion[i] \in Over(x, y)}
      BY <1>3, <1>6, <2>1
    <2>3. Occurs(calls, Under(x, y)) = Occurs(updateRegion, Over(x, y))
      BY <2>2 DEF Occurs
    <2>4. Occurs(sent, Over(x, y)) = 0
      BY <1>2, OccursNone
    <2>5. Occurs(calls, Under(x, y)) \in Nat
      BY <1>6, OccursNat
    <2>6. 0 + Occurs(calls, Under(x, y)) = Occurs(updateRegion, Over(x, y))
      BY <2>3, <2>5
    <2> QED BY <1>1, <2>4, <2>6 DEF Balance
  <1>11. Numbers'
    <2>1. sent' \in Seq(Rectangle)
      BY <1>1, <1>2
    <2>2. ASSUME NEW i \in 1 .. n, NEW t, t = calls[i] PROVE TaskFits(t)' /\ AsCounted(t)'
      <3>1. t.op = preferredEncoding /\ t.r = updateRegion[i]
        BY <1>4, <2>2
      <3>2. TaskFits(t)'
        BY <1>2, <3>1 DEF TaskFits, SplitEncodings
      <3>3. SearchesSolid(t.r)' <=> SearchesSolid(t.r)
        BY <1>1 DEF SearchesSolid
      <3>4. AsCounted(t)'
        BY <1>1, <1>8, <3>1, <3>3 DEF AsCounted
      <3> QED BY <3>2, <3>4
    <2>3. Weight' = Weight
      BY <1>1 DEF Weight, NumCodedRects
    <2>4. ASSUME nRects' # Many
          PROVE  \E k \in Nat : Counts(Weight', todo', k) /\ Len(sent') + k = nRects'
      <3>1. nRects' = Counted /\ Len(sent') = 0
        BY <1>1, <1>2, <1>8, <2>4
      <3>2. Counts(Weight', todo', Counted)
        BY <1>1, <1>7, <2>3
      <3>3. Len(sent') + Counted = nRects'
        BY <1>7, <3>1
      <3> QED BY <1>7, <3>2, <3>3
    <2>5. todo' = calls /\ DOMAIN calls = 1 .. n
      BY <1>1, <1>6
    <2> QED BY <2>1, <2>2, <2>4, <2>5 DEF Numbers
  <1>12. CountKept'
    BY <1>1 DEF CountKept
  <1> QED BY <1>9, <1>10, <1>11, <1>12 DEF SplitInv

LEMMA FinishStep ==
  ASSUME SplitInv, Finish PROVE SplitInv'
  <1>1. /\ SplitTypes /\ Balanced /\ Numbers /\ phase = "send" /\ phase' = "sent" /\ todo = <<>>
        /\ todo' = todo /\ nRects' = nRects /\ updateRegion' = updateRegion
        /\ preferredEncoding' = preferredEncoding
        /\ enableLastRectEncoding' = enableLastRectEncoding
        /\ sent' = IF nRects = Many THEN Append(sent, LastRect) ELSE sent
    BY DEF SplitInv, Finish
  <1>2. sent \in Seq(Rectangle) /\ sent \in Seq(Boxes)
    BY <1>1 DEF Numbers, SplitTypes
  <1> DEFINE n == Len(sent)
             last == LastRect
             one == <<last>>
             longer == Append(sent, last)
  <1>3. last \in Boxes /\ last.w = 0 /\ \A x, y \in Nat : Hit(x, y, last) = 0
    BY DEF LastRect, Rect, Boxes, Hit, In
  <1> HIDE DEF last
  <1>4. one \in Seq(Boxes) /\ longer = Cat(sent, one) /\ longer \in Seq(Boxes)
    BY <1>2, <1>3, AppendIsConcat, AppendProperties DEF Cat
  <1>5. n \in Nat /\ DOMAIN longer = 1 .. n + 1 /\ Len(longer) = n + 1 /\ longer[n + 1] = last
        /\ \A i \in 1 .. n : longer[i] = sent[i] /\ sent[i] \in Rectangle
    <2>1. n \in Nat /\ Len(longer) = n + 1 /\ longer[n + 1] = last
          /\ \A i \in 1 .. n : longer[i] = sent[i]
      BY <1>2, <1>3, AppendProperties
    <2>2. DOMAIN longer = 1 .. Len(longer)
      BY <1>4
    <2>3. \A i \in 1 .. n : sent[i] \in Rectangle
      BY <1>2
    <2> QED BY <2>1, <2>2, <2>3
  <1> HIDE DEF longer
  <1>6. sent' \in Seq(Boxes) /\ sent' = IF nRects = Many THEN longer ELSE sent
    BY <1>1, <1>2, <1>4 DEF longer, last
  <1>7. SplitTypes'
    BY <1>1, <1>6 DEF SplitTypes
  <1>8. Balanced'
    <2> SUFFICES ASSUME NEW x \in Nat, NEW y \in Nat PROVE Balance(x, y)'
      BY DEF Balanced
    <2>1. Occurs(sent, Over(x, y)) + Occurs(todo, Under(x, y)) = Occurs(updateRegion, Over(x, y))
      BY <1>1 DEF Balanced, Balance
    <2>2. Occurs(longer, Over(x, y)) = Occurs(sent, Over(x, y))
      <3> DEFINE O == Over(x, y)
      <3>1. Occurs(one, O) = 0
        BY <1>3, HitOne
      <3> HIDE DEF O, one
      <3>2. Occurs(longer, O) = Occurs(sent, O) + Occurs(one, O)
        BY <1>2, <1>4, OccursCat
      <3>3. Occurs(sent, O) \in Nat
        BY <1>2, OccursNat
      <3> QED BY <3>1, <3>2, <3>3 DEF O
    <2>3. Occurs(sent', Over(x, y)) = Occurs(sent, Over(x, y))
      BY <1>6, <2>2
    <2> QED BY <1>1, <2>1, <2>3 DEF Balance
  <1>9. Numbers'
    BY <1>1 DEF Numbers
  <1>10. CountKept'
    <2>1. CASE nRects = Many
      <3>1. \A i \in 1 .. n : longer[i] # last
        BY <1>3, <1>5, RectanglesAre
      <3>2. \A i \in 1 .. n + 1 : longer[i] = last <=> i = n + 1
        BY <1>5, <3>1
      <3>3. sent' = longer /\ nRects' = Many
        BY <1>1, <1>6, <2>1
      <3>4. \A i \in DOMAIN longer : longer[i] = LastRect <=> i = Len(longer)
        BY <1>5, <3>2 DEF last
      <3> QED BY <3>3, <3>4 DEF CountKept
    <2>2. CASE nRects # Many
      <3>1. PICK k \in Nat : Counts(Weight, todo, k) /\ n + k = nRects
        BY <1>1, <2>2 DEF Numbers
      <3>2. Weight \in Weights /\ <<>> \in Seq(Tasks) /\ Counts(Weight, <<>>, 0)
        BY <1>1, WeightIs, NoTask DEF SplitTypes
      <3>3. k = 0
        <4>1. Counts(Weight, <<>>, k) /\ 0 \in Nat
          BY <1>1, <3>1
        <4> QED BY <3>1, <3>2, <4>1, CountsOnce
      <3>4. Len(sent') = nRects'
        BY <1>1, <1>5, <2>2, <3>1, <3>3
      <3> QED BY <1>1, <2>2, <3>4 DEF CountKept
    <2> QED BY <2>1, <2>2
  <1> QED BY <1>7, <1>8, <1>9, <1>10 DEF SplitInv

LEMMA SplitStart == SplitInit => SplitInv
  <1> SUFFICES ASSUME SplitInit PROVE SplitInv
    OBVIOUS
  <1>1. <<>> \in Seq(Rectangle) /\ <<>> \in Seq(Tasks) /\ <<>> \in Seq(Boxes)
    OBVIOUS
  <1>2. SplitTypes
    BY <1>1 DEF SplitInit, SplitTypes, SplitEncodings
  <1> QED BY <1>2 DEF SplitInv, SplitInit, Balanced, Numbers, CountKept

LEMMA SplitStep == SplitInv /\ [SplitNext]_splitVars => SplitInv'
  <1> SUFFICES ASSUME SplitInv, [SplitNext]_splitVars PROVE SplitInv'
    OBVIOUS
  <1>1. CASE Begin
    <2>1. PICK u \in Updates : /\ image' = u.image /\ updateRegion' = u.region
                               /\ preferredEncoding' = u.encoding
                               /\ enableLastRectEncoding' = u.lastRect
      BY <1>1 DEF Begin
    <2>2. u.region \in Seq(Rectangle) /\ u.encoding \in SplitEncodings /\ u.lastRect \in BOOLEAN
      BY SplitAssumption DEF SplitEncodings
    <2>3. phase = "idle" /\ phase' = "announce" /\ nRects' = nRects /\ todo' = todo /\ sent' = sent
      BY <1>1 DEF Begin
    <2>4. SplitTypes'
      BY <2>1, <2>2, <2>3 DEF SplitInv, SplitTypes
    <2> QED BY <2>3, <2>4 DEF SplitInv, Balanced, Numbers, CountKept
  <1>2. CASE Announce
    BY <1>2, AnnounceStep
  <1>3. CASE Send
    <2>1. Sending
      BY <1>3 DEF Sending, Send
    <2>2. \E new, rects : Good(new, rects)
      BY <1>3, <2>1, CorreGood, StripsGood, WholeGood, SimpleGood, TightGood, SearchGood DEF Send
    <2> QED BY <1>3, <2>2, SendStep
  <1>4. CASE Finish
    BY <1>4, FinishStep
  <1>5. CASE Reset
    <2>1. /\ phase' = "idle" /\ preferredEncoding' = "raw" /\ enableLastRectEncoding' = FALSE
          /\ nRects' = 0 /\ updateRegion' = <<>> /\ todo' = <<>> /\ sent' = <<>>
      BY <1>5 DEF Reset
    <2>2. <<>> \in Seq(Rectangle) /\ <<>> \in Seq(Tasks) /\ <<>> \in Seq(Boxes)
      OBVIOUS
    <2>3. SplitTypes'
      BY <2>1, <2>2 DEF SplitTypes, SplitEncodings
    <2> QED BY <2>1, <2>3 DEF SplitInv, Balanced, Numbers, CountKept
  <1>6. CASE UNCHANGED splitVars
    BY <1>6 DEF splitVars, SplitInv, SplitTypes, Balanced, Balance, Numbers, CountKept, TaskFits,
                AsCounted, SearchesSolid, Solid, Colour, Weight, NumCodedRects
  <1> QED BY <1>1, <1>2, <1>3, <1>4, <1>5, <1>6 DEF SplitNext

LEMMA SplitAlways == SplitSpec => []SplitInv
  BY SplitStart, SplitStep, PTL DEF SplitSpec

(* CountKept, for every screen, region and limit: the client is told as    *)
(* many rectangles as it is sent, or sent a LastRect after the last of     *)
(* them and no other rectangle that is taken for one.                      *)
THEOREM CountsKept == SplitSpec => []CountKept
  <1>1. SplitInv => CountKept
    BY DEF SplitInv
  <1> QED BY <1>1, SplitAlways, PTL

(* EachPixelOnce: whatever the areas of one colour are, the rectangles     *)
(* that the encoders split those of the region in cover what these cover,  *)
(* no pixel twice or left out, and what is sent as one pixel has one       *)
(* colour.                                                                 *)
THEOREM PixelsCoveredOnce == SplitSpec => []EachPixelOnce
  <1>1. SplitInv => EachPixelOnce
    <2> SUFFICES ASSUME SplitInv, phase \in {"send", "sent"}
                 PROVE  /\ \A x \in 0 .. ScreenWidth - 1, y \in 0 .. ScreenHeight - 1 :
                             Cardinality({i \in DOMAIN sent : In(x, y, sent[i])})
                             + Cardinality({i \in DOMAIN todo : In(x, y, todo[i].r)})
                             = Cardinality({i \in DOMAIN updateRegion : In(x, y, updateRegion[i])})
                        /\ \A i \in DOMAIN todo :
                             todo[i].op = "solid" => Solid(todo[i].r,
                             Colour(todo[i].r.x, todo[i].r.y))
      BY DEF EachPixelOnce
    <2>1. SplitTypes /\ Balanced /\ Numbers
      BY DEF SplitInv
    <2>2. /\ updateRegion \in Seq(Boxes) /\ sent \in Seq(Boxes) /\ todo \in Seq(Tasks)
      <3>1. updateRegion \in Seq(Rectangle) /\ Rectangle \subseteq Boxes
        BY <2>1, RectanglesAre DEF SplitTypes
      <3>2. updateRegion \in Seq(Boxes)
        BY <3>1
      <3> QED BY <2>1, <3>2 DEF SplitTypes
    <2>3. ASSUME NEW x \in 0 .. ScreenWidth - 1, NEW y \in 0 .. ScreenHeight - 1
          PROVE  Cardinality({i \in DOMAIN sent : In(x, y, sent[i])})
                 + Cardinality({i \in DOMAIN todo : In(x, y, todo[i].r)})
                 = Cardinality({i \in DOMAIN updateRegion : In(x, y, updateRegion[i])})
      <3>1. x \in Nat /\ y \in Nat
        BY SplitAssumption
      <3>2. Balance(x, y)
        BY <2>1, <3>1 DEF Balanced
      <3>3. \A i \in DOMAIN sent : sent[i] \in Over(x, y) <=> In(x, y, sent[i])
        BY <2>2 DEF Over
      <3>4. \A i \in DOMAIN updateRegion : updateRegion[i] \in Over(x, y)
            <=> In(x, y, updateRegion[i])
        BY <2>2 DEF Over
      <3>5. \A i \in DOMAIN todo : todo[i] \in Under(x, y) <=> In(x, y, todo[i].r)
        BY <2>2 DEF Under
      <3>6. {i \in DOMAIN sent : sent[i] \in Over(x, y)} = {i \in DOMAIN sent : In(x, y, sent[i])}
        BY <3>3
      <3>7. {i \in DOMAIN updateRegion : updateRegion[i] \in Over(x, y)}
            = {i \in DOMAIN updateRegion : In(x, y, updateRegion[i])}
        BY <3>4
      <3>8. {i \in DOMAIN todo : todo[i] \in Under(x, y)}
            = {i \in DOMAIN todo : In(x, y, todo[i].r)}
        BY <3>5
      <3> QED BY <3>2, <3>6, <3>7, <3>8 DEF Balance, Occurs
    <2>4. \A i \in DOMAIN todo :
            todo[i].op = "solid" => Solid(todo[i].r, Colour(todo[i].r.x, todo[i].r.y))
      BY <2>1, <2>2 DEF Numbers, TaskFits, SplitTypes
    <2> QED BY <2>3, <2>4
  <1> QED BY <1>1, SplitAlways, PTL

===============================================================================
