---------------------------- MODULE WsDecodeProofs ----------------------------
(***************************************************************************)
(* The WebSocket decoder, for every script of frames, messages, splits and *)
(* gaps, any threshold of the longer header and any buffer the longest     *)
(* header fits in: what has been handed on and what waits in the decoder   *)
(* are, in order, the data of the frames before the one under way and of   *)
(* what has been decoded of it.                                            *)
(*                                                                         *)
(* Sent and the data up to a frame are folds over the frames; what is said *)
(* of them by induction rests on UpTo, which finds the least number out of *)
(* a set.                                                                  *)
(***************************************************************************)
EXTENDS WsDecode, SequenceTheorems, WellFoundedInduction, TLAPS

(*------------------------- Numbers and sequences --------------------------*)

(* Induction over the numbers up to m, from the well-founded order.        *)
LEMMA UpTo ==
  ASSUME NEW m \in Nat, NEW S, 0 \in S, \A n \in 1 .. m : n - 1 \in S => n \in S
  PROVE  \A n \in 0 .. m : n \in S
  <1> DEFINE Less == {p \in Nat \X Nat : p[1] < p[2]}
             Bad == {n \in 0 .. m : n \notin S}
  <1>1. IsWellFoundedOn(Less, Nat)
    BY NatLessThanWellFounded DEF OpToRel
  <1> HIDE DEF Less
  <1>2. SUFFICES ASSUME Bad # {} PROVE FALSE
    OBVIOUS
  <1>3. Bad \subseteq Nat
    OBVIOUS
  <1> HIDE DEF Bad
  <1>4. PICK n \in Bad : \A k \in Bad : <<k, n>> \notin Less
    BY <1>1, <1>2, <1>3, WFMin
  <1>5. n \in 1 .. m
    BY DEF Bad
  <1>6. n - 1 \in Nat /\ n - 1 < n /\ n \in Nat
    BY <1>5
  <1>7. n - 1 \notin Bad
    BY <1>4, <1>6 DEF Less
  <1> QED
    BY <1>5, <1>7 DEF Bad

(* Min of the community modules, on two numbers.                           *)
LEMMA LeastOfTwo ==
  ASSUME NEW a \in Nat, NEW b \in Nat
  PROVE  Min({a, b}) = IF a <= b THEN a ELSE b
  BY DEF Min

(* FlattenSeq puts one sequence behind the other.                          *)
Flattens(f, seqs, n) ==
    \A i \in 1 .. n : f[i] = IF i = 1 THEN seqs[i] ELSE f[i - 1] \o seqs[i]

(* The function FlattenSeq chooses exists, and is the only one.            *)
LEMMA FlattenExists ==
  ASSUME NEW S, NEW seqs \in Seq(Seq(S))
  PROVE  \E f \in [1 .. Len(seqs) -> Seq(S)] : Flattens(f, seqs, Len(seqs))
  <1> DEFINE m == Len(seqs)
             Upto(f, n) == \A i \in 1 .. n : f[i] = IF i = 1 THEN seqs[i] ELSE f[i - 1] \o seqs[i]
             N == {n \in 0 .. m : \E f \in [1 .. n -> Seq(S)] : Upto(f, n)}
  <1>1. m \in Nat
    OBVIOUS
  <1>2. 0 \in N
    <2> DEFINE z == [i \in 1 .. 0 |-> <<>>]
    <2>1. z \in [1 .. 0 -> Seq(S)] /\ Upto(z, 0)
      OBVIOUS
    <2>2. 0 \in 0 .. m
      BY <1>1
    <2> HIDE DEF z, Upto, m
    <2> QED
      BY <2>1, <2>2
  <1>3. ASSUME NEW n \in 1 .. m, n - 1 \in N
        PROVE  n \in N
    <2>1. PICK f \in [1 .. n - 1 -> Seq(S)] : Upto(f, n - 1)
      BY <1>3
    <2> DEFINE e == IF n = 1 THEN seqs[n] ELSE f[n - 1] \o seqs[n]
               g == [i \in 1 .. n |-> IF i < n THEN f[i] ELSE e]
    <2>2. seqs[n] \in Seq(S)
      OBVIOUS
    <2>3. e \in Seq(S)
      BY <2>2
    <2> HIDE DEF e
    <2>4. g \in [1 .. n -> Seq(S)]
      BY <2>3
    <2>5. \A i \in 1 .. n : g[i] = IF i < n THEN f[i] ELSE e
      OBVIOUS
    <2> HIDE DEF g
    <2>6. ASSUME NEW i \in 1 .. n
          PROVE  g[i] = IF i = 1 THEN seqs[i] ELSE g[i - 1] \o seqs[i]
      <3>1. CASE i < n
        <4>1. i \in 1 .. n - 1 /\ g[i] = f[i]
          BY <2>5, <3>1
        <4>2. i # 1 => g[i - 1] = f[i - 1]
          BY <2>5, <3>1
        <4> QED
          BY <2>1, <4>1, <4>2
      <3>2. CASE i = n
        <4>1. g[i] = e
          BY <2>5, <3>2
        <4>2. i # 1 => g[i - 1] = f[n - 1]
          BY <2>5, <3>2
        <4> QED
          BY <3>2, <4>1, <4>2 DEF e
      <3> QED
        BY <3>1, <3>2
    <2>7. n \in 0 .. m /\ Upto(g, n)
      BY <1>1, <2>6
    <2> HIDE DEF Upto, m
    <2> QED
      BY <2>4, <2>7
  <1>4. m \in N
    <2> HIDE DEF N, m
    <2>1. \A n \in 1 .. m : n - 1 \in N => n \in N
      BY <1>3
    <2>2. \A n \in 0 .. m : n \in N
      BY <1>1, <1>2, <2>1, UpTo
    <2> QED
      BY <1>1, <2>2
  <1> QED
    BY <1>4 DEF Flattens

LEMMA FlattenUnique ==
  ASSUME NEW m \in Nat, NEW seqs, NEW f, Flattens(f, seqs, m), NEW g, Flattens(g, seqs, m)
  PROVE  \A i \in 1 .. m : f[i] = g[i]
  <1> DEFINE N == {n \in 0 .. m : n > 0 => f[n] = g[n]}
  <1>1. 0 \in N
    OBVIOUS
  <1>2. ASSUME NEW n \in 1 .. m, n - 1 \in N
        PROVE  n \in N
    <2>1. f[n] = IF n = 1 THEN seqs[n] ELSE f[n - 1] \o seqs[n]
      BY DEF Flattens
    <2>2. g[n] = IF n = 1 THEN seqs[n] ELSE g[n - 1] \o seqs[n]
      BY DEF Flattens
    <2>3. n # 1 => f[n - 1] = g[n - 1]
      BY <1>2
    <2> QED
      BY <2>1, <2>2, <2>3
  <1>3. \A n \in 0 .. m : n \in N
    <2> HIDE DEF N
    <2> QED
      BY <1>1, <1>2, UpTo
  <1> QED
    BY <1>3

(* What FlattenSeq yields is the last value of that function.              *)
LEMMA FlattenIs ==
  ASSUME NEW S, NEW seqs \in Seq(Seq(S)), seqs # <<>>
  PROVE  \E f \in [1 .. Len(seqs) -> Seq(S)] : Flattens(f, seqs, Len(seqs)) /\ FlattenSeq(seqs) = f[Len(seqs)]
  <1> DEFINE R(f) == f = [i \in 1 .. Len(seqs) |-> IF i = 1 THEN seqs[i] ELSE f[i - 1] \o seqs[i]]
             flat == CHOOSE f : R(f)
  <1>1. PICK f \in [1 .. Len(seqs) -> Seq(S)] : Flattens(f, seqs, Len(seqs))
    BY FlattenExists
  <1>2. R(f)
    BY <1>1 DEF Flattens
  <1>3. R(flat)
    <2> HIDE DEF R
    <2> QED
      BY <1>2
  <1>4. Flattens(flat, seqs, Len(seqs))
    <2> HIDE DEF flat
    <2> QED
      BY <1>3 DEF Flattens
  <1>5. \A i \in 1 .. Len(seqs) : flat[i] = f[i]
    <2> HIDE DEF flat
    <2> QED
      BY <1>1, <1>4, FlattenUnique
  <1>6. FlattenSeq(seqs) = flat[Len(seqs)]
    <2>1. Len(seqs) # 0
      OBVIOUS
    <2> QED
      BY <2>1 DEF FlattenSeq
  <1> HIDE DEF flat
  <1>7. Len(seqs) \in 1 .. Len(seqs)
    OBVIOUS
  <1> QED
    BY <1>1, <1>5, <1>6, <1>7

Pairs == Nat \X Nat
Cat(s, t) == s \o t

(* One more sequence is put behind the others.                             *)
LEMMA FlattenAppend ==
  ASSUME NEW seqs, seqs \in Seq(Seq(Pairs)), NEW s, s \in Seq(Pairs),
         NEW more, more \in Seq(Seq(Pairs)), more = Append(seqs, s)
  PROVE  FlattenSeq(more) = Cat(FlattenSeq(seqs), s) /\ FlattenSeq(seqs) \in Seq(Pairs)
  <1>0. Len(seqs) \in Nat
    OBVIOUS
  <1>1. /\ more # <<>> /\ Len(more) = Len(seqs) + 1 /\ more[Len(more)] = s
        /\ \A i \in 1 .. Len(seqs) : more[i] = seqs[i]
    <2> DEFINE T == Seq(Pairs)
    <2>1. seqs \in Seq(T) /\ s \in T
      OBVIOUS
    <2> HIDE DEF T
    <2> QED
      BY <2>1, AppendProperties
  <1>2. PICK g : /\ g \in [1 .. Len(more) -> Seq(Pairs)] /\ Flattens(g, more, Len(more))
                  /\ FlattenSeq(more) = g[Len(more)]
    BY <1>1, FlattenIs
  <1>3. CASE seqs = <<>>
    <2>1. FlattenSeq(seqs) = <<>> /\ <<>> \o s = s /\ <<>> \in Seq(Pairs)
      BY <1>3 DEF FlattenSeq
    <2>2. g[1] = s
      BY <1>1, <1>2, <1>3 DEF Flattens
    <2>3. FlattenSeq(more) = s
      BY <1>1, <1>2, <1>3, <2>2
    <2> QED
      BY <2>1, <2>3 DEF Cat
  <1>4. CASE seqs # <<>>
    <2>1. PICK f : /\ f \in [1 .. Len(seqs) -> Seq(Pairs)] /\ Flattens(f, seqs, Len(seqs))
                   /\ FlattenSeq(seqs) = f[Len(seqs)]
      BY <1>4, FlattenIs
    <2>2. Len(seqs) \in 1 .. Len(seqs) /\ Len(more) \in 1 .. Len(more) /\ Len(more) # 1
      BY <1>1, <1>4
    <2>3. f[Len(seqs)] = g[Len(seqs)]
      <3>1. \A i \in 1 .. Len(seqs) : i \in 1 .. Len(more)
        BY <1>0, <1>1
      <3>2. Flattens(g, more, Len(seqs))
        BY <1>2, <3>1 DEF Flattens
      <3>3. Flattens(g, seqs, Len(seqs))
        BY <1>1, <3>2 DEF Flattens
      <3>4. \A i \in 1 .. Len(seqs) : f[i] = g[i]
        <4>1. Flattens(f, seqs, Len(seqs))
          BY <2>1
        <4> QED
          BY <1>0, <3>3, <4>1, FlattenUnique
      <3> QED
        BY <2>2, <3>4
    <2>4. g[Len(more)] = g[Len(seqs)] \o s
      <3>1. g[Len(more)] = g[Len(more) - 1] \o more[Len(more)]
        BY <1>2, <2>2 DEF Flattens
      <3> QED
        BY <1>0, <1>1, <3>1
    <2> QED
      BY <1>2, <2>1, <2>2, <2>3, <2>4 DEF Cat
  <1> QED
    BY <1>3, <1>4

(*--------------------------- What the frames carry ------------------------*)

Bytes(i, n) == [k \in 1 .. n |-> <<i, k - 1>>]
Flat(n) == FlattenSeq([j \in 1 .. n |-> DataOf(j)])

LEMMA FrameTypes ==
  ASSUME script \in Scripts
  PROVE  /\ Len(Frames) \in Nat /\ DOMAIN Frames = 1 .. Len(Frames)
         /\ \A i \in 1 .. Len(Frames) : Frames[i] \in Frame
  <1>1. Frames \in Seq(Frame)
    BY WsAssumption DEF Frames
  <1> QED
    BY <1>1

(* Sequences of bytes, each byte a frame and an offset there, put one      *)
(* behind the other.                                                       *)
LEMMA CatFacts ==
  /\ \A a, b \in Seq(Pairs) : Cat(a, b) \in Seq(Pairs)
  /\ \A a, b, c \in Seq(Pairs) : Cat(Cat(a, b), c) = Cat(a, Cat(b, c))
  /\ \A a \in Seq(Pairs) : Cat(a, <<>>) = a /\ Cat(<<>>, a) = a
  <1>1. ASSUME NEW a \in Seq(Pairs), NEW b \in Seq(Pairs) PROVE Cat(a, b) \in Seq(Pairs)
    BY DEF Cat
  <1>2. ASSUME NEW a \in Seq(Pairs), NEW b \in Seq(Pairs), NEW c \in Seq(Pairs)
        PROVE  Cat(Cat(a, b), c) = Cat(a, Cat(b, c))
    BY DEF Cat
  <1>3. ASSUME NEW a \in Seq(Pairs) PROVE Cat(a, <<>>) = a /\ Cat(<<>>, a) = a
    BY DEF Cat
  <1> QED
    BY <1>1, <1>2, <1>3

LEMMA CatElements ==
  \A a, b \in Seq(Pairs) :
    /\ Len(Cat(a, b)) = Len(a) + Len(b)
    /\ \A k \in 1 .. Len(a) : Cat(a, b)[k] = a[k]
    /\ \A k \in 1 .. Len(b) : Cat(a, b)[Len(a) + k] = b[k]
  BY DEF Cat

(* The first n bytes of frame i.                                           *)
LEMMA BytesAre ==
  ASSUME NEW i \in Nat, NEW n \in Nat
  PROVE  /\ Bytes(i, n) \in Seq(Pairs) /\ Len(Bytes(i, n)) = n
         /\ \A k \in 1 .. n : Bytes(i, n)[k] = <<i, k - 1>>
  <1>1. \A k \in 1 .. n : <<i, k - 1>> \in Pairs
    BY DEF Pairs
  <1> QED
    BY <1>1 DEF Bytes

(* The sequence t holds the m bytes of frame i that follow the first n.    *)
Follows(t, i, n, m) ==
    t \in Seq(Pairs) /\ Len(t) = m /\ \A k \in 1 .. m : t[k] = <<i, n + k - 1>>

(* The bytes that follow the first ones, put behind them.                  *)
LEMMA BytesJoin ==
  ASSUME NEW i \in Nat, NEW n \in Nat, NEW m \in Nat, NEW t, Follows(t, i, n, m)
  PROVE  Cat(Bytes(i, n), t) = Bytes(i, n + m)
  <1> DEFINE e == n + m
             b == Bytes(i, n)
             all == Bytes(i, e)
             j == Cat(b, t)
  <1>0. t \in Seq(Pairs) /\ Len(t) = m /\ \A k \in 1 .. m : t[k] = <<i, n + k - 1>>
    BY DEF Follows
  <1>1. e \in Nat
    OBVIOUS
  <1> HIDE DEF e
  <1>2. /\ b \in Seq(Pairs) /\ Len(b) = n /\ \A k \in 1 .. n : b[k] = <<i, k - 1>>
        /\ all \in Seq(Pairs) /\ Len(all) = e /\ \A k \in 1 .. e : all[k] = <<i, k - 1>>
    BY <1>1, BytesAre
  <1> HIDE DEF b, all
  <1>3. /\ Len(j) = e /\ \A k \in 1 .. n : j[k] = b[k]
        /\ \A k \in 1 .. m : j[n + k] = t[k]
    <2>0. b \in Seq(Pairs) /\ t \in Seq(Pairs)
      BY <1>0, <1>2
    <2>1. /\ Len(j) = Len(b) + Len(t) /\ \A k \in 1 .. Len(b) : j[k] = b[k]
          /\ \A k \in 1 .. Len(t) : j[Len(b) + k] = t[k]
      BY <2>0, CatElements
    <2> HIDE DEF j
    <2> QED
      BY <1>0, <1>2, <2>1 DEF e
  <1>4. j \in Seq(Pairs)
    BY <1>0, <1>2, CatFacts
  <1> HIDE DEF j
  <1>5. ASSUME NEW k \in 1 .. e
        PROVE  j[k] = all[k]
    <2>1. CASE k <= n
      <3>1. k \in 1 .. n
        BY <2>1 DEF e
      <3> QED
        BY <1>2, <1>3, <3>1
    <2>2. CASE k > n
      <3> DEFINE l == k - n
      <3>1. l \in 1 .. m /\ n + l = k
        BY <2>2 DEF e
      <3>2. j[n + l] = t[l] /\ t[l] = <<i, n + l - 1>>
        BY <1>0, <1>3, <3>1
      <3>3. n + l - 1 = k - 1
        BY <3>1
      <3> QED
        BY <1>2, <3>1, <3>2, <3>3
    <2> QED
      BY <1>1, <2>1, <2>2
  <1>6. j = all
    BY <1>2, <1>3, <1>4, <1>5, SeqEqual
  <1> QED
    BY <1>6 DEF j, b, all, e

(* What a frame carries are its first bytes.                               *)
LEMMA DataIs ==
  ASSUME script \in Scripts, NEW i \in 1 .. Len(Frames)
  PROVE  /\ DataLen(i) \in Nat /\ DataOf(i) = Bytes(i, DataLen(i)) /\ DataOf(i) \in Seq(Pairs)
  <1>1. Frames[i].len \in Nat
    BY FrameTypes DEF Frame
  <1>2. DataLen(i) \in Nat
    <2>1. (3 * Frames[i].len) \div 4 \in Nat
      BY <1>1
    <2> QED
      BY <1>1, <2>1 DEF DataLen
  <1>3. i \in Nat
    BY FrameTypes
  <1> QED
    BY <1>2, <1>3, BytesAre DEF DataOf, Bytes

(* Flat(n) is what the first n frames carry.                               *)
LEMMA FlatNone == Flat(0) = <<>>
  <1>1. [j \in 1 .. 0 |-> DataOf(j)] = <<>>
    OBVIOUS
  <1> QED
    BY <1>1 DEF Flat, FlattenSeq

LEMMA FlatStep ==
  ASSUME script \in Scripts, NEW n \in 1 .. Len(Frames)
  PROVE  Flat(n) = Cat(Flat(n - 1), DataOf(n)) /\ Flat(n - 1) \in Seq(Pairs)
  <1> DEFINE T == Seq(Pairs)
             seqs == [j \in 1 .. n - 1 |-> DataOf(j)]
             more == [j \in 1 .. n |-> DataOf(j)]
  <1>1. n \in Nat \ {0} /\ \A j \in 1 .. n : j \in 1 .. Len(Frames)
    BY FrameTypes
  <1>2. \A j \in 1 .. n : DataOf(j) \in T
    BY <1>1, DataIs
  <1> HIDE DEF T
  <1>3. seqs \in Seq(T) /\ more \in Seq(T) /\ DataOf(n) \in T
    BY <1>1, <1>2
  <1>4. more = Append(seqs, DataOf(n))
    <2>1. Append(seqs, DataOf(n)) \in Seq(T) /\ Len(Append(seqs, DataOf(n))) = n
      BY <1>1, <1>3
    <2>2. Len(more) = n
      BY <1>1
    <2>3. \A j \in 1 .. n : more[j] = Append(seqs, DataOf(n))[j]
      BY <1>1, <1>3
    <2> HIDE DEF more, seqs
    <2> QED
      BY <1>3, <2>1, <2>2, <2>3, SeqEqual
  <1> HIDE DEF more, seqs
  <1>5. seqs \in Seq(Seq(Pairs)) /\ more \in Seq(Seq(Pairs)) /\ DataOf(n) \in Seq(Pairs)
    BY <1>3 DEF T
  <1>6. FlattenSeq(more) = Cat(FlattenSeq(seqs), DataOf(n)) /\ FlattenSeq(seqs) \in Seq(Pairs)
    BY <1>4, <1>5, FlattenAppend
  <1> QED
    BY <1>6 DEF Flat, more, seqs

LEMMA FlatSeq ==
  ASSUME script \in Scripts, NEW n \in 0 .. Len(Frames)
  PROVE  Flat(n) \in Seq(Pairs)
  <1>1. CASE n = 0
    <2>1. Flat(n) = <<>>
      BY <1>1, FlatNone
    <2> QED
      BY <2>1
  <1>2. CASE n # 0
    <2>1. n \in 1 .. Len(Frames)
      BY <1>2, FrameTypes
    <2>2. /\ Flat(n) = Cat(Flat(n - 1), DataOf(n)) /\ Flat(n - 1) \in Seq(Pairs)
          /\ DataOf(n) \in Seq(Pairs)
      BY <2>1, FlatStep, DataIs
    <2> QED
      BY <2>2, CatFacts
  <1> QED
    BY <1>1, <1>2

(* What the first frames carry begins all that is sent.                    *)
LEMMA FlatPrefix ==
  ASSUME script \in Scripts, NEW n \in 0 .. Len(Frames)
  PROVE  \E t \in Seq(Pairs) : Sent = Cat(Flat(n), t)
  <1> DEFINE m == Len(Frames)
             Extends(k) == \E t \in Seq(Pairs) : Flat(k) = Cat(Flat(n), t)
             N == {k \in 0 .. m : n <= k => Extends(k)}
  <1>1. m \in Nat /\ n \in Nat /\ n <= m
    BY FrameTypes
  <1>2. Flat(n) \in Seq(Pairs) /\ Flat(n) = Cat(Flat(n), <<>>) /\ <<>> \in Seq(Pairs)
    BY FlatSeq, CatFacts
  <1>3. Extends(n)
    BY <1>2
  <1>4. ASSUME NEW k \in 1 .. m, Extends(k - 1)
        PROVE  Extends(k)
    <2>1. PICK t : t \in Seq(Pairs) /\ Flat(k - 1) = Cat(Flat(n), t)
      BY <1>4
    <2>2. Flat(k) = Cat(Cat(Flat(n), t), DataOf(k)) /\ DataOf(k) \in Seq(Pairs)
      BY <2>1, FlatStep, DataIs
    <2>3. Flat(k) = Cat(Flat(n), Cat(t, DataOf(k))) /\ Cat(t, DataOf(k)) \in Seq(Pairs)
      BY <1>2, <2>1, <2>2, CatFacts
    <2> QED
      BY <2>3
  <1> HIDE DEF Extends
  <1>5. 0 \in N
    BY <1>1, <1>3
  <1>6. \A k \in 1 .. m : k - 1 \in N => k \in N
    <2> SUFFICES ASSUME NEW k \in 1 .. m, k - 1 \in N
                 PROVE  k \in N
      OBVIOUS
    <2>1. k = n \/ ~(n <= k) \/ n <= k - 1
      BY <1>1
    <2>2. n <= k - 1 => Extends(k)
      BY <1>4
    <2> QED
      BY <1>1, <1>3, <2>1, <2>2
  <1>7. m \in N
    <2> HIDE DEF N, m
    <2>1. \A k \in 0 .. m : k \in N
      BY <1>1, <1>5, <1>6, UpTo
    <2> QED
      BY <1>1, <2>1
  <1>8. Sent = Flat(m)
    BY FrameTypes DEF Sent, Flat
  <1> QED
    BY <1>1, <1>7, <1>8 DEF Extends

(* A sequence that another one follows is a prefix.                        *)
LEMMA PrefixOfConcat ==
  ASSUME NEW S, NEW s, s \in Seq(S), NEW t, t \in Seq(S), NEW u, u = s \o t
  PROVE  IsPrefix(s, u)
  <1>1. u \in Seq(S) /\ Len(u) = Len(s) + Len(t) /\ Len(s) \in Nat /\ Len(t) \in Nat
    OBVIOUS
  <1>2. \A i \in 1 .. Len(s) : u[i] = s[i]
    BY <1>1
  <1>3. SubSeq(s, 1, Len(s)) = s
    BY SubSeqFull
  <1>4. /\ SubSeq(u, 1, Len(s)) \in Seq(S) /\ Len(SubSeq(u, 1, Len(s))) = Len(s)
        /\ \A i \in 1 .. Len(s) : SubSeq(u, 1, Len(s))[i] = s[i]
    BY <1>1, <1>2
  <1>5. SubSeq(u, 1, Len(s)) = s
    BY <1>4, SeqEqual
  <1> QED
    BY <1>1, <1>3, <1>5 DEF IsPrefix

(* What has been handed on begins all that is sent, if with what waits in  *)
(* the decoder it is what the frames before carry and a part of the next.  *)
LEMMA OrderIsPrefix ==
  ASSUME script \in Scripts, NEW i \in 1 .. Len(Frames), NEW n \in 0 .. DataLen(i),
         NEW s, s \in Seq(Pairs), NEW d, d \in Seq(Pairs), Cat(s, d) = Cat(Flat(i - 1), Bytes(i, n))
  PROVE  IsPrefix(s, Sent)
  <1>1. DataLen(i) \in Nat /\ DataOf(i) = Bytes(i, DataLen(i)) /\ i \in Nat
    BY DataIs, FrameTypes
  <1> DEFINE m == DataLen(i) - n
             r == [k \in 1 .. m |-> <<i, n + k - 1>>]
  <1>2. m \in Nat /\ n \in Nat /\ n + m = DataLen(i)
    BY <1>1
  <1>3. r \in Seq(Pairs) /\ Len(r) = m /\ \A k \in 1 .. m : r[k] = <<i, n + k - 1>>
    <2>1. \A k \in 1 .. m : <<i, n + k - 1>> \in Pairs
      BY <1>1, <1>2 DEF Pairs
    <2> HIDE DEF m
    <2>2. r \in [1 .. m -> Pairs] /\ \A k \in 1 .. m : r[k] = <<i, n + k - 1>>
      BY <2>1
    <2> HIDE DEF r
    <2> QED
      BY <1>2, <2>2
  <1> HIDE DEF m, r
  <1>4. Cat(Bytes(i, n), r) = Bytes(i, n + m)
    <2>1. Follows(r, i, n, m)
      BY <1>3 DEF Follows
    <2> QED
      BY <1>1, <1>2, <2>1, BytesJoin
  <1>5. PICK t : t \in Seq(Pairs) /\ Sent = Cat(Flat(i), t)
    <2>1. i \in 0 .. Len(Frames)
      BY <1>1, FrameTypes
    <2> QED
      BY <2>1, FlatPrefix
  <1>6. /\ Bytes(i, n) \in Seq(Pairs) /\ Flat(i - 1) \in Seq(Pairs) /\ r \in Seq(Pairs)
        /\ t \in Seq(Pairs) /\ s \in Seq(Pairs) /\ d \in Seq(Pairs)
    BY <1>1, <1>2, <1>3, <1>5, BytesAre, FlatStep
  <1>7. Flat(i) = Cat(Flat(i - 1), Cat(Bytes(i, n), r))
    BY <1>1, <1>2, <1>4, FlatStep
  <1>8. Flat(i) = Cat(Cat(s, d), r)
    BY <1>6, <1>7, CatFacts
  <1>9. Flat(i) = Cat(s, Cat(d, r)) /\ Cat(d, r) \in Seq(Pairs)
    BY <1>6, <1>8, CatFacts
  <1>10. Sent = Cat(s, Cat(Cat(d, r), t)) /\ Cat(Cat(d, r), t) \in Seq(Pairs)
    BY <1>5, <1>6, <1>9, CatFacts
  <1> QED
    BY <1>10, PrefixOfConcat DEF Cat

(*------------------------------- Messages ---------------------------------*)

Data == {"text", "binary"}

(* The opcode of the message that frame i goes on with is c ...            *)
Pending(i, c) ==
    /\ c \in Data /\ Fragmented(i)
    /\ \E j \in 1 .. i - 1 : /\ Frames[j].op = c
                             /\ \A k \in j + 1 .. i - 1 : Frames[k].op \notin Data
(* ... or the decoder knows of none.                                       *)
Known(i, c) == c = "invalid" \/ Pending(i, c)

(* A continuation has the opcode the decoder remembers.                    *)
LEMMA PendingOpcode ==
  ASSUME script \in Scripts, NEW i \in 1 .. Len(Frames), NEW c,
         Frames[i].op = "continuation", Pending(i, c)
  PROVE  Opcode(i) = c
  <1>1. i \in Nat
    BY FrameTypes
  <1>2. PICK j \in 1 .. i - 1 : Frames[j].op = c /\ \A k \in j + 1 .. i - 1 : Frames[k].op \notin Data
    BY DEF Pending
  <1> DEFINE S == {k \in 1 .. i : Frames[k].op \in {"text", "binary"}}
  <1>3. j \in S /\ j \in Nat
    BY <1>1, <1>2 DEF Pending, Data
  <1>4. \A k \in S : k \in Nat /\ k <= j
    <2> SUFFICES ASSUME NEW k \in S PROVE k \in Nat /\ k <= j
      OBVIOUS
    <2>1. k # i
      OBVIOUS
    <2>2. k \in 1 .. i - 1
      BY <1>1, <2>1
    <2>3. k \notin j + 1 .. i - 1
      BY <1>2 DEF Data
    <2> QED
      BY <1>1, <1>2, <2>2, <2>3
  <1> HIDE DEF S
  <1>5. Max(S) = j
    BY <1>3, <1>4 DEF Max
  <1>6. Fragmented(i)
    BY DEF Pending
  <1>7. Opcode(i) = Frames[Max(S)].op
    BY <1>6 DEF Opcode, S
  <1> QED
    BY <1>2, <1>5, <1>7

(* Whether a message goes on after a frame depends on that frame, or, when *)
(* it is a control frame, on those before.                                 *)
LEMMA FragmentedNext ==
  ASSUME script \in Scripts, NEW i \in 1 .. Len(Frames)
  PROVE  Fragmented(i + 1) <=> IF Frames[i].op \in Control THEN Fragmented(i) ELSE ~Frames[i].fin
  <1>1. i \in Nat /\ i + 1 - 1 = i
    BY FrameTypes
  <1>2. Fragmented(i + 1) <=> \E j \in 1 .. i :
             /\ Frames[j].op \notin Control /\ ~Frames[j].fin
             /\ \A k \in j + 1 .. i : Frames[k].op \in Control
    BY <1>1 DEF Fragmented
  <1>3. \A j \in 1 .. i : j = i \/ (j \in 1 .. i - 1 /\ i \in j + 1 .. i)
    BY <1>1
  <1>4. CASE Frames[i].op \notin Control
    <2>1. i \in 1 .. i /\ \A k \in i + 1 .. i : FALSE
      BY <1>1
    <2> QED
      BY <1>2, <1>3, <1>4, <2>1
  <1>5. CASE Frames[i].op \in Control
    <2>1. \A j \in 1 .. i - 1 : (\A k \in j + 1 .. i : Frames[k].op \in Control)
                                  <=> \A k \in j + 1 .. i - 1 : Frames[k].op \in Control
      BY <1>1, <1>5
    <2>2. Fragmented(i) <=> \E j \in 1 .. i - 1 :
             /\ Frames[j].op \notin Control /\ ~Frames[j].fin
             /\ \A k \in j + 1 .. i - 1 : Frames[k].op \in Control
      BY DEF Fragmented
    <2>3. \A j \in 1 .. i - 1 : j \in 1 .. i
      BY <1>1
    <2> QED
      BY <1>2, <1>3, <1>5, <2>1, <2>2, <2>3
  <1> QED
    BY <1>4, <1>5

(* The first frame of a message is remembered ...                          *)
LEMMA PendingData ==
  ASSUME script \in Scripts, NEW i \in 1 .. Len(Frames), Frames[i].op \in Data, ~Frames[i].fin
  PROVE  Pending(i + 1, Frames[i].op)
  <1>1. i \in Nat /\ i + 1 - 1 = i /\ i \in 1 .. i /\ \A k \in i + 1 .. i : FALSE
    BY FrameTypes
  <1>2. Fragmented(i + 1)
    BY FragmentedNext DEF Data, Control
  <1> QED
    BY <1>1, <1>2 DEF Pending

(* ... until the last one.                                                 *)
LEMMA PendingOn ==
  ASSUME script \in Scripts, NEW i \in 1 .. Len(Frames), NEW c, Pending(i, c),
         Frames[i].op \notin Data, Frames[i].op \in Control \/ ~Frames[i].fin
  PROVE  Pending(i + 1, c)
  <1>1. i \in Nat /\ i + 1 - 1 = i
    BY FrameTypes
  <1>2. Fragmented(i + 1) /\ c \in Data
    BY FragmentedNext DEF Pending
  <1>3. PICK j \in 1 .. i - 1 : Frames[j].op = c /\ \A k \in j + 1 .. i - 1 : Frames[k].op \notin Data
    BY DEF Pending
  <1>4. j \in 1 .. i /\ \A k \in j + 1 .. i : k = i \/ k \in j + 1 .. i - 1
    BY <1>1
  <1>5. \A k \in j + 1 .. i : Frames[k].op \notin Data
    BY <1>3, <1>4
  <1>6. Frames[j].op = c
    BY <1>3
  <1>7. \E l \in 1 .. i : Frames[l].op = c /\ \A k \in l + 1 .. i : Frames[k].op \notin Data
    BY <1>4, <1>5, <1>6
  <1> QED
    BY <1>1, <1>2, <1>7 DEF Pending

(*------------------------- The decoder's state ----------------------------*)

CtxType == [state : {"header", "extended", "needed", "available"}, nRead : 0 .. Extended,
            opcode : Opcodes \cup {"invalid"}, got : Nat, write : Nat, carry : Seq(Nat),
            data : Seq(Pairs), cont : Data \cup {"invalid"}]

(* The decoder knows what frame i is, and takes it.                        *)
Identified(c, i) ==
    LET f == Frames[i] IN
    /\ ~Rejected(c, f)
    /\ c.opcode = IF f.op = "continuation" THEN c.cont ELSE f.op
    /\ IF f.op \in Data THEN c.cont = IF f.fin THEN "invalid" ELSE f.op ELSE Known(i, c.cont)

Blank(c) == c.got = 0 /\ c.write = 0 /\ c.carry = <<>> /\ c.data = <<>>

(* In the header of frame i, p bytes of which have been read.              *)
HeaderOK(c, i, p) ==
    /\ Blank(c) /\ c.nRead = p
    /\ IF i > Len(Frames) THEN p = 0 ELSE p < HeaderLen(Frames[i])
    /\ IF p < 2 THEN c.opcode = "invalid" /\ Known(i, c.cont) ELSE Identified(c, i)

ExtendedOK(c, i, p) ==
    /\ Blank(c) /\ c.nRead = p
    /\ i <= Len(Frames) /\ Frames[i].long /\ p \in 2 .. Short /\ Identified(c, i)

(* The bytes carried over are the last ones read; those before are whole   *)
(* groups of four.                                                         *)
Carrying(c, i) ==
    LET n == Len(c.carry) IN
    /\ c.got <= Frames[i].len /\ n <= 3 /\ n <= c.got
    /\ c.carry = [k \in 1 .. n |-> c.got - n + k - 1]
    /\ IF c.got = Frames[i].len THEN c.carry = <<>> ELSE (c.got - n) % 4 = 0
    /\ c.write + n < BufLen
    /\ c.opcode \in Data => c.write = HeaderLen(Frames[i])

(* In the payload of frame i.                                              *)
PayloadOK(c, i, p) ==
    /\ i <= Len(Frames) /\ p = HeaderLen(Frames[i]) + c.got
    /\ Identified(c, i) /\ Carrying(c, i)
    /\ c.state = "available" <=> c.data # <<>>
    /\ c.state = "needed" => c.got < Frames[i].len \/ Frames[i].len = 0

Decoder(c, i, p) ==
    /\ c.state = "header" => HeaderOK(c, i, p)
    /\ c.state = "extended" => ExtendedOK(c, i, p)
    /\ c.state \in {"needed", "available"} => PayloadOK(c, i, p)

(* How many of the frame's data bytes have been decoded.                   *)
DecodedLen(c) ==
    LET n == c.got - Len(c.carry) IN
    CASE c.opcode = "binary" -> n [] c.opcode = "text" -> (3 * n) \div 4 [] OTHER -> 0

(* What has been handed on and what waits in the decoder are the data up   *)
(* to there.                                                               *)
Order(c, i, o) == Cat(o, c.data) = Cat(Flat(i - 1), Bytes(i, DecodedLen(c)))

LEMMA KnownType ==
  ASSUME NEW i, NEW c, Known(i, c)
  PROVE  c \in Data \cup {"invalid"}
  BY DEF Known, Pending

(* A decoder that has been cleaned up is at the header of a frame.         *)
LEMMA ClearedOK ==
  ASSUME NEW i, NEW k, Known(i, k), script \in Scripts
  PROVE  Cleared(k) \in CtxType /\ Decoder(Cleared(k), i, 0)
  <1>1. k \in Data \cup {"invalid"}
    BY KnownType
  <1>2. Cleared(k) \in CtxType
    BY <1>1 DEF Cleared, CtxType, Extended, Opcodes
  <1>3. HeaderOK(Cleared(k), i, 0)
    BY DEF HeaderOK, Cleared, Blank, HeaderLen, Short, Extended
  <1> QED
    BY <1>2, <1>3 DEF Decoder, Cleared

(* Nothing waits in it.                                                    *)
LEMMA ClearedOrder ==
  ASSUME script \in Scripts, NEW i \in 1 .. Len(Frames) + 1, NEW k, NEW o, o \in Seq(Pairs)
  PROVE  Order(Cleared(k), i, o) <=> o = Flat(i - 1)
  <1> DEFINE j == i - 1
             f == Flat(j)
             d == Cleared(k).data
             n == DecodedLen(Cleared(k))
  <1>1. n = 0
    BY DEF DecodedLen, Cleared
  <1>2. Bytes(i, 0) = <<>>
    BY DEF Bytes
  <1>3. j \in 0 .. Len(Frames)
    BY FrameTypes
  <1>4. d = <<>>
    BY DEF Cleared
  <1> HIDE DEF j, d, n
  <1>5. f \in Seq(Pairs)
    BY <1>3, FlatSeq
  <1>6. Order(Cleared(k), i, o) <=> Cat(o, d) = Cat(f, Bytes(i, n))
    BY DEF Order, d, f, n, j
  <1> HIDE DEF f
  <1>7. Cat(o, d) = o /\ Cat(f, Bytes(i, n)) = f
    BY <1>1, <1>2, <1>4, <1>5, CatFacts
  <1> QED
    BY <1>6, <1>7 DEF f, j

(* The opcode the decoder works with is that of the message.               *)
LEMMA IdentifiedOpcode ==
  ASSUME script \in Scripts, NEW i \in 1 .. Len(Frames), NEW c, Identified(c, i)
  PROVE  /\ c.opcode = Opcode(i) /\ c.opcode \in Data \cup Control
         /\ c.opcode \in Control <=> Frames[i].op \in Control
         /\ Frames[i].op \in Control => c.opcode = Frames[i].op
  <1>1. Frames[i] \in Frame
    BY FrameTypes
  <1>2. CASE Frames[i].op = "continuation"
    <2>1. Pending(i, c.cont) /\ c.opcode = c.cont
      BY <1>2 DEF Identified, Rejected, Known, Data
    <2> QED
      BY <1>2, <2>1, PendingOpcode DEF Pending, Data, Control
  <1>3. CASE Frames[i].op # "continuation"
    <2>1. Opcode(i) = Frames[i].op /\ c.opcode = Frames[i].op
      BY <1>3 DEF Opcode, Identified
    <2>2. Frames[i].op \in Data \cup Control
      BY <1>1, <1>3 DEF Frame, Opcodes, Data, Control
    <2> QED
      BY <2>1, <2>2
  <1> QED
    BY <1>2, <1>3

(* No more is decoded of a frame than it carries, and all of it at its     *)
(* end.                                                                    *)
LEMMA DecodedLenIs ==
  ASSUME script \in Scripts, NEW i \in 1 .. Len(Frames), NEW c, c \in CtxType,
         Identified(c, i), Carrying(c, i)
  PROVE  /\ DecodedLen(c) \in 0 .. DataLen(i)
         /\ c.got = Frames[i].len => DecodedLen(c) = DataLen(i)
  <1> DEFINE n == c.got - Len(c.carry)
             l == Frames[i].len
  <1>1. l \in Nat
    BY FrameTypes DEF Frame
  <1>2. n \in Nat /\ n <= l /\ (c.got = l => n = l)
    <2>1. c.got \in Nat /\ Len(c.carry) \in Nat
      BY DEF CtxType
    <2>2. /\ c.got <= l /\ Len(c.carry) <= c.got
          /\ c.got = l => c.carry = <<>>
      BY DEF Carrying
    <2>3. c.got = l => Len(c.carry) = 0
      BY <2>2
    <2> QED
      BY <1>1, <2>1, <2>2, <2>3
  <1>3. c.opcode = Opcode(i) /\ c.opcode \in Data \cup Control
    BY IdentifiedOpcode
  <1>4. DecodedLen(c) = CASE c.opcode = "binary" -> n [] c.opcode = "text" -> (3 * n) \div 4 [] OTHER -> 0
    BY DEF DecodedLen
  <1>5. DataLen(i) = CASE c.opcode \in Control -> 0 [] c.opcode = "text" -> (3 * l) \div 4 [] OTHER -> l
    BY <1>3 DEF DataLen
  <1> HIDE DEF n, l
  <1>6. (3 * n) \div 4 \in 0 .. (3 * l) \div 4
    BY <1>1, <1>2
  <1>7. CASE c.opcode \in Control
    BY <1>4, <1>5, <1>7 DEF Control
  <1>8. CASE c.opcode = "text"
    BY <1>2, <1>4, <1>5, <1>6, <1>8 DEF Control, l
  <1>9. CASE c.opcode = "binary"
    BY <1>1, <1>2, <1>4, <1>5, <1>9 DEF Control, l
  <1> QED
    BY <1>3, <1>7, <1>8, <1>9 DEF Data

(* A frame that is through leaves the decoder at the header of the next    *)
(* one.                                                                    *)
LEMMA FrameDoneOK ==
  ASSUME script \in Scripts, frame \in 1 .. Len(Frames), NEW c, Identified(c, frame)
  PROVE  \E k : FrameDone(c) = Cleared(k) /\ Known(frame + 1, k)
  <1>1. Frames[frame] \in Frame
    BY FrameTypes
  <1>2. CASE Here.fin /\ c.opcode \notin Control
    BY <1>2 DEF FrameDone, CleanupComplete, Known
  <1>3. CASE ~(Here.fin /\ c.opcode \notin Control)
    <2>1. FrameDone(c) = Cleared(c.cont)
      BY <1>3 DEF FrameDone, CleanupForContinuation
    <2>2. Known(frame + 1, c.cont)
      <3>1. c.opcode \in Control <=> Frames[frame].op \in Control
        BY IdentifiedOpcode
      <3>2. CASE Frames[frame].op \in Data
        <4>1. ~Frames[frame].fin /\ c.cont = Frames[frame].op
          BY <1>3, <3>1, <3>2 DEF Identified, Here, Data, Control
        <4> QED
          BY <3>2, <4>1, PendingData DEF Known
      <3>3. CASE Frames[frame].op \notin Data
        <4>1. Known(frame, c.cont) /\ (Frames[frame].op \in Control \/ ~Frames[frame].fin)
          BY <1>3, <3>1, <3>3 DEF Identified, Here
        <4> QED
          BY <3>3, <4>1, PendingOn DEF Known
      <3> QED
        BY <3>2, <3>3
    <2> QED
      BY <2>1, <2>2
  <1> QED
    BY <1>2, <1>3

(* Then all that the frame carries has been handed on.                     *)
LEMMA FrameDoneOrder ==
  ASSUME script \in Scripts, frame \in 1 .. Len(Frames), NEW c, c \in CtxType,
         Identified(c, frame), Carrying(c, frame), c.got = Here.len,
         NEW o, o \in Seq(Pairs), o = Cat(Flat(frame - 1), Bytes(frame, DecodedLen(c)))
  PROVE  o = Flat(frame)
  <1>1. DecodedLen(c) = DataLen(frame)
    BY DecodedLenIs DEF Here
  <1> QED
    BY <1>1, FlatStep, DataIs

(* A header has one of two lengths.                                        *)
LEMMA HeaderLength ==
  ASSUME NEW f
  PROVE  HeaderLen(f) \in {Short, Extended} /\ HeaderLen(f) \in Nat /\ (HeaderLen(f) = Extended <=> f.long)
  BY DEF HeaderLen, Short, Extended

(* What a call may read: no more than the frame has left, and than there   *)
(* is room for.                                                            *)
Readable(c, i, n) ==
    /\ n \in Nat /\ c.got + n <= Frames[i].len
    /\ c.write + Len(c.carry) + n < BufLen

(* The bytes a call decodes and carries over are those from a place in the *)
(* payload on.                                                             *)
From(b, n, s) == s \in Seq(Nat) /\ Len(s) = n /\ \A k \in 1 .. n : s[k] = b + k - 1

LEMMA JoinElements ==
  \A a, b \in Seq(Nat) :
    /\ a \o b \in Seq(Nat) /\ Len(a \o b) = Len(a) + Len(b)
    /\ \A k \in 1 .. Len(a) : (a \o b)[k] = a[k]
    /\ \A k \in 1 .. Len(b) : (a \o b)[Len(a) + k] = b[k]
  OBVIOUS

(* What is carried over and what is read are neighbours in the payload.    *)
LEMMA BytesRead ==
  ASSUME script \in Scripts, NEW i \in 1 .. Len(Frames), NEW c, c \in CtxType, Carrying(c, i),
         NEW n \in Nat
  PROVE  /\ c.got - Len(c.carry) \in Nat /\ Len(c.carry) + n \in Nat
         /\ From(c.got - Len(c.carry), Len(c.carry) + n,
                 c.carry \o [k \in 1 .. n |-> c.got + k - 1])
  <1> DEFINE l == Len(c.carry)
             b == c.got - l
             r == [k \in 1 .. n |-> c.got + k - 1]
             s == c.carry \o r
             m == l + n
  <1>1. l \in Nat /\ c.got \in Nat /\ l <= c.got /\ c.carry \in Seq(Nat)
    BY DEF Carrying, CtxType
  <1>2. \A k \in 1 .. l : c.carry[k] = b + k - 1
    BY <1>1 DEF Carrying
  <1>3. r \in Seq(Nat) /\ Len(r) = n /\ \A k \in 1 .. n : r[k] = c.got + k - 1
    <2>1. \A k \in 1 .. n : c.got + k - 1 \in Nat
      BY <1>1
    <2> QED
      BY <2>1
  <1>4. b \in Nat /\ m \in Nat /\ b + l = c.got
    BY <1>1
  <1> HIDE DEF r, b
  <1>5. s \in Seq(Nat) /\ Len(s) = m /\ (\A k \in 1 .. l : s[k] = c.carry[k])
        /\ \A k \in 1 .. n : s[l + k] = r[k]
    <2> DEFINE q == c.carry
    <2>1. q \in Seq(Nat) /\ l = Len(q) /\ s = q \o r
      BY <1>1
    <2> HIDE DEF q, s, l
    <2> QED
      BY <1>3, <2>1, JoinElements DEF q
  <1> HIDE DEF s
  <1>6. ASSUME NEW k \in 1 .. m PROVE s[k] = b + k - 1
    <2>1. CASE k <= l
      <3>1. k \in 1 .. l
        BY <1>1, <2>1
      <3> QED
        BY <1>2, <1>5, <3>1
    <2>2. CASE k > l
      <3> DEFINE j == k - l
      <3>1. j \in 1 .. n /\ l + j = k
        BY <1>1, <2>2
      <3>2. s[l + j] = r[j] /\ r[j] = c.got + j - 1
        BY <1>3, <1>5, <3>1
      <3>3. c.got + j - 1 = b + k - 1
        BY <1>1, <1>4, <3>1
      <3> QED
        BY <3>1, <3>2, <3>3
    <2> QED
      BY <1>1, <1>4, <2>1, <2>2
  <1>7. From(b, m, s)
    BY <1>5, <1>6 DEF From
  <1> QED
    BY <1>4, <1>7 DEF b, s, r

(* So are the part that is decoded and the part that is carried over.      *)
LEMMA FromParts ==
  ASSUME NEW b \in Nat, NEW m \in Nat, NEW s, From(b, m, s), NEW d \in 0 .. m
  PROVE  From(b, d, SubSeq(s, 1, d)) /\ From(b + d, m - d, SubSeq(s, d + 1, Len(s)))
  <1>1. s \in Seq(Nat) /\ Len(s) = m /\ \A k \in 1 .. m : s[k] = b + k - 1
    BY DEF From
  <1>2. /\ SubSeq(s, 1, d) \in Seq(Nat) /\ Len(SubSeq(s, 1, d)) = d
        /\ \A k \in 1 .. d : SubSeq(s, 1, d)[k] = s[k]
    BY <1>1
  <1>3. \A k \in 1 .. d : s[k] = b + k - 1
    BY <1>1
  <1> DEFINE t == SubSeq(s, d + 1, Len(s))
  <1>4. /\ t \in Seq(Nat) /\ Len(t) = m - d
        /\ \A k \in 1 .. m - d : t[k] = s[d + k]
    BY <1>1
  <1> HIDE DEF t
  <1>5. \A k \in 1 .. m - d : t[k] = b + d + k - 1
    <2> SUFFICES ASSUME NEW k \in 1 .. m - d PROVE t[k] = b + d + k - 1
      OBVIOUS
    <2> DEFINE j == d + k
    <2>1. j \in 1 .. m /\ b + j - 1 = b + d + k - 1
      OBVIOUS
    <2>2. t[k] = s[j]
      BY <1>4
    <2> QED
      BY <1>1, <2>1, <2>2
  <1>6. From(b, d, SubSeq(s, 1, d))
    BY <1>2, <1>3 DEF From
  <1>7. From(b + d, m - d, t)
    BY <1>4, <1>5 DEF From
  <1> QED
    BY <1>6, <1>7 DEF t

(* What is decoded are whole groups of four, but at the end of a frame;    *)
(* what is carried over fits.                                              *)
LEMMA DecodableIs ==
  ASSUME frame \in 1 .. Len(Frames), script \in Scripts, NEW c, c \in CtxType, Carrying(c, frame),
         NEW n, Readable(c, frame, n)
  PROVE  LET l == Len(c.carry) + n
             b == c.got - Len(c.carry)
             done == Decodable(c, n)
         IN  /\ done \in 0 .. l /\ l - done <= 3
             /\ Here.len = c.got + n => done = l
             /\ Here.len # c.got + n => (b + done) % 4 = 0
             /\ done # 0 => b % 4 = 0
             /\ Here.len # c.got + n \/ Here.len % 4 = 0 => done % 4 = 0
  <1> DEFINE l == Len(c.carry) + n
             b == c.got - Len(c.carry)
             done == Decodable(c, n)
             len == Here.len
             got == c.got
             k == Len(c.carry)
  <1>1. len \in Nat /\ got \in Nat /\ k \in Nat /\ n \in Nat /\ k <= got /\ got + n <= len
    <2>1. len \in Nat
      BY FrameTypes DEF Frame, Here
    <2>2. got \in Nat /\ k \in Nat
      BY DEF CtxType
    <2>3. n \in Nat /\ got + n <= len
      BY DEF Readable, Here
    <2>4. k <= got
      BY DEF Carrying
    <2> QED
      BY <2>1, <2>2, <2>3, <2>4
  <1>2. IF got = len THEN k = 0 ELSE (got - k) % 4 = 0
    BY DEF Carrying, Here
  <1>3. done = IF len - got = n THEN k + n ELSE ((k + n) \div 4) * 4
    BY DEF Decodable, Remaining
  <1> HIDE DEF done, len, got, k
  <1>4. done \in 0 .. k + n /\ (k + n) - done <= 3 /\ (len = got + n => done = k + n)
    BY <1>1, <1>3
  <1>5. len # got + n => done % 4 = 0 /\ (got - k) % 4 = 0
    BY <1>1, <1>2, <1>3
  <1>6. len # got + n => ((got - k) + done) % 4 = 0
    BY <1>1, <1>4, <1>5
  <1>7. done # 0 => (got - k) % 4 = 0
    BY <1>1, <1>2, <1>3
  <1>8. len % 4 = 0 /\ len = got + n => done % 4 = 0
    <2> SUFFICES ASSUME len % 4 = 0, len = got + n, done # 0 PROVE done % 4 = 0
      BY <1>1, <1>4
    <2>1. (got - k) % 4 = 0 /\ done = k + n /\ len = (got - k) + (k + n)
      BY <1>1, <1>4, <1>7
    <2> QED
      BY <1>1, <2>1
  <1> QED
    BY <1>4, <1>5, <1>6, <1>7, <1>8 DEF done, len, got, k

(* Bytes decoded in groups of four are unmasked with the right byte of the *)
(* mask ...                                                                *)
LEMMA UnmaskIs ==
  ASSUME NEW b \in Nat, NEW d \in Nat, NEW s, From(b, d, s), d # 0 => b % 4 = 0
  PROVE  From(b, d, Unmask(s))
  <1>1. s \in Seq(Nat) /\ Len(s) = d /\ DOMAIN s = 1 .. d /\ \A k \in 1 .. d : s[k] = b + k - 1
    BY DEF From
  <1>2. ASSUME NEW k \in 1 .. d PROVE (b + k - 1) % 4 = (k - 1) % 4
    <2>1. b % 4 = 0
      BY <1>2
    <2> QED
      BY <2>1
  <1>3. \A k \in 1 .. d : s[k] % 4 = (k - 1) % 4
    BY <1>1, <1>2
  <1>4. Unmask(s) = [k \in 1 .. d |-> s[k]]
    BY <1>1, <1>3 DEF Unmask
  <1>5. [k \in 1 .. d |-> s[k]] \in Seq(Nat) /\ Len([k \in 1 .. d |-> s[k]]) = d
    BY <1>1
  <1> QED
    BY <1>1, <1>4, <1>5 DEF From

(* ... and are the data bytes of a binary frame ...                        *)
LEMMA RawIs ==
  ASSUME NEW i \in Nat, NEW b \in Nat, NEW d \in Nat, NEW s, From(b, d, s)
  PROVE  Follows(Raw(i, s), i, b, d)
  <1>1. s \in Seq(Nat) /\ Len(s) = d /\ DOMAIN s = 1 .. d /\ \A k \in 1 .. d : s[k] = b + k - 1
    BY DEF From
  <1>2. \A k \in 1 .. d : s[k] # -1 /\ s[k] \in Nat
    BY <1>1
  <1> DEFINE r == [k \in 1 .. d |-> <<i, s[k]>>]
  <1>3. Raw(i, s) = r
    BY <1>1, <1>2 DEF Raw
  <1>4. \A k \in 1 .. d : <<i, s[k]>> \in Pairs
    BY <1>2 DEF Pairs
  <1>5. r \in Seq(Pairs) /\ Len(r) = d
    BY <1>4
  <1>6. \A k \in 1 .. d : r[k] = <<i, b + k - 1>>
    BY <1>1
  <1> QED
    BY <1>3, <1>5, <1>6 DEF Follows

LEMMA FollowsNone ==
  ASSUME NEW i, NEW n
  PROVE  Follows(<<>>, i, n, 0)
  <1>1. <<>> \in Seq(Pairs) /\ Len(<<>>) = 0
    OBVIOUS
  <1> QED
    BY <1>1 DEF Follows

(* ... or decode to those of a text frame.                                 *)
LEMMA Base64Is ==
  ASSUME NEW i \in Nat, NEW b \in Nat, NEW d \in Nat, NEW s, From(b, d, s)
  PROVE  /\ Base64(i, s) \in Seq(Pairs)
         /\ d % 4 = 0 => Follows(Base64(i, s), i, (3 * b) \div 4, (3 * d) \div 4)
  <1>1. s \in Seq(Nat) /\ Len(s) = d /\ DOMAIN s = 1 .. d /\ \A k \in 1 .. d : s[k] = b + k - 1
    BY DEF From
  <1>2. -1 \notin Range(s)
    <2>1. \A k \in 1 .. d : s[k] # -1
      BY <1>1
    <2> QED
      BY <1>1, <2>1 DEF Range
  <1>3. CASE s = <<>> \/ d % 4 # 0
    <2>1. Base64(i, s) = <<>>
      BY <1>1, <1>3 DEF Base64
    <2>2. <<>> \in Seq(Pairs)
      OBVIOUS
    <2>3. s = <<>> => d = 0
      BY <1>1
    <2>4. d = 0 => (3 * d) \div 4 = 0
      OBVIOUS
    <2>5. d % 4 = 0 => (3 * d) \div 4 = 0
      BY <1>3, <2>3, <2>4
    <2> QED
      BY <2>1, <2>2, <2>5, FollowsNone
  <1>4. CASE s # <<>> /\ d % 4 = 0
    <2> DEFINE m == (3 * d) \div 4
               f == (3 * b) \div 4
               r == [k \in 1 .. m |-> <<i, f + k - 1>>]
    <2>1. m \in Nat /\ f \in Nat
      OBVIOUS
    <2>2. s[1] = b
      <3>1. d # 0
        BY <1>1, <1>4
      <3>2. 1 \in 1 .. d /\ b + 1 - 1 = b
        BY <3>1
      <3>3. s[1] = b + 1 - 1
        BY <1>1, <3>2
      <3> QED
        BY <3>2, <3>3
    <2>3. Base64(i, s) = r
      BY <1>1, <1>2, <1>4, <2>2 DEF Base64
    <2> HIDE DEF m, f
    <2>4. \A k \in 1 .. m : <<i, f + k - 1>> \in Pairs
      BY <2>1 DEF Pairs
    <2>5. r \in Seq(Pairs) /\ Len(r) = m
      BY <2>1, <2>4
    <2>6. \A k \in 1 .. m : r[k] = <<i, f + k - 1>>
      OBVIOUS
    <2> HIDE DEF r
    <2>7. Follows(r, i, f, m)
      BY <2>5, <2>6 DEF Follows
    <2> QED
      BY <2>3, <2>5, <2>7 DEF m, f
  <1> QED
    BY <1>1, <1>3, <1>4

(* The numbers of the bytes read, decoded and carried over.                *)
LEMMA CarriedNumbers ==
  ASSUME NEW g \in Nat, NEW k \in Nat, NEW n \in Nat, NEW d \in 0 .. k + n, k + n - d <= 3, g - k \in Nat,
         NEW w \in Nat, w + k + n < BufLen
  PROVE  /\ k + n - d \in Nat /\ k + n - d <= g + n /\ (g + n) - (k + n - d) = (g - k) + d
         /\ (w + d) + (k + n - d) < BufLen
  BY WsAssumption

LEMMA Quarters ==
  ASSUME NEW b \in Nat, NEW d \in Nat, d % 4 = 0, d # 0 => b % 4 = 0
  PROVE  (3 * (b + d)) \div 4 - (3 * b) \div 4 = (3 * d) \div 4
  <1>1. CASE d = 0
    BY <1>1
  <1>2. CASE d # 0
    <2> DEFINE x == b \div 4
               y == d \div 4
    <2>1. b = 4 * x /\ d = 4 * y /\ x \in Nat /\ y \in Nat
      BY <1>2
    <2> HIDE DEF x, y
    <2>2. 3 * (b + d) = 4 * (3 * (x + y)) /\ 3 * b = 4 * (3 * x) /\ 3 * d = 4 * (3 * y)
      BY <2>1
    <2>3. \A z \in Nat : (4 * z) \div 4 = z
      OBVIOUS
    <2> QED
      BY <2>1, <2>2, <2>3
  <1> QED
    BY <1>1, <1>2

(* What a call makes of the bytes it reads.                                *)
LEMMA DecodedOK ==
  ASSUME script \in Scripts, frame \in 1 .. Len(Frames), NEW c, c \in CtxType,
         Identified(c, frame), Carrying(c, frame), NEW n, Readable(c, frame, n)
  PROVE  LET d == Decoded(c, n) IN
         /\ d \in CtxType /\ Identified(d, frame) /\ Carrying(d, frame)
         /\ d.got = c.got + n /\ d.opcode = c.opcode /\ d.cont = c.cont /\ d.state = c.state
         /\ WholeText => Follows(d.data, frame, DecodedLen(c), DecodedLen(d) - DecodedLen(c))
  <1> DEFINE d == Decoded(c, n)
             k == Len(c.carry)
             g == c.got
             w == c.write
             b == g - k
             l == k + n
             s == c.carry \o [j \in 1 .. n |-> g + j - 1]
             done == Decodable(c, n)
             first == SubSeq(s, 1, done)
             rest == SubSeq(s, done + 1, Len(s))
             data == CASE c.opcode = "text" -> Base64(frame, Unmask(first))
                       [] c.opcode = "binary" -> Raw(frame, Unmask(first))
                       [] OTHER -> <<>>
             write == IF c.opcode \in {"text", "binary"} THEN HeaderLen(Here) ELSE w + done
             got == g + n
             e == b + done
  <1>1. /\ g \in Nat /\ k \in Nat /\ n \in Nat /\ w \in Nat /\ frame \in Nat
        /\ got <= Here.len /\ w + k + n < BufLen /\ Here.len \in Nat
    <2>1. g \in Nat /\ k \in Nat /\ w \in Nat
      BY DEF CtxType
    <2>2. Here.len \in Nat /\ frame \in Nat
      BY FrameTypes DEF Frame, Here
    <2> QED
      BY <2>1, <2>2 DEF Readable, Here
  <1>2. b \in Nat /\ l \in Nat /\ From(b, l, s)
    BY <1>1, BytesRead
  <1>3. /\ done \in 0 .. l /\ l - done <= 3
        /\ Here.len = got => done = l
        /\ Here.len # got => e % 4 = 0
        /\ done # 0 => b % 4 = 0
        /\ Here.len # got \/ Here.len % 4 = 0 => done % 4 = 0
    BY DecodableIs
  <1>15. l = k + n /\ b = g - k /\ e = b + done /\ got = g + n
    OBVIOUS
  <1>4. d = [c EXCEPT !.got = got, !.carry = rest, !.write = write, !.data = data]
    BY DEF Decoded
  <1> HIDE DEF d, s, done, b, k, l, e, got, w, g
  <1>5. From(b, done, first) /\ From(e, l - done, rest)
    BY <1>2, <1>3, FromParts DEF e
  <1> HIDE DEF first, rest
  <1>6. From(b, done, Unmask(first)) /\ done \in Nat
    BY <1>2, <1>3, <1>5, UnmaskIs
  <1>7. c.opcode = Opcode(frame) /\ c.opcode \in Data \cup Control
    BY IdentifiedOpcode
  <1>8. data \in Seq(Pairs)
    <2>1. CASE c.opcode = "text"
      <3>1. Base64(frame, Unmask(first)) \in Seq(Pairs)
        BY <1>1, <1>2, <1>6, Base64Is
      <3> QED
        BY <2>1, <3>1
    <2>2. CASE c.opcode = "binary"
      <3>1. Raw(frame, Unmask(first)) \in Seq(Pairs)
        BY <1>1, <1>2, <1>6, RawIs DEF Follows
      <3> QED
        BY <2>2, <3>1
    <2>3. CASE c.opcode \notin {"text", "binary"}
      <3>1. <<>> \in Seq(Pairs)
        OBVIOUS
      <3> QED
        BY <2>3, <3>1
    <2> QED
      BY <2>1, <2>2, <2>3
  <1>9. write \in Nat /\ got \in Nat /\ rest \in Seq(Nat) /\ Len(rest) = l - done
    <2>1. rest \in Seq(Nat) /\ Len(rest) = l - done
      BY <1>5 DEF From
    <2>2. HeaderLen(Here) \in Nat /\ w + done \in Nat /\ got \in Nat
      BY <1>1, <1>6, <1>15, HeaderLength
    <2>3. write \in Nat
      <3> DEFINE h == HeaderLen(Here)
                 v == w + done
      <3> HIDE DEF h, v
      <3>1. h \in Nat /\ v \in Nat
        BY <2>2 DEF h, v
      <3> QED
        BY <3>1 DEF write, h, v
    <2> QED
      BY <2>1, <2>2, <2>3
  <1> HIDE DEF data, write
  <1>10. /\ d \in CtxType /\ d.got = got /\ d.carry = rest /\ d.write = write /\ d.data = data
         /\ d.opcode = c.opcode /\ d.cont = c.cont /\ d.state = c.state
    BY <1>4, <1>8, <1>9 DEF CtxType
  <1>11. Identified(d, frame)
    BY <1>10 DEF Identified, Rejected
  <1>20. l - done <= 3 /\ l - done <= got /\ got - (l - done) = e /\ l - done \in Nat
    BY <1>1, <1>2, <1>3, <1>15
  <1>12. Carrying(d, frame)
    <2>2. rest = [j \in 1 .. l - done |-> e + j - 1]
      BY <1>5, <1>9, <1>20 DEF From
    <2>3. got = Here.len => rest = <<>>
      BY <1>1, <1>2, <1>3, <1>9
    <2>4. got # Here.len => (got - Len(rest)) % 4 = 0
      BY <1>3, <1>9, <1>20
    <2>5. write + Len(rest) < BufLen
      <3>1. CASE c.opcode \in {"text", "binary"}
        <4>1. write \in {Short, Extended}
          BY <3>1, HeaderLength DEF write
        <4>2. write <= Extended
          BY <4>1 DEF Short, Extended
        <4> QED
          BY <1>9, <1>20, <4>2, WsAssumption DEF Extended
      <3>2. CASE c.opcode \notin {"text", "binary"}
        <4>1. write = w + done
          BY <3>2 DEF write
        <4> QED
          BY <1>1, <1>2, <1>3, <1>9, <1>15, <4>1
      <3> QED
        BY <3>1, <3>2
    <2>6. c.opcode \in Data => write = HeaderLen(Here)
      BY DEF write, Data
    <2>7. Len(rest) = l - done
      BY <1>9
    <2>8. rest = [j \in 1 .. Len(rest) |-> got - Len(rest) + j - 1]
      BY <1>20, <2>2, <2>7
    <2>9. Len(rest) <= 3 /\ Len(rest) <= got
      BY <1>20, <2>7
    <2>10. got <= Here.len
      BY <1>1
    <2> QED
      BY <1>10, <2>3, <2>4, <2>5, <2>6, <2>8, <2>9, <2>10 DEF Carrying, Here
  <1>13. ASSUME WholeText
         PROVE  Follows(d.data, frame, DecodedLen(c), DecodedLen(d) - DecodedLen(c))
    <2>1. DecodedLen(c) = CASE c.opcode = "binary" -> b [] c.opcode = "text" -> (3 * b) \div 4 [] OTHER -> 0
      BY DEF DecodedLen, b, k, g
    <2>2. d.got - Len(d.carry) = e
      BY <1>9, <1>10, <1>20
    <2>3. DecodedLen(d) = CASE c.opcode = "binary" -> e [] c.opcode = "text" -> (3 * e) \div 4 [] OTHER -> 0
      BY <1>10, <2>2 DEF DecodedLen
    <2>4. CASE c.opcode = "binary"
      <3>1. Follows(Raw(frame, Unmask(first)), frame, b, done)
        BY <1>1, <1>2, <1>6, RawIs
      <3>2. d.data = Raw(frame, Unmask(first))
        BY <1>10, <2>4 DEF data
      <3>3. e - b = done
        BY <1>2, <1>6, <1>15
      <3> QED
        BY <2>1, <2>3, <2>4, <3>1, <3>2, <3>3
    <2>5. CASE c.opcode = "text"
      <3>1. Here.len % 4 = 0
        BY <1>7, <2>5, <1>13, FrameTypes DEF WholeText, Here
      <3>2. done % 4 = 0
        BY <1>3, <3>1
      <3>3. Follows(Base64(frame, Unmask(first)), frame, (3 * b) \div 4, (3 * done) \div 4)
        BY <1>1, <1>2, <1>6, <3>2, Base64Is
      <3>4. d.data = Base64(frame, Unmask(first))
        BY <1>10, <2>5 DEF data
      <3>5. done # 0 => b % 4 = 0
        BY <1>3
      <3>6. (3 * e) \div 4 - (3 * b) \div 4 = (3 * done) \div 4
        <4> QED
          BY <1>2, <1>6, <1>15, <3>2, <3>5, Quarters
      <3> QED
        BY <2>1, <2>3, <2>5, <3>3, <3>4, <3>6
    <2>6. CASE c.opcode \notin {"text", "binary"}
      <3>1. d.data = <<>> /\ DecodedLen(c) = 0 /\ DecodedLen(d) = 0
        BY <1>10, <2>1, <2>3, <2>6 DEF data
      <3> QED
        BY <3>1, FollowsNone
    <2> QED
      BY <2>4, <2>5, <2>6
  <1>14. d.got = c.got + n
    BY <1>10, <1>15 DEF g
  <1> QED
    BY <1>10, <1>11, <1>12, <1>13, <1>14 DEF d

(*------------------------------ The invariant -----------------------------*)

Words == Seq(Nat \ {0}) \ {<<>>}

Live == phase # "closed" /\ sync

Types ==
    /\ script \in Scripts
    /\ phase \in {"check", "plain", "lost", "select", "read", "closed"}
    /\ why \in {"open", "refused", "peer", "timeout", "protocol", "header", "close"}
    /\ base64 \in BOOLEAN /\ sync \in BOOLEAN
    /\ frame \in 1 .. Len(Frames) + 1 /\ at \in Nat
    /\ messages \in Seq(Words) /\ out \in Seq(Pairs) /\ ctx \in CtxType
    /\ ~Live \/ phase = "check" => ctx = CleanupComplete
    /\ why = "open" <=> phase # "closed"

InDecoder == Live => Decoder(ctx, frame, at)

InOrder ==
    WholeText => /\ Live => Order(ctx, frame, out)
                 /\ sync => IsPrefix(out, Sent)
                 /\ phase = "select" /\ sync => ctx.data = <<>>

WsInvariant == Types /\ InDecoder /\ InOrder

(* A sequence is its first n elements and the rest.                        *)
LEMMA SplitSeq ==
  ASSUME NEW s, s \in Seq(Pairs), NEW n \in 0 .. Len(s)
  PROVE  /\ SubSeq(s, 1, n) \in Seq(Pairs) /\ SubSeq(s, n + 1, Len(s)) \in Seq(Pairs)
         /\ Cat(SubSeq(s, 1, n), SubSeq(s, n + 1, Len(s))) = s
  <1> DEFINE a == SubSeq(s, 1, n)
             b == SubSeq(s, n + 1, Len(s))
             m == Len(s) - n
             all == Cat(a, b)
  <1>1. /\ a \in Seq(Pairs) /\ Len(a) = n /\ \A k \in 1 .. n : a[k] = s[k]
    OBVIOUS
  <1>2. /\ b \in Seq(Pairs) /\ Len(b) = m /\ \A k \in 1 .. m : b[k] = s[n + k]
    OBVIOUS
  <1>3. m \in Nat /\ n \in Nat /\ n + m = Len(s)
    OBVIOUS
  <1> HIDE DEF a, b, m
  <1>4. /\ all \in Seq(Pairs) /\ Len(all) = n + m /\ \A k \in 1 .. n : all[k] = a[k]
        /\ \A k \in 1 .. m : all[n + k] = b[k]
    BY <1>1, <1>2, CatFacts, CatElements
  <1> HIDE DEF all
  <1>5. ASSUME NEW k \in 1 .. Len(s) PROVE all[k] = s[k]
    <2>1. CASE k <= n
      <3>1. k \in 1 .. n
        BY <2>1
      <3> QED
        BY <1>1, <1>4, <3>1
    <2>2. CASE k > n
      <3> DEFINE j == k - n
      <3>1. j \in 1 .. m /\ n + j = k
        BY <1>3, <2>2
      <3> HIDE DEF j
      <3>2. all[n + j] = b[j] /\ b[j] = s[n + j]
        BY <1>2, <1>4, <3>1
      <3> QED
        BY <3>1, <3>2
    <2> QED
      BY <2>1, <2>2
  <1>6. all = s
    BY <1>3, <1>4, <1>5, SeqEqual
  <1> QED
    BY <1>1, <1>2, <1>6 DEF all, a, b

(* A message under way asks for at least one byte.                         *)
LEMMA AskedIs ==
  ASSUME messages \in Seq(Words)
  PROVE  /\ Asked \in Words /\ Asked[1] \in Nat \ {0} /\ Tail(Asked) \in Seq(Nat \ {0})
         /\ messages = <<>> => Asked = <<1>>
  <1>1. Asked \in Words
    <2>1. CASE messages = <<>>
      <3>1. <<1>> \in Seq(Nat \ {0}) /\ <<1>> # <<>>
        OBVIOUS
      <3> QED
        BY <2>1, <3>1 DEF Asked, Words
    <2>2. CASE messages # <<>>
      <3> DEFINE T == Words
      <3>1. messages \in Seq(T) /\ messages # <<>>
        BY <2>2
      <3> HIDE DEF T
      <3>2. Head(messages) \in T
        BY <3>1
      <3> QED
        BY <2>2, <3>2 DEF Asked, T
    <2> QED
      BY <2>1, <2>2
  <1>2. Asked \in Seq(Nat \ {0}) /\ Asked # <<>>
    BY <1>1 DEF Words
  <1>3. Asked[1] \in Nat \ {0} /\ Tail(Asked) \in Seq(Nat \ {0})
    <2> HIDE DEF Asked
    <2> QED
      BY <1>2
  <1> QED
    BY <1>1, <1>3 DEF Asked

(* What is read off the messages leaves messages; the server goes to sleep *)
(* only when nothing waits in the decoder.                                 *)
LEMMA ConsumeOK ==
  ASSUME messages \in Seq(Words), NEW n \in Nat \ {0}, n <= Asked[1], NEW c, Consume(n, c),
         phase = "read"
  PROVE  /\ messages' \in Seq(Words) /\ phase' \in {"read", "select"}
         /\ phase' = "select" => c.data = <<>>
  <1> DEFINE rest == IF Asked[1] > n THEN <<Asked[1] - n>> \o Tail(Asked) ELSE Tail(Asked)
  <1>1. Asked[1] \in Nat \ {0} /\ Tail(Asked) \in Seq(Nat \ {0})
    BY AskedIs
  <1>2. rest \in Seq(Nat \ {0})
    <2>1. CASE Asked[1] > n
      <3> DEFINE e == Asked[1] - n
                 t == Tail(Asked)
      <3>1. e \in Nat \ {0} /\ t \in Seq(Nat \ {0})
        BY <1>1, <2>1
      <3> HIDE DEF e, t
      <3>2. <<e>> \in Seq(Nat \ {0})
        BY <3>1
      <3>3. <<e>> \o t \in Seq(Nat \ {0})
        BY <3>1, <3>2
      <3> QED
        BY <2>1, <3>3 DEF e, t
    <2> QED
      BY <1>1, <2>1
  <1>3. messages = <<>> => rest = <<>>
    <2> SUFFICES ASSUME messages = <<>> PROVE rest = <<>>
      OBVIOUS
    <2>1. Asked = <<1>>
      BY AskedIs
    <2>2. Asked[1] = 1 /\ Tail(Asked) = <<>>
      BY <2>1
    <2> QED
      BY <2>2
  <1>4. \/ rest # <<>> /\ messages' = <<rest>> \o Tail(messages) /\ phase' = phase
        \/ /\ rest = <<>> /\ messages' = IF messages = <<>> THEN <<>> ELSE Tail(messages)
           /\ phase' = IF HasDataInBuffer(c) THEN "read" ELSE "select"
    BY DEF Consume
  <1> HIDE DEF rest
  <1> DEFINE T == Words
  <1>5. rest # <<>> => rest \in T
    BY <1>2 DEF Words
  <1>6. messages \in Seq(T)
    OBVIOUS
  <1> HIDE DEF T
  <1>7. messages # <<>> => Tail(messages) \in Seq(T)
    BY <1>6
  <1>8. messages' \in Seq(T)
    <2>1. CASE rest # <<>>
      <3>1. <<rest>> \in Seq(T) /\ Tail(messages) \in Seq(T)
        BY <1>3, <1>5, <1>7, <2>1
      <3> DEFINE t == Tail(messages)
                 r == <<rest>>
      <3> HIDE DEF t, r
      <3>2. r \o t \in Seq(T)
        BY <3>1 DEF t, r
      <3> QED
        BY <1>4, <2>1, <3>2 DEF t, r
    <2>2. CASE rest = <<>>
      <3>1. messages' = IF messages = <<>> THEN <<>> ELSE Tail(messages)
        BY <1>4, <2>2
      <3>2. <<>> \in Seq(T)
        OBVIOUS
      <3> QED
        BY <1>7, <3>1, <3>2
    <2> QED
      BY <2>1, <2>2
  <1> QED
    BY <1>4, <1>8 DEF T, HasDataInBuffer

(* What the frames before carry is a sequence of bytes.                    *)
LEMMA FlatIn ==
  ASSUME script \in Scripts, NEW i \in 1 .. Len(Frames) + 1
  PROVE  Flat(i - 1) \in Seq(Pairs)
  <1> DEFINE j == i - 1
  <1>1. j \in 0 .. Len(Frames)
    BY FrameTypes
  <1> HIDE DEF j
  <1>2. Flat(j) \in Seq(Pairs)
    BY <1>1, FlatSeq
  <1> QED
    BY <1>2 DEF j

(* What is left of a frame's data when some of it has been handed on.      *)
LEMMA HandedOn ==
  ASSUME script \in Scripts, NEW i \in 1 .. Len(Frames) + 1, NEW o, o \in Seq(Pairs), NEW c, c \in CtxType,
         NEW n \in 0 .. Len(c.data), NEW d, d = [c EXCEPT !.data = SubSeq(c.data, n + 1, Len(c.data))]
  PROVE  /\ d \in CtxType /\ DecodedLen(d) = DecodedLen(c)
         /\ Cat(o, SubSeq(c.data, 1, n)) \in Seq(Pairs)
         /\ Order(c, i, o) <=> Order(d, i, Cat(o, SubSeq(c.data, 1, n)))
  <1> DEFINE a == SubSeq(c.data, 1, n)
             b == SubSeq(c.data, n + 1, Len(c.data))
             s == c.data
  <1>1. s \in Seq(Pairs)
    BY DEF CtxType
  <1>2. a \in Seq(Pairs) /\ b \in Seq(Pairs) /\ Cat(a, b) = s
    BY <1>1, SplitSeq
  <1>3. d = [c EXCEPT !.data = b]
    OBVIOUS
  <1> HIDE DEF a, b, s
  <1>4. /\ d \in CtxType /\ d.data = b /\ d.got = c.got /\ d.carry = c.carry /\ d.opcode = c.opcode
    BY <1>2, <1>3 DEF CtxType
  <1>5. DecodedLen(d) = DecodedLen(c)
    BY <1>4 DEF DecodedLen
  <1>6. Cat(o, a) \in Seq(Pairs) /\ Cat(Cat(o, a), b) = Cat(o, s)
    BY <1>2, CatFacts
  <1>7. Order(c, i, o) <=> Order(d, i, Cat(o, a))
    BY <1>4, <1>5, <1>6 DEF Order, s
  <1> QED
    BY <1>4, <1>5, <1>6, <1>7 DEF a

(* Returning data: the decoder stays in step and in order, at the next     *)
(* header when the frame is through.                                       *)
LEMMA ReturnDataOK ==
  ASSUME script \in Scripts, frame \in 1 .. Len(Frames), messages \in Seq(Words), out \in Seq(Pairs),
         phase = "read", NEW c, c \in CtxType, Identified(c, frame), Carrying(c, frame),
         WholeText => Order(c, frame, out), ReturnData(c)
  PROVE  /\ messages' \in Seq(Words) /\ phase' \in {"read", "select"} /\ out' \in Seq(Pairs)
         /\ ctx' \in CtxType /\ frame' \in 1 .. Len(Frames) + 1 /\ at' \in Nat
         /\ phase' = "select" => ctx'.data = <<>>
         /\ Decoder(ctx', frame', at')
         /\ WholeText => Order(ctx', frame', out')
  <1> DEFINE give == Min({Asked[1], Len(c.data)})
             first == SubSeq(c.data, 1, give)
             left == [c EXCEPT !.data = SubSeq(c.data, give + 1, Len(c.data))]
             over == left.data = <<>> /\ Remaining(c) = 0
             next == IF over THEN FrameDone(c)
                     ELSE [left EXCEPT !.state = IF left.data = <<>> THEN "needed" ELSE "available"]
  <1>1. /\ ctx' = next /\ out' = Cat(out, first)
        /\ IF give = 0 THEN phase' = phase /\ messages' = messages ELSE Consume(give, next)
        /\ IF over THEN frame' = frame + 1 /\ at' = 0 ELSE frame' = frame /\ at' = HeaderLen(Here) + c.got
    BY DEF ReturnData, Cat
  <1>2. give \in Nat /\ give <= Asked[1] /\ give \in 0 .. Len(c.data)
    <2>1. Asked[1] \in Nat /\ Len(c.data) \in Nat
      BY AskedIs DEF CtxType
    <2> DEFINE x == Asked[1]
               y == Len(c.data)
    <2> HIDE DEF x, y
    <2>2. give = IF x <= y THEN x ELSE y
      BY <2>1, LeastOfTwo DEF x, y
    <2> HIDE DEF give
    <2> QED
      BY <2>1, <2>2 DEF x, y
  <1> HIDE DEF give
  <1>3. /\ left \in CtxType /\ DecodedLen(left) = DecodedLen(c) /\ Cat(out, first) \in Seq(Pairs)
        /\ Order(c, frame, out) <=> Order(left, frame, Cat(out, first))
    <2>1. frame \in 1 .. Len(Frames) + 1
      BY FrameTypes
    <2>2. left = [c EXCEPT !.data = SubSeq(c.data, give + 1, Len(c.data))]
      OBVIOUS
    <2> HIDE DEF left
    <2> QED
      BY <1>2, <2>1, <2>2, HandedOn, ZenonT(60)
  <1>4. /\ left.got = c.got /\ left.carry = c.carry /\ left.opcode = c.opcode /\ left.cont = c.cont
        /\ left.write = c.write
    BY DEF CtxType
  <1>5. Identified(left, frame) /\ Carrying(left, frame)
    BY <1>4 DEF Identified, Carrying, Rejected
  <1>6. Here.len \in Nat /\ c.got \in Nat /\ c.got <= Here.len /\ frame \in Nat
        /\ Remaining(c) = Here.len - c.got
    BY FrameTypes DEF Here, Frame, CtxType, Carrying, Remaining
  <1>7. /\ messages' \in Seq(Words) /\ phase' \in {"read", "select"}
        /\ phase' = "select" => next.data = <<>>
    <2> HIDE DEF next
    <2>1. CASE give = 0
      BY <1>1, <2>1
    <2>2. CASE give # 0
      BY <1>1, <1>2, <2>2, ConsumeOK
    <2> QED
      BY <2>1, <2>2
  <1> HIDE DEF left, first
  <1>8. CASE over
    <2>1. PICK k : FrameDone(c) = Cleared(k) /\ Known(frame + 1, k)
      BY FrameDoneOK
    <2>2. ctx' = Cleared(k) /\ frame' = frame + 1 /\ at' = 0
      BY <1>1, <1>8, <2>1
    <2>3. Cleared(k) \in CtxType /\ Decoder(Cleared(k), frame', 0)
      BY <2>1, <2>2, ClearedOK
    <2>4. frame' \in 1 .. Len(Frames) + 1
      BY <1>6, <2>2, FrameTypes
    <2>5. ASSUME WholeText
          PROVE  Order(ctx', frame', out')
      <3>1. Cat(out, first) = Cat(Flat(frame - 1), Bytes(frame, DecodedLen(left)))
        BY <1>3, <1>8, <2>5, CatFacts DEF Order
      <3>2. left.got = Here.len
        BY <1>4, <1>6, <1>8
      <3>3. Cat(out, first) = Flat(frame)
        BY <1>3, <1>5, <3>1, <3>2, FrameDoneOrder
      <3>4. frame' - 1 = frame
        BY <1>6, <2>2
      <3>5. out' = Flat(frame' - 1) /\ out' \in Seq(Pairs)
        BY <1>1, <1>3, <3>3, <3>4
      <3> DEFINE i == frame'
                 o == out'
      <3>6. i \in 1 .. Len(Frames) + 1 /\ o \in Seq(Pairs) /\ o = Flat(i - 1)
        BY <2>4, <3>5
      <3> HIDE DEF i, o
      <3>7. Order(Cleared(k), i, o)
        BY <3>6, ClearedOrder
      <3> QED
        BY <2>2, <3>7 DEF i, o
    <2> QED
      BY <1>1, <1>3, <1>7, <1>8, <2>1, <2>2, <2>3, <2>4, <2>5
  <1>9. CASE ~over
    <2> DEFINE st == IF left.data = <<>> THEN "needed" ELSE "available"
               d == [left EXCEPT !.state = st]
    <2>1. ctx' = d /\ frame' = frame /\ at' = HeaderLen(Here) + c.got /\ next = d
      BY <1>1, <1>9
    <2>2. /\ d \in CtxType /\ d.data = left.data /\ d.got = c.got /\ d.carry = left.carry
          /\ d.opcode = left.opcode /\ d.cont = left.cont /\ d.write = left.write /\ d.state = st
          /\ d.got = left.got
      BY <1>3, <1>4 DEF CtxType
    <2> HIDE DEF d
    <2>3. Identified(d, frame) /\ Carrying(d, frame)
      BY <1>5, <2>2 DEF Identified, Carrying, Rejected
    <2>4. d.state = "needed" => d.got < Here.len
      BY <1>6, <1>9, <2>2
    <2>5. PayloadOK(d, frame, at')
      <3>1. frame <= Len(Frames)
        BY FrameTypes
      <3> QED
        BY <2>1, <2>2, <2>3, <2>4, <3>1 DEF PayloadOK, Here
    <2>6. Decoder(d, frame, at')
      BY <2>2, <2>5 DEF Decoder
    <2>7. WholeText => Order(d, frame, Cat(out, first))
      <3>1. DecodedLen(d) = DecodedLen(left)
        BY <2>2 DEF DecodedLen
      <3> QED
        BY <1>3, <2>2, <3>1 DEF Order
    <2>8. at' \in Nat
      BY <1>6, <2>1, HeaderLength
    <2>9. frame \in 1 .. Len(Frames) + 1
      BY FrameTypes
    <2> QED
      BY <1>1, <1>3, <1>7, <2>1, <2>2, <2>6, <2>7, <2>8, <2>9
  <1> QED
    BY <1>8, <1>9

(* The invariant is about the script, which does not change.               *)
LEMMA SamePeer ==
  ASSUME script' = script
  PROVE  /\ Frames' = Frames /\ Sent' = Sent /\ (WholeText' <=> WholeText)
         /\ Decoder(ctx, frame, at)' <=> Decoder(ctx', frame', at')
         /\ Order(ctx, frame, out)' <=> Order(ctx', frame', out')
  <1>1. Frames' = Frames
    BY DEF Frames
  <1>2. Sent' = Sent
    BY <1>1 DEF Sent, DataOf, DataLen, Opcode, Fragmented
  <1>3. WholeText' <=> WholeText
    BY <1>1 DEF WholeText, Opcode, Fragmented
  <1>4. Decoder(ctx, frame, at)' <=> Decoder(ctx', frame', at')
    BY <1>1 DEF Decoder, HeaderOK, ExtendedOK, PayloadOK, Identified, Known, Pending, Fragmented, Carrying,
                Blank, Rejected
  <1>5. Order(ctx, frame, out)' <=> Order(ctx', frame', out')
    BY <1>1 DEF Order, Flat, DataOf, DataLen, Opcode, Fragmented, Bytes, DecodedLen
  <1> QED
    BY <1>1, <1>2, <1>3, <1>4, <1>5

(* Nothing has been decoded.                                               *)
NothingDecoded(c) == c.data = <<>> /\ DecodedLen(c) = 0

(* In a header nothing has been decoded.                                   *)
LEMMA BlankIs ==
  ASSUME NEW c, Blank(c)
  PROVE  NothingDecoded(c)
  <1>1. c.got - Len(c.carry) = 0
    <2>1. c.got = 0 /\ c.carry = <<>>
      BY DEF Blank
    <2>2. Len(<<>>) = 0
      OBVIOUS
    <2>3. c.got - Len(c.carry) = 0 - 0
      BY <2>1, <2>2, Zenon
    <2> QED
      BY <2>3
  <1>2. (3 * 0) \div 4 = 0
    OBVIOUS
  <1> QED
    BY <1>1, <1>2 DEF Blank, NothingDecoded, DecodedLen

(* Then what has been handed on is what the frames before carry.           *)
LEMMA EmptyOrder ==
  ASSUME script \in Scripts, NEW i \in 1 .. Len(Frames) + 1, NEW c, NothingDecoded(c), NEW o, o \in Seq(Pairs)
  PROVE  Order(c, i, o) <=> o = Flat(i - 1)
  <1> DEFINE f == Flat(i - 1)
  <1>1. f \in Seq(Pairs)
    BY FlatIn
  <1>2. Bytes(i, 0) = <<>>
    BY DEF Bytes
  <1> HIDE DEF f
  <1>3. Cat(o, <<>>) = o /\ Cat(f, <<>>) = f
    BY <1>1, CatFacts
  <1>4. Order(c, i, o) <=> Cat(o, c.data) = Cat(f, Bytes(i, DecodedLen(c)))
    BY DEF Order, f
  <1> QED
    BY <1>2, <1>3, <1>4 DEF NothingDecoded, f

(* What has been handed on is a part of what was sent.                     *)
LEMMA InOrderPrefix ==
  ASSUME script \in Scripts, NEW i \in 1 .. Len(Frames) + 1, NEW c, c \in CtxType, NEW p,
         Decoder(c, i, p), NEW o, o \in Seq(Pairs), Order(c, i, o)
  PROVE  IsPrefix(o, Sent)
  <1>1. CASE c.state \in {"needed", "available"}
    <2>1. i \in 1 .. Len(Frames) /\ Identified(c, i) /\ Carrying(c, i)
      BY <1>1, FrameTypes DEF Decoder, PayloadOK
    <2>2. DecodedLen(c) \in 0 .. DataLen(i)
      BY <2>1, DecodedLenIs
    <2>3. c.data \in Seq(Pairs)
      BY DEF CtxType
    <2>4. Cat(o, c.data) = Cat(Flat(i - 1), Bytes(i, DecodedLen(c)))
      BY DEF Order
    <2> QED
      BY <2>1, <2>2, <2>3, <2>4, OrderIsPrefix
  <1>2. CASE c.state \in {"header", "extended"}
    <2>1. Blank(c)
      BY <1>2 DEF Decoder, HeaderOK, ExtendedOK
    <2>2. o = Flat(i - 1)
      BY <2>1, BlankIs, EmptyOrder
    <2> DEFINE j == i - 1
    <2>3. j \in 0 .. Len(Frames)
      BY FrameTypes
    <2>4. o = Flat(j)
      BY <2>2
    <2> HIDE DEF j
    <2>5. PICK t : t \in Seq(Pairs) /\ Sent = Cat(Flat(j), t)
      BY <2>3, FlatPrefix
    <2> QED
      BY <2>4, <2>5, PrefixOfConcat DEF Cat
  <1> QED
    BY <1>1, <1>2 DEF CtxType

(* The invariant holds before the first byte.                              *)
LEMMA Initially == Init => WsInvariant
  <1> SUFFICES ASSUME Init PROVE WsInvariant
    OBVIOUS
  <1>1. script \in Scripts /\ messages \in Seq(Words)
    BY WsAssumption DEF Init, Words
  <1>2. Len(Frames) \in Nat /\ 1 \in 1 .. Len(Frames) + 1
    BY <1>1, FrameTypes
  <1>3. CleanupComplete \in CtxType /\ Decoder(CleanupComplete, 1, 0)
    BY <1>1, ClearedOK DEF Known, CleanupComplete
  <1>4. <<>> \in Seq(Pairs)
    OBVIOUS
  <1>5. Types
    BY <1>1, <1>2, <1>3, <1>4 DEF Init, Types
  <1>6. InDecoder
    BY <1>3 DEF Init, InDecoder
  <1>7. <<>> = Flat(1 - 1)
    BY FlatNone
  <1>8. Order(ctx, frame, out)
    <2> DEFINE i == frame
               o == out
    <2>1. i \in 1 .. Len(Frames) + 1 /\ o \in Seq(Pairs) /\ o = Flat(i - 1)
      BY <1>2, <1>4, <1>7 DEF Init
    <2> HIDE DEF i, o
    <2>2. Order(CleanupComplete, i, o)
      BY <1>1, <2>1, ClearedOrder DEF CleanupComplete
    <2> QED
      BY <2>2 DEF i, o, Init
  <1>9. IsPrefix(out, Sent)
    <2>1. Decoder(ctx, frame, at)
      BY <1>3 DEF Init
    <2> QED
      BY <1>5, <1>8, <2>1, InOrderPrefix DEF Types
  <1>10. ctx.data = <<>>
    BY DEF Init, CleanupComplete, Cleared
  <1>11. InOrder
    BY <1>8, <1>9, <1>10 DEF InOrder
  <1> QED
    BY <1>5, <1>6, <1>11 DEF WsInvariant

(* Closing the connection.                                                 *)
LEMMA Closing ==
  ASSUME WsInvariant, NEW reason \in {"peer", "timeout", "protocol", "header", "close"}, Close(reason),
         frame' \in 1 .. Len(Frames) + 1, at' \in Nat
  PROVE  WsInvariant'
  <1>1. script' = script /\ base64' = base64 /\ phase' = "closed" /\ why' = reason
        /\ ctx' = CleanupComplete /\ sync' = sync /\ messages' = messages /\ out' = out
    BY DEF Close, peer
  <1>2. Frames' = Frames /\ Sent' = Sent /\ (WholeText' <=> WholeText)
    BY <1>1, SamePeer
  <1>3. CleanupComplete \in CtxType
    BY ClearedOK DEF WsInvariant, Types, Known, CleanupComplete
  <1>4. Types'
    BY <1>1, <1>2, <1>3 DEF WsInvariant, Types, CleanupComplete, Cleared
  <1>5. ~Live'
    BY <1>1 DEF Live
  <1>6. InDecoder'
    BY <1>5 DEF InDecoder
  <1>7. InOrder'
    BY <1>1, <1>2, <1>5 DEF WsInvariant, InOrder
  <1> QED
    BY <1>4, <1>6, <1>7 DEF WsInvariant

(* A step that leaves the decoder in step.                                 *)
LEMMA InStep ==
  ASSUME script \in Scripts, script' = script, sync' = TRUE, why' = "open", base64' \in BOOLEAN,
         phase' \in {"plain", "lost", "select", "read"}, messages' \in Seq(Words), out' \in Seq(Pairs),
         ctx' \in CtxType, frame' \in 1 .. Len(Frames) + 1, at' \in Nat,
         Decoder(ctx', frame', at'), WholeText => Order(ctx', frame', out'),
         phase' = "select" => ctx'.data = <<>>
  PROVE  WsInvariant'
  <1>1. /\ Frames' = Frames /\ Sent' = Sent /\ (WholeText' <=> WholeText)
        /\ Decoder(ctx, frame, at)' <=> Decoder(ctx', frame', at')
        /\ Order(ctx, frame, out)' <=> Order(ctx', frame', out')
    BY SamePeer
  <1>2. Live'
    BY DEF Live
  <1>3. Types'
    BY <1>1, <1>2 DEF Types
  <1>4. InDecoder'
    BY <1>1 DEF InDecoder
  <1>5. WholeText => IsPrefix(out', Sent)
    BY InOrderPrefix
  <1>6. InOrder'
    BY <1>1, <1>5 DEF InOrder
  <1> QED
    BY <1>3, <1>4, <1>6 DEF WsInvariant

(* The same, while nothing of the frame has been decoded.                  *)
LEMMA BlankStep ==
  ASSUME WsInvariant, Live, phase = "read", NothingDecoded(ctx), NothingDecoded(ctx'),
         script' = script, sync' = TRUE, why' = why, base64' = base64, phase' = phase,
         messages' = messages, out' = out, ctx' \in CtxType, frame' = frame, at' \in Nat,
         Decoder(ctx', frame', at')
  PROVE  WsInvariant'
  <1>1. /\ script \in Scripts /\ why' = "open" /\ base64' \in BOOLEAN
        /\ phase' \in {"plain", "lost", "select", "read"} /\ messages' \in Seq(Words)
        /\ out' \in Seq(Pairs) /\ frame' \in 1 .. Len(Frames) + 1
    BY DEF WsInvariant, Types, Live
  <1>2. WholeText => Order(ctx', frame', out')
    <2> SUFFICES ASSUME WholeText PROVE Order(ctx', frame', out')
      OBVIOUS
    <2>1. Order(ctx, frame, out)
      BY DEF WsInvariant, InOrder
    <2>2. out = Flat(frame - 1)
      BY <1>1, <2>1, EmptyOrder DEF WsInvariant, Types
    <2>3. out' = Flat(frame' - 1)
      BY <2>2
    <2> QED
      BY <1>1, <2>3, EmptyOrder
  <1>3. ctx'.data = <<>>
    BY DEF NothingDecoded
  <1> QED
    BY <1>1, <1>2, <1>3, InStep

(*------------------------------- The actions ------------------------------*)

(* The first two bytes of a header identify the frame.                     *)
LEMMA ContinuedOK ==
  ASSUME NEW c, c \in CtxType, NEW i \in 1 .. Len(Frames), script \in Scripts,
         (c.opcode = "invalid" /\ Known(i, c.cont)) \/ Identified(c, i),
         ~Rejected(c, Frames[i]), Blank(c)
  PROVE  LET d == Continued(c, Frames[i])
         IN  d \in CtxType /\ Identified(d, i) /\ Blank(d) /\ d.nRead = c.nRead /\ d.state = c.state
  <1> DEFINE f == Frames[i]
             op == IF f.op = "continuation" THEN c.cont ELSE f.op
             cont == IF f.op \in Control \cup {"continuation"} THEN c.cont
                     ELSE IF f.fin THEN "invalid" ELSE f.op
             d == [c EXCEPT !.opcode = op, !.cont = cont]
  <1>1. Continued(c, f) = d
    BY DEF Continued
  <1>2. f.op \in Opcodes /\ f.fin \in BOOLEAN
    BY FrameTypes DEF Frame
  <1>3. c.cont \in Data \cup {"invalid"}
    BY DEF CtxType
  <1>4. op \in Opcodes \cup {"invalid"} /\ cont \in Data \cup {"invalid"}
    BY <1>2, <1>3 DEF Opcodes, Data, Control
  <1> HIDE DEF op, cont
  <1>5. /\ d \in CtxType /\ d.opcode = op /\ d.cont = cont /\ d.got = c.got /\ d.write = c.write
        /\ d.carry = c.carry /\ d.data = c.data /\ d.nRead = c.nRead /\ d.state = c.state
    BY <1>4 DEF CtxType
  <1> HIDE DEF d
  <1>6. f.op = "continuation" => cont = c.cont
    BY DEF cont
  <1>7. ~Rejected(d, f)
    BY <1>5, <1>6 DEF Rejected
  <1>8. f.op \in Data => cont = IF f.fin THEN "invalid" ELSE f.op
    BY DEF cont, Data, Control
  <1>9. f.op \notin Data => Known(i, cont)
    <2> SUFFICES ASSUME f.op \notin Data PROVE Known(i, cont)
      OBVIOUS
    <2>1. cont = c.cont
      BY <1>2 DEF cont, Data, Opcodes
    <2>2. Known(i, c.cont)
      BY DEF Identified
    <2> QED
      BY <2>1, <2>2
  <1>10. Identified(d, i)
    BY <1>5, <1>6, <1>7, <1>8, <1>9 DEF Identified, op
  <1>11. Blank(d)
    BY <1>5 DEF Blank
  <1> QED
    BY <1>1, <1>5, <1>10, <1>11

(* A header is read further, or to its end.                                *)
LEMMA HeaderReadOK ==
  ASSUME NEW c, c \in CtxType, NEW i \in 1 .. Len(Frames), script \in Scripts,
         Identified(c, i), Blank(c), c.nRead \in 2 .. HeaderLen(Frames[i])
  PROVE  LET d == HeaderRead(c, Frames[i])
         IN  d \in CtxType /\ Decoder(d, i, c.nRead) /\ NothingDecoded(d)
  <1> DEFINE f == Frames[i]
             h == HeaderLen(f)
             d == HeaderRead(c, f)
             p == c.nRead
  <1>1. h \in Nat /\ p \in Nat /\ p <= h /\ 2 <= p /\ h <= 8
    BY HeaderLength DEF Short, Extended
  <1>2. f.len \in Nat /\ i <= Len(Frames) /\ i \in Nat
    BY FrameTypes DEF Frame
  <1> HIDE DEF h, p
  <1>3. CASE p < h
    <2>1. d = [c EXCEPT !.state = "header"]
      BY <1>3 DEF HeaderRead, h, p
    <2> HIDE DEF d
    <2>2. /\ d \in CtxType /\ d.opcode = c.opcode /\ d.cont = c.cont /\ d.got = c.got /\ d.write = c.write
          /\ d.carry = c.carry /\ d.data = c.data /\ d.nRead = p /\ d.state = "header"
      BY <2>1 DEF CtxType, p
    <2>3. Identified(d, i) /\ Blank(d)
      BY <2>2 DEF Identified, Rejected, Blank
    <2>4. HeaderOK(d, i, p)
      BY <1>1, <1>2, <1>3, <2>2, <2>3, FrameTypes DEF HeaderOK, h
    <2> QED
      BY <2>2, <2>3, <2>4, BlankIs DEF Decoder, d, p
  <1>4. CASE ~(p < h)
    <2>1. d = [c EXCEPT !.state = "needed", !.write = h]
      BY <1>4 DEF HeaderRead, h, p
    <2> HIDE DEF d
    <2>2. /\ d \in CtxType /\ d.opcode = c.opcode /\ d.cont = c.cont /\ d.got = 0 /\ d.write = h
          /\ d.carry = <<>> /\ d.data = <<>> /\ d.nRead = p /\ d.state = "needed"
      <3>1. /\ d \in CtxType /\ d.opcode = c.opcode /\ d.cont = c.cont /\ d.got = c.got /\ d.write = h
            /\ d.carry = c.carry /\ d.data = c.data /\ d.nRead = p /\ d.state = "needed"
        BY <1>1, <2>1 DEF CtxType, p
      <3>2. c.got = 0 /\ c.carry = <<>> /\ c.data = <<>>
        BY DEF Blank
      <3> QED
        BY <3>1, <3>2
    <2>3. Identified(d, i)
      BY <2>2 DEF Identified, Rejected
    <2>4. Len(<<>>) = 0 /\ <<>> = [k \in 1 .. 0 |-> 0 - 0 + k - 1]
      OBVIOUS
    <2>5. Carrying(d, i)
      <3>1. h + 0 < BufLen
        BY <1>1, WsAssumption DEF Extended
      <3>2. Len(d.carry) = 0
        BY <2>2, <2>4
      <3>3. (0 - 0) % 4 = 0 /\ 0 <= f.len
        BY <1>2
      <3>4. d.carry = [k \in 1 .. Len(d.carry) |-> d.got - Len(d.carry) + k - 1]
        <4>1. d.carry = <<>> /\ d.got = 0
          BY <2>2
        <4> QED
          BY <2>4, <3>2, <4>1
      <3> QED
        BY <2>2, <3>1, <3>2, <3>3, <3>4 DEF Carrying, h
    <2>6. PayloadOK(d, i, p)
      <3>1. p = h + 0
        BY <1>1, <1>4
      <3>2. 0 < f.len \/ f.len = 0
        BY <1>2
      <3> QED
        BY <1>2, <2>2, <2>3, <2>5, <3>1, <3>2 DEF PayloadOK, h
    <2>7. NothingDecoded(d)
      <3>1. d.got - Len(d.carry) = 0 - 0
        BY <2>2, <2>4, Zenon
      <3>2. (3 * (0 - 0)) \div 4 = 0 /\ 0 - 0 = 0
        OBVIOUS
      <3> QED
        BY <2>2, <3>1, <3>2 DEF NothingDecoded, DecodedLen
    <2> QED
      BY <2>2, <2>6, <2>7 DEF Decoder, d, p
  <1> QED
    BY <1>3, <1>4

(* What is known when the decoder reads from the socket.                   *)
LEMMA ReadFacts ==
  ASSUME WsInvariant, Reading, NEW n, NEW k \in ReadSome(n), n \in Nat
  PROVE  /\ script \in Scripts /\ Live /\ phase = "read" /\ why = "open" /\ ctx \in CtxType /\ Decoder(ctx, frame, at)
         /\ frame \in 1 .. Len(Frames) /\ k \in 1 .. n /\ at \in Nat
  <1>1. script \in Scripts /\ Live /\ phase = "read" /\ why = "open" /\ ctx \in CtxType /\ Decoder(ctx, frame, at)
        /\ frame \in 1 .. Len(Frames) + 1 /\ at \in Nat
    BY DEF WsInvariant, Types, InDecoder, Live, Reading
  <1>2. ~Ended /\ k \in 1 .. n
    BY DEF ReadSome
  <1>3. frame \in 1 .. Len(Frames)
    BY <1>1, <1>2, FrameTypes DEF Ended
  <1> QED
    BY <1>1, <1>2, <1>3

LEMMA HeaderBytes ==
  ASSUME WsInvariant
  PROVE  /\ ctx.nRead \in Nat /\ Extended - ctx.nRead \in Nat
         /\ ctx.nRead < Short => Short - ctx.nRead \in Nat
  <1> DEFINE r == ctx.nRead
  <1>1. r \in 0 .. Extended
    BY DEF WsInvariant, Types, CtxType
  <1> HIDE DEF r
  <1>2. r \in Nat /\ Extended - r \in Nat /\ (r < Short => Short - r \in Nat)
    BY <1>1 DEF Short, Extended
  <1> QED
    BY <1>2 DEF r

(* A step within a header.                                                 *)
LEMMA HeaderStepKept ==
  ASSUME WsInvariant, Live, phase = "read", NothingDecoded(ctx),
         NEW c, c \in CtxType, NothingDecoded(c), HeaderStep(c, Here),
         frame' = frame, at' \in Nat, Decoder(c, frame, at')
  PROVE  WsInvariant'
  <1>1. CASE Close("protocol")
    BY <1>1, Closing DEF WsInvariant, Types
  <1>2. CASE ~Close("protocol")
    <2>1. ctx' = c /\ script' = script /\ base64' = base64 /\ phase' = phase /\ why' = why /\ sync' = sync
          /\ messages' = messages /\ out' = out
      BY <1>2 DEF HeaderStep, peer
    <2>2. sync' = TRUE
      BY <2>1 DEF Live, WsInvariant, Types
    <2>3. NothingDecoded(ctx') /\ Decoder(ctx', frame', at') /\ ctx' \in CtxType
      BY <2>1 DEF NothingDecoded
    <2> QED
      BY <2>1, <2>2, <2>3, BlankStep
  <1> QED
    BY <1>1, <1>2

(* Each action keeps the invariant.                                        *)
LEMMA ReadHeaderKept == WsInvariant /\ ReadHeader => WsInvariant'
  <1> SUFFICES ASSUME WsInvariant, ReadHeader PROVE WsInvariant'
    OBVIOUS
  <1>1. Reading /\ ctx.state = "header" /\ ctx.nRead < Short
    BY DEF ReadHeader
  <1>2. ctx.nRead \in Nat /\ Short - ctx.nRead \in Nat
    BY <1>1, HeaderBytes
  <1> DEFINE c(k) == [ctx EXCEPT !.nRead = @ + k]
  <1>3. PICK k \in ReadSome(Short - ctx.nRead) :
            /\ at' = at + k /\ frame' = frame
            /\ IF c(k).nRead < 2 THEN HeaderStep(c(k), Here)
               ELSE IF Rejected(c(k), Here) THEN Close("protocol")
               ELSE IF Here.long THEN HeaderStep([Continued(c(k), Here) EXCEPT !.state = "extended"], Here)
               ELSE HeaderStep(HeaderRead(Continued(c(k), Here), Here), Here)
    BY DEF ReadHeader
  <1>4. /\ script \in Scripts /\ Live /\ phase = "read" /\ ctx \in CtxType /\ HeaderOK(ctx, frame, at)
        /\ frame \in 1 .. Len(Frames) /\ k \in 1 .. Short - ctx.nRead /\ at \in Nat
    BY <1>1, <1>2, <1>3, ReadFacts DEF Decoder
  <1> DEFINE e == c(k)
             p == at + k
  <1>5. p \in 1 .. Short /\ ctx.nRead = at /\ frame' \in 1 .. Len(Frames) + 1 /\ frame \in Nat
    BY <1>3, <1>4, FrameTypes DEF HeaderOK, Short
  <1>6. /\ e \in CtxType /\ e.nRead = p /\ e.state = "header" /\ e.opcode = ctx.opcode /\ e.cont = ctx.cont
        /\ e.got = ctx.got /\ e.write = ctx.write /\ e.carry = ctx.carry /\ e.data = ctx.data
    <2>1. e = [ctx EXCEPT !.nRead = p]
      BY <1>5
    <2>2. p \in 0 .. Extended
      BY <1>5 DEF Short, Extended
    <2> HIDE DEF e, p
    <2> QED
      BY <1>1, <1>4, <2>1, <2>2 DEF CtxType
  <1>7. Blank(ctx) /\ Blank(e)
    BY <1>4, <1>6 DEF HeaderOK, Blank
  <1>8. (e.opcode = "invalid" /\ Known(frame, e.cont)) \/ Identified(e, frame)
    <2>1. (ctx.opcode = "invalid" /\ Known(frame, ctx.cont)) \/ Identified(ctx, frame)
      BY <1>4 DEF HeaderOK
    <2> QED
      BY <1>6, <2>1 DEF Identified, Rejected
  <1>9. NothingDecoded(ctx) /\ NothingDecoded(e)
    BY <1>7, BlankIs
  <1>10. at' = p /\ frame' = frame /\ p \in Nat
    BY <1>3, <1>5
  <1>11. /\ IF p < 2 THEN HeaderStep(e, Here)
            ELSE IF Rejected(e, Here) THEN Close("protocol")
            ELSE IF Here.long THEN HeaderStep([Continued(e, Here) EXCEPT !.state = "extended"], Here)
            ELSE HeaderStep(HeaderRead(Continued(e, Here), Here), Here)
    BY <1>3, <1>6
  <1> HIDE DEF e, p, c
  <1>12. CASE p < 2
    <2>1. HeaderOK(e, frame, p)
      <3>1. e.opcode = "invalid" /\ Known(frame, e.cont)
        <4>1. at < 2
          BY <1>4, <1>5, <1>12 DEF p
        <4> QED
          BY <1>4, <1>6, <4>1 DEF HeaderOK
      <3>2. p < HeaderLen(Frames[frame]) /\ frame <= Len(Frames)
        BY <1>4, <1>10, <1>12, HeaderLength, FrameTypes DEF Short, Extended
      <3> QED
        BY <1>5, <1>6, <1>7, <1>12, <3>1, <3>2, FrameTypes DEF HeaderOK
    <2>2. Decoder(e, frame, at')
      BY <1>6, <1>10, <2>1 DEF Decoder
    <2> QED
      BY <1>4, <1>6, <1>9, <1>10, <1>11, <1>12, <2>2, HeaderStepKept
  <1>13. CASE p >= 2 /\ Rejected(e, Here)
    <2>1. Close("protocol")
      BY <1>10, <1>11, <1>13
    <2>2. frame' \in 1 .. Len(Frames) + 1 /\ at' \in Nat
      BY <1>5, <1>10
    <2> QED
      BY <2>1, <2>2, Closing
  <1>14. CASE p >= 2 /\ ~Rejected(e, Here)
    <2> DEFINE d == Continued(e, Here)
    <2>1. /\ d \in CtxType /\ Identified(d, frame) /\ Blank(d) /\ d.nRead = p
      BY <1>4, <1>6, <1>7, <1>8, <1>14, ContinuedOK DEF Here
    <2>2. IF Here.long THEN HeaderStep([d EXCEPT !.state = "extended"], Here)
          ELSE HeaderStep(HeaderRead(d, Here), Here)
      BY <1>10, <1>11, <1>14
    <2> HIDE DEF d
    <2>3. CASE Here.long
      <3> DEFINE x == [d EXCEPT !.state = "extended"]
      <3>1. /\ x \in CtxType /\ x.nRead = p /\ x.state = "extended" /\ x.opcode = d.opcode /\ x.cont = d.cont
            /\ x.got = d.got /\ x.write = d.write /\ x.carry = d.carry /\ x.data = d.data
        BY <2>1 DEF CtxType
      <3>2. HeaderStep(x, Here)
        BY <2>2, <2>3
      <3> HIDE DEF x
      <3>3. Blank(x) /\ Identified(x, frame)
        BY <2>1, <3>1 DEF Blank, Identified, Rejected
      <3>4. ExtendedOK(x, frame, p)
        BY <1>4, <1>5, <1>14, <2>3, <3>1, <3>3, FrameTypes DEF ExtendedOK, Here
      <3>5. Decoder(x, frame, at')
        BY <1>10, <3>1, <3>4 DEF Decoder
      <3> QED
        BY <1>4, <1>9, <1>10, <3>1, <3>2, <3>3, <3>5, BlankIs, HeaderStepKept
    <2>4. CASE ~Here.long
      <3>1. d.nRead \in 2 .. HeaderLen(Frames[frame])
        BY <1>5, <1>14, <2>1, <2>4 DEF HeaderLen, Here
      <3> DEFINE x == HeaderRead(d, Here)
      <3>2. x \in CtxType /\ Decoder(x, frame, p) /\ NothingDecoded(x)
        BY <1>4, <2>1, <3>1, HeaderReadOK DEF Here
      <3>3. HeaderStep(x, Here)
        BY <2>2, <2>4
      <3> HIDE DEF x
      <3> QED
        BY <1>4, <1>9, <1>10, <3>2, <3>3, HeaderStepKept
    <2> QED
      BY <2>3, <2>4
  <1> QED
    BY <1>5, <1>12, <1>13, <1>14

LEMMA ReadExtendedKept == WsInvariant /\ ReadExtended => WsInvariant'
  <1> SUFFICES ASSUME WsInvariant, ReadExtended PROVE WsInvariant'
    OBVIOUS
  <1>1. Reading /\ ctx.state = "extended"
    BY DEF ReadExtended
  <1>2. ctx.nRead \in Nat /\ Extended - ctx.nRead \in Nat
    BY <1>1, HeaderBytes
  <1> DEFINE c(k) == [ctx EXCEPT !.nRead = @ + k]
  <1>3. PICK k \in ReadSome(Extended - ctx.nRead) :
            at' = at + k /\ frame' = frame /\ HeaderStep(HeaderRead(c(k), Here), Here)
    BY DEF ReadExtended
  <1>4. /\ script \in Scripts /\ Live /\ phase = "read" /\ ctx \in CtxType /\ ExtendedOK(ctx, frame, at)
        /\ frame \in 1 .. Len(Frames) /\ k \in 1 .. Extended - ctx.nRead /\ at \in Nat
    BY <1>1, <1>2, <1>3, ReadFacts DEF Decoder
  <1> DEFINE e == c(k)
             p == at + k
  <1>5. p \in 2 .. Extended /\ ctx.nRead = at
    BY <1>4 DEF ExtendedOK, Extended
  <1>6. /\ e \in CtxType /\ e.nRead = p /\ e.opcode = ctx.opcode /\ e.cont = ctx.cont
        /\ e.got = ctx.got /\ e.write = ctx.write /\ e.carry = ctx.carry /\ e.data = ctx.data
    <2>1. e = [ctx EXCEPT !.nRead = p]
      BY <1>5
    <2>2. p \in 0 .. Extended
      BY <1>5 DEF Short, Extended
    <2> HIDE DEF e, p
    <2> QED
      BY <1>1, <1>4, <2>1, <2>2 DEF CtxType
  <1>7. Blank(ctx) /\ Blank(e) /\ Identified(e, frame)
    BY <1>4, <1>6 DEF ExtendedOK, Blank, Identified, Rejected
  <1>8. at' = p /\ p \in Nat
    BY <1>3, <1>5
  <1>9. HeaderLen(Frames[frame]) = Extended
    BY <1>4 DEF ExtendedOK, HeaderLen
  <1> HIDE DEF e, p
  <1> DEFINE x == HeaderRead(e, Here)
  <1>10. x \in CtxType /\ Decoder(x, frame, p) /\ NothingDecoded(x)
    BY <1>4, <1>5, <1>6, <1>7, <1>9, HeaderReadOK DEF Here
  <1>11. HeaderStep(x, Here)
    BY <1>3 DEF e
  <1> HIDE DEF x
  <1> QED
    BY <1>3, <1>4, <1>7, <1>8, <1>10, <1>11, BlankIs, HeaderStepKept

(* A call reads no more than it may.                                       *)
LEMMA ReadableBytes ==
  ASSUME WsInvariant, Reading, ctx.state = "needed",
         NEW n \in (IF ToRead(ctx) = 0 THEN {0} ELSE ReadSome(ToRead(ctx)))
  PROVE  Readable(ctx, frame, n)
  <1>2. /\ script \in Scripts /\ ctx \in CtxType /\ PayloadOK(ctx, frame, at)
        /\ frame \in 1 .. Len(Frames) + 1 /\ out \in Seq(Pairs) /\ messages \in Seq(Words)
        /\ base64 \in BOOLEAN /\ phase = "read"
    BY DEF WsInvariant, Types, InDecoder, Live, Reading, Decoder
  <1>3. frame \in 1 .. Len(Frames) /\ Identified(ctx, frame) /\ Carrying(ctx, frame) /\ ctx.data = <<>>
    BY <1>2, FrameTypes DEF PayloadOK
  <1>4. /\ Remaining(ctx) \in Nat /\ Room(ctx) \in Nat /\ ToRead(ctx) \in Nat
        /\ ToRead(ctx) <= Remaining(ctx) /\ ToRead(ctx) <= Room(ctx)
    <2>1. Remaining(ctx) \in Nat
      <3>1. Here.len \in Nat /\ ctx.got \in Nat
        BY <1>2, <1>3, FrameTypes DEF Here, Frame, CtxType
      <3>2. ctx.got <= Here.len
        BY <1>3 DEF Carrying, Here
      <3> DEFINE g == ctx.got
                 h == Here.len
      <3> HIDE DEF g, h
      <3>3. h - g \in Nat
        BY <3>1, <3>2 DEF g, h
      <3> QED
        BY <3>3 DEF Remaining, g, h
    <2>2. Room(ctx) \in Nat
      <3> DEFINE w == ctx.write
                 l == Len(ctx.carry)
      <3>1. w \in Nat /\ l \in Nat /\ w + l < BufLen
        BY <1>2, <1>3 DEF CtxType, Carrying
      <3> HIDE DEF w, l
      <3>2. BufLen - w - l - 1 \in Nat
        BY <3>1, WsAssumption
      <3> QED
        BY <3>2 DEF Room, w, l
    <2> DEFINE a == Remaining(ctx)
               b == Room(ctx)
    <2> HIDE DEF a, b
    <2>3. ToRead(ctx) = IF a <= b THEN a ELSE b
      BY <2>1, <2>2, LeastOfTwo DEF ToRead, a, b
    <2> QED
      BY <2>1, <2>2, <2>3 DEF a, b
  <1>6. n \in Nat /\ n <= ToRead(ctx)
    BY <1>4 DEF ReadSome
  <1> QED
    <2> DEFINE w == ctx.write
               l == Len(ctx.carry)
               g == ctx.got
               h == Frames[frame].len
    <2>1. w \in Nat /\ l \in Nat /\ g \in Nat /\ h \in Nat
      BY <1>2, <1>3, FrameTypes DEF CtxType, Frame
    <2>2. Remaining(ctx) = h - g /\ Room(ctx) = BufLen - w - l - 1
      BY DEF Remaining, Room, Here
    <2> HIDE DEF w, l, g, h
    <2>3. g + n <= h /\ w + l + n < BufLen
      BY <1>4, <1>6, <2>1, <2>2, WsAssumption
    <2> QED
      BY <1>6, <2>3 DEF Readable, w, l, g, h

LEMMA ReadAndDecodeKept == WsInvariant /\ ReadAndDecode => WsInvariant'
  <1> SUFFICES ASSUME WsInvariant, ReadAndDecode PROVE WsInvariant'
    OBVIOUS
  <1>1. Reading /\ ctx.state = "needed"
    BY DEF ReadAndDecode
  <1>2. /\ script \in Scripts /\ Live /\ why = "open" /\ ctx \in CtxType /\ PayloadOK(ctx, frame, at)
        /\ frame \in 1 .. Len(Frames) + 1 /\ out \in Seq(Pairs) /\ messages \in Seq(Words)
        /\ base64 \in BOOLEAN /\ phase = "read"
    BY <1>1 DEF WsInvariant, Types, InDecoder, Live, Reading, Decoder
  <1>3. frame \in 1 .. Len(Frames) /\ Identified(ctx, frame) /\ Carrying(ctx, frame) /\ ctx.data = <<>>
    BY <1>1, <1>2, FrameTypes DEF PayloadOK
  <1>5. PICK n \in (IF ToRead(ctx) = 0 THEN {0} ELSE ReadSome(ToRead(ctx))) :
            IF ctx.opcode = "close" /\ Remaining(ctx) = n
            THEN Close("close") /\ frame' = frame + 1 /\ at' = 0
            ELSE ReturnData(Decoded(ctx, n))
    BY DEF ReadAndDecode
  <1>7. CASE ctx.opcode = "close" /\ Remaining(ctx) = n
    <2>1. Close("close") /\ frame' \in 1 .. Len(Frames) + 1 /\ at' \in Nat
      BY <1>3, <1>5, <1>7, FrameTypes
    <2> QED
      BY <2>1, Closing
  <1>8. CASE ~(ctx.opcode = "close" /\ Remaining(ctx) = n)
    <2>1. ReturnData(Decoded(ctx, n))
      BY <1>5, <1>8
    <2>2. Readable(ctx, frame, n)
      BY <1>1, <1>5, ReadableBytes
    <2> DEFINE d == Decoded(ctx, n)
    <2>3. /\ d \in CtxType /\ Identified(d, frame) /\ Carrying(d, frame)
          /\ WholeText => Follows(d.data, frame, DecodedLen(ctx), DecodedLen(d) - DecodedLen(ctx))
      BY <1>2, <1>3, <2>2, DecodedOK
    <2> HIDE DEF d
    <2>4. ASSUME WholeText
          PROVE  Order(d, frame, out)
      <3> DEFINE f == Flat(frame - 1)
                 x == DecodedLen(ctx)
                 y == DecodedLen(d) - x
                 t == d.data
      <3>1. x \in Nat /\ DecodedLen(d) \in Nat /\ frame \in Nat
        BY <1>2, <1>3, <2>3, DecodedLenIs, FrameTypes, DataIs
      <3>2. f \in Seq(Pairs)
        BY <1>2, FlatIn
      <3>3. out = Cat(f, Bytes(frame, x))
        <4>1. Order(ctx, frame, out)
          BY <1>2, <2>4 DEF WsInvariant, InOrder
        <4> QED
          BY <1>2, <1>3, <4>1, CatFacts DEF Order
      <3>4. Follows(t, frame, x, y) /\ t \in Seq(Pairs) /\ y \in Nat /\ x + y = DecodedLen(d)
        <4>1. Follows(t, frame, x, y)
          BY <2>3, <2>4
        <4>2. t \in Seq(Pairs) /\ Len(t) = y
          BY <4>1 DEF Follows
        <4>3. y \in Nat
          BY <4>2
        <4> QED
          BY <3>1, <4>1, <4>2, <4>3
      <3>5. Bytes(frame, x) \in Seq(Pairs)
        BY <3>1, BytesAre
      <3> HIDE DEF f, x, y, t
      <3>6. Cat(Bytes(frame, x), t) = Bytes(frame, x + y)
        BY <3>1, <3>4, BytesJoin
      <3>7. Cat(out, t) = Cat(f, Bytes(frame, DecodedLen(d)))
        BY <3>2, <3>3, <3>4, <3>5, <3>6, CatFacts
      <3> QED
        BY <3>7 DEF Order, f, t
    <2>5. /\ messages' \in Seq(Words) /\ phase' \in {"read", "select"} /\ out' \in Seq(Pairs)
          /\ ctx' \in CtxType /\ frame' \in 1 .. Len(Frames) + 1 /\ at' \in Nat
          /\ phase' = "select" => ctx'.data = <<>>
          /\ Decoder(ctx', frame', at')
          /\ WholeText => Order(ctx', frame', out')
      <3>1. ReturnData(d)
        BY <2>1 DEF d
      <3> QED
        BY <1>2, <1>3, <2>3, <2>4, <3>1, ReturnDataOK
    <2>6. script' = script /\ sync' = TRUE /\ why' = "open" /\ base64' \in BOOLEAN
      BY <1>1, <1>2, <2>1 DEF ReturnData, peer, Reading, WsInvariant, Types
    <2> QED
      BY <1>2, <2>5, <2>6, InStep
  <1> QED
    BY <1>7, <1>8

LEMMA ReturnMoreKept == WsInvariant /\ ReturnMore => WsInvariant'
  <1> SUFFICES ASSUME WsInvariant, ReturnMore PROVE WsInvariant'
    OBVIOUS
  <1>1. Reading /\ ctx.state = "available" /\ ReturnData(ctx)
    BY DEF ReturnMore
  <1>2. /\ script \in Scripts /\ Live /\ why = "open" /\ ctx \in CtxType /\ PayloadOK(ctx, frame, at)
        /\ frame \in 1 .. Len(Frames) + 1 /\ out \in Seq(Pairs) /\ messages \in Seq(Words)
        /\ base64 \in BOOLEAN /\ phase = "read" /\ (WholeText => Order(ctx, frame, out))
    BY <1>1 DEF WsInvariant, Types, InDecoder, InOrder, Live, Reading, Decoder
  <1>3. frame \in 1 .. Len(Frames) /\ Identified(ctx, frame) /\ Carrying(ctx, frame)
    BY <1>2, FrameTypes DEF PayloadOK
  <1>4. /\ messages' \in Seq(Words) /\ phase' \in {"read", "select"} /\ out' \in Seq(Pairs)
        /\ ctx' \in CtxType /\ frame' \in 1 .. Len(Frames) + 1 /\ at' \in Nat
        /\ phase' = "select" => ctx'.data = <<>>
        /\ Decoder(ctx', frame', at')
        /\ WholeText => Order(ctx', frame', out')
    BY <1>1, <1>2, <1>3, ReturnDataOK
  <1>5. script' = script /\ sync' = TRUE /\ why' = "open" /\ base64' \in BOOLEAN
    BY <1>1, <1>2 DEF ReturnData, peer, Reading, WsInvariant, Types
  <1> QED
    BY <1>2, <1>4, <1>5, InStep

(* Steps that leave the decoder and what it has read alone.                *)
LEMMA AsideKept ==
  ASSUME WsInvariant, phase # "closed", UNCHANGED <<script, frame, at, sync, ctx, messages, out>>, base64' \in BOOLEAN,
         \/ phase' \in {"plain", "lost", "select", "read"} /\ why' = why
         \/ phase' = "closed" /\ why' = "refused" /\ phase = "check",
         phase' = "select" => phase = "check"
  PROVE  WsInvariant'
  <1>1. /\ Frames' = Frames /\ Sent' = Sent /\ (WholeText' <=> WholeText)
        /\ Decoder(ctx, frame, at)' <=> Decoder(ctx, frame, at)
        /\ Order(ctx, frame, out)' <=> Order(ctx, frame, out)
    BY SamePeer
  <1>2. why = "open" /\ (phase' = "closed" => ctx = CleanupComplete)
    BY DEF WsInvariant, Types
  <1>3. CASE ~sync \/ phase' = "closed"
    <2>1. ~Live' /\ ctx = CleanupComplete
      BY <1>2, <1>3 DEF Live, WsInvariant, Types
    <2>2. Types'
      BY <1>1, <1>2, <2>1 DEF WsInvariant, Types
    <2>3. InDecoder'
      BY <2>1 DEF InDecoder
    <2>4. InOrder'
      <3>1. phase' = "select" /\ sync' => ctx'.data = <<>>
        BY <1>3
      <3> QED
        BY <1>1, <2>1, <3>1 DEF WsInvariant, InOrder
    <2> QED
      BY <2>2, <2>3, <2>4 DEF WsInvariant
  <1>4. CASE sync /\ phase' # "closed"
    <2>1. Live /\ Live' /\ phase' # "check" /\ why' = why
      BY <1>4 DEF Live
    <2>2. Types'
      BY <1>1, <1>2, <2>1 DEF WsInvariant, Types
    <2>3. InDecoder'
      BY <1>1, <2>1 DEF WsInvariant, InDecoder
    <2>4. phase' = "select" => ctx'.data = <<>>
      BY DEF WsInvariant, Types, CleanupComplete, Cleared
    <2>5. InOrder'
      BY <1>1, <2>1, <2>4 DEF WsInvariant, InOrder
    <2> QED
      BY <2>2, <2>3, <2>5 DEF WsInvariant
  <1> QED
    BY <1>3, <1>4

LEMMA CheckKept == WsInvariant /\ Check => WsInvariant'
  <1> SUFFICES ASSUME WsInvariant, Check PROVE WsInvariant'
    OBVIOUS
  <1>1. /\ UNCHANGED <<script, frame, at, sync, ctx, messages, out>> /\ base64' \in BOOLEAN
        /\ phase = "check"
        /\ \/ phase' \in {"plain", "lost", "select"} /\ why' = why
           \/ phase' = "closed" /\ why' = "refused"
    <2>1. PICK r \in Requests :
              IF r.first \in {"RFB", "silence"} THEN phase' = "plain" /\ UNCHANGED <<why, base64>>
              ELSE IF r.first = "GET" /\ Accepts(r)
              THEN /\ phase' = IF "key" \in r.fields THEN "select" ELSE "lost"
                   /\ base64' = ("base64" \in r.fields) /\ UNCHANGED why
              ELSE phase' = "closed" /\ why' = "refused" /\ UNCHANGED base64
      BY DEF Check
    <2>2. base64 \in BOOLEAN
      BY DEF WsInvariant, Types
    <2>3. ("base64" \in r.fields) \in BOOLEAN
      OBVIOUS
    <2>4. base64' \in BOOLEAN
      BY <2>1, <2>2, <2>3, Zenon
    <2>5. \/ phase' \in {"plain", "lost", "select"} /\ why' = why
          \/ phase' = "closed" /\ why' = "refused"
      BY <2>1
    <2> QED
      BY <2>4, <2>5 DEF Check
  <1> QED
    BY <1>1, AsideKept

LEMMA WakeKept == WsInvariant /\ Wake => WsInvariant'
  <1> SUFFICES ASSUME WsInvariant, Wake PROVE WsInvariant'
    OBVIOUS
  <1>1. /\ UNCHANGED <<script, frame, at, sync, ctx, messages, out>> /\ base64' \in BOOLEAN
        /\ phase = "select" /\ phase' = "read" /\ why' = why
    BY DEF Wake, peer, WsInvariant, Types
  <1> QED
    BY <1>1, AsideKept

LEMMA EndingKept == WsInvariant /\ (PeerCloses \/ TimedOut \/ ReadNothing) => WsInvariant'
  <1> SUFFICES ASSUME WsInvariant, NEW reason \in {"peer", "timeout", "header"}, Close(reason),
                      UNCHANGED <<frame, at>>
               PROVE  WsInvariant'
    BY DEF PeerCloses, TimedOut, ReadNothing
  <1>1. frame' \in 1 .. Len(Frames) + 1 /\ at' \in Nat
    BY DEF WsInvariant, Types
  <1> QED
    BY <1>1, Closing

(* Finding nothing within a frame loses the place; between two frames it   *)
(* does not.                                                               *)
LEMMA FoundEmptyKept == WsInvariant /\ FoundEmpty => WsInvariant'
  <1> SUFFICES ASSUME WsInvariant, FoundEmpty PROVE WsInvariant'
    OBVIOUS
  <1>1. /\ phase = "read" /\ sync /\ ctx' = CleanupComplete /\ sync' = (at = 0)
        /\ script' = script /\ base64' = base64 /\ phase' = phase /\ why' = why /\ frame' = frame /\ at' = at
        /\ messages' = messages /\ out' = out
    BY DEF FoundEmpty, Reading, peer
  <1>2. Live /\ script \in Scripts /\ Decoder(ctx, frame, at) /\ frame \in 1 .. Len(Frames) + 1
        /\ ctx \in CtxType
    BY <1>1 DEF WsInvariant, Types, InDecoder, Live
  <1>3. CleanupComplete \in CtxType /\ Decoder(CleanupComplete, frame, 0)
    BY <1>2, ClearedOK DEF Known, CleanupComplete
  <1>4. CASE at # 0
    <2>1. ~sync' /\ ~Live'
      BY <1>1, <1>4 DEF Live
    <2>2. Frames' = Frames
      BY <1>1, SamePeer
    <2>3. Types'
      BY <1>1, <1>3, <1>4, <2>1, <2>2 DEF WsInvariant, Types
    <2> QED
      BY <2>1, <2>3 DEF WsInvariant, InDecoder, InOrder
  <1>5. CASE at = 0
    <2>1. NothingDecoded(ctx)
      <3>1. CASE ctx.state = "header"
        BY <1>2, <3>1, BlankIs DEF Decoder, HeaderOK
      <3>2. CASE ctx.state = "extended"
        BY <1>2, <3>2, BlankIs DEF Decoder, ExtendedOK
      <3>3. CASE ctx.state \in {"needed", "available"}
        <4>1. at = HeaderLen(Frames[frame]) + ctx.got /\ ctx.got \in Nat
          BY <1>2, <3>3 DEF Decoder, PayloadOK, CtxType
        <4>2. HeaderLen(Frames[frame]) \in Nat \ {0}
          BY HeaderLength DEF Short, Extended
        <4> QED
          BY <1>5, <4>1, <4>2
      <3> QED
        BY <1>2, <3>1, <3>2, <3>3 DEF CtxType
    <2>2. NothingDecoded(ctx')
      <3>1. Blank(CleanupComplete)
        BY DEF Blank, CleanupComplete, Cleared
      <3> QED
        BY <1>1, <3>1, BlankIs
    <2>3. sync' = TRUE /\ Decoder(ctx', frame', at') /\ ctx' \in CtxType /\ at' \in Nat
      BY <1>1, <1>3, <1>5
    <2> QED
      BY <1>1, <1>2, <2>1, <2>2, <2>3, BlankStep
  <1> QED
    BY <1>4, <1>5

(* Out of step nothing is said of the data.                                *)
LEMMA AstrayKept == WsInvariant /\ Astray => WsInvariant'
  <1> SUFFICES ASSUME WsInvariant, Astray PROVE WsInvariant'
    OBVIOUS
  <1>1. phase = "read" /\ ~sync /\ ~Live /\ messages \in Seq(Words) /\ out \in Seq(Pairs)
    BY DEF Astray, Live, WsInvariant, Types
  <1>2. CASE Close("protocol") /\ UNCHANGED <<frame, at>>
    <2>1. frame' \in 1 .. Len(Frames) + 1 /\ at' \in Nat
      BY <1>2 DEF WsInvariant, Types
    <2> QED
      BY <1>2, <2>1, Closing
  <1>3. CASE /\ messages # <<>>
             /\ out' = Append(out, Garbled) /\ Consume(1, ctx)
             /\ UNCHANGED <<peer, why, frame, at, sync, ctx>>
    <2>1. 1 \in Nat \ {0} /\ 1 <= Asked[1]
      BY <1>1, AskedIs
    <2>2. messages' \in Seq(Words) /\ phase' \in {"read", "select"}
      BY <1>1, <1>3, <2>1, ConsumeOK
    <2>3. out' \in Seq(Pairs)
      <3>1. Garbled \in Pairs
        BY DEF Garbled, Pairs
      <3> QED
        BY <1>1, <1>3, <3>1
    <2>4. script' = script /\ base64' = base64 /\ ~sync' /\ ~Live' /\ sync' = sync
      BY <1>1, <1>3 DEF peer, Live
    <2>5. Frames' = Frames
      BY <2>4, SamePeer
    <2>6. Types'
      BY <1>1, <1>3, <2>2, <2>3, <2>4, <2>5 DEF WsInvariant, Types
    <2> QED
      BY <2>4, <2>6 DEF WsInvariant, InDecoder, InOrder
  <1> QED
    BY <1>2, <1>3 DEF Astray

(* Every step keeps the invariant.                                         *)
LEMMA StepKept == WsInvariant /\ [Next]_vars => WsInvariant'
  <1> SUFFICES ASSUME WsInvariant, [Next]_vars PROVE WsInvariant'
    OBVIOUS
  <1>1. CASE UNCHANGED vars
    <2>1. script' = script /\ phase' = phase /\ why' = why /\ base64' = base64 /\ frame' = frame /\ at' = at
          /\ sync' = sync /\ ctx' = ctx /\ messages' = messages /\ out' = out
      BY <1>1 DEF vars
    <2>2. /\ Frames' = Frames /\ Sent' = Sent /\ (WholeText' <=> WholeText)
          /\ Decoder(ctx, frame, at)' <=> Decoder(ctx, frame, at)
          /\ Order(ctx, frame, out)' <=> Order(ctx, frame, out)
      BY <2>1, SamePeer
    <2>3. Types' /\ (Live' <=> Live)
      BY <2>1, <2>2 DEF WsInvariant, Types, Live
    <2>4. InDecoder' /\ InOrder'
      BY <2>1, <2>2, <2>3 DEF WsInvariant, InDecoder, InOrder
    <2> QED
      BY <2>3, <2>4 DEF WsInvariant
  <1>2. CASE Check
    BY <1>2, CheckKept
  <1>3. CASE Wake
    BY <1>3, WakeKept
  <1>4. CASE PeerCloses \/ TimedOut \/ ReadNothing
    BY <1>4, EndingKept
  <1>5. CASE FoundEmpty
    BY <1>5, FoundEmptyKept
  <1>6. CASE ReadHeader
    BY <1>6, ReadHeaderKept
  <1>7. CASE ReadExtended
    BY <1>7, ReadExtendedKept
  <1>8. CASE ReadAndDecode
    BY <1>8, ReadAndDecodeKept
  <1>9. CASE ReturnMore
    BY <1>9, ReturnMoreKept
  <1>10. CASE Astray
    BY <1>10, AstrayKept
  <1> QED
    BY <1>1, <1>2, <1>3, <1>4, <1>5, <1>6, <1>7, <1>8, <1>9, <1>10 DEF Next

(* The decoder of a client that is in step knows the frame under way and   *)
(* what it has read of it; what it has handed on and what it holds are the *)
(* data up to there (webSocketsDecodeHybi).                                *)
THEOREM WsInvariantHolds == Spec => []WsInvariant
  <1>1. Init => WsInvariant
    BY Initially
  <1>2. WsInvariant /\ [Next]_vars => WsInvariant'
    BY StepKept
  <1> QED
    BY <1>1, <1>2, PTL DEF Spec

(* The RFB protocol reads what the data frames carry, in order             *)
(* (hybiReturnData).                                                       *)
THEOREM DataStaysInOrder == Spec => []DataInOrder
  <1>1. WsInvariant => DataInOrder
    BY DEF WsInvariant, InOrder, DataInOrder
  <1> QED
    BY <1>1, WsInvariantHolds, PTL

(* Every variable keeps its range, carryBuf and codeBufDecode are not      *)
(* overrun, and nothing is read beyond a frame (hybiReadAndDecode).        *)
THEOREM DecoderTyped == Spec => []TypeOK
  <1>1. ASSUME WsInvariant
        PROVE  TypeOK
    <2>1. Types
      BY <1>1 DEF WsInvariant
    <2>2. /\ ctx.state \in {"header", "extended", "needed", "available"} /\ ctx.nRead \in 0 .. Extended
          /\ script \in Scripts /\ frame \in 1 .. Len(Frames) + 1 /\ ctx \in CtxType
      BY <2>1 DEF Types, CtxType
    <2>3. CASE Blank(ctx)
      <3>1. Len(<<>>) = 0 /\ 0 + 0 < BufLen
        BY WsAssumption DEF Extended
      <3> QED
        BY <2>1, <2>2, <2>3, <3>1 DEF Types, TypeOK, Blank
    <2>4. CASE ~Blank(ctx)
      <3>1. Live
        BY <2>1, <2>4 DEF Types, Blank, CleanupComplete, Cleared
      <3>2. PayloadOK(ctx, frame, at)
        BY <1>1, <2>2, <2>4, <3>1 DEF WsInvariant, InDecoder, Decoder, HeaderOK, ExtendedOK
      <3>3. frame <= Len(Frames) /\ Carrying(ctx, frame)
        BY <3>2 DEF PayloadOK
      <3>4. ~Ended
        BY <2>2, <3>3, FrameTypes DEF Ended
      <3> QED
        BY <2>1, <2>2, <3>3, <3>4 DEF Types, TypeOK, Carrying, Here
    <2> QED
      BY <2>3, <2>4
  <1> QED
    BY <1>1, WsInvariantHolds, PTL

(* While the server sleeps in select, the decoder holds nothing back of    *)
(* the frames it has read through (webSocketsHasDataInBuffer).             *)
THEOREM NothingHeldBack == Spec => []NoStall
  <1>1. ASSUME WsInvariant
        PROVE  NoStall
    <2> SUFFICES ASSUME sync, WholeText, phase = "select",
                        NEW n, n = IF ~Ended /\ at = HeaderLen(Here) + Here.len THEN frame ELSE frame - 1
                 PROVE  Len(out) >= Len(Flat(n))
      BY DEF NoStall, Flat
    <2>1. /\ script \in Scripts /\ frame \in 1 .. Len(Frames) + 1 /\ ctx \in CtxType /\ out \in Seq(Pairs)
          /\ Decoder(ctx, frame, at) /\ ctx.data = <<>> /\ Order(ctx, frame, out)
      BY <1>1 DEF WsInvariant, Types, InDecoder, InOrder, Live
    <2> DEFINE h == HeaderLen(Here)
               l == Here.len
    <2>2. ~Ended => frame \in 1 .. Len(Frames) /\ l \in Nat /\ h \in Nat
      BY <2>1, FrameTypes, HeaderLength DEF Ended, Here, Frame
    <2>3. CASE ctx.state \in {"header", "extended"}
      <3>1. Blank(ctx)
        BY <2>1, <2>3 DEF Decoder, HeaderOK, ExtendedOK
      <3>2. out = Flat(frame - 1)
        BY <2>1, <3>1, BlankIs, EmptyOrder
      <3>3. n = frame - 1
        <4> SUFFICES ASSUME ~Ended, at = h + l PROVE FALSE
          OBVIOUS
        <4>1. at < h
          <5>1. CASE ctx.state = "header"
            BY <2>1, <2>2, <5>1, FrameTypes DEF Decoder, HeaderOK, Here
          <5>2. CASE ctx.state = "extended"
            BY <2>1, <5>2 DEF Decoder, ExtendedOK, HeaderLen, Here, Short, Extended
          <5> QED
            BY <2>3, <5>1, <5>2
        <4> HIDE DEF h, l
        <4> QED
          BY <2>2, <4>1
      <3>4. Len(out) \in Nat
        BY <2>1
      <3> QED
        BY <3>2, <3>3, <3>4
    <2>4. CASE ctx.state \in {"needed", "available"}
      <3> DEFINE g == ctx.got
                 m == DecodedLen(ctx)
      <3>1. /\ frame \in 1 .. Len(Frames) /\ at = h + g /\ g \in Nat
            /\ Identified(ctx, frame) /\ Carrying(ctx, frame) /\ l \in Nat /\ h \in Nat /\ ~Ended
        BY <2>1, <2>4, FrameTypes, HeaderLength DEF Decoder, PayloadOK, Here, CtxType, Ended, Frame
      <3>2. m \in Nat /\ frame \in Nat
        BY <2>1, <3>1, DecodedLenIs, DataIs, FrameTypes
      <3>3. Bytes(frame, m) \in Seq(Pairs) /\ Flat(frame - 1) \in Seq(Pairs)
        BY <2>1, <3>2, BytesAre, FlatIn
      <3> HIDE DEF m
      <3>4. out = Cat(Flat(frame - 1), Bytes(frame, m))
        BY <2>1, <3>3, CatFacts DEF Order, m
      <3>5. CASE g = l
        <4>1. n = frame
          BY <3>1, <3>5
        <4>2. out = Flat(frame)
          BY <2>1, <3>1, <3>4, <3>5, FrameDoneOrder DEF m
        <4>3. Len(out) \in Nat
          BY <2>1
        <4> QED
          BY <4>1, <4>2, <4>3
      <3>6. CASE g # l
        <4>1. n = frame - 1
          <5> HIDE DEF h, l, g
          <5>1. at # h + l
            BY <3>1, <3>6
          <5> QED
            BY <5>1 DEF h, l
        <4> DEFINE f == Flat(frame - 1)
                   b == Bytes(frame, m)
        <4> HIDE DEF f, b
        <4>2. f \in Seq(Pairs) /\ b \in Seq(Pairs) /\ out = Cat(f, b)
          BY <3>3, <3>4 DEF f, b
        <4>3. Len(out) = Len(f) + Len(b) /\ Len(f) \in Nat /\ Len(b) \in Nat
          BY <4>2, CatElements
        <4> QED
          BY <4>1, <4>3 DEF f
      <3> QED
        BY <3>5, <3>6
    <2> QED
      BY <2>1, <2>3, <2>4 DEF CtxType
  <1> QED
    BY <1>1, WsInvariantHolds, PTL

(*----------------- A viewer that keeps to the protocol --------------------*)

(* A decoder that knows of no message to go on with is not within one.     *)
Settled(c, i) ==
    c.cont = "invalid" /\ i <= Len(Frames) =>
        ~Fragmented(i) \/ ((c.state # "header" \/ c.nRead >= 2) /\ Frames[i].op \in Data)

ClosedWell(w, o) == w = "close" => \E i \in DOMAIN Frames : Frames[i].op = "close" /\ o = Flat(i - 1)

Exact ==
    /\ sync /\ why \notin {"protocol", "header"} /\ ClosedWell(why, out)
    /\ ctx.state = "header" => ctx.nRead < Short
    /\ phase # "closed" => Settled(ctx, frame)

ExactNext ==
    /\ sync' /\ why' \notin {"protocol", "header"} /\ ClosedWell(why', out')
    /\ ctx'.state = "header" => ctx'.nRead < Short
    /\ phase' # "closed" => Settled(ctx', frame')

ExactInv == Conforming /\ Smooth => Exact

(* Nor does what the viewer keeps to.                                      *)
LEMMA SameViewer ==
  ASSUME script' = script
  PROVE  (Conforming' <=> Conforming) /\ (Smooth' <=> Smooth) /\ (Exact' <=> ExactNext)
  <1>1. Frames' = Frames
    BY DEF Frames
  <1>2. WholeText' <=> WholeText
    BY SamePeer
  <1>3. Conforming' <=> Conforming
    BY <1>1, <1>2 DEF Conforming, Fragmented
  <1>4. Smooth' <=> Smooth
    BY DEF Smooth
  <1>5. Exact' <=> ExactNext
    BY <1>1 DEF Exact, ExactNext, ClosedWell, Settled, Fragmented, Flat, DataOf, DataLen, Opcode
  <1> QED
    BY <1>3, <1>4, <1>5

(* A frame of a viewer that keeps to the protocol.                         *)
LEMMA FrameConforms ==
  ASSUME Conforming, script \in Scripts, NEW i \in 1 .. Len(Frames)
  PROVE  /\ Frames[i].masked /\ (Frames[i].op \in Control => Frames[i].fin) /\ ~BadLength(Frames[i])
         /\ Frames[i].op = "continuation" <=> Frames[i].op \notin Control /\ Fragmented(i)
  <1>1. i \in DOMAIN Frames
    BY FrameTypes
  <1>2. Frames[i].long <=> Frames[i].len >= LongLen
    BY <1>1 DEF Conforming
  <1>3. Frames[i].len \in Nat /\ LongLen \in Nat
    BY FrameTypes, WsAssumption DEF Frame
  <1> QED
    BY <1>1, <1>2, <1>3 DEF Conforming, BadLength

(* The steps of a connection that goes well.                               *)
LEMMA ClosedExact ==
  ASSUME Exact, NEW r, Close(r), r \notin {"protocol", "header"}, ClosedWell(r, out)
  PROVE  ExactNext
  BY DEF Exact, ExactNext, Close, CleanupComplete, Cleared, Short

LEMMA HeaderExact ==
  ASSUME Exact, Conforming, script \in Scripts, frame \in 1 .. Len(Frames), NEW c, HeaderStep(c, Here),
         c.state = "header" => c.nRead < Short, Settled(c, frame), frame' = frame
  PROVE  ExactNext
  <1>1. ~BadLength(Here)
    BY FrameConforms DEF Here
  <1>2. ctx' = c /\ sync' = sync /\ why' = why /\ out' = out
    BY <1>1 DEF HeaderStep
  <1> QED
    BY <1>2 DEF Exact, ExactNext

LEMMA ReadHeaderExact ==
  ASSUME WsInvariant, Conforming, Smooth, Exact, ReadHeader
  PROVE  ExactNext
  <1>1. Reading /\ ctx.state = "header" /\ ctx.nRead < Short
    BY DEF ReadHeader
  <1>2. ctx.nRead \in Nat /\ Short - ctx.nRead \in Nat
    BY <1>1, HeaderBytes
  <1> DEFINE c(k) == [ctx EXCEPT !.nRead = @ + k]
  <1>3. PICK k \in ReadSome(Short - ctx.nRead) :
            /\ at' = at + k /\ frame' = frame
            /\ IF c(k).nRead < 2 THEN HeaderStep(c(k), Here)
               ELSE IF Rejected(c(k), Here) THEN Close("protocol")
               ELSE IF Here.long THEN HeaderStep([Continued(c(k), Here) EXCEPT !.state = "extended"], Here)
               ELSE HeaderStep(HeaderRead(Continued(c(k), Here), Here), Here)
    BY DEF ReadHeader
  <1>4. /\ script \in Scripts /\ Live /\ phase = "read" /\ ctx \in CtxType
        /\ frame \in 1 .. Len(Frames) /\ k \in 1 .. Short - ctx.nRead /\ frame <= Len(Frames)
    BY <1>1, <1>2, <1>3, ReadFacts, FrameTypes
  <1> DEFINE e == c(k)
             p == ctx.nRead + k
             f == Here
  <1>5. e = [ctx EXCEPT !.nRead = p] /\ p \in 1 .. Short /\ p \in Nat /\ p \in 0 .. Extended
    <2>1. e = [ctx EXCEPT !.nRead = p]
      OBVIOUS
    <2> DEFINE r == ctx.nRead
    <2>2. r \in Nat /\ k \in 1 .. Short - r
      BY <1>2, <1>4
    <2> HIDE DEF e, r
    <2>3. r + k \in 1 .. Short /\ r + k \in Nat /\ r + k \in 0 .. Extended
      BY <2>2 DEF Short, Extended
    <2> QED
      BY <2>1, <2>3 DEF r
  <1>6. e \in CtxType /\ e.nRead = p /\ e.state = "header" /\ e.cont = ctx.cont
    <2> HIDE DEF e, p
    <2> QED
      BY <1>1, <1>4, <1>5 DEF CtxType
  <1>7. IF p < 2 THEN HeaderStep(e, f)
        ELSE IF Rejected(e, f) THEN Close("protocol")
        ELSE IF f.long THEN HeaderStep([Continued(e, f) EXCEPT !.state = "extended"], f)
        ELSE HeaderStep(HeaderRead(Continued(e, f), f), f)
    BY <1>3, <1>6
  <1>8. /\ f.masked /\ (f.op \in Control => f.fin) /\ f = Frames[frame] /\ f \in Frame
        /\ f.op = "continuation" => f.op \notin Control /\ Fragmented(frame)
    BY <1>4, FrameConforms, FrameTypes DEF Here
  <1>9. Settled(ctx, frame)
    BY <1>4 DEF Exact
  <1>10. ~Rejected(e, f)
    BY <1>4, <1>6, <1>8, <1>9 DEF Rejected, Settled, Data
  <1>11. ctx.nRead < 2 => p >= 2 \/ p < 2
    BY <1>5
  <1>12. p >= ctx.nRead
    BY <1>2, <1>4
  <1> HIDE DEF e, p, c, f
  <1>13. CASE p < 2
    <2>1. ctx.nRead < 2
      BY <1>2, <1>5, <1>12, <1>13
    <2>2. Settled(e, frame)
      BY <1>1, <1>2, <1>6, <1>9, <2>1 DEF Settled
    <2>3. HeaderStep(e, f) /\ e.nRead < Short
      BY <1>5, <1>6, <1>7, <1>13 DEF Short
    <2> QED
      BY <1>3, <1>4, <2>2, <2>3, HeaderExact DEF f
  <1>14. CASE p >= 2
    <2> DEFINE d == Continued(e, f)
    <2>1. /\ d.nRead = p /\ d.cont = IF f.op \in Control \cup {"continuation"} THEN e.cont
                                      ELSE IF f.fin THEN "invalid" ELSE f.op
      BY <1>6 DEF Continued, CtxType
    <2>2. d.cont = "invalid" => ~Fragmented(frame) \/ f.op \in Data
      <3>1. f.op \in Data \cup Control \cup {"continuation"}
        BY <1>8 DEF Frame, Opcodes, Data, Control
      <3>2. CASE f.op \in Control
        <4>1. d.cont = "invalid" => ctx.cont = "invalid"
          BY <1>6, <2>1, <3>2
        <4>2. f.op \notin Data
          BY <3>2 DEF Data, Control
        <4> HIDE DEF d
        <4> QED
          BY <1>4, <1>8, <1>9, <4>1, <4>2 DEF Settled
      <3>3. CASE f.op = "continuation"
        BY <1>10, <2>1, <3>3 DEF Rejected
      <3> QED
        BY <3>1, <3>2, <3>3
    <2>3. /\ f.long => HeaderStep([d EXCEPT !.state = "extended"], f)
          /\ ~f.long => HeaderStep(HeaderRead(d, f), f)
      BY <1>5, <1>7, <1>10, <1>14
    <2>4. DOMAIN d = DOMAIN ctx
      BY <1>5 DEF Continued
    <2>5. \A r : DOMAIN r = DOMAIN d /\ r.cont = d.cont /\ r.nRead = d.nRead => Settled(r, frame)
      BY <1>8, <1>14, <2>1, <2>2 DEF Settled
    <2>6. CASE f.long
      <3> DEFINE x == [d EXCEPT !.state = "extended"]
      <3>1. DOMAIN x = DOMAIN d /\ x.state = "extended" /\ x.cont = d.cont /\ x.nRead = d.nRead
        BY <1>4, <2>4 DEF CtxType
      <3>2. HeaderStep(x, f)
        BY <2>3, <2>6
      <3> HIDE DEF x, d
      <3>3. Settled(x, frame)
        BY <2>5, <3>1
      <3> QED
        BY <1>3, <1>4, <3>1, <3>2, <3>3, HeaderExact DEF f
    <2>7. CASE ~f.long
      <3> DEFINE x == HeaderRead(d, f)
      <3>1. /\ DOMAIN x = DOMAIN d /\ x.cont = d.cont /\ x.nRead = d.nRead
            /\ x.state = "header" => d.nRead < HeaderLen(f)
        BY <1>4, <2>4 DEF CtxType, HeaderRead
      <3>2. HeaderStep(x, f)
        BY <2>3, <2>7
      <3>3. HeaderLen(f) = Short
        BY <2>7 DEF HeaderLen
      <3> HIDE DEF x, d
      <3>4. Settled(x, frame) /\ (x.state = "header" => x.nRead < Short)
        BY <2>5, <3>1, <3>3
      <3> QED
        BY <1>3, <1>4, <3>2, <3>4, HeaderExact DEF f
    <2> QED
      BY <2>6, <2>7
  <1> QED
    BY <1>5, <1>13, <1>14

LEMMA ReadExtendedExact ==
  ASSUME WsInvariant, Conforming, Smooth, Exact, ReadExtended
  PROVE  ExactNext
  <1>1. Reading /\ ctx.state = "extended"
    BY DEF ReadExtended
  <1>2. ctx.nRead \in Nat /\ Extended - ctx.nRead \in Nat
    BY <1>1, HeaderBytes
  <1> DEFINE c(k) == [ctx EXCEPT !.nRead = @ + k]
             f == Here
  <1>3. PICK k \in ReadSome(Extended - ctx.nRead) :
            at' = at + k /\ frame' = frame /\ HeaderStep(HeaderRead(c(k), f), f)
    BY DEF ReadExtended
  <1>4. /\ script \in Scripts /\ Live /\ phase = "read" /\ ctx \in CtxType /\ ExtendedOK(ctx, frame, at)
        /\ frame \in 1 .. Len(Frames) /\ k \in 1 .. Extended - ctx.nRead /\ at \in Nat
    BY <1>1, <1>2, <1>3, ReadFacts DEF Decoder
  <1> DEFINE p == at + k
             e == c(k)
  <1>5. p \in 3 .. Extended /\ ctx.nRead = at /\ p \in 0 .. Extended
    BY <1>4 DEF ExtendedOK, Extended
  <1>6. f.long /\ HeaderLen(f) = Extended
    BY <1>4 DEF ExtendedOK, HeaderLen, Here
  <1>7. p = Extended \/ p < Short
    <2>1. k = Extended - at \/ PlaceAt(p) \in script.splits
      BY <1>3, <1>5 DEF ReadSome
    <2>2. PlaceAt(p) \in script.splits => PlaceAt(p) # "extended"
      BY DEF Smooth
    <2>3. p < Extended /\ PlaceAt(p) # "extended" => p < Short
      BY <1>5, <1>6 DEF PlaceAt, Extended, Short
    <2>4. k = Extended - at => p = Extended
      BY <1>4 DEF Extended
    <2>5. p = Extended \/ p < Extended
      BY <1>5 DEF Extended
    <2> HIDE DEF p
    <2> QED
      BY <2>1, <2>2, <2>3, <2>4, <2>5
  <1>8. e \in CtxType /\ e.nRead = p /\ e.cont = ctx.cont
    <2>1. e = [ctx EXCEPT !.nRead = p]
      BY <1>5
    <2> HIDE DEF e, p
    <2> QED
      BY <1>4, <1>5, <2>1 DEF CtxType
  <1> HIDE DEF e, p, c
  <1> DEFINE x == HeaderRead(e, f)
  <1>9. x.cont = ctx.cont /\ x.nRead = p /\ (x.state = "header" => p < Extended)
    BY <1>6, <1>8 DEF HeaderRead, CtxType
  <1>10. HeaderStep(x, f)
    BY <1>3 DEF e
  <1> HIDE DEF x
  <1>11. x.state = "header" => x.nRead < Short
    BY <1>5, <1>7, <1>9 DEF Extended
  <1>12. Settled(x, frame)
    <2>1. Settled(ctx, frame)
      BY <1>4 DEF Exact
    <2>2. x.nRead >= 2
      BY <1>5, <1>9
    <2> QED
      BY <1>1, <1>9, <2>1, <2>2 DEF Settled
  <1> QED
    BY <1>3, <1>4, <1>10, <1>11, <1>12, HeaderExact DEF f

(* A frame that is through leaves the decoder knowing of the message that  *)
(* goes on.                                                                *)
LEMMA ReturnDataExact ==
  ASSUME script \in Scripts, frame \in 1 .. Len(Frames), Exact, why = "open", NEW c, c \in CtxType,
         Identified(c, frame), Settled(c, frame), c.state # "header", ReturnData(c)
  PROVE  ExactNext
  <1> DEFINE give == Min({Asked[1], Len(c.data)})
             rest == SubSeq(c.data, give + 1, Len(c.data))
             left == [c EXCEPT !.data = rest]
             over == left.data = <<>> /\ Remaining(c) = 0
             next == IF over THEN FrameDone(c)
                     ELSE [left EXCEPT !.state = IF left.data = <<>> THEN "needed" ELSE "available"]
  <1>1. /\ ctx' = next /\ sync' = sync /\ why' = why
        /\ IF over THEN frame' = frame + 1 /\ at' = 0 ELSE frame' = frame /\ at' = HeaderLen(Here) + c.got
    BY DEF ReturnData
  <1>2. frame \in Nat /\ frame <= Len(Frames) /\ Frames[frame] \in Frame
    BY FrameTypes
  <1> HIDE DEF rest
  <1>3. CASE over
    <2>1. ctx' = FrameDone(c) /\ frame' = frame + 1
      BY <1>1, <1>3
    <2>2. ctx'.nRead = 0
      BY <2>1 DEF FrameDone, CleanupComplete, CleanupForContinuation, Cleared
    <2>3. ctx'.cont = "invalid" => ~Fragmented(frame + 1)
      <3>0. c.opcode \in Control <=> Frames[frame].op \in Control
        BY IdentifiedOpcode
      <3>1. CASE Here.fin /\ c.opcode \notin Control
        <4>1. ~Fragmented(frame + 1)
          BY <3>0, <3>1, FragmentedNext DEF Here
        <4> QED
          BY <4>1
      <3>2. CASE ~(Here.fin /\ c.opcode \notin Control)
        <4> SUFFICES ASSUME ctx'.cont = "invalid" PROVE ~Fragmented(frame + 1)
          OBVIOUS
        <4>1. c.cont = "invalid"
          BY <2>1, <3>2 DEF FrameDone, CleanupForContinuation, Cleared
        <4>2. Frames[frame].op \in Control
          <5> SUFFICES ASSUME Frames[frame].op \notin Control PROVE FALSE
            OBVIOUS
          <5>1. ~Frames[frame].fin
            BY <3>0, <3>2 DEF Here
          <5>2. Frames[frame].op \in Data \/ Frames[frame].op = "continuation"
            BY <1>2 DEF Frame, Opcodes, Data, Control
          <5> QED
            BY <4>1, <5>1, <5>2 DEF Identified, Rejected, Data
        <4>3. ~Fragmented(frame)
          BY <1>2, <4>1, <4>2 DEF Settled, Data, Control
        <4> QED
          BY <4>2, <4>3, FragmentedNext
      <3> QED
        BY <3>1, <3>2
    <2>4. Settled(ctx', frame')
      BY <2>1, <2>3 DEF Settled
    <2> QED
      BY <1>1, <2>2, <2>4 DEF Exact, ExactNext, ClosedWell, Short
  <1>4. CASE ~over
    <2> DEFINE st == IF left.data = <<>> THEN "needed" ELSE "available"
               d == [left EXCEPT !.state = st]
    <2>1. ctx' = d /\ frame' = frame
      BY <1>1, <1>4
    <2>2. d.cont = c.cont /\ d.state = st
      BY DEF CtxType
    <2>3. ctx'.cont = c.cont /\ ctx'.state # "header"
      BY <2>1, <2>2
    <2> HIDE DEF d
    <2>4. Settled(ctx', frame')
      BY <2>1, <2>3 DEF Settled
    <2> QED
      BY <1>1, <2>3, <2>4 DEF Exact, ExactNext, ClosedWell
  <1> QED
    BY <1>3, <1>4

LEMMA ReadAndDecodeExact ==
  ASSUME WsInvariant, Conforming, Smooth, Exact, ReadAndDecode
  PROVE  ExactNext
  <1>1. Reading /\ ctx.state = "needed"
    BY DEF ReadAndDecode
  <1>2. /\ script \in Scripts /\ Live /\ why = "open" /\ ctx \in CtxType /\ PayloadOK(ctx, frame, at)
        /\ frame \in 1 .. Len(Frames) + 1 /\ out \in Seq(Pairs) /\ phase = "read"
    BY <1>1 DEF WsInvariant, Types, InDecoder, Live, Reading, Decoder
  <1>3. frame \in 1 .. Len(Frames) /\ Identified(ctx, frame) /\ ctx.data = <<>> /\ Settled(ctx, frame)
    BY <1>1, <1>2, FrameTypes DEF PayloadOK, Exact
  <1>4. PICK n \in (IF ToRead(ctx) = 0 THEN {0} ELSE ReadSome(ToRead(ctx))) :
                 IF ctx.opcode = "close" /\ Remaining(ctx) = n
                 THEN Close("close") /\ frame' = frame + 1 /\ at' = 0
                 ELSE ReturnData(Decoded(ctx, n))
    BY DEF ReadAndDecode
  <1>5. CASE ctx.opcode = "close" /\ Remaining(ctx) = n
    <2>1. Close("close")
      BY <1>4, <1>5
    <2>2. Frames[frame].op = "close" /\ frame \in DOMAIN Frames
      BY <1>2, <1>3, <1>5, IdentifiedOpcode, FrameTypes DEF Control
    <2>3. Order(ctx, frame, out)
      BY <1>2 DEF WsInvariant, InOrder, Conforming
    <2>4. NothingDecoded(ctx)
      BY <1>3, <1>5 DEF NothingDecoded, DecodedLen
    <2>5. out = Flat(frame - 1)
      BY <1>2, <2>3, <2>4, EmptyOrder
    <2>6. ClosedWell("close", out)
      BY <2>2, <2>5 DEF ClosedWell
    <2> QED
      BY <2>1, <2>6, ClosedExact
  <1>6. CASE ~(ctx.opcode = "close" /\ Remaining(ctx) = n)
    <2> DEFINE d == Decoded(ctx, n)
    <2>1. ReturnData(d)
      BY <1>4, <1>6
    <2>2. Readable(ctx, frame, n) /\ Carrying(ctx, frame)
      BY <1>1, <1>2, <1>4, ReadableBytes DEF PayloadOK
    <2>3. d \in CtxType /\ Identified(d, frame) /\ d.cont = ctx.cont /\ d.state = ctx.state
      BY <1>2, <1>3, <2>2, DecodedOK
    <2> HIDE DEF d
    <2>4. Settled(d, frame) /\ d.state # "header"
      BY <1>1, <1>3, <2>3 DEF Settled
    <2> QED
      BY <1>2, <1>3, <2>1, <2>3, <2>4, ReturnDataExact
  <1> QED
    BY <1>5, <1>6

LEMMA ReturnMoreExact ==
  ASSUME WsInvariant, Exact, ReturnMore
  PROVE  ExactNext
  <1>1. Reading /\ ctx.state = "available" /\ ReturnData(ctx)
    BY DEF ReturnMore
  <1>2. /\ script \in Scripts /\ why = "open" /\ ctx \in CtxType /\ PayloadOK(ctx, frame, at)
        /\ frame \in 1 .. Len(Frames) + 1 /\ phase = "read"
    BY <1>1 DEF WsInvariant, Types, InDecoder, Live, Reading, Decoder
  <1>3. frame \in 1 .. Len(Frames) /\ Identified(ctx, frame) /\ Settled(ctx, frame)
    BY <1>2, FrameTypes DEF PayloadOK, Exact
  <1> QED
    BY <1>1, <1>2, <1>3, ReturnDataExact

(* On a smooth network nothing is missing but between two messages, and    *)
(* there nothing is forgotten.                                             *)
LEMMA FoundEmptyExact ==
  ASSUME WsInvariant, Smooth, Exact, FoundEmpty
  PROVE  ExactNext
  <1>1. /\ phase = "read" /\ sync /\ ctx' = CleanupComplete /\ sync' = (at = 0) /\ Empty
        /\ phase' = phase /\ why' = why /\ frame' = frame /\ out' = out
    BY DEF FoundEmpty, Reading
  <1>2. script \in Scripts /\ Decoder(ctx, frame, at) /\ frame \in 1 .. Len(Frames) + 1 /\ ctx \in CtxType
        /\ at \in Nat
    BY <1>1 DEF WsInvariant, Types, InDecoder, Live
  <1>5. CleanupComplete.nRead < Short
    BY DEF CleanupComplete, Cleared, Short
  <1>6. at = 0 => sync'
    <2> SUFFICES ASSUME at = 0 PROVE sync' = TRUE
      OBVIOUS
    <2> QED
      BY <1>1
  <1>3. CASE Ended
    <2>1. frame > Len(Frames)
      BY <1>3 DEF Ended
    <2>2. ~(frame <= Len(Frames))
      BY <1>2, <2>1, FrameTypes
    <2>3. ctx.state = "header"
      BY <1>2, <2>2 DEF Decoder, ExtendedOK, PayloadOK, CtxType
    <2>4. at = 0
      BY <1>2, <2>1, <2>3 DEF Decoder, HeaderOK
    <2>5. Settled(CleanupComplete, frame)
      BY <2>2 DEF Settled
    <2> QED
      BY <1>1, <1>5, <1>6, <2>4, <2>5 DEF Exact, ExactNext
  <1>4. CASE ~Ended
    <2>1. Place = "message"
      BY <1>1, <1>4 DEF Empty, Smooth
    <2>2. at = 0 /\ ~Fragmented(frame)
      BY <1>4, <2>1 DEF Place, PlaceAt
    <2>3. Settled(CleanupComplete, frame)
      BY <2>2 DEF Settled
    <2> QED
      BY <1>1, <1>5, <1>6, <2>2, <2>3 DEF Exact, ExactNext
  <1> QED
    BY <1>3, <1>4

(* Every step keeps to it.                                                 *)
LEMMA ExactKept == WsInvariant /\ ExactInv /\ [Next]_vars => ExactInv'
  <1> SUFFICES ASSUME WsInvariant, ExactInv, [Next]_vars PROVE ExactInv'
    OBVIOUS
  <1>1. script' = script
    BY DEF Next, vars, Check, Wake, PeerCloses, TimedOut, FoundEmpty, ReadHeader, ReadExtended, ReadNothing,
           ReadAndDecode, ReturnMore, ReturnData, Astray, HeaderStep, Close, peer
  <1> SUFFICES ASSUME Conforming, Smooth, Exact PROVE ExactNext
    BY <1>1, SameViewer DEF ExactInv
  <1>3. CASE UNCHANGED vars
    BY <1>3 DEF vars, Exact, ExactNext
  <1>4. CASE Check
    <2>1. /\ ctx' = ctx /\ sync' = sync /\ out' = out /\ frame' = frame /\ (why' = why \/ why' = "refused")
          /\ phase # "closed"
      BY <1>4 DEF Check
    <2> QED
      BY <2>1 DEF Exact, ExactNext, ClosedWell
  <1>5. CASE Wake
    BY <1>5 DEF Wake, Exact, ExactNext
  <1>6. CASE PeerCloses
    BY <1>6, ClosedExact DEF PeerCloses, ClosedWell
  <1>7. CASE TimedOut
    BY <1>7, ClosedExact DEF TimedOut, ClosedWell
  <1>8. CASE FoundEmpty
    BY <1>8, FoundEmptyExact
  <1>9. CASE ReadHeader
    BY <1>9, ReadHeaderExact
  <1>10. CASE ReadExtended
    BY <1>10, ReadExtendedExact
  <1>11. CASE ReadNothing
    <2>1. ctx.nRead \in Nat
      BY HeaderBytes
    <2> QED
      BY <1>11, <2>1 DEF ReadNothing, Exact, Short
  <1>12. CASE ReadAndDecode
    BY <1>12, ReadAndDecodeExact
  <1>13. CASE ReturnMore
    BY <1>13, ReturnMoreExact
  <1>14. CASE Astray
    BY <1>14 DEF Astray, Exact
  <1> QED
    BY <1>3, <1>4, <1>5, <1>6, <1>7, <1>8, <1>9, <1>10, <1>11, <1>12, <1>13, <1>14 DEF Next

(* On a smooth network a viewer that keeps to the protocol is never thrown *)
(* out (hybiReadHeader, hybiDecodeCleanup).                                *)
THEOREM ConformingNeverRefused == Spec => []ConformingAccepted
  <1>1. ASSUME Init
        PROVE  ExactInv
    <2>1. ~Fragmented(1)
      BY DEF Fragmented
    <2> QED
      BY <1>1, <2>1 DEF Init, ExactInv, Exact, ClosedWell, Settled, CleanupComplete, Cleared, Short
  <1>2. WsInvariant /\ ExactInv /\ [Next]_vars => ExactInv'
    BY ExactKept
  <1>3. ExactInv => ConformingAccepted
    BY DEF ExactInv, Exact, ConformingAccepted, ClosedWell, Flat
  <1> QED
    BY <1>1, <1>2, <1>3, WsInvariantHolds, PTL DEF Spec

==============================================================================
