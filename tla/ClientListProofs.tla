-------------------------- MODULE ClientListProofs --------------------------
\* Linking at the head and unlinking anywhere keep the list of clients well
\* formed, whoever does so: the lemmas ClientThreadsProofs and EventLoopProofs
\* share.
EXTENDS ClientList, Naturals, TLAPS

\* The list: next leads to clients that were linked earlier, so that there is no
\* cycle, not even one that does not hang from the head.
Ranked ==
    \E rank \in [Clients -> Nat] :
        \A c \in InList : next[c] # Null => rank[next[c]] < rank[c]

\* rfbNewTCPOrUDPClient links at the head of a well-formed list.
LEMMA LinkKeepsList ==
    ASSUME ListTypeOK, ListWellFormed, Ranked, NEW c \in Clients, LinkClient(c)
    PROVE  ListWellFormed' /\ Ranked'
<1>1. /\ c \notin InList /\ InList' = InList \cup {c}
      /\ clientHead' = c /\ next' = [next EXCEPT ![c] = clientHead]
      /\ \A d \in Clients : prev'[d] = IF d = c THEN Null
                                       ELSE IF d = clientHead THEN c ELSE prev[d]
  BY DEF LinkClient, InList, ListTypeOK
<1>2. ListWellFormed'
  BY <1>1, NullAssumption DEF ListWellFormed, ListTypeOK, InList
<1>3. Ranked'
  <2>1. PICK rank \in [Clients -> Nat] :
               \A d \in InList : next[d] # Null => rank[next[d]] < rank[d]
    BY DEF Ranked
  <2> DEFINE new == [rank EXCEPT ![c] = IF clientHead = Null THEN 0 ELSE rank[clientHead] + 1]
  <2>2. new \in [Clients -> Nat]
    BY DEF ListTypeOK
  <2>3. ASSUME NEW d \in InList', next'[d] # Null PROVE new[next'[d]] < new[d]
    <3>1. CASE d = c
      <4>1. next'[d] = clientHead /\ clientHead # Null /\ clientHead # c /\ clientHead \in Clients
        BY <1>1, <2>3, <3>1 DEF ListWellFormed, ListTypeOK, InList
      <4> QED BY <3>1, <4>1
    <3>2. CASE d # c
      <4>1. d \in InList /\ next'[d] = next[d] /\ next[d] # c /\ next[d] \in Clients
        BY <1>1, <2>3, <3>2 DEF ListWellFormed, ListTypeOK, InList
      <4> QED BY <2>1, <2>3, <3>2, <4>1 DEF InList
    <3> QED BY <3>1, <3>2
  <2> HIDE DEF new
  <2> QED BY <2>2, <2>3 DEF Ranked
<1> QED BY <1>2, <1>3

\* rfbClientConnectionGone unlinks from anywhere in a well-formed list.
LEMMA UnlinkKeepsList ==
    ASSUME ListWellFormed, Ranked, NEW c \in InList, InList' = InList \ {c},
           clientHead' = IF prev[c] = Null THEN next[c] ELSE clientHead,
           next' = [d \in Clients |-> IF d = prev[c] THEN next[c] ELSE next[d]],
           prev' = [d \in Clients |-> IF d = next[c] THEN prev[c] ELSE prev[d]]
    PROVE  ListWellFormed' /\ Ranked'
<1>1. /\ c \in InList /\ InList' = InList \ {c} /\ c \in Clients
      /\ clientHead' = IF prev[c] = Null THEN next[c] ELSE clientHead
      /\ \A d \in Clients : next'[d] = IF d = prev[c] THEN next[c] ELSE next[d]
      /\ \A d \in Clients : prev'[d] = IF d = next[c] THEN prev[c] ELSE prev[d]
  BY DEF InList
<1>2. PICK rank \in [Clients -> Nat] :
             \A d \in InList : next[d] # Null => rank[next[d]] < rank[d]
  BY DEF Ranked
<1>3. prev[c] # Null => /\ prev[c] \in InList /\ next[prev[c]] = c
                        /\ rank[c] < rank[prev[c]]
  BY <1>1, <1>2, NullAssumption DEF ListWellFormed, InList
<1>4. next[c] # Null => /\ next[c] \in InList /\ prev[next[c]] = c
                        /\ rank[next[c]] < rank[c]
  BY <1>1, <1>2 DEF ListWellFormed
<1>5. /\ prev[c] # c /\ next[c] # c
      /\ prev[c] # Null /\ next[c] # Null => prev[c] # next[c]
  BY <1>1, <1>3, <1>4, NullAssumption DEF InList
<1>6. clientHead' \in InList' \cup {Null}
  BY <1>1, <1>3, <1>4, <1>5 DEF ListWellFormed
<1>7. ASSUME NEW d \in InList'
      PROVE  /\ next'[d] \in InList' \cup {Null} /\ next'[d] # d
             /\ next'[d] # Null => prev'[next'[d]] = d /\ rank[next'[d]] < rank[d]
             /\ prev'[d] \in InList' \cup {Null}
             /\ prev'[d] # Null => next'[prev'[d]] = d
             /\ prev'[d] = Null <=> d = clientHead'
  <2>1. d \in InList /\ d # c /\ d \in Clients /\ d # Null
    BY <1>1, <1>7, NullAssumption DEF InList
  <2>2. /\ next[d] \in InList \cup {Null} /\ next[d] # d
        /\ prev[d] \in InList \cup {Null}
        /\ prev[d] = Null <=> d = clientHead
        /\ next[d] # Null => prev[next[d]] = d /\ rank[next[d]] < rank[d]
        /\ prev[d] # Null => next[prev[d]] = d
    BY <1>2, <2>1 DEF ListWellFormed
  <2>3. /\ next'[d] \in InList' \cup {Null} /\ next'[d] # d
        /\ next'[d] # Null => prev'[next'[d]] = d /\ rank[next'[d]] < rank[d]
    <3>1. CASE d = prev[c]
      <4>1. next'[d] = next[c] /\ next[d] = c
        BY <1>1, <1>3, <2>1, <3>1
      <4>2. next[c] # Null => prev'[next[c]] = prev[c]
        BY <1>1, <1>4 DEF InList
      <4>3. next[c] # Null => rank[next[c]] < rank[d]
        <5>1. rank[c] < rank[d]
          BY <1>3, <2>1, <3>1
        <5> QED BY <1>4, <5>1, <2>1 DEF InList
      <4> QED BY <1>1, <1>4, <1>5, <2>1, <3>1, <4>1, <4>2, <4>3
    <3>2. CASE d # prev[c]
      <4>1. next'[d] = next[d]
        BY <1>1, <2>1, <3>2
      <4>2. next[d] # c
        BY <1>1, <2>1, <2>2, <3>2, NullAssumption
      <4>3. next[d] # Null => next[d] # next[c] /\ prev'[next[d]] = d
        BY <1>1, <1>4, <2>1, <2>2 DEF InList
      <4> QED BY <1>1, <2>2, <4>1, <4>2, <4>3
    <3> QED BY <3>1, <3>2
  <2>4. /\ prev'[d] \in InList' \cup {Null}
        /\ prev'[d] # Null => next'[prev'[d]] = d
        /\ prev'[d] = Null <=> d = clientHead'
    <3>1. CASE d = next[c]
      <4>1. prev'[d] = prev[c] /\ prev[d] = c
        BY <1>1, <1>4, <2>1, <3>1
      <4>2. prev[c] # Null => next'[prev[c]] = d
        BY <1>1, <1>3, <3>1 DEF InList
      <4>3. d # clientHead
        BY <1>1, <2>2, <4>1, NullAssumption DEF InList
      <4> QED BY <1>1, <1>3, <1>5, <3>1, <4>1, <4>2, <4>3
    <3>2. CASE d # next[c]
      <4>1. prev'[d] = prev[d]
        BY <1>1, <2>1, <3>2
      <4>2. prev[d] # c
        BY <1>1, <2>1, <2>2, <3>2, NullAssumption
      <4>3. prev[d] # Null => prev[d] # prev[c] /\ next'[prev[d]] = d
        BY <1>1, <1>3, <2>1, <2>2 DEF InList
      <4>4. prev[c] = Null => clientHead = c
        BY <1>1 DEF ListWellFormed
      <4> QED BY <1>1, <2>1, <2>2, <3>2, <4>1, <4>2, <4>3, <4>4
    <3> QED BY <3>1, <3>2
  <2> QED BY <2>3, <2>4
<1>8. ListWellFormed'
  BY <1>6, <1>7 DEF ListWellFormed
<1>9. Ranked'
  BY <1>7 DEF Ranked
<1> QED BY <1>8, <1>9

\* The empty list of rfbGetScreen.
LEMMA EmptyListIsWellFormed ==
    ASSUME ListInit
    PROVE  ListWellFormed /\ Ranked
<1>1. InList = {} /\ clientHead = Null
  BY DEF ListInit, InList
<1>2. [c \in Clients |-> 0] \in [Clients -> Nat]
  OBVIOUS
<1> QED BY <1>1, <1>2 DEF ListWellFormed, Ranked
=============================================================================
