-------------------------- MODULE AgentLoopProofs --------------------------
(* Proofs about AgentLoop: nothing told as cancelled has begun, what a     *)
(* tool did is known, and a model is asked with whole transcripts.  The    *)
(* rows of store and msgs are rebuilt by a fold (FlattenSeq), whose result *)
(* is found row by row: if a length had no fold with the places its rows   *)
(* come from, the least such length would have one (Least, JoinsExists,    *)
(* FlattenLaid).  From there what is kept, moved, hidden and collapsed is  *)
(* a matter of sets of calls, and at the end of the order of the rows.     *)
EXTENDS AgentLoop, WellFoundedInduction, FiniteSetTheorems, SequenceTheorems, TLAPS

---------------------------------------------------------------------------
(* What FlattenSeq makes.                                                  *)

(* A set of numbers has a least one.                                       *)
LEMMA Least ==
    ASSUME NEW T \in SUBSET Nat, T # {}
    PROVE  \E m \in T : \A k \in T : m <= k
<1>1. PICK m \in T : \A k \in T : ~ (<<k, m>> \in OpToRel(<, Nat))
  BY WFMin, NatLessThanWellFounded
<1>2. \A k \in T : (k < m) => <<k, m>> \in OpToRel(<, Nat)
  BY DEF OpToRel
<1>3. \A k \in T : ~ (k < m)
  BY <1>1, <1>2, Zenon
<1> QED
  BY <1>3

(* f is what FlattenSeq chooses for n: the joins of the first elements.    *)
Joins(ss, f, n) == f = [i \in 1..n |-> IF i = 1 THEN ss[i] ELSE f[i - 1] \o ss[i]]

LEMMA JoinsExists ==
    ASSUME NEW ss, NEW n \in Nat
    PROVE  \E f : Joins(ss, f, n)
<1> DEFINE T == {m \in Nat : ~ \E f : Joins(ss, f, m)}
<1> SUFFICES ASSUME T # {} PROVE FALSE
  OBVIOUS
<1>1. PICK m \in T : \A k \in T : m <= k
  <2> HIDE DEF T
  <2>1. T \in SUBSET Nat
    BY DEF T
  <2> QED
    BY <2>1, Least
<1>2. CASE m = 0
  <2> DEFINE f == [i \in {} |-> 0]
  <2>1. 1..0 = {}
    OBVIOUS
  <2>2. Joins(ss, f, 0)
    BY <2>1 DEF Joins
  <2> QED
    BY <1>2, <2>2
<1>3. CASE m # 0
  <2>1. m - 1 \in Nat /\ m - 1 \notin T
    BY <1>1, <1>3
  <2>2. PICK g : Joins(ss, g, m - 1)
    BY <2>1
  <2> DEFINE f == [i \in 1..m |-> IF i < m THEN g[i]
                                  ELSE IF m = 1 THEN ss[m] ELSE g[m - 1] \o ss[m]]
  <2>3. \A i \in 1..(m - 1) : g[i] = IF i = 1 THEN ss[i] ELSE g[i - 1] \o ss[i]
    BY <2>2 DEF Joins
  <2>4. \A i \in 1..m : f[i] = IF i = 1 THEN ss[i] ELSE f[i - 1] \o ss[i]
    <3>1. TAKE i \in 1..m
    <3>2. CASE i = m
      BY <3>2, <1>1
    <3>3. CASE i < m
      BY <3>3, <2>3, <1>1
    <3> QED
      BY <3>2, <3>3, <1>1
  <2>5. f = [i \in 1..m |-> IF i = 1 THEN ss[i] ELSE f[i - 1] \o ss[i]]
    <3> HIDE DEF f
    <3>1. f = [i \in 1..m |-> f[i]]
      BY DEF f
    <3> QED
      BY <2>4, <3>1
  <2>6. Joins(ss, f, m)
    <3> HIDE DEF f
    <3> QED
    BY <2>5 DEF Joins
  <2> QED
    BY <2>6, <1>1
<1> QED
  BY <1>2, <1>3

LEMMA FlattenJoins ==
    ASSUME NEW ss, Len(ss) \in Nat \ {0}
    PROVE  \E f : Joins(ss, f, Len(ss)) /\ FlattenSeq(ss) = f[Len(ss)]
<1> DEFINE flatten == CHOOSE f : Joins(ss, f, Len(ss))
<1>1. Joins(ss, flatten, Len(ss))
  BY JoinsExists
<1>2. FlattenSeq(ss) = flatten[Len(ss)]
  BY DEF FlattenSeq, Joins
<1> QED
  BY <1>1, <1>2


(* How the elements of the flattened sequence g stem from those of ss:     *)
(* element p is the one at pl[p] of ss[row[p]], in order, and all are there. *)
Laid(ss, n, g, row, pl) ==
    /\ row \in [1..Len(g) -> 1..n] /\ pl \in [1..Len(g) -> Nat]
    /\ \A p \in 1..Len(g) : pl[p] \in 1..Len(ss[row[p]]) /\ g[p] = ss[row[p]][pl[p]]
    /\ \A p, q \in 1..Len(g) :
          p < q => row[p] < row[q] \/ (row[p] = row[q] /\ pl[p] < pl[q])
    /\ \A i \in 1..n : \A k \in 1..Len(ss[i]) :
          \E p \in 1..Len(g) : row[p] = i /\ pl[p] = k

LEMMA LaidOne ==
    ASSUME NEW S, NEW ss \in Seq(Seq(S)), Len(ss) >= 1
    PROVE  \E row, pl : Laid(ss, 1, ss[1], row, pl)
<1> DEFINE row == [p \in 1..Len(ss[1]) |-> 1]
           pl  == [p \in 1..Len(ss[1]) |-> p]
<1>1. ss[1] \in Seq(S)
  OBVIOUS
<1>2. Laid(ss, 1, ss[1], row, pl)
  BY <1>1 DEF Laid
<1> QED
  BY <1>2

LEMMA LaidMore ==
    ASSUME NEW S, NEW ss \in Seq(Seq(S)), NEW n \in Nat \ {0}, n < Len(ss),
           NEW g \in Seq(S), NEW row, NEW pl, Laid(ss, n, g, row, pl)
    PROVE  \E row2, pl2 : Laid(ss, n + 1, g \o ss[n + 1], row2, pl2)
<1> DEFINE t == ss[n + 1]
           h == g \o t
           row2 == [p \in 1..Len(h) |-> IF p <= Len(g) THEN row[p] ELSE n + 1]
           pl2  == [p \in 1..Len(h) |-> IF p <= Len(g) THEN pl[p] ELSE p - Len(g)]
<1>1. t \in Seq(S)
  OBVIOUS
<1>2. /\ h \in Seq(S) /\ Len(h) = Len(g) + Len(t)
      /\ \A p \in 1..Len(h) : h[p] = IF p <= Len(g) THEN g[p] ELSE t[p - Len(g)]
  BY <1>1
<1>g. Len(g) \in Nat /\ Len(t) \in Nat
  BY <1>1
<1> HIDE DEF h
<1>3. row2 \in [1..Len(h) -> 1..(n + 1)]
  BY <1>2, <1>g DEF Laid
<1>4. pl2 \in [1..Len(h) -> Nat]
  BY <1>2, <1>g DEF Laid
<1>5. ASSUME NEW p \in 1..Len(h)
      PROVE  pl2[p] \in 1..Len(ss[row2[p]]) /\ h[p] = ss[row2[p]][pl2[p]]
  <2>1. CASE p <= Len(g)
    <3>1. p \in 1..Len(g)
      BY <1>g, <2>1
    <3>2. row2[p] = row[p] /\ pl2[p] = pl[p] /\ h[p] = g[p]
      BY <1>2, <2>1
    <3> QED
      BY <3>1, <3>2 DEF Laid
  <2>2. CASE ~(p <= Len(g))
    <3>1. row2[p] = n + 1 /\ pl2[p] = p - Len(g) /\ h[p] = t[p - Len(g)]
      BY <1>2, <2>2
    <3>2. p - Len(g) \in 1..Len(t)
      BY <1>2, <1>g, <2>2
    <3> QED
      BY <3>1, <3>2
  <2> QED
    BY <2>1, <2>2
<1>6. ASSUME NEW p \in 1..Len(h), NEW q \in 1..Len(h), p < q
      PROVE  row2[p] < row2[q] \/ (row2[p] = row2[q] /\ pl2[p] < pl2[q])
  <2>1. CASE q <= Len(g)
    <3>1. p \in 1..Len(g) /\ q \in 1..Len(g)
      BY <1>g, <1>6, <2>1
    <3> QED
      BY <1>6, <2>1, <3>1 DEF Laid
  <2>2. CASE p <= Len(g) /\ ~(q <= Len(g))
    <3>0. p \in 1..Len(g)
      BY <1>g, <2>2
    <3>1. row[p] \in 1..n
      BY <3>0 DEF Laid
    <3>2. row2[p] = row[p] /\ row2[q] = n + 1
      BY <2>2
    <3>3. row2[p] < row2[q]
      <4> HIDE DEF row2
      <4> QED
        BY <3>1, <3>2
    <3> HIDE DEF row2, pl2
    <3> QED
      BY <3>3
  <2>3. CASE ~(p <= Len(g)) /\ ~(q <= Len(g))
    BY <1>g, <1>6, <2>3
  <2> QED
    BY <1>6, <1>g, <2>1, <2>2, <2>3
<1>7. ASSUME NEW i \in 1..(n + 1), NEW k \in 1..Len(ss[i])
      PROVE  \E p \in 1..Len(h) : row2[p] = i /\ pl2[p] = k
  <2>1. CASE i <= n
    <3>1. PICK p \in 1..Len(g) : row[p] = i /\ pl[p] = k
      BY <2>1 DEF Laid
    <3>2. p \in 1..Len(h) /\ p <= Len(g)
      BY <1>2, <1>g
    <3> QED
      BY <3>1, <3>2
  <2>2. CASE i = n + 1
    <3>1. Len(g) + k \in 1..Len(h) /\ ~(Len(g) + k <= Len(g)) /\ (Len(g) + k) - Len(g) = k
      BY <1>2, <1>g, <2>2
    <3> QED
      BY <2>2, <3>1
  <2> QED
    BY <2>1, <2>2
<1>8. Laid(ss, n + 1, h, row2, pl2)
  <2> HIDE DEF row2, pl2
  <2> QED
    BY <1>3, <1>4, <1>5, <1>6, <1>7 DEF Laid
<1>9. Laid(ss, n + 1, g \o ss[n + 1], row2, pl2)
  <2> HIDE DEF row2, pl2
  <2> QED
    BY <1>8 DEF h
<1> QED
  BY <1>9

LEMMA FlattenLaid ==
    ASSUME NEW S, NEW ss \in Seq(Seq(S))
    PROVE  /\ FlattenSeq(ss) \in Seq(S)
           /\ \E row, pl : Laid(ss, Len(ss), FlattenSeq(ss), row, pl)
<1>1. CASE Len(ss) = 0
  <2>1. FlattenSeq(ss) = ss /\ ss = <<>>
    BY <1>1 DEF FlattenSeq
  <2> DEFINE none == [p \in {} |-> 0]
  <2>2. 1..0 = {} /\ Len(<<>>) = 0
    OBVIOUS
  <2>3. Laid(ss, 0, <<>>, none, none)
    BY <2>2 DEF Laid
  <2> QED
    BY <1>1, <2>1, <2>3
<1>2. CASE Len(ss) # 0
  <2>0. Len(ss) \in Nat \ {0}
    BY <1>2
  <2>1. PICK f : Joins(ss, f, Len(ss)) /\ FlattenSeq(ss) = f[Len(ss)]
    BY <2>0, FlattenJoins
  <2>2. \A i \in 1..Len(ss) : f[i] = IF i = 1 THEN ss[i] ELSE f[i - 1] \o ss[i]
    BY <2>1 DEF Joins
  <2> DEFINE Good(i) == f[i] \in Seq(S) /\ \E row, pl : Laid(ss, i, f[i], row, pl)
             T == {i \in 1..Len(ss) : ~Good(i)}
  <2>3. T = {}
    <3> SUFFICES ASSUME T # {} PROVE FALSE
      OBVIOUS
    <3>1. PICK m \in T : \A k \in T : m <= k
      <4> HIDE DEF T
      <4>1. T \in SUBSET Nat
        BY DEF T
      <4> QED
        BY <4>1, Least
    <3>2. m \in 1..Len(ss) /\ ~Good(m)
      OBVIOUS
    <3>3. m - 1 \in 1..Len(ss) => Good(m - 1)
      <4> SUFFICES ASSUME m - 1 \in 1..Len(ss), ~Good(m - 1) PROVE FALSE
        OBVIOUS
      <4>1. m - 1 \in T
        OBVIOUS
      <4> HIDE DEF T
      <4> QED
        BY <3>1, <3>2, <4>1
    <3> HIDE DEF T
    <3>4. CASE m = 1
      <4>1. f[1] = ss[1] /\ ss[1] \in Seq(S)
        BY <2>0, <2>2
      <4>2. \E row, pl : Laid(ss, 1, ss[1], row, pl)
        BY <2>0, LaidOne
      <4> QED
        BY <3>2, <3>4, <4>1, <4>2
    <3>5. CASE m # 1
      <4>1. m - 1 \in Nat \ {0} /\ m - 1 < Len(ss) /\ m - 1 \in 1..Len(ss) /\ (m - 1) + 1 = m
        BY <2>0, <3>2, <3>5
      <4>2. f[m - 1] \in Seq(S)
        BY <3>3, <4>1
      <4>3. PICK row, pl : Laid(ss, m - 1, f[m - 1], row, pl)
        BY <3>3, <4>1
      <4>4. \E row2, pl2 : Laid(ss, (m - 1) + 1, f[m - 1] \o ss[(m - 1) + 1], row2, pl2)
        BY <4>1, <4>2, <4>3, LaidMore
      <4>5. f[m] = f[m - 1] \o ss[m]
        BY <2>2, <3>2, <3>5
      <4>6. f[m] \in Seq(S)
        <5>1. ss[m] \in Seq(S)
          BY <3>2
        <5>2. \A p, q \in Seq(S) : p \o q \in Seq(S)
          OBVIOUS
        <5> QED
          BY <4>2, <4>5, <5>1, <5>2
      <4> QED
        BY <3>2, <4>1, <4>4, <4>5, <4>6
    <3> QED
      BY <3>4, <3>5
  <2> QED
    BY <2>0, <2>1, <2>3
<1> QED
  BY <1>1, <1>2

(* Only(s, P) is the elements of s at the places in P: its element p is    *)
(* the one at place[p].                                                    *)
Picked(s, P, t, place) ==
    /\ place \in [1..Len(t) -> P \cap DOMAIN s]
    /\ \A p \in 1..Len(t) : t[p] = s[place[p]]
    /\ \A p, q \in 1..Len(t) : p < q => place[p] < place[q]
    /\ \A i \in P \cap DOMAIN s : \E p \in 1..Len(t) : place[p] = i

LEMMA OnlyPicks ==
    ASSUME NEW S, NEW s \in Seq(S), NEW P
    PROVE  Only(s, P) \in Seq(S) /\ \E place : Picked(s, P, Only(s, P), place)
<1> DEFINE ss == [i \in DOMAIN s |-> IF i \in P THEN <<s[i]>> ELSE <<>>]
           t  == FlattenSeq(ss)
<1>1. ss \in Seq(Seq(S)) /\ Len(ss) = Len(s) /\ DOMAIN s = 1..Len(s)
  <2>1. \A i \in 1..Len(s) : (IF i \in P THEN <<s[i]>> ELSE <<>>) \in Seq(S)
    OBVIOUS
  <2>2. DOMAIN s = 1..Len(s) /\ Len(s) \in Nat
    OBVIOUS
  <2>3. ss \in [1..Len(s) -> Seq(S)]
    BY <2>1, <2>2
  <2> HIDE DEF ss
  <2> QED
    BY <2>2, <2>3
<1>2. \A i \in DOMAIN s : ss[i] = IF i \in P THEN <<s[i]>> ELSE <<>>
  OBVIOUS
<1>3. t = Only(s, P)
  BY DEF Only
<1> HIDE DEF t, ss
<1>4. t \in Seq(S) /\ \E row, pl : Laid(ss, Len(ss), t, row, pl)
  BY <1>1, FlattenLaid DEF t
<1>5. PICK row, pl : Laid(ss, Len(s), t, row, pl)
  BY <1>1, <1>4
<1>6. \A p \in 1..Len(t) : row[p] \in DOMAIN s /\ pl[p] \in 1..Len(ss[row[p]])
                           /\ t[p] = ss[row[p]][pl[p]]
  BY <1>1, <1>5 DEF Laid
<1>7. \A p \in 1..Len(t) : row[p] \in P /\ pl[p] = 1 /\ t[p] = s[row[p]]
  <2> SUFFICES ASSUME NEW p \in 1..Len(t)
               PROVE  row[p] \in P /\ pl[p] = 1 /\ t[p] = s[row[p]]
    OBVIOUS
  <2>0. row[p] \in DOMAIN s /\ pl[p] \in 1..Len(ss[row[p]]) /\ t[p] = ss[row[p]][pl[p]]
    BY <1>6
  <2>1. CASE row[p] \in P
    <3>1. ss[row[p]] = <<s[row[p]]>>
      BY <1>2, <2>0, <2>1
    <3>2. Len(ss[row[p]]) = 1 /\ ss[row[p]][1] = s[row[p]]
      BY <3>1
    <3>3. pl[p] = 1
      BY <2>0, <3>2
    <3> QED
      BY <2>0, <2>1, <3>2, <3>3
  <2>2. CASE row[p] \notin P
    <3>1. ss[row[p]] = <<>>
      BY <1>2, <2>0, <2>2
    <3> QED
      BY <2>0, <3>1
  <2> QED
    BY <2>1, <2>2
<1>8. \A p, q \in 1..Len(t) : p < q => row[p] < row[q]
  BY <1>5, <1>7 DEF Laid
<1>9. \A i \in P \cap DOMAIN s : \E p \in 1..Len(t) : row[p] = i
  <2> SUFFICES ASSUME NEW i \in P \cap DOMAIN s
               PROVE  \E p \in 1..Len(t) : row[p] = i
    OBVIOUS
  <2>0. ss[i] = <<s[i]>> /\ i \in 1..Len(s)
    BY <1>1, <1>2
  <2>1. 1 \in 1..Len(ss[i]) /\ i \in 1..Len(s)
    BY <2>0
  <2> QED
    BY <1>5, <2>1 DEF Laid
<1>10. row \in [1..Len(t) -> P \cap DOMAIN s]
  BY <1>5, <1>6, <1>7 DEF Laid
<1> QED
  BY <1>3, <1>4, <1>7, <1>8, <1>9, <1>10 DEF Picked

LEMMA OnlyFrom ==
    ASSUME NEW S, NEW s \in Seq(S), NEW P
    PROVE  /\ Only(s, P) \in Seq(S)
           /\ \A p \in DOMAIN Only(s, P) : \E i \in P \cap DOMAIN s : Only(s, P)[p] = s[i]
           /\ \A i \in P \cap DOMAIN s : \E p \in DOMAIN Only(s, P) : Only(s, P)[p] = s[i]
<1>1. Only(s, P) \in Seq(S) /\ DOMAIN Only(s, P) = 1..Len(Only(s, P))
  BY OnlyPicks
<1>2. PICK place : Picked(s, P, Only(s, P), place)
  BY OnlyPicks
<1>3. \A p \in DOMAIN Only(s, P) : place[p] \in P \cap DOMAIN s /\ Only(s, P)[p] = s[place[p]]
  BY <1>1, <1>2 DEF Picked
<1>4. \A i \in P \cap DOMAIN s : \E p \in DOMAIN Only(s, P) : Only(s, P)[p] = s[i]
  <2> SUFFICES ASSUME NEW i \in P \cap DOMAIN s
               PROVE  \E p \in DOMAIN Only(s, P) : Only(s, P)[p] = s[i]
    OBVIOUS
  <2>1. PICK p \in 1..Len(Only(s, P)) : place[p] = i
    BY <1>2 DEF Picked
  <2> QED
    BY <1>1, <1>3, <2>1
<1> QED
  BY <1>1, <1>3, <1>4

(* To pick every element changes nothing.                                  *)
(* t has the elements of s at the places in P, and no others.              *)
PlacesOf(s, P, t) ==
    /\ \A p \in DOMAIN t : \E i \in P \cap DOMAIN s : t[p] = s[i]
    /\ \A i \in P \cap DOMAIN s : \E p \in DOMAIN t : t[p] = s[i]

LEMMA PlacesFrom ==
    ASSUME NEW S, NEW s \in Seq(S), NEW P
    PROVE  Only(s, P) \in Seq(S) /\ PlacesOf(s, P, Only(s, P))
BY OnlyFrom DEF PlacesOf

LEMMA OnlyAll ==
    ASSUME NEW S, NEW s \in Seq(S), NEW P, DOMAIN s \subseteq P
    PROVE  Only(s, P) = s
<1> DEFINE t == Only(s, P)
<1>1. t \in Seq(S)
  BY OnlyPicks
<1>2. PICK place : Picked(s, P, t, place)
  BY OnlyPicks
<1> HIDE DEF t
<1>3. P \cap DOMAIN s = 1..Len(s) /\ Len(s) \in Nat /\ Len(t) \in Nat
  BY <1>1
<1>4. /\ place \in [1..Len(t) -> 1..Len(s)]
      /\ \A p \in 1..Len(t) : t[p] = s[place[p]]
      /\ \A p, q \in 1..Len(t) : p < q => place[p] < place[q]
      /\ \A i \in 1..Len(s) : \E p \in 1..Len(t) : place[p] = i
  BY <1>2, <1>3 DEF Picked
<1> DEFINE T == {p \in 1..Len(t) : place[p] # p}
<1>5. T = {}
  <2> SUFFICES ASSUME T # {} PROVE FALSE
    OBVIOUS
  <2>1. PICK m \in T : \A k \in T : m <= k
    <3> HIDE DEF T
    <3>1. T \in SUBSET Nat
      BY DEF T
    <3> QED
      BY <3>1, Least
  <2>2. m \in 1..Len(t) /\ place[m] # m /\ place[m] \in 1..Len(s)
    BY <1>4
  <2>3. \A p \in 1..(m - 1) : place[p] = p
    <3> SUFFICES ASSUME NEW p \in 1..(m - 1), place[p] # p PROVE FALSE
      OBVIOUS
    <3>1. p \in T
      BY <2>2
    <3> HIDE DEF T
    <3> QED
      BY <2>1, <2>2, <3>1
  <2> HIDE DEF T
  <2>4. place[m] > m
    <3>1. CASE m = 1
      BY <2>2, <3>1
    <3>2. CASE m # 1
      <4>1. m - 1 \in 1..Len(t) /\ m - 1 < m /\ place[m - 1] = m - 1
        BY <2>2, <2>3, <3>2
      <4>2. place[m - 1] < place[m]
        BY <1>4, <2>2, <4>1
      <4> QED
        BY <2>2, <4>1, <4>2
    <3> QED
      BY <3>1, <3>2
  <2>5. m \in 1..Len(s)
    BY <1>3, <2>2, <2>4
  <2>6. PICK q \in 1..Len(t) : place[q] = m
    BY <1>4, <2>5
  <2>7. CASE q < m
    BY <2>2, <2>3, <2>6, <2>7
  <2>8. CASE q > m
    <3>1. place[m] < place[q]
      BY <1>4, <2>2, <2>8
    <3> QED
      BY <2>2, <2>4, <2>6, <3>1
  <2>9. CASE q = m
    BY <2>2, <2>6, <2>9
  <2> QED
    BY <1>3, <2>2, <2>6, <2>7, <2>8, <2>9
<1>6. \A p \in 1..Len(t) : place[p] = p
  BY <1>5
<1>7. Len(t) = Len(s)
  <2>1. Len(s) <= Len(t)
    <3> SUFFICES ASSUME Len(t) < Len(s) PROVE FALSE
      BY <1>3
    <3>1. PICK p \in 1..Len(t) : place[p] = Len(s)
      BY <1>3, <1>4
    <3> QED
      BY <1>3, <1>6, <3>1
  <2>2. Len(t) <= Len(s)
    <3> SUFFICES ASSUME Len(t) > Len(s) PROVE FALSE
      BY <1>3
    <3>1. Len(t) \in 1..Len(t)
      BY <1>3
    <3> QED
      BY <1>3, <1>4, <1>6, <3>1
  <2> QED
    BY <1>3, <2>1, <2>2
<1>8. \A p \in 1..Len(t) : t[p] = s[p]
  BY <1>4, <1>6
<1> QED
  BY <1>1, <1>7, <1>8 DEF t

(* The last of a set of places.                                            *)
LEMMA LastIsLast ==
    ASSUME NEW n \in Nat, NEW S \in SUBSET (1..n), S # {}
    PROVE  LastOf(S) \in S /\ \A j \in S : j <= LastOf(S)
<1> DEFINE T == {n - i : i \in S}
<1>1. PICK m \in T : \A k \in T : m <= k
  <2>0. \A i \in S : n - i \in Nat
    OBVIOUS
  <2>1. T \in SUBSET Nat /\ T # {}
    BY <2>0
  <2> HIDE DEF T
  <2> QED
    BY <2>1, Least
<1>2. PICK i \in S : m = n - i
  OBVIOUS
<1>3. \A j \in S : j <= i
  <2> SUFFICES ASSUME NEW j \in S PROVE j <= i
    OBVIOUS
  <2>1. n - j \in T
    OBVIOUS
  <2>2. n - i <= n - j
    BY <1>1, <1>2, <2>1
  <2> QED
    BY <2>2
<1> QED
  BY <1>3 DEF LastOf

---------------------------------------------------------------------------
(* Rows.                                                                   *)

(* The rows that tell only calls of B as cancelled.                        *)
Rows(B) == {row \in Row : Is(row, "tool") /\ row.cut => row.id \in B}

Shown(s) == UNION {CallsOf(s[i]) : i \in {j \in DOMAIN s : ~Hides(s[j])}}
Plain(s) == \A i \in DOMAIN s : ~Hides(s[i])

LEMMA RowKinds ==
    ASSUME NEW B, NEW row \in Rows(B)
    PROVE  /\ row \in Row
           /\ Is(row, "user") \/ Is(row, "assistant") \/ Is(row, "tool")
           /\ Is(row, "assistant") =>
                 /\ row.calls \in Seq(Ids) /\ row.hidden \in BOOLEAN
                 /\ CallsOf(row) = {row.calls[k] : k \in DOMAIN row.calls}
           /\ ~Is(row, "assistant") => CallsOf(row) = {} /\ ~Hides(row)
           /\ Is(row, "tool") => row.id \in Ids /\ row.cut \in BOOLEAN
<1>1. row \in Row
  BY DEF Rows
<1>2. CASE row \in [role : {"user"}]
  BY <1>1, <1>2 DEF Is, CallsOf, Hides
<1>3. CASE row \in [role : {"assistant"}, calls : Seq(Ids), hidden : BOOLEAN]
  BY <1>1, <1>3 DEF Is, CallsOf, Hides, Range
<1>4. CASE row \in [role : {"tool"}, id : Ids, cut : BOOLEAN]
  BY <1>1, <1>4 DEF Is, CallsOf, Hides
<1> QED
  BY <1>1, <1>2, <1>3, <1>4 DEF Row

LEMMA OneRole ==
    ASSUME NEW row
    PROVE  /\ ~(Is(row, "user") /\ Is(row, "tool"))
           /\ ~(Is(row, "user") /\ Is(row, "assistant"))
           /\ ~(Is(row, "assistant") /\ Is(row, "tool"))
BY DEF Is

(* A row that makes other calls.                                           *)
LEMMA OtherCalls ==
    ASSUME NEW B, NEW row \in Rows(B), Is(row, "assistant"), NEW cs \in Seq(Ids)
    PROVE  LET r == [row EXCEPT !.calls = cs]
           IN  /\ r \in Rows(B) /\ Is(r, "assistant") /\ r.calls = cs
               /\ CallsOf(r) = {cs[k] : k \in DOMAIN cs}
               /\ Hides(r) = Hides(row)
<1>1. row \in [role : {"assistant"}, calls : Seq(Ids), hidden : BOOLEAN]
  BY DEF Rows, Row, Is
<1> DEFINE r == [row EXCEPT !.calls = cs]
<1>2. /\ r \in [role : {"assistant"}, calls : Seq(Ids), hidden : BOOLEAN]
      /\ r.calls = cs /\ r.hidden = row.hidden /\ r.role = "assistant" /\ row.role = "assistant"
  BY <1>1
<1> HIDE DEF r
<1>3. r \in Rows(B)
  BY <1>2 DEF Rows, Row, Is
<1> QED
  BY <1>2, <1>3 DEF Is, CallsOf, Hides, Range, r

LEMMA HiddenRow ==
    ASSUME NEW B, NEW row \in Rows(B), Is(row, "assistant")
    PROVE  LET r == [row EXCEPT !.hidden = TRUE]
           IN  /\ r \in Rows(B) /\ Is(r, "assistant") /\ CallsOf(r) = CallsOf(row)
               /\ Hides(r) /\ r.calls = row.calls
<1>1. row \in [role : {"assistant"}, calls : Seq(Ids), hidden : BOOLEAN]
  BY DEF Rows, Row, Is
<1> DEFINE r == [row EXCEPT !.hidden = TRUE]
<1>2. /\ r \in [role : {"assistant"}, calls : Seq(Ids), hidden : BOOLEAN]
      /\ r.calls = row.calls /\ r.hidden = TRUE /\ r.role = "assistant" /\ row.role = "assistant"
  BY <1>1
<1> HIDE DEF r
<1>3. r \in Rows(B)
  BY <1>2 DEF Rows, Row, Is
<1> QED
  BY <1>2, <1>3 DEF Is, CallsOf, Hides, Range, r

LEMMA NewRows ==
    ASSUME NEW B
    PROVE  /\ User \in Rows(B) /\ Is(User, "user") /\ CallsOf(User) = {} /\ ~Hides(User)
           /\ \A cs \in Seq(Ids) :
                 /\ Assistant(cs) \in Rows(B) /\ Is(Assistant(cs), "assistant")
                 /\ Assistant(cs).calls = cs
                 /\ CallsOf(Assistant(cs)) = {cs[k] : k \in DOMAIN cs}
                 /\ ~Hides(Assistant(cs))
           /\ \A c \in Ids :
                 /\ Told(c) \in Rows(B) /\ Is(Told(c), "tool") /\ Told(c).id = c
                 /\ Told(c).cut = FALSE
                 /\ c \in B => Cut(c) \in Rows(B)
                 /\ Is(Cut(c), "tool") /\ Cut(c).id = c /\ Cut(c).cut = TRUE
<1>1. User \in Rows(B) /\ Is(User, "user") /\ CallsOf(User) = {} /\ ~Hides(User)
  BY DEF User, Rows, Row, Is, CallsOf, Hides
<1>2. ASSUME NEW cs \in Seq(Ids)
      PROVE  /\ Assistant(cs) \in Rows(B) /\ Is(Assistant(cs), "assistant")
             /\ Assistant(cs).calls = cs
             /\ CallsOf(Assistant(cs)) = {cs[k] : k \in DOMAIN cs}
             /\ ~Hides(Assistant(cs))
  BY <1>2 DEF Assistant, Rows, Row, Is, CallsOf, Hides, Range
<1>3. ASSUME NEW c \in Ids
      PROVE  /\ Told(c) \in Rows(B) /\ Is(Told(c), "tool") /\ Told(c).id = c
             /\ Told(c).cut = FALSE
             /\ c \in B => Cut(c) \in Rows(B)
             /\ Is(Cut(c), "tool") /\ Cut(c).id = c /\ Cut(c).cut = TRUE
  BY <1>3 DEF Told, Cut, Rows, Row, Is
<1> QED
  BY <1>1, <1>2, <1>3

LEMMA RowsGrow ==
    ASSUME NEW B, NEW C, B \subseteq C, NEW s \in Seq(Rows(B))
    PROVE  s \in Seq(Rows(C))
<1>1. Rows(B) \subseteq Rows(C)
  BY DEF Rows
<1> QED
  BY <1>1

LEMMA AllRows == Rows(Ids) = Row
BY DEF Rows, Row, Is

(* What the sets of calls, answers and results of a sequence are.          *)
LEMMA Members ==
    ASSUME NEW s, NEW c
    PROVE  /\ c \in Called(s) <=> \E i \in DOMAIN s : c \in CallsOf(s[i])
           /\ c \in Shown(s) <=> \E i \in DOMAIN s : ~Hides(s[i]) /\ c \in CallsOf(s[i])
           /\ c \in Answered(s) <=> \E i \in DOMAIN s : Is(s[i], "tool") /\ s[i].id = c
           /\ c \in Results(s) <=>
                 \E i \in DOMAIN s : Is(s[i], "tool") /\ ~s[i].cut /\ s[i].id = c
BY DEF Called, Shown, Answered, Results

(* Rows that stem from others, and rows that are all taken over.           *)
LEMMA SameRows ==
    ASSUME NEW s, NEW t, \A p \in DOMAIN t : \E i \in DOMAIN s : t[p] = s[i]
    PROVE  /\ Called(t) \subseteq Called(s) /\ Shown(t) \subseteq Shown(s)
           /\ Answered(t) \subseteq Answered(s) /\ Results(t) \subseteq Results(s)
<1>1. Called(t) \subseteq Called(s)
  BY DEF Called
<1>2. Shown(t) \subseteq Shown(s)
  BY DEF Shown
<1>3. Answered(t) \subseteq Answered(s)
  BY DEF Answered
<1>4. Results(t) \subseteq Results(s)
  BY DEF Results
<1> QED
  BY <1>1, <1>2, <1>3, <1>4

LEMMA JoinedRows ==
    ASSUME NEW S, NEW s \in Seq(S), NEW t \in Seq(S)
    PROVE  /\ Called(s \o t) = Called(s) \cup Called(t)
           /\ Shown(s \o t) = Shown(s) \cup Shown(t)
           /\ Answered(s \o t) = Answered(s) \cup Answered(t)
           /\ Results(s \o t) = Results(s) \cup Results(t)
           /\ Plain(s) /\ Plain(t) => Plain(s \o t)
<1> DEFINE u == s \o t
<1>0. Len(s) \in Nat /\ Len(t) \in Nat
  OBVIOUS
<1>1. \A p \in DOMAIN u : (\E i \in DOMAIN s : u[p] = s[i]) \/ (\E i \in DOMAIN t : u[p] = t[i])
  <2> SUFFICES ASSUME NEW p \in DOMAIN u
               PROVE  (\E i \in DOMAIN s : u[p] = s[i]) \/ (\E i \in DOMAIN t : u[p] = t[i])
    OBVIOUS
  <2>1. CASE p <= Len(s)
    <3>1. p \in DOMAIN s /\ u[p] = s[p]
      BY <2>1
    <3> QED
      BY <3>1
  <2>2. CASE ~(p <= Len(s))
    <3>1. p - Len(s) \in DOMAIN t /\ u[p] = t[p - Len(s)]
      BY <2>2
    <3> QED
      BY <3>1
  <2> QED
    BY <2>1, <2>2
<1>2. \A i \in DOMAIN s : i \in DOMAIN u /\ u[i] = s[i]
  OBVIOUS
<1>3. \A i \in DOMAIN t : Len(s) + i \in DOMAIN u /\ u[Len(s) + i] = t[i]
  OBVIOUS
<1> HIDE DEF u
<1>4. \A i \in DOMAIN s : \E p \in DOMAIN u : s[i] = u[p]
  BY <1>2
<1>5. \A i \in DOMAIN t : \E p \in DOMAIN u : t[i] = u[p]
  BY <1>3
<1>6. /\ Called(s) \subseteq Called(u) /\ Shown(s) \subseteq Shown(u)
      /\ Answered(s) \subseteq Answered(u) /\ Results(s) \subseteq Results(u)
  BY <1>4, SameRows
<1>7. /\ Called(t) \subseteq Called(u) /\ Shown(t) \subseteq Shown(u)
      /\ Answered(t) \subseteq Answered(u) /\ Results(t) \subseteq Results(u)
  BY <1>5, SameRows
<1>8. ASSUME NEW c PROVE
      /\ c \in Called(u) => c \in Called(s) \cup Called(t)
      /\ c \in Shown(u) => c \in Shown(s) \cup Shown(t)
      /\ c \in Answered(u) => c \in Answered(s) \cup Answered(t)
      /\ c \in Results(u) => c \in Results(s) \cup Results(t)
  <2>1. c \in Called(u) => c \in Called(s) \cup Called(t)
    BY <1>1, Members
  <2>2. c \in Shown(u) => c \in Shown(s) \cup Shown(t)
    BY <1>1, Members
  <2>3. c \in Answered(u) => c \in Answered(s) \cup Answered(t)
    BY <1>1, Members
  <2>4. c \in Results(u) => c \in Results(s) \cup Results(t)
    BY <1>1, Members
  <2> QED
    BY <2>1, <2>2, <2>3, <2>4
<1>9. Plain(s) /\ Plain(t) => Plain(u)
  BY <1>1 DEF Plain
<1> QED
  BY <1>6, <1>7, <1>8, <1>9 DEF u

LEMMA OneRow ==
    ASSUME NEW row
    PROVE  /\ Called(<<row>>) = CallsOf(row)
           /\ Shown(<<row>>) = IF Hides(row) THEN {} ELSE CallsOf(row)
           /\ Answered(<<row>>) = IF Is(row, "tool") THEN {row.id} ELSE {}
           /\ Results(<<row>>) = IF Is(row, "tool") /\ ~row.cut THEN {row.id} ELSE {}
           /\ Plain(<<row>>) = ~Hides(row)
<1>1. DOMAIN <<row>> = {1} /\ <<row>>[1] = row
  OBVIOUS
<1> DEFINE s == <<row>>
<1>2. \A i \in DOMAIN s : s[i] = row
  BY <1>1
<1>3. 1 \in DOMAIN s /\ s[1] = row
  BY <1>1
<1> HIDE DEF s
<1>4. Called(s) = CallsOf(row)
  BY <1>2, <1>3 DEF Called
<1>5. Shown(s) = IF Hides(row) THEN {} ELSE CallsOf(row)
  BY <1>2, <1>3 DEF Shown
<1>6. Answered(s) = IF Is(row, "tool") THEN {row.id} ELSE {}
  BY <1>2, <1>3 DEF Answered
<1>7. Results(s) = IF Is(row, "tool") /\ ~row.cut THEN {row.id} ELSE {}
  BY <1>2, <1>3 DEF Results
<1>8. Plain(s) = ~Hides(row)
  BY <1>2, <1>3 DEF Plain, Hides
<1> QED
  BY <1>4, <1>5, <1>6, <1>7, <1>8 DEF s

LEMMA NoRows ==
    /\ Called(<<>>) = {} /\ Shown(<<>>) = {} /\ Answered(<<>>) = {} /\ Results(<<>>) = {}
    /\ Plain(<<>>)
BY DEF Called, Shown, Answered, Results, Plain

---------------------------------------------------------------------------
(* Visible.                                                                *)

(* Every result has, in its own turn, a row that is shown and calls it.    *)
SameTurn(s, i, j) ==
    \A k \in DOMAIN s : (i < k /\ k < j) \/ (j < k /\ k < i) => ~Is(s[k], "user")
InTurn(s) ==
    \A i \in DOMAIN s : Is(s[i], "tool") =>
        \E j \in DOMAIN s : ~Hides(s[j]) /\ s[i].id \in CallsOf(s[j]) /\ SameTurn(s, i, j)

LEMMA VisibleRows ==
    ASSUME NEW B, NEW s \in Seq(Rows(B))
    PROVE  /\ Visible(s) \in Seq(Rows(B)) /\ Plain(Visible(s))
           /\ Called(Visible(s)) = Shown(s) /\ Shown(Visible(s)) = Shown(s)
           /\ Answered(Visible(s)) = Answered(s) /\ Results(Visible(s)) = Results(s)
<1> DEFINE P == {i \in DOMAIN s : ~Hides(s[i])}
           t == Visible(s)
<1>1. t = Only(s, P)
  BY DEF Visible
<1> HIDE DEF t
<1>2. /\ t \in Seq(Rows(B))
      /\ \A p \in DOMAIN t : \E i \in P \cap DOMAIN s : t[p] = s[i]
      /\ \A i \in P \cap DOMAIN s : \E p \in DOMAIN t : t[p] = s[i]
  <2> HIDE DEF P
  <2> QED
    BY <1>1, OnlyFrom
<1>3. \A p \in DOMAIN t : \E i \in DOMAIN s : t[p] = s[i] /\ ~Hides(s[i])
  BY <1>2
<1>4. \A i \in DOMAIN s : ~Hides(s[i]) => \E p \in DOMAIN t : t[p] = s[i]
  BY <1>2
<1>5. Plain(t)
  BY <1>3 DEF Plain
<1>6. \A i \in DOMAIN s : Is(s[i], "tool") => ~Hides(s[i])
  BY OneRole DEF Hides
<1>7. ASSUME NEW c PROVE c \in Called(t) <=> c \in Shown(s)
  BY <1>3, <1>4, Members
<1>8. ASSUME NEW c PROVE c \in Shown(t) <=> c \in Shown(s)
  BY <1>3, <1>4, Members
<1>9. ASSUME NEW c PROVE c \in Answered(t) <=> c \in Answered(s)
  BY <1>3, <1>4, <1>6, Members
<1>10. ASSUME NEW c PROVE c \in Results(t) <=> c \in Results(s)
  <2>1. ASSUME c \in Results(t) PROVE c \in Results(s)
    BY <1>3, <2>1, Members
  <2>2. ASSUME c \in Results(s) PROVE c \in Results(t)
    <3>1. PICK i \in DOMAIN s : Is(s[i], "tool") /\ ~s[i].cut /\ s[i].id = c
      BY <2>2, Members
    <3>2. PICK p \in DOMAIN t : t[p] = s[i]
      BY <1>4, <1>6, <3>1
    <3> QED
      BY <3>1, <3>2, Members
  <2> QED
    BY <2>1, <2>2
<1> QED
  BY <1>2, <1>5, <1>7, <1>8, <1>9, <1>10 DEF t

LEMMA VisibleInTurn ==
    ASSUME NEW B, NEW s \in Seq(Rows(B)), InTurn(s)
    PROVE  InTurn(Visible(s))
<1> DEFINE P == {i \in DOMAIN s : ~Hides(s[i])}
           t == Visible(s)
<1>1. t = Only(s, P)
  BY DEF Visible
<1> HIDE DEF t
<1>2. t \in Seq(Rows(B))
  BY <1>1, OnlyPicks
<1>3. PICK place : Picked(s, P, t, place)
  BY <1>1, OnlyPicks
<1>4. /\ DOMAIN t = 1..Len(t)
      /\ \A p \in DOMAIN t : place[p] \in DOMAIN s /\ ~Hides(s[place[p]]) /\ t[p] = s[place[p]]
  BY <1>2, <1>3 DEF Picked
<1>5. \A p, q \in DOMAIN t : p < q => place[p] < place[q]
  BY <1>3, <1>4 DEF Picked
<1>6. \A i \in DOMAIN s : ~Hides(s[i]) => \E p \in DOMAIN t : place[p] = i
  BY <1>3, <1>4 DEF Picked
<1> SUFFICES ASSUME NEW p \in DOMAIN t, Is(t[p], "tool")
             PROVE  \E q \in DOMAIN t : ~Hides(t[q]) /\ t[p].id \in CallsOf(t[q])
                                        /\ SameTurn(t, p, q)
  BY DEF InTurn, t
<1>7. PICK j \in DOMAIN s : ~Hides(s[j]) /\ t[p].id \in CallsOf(s[j]) /\ SameTurn(s, place[p], j)
  BY <1>4 DEF InTurn
<1>8. PICK q \in DOMAIN t : place[q] = j
  BY <1>6, <1>7
<1>9. ~Hides(t[q]) /\ t[p].id \in CallsOf(t[q])
  BY <1>4, <1>7, <1>8
<1>10. SameTurn(t, p, q)
  BY <1>4, <1>5, <1>7, <1>8 DEF SameTurn
<1> QED
  BY <1>9, <1>10

---------------------------------------------------------------------------
(* Sanitize, block by block.                                               *)

LEMMA KeptCalls ==
    ASSUME NEW B, NEW s \in Seq(Rows(B)), NEW i \in DOMAIN s, Is(s[i], "assistant")
    PROVE  /\ Kept(s, i) \in Seq(Ids)
           /\ \A c : (\E k \in DOMAIN Kept(s, i) : Kept(s, i)[k] = c)
                        <=> c \in CallsOf(s[i]) /\ c \in Answered(s)
<1> DEFINE cs == s[i].calls
           P  == {k \in DOMAIN cs : cs[k] \in Answered(s)}
<1>1. s[i] \in Rows(B)
  OBVIOUS
<1>2. cs \in Seq(Ids) /\ CallsOf(s[i]) = {cs[k] : k \in DOMAIN cs}
  BY <1>1, RowKinds
<1>3. Kept(s, i) = Only(cs, P)
  BY DEF Kept
<1> HIDE DEF cs
<1>4. /\ Kept(s, i) \in Seq(Ids)
      /\ \A p \in DOMAIN Kept(s, i) : \E k \in P \cap DOMAIN cs : Kept(s, i)[p] = cs[k]
      /\ \A k \in P \cap DOMAIN cs : \E p \in DOMAIN Kept(s, i) : Kept(s, i)[p] = cs[k]
  <2> HIDE DEF P
  <2> QED
    BY <1>2, <1>3, OnlyFrom
<1> QED
  BY <1>2, <1>4

(* The call c of row i whose answer moves behind it.                       *)
MovesTo(s, c, i) ==
    /\ c \in CallsOf(s[i]) /\ c \in Misordered(s)
    /\ \A j \in Callers(s, c) : i <= j
TheAnswer(s, c) == LastOf(Answerers(s, c))

LEMMA AnswerIsOne ==
    ASSUME NEW B, NEW s \in Seq(Rows(B)), NEW c \in Answered(s)
    PROVE  /\ TheAnswer(s, c) \in DOMAIN s /\ Is(s[TheAnswer(s, c)], "tool")
           /\ s[TheAnswer(s, c)].id = c
           /\ \A i \in DOMAIN s : Is(s[i], "tool") /\ s[i].id = c => i <= TheAnswer(s, c)
<1>1. Answerers(s, c) \in SUBSET (1..Len(s)) /\ Len(s) \in Nat
  BY DEF Answerers
<1>2. Answerers(s, c) # {}
  BY Members DEF Answerers
<1>3. TheAnswer(s, c) \in Answerers(s, c) /\ \A j \in Answerers(s, c) : j <= TheAnswer(s, c)
  BY <1>1, <1>2, LastIsLast DEF TheAnswer
<1> QED
  BY <1>3 DEF Answerers

LEMMA BehindRows ==
    ASSUME NEW B, NEW s \in Seq(Rows(B)), NEW i \in DOMAIN s, Is(s[i], "assistant")
    PROVE  /\ Behind(s, i) \in Seq(Rows(B))
           /\ \A k \in DOMAIN Behind(s, i) :
                 \E c : MovesTo(s, c, i) /\ Behind(s, i)[k] = s[TheAnswer(s, c)]
           /\ \A c : MovesTo(s, c, i) =>
                 \E k \in DOMAIN Behind(s, i) : Behind(s, i)[k] = s[TheAnswer(s, c)]
<1> DEFINE kept == Kept(s, i)
           P  == {k \in DOMAIN kept : kept[k] \in Misordered(s)
                                      /\ \A j \in Callers(s, kept[k]) : i <= j}
           cs == Only(kept, P)
<1>1. /\ kept \in Seq(Ids)
      /\ \A c : (\E k \in DOMAIN kept : kept[k] = c) <=> c \in CallsOf(s[i]) /\ c \in Answered(s)
  BY KeptCalls
<1>2. Behind(s, i) = [k \in DOMAIN cs |-> s[LastOf(Answerers(s, cs[k]))]]
  BY DEF Behind
<1> HIDE DEF kept
<1>3. /\ cs \in Seq(Ids)
      /\ \A p \in DOMAIN cs : \E k \in P \cap DOMAIN kept : cs[p] = kept[k]
      /\ \A k \in P \cap DOMAIN kept : \E p \in DOMAIN cs : cs[p] = kept[k]
  <2>1. kept \in Seq(Ids)
    BY <1>1
  <2> HIDE DEF P
  <2> QED
    <3>1. cs \in Seq(Ids) /\ PlacesOf(kept, P, cs)
      BY <2>1, PlacesFrom
    <3> HIDE DEF cs
    <3> QED
      BY <3>1 DEF PlacesOf
<1> HIDE DEF cs
<1>4. \A c \in Misordered(s) : c \in Answered(s)
  BY DEF Misordered
<1>5. \A p \in DOMAIN cs : MovesTo(s, cs[p], i)
  BY <1>1, <1>3 DEF MovesTo
<1>6. \A c : MovesTo(s, c, i) => \E p \in DOMAIN cs : cs[p] = c
  <2> SUFFICES ASSUME NEW c, MovesTo(s, c, i) PROVE \E p \in DOMAIN cs : cs[p] = c
    OBVIOUS
  <2>1. PICK k \in DOMAIN kept : kept[k] = c
    BY <1>1, <1>4 DEF MovesTo
  <2>2. k \in P
    BY <2>1 DEF MovesTo
  <2> QED
    BY <1>3, <2>1, <2>2
<1>7. \A p \in DOMAIN cs : s[TheAnswer(s, cs[p])] \in Rows(B)
  <2> SUFFICES ASSUME NEW p \in DOMAIN cs PROVE s[TheAnswer(s, cs[p])] \in Rows(B)
    OBVIOUS
  <2>1. cs[p] \in Answered(s)
    BY <1>4, <1>5 DEF MovesTo
  <2> QED
    BY <2>1, AnswerIsOne
<1>8. /\ DOMAIN Behind(s, i) = DOMAIN cs
      /\ \A p \in DOMAIN cs : Behind(s, i)[p] = s[TheAnswer(s, cs[p])]
  BY <1>2 DEF TheAnswer
<1>9. Behind(s, i) \in Seq(Rows(B))
  <2>1. DOMAIN cs = 1..Len(cs) /\ Len(cs) \in Nat
    BY <1>3
  <2>2. Behind(s, i) = [p \in 1..Len(cs) |-> s[TheAnswer(s, cs[p])]]
    BY <1>2, <2>1 DEF TheAnswer
  <2>3. Behind(s, i) \in [1..Len(cs) -> Rows(B)]
    BY <1>7, <2>1, <2>2
  <2> QED
    BY <2>1, <2>3
<1> QED
  BY <1>5, <1>6, <1>8, <1>9

(* What stands for row i.                                                  *)
Stays(s, i) == [s[i] EXCEPT !.calls = Kept(s, i)]
Mended(s, i) ==
    IF Is(s[i], "tool") THEN IF Gone(s, i) THEN <<>> ELSE <<s[i]>>
    ELSE IF Is(s[i], "assistant") THEN <<Stays(s, i)>> \o Behind(s, i)
    ELSE <<s[i]>>

LEMMA MendedRows ==
    ASSUME NEW B, NEW s \in Seq(Rows(B)), NEW i \in DOMAIN s
    PROVE  /\ Mended(s, i) \in Seq(Rows(B))
           /\ Is(s[i], "user") => Mended(s, i) = <<s[i]>>
           /\ Is(s[i], "tool") /\ Gone(s, i) => Mended(s, i) = <<>>
           /\ Is(s[i], "tool") /\ ~Gone(s, i) => Mended(s, i) = <<s[i]>>
           /\ Is(s[i], "assistant") =>
                 /\ Len(Mended(s, i)) = 1 + Len(Behind(s, i)) /\ Mended(s, i)[1] = Stays(s, i)
                 /\ \A k \in 2..Len(Mended(s, i)) :
                       k - 1 \in DOMAIN Behind(s, i) /\ Mended(s, i)[k] = Behind(s, i)[k - 1]
                 /\ \A k \in DOMAIN Behind(s, i) :
                       k + 1 \in 1..Len(Mended(s, i)) /\ Mended(s, i)[k + 1] = Behind(s, i)[k]
<1>1. s[i] \in Rows(B)
  OBVIOUS
<1>2. CASE Is(s[i], "user")
  <2>1. Mended(s, i) = <<s[i]>>
    BY <1>2, OneRole DEF Mended
  <2> QED
    BY <1>1, <1>2, <2>1, OneRole
<1>3. CASE Is(s[i], "tool")
  <2>1. Mended(s, i) = IF Gone(s, i) THEN <<>> ELSE <<s[i]>>
    BY <1>3 DEF Mended
  <2> QED
    BY <1>1, <1>3, <2>1, OneRole
<1>4. CASE Is(s[i], "assistant")
  <2>1. Mended(s, i) = <<Stays(s, i)>> \o Behind(s, i)
    BY <1>4, OneRole DEF Mended
  <2>2. Behind(s, i) \in Seq(Rows(B)) /\ Kept(s, i) \in Seq(Ids)
    BY <1>4, BehindRows, KeptCalls
  <2>3. Stays(s, i) \in Rows(B)
    BY <1>1, <1>4, <2>2, OtherCalls DEF Stays
  <2> DEFINE b == Behind(s, i)
             r == Stays(s, i)
  <2> HIDE DEF b, r
  <2>4. b \in Seq(Rows(B)) /\ r \in Rows(B) /\ Mended(s, i) = <<r>> \o b
    BY <2>1, <2>2, <2>3 DEF b, r
  <2>5. /\ Mended(s, i) \in Seq(Rows(B))
        /\ Len(Mended(s, i)) = 1 + Len(b) /\ Mended(s, i)[1] = r
        /\ \A k \in 2..Len(Mended(s, i)) :
              k - 1 \in DOMAIN b /\ Mended(s, i)[k] = b[k - 1]
        /\ \A k \in DOMAIN b :
              k + 1 \in 1..Len(Mended(s, i)) /\ Mended(s, i)[k + 1] = b[k]
    BY <2>4
  <2> QED
    BY <1>4, <2>5, OneRole DEF b, r
<1> QED
  BY <1>1, <1>2, <1>3, <1>4, RowKinds

(* The rows of a sanitized sequence: element p is the one at pl[p] of what *)
(* stands for row[p].                                                      *)
Blocks(s) == [i \in DOMAIN s |-> Mended(s, i)]
Sorted(s, g, row, pl) ==
    /\ \A p \in DOMAIN g :
          /\ row[p] \in DOMAIN s /\ pl[p] \in 1..Len(Mended(s, row[p]))
          /\ g[p] = Mended(s, row[p])[pl[p]]
    /\ \A p, q \in DOMAIN g :
          p < q => row[p] < row[q] \/ (row[p] = row[q] /\ pl[p] < pl[q])
    /\ \A i \in DOMAIN s : \A k \in 1..Len(Mended(s, i)) :
          \E p \in DOMAIN g : row[p] = i /\ pl[p] = k

LEMMA SanitizeSorts ==
    ASSUME NEW B, NEW s \in Seq(Rows(B))
    PROVE  /\ Sanitize(s) \in Seq(Rows(B))
           /\ \E row, pl : Sorted(s, Sanitize(s), row, pl)
<1> DEFINE ss == Blocks(s)
           g  == Sanitize(s)
<1>1. g = FlattenSeq(ss)
  BY DEF Sanitize, Blocks, Mended, Stays
<1>2. /\ DOMAIN s = 1..Len(s) /\ Len(s) \in Nat
      /\ \A i \in DOMAIN s : ss[i] = Mended(s, i) /\ Mended(s, i) \in Seq(Rows(B))
  BY MendedRows DEF Blocks
<1>3. ss \in Seq(Seq(Rows(B))) /\ Len(ss) = Len(s)
  <2>1. ss = [i \in 1..Len(s) |-> Mended(s, i)]
    BY <1>2 DEF Blocks
  <2>2. ss \in [1..Len(s) -> Seq(Rows(B))]
    BY <1>2, <2>1
  <2> QED
    BY <1>2, <2>2
<1> HIDE DEF ss, g
<1>4. g \in Seq(Rows(B)) /\ \E row, pl : Laid(ss, Len(ss), g, row, pl)
  BY <1>1, <1>3, FlattenLaid
<1>5. PICK row, pl : Laid(ss, Len(s), g, row, pl)
  BY <1>3, <1>4
<1>6. DOMAIN g = 1..Len(g)
  BY <1>4
<1>7. ASSUME NEW p \in DOMAIN g
      PROVE  /\ row[p] \in DOMAIN s /\ pl[p] \in 1..Len(Mended(s, row[p]))
             /\ g[p] = Mended(s, row[p])[pl[p]]
  <2>1. row[p] \in 1..Len(s)
    BY <1>5, <1>6 DEF Laid
  <2>2. pl[p] \in 1..Len(ss[row[p]]) /\ g[p] = ss[row[p]][pl[p]]
    BY <1>5, <1>6 DEF Laid
  <2> QED
    BY <1>2, <2>1, <2>2
<1>8. \A p, q \in DOMAIN g :
          p < q => row[p] < row[q] \/ (row[p] = row[q] /\ pl[p] < pl[q])
  BY <1>5, <1>6 DEF Laid
<1>9. \A i \in DOMAIN s : \A k \in 1..Len(ss[i]) :
          \E p \in DOMAIN g : row[p] = i /\ pl[p] = k
  <2>1. \A i \in 1..Len(s) : \A k \in 1..Len(ss[i]) :
          \E p \in 1..Len(g) : row[p] = i /\ pl[p] = k
    BY <1>5 DEF Laid
  <2> SUFFICES ASSUME NEW i \in DOMAIN s, NEW k \in 1..Len(ss[i])
               PROVE  \E p \in DOMAIN g : row[p] = i /\ pl[p] = k
    OBVIOUS
  <2>2. i \in 1..Len(s)
    BY <1>2
  <2> QED
    <3>1. PICK p \in 1..Len(g) : row[p] = i /\ pl[p] = k
      BY <2>1, <2>2
    <3>2. p \in DOMAIN g
      BY <1>6
    <3> QED
      BY <3>1, <3>2
<1>10. Sorted(s, g, row, pl)
  BY <1>2, <1>7, <1>8, <1>9 DEF Sorted
<1> QED
  BY <1>4, <1>10 DEF g

(* What row x, at place k of what stands for row i, is.                    *)
Stems(s, x, i, k) ==
    \/ Is(s[i], "user") /\ k = 1 /\ x = s[i]
    \/ Is(s[i], "tool") /\ k = 1 /\ x = s[i] /\ ~Gone(s, i)
    \/ Is(s[i], "assistant") /\ k = 1 /\ x = Stays(s, i)
    \/ /\ Is(s[i], "assistant") /\ k > 1
       /\ \E c : MovesTo(s, c, i) /\ x = s[TheAnswer(s, c)]

LEMMA EachStems ==
    ASSUME NEW B, NEW s \in Seq(Rows(B)), NEW i \in DOMAIN s, NEW k \in 1..Len(Mended(s, i))
    PROVE  Stems(s, Mended(s, i)[k], i, k)
<1>1. s[i] \in Rows(B)
  OBVIOUS
<1>2. CASE Is(s[i], "user")
  <2>1. Mended(s, i) = <<s[i]>>
    BY <1>2, MendedRows
  <2>2. k = 1 /\ Mended(s, i)[1] = s[i]
    BY <2>1
  <2> QED
    BY <1>2, <2>2 DEF Stems
<1>3. CASE Is(s[i], "tool") /\ Gone(s, i)
  <2>1. Mended(s, i) = <<>>
    BY <1>3, MendedRows
  <2> QED
    BY <2>1
<1>4. CASE Is(s[i], "tool") /\ ~Gone(s, i)
  <2>1. Mended(s, i) = <<s[i]>>
    BY <1>4, MendedRows
  <2>2. k = 1 /\ Mended(s, i)[1] = s[i]
    BY <2>1
  <2> QED
    BY <1>4, <2>2 DEF Stems
<1>5. CASE Is(s[i], "assistant")
  <2>1. CASE k = 1
    BY <1>5, <2>1, MendedRows DEF Stems
  <2>2. CASE k # 1
    <3>1. k \in 2..Len(Mended(s, i)) /\ k > 1
      BY <2>2
    <3>2. k - 1 \in DOMAIN Behind(s, i) /\ Mended(s, i)[k] = Behind(s, i)[k - 1]
      BY <1>5, <3>1, MendedRows
    <3>3. PICK c : MovesTo(s, c, i) /\ Behind(s, i)[k - 1] = s[TheAnswer(s, c)]
      BY <1>5, <3>2, BehindRows
    <3> QED
      BY <1>5, <3>1, <3>2, <3>3 DEF Stems
  <2> QED
    BY <2>1, <2>2
<1> QED
  BY <1>1, <1>2, <1>3, <1>4, <1>5, RowKinds

LEMMA StaysRow ==
    ASSUME NEW B, NEW s \in Seq(Rows(B)), NEW i \in DOMAIN s, Is(s[i], "assistant")
    PROVE  /\ Is(Stays(s, i), "assistant") /\ ~Is(Stays(s, i), "tool") /\ ~Is(Stays(s, i), "user")
           /\ \A c : c \in CallsOf(Stays(s, i)) <=> c \in CallsOf(s[i]) /\ c \in Answered(s)
           /\ Hides(Stays(s, i)) = Hides(s[i])
<1>1. Kept(s, i) \in Seq(Ids) /\ s[i] \in Rows(B)
  BY KeptCalls
<1>2. /\ Is(Stays(s, i), "assistant") /\ Hides(Stays(s, i)) = Hides(s[i])
      /\ CallsOf(Stays(s, i)) = {Kept(s, i)[k] : k \in DOMAIN Kept(s, i)}
  BY <1>1, OtherCalls DEF Stays
<1>3. \A c : c \in CallsOf(Stays(s, i)) <=> c \in CallsOf(s[i]) /\ c \in Answered(s)
  BY <1>2, KeptCalls
<1> QED
  BY <1>2, <1>3, OneRole

(* An answer that moves has a row to move behind.                          *)
LEMMA MovesSomewhere ==
    ASSUME NEW B, NEW s \in Seq(Rows(B)), NEW c \in Misordered(s)
    PROVE  \E i \in DOMAIN s : MovesTo(s, c, i) /\ Is(s[i], "assistant")
<1>1. Callers(s, c) # {} /\ Callers(s, c) \in SUBSET Nat
  BY Members DEF Callers, Misordered
<1>2. PICK i \in Callers(s, c) : \A j \in Callers(s, c) : i <= j
  BY <1>1, Least
<1>3. i \in DOMAIN s /\ c \in CallsOf(s[i])
  BY DEF Callers
<1>4. Is(s[i], "assistant")
  BY <1>3, RowKinds
<1> QED
  BY <1>2, <1>3, <1>4 DEF MovesTo

(* Where the rows of s are in the sanitized sequence.                      *)
LEMMA SortedPlaces ==
    ASSUME NEW B, NEW s \in Seq(Rows(B)), NEW g, NEW row, NEW pl, Sorted(s, g, row, pl)
    PROVE  /\ \A p \in DOMAIN g : row[p] \in DOMAIN s /\ Stems(s, g[p], row[p], pl[p])
           /\ \A i \in DOMAIN s : Is(s[i], "user") \/ (Is(s[i], "tool") /\ ~Gone(s, i)) =>
                 \E p \in DOMAIN g : row[p] = i /\ pl[p] = 1 /\ g[p] = s[i]
           /\ \A i \in DOMAIN s : Is(s[i], "assistant") =>
                 \E p \in DOMAIN g : row[p] = i /\ pl[p] = 1 /\ g[p] = Stays(s, i)
           /\ \A i \in DOMAIN s : \A c : Is(s[i], "assistant") /\ MovesTo(s, c, i) =>
                 \E p \in DOMAIN g : row[p] = i /\ pl[p] > 1 /\ g[p] = s[TheAnswer(s, c)]
<1>1. ASSUME NEW p \in DOMAIN g
      PROVE  row[p] \in DOMAIN s /\ Stems(s, g[p], row[p], pl[p])
  <2>1. /\ row[p] \in DOMAIN s /\ pl[p] \in 1..Len(Mended(s, row[p]))
        /\ g[p] = Mended(s, row[p])[pl[p]]
    BY DEF Sorted
  <2> QED
    BY <2>1, EachStems
<1>2. \A i \in DOMAIN s : \A k \in 1..Len(Mended(s, i)) :
         \E p \in DOMAIN g : row[p] = i /\ pl[p] = k /\ g[p] = Mended(s, i)[k]
  <2> SUFFICES ASSUME NEW i \in DOMAIN s, NEW k \in 1..Len(Mended(s, i))
               PROVE  \E p \in DOMAIN g : row[p] = i /\ pl[p] = k /\ g[p] = Mended(s, i)[k]
    OBVIOUS
  <2>1. PICK p \in DOMAIN g : row[p] = i /\ pl[p] = k
    BY Zenon DEF Sorted
  <2>2. g[p] = Mended(s, row[p])[pl[p]]
    BY Zenon DEF Sorted
  <2> QED
    BY <2>1, <2>2
<1>3. ASSUME NEW i \in DOMAIN s, Is(s[i], "user") \/ (Is(s[i], "tool") /\ ~Gone(s, i))
      PROVE  \E p \in DOMAIN g : row[p] = i /\ pl[p] = 1 /\ g[p] = s[i]
  <2>1. Mended(s, i) = <<s[i]>>
    BY <1>3, MendedRows
  <2>2. 1 \in 1..Len(Mended(s, i)) /\ Mended(s, i)[1] = s[i]
    BY <2>1
  <2> QED
    BY <1>2, <2>2
<1>4. ASSUME NEW i \in DOMAIN s, Is(s[i], "assistant")
      PROVE  \E p \in DOMAIN g : row[p] = i /\ pl[p] = 1 /\ g[p] = Stays(s, i)
  <2>1. Len(Mended(s, i)) = 1 + Len(Behind(s, i)) /\ Mended(s, i)[1] = Stays(s, i)
    BY <1>4, MendedRows
  <2>2. Len(Behind(s, i)) \in Nat
    BY <1>4, BehindRows
  <2>3. 1 \in 1..Len(Mended(s, i))
    BY <2>1, <2>2
  <2> QED
    BY <1>2, <2>1, <2>3
<1>5. ASSUME NEW i \in DOMAIN s, NEW c, Is(s[i], "assistant"), MovesTo(s, c, i)
      PROVE  \E p \in DOMAIN g : row[p] = i /\ pl[p] > 1 /\ g[p] = s[TheAnswer(s, c)]
  <2>1. PICK k \in DOMAIN Behind(s, i) : Behind(s, i)[k] = s[TheAnswer(s, c)]
    BY <1>5, BehindRows
  <2>2. k + 1 \in 1..Len(Mended(s, i)) /\ Mended(s, i)[k + 1] = Behind(s, i)[k]
    BY <1>5, MendedRows
  <2>3. k + 1 > 1
    BY <1>5, BehindRows
  <2>4. PICK p \in DOMAIN g : row[p] = i /\ pl[p] = k + 1 /\ g[p] = Mended(s, i)[k + 1]
    BY <1>2, <2>2
  <2> QED
    BY <2>1, <2>2, <2>3, <2>4
<1> QED
  BY <1>1, <1>3, <1>4, <1>5

LEMMA SanitizeSets ==
    ASSUME NEW B, NEW s \in Seq(Rows(B))
    PROVE  /\ Sanitize(s) \in Seq(Rows(B))
           /\ \A c : c \in Called(Sanitize(s)) <=> c \in Called(s) /\ c \in Answered(s)
           /\ Answered(Sanitize(s)) \subseteq Called(Sanitize(s))
           /\ Results(Sanitize(s)) \subseteq Results(s)
           /\ Results(s) \cap Called(s) \subseteq Results(Sanitize(s))
           /\ Plain(s) => Plain(Sanitize(s))
<1> DEFINE g == Sanitize(s)
<1>1. g \in Seq(Rows(B)) /\ \E row, pl : Sorted(s, g, row, pl)
  BY SanitizeSorts
<1> HIDE DEF g
<1>2. PICK row, pl : Sorted(s, g, row, pl)
  BY <1>1
<1>3. /\ \A p \in DOMAIN g : row[p] \in DOMAIN s /\ Stems(s, g[p], row[p], pl[p])
      /\ \A i \in DOMAIN s : Is(s[i], "tool") /\ ~Gone(s, i) =>
            \E p \in DOMAIN g : g[p] = s[i]
      /\ \A i \in DOMAIN s : Is(s[i], "assistant") =>
            \E p \in DOMAIN g : g[p] = Stays(s, i)
      /\ \A i \in DOMAIN s : \A c : Is(s[i], "assistant") /\ MovesTo(s, c, i) =>
            \E p \in DOMAIN g : g[p] = s[TheAnswer(s, c)]
  <2>1. \A p \in DOMAIN g : row[p] \in DOMAIN s /\ Stems(s, g[p], row[p], pl[p])
    BY <1>2, SortedPlaces
  <2>2. \A i \in DOMAIN s : Is(s[i], "tool") /\ ~Gone(s, i) => \E p \in DOMAIN g : g[p] = s[i]
    BY <1>2, SortedPlaces
  <2>3. \A i \in DOMAIN s : Is(s[i], "assistant") => \E p \in DOMAIN g : g[p] = Stays(s, i)
    BY <1>2, SortedPlaces
  <2>4. \A i \in DOMAIN s : \A c : Is(s[i], "assistant") /\ MovesTo(s, c, i) =>
            \E p \in DOMAIN g : g[p] = s[TheAnswer(s, c)]
    BY <1>2, SortedPlaces
  <2> QED
    BY <2>1, <2>2, <2>3, <2>4
(* A tool row is one of s, and its call was made and answered.             *)
<1>4. ASSUME NEW p \in DOMAIN g, Is(g[p], "tool")
      PROVE  /\ \E i \in DOMAIN s : g[p] = s[i]
             /\ g[p].id \in Called(s) /\ g[p].id \in Answered(s)
  <2>1. row[p] \in DOMAIN s /\ Stems(s, g[p], row[p], pl[p])
    BY <1>3
  <2>2. CASE Is(s[row[p]], "user") /\ g[p] = s[row[p]]
    BY <1>4, <2>2, OneRole
  <2>3. CASE Is(s[row[p]], "tool") /\ g[p] = s[row[p]] /\ ~Gone(s, row[p])
    BY <2>1, <2>3, Members DEF Gone
  <2>4. CASE Is(s[row[p]], "assistant") /\ g[p] = Stays(s, row[p])
    BY <1>4, <2>1, <2>4, StaysRow
  <2>5. CASE \E c : MovesTo(s, c, row[p]) /\ g[p] = s[TheAnswer(s, c)]
    <3>1. PICK c : MovesTo(s, c, row[p]) /\ g[p] = s[TheAnswer(s, c)]
      BY <2>5
    <3>2. c \in Called(s) /\ c \in Answered(s)
      BY <3>1 DEF MovesTo, Misordered
    <3>3. TheAnswer(s, c) \in DOMAIN s /\ s[TheAnswer(s, c)].id = c
      BY <3>2, AnswerIsOne
    <3> QED
      BY <3>1, <3>2, <3>3
  <2> QED
    BY <2>1, <2>2, <2>3, <2>4, <2>5 DEF Stems
(* An assistant row stands for one of s.                                   *)
<1>5. ASSUME NEW p \in DOMAIN g, Is(g[p], "assistant")
      PROVE  \E i \in DOMAIN s : Is(s[i], "assistant") /\ g[p] = Stays(s, i)
  <2>1. row[p] \in DOMAIN s /\ Stems(s, g[p], row[p], pl[p])
    BY <1>3
  <2>2. \A c : MovesTo(s, c, row[p]) => Is(s[TheAnswer(s, c)], "tool")
    BY AnswerIsOne DEF MovesTo, Misordered
  <2> QED
    BY <1>5, <2>1, <2>2, OneRole DEF Stems
<1>6. \A p \in DOMAIN g : g[p] \in Rows(B)
  BY <1>1
<1>7. ASSUME NEW c PROVE c \in Called(g) <=> c \in Called(s) /\ c \in Answered(s)
  <2>1. ASSUME c \in Called(g) PROVE c \in Called(s) /\ c \in Answered(s)
    <3>1. PICK p \in DOMAIN g : c \in CallsOf(g[p])
      BY <2>1, Members
    <3>2. Is(g[p], "assistant")
      BY <3>1 DEF CallsOf
    <3>3. PICK i \in DOMAIN s : Is(s[i], "assistant") /\ g[p] = Stays(s, i)
      BY <1>5, <3>2
    <3>4. c \in CallsOf(s[i]) /\ c \in Answered(s)
      BY <3>1, <3>3, StaysRow
    <3> QED
      BY <3>4, Members
  <2>2. ASSUME c \in Called(s), c \in Answered(s) PROVE c \in Called(g)
    <3>1. PICK i \in DOMAIN s : c \in CallsOf(s[i])
      BY <2>2, Members
    <3>2. Is(s[i], "assistant")
      BY <3>1 DEF CallsOf
    <3>3. PICK p \in DOMAIN g : g[p] = Stays(s, i)
      BY <1>3, <3>2
    <3>4. c \in CallsOf(g[p])
      BY <2>2, <3>1, <3>2, <3>3, StaysRow
    <3> QED
      BY <3>4, Members
  <2> QED
    BY <2>1, <2>2
<1>8. Answered(g) \subseteq Called(g)
  <2> SUFFICES ASSUME NEW c \in Answered(g) PROVE c \in Called(g)
    OBVIOUS
  <2>1. PICK p \in DOMAIN g : Is(g[p], "tool") /\ g[p].id = c
    BY Members
  <2> QED
    BY <1>4, <1>7, <2>1
<1>9. Results(g) \subseteq Results(s)
  <2> SUFFICES ASSUME NEW c \in Results(g) PROVE c \in Results(s)
    OBVIOUS
  <2>1. PICK p \in DOMAIN g : Is(g[p], "tool") /\ ~g[p].cut /\ g[p].id = c
    BY Members
  <2>2. PICK i \in DOMAIN s : g[p] = s[i]
    BY <1>4, <2>1
  <2> QED
    BY <2>1, <2>2, Members
<1>10. Results(s) \cap Called(s) \subseteq Results(g)
  <2> SUFFICES ASSUME NEW c \in Results(s), c \in Called(s) PROVE c \in Results(g)
    OBVIOUS
  <2>1. PICK i \in DOMAIN s : Is(s[i], "tool") /\ ~s[i].cut /\ s[i].id = c
    BY Members
  <2>2. \E p \in DOMAIN g : g[p] = s[i]
    <3>1. CASE ~Gone(s, i)
      BY <1>3, <2>1, <3>1
    <3>2. CASE Gone(s, i)
      <4>1. c \in Misordered(s) /\ i = TheAnswer(s, c)
        BY <2>1, <3>2 DEF Gone, TheAnswer
      <4>2. PICK j \in DOMAIN s : MovesTo(s, c, j) /\ Is(s[j], "assistant")
        BY <4>1, MovesSomewhere
      <4> QED
        BY <1>3, <4>1, <4>2
    <3> QED
      BY <3>1, <3>2
  <2>3. PICK p \in DOMAIN g : g[p] = s[i]
    BY <2>2
  <2> QED
    BY <2>1, <2>3, Members
<1>11. ASSUME Plain(s) PROVE Plain(g)
  <2> SUFFICES ASSUME NEW p \in DOMAIN g, Hides(g[p]) PROVE FALSE
    BY DEF Plain
  <2>1. PICK i \in DOMAIN s : Is(s[i], "assistant") /\ g[p] = Stays(s, i)
    BY <1>5 DEF Hides
  <2> QED
    BY <1>11, <2>1, StaysRow DEF Plain
<1> QED
  BY <1>1, <1>7, <1>8, <1>9, <1>10, <1>11 DEF g

(* A result that is sanitized stays in the turn of its call.               *)
LEMMA SanitizeInTurn ==
    ASSUME NEW B, NEW s \in Seq(Rows(B)), Plain(s), InTurn(s)
    PROVE  InTurn(Sanitize(s))
<1> DEFINE g == Sanitize(s)
<1>1. g \in Seq(Rows(B)) /\ \E row, pl : Sorted(s, g, row, pl)
  BY SanitizeSorts
<1> HIDE DEF g
<1>2. PICK row, pl : Sorted(s, g, row, pl)
  BY <1>1
<1>3. /\ \A p \in DOMAIN g : row[p] \in DOMAIN s /\ Stems(s, g[p], row[p], pl[p])
      /\ \A i \in DOMAIN s : Is(s[i], "assistant") =>
            \E p \in DOMAIN g : row[p] = i /\ pl[p] = 1 /\ g[p] = Stays(s, i)
  BY <1>2, SortedPlaces
<1>4. \A p, q \in DOMAIN g :
          p < q => row[p] < row[q] \/ (row[p] = row[q] /\ pl[p] < pl[q])
  BY <1>2 DEF Sorted
<1>5. DOMAIN g \subseteq Nat /\ DOMAIN s \subseteq Nat
  BY <1>1
(* A user's row in g is a user's row of s.                                 *)
<1>6. ASSUME NEW p \in DOMAIN g, Is(g[p], "user")
      PROVE  Is(s[row[p]], "user")
  <2>1. row[p] \in DOMAIN s /\ Stems(s, g[p], row[p], pl[p])
    BY <1>3
  <2>2. \A c : MovesTo(s, c, row[p]) => Is(s[TheAnswer(s, c)], "tool")
    BY AnswerIsOne DEF MovesTo, Misordered
  <2> QED
    BY <1>6, <2>1, <2>2, OneRole, StaysRow DEF Stems
<1> SUFFICES ASSUME NEW p \in DOMAIN g, Is(g[p], "tool")
             PROVE  \E q \in DOMAIN g : ~Hides(g[q]) /\ g[p].id \in CallsOf(g[q])
                                        /\ SameTurn(g, p, q)
  BY DEF InTurn, g
<1>7. row[p] \in DOMAIN s /\ Stems(s, g[p], row[p], pl[p])
  BY <1>3
(* The rows between are between in s.                                      *)
<1>8. ASSUME NEW q \in DOMAIN g, SameTurn(s, row[p], row[q]), ~Is(s[row[p]], "user"),
             ~Is(s[row[q]], "user")
      PROVE  SameTurn(g, p, q)
  <2> SUFFICES ASSUME NEW m \in DOMAIN g, (p < m /\ m < q) \/ (q < m /\ m < p), Is(g[m], "user")
               PROVE  FALSE
    BY DEF SameTurn
  <2>1. Is(s[row[m]], "user")
    BY <1>6
  <2>2. row[m] # row[p] /\ row[m] # row[q]
    BY <1>8, <2>1
  <2>3. row[m] \in DOMAIN s /\ row[p] \in DOMAIN s /\ row[q] \in DOMAIN s
    BY <1>3
  <2>4. (row[p] < row[m] /\ row[m] < row[q]) \/ (row[q] < row[m] /\ row[m] < row[p])
    BY <1>4, <2>2
  <2> QED
    BY <1>8, <2>1, <2>3, <2>4 DEF SameTurn
<1>9. CASE Is(s[row[p]], "tool") /\ g[p] = s[row[p]] /\ ~Gone(s, row[p])
  <2>1. PICK j \in DOMAIN s : ~Hides(s[j]) /\ g[p].id \in CallsOf(s[j]) /\ SameTurn(s, row[p], j)
    BY <1>7, <1>9 DEF InTurn
  <2>2. Is(s[j], "assistant")
    BY <2>1 DEF CallsOf
  <2>3. PICK q \in DOMAIN g : row[q] = j /\ pl[q] = 1 /\ g[q] = Stays(s, j)
    BY <1>3, <2>2
  <2>4. g[p].id \in Answered(s)
    BY <1>7, <1>9, Members
  <2>5. ~Hides(g[q]) /\ g[p].id \in CallsOf(g[q])
    BY <2>1, <2>2, <2>3, <2>4, StaysRow
  <2>6. SameTurn(g, p, q)
    BY <1>8, <1>9, <2>1, <2>2, <2>3, OneRole
  <2> QED
    BY <2>5, <2>6
<1>10. CASE /\ Is(s[row[p]], "assistant") /\ pl[p] > 1
            /\ \E c : MovesTo(s, c, row[p]) /\ g[p] = s[TheAnswer(s, c)]
  <2>1. PICK c : MovesTo(s, c, row[p]) /\ g[p] = s[TheAnswer(s, c)]
    BY <1>10
  <2>2. c \in Answered(s) /\ c \in CallsOf(s[row[p]])
    BY <2>1 DEF MovesTo, Misordered
  <2>3. g[p].id = c
    BY <2>1, <2>2, AnswerIsOne
  <2>4. PICK q \in DOMAIN g : row[q] = row[p] /\ pl[q] = 1 /\ g[q] = Stays(s, row[p])
    BY <1>3, <1>7, <1>10
  <2>5. c \in CallsOf(g[q]) /\ Hides(g[q]) = Hides(s[row[p]])
    BY <1>7, <1>10, <2>2, <2>4, StaysRow
  <2>6. SameTurn(s, row[p], row[q])
    BY <1>5, <1>7, <2>4 DEF SameTurn
  <2>7. SameTurn(g, p, q)
    BY <1>8, <1>10, <2>4, <2>6, OneRole
  <2> QED
    BY <1>7, <2>3, <2>5, <2>7 DEF Plain
<1> QED
  BY <1>7, <1>9, <1>10, OneRole, StaysRow DEF Stems

---------------------------------------------------------------------------
(* The history of a run, and what the run makes of its messages.           *)

LEMMA Halves ==
    ASSUME NEW S, NEW s \in Seq(S), NEW n \in 0..Len(s)
    PROVE  LET a == SubSeq(s, 1, n)
               b == SubSeq(s, n + 1, Len(s))
           IN  /\ a \in Seq(S) /\ Len(a) = n /\ \A i \in 1..n : a[i] = s[i]
               /\ b \in Seq(S) /\ Len(b) = Len(s) - n
               /\ \A i \in 1..(Len(s) - n) : b[i] = s[n + i]
               /\ s = a \o b
<1> DEFINE a == SubSeq(s, 1, n)
           b == SubSeq(s, n + 1, Len(s))
<1>1. Len(s) \in Nat /\ n \in Nat /\ n <= Len(s)
  OBVIOUS
<1>2. a \in Seq(S) /\ Len(a) = n /\ \A i \in 1..n : a[i] = s[i]
  BY <1>1
<1>3. /\ b \in Seq(S) /\ Len(b) = Len(s) - n
      /\ \A i \in 1..(Len(s) - n) : b[i] = s[n + i]
  BY <1>1
<1> HIDE DEF a, b
<1>4. a \o b \in Seq(S) /\ Len(a \o b) = Len(s)
  BY <1>1, <1>2, <1>3
<1>5. \A i \in 1..Len(s) : (a \o b)[i] = s[i]
  <2> SUFFICES ASSUME NEW i \in 1..Len(s) PROVE (a \o b)[i] = s[i]
    OBVIOUS
  <2>1. CASE i <= n
    BY <1>1, <1>2, <1>3, <2>1
  <2>2. CASE i > n
    <3>1. i - n \in 1..(Len(s) - n) /\ n + (i - n) = i
      BY <1>1, <2>2
    <3>2. b[i - n] = s[i]
      BY <1>3, <3>1
    <3>3. (a \o b)[i] = b[i - n]
      BY <1>1, <1>2, <1>3, <2>2
    <3> QED
      BY <3>2, <3>3
  <2>3. i <= n \/ i > n
    BY <1>1
  <2> QED
    BY <2>1, <2>2, <2>3
<1>6. s = a \o b
  <2> DEFINE c == a \o b
  <2>1. c \in Seq(S) /\ Len(c) = Len(s) /\ \A i \in 1..Len(s) : s[i] = c[i]
    BY <1>4, <1>5
  <2> HIDE DEF c
  <2>2. s = c
    BY <2>1, SeqEqual
  <2> QED
    BY <2>2 DEF c
<1> QED
  BY <1>2, <1>3, <1>6 DEF a, b

LEMMA InTurnSets ==
    ASSUME NEW s, InTurn(s)
    PROVE  Answered(s) \subseteq Shown(s) /\ Answered(s) \subseteq Called(s)
<1>1. ASSUME NEW c \in Answered(s) PROVE c \in Shown(s) /\ c \in Called(s)
  <2>1. PICK i \in DOMAIN s : Is(s[i], "tool") /\ s[i].id = c
    BY Members
  <2>2. PICK j \in DOMAIN s : ~Hides(s[j]) /\ c \in CallsOf(s[j])
    BY <2>1 DEF InTurn
  <2> QED
    BY <2>2, Members
<1> QED
  BY <1>1

LEMMA RecentIs ==
    ASSUME NEW B, NEW s \in Seq(Rows(B)), NEW n \in Nat
    PROVE  \/ n = 0 /\ Recent(s, n) = <<>>
           \/ Recent(s, n) = s
           \/ \E k \in DOMAIN s : Is(s[k], "user") /\ Recent(s, n) = SubSeq(s, k, Len(s))
<1> DEFINE users  == {i \in DOMAIN s : Is(s[i], "user")}
           behind(i) == {j \in users : j >= i}
           starts == {i \in users : Cardinality(behind(i)) <= n}
<1>1. CASE n = 0
  BY <1>1 DEF Recent
<1>2. CASE n # 0 /\ n >= Cardinality(users)
  BY <1>2 DEF Recent
<1>3. CASE n # 0 /\ ~(n >= Cardinality(users))
  <2>1. users \in SUBSET (1..Len(s)) /\ Len(s) \in Nat
    OBVIOUS
  <2>2. users # {}
    <3> SUFFICES ASSUME users = {} PROVE FALSE
      OBVIOUS
    <3>1. Cardinality(users) = 0
      BY FS_EmptySet
    <3> HIDE DEF users
    <3> QED
      BY <1>3, <3>1
  <2> DEFINE last == LastOf(users)
  <2>3. last \in users /\ \A j \in users : j <= last
    <3> HIDE DEF users
    <3> QED
      BY <2>1, <2>2, LastIsLast
  <2>4. behind(last) = {last}
    <3> HIDE DEF users, last
    <3>1. \A j \in users : j \in Nat
      BY <2>1
    <3>2. \A j \in users : j >= last <=> j = last
      BY <2>3, <3>1
    <3> QED
      BY <2>3, <3>2
  <2>5. last \in starts
    <3>1. Cardinality(behind(last)) = 1
      <4> HIDE DEF users, last
      <4> QED
        BY <2>4, FS_Singleton
    <3>2. Cardinality(behind(last)) <= n
      <4> DEFINE c == Cardinality(behind(last))
      <4> HIDE DEF c
      <4>1. c = 1
        BY <3>1 DEF c
      <4>2. c <= n
        BY <1>3, <4>1
      <4> QED
        BY <4>2 DEF c
    <3> HIDE DEF users, last
    <3> QED
      BY <2>3, <3>2
  <2>6. PICK k \in starts : \A j \in starts : k <= j
    <3>1. starts \in SUBSET Nat
      OBVIOUS
    <3> HIDE DEF starts
    <3> QED
      BY <2>5, <3>1, Least
  <2> DEFINE first == CHOOSE i \in starts : \A j \in starts : i <= j
  <2>7. first \in starts
    BY <2>6
  <2>8. Recent(s, n) = SubSeq(s, first, Len(s))
    BY <1>3 DEF Recent
  <2> HIDE DEF first
  <2> QED
    BY <2>7, <2>8
<1> QED
  BY <1>1, <1>2, <1>3

(* The last turns of a history keep its results and calls together.        *)
LEMMA TurnsFrom ==
    ASSUME NEW B, NEW s \in Seq(Rows(B)), InTurn(s),
           NEW k \in DOMAIN s, Is(s[k], "user")
    PROVE  LET t == SubSeq(s, k, Len(s))
           IN  /\ t \in Seq(Rows(B)) /\ InTurn(t) /\ Results(t) \subseteq Results(s)
               /\ Plain(s) => Plain(t)
<1> DEFINE t == SubSeq(s, k, Len(s))
<1>1. /\ k \in Nat /\ k >= 1 /\ Len(s) \in Nat /\ k <= Len(s)
      /\ t \in Seq(Rows(B)) /\ Len(t) = Len(s) - k + 1 /\ DOMAIN t = 1..(Len(s) - k + 1)
      /\ \A p \in DOMAIN t : t[p] = s[p + k - 1] /\ p + k - 1 \in DOMAIN s
  OBVIOUS
<1> HIDE DEF t
<1>k. k \in Nat /\ k >= 1 /\ Len(s) \in Nat /\ DOMAIN s = 1..Len(s)
  BY <1>1
<1>2. \A p \in DOMAIN t : \E i \in DOMAIN s : t[p] = s[i]
  BY <1>1
<1>3. (Plain(s) => Plain(t)) /\ Results(t) \subseteq Results(s)
  BY <1>2, SameRows DEF Plain
<1>4. InTurn(t)
  <2> SUFFICES ASSUME NEW p \in DOMAIN t, Is(t[p], "tool")
               PROVE  \E q \in DOMAIN t : ~Hides(t[q]) /\ t[p].id \in CallsOf(t[q])
                                          /\ SameTurn(t, p, q)
    BY DEF InTurn
  <2> DEFINE i == p + k - 1
  <2>1. i \in DOMAIN s /\ t[p] = s[i] /\ p \in Nat /\ p >= 1
    BY <1>1
  <2>2. PICK j \in DOMAIN s : ~Hides(s[j]) /\ t[p].id \in CallsOf(s[j]) /\ SameTurn(s, i, j)
    BY <2>1 DEF InTurn
  <2>3. j >= k
    <3>1. j # k
      BY <2>2 DEF CallsOf, Is
    <3>2. k # i
      BY <2>1, OneRole
    <3>3. ~(j < k /\ k < i)
      BY <2>2 DEF SameTurn
    <3>4. i \in Nat /\ i >= k /\ j \in Nat
      BY <1>k, <2>1
    <3> HIDE DEF i
    <3> QED
      BY <1>k, <3>1, <3>2, <3>3, <3>4
  <2> DEFINE q == j - k + 1
  <2>4. q \in DOMAIN t /\ t[q] = s[j] /\ q + k - 1 = j
    <3>1. j \in Nat /\ j <= Len(s)
      BY <1>k
    <3>2. q \in 1..(Len(s) - k + 1) /\ q + k - 1 = j
      BY <1>k, <2>3, <3>1
    <3> QED
      BY <1>1, <3>2
  <2>5. SameTurn(t, p, q)
    <3> SUFFICES ASSUME NEW m \in DOMAIN t, (p < m /\ m < q) \/ (q < m /\ m < p)
                 PROVE  ~Is(t[m], "user")
      BY DEF SameTurn
    <3>1. m + k - 1 \in DOMAIN s /\ t[m] = s[m + k - 1] /\ m \in Nat
      BY <1>1
    <3>2. (i < m + k - 1 /\ m + k - 1 < j) \/ (j < m + k - 1 /\ m + k - 1 < i)
      <4>1. j \in Nat /\ p \in Nat /\ m \in Nat /\ k \in Nat /\ q \in Int
        BY <1>k, <2>1, <3>1
      <4>2. CASE p < m /\ m < q
        BY <4>1, <4>2
      <4>3. CASE q < m /\ m < p
        BY <4>1, <4>3
      <4> QED
        BY <4>2, <4>3
    <3> QED
      BY <2>2, <3>1, <3>2 DEF SameTurn
  <2> QED
    BY <2>2, <2>4, <2>5
<1> QED
  BY <1>1, <1>3, <1>4 DEF t

LEMMA NoRowsInTurn == InTurn(<<>>)
BY DEF InTurn

LEMMA HistoryRows ==
    ASSUME NEW B, NEW s \in Seq(Rows(B))
    PROVE  /\ History(s) \in Seq(Rows(B)) /\ Plain(History(s))
           /\ Answered(History(s)) \subseteq Called(History(s))
           /\ Results(History(s)) \subseteq Results(s)
           /\ Results(s) \cap Shown(s) \subseteq Results(History(s))
           /\ InTurn(s) => InTurn(History(s))
<1> DEFINE v == Visible(s)
<1>1. /\ v \in Seq(Rows(B)) /\ Plain(v)
      /\ Called(v) = Shown(s) /\ Results(v) = Results(s)
  BY VisibleRows
<1>2. InTurn(s) => InTurn(v)
  BY VisibleInTurn
<1>3. History(s) = Sanitize(v)
  BY DEF History
<1> HIDE DEF v
<1>4. /\ Sanitize(v) \in Seq(Rows(B)) /\ Answered(Sanitize(v)) \subseteq Called(Sanitize(v))
      /\ Results(Sanitize(v)) \subseteq Results(v)
      /\ Results(v) \cap Called(v) \subseteq Results(Sanitize(v))
      /\ Plain(Sanitize(v))
  BY <1>1, SanitizeSets
<1>5. InTurn(v) => InTurn(Sanitize(v))
  BY <1>1, SanitizeInTurn
<1> QED
  BY <1>1, <1>2, <1>3, <1>4, <1>5

LEMMA RecentRows ==
    ASSUME NEW B, NEW s \in Seq(Rows(B)), Plain(s), InTurn(s), NEW n \in Nat
    PROVE  /\ Recent(s, n) \in Seq(Rows(B)) /\ Plain(Recent(s, n)) /\ InTurn(Recent(s, n))
           /\ Results(Recent(s, n)) \subseteq Results(s)
<1>1. CASE Recent(s, n) = <<>>
  BY <1>1, NoRows, NoRowsInTurn
<1>2. CASE Recent(s, n) = s
  BY <1>2
<1>3. CASE \E k \in DOMAIN s : Is(s[k], "user") /\ Recent(s, n) = SubSeq(s, k, Len(s))
  BY <1>3, TurnsFrom
<1> QED
  BY <1>1, <1>2, <1>3, RecentIs

(* What is whole is not pruned.                                            *)
LEMMA NothingPruned ==
    ASSUME NEW B, NEW s \in Seq(Rows(B)), Answered(s) \subseteq Called(s)
    PROVE  Prune(s) = s
<1> DEFINE P == {i \in DOMAIN s : Is(s[i], "tool") => s[i].id \in Called(s)}
<1>1. DOMAIN s \subseteq P
  BY Members
<1>2. Prune(s) = Only(s, P)
  BY DEF Prune
<1> HIDE DEF P
<1> QED
  BY <1>1, <1>2, OnlyAll

Has(s, x)     == \E i \in DOMAIN s : s[i] = x
OneHas(ss, x) == \E i \in DOMAIN ss : Has(ss[i], x)

LEMMA FlattenMembers ==
    ASSUME NEW S, NEW ss \in Seq(Seq(S)), NEW c
    PROVE  Has(FlattenSeq(ss), c) <=> OneHas(ss, c)
<1> DEFINE g == FlattenSeq(ss)
<1>1. g \in Seq(S) /\ \E row, pl : Laid(ss, Len(ss), g, row, pl)
  BY FlattenLaid
<1> HIDE DEF g
<1>2. PICK row, pl : Laid(ss, Len(ss), g, row, pl)
  BY <1>1
<1>3. /\ DOMAIN g = 1..Len(g) /\ DOMAIN ss = 1..Len(ss)
      /\ \A i \in DOMAIN ss : DOMAIN ss[i] = 1..Len(ss[i])
  <2>1. \A i \in DOMAIN ss : ss[i] \in Seq(S)
    OBVIOUS
  <2>2. \A q \in Seq(S) : DOMAIN q = 1..Len(q)
    OBVIOUS
  <2> QED
    BY <1>1, <2>1, <2>2
<1>4. ASSUME NEW p \in DOMAIN g, g[p] = c
      PROVE  \E i \in DOMAIN ss : \E k \in DOMAIN ss[i] : ss[i][k] = c
  <2>1. row[p] \in 1..Len(ss) /\ pl[p] \in 1..Len(ss[row[p]]) /\ g[p] = ss[row[p]][pl[p]]
    BY <1>2, <1>3 DEF Laid
  <2>2. row[p] \in DOMAIN ss /\ pl[p] \in DOMAIN ss[row[p]]
    BY <1>3, <2>1
  <2> QED
    BY <1>4, <2>1, <2>2
<1>5. ASSUME NEW i \in DOMAIN ss, NEW k \in DOMAIN ss[i], ss[i][k] = c
      PROVE  \E p \in DOMAIN g : g[p] = c
  <2>1. i \in 1..Len(ss) /\ k \in 1..Len(ss[i])
    BY <1>3
  <2>2. PICK p \in 1..Len(g) : row[p] = i /\ pl[p] = k
    BY <1>2, <2>1 DEF Laid
  <2>3. g[p] = ss[row[p]][pl[p]]
    BY <1>2, <2>2 DEF Laid
  <2> QED
    BY <1>3, <1>5, <2>2, <2>3
<1> QED
  BY <1>4, <1>5 DEF g, Has, OneHas

(* The calls of the run's rows, in order.                                  *)
AllCalls(m) ==
    FlattenSeq([i \in DOMAIN m |-> IF Is(m[i], "assistant") THEN m[i].calls ELSE <<>>])

LEMMA AllCallsAre ==
    ASSUME NEW B, NEW m \in Seq(Rows(B))
    PROVE  /\ AllCalls(m) \in Seq(Ids)
           /\ {AllCalls(m)[k] : k \in DOMAIN AllCalls(m)} = Called(m)
<1> DEFINE ss == [i \in DOMAIN m |-> IF Is(m[i], "assistant") THEN m[i].calls ELSE <<>>]
<1>1. AllCalls(m) = FlattenSeq(ss)
  BY DEF AllCalls
<1>2. /\ DOMAIN m = 1..Len(m) /\ Len(m) \in Nat
      /\ \A i \in DOMAIN m : ss[i] = IF Is(m[i], "assistant") THEN m[i].calls ELSE <<>>
  OBVIOUS
<1>3. \A i \in DOMAIN m : m[i] \in Rows(B)
  OBVIOUS
<1>4. \A i \in DOMAIN m : ss[i] \in Seq(Ids)
  BY <1>2, <1>3, RowKinds
<1>5. ss \in Seq(Seq(Ids)) /\ DOMAIN ss = DOMAIN m
  <2>1. DOMAIN ss = 1..Len(m) /\ ss = [i \in 1..Len(m) |-> ss[i]]
    BY <1>2
  <2> HIDE DEF ss
  <2>2. ss \in [1..Len(m) -> Seq(Ids)]
    BY <1>2, <1>4, <2>1
  <2> QED
    BY <1>2, <2>1, <2>2
<1> HIDE DEF ss
<1>6. AllCalls(m) \in Seq(Ids)
  BY <1>1, <1>5, FlattenLaid
<1>7. ASSUME NEW i \in DOMAIN m, NEW c
      PROVE  (\E k \in DOMAIN ss[i] : ss[i][k] = c) <=> c \in CallsOf(m[i])
  <2>1. CASE Is(m[i], "assistant")
    <3>1. ss[i] = m[i].calls /\ CallsOf(m[i]) = {m[i].calls[k] : k \in DOMAIN m[i].calls}
      BY <1>2, <1>3, <2>1, RowKinds
    <3> QED
      BY <3>1
  <2>2. CASE ~Is(m[i], "assistant")
    BY <1>2, <2>2 DEF CallsOf
  <2> QED
    BY <2>1, <2>2
<1>8. ASSUME NEW c
      PROVE  c \in {AllCalls(m)[k] : k \in DOMAIN AllCalls(m)} <=> c \in Called(m)
  <2>1. Has(AllCalls(m), c) <=> OneHas(ss, c)
    BY <1>1, <1>5, FlattenMembers
  <2>2. OneHas(ss, c) <=> \E i \in DOMAIN m : c \in CallsOf(m[i])
    BY <1>5, <1>7 DEF OneHas, Has
  <2>3. c \in Called(m) <=> \E i \in DOMAIN m : c \in CallsOf(m[i])
    BY Members
  <2> QED
    BY <2>1, <2>2, <2>3 DEF Has
<1> QED
  BY <1>6, <1>8

LEMMA CollapsedRows ==
    ASSUME NEW B, NEW s \in Seq(Rows(B)), NEW n \in Nat, n < Len(s)
    PROVE  LET t  == Collapse(s, n)
               all == AllCalls(SubSeq(s, n + 1, Len(s)))
           IN  /\ t \in Seq(Rows(B)) /\ Len(t) = Len(s)
               /\ ~Is(s[Len(s)], "assistant") => t = s
               /\ \A i \in 1..Len(s) : ~(i > n /\ Is(s[i], "assistant")) => t[i] = s[i]
               /\ Is(s[Len(s)], "assistant") =>
                     /\ t[Len(s)] = [s[Len(s)] EXCEPT !.calls = all]
                     /\ \A i \in 1..Len(s) : i > n /\ i # Len(s) =>
                           t[i] = IF CallsOf(s[i]) # {} THEN [s[i] EXCEPT !.hidden = TRUE]
                                  ELSE s[i]
<1> DEFINE final == Len(s)
           m   == SubSeq(s, n + 1, final)
           all == AllCalls(m)
           t   == Collapse(s, n)
           c   == [i \in DOMAIN s |->
                     IF i = final THEN [s[i] EXCEPT !.calls = all]
                     ELSE IF i > n /\ CallsOf(s[i]) # {} THEN [s[i] EXCEPT !.hidden = TRUE]
                     ELSE s[i]]
<1>1. t = IF ~Is(s[final], "assistant") THEN s ELSE c
  BY DEF Collapse, AllCalls
<1>2. final \in Nat /\ final >= 1 /\ DOMAIN s = 1..final /\ n + 1 \in 1..final /\ m \in Seq(Rows(B))
  OBVIOUS
<1> HIDE DEF m, t, c
<1>3. all \in Seq(Ids)
  BY <1>2, AllCallsAre
<1> HIDE DEF all
<1>4. CASE ~Is(s[final], "assistant")
  <2>1. t = s
    BY <1>1, <1>4
  <2> QED
    BY <1>2, <1>4, <2>1 DEF t, all, m
<1>5. CASE Is(s[final], "assistant")
  <2>1. t = c
    BY <1>1, <1>5
  <2>2. DOMAIN c = 1..final /\ c = [i \in 1..final |-> c[i]]
    BY <1>2 DEF c
  <2>3. c[final] = [s[final] EXCEPT !.calls = all]
    BY <1>2 DEF c
  <2>4. \A i \in 1..final : i # final =>
           c[i] = IF i > n /\ CallsOf(s[i]) # {} THEN [s[i] EXCEPT !.hidden = TRUE] ELSE s[i]
    BY <1>2 DEF c
  <2>5. \A i \in 1..final : s[i] \in Rows(B)
    OBVIOUS
  <2>6. c[final] \in Rows(B)
    <3>1. s[final] \in Rows(B)
      BY <1>2, <2>5
    <3> QED
      BY <1>3, <1>5, <2>3, <3>1, OtherCalls
  <2>7. ASSUME NEW i \in 1..final, i # final PROVE c[i] \in Rows(B)
    <3>1. CASE i > n /\ CallsOf(s[i]) # {}
      <4>1. Is(s[i], "assistant")
        BY <3>1 DEF CallsOf
      <4>2. s[i] \in Rows(B)
        BY <2>5
      <4>3. c[i] = [s[i] EXCEPT !.hidden = TRUE]
        BY <2>4, <2>7, <3>1
      <4> QED
        BY <4>1, <4>2, <4>3, HiddenRow
    <3>2. CASE ~(i > n /\ CallsOf(s[i]) # {})
      BY <2>4, <2>5, <2>7, <3>2
    <3> QED
      BY <3>1, <3>2
  <2>8. \A i \in 1..final : c[i] \in Rows(B)
    BY <2>6, <2>7
  <2>9. c \in Seq(Rows(B)) /\ Len(c) = final
    <3>1. c \in [1..final -> Rows(B)]
      BY <2>2, <2>8
    <3> QED
      BY <1>2, <3>1
  <2>10. \A i \in 1..final : ~(i > n /\ Is(s[i], "assistant")) => c[i] = s[i]
    <3>1. \A i \in 1..final : ~Is(s[i], "assistant") => CallsOf(s[i]) = {}
      BY DEF CallsOf
    <3>2. final > n
      BY <1>2
    <3> QED
      BY <1>5, <2>4, <3>1, <3>2
  <2> QED
    BY <1>5, <2>1, <2>3, <2>4, <2>9, <2>10 DEF t, all, m
<1> QED
  BY <1>4, <1>5

(* Collapsed, the run's rows tell and call the same, and the calls of      *)
(* results are shown.                                                      *)
LEMMA CollapsedSets ==
    ASSUME NEW B, NEW s \in Seq(Rows(B)), NEW n \in Nat, n < Len(s),
           Plain(SubSeq(s, n + 1, Len(s)))
    PROVE  LET t  == Collapse(s, n)
               m  == SubSeq(s, n + 1, Len(s))
               mt == SubSeq(t, n + 1, Len(t))
           IN  /\ SubSeq(t, 1, n) = SubSeq(s, 1, n)
               /\ Results(mt) = Results(m) /\ Answered(mt) = Answered(m)
               /\ Called(mt) = Called(m) /\ Shown(mt) = Called(m)
<1> DEFINE t  == Collapse(s, n)
           m  == SubSeq(s, n + 1, Len(s))
           mt == SubSeq(t, n + 1, Len(t))
           all == AllCalls(m)
           k  == Len(s) - n
<1>1. /\ t \in Seq(Rows(B)) /\ Len(t) = Len(s)
      /\ ~Is(s[Len(s)], "assistant") => t = s
      /\ \A i \in 1..Len(s) : ~(i > n /\ Is(s[i], "assistant")) => t[i] = s[i]
      /\ Is(s[Len(s)], "assistant") =>
            /\ t[Len(s)] = [s[Len(s)] EXCEPT !.calls = all]
            /\ \A i \in 1..Len(s) : i > n /\ i # Len(s) =>
                  t[i] = IF CallsOf(s[i]) # {} THEN [s[i] EXCEPT !.hidden = TRUE] ELSE s[i]
  BY CollapsedRows
<1> HIDE DEF t
<1>n. Len(s) \in Nat /\ n \in 0..Len(s) /\ n \in 0..Len(t) /\ k \in Nat /\ k >= 1
  BY <1>1
<1>2. /\ m \in Seq(Rows(B)) /\ DOMAIN m = 1..k /\ \A i \in 1..k : m[i] = s[n + i]
  BY <1>n, Halves
<1>3. /\ mt \in Seq(Rows(B)) /\ DOMAIN mt = 1..k /\ \A i \in 1..k : mt[i] = t[n + i]
  <2>1. mt \in Seq(Rows(B)) /\ Len(mt) = Len(t) - n /\ \A i \in 1..(Len(t) - n) : mt[i] = t[n + i]
    BY <1>1, <1>n, Halves
  <2> QED
    BY <1>1, <2>1
<1>4. SubSeq(t, 1, n) = SubSeq(s, 1, n)
  <2> DEFINE a == SubSeq(t, 1, n)
             b == SubSeq(s, 1, n)
  <2>1. a \in Seq(Rows(B)) /\ Len(a) = n /\ \A i \in 1..n : a[i] = t[i]
    BY <1>1, <1>n, Halves
  <2>2. b \in Seq(Rows(B)) /\ Len(b) = n /\ \A i \in 1..n : b[i] = s[i]
    BY <1>n, Halves
  <2>3. \A i \in 1..n : i \in 1..Len(s) /\ ~(i > n)
    BY <1>n
  <2>4. \A i \in 1..n : t[i] = s[i]
    BY <1>1, <2>3
  <2> HIDE DEF a, b
  <2>5. a = b
    BY <2>1, <2>2, <2>4, SeqEqual
  <2> QED
    BY <2>5 DEF a, b
<1>5. all \in Seq(Ids) /\ {all[j] : j \in DOMAIN all} = Called(m)
  BY <1>2, AllCallsAre
<1>p. \A i \in 1..k : n + i \in 1..Len(s) /\ n + i > n /\ (n + i = Len(s) <=> i = k)
  BY <1>n
<1>h. Plain(m)
  OBVIOUS
<1> HIDE DEF m, mt, all
<1>6. \A i \in 1..k : ~Is(m[i], "assistant") => mt[i] = m[i]
  BY <1>1, <1>2, <1>3, <1>p
<1>7. ASSUME NEW i \in 1..k, Is(m[i], "assistant")
      PROVE  Is(mt[i], "assistant")
  <2>1. m[i] = s[n + i] /\ mt[i] = t[n + i] /\ n + i \in 1..Len(s) /\ s[n + i] \in Rows(B)
    BY <1>2, <1>3, <1>p
  <2>2. CASE ~Is(s[Len(s)], "assistant")
    BY <1>1, <1>7, <2>1, <2>2
  <2>3. CASE Is(s[Len(s)], "assistant") /\ i = k
    <3>1. mt[i] = [s[n + i] EXCEPT !.calls = all]
      BY <1>1, <1>p, <2>1, <2>3
    <3> QED
      BY <1>5, <1>7, <2>1, <3>1, OtherCalls
  <2>4. CASE Is(s[Len(s)], "assistant") /\ i # k
    <3>1. mt[i] = IF CallsOf(m[i]) # {} THEN [m[i] EXCEPT !.hidden = TRUE] ELSE m[i]
      BY <1>1, <1>p, <2>1, <2>4
    <3> QED
      BY <1>7, <2>1, <3>1, HiddenRow
  <2> QED
    BY <2>2, <2>3, <2>4
<1>8. \A i \in 1..k : Is(mt[i], "tool") <=> Is(m[i], "tool")
  BY <1>6, <1>7, OneRole
<1>9. \A i \in 1..k : Is(m[i], "tool") => mt[i] = m[i]
  BY <1>6, OneRole
<1>10. ASSUME NEW c PROVE (c \in Results(mt) <=> c \in Results(m)) /\ (c \in Answered(mt) <=> c \in Answered(m))
  <2>0. /\ DOMAIN m = DOMAIN mt
        /\ \A i \in DOMAIN m : Is(mt[i], "tool") <=> Is(m[i], "tool")
        /\ \A i \in DOMAIN m : Is(m[i], "tool") => mt[i] = m[i]
    BY <1>2, <1>3, <1>8, <1>9
  <2>1. c \in Results(mt) <=> c \in Results(m)
    BY <2>0, Members
  <2>2. c \in Answered(mt) <=> c \in Answered(m)
    BY <2>0, Members
  <2> QED
    BY <2>1, <2>2
<1>11. Called(mt) = Called(m) /\ Shown(mt) = Called(m)
  <2>1. CASE ~Is(s[Len(s)], "assistant")
    <3>1. mt = m
      BY <1>1, <2>1 DEF m, mt
    <3>2. Shown(m) = Called(m)
      BY <1>h DEF Shown, Called, Plain
    <3> QED
      BY <3>1, <3>2
  <2>2. CASE Is(s[Len(s)], "assistant")
    <3>0. k \in 1..k /\ n + k = Len(s) /\ m[k] = s[Len(s)] /\ m[k] \in Rows(B)
      BY <1>n, <1>2
    <3>1. mt[k] = [m[k] EXCEPT !.calls = all]
      BY <1>1, <1>3, <2>2, <3>0
    <3>2. CallsOf(mt[k]) = {all[j] : j \in DOMAIN all} /\ Hides(mt[k]) = Hides(m[k])
      BY <1>5, <2>2, <3>0, <3>1, OtherCalls
    <3>3. CallsOf(mt[k]) = Called(m) /\ ~Hides(mt[k])
      BY <1>2, <1>5, <1>h, <3>0, <3>2 DEF Plain
    <3>4. ASSUME NEW i \in 1..k, i # k PROVE CallsOf(mt[i]) = CallsOf(m[i])
      <4>1. m[i] \in Rows(B) /\ m[i] = s[n + i] /\ mt[i] = t[n + i]
        BY <1>2, <1>3
      <4>2. mt[i] = IF CallsOf(m[i]) # {} THEN [m[i] EXCEPT !.hidden = TRUE] ELSE m[i]
        BY <1>1, <1>p, <2>2, <3>4, <4>1
      <4>3. CallsOf(m[i]) # {} => Is(m[i], "assistant")
        BY DEF CallsOf
      <4> QED
        BY <4>1, <4>2, <4>3, HiddenRow
    <3>5. \A i \in 1..k : CallsOf(mt[i]) \subseteq Called(m)
      <4>1. \A i \in 1..k : CallsOf(m[i]) \subseteq Called(m)
        BY <1>2 DEF Called
      <4> QED
        BY <3>3, <3>4, <4>1
    <3>6. Called(m) \subseteq Shown(mt)
      BY <1>3, <3>0, <3>3 DEF Shown
    <3>7. Called(mt) \subseteq Called(m) /\ Shown(mt) \subseteq Called(mt)
      <4>1. Called(mt) \subseteq Called(m)
        BY <1>3, <3>5 DEF Called
      <4> QED
        BY <4>1 DEF Shown, Called
    <3> QED
      BY <3>6, <3>7
  <2> QED
    BY <2>1, <2>2
<1> QED
  BY <1>4, <1>10, <1>11 DEF t, m, mt

---------------------------------------------------------------------------
(* The dispatch of tool calls.                                             *)

Untouched == {"waiting", "cut"}

(* The calls of an answer have ids of their own; a batch is taken up in    *)
(* order, and a call of it is cut only after the cancel, which stays; what *)
(* is not taken up, or met the cancel, has not begun.                      *)
CallAtHand == [id : Nat, st : CallSt]
Unique   == \A i, j \in DOMAIN calls : calls[i].id = calls[j].id => i = j
Numbered == \A i \in DOMAIN calls : calls[i].id \in 1..ids
InOrder  ==
    \A i, j \in DOMAIN calls :
        i < j /\ calls[i].st \in Untouched => calls[j].st \in Untouched
CutLate  == \A i \in DOMAIN calls : calls[i].st = "cut" => mode = "batch" /\ cancel
NotBegun == \A i \in DOMAIN calls : calls[i].st \in Untouched => calls[i].id \notin begun

CallsInv ==
    /\ calls \in Seq(CallAtHand)
    /\ Unique /\ Numbered /\ CutLate /\ NotBegun
    /\ mode = "batch" => InOrder

DispatchInv ==
    /\ ids \in Nat /\ begun \subseteq 1..ids
    /\ at \in Nat /\ (InTools => at >= 1)
    /\ CallsInv

---------------------------------------------------------------------------
(* Steps that leave the calls alone.                                       *)

LEMMA CallsKept ==
    ASSUME DispatchInv, ids' = ids, begun' = begun, cancel' = cancel,
           calls' = calls, mode' = mode, at' = at,
           pc' = pc \/ pc' # "tools"
    PROVE  DispatchInv'
BY DEF DispatchInv, CallsInv, Unique, Numbered, InOrder, CutLate, NotBegun, InTools,
       CallAtHand, CallSt, Ended, Untouched

(* Steps that let go of the calls.                                         *)
LEMMA CallsDropped ==
    ASSUME DispatchInv, ids' = ids, begun' = begun, calls' = <<>>, at' = 0,
           pc' # "tools"
    PROVE  DispatchInv'
BY DEF DispatchInv, CallsInv, Unique, Numbered, InOrder, CutLate, NotBegun, InTools

(* What a mark on one call does.                                           *)
LEMMA Marked ==
    ASSUME calls \in Seq(CallAtHand), NEW i \in DOMAIN calls, NEW st \in CallSt, Mark(i, st)
    PROVE  /\ calls' \in Seq(CallAtHand) /\ DOMAIN calls' = DOMAIN calls
           /\ DOMAIN calls \subseteq Nat
           /\ \A j \in DOMAIN calls : calls'[j].id = calls[j].id
           /\ \A j \in DOMAIN calls : j # i => calls'[j].st = calls[j].st
           /\ calls'[i].st = st
<1>1. calls' = [calls EXCEPT ![i].st = st]
  BY DEF Mark
<1>2. calls[i] \in CallAtHand
  OBVIOUS
<1>3. [calls[i] EXCEPT !.st = st] \in CallAtHand
  BY <1>2 DEF CallAtHand
<1>4. calls' \in Seq(CallAtHand) /\ DOMAIN calls' = DOMAIN calls
  BY <1>1, <1>3
<1>5. /\ calls'[i].id = calls[i].id /\ calls'[i].st = st
      /\ \A j \in DOMAIN calls : j # i => calls'[j] = calls[j]
  BY <1>1, <1>2 DEF CallAtHand
<1> QED
  BY <1>4, <1>5

(* A call is taken up, or goes on once it is: in a batch those before it   *)
(* were taken up too.                                                      *)
LEMMA CallTaken ==
    ASSUME DispatchInv, NEW i \in DOMAIN calls, NEW st \in CallSt \ Untouched,
           Mark(i, st), ids' = ids, mode' = mode, at' = at, pc' = pc, cancel' = cancel,
           begun' \in {begun, begun \cup {calls[i].id}},
           \/ calls[i].st \notin Untouched
           \/ mode # "batch"
           \/ \A k \in 1..(i - 1) : calls[k].st \notin Untouched
    PROVE  DispatchInv'
<1>1. calls \in Seq(CallAtHand)
  BY DEF DispatchInv, CallsInv
<1>2. /\ calls' \in Seq(CallAtHand) /\ DOMAIN calls' = DOMAIN calls
      /\ DOMAIN calls \subseteq Nat
      /\ \A j \in DOMAIN calls : calls'[j].id = calls[j].id
      /\ \A j \in DOMAIN calls : j # i => calls'[j].st = calls[j].st
      /\ calls'[i].st = st
  BY <1>1, Marked
<1>3. calls[i].id \in 1..ids
  BY DEF DispatchInv, CallsInv, Numbered
<1>4. /\ ids' \in Nat /\ begun' \subseteq 1..ids'
      /\ at' \in Nat /\ (InTools' => at' >= 1)
  BY <1>3 DEF DispatchInv, InTools
<1>5. Unique' /\ Numbered'
  BY <1>2 DEF DispatchInv, CallsInv, Unique, Numbered
<1>6. CutLate'
  BY <1>2 DEF DispatchInv, CallsInv, CutLate, Untouched
<1>7. NotBegun'
  BY <1>2 DEF DispatchInv, CallsInv, NotBegun, Unique, Untouched
<1>8. mode' = "batch" => InOrder'
  <2> SUFFICES ASSUME mode = "batch",
                      NEW k \in DOMAIN calls, NEW j \in DOMAIN calls,
                      k < j, calls'[k].st \in Untouched
               PROVE  calls'[j].st \in Untouched
    BY <1>2 DEF InOrder
  <2>1. k # i /\ calls[k].st \in Untouched
    BY <1>2
  <2>2. calls[j].st \in Untouched
    BY <2>1 DEF DispatchInv, CallsInv, InOrder
  <2>3. j # i
    <3>1. CASE calls[i].st \notin Untouched
      BY <2>2, <3>1
    <3>2. CASE \A m \in 1..(i - 1) : calls[m].st \notin Untouched
      BY <1>1, <2>1, <3>2
    <3> QED
      BY <3>1, <3>2
  <2> QED
    BY <1>2, <2>2, <2>3
<1> QED
  BY <1>2, <1>4, <1>5, <1>6, <1>7, <1>8 DEF DispatchInv, CallsInv

(* A call of a batch meets the cancel.                                     *)
LEMMA CallCut ==
    ASSUME DispatchInv, NEW i \in DOMAIN calls, calls[i].st = "waiting",
           mode = "batch", cancel, Mark(i, "cut"),
           ids' = ids, mode' = mode, at' = at, pc' = pc, cancel' = cancel, begun' = begun
    PROVE  DispatchInv'
<1>1. calls \in Seq(CallAtHand) /\ "cut" \in CallSt
  BY DEF DispatchInv, CallsInv, CallSt, Ended
<1>2. /\ calls' \in Seq(CallAtHand) /\ DOMAIN calls' = DOMAIN calls
      /\ \A j \in DOMAIN calls : calls'[j].id = calls[j].id
      /\ \A j \in DOMAIN calls : j # i => calls'[j].st = calls[j].st
      /\ calls'[i].st = "cut"
  BY <1>1, Marked
<1>3. \A j \in DOMAIN calls : calls'[j].st \in Untouched <=> calls[j].st \in Untouched
  BY <1>2 DEF Untouched
<1>4. Unique' /\ Numbered' /\ CutLate' /\ NotBegun' /\ InOrder'
  BY <1>2, <1>3
     DEF DispatchInv, CallsInv, Unique, Numbered, CutLate, NotBegun, InOrder
<1> QED
  BY <1>2, <1>4 DEF DispatchInv, CallsInv, InTools

(* An answer brings new calls, with the next ids.                          *)
LEMMA CallsAnswered ==
    ASSUME DispatchInv, NEW n \in 1..MaxBatch, NEW how, AnswerCalls(n, how)
    PROVE  DispatchInv'
<1>0. n \in Nat /\ n >= 1
  BY AgentLoopAssumption
<1>1. calls' = [k \in 1..n |-> [id |-> ids + k, st |-> "waiting"]]
  BY DEF AnswerCalls
<1>2. /\ ids' = ids + n /\ at' = 1 /\ begun' = begun /\ cancel' = cancel
  BY DEF AnswerCalls, Fixed
<1>3. ids \in Nat /\ begun \subseteq 1..ids
  BY DEF DispatchInv
<1>4. /\ calls' \in Seq(CallAtHand) /\ DOMAIN calls' = 1..n
      /\ \A k \in 1..n : calls'[k].id = ids + k /\ calls'[k].st = "waiting"
  BY <1>0, <1>1, <1>3 DEF CallAtHand, CallSt
<1>5. Unique' /\ Numbered'
  BY <1>0, <1>2, <1>3, <1>4 DEF Unique, Numbered
<1>6. InOrder' /\ CutLate'
  BY <1>4 DEF InOrder, CutLate, Untouched
<1>7. NotBegun'
  BY <1>0, <1>2, <1>3, <1>4 DEF NotBegun
<1>8. ids' \in Nat /\ begun' \subseteq 1..ids'
  BY <1>0, <1>2, <1>3
<1> QED
  BY <1>2, <1>4, <1>5, <1>6, <1>7, <1>8 DEF DispatchInv, CallsInv

---------------------------------------------------------------------------
(* The actions.                                                            *)

LEMMA InitDispatch == Init => DispatchInv
BY DEF Init, DispatchInv, CallsInv, Unique, Numbered, InOrder, CutLate, NotBegun, InTools

LEMMA LoopDispatch ==
    ASSUME DispatchInv, Loop
    PROVE  DispatchInv'
<1>1. CASE \E n \in 1..MaxBatch, how \in Hows : AnswerCalls(n, how)
  BY <1>1, CallsAnswered
<1>2. CASE \E stray \in 0..1 : ForcedAnswer(stray)
  <2>1. PICK stray \in 0..1 : ForcedAnswer(stray)
    BY <1>2
  <2>2. /\ ids' = ids + stray /\ begun' = begun /\ pc' = "persist"
        /\ UNCHANGED <<calls, at, mode, cancel>>
    BY <2>1 DEF ForcedAnswer, Finalize, Leave, Fixed, Batch
  <2> QED
    BY <2>2 DEF DispatchInv, CallsInv, Unique, Numbered, InOrder, CutLate, NotBegun,
                InTools
<1>3. CASE StopAtHead \/ OverLimit \/ Refuse \/ CallModel \/ DropAnswer
           \/ AnswerText \/ AnswerSilent \/ AnswerEmpty \/ ModelRaises \/ ForcedFails
  <2>1. UNCHANGED <<ids, begun, cancel, calls, at, mode>> /\ pc' # "tools"
    BY <1>3 DEF StopAtHead, OverLimit, Refuse, CallModel, DropAnswer, AnswerText,
                AnswerSilent, AnswerEmpty, ModelRaises, ForcedFails, Finalize, Leave,
                Fixed, Batch, Acts
  <2> QED
    BY <2>1, CallsKept
<1> QED
  BY <1>1, <1>2, <1>3 DEF Loop

LEMMA DispatchDispatch ==
    ASSUME DispatchInv, Dispatch
    PROVE  DispatchInv'
<1> USE DEF Fixed, Batch, Acts
<1>0. InTools /\ at \in Nat /\ at >= 1 /\ calls \in Seq(CallAtHand)
  BY DEF DispatchInv, CallsInv, Dispatch, StartNext, StopNext, ToolRaises, GrantedRaises,
         Acquire, ToolEnds, Process, Decide, GrantedEnds, StopBatch, EndIteration
<1>a. at <= Len(calls) => at \in DOMAIN calls
  BY <1>0
<1>1. CASE StartNext
  <2>1. "running" \in CallSt \ Untouched
    BY DEF CallSt, Untouched
  <2> QED
    BY <1>1, <1>a, <2>1, CallTaken DEF StartNext, Start
<1>2. CASE StopNext \/ ToolRaises \/ GrantedRaises \/ StopBatch
  <2>1. UNCHANGED <<ids, begun, cancel, calls, at, mode>> /\ pc' # "tools"
    BY <1>2 DEF StopNext, ToolRaises, GrantedRaises, StopBatch, Leave
  <2> QED
    BY <2>1, CallsKept
<1>3. ASSUME NEW i \in 1..MaxBatch, Acquire(i) PROVE DispatchInv'
  <2>1. /\ i \in DOMAIN calls /\ mode = "batch" /\ calls[i].st = "waiting"
        /\ \A k \in 1..(i - 1) : calls[k].st # "waiting"
        /\ UNCHANGED <<ids, mode, at, pc, cancel>>
    BY <1>3 DEF Acquire, Turn
  <2>2. CASE cancel
    <3>1. Mark(i, "cut") /\ begun' = begun
      BY <1>3, <2>2 DEF Acquire
    <3> QED
      BY <2>1, <2>2, <3>1, CallCut
  <2>3. CASE ~cancel
    <3>1. Mark(i, "running") /\ begun' = begun \cup {calls[i].id}
      BY <1>3, <2>3 DEF Acquire, Start
    <3>2. \A k \in 1..(i - 1) : calls[k].st \notin Untouched
      <4>1. \A k \in 1..(i - 1) : k \in DOMAIN calls
        BY <1>0, <2>1
      <4> QED
        BY <2>1, <2>3, <4>1 DEF DispatchInv, CallsInv, CutLate, Untouched
    <3> QED
      BY <2>1, <3>1, <3>2, CallTaken DEF CallSt, Untouched
  <2> QED
    BY <2>2, <2>3
<1>4. ASSUME NEW i \in 1..MaxBatch, NEW st \in {"told", "held"}, ToolEnds(i, st)
      PROVE  DispatchInv'
  <2>1. /\ st \in CallSt \ Untouched
        /\ i \in DOMAIN calls /\ calls[i].st \notin Untouched
    BY <1>4 DEF ToolEnds, CallSt, Ended, Untouched
  <2> QED
    BY <1>4, <2>1, CallTaken DEF ToolEnds
<1>5. CASE Process
  <2>1. /\ at' = at + 1 /\ UNCHANGED <<ids, begun, cancel, calls, mode>>
    BY <1>5 DEF Process
  <2> QED
    BY <1>0, <2>1 DEF DispatchInv, CallsInv, Unique, Numbered, InOrder, CutLate, NotBegun,
                      InTools, CallAtHand, CallSt, Ended, Untouched
<1>6. ASSUME NEW b \in BOOLEAN, Decide(b) PROVE DispatchInv'
  <2>1. /\ at \in DOMAIN calls /\ calls[at].st \notin Untouched
        /\ UNCHANGED <<ids, mode, at, pc, cancel>>
    BY <1>6, <1>a DEF Decide, Untouched
  <2>2. PICK st \in {"granted", "told"} : Mark(at, st)
    BY <1>6 DEF Decide
  <2>3. st \in CallSt \ Untouched
    BY DEF CallSt, Ended, Untouched
  <2>4. begun' \in {begun, begun \cup {calls[at].id}}
    BY <1>6 DEF Decide, Start
  <2> QED
    BY <2>1, <2>2, <2>3, <2>4, CallTaken
<1>7. CASE GrantedEnds
  <2>1. "told" \in CallSt \ Untouched
    BY DEF CallSt, Ended, Untouched
  <2>2. at \in DOMAIN calls /\ calls[at].st \notin Untouched
    BY <1>7, <1>a DEF GrantedEnds, Untouched
  <2> QED
    BY <1>7, <2>1, <2>2, CallTaken DEF GrantedEnds
<1>8. ASSUME NEW cycle \in BOOLEAN, EndIteration(cycle) PROVE DispatchInv'
  <2>1. ids' = ids /\ begun' = begun /\ calls' = <<>> /\ at' = 0 /\ pc' # "tools"
    BY <1>8 DEF EndIteration
  <2> QED
    BY <2>1, CallsDropped
<1> QED
  BY <1>1, <1>2, <1>3, <1>4, <1>5, <1>6, <1>7, <1>8 DEF Dispatch

LEMMA OtherDispatch ==
    ASSUME DispatchInv,
           \/ \E r \in Requests : LoadHistory(r) \/ StartTurn(r) \/ Queue(r) \/ StartTask(r)
           \/ Cancel \/ MoveMark \/ TaskTimesOut \/ Persist \/ PersistFails \/ Die
    PROVE  DispatchInv'
<1>1. CASE \/ \E r \in Requests : LoadHistory(r) \/ StartTurn(r) \/ Queue(r) \/ StartTask(r)
           \/ MoveMark \/ TaskTimesOut
  <2>1. UNCHANGED <<ids, begun, cancel, calls, at, mode>> /\ (pc' = pc \/ pc' # "tools")
    BY <1>1 DEF LoadHistory, MoveMark, StartTurn, Queue, StartTask, TaskTimesOut, Begin, Leave,
                Fixed, Batch, Acts, run, facts
  <2> QED
    BY <2>1, CallsKept
<1>2. CASE Cancel
  <2>1. UNCHANGED <<ids, begun, calls, at, mode, pc>> /\ cancel'
    BY <1>2 DEF Cancel, run, facts
  <2> QED
    BY <2>1 DEF DispatchInv, CallsInv, Unique, Numbered, InOrder, CutLate, NotBegun,
                InTools, CallAtHand, CallSt, Ended, Untouched
<1>3. CASE Persist \/ PersistFails \/ Die
  <2>1. ids' = ids /\ begun' = begun /\ calls' = <<>> /\ at' = 0 /\ pc' # "tools"
    BY <1>3 DEF Persist, PersistFails, Die, EndRun, Release
  <2> QED
    BY <2>1, CallsDropped
<1> QED
  BY <1>1, <1>2, <1>3

LEMMA StepDispatch ==
    ASSUME DispatchInv, [Next]_vars
    PROVE  DispatchInv'
<1>1. CASE UNCHANGED vars
  BY <1>1 DEF vars, run, facts, DispatchInv, CallsInv, Unique, Numbered, InOrder, CutLate,
              NotBegun, InTools, CallAtHand, CallSt, Ended, Untouched
<1>2. CASE Next
  BY <1>2, LoopDispatch, DispatchDispatch, OtherDispatch DEF Next
<1> QED
  BY <1>1, <1>2

LEMMA DispatchShows ==
    ASSUME DispatchInv
    PROVE  CutNotBegun
<1> SUFFICES ASSUME NEW i \in DOMAIN calls,
                    IsCut(i) \/ calls[i].st = "waiting"
             PROVE  calls[i].id \notin begun
  BY DEF CutNotBegun
<1>1. CASE calls[i].st = "waiting"
  BY <1>1 DEF DispatchInv, CallsInv, NotBegun, Untouched
<1>2. CASE IsCut(i)
  <2>1. PICK j \in 1..i : calls[j].st = "cut"
    BY <1>2 DEF IsCut
  <2>2. j \in DOMAIN calls
    BY <2>1 DEF DispatchInv, CallsInv
  <2>3. calls[i].st \in Untouched
    <3>1. mode = "batch"
      BY <2>1, <2>2 DEF DispatchInv, CallsInv, CutLate
    <3> QED
      BY <2>1, <2>2, <3>1 DEF DispatchInv, CallsInv, InOrder, Untouched
  <2> QED
    BY <2>3 DEF DispatchInv, CallsInv, NotBegun
<1> QED
  BY <1>1, <1>2


---------------------------------------------------------------------------
(* The values of the variables, and the calls against what took effect.    *)

Scalars ==
    /\ phase \in [Requests -> Phase] /\ seen \in [Requests -> Nat]
    /\ who \in Requests \cup {NoOne} /\ kind \in {"none", "chat", "task"}
    /\ pc \in {"idle", "head", "calling", "tools", "retry", "final", "persist"}
    /\ iter \in 0..(MaxIterations - 1) /\ mode \in Hows \cup {"none"}
    /\ made \in BOOLEAN /\ cancel \in BOOLEAN
    /\ outcome \in {"none", "answered", "cancelled", "raised"}
    /\ ids \in 0..MaxWork /\ cancels \in 0..MaxCancels /\ faults \in 0..MaxFaults
    /\ lost \subseteq ran /\ ran \subseteq begun /\ overtaken \subseteq Requests
    /\ (who = NoOne) = (pc = "idle")
    /\ pc # "idle" => kind \in {"chat", "task"}
    /\ pc = "persist" => outcome # "none"

(* What was taken up has begun, what was processed has ended, one at a     *)
(* time means the rest waits, and a run that did not raise leaves no       *)
(* result behind.                                                          *)
Batched ==
    /\ pc \notin {"tools", "persist"} => calls = <<>>
    /\ at \in 0..(Len(calls) + 1)
    /\ \A i \in DOMAIN calls : i < at => calls[i].st \in Ended
    /\ \A i \in DOMAIN calls : calls[i].st \notin Untouched => calls[i].id \in begun
    /\ mode = "single" => \A i \in DOMAIN calls : i > at => calls[i].st = "waiting"
    /\ pc = "persist" /\ outcome # "raised" =>
          \A i \in DOMAIN calls : i >= at => calls[i].id \notin ran

LEMMA RoomLeft ==
    ASSUME NEW n \in Nat, Room(n), ids \in Nat
    PROVE  ids + n <= MaxWork
<1> DEFINE c == Cardinality({r \in Requests : phase[r] # "new"})
<1>1. c \in Nat
  <2>1. IsFiniteSet({r \in Requests : phase[r] # "new"})
    BY AgentLoopAssumption, FS_Subset
  <2> QED
    BY <2>1, FS_CardinalityType
<1>2. c + ids + n <= MaxWork
  BY DEF Room
<1> HIDE DEF c
<1> QED
  BY <1>1, <1>2, AgentLoopAssumption

LEMMA InitScalars == Init => Scalars /\ Batched
<1> SUFFICES ASSUME Init PROVE Scalars /\ Batched
  OBVIOUS
<1>1. phase \in [Requests -> Phase] /\ seen \in [Requests -> Nat]
  BY DEF Init, Phase
<1>2. /\ 0 \in 0..(MaxIterations - 1) /\ 0 \in 0..MaxWork
      /\ 0 \in 0..MaxCancels /\ 0 \in 0..MaxFaults
  BY AgentLoopAssumption
<1>3. Scalars
  BY <1>1, <1>2 DEF Init, Scalars, Hows
<1>4. Batched
  BY DEF Init, Batched
<1> QED
  BY <1>3, <1>4

LEMMA ScalarsLoop ==
    ASSUME Scalars, Loop
    PROVE  Scalars'
<1> USE AgentLoopAssumption DEF Scalars, Fixed, Batch, Acts, Leave, Finalize, Hows
<1>1. CASE StopAtHead \/ OverLimit \/ Refuse \/ CallModel \/ DropAnswer \/ AnswerText
  BY <1>1 DEF StopAtHead, OverLimit, Refuse, CallModel, DropAnswer, AnswerText
<1>2. CASE AnswerSilent \/ AnswerEmpty \/ ModelRaises \/ ForcedFails
  BY <1>2 DEF AnswerSilent, AnswerEmpty, ModelRaises, ForcedFails
<1>3. ASSUME NEW n \in 1..MaxBatch, NEW how \in Hows, AnswerCalls(n, how) PROVE Scalars'
  <2>1. n \in Nat /\ Room(n)
    BY <1>3 DEF AnswerCalls
  <2>2. ids + n <= MaxWork /\ ids + n \in Nat
    BY <2>1, RoomLeft
  <2> QED
    BY <1>3, <2>2 DEF AnswerCalls
<1>4. ASSUME NEW stray \in 0..1, ForcedAnswer(stray) PROVE Scalars'
  <2>1. stray \in Nat /\ Room(stray)
    BY <1>4 DEF ForcedAnswer
  <2>2. ids + stray <= MaxWork /\ ids + stray \in Nat
    BY <2>1, RoomLeft
  <2> QED
    BY <1>4, <2>2 DEF ForcedAnswer
<1> QED
  BY <1>1, <1>2, <1>3, <1>4 DEF Loop

LEMMA ScalarsDispatch ==
    ASSUME Scalars, Batched, DispatchInv, Dispatch
    PROVE  Scalars'
<1> USE AgentLoopAssumption DEF Scalars, Fixed, Batch, Acts, Leave, Hows
<1>0. calls \in Seq(CallAtHand) /\ at \in Nat /\ (InTools => at >= 1)
  BY DEF DispatchInv, CallsInv
<1>1. CASE StartNext
  BY <1>1 DEF StartNext, Start, InTools
<1>2. CASE StopNext \/ ToolRaises \/ GrantedRaises \/ StopBatch
  <2>1. /\ pc # "idle" /\ pc' = "persist" /\ outcome' \in {"cancelled", "raised"}
        /\ UNCHANGED <<phase, seen, who, kind, cancel, cancels, lost, overtaken>>
        /\ UNCHANGED <<mode, ids, ran, begun, iter, made>>
        /\ faults' \in 0..MaxFaults
    <3>1. CASE StopNext
      BY <3>1 DEF StopNext, InTools
    <3>2. CASE ToolRaises
      BY <3>2 DEF ToolRaises, InTools
    <3>3. CASE GrantedRaises
      BY <3>3 DEF GrantedRaises, InTools
    <3>4. CASE StopBatch
      BY <3>4 DEF StopBatch, InTools
    <3> QED
      BY <1>2, <3>1, <3>2, <3>3, <3>4
  <2> QED
    BY <2>1
<1>3. ASSUME NEW i \in 1..MaxBatch, Acquire(i) PROVE Scalars'
  BY <1>3 DEF Acquire, Start, InTools
<1>4. ASSUME NEW i \in 1..MaxBatch, NEW st \in {"told", "held"}, ToolEnds(i, st) PROVE Scalars'
  <2>1. calls[i].id \in begun
    BY <1>4 DEF ToolEnds, Batched, Untouched
  <2> QED
    BY <1>4, <2>1 DEF ToolEnds, InTools
<1>5. CASE Process
  BY <1>5 DEF Process, InTools
<1>6. ASSUME NEW b \in BOOLEAN, Decide(b) PROVE Scalars'
  BY <1>6 DEF Decide, Start, InTools
<1>7. CASE GrantedEnds
  <2>1. at \in DOMAIN calls
    BY <1>0, <1>7 DEF GrantedEnds
  <2>2. calls[at].id \in begun
    BY <1>7, <2>1 DEF GrantedEnds, Batched, Untouched
  <2> QED
    BY <1>7, <2>2 DEF GrantedEnds, InTools
<1>8. ASSUME NEW cycle \in BOOLEAN, EndIteration(cycle) PROVE Scalars'
  BY <1>8 DEF EndIteration, InTools
<1> QED
  BY <1>1, <1>2, <1>3, <1>4, <1>5, <1>6, <1>7, <1>8 DEF Dispatch

(* The steps of requests that wait, and of the session beside its run.     *)
Waits == (\E r \in Requests : LoadHistory(r) \/ Queue(r)) \/ Cancel \/ MoveMark

LEMMA ScalarsOther ==
    ASSUME Scalars, Len(store) \in Nat,
           \/ \E r \in Requests : LoadHistory(r) \/ StartTurn(r) \/ Queue(r) \/ StartTask(r)
           \/ Cancel \/ MoveMark \/ TaskTimesOut \/ Persist \/ PersistFails \/ Die
    PROVE  Scalars'
<1> USE DEF Scalars
<1>1. ASSUME NEW r \in Requests, LoadHistory(r) PROVE Scalars'
  BY <1>1 DEF LoadHistory, run, facts, Phase
<1>2. ASSUME NEW r \in Requests, StartTurn(r) \/ StartTask(r) PROVE Scalars'
  <2>1. phase' \in [Requests -> Phase] /\ seen' \in [Requests -> Nat]
    <3>1. phase' = [phase EXCEPT ![r] = "running"] /\ (seen' = seen \/ seen' = [seen EXCEPT ![r] = 0])
      BY <1>2 DEF StartTurn, StartTask, Begin
    <3> QED
      BY <3>1 DEF Phase
  <2>2. /\ who' = r /\ kind' \in {"chat", "task"} /\ pc' = "head" /\ r # NoOne
        /\ UNCHANGED <<iter, mode, made, outcome, cancel, ids, ran, lost, overtaken, begun,
                       cancels, faults>>
    BY <1>2, AgentLoopAssumption DEF StartTurn, StartTask, Begin, facts
  <2> QED
    BY <2>1, <2>2
<1>3. ASSUME NEW r \in Requests, Queue(r) PROVE Scalars'
  BY <1>3 DEF Queue, run, facts, Phase
<1>4. CASE Cancel
  BY <1>4, AgentLoopAssumption DEF Cancel, run, facts, Phase
<1>m. CASE MoveMark
  BY <1>m DEF MoveMark, run, facts
<1>5. CASE TaskTimesOut
  BY <1>5, AgentLoopAssumption DEF TaskTimesOut, Leave, Fixed, Batch, Acts
<1>6. CASE Persist \/ PersistFails
  <2>1. phase' \in [Requests -> Phase]
    BY <1>6 DEF Persist, PersistFails, EndRun, Phase
  <2>2. /\ who' = NoOne /\ kind' = "none" /\ pc' = "idle" /\ iter' = 0 /\ mode' = "none"
        /\ made' = FALSE /\ outcome' = "none" /\ cancel' = FALSE
        /\ UNCHANGED <<seen, ids, ran, begun, cancels>>
    BY <1>6 DEF Persist, PersistFails, EndRun, Release
  <2>3. lost' \subseteq ran /\ overtaken' \subseteq Requests /\ faults' \in 0..MaxFaults
    BY <1>6, AgentLoopAssumption DEF Persist, PersistFails, EndRun, Lose
  <2>4. 0 \in 0..(MaxIterations - 1)
    BY AgentLoopAssumption
  <2> QED
    BY <2>1, <2>2, <2>3, <2>4
<1>7. CASE Die
  <2>1. phase' \in [Requests -> Phase] /\ seen' \in [Requests -> Nat]
    BY <1>7 DEF Die, Phase
  <2>2. /\ who' = NoOne /\ kind' = "none" /\ pc' = "idle" /\ iter' = 0 /\ mode' = "none"
        /\ made' = FALSE /\ outcome' = "none" /\ cancel' = FALSE
        /\ UNCHANGED <<ids, ran, overtaken, begun, cancels>>
    BY <1>7 DEF Die, Release
  <2>3. lost' \subseteq ran /\ faults' \in 0..MaxFaults
    BY <1>7, AgentLoopAssumption DEF Die, Lose
  <2>4. 0 \in 0..(MaxIterations - 1)
    BY AgentLoopAssumption
  <2> QED
    BY <2>1, <2>2, <2>3, <2>4
<1> QED
  BY <1>1, <1>2, <1>3, <1>4, <1>m, <1>5, <1>6, <1>7

(* A mark on a call leaves its id and the other calls.                     *)
LEMMA BatchedMark ==
    ASSUME Batched, DispatchInv, InTools, NEW i \in DOMAIN calls, NEW st \in CallSt, Mark(i, st),
           UNCHANGED <<at, mode, pc>>, begun \subseteq begun',
           i >= at \/ st \in Ended,
           st \notin Untouched => calls[i].id \in begun',
           mode = "single" => i <= at
    PROVE  Batched'
<1>1. /\ calls' \in Seq(CallAtHand) /\ DOMAIN calls' = DOMAIN calls
      /\ calls \in Seq(CallAtHand)
      /\ \A j \in DOMAIN calls : calls'[j].id = calls[j].id
      /\ \A j \in DOMAIN calls : j # i => calls'[j].st = calls[j].st
      /\ calls'[i].st = st
  BY Marked DEF DispatchInv, CallsInv
<1>2. Len(calls') = Len(calls) /\ DOMAIN calls \subseteq Nat
  BY <1>1
<1>3. pc' = "tools" /\ at' \in Nat
  BY DEF InTools, DispatchInv
<1>4. \A j \in DOMAIN calls' : j < at' => calls'[j].st \in Ended
  BY <1>1, <1>2, <1>3 DEF Batched
<1>5. \A j \in DOMAIN calls' : calls'[j].st \notin Untouched => calls'[j].id \in begun'
  BY <1>1 DEF Batched
<1>6. mode' = "single" => \A j \in DOMAIN calls' : j > at' => calls'[j].st = "waiting"
  BY <1>1, <1>2, <1>3 DEF Batched
<1> QED
  BY <1>2, <1>3, <1>4, <1>5, <1>6 DEF Batched

LEMMA BatchedDispatch ==
    ASSUME Scalars, Batched, DispatchInv, Dispatch
    PROVE  Batched'
<1> USE DEF Fixed, Batch, Acts
<1>0. InTools /\ at \in Nat /\ at >= 1 /\ calls \in Seq(CallAtHand) /\ Len(calls) \in Nat
  BY DEF DispatchInv, CallsInv, Dispatch, StartNext, StopNext, ToolRaises, GrantedRaises,
         Acquire, ToolEnds, Process, Decide, GrantedEnds, StopBatch, EndIteration
<1>a. at <= Len(calls) => at \in DOMAIN calls
  BY <1>0
<1>b. \A i \in DOMAIN calls : i \in Nat
  BY <1>0
<1>1. CASE StartNext
  <2>1. /\ Mark(at, "running") /\ begun' = begun \cup {calls[at].id} /\ "running" \in CallSt
        /\ at \in DOMAIN calls /\ UNCHANGED <<at, mode, pc>>
    BY <1>1, <1>a DEF StartNext, Start, CallSt
  <2> QED
    BY <1>0, <2>1, BatchedMark
<1>2. CASE StopNext
  <2>1. /\ UNCHANGED <<calls, at, mode, begun, ran>> /\ pc' = "persist" /\ outcome' = "cancelled"
        /\ mode = "single" /\ calls[at].st = "waiting" /\ at \in DOMAIN calls
    BY <1>2, <1>a DEF StopNext, Leave
  <2>2. \A i \in DOMAIN calls : i >= at => calls[i].st = "waiting"
    BY <1>0, <1>b, <2>1 DEF Batched
  <2>3. \A i \in DOMAIN calls : i >= at => calls[i].id \notin ran
    BY <2>2 DEF DispatchInv, CallsInv, NotBegun, Scalars, Untouched
  <2> QED
    BY <2>1, <2>3 DEF Batched
<1>3. CASE ToolRaises \/ GrantedRaises
  BY <1>3 DEF ToolRaises, GrantedRaises, Leave, Batched
<1>4. ASSUME NEW i \in 1..MaxBatch, Acquire(i) PROVE Batched'
  <2>1. /\ i \in DOMAIN calls /\ mode = "batch" /\ UNCHANGED <<at, mode, pc>>
        /\ calls[i].st = "waiting"
    BY <1>4 DEF Acquire, Turn
  <2>2. i >= at
    BY <1>0, <1>b, <2>1 DEF Batched, Ended
  <2>3. CASE cancel
    <3>1. Mark(i, "cut") /\ begun' = begun /\ "cut" \in CallSt /\ "cut" \in Untouched
      BY <1>4, <2>3 DEF Acquire, CallSt, Ended, Untouched
    <3> QED
      BY <1>0, <2>1, <2>2, <3>1, BatchedMark
  <2>4. CASE ~cancel
    <3>1. Mark(i, "running") /\ begun' = begun \cup {calls[i].id} /\ "running" \in CallSt
      BY <1>4, <2>4 DEF Acquire, Start, CallSt
    <3> QED
      BY <1>0, <2>1, <2>2, <3>1, BatchedMark
  <2> QED
    BY <2>3, <2>4
<1>5. ASSUME NEW i \in 1..MaxBatch, NEW st \in {"told", "held"}, ToolEnds(i, st)
      PROVE  Batched'
  <2>1. /\ i \in DOMAIN calls /\ calls[i].st = "running" /\ Mark(i, st) /\ st \in CallSt
        /\ st \in Ended /\ UNCHANGED <<at, mode, pc, begun>>
    BY <1>5 DEF ToolEnds, CallSt, Ended
  <2>2. calls[i].id \in begun
    BY <2>1 DEF Batched, Untouched
  <2>3. mode = "single" => i <= at
    BY <1>0, <1>b, <2>1 DEF Batched
  <2> QED
    BY <1>0, <2>1, <2>2, <2>3, BatchedMark
<1>6. CASE Process
  <2>1. /\ at <= Len(calls) /\ Settled /\ at' = at + 1 /\ UNCHANGED <<calls, mode, pc, begun>>
        /\ at \in DOMAIN calls
    BY <1>6, <1>a DEF Process
  <2>2. calls[at].st \in Ended
    BY <2>1 DEF Settled
  <2>3. \A i \in DOMAIN calls : i < at' => calls[i].st \in Ended
    BY <1>0, <1>b, <2>1, <2>2 DEF Batched
  <2>4. mode = "single" => \A i \in DOMAIN calls : i > at' => calls[i].st = "waiting"
    BY <1>0, <1>b, <2>1 DEF Batched
  <2> QED
    BY <1>0, <2>1, <2>3, <2>4 DEF Batched, InTools
<1>7. ASSUME NEW b \in BOOLEAN, Decide(b) PROVE Batched'
  <2>1. /\ at \in DOMAIN calls /\ calls[at].st = "held" /\ UNCHANGED <<at, mode, pc>>
        /\ begun \subseteq begun'
    BY <1>7, <1>a DEF Decide, Start
  <2>2. PICK st \in {"granted", "told"} : Mark(at, st)
    BY <1>7 DEF Decide
  <2>3. calls[at].id \in begun /\ st \in CallSt
    BY <2>1 DEF Batched, Untouched, CallSt, Ended
  <2> QED
    BY <1>0, <2>1, <2>2, <2>3, BatchedMark
<1>8. CASE GrantedEnds
  <2>1. /\ at \in DOMAIN calls /\ calls[at].st = "granted" /\ UNCHANGED <<at, mode, pc, begun>>
        /\ Mark(at, "told") /\ "told" \in CallSt
    BY <1>8, <1>a DEF GrantedEnds, CallSt, Ended
  <2>2. calls[at].id \in begun
    BY <2>1 DEF Batched, Untouched
  <2> QED
    BY <1>0, <2>1, <2>2, BatchedMark
<1>9. CASE StopBatch
  <2>1. UNCHANGED <<calls, at, mode, begun, ran>> /\ pc' = "persist" /\ at > Len(calls)
    BY <1>9 DEF StopBatch, Leave
  <2>2. \A i \in DOMAIN calls : ~(i >= at)
    BY <1>0, <2>1
  <2> QED
    BY <2>1, <2>2 DEF Batched
<1>10. ASSUME NEW cycle \in BOOLEAN, EndIteration(cycle) PROVE Batched'
  <2>1. calls' = <<>> /\ at' = 0 /\ pc' # "persist"
    BY <1>10 DEF EndIteration
  <2> QED
    BY <2>1 DEF Batched
<1> QED
  BY <1>1, <1>2, <1>3, <1>4, <1>5, <1>6, <1>7, <1>8, <1>9, <1>10 DEF Dispatch

LEMMA BatchedLoop ==
    ASSUME Scalars, Batched, DispatchInv, Loop
    PROVE  Batched'
<1> USE DEF Fixed, Batch, Acts, Leave, Finalize
<1>1. CASE StopAtHead \/ OverLimit \/ Refuse \/ CallModel \/ DropAnswer \/ AnswerText
           \/ AnswerSilent \/ AnswerEmpty \/ ModelRaises \/ ForcedFails
           \/ \E stray \in 0..1 : ForcedAnswer(stray)
  <2>1. calls = <<>> /\ UNCHANGED <<calls, at, mode, begun>>
    BY <1>1 DEF StopAtHead, OverLimit, Refuse, CallModel, DropAnswer, AnswerText,
                AnswerSilent, AnswerEmpty, ModelRaises, ForcedFails, ForcedAnswer, Batched
  <2> QED
    BY <2>1 DEF Batched
<1>2. ASSUME NEW n \in 1..MaxBatch, NEW how \in Hows, AnswerCalls(n, how) PROVE Batched'
  <2>0. n \in Nat /\ n >= 1 /\ ids \in Nat
    BY AgentLoopAssumption DEF DispatchInv
  <2>1. /\ calls' = [k \in 1..n |-> [id |-> ids + k, st |-> "waiting"]]
        /\ at' = 1 /\ pc' = "tools"
    BY <1>2 DEF AnswerCalls
  <2>2. /\ Len(calls') = n /\ DOMAIN calls' = 1..n
        /\ \A k \in 1..n : calls'[k].st = "waiting"
    BY <2>0, <2>1
  <2> QED
    BY <2>0, <2>1, <2>2 DEF Batched, Untouched
<1> QED
  BY <1>1, <1>2 DEF Loop

LEMMA BatchedOther ==
    ASSUME Scalars, Batched, DispatchInv,
           \/ \E r \in Requests : LoadHistory(r) \/ StartTurn(r) \/ Queue(r) \/ StartTask(r)
           \/ Cancel \/ MoveMark \/ TaskTimesOut \/ Persist \/ PersistFails \/ Die
    PROVE  Batched'
<1>1. CASE Waits
  <2>1. UNCHANGED <<calls, at, mode, begun, ran, pc, outcome>>
    BY <1>1 DEF Waits, LoadHistory, Queue, Cancel, MoveMark, run, facts
  <2> QED
    BY <2>1 DEF Batched
<1>2. CASE \E r \in Requests : StartTurn(r) \/ StartTask(r)
  <2>1. UNCHANGED <<calls, at, mode, begun>> /\ pc' = "head" /\ pc = "idle"
    BY <1>2 DEF StartTurn, StartTask, Begin, facts, Scalars
  <2> QED
    BY <2>1 DEF Batched
<1>3. CASE TaskTimesOut
  <2>1. UNCHANGED <<calls, at, mode, begun>> /\ pc' = "persist" /\ outcome' = "raised"
    BY <1>3 DEF TaskTimesOut, Leave, Fixed, Batch, Acts
  <2> QED
    BY <2>1 DEF Batched
<1>4. CASE Persist \/ PersistFails \/ Die
  <2>1. calls' = <<>> /\ at' = 0 /\ pc' = "idle"
    BY <1>4 DEF Persist, PersistFails, Die, EndRun, Release
  <2> QED
    BY <2>1 DEF Batched
<1> QED
  BY <1>1, <1>2, <1>3, <1>4 DEF Waits

LEMMA StepScalars ==
    ASSUME Scalars, Batched, DispatchInv, Len(store) \in Nat, [Next]_vars
    PROVE  Scalars' /\ Batched'
<1>1. CASE Next
  BY <1>1, ScalarsLoop, ScalarsDispatch, ScalarsOther, BatchedLoop, BatchedDispatch,
     BatchedOther DEF Next
<1>2. CASE UNCHANGED vars
  BY <1>2 DEF vars, run, facts, Scalars, Batched
<1> QED
  BY <1>1, <1>2

---------------------------------------------------------------------------
(* Cut answers: their calls were given, have not begun and are not at hand.*)

Left   == {calls[i].id : i \in {j \in DOMAIN calls : InTools /\ j >= at}}
CutIds == (1..ids) \ (begun \cup Left)

(* A call that is taken up was at hand, and calls at hand are not answered.*)
LEMMA CutIdsMark ==
    ASSUME DispatchInv, NEW i \in DOMAIN calls, NEW st \in CallSt, Mark(i, st), i >= at,
           InTools, UNCHANGED <<at, pc, ids>>, begun' \in {begun, begun \cup {calls[i].id}}
    PROVE  CutIds \subseteq CutIds'
<1>1. /\ DOMAIN calls' = DOMAIN calls
      /\ \A j \in DOMAIN calls : calls'[j].id = calls[j].id
  BY Marked DEF DispatchInv, CallsInv
<1>2. Left' \subseteq Left
  BY <1>1 DEF Left, InTools
<1>3. calls[i].id \in Left
  BY DEF Left
<1> QED
  BY <1>2, <1>3 DEF CutIds

LEMMA CutIdsStay ==
    ASSUME UNCHANGED <<ids, begun>>, UNCHANGED calls \/ calls' = <<>>,
           at \in Nat, calls \in Seq(CallAtHand),
           InTools' => InTools /\ at' \in Nat /\ at' >= at
    PROVE  CutIds \subseteq CutIds'
<1>1. Left' \subseteq Left
  <2>1. CASE calls' = <<>>
    BY <2>1 DEF Left
  <2>2. CASE UNCHANGED calls
    <3>1. \A j \in DOMAIN calls : j \in Nat
      OBVIOUS
    <3>2. \A j \in DOMAIN calls : InTools' /\ j >= at' => InTools /\ j >= at
      BY <3>1
    <3> QED
      BY <2>2, <3>2 DEF Left
  <2> QED
    BY <2>1, <2>2
<1> QED
  BY <1>1 DEF CutIds

LEMMA CutIdsLoop ==
    ASSUME Scalars, Batched, DispatchInv, Loop
    PROVE  CutIds \subseteq CutIds'
<1> USE DEF Fixed, Batch, Acts, Leave, Finalize
<1>0. at \in Nat /\ calls \in Seq(CallAtHand) /\ ids \in Nat
  BY DEF DispatchInv, CallsInv
<1>1. CASE StopAtHead \/ OverLimit \/ Refuse \/ CallModel \/ DropAnswer \/ AnswerText
           \/ AnswerSilent \/ AnswerEmpty \/ ModelRaises \/ ForcedFails
  <2>1. UNCHANGED <<ids, begun, calls>> /\ pc' # "tools"
    BY <1>1 DEF StopAtHead, OverLimit, Refuse, CallModel, DropAnswer, AnswerText,
                AnswerSilent, AnswerEmpty, ModelRaises, ForcedFails
  <2> QED
    BY <1>0, <2>1, CutIdsStay DEF InTools
<1>2. ASSUME NEW stray \in 0..1, ForcedAnswer(stray) PROVE CutIds \subseteq CutIds'
  <2>1. ids' = ids + stray /\ begun' = begun /\ Left' = {}
    BY <1>2 DEF ForcedAnswer, Left, InTools
  <2> QED
    BY <1>0, <2>1 DEF CutIds
<1>3. ASSUME NEW n \in 1..MaxBatch, NEW how \in Hows, AnswerCalls(n, how)
      PROVE  CutIds \subseteq CutIds'
  <2>0. n \in Nat
    BY AgentLoopAssumption
  <2>1. /\ calls' = [k \in 1..n |-> [id |-> ids + k, st |-> "waiting"]]
        /\ ids' = ids + n /\ begun' = begun
    BY <1>3 DEF AnswerCalls
  <2>2. DOMAIN calls' = 1..n /\ \A k \in 1..n : calls'[k].id = ids + k
    BY <2>1
  <2>3. \A c \in Left' : c > ids
    BY <1>0, <2>0, <2>2 DEF Left
  <2> QED
    BY <1>0, <2>0, <2>1, <2>3 DEF CutIds
<1> QED
  BY <1>1, <1>2, <1>3 DEF Loop

LEMMA CutIdsDispatch ==
    ASSUME Scalars, Batched, DispatchInv, Dispatch
    PROVE  CutIds \subseteq CutIds'
<1> USE DEF Fixed, Batch, Acts
<1>0. InTools /\ at \in Nat /\ at >= 1 /\ calls \in Seq(CallAtHand) /\ Len(calls) \in Nat
  BY DEF DispatchInv, CallsInv, Dispatch, StartNext, StopNext, ToolRaises, GrantedRaises,
         Acquire, ToolEnds, Process, Decide, GrantedEnds, StopBatch, EndIteration
<1>a. at <= Len(calls) => at \in DOMAIN calls
  BY <1>0
<1>b. \A i \in DOMAIN calls : i \in Nat
  BY <1>0
<1>c. \A i \in DOMAIN calls : calls[i].st \in {"waiting", "running"} => i >= at
  BY <1>0, <1>b DEF Batched, Ended
<1>1. CASE StartNext
  <2>1. /\ Mark(at, "running") /\ begun' = begun \cup {calls[at].id} /\ "running" \in CallSt
        /\ at \in DOMAIN calls /\ UNCHANGED <<at, ids, pc>>
    BY <1>1, <1>a DEF StartNext, Start, CallSt
  <2> QED
    BY <1>0, <2>1, CutIdsMark
<1>2. CASE StopNext \/ ToolRaises \/ GrantedRaises \/ StopBatch
  <2>1. UNCHANGED <<ids, begun, calls>> /\ pc' # "tools"
    BY <1>2 DEF StopNext, ToolRaises, GrantedRaises, StopBatch, Leave
  <2> QED
    BY <1>0, <2>1, CutIdsStay DEF InTools
<1>3. ASSUME NEW i \in 1..MaxBatch, Acquire(i) PROVE CutIds \subseteq CutIds'
  <2>1. /\ i \in DOMAIN calls /\ calls[i].st = "waiting" /\ UNCHANGED <<at, ids, pc>>
        /\ begun' \in {begun, begun \cup {calls[i].id}}
    BY <1>3 DEF Acquire, Turn, Start
  <2>2. PICK st \in {"cut", "running"} : Mark(i, st)
    BY <1>3 DEF Acquire
  <2>3. st \in CallSt
    BY DEF CallSt, Ended
  <2> QED
    BY <1>0, <1>c, <2>1, <2>2, <2>3, CutIdsMark
<1>4. ASSUME NEW i \in 1..MaxBatch, NEW st \in {"told", "held"}, ToolEnds(i, st)
      PROVE  CutIds \subseteq CutIds'
  <2>1. /\ i \in DOMAIN calls /\ calls[i].st = "running" /\ UNCHANGED <<at, ids, pc, begun>>
        /\ Mark(i, st) /\ st \in CallSt
    BY <1>4 DEF ToolEnds, CallSt, Ended
  <2> QED
    BY <1>0, <1>c, <2>1, CutIdsMark
<1>5. CASE Process
  <2>1. UNCHANGED <<ids, begun, calls, pc>> /\ at' = at + 1
    BY <1>5 DEF Process
  <2> QED
    BY <1>0, <2>1, CutIdsStay DEF InTools
<1>6. ASSUME NEW b \in BOOLEAN, Decide(b) PROVE CutIds \subseteq CutIds'
  <2>1. /\ at \in DOMAIN calls /\ UNCHANGED <<at, ids, pc>>
        /\ begun' \in {begun, begun \cup {calls[at].id}}
    BY <1>6, <1>a DEF Decide, Start
  <2>2. PICK st \in {"granted", "told"} : Mark(at, st)
    BY <1>6 DEF Decide
  <2>3. st \in CallSt
    BY DEF CallSt, Ended
  <2> QED
    BY <1>0, <2>1, <2>2, <2>3, CutIdsMark
<1>7. CASE GrantedEnds
  <2>1. /\ at \in DOMAIN calls /\ UNCHANGED <<at, ids, pc, begun>> /\ Mark(at, "told")
        /\ "told" \in CallSt
    BY <1>7, <1>a DEF GrantedEnds, CallSt, Ended
  <2> QED
    BY <1>0, <2>1, CutIdsMark
<1>8. ASSUME NEW cycle \in BOOLEAN, EndIteration(cycle) PROVE CutIds \subseteq CutIds'
  <2>1. UNCHANGED <<ids, begun>> /\ calls' = <<>> /\ pc' # "tools"
    BY <1>8 DEF EndIteration
  <2> QED
    BY <1>0, <2>1, CutIdsStay DEF InTools
<1> QED
  BY <1>1, <1>2, <1>3, <1>4, <1>5, <1>6, <1>7, <1>8 DEF Dispatch

LEMMA CutIdsGrow ==
    ASSUME Scalars, Batched, DispatchInv, [Next]_vars
    PROVE  CutIds \subseteq CutIds'
<1>0. at \in Nat /\ calls \in Seq(CallAtHand)
  BY DEF DispatchInv, CallsInv
<1>1. CASE Waits \/ UNCHANGED vars
  <2>1. UNCHANGED <<ids, begun, calls, at, pc>>
    BY <1>1 DEF Waits, LoadHistory, Queue, Cancel, MoveMark, run, facts, vars
  <2> QED
    BY <1>0, <2>1, CutIdsStay DEF InTools
<1>2. CASE (\E r \in Requests : StartTurn(r) \/ StartTask(r)) \/ TaskTimesOut
  <2>1. UNCHANGED <<ids, begun, calls>> /\ pc' # "tools"
    BY <1>2 DEF StartTurn, StartTask, Begin, TaskTimesOut, Leave, facts, Fixed, Batch, Acts
  <2> QED
    BY <1>0, <2>1, CutIdsStay DEF InTools
<1>3. CASE Persist \/ PersistFails \/ Die
  <2>1. UNCHANGED <<ids, begun>> /\ calls' = <<>> /\ pc' # "tools"
    BY <1>3 DEF Persist, PersistFails, Die, EndRun, Release
  <2> QED
    BY <1>0, <2>1, CutIdsStay DEF InTools
<1> QED
  BY <1>1, <1>2, <1>3, CutIdsLoop, CutIdsDispatch DEF Next, Waits

---------------------------------------------------------------------------
(* The rows of a run: a user's, then none of a user.                       *)

NoUser(s)   == \A i \in DOMAIN s : ~Is(s[i], "user")
OneUser(s)  == /\ Len(s) >= 1 /\ Is(s[1], "user")
               /\ \A i \in DOMAIN s : i > 1 => ~Is(s[i], "user")

LEMMA JoinedAt ==
    ASSUME NEW S, NEW s \in Seq(S), NEW t \in Seq(S)
    PROVE  /\ s \o t \in Seq(S) /\ Len(s \o t) = Len(s) + Len(t)
           /\ Len(s) \in Nat /\ Len(t) \in Nat
           /\ \A i \in DOMAIN s : i \in DOMAIN (s \o t) /\ (s \o t)[i] = s[i]
           /\ \A i \in DOMAIN t : Len(s) + i \in DOMAIN (s \o t) /\ (s \o t)[Len(s) + i] = t[i]
           /\ \A p \in DOMAIN (s \o t) :
                 \/ p \in DOMAIN s
                 \/ p > Len(s) /\ p - Len(s) \in DOMAIN t /\ (s \o t)[p] = t[p - Len(s)]
OBVIOUS

(* Turns behind turns.                                                     *)
LEMMA InTurnJoins ==
    ASSUME NEW S, NEW s \in Seq(S), NEW t \in Seq(S), InTurn(s), InTurn(t)
    PROVE  InTurn(s \o t)
<1> DEFINE u == s \o t
<1>1. /\ u \in Seq(S) /\ Len(s) \in Nat
      /\ \A i \in DOMAIN s : i \in DOMAIN u /\ u[i] = s[i]
      /\ \A i \in DOMAIN t : Len(s) + i \in DOMAIN u /\ u[Len(s) + i] = t[i]
      /\ \A p \in DOMAIN u :
            \/ p \in DOMAIN s
            \/ p > Len(s) /\ p - Len(s) \in DOMAIN t /\ u[p] = t[p - Len(s)]
  BY JoinedAt
<1>2. /\ DOMAIN s = 1..Len(s) /\ DOMAIN t = 1..Len(t) /\ Len(t) \in Nat
      /\ \A p \in DOMAIN u : p \in Nat
  BY <1>1
<1> HIDE DEF u
<1> SUFFICES ASSUME NEW p \in DOMAIN u, Is(u[p], "tool")
             PROVE  \E q \in DOMAIN u : ~Hides(u[q]) /\ u[p].id \in CallsOf(u[q]) /\ SameTurn(u, p, q)
  BY DEF InTurn, u
<1>3. CASE p \in DOMAIN s
  <2>1. u[p] = s[p]
    BY <1>1, <1>3
  <2>2. PICK j \in DOMAIN s : ~Hides(s[j]) /\ s[p].id \in CallsOf(s[j]) /\ SameTurn(s, p, j)
    BY <1>3, <2>1 DEF InTurn
  <2>3. j \in DOMAIN u /\ u[j] = s[j]
    BY <1>1
  <2>4. SameTurn(u, p, j)
    <3> SUFFICES ASSUME NEW k \in DOMAIN u, (p < k /\ k < j) \/ (j < k /\ k < p)
                 PROVE  ~Is(u[k], "user")
      BY DEF SameTurn
    <3>1. k \in DOMAIN s
      BY <1>2, <1>3
    <3> QED
      BY <1>1, <2>2, <3>1 DEF SameTurn
  <2> QED
    BY <2>1, <2>2, <2>3, <2>4
<1>4. CASE p \notin DOMAIN s
  <2> DEFINE a == p - Len(s)
  <2>1. p > Len(s) /\ a \in DOMAIN t /\ u[p] = t[a] /\ p = Len(s) + a
    BY <1>1, <1>2, <1>4
  <2> HIDE DEF a
  <2>2. PICK j \in DOMAIN t : ~Hides(t[j]) /\ t[a].id \in CallsOf(t[j]) /\ SameTurn(t, a, j)
    BY <2>1 DEF InTurn
  <2>3. Len(s) + j \in DOMAIN u /\ u[Len(s) + j] = t[j]
    BY <1>1
  <2>4. SameTurn(u, p, Len(s) + j)
    <3> SUFFICES ASSUME NEW k \in DOMAIN u,
                        (p < k /\ k < Len(s) + j) \/ (Len(s) + j < k /\ k < p)
                 PROVE  ~Is(u[k], "user")
      BY DEF SameTurn
    <3>0. j \in Nat /\ a \in Nat /\ j >= 1 /\ a >= 1 /\ k \in Nat
      BY <1>2, <2>1
    <3>1. k \notin DOMAIN s
      BY <1>2, <2>1, <3>0
    <3>2. k - Len(s) \in DOMAIN t /\ u[k] = t[k - Len(s)]
      BY <1>1, <3>1
    <3>3. (a < k - Len(s) /\ k - Len(s) < j) \/ (j < k - Len(s) /\ k - Len(s) < a)
      BY <1>1, <2>1, <3>0
    <3> QED
      BY <2>2, <3>2, <3>3 DEF SameTurn
  <2> QED
    BY <2>1, <2>2, <2>3, <2>4
<1> QED
  BY <1>3, <1>4

(* Where no user speaks but the first, all rows are of one turn.           *)
LEMMA OneTurn ==
    ASSUME NEW S, NEW s \in Seq(S), \A i \in DOMAIN s : i > 1 => ~Is(s[i], "user"),
           Answered(s) \subseteq Shown(s)
    PROVE  InTurn(s)
<1> SUFFICES ASSUME NEW i \in DOMAIN s, Is(s[i], "tool")
             PROVE  \E j \in DOMAIN s : ~Hides(s[j]) /\ s[i].id \in CallsOf(s[j]) /\ SameTurn(s, i, j)
  BY DEF InTurn
<1>1. s[i].id \in Shown(s)
  BY Members
<1>2. PICK j \in DOMAIN s : ~Hides(s[j]) /\ s[i].id \in CallsOf(s[j])
  BY <1>1, Members
<1>3. SameTurn(s, i, j)
  <2> SUFFICES ASSUME NEW k \in DOMAIN s, (i < k /\ k < j) \/ (j < k /\ k < i)
               PROVE  ~Is(s[k], "user")
    BY DEF SameTurn
  <2>1. DOMAIN s = 1..Len(s) /\ Len(s) \in Nat
    OBVIOUS
  <2>2. k > 1
    BY <2>1
  <2> QED
    BY <2>2
<1> QED
  BY <1>2, <1>3

(* The stored rows up to a place behind which only users spoke.            *)
LEMMA LoadedInTurn ==
    ASSUME NEW S, NEW s \in Seq(S), InTurn(s), NEW n \in 0..Len(s),
           \A i \in DOMAIN s : i > n => Is(s[i], "user")
    PROVE  LET t == SubSeq(s, 1, n)
           IN  InTurn(t) /\ Results(s) \subseteq Results(t)
<1> DEFINE t == SubSeq(s, 1, n)
<1>1. t \in Seq(S) /\ Len(t) = n /\ \A i \in 1..n : t[i] = s[i]
  BY Halves
<1>2. DOMAIN t = 1..n /\ DOMAIN s = 1..Len(s) /\ Len(s) \in Nat
  BY <1>1
<1> HIDE DEF t
<1>3. \A i \in DOMAIN t : i \in DOMAIN s /\ t[i] = s[i]
  BY <1>1, <1>2
<1>4. \A i \in DOMAIN s : Is(s[i], "tool") \/ CallsOf(s[i]) # {} => i \in DOMAIN t
  <2> SUFFICES ASSUME NEW i \in DOMAIN s, ~Is(s[i], "user") PROVE i \in DOMAIN t
    BY DEF Is, CallsOf
  <2> QED
    BY <1>2
<1>5. InTurn(t)
  <2> SUFFICES ASSUME NEW i \in DOMAIN t, Is(t[i], "tool")
               PROVE  \E j \in DOMAIN t : ~Hides(t[j]) /\ t[i].id \in CallsOf(t[j]) /\ SameTurn(t, i, j)
    BY DEF InTurn
  <2>1. i \in DOMAIN s /\ t[i] = s[i]
    BY <1>3
  <2>2. PICK j \in DOMAIN s : ~Hides(s[j]) /\ s[i].id \in CallsOf(s[j]) /\ SameTurn(s, i, j)
    BY <2>1 DEF InTurn
  <2>3. j \in DOMAIN t /\ t[j] = s[j]
    BY <1>3, <1>4, <2>2
  <2>4. SameTurn(t, i, j)
    BY <1>3, <2>2 DEF SameTurn
  <2> QED
    BY <2>1, <2>2, <2>3, <2>4
<1>6. Results(s) \subseteq Results(t)
  <2> SUFFICES ASSUME NEW c \in Results(s) PROVE c \in Results(t)
    OBVIOUS
  <2>1. PICK i \in DOMAIN s : Is(s[i], "tool") /\ ~s[i].cut /\ s[i].id = c
    BY Members
  <2> QED
    BY <1>3, <1>4, <2>1, Members
<1> QED
  BY <1>5, <1>6 DEF t

---------------------------------------------------------------------------
(* What a load leaves out.                                                 *)

LEMMA PrefixStays ==
    ASSUME NEW S, NEW s \in Seq(S), NEW t \in Seq(S), NEW n \in 0..Len(s)
    PROVE  SubSeq(s \o t, 1, n) = SubSeq(s, 1, n)
<1> DEFINE u == s \o t
           a == SubSeq(u, 1, n)
           b == SubSeq(s, 1, n)
<1>1. /\ u \in Seq(S) /\ Len(u) = Len(s) + Len(t) /\ Len(s) \in Nat /\ Len(t) \in Nat
      /\ \A i \in DOMAIN s : u[i] = s[i]
  BY JoinedAt
<1> HIDE DEF u
<1>2. n \in 0..Len(u) /\ n \in Nat
  BY <1>1
<1>3. a \in Seq(S) /\ Len(a) = n /\ \A i \in 1..n : a[i] = u[i]
  BY <1>1, <1>2, Halves
<1>4. b \in Seq(S) /\ Len(b) = n /\ \A i \in 1..n : b[i] = s[i]
  BY Halves
<1>5. \A i \in 1..n : i \in DOMAIN s
  BY <1>1
<1> HIDE DEF a, b
<1>6. a = b
  BY <1>1, <1>3, <1>4, <1>5, SeqEqual
<1> QED
  BY <1>6 DEF a, b, u

(* A cut behind which a user speaks, or none.                              *)
Opens(s, k) == k = 0 \/ (k \in 1..(Len(s) - 1) /\ Is(s[k + 1], "user"))

LEMMA OpensIn ==
    ASSUME NEW S, NEW s \in Seq(S), NEW k, Opens(s, k)
    PROVE  k \in Nat /\ k \in 0..Len(s) /\ (k = 0 \/ k < Len(s))
<1>1. Len(s) \in Nat
  OBVIOUS
<1> QED
  BY <1>1 DEF Opens

LEMMA OpensGrows ==
    ASSUME NEW S, NEW s \in Seq(S), NEW t \in Seq(S), NEW k, Opens(s, k)
    PROVE  Opens(s \o t, k)
<1> DEFINE u == s \o t
<1>1. /\ Len(u) = Len(s) + Len(t) /\ Len(s) \in Nat /\ Len(t) \in Nat
      /\ \A i \in DOMAIN s : u[i] = s[i]
  BY JoinedAt
<1> HIDE DEF u
<1>2. CASE k = 0
  BY <1>2 DEF Opens, u
<1>3. CASE k \in 1..(Len(s) - 1) /\ Is(s[k + 1], "user")
  <2>1. k + 1 \in DOMAIN s /\ k \in 1..(Len(u) - 1)
    BY <1>1, <1>3
  <2> QED
    BY <1>1, <1>3, <2>1 DEF Opens, u
<1> QED
  BY <1>2, <1>3 DEF Opens

LEMMA Between ==
    ASSUME NEW S, NEW s \in Seq(S), NEW n \in 0..Len(s), NEW k \in 0..n
    PROVE  LET a == SubSeq(s, 1, n)
           IN  /\ a \in Seq(S) /\ Len(a) = n /\ k \in 0..Len(a)
               /\ SubSeq(a, 1, k) = SubSeq(s, 1, k)
               /\ SubSeq(a, k + 1, Len(a)) = SubSeq(s, k + 1, n)
<1> DEFINE a == SubSeq(s, 1, n)
           b == SubSeq(s, n + 1, Len(s))
           c == SubSeq(a, k + 1, Len(a))
           d == SubSeq(s, k + 1, n)
<1>1. Len(s) \in Nat /\ n \in Nat /\ k \in Nat /\ k <= n /\ n <= Len(s)
  OBVIOUS
<1>2. /\ a \in Seq(S) /\ Len(a) = n /\ \A i \in 1..n : a[i] = s[i]
      /\ b \in Seq(S) /\ s = a \o b
  BY Halves
<1>3. k \in 0..Len(a)
  BY <1>1, <1>2
<1> HIDE DEF a, b
<1>4. SubSeq(a, 1, k) = SubSeq(s, 1, k)
  <2>1. SubSeq(a \o b, 1, k) = SubSeq(a, 1, k)
    BY <1>2, <1>3, PrefixStays
  <2> QED
    BY <1>2, <2>1
<1>5. c \in Seq(S) /\ Len(c) = n - k /\ \A i \in 1..(n - k) : c[i] = a[k + i]
  <2>1. Len(a) - k = n - k
    BY <1>2
  <2> QED
    BY <1>2, <1>3, <2>1, Halves
<1>6. d \in Seq(S) /\ Len(d) = n - k /\ \A i \in 1..(n - k) : d[i] = s[k + i]
  BY <1>1
<1>7. \A i \in 1..(n - k) : k + i \in 1..n
  BY <1>1
<1> HIDE DEF c, d
<1>8. c = d
  <2>1. \A i \in 1..(n - k) : c[i] = d[i]
    BY <1>2, <1>5, <1>6, <1>7
  <2>2. Len(c) = Len(d) /\ \A i \in 1..Len(c) : c[i] = d[i]
    BY <1>5, <1>6, <2>1
  <2> QED
    BY <1>5, <1>6, <2>2, SeqEqual
<1> QED
  BY <1>2, <1>3, <1>4, <1>8 DEF a, c, d

(* The rows behind such a cut, and those before it.                        *)
LEMMA OpenedRows ==
    ASSUME NEW B, NEW s \in Seq(Rows(B)), NEW k, Opens(s, k)
    PROVE  LET t == SubSeq(s, k + 1, Len(s))
           IN  /\ t \in Seq(Rows(B)) /\ \A p \in DOMAIN t : \E i \in DOMAIN s : t[p] = s[i]
               /\ InTurn(s) => InTurn(t)
               /\ Results(s) = Results(SubSeq(s, 1, k)) \cup Results(t)
<1> DEFINE a == SubSeq(s, 1, k)
           t == SubSeq(s, k + 1, Len(s))
<1>1. k \in Nat /\ k \in 0..Len(s) /\ Len(s) \in Nat
  BY OpensIn
<1>2. /\ a \in Seq(Rows(B)) /\ t \in Seq(Rows(B)) /\ s = a \o t /\ Len(t) = Len(s) - k
      /\ \A i \in 1..(Len(s) - k) : t[i] = s[k + i]
  BY <1>1, Halves
<1> HIDE DEF a
<1>3. Results(s) = Results(a) \cup Results(t)
  <2> HIDE DEF t
  <2>1. Results(a \o t) = Results(a) \cup Results(t)
    BY <1>2, JoinedRows
  <2> QED
    BY <1>2, <2>1
<1>4. \A p \in DOMAIN t : \E i \in DOMAIN s : t[p] = s[i]
  <2> HIDE DEF t
  <2> SUFFICES ASSUME NEW p \in DOMAIN t PROVE \E i \in DOMAIN s : t[p] = s[i]
    OBVIOUS
  <2>1. p \in 1..(Len(s) - k)
    BY <1>2
  <2>2. k + p \in DOMAIN s
    BY <1>1, <2>1
  <2> QED
    BY <1>2, <2>1, <2>2
<1>5. ASSUME InTurn(s) PROVE InTurn(t)
  <2>1. CASE k = 0
    <3>1. t = s
      BY <1>1, <2>1
    <3> QED
      BY <1>5, <3>1
  <2>2. CASE k # 0
    <3>1. k + 1 \in DOMAIN s /\ Is(s[k + 1], "user")
      BY <1>1, <2>2 DEF Opens
    <3> QED
      BY <1>5, <3>1, TurnsFrom
  <2> QED
    BY <2>1, <2>2
<1> QED
  BY <1>2, <1>3, <1>4, <1>5 DEF a, t

LEMMA Skipped ==
    ASSUME NEW all \in Nat, NEW m \in Nat, NEW k \in Nat, NEW rest \in Nat, NEW v,
           rest = all - m, v = rest - k + 1
    PROVE  all - v = m + k - 1 /\ (m + k - 1) + 1 = m + k
OBVIOUS

(* The load cuts behind the watermark and the trim where a user speaks.    *)
LEMMA LoadOpens ==
    ASSUME NEW B, NEW s \in Seq(Rows(B)), NEW m, Opens(s, m), NEW n \in Nat,
           n = 0 => Len(s) = 0
    PROVE  Opens(s, Len(s) - Len(Recent(SubSeq(s, m + 1, Len(s)), n)))
<1> DEFINE u == SubSeq(s, m + 1, Len(s))
           v == Recent(u, n)
<1>1. m \in Nat /\ m \in 0..Len(s) /\ (m = 0 \/ m < Len(s)) /\ Len(s) \in Nat
  BY OpensIn
<1>2. /\ u \in Seq(Rows(B)) /\ Len(u) = Len(s) - m
      /\ \A i \in 1..(Len(s) - m) : u[i] = s[m + i]
  BY <1>1, Halves
<1> HIDE DEF u
<1>3. \/ n = 0 /\ v = <<>>
      \/ v = u
      \/ \E k \in DOMAIN u : Is(u[k], "user") /\ v = SubSeq(u, k, Len(u))
  BY <1>2, RecentIs
<1> HIDE DEF v
<1>4. CASE n = 0 /\ v = <<>>
  <2>1. Len(s) - Len(v) = 0
    BY <1>4
  <2> QED
    BY <2>1 DEF Opens, u, v
<1>5. CASE v = u
  <2>1. Len(s) - Len(v) = m
    BY <1>1, <1>2, <1>5
  <2> QED
    BY <2>1 DEF u, v
<1>6. ASSUME NEW k \in DOMAIN u, Is(u[k], "user"), v = SubSeq(u, k, Len(u))
      PROVE  Opens(s, Len(s) - Len(v))
  <2>1. k \in 1..(Len(s) - m) /\ k \in Nat /\ k >= 1 /\ k <= Len(u) /\ Len(u) \in Nat
    BY <1>1, <1>2
  <2>2. Len(v) = Len(u) - k + 1
    <3>1. u \in Seq(Rows(B))
      BY <1>2
    <3>2. Len(SubSeq(u, k, Len(u))) = Len(u) - k + 1
      BY <2>1, <3>1
    <3> QED
      BY <1>6, <3>2
  <2>3. Len(s) - Len(v) = m + k - 1 /\ (m + k - 1) + 1 = m + k
    <3>1. m \in Nat /\ Len(s) \in Nat /\ Len(u) = Len(s) - m
      BY <1>1, <1>2
    <3> QED
      BY <2>1, <2>2, <3>1, Skipped
  <2>4. s[m + k] = u[k]
    BY <1>2, <2>1
  <2>5. m + k - 1 = 0 \/ m + k - 1 \in 1..(Len(s) - 1)
    BY <1>1, <2>1
  <2> QED
    BY <1>6, <2>3, <2>4, <2>5 DEF Opens
<1> QED
  BY <1>3, <1>4, <1>5, <1>6 DEF u, v

---------------------------------------------------------------------------
(* What a run works with: the history it was given and its own rows.       *)

Past    == SubSeq(msgs, 1, from)
CallIds == {calls[i].id : i \in DOMAIN calls}

(* Stored rows keep answers and the row that shows their call in one turn, *)
(* and are not fewer than any request has seen.                            *)
StoreInv ==
    /\ store \in Seq(Rows(CutIds)) /\ InTurn(store)
    /\ \A r \in Requests : seen[r] <= Len(store)

(* A run's history answers only calls it has, with stored results; its own *)
(* rows are one turn, which shows every call that is answered, and hide    *)
(* none before they are collapsed.                                         *)
OwnRows ==
    /\ from < Len(msgs) /\ OneUser(Mine)
    /\ Answered(Past) \subseteq Called(Past)
    /\ Results(Past) \subseteq Results(store)
    /\ Answered(Mine) \subseteq Shown(Mine)
    /\ CallIds \subseteq Called(Mine)
    /\ pc # "persist" => Plain(Mine)

RunInv ==
    /\ msgs \in Seq(Rows(CutIds)) /\ from \in Nat
    /\ pc = "idle" => msgs = <<>> /\ from = 0
    /\ pc # "idle" => OwnRows

(* A step of a run: rows t come behind its own, and perhaps they collapse. *)
Goes(t) ==
    /\ t \in Seq(Rows(CutIds')) /\ NoUser(t) /\ Plain(t)
    /\ from' = from /\ pc # "idle" /\ pc' # "idle"
    /\ Results(store) \subseteq Results(store')
    /\ pc = "persist" => t = <<>> /\ pc' = "persist"
    /\ \/ msgs' = msgs \o t
       \/ msgs' = Collapse(msgs \o t, from) /\ pc # "persist" /\ pc' = "persist"
    /\ Answered(t) \subseteq Called(Mine) \cup Called(t)
    /\ CallIds' \subseteq CallIds \cup Called(t)

LEMMA AppendedRows ==
    ASSUME NEW S, NEW s \in Seq(S), NEW t \in Seq(S), NEW n \in Nat, n < Len(s)
    PROVE  LET u == s \o t
           IN  /\ u \in Seq(S) /\ n < Len(u)
               /\ SubSeq(u, 1, n) = SubSeq(s, 1, n)
               /\ SubSeq(u, n + 1, Len(u)) = SubSeq(s, n + 1, Len(s)) \o t
<1> DEFINE u == s \o t
<1>1. u \in Seq(S) /\ Len(u) = Len(s) + Len(t) /\ Len(s) \in Nat /\ Len(t) \in Nat
  OBVIOUS
<1>2. \A i \in 1..Len(s) : u[i] = s[i]
  OBVIOUS
<1>3. \A i \in 1..Len(t) : u[Len(s) + i] = t[i]
  OBVIOUS
<1> HIDE DEF u
<1>4. n \in 0..Len(s) /\ n \in 0..Len(u)
  BY <1>1
<1> DEFINE a == SubSeq(s, 1, n)
           b == SubSeq(s, n + 1, Len(s))
           c == SubSeq(u, 1, n)
           d == SubSeq(u, n + 1, Len(u))
<1>5. /\ a \in Seq(S) /\ Len(a) = n /\ \A i \in 1..n : a[i] = s[i]
      /\ b \in Seq(S) /\ Len(b) = Len(s) - n /\ \A i \in 1..(Len(s) - n) : b[i] = s[n + i]
  <2>1. n \in 0..Len(s)
    BY <1>4
  <2>2. /\ SubSeq(s, 1, n) \in Seq(S) /\ Len(SubSeq(s, 1, n)) = n
        /\ \A i \in 1..n : SubSeq(s, 1, n)[i] = s[i]
    BY <2>1, Halves
  <2>3. /\ b \in Seq(S) /\ Len(b) = Len(s) - n
        /\ \A i \in 1..(Len(s) - n) : b[i] = s[n + i]
    BY <2>1, Halves
  <2> QED
    BY <2>2, <2>3
<1>6. /\ c \in Seq(S) /\ Len(c) = n /\ \A i \in 1..n : c[i] = u[i]
      /\ d \in Seq(S) /\ Len(d) = Len(u) - n /\ \A i \in 1..(Len(u) - n) : d[i] = u[n + i]
  <2>1. n \in 0..Len(u) /\ u \in Seq(S)
    BY <1>1, <1>4
  <2>2. /\ SubSeq(u, 1, n) \in Seq(S) /\ Len(SubSeq(u, 1, n)) = n
        /\ \A i \in 1..n : SubSeq(u, 1, n)[i] = u[i]
    BY <2>1, Halves
  <2>3. /\ d \in Seq(S) /\ Len(d) = Len(u) - n
        /\ \A i \in 1..(Len(u) - n) : d[i] = u[n + i]
    BY <2>1, Halves
  <2> QED
    BY <2>2, <2>3
<1> HIDE DEF a, b, c, d
<1>7. c = a
  <2>1. \A i \in 1..Len(c) : c[i] = a[i]
    <3> TAKE i \in 1..Len(c)
    <3>1. i \in 1..n /\ i \in 1..Len(s)
      BY <1>1, <1>6
    <3> QED
      BY <1>2, <1>5, <1>6, <3>1
  <2>2. Len(c) = Len(a)
    BY <1>5, <1>6
  <2> QED
    BY <1>5, <1>6, <2>1, <2>2, SeqEqual
<1>8. d = b \o t
  <2> DEFINE e == b \o t
  <2>1. /\ e \in Seq(S) /\ Len(e) = Len(b) + Len(t)
        /\ \A i \in DOMAIN b : e[i] = b[i]
        /\ \A i \in DOMAIN t : e[Len(b) + i] = t[i]
    <3>1. b \in Seq(S) /\ t \in Seq(S)
      BY <1>5
    <3> QED
      BY <3>1
  <2> HIDE DEF e
  <2>2. Len(e) = Len(d)
    BY <1>1, <1>5, <1>6, <2>1
  <2>3. \A i \in 1..Len(d) : d[i] = e[i]
    <3> TAKE i \in 1..Len(d)
    <3>1. d[i] = u[n + i] /\ i \in Nat /\ i >= 1 /\ i <= Len(b) + Len(t) /\ Len(b) \in Nat
      BY <1>1, <1>5, <1>6
    <3>2. CASE i <= Len(b)
      <4>1. i \in DOMAIN b /\ i \in 1..(Len(s) - n) /\ n + i \in 1..Len(s)
        BY <1>1, <1>5, <3>1, <3>2
      <4> QED
        BY <1>2, <1>5, <2>1, <3>1, <4>1
    <3>3. CASE i > Len(b)
      <4> DEFINE k == i - Len(b)
      <4>1. k \in 1..Len(t) /\ n + i = Len(s) + k /\ i = Len(b) + k
        BY <1>1, <1>5, <3>1, <3>3
      <4>2. k \in DOMAIN t
        BY <4>1
      <4> HIDE DEF k
      <4> QED
        BY <1>3, <2>1, <3>1, <4>1, <4>2
    <3> QED
      BY <3>1, <3>2, <3>3
  <2> QED
    BY <1>6, <2>1, <2>2, <2>3, SeqEqual DEF e
<1>9. n < Len(u)
  BY <1>1
<1> QED
  BY <1>1, <1>7, <1>8, <1>9 DEF a, b, c, d, u

(* Hiding rows and moving calls leaves who speaks.                         *)
LEMMA CollapsedUsers ==
    ASSUME NEW B, NEW s \in Seq(Rows(B)), NEW n \in Nat, n < Len(s),
           OneUser(SubSeq(s, n + 1, Len(s)))
    PROVE  LET t == Collapse(s, n) IN OneUser(SubSeq(t, n + 1, Len(t)))
<1> DEFINE t   == Collapse(s, n)
           all == AllCalls(SubSeq(s, n + 1, Len(s)))
           m   == SubSeq(s, n + 1, Len(s))
           mt  == SubSeq(t, n + 1, Len(t))
<1>0. Len(s) \in Nat /\ n \in 0..Len(s) /\ DOMAIN s = 1..Len(s)
  OBVIOUS
<1>1. /\ m \in Seq(Rows(B)) /\ Len(m) = Len(s) - n
      /\ \A i \in 1..(Len(s) - n) : m[i] = s[n + i]
  BY <1>0, Halves
<1>2. /\ t \in Seq(Rows(B)) /\ Len(t) = Len(s)
      /\ ~Is(s[Len(s)], "assistant") => t = s
      /\ \A i \in 1..Len(s) : ~(i > n /\ Is(s[i], "assistant")) => t[i] = s[i]
      /\ Is(s[Len(s)], "assistant") =>
            /\ t[Len(s)] = [s[Len(s)] EXCEPT !.calls = all]
            /\ \A i \in 1..Len(s) : i > n /\ i # Len(s) =>
                  t[i] = IF CallsOf(s[i]) # {} THEN [s[i] EXCEPT !.hidden = TRUE] ELSE s[i]
  BY CollapsedRows
<1>3. all \in Seq(Ids)
  BY <1>1, AllCallsAre
<1> HIDE DEF t, all
<1>4. ASSUME NEW i \in 1..Len(s) PROVE Is(t[i], "user") <=> Is(s[i], "user")
  <2>0. s[i] \in Rows(B)
    BY <1>0
  <2>1. CASE t[i] = s[i]
    BY <2>1
  <2>2. CASE t[i] # s[i]
    <3>1. Is(s[i], "assistant") /\ i > n /\ Is(s[Len(s)], "assistant")
      BY <1>2, <2>2
    <3>2. t[i] = [s[i] EXCEPT !.calls = all] \/ t[i] = [s[i] EXCEPT !.hidden = TRUE]
      BY <1>2, <2>2, <3>1
    <3>3. Is([s[i] EXCEPT !.calls = all], "assistant")
      BY <1>3, <2>0, <3>1, OtherCalls
    <3>4. Is([s[i] EXCEPT !.hidden = TRUE], "assistant")
      BY <2>0, <3>1, HiddenRow
    <3>5. Is(t[i], "assistant")
      BY <3>2, <3>3, <3>4
    <3> QED
      BY <3>1, <3>5, OneRole
  <2> QED
    BY <2>1, <2>2
<1>5. n \in 0..Len(t)
  BY <1>0, <1>2
<1>6. /\ mt \in Seq(Rows(B)) /\ Len(mt) = Len(t) - n
      /\ \A i \in 1..(Len(t) - n) : mt[i] = t[n + i]
  <2>1. t \in Seq(Rows(B)) /\ n \in 0..Len(t)
    BY <1>2, <1>5
  <2> QED
    BY <2>1, Halves
<1> HIDE DEF m, mt
<1>7. DOMAIN mt = 1..(Len(s) - n) /\ DOMAIN m = 1..(Len(s) - n) /\ Len(s) - n >= 1
  BY <1>0, <1>1, <1>2, <1>6
<1>8. ASSUME NEW i \in 1..(Len(s) - n) PROVE Is(mt[i], "user") <=> Is(m[i], "user")
  <2>1. n + i \in 1..Len(s)
    BY <1>0
  <2> QED
    BY <1>1, <1>2, <1>4, <1>6, <2>1
<1>9. OneUser(m)
  BY DEF m
<1>10. Is(m[1], "user") /\ \A i \in DOMAIN m : i > 1 => ~Is(m[i], "user")
  BY <1>9 DEF OneUser
<1>11. Len(mt) >= 1 /\ 1 \in 1..(Len(s) - n)
  BY <1>0, <1>2, <1>6, <1>7
<1>12. Is(mt[1], "user")
  BY <1>8, <1>10, <1>11
<1>13. \A i \in DOMAIN mt : i > 1 => ~Is(mt[i], "user")
  BY <1>7, <1>8, <1>10
<1> QED
  BY <1>11, <1>12, <1>13 DEF OneUser, mt, t

LEMMA MoreOfARun ==
    ASSUME NEW S, NEW s \in Seq(S), NEW t \in Seq(S), OneUser(s), NoUser(t)
    PROVE  OneUser(s \o t)
<1> DEFINE u == s \o t
<1>1. /\ u \in Seq(S) /\ Len(u) = Len(s) + Len(t) /\ Len(s) \in Nat /\ Len(t) \in Nat
      /\ \A i \in DOMAIN s : i \in DOMAIN u /\ u[i] = s[i]
      /\ \A p \in DOMAIN u :
            \/ p \in DOMAIN s
            \/ p > Len(s) /\ p - Len(s) \in DOMAIN t /\ u[p] = t[p - Len(s)]
  BY JoinedAt
<1>2. 1 \in DOMAIN s
  BY DEF OneUser
<1> HIDE DEF u
<1>3. \A i \in DOMAIN u : i > 1 => ~Is(u[i], "user")
  <2> TAKE i \in DOMAIN u
  <2>1. CASE i \in DOMAIN s
    BY <1>1, <2>1 DEF OneUser
  <2>2. CASE i \notin DOMAIN s
    BY <1>1, <2>2 DEF NoUser
  <2> QED
    BY <2>1, <2>2
<1>4. Len(u) >= 1 /\ Is(u[1], "user")
  BY <1>1, <1>2 DEF OneUser
<1> QED
  BY <1>3, <1>4 DEF OneUser, u

LEMMA PlainJoins ==
    ASSUME NEW S, NEW s \in Seq(S), NEW t \in Seq(S), Plain(s), Plain(t)
    PROVE  Plain(s \o t)
<1> DEFINE u == s \o t
<1>1. /\ \A i \in DOMAIN s : u[i] = s[i]
      /\ \A p \in DOMAIN u :
            \/ p \in DOMAIN s
            \/ p > Len(s) /\ p - Len(s) \in DOMAIN t /\ u[p] = t[p - Len(s)]
  BY JoinedAt
<1> HIDE DEF u
<1> SUFFICES ASSUME NEW i \in DOMAIN u PROVE ~Hides(u[i])
  BY DEF Plain, u
<1> QED
  BY <1>1 DEF Plain

LEMMA PlainShows ==
    ASSUME NEW s, Plain(s)
    PROVE  Shown(s) = Called(s)
BY DEF Plain, Shown, Called

(* Its own rows and its history, as a step leaves them.                    *)
LEMMA GoesOn ==
    ASSUME RunInv, CutIds \subseteq CutIds', NEW t, Goes(t)
    PROVE  /\ RunInv' /\ Past' = Past
           /\ Results(Mine') = Results(Mine) \cup Results(t)
           /\ Called(Mine') = Called(Mine) \cup Called(t)
<1> DEFINE B == CutIds'
           u == msgs \o t
           n == from
           h == SubSeq(u, 1, n)
           m == SubSeq(u, n + 1, Len(u))
<1>0. OwnRows /\ msgs \in Seq(Rows(B)) /\ t \in Seq(Rows(B)) /\ n \in Nat /\ n < Len(msgs)
      /\ Len(msgs) \in Nat
  BY RowsGrow DEF RunInv, Goes, OwnRows
<1>1. u \in Seq(Rows(B)) /\ n < Len(u) /\ h = Past /\ m = Mine \o t
  BY <1>0, AppendedRows DEF Past, Mine
<1>2. Mine \in Seq(Rows(B)) /\ Past \in Seq(Rows(B))
  <2>1. n \in 0..Len(msgs)
    BY <1>0
  <2> QED
    BY <1>0, <2>1, Halves DEF Mine, Past
<1> HIDE DEF B, u, h, m
<1>3. /\ Called(m) = Called(Mine) \cup Called(t) /\ Answered(m) = Answered(Mine) \cup Answered(t)
      /\ Shown(m) = Shown(Mine) \cup Shown(t) /\ Results(m) = Results(Mine) \cup Results(t)
  BY <1>0, <1>1, <1>2, JoinedRows
<1>4. OneUser(m)
  BY <1>0, <1>1, <1>2, MoreOfARun DEF OwnRows, Goes
<1>5. pc # "persist" => Plain(m) /\ Shown(m) = Called(m)
  BY <1>0, <1>1, <1>2, PlainJoins, PlainShows DEF OwnRows, Goes
<1>6. Called(t) = Shown(t)
  BY PlainShows DEF Goes
<1>7. Answered(m) \subseteq Shown(m)
  <2>1. Answered(Mine) \subseteq Shown(Mine)
    BY <1>0 DEF OwnRows
  <2>2. CASE pc = "persist"
    <3>1. Answered(t) = {}
      BY <2>2, NoRows DEF Goes
    <3> QED
      BY <1>3, <2>1, <3>1
  <2>3. CASE pc # "persist"
    <3>1. Answered(t) \subseteq Called(m)
      BY <1>3 DEF Goes
    <3> QED
      BY <1>3, <1>5, <2>1, <2>3, <3>1
  <2> QED
    BY <2>2, <2>3
<1>8. /\ from' = n /\ pc # "idle" /\ pc' # "idle" /\ Results(store) \subseteq Results(store')
      /\ pc = "persist" => pc' = "persist"
      /\ CallIds' \subseteq Called(m)
  BY <1>0, <1>3 DEF Goes, OwnRows
<1>9. /\ msgs' \in Seq(Rows(B)) /\ n < Len(msgs') /\ Past' = Past /\ OneUser(Mine')
      /\ Results(Mine') = Results(m) /\ Called(Mine') = Called(m)
      /\ Answered(Mine') \subseteq Shown(Mine')
      /\ pc' # "persist" => Plain(Mine')
  <2>1. CASE msgs' = u
    <3>1. Mine' = m /\ Past' = h
      BY <1>8, <2>1 DEF m, h, Mine, Past
    <3> QED
      BY <1>1, <1>4, <1>5, <1>7, <1>8, <2>1, <3>1
  <2>2. CASE msgs' = Collapse(u, n) /\ pc # "persist" /\ pc' = "persist"
    <3> DEFINE v  == Collapse(u, n)
               mv == SubSeq(v, n + 1, Len(v))
    <3>1. v \in Seq(Rows(B)) /\ Len(v) = Len(u)
      BY <1>0, <1>1, CollapsedRows
    <3>2. /\ SubSeq(v, 1, n) = h
          /\ Results(mv) = Results(m) /\ Answered(mv) = Answered(m)
          /\ Called(mv) = Called(m) /\ Shown(mv) = Called(m)
      BY <1>0, <1>1, <1>5, <2>2, CollapsedSets DEF m, h
    <3>3. OneUser(mv)
      BY <1>0, <1>1, <1>4, CollapsedUsers DEF m
    <3>4. msgs' = v /\ Mine' = mv /\ Past' = SubSeq(v, 1, n)
      BY <1>8, <2>2 DEF Mine, Past
    <3> HIDE DEF v, mv
    <3> QED
      BY <1>1, <1>5, <1>7, <2>2, <3>1, <3>2, <3>3, <3>4
  <2> QED
    BY <2>1, <2>2 DEF Goes, u
<1>10. OwnRows'
  <2>1. Answered(Past) \subseteq Called(Past) /\ Results(Past) \subseteq Results(store)
    BY <1>0 DEF OwnRows
  <2> QED
    BY <1>8, <1>9, <2>1 DEF OwnRows
<1> QED
  BY <1>0, <1>3, <1>8, <1>9, <1>10 DEF RunInv, B

LEMMA RunStays ==
    ASSUME RunInv, CutIds \subseteq CutIds', UNCHANGED <<msgs, from, pc, calls>>,
           Results(store) \subseteq Results(store')
    PROVE  RunInv'
<1>1. msgs' \in Seq(Rows(CutIds'))
  BY RowsGrow DEF RunInv
<1>2. Mine' = Mine /\ Past' = Past /\ CallIds' = CallIds
  BY DEF Mine, Past, CallIds
<1>3. OwnRows => OwnRows'
  BY <1>2 DEF OwnRows
<1> QED
  BY <1>1, <1>3 DEF RunInv

---------------------------------------------------------------------------
(* What tools did: KnownInv.                                               *)

(* What was done and not lost is stored, in the run's rows, or by a call at*)
(* hand; a call that was processed has its result in the run's rows.       *)
Processed ==
    \A i \in DOMAIN calls : i < at /\ calls[i].id \in ran => calls[i].id \in Results(Mine)

(* A chat turn that loaded after the last run works with all of it, but for*)
(* the rows it left out: behind what a request loaded there are only users,*)
(* unless a run ended since.                                               *)
KnownInv ==
    /\ Processed
    /\ ran \ lost \subseteq Results(store) \cup Results(Mine) \cup CallIds
    /\ pc \notin {"idle", "persist"} /\ kind = "chat" /\ who \notin overtaken =>
          ran \ lost \subseteq Results(Past) \cup Results(LeftOut)
                                   \cup Results(Mine) \cup CallIds
    /\ \A r \in Requests : phase[r] = "loaded" /\ r \notin overtaken =>
          \A i \in DOMAIN store : i > seen[r] => Is(store[i], "user")

(* A step of a run against what its tools did.                             *)
Learns(t) ==
    /\ UNCHANGED <<phase, seen, skips, store, mark, lost, overtaken, who, kind>>
    /\ ran' \subseteq ran \cup CallIds'
    /\ ran \cap CallIds \subseteq CallIds' \cup Results(Mine)
    /\ \A i \in DOMAIN calls' : i < at' /\ calls'[i].id \in ran' =>
          calls'[i].id \in Results(Mine) \cup Results(t)

Base == Scalars /\ Batched /\ DispatchInv

LEMMA LearnsGoesOn ==
    ASSUME RunInv, KnownInv, CutIds \subseteq CutIds', NEW t, Goes(t), Learns(t)
    PROVE  KnownInv'
<1>1. /\ Past' = Past /\ Results(Mine') = Results(Mine) \cup Results(t)
      /\ pc # "idle" /\ (pc' # "persist" => pc # "persist")
  BY GoesOn DEF Goes
<1>2. UNCHANGED <<phase, seen, skips, store, lost, overtaken, who, kind>> /\ LeftOut' = LeftOut
  BY DEF Learns, LeftOut
<1>3. Processed'
  BY <1>1 DEF Learns, Processed
<1>4. ASSUME NEW S, ran \ lost \subseteq S \cup Results(Mine) \cup CallIds
      PROVE  ran' \ lost' \subseteq S \cup Results(Mine') \cup CallIds'
  BY <1>1, <1>2, <1>4 DEF Learns
<1>5. ran' \ lost' \subseteq Results(store') \cup Results(Mine') \cup CallIds'
  BY <1>2, <1>4 DEF KnownInv
<1>6. pc' \notin {"idle", "persist"} /\ kind' = "chat" /\ who' \notin overtaken' =>
         ran' \ lost' \subseteq Results(Past') \cup Results(LeftOut')
                                    \cup Results(Mine') \cup CallIds'
  <2> DEFINE S == Results(Past) \cup Results(LeftOut)
  <2>1. pc' \notin {"idle", "persist"} /\ kind' = "chat" /\ who' \notin overtaken' =>
           ran \ lost \subseteq S \cup Results(Mine) \cup CallIds
    BY <1>1, <1>2 DEF KnownInv
  <2> HIDE DEF S
  <2>2. pc' \notin {"idle", "persist"} /\ kind' = "chat" /\ who' \notin overtaken' =>
           ran' \ lost' \subseteq S \cup Results(Mine') \cup CallIds'
    BY <1>4, <2>1
  <2> QED
    BY <1>1, <1>2, <2>2 DEF S
<1>7. (\A r \in Requests : phase[r] = "loaded" /\ r \notin overtaken =>
          \A i \in DOMAIN store : i > seen[r] => Is(store[i], "user"))'
  BY <1>2 DEF KnownInv
<1> QED
  BY <1>3, <1>5, <1>6, <1>7 DEF KnownInv

LEMMA LearnsNothing ==
    ASSUME KnownInv, UNCHANGED <<Fixed, calls, at, ran>>, NEW t
    PROVE  Learns(t)
BY DEF Learns, Fixed, CallIds, KnownInv, Processed

LEMMA LearnsOne ==
    ASSUME Base, KnownInv, NEW i \in DOMAIN calls, NEW st \in CallSt, Mark(i, st), i >= at,
           UNCHANGED <<Fixed, at>>, ran' \in {ran, ran \cup {calls[i].id}}, NEW t
    PROVE  Learns(t) /\ CallIds' = CallIds
<1>1. /\ DOMAIN calls' = DOMAIN calls /\ DOMAIN calls \subseteq Nat
      /\ \A j \in DOMAIN calls : calls'[j].id = calls[j].id
  BY Marked DEF Base, DispatchInv, CallsInv
<1>2. CallIds' = CallIds
  BY <1>1 DEF CallIds
<1>3. \A j \in DOMAIN calls : j < at /\ calls[j].id \in ran' => calls[j].id \in Results(Mine)
  <2> SUFFICES ASSUME NEW j \in DOMAIN calls, j < at, calls[j].id \in ran'
               PROVE  calls[j].id \in Results(Mine)
    OBVIOUS
  <2>1. j # i
    BY <1>1 DEF Base, DispatchInv
  <2>2. calls[j].id # calls[i].id
    BY <2>1 DEF Base, DispatchInv, CallsInv, Unique
  <2> QED
    BY <2>2 DEF KnownInv, Processed
<1>4. calls[i].id \in CallIds
  BY DEF CallIds
<1> QED
  BY <1>1, <1>2, <1>3, <1>4 DEF Learns, Fixed

LEMMA GoesNothing ==
    ASSUME RunInv, UNCHANGED <<msgs, from, store>>, pc # "idle", pc' # "idle",
           pc = "persist" => pc' = "persist", CallIds' \subseteq CallIds
    PROVE  Goes(<<>>)
<1>1. msgs \o <<>> = msgs
  BY DEF RunInv
<1> QED
  BY <1>1, NoRows DEF Goes, NoUser

LEMMA CallsInIds ==
    ASSUME Base, NEW i \in DOMAIN calls
    PROVE  calls[i].id \in Given /\ calls[i].id \in Ids /\ calls[i].id \in 1..ids
BY AgentLoopAssumption DEF Base, DispatchInv, CallsInv, Numbered, Scalars, Given, Ids

(* A row the model answers with.                                           *)
LEMMA AnswerRow ==
    ASSUME NEW B, NEW cs \in Seq(Ids)
    PROVE  LET t == <<Assistant(cs)>>
           IN  /\ t \in Seq(Rows(B)) /\ NoUser(t) /\ Plain(t)
               /\ Answered(t) = {} /\ Results(t) = {} /\ Called(t) = {cs[k] : k \in DOMAIN cs}
<1> DEFINE row == Assistant(cs)
           t   == <<row>>
<1>1. /\ row \in Rows(B) /\ Is(row, "assistant") /\ ~Hides(row)
      /\ CallsOf(row) = {cs[k] : k \in DOMAIN cs}
  BY NewRows
<1>2. ~Is(row, "user") /\ ~Is(row, "tool")
  BY <1>1, OneRole
<1> HIDE DEF row
<1>3. t \in Seq(Rows(B)) /\ DOMAIN t = {1} /\ t[1] = row
  BY <1>1
<1>4. /\ Answered(t) = {} /\ Results(t) = {} /\ Called(t) = {cs[k] : k \in DOMAIN cs}
  BY <1>1, <1>2, OneRow
<1> QED
  BY <1>1, <1>2, <1>3, <1>4 DEF NoUser, Plain, row

(* A row that answers a call.                                              *)
LEMMA ResultRow ==
    ASSUME NEW B, NEW c \in Ids, NEW row \in {Told(c), Cut(c)}, row = Cut(c) => c \in B
    PROVE  LET t == <<row>>
           IN  /\ t \in Seq(Rows(B)) /\ NoUser(t) /\ Plain(t)
               /\ Answered(t) = {c} /\ Called(t) = {}
               /\ Results(t) = IF row = Told(c) THEN {c} ELSE {}
<1> DEFINE t == <<row>>
<1>1. /\ row \in Rows(B) /\ Is(row, "tool") /\ row.id = c /\ row.cut \in BOOLEAN
      /\ row.cut <=> row = Cut(c)
      /\ ~row.cut <=> row = Told(c)
  <2>1. /\ Told(c) \in Rows(B) /\ Is(Told(c), "tool") /\ Told(c).id = c /\ Told(c).cut = FALSE
        /\ c \in B => Cut(c) \in Rows(B)
        /\ Is(Cut(c), "tool") /\ Cut(c).id = c /\ Cut(c).cut = TRUE
    BY NewRows
  <2> QED
    BY <2>1
<1>2. ~Is(row, "user") /\ ~Is(row, "assistant")
  BY <1>1, OneRole
<1>3. ~Hides(row) /\ CallsOf(row) = {}
  BY <1>2 DEF Hides, CallsOf
<1>4. t \in Seq(Rows(B)) /\ DOMAIN t = {1} /\ t[1] = row
  BY <1>1
<1>5. Answered(t) = {c} /\ Called(t) = {} /\ Results(t) = IF row = Told(c) THEN {c} ELSE {}
  BY <1>1, <1>3, OneRow
<1> QED
  BY <1>2, <1>3, <1>4, <1>5 DEF NoUser, Plain

---------------------------------------------------------------------------
(* Each step of the loop and of its tools.                                 *)

(* A run's messages are whole for the model: nothing is pruned.            *)
LEMMA NothingToPrune ==
    ASSUME RunInv, pc \notin {"idle", "persist"}
    PROVE  Prune(msgs) = msgs
<1>0. OwnRows
  BY DEF RunInv
<1>1. from \in 0..Len(msgs) /\ msgs \in Seq(Rows(CutIds))
  BY <1>0 DEF RunInv, OwnRows
<1>2. msgs = Past \o Mine /\ Past \in Seq(Rows(CutIds)) /\ Mine \in Seq(Rows(CutIds))
  BY <1>1, Halves DEF Past, Mine
<1>3. /\ Called(msgs) = Called(Past) \cup Called(Mine)
      /\ Answered(msgs) = Answered(Past) \cup Answered(Mine)
  BY <1>2, JoinedRows
<1>4. Shown(Mine) = Called(Mine)
  BY <1>0, PlainShows DEF OwnRows
<1>5. Answered(msgs) \subseteq Called(msgs)
  BY <1>0, <1>3, <1>4 DEF OwnRows
<1> QED
  BY <1>1, <1>5, NothingPruned

LEMMA LoopGoes ==
    ASSUME Base, RunInv, KnownInv, Loop
    PROVE  \E t : Goes(t) /\ Learns(t)
<1> USE DEF Batch, Acts, Leave
<1>0. pc \in {"head", "calling", "retry", "final"} /\ calls = <<>> /\ OwnRows
  BY DEF Loop, StopAtHead, OverLimit, Refuse, CallModel, DropAnswer, AnswerText,
         AnswerSilent, AnswerEmpty, ModelRaises, ForcedFails, AnswerCalls, ForcedAnswer,
         Base, Batched, RunInv
<1>a. /\ msgs \in Seq(Rows(CutIds')) /\ msgs \o <<>> = msgs
      /\ <<>> \in Seq(Ids) /\ DOMAIN <<>> = {} /\ CallIds = {}
  <2>1. CutIds \subseteq CutIds'
    BY CutIdsGrow DEF Base, Next
  <2> QED
    BY <1>0, <2>1, RowsGrow DEF RunInv, CallIds
<1>1. CASE StopAtHead \/ OverLimit \/ CallModel \/ DropAnswer \/ AnswerEmpty \/ ModelRaises
  <2>1. /\ UNCHANGED <<Fixed, calls, at, ran>>
        /\ pc' # "idle" /\ (msgs' = msgs \/ msgs' = Prune(msgs))
    BY <1>1 DEF StopAtHead, OverLimit, CallModel, DropAnswer, AnswerEmpty, ModelRaises
  <2>2. Prune(msgs) = msgs
    BY <1>0, NothingToPrune
  <2>3. CallIds' = CallIds
    BY <2>1 DEF CallIds
  <2>4. Goes(<<>>)
    BY <1>0, <2>1, <2>2, <2>3, GoesNothing DEF Fixed
  <2>5. Learns(<<>>)
    BY <2>1, LearnsNothing
  <2> QED
    BY <2>4, <2>5
<1>2. CASE Refuse \/ AnswerText \/ ForcedFails
  <2> DEFINE t == <<Assistant(<<>>)>>
  <2>1. /\ t \in Seq(Rows(CutIds')) /\ NoUser(t) /\ Plain(t)
        /\ Answered(t) = {} /\ Results(t) = {} /\ Called(t) = {}
    BY <1>a, AnswerRow
  <2>2. /\ UNCHANGED <<Fixed, calls, at, ran>> /\ pc' = "persist"
        /\ msgs' = Append(msgs, Assistant(<<>>))
             \/ msgs' = Collapse(Append(msgs, Assistant(<<>>)), from)
    BY <1>2 DEF Refuse, AnswerText, ForcedFails, Finalize
  <2>3. Append(msgs, Assistant(<<>>)) = msgs \o t
    BY <1>a
  <2>4. CallIds' = CallIds
    BY <2>2 DEF CallIds
  <2> HIDE DEF t
  <2>5. Goes(t)
    BY <1>0, <2>1, <2>2, <2>3, <2>4 DEF Goes, Fixed
  <2>6. Learns(t)
    BY <2>2, LearnsNothing
  <2> QED
    BY <2>5, <2>6
<1>3. CASE AnswerSilent
  <2>1. /\ UNCHANGED <<Fixed, calls, at, ran>> /\ pc' = "persist"
        /\ msgs' = Collapse(msgs, from)
    BY <1>3 DEF AnswerSilent, Finalize
  <2>2. CallIds' = CallIds
    BY <2>1 DEF CallIds
  <2>3. Goes(<<>>)
    BY <1>0, <1>a, <2>1, <2>2, NoRows DEF Goes, NoUser, Fixed
  <2>4. Learns(<<>>)
    BY <2>1, LearnsNothing
  <2> QED
    BY <2>3, <2>4
<1>4. ASSUME NEW n \in 1..MaxBatch, NEW how \in Hows, AnswerCalls(n, how)
      PROVE  \E t : Goes(t) /\ Learns(t)
  <2> DEFINE cs == [k \in 1..n |-> ids + k]
             t  == <<Assistant(cs)>>
  <2>0. n \in Nat /\ ids \in Nat
    BY AgentLoopAssumption DEF Base, DispatchInv
  <2>1. ids + n <= MaxWork
    BY <1>4, <2>0, RoomLeft DEF AnswerCalls
  <2>2. cs \in Seq(Ids) /\ DOMAIN cs = 1..n
    <3>1. \A k \in 1..n : ids + k \in Ids
      BY <2>0, <2>1, AgentLoopAssumption DEF Ids, Given
    <3> QED
      BY <2>0, <3>1
  <2>3. /\ UNCHANGED Fixed /\ UNCHANGED ran /\ at' = 1 /\ pc' = "tools"
        /\ msgs' = Append(msgs, Assistant(cs))
        /\ calls' = [k \in 1..n |-> [id |-> ids + k, st |-> "waiting"]]
    BY <1>4 DEF AnswerCalls
  <2>4. /\ DOMAIN calls' = 1..n /\ CallIds' = {cs[k] : k \in 1..n}
    <3>1. \A k \in 1..n : calls'[k].id = cs[k]
      BY <2>3
    <3> QED
      BY <2>3, <3>1 DEF CallIds
  <2> HIDE DEF cs
  <2>5. /\ t \in Seq(Rows(CutIds')) /\ NoUser(t) /\ Plain(t)
        /\ Answered(t) = {} /\ Results(t) = {} /\ Called(t) = {cs[k] : k \in DOMAIN cs}
    BY <2>2, AnswerRow
  <2>6. Append(msgs, Assistant(cs)) = msgs \o t
    BY <1>a
  <2> HIDE DEF t
  <2>7. Goes(t)
    BY <1>0, <2>2, <2>3, <2>4, <2>5, <2>6 DEF Goes, Fixed
  <2>8. \A i \in DOMAIN calls' : ~(i < at')
    BY <2>0, <2>3, <2>4
  <2>9. Learns(t)
    BY <1>a, <2>3, <2>8 DEF Learns, Fixed
  <2> QED
    BY <2>7, <2>9
<1>5. ASSUME NEW stray \in 0..1, ForcedAnswer(stray)
      PROVE  \E t : Goes(t) /\ Learns(t)
  <2> DEFINE cs == [k \in 1..stray |-> ids + k]
             t  == <<Assistant(cs)>>
  <2>0. stray \in Nat /\ ids \in Nat
    BY DEF Base, DispatchInv
  <2>1. ids + stray <= MaxWork
    BY <1>5, <2>0, RoomLeft DEF ForcedAnswer
  <2>2. cs \in Seq(Ids)
    <3>1. \A k \in 1..stray : ids + k \in Ids
      BY <2>0, <2>1, AgentLoopAssumption DEF Ids, Given
    <3> QED
      BY <2>0, <3>1
  <2>3. /\ UNCHANGED <<Fixed, calls, at, ran>> /\ pc' = "persist"
        /\ msgs' = Collapse(Append(msgs, Assistant(cs)), from)
    BY <1>5 DEF ForcedAnswer, Finalize
  <2>4. CallIds' = CallIds
    BY <2>3 DEF CallIds
  <2> HIDE DEF cs
  <2>5. /\ t \in Seq(Rows(CutIds')) /\ NoUser(t) /\ Plain(t)
        /\ Answered(t) = {} /\ Results(t) = {} /\ Called(t) = {cs[k] : k \in DOMAIN cs}
    BY <2>2, AnswerRow
  <2>6. Append(msgs, Assistant(cs)) = msgs \o t
    BY <1>a
  <2> HIDE DEF t
  <2>7. Goes(t)
    BY <1>0, <2>3, <2>4, <2>5, <2>6 DEF Goes, Fixed
  <2>8. Learns(t)
    BY <2>3, LearnsNothing
  <2> QED
    BY <2>7, <2>8
<1> QED
  BY <1>1, <1>2, <1>3, <1>4, <1>5 DEF Loop

LEMMA TimesOutGoes ==
    ASSUME Base, RunInv, KnownInv, TaskTimesOut
    PROVE  \E t : Goes(t) /\ Learns(t)
<1>1. /\ UNCHANGED <<Fixed, calls, at, ran, msgs>> /\ pc' = "persist"
      /\ pc # "idle"
  BY DEF TaskTimesOut, Batch, Acts, Leave
<1>2. CallIds' = CallIds
  BY <1>1 DEF CallIds
<1>3. Goes(<<>>)
  BY <1>1, <1>2, GoesNothing DEF Fixed
<1>4. Learns(<<>>)
  BY <1>1, LearnsNothing
<1> QED
  BY <1>3, <1>4

(* The cut answers of the calls that are left.                             *)
LEMMA StopRows ==
    ASSUME Base, StopNext
    PROVE  LET t == [k \in 1..(Len(calls) - at + 1) |-> Cut(calls[at + k - 1].id)]
           IN  /\ t \in Seq(Rows(CutIds')) /\ NoUser(t) /\ Plain(t)
               /\ Answered(t) \subseteq CallIds
<1> DEFINE n == Len(calls) - at + 1
           t == [k \in 1..n |-> Cut(calls[at + k - 1].id)]
<1>0. /\ calls \in Seq(CallAtHand) /\ at \in Nat /\ at >= 1 /\ at <= Len(calls)
      /\ Len(calls) \in Nat /\ DOMAIN calls = 1..Len(calls) /\ n \in Nat
      /\ mode = "single" /\ calls[at].st = "waiting"
  BY DEF Base, DispatchInv, CallsInv, StopNext
<1>1. UNCHANGED <<ids, begun, calls>> /\ pc' = "persist"
  BY DEF StopNext, Leave, Acts, Batch
<1>2. Left' = {}
  BY <1>1 DEF Left, InTools
<1>3. ASSUME NEW k \in 1..n
      PROVE  /\ t[k] \in Rows(CutIds') /\ ~Is(t[k], "user") /\ ~Hides(t[k])
             /\ t[k].id \in CallIds
  <2> DEFINE i == at + k - 1
             c == calls[i].id
  <2>1. i \in DOMAIN calls /\ i >= at
    BY <1>0
  <2> HIDE DEF i
  <2>2. calls[i].st = "waiting"
    <3>1. i \in Nat
      BY <1>0, <2>1
    <3>2. i = at \/ i > at
      BY <1>0, <2>1, <3>1
    <3> QED
      BY <1>0, <2>1, <3>2 DEF Base, Batched
  <2>3. c \notin begun
    BY <2>1, <2>2 DEF Base, DispatchInv, CallsInv, NotBegun, Untouched
  <2>4. c \in Ids /\ c \in 1..ids /\ c \in CallIds
    BY <2>1, CallsInIds DEF CallIds
  <2>5. c \in CutIds'
    BY <1>1, <1>2, <2>3, <2>4 DEF CutIds
  <2> HIDE DEF c
  <2>6. Cut(c) \in Rows(CutIds') /\ Is(Cut(c), "tool") /\ Cut(c).id = c
    BY <2>4, <2>5, NewRows
  <2>7. t[k] = Cut(c)
    BY DEF c, i
  <2>8. ~Is(Cut(c), "user") /\ ~Is(Cut(c), "assistant")
    BY <2>6, OneRole
  <2> HIDE DEF t
  <2> QED
    BY <2>4, <2>6, <2>7, <2>8 DEF Hides
<1>4. t \in Seq(Rows(CutIds')) /\ DOMAIN t = 1..n
  <2> HIDE DEF n
  <2>1. DOMAIN t = 1..n /\ t = [k \in 1..n |-> t[k]]
    OBVIOUS
  <2> HIDE DEF t
  <2>2. t \in [1..n -> Rows(CutIds')]
    BY <1>3, <2>1
  <2> QED
    BY <1>0, <2>1, <2>2
<1> HIDE DEF t, n
<1>5. NoUser(t) /\ Plain(t)
  BY <1>3, <1>4 DEF NoUser, Plain
<1>6. Answered(t) \subseteq CallIds
  <2> SUFFICES ASSUME NEW c \in Answered(t) PROVE c \in CallIds
    OBVIOUS
  <2>1. PICK k \in DOMAIN t : t[k].id = c
    BY Members
  <2> QED
    BY <1>3, <1>4, <2>1
<1> QED
  BY <1>4, <1>5, <1>6 DEF t, n

(* The answer of the next call that is processed.                          *)
LEMMA ProcessRow ==
    ASSUME Base, Process
    PROVE  LET c == calls[at].id
               t == <<IF IsCut(at) THEN Cut(c) ELSE Told(c)>>
           IN  /\ t \in Seq(Rows(CutIds')) /\ NoUser(t) /\ Plain(t)
               /\ Answered(t) = {c} /\ Called(t) = {} /\ c \in CallIds
               /\ c \in ran => c \in Results(t)
<1> DEFINE c   == calls[at].id
           row == IF IsCut(at) THEN Cut(c) ELSE Told(c)
<1>0. /\ calls \in Seq(CallAtHand) /\ at \in Nat /\ at \in DOMAIN calls
      /\ \A i \in DOMAIN calls : i \in Nat
  BY DEF Base, DispatchInv, CallsInv, Process
<1>1. UNCHANGED <<ids, begun, calls>> /\ at' = at + 1
  BY DEF Process, Acts
<1>2. c \in Ids /\ c \in 1..ids /\ c \in CallIds
  BY <1>0, CallsInIds DEF CallIds
<1>3. IsCut(at) => c \notin begun
  BY <1>0, DispatchShows DEF CutNotBegun, Base
<1>4. c \notin Left'
  <2> SUFFICES ASSUME NEW j \in DOMAIN calls, j >= at + 1, calls[j].id = c PROVE FALSE
    BY <1>1 DEF Left
  <2>1. j = at
    BY <1>0 DEF Base, DispatchInv, CallsInv, Unique
  <2> QED
    BY <1>0, <2>1
<1>5. IsCut(at) => c \in CutIds'
  BY <1>1, <1>2, <1>3, <1>4 DEF CutIds
<1> HIDE DEF c
<1>6. Told(c) # Cut(c)
  BY DEF Told, Cut
<1>7. row \in {Told(c), Cut(c)} /\ (row = Cut(c) => c \in CutIds')
  BY <1>5, <1>6
<1>8. IsCut(at) => c \notin ran
  BY <1>3 DEF Base, Scalars
<1>9. c \in ran => row = Told(c)
  BY <1>8
<1> HIDE DEF row
<1> DEFINE t == <<row>>
<1>10. /\ t \in Seq(Rows(CutIds')) /\ NoUser(t) /\ Plain(t)
       /\ Answered(t) = {c} /\ Called(t) = {}
       /\ Results(t) = IF row = Told(c) THEN {c} ELSE {}
  BY <1>2, <1>7, ResultRow
<1> QED
  BY <1>2, <1>9, <1>10 DEF row, c

LEMMA DispatchGoes ==
    ASSUME Base, RunInv, KnownInv, Dispatch
    PROVE  \E t : Goes(t) /\ Learns(t)
<1> USE DEF Batch, Acts
<1>0. /\ InTools /\ pc = "tools" /\ at \in Nat /\ at >= 1 /\ calls \in Seq(CallAtHand)
      /\ OwnRows /\ CallIds \subseteq Called(Mine)
  BY DEF Base, DispatchInv, CallsInv, Dispatch, StartNext, StopNext, ToolRaises,
         GrantedRaises, Acquire, ToolEnds, Process, Decide, GrantedEnds, StopBatch,
         EndIteration, InTools, RunInv, OwnRows
<1>a. at <= Len(calls) => at \in DOMAIN calls
  BY <1>0
<1>b. \A i \in DOMAIN calls : calls[i].st \in {"waiting", "running"} => i >= at
  <2>1. \A i \in DOMAIN calls : i \in Nat
    BY <1>0
  <2> QED
    BY <1>0, <2>1 DEF Base, Batched, Ended
<1>c. at >= at
  BY <1>0
<1>d. ASSUME UNCHANGED <<Fixed, msgs>>, pc' # "idle", CallIds' = CallIds PROVE Goes(<<>>)
  BY <1>0, <1>d, GoesNothing DEF Fixed
<1>1. CASE StartNext
  <2>1. /\ Mark(at, "running") /\ "running" \in CallSt /\ at \in DOMAIN calls
        /\ UNCHANGED <<Fixed, at, ran, msgs, pc>>
    BY <1>1, <1>a DEF StartNext, CallSt
  <2>2. Learns(<<>>) /\ CallIds' = CallIds
    BY <1>c, <2>1, LearnsOne
  <2>3. Goes(<<>>)
    BY <1>0, <1>d, <2>1, <2>2
  <2> QED
    BY <2>2, <2>3
<1>2. CASE StopNext
  <2> DEFINE t == [k \in 1..(Len(calls) - at + 1) |-> Cut(calls[at + k - 1].id)]
  <2>1. /\ UNCHANGED <<Fixed, calls, at, ran>> /\ msgs' = msgs \o t /\ pc' = "persist"
    BY <1>2 DEF StopNext, Leave
  <2>2. /\ t \in Seq(Rows(CutIds')) /\ NoUser(t) /\ Plain(t) /\ Answered(t) \subseteq CallIds
    BY <1>2, StopRows
  <2>3. CallIds' = CallIds
    BY <2>1 DEF CallIds
  <2> HIDE DEF t
  <2>4. Goes(t)
    BY <1>0, <2>1, <2>2, <2>3 DEF Goes, Fixed
  <2>5. Learns(t)
    BY <2>1, LearnsNothing
  <2> QED
    BY <2>4, <2>5
<1>3. CASE ToolRaises \/ GrantedRaises \/ StopBatch
  <2>1. UNCHANGED <<Fixed, calls, at, ran, msgs>> /\ pc' = "persist"
    BY <1>3 DEF ToolRaises, GrantedRaises, StopBatch, Leave
  <2>2. CallIds' = CallIds
    BY <2>1 DEF CallIds
  <2>3. Goes(<<>>)
    BY <1>d, <2>1, <2>2
  <2>4. Learns(<<>>)
    BY <2>1, LearnsNothing
  <2> QED
    BY <2>3, <2>4
<1>4. ASSUME NEW i \in 1..MaxBatch, Acquire(i) PROVE \E t : Goes(t) /\ Learns(t)
  <2>1. /\ i \in DOMAIN calls /\ calls[i].st = "waiting"
        /\ UNCHANGED <<Fixed, at, ran, msgs, pc>>
    BY <1>4 DEF Acquire, Turn
  <2>2. PICK st \in {"cut", "running"} : Mark(i, st)
    BY <1>4 DEF Acquire
  <2>3. st \in CallSt /\ i >= at
    BY <1>b, <2>1 DEF CallSt, Ended
  <2>4. Learns(<<>>) /\ CallIds' = CallIds
    BY <2>1, <2>2, <2>3, LearnsOne
  <2>5. Goes(<<>>)
    BY <1>0, <1>d, <2>1, <2>4
  <2> QED
    BY <2>4, <2>5
<1>5. ASSUME NEW i \in 1..MaxBatch, NEW st \in {"told", "held"}, ToolEnds(i, st)
      PROVE  \E t : Goes(t) /\ Learns(t)
  <2>1. /\ i \in DOMAIN calls /\ calls[i].st = "running" /\ Mark(i, st)
        /\ UNCHANGED <<Fixed, at, msgs, pc>> /\ ran' \in {ran, ran \cup {calls[i].id}}
    BY <1>5 DEF ToolEnds
  <2>2. st \in CallSt /\ i >= at
    BY <1>b, <2>1 DEF CallSt, Ended
  <2>3. Learns(<<>>) /\ CallIds' = CallIds
    BY <2>1, <2>2, LearnsOne
  <2>4. Goes(<<>>)
    BY <1>0, <1>d, <2>1, <2>3
  <2> QED
    BY <2>3, <2>4
<1>6. CASE Process
  <2> DEFINE c == calls[at].id
             t == <<IF IsCut(at) THEN Cut(c) ELSE Told(c)>>
  <2>1. /\ UNCHANGED <<Fixed, calls, ran, pc>> /\ at' = at + 1
        /\ msgs' = Append(msgs, IF IsCut(at) THEN Cut(c) ELSE Told(c))
    BY <1>6 DEF Process
  <2>2. /\ t \in Seq(Rows(CutIds')) /\ NoUser(t) /\ Plain(t)
        /\ Answered(t) = {c} /\ Called(t) = {} /\ c \in CallIds
        /\ c \in ran => c \in Results(t)
    BY <1>6, ProcessRow
  <2>3. CallIds' = CallIds
    BY <2>1 DEF CallIds
  <2>4. msgs' = msgs \o t
    BY <2>1 DEF RunInv
  <2> HIDE DEF t
  <2>5. Goes(t)
    BY <1>0, <2>1, <2>2, <2>3, <2>4 DEF Goes, Fixed
  <2>6. \A i \in DOMAIN calls : i < at' => i < at \/ i = at
    <3>1. \A i \in DOMAIN calls : i \in Nat
      BY <1>0
    <3> QED
      BY <1>0, <2>1, <3>1
  <2>7. \A i \in DOMAIN calls : i < at' /\ calls[i].id \in ran =>
           calls[i].id \in Results(Mine) \cup Results(t)
    BY <2>2, <2>6 DEF KnownInv, Processed
  <2>8. Learns(t)
    BY <2>1, <2>3, <2>7 DEF Learns, Fixed
  <2> QED
    BY <2>5, <2>8
<1>7. ASSUME NEW b \in BOOLEAN, Decide(b) PROVE \E t : Goes(t) /\ Learns(t)
  <2>1. /\ at \in DOMAIN calls /\ UNCHANGED <<Fixed, at, ran, msgs, pc>>
    BY <1>7, <1>a DEF Decide
  <2>2. PICK st \in {"granted", "told"} : Mark(at, st)
    BY <1>7 DEF Decide
  <2>3. st \in CallSt
    BY DEF CallSt, Ended
  <2>4. Learns(<<>>) /\ CallIds' = CallIds
    BY <1>c, <2>1, <2>2, <2>3, LearnsOne
  <2>5. Goes(<<>>)
    BY <1>0, <1>d, <2>1, <2>4
  <2> QED
    BY <2>4, <2>5
<1>8. CASE GrantedEnds
  <2>1. /\ at \in DOMAIN calls /\ Mark(at, "told") /\ "told" \in CallSt
        /\ UNCHANGED <<Fixed, at, msgs, pc>> /\ ran' \in {ran, ran \cup {calls[at].id}}
    BY <1>8, <1>a DEF GrantedEnds, CallSt, Ended
  <2>2. Learns(<<>>) /\ CallIds' = CallIds
    BY <1>c, <2>1, LearnsOne
  <2>3. Goes(<<>>)
    BY <1>0, <1>d, <2>1, <2>2
  <2> QED
    BY <2>2, <2>3
<1>9. ASSUME NEW cycle \in BOOLEAN, EndIteration(cycle) PROVE \E t : Goes(t) /\ Learns(t)
  <2>1. /\ UNCHANGED <<Fixed, ran, msgs>> /\ calls' = <<>> /\ pc' # "idle"
        /\ at > Len(calls)
    BY <1>9 DEF EndIteration
  <2>2. CallIds' = {} /\ DOMAIN calls' = {}
    BY <2>1 DEF CallIds
  <2>3. \A i \in DOMAIN calls : i < at
    BY <1>0, <2>1
  <2>4. ran \cap CallIds \subseteq Results(Mine)
    BY <2>3 DEF CallIds, KnownInv, Processed
  <2>5. Learns(<<>>)
    BY <2>1, <2>2, <2>4 DEF Learns, Fixed
  <2>6. Goes(<<>>)
    BY <1>0, <2>1, <2>2, GoesNothing DEF Fixed
  <2> QED
    BY <2>5, <2>6
<1> QED
  BY <1>1, <1>2, <1>3, <1>4, <1>5, <1>6, <1>7, <1>8, <1>9 DEF Dispatch

---------------------------------------------------------------------------
(* A run begins.                                                           *)

LEMMA Rejoined ==
    ASSUME NEW S, NEW s \in Seq(S), NEW t \in Seq(S)
    PROVE  LET u == s \o t
           IN  /\ SubSeq(u, 1, Len(s)) = s /\ SubSeq(u, Len(s) + 1, Len(u)) = t
<1> DEFINE u == s \o t
           a == SubSeq(u, 1, Len(s))
           b == SubSeq(u, Len(s) + 1, Len(u))
<1>1. /\ u \in Seq(S) /\ Len(u) = Len(s) + Len(t) /\ Len(s) \in Nat /\ Len(t) \in Nat
      /\ \A i \in DOMAIN s : u[i] = s[i]
      /\ \A i \in DOMAIN t : u[Len(s) + i] = t[i]
  BY JoinedAt
<1>2. DOMAIN s = 1..Len(s) /\ DOMAIN t = 1..Len(t)
  OBVIOUS
<1> HIDE DEF u
<1>3. Len(s) \in 0..Len(u)
  BY <1>1
<1>4. /\ a \in Seq(S) /\ Len(a) = Len(s) /\ \A i \in 1..Len(s) : a[i] = u[i]
      /\ b \in Seq(S) /\ Len(b) = Len(u) - Len(s)
      /\ \A i \in 1..(Len(u) - Len(s)) : b[i] = u[Len(s) + i]
  BY <1>1, <1>3, Halves
<1> HIDE DEF a, b
<1>5. a = s
  BY <1>1, <1>2, <1>4, SeqEqual
<1>6. Len(u) - Len(s) = Len(t)
  BY <1>1
<1>7. b = t
  BY <1>1, <1>2, <1>4, <1>6, SeqEqual
<1> QED
  BY <1>5, <1>7 DEF a, b, u

LEMMA UserRow ==
    ASSUME NEW B
    PROVE  LET t == <<User>>
           IN  /\ t \in Seq(Rows(B)) /\ OneUser(t) /\ Plain(t) /\ InTurn(t)
               /\ Called(t) = {} /\ Answered(t) = {} /\ Results(t) = {} /\ Shown(t) = {}
<1> DEFINE t == <<User>>
<1>1. User \in Rows(B) /\ Is(User, "user") /\ CallsOf(User) = {} /\ ~Hides(User)
  BY NewRows
<1>2. ~Is(User, "tool")
  BY <1>1, OneRole
<1>3. t \in Seq(Rows(B)) /\ Len(t) = 1 /\ DOMAIN t = {1} /\ t[1] = User
  BY <1>1
<1>4. Called(t) = {} /\ Answered(t) = {} /\ Results(t) = {} /\ Shown(t) = {}
  BY <1>1, <1>2, OneRow
<1>5. OneUser(t) /\ Plain(t)
  BY <1>1, <1>3 DEF OneUser, Plain
<1>6. InTurn(t)
  BY <1>2, <1>3 DEF InTurn
<1> QED
  BY <1>3, <1>4, <1>5, <1>6

LEMMA InjectedRows ==
    ASSUME NEW B, NEW h, NEW rows \in Injected(h)
    PROVE  /\ rows \in Seq(Rows(B)) /\ NoUser(rows) /\ Plain(rows)
           /\ Answered(rows) \subseteq Called(rows)
<1> DEFINE a == <<Assistant(<<Skill>>)>>
           b == <<Told(Skill)>>
<1>0. Skill \in Ids /\ <<Skill>> \in Seq(Ids) /\ {<<Skill>>[k] : k \in DOMAIN <<Skill>>} = {Skill}
  BY DEF Ids
<1>1. /\ a \in Seq(Rows(B)) /\ NoUser(a) /\ Plain(a) /\ Answered(a) = {} /\ Called(a) = {Skill}
  BY <1>0, AnswerRow
<1>2. Told(Skill) \in {Told(Skill), Cut(Skill)} /\ Told(Skill) # Cut(Skill)
  BY DEF Told, Cut
<1>3. b \in Seq(Rows(B)) /\ NoUser(b) /\ Plain(b) /\ Answered(b) = {Skill} /\ Called(b) = {}
  BY <1>0, <1>2, ResultRow
<1>4. <<Assistant(<<Skill>>), Told(Skill)>> = a \o b
  OBVIOUS
<1> HIDE DEF a, b
<1> DEFINE c == a \o b
<1>5. /\ c \in Seq(Rows(B))
      /\ \A p \in DOMAIN c : \/ p \in DOMAIN a /\ c[p] = a[p]
                             \/ p - Len(a) \in DOMAIN b /\ c[p] = b[p - Len(a)]
  BY <1>1, <1>3, JoinedAt
<1>6. Called(c) = {Skill} /\ Answered(c) = {Skill}
  BY <1>1, <1>3, JoinedRows
<1>7. Plain(c)
  BY <1>1, <1>3, PlainJoins
<1> HIDE DEF c
<1>8. NoUser(c)
  BY <1>1, <1>3, <1>5 DEF NoUser
<1>9. CASE rows = <<>>
  BY <1>9, NoRows DEF NoUser
<1>10. CASE rows = c
  BY <1>5, <1>6, <1>7, <1>8, <1>10
<1> QED
  BY <1>4, <1>9, <1>10 DEF Injected, c

(* u is the history h and, behind it, m.                                   *)
Begun(S, u, h, m) ==
    /\ u \in Seq(S) /\ Len(h) < Len(u)
    /\ SubSeq(u, 1, Len(h)) = h /\ SubSeq(u, Len(h) + 1, Len(u)) = m

LEMMA BegunRows ==
    ASSUME NEW S, NEW h \in Seq(S), NEW w \in Seq(S), Len(w) = 1, NEW rows \in Seq(S)
    PROVE  Begun(S, h \o w \o rows, h, w \o rows)
<1> DEFINE s == h \o w
           n == Len(h)
<1>1. s \in Seq(S) /\ Len(s) = n + 1 /\ n \in Nat
  <2>1. h \o w \in Seq(S) /\ Len(h \o w) = Len(h) + Len(w) /\ Len(h) \in Nat
    BY JoinedAt, Zenon
  <2> QED
    BY <2>1
<1>2. SubSeq(s, 1, n) = h /\ SubSeq(s, n + 1, Len(s)) = w
  BY Rejoined
<1>3. n < Len(s)
  BY <1>1
<1> HIDE DEF s, n
<1>4. s \in Seq(S) /\ n \in Nat /\ n < Len(s)
  BY <1>1, <1>3
<1>5. /\ s \o rows \in Seq(S) /\ n < Len(s \o rows)
      /\ SubSeq(s \o rows, 1, n) = SubSeq(s, 1, n)
      /\ SubSeq(s \o rows, n + 1, Len(s \o rows)) = SubSeq(s, n + 1, Len(s)) \o rows
  BY <1>4, AppendedRows, Zenon
<1> QED
  BY <1>1, <1>2, <1>5, Zenon DEF s, n, Begun

LEMMA Begins ==
    ASSUME calls = <<>>, NEW r, NEW as, NEW h \in Seq(Rows(CutIds')),
           Answered(h) \subseteq Called(h), Results(h) \subseteq Results(store'),
           Begin(r, as, h)
    PROVE  RunInv' /\ Past' = h
<1> DEFINE B == CutIds'
<1>1. PICK rows \in Injected(h) : msgs' = h \o <<User>> \o rows
  BY DEF Begin
<1> DEFINE w == <<User>>
           u == h \o w \o rows
           m == w \o rows
<1>2. rows \in Seq(Rows(B)) /\ NoUser(rows) /\ Plain(rows) /\ Answered(rows) \subseteq Called(rows)
  BY InjectedRows
<1>3. /\ w \in Seq(Rows(B)) /\ Len(w) = 1 /\ OneUser(w) /\ Plain(w)
      /\ Called(w) = {} /\ Answered(w) = {}
  BY UserRow
<1>4. msgs' = u /\ from' = Len(h) /\ pc' = "head" /\ calls' = <<>>
  BY <1>1 DEF Begin
<1> HIDE DEF B, w
<1>5. h \in Seq(Rows(B)) /\ Len(h) \in Nat
  BY DEF B
<1>6. /\ u \in Seq(Rows(B)) /\ Len(h) < Len(u) /\ SubSeq(u, 1, Len(h)) = h
      /\ SubSeq(u, Len(h) + 1, Len(u)) = m
  <2>1. h \in Seq(Rows(B)) /\ w \in Seq(Rows(B)) /\ Len(w) = 1 /\ rows \in Seq(Rows(B))
    BY <1>2, <1>3, <1>5
  <2>2. Begun(Rows(B), h \o w \o rows, h, w \o rows)
    BY ONLY <2>1, BegunRows
  <2> QED
    BY <2>2 DEF Begun
<1>9. OneUser(m)
  BY <1>2, <1>3, MoreOfARun
<1>10. Plain(m)
  BY <1>2, <1>3, PlainJoins
<1>11. Answered(m) = Answered(rows) /\ Called(m) = Called(rows)
  <2>1. /\ Called(m) = Called(w) \cup Called(rows)
        /\ Answered(m) = Answered(w) \cup Answered(rows)
    <3>1. w \in Seq(Rows(B)) /\ rows \in Seq(Rows(B))
      BY <1>2, <1>3
    <3> QED
      BY <3>1, JoinedRows
  <2> QED
    BY <1>3, <2>1
<1>12. Shown(m) = Called(m)
  BY <1>10, PlainShows
<1> HIDE DEF u, m
<1>13. Mine' = m /\ Past' = h
  BY <1>6, <1>4 DEF Mine, Past
<1>14. CallIds' = {}
  BY <1>4 DEF CallIds
<1>15. OwnRows'
  BY <1>2, <1>6, <1>4, <1>9, <1>10, <1>11, <1>12, <1>13, <1>14 DEF OwnRows
<1> QED
  BY <1>6, <1>4, <1>13, <1>15, <1>5 DEF RunInv, B

---------------------------------------------------------------------------
(* Rows are stored.                                                        *)

LEMMA StoreStays ==
    ASSUME StoreInv, CutIds \subseteq CutIds', store' = store,
           \A r \in Requests : seen'[r] \in {seen[r], 0, Len(store)}
    PROVE  StoreInv'
<1>1. store \in Seq(Rows(CutIds'))
  BY RowsGrow DEF StoreInv
<1>2. Len(store) \in Nat
  BY <1>1
<1> QED
  BY <1>1, <1>2 DEF StoreInv

LEMMA StoreGrows ==
    ASSUME Scalars, StoreInv, CutIds \subseteq CutIds',
           NEW t \in Seq(Rows(CutIds')), InTurn(t), store' = store \o t,
           \A r \in Requests : seen'[r] \in {seen[r], 0}
    PROVE  StoreInv' /\ Results(store') = Results(store) \cup Results(t)
<1>1. store \in Seq(Rows(CutIds')) /\ InTurn(store)
  BY RowsGrow DEF StoreInv
<1>2. store' \in Seq(Rows(CutIds')) /\ Len(store') = Len(store) + Len(t) /\ Len(store) \in Nat
      /\ Len(t) \in Nat
  BY <1>1, JoinedAt
<1>3. InTurn(store')
  BY <1>1, InTurnJoins
<1>4. Results(store') = Results(store) \cup Results(t)
  BY <1>1, JoinedRows
<1>5. \A r \in Requests : seen'[r] <= Len(store')
  <2> TAKE r \in Requests
  <2>1. seen[r] \in Nat /\ seen[r] <= Len(store)
    BY DEF Scalars, StoreInv
  <2> QED
    BY <1>2, <2>1
<1> QED
  BY <1>2, <1>3, <1>4, <1>5 DEF StoreInv

(* A user's row behind the others.                                         *)
LEMMA UserStored ==
    ASSUME Scalars, StoreInv, CutIds \subseteq CutIds', store' = Append(store, User),
           NEW r \in Requests, seen' = [seen EXCEPT ![r] = 0]
    PROVE  /\ StoreInv' /\ Results(store') = Results(store)
           /\ \A i \in DOMAIN store' :
                 (i \in DOMAIN store /\ store'[i] = store[i]) \/ Is(store'[i], "user")
           /\ \A q \in Requests : q # r => seen'[q] = seen[q]
<1>0. store \in Seq(Rows(CutIds))
  BY DEF StoreInv
<1>1. /\ <<User>> \in Seq(Rows(CutIds')) /\ InTurn(<<User>>) /\ Results(<<User>>) = {}
  BY UserRow
<1>2. store' = store \o <<User>>
  BY <1>0
<1>3. \A q \in Requests : seen'[q] \in {seen[q], 0} /\ (q # r => seen'[q] = seen[q])
  BY DEF Scalars
<1>4. StoreInv' /\ Results(store') = Results(store)
  BY <1>1, <1>2, <1>3, StoreGrows
<1>5. Is(User, "user")
  BY NewRows
<1>6. \A i \in DOMAIN store' :
                 (i \in DOMAIN store /\ store'[i] = store[i]) \/ Is(store'[i], "user")
  BY <1>0, <1>5
<1> QED
  BY <1>3, <1>4, <1>6

LEMMA TailRows ==
    ASSUME NEW S, NEW m \in Seq(S), OneUser(m)
    PROVE  LET t == Tail(m)
           IN  /\ t \in Seq(S) /\ NoUser(t)
               /\ Called(t) = Called(m) /\ Shown(t) = Shown(m)
               /\ Answered(t) = Answered(m) /\ Results(t) = Results(m)
<1> DEFINE t == Tail(m)
           a == <<m[1]>>
<1>1. Len(m) \in Nat /\ Len(m) >= 1 /\ m # <<>> /\ m[1] \in S
  BY DEF OneUser
<1>2. t \in Seq(S) /\ DOMAIN t = 1..(Len(m) - 1) /\ \A i \in DOMAIN t : t[i] = m[i + 1]
  BY <1>1
<1>3. a \in Seq(S)
  BY <1>1
<1>4. m = a \o t
  <2>1. a \o t \in Seq(S) /\ Len(a \o t) = Len(m) /\ \A i \in 1..Len(m) : m[i] = (a \o t)[i]
    BY <1>1
  <2> QED
    BY <2>1, SeqEqual
<1>5. NoUser(t)
  <2> HIDE DEF t
  <2> SUFFICES ASSUME NEW i \in DOMAIN t PROVE ~Is(t[i], "user")
    BY DEF NoUser
  <2>1. i + 1 \in DOMAIN m /\ i + 1 > 1
    BY <1>1, <1>2
  <2> QED
    BY <1>2, <2>1 DEF OneUser
<1>6. Called(a) = {} /\ Shown(a) = {} /\ Answered(a) = {} /\ Results(a) = {}
  <2>1. Is(m[1], "user") /\ ~Is(m[1], "tool") /\ ~Is(m[1], "assistant")
    BY OneRole DEF OneUser
  <2> QED
    BY <2>1, OneRow DEF CallsOf
<1> HIDE DEF a, t
<1>7. /\ Called(m) = Called(a) \cup Called(t) /\ Shown(m) = Shown(a) \cup Shown(t)
      /\ Answered(m) = Answered(a) \cup Answered(t) /\ Results(m) = Results(a) \cup Results(t)
  BY <1>2, <1>3, <1>4, JoinedRows
<1> QED
  BY <1>2, <1>5, <1>6, <1>7 DEF t

LEMMA StoredRows ==
    ASSUME Base, RunInv, pc = "persist"
    PROVE  /\ Stored \in Seq(Rows(CutIds)) /\ InTurn(Stored)
           /\ ~(kind = "task" /\ outcome = "raised") => Results(Mine) \subseteq Results(Stored)
<1> DEFINE B == CutIds
           T == Tail(Mine)
<1>0. OwnRows /\ kind \in {"chat", "task"} /\ outcome \in {"answered", "cancelled", "raised"}
  BY DEF RunInv, Base, Scalars
<1>1. Mine \in Seq(Rows(B)) /\ OneUser(Mine) /\ Answered(Mine) \subseteq Shown(Mine)
  <2>1. from \in 0..Len(msgs) /\ msgs \in Seq(Rows(B))
    BY <1>0 DEF RunInv, OwnRows
  <2> QED
    BY <1>0, <2>1, Halves DEF Mine, OwnRows
<1> HIDE DEF B
<1>2. InTurn(Mine)
  BY <1>1, OneTurn DEF OneUser
<1>3. /\ T \in Seq(Rows(B)) /\ NoUser(T) /\ Shown(T) = Shown(Mine)
      /\ Answered(T) = Answered(Mine) /\ Results(T) = Results(Mine)
  BY <1>1, TailRows
<1> HIDE DEF T
<1>4. InTurn(T)
  BY <1>1, <1>3, OneTurn DEF NoUser
<1>5. ASSUME NEW e \in {<<User, Assistant(<<>>)>>, <<Assistant(<<>>)>>, <<>>}
      PROVE  e \in Seq(Rows(B)) /\ InTurn(e)
  <2>1. User \in Rows(B) /\ Assistant(<<>>) \in Rows(B)
    <3>1. <<>> \in Seq(Ids)
      OBVIOUS
    <3> QED
      BY <3>1, NewRows
  <2>2. ~Is(User, "tool") /\ ~Is(Assistant(<<>>), "tool")
    BY DEF User, Assistant, Is
  <2> DEFINE a == Assistant(<<>>)
             u == User
  <2> HIDE DEF a, u
  <2>3. e \in {<<u, a>>, <<a>>, <<>>}
    BY DEF a, u
  <2>4. u \in Rows(B) /\ a \in Rows(B) /\ ~Is(u, "tool") /\ ~Is(a, "tool")
    BY <2>1, <2>2 DEF a, u
  <2>5. e \in Seq(Rows(B)) /\ \A i \in DOMAIN e : e[i] \in {u, a}
    <3>1. CASE e = <<u, a>>
      BY <2>4, <3>1
    <3>2. CASE e = <<a>>
      BY <2>4, <3>2
    <3>3. CASE e = <<>>
      BY <3>3
    <3> QED
      BY <2>3, <3>1, <3>2, <3>3
  <2> QED
    BY <2>4, <2>5 DEF InTurn
<1>6. CASE kind = "task"
  <2>2. CASE outcome = "raised"
    <3>1. Stored = <<>> /\ Stored \in Seq(Rows(B))
      BY <1>6, <2>2 DEF Stored
    <3> QED
      BY <1>6, <2>2, <3>1, NoRowsInTurn DEF B
  <2>3. CASE outcome # "raised"
    <3>1. Stored = Mine
      BY <1>6, <2>3 DEF Stored
    <3> QED
      BY <1>1, <1>2, <3>1 DEF B
  <2> QED
    BY <2>2, <2>3
<1>7. CASE kind = "chat"
  <2>1. PICK e \in {<<User, Assistant(<<>>)>>, <<Assistant(<<>>)>>, <<>>} : Stored = T \o e
    BY <1>0, <1>7 DEF Stored, T
  <2>2. e \in Seq(Rows(B)) /\ InTurn(e)
    BY <1>5
  <2> HIDE DEF Stored
  <2>3. InTurn(T \o e)
    BY <1>3, <1>4, <2>2, InTurnJoins
  <2>4. Results(T \o e) = Results(T) \cup Results(e)
    BY <1>3, <2>2, JoinedRows
  <2>5. T \o e \in Seq(Rows(B))
    BY <1>3, <2>2
  <2> QED
    BY <1>3, <2>1, <2>3, <2>4, <2>5 DEF B
<1> QED
  BY <1>0, <1>6, <1>7 DEF B

---------------------------------------------------------------------------
(* Requests come, runs begin and end.                                      *)

(* The watermark is before a user's row, and so is what a request or a run *)
(* loaded, of the rows there were when it did.                             *)
WindowInv ==
    /\ skips \in [Requests -> Nat] /\ Opens(store, mark)
    /\ \A r \in Requests :
          /\ Opens(store, skips[r])
          /\ phase[r] = "loaded" => skips[r] = 0 \/ skips[r] < seen[r]
    /\ who # NoOne => phase[who] = "running"

AgentInv == Base /\ StoreInv /\ WindowInv /\ RunInv /\ KnownInv

LEMMA StoredTypes ==
    ASSUME StoreInv
    PROVE  store \in Seq(Row) /\ Len(store) \in Nat
<1>1. Rows(CutIds) \subseteq Row
  BY DEF Rows
<1>2. store \in Seq(Row)
  BY <1>1 DEF StoreInv
<1> QED
  BY <1>2

LEMMA WindowStays ==
    ASSUME StoreInv, WindowInv, NEW t \in Seq(Row), store' = store \o t, mark' = mark,
           skips' \in [Requests -> Nat], \A r \in Requests : skips'[r] \in {skips[r], 0},
           \A r \in Requests : phase'[r] = "loaded" => phase[r] = "loaded" /\ seen'[r] = seen[r],
           who' # NoOne => phase'[who'] = "running"
    PROVE  WindowInv'
<1>1. store \in Seq(Row)
  BY StoredTypes
<1>2. \A k : Opens(store, k) => Opens(store', k)
  BY <1>1, OpensGrows
<1>3. Opens(store', 0)
  BY DEF Opens
<1>4. ASSUME NEW r \in Requests
      PROVE  /\ Opens(store', skips'[r])
             /\ phase'[r] = "loaded" => skips'[r] = 0 \/ skips'[r] < seen'[r]
  BY <1>2, <1>3 DEF WindowInv
<1>5. Opens(store', mark')
  BY <1>2 DEF WindowInv
<1> QED
  BY <1>4, <1>5 DEF WindowInv

LEMMA WindowSteps ==
    ASSUME Base, StoreInv, WindowInv,
           \/ Waits \/ UNCHANGED vars \/ \E r \in Requests : StartTurn(r) \/ StartTask(r)
           \/ Persist \/ PersistFails \/ Die,
           pc = "persist" => Stored \in Seq(Row)
    PROVE  WindowInv'
<1> USE DEF Base, Scalars
<1>0. /\ store \in Seq(Row) /\ Len(store) \in Nat /\ skips \in [Requests -> Nat]
      /\ <<>> \in Seq(Row) /\ store \o <<>> = store
      /\ <<User>> \in Seq(Row) /\ Append(store, User) = store \o <<User>>
  <2>1. store \in Seq(Row) /\ User \in Row
    BY StoredTypes DEF User, Row
  <2> QED
    BY <2>1 DEF WindowInv
<1>1. ASSUME NEW r \in Requests, LoadHistory(r) PROVE WindowInv'
  <2>1. PICK n \in LiveTurns \cup {Len(store)} :
           skips' = [skips EXCEPT ![r] = Len(store) - Len(Recent(Unmarked, n))]
    BY <1>1 DEF LoadHistory
  <2>2. /\ UNCHANGED <<store, mark, who>> /\ phase[r] = "new"
        /\ phase' = [phase EXCEPT ![r] = "loaded"] /\ seen' = [seen EXCEPT ![r] = Len(store)]
    BY <1>1 DEF LoadHistory, run
  <2> DEFINE k == Len(store) - Len(Recent(Unmarked, n))
  <2>3. Opens(store, k)
    <3>1. n \in Nat /\ (n = 0 => Len(store) = 0)
      BY <1>0, AgentLoopAssumption
    <3>2. store \in Seq(Rows(Ids))
      BY <1>0, AllRows
    <3> QED
      BY <3>1, <3>2, LoadOpens DEF WindowInv, Unmarked
  <2>4. skips' = [skips EXCEPT ![r] = k]
    BY <2>1
  <2> HIDE DEF k
  <2>5. k \in Nat /\ (k = 0 \/ k < Len(store))
    BY <1>0, <2>3, OpensIn
  <2>6. /\ skips' \in [Requests -> Nat] /\ skips'[r] = k /\ seen'[r] = Len(store)
        /\ \A q \in Requests : q # r =>
              skips'[q] = skips[q] /\ seen'[q] = seen[q] /\ phase'[q] = phase[q]
    BY <1>0, <2>2, <2>4, <2>5
  <2>7. ASSUME NEW q \in Requests
        PROVE  /\ Opens(store, skips'[q])
               /\ phase'[q] = "loaded" => skips'[q] = 0 \/ skips'[q] < seen'[q]
    BY <2>3, <2>5, <2>6 DEF WindowInv
  <2>8. who' # NoOne => phase'[who'] = "running"
    BY <2>2, <2>6 DEF WindowInv
  <2> QED
    BY <2>2, <2>6, <2>7, <2>8 DEF WindowInv
<1>2. ASSUME NEW r \in Requests, Queue(r) PROVE WindowInv'
  <2>1. /\ store' = store \o <<User>> /\ UNCHANGED <<mark, who>> /\ phase[r] = "loaded"
        /\ phase' = [phase EXCEPT ![r] = "queued"] /\ seen' = [seen EXCEPT ![r] = 0]
        /\ skips' = [skips EXCEPT ![r] = 0]
    BY <1>0, <1>2 DEF Queue, run
  <2>2. who' # NoOne => phase'[who'] = "running"
    BY <2>1 DEF WindowInv
  <2>3. /\ skips' \in [Requests -> Nat] /\ \A q \in Requests : skips'[q] \in {skips[q], 0}
        /\ \A q \in Requests : phase'[q] = "loaded" => phase[q] = "loaded" /\ seen'[q] = seen[q]
    BY <1>0, <2>1
  <2> QED
    BY <1>0, <2>1, <2>2, <2>3, WindowStays
<1>3. CASE Cancel \/ UNCHANGED vars
  <2>1. /\ UNCHANGED <<store, mark, skips, seen, who>>
        /\ \A q \in Requests : phase'[q] = "loaded" => phase[q] = "loaded"
    BY <1>3 DEF Cancel, run, vars
  <2>2. who' # NoOne => phase'[who'] = "running"
    BY <1>3 DEF Cancel, run, vars, WindowInv
  <2> QED
    BY <1>0, <2>1, <2>2, WindowStays
<1>4. CASE MoveMark
  <2>1. UNCHANGED <<phase, seen, skips, store, who>>
    BY <1>4 DEF MoveMark, run
  <2>2. PICK i \in DOMAIN store : Is(store[i], "user") /\ i > 1 /\ mark' = i - 1
    BY <1>4 DEF MoveMark
  <2>3. i - 1 \in 1..(Len(store) - 1) /\ (i - 1) + 1 = i
    BY <1>0, <2>2
  <2>4. Opens(store, mark')
    BY <2>2, <2>3 DEF Opens
  <2> QED
    BY <2>1, <2>4 DEF WindowInv
<1>5. ASSUME NEW r \in Requests, StartTurn(r) \/ StartTask(r) PROVE WindowInv'
  <2>1. /\ store' \in {store \o <<User>>, store \o <<>>} /\ UNCHANGED <<mark, skips>>
        /\ phase' = [phase EXCEPT ![r] = "running"] /\ who' = r
        /\ seen' \in {seen, [seen EXCEPT ![r] = 0]}
    BY <1>0, <1>5 DEF StartTurn, StartTask, Begin
  <2>2. /\ who' # NoOne => phase'[who'] = "running"
        /\ \A q \in Requests : phase'[q] = "loaded" => phase[q] = "loaded" /\ seen'[q] = seen[q]
    BY <2>1
  <2> QED
    BY <1>0, <2>1, <2>2, WindowStays
<1>6. CASE Persist \/ PersistFails
  <2>1. /\ UNCHANGED <<mark, seen>> /\ who' = NoOne /\ phase' = [phase EXCEPT ![who] = "done"]
        /\ skips' = [skips EXCEPT ![who] = 0]
    BY <1>6 DEF Persist, PersistFails, EndRun, Release
  <2>2. PICK t \in Seq(Row) : store' = store \o t
    BY <1>0, <1>6 DEF Persist, PersistFails
  <2>3. /\ skips' \in [Requests -> Nat] /\ \A q \in Requests : skips'[q] \in {skips[q], 0}
        /\ \A q \in Requests : phase'[q] = "loaded" => phase[q] = "loaded" /\ seen'[q] = seen[q]
    BY <1>0, <2>1
  <2> QED
    BY <2>1, <2>2, <2>3, WindowStays
<1>7. CASE Die
  <2>1. /\ UNCHANGED <<mark, store>> /\ who' = NoOne /\ skips' = [r \in Requests |-> 0]
        /\ \A q \in Requests : phase'[q] # "loaded"
    BY <1>7 DEF Die, Release
  <2> QED
    BY <1>0, <2>1, WindowStays
<1> QED
  BY <1>1, <1>2, <1>3, <1>4, <1>5, <1>6, <1>7 DEF Waits

(* What a run left out stays where it was.                                 *)
LEMMA LeftOutStays ==
    ASSUME StoreInv, WindowInv, who \in Requests, who' = who, skips'[who] = skips[who],
           NEW t \in Seq(Row), store' = store \o t
    PROVE  LeftOut' = LeftOut
<1>1. store \in Seq(Row)
  BY StoredTypes
<1>2. skips[who] \in 0..Len(store)
  BY <1>1, OpensIn DEF WindowInv
<1>3. SubSeq(store \o t, 1, skips[who]) = SubSeq(store, 1, skips[who])
  BY <1>1, <1>2, PrefixStays
<1> QED
  BY <1>3 DEF LeftOut

LEMMA RequestSteps ==
    ASSUME AgentInv, CutIds \subseteq CutIds',
           Waits \/ UNCHANGED vars
    PROVE  StoreInv' /\ RunInv' /\ KnownInv'
<1> USE DEF AgentInv, Base
<1>1. /\ UNCHANGED <<msgs, from, pc, calls, at, kind, who, ran, lost, overtaken>>
  BY DEF Waits, LoadHistory, Queue, Cancel, MoveMark, run, facts, vars
<1>2. Mine' = Mine /\ Past' = Past /\ CallIds' = CallIds
  BY <1>1 DEF Mine, Past, CallIds
<1>w. pc # "idle" => LeftOut' = LeftOut
  <2> SUFFICES ASSUME pc # "idle" PROVE LeftOut' = LeftOut
    OBVIOUS
  <2>1. who \in Requests /\ phase[who] = "running"
    BY DEF Scalars, WindowInv
  <2>2. skips \in [Requests -> Nat] /\ store \in Seq(Row)
    BY StoredTypes DEF WindowInv
  <2>3. skips'[who] = skips[who]
    BY <2>1, <2>2 DEF Waits, LoadHistory, Queue, Cancel, MoveMark, vars
  <2>4. \E t \in Seq(Row) : store' = store \o t
    <3>1. <<>> \in Seq(Row) /\ store \o <<>> = store
      BY <2>2
    <3>2. <<User>> \in Seq(Row) /\ Append(store, User) = store \o <<User>>
      BY <2>2 DEF User, Row
    <3>3. store' = store \/ store' = Append(store, User)
      BY DEF Waits, LoadHistory, Queue, Cancel, MoveMark, vars
    <3> QED
      BY <3>1, <3>2, <3>3
  <2> QED
    BY <1>1, <2>1, <2>3, <2>4, LeftOutStays
<1>3. ASSUME Results(store') = Results(store),
             \A r \in Requests : phase'[r] = "loaded" /\ r \notin overtaken =>
                \A i \in DOMAIN store' : i > seen'[r] => Is(store'[i], "user")
      PROVE  RunInv' /\ KnownInv'
  <2>1. RunInv'
    BY <1>1, <1>3, RunStays
  <2>2. Processed'
    BY <1>1, <1>2 DEF Processed, KnownInv
  <2>3. (\A r \in Requests : phase[r] = "loaded" /\ r \notin overtaken =>
            \A i \in DOMAIN store : i > seen[r] => Is(store[i], "user"))'
    BY <1>1, <1>3
  <2> QED
    BY <1>1, <1>2, <1>w, <1>3, <2>1, <2>2, <2>3 DEF KnownInv
<1>4. ASSUME NEW r \in Requests, LoadHistory(r) PROVE StoreInv' /\ RunInv' /\ KnownInv'
  <2>1. /\ store' = store /\ seen' = [seen EXCEPT ![r] = Len(store)]
        /\ phase' = [phase EXCEPT ![r] = "loaded"]
    BY <1>4 DEF LoadHistory
  <2>2. /\ \A q \in Requests : q # r => seen'[q] = seen[q] /\ phase'[q] = phase[q]
        /\ seen'[r] = Len(store)
    BY <2>1 DEF Scalars
  <2>3. StoreInv'
    BY <2>1, <2>2, StoreStays
  <2>4. \A i \in DOMAIN store : ~(i > Len(store))
    BY DEF StoreInv
  <2>5. \A q \in Requests : phase'[q] = "loaded" /\ q \notin overtaken =>
           \A i \in DOMAIN store' : i > seen'[q] => Is(store'[i], "user")
    BY <2>1, <2>2, <2>4 DEF KnownInv
  <2> QED
    BY <1>3, <2>1, <2>3, <2>5
<1>5. ASSUME NEW r \in Requests, Queue(r) PROVE StoreInv' /\ RunInv' /\ KnownInv'
  <2>1. /\ store' = Append(store, User) /\ seen' = [seen EXCEPT ![r] = 0]
        /\ phase' = [phase EXCEPT ![r] = "queued"]
    BY <1>5 DEF Queue
  <2>2. /\ StoreInv' /\ Results(store') = Results(store)
        /\ \A i \in DOMAIN store' :
              (i \in DOMAIN store /\ store'[i] = store[i]) \/ Is(store'[i], "user")
        /\ \A q \in Requests : q # r => seen'[q] = seen[q]
    BY <2>1, UserStored
  <2>3. /\ \A q \in Requests : q # r => phase'[q] = phase[q]
        /\ phase'[r] = "queued"
    BY <2>1 DEF Scalars
  <2>4. \A q \in Requests : phase'[q] = "loaded" /\ q \notin overtaken =>
           \A i \in DOMAIN store' : i > seen'[q] => Is(store'[i], "user")
    <3> SUFFICES ASSUME NEW q \in Requests, phase'[q] = "loaded", q \notin overtaken,
                        NEW i \in DOMAIN store', i > seen'[q]
                 PROVE  Is(store'[i], "user")
      OBVIOUS
    <3>1. q # r /\ phase[q] = "loaded" /\ seen'[q] = seen[q]
      BY <2>2, <2>3
    <3> QED
      BY <2>2, <3>1 DEF KnownInv
  <2> QED
    BY <1>3, <2>2, <2>4
<1>6. CASE Cancel \/ MoveMark \/ UNCHANGED vars
  <2>1. /\ UNCHANGED <<store, seen>>
        /\ \A q \in Requests : phase'[q] = "loaded" => phase[q] = "loaded"
    BY <1>6 DEF Cancel, MoveMark, vars
  <2>2. StoreInv'
    BY <2>1, StoreStays
  <2>3. \A q \in Requests : phase'[q] = "loaded" /\ q \notin overtaken =>
           \A i \in DOMAIN store' : i > seen'[q] => Is(store'[i], "user")
    BY <2>1 DEF KnownInv
  <2> QED
    BY <1>3, <2>1, <2>2, <2>3
<1> QED
  BY <1>4, <1>5, <1>6 DEF Waits

LEMMA IdleRun ==
    ASSUME AgentInv, who = NoOne
    PROVE  pc = "idle" /\ calls = <<>> /\ ran \ lost \subseteq Results(store)
<1>1. pc = "idle" /\ calls = <<>> /\ msgs = <<>> /\ from = 0
  BY DEF AgentInv, Base, Scalars, Batched, RunInv
<1>2. Mine = <<>> /\ CallIds = {}
  BY <1>1 DEF Mine, CallIds
<1> QED
  BY <1>1, <1>2, NoRows DEF AgentInv, KnownInv

(* The rows there were when a request loaded, and those it took of them.   *)
LEMMA LoadedRows ==
    ASSUME Scalars, StoreInv, WindowInv, NEW r \in Requests, phase[r] = "loaded"
    PROVE  LET a == SubSeq(store, 1, seen[r])
           IN  /\ \A i \in DOMAIN a : i \in DOMAIN store /\ a[i] = store[i]
               /\ Opens(a, skips[r]) /\ SubSeq(a, 1, skips[r]) = SubSeq(store, 1, skips[r])
               /\ SubSeq(a, skips[r] + 1, Len(a)) = SubSeq(store, skips[r] + 1, seen[r])
<1> DEFINE a == SubSeq(store, 1, seen[r])
           k == skips[r]
<1>1. store \in Seq(Row) /\ Len(store) \in Nat /\ seen[r] \in Nat /\ seen[r] \in 0..Len(store)
  <2>1. store \in Seq(Row) /\ Len(store) \in Nat
    BY StoredTypes
  <2>2. seen[r] \in Nat /\ seen[r] <= Len(store)
    BY DEF Scalars, StoreInv
  <2> QED
    BY <2>1, <2>2
<1>2. a \in Seq(Row) /\ Len(a) = seen[r] /\ \A i \in 1..seen[r] : a[i] = store[i]
  BY <1>1, Halves
<1>3. Opens(store, k) /\ (k = 0 \/ k < seen[r]) /\ k \in Nat
  BY DEF WindowInv
<1> HIDE DEF a, k
<1>4. \A i \in DOMAIN a : i \in DOMAIN store /\ a[i] = store[i]
  BY <1>1, <1>2
<1>5. Opens(a, k) /\ k \in 0..seen[r]
  <2>1. CASE k = 0
    BY <1>1, <2>1 DEF Opens
  <2>2. CASE k # 0
    <3>1. k \in 1..(seen[r] - 1) /\ k + 1 \in 1..seen[r] /\ k \in 0..seen[r]
      BY <1>1, <1>3, <2>2
    <3>2. Is(a[k + 1], "user")
      BY <1>2, <1>3, <2>2, <3>1 DEF Opens
    <3> QED
      BY <1>2, <3>1, <3>2 DEF Opens
  <2> QED
    BY <2>1, <2>2
<1>6. SubSeq(a, 1, k) = SubSeq(store, 1, k) /\ SubSeq(a, k + 1, Len(a)) = SubSeq(store, k + 1, seen[r])
  BY <1>1, <1>5, Between DEF a
<1> QED
  BY <1>4, <1>5, <1>6 DEF a, k

LEMMA TurnStarts ==
    ASSUME AgentInv, CutIds \subseteq CutIds', NEW r \in Requests, StartTurn(r)
    PROVE  StoreInv' /\ RunInv' /\ KnownInv'
<1> USE DEF AgentInv, Base
<1> DEFINE a == SubSeq(store, 1, seen[r])
           s == SubSeq(store, skips[r] + 1, seen[r])
           h == History(s)
<1>1. /\ phase[r] = "loaded" /\ who = NoOne /\ Begin(r, "chat", h)
      /\ store' = Append(store, User) /\ seen' = [seen EXCEPT ![r] = 0]
      /\ UNCHANGED facts /\ skips' = skips
  BY DEF StartTurn
<1>2. pc = "idle" /\ calls = <<>> /\ ran \ lost \subseteq Results(store)
  BY <1>1, IdleRun
<1>3. store \in Seq(Rows(CutIds')) /\ seen[r] \in 0..Len(store) /\ InTurn(store)
  <2>1. store \in Seq(Rows(CutIds')) /\ Len(store) \in Nat /\ seen[r] \in Nat
    BY RowsGrow DEF StoreInv, Scalars
  <2> QED
    BY <2>1 DEF StoreInv
<1>4. /\ a \in Seq(Rows(CutIds')) /\ \A i \in DOMAIN a : i \in DOMAIN store /\ a[i] = store[i]
      /\ Opens(a, skips[r]) /\ SubSeq(a, 1, skips[r]) = SubSeq(store, 1, skips[r])
      /\ SubSeq(a, skips[r] + 1, Len(a)) = s
  <2>1. a \in Seq(Rows(CutIds'))
    BY <1>3, Halves
  <2> QED
    BY <1>1, <2>1, LoadedRows
<1>5. Results(a) \subseteq Results(store)
  BY <1>4, SameRows
<1> HIDE DEF a, s
<1>o. /\ s \in Seq(Rows(CutIds')) /\ (InTurn(a) => InTurn(s))
      /\ Results(a) = Results(SubSeq(store, 1, skips[r])) \cup Results(s)
  BY <1>4, OpenedRows
<1>6. /\ h \in Seq(Rows(CutIds')) /\ Answered(h) \subseteq Called(h)
      /\ Results(h) \subseteq Results(s) /\ Results(s) \cap Shown(s) \subseteq Results(h)
  BY <1>o, HistoryRows
<1> HIDE DEF h
<1>7. /\ StoreInv' /\ Results(store') = Results(store)
      /\ \A i \in DOMAIN store' :
            (i \in DOMAIN store /\ store'[i] = store[i]) \/ Is(store'[i], "user")
      /\ \A q \in Requests : q # r => seen'[q] = seen[q]
  BY <1>1, UserStored
<1>8. RunInv' /\ Past' = h
  BY <1>1, <1>2, <1>5, <1>o, <1>6, <1>7, Begins
<1>w. LeftOut' = SubSeq(store, 1, skips[r])
  <2>1. <<User>> \in Seq(Rows(CutIds'))
    BY UserRow
  <2>s. store' = store \o <<User>>
    BY <1>1, <1>3
  <2>2. skips[r] \in 0..Len(store)
    BY <1>3, OpensIn DEF WindowInv
  <2>3. SubSeq(store', 1, skips[r]) = SubSeq(store, 1, skips[r])
    BY <1>3, <2>1, <2>s, <2>2, PrefixStays
  <2>4. who' = r /\ skips' = skips
    BY <1>1 DEF Begin
  <2> QED
    BY <2>3, <2>4 DEF LeftOut
<1>9. /\ calls' = <<>> /\ kind' = "chat" /\ who' = r /\ phase' = [phase EXCEPT ![r] = "running"]
      /\ UNCHANGED <<ran, lost, overtaken>>
  BY <1>1, <1>2 DEF Begin, facts
<1>10. r \notin overtaken => ran \ lost \subseteq Results(h) \cup Results(LeftOut')
  <2> SUFFICES ASSUME r \notin overtaken
               PROVE  ran \ lost \subseteq Results(h) \cup Results(LeftOut')
    OBVIOUS
  <2>1. \A i \in DOMAIN store : i > seen[r] => Is(store[i], "user")
    BY <1>1 DEF KnownInv
  <2>2. InTurn(a) /\ Results(store) \subseteq Results(a)
    BY <1>3, <2>1, LoadedInTurn DEF a
  <2>3. Answered(s) \subseteq Shown(s)
    BY <1>o, <2>2, InTurnSets
  <2>4. Results(s) \subseteq Answered(s)
    BY DEF Results, Answered
  <2> QED
    BY <1>2, <1>o, <1>6, <1>w, <2>2, <2>3, <2>4
<1>11. Processed'
  BY <1>9 DEF Processed
<1>12. \A q \in Requests : phase'[q] = "loaded" /\ q \notin overtaken =>
           \A i \in DOMAIN store' : i > seen'[q] => Is(store'[i], "user")
  <2> SUFFICES ASSUME NEW q \in Requests, phase'[q] = "loaded", q \notin overtaken,
                      NEW i \in DOMAIN store', i > seen'[q]
               PROVE  Is(store'[i], "user")
    OBVIOUS
  <2>1. q # r /\ phase[q] = "loaded" /\ seen'[q] = seen[q]
    BY <1>7, <1>9 DEF Scalars
  <2> QED
    BY <1>7, <2>1 DEF KnownInv
<1>13. (\A q \in Requests : phase[q] = "loaded" /\ q \notin overtaken =>
            \A i \in DOMAIN store : i > seen[q] => Is(store[i], "user"))'
  BY <1>9, <1>12
<1> QED
  BY <1>2, <1>7, <1>8, <1>9, <1>10, <1>11, <1>13 DEF KnownInv

LEMMA TaskStarts ==
    ASSUME AgentInv, CutIds \subseteq CutIds', NEW r \in Requests, StartTask(r)
    PROVE  StoreInv' /\ RunInv' /\ KnownInv'
<1> USE DEF AgentInv, Base
<1> DEFINE s == Unmarked
           g == History(s)
           h == Recent(g, TaskTurns)
<1>1. /\ who = NoOne /\ Begin(r, "task", h) /\ UNCHANGED <<store, seen, facts>>
  BY DEF StartTask
<1>2. pc = "idle" /\ calls = <<>> /\ ran \ lost \subseteq Results(store)
  BY <1>1, IdleRun
<1>3. store \in Seq(Rows(CutIds')) /\ InTurn(store)
  BY RowsGrow DEF StoreInv
<1>o. s \in Seq(Rows(CutIds')) /\ InTurn(s) /\ Results(s) \subseteq Results(store)
  BY <1>3, OpenedRows DEF WindowInv, Unmarked
<1> HIDE DEF s
<1>4. g \in Seq(Rows(CutIds')) /\ Plain(g) /\ InTurn(g) /\ Results(g) \subseteq Results(store)
  BY <1>o, HistoryRows
<1> HIDE DEF g
<1>5. h \in Seq(Rows(CutIds')) /\ InTurn(h) /\ Results(h) \subseteq Results(g)
  BY <1>4, RecentRows, AgentLoopAssumption
<1> HIDE DEF h
<1>6. Answered(h) \subseteq Called(h)
  BY <1>5, InTurnSets
<1>7. StoreInv'
  BY <1>1, StoreStays
<1>8. RunInv'
  BY <1>1, <1>2, <1>4, <1>5, <1>6, Begins
<1>9. /\ calls' = <<>> /\ kind' = "task" /\ phase' = [phase EXCEPT ![r] = "running"]
      /\ UNCHANGED <<ran, lost, overtaken, store, seen>>
  BY <1>1, <1>2 DEF Begin, facts
<1>10. Processed'
  BY <1>9 DEF Processed
<1>11. (\A q \in Requests : phase[q] = "loaded" /\ q \notin overtaken =>
            \A i \in DOMAIN store : i > seen[q] => Is(store[i], "user"))'
  <2>1. \A q \in Requests : phase'[q] = "loaded" => phase[q] = "loaded"
    BY <1>9 DEF Scalars
  <2> QED
    BY <1>9, <2>1 DEF KnownInv
<1> QED
  BY <1>2, <1>7, <1>8, <1>9, <1>10, <1>11 DEF KnownInv

LEMMA RunEnds ==
    ASSUME AgentInv, Persist \/ PersistFails \/ Die, CutIds \subseteq CutIds'
    PROVE  StoreInv' /\ RunInv' /\ KnownInv'
<1> USE DEF AgentInv, Base
<1>1. /\ calls' = <<>> /\ msgs' = <<>> /\ from' = 0 /\ pc' = "idle" /\ UNCHANGED ran
      /\ pc # "idle" /\ \A r \in Requests : seen'[r] \in {seen[r], 0}
  BY DEF Persist, PersistFails, Die, EndRun, Release, Scalars
<1>2. RunInv'
  BY <1>1 DEF RunInv
<1>3. OwnRows
  BY <1>1 DEF RunInv
<1>4. CallIds \subseteq Called(Mine) /\ Results(Mine) \subseteq Called(Mine)
  <2>1. Results(Mine) \subseteq Answered(Mine) /\ Shown(Mine) \subseteq Called(Mine)
    BY DEF Results, Answered, Shown, Called
  <2> QED
    BY <1>3, <2>1 DEF OwnRows
<1>5. StoreInv' /\ ran \ lost' \subseteq Results(store')
  <2>1. CASE PersistFails \/ Die
    <3>1. store' = store /\ lost' = lost \cup (ran \cap Called(Mine))
      BY <2>1 DEF PersistFails, Die, Lose
    <3>2. StoreInv'
      BY <1>1, <3>1, StoreStays
    <3> QED
      BY <1>4, <3>1, <3>2 DEF KnownInv
  <2>2. CASE Persist
    <3>1. store' = store \o Stored /\ lost' = lost \cup (ran \cap Dropped) /\ pc = "persist"
      BY <2>2 DEF Persist, Lose
    <3>2. /\ Stored \in Seq(Rows(CutIds)) /\ InTurn(Stored)
          /\ ~(kind = "task" /\ outcome = "raised") => Results(Mine) \subseteq Results(Stored)
      BY <3>1, StoredRows
    <3>3. Stored \in Seq(Rows(CutIds'))
      BY <3>2, RowsGrow
    <3>4. StoreInv' /\ Results(store') = Results(store) \cup Results(Stored)
      BY <1>1, <3>1, <3>2, <3>3, StoreGrows
    <3>5. ran \cap (Results(Mine) \cup CallIds) \subseteq Results(Stored) \cup Dropped
      <4>1. CASE outcome = "raised" /\ kind = "task"
        BY <1>4, <4>1 DEF Dropped
      <4>2. CASE ~(outcome = "raised" /\ kind = "task")
        <5> SUFFICES ASSUME NEW i \in DOMAIN calls, calls[i].id \in ran
                     PROVE  calls[i].id \in Results(Mine) \cup Dropped
          BY <3>2, <4>2 DEF CallIds
        <5>1. i \in Nat /\ at \in Nat
          BY DEF DispatchInv, CallsInv
        <5>2. CASE i < at
          BY <5>2 DEF KnownInv, Processed
        <5>3. CASE i >= at
          <6>1. outcome = "raised"
            BY <3>1, <5>3 DEF Batched
          <6> QED
            BY <4>2, <5>3, <6>1 DEF Dropped
        <5> QED
          BY <5>1, <5>2, <5>3
      <4> QED
        BY <4>1, <4>2
    <3> QED
      BY <3>1, <3>4, <3>5 DEF KnownInv
  <2> QED
    BY <2>1, <2>2
<1>6. (\A r \in Requests : phase[r] = "loaded" /\ r \notin overtaken =>
           \A i \in DOMAIN store : i > seen[r] => Is(store[i], "user"))'
  <2>1. \A r \in Requests : phase'[r] = "loaded" => r \in overtaken'
    <3>1. CASE Persist \/ PersistFails
      <4>1. /\ phase' = [phase EXCEPT ![who] = "done"]
            /\ overtaken' = overtaken \cup {r \in Requests : phase[r] = "loaded"}
        BY <3>1 DEF Persist, PersistFails, EndRun
      <4> QED
        BY <4>1 DEF Scalars
    <3>2. CASE Die
      BY <3>2 DEF Die
    <3> QED
      BY <3>1, <3>2
  <2> QED
    BY <2>1
<1>7. Processed'
  BY <1>1 DEF Processed
<1> QED
  BY <1>1, <1>2, <1>5, <1>6, <1>7 DEF KnownInv

---------------------------------------------------------------------------
(* The invariant, and what it shows.                                       *)

LEMMA InitAgent == Init => AgentInv
<1> SUFFICES ASSUME Init PROVE AgentInv
  OBVIOUS
<1>1. Base
  BY InitScalars, InitDispatch DEF Base
<1>2. /\ store = <<>> /\ msgs = <<>> /\ from = 0 /\ pc = "idle" /\ calls = <<>>
      /\ ran = {} /\ seen = [r \in Requests |-> 0] /\ phase = [r \in Requests |-> "new"]
      /\ skips = [r \in Requests |-> 0] /\ mark = 0 /\ who = NoOne
  BY DEF Init
<1>3. <<>> \in Seq(Rows(CutIds)) /\ Len(<<>>) = 0 /\ DOMAIN <<>> = {}
  OBVIOUS
<1>4. StoreInv
  BY <1>2, <1>3, NoRowsInTurn DEF StoreInv
<1>5. RunInv
  BY <1>2, <1>3 DEF RunInv
<1>6. KnownInv
  BY <1>2, <1>3 DEF KnownInv, Processed
<1>7. WindowInv
  BY <1>2 DEF WindowInv, Opens
<1> QED
  BY <1>1, <1>4, <1>5, <1>6, <1>7 DEF AgentInv

LEMMA StepAgent ==
    ASSUME AgentInv, [Next]_vars
    PROVE  AgentInv'
<1>1. Base' /\ CutIds \subseteq CutIds'
  <2>1. Len(store) \in Nat
    <3>1. store \in Seq(Rows(CutIds))
      BY DEF AgentInv, StoreInv
    <3> QED
      BY <3>1
  <2> QED
    BY <2>1, StepScalars, StepDispatch, CutIdsGrow DEF AgentInv, Base
<1>w. pc = "persist" => Stored \in Seq(Row)
  <2>1. pc = "persist" => Stored \in Seq(Rows(CutIds))
    BY StoredRows DEF AgentInv
  <2>2. Rows(CutIds) \subseteq Row
    BY DEF Rows
  <2> QED
    BY <2>1, <2>2
<1>2. CASE Waits \/ UNCHANGED vars
  BY <1>1, <1>w, <1>2, RequestSteps, WindowSteps DEF AgentInv
<1>3. CASE \E r \in Requests : StartTurn(r) \/ StartTask(r)
  BY <1>1, <1>w, <1>3, TurnStarts, TaskStarts, WindowSteps DEF AgentInv
<1>4. CASE Loop \/ Dispatch \/ TaskTimesOut
  <2>1. PICK t : Goes(t) /\ Learns(t)
    BY <1>4, LoopGoes, DispatchGoes, TimesOutGoes DEF AgentInv
  <2>2. RunInv' /\ KnownInv'
    BY <1>1, <2>1, GoesOn, LearnsGoesOn DEF AgentInv
  <2>3. StoreInv'
    BY <1>1, <2>1, StoreStays DEF AgentInv, Learns
  <2>4. WindowInv'
    BY <2>1 DEF AgentInv, Learns, WindowInv
  <2> QED
    BY <1>1, <2>2, <2>3, <2>4 DEF AgentInv
<1>5. CASE Persist \/ PersistFails \/ Die
  BY <1>1, <1>w, <1>5, RunEnds, WindowSteps DEF AgentInv
<1> QED
  BY <1>2, <1>3, <1>4, <1>5 DEF Next, Waits

LEMMA AgentTypes ==
    ASSUME AgentInv
    PROVE  TypeOK
<1> USE DEF AgentInv, Base
<1>1. store \in Seq(Row) /\ msgs \in Seq(Row)
  <2>1. Rows(CutIds) \subseteq Row
    BY DEF Rows
  <2> QED
    BY <2>1 DEF StoreInv, RunInv
<1>2. from \in 0..Len(msgs)
  <2>1. Len(msgs) \in Nat /\ from \in Nat
    BY <1>1 DEF RunInv
  <2>2. CASE pc = "idle"
    BY <2>1, <2>2 DEF RunInv
  <2>3. CASE pc # "idle"
    BY <2>1, <2>3 DEF RunInv, OwnRows
  <2> QED
    BY <2>2, <2>3
<1>3. calls \in Seq([id : Given, st : CallSt])
  <2>1. calls \in Seq(CallAtHand) /\ DOMAIN calls = 1..Len(calls)
    BY DEF DispatchInv, CallsInv
  <2>2. \A i \in 1..Len(calls) : calls[i] \in [id : Given, st : CallSt]
    <3> TAKE i \in 1..Len(calls)
    <3>1. calls[i] \in CallAtHand
      BY <2>1
    <3>2. calls[i].id \in Given
      BY <2>1, CallsInIds
    <3> QED
      BY <3>1, <3>2 DEF CallAtHand
  <2> DEFINE T == [id : Given, st : CallSt]
  <2> HIDE DEF T
  <2>3. \A i \in 1..Len(calls) : calls[i] \in T
    BY <2>2 DEF T
  <2>4. calls \in Seq(T)
    BY <2>1, <2>3
  <2> QED
    BY <2>4 DEF T
<1>4. begun \subseteq Given
  BY AgentLoopAssumption DEF DispatchInv, Scalars, Given
<1>5. at \in 0..(Len(calls) + 1)
  BY DEF Batched
<1>6. skips \in [Requests -> Nat] /\ mark \in Nat
  BY <1>1, OpensIn DEF WindowInv
<1> QED
  BY <1>1, <1>2, <1>3, <1>4, <1>5, <1>6 DEF TypeOK, Scalars

LEMMA AgentHonest ==
    ASSUME AgentInv
    PROVE  CancelHonest
<1>1. CutNotBegun
  BY DispatchShows DEF AgentInv, Base
<1>2. ASSUME NEW s \in {store, msgs}, NEW i \in DOMAIN s, Is(s[i], "tool"), s[i].cut
      PROVE  s[i].id \notin begun
  <2>1. s \in Seq(Rows(CutIds))
    BY DEF AgentInv, StoreInv, RunInv
  <2>2. s[i] \in Rows(CutIds)
    BY <2>1
  <2> QED
    BY <1>2, <2>2 DEF Rows, CutIds
<1> QED
  BY <1>1, <1>2 DEF CancelHonest

LEMMA AgentKnows ==
    ASSUME AgentInv
    PROVE  ResultsKnown
<1>1. TypeOK
  BY AgentTypes
<1>2. Results(Past) \cup Results(Mine) = Results(msgs)
  <2>1. msgs \in Seq(Row) /\ from \in 0..Len(msgs)
    BY <1>1 DEF TypeOK
  <2>2. msgs = Past \o Mine /\ Past \in Seq(Row) /\ Mine \in Seq(Row)
    BY <2>1, Halves DEF Past, Mine
  <2>3. Results(Past \o Mine) = Results(Past) \cup Results(Mine)
    BY <2>2, JoinedRows
  <2> QED
    BY <2>2, <2>3
<1>3. ran \ lost \subseteq Results(store) \cup Results(msgs) \cup CallIds
  BY <1>2 DEF AgentInv, KnownInv
<1>4. Asking => CallIds = {}
  BY DEF Asking, AgentInv, Base, Batched, CallIds
<1>5. Asking /\ kind = "chat" /\ who \notin overtaken =>
         ran \ lost \subseteq Results(msgs) \cup Results(LeftOut)
  BY <1>2, <1>4 DEF AgentInv, KnownInv, Asking
<1> QED
  BY <1>1, <1>3, <1>5 DEF ResultsKnown, CallIds

---------------------------------------------------------------------------
(* The order of rows.                                                      *)

(* Call k of a row that is shown is c; a row answers c.                    *)
Makes(row, k, c) ==
    Is(row, "assistant") /\ ~Hides(row) /\ k \in DOMAIN row.calls /\ row.calls[k] = c
Answers(row, c) == Is(row, "tool") /\ row.id = c

(* Every call is shown once and answered once, but for the injected one.   *)
CallsOnce(s) ==
    \A i, j \in DOMAIN s : \A k, l, c :
        c # Skill /\ Makes(s[i], k, c) /\ Makes(s[j], l, c) => i = j /\ k = l
AnswersOnce(s) ==
    \A i, j \in DOMAIN s : \A c :
        c # Skill /\ Answers(s[i], c) /\ Answers(s[j], c) => i = j
Once(s) == CallsOnce(s) /\ AnswersOnce(s)

(* Answer i stands behind the row that calls it, with answers between.     *)
Follows(s, i) ==
    \E j \in DOMAIN s :
        /\ j < i /\ s[i].id \in CallsOf(s[j])
        /\ \A m \in DOMAIN s : j < m /\ m <= i => Is(s[m], "tool")
InPlace(s) ==
    /\ Plain(s) /\ Once(s)
    /\ \A i \in DOMAIN s : Is(s[i], "tool") /\ s[i].id # Skill => Follows(s, i)
Framed(s) == InPlace(s) /\ Called(s) \ {Skill} \subseteq Answered(s)

(* Answer i has a row that shows its call; if that row comes before it,    *)
(* nothing that is shown stands between but answers.  Sanitize mends it.   *)
Near(s, i) ==
    \E j \in DOMAIN s :
        /\ ~Hides(s[j]) /\ s[i].id \in CallsOf(s[j])
        /\ \A m \in DOMAIN s : j < m /\ m <= i => Is(s[m], "tool") \/ Hides(s[m])
Mendable(s) ==
    /\ Once(s)
    /\ \A i \in DOMAIN s : Is(s[i], "tool") /\ s[i].id # Skill => Near(s, i)

LEMMA NothingOnce == Mendable(<<>>) /\ Framed(<<>>)
BY NoRows DEF Mendable, Framed, InPlace, Once, CallsOnce, AnswersOnce

LEMMA InPlaceMendable ==
    ASSUME NEW s, InPlace(s)
    PROVE  Mendable(s)
BY DEF InPlace, Mendable, Follows, Near, Plain

(* Where rows are taken from others, each from a place of its own.         *)
LEMMA OncePlaced ==
    ASSUME NEW s, NEW t, NEW place, Once(s),
           \A p \in DOMAIN t : place[p] \in DOMAIN s /\ t[p] = s[place[p]],
           \A p, q \in DOMAIN t : place[p] = place[q] => p = q
    PROVE  Once(t)
<1>1. CallsOnce(t)
  <2> SUFFICES ASSUME NEW p \in DOMAIN t, NEW q \in DOMAIN t, NEW k, NEW l, NEW c, c # Skill,
                      Makes(t[p], k, c), Makes(t[q], l, c)
               PROVE  p = q /\ k = l
    BY DEF CallsOnce
  <2>1. place[p] = place[q] /\ k = l
    BY DEF Once, CallsOnce
  <2> QED
    BY <2>1
<1>2. AnswersOnce(t)
  <2> SUFFICES ASSUME NEW p \in DOMAIN t, NEW q \in DOMAIN t, NEW c, c # Skill,
                      Answers(t[p], c), Answers(t[q], c)
               PROVE  p = q
    BY DEF AnswersOnce
  <2>1. place[p] = place[q]
    BY DEF Once, AnswersOnce
  <2> QED
    BY <2>1
<1> QED
  BY <1>1, <1>2 DEF Once

LEMMA VisibleMendable ==
    ASSUME NEW B, NEW s \in Seq(Rows(B)), Mendable(s)
    PROVE  Mendable(Visible(s))
<1> DEFINE P == {i \in DOMAIN s : ~Hides(s[i])}
           t == Visible(s)
<1>1. t = Only(s, P)
  BY DEF Visible
<1> HIDE DEF t
<1>2. t \in Seq(Rows(B))
  BY <1>1, OnlyPicks
<1>3. PICK place : Picked(s, P, t, place)
  BY <1>1, OnlyPicks
<1>4. /\ DOMAIN t = 1..Len(t) /\ Len(t) \in Nat
      /\ \A p \in DOMAIN t : place[p] \in DOMAIN s /\ ~Hides(s[place[p]]) /\ t[p] = s[place[p]]
  BY <1>2, <1>3 DEF Picked
<1>5. \A p, q \in DOMAIN t : p < q => place[p] < place[q]
  BY <1>3, <1>4 DEF Picked
<1>6. \A i \in DOMAIN s : ~Hides(s[i]) => \E p \in DOMAIN t : place[p] = i
  BY <1>3, <1>4 DEF Picked
<1>7. \A p \in DOMAIN t : p \in Nat /\ place[p] \in Nat
  BY <1>4
<1>8. \A p, q \in DOMAIN t : place[p] = place[q] => p = q
  BY <1>5, <1>7
<1>9. Once(t)
  <2>1. Once(s) /\ \A p \in DOMAIN t : place[p] \in DOMAIN s /\ t[p] = s[place[p]]
    BY <1>4 DEF Mendable
  <2> QED
    BY ONLY <1>8, <2>1, OncePlaced
<1>10. ASSUME NEW p \in DOMAIN t, Is(t[p], "tool"), t[p].id # Skill
       PROVE  Near(t, p)
  <2>1. PICK j \in DOMAIN s :
           /\ ~Hides(s[j]) /\ s[place[p]].id \in CallsOf(s[j])
           /\ \A m \in DOMAIN s : j < m /\ m <= place[p] => Is(s[m], "tool") \/ Hides(s[m])
    BY <1>4, <1>10 DEF Mendable, Near
  <2>2. PICK q \in DOMAIN t : place[q] = j
    BY <1>6, <2>1
  <2>3. ASSUME NEW m \in DOMAIN t, q < m, m <= p PROVE Is(t[m], "tool")
    <3>1. j < place[m] /\ place[m] <= place[p]
      BY <1>5, <1>7, <2>2, <2>3
    <3> QED
      BY <1>4, <2>1, <3>1
  <2> QED
    BY <1>4, <2>1, <2>2, <2>3 DEF Near
<1> QED
  BY <1>9, <1>10 DEF Mendable, t

---------------------------------------------------------------------------
(* Sanitize puts the rows in place.                                        *)

Distinct(cs) == \A k, l \in DOMAIN cs : cs[k] = cs[l] /\ cs[k] # Skill => k = l

LEMMA OnlyDistinct ==
    ASSUME NEW S, NEW cs \in Seq(S), NEW P, Distinct(cs)
    PROVE  Distinct(Only(cs, P))
<1> DEFINE t == Only(cs, P)
<1>1. t \in Seq(S) /\ \E place : Picked(cs, P, t, place)
  BY OnlyPicks
<1> HIDE DEF t
<1>2. PICK place : Picked(cs, P, t, place)
  BY <1>1
<1>3. DOMAIN t = 1..Len(t) /\ Len(t) \in Nat /\ DOMAIN cs = 1..Len(cs)
  BY <1>1
<1>4. /\ \A p \in DOMAIN t : place[p] \in DOMAIN cs /\ t[p] = cs[place[p]]
      /\ \A p, q \in DOMAIN t : p < q => place[p] < place[q]
  BY <1>2, <1>3 DEF Picked
<1>5. \A p \in DOMAIN t : p \in Nat /\ place[p] \in Nat
  BY <1>3, <1>4
<1>6. \A p, q \in DOMAIN t : place[p] = place[q] => p = q
  BY <1>4, <1>5
<1> QED
  BY <1>4, <1>6 DEF Distinct, t

LEMMA KeptDistinct ==
    ASSUME NEW B, NEW s \in Seq(Rows(B)), NEW i \in DOMAIN s, Is(s[i], "assistant"),
           ~Hides(s[i]), CallsOnce(s)
    PROVE  Distinct(Kept(s, i))
<1> DEFINE cs == s[i].calls
           P  == {k \in DOMAIN cs : cs[k] \in Answered(s)}
<1>1. s[i] \in Rows(B)
  OBVIOUS
<1>2. cs \in Seq(Ids)
  BY <1>1, RowKinds
<1>3. Distinct(cs)
  <2> SUFFICES ASSUME NEW k \in DOMAIN cs, NEW l \in DOMAIN cs, cs[k] = cs[l], cs[k] # Skill
               PROVE  k = l
    BY DEF Distinct
  <2>1. Makes(s[i], k, cs[k]) /\ Makes(s[i], l, cs[k])
    BY DEF Makes
  <2> QED
    BY <2>1 DEF CallsOnce
<1>4. Kept(s, i) = Only(cs, P)
  BY DEF Kept
<1> HIDE DEF cs, P
<1> QED
  BY <1>2, <1>3, <1>4, OnlyDistinct

LEMMA BehindDistinct ==
    ASSUME NEW B, NEW s \in Seq(Rows(B)), NEW i \in DOMAIN s, Is(s[i], "assistant"),
           ~Hides(s[i]), CallsOnce(s)
    PROVE  \A k, l \in DOMAIN Behind(s, i) :
               Behind(s, i)[k].id = Behind(s, i)[l].id /\ Behind(s, i)[k].id # Skill => k = l
<1> DEFINE kept == Kept(s, i)
           P  == {k \in DOMAIN kept : kept[k] \in Misordered(s)
                                      /\ \A j \in Callers(s, kept[k]) : i <= j}
           cs == Only(kept, P)
<1>1. kept \in Seq(Ids) /\ Distinct(kept)
  BY KeptCalls, KeptDistinct
<1>2. Behind(s, i) = [k \in DOMAIN cs |-> s[LastOf(Answerers(s, cs[k]))]]
  BY DEF Behind
<1> HIDE DEF kept
<1>3. \A p \in DOMAIN cs : cs[p] \in Misordered(s)
  <2>1. cs \in Seq(Ids) /\ PlacesOf(kept, P, cs)
    BY <1>1, PlacesFrom
  <2> HIDE DEF cs
  <2>2. \A p \in DOMAIN cs : \E k \in P \cap DOMAIN kept : cs[p] = kept[k]
    BY <2>1 DEF PlacesOf
  <2> QED
    BY <2>2
<1>4. Distinct(cs)
  <2> HIDE DEF P
  <2> QED
    BY <1>1, OnlyDistinct
<1> HIDE DEF cs
<1>5. \A p \in DOMAIN cs : s[TheAnswer(s, cs[p])].id = cs[p]
  BY <1>3, AnswerIsOne DEF Misordered
<1>6. /\ DOMAIN Behind(s, i) = DOMAIN cs
      /\ \A p \in DOMAIN cs : Behind(s, i)[p].id = cs[p]
  BY <1>2, <1>5 DEF TheAnswer
<1> QED
  BY <1>4, <1>6 DEF Distinct

(* A sanitized row is what is kept of an assistant's row, an answer that   *)
(* stays, or one that moved behind the row that calls it.                  *)
RowStays(s, x, i, k) == Is(s[i], "assistant") /\ k = 1 /\ x = Stays(s, i)
AnswerStays(s, x, i, k) == Is(s[i], "tool") /\ k = 1 /\ x = s[i] /\ ~Gone(s, i)
AnswerMoved(s, x, i, k) ==
    /\ Is(s[i], "assistant") /\ k > 1 /\ MovesTo(s, x.id, i)
    /\ k - 1 \in DOMAIN Behind(s, i) /\ x = Behind(s, i)[k - 1]

LEMMA SortedKinds ==
    ASSUME NEW B, NEW s \in Seq(Rows(B)), NEW g, NEW row, NEW pl, Sorted(s, g, row, pl),
           NEW p \in DOMAIN g
    PROVE  /\ row[p] \in DOMAIN s /\ row[p] \in Nat /\ pl[p] \in Nat /\ pl[p] >= 1
           /\ Is(g[p], "assistant") => RowStays(s, g[p], row[p], pl[p])
           /\ Is(g[p], "tool") => \/ AnswerStays(s, g[p], row[p], pl[p])
                                  \/ AnswerMoved(s, g[p], row[p], pl[p])
           /\ Is(s[row[p]], "tool") => Is(g[p], "tool")
           /\ Is(s[row[p]], "assistant") /\ pl[p] > 1 => Is(g[p], "tool")
<1> DEFINE i == row[p]
           k == pl[p]
<1>1. /\ i \in DOMAIN s /\ k \in 1..Len(Mended(s, i))
      /\ g[p] = Mended(s, i)[k] /\ Stems(s, g[p], i, k)
  <2>1. i \in DOMAIN s /\ k \in 1..Len(Mended(s, i)) /\ g[p] = Mended(s, i)[k]
    BY DEF Sorted
  <2>2. Stems(s, g[p], i, k)
    BY SortedPlaces
  <2> QED
    BY <2>1, <2>2
<1> HIDE DEF i, k
<1>2. i \in Nat /\ k \in Nat /\ k >= 1
  <2>1. DOMAIN s = 1..Len(s)
    OBVIOUS
  <2>2. k \in 1..Len(Mended(s, i)) /\ i \in 1..Len(s)
    BY <1>1, <2>1
  <2> QED
    BY <2>2
<1>3. ASSUME NEW c, MovesTo(s, c, i)
      PROVE  Is(s[TheAnswer(s, c)], "tool") /\ s[TheAnswer(s, c)].id = c
  BY <1>3, AnswerIsOne DEF MovesTo, Misordered
<1>4. ASSUME Is(g[p], "assistant") PROVE RowStays(s, g[p], i, k)
  BY <1>1, <1>3, <1>4, OneRole DEF Stems, RowStays
<1>5. ASSUME Is(g[p], "tool") PROVE AnswerStays(s, g[p], i, k) \/ AnswerMoved(s, g[p], i, k)
  <2>1. CASE Is(s[i], "user") /\ g[p] = s[i]
    BY <1>5, <2>1, OneRole
  <2>2. CASE Is(s[i], "tool") /\ k = 1 /\ g[p] = s[i] /\ ~Gone(s, i)
    BY <2>2 DEF AnswerStays
  <2>3. CASE Is(s[i], "assistant") /\ g[p] = Stays(s, i)
    BY <1>1, <1>5, <2>3, StaysRow
  <2>4. CASE /\ Is(s[i], "assistant") /\ k > 1
             /\ \E c : MovesTo(s, c, i) /\ g[p] = s[TheAnswer(s, c)]
    <3>1. k \in 2..Len(Mended(s, i))
      BY <1>1, <1>2, <2>4
    <3>2. k - 1 \in DOMAIN Behind(s, i) /\ g[p] = Behind(s, i)[k - 1]
      <4>1. \A h \in 2..Len(Mended(s, i)) :
               h - 1 \in DOMAIN Behind(s, i) /\ Mended(s, i)[h] = Behind(s, i)[h - 1]
        BY <1>1, <2>4, MendedRows
      <4> QED
        BY <1>1, <3>1, <4>1
    <3>3. MovesTo(s, g[p].id, i)
      BY <1>3, <2>4
    <3> QED
      BY <2>4, <3>2, <3>3 DEF AnswerMoved
  <2> QED
    BY <1>1, <2>1, <2>2, <2>3, <2>4 DEF Stems
<1>6. ASSUME Is(s[i], "tool") PROVE Is(g[p], "tool")
  BY <1>1, <1>6, OneRole DEF Stems
<1>7. ASSUME Is(s[i], "assistant"), k > 1 PROVE Is(g[p], "tool")
  <2>1. \E c : MovesTo(s, c, i) /\ g[p] = s[TheAnswer(s, c)]
    BY <1>1, <1>2, <1>7, OneRole DEF Stems
  <2> QED
    BY <1>3, <2>1
<1> QED
  BY <1>1, <1>2, <1>4, <1>5, <1>6, <1>7 DEF i, k

(* Rows of the sanitized sequence are in the order of where they stem from.*)
LEMMA SortedOrder ==
    ASSUME NEW B, NEW s \in Seq(Rows(B)), NEW g \in Seq(Rows(B)), NEW row, NEW pl,
           Sorted(s, g, row, pl), NEW p \in DOMAIN g, NEW q \in DOMAIN g
    PROVE  /\ row[p] = row[q] /\ pl[p] = pl[q] => p = q
           /\ row[p] < row[q] => p < q
           /\ row[p] = row[q] /\ pl[p] < pl[q] => p < q
           /\ p < q => row[p] <= row[q] /\ (row[p] = row[q] => pl[p] < pl[q])
<1>1. /\ row[p] \in Nat /\ pl[p] \in Nat
      /\ row[q] \in Nat /\ pl[q] \in Nat
  BY SortedKinds
<1>2. p \in Nat /\ q \in Nat
  OBVIOUS
<1>3. p < q => row[p] < row[q] \/ (row[p] = row[q] /\ pl[p] < pl[q])
  BY DEF Sorted
<1>4. q < p => row[q] < row[p] \/ (row[q] = row[p] /\ pl[q] < pl[p])
  BY DEF Sorted
<1> QED
  BY <1>1, <1>2, <1>3, <1>4

(* A call of a row that is kept is a call of the row.                      *)
LEMMA KeptMakes ==
    ASSUME NEW B, NEW s \in Seq(Rows(B)), Plain(s), NEW x, NEW i \in DOMAIN s, NEW h,
           RowStays(s, x, i, h), NEW k, NEW c, Makes(x, k, c)
    PROVE  /\ k \in DOMAIN Kept(s, i) /\ Kept(s, i)[k] = c
           /\ \E l : Makes(s[i], l, c)
<1>1. Is(s[i], "assistant") /\ x = Stays(s, i)
  BY DEF RowStays
<1>2. s[i] \in Rows(B) /\ Kept(s, i) \in Seq(Ids)
  BY <1>1, KeptCalls
<1>3. x.calls = Kept(s, i)
  BY <1>1, <1>2, OtherCalls DEF Stays
<1>4. k \in DOMAIN Kept(s, i) /\ Kept(s, i)[k] = c
  BY <1>3 DEF Makes
<1>5. c \in CallsOf(s[i])
  BY <1>1, <1>4, KeptCalls
<1>6. \E l \in DOMAIN s[i].calls : s[i].calls[l] = c
  BY <1>1, <1>2, <1>5, RowKinds
<1> QED
  BY <1>1, <1>4, <1>6 DEF Makes, Plain

LEMMA SanitizeCallsOnce ==
    ASSUME NEW B, NEW s \in Seq(Rows(B)), Plain(s), CallsOnce(s)
    PROVE  CallsOnce(Sanitize(s))
<1> DEFINE g == Sanitize(s)
<1>1. g \in Seq(Rows(B)) /\ \E row, pl : Sorted(s, g, row, pl)
  BY SanitizeSorts
<1> HIDE DEF g
<1>2. PICK row, pl : Sorted(s, g, row, pl)
  BY <1>1
<1> SUFFICES ASSUME NEW p \in DOMAIN g, NEW q \in DOMAIN g, NEW k, NEW l, NEW c, c # Skill,
                    Makes(g[p], k, c), Makes(g[q], l, c)
             PROVE  p = q /\ k = l
  BY DEF CallsOnce, g
<1> DEFINE i == row[p]
           j == row[q]
<1>3. i \in DOMAIN s /\ j \in DOMAIN s
  BY <1>2, SortedKinds
<1>4. RowStays(s, g[p], i, pl[p]) /\ RowStays(s, g[q], j, pl[q])
  BY <1>2, SortedKinds DEF Makes
<1> HIDE DEF i, j
<1>5. /\ k \in DOMAIN Kept(s, i) /\ Kept(s, i)[k] = c
      /\ \E h : Makes(s[i], h, c)
  BY <1>3, <1>4, KeptMakes
<1>6. /\ l \in DOMAIN Kept(s, j) /\ Kept(s, j)[l] = c
      /\ \E h : Makes(s[j], h, c)
  BY <1>3, <1>4, KeptMakes
<1>7. i = j
  BY <1>3, <1>5, <1>6 DEF CallsOnce
<1>8. p = q
  <2>1. row[p] = row[q] /\ pl[p] = pl[q]
    BY <1>4, <1>7 DEF RowStays, i, j
  <2> QED
    BY <1>1, <1>2, <2>1, SortedOrder
<1>9. Distinct(Kept(s, i))
  BY <1>3, <1>4, KeptDistinct DEF RowStays, Plain
<1>10. k = l
  BY <1>5, <1>6, <1>7, <1>9 DEF Distinct
<1> QED
  BY <1>8, <1>10

LEMMA SanitizeAnswersOnce ==
    ASSUME NEW B, NEW s \in Seq(Rows(B)), Plain(s), Once(s)
    PROVE  AnswersOnce(Sanitize(s))
<1> DEFINE g == Sanitize(s)
<1>1. g \in Seq(Rows(B)) /\ \E row, pl : Sorted(s, g, row, pl)
  BY SanitizeSorts
<1> HIDE DEF g
<1>2. PICK row, pl : Sorted(s, g, row, pl)
  BY <1>1
<1> SUFFICES ASSUME NEW p \in DOMAIN g, NEW q \in DOMAIN g, NEW c, c # Skill,
                    Answers(g[p], c), Answers(g[q], c)
             PROVE  p = q
  BY DEF AnswersOnce, g
<1> DEFINE i == row[p]
           j == row[q]
<1>3. i \in DOMAIN s /\ j \in DOMAIN s /\ i \in Nat /\ j \in Nat
  BY <1>2, SortedKinds
<1>4. /\ AnswerStays(s, g[p], i, pl[p]) \/ AnswerMoved(s, g[p], i, pl[p])
      /\ AnswerStays(s, g[q], j, pl[q]) \/ AnswerMoved(s, g[q], j, pl[q])
  BY <1>2, SortedKinds DEF Answers
<1>5. g[p].id = c /\ g[q].id = c /\ pl[p] \in Nat /\ pl[q] \in Nat
  BY <1>2, SortedKinds DEF Answers
<1> HIDE DEF i, j
<1>6. \A x, y \in DOMAIN s : Answers(s[x], c) /\ Answers(s[y], c) => x = y
  BY DEF Once, AnswersOnce
(* What stays did not move.                                                *)
<1>7. ASSUME NEW x \in DOMAIN s, NEW y \in DOMAIN s, NEW z, MovesTo(s, c, y),
             Is(s[x], "tool"), s[x].id = c, ~Gone(s, x)
      PROVE  FALSE
  <2>1. c \in Misordered(s)
    BY <1>7 DEF MovesTo
  <2>2. TheAnswer(s, c) \in DOMAIN s /\ Answers(s[TheAnswer(s, c)], c)
    BY <2>1, AnswerIsOne DEF Misordered, Answers
  <2>3. x = TheAnswer(s, c)
    BY <1>6, <1>7, <2>2 DEF Answers
  <2> QED
    BY <1>7, <2>1, <2>3 DEF Gone, TheAnswer
<1>8. row[p] = row[q] /\ pl[p] = pl[q]
  <2>1. CASE AnswerStays(s, g[p], i, pl[p]) /\ AnswerStays(s, g[q], j, pl[q])
    <3>1. i = j
      BY <1>3, <1>5, <1>6, <2>1 DEF AnswerStays, Answers
    <3> QED
      BY <2>1, <3>1 DEF AnswerStays, i, j
  <2>2. CASE AnswerStays(s, g[p], i, pl[p]) /\ AnswerMoved(s, g[q], j, pl[q])
    BY <1>3, <1>5, <1>7, <2>2 DEF AnswerStays, AnswerMoved
  <2>3. CASE AnswerMoved(s, g[p], i, pl[p]) /\ AnswerStays(s, g[q], j, pl[q])
    BY <1>3, <1>5, <1>7, <2>3 DEF AnswerStays, AnswerMoved
  <2>4. CASE AnswerMoved(s, g[p], i, pl[p]) /\ AnswerMoved(s, g[q], j, pl[q])
    <3>1. MovesTo(s, c, i) /\ MovesTo(s, c, j) /\ Is(s[i], "assistant")
      BY <1>5, <2>4 DEF AnswerMoved
    <3>2. i = j
      <4>1. i \in Callers(s, c) /\ j \in Callers(s, c)
        BY <1>3, <3>1 DEF MovesTo, Callers
      <4>2. i <= j /\ j <= i
        BY <3>1, <4>1 DEF MovesTo
      <4> QED
        BY <1>3, <4>2
    <3>3. /\ pl[p] - 1 \in DOMAIN Behind(s, i) /\ Behind(s, i)[pl[p] - 1].id = c
          /\ pl[q] - 1 \in DOMAIN Behind(s, i) /\ Behind(s, i)[pl[q] - 1].id = c
      BY <1>5, <2>4, <3>2 DEF AnswerMoved
    <3>4. \A k, l \in DOMAIN Behind(s, i) :
             Behind(s, i)[k].id = Behind(s, i)[l].id /\ Behind(s, i)[k].id # Skill => k = l
      BY <1>3, <3>1, BehindDistinct DEF Once, Plain
    <3>5. pl[p] - 1 = pl[q] - 1
      BY <3>3, <3>4
    <3>6. pl[p] = pl[q]
      BY <1>5, <3>5
    <3> QED
      BY <3>2, <3>6 DEF i, j
  <2> QED
    BY <1>4, <2>1, <2>2, <2>3, <2>4
<1> QED
  BY <1>1, <1>2, <1>8, SortedOrder

(* A call that is shown is a call of one row.                              *)
LEMMA OneCaller ==
    ASSUME NEW B, NEW s \in Seq(Rows(B)), Plain(s), CallsOnce(s), NEW c, c # Skill,
           NEW i \in DOMAIN s, NEW j \in DOMAIN s, c \in CallsOf(s[i]), c \in CallsOf(s[j])
    PROVE  i = j
<1>1. Is(s[i], "assistant") /\ Is(s[j], "assistant")
  BY DEF CallsOf
<1>2. s[i] \in Rows(B) /\ s[j] \in Rows(B)
  OBVIOUS
<1>3. PICK k : Makes(s[i], k, c)
  BY <1>1, <1>2, RowKinds DEF Makes, Plain
<1>4. PICK l : Makes(s[j], l, c)
  BY <1>1, <1>2, RowKinds DEF Makes, Plain
<1> QED
  BY <1>3, <1>4 DEF CallsOnce

(* An answer that stays has the row that calls it before it.               *)
LEMMA StaysBehind ==
    ASSUME NEW B, NEW s \in Seq(Rows(B)), Plain(s), Mendable(s),
           NEW i \in DOMAIN s, Is(s[i], "tool"), s[i].id # Skill, ~Gone(s, i)
    PROVE  \E j \in DOMAIN s :
               /\ j < i /\ Is(s[j], "assistant") /\ s[i].id \in CallsOf(s[j])
               /\ \A m \in DOMAIN s : j < m /\ m <= i => Is(s[m], "tool")
<1> DEFINE c == s[i].id
<1>1. PICK j \in DOMAIN s :
         /\ ~Hides(s[j]) /\ c \in CallsOf(s[j])
         /\ \A m \in DOMAIN s : j < m /\ m <= i => Is(s[m], "tool") \/ Hides(s[m])
  BY DEF Mendable, Near
<1>2. Is(s[j], "assistant") /\ j # i
  BY <1>1, OneRole DEF CallsOf
<1>3. Len(s) \in Nat /\ DOMAIN s = 1..Len(s) /\ i \in Nat /\ j \in Nat
  OBVIOUS
<1>4. c \in Called(s) /\ c \in Answered(s)
  BY <1>1, Members
<1>5. Callers(s, c) = {j}
  <2>1. ASSUME NEW k \in DOMAIN s, c \in CallsOf(s[k]) PROVE k = j
    BY <1>1, <2>1, OneCaller DEF Mendable, Once
  <2> QED
    BY <1>1, <2>1 DEF Callers
<1>6. LastOf(Callers(s, c)) = j
  <2>1. Callers(s, c) \in SUBSET (1..Len(s)) /\ Callers(s, c) # {}
    BY <1>3, <1>5
  <2>2. LastOf(Callers(s, c)) \in Callers(s, c)
    BY <1>3, <2>1, LastIsLast
  <2> QED
    BY <1>5, <2>2
<1>7. TheAnswer(s, c) = i
  <2>1. TheAnswer(s, c) \in DOMAIN s /\ Answers(s[TheAnswer(s, c)], c)
    BY <1>4, AnswerIsOne DEF Answers
  <2>2. Answers(s[i], c)
    BY DEF Answers
  <2> QED
    BY <2>1, <2>2 DEF Mendable, Once, AnswersOnce
<1>8. ~(j > i)
  BY <1>4, <1>6, <1>7 DEF Gone, Misordered, TheAnswer
<1>9. j < i
  BY <1>2, <1>3, <1>8
<1> QED
  BY <1>1, <1>2, <1>9 DEF Plain

LEMMA SanitizeFollows ==
    ASSUME NEW B, NEW s \in Seq(Rows(B)), Plain(s), Mendable(s),
           NEW p \in DOMAIN Sanitize(s), Is(Sanitize(s)[p], "tool"), Sanitize(s)[p].id # Skill
    PROVE  Follows(Sanitize(s), p)
<1> DEFINE g == Sanitize(s)
<1>1. g \in Seq(Rows(B)) /\ \E row, pl : Sorted(s, g, row, pl)
  BY SanitizeSorts
<1>2. p \in DOMAIN g /\ Is(g[p], "tool") /\ g[p].id # Skill
  OBVIOUS
<1> HIDE DEF g
<1>3. PICK row, pl : Sorted(s, g, row, pl)
  BY <1>1
<1> DEFINE i == row[p]
           c == g[p].id
<1>4. i \in DOMAIN s /\ i \in Nat /\ pl[p] \in Nat
  BY <1>2, <1>3, SortedKinds
<1>5. AnswerStays(s, g[p], i, pl[p]) \/ AnswerMoved(s, g[p], i, pl[p])
  BY <1>2, <1>3, SortedKinds
<1> HIDE DEF i, c
(* The row that calls it, and what stands between.                         *)
<1>6. PICK j \in DOMAIN s :
         /\ Is(s[j], "assistant") /\ c \in CallsOf(s[j]) /\ c \in Answered(s)
         /\ j < i \/ (j = i /\ pl[p] > 1)
         /\ \A m \in DOMAIN s : j < m /\ m <= i => Is(s[m], "tool")
  <2>1. CASE AnswerStays(s, g[p], i, pl[p])
    <3>1. Is(s[i], "tool") /\ s[i].id = c /\ c # Skill /\ ~Gone(s, i)
      BY <1>2, <2>1 DEF AnswerStays, c
    <3>2. c \in Answered(s)
      BY <1>4, <3>1, Members
    <3> QED
      BY <1>4, <3>1, <3>2, StaysBehind
  <2>2. CASE AnswerMoved(s, g[p], i, pl[p])
    <3>1. Is(s[i], "assistant") /\ MovesTo(s, c, i) /\ pl[p] > 1
      BY <2>2 DEF AnswerMoved, c
    <3>2. c \in CallsOf(s[i]) /\ c \in Answered(s)
      BY <3>1 DEF MovesTo, Misordered
    <3>3. \A m \in DOMAIN s : ~(i < m /\ m <= i)
      BY <1>4
    <3> QED
      BY <1>4, <3>1, <3>2, <3>3
  <2> QED
    BY <1>5, <2>1, <2>2
<1>7. PICK q \in DOMAIN g : row[q] = j /\ pl[q] = 1 /\ g[q] = Stays(s, j)
  BY <1>3, <1>6, SortedPlaces
<1>8. q < p
  BY <1>1, <1>2, <1>3, <1>4, <1>6, <1>7, SortedOrder DEF i
<1>9. c \in CallsOf(g[q])
  BY <1>6, <1>7, StaysRow
<1>10. ASSUME NEW m \in DOMAIN g, q < m, m <= p PROVE Is(g[m], "tool")
  <2>1. row[m] \in DOMAIN s /\ row[m] \in Nat /\ pl[m] \in Nat /\ j \in Nat
    BY <1>3, <1>7, SortedKinds
  <2>2. j <= row[m] /\ (row[m] = j => pl[m] > 1)
    BY <1>1, <1>3, <1>7, <1>10, SortedOrder
  <2>3. row[m] <= i
    <3>1. m < p \/ m = p
      BY <1>1, <1>2, <1>10
    <3> QED
      BY <1>1, <1>2, <1>3, <1>4, <3>1, SortedOrder DEF i
  <2>4. CASE row[m] = j
    BY <1>3, <1>6, <2>2, <2>4, SortedKinds
  <2>5. CASE j < row[m]
    <3>1. Is(s[row[m]], "tool")
      BY <1>6, <2>1, <2>3, <2>5
    <3> QED
      BY <1>3, <3>1, SortedKinds
  <2> QED
    BY <2>1, <2>2, <2>4, <2>5
<1> QED
  BY <1>8, <1>9, <1>10 DEF Follows, c, g

(* Sanitize keeps the answers to the calls that are kept.                  *)
LEMMA SanitizeAnswers ==
    ASSUME NEW B, NEW s \in Seq(Rows(B))
    PROVE  Called(Sanitize(s)) \subseteq Answered(Sanitize(s))
<1> DEFINE g == Sanitize(s)
<1>1. g \in Seq(Rows(B)) /\ \E row, pl : Sorted(s, g, row, pl)
  BY SanitizeSorts
<1>2. \A c : c \in Called(g) <=> c \in Called(s) /\ c \in Answered(s)
  BY SanitizeSets
<1> HIDE DEF g
<1>3. PICK row, pl : Sorted(s, g, row, pl)
  BY <1>1
<1> SUFFICES ASSUME NEW c \in Called(g) PROVE c \in Answered(g)
  BY DEF g
<1>4. c \in Called(s) /\ c \in Answered(s)
  BY <1>2
<1>5. PICK i \in DOMAIN s : Is(s[i], "tool") /\ s[i].id = c
  BY <1>4, Members
<1>6. \E p \in DOMAIN g : Is(g[p], "tool") /\ g[p].id = c
  <2>1. CASE ~Gone(s, i)
    BY <1>3, <1>5, <2>1, SortedPlaces
  <2>2. CASE Gone(s, i)
    <3>1. c \in Misordered(s) /\ i = TheAnswer(s, c)
      BY <1>4, <1>5, <2>2 DEF Gone, TheAnswer
    <3>2. PICK j \in DOMAIN s : MovesTo(s, c, j) /\ Is(s[j], "assistant")
      BY <3>1, MovesSomewhere
    <3>3. \E p \in DOMAIN g : row[p] = j /\ pl[p] > 1 /\ g[p] = s[i]
      BY <1>3, <3>1, <3>2, SortedPlaces
    <3> QED
      BY <1>5, <3>3
  <2> QED
    BY <2>1, <2>2
<1> QED
  BY <1>6, Members

LEMMA SanitizeFramed ==
    ASSUME NEW B, NEW s \in Seq(Rows(B)), Plain(s), Mendable(s)
    PROVE  Framed(Sanitize(s))
<1>1. Plain(Sanitize(s))
  BY SanitizeSets
<1>2. Once(Sanitize(s))
  BY SanitizeCallsOnce, SanitizeAnswersOnce DEF Mendable, Once
<1>3. Called(Sanitize(s)) \subseteq Answered(Sanitize(s))
  BY SanitizeAnswers
<1>4. \A p \in DOMAIN Sanitize(s) : Is(Sanitize(s)[p], "tool") /\ Sanitize(s)[p].id # Skill
                                      => Follows(Sanitize(s), p)
  BY SanitizeFollows
<1> QED
  BY <1>1, <1>2, <1>3, <1>4 DEF Framed, InPlace

LEMMA HistoryFramed ==
    ASSUME NEW B, NEW s \in Seq(Rows(B)), Mendable(s)
    PROVE  Framed(History(s))
<1>1. Visible(s) \in Seq(Rows(B)) /\ Plain(Visible(s)) /\ Mendable(Visible(s))
  BY VisibleRows, VisibleMendable
<1> QED
  BY <1>1, SanitizeFramed DEF History

(* What can be mended still can be where only whole turns are left out.    *)
LEMMA OpenedMendable ==
    ASSUME NEW B, NEW s \in Seq(Rows(B)), Mendable(s), NEW k, Opens(s, k)
    PROVE  Mendable(SubSeq(s, k + 1, Len(s)))
<1> DEFINE t == SubSeq(s, k + 1, Len(s))
<1>1. k \in Nat /\ k \in 0..Len(s) /\ Len(s) \in Nat
  BY OpensIn
<1>2. /\ t \in Seq(Rows(B)) /\ Len(t) = Len(s) - k
      /\ \A p \in 1..(Len(s) - k) : t[p] = s[k + p]
  BY <1>1, Halves
<1> HIDE DEF t
<1>3. /\ DOMAIN t = 1..(Len(s) - k) /\ DOMAIN s = 1..Len(s)
      /\ \A p \in DOMAIN t : p \in Nat /\ k + p \in DOMAIN s /\ t[p] = s[k + p]
  BY <1>1, <1>2
<1>4. Once(t)
  <2> DEFINE place == [p \in DOMAIN t |-> k + p]
  <2>1. \A p \in DOMAIN t : place[p] \in DOMAIN s /\ t[p] = s[place[p]]
    BY <1>3
  <2>2. \A p, q \in DOMAIN t : place[p] = place[q] => p = q
    BY <1>1, <1>3
  <2>3. Once(s)
    BY DEF Mendable
  <2> HIDE DEF place
  <2> QED
    BY <2>1, <2>2, <2>3, OncePlaced
<1>5. ASSUME NEW p \in DOMAIN t, Is(t[p], "tool"), t[p].id # Skill PROVE Near(t, p)
  <2>1. p \in Nat /\ k + p \in DOMAIN s /\ t[p] = s[k + p] /\ p >= 1
    BY <1>3
  <2>2. PICK j \in DOMAIN s :
           /\ ~Hides(s[j]) /\ t[p].id \in CallsOf(s[j])
           /\ \A m \in DOMAIN s : j < m /\ m <= k + p => Is(s[m], "tool") \/ Hides(s[m])
    BY <1>5, <2>1 DEF Mendable, Near
  <2>3. j \in Nat /\ j <= Len(s)
    BY <1>3
  <2>4. j > k
    <3> SUFFICES ASSUME ~(j > k) PROVE FALSE
      OBVIOUS
    <3>1. k # 0
      BY <1>1, <1>3, <2>2, <2>3
    <3>2. k + 1 \in DOMAIN s /\ Is(s[k + 1], "user") /\ s[k + 1] \in Rows(B)
      BY <1>1, <1>3, <3>1 DEF Opens
    <3>3. j < k + 1 /\ k + 1 <= k + p
      BY <1>1, <2>1, <2>3
    <3>4. Is(s[k + 1], "tool") \/ Hides(s[k + 1])
      BY <2>2, <3>2, <3>3
    <3> QED
      BY <3>2, <3>4, OneRole DEF Hides
  <2>5. j - k \in DOMAIN t /\ t[j - k] = s[j]
    <3>1. j - k \in 1..(Len(s) - k) /\ k + (j - k) = j
      BY <1>1, <2>3, <2>4
    <3> QED
      BY <1>2, <1>3, <3>1
  <2>6. ASSUME NEW m \in DOMAIN t, j - k < m, m <= p PROVE Is(t[m], "tool") \/ Hides(t[m])
    <3>1. k + m \in DOMAIN s /\ t[m] = s[k + m] /\ m \in Nat
      BY <1>3
    <3>2. j < k + m /\ k + m <= k + p
      BY <1>1, <2>1, <2>3, <2>6, <3>1
    <3> QED
      BY <2>2, <3>1, <3>2
  <2> QED
    BY <2>2, <2>5, <2>6 DEF Near
<1> QED
  BY <1>4, <1>5 DEF Mendable, t

(* The last turns of a framed history are framed.                          *)
LEMMA Shifted ==
    ASSUME NEW i \in Nat, NEW j \in Nat, NEW k \in Nat, NEW m \in Nat, NEW p \in Nat,
           i - k + 1 = p, j - k + 1 < m, m <= p
    PROVE  j < m + k - 1 /\ m + k - 1 <= i
OBVIOUS

LEMMA FramedFrom ==
    ASSUME NEW B, NEW s \in Seq(Rows(B)), Framed(s), NEW k \in DOMAIN s, Is(s[k], "user")
    PROVE  Framed(SubSeq(s, k, Len(s)))
<1> DEFINE t == SubSeq(s, k, Len(s))
<1>1. Len(s) \in Nat /\ k \in Nat /\ k >= 1 /\ k <= Len(s)
  OBVIOUS
<1>2. t \in Seq(Rows(B)) /\ Len(t) = Len(s) - k + 1 /\ DOMAIN t = 1..Len(t)
  BY <1>1
<1>3. \A p \in DOMAIN t : p + k - 1 \in DOMAIN s /\ p + k - 1 \in Nat /\ t[p] = s[p + k - 1]
  BY <1>1
<1> HIDE DEF t
<1>4. Plain(s) /\ CallsOnce(s) /\ Once(s)
  BY DEF Framed, InPlace, Once
<1>5. Once(t)
  <2> DEFINE place == [p \in DOMAIN t |-> p + k - 1]
  <2>1. \A p \in DOMAIN t : place[p] \in DOMAIN s /\ t[p] = s[place[p]]
    BY <1>3
  <2>2. \A p, q \in DOMAIN t : place[p] = place[q] => p = q
    BY <1>1, <1>2
  <2> HIDE DEF place
  <2> QED
    BY <1>4, <2>1, <2>2, OncePlaced
<1>6. Plain(t)
  BY <1>3, <1>4 DEF Plain
<1>7. ASSUME NEW j \in DOMAIN s, j >= k
      PROVE  j - k + 1 \in DOMAIN t /\ t[j - k + 1] = s[j]
  <2>1. j \in Nat /\ j <= Len(s)
    OBVIOUS
  <2>2. j - k + 1 \in DOMAIN t /\ (j - k + 1) + k - 1 = j
    BY <1>1, <1>2, <1>7, <2>1
  <2> QED
    BY <1>3, <2>2
<1>8. ASSUME NEW i \in DOMAIN s, i >= k, Is(s[i], "tool"), s[i].id # Skill,
             NEW j \in DOMAIN s, j < i, \A m \in DOMAIN s : j < m /\ m <= i => Is(s[m], "tool")
      PROVE  j >= k
  <2> SUFFICES ASSUME j < k PROVE FALSE
    BY <1>1
  <2>1. Is(s[k], "tool")
    BY <1>1, <1>8
  <2> QED
    BY <2>1, OneRole
<1>9. ASSUME NEW p \in DOMAIN t, Is(t[p], "tool"), t[p].id # Skill PROVE Follows(t, p)
  <2> DEFINE i == p + k - 1
  <2>1. i \in DOMAIN s /\ i >= k /\ t[p] = s[i] /\ i \in Nat /\ p \in Nat
    BY <1>1, <1>2, <1>3
  <2>2. i - k + 1 = p
    BY <1>1, <2>1
  <2> HIDE DEF i
  <2>3. PICK j \in DOMAIN s : /\ j < i /\ s[i].id \in CallsOf(s[j])
                              /\ \A m \in DOMAIN s : j < m /\ m <= i => Is(s[m], "tool")
    BY <1>9, <2>1 DEF Framed, InPlace, Follows
  <2>4. j >= k
    BY <1>8, <1>9, <2>1, <2>3
  <2>5. j - k + 1 \in DOMAIN t /\ t[j - k + 1] = s[j]
    BY <1>7, <2>4
  <2>6. j - k + 1 < p
    BY <1>1, <2>1, <2>2, <2>3
  <2>7. ASSUME NEW m \in DOMAIN t, j - k + 1 < m, m <= p PROVE Is(t[m], "tool")
    <3>1. m + k - 1 \in DOMAIN s /\ t[m] = s[m + k - 1]
      BY <1>3
    <3>2. m \in Nat /\ j \in Nat /\ k \in Nat
      BY <1>1, <1>2
    <3>3. p \in Nat /\ i \in Nat /\ i - k + 1 = p /\ j - k + 1 < m /\ m <= p
      BY <2>1, <2>2, <2>7
    <3>4. j < m + k - 1 /\ m + k - 1 <= i
      BY <3>2, <3>3, Shifted
    <3> QED
      BY <2>3, <3>1, <3>4
  <2> QED
    BY <2>1, <2>3, <2>5, <2>6, <2>7 DEF Follows
<1>10. Called(t) \ {Skill} \subseteq Answered(t)
  <2> SUFFICES ASSUME NEW c \in Called(t), c # Skill PROVE c \in Answered(t)
    OBVIOUS
  <2>1. PICK p \in DOMAIN t : c \in CallsOf(t[p])
    BY Members
  <2>2. p + k - 1 \in DOMAIN s /\ c \in CallsOf(s[p + k - 1]) /\ p + k - 1 >= k
    BY <1>1, <1>2, <1>3, <2>1
  <2>3. c \in Answered(s)
    BY <2>2, Members DEF Framed
  <2>4. PICK i \in DOMAIN s : Is(s[i], "tool") /\ s[i].id = c
    BY <2>3, Members
  <2>5. PICK j \in DOMAIN s : j < i /\ c \in CallsOf(s[j])
    BY <2>4 DEF Framed, InPlace, Follows
  <2>6. j = p + k - 1
    BY <1>4, <2>2, <2>5, OneCaller
  <2>7. i >= k
    BY <1>1, <2>2, <2>5, <2>6
  <2>8. i - k + 1 \in DOMAIN t /\ t[i - k + 1] = s[i]
    BY <1>7, <2>7
  <2> QED
    BY <2>4, <2>8, Members
<1> QED
  BY <1>5, <1>6, <1>9, <1>10 DEF Framed, InPlace, t

LEMMA RecentFramed ==
    ASSUME NEW B, NEW s \in Seq(Rows(B)), Framed(s), NEW n \in Nat
    PROVE  Framed(Recent(s, n))
<1>1. CASE Recent(s, n) = <<>>
  BY <1>1, NothingOnce
<1>2. CASE Recent(s, n) = s
  BY <1>2
<1>3. CASE \E k \in DOMAIN s : Is(s[k], "user") /\ Recent(s, n) = SubSeq(s, k, Len(s))
  BY <1>3, FramedFrom
<1> QED
  BY <1>1, <1>2, <1>3, RecentIs

---------------------------------------------------------------------------
(* Rows behind rows.                                                       *)

(* The calls a sequence makes or answers, but for the injected one.        *)
Named(s) == (Called(s) \cup Answered(s)) \ {Skill}

(* Row j shows the call that row i answers; behind j nothing else is shown.*)
Held(s, i, j) ==
    /\ j \in DOMAIN s /\ ~Hides(s[j]) /\ s[i].id \in CallsOf(s[j])
    /\ \A m \in DOMAIN s : j < m /\ m <= i => Is(s[m], "tool") \/ Hides(s[m])

LEMMA NamedIn ==
    ASSUME NEW B, NEW s \in Seq(Rows(B)), NEW i \in DOMAIN s, NEW c, c # Skill
    PROVE  /\ \A k : Makes(s[i], k, c) => c \in Named(s)
           /\ Answers(s[i], c) => c \in Named(s)
<1>1. ASSUME NEW k, Makes(s[i], k, c) PROVE c \in Called(s)
  <2>1. s[i] \in Rows(B) /\ Is(s[i], "assistant") /\ k \in DOMAIN s[i].calls /\ s[i].calls[k] = c
    BY <1>1 DEF Makes
  <2>2. c \in CallsOf(s[i])
    BY <2>1, RowKinds
  <2> QED
    BY <2>2, Members
<1>2. ASSUME Answers(s[i], c) PROVE c \in Answered(s)
  BY <1>2, Members DEF Answers
<1> QED
  BY <1>1, <1>2 DEF Named

LEMMA OnceJoins ==
    ASSUME NEW B, NEW s \in Seq(Rows(B)), NEW t \in Seq(Rows(B)), Once(s), Once(t),
           Named(s) \cap Named(t) = {}
    PROVE  Once(s \o t)
<1> DEFINE u == s \o t
           n == Len(s)
<1>1. /\ n \in Nat
      /\ \A p \in DOMAIN u :
            \/ p \in DOMAIN s /\ u[p] = s[p]
            \/ p > n /\ p - n \in DOMAIN t /\ u[p] = t[p - n] /\ p \in Nat
  <2>1. /\ u \in Seq(Rows(B)) /\ Len(s) \in Nat
        /\ \A i \in DOMAIN s : u[i] = s[i]
        /\ \A p \in DOMAIN u :
              \/ p \in DOMAIN s
              \/ p > Len(s) /\ p - Len(s) \in DOMAIN t /\ u[p] = t[p - Len(s)]
    BY JoinedAt
  <2>2. \A p \in DOMAIN u : p \in Nat
    BY <2>1
  <2> QED
    BY <2>1, <2>2
<1> HIDE DEF u, n
<1>2. ASSUME NEW p \in DOMAIN u, NEW q \in DOMAIN u, p - n = q - n, p > n, q > n,
             p \in Nat, q \in Nat
      PROVE  p = q
  BY <1>1, <1>2
<1>3. CallsOnce(u)
  <2> SUFFICES ASSUME NEW p \in DOMAIN u, NEW q \in DOMAIN u, NEW k, NEW l, NEW c, c # Skill,
                      Makes(u[p], k, c), Makes(u[q], l, c)
               PROVE  p = q /\ k = l
    BY DEF CallsOnce
  <2>1. CASE p \in DOMAIN s /\ u[p] = s[p] /\ q \in DOMAIN s /\ u[q] = s[q]
    BY <2>1 DEF Once, CallsOnce
  <2>2. CASE p \in DOMAIN s /\ u[p] = s[p] /\ q - n \in DOMAIN t /\ u[q] = t[q - n]
    BY <2>2, NamedIn
  <2>3. CASE q \in DOMAIN s /\ u[q] = s[q] /\ p - n \in DOMAIN t /\ u[p] = t[p - n]
    BY <2>3, NamedIn
  <2>4. CASE /\ p > n /\ p - n \in DOMAIN t /\ u[p] = t[p - n] /\ p \in Nat
             /\ q > n /\ q - n \in DOMAIN t /\ u[q] = t[q - n] /\ q \in Nat
    <3>1. p - n = q - n /\ k = l
      BY <2>4 DEF Once, CallsOnce
    <3> QED
      BY <1>2, <2>4, <3>1
  <2> QED
    BY <1>1, <2>1, <2>2, <2>3, <2>4
<1>4. AnswersOnce(u)
  <2> SUFFICES ASSUME NEW p \in DOMAIN u, NEW q \in DOMAIN u, NEW c, c # Skill,
                      Answers(u[p], c), Answers(u[q], c)
               PROVE  p = q
    BY DEF AnswersOnce
  <2>1. CASE p \in DOMAIN s /\ u[p] = s[p] /\ q \in DOMAIN s /\ u[q] = s[q]
    BY <2>1 DEF Once, AnswersOnce
  <2>2. CASE p \in DOMAIN s /\ u[p] = s[p] /\ q - n \in DOMAIN t /\ u[q] = t[q - n]
    BY <2>2, NamedIn
  <2>3. CASE q \in DOMAIN s /\ u[q] = s[q] /\ p - n \in DOMAIN t /\ u[p] = t[p - n]
    BY <2>3, NamedIn
  <2>4. CASE /\ p > n /\ p - n \in DOMAIN t /\ u[p] = t[p - n] /\ p \in Nat
             /\ q > n /\ q - n \in DOMAIN t /\ u[q] = t[q - n] /\ q \in Nat
    <3>1. p - n = q - n
      BY <2>4 DEF Once, AnswersOnce
    <3> QED
      BY <1>2, <2>4, <3>1
  <2> QED
    BY <1>1, <2>1, <2>2, <2>3, <2>4
<1> QED
  BY <1>3, <1>4 DEF Once, u

LEMMA HeldJoins ==
    ASSUME NEW S, NEW s \in Seq(S), NEW t \in Seq(S)
    PROVE  /\ \A i \in DOMAIN s : \A j : Held(s, i, j) => Held(s \o t, i, j)
           /\ \A i \in DOMAIN t : \A j :
                 Held(t, i, j) => Held(s \o t, Len(s) + i, Len(s) + j)
<1> DEFINE u == s \o t
           n == Len(s)
<1>1. /\ u \in Seq(S) /\ n \in Nat /\ DOMAIN s = 1..n
      /\ \A i \in DOMAIN s : i \in DOMAIN u /\ u[i] = s[i]
      /\ \A i \in DOMAIN t : n + i \in DOMAIN u /\ u[n + i] = t[i]
      /\ \A p \in DOMAIN u :
            p \in DOMAIN s \/ (p > n /\ p - n \in DOMAIN t /\ u[p] = t[p - n])
  BY JoinedAt
<1>2. (\A i \in DOMAIN t : i \in Nat /\ i >= 1) /\ \A p \in DOMAIN u : p \in Nat
  BY <1>1
<1> HIDE DEF u, n
<1>3. ASSUME NEW i \in DOMAIN s, NEW j, Held(s, i, j) PROVE Held(u, i, j)
  <2>1. j \in DOMAIN u /\ u[j] = s[j] /\ u[i] = s[i]
    BY <1>1, <1>3 DEF Held
  <2>2. ASSUME NEW m \in DOMAIN u, j < m, m <= i PROVE Is(u[m], "tool") \/ Hides(u[m])
    <3>1. m \in DOMAIN s
      BY <1>1, <1>2, <2>2
    <3> QED
      BY <1>1, <1>3, <2>2, <3>1 DEF Held
  <2> QED
    BY <1>3, <2>1, <2>2 DEF Held
<1>4. ASSUME NEW i \in DOMAIN t, NEW j, Held(t, i, j) PROVE Held(u, n + i, n + j)
  <2>1. j \in DOMAIN t /\ n + j \in DOMAIN u /\ u[n + j] = t[j] /\ u[n + i] = t[i]
    BY <1>1, <1>4 DEF Held
  <2>2. ASSUME NEW m \in DOMAIN u, n + j < m, m <= n + i
        PROVE  Is(u[m], "tool") \/ Hides(u[m])
    <3>1. m \in Nat /\ i \in Nat /\ j \in Nat /\ n \in Nat /\ j >= 1
      BY <1>1, <1>2, <2>1
    <3>2. m > n /\ j < m - n /\ m - n <= i
      BY <2>2, <3>1
    <3>3. m \notin DOMAIN s
      BY <1>1, <3>2
    <3>4. m - n \in DOMAIN t /\ u[m] = t[m - n]
      BY <1>1, <3>3
    <3> QED
      BY <1>4, <3>2, <3>4 DEF Held
  <2> QED
    BY <1>4, <2>1, <2>2 DEF Held
<1> QED
  BY <1>3, <1>4 DEF u, n

LEMMA MendableJoins ==
    ASSUME NEW B, NEW s \in Seq(Rows(B)), NEW t \in Seq(Rows(B)), Mendable(s), Mendable(t),
           Named(s) \cap Named(t) = {}
    PROVE  Mendable(s \o t)
<1> DEFINE u == s \o t
           n == Len(s)
<1>1. /\ \A i \in DOMAIN s : u[i] = s[i]
      /\ \A p \in DOMAIN u :
            p \in DOMAIN s \/ (p - n \in DOMAIN t /\ u[p] = t[p - n] /\ n + (p - n) = p)
  <2>1. /\ u \in Seq(Rows(B)) /\ Len(s) \in Nat
        /\ \A i \in DOMAIN s : u[i] = s[i]
        /\ \A p \in DOMAIN u :
              \/ p \in DOMAIN s
              \/ p > Len(s) /\ p - Len(s) \in DOMAIN t /\ u[p] = t[p - Len(s)]
    BY JoinedAt
  <2>2. \A p \in DOMAIN u : p \in Nat
    BY <2>1
  <2>3. \A p \in DOMAIN u : Len(s) + (p - Len(s)) = p
    BY <2>1, <2>2
  <2> QED
    BY <2>1, <2>3
<1>2. Once(u)
  BY OnceJoins DEF Mendable
<1>3. /\ \A i \in DOMAIN s : \A j : Held(s, i, j) => Held(u, i, j)
      /\ \A i \in DOMAIN t : \A j : Held(t, i, j) => Held(u, n + i, n + j)
  BY HeldJoins
<1> HIDE DEF u, n
<1>4. ASSUME NEW p \in DOMAIN u, Is(u[p], "tool"), u[p].id # Skill PROVE Near(u, p)
  <2>1. CASE p \in DOMAIN s
    <3>1. PICK j : Held(s, p, j)
      BY <1>1, <1>4, <2>1 DEF Mendable, Near, Held
    <3>2. Held(u, p, j)
      BY <1>3, <2>1, <3>1
    <3> QED
      BY <3>2 DEF Held, Near
  <2>2. CASE p - n \in DOMAIN t /\ u[p] = t[p - n] /\ n + (p - n) = p
    <3>1. PICK j : Held(t, p - n, j)
      BY <1>4, <2>2 DEF Mendable, Near, Held
    <3>2. Held(u, p, n + j)
      BY <1>3, <2>2, <3>1
    <3> QED
      BY <3>2 DEF Held, Near
  <2> QED
    BY <1>1, <2>1, <2>2
<1> QED
  BY <1>2, <1>4 DEF Mendable, u

LEMMA InPlaceJoins ==
    ASSUME NEW B, NEW s \in Seq(Rows(B)), NEW t \in Seq(Rows(B)), InPlace(s), InPlace(t),
           Named(s) \cap Named(t) = {}
    PROVE  InPlace(s \o t)
<1> DEFINE u == s \o t
           n == Len(s)
<1>1. /\ n \in Nat /\ \A i \in DOMAIN s : u[i] = s[i]
      /\ \A p \in DOMAIN u :
            p \in DOMAIN s \/ (p - n \in DOMAIN t /\ u[p] = t[p - n] /\ n + (p - n) = p)
  <2>1. /\ u \in Seq(Rows(B)) /\ Len(s) \in Nat
        /\ \A i \in DOMAIN s : u[i] = s[i]
        /\ \A p \in DOMAIN u :
              \/ p \in DOMAIN s
              \/ p > Len(s) /\ p - Len(s) \in DOMAIN t /\ u[p] = t[p - Len(s)]
    BY JoinedAt
  <2>2. \A p \in DOMAIN u : p \in Nat
    BY <2>1
  <2>3. \A p \in DOMAIN u : Len(s) + (p - Len(s)) = p
    BY <2>1, <2>2
  <2> QED
    BY <2>1, <2>3
<1>2. Once(u) /\ Plain(u)
  BY OnceJoins, PlainJoins DEF InPlace
<1>3. /\ \A i \in DOMAIN s : \A j : Held(s, i, j) => Held(u, i, j)
      /\ \A i \in DOMAIN t : \A j : Held(t, i, j) => Held(u, n + i, n + j)
  BY HeldJoins
<1>4. \A i \in DOMAIN t : i \in Nat
  OBVIOUS
<1> HIDE DEF u, n
<1>5. ASSUME NEW p \in DOMAIN u, NEW j, Held(u, p, j), j < p PROVE Follows(u, p)
  BY <1>2, <1>5 DEF Held, Follows, Plain
<1>6. ASSUME NEW p \in DOMAIN u, Is(u[p], "tool"), u[p].id # Skill PROVE Follows(u, p)
  <2>1. CASE p \in DOMAIN s
    <3>1. PICK j \in DOMAIN s : j < p /\ Held(s, p, j)
      BY <1>1, <1>6, <2>1 DEF InPlace, Follows, Held, Plain
    <3>2. Held(u, p, j)
      BY <1>3, <2>1, <3>1
    <3> QED
      BY <1>5, <3>1, <3>2
  <2>2. CASE p - n \in DOMAIN t /\ u[p] = t[p - n] /\ n + (p - n) = p
    <3>1. PICK j \in DOMAIN t : j < p - n /\ Held(t, p - n, j)
      BY <1>6, <2>2 DEF InPlace, Follows, Held, Plain
    <3>2. Held(u, p, n + j)
      BY <1>3, <2>2, <3>1
    <3>3. n + j < p
      <4>1. j \in Nat /\ n \in Nat /\ p - n \in Nat
        BY <1>1, <1>4, <2>2
      <4> DEFINE q == p - n
      <4>2. j < q /\ q \in Nat /\ n + q = p
        BY <2>2, <3>1, <4>1
      <4> HIDE DEF q
      <4> QED
        BY <4>1, <4>2
    <3> QED
      BY <1>5, <3>2, <3>3
  <2> QED
    BY <1>1, <2>1, <2>2
<1> QED
  BY <1>2, <1>6 DEF InPlace, u

(* Rows without calls of their own, and a row with calls of its own.       *)
LEMMA QuietInPlace ==
    ASSUME NEW t, Plain(t), Called(t) \subseteq {Skill}, Answered(t) \subseteq {Skill}
    PROVE  InPlace(t)
<1>1. \A i \in DOMAIN t : Is(t[i], "tool") => t[i].id = Skill
  BY Members
<1>2. ASSUME NEW i \in DOMAIN t, NEW k, NEW c, Makes(t[i], k, c) PROVE c = Skill
  <2>1. c \in CallsOf(t[i])
    BY <1>2 DEF Makes, CallsOf, Range
  <2> QED
    BY <2>1, Members
<1> QED
  BY <1>1, <1>2 DEF InPlace, Once, CallsOnce, AnswersOnce, Answers

LEMMA AskInPlace ==
    ASSUME NEW cs \in Seq(Ids), Distinct(cs)
    PROVE  InPlace(<<Assistant(cs)>>)
<1> DEFINE row == Assistant(cs)
           t   == <<row>>
<1>1. /\ Is(row, "assistant") /\ ~Is(row, "tool") /\ ~Hides(row) /\ row.calls = cs
  <2>1. Is(row, "assistant") /\ ~Hides(row) /\ row.calls = cs
    BY NewRows
  <2> QED
    BY <2>1, OneRole
<1> HIDE DEF row
<1>2. DOMAIN t = {1} /\ t[1] = row
  OBVIOUS
<1> HIDE DEF t
<1>3. Plain(t) /\ AnswersOnce(t) /\ \A i \in DOMAIN t : ~Is(t[i], "tool")
  BY <1>1, <1>2 DEF Plain, AnswersOnce, Answers
<1>4. CallsOnce(t)
  BY <1>1, <1>2 DEF CallsOnce, Makes, Distinct
<1> QED
  BY <1>3, <1>4 DEF InPlace, Once, t, row

(* Answers to calls of row j, behind which there are only answers.         *)
Answering(s, j, t) ==
    /\ j \in DOMAIN s /\ \A m \in DOMAIN s : j < m => Is(s[m], "tool")
    /\ \A i \in DOMAIN t : Is(t[i], "tool") /\ t[i].id \in CallsOf(s[j])

LEMMA AnswersInPlace ==
    ASSUME NEW B, NEW s \in Seq(Rows(B)), NEW t \in Seq(Rows(B)), InPlace(s),
           NEW j, Answering(s, j, t), AnswersOnce(t), Answered(s) \cap Answered(t) = {}
    PROVE  InPlace(s \o t) /\ Answering(s \o t, j, <<>>) /\ (s \o t)[j] = s[j]
<1> DEFINE u == s \o t
           n == Len(s)
<1>1. /\ u \in Seq(Rows(B)) /\ n \in Nat /\ DOMAIN s = 1..n
      /\ \A i \in DOMAIN s : i \in DOMAIN u /\ u[i] = s[i]
      /\ \A p \in DOMAIN u :
            \/ p \in DOMAIN s
            \/ p > n /\ p - n \in DOMAIN t /\ u[p] = t[p - n]
  BY JoinedAt
<1>2. (\A p \in DOMAIN u : p \in Nat) /\ j \in Nat /\ j <= n
  BY <1>1 DEF Answering
<1>3. \A i \in DOMAIN t : Is(t[i], "tool") /\ ~Is(t[i], "assistant") /\ ~Hides(t[i])
  BY OneRole DEF Answering, Hides
<1> HIDE DEF u, n
<1>4. ASSUME NEW p \in DOMAIN u, NEW q \in DOMAIN u, p - n = q - n, p > n, q > n
      PROVE  p = q
  BY <1>1, <1>2, <1>4
<1>5. Plain(u)
  BY <1>1, <1>3 DEF InPlace, Plain
<1>6. CallsOnce(u)
  <2> SUFFICES ASSUME NEW p \in DOMAIN u, NEW q \in DOMAIN u, NEW k, NEW l, NEW c, c # Skill,
                      Makes(u[p], k, c), Makes(u[q], l, c)
               PROVE  p = q /\ k = l
    BY DEF CallsOnce
  <2>1. p \in DOMAIN s /\ u[p] = s[p] /\ q \in DOMAIN s /\ u[q] = s[q]
    BY <1>1, <1>3 DEF Makes
  <2> QED
    BY <2>1 DEF InPlace, Once, CallsOnce
<1>7. AnswersOnce(u)
  <2> SUFFICES ASSUME NEW p \in DOMAIN u, NEW q \in DOMAIN u, NEW c, c # Skill,
                      Answers(u[p], c), Answers(u[q], c)
               PROVE  p = q
    BY DEF AnswersOnce
  <2>1. CASE p \in DOMAIN s /\ q \in DOMAIN s
    BY <1>1, <2>1 DEF InPlace, Once, AnswersOnce
  <2>2. CASE /\ p > n /\ p - n \in DOMAIN t /\ u[p] = t[p - n]
             /\ q > n /\ q - n \in DOMAIN t /\ u[q] = t[q - n]
    <3>1. p - n = q - n
      BY <2>2 DEF AnswersOnce
    <3> QED
      BY <1>4, <2>2, <3>1
  <2>3. ASSUME NEW x \in DOMAIN s, NEW y \in DOMAIN t, Answers(s[x], c), Answers(t[y], c)
        PROVE  FALSE
    <3>1. c \in Answered(s)
      BY <2>3, Members DEF Answers
    <3>2. c \in Answered(t)
      BY <2>3, Members DEF Answers
    <3> QED
      BY <3>1, <3>2
  <2> QED
    BY <1>1, <2>1, <2>2, <2>3
<1>8. j \in DOMAIN u /\ u[j] = s[j] /\ \A m \in DOMAIN u : j < m => Is(u[m], "tool")
  BY <1>1, <1>3 DEF Answering
<1>9. ASSUME NEW p \in DOMAIN u, Is(u[p], "tool"), u[p].id # Skill PROVE Follows(u, p)
  <2>1. CASE p \in DOMAIN s
    <3>1. PICK i \in DOMAIN s : i < p /\ Held(s, p, i)
      BY <1>1, <1>9, <2>1 DEF InPlace, Follows, Held, Plain
    <3>2. Held(u, p, i)
      BY <2>1, <3>1, HeldJoins DEF u
    <3> QED
      BY <1>5, <3>1, <3>2 DEF Held, Follows, Plain
  <2>2. CASE p > n /\ p - n \in DOMAIN t /\ u[p] = t[p - n]
    <3>1. j < p
      BY <1>1, <1>2, <2>2
    <3>2. u[p].id \in CallsOf(u[j])
      BY <1>8, <2>2 DEF Answering
    <3> QED
      BY <1>8, <3>1, <3>2 DEF Follows
  <2> QED
    BY <1>1, <2>1, <2>2
<1>10. Answering(u, j, <<>>)
  BY <1>8 DEF Answering
<1> QED
  BY <1>5, <1>6, <1>7, <1>8, <1>9, <1>10 DEF InPlace, Once, u

---------------------------------------------------------------------------
(* Collapsed, the run's rows can be mended.                                *)

LEMMA AllCallsDistinct ==
    ASSUME NEW B, NEW m \in Seq(Rows(B)), Plain(m), CallsOnce(m)
    PROVE  Distinct(AllCalls(m))
<1> DEFINE ss == [i \in DOMAIN m |-> IF Is(m[i], "assistant") THEN m[i].calls ELSE <<>>]
           g  == FlattenSeq(ss)
<1>1. DOMAIN ss = 1..Len(m) /\ Len(m) \in Nat /\ DOMAIN m = 1..Len(m)
  OBVIOUS
<1>2. \A i \in 1..Len(m) : ss[i] \in Seq(Ids)
  BY RowKinds
<1>3. ss \in Seq(Seq(Ids)) /\ Len(ss) = Len(m)
  <2>1. ss = [i \in 1..Len(m) |-> ss[i]]
    OBVIOUS
  <2> HIDE DEF ss
  <2>2. ss \in [1..Len(m) -> Seq(Ids)]
    BY <1>2, <2>1
  <2> QED
    BY <1>1, <2>2
<1>4. \A i \in DOMAIN m : \A k \in 1..Len(ss[i]) :
          Is(m[i], "assistant") /\ k \in DOMAIN m[i].calls /\ ss[i][k] = m[i].calls[k]
  <2> SUFFICES ASSUME NEW i \in DOMAIN m, NEW k \in 1..Len(ss[i])
               PROVE  Is(m[i], "assistant") /\ k \in DOMAIN m[i].calls /\ ss[i][k] = m[i].calls[k]
    OBVIOUS
  <2>1. CASE Is(m[i], "assistant")
    <3>1. m[i].calls \in Seq(Ids)
      BY <2>1, RowKinds
    <3> QED
      BY <2>1, <3>1
  <2>2. CASE ~Is(m[i], "assistant")
    BY <2>2
  <2> QED
    BY <2>1, <2>2
<1> HIDE DEF ss
<1>5. g \in Seq(Ids) /\ \E row, pl : Laid(ss, Len(ss), g, row, pl)
  BY <1>3, FlattenLaid
<1> HIDE DEF g
<1>6. PICK row, pl : Laid(ss, Len(ss), g, row, pl)
  BY <1>5
<1>7. /\ DOMAIN g = 1..Len(g) /\ Len(g) \in Nat
      /\ \A p \in 1..Len(g) : row[p] \in DOMAIN m /\ pl[p] \in 1..Len(ss[row[p]])
                              /\ g[p] = ss[row[p]][pl[p]] /\ row[p] \in Nat /\ pl[p] \in Nat
  <2>1. \A p \in 1..Len(g) : row[p] \in 1..Len(m) /\ pl[p] \in Nat
    BY <1>3, <1>6 DEF Laid
  <2>2. \A p \in 1..Len(g) : pl[p] \in 1..Len(ss[row[p]]) /\ g[p] = ss[row[p]][pl[p]]
    BY <1>6 DEF Laid
  <2>3. DOMAIN g = 1..Len(g) /\ Len(g) \in Nat
    BY <1>5
  <2> QED
    BY <1>1, <2>1, <2>2, <2>3
<1>8. \A p, q \in 1..Len(g) : p < q => row[p] < row[q] \/ (row[p] = row[q] /\ pl[p] < pl[q])
  BY <1>6 DEF Laid
<1> SUFFICES ASSUME NEW p \in DOMAIN g, NEW q \in DOMAIN g, g[p] = g[q], g[p] # Skill
             PROVE  p = q
  BY DEF Distinct, AllCalls, g, ss
<1>9. Makes(m[row[p]], pl[p], g[p]) /\ Makes(m[row[q]], pl[q], g[p])
  <2>1. p \in 1..Len(g) /\ q \in 1..Len(g)
    BY <1>7
  <2> QED
    BY <1>4, <1>7, <2>1 DEF Makes, Plain
<1>10. row[p] = row[q] /\ pl[p] = pl[q]
  BY <1>7, <1>9 DEF CallsOnce
<1>11. p \in Nat /\ q \in Nat /\ row[p] \in Nat /\ pl[p] \in Nat
  BY <1>7
<1>12. ~(p < q) /\ ~(q < p)
  <2>1. ~(row[p] < row[p]) /\ ~(pl[p] < pl[p])
    BY <1>11
  <2> QED
    BY <1>7, <1>8, <1>10, <2>1
<1> QED
  BY <1>11, <1>12

LEMMA CollapsedMendable ==
    ASSUME NEW B, NEW s \in Seq(Rows(B)), NEW n \in Nat, n < Len(s),
           InPlace(SubSeq(s, n + 1, Len(s)))
    PROVE  LET t == Collapse(s, n) IN Mendable(SubSeq(t, n + 1, Len(t)))
<1> DEFINE t  == Collapse(s, n)
           m  == SubSeq(s, n + 1, Len(s))
           mt == SubSeq(t, n + 1, Len(t))
           all == AllCalls(m)
           k  == Len(s) - n
<1>1. /\ t \in Seq(Rows(B)) /\ Len(t) = Len(s)
      /\ ~Is(s[Len(s)], "assistant") => t = s
      /\ \A i \in 1..Len(s) : ~(i > n /\ Is(s[i], "assistant")) => t[i] = s[i]
      /\ Is(s[Len(s)], "assistant") =>
            /\ t[Len(s)] = [s[Len(s)] EXCEPT !.calls = all]
            /\ \A i \in 1..Len(s) : i > n /\ i # Len(s) =>
                  t[i] = IF CallsOf(s[i]) # {} THEN [s[i] EXCEPT !.hidden = TRUE] ELSE s[i]
  BY CollapsedRows
<1> HIDE DEF t
<1>n. Len(s) \in Nat /\ n \in 0..Len(s) /\ n \in 0..Len(t) /\ k \in Nat /\ k >= 1
  BY <1>1
<1>2. /\ m \in Seq(Rows(B)) /\ DOMAIN m = 1..k /\ \A i \in 1..k : m[i] = s[n + i]
  BY <1>n, Halves
<1>3. /\ mt \in Seq(Rows(B)) /\ DOMAIN mt = 1..k /\ \A i \in 1..k : mt[i] = t[n + i]
  <2>1. mt \in Seq(Rows(B)) /\ Len(mt) = Len(t) - n /\ \A i \in 1..(Len(t) - n) : mt[i] = t[n + i]
    BY <1>1, <1>n, Halves
  <2> QED
    BY <1>1, <2>1
<1>4. /\ all \in Seq(Ids) /\ {all[j] : j \in DOMAIN all} = Called(m)
      /\ Distinct(all)
  <2>1. Plain(m) /\ CallsOnce(m)
    BY DEF InPlace, Once
  <2> HIDE DEF m
  <2> QED
    BY <1>2, <2>1, AllCallsAre, AllCallsDistinct
<1>p. \A i \in 1..k : n + i \in 1..Len(s) /\ n + i > n /\ (n + i = Len(s) <=> i = k)
  BY <1>n
<1>m. InPlace(m)
  OBVIOUS
<1>5. CASE ~Is(s[Len(s)], "assistant")
  <2>1. mt = m
    BY <1>1, <1>5
  <2> QED
    BY <1>m, <2>1, InPlaceMendable DEF mt, t
<1>6. CASE Is(s[Len(s)], "assistant")
  <2> HIDE DEF m, mt, all, k
  <2>0. \A i \in DOMAIN m : m[i] \in Rows(B)
    <3>1. m \in Seq(Rows(B))
      BY <1>2
    <3> QED
      BY <3>1
  <2>1. \A i \in 1..k : ~Is(m[i], "assistant") => mt[i] = m[i]
    BY <1>1, <1>2, <1>3, <1>p
  <2>2. \A i \in 1..k : i # k =>
           mt[i] = IF CallsOf(m[i]) # {} THEN [m[i] EXCEPT !.hidden = TRUE] ELSE m[i]
    <3> SUFFICES ASSUME NEW i \in 1..k, i # k
                 PROVE  mt[i] = IF CallsOf(m[i]) # {} THEN [m[i] EXCEPT !.hidden = TRUE] ELSE m[i]
      OBVIOUS
    <3> DEFINE x == n + i
    <3>1. x \in 1..Len(s) /\ x > n /\ x # Len(s) /\ mt[i] = t[x] /\ m[i] = s[x]
      BY <1>2, <1>3, <1>p
    <3> HIDE DEF x
    <3> QED
      BY <1>1, <1>6, <3>1
  <2>3. k \in 1..k /\ m[k] \in Rows(B) /\ mt[k] = [m[k] EXCEPT !.calls = all]
        /\ Is(m[k], "assistant")
    <3>1. k \in 1..k /\ k \in DOMAIN m
      BY <1>2, <1>n
    <3>2. n + k \in 1..Len(s) /\ n + k = Len(s)
      BY <1>p, <3>1
    <3>3. m[k] = s[Len(s)] /\ mt[k] = t[Len(s)]
      BY <1>2, <1>3, <3>1, <3>2
    <3> QED
      BY <1>1, <1>6, <2>0, <3>1, <3>3
  <2>4. /\ Is(mt[k], "assistant") /\ mt[k].calls = all /\ CallsOf(mt[k]) = Called(m)
        /\ ~Hides(mt[k])
    <3>1. /\ Is(mt[k], "assistant") /\ mt[k].calls = all
          /\ CallsOf(mt[k]) = {all[j] : j \in DOMAIN all} /\ Hides(mt[k]) = Hides(m[k])
      BY <1>4, <2>3, OtherCalls
    <3>2. ~Hides(m[k])
      BY <1>2, <1>m, <2>3 DEF InPlace, Plain
    <3> QED
      BY <1>4, <3>1, <3>2
  <2>5. ASSUME NEW i \in 1..k, Is(mt[i], "tool") PROVE Is(m[i], "tool") /\ mt[i] = m[i] /\ i # k
    <3>1. i # k
      BY <2>4, <2>5, OneRole
    <3>2. m[i] \in Rows(B)
      BY <1>2, <2>0
    <3>3. ~Is(m[i], "assistant")
      <4> SUFFICES ASSUME Is(m[i], "assistant") PROVE FALSE
        OBVIOUS
      <4>1. Is(mt[i], "assistant")
        BY <2>2, <3>1, <3>2, HiddenRow
      <4> QED
        BY <2>5, <4>1, OneRole
    <3> QED
      BY <2>1, <2>5, <3>1, <3>3
(* Only the last row still shows calls.                                    *)
  <2>6. ASSUME NEW i \in 1..k, NEW x, NEW c, Makes(mt[i], x, c) PROVE i = k
    <3> SUFFICES ASSUME i # k PROVE FALSE
      OBVIOUS
    <3>1. m[i] \in Rows(B)
      BY <1>2, <2>0
    <3>2. CASE CallsOf(m[i]) # {}
      <4>1. Is(m[i], "assistant")
        BY <3>2 DEF CallsOf
      <4>2. Hides(mt[i])
        BY <2>2, <3>1, <3>2, <4>1, HiddenRow
      <4> QED
        BY <2>6, <4>2 DEF Makes
    <3>3. CASE CallsOf(m[i]) = {}
      <4>1. Is(m[i], "assistant") /\ x \in DOMAIN m[i].calls
        BY <2>2, <2>6, <3>3 DEF Makes
      <4>2. m[i].calls[x] \in CallsOf(m[i])
        BY <3>1, <4>1, RowKinds
      <4> QED
        BY <3>3, <4>2
    <3> QED
      BY <3>2, <3>3
  <2>7. CallsOnce(mt)
    <3> SUFFICES ASSUME NEW i \in 1..k, NEW j \in 1..k, NEW x, NEW y, NEW c, c # Skill,
                        Makes(mt[i], x, c), Makes(mt[j], y, c)
                 PROVE  i = j /\ x = y
      BY <1>3 DEF CallsOnce
    <3>1. i = k /\ j = k
      BY <2>6
    <3> QED
      BY <1>4, <2>4, <3>1 DEF Makes, Distinct
  <2>8. AnswersOnce(mt)
    BY <1>2, <1>3, <1>m, <2>5 DEF AnswersOnce, Answers, InPlace, Once
  <2>9. ASSUME NEW i \in DOMAIN mt, Is(mt[i], "tool"), mt[i].id # Skill PROVE Near(mt, i)
    <3>1. i \in 1..k /\ Is(m[i], "tool") /\ mt[i] = m[i]
      BY <1>3, <2>5, <2>9
    <3>2. PICK j \in DOMAIN m : m[i].id \in CallsOf(m[j])
      BY <1>2, <1>m, <2>9, <3>1 DEF InPlace, Follows
    <3>3. mt[i].id \in CallsOf(mt[k])
      BY <2>4, <3>1, <3>2, Members
    <3>4. \A x \in DOMAIN mt : ~(k < x /\ x <= i)
      BY <1>3, <1>n, <3>1 DEF k
    <3> QED
      BY <1>3, <2>3, <2>4, <3>3, <3>4 DEF Near
  <2> QED
    BY <2>7, <2>8, <2>9 DEF Mendable, Once, mt, t
<1> QED
  BY <1>5, <1>6

---------------------------------------------------------------------------
(* What a run asks with: PromptInv.                                        *)

(* What is stored, and was when a request loaded it, can be mended.        *)
StorePrompts ==
    /\ Mendable(store) /\ Named(store) \subseteq 1..ids
    /\ \A r \in Requests : phase[r] = "loaded" => Mendable(SubSeq(store, 1, seen[r]))

(* The history of a run is framed, with stored calls; its own rows are in  *)
(* place, with other calls, all answered but those at hand, which the last *)
(* row with calls makes; collapsed, they can be mended.                    *)
RunPrompts ==
    /\ pc # "idle" =>
          /\ Framed(Past) /\ Named(Past) \subseteq Named(store)
          /\ Named(Mine) \subseteq 1..ids /\ Named(Mine) \cap Named(store) = {}
    /\ pc \notin {"idle", "persist"} =>
          /\ InPlace(Mine)
          /\ Called(Mine) \subseteq Answered(Mine) \cup Left
          /\ Answered(Mine) \cap Left = {}
    /\ pc = "persist" => Mendable(Mine)
    /\ InTools => \E j : CallIds \subseteq CallsOf(Mine[j]) /\ Answering(Mine, j, <<>>)

PromptInv == StorePrompts /\ RunPrompts

(* A step of a run that leaves its rows, and t behind them, in place.      *)
Tells(t) ==
    /\ t \in Seq(Rows(Ids))
    /\ pc \notin {"idle", "persist"} /\ pc' # "idle"
    /\ UNCHANGED <<from, store, phase, seen>> /\ ids' \in Nat /\ ids <= ids'
    /\ \/ msgs' = msgs \o t
       \/ msgs' = Collapse(msgs \o t, from) /\ pc' = "persist"
    /\ InPlace(Mine \o t)
    /\ Named(t) \subseteq Named(Mine) \cup (ids + 1)..ids'
    /\ pc' # "persist" =>
          /\ Called(Mine) \cup Called(t) \subseteq Answered(Mine) \cup Answered(t) \cup Left'
          /\ (Answered(Mine) \cup Answered(t)) \cap Left' = {}
    /\ InTools' => \E j : /\ CallIds' \subseteq CallsOf((Mine \o t)[j])
                          /\ Answering(Mine \o t, j, <<>>)

LEMMA RunRows ==
    ASSUME Base, RunInv
    PROVE  /\ msgs \in Seq(Rows(Ids)) /\ Len(msgs) \in Nat /\ from \in Nat
           /\ pc # "idle" => /\ from < Len(msgs) /\ from \in 0..Len(msgs)
                             /\ Mine \in Seq(Rows(Ids)) /\ Past \in Seq(Rows(Ids))
                             /\ msgs = Past \o Mine
<1>1. CutIds \subseteq Ids
  BY AgentLoopAssumption DEF CutIds, Ids, Given, Base, Scalars
<1>2. msgs \in Seq(Rows(Ids)) /\ from \in Nat
  BY <1>1, RowsGrow DEF RunInv
<1>3. Len(msgs) \in Nat
  BY <1>2
<1>4. ASSUME pc # "idle" PROVE from < Len(msgs) /\ from \in 0..Len(msgs)
  BY <1>2, <1>3, <1>4 DEF RunInv, OwnRows
<1>5. ASSUME pc # "idle"
      PROVE  Mine \in Seq(Rows(Ids)) /\ Past \in Seq(Rows(Ids)) /\ msgs = Past \o Mine
  BY <1>2, <1>4, <1>5, Halves DEF Mine, Past
<1> QED
  BY <1>2, <1>3, <1>4, <1>5

LEMMA TellsOn ==
    ASSUME Base, RunInv, PromptInv, NEW t, Tells(t)
    PROVE  PromptInv'
<1> DEFINE u == msgs \o t
           n == from
           h == SubSeq(u, 1, n)
           m == SubSeq(u, n + 1, Len(u))
           B == Ids
<1>0. /\ msgs \in Seq(Rows(B)) /\ t \in Seq(Rows(B)) /\ n \in Nat /\ n < Len(msgs)
      /\ Mine \in Seq(Rows(B))
  BY RunRows DEF Tells
<1>1. u \in Seq(Rows(B)) /\ n < Len(u) /\ h = Past /\ m = Mine \o t
  BY <1>0, AppendedRows DEF Past, Mine
<1>a. /\ Framed(Past) /\ Named(Past) \subseteq Named(store)
      /\ Named(Mine) \subseteq 1..ids /\ Named(Mine) \cap Named(store) = {}
      /\ Named(store) \subseteq 1..ids
  BY DEF PromptInv, StorePrompts, RunPrompts, Tells
<1>i. ids \in Nat /\ ids' \in Nat /\ ids <= ids'
  BY DEF Tells, Base, DispatchInv
<1>u. /\ from' = n /\ store' = store /\ phase' = phase /\ seen' = seen
      /\ pc # "idle" /\ pc' # "idle"
  BY DEF Tells
<1>m. InPlace(m)
  BY <1>1 DEF Tells
<1> HIDE DEF B, u, h, m
<1>2. Called(m) = Called(Mine) \cup Called(t) /\ Answered(m) = Answered(Mine) \cup Answered(t)
  BY <1>0, <1>1, JoinedRows
<1>3. Named(m) \subseteq Named(Mine) \cup (ids + 1)..ids'
  <2>1. Named(m) \subseteq Named(Mine) \cup Named(t)
    BY <1>2 DEF Named
  <2> QED
    BY <2>1 DEF Tells
<1>4. Named(m) \subseteq 1..ids' /\ Named(m) \cap Named(store) = {}
  <2>1. ASSUME NEW c \in (ids + 1)..ids' PROVE c \in 1..ids' /\ c \notin 1..ids
    BY <1>i
  <2>2. 1..ids \subseteq 1..ids'
    BY <1>i
  <2> QED
    BY <1>3, <1>a, <2>1, <2>2
<1>5. StorePrompts'
  <2>1. 1..ids \subseteq 1..ids'
    BY <1>i
  <2> QED
    BY <1>a, <1>u, <2>1 DEF StorePrompts, PromptInv
<1>6. CASE msgs' = u
  <2>1. Mine' = m /\ Past' = h
    BY <1>6, <1>u DEF m, h, Mine, Past
  <2>2. InPlace(Mine') /\ Mendable(Mine')
    BY <1>m, <2>1, InPlaceMendable
  <2>3. pc' # "persist" => /\ Called(Mine') \subseteq Answered(Mine') \cup Left'
                           /\ Answered(Mine') \cap Left' = {}
    BY <1>2, <2>1 DEF Tells
  <2>4. InTools' => \E j : CallIds' \subseteq CallsOf(Mine'[j]) /\ Answering(Mine', j, <<>>)
    BY <1>1, <2>1 DEF Tells
  <2>5. /\ Framed(Past') /\ Named(Past') \subseteq Named(store')
        /\ Named(Mine') \subseteq 1..ids' /\ Named(Mine') \cap Named(store') = {}
    BY <1>1, <1>4, <1>a, <1>u, <2>1
  <2>6. RunPrompts'
    BY <2>2, <2>3, <2>4, <2>5 DEF RunPrompts
  <2> QED
    BY <1>5, <2>6 DEF PromptInv
<1>7. CASE msgs' = Collapse(u, n) /\ pc' = "persist"
  <2> DEFINE v  == Collapse(u, n)
             mv == SubSeq(v, n + 1, Len(v))
  <2>1. Plain(m)
    BY <1>m DEF InPlace
  <2>2. SubSeq(v, 1, n) = h /\ Answered(mv) = Answered(m) /\ Called(mv) = Called(m)
    BY <1>0, <1>1, <2>1, CollapsedSets DEF m, h
  <2>3. Mendable(mv)
    BY <1>0, <1>1, <1>m, CollapsedMendable DEF m
  <2>4. Mine' = mv /\ Past' = SubSeq(v, 1, n)
    BY <1>7, <1>u DEF Mine, Past
  <2> HIDE DEF v, mv
  <2>5. /\ Framed(Past') /\ Named(Past') \subseteq Named(store')
        /\ Named(Mine') \subseteq 1..ids' /\ Named(Mine') \cap Named(store') = {}
    BY <1>1, <1>4, <1>a, <1>u, <2>2, <2>4 DEF Named
  <2>6. RunPrompts'
    BY <1>7, <2>3, <2>4, <2>5 DEF RunPrompts, InTools
  <2> QED
    BY <1>5, <2>6 DEF PromptInv
<1> QED
  BY <1>6, <1>7 DEF Tells, u

LEMMA LeftEmpty ==
    ASSUME ~InTools \/ calls = <<>> \/ at > Len(calls), at \in Nat, calls \in Seq(CallAtHand)
    PROVE  Left = {}
<1>1. \A i \in DOMAIN calls : i \in Nat /\ i <= Len(calls) /\ Len(calls) \in Nat
  OBVIOUS
<1>2. \A i \in DOMAIN calls : ~(InTools /\ i >= at)
  <2>1. CASE at > Len(calls)
    BY <1>1, <2>1
  <2> QED
    BY <2>1
<1> QED
  BY <1>2 DEF Left

(* A step that adds no row.                                                *)
LEMMA TellsNothing ==
    ASSUME Base, RunInv, PromptInv, pc \notin {"idle", "persist"}, pc' # "idle",
           UNCHANGED <<from, store, phase, seen, ids>>,
           \/ msgs' = msgs
           \/ msgs' = Collapse(msgs, from) /\ pc' = "persist",
           pc' # "persist" => Left' = Left,
           InTools' => InTools /\ CallIds' \subseteq CallIds
    PROVE  Tells(<<>>)
<1>1. msgs \o <<>> = msgs /\ Mine \o <<>> = Mine /\ <<>> \in Seq(Rows(Ids))
  <2>1. msgs \in Seq(Rows(Ids)) /\ Mine \in Seq(Rows(Ids))
    BY RunRows
  <2> QED
    BY <2>1
<1>2. Called(<<>>) = {} /\ Answered(<<>>) = {} /\ Named(<<>>) = {}
  BY NoRows DEF Named
<1>3. /\ InPlace(Mine) /\ Called(Mine) \subseteq Answered(Mine) \cup Left
      /\ Answered(Mine) \cap Left = {}
  BY DEF PromptInv, RunPrompts
<1>4. InTools' => \E j : CallIds' \subseteq CallsOf(Mine[j]) /\ Answering(Mine, j, <<>>)
  BY DEF PromptInv, RunPrompts
<1>5. ids' \in Nat /\ ids <= ids'
  BY DEF Base, DispatchInv
<1> QED
  BY <1>1, <1>2, <1>3, <1>4, <1>5 DEF Tells

(* A row of the model, with calls of its own.                              *)
LEMMA TellsAsk ==
    ASSUME Base, RunInv, PromptInv, pc \notin {"idle", "persist"}, pc' # "idle",
           UNCHANGED <<from, store, phase, seen>>, ids' \in Nat, ids <= ids',
           NEW cs \in Seq(Ids), \A k \in DOMAIN cs : cs[k] \in (ids + 1)..ids', Distinct(cs),
           \/ msgs' = Append(msgs, Assistant(cs))
           \/ msgs' = Collapse(Append(msgs, Assistant(cs)), from) /\ pc' = "persist",
           \/ pc' = "persist"
           \/ Left = {} /\ Left' = {cs[k] : k \in DOMAIN cs} /\ CallIds' = Left'
    PROVE  Tells(<<Assistant(cs)>>)
<1> DEFINE t == <<Assistant(cs)>>
           B == Ids
           m == Mine
           n == Len(m)
<1>1. /\ t \in Seq(Rows(B)) /\ Plain(t) /\ Answered(t) = {}
      /\ Called(t) = {cs[k] : k \in DOMAIN cs}
  BY AnswerRow
<1>2. msgs \in Seq(Rows(B)) /\ m \in Seq(Rows(B))
  BY RunRows
<1>3. Append(msgs, Assistant(cs)) = msgs \o t
  BY <1>2
<1>4. InPlace(t)
  BY AskInPlace
<1>5. DOMAIN t = {1} /\ CallsOf(t[1]) = {cs[k] : k \in DOMAIN cs}
  <2> DEFINE row == Assistant(cs)
  <2>1. CallsOf(row) = {cs[k] : k \in DOMAIN cs}
    BY NewRows
  <2> HIDE DEF row
  <2>2. t = <<row>>
    BY DEF row
  <2> HIDE DEF t
  <2> QED
    BY <2>1, <2>2
<1> HIDE DEF t, B, m
<1>6. Named(t) \subseteq (ids + 1)..ids' /\ Called(t) \subseteq (ids + 1)..ids'
  BY <1>1 DEF Named
<1>7. ids \in Nat /\ Named(m) \subseteq 1..ids /\ InPlace(m)
  BY DEF Base, DispatchInv, PromptInv, RunPrompts, m
<1>8. ASSUME NEW c \in (ids + 1)..ids' PROVE c \notin 1..ids /\ c # Skill
  BY <1>7 DEF Skill
<1>9. Named(m) \cap Named(t) = {}
  BY <1>6, <1>7, <1>8
<1>10. InPlace(m \o t)
  BY <1>1, <1>2, <1>4, <1>7, <1>9, InPlaceJoins
<1>11. /\ n \in Nat /\ n + 1 \in DOMAIN (m \o t) /\ (m \o t)[n + 1] = t[1]
       /\ \A p \in DOMAIN (m \o t) : p <= n + 1
  <2>1. /\ m \o t \in Seq(Rows(B)) /\ Len(m \o t) = n + 1 /\ n \in Nat
        /\ n + 1 \in DOMAIN (m \o t) /\ (m \o t)[n + 1] = t[1]
    <3>1. Len(t) = 1
      BY DEF t
    <3>2. /\ m \o t \in Seq(Rows(B)) /\ Len(m \o t) = n + Len(t) /\ n \in Nat
          /\ \A i \in DOMAIN t : n + i \in DOMAIN (m \o t) /\ (m \o t)[n + i] = t[i]
      BY <1>1, <1>2, JoinedAt
    <3> QED
      BY <1>5, <3>1, <3>2
  <2> QED
    BY <2>1
<1>12. Answering(m \o t, n + 1, <<>>)
  <2>1. \A p \in DOMAIN (m \o t) : ~(n + 1 < p)
    <3>1. \A p \in DOMAIN (m \o t) : p \in Nat
      BY <1>1, <1>2, JoinedAt
    <3> QED
      BY <1>11, <3>1
  <2> QED
    BY <1>11, <2>1 DEF Answering
<1>13. ASSUME pc' # "persist"
       PROVE  /\ Called(m) \cup Called(t) \subseteq Answered(m) \cup Answered(t) \cup Left'
              /\ (Answered(m) \cup Answered(t)) \cap Left' = {}
              /\ CallIds' \subseteq CallsOf((m \o t)[n + 1])
  <2>1. Left = {} /\ Left' = Called(t) /\ CallIds' = Called(t)
    BY <1>1, <1>13
  <2>2. Called(m) \subseteq Answered(m)
    BY <1>13, <2>1 DEF PromptInv, RunPrompts, m
  <2>3. Answered(m) \cap Left' = {}
    BY <1>6, <1>7, <1>8, <2>1 DEF Named
  <2> QED
    BY <1>1, <1>5, <1>11, <2>1, <2>2, <2>3
<1>14. InTools' => pc' # "persist"
  BY DEF InTools
<1> QED
  BY <1>1, <1>3, <1>6, <1>10, <1>12, <1>13, <1>14 DEF Tells, m, B, t

(* Answers of calls that are left.                                         *)
LEMMA TellsAnswers ==
    ASSUME Base, RunInv, PromptInv, InTools, pc' # "idle",
           UNCHANGED <<from, store, phase, seen, ids>>,
           NEW t \in Seq(Rows(Ids)), msgs' = msgs \o t, AnswersOnce(t),
           \A i \in DOMAIN t : Is(t[i], "tool") /\ t[i].id \in Left,
           \/ pc' = "persist"
           \/ CallIds' = CallIds /\ Left' = Left \ Answered(t)
    PROVE  Tells(t)
<1> DEFINE B == Ids
           m == Mine
<1>1. m \in Seq(Rows(B)) /\ pc \notin {"idle", "persist"}
  BY RunRows DEF InTools
<1>2. PICK j : CallIds \subseteq CallsOf(m[j]) /\ Answering(m, j, <<>>)
  BY DEF PromptInv, RunPrompts
<1>3. /\ InPlace(m) /\ Called(m) \subseteq Answered(m) \cup Left /\ Answered(m) \cap Left = {}
  BY <1>1 DEF PromptInv, RunPrompts
<1>4. Left \subseteq CallIds
  BY DEF Left, CallIds
<1>5. Answering(m, j, t)
  BY <1>2, <1>4 DEF Answering
<1>6. Answered(t) \subseteq Left /\ Called(t) = {}
  <2>1. Answered(t) \subseteq Left
    BY Members
  <2>2. \A i \in DOMAIN t : CallsOf(t[i]) = {}
    BY OneRole DEF CallsOf
  <2> QED
    BY <2>1, <2>2, Members
<1>7. CallsOf(m[j]) \subseteq Called(m)
  BY <1>2, Members DEF Answering
<1> HIDE DEF m, B
<1>8. InPlace(m \o t) /\ Answering(m \o t, j, <<>>) /\ (m \o t)[j] = m[j]
  <2>1. Answered(m) \cap Answered(t) = {} /\ t \in Seq(Rows(B))
    BY <1>3, <1>6 DEF B
  <2> QED
    BY ONLY <1>1, <1>3, <1>5, <2>1, AnswersOnce(t), AnswersInPlace
<1>9. Named(t) \subseteq Named(m)
  BY <1>2, <1>4, <1>6, <1>7 DEF Named
<1>10. ids' \in Nat /\ ids <= ids'
  BY DEF Base, DispatchInv
<1>11. pc' # "persist" =>
          /\ Called(m) \cup Called(t) \subseteq Answered(m) \cup Answered(t) \cup Left'
          /\ (Answered(m) \cup Answered(t)) \cap Left' = {}
  BY <1>3, <1>6
<1>12. InTools' => CallIds' \subseteq CallsOf((m \o t)[j]) /\ Answering(m \o t, j, <<>>)
  BY <1>2, <1>8 DEF InTools
<1> QED
  BY <1>1, <1>8, <1>9, <1>10, <1>11, <1>12 DEF Tells, m

LEMMA NewCalls ==
    ASSUME Base, NEW n \in Nat, Room(n), ids' = ids + n
    PROVE  LET cs == [k \in 1..n |-> ids + k]
           IN  /\ cs \in Seq(Ids) /\ DOMAIN cs = 1..n /\ Distinct(cs)
               /\ \A k \in DOMAIN cs : cs[k] \in (ids + 1)..ids'
               /\ ids' \in Nat /\ ids <= ids'
<1> DEFINE cs == [k \in 1..n |-> ids + k]
<1>0. ids \in Nat
  BY DEF Base, DispatchInv
<1>1. ids + n <= MaxWork
  BY <1>0, RoomLeft
<1>2. \A k \in 1..n : ids + k \in Ids
  BY <1>0, <1>1, AgentLoopAssumption DEF Ids, Given
<1>3. cs \in Seq(Ids) /\ DOMAIN cs = 1..n
  BY <1>2
<1>4. \A k \in 1..n : cs[k] = ids + k /\ k \in Nat
  OBVIOUS
<1> HIDE DEF cs
<1>5. \A k \in DOMAIN cs : cs[k] \in (ids + 1)..ids'
  BY <1>0, <1>3, <1>4
<1>6. Distinct(cs)
  BY <1>0, <1>3, <1>4 DEF Distinct
<1> QED
  BY <1>0, <1>3, <1>5, <1>6 DEF cs

LEMMA LoopTells ==
    ASSUME Base, RunInv, PromptInv, Loop
    PROVE  \E t : Tells(t)
<1> USE DEF Batch, Acts, Leave
<1>0. /\ pc \in {"head", "calling", "retry", "final"} /\ Left = {}
      /\ <<>> \in Seq(Ids) /\ Distinct(<<>>) /\ DOMAIN <<>> = {}
      /\ ids \in Nat
  <2>1. pc \in {"head", "calling", "retry", "final"}
    BY DEF Loop, StopAtHead, OverLimit, Refuse, CallModel, DropAnswer, AnswerText,
           AnswerSilent, AnswerEmpty, ModelRaises, ForcedFails, AnswerCalls, ForcedAnswer
  <2> QED
    BY <2>1, LeftEmpty DEF InTools, Distinct, Base, DispatchInv, CallsInv
<1>1. CASE StopAtHead \/ OverLimit \/ CallModel \/ DropAnswer \/ AnswerEmpty \/ ModelRaises
           \/ AnswerSilent
  <2>1. /\ UNCHANGED <<Fixed, ids>>
        /\ pc' \in {"persist", "calling", "retry"}
        /\ \/ msgs' = msgs \/ msgs' = Prune(msgs)
           \/ msgs' = Collapse(msgs, from) /\ pc' = "persist"
    BY <1>1 DEF StopAtHead, OverLimit, CallModel, DropAnswer, AnswerEmpty, ModelRaises,
                AnswerSilent, Finalize
  <2>2. Prune(msgs) = msgs
    BY <1>0, NothingToPrune
  <2>3. Left' = {} /\ ~InTools'
    BY <2>1 DEF Left, InTools
  <2> QED
    BY <1>0, <2>1, <2>2, <2>3, TellsNothing DEF Fixed
<1>2. CASE Refuse \/ AnswerText \/ ForcedFails
  <2>1. /\ UNCHANGED <<Fixed, ids>> /\ pc' = "persist"
        /\ msgs' = Append(msgs, Assistant(<<>>))
             \/ msgs' = Collapse(Append(msgs, Assistant(<<>>)), from)
    BY <1>2 DEF Refuse, AnswerText, ForcedFails, Finalize
  <2> DEFINE cs == <<>>
  <2>2. /\ cs \in Seq(Ids) /\ Distinct(cs) /\ DOMAIN cs = {}
        /\ msgs' = Append(msgs, Assistant(cs))
             \/ msgs' = Collapse(Append(msgs, Assistant(cs)), from)
    BY <1>0, <2>1
  <2> HIDE DEF cs
  <2>3. ids' \in Nat /\ ids <= ids' /\ \A k \in DOMAIN cs : cs[k] \in (ids + 1)..ids'
    BY <1>0, <2>1, <2>2
  <2>4. UNCHANGED <<from, store, phase, seen>> /\ pc \notin {"idle", "persist"}
    BY <1>0, <2>1 DEF Fixed
  <2>5. Tells(<<Assistant(cs)>>)
    BY <2>1, <2>2, <2>3, <2>4, TellsAsk
  <2> QED
    BY <2>5
<1>3. ASSUME NEW n \in 1..MaxBatch, NEW how \in Hows, AnswerCalls(n, how)
      PROVE  \E t : Tells(t)
  <2> DEFINE cs == [k \in 1..n |-> ids + k]
  <2>0. n \in Nat
    BY AgentLoopAssumption
  <2>1. /\ UNCHANGED Fixed /\ at' = 1 /\ pc' = "tools" /\ ids' = ids + n /\ Room(n)
        /\ msgs' = Append(msgs, Assistant(cs))
        /\ calls' = [k \in 1..n |-> [id |-> ids + k, st |-> "waiting"]]
    BY <1>3 DEF AnswerCalls
  <2>2. /\ cs \in Seq(Ids) /\ DOMAIN cs = 1..n /\ Distinct(cs)
        /\ \A k \in DOMAIN cs : cs[k] \in (ids + 1)..ids'
        /\ ids' \in Nat /\ ids <= ids'
    BY <2>0, <2>1, NewCalls
  <2>3. CallIds' = {cs[k] : k \in DOMAIN cs} /\ Left' = CallIds'
    <3>1. DOMAIN calls' = 1..n /\ \A k \in 1..n : calls'[k].id = cs[k]
      BY <2>1
    <3>2. \A k \in 1..n : k >= at'
      BY <2>0, <2>1
    <3> QED
      BY <2>1, <2>2, <3>1, <3>2 DEF CallIds, Left, InTools
  <2> HIDE DEF cs
  <2>4. Tells(<<Assistant(cs)>>)
    BY <1>0, <2>1, <2>2, <2>3, TellsAsk DEF Fixed
  <2> QED
    BY <2>4
<1>4. ASSUME NEW stray \in 0..1, ForcedAnswer(stray)
      PROVE  \E t : Tells(t)
  <2> DEFINE cs == [k \in 1..stray |-> ids + k]
  <2>1. /\ UNCHANGED Fixed /\ ids' = ids + stray /\ pc' = "persist" /\ Room(stray)
        /\ msgs' = Collapse(Append(msgs, Assistant(cs)), from)
    BY <1>4 DEF ForcedAnswer, Finalize
  <2>2. /\ cs \in Seq(Ids) /\ Distinct(cs)
        /\ \A k \in DOMAIN cs : cs[k] \in (ids + 1)..ids'
        /\ ids' \in Nat /\ ids <= ids'
    BY <2>1, NewCalls
  <2> HIDE DEF cs
  <2>3. Tells(<<Assistant(cs)>>)
    BY <1>0, <2>1, <2>2, TellsAsk DEF Fixed
  <2> QED
    BY <2>3
<1> QED
  BY <1>1, <1>2, <1>3, <1>4 DEF Loop

LEMMA TimesOutTells ==
    ASSUME Base, RunInv, PromptInv, TaskTimesOut
    PROVE  Tells(<<>>)
<1>1. /\ UNCHANGED <<Fixed, ids, msgs>> /\ pc' = "persist"
      /\ pc \notin {"idle", "persist"}
  BY DEF TaskTimesOut, Batch, Acts, Leave
<1> QED
  BY <1>1, TellsNothing DEF Fixed, InTools

(* A mark leaves the calls at hand.                                        *)
LEMMA TellsMark ==
    ASSUME Base, RunInv, PromptInv, InTools, NEW i \in DOMAIN calls, NEW st \in CallSt,
           Mark(i, st), UNCHANGED <<Fixed, at, msgs, pc, ids>>
    PROVE  Tells(<<>>)
<1>1. DOMAIN calls' = DOMAIN calls /\ \A j \in DOMAIN calls : calls'[j].id = calls[j].id
  BY Marked DEF Base, DispatchInv, CallsInv
<1>2. CallIds' = CallIds /\ Left' = Left
  BY <1>1 DEF CallIds, Left, InTools
<1> QED
  BY <1>2, TellsNothing DEF Fixed, InTools

LEMMA DispatchTells ==
    ASSUME Base, RunInv, PromptInv, Dispatch
    PROVE  \E t : Tells(t)
<1> USE DEF Batch, Acts
<1>0. /\ InTools /\ pc = "tools" /\ at \in Nat /\ at >= 1 /\ calls \in Seq(CallAtHand)
      /\ Unique /\ DOMAIN calls = 1..Len(calls) /\ Len(calls) \in Nat
      /\ msgs \in Seq(Rows(Ids))
  <2>1. InTools /\ pc = "tools"
    BY DEF Dispatch, StartNext, StopNext, ToolRaises,
         GrantedRaises, Acquire, ToolEnds, Process, Decide, GrantedEnds, StopBatch,
         EndIteration, InTools
  <2> QED
    BY <2>1, RunRows DEF Base, DispatchInv, CallsInv
<1>a. at <= Len(calls) => at \in DOMAIN calls
  BY <1>0
<1>b. \A i \in DOMAIN calls : i \in Nat
  BY <1>0
<1>1. CASE StartNext \/ GrantedEnds \/ \E b \in BOOLEAN : Decide(b)
  <2>1. PICK st \in {"running", "told", "granted"} :
          /\ Mark(at, st) /\ at \in DOMAIN calls /\ UNCHANGED <<Fixed, at, msgs, pc, ids>>
    BY <1>1, <1>a DEF StartNext, GrantedEnds, Decide
  <2>2. st \in CallSt
    BY DEF CallSt, Ended
  <2> QED
    BY <1>0, <2>1, <2>2, TellsMark
<1>2. ASSUME NEW i \in 1..MaxBatch,
             Acquire(i) \/ \E st \in {"told", "held"} : ToolEnds(i, st)
      PROVE  \E t : Tells(t)
  <2>1. PICK st \in {"running", "told", "held", "cut"} :
          /\ Mark(i, st) /\ i \in DOMAIN calls /\ UNCHANGED <<Fixed, at, msgs, pc, ids>>
    BY <1>2 DEF Acquire, ToolEnds
  <2>2. st \in CallSt
    BY DEF CallSt, Ended
  <2> QED
    BY <1>0, <2>1, <2>2, TellsMark
<1>3. CASE ToolRaises \/ GrantedRaises \/ StopBatch
  <2>1. UNCHANGED <<Fixed, ids, msgs>> /\ pc' = "persist"
    BY <1>3 DEF ToolRaises, GrantedRaises, StopBatch, Leave
  <2> QED
    BY <1>0, <2>1, TellsNothing DEF Fixed, InTools
<1>4. ASSUME NEW cycle \in BOOLEAN, EndIteration(cycle) PROVE \E t : Tells(t)
  <2>1. /\ UNCHANGED <<Fixed, ids, msgs>> /\ calls' = <<>> /\ pc' \in {"final", "head"}
        /\ at > Len(calls)
    BY <1>4 DEF EndIteration
  <2>2. Left = {} /\ Left' = {}
    <3>1. Left = {}
      BY <1>0, <2>1, LeftEmpty
    <3> QED
      BY <2>1, <3>1 DEF Left, InTools
  <2> QED
    BY <1>0, <2>1, <2>2, TellsNothing DEF Fixed, InTools
<1>5. CASE StopNext
  <2> DEFINE n == Len(calls) - at + 1
             t == [k \in 1..n |-> Cut(calls[at + k - 1].id)]
  <2>1. /\ UNCHANGED <<Fixed, ids>> /\ msgs' = msgs \o t /\ pc' = "persist"
        /\ at <= Len(calls)
    BY <1>5 DEF StopNext, Leave
  <2>2. n \in Nat
    BY <1>0, <2>1
  <2>3. ASSUME NEW k \in 1..n
        PROVE  /\ t[k] \in Rows(Ids) /\ Is(t[k], "tool") /\ t[k].id \in Left
               /\ at + k - 1 \in DOMAIN calls /\ t[k].id = calls[at + k - 1].id
    <3> DEFINE i == at + k - 1
               c == calls[i].id
    <3>1. i \in DOMAIN calls /\ i >= at
      BY <1>0, <2>1
    <3> HIDE DEF i
    <3>2. c \in Ids /\ c \in Left
      BY <1>0, <3>1, CallsInIds DEF Left
    <3> HIDE DEF c
    <3>3. Cut(c) \in Rows(Ids) /\ Is(Cut(c), "tool") /\ Cut(c).id = c
      BY <3>2, NewRows
    <3>4. t[k] = Cut(c)
      BY DEF c, i
    <3> HIDE DEF t
    <3> QED
      BY <3>1, <3>2, <3>3, <3>4 DEF i, c
  <2>4. DOMAIN t = 1..n /\ t \in Seq(Rows(Ids))
    <3> HIDE DEF n
    <3>1. DOMAIN t = 1..n /\ t = [k \in 1..n |-> t[k]]
      OBVIOUS
    <3> HIDE DEF t
    <3>2. t \in [1..n -> Rows(Ids)]
      BY <2>3, <3>1
    <3> QED
      BY <2>2, <3>1, <3>2
  <2> HIDE DEF t
  <2>5. AnswersOnce(t)
    <3> SUFFICES ASSUME NEW k \in 1..n, NEW l \in 1..n, t[k].id = t[l].id PROVE k = l
      BY <2>4 DEF AnswersOnce, Answers
    <3> DEFINE i == at + k - 1
               j == at + l - 1
    <3>a. i \in DOMAIN calls /\ j \in DOMAIN calls /\ calls[i].id = calls[j].id
      BY <2>3
    <3> HIDE DEF i, j
    <3>b. i = j
      BY <1>0, <3>a DEF Unique
    <3>1. at + k - 1 = at + l - 1
      BY <3>b DEF i, j
    <3> QED
      BY <1>0, <2>2, <3>1
  <2>6. Tells(t)
    BY <1>0, <2>1, <2>3, <2>4, <2>5, TellsAnswers DEF Fixed
  <2> QED
    BY <2>6
<1>6. CASE Process
  <2> DEFINE c   == calls[at].id
             row == IF IsCut(at) THEN Cut(c) ELSE Told(c)
             t   == <<row>>
  <2>1. /\ UNCHANGED <<Fixed, calls, ids, pc>> /\ at' = at + 1 /\ at \in DOMAIN calls
        /\ msgs' = Append(msgs, row)
    BY <1>6, <1>a DEF Process
  <2>2. c \in Ids /\ c \in Left
    BY <1>0, <2>1, CallsInIds DEF Left
  <2>3. Left' = Left \ {c}
    <3>1. \A j \in DOMAIN calls : j >= at + 1 => j >= at /\ j # at
      BY <1>0, <1>b
    <3>2. \A j \in DOMAIN calls : j >= at /\ j # at => j >= at + 1
      BY <1>0, <1>b
    <3>3. \A j \in DOMAIN calls : calls[j].id = calls[at].id => j = at
      BY <1>0, <2>1 DEF Unique
    <3>4. \A x : x \in Left' <=> \E j \in DOMAIN calls : j >= at + 1 /\ calls[j].id = x
      BY <1>0, <2>1 DEF Left, InTools
    <3>5. \A x : x \in Left <=> \E j \in DOMAIN calls : j >= at /\ calls[j].id = x
      BY <1>0 DEF Left
    <3>6. \A x : x \in Left' => x \in Left /\ x # c
      BY <3>1, <3>3, <3>4, <3>5
    <3>7. \A x : x \in Left /\ x # c => x \in Left'
      BY <3>2, <3>4, <3>5
    <3> QED
      BY <3>6, <3>7
  <2> HIDE DEF c
  <2>4. row \in Rows(Ids) /\ Is(row, "tool") /\ row.id = c
    BY <2>2, NewRows
  <2> HIDE DEF row
  <2>5. t \in Seq(Rows(Ids)) /\ msgs' = msgs \o t /\ DOMAIN t = {1} /\ t[1] = row
    BY <1>0, <2>1, <2>4
  <2>6. Answered(t) = {c}
    BY <2>4, OneRow
  <2> HIDE DEF t
  <2>7. AnswersOnce(t)
    BY <2>5 DEF AnswersOnce
  <2>8. CallIds' = CallIds
    BY <2>1 DEF CallIds
  <2>9. Tells(t)
    BY <1>0, <2>1, <2>2, <2>3, <2>4, <2>5, <2>6, <2>7, <2>8, TellsAnswers DEF Fixed
  <2> QED
    BY <2>9
<1> QED
  BY <1>1, <1>2, <1>3, <1>4, <1>5, <1>6 DEF Dispatch

---------------------------------------------------------------------------
(* Rows are stored, and a run begins with them.                            *)

LEMMA AllOfIt ==
    ASSUME NEW S, NEW s \in Seq(S)
    PROVE  SubSeq(s, 1, Len(s)) = s /\ Len(s) \in 0..Len(s)
<1>1. s \o <<>> = s /\ <<>> \in Seq(S) /\ Len(s) \in Nat
  OBVIOUS
<1>2. SubSeq(s \o <<>>, 1, Len(s)) = s
  BY <1>1, Rejoined
<1> QED
  BY <1>1, <1>2

LEMMA StorePromptsGrow ==
    ASSUME Base, StoreInv, StorePrompts, ids' = ids,
           NEW t \in Seq(Rows(Ids)), Mendable(t), Named(t) \subseteq 1..ids,
           Named(store) \cap Named(t) = {}, store' = store \o t,
           \A r \in Requests : phase'[r] = "loaded" => phase[r] = "loaded" /\ seen'[r] = seen[r]
    PROVE  StorePrompts' /\ Named(store) \subseteq Named(store')
                         /\ Named(store') \subseteq Named(store) \cup Named(t)
<1> DEFINE B == Ids
           s == store
<1>1. s \in Seq(Rows(B)) /\ Len(s) \in Nat
  <2>1. CutIds \subseteq Ids
    BY AgentLoopAssumption DEF CutIds, Ids, Given, Base, Scalars
  <2>2. s \in Seq(Rows(B))
    BY <2>1, RowsGrow DEF StoreInv
  <2> QED
    BY <2>2
<1>2. t \in Seq(Rows(B)) /\ Mendable(s)
  BY DEF StorePrompts
<1> HIDE DEF B, s
<1>3. Named(s) \cap Named(t) = {}
  BY DEF s
<1>4. Mendable(s \o t)
  BY <1>1, <1>2, <1>3, MendableJoins
<1>5. Called(s \o t) = Called(s) \cup Called(t) /\ Answered(s \o t) = Answered(s) \cup Answered(t)
  BY <1>1, <1>2, JoinedRows
<1>6. Named(s \o t) = Named(s) \cup Named(t)
  BY <1>5 DEF Named
<1>7. ASSUME NEW r \in Requests, phase'[r] = "loaded"
      PROVE  Mendable(SubSeq(s \o t, 1, seen'[r]))
  <2>1. phase[r] = "loaded" /\ seen'[r] = seen[r]
    BY <1>7
  <2>2. seen[r] \in 0..Len(s)
    BY <1>1 DEF Base, Scalars, StoreInv, s
  <2>3. SubSeq(s \o t, 1, seen[r]) = SubSeq(s, 1, seen[r])
    BY <1>1, <1>2, <2>2, PrefixStays
  <2>4. Mendable(SubSeq(s, 1, seen[r]))
    BY <2>1 DEF StorePrompts, s
  <2> QED
    BY <2>1, <2>3, <2>4
<1>8. store' = s \o t
  BY DEF s
<1>9. Named(s) \subseteq 1..ids
  BY DEF StorePrompts, s
<1>10. StorePrompts'
  BY <1>4, <1>6, <1>7, <1>8, <1>9 DEF StorePrompts
<1> QED
  BY <1>6, <1>8, <1>10 DEF s

LEMMA StorePromptsStay ==
    ASSUME Base, StoreInv, StorePrompts, ids' = ids, store' = store,
           \A r \in Requests : phase'[r] = "loaded" =>
              seen'[r] = Len(store) \/ (phase[r] = "loaded" /\ seen'[r] = seen[r])
    PROVE  StorePrompts'
<1>1. SubSeq(store, 1, Len(store)) = store
  BY AllOfIt DEF StoreInv
<1>2. ASSUME NEW r \in Requests, phase'[r] = "loaded" PROVE Mendable(SubSeq(store, 1, seen'[r]))
  BY <1>1, <1>2 DEF StorePrompts
<1> QED
  BY <1>2 DEF StorePrompts

(* A user's row behind the others.                                         *)
LEMMA UserPrompts ==
    ASSUME Base, StoreInv, StorePrompts, ids' = ids, NEW r \in Requests,
           store' = Append(store, User), phase'[r] # "loaded",
           \A q \in Requests : q # r => phase'[q] = phase[q] /\ seen'[q] = seen[q]
    PROVE  StorePrompts' /\ Named(store') = Named(store)
<1> DEFINE t == <<User>>
<1>1. t \in Seq(Rows(Ids)) /\ Plain(t) /\ Called(t) = {} /\ Answered(t) = {}
  BY UserRow
<1>2. store' = store \o t
  BY DEF StoreInv
<1> HIDE DEF t
<1>3. Mendable(t) /\ Named(t) = {}
  <2>1. InPlace(t)
    BY <1>1, QuietInPlace
  <2> QED
    BY <1>1, <2>1, InPlaceMendable DEF Named
<1>4. \A q \in Requests : phase'[q] = "loaded" => phase[q] = "loaded" /\ seen'[q] = seen[q]
  OBVIOUS
<1> QED
  BY <1>1, <1>2, <1>3, <1>4, StorePromptsGrow

LEMMA RunPromptsStay ==
    ASSUME RunPrompts, UNCHANGED <<msgs, from, pc, calls, at, ids>>, Named(store') = Named(store)
    PROVE  RunPrompts'
<1>1. /\ Mine' = Mine /\ Past' = Past /\ CallIds' = CallIds /\ Left' = Left /\ InTools' = InTools
  BY DEF Mine, Past, CallIds, Left, InTools
<1> QED
  BY <1>1 DEF RunPrompts

LEMMA RequestPrompts ==
    ASSUME AgentInv, PromptInv,
           Waits \/ UNCHANGED vars
    PROVE  PromptInv'
<1> USE DEF AgentInv, PromptInv
<1>0. UNCHANGED <<msgs, from, pc, calls, at, ids>>
  BY DEF Waits, LoadHistory, Queue, Cancel, MoveMark, run, vars
<1>1. ASSUME NEW r \in Requests, LoadHistory(r) PROVE PromptInv'
  <2>1. /\ store' = store /\ seen' = [seen EXCEPT ![r] = Len(store)]
        /\ phase' = [phase EXCEPT ![r] = "loaded"]
    BY <1>1 DEF LoadHistory
  <2>2. \A q \in Requests : IF q = r THEN seen'[q] = Len(store)
                            ELSE seen'[q] = seen[q] /\ phase'[q] = phase[q]
    BY <2>1 DEF Base, Scalars
  <2>3. StorePrompts'
    BY <1>0, <2>1, <2>2, StorePromptsStay
  <2> QED
    BY <1>0, <2>1, <2>3, RunPromptsStay
<1>2. ASSUME NEW r \in Requests, Queue(r) PROVE PromptInv'
  <2>1. /\ store' = Append(store, User) /\ seen' = [seen EXCEPT ![r] = 0]
        /\ phase' = [phase EXCEPT ![r] = "queued"]
    BY <1>2 DEF Queue
  <2>2. /\ \A q \in Requests : q # r => phase'[q] = phase[q] /\ seen'[q] = seen[q]
        /\ phase'[r] # "loaded"
    BY <2>1 DEF Base, Scalars
  <2>3. StorePrompts' /\ Named(store') = Named(store)
    BY <1>0, <2>1, <2>2, UserPrompts
  <2> QED
    BY <1>0, <2>3, RunPromptsStay
<1>3. CASE Cancel \/ MoveMark \/ UNCHANGED vars
  <2>1. /\ UNCHANGED <<store, seen>>
        /\ \A q \in Requests : phase'[q] = "loaded" => phase[q] = "loaded"
    BY <1>3 DEF Cancel, MoveMark, vars
  <2>2. StorePrompts'
    BY <1>0, <2>1, StorePromptsStay
  <2> QED
    BY <1>0, <2>1, <2>2, RunPromptsStay
<1> QED
  BY <1>1, <1>2, <1>3 DEF Waits

(* The rows of a skill that is injected.                                   *)
LEMMA InjectedNamed ==
    ASSUME NEW h, NEW rows \in Injected(h)
    PROVE  /\ Called(rows) \subseteq {Skill} /\ Called(rows) \subseteq Answered(rows)
           /\ Answered(rows) \subseteq {Skill}
<1> DEFINE a == <<Assistant(<<Skill>>)>>
           b == <<Told(Skill)>>
           c == a \o b
<1>0. Skill \in Ids /\ <<Skill>> \in Seq(Ids) /\ {<<Skill>>[k] : k \in DOMAIN <<Skill>>} = {Skill}
  BY DEF Ids
<1>1. a \in Seq(Rows(Ids)) /\ Answered(a) = {} /\ Called(a) = {Skill}
  BY <1>0, AnswerRow
<1>2. Told(Skill) \in {Told(Skill), Cut(Skill)} /\ Told(Skill) # Cut(Skill)
  BY DEF Told, Cut
<1>3. b \in Seq(Rows(Ids)) /\ Answered(b) = {Skill} /\ Called(b) = {}
  BY <1>0, <1>2, ResultRow
<1>4. <<Assistant(<<Skill>>), Told(Skill)>> = c
  OBVIOUS
<1> HIDE DEF a, b
<1>5. Called(c) = {Skill} /\ Answered(c) = {Skill}
  BY <1>1, <1>3, JoinedRows
<1> HIDE DEF c
<1>6. CASE rows = <<>>
  BY <1>6, NoRows
<1>7. CASE rows = c
  BY <1>5, <1>7
<1> QED
  BY <1>4, <1>6, <1>7 DEF Injected

LEMMA PromptBegins ==
    ASSUME calls = <<>>, ids' = ids, NEW r, NEW as, NEW h \in Seq(Rows(Ids)), Framed(h),
           Named(h) \subseteq Named(store'), Begin(r, as, h)
    PROVE  RunPrompts'
<1> DEFINE B == Ids
<1>1. PICK rows \in Injected(h) : msgs' = h \o <<User>> \o rows
  BY DEF Begin
<1> DEFINE w == <<User>>
           u == h \o w \o rows
           m == w \o rows
<1>2. /\ rows \in Seq(Rows(B)) /\ Plain(rows)
      /\ Called(rows) \subseteq {Skill} /\ Called(rows) \subseteq Answered(rows)
      /\ Answered(rows) \subseteq {Skill}
  BY InjectedRows, InjectedNamed
<1>3. w \in Seq(Rows(B)) /\ Len(w) = 1 /\ Plain(w) /\ Called(w) = {} /\ Answered(w) = {}
  BY UserRow
<1>4. msgs' = u /\ from' = Len(h) /\ pc' = "head"
  BY <1>1 DEF Begin
<1> HIDE DEF B, w
<1>5. SubSeq(u, 1, Len(h)) = h /\ SubSeq(u, Len(h) + 1, Len(u)) = m
  <2>1. h \in Seq(Rows(B)) /\ w \in Seq(Rows(B)) /\ Len(w) = 1 /\ rows \in Seq(Rows(B))
    BY <1>2, <1>3 DEF B
  <2>2. Begun(Rows(B), h \o w \o rows, h, w \o rows)
    BY ONLY <2>1, BegunRows
  <2> QED
    BY <2>2 DEF Begun
<1>10. Plain(m)
  BY <1>2, <1>3, PlainJoins
<1>11. Answered(m) = Answered(rows) /\ Called(m) = Called(rows)
  <2>1. w \in Seq(Rows(B)) /\ rows \in Seq(Rows(B))
    BY <1>2, <1>3
  <2>2. /\ Called(m) = Called(w) \cup Called(rows)
        /\ Answered(m) = Answered(w) \cup Answered(rows)
    BY <2>1, JoinedRows
  <2> QED
    BY <1>3, <2>2
<1> HIDE DEF u, m
<1>12. InPlace(m) /\ Named(m) = {}
  <2>1. Called(m) \subseteq {Skill} /\ Answered(m) \subseteq {Skill}
    BY <1>2, <1>11
  <2> QED
    BY <1>10, <2>1, QuietInPlace DEF Named
<1>13. Mine' = m /\ Past' = h
  BY <1>5, <1>4 DEF Mine, Past
<1>14. Left' = {} /\ ~InTools'
  BY <1>4 DEF Left, InTools
<1>15. Called(m) \subseteq Answered(m)
  BY <1>2, <1>11
<1> QED
  BY <1>4, <1>12, <1>13, <1>14, <1>15 DEF RunPrompts

LEMMA HistoryNamed ==
    ASSUME NEW B, NEW s \in Seq(Rows(B))
    PROVE  Named(History(s)) \subseteq Named(s)
<1> DEFINE v == Visible(s)
           g == Sanitize(v)
<1>1. v \in Seq(Rows(B)) /\ Called(v) = Shown(s)
  BY VisibleRows
<1> HIDE DEF v
<1>2. /\ \A c : c \in Called(g) <=> c \in Called(v) /\ c \in Answered(v)
      /\ Answered(g) \subseteq Called(g)
  BY <1>1, SanitizeSets
<1>3. Shown(s) \subseteq Called(s)
  BY Members
<1> HIDE DEF g
<1>4. Named(g) \subseteq Named(s)
  BY <1>1, <1>2, <1>3 DEF Named
<1> QED
  BY <1>4 DEF g, v, History

LEMMA RecentNamed ==
    ASSUME NEW B, NEW s \in Seq(Rows(B)), NEW n \in Nat
    PROVE  Named(Recent(s, n)) \subseteq Named(s)
<1>1. CASE Recent(s, n) = <<>>
  BY <1>1, NoRows DEF Named
<1>2. CASE Recent(s, n) = s
  BY <1>2
<1>3. ASSUME NEW k \in DOMAIN s, Recent(s, n) = SubSeq(s, k, Len(s))
      PROVE  Named(Recent(s, n)) \subseteq Named(s)
  <2> DEFINE t == SubSeq(s, k, Len(s))
  <2>1. Len(s) \in Nat /\ k \in Nat /\ k >= 1 /\ k <= Len(s)
    OBVIOUS
  <2>2. \A p \in DOMAIN t : p + k - 1 \in DOMAIN s /\ t[p] = s[p + k - 1]
    BY <2>1
  <2> HIDE DEF t
  <2>3. \A p \in DOMAIN t : \E i \in DOMAIN s : t[p] = s[i]
    BY <2>2
  <2>4. Named(t) \subseteq Named(s)
    BY <2>3, SameRows DEF Named
  <2> QED
    BY <1>3, <2>4 DEF t
<1> QED
  BY <1>1, <1>2, <1>3, RecentIs

LEMMA TurnPrompts ==
    ASSUME AgentInv, PromptInv, NEW r \in Requests, StartTurn(r)
    PROVE  PromptInv'
<1> USE DEF AgentInv, PromptInv
<1> DEFINE a == SubSeq(store, 1, seen[r])
           s == SubSeq(store, skips[r] + 1, seen[r])
           h == History(s)
<1>1. /\ phase[r] = "loaded" /\ who = NoOne /\ Begin(r, "chat", h)
      /\ store' = Append(store, User) /\ seen' = [seen EXCEPT ![r] = 0]
      /\ ids' = ids
  BY DEF StartTurn
<1>2. pc = "idle" /\ calls = <<>> /\ phase' = [phase EXCEPT ![r] = "running"]
  BY <1>1, IdleRun DEF Begin
<1>3. store \in Seq(Rows(Ids)) /\ seen[r] \in 0..Len(store) /\ Mendable(a)
  <2>1. CutIds \subseteq Ids
    BY AgentLoopAssumption DEF CutIds, Ids, Given, Base, Scalars
  <2>2. store \in Seq(Rows(Ids)) /\ Len(store) \in Nat /\ seen[r] \in Nat
    BY <2>1, RowsGrow DEF StoreInv, Base, Scalars
  <2>3. Mendable(a)
    BY <1>1 DEF StorePrompts
  <2> QED
    BY <2>2, <2>3 DEF StoreInv
<1>4. /\ a \in Seq(Rows(Ids)) /\ \A i \in DOMAIN a : i \in DOMAIN store /\ a[i] = store[i]
      /\ Opens(a, skips[r]) /\ SubSeq(a, skips[r] + 1, Len(a)) = s
  <2>1. a \in Seq(Rows(Ids))
    BY <1>3, Halves
  <2> QED
    BY <1>1, <2>1, LoadedRows DEF Base
<1> HIDE DEF a, s
<1>o. s \in Seq(Rows(Ids)) /\ Mendable(s) /\ \A p \in DOMAIN s : \E i \in DOMAIN a : s[p] = a[i]
  <2>1. /\ SubSeq(a, skips[r] + 1, Len(a)) \in Seq(Rows(Ids))
        /\ \A p \in DOMAIN SubSeq(a, skips[r] + 1, Len(a)) :
               \E i \in DOMAIN a : SubSeq(a, skips[r] + 1, Len(a))[p] = a[i]
    <3>1. a \in Seq(Rows(Ids)) /\ Opens(a, skips[r])
      BY <1>4
    <3> QED
      BY <3>1, OpenedRows, Z3
  <2>s. SubSeq(a, skips[r] + 1, Len(a)) = s
    BY <1>4
  <2>2. Mendable(s)
    BY <1>3, <1>4, OpenedMendable
  <2> QED
    BY <2>1, <2>s, <2>2
<1>5. Named(s) \subseteq Named(store)
  <2>1. Named(a) \subseteq Named(store)
    BY <1>4, SameRows DEF Named
  <2>2. Named(s) \subseteq Named(a)
    BY <1>o, SameRows DEF Named
  <2> QED
    BY <2>1, <2>2
<1>6. h \in Seq(Rows(Ids)) /\ Framed(h) /\ Named(h) \subseteq Named(s)
  BY <1>o, HistoryRows, HistoryFramed, HistoryNamed
<1> HIDE DEF h
<1>7. \A q \in Requests : q # r => phase'[q] = phase[q] /\ seen'[q] = seen[q]
  BY <1>1, <1>2 DEF Base, Scalars
<1>8. phase'[r] # "loaded"
  BY <1>2 DEF Base, Scalars
<1>9. StorePrompts' /\ Named(store') = Named(store)
  BY <1>1, <1>7, <1>8, UserPrompts
<1>10. RunPrompts'
  BY <1>1, <1>2, <1>5, <1>6, <1>9, PromptBegins
<1> QED
  BY <1>9, <1>10

LEMMA TaskPrompts ==
    ASSUME AgentInv, PromptInv, NEW r \in Requests, StartTask(r)
    PROVE  PromptInv'
<1> USE DEF AgentInv, PromptInv
<1> DEFINE s == Unmarked
           g == History(s)
           h == Recent(g, TaskTurns)
<1>1. who = NoOne /\ Begin(r, "task", h) /\ UNCHANGED <<store, seen, ids>>
  BY DEF StartTask
<1>2. pc = "idle" /\ calls = <<>> /\ phase' = [phase EXCEPT ![r] = "running"]
  BY <1>1, IdleRun DEF Begin
<1>3. store \in Seq(Rows(Ids)) /\ Mendable(store)
  <2>1. CutIds \subseteq Ids
    BY AgentLoopAssumption DEF CutIds, Ids, Given, Base, Scalars
  <2> QED
    BY <2>1, RowsGrow DEF StoreInv, StorePrompts
<1>o. s \in Seq(Rows(Ids)) /\ Mendable(s) /\ InTurn(s) /\ Named(s) \subseteq Named(store)
  <2>1. InTurn(store) /\ Opens(store, mark)
    BY DEF StoreInv, WindowInv
  <2>2. s \in Seq(Rows(Ids)) /\ InTurn(s) /\ \A p \in DOMAIN s : \E i \in DOMAIN store : s[p] = store[i]
    BY <1>3, <2>1, OpenedRows DEF Unmarked
  <2>3. Mendable(s)
    BY <1>3, <2>1, OpenedMendable DEF Unmarked
  <2> HIDE DEF s
  <2>4. Named(s) \subseteq Named(store)
    BY <2>2, SameRows DEF Named
  <2> QED
    BY <2>2, <2>3, <2>4
<1> HIDE DEF s
<1>4. g \in Seq(Rows(Ids)) /\ Framed(g) /\ Named(g) \subseteq Named(store)
      /\ Plain(g) /\ InTurn(g)
  BY <1>o, HistoryRows, HistoryFramed, HistoryNamed
<1> HIDE DEF g
<1>5. h \in Seq(Rows(Ids)) /\ Framed(h) /\ Named(h) \subseteq Named(g)
  <2>1. TaskTurns \in Nat
    BY AgentLoopAssumption
  <2> QED
    BY <1>4, <2>1, RecentRows, RecentFramed, RecentNamed
<1> HIDE DEF h
<1>6. \A q \in Requests : phase'[q] = "loaded" => phase[q] = "loaded"
  BY <1>2 DEF Base, Scalars
<1>7. StorePrompts'
  BY <1>1, <1>6, StorePromptsStay
<1>8. RunPrompts'
  BY <1>1, <1>2, <1>4, <1>5, PromptBegins
<1> QED
  BY <1>7, <1>8

(* Behind the user's row.                                                  *)
LEMMA TailMendable ==
    ASSUME NEW B, NEW s \in Seq(Rows(B)), Mendable(s), OneUser(s)
    PROVE  Tail(s) \in Seq(Rows(B)) /\ Mendable(Tail(s)) /\ Named(Tail(s)) = Named(s)
<1> DEFINE t == Tail(s)
<1>1. Len(s) \in Nat /\ Len(s) >= 1 /\ s # <<>> /\ DOMAIN s = 1..Len(s)
  BY DEF OneUser
<1>2. t \in Seq(Rows(B)) /\ DOMAIN t = 1..(Len(s) - 1) /\ \A p \in DOMAIN t : t[p] = s[p + 1]
  BY <1>1
<1>3. Named(t) = Named(s)
  BY TailRows DEF Named
<1> HIDE DEF t
<1>4. \A p \in DOMAIN t : p \in Nat /\ p + 1 \in DOMAIN s
  BY <1>1, <1>2
<1>5. Once(t)
  <2> DEFINE place == [p \in DOMAIN t |-> p + 1]
  <2>1. \A p \in DOMAIN t : place[p] \in DOMAIN s /\ t[p] = s[place[p]]
    BY <1>2, <1>4
  <2>2. \A p, q \in DOMAIN t : place[p] = place[q] => p = q
    BY <1>4
  <2> HIDE DEF place
  <2> QED
    BY <2>1, <2>2, OncePlaced DEF Mendable
<1>6. ASSUME NEW p \in DOMAIN t, Is(t[p], "tool"), t[p].id # Skill PROVE Near(t, p)
  <2>1. PICK j \in DOMAIN s :
          /\ ~Hides(s[j]) /\ t[p].id \in CallsOf(s[j])
          /\ \A m \in DOMAIN s : j < m /\ m <= p + 1 => Is(s[m], "tool") \/ Hides(s[m])
    <3>1. p + 1 \in DOMAIN s /\ t[p] = s[p + 1]
      BY <1>2, <1>4
    <3> QED
      BY <1>6, <3>1 DEF Mendable, Near
  <2>2. j # 1
    BY <2>1, OneRole DEF OneUser, CallsOf
  <2>3. j \in Nat /\ j - 1 \in DOMAIN t /\ (j - 1) + 1 = j
    BY <1>1, <1>2, <2>2
  <2>4. t[j - 1] = s[j]
    BY <1>2, <2>3
  <2>5. ASSUME NEW m \in DOMAIN t, j - 1 < m, m <= p PROVE Is(t[m], "tool") \/ Hides(t[m])
    <3>1. m + 1 \in DOMAIN s /\ t[m] = s[m + 1] /\ j < m + 1 /\ m + 1 <= p + 1
      BY <1>2, <1>4, <2>3, <2>5
    <3> QED
      BY <2>1, <3>1
  <2> QED
    BY <2>1, <2>3, <2>4, <2>5 DEF Near
<1> QED
  BY <1>2, <1>3, <1>5, <1>6 DEF Mendable, t

LEMMA StoredPrompts ==
    ASSUME Base, RunInv, PromptInv, pc = "persist"
    PROVE  Stored \in Seq(Rows(Ids)) /\ Mendable(Stored) /\ Named(Stored) \subseteq Named(Mine)
<1> DEFINE B == Ids
           T == Tail(Mine)
<1>0. kind \in {"chat", "task"} /\ outcome \in {"answered", "cancelled", "raised"}
  BY DEF Base, Scalars
<1>1. Mine \in Seq(Rows(B)) /\ OneUser(Mine) /\ Mendable(Mine)
  BY RunRows DEF RunInv, OwnRows, PromptInv, RunPrompts
<1> HIDE DEF B
<1>2. T \in Seq(Rows(B)) /\ Mendable(T) /\ Named(T) = Named(Mine)
  BY <1>1, TailMendable
<1> HIDE DEF T
<1>3. ASSUME NEW e \in {<<User, Assistant(<<>>)>>, <<Assistant(<<>>)>>, <<>>}
      PROVE  e \in Seq(Rows(B)) /\ Mendable(e) /\ Named(e) = {}
  <2> DEFINE a == <<Assistant(<<>>)>>
             u == <<User>>
  <2>1. u \in Seq(Rows(B)) /\ Plain(u) /\ Called(u) = {} /\ Answered(u) = {}
    BY UserRow
  <2>2. a \in Seq(Rows(B)) /\ Plain(a) /\ Called(a) = {} /\ Answered(a) = {}
    <3>1. <<>> \in Seq(Ids) /\ {<<>>[k] : k \in DOMAIN <<>>} = {}
      OBVIOUS
    <3> QED
      BY <3>1, AnswerRow
  <2>3. e \in {u \o a, a, <<>>}
    OBVIOUS
  <2> HIDE DEF a, u
  <2>4. Plain(u \o a) /\ Called(u \o a) = {} /\ Answered(u \o a) = {} /\ u \o a \in Seq(Rows(B))
    BY <2>1, <2>2, JoinedRows, JoinedAt
  <2>5. e \in Seq(Rows(B)) /\ Plain(e) /\ Called(e) = {} /\ Answered(e) = {}
    <3>1. CASE e = u \o a
      BY <2>4, <3>1
    <3>2. CASE e = a
      BY <2>2, <3>2
    <3>3. CASE e = <<>>
      BY <3>3, NoRows
    <3> QED
      BY <2>3, <3>1, <3>2, <3>3
  <2>6. InPlace(e)
    BY <2>5, QuietInPlace
  <2> QED
    BY <2>5, <2>6, InPlaceMendable DEF Named
<1>4. CASE kind = "task"
  <2>1. Stored = <<>> \/ Stored = Mine
    BY <1>4 DEF Stored
  <2>2. Named(<<>>) = {} /\ Mendable(<<>>) /\ <<>> \in Seq(Rows(B))
    BY NoRows, NothingOnce DEF Named
  <2> QED
    BY <1>1, <2>1, <2>2 DEF B
<1>5. CASE kind = "chat"
  <2>1. PICK e \in {<<User, Assistant(<<>>)>>, <<Assistant(<<>>)>>, <<>>} : Stored = T \o e
    BY <1>0, <1>5 DEF Stored, T
  <2>2. e \in Seq(Rows(B)) /\ Mendable(e) /\ Named(e) = {}
    BY <1>3
  <2> HIDE DEF Stored
  <2>3. Mendable(T \o e)
    <3>1. Named(T) \cap Named(e) = {}
      BY <2>2
    <3> QED
      BY <1>2, <2>2, <3>1, MendableJoins
  <2>4. Called(T \o e) = Called(T) \cup Called(e) /\ Answered(T \o e) = Answered(T) \cup Answered(e)
    BY <1>2, <2>2, JoinedRows
  <2>5. Named(T \o e) = Named(T) \cup Named(e)
    BY <2>4 DEF Named
  <2>6. T \o e \in Seq(Rows(B))
    BY <1>2, <2>2
  <2> QED
    BY <1>2, <2>1, <2>2, <2>3, <2>5, <2>6 DEF B
<1> QED
  BY <1>0, <1>4, <1>5

LEMMA EndPrompts ==
    ASSUME AgentInv, PromptInv, Persist \/ PersistFails \/ Die
    PROVE  PromptInv'
<1> USE DEF AgentInv, PromptInv
<1>1. /\ pc' = "idle" /\ ids' = ids /\ pc # "idle"
  BY DEF Persist, PersistFails, Die, EndRun, Release, Base, Scalars
<1>2. RunPrompts'
  BY <1>1 DEF RunPrompts, InTools
<1>3. \A r \in Requests : phase'[r] = "loaded" => phase[r] = "loaded" /\ seen'[r] = seen[r]
  <2>1. CASE Persist \/ PersistFails
    <3>1. seen' = seen /\ phase' = [phase EXCEPT ![who] = "done"]
      BY <2>1 DEF Persist, PersistFails, EndRun
    <3> QED
      BY <3>1 DEF Base, Scalars
  <2>2. CASE Die
    BY <2>2 DEF Die
  <2> QED
    BY <2>1, <2>2
<1>4. CASE PersistFails \/ Die
  <2>1. store' = store
    BY <1>4 DEF PersistFails, Die
  <2> QED
    BY <1>1, <1>2, <1>3, <2>1, StorePromptsStay
<1>5. CASE Persist
  <2>1. store' = store \o Stored /\ pc = "persist"
    BY <1>5 DEF Persist
  <2>2. Stored \in Seq(Rows(Ids)) /\ Mendable(Stored) /\ Named(Stored) \subseteq Named(Mine)
    BY <2>1, StoredPrompts
  <2>3. Named(Mine) \subseteq 1..ids /\ Named(Mine) \cap Named(store) = {}
    BY <1>1 DEF RunPrompts
  <2>4. Named(Stored) \subseteq 1..ids /\ Named(store) \cap Named(Stored) = {}
    BY <2>2, <2>3
  <2>5. StorePrompts'
    BY <1>1, <1>3, <2>1, <2>2, <2>4, StorePromptsGrow
  <2> QED
    BY <1>2, <2>5
<1> QED
  BY <1>4, <1>5

LEMMA InitPrompts == Init => PromptInv
<1> SUFFICES ASSUME Init PROVE PromptInv
  OBVIOUS
<1>1. store = <<>> /\ pc = "idle" /\ phase = [r \in Requests |-> "new"]
  BY DEF Init
<1>2. Named(<<>>) = {} /\ Mendable(<<>>)
  BY NoRows, NothingOnce DEF Named
<1>3. StorePrompts
  BY <1>1, <1>2 DEF StorePrompts
<1>4. RunPrompts
  BY <1>1 DEF RunPrompts, InTools
<1> QED
  BY <1>3, <1>4 DEF PromptInv

LEMMA StepPrompts ==
    ASSUME AgentInv, PromptInv, [Next]_vars
    PROVE  PromptInv'
<1>1. CASE Waits \/ UNCHANGED vars
  BY <1>1, RequestPrompts
<1>2. CASE \E r \in Requests : StartTurn(r) \/ StartTask(r)
  BY <1>2, TurnPrompts, TaskPrompts
<1>3. CASE Loop \/ Dispatch \/ TaskTimesOut
  <2>1. PICK t : Tells(t)
    BY <1>3, LoopTells, DispatchTells, TimesOutTells DEF AgentInv
  <2> QED
    BY <2>1, TellsOn DEF AgentInv
<1>4. CASE Persist \/ PersistFails \/ Die
  BY <1>4, EndPrompts
<1> QED
  BY <1>1, <1>2, <1>3, <1>4 DEF Next, Waits

LEMMA PromptsShow ==
    ASSUME AgentInv, PromptInv
    PROVE  PromptsWhole
<1> SUFFICES ASSUME Asking PROVE
        /\ \A i \in DOMAIN msgs : Is(msgs[i], "tool") /\ msgs[i].id # Skill =>
              \E j \in 1..(i - 1) :
                 /\ msgs[i].id \in CallsOf(msgs[j])
                 /\ \A k \in (j + 1)..i : Is(msgs[k], "tool")
        /\ \A c \in Called(msgs) \ {Skill} : Cardinality(Answerers(msgs, c)) = 1
  BY DEF PromptsWhole
<1> USE DEF AgentInv, PromptInv
<1>0. pc \notin {"idle", "persist"} /\ ~InTools
  BY DEF Asking, InTools
<1> DEFINE B == Ids
           p == Past
           m == Mine
           s == msgs
<1>1. s \in Seq(Rows(B)) /\ p \in Seq(Rows(B)) /\ m \in Seq(Rows(B)) /\ s = p \o m
  BY <1>0, RunRows
<1>2. /\ Framed(p) /\ Named(p) \subseteq Named(store) /\ Named(m) \cap Named(store) = {}
      /\ InPlace(m) /\ Called(m) \subseteq Answered(m) \cup Left
  BY <1>0 DEF RunPrompts
<1>3. Left = {}
  BY <1>0 DEF Left
<1> HIDE DEF B, p, m, s
<1>4. InPlace(p \o m)
  <2>1. InPlace(p) /\ Named(p) \cap Named(m) = {}
    BY <1>2 DEF Framed
  <2> QED
    BY <1>1, <1>2, <2>1, InPlaceJoins
<1>5. InPlace(s)
  BY <1>1, <1>4
<1>6. Called(s) \ {Skill} \subseteq Answered(s)
  <2>1. Called(s) = Called(p) \cup Called(m) /\ Answered(s) = Answered(p) \cup Answered(m)
    <3>1. Called(p \o m) = Called(p) \cup Called(m) /\ Answered(p \o m) = Answered(p) \cup Answered(m)
      BY <1>1, JoinedRows
    <3> QED
      BY <1>1, <3>1
  <2> QED
    BY <1>2, <1>3, <2>1 DEF Framed
<1>7. DOMAIN s = 1..Len(s) /\ Len(s) \in Nat
  BY <1>1
<1>8. ASSUME NEW i \in DOMAIN s, Is(s[i], "tool"), s[i].id # Skill
      PROVE  \E j \in 1..(i - 1) : /\ s[i].id \in CallsOf(s[j])
                                   /\ \A k \in (j + 1)..i : Is(s[k], "tool")
  <2>1. PICK j \in DOMAIN s : /\ j < i /\ s[i].id \in CallsOf(s[j])
                              /\ \A k \in DOMAIN s : j < k /\ k <= i => Is(s[k], "tool")
    BY <1>5, <1>8 DEF InPlace, Follows
  <2>2. j \in 1..(i - 1) /\ \A k \in (j + 1)..i : k \in DOMAIN s /\ j < k /\ k <= i
    BY <1>7, <2>1
  <2> QED
    BY <2>1, <2>2
<1>9. ASSUME NEW c \in Called(s), c # Skill PROVE Cardinality(Answerers(s, c)) = 1
  <2>1. c \in Answered(s)
    BY <1>6, <1>9
  <2>2. PICK i \in DOMAIN s : Is(s[i], "tool") /\ s[i].id = c
    BY <2>1, Members
  <2>3. \A j \in DOMAIN s : Is(s[j], "tool") /\ s[j].id = c => j = i
    BY <1>5, <1>9, <2>2 DEF InPlace, Once, AnswersOnce, Answers
  <2>4. Answerers(s, c) = {i}
    BY <2>2, <2>3 DEF Answerers
  <2> QED
    BY <2>4, FS_Singleton
<1> QED
  BY <1>8, <1>9 DEF s

---------------------------------------------------------------------------
(* DispatchHolds: however the tools of an answer are dispatched, their     *)
(* calls keep ids of their own, a batch is taken up in order, and what is  *)
(* cut was not taken up (dispatch_iteration_tool_calls).                   *)
THEOREM DispatchHolds == Spec => []DispatchInv
<1>1. DispatchInv /\ [Next]_vars => DispatchInv'
  BY StepDispatch
<1> QED
  BY InitDispatch, <1>1, PTL DEF Spec

(* CutNeverBegan: whatever the order of tools, cancels, approvals, faults  *)
(* and restarts, no tool that is told, or will be, as cancelled by the     *)
(* user has begun to work (loop_dispatch.py:446-458).                      *)
THEOREM CutNeverBegan == Spec => []CutNotBegun
<1>1. DispatchInv => CutNotBegun
  BY DispatchShows
<1> QED
  BY DispatchHolds, <1>1, PTL

---------------------------------------------------------------------------
(* AgentHolds: what a session stores, the rows of the run that has it, and *)
(* what its tools did keep together through every load, answer, collapse,  *)
(* cancel, fault and restart (sessions.py, loop.py, loop_dispatch.py).     *)
THEOREM AgentHolds == Spec => []AgentInv
<1>1. AgentInv /\ [Next]_vars => AgentInv'
  BY StepAgent
<1> QED
  BY InitAgent, <1>1, PTL DEF Spec

(* CancelIsHonest: no row the session keeps tells a call as cancelled that *)
(* began to work, whatever is sanitized, hidden, collapsed or stored after *)
(* the cancel (loop_dispatch.py:446-458).                                  *)
THEOREM CancelIsHonest == Spec => []CancelHonest
<1>1. AgentInv => CancelHonest
  BY AgentHonest
<1> QED
  BY AgentHolds, <1>1, PTL

(* ResultsAreKnown: what a tool did is in the stored rows or the run's,    *)
(* unless the run was lost, and a chat turn that loaded after the last run *)
(* asks the model with every result of the rows it loads, wherever the     *)
(* watermark and the trim cut (sessions.py:463-545, persist_turn).         *)
THEOREM ResultsAreKnown == Spec => []ResultsKnown
<1>1. AgentInv => ResultsKnown
  BY AgentKnows
<1> QED
  BY AgentHolds, <1>1, PTL

(* PromptsAreWhole: whatever is hidden, cut, trimmed, lost with a run that *)
(* failed or loaded before another run ended, a model is asked only with a *)
(* transcript a provider takes (sessions.py:991-1001, loop.py).            *)
THEOREM PromptsAreWhole == Spec => []PromptsWhole
<1>1. Init => AgentInv /\ PromptInv
  BY InitAgent, InitPrompts
<1>2. AgentInv /\ PromptInv /\ [Next]_vars => (AgentInv /\ PromptInv)'
  BY StepAgent, StepPrompts
<1>3. AgentInv /\ PromptInv => PromptsWhole
  BY PromptsShow
<1> QED
  BY <1>1, <1>2, <1>3, PTL DEF Spec
============================================================================
