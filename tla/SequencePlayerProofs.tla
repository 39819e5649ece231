------------------------ MODULE SequencePlayerProofs ------------------------
(***************************************************************************)
(* Theorems about SequencePlayer for any number of clips and any set of    *)
(* files: what the four ways of editing the strip do to its order, which   *)
(* clip an edit hits, and when the element that plays may run.             *)
(***************************************************************************)
EXTENDS SequencePlayer, TLAPS, SequenceTheorems, FiniteSetTheorems, WellFoundedInduction

USE PlayerAssumption

-----------------------------------------------------------------------------
(* Insertion and removal in a sequence, element by element.                *)

LEMMA InsertAtIs ==
    ASSUME NEW S, NEW s \in Seq(S), NEW k \in 1..(Len(s) + 1), NEW e \in S
    PROVE  /\ InsertAt(s, k, e) \in Seq(S)
           /\ Len(InsertAt(s, k, e)) = Len(s) + 1
           /\ \A i \in 1..(Len(s) + 1) :
                InsertAt(s, k, e)[i] = IF i < k THEN s[i] ELSE IF i = k THEN e ELSE s[i - 1]
<1> DEFINE a == SubSeq(s, 1, k - 1)
           b == SubSeq(s, k, Len(s))
<1>0. Len(s) \in Nat /\ k \in Nat /\ k >= 1 /\ k <= Len(s) + 1
  BY LenProperties
<1>1. a \in Seq(S) /\ Len(a) = k - 1 /\ \A i \in 1..(k - 1) : a[i] = s[i]
  <2>1. \A i \in 1..(k - 1) : s[i] \in S
    BY <1>0, ElementOfSeq
  <2> QED BY <1>0, <2>1, SubSeqProperties
<1>2. b \in Seq(S) /\ Len(b) = Len(s) - k + 1 /\ \A i \in 1..(Len(s) - k + 1) : b[i] = s[k + i - 1]
  <2>1. \A i \in k..Len(s) : s[i] \in S
    BY <1>0, ElementOfSeq
  <2> QED BY <1>0, <2>1, SubSeqProperties
<1>3. InsertAt(s, k, e) = (a \o <<e>>) \o b
  BY DEF InsertAt
<1> HIDE DEF a, b
<1>4. <<e>> \in Seq(S) /\ Len(<<e>>) = 1 /\ <<e>>[1] = e
  OBVIOUS
<1> DEFINE c == a \o <<e>>
<1>5. /\ c \in Seq(S) /\ Len(c) = k
      /\ \A i \in 1..k : c[i] = IF i < k THEN s[i] ELSE e
  <2>1. /\ c \in Seq(S) /\ Len(c) = k
        /\ \A i \in 1..k : c[i] = IF i <= k - 1 THEN a[i] ELSE <<e>>[i - (k - 1)]
    <3>1. Len(a) + Len(<<e>>) = k
      BY <1>0, <1>1, <1>4
    <3>2. /\ c \in Seq(S) /\ Len(c) = Len(a) + Len(<<e>>)
          /\ \A i \in 1..(Len(a) + Len(<<e>>)) :
               c[i] = IF i <= Len(a) THEN a[i] ELSE <<e>>[i - Len(a)]
      BY <1>1, <1>4, ConcatProperties
    <3> QED BY <3>1, <3>2, <1>1
  <2>2. ASSUME NEW i \in 1..k PROVE c[i] = IF i < k THEN s[i] ELSE e
    BY <1>0, <1>1, <1>4, <2>1
  <2> QED BY <2>1, <2>2
<1> HIDE DEF c
<1>6. /\ c \o b \in Seq(S) /\ Len(c \o b) = Len(s) + 1
      /\ \A i \in 1..(Len(s) + 1) : (c \o b)[i] = IF i <= k THEN c[i] ELSE b[i - k]
  <2>1. Len(c) + Len(b) = Len(s) + 1
    BY <1>0, <1>2, <1>5
  <2>2. /\ c \o b \in Seq(S) /\ Len(c \o b) = Len(c) + Len(b)
        /\ \A i \in 1..(Len(c) + Len(b)) :
             (c \o b)[i] = IF i <= Len(c) THEN c[i] ELSE b[i - Len(c)]
    BY <1>2, <1>5, ConcatProperties
  <2> QED BY <2>1, <2>2, <1>5
<1>7. ASSUME NEW i \in 1..(Len(s) + 1)
      PROVE  (c \o b)[i] = IF i < k THEN s[i] ELSE IF i = k THEN e ELSE s[i - 1]
  BY <1>0, <1>2, <1>5, <1>6
<1> QED BY <1>3, <1>6, <1>7 DEF c

LEMMA RemoveAtIs ==
    ASSUME NEW S, NEW s \in Seq(S), NEW k \in 1..Len(s)
    PROVE  /\ RemoveAt(s, k) \in Seq(S)
           /\ Len(RemoveAt(s, k)) = Len(s) - 1
           /\ \A i \in 1..(Len(s) - 1) :
                RemoveAt(s, k)[i] = IF i < k THEN s[i] ELSE s[i + 1]
<1> DEFINE a == SubSeq(s, 1, k - 1)
           b == SubSeq(s, k + 1, Len(s))
<1>0. Len(s) \in Nat /\ k \in Nat /\ k >= 1 /\ k <= Len(s)
  BY LenProperties
<1>1. a \in Seq(S) /\ Len(a) = k - 1 /\ \A i \in 1..(k - 1) : a[i] = s[i]
  <2>1. \A i \in 1..(k - 1) : s[i] \in S
    BY <1>0, ElementOfSeq
  <2> QED BY <1>0, <2>1, SubSeqProperties
<1>2. b \in Seq(S) /\ Len(b) = Len(s) - k /\ \A i \in 1..(Len(s) - k) : b[i] = s[k + i]
  <2>1. \A i \in (k + 1)..Len(s) : s[i] \in S
    BY <1>0, ElementOfSeq
  <2> QED BY <1>0, <2>1, SubSeqProperties
<1>3. RemoveAt(s, k) = a \o b
  BY DEF RemoveAt
<1> HIDE DEF a, b
<1>4. /\ a \o b \in Seq(S) /\ Len(a \o b) = Len(s) - 1
      /\ \A i \in 1..(Len(s) - 1) : (a \o b)[i] = IF i <= k - 1 THEN a[i] ELSE b[i - (k - 1)]
  <2>1. Len(a) + Len(b) = Len(s) - 1
    BY <1>0, <1>1, <1>2
  <2>2. /\ a \o b \in Seq(S) /\ Len(a \o b) = Len(a) + Len(b)
        /\ \A i \in 1..(Len(a) + Len(b)) :
             (a \o b)[i] = IF i <= Len(a) THEN a[i] ELSE b[i - Len(a)]
    BY <1>1, <1>2, ConcatProperties
  <2> QED BY <2>1, <2>2, <1>1
<1>5. ASSUME NEW i \in 1..(Len(s) - 1)
      PROVE  (a \o b)[i] = IF i < k THEN s[i] ELSE s[i + 1]
  BY <1>0, <1>1, <1>2, <1>4
<1> QED BY <1>3, <1>4, <1>5


LEMMA Minimum ==
    ASSUME NEW T \in SUBSET Nat, T # {}
    PROVE  Min(T) \in T
<1> DEFINE R == OpToRel(<, Nat)
<1>1. IsWellFoundedOn(R, Nat)
  BY NatLessThanWellFounded
<1> HIDE DEF R
<1>2. PICK x \in T : \A y \in T : ~(<<y, x>> \in R)
  BY <1>1, WFMin, Zenon
<1>3. \A y \in T : <<y, x>> \in R <=> y < x
  BY DEF R, OpToRel
<1>4. \A y \in T : ~(y < x)
  BY <1>2, <1>3, Zenon
<1>5. \A y \in T : x <= y
  BY <1>4
<1> QED BY <1>5 DEF Min

-----------------------------------------------------------------------------
(* Searching the strip                                                     *)

Ids(seq) == {seq[n].id : n \in 1..Len(seq)}

Distinct(seq) == \A m, n \in 1..Len(seq) : seq[m].id = seq[n].id => m = n

LEMMA FirstIs ==
    ASSUME NEW seq \in Seq(Entry), NEW p
    PROVE  \/ FirstWith(seq, p) = 0
           \/ FirstWith(seq, p) \in 1..Len(seq) /\ seq[FirstWith(seq, p)].path = p
<1> DEFINE I == {n \in 1..Len(seq) : seq[n].path = p}
<1>1. FirstWith(seq, p) = IF I # {} THEN Min(I) ELSE 0
  BY DEF FirstWith, SelectInSeq
<1>2. I \in SUBSET Nat
  BY LenProperties
<1>3. I # {} => Min(I) \in I
  BY <1>2, Minimum
<1> QED BY <1>1, <1>3

LEMMA PlaceIs ==
    ASSUME NEW seq \in Seq(Entry), NEW i
    PROVE  \/ PlaceOf(seq, i) = 0 /\ i \notin Ids(seq)
           \/ PlaceOf(seq, i) \in 1..Len(seq) /\ seq[PlaceOf(seq, i)].id = i
<1> DEFINE I == {n \in 1..Len(seq) : seq[n].id = i}
<1>1. PlaceOf(seq, i) = IF I # {} THEN Min(I) ELSE 0
  BY DEF PlaceOf, SelectInSeq
<1>2. I \in SUBSET Nat
  BY LenProperties
<1>3. I # {} => Min(I) \in I
  BY <1>2, Minimum
<1>4. I = {} <=> i \notin Ids(seq)
  BY DEF Ids
<1> QED BY <1>1, <1>3, <1>4

LEMMA EntryIs ==
    ASSUME NEW seq \in Seq(Entry), NEW n \in 1..Len(seq)
    PROVE  /\ seq[n] \in Entry /\ seq[n].id \in 1..MaxClips /\ seq[n].path \in Paths
           /\ seq[n].id \in Ids(seq) /\ seq # <<>> /\ Len(seq) \in Nat \ {0}
<1>1. seq[n] \in Entry
  BY ElementOfSeq
<1>2. Len(seq) \in Nat /\ Len(seq) # 0
  BY LenProperties
<1> QED BY <1>1, <1>2, EmptySeq DEF Entry, Ids

(* The clip that is selected with a path has that path.                    *)
LEMMA SeqIdIs ==
    ASSUME NEW seq \in Seq(Entry), Distinct(seq), NEW i \in 0..MaxClips, NEW p
    PROVE  /\ SeqIdFor(seq, i, p) \in Ids(seq) \cup {0}
           /\ SeqIdFor(seq, i, p) \in 0..MaxClips
           /\ \A n \in 1..Len(seq) : seq[n].id = SeqIdFor(seq, i, p) => seq[n].path = p
<1>1. CASE i # 0 /\ PlaceOf(seq, i) > 0 /\ seq[PlaceOf(seq, i)].path = p
  <2>1. PlaceOf(seq, i) \in 1..Len(seq) /\ seq[PlaceOf(seq, i)].id = i
    BY <1>1, PlaceIs
  <2>2. SeqIdFor(seq, i, p) = i
    BY <1>1 DEF SeqIdFor
  <2> QED BY <1>1, <2>1, <2>2 DEF Ids, Distinct
<1>2. CASE ~(i # 0 /\ PlaceOf(seq, i) > 0 /\ seq[PlaceOf(seq, i)].path = p) /\ FirstWith(seq, p) > 0
  <2>1. FirstWith(seq, p) \in 1..Len(seq) /\ seq[FirstWith(seq, p)].path = p
    BY <1>2, FirstIs
  <2>2. SeqIdFor(seq, i, p) = seq[FirstWith(seq, p)].id
    BY <1>2 DEF SeqIdFor
  <2> QED BY <2>1, <2>2, EntryIs DEF Distinct
<1>3. CASE ~(i # 0 /\ PlaceOf(seq, i) > 0 /\ seq[PlaceOf(seq, i)].path = p) /\ ~(FirstWith(seq, p) > 0)
  <2>1. SeqIdFor(seq, i, p) = 0
    BY <1>3 DEF SeqIdFor
  <2> QED BY <2>1, EntryIs
<1> QED BY <1>1, <1>2, <1>3

LEMMA FoundIs ==
    ASSUME NEW seq \in Seq(Entry), NEW i, NEW p, NEW index \in Nat
    PROVE  LET h == FindSelected(seq, i, p, index)
           IN  /\ h \in (-1)..(Len(seq) - 1)
               /\ h >= 0 => \/ i # 0 /\ i \in Ids(seq) /\ seq[h + 1].id = i
                            \/ ~(i # 0 /\ i \in Ids(seq)) /\ p # NoPath /\ seq[h + 1].path = p
<1>0. Len(seq) \in Nat
  BY LenProperties
<1>1. CASE i # 0 /\ PlaceOf(seq, i) > 0
  <2>1. PlaceOf(seq, i) \in 1..Len(seq) /\ seq[PlaceOf(seq, i)].id = i
    BY <1>1, PlaceIs
  <2>2. i \in Ids(seq)
    BY <2>1 DEF Ids
  <2> DEFINE h == PlaceOf(seq, i) - 1
  <2>3. h + 1 = PlaceOf(seq, i) /\ h \in (-1)..(Len(seq) - 1)
    BY <1>0, <2>1
  <2> QED BY <1>1, <2>1, <2>2, <2>3 DEF FindSelected
<1>2. CASE ~(i # 0 /\ PlaceOf(seq, i) > 0)
  <2>1. ~(i # 0 /\ i \in Ids(seq))
    BY <1>2, PlaceIs, EntryIs
  <2>2. CASE p = NoPath
    BY <1>0, <1>2, <2>1, <2>2 DEF FindSelected
  <2>3. CASE p # NoPath /\ index < Len(seq) /\ seq[index + 1].path = p
    BY <1>0, <1>2, <2>1, <2>3 DEF FindSelected
  <2>4. CASE p # NoPath /\ ~(index < Len(seq) /\ seq[index + 1].path = p)
    <3> DEFINE f == FirstWith(seq, p)
    <3>1. FindSelected(seq, i, p, index) = f - 1
      BY <1>2, <2>4 DEF FindSelected
    <3>2. f = 0 \/ (f \in 1..Len(seq) /\ seq[f].path = p)
      BY FirstIs
    <3> HIDE DEF f
    <3>3. f \in Int /\ (f - 1) + 1 = f
      BY <1>0, <3>2
    <3> QED BY <1>0, <2>1, <2>4, <3>1, <3>2, <3>3
  <2> QED BY <2>2, <2>3, <2>4
<1> QED BY <1>1, <1>2

-----------------------------------------------------------------------------
(* Editing the strip: what an edit does to the clips and to their order,   *)
(* with the exception of the clip i.                                       *)

Alike(s, t, i) ==
    \A a \in (1..MaxClips) \ {i} :
        /\ a \in Ids(s) <=> a \in Ids(t)
        /\ \A b \in (1..MaxClips) \ {i} : Before(s, a, b) <=> Before(t, a, b)

(* The clips of s other than i are found in t, at places that g names in   *)
(* ascending order.                                                        *)
Embeds(s, t, i, g) ==
    \A m \in 1..Len(s) : s[m].id # i =>
        /\ g[m] \in 1..Len(t) /\ t[g[m]] = s[m]
        /\ \A n \in 1..Len(s) : m < n /\ s[n].id # i => g[m] < g[n]

LEMMA EmbedsOrder ==
    ASSUME NEW s \in Seq(Entry), NEW t \in Seq(Entry), NEW i, NEW g, Embeds(s, t, i, g),
           NEW a \in (1..MaxClips) \ {i}, NEW b \in (1..MaxClips) \ {i}
    PROVE  /\ a \in Ids(s) => a \in Ids(t)
           /\ Before(s, a, b) => Before(t, a, b)
<1>1. ASSUME a \in Ids(s) PROVE a \in Ids(t)
  <2>1. PICK m \in 1..Len(s) : s[m].id = a
    BY <1>1 DEF Ids
  <2>2. g[m] \in 1..Len(t) /\ t[g[m]] = s[m]
    BY <2>1 DEF Embeds
  <2> QED BY <2>1, <2>2 DEF Ids
<1>2. ASSUME Before(s, a, b) PROVE Before(t, a, b)
  <2>1. PICK m \in 1..Len(s), n \in 1..Len(s) : m < n /\ s[m].id = a /\ s[n].id = b
    BY <1>2, LenProperties DEF Before
  <2>2. /\ g[m] \in 1..Len(t) /\ t[g[m]] = s[m]
        /\ g[n] \in 1..Len(t) /\ t[g[n]] = s[n]
        /\ g[m] < g[n]
    BY <2>1 DEF Embeds
  <2>3. DOMAIN t = 1..Len(t)
    BY LenProperties
  <2> QED BY <2>1, <2>2, <2>3 DEF Before
<1> QED BY <1>1, <1>2

LEMMA EmbedsAlike ==
    ASSUME NEW s \in Seq(Entry), NEW t \in Seq(Entry), NEW i, NEW f, NEW g,
           Embeds(s, t, i, f), Embeds(t, s, i, g)
    PROVE  Alike(s, t, i) /\ Alike(t, s, i)
BY EmbedsOrder, Zenon DEF Alike

LEMMA RemoveKeeps ==
    ASSUME NEW s \in Seq(Entry), Distinct(s), NEW k \in 1..Len(s)
    PROVE  LET r == RemoveAt(s, k)
           IN  /\ r \in Seq(Entry) /\ Len(r) = Len(s) - 1
               /\ Distinct(r) /\ s[k].id \notin Ids(r)
               /\ \A n \in 1..Len(r) : \E m \in 1..Len(s) : r[n] = s[m]
               /\ Alike(s, r, s[k].id)
<1> DEFINE r == RemoveAt(s, k)
           up(n) == IF n < k THEN n ELSE n + 1
           down(m) == IF m < k THEN m ELSE m - 1
<1>0. Len(s) \in Nat /\ k \in Nat
  BY LenProperties
<1>1. r \in Seq(Entry) /\ Len(r) = Len(s) - 1 /\ \A n \in 1..(Len(s) - 1) : r[n] = IF n < k THEN s[n] ELSE s[n + 1]
  BY RemoveAtIs
<1> HIDE DEF r
<1>2. \A n \in 1..Len(r) : up(n) \in 1..Len(s) /\ up(n) # k /\ r[n] = s[up(n)]
  BY <1>0, <1>1
<1>3. \A m \in 1..Len(s) : m # k => down(m) \in 1..Len(r) /\ up(down(m)) = m
  BY <1>0, <1>1
<1>4. \A m, n \in 1..Len(r) : (up(m) = up(n) => m = n) /\ (m < n => up(m) < up(n))
  BY <1>0, <1>1
<1>5. \A m, n \in 1..Len(s) : m # k /\ n # k /\ m < n => down(m) < down(n)
  BY <1>0
<1> HIDE DEF up, down
<1>6. Distinct(r)
  BY <1>2, <1>4 DEF Distinct
<1>7. s[k].id \notin Ids(r)
  <2>1. \A n \in 1..Len(s) : n # k => s[n].id # s[k].id
    BY DEF Distinct
  <2> QED BY <1>2, <2>1 DEF Ids
<1> DEFINE f == [m \in 1..Len(s) |-> down(m)]
           g == [n \in 1..Len(r) |-> up(n)]
<1>8. Embeds(s, r, s[k].id, f)
  <2> SUFFICES ASSUME NEW m \in 1..Len(s), s[m].id # s[k].id
               PROVE  /\ f[m] \in 1..Len(r) /\ r[f[m]] = s[m]
                      /\ \A n \in 1..Len(s) : m < n /\ s[n].id # s[k].id => f[m] < f[n]
    BY DEF Embeds
  <2>1. m # k /\ \A n \in 1..Len(s) : s[n].id # s[k].id => n # k
    OBVIOUS
  <2>2. f[m] \in 1..Len(r) /\ r[f[m]] = s[m]
    BY <1>2, <1>3, <2>1
  <2> QED BY <1>5, <2>1, <2>2
<1>9. Embeds(r, s, s[k].id, g)
  BY <1>2, <1>4 DEF Embeds
<1>10. Alike(s, r, s[k].id)
  BY <1>1, <1>8, <1>9, EmbedsAlike
<1> QED BY <1>1, <1>2, <1>6, <1>7, <1>10 DEF r

LEMMA InsertKeeps ==
    ASSUME NEW s \in Seq(Entry), Distinct(s), NEW k \in 1..(Len(s) + 1),
           NEW e \in Entry, e.id \notin Ids(s)
    PROVE  LET t == InsertAt(s, k, e)
           IN  /\ t \in Seq(Entry) /\ Len(t) = Len(s) + 1
               /\ Distinct(t) /\ \A n \in 1..Len(t) : t[n] = e \/ \E m \in 1..Len(s) : t[n] = s[m]
               /\ Alike(s, t, e.id)
<1> DEFINE t == InsertAt(s, k, e)
           up(n) == IF n < k THEN n ELSE n + 1
           down(m) == IF m < k THEN m ELSE m - 1
<1>0. Len(s) \in Nat /\ k \in Nat
  BY LenProperties
<1>1. /\ t \in Seq(Entry) /\ Len(t) = Len(s) + 1
      /\ \A n \in 1..(Len(s) + 1) : t[n] = IF n < k THEN s[n] ELSE IF n = k THEN e ELSE s[n - 1]
  BY InsertAtIs
<1> HIDE DEF t
<1>2. \A n \in 1..Len(t) : n # k => down(n) \in 1..Len(s) /\ t[n] = s[down(n)]
  BY <1>0, <1>1
<1>3. k \in 1..Len(t) /\ t[k] = e
  BY <1>0, <1>1
<1>4. \A n \in 1..Len(s) : up(n) \in 1..Len(t) /\ up(n) # k /\ down(up(n)) = n
  BY <1>0, <1>1
<1>5. /\ \A m, n \in 1..Len(t) : m # k /\ n # k => /\ (down(m) = down(n) => m = n)
                                                  /\ (m < n => down(m) < down(n))
      /\ \A m, n \in 1..Len(s) : m < n => up(m) < up(n)
  BY <1>0, <1>1
<1> HIDE DEF up, down
<1>6. \A n \in 1..Len(t) : n # k <=> t[n].id # e.id
  <2>1. ASSUME NEW n \in 1..Len(t), n # k PROVE t[n].id # e.id
    <3>1. down(n) \in 1..Len(s) /\ t[n] = s[down(n)]
      BY <1>2, <2>1
    <3>2. t[n].id \in Ids(s)
      BY <3>1, EntryIs
    <3> QED BY <3>2
  <2> QED BY <1>3, <2>1
<1>7. Distinct(t)
  <2> SUFFICES ASSUME NEW m \in 1..Len(t), NEW n \in 1..Len(t), t[m].id = t[n].id
               PROVE  m = n
    BY DEF Distinct
  <2>1. CASE m = k \/ n = k
    BY <1>3, <1>6, <2>1
  <2>2. CASE m # k /\ n # k
    <3>1. /\ down(m) \in 1..Len(s) /\ t[m] = s[down(m)]
          /\ down(n) \in 1..Len(s) /\ t[n] = s[down(n)]
      BY <1>2, <2>2
    <3>2. down(m) = down(n)
      BY <3>1 DEF Distinct
    <3> QED BY <1>5, <2>2, <3>2
  <2> QED BY <2>1, <2>2
<1> DEFINE f == [m \in 1..Len(s) |-> up(m)]
           g == [n \in 1..Len(t) |-> down(n)]
<1>8. Embeds(s, t, e.id, f)
  BY <1>2, <1>4, <1>5 DEF Embeds
<1>9. Embeds(t, s, e.id, g)
  <2> SUFFICES ASSUME NEW m \in 1..Len(t), t[m].id # e.id
               PROVE  /\ g[m] \in 1..Len(s) /\ s[g[m]] = t[m]
                      /\ \A n \in 1..Len(t) : m < n /\ t[n].id # e.id => g[m] < g[n]
    BY DEF Embeds
  <2>1. m # k
    BY <1>6
  <2> QED BY <1>2, <1>5, <1>6, <2>1
<1>10. Alike(s, t, e.id)
  BY <1>1, <1>8, <1>9, EmbedsAlike
<1> QED BY <1>1, <1>2, <1>3, <1>7, <1>10 DEF t

(* A reorder takes a clip out and puts it back.                            *)
LEMMA MovedKeeps ==
    ASSUME NEW s \in Seq(Entry), Distinct(s),
           NEW from \in 0..(Len(s) - 1), NEW to \in 0..(Len(s) - 1)
    PROVE  LET t == Moved(s, from, to)
           IN  /\ t \in Seq(Entry) /\ Len(t) = Len(s)
               /\ Distinct(t) /\ \A n \in 1..Len(t) : \E m \in 1..Len(s) : t[n] = s[m]
               /\ Alike(s, t, s[from + 1].id)
<1> DEFINE r == RemoveAt(s, from + 1)
           t == InsertAt(r, to + 1, s[from + 1])
<1>0. Len(s) \in Nat /\ from + 1 \in 1..Len(s) /\ s[from + 1] \in Entry
  <2>1. Len(s) \in Nat /\ from + 1 \in 1..Len(s)
    BY LenProperties
  <2> QED BY <2>1, ElementOfSeq
<1>1. /\ r \in Seq(Entry) /\ Len(r) = Len(s) - 1
      /\ Distinct(r) /\ s[from + 1].id \notin Ids(r)
      /\ \A n \in 1..Len(r) : \E m \in 1..Len(s) : r[n] = s[m]
      /\ Alike(s, r, s[from + 1].id)
  BY <1>0, RemoveKeeps
<1> HIDE DEF r
<1>2. to + 1 \in 1..(Len(r) + 1) /\ Len(r) + 1 = Len(s)
  BY <1>0, <1>1
<1>3. /\ t \in Seq(Entry) /\ Len(t) = Len(r) + 1
      /\ Distinct(t) /\ \A n \in 1..Len(t) : t[n] = s[from + 1] \/ \E m \in 1..Len(r) : t[n] = r[m]
      /\ Alike(r, t, s[from + 1].id)
  BY <1>0, <1>1, <1>2, InsertKeeps
<1> HIDE DEF t
<1>4. Moved(s, from, to) = t
  BY DEF Moved, t, r
<1>5. Alike(s, t, s[from + 1].id)
  BY <1>1, <1>3 DEF Alike
<1>6. \A n \in 1..Len(t) : \E m \in 1..Len(s) : t[n] = s[m]
  BY <1>0, <1>1, <1>3
<1> QED BY <1>2, <1>3, <1>4, <1>5, <1>6
-----------------------------------------------------------------------------
(* The player                                                              *)

(* The same of the strip that a move leaves.                               *)
LEMMA StripMoved ==
    ASSUME NEW s \in Seq(Entry), Distinct(s),
           NEW from \in 0..(Len(s) - 1), NEW to \in 0..(Len(s) - 1),
           NEW t, t = Moved(s, from, to)
    PROVE  t \in Seq(Entry) /\ Distinct(t) /\ \A n \in 1..Len(t) : \E m \in 1..Len(s) : t[n] = s[m]
BY MovedKeeps

(* An element that runs either counts as playing or has the play event     *)
(* that will say so as the last task of the queue.                         *)
Starts(pb) ==
    ~pb.video.paused /\ ~pb.video.failed =>
        IF pb.tasks = <<>> THEN pb.playing ELSE pb.tasks[Len(pb.tasks)] = "play"

Tasks == Seq({"play", "reject"})

LEMMA PlayerIs ==
    /\ NoVideo \in Video
    /\ \A pb \in Player :
         /\ pb.index \in Nat /\ pb.playing \in BOOLEAN /\ pb.loop \in BOOLEAN
         /\ pb.video \in Video /\ pb.tasks \in Tasks
         /\ pb.video.path \in Paths \cup {NoPath} /\ pb.video.paused \in BOOLEAN
         /\ pb.video.waiting \in BOOLEAN /\ pb.video.ended \in BOOLEAN
         /\ pb.video.failed \in BOOLEAN
BY DEF NoVideo, Video, Player, Tasks

LEMMA TasksIs ==
    ASSUME NEW s \in Tasks, NEW t \in {"play", "reject"}
    PROVE  /\ Append(s, t) \in Tasks /\ Append(s, t) # <<>>
           /\ Append(s, t)[Len(Append(s, t))] = t
           /\ s \o <<t>> \in Tasks /\ s \o <<t>> # <<>>
           /\ (s \o <<t>>)[Len(s \o <<t>>)] = t
           /\ s \o <<>> = s
<1>1. /\ Append(s, t) \in Tasks /\ Append(s, t) # <<>> /\ Append(s, t)[Len(Append(s, t))] = t
  BY DEF Tasks
<1>2. s \o <<t>> = Append(s, t)
  BY DEF Tasks
<1>3. s \o <<>> = s
  BY ConcatEmptySeq DEF Tasks
<1> QED BY <1>1, <1>2, <1>3

LEMMA RejectionsIs ==
    ASSUME NEW s \in Tasks
    PROVE  Rejections(s) \in Tasks
<1> DEFINE I == {i \in DOMAIN s : s[i] = "reject"}
           r == [n \in 1..Cardinality(I) |-> "reject"]
<1>1. DOMAIN s = 1..Len(s) /\ Len(s) \in Nat
  BY LenProperties DEF Tasks
<1>2. IsFiniteSet(1..Len(s))
  BY <1>1, FS_Interval
<1>3. IsFiniteSet(I) /\ Cardinality(I) \in Nat
  BY <1>1, <1>2, FS_Subset, FS_CardinalityType
<1> HIDE DEF I
<1>4. r \in Seq({"play", "reject"})
  BY <1>3
<1> QED BY <1>4 DEF Rejections, Tasks, I

LEMMA DetachedIs ==
    ASSUME NEW pb \in Player
    PROVE  /\ Detached(pb) \in Player
           /\ Detached(pb).video = NoVideo
<1> DEFINE r == Rejections(pb.tasks)
           q == r \o (IF pb.video.waiting THEN <<"reject">> ELSE <<>>)
<1>1. pb.tasks \in Tasks /\ r \in Tasks
  BY PlayerIs, RejectionsIs
<1>2. q \in Tasks
  BY <1>1, TasksIs
<1> HIDE DEF q
<1>3. Detached(pb) = [pb EXCEPT !.video = NoVideo, !.tasks = q]
  BY DEF Detached, Player, q
<1>4. Detached(pb) = [index |-> pb.index, playing |-> pb.playing, loop |-> pb.loop,
                      video |-> NoVideo, tasks |-> q]
  BY <1>3 DEF Player
<1>5. Detached(pb) \in Player
  BY <1>2, <1>4, PlayerIs DEF Player, Tasks
<1>6. Detached(pb).video = NoVideo
  BY <1>4
<1> QED BY <1>5, <1>6

LEMMA StoppedIs ==
    ASSUME NEW pb \in Player
    PROVE  Stopped(pb) \in Player /\ Starts(Stopped(pb))
<1> DEFINE d == Detached(pb)
<1>1. d \in Player /\ d.video = NoVideo
  BY DetachedIs
<1>2. Stopped(pb) = [d EXCEPT !.playing = FALSE, !.index = 0]
  BY DEF Stopped
<1> HIDE DEF d
<1>3. Stopped(pb) = [index |-> 0, playing |-> FALSE, loop |-> d.loop,
                     video |-> NoVideo, tasks |-> d.tasks]
  BY <1>1, <1>2 DEF Player
<1>4. Stopped(pb).video = NoVideo
  BY <1>3
<1>5. Stopped(pb) \in Player
  BY <1>1, <1>3, PlayerIs DEF Player, Tasks
<1>6. NoVideo.paused
  BY DEF NoVideo
<1> QED BY <1>4, <1>5, <1>6 DEF Starts

LEMMA PreviewedIs ==
    ASSUME NEW pb \in Player, Starts(pb)
    PROVE  Previewed(pb) \in Player /\ Starts(Previewed(pb))
<1>1. CASE pb.playing
  BY <1>1 DEF Previewed
<1>2. CASE ~pb.playing
  <2> DEFINE v == [pb.video EXCEPT !.shown = FALSE, !.paused = TRUE, !.waiting = FALSE]
             q == IF pb.video.waiting THEN Append(pb.tasks, "reject") ELSE pb.tasks
  <2>1. v \in Video /\ v.paused /\ q \in Tasks
    <3>1. v \in Video /\ v.paused
      BY PlayerIs DEF Video
    <3>2. q \in Tasks
      BY PlayerIs, TasksIs
    <3> QED BY <3>1, <3>2
  <2>2. Previewed(pb) = [pb EXCEPT !.video = v, !.tasks = q]
    BY <1>2, PlayerIs DEF Previewed, Player, Video
  <2> HIDE DEF v, q
  <2> QED BY <2>1, <2>2 DEF Player, Tasks, Starts
<1> QED BY <1>1, <1>2

LEMMA IndexedIs ==
    ASSUME NEW pb \in Player, NEW k \in Nat
    PROVE  /\ [pb EXCEPT !.index = k] \in Player
           /\ Starts(pb) <=> Starts([pb EXCEPT !.index = k])
BY DEF Player, Starts

LEMMA LoadedIs ==
    ASSUME NEW pb \in Player, NEW seq \in Seq(Entry), seq # <<>>, NEW i \in Nat,
           NEW autoplay \in BOOLEAN, NEW allowed \in BOOLEAN
    PROVE  LET pb2 == Loaded(pb, seq, i, autoplay, allowed)
           IN  /\ pb2 \in Player /\ Starts(pb2)
               /\ pb2.video.path \in Paths
               /\ ~pb2.video.ended /\ ~pb2.video.failed
               /\ pb2.video.paused \/ pb2.tasks # <<>>
<1> DEFINE at == IF i < Len(seq) THEN i ELSE Len(seq) - 1
           starts == autoplay /\ allowed
           b == [pb EXCEPT !.index = at]
           base == Detached(b)
           v == [NoVideo EXCEPT !.path = seq[at + 1].path, !.shown = TRUE,
                                !.paused = ~starts, !.waiting = starts]
           q == base.tasks \o (IF starts THEN <<"play">>
                               ELSE IF autoplay THEN <<"reject">> ELSE <<>>)
           pb2 == [base EXCEPT !.playing = autoplay \/ @, !.video = v, !.tasks = q]
<1>1. Len(seq) \in Nat \ {0}
  BY EmptySeq
<1>2. at \in Nat /\ at + 1 \in 1..Len(seq)
  BY <1>1
<1>3. seq[at + 1].path \in Paths
  BY <1>2, EntryIs
<1> HIDE DEF at
<1>4. b \in Player
  BY <1>2, IndexedIs
<1> HIDE DEF b
<1>5. base \in Player
  BY <1>4, DetachedIs
<1> HIDE DEF base
<1>6. /\ v \in Video /\ v.path \in Paths /\ ~v.ended /\ ~v.failed
      /\ v.paused <=> ~starts
  BY <1>3 DEF NoVideo, Video
<1> HIDE DEF v
<1>7. q \in Tasks /\ (starts => q # <<>> /\ q[Len(q)] = "play")
  <2>1. base.tasks \in Tasks
    BY <1>5, PlayerIs
  <2> QED BY <2>1, TasksIs
<1> HIDE DEF q
<1>8. /\ pb2 \in Player /\ pb2.video = v /\ pb2.tasks = q
  BY <1>5, <1>6, <1>7 DEF Player, Tasks
<1>9. Starts(pb2)
  BY <1>6, <1>7, <1>8 DEF Starts
<1>10. Loaded(pb, seq, i, autoplay, allowed) = pb2
  BY DEF Loaded, q, v, base, b, at
<1> HIDE DEF pb2
<1> QED BY <1>6, <1>7, <1>8, <1>9, <1>10
-----------------------------------------------------------------------------
(* The inductive invariant                                                 *)

(* Ids are given out in ascending order and never twice.                   *)
IdsUsed == /\ selectedSeqId < nextSeqId
           /\ \A a \in Ids(sequence) : a < nextSeqId

(* The clip that selectedSeqId names has the path that is selected.        *)
Named ==
    selectedPath # NoPath =>
        \A n \in 1..Len(sequence) :
            sequence[n].id = selectedSeqId => sequence[n].path = selectedPath

Strip ==
    /\ sequence \in Seq(Entry) /\ nextSeqId \in 1..(MaxClips + 1)
    /\ selectedPath \in Paths \cup {NoPath} /\ selectedSeqId \in 0..MaxClips
    /\ Distinct(sequence) /\ IdsUsed /\ Named

Shows == playback \in Player /\ Starts(playback)

IInv == Strip /\ Shows

LEMMA InitIInv == Init => IInv
<1> SUFFICES ASSUME Init PROVE IInv
  OBVIOUS
<1>1. sequence \in Seq(Entry) /\ Len(sequence) = 0 /\ Ids(sequence) = {}
  BY DEF Init, Ids
<1>2. Strip
  BY <1>1 DEF Init, Strip, Distinct, IdsUsed, Named
<1>3. <<>> \in Tasks /\ NoVideo \in Video /\ NoVideo.paused
  BY PlayerIs, EmptySeq DEF Tasks, NoVideo
<1>4. playback = [index |-> 0, playing |-> FALSE, loop |-> FALSE,
                  video |-> NoVideo, tasks |-> <<>>]
  BY DEF Init
<1>5. playback \in Player /\ playback.video = NoVideo
  BY <1>3, <1>4 DEF Player, Tasks
<1> QED BY <1>2, <1>3, <1>5 DEF IInv, Shows, Starts

(* A clip is selected over the strip as it then is.                        *)
LEMMA Chosen ==
    ASSUME sequence' \in Seq(Entry), nextSeqId' \in 1..(MaxClips + 1), Distinct(sequence'),
           \A a \in Ids(sequence') : a < nextSeqId',
           NEW i \in 0..MaxClips, NEW p \in Paths,
           selectedPath' = p, selectedSeqId' = SeqIdFor(sequence', i, p)
    PROVE  Strip'
<1>1. /\ selectedSeqId' \in Ids(sequence') \cup {0} /\ selectedSeqId' \in 0..MaxClips
      /\ \A n \in 1..Len(sequence') : sequence'[n].id = selectedSeqId' => sequence'[n].path = p
  BY SeqIdIs
<1>2. selectedSeqId' < nextSeqId'
  BY <1>1
<1> QED BY <1>1, <1>2 DEF Strip, IdsUsed, Named

(* The clips are among those that were there.                              *)
LEMMA Fewer ==
    ASSUME Strip, NEW t \in Seq(Entry),
           \A n \in 1..Len(t) : \E m \in 1..Len(sequence) : t[n] = sequence[m]
    PROVE  \A a \in Ids(t) : a < nextSeqId
BY DEF Strip, IdsUsed, Ids

LEMMA MoveSelectedIs ==
    ASSUME Len(sequence) \in Nat, Here \in 0..(Len(sequence) - 1),
           NEW a \in {"start", "left", "right", "end"}, MoveSelected(a)
    PROVE  \E to \in 0..(Len(sequence) - 1) :
             /\ sequence' = Moved(sequence, Here, to)
             /\ playback' = [playback EXCEPT !.index = to]
<1> DEFINE to == CASE a = "start" -> 0
                 [] a = "end" -> Len(sequence) - 1
                 [] a = "left" -> IF Here = 0 THEN 0 ELSE Here - 1
                 [] a = "right" -> IF Here + 1 < Len(sequence) THEN Here + 1 ELSE Here
<1>1. sequence' = Moved(sequence, Here, to) /\ playback' = [playback EXCEPT !.index = to]
  BY DEF MoveSelected
<1>2. to \in 0..(Len(sequence) - 1)
  <2>1. CASE a = "start"
    BY <2>1
  <2>2. CASE a = "end"
    BY <2>2
  <2>3. CASE a = "left"
    BY <2>3
  <2>4. CASE a = "right"
    BY <2>4
  <2> QED BY <2>1, <2>2, <2>3, <2>4
<1> QED BY <1>1, <1>2

LEMMA KeyFromIs ==
    ASSUME sequence \in Seq(Entry), playback.index \in Nat, Len(sequence) \in Nat,
           NEW d \in {-1, 1}, KeyFrom + d \in 0..(Len(sequence) - 1)
    PROVE  KeyFrom \in 0..(Len(sequence) - 1)
<1>1. Here \in (-1)..(Len(sequence) - 1)
  BY FoundIs DEF Here
<1>2. KeyFrom \in Nat /\ (KeyFrom = 0 \/ KeyFrom = Here) /\ Len(sequence) > 0
  BY <1>1 DEF KeyFrom
<1> QED BY <1>1, <1>2

LEMMA StripStepStrip ==
    ASSUME IInv, StripStep
    PROVE  Strip'
<1> USE DEF IInv, Strip
<1>0. Len(sequence) \in Nat /\ playback.index \in Nat
  BY LenProperties, PlayerIs DEF Shows
<1>1. ASSUME NEW p \in Paths, NEW at \in 0..Len(sequence), AddClip(p, at) PROVE Strip'
  <2> DEFINE e == [id |-> nextSeqId, path |-> p]
  <2>1. e \in Entry /\ e.id = nextSeqId /\ nextSeqId' = nextSeqId + 1 /\ nextSeqId' \in 1..(MaxClips + 1)
    BY <1>1 DEF AddClip, Entry
  <2> HIDE DEF e
  <2>2. nextSeqId \notin Ids(sequence)
    BY DEF IdsUsed
  <2>3. sequence' = InsertAt(sequence, at + 1, e) /\ at + 1 \in 1..(Len(sequence) + 1)
    BY <1>0, <1>1 DEF AddClip, e
  <2>4. /\ sequence' \in Seq(Entry) /\ Distinct(sequence')
        /\ \A n \in 1..Len(sequence') :
             sequence'[n] = e \/ \E m \in 1..Len(sequence) : sequence'[n] = sequence[m]
    BY <2>1, <2>2, <2>3, InsertKeeps
  <2>5. \A a \in Ids(sequence') : a < nextSeqId'
    <3> SUFFICES ASSUME NEW n \in 1..Len(sequence') PROVE sequence'[n].id < nextSeqId'
      BY DEF Ids
    <3>1. CASE sequence'[n] = e
      BY <2>1, <3>1
    <3>2. ASSUME NEW m \in 1..Len(sequence), sequence'[n] = sequence[m]
          PROVE  sequence'[n].id < nextSeqId'
      BY <2>1, <3>2, EntryIs DEF IdsUsed
    <3> QED BY <2>4, <3>1, <3>2
  <2>6. selectedPath' = p /\ selectedSeqId' = SeqIdFor(sequence', selectedSeqId, p)
    BY <1>1 DEF AddClip, Select
  <2> QED BY <2>1, <2>4, <2>5, <2>6, Chosen
<1>2. ASSUME NEW k \in Positions, RemoveClip(k) PROVE Strip'
  <2>1. k + 1 \in 1..Len(sequence) /\ sequence' = RemoveAt(sequence, k + 1)
    BY <1>0, <1>2 DEF Positions, RemoveClip
  <2>2. /\ sequence' \in Seq(Entry) /\ Distinct(sequence')
        /\ \A n \in 1..Len(sequence') : \E m \in 1..Len(sequence) : sequence'[n] = sequence[m]
    <3>1. sequence \in Seq(Entry) /\ Distinct(sequence)
      OBVIOUS
    <3> HIDE DEF IInv, Strip
    <3> QED BY <2>1, <3>1, RemoveKeeps
  <2>3. \A a \in Ids(sequence') : a < nextSeqId
    BY <2>2, Fewer
  <2> QED BY <1>2, <2>2, <2>3 DEF RemoveClip, IdsUsed, Named
<1>3. CASE ClearSequence
  <2>1. sequence' \in Seq(Entry) /\ Len(sequence') = 0 /\ Ids(sequence') = {}
    BY <1>3 DEF ClearSequence, Ids
  <2> QED BY <1>3, <2>1 DEF ClearSequence, Distinct, IdsUsed, Named
<1>4. ASSUME NEW from \in Positions, NEW at \in 0..Len(sequence), DropToken(from, at) PROVE Strip'
  <2> DEFINE to == DroppedAt(from, at)
  <2>1. from \in 0..(Len(sequence) - 1) /\ to \in 0..(Len(sequence) - 1)
    BY <1>0, <1>4 DEF Positions, DroppedAt
  <2>2. sequence' = Moved(sequence, from, to)
    BY <1>4 DEF DropToken
  <2> HIDE DEF to
  <2>3. /\ sequence' \in Seq(Entry) /\ Distinct(sequence')
        /\ \A n \in 1..Len(sequence') : \E m \in 1..Len(sequence) : sequence'[n] = sequence[m]
    <3>1. sequence \in Seq(Entry) /\ Distinct(sequence)
      OBVIOUS
    <3> HIDE DEF IInv, Strip
    <3> QED BY <2>1, <2>2, <3>1, StripMoved
  <2>4. \A a \in Ids(sequence') : a < nextSeqId
    BY <2>3, Fewer
  <2>5. from + 1 \in 1..Len(sequence) /\ sequence[from + 1].path \in Paths
    BY <1>0, <2>1, EntryIs
  <2>6. /\ selectedPath' = sequence[from + 1].path /\ nextSeqId' = nextSeqId
        /\ selectedSeqId' = SeqIdFor(sequence', selectedSeqId, sequence[from + 1].path)
    BY <1>4 DEF DropToken, Select
  <2> QED BY <2>3, <2>4, <2>5, <2>6, Chosen
<1>5. ASSUME NEW k \in Positions, ClickToken(k) PROVE Strip'
  <2>1. k + 1 \in 1..Len(sequence)
    BY <1>0, <1>5 DEF Positions
  <2>2. sequence[k + 1].path \in Paths /\ sequence[k + 1].id \in 0..MaxClips
    BY <2>1, EntryIs
  <2>3. /\ selectedPath' = sequence[k + 1].path /\ UNCHANGED <<sequence, nextSeqId>>
        /\ selectedSeqId' = SeqIdFor(sequence', sequence[k + 1].id, sequence[k + 1].path)
    BY <1>5 DEF ClickToken, Select
  <2> QED BY <2>2, <2>3, Chosen DEF IdsUsed
<1>6. ASSUME NEW a \in {"start", "left", "right", "end"}, MoveSelected(a) PROVE Strip'
  <2>1. Here \in (-1)..(Len(sequence) - 1) /\ Here >= 0 /\ Len(sequence) >= 2
    BY <1>0, <1>6, FoundIs DEF Here, MoveSelected
  <2>2. PICK to \in 0..(Len(sequence) - 1) : sequence' = Moved(sequence, Here, to)
    <3>1. Here \in 0..(Len(sequence) - 1)
      BY <2>1
    <3> QED BY <1>0, <1>6, <3>1, MoveSelectedIs
  <2>3. /\ sequence' \in Seq(Entry) /\ Distinct(sequence')
        /\ \A n \in 1..Len(sequence') : \E m \in 1..Len(sequence) : sequence'[n] = sequence[m]
    <3>1. Here \in 0..(Len(sequence) - 1)
      BY <2>1
    <3> QED BY <2>2, <3>1, StripMoved
  <2>4. \A b \in Ids(sequence') : b < nextSeqId
    BY <2>3, Fewer
  <2>5. Here + 1 \in 1..Len(sequence) /\ sequence[Here + 1].path \in Paths
    BY <1>0, <2>1, EntryIs
  <2>6. selectedPath' = sequence[Here + 1].path /\ UNCHANGED <<nextSeqId, selectedSeqId>>
    BY <1>6 DEF MoveSelected
  <2>7. \A m \in 1..Len(sequence) : sequence[m].id = selectedSeqId =>
            sequence[m].path = sequence[Here + 1].path
    <3> SUFFICES ASSUME NEW m \in 1..Len(sequence), sequence[m].id = selectedSeqId
                 PROVE  m = Here + 1
      OBVIOUS
    <3>1. selectedSeqId # 0 /\ selectedSeqId \in Ids(sequence)
      BY EntryIs DEF Ids
    <3>2. sequence[Here + 1].id = selectedSeqId
      BY <1>0, <2>1, <3>1, FoundIs DEF Here
    <3> QED BY <2>5, <3>2 DEF Distinct
  <2> QED BY <2>3, <2>4, <2>5, <2>6, <2>7 DEF IdsUsed, Named
<1>7. Here \in (-1)..(Len(sequence) - 1) /\ KeyFrom \in Nat
  BY <1>0, FoundIs DEF Here, KeyFrom
<1>8. ASSUME NEW d \in {-1, 1}, KeyMove(d) PROVE Strip'
  <2> DEFINE from == KeyFrom
             to == KeyFrom + d
  <2>0. to \in 0..(Len(sequence) - 1)
    BY <1>8 DEF KeyMove
  <2>1. from \in 0..(Len(sequence) - 1) /\ to \in 0..(Len(sequence) - 1)
    BY <1>0, <2>0, KeyFromIs
  <2>2. sequence' = Moved(sequence, from, to)
    BY <1>8 DEF KeyMove
  <2>3. /\ selectedSeqId' = sequence[from + 1].id /\ selectedPath' = sequence[from + 1].path
        /\ nextSeqId' = nextSeqId
    BY <1>8 DEF KeyMove
  <2> HIDE DEF from, to
  <2>4. /\ sequence' \in Seq(Entry) /\ Distinct(sequence')
        /\ \A n \in 1..Len(sequence') : \E m \in 1..Len(sequence) : sequence'[n] = sequence[m]
    <3>1. sequence \in Seq(Entry) /\ Distinct(sequence)
      OBVIOUS
    <3> HIDE DEF IInv, Strip
    <3> QED BY <2>1, <2>2, <3>1, StripMoved
  <2>5. \A b \in Ids(sequence') : b < nextSeqId
    BY <2>4, Fewer
  <2>6. from + 1 \in 1..Len(sequence)
    BY <1>0, <2>1
  <2>7. /\ sequence[from + 1].path \in Paths /\ sequence[from + 1].id \in 1..MaxClips
        /\ sequence[from + 1].id < nextSeqId
    BY <2>6, EntryIs DEF IdsUsed
  <2>8. \A n \in 1..Len(sequence') : sequence'[n].id = sequence[from + 1].id =>
            sequence'[n].path = sequence[from + 1].path
    BY <2>4, <2>6 DEF Distinct
  <2> QED BY <2>3, <2>4, <2>5, <2>7, <2>8 DEF IdsUsed, Named
<1>9. ASSUME NEW d \in {-1, 1}, KeySelect(d) PROVE Strip'
  <2> DEFINE k == KeyFrom + d
  <2>1. k + 1 \in 1..Len(sequence)
    BY <1>0, <1>7, <1>9 DEF KeySelect
  <2>2. /\ selectedPath' = sequence[k + 1].path /\ UNCHANGED <<sequence, nextSeqId>>
        /\ selectedSeqId' = SeqIdFor(sequence', sequence[k + 1].id, sequence[k + 1].path)
    BY <1>9 DEF KeySelect, Select
  <2> HIDE DEF k
  <2>3. sequence[k + 1].path \in Paths /\ sequence[k + 1].id \in 0..MaxClips
    BY <2>1, EntryIs
  <2> QED BY <2>2, <2>3, Chosen DEF IdsUsed
<1> QED BY <1>1, <1>2, <1>3, <1>4, <1>5, <1>6, <1>8, <1>9 DEF StripStep
-----------------------------------------------------------------------------
(* What the player becomes                                                 *)

(* A clip is put in; it does not count as playing unless its play event    *)
(* has still to come.                                                      *)
Fresh(pb) == /\ pb \in Player /\ Starts(pb)
             /\ pb.video.path \in Paths /\ ~pb.video.ended /\ ~pb.video.failed
             /\ pb.video.paused \/ pb.tasks # <<>>

LEMMA AfterEndIs ==
    ASSUME NEW pb \in Player, NEW seq \in Seq(Entry), NEW allowed \in BOOLEAN, pb.video.paused
    PROVE  AfterEnd(pb, seq, allowed) \in Player /\ Starts(AfterEnd(pb, seq, allowed))
<1>0. pb.index + 1 \in Nat /\ Len(seq) \in Nat /\ (Len(seq) > 0 => seq # <<>>)
  BY PlayerIs, LenProperties, EmptySeq
<1>1. CASE ~pb.playing
  BY <1>1 DEF AfterEnd, Starts
<1>2. CASE pb.playing /\ pb.index + 1 < Len(seq)
  <2>1. seq # <<>>
    BY <1>0, <1>2
  <2> QED BY <1>0, <1>2, <2>1, LoadedIs DEF AfterEnd
<1>3. CASE pb.playing /\ ~(pb.index + 1 < Len(seq)) /\ pb.loop /\ seq # <<>>
  BY <1>3, LoadedIs DEF AfterEnd
<1>4. CASE pb.playing /\ ~(pb.index + 1 < Len(seq)) /\ ~(pb.loop /\ seq # <<>>)
  <2>1. AfterEnd(pb, seq, allowed) = [pb EXCEPT !.playing = FALSE]
    BY <1>4 DEF AfterEnd
  <2> QED BY <2>1 DEF Player, Starts
<1> QED BY <1>1, <1>2, <1>3, <1>4

LEMMA AfterErrorIs ==
    ASSUME NEW pb \in Player, NEW seq \in Seq(Entry), NEW allowed \in BOOLEAN, pb.video.failed
    PROVE  LET pb2 == AfterError(pb, seq, allowed)
           IN  pb2 \in Player /\ (pb2.video.failed \/ Fresh(pb2))
<1>0. pb.index + 1 \in Nat /\ Len(seq) \in Nat /\ (Len(seq) > 0 => seq # <<>>)
  BY PlayerIs, LenProperties, EmptySeq
<1>1. CASE ~pb.playing
  BY <1>1 DEF AfterError
<1>2. CASE pb.playing /\ pb.index + 1 < Len(seq)
  <2>1. seq # <<>>
    BY <1>0, <1>2
  <2> QED BY <1>0, <1>2, <2>1, LoadedIs DEF AfterError, Fresh
<1>3. CASE pb.playing /\ ~(pb.index + 1 < Len(seq))
  <2>1. AfterError(pb, seq, allowed) = [pb EXCEPT !.playing = FALSE]
    BY <1>3 DEF AfterError
  <2> QED BY <2>1 DEF Player
<1> QED BY <1>1, <1>2, <1>3

LEMMA SettledIs ==
    ASSUME NEW pb \in Player, pb.video.failed \/ Fresh(pb), NEW waited \in BOOLEAN
    PROVE  LET pb2 == Settled(pb, waited)
           IN  /\ pb2 \in Player /\ Starts(pb2)
               /\ pb2.video = pb.video
<1>1. CASE ~waited
  BY <1>1 DEF Settled, Fresh, Starts
<1>2. CASE waited
  <2> DEFINE pb2 == [pb EXCEPT !.playing = FALSE]
  <2>1. pb2 \in Player /\ pb2.video = pb.video /\ pb2.tasks = pb.tasks
    BY DEF Player
  <2>2. Starts(pb2)
    BY <2>1 DEF Starts, Fresh
  <2> QED BY <1>2, <2>1, <2>2 DEF Settled
<1> QED BY <1>1, <1>2

(* Fields that the controls and the events of the element write.           *)
LEMMA Written ==
    ASSUME NEW pb \in Player, NEW playing \in BOOLEAN, NEW q \in Tasks,
           NEW paused \in BOOLEAN, NEW ended \in BOOLEAN, NEW waiting \in BOOLEAN,
           NEW failed \in BOOLEAN
    PROVE  LET v   == [pb.video EXCEPT !.paused = paused, !.ended = ended,
                                       !.waiting = waiting, !.failed = failed]
               pb2 == [pb EXCEPT !.playing = playing, !.video = v, !.tasks = q]
           IN  /\ pb2 \in Player
               /\ pb2.playing = playing /\ pb2.tasks = q
               /\ pb2.video.paused = paused /\ pb2.video.failed = failed
               /\ pb2.video.ended = ended /\ pb2.video.path = pb.video.path
<1> DEFINE v == [pb.video EXCEPT !.paused = paused, !.ended = ended,
                                 !.waiting = waiting, !.failed = failed]
           pb2 == [pb EXCEPT !.playing = playing, !.video = v, !.tasks = q]
<1>1. /\ v \in Video /\ v.paused = paused /\ v.failed = failed /\ v.ended = ended
      /\ v.path = pb.video.path
  BY PlayerIs DEF Video
<1> HIDE DEF v
<1>2. pb2 \in Player /\ pb2.playing = playing /\ pb2.tasks = q /\ pb2.video = v
  BY <1>1 DEF Player, Tasks
<1> HIDE DEF pb2
<1> QED BY <1>1, <1>2 DEF v, pb2

LEMMA StripStepShows ==
    ASSUME IInv, StripStep
    PROVE  Shows'
<1> USE DEF IInv, Shows
<1>0. Len(sequence) \in Nat /\ playback.index \in Nat /\ playback \in Player
  BY LenProperties, PlayerIs DEF Strip
<1>1. ASSUME NEW p \in Paths, NEW at \in 0..Len(sequence), AddClip(p, at) PROVE Shows'
  BY <1>1, PreviewedIs DEF AddClip, Select
<1>2. ASSUME NEW k \in Positions, RemoveClip(k) PROVE Shows'
  <2>1. sequence' \in Seq(Entry) /\ Len(sequence') \in Nat /\ (sequence' # <<>> => Len(sequence') > 0)
    BY <1>2, StripStepStrip, LenProperties, EmptySeq DEF StripStep, Strip
  <2>2. ClampedIndex(playback.index, sequence') \in Nat
    BY <1>0, <2>1 DEF ClampedIndex
  <2> QED BY <1>0, <1>2, <2>2, IndexedIs DEF RemoveClip
<1>3. CASE ClearSequence
  BY <1>3, StoppedIs DEF ClearSequence
<1>4. ASSUME NEW from \in Positions, NEW at \in 0..Len(sequence), DropToken(from, at) PROVE Shows'
  BY <1>4, PreviewedIs DEF DropToken, Select
<1>5. ASSUME NEW k \in Positions, ClickToken(k) PROVE Shows'
  <2>1. k \in Nat
    BY <1>0 DEF Positions
  <2> QED BY <1>5, <2>1, IndexedIs, PreviewedIs DEF ClickToken, Select
<1>6. ASSUME NEW a \in {"start", "left", "right", "end"}, MoveSelected(a) PROVE Shows'
  <2>1. Here \in 0..(Len(sequence) - 1)
    BY <1>0, <1>6, FoundIs DEF Here, MoveSelected, Strip
  <2>2. PICK to \in 0..(Len(sequence) - 1) : playback' = [playback EXCEPT !.index = to]
    BY <1>0, <1>6, <2>1, MoveSelectedIs
  <2> QED BY <1>0, <2>2, IndexedIs
<1>7. ASSUME NEW d \in {-1, 1}, KeyMove(d) PROVE Shows'
  <2>1. KeyFrom + d \in Nat /\ playback' = [playback EXCEPT !.index = KeyFrom + d]
    BY <1>7 DEF KeyMove
  <2> QED BY <2>1, IndexedIs
<1>8. ASSUME NEW d \in {-1, 1}, KeySelect(d) PROVE Shows'
  BY <1>8, PreviewedIs DEF KeySelect, Select
<1> QED BY <1>1, <1>2, <1>3, <1>4, <1>5, <1>6, <1>7, <1>8 DEF StripStep

(* The selection of a step that leaves the strip as it is: kept, dropped,  *)
(* or made anew.                                                           *)
SelectionKept == selectedSeqId' = selectedSeqId /\ selectedPath' \in {selectedPath, NoPath}

SelectionMade ==
    \E p \in Paths : selectedPath' = p /\ selectedSeqId' = SeqIdFor(sequence, selectedSeqId, p)

LEMMA LibraryStepIs ==
    ASSUME IInv, LibraryStep
    PROVE  Shows' /\ (SelectionKept \/ SelectionMade) /\ UNCHANGED <<sequence, nextSeqId>>
<1> USE DEF IInv, Shows
<1>1. ASSUME NEW p \in Paths, ClickCard(p)
      PROVE  Shows' /\ SelectionMade /\ UNCHANGED <<sequence, nextSeqId>>
  BY <1>1, PreviewedIs DEF ClickCard, Select, SelectionMade
<1>2. ASSUME NEW p \in Paths, RemoveFromLibrary(p)
      PROVE  Shows' /\ SelectionKept /\ UNCHANGED <<sequence, nextSeqId>>
  BY <1>2 DEF RemoveFromLibrary, SelectionKept
<1>3. CASE ClearLibrary
  BY <1>3, StoppedIs DEF ClearLibrary, SelectionKept
<1> QED BY <1>1, <1>2, <1>3 DEF LibraryStep

LEMMA TransportStepIs ==
    ASSUME IInv, TransportStep
    PROVE  Shows' /\ (SelectionKept \/ SelectionMade) /\ UNCHANGED <<sequence, nextSeqId>>
<1> USE DEF IInv, Shows
<1>0. /\ playback.tasks \in Tasks /\ playback.index \in Nat /\ playback.playing \in BOOLEAN
      /\ sequence \in Seq(Entry)
  BY PlayerIs DEF Strip
<1>1. ASSUME Play, Resumable
      PROVE  Shows' /\ SelectionKept /\ UNCHANGED <<sequence, nextSeqId>>
  <2>1. CASE playback.video.failed
    <3>1. playback' = [playback EXCEPT !.playing = TRUE]
      BY <1>1, <2>1 DEF Play
    <3> QED BY <1>1, <2>1, <3>1 DEF Play, SelectionKept, Player, Starts
  <2>2. CASE ~playback.video.failed
    <3> DEFINE q == Append(playback.tasks, "play")
    <3>1. q \in Tasks /\ q # <<>> /\ q[Len(q)] = "play"
      BY <1>0, TasksIs
    <3>2. playback' = [playback EXCEPT !.playing = TRUE, !.video.paused = FALSE, !.tasks = q]
      BY <1>1, <2>2 DEF Play
    <3> HIDE DEF q
    <3>3. playback' \in Player /\ playback'.tasks = q
      BY <3>1, <3>2 DEF Player, Video, Tasks
    <3> QED BY <1>1, <3>1, <3>3 DEF Play, SelectionKept, Starts
  <2> QED BY <2>1, <2>2
<1>2. ASSUME Play, ~Resumable
      PROVE  Shows' /\ SelectionMade /\ UNCHANGED <<sequence, nextSeqId>>
  <2>1. PICK allowed \in BOOLEAN :
          playback' = Loaded(playback, sequence, playback.index, TRUE, allowed)
          /\ SelectLoaded(sequence, playback')
    BY <1>2 DEF Play
  <2>2. playback' \in Player /\ Starts(playback') /\ playback'.video.path \in Paths
    BY <1>0, <1>2, <2>1, LoadedIs DEF Play
  <2> QED BY <1>2, <2>1, <2>2 DEF Play, SelectLoaded, SelectionMade
<1>3. CASE Pause \/ NativePause
  <2> DEFINE q == IF playback.video.waiting THEN Append(playback.tasks, "reject") ELSE playback.tasks
             v == [playback.video EXCEPT !.paused = TRUE, !.waiting = FALSE]
  <2>1. q \in Tasks /\ v \in Video /\ v.paused
    <3>1. v \in Video /\ v.paused
      BY <1>0, PlayerIs DEF Video
    <3>2. q \in Tasks
      BY <1>0, PlayerIs, TasksIs
    <3> QED BY <3>1, <3>2
  <2>2. \/ playback' = [playback EXCEPT !.playing = FALSE, !.video = v, !.tasks = q]
        \/ playback' = [playback EXCEPT !.video = v, !.tasks = q]
    BY <1>3, PlayerIs DEF Pause, NativePause, Player, Video
  <2> HIDE DEF q, v
  <2>3. playback' \in Player /\ playback'.video = v
    BY <2>1, <2>2 DEF Player, Tasks
  <2> QED BY <1>3, <2>1, <2>3 DEF Pause, NativePause, SelectionKept, Starts
<1>4. CASE Stop
  BY <1>4, StoppedIs DEF Stop, SelectionKept
<1>5. ASSUME NEW d \in {-1, 1}, Skip(d)
      PROVE  Shows' /\ SelectionMade /\ UNCHANGED <<sequence, nextSeqId>>
  <2> DEFINE k == IF playback.index + d < 0 THEN 0 ELSE playback.index + d
  <2>1. k \in Nat
    BY <1>0
  <2>2. PICK allowed \in BOOLEAN :
          playback' = Loaded(playback, sequence, k, playback.playing, allowed)
    BY <1>5 DEF Skip
  <2> HIDE DEF k
  <2>3. playback' \in Player /\ Starts(playback') /\ playback'.video.path \in Paths
    BY <1>0, <1>5, <2>1, <2>2, LoadedIs DEF Skip
  <2> QED BY <1>5, <2>3 DEF Skip, SelectLoaded, SelectionMade
<1>6. CASE ToggleLoop
  BY <1>6 DEF ToggleLoop, SelectionKept, Player, Starts
<1>7. CASE NativePlay
  <2> DEFINE q == Append(playback.tasks, "play")
  <2>1. q \in Tasks /\ q # <<>> /\ q[Len(q)] = "play"
    BY <1>0, TasksIs
  <2>2. playback' = [playback EXCEPT !.video.paused = FALSE, !.video.ended = FALSE, !.tasks = q]
    BY <1>7 DEF NativePlay
  <2> HIDE DEF q
  <2>3. playback' \in Player /\ playback'.tasks = q
    BY <2>1, <2>2 DEF Player, Video, Tasks
  <2> QED BY <1>7, <2>1, <2>3 DEF NativePlay, SelectionKept, Starts
<1> QED BY <1>1, <1>2, <1>3, <1>4, <1>5, <1>6, <1>7 DEF TransportStep

LEMMA MediaStepIs ==
    ASSUME IInv, MediaStep
    PROVE  Shows' /\ (SelectionKept \/ SelectionMade) /\ UNCHANGED <<sequence, nextSeqId>>
<1> USE DEF IInv, Shows
<1>0. /\ playback.tasks \in Tasks /\ playback.video.waiting \in BOOLEAN
      /\ sequence \in Seq(Entry)
  BY PlayerIs DEF Strip
<1>1. CASE MediaTask
  <2> DEFINE t == playback.tasks
             q == Tail(t)
  <2>1. t \in Seq({"play", "reject"}) /\ t # <<>>
    BY <1>0, <1>1 DEF MediaTask, Tasks
  <2>2. /\ q \in Tasks /\ Len(q) = Len(t) - 1 /\ Len(t) \in Nat \ {0}
        /\ \A i \in 1..Len(q) : q[i] = t[i + 1]
        /\ Head(t) = t[1]
    BY <2>1, HeadTailProperties, EmptySeq DEF Tasks
  <2>3. playback' = [playback EXCEPT !.playing = (Head(t) = "play"), !.tasks = q]
    BY <1>1 DEF MediaTask, AfterTask
  <2>4. q # <<>> => q[Len(q)] = t[Len(t)]
    <3>1. ASSUME q # <<>> PROVE Len(q) \in 1..Len(q)
      BY <2>2, <3>1, EmptySeq DEF Tasks
    <3> QED BY <2>2, <3>1
  <2> HIDE DEF q
  <2>5. q = <<>> => Len(t) = 1
    <3>1. Len(<<>>) = 0
      BY EmptySeq
    <3> QED BY <2>2, <3>1
  <2>6. /\ playback' \in Player /\ playback'.tasks = q /\ playback'.video = playback.video
        /\ playback'.playing = (Head(t) = "play")
    BY <2>2, <2>3 DEF Player, Tasks
  <2>7. Starts(playback')
    BY <2>1, <2>2, <2>4, <2>5, <2>6 DEF Starts
  <2> QED BY <1>1, <2>6, <2>7 DEF MediaTask, SelectionKept
<1>2. CASE MediaStarts
  <2>1. playback' = [playback EXCEPT !.video.waiting = FALSE]
    BY <1>2 DEF MediaStarts
  <2>2. playback' \in Player /\ Starts(playback')
    BY <2>1 DEF Player, Video, Starts
  <2> QED BY <1>2, <2>2 DEF MediaStarts, SelectionKept
<1>3. CASE MediaEnds
  <2> DEFINE pb == [playback EXCEPT !.video.ended = TRUE, !.video.paused = TRUE]
  <2>1. pb \in Player /\ pb.video.paused
    BY DEF Player, Video
  <2>2. PICK allowed \in BOOLEAN : playback' = AfterEnd(pb, sequence, allowed)
    BY <1>3 DEF MediaEnds
  <2> HIDE DEF pb
  <2>3. playback' \in Player /\ Starts(playback')
    BY <1>0, <2>1, <2>2, AfterEndIs
  <2>4. CASE playback'.video.path # NoPath /\ ~playback'.video.ended
    <3>1. playback'.video.path \in Paths
      BY <2>3, <2>4, PlayerIs
    <3> QED BY <1>3, <2>3, <2>4, <3>1 DEF MediaEnds, SelectLoaded, SelectionMade
  <2>5. CASE ~(playback'.video.path # NoPath /\ ~playback'.video.ended)
    BY <1>3, <2>3, <2>5 DEF MediaEnds, SelectionKept
  <2> QED BY <2>4, <2>5
<1>4. CASE MediaFails
  <2> DEFINE pb == [playback EXCEPT !.video.failed = TRUE, !.video.waiting = FALSE]
  <2>1. pb \in Player /\ pb.video.failed
    BY DEF Player, Video
  <2>2. PICK allowed \in BOOLEAN :
          playback' = Settled(AfterError(pb, sequence, allowed), playback.video.waiting)
    BY <1>4 DEF MediaFails
  <2> HIDE DEF pb
  <2> DEFINE pb2 == AfterError(pb, sequence, allowed)
  <2>3. pb2 \in Player /\ (pb2.video.failed \/ Fresh(pb2))
    BY <1>0, <2>1, AfterErrorIs
  <2> HIDE DEF pb2
  <2>4. playback' \in Player /\ Starts(playback') /\ playback'.video = pb2.video
    BY <1>0, <2>2, <2>3, SettledIs DEF pb2
  <2>5. CASE ~playback'.video.failed
    <3>1. playback'.video.path \in Paths
      BY <2>3, <2>4, <2>5 DEF Fresh
    <3> QED BY <1>4, <2>4, <2>5, <3>1 DEF MediaFails, SelectLoaded, SelectionMade
  <2>6. CASE playback'.video.failed
    BY <1>4, <2>4, <2>6 DEF MediaFails, SelectionKept
  <2> QED BY <2>5, <2>6
<1> QED BY <1>1, <1>2, <1>3, <1>4 DEF MediaStep

LEMMA SelectionStrip ==
    ASSUME IInv, SelectionKept \/ SelectionMade, UNCHANGED <<sequence, nextSeqId>>
    PROVE  Strip'
<1>1. CASE SelectionKept
  BY <1>1 DEF SelectionKept, IInv, Strip, IdsUsed, Named
<1>2. CASE SelectionMade
  BY <1>2, Chosen DEF SelectionMade, IInv, Strip, IdsUsed
<1> QED BY <1>1, <1>2

LEMMA StepIInv == IInv /\ [Next]_vars => IInv'
<1> SUFFICES ASSUME IInv, [Next]_vars PROVE IInv'
  OBVIOUS
<1>1. CASE StripStep
  BY <1>1, StripStepStrip, StripStepShows DEF IInv
<1>2. CASE LibraryStep
  BY <1>2, LibraryStepIs, SelectionStrip DEF IInv
<1>3. CASE TransportStep
  BY <1>3, TransportStepIs, SelectionStrip DEF IInv
<1>4. CASE MediaStep
  BY <1>4, MediaStepIs, SelectionStrip DEF IInv
<1>5. CASE UNCHANGED vars
  BY <1>5 DEF vars, IInv, Strip, Shows, IdsUsed, Named
<1> QED BY <1>1, <1>2, <1>3, <1>4, <1>5 DEF Next, UserStep

LEMMA Invariance == Spec => []IInv
<1> QED BY InitIInv, StepIInv, PTL DEF Spec

-----------------------------------------------------------------------------
(* The results *)


(* The strip, the selection and the player keep to their types. *)
THEOREM TypeCorrect == Spec => []TypeOK
<1>1. IInv => TypeOK
  BY DEF IInv, Strip, Shows, TypeOK
<1> QED BY <1>1, Invariance, PTL

(* No two clips of the strip have the same id, however often clips are     *)
(* added, duplicated, moved and removed.                                   *)
THEOREM ClipsDistinct == Spec => []Distinct(sequence)
<1>1. IInv => Distinct(sequence)
  BY DEF IInv, Strip
<1> QED BY <1>1, Invariance, PTL

(* The clip that an edit of the selection finds by id or by path has the   *)
(* path that is shown as selected.                                         *)
THEOREM EditsHit == Spec => []EditsHitSelection
<1>1. ASSUME IInv PROVE EditsHitSelection
  <2> SUFFICES ASSUME Here >= 0, selectedPath # NoPath
               PROVE  sequence[Here + 1].path = selectedPath
    BY DEF EditsHitSelection
  <2>1. sequence \in Seq(Entry) /\ playback.index \in Nat /\ Len(sequence) \in Nat
    BY <1>1, PlayerIs, LenProperties DEF IInv, Strip, Shows
  <2>2. /\ Here \in (-1)..(Len(sequence) - 1)
        /\ \/ sequence[Here + 1].id = selectedSeqId
           \/ sequence[Here + 1].path = selectedPath
    BY <2>1, FoundIs DEF Here
  <2>3. Here + 1 \in 1..Len(sequence)
    BY <2>1, <2>2
  <2> QED BY <1>1, <2>2, <2>3 DEF IInv, Strip, Named
<1> QED BY <1>1, Invariance, PTL

(* An element that runs counts as playing, or the play event that will say *)
(* so is on its way.                                                       *)
THEOREM RunningPlays == Spec => []RunningIsPlaying
<1>1. IInv => RunningIsPlaying
  BY DEF IInv, Shows, Starts, RunningIsPlaying
<1> QED BY <1>1, Invariance, PTL

(* What the steps do to the order of the clips. *)
LEMMA OrderStep ==
    ASSUME IInv, [Next]_vars
    PROVE  sequence' = <<>> \/ \E i \in 0..MaxClips : Alike(sequence, sequence', i)
<1>0. /\ sequence \in Seq(Entry) /\ Distinct(sequence) /\ Len(sequence) \in Nat
      /\ playback.index \in Nat
  BY PlayerIs, LenProperties DEF IInv, Strip, Shows
<1>1. CASE UNCHANGED sequence
  <2>1. Alike(sequence, sequence', 0)
    BY <1>1 DEF Alike
  <2> QED BY <2>1
<1>2. ASSUME NEW p \in Paths, NEW at \in 0..Len(sequence), AddClip(p, at)
      PROVE  \E i \in 0..MaxClips : Alike(sequence, sequence', i)
  <2> DEFINE e == [id |-> nextSeqId, path |-> p]
  <2>1. e \in Entry /\ e.id = nextSeqId /\ nextSeqId \in 0..MaxClips
    BY <1>2 DEF AddClip, Entry, IInv, Strip
  <2>2. nextSeqId \notin Ids(sequence)
    BY DEF IInv, Strip, IdsUsed
  <2> HIDE DEF e
  <2>3. sequence' = InsertAt(sequence, at + 1, e) /\ at + 1 \in 1..(Len(sequence) + 1)
    BY <1>0, <1>2 DEF AddClip, e
  <2> QED BY <1>0, <2>1, <2>2, <2>3, InsertKeeps
<1>3. ASSUME NEW k \in Positions, RemoveClip(k)
      PROVE  \E i \in 0..MaxClips : Alike(sequence, sequence', i)
  <2>1. k + 1 \in 1..Len(sequence) /\ sequence' = RemoveAt(sequence, k + 1)
    BY <1>0, <1>3 DEF Positions, RemoveClip
  <2>2. sequence[k + 1].id \in 0..MaxClips
    BY <1>0, <2>1, EntryIs
  <2> QED BY <1>0, <2>1, <2>2, RemoveKeeps
<1>4. ASSUME NEW from \in 0..(Len(sequence) - 1), NEW to \in 0..(Len(sequence) - 1),
             sequence' = Moved(sequence, from, to)
      PROVE  \E i \in 0..MaxClips : Alike(sequence, sequence', i)
  <2>1. from + 1 \in 1..Len(sequence)
    BY <1>0
  <2>2. sequence[from + 1].id \in 0..MaxClips
    BY <1>0, <2>1, EntryIs
  <2> QED BY <1>0, <1>4, <2>2, MovedKeeps
<1>5. CASE StripStep
  <2>1. ASSUME NEW from \in Positions, NEW at \in 0..Len(sequence), DropToken(from, at)
        PROVE  \E i \in 0..MaxClips : Alike(sequence, sequence', i)
    <3>1. /\ sequence' = Moved(sequence, from, DroppedAt(from, at))
          /\ DroppedAt(from, at) \in 0..(Len(sequence) - 1)
      BY <1>0, <2>1 DEF DropToken, DroppedAt, Positions
    <3> QED BY <1>4, <3>1 DEF Positions
  <2>2. ASSUME NEW a \in {"start", "left", "right", "end"}, MoveSelected(a)
        PROVE  \E i \in 0..MaxClips : Alike(sequence, sequence', i)
    <3>1. Here \in 0..(Len(sequence) - 1)
      BY <1>0, <2>2, FoundIs DEF Here, MoveSelected
    <3>2. \E to \in 0..(Len(sequence) - 1) : sequence' = Moved(sequence, Here, to)
      BY <1>0, <2>2, <3>1, MoveSelectedIs
    <3> QED BY <1>4, <3>1, <3>2
  <2>3. ASSUME NEW d \in {-1, 1}, KeyMove(d)
        PROVE  \E i \in 0..MaxClips : Alike(sequence, sequence', i)
    <3>1. /\ KeyFrom + d \in 0..(Len(sequence) - 1)
          /\ sequence' = Moved(sequence, KeyFrom, KeyFrom + d)
      BY <2>3 DEF KeyMove
    <3>2. KeyFrom \in 0..(Len(sequence) - 1)
      BY <1>0, <3>1, KeyFromIs
    <3> QED BY <1>4, <3>1, <3>2
  <2>4. CASE ClearSequence
    BY <2>4 DEF ClearSequence
  <2>5. CASE \/ \E k \in Positions : ClickToken(k)
             \/ \E d \in {-1, 1} : KeySelect(d)
    BY <1>1, <2>5 DEF ClickToken, KeySelect
  <2> QED BY <1>2, <1>3, <1>5, <2>1, <2>2, <2>3, <2>4, <2>5 DEF StripStep
<1>6. CASE LibraryStep \/ TransportStep \/ MediaStep
  BY <1>1, <1>6, LibraryStepIs, TransportStepIs, MediaStepIs
<1> QED BY <1>1, <1>5, <1>6 DEF Next, UserStep, vars

(* One edit changes the place or the presence of one clip at most; the     *)
(* others stay, in the order they had.                                     *)
THEOREM OrderIsKept == Spec => OthersKeepOrder
<1> DEFINE Kept == \/ sequence' = <<>>
                   \/ \E i \in 0..MaxClips : \A a \in (1..MaxClips) \ {i} :
                        /\ (\E m \in DOMAIN sequence : sequence[m].id = a)
                             <=> (\E m \in DOMAIN sequence' : sequence'[m].id = a)
                        /\ \A b \in (1..MaxClips) \ {i} :
                             Before(sequence, a, b) <=> Before(sequence', a, b)
<1>1. ASSUME IInv, IInv', [Next]_vars PROVE Kept
  <2>1. DOMAIN sequence = 1..Len(sequence) /\ DOMAIN sequence' = 1..Len(sequence')
    BY <1>1, LenProperties DEF IInv, Strip
  <2>2. \A a : /\ (\E m \in DOMAIN sequence : sequence[m].id = a) <=> a \in Ids(sequence)
               /\ (\E m \in DOMAIN sequence' : sequence'[m].id = a) <=> a \in Ids(sequence')
    BY <2>1 DEF Ids
  <2> QED BY <1>1, <2>2, OrderStep, Zenon DEF Alike
<1>2. IInv /\ IInv' /\ [Next]_vars => [Kept]_vars
  BY <1>1
<1> QED BY <1>2, Invariance, PTL DEF Spec, OthersKeepOrder
=============================================================================
