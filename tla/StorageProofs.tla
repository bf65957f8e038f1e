---------------------------- MODULE StorageProofs ----------------------------
(***************************************************************************)
(* What is laid out on the storage device and what is read back from it,   *)
(* in two parts that share no state.                                       *)
(*  - IdpLayout, for every description that is JSON, every disk and every  *)
(*    alignment: the list of partitions that parser and navigator make is  *)
(*    the one provisioning relies on; the tables have an entry for each    *)
(*    partition, where its number says and large enough for it; and        *)
(*    idpwrite finds the room that idpinit has checked for.  For every     *)
(*    description that is well shaped, the list is also whole: the walk    *)
(*    neither loses nor repeats what the description names.  Sizes and     *)
(*    counts are running totals, so the facts about them go by induction   *)
(*    on the length of the list, over sets of naturals.                    *)
(*  - BlockMap, for every disk, map and width of a block number: an OKAY   *)
(*    of bmap-verify is about the storage itself, and about the map that   *)
(*    was loaded for that disk.                                            *)
(***************************************************************************)
EXTENDS IdpLayout, BlockMap, FiniteSetTheorems, SequenceTheorems, WellFoundedInduction, TLAPS

\* A set of naturals that is not empty has a least element.
LEMMA Least ==
  ASSUME NEW S \in SUBSET Nat, S # {}
  PROVE  \E m \in S : \A n \in S : m <= n
<1> DEFINE R == OpToRel(<, Nat)
<1>1. IsWellFoundedOn(R, Nat)
  BY NatLessThanWellFounded
<1>2. \A x, y \in Nat : y < x => <<y, x>> \in R
  BY DEF OpToRel
<1> HIDE DEF R
<1>3. PICK m \in S : \A n \in S : ~(<<n, m>> \in R)
  BY <1>1, WFMin
<1>4. \A n \in S : ~(n < m)
  BY <1>2, <1>3
<1>5. \A n \in S : m <= n
  BY <1>4
<1> QED BY <1>5

\* Induction on the naturals, for a set of them.
LEMMA NatInduct ==
  ASSUME NEW Q \in SUBSET Nat, 0 \in Q, \A n \in Q : n + 1 \in Q
  PROVE  Q = Nat
<1> SUFFICES ASSUME Nat \ Q # {} PROVE FALSE
  OBVIOUS
<1>1. PICK m \in Nat \ Q : \A n \in Nat \ Q : m <= n
  BY Least
<1>2. m # 0 /\ m - 1 \in Nat /\ ~(m <= m - 1)
  OBVIOUS
<1>3. m - 1 \in Q
  BY <1>1, <1>2
<1>4. (m - 1) + 1 \in Q
  BY <1>3
<1> QED BY <1>4

\* A function on 1 .. n is a sequence.
LEMMA FunctionIsSeq ==
  ASSUME NEW S, NEW n \in Nat, NEW f \in [1 .. n -> S]
  PROVE  f \in Seq(S) /\ Len(f) = n
OBVIOUS

----------------------------------------------------------------------------
\* Totals is what its recursion says.
LEMMA TotalsDef ==
  ASSUME NEW s \in Seq(Nat)
  PROVE  Totals(s) = [i \in 0 .. Len(s) |-> IF i = 0 THEN 0 ELSE Totals(s)[i - 1] + s[i]]
<1> DEFINE Rec(f, n) == f = [i \in 0 .. n |-> IF i = 0 THEN 0 ELSE f[i - 1] + s[i]]
           Q == {n \in Nat : \E f : Rec(f, n)}
<1>1. 0 \in Q
  <2> DEFINE f == [i \in 0 .. 0 |-> 0]
  <2>1. Rec(f, 0)
    OBVIOUS
  <2> QED BY <2>1
<1>2. ASSUME NEW n \in Q PROVE n + 1 \in Q
  <2>1. PICK f : Rec(f, n)
    OBVIOUS
  <2> DEFINE g == [i \in 0 .. n + 1 |-> IF i = n + 1 THEN f[n] + s[n + 1] ELSE f[i]]
  <2>2. Rec(g, n + 1)
    <3> HIDE DEF Q
    <3>0. n \in Nat
      BY DEF Q
    <3>1. ASSUME NEW i \in 0 .. n + 1 PROVE g[i] = IF i = 0 THEN 0 ELSE g[i - 1] + s[i]
      <4>1. CASE i = n + 1
        BY <4>1, <3>0
      <4>2. CASE i # n + 1
        BY <4>2, <3>0, <2>1
      <4> QED BY <4>1, <4>2
    <3> QED BY <3>1
  <2>3. n + 1 \in Nat
    OBVIOUS
  <2>4. \E h : Rec(h, n + 1)
    BY <2>2
  <2> HIDE DEF Rec
  <2> QED BY <2>3, <2>4
<1>3. Q = Nat
  <2> HIDE DEF Q
  <2> QED BY <1>1, <1>2, NatInduct DEF Q
<1>4. \E f : Rec(f, Len(s))
  BY <1>3
<1>5. Totals(s) = CHOOSE f : Rec(f, Len(s))
  BY DEF Totals
<1>6. Rec(Totals(s), Len(s))
  <2> HIDE DEF Rec
  <2> QED BY <1>4, <1>5
<1> QED BY <1>6

\* The running total: from 0, size by size, never down, and a multiple of what
\* every size is a multiple of.
Multiple(x, a) == \E k \in Nat : x = k * a

\* It starts at 0 and adds one size at a time.
LEMMA TotalsStep ==
  ASSUME NEW s \in Seq(Nat)
  PROVE  /\ Totals(s) \in [0 .. Len(s) -> Nat]
         /\ Totals(s)[0] = 0
         /\ \A i \in 1 .. Len(s) : Totals(s)[i] = Totals(s)[i - 1] + s[i]
<1> DEFINE T == Totals(s)
           Q == {n \in Nat : n <= Len(s) => T[n] \in Nat}
<1>0. T = [i \in 0 .. Len(s) |-> IF i = 0 THEN 0 ELSE T[i - 1] + s[i]]
  BY TotalsDef
<1> HIDE DEF T
<1>1. T[0] = 0 /\ \A i \in 1 .. Len(s) : T[i] = T[i - 1] + s[i]
  BY <1>0, SMTT(40)
<1>2. 0 \in Q
  BY <1>1
<1>3. ASSUME NEW n \in Q PROVE n + 1 \in Q
  <2>1. CASE n + 1 <= Len(s)
    <3>1. T[n] \in Nat /\ n + 1 \in 1 .. Len(s) /\ T[n + 1] = T[n] + s[n + 1]
      BY <2>1, <1>1
    <3> QED BY <3>1
  <2> QED BY <2>1
<1>4. Q = Nat
  <2> HIDE DEF Q
  <2> QED BY <1>2, <1>3, NatInduct DEF Q
<1>5. \A i \in 0 .. Len(s) : T[i] \in Nat
  BY <1>4
<1>6. T \in [0 .. Len(s) -> Nat]
  <2>1. DOMAIN T = 0 .. Len(s) /\ T = [i \in DOMAIN T |-> T[i]]
    BY <1>0
  <2> QED BY <1>5, <2>1
<1> QED BY <1>1, <1>6 DEF T

\* It never goes down.
LEMMA TotalsMonotone ==
  ASSUME NEW s \in Seq(Nat), NEW m \in 0 .. Len(s)
  PROVE  Totals(s)[m] <= Totals(s)[Len(s)]
<1> DEFINE T == Totals(s)
           Q == {n \in Nat : m + n <= Len(s) => T[m] <= T[m + n]}
<1>1. /\ T \in [0 .. Len(s) -> Nat]
      /\ \A i \in 1 .. Len(s) : T[i] = T[i - 1] + s[i]
  BY TotalsStep
<1> HIDE DEF T
<1>2. 0 \in Q
  BY <1>1, SMTT(40)
<1>3. ASSUME NEW n \in Q PROVE n + 1 \in Q
  <2>1. CASE m + (n + 1) <= Len(s)
    <3>1. /\ m + n <= Len(s) /\ m + (n + 1) \in 1 .. Len(s) /\ (m + (n + 1)) - 1 = m + n
          /\ m + n \in 0 .. Len(s)
      BY <2>1
    <3>2. T[m + (n + 1)] = T[m + n] + s[m + (n + 1)] /\ T[m] <= T[m + n]
      BY <3>1, <1>1
    <3>3. s[m + (n + 1)] \in Nat
      BY <3>1
    <3>4. T[m] \in Nat /\ T[m + n] \in Nat
      <4>1. m \in 0 .. Len(s)
        OBVIOUS
      <4> HIDE DEF Q
      <4> QED BY <3>1, <1>1, <4>1
    <3> QED BY <3>2, <3>3, <3>4, SMTT(40)
  <2> QED BY <2>1
<1>4. Q = Nat
  <2> HIDE DEF Q
  <2> QED BY <1>2, <1>3, NatInduct DEF Q
<1>5. Len(s) - m \in Q
  <2>1. Len(s) - m \in Nat
    OBVIOUS
  <2> HIDE DEF Q
  <2> QED BY <1>4, <2>1
<1> QED BY <1>5 DEF T

\* A step of it, and how far it still is from the last.
LEMMA TotalsAt ==
  ASSUME NEW s \in Seq(Nat), NEW n \in Nat, n + 1 \in 1 .. Len(s)
  PROVE  /\ Totals(s)[n] \in Nat /\ s[n + 1] \in Nat /\ Totals(s)[n + 1] \in Nat
         /\ Totals(s)[n + 1] = Totals(s)[n] + s[n + 1]
         /\ Totals(s)[n + 1] <= Totals(s)[Len(s)] /\ Totals(s)[Len(s)] \in Nat
<1>1. n \in 0 .. Len(s) /\ n + 1 \in 0 .. Len(s) /\ Len(s) \in 0 .. Len(s) /\ (n + 1) - 1 = n
  OBVIOUS
<1>2. s[n + 1] \in Nat
  OBVIOUS
<1>3. Totals(s)[n + 1] <= Totals(s)[Len(s)]
  BY <1>1, TotalsMonotone
<1>4. Totals(s) \in [0 .. Len(s) -> Nat] /\ \A i \in 1 .. Len(s) : Totals(s)[i] = Totals(s)[i - 1] + s[i]
  BY TotalsStep
<1>5. Totals(s)[n] \in Nat /\ Totals(s)[n + 1] \in Nat /\ Totals(s)[Len(s)] \in Nat
  BY <1>1, <1>4
<1>6. Totals(s)[n + 1] = Totals(s)[(n + 1) - 1] + s[n + 1]
  BY <1>4
<1> QED BY <1>1, <1>2, <1>3, <1>5, <1>6

\* Sizes that are multiples of the alignment have such a total.
LEMMA TotalsMultiple ==
  ASSUME NEW s \in Seq(Nat), NEW a \in Nat, \A i \in 1 .. Len(s) : Multiple(s[i], a),
         NEW m \in 0 .. Len(s)
  PROVE  Multiple(Totals(s)[m], a)
<1> DEFINE T == Totals(s)
           Q == {n \in Nat : n <= Len(s) => Multiple(T[n], a)}
<1>1. /\ T \in [0 .. Len(s) -> Nat] /\ T[0] = 0
      /\ \A i \in 1 .. Len(s) : T[i] = T[i - 1] + s[i]
  BY TotalsStep
<1> HIDE DEF T
<1>2. 0 \in Q
  <2>1. 0 = 0 * a
    OBVIOUS
  <2> QED BY <1>1, <2>1 DEF Multiple
<1>3. ASSUME NEW n \in Q PROVE n + 1 \in Q
  <2>1. CASE n + 1 <= Len(s)
    <3>1. Multiple(T[n], a) /\ n + 1 \in 1 .. Len(s) /\ T[n + 1] = T[n] + s[n + 1]
      BY <2>1, <1>1, SMTT(40)
    <3>2. PICK j \in Nat : T[n] = j * a
      BY <3>1 DEF Multiple
    <3>3. PICK k \in Nat : s[n + 1] = k * a
      BY <3>1 DEF Multiple
    <3>4. j * a + k * a = (j + k) * a
      OBVIOUS
    <3>5. j + k \in Nat /\ T[n + 1] = (j + k) * a
      BY <3>1, <3>2, <3>3, <3>4
    <3>6. Multiple(T[n + 1], a)
      BY <3>5 DEF Multiple
    <3> QED BY <3>6
  <2> QED BY <2>1
<1>4. Q = Nat
  <2> HIDE DEF Q
  <2> QED BY <1>2, <1>3, NatInduct DEF Q
<1> QED BY <1>4, SMTT(40) DEF T

\* Rounding up to a multiple.
LEMMA RoundUpFacts ==
  ASSUME NEW n \in Nat, NEW a \in Nat \ {0}
  PROVE  /\ RoundUp(n, a) \in Nat /\ n <= RoundUp(n, a)
         /\ Multiple(RoundUp(n, a), a)
         /\ Multiple(n, a) => RoundUp(n, a) = n
<1> DEFINE q == (n + a - 1) \div a
<1>1. q \in Nat /\ q * a <= n + a - 1 /\ n + a - 1 < q * a + a
  OBVIOUS
<1>2. RoundUp(n, a) = q * a
  BY DEF RoundUp
<1> HIDE DEF q
<1>3. q * a \in Nat /\ n <= q * a
  BY <1>1
<1>4. ASSUME Multiple(n, a) PROVE q * a = n
  <2>1. PICK k \in Nat : n = k * a
    BY <1>4 DEF Multiple
  <2>2. q = k
    <3>1. ASSUME q < k PROVE FALSE
      <4>1. PICK d \in Nat : k = q + 1 + d
        <5>1. k - q - 1 \in Nat /\ k = q + 1 + (k - q - 1)
          BY <3>1, <1>1
        <5> QED BY <5>1
      <4>2. k * a = q * a + a + d * a /\ d * a \in Nat /\ q * a \in Nat
        BY <4>1, <1>1
      <4> QED BY <4>2, <2>1, <1>1
    <3>2. ASSUME k < q PROVE FALSE
      <4>1. PICK d \in Nat : q = k + 1 + d
        <5>1. q - k - 1 \in Nat /\ q = k + 1 + (q - k - 1)
          BY <3>2, <1>1
        <5> QED BY <5>1
      <4>2. q * a = k * a + a + d * a /\ d * a \in Nat /\ k * a \in Nat
        BY <4>1, <1>1
      <4> QED BY <4>2, <2>1, <1>1
    <3> QED BY <3>1, <3>2, <1>1
  <2> QED BY <2>1, <2>2
<1> QED BY <1>1, <1>2, <1>3, <1>4 DEF Multiple

\* Sequences of a kind that is closed under concatenation make one of that kind.
LEMMA FlattenClosed ==
  ASSUME NEW P, <<>> \in P, \A s, t \in P : s \o t \in P, NEW seqs \in Seq(P)
  PROVE  FlattenSeq(seqs) \in P
<1> DEFINE Rec(f, n) == f = [i \in 1 .. n |-> IF i = 1 THEN seqs[i] ELSE f[i - 1] \o seqs[i]]
           Q == {n \in Nat : \E f : Rec(f, n)}
<1>1. 0 \in Q
  <2> DEFINE f == [i \in 1 .. 0 |-> 0]
  <2>1. Rec(f, 0)
    OBVIOUS
  <2> QED BY <2>1
<1>2. ASSUME NEW n \in Q PROVE n + 1 \in Q
  <2>1. PICK f : Rec(f, n)
    OBVIOUS
  <2> DEFINE g == [i \in 1 .. n + 1 |->
                     IF i = n + 1 THEN (IF i = 1 THEN seqs[i] ELSE f[n] \o seqs[i]) ELSE f[i]]
  <2>2. Rec(g, n + 1)
    <3> HIDE DEF Q
    <3>0. n \in Nat
      BY DEF Q
    <3>1. ASSUME NEW i \in 1 .. n + 1 PROVE g[i] = IF i = 1 THEN seqs[i] ELSE g[i - 1] \o seqs[i]
      <4>1. CASE i = n + 1
        <5>1. i - 1 = n /\ i - 1 # n + 1 /\ (i # 1 => i - 1 \in 1 .. n + 1)
          BY <4>1, <3>0
        <5> QED BY <4>1, <5>1
      <4>2. CASE i # n + 1
        <5>1. i \in 1 .. n /\ i - 1 # n + 1 /\ (i # 1 => i - 1 \in 1 .. n + 1)
          BY <4>2, <3>0
        <5>2. f[i] = IF i = 1 THEN seqs[i] ELSE f[i - 1] \o seqs[i]
          BY <5>1, <2>1
        <5> QED BY <4>2, <5>1, <5>2
      <4> QED BY <4>1, <4>2
    <3> QED BY <3>1
  <2>3. n + 1 \in Nat
    OBVIOUS
  <2>4. \E h : Rec(h, n + 1)
    BY <2>2
  <2> HIDE DEF Rec
  <2> QED BY <2>3, <2>4
<1>3. Q = Nat
  <2> HIDE DEF Q
  <2> QED BY <1>1, <1>2, NatInduct DEF Q
<1>4. PICK len \in Nat : len = Len(seqs)
  OBVIOUS
<1> DEFINE F == CHOOSE f : Rec(f, len)
<1>5. Rec(F, len)
  <2>1. \E f : Rec(f, len)
    BY <1>3
  <2> HIDE DEF Rec
  <2> QED BY <2>1
<1>6. FlattenSeq(seqs) = IF Len(seqs) = 0 THEN seqs ELSE F[Len(seqs)]
  BY <1>4 DEF FlattenSeq
<1> HIDE DEF F
<1>7. \A i \in 1 .. len : F[i] = IF i = 1 THEN seqs[i] ELSE F[i - 1] \o seqs[i]
  BY <1>5
<1> DEFINE K == {n \in Nat : n \in 1 .. len => F[n] \in P}
<1>8. 0 \in K
  OBVIOUS
<1>9. ASSUME NEW n \in K PROVE n + 1 \in K
  <2>1. CASE n + 1 \in 1 .. len
    <3>1. seqs[n + 1] \in P
      BY <2>1, <1>4
    <3>2. CASE n = 0
      BY <3>1, <3>2, <2>1, <1>7
    <3>3. CASE n # 0
      <4>1. n \in 1 .. len /\ (n + 1) - 1 = n /\ n + 1 # 1
        BY <2>1, <3>3
      <4>2. F[n] \in P
        BY <4>1
      <4>3. F[n + 1] = F[n] \o seqs[n + 1]
        BY <4>1, <2>1, <1>7
      <4>4. F[n + 1] \in P
        BY <4>2, <4>3, <3>1
      <4> QED BY <4>4
    <3> QED BY <3>2, <3>3
  <2> QED BY <2>1
<1>10. K = Nat
  <2> HIDE DEF K
  <2> QED BY <1>8, <1>9, NatInduct DEF K
<1>11. CASE Len(seqs) = 0
  BY <1>11, <1>6
<1>12. CASE Len(seqs) # 0
  <2>1. len \in 1 .. len /\ len \in K
    BY <1>12, <1>4, <1>10
  <2> QED BY <2>1, <1>12, <1>6, <1>4
<1> QED BY <1>11, <1>12
----------------------------------------------------------------------------
\* What the navigator finds.  Loose: the partitions of an array, which are no
\* containers.  Sound: whatever is inside a container has one before it.
Words == {n.v : n \in Nodes} \cup {"", "true", "false"}
Types == {"none", "raw", "partitioned"}
Items == [image : Words, etype : Types, inside : BOOLEAN, expand : Words, bad : BOOLEAN]
Loose == {s \in Seq(Items) : \A k \in 1 .. Len(s) : s[k].etype = "none"}
Sound == {s \in Seq(Items) :
            \A k \in 1 .. Len(s) :
              s[k].inside => s[k].etype = "none" /\ \E c \in 1 .. k - 1 : s[c].etype # "none"}

\* Loose lists are closed under concatenation.
LEMMA LooseClosed == <<>> \in Loose /\ \A s, t \in Loose : s \o t \in Loose
<1>1. <<>> \in Loose
  BY DEF Loose
<1>2. ASSUME NEW s \in Loose, NEW t \in Loose PROVE s \o t \in Loose
  <2>1. s \in Seq(Items) /\ t \in Seq(Items)
    BY DEF Loose
  <2>2. /\ s \o t \in Seq(Items) /\ Len(s \o t) = Len(s) + Len(t)
        /\ \A k \in 1 .. Len(s) + Len(t) :
             (s \o t)[k] = IF k <= Len(s) THEN s[k] ELSE t[k - Len(s)]
    BY <2>1, ConcatProperties
  <2>3. ASSUME NEW k \in 1 .. Len(s) + Len(t) PROVE (s \o t)[k].etype = "none"
    <3>1. CASE k <= Len(s)
      <4>1. k \in 1 .. Len(s)
        BY <3>1, <2>1
      <4> QED BY <4>1, <3>1, <2>2 DEF Loose
    <3>2. CASE ~(k <= Len(s))
      <4>1. k - Len(s) \in 1 .. Len(t)
        BY <3>2, <2>1
      <4> QED BY <4>1, <3>2, <2>2 DEF Loose
    <3> QED BY <3>1, <3>2
  <2> QED BY <2>2, <2>3 DEF Loose
<1> QED BY <1>1, <1>2

\* So are sound ones.
LEMMA SoundClosed == <<>> \in Sound /\ \A s, t \in Sound : s \o t \in Sound
<1>1. <<>> \in Sound
  BY DEF Sound
<1>2. ASSUME NEW s \in Sound, NEW t \in Sound PROVE s \o t \in Sound
  <2> DEFINE u == s \o t
  <2>1. s \in Seq(Items) /\ t \in Seq(Items)
    BY DEF Sound
  <2>2. /\ u \in Seq(Items) /\ Len(u) = Len(s) + Len(t)
        /\ \A k \in 1 .. Len(s) + Len(t) :
             u[k] = IF k <= Len(s) THEN s[k] ELSE t[k - Len(s)]
    BY <2>1, ConcatProperties
  <2> HIDE DEF u
  <2>3. ASSUME NEW k \in 1 .. Len(s) + Len(t), u[k].inside
        PROVE  u[k].etype = "none" /\ \E c \in 1 .. k - 1 : u[c].etype # "none"
    <3>0. Len(s) \in Nat /\ Len(t) \in Nat
      BY <2>1
    <3>1. CASE k <= Len(s)
      <4>1. k \in 1 .. Len(s) /\ u[k] = s[k]
        BY <3>1, <3>0, <2>2
      <4>2. s[k].etype = "none" /\ \E c \in 1 .. k - 1 : s[c].etype # "none"
        BY <4>1, <2>3 DEF Sound
      <4>3. PICK c \in 1 .. k - 1 : s[c].etype # "none"
        BY <4>2
      <4>4. c \in 1 .. Len(s) + Len(t) /\ c <= Len(s)
        BY <4>1, <3>0
      <4>5. u[c].etype # "none"
        BY <4>3, <4>4, <2>2
      <4> QED BY <4>1, <4>2, <4>5
    <3>2. CASE ~(k <= Len(s))
      <4> DEFINE h == k - Len(s)
      <4>1. h \in 1 .. Len(t) /\ u[k] = t[h]
        BY <3>2, <3>0, <2>2
      <4>2. t[h].etype = "none" /\ \E c \in 1 .. h - 1 : t[c].etype # "none"
        <5> HIDE DEF h
        <5> QED BY <4>1, <2>3 DEF Sound
      <4>3. PICK c \in 1 .. h - 1 : t[c].etype # "none"
        BY <4>2
      <4>4. /\ c + Len(s) \in 1 .. Len(s) + Len(t) /\ ~(c + Len(s) <= Len(s))
            /\ (c + Len(s)) - Len(s) = c /\ c + Len(s) \in 1 .. k - 1
        BY <4>1, <3>0
      <4>5. u[c + Len(s)].etype # "none"
        BY <4>3, <4>4, <2>2
      <4> QED BY <4>1, <4>2, <4>4, <4>5
    <3> QED BY <3>1, <3>2
  <2>4. u \in Sound
    BY <2>2, <2>3 DEF Sound
  <2> QED BY <2>4 DEF u
<1> QED BY <1>1, <1>2

\* A container, and then what is inside it.
LEMMA ContainerFirst ==
  ASSUME NEW e \in Items, e.etype # "none", e.inside = FALSE, NEW s \in Loose
  PROVE  <<e>> \o s \in Sound
<1> DEFINE u == <<e>> \o s
<1>1. s \in Seq(Items) /\ <<e>> \in Seq(Items) /\ Len(<<e>>) = 1 /\ <<e>>[1] = e
  BY DEF Loose
<1>2. /\ u \in Seq(Items) /\ Len(u) = 1 + Len(s)
      /\ \A k \in 1 .. 1 + Len(s) : u[k] = IF k <= 1 THEN <<e>>[k] ELSE s[k - 1]
  BY <1>1, ConcatProperties
<1> HIDE DEF u
<1>3. u[1] = e
  BY <1>1, <1>2
<1>4. ASSUME NEW k \in 1 .. Len(u), u[k].inside
      PROVE  u[k].etype = "none" /\ \E c \in 1 .. k - 1 : u[c].etype # "none"
  <2>1. k # 1
    BY <1>4, <1>3
  <2>2. k - 1 \in 1 .. Len(s) /\ u[k] = s[k - 1] /\ 1 \in 1 .. k - 1
    BY <2>1, <1>1, <1>2
  <2> QED BY <2>2, <1>3 DEF Loose
<1>5. u \in Sound
  BY <1>2, <1>4 DEF Sound
<1> QED BY <1>5 DEF u

\* Members of a JSON value are JSON values.
LEMMA MemberIsNode ==
  ASSUME NEW n \in Nodes, NEW k, IsMember(n, k)
  PROVE  /\ n.o[k] \in Nodes /\ n.o[k].v \in Words
         /\ k = "partitions" => n.o[k].t = "arr"
         /\ k = "slots" => n.o[k].t = "obj"
<1>1. n.t = "obj" /\ k \in DOMAIN n.o
  BY DEF IsMember
<1>2. \A j \in DOMAIN n.o : /\ n.o[j] \in Nodes
                            /\ j = "partitions" => n.o[j].t = "arr"
                            /\ j = "slots" => n.o[j].t = "obj"
  BY <1>1, NodesAssumption
<1> QED BY <1>1, <1>2 DEF Words

\* expand-to-fit of a partition that was validated.
LEMMA ExpandIsWord == ASSUME NEW n \in Nodes PROVE ExpandOf(n) \in Words
BY MemberIsNode DEF ExpandOf, Words

\* The partitions of an array.
LEMMA RegularLoose ==
  ASSUME NEW ps \in Nodes, ps.t = "arr", NEW inside \in BOOLEAN
  PROVE  /\ processRegularPartitions(ps, inside) \in Loose
         /\ inside = FALSE => processRegularPartitions(ps, inside) \in Sound
<1> DEFINE s == processRegularPartitions(ps, inside)
<1>1. ps.a \in Seq(Nodes)
  BY NodesAssumption
<1>2. NavError \in Items /\ NavError.etype = "none" /\ NavError.inside = FALSE
  BY DEF NavError, Items, Words, Types
<1>3. ASSUME NEW k \in 1 .. Len(ps.a)
      PROVE  s[k] \in Items /\ s[k].etype = "none" /\ s[k].inside \in {FALSE, inside}
  <2> DEFINE p == ps.a[k]
             item == [image |-> p.o["image"].v, etype |-> "none", inside |-> inside,
                      expand |-> ExpandOf(p), bad |-> FALSE]
  <2>1. p \in Nodes
    BY <1>1
  <2>2. s[k] = IF validateRegularPartition(p) THEN item ELSE NavError
    BY <1>1 DEF processRegularPartitions
  <2>3. CASE validateRegularPartition(p)
    <3>1. p.o["image"].v \in Words /\ ExpandOf(p) \in Words
      BY <2>1, <2>3, MemberIsNode, ExpandIsWord DEF validateRegularPartition
    <3>2. item \in Items /\ item.etype = "none" /\ item.inside = inside
      <4> HIDE DEF p
      <4> QED BY <3>1 DEF Items, Types
    <3> QED BY <2>2, <2>3, <3>2
  <2>4. CASE ~validateRegularPartition(p)
    BY <2>2, <2>4, <1>2
  <2> QED BY <2>3, <2>4
<1>4. s = [k \in 1 .. Len(ps.a) |-> s[k]] /\ Len(ps.a) \in Nat
  BY <1>1 DEF processRegularPartitions
<1> HIDE DEF s
<1>5. s \in Seq(Items) /\ Len(s) = Len(ps.a)
  <2>1. s \in [1 .. Len(ps.a) -> Items]
    BY <1>3, <1>4
  <2> QED BY <2>1, <1>4, FunctionIsSeq
<1>6. s \in Loose
  BY <1>3, <1>5 DEF Loose
<1>7. inside = FALSE => s \in Sound
  BY <1>3, <1>5 DEF Sound
<1> QED BY <1>6, <1>7 DEF s

\* The entries of a "partitions" array.
LEMMA PartitionsLoose ==
  ASSUME NEW n \in Nodes
  PROVE  PartitionsOf(n, TRUE) \in Loose /\ PartitionsOf(n, FALSE) \in Sound
<1>1. CASE IsMember(n, "partitions")
  <2>1. n.o["partitions"] \in Nodes /\ n.o["partitions"].t = "arr"
    BY <1>1, MemberIsNode
  <2>2. \A i \in BOOLEAN : PartitionsOf(n, i) = processRegularPartitions(n.o["partitions"], i)
    BY <1>1 DEF PartitionsOf
  <2> QED BY <2>1, <2>2, RegularLoose
<1>2. CASE ~IsMember(n, "partitions")
  BY <1>2, LooseClosed, SoundClosed DEF PartitionsOf
<1> QED BY <1>1, <1>2

\* The slots of an object are JSON values.
LEMMA SlotsAreNodes ==
  ASSUME NEW slots \in Nodes, slots.t = "obj"
  PROVE  /\ Members(slots) = slots.keys /\ Len(Members(slots)) \in Nat
         /\ DOMAIN Members(slots) = 1 .. Len(Members(slots))
         /\ \A k \in 1 .. Len(Members(slots)) : slots.o[Members(slots)[k]] \in Nodes
<1>1. slots.keys \in Seq(DOMAIN slots.o) /\ \A k \in DOMAIN slots.o : slots.o[k] \in Nodes
  BY NodesAssumption
<1>2. Members(slots) = slots.keys
  BY DEF Members
<1> QED BY <1>1, <1>2

\* A container comes before what is inside it.
LEMMA EncryptedSound ==
  ASSUME NEW e \in Nodes
  PROVE  processEncryptedNode(e) \in Sound
<1>1. CASE ~validateLUKS(e) \/ ~(IsMember(e, "slots") \/ IsMember(e, "partitions"))
  <2>1. processEncryptedNode(e) = <<NavError>>
    BY <1>1 DEF processEncryptedNode
  <2>2. NavError \in Items /\ NavError.inside = FALSE
    BY DEF NavError, Items, Words, Types
  <2> QED BY <2>1, <2>2 DEF Sound
<1>2. CASE ~(~validateLUKS(e) \/ ~(IsMember(e, "slots") \/ IsMember(e, "partitions")))
  <2> DEFINE c == createEncryptedPartition(e)
             names == Members(e.o["slots"])
             each == [k \in DOMAIN names |-> PartitionsOf(e.o["slots"].o[names[k]], TRUE)]
             slots == IF IsMember(e, "slots") THEN FlattenSeq(each) ELSE <<>>
             parts == PartitionsOf(e, TRUE)
  <2>1. c \in Items /\ c.etype # "none" /\ c.inside = FALSE
    BY <1>2, ExpandIsWord DEF createEncryptedPartition, validateLUKS, Items, Types, Words
  <2>2. slots \in Loose
    <3>1. CASE IsMember(e, "slots")
      <4>1. e.o["slots"] \in Nodes /\ e.o["slots"].t = "obj"
        BY <3>1, MemberIsNode
      <4>2. /\ Len(names) \in Nat /\ DOMAIN names = 1 .. Len(names)
            /\ \A k \in 1 .. Len(names) : e.o["slots"].o[names[k]] \in Nodes
        BY <4>1, SlotsAreNodes
      <4>3. each \in Seq(Loose)
        <5> HIDE DEF names
        <5>1. each \in [1 .. Len(names) -> Loose]
          BY <4>2, PartitionsLoose
        <5> HIDE DEF each
        <5> QED BY <5>1, <4>2, FunctionIsSeq
      <4> HIDE DEF each
      <4>4. FlattenSeq(each) \in Loose
        BY <4>3, FlattenClosed, LooseClosed
      <4> QED BY <3>1, <4>4
    <3>2. CASE ~IsMember(e, "slots")
      BY <3>2, LooseClosed
    <3> QED BY <3>1, <3>2
  <2>3. parts \in Loose
    BY PartitionsLoose
  <2>4. processEncryptedNode(e) = <<c>> \o slots \o parts
    BY <1>2, ZenonT(60) DEF processEncryptedNode, EachSlot
  <2> HIDE DEF c, slots, parts
  <2>5. slots \o parts \in Loose
    BY <2>2, <2>3, LooseClosed
  <2>6. <<c>> \o (slots \o parts) \in Sound
    BY <2>1, <2>5, ContainerFirst
  <2>7. (<<c>> \o slots) \o parts = <<c>> \o (slots \o parts)
    <3>1. <<c>> \in Seq(Items) /\ slots \in Seq(Items) /\ parts \in Seq(Items)
      BY <2>1, <2>2, <2>3 DEF Loose
    <3> QED BY <3>1, ConcatAssociative, SMTT(40)
  <2> QED BY <2>4, <2>6, <2>7
<1> QED BY <1>1, <1>2

\* The same for a node that may have no container.
LEMMA EncryptedOfSound == ASSUME NEW n \in Nodes PROVE EncryptedOf(n) \in Sound
BY EncryptedSound, SoundClosed, MemberIsNode DEF EncryptedOf

\* The same for all slots of a node.
LEMMA SlotsSound ==
  ASSUME NEW n \in Nodes, n.t = "obj"
  PROVE  processSlots(n) \in Sound
<1> DEFINE names == Members(n)
           each == [k \in DOMAIN names |-> PartitionsOf(n.o[names[k]], FALSE) \o EncryptedOf(n.o[names[k]])]
<1>1. /\ Len(names) \in Nat /\ DOMAIN names = 1 .. Len(names)
      /\ \A k \in 1 .. Len(names) : n.o[names[k]] \in Nodes
  BY SlotsAreNodes
<1>2. \A m \in Nodes : PartitionsOf(m, FALSE) \o EncryptedOf(m) \in Sound
  BY PartitionsLoose, EncryptedOfSound, SoundClosed
<1>3. processSlots(n) = FlattenSeq(each)
  BY DEF processSlots, EachSlot
<1>4. each \in Seq(Sound)
  <2> HIDE DEF names
  <2>1. each \in [1 .. Len(names) -> Sound]
    BY <1>1, <1>2
  <2> HIDE DEF each
  <2> QED BY <2>1, <1>1, FunctionIsSeq
<1> HIDE DEF each
<1> QED BY <1>3, <1>4, FlattenClosed, SoundClosed

\* What getPartitions returns is sound.
LEMMA HereSound ==
  ASSUME Last(nav).node \in Nodes
  PROVE  PartitionsHere \in Sound
<1> DEFINE n == Last(nav).node
           own == PartitionsOf(n, FALSE)
           slots == IF IsMember(n, "slots") THEN processSlots(n.o["slots"]) ELSE <<>>
           crypt == EncryptedOf(n)
<1>1. own \in Sound /\ crypt \in Sound
  BY PartitionsLoose, EncryptedOfSound
<1>2. slots \in Sound
  <2>1. CASE IsMember(n, "slots")
    BY <2>1, MemberIsNode, SlotsSound
  <2>2. CASE ~IsMember(n, "slots")
    BY <2>2, SoundClosed
  <2> QED BY <2>1, <2>2
<1>3. PartitionsHere = IF n.t # "obj" \/ InSlot THEN <<>>
                       ELSE (IF UnderEncrypted THEN <<>> ELSE own \o slots) \o crypt
  BY DEF PartitionsHere
<1> HIDE DEF own, slots, crypt
<1>4. own \o slots \in Sound /\ (own \o slots) \o crypt \in Sound /\ <<>> \o crypt \in Sound
  BY <1>1, <1>2, SoundClosed
<1> QED BY <1>3, <1>4, SoundClosed
----------------------------------------------------------------------------
\* The list of partitions as the parser makes it: parents come first, only images
\* have them, and only containers are them.
Labels == {""} \cup UNION {DOMAIN n.o : n \in Nodes}
Frames == [node : Nodes, childIdx : Nat, slotKey : Labels]
Partitions == [image : Words, etype : Types, expand : BOOLEAN, parent : Nat, size : Nat, aligned : Nat, num : Nat]

NavInv == nav \in Seq(Frames) /\ (ilPc \in {"get", "step"} => Len(nav) > 0)

Placed(list, i) ==
  /\ list[i].parent < i
  /\ list[i].parent # 0 => list[i].etype = "none" /\ list[list[i].parent].etype # "none"
  /\ list[i].aligned = RoundUp(list[i].size, D.align)
ListInv ==
  /\ desc \in DOMAIN Descs
  /\ found \in Seq(Partitions)
  /\ \A i \in 1 .. Len(found) : Placed(found, i)
  /\ D.label = "dos" => Len(found) <= 4

\* What the assumptions say of the description in use.
LEMMA DescFacts ==
  ASSUME desc \in DOMAIN Descs
  PROVE  /\ D.map \in Nodes /\ D.align \in Nat \ {0} /\ BackupTable <= D.align
         /\ \A x \in DOMAIN D.images : D.images[x].size \in Nat
         /\ LuksHeader \in Nat \ {0} /\ BackupTable \in Nat
BY IdpLayoutAssumption, NodesAssumption DEF D

\* The nearest container before an item.
LEMMA Nearest ==
  ASSUME NEW s \in Seq(Items), NEW k \in 1 .. Len(s), \E c \in 1 .. k - 1 : s[c].etype # "none"
  PROVE  \E c \in 1 .. k - 1 : s[c].etype # "none" /\ \A j \in c + 1 .. k - 1 : s[j].etype = "none"
<1>0. k \in Nat
  OBVIOUS
<1> DEFINE S == {m \in Nat : \E c \in 1 .. k - 1 : m = k - c /\ s[c].etype # "none"}
<1>1. S # {}
  <2>1. PICK c \in 1 .. k - 1 : s[c].etype # "none"
    OBVIOUS
  <2>2. k - c \in Nat
    BY <1>0
  <2> QED BY <2>1, <2>2
<1>2. PICK m \in S : \A n \in S : m <= n
  <2> HIDE DEF S
  <2>1. S \subseteq Nat
    BY DEF S
  <2> QED BY <1>1, <2>1, Least
<1>3. PICK c \in 1 .. k - 1 : m = k - c /\ s[c].etype # "none"
  OBVIOUS
<1>4. ASSUME NEW j \in c + 1 .. k - 1 PROVE s[j].etype = "none"
  <2>1. j \in 1 .. k - 1 /\ k - j \in Nat /\ ~(m <= k - j)
    BY <1>0, <1>3
  <2> QED BY <2>1, <1>2
<1> QED BY <1>3, <1>4

\* The parent of an item that is inside is the nearest container before it.
LEMMA ParentFacts ==
  ASSUME NEW items \in Sound, NEW k \in 1 .. Len(items), NEW base \in Nat
  PROVE  \/ ~items[k].inside /\ ParentOf(items, k, base) = 0
         \/ /\ items[k].inside /\ items[k].etype = "none"
            /\ \E c \in 1 .. k - 1 : ParentOf(items, k, base) = base + c /\ items[c].etype # "none"
<1> DEFINE Is(c) == items[c].etype # "none" /\ \A j \in c + 1 .. k - 1 : items[j].etype = "none"
<1>1. items \in Seq(Items)
  BY DEF Sound
<1>2. CASE ~items[k].inside
  BY <1>2 DEF ParentOf
<1>3. CASE items[k].inside
  <2>1. items[k].etype = "none" /\ \E c \in 1 .. k - 1 : items[c].etype # "none"
    BY <1>3 DEF Sound
  <2>2. \E c \in 1 .. k - 1 : Is(c)
    BY <2>1, <1>1, Nearest
  <2>3. ParentOf(items, k, base) = base + (CHOOSE c \in 1 .. k - 1 : Is(c))
    BY <1>3 DEF ParentOf
  <2>4. PICK c \in 1 .. k - 1 : c = (CHOOSE d \in 1 .. k - 1 : Is(d)) /\ Is(c)
    <3> HIDE DEF Is
    <3> QED BY <2>2
  <2> QED BY <1>3, <2>1, <2>3, <2>4
<1> QED BY <1>2, <1>3

\* What the parser's callback makes of an item.
LEMMA FilledFacts ==
  ASSUME ListInv, NEW items \in Sound, NEW k \in 1 .. Len(items),
         ~items[k].bad, Fillable(items[k], Len(found) + k)
  PROVE  LET p == Filled(items, k)
         IN  /\ p \in Partitions
             /\ p.aligned = RoundUp(p.size, D.align)
             /\ p.etype = items[k].etype
             /\ \/ p.parent = 0
                \/ p.etype = "none" /\ \E c \in 1 .. k - 1 : p.parent = Len(found) + c /\ items[c].etype # "none"
<1> DEFINE par == ParentOf(items, k, Len(found))
           size == IF items[k].etype = "none" THEN D.images[items[k].image].size ELSE 0
<1>0. Len(found) \in Nat /\ D.align \in Nat \ {0}
  BY DescFacts DEF ListInv
<1>1. items[k] \in Items
  <2>1. items \in Seq(Items)
    BY DEF Sound
  <2> QED BY <2>1
<1>2. size \in Nat
  BY DescFacts DEF ListInv, Fillable
<1>3. RoundUp(size, D.align) \in Nat
  <2> HIDE DEF size
  <2> QED BY <1>0, <1>2, RoundUpFacts
<1>4. /\ par \in Nat
      /\ \/ par = 0
         \/ items[k].etype = "none" /\ \E c \in 1 .. k - 1 : par = Len(found) + c /\ items[c].etype # "none"
  <2>1. \/ par = 0
        \/ items[k].etype = "none" /\ \E c \in 1 .. k - 1 : par = Len(found) + c /\ items[c].etype # "none"
    BY <1>0, ParentFacts
  <2> HIDE DEF par
  <2> QED BY <2>1, <1>0
<1>5. Filled(items, k) = [image |-> items[k].image, etype |-> items[k].etype, expand |-> items[k].expand = "true",
                          parent |-> par, size |-> size, aligned |-> RoundUp(size, D.align), num |-> 0]
  BY DEF Filled
<1> HIDE DEF par, size
<1>6. items[k].image \in Words /\ items[k].etype \in Types
  BY <1>1 DEF Items
<1> DEFINE al == RoundUp(size, D.align)
<1> HIDE DEF al
<1>7. al \in Nat
  BY <1>3 DEF al
<1>8. Filled(items, k) = [image |-> items[k].image, etype |-> items[k].etype, expand |-> items[k].expand = "true",
                          parent |-> par, size |-> size, aligned |-> al, num |-> 0]
  BY <1>5 DEF al
<1>9. Filled(items, k) \in Partitions
  BY <1>8, <1>2, <1>4, <1>6, <1>7 DEF Partitions
<1>10. /\ Filled(items, k).aligned = al /\ Filled(items, k).size = size
       /\ Filled(items, k).etype = items[k].etype /\ Filled(items, k).parent = par
  BY <1>8
<1> QED BY <1>4, <1>9, <1>10 DEF al

\* foreachPartitionImpl keeps the list as it should be.
LEMMA GetPartitionsKeeps ==
  ASSUME ListInv, NavInv, GetPartitions
  PROVE  ListInv'
<1> DEFINE items == PartitionsHere
           more == [k \in DOMAIN items |-> Filled(items, k)]
<1>1. nav \in Seq(Frames) /\ Len(nav) > 0
  BY DEF NavInv, GetPartitions
<1>2. items \in Sound /\ items \in Seq(Items)
  <2>1. nav[Len(nav)] \in Frames
    BY <1>1
  <2>2. Last(nav).node \in Nodes
    BY <2>1 DEF Last, Frames
  <2> QED BY <2>2, HereSound DEF Sound
<1>3. CASE UNCHANGED found
  BY <1>3 DEF ListInv, GetPartitions, Placed, D
<1>4. CASE /\ \A k \in DOMAIN items : ~items[k].bad /\ Fillable(items[k], Len(found) + k)
           /\ found' = found \o more
  <2> HIDE DEF items
  <2>0. DOMAIN items = 1 .. Len(items) /\ Len(items) \in Nat /\ Len(found) \in Nat /\ found \in Seq(Partitions)
    BY <1>2 DEF ListInv
  <2>1. ASSUME NEW k \in 1 .. Len(items)
        PROVE  /\ more[k] \in Partitions
               /\ more[k].aligned = RoundUp(more[k].size, D.align)
               /\ more[k].etype = items[k].etype
               /\ \/ more[k].parent = 0
                  \/ more[k].etype = "none" /\ \E c \in 1 .. k - 1 : more[k].parent = Len(found) + c /\ items[c].etype # "none"
    BY <1>2, <1>4, <2>0, FilledFacts
  <2>2. more \in Seq(Partitions) /\ Len(more) = Len(items)
    <3>1. more \in [1 .. Len(items) -> Partitions]
      BY <2>0, <2>1
    <3> HIDE DEF more
    <3> QED BY <3>1, <2>0, FunctionIsSeq
  <2> HIDE DEF more
  <2>3. /\ found' \in Seq(Partitions) /\ Len(found') = Len(found) + Len(more)
        /\ \A i \in 1 .. Len(found) + Len(more) :
             found'[i] = IF i <= Len(found) THEN found[i] ELSE more[i - Len(found)]
    <3>1. /\ found \o more \in Seq(Partitions) /\ Len(found \o more) = Len(found) + Len(more)
          /\ \A i \in 1 .. Len(found) + Len(more) :
               (found \o more)[i] = IF i <= Len(found) THEN found[i] ELSE more[i - Len(found)]
      BY <2>0, <2>2, ConcatProperties
    <3> QED BY <3>1, <1>4, Zenon
  <2>4. ASSUME NEW i \in 1 .. Len(found) + Len(more) PROVE Placed(found', i)
    <3>1. CASE i <= Len(found)
      <4>1. i \in 1 .. Len(found) /\ found'[i] = found[i]
        BY <3>1, <2>0, <2>2, <2>3
      <4>2. Placed(found, i)
        BY <4>1 DEF ListInv
      <4>3. found[i].parent \in Nat
        <5>1. found[i] \in Partitions
          BY <4>1, <2>0
        <5> QED BY <5>1 DEF Partitions
      <4>4. found[i].parent # 0 => found'[found[i].parent] = found[found[i].parent]
        <5>1. found[i].parent # 0 => found[i].parent \in 1 .. Len(found) + Len(more) /\ found[i].parent <= Len(found)
          BY <4>1, <4>2, <4>3, <2>0, <2>2 DEF Placed
        <5> QED BY <5>1, <2>3
      <4> QED BY <4>1, <4>2, <4>4 DEF Placed
    <3>2. CASE ~(i <= Len(found))
      <4> DEFINE k == i - Len(found)
      <4>1. k \in 1 .. Len(items) /\ found'[i] = more[k] /\ i = Len(found) + k
        BY <3>2, <2>0, <2>2, <2>3
      <4> HIDE DEF k
      <4>2. CASE more[k].parent = 0
        BY <4>1, <4>2, <2>1, <2>0 DEF Placed
      <4>3. CASE more[k].parent # 0
        <5>1. more[k].etype = "none"
          BY <2>1, <4>1, <4>3
        <5>2. PICK c \in 1 .. k - 1 : more[k].parent = Len(found) + c /\ items[c].etype # "none"
          BY <2>1, <4>1, <4>3
        <5>3. /\ Len(found) + c \in 1 .. Len(found) + Len(more) /\ ~(Len(found) + c <= Len(found))
              /\ (Len(found) + c) - Len(found) = c /\ Len(found) + c < i /\ c \in 1 .. Len(items)
          BY <4>1, <2>0, <2>2
        <5>4. found'[Len(found) + c] = more[c] /\ more[c].etype = items[c].etype
          BY <5>3, <2>3, <2>1
        <5>5. more[k].aligned = RoundUp(more[k].size, D.align)
          BY <2>1, <4>1
        <5> QED BY <4>1, <5>1, <5>2, <5>3, <5>4, <5>5 DEF Placed
      <4> QED BY <4>2, <4>3
    <3> QED BY <3>1, <3>2
  <2>5. D' = D /\ desc' = desc
    BY DEF GetPartitions, D
  <2>6. D.label = "dos" => Len(found) + Len(more) <= 4
    <3> SUFFICES ASSUME D.label = "dos" PROVE Len(found) + Len(more) <= 4
      OBVIOUS
    <3>1. CASE Len(items) = 0
      BY <3>1, <2>0, <2>2 DEF ListInv
    <3>2. CASE Len(items) # 0
      <4>1. Len(items) \in DOMAIN items
        BY <3>2, <2>0
      <4>2. Fillable(items[Len(items)], Len(found) + Len(items))
        BY <4>1, <1>4
      <4> QED BY <4>2, <2>2 DEF Fillable
    <3> QED BY <3>1, <3>2
  <2>7. \A i \in 1 .. Len(found') : Placed(found, i)'
    BY <2>3, <2>4, <2>5 DEF Placed
  <2> QED BY <2>3, <2>5, <2>6, <2>7 DEF ListInv
<1> QED BY <1>3, <1>4 DEF GetPartitions

\* The navigator stays in the description.
LEMMA StepInKeeps ==
  ASSUME NavInv, StepIn
  PROVE  NavInv'
<1> DEFINE f == Last(nav)
           keys == Members(f.node)
           key == keys[f.childIdx + 1]
           child == MemberAt(f.node, key)
           here == [f EXCEPT !.childIdx = @ + 1]
           up == nav[Len(nav) - 1]
           isSlot == Len(nav) >= 2 /\ f.node.t = "obj" /\ up.node.t = "obj"
                     /\ Members(up.node)[up.childIdx] = "slots"
           next == Frame(child, IF isSlot THEN key ELSE f.slotKey)
<1>1. nav \in Seq(Frames) /\ Len(nav) > 0
  BY DEF NavInv, StepIn
<1>2. f \in Frames
  BY <1>1 DEF Last
<1>3. f.node \in Nodes /\ f.childIdx \in Nat /\ f.slotKey \in Labels
  <2> HIDE DEF f
  <2> QED BY <1>2 DEF Frames
<1>4. f.childIdx < Len(keys)
  BY DEF StepIn, CanStepIn
<1>5. child \in Nodes /\ (f.node.t = "obj" => key \in Labels)
  <2> HIDE DEF f
  <2>1. CASE f.node.t = "val"
    <3>1. keys = <<>>
      BY <2>1 DEF Members
    <3> QED BY <3>1, <1>3, <1>4
  <2>2. CASE f.node.t = "arr"
    <3>1. f.node.a \in Seq(Nodes)
      BY <2>2, <1>3, NodesAssumption
    <3>2. keys = [k \in DOMAIN f.node.a |-> k]
      BY <2>2 DEF Members
    <3>3. Len(keys) = Len(f.node.a) /\ DOMAIN f.node.a = 1 .. Len(f.node.a) /\ Len(f.node.a) \in Nat
      <4>1. DOMAIN f.node.a = 1 .. Len(f.node.a) /\ Len(f.node.a) \in Nat
        BY <3>1
      <4>2. keys \in [1 .. Len(f.node.a) -> Nat]
        BY <3>2, <4>1
      <4> QED BY <4>1, <4>2, FunctionIsSeq
    <3>4. f.childIdx + 1 \in 1 .. Len(f.node.a)
      BY <1>3, <1>4, <3>3
    <3>5. key = f.childIdx + 1
      BY <3>2, <3>3, <3>4
    <3>6. child = f.node.a[f.childIdx + 1]
      BY <2>2, <3>5 DEF MemberAt
    <3> HIDE DEF child
    <3> QED BY <2>2, <3>1, <3>4, <3>6
  <2>3. CASE f.node.t = "obj"
    <3>1. f.node.keys \in Seq(DOMAIN f.node.o) /\ \A k \in DOMAIN f.node.o : f.node.o[k] \in Nodes
      BY <2>3, <1>3, NodesAssumption
    <3>2. keys = f.node.keys
      BY <2>3 DEF Members
    <3> HIDE DEF keys
    <3>3. key \in DOMAIN f.node.o
      <4>1. keys \in Seq(DOMAIN f.node.o) /\ f.childIdx + 1 \in 1 .. Len(keys)
        BY <3>1, <3>2, <1>3, <1>4
      <4> QED BY <4>1
    <3> HIDE DEF key
    <3>4. child = f.node.o[key]
      BY <2>3 DEF MemberAt
    <3> QED BY <1>3, <3>1, <3>3, <3>4 DEF Labels
  <2> QED BY <2>1, <2>2, <2>3, <1>3, NodesAssumption
<1>6. nav' = Append(Front(nav), here) \o <<next>>
  BY DEF StepIn, StepInFrom
<1>7. here \in Frames
  <2> HIDE DEF f
  <2>1. here = [node |-> f.node, childIdx |-> f.childIdx + 1, slotKey |-> f.slotKey]
    BY <1>2 DEF Frames
  <2> QED BY <2>1, <1>3 DEF Frames
<1>8. next \in Frames
  <2>1. (IF isSlot THEN key ELSE f.slotKey) \in Labels
    <3> HIDE DEF f, key
    <3> QED BY <1>3, <1>5
  <2> HIDE DEF child, isSlot, key, f
  <2> QED BY <2>1, <1>5 DEF Frame, Frames
<1> HIDE DEF here, next
<1>9. Front(nav) \in Seq(Frames)
  BY <1>1 DEF Front
<1>10. nav' \in Seq(Frames) /\ Len(nav') > 0
  <2>1. Append(Front(nav), here) \in Seq(Frames)
    BY <1>7, <1>9
  <2> QED BY <1>6, <1>8, <2>1
<1> QED BY <1>10 DEF NavInv

\* Every step keeps the navigator on nodes of the description.
LEMMA NavKeeps ==
  ASSUME NavInv, ListInv, [LayoutNext]_ilVars
  PROVE  NavInv'
<1>1. CASE LoadData
  <2>1. CASE nav' = <<Frame(D.map, "")>>
    <3>1. Frame(D.map, "") \in Frames
      BY DescFacts DEF ListInv, Frame, Frames, Labels
    <3> DEFINE f == Frame(D.map, "")
    <3> HIDE DEF f
    <3>2. nav' = <<f>> /\ f \in Frames
      BY <2>1, <3>1 DEF f
    <3>3. <<f>> \in Seq(Frames) /\ Len(<<f>>) = 1
      BY <3>2
    <3>4. nav' \in Seq(Frames) /\ Len(nav') > 0
      BY <3>2, <3>3
    <3> QED BY <3>4 DEF NavInv
  <2>2. CASE UNCHANGED nav /\ ilPc' = "refused"
    BY <2>2 DEF NavInv
  <2> QED BY <1>1, <2>1, <2>2 DEF LoadData
<1>2. CASE StepIn
  BY <1>2, StepInKeeps
<1>3. CASE StepOut
  <2>1. nav \in Seq(Frames) /\ Len(nav) > 0
    BY <1>3 DEF NavInv, StepOut
  <2>2. Front(nav) \in Seq(Frames) /\ Len(Front(nav)) = Len(nav) - 1
    <3>1. \A i \in 1 .. Len(nav) - 1 : nav[i] \in Frames
      BY <2>1
    <3>2. Len(nav) \in Nat
      BY <2>1
    <3>3. PICK n \in Nat : n = Len(nav) - 1
      BY <2>1, <3>2, SMTT(40)
    <3>4. SubSeq(nav, 1, n) \in Seq(Frames) /\ Len(SubSeq(nav, 1, n)) = IF 1 <= n THEN n - 1 + 1 ELSE 0
      BY <3>1, <3>3, SubSeqProperties
    <3> QED BY <3>2, <3>3, <3>4 DEF Front
  <2>3. nav' = Front(nav) /\ ilPc' = IF Len(nav) = 1 THEN "number" ELSE "step"
    BY <1>3 DEF StepOut
  <2> QED BY <2>1, <2>2, <2>3 DEF NavInv
<1>4. CASE \E d \in DOMAIN Descs : NextDescription(d)
  BY <1>4 DEF NextDescription, NavInv
<1>5. CASE GetPartitions
  BY <1>5 DEF GetPartitions, NavInv
<1>6. CASE Number \/ CanProvision \/ AppendRoot \/ Commit \/ AppendChild \/ Provisioned
  <2>1. UNCHANGED nav /\ ilPc' \notin {"get", "step"}
    BY <1>6 DEF Number, CanProvision, AppendRoot, Commit, AppendChild, Provisioned
  <2> QED BY <2>1 DEF NavInv
<1>7. CASE UNCHANGED ilVars
  BY <1>7 DEF ilVars, NavInv
<1> QED BY <1>1, <1>2, <1>3, <1>4, <1>5, <1>6, <1>7 DEF LayoutNext, LayoutStep

\* The partitions of a list, up to the n-th, whose parent is c.
Same(list, c, n) == {j \in 1 .. n : list[j].parent = c}

\* There are finitely many.
LEMMA SameFinite ==
  ASSUME NEW list, NEW c, NEW n \in Nat
  PROVE  IsFiniteSet(Same(list, c, n)) /\ Cardinality(Same(list, c, n)) \in Nat
<1>1. IsFiniteSet(1 .. n)
  BY FS_Interval
<1>2. Same(list, c, n) \in SUBSET (1 .. n)
  BY DEF Same
<1>3. IsFiniteSet(Same(list, c, n))
  BY <1>1, <1>2, FS_Subset
<1> QED BY <1>3, FS_CardinalityType

\* Numbering changes nothing else.
LEMMA NumberFacts ==
  ASSUME ListInv, Number
  PROVE  /\ found' \in Seq(Partitions) /\ Len(found') = Len(found)
         /\ \A i \in 1 .. Len(found) :
              /\ found'[i].etype = found[i].etype /\ found'[i].parent = found[i].parent
              /\ found'[i].size = found[i].size /\ found'[i].aligned = found[i].aligned
              /\ found'[i].num = Cardinality(Same(found, found[i].parent, i))
<1>0. found \in Seq(Partitions) /\ Len(found) \in Nat /\ DOMAIN found = 1 .. Len(found)
  BY DEF ListInv
<1>1. found' = [i \in 1 .. Len(found) |-> [found[i] EXCEPT !.num = Cardinality(Same(found, found[i].parent, i))]]
  BY <1>0 DEF Number, walkTree, Same
<1>2. ASSUME NEW i \in 1 .. Len(found)
      PROVE  /\ found'[i] \in Partitions
             /\ found'[i].etype = found[i].etype /\ found'[i].parent = found[i].parent
             /\ found'[i].size = found[i].size /\ found'[i].aligned = found[i].aligned
             /\ found'[i].num = Cardinality(Same(found, found[i].parent, i))
  <2> DEFINE card == Cardinality(Same(found, found[i].parent, i))
             p == found[i]
  <2>1. p \in Partitions
    BY <1>0
  <2>2. card \in Nat
    BY SameFinite
  <2>3. found'[i] = [p EXCEPT !.num = card]
    BY <1>1
  <2> HIDE DEF card, p
  <2>4. /\ found'[i] \in Partitions /\ found'[i].etype = p.etype /\ found'[i].parent = p.parent
        /\ found'[i].size = p.size /\ found'[i].aligned = p.aligned /\ found'[i].num = card
    BY <2>1, <2>2, <2>3 DEF Partitions
  <2> QED BY <2>4 DEF card, p
<1>3. found' \in Seq(Partitions) /\ Len(found') = Len(found)
  <2>1. found' \in [1 .. Len(found) -> Partitions]
    BY <1>1, <1>2
  <2> QED BY <2>1, <1>0, FunctionIsSeq
<1> QED BY <1>2, <1>3

\* Every step keeps the list as it should be.
LEMMA ListKeeps ==
  ASSUME NavInv, ListInv, [LayoutNext]_ilVars
  PROVE  ListInv'
<1>1. CASE GetPartitions
  BY <1>1, GetPartitionsKeeps
<1>2. CASE Number
  <2>1. D' = D /\ desc' = desc
    BY <1>2 DEF Number, D
  <2>2. /\ found' \in Seq(Partitions) /\ Len(found') = Len(found)
        /\ \A i \in 1 .. Len(found) :
              /\ found'[i].etype = found[i].etype /\ found'[i].parent = found[i].parent
              /\ found'[i].size = found[i].size /\ found'[i].aligned = found[i].aligned
    BY <1>2, NumberFacts
  <2>3. ASSUME NEW i \in 1 .. Len(found) PROVE Placed(found, i)'
    <3>1. Placed(found, i) /\ found[i].parent \in Nat /\ Len(found) \in Nat
      <4>1. found[i] \in Partitions
        BY DEF ListInv
      <4> QED BY <4>1, SMTT(40) DEF ListInv, Partitions
    <3>2. found[i].parent # 0 => found[i].parent \in 1 .. Len(found)
      BY <3>1 DEF Placed
    <3> QED BY <3>1, <3>2, <2>1, <2>2 DEF Placed
  <2> QED BY <2>1, <2>2, <2>3 DEF ListInv
<1>3. CASE \E d \in DOMAIN Descs : NextDescription(d)
  <2>1. found' = <<>> /\ desc' \in DOMAIN Descs
    BY <1>3 DEF NextDescription
  <2> QED BY <2>1 DEF ListInv
<1>4. CASE UNCHANGED <<desc, found>>
  BY <1>4 DEF ListInv, Placed, D
<1>5. CASE LoadData \/ StepIn \/ StepOut \/ CanProvision \/ AppendRoot \/ Commit \/ AppendChild \/ Provisioned
  BY <1>5, <1>4 DEF LoadData, StepIn, StepOut, CanProvision, AppendRoot, Commit, AppendChild, Provisioned
<1>6. CASE UNCHANGED ilVars
  BY <1>6, <1>4 DEF ilVars
<1> QED BY <1>1, <1>2, <1>3, <1>5, <1>6 DEF LayoutNext, LayoutStep

\* The parser and its navigator, at any time.
LEMMA ParseInvHolds == LayoutSpec => [](NavInv /\ ListInv)
<1>1. LayoutInit => NavInv /\ ListInv
  BY DEF LayoutInit, NavInv, ListInv
<1> QED BY <1>1, NavKeeps, ListKeeps, PTL DEF LayoutSpec

\* What the parser hands to IDPdevice is what provisioning relies on, for any
\* description: parents come first, are containers, and only images have them.
THEOREM ParsedAlwaysProvisionable == LayoutSpec => []ParsedIsProvisionable
<1>1. ListInv => ParsedIsProvisionable
  BY DEF ListInv, ParsedIsProvisionable, Placed
<1> QED BY <1>1, ParseInvHolds, PTL
----------------------------------------------------------------------------
\* A table being filled, for any list of partitions: the partitions below c, up to
\* the n-th of the list, have their entries in it, each where its number says and
\* as long as it needs; and the table has used what they need, or all there is
\* once one of them takes all the room.
Entries == [start : Nat, len : Nat, of : Nat]
StartOf(align, tab) == IF tab = <<>> THEN align ELSE Last(tab).start + Last(tab).len
Takes(list, needs, i) == list[i].expand \/ needs[i] = 0
Laid(list, align, tab, room, c, needs, n) ==
  /\ tab \in Seq(Entries)
  /\ Len(tab) = Cardinality(Same(list, c, n))
  /\ \A i \in Same(list, c, n) :
       /\ list[i].num \in 1 .. Len(tab)
       /\ tab[list[i].num].of = i /\ needs[i] <= tab[list[i].num].len
  /\ \/ /\ \A i \in Same(list, c, n) : ~Takes(list, needs, i)
        /\ StartOf(align, tab) = align + Totals(needs)[n]
     \/ /\ \E i \in Same(list, c, n) : Takes(list, needs, i)
        /\ StartOf(align, tab) = room

\* The needs of those below c, which the room is enough for.
Sized(list, align, room, c, needs) ==
  /\ needs \in Seq(Nat) /\ Len(needs) = Len(list)
  /\ \A i \in 1 .. Len(list) : list[i].parent # c => needs[i] = 0
  /\ room \in Nat /\ align + Totals(needs)[Len(list)] <= room
Numbered(list) == \A i \in 1 .. Len(list) : list[i].num = Cardinality(Same(list, list[i].parent, i))

\* One more partition is of the table or not.
LEMMA SameStep ==
  ASSUME NEW list, NEW c, NEW n \in Nat
  PROVE  /\ list[n + 1].parent # c => Same(list, c, n + 1) = Same(list, c, n)
         /\ list[n + 1].parent = c =>
              /\ Same(list, c, n + 1) = Same(list, c, n) \cup {n + 1}
              /\ Cardinality(Same(list, c, n + 1)) = Cardinality(Same(list, c, n)) + 1
<1>1. n + 1 \notin Same(list, c, n)
  BY DEF Same
<1>2. list[n + 1].parent # c => Same(list, c, n + 1) = Same(list, c, n)
  BY DEF Same
<1>3. list[n + 1].parent = c => Same(list, c, n + 1) = Same(list, c, n) \cup {n + 1}
  BY DEF Same
<1>4. Cardinality(Same(list, c, n) \cup {n + 1}) = Cardinality(Same(list, c, n)) + 1
  BY <1>1, SameFinite, FS_AddElement
<1> QED BY <1>2, <1>3, <1>4

\* A table has no more entries than partitions were looked at.
LEMMA SameBound ==
  ASSUME NEW list, NEW c, NEW n \in Nat
  PROVE  Cardinality(Same(list, c, n)) <= n
<1>1. IsFiniteSet(1 .. n) /\ Cardinality(1 .. n) = n
  BY FS_Interval
<1>2. Same(list, c, n) \in SUBSET (1 .. n)
  BY DEF Same
<1> QED BY <1>1, <1>2, FS_Subset

\* An empty table.
LEMMA LaidEmpty ==
  ASSUME NEW list, NEW align \in Nat, NEW room, NEW c, NEW needs \in Seq(Nat)
  PROVE  Laid(list, align, <<>>, room, c, needs, 0)
<1>1. Same(list, c, 0) = {}
  BY DEF Same
<1>2. Cardinality(Same(list, c, 0)) = 0
  BY <1>1, FS_EmptySet
<1>3. Totals(needs)[0] = 0
  BY TotalsStep
<1>4. StartOf(align, <<>>) = align
  BY DEF StartOf
<1>5. <<>> \in Seq(Entries) /\ Len(<<>>) = 0
  OBVIOUS
<1> QED BY <1>1, <1>2, <1>3, <1>4, <1>5 DEF Laid

\* A partition of another table.
LEMMA LaidSkip ==
  ASSUME NEW list, NEW align, NEW tab, NEW room, NEW c, NEW needs, NEW n \in Nat,
         n + 1 \in 1 .. Len(list), list[n + 1].parent # c,
         Sized(list, align, room, c, needs), Laid(list, align, tab, room, c, needs, n)
  PROVE  Laid(list, align, tab, room, c, needs, n + 1)
<1>1. Same(list, c, n + 1) = Same(list, c, n)
  BY SameStep
<1>2. Totals(needs)[n + 1] = Totals(needs)[n]
  <2>1. n + 1 \in 1 .. Len(needs) /\ needs[n + 1] = 0 /\ needs \in Seq(Nat)
    BY DEF Sized
  <2>2. Totals(needs)[n + 1] = Totals(needs)[n] + needs[n + 1] /\ Totals(needs)[n] \in Nat
    BY <2>1, TotalsAt
  <2> QED BY <2>1, <2>2
<1> QED BY <1>1, <1>2 DEF Laid

\* What appendPartition does with a partition of this table: size is what it asks
\* for, 0 for all the room, and len what it is given.
Asks(list, align, needs, i, size) ==
  /\ size \in Nat
  /\ list[i].expand => size = 0
  /\ ~list[i].expand => RoundUp(size, align) = needs[i] /\ (size = 0 <=> needs[i] = 0)
Given(align, tab, room, size) == IF size = 0 THEN room - StartOf(align, tab) ELSE RoundUp(size, align)

\* The room left before the n+1-th, while none before it took all.
LEMMA RoomLeft ==
  ASSUME NEW list, NEW align \in Nat \ {0}, NEW room, NEW c, NEW needs, NEW n \in Nat,
         n + 1 \in 1 .. Len(list), Sized(list, align, room, c, needs)
  PROVE  /\ room \in Nat /\ needs[n + 1] \in Nat /\ Totals(needs)[n] \in Nat
         /\ Totals(needs)[n + 1] = Totals(needs)[n] + needs[n + 1]
         /\ align + Totals(needs)[n] + needs[n + 1] <= room
<1>1. needs \in Seq(Nat) /\ n + 1 \in 1 .. Len(needs) /\ room \in Nat
      /\ align + Totals(needs)[Len(needs)] <= room
  BY DEF Sized
<1>2. /\ Totals(needs)[n] \in Nat /\ needs[n + 1] \in Nat /\ Totals(needs)[n + 1] \in Nat
      /\ Totals(needs)[n + 1] = Totals(needs)[n] + needs[n + 1]
      /\ Totals(needs)[n + 1] <= Totals(needs)[Len(needs)] /\ Totals(needs)[Len(needs)] \in Nat
  BY <1>1, TotalsAt
<1> QED BY <1>1, <1>2, SMTT(40)

\* appendPartition, where there is room.
LEMMA LaidAppend ==
  ASSUME NEW list \in Seq(Partitions), NEW align \in Nat \ {0}, NEW tab, NEW room, NEW c, NEW needs,
         NEW n \in Nat, n + 1 \in 1 .. Len(list), list[n + 1].parent = c, Numbered(list),
         Sized(list, align, room, c, needs), Laid(list, align, tab, room, c, needs, n),
         NEW size, Asks(list, align, needs, n + 1, size),
         Given(align, tab, room, size) > 0, StartOf(align, tab) + Given(align, tab, room, size) <= room
  PROVE  LET e == [start |-> StartOf(align, tab), len |-> Given(align, tab, room, size), of |-> n + 1]
         IN  Laid(list, align, Append(tab, e), room, c, needs, n + 1)
<1> DEFINE st == StartOf(align, tab)
           g == Given(align, tab, room, size)
           e == [start |-> st, len |-> g, of |-> n + 1]
           new == Append(tab, e)
           tot == Totals(needs)[n]
           need == needs[n + 1]
<1>1. /\ room \in Nat /\ need \in Nat /\ tot \in Nat
      /\ Totals(needs)[n + 1] = tot + need /\ (align + tot) + need <= room
  BY RoomLeft
<1>2. size \in Nat /\ (size # 0 => ~list[n + 1].expand /\ g = need /\ need # 0)
      /\ (size = 0 => g = room - st /\ Takes(list, needs, n + 1))
  BY DEF Asks, Given, Takes
<1>3. tab \in Seq(Entries) /\ Len(tab) = Cardinality(Same(list, c, n)) /\ Len(tab) \in Nat
  BY DEF Laid
<1>4. /\ Same(list, c, n + 1) = Same(list, c, n) \cup {n + 1}
      /\ Cardinality(Same(list, c, n + 1)) = Len(tab) + 1
  BY <1>3, SameStep
<1>5. list[n + 1].num = Len(tab) + 1
  BY <1>4 DEF Numbered
<1>6. g > 0 /\ st + g <= room
  OBVIOUS
<1> HIDE DEF st, g, tot, need
<1>7. (st \in Nat /\ g \in Nat) /\ (\A i \in Same(list, c, n) : ~Takes(list, needs, i)) /\ st = align + tot
  <2>1. CASE (\A i \in Same(list, c, n) : ~Takes(list, needs, i)) /\ st = align + tot
    <3>1. st \in Nat
      BY <2>1, <1>1
    <3>2. g \in Nat
      BY <3>1, <1>1, <1>2, <1>6, SMTT(40)
    <3> QED BY <2>1, <3>1, <3>2
  <2>2. CASE st = room
    BY <2>2, <1>1, <1>2, <1>6
  <2> QED BY <2>1, <2>2 DEF Laid, st, tot
<1>8. e \in Entries
  BY <1>7 DEF Entries
<1>9. e.start = st /\ e.len = g /\ e.of = n + 1
  OBVIOUS
<1> HIDE DEF e
<1>10. /\ new \in Seq(Entries) /\ Len(new) = Len(tab) + 1 /\ new[Len(tab) + 1] = e
       /\ \A k \in 1 .. Len(tab) : new[k] = tab[k]
  BY <1>3, <1>8
<1> HIDE DEF new
<1>11. StartOf(align, new) = st + g
  <2>1. new # <<>> /\ Last(new) = e
    BY <1>3, <1>10 DEF Last
  <2> QED BY <2>1, <1>9 DEF StartOf
<1>12. need <= g
  BY <1>1, <1>2, <1>7
<1>13. ASSUME NEW i \in Same(list, c, n + 1)
       PROVE  /\ list[i].num \in 1 .. Len(new)
              /\ new[list[i].num].of = i /\ needs[i] <= new[list[i].num].len
  <2>1. CASE i = n + 1
    BY <2>1, <1>3, <1>5, <1>9, <1>10, <1>12 DEF need
  <2>2. CASE i \in Same(list, c, n)
    <3>1. /\ list[i].num \in 1 .. Len(tab)
          /\ tab[list[i].num].of = i /\ needs[i] <= tab[list[i].num].len
      BY <2>2 DEF Laid
    <3> QED BY <3>1, <1>3, <1>10, SMTT(40)
  <2> QED BY <2>1, <2>2, <1>4
<1>14. \/ /\ \A i \in Same(list, c, n + 1) : ~Takes(list, needs, i)
          /\ StartOf(align, new) = align + Totals(needs)[n + 1]
       \/ /\ \E i \in Same(list, c, n + 1) : Takes(list, needs, i)
          /\ StartOf(align, new) = room
  <2>1. CASE size = 0
    <3>1. st + g = room
      BY <2>1, <1>1, <1>2, <1>7
    <3>2. n + 1 \in Same(list, c, n + 1) /\ Takes(list, needs, n + 1)
      BY <2>1, <1>2, <1>4
    <3> QED BY <3>1, <3>2, <1>11
  <2>2. CASE size # 0
    <3>1. ~Takes(list, needs, n + 1)
      BY <2>2, <1>2 DEF Takes, need
    <3>2. st + g = align + Totals(needs)[n + 1]
      BY <2>2, <1>1, <1>2, <1>7
    <3> QED BY <3>1, <3>2, <1>4, <1>7, <1>11
  <2> QED BY <2>1, <2>2
<1>15. Laid(list, align, new, room, c, needs, n + 1)
  BY <1>4, <1>10, <1>13, <1>14 DEF Laid
<1> QED BY <1>15 DEF new, e, st, g

\* Where there is no room for the next, one before it took it all, or it has no
\* size itself, or the table has no entry left.
LEMMA LaidFull ==
  ASSUME NEW list, NEW align \in Nat \ {0}, NEW tab, NEW room, NEW c, NEW needs,
         NEW n \in Nat, n + 1 \in 1 .. Len(list),
         Sized(list, align, room, c, needs), Laid(list, align, tab, room, c, needs, n),
         NEW size, Asks(list, align, needs, n + 1, size),
         ~(Given(align, tab, room, size) > 0 /\ StartOf(align, tab) + Given(align, tab, room, size) <= room)
  PROVE  needs[n + 1] = 0 \/ \E i \in Same(list, c, n) : Takes(list, needs, i)
<1> SUFFICES ASSUME needs[n + 1] # 0, StartOf(align, tab) = align + Totals(needs)[n] PROVE FALSE
  BY DEF Laid
<1> DEFINE st == StartOf(align, tab)
           g == Given(align, tab, room, size)
           tot == Totals(needs)[n]
           need == needs[n + 1]
<1>1. room \in Nat /\ need \in Nat /\ tot \in Nat /\ (align + tot) + need <= room
  BY RoomLeft
<1>2. size \in Nat /\ (size # 0 => g = need) /\ (size = 0 => g = room - st)
  BY DEF Asks, Given
<1>3. st = align + tot /\ need # 0 /\ ~(g > 0 /\ st + g <= room)
  OBVIOUS
<1> HIDE DEF st, g, tot, need
<1> QED BY <1>1, <1>2, <1>3
----------------------------------------------------------------------------
\* What the two kinds of table are made for: the disk's, with the sizes that
\* getSize computes, and a container's, with the rounded sizes of its children.
Own(i) == found[i].aligned
ChildNeeds(c) == SizesBelow(c, Own)
RootNeeds == SizesBelow(0, getSize)

\* What the list says of a partition.
LEMMA FoundFacts ==
  ASSUME ListInv, NEW i \in 1 .. Len(found)
  PROVE  /\ found[i] \in Partitions /\ found[i].parent \in Nat /\ found[i].size \in Nat
         /\ found[i].aligned \in Nat /\ Multiple(found[i].aligned, D.align)
         /\ found[i].size <= found[i].aligned
         /\ found[i].aligned = RoundUp(found[i].size, D.align)
         /\ (found[i].size = 0 <=> found[i].aligned = 0)
         /\ found[i].parent < i /\ found[i].etype \in Types /\ found[i].expand \in BOOLEAN
         /\ found[i].parent # 0 =>
              /\ found[i].etype = "none" /\ found[i].parent \in 1 .. Len(found)
              /\ found[found[i].parent].etype # "none"
<1>1. found[i] \in Partitions
  BY DEF ListInv
<1>2. /\ found[i].parent \in Nat /\ found[i].size \in Nat /\ found[i].aligned \in Nat
      /\ found[i].etype \in Types /\ found[i].expand \in BOOLEAN
  BY <1>1 DEF Partitions
<1>3. Placed(found, i) /\ D.align \in Nat \ {0} /\ Len(found) \in Nat
  BY DescFacts DEF ListInv
<1>4. found[i].aligned = RoundUp(found[i].size, D.align)
  BY <1>3 DEF Placed
<1>5. /\ found[i].size <= found[i].aligned /\ Multiple(found[i].aligned, D.align)
      /\ Multiple(found[i].size, D.align) => found[i].aligned = found[i].size
  <2>1. PICK s \in Nat, a \in Nat \ {0} : s = found[i].size /\ a = D.align
    BY <1>2, <1>3
  <2>2. RoundUp(s, a) \in Nat /\ s <= RoundUp(s, a) /\ Multiple(RoundUp(s, a), a)
        /\ (Multiple(s, a) => RoundUp(s, a) = s)
    BY RoundUpFacts
  <2> QED BY <1>4, <2>1, <2>2
<1>6. found[i].size = 0 => Multiple(found[i].size, D.align)
  <2>1. 0 = 0 * D.align
    BY <1>3
  <2> QED BY <2>1 DEF Multiple
<1>7. found[i].size = 0 <=> found[i].aligned = 0
  BY <1>2, <1>5, <1>6
<1>8. found[i].parent < i /\ (found[i].parent # 0 => found[i].parent \in 1 .. Len(found))
  BY <1>2, <1>3 DEF Placed
<1> QED BY <1>1, <1>2, <1>3, <1>4, <1>5, <1>7, <1>8 DEF Placed

\* Multiples of the alignment add up to one.
LEMMA MultipleAdd ==
  ASSUME NEW a \in Nat, NEW x, NEW y, Multiple(x, a), Multiple(y, a)
  PROVE  Multiple(x + y, a)
<1>1. PICK j \in Nat : x = j * a
  BY DEF Multiple
<1>2. PICK k \in Nat : y = k * a
  BY DEF Multiple
<1>3. j * a + k * a = (j + k) * a
  OBVIOUS
<1>4. j + k \in Nat /\ x + y = (j + k) * a
  BY <1>1, <1>2, <1>3
<1> QED BY <1>4 DEF Multiple

\* What the children of a container need, each and together.
LEMMA ChildNeedsFacts ==
  ASSUME ListInv, NEW c
  PROVE  /\ ChildNeeds(c) \in Seq(Nat) /\ Len(ChildNeeds(c)) = Len(found)
         /\ \A i \in 1 .. Len(found) :
              ChildNeeds(c)[i] = IF found[i].parent = c THEN found[i].aligned ELSE 0
         /\ Multiple(Totals(ChildNeeds(c))[Len(found)], D.align)
         /\ Totals(ChildNeeds(c))[Len(found)] \in Nat
<1>0. found \in Seq(Partitions) /\ Len(found) \in Nat /\ DOMAIN found = 1 .. Len(found) /\ D.align \in Nat
  BY DescFacts DEF ListInv
<1>1. ChildNeeds(c) = [i \in 1 .. Len(found) |-> IF found[i].parent = c THEN found[i].aligned ELSE 0]
  BY <1>0 DEF ChildNeeds, SizesBelow, Own
<1> DEFINE s == ChildNeeds(c)
<1> HIDE DEF s
<1>2. \A i \in 1 .. Len(found) : s[i] = IF found[i].parent = c THEN found[i].aligned ELSE 0
  BY <1>1 DEF s
<1>3. Multiple(0, D.align)
  <2>1. 0 = 0 * D.align
    BY <1>0
  <2> QED BY <2>1 DEF Multiple
<1>4. \A i \in 1 .. Len(found) : s[i] \in Nat /\ Multiple(s[i], D.align)
  BY <1>2, <1>3, FoundFacts, SMTT(40)
<1>5. s \in Seq(Nat) /\ Len(s) = Len(found)
  <2>1. s \in [1 .. Len(found) -> Nat]
    BY <1>1, <1>4 DEF s
  <2> QED BY <2>1, <1>0, FunctionIsSeq
<1>6. Len(found) \in 0 .. Len(s)
  BY <1>0, <1>5
<1>7. Multiple(Totals(s)[Len(found)], D.align)
  BY <1>0, <1>4, <1>5, <1>6, TotalsMultiple
<1>8. Totals(s)[Len(found)] \in Nat
  <2>1. Totals(s) \in [0 .. Len(s) -> Nat]
    BY <1>5, TotalsStep
  <2> QED BY <2>1, <1>6
<1> QED BY <1>2, <1>5, <1>7, <1>8 DEF s

\* A child is no larger than its container's children together.
LEMMA ChildInSum ==
  ASSUME ListInv, NEW i \in 1 .. Len(found)
  PROVE  found[i].aligned <= Totals(ChildNeeds(found[i].parent))[Len(found)]
<1> DEFINE s == ChildNeeds(found[i].parent)
<1>1. s \in Seq(Nat) /\ Len(s) = Len(found) /\ s[i] = found[i].aligned
  BY ChildNeedsFacts
<1>2. PICK n \in Nat : n + 1 = i /\ n + 1 \in 1 .. Len(s)
  <2>1. i - 1 \in Nat /\ (i - 1) + 1 = i
    OBVIOUS
  <2> HIDE DEF s
  <2> QED BY <2>1, <1>1
<1> HIDE DEF s
<1>3. /\ Totals(s)[n] \in Nat /\ s[n + 1] \in Nat /\ Totals(s)[n + 1] \in Nat
      /\ Totals(s)[n + 1] = Totals(s)[n] + s[n + 1]
      /\ Totals(s)[n + 1] <= Totals(s)[Len(s)] /\ Totals(s)[Len(s)] \in Nat
  BY <1>1, <1>2, TotalsAt
<1>4. s[i] <= Totals(s)[Len(found)]
  BY <1>1, <1>2, <1>3, SMTT(40)
<1> QED BY <1>1, <1>4 DEF s

\* getSize is aligned, and that of a container holds header, tables and children.
LEMMA GetSizeFacts ==
  ASSUME ListInv, NEW i \in 1 .. Len(found)
  PROVE  /\ getSize(i) \in Nat /\ Multiple(getSize(i), D.align)
         /\ found[i].etype = "none" => getSize(i) = found[i].aligned
         /\ found[i].etype # "none" =>
              /\ getSize(i) > 0
              /\ LuksHeader + Totals(ChildNeeds(i))[Len(found)] <= getSize(i)
         /\ found[i].etype = "partitioned" =>
              LuksHeader + 2 * D.align + Totals(ChildNeeds(i))[Len(found)] <= getSize(i)
<1>0. /\ D.align \in Nat \ {0} /\ LuksHeader \in Nat \ {0}
  BY DescFacts DEF ListInv
<1>1. CASE found[i].etype = "none"
  BY <1>1, FoundFacts DEF getSize
<1>2. CASE found[i].etype # "none"
  <2> DEFINE head == RoundUp(LuksHeader, D.align)
             tables == IF found[i].etype = "partitioned" THEN 2 * D.align ELSE 0
             sum == Totals(ChildNeeds(i))[Len(found)]
  <2>1. getSize(i) = head + tables + sum
    BY <1>2 DEF getSize, SizeSum, ChildNeeds, SizesBelow, Own
  <2>2. head \in Nat /\ LuksHeader <= head /\ Multiple(head, D.align)
    BY <1>0, RoundUpFacts
  <2>3. tables \in Nat /\ Multiple(tables, D.align)
    <3>1. 0 = 0 * D.align /\ 2 * D.align \in Nat
      BY <1>0
    <3> QED BY <3>1 DEF Multiple
  <2>4. sum \in Nat /\ Multiple(sum, D.align)
    BY ChildNeedsFacts
  <2>5. found[i].etype = "partitioned" => tables = 2 * D.align
    OBVIOUS
  <2> HIDE DEF head, tables, sum
  <2>6. Multiple(head + tables, D.align)
    BY <1>0, <2>2, <2>3, MultipleAdd
  <2>7. Multiple((head + tables) + sum, D.align)
    BY <1>0, <2>4, <2>6, MultipleAdd
  <2>8. getSize(i) \in Nat /\ getSize(i) > 0 /\ LuksHeader + sum <= getSize(i) /\ Multiple(getSize(i), D.align)
    BY <1>0, <2>1, <2>2, <2>3, <2>4, <2>7
  <2>9. found[i].etype = "partitioned" => LuksHeader + 2 * D.align + sum <= getSize(i)
    BY <1>0, <2>1, <2>2, <2>4, <2>5, SMTT(40)
  <2> QED BY <1>2, <2>8, <2>9 DEF sum
<1> QED BY <1>1, <1>2

\* What the disk's own partitions need.
LEMMA RootNeedsFacts ==
  ASSUME ListInv
  PROVE  /\ RootNeeds \in Seq(Nat) /\ Len(RootNeeds) = Len(found)
         /\ \A i \in 1 .. Len(found) :
              RootNeeds[i] = IF found[i].parent = 0 THEN getSize(i) ELSE 0
<1>0. found \in Seq(Partitions) /\ Len(found) \in Nat /\ DOMAIN found = 1 .. Len(found)
  BY DEF ListInv
<1>1. RootNeeds = [i \in 1 .. Len(found) |-> IF found[i].parent = 0 THEN getSize(i) ELSE 0]
  BY <1>0 DEF RootNeeds, SizesBelow
<1>2. \A i \in 1 .. Len(found) : RootNeeds[i] = IF found[i].parent = 0 THEN getSize(i) ELSE 0
  BY <1>1
<1>3. RootNeeds \in [1 .. Len(found) -> Nat]
  BY <1>1, GetSizeFacts
<1> QED BY <1>0, <1>2, <1>3, FunctionIsSeq
----------------------------------------------------------------------------
\* The room inside an opened container.
ChildRoom(c) == LenAt(c) - LuksHeader - BackupTable

RootLaid(n) == Laid(found, D.align, entries, Room, 0, RootNeeds, n)
ChildLaid(c, n) == Laid(found, D.align, inner[c], ChildRoom(c), c, ChildNeeds(c), n)
ChildrenLaid(n) ==
  \A c \in 1 .. Len(found) : found[c].etype = "partitioned" => ChildLaid(c, n)

\* What holds at each stage: numbers once they are given, the size that was
\* checked, and the tables as far as they are filled.
TableInv ==
  /\ capacity \in DiskSizes
  /\ ilPc \in {"idle", "get", "step", "number", "check"} => entries = <<>>
  /\ ilPc \in {"check", "append", "crypt", "done"} => Numbered(found)
  /\ ilPc \in {"append", "crypt", "done"} => computeImageStorageSize <= capacity
  /\ ilPc \in {"append", "crypt"} => ilAt \in 1 .. Len(found) + 1
  /\ ilPc \in {"append", "crypt", "done"} => DOMAIN inner = 1 .. Len(found)
  /\ ilPc = "append" => RootLaid(ilAt - 1) /\ \A c \in 1 .. Len(found) : inner[c] = <<>>
  /\ ilPc \in {"crypt", "done"} => RootLaid(Len(found))
  /\ ilPc = "crypt" => ChildrenLaid(ilAt - 1)
  /\ ilPc = "done" => ChildrenLaid(Len(found))
  /\ CheckedIsWritable

\* The check of idpinit is for the table of the disk.
LEMMA RootSized ==
  ASSUME ListInv, capacity \in DiskSizes, computeImageStorageSize <= capacity
  PROVE  Sized(found, D.align, Room, 0, RootNeeds)
<1> DEFINE sum == Totals(RootNeeds)[Len(found)]
<1>0. D.align \in Nat \ {0} /\ BackupTable \in Nat /\ BackupTable <= D.align /\ capacity \in Nat
  BY DescFacts, IdpLayoutAssumption DEF ListInv
<1>1. /\ RootNeeds \in Seq(Nat) /\ Len(RootNeeds) = Len(found)
      /\ \A i \in 1 .. Len(found) : found[i].parent # 0 => RootNeeds[i] = 0
  BY RootNeedsFacts
<1>2. sum \in Nat
  <2>1. Totals(RootNeeds) \in [0 .. Len(RootNeeds) -> Nat]
    BY <1>1, TotalsStep
  <2>2. Len(found) \in 0 .. Len(RootNeeds)
    BY <1>1
  <2> QED BY <2>1, <2>2
<1>3. computeImageStorageSize = sum + (IF D.label = "gpt" THEN 2 ELSE 1) * D.align
  BY DEF computeImageStorageSize, SizeSum, RootNeeds
<1> HIDE DEF sum
<1>4. Room \in Nat /\ D.align + sum <= Room
  <2>1. CASE D.label = "gpt"
    BY <2>1, <1>0, <1>2, <1>3 DEF Room
  <2>2. CASE D.label # "gpt"
    BY <2>2, <1>0, <1>2, <1>3 DEF Room
  <2> QED BY <2>1, <2>2
<1> QED BY <1>1, <1>4 DEF Sized, sum

\* A container's entry has room for its table and its children.
LEMMA ChildSized ==
  ASSUME ListInv, RootLaid(Len(found)),
         NEW c \in 1 .. Len(found), found[c].etype = "partitioned"
  PROVE  Sized(found, D.align, ChildRoom(c), c, ChildNeeds(c)) /\ LenAt(c) \in Nat
<1> DEFINE sum == Totals(ChildNeeds(c))[Len(found)]
<1>0. /\ D.align \in Nat \ {0} /\ BackupTable \in Nat /\ BackupTable <= D.align
      /\ LuksHeader \in Nat /\ Len(found) \in Nat
  BY DescFacts DEF ListInv
<1>1. found[c].parent = 0 /\ c \in Same(found, 0, Len(found))
  BY FoundFacts DEF Same
<1>2. RootNeeds[c] = getSize(c) /\ getSize(c) \in Nat
  BY <1>1, RootNeedsFacts, GetSizeFacts
<1>3. /\ entries \in Seq(Entries) /\ found[c].num \in 1 .. Len(entries)
      /\ RootNeeds[c] <= entries[found[c].num].len
  BY <1>1 DEF RootLaid, Laid
<1>4. LenAt(c) \in Nat /\ getSize(c) <= LenAt(c)
  <2>1. entries[found[c].num] \in Entries
    BY <1>3
  <2> QED BY <2>1, <1>2, <1>3 DEF LenAt, Entries
<1>5. LuksHeader + 2 * D.align + sum <= getSize(c)
  BY GetSizeFacts
<1>6. /\ ChildNeeds(c) \in Seq(Nat) /\ Len(ChildNeeds(c)) = Len(found) /\ sum \in Nat
      /\ \A i \in 1 .. Len(found) : found[i].parent # c => ChildNeeds(c)[i] = 0
  BY ChildNeedsFacts
<1> HIDE DEF sum
<1>7. ChildRoom(c) \in Nat /\ D.align + sum <= ChildRoom(c)
  <2> DEFINE len == LenAt(c)
             gs == getSize(c)
             al == D.align
             room == ChildRoom(c)
  <2>1. room = len - LuksHeader - BackupTable
    BY DEF ChildRoom
  <2>2. /\ al \in Nat /\ BackupTable \in Nat /\ BackupTable <= al /\ LuksHeader \in Nat
        /\ len \in Nat /\ gs \in Nat /\ gs <= len /\ LuksHeader + 2 * al + sum <= gs /\ sum \in Nat
    BY <1>0, <1>2, <1>4, <1>5, <1>6
  <2> HIDE DEF len, gs, al, room
  <2>3. room \in Nat /\ al + sum <= room
    BY <2>1, <2>2
  <2> QED BY <2>3 DEF al, room
<1> QED BY <1>4, <1>6, <1>7 DEF Sized, sum

\* Once all is laid out, each image has its own device and room in it.
LEMMA DoneFits ==
  ASSUME ListInv, TableInv
  PROVE  DevicesFit
<1> SUFFICES ASSUME ilPc = "done" PROVE DevicesFit
  BY DEF DevicesFit, DeviceIsOwn, RoomForImage
<1>0. /\ RootLaid(Len(found)) /\ ChildrenLaid(Len(found)) /\ Len(found) \in Nat
      /\ DOMAIN found = 1 .. Len(found) /\ LuksHeader \in Nat
  BY DescFacts DEF TableInv, ListInv
<1>1. ASSUME NEW i \in 1 .. Len(found), found[i].parent = 0
      PROVE  /\ found[i].num \in DOMAIN entries /\ entries[found[i].num].of = i
             /\ getSize(i) <= entries[found[i].num].len
  <2>1. i \in Same(found, 0, Len(found)) /\ RootNeeds[i] = getSize(i)
    BY <1>1, RootNeedsFacts DEF Same
  <2>2. entries \in Seq(Entries)
    BY <1>0 DEF RootLaid, Laid
  <2> QED BY <2>1, <2>2, <1>0 DEF RootLaid, Laid
<1>2. ASSUME NEW i \in 1 .. Len(found), found[i].parent # 0, found[found[i].parent].etype = "partitioned"
      PROVE  /\ found[i].num \in DOMAIN inner[found[i].parent]
             /\ inner[found[i].parent][found[i].num].of = i
             /\ found[i].aligned <= inner[found[i].parent][found[i].num].len
  <2>1. PICK c \in 1 .. Len(found) : c = found[i].parent
    BY <1>2, FoundFacts
  <2>2. i \in Same(found, c, Len(found)) /\ ChildNeeds(c)[i] = found[i].aligned
    BY <2>1, ChildNeedsFacts DEF Same
  <2>3. ChildLaid(c, Len(found))
    BY <1>0, <1>2, <2>1 DEF ChildrenLaid
  <2>4. inner[c] \in Seq(Entries)
    BY <2>3 DEF ChildLaid, Laid
  <2>5. /\ found[i].num \in 1 .. Len(inner[c]) /\ inner[c][found[i].num].of = i
        /\ found[i].aligned <= inner[c][found[i].num].len
    BY <2>2, <2>3 DEF ChildLaid, Laid
  <2> QED BY <2>1, <2>4, <2>5
<1>3. DeviceIsOwn
  BY <1>0, <1>1, <1>2 DEF DeviceIsOwn
<1>4. ASSUME NEW i \in 1 .. Len(found), found[i].etype = "none"
      PROVE  LET c == found[i].parent
             IN /\ c = 0 => found[i].size <= entries[found[i].num].len
                /\ c # 0 /\ found[c].etype = "partitioned" => found[i].size <= inner[c][found[i].num].len
                /\ c # 0 /\ found[c].etype # "partitioned" => found[i].size <= LenAt(c) - LuksHeader
  <2> DEFINE c == found[i].parent
  <2>1. found[i].size \in Nat /\ found[i].aligned \in Nat /\ found[i].size <= found[i].aligned
    BY FoundFacts
  <2>2. CASE c = 0
    <3>1. getSize(i) = found[i].aligned /\ getSize(i) <= entries[found[i].num].len
      BY <1>1, <1>4, <2>2, GetSizeFacts
    <3>2. entries[found[i].num].len \in Nat
      <4>1. entries \in Seq(Entries) /\ found[i].num \in DOMAIN entries
        BY <1>0, <1>1, <2>2 DEF RootLaid, Laid
      <4>2. entries[found[i].num] \in Entries
        BY <4>1
      <4> QED BY <4>2 DEF Entries
    <3> QED BY <2>1, <2>2, <3>1, <3>2
  <2>3. CASE c # 0 /\ found[c].etype = "partitioned"
    <3>1. found[i].num \in DOMAIN inner[c] /\ found[i].aligned <= inner[c][found[i].num].len
      BY <1>2, <2>3
    <3>2. inner[c][found[i].num].len \in Nat
      <4>1. c \in 1 .. Len(found)
        BY <2>3, FoundFacts
      <4>2. inner[c] \in Seq(Entries)
        BY <4>1, <1>0, <2>3 DEF ChildrenLaid, ChildLaid, Laid
      <4>3. inner[c][found[i].num] \in Entries
        BY <4>2, <3>1
      <4> QED BY <4>3 DEF Entries
    <3> QED BY <2>1, <2>3, <3>1, <3>2, SMTT(40)
  <2>4. CASE c # 0 /\ found[c].etype # "partitioned"
    <3>1. c \in 1 .. Len(found) /\ found[c].etype # "none"
      BY <2>4, FoundFacts
    <3>2. found[c].parent = 0
      BY <3>1, FoundFacts
    <3>3. LuksHeader + Totals(ChildNeeds(c))[Len(found)] <= getSize(c) /\ getSize(c) \in Nat
      BY <3>1, GetSizeFacts
    <3>4. found[i].aligned <= Totals(ChildNeeds(c))[Len(found)] /\ Totals(ChildNeeds(c))[Len(found)] \in Nat
      BY ChildInSum, ChildNeedsFacts
    <3>5. getSize(c) <= LenAt(c) /\ LenAt(c) \in Nat
      <4>1. entries \in Seq(Entries) /\ found[c].num \in DOMAIN entries
        BY <1>0, <1>1, <3>1, <3>2 DEF RootLaid, Laid
      <4>2. entries[found[c].num] \in Entries
        BY <4>1
      <4> QED BY <4>2, <1>1, <3>1, <3>2 DEF Entries, LenAt
    <3>6. found[i].size <= LenAt(c) - LuksHeader
      <4> DEFINE len == LenAt(c)
                 gs == getSize(c)
                 sum == Totals(ChildNeeds(c))[Len(found)]
                 size == found[i].size
                 al == found[i].aligned
      <4>1. /\ LuksHeader + sum <= gs /\ gs \in Nat /\ al <= sum /\ sum \in Nat /\ gs <= len /\ len \in Nat
            /\ size \in Nat /\ al \in Nat /\ size <= al /\ LuksHeader \in Nat
        BY <2>1, <3>3, <3>4, <3>5, <1>0
      <4> HIDE DEF len, gs, sum, size, al
      <4>2. size <= len - LuksHeader
        BY <4>1
      <4> QED BY <4>2 DEF size, len
    <3> QED BY <2>4, <3>6
  <2> QED BY <2>2, <2>3, <2>4
<1>5. RoomForImage
  BY <1>0, <1>4 DEF RoomForImage, ImageParts
<1> QED BY <1>3, <1>5 DEF DevicesFit
----------------------------------------------------------------------------
\* What depends on the list and the description alone.
LEMMA SameNeeds ==
  ASSUME UNCHANGED <<found, desc, capacity>>
  PROVE  /\ D' = D /\ RootNeeds' = RootNeeds /\ Room' = Room
         /\ computeImageStorageSize' = computeImageStorageSize
         /\ \A c : ChildNeeds(c)' = ChildNeeds(c)
<1>1. D' = D
  BY DEF D
<1>2. \A c : ChildNeeds(c)' = ChildNeeds(c)
  BY DEF ChildNeeds, SizesBelow, Own
<1>3. \A i : getSize(i)' = getSize(i)
  BY <1>1 DEF getSize, SizeSum, SizesBelow
<1>4. RootNeeds' = RootNeeds
  BY <1>3 DEF RootNeeds, SizesBelow
<1>5. computeImageStorageSize' = computeImageStorageSize
  BY <1>1, <1>4 DEF computeImageStorageSize, SizeSum, RootNeeds
<1> QED BY <1>1, <1>2, <1>4, <1>5 DEF Room

\* A root partition asks for what its entry needs.
LEMMA RootAsks ==
  ASSUME ListInv, NEW i \in 1 .. Len(found), found[i].parent = 0
  PROVE  Asks(found, D.align, RootNeeds, i, IF found[i].expand THEN 0 ELSE getSize(i))
<1>1. RootNeeds[i] = getSize(i) /\ getSize(i) \in Nat /\ Multiple(getSize(i), D.align)
  BY RootNeedsFacts, GetSizeFacts
<1>2. RoundUp(getSize(i), D.align) = getSize(i)
  <2>1. PICK s \in Nat, a \in Nat \ {0} : s = getSize(i) /\ a = D.align
    BY <1>1, DescFacts DEF ListInv
  <2>2. Multiple(s, a) => RoundUp(s, a) = s
    BY RoundUpFacts
  <2> QED BY <1>1, <2>1, <2>2
<1> DEFINE gs == getSize(i)
<1> HIDE DEF gs
<1>3. gs \in Nat /\ RoundUp(gs, D.align) = RootNeeds[i] /\ RootNeeds[i] = gs
  BY <1>1, <1>2 DEF gs
<1>4. Asks(found, D.align, RootNeeds, i, IF found[i].expand THEN 0 ELSE gs)
  BY <1>3 DEF Asks
<1> QED BY <1>4 DEF gs

\* A child asks for its own size, unaligned.
LEMMA ChildAsks ==
  ASSUME ListInv, NEW i \in 1 .. Len(found)
  PROVE  Asks(found, D.align, ChildNeeds(found[i].parent), i, IF found[i].expand THEN 0 ELSE found[i].size)
<1>1. ChildNeeds(found[i].parent)[i] = found[i].aligned
  BY ChildNeedsFacts
<1>2. /\ found[i].size \in Nat /\ found[i].aligned = RoundUp(found[i].size, D.align)
      /\ (found[i].size = 0 <=> found[i].aligned = 0)
  BY FoundFacts
<1> DEFINE size == found[i].size
           need == ChildNeeds(found[i].parent)[i]
<1>3. size \in Nat /\ RoundUp(size, D.align) = need /\ (size = 0 <=> need = 0)
  BY <1>1, <1>2
<1> HIDE DEF size
<1>4. Asks(found, D.align, ChildNeeds(found[i].parent), i, IF found[i].expand THEN 0 ELSE size)
  BY <1>3 DEF Asks
<1> QED BY <1>4 DEF size

\* Only an image of no size needs nothing.
Sizeless(needs, c) ==
  \A i \in 1 .. Len(found) :
    found[i].parent = c /\ needs[i] = 0 => found[i].etype = "none" /\ found[i].size = 0

\* Where a partition finds no room, the description is one of those that the
\* check of idpinit does not judge.
LEMMA Excused ==
  ASSUME ListInv, NEW n \in Nat, n + 1 \in 1 .. Len(found), NEW c, found[n + 1].parent = c,
         NEW needs, Sizeless(needs, c),
         needs[n + 1] = 0 \/ \E i \in Same(found, c, n) : Takes(found, needs, i)
  PROVE  \/ \E i, j \in DOMAIN found : i < j /\ found[i].expand /\ found[i].parent = found[j].parent
         \/ \E i \in ImageParts : found[i].size = 0
<1>0. DOMAIN found = 1 .. Len(found) /\ Len(found) \in Nat
  BY DEF ListInv
<1>1. CASE needs[n + 1] = 0
  BY <1>0, <1>1 DEF ImageParts, Sizeless
<1>2. CASE \E i \in Same(found, c, n) : Takes(found, needs, i)
  <2>1. PICK i \in Same(found, c, n) : Takes(found, needs, i)
    BY <1>2
  <2>2. i \in 1 .. Len(found) /\ i < n + 1 /\ found[i].parent = c
    BY <2>1, <1>0 DEF Same
  <2>3. CASE found[i].expand
    BY <1>0, <2>2, <2>3
  <2>4. CASE needs[i] = 0
    BY <1>0, <2>2, <2>4 DEF ImageParts, Sizeless
  <2> QED BY <2>1, <2>3, <2>4 DEF Takes
<1> QED BY <1>1, <1>2

\* The table of the disk grows by the entry of the next root partition, or idpwrite
\* fails for a reason that the check does not judge.
LEMMA AppendRootKeeps ==
  ASSUME ListInv, TableInv, AppendRoot
  PROVE  TableInv'
<1> DEFINE size == IF found[ilAt].expand THEN 0 ELSE getSize(ilAt)
           max == IF D.label = "dos" THEN 4 ELSE 128
           st == StartOf(D.align, entries)
           g == Given(D.align, entries, Room, size)
<1>0. /\ ilPc = "append" /\ ilAt \in 1 .. Len(found) /\ ilAt' = ilAt + 1
      /\ UNCHANGED <<desc, capacity, found, inner>>
      /\ DOMAIN found = 1 .. Len(found) /\ Len(found) \in Nat
  BY DEF AppendRoot, ListInv
<1>1. PICK n \in Nat : ilAt = n + 1 /\ ilAt - 1 = n
  BY <1>0
<1>2. /\ capacity \in DiskSizes /\ Numbered(found) /\ computeImageStorageSize <= capacity
      /\ DOMAIN inner = 1 .. Len(found) /\ RootLaid(n) /\ \A c \in 1 .. Len(found) : inner[c] = <<>>
  BY <1>0, <1>1 DEF TableInv
<1>3. /\ D' = D /\ RootNeeds' = RootNeeds /\ Room' = Room
      /\ computeImageStorageSize' = computeImageStorageSize
  BY <1>0, SameNeeds
<1>4. Sized(found, D.align, Room, 0, RootNeeds) /\ Laid(found, D.align, entries, Room, 0, RootNeeds, n)
      /\ D.align \in Nat \ {0} /\ found \in Seq(Partitions)
  BY <1>2, RootSized, DescFacts DEF RootLaid, ListInv
<1>5. ASSUME UNCHANGED ilPc, Laid(found, D.align, entries', Room, 0, RootNeeds, n + 1)
      PROVE  TableInv'
  <2>1. ilPc' = "append" /\ ilAt' \in 1 .. Len(found') + 1 /\ ilAt' - 1 = n + 1
    BY <1>0, <1>1, <1>5
  <2>2. RootLaid(ilAt - 1)'
    BY <1>0, <1>3, <1>5, <2>1 DEF RootLaid
  <2>3. CheckedIsWritable'
    BY <2>1 DEF CheckedIsWritable
  <2> QED BY <1>0, <1>2, <1>3, <2>1, <2>2, <2>3 DEF TableInv
<1>6. CASE found[ilAt].parent # 0
  <2>1. UNCHANGED <<entries, ilPc>>
    BY <1>6 DEF AppendRoot
  <2>2. Laid(found, D.align, entries, Room, 0, RootNeeds, n + 1)
    BY <1>0, <1>1, <1>4, <1>6, LaidSkip
  <2> QED BY <1>5, <2>1, <2>2
<1>7. CASE found[ilAt].parent = 0
  <2>1. /\ NextStart(entries) = st /\ LenOf(entries, Room, size) = g
        /\ Entry(entries, Room, size, ilAt) = [start |-> st, len |-> g, of |-> n + 1]
        /\ Fits(entries, Room, size, max) <=> (g > 0 /\ st + g <= Room /\ Len(entries) < max)
    BY <1>1 DEF NextStart, LenOf, StartOf, Given, Entry, Fits
  <2>2. Asks(found, D.align, RootNeeds, n + 1, size)
    BY <1>0, <1>1, <1>7, RootAsks
  <2>3. \/ /\ Fits(entries, Room, size, max) /\ UNCHANGED ilPc
           /\ entries' = Append(entries, Entry(entries, Room, size, ilAt))
        \/ ~Fits(entries, Room, size, max) /\ ilPc' = "failed"
    BY <1>7 DEF AppendRoot
  <2>4. n + 1 \in 1 .. Len(found) /\ found[n + 1].parent = 0
    BY <1>0, <1>1, <1>7
  <2> HIDE DEF size
  <2>5. CASE Fits(entries, Room, size, max)
    <3>1. Laid(found, D.align, Append(entries, [start |-> st, len |-> g, of |-> n + 1]),
               Room, 0, RootNeeds, n + 1)
      BY <1>2, <1>4, <2>1, <2>2, <2>4, <2>5, LaidAppend
    <3> QED BY <1>5, <2>1, <2>3, <2>5, <3>1
  <2>6. CASE ~Fits(entries, Room, size, max)
    <3>1. ilPc' = "failed"
      BY <2>3, <2>6
    <3>2. CASE ~(g > 0 /\ st + g <= Room)
      <4>1. RootNeeds[n + 1] = 0 \/ \E i \in Same(found, 0, n) : Takes(found, RootNeeds, i)
        BY <1>4, <2>2, <2>4, <3>2, LaidFull
      <4>2. ASSUME NEW i \in 1 .. Len(found), found[i].parent = 0, RootNeeds[i] = 0
            PROVE  found[i].etype = "none" /\ found[i].size = 0
        <5>1. getSize(i) = 0
          BY <4>2, RootNeedsFacts
        <5> QED BY <5>1, GetSizeFacts, FoundFacts
      <4>3. \/ \E i, j \in DOMAIN found : i < j /\ found[i].expand /\ found[i].parent = found[j].parent
            \/ \E i \in ImageParts : found[i].size = 0
        <5>1. Sizeless(RootNeeds, 0)
          BY <4>2 DEF Sizeless
        <5> QED BY <2>4, <4>1, <5>1, Excused
      <4>4. CheckedIsWritable'
        BY <1>0, <4>3 DEF CheckedIsWritable, ImageParts
      <4> QED BY <1>0, <1>2, <3>1, <4>4 DEF TableInv
    <3>3. CASE ~(Len(entries) < max)
      <4>1. Len(entries) <= n /\ Len(entries) \in Nat
        <5>1. entries \in Seq(Entries) /\ Len(entries) = Cardinality(Same(found, 0, n))
          BY <1>4 DEF Laid
        <5> QED BY <5>1, SameBound
      <4>2. Len(found) > 128
        <5>1. D.label = "dos" => Len(found) <= 4
          BY DEF ListInv
        <5> QED BY <1>0, <1>1, <3>3, <4>1, <5>1
      <4>3. CheckedIsWritable'
        BY <1>0, <4>2 DEF CheckedIsWritable
      <4> QED BY <1>0, <1>2, <3>1, <4>3 DEF TableInv
    <3> QED BY <2>1, <2>6, <3>2, <3>3
  <2> QED BY <2>5, <2>6
<1> QED BY <1>6, <1>7

\* The same for the table of a container; those of the others stay as they are.
LEMMA AppendChildKeeps ==
  ASSUME ListInv, TableInv, AppendChild
  PROVE  TableInv'
<1> DEFINE c == found[ilAt].parent
           size == IF found[ilAt].expand THEN 0 ELSE found[ilAt].size
           room == ChildRoom(c)
           st == StartOf(D.align, inner[c])
           g == Given(D.align, inner[c], room, size)
           mine == c \in 1 .. Len(found) /\ found[c].etype = "partitioned"
<1>0. /\ ilPc = "crypt" /\ ilAt \in 1 .. Len(found) /\ ilAt' = ilAt + 1
      /\ UNCHANGED <<desc, capacity, found, entries>>
      /\ DOMAIN found = 1 .. Len(found) /\ Len(found) \in Nat
  BY DEF AppendChild, ListInv
<1>1. PICK n \in Nat : ilAt = n + 1 /\ ilAt - 1 = n
  BY <1>0
<1>2. /\ capacity \in DiskSizes /\ Numbered(found) /\ computeImageStorageSize <= capacity
      /\ DOMAIN inner = 1 .. Len(found) /\ RootLaid(Len(found)) /\ ChildrenLaid(n)
  BY <1>0, <1>1 DEF TableInv
<1>3. /\ D' = D /\ RootNeeds' = RootNeeds /\ Room' = Room
      /\ computeImageStorageSize' = computeImageStorageSize
      /\ \A d : ChildNeeds(d)' = ChildNeeds(d)
  BY <1>0, SameNeeds
<1>4. ASSUME NEW d \in 1 .. Len(found), found[d].etype = "partitioned"
      PROVE  /\ Sized(found, D.align, ChildRoom(d), d, ChildNeeds(d))
             /\ Laid(found, D.align, inner[d], ChildRoom(d), d, ChildNeeds(d), n)
  BY <1>2, <1>4, ChildSized DEF ChildrenLaid, ChildLaid
<1>5. D.align \in Nat \ {0} /\ found \in Seq(Partitions) /\ n + 1 \in 1 .. Len(found) /\ found[n + 1].parent = c
  BY <1>0, <1>1, DescFacts DEF ListInv
<1>6. ASSUME UNCHANGED ilPc, DOMAIN inner' = DOMAIN inner,
             \A d \in 1 .. Len(found) : found[d].etype = "partitioned" =>
               Laid(found, D.align, inner'[d], ChildRoom(d), d, ChildNeeds(d), n + 1)
      PROVE  TableInv'
  <2>1. ilPc' = "crypt" /\ ilAt' \in 1 .. Len(found') + 1 /\ ilAt' - 1 = n + 1
    BY <1>0, <1>1, <1>6
  <2>2. RootLaid(Len(found))'
    BY <1>0, <1>2, <1>3 DEF RootLaid
  <2>3. \A d : ChildRoom(d)' = ChildRoom(d)
    BY <1>0 DEF ChildRoom, LenAt
  <2>4. ASSUME NEW d \in 1 .. Len(found), found[d].etype = "partitioned"
        PROVE  ChildLaid(d, n + 1)'
    BY <1>0, <1>3, <1>6, <2>3, <2>4 DEF ChildLaid
  <2>5. ChildrenLaid(ilAt - 1)'
    BY <1>0, <2>1, <2>4 DEF ChildrenLaid
  <2>6. CheckedIsWritable'
    BY <2>1 DEF CheckedIsWritable
  <2> QED BY <1>0, <1>2, <1>3, <1>6, <2>1, <2>2, <2>5, <2>6 DEF TableInv
<1>7. ASSUME NEW d \in 1 .. Len(found), found[d].etype = "partitioned", d # c
      PROVE  Laid(found, D.align, inner[d], ChildRoom(d), d, ChildNeeds(d), n + 1)
  BY <1>4, <1>5, <1>7, LaidSkip
<1>8. c # 0 => c \in 1 .. Len(found)
  BY <1>0, FoundFacts
<1>9. CASE ~mine
  <2>1. UNCHANGED <<inner, ilPc>>
    BY <1>8, <1>9 DEF AppendChild
  <2> QED BY <1>6, <1>7, <1>9, <2>1
<1>10. CASE mine
  <2>0. c # 0
    BY <1>10
  <2>1. /\ Entry(inner[c], room, size, ilAt) = [start |-> st, len |-> g, of |-> n + 1]
        /\ Fits(inner[c], room, size, 128) <=> (g > 0 /\ st + g <= room /\ Len(inner[c]) < 128)
    BY <1>1 DEF NextStart, LenOf, StartOf, Given, Entry, Fits
  <2>2. Asks(found, D.align, ChildNeeds(c), n + 1, size)
    BY <1>0, <1>1, ChildAsks
  <2>3. \/ /\ Fits(inner[c], room, size, 128) /\ UNCHANGED ilPc
           /\ inner' = [inner EXCEPT ![c] = Append(inner[c], Entry(inner[c], room, size, ilAt))]
        \/ ~Fits(inner[c], room, size, 128) /\ ilPc' = "failed"
    BY <2>0, <1>10 DEF AppendChild, ChildRoom
  <2>4. /\ Sized(found, D.align, room, c, ChildNeeds(c))
        /\ Laid(found, D.align, inner[c], room, c, ChildNeeds(c), n)
    BY <1>4, <1>10
  <2> HIDE DEF size, room, c
  <2>5. CASE Fits(inner[c], room, size, 128)
    <3>1. Laid(found, D.align, Append(inner[c], [start |-> st, len |-> g, of |-> n + 1]),
               room, c, ChildNeeds(c), n + 1)
      BY <1>2, <1>5, <2>1, <2>2, <2>4, <2>5, LaidAppend, ZenonT(60)
    <3>2. inner' = [inner EXCEPT ![c] = Append(inner[c], [start |-> st, len |-> g, of |-> n + 1])]
      BY <2>1, <2>3, <2>5
    <3>3. DOMAIN inner' = DOMAIN inner
      BY <3>2
    <3>4. ASSUME NEW d \in 1 .. Len(found), found[d].etype = "partitioned"
          PROVE  Laid(found, D.align, inner'[d], ChildRoom(d), d, ChildNeeds(d), n + 1)
      <4>1. CASE d = c
        <5>1. inner'[c] = Append(inner[c], [start |-> st, len |-> g, of |-> n + 1])
          BY <1>2, <3>2, <4>1
        <5> QED BY <3>1, <4>1, <5>1 DEF room
      <4>2. CASE d # c
        <5>1. inner'[d] = inner[d]
          BY <1>2, <3>2, <4>2
        <5> QED BY <1>7, <3>4, <4>2, <5>1
      <4> QED BY <4>1, <4>2
    <3> QED BY <1>6, <2>3, <2>5, <3>3, <3>4
  <2>6. CASE ~Fits(inner[c], room, size, 128)
    <3>1. ilPc' = "failed"
      BY <2>3, <2>6
    <3>2. CASE ~(g > 0 /\ st + g <= room)
      <4>1. ChildNeeds(c)[n + 1] = 0 \/ \E i \in Same(found, c, n) : Takes(found, ChildNeeds(c), i)
        BY <1>5, <2>2, <2>4, <3>2, LaidFull
      <4>2. ASSUME NEW i \in 1 .. Len(found), found[i].parent = c, ChildNeeds(c)[i] = 0
            PROVE  found[i].etype = "none" /\ found[i].size = 0
        <5>1. found[i].aligned = 0
          BY <4>2, ChildNeedsFacts
        <5> QED BY <2>0, <4>2, <5>1, FoundFacts
      <4>3. \/ \E i, j \in DOMAIN found : i < j /\ found[i].expand /\ found[i].parent = found[j].parent
            \/ \E i \in ImageParts : found[i].size = 0
        <5>1. Sizeless(ChildNeeds(c), c)
          BY <4>2 DEF Sizeless
        <5> QED BY <1>5, <4>1, <5>1, Excused
      <4>4. CheckedIsWritable'
        BY <1>0, <4>3 DEF CheckedIsWritable, ImageParts
      <4> QED BY <1>0, <1>2, <3>1, <4>4 DEF TableInv
    <3>3. CASE ~(Len(inner[c]) < 128)
      <4>1. Len(inner[c]) <= n /\ Len(inner[c]) \in Nat
        <5>1. inner[c] \in Seq(Entries) /\ Len(inner[c]) = Cardinality(Same(found, c, n))
          BY <2>4 DEF Laid
        <5> QED BY <5>1, SameBound
      <4>2. Len(found) > 128
        BY <1>0, <1>1, <3>3, <4>1
      <4>3. CheckedIsWritable'
        BY <1>0, <4>2 DEF CheckedIsWritable
      <4> QED BY <1>0, <1>2, <3>1, <4>3 DEF TableInv
    <3> QED BY <2>1, <2>6, <3>2, <3>3
  <2> QED BY <2>5, <2>6
<1> QED BY <1>9, <1>10

\* Every step keeps the tables as they should be.
LEMMA TableKeeps ==
  ASSUME ListInv, TableInv, [LayoutNext]_ilVars
  PROVE  TableInv'
<1>0. DOMAIN found = 1 .. Len(found) /\ Len(found) \in Nat /\ D.align \in Nat \ {0}
  BY DescFacts DEF ListInv
<1>1. CASE LoadData \/ GetPartitions \/ StepIn \/ StepOut
  <2>1. /\ ilPc \in {"idle", "get", "step"} /\ ilPc' \in {"get", "step", "number", "refused"}
        /\ UNCHANGED <<capacity, entries>>
    BY <1>1 DEF LoadData, GetPartitions, StepIn, StepOut
  <2> QED BY <2>1 DEF TableInv, CheckedIsWritable
<1>2. CASE Number
  <2>1. ilPc = "number" /\ ilPc' \in {"check", "refused"} /\ UNCHANGED <<capacity, entries>>
    BY <1>2 DEF Number
  <2>2. /\ Len(found') = Len(found)
        /\ \A i \in 1 .. Len(found) :
             /\ found'[i].parent = found[i].parent
             /\ found'[i].num = Cardinality(Same(found, found[i].parent, i))
    BY <1>2, NumberFacts
  <2>3. ASSUME NEW i \in 1 .. Len(found)
        PROVE  Same(found', found'[i].parent, i) = Same(found, found[i].parent, i)
    <3>1. \A j \in 1 .. i : j \in 1 .. Len(found)
      BY <1>0
    <3> QED BY <2>2, <3>1 DEF Same
  <2>4. Numbered(found)'
    BY <2>2, <2>3 DEF Numbered
  <2> QED BY <2>1, <2>4 DEF TableInv, CheckedIsWritable
<1>3. CASE CanProvision
  <2>1. /\ ilPc = "check" /\ ilAt' = 1 /\ inner' = [i \in DOMAIN found |-> <<>>]
        /\ UNCHANGED <<desc, capacity, found, entries>>
        /\ ilPc' = IF computeImageStorageSize <= capacity THEN "append" ELSE "refused"
    BY <1>3 DEF CanProvision
  <2>2. capacity \in DiskSizes /\ Numbered(found) /\ entries = <<>>
    BY <2>1 DEF TableInv
  <2>3. CASE computeImageStorageSize <= capacity
    <3>1. D' = D /\ RootNeeds' = RootNeeds /\ Room' = Room /\ computeImageStorageSize' = computeImageStorageSize
      BY <2>1, SameNeeds
    <3>2. Laid(found, D.align, <<>>, Room, 0, RootNeeds, 0)
      BY <1>0, RootNeedsFacts, LaidEmpty
    <3>3. ilAt' - 1 = 0 /\ ilAt' \in 1 .. Len(found') + 1 /\ ilPc' = "append"
      BY <1>0, <2>1, <2>3
    <3>4. RootLaid(ilAt - 1)'
      BY <2>1, <2>2, <3>1, <3>2, <3>3 DEF RootLaid
    <3>5. DOMAIN inner' = 1 .. Len(found') /\ \A c \in 1 .. Len(found') : inner'[c] = <<>>
      BY <1>0, <2>1
    <3> QED BY <2>1, <2>2, <2>3, <3>1, <3>3, <3>4, <3>5 DEF TableInv, CheckedIsWritable
  <2>4. CASE ~(computeImageStorageSize <= capacity)
    BY <2>1, <2>2, <2>4 DEF TableInv, CheckedIsWritable
  <2> QED BY <2>3, <2>4
<1>4. CASE AppendRoot
  BY <1>4, AppendRootKeeps
<1>5. CASE AppendChild
  BY <1>5, AppendChildKeeps
<1>6. CASE Commit
  <2>1. /\ ilPc = "append" /\ ilAt \notin 1 .. Len(found) /\ ilPc' = "crypt" /\ ilAt' = 1
        /\ UNCHANGED <<desc, capacity, found, entries, inner>>
    BY <1>0, <1>6 DEF Commit
  <2>2. /\ capacity \in DiskSizes /\ Numbered(found) /\ computeImageStorageSize <= capacity
        /\ DOMAIN inner = 1 .. Len(found) /\ \A c \in 1 .. Len(found) : inner[c] = <<>>
        /\ RootLaid(ilAt - 1) /\ ilAt \in 1 .. Len(found) + 1
    BY <2>1 DEF TableInv
  <2>3. ilAt - 1 = Len(found)
    BY <1>0, <2>1, <2>2
  <2>4. /\ D' = D /\ RootNeeds' = RootNeeds /\ Room' = Room
        /\ computeImageStorageSize' = computeImageStorageSize
        /\ \A c : ChildNeeds(c)' = ChildNeeds(c)
    BY <2>1, SameNeeds
  <2>5. RootLaid(Len(found))'
    BY <2>1, <2>2, <2>3, <2>4 DEF RootLaid
  <2>6. ASSUME NEW c \in 1 .. Len(found) PROVE ChildLaid(c, 0)'
    <3>1. Laid(found, D.align, <<>>, ChildRoom(c)', c, ChildNeeds(c), 0)
      BY <1>0, ChildNeedsFacts, LaidEmpty
    <3> QED BY <2>1, <2>2, <2>4, <3>1 DEF ChildLaid
  <2>7. ilAt' - 1 = 0 /\ ilAt' \in 1 .. Len(found') + 1
    BY <1>0, <2>1
  <2>8. ChildrenLaid(ilAt - 1)'
    BY <2>1, <2>6, <2>7 DEF ChildrenLaid
  <2> QED BY <2>1, <2>2, <2>4, <2>5, <2>7, <2>8 DEF TableInv, CheckedIsWritable
<1>7. CASE Provisioned
  <2>1. /\ ilPc = "crypt" /\ ilAt \notin 1 .. Len(found) /\ ilPc' = "done"
        /\ UNCHANGED <<desc, capacity, nav, found, entries, inner, ilAt>>
    BY <1>0, <1>7 DEF Provisioned
  <2>2. /\ capacity \in DiskSizes /\ Numbered(found) /\ computeImageStorageSize <= capacity
        /\ DOMAIN inner = 1 .. Len(found) /\ RootLaid(Len(found))
        /\ ChildrenLaid(ilAt - 1) /\ ilAt \in 1 .. Len(found) + 1
    BY <2>1 DEF TableInv
  <2>3. ilAt - 1 = Len(found)
    BY <1>0, <2>1, <2>2
  <2>4. /\ D' = D /\ RootNeeds' = RootNeeds /\ Room' = Room
        /\ computeImageStorageSize' = computeImageStorageSize
        /\ \A c : ChildNeeds(c)' = ChildNeeds(c)
    BY <2>1, SameNeeds
  <2>5. RootLaid(Len(found))'
    BY <2>1, <2>2, <2>4 DEF RootLaid
  <2>6. ChildrenLaid(Len(found))'
    BY <2>1, <2>2, <2>3, <2>4 DEF ChildrenLaid, ChildLaid, ChildRoom, LenAt
  <2> QED BY <2>1, <2>2, <2>4, <2>5, <2>6 DEF TableInv, CheckedIsWritable
<1>8. CASE \E d \in DOMAIN Descs : NextDescription(d)
  <2>1. ilPc' = "idle" /\ entries' = <<>> /\ UNCHANGED capacity
    BY <1>8 DEF NextDescription
  <2> QED BY <2>1 DEF TableInv, CheckedIsWritable
<1>9. CASE UNCHANGED ilVars
  <2>1. UNCHANGED <<ilPc, desc, capacity, found, entries, inner, ilAt>>
    BY <1>9 DEF ilVars
  <2>2. /\ D' = D /\ RootNeeds' = RootNeeds /\ Room' = Room
        /\ computeImageStorageSize' = computeImageStorageSize
        /\ \A c : ChildNeeds(c)' = ChildNeeds(c)
    BY <2>1, SameNeeds
  <2>3. \A n : RootLaid(n)' = RootLaid(n) /\ ChildrenLaid(n)' = ChildrenLaid(n)
    BY <2>1, <2>2 DEF RootLaid, ChildrenLaid, ChildLaid, ChildRoom, LenAt
  <2> QED BY <2>1, <2>2, <2>3 DEF TableInv, CheckedIsWritable, ImageParts
<1> QED BY <1>1, <1>2, <1>3, <1>4, <1>5, <1>6, <1>7, <1>8, <1>9 DEF LayoutNext, LayoutStep

\* The tables, at any time.
LEMMA TableInvHolds == LayoutSpec => [](ListInv /\ TableInv)
<1>1. LayoutInit => TableInv
  BY DEF LayoutInit, TableInv, CheckedIsWritable
<1> QED BY <1>1, ParseInvHolds, TableKeeps, PTL DEF LayoutSpec

\* When a description has been provisioned, the device that idpgetblk names for a
\* partition is the one made for it, on the disk and inside a partitioned
\* container, and each image fits its own: for any description and any disk.
THEOREM DevicesAlwaysFit == LayoutSpec => []DevicesFit
BY TableInvHolds, DoneFits, PTL

\* idpwrite runs out of room only for a partition that takes all of it before
\* another, an image of no size, or more partitions than a table has entries for:
\* for every other description, idpinit's check of the disk's size is enough.
THEOREM CheckedAlwaysWritable == LayoutSpec => []CheckedIsWritable
<1>1. TableInv => CheckedIsWritable
  BY DEF TableInv
<1> QED BY <1>1, TableInvHolds, PTL
----------------------------------------------------------------------------
\* Adding up.  A running total is known by its steps.
LEMMA TotalsUnique ==
  ASSUME NEW s \in Seq(Nat), NEW F, F[0] = 0, \A i \in 1 .. Len(s) : F[i] = F[i - 1] + s[i]
  PROVE  \A i \in 0 .. Len(s) : F[i] = Totals(s)[i]
<1> DEFINE T == Totals(s)
           Q == {n \in Nat : n \in 0 .. Len(s) => F[n] = T[n]}
<1>1. T[0] = 0 /\ \A i \in 1 .. Len(s) : T[i] = T[i - 1] + s[i]
  BY TotalsStep
<1> HIDE DEF T
<1>2. 0 \in Q
  BY <1>1
<1>3. ASSUME NEW n \in Q PROVE n + 1 \in Q
  <2>1. CASE n + 1 \in 0 .. Len(s)
    <3>1. n \in 0 .. Len(s) /\ n + 1 \in 1 .. Len(s) /\ (n + 1) - 1 = n
      BY <2>1
    <3>2. F[n + 1] = F[(n + 1) - 1] + s[n + 1] /\ T[n + 1] = T[(n + 1) - 1] + s[n + 1]
      BY <3>1, <1>1
    <3>3. F[n] = T[n]
      BY <3>1
    <3>4. F[n + 1] = T[n + 1]
      BY <3>1, <3>2, <3>3
    <3> QED BY <3>4
  <2> QED BY <2>1
<1>4. Q = Nat
  <2> HIDE DEF Q
  <2> QED BY <1>2, <1>3, NatInduct DEF Q
<1>5. ASSUME NEW i \in 0 .. Len(s) PROVE F[i] = T[i]
  <2>1. i \in Q
    <3> HIDE DEF Q
    <3> QED BY <1>4
  <2> QED BY <2>1
<1> QED BY <1>5 DEF T

Total(s) == Totals(s)[Len(s)]

\* A total is a natural number.
LEMMA TotalIsNat == ASSUME NEW s \in Seq(Nat) PROVE Total(s) \in Nat
<1>1. Totals(s) \in [0 .. Len(s) -> Nat] /\ Len(s) \in 0 .. Len(s)
  BY TotalsStep
<1> QED BY <1>1 DEF Total

\* Of nothing it is 0.
LEMMA TotalNone == ASSUME NEW s \in Seq(Nat), Len(s) = 0 PROVE Total(s) = 0
<1>1. Totals(s)[0] = 0
  BY TotalsStep
<1> QED BY <1>1 DEF Total

\* Of one size it is that size.
LEMMA TotalOne == ASSUME NEW s \in Seq(Nat), Len(s) = 1 PROVE Total(s) = s[1]
<1> DEFINE T == Totals(s)
<1>1. T[0] = 0 /\ \A i \in 1 .. 1 : T[i] = T[i - 1] + s[i]
  BY TotalsStep
<1> HIDE DEF T
<1>2. T[1] = T[1 - 1] + s[1] /\ s[1] \in Nat
  BY <1>1, SMTT(40)
<1>3. T[1] = s[1]
  BY <1>1, <1>2
<1> QED BY <1>3 DEF Total, T

\* The total of two lists put together.
LEMMA TotalConcat ==
  ASSUME NEW u \in Seq(Nat), NEW v \in Seq(Nat), NEW w, w = u \o v
  PROVE  /\ w \in Seq(Nat) /\ Len(w) = Len(u) + Len(v)
         /\ Total(w) = Total(u) + Total(v)
<1>1. /\ w \in Seq(Nat) /\ Len(w) = Len(u) + Len(v)
      /\ \A i \in 1 .. Len(u) + Len(v) : w[i] = IF i <= Len(u) THEN u[i] ELSE v[i - Len(u)]
  BY ConcatProperties
<1> DEFINE W == Totals(w)
<1>2. PICK m \in Nat : m = Len(u)
  OBVIOUS
<1>3. PICK n \in Nat : n = Len(v)
  OBVIOUS
<1>4. W \in [0 .. m + n -> Nat] /\ W[0] = 0 /\ \A i \in 1 .. m + n : W[i] = W[i - 1] + w[i]
  BY <1>1, <1>2, <1>3, TotalsStep
<1> HIDE DEF W
<1>5. W[m] = Total(u)
  <2>1. \A i \in 1 .. Len(u) : W[i] = W[i - 1] + u[i]
    BY <1>1, <1>2, <1>3, <1>4
  <2>2. \A i \in 0 .. Len(u) : W[i] = Totals(u)[i]
    BY <2>1, <1>4, TotalsUnique
  <2> QED BY <2>2, <1>2 DEF Total
<1> DEFINE F == [i \in 0 .. n |-> W[m + i] - W[m]]
<1>6. F[n] = Total(v)
  <2>0. \A i \in 0 .. n : m + i \in 0 .. m + n /\ W[m + i] \in Nat /\ F[i] = W[m + i] - W[m]
    BY <1>4
  <2>1. F[0] = 0
    <3>1. m + 0 = m /\ 0 \in 0 .. n
      OBVIOUS
    <3> HIDE DEF F
    <3>2. F[0] = W[m + 0] - W[m] /\ W[m + 0] \in Nat
      BY <2>0, <3>1
    <3>3. F[0] = W[m] - W[m] /\ W[m] \in Nat
      BY <3>1, <3>2
    <3> QED BY <3>3
  <2>2. ASSUME NEW i \in 1 .. Len(v) PROVE F[i] = F[i - 1] + v[i]
    <3>1. /\ i \in 0 .. n /\ i - 1 \in 0 .. n /\ m + i \in 1 .. m + n /\ ~(m + i <= m)
          /\ (m + i) - m = i /\ (m + i) - 1 = m + (i - 1) /\ v[i] \in Nat /\ m + 0 = m /\ 0 \in 0 .. n
      BY <1>3
    <3>2. W[m + i] = W[m + (i - 1)] + w[m + i]
      BY <3>1, <1>4
    <3>3. w[m + i] = v[i]
      BY <3>1, <1>1, <1>2, <1>3
    <3>4. F[i] = W[m + i] - W[m] /\ F[i - 1] = W[m + (i - 1)] - W[m]
          /\ W[m + (i - 1)] \in Nat
      BY <3>1, <2>0
    <3>5. W[m] \in Nat
      BY <3>1, <2>0
    <3> HIDE DEF F
    <3> DEFINE a == W[m + (i - 1)]
    <3>6. F[i] = (a + v[i]) - W[m] /\ F[i - 1] = a - W[m] /\ a \in Nat
      BY <3>2, <3>3, <3>4
    <3> HIDE DEF a
    <3> QED BY <3>1, <3>5, <3>6, SMTT(40)
  <2> HIDE DEF F
  <2>3. \A i \in 0 .. Len(v) : F[i] = Totals(v)[i]
    BY <2>1, <2>2, TotalsUnique
  <2> QED BY <2>3, <1>3 DEF Total
<1>7. W[m + n] - W[m] = Total(v) /\ W[m + n] \in Nat /\ W[m] \in Nat
  BY <1>6, <1>4
<1>8. W[m + n] = W[m] + Total(v)
  <2>1. Total(v) \in Nat
    BY TotalIsNat
  <2> QED BY <2>1, <1>7, SMTT(40)
<1> QED BY <1>1, <1>2, <1>3, <1>5, <1>8 DEF Total, W

\* The total of sums.
AddUp(f, g, h) == Total(h) = Total(f) + Total(g)

\* Two lists of sizes added place by place.
LEMMA TotalPlus ==
  ASSUME NEW n \in Nat, NEW f \in [1 .. n -> Nat], NEW g \in [1 .. n -> Nat],
         NEW h, h = [k \in 1 .. n |-> f[k] + g[k]]
  PROVE  AddUp(f, g, h)
<1>1. f \in Seq(Nat) /\ Len(f) = n /\ g \in Seq(Nat) /\ Len(g) = n
  BY FunctionIsSeq
<1>2. h \in Seq(Nat) /\ Len(h) = n
  <2>1. h \in [1 .. n -> Nat]
    OBVIOUS
  <2> QED BY <2>1, FunctionIsSeq
<1> DEFINE TF == Totals(f)
           TG == Totals(g)
<1>3. /\ TF \in [0 .. n -> Nat] /\ TF[0] = 0 /\ \A i \in 1 .. n : TF[i] = TF[i - 1] + f[i]
      /\ TG \in [0 .. n -> Nat] /\ TG[0] = 0 /\ \A i \in 1 .. n : TG[i] = TG[i - 1] + g[i]
  BY <1>1, TotalsStep
<1> HIDE DEF TF, TG
<1> DEFINE F == [i \in 0 .. n |-> TF[i] + TG[i]]
<1>4. F[0] = 0
  BY <1>3
<1>5. ASSUME NEW i \in 1 .. Len(h) PROVE F[i] = F[i - 1] + h[i]
  <2>1. i \in 1 .. n /\ i \in 0 .. n /\ i - 1 \in 0 .. n
    BY <1>2
  <2>2. /\ TF[i] = TF[i - 1] + f[i] /\ TG[i] = TG[i - 1] + g[i] /\ h[i] = f[i] + g[i]
        /\ TF[i - 1] \in Nat /\ TG[i - 1] \in Nat /\ f[i] \in Nat /\ g[i] \in Nat
    BY <2>1, <1>3
  <2>3. F[i] = TF[i] + TG[i] /\ F[i - 1] = TF[i - 1] + TG[i - 1]
    BY <2>1
  <2> HIDE DEF F
  <2> QED BY <2>2, <2>3, SMTT(40)
<1>6. F[n] = TF[n] + TG[n]
  OBVIOUS
<1> HIDE DEF F
<1>7. F[n] = Totals(h)[n]
  <2>1. \A i \in 0 .. Len(h) : F[i] = Totals(h)[i]
    BY <1>2, <1>4, <1>5, TotalsUnique
  <2> QED BY <2>1, <1>2
<1> QED BY <1>1, <1>2, <1>6, <1>7 DEF AddUp, Total, TF, TG


\* A sequence of sequences, put together one by one.
LEMMA FlattenSteps ==
  ASSUME NEW X, NEW seqs \in Seq(Seq(X))
  PROVE  \E F : /\ F[0] = <<>> /\ FlattenSeq(seqs) = F[Len(seqs)]
                /\ \A i \in 1 .. Len(seqs) : F[i] = F[i - 1] \o seqs[i]
<1> DEFINE Rec(f, n) == f = [i \in 1 .. n |-> IF i = 1 THEN seqs[i] ELSE f[i - 1] \o seqs[i]]
           Q == {n \in Nat : \E f : Rec(f, n)}
<1>1. 0 \in Q
  <2> DEFINE f == [i \in 1 .. 0 |-> 0]
  <2>1. Rec(f, 0)
    OBVIOUS
  <2> QED BY <2>1
<1>2. ASSUME NEW n \in Q PROVE n + 1 \in Q
  <2>1. PICK f : Rec(f, n)
    OBVIOUS
  <2> DEFINE g == [i \in 1 .. n + 1 |->
                     IF i = n + 1 THEN (IF i = 1 THEN seqs[i] ELSE f[n] \o seqs[i]) ELSE f[i]]
  <2>2. Rec(g, n + 1)
    <3> HIDE DEF Q
    <3>0. n \in Nat
      BY DEF Q
    <3>1. ASSUME NEW i \in 1 .. n + 1 PROVE g[i] = IF i = 1 THEN seqs[i] ELSE g[i - 1] \o seqs[i]
      <4>1. CASE i = n + 1
        <5>1. i - 1 = n /\ i - 1 # n + 1 /\ (i # 1 => i - 1 \in 1 .. n + 1)
          BY <4>1, <3>0
        <5> QED BY <4>1, <5>1
      <4>2. CASE i # n + 1
        <5>1. i \in 1 .. n /\ i - 1 # n + 1 /\ (i # 1 => i - 1 \in 1 .. n + 1)
          BY <4>2, <3>0
        <5>2. f[i] = IF i = 1 THEN seqs[i] ELSE f[i - 1] \o seqs[i]
          BY <5>1, <2>1
        <5> QED BY <4>2, <5>1, <5>2
      <4> QED BY <4>1, <4>2
    <3> QED BY <3>1
  <2>3. n + 1 \in Nat
    OBVIOUS
  <2>4. \E h : Rec(h, n + 1)
    BY <2>2
  <2> HIDE DEF Rec
  <2> QED BY <2>3, <2>4
<1>3. Q = Nat
  <2> HIDE DEF Q
  <2> QED BY <1>1, <1>2, NatInduct DEF Q
<1>4. PICK len \in Nat : len = Len(seqs)
  OBVIOUS
<1> DEFINE G == CHOOSE f : Rec(f, len)
<1>5. Rec(G, len)
  <2>1. \E f : Rec(f, len)
    BY <1>3
  <2> HIDE DEF Rec
  <2> QED BY <2>1
<1>6. FlattenSeq(seqs) = IF Len(seqs) = 0 THEN seqs ELSE G[Len(seqs)]
  BY <1>4 DEF FlattenSeq
<1> HIDE DEF G
<1>7. \A i \in 1 .. len : G[i] = IF i = 1 THEN seqs[i] ELSE G[i - 1] \o seqs[i]
  BY <1>5
<1> DEFINE F == [i \in 0 .. len |-> IF i = 0 THEN <<>> ELSE G[i]]
<1>8. F[0] = <<>> /\ \A i \in 1 .. len : F[i] = G[i]
  OBVIOUS
<1> HIDE DEF F
<1>9. ASSUME NEW i \in 1 .. len PROVE F[i] = F[i - 1] \o seqs[i]
  <2>0. seqs[i] \in Seq(X) /\ <<>> \o seqs[i] = seqs[i]
    <3>1. seqs[i] \in Seq(X)
      BY <1>4
    <3> QED BY <3>1, ConcatEmptySeq
  <2>1. CASE i = 1
    <3>1. F[i] = seqs[i] /\ i - 1 = 0
      BY <2>1, <1>7, <1>8
    <3> QED BY <3>1, <2>0, <1>8
  <2>2. CASE i # 1
    <3>1. i - 1 \in 1 .. len
      BY <2>2
    <3>2. F[i] = G[i - 1] \o seqs[i] /\ F[i - 1] = G[i - 1]
      BY <2>2, <3>1, <1>7, <1>8
    <3> QED BY <3>2, Zenon
  <2> QED BY <2>1, <2>2
<1>10. FlattenSeq(seqs) = F[Len(seqs)]
  <2>1. CASE Len(seqs) = 0
    <3>1. seqs = <<>>
      BY <2>1
    <3> QED BY <3>1, <2>1, <1>6, <1>8
  <2>2. CASE Len(seqs) # 0
    <3>1. len \in 1 .. len
      BY <2>2, <1>4
    <3> QED BY <3>1, <2>2, <1>4, <1>6, <1>8
  <2> QED BY <2>1, <2>2
<1> QED BY <1>4, <1>8, <1>9, <1>10

\* What adds up over two sequences adds up over many: Adds is the set of pairs of
\* a sequence and what it counts for.
LEMMA FlattenAdds ==
  ASSUME NEW X, NEW Adds, <<<<>>, 0>> \in Adds,
         \A s, t \in Seq(X), h, g \in Nat :
           <<s, h>> \in Adds /\ <<t, g>> \in Adds => <<s \o t, h + g>> \in Adds,
         NEW seqs \in Seq(Seq(X)), NEW hs \in Seq(Nat), Len(hs) = Len(seqs),
         \A k \in 1 .. Len(seqs) : <<seqs[k], hs[k]>> \in Adds
  PROVE  FlattenSeq(seqs) \in Seq(X) /\ <<FlattenSeq(seqs), Total(hs)>> \in Adds
<1> DEFINE T == Totals(hs)
<1>1. PICK F : /\ F[0] = <<>> /\ FlattenSeq(seqs) = F[Len(seqs)]
               /\ \A i \in 1 .. Len(seqs) : F[i] = F[i - 1] \o seqs[i]
  BY FlattenSteps
<1>2. PICK len \in Nat : len = Len(seqs)
  OBVIOUS
<1>3. T \in [0 .. len -> Nat] /\ T[0] = 0 /\ \A i \in 1 .. len : T[i] = T[i - 1] + hs[i]
  BY <1>2, TotalsStep
<1>4. Total(hs) = T[len]
  BY <1>2 DEF Total
<1> HIDE DEF T
<1> DEFINE K == {n \in Nat : n \in 0 .. len => F[n] \in Seq(X) /\ <<F[n], T[n]>> \in Adds}
<1>5. 0 \in K
  <2>1. <<>> \in Seq(X) /\ F[0] = <<>> /\ T[0] = 0
    BY <1>1, <1>3
  <2>2. F[0] \in Seq(X) /\ <<F[0], T[0]>> \in Adds
    BY <2>1, Zenon
  <2> QED BY <2>2
<1>6. ASSUME NEW n \in K PROVE n + 1 \in K
  <2>1. CASE n + 1 \in 0 .. len
    <3>1. n \in 0 .. len /\ n + 1 \in 1 .. len /\ (n + 1) - 1 = n
      BY <2>1
    <3>2. F[n] \in Seq(X) /\ <<F[n], T[n]>> \in Adds /\ T[n] \in Nat
      BY <3>1, <1>3
    <3>3. seqs[n + 1] \in Seq(X) /\ hs[n + 1] \in Nat /\ <<seqs[n + 1], hs[n + 1]>> \in Adds
      BY <3>1, <1>2, SMTT(40)
    <3>4. F[n + 1] = F[n] \o seqs[n + 1] /\ T[n + 1] = T[n] + hs[n + 1]
      <4>1. F[n + 1] = F[(n + 1) - 1] \o seqs[n + 1] /\ T[n + 1] = T[(n + 1) - 1] + hs[n + 1]
        BY <3>1, <1>1, <1>2, <1>3
      <4> QED BY <4>1, <3>1
    <3>5. <<F[n] \o seqs[n + 1], T[n] + hs[n + 1]>> \in Adds
      BY <3>2, <3>3
    <3>6. F[n] \o seqs[n + 1] \in Seq(X)
      BY <3>2, <3>3
    <3>7. F[n + 1] \in Seq(X) /\ <<F[n + 1], T[n + 1]>> \in Adds
      BY <3>4, <3>5, <3>6, Zenon
    <3> QED BY <3>7
  <2> QED BY <2>1
<1>7. K = Nat
  <2> HIDE DEF K
  <2> QED BY <1>5, <1>6, NatInduct DEF K
<1>8. len \in K /\ len \in 0 .. len
  <2> HIDE DEF K
  <2> QED BY <1>7
<1> QED BY <1>1, <1>2, <1>4, <1>8

\* What the elements of a sequence weigh together.
Weights(s, H) == [k \in DOMAIN s |-> H[s[k]]]
Sum(s, H) == Total(Weights(s, H))

\* The weights of a sequence, place by place.
LEMMA WeightsFacts ==
  ASSUME NEW X, NEW H \in [X -> Nat], NEW s \in Seq(X)
  PROVE  /\ Weights(s, H) \in [1 .. Len(s) -> Nat]
         /\ Weights(s, H) \in Seq(Nat) /\ Len(Weights(s, H)) = Len(s)
         /\ \A k \in 1 .. Len(s) : Weights(s, H)[k] = H[s[k]]
<1>1. Weights(s, H) \in [1 .. Len(s) -> Nat] /\ \A k \in 1 .. Len(s) : Weights(s, H)[k] = H[s[k]]
  BY DEF Weights
<1>2. Len(s) \in Nat
  OBVIOUS
<1> QED BY <1>1, <1>2, FunctionIsSeq

Weighed(w, s, H) == w \in Seq(Nat) /\ Len(w) = Len(s) /\ \A k \in 1 .. Len(s) : w[k] = H[s[k]]

\* The same, as one fact about the sequence of weights.
LEMMA WeightsAre ==
  ASSUME NEW X, NEW H \in [X -> Nat], NEW s \in Seq(X)
  PROVE  Weighed(Weights(s, H), s, H)
BY WeightsFacts DEF Weighed

\* And what that fact says.
LEMMA WeighedFacts ==
  ASSUME NEW w, NEW s, NEW H, Weighed(w, s, H)
  PROVE  w \in [1 .. Len(s) -> Nat] /\ \A k \in 1 .. Len(s) : w[k] = H[s[k]]
BY DEF Weighed

\* The sum over no elements.
LEMMA SumNone == ASSUME NEW X, NEW H \in [X -> Nat] PROVE Sum(<<>>, H) = 0
<1>1. <<>> \in Seq(X) /\ Len(<<>>) = 0
  OBVIOUS
<1>2. Weights(<<>>, H) \in Seq(Nat) /\ Len(Weights(<<>>, H)) = 0
  BY <1>1, WeightsFacts, ZenonT(60)
<1> QED BY <1>2, TotalNone DEF Sum

\* The sum over one element.
LEMMA SumOne == ASSUME NEW X, NEW H \in [X -> Nat], NEW x \in X PROVE Sum(<<x>>, H) = H[x]
<1>1. PICK s \in Seq(X) : s = <<x>>
  <2>1. <<x>> \in Seq(X)
    OBVIOUS
  <2> QED BY <2>1, Zenon
<1>2. Len(s) = 1 /\ s[1] = x
  BY <1>1
<1>3. /\ Weights(s, H) \in Seq(Nat) /\ Len(Weights(s, H)) = 1
      /\ \A k \in 1 .. 1 : Weights(s, H)[k] = H[s[k]]
  BY <1>2, WeightsFacts
<1>4. Total(Weights(s, H)) = Weights(s, H)[1]
  BY <1>3, TotalOne
<1> QED BY <1>1, <1>2, <1>3, <1>4 DEF Sum

\* A sum is a natural number.
LEMMA SumIsNat == ASSUME NEW X, NEW H \in [X -> Nat], NEW s \in Seq(X) PROVE Sum(s, H) \in Nat
BY WeightsFacts, TotalIsNat DEF Sum

\* The sum over two sequences, one after the other.
LEMMA SumConcat ==
  ASSUME NEW X, NEW H \in [X -> Nat], NEW s \in Seq(X), NEW t \in Seq(X)
  PROVE  Sum(s \o t, H) = Sum(s, H) + Sum(t, H)
<1> DEFINE u == s \o t
           a == Weights(s, H)
           b == Weights(t, H)
           c == Weights(u, H)
<1>1. /\ u \in Seq(X) /\ Len(u) = Len(s) + Len(t)
      /\ \A i \in 1 .. Len(s) + Len(t) : u[i] = IF i <= Len(s) THEN s[i] ELSE t[i - Len(s)]
  BY ConcatProperties
<1> HIDE DEF u
<1>2. /\ a \in Seq(Nat) /\ Len(a) = Len(s) /\ \A k \in 1 .. Len(s) : a[k] = H[s[k]]
      /\ b \in Seq(Nat) /\ Len(b) = Len(t) /\ \A k \in 1 .. Len(t) : b[k] = H[t[k]]
      /\ c \in Seq(Nat) /\ Len(c) = Len(u) /\ \A k \in 1 .. Len(u) : c[k] = H[u[k]]
  <2>1. Weighed(a, s, H) /\ Weighed(b, t, H) /\ Weighed(c, u, H)
    BY <1>1, WeightsAre, Zenon
  <2> HIDE DEF a, b, c
  <2> QED BY <2>1, Zenon DEF Weighed
<1> HIDE DEF a, b, c
<1>3. PICK d \in Seq(Nat) : d = a \o b
  <2>1. a \o b \in Seq(Nat)
    BY <1>2
  <2> QED BY <2>1, Zenon
<1>4. /\ Len(d) = Len(a) + Len(b)
      /\ \A i \in 1 .. Len(a) + Len(b) : d[i] = IF i <= Len(a) THEN a[i] ELSE b[i - Len(a)]
  BY <1>2, <1>3, ConcatProperties, SMTT(40)
<1>5. ASSUME NEW i \in 1 .. Len(c) PROVE c[i] = d[i]
  <2>0. Len(s) \in Nat /\ Len(t) \in Nat
    OBVIOUS
  <2>1. i \in 1 .. Len(s) + Len(t) /\ i \in 1 .. Len(u) /\ i \in 1 .. Len(a) + Len(b)
    BY <1>1, <1>2
  <2>2. CASE i <= Len(s)
    <3>1. i \in 1 .. Len(s) /\ i <= Len(a)
      BY <2>0, <2>1, <2>2, <1>2
    <3>2. u[i] = s[i] /\ d[i] = a[i]
      BY <3>1, <2>1, <2>2, <1>1, <1>4
    <3> QED BY <3>1, <3>2, <2>1, <1>2
  <2>3. CASE ~(i <= Len(s))
    <3>1. i - Len(s) \in 1 .. Len(t) /\ ~(i <= Len(a)) /\ i - Len(a) = i - Len(s)
      BY <2>0, <2>1, <2>3, <1>2
    <3>2. u[i] = t[i - Len(s)] /\ d[i] = b[i - Len(s)]
      BY <3>1, <2>1, <2>3, <1>1, <1>4
    <3> QED BY <3>1, <3>2, <2>1, <1>2, ZenonT(60)
  <2> QED BY <2>2, <2>3
<1>6. c = d
  <2>1. Len(c) = Len(d)
    BY <1>1, <1>2, <1>4
  <2> QED BY <2>1, <1>2, <1>3, <1>5, SeqEqual
<1>7. Total(c) = Total(a) + Total(b)
  <2>1. c = a \o b
    BY <1>3, <1>6, Zenon
  <2>2. a \in Seq(Nat) /\ b \in Seq(Nat)
    BY <1>2, Zenon
  <2> QED BY <2>1, <2>2, TotalConcat, ZenonT(60)
<1> QED BY <1>7 DEF Sum, a, b, c, u

\* The elements that weigh 1, where none weighs more, are counted.
LEMMA SumCounts ==
  ASSUME NEW X, NEW H \in [X -> {0, 1}], NEW s \in Seq(X)
  PROVE  Sum(s, H) = Cardinality({k \in 1 .. Len(s) : H[s[k]] = 1})
<1> DEFINE w == Weights(s, H)
           S(i) == {k \in 1 .. i : H[s[k]] = 1}
           F == [i \in 0 .. Len(s) |-> Cardinality(S(i))]
<1>1. w \in Seq(Nat) /\ Len(w) = Len(s) /\ \A k \in 1 .. Len(s) : w[k] = H[s[k]]
  <2>1. H \in [X -> Nat]
    OBVIOUS
  <2> QED BY <2>1, WeightsFacts
<1> HIDE DEF w
<1>2. ASSUME NEW i \in Nat PROVE IsFiniteSet(S(i)) /\ Cardinality(S(i)) \in Nat
  <2>1. IsFiniteSet(1 .. i) /\ S(i) \in SUBSET (1 .. i)
    BY FS_Interval
  <2> HIDE DEF S
  <2> QED BY <2>1, FS_Subset, FS_CardinalityType
<1>3. F[0] = 0
  <2>1. S(0) = {}
    OBVIOUS
  <2> QED BY <2>1, FS_EmptySet
<1>4. ASSUME NEW i \in 1 .. Len(s) PROVE F[i] = F[i - 1] + w[i]
  <2>1. i - 1 \in Nat /\ i \notin 1 .. i - 1 /\ 1 .. i = (1 .. i - 1) \cup {i}
    OBVIOUS
  <2>2. F[i] = Cardinality(S(i)) /\ F[i - 1] = Cardinality(S(i - 1))
    OBVIOUS
  <2>3. IsFiniteSet(S(i - 1)) /\ Cardinality(S(i - 1)) \in Nat
    BY <2>1, <1>2
  <2>4. CASE H[s[i]] = 1
    <3>1. S(i) = S(i - 1) \cup {i} /\ i \notin S(i - 1)
      BY <2>1, <2>4
    <3>2. Cardinality(S(i)) = Cardinality(S(i - 1)) + 1
      <4> HIDE DEF S
      <4> QED BY <3>1, <2>3, FS_AddElement
    <3> HIDE DEF F, S
    <3> QED BY <3>2, <2>2, <2>4, <1>1
  <2>5. CASE H[s[i]] # 1
    <3>1. S(i) = S(i - 1)
      BY <2>1, <2>5
    <3>2. w[i] = 0
      BY <2>5, <1>1
    <3> HIDE DEF F, S
    <3> QED BY <3>1, <3>2, <2>2, <2>3
  <2> QED BY <2>4, <2>5
<1>5. Len(s) \in Nat /\ F[Len(s)] = Cardinality(S(Len(s)))
  OBVIOUS
<1> HIDE DEF F
<1>6. \A i \in 0 .. Len(s) : F[i] = Totals(w)[i]
  <2> HIDE DEF S
  <2> QED BY <1>1, <1>3, <1>4, TotalsUnique, SMTT(40)
<1>7. F[Len(s)] = Total(w)
  <2>1. Len(s) \in 0 .. Len(s)
    BY <1>5
  <2> QED BY <2>1, <1>1, <1>6 DEF Total
<1> QED BY <1>5, <1>7 DEF Sum, w

AddOn(X, H, G) == [x \in X |-> H[x] + G[x]]
Adding(s, H, G, K) == Sum(s, K) = Sum(s, H) + Sum(s, G)

\* Two weights added element by element.
LEMMA SumPlus ==
  ASSUME NEW X, NEW H \in [X -> Nat], NEW G \in [X -> Nat], NEW s \in Seq(X),
         NEW K, K = AddOn(X, H, G)
  PROVE  K \in [X -> Nat] /\ Adding(s, H, G, K)
<1> DEFINE a == Weights(s, H)
           b == Weights(s, G)
           c == Weights(s, K)
<1>1. K \in [X -> Nat]
  BY DEF AddOn
<1>2. Weighed(a, s, H) /\ Weighed(b, s, G) /\ Weighed(c, s, K)
  BY <1>1, WeightsAre, Zenon
<1> HIDE DEF a, b, c
<1>3. Len(s) \in Nat
  OBVIOUS
<1>4. /\ a \in [1 .. Len(s) -> Nat] /\ \A k \in 1 .. Len(s) : a[k] = H[s[k]]
      /\ b \in [1 .. Len(s) -> Nat] /\ \A k \in 1 .. Len(s) : b[k] = G[s[k]]
      /\ c \in [1 .. Len(s) -> Nat] /\ \A k \in 1 .. Len(s) : c[k] = K[s[k]]
  <2>1. a \in [1 .. Len(s) -> Nat] /\ \A k \in 1 .. Len(s) : a[k] = H[s[k]]
    BY <1>2, WeighedFacts
  <2>2. b \in [1 .. Len(s) -> Nat] /\ \A k \in 1 .. Len(s) : b[k] = G[s[k]]
    BY <1>2, WeighedFacts
  <2>3. c \in [1 .. Len(s) -> Nat] /\ \A k \in 1 .. Len(s) : c[k] = K[s[k]]
    BY <1>2, WeighedFacts
  <2> QED BY <2>1, <2>2, <2>3
<1>5. c = [k \in 1 .. Len(s) |-> a[k] + b[k]]
  <2>1. ASSUME NEW k \in 1 .. Len(s) PROVE c[k] = a[k] + b[k]
    <3>1. s[k] \in X
      OBVIOUS
    <3>2. K[s[k]] = H[s[k]] + G[s[k]]
      BY <3>1 DEF AddOn
    <3> QED BY <3>2, <1>4
  <2> QED BY <2>1, <1>4
<1>6. AddUp(a, b, c)
  BY <1>3, <1>4, <1>5, TotalPlus, Zenon
<1> QED BY <1>1, <1>6 DEF Adding, AddUp, Sum, a, b, c

\* What each element of a sequence makes, put together.
MadeOf(s, f) == [k \in DOMAIN s |-> f[s[k]]]
EachOf(s, f) == FlattenSeq(MadeOf(s, f))

Made(ss, s, f) == Len(ss) = Len(s) /\ \A k \in 1 .. Len(s) : ss[k] = f[s[k]]

\* A sequence for each element of a sequence.
LEMMA EachIsSeq ==
  ASSUME NEW X, NEW N, NEW f \in [N -> Seq(X)], NEW s \in Seq(N),
         NEW ss, ss = MadeOf(s, f)
  PROVE  ss \in Seq(Seq(X)) /\ Made(ss, s, f)
<1>1. PICK n \in Nat : n = Len(s)
  OBVIOUS
<1>2. ss \in [1 .. n -> Seq(X)] /\ \A k \in 1 .. n : ss[k] = f[s[k]]
  BY <1>1 DEF MadeOf
<1>3. ss \in Seq(Seq(X)) /\ Len(ss) = n
  BY <1>2, FunctionIsSeq
<1> QED BY <1>1, <1>2, <1>3 DEF Made

Spread(N, f, H) == [n \in N |-> Sum(f[n], H)]
SameSum(s, H, t, G) == Sum(s, H) = Sum(t, G)

EachSums(X, N, s, f, H, G) ==
  G \in [N -> Nat] /\ EachOf(s, f) \in Seq(X) /\ SameSum(EachOf(s, f), H, s, G)

\* The sum over what is made of each element, by what each makes.
LEMMA SumEach ==
  ASSUME NEW X, NEW H \in [X -> Nat], NEW N, NEW f \in [N -> Seq(X)], NEW s \in Seq(N),
         NEW G, G = Spread(N, f, H)
  PROVE  EachSums(X, N, s, f, H, G)
<1>1. G \in [N -> Nat]
  <2>1. \A n \in N : Sum(f[n], H) \in Nat
    <3> SUFFICES ASSUME NEW n \in N PROVE Sum(f[n], H) \in Nat
      OBVIOUS
    <3>1. f[n] \in Seq(X)
      OBVIOUS
    <3> QED BY <3>1, SumIsNat, Zenon
  <2> QED BY <2>1 DEF Spread
<1>2. PICK ss : ss = MadeOf(s, f)
  OBVIOUS
<1>3. ss \in Seq(Seq(X)) /\ Len(ss) = Len(s) /\ \A k \in 1 .. Len(s) : ss[k] = f[s[k]]
  <2>1. ss \in Seq(Seq(X)) /\ Made(ss, s, f)
    BY <1>2, EachIsSeq, Zenon
  <2> QED BY <2>1 DEF Made
<1> DEFINE hs == Weights(s, G)
           Adds == {q \in Seq(X) \X Nat : Sum(q[1], H) = q[2]}
<1>4. Weighed(hs, s, G)
  BY <1>1, WeightsAre, Zenon
<1> HIDE DEF hs
<1>5. \A t \in Seq(X), h \in Nat : <<t, h>> \in Adds <=> Sum(t, H) = h
  OBVIOUS
<1>6. <<<<>>, 0>> \in Adds
  <2>1. <<>> \in Seq(X) /\ 0 \in Nat
    OBVIOUS
  <2> HIDE DEF Adds
  <2> QED BY <2>1, <1>5, SumNone
<1>7. ASSUME NEW t \in Seq(X), NEW u \in Seq(X), NEW h \in Nat, NEW g \in Nat,
             <<t, h>> \in Adds, <<u, g>> \in Adds
      PROVE  <<t \o u, h + g>> \in Adds
  <2> HIDE DEF Adds
  <2>1. Sum(t, H) = h /\ Sum(u, H) = g
    BY <1>5, <1>7
  <2>2. Sum(t \o u, H) = h + g
    BY <2>1, SumConcat
  <2>3. t \o u \in Seq(X) /\ h + g \in Nat
    OBVIOUS
  <2> QED BY <2>2, <2>3, <1>5
<1>8. ASSUME NEW k \in 1 .. Len(ss) PROVE <<ss[k], hs[k]>> \in Adds
  <2> HIDE DEF Adds
  <2>1. s[k] \in N /\ ss[k] = f[s[k]] /\ ss[k] \in Seq(X) /\ k \in 1 .. Len(s)
    BY <1>3
  <2>2. hs[k] = G[s[k]]
    BY <2>1, <1>4 DEF Weighed
  <2>3. hs[k] = Sum(ss[k], H) /\ hs[k] \in Nat
    BY <2>1, <2>2, <1>1 DEF Spread
  <2> QED BY <2>1, <2>3, <1>5
<1>9. FlattenSeq(ss) \in Seq(X) /\ <<FlattenSeq(ss), Total(hs)>> \in Adds
  <2> HIDE DEF Adds
  <2>1. hs \in Seq(Nat) /\ Len(hs) = Len(ss)
    BY <1>3, <1>4 DEF Weighed
  <2> QED BY <2>1, <1>3, <1>6, <1>7, <1>8, FlattenAdds
<1>10. Sum(FlattenSeq(ss), H) = Total(hs)
  BY <1>9
<1>11. EachOf(s, f) = FlattenSeq(ss)
  BY <1>2 DEF EachOf
<1> QED BY <1>1, <1>9, <1>10, <1>11 DEF EachSums, SameSum, Sum, hs

----------------------------------------------------------------------------
\* What a description names, counted at its nodes.
Pairs == {<<n.o["image"].v, b>> : n \in Nodes, b \in BOOLEAN}
Is(x) == [p \in Pairs |-> IF p = x THEN 1 ELSE 0]
NamedIn(b) == [n \in Nodes |-> NamedAt(n, b)]
SlotsIn == [n \in Nodes |-> SlotNodes(n)]
CryptsIn == [n \in Nodes |-> CryptNodes(n)]

OwnCount(x, b) == Spread(Nodes, NamedIn(b), Is(x))
SlotCount(H) == Spread(Nodes, SlotsIn, H)
CryptCount(H) == Spread(Nodes, CryptsIn, H)
Plus(H, G) == AddOn(Nodes, H, G)
WithSlots(H) == Plus(H, SlotCount(H))
OpenCount(x) == Plus(OwnCount(x, FALSE), CryptCount(WithSlots(OwnCount(x, TRUE))))
EntryCount(x) == WithSlots(OpenCount(x))

\* What a node names is a sequence of pairs.
LEMMA NamedFacts == ASSUME NEW b \in BOOLEAN PROVE NamedIn(b) \in [Nodes -> Seq(Pairs)]
<1> SUFFICES ASSUME NEW n \in Nodes PROVE NamedAt(n, b) \in Seq(Pairs)
  BY DEF NamedIn
<1>1. CASE IsMember(n, "partitions")
  <2>1. PICK ps : ps = n.o["partitions"].a
    OBVIOUS
  <2>2. ps \in Seq(Nodes)
    BY <1>1, <2>1, MemberIsNode, NodesAssumption
  <2>3. NamedAt(n, b) = [k \in DOMAIN ps |-> <<ps[k].o["image"].v, b>>]
    BY <1>1, <2>1 DEF NamedAt
  <2>4. PICK len \in Nat : len = Len(ps)
    BY <2>2
  <2>5. NamedAt(n, b) \in [1 .. len -> Pairs]
    <3>1. \A k \in 1 .. len : <<ps[k].o["image"].v, b>> \in Pairs
      BY <2>2, <2>4 DEF Pairs
    <3>2. DOMAIN ps = 1 .. len
      BY <2>2, <2>4
    <3> QED BY <2>3, <3>1, <3>2
  <2> QED BY <2>5, FunctionIsSeq
<1>2. CASE ~IsMember(n, "partitions")
  <2>1. NamedAt(n, b) = [k \in DOMAIN <<>> |-> <<<<>>[k].o["image"].v, b>>]
    BY <1>2 DEF NamedAt
  <2>2. DOMAIN <<>> = 1 .. 0
    OBVIOUS
  <2>3. NamedAt(n, b) \in [1 .. 0 -> Pairs]
    BY <2>1, <2>2
  <2> QED BY <2>3, FunctionIsSeq
<1> QED BY <1>1, <1>2

\* The slots of a node are nodes.
LEMMA SlotsFacts == SlotsIn \in [Nodes -> Seq(Nodes)]
<1> SUFFICES ASSUME NEW n \in Nodes PROVE SlotNodes(n) \in Seq(Nodes)
  BY DEF SlotsIn
<1>1. CASE IsMember(n, "slots")
  <2>1. PICK t \in Nodes : t = n.o["slots"] /\ t.t = "obj"
    BY <1>1, MemberIsNode
  <2>2. PICK names : names = Members(t)
    OBVIOUS
  <2>3. SlotNodes(n) = [k \in DOMAIN names |-> t.o[names[k]]]
    BY <1>1, <2>1, <2>2 DEF SlotNodes
  <2>4. /\ Len(names) \in Nat /\ DOMAIN names = 1 .. Len(names)
        /\ \A k \in 1 .. Len(names) : t.o[names[k]] \in Nodes
    BY <2>1, <2>2, SlotsAreNodes
  <2>5. SlotNodes(n) \in [1 .. Len(names) -> Nodes]
    BY <2>3, <2>4
  <2> QED BY <2>4, <2>5, FunctionIsSeq
<1>2. CASE ~IsMember(n, "slots")
  BY <1>2 DEF SlotNodes
<1> QED BY <1>1, <1>2

\* Its container is a node.
LEMMA CryptsFacts == CryptsIn \in [Nodes -> Seq(Nodes)]
<1> SUFFICES ASSUME NEW n \in Nodes PROVE CryptNodes(n) \in Seq(Nodes)
  BY DEF CryptsIn
<1>1. CASE IsMember(n, "encrypted")
  <2>1. n.o["encrypted"] \in Nodes
    BY <1>1, MemberIsNode
  <2> QED BY <1>1, <2>1 DEF CryptNodes
<1>2. CASE ~IsMember(n, "encrypted")
  BY <1>2 DEF CryptNodes
<1> QED BY <1>1, <1>2

\* A pair counts once for itself.
LEMMA IsFacts == ASSUME NEW x PROVE Is(x) \in [Pairs -> Nat] /\ Is(x) \in [Pairs -> {0, 1}]
BY DEF Is

\* The counts are natural numbers.
LEMMA CountTypes ==
  /\ \A x, b : b \in BOOLEAN => OwnCount(x, b) \in [Nodes -> Nat]
  /\ \A H \in [Nodes -> Nat] : /\ SlotCount(H) \in [Nodes -> Nat] /\ CryptCount(H) \in [Nodes -> Nat]
                               /\ WithSlots(H) \in [Nodes -> Nat]
  /\ \A H, G \in [Nodes -> Nat] : Plus(H, G) \in [Nodes -> Nat]
  /\ \A x : OpenCount(x) \in [Nodes -> Nat] /\ EntryCount(x) \in [Nodes -> Nat]
<1>1. ASSUME NEW x, NEW b \in BOOLEAN PROVE OwnCount(x, b) \in [Nodes -> Nat]
  <2>1. ASSUME NEW n \in Nodes PROVE Sum(NamedIn(b)[n], Is(x)) \in Nat
    <3>1. NamedIn(b)[n] \in Seq(Pairs)
      BY NamedFacts
    <3> QED BY <3>1, IsFacts, SumIsNat, Zenon
  <2> QED BY <2>1 DEF OwnCount, Spread
<1>2. ASSUME NEW H \in [Nodes -> Nat] PROVE SlotCount(H) \in [Nodes -> Nat] /\ CryptCount(H) \in [Nodes -> Nat]
  <2>1. ASSUME NEW n \in Nodes PROVE Sum(SlotsIn[n], H) \in Nat /\ Sum(CryptsIn[n], H) \in Nat
    <3>1. SlotsIn[n] \in Seq(Nodes) /\ CryptsIn[n] \in Seq(Nodes)
      BY SlotsFacts, CryptsFacts
    <3> QED BY <3>1, SumIsNat, Zenon
  <2> QED BY <2>1 DEF SlotCount, CryptCount, Spread
<1>3. ASSUME NEW H \in [Nodes -> Nat], NEW G \in [Nodes -> Nat] PROVE Plus(H, G) \in [Nodes -> Nat]
  BY DEF Plus, AddOn
<1>4. ASSUME NEW H \in [Nodes -> Nat] PROVE WithSlots(H) \in [Nodes -> Nat]
  BY <1>2, <1>3, Zenon DEF WithSlots
<1>5. TRUE \in BOOLEAN /\ FALSE \in BOOLEAN
  OBVIOUS
<1>6. ASSUME NEW x PROVE OpenCount(x) \in [Nodes -> Nat] /\ EntryCount(x) \in [Nodes -> Nat]
  <2>1. OpenCount(x) \in [Nodes -> Nat]
    BY <1>1, <1>2, <1>3, <1>4, <1>5, Zenon DEF OpenCount
  <2> QED BY <2>1, <1>4, Zenon DEF EntryCount
<1> QED BY <1>1, <1>2, <1>3, <1>4, <1>6, Zenon

\* Each, over the three things that are read off a node.
LEMMA EachNode ==
  ASSUME NEW s \in Seq(Nodes)
  PROVE  /\ Each(s, SlotNodes) = EachOf(s, SlotsIn) /\ Each(s, CryptNodes) = EachOf(s, CryptsIn)
         /\ \A b \in BOOLEAN : Each(s, LAMBDA n : NamedAt(n, b)) = EachOf(s, NamedIn(b))
<1>1. \A k \in DOMAIN s : s[k] \in Nodes
  OBVIOUS
<1>2. [k \in DOMAIN s |-> SlotNodes(s[k])] = MadeOf(s, SlotsIn)
  BY <1>1 DEF MadeOf, SlotsIn
<1>3. [k \in DOMAIN s |-> CryptNodes(s[k])] = MadeOf(s, CryptsIn)
  BY <1>1 DEF MadeOf, CryptsIn
<1>4. ASSUME NEW b \in BOOLEAN PROVE [k \in DOMAIN s |-> NamedAt(s[k], b)] = MadeOf(s, NamedIn(b))
  BY <1>1 DEF MadeOf, NamedIn
<1>5. ASSUME NEW b \in BOOLEAN PROVE Each(s, LAMBDA n : NamedAt(n, b)) = EachOf(s, NamedIn(b))
  <2>1. Each(s, LAMBDA n : NamedAt(n, b)) = FlattenSeq([k \in DOMAIN s |-> NamedAt(s[k], b)])
    BY DEF Each
  <2> QED BY <2>1, <1>4 DEF EachOf
<1>6. Each(s, SlotNodes) = FlattenSeq([k \in DOMAIN s |-> SlotNodes(s[k])])
  BY DEF Each
<1>7. Each(s, CryptNodes) = FlattenSeq([k \in DOMAIN s |-> CryptNodes(s[k])])
  BY DEF Each
<1> QED BY <1>2, <1>3, <1>5, <1>6, <1>7 DEF EachOf

\* Nodes together with their slots.
LEMMA SumIsPlus ==
  ASSUME NEW s \in Seq(Nodes), NEW H \in [Nodes -> Nat], NEW G \in [Nodes -> Nat]
  PROVE  Adding(s, H, G, Plus(H, G))
BY SumPlus, Zenon DEF Plus

\* Nodes followed by their slots count for the nodes with slots.
LEMMA SumWithSlots ==
  ASSUME NEW s \in Seq(Nodes), NEW H \in [Nodes -> Nat]
  PROVE  /\ s \o EachOf(s, SlotsIn) \in Seq(Nodes)
         /\ SameSum(s \o EachOf(s, SlotsIn), H, s, WithSlots(H))
<1>1. PICK u, G : u = EachOf(s, SlotsIn) /\ G = SlotCount(H)
  OBVIOUS
<1>2. G \in [Nodes -> Nat] /\ u \in Seq(Nodes) /\ SameSum(u, H, s, G)
  <2>1. EachSums(Nodes, Nodes, s, SlotsIn, H, G)
    BY <1>1, SlotsFacts, SumEach, Zenon DEF SlotCount
  <2> QED BY <2>1, <1>1, Zenon DEF EachSums
<1>3. Sum(s \o u, H) = Sum(s, H) + Sum(u, H)
  BY <1>2, SumConcat
<1>4. Adding(s, H, G, WithSlots(H))
  BY <1>1, <1>2, SumIsPlus, Zenon DEF WithSlots
<1>5. s \o u \in Seq(Nodes)
  BY <1>2
<1>6. Sum(s \o u, H) = Sum(s, WithSlots(H))
  BY <1>2, <1>3, <1>4, Zenon DEF SameSum, Adding
<1> QED BY <1>1, <1>5, <1>6, Zenon DEF SameSum

\* The containers of nodes.
LEMMA SumCrypts ==
  ASSUME NEW s \in Seq(Nodes), NEW H \in [Nodes -> Nat]
  PROVE  EachOf(s, CryptsIn) \in Seq(Nodes) /\ SameSum(EachOf(s, CryptsIn), H, s, CryptCount(H))
<1>1. EachSums(Nodes, Nodes, s, CryptsIn, H, CryptCount(H))
  BY CryptsFacts, SumEach, Zenon DEF CryptCount
<1> QED BY <1>1, Zenon DEF EachSums

\* What nodes name, by how often each names x.
LEMMA SumNamed ==
  ASSUME NEW s \in Seq(Nodes), NEW x, NEW b \in BOOLEAN
  PROVE  EachOf(s, NamedIn(b)) \in Seq(Pairs) /\ SameSum(EachOf(s, NamedIn(b)), Is(x), s, OwnCount(x, b))
<1>1. Is(x) \in [Pairs -> Nat] /\ NamedIn(b) \in [Nodes -> Seq(Pairs)]
  BY IsFacts, NamedFacts
<1>2. PICK H, f : H = Is(x) /\ f = NamedIn(b)
  OBVIOUS
<1>3. H \in [Pairs -> Nat] /\ f \in [Nodes -> Seq(Pairs)]
  BY <1>1, <1>2
<1>4. PICK G : G = Spread(Nodes, f, H)
  OBVIOUS
<1>5. EachSums(Pairs, Nodes, s, f, H, G)
  BY <1>3, <1>4, SumEach, Zenon
<1> QED BY <1>2, <1>4, <1>5, Zenon DEF EachSums, OwnCount

\* What the description names is what its entries count for.
LEMMA NamedIsCounted ==
  ASSUME D.map.a \in Seq(Nodes), NEW x
  PROVE  NamedTimes(x) = Sum(D.map.a, EntryCount(x))
<1>1. PICK es \in Seq(Nodes) : es = D.map.a
  OBVIOUS
<1>2. PICK open : open = es \o EachOf(es, SlotsIn)
  OBVIOUS
<1>3. PICK crypts : crypts = EachOf(open, CryptsIn)
  OBVIOUS
<1>4. PICK sealed : sealed = crypts \o EachOf(crypts, SlotsIn)
  OBVIOUS
<1>5. PICK plain, hidden : plain = EachOf(open, NamedIn(FALSE)) /\ hidden = EachOf(sealed, NamedIn(TRUE))
  OBVIOUS
<1>6. PICK all : all = plain \o hidden
  OBVIOUS
<1>7. open \in Seq(Nodes) /\ \A H \in [Nodes -> Nat] : SameSum(open, H, es, WithSlots(H))
  <2>1. EntryCount(x) \in [Nodes -> Nat]
    BY CountTypes
  <2> QED BY <2>1, <1>2, SumWithSlots, Zenon
<1>8. crypts \in Seq(Nodes) /\ \A H \in [Nodes -> Nat] : SameSum(crypts, H, open, CryptCount(H))
  <2>1. EntryCount(x) \in [Nodes -> Nat]
    BY CountTypes
  <2> QED BY <2>1, <1>3, <1>7, SumCrypts, Zenon
<1>9. sealed \in Seq(Nodes) /\ \A H \in [Nodes -> Nat] : SameSum(sealed, H, crypts, WithSlots(H))
  <2>1. EntryCount(x) \in [Nodes -> Nat]
    BY CountTypes
  <2> QED BY <2>1, <1>4, <1>8, SumWithSlots, Zenon
<1>10. /\ plain \in Seq(Pairs) /\ Sum(plain, Is(x)) = Sum(open, OwnCount(x, FALSE))
       /\ hidden \in Seq(Pairs) /\ Sum(hidden, Is(x)) = Sum(sealed, OwnCount(x, TRUE))
  <2>1. TRUE \in BOOLEAN /\ FALSE \in BOOLEAN
    OBVIOUS
  <2>2. /\ plain \in Seq(Pairs) /\ SameSum(plain, Is(x), open, OwnCount(x, FALSE))
        /\ hidden \in Seq(Pairs) /\ SameSum(hidden, Is(x), sealed, OwnCount(x, TRUE))
    BY <2>1, <1>5, <1>7, <1>9, SumNamed, Zenon
  <2> QED BY <2>2, Zenon DEF SameSum
<1>11. all \in Seq(Pairs) /\ Sum(all, Is(x)) = Sum(plain, Is(x)) + Sum(hidden, Is(x))
  <2>1. PICK H \in [Pairs -> Nat] : H = Is(x)
    BY IsFacts
  <2>2. Sum(plain \o hidden, H) = Sum(plain, H) + Sum(hidden, H)
    BY <1>10, SumConcat
  <2>3. all \in Seq(Pairs)
    BY <1>6, <1>10
  <2> QED BY <2>1, <2>2, <2>3, <1>6
<1>12. NamedTimes(x) = Cardinality({k \in 1 .. Len(all) : Is(x)[all[k]] = 1})
  <2>1. Each(D.map.a, SlotNodes) = EachOf(es, SlotsIn)
    BY <1>1, EachNode
  <2>2. D.map.a \o Each(D.map.a, SlotNodes) = open
    BY <2>1, <1>1, <1>2
  <2>3. Each(open, CryptNodes) = crypts
    BY <1>3, <1>7, EachNode
  <2>4. crypts \o Each(crypts, SlotNodes) = sealed
    BY <1>4, <1>8, EachNode
  <2>5. Each(open, LAMBDA n : NamedAt(n, FALSE)) = plain
    BY <1>5, <1>7, EachNode
  <2>6. Each(sealed, LAMBDA n : NamedAt(n, TRUE)) = hidden
    BY <1>5, <1>9, EachNode
  <2>7. NamedTimes(x) = Cardinality({k \in DOMAIN all : all[k] = x})
    BY <2>2, <2>3, <2>4, <2>5, <2>6, <1>6 DEF NamedTimes
  <2>8. {k \in DOMAIN all : all[k] = x} = {k \in 1 .. Len(all) : Is(x)[all[k]] = 1}
    <3>1. DOMAIN all = 1 .. Len(all) /\ \A k \in DOMAIN all : all[k] \in Pairs
      BY <1>11
    <3>2. \A p \in Pairs : Is(x)[p] = 1 <=> p = x
      BY DEF Is
    <3> QED BY <3>1, <3>2
  <2> QED BY <2>7, <2>8
<1>13. Sum(all, Is(x)) = NamedTimes(x)
  BY <1>11, <1>12, IsFacts, SumCounts, SMTT(40)
<1> DEFINE A == OwnCount(x, FALSE)
           C == CryptCount(WithSlots(OwnCount(x, TRUE)))
<1>14. A \in [Nodes -> Nat] /\ C \in [Nodes -> Nat] /\ Sum(sealed, OwnCount(x, TRUE)) = Sum(open, C)
  <2>1. OwnCount(x, TRUE) \in [Nodes -> Nat] /\ OwnCount(x, FALSE) \in [Nodes -> Nat]
    BY CountTypes
  <2>2. WithSlots(OwnCount(x, TRUE)) \in [Nodes -> Nat]
    BY <2>1, CountTypes
  <2>3. C \in [Nodes -> Nat]
    BY <2>2, CountTypes
  <2> QED BY <2>1, <2>2, <2>3, <1>8, <1>9 DEF SameSum
<1>15. OpenCount(x) = Plus(A, C)
  BY DEF OpenCount
<1> HIDE DEF A, C
<1>16. Sum(open, OpenCount(x)) = Sum(open, A) + Sum(open, C)
  BY <1>7, <1>14, <1>15, SumIsPlus, SMTT(40) DEF Adding
<1>17. Sum(open, OpenCount(x)) = Sum(es, EntryCount(x))
  BY <1>7, CountTypes DEF EntryCount, SameSum
<1> QED BY <1>1, <1>10, <1>11, <1>13, <1>14, <1>16, <1>17 DEF A

----------------------------------------------------------------------------
\* What the navigator finds, counted.  A list with an error in it is refused, and
\* counts for anything.
Weight(x) == [i \in Items |-> IF i.etype = "none" /\ <<i.image, i.inside>> = x THEN 1 ELSE 0]
HasBad(s) == \E k \in 1 .. Len(s) : s[k].bad
Counts(x, s, h) == s \in Seq(Items) /\ h \in Nat /\ (HasBad(s) \/ Sum(s, Weight(x)) = h)

\* An item counts for one image or none.
LEMMA WeightFacts == ASSUME NEW x PROVE Weight(x) \in [Items -> Nat] /\ Weight(x) \in [Items -> {0, 1}]
BY DEF Weight

\* Nothing found counts for nothing.
LEMMA CountsNone == ASSUME NEW x PROVE Counts(x, <<>>, 0)
<1>1. Sum(<<>>, Weight(x)) = 0
  BY WeightFacts, SumNone
<1>2. <<>> \in Seq(Items) /\ 0 \in Nat
  OBVIOUS
<1> QED BY <1>1, <1>2 DEF Counts

\* What is found in two places counts for both.
LEMMA CountsJoin ==
  ASSUME NEW x, NEW s, NEW t, NEW h, NEW g, Counts(x, s, h), Counts(x, t, g)
  PROVE  Counts(x, s \o t, h + g)
<1>1. s \in Seq(Items) /\ t \in Seq(Items) /\ h \in Nat /\ g \in Nat
  BY DEF Counts
<1>2. PICK u : u = s \o t
  OBVIOUS
<1>3. /\ u \in Seq(Items) /\ Len(u) = Len(s) + Len(t)
      /\ \A i \in 1 .. Len(s) + Len(t) : u[i] = IF i <= Len(s) THEN s[i] ELSE t[i - Len(s)]
  BY <1>1, <1>2, ConcatProperties
<1>4. h + g \in Nat
  BY <1>1
<1>5. CASE HasBad(s) \/ HasBad(t)
  <2>0. Len(s) \in Nat /\ Len(t) \in Nat
    BY <1>1
  <2> SUFFICES HasBad(u)
    BY <1>2, <1>3, <1>4, Zenon DEF Counts
  <2>1. CASE HasBad(s)
    <3>1. PICK k \in 1 .. Len(s) : s[k].bad
      BY <2>1 DEF HasBad
    <3>2. k \in 1 .. Len(s) + Len(t) /\ k <= Len(s)
      BY <2>0
    <3>3. u[k] = s[k]
      BY <3>2, <1>3
    <3>4. k \in 1 .. Len(u) /\ u[k].bad
      BY <3>1, <3>2, <3>3, <1>3
    <3> QED BY <3>4, Zenon DEF HasBad
  <2>2. CASE HasBad(t)
    <3>1. PICK k \in 1 .. Len(t) : t[k].bad
      BY <2>2 DEF HasBad
    <3>2. PICK i : i = k + Len(s)
      OBVIOUS
    <3>3. i \in 1 .. Len(s) + Len(t) /\ ~(i <= Len(s)) /\ i - Len(s) = k
      BY <3>2, <2>0
    <3>4. u[i] = t[k]
      BY <3>3, <1>3
    <3>5. i \in 1 .. Len(u) /\ u[i].bad
      BY <3>1, <3>3, <3>4, <1>3
    <3> QED BY <3>5, Zenon DEF HasBad
  <2> QED BY <1>5, <2>1, <2>2
<1>6. CASE ~(HasBad(s) \/ HasBad(t))
  <2>1. Sum(s, Weight(x)) = h /\ Sum(t, Weight(x)) = g
    BY <1>6 DEF Counts
  <2>2. PICK H \in [Items -> Nat] : H = Weight(x)
    BY WeightFacts
  <2>3. Sum(s \o t, H) = Sum(s, H) + Sum(t, H)
    BY <1>1, SumConcat
  <2>4. Sum(u, Weight(x)) = h + g
    BY <2>1, <2>2, <2>3, <1>2
  <2> QED BY <2>4, <1>2, <1>3, <1>4, Zenon DEF Counts
<1> QED BY <1>5, <1>6

\* And what is found at each of a sequence of nodes, for all of them.
LEMMA CountsEach ==
  ASSUME NEW x, NEW f \in [Nodes -> Seq(Items)], NEW H \in [Nodes -> Nat],
         \A m \in Nodes : Counts(x, f[m], H[m]), NEW s \in Seq(Nodes)
  PROVE  Counts(x, EachOf(s, f), Sum(s, H))
<1> DEFINE Adds == {q \in Seq(Items) \X Nat : Counts(x, q[1], q[2])}
           hs == Weights(s, H)
<1>1. PICK ss : ss = MadeOf(s, f)
  OBVIOUS
<1>2. ss \in Seq(Seq(Items)) /\ Made(ss, s, f)
  BY <1>1, EachIsSeq, Zenon
<1>3. Weighed(hs, s, H)
  BY WeightsAre, Zenon
<1> HIDE DEF hs
<1>4. \A t \in Seq(Items), h \in Nat : <<t, h>> \in Adds <=> Counts(x, t, h)
  OBVIOUS
<1> HIDE DEF Adds
<1>5. <<<<>>, 0>> \in Adds
  <2>1. <<>> \in Seq(Items) /\ 0 \in Nat
    OBVIOUS
  <2> QED BY <2>1, <1>4, CountsNone
<1>6. ASSUME NEW t \in Seq(Items), NEW u \in Seq(Items), NEW h \in Nat, NEW g \in Nat,
             <<t, h>> \in Adds, <<u, g>> \in Adds
      PROVE  <<t \o u, h + g>> \in Adds
  <2>1. Counts(x, t, h) /\ Counts(x, u, g)
    BY <1>4, <1>6
  <2>2. Counts(x, t \o u, h + g)
    BY <2>1, CountsJoin
  <2>3. t \o u \in Seq(Items) /\ h + g \in Nat
    OBVIOUS
  <2> QED BY <2>2, <2>3, <1>4
<1>7. ASSUME NEW k \in 1 .. Len(ss) PROVE <<ss[k], hs[k]>> \in Adds
  <2>1. k \in 1 .. Len(s) /\ ss[k] = f[s[k]]
    BY <1>2 DEF Made
  <2>2. s[k] \in Nodes /\ hs[k] = H[s[k]]
    BY <2>1, <1>3 DEF Weighed
  <2>3. Counts(x, ss[k], hs[k])
    BY <2>1, <2>2
  <2> QED BY <2>3, <1>4 DEF Counts
<1>8. hs \in Seq(Nat) /\ Len(hs) = Len(ss)
  BY <1>2, <1>3 DEF Weighed, Made
<1>9. FlattenSeq(ss) \in Seq(Items) /\ <<FlattenSeq(ss), Total(hs)>> \in Adds
  BY <1>2, <1>5, <1>6, <1>7, <1>8, FlattenAdds
<1>10. Total(hs) \in Nat
  BY <1>8, TotalIsNat
<1>11. Counts(x, FlattenSeq(ss), Total(hs))
  BY <1>4, <1>9, <1>10
<1> QED BY <1>1, <1>11 DEF EachOf, Sum, hs

\* processRegularPartitions finds what the node names.
LEMMA CountsParts ==
  ASSUME NEW x, NEW n \in Nodes, NEW b \in BOOLEAN
  PROVE  Counts(x, PartitionsOf(n, b), OwnCount(x, b)[n])
<1>0. OwnCount(x, b) \in [Nodes -> Nat] /\ OwnCount(x, b)[n] = Sum(NamedAt(n, b), Is(x))
  BY CountTypes DEF OwnCount, Spread, NamedIn
<1>1. PartitionsOf(n, b) \in Seq(Items)
  BY PartitionsLoose DEF Loose, Sound
<1>2. CASE ~IsMember(n, "partitions")
  <2>1. PartitionsOf(n, b) = <<>>
    BY <1>2 DEF PartitionsOf
  <2>2. NamedAt(n, b) \in Seq(Pairs) /\ NamedAt(n, b) = <<>>
    <3>1. NamedAt(n, b) = [k \in DOMAIN <<>> |-> <<<<>>[k].o["image"].v, b>>]
      BY <1>2 DEF NamedAt
    <3>2. DOMAIN <<>> = {}
      OBVIOUS
    <3> QED BY <3>1, <3>2
  <2>3. Sum(<<>>, Is(x)) = 0
    BY IsFacts, SumNone
  <2> QED BY <1>0, <2>1, <2>2, <2>3, CountsNone
<1>3. CASE IsMember(n, "partitions") /\ ~HasBad(PartitionsOf(n, b))
  <2>1. PICK ps : ps = n.o["partitions"].a
    OBVIOUS
  <2>2. ps \in Seq(Nodes)
    BY <1>3, <2>1, MemberIsNode, NodesAssumption
  <2>3. PICK len \in Nat : len = Len(ps) /\ DOMAIN ps = 1 .. len
    BY <2>2
  <2>4. PICK items, named : items = PartitionsOf(n, b) /\ named = NamedAt(n, b)
    OBVIOUS
  <2>5. named = [k \in 1 .. len |-> <<ps[k].o["image"].v, b>>]
    BY <1>3, <2>1, <2>3, <2>4, SMTT(40) DEF NamedAt
  <2>6. items = [k \in 1 .. len |->
                   IF validateRegularPartition(ps[k])
                   THEN [image |-> ps[k].o["image"].v, etype |-> "none", inside |-> b,
                         expand |-> ExpandOf(ps[k]), bad |-> FALSE]
                   ELSE NavError]
    BY <1>3, <2>1, <2>3, <2>4 DEF PartitionsOf, processRegularPartitions
  <2>7. items \in Seq(Items) /\ Len(items) = len
    BY <1>1, <2>4, <2>6
  <2>8. named \in Seq(Pairs) /\ Len(named) = len
    <3>1. named \in Seq(Pairs)
      BY <2>4, NamedFacts DEF NamedIn
    <3> QED BY <3>1, <2>5
  <2>9. ASSUME NEW k \in 1 .. len PROVE Weight(x)[items[k]] = Is(x)[named[k]]
    <3>1. ~items[k].bad /\ items[k] \in Items /\ named[k] \in Pairs
      BY <1>3, <2>4, <2>7, <2>8 DEF HasBad
    <3>2. NavError.bad
      BY DEF NavError
    <3>3. items[k] = [image |-> ps[k].o["image"].v, etype |-> "none", inside |-> b,
                      expand |-> ExpandOf(ps[k]), bad |-> FALSE]
      BY <2>6, <3>1, <3>2
    <3>4. items[k].etype = "none" /\ <<items[k].image, items[k].inside>> = named[k]
      BY <3>3, <2>5
    <3> QED BY <3>1, <3>4 DEF Weight, Is
  <2>10. Weights(items, Weight(x)) = Weights(named, Is(x))
    <3>1. DOMAIN items = 1 .. len /\ DOMAIN named = 1 .. len
      BY <2>7, <2>8
    <3> QED BY <3>1, <2>9 DEF Weights
  <2>11. Sum(items, Weight(x)) = Sum(named, Is(x))
    BY <2>10 DEF Sum
  <2> QED BY <1>0, <1>1, <2>4, <2>11 DEF Counts
<1>4. CASE HasBad(PartitionsOf(n, b))
  BY <1>0, <1>1, <1>4, SMTT(40) DEF Counts
<1> QED BY <1>2, <1>3, <1>4

\* Every slot of a node, when each counts for what H says.
LEMMA CountsSlots ==
  ASSUME NEW x, NEW f \in [Nodes -> Seq(Items)], NEW H \in [Nodes -> Nat],
         \A m \in Nodes : Counts(x, f[m], H[m]), NEW n \in Nodes, IsMember(n, "slots"),
         NEW names, names = Members(n.o["slots"]),
         NEW each, each = [k \in DOMAIN names |-> f[n.o["slots"].o[names[k]]]]
  PROVE  Counts(x, FlattenSeq(each), SlotCount(H)[n])
<1>1. PICK s : s = SlotNodes(n)
  OBVIOUS
<1>2. s \in Seq(Nodes) /\ SlotCount(H)[n] = Sum(s, H)
  BY <1>1, SlotsFacts DEF SlotsIn, SlotCount, Spread
<1>3. s = [k \in DOMAIN names |-> n.o["slots"].o[names[k]]]
  BY <1>1 DEF SlotNodes
<1>4. MadeOf(s, f) = each
  <2>1. DOMAIN s = DOMAIN names /\ \A k \in DOMAIN names : s[k] = n.o["slots"].o[names[k]]
    BY <1>3
  <2> QED BY <2>1 DEF MadeOf
<1>5. Counts(x, EachOf(s, f), Sum(s, H))
  BY <1>2, CountsEach
<1> QED BY <1>2, <1>4, <1>5, ZenonT(60) DEF EachOf

SealedCount(x) == WithSlots(OwnCount(x, TRUE))

\* processEncryptedNode finds what the container and its slots name.
LEMMA CountsEncrypted ==
  ASSUME NEW x, NEW e \in Nodes
  PROVE  Counts(x, processEncryptedNode(e), SealedCount(x)[e])
<1> DEFINE T == OwnCount(x, TRUE)
<1>0. /\ T \in [Nodes -> Nat] /\ SlotCount(T) \in [Nodes -> Nat] /\ SealedCount(x) \in [Nodes -> Nat]
      /\ SealedCount(x)[e] = T[e] + SlotCount(T)[e]
  <2>1. T \in [Nodes -> Nat]
    BY CountTypes
  <2> HIDE DEF T
  <2>2. SlotCount(T) \in [Nodes -> Nat] /\ WithSlots(T) \in [Nodes -> Nat]
    BY <2>1, CountTypes
  <2>3. WithSlots(T)[e] = T[e] + SlotCount(T)[e]
    BY DEF WithSlots, Plus, AddOn
  <2> QED BY <2>1, <2>2, <2>3 DEF SealedCount, T
<1>1. processEncryptedNode(e) \in Seq(Items)
  BY EncryptedSound DEF Sound
<1>2. CASE ~validateLUKS(e) \/ ~(IsMember(e, "slots") \/ IsMember(e, "partitions"))
  <2>1. processEncryptedNode(e) = <<NavError>>
    BY <1>2 DEF processEncryptedNode
  <2>2. HasBad(<<NavError>>)
    <3>1. PICK i : i = NavError
      OBVIOUS
    <3>2. i.bad
      BY <3>1 DEF NavError
    <3>3. <<i>>[1].bad /\ 1 \in 1 .. Len(<<i>>)
      BY <3>2
    <3> QED BY <3>1, <3>3 DEF HasBad
  <2> QED BY <2>1, <2>2, <1>0, <1>1 DEF Counts
<1>3. CASE ~(~validateLUKS(e) \/ ~(IsMember(e, "slots") \/ IsMember(e, "partitions")))
  <2> DEFINE c == createEncryptedPartition(e)
             names == Members(e.o["slots"])
             each == [k \in DOMAIN names |-> PartitionsOf(e.o["slots"].o[names[k]], TRUE)]
             slots == IF IsMember(e, "slots") THEN FlattenSeq(each) ELSE <<>>
             parts == PartitionsOf(e, TRUE)
  <2>1. processEncryptedNode(e) = <<c>> \o slots \o parts
    BY <1>3 DEF processEncryptedNode, EachSlot
  <2>2. Counts(x, <<c>>, 0)
    <3>1. c \in Items /\ c.etype # "none"
      BY <1>3, ExpandIsWord DEF createEncryptedPartition, validateLUKS, Items, Types, Words
    <3> HIDE DEF c
    <3>2. Weight(x)[c] = 0
      BY <3>1 DEF Weight
    <3>3. PICK H \in [Items -> Nat] : H = Weight(x)
      BY WeightFacts
    <3>4. Sum(<<c>>, H) = H[c]
      BY <3>1, SumOne
    <3>5. <<c>> \in Seq(Items)
      BY <3>1
    <3> QED BY <3>2, <3>3, <3>4, <3>5 DEF Counts
  <2>3. Counts(x, parts, T[e])
    BY CountsParts
  <2>4. Counts(x, slots, SlotCount(T)[e])
    <3>1. CASE IsMember(e, "slots")
      <4> DEFINE f == [m \in Nodes |-> PartitionsOf(m, TRUE)]
      <4>1. \A m \in Nodes : f[m] = PartitionsOf(m, TRUE) /\ PartitionsOf(m, TRUE) \in Seq(Items) /\ Counts(x, f[m], T[m])
        BY CountsParts, PartitionsLoose DEF Loose
      <4>2. f \in [Nodes -> Seq(Items)]
        BY <4>1
      <4>3. each = [k \in DOMAIN names |-> f[e.o["slots"].o[names[k]]]]
        <5>1. e.o["slots"] \in Nodes /\ e.o["slots"].t = "obj"
          BY <3>1, MemberIsNode
        <5>2. DOMAIN names = 1 .. Len(names) /\ \A k \in 1 .. Len(names) : e.o["slots"].o[names[k]] \in Nodes
          BY <5>1, SlotsAreNodes
        <5> HIDE DEF f, names
        <5> QED BY <5>2, <4>1
      <4> HIDE DEF f, each, T
      <4>4. Counts(x, FlattenSeq(each), SlotCount(T)[e])
        BY <3>1, <4>1, <4>2, <4>3, <1>0, CountsSlots
      <4> QED BY <3>1, <4>4
    <3>2. CASE ~IsMember(e, "slots")
      <4>1. SlotCount(T)[e] = Sum(<<>>, T)
        BY <3>2 DEF SlotCount, Spread, SlotsIn, SlotNodes
      <4> HIDE DEF T
      <4>2. Sum(<<>>, T) = 0
        BY <1>0, SumNone
      <4> QED BY <3>2, <4>1, <4>2, CountsNone
    <3> QED BY <3>1, <3>2
  <2> HIDE DEF c, slots, parts, T
  <2>5. Counts(x, <<c>> \o slots, 0 + SlotCount(T)[e])
    BY <2>2, <2>4, CountsJoin
  <2>6. Counts(x, (<<c>> \o slots) \o parts, (0 + SlotCount(T)[e]) + T[e])
    BY <2>3, <2>5, CountsJoin
  <2>7. (0 + SlotCount(T)[e]) + T[e] = SealedCount(x)[e]
    BY <1>0
  <2> QED BY <2>1, <2>6, <2>7
<1> QED BY <1>2, <1>3

\* The same at a node that may have no container.
LEMMA CountsEncryptedOf ==
  ASSUME NEW x, NEW n \in Nodes
  PROVE  Counts(x, EncryptedOf(n), CryptCount(SealedCount(x))[n])
<1>0. SealedCount(x) \in [Nodes -> Nat]
  BY CountTypes DEF SealedCount
<1>1. CASE IsMember(n, "encrypted")
  <2>1. PICK e \in Nodes : e = n.o["encrypted"]
    BY <1>1, MemberIsNode
  <2>2. EncryptedOf(n) = processEncryptedNode(e)
    BY <1>1, <2>1 DEF EncryptedOf
  <2>3. CryptCount(SealedCount(x))[n] = Sum(<<e>>, SealedCount(x))
    BY <1>1, <2>1 DEF CryptCount, Spread, CryptsIn, CryptNodes
  <2>4. Sum(<<e>>, SealedCount(x)) = SealedCount(x)[e]
    BY <1>0, SumOne
  <2> QED BY <2>2, <2>3, <2>4, CountsEncrypted
<1>2. CASE ~IsMember(n, "encrypted")
  <2>1. EncryptedOf(n) = <<>>
    BY <1>2 DEF EncryptedOf
  <2>2. CryptCount(SealedCount(x))[n] = Sum(<<>>, SealedCount(x))
    BY <1>2 DEF CryptCount, Spread, CryptsIn, CryptNodes
  <2>3. Sum(<<>>, SealedCount(x)) = 0
    BY <1>0, SumNone
  <2> QED BY <2>1, <2>2, <2>3, CountsNone
<1> QED BY <1>1, <1>2

\* What getPartitions returns at an entry of the map.
EntryItems(n) ==
  (PartitionsOf(n, FALSE) \o IF IsMember(n, "slots") THEN processSlots(n.o["slots"]) ELSE <<>>)
  \o EncryptedOf(n)

\* It is all that the entry names.
LEMMA CountsEntry ==
  ASSUME NEW x, NEW n \in Nodes
  PROVE  Counts(x, EntryItems(n), EntryCount(x)[n])
<1> DEFINE A == OwnCount(x, FALSE)
           C == CryptCount(SealedCount(x))
           O == OpenCount(x)
           own == PartitionsOf(n, FALSE)
           names == Members(n.o["slots"])
           each == [k \in DOMAIN names |->
                      PartitionsOf(n.o["slots"].o[names[k]], FALSE) \o EncryptedOf(n.o["slots"].o[names[k]])]
           slots == IF IsMember(n, "slots") THEN FlattenSeq(each) ELSE <<>>
           crypt == EncryptedOf(n)
<1>1. A \in [Nodes -> Nat] /\ C \in [Nodes -> Nat] /\ O \in [Nodes -> Nat]
  BY CountTypes DEF SealedCount
<1>2. SlotCount(O) \in [Nodes -> Nat]
  BY <1>1, CountTypes
<1>3. \A m \in Nodes : O[m] = A[m] + C[m]
  BY DEF OpenCount, SealedCount, Plus, AddOn
<1>4. EntryCount(x)[n] = O[n] + SlotCount(O)[n]
  BY DEF EntryCount, WithSlots, Plus, AddOn
<1>5. \A m \in Nodes : Counts(x, PartitionsOf(m, FALSE), A[m]) /\ Counts(x, EncryptedOf(m), C[m])
  BY CountsParts, CountsEncryptedOf
<1>6. EntryItems(n) = (own \o slots) \o crypt
  BY DEF EntryItems, processSlots, EachSlot
<1> HIDE DEF A, C, O
<1>7. \A m \in Nodes : Counts(x, PartitionsOf(m, FALSE) \o EncryptedOf(m), O[m])
  <2> SUFFICES ASSUME NEW m \in Nodes PROVE Counts(x, PartitionsOf(m, FALSE) \o EncryptedOf(m), O[m])
    OBVIOUS
  <2>1. Counts(x, PartitionsOf(m, FALSE) \o EncryptedOf(m), A[m] + C[m])
    BY <1>5, CountsJoin
  <2> QED BY <2>1, <1>3
<1>8. Counts(x, slots, SlotCount(O)[n])
  <2>1. CASE IsMember(n, "slots")
    <3> DEFINE f == [m \in Nodes |-> PartitionsOf(m, FALSE) \o EncryptedOf(m)]
    <3>1. \A m \in Nodes : f[m] = PartitionsOf(m, FALSE) \o EncryptedOf(m) /\ Counts(x, f[m], O[m])
      BY <1>7
    <3>2. f \in [Nodes -> Seq(Items)]
      <4>1. \A m \in Nodes : f[m] \in Seq(Items)
        <5> HIDE DEF f
        <5> QED BY <3>1 DEF Counts
      <4> QED BY <4>1
    <3>3. each = [k \in DOMAIN names |-> f[n.o["slots"].o[names[k]]]]
      <4>1. n.o["slots"] \in Nodes /\ n.o["slots"].t = "obj"
        BY <2>1, MemberIsNode
      <4>2. DOMAIN names = 1 .. Len(names) /\ \A k \in 1 .. Len(names) : n.o["slots"].o[names[k]] \in Nodes
        BY <4>1, SlotsAreNodes
      <4> HIDE DEF f, names
      <4> QED BY <4>2, <3>1
    <3> HIDE DEF f, each
    <3>4. Counts(x, FlattenSeq(each), SlotCount(O)[n])
      BY <2>1, <3>1, <3>2, <3>3, <1>1, CountsSlots
    <3> QED BY <2>1, <3>4
  <2>2. CASE ~IsMember(n, "slots")
    <3>1. SlotCount(O)[n] = Sum(<<>>, O)
      BY <2>2 DEF SlotCount, Spread, SlotsIn, SlotNodes
    <3>2. Sum(<<>>, O) = 0
      BY <1>1, SumNone
    <3> QED BY <2>2, <3>1, <3>2, CountsNone
  <2> QED BY <2>1, <2>2
<1>9. Counts(x, own, A[n]) /\ Counts(x, crypt, C[n])
  BY <1>5
<1> HIDE DEF own, slots, crypt
<1>10. Counts(x, own \o slots, A[n] + SlotCount(O)[n])
  BY <1>8, <1>9, CountsJoin
<1>11. Counts(x, (own \o slots) \o crypt, (A[n] + SlotCount(O)[n]) + C[n])
  BY <1>9, <1>10, CountsJoin
<1>12. (A[n] + SlotCount(O)[n]) + C[n] = EntryCount(x)[n]
  BY <1>1, <1>2, <1>3, <1>4
<1> QED BY <1>6, <1>11, <1>12

----------------------------------------------------------------------------
\* What the parser's list holds, counted the same way.
PartWeight(x) == [p \in Partitions |-> IF p.etype = "none" /\ <<p.image, p.parent # 0>> = x THEN 1 ELSE 0]

\* A partition counts for one image or none.
LEMMA PartWeightFacts ==
  ASSUME NEW x PROVE PartWeight(x) \in [Partitions -> Nat] /\ PartWeight(x) \in [Partitions -> {0, 1}]
BY DEF PartWeight

\* A partition is inside a container exactly when its item is.
LEMMA FilledWeight ==
  ASSUME ListInv, NEW x, NEW items \in Sound, NEW k \in 1 .. Len(items),
         ~items[k].bad, Fillable(items[k], Len(found) + k)
  PROVE  PartWeight(x)[Filled(items, k)] = Weight(x)[items[k]]
<1>1. Len(found) \in Nat
  BY DEF ListInv
<1>2. Filled(items, k) \in Partitions
  BY FilledFacts
<1>3. items[k] \in Items
  <2>1. items \in Seq(Items)
    BY DEF Sound
  <2> QED BY <2>1
<1>4. PICK par : par = ParentOf(items, k, Len(found))
  OBVIOUS
<1>5. (par # 0) = items[k].inside
  <2>1. items[k].inside \in BOOLEAN
    BY <1>3 DEF Items
  <2>2. \/ ~items[k].inside /\ par = 0
        \/ items[k].inside /\ \E c \in 1 .. k - 1 : par = Len(found) + c
    BY <1>1, <1>4, ParentFacts, ZenonT(60)
  <2>3. k \in Nat
    OBVIOUS
  <2>4. \/ ~items[k].inside /\ par = 0
        \/ items[k].inside /\ par # 0
    BY <2>2, <2>3, <1>1
  <2> QED BY <2>1, <2>4
<1>6. PICK p : p = Filled(items, k)
  OBVIOUS
<1>7. p.image = items[k].image /\ p.etype = items[k].etype /\ p.parent = par
  BY <1>4, <1>6 DEF Filled
<1>8. <<p.image, p.parent # 0>> = <<items[k].image, items[k].inside>>
  BY <1>5, <1>7
<1> QED BY <1>2, <1>3, <1>6, <1>7, <1>8 DEF PartWeight, Weight

\* What getPartitions adds to the list counts for what it returned.
Added(x, more, items) == Sum(more, PartWeight(x)) = Sum(items, Weight(x))

\* foreachPartitionImpl, for all the items of a call.
LEMMA FilledSum ==
  ASSUME ListInv, NEW x, NEW items \in Sound,
         \A k \in 1 .. Len(items) : ~items[k].bad /\ Fillable(items[k], Len(found) + k),
         NEW more, more = [k \in DOMAIN items |-> Filled(items, k)]
  PROVE  more \in Seq(Partitions) /\ Added(x, more, items)
<1>1. items \in Seq(Items)
  BY DEF Sound
<1>2. DOMAIN items = 1 .. Len(items) /\ Len(items) \in Nat
  BY <1>1
<1>3. ASSUME NEW k \in 1 .. Len(items)
      PROVE  more[k] \in Partitions /\ PartWeight(x)[more[k]] = Weight(x)[items[k]]
  <2>1. more[k] = Filled(items, k)
    BY <1>2
  <2>2. ~items[k].bad /\ Fillable(items[k], Len(found) + k)
    OBVIOUS
  <2>3. Filled(items, k) \in Partitions
    BY <2>2, FilledFacts
  <2>4. PartWeight(x)[Filled(items, k)] = Weight(x)[items[k]]
    BY <2>2, FilledWeight
  <2> QED BY <2>1, <2>3, <2>4
<1>4. DOMAIN more = 1 .. Len(items) /\ more \in [1 .. Len(items) -> Partitions]
  BY <1>2, <1>3
<1>5. Weights(more, PartWeight(x)) = Weights(items, Weight(x))
  BY <1>2, <1>3, <1>4 DEF Weights
<1> QED BY <1>2, <1>4, <1>5, FunctionIsSeq DEF Added, Sum

\* Numbering keeps the count.
Recount(x, list, was) == Sum(list, PartWeight(x)) = Sum(was, PartWeight(x))

\* walkTree changes numbers only.
LEMMA NumberCounts ==
  ASSUME ListInv, Number, NEW x
  PROVE  Recount(x, found', found)
<1>0. found \in Seq(Partitions) /\ Len(found) \in Nat /\ DOMAIN found = 1 .. Len(found)
  BY DEF ListInv
<1>1. found' = [i \in 1 .. Len(found) |-> [found[i] EXCEPT !.num = Cardinality(Same(found, found[i].parent, i))]]
  BY <1>0 DEF Number, walkTree, Same
<1>2. PICK list : list = found'
  OBVIOUS
<1>3. DOMAIN list = 1 .. Len(found)
  BY <1>1, <1>2
<1>4. ASSUME NEW i \in 1 .. Len(found) PROVE PartWeight(x)[list[i]] = PartWeight(x)[found[i]]
  <2>1. PICK card, p : card = Cardinality(Same(found, found[i].parent, i)) /\ p = found[i]
    OBVIOUS
  <2>2. card \in Nat /\ p \in Partitions
    BY <2>1, <1>0, SameFinite
  <2>3. list[i] = [p EXCEPT !.num = card]
    BY <1>1, <1>2, <2>1
  <2>4. list[i] \in Partitions /\ list[i].image = p.image /\ list[i].etype = p.etype /\ list[i].parent = p.parent
    BY <2>2, <2>3 DEF Partitions
  <2> QED BY <2>1, <2>2, <2>4 DEF PartWeight
<1>5. Weights(list, PartWeight(x)) = Weights(found, PartWeight(x))
  BY <1>0, <1>3, <1>4 DEF Weights
<1> QED BY <1>2, <1>5 DEF Recount, Sum

----------------------------------------------------------------------------
\* The walk of a description that is well shaped.  nv is the navigator's stack, es
\* the entries of the map: the first frame is the map itself, the second one of its
\* entries, and under it the walk finds nothing more, because it is in a slot, in
\* what an entry holds besides, in a table of slots or in a container.
Slotless(f) == f.slotKey = ""
EnteredAs(nv, k, key) ==
  nv[k].node.t = "obj" /\ nv[k].childIdx > 0 /\ Members(nv[k].node)[nv[k].childIdx] = key
Quiet(nv, k, leaves) ==
  \/ nv[k].node \in leaves
  \/ \E j \in 1 .. k : ~Slotless(nv[j])
  \/ SlotTable(nv[k].node) /\ EnteredAs(nv, k - 1, "slots")
  \/ Container(nv[k].node, leaves) /\ EnteredAs(nv, k - 1, "encrypted")
Walked(nv, es, leaves) ==
  /\ nv[1].node.t = "arr" /\ nv[1].node.a = es /\ Slotless(nv[1]) /\ nv[1].childIdx \in 0 .. Len(es)
  /\ Len(nv) > 1 => nv[1].childIdx > 0 /\ nv[2].node = es[nv[1].childIdx] /\ Slotless(nv[2])
  /\ \A k \in 3 .. Len(nv) : Quiet(nv, k, leaves)

\* One step in: the top frame moves on to its next member, which is put on top.
IsSlot(nv) == Len(nv) >= 2 /\ nv[Len(nv)].node.t = "obj" /\ nv[Len(nv) - 1].node.t = "obj"
              /\ Members(nv[Len(nv) - 1].node)[nv[Len(nv) - 1].childIdx] = "slots"
Stepped(nv, nw, key) ==
  /\ Len(nw) = Len(nv) + 1 /\ \A k \in 1 .. Len(nv) - 1 : nw[k] = nv[k]
  /\ nw[Len(nv)].node = nv[Len(nv)].node /\ nw[Len(nv)].slotKey = nv[Len(nv)].slotKey
  /\ nw[Len(nv)].childIdx = nv[Len(nv)].childIdx + 1
  /\ nv[Len(nv)].childIdx < Len(Members(nv[Len(nv)].node))
  /\ key = Members(nv[Len(nv)].node)[nv[Len(nv)].childIdx + 1]
  /\ nw[Len(nv) + 1].node = MemberAt(nv[Len(nv)].node, key)
  /\ nw[Len(nv) + 1].slotKey = IF IsSlot(nv) THEN key ELSE nv[Len(nv)].slotKey

\* StepIn is one step in.
LEMMA StepInIsStepped ==
  ASSUME NavInv, StepIn
  PROVE  \E key : Stepped(nav, nav', key)
<1>1. nav \in Seq(Frames) /\ Len(nav) > 0 /\ Len(nav) \in Nat
  BY DEF NavInv, StepIn
<1>2. PICK n \in Nat : n = Len(nav) /\ n > 0
  BY <1>1
<1>3. PICK f \in Frames : f = nav[n] /\ f = Last(nav)
  BY <1>1, <1>2 DEF Last
<1>4. PICK key : key = Members(f.node)[f.childIdx + 1]
  OBVIOUS
<1> DEFINE here == [f EXCEPT !.childIdx = @ + 1]
           slot == IF IsSlot(nav) THEN key ELSE f.slotKey
           next == Frame(MemberAt(f.node, key), slot)
           isSlot == Len(nav) >= 2 /\ f.node.t = "obj" /\ nav[Len(nav) - 1].node.t = "obj"
                     /\ Members(nav[Len(nav) - 1].node)[nav[Len(nav) - 1].childIdx] = "slots"
<1>5. nav' = Append(Front(nav), here) \o <<next>>
  <2>1. isSlot <=> IsSlot(nav)
    BY <1>2, <1>3 DEF IsSlot
  <2>2. nav' = Append(Front(nav), here) \o <<Frame(MemberAt(f.node, key), IF isSlot THEN key ELSE f.slotKey)>>
    BY <1>3, <1>4 DEF StepIn, StepInFrom
  <2> HIDE DEF isSlot
  <2> QED BY <2>1, <2>2
<1>6. here = [node |-> f.node, childIdx |-> f.childIdx + 1, slotKey |-> f.slotKey]
  BY DEF Frames
<1>7. next.node = MemberAt(f.node, key) /\ next.slotKey = slot
  BY DEF Frame
<1>8. here.node = f.node /\ here.childIdx = f.childIdx + 1 /\ here.slotKey = f.slotKey
  BY <1>6
<1>9. f.childIdx < Len(Members(f.node))
  BY <1>3 DEF StepIn, CanStepIn
<1> HIDE DEF here, next
<1>10. PICK low : low = Front(nav)
  OBVIOUS
<1>11. low \in Seq(Frames) /\ Len(low) = n - 1 /\ \A k \in 1 .. n - 1 : low[k] = nav[k]
  BY <1>1, <1>2, <1>10 DEF Front
<1>12. here \in Frames
  BY <1>6 DEF Frames
<1>13. PICK mid \in Seq(Frames) : mid = Append(low, here)
  <2>1. Append(low, here) \in Seq(Frames)
    BY <1>11, <1>12
  <2> QED BY <2>1
<1>14. Len(mid) = n /\ mid[n] = here /\ \A k \in 1 .. n - 1 : mid[k] = nav[k]
  BY <1>2, <1>11, <1>13
<1>15. PICK nw : nw = nav' /\ nw = mid \o <<next>>
  BY <1>5, <1>10, <1>13
<1>16. Len(nw) = n + 1 /\ nw[n + 1] = next /\ \A k \in 1 .. n : nw[k] = mid[k]
  BY <1>2, <1>13, <1>14, <1>15
<1>17. nw[n] = here /\ \A k \in 1 .. n - 1 : nw[k] = nav[k]
  BY <1>2, <1>14, <1>16
<1>18. Stepped(nav, nw, key)
  BY <1>2, <1>3, <1>4, <1>7, <1>8, <1>9, <1>16, <1>17 DEF Stepped
<1> QED BY <1>15, <1>18

\* What the next member of a node is.
LEMMA MemberKinds ==
  ASSUME NEW n \in Nodes, NEW i \in Nat, i < Len(Members(n)), NEW key, key = Members(n)[i + 1]
  PROVE  /\ MemberAt(n, key) \in Within(n)
         /\ n.t = "obj" => key \in DOMAIN n.o /\ IsMember(n, key) /\ MemberAt(n, key) = n.o[key]
         /\ n.t = "arr" => key = i + 1 /\ i + 1 \in 1 .. Len(n.a) /\ MemberAt(n, key) = n.a[i + 1]
<1>1. PICK keys : keys = Members(n)
  OBVIOUS
<1>2. CASE n.t = "val"
  <2>1. keys = <<>>
    BY <1>1, <1>2 DEF Members
  <2>2. Len(keys) = 0
    BY <2>1
  <2> QED BY <2>2, <1>1
<1>3. CASE n.t = "arr"
  <2>1. n.a \in Seq(Nodes) /\ keys = [k \in DOMAIN n.a |-> k]
    BY <1>1, <1>3, NodesAssumption DEF Members
  <2>2. PICK len \in Nat : len = Len(n.a) /\ DOMAIN n.a = 1 .. len
    BY <2>1
  <2>3. keys \in [1 .. len -> Nat] /\ DOMAIN keys = 1 .. len
    BY <2>1, <2>2
  <2>4. Len(keys) = len
    BY <2>3, FunctionIsSeq
  <2>5. i + 1 \in 1 .. len
    BY <2>4, <1>1
  <2>6. key = i + 1
    BY <2>1, <2>2, <2>5, <1>1
  <2>7. MemberAt(n, key) = n.a[i + 1]
    BY <2>6, <1>3 DEF MemberAt
  <2>8. MemberAt(n, key) \in Within(n)
    BY <2>3, <2>5, <1>1 DEF Within
  <2> QED BY <2>2, <2>5, <2>6, <2>7, <2>8, <1>3
<1>4. CASE n.t = "obj"
  <2>1. keys \in Seq(DOMAIN n.o)
    BY <1>1, <1>4, NodesAssumption DEF Members
  <2>2. i + 1 \in 1 .. Len(keys) /\ DOMAIN keys = 1 .. Len(keys)
    BY <2>1, <1>1
  <2>3. key \in DOMAIN n.o
    BY <2>1, <2>2, <1>1
  <2>4. MemberAt(n, key) \in Within(n)
    BY <2>2, <1>1 DEF Within
  <2>5. MemberAt(n, key) = n.o[key]
    BY <1>4 DEF MemberAt
  <2> QED BY <2>3, <2>4, <2>5, <1>4 DEF IsMember
<1> QED BY <1>2, <1>3, <1>4, NodesAssumption

\* A slot has a name.
LEMMA SlotHasName ==
  ASSUME NEW t, NEW key, NEW f, SlotTable(t), IsMember(t, key), f.slotKey = key
  PROVE  ~Slotless(f)
BY Zenon DEF SlotTable, Slotless

\* What a container or an entry of the map holds.
LEMMA Holding ==
  ASSUME NEW n, NEW leaves, NEW Marked, Holds(n, leaves, Marked), NEW key, key \in DOMAIN n.o
  PROVE  /\ n.t = "obj" /\ (key \notin Marked => n.o[key] \in leaves)
         /\ key = "slots" => SlotTable(n.o[key])
BY Zenon DEF Holds, IsMember

\* The member that the walk enters finds nothing either.
LEMMA QuietBelow ==
  ASSUME NEW leaves, \A n \in leaves : Unmarked(n) /\ Within(n) \subseteq leaves,
         NEW nv \in Seq(Frames), NEW nw, NEW key, Stepped(nv, nw, key), Len(nv) >= 2,
         \/ Quiet(nv, Len(nv), leaves)
         \/ MapEntry(nv[Len(nv)].node, leaves)
  PROVE  Quiet(nw, Len(nv) + 1, leaves)
<1>1. PICK n \in Nat : n = Len(nv) /\ n >= 2
  OBVIOUS
<1>2. PICK m \in Nodes, i \in Nat : m = nv[n].node /\ i = nv[n].childIdx
  <2>1. nv[n] \in Frames
    BY <1>1
  <2> QED BY <2>1 DEF Frames
<1>3. PICK child : child = nw[n + 1].node
  OBVIOUS
<1>4. i < Len(Members(m)) /\ key = Members(m)[i + 1] /\ child = MemberAt(m, key)
  BY <1>1, <1>2, <1>3 DEF Stepped
<1>5. /\ child \in Within(m)
      /\ m.t = "obj" => key \in DOMAIN m.o /\ IsMember(m, key) /\ child = m.o[key]
  BY <1>4, MemberKinds
<1>6. m.t = "obj" => EnteredAs(nw, n, key)
  <2>1. nw[n].node = m /\ nw[n].childIdx = i + 1
    BY <1>1, <1>2 DEF Stepped
  <2> QED BY <2>1, <1>4 DEF EnteredAs
<1>7. (n + 1) - 1 = n /\ n + 1 \in 1 .. n + 1
  BY <1>1
<1>8. /\ child \in leaves => Quiet(nw, n + 1, leaves)
      /\ SlotTable(child) /\ m.t = "obj" /\ key = "slots" => Quiet(nw, n + 1, leaves)
      /\ Container(child, leaves) /\ m.t = "obj" /\ key = "encrypted" => Quiet(nw, n + 1, leaves)
  BY <1>3, <1>6, <1>7 DEF Quiet
<1>9. CASE m \in leaves
  <2>1. child \in leaves
    BY <1>5, <1>9
  <2> QED BY <2>1, <1>1, <1>8
<1>10. CASE \E j \in 1 .. n : ~Slotless(nv[j])
  <2>1. PICK j \in 1 .. n : ~Slotless(nv[j])
    BY <1>10
  <2>2. nw[j].slotKey = nv[j].slotKey
    <3>1. CASE j = n
      BY <3>1, <1>1 DEF Stepped
    <3>2. CASE j # n
      <4>1. j \in 1 .. Len(nv) - 1
        BY <3>2, <1>1
      <4> QED BY <4>1 DEF Stepped
    <3> QED BY <3>1, <3>2
  <2>3. ~Slotless(nw[j])
    BY <2>1, <2>2, Zenon DEF Slotless
  <2>4. j \in 1 .. n + 1
    BY <1>1
  <2> QED BY <2>3, <2>4, <1>1 DEF Quiet
<1>11. CASE SlotTable(m) /\ EnteredAs(nv, n - 1, "slots")
  <2>1. m.t = "obj" /\ IsSlot(nv)
    <3>1. m.t = "obj"
      BY <1>11, Zenon DEF SlotTable
    <3> QED BY <3>1, <1>1, <1>2, <1>11 DEF IsSlot, EnteredAs
  <2>2. nw[n + 1].slotKey = key
    BY <2>1, <1>1 DEF Stepped
  <2>3. ~Slotless(nw[n + 1])
    BY <2>1, <2>2, <1>5, <1>11, SlotHasName
  <2> QED BY <2>3, <1>1, <1>7 DEF Quiet
<1>12. CASE Container(m, leaves)
  <2>1. Holds(m, leaves, {"slots"}) /\ ~IsMember(m, "encrypted")
    BY <1>12, Zenon DEF Container
  <2>2. m.t = "obj"
    BY <2>1, Zenon DEF Holds
  <2>3. key = "slots" \/ key \notin {"slots"}
    OBVIOUS
  <2>4. CASE key = "slots"
    <3>1. SlotTable(child)
      BY <2>1, <2>2, <2>4, <1>5, Holding
    <3> QED BY <3>1, <2>2, <2>4, <1>1, <1>8
  <2>5. CASE key \notin {"slots"}
    <3>1. child \in leaves
      BY <2>1, <2>2, <2>5, <1>5, Holding
    <3> QED BY <3>1, <1>1, <1>8
  <2> QED BY <2>3, <2>4, <2>5
<1>13. CASE MapEntry(m, leaves)
  <2>1. /\ Holds(m, leaves, {"slots", "encrypted"})
        /\ IsMember(m, "encrypted") => Container(m.o["encrypted"], leaves)
    BY <1>13, Zenon DEF MapEntry
  <2>2. m.t = "obj"
    BY <2>1, Zenon DEF Holds
  <2>3. key = "slots" \/ key = "encrypted" \/ key \notin {"slots", "encrypted"}
    OBVIOUS
  <2>4. CASE key = "slots"
    <3>1. SlotTable(child)
      BY <2>1, <2>2, <2>4, <1>5, Holding
    <3> QED BY <3>1, <2>2, <2>4, <1>1, <1>8
  <2>5. CASE key = "encrypted"
    <3>1. Container(child, leaves)
      BY <2>1, <2>2, <2>5, <1>5
    <3> QED BY <3>1, <2>2, <2>5, <1>1, <1>8
  <2>6. CASE key \notin {"slots", "encrypted"}
    <3>1. child \in leaves
      BY <2>1, <2>2, <2>6, <1>5, Holding
    <3> QED BY <3>1, <1>1, <1>8
  <2> QED BY <2>3, <2>4, <2>5, <2>6
<1>14. \/ m \in leaves \/ \E j \in 1 .. n : ~Slotless(nv[j])
       \/ SlotTable(m) /\ EnteredAs(nv, n - 1, "slots")
       \/ Container(m, leaves) \/ MapEntry(m, leaves)
  BY <1>1, <1>2 DEF Quiet
<1> QED BY <1>9, <1>10, <1>11, <1>12, <1>13, <1>14

\* The step keeps the walk in the places where it should be.
LEMMA SteppedKeeps ==
  ASSUME NEW leaves, \A n \in leaves : Unmarked(n) /\ Within(n) \subseteq leaves,
         NEW es \in Seq(Nodes), \A k \in 1 .. Len(es) : MapEntry(es[k], leaves),
         NEW nv \in Seq(Frames), Len(nv) > 0, Walked(nv, es, leaves),
         NEW nw, NEW key, Stepped(nv, nw, key)
  PROVE  Walked(nw, es, leaves)
<1>1. PICK n \in Nat : n = Len(nv) /\ n > 0
  OBVIOUS
<1>2. Len(nw) = n + 1
  BY <1>1 DEF Stepped
<1>3. PICK len \in Nat : len = Len(es)
  OBVIOUS
<1>4. CASE n = 1
  <2>1. PICK m \in Nodes, i \in Nat : m = nv[1].node /\ i = nv[1].childIdx
    <3>1. nv[1] \in Frames
      BY <1>1
    <3> QED BY <3>1 DEF Frames
  <2>2. m.t = "arr" /\ m.a = es /\ Slotless(nv[1])
    BY <2>1 DEF Walked
  <2>3. i < Len(Members(m)) /\ key = Members(m)[i + 1] /\ nw[2].node = MemberAt(m, key)
    BY <2>1, <1>1, <1>4 DEF Stepped
  <2>4. i + 1 \in 1 .. len /\ nw[2].node = es[i + 1]
    BY <2>2, <2>3, <1>3, MemberKinds
  <2>5. nw[1].node = m /\ nw[1].childIdx = i + 1 /\ nw[1].slotKey = nv[1].slotKey
    BY <2>1, <1>1, <1>4 DEF Stepped
  <2>6. nw[2].slotKey = nv[1].slotKey
    <3>1. ~IsSlot(nv)
      BY <1>1, <1>4 DEF IsSlot
    <3> QED BY <3>1, <1>1, <1>4 DEF Stepped
  <2>7. Slotless(nw[1]) /\ Slotless(nw[2])
    BY <2>2, <2>5, <2>6, Zenon DEF Slotless
  <2>8. 3 .. Len(nw) = {} /\ nw[1].childIdx \in 0 .. len /\ nw[1].childIdx > 0
    BY <1>2, <1>3, <1>4, <2>4, <2>5
  <2> QED BY <1>3, <2>2, <2>4, <2>5, <2>7, <2>8 DEF Walked
<1>5. CASE n >= 2
  <2>1. nw[1] = nv[1] /\ \A k \in 1 .. n : nw[k].node = nv[k].node /\ nw[k].slotKey = nv[k].slotKey
    <3>1. 1 \in 1 .. Len(nv) - 1
      BY <1>1, <1>5
    <3>2. ASSUME NEW k \in 1 .. n PROVE nw[k].node = nv[k].node /\ nw[k].slotKey = nv[k].slotKey
      <4>1. CASE k = n
        BY <4>1, <1>1 DEF Stepped
      <4>2. CASE k # n
        <5>1. k \in 1 .. Len(nv) - 1
          BY <4>2, <1>1
        <5> QED BY <5>1 DEF Stepped
      <4> QED BY <4>1, <4>2
    <3> QED BY <3>1, <3>2 DEF Stepped
  <2>2. nv[1].childIdx > 0 /\ nv[2].node = es[nv[1].childIdx] /\ Slotless(nv[2])
    BY <1>1, <1>5 DEF Walked
  <2>3. nw[2].node = nv[2].node /\ Slotless(nw[2])
    <3>1. 2 \in 1 .. n
      BY <1>5
    <3>2. nw[2].node = nv[2].node /\ nw[2].slotKey = nv[2].slotKey
      BY <3>1, <2>1
    <3> QED BY <3>2, <2>2, Zenon DEF Slotless
  <2>4. ASSUME NEW k \in 3 .. n PROVE Quiet(nw, k, leaves)
    <3>1. k \in 1 .. n /\ k - 1 \in 1 .. Len(nv) - 1 /\ Quiet(nv, k, leaves) /\ k \in Nat
      BY <1>1 DEF Walked
    <3>2. nw[k].node = nv[k].node /\ nw[k - 1] = nv[k - 1]
      BY <3>1, <2>1 DEF Stepped
    <3>3. ASSUME NEW j \in 1 .. k, ~Slotless(nv[j]) PROVE ~Slotless(nw[j])
      <4>1. j \in 1 .. n
        BY <1>1
      <4>2. nw[j].slotKey = nv[j].slotKey
        BY <4>1, <2>1
      <4> QED BY <3>3, <4>2, Zenon DEF Slotless
    <3>4. \A s : EnteredAs(nv, k - 1, s) => EnteredAs(nw, k - 1, s)
      BY <3>2 DEF EnteredAs
    <3> QED BY <3>1, <3>2, <3>3, <3>4, Zenon DEF Quiet
  <2>5. Quiet(nw, n + 1, leaves)
    <3>1. CASE n = 2
      <4>1. nv[1].childIdx \in 1 .. len
        BY <1>3, <2>2 DEF Walked
      <4>2. MapEntry(nv[2].node, leaves)
        BY <4>1, <2>2, <1>3
      <4>3. Len(nv) = 2 /\ Len(nv) >= 2
        BY <3>1, <1>1
      <4>4. MapEntry(nv[Len(nv)].node, leaves)
        BY <4>2, <4>3, Zenon
      <4>5. Quiet(nw, Len(nv) + 1, leaves)
        BY <4>3, <4>4, QuietBelow
      <4> QED BY <4>5, <1>1
    <3>2. CASE n >= 3
      <4>1. n \in 3 .. Len(nv)
        BY <3>2, <1>1
      <4>2. Quiet(nv, Len(nv), leaves)
        BY <4>1, <1>1 DEF Walked
      <4> QED BY <3>2, <4>2, <1>1, QuietBelow
    <3> QED BY <3>1, <3>2, <1>5
  <2>6. \A k \in 3 .. Len(nw) : Quiet(nw, k, leaves)
    <3>1. \A k \in 3 .. Len(nw) : k \in 3 .. n \/ k = n + 1
      BY <1>2
    <3> QED BY <3>1, <2>4, <2>5
  <2>7. nv[1].node.t = "arr" /\ nv[1].node.a = es /\ Slotless(nv[1]) /\ nv[1].childIdx \in 0 .. Len(es)
    BY DEF Walked
  <2> QED BY <2>1, <2>2, <2>3, <2>6, <2>7 DEF Walked
<1> QED BY <1>1, <1>4, <1>5

\* Nothing is found at a node without the names that the walk looks for.
LEMMA UnmarkedEmpty ==
  ASSUME NEW n, Unmarked(n)
  PROVE  PartitionsOf(n, FALSE) = <<>> /\ ~IsMember(n, "slots") /\ EncryptedOf(n) = <<>>
<1>1. ~IsMember(n, "partitions") /\ ~IsMember(n, "slots") /\ ~IsMember(n, "encrypted")
  BY DEF Unmarked
<1> QED BY <1>1 DEF PartitionsOf, EncryptedOf

InSlotAt(nv) == \E k \in DOMAIN nv : ~Slotless(nv[k])
UnderAt(nv) == \E k \in 1 .. Len(nv) - 1 : EnteredAs(nv, k, "encrypted")

\* getPartitions, by the stack.
LEMMA HereIs ==
  ASSUME nav \in Seq(Frames), Len(nav) > 0, NEW n, n = nav[Len(nav)].node
  PROVE  PartitionsHere = IF n.t # "obj" \/ InSlotAt(nav) THEN <<>>
                          ELSE (IF UnderAt(nav) THEN <<>>
                                ELSE PartitionsOf(n, FALSE) \o IF IsMember(n, "slots") THEN processSlots(n.o["slots"]) ELSE <<>>)
                               \o EncryptedOf(n)
<1>1. InSlot <=> InSlotAt(nav)
  BY Zenon DEF InSlot, InSlotAt, Slotless
<1>2. UnderEncrypted <=> UnderAt(nav)
  BY DEF UnderEncrypted, UnderAt, EnteredAs
<1>3. Last(nav).node = n
  BY DEF Last
<1> QED BY <1>1, <1>2, <1>3 DEF PartitionsHere

\* What getPartitions returns: an entry's partitions at the entry, and nothing
\* above or below it.
LEMMA HereFinds ==
  ASSUME NEW leaves, \A n \in leaves : Unmarked(n) /\ Within(n) \subseteq leaves,
         NEW es \in Seq(Nodes), \A k \in 1 .. Len(es) : MapEntry(es[k], leaves),
         nav \in Seq(Frames), Len(nav) > 0, Walked(nav, es, leaves)
  PROVE  PartitionsHere = IF Len(nav) = 2 THEN EntryItems(nav[2].node) ELSE <<>>
<1>1. PICK len \in Nat : len = Len(nav) /\ len > 0 /\ DOMAIN nav = 1 .. len
  OBVIOUS
<1>2. PICK n : n = nav[len].node
  OBVIOUS
<1>3. PICK slots : slots = IF IsMember(n, "slots") THEN processSlots(n.o["slots"]) ELSE <<>>
  OBVIOUS
<1>4. PartitionsHere = IF n.t # "obj" \/ InSlotAt(nav) THEN <<>>
                       ELSE (IF UnderAt(nav) THEN <<>> ELSE PartitionsOf(n, FALSE) \o slots) \o EncryptedOf(n)
  BY <1>1, <1>2, <1>3, HereIs
<1>5. nav[1].node.t = "arr" /\ Slotless(nav[1])
  BY DEF Walked
<1>6. CASE len = 1
  <2>1. n.t # "obj"
    BY <1>2, <1>5, <1>6
  <2> QED BY <2>1, <1>1, <1>4, <1>6
<1>7. CASE len = 2
  <2>1. PICK i : i = nav[1].childIdx
    OBVIOUS
  <2>2. i \in 1 .. Len(es) /\ n = es[i] /\ Slotless(nav[2])
    BY <2>1, <1>1, <1>2, <1>7 DEF Walked
  <2>3. n.t = "obj"
    <3>1. MapEntry(n, leaves)
      BY <2>2
    <3> QED BY <3>1, Zenon DEF MapEntry, Holds
  <2>4. ~InSlotAt(nav)
    <3>1. \A k \in DOMAIN nav : k = 1 \/ k = 2
      BY <1>1, <1>7
    <3> QED BY <3>1, <2>2, <1>5, Zenon DEF InSlotAt
  <2>5. ~UnderAt(nav)
    <3>1. \A k \in 1 .. Len(nav) - 1 : k = 1
      BY <1>1, <1>7
    <3>2. ~EnteredAs(nav, 1, "encrypted")
      BY <1>5 DEF EnteredAs
    <3> QED BY <3>1, <3>2, Zenon DEF UnderAt
  <2>6. EntryItems(n) = (PartitionsOf(n, FALSE) \o slots) \o EncryptedOf(n)
    BY <1>3 DEF EntryItems
  <2> QED BY <2>3, <2>4, <2>5, <2>6, <1>1, <1>2, <1>4, <1>7
<1>8. CASE len >= 3
  <2>1. Quiet(nav, len, leaves)
    <3>1. len \in 3 .. Len(nav)
      BY <1>1, <1>8
    <3> QED BY <3>1 DEF Walked
  <2>2. len # 2 /\ len - 1 \in 1 .. Len(nav) - 1
    BY <1>1, <1>8
  <2>3. PartitionsHere = <<>>
    <3>1. CASE Unmarked(n)
      <4>1. PartitionsOf(n, FALSE) = <<>> /\ slots = <<>> /\ EncryptedOf(n) = <<>>
        BY <3>1, <1>3, UnmarkedEmpty
      <4>2. <<>> \o <<>> = <<>>
        OBVIOUS
      <4> QED BY <4>1, <4>2, <1>4
    <3>2. CASE \E j \in 1 .. len : ~Slotless(nav[j])
      <4>1. InSlotAt(nav)
        BY <3>2, <1>1 DEF InSlotAt
      <4> QED BY <4>1, <1>4
    <3>3. CASE Container(n, leaves) /\ EnteredAs(nav, len - 1, "encrypted")
      <4>1. UnderAt(nav)
        BY <3>3, <2>2 DEF UnderAt
      <4>2. ~IsMember(n, "encrypted")
        BY <3>3, Zenon DEF Container
      <4>3. EncryptedOf(n) = <<>>
        BY <4>2 DEF EncryptedOf
      <4>4. <<>> \o <<>> = <<>>
        OBVIOUS
      <4> QED BY <4>1, <4>3, <4>4, <1>4
    <3>4. n \in leaves \/ SlotTable(n) => Unmarked(n)
      BY Zenon DEF SlotTable
    <3> QED BY <3>1, <3>2, <3>3, <3>4, <2>1, <1>2, Zenon DEF Quiet
  <2> QED BY <2>2, <2>3, <1>1
<1> QED BY <1>1, <1>6, <1>7, <1>8

\* Stepping out leaves the walk where it was.
LEMMA FrontKeeps ==
  ASSUME NEW leaves, NEW es, NEW nv \in Seq(Frames), Len(nv) > 1, Walked(nv, es, leaves)
  PROVE  /\ Front(nv) \in Seq(Frames) /\ Len(Front(nv)) = Len(nv) - 1 /\ Front(nv)[1] = nv[1]
         /\ Walked(Front(nv), es, leaves)
<1>1. PICK len \in Nat : len = Len(nv) /\ len > 1
  OBVIOUS
<1>2. PICK nw : nw = Front(nv)
  OBVIOUS
<1>3. nw \in Seq(Frames) /\ Len(nw) = len - 1 /\ \A k \in 1 .. len - 1 : nw[k] = nv[k]
  BY <1>1, <1>2 DEF Front
<1>4. nw[1] = nv[1]
  BY <1>1, <1>3
<1>5. Len(nw) > 1 => nw[2] = nv[2]
  BY <1>1, <1>3
<1>6. ASSUME NEW k \in 3 .. Len(nw) PROVE Quiet(nw, k, leaves)
  <2>1. k \in 3 .. Len(nv) /\ k \in 1 .. len - 1 /\ k - 1 \in 1 .. len - 1
    BY <1>1, <1>3
  <2>2. Quiet(nv, k, leaves)
    BY <2>1 DEF Walked
  <2>3. nw[k] = nv[k] /\ nw[k - 1] = nv[k - 1] /\ \A j \in 1 .. k : nw[j] = nv[j]
    BY <2>1, <1>3
  <2>4. \A s : EnteredAs(nv, k - 1, s) => EnteredAs(nw, k - 1, s)
    BY <2>3 DEF EnteredAs
  <2>5. ASSUME NEW j \in 1 .. k, ~Slotless(nv[j]) PROVE ~Slotless(nw[j])
    BY <2>3, <2>5, Zenon
  <2> QED BY <2>2, <2>3, <2>4, <2>5, Zenon DEF Quiet
<1>7. /\ nv[1].node.t = "arr" /\ nv[1].node.a = es /\ Slotless(nv[1]) /\ nv[1].childIdx \in 0 .. Len(es)
      /\ nv[1].childIdx > 0 /\ nv[2].node = es[nv[1].childIdx] /\ Slotless(nv[2])
  BY DEF Walked
<1>8. Walked(nw, es, leaves)
  BY <1>4, <1>5, <1>6, <1>7 DEF Walked
<1> QED BY <1>1, <1>2, <1>3, <1>4, <1>8

----------------------------------------------------------------------------
\* The walk counts up the entries of the map: what is found is what the entries it
\* has passed name.
Reached(x, es, i) == Totals(Weights(es, EntryCount(x)))[i]
Tallied(list, es, i) == \A x : Sum(list, PartWeight(x)) = Reached(x, es, i)
Passed == IF ilPc = "get" /\ Len(nav) = 2 THEN nav[1].childIdx - 1 ELSE nav[1].childIdx

WalkInv(leaves) ==
  /\ ilPc = "idle" => found = <<>>
  /\ ilPc \in {"get", "step"} => Walked(nav, D.map.a, leaves) /\ Tallied(found, D.map.a, Passed)
  /\ ilPc \in {"number", "check"} \/ Taken => Tallied(found, D.map.a, Len(D.map.a))

\* The count goes up entry by entry, to what the map names.
LEMMA ReachedFacts ==
  ASSUME NEW x, NEW es \in Seq(Nodes)
  PROVE  /\ Reached(x, es, 0) = 0 /\ \A i \in 0 .. Len(es) : Reached(x, es, i) \in Nat
         /\ \A i \in 1 .. Len(es) : Reached(x, es, i) = Reached(x, es, i - 1) + EntryCount(x)[es[i]]
         /\ Reached(x, es, Len(es)) = Sum(es, EntryCount(x))
<1>1. PICK H \in [Nodes -> Nat] : H = EntryCount(x)
  BY CountTypes
<1>2. PICK w : w = Weights(es, H)
  OBVIOUS
<1>3. w \in Seq(Nat) /\ Len(w) = Len(es) /\ \A k \in 1 .. Len(es) : w[k] = H[es[k]]
  BY <1>2, WeightsFacts
<1>4. /\ Totals(w) \in [0 .. Len(w) -> Nat] /\ Totals(w)[0] = 0
      /\ \A i \in 1 .. Len(w) : Totals(w)[i] = Totals(w)[i - 1] + w[i]
  BY <1>3, TotalsStep
<1>5. Reached(x, es, Len(es)) = Sum(es, EntryCount(x))
  BY <1>1, <1>2, <1>3 DEF Reached, Sum, Total
<1>6. PICK T : T = Totals(w) /\ \A i : Reached(x, es, i) = T[i]
  BY <1>1, <1>2 DEF Reached
<1>7. T[0] = 0 /\ \A i \in 0 .. Len(es) : T[i] \in Nat
  BY <1>3, <1>4, <1>6
<1>8. \A i \in 1 .. Len(es) : T[i] = T[i - 1] + H[es[i]]
  BY <1>3, <1>4, <1>6
<1> QED BY <1>1, <1>5, <1>6, <1>7, <1>8

\* What a well-shaped description is made of.
LEMMA ShapeFacts ==
  ASSUME NEW leaves, WellShaped(leaves), desc \in DOMAIN Descs
  PROVE  /\ \A n \in leaves : Unmarked(n) /\ Within(n) \subseteq leaves
         /\ D.map \in Nodes /\ D.map.t = "arr" /\ D.map.a \in Seq(Nodes)
         /\ \A k \in 1 .. Len(D.map.a) : MapEntry(D.map.a[k], leaves)
<1>1. /\ \A n \in leaves : Unmarked(n) /\ Within(n) \subseteq leaves
      /\ D.map.t = "arr" /\ \A k \in DOMAIN D.map.a : MapEntry(D.map.a[k], leaves)
  BY Zenon DEF WellShaped, D
<1>2. D.map \in Nodes
  BY DescFacts
<1>3. D.map.a \in Seq(Nodes)
  BY <1>1, <1>2, NodesAssumption
<1> QED BY <1>1, <1>2, <1>3

\* The walk begins at the map, with nothing found.
LEMMA TalliedNone == ASSUME NEW es \in Seq(Nodes) PROVE Tallied(<<>>, es, 0)
<1> SUFFICES ASSUME NEW x PROVE Sum(<<>>, PartWeight(x)) = Reached(x, es, 0)
  BY DEF Tallied
<1>1. Sum(<<>>, PartWeight(x)) = 0
  BY PartWeightFacts, SumNone
<1> QED BY <1>1, ReachedFacts

\* loadData, up to the walk.
LEMMA LoadDataWalks ==
  ASSUME NEW leaves, WellShaped(leaves), ListInv, WalkInv(leaves), LoadData
  PROVE  WalkInv(leaves)'
<1>1. D' = D /\ found' = found /\ found = <<>>
  BY DEF LoadData, D, WalkInv
<1>2. CASE ilPc' = "refused"
  BY <1>2 DEF WalkInv, Taken
<1>3. CASE ilPc' = "get" /\ nav' = <<Frame(D.map, "")>>
  <2>1. PICK f : f = Frame(D.map, "")
    OBVIOUS
  <2>2. f.node = D.map /\ f.childIdx = 0 /\ Slotless(f)
    BY <2>1, Zenon DEF Frame, Slotless
  <2>3. PICK nw : nw = nav' /\ nw = <<f>>
    BY <1>3, <2>1, Zenon
  <2>4. Len(nw) = 1 /\ nw[1] = f
    BY <2>3
  <2>5. PICK es : es = D.map.a
    OBVIOUS
  <2>6. D.map.t = "arr" /\ es \in Seq(Nodes)
    BY <2>5, ShapeFacts DEF ListInv
  <2>7. 0 \in 0 .. Len(es) /\ 3 .. Len(nw) = {} /\ ~(Len(nw) > 1)
    BY <2>4, <2>6
  <2>8. Walked(nw, es, leaves)
    BY <2>2, <2>4, <2>5, <2>6, <2>7 DEF Walked
  <2>9. Tallied(<<>>, es, 0)
    BY <2>6, TalliedNone
  <2>10. nav' = nw /\ ilPc' = "get"
    BY <1>3, <2>3, Zenon
  <2>11. Passed' = 0
    BY <2>2, <2>4, <2>10 DEF Passed
  <2>12. Walked(nav, D.map.a, leaves)' /\ Tallied(found, D.map.a, Passed)'
    BY <1>1, <2>5, <2>8, <2>9, <2>10, <2>11
  <2> QED BY <2>10, <2>12 DEF WalkInv, Taken
<1> QED BY <1>2, <1>3, Zenon DEF LoadData

\* getPartitions at an entry adds what the entry names, elsewhere nothing.
LEMMA GetPartitionsTallies ==
  ASSUME NEW leaves, WellShaped(leaves), ListInv, NavInv, WalkInv(leaves), GetPartitions, ilPc' = "step"
  PROVE  Tallied(found', D.map.a, nav[1].childIdx)
<1>1. PICK es : es = D.map.a
  OBVIOUS
<1>2. /\ \A n \in leaves : Unmarked(n) /\ Within(n) \subseteq leaves
      /\ es \in Seq(Nodes) /\ \A k \in 1 .. Len(es) : MapEntry(es[k], leaves)
  BY <1>1, ShapeFacts DEF ListInv
<1>3. nav \in Seq(Frames) /\ Len(nav) > 0 /\ ilPc = "get"
  BY DEF NavInv, GetPartitions
<1>4. Walked(nav, es, leaves) /\ Tallied(found, es, Passed)
  BY <1>1, <1>3 DEF WalkInv
<1>5. PICK items : items = PartitionsHere
  OBVIOUS
<1>6. PICK more : more = [k \in DOMAIN items |-> Filled(items, k)]
  OBVIOUS
<1>7. items \in Sound /\ items \in Seq(Items)
  <2>1. nav[Len(nav)] \in Frames
    BY <1>3
  <2>2. Last(nav).node \in Nodes
    BY <2>1 DEF Last, Frames
  <2> QED BY <2>2, <1>5, HereSound DEF Sound
<1>8. /\ \A k \in DOMAIN items : ~items[k].bad /\ Fillable(items[k], Len(found) + k)
      /\ found' = found \o more
  BY <1>5, <1>6 DEF GetPartitions
<1>9. \A k \in 1 .. Len(items) : ~items[k].bad /\ Fillable(items[k], Len(found) + k)
  <2>1. DOMAIN items = 1 .. Len(items)
    BY <1>7
  <2> QED BY <2>1, <1>8
<1>10. ~HasBad(items)
  BY <1>9 DEF HasBad
<1>11. items = IF Len(nav) = 2 THEN EntryItems(nav[2].node) ELSE <<>>
  BY <1>2, <1>3, <1>4, <1>5, HereFinds
<1>12. PICK i : i = nav[1].childIdx
  OBVIOUS
<1>13. ASSUME NEW x PROVE Sum(found', PartWeight(x)) = Reached(x, es, i)
  <2>1. more \in Seq(Partitions) /\ Sum(more, PartWeight(x)) = Sum(items, Weight(x))
    BY <1>6, <1>7, <1>9, FilledSum DEF Added
  <2>2. Sum(found \o more, PartWeight(x)) = Sum(found, PartWeight(x)) + Sum(more, PartWeight(x))
    <3>1. found \in Seq(Partitions)
      BY DEF ListInv
    <3>2. PICK H \in [Partitions -> Nat] : H = PartWeight(x)
      BY PartWeightFacts
    <3>3. Sum(found \o more, H) = Sum(found, H) + Sum(more, H)
      BY <2>1, <3>1, SumConcat
    <3> QED BY <3>2, <3>3
  <2>3. Sum(found, PartWeight(x)) = Reached(x, es, Passed)
    BY <1>4 DEF Tallied
  <2>4. CASE Len(nav) = 2
    <3>1. PICK n : n = nav[2].node
      OBVIOUS
    <3>2. i \in 1 .. Len(es) /\ n = es[i] /\ Passed = i - 1
      BY <2>4, <3>1, <1>3, <1>4, <1>12 DEF Walked, Passed
    <3>3. n \in Nodes
      BY <3>2, <1>2
    <3>4. Counts(x, items, EntryCount(x)[n])
      BY <2>4, <3>1, <3>3, <1>11, CountsEntry
    <3>5. Sum(items, Weight(x)) = EntryCount(x)[n]
      BY <3>4, <1>10 DEF Counts
    <3>6. Reached(x, es, i) = Reached(x, es, i - 1) + EntryCount(x)[n]
      BY <3>2, <1>2, ReachedFacts
    <3> QED BY <3>2, <3>5, <3>6, <2>1, <2>2, <2>3, <1>8
  <2>5. CASE Len(nav) # 2
    <3>1. Sum(items, Weight(x)) = 0
      <4>1. items = <<>>
        BY <2>5, <1>11
      <4> QED BY <4>1, WeightFacts, SumNone
    <3>2. Passed = i /\ i \in 0 .. Len(es)
      BY <2>5, <1>4, <1>12 DEF Passed, Walked
    <3>3. Reached(x, es, i) \in Nat
      BY <3>2, <1>2, ReachedFacts
    <3>4. Sum(found \o more, PartWeight(x)) = Reached(x, es, i) + 0
      BY <3>1, <3>2, <2>1, <2>2, <2>3
    <3> QED BY <3>3, <3>4, <1>8
  <2> QED BY <2>4, <2>5
<1> QED BY <1>1, <1>12, <1>13 DEF Tallied

\* getPartitions and the callback.
LEMMA GetPartitionsWalks ==
  ASSUME NEW leaves, WellShaped(leaves), ListInv, NavInv, WalkInv(leaves), GetPartitions
  PROVE  WalkInv(leaves)'
<1>1. D' = D /\ nav' = nav /\ ilPc = "get"
  BY DEF GetPartitions, D
<1>2. CASE ilPc' = "refused"
  BY <1>2 DEF WalkInv, Taken
<1>3. CASE ilPc' = "step"
  <2>1. Tallied(found', D.map.a, nav[1].childIdx)
    BY <1>3, GetPartitionsTallies
  <2>2. Passed' = nav[1].childIdx
    BY <1>1, <1>3 DEF Passed
  <2>3. Walked(nav, D.map.a, leaves)
    BY <1>1 DEF WalkInv
  <2>4. Walked(nav, D.map.a, leaves)' /\ Tallied(found, D.map.a, Passed)'
    BY <1>1, <2>1, <2>2, <2>3
  <2> QED BY <1>3, <2>4 DEF WalkInv, Taken
<1> QED BY <1>2, <1>3 DEF GetPartitions

\* The step into an entry does not count it yet.
LEMMA StepInWalks ==
  ASSUME NEW leaves, WellShaped(leaves), ListInv, NavInv, WalkInv(leaves), StepIn
  PROVE  WalkInv(leaves)'
<1>1. D' = D /\ found' = found /\ ilPc = "step" /\ ilPc' = "get"
  BY DEF StepIn, D
<1>2. PICK es : es = D.map.a
  OBVIOUS
<1>3. nav \in Seq(Frames) /\ Len(nav) > 0 /\ Len(nav) \in Nat
  BY <1>1 DEF NavInv
<1>4. Walked(nav, es, leaves) /\ Tallied(found, es, Passed)
  BY <1>1, <1>2 DEF WalkInv
<1>5. PICK nw, key : nw = nav' /\ Stepped(nav, nw, key)
  BY StepInIsStepped
<1>6. Walked(nw, es, leaves)
  <2>1. /\ \A n \in leaves : Unmarked(n) /\ Within(n) \subseteq leaves
        /\ es \in Seq(Nodes) /\ \A k \in 1 .. Len(es) : MapEntry(es[k], leaves)
    BY <1>2, ShapeFacts DEF ListInv
  <2> QED BY <2>1, <1>3, <1>4, <1>5, SteppedKeeps
<1>7. PICK i \in Nat : i = nav[1].childIdx
  <2>1. nav[1] \in Frames
    BY <1>3
  <2> QED BY <2>1 DEF Frames
<1>8. Passed = i
  BY <1>1, <1>7 DEF Passed
<1>9. Passed' = i
  <2>1. CASE Len(nav) = 1
    <3>1. Len(nw) = 2 /\ nw[1].childIdx = i + 1
      BY <2>1, <1>5, <1>7 DEF Stepped
    <3>2. (i + 1) - 1 = i
      OBVIOUS
    <3> QED BY <3>1, <3>2, <1>1, <1>5 DEF Passed
  <2>2. CASE Len(nav) # 1
    <3>0. PICK len \in Nat : len = Len(nav) /\ len > 0
      BY <1>3
    <3>1. 1 \in 1 .. Len(nav) - 1
      BY <2>2, <3>0
    <3>2. Len(nw) # 2 /\ nw[1] = nav[1]
      BY <3>1, <2>2, <1>3, <1>5 DEF Stepped
    <3> QED BY <3>2, <1>1, <1>5, <1>7 DEF Passed
  <2> QED BY <2>1, <2>2
<1>10. Walked(nav, D.map.a, leaves)' /\ Tallied(found, D.map.a, Passed)'
  BY <1>1, <1>2, <1>4, <1>5, <1>6, <1>8, <1>9
<1> QED BY <1>1, <1>10 DEF WalkInv, Taken

\* The step out of the map comes when all its entries have been passed.
LEMMA StepOutWalks ==
  ASSUME NEW leaves, WellShaped(leaves), ListInv, NavInv, WalkInv(leaves), StepOut
  PROVE  WalkInv(leaves)'
<1>1. D' = D /\ found' = found /\ ilPc = "step" /\ nav' = Front(nav)
  BY DEF StepOut, D
<1>2. PICK es : es = D.map.a
  OBVIOUS
<1>3. nav \in Seq(Frames) /\ Len(nav) > 0 /\ Len(nav) \in Nat
  BY <1>1 DEF NavInv
<1>4. Walked(nav, es, leaves) /\ Tallied(found, es, Passed)
  BY <1>1, <1>2 DEF WalkInv
<1>5. D.map \in Nodes /\ es \in Seq(Nodes) /\ \A k \in 1 .. Len(es) : MapEntry(es[k], leaves)
  BY <1>2, ShapeFacts DEF ListInv
<1>6. Passed = nav[1].childIdx
  BY <1>1 DEF Passed
<1>7. CASE Len(nav) = 1
  <2>1. PICK m \in Nodes, i \in Nat : m = nav[1].node /\ i = nav[1].childIdx /\ m = Last(nav).node /\ i = Last(nav).childIdx
    <3>1. nav[1] \in Frames /\ Last(nav) = nav[1]
      BY <1>3, <1>7 DEF Last
    <3> QED BY <3>1 DEF Frames
  <2>2. m.t = "arr" /\ m.a = es /\ i \in 0 .. Len(es)
    BY <2>1, <1>4 DEF Walked
  <2>3. Len(Members(m)) = Len(es) /\ Len(es) \in Nat
    <3>1. PICK len \in Nat : len = Len(es) /\ DOMAIN es = 1 .. len
      BY <1>5
    <3>2. Members(m) = [k \in 1 .. len |-> k]
      BY <3>1, <2>2 DEF Members
    <3> QED BY <3>1, <3>2
  <2>4. i = Len(es)
    <3> SUFFICES ASSUME i # Len(es) PROVE FALSE
      OBVIOUS
    <3>1. i < Len(Members(m)) /\ i + 1 \in 1 .. Len(es)
      BY <2>2, <2>3
    <3>2. PICK key : key = Members(m)[i + 1]
      OBVIOUS
    <3>3. MemberAt(m, key) = es[i + 1]
      BY <3>1, <3>2, <2>2, MemberKinds
    <3>4. MemberAt(m, key).t = "val"
      BY <3>1, <3>2, <2>1 DEF StepOut, CanStepIn
    <3>5. MapEntry(es[i + 1], leaves)
      BY <3>1, <1>5
    <3>6. es[i + 1].t = "obj"
      BY <3>5, Zenon DEF MapEntry, Holds
    <3> QED BY <3>3, <3>4, <3>6
  <2>5. ilPc' = "number"
    BY <1>7 DEF StepOut
  <2>6. Tallied(found, D.map.a, Len(D.map.a))'
    BY <2>1, <2>4, <1>1, <1>2, <1>4, <1>6
  <2> QED BY <2>5, <2>6 DEF WalkInv, Taken
<1>8. CASE Len(nav) # 1
  <2>0. PICK len \in Nat : len = Len(nav) /\ len > 0
    BY <1>3
  <2>1. Len(nav) > 1 /\ ilPc' = "step"
    <3>1. Len(nav) > 1
      BY <1>8, <2>0
    <3> QED BY <3>1, <1>8 DEF StepOut
  <2>2. PICK nw : nw = Front(nav) /\ nw[1] = nav[1] /\ Walked(nw, es, leaves)
    BY <2>1, <1>3, <1>4, FrontKeeps
  <2>3. Passed' = Passed
    BY <2>1, <2>2, <1>1, <1>6 DEF Passed
  <2>4. Walked(nav, D.map.a, leaves)' /\ Tallied(found, D.map.a, Passed)'
    BY <2>2, <2>3, <1>1, <1>2, <1>4
  <2> QED BY <2>1, <2>4 DEF WalkInv, Taken
<1> QED BY <1>7, <1>8

\* Numbering and all that comes after it leave the count alone.
LEMMA WalkKeeps ==
  ASSUME NEW leaves, WellShaped(leaves), ListInv, NavInv, WalkInv(leaves), [LayoutNext]_ilVars
  PROVE  WalkInv(leaves)'
<1>1. CASE LoadData
  BY <1>1, LoadDataWalks
<1>2. CASE GetPartitions
  BY <1>2, GetPartitionsWalks
<1>3. CASE StepIn
  BY <1>3, StepInWalks
<1>4. CASE StepOut
  BY <1>4, StepOutWalks
<1>5. CASE Number
  <2>1. D' = D /\ ilPc = "number" /\ ilPc' \in {"refused", "check"}
    BY <1>5 DEF Number, D
  <2>2. PICK es : es = D.map.a /\ Tallied(found, es, Len(es))
    BY <2>1 DEF WalkInv
  <2>3. \A x : Sum(found', PartWeight(x)) = Sum(found, PartWeight(x))
    BY <1>5, NumberCounts DEF Recount
  <2>4. Tallied(found', es, Len(es))
    BY <2>2, <2>3 DEF Tallied
  <2>5. Tallied(found, D.map.a, Len(D.map.a))'
    BY <2>1, <2>2, <2>4
  <2> QED BY <2>1, <2>5 DEF WalkInv, Taken
<1>6. CASE CanProvision \/ AppendRoot \/ Commit \/ AppendChild \/ Provisioned
  <2>1. D' = D /\ found' = found /\ (ilPc = "check" \/ Taken)
    BY <1>6 DEF CanProvision, AppendRoot, Commit, AppendChild, Provisioned, D, Taken
  <2>2. ilPc' \in {"append", "crypt", "done", "failed", "refused"}
    BY <1>6 DEF CanProvision, AppendRoot, Commit, AppendChild, Provisioned
  <2>3. Tallied(found, D.map.a, Len(D.map.a))
    BY <2>1 DEF WalkInv
  <2>4. Tallied(found, D.map.a, Len(D.map.a))'
    BY <2>1, <2>3
  <2> QED BY <2>2, <2>4 DEF WalkInv, Taken
<1>7. CASE \E d \in DOMAIN Descs : NextDescription(d)
  <2>1. ilPc' = "idle" /\ found' = <<>>
    BY <1>7 DEF NextDescription
  <2> QED BY <2>1 DEF WalkInv, Taken
<1>8. CASE UNCHANGED ilVars
  <2>1. D' = D /\ found' = found /\ ilPc' = ilPc /\ nav' = nav
    BY <1>8 DEF ilVars, D
  <2>2. Passed' = Passed /\ (Taken' <=> Taken)
    BY <2>1 DEF Passed, Taken
  <2> QED BY <2>1, <2>2 DEF WalkInv
<1> QED BY <1>1, <1>2, <1>3, <1>4, <1>5, <1>6, <1>7, <1>8 DEF LayoutNext, LayoutStep

\* The partitions of the list that are <<name, e>>, counted two ways.
LEMMA ListCounted ==
  ASSUME ListInv, NEW name, NEW e \in BOOLEAN
  PROVE  Cardinality({i \in ImageParts : found[i].image = name /\ (found[i].parent # 0) = e})
         = Sum(found, PartWeight(<<name, e>>))
<1>1. found \in Seq(Partitions) /\ DOMAIN found = 1 .. Len(found)
  BY DEF ListInv
<1>2. PICK x : x = <<name, e>>
  OBVIOUS
<1>3. PICK H \in [Partitions -> {0, 1}] : H = PartWeight(x)
  BY PartWeightFacts
<1>4. Sum(found, H) = Cardinality({k \in 1 .. Len(found) : H[found[k]] = 1})
  BY <1>1, SumCounts
<1>5. ASSUME NEW k \in 1 .. Len(found)
      PROVE  H[found[k]] = 1 <=> found[k].etype = "none" /\ found[k].image = name /\ (found[k].parent # 0) = e
  <2>1. PICK p \in Partitions : p = found[k]
    BY <1>1
  <2>2. H[p] = IF p.etype = "none" /\ <<p.image, p.parent # 0>> = <<name, e>> THEN 1 ELSE 0
    BY <1>2, <1>3 DEF PartWeight
  <2>3. <<p.image, p.parent # 0>> = <<name, e>> <=> p.image = name /\ (p.parent # 0) = e
    OBVIOUS
  <2> QED BY <2>1, <2>2, <2>3
<1>6. {k \in 1 .. Len(found) : H[found[k]] = 1}
      = {i \in ImageParts : found[i].image = name /\ (found[i].parent # 0) = e}
  BY <1>1, <1>5 DEF ImageParts
<1> QED BY <1>2, <1>3, <1>4, <1>6

\* Counted to the end, the list is whole.
LEMMA TalliedIsComplete ==
  ASSUME NEW leaves, WellShaped(leaves), ListInv, WalkInv(leaves)
  PROVE  HandedOver
<1>1. ParsedIsProvisionable
  BY DEF ListInv, ParsedIsProvisionable, Placed
<1>2. ASSUME Taken, NEW name \in DOMAIN D.images, NEW e \in BOOLEAN
      PROVE  NamedTimes(<<name, e>>)
             = Cardinality({i \in ImageParts : found[i].image = name /\ (found[i].parent # 0) = e})
  <2>1. PICK x : x = <<name, e>>
    OBVIOUS
  <2>2. PICK es : es = D.map.a /\ Tallied(found, es, Len(es))
    BY <1>2 DEF WalkInv
  <2>3. es \in Seq(Nodes)
    BY <2>2, ShapeFacts DEF ListInv
  <2>4. Sum(found, PartWeight(x)) = Sum(es, EntryCount(x))
    BY <2>2, <2>3, ReachedFacts DEF Tallied
  <2>5. NamedTimes(x) = Sum(es, EntryCount(x))
    BY <2>2, <2>3, NamedIsCounted
  <2>6. Cardinality({i \in ImageParts : found[i].image = name /\ (found[i].parent # 0) = e}) = Sum(found, PartWeight(x))
    BY <2>1, ListCounted
  <2> QED BY <2>1, <2>4, <2>5, <2>6
<1> QED BY <1>1, <1>2 DEF HandedOver, AcceptedIsComplete

\* The list that the parser hands to IDPdevice is whole and in order, for every
\* well-shaped description, however many entries, slots and containers it has:
\* each image is provisioned as often as the description names it, and inside a
\* container exactly when the description puts it there.
THEOREM HandedOverWhole ==
  ASSUME NEW leaves, WellShaped(leaves)
  PROVE  LayoutSpec => []HandedOver
<1>1. LayoutInit => WalkInv(leaves)
  BY DEF LayoutInit, WalkInv, Taken
<1>2. NavInv /\ ListInv /\ WalkInv(leaves) /\ [LayoutNext]_ilVars => WalkInv(leaves)'
  BY WalkKeeps
<1>3. ListInv /\ WalkInv(leaves) => HandedOver
  BY TalliedIsComplete
<1> QED BY <1>1, <1>2, <1>3, ParseInvHolds, PTL DEF LayoutSpec
----------------------------------------------------------------------------
RangeRec == [first : Nat, last : Nat, sum : Seq(Contents)]
Disk == [Blocks -> Contents]

MapType ==
  /\ mapBuf \in Maps \union {NoMap}
  /\ medium \in [MapDisks -> Disk]
  /\ cached \in [MapDisks -> [Blocks -> Contents \union {NoMap}]]
  /\ mapFor \in [MapDisks -> Maps \union {NoMap}]

\* What is loaded is what was last loaded for the disk it is for.
LoadedIsFor ==
  loaded.ranges # <<>> =>
    /\ loaded.dev \in MapDisks /\ loaded.ranges \in Maps
    /\ WellFormed(loaded.ranges) /\ mapFor[loaded.dev] = loaded.ranges

\* The storage holds a range.
Held(r) ==
  /\ r.last \in Blocks
  /\ \A b \in r.first .. r.last : medium[loaded.dev][b] = r.sum[b - r.first + 1]

\* What has been read is what the storage holds, from the first block on.
ReadIsHeld(first) ==
  \A k \in 1 .. Len(read) : first + (k - 1) \in Blocks /\ read[k] = medium[loaded.dev][first + (k - 1)]

\* Where bmap-verify stands while nobody writes: nothing of the disk is in the
\* cache, the ranges behind it are held.
Reading ==
  mapPc = "read" =>
    /\ loaded.ranges # <<>> /\ mapSaid = "none"
    /\ range \in 1 .. Len(loaded.ranges) /\ read \in Seq(Contents)
    /\ quiet = TRUE =>
         /\ \A b \in Blocks : cached[loaded.dev][b] = NoMap
         /\ \A i \in 1 .. range - 1 : Held(loaded.ranges[i])
         /\ ReadIsHeld(loaded.ranges[range].first)

Verified ==
  mapSaid = "OKAY" =>
    /\ mapPc = "idle" /\ loaded.ranges # <<>>
    /\ quiet = TRUE => \A i \in 1 .. Len(loaded.ranges) : Held(loaded.ranges[i])

MapInv ==
  /\ mapPc \in {"idle", "read"} /\ quiet \in BOOLEAN
  /\ MapType /\ LoadedIsFor /\ Reading /\ Verified

\* The commands of block maps start with nothing loaded.
LEMMA MapInvInit == BlockMapInit => MapInv
<1> SUFFICES ASSUME BlockMapInit PROVE MapInv
  OBVIOUS
<1>1. MapType
  BY DEF BlockMapInit, MapType, Disk
<1> QED BY <1>1 DEF BlockMapInit, MapInv, LoadedIsFor, Reading, Verified

\* A range of a map in use.
LEMMA RangeTypes ==
  ASSUME NEW m \in Maps, NEW i \in 1 .. Len(m)
  PROVE  /\ m \in Seq(RangeRec) /\ Len(m) \in Nat /\ DOMAIN m = 1 .. Len(m)
         /\ m[i].first \in Nat /\ m[i].last \in Nat /\ m[i].sum \in Seq(Contents)
<1>1. m \in Seq(RangeRec)
  BY BlockMapAssumption DEF RangeRec
<1>2. m[i] \in RangeRec
  BY <1>1
<1> QED BY <1>1, <1>2, SMTT(40) DEF RangeRec

\* Commands that begin or end without touching a disk.
LEMMA CommandsKeep ==
  ASSUME MapInv, (\E m \in Maps : StageMap(m)) \/ (\E d \in MapDisks : BmapLoad(d)) \/ MapSessionEnds
  PROVE  MapInv'
<1>a. mapPc = "idle" /\ mapSaid' = "none" /\ UNCHANGED <<medium, cached, mapPc, quiet>>
  BY DEF StageMap, BmapLoad, MapSessionEnds
<1>1. MapType'
  BY <1>a DEF MapInv, MapType, StageMap, BmapLoad, MapSessionEnds, WellFormed
<1>2. LoadedIsFor'
  <2>1. CASE \E d \in MapDisks : BmapLoad(d)
    <3>1. PICK d \in MapDisks : BmapLoad(d)
      BY <2>1
    <3>2. mapBuf \in Maps /\ WellFormed(mapBuf)
      BY <3>1 DEF BmapLoad, MapInv, MapType, WellFormed
    <3>3. loaded'.dev = d /\ loaded'.ranges = mapBuf /\ mapFor'[d] = mapBuf
      BY <3>1 DEF BmapLoad, MapInv, MapType
    <3> QED BY <3>2, <3>3 DEF LoadedIsFor, WellFormed
  <2>2. CASE UNCHANGED <<loaded, mapFor>>
    BY <2>2 DEF MapInv, LoadedIsFor, WellFormed
  <2> QED BY <2>1, <2>2 DEF StageMap, MapSessionEnds
<1> QED BY <1>a, <1>1, <1>2 DEF MapInv, Reading, Verified

\* The start of a verification: the disk's dirty pages are written back, and
\* from there on the cache holds none of it.
LEMMA VerifyKeeps ==
  ASSUME MapInv, NEW d \in MapDisks, BmapVerify(d)
  PROVE  MapInv'
<1>a. UNCHANGED <<mapBuf, loaded, mapFor>>
  BY DEF BmapVerify
<1>b. LoadedIsFor'
  BY <1>a DEF MapInv, LoadedIsFor, WellFormed
<1>1. CASE VerifySays("FAIL") /\ UNCHANGED <<medium, cached, range, read, quiet>>
  BY <1>1, <1>a, <1>b DEF VerifySays, MapInv, MapType, Reading, Verified
<1>2. CASE /\ loaded.ranges # <<>> /\ loaded.dev = d
           /\ \E s \in [Blocks -> Contents] : Flushed(d, s) /\ medium' = [medium EXCEPT ![d] = s]
           /\ cached' = [cached EXCEPT ![d] = [b \in Blocks |-> NoMap]]
           /\ mapPc' = "read" /\ range' = 1 /\ read' = <<>> /\ quiet' = TRUE /\ mapSaid' = "none"
  <2>1. MapType'
    BY <1>2, <1>a DEF MapInv, MapType, Disk
  <2>2. \A b \in Blocks : cached'[d][b] = NoMap
    BY <1>2 DEF MapInv, MapType
  <2>3. 1 \in 1 .. Len(loaded.ranges)
    <3>1. loaded.ranges \in Seq(RangeRec)
      BY <1>2, BlockMapAssumption DEF MapInv, LoadedIsFor, RangeRec
    <3> QED BY <1>2, <3>1
  <2>4. ReadIsHeld(loaded.ranges[1].first)'
    BY <1>2, <1>a DEF ReadIsHeld
  <2>5. Reading'
    BY <1>2, <1>a, <2>2, <2>3, <2>4 DEF Reading
  <2>6. Verified'
    BY <1>2 DEF Verified
  <2> QED BY <1>2, <1>b, <2>1, <2>5, <2>6 DEF MapInv
<1> QED BY <1>1, <1>2 DEF BmapVerify

\* One block is read, from the storage while the cache has none of the disk.
LEMMA ReadKeeps ==
  ASSUME MapInv, VerifyRead
  PROVE  MapInv'
<1>a. UNCHANGED <<mapBuf, loaded, medium, cached, range, mapFor, quiet>> /\ mapPc = "read"
  BY DEF VerifyRead
<1>b. MapType' /\ LoadedIsFor'
  BY <1>a DEF MapInv, MapType, LoadedIsFor, WellFormed
<1>c. /\ loaded.ranges # <<>> /\ loaded.ranges \in Maps /\ loaded.dev \in MapDisks /\ mapSaid = "none"
      /\ range \in 1 .. Len(loaded.ranges) /\ read \in Seq(Contents)
  BY <1>a DEF MapInv, Reading, LoadedIsFor
<1>1. CASE VerifySays("FAIL") /\ UNCHANGED read
  BY <1>1, <1>a, <1>b DEF VerifySays, MapInv, Reading, Verified
<1> DEFINE f == loaded.ranges[range].first
           b == f + Len(read)
<1>2. CASE b \in Blocks /\ read' = Append(read, PageOrBlock(loaded.dev, b)) /\ UNCHANGED <<mapPc, mapSaid>>
  <2>a. f \in Nat
    BY <1>c, RangeTypes
  <2>1. PageOrBlock(loaded.dev, b) \in Contents
    BY <1>2, <1>c DEF PageOrBlock, MapInv, MapType, Disk
  <2>2. read' \in Seq(Contents) /\ Len(read') = Len(read) + 1 /\ Len(read) \in Nat
        /\ read'[Len(read) + 1] = PageOrBlock(loaded.dev, b) /\ \A k \in 1 .. Len(read) : read'[k] = read[k]
    BY <1>2, <1>c, <2>1
  <2>3. ASSUME quiet = TRUE PROVE ReadIsHeld(f)'
    <3>1. PageOrBlock(loaded.dev, b) = medium[loaded.dev][b]
      BY <1>2, <1>a, <2>3 DEF PageOrBlock, MapInv, Reading
    <3>2. ReadIsHeld(f)
      BY <1>a, <2>3 DEF MapInv, Reading
    <3> HIDE DEF f
    <3>3. ASSUME NEW k \in 1 .. Len(read')
          PROVE  f + (k - 1) \in Blocks /\ read'[k] = medium[loaded.dev][f + (k - 1)]
      <4>1. CASE k = Len(read) + 1
        <5>1. f + (k - 1) = b
          BY <2>a, <2>2, <4>1
        <5> QED BY <1>2, <2>2, <3>1, <4>1, <5>1
      <4>2. CASE k # Len(read) + 1
        <5>1. k \in 1 .. Len(read)
          BY <2>2, <4>2
        <5> QED BY <2>2, <3>2, <5>1 DEF ReadIsHeld
      <4> QED BY <4>1, <4>2
    <3>4. f' = f
      BY <1>a DEF f
    <3> QED BY <1>a, <3>3, <3>4 DEF ReadIsHeld
  <2>4. ASSUME NEW r PROVE Held(r) => Held(r)'
    BY <1>a DEF Held
  <2>5. Reading'
    BY <1>2, <1>a, <1>c, <2>2, <2>3, <2>4 DEF MapInv, Reading
  <2>6. Verified'
    BY <1>2, <1>c DEF Verified
  <2> QED BY <1>2, <1>a, <1>b, <2>5, <2>6 DEF MapInv
<1> QED BY <1>1, <1>2 DEF VerifyRead

\* A digest that matches is of every block of the range: the length that was
\* computed is the range's, or the hash's is not what was read.
LEMMA WholeRange ==
  ASSUME NEW m \in Maps, NEW i \in 1 .. Len(m), m[i].first <= m[i].last,
         read \in Seq(Contents), Len(read) = RangeBlocks(m[i]), read = m[i].sum
  PROVE  Len(read) = m[i].last - m[i].first + 1
<1> DEFINE n == m[i].last - m[i].first + 1
           M == 2 ^ BlockBits
<1>1. n \in Nat /\ n > 0 /\ M \in Nat
  <2>1. PICK f \in Nat, l \in Nat : f = m[i].first /\ l = m[i].last
    BY RangeTypes
  <2>2. n = l - f + 1 /\ f <= l
    BY <2>1
  <2>3. M \in Nat
    BY BlockMapAssumption
  <2> HIDE DEF n, M
  <2> QED BY <2>2, <2>3
<1>2. CASE n >= M
  BY <1>2, HashAssumption
<1>3. CASE n < M
  <2>1. Len(read) = n % M
    BY DEF RangeBlocks
  <2> HIDE DEF n, M
  <2>2. M \in Nat \ {0} /\ n \div M \in Nat /\ n % M \in 0 .. M - 1 /\ n = M * (n \div M) + (n % M)
    BY <1>1, <1>3
  <2>3. n \div M = 0
    <3> DEFINE q == n \div M
               r == n % M
    <3>1. q \in Nat /\ r \in Nat /\ n = M * q + r
      BY <2>2
    <3> HIDE DEF q, r
    <3>2. ASSUME q # 0 PROVE FALSE
      <4>1. q - 1 \in Nat /\ q = (q - 1) + 1
        BY <3>1, <3>2
      <4>2. PICK e \in Nat : q = e + 1
        BY <4>1
      <4>3. M * q = M * e + M /\ M * e \in Nat
        BY <1>1, <4>2
      <4> QED BY <1>1, <1>3, <3>1, <4>3
    <3> QED BY <3>2 DEF q
  <2>4. n % M = n
    BY <1>1, <2>2, <2>3
  <2> QED BY <2>1, <2>4 DEF n
<1> QED BY <1>1, <1>2, <1>3

\* The digest is compared: what is behind it is now held.
LEMMA RangeKeeps ==
  ASSUME MapInv, VerifyRange
  PROVE  MapInv'
<1> DEFINE r == loaded.ranges[range]
<1>a. /\ UNCHANGED <<mapBuf, loaded, medium, cached, mapFor, quiet>> /\ mapPc = "read"
      /\ Len(read) = RangeBlocks(r) /\ range' = range + 1 /\ read' = <<>>
  BY DEF VerifyRange
<1>b. MapType' /\ LoadedIsFor'
  BY <1>a DEF MapInv, MapType, LoadedIsFor, WellFormed
<1>c. /\ loaded.ranges # <<>> /\ loaded.ranges \in Maps /\ loaded.dev \in MapDisks /\ mapSaid = "none"
      /\ range \in 1 .. Len(loaded.ranges) /\ read \in Seq(Contents) /\ WellFormed(loaded.ranges)
  BY <1>a DEF MapInv, Reading, LoadedIsFor
<1>d. r.first \in Nat /\ r.last \in Nat /\ r.first <= r.last /\ Len(loaded.ranges) \in Nat
  BY <1>c, RangeTypes DEF WellFormed
<1>1. CASE read # r.sum
  <2>1. VerifySays("FAIL")
    BY <1>1 DEF VerifyRange
  <2> QED BY <1>a, <1>b, <2>1 DEF VerifySays, MapInv, Reading, Verified
<1>2. CASE read = r.sum
  <2>1. Len(read) = r.last - r.first + 1
    BY <1>2, <1>a, <1>c, <1>d, WholeRange
  <2>2. ASSUME quiet = TRUE PROVE Held(r)
    <3>1. ReadIsHeld(r.first)
      BY <1>a, <2>2 DEF MapInv, Reading
    <3>2. ASSUME NEW b \in r.first .. r.last
          PROVE  b \in Blocks /\ medium[loaded.dev][b] = r.sum[b - r.first + 1]
      <4> DEFINE k == b - r.first + 1
      <4>1. k \in 1 .. Len(read) /\ r.first + (k - 1) = b
        <5> DEFINE first == r.first
                   last == r.last
        <5>1. first \in Nat /\ last \in Nat /\ b \in first .. last /\ Len(read) = last - first + 1
              /\ k = b - first + 1
          BY <1>d, <2>1
        <5> HIDE DEF first, last, k
        <5>2. k \in 1 .. Len(read) /\ first + (k - 1) = b
          BY <5>1
        <5> QED BY <5>2 DEF first
      <4> HIDE DEF k
      <4>2. b \in Blocks /\ read[k] = medium[loaded.dev][b]
        BY <3>1, <4>1 DEF ReadIsHeld
      <4> QED BY <1>2, <4>2 DEF k
    <3>3. r.last \in r.first .. r.last
      BY <1>d
    <3> QED BY <3>2, <3>3 DEF Held
  <2>3. ASSUME quiet = TRUE PROVE \A i \in 1 .. range : Held(loaded.ranges[i])'
    <3>1. \A i \in 1 .. range - 1 : Held(loaded.ranges[i])
      BY <1>a, <2>3 DEF MapInv, Reading
    <3>2. \A i \in 1 .. range : Held(loaded.ranges[i])
      <4> TAKE i \in 1 .. range
      <4>1. CASE i = range
        BY <2>2, <2>3, <4>1
      <4>2. CASE i # range
        <5>1. i \in 1 .. range - 1
          BY <1>c, <1>d, <4>2
        <5> QED BY <3>1, <5>1
      <4> QED BY <4>1, <4>2
    <3> QED BY <1>a, <3>2 DEF Held
  <2>4. CASE range = Len(loaded.ranges)
    <3>1. VerifySays("OKAY")
      BY <1>2, <2>4 DEF VerifyRange
    <3> QED BY <1>a, <1>b, <1>c, <2>3, <2>4, <3>1 DEF VerifySays, MapInv, Reading, Verified
  <2>5. CASE range # Len(loaded.ranges)
    <3>1. UNCHANGED <<mapPc, mapSaid>>
      BY <1>2, <2>5 DEF VerifyRange
    <3>2. range' \in 1 .. Len(loaded.ranges) /\ range' - 1 = range /\ read' \in Seq(Contents) /\ Len(read') = 0
      BY <1>a, <1>c, <1>d, <2>5
    <3>3. ReadIsHeld(loaded.ranges[range].first)'
      BY <3>2 DEF ReadIsHeld
    <3>4. Reading'
      BY <1>a, <1>c, <2>3, <3>1, <3>2, <3>3 DEF MapInv, Reading
    <3> QED BY <1>a, <1>b, <1>c, <3>1, <3>4 DEF MapInv, Verified
  <2> QED BY <2>4, <2>5
<1> QED BY <1>1, <1>2

\* A worker's write to the disk ends the quiet; one to another disk touches nothing.
LEMMA WriteKeeps ==
  ASSUME MapInv, NEW d \in MapDisks, NEW b \in Blocks, DiskWritten(d, b)
  PROVE  MapInv'
<1>a. /\ UNCHANGED <<mapBuf, loaded, mapPc, range, read, mapFor, mapSaid>>
      /\ quiet' = (quiet /\ d # loaded.dev)
  BY DEF DiskWritten
<1>1. PICK c \in Contents :
         \/ medium' = [medium EXCEPT ![d][b] = c] /\ cached' = [cached EXCEPT ![d][b] = NoMap]
         \/ cached' = [cached EXCEPT ![d][b] = c] /\ UNCHANGED medium
  BY DEF DiskWritten
<1>2. MapType'
  <2>1. medium[d] \in Disk /\ cached[d] \in [Blocks -> Contents \union {NoMap}]
    BY DEF MapInv, MapType
  <2>2. medium' \in [MapDisks -> Disk]
    <3>1. [medium[d] EXCEPT ![b] = c] \in Disk
      BY <2>1 DEF Disk
    <3>2. medium' = medium \/ medium' = [medium EXCEPT ![d] = [medium[d] EXCEPT ![b] = c]]
      BY <1>1
    <3> QED BY <3>1, <3>2 DEF MapInv, MapType
  <2>3. cached' \in [MapDisks -> [Blocks -> Contents \union {NoMap}]]
    <3>1. PICK x \in Contents \union {NoMap} : cached' = [cached EXCEPT ![d] = [cached[d] EXCEPT ![b] = x]]
      BY <1>1
    <3>2. [cached[d] EXCEPT ![b] = x] \in [Blocks -> Contents \union {NoMap}]
      BY <2>1
    <3> QED BY <3>1, <3>2 DEF MapInv, MapType
  <2> QED BY <1>a, <2>2, <2>3 DEF MapInv, MapType
<1>3. LoadedIsFor'
  BY <1>a DEF MapInv, LoadedIsFor, WellFormed
<1>4. CASE d = loaded.dev
  <2>1. quiet' = FALSE
    BY <1>a, <1>4
  <2> QED BY <1>a, <1>2, <1>3, <2>1 DEF MapInv, Reading, Verified
<1>5. CASE d # loaded.dev
  <2>1. quiet' = quiet
    BY <1>a, <1>5 DEF MapInv
  <2>2. ASSUME loaded.dev \in MapDisks
        PROVE  medium'[loaded.dev] = medium[loaded.dev] /\ cached'[loaded.dev] = cached[loaded.dev]
    BY <1>1, <1>5, <2>2 DEF MapInv, MapType
  <2>3. loaded.ranges # <<>> => loaded.dev \in MapDisks
    BY DEF MapInv, LoadedIsFor
  <2>4. Reading'
    BY <1>a, <2>1, <2>2, <2>3, SMTT(40) DEF MapInv, Reading, Held, ReadIsHeld
  <2>5. Verified'
    BY <1>a, <2>1, <2>2, <2>3 DEF MapInv, Verified, Held
  <2> QED BY <1>a, <1>2, <1>3, <2>1, <2>4, <2>5 DEF MapInv
<1> QED BY <1>4, <1>5

\* The loaded map and what has been read, at any time.
LEMMA MapInvHolds == BlockMapSpec => []MapInv
<1>1. ASSUME MapInv, UNCHANGED mapVars PROVE MapInv'
  BY <1>1 DEF mapVars, MapInv, MapType, LoadedIsFor, WellFormed, Reading, Verified, Held, ReadIsHeld
<1>2. MapInv /\ [BlockMapNext]_mapVars => MapInv'
  BY <1>1, CommandsKeep, VerifyKeeps, ReadKeeps, RangeKeeps, WriteKeeps DEF BlockMapNext, VerifyStep
<1> QED BY MapInvInit, <1>2, PTL DEF BlockMapSpec

\* With nobody writing the disk since it began, bmap-verify's OKAY means that
\* the storage holds every range of the map last loaded for this disk, for any
\* disk, any map, and any number of ranges, also where the length of a range
\* overflows.
THEOREM VerifiedAlwaysHeld == BlockMapSpec => []VerifiedMeansHeld
<1>1. MapInv => VerifiedMeansHeld
  <2> SUFFICES ASSUME MapInv, mapSaid = "OKAY", quiet
               PROVE  /\ mapFor[loaded.dev] # NoMap
                      /\ \A i \in DOMAIN mapFor[loaded.dev] : Held(mapFor[loaded.dev][i])
    BY DEF VerifiedMeansHeld, Held
  <2>1. quiet = TRUE
    BY DEF MapInv
  <2>2. /\ loaded.ranges # <<>> /\ \A i \in 1 .. Len(loaded.ranges) : Held(loaded.ranges[i])
        /\ loaded.ranges \in Maps /\ WellFormed(loaded.ranges) /\ mapFor[loaded.dev] = loaded.ranges
    BY <2>1 DEF MapInv, Verified, LoadedIsFor
  <2>3. DOMAIN loaded.ranges = 1 .. Len(loaded.ranges)
    BY <2>2, BlockMapAssumption
  <2> QED BY <2>2, <2>3 DEF WellFormed
<1> QED BY MapInvHolds, <1>1, PTL
============================================================================
