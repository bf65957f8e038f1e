----------------------------- MODULE HostProofs -----------------------------
(***************************************************************************)
(* The host's side.  First, an image on its way from a file on the host to *)
(* the blocks of the device's partition (SparseFile), for every block      *)
(* size, image, limit and kind of image.  Then the list of tasks that      *)
(* flashall and update make and carry out (HostPlan), for every plan, mode *)
(* and pair of download limits.                                            *)
(***************************************************************************)
EXTENDS SparseFile, HostPlan, FiniteSetTheorems, SequenceTheorems, WellFoundedInduction, TLAPS

----------------------------------------------------------------------------
(* Numbers.                                                                *)

\* A set of naturals that is not empty has a least element.
LEMMA LeastElement ==
  ASSUME NEW S \in SUBSET Nat, S # {}
  PROVE  \E m \in S : \A n \in S : m <= n
<1> DEFINE R == OpToRel(<, Nat)
<1>1. IsWellFoundedOn(R, Nat)
  BY NatLessThanWellFounded
<1>2. \A x, y \in Nat : y < x => <<y, x>> \in R
  BY DEF OpToRel
<1> HIDE DEF R
<1>3. PICK m \in S : \A n \in S : ~(<<n, m>> \in R)
  BY <1>1, WFMin
<1>4. \A n \in S : ~(n < m)
  BY <1>2, <1>3
<1>5. \A n \in S : m <= n
  BY <1>4
<1> QED BY <1>5

\* Induction on the naturals, for a set of them.
LEMMA InductionOnNat ==
  ASSUME NEW Q \in SUBSET Nat, 0 \in Q, \A n \in Q : n + 1 \in Q
  PROVE  Q = Nat
<1> SUFFICES ASSUME Nat \ Q # {} PROVE FALSE
  OBVIOUS
<1>1. PICK m \in Nat \ Q : \A n \in Nat \ Q : m <= n
  BY LeastElement
<1>2. m # 0 /\ m - 1 \in Nat /\ ~(m <= m - 1)
  OBVIOUS
<1>3. m - 1 \in Q
  BY <1>1, <1>2
<1>4. (m - 1) + 1 \in Q
  BY <1>3
<1> QED BY <1>4

\* A block has at least four bytes, and an image at least one block.
LEMMA Sizes ==
  /\ BlockSize \in Nat /\ BlockSize >= 4
  /\ ImageBlocks \in Nat /\ ImageBlocks >= 1
<1>1. BlockSize \in Nat /\ BlockSize > 0 /\ BlockSize % 4 = 0
  BY SparseAssumption
<1>2. BlockSize \notin {1, 2, 3}
  <2>1. 1 % 4 = 1 /\ 2 % 4 = 2 /\ 3 % 4 = 3
    OBVIOUS
  <2> QED BY <1>1, <2>1
<1> QED BY <1>1, <1>2, SparseAssumption

\* Multiples of the block size are as far apart as the blocks.
LEMMA Multiples ==
  ASSUME NEW p \in Nat, NEW q \in Nat, p < q
  PROVE  /\ p * BlockSize \in Nat /\ q * BlockSize \in Nat
         /\ p * BlockSize + BlockSize <= q * BlockSize
<1>1. BlockSize \in Nat /\ BlockSize >= 4
  BY Sizes
<1>2. PICK d \in Nat : q = p + 1 + d
  <2>1. q - p - 1 \in Nat /\ q = p + 1 + (q - p - 1)
    OBVIOUS
  <2> QED BY <2>1
<1>3. /\ q * BlockSize = p * BlockSize + BlockSize + d * BlockSize
      /\ d * BlockSize \in Nat /\ p * BlockSize \in Nat
  BY <1>1, <1>2
<1> QED BY <1>3, <1>1

\* DIV_ROUND_UP, by the two bounds that characterise it.
LEMMA DivUpBounds ==
  ASSUME NEW n \in Nat \ {0}
  PROVE  /\ DivUp(n) \in Nat /\ DivUp(n) >= 1 /\ DivUp(n) * BlockSize \in Nat
         /\ n <= DivUp(n) * BlockSize /\ DivUp(n) * BlockSize < n + BlockSize
<1> DEFINE q == (n + BlockSize - 1) \div BlockSize
<1>1. BlockSize \in Nat /\ BlockSize >= 4
  BY Sizes
<1>2. q \in Nat /\ q * BlockSize <= n + BlockSize - 1 /\ n + BlockSize - 1 < q * BlockSize + BlockSize
  BY <1>1
<1>3. DivUp(n) = q
  BY DEF DivUp
<1> HIDE DEF q
<1>4. q * BlockSize \in Nat /\ n <= q * BlockSize /\ q * BlockSize < n + BlockSize
  BY <1>1, <1>2
<1>5. q # 0
  BY <1>4, <1>1
<1> QED BY <1>2, <1>3, <1>4, <1>5

\* DIV_ROUND_UP, by the bounds it lies in.
LEMMA DivUpIs ==
  ASSUME NEW n \in Nat \ {0}, NEW q \in Nat, n <= q * BlockSize, q * BlockSize < n + BlockSize
  PROVE  DivUp(n) = q
<1>1. BlockSize \in Nat /\ BlockSize >= 4
  BY Sizes
<1>2. /\ DivUp(n) \in Nat /\ DivUp(n) * BlockSize \in Nat
      /\ n <= DivUp(n) * BlockSize /\ DivUp(n) * BlockSize < n + BlockSize
  BY DivUpBounds
<1>3. ~(DivUp(n) < q)
  <2> SUFFICES ASSUME DivUp(n) < q PROVE FALSE
    OBVIOUS
  <2>1. DivUp(n) * BlockSize + BlockSize <= q * BlockSize /\ q * BlockSize \in Nat
    BY <1>2, Multiples
  <2> QED BY <2>1, <1>1, <1>2
<1>4. ~(q < DivUp(n))
  <2> SUFFICES ASSUME q < DivUp(n) PROVE FALSE
    OBVIOUS
  <2>1. q * BlockSize + BlockSize <= DivUp(n) * BlockSize /\ q * BlockSize \in Nat
    BY <1>2, Multiples
  <2> QED BY <2>1, <1>1, <1>2
<1> QED BY <1>2, <1>3, <1>4

\* Whole blocks in front of n bytes only add themselves.
LEMMA DivUpPlus ==
  ASSUME NEW n \in Nat \ {0}, NEW k \in Nat
  PROVE  k * BlockSize \in Nat /\ DivUp(n + k * BlockSize) = DivUp(n) + k
<1>1. BlockSize \in Nat /\ BlockSize >= 4
  BY Sizes
<1>2. /\ DivUp(n) \in Nat /\ DivUp(n) * BlockSize \in Nat
      /\ n <= DivUp(n) * BlockSize /\ DivUp(n) * BlockSize < n + BlockSize
  BY DivUpBounds
<1>3. k * BlockSize \in Nat /\ (DivUp(n) + k) * BlockSize = DivUp(n) * BlockSize + k * BlockSize
  BY <1>1, <1>2
<1>4. PICK m \in Nat \ {0} : m = n + k * BlockSize
  <2>1. n + k * BlockSize \in Nat \ {0}
    BY <1>3
  <2> QED BY <2>1
<1>5. PICK q \in Nat : q = DivUp(n) + k
  BY <1>2
<1>6. m <= q * BlockSize /\ q * BlockSize < m + BlockSize
  BY <1>1, <1>2, <1>3, <1>4, <1>5
<1>7. DivUp(m) = q
  BY <1>6, DivUpIs
<1> QED BY <1>3, <1>4, <1>5, <1>7

\* DIV_ROUND_UP of whole blocks.
LEMMA DivUpWhole ==
  ASSUME NEW k \in Nat \ {0}
  PROVE  k * BlockSize \in Nat \ {0} /\ DivUp(k * BlockSize) = k
<1>1. BlockSize \in Nat /\ BlockSize >= 4
  BY Sizes
<1>2. k * BlockSize \in Nat /\ k * BlockSize >= BlockSize
  <2>1. 0 * BlockSize + BlockSize <= k * BlockSize /\ k * BlockSize \in Nat
    BY Multiples
  <2> QED BY <2>1, <1>1
<1>3. PICK m \in Nat \ {0} : m = k * BlockSize
  BY <1>1, <1>2
<1>4. DivUp(m) = k
  BY <1>1, <1>3, DivUpIs
<1> QED BY <1>3, <1>4

\* n bytes that fit k blocks take no more than k.
LEMMA DivUpMost ==
  ASSUME NEW n \in Nat \ {0}, NEW k \in Nat, n <= k * BlockSize
  PROVE  DivUp(n) <= k /\ DivUp(n) * BlockSize <= k * BlockSize
<1>1. BlockSize \in Nat /\ BlockSize >= 4
  BY Sizes
<1>2. /\ DivUp(n) \in Nat /\ DivUp(n) * BlockSize \in Nat
      /\ n <= DivUp(n) * BlockSize /\ DivUp(n) * BlockSize < n + BlockSize
  BY DivUpBounds
<1>3. ~(k < DivUp(n))
  <2> SUFFICES ASSUME k < DivUp(n) PROVE FALSE
    OBVIOUS
  <2>1. k * BlockSize + BlockSize <= DivUp(n) * BlockSize /\ k * BlockSize \in Nat
    BY <1>2, Multiples
  <2> QED BY <2>1, <1>1, <1>2
<1>4. CASE DivUp(n) = k
  BY <1>4, <1>2
<1>5. CASE DivUp(n) < k
  <2>1. DivUp(n) * BlockSize + BlockSize <= k * BlockSize /\ k * BlockSize \in Nat
    BY <1>2, <1>5, Multiples
  <2> QED BY <2>1, <1>1, <1>2, <1>5
<1> QED BY <1>2, <1>3, <1>4, <1>5

\* ALIGN_DOWN.
LEMMA AlignDownIs ==
  ASSUME NEW n \in Nat
  PROVE  \E k \in Nat : /\ AlignDown(n) = k * BlockSize /\ k = AlignDown(n) \div BlockSize
                        /\ k * BlockSize \in Nat
                        /\ k * BlockSize <= n /\ n < k * BlockSize + BlockSize
<1> DEFINE k == n \div BlockSize
<1>1. BlockSize \in Nat /\ BlockSize >= 4
  BY Sizes
<1>2. k \in Nat /\ k * BlockSize <= n /\ n < k * BlockSize + BlockSize
  BY <1>1
<1>3. AlignDown(n) = BlockSize * k
  BY DEF AlignDown
<1> HIDE DEF k
<1>4. AlignDown(n) = k * BlockSize /\ k * BlockSize \in Nat
  BY <1>1, <1>2, <1>3
<1>5. (k * BlockSize) \div BlockSize = k
  BY <1>1, <1>2
<1> QED BY <1>2, <1>4, <1>5

----------------------------------------------------------------------------
(* Backed blocks, what they hold, and lists of them.                       *)

Types == {"fd", "fill", "data"}
Block == [block : Nat, len : Nat \ {0}, type : Types, off : Nat]
EndOf(bb) == bb.block + DivUp(bb.len)

\* The block numbers a backed block covers, each with what it puts there.
BlockCells(bb) == {<<b, CellAt(bb, b)>> : b \in bb.block .. EndOf(bb) - 1}
CellsOf(l) == UNION {BlockCells(l[i]) : i \in 1 .. Len(l)}

\* The blocks of the one list end before those of the other start.
Before(l, m) == \A i \in 1 .. Len(l), j \in 1 .. Len(m) : EndOf(l[i]) <= m[j].block
\* A list in order, inside the image.
Good(l) ==
  /\ l \in Seq(Block)
  /\ \A i, j \in 1 .. Len(l) : i < j => EndOf(l[i]) <= l[j].block
  /\ \A i \in 1 .. Len(l) : EndOf(l[i]) <= ImageBlocks

\* A backed block covers at least one block.
LEMMA BlockFacts ==
  ASSUME NEW x \in Block
  PROVE  /\ x.block \in Nat /\ x.len \in Nat \ {0} /\ x.type \in Types /\ x.off \in Nat
         /\ DivUp(x.len) \in Nat /\ EndOf(x) \in Nat /\ x.block < EndOf(x)
         /\ x = Backed(x.block, x.len, x.type, x.off)
<1>1. /\ x.block \in Nat /\ x.len \in Nat \ {0} /\ x.type \in Types /\ x.off \in Nat
      /\ x = Backed(x.block, x.len, x.type, x.off)
  BY DEF Block, Backed
<1>2. DivUp(x.len) \in Nat /\ DivUp(x.len) >= 1
  BY <1>1, DivUpBounds
<1> QED BY <1>1, <1>2 DEF EndOf

\* The fields of a backed block.
LEMMA BackedFacts ==
  ASSUME NEW block \in Nat, NEW len \in Nat \ {0}, NEW type \in Types, NEW off \in Nat
  PROVE  /\ Backed(block, len, type, off) \in Block
         /\ Backed(block, len, type, off).block = block /\ Backed(block, len, type, off).len = len
         /\ Backed(block, len, type, off).type = type /\ Backed(block, len, type, off).off = off
         /\ EndOf(Backed(block, len, type, off)) = block + DivUp(len)
BY DEF Backed, Block, EndOf

\* A list of one, and of none.
LEMMA ListOfOne ==
  ASSUME NEW x \in Block
  PROVE  /\ <<x>> \in Seq(Block) /\ CellsOf(<<x>>) = BlockCells(x)
         /\ Good(<<x>>) <=> EndOf(x) <= ImageBlocks
<1>1. <<x>> \in Seq(Block) /\ Len(<<x>>) = 1 /\ <<x>>[1] = x
  OBVIOUS
<1>2. CellsOf(<<x>>) = BlockCells(x)
  <2>1. 1 .. 1 = {1}
    OBVIOUS
  <2> HIDE DEF BlockCells
  <2> QED BY <1>1, <2>1 DEF CellsOf
<1>3. Good(<<x>>) <=> EndOf(x) <= ImageBlocks
  <2> HIDE DEF EndOf
  <2> QED BY <1>1 DEF Good
<1> QED BY <1>1, <1>2, <1>3

\* An empty list is in order and covers nothing.
LEMMA EmptyList == Good(<<>>) /\ CellsOf(<<>>) = {} /\ <<>> \in Seq(Block)
BY DEF Good, CellsOf

\* Lists one behind the other.
LEMMA Concat ==
  ASSUME NEW l \in Seq(Block), NEW m \in Seq(Block)
  PROVE  /\ l \o m \in Seq(Block) /\ Len(l \o m) = Len(l) + Len(m)
         /\ \A i \in 1 .. Len(l) : (l \o m)[i] = l[i]
         /\ \A i \in 1 .. Len(m) : (l \o m)[Len(l) + i] = m[i]
         /\ \A i \in 1 .. Len(l) + Len(m) : i \in 1 .. Len(l) \/ (i - Len(l) \in 1 .. Len(m) /\ i = Len(l) + (i - Len(l)))
OBVIOUS

\* Two lists together cover what each covers.
LEMMA CellsConcat ==
  ASSUME NEW l \in Seq(Block), NEW m \in Seq(Block)
  PROVE  CellsOf(l \o m) = CellsOf(l) \cup CellsOf(m)
<1>1. ASSUME NEW c \in CellsOf(l \o m) PROVE c \in CellsOf(l) \cup CellsOf(m)
  <2>1. PICK i \in 1 .. Len(l) + Len(m) : c \in BlockCells((l \o m)[i])
    BY Concat DEF CellsOf
  <2>2. CASE i \in 1 .. Len(l)
    <3>1. c \in BlockCells(l[i])
      BY <2>1, <2>2, Concat
    <3> QED BY <2>2, <3>1 DEF CellsOf
  <2>3. CASE i - Len(l) \in 1 .. Len(m) /\ i = Len(l) + (i - Len(l))
    <3>1. c \in BlockCells(m[i - Len(l)])
      BY <2>1, <2>3, Concat
    <3> QED BY <2>3, <3>1 DEF CellsOf
  <2> QED BY <2>2, <2>3, Concat
<1>2. ASSUME NEW c \in CellsOf(l) PROVE c \in CellsOf(l \o m)
  <2>1. PICK i \in 1 .. Len(l) : c \in BlockCells(l[i])
    BY DEF CellsOf
  <2>2. i \in 1 .. Len(l \o m) /\ c \in BlockCells((l \o m)[i])
    BY <2>1, Concat
  <2> QED BY <2>2 DEF CellsOf
<1>3. ASSUME NEW c \in CellsOf(m) PROVE c \in CellsOf(l \o m)
  <2>1. PICK i \in 1 .. Len(m) : c \in BlockCells(m[i])
    BY DEF CellsOf
  <2>2. Len(l) + i \in 1 .. Len(l \o m) /\ c \in BlockCells((l \o m)[Len(l) + i])
    BY <2>1, Concat
  <2> QED BY <2>2 DEF CellsOf
<1> QED BY <1>1, <1>2, <1>3

\* Two lists together are in order when each is, and one is before the other.
LEMMA GoodConcat ==
  ASSUME NEW l \in Seq(Block), NEW m \in Seq(Block)
  PROVE  Good(l \o m) <=> Good(l) /\ Good(m) /\ Before(l, m)
<1> USE Concat
<1>1. ASSUME Good(l \o m) PROVE Good(l)
  <2>1. ASSUME NEW i \in 1 .. Len(l), NEW j \in 1 .. Len(l), i < j PROVE EndOf(l[i]) <= l[j].block
    <3>1. i \in 1 .. Len(l \o m) /\ j \in 1 .. Len(l \o m)
      OBVIOUS
    <3>2. EndOf((l \o m)[i]) <= (l \o m)[j].block
      BY <2>1, <3>1, <1>1 DEF Good
    <3> QED BY <3>2
  <2>2. ASSUME NEW i \in 1 .. Len(l) PROVE EndOf(l[i]) <= ImageBlocks
    <3>1. i \in 1 .. Len(l \o m)
      OBVIOUS
    <3>2. EndOf((l \o m)[i]) <= ImageBlocks
      BY <3>1, <1>1 DEF Good
    <3> QED BY <3>2
  <2> QED BY <2>1, <2>2 DEF Good
<1>2. ASSUME Good(l \o m) PROVE Good(m)
  <2>1. ASSUME NEW i \in 1 .. Len(m), NEW j \in 1 .. Len(m), i < j PROVE EndOf(m[i]) <= m[j].block
    <3>1. /\ Len(l) + i \in 1 .. Len(l \o m) /\ Len(l) + j \in 1 .. Len(l \o m) /\ Len(l) + i < Len(l) + j
      BY <2>1
    <3>2. EndOf((l \o m)[Len(l) + i]) <= (l \o m)[Len(l) + j].block
      BY <3>1, <1>2 DEF Good
    <3> QED BY <3>2
  <2>2. ASSUME NEW i \in 1 .. Len(m) PROVE EndOf(m[i]) <= ImageBlocks
    <3>1. Len(l) + i \in 1 .. Len(l \o m)
      OBVIOUS
    <3>2. EndOf((l \o m)[Len(l) + i]) <= ImageBlocks
      BY <3>1, <1>2 DEF Good
    <3> QED BY <3>2
  <2> QED BY <2>1, <2>2 DEF Good
<1>3. ASSUME Good(l \o m) PROVE Before(l, m)
  <2>1. ASSUME NEW i \in 1 .. Len(l), NEW j \in 1 .. Len(m) PROVE EndOf(l[i]) <= m[j].block
    <3>1. i \in 1 .. Len(l \o m) /\ Len(l) + j \in 1 .. Len(l \o m) /\ i < Len(l) + j
      OBVIOUS
    <3>2. EndOf((l \o m)[i]) <= (l \o m)[Len(l) + j].block
      BY <3>1, <1>3 DEF Good
    <3> QED BY <3>2
  <2> QED BY <2>1 DEF Before
<1>4. ASSUME Good(l), Good(m), Before(l, m) PROVE Good(l \o m)
  <2>1. ASSUME NEW i \in 1 .. Len(l) + Len(m), NEW j \in 1 .. Len(l) + Len(m), i < j
        PROVE  EndOf((l \o m)[i]) <= (l \o m)[j].block
    <3>1. CASE j \in 1 .. Len(l)
      <4>1. i \in 1 .. Len(l)
        BY <2>1, <3>1
      <4> QED BY <2>1, <3>1, <4>1, <1>4 DEF Good
    <3>2. CASE i \in 1 .. Len(l) /\ j - Len(l) \in 1 .. Len(m)
      <4>1. EndOf(l[i]) <= m[j - Len(l)].block
        BY <3>2, <1>4 DEF Before
      <4>2. (l \o m)[i] = l[i] /\ (l \o m)[Len(l) + (j - Len(l))] = m[j - Len(l)]
        BY <3>2, SMTT(40)
      <4> QED BY <4>1, <4>2
    <3>3. CASE i - Len(l) \in 1 .. Len(m) /\ j - Len(l) \in 1 .. Len(m)
      <4>1. EndOf(m[i - Len(l)]) <= m[j - Len(l)].block
        BY <2>1, <3>3, <1>4, SMTT(40) DEF Good
      <4>2. (l \o m)[Len(l) + (i - Len(l))] = m[i - Len(l)] /\ (l \o m)[Len(l) + (j - Len(l))] = m[j - Len(l)]
        BY <3>3, SMTT(40)
      <4> QED BY <4>1, <4>2, SMTT(40)
    <3> QED BY <2>1, <3>1, <3>2, <3>3
  <2>2. ASSUME NEW i \in 1 .. Len(l) + Len(m) PROVE EndOf((l \o m)[i]) <= ImageBlocks
    <3>1. CASE i \in 1 .. Len(l)
      BY <3>1, <1>4 DEF Good
    <3>2. CASE i - Len(l) \in 1 .. Len(m)
      <4>1. EndOf(m[i - Len(l)]) <= ImageBlocks
        BY <3>2, <1>4 DEF Good
      <4>2. (l \o m)[Len(l) + (i - Len(l))] = m[i - Len(l)]
        BY <3>2
      <4> QED BY <4>1, <4>2
    <3> QED BY <3>1, <3>2
  <2> QED BY <2>1, <2>2, SMTT(40) DEF Good
<1> QED BY <1>1, <1>2, <1>3, <1>4

\* Being before is a matter of the parts.
LEMMA BeforeConcat ==
  ASSUME NEW l \in Seq(Block), NEW m \in Seq(Block), NEW n \in Seq(Block)
  PROVE  /\ Before(l, m \o n) <=> Before(l, m) /\ Before(l, n)
         /\ Before(l \o m, n) <=> Before(l, n) /\ Before(m, n)
<1>1. ASSUME Before(l, m \o n) PROVE Before(l, m) /\ Before(l, n)
  <2>1. ASSUME NEW i \in 1 .. Len(l), NEW j \in 1 .. Len(m) PROVE EndOf(l[i]) <= m[j].block
    <3>1. j \in 1 .. Len(m \o n) /\ (m \o n)[j] = m[j]
      BY Concat
    <3>2. EndOf(l[i]) <= (m \o n)[j].block
      BY <3>1, <1>1 DEF Before
    <3> QED BY <3>1, <3>2
  <2>2. ASSUME NEW i \in 1 .. Len(l), NEW j \in 1 .. Len(n) PROVE EndOf(l[i]) <= n[j].block
    <3>1. Len(m) + j \in 1 .. Len(m \o n) /\ (m \o n)[Len(m) + j] = n[j]
      BY Concat
    <3>2. EndOf(l[i]) <= (m \o n)[Len(m) + j].block
      BY <3>1, <1>1 DEF Before
    <3> QED BY <3>1, <3>2
  <2> QED BY <2>1, <2>2 DEF Before
<1>2. ASSUME Before(l, m), Before(l, n) PROVE Before(l, m \o n)
  <2>1. ASSUME NEW i \in 1 .. Len(l), NEW j \in 1 .. Len(m) + Len(n) PROVE EndOf(l[i]) <= (m \o n)[j].block
    <3>1. CASE j \in 1 .. Len(m)
      BY <3>1, <1>2, Concat DEF Before
    <3>2. CASE j - Len(m) \in 1 .. Len(n)
      <4>1. (m \o n)[Len(m) + (j - Len(m))] = n[j - Len(m)]
        BY <3>2, Concat
      <4> QED BY <4>1, <3>2, <1>2, SMTT(40) DEF Before
    <3> QED BY <3>1, <3>2, Concat
  <2> QED BY <2>1, Concat DEF Before
<1>3. ASSUME Before(l \o m, n) PROVE Before(l, n) /\ Before(m, n)
  <2>1. ASSUME NEW i \in 1 .. Len(l), NEW j \in 1 .. Len(n) PROVE EndOf(l[i]) <= n[j].block
    <3>1. i \in 1 .. Len(l \o m) /\ (l \o m)[i] = l[i]
      BY Concat
    <3>2. EndOf((l \o m)[i]) <= n[j].block
      BY <3>1, <1>3 DEF Before
    <3> QED BY <3>1, <3>2
  <2>2. ASSUME NEW i \in 1 .. Len(m), NEW j \in 1 .. Len(n) PROVE EndOf(m[i]) <= n[j].block
    <3>1. Len(l) + i \in 1 .. Len(l \o m) /\ (l \o m)[Len(l) + i] = m[i]
      BY Concat
    <3>2. EndOf((l \o m)[Len(l) + i]) <= n[j].block
      BY <3>1, <1>3 DEF Before
    <3> QED BY <3>1, <3>2
  <2> QED BY <2>1, <2>2 DEF Before
<1>4. ASSUME Before(l, n), Before(m, n) PROVE Before(l \o m, n)
  <2>1. ASSUME NEW i \in 1 .. Len(l) + Len(m), NEW j \in 1 .. Len(n) PROVE EndOf((l \o m)[i]) <= n[j].block
    <3>1. CASE i \in 1 .. Len(l)
      BY <3>1, <1>4, Concat DEF Before
    <3>2. CASE i - Len(l) \in 1 .. Len(m)
      <4>1. (l \o m)[Len(l) + (i - Len(l))] = m[i - Len(l)]
        BY <3>2, Concat
      <4> QED BY <4>1, <3>2, <1>4, SMTT(40) DEF Before
    <3> QED BY <3>1, <3>2, Concat
  <2> QED BY <2>1, Concat DEF Before
<1> QED BY <1>1, <1>2, <1>3, <1>4

\* Cutting a backed block after k blocks.
SplitHead(x, k) == Backed(x.block, k * BlockSize, x.type, x.off)
SplitRest(x, k) ==
  Backed(x.block + k, x.len - k * BlockSize, x.type, IF x.type = "fill" THEN x.off ELSE x.off + k * BlockSize)

\* backed_block_split: the two halves meet, within the bounds of the block.
LEMMA SplitFacts ==
  ASSUME NEW x \in Block, NEW k \in Nat \ {0}, k * BlockSize < x.len
  PROVE  /\ SplitHead(x, k) \in Block /\ SplitRest(x, k) \in Block
         /\ EndOf(SplitHead(x, k)) = x.block + k
         /\ EndOf(SplitRest(x, k)) = EndOf(x)
         /\ x.block + k < EndOf(x)
<1>1. BlockSize \in Nat /\ BlockSize >= 4
  BY Sizes
<1>2. k * BlockSize \in Nat \ {0} /\ DivUp(k * BlockSize) = k
  BY DivUpWhole
<1>3. /\ x.block \in Nat /\ x.len \in Nat \ {0} /\ x.type \in Types /\ x.off \in Nat
      /\ DivUp(x.len) \in Nat
  BY BlockFacts
<1>4. PICK rest \in Nat \ {0} : rest = x.len - k * BlockSize
  BY <1>2, <1>3
<1>5. DivUp(rest + k * BlockSize) = DivUp(rest) + k /\ rest + k * BlockSize = x.len
  <2>1. rest + k * BlockSize = x.len
    BY <1>2, <1>3, <1>4
  <2> QED BY <2>1, DivUpPlus
<1>6. DivUp(rest) \in Nat /\ DivUp(rest) >= 1
  BY DivUpBounds
<1>7. PICK off \in Nat : off = IF x.type = "fill" THEN x.off ELSE x.off + k * BlockSize
  BY <1>2, <1>3
<1>8. SplitHead(x, k) \in Block /\ EndOf(SplitHead(x, k)) = x.block + k
  <2>1. PICK c \in Nat \ {0} : c = k * BlockSize
    BY <1>2
  <2>2. /\ Backed(x.block, c, x.type, x.off) \in Block
        /\ EndOf(Backed(x.block, c, x.type, x.off)) = x.block + DivUp(c)
    BY <1>3 DEF Backed, Block, EndOf
  <2> QED BY <2>1, <2>2, <1>2 DEF SplitHead
<1>9. SplitRest(x, k) \in Block /\ EndOf(SplitRest(x, k)) = x.block + k + DivUp(rest)
  <2>1. PICK at \in Nat : at = x.block + k
    BY <1>3
  <2>2. /\ Backed(at, rest, x.type, off) \in Block
        /\ EndOf(Backed(at, rest, x.type, off)) = at + DivUp(rest)
    BY <1>3 DEF Backed, Block, EndOf
  <2>3. SplitRest(x, k) = Backed(at, rest, x.type, off)
    BY <2>1, <1>4, <1>7 DEF SplitRest
  <2> QED BY <2>1, <2>2, <2>3
<1>10. EndOf(x) = x.block + (DivUp(rest) + k)
  BY <1>5 DEF EndOf
<1> QED BY <1>3, <1>6, <1>8, <1>9, <1>10

\* The two halves cover what the block covered.
LEMMA SplitCells ==
  ASSUME NEW x \in Block, NEW k \in Nat \ {0}, k * BlockSize < x.len
  PROVE  BlockCells(x) = BlockCells(SplitHead(x, k)) \cup BlockCells(SplitRest(x, k))
<1> DEFINE y == SplitHead(x, k)
           z == SplitRest(x, k)
<1>1. BlockSize \in Nat /\ BlockSize >= 4
  BY Sizes
<1>2. /\ x.block \in Nat /\ x.len \in Nat \ {0} /\ x.type \in Types /\ x.off \in Nat
      /\ EndOf(x) \in Nat
  BY BlockFacts
<1>3. /\ y.block = x.block /\ y.type = x.type /\ y.off = x.off
      /\ z.block = x.block + k /\ z.type = x.type
      /\ z.off = IF x.type = "fill" THEN x.off ELSE x.off + k * BlockSize
  BY DEF SplitHead, SplitRest, Backed
<1>4. EndOf(y) = x.block + k /\ EndOf(z) = EndOf(x) /\ x.block + k < EndOf(x)
  BY SplitFacts
<1> HIDE DEF y, z
<1>5. ASSUME NEW b \in Nat PROVE CellAt(x, b) = CellAt(y, b)
  BY <1>3 DEF CellAt
<1>6. ASSUME NEW b \in Nat PROVE CellAt(x, b) = CellAt(z, b)
  <2>1. CASE x.type = "fill"
    BY <2>1, <1>3 DEF CellAt
  <2>2. CASE x.type # "fill"
    <3>1. (b - (x.block + k)) * BlockSize = (b - x.block) * BlockSize - k * BlockSize
      BY <1>1, <1>2
    <3>2. PICK p \in Int : p = (b - x.block) * BlockSize
      BY <1>1, <1>2
    <3>3. PICK q \in Int : q = k * BlockSize
      BY <1>1
    <3>4. x.off + q + (p - q) = x.off + p
      BY <1>2
    <3>5. z.off + (b - z.block) * BlockSize = x.off + (b - x.block) * BlockSize
      BY <2>2, <1>3, <3>1, <3>2, <3>3, <3>4
    <3> QED BY <2>2, <1>3, <3>5 DEF CellAt
  <2> QED BY <2>1, <2>2
<1>7. ASSUME NEW c \in BlockCells(x) PROVE c \in BlockCells(y) \cup BlockCells(z)
  <2>1. PICK b \in x.block .. EndOf(x) - 1 : c = <<b, CellAt(x, b)>>
    BY DEF BlockCells
  <2>2. b \in Nat
    BY <1>2
  <2>3. CASE b < x.block + k
    <3>1. b \in y.block .. EndOf(y) - 1
      BY <2>3, <1>2, <1>3, <1>4
    <3> QED BY <3>1, <2>1, <2>2, <1>5 DEF BlockCells
  <2>4. CASE ~(b < x.block + k)
    <3>1. b \in z.block .. EndOf(z) - 1
      BY <2>4, <1>2, <1>3, <1>4
    <3> QED BY <3>1, <2>1, <2>2, <1>6 DEF BlockCells
  <2> QED BY <2>3, <2>4
<1>8. ASSUME NEW c \in BlockCells(y) PROVE c \in BlockCells(x)
  <2>1. PICK b \in y.block .. EndOf(y) - 1 : c = <<b, CellAt(y, b)>>
    BY DEF BlockCells
  <2>2. b \in Nat /\ b \in x.block .. EndOf(x) - 1
    BY <1>2, <1>3, <1>4
  <2> QED BY <2>1, <2>2, <1>5 DEF BlockCells
<1>9. ASSUME NEW c \in BlockCells(z) PROVE c \in BlockCells(x)
  <2>1. PICK b \in z.block .. EndOf(z) - 1 : c = <<b, CellAt(z, b)>>
    BY DEF BlockCells
  <2>2. b \in Nat /\ b \in x.block .. EndOf(x) - 1
    BY <1>2, <1>3, <1>4
  <2> QED BY <2>1, <2>2, <1>6 DEF BlockCells
<1>10. BlockCells(x) = BlockCells(y) \cup BlockCells(z)
  BY <1>7, <1>8, <1>9
<1> QED BY <1>10 DEF y, z

\* merge_bb joins two blocks into one that holds what they held: the test on the
\* lengths and the order of the two make the first a whole number of blocks.
LEMMA JoinFacts ==
  ASSUME NEW a \in Block, NEW b \in Block, EndOf(a) <= b.block, Mergeable(a, b)
  PROVE  /\ [a EXCEPT !.len = @ + b.len] \in Block
         /\ [a EXCEPT !.len = @ + b.len].block = a.block
         /\ EndOf([a EXCEPT !.len = @ + b.len]) = EndOf(b)
         /\ BlockCells([a EXCEPT !.len = @ + b.len]) = BlockCells(a) \cup BlockCells(b)
<1>1. BlockSize \in Nat /\ BlockSize >= 4
  BY Sizes
<1>2. /\ a.block \in Nat /\ a.len \in Nat \ {0} /\ a.type \in Types /\ a.off \in Nat
      /\ DivUp(a.len) \in Nat /\ EndOf(a) = a.block + DivUp(a.len)
      /\ a = Backed(a.block, a.len, a.type, a.off)
  BY BlockFacts DEF EndOf
<1>3. /\ b.block \in Nat /\ b.len \in Nat \ {0} /\ b.type \in Types /\ b.off \in Nat
      /\ b = Backed(b.block, b.len, b.type, b.off)
  BY BlockFacts
<1>4. PICK k \in Nat : k = a.len \div BlockSize /\ k * BlockSize <= a.len
  BY <1>1, <1>2
<1>5. a.block + k = b.block /\ DivUp(a.len) <= k
  BY <1>2, <1>3, <1>4 DEF Mergeable
<1>6. DivUp(a.len) * BlockSize \in Nat /\ a.len <= DivUp(a.len) * BlockSize /\ DivUp(a.len) >= 1
  BY <1>2, DivUpBounds
<1>7. DivUp(a.len) * BlockSize <= k * BlockSize /\ k * BlockSize \in Nat
  <2>1. CASE DivUp(a.len) = k
    BY <2>1, <1>6
  <2>2. CASE DivUp(a.len) < k
    <3>1. DivUp(a.len) * BlockSize + BlockSize <= k * BlockSize /\ k * BlockSize \in Nat
      BY <2>2, <1>2, Multiples
    <3> QED BY <3>1, <1>1, <1>6
  <2> QED BY <2>1, <2>2, <1>2, <1>5
<1>8. a.len = k * BlockSize /\ k \in Nat \ {0}
  BY <1>2, <1>4, <1>5, <1>6, <1>7
<1>9. PICK m : m = [a EXCEPT !.len = @ + b.len]
  OBVIOUS
<1>10. /\ m \in Block /\ m.block = a.block /\ m.len = a.len + b.len /\ m.type = a.type /\ m.off = a.off
  <2>1. a.len + b.len \in Nat \ {0}
    BY <1>2, <1>3
  <2> QED BY <1>9, <2>1 DEF Block
<1>11. SplitHead(m, k) = a
  BY <1>2, <1>8, <1>10 DEF SplitHead
<1>12. SplitRest(m, k) = b
  <2>1. a.type = b.type
    BY DEF Mergeable
  <2>2. m.len - k * BlockSize = b.len
    BY <1>2, <1>3, <1>8, <1>10
  <2>3. b.off = IF m.type = "fill" THEN m.off ELSE m.off + k * BlockSize
    BY <1>8, <1>10, <1>2 DEF Mergeable, Types
  <2> QED BY <2>1, <2>2, <2>3, <1>3, <1>5, <1>10 DEF SplitRest
<1>13. k * BlockSize < m.len
  BY <1>2, <1>3, <1>8, <1>10
<1>14. EndOf(SplitRest(m, k)) = EndOf(m)
  BY <1>8, <1>10, <1>13, SplitFacts
<1>15. BlockCells(m) = BlockCells(SplitHead(m, k)) \cup BlockCells(SplitRest(m, k))
  BY <1>8, <1>10, <1>13, SplitCells
<1> QED BY <1>9, <1>10, <1>11, <1>12, <1>14, <1>15

----------------------------------------------------------------------------
(* What a list takes up in a file.                                         *)

Gap(l, i) == IF GapBefore(l, i) THEN ChunkHeader ELSE 0

\* What a chunk takes in a sparse file.
LEMMA ChunkBytesFacts ==
  ASSUME NEW x \in Block
  PROVE  /\ ChunkBytes(x) \in Nat
         /\ x.type = "fill" => ChunkBytes(x) = 16
         /\ x.type # "fill" => ChunkBytes(x) = 12 + DivUp(x.len) * BlockSize /\ DivUp(x.len) * BlockSize >= BlockSize
<1>1. BlockSize \in Nat /\ BlockSize >= 4
  BY Sizes
<1>2. x.len \in Nat \ {0}
  BY BlockFacts
<1>3. DivUp(x.len) \in Nat /\ DivUp(x.len) * BlockSize \in Nat /\ DivUp(x.len) >= 1
  BY <1>2, DivUpBounds
<1>4. DivUp(x.len) * BlockSize = BlockSize * DivUp(x.len)
  BY <1>1, <1>3
<1>5. DivUp(x.len) * BlockSize >= BlockSize
  <2>1. 0 * BlockSize + BlockSize <= DivUp(x.len) * BlockSize
    BY <1>3, Multiples
  <2> QED BY <2>1, <1>1
<1> QED BY <1>3, <1>4, <1>5 DEF ChunkBytes, ChunkHeader, FillLen

\* BytesUpTo adds a chunk, and a skip chunk if there is a gap before it.
LEMMA BytesStep ==
  ASSUME NEW l, NEW n \in Nat
  PROVE  /\ BytesUpTo(l, 0) = 0
         /\ BytesUpTo(l, n + 1) = BytesUpTo(l, n) + ChunkBytes(l[n + 1]) + Gap(l, n + 1)
<1> DEFINE Rec(f, k) == f = [i \in 0 .. k |-> IF i = 0 THEN 0 ELSE f[i - 1] + ChunkBytes(l[i]) + Gap(l, i)]
           Q == {k \in Nat : \E f : Rec(f, k)}
           F(k) == CHOOSE f : Rec(f, k)
<1>1. 0 \in Q
  <2> DEFINE f == [i \in 0 .. 0 |-> 0]
  <2>1. Rec(f, 0)
    OBVIOUS
  <2> QED BY <2>1
<1>2. ASSUME NEW k \in Q PROVE k + 1 \in Q
  <2>1. PICK f : Rec(f, k)
    OBVIOUS
  <2> DEFINE g == [i \in 0 .. k + 1 |-> IF i = k + 1 THEN f[k] + ChunkBytes(l[k + 1]) + Gap(l, k + 1) ELSE f[i]]
  <2>2. Rec(g, k + 1)
    <3> HIDE DEF Q
    <3>0. k \in Nat
      BY DEF Q
    <3>1. ASSUME NEW i \in 0 .. k + 1
          PROVE  g[i] = IF i = 0 THEN 0 ELSE g[i - 1] + ChunkBytes(l[i]) + Gap(l, i)
      <4>1. CASE i = k + 1
        BY <4>1, <3>0
      <4>2. CASE i # k + 1
        BY <4>2, <3>0, <2>1
      <4> QED BY <4>1, <4>2
    <3> QED BY <3>1
  <2>3. k + 1 \in Nat
    OBVIOUS
  <2>4. \E h : Rec(h, k + 1)
    BY <2>2
  <2> HIDE DEF Rec
  <2> QED BY <2>3, <2>4
<1>3. Q = Nat
  <2> HIDE DEF Q
  <2> QED BY <1>1, <1>2, InductionOnNat DEF Q
<1>4. ASSUME NEW k \in Nat PROVE Rec(F(k), k)
  <2>1. \E f : Rec(f, k)
    BY <1>3
  <2> HIDE DEF Rec
  <2> QED BY <2>1
<1>5. ASSUME NEW k \in Nat PROVE BytesUpTo(l, k) = F(k)[k]
  BY DEF BytesUpTo, Gap
<1> HIDE DEF F
<1>6. F(0)[0] = 0
  BY <1>4
<1> DEFINE A == F(n)
           B == F(n + 1)
           K == {i \in Nat : i <= n => A[i] = B[i]}
<1>7. /\ A = [i \in 0 .. n |-> IF i = 0 THEN 0 ELSE A[i - 1] + ChunkBytes(l[i]) + Gap(l, i)]
      /\ B = [i \in 0 .. n + 1 |-> IF i = 0 THEN 0 ELSE B[i - 1] + ChunkBytes(l[i]) + Gap(l, i)]
  BY <1>4
<1> HIDE DEF A, B
<1>8. 0 \in K
  BY <1>7
<1>9. ASSUME NEW i \in K PROVE i + 1 \in K
  <2>1. CASE i + 1 <= n
    <3>1. i + 1 \in 0 .. n /\ i + 1 \in 0 .. n + 1 /\ i + 1 # 0 /\ (i + 1) - 1 = i
      BY <2>1
    <3>2. /\ A[i + 1] = A[i] + ChunkBytes(l[i + 1]) + Gap(l, i + 1)
          /\ B[i + 1] = B[i] + ChunkBytes(l[i + 1]) + Gap(l, i + 1)
      BY <3>1, <1>7
    <3>3. A[i] = B[i]
      BY <2>1
    <3> QED BY <3>2, <3>3
  <2> QED BY <2>1
<1>10. K = Nat
  <2> HIDE DEF K
  <2> QED BY <1>8, <1>9, InductionOnNat DEF K
<1>11. A[n] = B[n]
  BY <1>10
<1>12. B[n + 1] = B[n] + ChunkBytes(l[n + 1]) + Gap(l, n + 1)
  BY <1>7
<1> QED BY <1>5, <1>6, <1>11, <1>12 DEF A, B

\* It is a number, and depends on no more than the blocks it adds up.
LEMMA BytesNat ==
  ASSUME NEW l \in Seq(Block), NEW n \in 0 .. Len(l)
  PROVE  BytesUpTo(l, n) \in Nat
<1> DEFINE Q == {i \in Nat : i <= Len(l) => BytesUpTo(l, i) \in Nat}
<1>1. 0 \in Q
  BY BytesStep
<1>2. ASSUME NEW i \in Q PROVE i + 1 \in Q
  <2>1. CASE i + 1 <= Len(l)
    <3>1. BytesUpTo(l, i) \in Nat /\ l[i + 1] \in Block
      BY <2>1
    <3>2. ChunkBytes(l[i + 1]) \in Nat /\ Gap(l, i + 1) \in Nat
      BY <3>1, ChunkBytesFacts DEF Gap, ChunkHeader
    <3>3. BytesUpTo(l, i + 1) = BytesUpTo(l, i) + ChunkBytes(l[i + 1]) + Gap(l, i + 1)
      BY BytesStep
    <3> QED BY <3>1, <3>2, <3>3, SMTT(40)
  <2> QED BY <2>1
<1>3. Q = Nat
  <2> HIDE DEF Q
  <2> QED BY <1>1, <1>2, InductionOnNat DEF Q
<1> QED BY <1>3

\* What the first n blocks take depends on them only.
LEMMA BytesPrefix ==
  ASSUME NEW l \in Seq(Block), NEW m \in Seq(Block), NEW n \in Nat, n <= Len(l), n <= Len(m),
         \A i \in 1 .. n : l[i] = m[i]
  PROVE  BytesUpTo(l, n) = BytesUpTo(m, n)
<1> DEFINE Q == {i \in Nat : i <= n => BytesUpTo(l, i) = BytesUpTo(m, i)}
<1>1. 0 \in Q
  BY BytesStep
<1>2. ASSUME NEW i \in Q PROVE i + 1 \in Q
  <2>1. CASE i + 1 <= n
    <3>1. BytesUpTo(l, i) = BytesUpTo(m, i) /\ l[i + 1] = m[i + 1] /\ (i # 0 => l[i] = m[i])
      BY <2>1
    <3>2. Gap(l, i + 1) = Gap(m, i + 1)
      <4>1. (i + 1) - 1 = i /\ (i + 1 = 1 <=> i = 0)
        OBVIOUS
      <4>2. EndBefore(l, i + 1) = EndBefore(m, i + 1)
        BY <3>1, <4>1 DEF EndBefore
      <4> QED BY <4>2, <3>1 DEF Gap, GapBefore
    <3>3. /\ BytesUpTo(l, i + 1) = BytesUpTo(l, i) + ChunkBytes(l[i + 1]) + Gap(l, i + 1)
          /\ BytesUpTo(m, i + 1) = BytesUpTo(m, i) + ChunkBytes(m[i + 1]) + Gap(m, i + 1)
      BY BytesStep
    <3> QED BY <3>1, <3>2, <3>3
  <2> QED BY <2>1
<1>3. Q = Nat
  <2> HIDE DEF Q
  <2> QED BY <1>1, <1>2, InductionOnNat DEF Q
<1> QED BY <1>3

----------------------------------------------------------------------------
(* Cutting a list: move_chunks_up_to_len.                                  *)

\* The bytes of chunks a file may have, and the part of a list before the block
\* that goes over it.
Budget(max_len) == max_len - 56
EndOfList(l) == IF l = <<>> THEN 0 ELSE EndOf(l[Len(l)])
GapAfter(l, x) == IF x.block > EndOfList(l) THEN 12 ELSE 0
Bytes(l) == BytesUpTo(l, Len(l))
Over(l, x, max_len) ==
  /\ \A j \in 1 .. Len(l) : BytesUpTo(l, j) <= Budget(max_len)
  /\ Bytes(l) + ChunkBytes(x) + GapAfter(l, x) > Budget(max_len)
RoomAfter(l, max_len) == Budget(max_len) - (Bytes(l) + 12)
Splits(l, max_len) == l = <<>> \/ RoomAfter(l, max_len) > Budget(max_len) \div 8

\* The room in a file of max_len; an eighth of it is at least a block.
LEMMA BudgetFacts ==
  ASSUME NEW max_len \in Limits
  PROVE  /\ max_len \in Nat /\ Budget(max_len) \in Nat /\ Budget(max_len) \div 8 \in Nat
         /\ Budget(max_len) >= 8 * BlockSize
         /\ Budget(max_len) \div 8 >= BlockSize
         /\ 8 * (Budget(max_len) \div 8) <= Budget(max_len)
<1>1. BlockSize \in Nat /\ BlockSize >= 4
  BY Sizes
<1>2. max_len \in Nat /\ max_len >= 56 + 8 * BlockSize
  BY <1>1, SparseAssumption DEF SparseHeader, ChunkHeader, FillLen
<1>3. PICK len \in Nat : len = Budget(max_len) /\ len >= 8 * BlockSize
  BY <1>1, <1>2 DEF Budget
<1>4. len \div 8 \in Nat /\ len \div 8 >= BlockSize /\ 8 * (len \div 8) <= len
  BY <1>1, <1>3
<1> QED BY <1>2, <1>3, <1>4

\* The bytes of a list that is one block longer.
LEMMA BytesAppend ==
  ASSUME NEW l \in Seq(Block), NEW x \in Block, NEW m \in Seq(Block)
  PROVE  /\ BytesUpTo((l \o <<x>>) \o m, Len(l) + 1) = Bytes(l) + ChunkBytes(x) + GapAfter(l, x)
         /\ Bytes(l \o <<x>>) = Bytes(l) + ChunkBytes(x) + GapAfter(l, x)
         /\ \A j \in 0 .. Len(l) : BytesUpTo((l \o <<x>>) \o m, j) = BytesUpTo(l, j)
         /\ \A j \in 0 .. Len(l) : BytesUpTo(l \o <<x>>, j) = BytesUpTo(l, j)
         /\ Bytes(l) \in Nat /\ ChunkBytes(x) \in Nat /\ GapAfter(l, x) \in {0, 12}
         /\ Bytes(l \o <<x>>) \in Nat
<1>1. /\ l \o <<x>> \in Seq(Block) /\ Len(l \o <<x>>) = Len(l) + 1
      /\ (l \o <<x>>)[Len(l) + 1] = x /\ \A i \in 1 .. Len(l) : (l \o <<x>>)[i] = l[i]
  BY Concat
<1>2. PICK lx \in Seq(Block) : lx = l \o <<x>>
  BY <1>1
<1>3. /\ lx \o m \in Seq(Block) /\ Len(lx \o m) = Len(l) + 1 + Len(m)
      /\ \A i \in 1 .. Len(l) + 1 : (lx \o m)[i] = lx[i]
  BY <1>1, <1>2, Concat
<1>4. Bytes(l) \in Nat
  BY BytesNat DEF Bytes
<1>5. ChunkBytes(x) \in Nat /\ GapAfter(l, x) \in {0, 12}
  BY ChunkBytesFacts DEF GapAfter
<1>6. \A j \in 0 .. Len(l) : BytesUpTo(lx, j) = BytesUpTo(l, j)
  <2> SUFFICES ASSUME NEW j \in 0 .. Len(l) PROVE BytesUpTo(lx, j) = BytesUpTo(l, j)
    OBVIOUS
  <2>1. j \in Nat /\ j <= Len(lx) /\ j <= Len(l) /\ \A i \in 1 .. j : lx[i] = l[i]
    BY <1>1, <1>2
  <2> QED BY <2>1, BytesPrefix
<1>7. \A j \in 0 .. Len(l) + 1 : BytesUpTo(lx \o m, j) = BytesUpTo(lx, j)
  <2> SUFFICES ASSUME NEW j \in 0 .. Len(l) + 1 PROVE BytesUpTo(lx \o m, j) = BytesUpTo(lx, j)
    OBVIOUS
  <2>1. j \in Nat /\ j <= Len(lx \o m) /\ j <= Len(lx) /\ \A i \in 1 .. j : (lx \o m)[i] = lx[i]
    BY <1>1, <1>2, <1>3
  <2>2. PICK n \in Seq(Block) : n = lx \o m
    BY <1>3
  <2>3. BytesUpTo(n, j) = BytesUpTo(lx, j)
    BY <2>1, <2>2, BytesPrefix, ZenonT(60)
  <2> QED BY <2>2, <2>3
<1>8. BytesUpTo(lx, Len(l) + 1) = Bytes(l) + ChunkBytes(x) + GapAfter(l, x)
  <2>1. BytesUpTo(lx, Len(l) + 1) = BytesUpTo(lx, Len(l)) + ChunkBytes(lx[Len(l) + 1]) + Gap(lx, Len(l) + 1)
    BY BytesStep
  <2>2. EndBefore(lx, Len(l) + 1) = EndOfList(l)
    <3>1. CASE l = <<>>
      BY <3>1 DEF EndBefore, EndOfList
    <3>2. CASE l # <<>>
      <4>1. Len(l) \in 1 .. Len(l) /\ Len(l) + 1 # 1 /\ (Len(l) + 1) - 1 = Len(l)
        BY <3>2
      <4>2. lx[Len(l)] = l[Len(l)]
        BY <4>1, <1>1, <1>2
      <4> QED BY <3>2, <4>1, <4>2 DEF EndBefore, EndOfList, EndOf
    <3> QED BY <3>1, <3>2
  <2>3. Gap(lx, Len(l) + 1) = GapAfter(l, x)
    BY <2>2, <1>1, <1>2 DEF Gap, GapBefore, GapAfter, ChunkHeader
  <2>4. BytesUpTo(lx, Len(l)) = Bytes(l)
    BY <1>6 DEF Bytes
  <2> QED BY <2>1, <2>3, <2>4, <1>1, <1>2
<1>9. Bytes(lx) = Bytes(l) + ChunkBytes(x) + GapAfter(l, x)
  BY <1>1, <1>2, <1>8 DEF Bytes
<1>10. BytesUpTo(lx \o m, Len(l) + 1) = Bytes(l) + ChunkBytes(x) + GapAfter(l, x)
  BY <1>7, <1>8
<1>11. \A j \in 0 .. Len(l) : BytesUpTo(lx \o m, j) = BytesUpTo(l, j)
  BY <1>6, <1>7
<1>12. Bytes(lx) \in Nat
  BY <1>4, <1>5, <1>9
<1> QED BY <1>2, <1>4, <1>5, <1>6, <1>9, <1>10, <1>11, <1>12

\* A list around one of its blocks.
LEMMA Around ==
  ASSUME NEW l \in Seq(Block), NEW x \in Block, NEW m \in Seq(Block), NEW n, n = (l \o <<x>>) \o m
  PROVE  /\ n \in Seq(Block) /\ Len(n) = Len(l) + 1 + Len(m) /\ n[Len(l) + 1] = x
         /\ \A i \in 1 .. Len(l) : n[i] = l[i]
         /\ \A i \in 1 .. Len(m) : n[Len(l) + 1 + i] = m[i]
         /\ SubSeq(n, 1, Len(l)) = l
         /\ SubSeq(n, Len(l) + 2, Len(l) + 1 + Len(m)) = m
         /\ SubSeq(n, Len(l) + 1, Len(l) + 1 + Len(m)) = <<x>> \o m
<1>2. /\ n \in Seq(Block) /\ Len(n) = Len(l) + 1 + Len(m) /\ n[Len(l) + 1] = x
      /\ \A i \in 1 .. Len(l) : n[i] = l[i]
      /\ \A i \in 1 .. Len(m) : n[Len(l) + 1 + i] = m[i]
  OBVIOUS
<1>3. SubSeq(n, 1, Len(l)) = l
  BY <1>2
<1>4. SubSeq(n, Len(l) + 2, Len(l) + 1 + Len(m)) = m
  <2>1. SubSeq(n, Len(l) + 2, Len(l) + 1 + Len(m)) = [i \in 1 .. Len(m) |-> n[Len(l) + 1 + i]]
    BY <1>2, SMTT(40)
  <2>2. m = [i \in 1 .. Len(m) |-> m[i]]
    OBVIOUS
  <2> QED BY <2>1, <2>2, <1>2
<1>5. SubSeq(n, Len(l) + 1, Len(l) + 1 + Len(m)) = <<x>> \o m
  <2> DEFINE t == SubSeq(n, Len(l) + 1, Len(l) + 1 + Len(m))
  <2>1. t \in Seq(Block) /\ Len(t) = 1 + Len(m) /\ \A i \in 1 .. 1 + Len(m) : t[i] = n[Len(l) + i]
    BY <1>2, SMTT(40)
  <2>2. <<x>> \o m \in Seq(Block) /\ Len(<<x>> \o m) = 1 + Len(m)
    OBVIOUS
  <2>3. ASSUME NEW i \in 1 .. 1 + Len(m) PROVE t[i] = (<<x>> \o m)[i]
    <3>1. CASE i = 1
      BY <3>1, <2>1, <1>2
    <3>2. CASE i # 1
      <4>1. i - 1 \in 1 .. Len(m) /\ Len(l) + i = Len(l) + 1 + (i - 1)
        BY <3>2
      <4>2. (<<x>> \o m)[i] = m[i - 1]
        BY <3>2, <4>1
      <4>3. n[Len(l) + 1 + (i - 1)] = m[i - 1]
        BY <4>1, <1>2
      <4> QED BY <2>1, <4>1, <4>2, <4>3
    <3> QED BY <3>1, <3>2
  <2> HIDE DEF t
  <2>4. t = <<x>> \o m
    BY <2>1, <2>2, <2>3, SMTT(40)
  <2> QED BY <2>4 DEF t
<1> QED BY <1>2, <1>3, <1>4, <1>5

\* A list, cut around its s-th block.
LEMMA Decompose ==
  ASSUME NEW l \in Seq(Block), NEW s \in 1 .. Len(l)
  PROVE  \E a, b \in Seq(Block) : l = (a \o <<l[s]>>) \o b /\ Len(a) = s - 1 /\ Len(b) = Len(l) - s
<1>1. PICK a, b \in Seq(Block) : a = SubSeq(l, 1, s - 1) /\ b = SubSeq(l, s + 1, Len(l))
  <2>1. SubSeq(l, 1, s - 1) \in Seq(Block) /\ SubSeq(l, s + 1, Len(l)) \in Seq(Block)
    OBVIOUS
  <2> QED BY <2>1
<1>2. Len(a) = s - 1 /\ \A i \in 1 .. s - 1 : a[i] = l[i]
  BY <1>1
<1>3. Len(b) = Len(l) - s /\ \A i \in 1 .. Len(l) - s : b[i] = l[s + i]
  BY <1>1
<1>4. PICK x \in Block : x = l[s]
  OBVIOUS
<1>5. PICK n : n = (a \o <<x>>) \o b
  OBVIOUS
<1>6. /\ Len(n) = Len(l)
      /\ \A i \in 1 .. s - 1 : n[i] = a[i]
      /\ n[s] = x
      /\ \A i \in 1 .. Len(l) - s : n[s + i] = b[i]
  <2>1. /\ Len(n) = Len(a) + 1 + Len(b) /\ n[Len(a) + 1] = x
        /\ \A i \in 1 .. Len(a) : n[i] = a[i]
        /\ \A i \in 1 .. Len(b) : n[Len(a) + 1 + i] = b[i]
    BY <1>5, Around
  <2> QED BY <2>1, <1>2, <1>3
<1>7. ASSUME NEW i \in 1 .. Len(l) PROVE n[i] = l[i]
  <2>1. CASE i < s
    BY <2>1, <1>2, <1>6
  <2>2. CASE i = s
    BY <2>2, <1>4, <1>6
  <2>3. CASE i > s
    <3>1. i - s \in 1 .. Len(l) - s /\ s + (i - s) = i
      BY <2>3
    <3> QED BY <3>1, <1>3, <1>6, ZenonT(60)
  <2> QED BY <2>1, <2>2, <2>3
<1>8. n = l
  <2>1. n \in Seq(Block)
    BY <1>5, Around
  <2> QED BY <1>6, <1>7, <2>1, SMTT(40)
<1> QED BY <1>2, <1>3, <1>4, <1>5, <1>8

\* The whole blocks that fit into the room after a list.
WholeBlocks(l, k, max_len) ==
  /\ k \in Nat \ {0}
  /\ k * BlockSize <= RoomAfter(l, max_len) /\ RoomAfter(l, max_len) < k * BlockSize + BlockSize

\* Where a block is split there is room for one block at least.
LEMMA RoomToSplit ==
  ASSUME NEW l \in Seq(Block), NEW max_len \in Limits, Splits(l, max_len)
  PROVE  /\ RoomAfter(l, max_len) \in Nat /\ RoomAfter(l, max_len) >= BlockSize
         /\ \E k : WholeBlocks(l, k, max_len) /\ AlignDown(RoomAfter(l, max_len)) = k * BlockSize
                   /\ k = AlignDown(RoomAfter(l, max_len)) \div BlockSize
<1>1. BlockSize \in Nat /\ BlockSize >= 4
  BY Sizes
<1>2. /\ Budget(max_len) \in Nat /\ Budget(max_len) \div 8 \in Nat
      /\ Budget(max_len) >= 8 * BlockSize /\ Budget(max_len) \div 8 >= BlockSize
  BY BudgetFacts
<1>3. Bytes(l) \in Nat /\ (l = <<>> => Bytes(l) = 0)
  BY BytesNat, BytesStep DEF Bytes
<1>4. PICK room \in Int : room = RoomAfter(l, max_len)
  BY <1>2, <1>3 DEF RoomAfter
<1>5. room >= BlockSize
  <2>1. CASE l = <<>>
    BY <2>1, <1>1, <1>2, <1>3, <1>4, SMTT(40) DEF RoomAfter
  <2>2. CASE room > Budget(max_len) \div 8
    BY <2>2, <1>1, <1>2
  <2> QED BY <2>1, <2>2, <1>4 DEF Splits
<1>6. room \in Nat
  BY <1>1, <1>5
<1>7. PICK k \in Nat : /\ AlignDown(room) = k * BlockSize /\ k = AlignDown(room) \div BlockSize
                       /\ k * BlockSize \in Nat
                       /\ k * BlockSize <= room /\ room < k * BlockSize + BlockSize
  BY <1>6, AlignDownIs
<1>8. k # 0
  BY <1>1, <1>5, <1>7
<1>9. WholeBlocks(l, k, max_len)
  BY <1>4, <1>7, <1>8 DEF WholeBlocks
<1> QED BY <1>4, <1>5, <1>6, <1>7, <1>9

\* backed_block_split with that room.
LEMMA SplitIs ==
  ASSUME NEW x \in Block, NEW room \in Nat, NEW k \in Nat \ {0},
         AlignDown(room) = k * BlockSize, k = AlignDown(room) \div BlockSize
  PROVE  backed_block_split(x, room) = IF x.len <= k * BlockSize THEN <<x>>
                                       ELSE <<SplitHead(x, k), SplitRest(x, k)>>
<1>1. /\ x.block \in Nat /\ x.len \in Nat \ {0} /\ x.type \in Types /\ x.off \in Nat
  BY BlockFacts
<1>2. PICK c : c = AlignDown(room)
  OBVIOUS
<1>3. backed_block_split(x, room) =
        IF x.len <= c THEN <<x>>
        ELSE <<[x EXCEPT !.len = c],
               Backed(x.block + c \div BlockSize, x.len - c, x.type,
                      IF x.type = "fill" THEN x.off ELSE x.off + c)>>
  BY <1>2 DEF backed_block_split
<1>4. [x EXCEPT !.len = c] = Backed(x.block, c, x.type, x.off)
  BY DEF Backed, Block
<1> QED BY <1>2, <1>3, <1>4 DEF SplitHead, SplitRest

\* The walk over a list that fits, and over one that does not.
LEMMA MoveAll ==
  ASSUME NEW l \in Seq(Block), NEW max_len \in Limits,
         \A j \in 1 .. Len(l) : BytesUpTo(l, j) <= Budget(max_len)
  PROVE  move_chunks_up_to_len(l, max_len) = [moved |-> l, left |-> <<>>, more |-> FALSE]
<1>1. max_len - (SparseHeader + 2 * ChunkHeader + FillLen) = Budget(max_len)
  BY BudgetFacts DEF Budget, SparseHeader, ChunkHeader, FillLen
<1>2. {i \in 1..Len(l) : BytesUpTo(l, i) > Budget(max_len)} = {}
  <2> SUFFICES ASSUME NEW i \in 1 .. Len(l), BytesUpTo(l, i) > Budget(max_len) PROVE FALSE
    BY SMTT(40)
  <2>1. BytesUpTo(l, i) \in Nat /\ Budget(max_len) \in Nat
    BY BytesNat, BudgetFacts, SMTT(40)
  <2> QED BY <2>1
<1> QED BY <1>1, <1>2 DEF move_chunks_up_to_len

MoveIn(l, len) ==
  LET over == {i \in 1..Len(l) : BytesUpTo(l, i) > len}
      stop == CHOOSE i \in over : \A j \in over : i <= j
      room == len - (BytesUpTo(l, stop - 1) + ChunkHeader)
      split == backed_block_split(l[stop], room)
  IN IF over = {} THEN [moved |-> l, left |-> <<>>, more |-> FALSE]
     ELSE IF stop = 1 \/ room > len \div 8
     THEN [moved |-> SubSeq(l, 1, stop - 1) \o <<split[1]>>,
           left |-> Tail(split) \o SubSeq(l, stop + 1, Len(l)), more |-> TRUE]
     ELSE [moved |-> SubSeq(l, 1, stop - 1), left |-> SubSeq(l, stop, Len(l)), more |-> TRUE]

\* move_chunks_up_to_len at the block that goes over the budget.
LEMMA MoveAt ==
  ASSUME NEW a \in Seq(Block), NEW x \in Block, NEW b \in Seq(Block), NEW max_len \in Limits,
         Over(a, x, max_len)
  PROVE  move_chunks_up_to_len((a \o <<x>>) \o b, max_len) =
           IF Splits(a, max_len)
           THEN [moved |-> a \o <<backed_block_split(x, RoomAfter(a, max_len))[1]>>,
                 left |-> Tail(backed_block_split(x, RoomAfter(a, max_len))) \o b, more |-> TRUE]
           ELSE [moved |-> a, left |-> <<x>> \o b, more |-> TRUE]
<1>0. PICK n : n = (a \o <<x>>) \o b
  OBVIOUS
<1>1. n \in Seq(Block) /\ n = (a \o <<x>>) \o b
  BY <1>0, Around
<1>2. PICK len \in Nat : len = Budget(max_len)
  BY BudgetFacts
<1>3. max_len - (SparseHeader + 2 * ChunkHeader + FillLen) = len
  BY <1>2, BudgetFacts DEF Budget, SparseHeader, ChunkHeader, FillLen
<1>4. PICK s \in Nat : s = Len(a) + 1
  OBVIOUS
<1> DEFINE over == {i \in 1..Len(n) : BytesUpTo(n, i) > len}
           stop == CHOOSE i \in over : \A j \in over : i <= j
<1>5. /\ Len(n) = Len(a) + 1 + Len(b) /\ n[s] = x /\ SubSeq(n, 1, s - 1) = a
      /\ SubSeq(n, s + 1, Len(n)) = b /\ SubSeq(n, s, Len(n)) = <<x>> \o b
  <2>1. s - 1 = Len(a) /\ s + 1 = Len(a) + 2
    BY <1>4
  <2>2. /\ Len(n) = Len(a) + 1 + Len(b) /\ n[Len(a) + 1] = x
        /\ SubSeq(n, 1, Len(a)) = a
        /\ SubSeq(n, Len(a) + 2, Len(a) + 1 + Len(b)) = b
        /\ SubSeq(n, Len(a) + 1, Len(a) + 1 + Len(b)) = <<x>> \o b
    BY <1>0, Around, SMTT(40)
  <2> QED BY <1>4, <2>1, <2>2
<1>6. s \in over /\ BytesUpTo(n, s - 1) = Bytes(a)
  <2>1. BytesUpTo(n, s) = Bytes(a) + ChunkBytes(x) + GapAfter(a, x) /\ BytesUpTo(n, Len(a)) = BytesUpTo(a, Len(a))
    BY <1>1, <1>4, BytesAppend
  <2>2. BytesUpTo(n, s) > len
    BY <2>1, <1>2 DEF Over
  <2>3. s \in 1 .. Len(n) /\ s - 1 = Len(a)
    BY <1>4, <1>5
  <2> QED BY <2>1, <2>2, <2>3 DEF Bytes
<1>7. ASSUME NEW j \in over PROVE s <= j
  <2> SUFFICES ASSUME j < s PROVE FALSE
    BY <1>4
  <2>1. j \in 1 .. Len(a) /\ j \in 0 .. Len(a)
    BY <1>4
  <2>2. BytesUpTo(n, j) = BytesUpTo(a, j) /\ BytesUpTo(a, j) <= len
    BY <2>1, <1>1, <1>2, BytesAppend DEF Over
  <2>3. BytesUpTo(a, j) \in Nat
    BY <2>1, BytesNat
  <2> QED BY <2>2, <2>3
<1>8. stop = s
  <2> HIDE DEF over
  <2>1. stop \in over /\ \A j \in over : stop <= j
    BY <1>6, <1>7
  <2>2. stop <= s /\ s <= stop
    BY <2>1, <1>6, <1>7
  <2>3. stop \in Nat
    BY <2>1 DEF over
  <2> QED BY <2>2, <2>3
<1>9. over # {}
  BY <1>6
<1> DEFINE room == len - (BytesUpTo(n, stop - 1) + ChunkHeader)
           split == backed_block_split(n[stop], room)
<1>10. move_chunks_up_to_len(n, max_len) =
         IF over = {} THEN [moved |-> n, left |-> <<>>, more |-> FALSE]
         ELSE IF stop = 1 \/ room > len \div 8
         THEN [moved |-> SubSeq(n, 1, stop - 1) \o <<split[1]>>,
               left |-> Tail(split) \o SubSeq(n, stop + 1, Len(n)), more |-> TRUE]
         ELSE [moved |-> SubSeq(n, 1, stop - 1), left |-> SubSeq(n, stop, Len(n)), more |-> TRUE]
  <2>1. move_chunks_up_to_len(n, max_len) = MoveIn(n, max_len - (SparseHeader + 2 * ChunkHeader + FillLen))
    BY DEF move_chunks_up_to_len, MoveIn
  <2>2. move_chunks_up_to_len(n, max_len) = MoveIn(n, len)
    BY <2>1, <1>3
  <2> QED BY <2>2 DEF MoveIn
<1> HIDE DEF over, stop
<1>11. room = RoomAfter(a, max_len)
  BY <1>2, <1>6, <1>8 DEF RoomAfter, ChunkHeader
<1>12. stop = 1 <=> a = <<>>
  BY <1>4, <1>8
<1> QED BY <1>1, <1>2, <1>5, <1>8, <1>9, <1>10, <1>11, <1>12, ZenonT(60) DEF Splits

\* The whole blocks that the room left holds.
LEMMA WholeBlocksIs ==
  ASSUME NEW l \in Seq(Block), NEW max_len \in Limits, Splits(l, max_len), NEW k, WholeBlocks(l, k, max_len)
  PROVE  /\ k \in Nat \ {0} /\ RoomAfter(l, max_len) \in Nat
         /\ AlignDown(RoomAfter(l, max_len)) = k * BlockSize
         /\ k = AlignDown(RoomAfter(l, max_len)) \div BlockSize
<1>1. BlockSize \in Nat /\ BlockSize >= 4
  BY Sizes
<1>2. PICK room \in Nat : room = RoomAfter(l, max_len)
  BY RoomToSplit
<1>3. PICK q : /\ WholeBlocks(l, q, max_len) /\ AlignDown(room) = q * BlockSize
               /\ q = AlignDown(room) \div BlockSize
  BY <1>2, RoomToSplit
<1>4. /\ k \in Nat \ {0} /\ k * BlockSize <= room /\ room < k * BlockSize + BlockSize
      /\ q \in Nat \ {0} /\ q * BlockSize <= room /\ room < q * BlockSize + BlockSize
  BY <1>2, <1>3 DEF WholeBlocks
<1>5. ~(k < q)
  <2> SUFFICES ASSUME k < q PROVE FALSE
    OBVIOUS
  <2>1. k * BlockSize + BlockSize <= q * BlockSize /\ k * BlockSize \in Nat /\ q * BlockSize \in Nat
    BY <1>4, Multiples
  <2> QED BY <2>1, <1>1, <1>4
<1>6. ~(q < k)
  <2> SUFFICES ASSUME q < k PROVE FALSE
    OBVIOUS
  <2>1. q * BlockSize + BlockSize <= k * BlockSize /\ k * BlockSize \in Nat /\ q * BlockSize \in Nat
    BY <1>4, Multiples
  <2> QED BY <2>1, <1>1, <1>4
<1>7. k = q
  BY <1>4, <1>5, <1>6
<1> QED BY <1>2, <1>3, <1>4, <1>7

\* The three ways in which the walk ends before the list does: at a block that
\* fits after all (its gap was counted, and the split does not), inside a block,
\* and before one.
Holds(x, k) == x.len <= k * BlockSize
Cuts(x, k) == k * BlockSize < x.len

\* When they hold the block, it is moved unsplit.
LEMMA MoveWhole ==
  ASSUME NEW a \in Seq(Block), NEW x \in Block, NEW b \in Seq(Block), NEW max_len \in Limits,
         Over(a, x, max_len), Splits(a, max_len),
         NEW k, WholeBlocks(a, k, max_len), Holds(x, k)
  PROVE  move_chunks_up_to_len((a \o <<x>>) \o b, max_len) =
           [moved |-> a \o <<x>>, left |-> b, more |-> TRUE]
<1>1. PICK room \in Nat : room = RoomAfter(a, max_len)
  BY WholeBlocksIs
<1>2. k \in Nat \ {0} /\ AlignDown(room) = k * BlockSize /\ k = AlignDown(room) \div BlockSize
  BY <1>1, WholeBlocksIs
<1>3. backed_block_split(x, room) = <<x>>
  BY <1>2, SplitIs DEF Holds
<1>4. <<x>>[1] = x /\ Tail(<<x>>) \o b = b
  OBVIOUS
<1>5. move_chunks_up_to_len((a \o <<x>>) \o b, max_len) =
        [moved |-> a \o <<backed_block_split(x, room)[1]>>,
         left |-> Tail(backed_block_split(x, room)) \o b, more |-> TRUE]
  BY <1>1, MoveAt
<1> QED BY <1>3, <1>4, <1>5

\* When they do not, it is split there.
LEMMA MoveSplit ==
  ASSUME NEW a \in Seq(Block), NEW x \in Block, NEW b \in Seq(Block), NEW max_len \in Limits,
         Over(a, x, max_len), Splits(a, max_len),
         NEW k, WholeBlocks(a, k, max_len), Cuts(x, k)
  PROVE  move_chunks_up_to_len((a \o <<x>>) \o b, max_len) =
           [moved |-> a \o <<SplitHead(x, k)>>, left |-> <<SplitRest(x, k)>> \o b, more |-> TRUE]
<1>1. PICK room \in Nat : room = RoomAfter(a, max_len)
  BY WholeBlocksIs
<1>2. k \in Nat \ {0} /\ AlignDown(room) = k * BlockSize /\ k = AlignDown(room) \div BlockSize
  BY <1>1, WholeBlocksIs
<1>3. PICK y, z : y = SplitHead(x, k) /\ z = SplitRest(x, k)
  OBVIOUS
<1>4. backed_block_split(x, room) = <<y, z>>
  <2>1. ~(x.len <= k * BlockSize)
    <3>1. x.len \in Nat /\ k * BlockSize \in Nat
      BY <1>2, BlockFacts, DivUpWhole
    <3> QED BY <3>1 DEF Cuts
  <2> QED BY <1>2, <1>3, <2>1, SplitIs
<1>5. <<y, z>>[1] = y /\ Tail(<<y, z>>) = <<z>>
  OBVIOUS
<1>6. move_chunks_up_to_len((a \o <<x>>) \o b, max_len) =
        [moved |-> a \o <<backed_block_split(x, room)[1]>>,
         left |-> Tail(backed_block_split(x, room)) \o b, more |-> TRUE]
  BY <1>1, MoveAt
<1> QED BY <1>3, <1>4, <1>5, <1>6

\* When too little room is left, the cut comes before the block.
LEMMA MoveBefore ==
  ASSUME NEW a \in Seq(Block), NEW x \in Block, NEW b \in Seq(Block), NEW max_len \in Limits,
         Over(a, x, max_len), ~Splits(a, max_len)
  PROVE  move_chunks_up_to_len((a \o <<x>>) \o b, max_len) =
           [moved |-> a, left |-> <<x>> \o b, more |-> TRUE]
BY MoveAt

\* Every list is cut in one of these ways, or not at all.
CutAt(a, x, b, max_len, m) ==
  \/ \E k : /\ Splits(a, max_len) /\ WholeBlocks(a, k, max_len) /\ Holds(x, k)
            /\ m = [moved |-> a \o <<x>>, left |-> b, more |-> TRUE]
  \/ \E k : /\ Splits(a, max_len) /\ WholeBlocks(a, k, max_len) /\ Cuts(x, k)
            /\ m = [moved |-> a \o <<SplitHead(x, k)>>, left |-> <<SplitRest(x, k)>> \o b, more |-> TRUE]
  \/ /\ ~Splits(a, max_len)
     /\ m = [moved |-> a, left |-> <<x>> \o b, more |-> TRUE]

\* move_chunks_up_to_len moves the whole list, or cuts in one of these three ways.
LEMMA MoveCases ==
  ASSUME NEW l \in Seq(Block), NEW max_len \in Limits
  PROVE  \/ /\ \A j \in 1 .. Len(l) : BytesUpTo(l, j) <= Budget(max_len)
            /\ move_chunks_up_to_len(l, max_len) = [moved |-> l, left |-> <<>>, more |-> FALSE]
         \/ \E a, b \in Seq(Block), x \in Block :
              /\ l = (a \o <<x>>) \o b /\ Over(a, x, max_len)
              /\ CutAt(a, x, b, max_len, move_chunks_up_to_len(l, max_len))
<1>1. CASE \A j \in 1 .. Len(l) : BytesUpTo(l, j) <= Budget(max_len)
  BY <1>1, MoveAll
<1>2. CASE ~(\A j \in 1 .. Len(l) : BytesUpTo(l, j) <= Budget(max_len))
  <2> DEFINE S == {j \in 1 .. Len(l) : ~(BytesUpTo(l, j) <= Budget(max_len))}
  <2>1. PICK s \in S : \A j \in S : s <= j
    <3>1. S \in SUBSET Nat /\ S # {}
      BY <1>2
    <3> HIDE DEF S
    <3> QED BY <3>1, LeastElement
  <2>2. s \in 1 .. Len(l) /\ \A j \in 1 .. s - 1 : BytesUpTo(l, j) <= Budget(max_len)
    <3>1. s \in 1 .. Len(l)
      OBVIOUS
    <3>2. ASSUME NEW j \in 1 .. s - 1 PROVE j \in 1 .. Len(l) /\ ~(s <= j)
      BY <3>1
    <3> QED BY <2>1, <3>1, <3>2
  <2>3. PICK a, b \in Seq(Block) : l = (a \o <<l[s]>>) \o b /\ Len(a) = s - 1 /\ Len(b) = Len(l) - s
    BY <2>2, Decompose
  <2>4. PICK x \in Block : x = l[s]
    BY <2>2
  <2>5. Over(a, x, max_len)
    <3>1. /\ BytesUpTo((a \o <<x>>) \o b, Len(a) + 1) = Bytes(a) + ChunkBytes(x) + GapAfter(a, x)
          /\ \A j \in 0 .. Len(a) : BytesUpTo((a \o <<x>>) \o b, j) = BytesUpTo(a, j)
      BY BytesAppend
    <3>2. /\ BytesUpTo(l, s) = Bytes(a) + ChunkBytes(x) + GapAfter(a, x)
          /\ \A j \in 1 .. Len(a) : BytesUpTo(l, j) = BytesUpTo(a, j)
      <4>1. Len(a) + 1 = s
        BY <2>2, <2>3
      <4>2. l = (a \o <<x>>) \o b
        BY <2>3, <2>4
      <4>3. \A j \in 1 .. Len(a) : j \in 0 .. Len(a)
        OBVIOUS
      <4>4. /\ BytesUpTo(l, s) = Bytes(a) + ChunkBytes(x) + GapAfter(a, x)
            /\ \A j \in 0 .. Len(a) : BytesUpTo(l, j) = BytesUpTo(a, j)
        BY <3>1, <4>1, <4>2, Zenon
      <4> QED BY <4>3, <4>4, Zenon
    <3>3. BytesUpTo(l, s) \in Nat /\ Budget(max_len) \in Nat
      <4>1. s \in 0 .. Len(l)
        BY <2>2
      <4> QED BY <4>1, BytesNat, BudgetFacts
    <3>4. BytesUpTo(l, s) > Budget(max_len)
      BY <3>3
    <3>5. \A j \in 1 .. Len(a) : BytesUpTo(a, j) <= Budget(max_len)
      BY <2>2, <2>3, <3>2
    <3> QED BY <3>2, <3>4, <3>5 DEF Over
  <2>6. l = (a \o <<x>>) \o b
    BY <2>3, <2>4
  <2> HIDE DEF S
  <2>7. CASE ~Splits(a, max_len)
    <3>1. move_chunks_up_to_len(l, max_len) = [moved |-> a, left |-> <<x>> \o b, more |-> TRUE]
      BY <2>5, <2>6, <2>7, MoveBefore
    <3> QED BY <2>5, <2>6, <2>7, <3>1 DEF CutAt
  <2>8. CASE Splits(a, max_len)
    <3>1. PICK k : WholeBlocks(a, k, max_len)
      BY <2>8, RoomToSplit
    <3>2. k * BlockSize \in Nat /\ x.len \in Nat
      <4>1. k \in Nat \ {0}
        BY <3>1 DEF WholeBlocks
      <4> QED BY <4>1, DivUpWhole, BlockFacts
    <3>3. CASE Holds(x, k)
      <4>1. move_chunks_up_to_len(l, max_len) = [moved |-> a \o <<x>>, left |-> b, more |-> TRUE]
        BY <2>5, <2>6, <2>8, <3>1, <3>3, MoveWhole
      <4> QED BY <2>5, <2>6, <2>8, <3>1, <3>3, <4>1 DEF CutAt
    <3>4. CASE Cuts(x, k)
      <4>1. move_chunks_up_to_len(l, max_len) =
              [moved |-> a \o <<SplitHead(x, k)>>, left |-> <<SplitRest(x, k)>> \o b, more |-> TRUE]
        <5>1. move_chunks_up_to_len((a \o <<x>>) \o b, max_len) =
                [moved |-> a \o <<SplitHead(x, k)>>, left |-> <<SplitRest(x, k)>> \o b, more |-> TRUE]
          BY <2>5, <2>8, <3>1, <3>4, MoveSplit, SMTT(60)
        <5> QED BY <2>6, <5>1, Zenon
      <4>2. CutAt(a, x, b, max_len, move_chunks_up_to_len(l, max_len))
        BY <2>8, <3>1, <3>4, <4>1, Zenon DEF CutAt
      <4> QED BY <2>5, <2>6, <4>2
    <3>5. Holds(x, k) \/ Cuts(x, k)
      BY <3>2 DEF Holds, Cuts
    <3> QED BY <3>3, <3>4, <3>5
  <2> QED BY <2>7, <2>8
<1> QED BY <1>1, <1>2

----------------------------------------------------------------------------
(* What a cut does.                                                        *)

\* Being before or after a single block.
LEMMA BeforeOne ==
  ASSUME NEW l \in Seq(Block), NEW x \in Block
  PROVE  /\ Before(l, <<x>>) <=> \A i \in 1 .. Len(l) : EndOf(l[i]) <= x.block
         /\ Before(<<x>>, l) <=> \A j \in 1 .. Len(l) : EndOf(x) <= l[j].block
<1>1. Len(<<x>>) = 1 /\ <<x>>[1] = x /\ 1 .. 1 = {1}
  OBVIOUS
<1> QED BY <1>1 DEF Before

\* The two parts of a block stand where it stood.
LEMMA SplitInPlace ==
  ASSUME NEW l \in Seq(Block), NEW x \in Block, NEW k \in Nat \ {0}, Cuts(x, k)
  PROVE  /\ SplitHead(x, k) \in Block /\ SplitRest(x, k) \in Block
         /\ Before(l, <<x>>) => Before(l, <<SplitHead(x, k)>>) /\ Before(l, <<SplitRest(x, k)>>)
         /\ Before(<<x>>, l) => Before(<<SplitHead(x, k)>>, l) /\ Before(<<SplitRest(x, k)>>, l)
         /\ Good(<<x>>) => Good(<<SplitHead(x, k)>>) /\ Good(<<SplitRest(x, k)>>)
         /\ Before(<<SplitHead(x, k)>>, <<SplitRest(x, k)>>)
         /\ SplitHead(x, k).block = x.block /\ SplitHead(x, k).type = x.type
         /\ SplitHead(x, k).len = k * BlockSize /\ SplitRest(x, k).type = x.type
<1>1. PICK y, z : y = SplitHead(x, k) /\ z = SplitRest(x, k)
  OBVIOUS
<1>2. /\ y \in Block /\ z \in Block /\ EndOf(y) = x.block + k /\ EndOf(z) = EndOf(x) /\ x.block + k < EndOf(x)
  BY <1>1, SplitFacts DEF Cuts
<1>3. /\ y.block = x.block /\ z.block = x.block + k /\ y.type = x.type /\ z.type = x.type
      /\ y.len = k * BlockSize
  BY <1>1 DEF SplitHead, SplitRest, Backed
<1>4. x.block \in Nat /\ EndOf(x) \in Nat /\ ImageBlocks \in Nat
  BY BlockFacts, Sizes
<1>5. ASSUME Before(l, <<x>>) PROVE Before(l, <<y>>) /\ Before(l, <<z>>)
  <2>1. ASSUME NEW i \in 1 .. Len(l) PROVE EndOf(l[i]) <= y.block /\ EndOf(l[i]) <= z.block
    <3>1. EndOf(l[i]) <= x.block
      BY <1>5, BeforeOne
    <3>2. EndOf(l[i]) \in Nat
      <4>1. l[i] \in Block
        OBVIOUS
      <4> QED BY <4>1, BlockFacts
    <3> QED BY <3>1, <3>2, <1>3, <1>4
  <2> QED BY <2>1, <1>2, BeforeOne
<1>6. ASSUME Before(<<x>>, l) PROVE Before(<<y>>, l) /\ Before(<<z>>, l)
  <2>1. ASSUME NEW j \in 1 .. Len(l) PROVE EndOf(y) <= l[j].block /\ EndOf(z) <= l[j].block
    <3>1. EndOf(x) <= l[j].block
      BY <1>6, BeforeOne
    <3>2. l[j].block \in Nat
      <4>1. l[j] \in Block
        OBVIOUS
      <4> QED BY <4>1, BlockFacts
    <3> QED BY <3>1, <3>2, <1>2, <1>4, SMTT(40)
  <2> QED BY <2>1, <1>2, BeforeOne
<1>7. ASSUME Good(<<x>>) PROVE Good(<<y>>) /\ Good(<<z>>)
  <2>1. EndOf(x) <= ImageBlocks
    BY <1>7, ListOfOne
  <2>2. EndOf(y) <= ImageBlocks /\ EndOf(z) <= ImageBlocks
    BY <2>1, <1>2, <1>4
  <2> QED BY <2>2, <1>2, ListOfOne
<1>8. Before(<<y>>, <<z>>)
  <2>1. Len(<<y>>) = 1 /\ <<y>>[1] = y /\ <<y>> \in Seq(Block) /\ 1 .. 1 = {1}
    BY <1>2
  <2>2. EndOf(y) <= z.block
    BY <1>2, <1>3, <1>4
  <2> QED BY <2>1, <2>2, <1>2, BeforeOne, ZenonT(60)
<1> QED BY <1>1, <1>2, <1>3, <1>5, <1>6, <1>7, <1>8

\* Nothing is lost, doubled or out of place.
LEMMA MoveKeeps ==
  ASSUME NEW l \in Seq(Block), Good(l), NEW max_len \in Limits,
         NEW m, m = move_chunks_up_to_len(l, max_len)
  PROVE  /\ m.moved \in Seq(Block) /\ m.left \in Seq(Block)
         /\ Good(m.moved \o m.left)
         /\ CellsOf(m.moved) \cup CellsOf(m.left) = CellsOf(l)
         /\ \A t \in Seq(Block) : Before(t, l) => Before(t, m.moved) /\ Before(t, m.left)
         /\ ~m.more => m.moved = l /\ m.left = <<>>
         /\ m.more \in BOOLEAN
<1>1. CASE m = [moved |-> l, left |-> <<>>, more |-> FALSE]
  <2>1. /\ m.moved = l /\ m.left = <<>> /\ m.more = FALSE
    BY <1>1
  <2>2. /\ l \o <<>> = l /\ CellsOf(<<>>) = {} /\ <<>> \in Seq(Block)
    BY EmptyList
  <2>3. \A t : Before(t, <<>>)
    BY DEF Before
  <2> QED BY <2>1, <2>2, <2>3
<1>2. ASSUME NEW a \in Seq(Block), NEW b \in Seq(Block), NEW x \in Block, l = (a \o <<x>>) \o b,
             CutAt(a, x, b, max_len, m)
      PROVE  /\ m.moved \in Seq(Block) /\ m.left \in Seq(Block)
             /\ Good(m.moved \o m.left)
             /\ CellsOf(m.moved) \cup CellsOf(m.left) = CellsOf(l)
             /\ \A t \in Seq(Block) : Before(t, l) => Before(t, m.moved) /\ Before(t, m.left)
             /\ m.more = TRUE
  <2>0. PICK s \in Seq(Block) : s = <<x>>
    BY ListOfOne
  <2>1. a \o s \in Seq(Block) /\ s \o b \in Seq(Block)
    BY Concat
  <2>2. /\ Good(a) /\ Good(s) /\ Before(a, s) /\ Good(b) /\ Before(a, b) /\ Before(s, b)
    <3>1. l = (a \o s) \o b
      BY <1>2, <2>0
    <3>2. Good(a \o s) /\ Good(b) /\ Before(a \o s, b)
      BY <3>1, <2>1, GoodConcat
    <3>3. Good(a) /\ Good(s) /\ Before(a, s)
      BY <3>2, GoodConcat
    <3>4. Before(a, b) /\ Before(s, b)
      BY <3>2, BeforeConcat
    <3> QED BY <3>2, <3>3, <3>4
  <2>3. CellsOf(l) = CellsOf(a) \cup CellsOf(s) \cup CellsOf(b)
    <3>1. l = (a \o s) \o b
      BY <1>2, <2>0
    <3>2. CellsOf(l) = CellsOf(a \o s) \cup CellsOf(b)
      BY <3>1, <2>1, CellsConcat
    <3>3. CellsOf(a \o s) = CellsOf(a) \cup CellsOf(s)
      BY CellsConcat
    <3> QED BY <3>2, <3>3
  <2>4. ASSUME NEW t \in Seq(Block), Before(t, l) PROVE Before(t, a) /\ Before(t, s) /\ Before(t, b)
    <3>1. PICK as \in Seq(Block) : as = a \o s
      BY <2>1
    <3>2. Before(t, as \o b)
      BY <1>2, <2>0, <2>4, <3>1
    <3>3. Before(t, as) /\ Before(t, b)
      BY <3>2, BeforeConcat
    <3>4. Before(t, a) /\ Before(t, s)
      BY <3>1, <3>3, BeforeConcat
    <3> QED BY <3>3, <3>4
  <2>5. CASE m = [moved |-> a \o s, left |-> b, more |-> TRUE]
    <3>1. m.moved = a \o s /\ m.left = b /\ m.more = TRUE
      BY <2>5
    <3>2. CellsOf(a \o s) = CellsOf(a) \cup CellsOf(s)
      BY CellsConcat
    <3>3. \A t \in Seq(Block) : Before(t, l) => Before(t, a \o s) /\ Before(t, b)
      BY <2>4, BeforeConcat
    <3> QED BY <3>1, <3>2, <3>3, <2>0, <2>1, <2>3, <1>2
  <2>6. CASE m = [moved |-> a, left |-> s \o b, more |-> TRUE]
    <3>1. m.moved = a /\ m.left = s \o b /\ m.more = TRUE
      BY <2>6
    <3>2. CellsOf(s \o b) = CellsOf(s) \cup CellsOf(b)
      BY CellsConcat
    <3>3. \A t \in Seq(Block) : Before(t, l) => Before(t, a) /\ Before(t, s \o b)
      BY <2>4, BeforeConcat
    <3>4. Good(a \o (s \o b))
      <4>1. Good(s \o b)
        BY <2>2, GoodConcat
      <4>2. Before(a, s \o b)
        BY <2>2, BeforeConcat
      <4> QED BY <4>1, <4>2, <2>1, <2>2, GoodConcat
    <3> QED BY <3>1, <3>2, <3>3, <3>4, <2>1, <2>3
  <2>7. ASSUME NEW k \in Nat \ {0}, Cuts(x, k),
               m = [moved |-> a \o <<SplitHead(x, k)>>, left |-> <<SplitRest(x, k)>> \o b, more |-> TRUE]
        PROVE  /\ m.moved \in Seq(Block) /\ m.left \in Seq(Block)
               /\ Good(m.moved \o m.left)
               /\ CellsOf(m.moved) \cup CellsOf(m.left) = CellsOf(l)
               /\ \A t \in Seq(Block) : Before(t, l) => Before(t, m.moved) /\ Before(t, m.left)
               /\ m.more = TRUE
    <3>0. SplitHead(x, k) \in Block /\ SplitRest(x, k) \in Block
      BY <2>7, SplitInPlace
    <3>1. PICK y, z \in Seq(Block) : y = <<SplitHead(x, k)>> /\ z = <<SplitRest(x, k)>>
      BY <3>0, ListOfOne
    <3>2. /\ Good(y) /\ Good(z) /\ Before(y, z)
      BY <2>0, <2>2, <2>7, <3>1, SplitInPlace
    <3>3. ASSUME NEW t \in Seq(Block), Before(t, s) PROVE Before(t, y) /\ Before(t, z)
      BY <2>0, <2>7, <3>1, <3>3, SplitInPlace
    <3>4. ASSUME NEW t \in Seq(Block), Before(s, t) PROVE Before(y, t) /\ Before(z, t)
      BY <2>0, <2>7, <3>1, <3>4, SplitInPlace
    <3>5. CellsOf(s) = CellsOf(y) \cup CellsOf(z)
      <4>1. BlockCells(x) = BlockCells(SplitHead(x, k)) \cup BlockCells(SplitRest(x, k))
        BY <2>7, SplitCells DEF Cuts
      <4> QED BY <4>1, <2>0, <3>0, <3>1, ListOfOne
    <3>6. m.moved = a \o y /\ m.left = z \o b /\ m.more = TRUE
      BY <2>7, <3>1, SMTT(40)
    <3>7. a \o y \in Seq(Block) /\ z \o b \in Seq(Block)
      BY Concat
    <3>8. CellsOf(a \o y) = CellsOf(a) \cup CellsOf(y) /\ CellsOf(z \o b) = CellsOf(z) \cup CellsOf(b)
      BY CellsConcat
    <3>9. \A t \in Seq(Block) : Before(t, l) => Before(t, a \o y) /\ Before(t, z \o b)
      BY <2>4, <3>3, BeforeConcat
    <3>10. Good((a \o y) \o (z \o b))
      <4>1. Good(a \o y)
        BY <2>2, <3>2, <3>3, GoodConcat
      <4>2. Good(z \o b)
        BY <2>2, <3>2, <3>4, GoodConcat
      <4>3. Before(a, z \o b) /\ Before(y, z \o b)
        BY <2>2, <3>2, <3>3, <3>4, BeforeConcat
      <4>4. Before(a \o y, z \o b)
        BY <4>3, <3>7, BeforeConcat, ZenonT(60)
      <4> QED BY <4>1, <4>2, <4>4, <3>7, GoodConcat
    <3>11. CellsOf(m.moved) \cup CellsOf(m.left) = CellsOf(l)
      BY <3>5, <3>6, <3>8, <2>3
    <3> QED BY <3>6, <3>7, <3>9, <3>10, <3>11
  <2> QED BY <1>2, <2>0, <2>5, <2>6, <2>7 DEF CutAt, WholeBlocks
<1> QED BY <1>1, <1>2, MoveCases

\* Something is always taken off a list, starting with its first block.
LEMMA MoveTakes ==
  ASSUME NEW l \in Seq(Block), Good(l), l # <<>>, NEW max_len \in Limits,
         NEW m, m = move_chunks_up_to_len(l, max_len)
  PROVE  m.moved # <<>> /\ m.moved[1].block = l[1].block
<1>1. CASE m = [moved |-> l, left |-> <<>>, more |-> FALSE]
  BY <1>1
<1>2. ASSUME NEW a \in Seq(Block), NEW b \in Seq(Block), NEW x \in Block, l = (a \o <<x>>) \o b,
             CutAt(a, x, b, max_len, m)
      PROVE  m.moved # <<>> /\ m.moved[1].block = l[1].block
  <2>1. ASSUME NEW y \in Block, y.block = x.block
        PROVE  a \o <<y>> # <<>> /\ (a \o <<y>>)[1].block = l[1].block
    <3>1. /\ Len(l) = Len(a) + 1 + Len(b) /\ l[Len(a) + 1] = x /\ \A i \in 1 .. Len(a) : l[i] = a[i]
      BY <1>2, Around
    <3>2. /\ <<y>> \in Seq(Block) /\ Len(a \o <<y>>) = Len(a) + 1
          /\ \A i \in 1 .. Len(a) : (a \o <<y>>)[i] = a[i]
          /\ (a \o <<y>>)[Len(a) + 1] = y
      BY ListOfOne
    <3>3. CASE Len(a) = 0
      BY <3>1, <3>2, <3>3, <2>1
    <3>4. CASE Len(a) # 0
      <4>1. 1 \in 1 .. Len(a)
        BY <3>4
      <4> QED BY <3>1, <3>2, <4>1
    <3> QED BY <3>3, <3>4
  <2>2. CASE m = [moved |-> a \o <<x>>, left |-> b, more |-> TRUE]
    BY <2>1, <2>2, SMTT(40)
  <2>3. CASE /\ ~Splits(a, max_len)
             /\ m = [moved |-> a, left |-> <<x>> \o b, more |-> TRUE]
    <3>1. a # <<>> /\ 1 \in 1 .. Len(a)
      BY <2>3 DEF Splits
    <3>2. \A i \in 1 .. Len(a) : l[i] = a[i]
      BY <1>2, Around
    <3>3. m.moved = a
      BY <2>3
    <3> QED BY <3>1, <3>2, <3>3
  <2>4. ASSUME NEW k \in Nat \ {0}, Cuts(x, k),
               m = [moved |-> a \o <<SplitHead(x, k)>>, left |-> <<SplitRest(x, k)>> \o b, more |-> TRUE]
        PROVE  m.moved # <<>> /\ m.moved[1].block = l[1].block
    <3>1. SplitHead(x, k) \in Block /\ SplitHead(x, k).block = x.block
      BY <2>4, SplitInPlace, ZenonT(60)
    <3>2. m.moved = a \o <<SplitHead(x, k)>>
      BY <2>4
    <3> QED BY <2>1, <3>1, <3>2
  <2> QED BY <1>2, <2>2, <2>3, <2>4 DEF CutAt, WholeBlocks
<1> QED BY <1>1, <1>2, MoveCases

\* What is moved is within the budget, but for the header of one skip chunk.
LEMMA MoveFits ==
  ASSUME NEW l \in Seq(Block), NEW max_len \in Limits,
         NEW m, m = move_chunks_up_to_len(l, max_len)
  PROVE  Bytes(m.moved) \in Nat /\ Bytes(m.moved) <= Budget(max_len) + 12
<1>0. Budget(max_len) \in Nat /\ BlockSize \in Nat /\ BlockSize >= 4
  BY BudgetFacts, Sizes
<1>1. ASSUME NEW a \in Seq(Block), \A j \in 1 .. Len(a) : BytesUpTo(a, j) <= Budget(max_len)
      PROVE  Bytes(a) \in Nat /\ Bytes(a) <= Budget(max_len)
  <2>1. Bytes(a) \in Nat
    BY BytesNat DEF Bytes
  <2>2. CASE Len(a) = 0
    BY <2>2, <1>0, BytesStep DEF Bytes
  <2>3. CASE Len(a) # 0
    <3>1. Len(a) \in 1 .. Len(a)
      BY <2>3
    <3> QED BY <1>1, <2>1, <3>1 DEF Bytes
  <2> QED BY <2>1, <2>2, <2>3
<1>2. CASE /\ \A j \in 1 .. Len(l) : BytesUpTo(l, j) <= Budget(max_len)
           /\ m = [moved |-> l, left |-> <<>>, more |-> FALSE]
  <2>1. m.moved = l
    BY <1>2
  <2> QED BY <2>1, <1>0, <1>1, <1>2
<1>3. ASSUME NEW a \in Seq(Block), NEW b \in Seq(Block), NEW x \in Block, Over(a, x, max_len),
             CutAt(a, x, b, max_len, m)
      PROVE  Bytes(m.moved) \in Nat /\ Bytes(m.moved) <= Budget(max_len) + 12
  <2>0. Bytes(a) \in Nat /\ Bytes(a) <= Budget(max_len)
    BY <1>1, <1>3 DEF Over
  <2>1. ASSUME NEW y \in Block, NEW k, Splits(a, max_len), WholeBlocks(a, k, max_len), Holds(y, k)
        PROVE  Bytes(a \o <<y>>) \in Nat /\ Bytes(a \o <<y>>) <= Budget(max_len) + 12
    <3>1. k \in Nat /\ k * BlockSize \in Nat /\ k * BlockSize <= Budget(max_len) - (Bytes(a) + 12)
      <4>1. k \in Nat \ {0}
        BY <2>1 DEF WholeBlocks
      <4> QED BY <4>1, <2>1, DivUpWhole DEF WholeBlocks, RoomAfter
    <3>2. k * BlockSize >= BlockSize
      <4>1. k \in Nat \ {0}
        BY <2>1 DEF WholeBlocks
      <4>2. 0 * BlockSize + BlockSize <= k * BlockSize
        BY <4>1, Multiples
      <4> QED BY <4>2, <1>0, <3>1
    <3>3. y.len \in Nat \ {0} /\ y.len <= k * BlockSize
      BY <2>1, BlockFacts DEF Holds
    <3>4. DivUp(y.len) * BlockSize <= k * BlockSize /\ DivUp(y.len) * BlockSize \in Nat
      BY <3>1, <3>3, DivUpMost, DivUpBounds
    <3>5. ChunkBytes(y) <= 12 + k * BlockSize
      <4>1. PICK c \in Nat : c = k * BlockSize /\ c >= 4
        BY <3>1, <3>2, <1>0, SMTT(40)
      <4>2. PICK d \in Nat : d = DivUp(y.len) * BlockSize /\ d <= c
        BY <3>4, <4>1
      <4>3. CASE y.type = "fill"
        <5>1. ChunkBytes(y) = 16
          BY <4>3, ChunkBytesFacts
        <5> QED BY <4>1, <5>1
      <4>4. CASE y.type # "fill"
        <5>1. ChunkBytes(y) = 12 + d
          BY <4>2, <4>4, ChunkBytesFacts
        <5> QED BY <4>1, <4>2, <5>1
      <4> QED BY <4>3, <4>4
    <3>6. /\ Bytes(a \o <<y>>) = Bytes(a) + ChunkBytes(y) + GapAfter(a, y)
          /\ ChunkBytes(y) \in Nat /\ GapAfter(a, y) \in {0, 12}
      <4>1. <<>> \in Seq(Block)
        BY EmptyList
      <4> QED BY <4>1, BytesAppend
    <3> QED BY <3>1, <3>5, <3>6, <2>0, <1>0, SMTT(40)
  <2>2. CASE \E k : /\ Splits(a, max_len) /\ WholeBlocks(a, k, max_len) /\ Holds(x, k)
                    /\ m = [moved |-> a \o <<x>>, left |-> b, more |-> TRUE]
    <3>1. m.moved = a \o <<x>>
      BY <2>2
    <3> QED BY <2>1, <2>2, <3>1
  <2>3. CASE m = [moved |-> a, left |-> <<x>> \o b, more |-> TRUE]
    <3>1. m.moved = a
      BY <2>3
    <3> QED BY <3>1, <2>0, <1>0
  <2>4. CASE \E k : /\ Splits(a, max_len) /\ WholeBlocks(a, k, max_len) /\ Cuts(x, k)
                    /\ m = [moved |-> a \o <<SplitHead(x, k)>>, left |-> <<SplitRest(x, k)>> \o b, more |-> TRUE]
    <3>1. PICK k : /\ Splits(a, max_len) /\ WholeBlocks(a, k, max_len) /\ Cuts(x, k)
                   /\ m = [moved |-> a \o <<SplitHead(x, k)>>, left |-> <<SplitRest(x, k)>> \o b, more |-> TRUE]
      BY <2>4
    <3>2. k \in Nat \ {0}
      BY <3>1 DEF WholeBlocks
    <3>3. PICK y \in Block : y = SplitHead(x, k) /\ y.len = k * BlockSize
      <4>1. SplitHead(x, k) \in Block /\ SplitHead(x, k).len = k * BlockSize
        BY <3>1, <3>2, SplitInPlace, EmptyList, ZenonT(60)
      <4> QED BY <4>1
    <3>4. Holds(y, k)
      <4>1. k * BlockSize \in Nat
        BY <3>2, DivUpWhole
      <4> QED BY <3>3, <4>1 DEF Holds
    <3>5. m.moved = a \o <<y>>
      BY <3>1, <3>3
    <3> QED BY <2>1, <3>1, <3>4, <3>5
  <2> QED BY <1>3, <2>2, <2>3, <2>4 DEF CutAt
<1> QED BY <1>2, <1>3, MoveCases

----------------------------------------------------------------------------
(* The second pass makes the files of the first.  It finds the list as the *)
(* first one left it, with what that has cut still cut.                    *)

\* A list that starts like l, but for a cut that was made at the start of a file.
SameStart(x, y, max_len) ==
  /\ y.block = x.block /\ y.type = x.type
  /\ y.len = x.len \/ (y.type # "fill" /\ \E k : WholeBlocks(<<>>, k, max_len) /\ y.len = k * BlockSize)
Alike(l, g, max_len) ==
  \/ l = <<>> /\ g = <<>>
  \/ l # <<>> /\ g # <<>> /\ SameStart(l[1], g[1], max_len)

\* A list that is not empty, by its first block.
LEMMA HeadAndTail ==
  ASSUME NEW g \in Seq(Block), g # <<>>
  PROVE  \E h \in Block, t \in Seq(Block) :
           h = g[1] /\ g = <<h>> \o t /\ \A a \in Seq(Block) : a \o g = (a \o <<h>>) \o t
<1>1. g[1] \in Block /\ Tail(g) \in Seq(Block) /\ Len(Tail(g)) = Len(g) - 1
      /\ \A i \in 1 .. Len(g) - 1 : Tail(g)[i] = g[i + 1]
  OBVIOUS
<1>2. PICK h \in Block : h = g[1]
  BY <1>1
<1>3. PICK t \in Seq(Block) : t = Tail(g)
  BY <1>1
<1>4. g = <<h>> \o t
  BY <1>1, <1>2, <1>3
<1>5. ASSUME NEW a \in Seq(Block) PROVE a \o (<<h>> \o t) = (a \o <<h>>) \o t
  BY SMTT(40)
<1>6. \A a \in Seq(Block) : a \o g = (a \o <<h>>) \o t
  BY <1>4, <1>5
<1> QED BY <1>2, <1>4, <1>6

\* Where lists that have the same blocks in front start.
LEMMA FirstOf ==
  ASSUME NEW a \in Seq(Block), NEW x \in Block, NEW b \in Seq(Block)
  PROVE  /\ (a \o <<x>>) \o b # <<>>
         /\ ((a \o <<x>>) \o b)[1] = IF a = <<>> THEN x ELSE a[1]
<1>1. PICK n : n = (a \o <<x>>) \o b
  OBVIOUS
<1>2. /\ Len(n) = Len(a) + 1 + Len(b) /\ n[Len(a) + 1] = x /\ \A i \in 1 .. Len(a) : n[i] = a[i]
  BY <1>1, Around
<1>3. CASE a = <<>>
  BY <1>1, <1>2, <1>3
<1>4. CASE a # <<>>
  <2>1. 1 \in 1 .. Len(a)
    BY <1>4
  <2> QED BY <1>1, <1>2, <1>4, <2>1
<1> QED BY <1>3, <1>4

\* Behind the same blocks, lists whose next blocks start alike are alike.
LEMMA AlikeInFront ==
  ASSUME NEW a \in Seq(Block), NEW x \in Block, NEW y \in Block, NEW b \in Seq(Block), NEW c \in Seq(Block),
         NEW max_len, a = <<>> => SameStart(x, y, max_len)
  PROVE  Alike((a \o <<x>>) \o b, (a \o <<y>>) \o c, max_len)
<1>1. PICK m, n : m = (a \o <<x>>) \o b /\ n = (a \o <<y>>) \o c
  OBVIOUS
<1>2. m # <<>> /\ n # <<>> /\ m[1] = (IF a = <<>> THEN x ELSE a[1]) /\ n[1] = (IF a = <<>> THEN y ELSE a[1])
  BY <1>1, FirstOf
<1>3. SameStart(m[1], n[1], max_len)
  <2>1. CASE a = <<>>
    BY <2>1, <1>2
  <2>2. CASE a # <<>>
    BY <2>2, <1>2 DEF SameStart
  <2> QED BY <2>1, <2>2
<1> QED BY <1>1, <1>2, <1>3 DEF Alike

\* After a part of a block, the rest of it is over the budget and not split, or
\* the part itself is over it because of the gap before it.
LEMMA AgainSplit ==
  ASSUME NEW a \in Seq(Block), NEW x \in Block, NEW max_len \in Limits, NEW k, NEW g \in Seq(Block),
         Over(a, x, max_len), Splits(a, max_len), WholeBlocks(a, k, max_len), Cuts(x, k),
         g # <<>>, g[1].type = x.type
  PROVE  move_chunks_up_to_len((a \o <<SplitHead(x, k)>>) \o g, max_len) =
           [moved |-> a \o <<SplitHead(x, k)>>, left |-> g, more |-> TRUE]
<1>0. /\ Budget(max_len) \in Nat /\ Budget(max_len) \div 8 \in Nat /\ Budget(max_len) \div 8 >= BlockSize
      /\ BlockSize \in Nat /\ BlockSize >= 4
  BY BudgetFacts, Sizes
<1>1. k \in Nat \ {0} /\ k * BlockSize \in Nat
  <2>1. k \in Nat \ {0}
    BY DEF WholeBlocks
  <2> QED BY <2>1, DivUpWhole
<1>2. PICK y \in Block : /\ y = SplitHead(x, k) /\ y.len = k * BlockSize
                         /\ y.block = x.block /\ y.type = x.type
  <2>1. /\ SplitHead(x, k) \in Block /\ SplitHead(x, k).len = k * BlockSize
        /\ SplitHead(x, k).block = x.block /\ SplitHead(x, k).type = x.type
    BY <1>1, SplitInPlace, EmptyList, ZenonT(60)
  <2> QED BY <2>1
<1>3. GapAfter(a, y) = GapAfter(a, x)
  BY <1>2 DEF GapAfter
<1>4. Holds(y, k)
  BY <1>1, <1>2 DEF Holds
<1>5. CASE Over(a, y, max_len)
  BY <1>2, <1>4, <1>5, MoveWhole, ZenonT(60)
<1>6. CASE ~Over(a, y, max_len)
  <2>1. /\ Bytes(a) \in Nat /\ ChunkBytes(y) \in Nat /\ GapAfter(a, y) \in {0, 12}
        /\ Bytes(a \o <<y>>) = Bytes(a) + ChunkBytes(y) + GapAfter(a, y)
        /\ \A j \in 0 .. Len(a) : BytesUpTo(a \o <<y>>, j) = BytesUpTo(a, j)
    BY EmptyList, BytesAppend
  <2>2. Bytes(a \o <<y>>) <= Budget(max_len)
    BY <2>1, <1>0, <1>6, SMTT(40) DEF Over
  <2>3. y.type # "fill"
    <3> SUFFICES ASSUME y.type = "fill" PROVE FALSE
      OBVIOUS
    <3>1. ChunkBytes(y) = 16 /\ ChunkBytes(x) = 16
      BY <1>2, ChunkBytesFacts
    <3> QED BY <3>1, <1>3, <1>6 DEF Over
  <2>4. ChunkBytes(y) = 12 + k * BlockSize
    <3>1. DivUp(k * BlockSize) = k
      BY <1>1, DivUpWhole
    <3> QED BY <3>1, <1>2, <2>3, ChunkBytesFacts
  <2>5. Budget(max_len) - (Bytes(a) + 12) < k * BlockSize + BlockSize
    BY DEF WholeBlocks, RoomAfter
  <2>6. PICK h \in Block, t \in Seq(Block) :
          h = g[1] /\ g = <<h>> \o t /\ \A c \in Seq(Block) : c \o g = (c \o <<h>>) \o t
    BY HeadAndTail
  <2>7. ChunkBytes(h) >= 12 + BlockSize /\ ChunkBytes(h) \in Nat
    <3>1. h.type # "fill"
      BY <1>2, <2>3, <2>6
    <3>2. DivUp(h.len) * BlockSize \in Nat
      BY BlockFacts, DivUpBounds
    <3> QED BY <3>1, <3>2, <1>0, ChunkBytesFacts, SMTT(40)
  <2>8. PICK ay \in Seq(Block) : ay = a \o <<y>> /\ Len(ay) = Len(a) + 1
    <3>1. a \o <<y>> \in Seq(Block) /\ Len(a \o <<y>>) = Len(a) + 1
      OBVIOUS
    <3> QED BY <3>1
  <2>9. PICK kb, cy, ba, bu, gp \in Nat :
          kb = k * BlockSize /\ cy = ChunkBytes(y) /\ ba = Bytes(a) /\ bu = Budget(max_len) /\ gp = GapAfter(a, y)
    BY <1>0, <1>1, <2>1
  <2>10. Over(ay, h, max_len)
    <3>1. ASSUME NEW j \in 1 .. Len(ay) PROVE BytesUpTo(ay, j) <= Budget(max_len)
      <4>1. CASE j = Len(ay)
        BY <4>1, <2>2, <2>8 DEF Bytes
      <4>2. CASE j # Len(ay)
        <5>1. j \in 0 .. Len(a) /\ j \in 1 .. Len(a)
          BY <4>2, <2>8
        <5> QED BY <5>1, <2>1, <2>8 DEF Over
      <4> QED BY <4>1, <4>2
    <3>2. GapAfter(ay, h) \in {0, 12}
      BY DEF GapAfter
    <3>3. Bytes(ay) = ba + (12 + kb) + gp
      BY <2>1, <2>4, <2>8, <2>9
    <3>4. bu - (ba + 12) < kb + BlockSize
      BY <2>5, <2>9
    <3>5. Bytes(ay) + ChunkBytes(h) + GapAfter(ay, h) > bu
      BY <3>2, <3>3, <3>4, <2>7, <1>0, SMTT(40)
    <3> QED BY <3>1, <3>5, <2>9 DEF Over
  <2>11. ~Splits(ay, max_len)
    <3>1. Bytes(ay) = ba + (12 + kb) + gp
      BY <2>1, <2>4, <2>8, <2>9
    <3>2. bu - (ba + 12) < kb + BlockSize
      BY <2>5, <2>9
    <3>3. PICK e \in Nat : e = bu \div 8 /\ e >= BlockSize
      BY <1>0, <2>9
    <3>4. ~(bu - (Bytes(ay) + 12) > e)
      BY <3>1, <3>2, <3>3, <1>0
    <3>5. ay # <<>>
      BY <2>8
    <3> QED BY <3>3, <3>4, <3>5, <2>9 DEF Splits, RoomAfter
  <2>12. move_chunks_up_to_len((ay \o <<h>>) \o t, max_len) = [moved |-> ay, left |-> <<h>> \o t, more |-> TRUE]
    BY <2>10, <2>11, MoveBefore
  <2>13. ay \o g = (ay \o <<h>>) \o t
    BY <2>6
  <2> QED BY <1>2, <2>6, <2>8, <2>12, <2>13
<1> QED BY <1>5, <1>6

\* A block that did not fit after a list does not fit there either when the next
\* file has cut it: what that took is nearly a file of its own.
LEMMA AgainBefore ==
  ASSUME NEW a \in Seq(Block), NEW x \in Block, NEW max_len \in Limits, NEW h \in Block,
         Over(a, x, max_len), ~Splits(a, max_len), SameStart(x, h, max_len)
  PROVE  Over(a, h, max_len)
<1>0. /\ Budget(max_len) \in Nat /\ Budget(max_len) \div 8 \in Nat /\ Budget(max_len) \div 8 >= BlockSize
      /\ 8 * (Budget(max_len) \div 8) <= Budget(max_len)
      /\ BlockSize \in Nat /\ BlockSize >= 4
  BY BudgetFacts, Sizes
<1>1. Bytes(a) \in Nat /\ ChunkBytes(h) \in Nat /\ GapAfter(a, h) \in {0, 12}
  BY EmptyList, BytesAppend
<1>2. GapAfter(a, h) = GapAfter(a, x)
  BY DEF GapAfter, SameStart
<1>3. CASE ChunkBytes(h) = ChunkBytes(x)
  BY <1>2, <1>3 DEF Over
<1>4. CASE h.type # "fill" /\ \E k : WholeBlocks(<<>>, k, max_len) /\ h.len = k * BlockSize
  <2>1. PICK k : WholeBlocks(<<>>, k, max_len) /\ h.len = k * BlockSize
    BY <1>4
  <2>2. PICK bu, e, ba, gp \in Nat :
          bu = Budget(max_len) /\ e = Budget(max_len) \div 8 /\ ba = Bytes(a) /\ gp = GapAfter(a, h)
    BY <1>0, <1>1
  <2>3. k \in Nat \ {0}
    BY <2>1 DEF WholeBlocks
  <2>4. PICK kb \in Nat : kb = k * BlockSize
    BY <2>3, DivUpWhole
  <2>5. bu - 12 < kb + BlockSize
    <3>1. Bytes(<<>>) = 0
      BY BytesStep DEF Bytes
    <3> QED BY <3>1, <2>1, <2>2, <2>4 DEF WholeBlocks, RoomAfter
  <2>6. ChunkBytes(h) = 12 + kb
    <3>1. DivUp(k * BlockSize) = k
      BY <2>3, DivUpWhole
    <3> QED BY <3>1, <1>4, <2>1, <2>4, ChunkBytesFacts
  <2>7. ~(bu - (ba + 12) > e)
    BY <2>2 DEF Splits, RoomAfter
  <2>8. ba + (12 + kb) + gp > bu
    <3>1. e >= BlockSize /\ 8 * e <= bu
      BY <1>0, <2>2
    <3> QED BY <3>1, <2>5, <2>7, <1>0
  <2> QED BY <2>2, <2>6, <2>8 DEF Over
<1>5. ChunkBytes(h) = ChunkBytes(x) \/ (h.type # "fill" /\ \E k : WholeBlocks(<<>>, k, max_len) /\ h.len = k * BlockSize)
  BY DEF SameStart, ChunkBytes
<1> QED BY <1>3, <1>4, <1>5

\* What was moved once is moved again in front of any list like the one left.
LEMMA MoveAgain ==
  ASSUME NEW l \in Seq(Block), NEW max_len \in Limits,
         NEW m, m = move_chunks_up_to_len(l, max_len), m.more,
         NEW g \in Seq(Block), Alike(m.left, g, max_len)
  PROVE  /\ move_chunks_up_to_len(m.moved \o g, max_len) = [moved |-> m.moved, left |-> g, more |-> TRUE]
         /\ Alike(l, m.moved \o g, max_len)
<1>1. PICK a, b \in Seq(Block), x \in Block :
        l = (a \o <<x>>) \o b /\ Over(a, x, max_len) /\ CutAt(a, x, b, max_len, m)
  <2>1. ~(m = [moved |-> l, left |-> <<>>, more |-> FALSE])
    OBVIOUS
  <2> QED BY <2>1, MoveCases
<1>2. CASE \E k : /\ Splits(a, max_len) /\ WholeBlocks(a, k, max_len) /\ Holds(x, k)
                  /\ m = [moved |-> a \o <<x>>, left |-> b, more |-> TRUE]
  <2>1. PICK k : /\ Splits(a, max_len) /\ WholeBlocks(a, k, max_len) /\ Holds(x, k)
                 /\ m = [moved |-> a \o <<x>>, left |-> b, more |-> TRUE]
    BY <1>2
  <2>2. m.moved = a \o <<x>>
    BY <2>1
  <2>3. move_chunks_up_to_len((a \o <<x>>) \o g, max_len) = [moved |-> a \o <<x>>, left |-> g, more |-> TRUE]
    BY <1>1, <2>1, MoveWhole, ZenonT(60)
  <2>4. Alike((a \o <<x>>) \o b, (a \o <<x>>) \o g, max_len)
    <3>1. SameStart(x, x, max_len)
      BY DEF SameStart
    <3> QED BY <3>1, AlikeInFront
  <2> QED BY <1>1, <2>2, <2>3, <2>4
<1>3. CASE \E k : /\ Splits(a, max_len) /\ WholeBlocks(a, k, max_len) /\ Cuts(x, k)
                  /\ m = [moved |-> a \o <<SplitHead(x, k)>>, left |-> <<SplitRest(x, k)>> \o b, more |-> TRUE]
  <2>1. PICK k : /\ Splits(a, max_len) /\ WholeBlocks(a, k, max_len) /\ Cuts(x, k)
                 /\ m = [moved |-> a \o <<SplitHead(x, k)>>, left |-> <<SplitRest(x, k)>> \o b, more |-> TRUE]
    BY <1>3
  <2>2. k \in Nat \ {0}
    BY <2>1 DEF WholeBlocks
  <2>3. PICK y, z \in Block : /\ y = SplitHead(x, k) /\ z = SplitRest(x, k) /\ y.block = x.block /\ y.type = x.type
                              /\ z.type = x.type /\ y.len = k * BlockSize
    <3>1. /\ SplitHead(x, k) \in Block /\ SplitRest(x, k) \in Block
          /\ SplitHead(x, k).block = x.block /\ SplitHead(x, k).type = x.type
          /\ SplitHead(x, k).len = k * BlockSize /\ SplitRest(x, k).type = x.type
      BY <2>1, <2>2, SplitInPlace, EmptyList, ZenonT(60)
    <3> QED BY <3>1
  <2>4. m.moved = a \o <<y>> /\ m.left = <<z>> \o b
    BY <2>1, <2>3
  <2>5. m.left # <<>> /\ m.left[1] = z
    BY <2>4
  <2>6. g # <<>> /\ g[1].type = x.type
    BY <2>3, <2>5 DEF Alike, SameStart
  <2>7. move_chunks_up_to_len((a \o <<y>>) \o g, max_len) = [moved |-> a \o <<y>>, left |-> g, more |-> TRUE]
    <3>1. move_chunks_up_to_len((a \o <<SplitHead(x, k)>>) \o g, max_len)
            = [moved |-> a \o <<SplitHead(x, k)>>, left |-> g, more |-> TRUE]
      <4>1. /\ Over(a, x, max_len) /\ Splits(a, max_len) /\ WholeBlocks(a, k, max_len) /\ Cuts(x, k)
            /\ g # <<>> /\ g[1].type = x.type
        BY <1>1, <2>1, <2>6
      <4> HIDE <1>1, <2>1, <2>3
      <4> QED BY <4>1, AgainSplit, SMTT(40)
    <3> QED BY <3>1, <2>3, Zenon
  <2>8. ASSUME a = <<>> PROVE SameStart(x, y, max_len)
    <3>1. x.type # "fill"
      <4> SUFFICES ASSUME x.type = "fill" PROVE FALSE
        OBVIOUS
      <4>1. ChunkBytes(x) = 16 /\ Bytes(a) = 0 /\ GapAfter(a, x) \in {0, 12}
        BY <2>8, ChunkBytesFacts, BytesStep DEF Bytes, GapAfter
      <4>2. Budget(max_len) \in Nat /\ Budget(max_len) >= 32
        BY BudgetFacts, Sizes, SMTT(40)
      <4>3. Bytes(a) + ChunkBytes(x) + GapAfter(a, x) > Budget(max_len)
        BY <1>1 DEF Over
      <4> QED BY <4>1, <4>2, <4>3
    <3> QED BY <3>1, <2>1, <2>3, <2>8 DEF SameStart
  <2>9. Alike((a \o <<x>>) \o b, (a \o <<y>>) \o g, max_len)
    BY <2>8, AlikeInFront
  <2> QED BY <1>1, <2>4, <2>7, <2>9
<1>4. CASE ~Splits(a, max_len) /\ m = [moved |-> a, left |-> <<x>> \o b, more |-> TRUE]
  <2>1. m.moved = a /\ m.left = <<x>> \o b
    BY <1>4
  <2>2. m.left # <<>> /\ m.left[1] = x
    BY <2>1
  <2>3. g # <<>> /\ SameStart(x, g[1], max_len)
    BY <2>2 DEF Alike
  <2>4. PICK h \in Block, t \in Seq(Block) :
          h = g[1] /\ g = <<h>> \o t /\ \A c \in Seq(Block) : c \o g = (c \o <<h>>) \o t
    BY <2>3, HeadAndTail
  <2>5. Over(a, h, max_len)
    BY <1>1, <1>4, <2>3, <2>4, AgainBefore
  <2>6. move_chunks_up_to_len((a \o <<h>>) \o t, max_len) = [moved |-> a, left |-> <<h>> \o t, more |-> TRUE]
    BY <1>4, <2>5, MoveBefore, ZenonT(60)
  <2>7. a # <<>>
    BY <1>4 DEF Splits
  <2>8. Alike((a \o <<x>>) \o b, (a \o <<h>>) \o t, max_len)
    BY <2>7, AlikeInFront
  <2>9. a \o g = (a \o <<h>>) \o t
    BY <2>4
  <2> QED BY <1>1, <2>1, <2>4, <2>6, <2>8, <2>9
<1> QED BY <1>1, <1>2, <1>3, <1>4 DEF CutAt

\* A list is like itself.
LEMMA AlikeSelf == \A l, max_len : Alike(l, l, max_len)
BY DEF Alike, SameStart

\* backed_block_list_move of blocks that lie behind the others appends them.
LEMMA MoveAppends ==
  ASSUME NEW to \in Seq(Block), NEW seg \in Seq(Block), Before(to, seg)
  PROVE  backed_block_list_move(seg, to) = to \o seg
<1>1. CASE seg = <<>>
  BY <1>1 DEF backed_block_list_move
<1>2. CASE to = <<>>
  BY <1>2 DEF backed_block_list_move
<1>3. CASE seg # <<>> /\ to # <<>>
  <2> DEFINE P(i) == /\ i = Len(to) \/ to[i + 1].block > seg[1].block
                     /\ \A j \in 1..(i - 1) : to[j + 1].block <= seg[1].block
             at == CHOOSE i \in 1..Len(to) : P(i)
  <2>1. ASSUME NEW i \in 1 .. Len(to) PROVE to[i].block < seg[1].block
    <3>1. to[i] \in Block /\ seg[1] \in Block /\ 1 \in 1 .. Len(seg)
      BY <1>3
    <3>2. EndOf(to[i]) <= seg[1].block
      BY <3>1 DEF Before
    <3>3. to[i].block \in Nat /\ EndOf(to[i]) \in Nat /\ to[i].block < EndOf(to[i]) /\ seg[1].block \in Nat
      BY <3>1, BlockFacts
    <3> QED BY <3>2, <3>3
  <2>2. \A i \in 1 .. Len(to) : to[i].block \in Nat /\ seg[1].block \in Nat
    <3>1. \A i \in 1 .. Len(to) : to[i] \in Block
      OBVIOUS
    <3>2. seg[1] \in Block
      BY <1>3
    <3> QED BY <3>1, <3>2, BlockFacts
  <2>3. Len(to) \in 1 .. Len(to) /\ P(Len(to))
    <3>1. Len(to) \in 1 .. Len(to)
      BY <1>3
    <3>2. ASSUME NEW j \in 1 .. (Len(to) - 1) PROVE to[j + 1].block <= seg[1].block
      <4>1. j + 1 \in 1 .. Len(to)
        OBVIOUS
      <4> QED BY <4>1, <2>1, <2>2
    <3> QED BY <3>1, <3>2
  <2>4. ASSUME NEW i \in 1 .. Len(to), P(i) PROVE i = Len(to)
    <3> SUFFICES ASSUME i # Len(to) PROVE FALSE
      OBVIOUS
    <3>1. i + 1 \in 1 .. Len(to) /\ to[i + 1].block > seg[1].block
      BY <2>4
    <3> QED BY <3>1, <2>1, <2>2
  <2>5. at = Len(to)
    <3> HIDE DEF P
    <3>1. at \in 1 .. Len(to) /\ P(at)
      BY <2>3, SMTT(40)
    <3> QED BY <3>1, <2>4, SMTT(40)
  <2>6. backed_block_list_move(seg, to) = SubSeq(to, 1, at) \o seg \o SubSeq(to, at + 1, Len(to))
    BY <1>3, ZenonT(60) DEF backed_block_list_move
  <2> HIDE DEF at
  <2>7. SubSeq(to, 1, Len(to)) = to /\ SubSeq(to, Len(to) + 1, Len(to)) = <<>> /\ (to \o seg) \o <<>> = to \o seg
    OBVIOUS
  <2> QED BY <2>5, <2>6, <2>7
<1> QED BY <1>1, <1>2, <1>3

----------------------------------------------------------------------------
(* Reading the image: queue_bb of a block that lies behind the others.     *)

EndsBy(l, n) == \A i \in 1 .. Len(l) : EndOf(l[i]) <= n

\* queue_bb of a block behind all others puts it last and merges it.
LEMMA QueueAt ==
  ASSUME NEW l \in Seq(Block), NEW bb \in Block, EndsBy(l, bb.block),
         l # <<>>, NEW used \in 0 .. Len(l)
  PROVE  queue_bb(l, used, bb) =
           [list |-> merge_bb(l \o <<bb>>, Len(l)),
            used |-> IF merge_bb(l \o <<bb>>, Len(l)) = l \o <<bb>> THEN Len(l) + 1 ELSE Len(l)]
<1>1. \A i \in 1 .. Len(l) : l[i].block \in Nat /\ l[i].block < bb.block
  <2> SUFFICES ASSUME NEW i \in 1 .. Len(l) PROVE l[i].block \in Nat /\ l[i].block < bb.block
    OBVIOUS
  <2>1. l[i] \in Block
    OBVIOUS
  <2>2. l[i].block \in Nat /\ EndOf(l[i]) \in Nat /\ l[i].block < EndOf(l[i]) /\ bb.block \in Nat
    BY <2>1, BlockFacts
  <2>3. EndOf(l[i]) <= bb.block
    BY DEF EndsBy
  <2> QED BY <2>2, <2>3
<1>2. bb.block \in Nat
  BY BlockFacts
<1> DEFINE from == IF used # 0 /\ bb.block > l[used].block THEN used ELSE 1
           P(i) == /\ i = Len(l) \/ l[i + 1].block >= bb.block
                   /\ \A j \in from..(i - 1) : l[j + 1].block < bb.block
           at == CHOOSE i \in from..Len(l) : P(i)
           put == SubSeq(l, 1, at) \o <<bb>> \o SubSeq(l, at + 1, Len(l))
           right == merge_bb(put, at + 1)
           both == merge_bb(right, at)
<1>3. ~(l[1].block > bb.block)
  <2>1. 1 \in 1 .. Len(l)
    OBVIOUS
  <2> QED BY <1>1, <1>2, <2>1
<1>4. queue_bb(l, used, bb) = [list |-> both, used |-> IF both = right THEN at + 1 ELSE at]
  BY <1>3 DEF queue_bb
<1>5. from \in 1 .. Len(l)
  OBVIOUS
<1>6. Len(l) \in from .. Len(l) /\ P(Len(l))
  <2> HIDE DEF from
  <2>1. ASSUME NEW j \in from .. (Len(l) - 1) PROVE l[j + 1].block < bb.block
    <3>1. j + 1 \in 1 .. Len(l)
      BY <1>5
    <3> QED BY <3>1, <1>1
  <2>2. Len(l) \in from .. Len(l)
    BY <1>5
  <2> QED BY <2>1, <2>2
<1>7. ASSUME NEW i \in from .. Len(l), P(i) PROVE i = Len(l)
  <2> HIDE DEF from
  <2> SUFFICES ASSUME i # Len(l) PROVE FALSE
    OBVIOUS
  <2>1. i + 1 \in 1 .. Len(l) /\ l[i + 1].block >= bb.block
    BY <1>5, <1>7
  <2> QED BY <2>1, <1>1, <1>2
<1>8. at = Len(l)
  <2> HIDE DEF P, from
  <2>1. at \in from .. Len(l) /\ P(at)
    BY <1>6
  <2> QED BY <2>1, <1>7
<1> HIDE DEF at
<1>9. put = l \o <<bb>>
  <2>1. SubSeq(l, 1, Len(l)) = l /\ SubSeq(l, Len(l) + 1, Len(l)) = <<>> /\ (l \o <<bb>>) \o <<>> = l \o <<bb>>
    OBVIOUS
  <2> QED BY <1>8, <2>1
<1> HIDE DEF put
<1>10. right = put
  <2>1. Len(put) = Len(l) + 1
    BY <1>9
  <2>2. at + 1 >= Len(put)
    BY <1>8, <2>1
  <2> QED BY <2>2 DEF merge_bb
<1> HIDE DEF right
<1> QED BY <1>4, <1>8, <1>9, <1>10

\* queue_bb keeps the list in order and adds what the block covers.
LEMMA QueueAppends ==
  ASSUME NEW l \in Seq(Block), Good(l), NEW bb \in Block, EndOf(bb) <= ImageBlocks,
         EndsBy(l, bb.block), NEW used \in 0 .. Len(l),
         NEW q, q = queue_bb(l, used, bb)
  PROVE  /\ Good(q.list) /\ q.used \in 0 .. Len(q.list)
         /\ CellsOf(q.list) = CellsOf(l) \cup BlockCells(bb)
         /\ EndsBy(q.list, EndOf(bb))
<1>0. bb.block \in Nat /\ EndOf(bb) \in Nat /\ bb.block < EndOf(bb) /\ ImageBlocks \in Nat
  BY BlockFacts, Sizes
<1>1. /\ <<bb>> \in Seq(Block) /\ Good(<<bb>>) /\ CellsOf(<<bb>>) = BlockCells(bb)
      /\ Before(l, <<bb>>)
  BY ListOfOne, BeforeOne DEF EndsBy
<1>2. \A i \in 1 .. Len(l) : EndOf(l[i]) \in Nat /\ EndOf(l[i]) <= EndOf(bb)
  <2> SUFFICES ASSUME NEW i \in 1 .. Len(l) PROVE EndOf(l[i]) \in Nat /\ EndOf(l[i]) <= EndOf(bb)
    OBVIOUS
  <2>1. EndOf(l[i]) \in Nat
    <3>1. l[i] \in Block
      OBVIOUS
    <3> QED BY <3>1, BlockFacts
  <2>2. EndOf(l[i]) <= bb.block
    BY DEF EndsBy
  <2> QED BY <2>1, <2>2, <1>0
<1>3. CASE l = <<>>
  <2>1. q.list = <<bb>> /\ q.used = used
    BY <1>3 DEF queue_bb
  <2>2. CellsOf(l) = {}
    BY <1>3, EmptyList
  <2>3. Len(<<bb>>) = 1 /\ <<bb>>[1] = bb /\ 1 .. 1 = {1} /\ used = 0
    BY <1>3
  <2> QED BY <2>1, <2>2, <2>3, <1>0, <1>1 DEF EndsBy
<1>4. CASE l # <<>>
  <2>1. PICK put \in Seq(Block) : put = l \o <<bb>>
    BY <1>1, Concat
  <2>2. PICK both : both = merge_bb(put, Len(l))
    OBVIOUS
  <2>3. q.list = both /\ q.used = IF both = put THEN Len(l) + 1 ELSE Len(l)
    <3>1. queue_bb(l, used, bb) = [list |-> both, used |-> IF both = put THEN Len(l) + 1 ELSE Len(l)]
      <4>1. queue_bb(l, used, bb) =
              [list |-> merge_bb(l \o <<bb>>, Len(l)),
               used |-> IF merge_bb(l \o <<bb>>, Len(l)) = l \o <<bb>> THEN Len(l) + 1 ELSE Len(l)]
        BY <1>4, QueueAt
      <4> QED BY <4>1, <2>1, <2>2
    <3> QED BY <3>1
  <2>4. /\ Len(put) = Len(l) + 1 /\ put[Len(l) + 1] = bb /\ \A i \in 1 .. Len(l) : put[i] = l[i]
    BY <2>1, <1>1, Concat
  <2>5. CASE both = put
    <3>1. Good(put)
      BY <2>1, <1>1, GoodConcat
    <3>2. CellsOf(put) = CellsOf(l) \cup BlockCells(bb)
      <4>1. PICK s \in Seq(Block) : s = <<bb>>
        BY <1>1
      <4>2. CellsOf(l \o s) = CellsOf(l) \cup CellsOf(s)
        BY CellsConcat
      <4> QED BY <4>1, <4>2, <2>1, <1>1
    <3>3. ASSUME NEW i \in 1 .. Len(put) PROVE EndOf(put[i]) <= EndOf(bb)
      <4>1. CASE i \in 1 .. Len(l)
        BY <4>1, <2>4, <1>2
      <4>2. CASE i = Len(l) + 1
        BY <4>2, <2>4, <1>0
      <4> QED BY <4>1, <4>2, <2>4
    <3>4. q.used \in 0 .. Len(put)
      BY <2>3, <2>4, <2>5
    <3> QED BY <2>3, <2>5, <3>1, <3>2, <3>3, <3>4 DEF EndsBy
  <2>6. CASE both # put
    <3>1. Len(l) \in 1 .. Len(l) /\ Len(l) >= 1 /\ Len(l) < Len(put)
      BY <1>4, <2>4
    <3>2. PICK la \in Block : la = l[Len(l)]
      BY <3>1
    <3>3. put[Len(l)] = la /\ put[Len(l) + 1] = bb
      BY <2>4, <3>1, <3>2
    <3>4. Mergeable(la, bb)
      BY <2>2, <2>6, <3>1, <3>3 DEF merge_bb
    <3>5. PICK j : j = [la EXCEPT !.len = @ + bb.len]
      OBVIOUS
    <3>6. both = SubSeq(put, 1, Len(l) - 1) \o <<j>> \o SubSeq(put, Len(l) + 2, Len(put))
      <4>1. ~(Len(l) < 1 \/ Len(l) >= Len(put) \/ ~Mergeable(put[Len(l)], put[Len(l) + 1]))
        BY <3>1, <3>3, <3>4
      <4>2. both = SubSeq(put, 1, Len(l) - 1) \o <<[put[Len(l)] EXCEPT !.len = @ + put[Len(l) + 1].len]>>
                   \o SubSeq(put, Len(l) + 2, Len(put))
        BY <2>2, <4>1 DEF merge_bb
      <4> QED BY <4>2, <3>3, <3>5
    <3>7. PICK a, b \in Seq(Block) : l = (a \o <<l[Len(l)]>>) \o b /\ Len(a) = Len(l) - 1 /\ Len(b) = Len(l) - Len(l)
      BY <3>1, Decompose
    <3>8. b = <<>> /\ l = a \o <<la>>
      <4>1. b = <<>>
        BY <3>7
      <4> QED BY <4>1, <3>2, <3>7
    <3>9. /\ j \in Block /\ j.block = la.block /\ EndOf(j) = EndOf(bb)
          /\ BlockCells(j) = BlockCells(la) \cup BlockCells(bb)
      <4>1. EndOf(la) <= bb.block
        BY <3>1, <3>2 DEF EndsBy
      <4> QED BY <4>1, <3>4, <3>5, JoinFacts
    <3>10. both = a \o <<j>>
      <4>1. SubSeq(put, 1, Len(l) - 1) = a
        <5>1. \A i \in 1 .. Len(l) - 1 : put[i] = l[i] /\ l[i] = a[i]
          BY <2>4, <3>7, <3>8
        <5> QED BY <5>1, <2>4, <3>7
      <4>2. SubSeq(put, Len(l) + 2, Len(put)) = <<>>
        BY <2>4
      <4>3. (a \o <<j>>) \o <<>> = a \o <<j>>
        BY <3>9
      <4> QED BY <3>6, <4>1, <4>2, <4>3
    <3>11. PICK s, js \in Seq(Block) : s = <<la>> /\ js = <<j>>
      BY <3>9, ListOfOne
    <3>12. Good(a) /\ Good(s) /\ Before(a, s)
      BY <3>8, <3>11, GoodConcat
    <3>13. Good(js)
      BY <3>9, <3>11, ListOfOne
    <3>14. Before(a, js)
      <4>1. \A i \in 1 .. Len(a) : EndOf(a[i]) <= la.block
        BY <3>11, <3>12, BeforeOne
      <4> QED BY <4>1, <3>9, <3>11, BeforeOne
    <3>15. Good(a \o js) /\ CellsOf(a \o js) = CellsOf(a) \cup CellsOf(js)
      BY <3>12, <3>13, <3>14, GoodConcat, CellsConcat
    <3>16. CellsOf(l) = CellsOf(a) \cup CellsOf(s)
      BY <3>8, <3>11, CellsConcat
    <3>17. CellsOf(s) = BlockCells(la) /\ CellsOf(js) = BlockCells(j)
      BY <3>9, <3>11, ListOfOne
    <3>18. Len(both) = Len(l) /\ \A i \in 1 .. Len(l) - 1 : both[i] = l[i]
      <4>1. Len(a \o js) = Len(a) + Len(js) /\ \A i \in 1 .. Len(a) : (a \o js)[i] = a[i]
        BY Concat
      <4>2. Len(a \o s) = Len(a) + Len(s) /\ \A i \in 1 .. Len(a) : (a \o s)[i] = a[i]
        BY Concat
      <4>3. Len(s) = 1 /\ Len(js) = 1
        BY <3>11
      <4> QED BY <4>1, <4>2, <4>3, <3>7, <3>8, <3>10, <3>11
    <3>19. both[Len(l)] = j
      <4>1. (a \o js)[Len(a) + 1] = j
        BY <3>11, Concat
      <4> QED BY <4>1, <3>7, <3>10, <3>11
    <3>20. ASSUME NEW i \in 1 .. Len(both) PROVE EndOf(both[i]) <= EndOf(bb)
      <4>1. CASE i = Len(l)
        BY <4>1, <3>9, <3>19, <1>0
      <4>2. CASE i # Len(l)
        <5>1. i \in 1 .. Len(l) - 1 /\ i \in 1 .. Len(l)
          BY <4>2, <3>18
        <5> QED BY <5>1, <3>18, <1>2
      <4> QED BY <4>1, <4>2
    <3>21. q.used \in 0 .. Len(both)
      BY <2>3, <2>6, <3>18
    <3>22. CellsOf(both) = CellsOf(l) \cup BlockCells(bb)
      BY <3>9, <3>10, <3>11, <3>15, <3>16, <3>17, ZenonT(60)
    <3> QED BY <2>3, <3>10, <3>11, <3>15, <3>20, <3>21, <3>22 DEF EndsBy
  <2> QED BY <2>5, <2>6
<1> QED BY <1>3, <1>4

\* What the image holds, as far as it was read.
Cell == {"fd", "fill", "data", "skip"} \X Int
ImageCells(img) == {<<b, img[b + 1]>> : b \in {c \in 0 .. Len(img) - 1 : img[c + 1] # Skip}}

\* A function on 1 .. n is a sequence.
LEMMA FunctionIsList ==
  ASSUME NEW S, NEW n \in Nat, NEW f \in [1 .. n -> S]
  PROVE  f \in Seq(S) /\ Len(f) = n
OBVIOUS

\* Concatenation, element by element.
LEMMA ConcatAny ==
  ASSUME NEW S, NEW l \in Seq(S), NEW m \in Seq(S), NEW n, n = l \o m
  PROVE  /\ n \in Seq(S) /\ Len(n) = Len(l) + Len(m)
         /\ \A i \in 1 .. Len(l) : n[i] = l[i]
         /\ \A i \in 1 .. Len(m) : n[Len(l) + i] = m[i]
OBVIOUS

\* The cell of a block is a cell, and not one that is skipped.
LEMMA CellFacts ==
  ASSUME NEW bb \in Block, NEW b \in Int
  PROVE  CellAt(bb, b) \in Cell /\ CellAt(bb, b) # Skip
<1>1. bb.block \in Nat /\ bb.off \in Nat /\ bb.type \in Types
  BY BlockFacts
<1>2. (b - bb.block) * BlockSize \in Int
  BY <1>1, Sizes
<1>3. PICK v \in Int : v = IF bb.type = "fill" THEN bb.off ELSE bb.off + (b - bb.block) * BlockSize
  BY <1>1, <1>2
<1>4. CellAt(bb, b) = <<bb.type, v>>
  BY <1>3 DEF CellAt
<1>5. bb.type \in {"fd", "fill", "data", "skip"} /\ bb.type # "skip"
  BY <1>1 DEF Types
<1> QED BY <1>4, <1>5 DEF Cell, Skip

\* Reading a block adds its cells to the image.
LEMMA ImageGrows ==
  ASSUME NEW img \in Seq(Cell), NEW bb \in Block, bb.block = Len(img),
         NEW new, new = [i \in 1 .. DivUp(bb.len) |-> CellAt(bb, Len(img) + i - 1)]
  PROVE  /\ img \o new \in Seq(Cell) /\ Len(img \o new) = EndOf(bb)
         /\ ImageCells(img \o new) = ImageCells(img) \cup BlockCells(bb)
         /\ \A i \in 1 .. Len(new) : new[i] # Skip
<1>1. PICK n \in Nat : n = DivUp(bb.len)
  BY BlockFacts
<1>2. ASSUME NEW i \in 1 .. n PROVE CellAt(bb, Len(img) + i - 1) \in Cell /\ CellAt(bb, Len(img) + i - 1) # Skip
  BY CellFacts
<1>3. /\ new \in Seq(Cell) /\ Len(new) = n
      /\ \A i \in 1 .. n : new[i] = CellAt(bb, Len(img) + i - 1)
  <2>1. new = [i \in 1 .. n |-> CellAt(bb, Len(img) + i - 1)]
    BY <1>1
  <2>2. new \in [1 .. n -> Cell]
    BY <1>2, <2>1
  <2>3. new \in Seq(Cell) /\ Len(new) = n
    BY <2>2, FunctionIsList, ZenonT(60)
  <2> QED BY <2>1, <2>3
<1>4. PICK all : all = img \o new
  OBVIOUS
<1>5. /\ all \in Seq(Cell) /\ Len(all) = Len(img) + n
      /\ \A i \in 1 .. Len(img) : all[i] = img[i]
      /\ \A i \in 1 .. n : all[Len(img) + i] = new[i]
  <2>1. /\ all \in Seq(Cell) /\ Len(all) = Len(img) + Len(new)
        /\ \A i \in 1 .. Len(img) : all[i] = img[i]
        /\ \A i \in 1 .. Len(new) : all[Len(img) + i] = new[i]
    <3>1. PICK m \in Seq(Cell) : m = new
      BY <1>3
    <3>2. all = img \o m
      BY <1>4, <3>1
    <3>3. /\ all \in Seq(Cell) /\ Len(all) = Len(img) + Len(m)
          /\ \A i \in 1 .. Len(img) : all[i] = img[i]
          /\ \A i \in 1 .. Len(m) : all[Len(img) + i] = m[i]
      BY <3>2, ConcatAny
    <3> QED BY <3>1, <3>3
  <2> QED BY <2>1, <1>3
<1>6. EndOf(bb) = Len(img) + n
  BY <1>1 DEF EndOf
<1>7. ASSUME NEW c \in ImageCells(all) PROVE c \in ImageCells(img) \cup BlockCells(bb)
  <2>1. PICK b \in 0 .. Len(all) - 1 : all[b + 1] # Skip /\ c = <<b, all[b + 1]>>
    BY DEF ImageCells
  <2>2. CASE b < Len(img)
    <3>1. b \in 0 .. Len(img) - 1 /\ b + 1 \in 1 .. Len(img)
      BY <2>2
    <3>2. all[b + 1] = img[b + 1]
      BY <3>1, <1>5
    <3> QED BY <2>1, <3>1, <3>2 DEF ImageCells
  <2>3. CASE ~(b < Len(img))
    <3>1. (b + 1) - Len(img) \in 1 .. n /\ Len(img) + ((b + 1) - Len(img)) = b + 1
      BY <2>3, <1>5
    <3>2. all[b + 1] = CellAt(bb, Len(img) + ((b + 1) - Len(img)) - 1)
      BY <3>1, <1>3, <1>5
    <3>3. Len(img) + ((b + 1) - Len(img)) - 1 = b
      OBVIOUS
    <3>4. b \in bb.block .. EndOf(bb) - 1
      BY <2>3, <1>5, <1>6
    <3> QED BY <2>1, <3>2, <3>3, <3>4 DEF BlockCells
  <2> QED BY <2>2, <2>3
<1>8. ASSUME NEW c \in ImageCells(img) PROVE c \in ImageCells(all)
  <2>1. PICK b \in 0 .. Len(img) - 1 : img[b + 1] # Skip /\ c = <<b, img[b + 1]>>
    BY DEF ImageCells
  <2>2. b \in 0 .. Len(all) - 1 /\ all[b + 1] = img[b + 1]
    BY <1>5, SMTT(40)
  <2> QED BY <2>1, <2>2 DEF ImageCells
<1>9. ASSUME NEW c \in BlockCells(bb) PROVE c \in ImageCells(all)
  <2>1. PICK b \in bb.block .. EndOf(bb) - 1 : c = <<b, CellAt(bb, b)>>
    BY DEF BlockCells
  <2>2. /\ b \in 0 .. Len(all) - 1 /\ (b + 1) - Len(img) \in 1 .. n
        /\ Len(img) + ((b + 1) - Len(img)) = b + 1 /\ Len(img) + ((b + 1) - Len(img)) - 1 = b
    BY <1>5, <1>6
  <2>3. all[b + 1] = CellAt(bb, b)
    <3>1. all[Len(img) + ((b + 1) - Len(img))] = CellAt(bb, Len(img) + ((b + 1) - Len(img)) - 1)
      BY <2>2, <1>3, <1>5
    <3> QED BY <2>2, <3>1
  <2>4. all[b + 1] # Skip
    BY <2>2, <2>3, CellFacts
  <2> QED BY <2>1, <2>2, <2>3, <2>4 DEF ImageCells
<1>10. ImageCells(all) = ImageCells(img) \cup BlockCells(bb)
  BY <1>7, <1>8, <1>9
<1> QED BY <1>2, <1>3, <1>4, <1>5, <1>6, <1>10, ZenonT(60)

\* Reading what is skipped adds none.
LEMMA ImageSkips ==
  ASSUME NEW img \in Seq(Cell), NEW n \in Nat, NEW new, new = [i \in 1 .. n |-> Skip]
  PROVE  /\ img \o new \in Seq(Cell) /\ Len(img \o new) = Len(img) + n
         /\ ImageCells(img \o new) = ImageCells(img)
<1>1. Skip \in Cell
  BY DEF Skip, Cell
<1>2. new \in Seq(Cell) /\ Len(new) = n /\ \A i \in 1 .. n : new[i] = Skip
  BY <1>1
<1>3. PICK all : all = img \o new
  OBVIOUS
<1>4. /\ all \in Seq(Cell) /\ Len(all) = Len(img) + n
      /\ \A i \in 1 .. Len(img) : all[i] = img[i]
      /\ \A i \in 1 .. n : all[Len(img) + i] = Skip
  BY <1>2, <1>3
<1>5. ASSUME NEW c \in ImageCells(all) PROVE c \in ImageCells(img)
  <2>1. PICK b \in 0 .. Len(all) - 1 : all[b + 1] # Skip /\ c = <<b, all[b + 1]>>
    BY DEF ImageCells
  <2>2. b < Len(img)
    <3> SUFFICES ASSUME ~(b < Len(img)) PROVE FALSE
      OBVIOUS
    <3>1. (b + 1) - Len(img) \in 1 .. n /\ Len(img) + ((b + 1) - Len(img)) = b + 1
      BY <1>4
    <3>2. all[Len(img) + ((b + 1) - Len(img))] = Skip
      BY <3>1, <1>4
    <3> QED BY <2>1, <3>1, <3>2
  <2>3. b \in 0 .. Len(img) - 1 /\ all[b + 1] = img[b + 1]
    BY <2>2, <1>4
  <2> QED BY <2>1, <2>3 DEF ImageCells
<1>6. ASSUME NEW c \in ImageCells(img) PROVE c \in ImageCells(all)
  <2>1. PICK b \in 0 .. Len(img) - 1 : img[b + 1] # Skip /\ c = <<b, img[b + 1]>>
    BY DEF ImageCells
  <2>2. b \in 0 .. Len(all) - 1 /\ all[b + 1] = img[b + 1]
    BY <1>4
  <2> QED BY <2>1, <2>2 DEF ImageCells
<1> QED BY <1>3, <1>4, <1>5, <1>6

----------------------------------------------------------------------------
(* The encoding: the chunks of a file follow one another from block 0 on.  *)

Chunk == [block : Nat, len : Nat \ {0}, type : Types \cup {"skip"}, off : Nat]
ChunkCells(x) == IF x.type = "skip" THEN {} ELSE BlockCells(x)
WireCells(w) == UNION {ChunkCells(w[i]) : i \in 1 .. Len(w)}
Chain(w, at) == \A i \in 1 .. Len(w) : w[i].block = IF i = 1 THEN at ELSE EndOf(w[i - 1])
WireEnd(w, at) == IF w = <<>> THEN at ELSE EndOf(w[Len(w)])

\* The fields of a chunk.
LEMMA ChunkFacts ==
  ASSUME NEW x \in Chunk
  PROVE  /\ x.block \in Nat /\ x.len \in Nat \ {0} /\ DivUp(x.len) \in Nat
         /\ EndOf(x) \in Nat /\ EndOf(x) = x.block + DivUp(x.len)
<1>1. x.block \in Nat /\ x.len \in Nat \ {0}
  BY DEF Chunk
<1>2. DivUp(x.len) \in Nat
  BY <1>1, DivUpBounds
<1> QED BY <1>1, <1>2 DEF EndOf

\* A backed block is written as a chunk with its cells.
LEMMA BlockIsChunk ==
  ASSUME NEW x \in Block
  PROVE  x \in Chunk /\ ChunkCells(x) = BlockCells(x)
<1>1. x \in Chunk
  BY DEF Block, Chunk
<1>2. x.type # "skip"
  BY DEF Block, Types
<1> QED BY <1>1, <1>2 DEF ChunkCells

\* A skipped stretch is a chunk without cells.
LEMMA SkipIsChunk ==
  ASSUME NEW from \in Nat, NEW n \in Nat \ {0}
  PROVE  /\ SkipChunk(from, n) \in Chunk /\ ChunkCells(SkipChunk(from, n)) = {}
         /\ SkipChunk(from, n).block = from /\ EndOf(SkipChunk(from, n)) = from + n
         /\ SkipChunk(from, n).type = "skip"
<1>1. PICK len \in Nat \ {0} : len = n * BlockSize
  BY DivUpWhole
<1>2. SkipChunk(from, n) = [block |-> from, len |-> len, type |-> "skip", off |-> 0]
  BY <1>1 DEF SkipChunk, Backed
<1>3. DivUp(len) = n
  BY <1>1, DivUpWhole
<1> QED BY <1>2, <1>3 DEF Chunk, ChunkCells, EndOf

\* A chunk that starts where a chain of chunks ends prolongs it.
LEMMA ChainAppend ==
  ASSUME NEW w \in Seq(Chunk), NEW x \in Chunk, NEW at \in Nat, Chain(w, at), x.block = WireEnd(w, at),
         NEW v, v = w \o <<x>>
  PROVE  /\ v \in Seq(Chunk) /\ Chain(v, at) /\ WireEnd(v, at) = EndOf(x)
         /\ WireCells(v) = WireCells(w) \cup ChunkCells(x) /\ Len(v) = Len(w) + 1
<1>1. PICK s \in Seq(Chunk) : s = <<x>> /\ Len(s) = 1 /\ s[1] = x
  <2>1. <<x>> \in Seq(Chunk) /\ Len(<<x>>) = 1 /\ <<x>>[1] = x
    OBVIOUS
  <2> QED BY <2>1
<1>2. /\ v \in Seq(Chunk) /\ Len(v) = Len(w) + 1
      /\ \A i \in 1 .. Len(w) : v[i] = w[i]
      /\ v[Len(w) + 1] = x
  <2>1. v = w \o s
    BY <1>1
  <2>2. /\ v \in Seq(Chunk) /\ Len(v) = Len(w) + Len(s)
        /\ \A i \in 1 .. Len(w) : v[i] = w[i]
        /\ \A i \in 1 .. Len(s) : v[Len(w) + i] = s[i]
    BY <2>1, ConcatAny
  <2> QED BY <1>1, <2>2
<1>3. ASSUME NEW i \in 1 .. Len(v) PROVE v[i].block = IF i = 1 THEN at ELSE EndOf(v[i - 1])
  <2>1. CASE i \in 1 .. Len(w)
    <3>1. i # 1 => i - 1 \in 1 .. Len(w)
      BY <2>1
    <3> QED BY <2>1, <3>1, <1>2 DEF Chain
  <2>2. CASE i = Len(w) + 1
    <3>1. CASE w = <<>>
      <4>1. Len(w) = 0
        BY <3>1
      <4>2. i = 1 /\ v[i] = x
        BY <4>1, <2>2, <1>2
      <4> QED BY <3>1, <4>2 DEF WireEnd
    <3>2. CASE w # <<>>
      <4>1. Len(w) # 0
        BY <3>2
      <4>2. i # 1 /\ i - 1 = Len(w) /\ i - 1 \in 1 .. Len(w) /\ v[i] = x
        BY <4>1, <2>2, <1>2
      <4>3. v[i - 1] = w[Len(w)]
        BY <4>2, <1>2
      <4> QED BY <3>2, <4>2, <4>3 DEF WireEnd
    <3> QED BY <3>1, <3>2
  <2> QED BY <2>1, <2>2, <1>2
<1>4. WireEnd(v, at) = EndOf(x)
  <2>1. v # <<>>
    BY <1>2
  <2> QED BY <2>1, <1>2 DEF WireEnd
<1>5. ASSUME NEW c PROVE c \in WireCells(v) <=> c \in WireCells(w) \/ c \in ChunkCells(x)
  <2>1. c \in WireCells(v) <=> \E i \in 1 .. Len(w) + 1 : c \in ChunkCells(v[i])
    BY <1>2 DEF WireCells
  <2>2. c \in WireCells(w) <=> \E i \in 1 .. Len(w) : c \in ChunkCells(w[i])
    BY DEF WireCells
  <2>3. \A i \in 1 .. Len(w) + 1 : i \in 1 .. Len(w) \/ i = Len(w) + 1
    OBVIOUS
  <2>4. \A i \in 1 .. Len(w) : i \in 1 .. Len(w) + 1
    OBVIOUS
  <2>5. Len(w) + 1 \in 1 .. Len(w) + 1
    OBVIOUS
  <2> QED BY <2>1, <2>2, <2>3, <2>4, <2>5, <1>2
<1>6. WireCells(v) = WireCells(w) \cup ChunkCells(x)
  BY <1>5
<1> QED BY <1>2, <1>3, <1>4, <1>6 DEF Chain

\* A chain without its first chunk starts where that one ends.
LEMMA ChainTail ==
  ASSUME NEW w \in Seq(Chunk), NEW at \in Nat, Chain(w, at), w # <<>>
  PROVE  /\ Head(w) \in Chunk /\ Head(w).block = at
         /\ Tail(w) \in Seq(Chunk) /\ Chain(Tail(w), EndOf(Head(w)))
         /\ WireCells(w) = ChunkCells(Head(w)) \cup WireCells(Tail(w))
<1>1. /\ Len(w) \in Nat /\ Len(w) >= 1 /\ 1 \in 1 .. Len(w) /\ Head(w) = w[1] /\ w[1] \in Chunk
      /\ Tail(w) \in Seq(Chunk) /\ Len(Tail(w)) = Len(w) - 1
      /\ \A i \in 1 .. Len(w) - 1 : Tail(w)[i] = w[i + 1]
  OBVIOUS
<1>2. PICK t : t = Tail(w)
  OBVIOUS
<1>3. t \in Seq(Chunk) /\ Len(t) = Len(w) - 1 /\ \A i \in 1 .. Len(w) - 1 : t[i] = w[i + 1]
  BY <1>1, <1>2
<1>4. w[1].block = at
  BY <1>1 DEF Chain
<1>5. ASSUME NEW i \in 1 .. Len(t) PROVE t[i].block = IF i = 1 THEN EndOf(w[1]) ELSE EndOf(t[i - 1])
  <2>1. i + 1 \in 1 .. Len(w) /\ (i + 1) - 1 = i /\ i + 1 # 1 /\ t[i] = w[i + 1]
    BY <1>1, <1>3
  <2>2. w[i + 1].block = EndOf(w[i])
    BY <2>1 DEF Chain
  <2>3. CASE i = 1
    BY <2>1, <2>2, <2>3
  <2>4. CASE i # 1
    <3>1. i - 1 \in 1 .. Len(w) - 1 /\ (i - 1) + 1 = i
      BY <2>4, <1>3
    <3>2. t[i - 1] = w[i]
      BY <3>1, <1>3
    <3> QED BY <2>1, <2>2, <2>4, <3>2
  <2> QED BY <2>3, <2>4
<1>6. ASSUME NEW c PROVE c \in WireCells(w) <=> c \in ChunkCells(w[1]) \/ c \in WireCells(t)
  <2>1. c \in WireCells(w) <=> \E i \in 1 .. Len(w) : c \in ChunkCells(w[i])
    BY DEF WireCells
  <2>2. c \in WireCells(t) <=> \E i \in 1 .. Len(w) - 1 : c \in ChunkCells(t[i])
    BY <1>3 DEF WireCells
  <2>3. ASSUME NEW i \in 1 .. Len(w), c \in ChunkCells(w[i]) PROVE c \in ChunkCells(w[1]) \/ c \in WireCells(t)
    <3>1. CASE i = 1
      BY <3>1, <2>3
    <3>2. CASE i # 1
      <4>1. i - 1 \in 1 .. Len(w) - 1 /\ (i - 1) + 1 = i
        BY <3>2
      <4>2. t[i - 1] = w[i]
        BY <4>1, <1>3
      <4> QED BY <4>1, <4>2, <2>2, <2>3
    <3> QED BY <3>1, <3>2
  <2>4. ASSUME NEW i \in 1 .. Len(w) - 1, c \in ChunkCells(t[i]) PROVE c \in WireCells(w)
    <3>1. i + 1 \in 1 .. Len(w) /\ t[i] = w[i + 1]
      BY <1>3
    <3> QED BY <3>1, <2>1, <2>4
  <2> QED BY <2>1, <2>2, <2>3, <2>4, <1>1
<1>7. WireCells(w) = ChunkCells(w[1]) \cup WireCells(t)
  BY <1>6
<1> QED BY <1>1, <1>2, <1>3, <1>4, <1>5, <1>7 DEF Chain

\* FlattenSeq puts one list after the other.
LEMMA FlattenSteps ==
  ASSUME NEW S, NEW seqs \in Seq(Seq(S)), seqs # <<>>
  PROVE  \E F : /\ FlattenSeq(seqs) = F[Len(seqs)]
                /\ \A i \in 1 .. Len(seqs) : F[i] = IF i = 1 THEN seqs[i] ELSE F[i - 1] \o seqs[i]
<1> DEFINE Rec(f, n) == f = [i \in 1 .. n |-> IF i = 1 THEN seqs[i] ELSE f[i - 1] \o seqs[i]]
           Q == {n \in Nat : \E f : Rec(f, n)}
<1>1. 0 \in Q
  <2> DEFINE f == [i \in 1 .. 0 |-> 0]
  <2>1. Rec(f, 0)
    OBVIOUS
  <2> QED BY <2>1
<1>2. ASSUME NEW n \in Q PROVE n + 1 \in Q
  <2>1. PICK f : Rec(f, n)
    OBVIOUS
  <2> DEFINE g == [i \in 1 .. n + 1 |->
                     IF i = n + 1 THEN (IF i = 1 THEN seqs[i] ELSE f[n] \o seqs[i]) ELSE f[i]]
  <2>2. Rec(g, n + 1)
    <3> HIDE DEF Q
    <3>0. n \in Nat
      BY DEF Q
    <3>1. ASSUME NEW i \in 1 .. n + 1 PROVE g[i] = IF i = 1 THEN seqs[i] ELSE g[i - 1] \o seqs[i]
      <4>1. CASE i = n + 1
        <5>1. i - 1 = n /\ i - 1 # n + 1 /\ (i # 1 => i - 1 \in 1 .. n + 1)
          BY <4>1, <3>0
        <5> QED BY <4>1, <5>1
      <4>2. CASE i # n + 1
        <5>1. i \in 1 .. n /\ i - 1 # n + 1 /\ (i # 1 => i - 1 \in 1 .. n + 1)
          BY <4>2, <3>0
        <5>2. f[i] = IF i = 1 THEN seqs[i] ELSE f[i - 1] \o seqs[i]
          BY <5>1, <2>1
        <5> QED BY <4>2, <5>1, <5>2
      <4> QED BY <4>1, <4>2
    <3> QED BY <3>1
  <2>3. n + 1 \in Nat
    OBVIOUS
  <2>4. \E h : Rec(h, n + 1)
    BY <2>2
  <2> HIDE DEF Rec
  <2> QED BY <2>3, <2>4
<1>3. Q = Nat
  <2> HIDE DEF Q
  <2> QED BY <1>1, <1>2, InductionOnNat DEF Q
<1>4. PICK len \in Nat : len = Len(seqs) /\ len # 0
  OBVIOUS
<1> DEFINE F == CHOOSE f : Rec(f, len)
<1>5. Rec(F, len)
  <2>1. \E f : Rec(f, len)
    BY <1>3
  <2> HIDE DEF Rec
  <2> QED BY <2>1
<1>6. FlattenSeq(seqs) = F[Len(seqs)]
  BY <1>4 DEF FlattenSeq
<1> HIDE DEF F
<1>7. \A i \in 1 .. len : F[i] = IF i = 1 THEN seqs[i] ELSE F[i - 1] \o seqs[i]
  BY <1>5
<1> QED BY <1>4, <1>6, <1>7

\* The blocks of a chain of chunks add up to where it ends.
LEMMA TotalOfChain ==
  ASSUME NEW w \in Seq(Chunk), Chain(w, 0)
  PROVE  TotalBlocks(w) = WireEnd(w, 0)
<1>0. PICK len \in Nat : len = Len(w)
  OBVIOUS
<1> DEFINE Rec(f, n) == f = [i \in 0 .. n |-> IF i = 0 THEN 0 ELSE f[i - 1] + DivUp(w[i].len)]
           Q == {n \in Nat : \E f : Rec(f, n)}
           F == CHOOSE f : Rec(f, len)
<1>1. 0 \in Q
  <2> DEFINE f == [i \in 0 .. 0 |-> 0]
  <2>1. Rec(f, 0)
    OBVIOUS
  <2> QED BY <2>1
<1>2. ASSUME NEW n \in Q PROVE n + 1 \in Q
  <2>1. PICK f : Rec(f, n)
    OBVIOUS
  <2> DEFINE g == [i \in 0 .. n + 1 |-> IF i = n + 1 THEN f[n] + DivUp(w[n + 1].len) ELSE f[i]]
  <2>2. Rec(g, n + 1)
    <3> HIDE DEF Q
    <3>0. n \in Nat
      BY DEF Q
    <3>1. ASSUME NEW i \in 0 .. n + 1 PROVE g[i] = IF i = 0 THEN 0 ELSE g[i - 1] + DivUp(w[i].len)
      <4>1. CASE i = n + 1
        BY <4>1, <3>0
      <4>2. CASE i # n + 1
        BY <4>2, <3>0, <2>1
      <4> QED BY <4>1, <4>2
    <3> QED BY <3>1
  <2>3. n + 1 \in Nat
    OBVIOUS
  <2>4. \E h : Rec(h, n + 1)
    BY <2>2
  <2> HIDE DEF Rec
  <2> QED BY <2>3, <2>4
<1>3. Q = Nat
  <2> HIDE DEF Q
  <2> QED BY <1>1, <1>2, InductionOnNat DEF Q
<1>4. Rec(F, len)
  <2>1. \E f : Rec(f, len)
    BY <1>3
  <2> HIDE DEF Rec
  <2> QED BY <2>1
<1>5. TotalBlocks(w) = F[len]
  BY <1>0 DEF TotalBlocks
<1> HIDE DEF F
<1>6. F[0] = 0 /\ \A i \in 1 .. len : F[i] = F[i - 1] + DivUp(w[i].len)
  <2>1. \A i \in 0 .. len : F[i] = IF i = 0 THEN 0 ELSE F[i - 1] + DivUp(w[i].len)
    BY <1>4
  <2> QED BY <2>1
<1> DEFINE K == {n \in Nat : n \in 1 .. len => F[n] = EndOf(w[n])}
<1>7. 0 \in K
  OBVIOUS
<1>8. ASSUME NEW n \in K PROVE n + 1 \in K
  <2>1. CASE n + 1 \in 1 .. len
    <3>1. /\ w[n + 1] \in Chunk /\ F[n + 1] = F[n] + DivUp(w[n + 1].len)
          /\ w[n + 1].block = IF n = 0 THEN 0 ELSE EndOf(w[n])
      <4>1. n + 1 \in 1 .. Len(w) /\ (n + 1) - 1 = n /\ (n + 1 = 1 <=> n = 0)
        BY <2>1, <1>0
      <4> QED BY <4>1, <2>1, <1>6 DEF Chain
    <3>2. F[n] = w[n + 1].block
      <4>1. CASE n = 0
        BY <4>1, <3>1, <1>6
      <4>2. CASE n # 0
        <5>1. n \in 1 .. len
          BY <4>2, <2>1
        <5> QED BY <4>2, <5>1, <3>1
      <4> QED BY <4>1, <4>2
    <3>3. F[n + 1] = EndOf(w[n + 1])
      BY <3>1, <3>2 DEF EndOf
    <3> QED BY <3>3
  <2> QED BY <2>1
<1>9. K = Nat
  <2> HIDE DEF K
  <2> QED BY <1>7, <1>8, InductionOnNat DEF K
<1>10. CASE w = <<>>
  <2>1. len = 0
    BY <1>10, <1>0
  <2> QED BY <1>5, <1>6, <1>10, <2>1 DEF WireEnd
<1>11. CASE w # <<>>
  <2>1. len \in 1 .. len
    BY <1>11, <1>0
  <2>2. F[len] = EndOf(w[len])
    BY <2>1, <1>9
  <2> QED BY <1>0, <1>5, <1>11, <2>2 DEF WireEnd
<1> QED BY <1>10, <1>11

\* The chunks that stand for one backed block, and for the first n of a list.
Part(l, i) == IF GapBefore(l, i) THEN <<SkipChunk(EndBefore(l, i), l[i].block - EndBefore(l, i)), l[i]>>
              ELSE <<l[i]>>
Gaps(l, n) == {i \in 1 .. n : GapBefore(l, i)}
CellsUpTo(l, n) == UNION {BlockCells(l[i]) : i \in 1 .. n}
Encodes(w, l, n) ==
  /\ w \in Seq(Chunk) /\ Chain(w, 0) /\ WireEnd(w, 0) = EndBefore(l, n + 1)
  /\ WireCells(w) = CellsUpTo(l, n)
  /\ Len(w) = n + Cardinality(Gaps(l, n))

\* Gaps are counted block by block.
LEMMA GapsStep ==
  ASSUME NEW l, NEW n \in Nat
  PROVE  /\ Cardinality(Gaps(l, 0)) = 0 /\ Cardinality(Gaps(l, n)) \in Nat
         /\ GapBefore(l, n + 1) => Cardinality(Gaps(l, n + 1)) = Cardinality(Gaps(l, n)) + 1
         /\ ~GapBefore(l, n + 1) => Cardinality(Gaps(l, n + 1)) = Cardinality(Gaps(l, n))
<1>1. Gaps(l, 0) = {}
  BY DEF Gaps
<1>2. IsFiniteSet(Gaps(l, n))
  <2>1. IsFiniteSet(1 .. n)
    BY FS_Interval
  <2>2. Gaps(l, n) \subseteq 1 .. n
    BY DEF Gaps
  <2> QED BY <2>1, <2>2, FS_Subset
<1>3. Gaps(l, n + 1) = IF GapBefore(l, n + 1) THEN Gaps(l, n) \cup {n + 1} ELSE Gaps(l, n)
  <2>1. 1 .. n + 1 = (1 .. n) \cup {n + 1}
    OBVIOUS
  <2>2. ASSUME NEW i PROVE i \in Gaps(l, n + 1) <=> (i \in Gaps(l, n) \/ (i = n + 1 /\ GapBefore(l, n + 1)))
    BY <2>1 DEF Gaps
  <2> QED BY <2>2
<1>4. n + 1 \notin Gaps(l, n)
  BY DEF Gaps
<1>5. Cardinality(Gaps(l, n) \cup {n + 1}) = Cardinality(Gaps(l, n)) + 1
  BY <1>2, <1>4, FS_AddElement
<1>6. Cardinality({}) = 0
  BY FS_EmptySet
<1>7. Cardinality(Gaps(l, n)) \in Nat
  BY <1>2, FS_CardinalityType
<1> QED BY <1>1, <1>3, <1>5, <1>6, <1>7

\* What the first blocks cover goes up block by block.
LEMMA CellsUpToStep ==
  ASSUME NEW l, NEW n \in Nat
  PROVE  CellsUpTo(l, 0) = {} /\ CellsUpTo(l, n + 1) = CellsUpTo(l, n) \cup BlockCells(l[n + 1])
<1>1. 1 .. n + 1 = (1 .. n) \cup {n + 1} /\ 1 .. 0 = {}
  OBVIOUS
<1>2. CellsUpTo(l, 0) = {}
  BY <1>1 DEF CellsUpTo
<1>3. ASSUME NEW c PROVE c \in CellsUpTo(l, n + 1) <=> c \in CellsUpTo(l, n) \/ c \in BlockCells(l[n + 1])
  BY <1>1 DEF CellsUpTo
<1> QED BY <1>2, <1>3

\* Nothing written encodes no block.
LEMMA EncodesNone ==
  ASSUME NEW l
  PROVE  Encodes(<<>>, l, 0)
<1>1. <<>> \in Seq(Chunk) /\ Len(<<>>) = 0 /\ 1 .. 0 = {}
  OBVIOUS
<1>2. WireCells(<<>>) = {}
  BY <1>1 DEF WireCells
<1>3. Chain(<<>>, 0) /\ WireEnd(<<>>, 0) = 0 /\ EndBefore(l, 0 + 1) = 0
  BY <1>1 DEF Chain, WireEnd, EndBefore
<1>4. CellsUpTo(l, 0) = {}
  BY CellsUpToStep
<1>5. Cardinality(Gaps(l, 0)) = 0
  BY GapsStep
<1>6. Len(<<>>) = 0 + Cardinality(Gaps(l, 0))
  BY <1>1, <1>5
<1> QED BY <1>1, <1>2, <1>3, <1>4, <1>6 DEF Encodes

\* One turn of the loop of write_all_blocks.
LEMMA EncodesMore ==
  ASSUME NEW l \in Seq(Block), Good(l), NEW n \in 0 .. Len(l) - 1, NEW w, Encodes(w, l, n),
         NEW v, v = w \o Part(l, n + 1)
  PROVE  Encodes(v, l, n + 1)
<1>1. w \in Seq(Chunk) /\ Chain(w, 0) /\ WireEnd(w, 0) = EndBefore(l, n + 1) /\ n \in Nat /\ Len(w) \in Nat
  BY DEF Encodes
<1>2. PICK x \in Block : x = l[n + 1]
  <2>1. n + 1 \in 1 .. Len(l)
    OBVIOUS
  <2> QED BY <2>1
<1>3. PICK e \in Nat : e = EndBefore(l, n + 1) /\ e <= x.block
  <2>1. CASE n = 0
    <3>1. EndBefore(l, n + 1) = 0
      BY <2>1 DEF EndBefore
    <3>2. 0 \in Nat /\ 0 <= x.block
      BY BlockFacts, SMTT(40)
    <3> QED BY <3>1, <3>2
  <2>2. CASE n # 0
    <3>1. n \in 1 .. Len(l) /\ n + 1 \in 1 .. Len(l) /\ n < n + 1 /\ (n + 1) - 1 = n /\ n + 1 # 1
      BY <2>2
    <3>2. EndBefore(l, n + 1) = EndOf(l[n])
      BY <3>1 DEF EndBefore, EndOf
    <3>3. EndOf(l[n]) <= x.block
      BY <3>1, <1>2 DEF Good
    <3>4. EndOf(l[n]) \in Nat
      BY <3>1, BlockFacts, SMTT(40)
    <3> QED BY <3>2, <3>3, <3>4
  <2> QED BY <2>1, <2>2
<1>4. x \in Chunk /\ ChunkCells(x) = BlockCells(x) /\ x.block \in Nat
  BY BlockIsChunk, BlockFacts
<1>5. GapBefore(l, n + 1) <=> x.block > e
  BY <1>2, <1>3 DEF GapBefore
<1>6. EndBefore(l, (n + 1) + 1) = EndOf(x)
  <2>1. (n + 1) + 1 # 1 /\ ((n + 1) + 1) - 1 = n + 1
    OBVIOUS
  <2> QED BY <2>1, <1>2 DEF EndBefore, EndOf
<1>7. CellsUpTo(l, n + 1) = CellsUpTo(l, n) \cup BlockCells(x)
  BY <1>1, <1>2, CellsUpToStep
<1>8. CASE ~GapBefore(l, n + 1)
  <2>1. v = w \o <<x>> /\ x.block = WireEnd(w, 0)
    BY <1>8, <1>1, <1>2, <1>3, <1>4, <1>5, SMTT(40) DEF Part
  <2>2. /\ v \in Seq(Chunk) /\ Chain(v, 0) /\ WireEnd(v, 0) = EndOf(x)
        /\ WireCells(v) = WireCells(w) \cup ChunkCells(x) /\ Len(v) = Len(w) + 1
    BY <2>1, <1>1, <1>4, ChainAppend
  <2>3. Cardinality(Gaps(l, n + 1)) = Cardinality(Gaps(l, n)) /\ Cardinality(Gaps(l, n)) \in Nat
    BY <1>8, GapsStep
  <2>4. Len(w) = n + Cardinality(Gaps(l, n)) /\ WireCells(w) = CellsUpTo(l, n)
    BY DEF Encodes
  <2>5. Len(v) = (n + 1) + Cardinality(Gaps(l, n + 1))
    BY <2>2, <2>3, <2>4
  <2> QED BY <2>2, <2>4, <2>5, <1>4, <1>6, <1>7 DEF Encodes
<1>9. CASE GapBefore(l, n + 1)
  <2>1. PICK k \in Nat \ {0} : k = x.block - e /\ e + k = x.block
    BY <1>9, <1>4, <1>5, SMTT(40)
  <2>2. PICK s \in Chunk : s = SkipChunk(e, k) /\ ChunkCells(s) = {} /\ s.block = e /\ EndOf(s) = x.block
    <3>1. /\ SkipChunk(e, k) \in Chunk /\ ChunkCells(SkipChunk(e, k)) = {}
          /\ SkipChunk(e, k).block = e /\ EndOf(SkipChunk(e, k)) = e + k
      BY SkipIsChunk
    <3> QED BY <3>1, <2>1
  <2>3. PICK u : u = w \o <<s>>
    OBVIOUS
  <2>4. /\ u \in Seq(Chunk) /\ Chain(u, 0) /\ WireEnd(u, 0) = EndOf(s)
        /\ WireCells(u) = WireCells(w) \cup ChunkCells(s) /\ Len(u) = Len(w) + 1
    BY <2>2, <2>3, <1>1, <1>3, ChainAppend, ZenonT(60)
  <2>5. v = u \o <<x>>
    <3>1. Part(l, n + 1) = <<s, x>>
      BY <1>9, <1>2, <1>3, <2>1, <2>2 DEF Part
    <3>2. w \o <<s, x>> = (w \o <<s>>) \o <<x>>
      BY <1>1, <1>4, SMTT(40)
    <3> QED BY <3>1, <3>2, <2>3
  <2>6. /\ v \in Seq(Chunk) /\ Chain(v, 0) /\ WireEnd(v, 0) = EndOf(x)
        /\ WireCells(v) = WireCells(u) \cup ChunkCells(x) /\ Len(v) = Len(u) + 1
    BY <2>2, <2>4, <2>5, <1>4, ChainAppend
  <2>7. Cardinality(Gaps(l, n + 1)) = Cardinality(Gaps(l, n)) + 1 /\ Cardinality(Gaps(l, n)) \in Nat
    BY <1>9, GapsStep
  <2>8. Len(w) = n + Cardinality(Gaps(l, n)) /\ WireCells(w) = CellsUpTo(l, n)
    BY DEF Encodes
  <2>9. Len(v) = (n + 1) + Cardinality(Gaps(l, n + 1))
    BY <2>4, <2>6, <2>7, <2>8, SMTT(40)
  <2> QED BY <2>2, <2>4, <2>6, <2>8, <2>9, <1>4, <1>6, <1>7 DEF Encodes
<1> QED BY <1>8, <1>9

\* What write_all_blocks writes for the blocks of a list.
Body(l) == FlattenSeq([i \in 1 .. Len(l) |-> Part(l, i)])

\* The loop of write_all_blocks encodes the whole list.
LEMMA BodyEncodes ==
  ASSUME NEW l \in Seq(Block), Good(l)
  PROVE  Encodes(Body(l), l, Len(l))
<1>1. PICK len \in Nat : len = Len(l)
  OBVIOUS
<1>2. PICK seqs : seqs = [i \in 1 .. len |-> Part(l, i)]
  OBVIOUS
<1>3. Body(l) = FlattenSeq(seqs)
  BY <1>1, <1>2 DEF Body
<1>4. ASSUME NEW i \in 1 .. len PROVE Part(l, i) \in Seq(Chunk)
  <2>1. l[i] \in Chunk
    BY <1>1, BlockIsChunk
  <2>2. CASE ~GapBefore(l, i)
    BY <2>1, <2>2 DEF Part
  <2>3. CASE GapBefore(l, i)
    <3>1. PICK e \in Nat : e = EndBefore(l, i)
      <4>1. CASE i = 1
        BY <4>1 DEF EndBefore
      <4>2. CASE i # 1
        <5>1. i - 1 \in 1 .. Len(l)
          BY <4>2, <1>1
        <5>2. l[i - 1] \in Block
          BY <5>1
        <5> QED BY <4>2, <5>2, BlockFacts DEF EndBefore, EndOf
      <4> QED BY <4>1, <4>2
    <3>2. l[i].block \in Nat /\ l[i].block > e
      BY <2>1, <2>3, <3>1, ChunkFacts DEF GapBefore
    <3>3. l[i].block - e \in Nat \ {0}
      BY <3>2
    <3>4. SkipChunk(e, l[i].block - e) \in Chunk
      BY <3>3, SkipIsChunk
    <3>5. Part(l, i) = <<SkipChunk(e, l[i].block - e), l[i]>>
      BY <2>3, <3>1 DEF Part
    <3> QED BY <2>1, <3>4, <3>5
  <2> QED BY <2>2, <2>3
<1>5. seqs \in Seq(Seq(Chunk)) /\ Len(seqs) = len
  <2>1. seqs \in [1 .. len -> Seq(Chunk)]
    BY <1>2, <1>4
  <2> QED BY <2>1, FunctionIsList
<1>6. CASE len = 0
  <2>1. FlattenSeq(seqs) = seqs /\ seqs = <<>>
    BY <1>5, <1>6 DEF FlattenSeq
  <2> QED BY <2>1, <1>1, <1>3, <1>6, EncodesNone
<1>7. CASE len # 0
  <2>1. seqs # <<>>
    BY <1>5, <1>7
  <2>2. PICK F : /\ FlattenSeq(seqs) = F[Len(seqs)]
                 /\ \A i \in 1 .. Len(seqs) : F[i] = IF i = 1 THEN seqs[i] ELSE F[i - 1] \o seqs[i]
    BY <2>1, <1>5, FlattenSteps
  <2> DEFINE K == {n \in Nat : n \in 1 .. len => Encodes(F[n], l, n)}
  <2>3. 0 \in K
    OBVIOUS
  <2>4. ASSUME NEW n \in K PROVE n + 1 \in K
    <3>1. CASE n + 1 \in 1 .. len
      <4>1. n \in 0 .. Len(l) - 1 /\ n + 1 \in 1 .. Len(seqs) /\ (n + 1) - 1 = n
        BY <3>1, <1>1, <1>5
      <4>2. seqs[n + 1] = Part(l, n + 1)
        BY <3>1, <1>2
      <4>3. CASE n = 0
        <5>1. F[n + 1] = Part(l, n + 1)
          BY <4>1, <4>2, <4>3, <2>2
        <5>2. <<>> \o Part(l, n + 1) = Part(l, n + 1)
          BY <3>1, <1>4
        <5>3. Encodes(<<>>, l, n)
          BY <4>3, EncodesNone
        <5>4. Encodes(F[n + 1], l, n + 1)
          <6>1. PICK v : v = <<>> \o Part(l, n + 1)
            OBVIOUS
          <6>2. Encodes(v, l, n + 1)
            BY <6>1, <5>3, <4>1, EncodesMore
          <6> QED BY <6>1, <6>2, <5>1, <5>2
        <5> QED BY <5>4
      <4>4. CASE n # 0
        <5>1. F[n + 1] = F[n] \o Part(l, n + 1)
          <6>1. F[n + 1] = IF n + 1 = 1 THEN seqs[n + 1] ELSE F[(n + 1) - 1] \o seqs[n + 1]
            BY <4>1, <2>2
          <6>2. n + 1 # 1
            BY <4>1, <4>4
          <6>3. F[n + 1] = F[(n + 1) - 1] \o seqs[n + 1]
            BY <6>1, <6>2, Zenon
          <6> QED BY <6>3, <4>1, <4>2, Zenon
        <5>2. Encodes(F[n], l, n)
          BY <4>4, <3>1
        <5>3. Encodes(F[n + 1], l, n + 1)
          <6> HIDE DEF K
          <6> QED BY <5>1, <5>2, <4>1, EncodesMore
        <5> QED BY <5>3
      <4> QED BY <4>3, <4>4
    <3> QED BY <3>1
  <2>5. K = Nat
    <3> HIDE DEF K
    <3> QED BY <2>3, <2>4, InductionOnNat DEF K
  <2>6. Encodes(F[len], l, len)
    <3>1. len \in 1 .. len
      BY <1>7
    <3> QED BY <3>1, <2>5
  <2> QED BY <2>2, <2>6, <1>1, <1>3, <1>5
<1> QED BY <1>6, <1>7

\* The skip chunk at the end of a file.
LEMMA PaddingIs ==
  ASSUME NEW l \in Seq(Block), Good(l), sfTail \in 1 .. BlockSize
  PROVE  /\ EndBefore(l, Len(l) + 1) \in 0 .. ImageBlocks
         /\ PadWritten(l) => Padding(l) \div BlockSize \in Nat \ {0}
         /\ sfTail = BlockSize /\ EndBefore(l, Len(l) + 1) = ImageBlocks => ~PadWritten(l)
         /\ sfTail = BlockSize /\ EndBefore(l, Len(l) + 1) < ImageBlocks =>
              PadWritten(l) /\ Padding(l) \div BlockSize = ImageBlocks - EndBefore(l, Len(l) + 1)
<1>1. BlockSize \in Nat /\ BlockSize >= 4 /\ ImageBlocks \in Nat /\ ImageBlocks >= 1
  BY Sizes
<1>2. PICK e \in 0 .. ImageBlocks : e = EndBefore(l, Len(l) + 1)
  <2>1. CASE l = <<>>
    <3>1. EndBefore(l, Len(l) + 1) = 0
      BY <2>1 DEF EndBefore
    <3> QED BY <3>1, <1>1
  <2>2. CASE l # <<>>
    <3>1. Len(l) \in 1 .. Len(l) /\ Len(l) + 1 # 1 /\ (Len(l) + 1) - 1 = Len(l)
      BY <2>2
    <3>2. EndBefore(l, Len(l) + 1) = EndOf(l[Len(l)])
      BY <3>1 DEF EndBefore, EndOf
    <3>3. EndOf(l[Len(l)]) \in Nat
      BY <3>1, BlockFacts
    <3>4. EndOf(l[Len(l)]) <= ImageBlocks
      BY <3>1 DEF Good
    <3> QED BY <3>2, <3>3, <3>4, <1>1
  <2> QED BY <2>1, <2>2
<1>3. PICK p \in Int : p = Padding(l) /\ p = ((ImageBlocks - 1) * BlockSize + sfTail) - e * BlockSize
  <2>1. (ImageBlocks - 1) * BlockSize \in Int /\ e * BlockSize \in Int /\ sfTail \in Int
    BY <1>1
  <2>2. ((ImageBlocks - 1) * BlockSize + sfTail) - e * BlockSize \in Int
    BY <2>1
  <2>3. Padding(l) = ((ImageBlocks - 1) * BlockSize + sfTail) - e * BlockSize
    BY <1>2 DEF Padding, ExpandedLen
  <2> QED BY <2>2, <2>3
<1>4. ASSUME PadWritten(l) PROVE Padding(l) \div BlockSize \in Nat \ {0}
  <2>1. p > 0 /\ p % BlockSize = 0
    BY <1>3, <1>4 DEF PadWritten
  <2>2. p \div BlockSize \in Int /\ p = BlockSize * (p \div BlockSize) + (p % BlockSize)
    BY <1>1
  <2>3. p \div BlockSize # 0 /\ p \div BlockSize >= 0
    BY <1>1, <2>1, <2>2
  <2> QED BY <1>3, <2>2, <2>3
<1>5. ASSUME sfTail = BlockSize PROVE /\ e = ImageBlocks => ~PadWritten(l)
                                      /\ e < ImageBlocks => PadWritten(l) /\ Padding(l) \div BlockSize = ImageBlocks - e
  <2>1. PICK k \in Nat : k = ImageBlocks - e
    BY <1>1, <1>2
  <2>2. p = k * BlockSize
    BY <1>1, <1>2, <1>3, <1>5, <2>1
  <2>3. e = ImageBlocks => ~PadWritten(l)
    <3>1. e = ImageBlocks => p = 0
      BY <1>1, <2>1, <2>2
    <3> QED BY <3>1, <1>3 DEF PadWritten
  <2>4. ASSUME e < ImageBlocks PROVE PadWritten(l) /\ Padding(l) \div BlockSize = k
    <3>1. k \in Nat \ {0}
      BY <2>1, <2>4, <1>1, <1>2
    <3>2. p > 0
      BY <3>1, <2>2, DivUpWhole
    <3>3. (k * BlockSize) % BlockSize = 0 /\ (k * BlockSize) \div BlockSize = k
      BY <1>1, <3>1
    <3> QED BY <3>2, <3>3, <2>2, <1>3 DEF PadWritten
  <2> QED BY <2>1, <2>3, <2>4
<1> QED BY <1>2, <1>4, <1>5

\* write_all_blocks, with the skip at the end: a chain over the image that the device accepts.
LEMMA FileIs ==
  ASSUME NEW l \in Seq(Block), Good(l), sfTail \in 1 .. BlockSize, NEW w, w = write_all_blocks(l)
  PROVE  /\ w \in Seq(Chunk) /\ Chain(w, 0) /\ WireCells(w) = CellsOf(l)
         /\ sfTail = BlockSize => Accepted(l, w)
<1>1. PICK body : body = Body(l)
  OBVIOUS
<1>2. PICK e \in 0 .. ImageBlocks : e = EndBefore(l, Len(l) + 1)
  BY PaddingIs
<1>3. /\ body \in Seq(Chunk) /\ Chain(body, 0) /\ WireEnd(body, 0) = e
      /\ WireCells(body) = CellsOf(l)
      /\ Len(body) = Len(l) + Cardinality(Gaps(l, Len(l)))
  <2>1. Encodes(body, l, Len(l))
    BY <1>1, BodyEncodes
  <2>2. CellsUpTo(l, Len(l)) = CellsOf(l)
    BY DEF CellsUpTo, CellsOf
  <2> QED BY <2>1, <2>2, <1>2 DEF Encodes
<1>4. PICK n \in Nat : n = Len(l) + Cardinality(Gaps(l, Len(l))) /\ Len(body) = n
  BY <1>3
<1>5. sparse_count_chunks(l) = n + IF e < ImageBlocks THEN 1 ELSE 0
  BY <1>2, <1>4 DEF sparse_count_chunks, Gaps
<1>6. write_all_blocks(l) =
        body \o (IF PadWritten(l) THEN <<SkipChunk(e, Padding(l) \div BlockSize)>> ELSE <<>>)
  BY <1>1, <1>2 DEF write_all_blocks, Body, Part
<1>7. ImageBlocks \in Nat
  BY Sizes
<1>8. ASSUME w \in Seq(Chunk) PROVE \A i \in 1 .. Len(w) : w[i].type = "skip" \/ w[i].len > 0
  <2> SUFFICES ASSUME NEW i \in 1 .. Len(w) PROVE w[i].len > 0
    OBVIOUS
  <2>1. w[i] \in Chunk
    BY <1>8
  <2> QED BY <2>1, ChunkFacts
<1>9. CASE PadWritten(l)
  <2>1. PICK k \in Nat \ {0} : k = Padding(l) \div BlockSize
    BY <1>9, PaddingIs
  <2>2. PICK s \in Chunk : s = SkipChunk(e, k) /\ ChunkCells(s) = {} /\ s.block = e /\ EndOf(s) = e + k
    <3>1. /\ SkipChunk(e, k) \in Chunk /\ ChunkCells(SkipChunk(e, k)) = {}
          /\ SkipChunk(e, k).block = e /\ EndOf(SkipChunk(e, k)) = e + k
      <4>1. e \in Nat
        BY <1>7
      <4> QED BY <4>1, SkipIsChunk
    <3> QED BY <3>1
  <2>3. w = body \o <<s>>
    BY <1>6, <1>9, <2>1, <2>2
  <2>4. /\ w \in Seq(Chunk) /\ Chain(w, 0) /\ WireEnd(w, 0) = EndOf(s)
        /\ WireCells(w) = WireCells(body) \cup ChunkCells(s) /\ Len(w) = Len(body) + 1
    BY <2>2, <2>3, <1>3, ChainAppend, ZenonT(60)
  <2>5. ASSUME sfTail = BlockSize PROVE Accepted(l, w)
    <3>1. e # ImageBlocks
      BY <1>2, <1>9, <2>5, PaddingIs
    <3>2. e < ImageBlocks /\ k = ImageBlocks - e
      BY <3>1, <1>2, <1>7, <2>1, <2>5, PaddingIs
    <3>3. TotalBlocks(w) = ImageBlocks
      <4>1. TotalBlocks(w) = e + k
        BY <2>2, <2>4, TotalOfChain
      <4> QED BY <4>1, <3>2, <1>2, <1>7
    <3>4. sparse_count_chunks(l) = Len(w)
      BY <3>2, <2>4, <1>4, <1>5
    <3> QED BY <3>3, <3>4, <2>4, <1>8 DEF Accepted
  <2> QED BY <2>2, <2>4, <2>5, <1>3
<1>10. CASE ~PadWritten(l)
  <2>1. w = body
    <3>1. body \o <<>> = body
      BY <1>3
    <3> QED BY <3>1, <1>6, <1>10
  <2>2. ASSUME sfTail = BlockSize PROVE Accepted(l, w)
    <3>1. e = ImageBlocks
      BY <1>2, <1>7, <1>10, <2>2, PaddingIs
    <3>2. TotalBlocks(w) = ImageBlocks
      BY <2>1, <3>1, <1>3, TotalOfChain
    <3>3. sparse_count_chunks(l) = Len(w)
      BY <3>1, <2>1, <1>4, <1>5, <1>7
    <3> QED BY <3>2, <3>3, <2>1, <1>3, <1>8 DEF Accepted
  <2> QED BY <2>1, <2>2, <1>3
<1> QED BY <1>9, <1>10

\* A file whose chunks fit the budget fits the limit.
LEMMA LenOfFile ==
  ASSUME NEW l \in Seq(Block), NEW max_len \in Limits, Bytes(l) \in Nat, Bytes(l) <= Budget(max_len) + 12
  PROVE  sparse_file_len(l) <= max_len
<1>1. PICK b \in Nat : b = BytesUpTo(l, Len(l)) /\ b <= Budget(max_len) + 12
  BY DEF Bytes
<1>2. max_len \in Nat
  BY BudgetFacts
<1>3. b <= (max_len - 56) + 12
  BY <1>1 DEF Budget
<1>4. sparse_file_len(l) = 28 + b + IF PadWritten(l) THEN 12 ELSE 0
  BY <1>1 DEF sparse_file_len, SparseHeader, ChunkHeader
<1> QED BY <1>1, <1>2, <1>3, <1>4

----------------------------------------------------------------------------
(* The turns of sparse_file_resparse: from list l, n turns that each leave *)
(* something behind lead to list g.                                        *)

Turn(l, g, max_len) ==
  move_chunks_up_to_len(l, max_len).more /\ move_chunks_up_to_len(l, max_len).left = g
Turns(r, l, g, n, max_len) ==
  /\ r \in [0 .. n -> Seq(Block)] /\ r[0] = l /\ r[n] = g
  /\ \A i \in 0 .. n - 1 : Turn(r[i], r[i + 1], max_len)
Walks(l, g, n, max_len) == \E r : Turns(r, l, g, n, max_len)

\* No turn leaves the list as it is.
LEMMA WalkNone ==
  ASSUME NEW l \in Seq(Block), NEW max_len
  PROVE  Walks(l, l, 0, max_len)
<1> DEFINE r == [i \in 0 .. 0 |-> l]
<1>1. r \in [0 .. 0 -> Seq(Block)] /\ r[0] = l
  OBVIOUS
<1>2. \A i \in 0 .. 0 - 1 : Turn(r[i], r[i + 1], max_len)
  OBVIOUS
<1>3. Turns(r, l, l, 0, max_len)
  BY <1>1, <1>2 DEF Turns
<1> QED BY <1>3 DEF Walks

\* One turn more, at the end.
LEMMA WalkOn ==
  ASSUME NEW l \in Seq(Block), NEW h \in Seq(Block), NEW g \in Seq(Block), NEW n \in Nat, NEW max_len,
         Walks(l, h, n, max_len), Turn(h, g, max_len)
  PROVE  Walks(l, g, n + 1, max_len)
<1>1. PICK r : Turns(r, l, h, n, max_len)
  BY DEF Walks
<1>2. /\ r \in [0 .. n -> Seq(Block)] /\ r[0] = l /\ r[n] = h
      /\ \A i \in 0 .. n - 1 : Turn(r[i], r[i + 1], max_len)
  BY <1>1 DEF Turns
<1> DEFINE s == [i \in 0 .. n + 1 |-> IF i = n + 1 THEN g ELSE r[i]]
<1>3. s \in [0 .. n + 1 -> Seq(Block)] /\ s[0] = l /\ s[n + 1] = g
  BY <1>2
<1>4. ASSUME NEW i \in 0 .. (n + 1) - 1 PROVE Turn(s[i], s[i + 1], max_len)
  <2>1. CASE i = n
    <3>1. s[i] = h /\ s[i + 1] = g
      BY <2>1, <1>2
    <3> QED BY <3>1
  <2>2. CASE i # n
    <3>1. i \in 0 .. n - 1 /\ s[i] = r[i] /\ s[i + 1] = r[i + 1]
      BY <2>2
    <3> QED BY <3>1, <1>2
  <2> QED BY <2>1, <2>2
<1> HIDE DEF s
<1>5. Turns(s, l, g, n + 1, max_len)
  BY <1>3, <1>4 DEF Turns
<1> QED BY <1>5 DEF Walks

\* A walk, by its first turn.
LEMMA WalkFirst ==
  ASSUME NEW l, NEW g, NEW n \in Nat, NEW max_len, Walks(l, g, n, max_len)
  PROVE  /\ n = 0 => l = g
         /\ n # 0 => /\ move_chunks_up_to_len(l, max_len).more
                     /\ Walks(move_chunks_up_to_len(l, max_len).left, g, n - 1, max_len)
<1>1. PICK r : Turns(r, l, g, n, max_len)
  BY DEF Walks
<1>2. /\ r \in [0 .. n -> Seq(Block)] /\ r[0] = l /\ r[n] = g
      /\ \A i \in 0 .. n - 1 : Turn(r[i], r[i + 1], max_len)
  BY <1>1 DEF Turns
<1>3. n = 0 => l = g
  BY <1>2
<1>4. ASSUME n # 0 PROVE /\ move_chunks_up_to_len(l, max_len).more
                         /\ Walks(move_chunks_up_to_len(l, max_len).left, g, n - 1, max_len)
  <2>1. 0 \in 0 .. n - 1 /\ 0 + 1 = 1 /\ n - 1 \in Nat
    BY <1>4
  <2>2. Turn(l, r[1], max_len)
    BY <2>1, <1>2
  <2> DEFINE s == [i \in 0 .. n - 1 |-> r[i + 1]]
  <2>3. s \in [0 .. n - 1 -> Seq(Block)] /\ s[0] = r[1] /\ s[n - 1] = g
    BY <2>1, <1>2
  <2>4. ASSUME NEW i \in 0 .. (n - 1) - 1 PROVE Turn(s[i], s[i + 1], max_len)
    <3>1. i + 1 \in 0 .. n - 1 /\ i \in 0 .. n - 1 /\ s[i] = r[i + 1] /\ s[i + 1] = r[(i + 1) + 1]
      BY <2>1
    <3> QED BY <3>1, <1>2
  <2> HIDE DEF s
  <2>5. Turns(s, r[1], g, n - 1, max_len)
    BY <2>3, <2>4 DEF Turns
  <2>6. Walks(r[1], g, n - 1, max_len)
    BY <2>5 DEF Walks
  <2> QED BY <2>2, <2>6 DEF Turn
<1> QED BY <1>3, <1>4

\* What the first pass does once, the second does again.
Replays(tmp, l, n, max_len) ==
  \A g \in Seq(Block) : Alike(l, g, max_len) => Walks(tmp \o g, g, n, max_len)

\* Before the first turn there is nothing to replay.
LEMMA ReplaysNone ==
  ASSUME NEW l, NEW max_len
  PROVE  Replays(<<>>, l, 0, max_len)
<1> SUFFICES ASSUME NEW g \in Seq(Block) PROVE Walks(<<>> \o g, g, 0, max_len)
  BY DEF Replays
<1>1. <<>> \o g = g
  OBVIOUS
<1> QED BY <1>1, WalkNone

InThree(abc, a, b, c) == abc = (a \o b) \o c

\* Concatenation of three lists, either way.
LEMMA Regroup ==
  ASSUME NEW a \in Seq(Block), NEW b \in Seq(Block), NEW c \in Seq(Block)
  PROVE  InThree(a \o (b \o c), a, b, c)
BY ConcatAssociative, SMTT(40) DEF InThree

\* A turn of the first pass is one of the second, on any list like the one left.
LEMMA ReplaysTurn ==
  ASSUME NEW tmp \in Seq(Block), NEW l \in Seq(Block), NEW n \in Nat, NEW max_len \in Limits,
         Replays(tmp, l, n, max_len), NEW mv \in Seq(Block), NEW g \in Seq(Block),
         move_chunks_up_to_len(mv \o g, max_len) = [moved |-> mv, left |-> g, more |-> TRUE],
         Alike(l, mv \o g, max_len)
  PROVE  Walks((tmp \o mv) \o g, g, n + 1, max_len)
<1>1. PICK h \in Seq(Block) : h = mv \o g
  BY Concat
<1>2. Walks(tmp \o h, h, n, max_len)
  BY <1>1, Zenon DEF Replays
<1>3. Turn(h, g, max_len)
  BY <1>1 DEF Turn
<1>4. PICK all \in Seq(Block) : all = tmp \o h
  BY Concat
<1>5. Walks(all, g, n + 1, max_len)
  BY <1>2, <1>3, <1>4, WalkOn
<1>6. InThree(tmp \o (mv \o g), tmp, mv, g)
  BY Regroup, Zenon
<1>7. all = (tmp \o mv) \o g
  BY <1>1, <1>4, <1>6, Zenon DEF InThree
<1> QED BY <1>5, <1>7, Zenon

\* What the first pass has cut, the second will cut, one turn further.
LEMMA ReplaysOneMore ==
  ASSUME NEW tmp \in Seq(Block), NEW l \in Seq(Block), NEW n \in Nat, NEW max_len \in Limits,
         Replays(tmp, l, n, max_len), NEW m, m = move_chunks_up_to_len(l, max_len), m.more,
         m.moved \in Seq(Block), m.left \in Seq(Block)
  PROVE  Replays(tmp \o m.moved, m.left, n + 1, max_len)
<1> SUFFICES ASSUME NEW g \in Seq(Block), Alike(m.left, g, max_len)
             PROVE  Walks((tmp \o m.moved) \o g, g, n + 1, max_len)
  BY DEF Replays
<1>1. /\ move_chunks_up_to_len(m.moved \o g, max_len) = [moved |-> m.moved, left |-> g, more |-> TRUE]
      /\ Alike(l, m.moved \o g, max_len)
  BY MoveAgain
<1> QED BY <1>1, ReplaysTurn, Zenon

\* The bound on the number of turns.
Counted(l, n) == n <= ImageBlocks /\ (l # <<>> => n <= l[1].block)

\* The first pass counts one piece a turn.
LEMMA CountedOneMore ==
  ASSUME NEW l \in Seq(Block), Good(l), NEW n \in Nat, Counted(l, n), NEW max_len \in Limits,
         NEW m, m = move_chunks_up_to_len(l, max_len), m.more
  PROVE  Counted(m.left, n + 1)
<1>1. /\ m.moved \in Seq(Block) /\ m.left \in Seq(Block) /\ Good(m.moved \o m.left)
  BY MoveKeeps
<1>2. l # <<>>
  <2> SUFFICES ASSUME l = <<>> PROVE FALSE
    OBVIOUS
  <2>1. \A j \in 1 .. Len(l) : BytesUpTo(l, j) <= Budget(max_len)
    OBVIOUS
  <2>2. move_chunks_up_to_len(l, max_len) = [moved |-> l, left |-> <<>>, more |-> FALSE]
    BY <2>1, MoveAll
  <2> QED BY <2>2
<1>3. PICK a \in Seq(Block) : a = m.moved
  BY <1>1
<1>4. PICK b \in Seq(Block) : b = m.left
  BY <1>1
<1>5. a # <<>> /\ a[1].block = l[1].block
  BY <1>2, <1>3, MoveTakes
<1>6. Good(a) /\ Before(a, b)
  BY <1>1, <1>3, <1>4, GoodConcat
<1>7. 1 \in 1 .. Len(a) /\ a[1] \in Block
  BY <1>5
<1>8. a[1].block \in Nat /\ EndOf(a[1]) \in Nat /\ a[1].block < EndOf(a[1]) /\ EndOf(a[1]) <= ImageBlocks
  BY <1>6, <1>7, BlockFacts DEF Good
<1>9. n + 1 <= EndOf(a[1]) /\ n + 1 <= ImageBlocks
  BY <1>2, <1>5, <1>8, Sizes DEF Counted
<1>10. ASSUME b # <<>> PROVE n + 1 <= b[1].block
  <2>1. 1 \in 1 .. Len(b) /\ b[1] \in Block
    BY <1>10
  <2>2. EndOf(a[1]) <= b[1].block /\ b[1].block \in Nat
    BY <2>1, <1>6, <1>7, BlockFacts DEF Before
  <2> QED BY <2>2, <1>8, <1>9, SMTT(40)
<1> QED BY <1>4, <1>9, <1>10 DEF Counted

----------------------------------------------------------------------------
(* The inductive invariant, by what the client is at.                      *)

Blank == [b \in 0 .. ImageBlocks - 1 |-> Old]
Written(p, n) == UNION {CellsOf(p[i]) : i \in 1 .. n}
Pieces(p) == p \in Seq(Seq(Block)) /\ \A i \in 1 .. Len(p) : Good(p[i])
Fitting(p, max_len) == \A i \in 1 .. Len(p) : Bytes(p[i]) \in Nat /\ Bytes(p[i]) <= Budget(max_len) + 12
DiskIs(disk, img, W) ==
  /\ W \subseteq ImageCells(img)
  /\ disk = [b \in 0 .. ImageBlocks - 1 |-> IF <<b, img[b + 1]>> \in W THEN img[b + 1] ELSE Old]

Shape ==
  /\ sfImage \in Seq(Cell) /\ Len(sfImage) <= ImageBlocks
  /\ sfSource = "raw" => \A i \in 1 .. Len(sfImage) : sfImage[i] # Skip
  /\ sfFile \in Nat /\ sfLimit \in Limits /\ sfTail \in 1 .. BlockSize
  /\ TailLens \subseteq {BlockSize} => sfTail = BlockSize
  /\ sfPc \in {"import", "count", "resparse", "send", "write", "done", "failed"}
  /\ sfPc # "import" => Len(sfImage) = ImageBlocks

Importing ==
  sfPc = "import" =>
    /\ Good(sfList) /\ EndsBy(sfList, Len(sfImage)) /\ sfUsed \in 0 .. Len(sfList)
    /\ CellsOf(sfList) = ImageCells(sfImage)
    /\ sfTmp = <<>> /\ sfPieces = <<>> /\ sfCount = 0 /\ sfDone = 0 /\ sfDisk = Blank

Counting ==
  sfPc = "count" =>
    /\ sfFile > sfLimit
    /\ sfTmp \in Seq(Block) /\ sfList \in Seq(Block) /\ Good(sfTmp \o sfList)
    /\ CellsOf(sfTmp) \cup CellsOf(sfList) = ImageCells(sfImage)
    /\ sfCount \in Nat /\ Counted(sfList, sfCount)
    /\ Replays(sfTmp, sfList, sfCount, sfLimit)
    /\ sfPieces = <<>> /\ sfDone = 0 /\ sfDisk = Blank

\* The turns left in the second pass: as many as the array has room for.
TurnsLeft(l, n, max_len) ==
  /\ n \in Nat
  /\ \E last \in Seq(Block) : Walks(l, last, n, max_len) /\ ~move_chunks_up_to_len(last, max_len).more

Cutting ==
  sfPc = "resparse" =>
    /\ sfFile > sfLimit
    /\ sfTmp = <<>> /\ Good(sfList)
    /\ Pieces(sfPieces) /\ Fitting(sfPieces, sfLimit)
    /\ Written(sfPieces, Len(sfPieces)) \cup CellsOf(sfList) = ImageCells(sfImage)
    /\ sfCount \in Nat /\ TurnsLeft(sfList, (sfCount - 1) - Len(sfPieces), sfLimit)
    /\ sfDone = 0 /\ sfDisk = Blank

Sending ==
  sfPc \in {"send", "write", "done", "failed"} =>
    /\ sfTmp = <<>> /\ Good(sfList)
    /\ Pieces(sfPieces) /\ Written(sfPieces, Len(sfPieces)) = ImageCells(sfImage)
    /\ sfFile > sfLimit => Fitting(sfPieces, sfLimit)
    /\ sfFile <= sfLimit => Len(sfPieces) = 1
    /\ sfDone \in 0 .. Len(sfPieces)
    /\ sfPc \in {"send", "done"} => DiskIs(sfDisk, sfImage, Written(sfPieces, sfDone))
    /\ sfPc = "done" => sfDone = Len(sfPieces)

Writing ==
  sfPc = "write" =>
    /\ sfWire \in Seq(Chunk) /\ sfSeek \in Nat /\ Chain(sfWire, sfSeek)
    /\ \E W : DiskIs(sfDisk, sfImage, W) /\ W \cup WireCells(sfWire) = Written(sfPieces, sfDone)

Refused == sfPc = "failed" => ~(TailLens \subseteq {BlockSize})

SparseInv == Shape /\ Importing /\ Counting /\ Cutting /\ Sending /\ Writing /\ Refused

\* An image of which nothing is read.
LEMMA ImageNone == <<>> \in Seq(Cell) /\ ImageCells(<<>>) = {}
<1>1. <<>> \in Seq(Cell) /\ Len(<<>>) = 0
  OBVIOUS
<1>2. 0 .. Len(<<>>) - 1 = {}
  BY <1>1
<1> QED BY <1>1, <1>2 DEF ImageCells

\* SparseInv holds before an image is opened.
LEMMA InitKeeps == SparseInit => SparseInv
<1> SUFFICES ASSUME SparseInit PROVE SparseInv
  OBVIOUS
<1>1. /\ sfImage = <<>> /\ sfList = <<>> /\ sfUsed = 0 /\ sfTmp = <<>> /\ sfCount = 0 /\ sfPieces = <<>>
      /\ sfDone = 0 /\ sfDisk = Blank /\ sfPc = "import" /\ sfLimit \in Limits /\ sfSource \in Sources
      /\ sfFile \in {0, 28} /\ sfTail \in TailLens \cup {BlockSize}
  BY DEF SparseInit, Blank, SparseHeader
<1>2. sfTail \in 1 .. BlockSize /\ (TailLens \subseteq {BlockSize} => sfTail = BlockSize)
  <2>1. TailLens \subseteq 1 .. BlockSize /\ BlockSize \in 1 .. BlockSize
    BY SparseAssumption
  <2> QED BY <1>1, <2>1
<1>3. Len(sfImage) = 0 /\ Len(sfList) = 0 /\ Len(sfImage) <= ImageBlocks
  BY <1>1, Sizes
<1>4. Shape
  BY <1>1, <1>2, <1>3, ImageNone DEF Shape
<1>5. Importing
  <2>1. EndsBy(sfList, Len(sfImage)) /\ sfUsed \in 0 .. Len(sfList)
    BY <1>1, <1>3 DEF EndsBy
  <2>2. CellsOf(sfList) = ImageCells(sfImage) /\ Good(sfList)
    BY <1>1, ImageNone, EmptyList
  <2> QED BY <1>1, <2>1, <2>2 DEF Importing
<1>6. Counting /\ Cutting /\ Sending /\ Writing /\ Refused
  BY <1>1 DEF Counting, Cutting, Sending, Writing, Refused
<1> QED BY <1>4, <1>5, <1>6 DEF SparseInv

\* The variables that reading the image leaves alone.
Rest == <<sfSource, sfTail, sfLimit, sfTmp, sfCount, sfPieces, sfDone, sfWire, sfSeek, sfDisk, sfPc>>

\* Adding a block while importing keeps SparseInv.
LEMMA AddBlockKeeps ==
  ASSUME SparseInv, sfPc = "import", NEW bb \in Block, bb.block = Len(sfImage), EndOf(bb) <= ImageBlocks,
         AddBlock(bb), sfFile' \in Nat, UNCHANGED Rest
  PROVE  SparseInv'
<1>1. /\ sfImage \in Seq(Cell) /\ Good(sfList) /\ EndsBy(sfList, Len(sfImage)) /\ sfUsed \in 0 .. Len(sfList)
      /\ CellsOf(sfList) = ImageCells(sfImage) /\ sfList \in Seq(Block)
      /\ sfTmp = <<>> /\ sfPieces = <<>> /\ sfCount = 0 /\ sfDone = 0 /\ sfDisk = Blank
  BY DEF SparseInv, Shape, Importing, Good
<1>2. PICK q : q = queue_bb(sfList, sfUsed, bb)
  OBVIOUS
<1>3. PICK new : new = [i \in 1 .. DivUp(bb.len) |-> CellAt(bb, Len(sfImage) + i - 1)]
  OBVIOUS
<1>4. sfList' = q.list /\ sfUsed' = q.used /\ sfImage' = sfImage \o new
  BY <1>2, <1>3 DEF AddBlock, At
<1>5. /\ Good(q.list) /\ q.used \in 0 .. Len(q.list)
      /\ CellsOf(q.list) = CellsOf(sfList) \cup BlockCells(bb)
      /\ EndsBy(q.list, EndOf(bb))
  <2>1. EndsBy(sfList, bb.block)
    BY <1>1
  <2> QED BY <2>1, <1>1, <1>2, QueueAppends
<1>6. /\ sfImage' \in Seq(Cell) /\ Len(sfImage') = EndOf(bb)
      /\ ImageCells(sfImage') = ImageCells(sfImage) \cup BlockCells(bb)
      /\ \A i \in 1 .. Len(new) : new[i] # Skip
  BY <1>1, <1>3, <1>4, ImageGrows
<1>7. ASSUME sfSource' = "raw", NEW i \in 1 .. Len(sfImage') PROVE sfImage'[i] # Skip
  <2>1. \A j \in 1 .. Len(sfImage) : sfImage[j] # Skip
    BY <1>7 DEF Rest, SparseInv, Shape
  <2>2. new \in Seq(Cell)
    <3>1. DivUp(bb.len) \in Nat
      BY BlockFacts
    <3>2. ASSUME NEW j \in 1 .. DivUp(bb.len) PROVE CellAt(bb, Len(sfImage) + j - 1) \in Cell
      BY <1>1, <3>1, CellFacts
    <3>3. new \in [1 .. DivUp(bb.len) -> Cell]
      BY <3>2, <1>3
    <3> QED BY <3>1, <3>3, FunctionIsList
  <2>3. PICK all : all = sfImage'
    OBVIOUS
  <2>4. PICK nw \in Seq(Cell) : nw = new
    BY <2>2
  <2>5. all = sfImage \o nw
    BY <1>4, <2>3, <2>4
  <2>6. /\ Len(all) = Len(sfImage) + Len(nw)
        /\ \A j \in 1 .. Len(sfImage) : all[j] = sfImage[j]
        /\ \A j \in 1 .. Len(nw) : all[Len(sfImage) + j] = nw[j]
    BY <2>5, <1>1, ConcatAny
  <2>7. CASE i <= Len(sfImage)
    <3>1. i \in 1 .. Len(sfImage)
      BY <2>7
    <3> QED BY <3>1, <2>1, <2>3, <2>6
  <2>8. CASE ~(i <= Len(sfImage))
    <3>1. i - Len(sfImage) \in 1 .. Len(nw) /\ Len(sfImage) + (i - Len(sfImage)) = i
      BY <2>3, <2>6, <2>8, <1>1
    <3>2. all[i] = nw[i - Len(sfImage)]
      BY <3>1, <2>6
    <3> QED BY <3>1, <3>2, <2>3, <2>4, <1>6
  <2> QED BY <2>7, <2>8, <1>6
<1>8. Shape'
  <2>1. sfPc' = "import" /\ sfLimit' \in Limits /\ sfTail' = sfTail
    BY DEF Rest, SparseInv, Shape
  <2>2. Len(sfImage') <= ImageBlocks
    BY <1>6
  <2>3. sfTail \in 1 .. BlockSize /\ (TailLens \subseteq {BlockSize} => sfTail = BlockSize)
    BY DEF SparseInv, Shape
  <2> QED BY <2>1, <2>2, <2>3, <1>6, <1>7 DEF Shape
<1>9. Importing'
  BY <1>1, <1>4, <1>5, <1>6 DEF Rest, Importing, Blank
<1>10. Counting' /\ Cutting' /\ Sending' /\ Writing' /\ Refused'
  BY DEF Rest, Counting, Cutting, Sending, Writing, Refused
<1> QED BY <1>8, <1>9, <1>10 DEF SparseInv

\* Passing over a stretch while importing keeps SparseInv.
LEMMA SkipKeeps ==
  ASSUME SparseInv, sfPc = "import", sfSource # "raw", NEW n \in 1 .. (ImageBlocks - Len(sfImage)),
         sfImage' = sfImage \o [i \in 1 .. n |-> Skip], UNCHANGED <<sfList, sfUsed>>,
         sfFile' \in Nat, UNCHANGED Rest
  PROVE  SparseInv'
<1>1. /\ sfImage \in Seq(Cell) /\ Good(sfList) /\ EndsBy(sfList, Len(sfImage)) /\ sfUsed \in 0 .. Len(sfList)
      /\ CellsOf(sfList) = ImageCells(sfImage) /\ sfList \in Seq(Block)
      /\ sfTmp = <<>> /\ sfPieces = <<>> /\ sfCount = 0 /\ sfDone = 0 /\ sfDisk = Blank
  BY DEF SparseInv, Shape, Importing, Good
<1>2. n \in Nat /\ ImageBlocks \in Nat
  BY Sizes
<1>3. PICK new : new = [i \in 1 .. n |-> Skip]
  OBVIOUS
<1>4. /\ sfImage' \in Seq(Cell) /\ Len(sfImage') = Len(sfImage) + n
      /\ ImageCells(sfImage') = ImageCells(sfImage)
  BY <1>1, <1>2, <1>3, ImageSkips
<1>5. Len(sfImage') <= ImageBlocks
  BY <1>1, <1>2, <1>4
<1>6. EndsBy(sfList, Len(sfImage'))
  <2> SUFFICES ASSUME NEW i \in 1 .. Len(sfList) PROVE EndOf(sfList[i]) <= Len(sfImage')
    BY DEF EndsBy
  <2>1. EndOf(sfList[i]) <= Len(sfImage)
    BY <1>1 DEF EndsBy
  <2>2. sfList[i] \in Block
    BY <1>1
  <2>3. EndOf(sfList[i]) \in Nat
    BY <2>2, BlockFacts
  <2> QED BY <2>1, <2>3, <1>1, <1>2, <1>4
<1>7. Shape'
  <2>1. sfPc' = "import" /\ sfLimit' \in Limits /\ sfTail' = sfTail /\ sfSource' # "raw"
    BY DEF Rest, SparseInv, Shape
  <2>2. sfTail \in 1 .. BlockSize /\ (TailLens \subseteq {BlockSize} => sfTail = BlockSize)
    BY DEF SparseInv, Shape
  <2> QED BY <2>1, <2>2, <1>4, <1>5 DEF Shape
<1>8. Importing'
  BY <1>1, <1>4, <1>6 DEF Rest, Importing, Blank
<1>9. Counting' /\ Cutting' /\ Sending' /\ Writing' /\ Refused'
  BY DEF Rest, Counting, Cutting, Sending, Writing, Refused
<1> QED BY <1>7, <1>8, <1>9 DEF SparseInv

\* The blocks that are read: one with n whole blocks, or the last of a raw image.
LEMMA WholeBlock ==
  ASSUME NEW at \in Nat, NEW n \in Nat \ {0}, NEW type \in Types, NEW off \in Nat
  PROVE  /\ Backed(at, n * BlockSize, type, off) \in Block
         /\ Backed(at, n * BlockSize, type, off).block = at
         /\ EndOf(Backed(at, n * BlockSize, type, off)) = at + n
<1>1. PICK len \in Nat \ {0} : len = n * BlockSize /\ DivUp(len) = n
  BY DivUpWhole
<1> QED BY <1>1, BackedFacts, SMTT(40)

\* A block of at most BlockSize bytes ends one block on.
LEMMA OneBlock ==
  ASSUME NEW at \in Nat, NEW len \in 1 .. BlockSize, NEW type \in Types, NEW off \in Nat
  PROVE  /\ Backed(at, len, type, off) \in Block
         /\ Backed(at, len, type, off).block = at
         /\ EndOf(Backed(at, len, type, off)) = at + 1
<1>1. BlockSize \in Nat /\ len \in Nat \ {0}
  BY Sizes
<1>2. DivUp(len) = 1
  <2>1. len <= 1 * BlockSize /\ 1 * BlockSize < len + BlockSize /\ 1 \in Nat
    BY <1>1
  <2> QED BY <1>1, <2>1, DivUpIs
<1> QED BY <1>1, <1>2, BackedFacts

\* Reading a block of a raw image keeps SparseInv.
LEMMA ReadBlockKeeps == SparseInv /\ ReadBlock => SparseInv'
<1> SUFFICES ASSUME SparseInv, ReadBlock PROVE SparseInv'
  OBVIOUS
<1>1. /\ sfPc = "import" /\ sfImage \in Seq(Cell) /\ sfTail \in 1 .. BlockSize /\ sfFile \in Nat
      /\ Len(sfImage) < ImageBlocks
  BY DEF ReadBlock, SparseInv, Shape, At
<1>2. UNCHANGED Rest
  BY DEF ReadBlock, Rest
<1>3. PICK at \in Nat : at = Len(sfImage)
  BY <1>1
<1>4. BlockSize \in Nat /\ BlockSize >= 4 /\ ImageBlocks \in Nat
  BY Sizes
<1>5. PICK to_read \in 1 .. BlockSize : to_read = IF At = ImageBlocks - 1 THEN sfTail ELSE BlockSize
  BY <1>1, <1>4
<1>6. PICK fill \in Nat : fill = (At \div Grain) % 3 \div 2
  <2>1. PICK g \in Nat : g = At \div Grain
    BY <1>3, SparseAssumption DEF At
  <2>2. g % 3 \in Nat
    BY <2>1
  <2>3. (g % 3) \div 2 \in Nat
    BY <2>2
  <2> QED BY <2>1, <2>3
<1>7. PICK off \in Nat : off = At * BlockSize
  BY <1>3, <1>4 DEF At
<1>8. /\ AddBlock(Backed(at, to_read, "fill", fill)) \/ AddBlock(Backed(at, to_read, "fd", off))
      /\ sfFile' = sfFile + to_read
  BY <1>3, <1>5, <1>6, <1>7 DEF ReadBlock, At
<1>9. sfFile' \in Nat
  BY <1>1, <1>4, <1>5, <1>8
<1>10. PICK bb \in Block : bb.block = at /\ EndOf(bb) = at + 1 /\ AddBlock(bb)
  <2>1. "fill" \in Types /\ "fd" \in Types
    BY DEF Types
  <2>2. CASE AddBlock(Backed(at, to_read, "fill", fill))
    BY <2>1, <2>2, OneBlock
  <2>3. CASE AddBlock(Backed(at, to_read, "fd", off))
    BY <2>1, <2>3, OneBlock
  <2> QED BY <2>2, <2>3, <1>8
<1>11. EndOf(bb) <= ImageBlocks
  BY <1>1, <1>3, <1>4, <1>10
<1> QED BY <1>1, <1>2, <1>3, <1>9, <1>10, <1>11, AddBlockKeeps

\* Reading a chunk of a sparse image keeps SparseInv.
LEMMA ProcessChunkKeeps == SparseInv /\ ProcessChunk => SparseInv'
<1> SUFFICES ASSUME SparseInv, ProcessChunk PROVE SparseInv'
  OBVIOUS
<1>1. /\ sfPc = "import" /\ sfImage \in Seq(Cell) /\ sfFile \in Nat /\ sfSource # "raw"
  BY DEF ProcessChunk, SparseInv, Shape
<1>2. UNCHANGED Rest
  BY DEF ProcessChunk, Rest
<1>3. PICK at \in Nat : at = Len(sfImage)
  BY <1>1
<1>4. BlockSize \in Nat /\ BlockSize >= 4 /\ ImageBlocks \in Nat
  BY Sizes
<1>5. PICK n \in RunsHere :
          \/ /\ AddBlock(Backed(At, n * BlockSize, "fd", sfFile + ChunkHeader))
             /\ sfFile' = (sfFile + ChunkHeader) + n * BlockSize
          \/ AddBlock(Backed(At, n * BlockSize, "fill", 0)) /\ sfFile' = (sfFile + ChunkHeader) + FillLen
          \/ /\ sfImage' = sfImage \o [i \in 1..n |-> Skip]
             /\ sfFile' = sfFile + ChunkHeader
             /\ UNCHANGED <<sfList, sfUsed>>
  BY DEF ProcessChunk
<1>6. n \in 1 .. (ImageBlocks - Len(sfImage)) /\ n \in Nat \ {0}
  BY DEF RunsHere, At
<1>7. at + n <= ImageBlocks
  BY <1>3, <1>4, <1>6
<1>8. "fill" \in Types /\ "fd" \in Types
  BY DEF Types
<1>9. PICK data \in Nat : data = sfFile + ChunkHeader
  BY <1>1 DEF ChunkHeader
<1>10. CASE /\ AddBlock(Backed(At, n * BlockSize, "fd", sfFile + ChunkHeader))
            /\ sfFile' = (sfFile + ChunkHeader) + n * BlockSize
  <2>1. PICK bb \in Block : bb.block = at /\ EndOf(bb) = at + n /\ bb = Backed(at, n * BlockSize, "fd", data)
    BY <1>6, <1>8, WholeBlock, ZenonT(60)
  <2>2. AddBlock(bb)
    BY <2>1, <1>3, <1>9, <1>10 DEF At
  <2>3. sfFile' \in Nat
    BY <1>4, <1>6, <1>9, <1>10
  <2> QED BY <2>1, <2>2, <2>3, <1>1, <1>2, <1>3, <1>7, AddBlockKeeps
<1>11. CASE AddBlock(Backed(At, n * BlockSize, "fill", 0)) /\ sfFile' = (sfFile + ChunkHeader) + FillLen
  <2>1. PICK bb \in Block : bb.block = at /\ EndOf(bb) = at + n /\ bb = Backed(at, n * BlockSize, "fill", 0)
    BY <1>6, <1>8, WholeBlock, ZenonT(60)
  <2>2. AddBlock(bb)
    BY <2>1, <1>3, <1>11 DEF At
  <2>3. sfFile' \in Nat
    BY <1>9, <1>11 DEF FillLen
  <2> QED BY <2>1, <2>2, <2>3, <1>1, <1>2, <1>3, <1>7, AddBlockKeeps
<1>12. CASE /\ sfImage' = sfImage \o [i \in 1..n |-> Skip]
            /\ sfFile' = sfFile + ChunkHeader
            /\ UNCHANGED <<sfList, sfUsed>>
  BY <1>1, <1>2, <1>6, <1>9, <1>12, SkipKeeps
<1> QED BY <1>5, <1>10, <1>11, <1>12

\* Adding an extent of the super image keeps SparseInv.
LEMMA AddExtentKeeps == SparseInv /\ AddExtent => SparseInv'
<1> SUFFICES ASSUME SparseInv, AddExtent PROVE SparseInv'
  OBVIOUS
<1>1. /\ sfPc = "import" /\ sfImage \in Seq(Cell) /\ sfFile \in Nat /\ sfSource # "raw"
  BY DEF AddExtent, SparseInv, Shape
<1>2. UNCHANGED Rest
  BY DEF AddExtent, Rest
<1>3. PICK at \in Nat : at = Len(sfImage)
  BY <1>1
<1>4. BlockSize \in Nat /\ BlockSize >= 4 /\ ImageBlocks \in Nat
  BY Sizes
<1>5. PICK n \in RunsHere :
         /\ \/ AddBlock(Backed(At, n * BlockSize, "fill", 0))
            \/ AddBlock(Backed(At, n * BlockSize, "data", 0))
            \/ \E off \in {0, At * BlockSize} : AddBlock(Backed(At, n * BlockSize, "fd", off))
            \/ sfImage' = sfImage \o [i \in 1..n |-> Skip] /\ UNCHANGED <<sfList, sfUsed>>
         /\ sfFile' = sfFile + n * BlockSize
  BY DEF AddExtent
<1>6. n \in 1 .. (ImageBlocks - Len(sfImage)) /\ n \in Nat \ {0}
  BY DEF RunsHere, At
<1>7. at + n <= ImageBlocks
  BY <1>3, <1>4, <1>6
<1>8. sfFile' \in Nat
  BY <1>1, <1>4, <1>5, <1>6
<1>9. ASSUME NEW type \in Types, NEW off \in Nat, AddBlock(Backed(At, n * BlockSize, type, off))
      PROVE  SparseInv'
  <2>1. PICK bb \in Block : bb.block = at /\ EndOf(bb) = at + n /\ bb = Backed(at, n * BlockSize, type, off)
    BY <1>6, WholeBlock, ZenonT(60)
  <2>2. AddBlock(bb)
    BY <2>1, <1>3, <1>9 DEF At
  <2> QED BY <2>1, <2>2, <1>1, <1>2, <1>3, <1>7, <1>8, AddBlockKeeps
<1>10. "fill" \in Types /\ "fd" \in Types /\ "data" \in Types
  BY DEF Types
<1>11. CASE AddBlock(Backed(At, n * BlockSize, "fill", 0))
  BY <1>9, <1>10, <1>11
<1>12. CASE AddBlock(Backed(At, n * BlockSize, "data", 0))
  BY <1>9, <1>10, <1>12
<1>13. CASE \E off \in {0, At * BlockSize} : AddBlock(Backed(At, n * BlockSize, "fd", off))
  <2>1. PICK off \in {0, At * BlockSize} : AddBlock(Backed(At, n * BlockSize, "fd", off))
    BY <1>13
  <2>2. off \in Nat
    BY <1>3, <1>4 DEF At
  <2> QED BY <2>1, <2>2, <1>9, <1>10
<1>14. CASE sfImage' = sfImage \o [i \in 1..n |-> Skip] /\ UNCHANGED <<sfList, sfUsed>>
  BY <1>1, <1>2, <1>6, <1>8, <1>14, SkipKeeps
<1> QED BY <1>5, <1>11, <1>12, <1>13, <1>14

Appended(q, p, l) == q = Append(p, l)

\* One piece more.
LEMMA PieceAppended ==
  ASSUME NEW p, Pieces(p), NEW l, Good(l), NEW q, Appended(q, p, l)
  PROVE  /\ Pieces(q) /\ Len(q) = Len(p) + 1 /\ Len(p) \in Nat
         /\ Written(q, Len(q)) = Written(p, Len(p)) \cup CellsOf(l)
         /\ \A i \in 1 .. Len(q) : (i \in 1 .. Len(p) /\ q[i] = p[i]) \/ q[i] = l
<1>1. p \in Seq(Seq(Block)) /\ l \in Seq(Block)
  BY DEF Pieces, Good
<1>2. /\ q \in Seq(Seq(Block)) /\ Len(q) = Len(p) + 1 /\ Len(p) \in Nat /\ q[Len(p) + 1] = l
      /\ \A i \in 1 .. Len(p) : q[i] = p[i]
  BY <1>1 DEF Appended
<1>3. \A i \in 1 .. Len(q) : (i \in 1 .. Len(p) /\ q[i] = p[i]) \/ q[i] = l
  <2> SUFFICES ASSUME NEW i \in 1 .. Len(q) PROVE (i \in 1 .. Len(p) /\ q[i] = p[i]) \/ q[i] = l
    OBVIOUS
  <2>1. i \in 1 .. Len(p) \/ i = Len(p) + 1
    BY <1>2
  <2> QED BY <2>1, <1>2
<1>4. Pieces(q)
  BY <1>2, <1>3 DEF Pieces
<1>5. ASSUME NEW c PROVE c \in Written(q, Len(q)) <=> (c \in Written(p, Len(p)) \/ c \in CellsOf(l))
  <2>1. c \in Written(q, Len(q)) <=> \E i \in 1 .. Len(q) : c \in CellsOf(q[i])
    BY DEF Written
  <2>2. c \in Written(p, Len(p)) <=> \E i \in 1 .. Len(p) : c \in CellsOf(p[i])
    BY DEF Written
  <2>3. Len(p) + 1 \in 1 .. Len(q) /\ \A i \in 1 .. Len(p) : i \in 1 .. Len(q)
    BY <1>2
  <2> QED BY <2>1, <2>2, <2>3, <1>2, <1>3
<1>6. Written(q, Len(q)) = Written(p, Len(p)) \cup CellsOf(l)
  BY <1>5
<1> QED BY <1>2, <1>3, <1>4, <1>6

\* No pieces yet.
LEMMA NoPieces == Pieces(<<>>) /\ Written(<<>>, Len(<<>>)) = {} /\ Len(<<>>) = 0 /\ \A p : Written(p, 0) = {}
<1>1. <<>> \in Seq(Seq(Block)) /\ Len(<<>>) = 0 /\ 1 .. 0 = {}
  OBVIOUS
<1> QED BY <1>1 DEF Pieces, Written

\* Before anything is written the partition is as it was.
LEMMA NothingWritten ==
  ASSUME NEW img
  PROVE  DiskIs(Blank, img, {})
BY DEF DiskIs, Blank

\* The end of the import keeps SparseInv.
LEMMA LoadedKeeps == SparseInv /\ Loaded => SparseInv'
<1> SUFFICES ASSUME SparseInv, Loaded PROVE SparseInv'
  OBVIOUS
<1>1. /\ sfPc = "import" /\ Len(sfImage) = ImageBlocks
      /\ UNCHANGED <<sfSource, sfImage, sfTail, sfFile, sfLimit, sfList, sfUsed, sfTmp, sfCount,
                     sfDone, sfWire, sfSeek, sfDisk>>
      /\ IF sfFile > sfLimit THEN sfPc' = "count" /\ UNCHANGED sfPieces
         ELSE sfPc' = "send" /\ sfPieces' = <<sfList>>
  BY DEF Loaded, At
<1>2. /\ Good(sfList) /\ CellsOf(sfList) = ImageCells(sfImage) /\ sfList \in Seq(Block)
      /\ sfTmp = <<>> /\ sfPieces = <<>> /\ sfCount = 0 /\ sfDone = 0 /\ sfDisk = Blank
      /\ sfFile \in Nat /\ sfLimit \in Limits
  BY <1>1 DEF SparseInv, Shape, Importing, Good
<1>3. Shape'
  BY <1>1 DEF SparseInv, Shape
<1>4. Importing' /\ Cutting' /\ Writing' /\ Refused'
  BY <1>1 DEF Importing, Cutting, Writing, Refused
<1>5. CASE sfFile > sfLimit
  <2>1. sfPc' = "count" /\ UNCHANGED sfPieces
    BY <1>1, <1>5
  <2>2. Sending'
    BY <2>1 DEF Sending
  <2>3. Replays(sfTmp, sfList, sfCount, sfLimit)
    BY <1>2, ReplaysNone
  <2>4. Good(sfTmp \o sfList) /\ sfTmp \in Seq(Block)
    <3>1. <<>> \o sfList = sfList
      BY <1>2
    <3> QED BY <3>1, <1>2, EmptyList
  <2>5. CellsOf(sfTmp) \cup CellsOf(sfList) = ImageCells(sfImage)
    BY <1>2, EmptyList
  <2>6. sfCount \in Nat /\ Counted(sfList, sfCount)
    <3>1. ASSUME sfList # <<>> PROVE 0 <= sfList[1].block
      <4>1. sfList[1] \in Block
        BY <1>2, <3>1
      <4> QED BY <4>1, BlockFacts
    <3> QED BY <3>1, <1>2, Sizes DEF Counted
  <2>7. Counting'
    BY <1>1, <1>2, <1>5, <2>1, <2>3, <2>4, <2>5, <2>6 DEF Counting, Blank
  <2> QED BY <1>3, <1>4, <2>2, <2>7 DEF SparseInv
<1>6. CASE ~(sfFile > sfLimit)
  <2>1. sfPc' = "send" /\ sfPieces' = <<sfList>>
    BY <1>1, <1>6
  <2>2. Counting'
    BY <2>1 DEF Counting
  <2>3. /\ Pieces(sfPieces') /\ Len(sfPieces') = 1
        /\ Written(sfPieces', Len(sfPieces')) = ImageCells(sfImage)
    <3>1. PICK q : Appended(q, <<>>, sfList)
      BY DEF Appended
    <3>2. q = <<sfList>>
      BY <3>1 DEF Appended
    <3>3. /\ Pieces(q) /\ Len(q) = Len(<<>>) + 1
          /\ Written(q, Len(q)) = Written(<<>>, Len(<<>>)) \cup CellsOf(sfList)
      BY <3>1, <1>2, NoPieces, PieceAppended
    <3>4. Len(q) = 1
      BY <3>3
    <3> QED BY <3>2, <3>3, <3>4, <2>1, <1>2, NoPieces
  <2>4. DiskIs(sfDisk, sfImage, Written(sfPieces', 0))
    BY <1>2, NoPieces, NothingWritten
  <2>5. sfDone \in 0 .. Len(sfPieces')
    BY <2>3, <1>2
  <2>6. Sending'
    BY <1>1, <1>2, <1>6, <2>1, <2>3, <2>4, <2>5 DEF Sending
  <2> QED BY <1>3, <1>4, <2>2, <2>6 DEF SparseInv
<1> QED BY <1>5, <1>6

\* A turn of the first pass of resparse_file keeps SparseInv.
LEMMA CountPieceKeeps == SparseInv /\ CountPiece => SparseInv'
<1> SUFFICES ASSUME SparseInv, CountPiece PROVE SparseInv'
  OBVIOUS
<1>1. PICK m : m = move_chunks_up_to_len(sfList, sfLimit)
  OBVIOUS
<1>2. PICK tmp : tmp = backed_block_list_move(m.moved, sfTmp)
  OBVIOUS
<1>3. /\ sfPc = "count" /\ sfCount' = sfCount + 1
      /\ IF m.more THEN sfList' = m.left /\ sfTmp' = tmp /\ sfPc' = sfPc
         ELSE sfList' = backed_block_list_move(tmp, m.left) /\ sfTmp' = <<>> /\ sfPc' = "resparse"
      /\ UNCHANGED <<sfSource, sfImage, sfTail, sfFile, sfLimit, sfPieces, sfDone, sfWire, sfSeek, sfDisk>>
  BY <1>1, <1>2 DEF CountPiece
<1>4. /\ sfFile > sfLimit /\ sfTmp \in Seq(Block) /\ sfList \in Seq(Block) /\ Good(sfTmp \o sfList)
      /\ CellsOf(sfTmp) \cup CellsOf(sfList) = ImageCells(sfImage)
      /\ sfCount \in Nat /\ Counted(sfList, sfCount)
      /\ Replays(sfTmp, sfList, sfCount, sfLimit)
      /\ sfPieces = <<>> /\ sfDone = 0 /\ sfDisk = Blank /\ sfLimit \in Limits
  BY <1>3 DEF SparseInv, Shape, Counting
<1>5. Good(sfTmp) /\ Good(sfList) /\ Before(sfTmp, sfList)
  BY <1>4, GoodConcat
<1>6. /\ m.moved \in Seq(Block) /\ m.left \in Seq(Block)
      /\ Good(m.moved \o m.left)
      /\ CellsOf(m.moved) \cup CellsOf(m.left) = CellsOf(sfList)
      /\ \A t \in Seq(Block) : Before(t, sfList) => Before(t, m.moved) /\ Before(t, m.left)
      /\ ~m.more => m.moved = sfList /\ m.left = <<>>
      /\ m.more \in BOOLEAN
  BY <1>1, <1>4, <1>5, MoveKeeps
<1>7. PICK mv \in Seq(Block) : mv = m.moved
  BY <1>6
<1>8. PICK lf \in Seq(Block) : lf = m.left
  BY <1>6
<1>9. tmp = sfTmp \o mv /\ tmp \in Seq(Block)
  <2>1. Before(sfTmp, mv)
    BY <1>4, <1>5, <1>6, <1>7
  <2>2. backed_block_list_move(mv, sfTmp) = sfTmp \o mv
    BY <2>1, <1>4, MoveAppends
  <2>3. sfTmp \o mv \in Seq(Block)
    BY <1>4, Concat
  <2> QED BY <2>2, <2>3, <1>2, <1>7
<1>10. CellsOf(tmp) = CellsOf(sfTmp) \cup CellsOf(mv)
  BY <1>4, <1>9, CellsConcat
<1>11. sfPc' \in {"count", "resparse"}
  BY <1>3, <1>6
<1>12. Shape'
  BY <1>3, <1>11 DEF SparseInv, Shape
<1>13. Importing' /\ Sending' /\ Writing' /\ Refused'
  BY <1>11 DEF Importing, Sending, Writing, Refused
<1>14. CASE m.more
  <2>1. sfList' = lf /\ sfTmp' = tmp /\ sfPc' = "count"
    BY <1>3, <1>8, <1>14
  <2>2. Good(tmp \o lf)
    <3>1. Good(mv) /\ Good(lf) /\ Before(mv, lf)
      BY <1>6, <1>7, <1>8, GoodConcat
    <3>2. Before(sfTmp, mv) /\ Before(sfTmp, lf)
      BY <1>4, <1>5, <1>6, <1>7, <1>8
    <3>3. Good(tmp)
      BY <3>1, <3>2, <1>4, <1>5, <1>9, GoodConcat
    <3>4. Before(tmp, lf)
      BY <3>1, <3>2, <1>4, <1>9, BeforeConcat
    <3> QED BY <3>1, <3>3, <3>4, <1>9, GoodConcat
  <2>3. CellsOf(tmp) \cup CellsOf(lf) = ImageCells(sfImage)
    BY <1>4, <1>6, <1>7, <1>8, <1>10
  <2>4. Counted(lf, sfCount + 1)
    BY <1>1, <1>4, <1>5, <1>8, <1>14, CountedOneMore
  <2>5. Replays(tmp, lf, sfCount + 1, sfLimit)
    BY <1>1, <1>4, <1>6, <1>7, <1>8, <1>9, <1>14, ReplaysOneMore
  <2>6. Counting'
    BY <1>3, <1>4, <1>9, <2>1, <2>2, <2>3, <2>4, <2>5 DEF Counting, Blank
  <2>7. Cutting'
    BY <2>1 DEF Cutting
  <2> QED BY <1>12, <1>13, <2>6, <2>7 DEF SparseInv
<1>15. CASE ~m.more
  <2>1. mv = sfList /\ lf = <<>> /\ sfPc' = "resparse" /\ sfTmp' = <<>>
    BY <1>3, <1>6, <1>7, <1>8, <1>15
  <2>2. sfList' = tmp
    <3>1. sfList' = backed_block_list_move(tmp, <<>>)
      BY <1>3, <1>8, <1>15, <2>1
    <3> QED BY <3>1 DEF backed_block_list_move
  <2>3. Good(tmp) /\ CellsOf(tmp) = ImageCells(sfImage)
    BY <1>4, <1>9, <1>10, <2>1
  <2>4. TurnsLeft(tmp, sfCount, sfLimit)
    <3>1. Walks(tmp, sfList, sfCount, sfLimit)
      BY <1>4, <1>9, <2>1, AlikeSelf DEF Replays
    <3>2. ~move_chunks_up_to_len(sfList, sfLimit).more
      BY <1>1, <1>15
    <3> QED BY <3>1, <3>2, <1>4 DEF TurnsLeft
  <2>5. ((sfCount + 1) - 1) - Len(<<>>) = sfCount
    BY <1>4
  <2>6. Cutting'
    <3>1. Written(<<>>, Len(<<>>)) \cup CellsOf(tmp) = ImageCells(sfImage)
      BY <2>3, NoPieces
    <3>2. Fitting(<<>>, sfLimit)
      BY DEF Fitting
    <3>3. TurnsLeft(tmp, ((sfCount + 1) - 1) - Len(<<>>), sfLimit)
      BY <2>4, <2>5
    <3>4. sfCount' \in Nat
      BY <1>3, <1>4
    <3>5. sfPieces' = <<>> /\ sfImage' = sfImage /\ sfLimit' = sfLimit /\ sfCount' = sfCount + 1
          /\ sfDone' = 0 /\ sfDisk' = Blank /\ sfFile' = sfFile
      BY <1>3, <1>4
    <3> QED BY <1>4, <2>1, <2>2, <2>3, <3>1, <3>2, <3>3, <3>4, <3>5, NoPieces DEF Cutting, Blank
  <2>7. Counting'
    BY <2>1 DEF Counting
  <2> QED BY <1>12, <1>13, <2>6, <2>7 DEF SparseInv
<1> QED BY <1>14, <1>15

\* A turn of the second pass keeps SparseInv.
LEMMA ResparsePieceKeeps == SparseInv /\ ResparsePiece => SparseInv'
<1> SUFFICES ASSUME SparseInv, ResparsePiece PROVE SparseInv'
  OBVIOUS
<1>1. PICK m : m = move_chunks_up_to_len(sfList, sfLimit)
  OBVIOUS
<1>2. sfPc = "resparse"
  BY DEF ResparsePiece
<1>3. /\ sfFile > sfLimit /\ sfTmp = <<>> /\ Good(sfList) /\ sfList \in Seq(Block)
      /\ Pieces(sfPieces) /\ Fitting(sfPieces, sfLimit)
      /\ Written(sfPieces, Len(sfPieces)) \cup CellsOf(sfList) = ImageCells(sfImage)
      /\ sfCount \in Nat /\ TurnsLeft(sfList, (sfCount - 1) - Len(sfPieces), sfLimit)
      /\ sfDone = 0 /\ sfDisk = Blank /\ sfLimit \in Limits
  BY <1>2 DEF SparseInv, Shape, Cutting, Good
<1>4. Len(sfPieces) \in Nat
  BY <1>3 DEF Pieces
<1>5. PICK n \in Nat : n = (sfCount - 1) - Len(sfPieces)
  <2>1. (sfCount - 1) - Len(sfPieces) \in Nat
    BY <1>3 DEF TurnsLeft
  <2> QED BY <2>1
<1>6. Len(sfPieces) < sfCount
  BY <1>3, <1>4, <1>5
<1>7. /\ sfPieces' = Append(sfPieces, m.moved)
      /\ IF m.more THEN sfList' = m.left /\ sfTmp' = sfTmp /\ sfPc' = sfPc
         ELSE sfList' = backed_block_list_move(sfTmp, m.left) /\ sfTmp' = <<>> /\ sfPc' = "send"
      /\ UNCHANGED <<sfSource, sfImage, sfTail, sfFile, sfLimit, sfUsed, sfCount, sfDone, sfWire, sfSeek, sfDisk>>
  BY <1>1, <1>6 DEF ResparsePiece
<1>8. /\ m.moved \in Seq(Block) /\ m.left \in Seq(Block)
      /\ Good(m.moved \o m.left)
      /\ CellsOf(m.moved) \cup CellsOf(m.left) = CellsOf(sfList)
      /\ ~m.more => m.moved = sfList /\ m.left = <<>>
      /\ m.more \in BOOLEAN
  BY <1>1, <1>3, MoveKeeps
<1>9. PICK mv \in Seq(Block) : mv = m.moved
  BY <1>8
<1>10. PICK lf \in Seq(Block) : lf = m.left
  BY <1>8
<1>11. Good(mv) /\ Good(lf)
  BY <1>8, <1>9, <1>10, GoodConcat
<1>12. PICK q : Appended(q, sfPieces, mv)
  BY DEF Appended
<1>13. /\ Pieces(q) /\ Len(q) = Len(sfPieces) + 1
       /\ Written(q, Len(q)) = Written(sfPieces, Len(sfPieces)) \cup CellsOf(mv)
       /\ \A i \in 1 .. Len(q) : (i \in 1 .. Len(sfPieces) /\ q[i] = sfPieces[i]) \/ q[i] = mv
  <2>1. Pieces(sfPieces) /\ Good(mv)
    BY <1>3, <1>11
  <2> QED BY <2>1, <1>12, PieceAppended
<1>14. Fitting(q, sfLimit)
  <2>1. Bytes(mv) \in Nat /\ Bytes(mv) <= Budget(sfLimit) + 12
    BY <1>1, <1>3, <1>9, MoveFits
  <2> QED BY <2>1, <1>3, <1>13 DEF Fitting
<1>15. sfPieces' = q
  BY <1>7, <1>9, <1>12 DEF Appended
<1>16. PICK last \in Seq(Block) :
         Walks(sfList, last, n, sfLimit) /\ ~move_chunks_up_to_len(last, sfLimit).more
  BY <1>3, <1>5 DEF TurnsLeft
<1>17. sfPc' \in {"resparse", "send"}
  BY <1>2, <1>7, <1>8
<1>18. Shape'
  BY <1>2, <1>7, <1>17 DEF SparseInv, Shape
<1>19. Importing' /\ Counting' /\ Writing' /\ Refused'
  BY <1>17 DEF Importing, Counting, Writing, Refused
<1>20. CASE m.more
  <2>1. sfList' = lf /\ sfTmp' = <<>> /\ sfPc' = "resparse"
    BY <1>2, <1>3, <1>7, <1>10, <1>20
  <2>2. n # 0
    BY <1>1, <1>16, <1>20, WalkFirst
  <2>3. Walks(lf, last, n - 1, sfLimit)
    BY <1>1, <1>10, <1>16, <2>2, WalkFirst
  <2>4. n - 1 \in Nat /\ n - 1 = (sfCount - 1) - Len(q)
    BY <1>3, <1>4, <1>5, <1>13, <2>2
  <2>5. TurnsLeft(lf, n - 1, sfLimit)
    BY <1>16, <2>3, <2>4 DEF TurnsLeft
  <2>6. Written(q, Len(q)) \cup CellsOf(lf) = ImageCells(sfImage)
    BY <1>3, <1>8, <1>9, <1>10, <1>13
  <2>7. Cutting'
    BY <1>3, <1>7, <1>11, <1>13, <1>14, <1>15, <2>1, <2>4, <2>5, <2>6 DEF Cutting, Blank
  <2>8. Sending'
    BY <2>1 DEF Sending
  <2> QED BY <1>18, <1>19, <2>7, <2>8 DEF SparseInv
<1>21. CASE ~m.more
  <2>1. mv = sfList /\ sfTmp' = <<>> /\ sfPc' = "send"
    BY <1>7, <1>8, <1>9, <1>21
  <2>2. sfList' = <<>>
    <3>1. sfList' = backed_block_list_move(<<>>, <<>>)
      BY <1>3, <1>7, <1>8, <1>21
    <3> QED BY <3>1 DEF backed_block_list_move
  <2>3. Written(q, Len(q)) = ImageCells(sfImage)
    BY <1>3, <1>13, <2>1
  <2>4. DiskIs(sfDisk, sfImage, Written(q, 0))
    BY <1>3, NoPieces, NothingWritten
  <2>5. sfDone \in 0 .. Len(q)
    BY <1>3, <1>4, <1>13
  <2>6. Sending'
    <3>1. sfFile \in Nat /\ sfLimit \in Nat
      BY <1>3, BudgetFacts DEF SparseInv, Shape
    <3>2. ~(sfFile <= sfLimit)
      BY <3>1, <1>3
    <3>3. Good(sfList')
      BY <2>2, EmptyList
    <3>4. /\ sfFile' = sfFile /\ sfLimit' = sfLimit /\ sfDone' = 0 /\ sfImage' = sfImage /\ sfDisk' = sfDisk
      BY <1>3, <1>7
    <3> QED BY <1>3, <1>13, <1>14, <1>15, <2>1, <2>3, <2>4, <2>5, <3>2, <3>3, <3>4 DEF Sending
  <2>7. Cutting'
    BY <2>1 DEF Cutting
  <2> QED BY <1>18, <1>19, <2>6, <2>7 DEF SparseInv
<1> QED BY <1>20, <1>21

\* What the first pieces cover goes up piece by piece.
LEMMA WrittenStep ==
  ASSUME NEW p, NEW n \in Nat
  PROVE  Written(p, n + 1) = Written(p, n) \cup CellsOf(p[n + 1])
<1>1. 1 .. n + 1 = (1 .. n) \cup {n + 1}
  OBVIOUS
<1>2. ASSUME NEW c PROVE c \in Written(p, n + 1) <=> (c \in Written(p, n) \/ c \in CellsOf(p[n + 1]))
  BY <1>1 DEF Written
<1> QED BY <1>2

\* Downloading a piece keeps SparseInv.
LEMMA FlashPieceKeeps == SparseInv /\ FlashPiece => SparseInv'
<1> SUFFICES ASSUME SparseInv, FlashPiece PROVE SparseInv'
  OBVIOUS
<1>1. /\ sfPc = "send" /\ sfDone < Len(sfPieces) /\ sfDone' = sfDone + 1
      /\ UNCHANGED <<sfSource, sfImage, sfTail, sfFile, sfLimit, sfList, sfUsed, sfTmp, sfCount, sfPieces>>
  BY DEF FlashPiece
<1>2. /\ sfTmp = <<>> /\ Good(sfList) /\ Pieces(sfPieces)
      /\ Written(sfPieces, Len(sfPieces)) = ImageCells(sfImage)
      /\ sfFile > sfLimit => Fitting(sfPieces, sfLimit)
      /\ sfFile <= sfLimit => Len(sfPieces) = 1
      /\ sfDone \in 0 .. Len(sfPieces)
      /\ DiskIs(sfDisk, sfImage, Written(sfPieces, sfDone))
      /\ sfTail \in 1 .. BlockSize /\ Len(sfImage) = ImageBlocks /\ sfImage \in Seq(Cell)
  BY <1>1 DEF SparseInv, Shape, Sending
<1>3. Len(sfPieces) \in Nat /\ sfDone \in Nat /\ sfDone + 1 \in 1 .. Len(sfPieces)
  BY <1>1, <1>2 DEF Pieces
<1>4. PICK l \in Seq(Block) : l = sfPieces[sfDone + 1] /\ Good(l)
  BY <1>2, <1>3 DEF Pieces
<1>5. Written(sfPieces, sfDone + 1) = Written(sfPieces, sfDone) \cup CellsOf(l)
  BY <1>3, <1>4, WrittenStep
<1>6. sfDone' \in 0 .. Len(sfPieces)
  BY <1>1, <1>3
<1>7. CASE sfSource = "raw" /\ sfFile <= sfLimit
  <2>1. sfPc' = "send" /\ sfDisk' = [b \in 0 .. ImageBlocks - 1 |-> sfImage[b + 1]]
    BY <1>1, <1>7 DEF FlashPiece
  <2>2. sfDone + 1 = Len(sfPieces)
    <3>1. Len(sfPieces) = 1
      BY <1>2, <1>7
    <3> QED BY <3>1, <1>3
  <2>3. Written(sfPieces, sfDone + 1) = ImageCells(sfImage)
    BY <1>2, <2>2
  <2>4. ASSUME NEW b \in 0 .. ImageBlocks - 1 PROVE <<b, sfImage[b + 1]>> \in ImageCells(sfImage)
    <3>1. b \in 0 .. Len(sfImage) - 1 /\ b + 1 \in 1 .. Len(sfImage)
      BY <1>2
    <3>2. sfImage[b + 1] # Skip
      BY <3>1, <1>7 DEF SparseInv, Shape
    <3> QED BY <3>1, <3>2 DEF ImageCells
  <2>5. DiskIs(sfDisk', sfImage, ImageCells(sfImage))
    BY <2>1, <2>4 DEF DiskIs
  <2>6. Sending'
    BY <1>1, <1>2, <1>6, <2>1, <2>3, <2>5 DEF Sending
  <2>7. Shape'
    BY <1>1, <2>1 DEF SparseInv, Shape
  <2>8. Importing' /\ Counting' /\ Cutting' /\ Writing' /\ Refused'
    BY <2>1 DEF Importing, Counting, Cutting, Writing, Refused
  <2> QED BY <2>6, <2>7, <2>8 DEF SparseInv
<1>8. CASE ~(sfSource = "raw" /\ sfFile <= sfLimit)
  <2>1. PICK w : w = write_all_blocks(l)
    OBVIOUS
  <2>2. /\ IF Accepted(l, w) THEN sfWire' = w /\ sfSeek' = 0 /\ sfPc' = "write"
           ELSE sfPc' = "failed" /\ UNCHANGED <<sfWire, sfSeek>>
        /\ UNCHANGED sfDisk
    BY <1>4, <1>8, <2>1 DEF FlashPiece
  <2>3. /\ w \in Seq(Chunk) /\ Chain(w, 0) /\ WireCells(w) = CellsOf(l)
        /\ sfTail = BlockSize => Accepted(l, w)
    BY <1>2, <1>4, <2>1, FileIs
  <2>4. sfPc' \in {"write", "failed"}
    BY <2>2
  <2>5. Shape'
    BY <1>1, <2>4 DEF SparseInv, Shape
  <2>6. Sending'
    BY <1>1, <1>2, <1>6, <2>4 DEF Sending
  <2>7. Importing' /\ Counting' /\ Cutting'
    BY <2>4 DEF Importing, Counting, Cutting
  <2>8. Refused'
    <3> SUFFICES ASSUME sfPc' = "failed" PROVE ~(TailLens \subseteq {BlockSize})
      BY DEF Refused
    <3>1. ~Accepted(l, w)
      BY <2>2
    <3>2. sfTail # BlockSize
      BY <3>1, <2>3
    <3> QED BY <3>2 DEF SparseInv, Shape
  <2>9. Writing'
    <3> SUFFICES ASSUME sfPc' = "write" PROVE Writing'
      BY DEF Writing
    <3>1. sfWire' = w /\ sfSeek' = 0 /\ sfDisk' = sfDisk /\ sfImage' = sfImage
          /\ sfDone' = sfDone + 1 /\ sfPieces' = sfPieces
      BY <2>2, <1>1
    <3>2. Written(sfPieces, sfDone) \cup WireCells(w) = Written(sfPieces, sfDone + 1)
      BY <1>5, <2>3
    <3>3. \E W : DiskIs(sfDisk, sfImage, W) /\ W \cup WireCells(w) = Written(sfPieces, sfDone + 1)
      BY <3>2, <1>2
    <3> QED BY <2>3, <3>1, <3>3 DEF Writing
  <2> QED BY <2>5, <2>6, <2>7, <2>8, <2>9 DEF SparseInv
<1> QED BY <1>7, <1>8

\* A chunk that is written where it belongs adds its blocks to the partition.
LEMMA DiskGrows ==
  ASSUME NEW disk, NEW img \in Seq(Cell), Len(img) = ImageBlocks, NEW W, DiskIs(disk, img, W),
         NEW x \in Chunk, x.type # "skip", BlockCells(x) \subseteq ImageCells(img),
         NEW new, new = [b \in 0 .. ImageBlocks - 1 |-> IF Covers(x, b) THEN CellAt(x, b) ELSE disk[b]]
  PROVE  DiskIs(new, img, W \cup BlockCells(x))
<1>1. x.block \in Nat /\ EndOf(x) \in Nat /\ EndOf(x) = x.block + DivUp(x.len) /\ DivUp(x.len) \in Nat
  BY ChunkFacts
<1>2. ASSUME NEW b \in 0 .. ImageBlocks - 1
      PROVE  (IF Covers(x, b) THEN CellAt(x, b) ELSE disk[b]) =
               IF <<b, img[b + 1]>> \in W \cup BlockCells(x) THEN img[b + 1] ELSE Old
  <2>1. b \in Int /\ (Covers(x, b) <=> b \in x.block .. EndOf(x) - 1)
    BY <1>1, Sizes DEF Covers
  <2>2. CASE Covers(x, b)
    <3>1. <<b, CellAt(x, b)>> \in BlockCells(x)
      BY <2>1, <2>2 DEF BlockCells
    <3>2. PICK c \in 0 .. Len(img) - 1 : <<b, CellAt(x, b)>> = <<c, img[c + 1]>>
      BY <3>1 DEF ImageCells
    <3>3. CellAt(x, b) = img[b + 1]
      BY <3>2
    <3> QED BY <2>2, <3>1, <3>3
  <2>3. CASE ~Covers(x, b)
    <3>1. <<b, img[b + 1]>> \notin BlockCells(x)
      BY <2>1, <2>3 DEF BlockCells
    <3>2. disk[b] = IF <<b, img[b + 1]>> \in W THEN img[b + 1] ELSE Old
      BY DEF DiskIs
    <3> QED BY <2>3, <3>1, <3>2
  <2> QED BY <2>2, <2>3
<1>3. new = [b \in 0 .. ImageBlocks - 1 |-> IF <<b, img[b + 1]>> \in W \cup BlockCells(x) THEN img[b + 1] ELSE Old]
  BY <1>2
<1>4. W \cup BlockCells(x) \subseteq ImageCells(img)
  BY DEF DiskIs
<1> QED BY <1>3, <1>4 DEF DiskIs

\* Writing a chunk to the disk keeps SparseInv.
LEMMA WriteChunkKeeps == SparseInv /\ WriteChunk => SparseInv'
<1> SUFFICES ASSUME SparseInv, WriteChunk PROVE SparseInv'
  OBVIOUS
<1>1. /\ sfPc = "write"
      /\ UNCHANGED <<sfSource, sfImage, sfTail, sfFile, sfLimit, sfList, sfUsed, sfTmp, sfCount, sfPieces, sfDone>>
  BY DEF WriteChunk
<1>2. /\ sfTmp = <<>> /\ Good(sfList) /\ Pieces(sfPieces)
      /\ Written(sfPieces, Len(sfPieces)) = ImageCells(sfImage)
      /\ sfFile > sfLimit => Fitting(sfPieces, sfLimit)
      /\ sfFile <= sfLimit => Len(sfPieces) = 1
      /\ sfDone \in 0 .. Len(sfPieces)
      /\ Len(sfImage) = ImageBlocks /\ sfImage \in Seq(Cell)
      /\ sfWire \in Seq(Chunk) /\ sfSeek \in Nat /\ Chain(sfWire, sfSeek)
  BY <1>1 DEF SparseInv, Shape, Sending, Writing
<1>3. PICK W : DiskIs(sfDisk, sfImage, W) /\ W \cup WireCells(sfWire) = Written(sfPieces, sfDone)
  BY <1>1 DEF SparseInv, Writing
<1>4. CASE sfWire = <<>>
  <2>1. sfPc' = "send" /\ sfDisk' = sfDisk
    BY <1>4 DEF WriteChunk
  <2>2. W = Written(sfPieces, sfDone)
    <3>1. WireCells(sfWire) = {}
      BY <1>4 DEF WireCells
    <3> QED BY <3>1, <1>3
  <2>3. Sending'
    BY <1>1, <1>2, <1>3, <2>1, <2>2 DEF Sending
  <2>4. Shape'
    BY <1>1, <2>1 DEF SparseInv, Shape
  <2>5. Importing' /\ Counting' /\ Cutting' /\ Writing' /\ Refused'
    BY <2>1 DEF Importing, Counting, Cutting, Writing, Refused
  <2> QED BY <2>3, <2>4, <2>5 DEF SparseInv
<1>5. CASE sfWire # <<>>
  <2>1. PICK x \in Chunk : x = Head(sfWire)
    BY <1>2, <1>5, ChainTail
  <2>2. PICK rest \in Seq(Chunk) : rest = Tail(sfWire)
    BY <1>2, <1>5, ChainTail
  <2>3. x.block = sfSeek /\ Chain(rest, EndOf(x)) /\ WireCells(sfWire) = ChunkCells(x) \cup WireCells(rest)
    BY <1>2, <1>5, <2>1, <2>2, ChainTail
  <2>4. [x EXCEPT !.block = sfSeek] = x
    BY <2>3 DEF Chunk
  <2>5. /\ sfDisk' = [b \in 0..(ImageBlocks - 1) |->
                         IF x.type # "skip" /\ Covers(x, b) THEN CellAt(x, b) ELSE sfDisk[b]]
        /\ sfSeek' = sfSeek + DivUp(x.len)
        /\ sfWire' = rest /\ sfPc' = "write"
    BY <1>1, <1>5, <2>1, <2>2, <2>4 DEF WriteChunk
  <2>6. sfSeek' = EndOf(x) /\ EndOf(x) \in Nat
    BY <2>3, <2>5, ChunkFacts DEF EndOf
  <2>7. DiskIs(sfDisk', sfImage, W \cup ChunkCells(x))
    <3>1. CASE x.type = "skip"
      <4>1. ChunkCells(x) = {}
        BY <3>1 DEF ChunkCells
      <4>2. sfDisk' = [b \in 0..(ImageBlocks - 1) |-> sfDisk[b]]
        BY <2>5, <3>1
      <4>3. sfDisk' = sfDisk
        BY <4>2, <1>3 DEF DiskIs
      <4>4. W \cup {} = W
        OBVIOUS
      <4> QED BY <4>1, <4>3, <4>4, <1>3
    <3>2. CASE x.type # "skip"
      <4>1. ChunkCells(x) = BlockCells(x)
        BY <3>2 DEF ChunkCells
      <4>2. BlockCells(x) \subseteq ImageCells(sfImage)
        <5>1. BlockCells(x) \subseteq Written(sfPieces, sfDone)
          BY <4>1, <2>3, <1>3
        <5>2. Written(sfPieces, sfDone) \subseteq Written(sfPieces, Len(sfPieces))
          <6>1. \A i \in 1 .. sfDone : i \in 1 .. Len(sfPieces)
            BY <1>2
          <6> QED BY <6>1 DEF Written
        <5> QED BY <5>1, <5>2, <1>2
      <4>3. PICK new : new = [b \in 0 .. ImageBlocks - 1 |-> IF Covers(x, b) THEN CellAt(x, b) ELSE sfDisk[b]]
        OBVIOUS
      <4>4. sfDisk' = new
        BY <2>5, <3>2, <4>3
      <4>5. DiskIs(new, sfImage, W \cup BlockCells(x))
        BY <1>2, <1>3, <3>2, <4>2, <4>3, DiskGrows
      <4> QED BY <4>1, <4>4, <4>5
    <3> QED BY <3>1, <3>2
  <2>8. (W \cup ChunkCells(x)) \cup WireCells(rest) = Written(sfPieces, sfDone)
    BY <1>3, <2>3
  <2>9. Writing'
    <3>1. \E V : DiskIs(sfDisk', sfImage, V) /\ V \cup WireCells(rest) = Written(sfPieces, sfDone)
      BY <2>7, <2>8
    <3>2. sfImage' = sfImage /\ sfPieces' = sfPieces /\ sfDone' = sfDone
      BY <1>1
    <3> QED BY <2>3, <2>5, <2>6, <3>1, <3>2 DEF Writing
  <2>10. Sending'
    BY <1>1, <1>2, <2>5 DEF Sending
  <2>11. Shape'
    BY <1>1, <2>5 DEF SparseInv, Shape
  <2>12. Importing' /\ Counting' /\ Cutting' /\ Refused'
    BY <2>5 DEF Importing, Counting, Cutting, Refused
  <2> QED BY <2>9, <2>10, <2>11, <2>12 DEF SparseInv
<1> QED BY <1>4, <1>5

\* The end of a flash keeps SparseInv.
LEMMA FlashedKeeps == SparseInv /\ Flashed => SparseInv'
<1> SUFFICES ASSUME SparseInv, Flashed PROVE SparseInv'
  OBVIOUS
<1>1. /\ sfPc = "send" /\ sfDone = Len(sfPieces) /\ sfPc' = "done"
      /\ UNCHANGED <<sfSource, sfImage, sfTail, sfFile, sfLimit, sfList, sfUsed, sfTmp, sfCount,
                     sfPieces, sfDone, sfWire, sfSeek, sfDisk>>
  BY DEF Flashed
<1>2. Shape'
  BY <1>1 DEF SparseInv, Shape
<1>3. Sending'
  BY <1>1 DEF SparseInv, Sending
<1>4. Importing' /\ Counting' /\ Cutting' /\ Writing' /\ Refused'
  BY <1>1 DEF Importing, Counting, Cutting, Writing, Refused
<1> QED BY <1>2, <1>3, <1>4 DEF SparseInv

\* Every step keeps SparseInv.
LEMMA StepKeeps == SparseInv /\ [SparseNext]_sfVars => SparseInv'
<1> SUFFICES ASSUME SparseInv, [SparseNext]_sfVars PROVE SparseInv'
  OBVIOUS
<1>1. CASE UNCHANGED sfVars
  <2>1. Shape' /\ Importing' /\ Counting' /\ Cutting'
    BY <1>1 DEF sfVars, SparseInv, Shape, Importing, Counting, Cutting
  <2>2. Sending' /\ Writing' /\ Refused'
    BY <1>1 DEF sfVars, SparseInv, Sending, Writing, Refused
  <2> QED BY <2>1, <2>2 DEF SparseInv
<1>2. CASE SparseNext
  BY <1>2, ReadBlockKeeps, ProcessChunkKeeps, AddExtentKeeps, LoadedKeeps, CountPieceKeeps,
     ResparsePieceKeeps, FlashPieceKeeps, WriteChunkKeeps, FlashedKeeps DEF SparseNext
<1> QED BY <1>1, <1>2

\* SparseInv is an invariant of SparseFile.
LEMMA SparseInductive == SparseSpec => []SparseInv
<1>1. SparseInit => SparseInv
  BY InitKeeps
<1>2. SparseInv /\ [SparseNext]_sfVars => SparseInv'
  BY StepKeeps
<1> QED BY <1>1, <1>2, PTL DEF SparseSpec

----------------------------------------------------------------------------
(* What it is worth.                                                       *)

\* A list in order, block against the next block.
LEMMA GoodIsInOrder ==
  ASSUME NEW l, Good(l)
  PROVE  \A i \in 1..(Len(l) - 1) : l[i].len > 0 /\ l[i].block + DivUp(l[i].len) <= l[i + 1].block
<1> SUFFICES ASSUME NEW i \in 1..(Len(l) - 1)
             PROVE  l[i].len > 0 /\ l[i].block + DivUp(l[i].len) <= l[i + 1].block
  OBVIOUS
<1>1. l \in Seq(Block)
  BY DEF Good
<1>2. i \in 1 .. Len(l) /\ i + 1 \in 1 .. Len(l) /\ i < i + 1
  BY <1>1
<1>3. EndOf(l[i]) <= l[i + 1].block
  BY <1>2 DEF Good
<1>4. l[i] \in Block
  BY <1>1, <1>2
<1>5. l[i].len > 0
  BY <1>4, BlockFacts
<1> QED BY <1>3, <1>5 DEF EndOf

\* SparseInv says that lists are in order.
LEMMA InOrder == SparseInv => ListsInOrder
<1> SUFFICES ASSUME SparseInv PROVE ListsInOrder
  OBVIOUS
<1>1. Good(sfList) /\ Good(sfTmp)
  <2>1. CASE sfPc = "import"
    BY <2>1, EmptyList DEF SparseInv, Importing
  <2>2. CASE sfPc = "count"
    <3>1. sfTmp \in Seq(Block) /\ sfList \in Seq(Block) /\ Good(sfTmp \o sfList)
      BY <2>2 DEF SparseInv, Counting
    <3> QED BY <3>1, GoodConcat
  <2>3. CASE sfPc = "resparse"
    BY <2>3, EmptyList DEF SparseInv, Cutting
  <2>4. CASE sfPc \in {"send", "write", "done", "failed"}
    BY <2>4, EmptyList DEF SparseInv, Sending
  <2> QED BY <2>1, <2>2, <2>3, <2>4 DEF SparseInv, Shape
<1>2. Pieces(sfPieces)
  <2>1. CASE sfPc = "import"
    BY <2>1, NoPieces DEF SparseInv, Importing
  <2>2. CASE sfPc = "count"
    BY <2>2, NoPieces DEF SparseInv, Counting
  <2>3. CASE sfPc = "resparse"
    BY <2>3 DEF SparseInv, Cutting
  <2>4. CASE sfPc \in {"send", "write", "done", "failed"}
    BY <2>4 DEF SparseInv, Sending
  <2> QED BY <2>1, <2>2, <2>3, <2>4 DEF SparseInv, Shape
<1>3. ASSUME NEW l \in {sfList, sfTmp} \cup {sfPieces[i] : i \in 1..Len(sfPieces)} PROVE Good(l)
  BY <1>1, <1>2 DEF Pieces
<1> QED BY <1>3, GoodIsInOrder DEF ListsInOrder

\* SparseInv says that pieces fit the limit.
LEMMA Fits == SparseInv => PiecesFit
<1> SUFFICES ASSUME SparseInv, sfPc = "send", sfFile > sfLimit, NEW i \in 1..Len(sfPieces)
             PROVE  sparse_file_len(sfPieces[i]) <= sfLimit
  BY DEF PiecesFit
<1>1. Pieces(sfPieces) /\ Fitting(sfPieces, sfLimit) /\ sfLimit \in Limits
  BY DEF SparseInv, Shape, Sending
<1>2. PICK l \in Seq(Block) : l = sfPieces[i]
  BY <1>1 DEF Pieces
<1>3. Bytes(l) \in Nat /\ Bytes(l) <= Budget(sfLimit) + 12
  BY <1>1, <1>2 DEF Fitting
<1> QED BY <1>1, <1>2, <1>3, LenOfFile

\* SparseInv says that the image arrives.
LEMMA Arrives == SparseInv => ImageArrives
<1> SUFFICES ASSUME SparseInv, sfPc = "done", NEW b \in 0..(ImageBlocks - 1)
             PROVE  sfDisk[b] = IF sfImage[b + 1] = Skip THEN Old ELSE sfImage[b + 1]
  BY DEF ImageArrives
<1>1. /\ DiskIs(sfDisk, sfImage, ImageCells(sfImage))
      /\ Len(sfImage) = ImageBlocks
  BY DEF SparseInv, Shape, Sending
<1>2. sfDisk[b] = IF <<b, sfImage[b + 1]>> \in ImageCells(sfImage) THEN sfImage[b + 1] ELSE Old
  BY <1>1 DEF DiskIs
<1>3. <<b, sfImage[b + 1]>> \in ImageCells(sfImage) <=> sfImage[b + 1] # Skip
  BY <1>1 DEF ImageCells
<1> QED BY <1>2, <1>3

(* For every image and every tail: the lists of backed blocks stay sorted  *)
(* and without overlaps through queue_bb, merge_bb, backed_block_split and *)
(* backed_block_list_move.                                                 *)
THEOREM ListsStayInOrder == SparseSpec => []ListsInOrder
<1>1. SparseInv => ListsInOrder
  BY InOrder
<1> QED BY <1>1, SparseInductive, PTL

(* For every limit that holds the overhead and eight blocks, no file that  *)
(* sparse_file_resparse cuts is larger than the limit it was cut for.      *)
THEOREM FilesFitTheLimit == SparseSpec => []PiecesFit
<1>1. SparseInv => PiecesFit
  BY Fits
<1> QED BY <1>1, SparseInductive, PTL

(* Whatever the device accepted to the end is the image: when the client   *)
(* is done, each block of the partition holds what the image has there,    *)
(* and the blocks it does not care for are untouched.                      *)
THEOREM ImageIsWritten == SparseSpec => []ImageArrives
<1>1. SparseInv => ImageArrives
  BY Arrives
<1> QED BY <1>1, SparseInductive, PTL

(* An image of whole blocks gets through: in order, in pieces that fit,    *)
(* every one of them accepted by the device's parser, and all of it        *)
(* written.  (With a shorter last block the device may refuse a piece,     *)
(* write_sparse_skip_chunk having dropped the padding.)                    *)
THEOREM WholeImageGetsThrough ==
  ASSUME TailLens \subseteq {BlockSize}
  PROVE  SparseSpec => []ImageGetsThrough
<1>1. SparseInv => ImageGetsThrough
  <2>1. SparseInv => PiecesAccepted
    BY DEF SparseInv, Refused, PiecesAccepted
  <2> QED BY <2>1, InOrder, Fits, Arrives DEF ImageGetsThrough
<1> QED BY <1>1, SparseInductive, PTL

\* The files the first pass counts are no more than the blocks of the image,
\* and the second pass never has one file more than the first one counted.
PassesAgree ==
  /\ sfPc = "count" => sfCount <= ImageBlocks
  /\ sfPc = "resparse" => Len(sfPieces) < sfCount

(* The two passes of resparse_file cut the same files, although the first  *)
(* one leaves its splits in the list: the array sized by the first pass is *)
(* never short, and the bound on the turns of the first is never met.      *)
THEOREM SecondPassFollowsFirst == SparseSpec => []PassesAgree
<1>1. SparseInv => PassesAgree
  <2> SUFFICES ASSUME SparseInv PROVE PassesAgree
    OBVIOUS
  <2>1. ASSUME sfPc = "count" PROVE sfCount <= ImageBlocks
    BY <2>1 DEF SparseInv, Counting, Counted
  <2>2. ASSUME sfPc = "resparse" PROVE Len(sfPieces) < sfCount
    <3>1. sfCount \in Nat /\ (sfCount - 1) - Len(sfPieces) \in Nat /\ Pieces(sfPieces)
      BY <2>2 DEF SparseInv, Cutting, TurnsLeft
    <3>2. Len(sfPieces) \in Nat
      BY <3>1 DEF Pieces
    <3> QED BY <3>1, <3>2
  <2> QED BY <2>1, <2>2 DEF PassesAgree
<1> QED BY <1>1, SparseInductive, PTL

----------------------------------------------------------------------------
(* HostPlan: the tasks of a flashall or an update.                         *)

\* FlattenSeq puts one list after the other.
LEMMA FlattenNext ==
  ASSUME NEW S, NEW s \in Seq(Seq(S)), s # <<>>
  PROVE  \E F : /\ FlattenSeq(s) = F[Len(s)] /\ F[1] = s[1]
                /\ \A i \in 1 .. Len(s) - 1 : F[i + 1] = F[i] \o s[i + 1]
<1>1. PICK F : /\ FlattenSeq(s) = F[Len(s)]
               /\ \A i \in 1 .. Len(s) : F[i] = IF i = 1 THEN s[i] ELSE F[i - 1] \o s[i]
  BY FlattenSteps
<1>2. F[1] = s[1]
  <2>1. 1 \in 1 .. Len(s)
    OBVIOUS
  <2> QED BY <1>1, <2>1
<1>3. ASSUME NEW i \in 1 .. Len(s) - 1 PROVE F[i + 1] = F[i] \o s[i + 1]
  <2>1. i + 1 \in 1 .. Len(s) /\ (i + 1) - 1 = i /\ i + 1 # 1
    OBVIOUS
  <2>2. F[i + 1] = IF i + 1 = 1 THEN s[i + 1] ELSE F[(i + 1) - 1] \o s[i + 1]
    BY <1>1, <2>1
  <2>3. F[i + 1] = F[(i + 1) - 1] \o s[i + 1]
    BY <2>1, <2>2, Zenon
  <2> QED BY <2>1, <2>3, Zenon
<1> QED BY <1>1, <1>2, <1>3

----------------------------------------------------------------------------
(* What a list of tasks still has to do, for a plan p and an active slot a *)
(* that no longer change once the list is made.                            *)
Second(p, a) == IF ~p.secondary THEN "" ELSE OtherSlot(IF p.slot \in {"", "all"} THEN a ELSE p.slot)
Flashes(t) == t.op \in {"image", "flash"}
BootTask(p, t) == Flashes(t) /\ t.part = "boot" /\ t.slot = p.slot /\ t.img = "boot.img"
SystemTask(p, t) == Flashes(t) /\ t.part = "system" /\ t.slot = p.slot /\ t.img = "system.img"
OtherTask(p, a, t) == Flashes(t) /\ t.part = "system" /\ t.slot = Second(p, a) /\ t.img = "system_other.img"
SuperTask(p, t) == t.op = "super" /\ p.slot # "all"
Known(p, a, t) ==
  \/ BootTask(p, t) \/ SystemTask(p, t) \/ OtherTask(p, a, t) \/ SuperTask(p, t)
  \/ t.op = "resize" /\ t.part = "system"
  \/ t.op \in {"update-super", "reboot", "wipe"}

(* Tasks that need userspace fastboot, and tasks that bring the device     *)
(* there; the reboot that takes it away.                                   *)
Needs(p, t) == Flashes(t) /\ t.part = "system" /\ p.superEmpty
Lifts(p, t) == \/ t.op = "update-super" /\ p.superEmpty
               \/ t.op = "reboot" /\ t.part = "fastboot"
Away(t) == t.op = "reboot" /\ t.part # "fastboot"

(* Tasks that leave the active slot's system partition right, and tasks    *)
(* that undo it.                                                           *)
Writes(p, t) == SystemTask(p, t) \/ SuperTask(p, t)
Spoils(p, a, t) == t.op = "resize" \/ (OtherTask(p, a, t) /\ Second(p, a) = "")

AllKnown(p, a, s) == \A i \in DOMAIN s : Known(p, a, s[i])
OnlyWipes(s) == \A i \in DOMAIN s : s[i].op = "wipe"
Spoilless(p, a, s) == \A i \in DOMAIN s : ~Spoils(p, a, s[i])
HasBoot(p, s) == \E i \in DOMAIN s : BootTask(p, s[i])
HasLift(p, s) == \E i \in DOMAIN s : Lifts(p, s[i])
Needless(p, s) == \A i \in DOMAIN s : ~Needs(p, s[i])
Stays(s) == \A i \in DOMAIN s : ~Away(s[i])
(* Every task that needs userspace fastboot comes after one that lifts.    *)
Lifted(p, s) == \A i \in DOMAIN s : Needs(p, s[i]) => \E j \in DOMAIN s : j < i /\ Lifts(p, s[j])
(* Only wipes follow the reboot.                                           *)
Orderly(s) == \A i, j \in DOMAIN s : i < j /\ Away(s[i]) => s[j].op = "wipe"
(* Some task writes the system partition and none after it undoes that.    *)
SystemLast(p, a, s) ==
  \E i \in DOMAIN s : Writes(p, s[i]) /\ \A j \in DOMAIN s : i < j => ~Spoils(p, a, s[j])

\* Concatenation, by the places of its parts.
LEMMA Joined ==
  ASSUME NEW S, NEW l \in Seq(S), NEW m \in Seq(S), NEW n, n = l \o m
  PROVE  /\ n \in Seq(S)
         /\ DOMAIN n = 1 .. (Len(l) + Len(m)) /\ DOMAIN l = 1 .. Len(l) /\ DOMAIN m = 1 .. Len(m)
         /\ Len(l) \in Nat /\ Len(m) \in Nat
         /\ \A i \in DOMAIN l : i \in DOMAIN n /\ n[i] = l[i]
         /\ \A i \in DOMAIN m : i + Len(l) \in DOMAIN n /\ n[i + Len(l)] = m[i]
         /\ \A i \in DOMAIN n : i \in DOMAIN l \/ (i - Len(l) \in DOMAIN m /\ n[i] = m[i - Len(l)])
<1>1. n \in Seq(S) /\ Len(n) = Len(l) + Len(m)
  OBVIOUS
<1>2. Len(l) \in Nat /\ Len(m) \in Nat /\ DOMAIN l = 1 .. Len(l) /\ DOMAIN m = 1 .. Len(m) /\ DOMAIN n = 1 .. Len(n)
  BY <1>1
<1>3. \A i \in 1 .. Len(l) : n[i] = l[i]
  OBVIOUS
<1>4. \A i \in 1 .. Len(m) : n[i + Len(l)] = m[i]
  OBVIOUS
<1>5. ASSUME NEW i \in 1 .. (Len(l) + Len(m)), i \notin 1 .. Len(l)
      PROVE  i - Len(l) \in 1 .. Len(m) /\ n[i] = m[i - Len(l)]
  <2>1. i - Len(l) \in 1 .. Len(m) /\ (i - Len(l)) + Len(l) = i
    BY <1>2, <1>5
  <2> QED BY <2>1, <1>4, Zenon
<1> QED BY <1>1, <1>2, <1>3, <1>4, <1>5

\* What is true of every task, or of some, of a joined list.
LEMMA JoinedPlain ==
  ASSUME NEW p, NEW a, NEW S, NEW l \in Seq(S), NEW m \in Seq(S), NEW n, n = l \o m
  PROVE  /\ AllKnown(p, a, n) <=> AllKnown(p, a, l) /\ AllKnown(p, a, m)
         /\ OnlyWipes(n) <=> OnlyWipes(l) /\ OnlyWipes(m)
         /\ Spoilless(p, a, n) <=> Spoilless(p, a, l) /\ Spoilless(p, a, m)
         /\ Needless(p, n) <=> Needless(p, l) /\ Needless(p, m)
         /\ Stays(n) <=> Stays(l) /\ Stays(m)
         /\ HasBoot(p, n) <=> HasBoot(p, l) \/ HasBoot(p, m)
         /\ HasLift(p, n) <=> HasLift(p, l) \/ HasLift(p, m)
<1>1. /\ \A i \in DOMAIN l : i \in DOMAIN n /\ n[i] = l[i]
      /\ \A i \in DOMAIN m : i + Len(l) \in DOMAIN n /\ n[i + Len(l)] = m[i]
      /\ \A i \in DOMAIN n : i \in DOMAIN l \/ (i - Len(l) \in DOMAIN m /\ n[i] = m[i - Len(l)])
  BY Joined
<1>2. AllKnown(p, a, n) <=> AllKnown(p, a, l) /\ AllKnown(p, a, m)
  BY <1>1, Zenon DEF AllKnown
<1>3. OnlyWipes(n) <=> OnlyWipes(l) /\ OnlyWipes(m)
  <2>1. ASSUME OnlyWipes(n) PROVE OnlyWipes(l) /\ OnlyWipes(m)
    <3>1. \A i \in DOMAIN n : n[i].op = "wipe"
      BY <2>1 DEF OnlyWipes
    <3>2. ASSUME NEW i \in DOMAIN m PROVE m[i].op = "wipe"
      <4>1. i + Len(l) \in DOMAIN n /\ n[i + Len(l)] = m[i]
        BY <1>1
      <4>2. n[i + Len(l)].op = "wipe"
        BY <4>1, <3>1, Zenon
      <4> QED BY <4>1, <4>2
    <3>3. ASSUME NEW i \in DOMAIN l PROVE l[i].op = "wipe"
      BY <1>1, <3>1
    <3> QED BY <3>2, <3>3 DEF OnlyWipes
  <2>2. ASSUME OnlyWipes(l), OnlyWipes(m) PROVE OnlyWipes(n)
    BY <1>1, <2>2 DEF OnlyWipes
  <2> QED BY <2>1, <2>2
<1>4. Spoilless(p, a, n) <=> Spoilless(p, a, l) /\ Spoilless(p, a, m)
  BY <1>1, Zenon DEF Spoilless
<1>5. Needless(p, n) <=> Needless(p, l) /\ Needless(p, m)
  BY <1>1, Zenon DEF Needless
<1>6. Stays(n) <=> Stays(l) /\ Stays(m)
  BY <1>1, Zenon DEF Stays
<1>7. HasBoot(p, n) <=> HasBoot(p, l) \/ HasBoot(p, m)
  BY <1>1, Zenon DEF HasBoot
<1>8. HasLift(p, n) <=> HasLift(p, l) \/ HasLift(p, m)
  BY <1>1, Zenon DEF HasLift
<1> QED BY <1>2, <1>3, <1>4, <1>5, <1>6, <1>7, <1>8, Zenon

\* A joined list has its reboot to userspace in time.
LEMMA JoinedLifted ==
  ASSUME NEW p, NEW S, NEW l \in Seq(S), NEW m \in Seq(S), NEW n, n = l \o m
  PROVE  Lifted(p, n) <=> Lifted(p, l) /\ (HasLift(p, l) \/ Lifted(p, m))
<1>1. /\ DOMAIN n = 1 .. (Len(l) + Len(m)) /\ DOMAIN l = 1 .. Len(l) /\ DOMAIN m = 1 .. Len(m)
      /\ Len(l) \in Nat /\ Len(m) \in Nat
      /\ \A i \in DOMAIN l : i \in DOMAIN n /\ n[i] = l[i]
      /\ \A i \in DOMAIN m : i + Len(l) \in DOMAIN n /\ n[i + Len(l)] = m[i]
      /\ \A i \in DOMAIN n : i \in DOMAIN l \/ (i - Len(l) \in DOMAIN m /\ n[i] = m[i - Len(l)])
  BY Joined
<1>2. ASSUME Lifted(p, n) PROVE Lifted(p, l)
  BY <1>1, <1>2 DEF Lifted
<1>3. ASSUME Lifted(p, n), ~HasLift(p, l) PROVE Lifted(p, m)
  <2>1. SUFFICES ASSUME NEW i \in DOMAIN m, Needs(p, m[i]) PROVE \E j \in DOMAIN m : j < i /\ Lifts(p, m[j])
    BY DEF Lifted
  <2>2. PICK j \in DOMAIN n : j < i + Len(l) /\ Lifts(p, n[j])
    BY <1>1, <1>3, <2>1, Zenon DEF Lifted
  <2>3. j \notin DOMAIN l
    BY <2>2, <1>1, <1>3, Zenon DEF HasLift
  <2>4. j - Len(l) \in DOMAIN m /\ Lifts(p, m[j - Len(l)])
    BY <1>1, <2>2, <2>3
  <2>5. j - Len(l) < i
    BY <1>1, <2>2
  <2> QED BY <2>4, <2>5
<1>4. ASSUME Lifted(p, l), HasLift(p, l) \/ Lifted(p, m) PROVE Lifted(p, n)
  <2>1. SUFFICES ASSUME NEW i \in DOMAIN n, Needs(p, n[i]) PROVE \E j \in DOMAIN n : j < i /\ Lifts(p, n[j])
    BY DEF Lifted
  <2>2. CASE i \in DOMAIN l
    <3>1. PICK j \in DOMAIN l : j < i /\ Lifts(p, l[j])
      BY <1>1, <1>4, <2>1, <2>2, Zenon DEF Lifted
    <3> QED BY <3>1, <1>1
  <2>3. CASE i \notin DOMAIN l /\ HasLift(p, l)
    <3>1. PICK j \in DOMAIN l : Lifts(p, l[j])
      BY <2>3 DEF HasLift
    <3>2. j < i
      BY <1>1, <2>3
    <3> QED BY <3>1, <3>2, <1>1
  <2>4. CASE i \notin DOMAIN l /\ Lifted(p, m)
    <3>1. i - Len(l) \in DOMAIN m /\ Needs(p, m[i - Len(l)])
      BY <1>1, <2>1, <2>4
    <3>2. PICK j \in DOMAIN m : j < i - Len(l) /\ Lifts(p, m[j])
      BY <3>1, <2>4, Zenon DEF Lifted
    <3>3. j + Len(l) \in DOMAIN n /\ Lifts(p, n[j + Len(l)])
      BY <1>1, <3>2
    <3>4. j + Len(l) < i
      BY <1>1, <3>2
    <3> QED BY <3>3, <3>4
  <2> QED BY <2>2, <2>3, <2>4, <1>4
<1> QED BY <1>2, <1>3, <1>4

\* In a joined list, only wipes follow a reboot away.
LEMMA JoinedOrderly ==
  ASSUME NEW S, NEW l \in Seq(S), NEW m \in Seq(S), NEW n, n = l \o m
  PROVE  Orderly(n) <=> Orderly(l) /\ Orderly(m) /\ (Stays(l) \/ OnlyWipes(m))
<1>1. /\ DOMAIN n = 1 .. (Len(l) + Len(m)) /\ DOMAIN l = 1 .. Len(l) /\ DOMAIN m = 1 .. Len(m)
      /\ Len(l) \in Nat /\ Len(m) \in Nat
      /\ \A i \in DOMAIN l : i \in DOMAIN n /\ n[i] = l[i]
      /\ \A i \in DOMAIN m : i + Len(l) \in DOMAIN n /\ n[i + Len(l)] = m[i]
      /\ \A i \in DOMAIN n : i \in DOMAIN l \/ (i - Len(l) \in DOMAIN m /\ n[i] = m[i - Len(l)])
  BY Joined
<1>2. ASSUME Orderly(n) PROVE Orderly(l)
  BY <1>1, <1>2 DEF Orderly
<1>3. ASSUME Orderly(n) PROVE Orderly(m)
  <2>1. SUFFICES ASSUME NEW i \in DOMAIN m, NEW j \in DOMAIN m, i < j, Away(m[i]) PROVE m[j].op = "wipe"
    BY DEF Orderly
  <2>2. i + Len(l) \in DOMAIN n /\ j + Len(l) \in DOMAIN n /\ n[i + Len(l)] = m[i] /\ n[j + Len(l)] = m[j]
    BY <1>1
  <2>3. i + Len(l) < j + Len(l)
    BY <1>1, <2>1
  <2> QED BY <2>1, <2>2, <2>3, <1>3, Zenon DEF Orderly
<1>4. ASSUME Orderly(n), ~Stays(l) PROVE OnlyWipes(m)
  <2>1. PICK i \in DOMAIN l : Away(l[i])
    BY <1>4 DEF Stays
  <2>2. SUFFICES ASSUME NEW j \in DOMAIN m PROVE m[j].op = "wipe"
    BY DEF OnlyWipes
  <2>3. i \in DOMAIN n /\ j + Len(l) \in DOMAIN n /\ n[i] = l[i] /\ n[j + Len(l)] = m[j]
    BY <1>1
  <2>4. i < j + Len(l)
    BY <1>1
  <2> QED BY <2>1, <2>3, <2>4, <1>4, Zenon DEF Orderly
<1>5. ASSUME Orderly(l), Orderly(m), Stays(l) \/ OnlyWipes(m) PROVE Orderly(n)
  <2>1. SUFFICES ASSUME NEW i \in DOMAIN n, NEW j \in DOMAIN n, i < j, Away(n[i]) PROVE n[j].op = "wipe"
    BY DEF Orderly
  <2>2. CASE j \in DOMAIN l
    <3>1. i \in DOMAIN l
      BY <1>1, <2>1, <2>2
    <3> QED BY <3>1, <2>1, <2>2, <1>1, <1>5, Zenon DEF Orderly
  <2>3. CASE i \in DOMAIN l /\ j \notin DOMAIN l
    <3>1. ~Stays(l)
      BY <2>1, <2>3, <1>1, Zenon DEF Stays
    <3> QED BY <3>1, <1>1, <1>5, <2>3, Zenon DEF OnlyWipes
  <2>4. CASE i \notin DOMAIN l /\ j \notin DOMAIN l
    <3>1. i - Len(l) \in DOMAIN m /\ j - Len(l) \in DOMAIN m /\ n[i] = m[i - Len(l)] /\ n[j] = m[j - Len(l)]
      BY <1>1, <2>4
    <3>2. i - Len(l) < j - Len(l)
      BY <1>1, <2>1
    <3> QED BY <3>1, <3>2, <2>1, <1>5, Zenon DEF Orderly
  <2> QED BY <2>2, <2>3, <2>4
<1> QED BY <1>2, <1>3, <1>4, <1>5

\* The last task on the system partition of a joined list.
LEMMA JoinedSystem ==
  ASSUME NEW p, NEW a, NEW S, NEW l \in Seq(S), NEW m \in Seq(S), NEW n, n = l \o m
  PROVE  SystemLast(p, a, n) <=> SystemLast(p, a, m) \/ (SystemLast(p, a, l) /\ Spoilless(p, a, m))
<1>1. /\ DOMAIN n = 1 .. (Len(l) + Len(m)) /\ DOMAIN l = 1 .. Len(l) /\ DOMAIN m = 1 .. Len(m)
      /\ Len(l) \in Nat /\ Len(m) \in Nat
      /\ \A i \in DOMAIN l : i \in DOMAIN n /\ n[i] = l[i]
      /\ \A i \in DOMAIN m : i + Len(l) \in DOMAIN n /\ n[i + Len(l)] = m[i]
      /\ \A i \in DOMAIN n : i \in DOMAIN l \/ (i - Len(l) \in DOMAIN m /\ n[i] = m[i - Len(l)])
  BY Joined
<1>2. ASSUME SystemLast(p, a, m) PROVE SystemLast(p, a, n)
  <2>1. PICK i \in DOMAIN m : Writes(p, m[i]) /\ \A j \in DOMAIN m : i < j => ~Spoils(p, a, m[j])
    BY <1>2 DEF SystemLast
  <2>2. i + Len(l) \in DOMAIN n /\ Writes(p, n[i + Len(l)])
    BY <1>1, <2>1
  <2>3. ASSUME NEW j \in DOMAIN n, i + Len(l) < j PROVE ~Spoils(p, a, n[j])
    <3>1. j \notin DOMAIN l
      BY <1>1, <2>3
    <3>2. j - Len(l) \in DOMAIN m /\ n[j] = m[j - Len(l)]
      BY <1>1, <3>1
    <3>3. i < j - Len(l)
      BY <1>1, <2>3
    <3> QED BY <3>2, <3>3, <2>1, Zenon
  <2> QED BY <2>2, <2>3, Zenon DEF SystemLast
<1>3. ASSUME SystemLast(p, a, l), Spoilless(p, a, m) PROVE SystemLast(p, a, n)
  <2>1. PICK i \in DOMAIN l : Writes(p, l[i]) /\ \A j \in DOMAIN l : i < j => ~Spoils(p, a, l[j])
    BY <1>3 DEF SystemLast
  <2>2. i \in DOMAIN n /\ Writes(p, n[i])
    BY <1>1, <2>1
  <2>3. ASSUME NEW j \in DOMAIN n, i < j PROVE ~Spoils(p, a, n[j])
    BY <1>1, <1>3, <2>1, <2>3, Zenon DEF Spoilless
  <2> QED BY <2>2, <2>3, Zenon DEF SystemLast
<1>4. ASSUME SystemLast(p, a, n) PROVE SystemLast(p, a, m) \/ (SystemLast(p, a, l) /\ Spoilless(p, a, m))
  <2>1. PICK i \in DOMAIN n : Writes(p, n[i]) /\ \A j \in DOMAIN n : i < j => ~Spoils(p, a, n[j])
    BY <1>4 DEF SystemLast
  <2>2. CASE i \in DOMAIN l
    <3>1. ASSUME NEW j \in DOMAIN l, i < j PROVE ~Spoils(p, a, l[j])
      BY <3>1, <2>1, <1>1, Zenon
    <3>2. SystemLast(p, a, l)
      BY <3>1, <2>1, <2>2, <1>1, Zenon DEF SystemLast
    <3>3. ASSUME NEW j \in DOMAIN m PROVE ~Spoils(p, a, m[j])
      <4>1. j + Len(l) \in DOMAIN n /\ n[j + Len(l)] = m[j]
        BY <1>1
      <4>2. i < j + Len(l)
        BY <1>1, <2>2
      <4> QED BY <4>1, <4>2, <2>1, Zenon
    <3> QED BY <3>2, <3>3, Zenon DEF Spoilless
  <2>3. CASE i \notin DOMAIN l
    <3>1. i - Len(l) \in DOMAIN m /\ n[i] = m[i - Len(l)]
      BY <1>1, <2>3
    <3>2. ASSUME NEW j \in DOMAIN m, i - Len(l) < j PROVE ~Spoils(p, a, m[j])
      <4>1. j + Len(l) \in DOMAIN n /\ n[j + Len(l)] = m[j]
        BY <1>1
      <4>2. i < j + Len(l)
        BY <1>1, <2>3, <3>2
      <4> QED BY <4>1, <4>2, <2>1, Zenon
    <3> QED BY <3>1, <3>2, <2>1, Zenon DEF SystemLast
  <2> QED BY <2>2, <2>3
<1> QED BY <1>2, <1>3, <1>4, Zenon

(* The lists with one task and with none.                                  *)
LEMMA SingleTask ==
  ASSUME NEW p, NEW a, NEW t, NEW s, s = <<t>>
  PROVE  /\ AllKnown(p, a, s) <=> Known(p, a, t)
         /\ OnlyWipes(s) <=> t.op = "wipe"
         /\ Spoilless(p, a, s) <=> ~Spoils(p, a, t)
         /\ Needless(p, s) <=> ~Needs(p, t)
         /\ Stays(s) <=> ~Away(t)
         /\ HasBoot(p, s) <=> BootTask(p, t)
         /\ HasLift(p, s) <=> Lifts(p, t)
         /\ Lifted(p, s) <=> ~Needs(p, t)
         /\ Orderly(s)
         /\ SystemLast(p, a, s) <=> Writes(p, t)
<1>1. DOMAIN s = {1} /\ s[1] = t
  OBVIOUS
<1>2. ~(1 < 1)
  OBVIOUS
<1>3. \A i \in DOMAIN s : i = 1
  BY <1>1
<1>4. 1 \in DOMAIN s
  BY <1>1
<1>5. /\ AllKnown(p, a, s) <=> Known(p, a, t)
      /\ OnlyWipes(s) <=> t.op = "wipe"
      /\ Spoilless(p, a, s) <=> ~Spoils(p, a, t)
      /\ Needless(p, s) <=> ~Needs(p, t)
      /\ Stays(s) <=> ~Away(t)
  BY <1>1, <1>3, <1>4, Zenon DEF AllKnown, OnlyWipes, Spoilless, Needless, Stays
<1>6. /\ HasBoot(p, s) <=> BootTask(p, t)
      /\ HasLift(p, s) <=> Lifts(p, t)
  BY <1>1, <1>3, <1>4, Zenon DEF HasBoot, HasLift
<1>7. Lifted(p, s) <=> ~Needs(p, t)
  BY <1>1, <1>2, <1>3, <1>4, Zenon DEF Lifted
<1>8. Orderly(s)
  BY <1>1, <1>2, <1>3, Zenon DEF Orderly
<1>9. SystemLast(p, a, s) <=> Writes(p, t)
  BY <1>1, <1>2, <1>3, <1>4, Zenon DEF SystemLast
<1> QED BY <1>5, <1>6, <1>7, <1>8, <1>9, Zenon

\* What holds of no tasks.
LEMMA NoTask ==
  ASSUME NEW p, NEW a, NEW s, s = <<>>
  PROVE  /\ AllKnown(p, a, s) /\ OnlyWipes(s) /\ Spoilless(p, a, s) /\ Needless(p, s) /\ Stays(s)
         /\ ~HasBoot(p, s) /\ ~HasLift(p, s) /\ Lifted(p, s) /\ Orderly(s) /\ ~SystemLast(p, a, s)
<1>1. DOMAIN s = {}
  OBVIOUS
<1> QED BY <1>1, Zenon DEF AllKnown, OnlyWipes, Spoilless, Needless, Stays, HasBoot, HasLift, Lifted, Orderly, SystemLast

(* Lists in which nothing needs lifting, or nothing is undone.             *)
LEMMA PlainLists ==
  ASSUME NEW p, NEW a, NEW S, NEW s \in Seq(S)
  PROVE  /\ Needless(p, s) => Lifted(p, s)
         /\ Stays(s) => Orderly(s)
         /\ Spoilless(p, a, s) /\ (\E i \in DOMAIN s : Writes(p, s[i])) => SystemLast(p, a, s)
BY Zenon DEF Needless, Lifted, Stays, Orderly, Spoilless, SystemLast

(* What the first task of a list says about the rest.                      *)
LEMMA FirstAndRest ==
  ASSUME NEW p, NEW a, NEW S, NEW s \in Seq(S), s # <<>>, NEW t, t = Head(s), NEW r, r = Tail(s)
  PROVE  /\ r \in Seq(S)
         /\ AllKnown(p, a, s) <=> Known(p, a, t) /\ AllKnown(p, a, r)
         /\ OnlyWipes(s) <=> t.op = "wipe" /\ OnlyWipes(r)
         /\ Spoilless(p, a, s) <=> ~Spoils(p, a, t) /\ Spoilless(p, a, r)
         /\ HasBoot(p, s) <=> BootTask(p, t) \/ HasBoot(p, r)
         /\ Lifted(p, s) <=> ~Needs(p, t) /\ (Lifts(p, t) \/ Lifted(p, r))
         /\ Orderly(s) <=> Orderly(r) /\ (~Away(t) \/ OnlyWipes(r))
         /\ SystemLast(p, a, s) <=> SystemLast(p, a, r) \/ (Writes(p, t) /\ Spoilless(p, a, r))
<1>1. t \in S /\ r \in Seq(S) /\ s = <<t>> \o r
  OBVIOUS
<1>2. PICK l \in Seq(S) : l = <<t>>
  <2>1. <<t>> \in Seq(S)
    BY <1>1
  <2> QED BY <2>1, Zenon
<1>3. s = l \o r
  BY <1>1, <1>2, Zenon
<1>4. /\ AllKnown(p, a, l) <=> Known(p, a, t)
      /\ OnlyWipes(l) <=> t.op = "wipe"
      /\ Spoilless(p, a, l) <=> ~Spoils(p, a, t)
      /\ Stays(l) <=> ~Away(t)
      /\ HasBoot(p, l) <=> BootTask(p, t)
      /\ HasLift(p, l) <=> Lifts(p, t)
      /\ Lifted(p, l) <=> ~Needs(p, t)
      /\ Orderly(l)
      /\ SystemLast(p, a, l) <=> Writes(p, t)
  BY <1>2, SingleTask, Zenon
<1>5. /\ AllKnown(p, a, s) <=> AllKnown(p, a, l) /\ AllKnown(p, a, r)
      /\ OnlyWipes(s) <=> OnlyWipes(l) /\ OnlyWipes(r)
      /\ Spoilless(p, a, s) <=> Spoilless(p, a, l) /\ Spoilless(p, a, r)
      /\ HasBoot(p, s) <=> HasBoot(p, l) \/ HasBoot(p, r)
  BY <1>1, <1>3, JoinedPlain, ZenonT(60)
<1>6. Lifted(p, s) <=> Lifted(p, l) /\ (HasLift(p, l) \/ Lifted(p, r))
  BY <1>1, <1>3, JoinedLifted, Zenon
<1>7. Orderly(s) <=> Orderly(l) /\ Orderly(r) /\ (Stays(l) \/ OnlyWipes(r))
  BY <1>1, <1>3, JoinedOrderly, Zenon
<1>8. SystemLast(p, a, s) <=> SystemLast(p, a, r) \/ (SystemLast(p, a, l) /\ Spoilless(p, a, r))
  BY <1>1, <1>3, JoinedSystem, Zenon
<1> QED BY <1>1, <1>4, <1>5, <1>6, <1>7, <1>8, ZenonT(60)

----------------------------------------------------------------------------
(* The inductive invariant of HostPlan.                                    *)
Plans == [cmd : {"flashall", "update"}, slot : {"", "a", "b", "all"}, wipe : BOOLEAN,
          reboot : BOOLEAN, secondary : BOOLEAN, info : {"none", "list", "list-other"},
          ab : BOOLEAN, superEmpty : BOOLEAN, optimise : BOOLEAN]
TaskOps == {"image", "flash", "resize", "super", "update-super", "reboot", "wipe"}
TaskParts == {"boot", "system", "userdata", "super", "fastboot", ""}
TaskSlots == {"", "a", "b", "all"}
TaskImages == {"boot.img", "system.img", "system_other.img", ""}
HostTasks == [op : TaskOps, part : TaskParts, slot : TaskSlots, img : TaskImages]
Contents == {"old", "boot.img", "system.img", "system_other.img", "empty", "wiped"}
Excepted(p, a) == p.info = "list-other" /\ Second(p, a) = ""

HostTyped(p, s, pc, m, a, h, z) ==
  /\ p \in Plans /\ s \in Seq(HostTasks) /\ a \in SlotsOf(p)
  /\ pc \in {"start", "check", "slot", "collect", "run", "finished", "died"}
  /\ m \in {"bootloader", "userspace", "gone"}
  /\ h \in [Parts(p) -> Contents] /\ z \in [Parts(p) -> Nat]

(* Nothing has happened to the device before the list is made.             *)
Untouched(p, m, h, z, c) ==
  m # "gone" /\ c = -1 /\ h = [q \in Parts(p) |-> "old"] /\ z = [q \in Parts(p) |-> 1]

(* The slots the client works with agree with the device's.                *)
SlotChecked(p) == p.slot # "" => p.ab
SlotActive(p, a) == p.slot \in Slots => a = p.slot

SystemRight(p, a, h, z) ==
  h[<<"system", a>>] = "system.img" /\ (p.superEmpty => z[<<"system", a>>] = 3)

(* What is left of the list makes up for what is not yet done.             *)
ModeServes(p, s, m) == (m = "userspace" \/ Lifted(p, s)) /\ (m = "gone" => OnlyWipes(s))
LimitServes(m, c) == m # "gone" => c \in {-1, Limit(m)}
BootServed(p, s, a, h) == HasBoot(p, s) \/ h[<<"boot", a>>] = "boot.img"
SystemServed(p, s, a, h, z) ==
  Excepted(p, a) \/ SystemLast(p, a, s) \/ (Spoilless(p, a, s) /\ SystemRight(p, a, h, z))
BootWhole(p, a, h, z) ==
  /\ \A x \in SlotsOf(p) : z[<<"boot", x>>] = 1
  /\ p.ab /\ p.slot # "all" => h[<<"boot", OtherSlot(a)>>] = "old"
Carried(p, s, m, a, h, z, c) ==
  /\ AllKnown(p, a, s) /\ Orderly(s)
  /\ ModeServes(p, s, m) /\ LimitServes(m, c)
  /\ BootServed(p, s, a, h) /\ SystemServed(p, s, a, h, z) /\ BootWhole(p, a, h, z)

HostHolds(p, s, pc, m, a, h, z, c) ==
  /\ HostTyped(p, s, pc, m, a, h, z)
  /\ pc \in {"start", "check", "slot", "collect"} => Untouched(p, m, h, z, c)
  /\ pc \in {"check", "slot", "collect", "run", "finished"} => SlotChecked(p)
  /\ pc \in {"collect", "run", "finished"} => SlotActive(p, a)
  /\ pc \in {"run", "finished"} => Carried(p, s, m, a, h, z, c)
  /\ pc = "finished" => s = <<>>
HostInv == HostHolds(hpPlan, hpTodo, hpPc, hpMode, hpActive, hpHolds, hpSize, hpCached)

(* Slots and partitions.                                                   *)
LEMMA SlotFacts ==
  ASSUME NEW p \in Plans, NEW a \in SlotsOf(p)
  PROVE  /\ a \in {"", "a", "b"}
         /\ p.ab <=> a # ""
         /\ OtherSlot(a) \in SlotsOf(p)
         /\ p.ab => OtherSlot(a) # a
         /\ <<"boot", a>> \in Parts(p) /\ <<"system", a>> \in Parts(p)
         /\ <<"boot", OtherSlot(a)>> \in Parts(p) /\ <<"userdata", "">> \in Parts(p)
         /\ \A x \in SlotsOf(p) : <<"boot", x>> \in Parts(p)
<1>1. p.ab \in BOOLEAN
  BY DEF Plans
<1>2. a \in {"", "a", "b"} /\ (p.ab <=> a # "") /\ OtherSlot(a) \in SlotsOf(p) /\ (p.ab => OtherSlot(a) # a)
  <2>1. CASE p.ab
    BY <2>1 DEF SlotsOf, Slots, OtherSlot
  <2>2. CASE ~p.ab
    BY <2>2 DEF SlotsOf, Slots, OtherSlot
  <2> QED BY <2>1, <2>2
<1>3. \A x \in SlotsOf(p) : <<"boot", x>> \in Parts(p) /\ <<"system", x>> \in Parts(p)
  BY DEF Parts
<1>4. <<"userdata", "">> \in Parts(p)
  BY DEF Parts
<1> QED BY <1>2, <1>3, <1>4, Zenon

(* The other slot, as the client names it.                                 *)
LEMMA SecondFacts ==
  ASSUME NEW p \in Plans, NEW a \in SlotsOf(p), SlotActive(p, a), SlotChecked(p)
  PROVE  /\ Second(p, a) \in {"", OtherSlot(a)}
         /\ Second(p, a) # "" => p.ab /\ Second(p, a) # a
         /\ Second(p, a) \in {"", "a", "b"}
<1>1. p.slot \in {"", "a", "b", "all"} /\ p.secondary \in BOOLEAN /\ p.ab \in BOOLEAN
  BY DEF Plans
<1>2. CASE ~p.secondary
  BY <1>2 DEF Second
<1>3. CASE p.secondary
  <2>1. Second(p, a) = OtherSlot(a)
    BY <1>1, <1>3 DEF Second, SlotActive, Slots
  <2>2. CASE p.ab
    BY <2>1, <2>2 DEF SlotsOf, Slots, OtherSlot
  <2>3. CASE ~p.ab
    BY <2>1, <2>3 DEF SlotsOf, Slots, OtherSlot
  <2> QED BY <2>2, <2>3
<1> QED BY <1>2, <1>3

\* HostInv holds before the plan is made.
LEMMA HostStarts == HostInit => HostInv
<1> SUFFICES ASSUME HostInit PROVE HostInv
  OBVIOUS
<1>1. hpPlan \in Plans /\ hpTodo = <<>> /\ hpPc = "start" /\ hpCached = -1
  BY Zenon DEF HostInit, Plans
<1>2. /\ hpMode \in {"bootloader", "userspace"} /\ hpActive \in SlotsOf(hpPlan)
      /\ hpHolds = [q \in Parts(hpPlan) |-> "old"] /\ hpSize = [q \in Parts(hpPlan) |-> 1]
  BY DEF HostInit
<1>3. hpHolds \in [Parts(hpPlan) -> Contents] /\ hpSize \in [Parts(hpPlan) -> Nat] /\ hpMode # "gone"
  <2>1. [q \in Parts(hpPlan) |-> "old"] \in [Parts(hpPlan) -> Contents]
    BY DEF Contents
  <2>2. [q \in Parts(hpPlan) |-> 1] \in [Parts(hpPlan) -> Nat]
    OBVIOUS
  <2>3. hpMode # "gone"
    BY <1>2
  <2> QED BY <2>1, <2>2, <2>3, <1>2, Zenon
<1>4. HostTyped(hpPlan, hpTodo, hpPc, hpMode, hpActive, hpHolds, hpSize)
  <2>1. hpTodo \in Seq(HostTasks) /\ hpPc \in {"start", "check", "slot", "collect", "run", "finished", "died"}
    BY <1>1
  <2>2. hpMode \in {"bootloader", "userspace", "gone"}
    BY <1>2
  <2> QED BY <2>1, <2>2, <1>1, <1>2, <1>3, Zenon DEF HostTyped
<1>5. Untouched(hpPlan, hpMode, hpHolds, hpSize, hpCached)
  BY <1>1, <1>2, <1>3, Zenon DEF Untouched
<1> QED BY <1>1, <1>4, <1>5 DEF HostInv, HostHolds

(* What the invariant says of the first task and of the rest.              *)
LEMMA FirstTask ==
  ASSUME NEW p, NEW s, NEW m, NEW a, NEW h, NEW z, NEW c, HostHolds(p, s, "run", m, a, h, z, c),
         s # <<>>, NEW t, t = Head(s), NEW r, r = Tail(s)
  PROVE  /\ p \in Plans /\ a \in SlotsOf(p) /\ m \in {"bootloader", "userspace", "gone"}
         /\ h \in [Parts(p) -> Contents] /\ z \in [Parts(p) -> Nat]
         /\ SlotChecked(p) /\ SlotActive(p, a) /\ LimitServes(m, c) /\ BootWhole(p, a, h, z)
         /\ r \in Seq(HostTasks) /\ t \in HostTasks
         /\ Known(p, a, t) /\ AllKnown(p, a, r) /\ Orderly(r)
         /\ m = "gone" => t.op = "wipe" /\ OnlyWipes(r)
         /\ Away(t) => OnlyWipes(r)
         /\ m = "userspace" \/ (~Needs(p, t) /\ (Lifts(p, t) \/ Lifted(p, r)))
         /\ HasBoot(p, r) \/ BootTask(p, t) \/ h[<<"boot", a>>] = "boot.img"
         /\ \/ Excepted(p, a) \/ SystemLast(p, a, r)
            \/ /\ Spoilless(p, a, r)
               /\ Writes(p, t) \/ (~Spoils(p, a, t) /\ SystemRight(p, a, h, z))
<1>1. HostTyped(p, s, "run", m, a, h, z) /\ SlotChecked(p) /\ SlotActive(p, a) /\ Carried(p, s, m, a, h, z, c)
  BY DEF HostHolds
<1>2. /\ p \in Plans /\ a \in SlotsOf(p) /\ m \in {"bootloader", "userspace", "gone"}
      /\ h \in [Parts(p) -> Contents] /\ z \in [Parts(p) -> Nat] /\ s \in Seq(HostTasks)
  BY <1>1, Zenon DEF HostTyped
<1>3. /\ AllKnown(p, a, s) /\ Orderly(s) /\ ModeServes(p, s, m) /\ LimitServes(m, c)
      /\ BootServed(p, s, a, h) /\ SystemServed(p, s, a, h, z) /\ BootWhole(p, a, h, z)
  BY <1>1, Zenon DEF Carried
<1>4. t \in HostTasks
  BY <1>2
<1>5. /\ r \in Seq(HostTasks)
      /\ AllKnown(p, a, s) <=> Known(p, a, t) /\ AllKnown(p, a, r)
      /\ OnlyWipes(s) <=> t.op = "wipe" /\ OnlyWipes(r)
      /\ Spoilless(p, a, s) <=> ~Spoils(p, a, t) /\ Spoilless(p, a, r)
      /\ HasBoot(p, s) <=> BootTask(p, t) \/ HasBoot(p, r)
      /\ Lifted(p, s) <=> ~Needs(p, t) /\ (Lifts(p, t) \/ Lifted(p, r))
      /\ Orderly(s) <=> Orderly(r) /\ (~Away(t) \/ OnlyWipes(r))
      /\ SystemLast(p, a, s) <=> SystemLast(p, a, r) \/ (Writes(p, t) /\ Spoilless(p, a, r))
  BY <1>2, FirstAndRest, Zenon
<1>6. /\ Known(p, a, t) /\ AllKnown(p, a, r) /\ Orderly(r)
      /\ Away(t) => OnlyWipes(r)
  BY <1>3, <1>5, Zenon
<1>7. /\ m = "gone" => t.op = "wipe" /\ OnlyWipes(r)
      /\ m = "userspace" \/ (~Needs(p, t) /\ (Lifts(p, t) \/ Lifted(p, r)))
  BY <1>3, <1>5 DEF ModeServes
<1>8. HasBoot(p, r) \/ BootTask(p, t) \/ h[<<"boot", a>>] = "boot.img"
  BY <1>3, <1>5 DEF BootServed
<1>9. \/ Excepted(p, a) \/ SystemLast(p, a, r)
      \/ /\ Spoilless(p, a, r)
         /\ Writes(p, t) \/ (~Spoils(p, a, t) /\ SystemRight(p, a, h, z))
  BY <1>3, <1>5, Zenon DEF SystemServed
<1> QED BY <1>1, <1>2, <1>3, <1>4, <1>5, <1>6, <1>7, <1>8, <1>9, Zenon

(* What running the first task has to do for the invariant to hold again.  *)
Advances(p, a, t, h, z, h2, z2) ==
  /\ h2 \in [Parts(p) -> Contents] /\ z2 \in [Parts(p) -> Nat]
  /\ BootTask(p, t) \/ h[<<"boot", a>>] = "boot.img" => h2[<<"boot", a>>] = "boot.img"
  /\ ~Excepted(p, a) /\ (Writes(p, t) \/ (~Spoils(p, a, t) /\ SystemRight(p, a, h, z)))
        => SystemRight(p, a, h2, z2)
  /\ BootWhole(p, a, h2, z2)

\* A task that is done and does what it should leaves a list that makes up for the rest.
LEMMA TaskDone ==
  ASSUME NEW p, NEW s, NEW m, NEW a, NEW h, NEW z, NEW c, HostHolds(p, s, "run", m, a, h, z, c),
         s # <<>>, NEW t, t = Head(s), NEW r, r = Tail(s),
         NEW m2 \in {"bootloader", "userspace", "gone"}, NEW h2, NEW z2, NEW c2,
         ModeServes(p, r, m2), LimitServes(m2, c2), Advances(p, a, t, h, z, h2, z2)
  PROVE  HostHolds(p, r, "run", m2, a, h2, z2, c2)
<1>1. /\ p \in Plans /\ a \in SlotsOf(p) /\ SlotChecked(p) /\ SlotActive(p, a)
      /\ r \in Seq(HostTasks) /\ AllKnown(p, a, r) /\ Orderly(r)
      /\ HasBoot(p, r) \/ BootTask(p, t) \/ h[<<"boot", a>>] = "boot.img"
      /\ \/ Excepted(p, a) \/ SystemLast(p, a, r)
         \/ /\ Spoilless(p, a, r)
            /\ Writes(p, t) \/ (~Spoils(p, a, t) /\ SystemRight(p, a, h, z))
  BY FirstTask, Zenon
<1>2. HostTyped(p, r, "run", m2, a, h2, z2)
  <2>1. "run" \in {"start", "check", "slot", "collect", "run", "finished", "died"}
    OBVIOUS
  <2> QED BY <2>1, <1>1, Zenon DEF HostTyped, Advances
<1>3. BootServed(p, r, a, h2)
  BY <1>1 DEF BootServed, Advances
<1>4. SystemServed(p, r, a, h2, z2)
  BY <1>1, Zenon DEF SystemServed, Advances
<1>5. BootWhole(p, a, h2, z2)
  BY Zenon DEF Advances
<1>6. Carried(p, r, m2, a, h2, z2, c2)
  BY <1>1, <1>3, <1>4, <1>5, Zenon DEF Carried
<1> QED BY <1>1, <1>2, <1>6 DEF HostHolds

(* The partitions a task is about.                                         *)
LEMMA TargetFacts ==
  ASSUME hpPlan \in Plans, hpActive \in SlotsOf(hpPlan), SlotChecked(hpPlan), SlotActive(hpPlan, hpActive), NEW t
  PROVE  /\ BootTask(hpPlan, t) => <<"boot", hpActive>> \in Targets(t)
         /\ BootTask(hpPlan, t) /\ hpPlan.ab /\ hpPlan.slot # "all" => <<"boot", OtherSlot(hpActive)>> \notin Targets(t)
         /\ SystemTask(hpPlan, t) => <<"system", hpActive>> \in Targets(t)
         /\ OtherTask(hpPlan, hpActive, t) /\ Second(hpPlan, hpActive) # "" => <<"system", hpActive>> \notin Targets(t)
         /\ t.part = "system" => \A x : <<"boot", x>> \notin Targets(t)
         /\ t.part = "boot" => \A x : <<"system", x>> \notin Targets(t)
<1>1. hpPlan.slot \in {"", "a", "b", "all"} /\ hpPlan.ab \in BOOLEAN
  BY DEF Plans
<1>2. \A q \in Targets(t) : q[1] = t.part
  <2>1. CASE ~hpPlan.ab
    <3>1. ASSUME NEW q \in Targets(t) PROVE q[1] = t.part
      <4>1. q = <<t.part, "">>
        BY <2>1, <3>1, Zenon DEF Targets
      <4> QED BY <4>1
    <3> QED BY <3>1
  <2>2. CASE hpPlan.ab
    <3>1. PICK X : Targets(t) = {<<t.part, x>> : x \in X}
      BY <2>2, Zenon DEF Targets
    <3>2. ASSUME NEW q \in Targets(t) PROVE q[1] = t.part
      <4>1. PICK x \in X : q = <<t.part, x>>
        BY <3>1, <3>2, Zenon
      <4> QED BY <4>1
    <3> QED BY <3>2
  <2> QED BY <2>1, <2>2
<1>3. (t.part = "system" => \A x : <<"boot", x>> \notin Targets(t)) /\ (t.part = "boot" => \A x : <<"system", x>> \notin Targets(t))
  BY <1>2
<1>4. hpPlan.ab => hpActive \in Slots /\ OtherSlot(hpActive) # hpActive /\ hpActive # "" /\ OtherSlot(hpActive) # ""
  BY DEF SlotsOf, Slots, OtherSlot
<1>5. ~hpPlan.ab => hpActive = "" /\ hpPlan.slot = ""
  BY DEF SlotsOf, SlotChecked
<1>6. t.slot = hpPlan.slot => <<t.part, hpActive>> \in Targets(t)
  <2>1. CASE ~hpPlan.ab
    BY <2>1, <1>5 DEF Targets
  <2>2. CASE hpPlan.ab
    BY <2>2, <1>1, <1>4 DEF Targets, SlotActive, Slots
  <2> QED BY <2>1, <2>2
<1>7. t.slot = hpPlan.slot /\ hpPlan.ab /\ hpPlan.slot # "all" => <<t.part, OtherSlot(hpActive)>> \notin Targets(t)
  <2> SUFFICES ASSUME t.slot = hpPlan.slot, hpPlan.ab, hpPlan.slot # "all", <<t.part, OtherSlot(hpActive)>> \in Targets(t)
               PROVE  FALSE
    OBVIOUS
  <2>1. hpPlan.slot \in {"", hpActive}
    BY <1>1 DEF SlotActive, Slots
  <2>2. Targets(t) = {<<t.part, hpActive>>}
    BY <2>1, <1>4 DEF Targets, Slots
  <2> QED BY <2>2, <1>4
<1>8. t.slot = Second(hpPlan, hpActive) /\ Second(hpPlan, hpActive) # "" => <<t.part, hpActive>> \notin Targets(t)
  <2> SUFFICES ASSUME t.slot = Second(hpPlan, hpActive), Second(hpPlan, hpActive) # "", <<t.part, hpActive>> \in Targets(t)
               PROVE  FALSE
    OBVIOUS
  <2>1. hpPlan.ab /\ Second(hpPlan, hpActive) # hpActive /\ Second(hpPlan, hpActive) \in {"", "a", "b"}
    BY SecondFacts
  <2>2. Targets(t) = {<<t.part, t.slot>>}
    BY <2>1 DEF Targets
  <2> QED BY <2>1, <2>2
<1> QED BY <1>3, <1>6, <1>7, <1>8 DEF BootTask, SystemTask, OtherTask

(* The limit asked for, or remembered, is that of the mode at hand.        *)
LEMMA LesserFits ==
  ASSUME NEW n \in Nat, NEW l \in Nat, NEW d, d = IF n > l THEN l ELSE n
  PROVE  ~(d > l)
OBVIOUS

\* The download limit the client remembers is the one of the mode it is in.
LEMMA LimitFacts ==
  ASSUME hpMode \in {"bootloader", "userspace"}, LimitServes(hpMode, hpCached), NEW t \in HostTasks, Flashes(t), t.img # ""
  PROVE  /\ CachedLimit = Limit(hpMode) /\ ~(DownloadSize(t.img) > Limit(hpMode))
         /\ ImageSize(t.img) \in Nat
<1>1. CachedLimit = Limit(hpMode)
  BY DEF LimitServes, CachedLimit
<1>2. Limit(hpMode) \in Nat
  BY HostPlanAssumption DEF Limit
<1>3. t.img \in {"boot.img", "system.img", "system_other.img"}
  BY DEF HostTasks, TaskImages
<1>4. ImageSize(t.img) \in Nat
  BY <1>3 DEF ImageSize
<1>5. PICK n \in Nat, l \in Nat : n = ImageSize(t.img) /\ l = Limit(hpMode)
  BY <1>2, <1>4, Zenon
<1>6. DownloadSize(t.img) = IF n > l THEN l ELSE n
  BY <1>1, <1>5, Zenon DEF DownloadSize
<1>7. ~(DownloadSize(t.img) > l)
  BY <1>5, <1>6, LesserFits, Zenon
<1> QED BY <1>1, <1>4, <1>5, <1>7, Zenon

\* Flashing a partition keeps HostInv.
LEMMA FlashPartitionKeeps ==
  ASSUME HostInv, FlashPartition
  PROVE  HostInv'
<1>1. PICK p, s, m, a, h, z, c : /\ p = hpPlan /\ s = hpTodo /\ m = hpMode /\ a = hpActive
                                 /\ h = hpHolds /\ z = hpSize /\ c = hpCached
  OBVIOUS
<1>2. PICK t, r : t = Head(s) /\ r = Tail(s)
  OBVIOUS
<1>3. hpPc = "run" /\ s # <<>> /\ t.op \in {"flash", "image"}
  BY <1>1, <1>2 DEF FlashPartition, Running
<1>4. HostHolds(p, s, "run", m, a, h, z, c)
  BY <1>1, <1>3, Zenon DEF HostInv
<1>5. /\ p \in Plans /\ a \in SlotsOf(p) /\ m \in {"bootloader", "userspace", "gone"}
      /\ h \in [Parts(p) -> Contents] /\ z \in [Parts(p) -> Nat]
      /\ SlotChecked(p) /\ SlotActive(p, a) /\ LimitServes(m, c) /\ BootWhole(p, a, h, z)
      /\ t \in HostTasks
      /\ Known(p, a, t)
      /\ m = "gone" => t.op = "wipe"
      /\ m = "userspace" \/ (~Needs(p, t) /\ (Lifts(p, t) \/ Lifted(p, r)))
  BY <1>2, <1>3, <1>4, FirstTask, ZenonT(60)
<1>6. BootTask(p, t) \/ SystemTask(p, t) \/ OtherTask(p, a, t)
  BY <1>3, <1>5 DEF Known, SuperTask
<1>7. Flashes(t) /\ t.img \in {"boot.img", "system.img", "system_other.img"} /\ ~Lifts(p, t) /\ t.part \in {"boot", "system"}
  BY <1>3, <1>6 DEF Flashes, BootTask, SystemTask, OtherTask, Lifts
<1>8. m \in {"bootloader", "userspace"}
  BY <1>3, <1>5
<1>9. CachedLimit = Limit(m) /\ ~(DownloadSize(t.img) > Limit(m)) /\ ImageSize(t.img) \in Nat
  BY <1>1, <1>5, <1>7, <1>8, LimitFacts
<1>10. ~(Dynamic(t.part) /\ m # "userspace")
  BY <1>1, <1>5, <1>7 DEF Dynamic, Needs
<1>11. /\ hpTodo' = r /\ hpPc' = "run" /\ hpPlan' = p /\ hpMode' = m /\ hpActive' = a
       /\ hpHolds' = [q \in Parts(p) |-> IF q \in Targets(t) THEN t.img ELSE h[q]]
       /\ hpSize' = [q \in Parts(p) |-> IF q \in Targets(t) /\ Dynamic(t.part) THEN ImageSize(t.img) ELSE z[q]]
       /\ hpCached' = Limit(m)
  <2>1. /\ hpCached' = CachedLimit /\ hpPlan' = p /\ hpMode' = m /\ hpActive' = a
        /\ Next_ /\ hpPc' = hpPc
        /\ hpHolds' = [q \in Parts(p) |-> IF q \in Targets(t) THEN t.img ELSE h[q]]
        /\ hpSize' = [q \in Parts(p) |-> IF q \in Targets(t) /\ Dynamic(t.part) THEN ImageSize(t.img) ELSE z[q]]
    BY <1>1, <1>2, <1>9, <1>10, Zenon DEF FlashPartition
  <2> QED BY <2>1, <1>1, <1>2, <1>3, <1>9, Zenon DEF Next_
<1>12. PICK h2, z2 : h2 = hpHolds' /\ z2 = hpSize'
  OBVIOUS
<1>13. PICK T, D, n : T = Targets(t) /\ D = (p.superEmpty /\ t.part = "system") /\ n = ImageSize(t.img)
  OBVIOUS
<1>14. /\ h2 = [q \in Parts(p) |-> IF q \in T THEN t.img ELSE h[q]]
       /\ z2 = [q \in Parts(p) |-> IF q \in T /\ D THEN n ELSE z[q]]
  BY <1>1, <1>11, <1>12, <1>13, Zenon DEF Dynamic
<1>15. h2 \in [Parts(p) -> Contents] /\ z2 \in [Parts(p) -> Nat]
  <2>1. t.img \in Contents /\ n \in Nat
    BY <1>7, <1>9, <1>13 DEF Contents
  <2> QED BY <2>1, <1>5, <1>14
<1>16. /\ BootTask(p, t) => <<"boot", a>> \in T
       /\ BootTask(p, t) /\ p.ab /\ p.slot # "all" => <<"boot", OtherSlot(a)>> \notin T
       /\ SystemTask(p, t) => <<"system", a>> \in T
       /\ OtherTask(p, a, t) /\ Second(p, a) # "" => <<"system", a>> \notin T
       /\ t.part = "system" => \A x : <<"boot", x>> \notin T
       /\ t.part = "boot" => \A x : <<"system", x>> \notin T
  BY <1>1, <1>5, <1>13, TargetFacts
<1>17. /\ a \in {"", "a", "b"} /\ (p.ab <=> a # "")
       /\ <<"boot", a>> \in Parts(p) /\ <<"system", a>> \in Parts(p) /\ <<"boot", OtherSlot(a)>> \in Parts(p)
       /\ \A x \in SlotsOf(p) : <<"boot", x>> \in Parts(p)
  BY <1>5, SlotFacts, Zenon
<1>18. BootTask(p, t) \/ h[<<"boot", a>>] = "boot.img" => h2[<<"boot", a>>] = "boot.img"
  BY <1>6, <1>14, <1>16, <1>17 DEF BootTask, SystemTask, OtherTask
<1>19. BootWhole(p, a, h2, z2)
  <2>1. ASSUME NEW x \in SlotsOf(p) PROVE z2[<<"boot", x>>] = 1
    <3>1. z[<<"boot", x>>] = 1 /\ <<"boot", x>> \in Parts(p)
      BY <1>5, <1>17, Zenon DEF BootWhole
    <3>2. ~(<<"boot", x>> \in T /\ D)
      BY <1>13, <1>16
    <3> QED BY <3>1, <3>2, <1>14
  <2>2. ASSUME p.ab, p.slot # "all" PROVE h2[<<"boot", OtherSlot(a)>>] = "old"
    <3>1. h[<<"boot", OtherSlot(a)>>] = "old"
      BY <1>5, <2>2 DEF BootWhole
    <3>2. <<"boot", OtherSlot(a)>> \notin T
      BY <1>6, <1>16, <2>2 DEF SystemTask, OtherTask
    <3> QED BY <3>1, <3>2, <1>14, <1>17
  <2> QED BY <2>1, <2>2 DEF BootWhole
<1>20. ASSUME ~Excepted(p, a), Writes(p, t) \/ (~Spoils(p, a, t) /\ SystemRight(p, a, h, z))
       PROVE  SystemRight(p, a, h2, z2)
  <2>1. CASE SystemTask(p, t)
    <3>1. <<"system", a>> \in T /\ t.img = "system.img" /\ n = 3 /\ (D <=> p.superEmpty)
      BY <2>1, <1>13, <1>16 DEF SystemTask, ImageSize
    <3> QED BY <3>1, <1>14, <1>17 DEF SystemRight
  <2>2. CASE ~SystemTask(p, t)
    <3>1. ~Spoils(p, a, t) /\ SystemRight(p, a, h, z)
      BY <2>2, <1>20, <1>3 DEF Writes, SuperTask
    <3>2. <<"system", a>> \notin T
      BY <2>2, <3>1, <1>6, <1>16 DEF Spoils, BootTask
    <3>3. h2[<<"system", a>>] = h[<<"system", a>>] /\ z2[<<"system", a>>] = z[<<"system", a>>]
      BY <3>2, <1>14, <1>17
    <3> QED BY <3>1, <3>3 DEF SystemRight
  <2> QED BY <2>1, <2>2
<1>21. LimitServes(m, Limit(m))
  BY DEF LimitServes
<1>22. (m = "userspace" \/ Lifted(p, r)) /\ m # "gone"
  BY <1>5, <1>7, <1>8
<1>23. ModeServes(p, r, m)
  BY <1>22 DEF ModeServes
<1>24. Advances(p, a, t, h, z, h2, z2)
  BY <1>15, <1>18, <1>19, <1>20, Zenon DEF Advances
<1>25. HostHolds(p, r, "run", m, a, h2, z2, Limit(m))
  BY <1>2, <1>3, <1>4, <1>5, <1>21, <1>23, <1>24, TaskDone, Zenon
<1> QED BY <1>11, <1>12, <1>25, Zenon DEF HostInv

(* A task that does not change the device's mode.                          *)
LEMMA SameMode ==
  ASSUME NEW p, NEW s, NEW m, NEW a, NEW h, NEW z, NEW c, HostHolds(p, s, "run", m, a, h, z, c),
         s # <<>>, NEW t, t = Head(s), NEW r, r = Tail(s), ~Lifts(p, t)
  PROVE  ModeServes(p, r, m)
<1>1. /\ m = "gone" => t.op = "wipe" /\ OnlyWipes(r)
      /\ m = "userspace" \/ (~Needs(p, t) /\ (Lifts(p, t) \/ Lifted(p, r)))
  BY FirstTask, Zenon
<1> QED BY <1>1 DEF ModeServes

(* A task that leaves the partitions alone.                                *)
LEMMA SamePartitions ==
  ASSUME NEW p, NEW s, NEW m, NEW a, NEW h, NEW z, NEW c, HostHolds(p, s, "run", m, a, h, z, c),
         s # <<>>, NEW t, t = Head(s), t.op \in {"update-super", "reboot", "wipe"}
  PROVE  Advances(p, a, t, h, z, h, z) /\ ~BootTask(p, t) /\ ~Writes(p, t)
<1>1. h \in [Parts(p) -> Contents] /\ z \in [Parts(p) -> Nat] /\ BootWhole(p, a, h, z)
  BY FirstTask, Zenon
<1>2. ~BootTask(p, t) /\ ~Writes(p, t)
  BY DEF BootTask, Writes, SystemTask, SuperTask, Flashes
<1> QED BY <1>1, <1>2, Zenon DEF Advances

\* Resizing a dynamic partition keeps HostInv.
LEMMA ResizeKeeps ==
  ASSUME HostInv, Resize
  PROVE  HostInv'
<1>1. PICK p, s, m, a, h, z, c : /\ p = hpPlan /\ s = hpTodo /\ m = hpMode /\ a = hpActive
                                 /\ h = hpHolds /\ z = hpSize /\ c = hpCached
  OBVIOUS
<1>2. PICK t, r : t = Head(s) /\ r = Tail(s)
  OBVIOUS
<1>3. hpPc = "run" /\ s # <<>> /\ t.op = "resize"
  BY <1>1, <1>2 DEF Resize, Running
<1>4. HostHolds(p, s, "run", m, a, h, z, c)
  BY <1>1, <1>3, Zenon DEF HostInv
<1>5. /\ p \in Plans /\ a \in SlotsOf(p) /\ m \in {"bootloader", "userspace", "gone"}
      /\ h \in [Parts(p) -> Contents] /\ z \in [Parts(p) -> Nat]
      /\ SlotChecked(p) /\ SlotActive(p, a) /\ LimitServes(m, c) /\ BootWhole(p, a, h, z)
      /\ Known(p, a, t)
  BY <1>2, <1>3, <1>4, FirstTask, Zenon
<1>6. t.part = "system" /\ ~Lifts(p, t) /\ ~BootTask(p, t) /\ ~Writes(p, t) /\ Spoils(p, a, t)
  BY <1>3, <1>5 DEF Known, BootTask, SystemTask, OtherTask, SuperTask, Flashes, Lifts, Writes, Spoils
<1>7. PICK T, D, h2, z2 : /\ T = Targets(t) /\ D = (Dynamic(t.part) /\ hpMode = "userspace")
                          /\ h2 = hpHolds' /\ z2 = hpSize'
  OBVIOUS
<1>8. /\ hpTodo' = r /\ hpPc' = "run" /\ hpPlan' = p /\ hpMode' = m /\ hpActive' = a /\ hpCached' = c
      /\ z2 = [q \in Parts(p) |-> IF q \in T /\ D THEN 0 ELSE z[q]]
      /\ h2 = [q \in Parts(p) |-> IF z2[q] = 0 THEN "empty" ELSE h[q]]
  <2>1. /\ Next_ /\ hpPc' = hpPc /\ hpPlan' = p /\ hpMode' = m /\ hpActive' = a /\ hpCached' = c
        /\ z2 = [q \in Parts(p) |-> IF q \in T /\ Dynamic(t.part) /\ hpMode = "userspace" THEN 0 ELSE z[q]]
        /\ h2 = [q \in Parts(p) |-> IF z2[q] = 0 THEN "empty" ELSE h[q]]
    BY <1>1, <1>2, <1>7, Zenon DEF Resize
  <2> QED BY <2>1, <1>1, <1>2, <1>3, <1>7, Zenon DEF Next_
<1>9. z2 \in [Parts(p) -> Nat]
  BY <1>5, <1>8
<1>10. h2 \in [Parts(p) -> Contents]
  BY <1>5, <1>8 DEF Contents
<1>11. \A x : <<"boot", x>> \notin T
  BY <1>1, <1>5, <1>6, <1>7, TargetFacts
<1>12. ASSUME NEW x \in SlotsOf(p)
       PROVE  z2[<<"boot", x>>] = 1 /\ h2[<<"boot", x>>] = h[<<"boot", x>>]
  <2>1. <<"boot", x>> \in Parts(p) /\ z[<<"boot", x>>] = 1
    BY <1>5, SlotFacts, Zenon DEF BootWhole
  <2>2. z2[<<"boot", x>>] = 1
    BY <2>1, <1>8, <1>11
  <2> QED BY <2>1, <2>2, <1>8
<1>13. h2[<<"boot", a>>] = h[<<"boot", a>>] /\ h2[<<"boot", OtherSlot(a)>>] = h[<<"boot", OtherSlot(a)>>]
  BY <1>5, <1>12, SlotFacts, Zenon
<1>14. BootWhole(p, a, h2, z2)
  BY <1>5, <1>12, <1>13 DEF BootWhole
<1>15. Advances(p, a, t, h, z, h2, z2)
  BY <1>6, <1>9, <1>10, <1>13, <1>14 DEF Advances
<1>16. ModeServes(p, r, m)
  BY <1>2, <1>3, <1>4, <1>6, SameMode, Zenon
<1>17. HostHolds(p, r, "run", m, a, h2, z2, c)
  BY <1>2, <1>3, <1>4, <1>5, <1>15, <1>16, TaskDone, Zenon
<1> QED BY <1>7, <1>8, <1>17, Zenon DEF HostInv

\* Flashing the optimised super image keeps HostInv.
LEMMA FlashSuperKeeps ==
  ASSUME HostInv, FlashSuper
  PROVE  HostInv'
<1>1. PICK p, s, m, a, h, z, c : /\ p = hpPlan /\ s = hpTodo /\ m = hpMode /\ a = hpActive
                                 /\ h = hpHolds /\ z = hpSize /\ c = hpCached
  OBVIOUS
<1>2. PICK t, r : t = Head(s) /\ r = Tail(s)
  OBVIOUS
<1>3. hpPc = "run" /\ s # <<>> /\ t.op = "super"
  BY <1>1, <1>2 DEF FlashSuper, Running
<1>4. HostHolds(p, s, "run", m, a, h, z, c)
  BY <1>1, <1>3, Zenon DEF HostInv
<1>5. /\ p \in Plans /\ a \in SlotsOf(p) /\ m \in {"bootloader", "userspace", "gone"}
      /\ h \in [Parts(p) -> Contents] /\ z \in [Parts(p) -> Nat]
      /\ SlotChecked(p) /\ SlotActive(p, a) /\ LimitServes(m, c) /\ BootWhole(p, a, h, z)
      /\ Known(p, a, t)
      /\ m = "gone" => t.op = "wipe"
  BY <1>2, <1>3, <1>4, FirstTask, Zenon
<1>6. SuperTask(p, t) /\ ~Lifts(p, t) /\ ~BootTask(p, t)
  BY <1>3, <1>5 DEF Known, BootTask, SystemTask, OtherTask, SuperTask, Flashes, Lifts
<1>7. p.slot \in {"", "a", "b"} /\ a = IF p.slot = "" THEN a ELSE p.slot
  BY <1>5, <1>6 DEF SuperTask, SlotActive, Slots, Plans
<1>8. CachedLimit = Limit(m) /\ LimitServes(m, Limit(m))
  BY <1>1, <1>3, <1>5 DEF LimitServes, CachedLimit
<1> DEFINE img(x) == IF x = a THEN "system.img"
                     ELSE IF ~SkipSecondary /\ x = SecondarySlot THEN "system_other.img" ELSE "empty"
<1>9. PICK h2, z2 : h2 = hpHolds' /\ z2 = hpSize'
  OBVIOUS
<1>10. /\ hpTodo' = r /\ hpPc' = "run" /\ hpPlan' = p /\ hpMode' = m /\ hpActive' = a /\ hpCached' = Limit(m)
       /\ h2 = [q \in Parts(p) |-> IF q[1] = "system" THEN img(q[2]) ELSE h[q]]
       /\ z2 = [q \in Parts(p) |-> IF q[1] = "system" /\ img(q[2]) # "empty" THEN ImageSize(img(q[2]))
                                   ELSE IF q[1] = "system" THEN 0 ELSE z[q]]
  <2>1. Next_ /\ hpPc' = hpPc /\ hpPlan' = p /\ hpMode' = m /\ hpActive' = a /\ hpCached' = CachedLimit
    BY <1>1, Zenon DEF FlashSuper
  <2>2. hpActive = IF hpPlan.slot = "" THEN hpActive ELSE hpPlan.slot
    BY <1>1, <1>7, Zenon
  <2>3. /\ h2 = [q \in Parts(p) |-> IF q[1] = "system" THEN img(q[2]) ELSE h[q]]
        /\ z2 = [q \in Parts(p) |-> IF q[1] = "system" /\ img(q[2]) # "empty" THEN ImageSize(img(q[2]))
                                    ELSE IF q[1] = "system" THEN 0 ELSE z[q]]
    BY <1>1, <1>9, <2>2, Zenon DEF FlashSuper
  <2> QED BY <2>1, <2>3, <1>1, <1>2, <1>3, <1>8, Zenon DEF Next_
<1>11. img(a) = "system.img" /\ \A x : img(x) \in {"system.img", "system_other.img", "empty"}
  OBVIOUS
<1>12. \A x : img(x) # "empty" => ImageSize(img(x)) \in Nat
  BY <1>11 DEF ImageSize
<1>13. ImageSize("system.img") = 3
  BY DEF ImageSize
<1> HIDE DEF img
<1>14. h2 \in [Parts(p) -> Contents]
  <2>1. ASSUME NEW q \in Parts(p) PROVE (IF q[1] = "system" THEN img(q[2]) ELSE h[q]) \in Contents
    BY <1>5, <1>11 DEF Contents
  <2> QED BY <2>1, <1>10, Zenon
<1>15. z2 \in [Parts(p) -> Nat]
  <2>1. ASSUME NEW q \in Parts(p)
        PROVE  (IF q[1] = "system" /\ img(q[2]) # "empty" THEN ImageSize(img(q[2]))
                ELSE IF q[1] = "system" THEN 0 ELSE z[q]) \in Nat
    BY <1>5, <1>12
  <2> QED BY <2>1, <1>10, Zenon
<1>16. ASSUME NEW x \in SlotsOf(p)
       PROVE  z2[<<"boot", x>>] = 1 /\ h2[<<"boot", x>>] = h[<<"boot", x>>]
  <2>1. <<"boot", x>> \in Parts(p) /\ z[<<"boot", x>>] = 1
    BY <1>5, SlotFacts, Zenon DEF BootWhole
  <2>2. PICK q \in Parts(p) : q = <<"boot", x>>
    BY <2>1, Zenon
  <2>3. q[1] # "system"
    BY <2>2
  <2>4. h2[q] = h[q] /\ z2[q] = z[q]
    BY <2>3, <1>10, Zenon
  <2> QED BY <2>1, <2>2, <2>4, Zenon
<1>17. h2[<<"boot", a>>] = h[<<"boot", a>>] /\ h2[<<"boot", OtherSlot(a)>>] = h[<<"boot", OtherSlot(a)>>]
  BY <1>5, <1>16, SlotFacts, Zenon
<1>18. BootWhole(p, a, h2, z2)
  BY <1>5, <1>16, <1>17 DEF BootWhole
<1>19. SystemRight(p, a, h2, z2)
  <2>1. PICK q \in Parts(p) : q = <<"system", a>>
    BY <1>5, SlotFacts, Zenon
  <2>2. q[1] = "system" /\ q[2] = a
    BY <2>1
  <2>3. img(q[2]) = "system.img" /\ img(q[2]) # "empty"
    BY <2>2, <1>11
  <2>4. h2[q] = "system.img" /\ z2[q] = ImageSize("system.img")
    BY <2>2, <2>3, <1>10, Zenon
  <2> QED BY <2>1, <2>4, <1>13, Zenon DEF SystemRight
<1>20. Advances(p, a, t, h, z, h2, z2)
  BY <1>6, <1>14, <1>15, <1>17, <1>18, <1>19 DEF Advances
<1>21. ModeServes(p, r, m)
  BY <1>2, <1>3, <1>4, <1>6, SameMode, Zenon
<1>22. HostHolds(p, r, "run", m, a, h2, z2, Limit(m))
  BY <1>2, <1>3, <1>4, <1>5, <1>8, <1>20, <1>21, TaskDone, Zenon
<1> QED BY <1>9, <1>10, <1>22, Zenon DEF HostInv

(* Into userspace fastboot, with a limit that is not the bootloader's.     *)
LEMMA UserspaceServes ==
  ASSUME NEW p, NEW r, NEW m \in {"bootloader", "userspace", "gone"}, NEW c, LimitServes(m, c), NEW c2,
         c2 = IF m = "userspace" THEN c ELSE -1
  PROVE  ModeServes(p, r, "userspace") /\ LimitServes("userspace", c2)
<1>1. ModeServes(p, r, "userspace")
  BY DEF ModeServes
<1>2. LimitServes("userspace", c2)
  BY DEF LimitServes
<1> QED BY <1>1, <1>2

\* update-super keeps HostInv.
LEMMA UpdateSuperKeeps ==
  ASSUME HostInv, UpdateSuper
  PROVE  HostInv'
<1>1. PICK p, s, m, a, h, z, c : /\ p = hpPlan /\ s = hpTodo /\ m = hpMode /\ a = hpActive
                                 /\ h = hpHolds /\ z = hpSize /\ c = hpCached
  OBVIOUS
<1>2. PICK t, r : t = Head(s) /\ r = Tail(s)
  OBVIOUS
<1>3. hpPc = "run" /\ s # <<>> /\ t.op = "update-super"
  BY <1>1, <1>2 DEF UpdateSuper, Running
<1>4. HostHolds(p, s, "run", m, a, h, z, c)
  BY <1>1, <1>3, Zenon DEF HostInv
<1>5. m \in {"bootloader", "userspace", "gone"} /\ LimitServes(m, c)
  BY <1>2, <1>3, <1>4, FirstTask, Zenon
<1>6. Advances(p, a, t, h, z, h, z)
  <2>1. t.op \in {"update-super", "reboot", "wipe"}
    BY <1>3
  <2> QED BY <2>1, <1>2, <1>3, <1>4, SamePartitions, Zenon
<1>7. hpTodo' = r /\ hpPc' = "run" /\ hpPlan' = p /\ hpActive' = a /\ hpHolds' = h /\ hpSize' = z
  BY <1>1, <1>2, <1>3, Zenon DEF UpdateSuper, Next_
<1>8. CASE p.superEmpty
  <2>1. hpMode' = "userspace" /\ hpCached' = IF m = "userspace" THEN c ELSE -1
    BY <1>1, <1>8, Zenon DEF UpdateSuper, ToUserspace
  <2>2. PICK c2 : c2 = hpCached'
    OBVIOUS
  <2>3. ModeServes(p, r, "userspace") /\ LimitServes("userspace", c2)
    BY <2>1, <2>2, <1>5, UserspaceServes, Zenon
  <2>4. "userspace" \in {"bootloader", "userspace", "gone"}
    OBVIOUS
  <2>5. HostHolds(p, r, "run", "userspace", a, h, z, c2)
    BY <2>3, <2>4, <1>2, <1>3, <1>4, <1>6, TaskDone, Zenon
  <2> QED BY <2>1, <2>2, <2>5, <1>7, Zenon DEF HostInv
<1>9. CASE ~p.superEmpty
  <2>1. hpMode' = m /\ hpCached' = c
    BY <1>1, <1>9, Zenon DEF UpdateSuper
  <2>2. ~Lifts(p, t)
    BY <1>3, <1>9 DEF Lifts
  <2>3. ModeServes(p, r, m)
    BY <2>2, <1>2, <1>3, <1>4, SameMode, Zenon
  <2>4. HostHolds(p, r, "run", m, a, h, z, c)
    BY <2>3, <1>2, <1>3, <1>4, <1>5, <1>6, TaskDone, Zenon
  <2> QED BY <2>1, <2>4, <1>7, Zenon DEF HostInv
<1> QED BY <1>8, <1>9

\* A reboot keeps HostInv.
LEMMA RebootTaskKeeps ==
  ASSUME HostInv, RebootTask
  PROVE  HostInv'
<1>1. PICK p, s, m, a, h, z, c : /\ p = hpPlan /\ s = hpTodo /\ m = hpMode /\ a = hpActive
                                 /\ h = hpHolds /\ z = hpSize /\ c = hpCached
  OBVIOUS
<1>2. PICK t, r : t = Head(s) /\ r = Tail(s)
  OBVIOUS
<1>3. hpPc = "run" /\ s # <<>> /\ t.op = "reboot"
  BY <1>1, <1>2 DEF RebootTask, Running
<1>4. HostHolds(p, s, "run", m, a, h, z, c)
  BY <1>1, <1>3, Zenon DEF HostInv
<1>5. m \in {"bootloader", "userspace", "gone"} /\ LimitServes(m, c) /\ (Away(t) => OnlyWipes(r)) /\ r \in Seq(HostTasks)
  BY <1>2, <1>3, <1>4, FirstTask, Zenon
<1>6. Advances(p, a, t, h, z, h, z)
  <2>1. t.op \in {"update-super", "reboot", "wipe"}
    BY <1>3
  <2> QED BY <2>1, <1>2, <1>3, <1>4, SamePartitions, Zenon
<1>7. hpTodo' = r /\ hpPc' = "run" /\ hpPlan' = p /\ hpActive' = a /\ hpHolds' = h /\ hpSize' = z
  BY <1>1, <1>2, <1>3, Zenon DEF RebootTask, Next_
<1>8. CASE t.part = "fastboot"
  <2>1. hpMode' = "userspace" /\ hpCached' = IF m = "userspace" THEN c ELSE -1
    BY <1>1, <1>2, <1>8, Zenon DEF RebootTask, ToUserspace
  <2>2. PICK c2 : c2 = hpCached'
    OBVIOUS
  <2>3. ModeServes(p, r, "userspace") /\ LimitServes("userspace", c2)
    BY <2>1, <2>2, <1>5, UserspaceServes, Zenon
  <2>4. "userspace" \in {"bootloader", "userspace", "gone"}
    OBVIOUS
  <2>5. HostHolds(p, r, "run", "userspace", a, h, z, c2)
    BY <2>3, <2>4, <1>2, <1>3, <1>4, <1>6, TaskDone, Zenon
  <2> QED BY <2>1, <2>2, <2>5, <1>7, Zenon DEF HostInv
<1>9. CASE t.part # "fastboot"
  <2>1. hpMode' = "gone" /\ hpCached' = c
    BY <1>1, <1>2, <1>9, Zenon DEF RebootTask
  <2>2. OnlyWipes(r)
    BY <1>3, <1>5, <1>9 DEF Away
  <2>3. Lifted(p, r)
    BY <2>2 DEF OnlyWipes, Lifted, Needs, Flashes
  <2>4. ModeServes(p, r, "gone")
    BY <2>2, <2>3 DEF ModeServes
  <2>5. LimitServes("gone", c) /\ "gone" \in {"bootloader", "userspace", "gone"}
    BY DEF LimitServes
  <2>6. HostHolds(p, r, "run", "gone", a, h, z, c)
    BY <2>4, <2>5, <1>2, <1>3, <1>4, <1>6, TaskDone, Zenon
  <2> QED BY <2>1, <2>6, <1>7, Zenon DEF HostInv
<1> QED BY <1>8, <1>9

\* A wipe keeps HostInv.
LEMMA WipeKeeps ==
  ASSUME HostInv, Wipe
  PROVE  HostInv'
<1>1. PICK p, s, m, a, h, z, c : /\ p = hpPlan /\ s = hpTodo /\ m = hpMode /\ a = hpActive
                                 /\ h = hpHolds /\ z = hpSize /\ c = hpCached
  OBVIOUS
<1>2. PICK t, r : t = Head(s) /\ r = Tail(s)
  OBVIOUS
<1>3. hpPc = "run" /\ s # <<>> /\ t.op = "wipe"
  BY <1>1, <1>2 DEF Wipe, Running
<1>4. HostHolds(p, s, "run", m, a, h, z, c)
  BY <1>1, <1>3, Zenon DEF HostInv
<1>5. /\ p \in Plans /\ a \in SlotsOf(p) /\ m \in {"bootloader", "userspace", "gone"} /\ LimitServes(m, c)
      /\ h \in [Parts(p) -> Contents] /\ z \in [Parts(p) -> Nat] /\ BootWhole(p, a, h, z)
  BY <1>2, <1>3, <1>4, FirstTask, Zenon
<1>6. Advances(p, a, t, h, z, h, z) /\ ~BootTask(p, t) /\ ~Writes(p, t)
  <2>1. t.op \in {"update-super", "reboot", "wipe"}
    BY <1>3
  <2> QED BY <2>1, <1>2, <1>3, <1>4, SamePartitions, Zenon
<1>7. /\ hpTodo' = r /\ hpPc' = "run" /\ hpPlan' = p /\ hpActive' = a /\ hpSize' = z
      /\ hpMode' = m /\ hpCached' = c
  BY <1>1, <1>2, <1>3, Zenon DEF Wipe, Next_
<1>8. ~Lifts(p, t)
  BY <1>3 DEF Lifts
<1>9. ModeServes(p, r, m)
  BY <1>2, <1>3, <1>4, <1>8, SameMode, Zenon
<1>10. PICK h2 : h2 = hpHolds'
  OBVIOUS
<1>11. Advances(p, a, t, h, z, h2, z)
  <2>1. CASE m = "gone"
    BY <2>1, <1>1, <1>6, <1>10, Zenon DEF Wipe
  <2>2. CASE m # "gone"
    <3>1. h2 = [h EXCEPT ![<<"userdata", "">>] = "wiped"]
      BY <2>2, <1>1, <1>10, Zenon DEF Wipe
    <3>2. h2 \in [Parts(p) -> Contents]
      BY <3>1, <1>5 DEF Contents
    <3>3. \A q \in Parts(p) : q # <<"userdata", "">> => h2[q] = h[q]
      BY <3>1, <1>5
    <3>4. /\ <<"boot", a>> # <<"userdata", "">> /\ <<"system", a>> # <<"userdata", "">>
          /\ <<"boot", OtherSlot(a)>> # <<"userdata", "">>
      OBVIOUS
    <3>5. /\ <<"boot", a>> \in Parts(p) /\ <<"system", a>> \in Parts(p) /\ <<"boot", OtherSlot(a)>> \in Parts(p)
      BY <1>5, SlotFacts, Zenon
    <3>6. /\ h2[<<"boot", a>>] = h[<<"boot", a>>] /\ h2[<<"system", a>>] = h[<<"system", a>>]
          /\ h2[<<"boot", OtherSlot(a)>>] = h[<<"boot", OtherSlot(a)>>]
      BY <3>3, <3>4, <3>5, Zenon
    <3>7. BootWhole(p, a, h2, z)
      BY <3>6, <1>5 DEF BootWhole
    <3>8. SystemRight(p, a, h, z) => SystemRight(p, a, h2, z)
      BY <3>6 DEF SystemRight
    <3> QED BY <3>2, <3>6, <3>7, <3>8, <1>5, <1>6 DEF Advances
  <2> QED BY <2>1, <2>2
<1>12. HostHolds(p, r, "run", m, a, h2, z, c)
  BY <1>2, <1>3, <1>4, <1>5, <1>9, <1>11, TaskDone, Zenon
<1> QED BY <1>7, <1>10, <1>12, Zenon DEF HostInv

\* Giving up keeps HostInv.
LEMMA DieKeeps ==
  ASSUME HostInv, Die
  PROVE  HostInv'
<1>1. hpPc' = "died"
  BY DEF Die
<1>2. HostTyped(hpPlan, hpTodo, hpPc, hpMode, hpActive, hpHolds, hpSize)
  BY Zenon DEF HostInv, HostHolds
<1>3. "died" \in {"start", "check", "slot", "collect", "run", "finished", "died"}
  OBVIOUS
<1>4. HostTyped(hpPlan, hpTodo, "died", hpMode, hpActive, hpHolds, hpSize)
  BY <1>2, <1>3, Zenon DEF HostTyped
<1>5. HostHolds(hpPlan, hpTodo, "died", hpMode, hpActive, hpHolds, hpSize, hpCached)
  BY <1>4 DEF HostHolds
<1> QED BY <1>1, <1>5, Zenon DEF HostInv, Die

\* The end of the task list keeps HostInv.
LEMMA HostFinishedKeeps ==
  ASSUME HostInv, HostFinished
  PROVE  HostInv'
<1>1. hpPc = "run" /\ hpTodo = <<>> /\ hpPc' = "finished"
  BY DEF HostFinished
<1>2. /\ HostTyped(hpPlan, hpTodo, hpPc, hpMode, hpActive, hpHolds, hpSize)
      /\ SlotChecked(hpPlan) /\ SlotActive(hpPlan, hpActive)
      /\ Carried(hpPlan, hpTodo, hpMode, hpActive, hpHolds, hpSize, hpCached)
  BY <1>1 DEF HostInv, HostHolds
<1>3. "finished" \in {"start", "check", "slot", "collect", "run", "finished", "died"}
  OBVIOUS
<1>4. HostTyped(hpPlan, hpTodo, "finished", hpMode, hpActive, hpHolds, hpSize)
  BY <1>2, <1>3, Zenon DEF HostTyped
<1>5. HostHolds(hpPlan, hpTodo, "finished", hpMode, hpActive, hpHolds, hpSize, hpCached)
  BY <1>1, <1>2, <1>4 DEF HostHolds
<1> QED BY <1>1, <1>5, Zenon DEF HostInv, HostFinished

\* Checking the requirements keeps HostInv.
LEMMA CheckRequirementsKeeps ==
  ASSUME HostInv, CheckRequirements
  PROVE  HostInv'
<1>1. CASE Die
  BY <1>1, DieKeeps
<1>2. CASE hpPc' = "slot" /\ UNCHANGED <<hpPlan, hpTodo, hpMode, hpActive, hpHolds, hpSize, hpCached>>
  <2>1. hpPc = "check"
    BY DEF CheckRequirements
  <2>2. /\ HostTyped(hpPlan, hpTodo, hpPc, hpMode, hpActive, hpHolds, hpSize)
        /\ SlotChecked(hpPlan) /\ Untouched(hpPlan, hpMode, hpHolds, hpSize, hpCached)
    BY <2>1 DEF HostInv, HostHolds
  <2>3. "slot" \in {"start", "check", "slot", "collect", "run", "finished", "died"}
    OBVIOUS
  <2>4. HostTyped(hpPlan, hpTodo, "slot", hpMode, hpActive, hpHolds, hpSize)
    BY <2>2, <2>3, Zenon DEF HostTyped
  <2>5. HostHolds(hpPlan, hpTodo, "slot", hpMode, hpActive, hpHolds, hpSize, hpCached)
    BY <2>2, <2>4 DEF HostHolds
  <2> QED BY <1>2, <2>5, Zenon DEF HostInv
<1> QED BY <1>1, <1>2 DEF CheckRequirements

\* Setting the active slot keeps HostInv.
LEMMA SetActiveKeeps ==
  ASSUME HostInv, SetActive
  PROVE  HostInv'
<1>1. PICK p, s, m, a, h, z, c : /\ p = hpPlan /\ s = hpTodo /\ m = hpMode /\ a = hpActive
                                 /\ h = hpHolds /\ z = hpSize /\ c = hpCached
  OBVIOUS
<1>2. hpPc = "slot" /\ hpPc' = "collect"
  BY DEF SetActive
<1>3. HostTyped(p, s, hpPc, m, a, h, z) /\ SlotChecked(p) /\ Untouched(p, m, h, z, c)
  BY <1>1, <1>2 DEF HostInv, HostHolds
<1>4. PICK b : b = hpActive'
  OBVIOUS
<1>5. b = CASE ~p.ab -> a [] p.slot = "all" -> "a" [] p.slot = "" -> a [] OTHER -> p.slot
  BY <1>1, <1>4 DEF SetActive
<1>6. p \in Plans /\ a \in SlotsOf(p)
  BY <1>3, Zenon DEF HostTyped
<1>7. p.slot \in {"", "a", "b", "all"} /\ p.ab \in BOOLEAN
  BY <1>6 DEF Plans
<1>8. b \in SlotsOf(p) /\ SlotActive(p, b)
  <2>1. CASE ~p.ab
    BY <2>1, <1>3, <1>5, <1>6, <1>7 DEF SlotActive, Slots, SlotChecked
  <2>2. CASE p.ab
    BY <2>2, <1>5, <1>6, <1>7 DEF SlotActive, Slots, SlotsOf
  <2> QED BY <2>1, <2>2
<1>9. HostTyped(p, s, "collect", m, b, h, z)
  <2>1. "collect" \in {"start", "check", "slot", "collect", "run", "finished", "died"}
    OBVIOUS
  <2> QED BY <2>1, <1>3, <1>8, Zenon DEF HostTyped
<1>10. HostHolds(p, s, "collect", m, b, h, z, c)
  BY <1>3, <1>8, <1>9 DEF HostHolds
<1> QED BY <1>1, <1>2, <1>4, <1>10, Zenon DEF HostInv, SetActive

\* Checking the slot that was asked for keeps HostInv.
LEMMA VerifySlotKeeps ==
  ASSUME HostInv, VerifySlot
  PROVE  HostInv'
<1>1. PICK p, s, m, a, h, z, c : /\ p = hpPlan /\ s = hpTodo /\ m = hpMode /\ a = hpActive
                                 /\ h = hpHolds /\ z = hpSize /\ c = hpCached
  OBVIOUS
<1>2. hpPc = "start"
  BY DEF VerifySlot
<1>3. HostTyped(p, s, hpPc, m, a, h, z) /\ Untouched(p, m, h, z, c)
  BY <1>1, <1>2 DEF HostInv, HostHolds
<1>4. p \in Plans
  BY <1>3, Zenon DEF HostTyped
<1>5. CASE p.slot # "" /\ ~p.ab
  <2>1. Die
    BY <1>1, <1>5, Zenon DEF VerifySlot
  <2> QED BY <2>1, DieKeeps
<1>6. CASE ~(p.slot # "" /\ ~p.ab)
  <2>1. PICK n : n = hpPlan'
    OBVIOUS
  <2>3. /\ n = [p EXCEPT !.secondary = p.secondary /\ ~(p.cmd = "flashall" /\ p.slot = "all"), !.wipe = p.wipe /\ p.cmd # "update"]
        /\ hpPc' = "check" /\ hpTodo' = s /\ hpMode' = m /\ hpActive' = a /\ hpHolds' = h /\ hpSize' = z /\ hpCached' = c
    BY <1>1, <1>6, <2>1 DEF VerifySlot
  <2>4. n \in Plans /\ n.ab = p.ab /\ n.slot = p.slot
    BY <2>3, <1>4 DEF Plans
  <2>5. SlotsOf(n) = SlotsOf(p) /\ Parts(n) = Parts(p)
    BY <2>4, Zenon DEF SlotsOf, Parts
  <2>6. HostTyped(n, s, "check", m, a, h, z)
    <3>1. "check" \in {"start", "check", "slot", "collect", "run", "finished", "died"}
      OBVIOUS
    <3> QED BY <3>1, <2>4, <2>5, <1>3, Zenon DEF HostTyped
  <2>7. Untouched(n, m, h, z, c)
    BY <2>5, <1>3, Zenon DEF Untouched
  <2>8. SlotChecked(n)
    BY <2>4, <1>6 DEF SlotChecked
  <2>9. HostHolds(n, s, "check", m, a, h, z, c)
    BY <2>6, <2>7, <2>8 DEF HostHolds
  <2> QED BY <2>1, <2>3, <2>9, Zenon DEF HostInv
<1> QED BY <1>5, <1>6

----------------------------------------------------------------------------
(* The lists the client makes.  Most of what matters of a list is which    *)
(* tasks are in it.                                                        *)

\* n has the elements of s whose places are in K.
Picks(n, s, K, k) ==
  /\ \A j \in DOMAIN n : \E i \in 1 .. k : i \in K /\ n[j] = s[i]
  /\ \A i \in 1 .. k : i \in K => \E j \in DOMAIN n : n[j] = s[i]

\* Picking the chosen places of a list, one place further.
LEMMA PicksNext ==
  ASSUME NEW S, NEW s \in Seq(S), NEW K, NEW k \in Nat, k + 1 <= Len(s), NEW l \in Seq(S), Picks(l, s, K, k),
         NEW e, e = (IF k + 1 \in K THEN <<s[k + 1]>> ELSE <<>>), NEW n, n = l \o e
  PROVE  n \in Seq(S) /\ Picks(n, s, K, k + 1)
<1>1. k + 1 \in 1 .. Len(s) /\ s[k + 1] \in S
  OBVIOUS
<1>2. CASE k + 1 \notin K
  <2>1. n = l
    BY <1>2
  <2>2. ASSUME NEW i \in 1 .. k + 1, i \in K PROVE i \in 1 .. k
    BY <1>2, <2>2
  <2>3. \A i \in 1 .. k : i \in 1 .. k + 1
    OBVIOUS
  <2> QED BY <2>1, <2>2, <2>3, Zenon DEF Picks
<1>3. CASE k + 1 \in K
  <2>1. PICK m \in Seq(S) : m = <<s[k + 1]>>
    <3>1. <<s[k + 1]>> \in Seq(S)
      BY <1>1
    <3> QED BY <3>1, Zenon
  <2>2. n = l \o m
    BY <2>1, <1>3, Zenon
  <2>3. DOMAIN m = {1} /\ m[1] = s[k + 1]
    BY <2>1
  <2>4. /\ n \in Seq(S)
        /\ \A i \in DOMAIN l : i \in DOMAIN n /\ n[i] = l[i]
        /\ \A i \in DOMAIN m : i + Len(l) \in DOMAIN n /\ n[i + Len(l)] = m[i]
        /\ \A i \in DOMAIN n : i \in DOMAIN l \/ (i - Len(l) \in DOMAIN m /\ n[i] = m[i - Len(l)])
    BY <2>2, Joined, SMTT(40)
  <2>5. \A i \in 1 .. k : i \in 1 .. k + 1
    OBVIOUS
  <2>6. k + 1 \in 1 .. k + 1
    OBVIOUS
  <2>7. ASSUME NEW j \in DOMAIN n PROVE \E i \in 1 .. k + 1 : i \in K /\ n[j] = s[i]
    <3>1. CASE j \in DOMAIN l
      <4>1. n[j] = l[j]
        BY <3>1, <2>4, Zenon
      <4>2. PICK i \in 1 .. k : i \in K /\ l[j] = s[i]
        BY <3>1, Zenon DEF Picks
      <4> QED BY <4>1, <4>2, <2>5, Zenon
    <3>2. CASE j \notin DOMAIN l
      <4>1. j - Len(l) \in DOMAIN m /\ n[j] = m[j - Len(l)]
        BY <3>2, <2>4, Zenon
      <4>2. n[j] = s[k + 1]
        BY <4>1, <2>3
      <4> QED BY <4>2, <2>6, <1>3, Zenon
    <3> QED BY <3>1, <3>2
  <2>8. ASSUME NEW i \in 1 .. k + 1, i \in K PROVE \E j \in DOMAIN n : n[j] = s[i]
    <3>1. CASE i = k + 1
      <4>1. 1 + Len(l) \in DOMAIN n /\ n[1 + Len(l)] = s[k + 1]
        BY <2>3, <2>4
      <4> QED BY <3>1, <4>1, Zenon
    <3>2. CASE i # k + 1
      <4>1. i \in 1 .. k
        BY <3>2
      <4>2. PICK j \in DOMAIN l : l[j] = s[i]
        BY <4>1, <2>8, Zenon DEF Picks
      <4> QED BY <4>2, <2>4, Zenon
    <3> QED BY <3>1, <3>2
  <2> QED BY <2>4, <2>7, <2>8, Zenon DEF Picks
<1> QED BY <1>2, <1>3

\* What Only keeps of a list.
LEMMA OnlyPicks ==
  ASSUME NEW S, NEW s \in Seq(S), s # <<>>, NEW K,
         NEW F, F = [i \in DOMAIN s |-> IF i \in K THEN <<s[i]>> ELSE <<>>], NEW n, n = FlattenSeq(F)
  PROVE  n \in Seq(S) /\ Picks(n, s, K, Len(s))
<1>1. Len(s) \in Nat \ {0} /\ DOMAIN s = 1 .. Len(s)
  OBVIOUS
<1>2. F \in Seq(Seq(S)) /\ Len(F) = Len(s) /\ F # <<>>
  <2>1. ASSUME NEW i \in 1 .. Len(s) PROVE F[i] \in Seq(S)
    <3>1. s[i] \in S
      OBVIOUS
    <3>2. <<s[i]>> \in Seq(S) /\ <<>> \in Seq(S)
      BY <3>1
    <3> QED BY <3>2, <1>1
  <2>2. F \in [1 .. Len(s) -> Seq(S)]
    BY <2>1, <1>1, Zenon
  <2> QED BY <2>2, <1>1
<1>3. PICK G : /\ FlattenSeq(F) = G[Len(F)] /\ G[1] = F[1]
               /\ \A i \in 1 .. Len(F) - 1 : G[i + 1] = G[i] \o F[i + 1]
  BY <1>2, FlattenNext, ZenonT(60)
<1> DEFINE Q == {k \in Nat : k + 1 <= Len(s) => G[k + 1] \in Seq(S) /\ Picks(G[k + 1], s, K, k + 1)}
<1>4. 0 \in Q
  <2>1. PICK l \in Seq(S) : l = <<>>
    <3>1. <<>> \in Seq(S)
      OBVIOUS
    <3> QED BY <3>1, Zenon
  <2>2. Picks(l, s, K, 0)
    BY <2>1 DEF Picks
  <2>3. 0 + 1 <= Len(s) /\ 0 + 1 = 1 /\ 1 \in DOMAIN s
    BY <1>1
  <2>4. F[0 + 1] = IF 0 + 1 \in K THEN <<s[0 + 1]>> ELSE <<>>
    BY <2>3
  <2>5. PICK g, e : g = l \o e /\ e = F[0 + 1]
    OBVIOUS
  <2>6. e \in Seq(S)
    BY <2>3, <2>5, <1>1, <1>2
  <2>7. g = e
    BY <2>1, <2>5, <2>6
  <2>8. g \in Seq(S) /\ Picks(g, s, K, 0 + 1)
    BY <2>2, <2>3, <2>4, <2>5, PicksNext
  <2>9. g = G[0 + 1]
    BY <2>3, <2>5, <2>7, <1>3, Zenon
  <2>10. G[0 + 1] \in Seq(S) /\ Picks(G[0 + 1], s, K, 0 + 1)
    BY <2>8, <2>9, Zenon
  <2> QED BY <2>10
<1>5. ASSUME NEW k \in Q PROVE k + 1 \in Q
  <2>1. k \in Nat /\ k + 1 \in Nat
    OBVIOUS
  <2>2. ASSUME (k + 1) + 1 <= Len(s) PROVE G[(k + 1) + 1] \in Seq(S) /\ Picks(G[(k + 1) + 1], s, K, (k + 1) + 1)
    <3>1. k + 1 <= Len(s) /\ k + 1 \in 1 .. Len(F) - 1 /\ (k + 1) + 1 \in DOMAIN s
      BY <2>1, <2>2, <1>1, <1>2
    <3>2. G[k + 1] \in Seq(S) /\ Picks(G[k + 1], s, K, k + 1)
      BY <3>1, <1>5
    <3>3. PICK l, e, g : l = G[k + 1] /\ e = F[(k + 1) + 1] /\ g = G[(k + 1) + 1]
      OBVIOUS
    <3>4. g = l \o e
      BY <3>1, <3>3, <1>3, Zenon
    <3>5. e = IF (k + 1) + 1 \in K THEN <<s[(k + 1) + 1]>> ELSE <<>>
      BY <3>1, <3>3
    <3>6. g \in Seq(S) /\ Picks(g, s, K, (k + 1) + 1)
      BY <2>1, <2>2, <3>2, <3>3, <3>4, <3>5, PicksNext, Zenon
    <3> QED BY <3>3, <3>6, Zenon
  <2> QED BY <2>1, <2>2
<1>6. Q = Nat
  <2>1. Q \in SUBSET Nat
    OBVIOUS
  <2> HIDE DEF Q
  <2> QED BY <2>1, <1>4, <1>5, InductionOnNat, Zenon
<1>7. Len(s) - 1 \in Q /\ (Len(s) - 1) + 1 = Len(s)
  <2> HIDE DEF Q
  <2> QED BY <1>1, <1>6
<1>8. G[Len(s)] \in Seq(S) /\ Picks(G[Len(s)], s, K, Len(s))
  BY <1>1, <1>7
<1> QED BY <1>2, <1>3, <1>8, Zenon

\* The plan is settled and the slots are known.
Settled == /\ hpPlan \in Plans /\ hpActive \in SlotsOf(hpPlan)
           /\ SlotChecked(hpPlan) /\ SlotActive(hpPlan, hpActive)

\* The rows CollectImages goes through, and the task it makes of each.
LEMMA ImageRows ==
  /\ (\E S : ImageTable \in Seq(S)) /\ Len(ImageTable) = 3 /\ ImageTable # <<>> /\ DOMAIN ImageTable = 1 .. 3
  /\ ImageTable[1].critical = TRUE /\ ImageTable[1].secondary = FALSE
  /\ ImageTable[2].critical = FALSE /\ ImageTable[2].secondary = FALSE
  /\ ImageTable[3].critical = FALSE /\ ImageTable[3].secondary = TRUE
  /\ ImageTable[1].part = "boot" /\ ImageTable[1].img = "boot.img"
  /\ ImageTable[2].part = "system" /\ ImageTable[2].img = "system.img"
  /\ ImageTable[3].part = "system" /\ ImageTable[3].img = "system_other.img"
<1>1. Len(ImageTable) = 3 /\ ImageTable # <<>> /\ DOMAIN ImageTable = 1 .. 3
  BY DEF ImageTable
<1>2. \E S : ImageTable \in Seq(S)
  <2>1. \A a, b, c : <<a, b, c>> \in Seq({a, b, c})
    OBVIOUS
  <2> QED BY <2>1, Zenon DEF ImageTable
<1>3. /\ ImageTable[1].critical = TRUE /\ ImageTable[1].secondary = FALSE
      /\ ImageTable[2].critical = FALSE /\ ImageTable[2].secondary = FALSE
      /\ ImageTable[3].critical = FALSE /\ ImageTable[3].secondary = TRUE
  BY DEF ImageTable
<1>4. /\ ImageTable[1].part = "boot" /\ ImageTable[1].img = "boot.img"
      /\ ImageTable[2].part = "system" /\ ImageTable[2].img = "system.img"
      /\ ImageTable[3].part = "system" /\ ImageTable[3].img = "system_other.img"
  BY DEF ImageTable
<1> QED BY <1>1, <1>2, <1>3, <1>4, Zenon

\* A task made by Task.
LEMMA MadeTask ==
  ASSUME NEW o \in TaskOps, NEW d \in TaskParts, NEW x \in TaskSlots, NEW g \in TaskImages, NEW t, t = Task(o, d, x, g)
  PROVE  t \in HostTasks /\ t.op = o /\ t.part = d /\ t.slot = x /\ t.img = g
BY DEF Task, HostTasks

\* The words that tasks are made of.
LEMMA TaskWords ==
  /\ \A o \in {"image", "flash", "resize", "super", "update-super", "reboot", "wipe"} : o \in TaskOps
  /\ \A d \in {"boot", "system", "userdata", "super", "fastboot", ""} : d \in TaskParts
  /\ \A x \in {"", "a", "b", "all"} : x \in TaskSlots
  /\ \A g \in {"boot.img", "system.img", "system_other.img", ""} : g \in TaskImages
BY DEF TaskOps, TaskParts, TaskSlots, TaskImages

\* The rows of the image table, as tasks.
LEMMA RowTasks ==
  ASSUME Settled
  PROVE  /\ Entry(ImageTable[1]) \in HostTasks /\ BootTask(hpPlan, Entry(ImageTable[1]))
         /\ Entry(ImageTable[2]) \in HostTasks /\ SystemTask(hpPlan, Entry(ImageTable[2]))
         /\ Entry(ImageTable[3]) \in HostTasks /\ OtherTask(hpPlan, hpActive, Entry(ImageTable[3]))
<1>1. hpPlan.slot \in TaskSlots
  BY DEF Settled, Plans, TaskSlots
<1>2. Second(hpPlan, hpActive) \in TaskSlots
  BY SecondFacts DEF Settled, TaskSlots
<1>3. SecondarySlot = Second(hpPlan, hpActive)
  BY Zenon DEF SecondarySlot, Second
<1>4. Entry(ImageTable[1]) = Task("image", "boot", hpPlan.slot, "boot.img")
  BY ImageRows, Zenon DEF Entry
<1>5. Entry(ImageTable[2]) = Task("image", "system", hpPlan.slot, "system.img")
  BY ImageRows, Zenon DEF Entry
<1>6. Entry(ImageTable[3]) = Task("image", "system", Second(hpPlan, hpActive), "system_other.img")
  BY ImageRows, <1>3, Zenon DEF Entry
<1>7. Entry(ImageTable[1]) \in HostTasks /\ BootTask(hpPlan, Entry(ImageTable[1]))
  <2>1. PICK t : t = Entry(ImageTable[1])
    OBVIOUS
  <2>2. t \in HostTasks /\ t.op = "image" /\ t.part = "boot" /\ t.slot = hpPlan.slot /\ t.img = "boot.img"
    <3>1. "image" \in TaskOps /\ "boot" \in TaskParts /\ "boot.img" \in TaskImages
      BY TaskWords
    <3> QED BY <3>1, <2>1, <1>1, <1>4, MadeTask
  <2>3. BootTask(hpPlan, t)
    BY <2>2 DEF BootTask, Flashes
  <2> QED BY <2>1, <2>2, <2>3, Zenon
<1>8. Entry(ImageTable[2]) \in HostTasks /\ SystemTask(hpPlan, Entry(ImageTable[2]))
  <2>1. PICK t : t = Entry(ImageTable[2])
    OBVIOUS
  <2>2. t \in HostTasks /\ t.op = "image" /\ t.part = "system" /\ t.slot = hpPlan.slot /\ t.img = "system.img"
    <3>1. "image" \in TaskOps /\ "system" \in TaskParts /\ "system.img" \in TaskImages
      BY TaskWords
    <3> QED BY <3>1, <2>1, <1>1, <1>5, MadeTask
  <2>3. SystemTask(hpPlan, t)
    BY <2>2 DEF SystemTask, Flashes
  <2> QED BY <2>1, <2>2, <2>3, Zenon
<1>9. Entry(ImageTable[3]) \in HostTasks /\ OtherTask(hpPlan, hpActive, Entry(ImageTable[3]))
  <2>1. PICK t : t = Entry(ImageTable[3])
    OBVIOUS
  <2>2. t \in HostTasks /\ t.op = "image" /\ t.part = "system" /\ t.slot = Second(hpPlan, hpActive) /\ t.img = "system_other.img"
    <3>1. "image" \in TaskOps /\ "system" \in TaskParts /\ "system_other.img" \in TaskImages
      BY TaskWords
    <3> QED BY <3>1, <2>1, <1>2, <1>6, MadeTask
  <2>3. OtherTask(hpPlan, hpActive, t)
    BY <2>2 DEF OtherTask, Flashes
  <2> QED BY <2>1, <2>2, <2>3, Zenon
<1> QED BY <1>7, <1>8, <1>9, Zenon

\* The rows CollectImages keeps.
KeptRows(K, critical) ==
  \A i \in 1 .. 3 : i \in K <=> ImageTable[i].critical = critical /\ ~(ImageTable[i].secondary /\ SkipSecondary)

\* The tasks that are made of them.
RowsIn(l, K) ==
  /\ l \in Seq(HostTasks)
  /\ \A j \in DOMAIN l : \E i \in 1 .. 3 : i \in K /\ l[j] = Entry(ImageTable[i])
  /\ \A i \in 1 .. 3 : i \in K => \E j \in DOMAIN l : l[j] = Entry(ImageTable[i])

\* CollectTasks takes the rows it should, in order.
LEMMA CollectedPicks ==
  ASSUME Settled, NEW critical, NEW K, KeptRows(K, critical), NEW l, l = Collected(critical)
  PROVE  RowsIn(l, K)
<1>1. PICK F, n : /\ F = [i \in DOMAIN ImageTable |-> IF i \in K THEN <<ImageTable[i]>> ELSE <<>>]
                  /\ n = FlattenSeq(F)
  OBVIOUS
<1>2. F = [i \in DOMAIN ImageTable |->
             IF ImageTable[i].critical = critical /\ ~(ImageTable[i].secondary /\ SkipSecondary)
             THEN <<ImageTable[i]>> ELSE <<>>]
  <2>1. \A i \in DOMAIN ImageTable :
           i \in K <=> ImageTable[i].critical = critical /\ ~(ImageTable[i].secondary /\ SkipSecondary)
    BY ImageRows, Zenon DEF KeptRows
  <2> QED BY <1>1, <2>1, Zenon
<1>3. l = [i \in 1 .. Len(n) |-> Entry(n[i])]
  BY <1>1, <1>2, Zenon DEF Collected, Only
<1>4. PICK S : ImageTable \in Seq(S)
  BY ImageRows, Zenon
<1>5. n \in Seq(S) /\ Picks(n, ImageTable, K, Len(ImageTable))
  BY <1>1, <1>4, ImageRows, OnlyPicks, Zenon
<1>6. Len(n) \in Nat /\ DOMAIN n = 1 .. Len(n) /\ Len(ImageTable) = 3
  BY <1>5, ImageRows
<1>7. /\ \A j \in DOMAIN n : \E i \in 1 .. 3 : i \in K /\ n[j] = ImageTable[i]
      /\ \A i \in 1 .. 3 : i \in K => \E j \in DOMAIN n : n[j] = ImageTable[i]
  BY <1>5, <1>6, Zenon DEF Picks
<1>8. DOMAIN l = DOMAIN n /\ \A j \in DOMAIN n : l[j] = Entry(n[j])
  BY <1>3, <1>6, Zenon
<1>9. \A i \in 1 .. 3 : Entry(ImageTable[i]) \in HostTasks
  BY RowTasks
<1>10. \A j \in 1 .. Len(n) : Entry(n[j]) \in HostTasks
  BY <1>6, <1>7, <1>9, Zenon
<1>11. l \in Seq(HostTasks)
  <2>1. l \in [1 .. Len(n) -> HostTasks]
    BY <1>3, <1>10, Zenon
  <2> QED BY <2>1, <1>6
<1>12. /\ \A j \in DOMAIN l : \E i \in 1 .. 3 : i \in K /\ l[j] = Entry(ImageTable[i])
       /\ \A i \in 1 .. 3 : i \in K => \E j \in DOMAIN l : l[j] = Entry(ImageTable[i])
  <2>1. ASSUME NEW j \in DOMAIN l PROVE \E i \in 1 .. 3 : i \in K /\ l[j] = Entry(ImageTable[i])
    <3>1. PICK i \in 1 .. 3 : i \in K /\ n[j] = ImageTable[i]
      BY <1>7, <1>8, Zenon
    <3> QED BY <3>1, <1>8, Zenon
  <2>2. ASSUME NEW i \in 1 .. 3, i \in K PROVE \E j \in DOMAIN l : l[j] = Entry(ImageTable[i])
    <3>1. PICK j \in DOMAIN n : n[j] = ImageTable[i]
      BY <2>2, <1>7, Zenon
    <3> QED BY <3>1, <1>8, Zenon
  <2> QED BY <2>1, <2>2, Zenon
<1> QED BY <1>11, <1>12, Zenon DEF RowsIn

\* The bootloader's images, and the others.
LEMMA CollectedBoot ==
  ASSUME Settled, NEW l, l = Collected(TRUE)
  PROVE  /\ l \in Seq(HostTasks)
         /\ \A j \in DOMAIN l : BootTask(hpPlan, l[j])
         /\ \E j \in DOMAIN l : BootTask(hpPlan, l[j])
<1>1. KeptRows({1}, TRUE)
  <2>1. SUFFICES ASSUME NEW i \in 1 .. 3
                 PROVE  i \in {1} <=> ImageTable[i].critical = TRUE /\ ~(ImageTable[i].secondary /\ SkipSecondary)
    BY Zenon DEF KeptRows
  <2>2. i = 1 \/ i = 2 \/ i = 3
    OBVIOUS
  <2> QED BY <2>2, ImageRows
<1>2. /\ l \in Seq(HostTasks)
      /\ \A j \in DOMAIN l : \E i \in 1 .. 3 : i \in {1} /\ l[j] = Entry(ImageTable[i])
      /\ \A i \in 1 .. 3 : i \in {1} => \E j \in DOMAIN l : l[j] = Entry(ImageTable[i])
  <2>1. PICK K, b : K = {1} /\ b = TRUE
    OBVIOUS
  <2>2. KeptRows(K, b) /\ l = Collected(b)
    BY <1>1, <2>1, Zenon
  <2>3. RowsIn(l, K)
    BY <2>2, CollectedPicks, Zenon
  <2> QED BY <2>1, <2>3, Zenon DEF RowsIn
<1>3. 1 \in 1 .. 3 /\ BootTask(hpPlan, Entry(ImageTable[1]))
  BY RowTasks
<1>4. \A j \in DOMAIN l : l[j] = Entry(ImageTable[1])
  BY <1>2, Zenon
<1>5. \E j \in DOMAIN l : l[j] = Entry(ImageTable[1])
  BY <1>2, <1>3, Zenon
<1> QED BY <1>2, <1>3, <1>4, <1>5, Zenon

\* CollectTasks of the rest is about the system partition, and has a task on it.
LEMMA CollectedSystem ==
  ASSUME Settled, NEW l, l = Collected(FALSE)
  PROVE  /\ l \in Seq(HostTasks)
         /\ \A j \in DOMAIN l : \/ SystemTask(hpPlan, l[j])
                                \/ OtherTask(hpPlan, hpActive, l[j]) /\ Second(hpPlan, hpActive) # ""
         /\ \E j \in DOMAIN l : SystemTask(hpPlan, l[j])
<1>1. SkipSecondary <=> Second(hpPlan, hpActive) = ""
  BY Zenon DEF SkipSecondary, SecondarySlot, Second
<1>2. PICK K : K = {i \in {2, 3} : i = 2 \/ ~SkipSecondary}
  OBVIOUS
<1>3. KeptRows(K, FALSE)
  <2>1. SUFFICES ASSUME NEW i \in 1 .. 3
                 PROVE  i \in K <=> ImageTable[i].critical = FALSE /\ ~(ImageTable[i].secondary /\ SkipSecondary)
    BY Zenon DEF KeptRows
  <2>2. CASE i = 1
    BY <2>2, <1>2, ImageRows
  <2>3. CASE i = 2
    BY <2>3, <1>2, ImageRows
  <2>4. CASE i = 3
    <3>1. ImageTable[i].critical = FALSE /\ ImageTable[i].secondary = TRUE
      BY <2>4, ImageRows
    <3>2. i \in K <=> ~SkipSecondary
      BY <2>4, <1>2
    <3> QED BY <3>1, <3>2, Zenon
  <2>5. i = 1 \/ i = 2 \/ i = 3
    OBVIOUS
  <2> QED BY <2>2, <2>3, <2>4, <2>5, Zenon
<1>4. /\ l \in Seq(HostTasks)
      /\ \A j \in DOMAIN l : \E i \in 1 .. 3 : i \in K /\ l[j] = Entry(ImageTable[i])
      /\ \A i \in 1 .. 3 : i \in K => \E j \in DOMAIN l : l[j] = Entry(ImageTable[i])
  <2>1. PICK b : b = FALSE
    OBVIOUS
  <2>2. KeptRows(K, b) /\ l = Collected(b)
    BY <1>3, <2>1, Zenon
  <2>3. RowsIn(l, K)
    BY <2>2, CollectedPicks, Zenon
  <2> QED BY <2>3, Zenon DEF RowsIn
<1>5. 2 \in 1 .. 3 /\ 2 \in K
  BY <1>2
<1>6. SystemTask(hpPlan, Entry(ImageTable[2])) /\ OtherTask(hpPlan, hpActive, Entry(ImageTable[3]))
  BY RowTasks
<1>7. ASSUME NEW j \in DOMAIN l
      PROVE  \/ SystemTask(hpPlan, l[j])
             \/ OtherTask(hpPlan, hpActive, l[j]) /\ Second(hpPlan, hpActive) # ""
  <2>1. PICK i \in 1 .. 3 : i \in K /\ l[j] = Entry(ImageTable[i])
    BY <1>4, Zenon
  <2>2. i = 2 \/ (i = 3 /\ ~SkipSecondary)
    BY <2>1, <1>2
  <2> QED BY <2>1, <2>2, <1>1, <1>6, Zenon
<1>8. \E j \in DOMAIN l : SystemTask(hpPlan, l[j])
  <2>1. PICK j \in DOMAIN l : l[j] = Entry(ImageTable[2])
    BY <1>4, <1>5, Zenon
  <2> QED BY <2>1, <1>6, Zenon
<1> QED BY <1>4, <1>7, <1>8, Zenon

\* A task of a joined list is of one of its parts.
LEMMA JoinedElements ==
  ASSUME NEW S, NEW l \in Seq(S), NEW m \in Seq(S), NEW n, n = l \o m, NEW j \in DOMAIN n
  PROVE  (\E i \in DOMAIN l : n[j] = l[i]) \/ (\E i \in DOMAIN m : n[j] = m[i])
<1>1. /\ \A i \in DOMAIN l : i \in DOMAIN n /\ n[i] = l[i]
      /\ \A i \in DOMAIN n : i \in DOMAIN l \/ (i - Len(l) \in DOMAIN m /\ n[i] = m[i - Len(l)])
  BY Joined
<1> QED BY <1>1, Zenon

\* A task of a list joined to itself is of that list.
LEMMA Doubled ==
  ASSUME NEW c \in Seq(HostTasks), NEW n, n = c \o c
  PROVE  \A j \in DOMAIN n : \E i \in DOMAIN c : n[j] = c[i]
<1> SUFFICES ASSUME NEW j \in DOMAIN n PROVE \E i \in DOMAIN c : n[j] = c[i]
  OBVIOUS
<1> QED BY JoinedElements

\* All that is said of lists, of a joined list.
LEMMA JoinedAll ==
  ASSUME NEW p, NEW a, NEW l \in Seq(HostTasks), NEW m \in Seq(HostTasks), NEW n, n = l \o m
  PROVE  /\ n \in Seq(HostTasks)
         /\ AllKnown(p, a, n) <=> AllKnown(p, a, l) /\ AllKnown(p, a, m)
         /\ OnlyWipes(n) <=> OnlyWipes(l) /\ OnlyWipes(m)
         /\ Spoilless(p, a, n) <=> Spoilless(p, a, l) /\ Spoilless(p, a, m)
         /\ Needless(p, n) <=> Needless(p, l) /\ Needless(p, m)
         /\ Stays(n) <=> Stays(l) /\ Stays(m)
         /\ HasBoot(p, n) <=> HasBoot(p, l) \/ HasBoot(p, m)
         /\ HasLift(p, n) <=> HasLift(p, l) \/ HasLift(p, m)
         /\ Lifted(p, n) <=> Lifted(p, l) /\ (HasLift(p, l) \/ Lifted(p, m))
         /\ Orderly(n) <=> Orderly(l) /\ Orderly(m) /\ (Stays(l) \/ OnlyWipes(m))
         /\ SystemLast(p, a, n) <=> SystemLast(p, a, m) \/ (SystemLast(p, a, l) /\ Spoilless(p, a, m))
<1>1. n \in Seq(HostTasks)
  OBVIOUS
<1>2. Lifted(p, n) <=> Lifted(p, l) /\ (HasLift(p, l) \/ Lifted(p, m))
  BY JoinedLifted, Zenon
<1>3. Orderly(n) <=> Orderly(l) /\ Orderly(m) /\ (Stays(l) \/ OnlyWipes(m))
  BY JoinedOrderly, Zenon
<1>4. SystemLast(p, a, n) <=> SystemLast(p, a, m) \/ (SystemLast(p, a, l) /\ Spoilless(p, a, m))
  BY JoinedSystem, Zenon
<1> QED BY <1>1, <1>2, <1>3, <1>4, JoinedPlain, Zenon

\* What each kind of task is, for the predicates on lists.
LEMMA KindFacts ==
  ASSUME NEW p, NEW a, NEW t
  PROVE  /\ BootTask(p, t) => Known(p, a, t) /\ ~Away(t) /\ ~Needs(p, t) /\ ~Spoils(p, a, t)
         /\ SystemTask(p, t) => Known(p, a, t) /\ ~Away(t) /\ ~Spoils(p, a, t) /\ Writes(p, t)
         /\ OtherTask(p, a, t) => Known(p, a, t) /\ ~Away(t) /\ (Second(p, a) # "" => ~Spoils(p, a, t))
         /\ SuperTask(p, t) => Known(p, a, t) /\ ~Away(t) /\ ~Needs(p, t) /\ ~Spoils(p, a, t) /\ Writes(p, t)
         /\ t.op = "resize" /\ t.part = "system" => Known(p, a, t) /\ ~Away(t) /\ ~Needs(p, t)
         /\ t.op = "update-super" => /\ Known(p, a, t) /\ ~Away(t) /\ ~Needs(p, t) /\ ~Spoils(p, a, t)
                                     /\ p.superEmpty => Lifts(p, t)
         /\ t.op = "reboot" => /\ Known(p, a, t) /\ ~Needs(p, t) /\ ~Spoils(p, a, t)
                               /\ t.part = "fastboot" => Lifts(p, t) /\ ~Away(t)
         /\ t.op = "wipe" => Known(p, a, t) /\ ~Away(t) /\ ~Needs(p, t) /\ ~Spoils(p, a, t)
<1>1. BootTask(p, t) => Known(p, a, t) /\ ~Away(t) /\ ~Needs(p, t) /\ ~Spoils(p, a, t)
  <2> SUFFICES ASSUME BootTask(p, t) PROVE Known(p, a, t) /\ ~Away(t) /\ ~Needs(p, t) /\ ~Spoils(p, a, t)
    OBVIOUS
  <2>1. Flashes(t) /\ t.part = "boot"
    BY DEF BootTask
  <2>2. ~(t.op = "reboot") /\ ~(t.op = "resize") /\ ~(t.part = "system")
    BY <2>1 DEF Flashes
  <2> QED BY <2>1, <2>2, Zenon DEF Known, Away, Needs, Spoils, OtherTask
<1>2. SystemTask(p, t) => Known(p, a, t) /\ ~Away(t) /\ ~Spoils(p, a, t) /\ Writes(p, t)
  <2> SUFFICES ASSUME SystemTask(p, t) PROVE Known(p, a, t) /\ ~Away(t) /\ ~Spoils(p, a, t) /\ Writes(p, t)
    OBVIOUS
  <2>1. Flashes(t) /\ t.img = "system.img"
    BY DEF SystemTask
  <2>2. ~(t.op = "reboot") /\ ~(t.op = "resize") /\ ~(t.img = "system_other.img")
    BY <2>1 DEF Flashes
  <2> QED BY <2>1, <2>2, Zenon DEF Known, Away, Writes, Spoils, OtherTask
<1>3. OtherTask(p, a, t) => Known(p, a, t) /\ ~Away(t) /\ (Second(p, a) # "" => ~Spoils(p, a, t))
  <2> SUFFICES ASSUME OtherTask(p, a, t) PROVE Known(p, a, t) /\ ~Away(t) /\ (Second(p, a) # "" => ~Spoils(p, a, t))
    OBVIOUS
  <2>1. Flashes(t)
    BY DEF OtherTask
  <2>2. ~(t.op = "reboot") /\ ~(t.op = "resize")
    BY <2>1 DEF Flashes
  <2> QED BY <2>1, <2>2, Zenon DEF Known, Away, Spoils
<1>4. SuperTask(p, t) => Known(p, a, t) /\ ~Away(t) /\ ~Needs(p, t) /\ ~Spoils(p, a, t) /\ Writes(p, t)
  <2> SUFFICES ASSUME SuperTask(p, t) PROVE Known(p, a, t) /\ ~Away(t) /\ ~Needs(p, t) /\ ~Spoils(p, a, t) /\ Writes(p, t)
    OBVIOUS
  <2>1. t.op = "super"
    BY DEF SuperTask
  <2>2. ~(t.op = "reboot") /\ ~(t.op = "resize") /\ ~Flashes(t)
    BY <2>1 DEF Flashes
  <2> QED BY <2>2, Zenon DEF Known, Away, Needs, Writes, Spoils, OtherTask
<1>5. t.op = "resize" /\ t.part = "system" => Known(p, a, t) /\ ~Away(t) /\ ~Needs(p, t)
  <2> SUFFICES ASSUME t.op = "resize", t.part = "system" PROVE Known(p, a, t) /\ ~Away(t) /\ ~Needs(p, t)
    OBVIOUS
  <2>1. ~(t.op = "reboot") /\ ~Flashes(t)
    BY DEF Flashes
  <2> QED BY <2>1, Zenon DEF Known, Away, Needs
<1>6. t.op = "update-super" => /\ Known(p, a, t) /\ ~Away(t) /\ ~Needs(p, t) /\ ~Spoils(p, a, t)
                               /\ p.superEmpty => Lifts(p, t)
  <2> SUFFICES ASSUME t.op = "update-super"
               PROVE  Known(p, a, t) /\ ~Away(t) /\ ~Needs(p, t) /\ ~Spoils(p, a, t) /\ (p.superEmpty => Lifts(p, t))
    OBVIOUS
  <2>1. ~(t.op = "reboot") /\ ~(t.op = "resize") /\ ~Flashes(t) /\ t.op \in {"update-super", "reboot", "wipe"}
    BY DEF Flashes
  <2> QED BY <2>1, Zenon DEF Known, Away, Needs, Spoils, OtherTask, Lifts
<1>7. t.op = "reboot" => /\ Known(p, a, t) /\ ~Needs(p, t) /\ ~Spoils(p, a, t)
                         /\ t.part = "fastboot" => Lifts(p, t) /\ ~Away(t)
  <2> SUFFICES ASSUME t.op = "reboot"
               PROVE  Known(p, a, t) /\ ~Needs(p, t) /\ ~Spoils(p, a, t) /\ (t.part = "fastboot" => Lifts(p, t) /\ ~Away(t))
    OBVIOUS
  <2>1. ~(t.op = "resize") /\ ~Flashes(t) /\ t.op \in {"update-super", "reboot", "wipe"}
    BY DEF Flashes
  <2> QED BY <2>1, Zenon DEF Known, Away, Needs, Spoils, OtherTask, Lifts
<1>8. t.op = "wipe" => Known(p, a, t) /\ ~Away(t) /\ ~Needs(p, t) /\ ~Spoils(p, a, t)
  <2> SUFFICES ASSUME t.op = "wipe" PROVE Known(p, a, t) /\ ~Away(t) /\ ~Needs(p, t) /\ ~Spoils(p, a, t)
    OBVIOUS
  <2>1. ~(t.op = "reboot") /\ ~(t.op = "resize") /\ ~Flashes(t) /\ t.op \in {"update-super", "reboot", "wipe"}
    BY DEF Flashes
  <2> QED BY <2>1, Zenon DEF Known, Away, Needs, Spoils, OtherTask
<1> QED BY <1>1, <1>2, <1>3, <1>4, <1>5, <1>6, <1>7, <1>8, Zenon

\* A list that does what it has to, before the reboot and the wipes.
MainList(p, a, l) ==
  /\ l \in Seq(HostTasks) /\ AllKnown(p, a, l) /\ Stays(l) /\ Lifted(p, l) /\ HasBoot(p, l)
  /\ Excepted(p, a) \/ SystemLast(p, a, l)

\* The two halves of HardcodedFlash's list.
LEMMA BootHalf ==
  ASSUME Settled, NEW l, l = Collected(TRUE) \o Collected(TRUE)
  PROVE  /\ l \in Seq(HostTasks) /\ AllKnown(hpPlan, hpActive, l) /\ Stays(l) /\ Needless(hpPlan, l)
         /\ Lifted(hpPlan, l) /\ HasBoot(hpPlan, l)
<1>1. PICK c, p, a : c = Collected(TRUE) /\ p = hpPlan /\ a = hpActive
  OBVIOUS
<1>2. /\ c \in Seq(HostTasks)
      /\ \A j \in DOMAIN c : BootTask(p, c[j])
      /\ \E j \in DOMAIN c : BootTask(p, c[j])
  BY <1>1, CollectedBoot, Zenon
<1>3. \A j \in DOMAIN c : Known(p, a, c[j]) /\ ~Away(c[j]) /\ ~Needs(p, c[j])
  BY <1>2, KindFacts, Zenon
<1>4. AllKnown(p, a, c) /\ Stays(c) /\ Needless(p, c) /\ HasBoot(p, c)
  BY <1>2, <1>3, Zenon DEF AllKnown, Stays, Needless, HasBoot
<1>5. l = c \o c
  BY <1>1, Zenon
<1>6. l \in Seq(HostTasks) /\ AllKnown(p, a, l) /\ Stays(l) /\ Needless(p, l) /\ HasBoot(p, l)
  BY <1>2, <1>4, <1>5, JoinedAll, Zenon
<1>7. Lifted(p, l)
  BY <1>6, PlainLists, Zenon
<1> QED BY <1>1, <1>6, <1>7, Zenon

\* System tasks given twice still end with the right one.
LEMMA SystemTwice ==
  ASSUME NEW p, NEW a, NEW c \in Seq(HostTasks),
         \A j \in DOMAIN c : SystemTask(p, c[j]) \/ (OtherTask(p, a, c[j]) /\ ~Spoils(p, a, c[j])),
         \E j \in DOMAIN c : SystemTask(p, c[j]), NEW l, l = c \o c
  PROVE  /\ l \in Seq(HostTasks) /\ AllKnown(p, a, l) /\ Stays(l) /\ SystemLast(p, a, l) /\ l # <<>>
         /\ \A j \in DOMAIN l : Flashes(l[j]) /\ l[j].part = "system"
<1>1. \A j \in DOMAIN c : Known(p, a, c[j]) /\ ~Away(c[j]) /\ ~Spoils(p, a, c[j])
  BY KindFacts, Zenon
<1>2. \E j \in DOMAIN c : Writes(p, c[j])
  BY KindFacts, Zenon
<1>3. AllKnown(p, a, c) /\ Stays(c) /\ Spoilless(p, a, c)
  BY <1>1, Zenon DEF AllKnown, Stays, Spoilless
<1>4. SystemLast(p, a, c)
  BY <1>2, <1>3, PlainLists, Zenon
<1>5. l \in Seq(HostTasks) /\ AllKnown(p, a, l) /\ Stays(l) /\ SystemLast(p, a, l)
  BY <1>3, <1>4, JoinedAll, Zenon
<1>6. l # <<>>
  BY <1>5, NoTask, Zenon
<1>7. \A j \in DOMAIN c : Flashes(c[j]) /\ c[j].part = "system"
  BY Zenon DEF SystemTask, OtherTask
<1>8. \A j \in DOMAIN l : \E i \in DOMAIN c : l[j] = c[i]
  BY Doubled
<1>9. \A j \in DOMAIN l : Flashes(l[j]) /\ l[j].part = "system"
  BY <1>7, <1>8, Zenon
<1> QED BY <1>5, <1>6, <1>9, Zenon

\* The half of the hardcoded list that is about the system partition.
LEMMA SystemHalf ==
  ASSUME Settled, NEW l, l = Collected(FALSE) \o Collected(FALSE)
  PROVE  /\ l \in Seq(HostTasks) /\ AllKnown(hpPlan, hpActive, l) /\ Stays(l) /\ SystemLast(hpPlan, hpActive, l)
         /\ l # <<>> /\ \A j \in DOMAIN l : Flashes(l[j]) /\ l[j].part = "system"
<1>1. PICK c : c = Collected(FALSE)
  OBVIOUS
<1>2. /\ c \in Seq(HostTasks)
      /\ \A j \in DOMAIN c : SystemTask(hpPlan, c[j]) \/ (OtherTask(hpPlan, hpActive, c[j]) /\ Second(hpPlan, hpActive) # "")
      /\ \E j \in DOMAIN c : SystemTask(hpPlan, c[j])
  BY <1>1, CollectedSystem, Zenon
<1>3. \A j \in DOMAIN c : SystemTask(hpPlan, c[j]) \/ (OtherTask(hpPlan, hpActive, c[j]) /\ ~Spoils(hpPlan, hpActive, c[j]))
  BY <1>2, KindFacts, Zenon
<1>4. l = c \o c
  BY <1>1, Zenon
<1> QED BY <1>2, <1>3, <1>4, SystemTwice, ZenonT(60)

\* A list with no task in it, whatever it was made from.
LEMMA EmptyTasks ==
  ASSUME NEW p, NEW a, NEW k, DOMAIN k = {}
  PROVE  AllKnown(p, a, k) /\ Spoilless(p, a, k) /\ Needless(p, k) /\ Stays(k) /\ Lifted(p, k)
BY Zenon DEF AllKnown, Spoilless, Needless, Stays, Lifted

\* Resizes of the system partition ask for no reboot before them.
LEMMA ResizeTasks ==
  ASSUME NEW p, NEW a, NEW os \in Seq(HostTasks), \A j \in DOMAIN os : os[j].part = "system",
         NEW l, l = [i \in 1 .. Len(os) |-> [os[i] EXCEPT !.op = "resize"]]
  PROVE  l \in Seq(HostTasks) /\ AllKnown(p, a, l) /\ Stays(l) /\ Needless(p, l) /\ Lifted(p, l)
<1>1. Len(os) \in Nat /\ DOMAIN os = 1 .. Len(os)
  OBVIOUS
<1>2. ASSUME NEW i \in 1 .. Len(os) PROVE l[i] \in HostTasks /\ l[i].op = "resize" /\ l[i].part = "system"
  <2>1. os[i] \in HostTasks /\ os[i].part = "system"
    BY <1>1
  <2>2. PICK t \in HostTasks : t = os[i]
    BY <2>1, Zenon
  <2>3. "resize" \in TaskOps
    BY TaskWords
  <2>4. l[i] = [t EXCEPT !.op = "resize"]
    BY <2>2
  <2>5. [t EXCEPT !.op = "resize"] \in HostTasks
    BY <2>3 DEF HostTasks
  <2>6. [t EXCEPT !.op = "resize"].op = "resize" /\ [t EXCEPT !.op = "resize"].part = t.part
    BY DEF HostTasks
  <2> QED BY <2>1, <2>2, <2>4, <2>5, <2>6, Zenon
<1>3. l \in Seq(HostTasks) /\ DOMAIN l = 1 .. Len(os)
  <2>1. l \in [1 .. Len(os) -> HostTasks]
    BY <1>2
  <2> QED BY <2>1, <1>1
<1>4. \A i \in DOMAIN l : Known(p, a, l[i]) /\ ~Away(l[i]) /\ ~Needs(p, l[i])
  BY <1>2, <1>3, KindFacts, Zenon
<1>5. AllKnown(p, a, l) /\ Stays(l) /\ Needless(p, l)
  BY <1>4, Zenon DEF AllKnown, Stays, Needless
<1> QED BY <1>3, <1>5, PlainLists, Zenon

\* The tasks that are the same in every list.
SuperRow == Task("super", "super", "", "")
UpdateRow == Task("update-super", "super", "", "")
\* The two tasks on super.
LEMMA FixedTasks ==
  /\ SuperRow \in HostTasks /\ SuperRow.op = "super"
  /\ UpdateRow \in HostTasks /\ UpdateRow.op = "update-super"
<1>1. /\ "super" \in TaskOps /\ "update-super" \in TaskOps /\ "super" \in TaskParts
      /\ "" \in TaskSlots /\ "" \in TaskImages
  BY TaskWords, Zenon
<1>2. PICK e, t, u : e = "" /\ t = SuperRow /\ u = UpdateRow
  OBVIOUS
<1>3. e \in TaskSlots /\ e \in TaskImages
  BY <1>1, <1>2, Zenon
<1>4. t = Task("super", "super", e, e) /\ u = Task("update-super", "super", e, e)
  BY <1>2, Zenon DEF SuperRow, UpdateRow
<1>5. "super" \in TaskOps /\ "update-super" \in TaskOps /\ "super" \in TaskParts
  BY <1>1, Zenon
<1>6. t \in HostTasks /\ t.op = "super" /\ u \in HostTasks /\ u.op = "update-super"
  BY <1>3, <1>4, <1>5, MadeTask
<1> QED BY <1>2, <1>6, Zenon

\* One of them, as a list.
LEMMA SuperList ==
  ASSUME NEW p, NEW a, p.slot # "all", NEW l, l = <<SuperRow>>
  PROVE  /\ l \in Seq(HostTasks) /\ AllKnown(p, a, l) /\ Stays(l) /\ Needless(p, l) /\ Lifted(p, l)
         /\ SystemLast(p, a, l)
<1>1. l \in Seq(HostTasks)
  BY FixedTasks
<1>2. SuperTask(p, SuperRow)
  BY FixedTasks DEF SuperTask
<1> QED BY <1>1, <1>2, KindFacts, SingleTask, Zenon

\* With a super partition, update-super has the device in userspace.
LEMMA UpdateList ==
  ASSUME NEW p, NEW a, NEW l, l = <<UpdateRow>>
  PROVE  /\ l \in Seq(HostTasks) /\ AllKnown(p, a, l) /\ Stays(l) /\ Needless(p, l) /\ Lifted(p, l)
         /\ p.superEmpty => HasLift(p, l)
<1>1. l \in Seq(HostTasks)
  BY FixedTasks
<1> QED BY <1>1, FixedTasks, KindFacts, SingleTask, Zenon

\* HardcodedFlash with the super image: no dynamic partition is left.
LEMMA SuperHalf ==
  ASSUME NEW p, NEW a, p.slot # "all", NEW k \in Seq(HostTasks), DOMAIN k = {}, NEW l, l = <<SuperRow>> \o k
  PROVE  /\ l \in Seq(HostTasks) /\ AllKnown(p, a, l) /\ Stays(l) /\ Lifted(p, l) /\ SystemLast(p, a, l)
<1>1. PICK u : u = <<SuperRow>>
  OBVIOUS
<1>2. /\ u \in Seq(HostTasks) /\ AllKnown(p, a, u) /\ Stays(u) /\ Needless(p, u) /\ Lifted(p, u)
      /\ SystemLast(p, a, u)
  BY <1>1, SuperList, Zenon
<1>3. AllKnown(p, a, k) /\ Spoilless(p, a, k) /\ Needless(p, k) /\ Stays(k) /\ Lifted(p, k)
  BY EmptyTasks, Zenon
<1>4. l = u \o k
  BY <1>1, Zenon
<1> QED BY <1>2, <1>3, <1>4, JoinedAll, Zenon

\* HardcodedFlash without it: the layout, the resizes, the images.
LEMMA LayoutHead ==
  ASSUME NEW p, NEW a, NEW rs \in Seq(HostTasks), AllKnown(p, a, rs), Stays(rs), Needless(p, rs), Lifted(p, rs),
         NEW v, v = <<UpdateRow>> \o rs
  PROVE  v \in Seq(HostTasks) /\ AllKnown(p, a, v) /\ Stays(v) /\ Lifted(p, v) /\ (p.superEmpty => HasLift(p, v))
<1>1. PICK u : u = <<UpdateRow>>
  OBVIOUS
<1>2. /\ u \in Seq(HostTasks) /\ AllKnown(p, a, u) /\ Stays(u) /\ Needless(p, u) /\ Lifted(p, u)
      /\ p.superEmpty => HasLift(p, u)
  BY <1>1, UpdateList, Zenon
<1>3. v = u \o rs
  BY <1>1, Zenon
<1> QED BY <1>2, <1>3, JoinedAll, Zenon

\* The update of super in front of what flashes into it.
LEMMA LayoutHalf ==
  ASSUME NEW p, NEW a, NEW v \in Seq(HostTasks), AllKnown(p, a, v), Stays(v), Lifted(p, v), p.superEmpty => HasLift(p, v),
         NEW os \in Seq(HostTasks), AllKnown(p, a, os), Stays(os), SystemLast(p, a, os),
         NEW l, l = v \o os
  PROVE  l \in Seq(HostTasks) /\ AllKnown(p, a, l) /\ Stays(l) /\ Lifted(p, l) /\ SystemLast(p, a, l)
<1>1. p.superEmpty \/ Lifted(p, os)
  BY Zenon DEF Lifted, Needs
<1> QED BY <1>1, JoinedAll, Zenon

\* The hardcoded list does what a main list should.
LEMMA HardcodedWorks ==
  ASSUME Settled, NEW l, l = HardcodedFlash
  PROVE  MainList(hpPlan, hpActive, l)
<1>1. PICK p, a : p = hpPlan /\ a = hpActive
  OBVIOUS
<1>2. PICK b, os : b = Collected(TRUE) \o Collected(TRUE) /\ os = Collected(FALSE) \o Collected(FALSE)
  OBVIOUS
<1>3. PICK rs : rs = [i \in 1 .. Len(os) |-> [os[i] EXCEPT !.op = "resize"]]
  OBVIOUS
<1>4. PICK K : K = {i \in DOMAIN os : ~InSuper(os[i])}
  OBVIOUS
<1>5. PICK F, k : F = [i \in DOMAIN os |-> IF i \in K THEN <<os[i]>> ELSE <<>>] /\ k = FlattenSeq(F)
  OBVIOUS
<1>6. k = Only(os, LAMBDA t : ~InSuper(t))
  <2>1. F = [i \in DOMAIN os |-> IF ~InSuper(os[i]) THEN <<os[i]>> ELSE <<>>]
    BY <1>4, <1>5
  <2> QED BY <1>5, <2>1, Zenon DEF Only
<1>7. PICK m : m = IF CanOptimise THEN <<SuperRow>> \o k ELSE (<<UpdateRow>> \o rs) \o os
  OBVIOUS
<1>8. l = b \o m
  BY <1>2, <1>3, <1>6, <1>7, Zenon DEF HardcodedFlash, SuperRow, UpdateRow
<1>9. /\ b \in Seq(HostTasks) /\ AllKnown(p, a, b) /\ Stays(b) /\ Needless(p, b)
      /\ Lifted(p, b) /\ HasBoot(p, b)
  BY <1>1, <1>2, BootHalf, Zenon
<1>10. /\ os \in Seq(HostTasks) /\ AllKnown(p, a, os) /\ Stays(os) /\ SystemLast(p, a, os)
       /\ os # <<>> /\ \A j \in DOMAIN os : Flashes(os[j]) /\ os[j].part = "system"
  BY <1>1, <1>2, SystemHalf, Zenon
<1>11. m \in Seq(HostTasks) /\ AllKnown(p, a, m) /\ Stays(m) /\ Lifted(p, m) /\ SystemLast(p, a, m)
  <2>1. CASE CanOptimise
    <3>1. p.slot # "all" /\ p.superEmpty
      BY <2>1, <1>1 DEF CanOptimise
    <3>2. \A i \in DOMAIN os : InSuper(os[i])
      BY <3>1, <1>1, <1>10, Zenon DEF InSuper, Dynamic, Flashes
    <3>3. K = {}
      BY <3>2, <1>4, Zenon
    <3>4. k \in Seq(HostTasks) /\ Picks(k, os, K, Len(os))
      BY <1>5, <1>10, OnlyPicks, Zenon
    <3>5. DOMAIN k = {}
      BY <3>3, <3>4, Zenon DEF Picks
    <3>6. m = <<SuperRow>> \o k
      BY <2>1, <1>7, Zenon
    <3> QED BY <3>1, <3>4, <3>5, <3>6, SuperHalf, Zenon
  <2>2. CASE ~CanOptimise
    <3>1. m = (<<UpdateRow>> \o rs) \o os
      BY <2>2, <1>7, Zenon
    <3>2. rs \in Seq(HostTasks) /\ AllKnown(p, a, rs) /\ Stays(rs) /\ Needless(p, rs) /\ Lifted(p, rs)
      <4>1. \A j \in DOMAIN os : os[j].part = "system"
        BY <1>10, Zenon
      <4> QED BY <4>1, <1>3, <1>10, ResizeTasks, Zenon
    <3>3. PICK v : v = <<UpdateRow>> \o rs
      OBVIOUS
    <3>4. v \in Seq(HostTasks) /\ AllKnown(p, a, v) /\ Stays(v) /\ Lifted(p, v) /\ (p.superEmpty => HasLift(p, v))
      BY <3>2, <3>3, LayoutHead, Zenon
    <3>5. m = v \o os
      BY <3>1, <3>3, Zenon
    <3> QED BY <3>4, <3>5, <1>10, LayoutHalf, Zenon
  <2> QED BY <2>1, <2>2
<1>12. /\ l \in Seq(HostTasks) /\ AllKnown(p, a, l) /\ Stays(l) /\ Lifted(p, l) /\ HasBoot(p, l)
       /\ SystemLast(p, a, l)
  BY <1>8, <1>9, <1>11, JoinedAll, Zenon
<1> QED BY <1>1, <1>12, Zenon DEF MainList

\* The list of fastboot-info.txt, by its places.
InfoList(p, a, l) ==
  /\ l \in Seq(HostTasks) /\ Len(l) >= 4
  /\ BootTask(p, l[1]) /\ l[2].op = "reboot" /\ l[2].part = "fastboot" /\ l[3].op = "update-super"
  /\ SystemTask(p, l[4])
  /\ \A i \in DOMAIN l : i > 4 => (OtherTask(p, a, l[i]) /\ p.info = "list-other") \/ l[i].op = "wipe"

\* Its first four tasks, and the two that depend on the options.
LEMMA InfoHead ==
  ASSUME NEW p \in Plans, NEW e \in TaskSlots, e \in TaskImages,
         NEW f, f = <<Task("flash", "boot", p.slot, "boot.img"), Task("reboot", "fastboot", e, e),
                      Task("update-super", "super", e, e), Task("flash", "system", p.slot, "system.img")>>
  PROVE  /\ f \in Seq(HostTasks) /\ Len(f) = 4
         /\ BootTask(p, f[1]) /\ f[2].op = "reboot" /\ f[2].part = "fastboot" /\ f[3].op = "update-super"
         /\ SystemTask(p, f[4])
<1>1. p.slot \in TaskSlots
  BY DEF Plans, TaskSlots
<1>2. PICK b, r, u, s : /\ b = Task("flash", "boot", p.slot, "boot.img") /\ r = Task("reboot", "fastboot", e, e)
                        /\ u = Task("update-super", "super", e, e) /\ s = Task("flash", "system", p.slot, "system.img")
  OBVIOUS
<1>3. f = <<b, r, u, s>>
  BY <1>2, Zenon
<1>4. /\ "flash" \in TaskOps /\ "reboot" \in TaskOps /\ "update-super" \in TaskOps
      /\ "boot" \in TaskParts /\ "fastboot" \in TaskParts /\ "super" \in TaskParts /\ "system" \in TaskParts
      /\ "boot.img" \in TaskImages /\ "system.img" \in TaskImages
  BY TaskWords
<1>5. b \in HostTasks /\ b.op = "flash" /\ b.part = "boot" /\ b.slot = p.slot /\ b.img = "boot.img"
  BY <1>1, <1>2, <1>4, MadeTask
<1>6. r \in HostTasks /\ r.op = "reboot" /\ r.part = "fastboot"
  BY <1>2, <1>4, MadeTask
<1>7. u \in HostTasks /\ u.op = "update-super"
  BY <1>2, <1>4, MadeTask
<1>8. s \in HostTasks /\ s.op = "flash" /\ s.part = "system" /\ s.slot = p.slot /\ s.img = "system.img"
  BY <1>1, <1>2, <1>4, MadeTask
<1>9. BootTask(p, b) /\ SystemTask(p, s)
  BY <1>5, <1>8 DEF BootTask, SystemTask, Flashes
<1>10. <<b, r, u, s>> \in Seq(HostTasks) /\ Len(<<b, r, u, s>>) = 4
  BY <1>5, <1>6, <1>7, <1>8
<1>11. f[1] = b /\ f[2] = r /\ f[3] = u /\ f[4] = s
  <2>1. <<b, r, u, s>>[1] = b /\ <<b, r, u, s>>[2] = r /\ <<b, r, u, s>>[3] = u /\ <<b, r, u, s>>[4] = s
    OBVIOUS
  <2> QED BY <2>1, <1>3, Zenon
<1> QED BY <1>3, <1>6, <1>7, <1>9, <1>10, <1>11, Zenon

\* The row of fastboot-info for the other slot.
LEMMA OtherRow ==
  ASSUME NEW p \in Plans, NEW a \in SlotsOf(p), SlotChecked(p), SlotActive(p, a),
         NEW x, x = IF p.info = "list-other" THEN <<Task("flash", "system", Second(p, a), "system_other.img")>> ELSE <<>>
  PROVE  x \in Seq(HostTasks) /\ \A i \in DOMAIN x : OtherTask(p, a, x[i]) /\ p.info = "list-other"
<1>1. PICK t : t = Task("flash", "system", Second(p, a), "system_other.img")
  OBVIOUS
<1>2. Second(p, a) \in TaskSlots
  BY SecondFacts DEF TaskSlots
<1>3. "flash" \in TaskOps /\ "system" \in TaskParts /\ "system_other.img" \in TaskImages
  BY TaskWords
<1>4. t \in HostTasks /\ t.op = "flash" /\ t.part = "system" /\ t.slot = Second(p, a) /\ t.img = "system_other.img"
  BY <1>1, <1>2, <1>3, MadeTask
<1>5. OtherTask(p, a, t)
  BY <1>4 DEF OtherTask, Flashes
<1>6. CASE p.info = "list-other"
  <2>1. x = <<t>>
    BY <1>1, <1>6, Zenon
  <2> QED BY <2>1, <1>4, <1>5, <1>6
<1>7. CASE p.info # "list-other"
  <2>1. x = <<>>
    BY <1>7
  <2> QED BY <2>1
<1> QED BY <1>6, <1>7

\* The row for a wipe.
LEMMA WipeRow ==
  ASSUME NEW e \in TaskSlots, e \in TaskImages, NEW x, x = <<>> \/ x = <<Task("wipe", "userdata", e, e)>>
  PROVE  x \in Seq(HostTasks) /\ \A i \in DOMAIN x : x[i].op = "wipe"
<1>1. PICK t : t = Task("wipe", "userdata", e, e)
  OBVIOUS
<1>2. "wipe" \in TaskOps /\ "userdata" \in TaskParts
  BY TaskWords
<1>3. t \in HostTasks /\ t.op = "wipe"
  BY <1>1, <1>2, MadeTask
<1>4. x = <<t>> \/ x = <<>>
  BY <1>1, Zenon
<1>5. CASE x = <<t>>
  <2>1. <<t>> \in Seq(HostTasks) /\ DOMAIN <<t>> = {1} /\ <<t>>[1] = t
    BY <1>3
  <2> QED BY <2>1, <1>3, <1>5, Zenon
<1>6. CASE x = <<>>
  <2>1. <<>> \in Seq(HostTasks) /\ DOMAIN <<>> = {}
    OBVIOUS
  <2> QED BY <2>1, <1>6, Zenon
<1> QED BY <1>4, <1>5, <1>6

\* One list after another.
IsJoin(n, l, m) == n = l \o m

Jointly(n, l, m) ==
  /\ n \in Seq(HostTasks)
  /\ DOMAIN n = 1 .. (Len(l) + Len(m)) /\ DOMAIN l = 1 .. Len(l) /\ DOMAIN m = 1 .. Len(m)
  /\ Len(l) \in Nat /\ Len(m) \in Nat /\ Len(n) = Len(l) + Len(m)
  /\ \A i \in DOMAIN l : i \in DOMAIN n /\ n[i] = l[i]
  /\ \A i \in DOMAIN n : i \in DOMAIN l \/ (i - Len(l) \in DOMAIN m /\ n[i] = m[i - Len(l)])

\* Joined lists, as one fact to cite.
LEMMA JoinedBy ==
  ASSUME NEW l \in Seq(HostTasks), NEW m \in Seq(HostTasks), NEW n, IsJoin(n, l, m)
  PROVE  Jointly(n, l, m)
<1>1. n = l \o m
  BY DEF IsJoin
<1>2. Len(n) = Len(l) + Len(m)
  BY <1>1
<1> QED BY <1>1, <1>2, Joined DEF Jointly

\* A list that starts with the four tasks of f, and goes on with tasks of x and w.
PlacesOf(l, f, x, w) ==
  /\ l \in Seq(HostTasks) /\ Len(l) >= 4
  /\ l[1] = f[1] /\ l[2] = f[2] /\ l[3] = f[3] /\ l[4] = f[4]
  /\ \A i \in DOMAIN l : i > 4 => (\E j \in DOMAIN x : l[i] = x[j]) \/ (\E j \in DOMAIN w : l[i] = w[j])

\* A list of four rows, perhaps one more, and perhaps a wipe, place by place.
LEMMA JoinedPlaces ==
  ASSUME NEW f \in Seq(HostTasks), Len(f) = 4, NEW x \in Seq(HostTasks), NEW w \in Seq(HostTasks),
         NEW m, IsJoin(m, f, x), NEW l, IsJoin(l, m, w)
  PROVE  PlacesOf(l, f, x, w)
<1>0. /\ m \in Seq(HostTasks) /\ Len(m) = Len(f) + Len(x) /\ Len(x) \in Nat /\ DOMAIN f = 1 .. Len(f)
      /\ \A i \in DOMAIN f : i \in DOMAIN m /\ m[i] = f[i]
      /\ \A i \in DOMAIN m : i \in DOMAIN f \/ (i - Len(f) \in DOMAIN x /\ m[i] = x[i - Len(f)])
  <2>1. Jointly(m, f, x)
    BY JoinedBy, Zenon
  <2> QED BY <2>1, Zenon DEF Jointly
<1>1. /\ m \in Seq(HostTasks) /\ Len(m) = 4 + Len(x) /\ Len(x) \in Nat /\ DOMAIN f = 1 .. 4
      /\ \A i \in DOMAIN f : i \in DOMAIN m /\ m[i] = f[i]
      /\ \A i \in DOMAIN m : i \in DOMAIN f \/ (i - 4 \in DOMAIN x /\ m[i] = x[i - 4])
  <2>1. PICK k : k = Len(f)
    OBVIOUS
  <2>2. k = 4
    BY <2>1
  <2>3. /\ m \in Seq(HostTasks) /\ Len(m) = k + Len(x) /\ Len(x) \in Nat /\ DOMAIN f = 1 .. k
        /\ \A i \in DOMAIN f : i \in DOMAIN m /\ m[i] = f[i]
        /\ \A i \in DOMAIN m : i \in DOMAIN f \/ (i - k \in DOMAIN x /\ m[i] = x[i - k])
    BY <1>0, <2>1, Zenon
  <2> QED BY <2>2, <2>3, Zenon
<1>2. /\ l \in Seq(HostTasks) /\ Len(l) = Len(m) + Len(w) /\ Len(w) \in Nat
      /\ \A i \in DOMAIN m : i \in DOMAIN l /\ l[i] = m[i]
      /\ \A i \in DOMAIN l : i \in DOMAIN m \/ (i - Len(m) \in DOMAIN w /\ l[i] = w[i - Len(m)])
  <2>1. m \in Seq(HostTasks)
    BY <1>1, Zenon
  <2>2. Jointly(l, m, w)
    BY <2>1, JoinedBy, Zenon
  <2> QED BY <2>2, Zenon DEF Jointly
<1>3. Len(l) >= 4
  BY <1>1, <1>2
<1>4. l[1] = f[1] /\ l[2] = f[2] /\ l[3] = f[3] /\ l[4] = f[4]
  <2>1. ASSUME NEW i \in DOMAIN f PROVE l[i] = f[i]
    <3>1. i \in DOMAIN m /\ m[i] = f[i]
      BY <1>1, <2>1, Zenon
    <3>2. l[i] = m[i]
      BY <1>2, <3>1, Zenon
    <3> QED BY <3>1, <3>2, Zenon
  <2>2. DOMAIN f = 1 .. 4
    BY <1>1, Zenon
  <2>3. 1 \in DOMAIN f /\ 2 \in DOMAIN f /\ 3 \in DOMAIN f /\ 4 \in DOMAIN f
    BY ONLY <2>2
  <2> QED BY <2>1, <2>3, Zenon
<1>5. ASSUME NEW i \in DOMAIN l, i > 4 PROVE (\E j \in DOMAIN x : l[i] = x[j]) \/ (\E j \in DOMAIN w : l[i] = w[j])
  <2>1. i \notin DOMAIN f
    BY <1>1, <1>5
  <2>2. CASE i \in DOMAIN m
    <3>1. i - 4 \in DOMAIN x /\ m[i] = x[i - 4] /\ l[i] = m[i]
      BY <2>1, <2>2, <1>1, <1>2, Zenon
    <3>2. l[i] = x[i - 4]
      BY <3>1, Zenon
    <3> QED BY <3>1, <3>2, Zenon
  <2>3. CASE i \notin DOMAIN m
    <3>1. i - Len(m) \in DOMAIN w /\ l[i] = w[i - Len(m)]
      BY <2>3, <1>2, Zenon
    <3> QED BY <3>1, Zenon
  <2> QED BY <2>2, <2>3
<1> QED BY <1>2, <1>3, <1>4, <1>5, Zenon DEF PlacesOf

\* What fastboot-info.txt gives is such a list.
LEMMA InfoIsList ==
  ASSUME Settled, NEW l, l = InfoTasks
  PROVE  InfoList(hpPlan, hpActive, l)
<1>1. PICK p, a : p = hpPlan /\ a = hpActive
  OBVIOUS
<1>2. PICK f, e : /\ e = ""
                  /\ f = <<Task("flash", "boot", p.slot, "boot.img"), Task("reboot", "fastboot", e, e),
                           Task("update-super", "super", e, e), Task("flash", "system", p.slot, "system.img")>>
  OBVIOUS
<1>3. PICK x : x = IF p.info = "list-other" THEN <<Task("flash", "system", Second(p, a), "system_other.img")>> ELSE <<>>
  OBVIOUS
<1>4. PICK w : w = IF p.wipe THEN <<Task("wipe", "userdata", e, e)>> ELSE <<>>
  OBVIOUS
<1>5. PICK m : m = f \o x
  OBVIOUS
<1>6. l = m \o w
  <2>1. SecondarySlot = Second(p, a)
    BY <1>1, Zenon DEF SecondarySlot, Second
  <2> QED BY <1>1, <1>2, <1>3, <1>4, <1>5, <2>1, Zenon DEF InfoTasks
<1>7. p \in Plans /\ a \in SlotsOf(p) /\ SlotChecked(p) /\ SlotActive(p, a)
  BY <1>1, Zenon DEF Settled
<1>8. /\ f \in Seq(HostTasks) /\ Len(f) = 4
      /\ BootTask(p, f[1]) /\ f[2].op = "reboot" /\ f[2].part = "fastboot" /\ f[3].op = "update-super"
      /\ SystemTask(p, f[4])
  <2>1. e \in TaskSlots /\ e \in TaskImages
    BY <1>2, TaskWords, Zenon
  <2> QED BY <2>1, <1>2, <1>7, InfoHead, ZenonT(60)
<1>9. x \in Seq(HostTasks) /\ \A i \in DOMAIN x : OtherTask(p, a, x[i]) /\ p.info = "list-other"
  BY <1>3, <1>7, OtherRow, Zenon
<1>10. w \in Seq(HostTasks) /\ \A i \in DOMAIN w : w[i].op = "wipe"
  <2>1. e \in TaskSlots /\ e \in TaskImages
    BY <1>2, TaskWords, Zenon
  <2>2. w = <<>> \/ w = <<Task("wipe", "userdata", e, e)>>
    BY <1>4, Zenon
  <2> QED BY <2>1, <2>2, WipeRow, Zenon
<1>11. /\ l \in Seq(HostTasks) /\ Len(l) >= 4
       /\ l[1] = f[1] /\ l[2] = f[2] /\ l[3] = f[3] /\ l[4] = f[4]
       /\ \A i \in DOMAIN l : i > 4 => (\E j \in DOMAIN x : l[i] = x[j]) \/ (\E j \in DOMAIN w : l[i] = w[j])
  <2>1. IsJoin(m, f, x) /\ IsJoin(l, m, w)
    BY <1>5, <1>6, Zenon DEF IsJoin
  <2>2. f \in Seq(HostTasks) /\ Len(f) = 4 /\ x \in Seq(HostTasks) /\ w \in Seq(HostTasks)
    BY <1>8, <1>9, <1>10, Zenon
  <2>3. PlacesOf(l, f, x, w)
    BY <2>1, <2>2, JoinedPlaces, Zenon
  <2> QED BY <2>3, Zenon DEF PlacesOf
<1>12. \A i \in DOMAIN l : i > 4 => (OtherTask(p, a, l[i]) /\ p.info = "list-other") \/ l[i].op = "wipe"
  BY <1>9, <1>10, <1>11, Zenon
<1> QED BY <1>1, <1>8, <1>11, <1>12, Zenon DEF InfoList

\* Every place of it is one of these.
LEMMA InfoPlaces ==
  ASSUME NEW p, NEW a, NEW l, InfoList(p, a, l)
  PROVE  /\ l \in Seq(HostTasks) /\ l # <<>> /\ Len(l) \in Nat /\ DOMAIN l = 1 .. Len(l)
         /\ 1 \in 1 .. Len(l) /\ 2 \in 1 .. Len(l) /\ 3 \in 1 .. Len(l) /\ 4 \in 1 .. Len(l)
         /\ \A i \in 1 .. Len(l) : i = 1 \/ i = 2 \/ i = 3 \/ i = 4 \/ i > 4
<1>1. l \in Seq(HostTasks) /\ Len(l) >= 4
  BY Zenon DEF InfoList
<1>2. Len(l) \in Nat /\ DOMAIN l = 1 .. Len(l)
  BY <1>1
<1>3. l # <<>>
  BY <1>1
<1>4. 1 \in 1 .. Len(l) /\ 2 \in 1 .. Len(l) /\ 3 \in 1 .. Len(l) /\ 4 \in 1 .. Len(l)
  BY <1>1, <1>2
<1>5. \A i \in 1 .. Len(l) : i = 1 \/ i = 2 \/ i = 3 \/ i = 4 \/ i > 4
  BY <1>2
<1> QED BY <1>1, <1>2, <1>3, <1>4, <1>5, Zenon

\* A list cut in two.
StartsOf(s, x, k) == Len(x) = k /\ \A j \in 1 .. k : x[j] = s[j]

\* A list, cut at a place.
LEMMA CutInTwo ==
  ASSUME NEW S, NEW s \in Seq(S), NEW i \in 1 .. Len(s) + 1,
         NEW x, x = SubSeq(s, 1, i - 1), NEW y, y = SubSeq(s, i, Len(s))
  PROVE  x \in Seq(S) /\ y \in Seq(S) /\ IsJoin(s, x, y) /\ StartsOf(s, x, i - 1)
<1>1. Len(s) \in Nat /\ i - 1 \in 0 .. Len(s) /\ i - 1 \in Nat
  OBVIOUS
<1>2. x \in Seq(S) /\ Len(x) = i - 1 /\ \A j \in 1 .. i - 1 : x[j] = s[j]
  BY <1>1
<1>3. y \in Seq(S)
  BY <1>1
<1>4. PICK k, n : k = i - 1 /\ n = Len(s)
  OBVIOUS
<1>5. k + 1 = i /\ k \in 1 - 1 .. n /\ n \in 1 - 1 .. Len(s) /\ 1 \in 1 .. Len(s) + 1
  BY <1>1, <1>4
<1>6. SubSeq(s, 1, k) \o SubSeq(s, k + 1, n) = SubSeq(s, 1, n)
  BY <1>5, ConcatAdjacentSubSeq
<1>7. SubSeq(s, 1, Len(s)) = s
  BY SubSeqFull
<1>8. x \o y = s
  BY <1>4, <1>5, <1>6, <1>7, Zenon
<1>9. IsJoin(s, x, y)
  BY <1>8, Zenon DEF IsJoin
<1> QED BY <1>2, <1>3, <1>9, Zenon DEF StartsOf

\* The super image put anywhere in a list of boot tasks.
LEMMA SuperBetween ==
  ASSUME NEW p, NEW a, p.slot # "all", NEW s \in Seq(HostTasks), NEW x \in Seq(HostTasks), NEW y \in Seq(HostTasks),
         IsJoin(s, x, y), AllKnown(p, a, s), Stays(s), Needless(p, s), Spoilless(p, a, s), HasBoot(p, s),
         NEW v, IsJoin(v, x, <<SuperRow>>), NEW n, IsJoin(n, v, y)
  PROVE  MainList(p, a, n)
<1>1. /\ AllKnown(p, a, x) /\ Stays(x) /\ Needless(p, x)
      /\ AllKnown(p, a, y) /\ Stays(y) /\ Needless(p, y) /\ Spoilless(p, a, y)
      /\ HasBoot(p, x) \/ HasBoot(p, y)
  <2>1. s = x \o y
    BY DEF IsJoin
  <2> QED BY <2>1, JoinedAll, Zenon
<1>2. PICK u : u = <<SuperRow>>
  OBVIOUS
<1>3. /\ u \in Seq(HostTasks) /\ AllKnown(p, a, u) /\ Stays(u) /\ Needless(p, u) /\ Lifted(p, u)
      /\ SystemLast(p, a, u)
  BY <1>2, SuperList, Zenon
<1>4. Lifted(p, x) /\ Lifted(p, y)
  BY <1>1, PlainLists, Zenon
<1>5. /\ v \in Seq(HostTasks) /\ AllKnown(p, a, v) /\ Stays(v) /\ Lifted(p, v) /\ SystemLast(p, a, v)
      /\ HasBoot(p, x) => HasBoot(p, v)
  <2>1. v = x \o u
    BY <1>2, Zenon DEF IsJoin
  <2> QED BY <2>1, <1>1, <1>3, <1>4, JoinedAll, Zenon
<1>6. /\ n \in Seq(HostTasks) /\ AllKnown(p, a, n) /\ Stays(n) /\ Lifted(p, n) /\ SystemLast(p, a, n)
      /\ HasBoot(p, n)
  <2>1. n = v \o y
    BY DEF IsJoin
  <2> QED BY <2>1, <1>1, <1>4, <1>5, JoinedAll, Zenon
<1> QED BY <1>6, Zenon DEF MainList

\* What InitializeFromTasks keeps: the boot images and the wipes.
LEMMA KeptOfInfo ==
  ASSUME NEW p, NEW a, p = hpPlan, p.superEmpty, NEW l, InfoList(p, a, l),
         NEW K, K = {i \in DOMAIN l : ~InSuper(l[i]) /\ l[i].op \notin {"update-super", "reboot"}}
  PROVE  /\ 1 \in K /\ BootTask(p, l[1])
         /\ \A i \in K : BootTask(p, l[i]) \/ l[i].op = "wipe"
<1>1. /\ Len(l) \in Nat /\ DOMAIN l = 1 .. Len(l) /\ 1 \in 1 .. Len(l)
      /\ \A i \in 1 .. Len(l) : i = 1 \/ i = 2 \/ i = 3 \/ i = 4 \/ i > 4
  BY InfoPlaces, Zenon
<1>2. /\ BootTask(p, l[1]) /\ l[2].op = "reboot" /\ l[3].op = "update-super" /\ SystemTask(p, l[4])
      /\ \A i \in DOMAIN l : i > 4 => (OtherTask(p, a, l[i]) /\ p.info = "list-other") \/ l[i].op = "wipe"
  BY Zenon DEF InfoList
<1>3. 1 \in K
  <2>1. l[1].part = "boot" /\ (l[1].op = "image" \/ l[1].op = "flash")
    BY <1>2 DEF BootTask, Flashes
  <2>2. l[1].part # "system" /\ l[1].op \notin {"update-super", "reboot"}
    BY <2>1
  <2> QED BY <1>1, <2>2, Zenon DEF InSuper, Dynamic
<1>4. ASSUME NEW t, SystemTask(p, t) \/ OtherTask(p, a, t) PROVE InSuper(t)
  BY <1>4, Zenon DEF SystemTask, OtherTask, Flashes, InSuper, Dynamic
<1>5. ASSUME NEW i \in K PROVE BootTask(p, l[i]) \/ l[i].op = "wipe"
  <2>1. i \in DOMAIN l /\ ~InSuper(l[i]) /\ l[i].op \notin {"update-super", "reboot"}
    BY Zenon
  <2>2. i # 2 /\ i # 3 /\ i # 4
    BY <2>1, <1>2, <1>4, Zenon
  <2>3. i = 1 \/ i > 4
    BY <1>1, <2>1, <2>2, Zenon
  <2> QED BY <2>1, <2>3, <1>2, <1>4, Zenon
<1> QED BY <1>2, <1>3, <1>5, Zenon

\* The task of the super image among the ones it keeps.
SuperPlace(s, W) == IF W = {} THEN Len(s) + 1 ELSE CHOOSE i \in W : \A j \in W : i <= j
SuperAt(s, at) == SubSeq(s, 1, at - 1) \o <<SuperRow>> \o SubSeq(s, at, Len(s))
SuperAmong(s) == SuperAt(s, SuperPlace(s, {i \in 1 .. Len(s) : s[i].op = "wipe"}))

\* The optimised list does what a main list should.
LEMMA WithSuperWorks ==
  ASSUME CanOptimise, NEW l, InfoList(hpPlan, hpActive, l), NEW n, n = WithSuper(l)
  PROVE  MainList(hpPlan, hpActive, n)
<1>1. PICK p, a : p = hpPlan /\ a = hpActive
  OBVIOUS
<1>2. p.superEmpty /\ p.slot # "all"
  BY <1>1 DEF CanOptimise
<1>3. InfoList(p, a, l)
  BY <1>1, Zenon
<1>4. l \in Seq(HostTasks) /\ l # <<>> /\ DOMAIN l = 1 .. Len(l)
  BY <1>3, InfoPlaces, Zenon
<1>5. PICK K : K = {i \in DOMAIN l : ~InSuper(l[i]) /\ l[i].op \notin {"update-super", "reboot"}}
  OBVIOUS
<1>6. PICK F, s : F = [i \in DOMAIN l |-> IF i \in K THEN <<l[i]>> ELSE <<>>] /\ s = FlattenSeq(F)
  OBVIOUS
<1>7. s = Only(l, LAMBDA t : ~InSuper(t) /\ t.op \notin {"update-super", "reboot"})
  <2>1. F = [i \in DOMAIN l |-> IF ~InSuper(l[i]) /\ l[i].op \notin {"update-super", "reboot"} THEN <<l[i]>> ELSE <<>>]
    BY <1>5, <1>6
  <2> QED BY <1>6, <2>1, Zenon DEF Only
<1>8. s \in Seq(HostTasks) /\ Picks(s, l, K, Len(l))
  BY <1>4, <1>6, OnlyPicks, Zenon
<1>9. 1 \in K /\ BootTask(p, l[1]) /\ \A i \in K : BootTask(p, l[i]) \/ l[i].op = "wipe"
  BY <1>1, <1>2, <1>3, <1>5, KeptOfInfo, Zenon
<1>10. /\ \A j \in DOMAIN s : BootTask(p, s[j]) \/ s[j].op = "wipe"
       /\ \E j \in DOMAIN s : BootTask(p, s[j])
  <2>1. 1 \in 1 .. Len(l)
    BY <1>3, InfoPlaces, Zenon
  <2>2. /\ \A j \in DOMAIN s : \E i \in 1 .. Len(l) : i \in K /\ s[j] = l[i]
        /\ \E j \in DOMAIN s : s[j] = l[1]
    BY <2>1, <1>8, <1>9, Zenon DEF Picks
  <2> QED BY <2>2, <1>9, ZenonT(60)
<1>11. AllKnown(p, a, s) /\ Stays(s) /\ Needless(p, s) /\ Spoilless(p, a, s) /\ HasBoot(p, s)
  <2>1. \A j \in DOMAIN s : Known(p, a, s[j]) /\ ~Away(s[j]) /\ ~Needs(p, s[j]) /\ ~Spoils(p, a, s[j])
    BY <1>10, KindFacts, Zenon
  <2> QED BY <2>1, <1>10, Zenon DEF AllKnown, Stays, Needless, Spoilless, HasBoot
<1>12. PICK W : W = {i \in 1 .. Len(s) : s[i].op = "wipe"}
  OBVIOUS
<1>13. PICK at : at = IF W = {} THEN Len(s) + 1 ELSE CHOOSE i \in W : \A j \in W : i <= j
  OBVIOUS
<1>14. at \in 1 .. Len(s) + 1
  <2>1. Len(s) \in Nat /\ W \subseteq 1 .. Len(s)
    BY <1>8, <1>12
  <2>2. CASE W = {}
    BY <2>1, <2>2, <1>13
  <2>3. CASE W # {}
    <3>1. W \in SUBSET Nat
      BY <2>1
    <3>2. \E i \in W : \A j \in W : i <= j
      BY <3>1, <2>3, LeastElement, Zenon
    <3>3. at \in W
      BY <3>2, <2>3, <1>13, Zenon
    <3> QED BY <3>3, <2>1
  <2> QED BY <2>2, <2>3
<1>15. PICK x, y, v : x = SubSeq(s, 1, at - 1) /\ y = SubSeq(s, at, Len(s)) /\ v = x \o <<SuperRow>>
  OBVIOUS
<1>16. n = v \o y
  <2>1. n = SuperAmong(Only(l, LAMBDA t : ~InSuper(t) /\ t.op \notin {"update-super", "reboot"}))
    BY Zenon DEF WithSuper, SuperAmong, SuperAt, SuperPlace, SuperRow
  <2>2. n = SuperAmong(s)
    BY <2>1, <1>7, Zenon
  <2>3. n = SuperAt(s, SuperPlace(s, W))
    BY <2>2, <1>12, Zenon DEF SuperAmong
  <2>4. n = SuperAt(s, at)
    BY <2>3, <1>13, Zenon DEF SuperPlace
  <2> QED BY <2>4, <1>15, Zenon DEF SuperAt
<1>17. x \in Seq(HostTasks) /\ y \in Seq(HostTasks) /\ IsJoin(s, x, y)
  BY <1>8, <1>14, <1>15, CutInTwo, Zenon
<1>18. IsJoin(v, x, <<SuperRow>>) /\ IsJoin(n, v, y)
  BY <1>15, <1>16, Zenon DEF IsJoin
<1>19. MainList(p, a, n)
  BY <1>2, <1>8, <1>11, <1>17, <1>18, SuperBetween, Zenon
<1> QED BY <1>1, <1>19, Zenon

\* The list of fastboot-info.txt does what it has to as it stands.
LEMMA InfoWorks ==
  ASSUME NEW p, NEW a, NEW l, InfoList(p, a, l)
  PROVE  MainList(p, a, l)
<1>1. /\ l \in Seq(HostTasks) /\ DOMAIN l = 1 .. Len(l)
      /\ 1 \in 1 .. Len(l) /\ 2 \in 1 .. Len(l) /\ 3 \in 1 .. Len(l) /\ 4 \in 1 .. Len(l)
      /\ \A i \in 1 .. Len(l) : i = 1 \/ i = 2 \/ i = 3 \/ i = 4 \/ i > 4
  BY InfoPlaces, Zenon
<1>2. /\ BootTask(p, l[1]) /\ l[2].op = "reboot" /\ l[2].part = "fastboot" /\ l[3].op = "update-super"
      /\ SystemTask(p, l[4])
      /\ \A i \in DOMAIN l : i > 4 => (OtherTask(p, a, l[i]) /\ p.info = "list-other") \/ l[i].op = "wipe"
  BY Zenon DEF InfoList
<1>3. /\ Known(p, a, l[1]) /\ ~Away(l[1]) /\ ~Needs(p, l[1])
      /\ Known(p, a, l[2]) /\ ~Away(l[2]) /\ ~Needs(p, l[2]) /\ Lifts(p, l[2])
      /\ Known(p, a, l[3]) /\ ~Away(l[3]) /\ ~Needs(p, l[3])
      /\ Known(p, a, l[4]) /\ ~Away(l[4]) /\ Writes(p, l[4])
  BY <1>2, KindFacts, Zenon
<1>4. ASSUME NEW i \in DOMAIN l, i > 4 PROVE Known(p, a, l[i]) /\ ~Away(l[i])
  <2>1. OtherTask(p, a, l[i]) \/ l[i].op = "wipe"
    BY <1>2, <1>4, Zenon
  <2> QED BY <2>1, KindFacts, Zenon
<1>5. AllKnown(p, a, l) /\ Stays(l)
  BY <1>1, <1>3, <1>4, Zenon DEF AllKnown, Stays
<1>6. HasBoot(p, l)
  BY <1>1, <1>2, Zenon DEF HasBoot
<1>7. Lifted(p, l)
  <2>1. SUFFICES ASSUME NEW i \in DOMAIN l, Needs(p, l[i]) PROVE \E j \in DOMAIN l : j < i /\ Lifts(p, l[j])
    BY Zenon DEF Lifted
  <2>2. i = 4 \/ i > 4
    BY <1>1, <1>3, <2>1, Zenon
  <2>3. 2 < i
    <3>1. i \in Int
      BY <1>1, <2>1
    <3> QED BY <2>2, <3>1
  <2> QED BY <2>3, <1>1, <1>3, Zenon
<1>8. Excepted(p, a) \/ SystemLast(p, a, l)
  <2>1. SUFFICES ASSUME ~Excepted(p, a) PROVE SystemLast(p, a, l)
    OBVIOUS
  <2>2. ASSUME NEW j \in DOMAIN l, 4 < j PROVE ~Spoils(p, a, l[j])
    <3>1. j > 4
      BY <2>2, <1>1
    <3>2. (OtherTask(p, a, l[j]) /\ p.info = "list-other") \/ l[j].op = "wipe"
      BY <3>1, <1>2, <2>2, Zenon
    <3>3. p.info = "list-other" => Second(p, a) # ""
      BY <2>1, Zenon DEF Excepted
    <3> QED BY <3>2, <3>3, KindFacts, Zenon
  <2> QED BY <2>2, <1>1, <1>3, Zenon DEF SystemLast
<1> QED BY <1>1, <1>5, <1>6, <1>7, <1>8, Zenon DEF MainList

\* The resizes go between the layout and the first dynamic partition.
LEMMA ResizeBetween ==
  ASSUME NEW p, NEW a, NEW l, InfoList(p, a, l), NEW x \in Seq(HostTasks), NEW y \in Seq(HostTasks),
         IsJoin(l, x, y), Len(x) = 3, x[1] = l[1], x[2] = l[2], x[3] = l[3],
         NEW rs \in Seq(HostTasks), AllKnown(p, a, rs), Stays(rs),
         Lifted(p, rs), NEW v, IsJoin(v, x, rs), NEW n, IsJoin(n, v, y)
  PROVE  MainList(p, a, n)
<1>1. /\ l \in Seq(HostTasks) /\ AllKnown(p, a, l) /\ Stays(l) /\ Lifted(p, l) /\ HasBoot(p, l)
      /\ Excepted(p, a) \/ SystemLast(p, a, l)
  <2>1. MainList(p, a, l)
    BY InfoWorks, Zenon
  <2> QED BY <2>1, Zenon DEF MainList
<1>2. /\ AllKnown(p, a, x) /\ Stays(x) /\ Lifted(p, x) /\ AllKnown(p, a, y) /\ Stays(y)
      /\ HasBoot(p, x) \/ HasBoot(p, y)
      /\ SystemLast(p, a, l) => SystemLast(p, a, y) \/ SystemLast(p, a, x)
  <2>1. l = x \o y
    BY DEF IsJoin
  <2> QED BY <2>1, <1>1, JoinedAll, Zenon
<1>3. DOMAIN x = 1 .. 3
  OBVIOUS
<1>4. 2 \in DOMAIN x /\ \A i \in DOMAIN x : i = 1 \/ i = 2 \/ i = 3
  BY ONLY <1>3
<1>5. BootTask(p, x[1]) /\ x[2].op = "reboot" /\ x[2].part = "fastboot" /\ x[3].op = "update-super"
  <2>1. BootTask(p, l[1]) /\ l[2].op = "reboot" /\ l[2].part = "fastboot" /\ l[3].op = "update-super"
    BY Zenon DEF InfoList
  <2> QED BY <2>1, Zenon
<1>6. HasLift(p, x)
  BY <1>4, <1>5, KindFacts, Zenon DEF HasLift
<1>7. ~SystemLast(p, a, x)
  <2>1. ~Writes(p, x[1])
    <3>1. x[1].part = "boot" /\ (x[1].op = "image" \/ x[1].op = "flash")
      BY <1>5 DEF BootTask, Flashes
    <3>2. x[1].part # "system" /\ x[1].op # "super"
      BY <3>1
    <3> QED BY <3>2, Zenon DEF Writes, SystemTask, SuperTask
  <2>2. ~Writes(p, x[2]) /\ ~Writes(p, x[3])
    <3>1. x[2].op \notin {"image", "flash"} /\ x[2].op # "super" /\ x[3].op \notin {"image", "flash"} /\ x[3].op # "super"
      BY <1>5
    <3> QED BY <3>1, Zenon DEF Writes, SystemTask, SuperTask, Flashes
  <2> QED BY <2>1, <2>2, <1>4, Zenon DEF SystemLast
<1>8. /\ v \in Seq(HostTasks) /\ AllKnown(p, a, v) /\ Stays(v) /\ Lifted(p, v) /\ HasLift(p, v)
      /\ HasBoot(p, x) => HasBoot(p, v)
  <2>1. v = x \o rs
    BY DEF IsJoin
  <2> QED BY <2>1, <1>2, <1>6, JoinedAll, Zenon
<1>9. /\ n \in Seq(HostTasks) /\ AllKnown(p, a, n) /\ Stays(n) /\ Lifted(p, n) /\ HasBoot(p, n)
      /\ SystemLast(p, a, y) => SystemLast(p, a, n)
  <2>1. n = v \o y
    BY DEF IsJoin
  <2> QED BY <2>1, <1>2, <1>8, JoinedAll, Zenon
<1> QED BY <1>1, <1>2, <1>7, <1>9, Zenon DEF MainList

\* Which places AddResizeTasks picks, and the first of them.
DynPlaces(l) == {i \in DOMAIN l : InSuper(l[i])}
FirstDyn(l) == CHOOSE i \in 1 .. Len(l) : InSuper(l[i]) /\ \A j \in 1 .. (i - 1) : ~InSuper(l[j])

\* The dynamic partitions of a list from fastboot-info, and where the first one is.
LEMMA DynOfInfo ==
  ASSUME NEW p, NEW a, p = hpPlan, NEW l, InfoList(p, a, l)
  PROVE  /\ \A i \in DynPlaces(l) : l[i].part = "system"
         /\ DynPlaces(l) # {} => FirstDyn(l) = 4
<1>1. /\ Len(l) \in Nat /\ DOMAIN l = 1 .. Len(l)
      /\ 4 \in 1 .. Len(l)
      /\ \A i \in 1 .. Len(l) : i = 1 \/ i = 2 \/ i = 3 \/ i = 4 \/ i > 4
  BY InfoPlaces, Zenon
<1>2. /\ BootTask(p, l[1]) /\ l[2].op = "reboot" /\ l[3].op = "update-super" /\ SystemTask(p, l[4])
  BY Zenon DEF InfoList
<1>3. \A i \in DynPlaces(l) : l[i].part = "system" /\ p.superEmpty
  BY Zenon DEF DynPlaces, InSuper, Dynamic
<1>4. ~InSuper(l[1]) /\ ~InSuper(l[2]) /\ ~InSuper(l[3])
  <2>1. l[1].part = "boot"
    BY <1>2 DEF BootTask
  <2>2. l[1].part # "system" /\ l[2].op \notin {"image", "flash"} /\ l[3].op \notin {"image", "flash"}
    BY <2>1, <1>2
  <2> QED BY <2>2, Zenon DEF InSuper, Dynamic
<1>5. ASSUME DynPlaces(l) # {} PROVE FirstDyn(l) = 4
  <2>1. p.superEmpty
    BY <1>3, <1>5, Zenon
  <2>2. InSuper(l[4])
    BY <2>1, <1>2, Zenon DEF SystemTask, Flashes, InSuper, Dynamic
  <2>3. \A j \in 1 .. (4 - 1) : j = 1 \/ j = 2 \/ j = 3
    OBVIOUS
  <2>4. InSuper(l[4]) /\ \A j \in 1 .. (4 - 1) : ~InSuper(l[j])
    BY <2>2, <2>3, <1>4, Zenon
  <2>5. PICK f : f = FirstDyn(l)
    OBVIOUS
  <2>6. f \in 1 .. Len(l) /\ InSuper(l[f]) /\ \A j \in 1 .. (f - 1) : ~InSuper(l[j])
    BY <2>4, <2>5, <1>1, Zenon DEF FirstDyn
  <2>7. f = 4 \/ f > 4
    BY <2>6, <1>1, <1>4, Zenon
  <2>8. f > 4 => 4 \in 1 .. (f - 1)
    BY <2>6, <1>1
  <2> QED BY <2>2, <2>5, <2>6, <2>7, <2>8, Zenon
<1> QED BY <1>3, <1>5, Zenon

\* The resizes put in front of them.
LEMMA ResizeRows ==
  ASSUME NEW p \in Plans, NEW a, NEW e \in TaskImages, NEW d \in Seq(HostTasks), \A j \in DOMAIN d : d[j].part = "system",
         NEW l, l = [i \in 1 .. Len(d) |-> Task("resize", d[i].part, p.slot, e)]
  PROVE  l \in Seq(HostTasks) /\ AllKnown(p, a, l) /\ Stays(l) /\ Lifted(p, l)
<1>1. Len(d) \in Nat /\ DOMAIN d = 1 .. Len(d)
  OBVIOUS
<1>2. p.slot \in TaskSlots
  BY DEF Plans, TaskSlots
<1>3. "resize" \in TaskOps /\ "system" \in TaskParts
  BY TaskWords
<1>4. PICK t : t = Task("resize", "system", p.slot, e)
  OBVIOUS
<1>5. t \in HostTasks /\ t.op = "resize" /\ t.part = "system"
  BY <1>2, <1>3, <1>4, MadeTask
<1>6. ASSUME NEW i \in 1 .. Len(d) PROVE l[i] = t
  <2>1. l[i] = Task("resize", d[i].part, p.slot, e)
    BY Zenon
  <2>2. d[i].part = "system"
    BY <1>1, Zenon
  <2> QED BY <2>1, <2>2, <1>4, Zenon
<1>7. l \in Seq(HostTasks) /\ DOMAIN l = 1 .. Len(d)
  <2>1. l \in [1 .. Len(d) -> HostTasks]
    BY <1>5, <1>6
  <2> QED BY <2>1, <1>1
<1>8. \A i \in DOMAIN l : Known(p, a, l[i]) /\ ~Away(l[i]) /\ ~Needs(p, l[i])
  BY <1>5, <1>6, <1>7, KindFacts, Zenon
<1>9. AllKnown(p, a, l) /\ Stays(l) /\ Needless(p, l)
  BY <1>8, Zenon DEF AllKnown, Stays, Needless
<1> QED BY <1>7, <1>9, PlainLists, Zenon

\* AddResizeTasks on the tasks d it picked from l.
ResizedAt(l, d, f) ==
  SubSeq(l, 1, f - 1) \o [i \in 1 .. Len(d) |-> Task("resize", d[i].part, hpPlan.slot, "")] \o SubSeq(l, f, Len(l))
ResizedBy(l, d) == IF d = <<>> THEN l ELSE ResizedAt(l, d, FirstDyn(l))

\* With them the list does what a main list should.
LEMMA ResizedWorks ==
  ASSUME Settled, NEW l, InfoList(hpPlan, hpActive, l), FirstDyn(l) = 4,
         NEW d \in Seq(HostTasks), \A j \in DOMAIN d : d[j].part = "system", NEW n, n = ResizedAt(l, d, FirstDyn(l))
  PROVE  MainList(hpPlan, hpActive, n)
<1>1. PICK p, a, e : p = hpPlan /\ a = hpActive /\ e = ""
  OBVIOUS
<1>2. InfoList(p, a, l) /\ p \in Plans /\ e \in TaskImages
  BY <1>1, TaskWords, Zenon DEF Settled
<1>3. l \in Seq(HostTasks) /\ Len(l) \in Nat /\ 4 \in 1 .. Len(l)
  BY <1>2, InfoPlaces, Zenon
<1>4. PICK rs : rs = [i \in 1 .. Len(d) |-> Task("resize", d[i].part, p.slot, e)]
  OBVIOUS
<1>5. PICK x, y, v : x = SubSeq(l, 1, 4 - 1) /\ y = SubSeq(l, 4, Len(l)) /\ v = x \o rs
  OBVIOUS
<1>6. n = v \o y
  BY <1>1, <1>4, <1>5, Zenon DEF ResizedAt
<1>7. rs \in Seq(HostTasks) /\ AllKnown(p, a, rs) /\ Stays(rs) /\ Lifted(p, rs)
  BY <1>2, <1>4, ResizeRows, Zenon
<1>8. /\ x \in Seq(HostTasks) /\ y \in Seq(HostTasks) /\ IsJoin(l, x, y) /\ Len(x) = 4 - 1
      /\ \A j \in 1 .. 4 - 1 : x[j] = l[j]
  <2>1. PICK k : k = 4
    OBVIOUS
  <2>2. k \in 1 .. Len(l) + 1
    BY <1>3, <2>1
  <2>3. x = SubSeq(l, 1, k - 1) /\ y = SubSeq(l, k, Len(l))
    BY <1>5, <2>1, Zenon
  <2>4. x \in Seq(HostTasks) /\ y \in Seq(HostTasks) /\ IsJoin(l, x, y) /\ StartsOf(l, x, k - 1)
    BY <2>2, <2>3, <1>3, CutInTwo, Zenon
  <2> QED BY <2>1, <2>4, Zenon DEF StartsOf
<1>9. Len(x) = 3 /\ x[1] = l[1] /\ x[2] = l[2] /\ x[3] = l[3]
  <2>1. 4 - 1 = 3 /\ 1 \in 1 .. 4 - 1 /\ 2 \in 1 .. 4 - 1 /\ 3 \in 1 .. 4 - 1
    OBVIOUS
  <2> QED BY <2>1, <1>8, Zenon
<1>10. IsJoin(v, x, rs) /\ IsJoin(n, v, y)
  BY <1>5, <1>6, Zenon DEF IsJoin
<1>11. x \in Seq(HostTasks) /\ y \in Seq(HostTasks) /\ IsJoin(l, x, y)
  BY <1>8, Zenon
<1>12. MainList(p, a, n)
  BY <1>2, <1>7, <1>9, <1>10, <1>11, ResizeBetween, Zenon
<1> QED BY <1>1, <1>12, Zenon

\* With or without them it does.
LEMMA WithResizeWorks ==
  ASSUME Settled, NEW l, InfoList(hpPlan, hpActive, l), NEW n, n = WithResize(l)
  PROVE  MainList(hpPlan, hpActive, n)
<1>1. l \in Seq(HostTasks) /\ l # <<>> /\ DOMAIN l = 1 .. Len(l)
  BY InfoPlaces, Zenon
<1>2. PICK K : K = DynPlaces(l)
  OBVIOUS
<1>3. PICK F, d : F = [i \in DOMAIN l |-> IF i \in K THEN <<l[i]>> ELSE <<>>] /\ d = FlattenSeq(F)
  OBVIOUS
<1>4. d = Only(l, InSuper)
  <2>1. F = [i \in DOMAIN l |-> IF InSuper(l[i]) THEN <<l[i]>> ELSE <<>>]
    BY <1>2, <1>3 DEF DynPlaces
  <2> QED BY <1>3, <2>1, Zenon DEF Only
<1>5. d \in Seq(HostTasks) /\ Picks(d, l, K, Len(l))
  BY <1>1, <1>3, OnlyPicks, Zenon
<1>6. /\ \A i \in K : l[i].part = "system"
      /\ K # {} => FirstDyn(l) = 4
  BY <1>2, DynOfInfo, Zenon
<1>7. n = ResizedBy(l, d)
  <2>1. n = ResizedBy(l, Only(l, InSuper))
    BY Zenon DEF WithResize, ResizedBy, ResizedAt, FirstDyn
  <2> QED BY <2>1, <1>4, Zenon
<1>8. CASE d = <<>>
  <2>1. n = l
    BY <1>7, <1>8, Zenon DEF ResizedBy
  <2> QED BY <2>1, InfoWorks, Zenon
<1>9. CASE d # <<>>
  <2>1. n = ResizedAt(l, d, FirstDyn(l))
    BY <1>7, <1>9, Zenon DEF ResizedBy
  <2>2. \A j \in DOMAIN d : \E i \in 1 .. Len(l) : i \in K /\ d[j] = l[i]
    BY <1>5, Zenon DEF Picks
  <2>3. \A j \in DOMAIN d : d[j].part = "system"
    BY <2>2, <1>6, Zenon
  <2>4. 1 \in DOMAIN d
    BY <1>5, <1>9
  <2>5. FirstDyn(l) = 4
    BY <2>2, <2>4, <1>6, Zenon
  <2> QED BY <2>1, <2>3, <2>5, <1>5, ResizedWorks, Zenon
<1> QED BY <1>8, <1>9

\* The reboot and the wipes at the end.
EndList(p, a, l) ==
  l \in Seq(HostTasks) /\ AllKnown(p, a, l) /\ Orderly(l) /\ Spoilless(p, a, l) /\ Lifted(p, l)

\* What comes after the main list: wipes and the last reboot.
LEMMA FinalWorks ==
  ASSUME NEW p, NEW a, NEW w, NEW l, l = FinalTasks(w)
  PROVE  EndList(p, a, l)
<1>1. PICK e, r, t : e = "" /\ r = Task("reboot", e, e, e) /\ t = Task("wipe", "userdata", e, e)
  OBVIOUS
<1>2. e \in TaskParts /\ e \in TaskSlots /\ e \in TaskImages
  BY <1>1, TaskWords, Zenon
<1>3. "reboot" \in TaskOps /\ "wipe" \in TaskOps /\ "userdata" \in TaskParts
  BY TaskWords
<1>4. r = Task("reboot", e, e, e) /\ t = Task("wipe", "userdata", e, e)
  BY <1>1, Zenon
<1>5. r \in HostTasks /\ r.op = "reboot" /\ t \in HostTasks /\ t.op = "wipe"
  BY <1>2, <1>3, <1>4, MadeTask
<1>6. PICK x, y : x = (IF hpPlan.reboot THEN <<r>> ELSE <<>>) /\ y = (IF w THEN <<t>> ELSE <<>>)
  OBVIOUS
<1>7. l = x \o y
  BY <1>1, <1>6, Zenon DEF FinalTasks
<1>8. x \in Seq(HostTasks) /\ y \in Seq(HostTasks)
  <2>1. <<r>> \in Seq(HostTasks) /\ <<t>> \in Seq(HostTasks) /\ <<>> \in Seq(HostTasks)
    BY <1>5
  <2> QED BY <2>1, <1>6, Zenon
<1>9. AllKnown(p, a, x) /\ Orderly(x) /\ Spoilless(p, a, x) /\ Lifted(p, x)
  <2>1. Known(p, a, r) /\ ~Needs(p, r) /\ ~Spoils(p, a, r)
    BY <1>5, KindFacts, Zenon
  <2>2. CASE x = <<r>>
    BY <2>1, <2>2, SingleTask, Zenon
  <2>3. CASE x = <<>>
    BY <2>3, NoTask, Zenon
  <2> QED BY <2>2, <2>3, <1>6, Zenon
<1>10. AllKnown(p, a, y) /\ Orderly(y) /\ Spoilless(p, a, y) /\ Lifted(p, y) /\ OnlyWipes(y)
  <2>1. Known(p, a, t) /\ ~Needs(p, t) /\ ~Spoils(p, a, t)
    BY <1>5, KindFacts, Zenon
  <2>2. CASE y = <<t>>
    BY <2>1, <2>2, <1>5, SingleTask, Zenon
  <2>3. CASE y = <<>>
    BY <2>3, NoTask, Zenon
  <2> QED BY <2>2, <2>3, <1>6, Zenon
<1>11. l \in Seq(HostTasks) /\ AllKnown(p, a, l) /\ Orderly(l) /\ Spoilless(p, a, l) /\ Lifted(p, l)
  BY <1>7, <1>8, <1>9, <1>10, JoinedAll, Zenon
<1> QED BY <1>11, Zenon DEF EndList

\* A main list with its end is a list that HostInv asks for.
LEMMA WholeList ==
  ASSUME NEW p, NEW a, NEW l, MainList(p, a, l), NEW e, EndList(p, a, e), NEW n, n = l \o e
  PROVE  /\ n \in Seq(HostTasks) /\ AllKnown(p, a, n) /\ Orderly(n) /\ Lifted(p, n) /\ HasBoot(p, n)
         /\ Excepted(p, a) \/ SystemLast(p, a, n)
<1>1. /\ l \in Seq(HostTasks) /\ AllKnown(p, a, l) /\ Stays(l) /\ Lifted(p, l) /\ HasBoot(p, l)
      /\ Excepted(p, a) \/ SystemLast(p, a, l)
  BY Zenon DEF MainList
<1>2. e \in Seq(HostTasks) /\ AllKnown(p, a, e) /\ Orderly(e) /\ Spoilless(p, a, e) /\ Lifted(p, e)
  BY Zenon DEF EndList
<1>3. Orderly(l)
  BY <1>1, PlainLists, Zenon
<1> QED BY <1>1, <1>2, <1>3, JoinedAll, Zenon

\* The list that is made, whichever way.
LEMMA PlanMade ==
  ASSUME Settled, NEW n,
         n = IF FromInfo
             THEN (IF CanOptimise THEN WithSuper(InfoTasks) ELSE WithResize(InfoTasks)) \o FinalTasks(FALSE)
             ELSE HardcodedFlash \o FinalTasks(hpPlan.wipe)
  PROVE  /\ n \in Seq(HostTasks) /\ AllKnown(hpPlan, hpActive, n) /\ Orderly(n) /\ Lifted(hpPlan, n)
         /\ HasBoot(hpPlan, n) /\ (Excepted(hpPlan, hpActive) \/ SystemLast(hpPlan, hpActive, n))
<1>1. PICK l, w, e : /\ l = IF FromInfo THEN (IF CanOptimise THEN WithSuper(InfoTasks) ELSE WithResize(InfoTasks))
                            ELSE HardcodedFlash
                     /\ w = IF FromInfo THEN FALSE ELSE hpPlan.wipe
                     /\ e = FinalTasks(w)
  OBVIOUS
<1>2. n = l \o e
  <2>1. CASE FromInfo
    BY <2>1, <1>1, Zenon
  <2>2. CASE ~FromInfo
    BY <2>2, <1>1, Zenon
  <2> QED BY <2>1, <2>2
<1>3. PICK i : i = InfoTasks
  OBVIOUS
<1>4. InfoList(hpPlan, hpActive, i)
  BY <1>3, InfoIsList, Zenon
<1>5. MainList(hpPlan, hpActive, l)
  <2>1. CASE FromInfo /\ CanOptimise
    <3>1. l = WithSuper(i)
      BY <2>1, <1>1, <1>3, Zenon
    <3> QED BY <2>1, <3>1, <1>4, WithSuperWorks, Zenon
  <2>2. CASE FromInfo /\ ~CanOptimise
    <3>1. l = WithResize(i)
      BY <2>2, <1>1, <1>3, Zenon
    <3> QED BY <3>1, <1>4, WithResizeWorks, Zenon
  <2>3. CASE ~FromInfo
    <3>1. l = HardcodedFlash
      BY <2>3, <1>1, Zenon
    <3> QED BY <3>1, HardcodedWorks, Zenon
  <2> QED BY <2>1, <2>2, <2>3, Zenon
<1>6. EndList(hpPlan, hpActive, e)
  BY <1>1, FinalWorks, Zenon
<1> QED BY <1>2, <1>5, <1>6, WholeList, Zenon

\* Making the task list keeps HostInv.
LEMMA PlanTasksKeeps ==
  ASSUME HostInv, PlanTasks
  PROVE  HostInv'
<1>1. CASE Die
  BY <1>1, DieKeeps
<1>2. CASE ~Die
  <2>1. PICK p, m, a, h, z, c : /\ p = hpPlan /\ m = hpMode /\ a = hpActive
                                /\ h = hpHolds /\ z = hpSize /\ c = hpCached
    OBVIOUS
  <2>2. PICK n : n = IF FromInfo
                     THEN (IF CanOptimise THEN WithSuper(InfoTasks) ELSE WithResize(InfoTasks)) \o FinalTasks(FALSE)
                     ELSE HardcodedFlash \o FinalTasks(hpPlan.wipe)
    OBVIOUS
  <2>3. /\ hpPc = "collect" /\ hpTodo' = n /\ hpPc' = "run"
        /\ UNCHANGED <<hpPlan, hpMode, hpActive, hpHolds, hpSize, hpCached>>
    <3>1. hpPc = "collect"
      BY DEF PlanTasks
    <3>2. ~(FromInfo /\ hpPlan.slot = "all" /\ hpPlan.ab)
      BY <1>2, Zenon DEF PlanTasks
    <3> QED BY <3>1, <3>2, <2>2, Zenon DEF PlanTasks
  <2>4. /\ HostTyped(p, hpTodo, hpPc, m, a, h, z) /\ SlotChecked(p) /\ SlotActive(p, a)
        /\ Untouched(p, m, h, z, c)
    <3>1. /\ HostTyped(hpPlan, hpTodo, hpPc, hpMode, hpActive, hpHolds, hpSize)
          /\ SlotChecked(hpPlan) /\ SlotActive(hpPlan, hpActive)
          /\ Untouched(hpPlan, hpMode, hpHolds, hpSize, hpCached)
      BY <2>3 DEF HostInv, HostHolds
    <3> QED BY <3>1, <2>1, Zenon
  <2>5. p \in Plans /\ a \in SlotsOf(p)
    BY <2>4, Zenon DEF HostTyped
  <2>6. Settled
    BY <2>1, <2>4, <2>5, Zenon DEF Settled
  <2>7. /\ n \in Seq(HostTasks) /\ AllKnown(p, a, n) /\ Orderly(n) /\ Lifted(p, n)
        /\ HasBoot(p, n) /\ (Excepted(p, a) \/ SystemLast(p, a, n))
    BY <2>1, <2>2, <2>6, PlanMade, Zenon
  <2>8. HostTyped(p, n, "run", m, a, h, z)
    <3>1. "run" \in {"start", "check", "slot", "collect", "run", "finished", "died"}
      OBVIOUS
    <3> QED BY <3>1, <2>4, <2>7, Zenon DEF HostTyped
  <2>9. m # "gone" /\ c = -1 /\ h = [q \in Parts(p) |-> "old"] /\ z = [q \in Parts(p) |-> 1]
    BY <2>4, Zenon DEF Untouched
  <2>10. BootWhole(p, a, h, z)
    <3>1. <<"boot", OtherSlot(a)>> \in Parts(p) /\ \A x \in SlotsOf(p) : <<"boot", x>> \in Parts(p)
      BY <2>5, SlotFacts, Zenon
    <3>2. h[<<"boot", OtherSlot(a)>>] = "old" /\ \A x \in SlotsOf(p) : z[<<"boot", x>>] = 1
      BY <3>1, <2>9, Zenon
    <3> QED BY <3>2, Zenon DEF BootWhole
  <2>11. ModeServes(p, n, m) /\ LimitServes(m, c)
    <3>1. c \in {-1, Limit(m)}
      BY <2>9, Zenon
    <3> QED BY <3>1, <2>7, <2>9, Zenon DEF ModeServes, LimitServes
  <2>12. BootServed(p, n, a, h) /\ SystemServed(p, n, a, h, z)
    BY <2>7, Zenon DEF BootServed, SystemServed
  <2>13. Carried(p, n, m, a, h, z, c)
    BY <2>7, <2>10, <2>11, <2>12, Zenon DEF Carried
  <2>14. HostHolds(p, n, "run", m, a, h, z, c)
    <3>1. "run" \notin {"start", "check", "slot", "collect"} /\ "run" # "finished"
      OBVIOUS
    <3> QED BY <3>1, <2>4, <2>8, <2>13, Zenon DEF HostHolds
  <2> QED BY <2>1, <2>3, <2>14, Zenon DEF HostInv
<1> QED BY <1>1, <1>2

\* The invariant is kept by every step.
LEMMA HostStep == HostInv /\ [HostNext]_hpVars => HostInv'
<1> SUFFICES ASSUME HostInv, [HostNext]_hpVars PROVE HostInv'
  OBVIOUS
<1>1. CASE VerifySlot
  BY <1>1, VerifySlotKeeps
<1>2. CASE CheckRequirements
  BY <1>2, CheckRequirementsKeeps
<1>3. CASE SetActive
  BY <1>3, SetActiveKeeps
<1>4. CASE PlanTasks
  BY <1>4, PlanTasksKeeps
<1>5. CASE FlashPartition
  BY <1>5, FlashPartitionKeeps
<1>6. CASE Resize
  BY <1>6, ResizeKeeps
<1>7. CASE FlashSuper
  BY <1>7, FlashSuperKeeps
<1>8. CASE UpdateSuper
  BY <1>8, UpdateSuperKeeps
<1>9. CASE RebootTask
  BY <1>9, RebootTaskKeeps
<1>10. CASE Wipe
  BY <1>10, WipeKeeps
<1>11. CASE CommandFails
  BY <1>11, DieKeeps, Zenon DEF CommandFails
<1>12. CASE HostFinished
  BY <1>12, HostFinishedKeeps
<1>13. CASE UNCHANGED hpVars
  BY <1>13, Zenon DEF hpVars, HostInv
<1> QED BY <1>1, <1>2, <1>3, <1>4, <1>5, <1>6, <1>7, <1>8, <1>9, <1>10, <1>11, <1>12, <1>13, Zenon DEF HostNext

\* HostInv says that the plan works.
LEMMA PlanWorksHere == HostInv => PlanWorks
<1> SUFFICES ASSUME HostInv PROVE PlanWorks
  OBVIOUS
<1>1. PICK p, s, m, a, h, z, c : /\ p = hpPlan /\ s = hpTodo /\ m = hpMode /\ a = hpActive
                                 /\ h = hpHolds /\ z = hpSize /\ c = hpCached
  OBVIOUS
<1>2. HostHolds(p, s, hpPc, m, a, h, z, c)
  BY <1>1, Zenon DEF HostInv
<1>3. hpPc \in {"start", "check", "slot", "collect", "run", "finished", "died"}
  BY <1>2, Zenon DEF HostHolds, HostTyped
<1>4. LimitIsFresh /\ DynamicInUserspace
  BY <1>3 DEF LimitIsFresh, DynamicInUserspace
<1>5. ASSUME hpPc \in {"run", "finished"} PROVE Carried(p, s, m, a, h, z, c)
  BY <1>2, <1>5, Zenon DEF HostHolds
<1>6. OtherBootKept
  <2>1. SUFFICES ASSUME p.ab, p.slot # "all", hpPc \in {"run", "finished"} PROVE h[<<"boot", OtherSlot(a)>>] = "old"
    BY <1>1, Zenon DEF OtherBootKept
  <2> QED BY <2>1, <1>5, Zenon DEF Carried, BootWhole
<1>7. ActiveIsFlashed
  <2>1. SUFFICES ASSUME hpPc = "finished", ~(p.info = "list-other" /\ SkipSecondary)
                 PROVE  /\ h[<<"boot", a>>] = "boot.img" /\ h[<<"system", a>>] = "system.img"
                        /\ p.superEmpty => z[<<"system", a>>] = ImageSize("system.img")
    BY <1>1, Zenon DEF ActiveIsFlashed
  <2>2. hpPc \in {"run", "finished"}
    BY <2>1
  <2>3. BootServed(p, s, a, h) /\ SystemServed(p, s, a, h, z)
    BY <2>2, <1>5, Zenon DEF Carried
  <2>4. s = <<>>
    BY <1>2, <2>1, Zenon DEF HostHolds
  <2>5. ~HasBoot(p, s) /\ ~SystemLast(p, a, s)
    BY <2>4, NoTask, Zenon
  <2>6. ~Excepted(p, a)
    BY <1>1, <2>1, Zenon DEF Excepted, SkipSecondary, SecondarySlot, Second
  <2>7. h[<<"boot", a>>] = "boot.img" /\ SystemRight(p, a, h, z)
    BY <2>3, <2>5, <2>6, Zenon DEF BootServed, SystemServed
  <2>8. ImageSize("system.img") = 3
    BY DEF ImageSize
  <2> QED BY <2>7, <2>8, Zenon DEF SystemRight
<1> QED BY <1>4, <1>6, <1>7, Zenon DEF PlanWorks

(* Every plan works, whatever the options, the slots, the layout, the      *)
(* device's first mode and its download limits, and whatever command the   *)
(* device fails: no image is cut for another mode's limit, none reaches a  *)
(* dynamic partition outside userspace fastboot, a run that finishes has   *)
(* left the new images in the slot that boots, and the other slot's boot   *)
(* partition is never touched unless all slots were asked for.             *)
THEOREM EveryPlanWorks == HostSpec => []PlanWorks
<1>1. HostInit => HostInv
  BY HostStarts
<1>2. HostInv /\ [HostNext]_hpVars => HostInv'
  BY HostStep
<1>3. HostInv => PlanWorks
  BY PlanWorksHere
<1> QED BY <1>1, <1>2, <1>3, PTL DEF HostSpec
=============================================================================
