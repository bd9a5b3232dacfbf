---------------------------- MODULE VNetIpProofs ----------------------------
(***************************************************************************)
(* Proofs about VNetIp for every number of hosts, reassembly slots and     *)
(* entries, every size of packets and buffers and every traffic: its       *)
(* types, HandedIsSent, TwoAtOnce and CacheIsRecent.                       *)
(*                                                                         *)
(* A buffer counts bytes.  That the count stands for the bytes is said     *)
(* with the set of fragments that are in the buffer: no fragment comes     *)
(* twice and fragments of a datagram do not overlap, so the count is the   *)
(* number of bytes they cover, and as many bytes as the datagram has are   *)
(* all of them.                                                            *)
(*                                                                         *)
(* The search of the ARP table stops at the first entry that is free or of *)
(* the host.  That it finds the host if it is known follows from the order *)
(* in which entries fill: none is free before one that is not.             *)
(***************************************************************************)
EXTENDS VNetIp, FiniteSetTheorems, WellFoundedInduction, TLAPS

(* The bytes a fragment covers, and several. *)
BytesOf(f) == f.block * 8 .. f.block * 8 + f.len - 1
Bytes(fs)  == UNION {BytesOf(f) : f \in fs}

ArrivedOf(d) == {f \in arrived : f.of = d}
PayloadOf(d) == [len |-> d.len, data |-> [b \in 0..BlockOf(d.len - 1) |-> d]]

(* A buffer has in it the fragments fs of d, counted and copied. *)
Holds(slot, d, fs) ==
    /\ slot.received = Cardinality(Bytes(fs))
    /\ slot.total = IF \E f \in fs : ~f.more THEN d.len ELSE 0
    /\ \A f \in fs :
           /\ f.block * 8 + f.len <= ReasmMax
           /\ \A b \in f.block..BlockOf(f.block * 8 + f.len - 1) : slot.data[b] = d

(***************************************************************************)
(* Numbers and sets.                                                       *)
(***************************************************************************)

(* Integer division, by a divisor that is not a number of the text. *)
LEMMA Division ==
    ASSUME NEW a \in Nat, NEW c \in Nat \ {0}
    PROVE  /\ a \div c \in Nat
           /\ (a \div c) * c <= a
           /\ a < (a \div c) * c + c
  OBVIOUS

(* Multiples of the same number are at least that far apart. *)
LEMMA Multiples ==
    ASSUME NEW k \in Nat, NEW l \in Nat, NEW c \in Nat
    PROVE  /\ k * c \in Nat
           /\ k < l => k * c + c <= l * c
           /\ k <= l => k * c <= l * c
  OBVIOUS

(* A number of whole chunks is a number of blocks. *)
LEMMA ChunksAreBlocks ==
    ASSUME NEW n \in Nat, NEW c \in Nat
    PROVE  n * c \in Nat /\ n * (c * 8) = (n * c) * 8 /\ (n * (c * 8)) \div 8 = n * c
  OBVIOUS

(* The smallest number of a set is one of it. *)
LEMMA MinIsLeast ==
    ASSUME NEW S, S \subseteq Nat, S # {}
    PROVE  Min(S) \in S /\ \A x \in S : Min(S) <= x
<1> DEFINE R == {p \in Nat \X Nat : p[1] < p[2]}
<1>1. IsWellFoundedOn(R, Nat)
  BY NatLessThanWellFounded DEF OpToRel
<1>2. \A x, y \in Nat : <<y, x>> \in R <=> y < x
  OBVIOUS
<1> HIDE DEF R
<1>3. PICK x \in S : \A y \in S : ~(<<y, x>> \in R)
  BY <1>1, WFMin
<1>4. ASSUME NEW y \in S
      PROVE  x <= y
  <2>1. x \in Nat /\ y \in Nat
    OBVIOUS
  <2>2. ~(y < x)
    BY <1>2, <1>3, <2>1
  <2> QED
    BY <2>1, <2>2
<1> QED
  BY <1>4 DEF Min

(* The largest number of a bounded set is one of it. *)
LEMMA MaxIsGreatest ==
    ASSUME NEW S, S # {}, NEW n \in Nat, S \subseteq 0..n
    PROVE  Max(S) \in S /\ \A x \in S : x <= Max(S)
<1> DEFINE B == {m \in Nat : \A x \in S : x <= m}
<1>1. B \subseteq Nat /\ n \in B
  OBVIOUS
<1>2. Min(B) \in B /\ \A m \in B : Min(B) <= m
  BY <1>1, MinIsLeast
<1>3. Min(B) \in S
  <2> SUFFICES ASSUME Min(B) \notin S
               PROVE  FALSE
    OBVIOUS
  <2> DEFINE m == Min(B)
  <2>1. m \in Nat /\ \A x \in S : x \in Nat /\ x <= m /\ x # m
    BY <1>2
  <2>2. PICK x \in S : TRUE
    OBVIOUS
  <2>3. \A z \in B : m <= z
    BY <1>2
  <2> HIDE DEF m
  <2>4. m - 1 \in Nat /\ \A y \in S : y <= m - 1
    BY <2>1, <2>2
  <2>5. m - 1 \in B
    BY <2>4
  <2> QED
    BY <2>1, <2>3, <2>5
<1>4. \A x \in S : x <= Min(B)
  BY <1>2
<1> QED
  <2>1. Min(B) \in S /\ \A x \in S : Min(B) >= x
    BY <1>3, <1>4, <1>2
  <2> HIDE DEF B
  <2> QED
    BY <2>1 DEF Max

(* Of two numbers. *)
LEMMA MinOfTwo ==
    ASSUME NEW a \in Int, NEW b \in Int
    PROVE  Min({a, b}) = IF a <= b THEN a ELSE b
<1>1. CASE a <= b
  <2>1. a \in {a, b} /\ \A y \in {a, b} : a =< y
    BY <1>1
  <2>2. \A x \in {a, b} : (\A y \in {a, b} : x =< y) => x = a
    BY <1>1
  <2> QED
    BY <1>1, <2>1, <2>2 DEF Min
<1>2. CASE ~(a <= b)
  <2>1. b \in {a, b} /\ \A y \in {a, b} : b =< y
    BY <1>2
  <2>2. \A x \in {a, b} : (\A y \in {a, b} : x =< y) => x = b
    BY <1>2
  <2> QED
    BY <1>2, <2>1, <2>2 DEF Min
<1> QED
  BY <1>1, <1>2

(* A set that with one more element has at most one has no other. *)
LEMMA AtMostOne ==
    ASSUME NEW S, IsFiniteSet(S), NEW e, Cardinality(S \cup {e}) <= 1
    PROVE  S \subseteq {e} /\ Cardinality(S) <= 1
<1>1. IsFiniteSet(S \cup {e}) /\ Cardinality(S \cup {e}) \in Nat
  BY FS_AddElement, FS_CardinalityType
<1>2. IsFiniteSet({e}) /\ Cardinality({e}) = 1
  BY FS_Singleton
<1>3. {e} \in SUBSET (S \cup {e}) /\ S \in SUBSET (S \cup {e})
  OBVIOUS
<1>4. Cardinality({e}) <= Cardinality(S \cup {e}) /\ (Cardinality(S \cup {e}) = Cardinality({e}) => S \cup {e} = {e})
  BY <1>1, <1>3, FS_Subset
<1>5. S \cup {e} = {e}
  BY <1>1, <1>2, <1>4
<1>6. Cardinality(S) <= Cardinality(S \cup {e}) /\ Cardinality(S) \in Nat
  BY <1>1, <1>3, FS_Subset, FS_CardinalityType
<1> QED
  BY <1>1, <1>5, <1>6

(***************************************************************************)
(* The fragments of a datagram.                                            *)
(***************************************************************************)

(* What one is, whatever the datagram was cut into. *)
IsPiece(f, d) ==
    /\ f.of = d
    /\ f.block \in Nat
    /\ f.len \in Nat \ {0}
    /\ f.block * 8 + f.len <= d.len
    /\ ~f.more <=> f.block * 8 + f.len = d.len

(* The k-th fragment of a long datagram. *)
LEMMA KthPiece ==
    ASSUME NEW d, d.len \in Nat \ {0}, NEW k \in 0..(d.len - 1) \div Chunk
    PROVE  LET f == Fragment(d, k * Chunk) IN
           /\ k * Chunk \in Nat /\ k * Chunk < d.len
           /\ f.of = d
           /\ f.block \in Nat /\ f.block * 8 = k * Chunk
           /\ f.len = IF Chunk <= d.len - k * Chunk THEN Chunk ELSE d.len - k * Chunk
           /\ f.more = (k * Chunk + f.len < d.len)
<1> DEFINE c == BlockOf(MaxPayload)
           off == k * Chunk
           take == Min({Chunk, d.len - off})
<1>1. c \in Nat \ {0} /\ Chunk = c * 8
  BY IpAssumption DEF BlockOf, Chunk
<1> HIDE DEF c
<1>2. Chunk \in Nat \ {0}
  BY <1>1
<1>3. d.len - 1 \in Nat
  OBVIOUS
<1>4. (d.len - 1) \div Chunk \in Nat /\ ((d.len - 1) \div Chunk) * Chunk <= d.len - 1
  BY <1>2, <1>3, Division
<1>5. k \in Nat /\ k <= (d.len - 1) \div Chunk
  BY <1>4
<1>6. off \in Nat /\ off <= ((d.len - 1) \div Chunk) * Chunk
  BY <1>2, <1>4, <1>5, Multiples
<1>7. off \in Nat /\ off < d.len
  <2> DEFINE q == ((d.len - 1) \div Chunk) * Chunk
  <2>1. q \in Nat
    BY <1>2, <1>4, Multiples
  <2>2. off \in Nat /\ off <= q /\ q <= d.len - 1
    BY <1>4, <1>6
  <2> HIDE DEF q, off
  <2> QED
    BY <2>1, <2>2
<1>8. BlockOf(off) = k * c /\ k * c \in Nat /\ off = (k * c) * 8
  BY <1>1, <1>5, ChunksAreBlocks DEF BlockOf
<1>9. take = IF Chunk <= d.len - off THEN Chunk ELSE d.len - off
  <2> HIDE DEF off
  <2> QED
    BY <1>2, <1>7, MinOfTwo
<1>10. Fragment(d, off) = [of |-> d, block |-> BlockOf(off), len |-> take, more |-> off + take < d.len]
  BY DEF Fragment
<1> HIDE DEF off, take
<1>11. /\ Fragment(d, off).of = d
       /\ Fragment(d, off).block = BlockOf(off)
       /\ Fragment(d, off).len = take
       /\ Fragment(d, off).more = (off + take < d.len)
  BY <1>10
<1>12. BlockOf(off) \in Nat /\ BlockOf(off) * 8 = off
  BY <1>8
<1>13. /\ off \in Nat /\ off < d.len
       /\ Fragment(d, off).of = d
       /\ Fragment(d, off).block \in Nat /\ Fragment(d, off).block * 8 = off
       /\ Fragment(d, off).len = IF Chunk <= d.len - off THEN Chunk ELSE d.len - off
       /\ Fragment(d, off).more = (off + Fragment(d, off).len < d.len)
  BY <1>7, <1>9, <1>11, <1>12
<1> QED
  BY <1>13 DEF off

(* A datagram is cut into finitely many pieces that do not overlap and      *)
(* cover it.                                                               *)
LEMMA Cutting ==
    ASSUME NEW d, d.len \in Nat \ {0}
    PROVE  /\ \A f \in Fragments(d) : IsPiece(f, d)
           /\ \A f, g \in Fragments(d) :
                  f = g \/ f.block * 8 + f.len <= g.block * 8 \/ g.block * 8 + g.len <= f.block * 8
           /\ \A b \in 0..d.len - 1 : \E f \in Fragments(d) : b \in BytesOf(f)
           /\ IsFiniteSet(Fragments(d))
<1>1. CASE d.len <= MaxPayload
  <2> DEFINE f == [of |-> d, block |-> 0, len |-> d.len, more |-> FALSE]
  <2>1. Fragments(d) = {f}
    BY <1>1 DEF Fragments
  <2>2. f.of = d /\ f.block = 0 /\ f.len = d.len /\ f.more = FALSE
    OBVIOUS
  <2> HIDE DEF f
  <2>3. BytesOf(f) = 0..d.len - 1
    BY <2>2 DEF BytesOf
  <2>4. f.block * 8 + f.len = d.len
    BY <2>2
  <2>5. ~f.more
    BY <2>2, Zenon
  <2>6. IsPiece(f, d)
    BY <2>2, <2>4, <2>5 DEF IsPiece
  <2>7. IsFiniteSet({f})
    BY FS_Singleton
  <2> QED
    BY <2>1, <2>3, <2>6, <2>7
<1>2. CASE ~(d.len <= MaxPayload)
  <2> DEFINE n == (d.len - 1) \div Chunk
             P(k) == Fragment(d, k * Chunk)
  <2>1. Fragments(d) = {P(k) : k \in 0..n}
    BY <1>2 DEF Fragments
  <2>2. Chunk \in Nat \ {0}
    BY IpAssumption DEF BlockOf, Chunk
  <2>3. n \in Nat /\ d.len - 1 < n * Chunk + Chunk
    <3>1. d.len - 1 \in Nat
      OBVIOUS
    <3> QED
      BY <2>2, <3>1, Division
  <2>4. \A k \in 0..n :
           /\ k * Chunk \in Nat /\ k * Chunk < d.len
           /\ P(k).of = d
           /\ P(k).block \in Nat /\ P(k).block * 8 = k * Chunk
           /\ P(k).len = IF Chunk <= d.len - k * Chunk THEN Chunk ELSE d.len - k * Chunk
           /\ P(k).more = (k * Chunk + P(k).len < d.len)
    BY KthPiece
  <2> HIDE DEF n, P
  <2>5. \A k \in 0..n : IsPiece(P(k), d)
    <3> TAKE k \in 0..n
    <3> DEFINE off == k * Chunk
    <3>1. off \in Nat /\ off < d.len /\ P(k).of = d /\ P(k).block \in Nat /\ P(k).block * 8 = off
      BY <2>4
    <3>2. P(k).len = IF Chunk <= d.len - off THEN Chunk ELSE d.len - off
      BY <2>4
    <3>3. P(k).more = (off + P(k).len < d.len)
      BY <2>4
    <3> HIDE DEF off
    <3>4. P(k).len \in Nat \ {0} /\ off + P(k).len <= d.len
      BY <2>2, <3>1, <3>2
    <3>5. P(k).more <=> off + P(k).len < d.len
      BY <3>3
    <3>6. ~P(k).more <=> off + P(k).len = d.len
      BY <3>4, <3>5, <3>1
    <3> QED
      BY <3>1, <3>4, <3>5, <3>6 DEF IsPiece
  <2>6. \A k, l \in 0..n : k < l => P(k).block * 8 + P(k).len <= P(l).block * 8
    <3> SUFFICES ASSUME NEW k \in 0..n, NEW l \in 0..n, k < l
                 PROVE  P(k).block * 8 + P(k).len <= P(l).block * 8
      OBVIOUS
    <3>1. k * Chunk + Chunk <= l * Chunk
      BY <2>2, <2>3, Multiples
    <3>2. P(k).block * 8 = k * Chunk /\ P(l).block * 8 = l * Chunk /\ k * Chunk \in Nat /\ l * Chunk \in Nat
      BY <2>4
    <3>3. P(k).len = IF Chunk <= d.len - k * Chunk THEN Chunk ELSE d.len - k * Chunk
      BY <2>4
    <3> DEFINE x == k * Chunk
               y == l * Chunk
    <3> HIDE DEF x, y
    <3>4. x \in Nat /\ y \in Nat /\ x + Chunk <= y /\ P(k).block * 8 = x /\ P(l).block * 8 = y
      BY <3>1, <3>2 DEF x, y
    <3>5. P(k).len = IF Chunk <= d.len - x THEN Chunk ELSE d.len - x
      BY <3>3 DEF x
    <3>6. P(k).len \in Int /\ P(k).len <= Chunk
      BY <2>2, <3>4, <3>5
    <3> QED
      BY <2>2, <3>4, <3>6
  <2>7. \A f, g \in Fragments(d) :
           f = g \/ f.block * 8 + f.len <= g.block * 8 \/ g.block * 8 + g.len <= f.block * 8
    <3> TAKE f, g \in Fragments(d)
    <3>1. PICK k \in 0..n : f = P(k)
      BY <2>1
    <3>2. PICK l \in 0..n : g = P(l)
      BY <2>1
    <3>3. k = l \/ k < l \/ l < k
      BY <2>3
    <3> QED
      BY <2>6, <3>1, <3>2, <3>3
  <2>8. \A b \in 0..d.len - 1 : \E f \in Fragments(d) : b \in BytesOf(f)
    <3> TAKE b \in 0..d.len - 1
    <3> DEFINE k == b \div Chunk
               x == k * Chunk
    <3>1. b \in Nat /\ b <= d.len - 1
      OBVIOUS
    <3>2. k \in Nat /\ x <= b /\ b < x + Chunk
      BY <2>2, <3>1, Division
    <3>3. x \in Nat
      BY <2>2, <3>2, Multiples
    <3>4. k <= n
      <4> SUFFICES ASSUME n < k
                   PROVE  FALSE
        BY <2>3, <3>2
      <4>1. n * Chunk + Chunk <= x /\ n * Chunk \in Nat
        BY <2>2, <2>3, <3>2, Multiples
      <4> DEFINE y == n * Chunk
      <4>2. d.len - 1 < y + Chunk /\ y + Chunk <= x /\ y \in Nat
        BY <2>3, <4>1
      <4> HIDE DEF x, y
      <4> QED
        BY <2>2, <3>1, <3>2, <3>3, <4>2
    <3>5. k \in 0..n
      BY <2>3, <3>2, <3>4
    <3>6. P(k) \in Fragments(d)
      BY <2>1, <3>5
    <3>7. P(k).block * 8 = x /\ P(k).len = IF Chunk <= d.len - x THEN Chunk ELSE d.len - x
      BY <2>4, <3>5
    <3> HIDE DEF k, x
    <3>8. b \in BytesOf(P(k))
      BY <2>2, <3>1, <3>2, <3>3, <3>7 DEF BytesOf
    <3> QED
      BY <3>6, <3>8
  <2>9. IsFiniteSet(Fragments(d))
    <3> DEFINE F == [k \in 0..n |-> P(k)]
    <3>1. F \in Surjection(0..n, Fragments(d))
      BY <2>1 DEF Surjection
    <3>2. IsFiniteSet(0..n)
      BY <2>3, FS_Interval
    <3> QED
      BY <3>1, <3>2, FS_Surjection
  <2> QED
    BY <2>1, <2>5, <2>7, <2>8, <2>9
<1> QED
  BY <1>1, <1>2

(* The bytes that some of the pieces cover. *)
LEMMA BytesCovered ==
    ASSUME NEW d, d.len \in Nat \ {0}, NEW fs \in SUBSET Fragments(d)
    PROVE  /\ IsFiniteSet(Bytes(fs)) /\ Bytes(fs) \subseteq 0..d.len - 1
           /\ Cardinality(Bytes(fs)) \in Nat /\ Cardinality(Bytes(fs)) <= d.len
           /\ \A f \in Fragments(d) \ fs :
                 Cardinality(Bytes(fs \cup {f})) = Cardinality(Bytes(fs)) + f.len
<1>1. \A f \in Fragments(d) : IsPiece(f, d)
  BY Cutting
<1>2. Bytes(fs) \subseteq 0..d.len - 1
  BY <1>1 DEF Bytes, BytesOf, IsPiece
<1>3. IsFiniteSet(0..d.len - 1) /\ Cardinality(0..d.len - 1) = d.len
  <2> DEFINE e == d.len - 1
  <2>1. e \in Int /\ ~(0 > e) /\ e - 0 + 1 = d.len
    OBVIOUS
  <2>2. IsFiniteSet(0..e) /\ Cardinality(0..e) = IF 0 > e THEN 0 ELSE e - 0 + 1
    <3>1. 0 \in Int /\ e \in Int
      BY <2>1
    <3> HIDE DEF e
    <3> QED
      BY ONLY <3>1, FS_Interval, Zenon
  <2> QED
    BY <2>1, <2>2
<1>4. IsFiniteSet(Bytes(fs)) /\ Cardinality(Bytes(fs)) <= d.len /\ Cardinality(Bytes(fs)) \in Nat
  BY <1>2, <1>3, FS_Subset, FS_CardinalityType
<1>5. ASSUME NEW f \in Fragments(d), f \notin fs
      PROVE  Cardinality(Bytes(fs \cup {f})) = Cardinality(Bytes(fs)) + f.len
  <2>1. IsPiece(f, d)
    BY <1>1
  <2>2. IsFiniteSet(BytesOf(f)) /\ Cardinality(BytesOf(f)) = f.len
    <3> DEFINE x == f.block * 8
               y == f.block * 8 + f.len - 1
    <3>1. x \in Int /\ y \in Int /\ ~(x > y) /\ y - x + 1 = f.len
      BY <2>1 DEF IsPiece
    <3>2. IsFiniteSet(x..y) /\ Cardinality(x..y) = IF x > y THEN 0 ELSE y - x + 1
      <4> HIDE DEF x, y
      <4> QED
        BY <3>1, FS_Interval
    <3> QED
      BY <3>1, <3>2 DEF BytesOf
  <2>3. Bytes(fs) \cap BytesOf(f) = {}
    <3> SUFFICES ASSUME NEW b \in BytesOf(f), NEW g \in fs, b \in BytesOf(g)
                 PROVE  FALSE
      BY DEF Bytes
    <3>1. IsPiece(g, d) /\ f # g
      BY <1>1, <1>5
    <3>2. f.block * 8 + f.len <= g.block * 8 \/ g.block * 8 + g.len <= f.block * 8
      BY <1>5, <3>1, Cutting
    <3> QED
      BY <2>1, <3>1, <3>2 DEF BytesOf, IsPiece
  <2>4. Bytes(fs \cup {f}) = Bytes(fs) \cup BytesOf(f)
    BY DEF Bytes
  <2>5. /\ IsFiniteSet(Bytes(fs) \cup BytesOf(f))
        /\ Cardinality(Bytes(fs) \cup BytesOf(f))
               = Cardinality(Bytes(fs)) + Cardinality(BytesOf(f)) - Cardinality(Bytes(fs) \cap BytesOf(f))
    BY <1>4, <2>2, FS_Union, Zenon
  <2>6. Cardinality(Bytes(fs) \cap BytesOf(f)) = 0 /\ f.len \in Nat
    BY <2>1, <2>3, FS_EmptySet DEF IsPiece
  <2>7. Cardinality(Bytes(fs) \cup BytesOf(f)) = Cardinality(Bytes(fs)) + f.len
    BY <1>4, <2>2, <2>5, <2>6
  <2> QED
    BY <2>4, <2>7
<1> QED
  BY <1>2, <1>4, <1>5

(***************************************************************************)
(* The search of onIpv4 for a buffer.                                      *)
(***************************************************************************)

(* The oldest buffer of a range, as the search finds it. *)
LEMMA VictimIsOldest ==
    ASSUME reasm \in [Slots -> Buffers], traffic \in Traffics
    PROVE  /\ Victim \in Slots
           /\ \A i \in Slots :
                 reasm[i].used /\ (\A j \in Slots \ {i} : reasm[j].age < reasm[i].age)
                     => Victim # i
<1> DEFINE unused == {i \in Slots : ~reasm[i].used}
           from == IF unused = {} THEN 0 ELSE Max(unused)
           W == from..ReasmSlots - 1
           ages == {reasm[j].age : j \in W}
           a == Min(ages)
           oldest == {j \in W : reasm[j].age = a}
           v == Min(oldest)
           Right(i) == \A j \in W :
                          reasm[i].age < reasm[j].age \/ (reasm[i].age = reasm[j].age /\ i <= j)
<1>1. ReasmSlots \in Nat /\ ReasmSlots >= 2
  BY IpAssumption
<1>2. Slots = 0..ReasmSlots - 1
  BY DEF Slots
<1>3. from \in Slots /\ (unused # {} => from \in unused) /\ (unused = {} => from = 0)
  <2>1. CASE unused = {}
    BY <1>1, <1>2, <2>1
  <2>2. CASE unused # {}
    <3>1. unused \subseteq 0..ReasmSlots - 1 /\ ReasmSlots - 1 \in Nat
      BY <1>1, <1>2
    <3>2. Max(unused) \in unused
      BY <2>2, <3>1, MaxIsGreatest
    <3> QED
      BY <2>2, <3>2
  <2> QED
    BY <2>1, <2>2
<1> HIDE DEF from
<1>4. W \subseteq Slots /\ from \in W
  BY <1>1, <1>2, <1>3
<1>5. \A j \in Slots : reasm[j].age \in Nat
  <2>1. Ticks \subseteq Nat
    BY DEF Ticks
  <2> QED
    BY <2>1 DEF Buffers
<1>6. ages \subseteq Nat /\ ages # {}
  BY <1>4, <1>5
<1>7. a \in ages /\ \A x \in ages : a <= x
  BY <1>6, MinIsLeast
<1>8. oldest \subseteq Nat /\ oldest # {}
  <2>1. PICK j \in W : reasm[j].age = a
    BY <1>7
  <2>2. j \in oldest
    BY <2>1
  <2>3. W \subseteq Nat
    BY <1>2, <1>4
  <2> HIDE DEF a, W
  <2> QED
    BY <2>2, <2>3
<1>9. v \in oldest /\ \A x \in oldest : v <= x
  BY <1>8, MinIsLeast
<1>10. v \in W /\ Right(v)
  <2>1. v \in W /\ reasm[v].age = a
    BY <1>9
  <2>2. ASSUME NEW j \in W
        PROVE  a < reasm[j].age \/ (a = reasm[j].age /\ v <= j)
    <3>1. a <= reasm[j].age /\ a \in Nat /\ reasm[j].age \in Nat
      BY <1>4, <1>5, <1>6, <1>7
    <3>2. reasm[j].age = a => v <= j
      BY <1>9
    <3> QED
      BY <3>1, <3>2
  <2> HIDE DEF a, v, W
  <2> QED
    BY <2>1, <2>2
<1>11. Victim = CHOOSE i \in W : Right(i)
  BY DEF Victim, from
<1> HIDE DEF W, v
<1>12. Victim \in W /\ Right(Victim)
  BY <1>10, <1>11
<1>13. ASSUME NEW i \in Slots, reasm[i].used, \A j \in Slots \ {i} : reasm[j].age < reasm[i].age
       PROVE  Victim # i
  <2>1. PICK j \in W : j # i
    <3>1. CASE unused = {}
      <4>1. 0 \in W /\ 1 \in W
        BY <1>1, <1>3, <3>1 DEF W
      <4> QED
        BY <4>1
    <3>2. CASE unused # {}
      BY <1>3, <1>4, <1>13, <3>2
    <3> QED
      BY <3>1, <3>2
  <2>2. j \in Slots /\ reasm[j].age < reasm[i].age
    BY <1>4, <1>13, <2>1
  <2>3. reasm[j].age \in Nat /\ reasm[i].age \in Nat
    BY <1>5, <2>2
  <2>4. ~Right(i)
    BY <2>1, <2>2, <2>3
  <2> QED
    BY <1>12, <2>4
<1> QED
  BY <1>4, <1>12, <1>13

(* The buffer of a datagram's next fragment: the one it has or the victim. *)
LEMMA SlotIsFound ==
    ASSUME reasm \in [Slots -> Buffers], traffic \in Traffics, NEW d
    PROVE  /\ SlotFor(d) \in Slots
           /\ Matching(d) # {} => SlotFor(d) \in Matching(d)
           /\ Matching(d) = {} => SlotFor(d) = Victim
<1>1. Matching(d) \subseteq Slots /\ Slots \subseteq Nat
  BY DEF Matching, Slots
<1>2. Matching(d) # {} => Min(Matching(d)) \in Matching(d)
  BY <1>1, MinIsLeast
<1> QED
  BY <1>1, <1>2, VictimIsOldest DEF SlotFor

(* The hardware address that sendIpv4 looks up. *)
LEMMA LookupTyped ==
    ASSUME TypeOK, NEW ip
    PROVE  lookupMac(ip) \in Macs \cup {Unknown, Group}
<1>1. CASE ip = Everyone
  BY <1>1 DEF lookupMac
<1>2. CASE ip # Everyone /\ \E i \in Entries : Known(i, ip)
  <2> DEFINE K == {i \in Entries : Known(i, ip)}
  <2>1. K \subseteq Nat /\ K # {}
    BY <1>2 DEF Entries
  <2>2. Min(K) \in K /\ \A x \in K : Min(K) <= x
    BY <2>1, MinIsLeast
  <2>3. \E i \in Entries : Known(i, ip) /\ \A j \in 0..i - 1 : ~Known(j, ip)
    <3> DEFINE m == Min(K)
    <3>1. m \in Entries /\ Known(m, ip) /\ \A x \in Entries : Known(x, ip) => m <= x
      BY <2>2
    <3> HIDE DEF m
    <3>2. \A j \in 0..m - 1 : ~Known(j, ip)
      BY <3>1, IpAssumption DEF Entries
    <3> QED
      BY <3>1, <3>2
  <2>4. PICK i \in Entries : lookupMac(ip) = arp[i].mac
    BY <1>2, <2>3 DEF lookupMac
  <2> QED
    BY <2>4 DEF TypeOK
<1>3. CASE ip # Everyone /\ ~\E i \in Entries : Known(i, ip)
  BY <1>3 DEF lookupMac
<1> QED
  BY <1>1, <1>2, <1>3

(***************************************************************************)
(* What a buffer holds.                                                    *)
(***************************************************************************)

(* A fragment that is counted and copied is in the buffer. *)
LEMMA FillHolds ==
    ASSUME traffic \in Traffics, NEW d \in Datagrams, NEW slot \in Buffers,
           NEW fs \in SUBSET Fragments(d), Holds(slot, d, fs),
           NEW f \in Fragments(d) \ fs, f.block * 8 + f.len <= ReasmMax
    PROVE  /\ Filled(slot, f) \in Buffers
           /\ Holds(Filled(slot, f), d, fs \cup {f})
           /\ Filled(slot, f).used = slot.used /\ Filled(slot, f).key = slot.key
           /\ Filled(slot, f).age = slot.age
<1> DEFINE covered == f.block..BlockOf(f.block * 8 + f.len - 1)
           data == [b \in Blocks |-> IF b \in covered THEN f.of ELSE slot.data[b]]
           total == IF f.more THEN slot.total ELSE f.block * 8 + f.len
           received == slot.received + f.len
           gs == fs \cup {f}
<1>1. d.len \in Nat \ {0} /\ ReasmMax \in Nat
  BY IpAssumption DEF Datagrams, TrafficOK
<1>2. IsPiece(f, d) /\ \A g \in fs : IsPiece(g, d)
  BY <1>1, Cutting
<1>3. f.of = d /\ f.block \in Nat /\ f.len \in Nat \ {0} /\ f.block * 8 + f.len <= d.len
      /\ (~f.more <=> f.block * 8 + f.len = d.len)
  BY <1>2 DEF IsPiece
<1>4. /\ Filled(slot, f) = [slot EXCEPT !.data = data, !.received = received, !.total = total]
      /\ slot = [used |-> slot.used, key |-> slot.key, received |-> slot.received,
                 total |-> slot.total, age |-> slot.age, data |-> slot.data]
  BY DEF Filled, Buffers
<1>5. slot.data \in [Blocks -> Datagrams \cup {NoDatagram}] /\ slot.received \in Nat /\ slot.total \in 0..ReasmMax
  BY DEF Buffers
<1>6. data \in [Blocks -> Datagrams \cup {NoDatagram}]
  BY <1>3, <1>5
<1>7. received = Cardinality(Bytes(gs))
  BY <1>1, BytesCovered DEF Holds
<1>8. \A g \in gs : g.block * 8 + g.len <= ReasmMax
  BY DEF Holds
<1>9. received \in 0..ReasmMax
  <2> DEFINE e == ReasmMax - 1
  <2>1. Bytes(gs) \subseteq 0..e
    BY <1>1, <1>2, <1>8 DEF Bytes, BytesOf, IsPiece
  <2>2. 0 \in Int /\ e \in Int
    BY <1>1
  <2>3. IsFiniteSet(0..e) /\ Cardinality(0..e) = IF 0 > e THEN 0 ELSE e - 0 + 1
    <3> HIDE DEF e
    <3> QED
      BY ONLY <2>2, FS_Interval, Zenon
  <2>4. Cardinality(0..e) = ReasmMax
    BY <1>1, <2>3
  <2>5. Cardinality(Bytes(gs)) <= Cardinality(0..e)
    BY <2>1, <2>3, FS_Subset
  <2>6. received \in Nat
    BY <1>3, <1>5
  <2> QED
    BY <1>1, <1>7, <2>4, <2>5, <2>6
<1>10. total \in 0..ReasmMax
  BY <1>1, <1>3, <1>5
<1>11. total = IF \E g \in gs : ~g.more THEN d.len ELSE 0
  <2>1. CASE f.more
    BY <2>1 DEF Holds
  <2>2. CASE ~f.more
    BY <1>3, <2>2
  <2> QED
    BY <2>1, <2>2
<1>12. ASSUME NEW g \in gs, NEW b \in g.block..BlockOf(g.block * 8 + g.len - 1)
       PROVE  data[b] = d
  <2>1. b \in Blocks
    BY <1>1, <1>2, <1>8, <1>12 DEF IsPiece, Blocks, BlockOf
  <2>2. CASE g = f
    BY <1>3, <1>12, <2>1, <2>2
  <2>3. CASE g # f
    <3>1. slot.data[b] = d
      BY <1>12, <2>3 DEF Holds
    <3> QED
      BY <1>3, <2>1, <3>1
  <2> QED
    BY <2>2, <2>3
<1> HIDE DEF data, total, received, covered
<1>13. Filled(slot, f) = [used |-> slot.used, key |-> slot.key, received |-> received,
                          total |-> total, age |-> slot.age, data |-> data]
  BY <1>4
<1>14. Filled(slot, f) \in Buffers
  BY <1>6, <1>9, <1>10, <1>13 DEF Buffers
<1>15. Holds(Filled(slot, f), d, gs)
  BY <1>7, <1>8, <1>11, <1>12, <1>13 DEF Holds
<1> QED
  BY <1>13, <1>14, <1>15

(* When the count has reached the length everything is there, in place. *)
LEMMA CompleteIsAll ==
    ASSUME NEW d, d.len \in Nat \ {0}, NEW slot,
           NEW fs \in SUBSET Fragments(d), Holds(slot, d, fs), Complete(slot)
    PROVE  fs = Fragments(d) /\ Payload(slot) = PayloadOf(d)
<1>1. \A f \in Fragments(d) : IsPiece(f, d)
  BY Cutting
<1>2. slot.total = d.len /\ slot.received = Cardinality(Bytes(fs)) /\ slot.received >= d.len
  BY DEF Holds, Complete
<1>3. Bytes(fs) = 0..d.len - 1
  <2> DEFINE e == d.len - 1
  <2>1. 0 \in Int /\ e \in Int
    OBVIOUS
  <2>2. IsFiniteSet(0..e) /\ Cardinality(0..e) = IF 0 > e THEN 0 ELSE e - 0 + 1
    <3> HIDE DEF e
    <3> QED
      BY ONLY <2>1, FS_Interval, Zenon
  <2>3. Cardinality(0..e) = d.len
    BY <2>2
  <2>4. Bytes(fs) \subseteq 0..e /\ Cardinality(Bytes(fs)) \in Nat /\ Cardinality(Bytes(fs)) <= d.len
    BY BytesCovered
  <2>5. Cardinality(Bytes(fs)) = Cardinality(0..e)
    BY <1>2, <2>3, <2>4
  <2>6. Cardinality(0..e) = Cardinality(Bytes(fs)) => 0..e = Bytes(fs)
    <3> HIDE DEF e
    <3> QED
      BY <2>2, <2>4, FS_Subset
  <2> QED
    BY <2>5, <2>6
<1>4. fs = Fragments(d)
  <2> SUFFICES ASSUME NEW g \in Fragments(d)
               PROVE  g \in fs
    OBVIOUS
  <2>1. IsPiece(g, d)
    BY <1>1
  <2>2. g.block * 8 \in 0..d.len - 1
    BY <2>1 DEF IsPiece
  <2>3. PICK f \in fs : g.block * 8 \in BytesOf(f)
    BY <1>3, <2>2 DEF Bytes
  <2>4. IsPiece(f, d)
    BY <1>1
  <2>5. f = g \/ f.block * 8 + f.len <= g.block * 8 \/ g.block * 8 + g.len <= f.block * 8
    BY Cutting
  <2>6. f = g
    <3>1. /\ f.block \in Nat /\ f.len \in Nat \ {0}
          /\ g.block \in Nat /\ g.len \in Nat \ {0}
      BY <2>1, <2>4 DEF IsPiece
    <3>2. f.block * 8 <= g.block * 8 /\ g.block * 8 <= f.block * 8 + f.len - 1
      BY <2>3, <3>1 DEF BytesOf
    <3> QED
      BY <2>5, <3>1, <3>2
  <2> QED
    BY <2>6
<1>5. \A b \in 0..BlockOf(d.len - 1) : slot.data[b] = d
  <2> TAKE b \in 0..BlockOf(d.len - 1)
  <2>1. b \in Nat /\ b * 8 \in 0..d.len - 1
    BY DEF BlockOf
  <2>2. PICK f \in fs : b * 8 \in BytesOf(f)
    BY <1>3, <2>1 DEF Bytes
  <2>3. IsPiece(f, d)
    BY <1>1
  <2>4. b \in f.block..BlockOf(f.block * 8 + f.len - 1)
    BY <2>1, <2>2, <2>3 DEF IsPiece, BytesOf, BlockOf
  <2> QED
    BY <2>4 DEF Holds
<1>6. Payload(slot) = PayloadOf(d)
  BY <1>2, <1>5 DEF Payload, PayloadOf
<1> QED
  BY <1>4, <1>6

(* When everything is there the count has reached the length. *)
LEMMA AllIsComplete ==
    ASSUME NEW d, d.len \in Nat \ {0}, NEW slot, Holds(slot, d, Fragments(d))
    PROVE  Complete(slot)
<1>1. \A f \in Fragments(d) : IsPiece(f, d)
  BY Cutting
<1>2. Bytes(Fragments(d)) = 0..d.len - 1
  <2>1. Bytes(Fragments(d)) \subseteq 0..d.len - 1
    BY BytesCovered
  <2>2. 0..d.len - 1 \subseteq Bytes(Fragments(d))
    BY Cutting DEF Bytes
  <2> QED
    BY <2>1, <2>2
<1>3. Cardinality(0..d.len - 1) = d.len
  <2> DEFINE e == d.len - 1
  <2>1. 0 \in Int /\ e \in Int
    OBVIOUS
  <2>2. IsFiniteSet(0..e) /\ Cardinality(0..e) = IF 0 > e THEN 0 ELSE e - 0 + 1
    <3> HIDE DEF e
    <3> QED
      BY ONLY <2>1, FS_Interval, Zenon
  <2> QED
    BY <2>2
<1>4. \E f \in Fragments(d) : ~f.more
  <2>1. d.len - 1 \in 0..d.len - 1
    OBVIOUS
  <2>2. PICK f \in Fragments(d) : d.len - 1 \in BytesOf(f)
    BY <2>1, Cutting
  <2>3. IsPiece(f, d)
    BY <1>1
  <2>4. f.block * 8 + f.len = d.len
    <3>1. f.block \in Nat /\ f.len \in Nat \ {0} /\ f.block * 8 + f.len <= d.len
      BY <2>3 DEF IsPiece
    <3>2. d.len - 1 <= f.block * 8 + f.len - 1
      BY <2>2, <3>1 DEF BytesOf
    <3> QED
      BY <3>1, <3>2
  <2> QED
    BY <2>3, <2>4 DEF IsPiece
<1> QED
  BY <1>2, <1>3, <1>4 DEF Holds, Complete

(***************************************************************************)
(* The inductive invariant.                                                *)
(***************************************************************************)

(* Datagrams are numbered, each fragment arrives once, and m_tick has gone  *)
(* on by no more than two for each fragment that has left the wire.        *)
Counted ==
    /\ IsFiniteSet(sent)
    /\ \A d \in sent : d.id <= Cardinality(sent)
    /\ wire \cap arrived = {}
    /\ tick + 2 * Cardinality(wire) <= traffic.ticks + 2 * Cardinality(Frames(sent))
    /\ Cardinality(Frames(sent)) <= traffic.frames

(* A datagram has one buffer at most, with fragments of it that arrived. *)
Buffered ==
    /\ \A f \in arrived : f.of \in DOMAIN between
    /\ \A i \in Slots : reasm[i].used =>
           /\ reasm[i].key \in DOMAIN between
           /\ \E fs \in SUBSET ArrivedOf(reasm[i].key) : Holds(reasm[i], reasm[i].key, fs)
    /\ \A i, j \in Slots :
           reasm[i].used /\ reasm[j].used /\ reasm[i].key = reasm[j].key => i = j

(* The premise of TwoAtOnce. *)
Sheltered(d) ==
    /\ Fits(d)
    /\ Cardinality(between[d]) <= 1
    /\ \A o \in between[d] : Fits(o)

(* Slot i has all of d that has arrived, and a slot that was used since is   *)
(* with the other datagram, or was until that was complete.                *)
Kept(i, d) ==
    /\ reasm[i].used /\ reasm[i].key = d
    /\ Holds(reasm[i], d, ArrivedOf(d))
    /\ ArrivedOf(d) # Fragments(d)
    /\ \A j \in Slots \ {i} :
           reasm[i].age <= reasm[j].age =>
               /\ reasm[j].key \in between[d]
               /\ reasm[j].used \/ Fragments(reasm[j].key) \subseteq arrived

Protected ==
    resets = 0 =>
        /\ \A i \in Slots : reasm[i].age <= tick
        /\ \A d \in DOMAIN between :
               Sheltered(d) => PayloadOf(d) \in handed \/ \E i \in Slots : Kept(i, d)

Inv == TypeOK /\ Counted /\ Buffered /\ HandedIsSent /\ Protected

(***************************************************************************)
(* What the steps have in common.                                          *)
(***************************************************************************)

(* Datagrams have a length, the wire and what is sent are finite.          *)
LEMMA FiniteTraffic ==
    ASSUME TypeOK, Counted
    PROVE  /\ traffic.ticks \in Nat /\ traffic.frames \in Nat /\ traffic.sends \in Nat
           /\ \A d \in sent : d \in Datagrams /\ d.len \in Nat \ {0}
           /\ Cardinality(sent) \in Nat
           /\ IsFiniteSet(Frames(sent)) /\ Cardinality(Frames(sent)) \in Nat
           /\ wire \subseteq Frames(sent) /\ arrived \subseteq Frames(sent)
           /\ IsFiniteSet(wire) /\ Cardinality(wire) \in Nat /\ Cardinality(wire) <= Cardinality(Frames(sent))
           /\ \A f \in Frames(sent) : f.of \in sent /\ f \in Fragments(f.of) /\ IsPiece(f, f.of)
           /\ tick \in Nat
<1>1. TrafficOK(traffic)
  BY IpAssumption DEF TypeOK
<1>2. \A d \in sent : d \in Datagrams /\ d.len \in Nat \ {0}
  BY <1>1 DEF TypeOK, TrafficOK, Datagrams
<1>3. IsFiniteSet(Frames(sent))
  <2> DEFINE F == [d \in sent |-> Fragments(d)]
             R == {Fragments(d) : d \in sent}
  <2>1. F \in Surjection(sent, R)
    BY DEF Surjection
  <2>2. IsFiniteSet(R)
    BY <2>1, FS_Surjection DEF Counted
  <2>3. \A T \in R : IsFiniteSet(T)
    BY <1>2, Cutting
  <2> QED
    BY <2>2, <2>3, FS_UNION DEF Frames
<1>4. wire \subseteq Frames(sent) /\ arrived \subseteq Frames(sent)
  BY DEF TypeOK
<1>5. /\ IsFiniteSet(wire) /\ Cardinality(wire) \in Nat
      /\ Cardinality(wire) <= Cardinality(Frames(sent)) /\ Cardinality(Frames(sent)) \in Nat
  BY <1>3, <1>4, FS_Subset, FS_CardinalityType
<1>6. \A f \in Frames(sent) : f.of \in sent /\ f \in Fragments(f.of) /\ IsPiece(f, f.of)
  <2> TAKE f \in Frames(sent)
  <2>1. PICK d \in sent : f \in Fragments(d)
    BY DEF Frames
  <2>2. IsPiece(f, d)
    BY <1>2, <2>1, Cutting
  <2>3. f.of = d
    BY <2>2 DEF IsPiece
  <2> QED
    BY <2>1, <2>2, <2>3
<1>7. Cardinality(sent) \in Nat
  BY FS_CardinalityType DEF Counted
<1>8. traffic.ticks \in Nat /\ traffic.frames \in Nat /\ traffic.sends \in Nat
  BY <1>1 DEF TrafficOK
<1>9. tick \in Nat
  BY <1>8 DEF TypeOK, Ticks
<1> QED
  BY <1>2, <1>3, <1>4, <1>5, <1>6, <1>7, <1>8, <1>9

(* Learning keeps the table's type and takes at most one tick. *)
LEMMA LearnTyped ==
    ASSUME TypeOK, Counted, NEW ip, NEW mac, tick + 1 \in Ticks
    PROVE  /\ learnMac(ip, mac).arp
                  \in [Entries -> [ip : Hosts \cup {Everyone}, mac : Macs \cup {Unknown}, lastUsed : Ticks]]
           /\ learnMac(ip, mac).tick \in {tick, tick + 1}
<1> DEFINE E == [ip : Hosts \cup {Everyone}, mac : Macs \cup {Unknown}, lastUsed : Ticks]
<1>1. arp \in [Entries -> E]
  BY DEF TypeOK
<1>2. CASE Learns(ip, mac)
  <2> DEFINE e == [ip |-> ip, mac |-> mac, lastUsed |-> tick + 1]
             p == PlaceFor(ip)
  <2>1. e \in E
    BY <1>2 DEF Learns
  <2>2. learnMac(ip, mac) = [arp |-> [arp EXCEPT ![p] = e], tick |-> tick + 1]
    BY <1>2 DEF learnMac
  <2> HIDE DEF e, p, E
  <2>3. [arp EXCEPT ![p] = e] \in [Entries -> E]
    BY <1>1, <2>1
  <2> QED
    BY <2>2, <2>3 DEF E
<1>3. CASE ~Learns(ip, mac)
  <2>1. learnMac(ip, mac) = [arp |-> arp, tick |-> tick]
    BY <1>3 DEF learnMac
  <2> QED
    BY <1>1, <2>1
<1> QED
  BY <1>2, <1>3

(* A fragment leaves the wire and takes at most two ticks. *)
LEMMA WireShrinks ==
    ASSUME TypeOK, Counted, NEW f \in wire, wire' = wire \ {f}, sent' = sent, traffic' = traffic,
           arrived' \subseteq arrived \cup {f}, tick' \in Nat, tick' <= tick + 2
    PROVE  /\ tick + 1 \in Ticks /\ tick + 2 \in Ticks /\ tick' \in Ticks'
           /\ Counted'
           /\ wire' \cup arrived' \subseteq Frames(sent')
<1>1. /\ tick + 2 * Cardinality(wire) <= traffic.ticks + 2 * Cardinality(Frames(sent))
      /\ Cardinality(Frames(sent)) <= traffic.frames
  BY DEF Counted
<1>2. IsFiniteSet(wire') /\ Cardinality(wire') = Cardinality(wire) - 1
  BY FiniteTraffic, FS_RemoveElement
<1>3. Cardinality(wire') \in Nat
  BY <1>2, FS_CardinalityType
<1>4. /\ Cardinality(wire) \in Nat /\ Cardinality(Frames(sent)) \in Nat /\ tick \in Nat
      /\ traffic.ticks \in Nat /\ traffic.frames \in Nat
  BY FiniteTraffic
<1>5. tick + 2 <= traffic.ticks + 2 * traffic.frames
  BY <1>1, <1>2, <1>3, <1>4
<1>6. tick + 1 \in Ticks /\ tick + 2 \in Ticks /\ tick' \in Ticks'
  BY <1>4, <1>5 DEF Ticks
<1>7. tick' + 2 * Cardinality(wire') <= traffic'.ticks + 2 * Cardinality(Frames(sent'))
  BY <1>1, <1>2, <1>4
<1>8. wire' \cap arrived' = {}
  BY DEF Counted
<1>9. Counted'
  BY <1>1, <1>7, <1>8 DEF Counted
<1>10. wire' \cup arrived' \subseteq Frames(sent')
  BY FiniteTraffic
<1> QED
  BY <1>6, <1>9, <1>10

(* Nothing has changed in what the buffers hold. *)
LEMMA SameBuffers ==
    ASSUME TypeOK, Buffered, UNCHANGED <<reasm, arrived, between>>
    PROVE  Buffered'
  BY DEF Buffered, ArrivedOf

(* Nor in what is kept, if time has gone on. *)
LEMMA SameKept ==
    ASSUME TypeOK, Protected, UNCHANGED <<reasm, arrived, between, resets>>,
           tick \in Nat, tick' \in Nat, tick <= tick', handed \subseteq handed'
    PROVE  Protected'
<1> SUFFICES ASSUME resets' = 0
             PROVE  /\ \A i \in Slots : reasm'[i].age <= tick'
                    /\ \A d \in DOMAIN between' :
                          Sheltered(d)' => PayloadOf(d) \in handed' \/ \E i \in Slots : Kept(i, d)'
  BY DEF Protected
<1>1. ASSUME NEW i \in Slots
      PROVE  reasm'[i].age <= tick'
  <2>1. reasm[i].age <= tick /\ reasm[i].age \in Nat
    BY DEF Protected, TypeOK, Buffers, Ticks
  <2> QED
    BY <2>1
<1>2. ASSUME NEW d \in DOMAIN between', Sheltered(d)'
      PROVE  PayloadOf(d) \in handed' \/ \E i \in Slots : Kept(i, d)'
  <2>1. Sheltered(d)
    BY <1>2 DEF Sheltered
  <2>2. \A i \in Slots : Kept(i, d) => Kept(i, d)'
    BY DEF Kept, ArrivedOf
  <2> QED
    BY <2>1, <2>2 DEF Protected
<1> QED
  BY <1>1, <1>2

(***************************************************************************)
(* One lemma per action.                                                   *)
(***************************************************************************)

LEMMA InitInv == Init => Inv
<1> SUFFICES ASSUME Init
             PROVE  Inv
  OBVIOUS
<1>1. TrafficOK(traffic) /\ ArpEntries \in Nat /\ ReasmMax \in Nat /\ MaxResets \in Nat
  BY IpAssumption DEF Init
<1>2. 0 \in Ticks
  BY <1>1 DEF Ticks, TrafficOK
<1>3. FreeSlot \in Buffers
  BY <1>1, <1>2 DEF FreeSlot, Buffers
<1>4. NoNeighbour \in [ip : Hosts \cup {Everyone}, mac : Macs \cup {Unknown}, lastUsed : Ticks]
  BY <1>2 DEF NoNeighbour
<1>5. Frames({}) = {}
  BY DEF Frames
<1>6. TypeOK
  <2>1. arp \in [Entries -> [ip : Hosts \cup {Everyone}, mac : Macs \cup {Unknown}, lastUsed : Ticks]]
    BY <1>4 DEF Init
  <2>2. reasm \in [Slots -> Buffers]
    BY <1>3 DEF Init
  <2>3. lookup \in [ip : Hosts \cup {Everyone}, mac : Macs \cup {Unknown, Group}]
    BY DEF Init
  <2>4. between \in [DOMAIN between -> SUBSET sent] /\ DOMAIN between \subseteq sent
    BY DEF Init
  <2>5. resets \in 0..MaxResets
    BY <1>1 DEF Init
  <2>6. tick \in Ticks /\ sent \subseteq Datagrams /\ wire \cup arrived \subseteq Frames(sent) /\ traffic \in Traffics
    BY <1>2 DEF Init
  <2> QED
    BY <2>1, <2>2, <2>3, <2>4, <2>5, <2>6 DEF TypeOK
<1>7. Counted
  <2>1. sent = {} /\ wire = {} /\ arrived = {} /\ tick = 0
    BY DEF Init
  <2>2. IsFiniteSet({}) /\ Cardinality({}) = 0
    BY FS_EmptySet
  <2>3. traffic.ticks \in Nat /\ traffic.frames \in Nat
    BY <1>1 DEF TrafficOK
  <2> QED
    BY <1>5, <2>1, <2>2, <2>3 DEF Counted
<1>8. \A i \in Slots : reasm[i].used = FALSE /\ reasm[i].age = 0
  BY DEF Init, FreeSlot
<1>9. Buffered
  BY <1>8 DEF Init, Buffered
<1>10. Protected
  BY <1>8 DEF Init, Protected
<1>11. HandedIsSent
  BY DEF Init, HandedIsSent
<1> QED
  BY <1>6, <1>7, <1>9, <1>10, <1>11 DEF Inv

LEMMA ResetStep ==
    ASSUME Inv, reset, traffic' = traffic
    PROVE  Inv'
<1> USE DEF Inv
<1>1. /\ resets \in Nat /\ resets' = resets + 1 /\ resets' \in 0..MaxResets /\ resets' # 0
  BY IpAssumption DEF reset, TypeOK
<1>2. traffic.ticks \in Nat /\ traffic.frames \in Nat /\ tick \in Nat
  BY FiniteTraffic
<1>3. 0 \in Ticks /\ tick' = 0
  BY <1>2 DEF reset, Ticks
<1>4. reasm' = [i \in Slots |-> [reasm[i] EXCEPT !.used = FALSE]]
  BY DEF reset
<1>5. \A b \in Buffers : [b EXCEPT !.used = FALSE] \in Buffers /\ [b EXCEPT !.used = FALSE].used = FALSE
  BY DEF Buffers
<1>6. TypeOK'
  <2>1. reasm' \in [Slots -> Buffers]
    BY <1>4, <1>5 DEF TypeOK
  <2>2. NoNeighbour \in [ip : Hosts \cup {Everyone}, mac : Macs \cup {Unknown}, lastUsed : Ticks]
    BY <1>3 DEF NoNeighbour
  <2>3. arp' \in [Entries -> [ip : Hosts \cup {Everyone}, mac : Macs \cup {Unknown}, lastUsed : Ticks]]
    BY <2>2 DEF reset
  <2> QED
    BY <1>1, <1>3, <2>1, <2>3 DEF reset, rxVars, TypeOK, Buffers, Datagrams, Ticks
<1>7. Counted'
  <2>1. tick' + 2 * Cardinality(wire) <= traffic.ticks + 2 * Cardinality(Frames(sent))
    BY <1>2, <1>3, FiniteTraffic DEF Counted
  <2> QED
    BY <2>1 DEF reset, rxVars, Counted
<1>8. Buffered'
  <2>1. \A i \in Slots : reasm'[i].used = FALSE
    BY <1>4, <1>5 DEF TypeOK
  <2> QED
    BY <2>1 DEF reset, rxVars, Buffered
<1>9. Protected'
  BY <1>1 DEF Protected
<1>10. HandedIsSent'
  BY DEF reset, rxVars, HandedIsSent
<1> QED
  BY <1>6, <1>7, <1>8, <1>9, <1>10

LEMMA ArpStep ==
    ASSUME Inv, NEW ip, NEW senderMac, NEW srcMac, onArp(ip, senderMac, srcMac), traffic' = traffic
    PROVE  Inv'
<1> USE DEF Inv
<1> DEFINE mac == IF senderMac = Unknown THEN srcMac ELSE senderMac
           after == learnMac(ip, mac)
<1>1. /\ tick < traffic.ticks /\ arp' = after.arp /\ tick' = after.tick
      /\ UNCHANGED <<reasm, wire, sent, arrived, between, handed, lookup, resets>>
  BY DEF onArp, rxVars
<1>2. /\ traffic.ticks \in Nat /\ traffic.frames \in Nat /\ tick \in Nat
      /\ Cardinality(wire) \in Nat /\ Cardinality(Frames(sent)) \in Nat
      /\ Cardinality(wire) <= Cardinality(Frames(sent))
  BY FiniteTraffic
<1>3. tick + 1 \in Ticks
  BY <1>1, <1>2 DEF Ticks
<1> HIDE DEF mac
<1>4. /\ arp' \in [Entries -> [ip : Hosts \cup {Everyone}, mac : Macs \cup {Unknown}, lastUsed : Ticks]]
      /\ tick' \in {tick, tick + 1}
  BY <1>1, <1>3, LearnTyped
<1>5. TypeOK'
  BY <1>1, <1>3, <1>4 DEF TypeOK, Buffers, Datagrams, Ticks
<1>6. Counted'
  <2>1. tick' + 2 * Cardinality(wire) <= traffic.ticks + 2 * Cardinality(Frames(sent))
    BY <1>1, <1>2, <1>4
  <2> QED
    BY <1>1, <2>1 DEF Counted
<1>7. Buffered' /\ Protected'
  BY <1>1, <1>2, <1>4, SameBuffers, SameKept
<1>8. HandedIsSent'
  BY <1>1 DEF HandedIsSent
<1> QED
  BY <1>5, <1>6, <1>7, <1>8

LEMMA SendStep ==
    ASSUME Inv, NEW ip \in traffic.targets, sendIpv4(ip), traffic' = traffic
    PROVE  Inv'
<1> USE DEF Inv
<1>1. /\ lookup' = [ip |-> ip, mac |-> lookupMac(ip)]
      /\ UNCHANGED <<arp, reasm, tick, wire, sent, arrived, between, handed, resets>>
  BY DEF sendIpv4, rxVars
<1>2. ip \in Hosts \cup {Everyone} /\ lookupMac(ip) \in Macs \cup {Unknown, Group}
  BY IpAssumption, LookupTyped DEF TypeOK, TrafficOK
<1>3. lookup' \in [ip : Hosts \cup {Everyone}, mac : Macs \cup {Unknown, Group}]
  BY <1>1, <1>2
<1>4. TypeOK'
  BY <1>1, <1>3 DEF TypeOK, Buffers, Datagrams, Ticks
<1>5. Counted' /\ HandedIsSent'
  BY <1>1 DEF Counted, HandedIsSent
<1>6. Buffered' /\ Protected'
  BY <1>1, FiniteTraffic, SameBuffers, SameKept
<1> QED
  BY <1>4, <1>5, <1>6

LEMMA PeerStep ==
    ASSUME Inv, NEW h \in traffic.hosts, NEW len \in traffic.lengths, PeerSends(h, len), traffic' = traffic
    PROVE  Inv'
<1> USE DEF Inv
<1> DEFINE d == [src |-> h, id |-> Cardinality(sent) + 1, len |-> len]
           new == Fragments(d)
<1>1. /\ Cardinality(sent) < traffic.sends
      /\ Cardinality(Frames(sent \cup {d})) <= traffic.frames
      /\ sent' = sent \cup {d} /\ wire' = wire \cup new
      /\ UNCHANGED <<arp, reasm, tick, arrived, between, handed, lookup, resets>>
  BY DEF PeerSends
<1>2. d \in Datagrams /\ d.len \in Nat \ {0} /\ d.id = Cardinality(sent) + 1
  <2>1. Cardinality(sent) + 1 \in 1..traffic.sends /\ len \in Nat \ {0}
    BY <1>1, FiniteTraffic, IpAssumption DEF TypeOK, TrafficOK
  <2> QED
    BY <2>1 DEF Datagrams
<1>3. Cardinality(sent) \in Nat /\ IsFiniteSet(sent)
  BY FiniteTraffic DEF Counted
<1>4. d \notin sent
  <2>1. \A e \in sent : e.id <= Cardinality(sent) /\ e.id \in Nat
    BY DEF Counted, TypeOK, Datagrams
  <2> QED
    BY <1>2, <1>3, <2>1
<1> HIDE DEF d
<1>5. IsFiniteSet(new) /\ \A f \in new : f.of = d
  BY <1>2, Cutting DEF IsPiece
<1>6. new \cap Frames(sent) = {}
  BY <1>4, <1>5, FiniteTraffic
<1>7. Frames(sent') = Frames(sent) \cup new
  BY <1>1 DEF Frames
<1> HIDE DEF new
<1>8. IsFiniteSet(sent') /\ Cardinality(sent') = Cardinality(sent) + 1
  BY <1>1, <1>3, <1>4, FS_AddElement
<1>9. /\ IsFiniteSet(wire) /\ IsFiniteSet(Frames(sent)) /\ wire \subseteq Frames(sent) /\ arrived \subseteq Frames(sent)
      /\ Cardinality(wire) \in Nat /\ Cardinality(Frames(sent)) \in Nat /\ Cardinality(new) \in Nat
  BY <1>5, FiniteTraffic, FS_CardinalityType
<1>10. Cardinality(wire') = Cardinality(wire) + Cardinality(new)
  <2>1. wire \cap new = {}
    BY <1>6, <1>9
  <2>2. Cardinality(wire \cup new) = Cardinality(wire) + Cardinality(new) - Cardinality(wire \cap new)
    BY <1>5, <1>9, FS_Union, Zenon
  <2>3. Cardinality(wire \cap new) = 0
    BY <2>1, FS_EmptySet
  <2> QED
    BY <1>1, <1>9, <2>2, <2>3
<1>11. Cardinality(Frames(sent')) = Cardinality(Frames(sent)) + Cardinality(new)
  <2>1. Cardinality(Frames(sent) \cup new) = Cardinality(Frames(sent)) + Cardinality(new) - Cardinality(Frames(sent) \cap new)
    BY <1>5, <1>9, FS_Union, Zenon
  <2>2. Cardinality(Frames(sent) \cap new) = 0
    <3>1. Frames(sent) \cap new = {}
      BY <1>6
    <3> QED
      BY <3>1, FS_EmptySet
  <2> QED
    BY <1>7, <1>9, <2>1, <2>2
<1>12. TypeOK'
  <2>1. sent' \subseteq Datagrams'
    BY <1>1, <1>2 DEF TypeOK, Datagrams
  <2>2. wire' \cup arrived' \subseteq Frames(sent')
    BY <1>1, <1>7, <1>9
  <2>3. between' \in [DOMAIN between' -> SUBSET sent'] /\ DOMAIN between' \subseteq sent'
    <3>1. between \in [DOMAIN between -> SUBSET sent] /\ DOMAIN between \subseteq sent
      BY DEF TypeOK
    <3>2. between' = between /\ sent \subseteq sent'
      BY <1>1
    <3> QED
      BY <3>1, <3>2
  <2> QED
    BY <1>1, <2>1, <2>2, <2>3 DEF TypeOK, Buffers, Datagrams, Ticks
<1>13. Counted'
  <2>1. \A e \in sent' : e.id <= Cardinality(sent')
    <3>1. \A e \in sent : e.id <= Cardinality(sent) /\ e.id \in Nat
      BY DEF Counted, TypeOK, Datagrams
    <3> QED
      BY <1>1, <1>2, <1>3, <1>8, <3>1
  <2>2. wire' \cap arrived' = {}
    BY <1>1, <1>6, <1>9 DEF Counted
  <2>3. tick + 2 * Cardinality(wire) <= traffic.ticks + 2 * Cardinality(Frames(sent))
    BY DEF Counted
  <2>4. tick' + 2 * Cardinality(wire') <= traffic'.ticks + 2 * Cardinality(Frames(sent'))
    BY <1>1, <1>9, <1>10, <1>11, <2>3, FiniteTraffic
  <2>5. Cardinality(Frames(sent')) <= traffic'.frames
    BY <1>1
  <2> QED
    BY <1>8, <2>1, <2>2, <2>4, <2>5 DEF Counted
<1>14. Buffered' /\ Protected'
  BY <1>1, FiniteTraffic, SameBuffers, SameKept
<1>15. HandedIsSent'
  BY <1>1 DEF HandedIsSent
<1> QED
  BY <1>12, <1>13, <1>14, <1>15

LEMMA WholeStep ==
    ASSUME Inv, NEW f \in wire, NEW mac, onIpv4Whole(f, mac), traffic' = traffic
    PROVE  Inv'
<1> USE DEF Inv
<1> DEFINE after == learnMac(f.of.src, mac)
<1>1. /\ Whole(f) /\ arp' = after.arp /\ tick' = after.tick /\ wire' = wire \ {f}
      /\ handed' = handed \cup {[len |-> f.len, data |-> [b \in 0..BlockOf(f.len - 1) |-> f.of]]}
      /\ UNCHANGED <<reasm, sent, arrived, between, lookup, resets>>
  BY DEF onIpv4Whole
<1>2. tick \in Nat /\ f.of \in sent /\ IsPiece(f, f.of)
  BY FiniteTraffic
<1>3. tick + 1 \in Ticks
  <2>1. tick + 2 \in Ticks
    <3>1. /\ IsFiniteSet(wire \ {f}) /\ Cardinality(wire \ {f}) = Cardinality(wire) - 1
      BY FiniteTraffic, FS_RemoveElement
    <3>2. Cardinality(wire \ {f}) \in Nat
      BY <3>1, FS_CardinalityType
    <3> QED
      BY <3>1, <3>2, FiniteTraffic DEF Counted, Ticks
  <2> QED
    BY <1>2, <2>1, FiniteTraffic DEF Ticks
<1>4. /\ arp' \in [Entries -> [ip : Hosts \cup {Everyone}, mac : Macs \cup {Unknown}, lastUsed : Ticks]]
      /\ tick' \in {tick, tick + 1}
  BY <1>1, <1>3, LearnTyped
<1>5. /\ tick' \in Ticks' /\ Counted' /\ wire' \cup arrived' \subseteq Frames(sent')
  <2>1. tick' \in Nat /\ tick' <= tick + 2
    BY <1>2, <1>4
  <2> QED
    BY <1>1, <2>1, WireShrinks
<1>6. TypeOK'
  BY <1>1, <1>4, <1>5 DEF TypeOK, Buffers, Datagrams, Ticks
<1>7. Buffered' /\ Protected'
  <2>1. tick' \in Nat /\ tick <= tick' /\ handed \subseteq handed'
    BY <1>1, <1>2, <1>4
  <2> QED
    BY <1>1, <1>2, <2>1, SameBuffers, SameKept
<1>8. HandedIsSent'
  <2>1. f.len = f.of.len
    BY <1>1, <1>2 DEF Whole, IsPiece
  <2> QED
    BY <1>1, <1>2, <2>1 DEF HandedIsSent
<1> QED
  BY <1>5, <1>6, <1>7, <1>8

(***************************************************************************)
(* A fragment arrives.                                                     *)
(***************************************************************************)

(* The buffer it goes to, started afresh or not, holds some of what has      *)
(* arrived of its datagram, and nothing else does.                         *)
LEMMA OpenHolds ==
    ASSUME Inv, NEW d \in sent
    PROVE  /\ SlotFor(d) \in Slots
           /\ Opened(d) \in Buffers /\ Opened(d).used = TRUE /\ Opened(d).key = d
           /\ \E fs \in SUBSET ArrivedOf(d) : Holds(Opened(d), d, fs)
           /\ \A i \in Slots \ {SlotFor(d)} : ~(reasm[i].used /\ reasm[i].key = d)
           /\ \A i \in Slots : reasm[i].used /\ reasm[i].key = d =>
                 SlotFor(d) = i /\ Opened(d) = reasm[i]
<1> USE DEF Inv
<1>1. reasm \in [Slots -> Buffers] /\ traffic \in Traffics
  BY DEF TypeOK
<1>2. /\ SlotFor(d) \in Slots
      /\ Matching(d) # {} => SlotFor(d) \in Matching(d)
  BY <1>1, SlotIsFound
<1>3. CASE Matching(d) # {}
  <2>1. Opened(d) = reasm[SlotFor(d)]
    BY <1>3 DEF Opened
  <2>2. SlotFor(d) \in Slots /\ reasm[SlotFor(d)].used /\ reasm[SlotFor(d)].key = d
    BY <1>2, <1>3 DEF Matching
  <2>3. reasm[SlotFor(d)] \in Buffers
    BY <1>1, <2>2
  <2>4. reasm[SlotFor(d)].used = TRUE
    BY <2>2, <2>3 DEF Buffers
  <2>5. \E fs \in SUBSET ArrivedOf(d) : Holds(reasm[SlotFor(d)], d, fs)
    BY <2>2 DEF Buffered
  <2>6. \A i \in Slots : reasm[i].used /\ reasm[i].key = d => i = SlotFor(d)
    BY <2>2 DEF Buffered
  <2> QED
    BY <2>1, <2>2, <2>3, <2>4, <2>5, <2>6
<1>4. CASE Matching(d) = {}
  <2> DEFINE slot == reasm[SlotFor(d)]
             o == [slot EXCEPT !.used = TRUE, !.key = d, !.received = 0, !.total = 0]
  <2>1. Opened(d) = o
    BY <1>4 DEF Opened
  <2>2. slot \in Buffers /\ d \in Datagrams /\ 0 \in 0..ReasmMax
    BY <1>1, <1>2, IpAssumption DEF TypeOK
  <2> HIDE DEF slot
  <2>3. /\ o \in Buffers /\ o.used = TRUE /\ o.key = d /\ o.received = 0 /\ o.total = 0
    BY <2>2 DEF Buffers
  <2>4. Holds(o, d, {})
    <3>1. Bytes({}) = {} /\ Cardinality({}) = 0
      BY FS_EmptySet DEF Bytes
    <3> HIDE DEF o
    <3> QED
      BY <2>3, <3>1 DEF Holds
  <2>5. {} \in SUBSET ArrivedOf(d)
    OBVIOUS
  <2>6. \A i \in Slots : ~(reasm[i].used /\ reasm[i].key = d)
    BY <1>4 DEF Matching
  <2> HIDE DEF o
  <2> QED
    BY <1>2, <2>1, <2>3, <2>4, <2>5, <2>6
<1> QED
  BY <1>3, <1>4

(* A buffer's age says nothing of what it holds. *)
LEMMA Ageing ==
    ASSUME NEW slot \in Buffers, NEW a \in Ticks
    PROVE  LET s == [slot EXCEPT !.age = a] IN
           /\ s \in Buffers /\ s.age = a /\ s.used = slot.used /\ s.key = slot.key
           /\ \A d, fs : Holds(slot, d, fs) => Holds(s, d, fs)
<1> DEFINE s == [slot EXCEPT !.age = a]
<1>1. /\ s \in Buffers /\ s.age = a /\ s.used = slot.used /\ s.key = slot.key
      /\ s.received = slot.received /\ s.total = slot.total /\ s.data = slot.data
  BY DEF Buffers
<1> HIDE DEF s
<1>2. \A d, fs : Holds(slot, d, fs) => Holds(s, d, fs)
  BY <1>1 DEF Holds
<1> QED
  BY <1>1, <1>2 DEF s

(* A buffer that is given back. *)
LEMMA Releasing ==
    ASSUME NEW slot \in Buffers
    PROVE  LET s == [slot EXCEPT !.used = FALSE] IN
           s \in Buffers /\ s.age = slot.age /\ s.key = slot.key /\ ~s.used
  BY DEF Buffers

(* What becomes of the buffer: given up, holding one fragment more, or       *)
(* complete and handed up.                                                 *)
LEMMA FragmentLands ==
    ASSUME Inv, NEW f \in wire, NEW mac, onIpv4Fragment(f, mac), traffic' = traffic,
           NEW r, r = reasm'[SlotFor(f.of)]
    PROVE  /\ f.of \in sent /\ f \in Fragments(f.of) /\ f \notin arrived
           /\ arp' \in [Entries -> [ip : Hosts \cup {Everyone}, mac : Macs \cup {Unknown}, lastUsed : Ticks]]
           /\ tick' \in Nat /\ tick < tick' /\ tick' <= tick + 2
           /\ reasm' = [reasm EXCEPT ![SlotFor(f.of)] = r]
           /\ r \in Buffers /\ r.key = f.of /\ r.age = tick'
           /\ f.block * 8 + f.len > ReasmMax => ~r.used /\ handed' = handed
           /\ f.block * 8 + f.len <= ReasmMax =>
                 \A fs \in SUBSET ArrivedOf(f.of) : Holds(Opened(f.of), f.of, fs) =>
                     \/ /\ r.used /\ Holds(r, f.of, fs \cup {f})
                        /\ fs \cup {f} # Fragments(f.of)
                        /\ handed' = handed
                     \/ /\ ~r.used /\ fs \cup {f} = Fragments(f.of)
                        /\ handed' = handed \cup {PayloadOf(f.of)}
<1> USE DEF Inv
<1> DEFINE d == f.of
           at == SlotFor(d)
           after == learnMac(d.src, mac)
           aged == [Opened(d) EXCEPT !.age = after.tick + 1]
           slot == Filled(aged, f)
           fits == f.block * 8 + f.len <= ReasmMax
<1>1. d \in sent /\ f \in Fragments(d) /\ f \notin arrived /\ IsPiece(f, d)
  BY FiniteTraffic DEF Counted
<1>2. /\ arp' = after.arp /\ tick' = after.tick + 1
      /\ \/ /\ f.block * 8 + f.len > ReasmMax
            /\ reasm' = [reasm EXCEPT ![at] = [aged EXCEPT !.used = FALSE]]
            /\ handed' = handed
         \/ /\ fits
            /\ Complete(slot)
            /\ reasm' = [reasm EXCEPT ![at] = [slot EXCEPT !.used = FALSE]]
            /\ handed' = handed \cup {Payload(slot)}
         \/ /\ fits
            /\ ~Complete(slot)
            /\ reasm' = [reasm EXCEPT ![at] = slot]
            /\ handed' = handed
  BY DEF onIpv4Fragment
<1>3. tick \in Nat /\ tick + 1 \in Ticks /\ tick + 2 \in Ticks
  <2>1. /\ IsFiniteSet(wire \ {f}) /\ Cardinality(wire \ {f}) = Cardinality(wire) - 1
    BY FiniteTraffic, FS_RemoveElement
  <2>2. Cardinality(wire \ {f}) \in Nat
    BY <2>1, FS_CardinalityType
  <2> QED
    BY <2>1, <2>2, FiniteTraffic DEF Counted, Ticks
<1>4. /\ after.arp \in [Entries -> [ip : Hosts \cup {Everyone}, mac : Macs \cup {Unknown}, lastUsed : Ticks]]
      /\ after.tick \in {tick, tick + 1}
  BY <1>3, LearnTyped
<1>5. tick' \in Nat /\ tick < tick' /\ tick' <= tick + 2 /\ tick' \in Ticks
  <2>1. tick' = tick + 1 \/ tick' = tick + 2
    BY <1>2, <1>3, <1>4
  <2> QED
    BY <1>3, <2>1
<1>6. at \in Slots /\ Opened(d) \in Buffers /\ Opened(d).used = TRUE /\ Opened(d).key = d
  BY <1>1, OpenHolds
<1>7. /\ aged \in Buffers /\ aged.age = tick' /\ aged.used = TRUE /\ aged.key = d
      /\ \A fs : Holds(Opened(d), d, fs) => Holds(aged, d, fs)
  BY <1>2, <1>5, <1>6, Ageing
<1>8. reasm \in [Slots -> Buffers]
  BY DEF TypeOK
<1> HIDE DEF aged, at, slot, after
<1>9. fits => /\ slot \in Buffers /\ slot.used = TRUE /\ slot.key = d /\ slot.age = tick'
              /\ \A fs \in SUBSET ArrivedOf(d) : Holds(aged, d, fs) => Holds(slot, d, fs \cup {f})
  <2> SUFFICES ASSUME fits
               PROVE  /\ slot \in Buffers /\ slot.used = TRUE /\ slot.key = d /\ slot.age = tick'
                      /\ \A fs \in SUBSET ArrivedOf(d) : Holds(aged, d, fs) => Holds(slot, d, fs \cup {f})
    OBVIOUS
  <2>1. d \in Datagrams /\ traffic \in Traffics
    BY <1>1 DEF TypeOK
  <2>2. ASSUME NEW fs \in SUBSET ArrivedOf(d), Holds(aged, d, fs)
        PROVE  /\ slot \in Buffers /\ slot.used = TRUE /\ slot.key = d /\ slot.age = tick'
               /\ Holds(slot, d, fs \cup {f})
    <3>1. fs \in SUBSET Fragments(d) /\ f \in Fragments(d) \ fs
      BY <1>1, FiniteTraffic DEF ArrivedOf
    <3> QED
      BY <1>7, <2>1, <2>2, <3>1, FillHolds DEF slot
  <2>3. \E fs \in SUBSET ArrivedOf(d) : Holds(aged, d, fs)
    BY <1>1, <1>7, OpenHolds
  <2> QED
    BY <2>2, <2>3
<1>10. CASE ~fits
  <2>1. f.block * 8 + f.len > ReasmMax /\ reasm' = [reasm EXCEPT ![at] = [aged EXCEPT !.used = FALSE]] /\ handed' = handed
    BY <1>2, <1>10
  <2>2. r = [aged EXCEPT !.used = FALSE]
    BY <1>6, <1>8, <2>1 DEF at
  <2>3. r \in Buffers /\ r.key = d /\ r.age = tick' /\ ~r.used
    BY <1>7, <2>2, Releasing
  <2> QED
    BY <1>1, <1>2, <1>4, <1>5, <1>10, <2>1, <2>2, <2>3 DEF at
<1>11. CASE fits
  <2>1. ~(f.block * 8 + f.len > ReasmMax)
    BY <1>1, <1>11, IpAssumption DEF IsPiece
  <2>2. d.len \in Nat \ {0}
    BY <1>1, FiniteTraffic
  <2>3. \A fs \in SUBSET ArrivedOf(d) : fs \cup {f} \in SUBSET Fragments(d)
    BY <1>1, FiniteTraffic DEF ArrivedOf
  <2>4. CASE Complete(slot)
    <3>1. reasm' = [reasm EXCEPT ![at] = [slot EXCEPT !.used = FALSE]] /\ handed' = handed \cup {Payload(slot)}
      BY <1>2, <1>11, <2>1, <2>4
    <3>2. r = [slot EXCEPT !.used = FALSE]
      BY <1>6, <1>8, <3>1 DEF at
    <3>3. r \in Buffers /\ r.key = d /\ r.age = tick' /\ ~r.used
      BY <1>9, <1>11, <3>2, Releasing
    <3>4. ASSUME NEW fs \in SUBSET ArrivedOf(d), Holds(Opened(d), d, fs)
          PROVE  fs \cup {f} = Fragments(d) /\ Payload(slot) = PayloadOf(d)
      BY <1>7, <1>9, <1>11, <2>2, <2>3, <2>4, <3>4, CompleteIsAll
    <3> QED
      BY <1>1, <1>2, <1>4, <1>5, <2>1, <3>1, <3>2, <3>3, <3>4 DEF at
  <2>5. CASE ~Complete(slot)
    <3>1. reasm' = [reasm EXCEPT ![at] = slot] /\ handed' = handed
      BY <1>2, <1>11, <2>1, <2>5
    <3>2. r = slot
      BY <1>6, <1>8, <3>1 DEF at
    <3>3. r \in Buffers /\ r.key = d /\ r.age = tick' /\ r.used
      BY <1>9, <1>11, <3>2
    <3>4. ASSUME NEW fs \in SUBSET ArrivedOf(d), Holds(Opened(d), d, fs)
          PROVE  Holds(slot, d, fs \cup {f}) /\ fs \cup {f} # Fragments(d)
      <4>1. Holds(slot, d, fs \cup {f})
        BY <1>7, <1>9, <1>11, <3>4
      <4>2. fs \cup {f} = Fragments(d) => Complete(slot)
        BY <2>2, <4>1, AllIsComplete
      <4> QED
        BY <2>5, <4>1, <4>2
    <3> QED
      BY <1>1, <1>2, <1>4, <1>5, <2>1, <3>1, <3>2, <3>3, <3>4 DEF at
  <2> QED
    BY <2>4, <2>5
<1> QED
  BY <1>10, <1>11

LEMMA FragmentStep ==
    ASSUME Inv, NEW f \in wire, NEW mac, onIpv4Fragment(f, mac), traffic' = traffic
    PROVE  Inv'
<1> USE DEF Inv
<1> DEFINE d == f.of
           Now(o) == {g \in arrived' : g.of = o}
<1>a. PICK at : at = SlotFor(d)
  OBVIOUS
<1>b. PICK r : r = reasm'[SlotFor(d)]
  OBVIOUS
<1>1. /\ d \in sent /\ f \in Fragments(d) /\ f \notin arrived
      /\ arp' \in [Entries -> [ip : Hosts \cup {Everyone}, mac : Macs \cup {Unknown}, lastUsed : Ticks]]
      /\ tick' \in Nat /\ tick < tick' /\ tick' <= tick + 2
      /\ reasm' = [reasm EXCEPT ![at] = r]
      /\ r \in Buffers /\ r.key = d /\ r.age = tick'
      /\ f.block * 8 + f.len > ReasmMax => ~r.used /\ handed' = handed
      /\ f.block * 8 + f.len <= ReasmMax =>
            \A fs \in SUBSET ArrivedOf(d) : Holds(Opened(d), d, fs) =>
                \/ /\ r.used /\ Holds(r, d, fs \cup {f})
                   /\ fs \cup {f} # Fragments(d)
                   /\ handed' = handed
                \/ /\ ~r.used /\ fs \cup {f} = Fragments(d)
                   /\ handed' = handed \cup {PayloadOf(d)}
  BY <1>a, <1>b, FragmentLands
<1>2. /\ at \in Slots
      /\ \E fs \in SUBSET ArrivedOf(d) : Holds(Opened(d), d, fs)
      /\ \A i \in Slots \ {at} : ~(reasm[i].used /\ reasm[i].key = d)
      /\ \A i \in Slots : reasm[i].used /\ reasm[i].key = d => at = i /\ Opened(d) = reasm[i]
  BY <1>1, <1>a, OpenHolds
<1>3. /\ wire' = wire \ {f} /\ UNCHANGED <<sent, lookup, resets>>
      /\ arrived' = arrived \cup {f}
      /\ between' = [x \in DOMAIN between \cup {d} |->
                        IF x = d THEN IF x \in DOMAIN between THEN between[x] ELSE {}
                        ELSE between[x] \cup {d}]
  BY DEF onIpv4Fragment, Note
<1>4. reasm \in [Slots -> Buffers] /\ traffic \in Traffics
  BY DEF TypeOK
<1>5. /\ reasm' \in [Slots -> Buffers] /\ reasm'[at] = r
      /\ \A i \in Slots \ {at} : reasm'[i] = reasm[i]
  BY <1>1, <1>2, <1>4
<1>6. tick \in Nat /\ IsPiece(f, d)
  BY FiniteTraffic
<1>7. ~(f.block * 8 + f.len > ReasmMax) <=> f.block * 8 + f.len <= ReasmMax
  BY <1>6, IpAssumption DEF IsPiece
<1>8. /\ Now(d) = ArrivedOf(d) \cup {f}
      /\ \A o : o # d => Now(o) = ArrivedOf(o)
      /\ \A o : ArrivedOf(o) \subseteq Now(o)
      /\ \A o : Now(o) = ArrivedOf(o)'
  BY <1>3 DEF ArrivedOf
<1>9. /\ tick' \in Ticks' /\ Counted' /\ wire' \cup arrived' \subseteq Frames(sent')
  BY <1>1, <1>3, WireShrinks
<1>10. TypeOK'
  <2>1. between' \in [DOMAIN between' -> SUBSET sent'] /\ DOMAIN between' \subseteq sent'
    <3>1. between \in [DOMAIN between -> SUBSET sent] /\ DOMAIN between \subseteq sent
      BY DEF TypeOK
    <3>2. DOMAIN between' = DOMAIN between \cup {d}
      BY <1>3
    <3>3. \A x \in DOMAIN between' : between'[x] \in SUBSET sent
      BY <1>1, <1>3, <3>1
    <3> QED
      BY <1>1, <1>3, <3>1, <3>2, <3>3
  <2>2. reasm' \in [Slots -> Buffers']
    BY <1>5 DEF Buffers, Datagrams, Ticks
  <2>3. arp' \in [Entries -> [ip : Hosts \cup {Everyone}, mac : Macs \cup {Unknown}, lastUsed : Ticks']]
    BY <1>1 DEF Ticks
  <2> QED
    BY <1>3, <1>9, <2>1, <2>2, <2>3 DEF TypeOK, Datagrams
<1>11. handed' = handed \/ handed' = handed \cup {PayloadOf(d)}
  BY <1>1, <1>2, <1>7
<1>12. HandedIsSent'
  BY <1>1, <1>3, <1>11 DEF HandedIsSent, PayloadOf
<1>13. Buffered'
  <2>1. DOMAIN between' = DOMAIN between \cup {d}
    BY <1>3
  <2>2. \A g \in arrived' : g.of \in DOMAIN between'
    BY <1>3, <2>1 DEF Buffered
  <2>3. ASSUME NEW i \in Slots, reasm'[i].used
        PROVE  /\ reasm'[i].key \in DOMAIN between'
               /\ \E fs \in SUBSET Now(reasm'[i].key) : Holds(reasm'[i], reasm'[i].key, fs)
    <3>1. CASE i = at
      <4>1. reasm'[i] = r /\ r.used /\ r.key = d
        BY <1>1, <1>5, <2>3, <3>1
      <4>2. PICK fs \in SUBSET ArrivedOf(d) : Holds(Opened(d), d, fs)
        BY <1>2
      <4>3. Holds(r, d, fs \cup {f})
        BY <1>1, <1>7, <4>1, <4>2
      <4>4. fs \cup {f} \in SUBSET Now(d)
        BY <1>8
      <4> QED
        BY <2>1, <4>1, <4>3, <4>4
    <3>2. CASE i # at
      <4>1. reasm'[i] = reasm[i] /\ reasm[i].used
        BY <1>5, <2>3, <3>2
      <4>2. reasm[i].key \in DOMAIN between
        BY <4>1 DEF Buffered
      <4>3. PICK fs \in SUBSET ArrivedOf(reasm[i].key) : Holds(reasm[i], reasm[i].key, fs)
        BY <4>1 DEF Buffered
      <4>4. fs \in SUBSET Now(reasm[i].key)
        BY <1>8
      <4> QED
        BY <2>1, <4>1, <4>2, <4>3, <4>4
    <3> QED
      BY <3>1, <3>2
  <2>4. ASSUME NEW i \in Slots, NEW j \in Slots, reasm'[i].used, reasm'[j].used, reasm'[i].key = reasm'[j].key
        PROVE  i = j
    <3>1. CASE i = at /\ j # at
      BY <1>1, <1>2, <1>5, <2>4, <3>1
    <3>2. CASE i # at /\ j = at
      BY <1>1, <1>2, <1>5, <2>4, <3>2
    <3>3. CASE i # at /\ j # at
      BY <1>5, <2>4, <3>3 DEF Buffered
    <3> QED
      BY <3>1, <3>2, <3>3
  <2> QED
    BY <2>2, <2>3, <2>4 DEF Buffered, ArrivedOf
<1>14. Protected'
  <2> SUFFICES ASSUME resets = 0
               PROVE  /\ \A i \in Slots : reasm'[i].age <= tick'
                      /\ \A o \in DOMAIN between' :
                            Sheltered(o)' => PayloadOf(o) \in handed' \/ \E i \in Slots : Kept(i, o)'
    BY <1>3 DEF Protected
  <2>1. \A i \in Slots : reasm[i].age \in Nat /\ reasm[i].age <= tick /\ reasm[i].age < tick'
    <3>1. \A i \in Slots : reasm[i].age \in Nat /\ reasm[i].age <= tick
      BY <1>4 DEF Protected, Buffers, Ticks
    <3> QED
      BY <1>1, <1>6, <3>1
  <2>2. \A i \in Slots : reasm'[i].age <= tick'
    <3> TAKE i \in Slots
    <3>1. CASE i = at
      BY <1>1, <1>5, <3>1
    <3>2. CASE i # at
      BY <1>1, <1>5, <1>6, <2>1, <3>2
    <3> QED
      BY <3>1, <3>2
  <2>3. ASSUME Sheltered(d)'
        PROVE  PayloadOf(d) \in handed' \/ \E i \in Slots : Kept(i, d)'
    <3> SUFFICES ASSUME PayloadOf(d) \notin handed'
                 PROVE  Kept(at, d)'
      BY <1>2
    <3>1. f.block * 8 + f.len <= ReasmMax
      <4>1. d.len <= ReasmMax /\ d.len \in Nat
        BY <1>1, <2>3, FiniteTraffic DEF Sheltered, Fits
      <4> QED
        BY <1>6, <4>1, IpAssumption DEF IsPiece
    <3>2. Holds(Opened(d), d, ArrivedOf(d))
      <4>1. CASE d \in DOMAIN between
        <5>1. Sheltered(d)
          BY <1>3, <2>3, <4>1 DEF Sheltered
        <5>2. PICK i \in Slots : Kept(i, d)
          BY <1>11, <4>1, <5>1 DEF Protected
        <5> QED
          BY <1>2, <5>2 DEF Kept
      <4>2. CASE d \notin DOMAIN between
        <5>1. ArrivedOf(d) = {}
          BY <4>2 DEF Buffered, ArrivedOf
        <5> QED
          BY <1>2, <5>1
      <4> QED
        BY <4>1, <4>2
    <3>3. /\ r.used /\ Holds(r, d, ArrivedOf(d) \cup {f})
          /\ ArrivedOf(d) \cup {f} # Fragments(d)
      BY <1>1, <3>1, <3>2
    <3>4. \A j \in Slots \ {at} : ~(reasm'[at].age <= reasm'[j].age)
      <4> TAKE j \in Slots \ {at}
      <4>1. reasm'[j] = reasm[j] /\ reasm'[at].age = tick'
        BY <1>1, <1>5
      <4> QED
        BY <1>1, <2>1, <4>1
    <3> QED
      BY <1>1, <1>5, <1>8, <3>3, <3>4 DEF Kept
  <2>4. ASSUME NEW o \in DOMAIN between', o # d, Sheltered(o)'
        PROVE  PayloadOf(o) \in handed' \/ \E i \in Slots : Kept(i, o)'
    <3>1. o \in DOMAIN between /\ between'[o] = between[o] \cup {d}
      BY <1>3, <2>4
    <3>2. IsFiniteSet(between[o])
      <4>1. between[o] \in SUBSET sent
        BY <3>1 DEF TypeOK
      <4> QED
        BY <4>1, FS_Subset DEF Counted
    <3>3. between[o] \subseteq {d} /\ Cardinality(between[o]) <= 1
      BY <2>4, <3>1, <3>2, AtMostOne DEF Sheltered
    <3>4. Sheltered(o) /\ Fits(d)
      BY <2>4, <3>1, <3>3 DEF Sheltered
    <3>5. CASE PayloadOf(o) \in handed
      BY <1>11, <3>5
    <3>6. CASE PayloadOf(o) \notin handed
      <4>1. PICK i \in Slots : Kept(i, o)
        BY <3>1, <3>4, <3>6 DEF Protected
      <4>2. /\ reasm[i].used /\ reasm[i].key = o /\ Holds(reasm[i], o, ArrivedOf(o))
            /\ ArrivedOf(o) # Fragments(o)
            /\ \A j \in Slots \ {i} :
                  reasm[i].age <= reasm[j].age =>
                      /\ reasm[j].key \in between[o]
                      /\ reasm[j].used \/ Fragments(reasm[j].key) \subseteq arrived
        BY <4>1 DEF Kept
      <4>3. i # at
        <5>1. CASE Matching(d) # {}
          <6>1. at \in Matching(d)
            BY <1>4, <5>1, <1>a, SlotIsFound
          <6> QED
            BY <2>4, <4>2, <6>1 DEF Matching
        <5>2. CASE Matching(d) = {}
          <6>1. at = Victim
            BY <1>4, <5>2, <1>a, SlotIsFound
          <6>2. ASSUME NEW j \in Slots \ {i}
                PROVE  reasm[j].age < reasm[i].age
            <7>1. ~(reasm[i].age <= reasm[j].age)
              <8> SUFFICES ASSUME reasm[i].age <= reasm[j].age
                           PROVE  FALSE
                OBVIOUS
              <8>1. reasm[j].key = d
                BY <3>3, <4>2
              <8>2. ~reasm[j].used
                BY <5>2, <8>1 DEF Matching
              <8>3. Fragments(d) \subseteq arrived
                BY <4>2, <8>1, <8>2
              <8> QED
                BY <1>1, <8>3
            <7> QED
              BY <2>1, <7>1
          <6> QED
            BY <1>4, <4>2, <6>1, <6>2, VictimIsOldest
        <5> QED
          BY <5>1, <5>2
      <4>4. reasm'[i] = reasm[i]
        BY <1>5, <4>3
      <4>5. ASSUME NEW j \in Slots \ {i}, reasm'[i].age <= reasm'[j].age
            PROVE  /\ reasm'[j].key \in between'[o]
                   /\ reasm'[j].used \/ Fragments(reasm'[j].key) \subseteq arrived'
        <5>1. CASE j = at
          <6>1. reasm'[j] = r /\ r.key = d
            BY <1>1, <1>5, <5>1
          <6>2. f.block * 8 + f.len <= ReasmMax
            <7>1. d.len <= ReasmMax /\ d.len \in Nat
              BY <1>1, <3>4, FiniteTraffic DEF Fits
            <7> QED
              BY <1>6, <7>1, IpAssumption DEF IsPiece
          <6>3. PICK fs \in SUBSET ArrivedOf(d) : Holds(Opened(d), d, fs)
            BY <1>2
          <6>4. r.used \/ fs \cup {f} = Fragments(d)
            BY <1>1, <6>2, <6>3
          <6>5. fs \cup {f} \subseteq arrived'
            BY <1>3 DEF ArrivedOf
          <6> QED
            BY <3>1, <6>1, <6>4, <6>5
        <5>2. CASE j # at
          BY <1>3, <1>5, <3>1, <4>2, <4>4, <4>5, <5>2
        <5> QED
          BY <5>1, <5>2
      <4>6. Kept(i, o)'
        BY <1>8, <2>4, <4>2, <4>4, <4>5 DEF Kept
      <4> QED
        BY <4>6
    <3> QED
      BY <3>5, <3>6
  <2> QED
    BY <2>2, <2>3, <2>4
<1> QED
  BY <1>9, <1>10, <1>12, <1>13, <1>14

(***************************************************************************)
(* Theorems.                                                               *)
(***************************************************************************)

(* Every step keeps the invariant. *)
LEMMA NextInv ==
    ASSUME Inv, [Next]_vars
    PROVE  Inv'
<1>1. CASE UNCHANGED vars
  <2>1. UNCHANGED <<traffic, arp, reasm, tick, wire, sent, arrived, between, handed, lookup, resets>>
    BY <1>1 DEF vars, rxVars
  <2>2. TypeOK'
    BY <2>1 DEF Inv, TypeOK, Buffers, Datagrams, Ticks
  <2>3. Counted' /\ HandedIsSent'
    BY <2>1 DEF Inv, Counted, HandedIsSent
  <2>4. Buffered' /\ Protected'
    BY <2>1, FiniteTraffic, SameBuffers, SameKept DEF Inv
  <2> QED
    BY <2>2, <2>3, <2>4 DEF Inv
<1>2. CASE Next
  <2>1. traffic' = traffic
    BY <1>2 DEF Next
  <2>2. CASE reset
    BY <2>1, <2>2, ResetStep
  <2>3. CASE \E h \in Hosts \cup {Unknown}, m, s \in Macs \cup {Unknown} : onArp(h, m, s)
    BY <2>1, <2>3, ArpStep
  <2>4. CASE \E h \in traffic.targets : sendIpv4(h)
    BY <2>1, <2>4, SendStep
  <2>5. CASE \E h \in traffic.hosts, len \in traffic.lengths : PeerSends(h, len)
    BY <2>1, <2>5, PeerStep
  <2>6. CASE \E f \in wire, m \in traffic.macs : Receive(f, m)
    BY <2>1, <2>6, WholeStep, FragmentStep DEF Receive
  <2> QED
    BY <1>2, <2>2, <2>3, <2>4, <2>5, <2>6 DEF Next, Step
<1> QED
  BY <1>1, <1>2

(* The invariant holds in every behaviour. *)
THEOREM Invariance == Spec => []Inv
<1>1. Init => Inv
  BY InitInv
<1>2. Inv /\ [Next]_vars => Inv'
  BY NextInv
<1> QED
  BY <1>1, <1>2, PTL DEF Spec

(* The neighbour cache, the buffers with their byte counts and ages, and     *)
(* m_tick keep their types whatever arrives in onArp and onIpv4.           *)
THEOREM TypeCorrectness == Spec => []TypeOK
<1>1. Inv => TypeOK
  BY DEF Inv
<1> QED
  BY <1>1, Invariance, PTL

(* What onIpv4 hands to deliverIpv4 is a datagram that a peer sent, whole   *)
(* and with no byte of another, in any order of arrival, with any losses,  *)
(* evictions and resets, for any sizes.                                    *)
THEOREM HandedIsAlwaysSent == Spec => []HandedIsSent
<1>1. Inv => HandedIsSent
  BY DEF Inv
<1> QED
  BY <1>1, Invariance, PTL

(* With any number of buffers from two on, the search of onIpv4 never gives  *)
(* up the buffer of a datagram that only one other overlaps.               *)
THEOREM TwoAlwaysAtOnce == Spec => []TwoAtOnce
<1>1. Inv => TwoAtOnce
  <2> SUFFICES ASSUME Inv, resets = 0, NEW d \in DOMAIN between, Fits(d), Fragments(d) \subseteq arrived,
                      Cardinality(between[d]) <= 1, \A o \in between[d] : Fits(o)
               PROVE  PayloadOf(d) \in handed
    BY DEF TwoAtOnce, PayloadOf
  <2>1. Sheltered(d)
    BY DEF Sheltered
  <2>2. ASSUME NEW i \in Slots, Kept(i, d)
        PROVE  FALSE
    <3>1. d.len \in Nat \ {0} /\ \A f \in arrived : f \in Fragments(f.of)
      BY FiniteTraffic DEF Inv, TypeOK
    <3>2. \A f \in Fragments(d) : f.of = d
      BY <3>1, Cutting DEF IsPiece
    <3>3. ArrivedOf(d) = Fragments(d)
      BY <3>1, <3>2 DEF ArrivedOf
    <3> QED
      BY <2>2, <3>3 DEF Kept
  <2> QED
    BY <2>1, <2>2 DEF Inv, Protected
<1> QED
  BY <1>1, Invariance, PTL

(***************************************************************************)
(* The neighbour cache keeps the promise of RecentHosts.                   *)
(***************************************************************************)

(* Entries fill up from the first on, each host has one, and no two were    *)
(* heard at the same tick.                                                 *)
ArpShape ==
    /\ \A i, j \in Entries : j < i /\ Free(j) => Free(i)
    /\ \A i \in Entries : ~Free(i) => arp[i].lastUsed <= tick
    /\ \A i, j \in Entries :
           ~Free(i) /\ ~Free(j) /\ (arp[i].ip = arp[j].ip \/ arp[i].lastUsed = arp[j].lastUsed) => i = j

Held == {arp[i] : i \in {j \in Entries : ~Free(j)}}

(* An entry is of a host and has a tick that is a number. *)
LEMMA ArpTyped ==
    ASSUME TypeOK
    PROVE  /\ tick \in Nat
           /\ \A i \in Entries : arp[i].lastUsed \in Nat
           /\ arp \in [Entries -> [ip : Hosts \cup {Everyone}, mac : Macs \cup {Unknown}, lastUsed : Ticks]]
<1>1. traffic \in Traffics /\ TrafficOK(traffic)
  BY IpAssumption DEF TypeOK
<1>2. Ticks \subseteq Nat
  BY <1>1 DEF Ticks, TrafficOK
<1> QED
  BY <1>2 DEF TypeOK

(* The first entry that has the address or is free, if there is one;       *)
(* otherwise the one heard longest ago.                                    *)
LEMMA PlaceIsFound ==
    ASSUME TypeOK, ArpShape, NEW ip
    PROVE  LET p == PlaceFor(ip) IN
           /\ p \in Entries
           /\ \/ Known(p, ip) \/ (Free(p) /\ \A j \in 0..p - 1 : ~Known(j, ip) /\ ~Free(j))
              \/ /\ \A i \in Entries : ~Known(i, ip) /\ ~Free(i)
                 /\ \A i \in Entries \ {p} : arp[p].lastUsed < arp[i].lastUsed
<1> DEFINE K == {i \in Entries : Known(i, ip) \/ Free(i)}
<1>1. Entries \subseteq Nat /\ \A i \in Entries : \A j \in 0..i - 1 : j \in Entries
  BY IpAssumption DEF Entries
<1>2. CASE K # {}
  <2>1. Min(K) \in K /\ \A x \in K : Min(K) <= x
    BY <1>1, <1>2, MinIsLeast
  <2>2. \E i \in Entries : (Known(i, ip) \/ Free(i)) /\ \A j \in 0..i - 1 : ~(Known(j, ip) \/ Free(j))
    <3>1. PICK m : m = Min(K)
      OBVIOUS
    <3>2. m \in Entries /\ (Known(m, ip) \/ Free(m)) /\ \A x \in K : m <= x
      BY <2>1, <3>1
    <3>3. \A j \in 0..m - 1 : j \notin K
      BY <1>1, <3>2
    <3> QED
      BY <1>1, <3>2, <3>3
  <2>3. PICK p : p = PlaceFor(ip)
    OBVIOUS
  <2>4. p \in Entries /\ (Known(p, ip) \/ Free(p)) /\ \A j \in 0..p - 1 : ~(Known(j, ip) \/ Free(j))
    BY <2>2, <2>3 DEF PlaceFor
  <2> QED
    BY <2>3, <2>4
<1>3. CASE K = {}
  <2>1. \A i \in Entries : ~Known(i, ip) /\ ~Free(i)
    BY <1>3
  <2> DEFINE T == {arp[i].lastUsed : i \in Entries}
  <2>2. T \subseteq Nat /\ T # {}
    <3>1. 0 \in Entries
      BY IpAssumption DEF Entries
    <3> QED
      BY <3>1, ArpTyped
  <2>3. PICK t : t = Min(T)
    OBVIOUS
  <2>4. t \in T /\ \A x \in T : t <= x
    BY <2>2, <2>3, MinIsLeast
  <2>5. PICK m \in Entries : t = arp[m].lastUsed
    BY <2>4
  <2>6. \A j \in Entries : arp[m].lastUsed <= arp[j].lastUsed
    BY <2>4, <2>5
  <2>7. \A j \in Entries \ {m} : arp[m].lastUsed # arp[j].lastUsed
    BY <2>1 DEF ArpShape
  <2>8. \A j \in Entries \ {m} : arp[m].lastUsed < arp[j].lastUsed
    BY <2>6, <2>7, ArpTyped
  <2>9. \A j \in Entries :
           arp[m].lastUsed < arp[j].lastUsed \/ (arp[m].lastUsed = arp[j].lastUsed /\ m <= j)
    BY <1>1, <2>8
  <2>10. PICK p : p = PlaceFor(ip)
    OBVIOUS
  <2>11. /\ p \in Entries
         /\ \A j \in Entries :
               arp[p].lastUsed < arp[j].lastUsed \/ (arp[p].lastUsed = arp[j].lastUsed /\ p <= j)
    BY <2>1, <2>9, <2>10 DEF PlaceFor
  <2>12. p = m
    BY <2>8, <2>11, ArpTyped
  <2> QED
    BY <2>1, <2>8, <2>10, <2>12
<1> QED
  BY <1>2, <1>3

(* RecentHosts counts as FiniteSets does. *)
LEMMA SameCount == \A S : Neighbours!Cardinality(S) = Cardinality(S)
  BY DEF Neighbours!Cardinality, Cardinality

(* The others keep their entries while there is room, and all but the oldest *)
(* when there is none.                                                     *)
LEMMA OthersStay ==
    ASSUME TypeOK, ArpShape, NEW ip \in Hosts, NEW p, p = PlaceFor(ip)
    PROVE  Neighbours!Kept(ip) = {arp[i] : i \in {j \in Entries \ {p} : ~Free(j)}}
<1> DEFINE stay == {arp[i] : i \in {j \in Entries \ {p} : ~Free(j)}}
           others == {e \in Held : e.ip # ip}
<1>1. /\ p \in Entries
      /\ \/ Known(p, ip) \/ (Free(p) /\ \A j \in 0..p - 1 : ~Known(j, ip) /\ ~Free(j))
         \/ /\ \A i \in Entries : ~Known(i, ip) /\ ~Free(i)
            /\ \A i \in Entries \ {p} : arp[p].lastUsed < arp[i].lastUsed
  BY PlaceIsFound
<1>2. Neighbours!Kept(ip) =
         IF Cardinality(others) < ArpEntries THEN others
         ELSE {e \in others : \E o \in others : o.lastUsed < e.lastUsed}
  BY SameCount DEF Neighbours!Kept, Held
<1>3. IsFiniteSet(Entries) /\ Cardinality(Entries) = ArpEntries
  <2>1. ArpEntries \in Nat
    BY IpAssumption
  <2> QED
    BY <2>1, FS_Interval DEF Entries
<1>4. CASE Known(p, ip) \/ (Free(p) /\ \A j \in 0..p - 1 : ~Known(j, ip) /\ ~Free(j))
  <2>1. \A i \in Entries \ {p} : ~Known(i, ip)
    <3>1. CASE Known(p, ip)
      BY <1>1, <3>1 DEF Known, Free, ArpShape
    <3>2. CASE Free(p) /\ \A j \in 0..p - 1 : ~Known(j, ip) /\ ~Free(j)
      <4> SUFFICES ASSUME NEW i \in Entries \ {p}
                   PROVE  ~Known(i, ip)
        OBVIOUS
      <4>1. CASE i \in 0..p - 1
        BY <3>2, <4>1
      <4>2. CASE i \notin 0..p - 1
        <5>1. p < i
          BY <1>1, <4>2, IpAssumption DEF Entries
        <5> QED
          BY <1>1, <3>2, <5>1 DEF ArpShape, Known, Free
      <4> QED
        BY <4>1, <4>2
    <3> QED
      BY <1>4, <3>1, <3>2
  <2>2. others = stay
    BY <1>1, <1>4, <2>1 DEF Held, Known, Free
  <2>3. Cardinality(others) < ArpEntries
    <3>1. IsFiniteSet(Entries \ {p}) /\ Cardinality(Entries \ {p}) = ArpEntries - 1
      BY <1>1, <1>3, FS_RemoveElement
    <3> DEFINE J == {j \in Entries \ {p} : ~Free(j)}
               f == [i \in J |-> arp[i]]
    <3>2. J \in SUBSET (Entries \ {p})
      OBVIOUS
    <3>3. f \in Surjection(J, stay)
      BY DEF Surjection
    <3> HIDE DEF J, f, stay, others
    <3>4. IsFiniteSet(J) /\ Cardinality(J) <= ArpEntries - 1 /\ Cardinality(J) \in Nat
      BY <3>1, <3>2, FS_Subset, FS_CardinalityType
    <3>5. IsFiniteSet(stay) /\ Cardinality(stay) <= Cardinality(J) /\ Cardinality(stay) \in Nat
      BY <3>3, <3>4, FS_Surjection, FS_CardinalityType
    <3> QED
      BY <2>2, <3>4, <3>5, IpAssumption
  <2> QED
    BY <1>2, <2>2, <2>3
<1>5. CASE /\ \A i \in Entries : ~Known(i, ip) /\ ~Free(i)
           /\ \A i \in Entries \ {p} : arp[p].lastUsed < arp[i].lastUsed
  <2>1. others = {arp[i] : i \in Entries}
    BY <1>5 DEF Held, Known, Free
  <2>2. Cardinality(others) = ArpEntries
    <3> DEFINE f == [i \in Entries |-> arp[i]]
    <3>1. f \in Surjection(Entries, others)
      BY <2>1 DEF Surjection
    <3>2. \A i, j \in Entries : f[i] = f[j] => i = j
      BY <1>5 DEF ArpShape
    <3>3. f \in Injection(Entries, others)
      BY <3>1, <3>2 DEF Surjection, Injection, IsInjective
    <3> HIDE DEF f, others
    <3> QED
      BY <1>3, <3>1, <3>3, FS_Surjection
  <2>3. {e \in others : \E o \in others : o.lastUsed < e.lastUsed} = stay
    <3>1. ASSUME NEW i \in Entries
          PROVE  (\E o \in others : o.lastUsed < arp[i].lastUsed) <=> i # p
      <4>1. CASE i = p
        <5> SUFFICES ASSUME NEW o \in others, o.lastUsed < arp[p].lastUsed
                     PROVE  FALSE
          BY <4>1
        <5>1. PICK j \in Entries : o = arp[j]
          BY <2>1
        <5> QED
          BY <1>1, <1>5, <5>1, ArpTyped
      <4>2. CASE i # p
        BY <1>1, <1>5, <2>1, <4>2
      <4> QED
        BY <4>1, <4>2
    <3>2. stay = {arp[i] : i \in Entries \ {p}}
      BY <1>5
    <3>3. \A i \in Entries : arp[i] = arp[p] => i = p
      BY <1>1, <1>5 DEF ArpShape
    <3> HIDE DEF stay, others
    <3> QED
      BY <2>1, <3>1, <3>2, <3>3
  <2>4. ~(Cardinality(others) < ArpEntries)
    <3>1. ArpEntries \in Nat
      BY IpAssumption
    <3> HIDE DEF others
    <3> QED
      BY <2>2, <3>1
  <2> HIDE DEF stay, others
  <2>5. Neighbours!Kept(ip) = stay
    BY <1>2, <2>3, <2>4
  <2> QED
    BY <2>5 DEF stay
<1> QED
  BY <1>1, <1>4, <1>5

(* One entry is written, the rest of the table stays, and it keeps its       *)
(* shape.                                                                  *)
LEMMA NewEntry ==
    ASSUME TypeOK, ArpShape, NEW ip, NEW mac, Learns(ip, mac), NEW p, p = PlaceFor(ip),
           arp' = learnMac(ip, mac).arp, tick' \in Nat, tick' >= learnMac(ip, mac).tick
    PROVE  /\ p \in Entries
           /\ arp'[p] = [ip |-> ip, mac |-> mac, lastUsed |-> tick + 1]
           /\ \A i \in Entries \ {p} : arp'[i] = arp[i]
           /\ \A i \in Entries : Free(i)' <=> i # p /\ Free(i)
           /\ ArpShape'
<1>1. PICK e : e = [ip |-> ip, mac |-> mac, lastUsed |-> tick + 1]
  OBVIOUS
<1>2. ip \in Hosts /\ mac \in Macs
  BY DEF Learns
<1>3. learnMac(ip, mac) = [arp |-> [arp EXCEPT ![p] = e], tick |-> tick + 1]
  BY <1>1 DEF learnMac
<1>4. arp' = [arp EXCEPT ![p] = e] /\ tick' >= tick + 1
  BY <1>3
<1>5. /\ p \in Entries
      /\ \/ Known(p, ip) \/ (Free(p) /\ \A j \in 0..p - 1 : ~Known(j, ip) /\ ~Free(j))
         \/ /\ \A i \in Entries : ~Known(i, ip) /\ ~Free(i)
            /\ \A i \in Entries \ {p} : arp[p].lastUsed < arp[i].lastUsed
  BY PlaceIsFound
<1>6. arp'[p] = e /\ \A i \in Entries \ {p} : arp'[i] = arp[i]
  BY <1>4, <1>5, ArpTyped
<1>7. e.mac # Unknown /\ e.ip = ip /\ e.lastUsed = tick + 1
  BY <1>1, <1>2, IpAssumption
<1>8. \A i \in Entries : Free(i)' <=> i # p /\ Free(i)
  BY <1>5, <1>6, <1>7 DEF Free
<1>9. Entries \subseteq Nat
  BY IpAssumption DEF Entries
<1>10. ASSUME NEW i \in Entries, NEW j \in Entries, j < i, Free(j)'
      PROVE  Free(i)'
  <2>1. Free(j) /\ Free(i)
    BY <1>8, <1>10 DEF ArpShape
  <2>2. CASE i = p
    <3>1. j \in 0..p - 1
      BY <1>9, <1>10, <2>2
    <3> QED
      BY <1>5, <2>1, <2>2, <3>1 DEF Known, Free
  <2> QED
    BY <1>8, <2>1, <2>2
<1>11. \A i \in Entries : ~Free(i)' => arp'[i].lastUsed <= tick'
  <2> SUFFICES ASSUME NEW i \in Entries, ~Free(i)'
               PROVE  arp'[i].lastUsed <= tick'
    OBVIOUS
  <2>1. CASE i = p
    BY <1>4, <1>6, <1>7, <2>1, ArpTyped
  <2>2. CASE i # p
    <3>1. arp'[i] = arp[i] /\ arp[i].lastUsed <= tick
      BY <1>6, <1>8, <2>2 DEF ArpShape
    <3> QED
      BY <1>4, <3>1, ArpTyped
  <2> QED
    BY <2>1, <2>2
<1>12. ASSUME NEW j \in Entries, j # p, ~Free(j)
      PROVE  arp[j].ip # ip /\ arp[j].lastUsed # tick + 1
  <2>1. arp[j].lastUsed # tick + 1
    BY <1>12, ArpTyped DEF ArpShape
  <2>2. ~Known(j, ip)
    <3>1. CASE Known(p, ip)
      BY <1>5, <1>12, <3>1 DEF Known, Free, ArpShape
    <3>2. CASE Free(p) /\ \A k \in 0..p - 1 : ~Known(k, ip) /\ ~Free(k)
      <4>1. ~(p < j)
        BY <1>5, <1>12, <3>2 DEF ArpShape
      <4>2. j \in 0..p - 1
        BY <1>5, <1>9, <1>12, <4>1
      <4> QED
        BY <3>2, <4>2
    <3>3. CASE \A i \in Entries : ~Known(i, ip) /\ ~Free(i)
      BY <3>3
    <3> QED
      BY <1>5, <3>1, <3>2, <3>3
  <2> QED
    BY <1>12, <2>1, <2>2 DEF Known, Free
<1>13. ASSUME NEW i \in Entries, NEW j \in Entries, ~Free(i)', ~Free(j)',
             arp'[i].ip = arp'[j].ip \/ arp'[i].lastUsed = arp'[j].lastUsed
      PROVE  i = j
  <2>1. CASE i = p /\ j # p
    BY <1>6, <1>7, <1>8, <1>12, <1>13, <2>1
  <2>2. CASE i # p /\ j = p
    BY <1>6, <1>7, <1>8, <1>12, <1>13, <2>2
  <2>3. CASE i # p /\ j # p
    BY <1>6, <1>8, <1>13, <2>3 DEF ArpShape
  <2> QED
    BY <2>1, <2>2, <2>3
<1>14. ArpShape'
  <2>1. \A i, j \in Entries : j < i /\ Free(j)' => Free(i)'
    BY <1>10
  <2>2. \A i, j \in Entries :
           ~Free(i)' /\ ~Free(j)' /\ (arp'[i].ip = arp'[j].ip \/ arp'[i].lastUsed = arp'[j].lastUsed) => i = j
    BY <1>13
  <2> QED
    BY <1>11, <2>1, <2>2 DEF ArpShape
<1> QED
  BY <1>1, <1>5, <1>6, <1>8, <1>14

(* learnMac hears a host, or changes nothing; a later tick does no harm.     *)
LEMMA Learning ==
    ASSUME TypeOK, ArpShape, NEW ip, NEW mac,
           arp' = learnMac(ip, mac).arp, tick' \in Nat, tick' >= learnMac(ip, mac).tick,
           lookup' = lookup
    PROVE  ArpShape' /\ (Neighbours!Next \/ UNCHANGED <<Held, lookup>>)
<1>1. CASE Learns(ip, mac)
  <2>1. PICK e : e = [ip |-> ip, mac |-> mac, lastUsed |-> tick + 1]
    OBVIOUS
  <2>2. ip \in Hosts /\ mac \in Macs
    BY <1>1 DEF Learns
  <2>3. PICK p : p = PlaceFor(ip)
    OBVIOUS
  <2>4. /\ p \in Entries /\ arp'[p] = e
        /\ \A i \in Entries \ {p} : arp'[i] = arp[i]
        /\ \A i \in Entries : Free(i)' <=> i # p /\ Free(i)
        /\ ArpShape'
    BY <1>1, <2>1, <2>3, NewEntry
  <2>5. Neighbours!Kept(ip) = {arp[i] : i \in {j \in Entries \ {p} : ~Free(j)}}
    BY <2>2, <2>3, OthersStay
  <2>6. Held' = Neighbours!Kept(ip) \cup {e}
    <3>1. {j \in Entries : ~Free(j)'} = {j \in Entries \ {p} : ~Free(j)} \cup {p}
      BY <2>4 DEF Free
    <3> QED
      BY <2>4, <2>5, <3>1 DEF Held
  <2>7. \A o \in Held : o.lastUsed < e.lastUsed
    <3> SUFFICES ASSUME NEW o \in Held
                 PROVE  o.lastUsed < e.lastUsed
      OBVIOUS
    <3>1. PICK i \in Entries : o = arp[i] /\ ~Free(i)
      BY DEF Held
    <3>2. arp[i].lastUsed <= tick
      BY <3>1 DEF ArpShape
    <3> QED
      BY <2>1, <3>1, <3>2, ArpTyped
  <2>8. e \in Held' /\ e.ip = ip /\ e.mac = mac
    BY <2>1, <2>6
  <2>9. \E x \in Held' :
            /\ x.ip = ip /\ x.mac = mac
            /\ \A o \in Held : o.lastUsed < x.lastUsed
            /\ Held' = Neighbours!Kept(ip) \cup {x}
    BY <2>6, <2>7, <2>8
  <2>10. Neighbours!Hear(ip, mac)
    BY <2>9 DEF Neighbours!Hear, Held
  <2> QED
    BY <2>2, <2>4, <2>10 DEF Neighbours!Next
<1>2. CASE ~Learns(ip, mac)
  <2>1. arp' = arp /\ tick' >= tick
    BY <1>2 DEF learnMac
  <2>2. Held' = Held
    BY <2>1 DEF Held, Free
  <2>3. ArpShape'
    <3>1. \A i \in Entries : Free(i)' <=> Free(i)
      BY <2>1 DEF Free
    <3>2. \A i \in Entries : ~Free(i) => arp[i].lastUsed <= tick'
      BY <2>1, ArpTyped DEF ArpShape
    <3> QED
      BY <2>1, <3>1, <3>2 DEF ArpShape
  <2> QED
    BY <2>2, <2>3
<1> QED
  BY <1>1, <1>2

(* sendIpv4 answers from the table, each host having one entry.              *)
LEMMA LookingUp ==
    ASSUME TypeOK, ArpShape, NEW ip \in traffic.targets, sendIpv4(ip)
    PROVE  ArpShape' /\ Neighbours!Next
<1>1. ip \in Hosts \cup {Everyone}
  BY IpAssumption DEF TypeOK, TrafficOK
<1>2. lookup' = [ip |-> ip, mac |-> lookupMac(ip)] /\ arp' = arp /\ tick' = tick
  BY DEF sendIpv4
<1>3. ArpShape' /\ Held' = Held
  BY <1>2 DEF ArpShape, Held, Free
<1>4. \/ ip = Everyone /\ lookup' = Neighbours!Answer(ip, Group)
      \/ \E e \in Held : e.ip = ip /\ lookup' = Neighbours!Answer(ip, e.mac)
      \/ ip # Everyone /\ (\A e \in Held : e.ip # ip) /\ lookup' = Neighbours!Answer(ip, Unknown)
  <2>1. CASE ip = Everyone
    BY <1>2, <2>1 DEF lookupMac, Neighbours!Answer
  <2>2. CASE ip # Everyone /\ \E i \in Entries : Known(i, ip)
    <3> DEFINE K == {i \in Entries : Known(i, ip)}
    <3>1. Entries \subseteq Nat
      BY IpAssumption DEF Entries
    <3>2. PICK m : m = Min(K)
      OBVIOUS
    <3>3. m \in K /\ \A x \in K : m <= x
      BY <2>2, <3>1, <3>2, MinIsLeast
    <3>4. \A j \in 0..m - 1 : ~Known(j, ip)
      BY <3>1, <3>3, IpAssumption DEF Entries
    <3>5. \E i \in Entries : Known(i, ip) /\ \A j \in 0..i - 1 : ~Known(j, ip)
      BY <3>3, <3>4
    <3>6. PICK k : k = CHOOSE i \in Entries : Known(i, ip) /\ \A j \in 0..i - 1 : ~Known(j, ip)
      OBVIOUS
    <3>7. k \in Entries /\ Known(k, ip)
      BY <3>5, <3>6
    <3>8. lookupMac(ip) = arp[k].mac
      BY <2>2, <3>6 DEF lookupMac
    <3>9. arp[k] \in Held /\ arp[k].ip = ip
      BY <3>7 DEF Held, Known, Free
    <3> QED
      BY <1>2, <3>8, <3>9 DEF Neighbours!Answer
  <2>3. CASE ip # Everyone /\ ~\E i \in Entries : Known(i, ip)
    BY <1>2, <2>3 DEF lookupMac, Held, Known, Free, Neighbours!Answer
  <2> QED
    BY <2>1, <2>2, <2>3
<1>5. Neighbours!LookUp(ip)
  BY <1>3, <1>4 DEF Neighbours!LookUp, Held
<1> QED
  BY <1>1, <1>3, <1>5 DEF Neighbours!Next

(* Every step keeps the shape of the table and is one of RecentHosts.        *)
LEMMA NeighbourStep ==
    ASSUME Inv, Inv', ArpShape, [Next]_vars
    PROVE  ArpShape' /\ (Neighbours!Next \/ UNCHANGED <<Held, lookup>>)
<1>1. TypeOK /\ TypeOK' /\ tick \in Nat
  BY ArpTyped DEF Inv
<1>2. tick' \in Nat
  <2>1. traffic' \in Traffics /\ TrafficOK(traffic)' /\ tick' \in Ticks'
    BY <1>1, IpAssumption DEF TypeOK, TrafficOK
  <2> QED
    BY <2>1 DEF Ticks, TrafficOK
<1>3. ASSUME UNCHANGED <<arp, tick, lookup>>
      PROVE  ArpShape' /\ UNCHANGED <<Held, lookup>>
  BY <1>3 DEF ArpShape, Held, Free
<1>4. CASE UNCHANGED vars
  BY <1>3, <1>4 DEF vars
<1>5. CASE reset
  <2>1. arp' = [i \in Entries |-> NoNeighbour] /\ tick' = 0 /\ lookup' = lookup
    BY <1>5 DEF reset
  <2>2. \A i \in Entries : Free(i)'
    BY <2>1 DEF Free, NoNeighbour
  <2>3. ArpShape' /\ Held' = {}
    BY <2>2 DEF ArpShape, Held
  <2>4. Neighbours!Forget
    BY <2>1, <2>3 DEF Neighbours!Forget, Held
  <2> QED
    BY <2>3, <2>4 DEF Neighbours!Next
<1>6. CASE \E h \in Hosts \cup {Unknown}, m, s \in Macs \cup {Unknown} : onArp(h, m, s)
  <2>1. PICK h \in Hosts \cup {Unknown}, m, s \in Macs \cup {Unknown} : onArp(h, m, s)
    BY <1>6
  <2>2. PICK mac : mac = IF m = Unknown THEN s ELSE m
    OBVIOUS
  <2>3. /\ arp' = learnMac(h, mac).arp
        /\ tick' = learnMac(h, mac).tick
        /\ lookup' = lookup
    BY <2>1, <2>2 DEF onArp
  <2> QED
    BY <1>1, <1>2, <2>3, Learning
<1>7. CASE \E h \in traffic.targets : sendIpv4(h)
  BY <1>1, <1>7, LookingUp
<1>8. CASE \E h \in traffic.hosts, len \in traffic.lengths : PeerSends(h, len)
  BY <1>3, <1>8 DEF PeerSends
<1>9. ASSUME NEW f \in wire, NEW m \in traffic.macs, Receive(f, m)
      PROVE  ArpShape' /\ (Neighbours!Next \/ UNCHANGED <<Held, lookup>>)
  <2>1. /\ arp' = learnMac(f.of.src, m).arp
        /\ tick' = learnMac(f.of.src, m).tick \/ tick' = learnMac(f.of.src, m).tick + 1
        /\ lookup' = lookup
    BY <1>9 DEF Receive, onIpv4Whole, onIpv4Fragment
  <2>2. learnMac(f.of.src, m).tick \in Nat
    BY <1>1 DEF learnMac
  <2>3. tick' >= learnMac(f.of.src, m).tick
    BY <2>1, <2>2
  <2> QED
    BY <1>1, <1>2, <2>1, <2>3, Learning
<1> QED
  BY <1>4, <1>5, <1>6, <1>7, <1>8, <1>9 DEF Next, Step

(* The ARP table of vnet.cpp, with its first-fit search, its clearing and    *)
(* its m_tick shared with the reassembly, knows exactly the hosts heard    *)
(* last and answers sendIpv4 from them, for any size of the table.         *)
THEOREM CacheIsAlwaysRecent == Spec => CacheIsRecent
<1>1. Init => ArpShape /\ Neighbours!Init
  <2> SUFFICES ASSUME Init
               PROVE  ArpShape /\ Neighbours!Init
    OBVIOUS
  <2>1. \A i \in Entries : Free(i)
    BY DEF Init, Free, NoNeighbour
  <2>2. ArpShape /\ Held = {}
    BY <2>1 DEF ArpShape, Held
  <2> QED
    BY <2>2 DEF Init, Neighbours!Init, Neighbours!Answer, Held
<1>2. Inv /\ Inv' /\ ArpShape /\ [Next]_vars => ArpShape'
  BY NeighbourStep
<1>3. Inv /\ Inv' /\ ArpShape /\ [Next]_vars
      => [Neighbours!Next]_<<{arp[i] : i \in {j \in Entries : ~Free(j)}}, lookup>>
  BY NeighbourStep DEF Held
<1> QED
  BY <1>1, <1>2, <1>3, Invariance, PTL DEF Spec, CacheIsRecent, Neighbours!Spec
=============================================================================
