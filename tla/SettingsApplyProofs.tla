------------------------- MODULE SettingsApplyProofs --------------------------
(***************************************************************************)
(* Proofs about SettingsApply, for any ports, configurations, writes of    *)
(* other managers and faults.                                              *)
(***************************************************************************)
EXTENDS SettingsApply, Nsdpctl, TLAPS, FiniteSetTheorems, SequenceTheorems

USE NsdpWireAssumption

-----------------------------------------------------------------------------
(* Enumerations *)

LEMMA Enumerated ==
    ASSUME NEW S, IsFiniteSet(S)
    PROVE  /\ Cardinality(S) \in Nat
           /\ SetToSeq(S) \in [1 .. Cardinality(S) -> S]
           /\ \A x \in S : \E i \in 1 .. Cardinality(S) : SetToSeq(S)[i] = x
<1> DEFINE D == 1 .. Cardinality(S)
<1>1. Cardinality(S) \in Nat /\ ExistsBijection(D, S)
  BY FS_CardinalityType
<1>2. \E f \in [D -> S] : IsInjective(f)
  BY <1>1 DEF ExistsBijection, Bijection, Injection
<1>3. SetToSeq(S) \in [D -> S] /\ IsInjective(SetToSeq(S))
  BY <1>2 DEF SetToSeq
<1>4. SetToSeq(S) \in Injection(D, S)
  BY <1>3 DEF Injection
<1>5. Cardinality(D) = Cardinality(S)
  BY <1>1, FS_Interval
<1>6. SetToSeq(S) \in Surjection(D, S)
  BY <1>4, <1>5, FS_Injection
<1> QED
  BY <1>1, <1>3, <1>6 DEF Surjection

LEMMA PortsFinite == IsFiniteSet(Ports)
<1>1. \A n \in Nat : IsFiniteSet(1 .. n)
  BY FS_Interval
<1>2. Ports \in SUBSET (1 .. 8)
  OBVIOUS
<1> QED
  BY <1>1, <1>2, FS_Subset

-----------------------------------------------------------------------------
(* Bytes *)

LEMMA Divides ==
    ASSUME NEW n \in Nat
    PROVE  n \div 256 \in Nat /\ n % 256 \in Nat /\ 256 * (n \div 256) + (n % 256) = n
  OBVIOUS

LEMMA U16Read == ASSUME NEW n \in Nat PROVE U16(n)[1] \in Nat /\ U16(n)[2] \in Nat /\ FromU16(U16(n)[1], U16(n)[2]) = n
  BY Divides DEF U16, FromU16

LEMMA ByteRead == ASSUME NEW n \in 0 .. 255 PROVE FromU16(U16(n)[1], U16(n)[2]) % 256 = n
<1>1. n % 256 = n
  OBVIOUS
<1> QED BY <1>1, U16Read

LEMMA BitmapRead ==
    ASSUME NEW ports
    PROVE  /\ PortBitmap(ports) \in 0 .. 255
           /\ PortsFromBitmap(PortBitmap(ports)) = ports \cap (1 .. 8)
<1> DEFINE b(p) == IF p \in ports THEN 1 ELSE 0
           n == PortBitmap(ports)
<1>1. n = 128 * b(1) + 64 * b(2) + 32 * b(3) + 16 * b(4) + 8 * b(5) + 4 * b(6) + 2 * b(7) + b(8)
  BY DEF PortBitmap, PortBitmapOf7, BitIf, Bit
<1>2. \A p : b(p) \in 0 .. 1 /\ (b(p) = 1 <=> p \in ports)
  OBVIOUS
<1> HIDE DEF b, n
<1>3. n \in 0 .. 255
  BY <1>1, <1>2
<1>4. /\ n \div 128 = b(1)
      /\ n \div 64 = 2 * b(1) + b(2)
      /\ n \div 32 = 4 * b(1) + 2 * b(2) + b(3)
      /\ n \div 16 = 8 * b(1) + 4 * b(2) + 2 * b(3) + b(4)
      /\ n \div 8 = 16 * b(1) + 8 * b(2) + 4 * b(3) + 2 * b(4) + b(5)
      /\ n \div 4 = 32 * b(1) + 16 * b(2) + 8 * b(3) + 4 * b(4) + 2 * b(5) + b(6)
      /\ n \div 2 = 64 * b(1) + 32 * b(2) + 16 * b(3) + 8 * b(4) + 4 * b(5) + 2 * b(6) + b(7)
      /\ n \div 1 = 128 * b(1) + 64 * b(2) + 32 * b(3) + 16 * b(4) + 8 * b(5) + 4 * b(6) + 2 * b(7) + b(8)
  BY <1>1, <1>2
<1>5. \A m \in Nat, d \in 0 .. 1 : (2 * m + d) % 2 = d
  OBVIOUS
<1>6. \A p \in 1 .. 8 : (n \div Bit[p]) % 2 = b(p)
  BY <1>2, <1>4, <1>5 DEF Bit
<1> QED
  BY <1>2, <1>3, <1>6 DEF PortsFromBitmap, n
-----------------------------------------------------------------------------
(* Sequences of bytes *)

LEMMA Concatenated ==
    ASSUME NEW s \in Seq(Nat), NEW t \in Seq(Nat), NEW u \in Seq(Nat),
           Len(u) = Len(s) + Len(t),
           \A i \in 1 .. Len(s) : u[i] = s[i],
           \A i \in 1 .. Len(t) : u[Len(s) + i] = t[i]
    PROVE  s \o t = u
<1>1. /\ s \o t \in Seq(Nat) /\ Len(s \o t) = Len(u)
      /\ \A i \in 1 .. Len(u) : (s \o t)[i] = IF i <= Len(s) THEN s[i] ELSE t[i - Len(s)]
  BY ConcatProperties
<1>2. \A i \in 1 .. Len(s \o t) : (s \o t)[i] = u[i]
  <2> TAKE i \in 1 .. Len(s \o t)
  <2>1. CASE i <= Len(s)
    BY <2>1, <1>1
  <2>2. CASE i > Len(s)
    <3>1. /\ i - Len(s) \in 1 .. Len(t) /\ Len(s) + (i - Len(s)) = i
          /\ i \in 1 .. Len(u) /\ ~(i <= Len(s))
      BY <2>2, <1>1
    <3> QED
      BY <3>1, <2>2, <1>1
  <2> QED
    BY <2>1, <2>2, <1>1
<1> QED
  BY <1>1, <1>2, SeqEqual

LEMMA OneAndTwo ==
    ASSUME NEW a \in Nat, NEW b \in Nat, NEW c \in Nat
    PROVE  <<a>> \o <<b, c>> = <<a, b, c>>
<1> DEFINE s == <<a>>
           t == <<b, c>>
           w == <<a, b, c>>
<1>1. s \in Seq(Nat) /\ t \in Seq(Nat) /\ w \in Seq(Nat)
  OBVIOUS
<1>2. Len(s) = 1 /\ Len(t) = 2 /\ Len(w) = 3
  OBVIOUS
<1>3. (\A i \in 1 .. 1 : w[i] = s[i]) /\ (\A i \in 1 .. 2 : w[1 + i] = t[i])
  OBVIOUS
<1> HIDE DEF s, t, w
<1>4. /\ Len(w) = Len(s) + Len(t)
      /\ \A i \in 1 .. Len(s) : w[i] = s[i]
      /\ \A i \in 1 .. Len(t) : w[Len(s) + i] = t[i]
  BY <1>2, <1>3
<1>5. s \o t = w
  BY <1>1, <1>4, Concatenated
<1> QED
  BY <1>5 DEF s, t, w

LEMMA ThreeAndTwo ==
    ASSUME NEW a \in Nat, NEW b \in Nat, NEW c \in Nat
    PROVE  <<a, 0, 0>> \o <<b, c>> = <<a, 0, 0, b, c>>
<1> DEFINE s == <<a, 0, 0>>
           t == <<b, c>>
           w == <<a, 0, 0, b, c>>
<1>1. s \in Seq(Nat) /\ t \in Seq(Nat) /\ w \in Seq(Nat)
  OBVIOUS
<1>2. Len(s) = 3 /\ Len(t) = 2 /\ Len(w) = 5
  OBVIOUS
<1>3. (\A i \in 1 .. 3 : w[i] = s[i]) /\ (\A i \in 1 .. 2 : w[3 + i] = t[i])
  OBVIOUS
<1> HIDE DEF s, t, w
<1>4. /\ Len(w) = Len(s) + Len(t)
      /\ \A i \in 1 .. Len(s) : w[i] = s[i]
      /\ \A i \in 1 .. Len(t) : w[Len(s) + i] = t[i]
  BY <1>2, <1>3
<1>5. s \o t = w
  BY <1>1, <1>4, Concatenated
<1> QED
  BY <1>5 DEF s, t, w

LEMMA TwoAndOne ==
    ASSUME NEW a \in Nat, NEW b \in Nat, NEW c \in Nat
    PROVE  <<a, b>> \o <<c>> = <<a, b, c>>
<1> DEFINE s == <<a, b>>
           t == <<c>>
           w == <<a, b, c>>
<1>1. s \in Seq(Nat) /\ t \in Seq(Nat) /\ w \in Seq(Nat)
  OBVIOUS
<1>2. Len(s) = 2 /\ Len(t) = 1 /\ Len(w) = 3
  OBVIOUS
<1>3. (\A i \in 1 .. 2 : w[i] = s[i]) /\ (\A i \in 1 .. 1 : w[2 + i] = t[i])
  OBVIOUS
<1> HIDE DEF s, t, w
<1>4. /\ Len(w) = Len(s) + Len(t)
      /\ \A i \in 1 .. Len(s) : w[i] = s[i]
      /\ \A i \in 1 .. Len(t) : w[Len(s) + i] = t[i]
  BY <1>2, <1>3
<1>5. s \o t = w
  BY <1>1, <1>4, Concatenated
<1> QED
  BY <1>5 DEF s, t, w

LEMMA TwoAndTwo ==
    ASSUME NEW a \in Nat, NEW b \in Nat, NEW c \in Nat, NEW d \in Nat
    PROVE  <<a, b>> \o <<c, d>> = <<a, b, c, d>>
<1> DEFINE s == <<a, b>>
           t == <<c, d>>
           w == <<a, b, c, d>>
<1>1. s \in Seq(Nat) /\ t \in Seq(Nat) /\ w \in Seq(Nat)
  OBVIOUS
<1>2. Len(s) = 2 /\ Len(t) = 2 /\ Len(w) = 4
  OBVIOUS
<1>3. (\A i \in 1 .. 2 : w[i] = s[i]) /\ (\A i \in 1 .. 2 : w[2 + i] = t[i])
  OBVIOUS
<1> HIDE DEF s, t, w
<1>4. /\ Len(w) = Len(s) + Len(t)
      /\ \A i \in 1 .. Len(s) : w[i] = s[i]
      /\ \A i \in 1 .. Len(t) : w[Len(s) + i] = t[i]
  BY <1>2, <1>3
<1>5. s \o t = w
  BY <1>1, <1>4, Concatenated
<1> QED
  BY <1>5 DEF s, t, w

\* Where byte k of entry j stands in a packed value.
LEMMA Position ==
    ASSUME NEW w \in {2, 3}, NEW j \in Nat, NEW k \in 1 .. w
    PROVE  (w * j + k - 1) \div w = j /\ (w * j + k - 1) % w = k - 1
<1>1. CASE w = 2
  <2>1. (2 * j + k - 1) \div 2 = j
    BY <1>1
  <2>2. (2 * j + k - 1) % 2 = k - 1
    BY <1>1
  <2> QED
    BY <2>1, <2>2, <1>1
<1>2. CASE w = 3
  <2>1. (3 * j + k - 1) \div 3 = j
    BY <1>2
  <2>2. (3 * j + k - 1) % 3 = k - 1
    BY <1>2
  <2> QED
    BY <2>1, <2>2, <1>2
<1> QED
  BY <1>1, <1>2

LEMMA PackedLength ==
    ASSUME NEW w \in {2, 3}, NEW n \in Nat, NEW es, Len(es) = n
    PROVE  Len(Packed(w, es)) \div w = n
<1>1. CASE w = 2
  <2>1. Len(Packed(2, es)) = 2 * n
    BY DEF Packed
  <2> QED
    BY <2>1, <1>1
<1>2. CASE w = 3
  <2>1. Len(Packed(3, es)) = 3 * n
    BY DEF Packed
  <2> QED
    BY <2>1, <1>2
<1> QED
  BY <1>1, <1>2

LEMMA Unpacked ==
    ASSUME NEW w \in {2, 3}, NEW n \in Nat, NEW es, Len(es) = n, NEW i \in 1 .. n,
           es[i] \in Seq(Nat), Len(es[i]) = w
    PROVE  SubSeq(Packed(w, es), (i - 1) * w + 1, i * w) = es[i]
<1> DEFINE v == Packed(w, es)
           m == (i - 1) * w + 1
<1>1. m \in Int /\ i * w \in Int /\ i * w - m + 1 = w /\ m <= i * w
  OBVIOUS
<1>2. ASSUME NEW k \in 1 .. w PROVE v[m + k - 1] = es[i][k]
  <2>1. w * (i - 1) + k \in 1 .. w * n
    OBVIOUS
  <2>2. v[w * (i - 1) + k]
          = es[(w * (i - 1) + k - 1) \div w + 1][((w * (i - 1) + k - 1) % w) + 1]
    BY <2>1 DEF Packed
  <2>3. (w * (i - 1) + k - 1) \div w = i - 1 /\ (w * (i - 1) + k - 1) % w = k - 1
    BY Position
  <2>4. v[w * (i - 1) + k] = es[i - 1 + 1][k - 1 + 1]
    BY <2>2, <2>3
  <2>5. i - 1 + 1 = i /\ k - 1 + 1 = k
    OBVIOUS
  <2>6. m + k - 1 = w * (i - 1) + k
    OBVIOUS
  <2> QED
    BY <2>4, <2>5, <2>6
<1>3. \A j \in m .. i * w : v[j] \in Nat
  <2> TAKE j \in m .. i * w
  <2>1. j - m + 1 \in 1 .. w /\ m + (j - m + 1) - 1 = j
    BY <1>1
  <2>2. es[i][j - m + 1] \in Nat
    BY <2>1
  <2> QED
    BY <2>1, <2>2, <1>2
<1>4. /\ SubSeq(v, m, i * w) \in Seq(Nat) /\ Len(SubSeq(v, m, i * w)) = w
      /\ \A k \in 1 .. w : SubSeq(v, m, i * w)[k] = v[m + k - 1]
  BY <1>1, <1>3, SubSeqProperties
<1> HIDE DEF v, m
<1>5. \A k \in 1 .. Len(es[i]) : SubSeq(v, m, i * w)[k] = es[i][k]
  BY <1>4, <1>2
<1>6. SubSeq(v, m, i * w) = es[i]
  BY <1>4, <1>5, SeqEqual
<1> QED
  BY <1>6 DEF v, m

-----------------------------------------------------------------------------
(* The entries of a reply *)

LEMMA OneEntry ==
    ASSUME NEW block, NEW v \in Seq(Nat), Len(v) = Width(block), Width(block) \in 1 .. 5
    PROVE  EntriesOf(block, v) = {v}
<1>1. Len(v) \div Width(block) = 1
  <2>1. 1 \div 1 = 1 /\ 2 \div 2 = 1 /\ 3 \div 3 = 1 /\ 4 \div 4 = 1 /\ 5 \div 5 = 1
    OBVIOUS
  <2> QED
    BY <2>1
<1>2. SubSeq(v, (1 - 1) * Width(block) + 1, 1 * Width(block)) = v
  <2>1. (1 - 1) * Width(block) + 1 = 1 /\ 1 * Width(block) = Len(v)
    OBVIOUS
  <2>2. SubSeq(v, 1, Len(v)) = v
    BY SubSeqFull
  <2> QED
    BY <2>1, <2>2
<1> DEFINE at(i) == SubSeq(v, (i - 1) * Width(block) + 1, i * Width(block))
<1>3. EntriesOf(block, v) = {at(i) : i \in 1 .. 1}
  BY <1>1 DEF EntriesOf
<1>4. at(1) = v
  BY <1>2
<1> HIDE DEF at
<1>5. \A i \in 1 .. 1 : i = 1
  OBVIOUS
<1>6. 1 \in 1 .. 1
  OBVIOUS
<1> QED
  BY <1>3, <1>4, <1>5, <1>6

Each(e, S) == {e[x] : x \in S}

\* Entries packed into one value.
LEMMA PackedEntries ==
    ASSUME NEW block, Width(block) \in {2, 3}, NEW es, Len(es) \in Nat,
           \A i \in 1 .. Len(es) : es[i] \in Seq(Nat) /\ Len(es[i]) = Width(block)
    PROVE  EntriesOf(block, Packed(Width(block), es)) = Each(es, 1 .. Len(es))
<1> DEFINE n == Len(es)
           w == Width(block)
           v == Packed(w, es)
<1>1. Len(v) \div w = n
  BY PackedLength
<1>2. \A i \in 1 .. n : SubSeq(v, (i - 1) * w + 1, i * w) = es[i]
  BY Unpacked
<1> HIDE DEF v, w, n
<1>3. {SubSeq(v, (i - 1) * w + 1, i * w) : i \in 1 .. n} = {es[i] : i \in 1 .. n}
  BY <1>2
<1> QED
  BY <1>1, <1>3 DEF EntriesOf, Each, v, w, n

\* What is listed in some order has the entries of all of it, each once.
LEMMA Listed ==
    ASSUME NEW S, IsFiniteSet(S), NEW e, NEW es, DOMAIN es = DOMAIN SetToSeq(S),
           \A i \in DOMAIN SetToSeq(S) : es[i] = e[SetToSeq(S)[i]]
    PROVE  /\ Cardinality(S) \in Nat
           /\ DOMAIN SetToSeq(S) = 1 .. Cardinality(S)
           /\ \A i \in 1 .. Cardinality(S) : SetToSeq(S)[i] \in S /\ es[i] = e[SetToSeq(S)[i]]
           /\ Each(es, 1 .. Cardinality(S)) = Each(e, S)
<1> DEFINE n == Cardinality(S)
           q == SetToSeq(S)
<1>1. /\ n \in Nat /\ q \in [1 .. n -> S]
      /\ \A p \in S : \E i \in 1 .. n : q[i] = p
  BY Enumerated
<1> HIDE DEF n
<1>2. DOMAIN q = 1 .. n
  BY <1>1
<1>3. \A i \in 1 .. n : q[i] \in S /\ es[i] = e[q[i]]
  BY <1>1, <1>2
<1> HIDE DEF q
<1>4. Each(es, 1 .. n) = Each(e, S)
  <2>1. ASSUME NEW x \in Each(es, 1 .. n) PROVE x \in Each(e, S)
    BY <1>3, <2>1 DEF Each
  <2>2. ASSUME NEW p \in S PROVE e[p] \in Each(es, 1 .. n)
    <3>1. PICK i \in 1 .. n : q[i] = p
      BY <1>1
    <3>2. es[i] = e[p]
      BY <1>3, <3>1
    <3> QED
      BY <3>2 DEF Each
  <2> QED
    BY <2>1, <2>2 DEF Each
<1> QED
  BY <1>1, <1>2, <1>3, <1>4 DEF n, q

AllEntries(block, values) == UNION {EntriesOf(block, values[i]) : i \in DOMAIN values}

\* The table of a block, from the entry of each port or VLAN.
TableOf(block, S, e) == [r \in {block} \X S |-> ValueOf(block, e[r[2]])]

\* Where every number has one entry, a reader finds it.
LEMMA Found ==
    ASSUME NEW block, NEW S, NEW e, \A x \in S : KeyOf(block, e[x]) = <<block, x>>,
           NEW s, AllEntries(block, replyBlockGet(s, block)) = Each(e, S)
    PROVE  GetBlock(s, block) = TableOf(block, S, e)
<1> DEFINE E == AllEntries(block, replyBlockGet(s, block))
           at(r) == CHOOSE t \in E : KeyOf(block, t) = r
<1>0. \A t : t \in E <=> \E x \in S : t = e[x]
  BY DEF Each
<1>5. GetBlock(s, block) = [r \in {KeyOf(block, t) : t \in E} |-> ValueOf(block, at(r))]
  BY DEF GetBlock, AllEntries
<1> HIDE DEF E
<1>1. {KeyOf(block, t) : t \in E} = {block} \X S
  <2>1. ASSUME NEW t \in E PROVE KeyOf(block, t) \in {block} \X S
    BY <1>0
  <2>2. ASSUME NEW r \in {block} \X S PROVE r \in {KeyOf(block, t) : t \in E}
    <3>1. r[2] \in S /\ r = <<block, r[2]>>
      OBVIOUS
    <3>2. e[r[2]] \in E /\ KeyOf(block, e[r[2]]) = r
      BY <3>1, <1>0
    <3> QED
      BY <3>2
  <2> QED
    BY <2>1, <2>2
<1>2. ASSUME NEW r \in {block} \X S PROVE at(r) = e[r[2]]
  <2>1. r[2] \in S /\ r = <<block, r[2]>>
    OBVIOUS
  <2>2. e[r[2]] \in E /\ KeyOf(block, e[r[2]]) = r
    BY <2>1, <1>0
  <2>3. at(r) \in E /\ KeyOf(block, at(r)) = r
    BY <2>2
  <2>4. PICK y \in S : at(r) = e[y]
    BY <2>3, <1>0
  <2>5. <<block, y>> = <<block, r[2]>>
    BY <2>1, <2>3, <2>4
  <2> QED
    BY <2>4, <2>5
<1>3. \A r \in {block} \X S : ValueOf(block, at(r)) = ValueOf(block, e[r[2]])
  BY <1>2
<1> HIDE DEF at
<1> QED
  BY <1>1, <1>3, <1>5 DEF TableOf

\* The three shapes of a reply: one value of entries of ports, a value per
\* entry, and one value that is its only entry.
PackedReply(s, block, e, es) ==
    /\ Width(block) \in {2, 3}
    /\ \A p \in Ports : /\ e[p] \in Seq(Nat) /\ Len(e[p]) = Width(block)
                        /\ KeyOf(block, e[p]) = <<block, p>>
    /\ Len(es) = Cardinality(Ports) /\ DOMAIN es = DOMAIN PortOrder
    /\ \A i \in DOMAIN PortOrder : es[i] = e[PortOrder[i]]
    /\ replyBlockGet(s, block) = <<Packed(Width(block), es)>>

ListedReply(s, block, S, e) ==
    /\ Width(block) \in 1 .. 5 /\ IsFiniteSet(S)
    /\ \A x \in S : /\ e[x] \in Seq(Nat) /\ Len(e[x]) = Width(block)
                    /\ KeyOf(block, e[x]) = <<block, x>>
    /\ DOMAIN replyBlockGet(s, block) = DOMAIN SetToSeq(S)
    /\ \A i \in DOMAIN SetToSeq(S) : replyBlockGet(s, block)[i] = e[SetToSeq(S)[i]]

SingleReply(s, block, e) ==
    /\ Width(block) \in 1 .. 5 /\ e[0] \in Seq(Nat) /\ Len(e[0]) = Width(block)
    /\ KeyOf(block, e[0]) = <<block, 0>>
    /\ replyBlockGet(s, block) = <<e[0]>>

LEMMA PackedBlock ==
    ASSUME NEW s, NEW block, NEW e, NEW es, PackedReply(s, block, e, es)
    PROVE  GetBlock(s, block) = TableOf(block, Ports, e)
<1> USE DEF PackedReply
<1> DEFINE n == Cardinality(Ports)
           v == Packed(Width(block), es)
           values == <<v>>
<1>0. DOMAIN es = DOMAIN SetToSeq(Ports) /\ \A i \in DOMAIN es : es[i] = e[SetToSeq(Ports)[i]]
  BY DEF PortOrder
<1>1. /\ n \in Nat /\ DOMAIN SetToSeq(Ports) = 1 .. n
      /\ \A i \in 1 .. n : SetToSeq(Ports)[i] \in Ports /\ es[i] = e[SetToSeq(Ports)[i]]
      /\ Each(es, 1 .. n) = Each(e, Ports)
  BY <1>0, PortsFinite, Listed
<1> HIDE DEF n
<1>2. Len(es) = n
  BY DEF n
<1>3. \A i \in 1 .. n : es[i] \in Seq(Nat) /\ Len(es[i]) = Width(block)
  <2> TAKE i \in 1 .. n
  <2>1. PICK p \in Ports : es[i] = e[p]
    BY <1>1
  <2>2. e[p] \in Seq(Nat) /\ Len(e[p]) = Width(block)
    OBVIOUS
  <2> QED
    BY <2>1, <2>2
<1>4. EntriesOf(block, v) = Each(es, 1 .. n)
  <2>1. Len(es) \in Nat /\ \A i \in 1 .. Len(es) : es[i] \in Seq(Nat) /\ Len(es[i]) = Width(block)
    BY <1>1, <1>2, <1>3
  <2> HIDE DEF v
  <2>2. EntriesOf(block, Packed(Width(block), es)) = Each(es, 1 .. Len(es))
    BY <2>1, PackedEntries
  <2> QED
    BY <1>2, <2>2 DEF v
<1> HIDE DEF v
<1>5. AllEntries(block, values) = EntriesOf(block, v)
  BY DEF AllEntries
<1>6. replyBlockGet(s, block) = values
  BY DEF v
<1> HIDE DEF values
<1> QED
  BY <1>1, <1>4, <1>5, <1>6, Found

LEMMA ListedBlock ==
    ASSUME NEW s, NEW block, NEW S, NEW e, ListedReply(s, block, S, e)
    PROVE  GetBlock(s, block) = TableOf(block, S, e)
<1> USE DEF ListedReply
<1> DEFINE values == replyBlockGet(s, block)
           n == Cardinality(S)
<1>0. /\ DOMAIN values = DOMAIN SetToSeq(S)
      /\ \A i \in DOMAIN SetToSeq(S) : values[i] = e[SetToSeq(S)[i]]
  OBVIOUS
<1> HIDE DEF values
<1>1. /\ n \in Nat /\ DOMAIN SetToSeq(S) = 1 .. n
      /\ \A i \in 1 .. n : SetToSeq(S)[i] \in S /\ values[i] = e[SetToSeq(S)[i]]
      /\ Each(values, 1 .. n) = Each(e, S)
  BY <1>0, Listed
<1> HIDE DEF n
<1>3. \A i \in 1 .. n : EntriesOf(block, values[i]) = {values[i]}
  BY <1>1, OneEntry
<1>4. AllEntries(block, values) = Each(values, 1 .. n)
  <2>1. DOMAIN values = 1 .. n
    BY <1>0, <1>1
  <2> QED
    BY <1>3, <2>1 DEF AllEntries, Each
<1> QED
  BY <1>1, <1>4, Found DEF values

LEMMA SingleBlock ==
    ASSUME NEW s, NEW block, NEW e, SingleReply(s, block, e)
    PROVE  GetBlock(s, block) = TableOf(block, {0}, e)
<1> USE DEF SingleReply
<1> DEFINE values == <<e[0]>>
<1>1. EntriesOf(block, e[0]) = {e[0]}
  BY OneEntry
<1>2. AllEntries(block, values) = EntriesOf(block, e[0])
  BY DEF AllEntries
<1>3. {e[0]} = Each(e, {0})
  BY DEF Each
<1>4. replyBlockGet(s, block) = values
  OBVIOUS
<1> HIDE DEF values
<1> QED
  BY <1>1, <1>2, <1>3, <1>4, Found

-----------------------------------------------------------------------------
(* What the provider reads of a switch is what the switch holds *)

Tables(V) == UNION {[S -> V] : S \in {T \in SUBSET Nat : IsFiniteSet(T)}}

\* No port is kept as a tagged and as an untagged one.
Entries == {e \in [tagged : Nat, untagged : Nat] : Carried(e.tagged) \cap Carried(e.untagged) = {}}

RateTables == [Rates -> [Ports -> 0 .. 255]]

Switches ==
    [portAdmin : [Ports -> Nat \X Nat], portQoS : [Ports -> Nat],
     rates : RateTables, pvid : [Ports -> Nat],
     mirror : Nat \X Nat \X Nat, qosMode : Nat, blockMcast : Nat, engine : Nat,
     portVLANs : Tables(Nat), vlan8021Q : Tables(Entries)]

\* The part of what a switch holds that has these kinds of registers.
Part(res, s, kinds) ==
    [r \in {q \in DOMAIN HeldOf(res, s) : q[1] \in kinds} |-> HeldOf(res, s)[r]]

\* The kinds that a full read asks for.
Read(res) ==
    CASE res = "ports" -> {"config", "qos", "ingress", "egress"}
      [] res = "settings" -> {"qosMode", "mcast", "mirror"}
      [] res = "table" -> {"vlan"}
      [] OTHER -> {"8021q", "pvid"}

AdminOf(e) == <<e[1] # 0, e[2] # 0>>

\* The value of a register, by its kind and its number.
At(res, s, k, n) == HeldOf(res, s)[<<k, n>>]

LEMMA HeldPorts ==
    ASSUME NEW s
    PROVE  /\ DOMAIN HeldOf("ports", s) = {"config", "qos", "ingress", "egress", "storm"} \X Ports
           /\ \A p \in Ports :
                 /\ At("ports", s, "config", p) = AdminOf(s.portAdmin[p])
                 /\ At("ports", s, "qos", p) = s.portQoS[p]
                 /\ \A t \in Rates : At("ports", s, t, p) = s.rates[t][p]
  BY DEF HeldOf, At, Rates, AdminOf

LEMMA HeldSettings ==
    ASSUME NEW s
    PROVE  /\ DOMAIN HeldOf("settings", s) = {"qosMode", "mcast", "mirror"} \X {0}
           /\ At("settings", s, "qosMode", 0) = s.qosMode
           /\ At("settings", s, "mcast", 0) = (s.blockMcast # 0)
           /\ At("settings", s, "mirror", 0) = <<s.mirror[1], Carried(s.mirror[3])>>
  BY DEF HeldOf, At

LEMMA HeldTable ==
    ASSUME NEW s
    PROVE  /\ DOMAIN HeldOf("table", s) = {"vlan"} \X DOMAIN s.portVLANs
           /\ \A id \in DOMAIN s.portVLANs :
                 At("table", s, "vlan", id) = Carried(s.portVLANs[id])
  BY DEF HeldOf, At

LEMMA HeldVLANs ==
    ASSUME NEW s
    PROVE  /\ DOMAIN HeldOf("vlans", s)
                = ({"8021q"} \X DOMAIN s.vlan8021Q) \cup ({"pvid"} \X Ports)
           /\ \A p \in Ports : At("vlans", s, "pvid", p) = s.pvid[p]
           /\ \A id \in DOMAIN s.vlan8021Q :
                 At("vlans", s, "8021q", id)
                   = <<Carried(s.vlan8021Q[id].tagged), Carried(s.vlan8021Q[id].untagged)>>
  BY DEF HeldOf, At

\* Entry by entry, the reply says what the switch holds.
Agrees(res, s, b, S, e) ==
    /\ {b} \X S \subseteq DOMAIN HeldOf(res, s)
    /\ \A q \in DOMAIN HeldOf(res, s) : q[1] = b => q \in {b} \X S
    /\ \A x \in S : ValueOf(b, e[x]) = At(res, s, b, x)

LEMMA Agreement ==
    ASSUME NEW res, NEW s, NEW b, NEW S, NEW e, Agrees(res, s, b, S, e)
    PROVE  TableOf(b, S, e) = Part(res, s, {b})
<1> USE DEF Agrees
<1>1. {q \in DOMAIN HeldOf(res, s) : q[1] \in {b}} = {b} \X S
  OBVIOUS
<1>2. \A r \in {b} \X S : ValueOf(b, e[r[2]]) = HeldOf(res, s)[r]
  <2> TAKE r \in {b} \X S
  <2>1. r[2] \in S /\ r = <<b, r[2]>>
    OBVIOUS
  <2>2. HeldOf(res, s)[r] = At(res, s, b, r[2])
    BY <2>1 DEF At
  <2> QED
    BY <2>1, <2>2
<1> QED
  BY <1>1, <1>2 DEF TableOf, Part

LEMMA PortOrdered ==
    /\ Cardinality(Ports) \in Nat /\ DOMAIN PortOrder = 1 .. Cardinality(Ports)
    /\ \A i \in DOMAIN PortOrder : PortOrder[i] \in Ports
  BY Enumerated, PortsFinite DEF PortOrder

LEMMA ReadConfig ==
    ASSUME NEW s \in Switches
    PROVE  GetBlock(s, "config") = Part("ports", s, {"config"})
<1> DEFINE e == [p \in Ports |-> <<p, s.portAdmin[p][1], s.portAdmin[p][2]>>]
           es == [i \in DOMAIN PortOrder |-> <<PortOrder[i]>> \o s.portAdmin[PortOrder[i]]]
<1>1. \A p \in Ports : /\ p \in Nat /\ s.portAdmin[p][1] \in Nat /\ s.portAdmin[p][2] \in Nat
                       /\ s.portAdmin[p] = <<s.portAdmin[p][1], s.portAdmin[p][2]>>
  BY DEF Switches
<1>2. \A p \in Ports : <<p>> \o s.portAdmin[p] = e[p]
  <2> TAKE p \in Ports
  <2>1. <<p>> \o <<s.portAdmin[p][1], s.portAdmin[p][2]>> = e[p]
    BY <1>1, OneAndTwo
  <2> QED
    BY <2>1, <1>1
<1>3. replyBlockGet(s, "config") = <<Packed(3, es)>>
  BY DEF replyBlockGet, PerPort, Rates
<1>4. Len(es) = Cardinality(Ports) /\ DOMAIN es = DOMAIN PortOrder
  BY PortOrdered
<1>5. \A i \in DOMAIN PortOrder : es[i] = e[PortOrder[i]]
  BY <1>2, PortOrdered
<1>6. Width("config") = 3
  BY DEF Width, Rates
<1>7. \A p \in Ports : e[p] \in Seq(Nat) /\ Len(e[p]) = 3 /\ e[p][1] = p
  BY <1>1
<1>8. \A p \in Ports : KeyOf("config", e[p]) = <<"config", p>>
  BY <1>7 DEF KeyOf, Rates
<1>9. \A p \in Ports : ValueOf("config", e[p]) = At("ports", s, "config", p)
  BY HeldPorts DEF ValueOf, Rates, AdminOf
<1> HIDE DEF e, es
<1>10. PackedReply(s, "config", e, es)
  BY <1>3, <1>4, <1>5, <1>6, <1>7, <1>8 DEF PackedReply
<1>11. Agrees("ports", s, "config", Ports, e)
  <2>1. {"config"} \X Ports \subseteq DOMAIN HeldOf("ports", s)
    BY HeldPorts
  <2>2. \A q \in DOMAIN HeldOf("ports", s) : q[1] = "config" => q \in {"config"} \X Ports
    BY HeldPorts
  <2> QED
    BY <1>9, <2>1, <2>2 DEF Agrees
<1> QED
  BY <1>10, <1>11, PackedBlock, Agreement

LEMMA ReadQoS ==
    ASSUME NEW s \in Switches
    PROVE  GetBlock(s, "qos") = Part("ports", s, {"qos"})
<1> DEFINE e == [p \in Ports |-> <<p, s.portQoS[p]>>]
           es == [i \in DOMAIN PortOrder |-> <<PortOrder[i], s.portQoS[PortOrder[i]]>>]
<1>1. \A p \in Ports : p \in Nat /\ s.portQoS[p] \in Nat
  BY DEF Switches
<1>3. replyBlockGet(s, "qos") = <<Packed(2, es)>>
  BY DEF replyBlockGet, PerPort, Rates
<1>4. Len(es) = Cardinality(Ports) /\ DOMAIN es = DOMAIN PortOrder
  BY PortOrdered
<1>5. \A i \in DOMAIN PortOrder : es[i] = e[PortOrder[i]]
  BY PortOrdered
<1>6. Width("qos") = 2
  BY DEF Width, Rates
<1>7. \A p \in Ports : e[p] \in Seq(Nat) /\ Len(e[p]) = 2 /\ e[p][1] = p
  BY <1>1
<1>8. \A p \in Ports : KeyOf("qos", e[p]) = <<"qos", p>>
  BY <1>7 DEF KeyOf, Rates
<1>9. \A p \in Ports : ValueOf("qos", e[p]) = At("ports", s, "qos", p)
  BY HeldPorts DEF ValueOf, Rates
<1> HIDE DEF e, es
<1>10. PackedReply(s, "qos", e, es)
  BY <1>3, <1>4, <1>5, <1>6, <1>7, <1>8 DEF PackedReply
<1>11. Agrees("ports", s, "qos", Ports, e)
  <2>1. {"qos"} \X Ports \subseteq DOMAIN HeldOf("ports", s)
    BY HeldPorts
  <2>2. \A q \in DOMAIN HeldOf("ports", s) : q[1] = "qos" => q \in {"qos"} \X Ports
    BY HeldPorts
  <2> QED
    BY <1>9, <2>1, <2>2 DEF Agrees
<1> QED
  BY <1>10, <1>11, PackedBlock, Agreement

LEMMA ReadPVID ==
    ASSUME NEW s \in Switches
    PROVE  GetBlock(s, "pvid") = Part("vlans", s, {"pvid"})
<1> DEFINE e == [p \in Ports |-> <<p, U16(s.pvid[p])[1], U16(s.pvid[p])[2]>>]
           es == [i \in DOMAIN PortOrder |-> <<PortOrder[i]>> \o U16(s.pvid[PortOrder[i]])]
<1>1. \A p \in Ports : p \in Nat /\ s.pvid[p] \in Nat
  BY DEF Switches
<1>2. \A p \in Ports : <<p>> \o U16(s.pvid[p]) = e[p]
  <2> TAKE p \in Ports
  <2>1. U16(s.pvid[p])[1] \in Nat /\ U16(s.pvid[p])[2] \in Nat
    BY <1>1, U16Read
  <2>2. <<p>> \o <<U16(s.pvid[p])[1], U16(s.pvid[p])[2]>> = e[p]
    BY <1>1, <2>1, OneAndTwo
  <2>3. U16(s.pvid[p]) = <<U16(s.pvid[p])[1], U16(s.pvid[p])[2]>>
    BY DEF U16
  <2> QED
    BY <2>2, <2>3
<1>3. replyBlockGet(s, "pvid") = <<Packed(3, es)>>
  BY DEF replyBlockGet, PerPort, Rates
<1>4. Len(es) = Cardinality(Ports) /\ DOMAIN es = DOMAIN PortOrder
  BY PortOrdered
<1>5. \A i \in DOMAIN PortOrder : es[i] = e[PortOrder[i]]
  BY <1>2, PortOrdered
<1>6. Width("pvid") = 3
  BY DEF Width, Rates
<1>7. \A p \in Ports : e[p] \in Seq(Nat) /\ Len(e[p]) = 3 /\ e[p][1] = p
  BY <1>1, U16Read
<1>8. \A p \in Ports : KeyOf("pvid", e[p]) = <<"pvid", p>>
  BY <1>7 DEF KeyOf, Rates
<1>9. \A p \in Ports : ValueOf("pvid", e[p]) = At("vlans", s, "pvid", p)
  <2> TAKE p \in Ports
  <2>1. ValueOf("pvid", e[p]) = FromU16(e[p][2], e[p][3])
    BY DEF ValueOf, Rates
  <2>2. FromU16(e[p][2], e[p][3]) = s.pvid[p]
    BY <1>1, U16Read
  <2> QED
    BY <2>1, <2>2, HeldVLANs
<1> HIDE DEF e, es
<1>10. PackedReply(s, "pvid", e, es)
  BY <1>3, <1>4, <1>5, <1>6, <1>7, <1>8 DEF PackedReply
<1>11. Agrees("vlans", s, "pvid", Ports, e)
  <2>1. {"pvid"} \X Ports \subseteq DOMAIN HeldOf("vlans", s)
    BY HeldVLANs
  <2>2. \A q \in DOMAIN HeldOf("vlans", s) : q[1] = "pvid" => q \in {"pvid"} \X Ports
    BY HeldVLANs
  <2> QED
    BY <1>9, <2>1, <2>2 DEF Agrees
<1> QED
  BY <1>10, <1>11, PackedBlock, Agreement

LEMMA ReadRate ==
    ASSUME NEW s \in Switches, NEW t \in {"ingress", "egress"}
    PROVE  GetBlock(s, t) = Part("ports", s, {t})
<1> DEFINE rate(p) == s.rates[t][p]
           e == [p \in Ports |-> <<p, 0, 0, U16(rate(p))[1], U16(rate(p))[2]>>]
<1>1. \A p \in Ports : p \in Nat /\ rate(p) \in 0 .. 255 /\ rate(p) \in Nat
  <2>1. t \in Rates /\ s.rates \in [Rates -> [Ports -> 0 .. 255]]
    BY DEF Switches, RateTables, Rates
  <2>2. s.rates[t] \in [Ports -> 0 .. 255]
    BY <2>1
  <2>3. \A p \in Ports : rate(p) \in 0 .. 255
    BY <2>2
  <2>4. \A p \in Ports : p \in Nat
    OBVIOUS
  <2>5. \A v \in 0 .. 255 : v \in Nat
    OBVIOUS
  <2> HIDE DEF rate
  <2> QED
    BY <2>3, <2>4, <2>5
<1>2. \A p \in Ports : <<p, 0, 0>> \o U16(rate(p)) = e[p]
  <2> TAKE p \in Ports
  <2>1. U16(rate(p))[1] \in Nat /\ U16(rate(p))[2] \in Nat
    BY <1>1, U16Read
  <2>2. <<p, 0, 0>> \o <<U16(rate(p))[1], U16(rate(p))[2]>> = e[p]
    BY <1>1, <2>1, ThreeAndTwo
  <2>3. U16(rate(p)) = <<U16(rate(p))[1], U16(rate(p))[2]>>
    BY DEF U16
  <2> QED
    BY <2>2, <2>3
<1>3. replyBlockGet(s, t)
        = [i \in DOMAIN PortOrder |-> <<PortOrder[i], 0, 0>> \o U16(rate(PortOrder[i]))]
  BY DEF replyBlockGet, PerPort, Rates
<1>4. /\ DOMAIN replyBlockGet(s, t) = DOMAIN PortOrder
      /\ \A i \in DOMAIN PortOrder : replyBlockGet(s, t)[i] = e[PortOrder[i]]
  BY <1>2, <1>3, PortOrdered
<1>6. Width(t) = 5
  BY DEF Width, Rates
<1>7. \A p \in Ports : e[p] \in Seq(Nat) /\ Len(e[p]) = 5 /\ e[p][1] = p
  BY <1>1, U16Read
<1>8. \A p \in Ports : KeyOf(t, e[p]) = <<t, p>>
  BY <1>7 DEF KeyOf, Rates
<1>9. \A p \in Ports : ValueOf(t, e[p]) = At("ports", s, t, p)
  <2> TAKE p \in Ports
  <2>1. ValueOf(t, e[p]) = FromU16(e[p][4], e[p][5]) % 256
    BY DEF ValueOf, Rates
  <2>2. FromU16(e[p][4], e[p][5]) % 256 = rate(p)
    BY <1>1, ByteRead
  <2>3. t \in Rates
    BY DEF Rates
  <2> QED
    BY <2>1, <2>2, <2>3, HeldPorts
<1> HIDE DEF e, rate
<1>10. ListedReply(s, t, Ports, e)
  BY <1>4, <1>6, <1>7, <1>8, PortsFinite DEF ListedReply, PortOrder
<1>11. Agrees("ports", s, t, Ports, e)
  <2>1. {t} \X Ports \subseteq DOMAIN HeldOf("ports", s)
    BY HeldPorts
  <2>2. \A q \in DOMAIN HeldOf("ports", s) : q[1] = t => q \in {t} \X Ports
    BY HeldPorts
  <2> QED
    BY <1>9, <2>1, <2>2 DEF Agrees
<1> QED
  BY <1>10, <1>11, ListedBlock, Agreement

LEMMA ReadQoSMode ==
    ASSUME NEW s \in Switches
    PROVE  GetBlock(s, "qosMode") = Part("settings", s, {"qosMode"})
<1> DEFINE e == [x \in {0} |-> <<s.qosMode>>]
<1>1. s.qosMode \in Nat
  BY DEF Switches
<1>2. Width("qosMode") = 1
  BY DEF Width, Rates
<1>3. e[0] \in Seq(Nat) /\ Len(e[0]) = 1
  BY <1>1
<1>4. KeyOf("qosMode", e[0]) = <<"qosMode", 0>>
  BY DEF KeyOf, Rates
<1>5. replyBlockGet(s, "qosMode") = <<e[0]>>
  BY DEF replyBlockGet, Rates
<1>6. \A x \in {0} : ValueOf("qosMode", e[x]) = At("settings", s, "qosMode", x)
  BY <1>1, HeldSettings DEF ValueOf, Rates
<1> HIDE DEF e
<1>7. SingleReply(s, "qosMode", e)
  BY <1>2, <1>3, <1>4, <1>5 DEF SingleReply
<1>8. Agrees("settings", s, "qosMode", {0}, e)
  <2>1. {"qosMode"} \X {0} \subseteq DOMAIN HeldOf("settings", s)
    BY HeldSettings
  <2>2. \A q \in DOMAIN HeldOf("settings", s) : q[1] = "qosMode" => q \in {"qosMode"} \X {0}
    BY HeldSettings
  <2> QED
    BY <1>6, <2>1, <2>2 DEF Agrees
<1> QED
  BY <1>7, <1>8, SingleBlock, Agreement

LEMMA ReadMulticast ==
    ASSUME NEW s \in Switches
    PROVE  GetBlock(s, "mcast") = Part("settings", s, {"mcast"})
<1> DEFINE e == [x \in {0} |-> <<s.blockMcast>>]
<1>1. s.blockMcast \in Nat
  BY DEF Switches
<1>2. Width("mcast") = 1
  BY DEF Width, Rates
<1>3. e[0] \in Seq(Nat) /\ Len(e[0]) = 1
  BY <1>1
<1>4. KeyOf("mcast", e[0]) = <<"mcast", 0>>
  BY DEF KeyOf, Rates
<1>5. replyBlockGet(s, "mcast") = <<e[0]>>
  BY DEF replyBlockGet, Rates
<1>6. \A x \in {0} : ValueOf("mcast", e[x]) = At("settings", s, "mcast", x)
  BY <1>1, HeldSettings DEF ValueOf, Rates
<1> HIDE DEF e
<1>7. SingleReply(s, "mcast", e)
  BY <1>2, <1>3, <1>4, <1>5 DEF SingleReply
<1>8. Agrees("settings", s, "mcast", {0}, e)
  <2>1. {"mcast"} \X {0} \subseteq DOMAIN HeldOf("settings", s)
    BY HeldSettings
  <2>2. \A q \in DOMAIN HeldOf("settings", s) : q[1] = "mcast" => q \in {"mcast"} \X {0}
    BY HeldSettings
  <2> QED
    BY <1>6, <2>1, <2>2 DEF Agrees
<1> QED
  BY <1>7, <1>8, SingleBlock, Agreement

LEMMA ReadMirror ==
    ASSUME NEW s \in Switches
    PROVE  GetBlock(s, "mirror") = Part("settings", s, {"mirror"})
<1> DEFINE e == [x \in {0} |-> <<s.mirror[1], s.mirror[2], s.mirror[3]>>]
<1>1. /\ s.mirror = <<s.mirror[1], s.mirror[2], s.mirror[3]>>
      /\ s.mirror[1] \in Nat /\ s.mirror[2] \in Nat /\ s.mirror[3] \in Nat
  BY DEF Switches
<1>2. Width("mirror") = 3
  BY DEF Width, Rates
<1>3. e[0] \in Seq(Nat) /\ Len(e[0]) = 3
  BY <1>1
<1>4. KeyOf("mirror", e[0]) = <<"mirror", 0>>
  BY DEF KeyOf, Rates
<1>5. replyBlockGet(s, "mirror") = <<e[0]>>
  BY <1>1 DEF replyBlockGet, Rates
<1>6. \A x \in {0} : ValueOf("mirror", e[x]) = At("settings", s, "mirror", x)
  BY <1>1, HeldSettings DEF ValueOf, Rates, PortsFromBitmap, Carried
<1> HIDE DEF e
<1>7. SingleReply(s, "mirror", e)
  BY <1>2, <1>3, <1>4, <1>5 DEF SingleReply
<1>8. Agrees("settings", s, "mirror", {0}, e)
  <2>1. {"mirror"} \X {0} \subseteq DOMAIN HeldOf("settings", s)
    BY HeldSettings
  <2>2. \A q \in DOMAIN HeldOf("settings", s) : q[1] = "mirror" => q \in {"mirror"} \X {0}
    BY HeldSettings
  <2> QED
    BY <1>6, <2>1, <2>2 DEF Agrees
<1> QED
  BY <1>7, <1>8, SingleBlock, Agreement

\* CheckEngine's GET.
LEMMA ReadEngine ==
    ASSUME NEW s \in Switches
    PROVE  GetBlock(s, "engine")[<<"engine", 0>>] = s.engine
<1> DEFINE e == [x \in {0} |-> <<s.engine>>]
<1>1. s.engine \in Nat
  BY DEF Switches
<1>2. Width("engine") = 1
  BY DEF Width, Rates
<1>3. e[0] \in Seq(Nat) /\ Len(e[0]) = 1
  BY <1>1
<1>4. KeyOf("engine", e[0]) = <<"engine", 0>>
  BY DEF KeyOf, Rates
<1>5. replyBlockGet(s, "engine") = <<e[0]>>
  BY DEF replyBlockGet, Rates
<1>6. ValueOf("engine", e[0]) = s.engine
  BY DEF ValueOf, Rates
<1> HIDE DEF e
<1>7. SingleReply(s, "engine", e)
  BY <1>2, <1>3, <1>4, <1>5 DEF SingleReply
<1>8. TableOf("engine", {0}, e)[<<"engine", 0>>] = ValueOf("engine", e[0])
  BY DEF TableOf
<1> QED
  BY <1>6, <1>7, <1>8, SingleBlock

LEMMA TableTyped ==
    ASSUME NEW V, NEW t \in Tables(V)
    PROVE  /\ DOMAIN t \in SUBSET Nat /\ IsFiniteSet(DOMAIN t)
           /\ \A id \in DOMAIN t : t[id] \in V
  BY DEF Tables

LEMMA ReadTable ==
    ASSUME NEW s \in Switches
    PROVE  GetBlock(s, "vlan") = Part("table", s, {"vlan"})
<1> DEFINE t == s.portVLANs
           S == DOMAIN t
           e == [id \in S |-> <<U16(id)[1], U16(id)[2], t[id]>>]
<1>0. t \in Tables(Nat)
  BY DEF Switches
<1>1. S \in SUBSET Nat /\ IsFiniteSet(S) /\ \A id \in S : id \in Nat /\ t[id] \in Nat
  BY <1>0, TableTyped
<1>2. \A id \in S : U16(id) \o <<t[id]>> = e[id]
  <2> TAKE id \in S
  <2>1. U16(id)[1] \in Nat /\ U16(id)[2] \in Nat
    BY <1>1, U16Read
  <2>2. <<U16(id)[1], U16(id)[2]>> \o <<t[id]>> = e[id]
    BY <1>1, <2>1, TwoAndOne
  <2>3. U16(id) = <<U16(id)[1], U16(id)[2]>>
    BY DEF U16
  <2> QED
    BY <2>2, <2>3
<1>3. replyBlockGet(s, "vlan")
        = [i \in DOMAIN SetToSeq(S) |-> U16(SetToSeq(S)[i]) \o <<t[SetToSeq(S)[i]]>>]
  BY DEF replyBlockGet, PerVLAN, Rates
<1>4. \A i \in DOMAIN SetToSeq(S) : SetToSeq(S)[i] \in S
  BY <1>1, Enumerated
<1>5. /\ DOMAIN replyBlockGet(s, "vlan") = DOMAIN SetToSeq(S)
      /\ \A i \in DOMAIN SetToSeq(S) : replyBlockGet(s, "vlan")[i] = e[SetToSeq(S)[i]]
  BY <1>2, <1>3, <1>4
<1>6. Width("vlan") = 3
  BY DEF Width, Rates
<1>7. \A id \in S : e[id] \in Seq(Nat) /\ Len(e[id]) = 3 /\ FromU16(e[id][1], e[id][2]) = id
  BY <1>1, U16Read
<1>8. \A id \in S : KeyOf("vlan", e[id]) = <<"vlan", id>>
  BY <1>7 DEF KeyOf, Rates
<1>9. \A id \in S : ValueOf("vlan", e[id]) = At("table", s, "vlan", id)
  <2> TAKE id \in S
  <2>1. ValueOf("vlan", e[id]) = PortsFromBitmap(e[id][3])
    BY DEF ValueOf, Rates
  <2>2. e[id][3] = t[id]
    OBVIOUS
  <2>3. At("table", s, "vlan", id) = Carried(t[id])
    BY HeldTable
  <2> QED
    BY <2>1, <2>2, <2>3 DEF PortsFromBitmap, Carried
<1>12. DOMAIN HeldOf("table", s) = {"vlan"} \X S
  BY HeldTable
<1> HIDE DEF e, S, t
<1>10. ListedReply(s, "vlan", S, e)
  <2>1. Width("vlan") \in 1 .. 5 /\ IsFiniteSet(S)
    BY <1>1, <1>6
  <2>2. \A id \in S : /\ e[id] \in Seq(Nat) /\ Len(e[id]) = Width("vlan")
                      /\ KeyOf("vlan", e[id]) = <<"vlan", id>>
    BY <1>6, <1>7, <1>8
  <2> QED
    BY <2>1, <2>2, <1>5 DEF ListedReply
<1>11. Agrees("table", s, "vlan", S, e)
  BY <1>9, <1>12 DEF Agrees
<1> QED
  BY <1>10, <1>11, ListedBlock, Agreement

LEMMA Read8021Q ==
    ASSUME NEW s \in Switches
    PROVE  GetBlock(s, "8021q") = Part("vlans", s, {"8021q"})
<1> DEFINE t == s.vlan8021Q
           S == DOMAIN t
           T(id) == PortsFromBitmap(t[id].tagged)
           U(id) == PortsFromBitmap(t[id].untagged)
           m(id) == PortBitmap(T(id) \cup U(id))
           e == [id \in S |-> <<U16(id)[1], U16(id)[2], m(id), t[id].tagged>>]
<1>0. t \in Tables(Entries)
  BY DEF Switches
<1>1. S \in SUBSET Nat /\ IsFiniteSet(S) /\ \A id \in S : id \in Nat /\ t[id] \in Entries
  BY <1>0, TableTyped
<1>2. \A id \in S : t[id].tagged \in Nat /\ m(id) \in Nat /\ T(id) \cap U(id) = {}
  BY <1>1, BitmapRead DEF Entries, Carried, PortsFromBitmap
<1>3. \A id \in S : U16(id) \o <<m(id), t[id].tagged>> = e[id]
  <2> TAKE id \in S
  <2>1. U16(id)[1] \in Nat /\ U16(id)[2] \in Nat
    BY <1>1, U16Read
  <2>2. <<U16(id)[1], U16(id)[2]>> \o <<m(id), t[id].tagged>> = e[id]
    BY <1>2, <2>1, TwoAndTwo
  <2>3. U16(id) = <<U16(id)[1], U16(id)[2]>>
    BY DEF U16
  <2> QED
    BY <2>2, <2>3
<1>4. replyBlockGet(s, "8021q")
        = [i \in DOMAIN SetToSeq(S) |->
              U16(SetToSeq(S)[i]) \o <<m(SetToSeq(S)[i]), t[SetToSeq(S)[i]].tagged>>]
  BY DEF replyBlockGet, PerVLAN, Rates
<1>5. \A i \in DOMAIN SetToSeq(S) : SetToSeq(S)[i] \in S
  BY <1>1, Enumerated
<1>6. /\ DOMAIN replyBlockGet(s, "8021q") = DOMAIN SetToSeq(S)
      /\ \A i \in DOMAIN SetToSeq(S) : replyBlockGet(s, "8021q")[i] = e[SetToSeq(S)[i]]
  BY <1>3, <1>4, <1>5
<1>7. Width("8021q") = 4
  BY DEF Width, Rates
<1>8. \A id \in S : e[id] \in Seq(Nat) /\ Len(e[id]) = 4 /\ FromU16(e[id][1], e[id][2]) = id
  <2> TAKE id \in S
  <2>1. /\ U16(id)[1] \in Nat /\ U16(id)[2] \in Nat /\ m(id) \in Nat /\ t[id].tagged \in Nat
        /\ FromU16(U16(id)[1], U16(id)[2]) = id
    BY <1>1, <1>2, U16Read
  <2>2. e[id] = <<U16(id)[1], U16(id)[2], m(id), t[id].tagged>>
    OBVIOUS
  <2> HIDE DEF e, m, t
  <2> QED
    BY <2>1, <2>2
<1>9. \A id \in S : KeyOf("8021q", e[id]) = <<"8021q", id>>
  BY <1>8 DEF KeyOf, Rates
<1>10. \A id \in S : ValueOf("8021q", e[id]) = At("vlans", s, "8021q", id)
  <2> TAKE id \in S
  <2>1. ValueOf("8021q", e[id]) = decode8021QEntry(m(id), t[id].tagged)
    BY DEF ValueOf, Rates
  <2>2. PortsFromBitmap(m(id)) = T(id) \cup U(id)
    BY BitmapRead DEF PortsFromBitmap
  <2>3. decode8021QEntry(m(id), t[id].tagged) = <<T(id), U(id)>>
    <3> HIDE DEF m, T, U
    <3>1. decode8021QEntry(m(id), t[id].tagged)
            = <<T(id) \cap (T(id) \cup U(id)), (T(id) \cup U(id)) \ T(id)>>
      BY <2>2 DEF decode8021QEntry, T
    <3>2. T(id) \cap (T(id) \cup U(id)) = T(id) /\ (T(id) \cup U(id)) \ T(id) = U(id)
      BY <1>2
    <3> QED
      BY <3>1, <3>2
  <2>4. At("vlans", s, "8021q", id) = <<T(id), U(id)>>
    BY HeldVLANs DEF Carried, PortsFromBitmap
  <2> QED
    BY <2>1, <2>3, <2>4
<1>11. /\ \A q \in DOMAIN HeldOf("vlans", s) : q[1] = "8021q" => q \in {"8021q"} \X S
       /\ {"8021q"} \X S \subseteq DOMAIN HeldOf("vlans", s)
  <2>1. DOMAIN HeldOf("vlans", s) = ({"8021q"} \X S) \cup ({"pvid"} \X Ports)
    BY HeldVLANs
  <2> HIDE DEF S
  <2> QED
    BY <2>1
<1> HIDE DEF e, S, t
<1>12. ListedReply(s, "8021q", S, e)
  <2>1. Width("8021q") \in 1 .. 5 /\ IsFiniteSet(S)
    BY <1>1, <1>7
  <2>2. \A id \in S : /\ e[id] \in Seq(Nat) /\ Len(e[id]) = Width("8021q")
                      /\ KeyOf("8021q", e[id]) = <<"8021q", id>>
    BY <1>7, <1>8, <1>9
  <2> QED
    BY <2>1, <2>2, <1>6 DEF ListedReply
<1>13. Agrees("vlans", s, "8021q", S, e)
  BY <1>10, <1>11 DEF Agrees
<1> QED
  BY <1>12, <1>13, ListedBlock, Agreement

\* Byte for byte through both codecs: a GET returns what the switch holds.
LEMMA BlockRead ==
    ASSUME NEW res \in DOMAIN Kinds, NEW s \in Switches, NEW b \in Read(res)
    PROVE  GetBlock(s, b) = Part(res, s, {b})
<1>1. CASE res = "ports"
  <2>1. b \in {"config", "qos", "ingress", "egress"}
    BY <1>1 DEF Read
  <2> QED
    BY <1>1, <2>1, ReadConfig, ReadQoS, ReadRate
<1>2. CASE res = "settings"
  <2>1. b \in {"qosMode", "mcast", "mirror"}
    BY <1>2 DEF Read
  <2> QED
    BY <1>2, <2>1, ReadQoSMode, ReadMulticast, ReadMirror
<1>3. CASE res = "table"
  <2>1. b = "vlan"
    BY <1>3 DEF Read
  <2> QED
    BY <1>3, <2>1, ReadTable
<1>4. CASE res = "vlans"
  <2>1. b \in {"8021q", "pvid"}
    BY <1>4 DEF Read
  <2> QED
    BY <1>4, <2>1, Read8021Q, ReadPVID
<1> QED
  BY <1>1, <1>2, <1>3, <1>4 DEF Kinds

-----------------------------------------------------------------------------
(* What a SET does *)

\* It may change the register it names, to y, and nothing else that is held.
Wrote(res, s, t, r, y) ==
    /\ DOMAIN HeldOf(res, s) \subseteq DOMAIN HeldOf(res, t)
    /\ DOMAIN HeldOf(res, t) \subseteq DOMAIN HeldOf(res, s) \cup {r}
    /\ r \in DOMAIN HeldOf(res, t) => HeldOf(res, t)[r] = y
    /\ \A q \in DOMAIN HeldOf(res, s) : q # r => HeldOf(res, t)[q] = HeldOf(res, s)[q]

LEMMA FlagRead == ASSUME NEW b \in BOOLEAN PROVE Flag(b) \in Nat /\ (Flag(b) # 0) = b
  BY DEF Flag

PortKinds == {"config", "qos", "ingress", "egress", "storm"}

LEMMA WrotePort ==
    ASSUME NEW s, NEW t, NEW k \in PortKinds, NEW p \in Nat, NEW y,
           p \in Ports => At("ports", t, k, p) = y,
           \A q \in Ports : (k = "config" /\ q = p) \/ t.portAdmin[q] = s.portAdmin[q],
           \A q \in Ports : (k = "qos" /\ q = p) \/ t.portQoS[q] = s.portQoS[q],
           \A j \in Rates, q \in Ports : (k = j /\ q = p) \/ t.rates[j][q] = s.rates[j][q]
    PROVE  Wrote("ports", s, t, <<k, p>>, y)
<1>1. /\ DOMAIN HeldOf("ports", s) = PortKinds \X Ports
      /\ DOMAIN HeldOf("ports", t) = PortKinds \X Ports
  BY HeldPorts DEF PortKinds
<1>2. <<k, p>> \in DOMAIN HeldOf("ports", t) => HeldOf("ports", t)[<<k, p>>] = y
  BY <1>1 DEF At
<1>3. ASSUME NEW j \in PortKinds, NEW q \in Ports, j # k \/ q # p
      PROVE  At("ports", t, j, q) = At("ports", s, j, q)
  <2>1. CASE j = "config"
    <3>1. t.portAdmin[q] = s.portAdmin[q]
      BY <1>3, <2>1
    <3> QED
      BY <2>1, <3>1, HeldPorts
  <2>2. CASE j = "qos"
    <3>1. t.portQoS[q] = s.portQoS[q]
      BY <1>3, <2>2
    <3> QED
      BY <2>2, <3>1, HeldPorts
  <2>3. CASE j \in Rates
    <3>1. t.rates[j][q] = s.rates[j][q]
      BY <1>3, <2>3
    <3> QED
      BY <2>3, <3>1, HeldPorts
  <2> QED
    BY <2>1, <2>2, <2>3 DEF PortKinds, Rates
<1>4. ASSUME NEW r \in PortKinds \X Ports, r # <<k, p>>
      PROVE  HeldOf("ports", t)[r] = HeldOf("ports", s)[r]
  <2>1. r = <<r[1], r[2]>> /\ r[1] \in PortKinds /\ r[2] \in Ports
    OBVIOUS
  <2>2. r[1] # k \/ r[2] # p
    BY <1>4, <2>1
  <2>3. At("ports", t, r[1], r[2]) = At("ports", s, r[1], r[2])
    BY <1>3, <2>1, <2>2
  <2> QED
    BY <2>1, <2>3 DEF At
<1> QED
  BY <1>1, <1>2, <1>4 DEF Wrote

LEMMA WriteConfig ==
    ASSUME NEW s \in Switches, NEW p \in Nat, NEW x \in BOOLEAN \X BOOLEAN, NEW t,
           t = applyTLV(s, "config", Payload(<<"config", p>>, x))
    PROVE  t \in Switches /\ t.engine = s.engine /\ Wrote("ports", s, t, <<"config", p>>, x)
<1>1. x = <<x[1], x[2]>> /\ x[1] \in BOOLEAN /\ x[2] \in BOOLEAN
  OBVIOUS
<1> DEFINE y == <<Flag(x[1]), Flag(x[2])>>
<1>2. y \in Nat \X Nat /\ AdminOf(y) = x
  <2>1. (Flag(x[1]) # 0) = x[1] /\ (Flag(x[2]) # 0) = x[2]
    BY <1>1, FlagRead
  <2>2. Flag(x[1]) \in Nat /\ Flag(x[2]) \in Nat
    BY <1>1, FlagRead
  <2>3. <<y[1] # 0, y[2] # 0>> = <<x[1], x[2]>>
    BY <2>1
  <2> QED
    BY <1>1, <2>2, <2>3 DEF AdminOf
<1> DEFINE f == [s.portAdmin EXCEPT ![p] = y]
<1>3. t = [s EXCEPT !.portAdmin = f]
  BY DEF applyTLV, Payload, portConfigPayload, Rates
<1> HIDE DEF y
<1>4. s.portAdmin \in [Ports -> Nat \X Nat]
  BY DEF Switches
<1>5. /\ f \in [Ports -> Nat \X Nat]
      /\ \A q \in Ports : f[q] = IF q = p THEN y ELSE s.portAdmin[q]
  BY <1>2, <1>4
<1> HIDE DEF f
<1>6. /\ t \in Switches /\ t.engine = s.engine
      /\ t.portAdmin = f /\ t.portQoS = s.portQoS /\ t.rates = s.rates
  BY <1>3, <1>5 DEF Switches
<1>7. p \in Ports => At("ports", t, "config", p) = x
  <2> HAVE p \in Ports
  <2>1. t.portAdmin[p] = y
    BY <1>5, <1>6
  <2>2. At("ports", t, "config", p) = AdminOf(t.portAdmin[p])
    BY HeldPorts
  <2> QED
    BY <1>2, <2>1, <2>2
<1> QED
  BY <1>5, <1>6, <1>7, WrotePort DEF PortKinds

LEMMA WriteQoS ==
    ASSUME NEW s \in Switches, NEW p \in Nat, NEW x \in Nat, NEW t,
           t = applyTLV(s, "qos", Payload(<<"qos", p>>, x))
    PROVE  t \in Switches /\ t.engine = s.engine /\ Wrote("ports", s, t, <<"qos", p>>, x)
<1> DEFINE f == [s.portQoS EXCEPT ![p] = x]
<1>1. t = [s EXCEPT !.portQoS = f]
  BY DEF applyTLV, Payload, Rates
<1>2. s.portQoS \in [Ports -> Nat]
  BY DEF Switches
<1>3. f \in [Ports -> Nat] /\ \A q \in Ports : f[q] = IF q = p THEN x ELSE s.portQoS[q]
  BY <1>2
<1> HIDE DEF f
<1>4. /\ t \in Switches /\ t.engine = s.engine
      /\ t.portAdmin = s.portAdmin /\ t.portQoS = f /\ t.rates = s.rates
  BY <1>1, <1>3 DEF Switches
<1>5. p \in Ports => At("ports", t, "qos", p) = x
  BY <1>3, <1>4, HeldPorts
<1> QED
  BY <1>3, <1>4, <1>5, WrotePort DEF PortKinds

LEMMA WriteRate ==
    ASSUME NEW s \in Switches, NEW k \in Rates, NEW p \in Nat, NEW x \in 0 .. 255, NEW t,
           t = applyTLV(s, k, Payload(<<k, p>>, x))
    PROVE  t \in Switches /\ t.engine = s.engine /\ Wrote("ports", s, t, <<k, p>>, x)
<1> DEFINE g == [s.rates[k] EXCEPT ![p] = x]
           f == [s.rates EXCEPT ![k] = g]
           v == <<p, 0, 0, U16(x)[1], U16(x)[2]>>
<1>1. Payload(<<k, p>>, x) = v
  <2>1. U16(x) = <<U16(x)[1], U16(x)[2]>> /\ U16(x)[1] \in Nat /\ U16(x)[2] \in Nat
    BY U16Read DEF U16
  <2>2. <<p, 0, 0>> \o <<U16(x)[1], U16(x)[2]>> = v
    BY <2>1, ThreeAndTwo
  <2>3. Payload(<<k, p>>, x) = ratePayload(p, x)
    BY DEF Payload, Rates
  <2> QED
    BY <2>1, <2>2, <2>3 DEF ratePayload
<1>2. FromU16(v[4], v[5]) = x /\ v[1] = p
  BY U16Read
<1> HIDE DEF v
<1>3. t = [s EXCEPT !.rates = f]
  <2>1. applyTLV(s, k, v) = [s EXCEPT !.rates[k][v[1]] = FromU16(v[4], v[5])]
    BY DEF applyTLV, Rates
  <2> QED
    BY <1>1, <1>2, <2>1
<1>4. s.rates \in [Rates -> [Ports -> 0 .. 255]]
  BY DEF Switches, RateTables
<1>5. g \in [Ports -> 0 .. 255] /\ \A q \in Ports : g[q] = IF q = p THEN x ELSE s.rates[k][q]
  <2>1. s.rates[k] \in [Ports -> 0 .. 255]
    BY <1>4
  <2> QED
    BY <2>1
<1> HIDE DEF g
<1>6. \A j \in Rates : f[j] = IF j = k THEN g ELSE s.rates[j]
  BY <1>4
<1>11. f \in RateTables
  BY <1>4, <1>5 DEF RateTables
<1> HIDE DEF f
<1>7. /\ t \in Switches /\ t.engine = s.engine
      /\ t.portAdmin = s.portAdmin /\ t.portQoS = s.portQoS /\ t.rates = f
  BY <1>3, <1>11 DEF Switches
<1>8. p \in Ports => At("ports", t, k, p) = x
  <2>1. p \in Ports => t.rates[k][p] = x
    BY <1>5, <1>6, <1>7
  <2> QED
    BY <2>1, HeldPorts
<1>9. \A j \in Rates, q \in Ports : (k = j /\ q = p) \/ t.rates[j][q] = s.rates[j][q]
  BY <1>5, <1>6, <1>7
<1>10. k \in PortKinds /\ k \notin {"config", "qos"}
  BY DEF Rates, PortKinds
<1> QED
  BY <1>7, <1>8, <1>9, <1>10, WrotePort

LEMMA WroteSetting ==
    ASSUME NEW s, NEW t, NEW k \in {"qosMode", "mcast", "mirror"}, NEW y,
           At("settings", t, k, 0) = y,
           k = "qosMode" \/ t.qosMode = s.qosMode,
           k = "mcast" \/ t.blockMcast = s.blockMcast,
           k = "mirror" \/ t.mirror = s.mirror
    PROVE  Wrote("settings", s, t, <<k, 0>>, y)
<1> DEFINE kinds == {"qosMode", "mcast", "mirror"}
<1>1. /\ DOMAIN HeldOf("settings", s) = kinds \X {0}
      /\ DOMAIN HeldOf("settings", t) = kinds \X {0}
  BY HeldSettings
<1>2. HeldOf("settings", t)[<<k, 0>>] = y
  BY DEF At
<1>3. ASSUME NEW j \in kinds, j # k
      PROVE  At("settings", t, j, 0) = At("settings", s, j, 0)
  <2>1. CASE j = "qosMode"
    <3>1. t.qosMode = s.qosMode
      BY <1>3, <2>1
    <3> QED
      BY <2>1, <3>1, HeldSettings
  <2>2. CASE j = "mcast"
    <3>1. t.blockMcast = s.blockMcast
      BY <1>3, <2>2
    <3>2. At("settings", t, "mcast", 0) = (t.blockMcast # 0)
      BY HeldSettings
    <3>3. At("settings", s, "mcast", 0) = (s.blockMcast # 0)
      BY HeldSettings
    <3> QED
      BY <2>2, <3>1, <3>2, <3>3
  <2>3. CASE j = "mirror"
    <3>1. t.mirror = s.mirror
      BY <1>3, <2>3
    <3> QED
      BY <2>3, <3>1, HeldSettings
  <2> QED
    BY <2>1, <2>2, <2>3
<1>4. ASSUME NEW r \in kinds \X {0}, r # <<k, 0>>
      PROVE  HeldOf("settings", t)[r] = HeldOf("settings", s)[r]
  <2>1. r = <<r[1], 0>> /\ r[1] \in kinds
    OBVIOUS
  <2>2. r[1] # k
    BY <1>4, <2>1
  <2>3. At("settings", t, r[1], 0) = At("settings", s, r[1], 0)
    BY <1>3, <2>1, <2>2
  <2> QED
    BY <2>1, <2>3 DEF At
<1> HIDE DEF kinds
<1> QED
  BY <1>1, <1>2, <1>4 DEF Wrote

LEMMA WriteQoSMode ==
    ASSUME NEW s \in Switches, NEW x \in Nat, NEW t,
           t = applyTLV(s, "qosMode", Payload(<<"qosMode", 0>>, x))
    PROVE  t \in Switches /\ t.engine = s.engine /\ Wrote("settings", s, t, <<"qosMode", 0>>, x)
<1>1. t = [s EXCEPT !.qosMode = x]
  BY DEF applyTLV, Payload, Rates
<1>2. /\ t \in Switches /\ t.engine = s.engine /\ t.qosMode = x
      /\ t.blockMcast = s.blockMcast /\ t.mirror = s.mirror
  BY <1>1 DEF Switches
<1> QED
  BY <1>2, HeldSettings, WroteSetting

LEMMA WriteMulticast ==
    ASSUME NEW s \in Switches, NEW x \in BOOLEAN, NEW t,
           t = applyTLV(s, "mcast", Payload(<<"mcast", 0>>, x))
    PROVE  t \in Switches /\ t.engine = s.engine /\ Wrote("settings", s, t, <<"mcast", 0>>, x)
<1> DEFINE b == Flag(x)
<1>1. t = [s EXCEPT !.blockMcast = b]
  BY DEF applyTLV, Payload, Rates
<1>2. b \in Nat /\ (b # 0) = x
  BY FlagRead
<1> HIDE DEF b
<1>3. /\ t \in Switches /\ t.engine = s.engine /\ t.blockMcast = b
      /\ t.qosMode = s.qosMode /\ t.mirror = s.mirror
  BY <1>1, <1>2 DEF Switches
<1>4. At("settings", t, "mcast", 0) = x
  <2>1. At("settings", t, "mcast", 0) = (t.blockMcast # 0)
    BY HeldSettings
  <2>2. (t.blockMcast # 0) = (b # 0)
    BY <1>3
  <2> QED
    BY <1>2, <2>1, <2>2
<1> QED
  BY <1>3, <1>4, WroteSetting

LEMMA WriteMirror ==
    ASSUME NEW s \in Switches, NEW x \in Nat \X (SUBSET (1 .. 8)), NEW t,
           t = applyTLV(s, "mirror", Payload(<<"mirror", 0>>, x))
    PROVE  /\ t \in Switches /\ t.engine = s.engine
           /\ Wrote("settings", s, t, <<"mirror", 0>>, Meant(<<"mirror", 0>>, x))
<1> DEFINE v == buildMirrorPayload(x)
           y == Meant(<<"mirror", 0>>, x)
<1>1. t = [s EXCEPT !.mirror = v]
  BY DEF applyTLV, Payload, Rates
<1>2. v \in Nat \X Nat \X Nat /\ <<v[1], Carried(v[3])>> = y
  <2>1. x[1] \in Nat /\ x[2] \subseteq 1 .. 8 /\ x = <<x[1], x[2]>>
    OBVIOUS
  <2>2. CASE x[1] = 0
    <3>1. v = <<0, 0, 0>> /\ y = <<0, {}>>
      BY <2>2 DEF buildMirrorPayload, Meant
    <3>2. PortBitmap({}) = 0
      BY DEF PortBitmap, PortBitmapOf7, BitIf
    <3>3. Carried(0) = {}
      BY <3>2, BitmapRead DEF Carried, PortsFromBitmap
    <3> QED
      BY <3>1, <3>3
  <2>3. CASE x[1] # 0
    <3>1. v = <<x[1], 0, PortBitmap(x[2])>> /\ y = x
      BY <2>3 DEF buildMirrorPayload, Meant
    <3>2. PortBitmap(x[2]) \in 0 .. 255 /\ PortsFromBitmap(PortBitmap(x[2])) = x[2] \cap (1 .. 8)
      BY BitmapRead
    <3>3. Carried(PortBitmap(x[2])) = x[2]
      BY <2>1, <3>2 DEF Carried, PortsFromBitmap
    <3>4. PortBitmap(x[2]) \in Nat
      BY <3>2
    <3> QED
      BY <2>1, <3>1, <3>3, <3>4
  <2> QED
    BY <2>2, <2>3
<1> HIDE DEF v, y
<1>3. /\ t \in Switches /\ t.engine = s.engine /\ t.mirror = v
      /\ t.qosMode = s.qosMode /\ t.blockMcast = s.blockMcast
  BY <1>1, <1>2 DEF Switches
<1>4. At("settings", t, "mirror", 0) = y
  BY <1>2, <1>3, HeldSettings
<1>5. Wrote("settings", s, t, <<"mirror", 0>>, y)
  BY <1>3, <1>4, WroteSetting
<1> QED
  BY <1>3, <1>5 DEF y

Extends(V, g, f, id, y) ==
    /\ g \in Tables(V) /\ DOMAIN g = DOMAIN f \cup {id} /\ g[id] = y
    /\ \A q \in DOMAIN f : q # id => g[q] = f[q]

LEMMA MergeTable ==
    ASSUME NEW V, NEW f, f \in Tables(V), NEW id \in Nat, NEW y, y \in V
    PROVE  Extends(V, Merge(f, Single(id, y)), f, id, y)
<1> DEFINE g == Merge(f, Single(id, y))
<1>1. DOMAIN f \in SUBSET Nat /\ IsFiniteSet(DOMAIN f) /\ \A q \in DOMAIN f : f[q] \in V
  BY TableTyped
<1>2. IsFiniteSet(DOMAIN f \cup {id}) /\ DOMAIN f \cup {id} \in SUBSET Nat
  BY <1>1, FS_AddElement
<1>3. g = [q \in DOMAIN f \cup {id} |-> IF q = id THEN y ELSE f[q]]
  BY DEF Merge, Single
<1>4. g \in [DOMAIN f \cup {id} -> V]
  BY <1>1, <1>3
<1>5. g \in Tables(V)
  BY <1>2, <1>4 DEF Tables
<1> QED
  BY <1>3, <1>5 DEF Extends

LEMMA WriteVLAN ==
    ASSUME NEW s \in Switches, NEW id \in Nat, NEW x \in SUBSET (1 .. 8), NEW t,
           t = applyTLV(s, "vlan", Payload(<<"vlan", id>>, x))
    PROVE  /\ t \in Switches /\ t.engine = s.engine /\ Wrote("table", s, t, <<"vlan", id>>, x)
           /\ <<"vlan", id>> \in DOMAIN HeldOf("table", t)
<1> DEFINE b == PortBitmap(x)
           v == <<U16(id)[1], U16(id)[2], b>>
           f == s.portVLANs
           g == Merge(f, Single(id, b))
<1>1. b \in Nat /\ Carried(b) = x
  <2>1. PortBitmap(x) \in 0 .. 255 /\ PortsFromBitmap(PortBitmap(x)) = x \cap (1 .. 8)
    BY BitmapRead
  <2>2. x \cap (1 .. 8) = x
    OBVIOUS
  <2>3. b \in Nat
    BY <2>1
  <2>4. PortsFromBitmap(b) = x
    BY <2>1, <2>2
  <2> QED
    BY <2>3, <2>4 DEF Carried, PortsFromBitmap
<1> HIDE DEF b
<1>2. Payload(<<"vlan", id>>, x) = v
  <2>1. U16(id) = <<U16(id)[1], U16(id)[2]>> /\ U16(id)[1] \in Nat /\ U16(id)[2] \in Nat
    BY U16Read DEF U16
  <2>2. <<U16(id)[1], U16(id)[2]>> \o <<b>> = v
    BY <1>1, <2>1, TwoAndOne
  <2>3. Payload(<<"vlan", id>>, x) = U16(id) \o <<b>>
    BY DEF Payload, Rates, b
  <2> QED
    BY <2>1, <2>2, <2>3
<1>3. FromU16(v[1], v[2]) = id /\ v[3] = b
  BY U16Read
<1> HIDE DEF v
<1>4. t = [s EXCEPT !.portVLANs = g]
  <2>1. applyTLV(s, "vlan", v)
          = [s EXCEPT !.portVLANs = Merge(@, Single(FromU16(v[1], v[2]), v[3]))]
    BY DEF applyTLV, Rates
  <2> QED
    BY <1>2, <1>3, <2>1
<1>5. f \in Tables(Nat)
  BY DEF Switches
<1>6. /\ g \in Tables(Nat) /\ DOMAIN g = DOMAIN f \cup {id} /\ g[id] = b
      /\ \A q \in DOMAIN f : q # id => g[q] = f[q]
  <2>1. Extends(Nat, g, f, id, b)
    <3> DEFINE V == Nat
    <3>1. b \in V /\ f \in Tables(V)
      BY <1>1, <1>5
    <3> HIDE DEF V, f
    <3>2. Extends(V, Merge(f, Single(id, b)), f, id, b)
      BY <3>1, MergeTable
    <3> QED
      BY <3>2 DEF V
  <2> QED
    BY <2>1 DEF Extends
<1> HIDE DEF g
<1>7. t \in Switches /\ t.engine = s.engine /\ t.portVLANs = g
  BY <1>4, <1>6 DEF Switches
<1>8. /\ DOMAIN HeldOf("table", s) = {"vlan"} \X DOMAIN f
      /\ DOMAIN HeldOf("table", t) = {"vlan"} \X DOMAIN g
  BY <1>7, HeldTable
<1>9. HeldOf("table", t)[<<"vlan", id>>] = x
  <2>1. id \in DOMAIN t.portVLANs /\ t.portVLANs[id] = b
    BY <1>6, <1>7
  <2>2. At("table", t, "vlan", id) = x
    BY <1>1, <2>1, HeldTable
  <2> QED
    BY <2>2 DEF At
<1>10. ASSUME NEW r \in {"vlan"} \X DOMAIN f, r # <<"vlan", id>>
       PROVE  HeldOf("table", t)[r] = HeldOf("table", s)[r]
  <2>1. r = <<"vlan", r[2]>> /\ r[2] \in DOMAIN f /\ r[2] # id
    BY <1>10
  <2>2. r[2] \in DOMAIN t.portVLANs /\ t.portVLANs[r[2]] = s.portVLANs[r[2]]
    BY <1>6, <1>7, <2>1
  <2>3. At("table", t, "vlan", r[2]) = At("table", s, "vlan", r[2])
    BY <2>1, <2>2, HeldTable
  <2> QED
    BY <2>1, <2>3 DEF At
<1>11. /\ {"vlan"} \X DOMAIN f \subseteq {"vlan"} \X DOMAIN g
       /\ {"vlan"} \X DOMAIN g \subseteq ({"vlan"} \X DOMAIN f) \cup {<<"vlan", id>>}
  BY <1>6
<1>12. <<"vlan", id>> \in {"vlan"} \X DOMAIN g
  BY <1>6
<1> HIDE DEF f
<1> QED
  BY <1>7, <1>8, <1>9, <1>10, <1>11, <1>12 DEF Wrote

\* What is held of the tables is told by them: the engine mode is no part of it.
LEMMA WriteEngine ==
    ASSUME NEW s \in Switches, NEW res \in {"table", "vlans"}, NEW x \in Nat, NEW t,
           t = applyTLV(s, "engine", Payload(<<"engine", 0>>, x))
    PROVE  t \in Switches /\ Wrote(res, s, t, <<"engine", 0>>, x)
<1>1. t = [s EXCEPT !.engine = x]
  BY DEF applyTLV, Payload, Rates
<1>2. /\ t \in Switches /\ t.portVLANs = s.portVLANs /\ t.pvid = s.pvid
      /\ t.vlan8021Q = s.vlan8021Q
  BY <1>1 DEF Switches
<1>3. HeldOf(res, t) = HeldOf(res, s)
  <2>1. CASE res = "table"
    BY <1>2, <2>1 DEF HeldOf
  <2>2. CASE res = "vlans"
    BY <1>2, <2>2 DEF HeldOf
  <2> QED
    BY <2>1, <2>2
<1>4. <<"engine", 0>> \notin DOMAIN HeldOf(res, s)
  <2>1. CASE res = "table"
    <3>1. DOMAIN HeldOf("table", s) = {"vlan"} \X DOMAIN s.portVLANs
      BY HeldTable
    <3>2. "engine" # "vlan"
      OBVIOUS
    <3> QED
      BY <2>1, <3>1, <3>2
  <2>2. CASE res = "vlans"
    <3>1. DOMAIN HeldOf("vlans", s) = ({"8021q"} \X DOMAIN s.vlan8021Q) \cup ({"pvid"} \X Ports)
      BY HeldVLANs
    <3>2. "engine" # "8021q" /\ "engine" # "pvid"
      OBVIOUS
    <3> QED
      BY <2>2, <3>1, <3>2
  <2> QED
    BY <2>1, <2>2
<1> QED
  BY <1>2, <1>3, <1>4 DEF Wrote

LEMMA WroteVLANs ==
    ASSUME NEW s, NEW t, NEW k \in {"8021q", "pvid"}, NEW n \in Nat, NEW y,
           <<k, n>> \in DOMAIN HeldOf("vlans", t) => At("vlans", t, k, n) = y,
           \A p \in Ports : (k = "pvid" /\ p = n) \/ t.pvid[p] = s.pvid[p],
           DOMAIN s.vlan8021Q \subseteq DOMAIN t.vlan8021Q,
           \A id \in DOMAIN t.vlan8021Q : (k = "8021q" /\ id = n) \/ id \in DOMAIN s.vlan8021Q,
           \A id \in DOMAIN s.vlan8021Q :
              (k = "8021q" /\ id = n) \/ t.vlan8021Q[id] = s.vlan8021Q[id]
    PROVE  Wrote("vlans", s, t, <<k, n>>, y)
<1> DEFINE S == DOMAIN s.vlan8021Q
           T == DOMAIN t.vlan8021Q
<1>1. /\ DOMAIN HeldOf("vlans", s) = ({"8021q"} \X S) \cup ({"pvid"} \X Ports)
      /\ DOMAIN HeldOf("vlans", t) = ({"8021q"} \X T) \cup ({"pvid"} \X Ports)
  BY HeldVLANs
<1>2. <<k, n>> \in DOMAIN HeldOf("vlans", t) => HeldOf("vlans", t)[<<k, n>>] = y
  BY DEF At
<1>3. ASSUME NEW r \in DOMAIN HeldOf("vlans", s), r # <<k, n>>
      PROVE  HeldOf("vlans", t)[r] = HeldOf("vlans", s)[r]
  <2>1. CASE r \in {"8021q"} \X S
    <3>1. PICK id \in S : r = <<"8021q", id>>
      BY <2>1
    <3>2. id \in T /\ t.vlan8021Q[id] = s.vlan8021Q[id]
      BY <1>3, <3>1
    <3>3. At("vlans", s, "8021q", id)
            = <<Carried(s.vlan8021Q[id].tagged), Carried(s.vlan8021Q[id].untagged)>>
      BY HeldVLANs
    <3>4. At("vlans", t, "8021q", id)
            = <<Carried(t.vlan8021Q[id].tagged), Carried(t.vlan8021Q[id].untagged)>>
      BY <3>2, HeldVLANs
    <3> QED
      BY <3>1, <3>2, <3>3, <3>4 DEF At
  <2>2. CASE r \in {"pvid"} \X Ports
    <3>1. PICK p \in Ports : r = <<"pvid", p>>
      <4>1. r[2] \in Ports /\ r = <<"pvid", r[2]>>
        BY <2>2
      <4> QED
        BY <4>1
    <3>2. t.pvid[p] = s.pvid[p]
      BY <1>3, <3>1
    <3>3. At("vlans", s, "pvid", p) = s.pvid[p]
      BY HeldVLANs
    <3>4. At("vlans", t, "pvid", p) = t.pvid[p]
      BY HeldVLANs
    <3> QED
      BY <3>1, <3>2, <3>3, <3>4 DEF At
  <2> QED
    BY <1>1, <2>1, <2>2
<1>4. S \subseteq T /\ \A id \in T : (k = "8021q" /\ id = n) \/ id \in S
  OBVIOUS
<1> HIDE DEF S, T
<1>5. /\ DOMAIN HeldOf("vlans", s) \subseteq DOMAIN HeldOf("vlans", t)
      /\ DOMAIN HeldOf("vlans", t) \subseteq DOMAIN HeldOf("vlans", s) \cup {<<k, n>>}
  BY <1>1, <1>4
<1> QED
  BY <1>2, <1>3, <1>5 DEF Wrote

LEMMA WritePVID ==
    ASSUME NEW s \in Switches, NEW p \in Nat, NEW x \in Nat, NEW t,
           t = applyTLV(s, "pvid", Payload(<<"pvid", p>>, x))
    PROVE  t \in Switches /\ t.engine = s.engine /\ Wrote("vlans", s, t, <<"pvid", p>>, x)
<1> DEFINE f == [s.pvid EXCEPT ![p] = x]
           v == <<p, U16(x)[1], U16(x)[2]>>
<1>1. Payload(<<"pvid", p>>, x) = v
  <2>1. U16(x) = <<U16(x)[1], U16(x)[2]>> /\ U16(x)[1] \in Nat /\ U16(x)[2] \in Nat
    BY U16Read DEF U16
  <2>2. <<p>> \o <<U16(x)[1], U16(x)[2]>> = v
    BY <2>1, OneAndTwo
  <2>3. Payload(<<"pvid", p>>, x) = <<p>> \o U16(x)
    BY DEF Payload, Rates
  <2> QED
    BY <2>1, <2>2, <2>3
<1>2. FromU16(v[2], v[3]) = x /\ v[1] = p
  BY U16Read
<1> HIDE DEF v
<1>3. t = [s EXCEPT !.pvid = f]
  <2>1. applyTLV(s, "pvid", v) = [s EXCEPT !.pvid[v[1]] = FromU16(v[2], v[3])]
    BY DEF applyTLV, Rates
  <2> QED
    BY <1>1, <1>2, <2>1
<1>4. s.pvid \in [Ports -> Nat]
  BY DEF Switches
<1>5. f \in [Ports -> Nat] /\ \A q \in Ports : f[q] = IF q = p THEN x ELSE s.pvid[q]
  BY <1>4
<1> HIDE DEF f
<1>6. t \in Switches /\ t.engine = s.engine /\ t.pvid = f /\ t.vlan8021Q = s.vlan8021Q
  BY <1>3, <1>5 DEF Switches
<1>7. <<"pvid", p>> \in DOMAIN HeldOf("vlans", t) => At("vlans", t, "pvid", p) = x
  <2>1. <<"pvid", p>> \in DOMAIN HeldOf("vlans", t) => p \in Ports
    <3>1. DOMAIN HeldOf("vlans", t) = ({"8021q"} \X DOMAIN t.vlan8021Q) \cup ({"pvid"} \X Ports)
      BY HeldVLANs
    <3>2. "pvid" # "8021q"
      OBVIOUS
    <3> QED
      BY <3>1, <3>2
  <2>2. p \in Ports => t.pvid[p] = x
    BY <1>5, <1>6
  <2> QED
    BY <2>1, <2>2, HeldVLANs
<1>8. \A q \in Ports : q = p \/ t.pvid[q] = s.pvid[q]
  BY <1>5, <1>6
<1> QED
  BY <1>6, <1>7, <1>8, WroteVLANs

LEMMA Write8021Q ==
    ASSUME NEW s \in Switches, NEW id \in Nat,
           NEW x \in (SUBSET (1 .. 8)) \X (SUBSET (1 .. 8)), NEW t,
           t = applyTLV(s, "8021q", Payload(<<"8021q", id>>, x))
    PROVE  /\ t \in Switches /\ t.engine = s.engine
           /\ Wrote("vlans", s, t, <<"8021q", id>>, Meant(<<"8021q", id>>, x))
<1> DEFINE a == PortBitmap(x[1] \cup x[2])
           b == PortBitmap(x[1])
           v == <<U16(id)[1], U16(id)[2], a, b>>
           e == SplitEntry(a, b)
           f == s.vlan8021Q
           g == Merge(f, Single(id, e))
           y == <<x[1], x[2] \ x[1]>>
<1>1. x[1] \subseteq 1 .. 8 /\ x[2] \subseteq 1 .. 8
  OBVIOUS
<1>2. \A ports : /\ PortBitmap(ports) \in Nat
                 /\ ports \subseteq 1 .. 8 => PortsFromBitmap(PortBitmap(ports)) = ports
  <2> TAKE ports
  <2>1. PortBitmap(ports) \in 0 .. 255 /\ PortsFromBitmap(PortBitmap(ports)) = ports \cap (1 .. 8)
    BY BitmapRead
  <2>2. ports \subseteq 1 .. 8 => ports \cap (1 .. 8) = ports
    OBVIOUS
  <2>3. PortBitmap(ports) \in Nat
    BY <2>1
  <2> QED
    BY <2>1, <2>2, <2>3
<1>3. a \in Nat /\ b \in Nat
  BY <1>2
<1>4. e \in Entries /\ Carried(e.tagged) = x[1] /\ Carried(e.untagged) = x[2] \ x[1]
  <2>1. PortsFromBitmap(a) = x[1] \cup x[2] /\ PortsFromBitmap(b) = x[1]
    BY <1>1, <1>2
  <2> HIDE DEF a, b
  <2>2. e = [tagged |-> PortBitmap((x[1] \cup x[2]) \cap x[1]),
             untagged |-> PortBitmap((x[1] \cup x[2]) \ x[1])]
    BY <2>1 DEF SplitEntry
  <2>3. (x[1] \cup x[2]) \cap x[1] = x[1] /\ (x[1] \cup x[2]) \ x[1] = x[2] \ x[1]
    OBVIOUS
  <2>4. e = [tagged |-> PortBitmap(x[1]), untagged |-> PortBitmap(x[2] \ x[1])]
    BY <2>2, <2>3
  <2> HIDE DEF e
  <2>5. /\ PortsFromBitmap(e.tagged) = x[1] /\ PortsFromBitmap(e.untagged) = x[2] \ x[1]
        /\ e \in [tagged : Nat, untagged : Nat]
    BY <1>1, <1>2, <2>4
  <2>6. Carried(e.tagged) = x[1] /\ Carried(e.untagged) = x[2] \ x[1]
    BY <2>5 DEF Carried, PortsFromBitmap
  <2> QED
    BY <2>5, <2>6 DEF Entries
<1>5. Payload(<<"8021q", id>>, x) = v
  <2>1. U16(id) = <<U16(id)[1], U16(id)[2]>> /\ U16(id)[1] \in Nat /\ U16(id)[2] \in Nat
    BY U16Read DEF U16
  <2>2. Payload(<<"8021q", id>>, x) = U16(id) \o <<a, b>>
    BY DEF Payload, vlan8021QPayload, Rates
  <2> HIDE DEF a, b
  <2>3. <<U16(id)[1], U16(id)[2]>> \o <<a, b>> = v
    BY <1>3, <2>1, TwoAndTwo
  <2> QED
    BY <2>1, <2>2, <2>3
<1>6. FromU16(v[1], v[2]) = id /\ v[3] = a /\ v[4] = b
  BY U16Read
<1> HIDE DEF v, a, b
<1>7. t = [s EXCEPT !.vlan8021Q = g]
  <2>1. applyTLV(s, "8021q", v)
          = [s EXCEPT !.vlan8021Q = Merge(@, Single(FromU16(v[1], v[2]), SplitEntry(v[3], v[4])))]
    BY DEF applyTLV, Rates
  <2> QED
    BY <1>5, <1>6, <2>1
<1>8. f \in Tables(Entries)
  BY DEF Switches
<1> HIDE DEF e
<1>9. /\ g \in Tables(Entries) /\ DOMAIN g = DOMAIN f \cup {id} /\ g[id] = e
      /\ \A q \in DOMAIN f : q # id => g[q] = f[q]
  <2>1. Extends(Entries, g, f, id, e)
    BY <1>4, <1>8, MergeTable
  <2> QED
    BY <2>1 DEF Extends
<1> HIDE DEF g
<1>10. t \in Switches /\ t.engine = s.engine /\ t.vlan8021Q = g /\ t.pvid = s.pvid
  BY <1>7, <1>9 DEF Switches
<1>11. At("vlans", t, "8021q", id) = y
  <2>1. id \in DOMAIN t.vlan8021Q /\ t.vlan8021Q[id] = e
    BY <1>9, <1>10
  <2>2. At("vlans", t, "8021q", id) = <<Carried(e.tagged), Carried(e.untagged)>>
    BY <2>1, HeldVLANs
  <2> QED
    BY <1>4, <2>2
<1>12. /\ DOMAIN s.vlan8021Q \subseteq DOMAIN t.vlan8021Q
       /\ \A q \in DOMAIN t.vlan8021Q : q = id \/ q \in DOMAIN s.vlan8021Q
       /\ \A q \in DOMAIN s.vlan8021Q : q = id \/ t.vlan8021Q[q] = s.vlan8021Q[q]
  BY <1>9, <1>10
<1> HIDE DEF y
<1>13. Wrote("vlans", s, t, <<"8021q", id>>, y)
  BY <1>10, <1>11, <1>12, WroteVLANs
<1>14. Meant(<<"8021q", id>>, x) = y
  BY DEF Meant, y
<1> QED
  BY <1>10, <1>13, <1>14

\* DeletesVLAN: the entry is gone, and nothing else.
LEMMA DeleteDoes ==
    ASSUME NEW s \in Switches, NEW id, NEW t, t = DeletesVLAN(s, id)
    PROVE  /\ t \in Switches /\ t.engine = s.engine
           /\ HeldOf("vlans", t)
                = [q \in DOMAIN HeldOf("vlans", s) \ {<<"8021q", id>>} |-> HeldOf("vlans", s)[q]]
<1> DEFINE f == s.vlan8021Q
           g == [v \in DOMAIN f \ {id} |-> f[v]]
<1>1. t = [s EXCEPT !.vlan8021Q = g]
  BY DEF DeletesVLAN
<1>2. f \in Tables(Entries)
  BY DEF Switches
<1>3. DOMAIN f \in SUBSET Nat /\ IsFiniteSet(DOMAIN f) /\ \A q \in DOMAIN f : f[q] \in Entries
  BY <1>2, TableTyped
<1>4. g \in Tables(Entries)
  <2>1. DOMAIN f \ {id} \in SUBSET Nat /\ IsFiniteSet(DOMAIN f \ {id})
    BY <1>3, FS_Subset
  <2>2. g \in [DOMAIN f \ {id} -> Entries]
    BY <1>3
  <2> QED
    BY <2>1, <2>2 DEF Tables
<1>5. DOMAIN g = DOMAIN f \ {id} /\ \A q \in DOMAIN g : g[q] = f[q]
  OBVIOUS
<1> HIDE DEF g
<1>6. t \in Switches /\ t.engine = s.engine /\ t.vlan8021Q = g /\ t.pvid = s.pvid
  BY <1>1, <1>4 DEF Switches
<1> DEFINE D == ({"8021q"} \X DOMAIN g) \cup ({"pvid"} \X Ports)
           h == HeldOf("vlans", s)
<1>7. DOMAIN HeldOf("vlans", t) = D
  BY <1>6, HeldVLANs
<1>8. D = DOMAIN h \ {<<"8021q", id>>}
  <2>1. DOMAIN h = ({"8021q"} \X DOMAIN f) \cup ({"pvid"} \X Ports)
    BY HeldVLANs
  <2>2. "8021q" # "pvid"
    OBVIOUS
  <2> HIDE DEF h, f
  <2> QED
    BY <1>5, <2>1, <2>2
<1>9. ASSUME NEW r \in D PROVE HeldOf("vlans", t)[r] = h[r]
  <2>1. CASE r \in {"8021q"} \X DOMAIN g
    <3>1. PICK v \in DOMAIN g : r = <<"8021q", v>>
      BY <2>1
    <3>2. v \in DOMAIN f /\ t.vlan8021Q[v] = s.vlan8021Q[v] /\ v \in DOMAIN t.vlan8021Q
      BY <1>5, <1>6, <3>1
    <3>3. At("vlans", s, "8021q", v)
            = <<Carried(s.vlan8021Q[v].tagged), Carried(s.vlan8021Q[v].untagged)>>
      BY <3>2, HeldVLANs
    <3>4. At("vlans", t, "8021q", v)
            = <<Carried(t.vlan8021Q[v].tagged), Carried(t.vlan8021Q[v].untagged)>>
      BY <3>2, HeldVLANs
    <3> QED
      BY <3>1, <3>2, <3>3, <3>4 DEF At
  <2>2. CASE r \in {"pvid"} \X Ports
    <3>1. PICK p \in Ports : r = <<"pvid", p>>
      <4>1. r[2] \in Ports /\ r = <<"pvid", r[2]>>
        BY <2>2
      <4> QED
        BY <4>1
    <3>2. At("vlans", s, "pvid", p) = s.pvid[p]
      BY HeldVLANs
    <3>3. At("vlans", t, "pvid", p) = t.pvid[p]
      BY HeldVLANs
    <3> QED
      BY <1>6, <3>1, <3>2, <3>3 DEF At
  <2> QED
    BY <2>1, <2>2
<1>10. HeldOf("vlans", t) = [q \in DOMAIN HeldOf("vlans", t) |-> HeldOf("vlans", t)[q]]
  BY DEF HeldOf
<1> HIDE DEF D
<1> QED
  BY <1>6, <1>7, <1>8, <1>9, <1>10

\* A SET that one of the writers may send.
IsSet(res, r, x) ==
    /\ r[1] \in Kinds[res] /\ r[2] \in Nat /\ r = <<r[1], r[2]>> /\ x \in Values(r[1])
    /\ r[1] \in Numberless => r[2] = 0

LEMMA WriteDoes ==
    ASSUME NEW res \in DOMAIN Kinds, NEW s \in Switches, NEW r, NEW x, IsSet(res, r, x), NEW t,
           t = applyTLV(s, r[1], Payload(r, x))
    PROVE  /\ t \in Switches /\ Wrote(res, s, t, r, Meant(r, x))
           /\ r[1] # "engine" => t.engine = s.engine
<1> DEFINE k == r[1]
           n == r[2]
<1>1. k \in Kinds[res] /\ n \in Nat /\ r = <<k, n>> /\ x \in Values(k) /\ (k \in Numberless => n = 0)
  BY DEF IsSet
<1>2. t = applyTLV(s, k, Payload(<<k, n>>, x))
  BY <1>1
<1>3. k \notin {"mirror", "8021q"} => Meant(r, x) = x
  BY DEF Meant
<1>4. Meant(r, x) = Meant(<<k, n>>, x)
  BY <1>1
<1> HIDE DEF k, n
<1>5. CASE k = "config"
  <2>1. x \in BOOLEAN \X BOOLEAN /\ res = "ports"
    BY <1>1, <1>5 DEF Values, Kinds, Rates
  <2> QED
    BY <1>1, <1>2, <1>3, <1>5, <2>1, WriteConfig
<1>6. CASE k = "qos"
  <2>1. x \in Nat /\ res = "ports"
    BY <1>1, <1>6 DEF Values, Kinds, Rates
  <2> QED
    BY <1>1, <1>2, <1>3, <1>6, <2>1, WriteQoS
<1>7. CASE k \in Rates
  <2>1. x \in 0 .. 255 /\ res = "ports" /\ k \notin {"mirror", "8021q"}
    BY <1>1, <1>7 DEF Values, Kinds, Rates
  <2>2. t = applyTLV(s, k, Payload(<<k, n>>, x))
    BY <1>2, <1>7, <2>1
  <2>3. t \in Switches /\ t.engine = s.engine /\ Wrote("ports", s, t, <<k, n>>, x)
    BY <1>1, <1>7, <2>1, <2>2, WriteRate
  <2> QED
    BY <1>1, <1>3, <1>7, <2>1, <2>3
<1>8. CASE k = "qosMode"
  <2>1. x \in Nat /\ res = "settings" /\ n = 0
    BY <1>1, <1>8 DEF Values, Kinds, Rates, Numberless
  <2>2. t = applyTLV(s, "qosMode", Payload(<<"qosMode", 0>>, x))
    BY <1>2, <1>8, <2>1
  <2>3. t \in Switches /\ t.engine = s.engine /\ Wrote("settings", s, t, <<"qosMode", 0>>, x)
    BY <1>1, <1>8, <2>1, <2>2, WriteQoSMode
  <2> QED
    BY <1>1, <1>3, <1>8, <2>1, <2>3
<1>9. CASE k = "mcast"
  <2>1. x \in BOOLEAN /\ res = "settings" /\ n = 0
    BY <1>1, <1>9 DEF Values, Kinds, Rates, Numberless
  <2> QED
    BY <1>1, <1>2, <1>3, <1>9, <2>1, WriteMulticast
<1>10. CASE k = "mirror"
  <2>1. x \in Nat \X (SUBSET (1 .. 8)) /\ res = "settings" /\ n = 0
    BY <1>1, <1>10 DEF Values, Kinds, Rates, Numberless
  <2> QED
    BY <1>1, <1>2, <1>4, <1>10, <2>1, WriteMirror
<1>11. CASE k = "vlan"
  <2>1. x \in SUBSET (1 .. 8) /\ res = "table"
    BY <1>1, <1>11 DEF Values, Kinds, Rates
  <2> QED
    BY <1>1, <1>2, <1>3, <1>11, <2>1, WriteVLAN
<1>12. CASE k = "8021q"
  <2>1. x \in (SUBSET (1 .. 8)) \X (SUBSET (1 .. 8)) /\ res = "vlans"
    BY <1>1, <1>12 DEF Values, Kinds, Rates
  <2> QED
    BY <1>1, <1>2, <1>4, <1>12, <2>1, Write8021Q
<1>13. CASE k = "pvid"
  <2>1. x \in Nat /\ res = "vlans"
    BY <1>1, <1>13 DEF Values, Kinds, Rates
  <2>2. t = applyTLV(s, "pvid", Payload(<<"pvid", n>>, x))
    BY <1>2, <1>13, <2>1
  <2>3. t \in Switches /\ t.engine = s.engine /\ Wrote("vlans", s, t, <<"pvid", n>>, x)
    BY <1>1, <1>13, <2>1, <2>2, WritePVID
  <2> QED
    BY <1>1, <1>3, <1>13, <2>1, <2>3
<1>14. CASE k = "engine"
  <2>1. x \in Nat /\ res \in {"table", "vlans"} /\ n = 0
    BY <1>1, <1>14 DEF Values, Kinds, Rates, Numberless
  <2> QED
    BY <1>1, <1>2, <1>3, <1>14, <2>1, WriteEngine DEF k
<1>15. k \in {"config", "qos", "storm", "ingress", "egress", "qosMode", "mcast", "mirror",
              "vlan", "engine", "8021q", "pvid"}
  BY <1>1 DEF Kinds
<1> QED
  BY <1>5, <1>6, <1>7, <1>8, <1>9, <1>10, <1>11, <1>12, <1>13, <1>14, <1>15 DEF Rates

-----------------------------------------------------------------------------
(* The inductive invariant *)

Types ==
    /\ resource \in Resources /\ switch \in Switches
    /\ \A r \in DOMAIN desired : IsSet(resource, r, desired[r]) /\ r[1] \in Read(resource)
    /\ todo \subseteq DOMAIN desired
    /\ tool # NoTool =>
          /\ resource = "ports"
          /\ tool \in [port : Ports, flag : 1 .. 2, value : BOOLEAN, entry : BOOLEAN \X BOOLEAN]

Reading == phase \in {"guard", "read", "verify", "recheck"}

Unread == Each(blocks, DOMAIN blocks)

\* A read asks for each block once.
Asks(res, b) ==
    b \in Seq(Read(res)) /\ \A i, j \in 1 .. Len(b) : b[i] = b[j] => i = j

Phases ==
    /\ phase \in {"idle", "guard", "read", "apply", "verify", "correct", "recheck"}
    /\ kind \in {"read", "apply"}
    /\ kind = "read" => phase \in {"idle", "guard", "read"}
    /\ kind = "apply" => resource # "vlans"
    /\ outcome = "ok" => phase = "idle"
    /\ todo # {} => phase \in {"apply", "correct"}
    /\ Reading => Asks(resource, blocks)

\* What has been read so far is what the switch still holds.
Seen ==
    Reading /\ ~touched => actual = Part(resource, switch, Read(resource) \ Unread)

\* Past the guard the engine mode fits, and past the first read of an apply
\* the configuration names every VLAN of the table.
GuardHolds ==
    Guarded /\ ~touched =>
        /\ phase \notin {"idle", "guard"} \/ outcome = "ok" =>
              switch.engine \in IF resource = "table" THEN {1} ELSE {3, 4}
        /\ kind = "apply" /\ (phase \notin {"idle", "guard", "read"} \/ outcome = "ok") =>
              DOMAIN Held \subseteq DOMAIN desired

IInv == Types /\ Phases /\ Seen /\ GuardHolds /\ Verified /\ OnlyDrift

LEMMA FactoryTyped == ASSUME NEW e \in Nat PROVE Factory(e) \in Switches
<1> DEFINE b == PortBitmap(Ports)
           entry == [tagged |-> 0, untagged |-> b]
<1>1. b \in Nat
  <2>1. PortBitmap(Ports) \in 0 .. 255
    BY BitmapRead
  <2> QED
    BY <2>1
<1>2. Carried(0) = {}
  <2>1. PortBitmap({}) = 0
    BY DEF PortBitmap, PortBitmapOf7, BitIf
  <2>2. PortsFromBitmap(PortBitmap({})) = {}
    BY BitmapRead
  <2> QED
    BY <2>1, <2>2 DEF Carried, PortsFromBitmap
<1> HIDE DEF b
<1>3. entry \in Entries
  BY <1>1, <1>2 DEF Entries
<1> HIDE DEF entry
<1>4. \A V, y : y \in V => Single(1, y) \in Tables(V)
  <2> TAKE V, y
  <2> HAVE y \in V
  <2>1. Single(1, y) \in [{1} -> V]
    BY DEF Single
  <2>2. {1} \in SUBSET Nat /\ IsFiniteSet({1})
    <3>1. IsFiniteSet({1})
      BY FS_Singleton
    <3> QED
      BY <3>1
  <2> QED
    BY <2>1, <2>2 DEF Tables
<1>5. Single(1, b) \in Tables(Nat)
  <2> DEFINE N == Nat
  <2>1. b \in N
    BY <1>1
  <2> HIDE DEF N
  <2>2. Single(1, b) \in Tables(N)
    BY <1>4, <2>1
  <2> QED
    BY <2>2 DEF N
<1>6. Single(1, entry) \in Tables(Entries)
  BY <1>3, <1>4
<1> DEFINE A == [p \in Ports |-> <<1, 0>>]
           Q == [p \in Ports |-> 4]
           R == [t \in Rates |-> [p \in Ports |-> 0]]
           I == [p \in Ports |-> 1]
<1>7. A \in [Ports -> Nat \X Nat] /\ Q \in [Ports -> Nat] /\ I \in [Ports -> Nat]
  OBVIOUS
<1>8. R \in RateTables
  BY DEF RateTables
<1>9. Factory(e)
        = [portAdmin |-> A, portQoS |-> Q, rates |-> R, pvid |-> I,
           mirror |-> <<0, 0, 0>>, qosMode |-> 1, blockMcast |-> 0, engine |-> e,
           portVLANs |-> Single(1, b), vlan8021Q |-> Single(1, entry)]
  BY DEF Factory, b, entry
<1> HIDE DEF A, Q, R, I
<1> QED
  BY <1>5, <1>6, <1>7, <1>8, <1>9 DEF Switches

LEMMA HeldIsTable ==
    ASSUME NEW res, NEW s
    PROVE  HeldOf(res, s) = [q \in DOMAIN HeldOf(res, s) |-> HeldOf(res, s)[q]]
  BY DEF HeldOf

LEMMA PartOfNone == ASSUME NEW res, NEW s PROVE Part(res, s, {}) = Nothing
  BY DEF Part, Nothing

LEMMA PartGrows ==
    ASSUME NEW res, NEW s, NEW K, NEW b, b \notin K
    PROVE  Merge(Part(res, s, K), Part(res, s, {b})) = Part(res, s, K \cup {b})
<1> DEFINE h == HeldOf(res, s)
           P(J) == {q \in DOMAIN h : q[1] \in J}
<1>1. P(K \cup {b}) = P(K) \cup P({b})
  OBVIOUS
<1>2. \A J : Part(res, s, J) = [r \in P(J) |-> h[r]]
  BY DEF Part
<1> HIDE DEF P, h
<1> DEFINE A == Part(res, s, K)
           B == Part(res, s, {b})
           C == Part(res, s, K \cup {b})
<1>3. /\ A = [r \in P(K) |-> h[r]] /\ B = [r \in P({b}) |-> h[r]]
      /\ C = [r \in P(K \cup {b}) |-> h[r]]
  BY <1>2
<1> HIDE DEF A, B, C
<1>4. /\ DOMAIN A = P(K) /\ DOMAIN B = P({b}) /\ \A r \in P(K) : A[r] = h[r]
      /\ \A r \in P({b}) : B[r] = h[r]
  BY <1>3
<1>5. Merge(A, B) = [r \in P(K) \cup P({b}) |-> IF r \in P({b}) THEN B[r] ELSE A[r]]
  BY <1>4 DEF Merge
<1>6. Merge(A, B) = [r \in P(K) \cup P({b}) |-> h[r]]
  BY <1>4, <1>5
<1>7. Merge(A, B) = C
  BY <1>1, <1>3, <1>6
<1> QED
  BY <1>7 DEF A, B, C

\* Storm rates are the only registers no resource manages.
LEMMA LiveRead ==
    ASSUME resource \in DOMAIN Kinds
    PROVE  /\ Live = Part(resource, switch, Read(resource))
           /\ \A r : r[1] \in Read(resource) => (r \in DOMAIN Held <=> r \in DOMAIN Live)
           /\ \A r \in DOMAIN Live : Live[r] = Held[r]
<1> DEFINE h == HeldOf(resource, switch)
<1>1. \A q \in DOMAIN h : q[1] # "storm" <=> q[1] \in Read(resource)
  <2>1. CASE resource = "ports"
    <3>1. DOMAIN h = {"config", "qos", "ingress", "egress", "storm"} \X Ports
      BY <2>1, HeldPorts
    <3> HIDE DEF h
    <3> QED
      BY <2>1, <3>1 DEF Read
  <2>2. CASE resource = "settings"
    <3>1. DOMAIN h = {"qosMode", "mcast", "mirror"} \X {0}
      BY <2>2, HeldSettings
    <3> HIDE DEF h
    <3> QED
      BY <2>2, <3>1 DEF Read
  <2>3. CASE resource = "table"
    <3>1. DOMAIN h = {"vlan"} \X DOMAIN switch.portVLANs
      BY <2>3, HeldTable
    <3> HIDE DEF h
    <3> QED
      BY <2>3, <3>1 DEF Read
  <2>4. CASE resource = "vlans"
    <3>1. DOMAIN h = ({"8021q"} \X DOMAIN switch.vlan8021Q) \cup ({"pvid"} \X Ports)
      BY <2>4, HeldVLANs
    <3> HIDE DEF h
    <3> QED
      BY <2>4, <3>1 DEF Read
  <2> QED
    BY <2>1, <2>2, <2>3, <2>4 DEF Kinds
<1>2. Held = h
  BY DEF Held
<1>3. Live = [r \in {q \in DOMAIN h : q[1] # "storm"} |-> h[r]]
  BY <1>2 DEF Live
<1>4. Part(resource, switch, Read(resource)) = [r \in {q \in DOMAIN h : q[1] \in Read(resource)} |-> h[r]]
  BY DEF Part
<1> HIDE DEF h
<1>5. {q \in DOMAIN h : q[1] # "storm"} = {q \in DOMAIN h : q[1] \in Read(resource)}
  BY <1>1
<1> QED
  BY <1>2, <1>3, <1>4, <1>5

LEMMA InitHolds == Init => IInv
<1> SUFFICES ASSUME Init PROVE IInv
  OBVIOUS
<1> USE DEF Init
<1>1. Types
  <2>1. PICK e \in Engines : switch = Factory(e)
    OBVIOUS
  <2>2. switch \in Switches
    BY <2>1, FactoryTyped, SettingsAssumption
  <2>3. DOMAIN desired = {}
    BY DEF Nothing
  <2> QED
    BY <2>2, <2>3 DEF Types, NoTool
<1>2. Phases
  BY DEF Phases, Reading
<1> QED
  BY <1>1, <1>2 DEF IInv, Seen, Reading, GuardHolds, Verified, OnlyDrift

\* Another manager's write says nothing of the operation, which no longer
\* promises anything about the switch.
LEMMA ForeignKeeps ==
    ASSUME IInv, Foreign, switch' \in Switches, tool' = tool \/ tool' = NoTool
    PROVE  IInv'
<1> USE DEF Foreign, opVars
<1>1. Types'
  BY DEF IInv, Types
<1>2. Phases'
  BY DEF IInv, Phases, Reading
<1>3. Verified'
  BY DEF IInv, Verified
<1> QED
  BY <1>1, <1>2, <1>3 DEF IInv, Seen, GuardHolds, OnlyDrift

\* A full read asks for all there is to read.
LEMMA AllAsked ==
    ASSUME resource \in DOMAIN Kinds
    PROVE  Asks(resource, Blocks) /\ Read(resource) \ Each(Blocks, DOMAIN Blocks) = {}
<1>1. CASE resource = "ports"
  BY <1>1 DEF Asks, Blocks, Read, Each
<1>2. CASE resource = "settings"
  BY <1>2 DEF Asks, Blocks, Read, Each
<1>3. CASE resource = "table"
  BY <1>3 DEF Asks, Blocks, Read, Each
<1>4. CASE resource = "vlans"
  BY <1>4 DEF Asks, Blocks, Read, Each
<1> QED
  BY <1>1, <1>2, <1>3, <1>4 DEF Kinds

\* The operation begins, or begins again.
LEMMA StartKeeps ==
    ASSUME IInv, Start, UNCHANGED <<resource, switch, tool>>,
           \A r \in DOMAIN desired' : IsSet(resource, r, desired'[r]) /\ r[1] \in Read(resource),
           kind' \in {"read", "apply"}, kind' = "apply" => resource # "vlans", outcome' # "ok"
    PROVE  IInv'
<1>1. resource \in DOMAIN Kinds
  BY SettingsAssumption DEF IInv, Types
<1>2. phase' \in {"guard", "read"} /\ phase' = FirstPhase /\ blocks' = Blocks
      /\ actual' = Nothing /\ todo' = {}
  BY DEF Start, FirstPhase
<1>3. Types'
  BY <1>2 DEF IInv, Types
<1>4. Asks(resource, Blocks) /\ Read(resource) \ Each(Blocks, DOMAIN Blocks) = {}
  BY <1>1, AllAsked
<1>6. Phases'
  BY <1>2, <1>4 DEF Phases, Reading
<1>7. Seen'
  <2>1. Read(resource') \ Unread' = {}
    BY <1>2, <1>4 DEF Unread
  <2> QED
    BY <1>2, <2>1, PartOfNone DEF Seen
<1>8. GuardHolds'
  BY <1>2 DEF GuardHolds, FirstPhase, Guarded
<1> QED
  BY <1>2, <1>3, <1>6, <1>7, <1>8 DEF IInv, Verified, OnlyDrift

\* The operation ends in an error.
LEMMA EndKeeps ==
    ASSUME IInv, NEW result, End(result), result # "ok", UNCHANGED <<resource, switch, tool, touched>>
    PROVE  IInv'
<1> USE DEF End
<1>1. Types'
  BY DEF IInv, Types
<1>2. Phases'
  BY DEF IInv, Phases, Reading
<1> QED
  BY <1>1, <1>2 DEF IInv, Seen, Reading, GuardHolds, Verified, OnlyDrift

LEMMA FailKeeps ==
    ASSUME IInv, NEW err, Fail(err), err # "ok", phase # "idle",
           UNCHANGED <<resource, switch, tool, touched>>
    PROVE  IInv'
<1>1. CASE err = "auth" /\ ~again
  <2>1. Start /\ UNCHANGED <<kind, desired, outcome>>
    BY <1>1 DEF Fail
  <2>2. /\ \A r \in DOMAIN desired' : IsSet(resource, r, desired'[r]) /\ r[1] \in Read(resource)
        /\ kind' \in {"read", "apply"} /\ (kind' = "apply" => resource # "vlans")
        /\ outcome' # "ok"
    BY <2>1 DEF IInv, Types, Phases
  <2> QED
    BY <2>1, <2>2, StartKeeps
<1>2. CASE ~(err = "auth" /\ ~again)
  BY <1>2, EndKeeps DEF Fail
<1> QED
  BY <1>1, <1>2

-----------------------------------------------------------------------------
(* The configuration, as SETs *)

LEMMA BlockFound ==
    ASSUME NEW c, NEW n \in Numbers(c)
    PROVE  \E i \in DOMAIN c : BlockOf(c, n) = c[i] /\ c[i].number = n
<1> DEFINE S == {c[i] : i \in DOMAIN c}
           b == CHOOSE x \in S : x.number = n
<1>1. \E x \in S : x.number = n
  BY DEF Numbers
<1>2. b \in S /\ b.number = n
  BY <1>1
<1> HIDE DEF b
<1>3. PICK i \in DOMAIN c : b = c[i]
  BY <1>2
<1>4. BlockOf(c, n) = b
  BY DEF BlockOf, b
<1> QED
  BY <1>2, <1>3, <1>4

LEMMA PortsTyped ==
    ASSUME NEW c \in Configs("ports"), Numbers(c) = Ports,
           NEW k \in {"config", "qos", "ingress", "egress"}, NEW p \in Ports
    PROVE  BlockOf(c, p)[k] \in Values(k)
<1> DEFINE B == [number : Nat, config : Values("config"), qos : Values("qos"),
                 ingress : Values("ingress"), egress : Values("egress")]
<1>1. c \in Seq(B)
  BY SettingsAssumption
<1>2. PICK i \in DOMAIN c : BlockOf(c, p) = c[i]
  BY BlockFound
<1>3. c[i] \in B
  <2> HIDE DEF B
  <2> QED
    BY <1>1
<1>4. /\ c[i]["config"] \in Values("config") /\ c[i]["qos"] \in Values("qos")
      /\ c[i]["ingress"] \in Values("ingress") /\ c[i]["egress"] \in Values("egress")
  BY <1>3
<1> QED
  BY <1>2, <1>4

LEMMA TableRowsTyped ==
    ASSUME NEW c \in Configs("table"), NEW n \in Numbers(c)
    PROVE  n \in Nat /\ BlockOf(c, n).ports \in Values("vlan")
<1> DEFINE B == [number : Nat, ports : Values("vlan")]
<1>1. c \in Seq(B)
  BY SettingsAssumption
<1>2. PICK i \in DOMAIN c : BlockOf(c, n) = c[i] /\ c[i].number = n
  BY BlockFound
<1>3. c[i] \in B
  <2> HIDE DEF B
  <2> QED
    BY <1>1
<1>4. c[i].number \in Nat /\ c[i].ports \in Values("vlan")
  BY <1>3
<1> QED
  BY <1>2, <1>4

LEMMA ExpandedTyped ==
    ASSUME resource \in Resources, resource # "vlans", NEW c \in Configs(resource), Expands(c),
           NEW r \in DOMAIN Expanded(c)
    PROVE  IsSet(resource, r, Expanded(c)[r]) /\ r[1] \in Read(resource)
<1>1. resource \in DOMAIN Kinds
  BY SettingsAssumption
<1>2. CASE resource = "ports"
  <2>1. Expanded(c) = [q \in {"config", "qos", "ingress", "egress"} \X Ports |-> BlockOf(c, q[2])[q[1]]]
    BY <1>2 DEF Expanded
  <2>2. r \in {"config", "qos", "ingress", "egress"} \X Ports
    BY <2>1
  <2>3. /\ r = <<r[1], r[2]>> /\ r[1] \in {"config", "qos", "ingress", "egress"} /\ r[2] \in Ports
        /\ r[2] \in Nat
    <3>1. r = <<r[1], r[2]>> /\ r[1] \in {"config", "qos", "ingress", "egress"} /\ r[2] \in Ports
      BY <2>2
    <3>2. \A p \in Ports : p \in Nat
      OBVIOUS
    <3> QED
      BY <3>1, <3>2
  <2>4. Expanded(c)[r] \in Values(r[1])
    <3>1. Numbers(c) = Ports
      BY <1>2 DEF Expands, ExpandsPorts
    <3>2. BlockOf(c, r[2])[r[1]] \in Values(r[1])
      BY <1>2, <2>3, <3>1, PortsTyped
    <3> QED
      BY <2>1, <2>2, <3>2
  <2>5. r[1] \in Kinds[resource] /\ r[1] \in Read(resource) /\ r[1] \notin Numberless
    BY <1>2, <2>3 DEF Kinds, Read, Numberless
  <2> QED
    BY <2>3, <2>4, <2>5 DEF IsSet
<1>3. CASE resource = "settings"
  <2>1. Expanded(c) = [q \in {"qosMode", "mcast", "mirror"} \X {0} |-> c[q[1]]]
    BY <1>3 DEF Expanded
  <2>2. r \in {"qosMode", "mcast", "mirror"} \X {0}
    BY <2>1
  <2>3. r = <<r[1], r[2]>> /\ r[1] \in {"qosMode", "mcast", "mirror"} /\ r[2] = 0
    BY <2>2
  <2>4. Expanded(c)[r] \in Values(r[1])
    <3>1. c \in [qosMode : Values("qosMode"), mcast : Values("mcast"), mirror : Values("mirror")]
      BY <1>3, SettingsAssumption
    <3>2. /\ c["qosMode"] \in Values("qosMode") /\ c["mcast"] \in Values("mcast")
          /\ c["mirror"] \in Values("mirror")
      BY <3>1
    <3>3. Expanded(c)[r] = c[r[1]]
      BY <2>1, <2>2
    <3> QED
      BY <2>3, <3>2, <3>3
  <2>5. r[1] \in Kinds[resource] /\ r[1] \in Read(resource)
    BY <1>3, <2>3 DEF Kinds, Read
  <2> QED
    BY <2>3, <2>4, <2>5 DEF IsSet
<1>4. CASE resource = "table"
  <2>1. Expanded(c) = [q \in {"vlan"} \X Numbers(c) |-> BlockOf(c, q[2]).ports]
    BY <1>4 DEF Expanded
  <2>2. r \in {"vlan"} \X Numbers(c)
    BY <2>1
  <2>3. r = <<r[1], r[2]>> /\ r[1] = "vlan" /\ r[2] \in Numbers(c)
    BY <2>2
  <2>4. r[2] \in Nat /\ BlockOf(c, r[2]).ports \in Values("vlan")
    BY <1>4, <2>3, TableRowsTyped
  <2>5. Expanded(c)[r] = BlockOf(c, r[2]).ports
    BY <2>1, <2>2
  <2>6. r[1] \in Kinds[resource] /\ r[1] \in Read(resource) /\ r[1] \notin Numberless
    BY <1>4, <2>3 DEF Kinds, Read, Numberless
  <2> QED
    BY <2>3, <2>4, <2>5, <2>6 DEF IsSet
<1> QED
  BY <1>1, <1>2, <1>3, <1>4 DEF Kinds

-----------------------------------------------------------------------------
(* Every action keeps the invariant *)

LEMMA BeginReadKeeps == ASSUME IInv, BeginRead PROVE IInv'
<1>1. /\ Start /\ UNCHANGED <<resource, switch, tool>> /\ kind' = "read" /\ desired' = Nothing
      /\ outcome' = "running"
  BY DEF BeginRead
<1>2. DOMAIN desired' = {}
  BY <1>1 DEF Nothing
<1> QED
  BY <1>1, <1>2, StartKeeps

LEMMA BeginApplyKeeps == ASSUME IInv, BeginApply PROVE IInv'
<1>1. PICK c \in Configs(resource) :
         IF Expands(c)
           THEN kind' = "apply" /\ desired' = Expanded(c) /\ Start /\ outcome' = "running"
           ELSE /\ kind' = "apply" /\ desired' = Nothing /\ outcome' = "invalid"
                /\ UNCHANGED <<phase, blocks, actual, todo>>
  BY DEF BeginApply
<1>2. phase = "idle" /\ resource # "vlans" /\ UNCHANGED <<resource, switch, told, tool>>
  BY DEF BeginApply
<1>3. CASE Expands(c)
  <2>1. kind' = "apply" /\ desired' = Expanded(c) /\ Start /\ outcome' = "running"
    BY <1>1, <1>3
  <2>2. resource \in Resources
    BY DEF IInv, Types
  <2>3. \A r \in DOMAIN desired' : IsSet(resource, r, desired'[r]) /\ r[1] \in Read(resource)
    BY <1>2, <1>3, <2>1, <2>2, ExpandedTyped
  <2> QED
    BY <1>2, <2>1, <2>3, StartKeeps
<1>4. CASE ~Expands(c)
  <2>1. /\ kind' = "apply" /\ desired' = Nothing /\ outcome' = "invalid"
        /\ UNCHANGED <<phase, blocks, actual, todo>>
    BY <1>1, <1>4
  <2>2. DOMAIN desired' = {}
    BY <2>1 DEF Nothing
  <2>3. todo = {}
    BY <1>2 DEF IInv, Phases
  <2>4. Types'
    BY <1>2, <2>1, <2>2, <2>3 DEF IInv, Types
  <2>5. Phases'
    BY <1>2, <2>1, <2>3 DEF IInv, Phases, Reading
  <2> QED
    BY <1>2, <2>1, <2>3, <2>4, <2>5 DEF IInv, Seen, Reading, GuardHolds, Verified, OnlyDrift
<1> QED
  BY <1>3, <1>4

LEMMA CheckEngineKeeps == ASSUME IInv, CheckEngine PROVE IInv'
<1>1. phase = "guard" /\ UNCHANGED <<resource, switch, touched, tool>>
  BY DEF CheckEngine
<1>2. CASE EngineFits
  <2>1. phase' = "read" /\ UNCHANGED <<kind, desired, blocks, actual, todo, again, outcome, told>>
    BY <1>2 DEF CheckEngine
  <2>2. Types'
    BY <1>1, <2>1 DEF IInv, Types
  <2>3. Phases'
    BY <1>1, <2>1 DEF IInv, Phases, Reading
  <2>4. Seen'
    BY <1>1, <2>1 DEF IInv, Seen, Reading, Unread
  <2>5. GuardHolds'
    <3>1. GetBlock(switch, "engine")[<<"engine", 0>>] = switch.engine
      BY ReadEngine DEF IInv, Types
    <3>2. switch.engine \in IF resource = "table" THEN {1} ELSE {3, 4}
      BY <1>2, <3>1 DEF EngineFits
    <3>3. outcome # "ok"
      BY <1>1 DEF IInv, Phases
    <3> QED
      BY <1>1, <2>1, <3>2, <3>3 DEF GuardHolds, Guarded
  <2>6. todo' = {} /\ outcome' # "ok"
    BY <1>1, <2>1 DEF IInv, Phases
  <2> QED
    BY <2>2, <2>3, <2>4, <2>5, <2>6 DEF IInv, Verified, OnlyDrift
<1>3. CASE ~EngineFits
  BY <1>1, <1>3, EndKeeps DEF CheckEngine
<1> QED
  BY <1>2, <1>3

LEMMA NextBlock ==
    ASSUME NEW res, NEW b, Asks(res, b), b # <<>>
    PROVE  /\ Head(b) \in Read(res) /\ Asks(res, Tail(b))
           /\ Each(b, DOMAIN b) = Each(Tail(b), DOMAIN Tail(b)) \cup {Head(b)}
           /\ Head(b) \notin Each(Tail(b), DOMAIN Tail(b))
<1> DEFINE n == Len(b)
<1>1. /\ b \in Seq(Read(res)) /\ n \in Nat /\ n > 0 /\ DOMAIN b = 1 .. n
      /\ \A i, j \in 1 .. n : b[i] = b[j] => i = j
  BY EmptySeq, LenProperties DEF Asks
<1>2. /\ Head(b) = b[1] /\ Tail(b) \in Seq(Read(res)) /\ DOMAIN Tail(b) = 1 .. (n - 1)
      /\ Len(Tail(b)) = n - 1 /\ \A i \in 1 .. (n - 1) : Tail(b)[i] = b[i + 1]
  BY <1>1, HeadTailProperties
<1> HIDE DEF n
<1>3. \A i, j \in 1 .. (n - 1) : Tail(b)[i] = Tail(b)[j] => i = j
  <2> TAKE i, j \in 1 .. (n - 1)
  <2>1. i + 1 \in 1 .. n /\ j + 1 \in 1 .. n
    BY <1>1
  <2> QED
    BY <1>1, <1>2, <2>1
<1>4. Head(b) \in Read(res) /\ 1 \in 1 .. n
  BY <1>1, <1>2
<1>5. ASSUME NEW i \in 1 .. (n - 1) PROVE Tail(b)[i] # Head(b)
  <2>1. i + 1 \in 1 .. n /\ i + 1 # 1
    BY <1>1
  <2> QED
    BY <1>1, <1>2, <1>4, <2>1
<1>6. Each(b, 1 .. n) = Each(Tail(b), 1 .. (n - 1)) \cup {Head(b)}
  <2>1. ASSUME NEW i \in 1 .. n PROVE b[i] \in Each(Tail(b), 1 .. (n - 1)) \cup {Head(b)}
    <3>1. CASE i = 1
      BY <1>2, <3>1
    <3>2. CASE i # 1
      <4>1. i - 1 \in 1 .. (n - 1) /\ (i - 1) + 1 = i
        BY <1>1, <3>2
      <4>2. Tail(b)[i - 1] = b[i]
        BY <1>2, <4>1
      <4> QED
        BY <4>1, <4>2 DEF Each
    <3> QED
      BY <3>1, <3>2
  <2>2. ASSUME NEW j \in 1 .. (n - 1) PROVE Tail(b)[j] \in Each(b, 1 .. n)
    <3>1. j + 1 \in 1 .. n /\ Tail(b)[j] = b[j + 1]
      BY <1>1, <1>2
    <3> QED
      BY <3>1 DEF Each
  <2>3. Head(b) \in Each(b, 1 .. n)
    BY <1>2, <1>4 DEF Each
  <2>4. Each(b, 1 .. n) \subseteq Each(Tail(b), 1 .. (n - 1)) \cup {Head(b)}
    BY <2>1 DEF Each
  <2>5. Each(Tail(b), 1 .. (n - 1)) \subseteq Each(b, 1 .. n)
    BY <2>2 DEF Each
  <2> QED
    BY <2>3, <2>4, <2>5
<1>7. Head(b) \notin Each(Tail(b), 1 .. (n - 1))
  BY <1>5 DEF Each
<1> QED
  BY <1>1, <1>2, <1>3, <1>4, <1>6, <1>7 DEF Asks

LEMMA ReadBlockKeeps == ASSUME IInv, ReadBlock PROVE IInv'
<1>1. /\ blocks # <<>> /\ phase # "guard" /\ blocks' = Tail(blocks)
      /\ actual' = Merge(actual, GetBlock(switch, Head(blocks)))
      /\ UNCHANGED <<resource, switch, kind, desired, phase, todo, again, outcome, told,
                     touched, tool, writes, faults>>
  BY DEF ReadBlock
<1>2. resource \in DOMAIN Kinds /\ switch \in Switches
  BY SettingsAssumption DEF IInv, Types
<1>3. Types'
  BY <1>1 DEF IInv, Types
<1>4. Phases'
  BY <1>1, NextBlock DEF IInv, Phases, Reading
<1>5. Seen'
  <2> SUFFICES ASSUME Reading, ~touched
               PROVE  actual' = Part(resource, switch, Read(resource) \ Unread')
    BY <1>1 DEF Seen, Reading
  <2> DEFINE b == Head(blocks)
             K == Read(resource) \ Unread
  <2>1. /\ b \in Read(resource) /\ Unread = Unread' \cup {b} /\ b \notin Unread'
    BY <1>1, NextBlock DEF IInv, Phases, Unread
  <2>2. actual = Part(resource, switch, K)
    BY DEF IInv, Seen
  <2>3. GetBlock(switch, b) = Part(resource, switch, {b})
    BY <1>2, <2>1, BlockRead
  <2>4. K \cup {b} = Read(resource) \ Unread' /\ b \notin K
    BY <2>1
  <2> HIDE DEF b, K
  <2>5. Merge(Part(resource, switch, K), Part(resource, switch, {b}))
          = Part(resource, switch, K \cup {b})
    BY <2>4, PartGrows
  <2> QED
    BY <1>1, <2>2, <2>3, <2>4, <2>5 DEF b
<1>6. Held' = Held /\ Live' = Live
  BY <1>1 DEF Held, Live
<1>7. GuardHolds' /\ Verified' /\ OnlyDrift'
  BY <1>1, <1>6 DEF IInv, GuardHolds, Guarded, Verified, OnlyDrift
<1> QED
  BY <1>3, <1>4, <1>5, <1>7 DEF IInv

\* A read that is complete has seen all the switch holds.
LEMMA AllSeen ==
    ASSUME IInv, Reading, blocks = <<>>, ~touched
    PROVE  actual = Live
<1>1. resource \in DOMAIN Kinds
  BY SettingsAssumption DEF IInv, Types
<1>2. Unread = {}
  BY DEF Unread, Each
<1>3. Read(resource) \ Unread = Read(resource)
  BY <1>2
<1>4. actual = Part(resource, switch, Read(resource) \ Unread)
  BY DEF IInv, Seen
<1> QED
  BY <1>1, <1>3, <1>4, LiveRead

LEMMA TellKeeps ==
    ASSUME IInv, Tell, UNCHANGED <<resource, switch, touched, tool>>,
           blocks = <<>>, phase \in {"read", "verify", "recheck"},
           kind = "apply" => phase \in {"verify", "recheck"} /\ Changes = {}
    PROVE  IInv'
<1>1. CASE ~Flattens(actual)
  BY <1>1, EndKeeps DEF Tell
<1>2. CASE Flattens(actual)
  <2>1. /\ told' = actual /\ phase' = "idle" /\ outcome' = "ok" /\ todo' = {}
        /\ UNCHANGED <<kind, desired>>
    BY <1>2 DEF Tell
  <2>2. Types'
    BY <2>1 DEF IInv, Types
  <2>3. Phases'
    BY <2>1 DEF IInv, Phases, Reading
  <2>4. Live' = Live /\ Held' = Held
    BY DEF Live, Held
  <2>5. Verified'
    <3>1. ~touched => actual = Live
      BY AllSeen DEF Reading
    <3>2. kind = "apply" => \A r \in DOMAIN desired : r \in DOMAIN actual /\ actual[r] = desired[r]
      BY DEF Changes
    <3> QED
      BY <2>1, <2>4, <3>1, <3>2 DEF Verified
  <2>6. GuardHolds'
    BY <2>1, <2>4 DEF IInv, GuardHolds, Guarded
  <2> QED
    BY <2>1, <2>2, <2>3, <2>5, <2>6 DEF IInv, Seen, Reading, OnlyDrift
<1> QED
  BY <1>1, <1>2

\* The next pass of an apply: SETs, or a read.
LEMMA EnterKeeps ==
    ASSUME IInv, NEW next, NEW registers, NEW gets, Enter(next, registers, gets),
           UNCHANGED <<resource, touched, tool>>,
           kind = "apply", phase \notin {"idle", "guard"},
           next \in {"apply", "correct", "verify", "recheck"}, registers \subseteq DOMAIN desired,
           next \in {"verify", "recheck"} => registers = {} /\ gets = Blocks,
           switch' \in Switches, switch'.engine = switch.engine,
           ~touched => \A r \in registers : ~(r \in DOMAIN Held' /\ Held'[r] = desired[r]),
           Guarded /\ ~touched => DOMAIN Held' \subseteq DOMAIN desired
    PROVE  IInv'
<1>1. /\ phase' = next /\ todo' = registers /\ blocks' = gets /\ actual' = Nothing
      /\ UNCHANGED <<kind, desired, outcome>>
  BY DEF Enter
<1>2. resource \in DOMAIN Kinds
  BY SettingsAssumption DEF IInv, Types
<1>3. Types'
  BY <1>1 DEF IInv, Types
<1>4. outcome # "ok"
  BY DEF IInv, Phases
<1>5. Phases'
  <2>1. Reading' => Asks(resource', blocks')
    BY <1>1, <1>2, AllAsked DEF Reading
  <2> QED
    BY <1>1, <1>4, <2>1 DEF IInv, Phases
<1>6. Seen'
  <2> SUFFICES ASSUME Reading' PROVE actual' = Part(resource', switch', Read(resource') \ Unread')
    BY DEF Seen
  <2>1. blocks' = Blocks
    BY <1>1 DEF Reading
  <2>2. Read(resource') \ Unread' = {}
    BY <1>2, <2>1, AllAsked DEF Unread
  <2> QED
    BY <1>1, <2>2, PartOfNone
<1>7. GuardHolds'
  BY <1>1 DEF IInv, GuardHolds, Guarded
<1>8. OnlyDrift'
  BY <1>1 DEF OnlyDrift
<1> QED
  BY <1>1, <1>3, <1>4, <1>5, <1>6, <1>7, <1>8 DEF IInv, Verified

LEMMA ReadDoneKeeps == ASSUME IInv, ReadDone PROVE IInv'
<1>1. /\ phase \in {"read", "verify", "recheck"} /\ blocks = <<>> /\ AfterRead
      /\ UNCHANGED <<resource, switch, touched, tool>>
  BY DEF ReadDone
<1>2. resource \in DOMAIN Kinds /\ switch \in Switches /\ switch' \in Switches
  BY <1>1, SettingsAssumption DEF IInv, Types
<1>3. Held' = Held
  BY <1>1 DEF Held
<1>4. Reading
  BY <1>1 DEF Reading
<1>5. Changes \subseteq DOMAIN desired
  BY DEF Changes
<1>6. ~touched => \A r \in Changes : ~(r \in DOMAIN Held' /\ Held'[r] = desired[r])
  <2> SUFFICES ASSUME ~touched, NEW r \in Changes PROVE ~(r \in DOMAIN Held /\ Held[r] = desired[r])
    BY <1>3
  <2>1. actual = Live
    BY <1>1, <1>4, AllSeen
  <2>2. r \in DOMAIN desired /\ (r \notin DOMAIN Live \/ Live[r] # desired[r])
    BY <2>1 DEF Changes
  <2>3. r[1] \in Read(resource)
    BY <2>2 DEF IInv, Types
  <2> QED
    BY <1>2, <2>2, <2>3, LiveRead
<1>7. ~touched /\ Guarded /\ kind = "apply" /\ (phase # "read" \/ ~Unmanaged) =>
         DOMAIN Held' \subseteq DOMAIN desired
  <2> SUFFICES ASSUME ~touched, Guarded, kind = "apply", phase # "read" \/ ~Unmanaged
               PROVE  DOMAIN Held \subseteq DOMAIN desired
    BY <1>3
  <2>1. CASE phase # "read"
    BY <1>1, <2>1 DEF IInv, GuardHolds
  <2>2. CASE ~Unmanaged
    <3>1. resource = "table"
      BY DEF IInv, Phases, Guarded
    <3>2. DOMAIN actual \subseteq DOMAIN desired
      BY <2>2, <3>1 DEF Unmanaged
    <3>3. DOMAIN Live \subseteq DOMAIN desired
      BY <1>1, <1>4, <3>2, AllSeen
    <3>4. \A r \in DOMAIN Held : r[1] \in Read(resource)
      <4>1. DOMAIN Held = {"vlan"} \X DOMAIN switch.portVLANs
        BY <3>1, HeldTable DEF Held
      <4> QED
        BY <3>1, <4>1 DEF Read
    <3> QED
      BY <1>2, <3>3, <3>4, LiveRead
  <2> QED
    BY <2>1, <2>2
<1>8. CASE kind = "read"
  <2>1. phase = "read"
    BY <1>1, <1>8 DEF IInv, Phases
  <2>2. Tell
    BY <1>1, <1>8, <2>1 DEF AfterRead
  <2> QED
    BY <1>1, <1>8, <2>2, TellKeeps
<1>9. CASE kind = "apply" /\ phase = "read" /\ Unmanaged
  <2>1. End("unmanaged")
    BY <1>1, <1>9 DEF AfterRead
  <2> QED
    BY <1>1, <2>1, EndKeeps
<1>10. CASE kind = "apply" /\ phase = "read" /\ ~Unmanaged
  <2>1. IF Changes = {} THEN Enter("verify", {}, Blocks) ELSE Enter("apply", Changes, <<>>)
    BY <1>1, <1>10 DEF AfterRead
  <2>2. CASE Changes = {}
    <3>1. Enter("verify", {}, Blocks)
      BY <2>1, <2>2
    <3> QED
      BY <1>1, <1>2, <1>7, <1>10, <3>1, EnterKeeps
  <2>3. CASE Changes # {}
    <3>1. Enter("apply", Changes, <<>>)
      BY <2>1, <2>3
    <3> QED
      BY <1>1, <1>2, <1>5, <1>6, <1>7, <1>10, <3>1, EnterKeeps
  <2> QED
    BY <2>2, <2>3
<1>11. CASE kind = "apply" /\ phase = "verify"
  <2>1. IF Changes = {} THEN Tell ELSE Enter("correct", Changes, <<>>)
    BY <1>1, <1>11 DEF AfterRead
  <2>2. CASE Changes = {}
    BY <1>1, <1>11, <2>1, <2>2, TellKeeps
  <2>3. CASE Changes # {}
    <3>1. Enter("correct", Changes, <<>>)
      BY <2>1, <2>3
    <3> QED
      BY <1>1, <1>2, <1>5, <1>6, <1>7, <1>11, <3>1, EnterKeeps
  <2> QED
    BY <2>2, <2>3
<1>12. CASE kind = "apply" /\ phase = "recheck"
  <2>1. IF Changes = {} THEN Tell ELSE End("drift")
    BY <1>1, <1>12 DEF AfterRead
  <2>2. CASE Changes = {}
    BY <1>1, <1>12, <2>1, <2>2, TellKeeps
  <2>3. CASE Changes # {}
    BY <1>1, <2>1, <2>3, EndKeeps
  <2> QED
    BY <2>2, <2>3
<1>13. kind \in {"read", "apply"}
  BY DEF IInv, Phases
<1> QED
  BY <1>1, <1>8, <1>9, <1>10, <1>11, <1>12, <1>13

LEMMA SetGoneKeeps ==
    ASSUME IInv, NEW r, NEW y, Due(r), SetGone(r), UNCHANGED <<resource, touched, tool>>,
           switch' \in Switches, switch'.engine = switch.engine,
           Wrote(resource, switch, switch', r, y)
    PROVE  IInv'
<1>1. phase \in {"apply", "correct"} /\ r \in todo /\ r \in DOMAIN desired
  BY DEF Due, IInv, Types
<1>2. kind = "apply" /\ outcome # "ok"
  BY <1>1 DEF IInv, Phases
<1>3. /\ DOMAIN Held' \subseteq DOMAIN Held \cup {r}
      /\ \A q \in DOMAIN Held : q # r => Held'[q] = Held[q]
  BY DEF Wrote, Held
<1>4. Guarded /\ ~touched => DOMAIN Held' \subseteq DOMAIN desired
  BY <1>1, <1>2, <1>3 DEF IInv, GuardHolds
<1>5. CASE todo = {r}
  <2>1. Enter(IF phase = "apply" THEN "verify" ELSE "recheck", {}, Blocks)
    BY <1>5 DEF SetGone
  <2> DEFINE next == IF phase = "apply" THEN "verify" ELSE "recheck"
  <2>2. next \in {"verify", "recheck"}
    OBVIOUS
  <2> HIDE DEF next
  <2>3. Enter(next, {}, Blocks)
    BY <2>1 DEF next
  <2> QED
    BY <1>1, <1>2, <1>4, <2>2, <2>3, EnterKeeps
<1>6. CASE todo # {r}
  <2>1. /\ todo' = todo \ {r}
        /\ UNCHANGED <<kind, desired, phase, blocks, actual, again, outcome, told>>
    BY <1>6 DEF SetGone
  <2>2. Types'
    BY <2>1 DEF IInv, Types
  <2>3. Phases'
    BY <1>1, <2>1 DEF IInv, Phases, Reading
  <2>4. ~Reading'
    BY <1>1, <2>1 DEF Reading
  <2>5. GuardHolds'
    BY <1>4, <2>1 DEF IInv, GuardHolds, Guarded
  <2>6. OnlyDrift'
    <3> SUFFICES ASSUME ~touched, NEW q \in todo, q # r, q \in DOMAIN Held', Held'[q] = desired[q]
                 PROVE  FALSE
      BY <2>1 DEF OnlyDrift
    <3>1. q \in DOMAIN Held /\ Held[q] = desired[q]
      BY <1>3
    <3> QED
      BY <3>1 DEF IInv, OnlyDrift
  <2> QED
    BY <1>2, <2>1, <2>2, <2>3, <2>4, <2>5, <2>6 DEF IInv, Seen, Verified
<1> QED
  BY <1>5, <1>6

\* What is SET is a SET of the resource.
LEMMA DueIsSet ==
    ASSUME IInv, NEW r, Due(r)
    PROVE  /\ resource \in DOMAIN Kinds /\ IsSet(resource, r, desired[r])
           /\ r \in DOMAIN desired /\ r[1] # "engine" /\ phase # "idle"
<1>1. resource \in DOMAIN Kinds
  BY SettingsAssumption DEF IInv, Types
<1>2. r \in DOMAIN desired /\ IsSet(resource, r, desired[r]) /\ r[1] \in Read(resource)
  BY DEF Due, IInv, Types
<1>3. "engine" \notin Read(resource)
  BY DEF Read
<1> QED
  BY <1>1, <1>2, <1>3 DEF Due

LEMMA SetAppliedKeeps == ASSUME IInv, NEW r, SetApplied(r) PROVE IInv'
<1>1. /\ Due(r) /\ switch' = applyTLV(switch, r[1], Payload(r, desired[r])) /\ SetGone(r)
      /\ UNCHANGED <<resource, touched, tool>>
  BY DEF SetApplied, Written
<1>2. switch \in Switches
  BY DEF IInv, Types
<1>3. /\ resource \in DOMAIN Kinds /\ IsSet(resource, r, desired[r]) /\ r[1] # "engine"
  BY <1>1, DueIsSet
<1>4. /\ switch' \in Switches /\ switch'.engine = switch.engine
      /\ Wrote(resource, switch, switch', r, Meant(r, desired[r]))
  BY <1>1, <1>2, <1>3, WriteDoes
<1> QED
  BY <1>1, <1>4, SetGoneKeeps

LEMMA SetDoesNothingKeeps == ASSUME IInv, NEW r, SetDoesNothing(r) PROVE IInv'
<1>1. Due(r) /\ SetGone(r) /\ UNCHANGED <<resource, switch, touched, tool>>
  BY DEF SetDoesNothing
<1>2. switch' \in Switches /\ switch'.engine = switch.engine
  BY <1>1 DEF IInv, Types
<1>3. Wrote(resource, switch, switch', r, HeldOf(resource, switch)[r])
  BY <1>1 DEF Wrote
<1> QED
  BY <1>1, <1>2, <1>3, SetGoneKeeps

LEMMA SetRefusedKeeps == ASSUME IInv, NEW r, SetRefused(r) PROVE IInv'
<1>1. /\ Due(r) /\ (Fail("malformed") \/ Fail("auth"))
      /\ UNCHANGED <<resource, switch, touched, tool>>
  BY DEF SetRefused
<1>2. phase # "idle"
  BY <1>1 DEF Due
<1>3. CASE Fail("malformed")
  BY <1>1, <1>2, <1>3, FailKeeps
<1>4. CASE Fail("auth")
  BY <1>1, <1>2, <1>4, FailKeeps
<1> QED
  BY <1>1, <1>3, <1>4

LEMMA GetFailsKeeps == ASSUME IInv, GetFails PROVE IInv'
<1>1. Fail("noreply") /\ UNCHANGED <<resource, switch, touched, tool>>
  BY DEF GetFails
<1>2. End("noreply")
  BY <1>1 DEF Fail
<1> QED
  BY <1>1, <1>2, EndKeeps

-----------------------------------------------------------------------------
(* Other managers *)

LEMMA ManagesDoes ==
    ASSUME IInv, NEW rx \in Managed(resource), Manages(rx[1], rx[2])
    PROVE  /\ switch' \in Switches /\ Foreign /\ UNCHANGED tool
           /\ Wrote(resource, switch, switch', rx[1], Meant(rx[1], rx[2]))
<1>1. resource \in DOMAIN Kinds /\ switch \in Switches /\ resource \in Resources
  BY SettingsAssumption DEF IInv, Types
<1>2. IsSet(resource, rx[1], rx[2])
  BY <1>1, SettingsAssumption DEF IsSet
<1>3. switch' = applyTLV(switch, rx[1][1], Payload(rx[1], rx[2])) /\ Foreign /\ UNCHANGED tool
  BY DEF Manages, Written
<1> QED
  BY <1>1, <1>2, <1>3, WriteDoes

LEMMA ToolWritesDoes ==
    ASSUME IInv, ToolWrites
    PROVE  /\ switch' \in Switches /\ Foreign /\ tool' = NoTool /\ tool # NoTool
           /\ Wrote(resource, switch, switch', <<"config", tool.port>>, ToolValue)
<1>1. /\ tool # NoTool /\ tool' = NoTool /\ Foreign
      /\ switch' = applyTLV(switch, "config", Payload(<<"config", tool.port>>, ToolValue))
  BY DEF ToolWrites, Written
<1>2. /\ resource = "ports" /\ switch \in Switches
      /\ tool \in [port : Ports, flag : 1 .. 2, value : BOOLEAN, entry : BOOLEAN \X BOOLEAN]
  BY <1>1 DEF IInv, Types
<1>3. tool.port \in Nat
  <2>1. tool.port \in Ports
    BY <1>2
  <2>2. \A p \in Ports : p \in Nat
    OBVIOUS
  <2> QED
    BY <2>1, <2>2
<1>4. ToolValue \in BOOLEAN \X BOOLEAN
  <2>1. tool.entry \in BOOLEAN \X BOOLEAN /\ tool.flag \in 1 .. 2 /\ tool.value \in BOOLEAN
    BY <1>2
  <2>2. CASE tool.flag = 1
    BY <2>1, <2>2 DEF ToolValue
  <2>3. CASE tool.flag = 2
    BY <2>1, <2>3 DEF ToolValue
  <2> QED
    BY <2>1, <2>2, <2>3
<1> QED
  BY <1>1, <1>2, <1>3, <1>4, WriteConfig

LEMMA ToolReadsKeeps ==
    ASSUME IInv, NEW p \in Ports, NEW flag \in 1 .. 2, NEW value \in BOOLEAN, ToolReads(p, flag, value)
    PROVE  IInv'
<1>1. /\ resource = "ports"
      /\ tool' = [port |-> p, flag |-> flag, value |-> value,
                  entry |-> GetBlock(switch, "config")[<<"config", p>>]]
      /\ UNCHANGED <<resource, switch, opVars, touched>>
  BY DEF ToolReads
<1>2. GetBlock(switch, "config")[<<"config", p>>] \in BOOLEAN \X BOOLEAN
  <2>1. GetBlock(switch, "config") = Part("ports", switch, {"config"})
    BY ReadConfig DEF IInv, Types
  <2>2. <<"config", p>> \in DOMAIN HeldOf("ports", switch)
    BY HeldPorts
  <2>3. Part("ports", switch, {"config"})[<<"config", p>>] = At("ports", switch, "config", p)
    BY <2>2 DEF Part, At
  <2>4. At("ports", switch, "config", p) = AdminOf(switch.portAdmin[p])
    BY HeldPorts
  <2>5. AdminOf(switch.portAdmin[p]) \in BOOLEAN \X BOOLEAN
    BY DEF AdminOf
  <2> QED
    BY <2>1, <2>3, <2>4, <2>5
<1>3. tool' \in [port : Ports, flag : 1 .. 2, value : BOOLEAN, entry : BOOLEAN \X BOOLEAN]
  BY <1>1, <1>2
<1>4. Types'
  BY <1>1, <1>3 DEF IInv, Types, opVars
<1>5. Held' = Held /\ Live' = Live
  BY <1>1 DEF Held, Live
<1>6. Phases' /\ Seen'
  BY <1>1 DEF IInv, Phases, Seen, Reading, Unread, opVars
<1>7. GuardHolds' /\ Verified' /\ OnlyDrift'
  BY <1>1, <1>5 DEF IInv, GuardHolds, Guarded, Verified, OnlyDrift, opVars
<1> QED
  BY <1>4, <1>6, <1>7 DEF IInv

LEMMA OthersKeep == ASSUME IInv, Others PROVE IInv'
<1>1. CASE \E rx \in Managed(resource) : Manages(rx[1], rx[2])
  <2>1. PICK rx \in Managed(resource) : Manages(rx[1], rx[2])
    BY <1>1
  <2>2. switch' \in Switches /\ Foreign /\ UNCHANGED tool
    BY <2>1, ManagesDoes
  <2> QED
    BY <2>2, ForeignKeeps
<1>2. CASE \E id \in DOMAIN switch.vlan8021Q : DeletesEntry(id)
  <2>1. PICK id \in DOMAIN switch.vlan8021Q : DeletesEntry(id)
    BY <1>2
  <2>2. switch' = DeletesVLAN(switch, id) /\ Foreign /\ UNCHANGED tool /\ switch \in Switches
    BY <2>1 DEF DeletesEntry, IInv, Types
  <2>3. switch' \in Switches
    BY <2>2, DeleteDoes
  <2> QED
    BY <2>2, <2>3, ForeignKeeps
<1>3. CASE \E p \in Ports, flag \in 1 .. 2, value \in BOOLEAN : ToolReads(p, flag, value)
  BY <1>3, ToolReadsKeeps
<1>4. CASE ToolWrites
  <2>1. switch' \in Switches /\ Foreign /\ tool' = NoTool
    BY <1>4, ToolWritesDoes
  <2> QED
    BY <2>1, ForeignKeeps
<1> QED
  BY <1>1, <1>2, <1>3, <1>4 DEF Others

LEMMA StutterKeeps == ASSUME IInv, UNCHANGED vars PROVE IInv'
<1> USE DEF vars, opVars
<1>1. Held' = Held /\ Live' = Live
  BY DEF Held, Live
<1>2. Types' /\ Phases'
  BY DEF IInv, Types, Phases, Reading
<1>3. Seen'
  BY DEF IInv, Seen, Reading, Unread
<1>4. GuardHolds' /\ Verified' /\ OnlyDrift'
  BY <1>1 DEF IInv, GuardHolds, Guarded, Verified, OnlyDrift
<1> QED
  BY <1>2, <1>3, <1>4 DEF IInv

-----------------------------------------------------------------------------
(* Theorems *)

\* What is read, and what is left to SET, stay as they are described, through
\* both codecs, every GET, SET, fault and write of another manager.
THEOREM Invariant == Spec => []IInv
<1>1. Init => IInv
  BY InitHolds
<1>2. IInv /\ [Next]_vars => IInv'
  <2> SUFFICES ASSUME IInv, [Next]_vars PROVE IInv'
    OBVIOUS
  <2>1. CASE BeginRead
    BY <2>1, BeginReadKeeps
  <2>2. CASE BeginApply
    BY <2>2, BeginApplyKeeps
  <2>3. CASE CheckEngine
    BY <2>3, CheckEngineKeeps
  <2>4. CASE ReadBlock
    BY <2>4, ReadBlockKeeps
  <2>5. CASE ReadDone
    BY <2>5, ReadDoneKeeps
  <2>6. ASSUME NEW r \in DOMAIN desired, SetApplied(r) PROVE IInv'
    BY <2>6, SetAppliedKeeps
  <2>7. ASSUME NEW r \in DOMAIN desired, SetRefused(r) PROVE IInv'
    BY <2>7, SetRefusedKeeps
  <2>8. ASSUME NEW r \in DOMAIN desired, SetDoesNothing(r) PROVE IInv'
    BY <2>8, SetDoesNothingKeeps
  <2>9. CASE GetFails
    BY <2>9, GetFailsKeeps
  <2>10. CASE Others
    BY <2>10, OthersKeep
  <2>11. CASE UNCHANGED vars
    BY <2>11, StutterKeeps
  <2> QED
    BY <2>1, <2>2, <2>3, <2>4, <2>5, <2>6, <2>7, <2>8, <2>9, <2>10, <2>11 DEF Next, Operation
<1> QED
  BY <1>1, <1>2, PTL DEF Spec

\* An operation of any of the resources that ends well tells Terraform what
\* the switch does unless another manager wrote meanwhile, and an apply tells
\* it the configuration: what was not taken is read back, SET once more and
\* read again (apply and verify of resource_port_config.go and the others).
THEOREM ToldIsLive == Spec => []Verified
<1>1. IInv => Verified
  BY DEF IInv
<1> QED
  BY <1>1, Invariant, PTL

\* Of what is still to be SET, nothing is as the configuration wants it, in
\* the first pass and in the corrective one.
THEOREM SetsOnlyDrift == Spec => []OnlyDrift
<1>1. IInv => OnlyDrift
  BY DEF IInv
<1> QED
  BY <1>1, Invariant, PTL

\* No VLAN table is written or told outside the engine mode it is live in,
\* and an apply names every VLAN of the table it writes, as long as nobody
\* else writes.
THEOREM TableIsGuarded == Spec => []TableGuarded
<1>1. IInv => TableGuarded
  <2> SUFFICES ASSUME IInv, Guarded, ~touched, todo # {} \/ outcome = "ok"
               PROVE  /\ switch.engine \in IF resource = "table" THEN {1} ELSE {3, 4}
                      /\ kind = "apply" => {"vlan"} \X DOMAIN switch.portVLANs \subseteq DOMAIN desired
    BY DEF TableGuarded
  <2>1. phase \in {"apply", "correct"} \/ outcome = "ok"
    BY DEF IInv, Phases
  <2>2. switch.engine \in IF resource = "table" THEN {1} ELSE {3, 4}
    BY <2>1 DEF IInv, GuardHolds
  <2>3. ASSUME kind = "apply" PROVE {"vlan"} \X DOMAIN switch.portVLANs \subseteq DOMAIN desired
    <3>1. resource = "table"
      BY <2>3 DEF IInv, Phases, Guarded
    <3>2. DOMAIN Held \subseteq DOMAIN desired
      BY <2>1, <2>3 DEF IInv, GuardHolds
    <3>3. DOMAIN Held = {"vlan"} \X DOMAIN switch.portVLANs
      BY <3>1, HeldTable DEF Held
    <3> QED
      BY <3>2, <3>3
  <2> QED
    BY <2>2, <2>3
<1> QED
  BY <1>1, Invariant, PTL

LEMMA WroteMeans ==
    ASSUME NEW res, NEW s, NEW t, NEW r, NEW y, Wrote(res, s, t, r, y)
    PROVE  \/ HeldOf(res, t) = HeldOf(res, s)
           \/ HeldOf(res, t) = Merge(HeldOf(res, s), Single(r, y))
<1> DEFINE f == HeldOf(res, s)
           g == HeldOf(res, t)
<1>1. f = [q \in DOMAIN f |-> f[q]] /\ g = [q \in DOMAIN g |-> g[q]]
  BY HeldIsTable
<1>2. /\ DOMAIN f \subseteq DOMAIN g /\ DOMAIN g \subseteq DOMAIN f \cup {r}
      /\ r \in DOMAIN g => g[r] = y
      /\ \A q \in DOMAIN f : q # r => g[q] = f[q]
  BY DEF Wrote
<1>3. Merge(f, Single(r, y)) = [q \in DOMAIN f \cup {r} |-> IF q \in {r} THEN y ELSE f[q]]
  BY DEF Merge, Single
<1> HIDE DEF f, g
<1>4. CASE r \in DOMAIN g
  <2>1. DOMAIN g = DOMAIN f \cup {r}
    BY <1>2, <1>4
  <2>2. \A q \in DOMAIN g : g[q] = IF q \in {r} THEN y ELSE f[q]
    BY <1>2, <1>4, <2>1
  <2>3. g = Merge(f, Single(r, y))
    BY <1>1, <1>3, <2>1, <2>2
  <2> QED
    BY <2>3 DEF f, g
<1>5. CASE r \notin DOMAIN g
  <2>1. DOMAIN g = DOMAIN f /\ \A q \in DOMAIN g : g[q] = f[q]
    BY <1>2, <1>5
  <2>2. g = f
    BY <1>1, <2>1
  <2> QED
    BY <2>2 DEF f, g
<1> QED
  BY <1>4, <1>5

\* One step of SaysWhatItMeans.
OneMeaning ==
    \/ Held' = Held
    \/ \E rx \in Asked : Held' = Merge(Held, Single(rx[1], Meant(rx[1], rx[2])))
    \/ \E r \in DOMAIN Held : Held' = [q \in DOMAIN Held \ {r} |-> Held[q]]

LEMMA AskedFor ==
    ASSUME NEW r, NEW x, <<r, x>> \in Asked, resource' = resource,
           Wrote(resource, switch, switch', r, Meant(r, x))
    PROVE  OneMeaning
<1>1. \/ HeldOf(resource, switch') = HeldOf(resource, switch)
      \/ HeldOf(resource, switch') = Merge(HeldOf(resource, switch), Single(r, Meant(r, x)))
  BY WroteMeans
<1>2. Held' = HeldOf(resource, switch') /\ Held = HeldOf(resource, switch)
  BY DEF Held
<1>3. Held' = Held \/ Held' = Merge(Held, Single(<<r, x>>[1], Meant(<<r, x>>[1], <<r, x>>[2])))
  BY <1>1, <1>2
<1> QED
  BY <1>3 DEF OneMeaning

LEMMA OthersMean == ASSUME IInv, Others PROVE OneMeaning
<1>1. CASE \E rx \in Managed(resource) : Manages(rx[1], rx[2])
  <2>1. PICK rx \in Managed(resource) : Manages(rx[1], rx[2])
    BY <1>1
  <2>2. Foreign /\ Wrote(resource, switch, switch', rx[1], Meant(rx[1], rx[2]))
    BY <2>1, ManagesDoes
  <2>3. \/ HeldOf(resource, switch') = HeldOf(resource, switch)
        \/ HeldOf(resource, switch')
              = Merge(HeldOf(resource, switch), Single(rx[1], Meant(rx[1], rx[2])))
    BY <2>2, WroteMeans
  <2>4. rx \in Asked /\ resource' = resource
    BY <2>2 DEF Asked, Foreign
  <2>5. Held' = Held \/ Held' = Merge(Held, Single(rx[1], Meant(rx[1], rx[2])))
    BY <2>3, <2>4 DEF Held
  <2> QED
    BY <2>4, <2>5 DEF OneMeaning
<1>2. CASE \E id \in DOMAIN switch.vlan8021Q : DeletesEntry(id)
  <2>1. PICK id \in DOMAIN switch.vlan8021Q : DeletesEntry(id)
    BY <1>2
  <2>2. /\ resource = "vlans" /\ resource' = resource /\ switch \in Switches
        /\ switch' = DeletesVLAN(switch, id)
    BY <2>1 DEF DeletesEntry, Foreign, IInv, Types
  <2>3. HeldOf("vlans", switch')
          = [q \in DOMAIN HeldOf("vlans", switch) \ {<<"8021q", id>>} |-> HeldOf("vlans", switch)[q]]
    BY <2>2, DeleteDoes
  <2>4. Held' = [q \in DOMAIN Held \ {<<"8021q", id>>} |-> Held[q]]
    BY <2>2, <2>3 DEF Held
  <2>5. <<"8021q", id>> \in DOMAIN Held
    BY <2>1, <2>2, HeldVLANs DEF Held
  <2> QED
    BY <2>4, <2>5 DEF OneMeaning
<1>3. CASE \E p \in Ports, flag \in 1 .. 2, value \in BOOLEAN : ToolReads(p, flag, value)
  BY <1>3 DEF ToolReads, OneMeaning, Held
<1>4. CASE ToolWrites
  <2> DEFINE r == <<"config", tool.port>>
  <2>1. /\ tool # NoTool /\ Foreign
        /\ Wrote(resource, switch, switch', r, ToolValue)
    BY <1>4, ToolWritesDoes
  <2>2. Meant(r, ToolValue) = ToolValue
    BY DEF Meant
  <2>3. <<r, ToolValue>> \in Asked
    BY <2>1 DEF Asked
  <2> QED
    BY <2>1, <2>2, <2>3, AskedFor DEF Foreign
<1> QED
  BY <1>1, <1>2, <1>3, <1>4 DEF Others

\* Every write changes the one register it names, to what its author meant by
\* the value, whatever the two codecs do to it on the way, and leaves every
\* other setting the resource manages as it was.
THEOREM WritesMean == Spec => SaysWhatItMeans
<1>1. IInv /\ [Next]_vars => [OneMeaning]_vars
  <2> SUFFICES ASSUME IInv, Next PROVE OneMeaning
    OBVIOUS
  <2>1. ASSUME UNCHANGED <<resource, switch>> PROVE OneMeaning
    BY <2>1 DEF Held, OneMeaning
  <2>2. CASE BeginRead \/ BeginApply \/ CheckEngine \/ ReadBlock \/ ReadDone \/ GetFails
    BY <2>1, <2>2 DEF BeginRead, BeginApply, CheckEngine, ReadBlock, ReadDone, GetFails
  <2>3. ASSUME NEW r \in DOMAIN desired, SetRefused(r) \/ SetDoesNothing(r) PROVE OneMeaning
    BY <2>1, <2>3 DEF SetRefused, SetDoesNothing
  <2>4. ASSUME NEW r \in DOMAIN desired, SetApplied(r) PROVE OneMeaning
    <3>1. /\ Due(r) /\ switch' = applyTLV(switch, r[1], Payload(r, desired[r]))
          /\ resource' = resource /\ switch \in Switches
      BY <2>4 DEF SetApplied, Written, IInv, Types
    <3>2. resource \in DOMAIN Kinds /\ IsSet(resource, r, desired[r])
      BY <3>1, DueIsSet
    <3>3. Wrote(resource, switch, switch', r, Meant(r, desired[r]))
      BY <3>1, <3>2, WriteDoes
    <3>4. <<r, desired[r]>> \in Asked
      BY DEF Asked
    <3> QED
      BY <3>1, <3>3, <3>4, AskedFor
  <2>5. CASE Others
    BY <2>5, OthersMean
  <2> QED
    BY <2>2, <2>3, <2>4, <2>5 DEF Next, Operation
<1>2. Spec => [][OneMeaning]_vars
  BY <1>1, Invariant, PTL DEF Spec
<1> QED
  BY <1>2 DEF SaysWhatItMeans, OneMeaning

-----------------------------------------------------------------------------
(* One loss is mended *)

\* The registers that are not as the configuration wants them.
Missing == {r \in DOMAIN desired : ~(r \in DOMAIN Held /\ Held[r] = desired[r])}

\* Every register of the configuration is one that a SET brings to what the
\* configuration says, and outside the VLAN table one that the switch always has.
AsMeant(res, d) ==
    /\ \A r \in DOMAIN d : Meant(r, d[r]) = d[r]
    /\ res # "table" => \A s : DOMAIN d \subseteq DOMAIN HeldOf(res, s)

\* The first pass leaves something behind only by a fault, the corrective pass
\* only by a second one.
OneBehind ==
    ~touched =>
        /\ phase \in {"apply", "verify"} => Missing \subseteq todo \/ faults > 0
        /\ phase = "correct" => faults > 0 /\ (Missing \subseteq todo \/ faults > 1)
        /\ phase = "recheck" => Missing = {} \/ faults > 1
        /\ outcome = "drift" => faults > 1

\* A second run has had its refusal, and what ends it is another.
OneRefused ==
    /\ faults \in Nat
    /\ again => faults > 0
    /\ outcome = "auth" => faults > 1

Mended == AsMeant(resource, desired) /\ OneRefused /\ OneBehind

LEMMA NothingMeant == ASSUME NEW res PROVE AsMeant(res, Nothing)
  BY DEF AsMeant, Nothing

\* A configuration without a mirror destination has no mirror sources either,
\* so that what is SET is what is held afterwards (expandSwitchSettings).
LEMMA ExpandedMeant ==
    ASSUME resource \in Resources, resource # "vlans", NEW c \in Configs(resource), Expands(c)
    PROVE  AsMeant(resource, Expanded(c))
<1>1. resource \in DOMAIN Kinds
  BY SettingsAssumption
<1>2. CASE resource = "ports"
  <2> DEFINE S == {"config", "qos", "ingress", "egress"} \X Ports
  <2>1. DOMAIN Expanded(c) = S
    BY <1>2 DEF Expanded
  <2>2. ASSUME NEW r \in S PROVE Meant(r, Expanded(c)[r]) = Expanded(c)[r]
    <3>1. r[1] \notin {"mirror", "8021q"}
      OBVIOUS
    <3> QED
      BY <3>1 DEF Meant
  <2>3. \A s : S \subseteq DOMAIN HeldOf("ports", s)
    <3> TAKE s
    <3>1. DOMAIN HeldOf("ports", s) = {"config", "qos", "ingress", "egress", "storm"} \X Ports
      BY HeldPorts
    <3> QED
      BY <3>1
  <2> HIDE DEF S
  <2> QED
    BY <1>2, <2>1, <2>2, <2>3 DEF AsMeant
<1>3. CASE resource = "settings"
  <2> DEFINE S == {"qosMode", "mcast", "mirror"} \X {0}
  <2>1. Expanded(c) = [q \in S |-> c[q[1]]]
    BY <1>3 DEF Expanded
  <2>2. c.mirror = <<c.mirror[1], c.mirror[2]>> /\ (c.mirror[1] = 0 => c.mirror[2] = {})
    <3>1. c \in [qosMode : Values("qosMode"), mcast : Values("mcast"), mirror : Values("mirror")]
      BY <1>3, SettingsAssumption
    <3>2. c.mirror \in Values("mirror")
      BY <3>1
    <3>3. Values("mirror") = Nat \X (SUBSET (1 .. 8))
      BY DEF Values, Rates
    <3>4. c.mirror = <<c.mirror[1], c.mirror[2]>>
      BY <3>2, <3>3
    <3> QED
      BY <1>3, <3>4 DEF Expands, ExpandsSettings
  <2>3. ASSUME NEW r \in S PROVE Meant(r, Expanded(c)[r]) = Expanded(c)[r]
    <3>1. CASE r[1] = "mirror"
      <4>1. Expanded(c)[r] = c.mirror
        BY <2>1, <3>1
      <4>2. Meant(r, c.mirror) = IF c.mirror[1] = 0 THEN <<0, {}>> ELSE c.mirror
        BY <3>1 DEF Meant
      <4> QED
        BY <2>2, <4>1, <4>2
    <3>2. CASE r[1] # "mirror"
      <4>1. r[1] \notin {"mirror", "8021q"}
        BY <3>2
      <4> QED
        BY <4>1 DEF Meant
    <3> QED
      BY <3>1, <3>2
  <2>4. \A s : DOMAIN HeldOf("settings", s) = S
    BY HeldSettings
  <2>5. DOMAIN Expanded(c) = S
    BY <2>1
  <2> HIDE DEF S
  <2> QED
    BY <1>3, <2>3, <2>4, <2>5 DEF AsMeant
<1>4. CASE resource = "table"
  <2>1. DOMAIN Expanded(c) = {"vlan"} \X Numbers(c)
    BY <1>4 DEF Expanded
  <2>2. ASSUME NEW r \in {"vlan"} \X Numbers(c) PROVE Meant(r, Expanded(c)[r]) = Expanded(c)[r]
    <3>1. r[1] \notin {"mirror", "8021q"}
      OBVIOUS
    <3> QED
      BY <3>1 DEF Meant
  <2> QED
    BY <1>4, <2>1, <2>2 DEF AsMeant
<1> QED
  BY <1>1, <1>2, <1>3, <1>4 DEF Kinds

LEMMA InitMended == Init => Mended
  BY NothingMeant DEF Init, Mended, OneRefused, OneBehind

\* The operation begins, or begins again.
LEMMA StartMended ==
    ASSUME Start, AsMeant(resource', desired'), faults' \in Nat, again' => faults' > 0,
           outcome' = "auth" => faults' > 1, ~touched' /\ outcome' = "drift" => faults' > 1
    PROVE  Mended'
<1>1. phase' \in {"guard", "read"}
  BY DEF Start, FirstPhase
<1> QED
  BY <1>1 DEF Mended, OneRefused, OneBehind

\* The operation ends.
LEMMA IdleMended ==
    ASSUME Mended, phase' = "idle", UNCHANGED <<resource, desired, again>>,
           faults' \in Nat, faults' >= faults,
           outcome' = "auth" => faults' > 1, ~touched' /\ outcome' = "drift" => faults' > 1
    PROVE  Mended'
<1>1. again' => faults' > 0
  BY DEF Mended, OneRefused
<1> QED
  BY <1>1 DEF Mended, OneRefused, OneBehind

LEMMA BeginReadMends == ASSUME Mended, BeginRead PROVE Mended'
<1>1. /\ Start /\ desired' = Nothing /\ again' = FALSE /\ outcome' = "running"
      /\ faults' = faults
  BY DEF BeginRead
<1>2. AsMeant(resource', desired') /\ faults' \in Nat
  BY <1>1, NothingMeant DEF Mended, OneRefused
<1> QED
  BY <1>1, <1>2, StartMended

LEMMA BeginApplyMends == ASSUME IInv, Mended, BeginApply PROVE Mended'
<1>1. PICK c \in Configs(resource) :
         IF Expands(c)
           THEN kind' = "apply" /\ desired' = Expanded(c) /\ Start /\ outcome' = "running"
           ELSE /\ kind' = "apply" /\ desired' = Nothing /\ outcome' = "invalid"
                /\ UNCHANGED <<phase, blocks, actual, todo>>
  BY DEF BeginApply
<1>2. /\ phase = "idle" /\ resource # "vlans" /\ again' = FALSE
      /\ resource' = resource /\ faults' = faults /\ faults \in Nat /\ resource \in Resources
  BY DEF BeginApply, Mended, OneRefused, IInv, Types
<1>3. CASE Expands(c)
  <2>1. desired' = Expanded(c) /\ Start /\ outcome' = "running"
    BY <1>1, <1>3
  <2>2. AsMeant(resource', desired')
    BY <1>2, <1>3, <2>1, ExpandedMeant
  <2> QED
    BY <1>2, <2>1, <2>2, StartMended
<1>4. CASE ~Expands(c)
  <2>1. desired' = Nothing /\ outcome' = "invalid" /\ phase' = phase
    BY <1>1, <1>4
  <2> QED
    BY <1>2, <2>1, NothingMeant DEF Mended, OneRefused, OneBehind
<1> QED
  BY <1>3, <1>4

LEMMA EndMends ==
    ASSUME Mended, NEW result, End(result), result \notin {"auth", "drift"},
           UNCHANGED resource, faults' \in Nat, faults' >= faults
    PROVE  Mended'
<1>1. phase' = "idle" /\ outcome' = result /\ UNCHANGED <<desired, again>>
  BY DEF End
<1> QED
  BY <1>1, IdleMended

LEMMA CheckEngineMends == ASSUME Mended, CheckEngine PROVE Mended'
<1>1. UNCHANGED <<resource, switch, touched, tool, writes, faults>> /\ faults \in Nat
  BY DEF CheckEngine, Mended, OneRefused
<1>2. CASE EngineFits
  BY <1>2 DEF CheckEngine, Mended, OneRefused, OneBehind
<1>3. CASE ~EngineFits
  <2>1. End("engine") /\ faults' \in Nat /\ faults' >= faults
    BY <1>1, <1>3 DEF CheckEngine
  <2> QED
    BY <1>1, <2>1, EndMends
<1> QED
  BY <1>2, <1>3

LEMMA ReadBlockMends == ASSUME Mended, ReadBlock PROVE Mended'
<1>1. UNCHANGED <<resource, switch, desired, phase, todo, again, outcome, touched, faults>>
  BY DEF ReadBlock
<1>2. Missing' = Missing
  BY <1>1 DEF Missing, Held
<1> QED
  BY <1>1, <1>2 DEF Mended, OneRefused, OneBehind

LEMMA GetFailsMends == ASSUME Mended, GetFails PROVE Mended'
<1>1. Fail("noreply") /\ faults' = faults + 1 /\ UNCHANGED resource
  BY DEF GetFails
<1>2. End("noreply")
  BY <1>1 DEF Fail
<1>3. faults' \in Nat /\ faults' >= faults
  BY <1>1 DEF Mended, OneRefused
<1> QED
  BY <1>1, <1>2, <1>3, EndMends

\* What a complete read finds to be out of step is all that is.
LEMMA AllMissing ==
    ASSUME IInv, Reading, blocks = <<>>, ~touched
    PROVE  Changes = Missing
<1>1. resource \in DOMAIN Kinds
  BY SettingsAssumption DEF IInv, Types
<1>2. actual = Live
  BY AllSeen
<1>3. ASSUME NEW r \in DOMAIN desired
      PROVE  (r \notin DOMAIN Live \/ Live[r] # desired[r])
               <=> ~(r \in DOMAIN Held /\ Held[r] = desired[r])
  <2>1. r[1] \in Read(resource)
    BY DEF IInv, Types
  <2>2. r \in DOMAIN Held <=> r \in DOMAIN Live
    BY <1>1, <2>1, LiveRead
  <2>3. r \in DOMAIN Live => Live[r] = Held[r]
    BY <1>1, LiveRead
  <2> QED
    BY <2>2, <2>3
<1> QED
  BY <1>2, <1>3 DEF Changes, Missing

LEMMA TellMends ==
    ASSUME Mended, Tell, UNCHANGED <<resource, faults>>
    PROVE  Mended'
<1>1. faults' \in Nat /\ faults' >= faults
  BY DEF Mended, OneRefused
<1>2. CASE Flattens(actual)
  <2>1. phase' = "idle" /\ outcome' = "ok" /\ UNCHANGED <<desired, again>>
    BY <1>2 DEF Tell
  <2> QED
    BY <1>1, <2>1, IdleMended
<1>3. CASE ~Flattens(actual)
  BY <1>1, <1>3, EndMends DEF Tell
<1> QED
  BY <1>2, <1>3

\* The next pass of an apply.
LEMMA EnterMends ==
    ASSUME Mended, NEW next, NEW registers, NEW gets, Enter(next, registers, gets),
           UNCHANGED <<resource, touched>>, faults' \in Nat, faults' >= faults,
           next \in {"apply", "correct", "verify", "recheck"},
           ~touched /\ next \in {"apply", "verify"} => Missing' \subseteq registers \/ faults' > 0,
           ~touched /\ next = "correct" =>
               faults' > 0 /\ (Missing' \subseteq registers \/ faults' > 1),
           ~touched /\ next = "recheck" => Missing' = {} \/ faults' > 1
    PROVE  Mended'
<1>1. phase' = next /\ todo' = registers /\ UNCHANGED <<desired, again, outcome>>
  BY DEF Enter
<1>2. AsMeant(resource', desired')
  BY <1>1 DEF Mended
<1>3. OneRefused'
  BY <1>1 DEF Mended, OneRefused
<1>4. ~touched' /\ outcome' = "drift" => faults' > 1
  BY <1>1 DEF Mended, OneRefused, OneBehind
<1>5. OneBehind'
  BY <1>1, <1>4 DEF OneBehind
<1> QED
  BY <1>2, <1>3, <1>5 DEF Mended

LEMMA ReadDoneMends == ASSUME IInv, Mended, ReadDone PROVE Mended'
<1>1. /\ phase \in {"read", "verify", "recheck"} /\ blocks = <<>> /\ AfterRead
      /\ UNCHANGED <<resource, switch, touched, faults>>
  BY DEF ReadDone
<1>2. faults' \in Nat /\ faults' >= faults
  BY <1>1 DEF Mended, OneRefused
<1>3. ~touched => Changes = Missing
  BY <1>1, AllMissing DEF Reading
<1>4. desired' = desired => Missing' = Missing
  BY <1>1 DEF Missing, Held
<1>5. CASE kind = "read"
  BY <1>1, <1>5, TellMends DEF AfterRead, IInv, Phases
<1>6. CASE kind = "apply" /\ phase = "read" /\ Unmanaged
  <2>1. End("unmanaged")
    BY <1>1, <1>6 DEF AfterRead
  <2> QED
    BY <1>1, <1>2, <2>1, EndMends
<1>7. CASE kind = "apply" /\ phase = "read" /\ ~Unmanaged
  <2>1. IF Changes = {} THEN Enter("verify", {}, Blocks) ELSE Enter("apply", Changes, <<>>)
    BY <1>1, <1>7 DEF AfterRead
  <2>2. Missing' = Missing
    BY <1>4, <2>1 DEF Enter
  <2>3. CASE Changes = {}
    <3>1. Enter("verify", {}, Blocks)
      BY <2>1, <2>3
    <3> QED
      BY <1>1, <1>2, <1>3, <2>2, <2>3, <3>1, EnterMends
  <2>4. CASE Changes # {}
    <3>1. Enter("apply", Changes, <<>>)
      BY <2>1, <2>4
    <3> QED
      BY <1>1, <1>2, <1>3, <2>2, <3>1, EnterMends
  <2> QED
    BY <2>3, <2>4
<1>8. CASE kind = "apply" /\ phase = "verify"
  <2>1. IF Changes = {} THEN Tell ELSE Enter("correct", Changes, <<>>)
    BY <1>1, <1>8 DEF AfterRead
  <2>2. CASE Changes = {}
    BY <1>1, <2>1, <2>2, TellMends
  <2>3. CASE Changes # {}
    <3>1. Enter("correct", Changes, <<>>)
      BY <2>1, <2>3
    <3>2. Missing' = Missing
      BY <1>4, <3>1 DEF Enter
    <3>3. todo = {}
      BY <1>8 DEF IInv, Phases
    <3>4. ~touched => faults' > 0
      BY <1>1, <1>3, <1>8, <2>3, <3>3 DEF Mended, OneBehind
    <3> QED
      BY <1>1, <1>2, <1>3, <3>1, <3>2, <3>4, EnterMends
  <2> QED
    BY <2>2, <2>3
<1>9. CASE kind = "apply" /\ phase = "recheck"
  <2>1. IF Changes = {} THEN Tell ELSE End("drift")
    BY <1>1, <1>9 DEF AfterRead
  <2>2. CASE Changes = {}
    BY <1>1, <2>1, <2>2, TellMends
  <2>3. CASE Changes # {}
    <3>1. phase' = "idle" /\ outcome' = "drift" /\ UNCHANGED <<desired, again>>
      BY <2>1, <2>3 DEF End
    <3>2. ~touched => faults' > 1
      BY <1>1, <1>3, <1>9, <2>3 DEF Mended, OneBehind
    <3> QED
      BY <1>1, <1>2, <3>1, <3>2, IdleMended
  <2> QED
    BY <2>2, <2>3
<1>10. kind \in {"read", "apply"}
  BY DEF IInv, Phases
<1> QED
  BY <1>1, <1>5, <1>6, <1>7, <1>8, <1>9, <1>10

\* A SET is done with: what it named is as wanted, or a fault has happened.
LEMMA SetGoneMends ==
    ASSUME IInv, Mended, NEW r, Due(r), SetGone(r), UNCHANGED <<resource, touched>>,
           faults' \in Nat, faults' >= faults,
           Missing' \subseteq Missing \ {r} \/ faults' > faults
    PROVE  Mended'
<1>1. phase \in {"apply", "correct"} /\ r \in todo
  BY DEF Due
<1>2. phase = "correct" /\ ~touched => faults > 0
  BY DEF Mended, OneBehind
<1>3. faults \in Nat
  BY DEF Mended, OneRefused
<1>4. CASE todo = {r}
  <2> DEFINE next == IF phase = "apply" THEN "verify" ELSE "recheck"
  <2>1. Enter(next, {}, Blocks)
    BY <1>4 DEF SetGone
  <2>2. ASSUME ~touched, phase = "apply" PROVE Missing' \subseteq {} \/ faults' > 0
    BY <1>3, <1>4, <2>2 DEF Mended, OneBehind
  <2>3. ASSUME ~touched, phase = "correct" PROVE Missing' = {} \/ faults' > 1
    BY <1>2, <1>3, <1>4, <2>3 DEF Mended, OneBehind
  <2>4. /\ next = "verify" => phase = "apply"
        /\ next = "recheck" => phase = "correct"
        /\ next \in {"verify", "recheck"}
    BY <1>1
  <2> HIDE DEF next
  <2> QED
    BY <2>1, <2>2, <2>3, <2>4, EnterMends
<1>5. CASE todo # {r}
  <2>1. /\ todo' = todo \ {r}
        /\ UNCHANGED <<kind, desired, phase, blocks, actual, again, outcome, told>>
    BY <1>5 DEF SetGone
  <2>2. AsMeant(resource', desired')
    BY <2>1 DEF Mended
  <2>3. OneRefused'
    BY <2>1 DEF Mended, OneRefused
  <2>4. ASSUME ~touched, phase = "apply" PROVE Missing' \subseteq todo' \/ faults' > 0
    BY <1>3, <2>1, <2>4 DEF Mended, OneBehind
  <2>5. ASSUME ~touched, phase = "correct"
        PROVE  faults' > 0 /\ (Missing' \subseteq todo' \/ faults' > 1)
    BY <1>2, <1>3, <2>1, <2>5 DEF Mended, OneBehind
  <2>6. ASSUME ~touched, outcome = "drift" PROVE faults' > 1
    BY <1>3, <2>6 DEF Mended, OneBehind
  <2>7. OneBehind'
    BY <1>1, <2>1, <2>4, <2>5, <2>6 DEF OneBehind
  <2> QED
    BY <2>2, <2>3, <2>7 DEF Mended
<1> QED
  BY <1>4, <1>5

LEMMA SetAppliedMends == ASSUME IInv, Mended, NEW r, SetApplied(r) PROVE Mended'
<1>1. /\ Due(r) /\ switch' = applyTLV(switch, r[1], Payload(r, desired[r])) /\ SetGone(r)
      /\ UNCHANGED <<resource, touched, faults>>
  BY DEF SetApplied, Written
<1>2. switch \in Switches
  BY DEF IInv, Types
<1>3. /\ resource \in DOMAIN Kinds /\ IsSet(resource, r, desired[r]) /\ r \in DOMAIN desired
      /\ r[1] \in Read(resource)
  BY <1>1, DueIsSet DEF IInv, Types
<1>4. Meant(r, desired[r]) = desired[r]
  BY <1>3 DEF Mended, AsMeant
<1>5. Wrote(resource, switch, switch', r, desired[r])
  BY <1>1, <1>2, <1>3, <1>4, WriteDoes
<1>6. r \in DOMAIN Held'
  <2>1. CASE resource = "table"
    <3>1. r[1] = "vlan"
      BY <1>3, <2>1 DEF Read
    <3>2. /\ r = <<"vlan", r[2]>> /\ r[2] \in Nat /\ desired[r] \in Values("vlan")
      BY <1>3, <3>1 DEF IsSet
    <3>3. desired[r] \in SUBSET (1 .. 8)
      BY <3>2 DEF Values, Rates
    <3>4. switch' = applyTLV(switch, "vlan", Payload(<<"vlan", r[2]>>, desired[r]))
      BY <1>1, <3>1, <3>2
    <3>5. <<"vlan", r[2]>> \in DOMAIN HeldOf("table", switch')
      BY <1>2, <3>2, <3>3, <3>4, WriteVLAN
    <3> QED
      BY <1>1, <2>1, <3>2, <3>5 DEF Held
  <2>2. CASE resource # "table"
    <3>1. DOMAIN desired \subseteq DOMAIN HeldOf(resource, switch')
      BY <2>2 DEF Mended, AsMeant
    <3> QED
      BY <1>1, <1>3, <3>1 DEF Held
  <2> QED
    BY <2>1, <2>2
<1>7. /\ Held'[r] = desired[r] /\ DOMAIN Held \subseteq DOMAIN Held'
      /\ \A q \in DOMAIN Held : q # r => Held'[q] = Held[q]
  BY <1>1, <1>5, <1>6 DEF Wrote, Held
<1>8. desired' = desired
  BY <1>1 DEF SetGone, Enter
<1>9. Missing' \subseteq Missing \ {r}
  BY <1>6, <1>7, <1>8 DEF Missing
<1>10. faults' \in Nat /\ faults' >= faults
  BY <1>1 DEF Mended, OneRefused
<1> QED
  BY <1>1, <1>9, <1>10, SetGoneMends

LEMMA SetDoesNothingMends == ASSUME IInv, Mended, NEW r, SetDoesNothing(r) PROVE Mended'
<1>1. Due(r) /\ SetGone(r) /\ faults' = faults + 1 /\ UNCHANGED <<resource, touched>>
  BY DEF SetDoesNothing
<1>2. faults' \in Nat /\ faults' > faults /\ faults' >= faults
  BY <1>1 DEF Mended, OneRefused
<1> QED
  BY <1>1, <1>2, SetGoneMends

LEMMA SetRefusedMends == ASSUME Mended, NEW r, SetRefused(r) PROVE Mended'
<1>1. faults \in Nat /\ UNCHANGED resource
  BY DEF SetRefused, Mended, OneRefused
<1>2. CASE Fail("malformed") /\ faults' = faults
  <2>1. End("malformed")
    BY <1>2 DEF Fail
  <2>2. faults' \in Nat /\ faults' >= faults
    BY <1>1, <1>2
  <2> QED
    BY <1>1, <2>1, <2>2, EndMends
<1>3. CASE Fail("auth") /\ faults' = faults + 1
  <2>1. faults' \in Nat /\ faults' >= faults /\ faults' > 0
    BY <1>1, <1>3
  <2>2. CASE ~again
    <3>1. Start /\ UNCHANGED <<desired, outcome>>
      BY <1>3, <2>2 DEF Fail
    <3>2. AsMeant(resource', desired')
      BY <1>1, <3>1 DEF Mended
    <3>3. outcome' = "auth" => faults' > 1
      BY <1>1, <1>3, <3>1 DEF Mended, OneRefused
    <3>4. ~touched' /\ outcome' = "drift" => faults' > 1
      <4>1. touched' = touched
        BY DEF SetRefused
      <4>2. ~touched /\ outcome = "drift" => faults > 1
        BY DEF Mended, OneBehind
      <4> QED
        BY <1>1, <1>3, <3>1, <4>1, <4>2
    <3> QED
      BY <2>1, <3>1, <3>2, <3>3, <3>4, StartMended
  <2>3. CASE again
    <3>1. phase' = "idle" /\ outcome' = "auth" /\ UNCHANGED <<desired, again>>
      BY <1>3, <2>3 DEF Fail, End
    <3>2. faults' > 1
      BY <1>1, <1>3, <2>3 DEF Mended, OneRefused
    <3> QED
      BY <1>1, <2>1, <3>1, <3>2, IdleMended
  <2> QED
    BY <2>2, <2>3
<1> QED
  BY <1>2, <1>3 DEF SetRefused

LEMMA OthersMend == ASSUME Mended, Others PROVE Mended'
<1>1. CASE Foreign
  BY <1>1 DEF Foreign, opVars, Mended, OneRefused, OneBehind
<1>2. CASE UNCHANGED <<resource, switch, opVars, touched, faults>>
  <2>1. UNCHANGED Missing
    BY <1>2 DEF Missing, Held, opVars
  <2> QED
    BY <1>2, <2>1 DEF opVars, Mended, OneRefused, OneBehind
<1> QED
  BY <1>1, <1>2 DEF Others, Manages, DeletesEntry, ToolReads, ToolWrites

\* As long as nobody else writes, one SET without effect is mended by the
\* corrective pass and one refused token by the second run of withNSDPClient:
\* drift or an authentication failure takes a second fault, whichever register
\* and whichever pass it hits.
THEOREM OneLossMended == Spec => []OneLossIsMended
<1>1. IInv /\ Mended /\ [Next]_vars => Mended'
  <2> SUFFICES ASSUME IInv, Mended, [Next]_vars PROVE Mended'
    OBVIOUS
  <2>1. CASE BeginRead
    BY <2>1, BeginReadMends
  <2>2. CASE BeginApply
    BY <2>2, BeginApplyMends
  <2>3. CASE CheckEngine
    BY <2>3, CheckEngineMends
  <2>4. CASE ReadBlock
    BY <2>4, ReadBlockMends
  <2>5. CASE ReadDone
    BY <2>5, ReadDoneMends
  <2>6. ASSUME NEW r \in DOMAIN desired, SetApplied(r) PROVE Mended'
    BY <2>6, SetAppliedMends
  <2>7. ASSUME NEW r \in DOMAIN desired, SetRefused(r) PROVE Mended'
    BY <2>7, SetRefusedMends
  <2>8. ASSUME NEW r \in DOMAIN desired, SetDoesNothing(r) PROVE Mended'
    BY <2>8, SetDoesNothingMends
  <2>9. CASE GetFails
    BY <2>9, GetFailsMends
  <2>10. CASE Others
    BY <2>10, OthersMend
  <2>11. CASE UNCHANGED vars
    <3>1. UNCHANGED Missing
      BY <2>11 DEF Missing, Held, vars, opVars
    <3> QED
      BY <2>11, <3>1 DEF vars, opVars, Mended, OneRefused, OneBehind
  <2> QED
    BY <2>1, <2>2, <2>3, <2>4, <2>5, <2>6, <2>7, <2>8, <2>9, <2>10, <2>11 DEF Next, Operation
<1>2. Mended => OneLossIsMended
  BY DEF Mended, OneRefused, OneBehind, OneLossIsMended
<1> QED
  BY <1>1, <1>2, InitMended, Invariant, PTL DEF Spec

-----------------------------------------------------------------------------
(* The writes of nsdpctl *)

\* A write that SettingsAssumption allows another manager of a resource.
Manageable(res, rx) ==
    /\ rx[1][1] \in Kinds[res] /\ rx[2] \in Values(rx[1][1])
    /\ rx[1] = <<rx[1][1], rx[1][2]>> /\ rx[1][2] \in Nat
    /\ rx[1][1] \in Numberless => rx[1][2] = 0

LEMMA Manages1 ==
    ASSUME NEW res, NEW k, NEW n \in Nat, NEW x, k \in Kinds[res], x \in Values(k),
           k \in Numberless => n = 0
    PROVE  Manageable(res, <<<<k, n>>, x>>)
  BY DEF Manageable

\* Whatever a number or a name of a rate is, it becomes a byte.
LEMMA LimitIsByte ==
    ASSUME NEW named \in BOOLEAN, NEW limit, ~named => limit \in Nat
    PROVE  mapBandwidthLimit(named, limit) \in 0 .. 255
<1>1. CASE ~named
  BY <1>1 DEF mapBandwidthLimit
<1>2. CASE named
  <2> DEFINE S == {n \in 1 .. 11 : LimitNames[n] = limit}
             first == CHOOSE n \in 1 .. 11 : LimitNames[n] = limit
  <2>1. DOMAIN LimitNames = 1 .. 11
    BY DEF LimitNames
  <2>2. S # {} => first \in 1 .. 11
    OBVIOUS
  <2>3. mapBandwidthLimit(named, limit) = IF S # {} THEN first ELSE 0
    BY <1>2, <2>1 DEF mapBandwidthLimit
  <2> HIDE DEF S, first
  <2> QED
    BY <2>2, <2>3
<1> QED
  BY <1>1, <1>2

\* Every command line of the tool, known names and any numbers, leads to writes
\* that the other theorems are about: the commands of tools/nsdpctl satisfy
\* what SettingsAssumption asks of another manager.
THEOREM VerbsManage ==
    ASSUME NEW port \in Nat, NEW id \in Nat, NEW ports, NEW tagged, NEW priority, NEW word,
           NEW named \in BOOLEAN, NEW limit, ~named => limit \in Nat
    PROVE  /\ \A rx \in cmdQoS(port, priority)
                        \cup cmdBandwidth(word, port, mapBandwidthLimit(named, limit))
                        \cup cmdStorm(port, mapBandwidthLimit(named, limit)) :
                 Manageable("ports", rx)
           /\ \A rx \in cmdQoSMode(word) \cup cmdMulticast(word) \cup cmdMirror(port, ports) :
                 Manageable("settings", rx)
           /\ \A rx \in cmdVLANPortBased(id, ports) : Manageable("table", rx)
           /\ \A rx \in cmdPVID(port, id) \cup cmdVLAN8021Q(id, tagged, ports) :
                 Manageable("vlans", rx)
<1> DEFINE rate == mapBandwidthLimit(named, limit)
<1>1. rate \in 0 .. 255
  BY LimitIsByte
<1> HIDE DEF rate
<1>2. \A rx \in cmdQoS(port, priority) : Manageable("ports", rx)
  <2> SUFFICES ASSUME NEW n \in {i \in DOMAIN Priorities : Priorities[i] = priority}
               PROVE  Manageable("ports", <<<<"qos", port>>, n>>)
    BY DEF cmdQoS
  <2>1. n \in Nat
    BY DEF Priorities
  <2>2. "qos" \in Kinds["ports"] /\ n \in Values("qos") /\ "qos" \notin Numberless
    BY <2>1 DEF Kinds, Values, Rates, Numberless
  <2> QED
    BY <2>2, Manages1
<1>3. \A k \in Rates : Manageable("ports", <<<<k, port>>, rate>>)
  <2> TAKE k \in Rates
  <2>1. k \in Kinds["ports"] /\ rate \in Values(k) /\ k \notin Numberless
    BY <1>1 DEF Kinds, Values, Rates, Numberless
  <2> QED
    BY <2>1, Manages1
<1>4. \A rx \in cmdBandwidth(word, port, rate) \cup cmdStorm(port, rate) : Manageable("ports", rx)
  BY <1>3 DEF cmdBandwidth, cmdStorm, Rates
<1>5. \A rx \in cmdQoSMode(word) : Manageable("settings", rx)
  <2>1. /\ "qosMode" \in Kinds["settings"] /\ 1 \in Values("qosMode") /\ 2 \in Values("qosMode")
    BY DEF Kinds, Values, Rates
  <2>2. \A x \in {1, 2} : Manageable("settings", <<<<"qosMode", 0>>, x>>)
    BY <2>1, Manages1
  <2> QED
    BY <2>2 DEF cmdQoSMode
<1>6. \A rx \in cmdMulticast(word) : Manageable("settings", rx)
  <2>1. "mcast" \in Kinds["settings"] /\ (word = "on") \in Values("mcast")
    BY DEF Kinds, Values, Rates
  <2>2. Manageable("settings", <<<<"mcast", 0>>, word = "on">>)
    BY <2>1, Manages1
  <2> QED
    BY <2>2 DEF cmdMulticast
<1>7. \A rx \in cmdMirror(port, ports) : Manageable("settings", rx)
  <2> SUFFICES ASSUME ports = {} \/ parsePortList(ports)
               PROVE  Manageable("settings", <<<<"mirror", 0>>, <<port, ports>>>>)
    BY DEF cmdMirror
  <2>1. ports \in SUBSET (1 .. 8)
    BY DEF parsePortList
  <2>2. "mirror" \in Kinds["settings"] /\ <<port, ports>> \in Values("mirror")
    BY <2>1 DEF Kinds, Values, Rates
  <2> QED
    BY <2>2, Manages1
<1>8. \A rx \in cmdVLANPortBased(id, ports) : Manageable("table", rx)
  <2> SUFFICES ASSUME parsePortList(ports)
               PROVE  Manageable("table", <<<<"vlan", id>>, ports>>)
    BY DEF cmdVLANPortBased
  <2>1. "vlan" \in Kinds["table"] /\ ports \in Values("vlan") /\ "vlan" \notin Numberless
    BY DEF parsePortList, Kinds, Values, Rates, Numberless
  <2> QED
    BY <2>1, Manages1
<1>9. \A rx \in cmdPVID(port, id) : Manageable("vlans", rx)
  <2>1. "pvid" \in Kinds["vlans"] /\ id \in Values("pvid") /\ "pvid" \notin Numberless
    BY DEF Kinds, Values, Rates, Numberless
  <2>2. Manageable("vlans", <<<<"pvid", port>>, id>>)
    BY <2>1, Manages1
  <2> QED
    BY <2>2 DEF cmdPVID
<1>10. \A rx \in cmdVLAN8021Q(id, tagged, ports) : Manageable("vlans", rx)
  <2> SUFFICES ASSUME parsePortList(tagged), parsePortList(ports)
               PROVE  Manageable("vlans", <<<<"8021q", id>>, <<tagged, ports>>>>)
    BY DEF cmdVLAN8021Q
  <2>1. tagged \in SUBSET (1 .. 8) /\ ports \in SUBSET (1 .. 8)
    BY DEF parsePortList
  <2>2. /\ "8021q" \in Kinds["vlans"] /\ "8021q" \notin Numberless
        /\ <<tagged, ports>> \in Values("8021q")
    BY <2>1 DEF Kinds, Values, Rates, Numberless
  <2> QED
    BY <2>2, Manages1
<1> QED
  BY <1>2, <1>4, <1>5, <1>6, <1>7, <1>8, <1>9, <1>10 DEF rate

===============================================================================
