---------------------------- MODULE RangesProofs ----------------------------
(***************************************************************************)
(* Proofs about the arithmetic of rangestream.js, for all sizes and every  *)
(* list of ranges: splitting a range yields a partition of it in pieces of *)
(* at most the maximum size, and the loop that merges, pads and splits the *)
(* ranges of a listing yields a partition of what was listed, without      *)
(* losing data.  The loop is a recursive function on the naturals: that it *)
(* is one, and what it keeps from turn to turn, is proved by taking the    *)
(* least counterexample.                                                   *)
(***************************************************************************)
EXTENDS Ranges, FiniteSetTheorems, SequenceTheorems, WellFoundedInduction, TLAPS

(* A set of natural numbers that is not empty has a least element.          *)
LEMMA LeastNumber ==
    ASSUME NEW T, T \subseteq Nat, T # {}
    PROVE  \E x \in T : \A y \in T : x <= y
<1>1. PICK x \in T : \A y \in T : <<y, x>> \notin OpToRel(<, Nat)
    BY WFMin, NatLessThanWellFounded, Zenon
<1>2. ASSUME NEW y \in T PROVE x <= y
    <2>1. x \in Nat /\ y \in Nat
        OBVIOUS
    <2>2. ~(y < x)
        BY <1>1, <2>1 DEF OpToRel
    <2> QED
        BY <2>1, <2>2
<1> QED
    BY <1>2

(* The first range of a list begins where it begins, and so on: two         *)
(* partitions that follow each other are a partition.                       *)
LEMMA PartitionConcat ==
    ASSUME NEW a \in Seq(ByteRange), NEW b \in Seq(ByteRange),
           NEW x \in Int, NEW y \in Int, NEW z \in Int,
           Partition(a, x, y), Partition(b, y + 1, z)
    PROVE  Partition(a \o b, x, z)
<1>1. /\ Len(a) \in Nat /\ Len(b) \in Nat /\ a \o b \in Seq(ByteRange)
      /\ Len(a \o b) = Len(a) + Len(b)
      /\ \A n \in 1..Len(a) : (a \o b)[n] = a[n]
      /\ \A n \in 1..Len(b) : (a \o b)[Len(a) + n] = b[n]
    BY ConcatProperties, LenProperties
<1> DEFINE c == a \o b
<1>2. /\ a = <<>> => y = x - 1
      /\ a # <<>> => y = a[Len(a)].end /\ Len(a) >= 1
      /\ b = <<>> => z = y
      /\ b # <<>> => z = b[Len(b)].end /\ Len(b) >= 1
    BY <1>1, EmptySeq DEF Partition
<1>3. /\ a = <<>> => Len(a) = 0
      /\ b = <<>> => Len(b) = 0
    BY EmptySeq
<1> HIDE DEF c
<1>4. ASSUME NEW n \in 1..Len(c)
      PROVE  /\ c[n].start = IF n = 1 THEN x ELSE c[n - 1].end + 1
             /\ c[n].end >= c[n].start
    <2>1. CASE n \in 1..Len(a)
        <3>1. c[n] = a[n] /\ (n # 1 => c[n - 1] = a[n - 1])
            BY <1>1, <2>1 DEF c
        <3> QED
            BY <2>1, <3>1 DEF Partition
    <2>2. CASE n = Len(a) + 1
        <3>1. c[n] = b[1] /\ 1 \in 1..Len(b)
            BY <1>1, <2>2 DEF c
        <3>2. b[1].start = y + 1 /\ b[1].end >= b[1].start
            BY <3>1 DEF Partition
        <3>3. CASE a = <<>>
            BY <1>2, <1>3, <2>2, <3>1, <3>2, <3>3
        <3>4. CASE a # <<>>
            <4>1. n # 1 /\ c[n - 1] = a[Len(a)]
                BY <1>1, <1>2, <2>2, <3>4 DEF c
            <4> QED
                BY <1>2, <3>1, <3>2, <3>4, <4>1
        <3> QED
            BY <3>3, <3>4
    <2>3. CASE n > Len(a) + 1
        <3> DEFINE m == n - Len(a)
        <3>1. m \in 1..Len(b) /\ m # 1 /\ m - 1 \in 1..Len(b) /\ n # 1
            BY <1>1, <2>3 DEF c
        <3>2. c[n] = b[m] /\ c[n - 1] = b[m - 1]
            <4>1. n = Len(a) + m /\ n - 1 = Len(a) + (m - 1)
                BY <1>1
            <4> QED
                BY <1>1, <3>1, <4>1 DEF c
        <3> HIDE DEF m
        <3>3. b[m].start = b[m - 1].end + 1 /\ b[m].end >= b[m].start
            BY <3>1 DEF Partition
        <3>4. c[n].start = c[n - 1].end + 1
            BY <3>2, <3>3, Zenon
        <3>5. c[n].end >= c[n].start
            BY <3>2, <3>3, Zenon
        <3> QED
            BY <3>1, <3>4, <3>5, Zenon
    <2>4. n \in Nat \ {0} /\ Len(a) \in Nat
        BY <1>1 DEF c
    <2> QED
        BY <2>1, <2>2, <2>3, <2>4
<1>5. z = IF c = <<>> THEN x - 1 ELSE c[Len(c)].end
    <2>1. CASE b = <<>>
        <3>1. c = a
            BY <2>1, ConcatEmptySeq DEF c
        <3> QED
            BY <1>2, <2>1, <3>1
    <2>2. CASE b # <<>>
        <3>1. c # <<>> /\ c[Len(c)] = b[Len(b)]
            BY <1>1, <1>2, <2>2, EmptySeq DEF c
        <3> QED
            BY <1>2, <2>2, <3>1
    <2> QED
        BY <2>1, <2>2
<1> QED
    BY <1>4, <1>5 DEF c, Partition

(* What n * MaxRangeSize is compared with: how many pieces a range has.     *)
LEMMA CountPieces ==
    ASSUME NEW l \in Nat, NEW q, q = (l + MaxRangeSize - 1) \div MaxRangeSize
    PROVE  /\ q \in Nat /\ (l > 0 => q >= 1) /\ (l = 0 => q = 0)
           /\ l <= q * MaxRangeSize
           /\ \A k \in 1..(q - 1) : k * MaxRangeSize < l
<1> DEFINE M == MaxRangeSize
<1>1. M \in Nat \ {0}
    BY RangeAssumption DEF RangeAssumption
<1> HIDE DEF M
<1> DEFINE a == l + M - 1
<1>2. a \in Nat /\ q = a \div M
    BY <1>1 DEF M
<1>3. q \in Int /\ q * M <= a /\ a < (q + 1) * M
    BY <1>1, <1>2
<1>4. (q + 1) * M = q * M + M /\ q * M \in Int
    BY <1>1, <1>3
<1>5. l <= q * M /\ q * M - M < l
    BY <1>1, <1>3, <1>4 DEF a
<1>6. q >= 0
    <2>1. ASSUME q <= -1 PROVE FALSE
        <3>1. q * M <= (-1) * M
            BY <1>1, <1>3, <2>1
        <3> QED
            BY <1>1, <1>5, <3>1
    <2> QED
        BY <1>3, <2>1
<1>7. l > 0 => q >= 1
    BY <1>1, <1>3, <1>5, <1>6
<1>8. l = 0 => q = 0
    <2>1. ASSUME l = 0, q >= 1 PROVE FALSE
        <3>1. q * M >= 1 * M
            BY <1>1, <1>3, <2>1
        <3> QED
            BY <1>1, <1>5, <2>1, <3>1
    <2> QED
        BY <1>3, <1>6, <2>1
<1>9. ASSUME NEW k \in 1..(q - 1) PROVE k * M < l
    <2>1. k * M <= (q - 1) * M
        BY <1>1, <1>3
    <2>2. (q - 1) * M = q * M - M /\ k * M \in Int
        BY <1>1, <1>3
    <2> QED
        BY <1>1, <1>4, <1>5, <2>1, <2>2
<1> QED
    BY <1>3, <1>5, <1>6, <1>7, <1>8, <1>9 DEF M

(* splitAndSaveRanges: the pieces partition the range, none is larger than  *)
(* the maximum, and they hold data when the range does.                     *)
LEMMA SplitCovers ==
    ASSUME NEW r \in ByteRange, r.end >= r.start - 1
    PROVE  /\ Split(r) \in Seq(ByteRange)
           /\ Partition(Split(r), r.start, r.end)
           /\ \A n \in 1..Len(Split(r)) :
                 /\ Split(r)[n].data = r.data
                 /\ Split(r)[n].end - Split(r)[n].start < MaxRangeSize
                 /\ r.start <= Split(r)[n].start /\ Split(r)[n].end <= r.end
<1> DEFINE M == MaxRangeSize
           l == r.end - r.start + 1
           q == (r.end - r.start + M) \div M
           p == [k \in 1..q |-> Piece(r.start + (k - 1) * M,
                                     Smaller(r.start + k * M - 1, r.end), r.data)]
<1>1. /\ M \in Nat \ {0} /\ r.start \in Nat /\ r.end \in Int /\ r.data \in BOOLEAN
      /\ l \in Nat
    BY RangeAssumption DEF RangeAssumption, ByteRange
<1>2. Split(r) = p
    BY DEF Split
<1>3. /\ q \in Nat /\ (l > 0 => q >= 1) /\ (l = 0 => q = 0)
      /\ l <= q * M
      /\ \A k \in 1..(q - 1) : k * M < l
    <2>1. r.end - r.start + M = l + M - 1
        BY <1>1
    <2>2. q = (l + M - 1) \div M
        BY <2>1
    <2>3. l \in Nat /\ M = MaxRangeSize
        BY <1>1
    <2> HIDE DEF q, l, M
    <2> QED
        BY <2>2, <2>3, CountPieces
<1> HIDE DEF q, M
<1>4. ASSUME NEW k \in 1..q
      PROVE  /\ p[k].start = r.start + (k - 1) * M
             /\ p[k].end = IF k = q THEN r.end ELSE r.start + k * M - 1
             /\ p[k].data = r.data
             /\ p[k] \in ByteRange
             /\ k * M \in Nat /\ (k - 1) * M \in Nat /\ k * M = (k - 1) * M + M
             /\ p[k].start <= p[k].end /\ p[k].end <= r.end
    <2>1. k * M \in Nat /\ (k - 1) * M \in Nat /\ k * M = (k - 1) * M + M
        BY <1>1, <1>3
    <2>2. p[k] = Piece(r.start + (k - 1) * M, Smaller(r.start + k * M - 1, r.end), r.data)
        BY DEF p
    <2>3. k # q => k * M < l
        BY <1>3
    <2>4. (k - 1) * M < l
        <3>1. CASE k = 1
            <4>1. (k - 1) * M = 0
                BY <1>1, <3>1
            <4>2. l # 0
                BY <1>3
            <4> QED
                BY <1>1, <4>1, <4>2
        <3>2. CASE k # 1
            <4>1. k - 1 \in 1..(q - 1)
                BY <1>3, <3>2
            <4> QED
                BY <1>3, <4>1
        <3> QED
            BY <3>1, <3>2
    <2>5. k = q => l <= k * M
        BY <1>3
    <2> QED
        BY <1>1, <2>1, <2>2, <2>3, <2>4, <2>5 DEF Piece, Smaller, ByteRange
<1>5. p \in Seq(ByteRange) /\ Len(p) = q /\ (q = 0 => p = <<>>) /\ (q # 0 => p # <<>>)
    <2>1. p \in [1..q -> ByteRange]
        BY <1>4 DEF p
    <2>2. p \in Seq(ByteRange)
        BY <1>3, <2>1, SeqDef
    <2>3. Len(p) = q
        BY <1>3, <2>1, <2>2, LenProperties
    <2> QED
        BY <1>3, <2>2, <2>3, EmptySeq
<1> HIDE DEF p
<1>6. ASSUME NEW n \in 1..Len(p)
      PROVE  /\ p[n].start = IF n = 1 THEN r.start ELSE p[n - 1].end + 1
             /\ p[n].end >= p[n].start
             /\ p[n].data = r.data
             /\ p[n].end - p[n].start < MaxRangeSize
             /\ r.start <= p[n].start /\ p[n].end <= r.end
    <2>1. n \in 1..q
        BY <1>5
    <2>2. p[n].start = r.start + (n - 1) * M /\ (n - 1) * M \in Nat
        BY <1>4, <2>1
    <2>3. p[n].end - p[n].start < M
        <3>1. CASE n = q
            <4>1. l <= n * M /\ n * M = (n - 1) * M + M /\ n * M \in Nat
                BY <1>3, <1>4, <2>1, <3>1
            <4>2. p[n].end = r.end
                BY <1>4, <2>1, <3>1
            <4> QED
                BY <1>1, <2>2, <4>1, <4>2
        <3>2. CASE n # q
            <4>1. /\ p[n].end = r.start + n * M - 1
                  /\ n * M = (n - 1) * M + M /\ n * M \in Nat
                BY <1>4, <2>1, <3>2
            <4> QED
                BY <1>1, <2>2, <4>1
        <3> QED
            BY <3>1, <3>2
    <2>4. n = 1 => p[n].start = r.start
        BY <1>1, <2>2
    <2>5. n # 1 => p[n].start = p[n - 1].end + 1
        <3> SUFFICES ASSUME n # 1 PROVE p[n].start = p[n - 1].end + 1
            OBVIOUS
        <3>1. n - 1 \in 1..q /\ n - 1 # q
            BY <1>3, <2>1
        <3>2. p[n - 1].end = r.start + (n - 1) * M - 1
            BY <1>4, <3>1
        <3> QED
            BY <1>1, <2>2, <3>2
    <2>6. /\ p[n].end >= p[n].start /\ p[n].data = r.data
          /\ r.start <= p[n].start /\ p[n].end <= r.end
        BY <1>1, <1>4, <2>1, <2>2
    <2>7. p[n].end - p[n].start < MaxRangeSize
        BY <2>3 DEF M
    <2> QED
        BY <2>4, <2>5, <2>6, <2>7, Zenon
<1>7. r.end = IF p = <<>> THEN r.start - 1 ELSE p[Len(p)].end
    <2>1. CASE q = 0
        BY <1>1, <1>3, <1>5, <2>1
    <2>2. CASE q # 0
        BY <1>3, <1>4, <1>5, <2>2
    <2> QED
        BY <2>1, <2>2
<1>8. Partition(p, r.start, r.end)
    BY <1>6, <1>7 DEF Partition
<1> QED
    BY <1>2, <1>5, <1>6, <1>8

-----------------------------------------------------------------------------
(* What a service lists.                                                    *)
Found == [start : Nat, end : Nat, data : BOOLEAN]

(* The turns of the loop are taken one after the other: the recursive       *)
(* function that stands for the loop exists.                                *)
LEMMA TurnsDefined ==
    ASSUME NEW found \in Seq(Found), NEW start \in Nat, NEW offset \in Nat
    PROVE  /\ Turns(found, start, offset)[0] = Loop(Piece(start, -1, FALSE), offset, <<>>)
           /\ \A n \in 1..Len(found) :
                 Turns(found, start, offset)[n] =
                     Turn(Turns(found, start, offset)[n - 1], found[n])
<1> DEFINE base == Loop(Piece(start, -1, FALSE), offset, <<>>)
           N == Len(found)
           Good(f, n) == f = [i \in 0..n |-> IF i = 0 THEN base
                                             ELSE Turn(f[i - 1], found[i])]
           T == {n \in 0..N : ~ \E f : Good(f, n)}
<1>1. N \in Nat
    BY LenProperties
<1> HIDE DEF base, N
<1>2. T = {}
    <2>1. ASSUME T # {} PROVE FALSE
        <3>0. T \subseteq Nat
            BY <1>1
        <3>1. PICK n \in T : \A m \in T : n <= m
            <4> HIDE DEF T
            <4> QED
                BY <2>1, <3>0, LeastNumber
        <3>2. CASE n = 0
            <4>1. Good([i \in 0..0 |-> base], 0)
                OBVIOUS
            <4> QED
                BY <3>2, <4>1
        <3>3. CASE n # 0
            <4>1. n \in 0..N /\ n - 1 \in 0..N /\ ~(n <= n - 1)
                BY <1>1, <3>3
            <4>2. n - 1 \notin T
                BY <3>1, <4>1
            <4>3. PICK g : Good(g, n - 1)
                BY <4>1, <4>2
            <4> DEFINE f == [i \in 0..n |-> IF i = n THEN Turn(g[n - 1], found[n]) ELSE g[i]]
            <4>4. ASSUME NEW i \in 0..n
                  PROVE  f[i] = IF i = 0 THEN base ELSE Turn(f[i - 1], found[i])
                <5>1. CASE i = n
                    <6>1. i # 0 /\ i - 1 \in 0..n /\ i - 1 # n
                        BY <3>3, <4>1, <5>1
                    <6>2. f[i] = Turn(g[n - 1], found[n]) /\ f[i - 1] = g[i - 1]
                        BY <5>1, <6>1
                    <6> QED
                        BY <5>1, <6>1, <6>2
                <5>2. CASE i # n
                    <6>1. i \in 0..(n - 1)
                        BY <4>1, <5>2
                    <6>2. g[i] = IF i = 0 THEN base ELSE Turn(g[i - 1], found[i])
                        BY <4>3, <6>1
                    <6>3. f[i] = g[i]
                        BY <5>2
                    <6>4. i # 0 => f[i - 1] = g[i - 1]
                        <7>1. i # 0 => i - 1 \in 0..n /\ i - 1 # n
                            BY <4>1, <6>1
                        <7> QED
                            BY <7>1
                    <6> QED
                        BY <6>2, <6>3, <6>4
                <5> QED
                    BY <5>1, <5>2
            <4>5. Good(f, n)
                <5> DEFINE h == [i \in 0..n |-> IF i = 0 THEN base
                                                ELSE Turn(f[i - 1], found[i])]
                <5>1. \A i \in 0..n : f[i] = h[i]
                    BY <4>4
                <5>2. DOMAIN f = 0..n /\ DOMAIN h = 0..n
                    OBVIOUS
                <5>3. f = [i \in 0..n |-> f[i]] /\ h = [i \in 0..n |-> h[i]]
                    OBVIOUS
                <5> HIDE DEF f, h
                <5>4. f = h
                    BY <5>1, <5>3
                <5> QED
                    BY <5>4 DEF h
            <4> QED
                BY <4>5
        <3> QED
            BY <3>2, <3>3
    <2> QED
        BY <2>1
<1>3. \E f : Good(f, N)
    BY <1>1, <1>2
<1> DEFINE state == CHOOSE f : Good(f, N)
<1>4. Good(state, N)
    BY <1>3
<1>5. Turns(found, start, offset) = state
    BY DEF Turns, N, base
<1> HIDE DEF state
<1>6. 0 \in 0..N /\ \A n \in 1..N : n \in 0..N /\ n # 0
    BY <1>1
<1>7. state[0] = base /\ \A n \in 1..N : state[n] = Turn(state[n - 1], found[n])
    BY <1>4, <1>6
<1> QED
    BY <1>5, <1>7 DEF N, base

-----------------------------------------------------------------------------
(* Ranges that are saved: a partition of the offsets first to last in       *)
(* pieces of at most the maximum size, of which those that are not          *)
(* requested hold no data.                                                  *)
NoneIn(bytes, first, last) == \A i \in first..last : i \notin bytes

Saved(pieces, first, last, bytes) ==
    /\ pieces \in Seq(ByteRange)
    /\ Partition(pieces, first, last)
    /\ \A n \in 1..Len(pieces) :
          /\ pieces[n].data \/ NoneIn(bytes, pieces[n].start, pieces[n].end)
          /\ pieces[n].end - pieces[n].start < MaxRangeSize

LEMMA SavedConcat ==
    ASSUME NEW bytes, NEW a, NEW b, NEW x \in Int, NEW y \in Int, NEW z \in Int,
           Saved(a, x, y, bytes), Saved(b, y + 1, z, bytes)
    PROVE  Saved(a \o b, x, z, bytes)
<1>1. a \in Seq(ByteRange) /\ b \in Seq(ByteRange)
    BY DEF Saved
<1>2. Partition(a, x, y) /\ Partition(b, y + 1, z)
    BY DEF Saved
<1>3. Partition(a \o b, x, z)
    BY <1>1, <1>2, PartitionConcat
<1>4. /\ a \o b \in Seq(ByteRange) /\ Len(a) \in Nat /\ Len(b) \in Nat
      /\ Len(a \o b) = Len(a) + Len(b)
      /\ \A n \in 1..Len(a) : (a \o b)[n] = a[n]
      /\ \A n \in 1..Len(b) : (a \o b)[Len(a) + n] = b[n]
    BY <1>1, ConcatProperties, LenProperties
<1> DEFINE c == a \o b
<1> HIDE DEF c
<1>5. ASSUME NEW n \in 1..Len(c)
      PROVE  /\ c[n].data \/ NoneIn(bytes, c[n].start, c[n].end)
             /\ c[n].end - c[n].start < MaxRangeSize
    <2>1. CASE n \in 1..Len(a)
        <3>1. c[n] = a[n]
            BY <1>4, <2>1 DEF c
        <3> QED
            BY <2>1, <3>1 DEF Saved
    <2>2. CASE n \notin 1..Len(a)
        <3>1. PICK m \in 1..Len(b) : n = Len(a) + m
            <4>1. n - Len(a) \in 1..Len(b) /\ n = Len(a) + (n - Len(a))
                BY <1>4, <2>2 DEF c
            <4> QED
                BY <4>1
        <3>2. c[n] = b[m]
            BY <1>4, <3>1 DEF c
        <3> QED
            BY <3>2 DEF Saved
    <2> QED
        BY <2>1, <2>2
<1> QED
    BY <1>3, <1>4, <1>5 DEF c, Saved

LEMMA SavedSplit ==
    ASSUME NEW bytes, NEW r \in ByteRange, r.end >= r.start - 1,
           r.data \/ NoneIn(bytes, r.start, r.end)
    PROVE  Saved(Split(r), r.start, r.end, bytes)
<1> DEFINE p == Split(r)
<1>1. /\ p \in Seq(ByteRange) /\ Partition(p, r.start, r.end)
      /\ \A n \in 1..Len(p) : /\ p[n].data = r.data
                              /\ p[n].end - p[n].start < MaxRangeSize
                              /\ r.start <= p[n].start /\ p[n].end <= r.end
    BY SplitCovers
<1> HIDE DEF p
<1>2. ASSUME NEW n \in 1..Len(p), ~p[n].data
      PROVE  NoneIn(bytes, p[n].start, p[n].end)
    <2>1. p[n] \in ByteRange
        BY <1>1, ElementOfSeq
    <2>2. NoneIn(bytes, r.start, r.end)
        BY <1>1, <1>2
    <2>3. /\ p[n].start \in Nat /\ p[n].end \in Int /\ r.start \in Nat /\ r.end \in Int
          /\ r.start <= p[n].start /\ p[n].end <= r.end
        BY <1>1, <2>1 DEF ByteRange
    <2>4. ASSUME NEW i \in p[n].start..p[n].end PROVE i \in r.start..r.end
        BY <2>3
    <2> QED
        BY <2>2, <2>4 DEF NoneIn
<1> QED
    BY <1>1, <1>2 DEF Saved, p

LEMMA SavedNothing ==
    ASSUME NEW bytes, NEW x \in Int
    PROVE  Saved(<<>>, x, x - 1, bytes)
    BY EmptySeq DEF Saved, Partition

(* What the loop keeps from turn to turn: the ranges read so far end with   *)
(* the offset done; those that are saved and the one being held partition   *)
(* them, and the one being held holds no data unless it says so.            *)
LoopInv(s, first, done, bytes) ==
    /\ s \in LoopState
    /\ s.offset = done + 1
    /\ Saved(s.saved, first, s.hold.start - 1, bytes)
    /\ s.hold.end = -1 => s.hold.start = done + 1
    /\ s.hold.end # -1 => s.hold.end = done /\ s.hold.start <= done
    /\ s.hold.data \/ NoneIn(bytes, s.hold.start, s.hold.end)

LEMMA LoopFields ==
    ASSUME NEW hold \in ByteRange, NEW offset \in Nat, NEW saved \in Seq(ByteRange)
    PROVE  /\ Loop(hold, offset, saved) \in LoopState
           /\ Loop(hold, offset, saved).hold = hold
           /\ Loop(hold, offset, saved).offset = offset
           /\ Loop(hold, offset, saved).saved = saved
    BY DEF Loop, LoopState

LEMMA TurnKeeps ==
    ASSUME NEW bytes, NEW s, NEW first \in Nat, NEW done \in Int, done >= -1,
           LoopInv(s, first, done, bytes),
           NEW r \in Found, done < r.start, r.start <= r.end,
           NoneIn(bytes, done + 1, r.start - 1),
           r.data \/ NoneIn(bytes, r.start, r.end)
    PROVE  /\ LoopInv(Turn(s, r), first, r.end, bytes)
           /\ Turn(s, r).hold.end # -1 => Turn(s, r).hold.start <= r.start
<1> DEFINE small == r.end - s.hold.start + 1 < MinRangeSize
           holding == s.hold.end # -1
           held == IF holding THEN Split(s.hold) ELSE <<>>
           empty == Piece(s.offset, r.start - 1, FALSE)
           t == Turn(s, r)
<1>1. /\ s.hold \in ByteRange /\ s.offset \in Nat /\ s.saved \in Seq(ByteRange)
      /\ s.hold.start \in Nat /\ s.hold.end \in Int /\ s.hold.data \in BOOLEAN
      /\ r.start \in Nat /\ r.end \in Nat /\ r.data \in BOOLEAN /\ r \in ByteRange
      /\ s.offset = done + 1
    BY DEF LoopInv, LoopState, ByteRange, Found
<1>2. CASE small
    <2>1. t = Loop(Merged(s.hold, r), r.end + 1, s.saved)
        BY <1>2 DEF Turn
    <2>2. /\ t.hold = Piece(s.hold.start, r.end, s.hold.data \/ r.data)
          /\ t.offset = r.end + 1 /\ t.saved = s.saved
        BY <2>1 DEF Loop, Merged
    <2>3. /\ t.hold.start = s.hold.start /\ t.hold.end = r.end
          /\ t.hold.data = (s.hold.data \/ r.data)
          /\ t.hold \in ByteRange
        BY <1>1, <2>2 DEF Piece, ByteRange
    <2>4. t \in LoopState
        BY <1>1, <2>1, <2>3 DEF Loop, LoopState
    <2>5. s.hold.start <= r.start
        BY <1>1 DEF LoopInv
    <2>6. ASSUME ~t.hold.data PROVE NoneIn(bytes, t.hold.start, t.hold.end)
        <3>1. NoneIn(bytes, s.hold.start, s.hold.end) /\ NoneIn(bytes, r.start, r.end)
            BY <1>1, <2>3, <2>6 DEF LoopInv
        <3> QED
            BY <1>1, <2>3, <3>1 DEF NoneIn, LoopInv
    <2>7. LoopInv(t, first, r.end, bytes)
        <3> HIDE DEF t
        <3>1. Saved(t.saved, first, t.hold.start - 1, bytes)
            BY <2>2, <2>3 DEF LoopInv
        <3>2. t.hold.end # -1 /\ t.hold.start <= r.end
            BY <1>1, <2>3, <2>5
        <3> QED
            BY <2>2, <2>3, <2>4, <2>6, <3>1, <3>2 DEF LoopInv
    <2> QED
        BY <2>3, <2>5, <2>7
<1>3. CASE ~small /\ (holding \/ s.offset # r.start)
    <2>1. t = Loop(r, r.end + 1, s.saved \o held \o Split(empty))
        BY <1>3 DEF Turn
    <2>2. /\ empty \in ByteRange /\ empty.start = done + 1 /\ empty.end = r.start - 1
          /\ empty.data = FALSE
        BY <1>1 DEF Piece, ByteRange
    <2>3. Saved(Split(empty), done + 1, r.start - 1, bytes)
        <3> HIDE DEF empty
        <3>1. empty.end >= empty.start - 1
            BY <1>1, <2>2
        <3>2. NoneIn(bytes, empty.start, empty.end)
            BY <2>2
        <3>3. Saved(Split(empty), empty.start, empty.end, bytes)
            BY <2>2, <3>1, <3>2, SavedSplit
        <3> QED
            BY <2>2, <3>3
    <2>4. Saved(held, s.hold.start, done, bytes)
        <3>1. CASE holding
            <4>1. s.hold.end = done /\ s.hold.start <= done
                BY <3>1 DEF LoopInv
            <4>2. s.hold.end >= s.hold.start - 1
                BY <1>1, <4>1
            <4>3. s.hold.data \/ NoneIn(bytes, s.hold.start, s.hold.end)
                BY DEF LoopInv
            <4>4. Saved(Split(s.hold), s.hold.start, s.hold.end, bytes)
                BY <1>1, <4>2, <4>3, SavedSplit
            <4> QED
                BY <3>1, <4>1, <4>4
        <3>2. CASE ~holding
            <4>1. done = s.hold.start - 1
                BY <1>1, <3>2 DEF LoopInv
            <4>2. Saved(<<>>, s.hold.start, s.hold.start - 1, bytes)
                BY <1>1, SavedNothing
            <4> QED
                BY <3>2, <4>1, <4>2
        <3> QED
            BY <3>1, <3>2
    <2>5. Saved(s.saved \o held \o Split(empty), first, r.start - 1, bytes)
        <3> DEFINE h == held
                   e == Split(empty)
                   x == s.hold.start - 1
                   z == r.start - 1
        <3>1. x \in Int /\ z \in Int /\ x + 1 = s.hold.start
            BY <1>1
        <3>2. Saved(s.saved, first, x, bytes) /\ Saved(h, x + 1, done, bytes)
            BY <2>4, <3>1 DEF LoopInv
        <3>3. Saved(e, done + 1, z, bytes)
            BY <2>3
        <3> HIDE DEF h, e, x, z
        <3>4. Saved(s.saved \o h, first, done, bytes)
            BY <3>1, <3>2, SavedConcat
        <3>5. Saved((s.saved \o h) \o e, first, z, bytes)
            BY <3>1, <3>3, <3>4, SavedConcat
        <3> QED
            BY <3>5 DEF h, e, z
    <2>6. /\ t.hold = r /\ t.offset = r.end + 1 /\ t \in LoopState
          /\ t.saved = s.saved \o held \o Split(empty)
        <3> DEFINE v == s.saved \o held \o Split(empty)
                   o == r.end + 1
        <3>1. v \in Seq(ByteRange)
            BY <2>5 DEF Saved
        <3>2. o \in Nat /\ r \in ByteRange
            BY <1>1
        <3>3. t = Loop(r, o, v)
            BY <2>1, Zenon
        <3> HIDE DEF v, o, t
        <3>4. t.hold = r /\ t.offset = o /\ t \in LoopState /\ t.saved = v
            BY <3>1, <3>2, <3>3, LoopFields
        <3> QED
            BY <3>4 DEF v, o
    <2> HIDE DEF t, held, empty
    <2> QED
        BY <1>1, <2>5, <2>6 DEF LoopInv, t
<1>4. CASE ~small /\ ~holding /\ s.offset = r.start
    <2>1. t = Loop(Piece(r.end + 1, -1, FALSE), r.end + 1, s.saved \o Split(r))
        BY <1>4 DEF Turn
    <2>2. /\ t.hold = Piece(r.end + 1, -1, FALSE) /\ t.offset = r.end + 1
          /\ t.saved = s.saved \o Split(r)
        BY <2>1 DEF Loop
    <2>3. /\ t.hold.start = r.end + 1 /\ t.hold.end = -1 /\ t.hold.data = FALSE
          /\ t.hold \in ByteRange
        BY <1>1, <2>2 DEF Piece, ByteRange
    <2>4. Saved(s.saved \o Split(r), first, r.end, bytes)
        <3> DEFINE x == s.hold.start - 1
        <3>1. x \in Int /\ x + 1 = r.start
            BY <1>1, <1>4 DEF LoopInv
        <3>2. Saved(s.saved, first, x, bytes)
            BY DEF LoopInv
        <3>3. r.end >= r.start - 1
            BY <1>1
        <3>4. Saved(Split(r), x + 1, r.end, bytes)
            BY <1>1, <3>1, <3>3, SavedSplit
        <3> HIDE DEF x
        <3> QED
            BY <1>1, <3>1, <3>2, <3>4, SavedConcat
    <2>5. t \in LoopState
        <3> DEFINE v == s.saved \o Split(r)
                   o == r.end + 1
                   h == Piece(o, -1, FALSE)
        <3>1. v \in Seq(ByteRange)
            BY <2>4 DEF Saved
        <3>2. o \in Nat /\ h \in ByteRange
            BY <1>1 DEF Piece, ByteRange
        <3>3. t = Loop(h, o, v)
            BY <2>1, Zenon
        <3> HIDE DEF v, o, h, t
        <3> QED
            BY <3>1, <3>2, <3>3, LoopFields
    <2>6. NoneIn(bytes, t.hold.start, t.hold.end)
        BY <1>1, <2>3 DEF NoneIn
    <2>7. Saved(t.saved, first, t.hold.start - 1, bytes)
        <3>1. t.hold.start - 1 = r.end
            BY <1>1, <2>3
        <3> QED
            BY <2>2, <2>4, <3>1
    <2> HIDE DEF t
    <2> QED
        BY <1>1, <2>2, <2>3, <2>5, <2>6, <2>7 DEF LoopInv, t
<1> QED
    BY <1>2, <1>3, <1>4

(* The ranges of a listing from first to last: in order, not overlapping,   *)
(* and not leaving data out.                                                *)
Listing(found, first, last, bytes) ==
    /\ found \in Seq(Found) /\ found # <<>>
    /\ \A n \in 1..Len(found) :
          LET before == IF n = 1 THEN first - 1 ELSE found[n - 1].end
          IN  /\ before < found[n].start /\ found[n].start <= found[n].end
              /\ NoneIn(bytes, before + 1, found[n].start - 1)
              /\ found[n].data \/ NoneIn(bytes, found[n].start, found[n].end)
    /\ last = found[Len(found)].end

(* Resize: resizeAndSaveRanges saves a partition of what was listed, in     *)
(* pieces of at most the maximum size, and drops no data, however the       *)
(* ranges are merged, padded and split; or of all but the last byte, which  *)
(* is lost when the last range of the listing is that single byte.          *)
THEOREM ResizeSaves ==
    ASSUME NEW bytes, NEW found, NEW first \in Nat, NEW last \in Nat,
           Listing(found, first, last, bytes)
    PROVE  \/ Saved(Resize(found, first, first), first, last, bytes)
           \/ /\ Saved(Resize(found, first, first), first, last - 1, bytes)
              /\ found[Len(found)].start = last
<1> DEFINE N == Len(found)
           state == Turns(found, first, first)
           done(n) == IF n = 0 THEN first - 1 ELSE found[n].end
           Kept(n) == /\ LoopInv(state[n], first, done(n), bytes)
                      /\ n # 0 /\ state[n].hold.end # -1 =>
                            state[n].hold.start <= found[n].start
           T == {n \in 0..N : ~Kept(n)}
<1>1. /\ found \in Seq(Found) /\ N \in Nat \ {0}
      /\ \A n \in 1..N : /\ found[n] \in Found
                         /\ found[n].start \in Nat /\ found[n].end \in Nat
    <2>1. found \in Seq(Found) /\ found # <<>>
        BY DEF Listing
    <2>2. \A n \in 1..N : found[n] \in Found
        BY <2>1, ElementOfSeq
    <2> QED
        BY <2>1, <2>2, LenProperties, EmptySeq DEF Found
<1>2. /\ state[0] = Loop(Piece(first, -1, FALSE), first, <<>>)
      /\ \A n \in 1..N : state[n] = Turn(state[n - 1], found[n])
    BY <1>1, TurnsDefined
<1> HIDE DEF state, N
<1>3. Kept(0)
    <2> DEFINE hold == Piece(first, -1, FALSE)
    <2>1. /\ hold.start = first /\ hold.end = -1 /\ hold.data = FALSE
          /\ hold \in ByteRange
        BY DEF Piece, ByteRange
    <2>0. state[0] = Loop(hold, first, <<>>)
        BY <1>2
    <2> HIDE DEF hold
    <2>2. <<>> \in Seq(ByteRange)
        BY EmptySeq
    <2>3. /\ state[0] \in LoopState /\ state[0].hold = hold
          /\ state[0].offset = first /\ state[0].saved = <<>>
        <3> DEFINE none == <<>>
        <3>1. none \in Seq(ByteRange) /\ state[0] = Loop(hold, first, none)
            BY <2>0, <2>2
        <3> HIDE DEF none
        <3>2. /\ Loop(hold, first, none) \in LoopState
              /\ Loop(hold, first, none).hold = hold
              /\ Loop(hold, first, none).offset = first
              /\ Loop(hold, first, none).saved = none
            BY <2>1, <3>1, LoopFields
        <3> QED
            BY <3>1, <3>2 DEF none
    <2>4. Saved(<<>>, first, first - 1, bytes)
        BY SavedNothing
    <2>5. NoneIn(bytes, first, -1)
        BY DEF NoneIn
    <2>6. done(0) = first - 1 /\ done(0) + 1 = first
        OBVIOUS
    <2> HIDE DEF done
    <2> QED
        BY <2>1, <2>3, <2>4, <2>5, <2>6 DEF LoopInv
<1>4. ASSUME NEW n \in 1..N, Kept(n - 1) PROVE Kept(n)
    <2>1. done(n - 1) \in Int /\ done(n - 1) >= -1 /\ n # 0
        <3>1. n - 1 = 0 \/ n - 1 \in 1..N
            BY <1>1
        <3>2. CASE n - 1 = 0
            BY <3>2
        <3>3. CASE n - 1 \in 1..N
            BY <1>1, <3>3
        <3> QED
            BY <3>1, <3>2, <3>3
    <2>2. /\ done(n - 1) < found[n].start /\ found[n].start <= found[n].end
          /\ NoneIn(bytes, done(n - 1) + 1, found[n].start - 1)
          /\ found[n].data \/ NoneIn(bytes, found[n].start, found[n].end)
        <3> DEFINE before == IF n = 1 THEN first - 1 ELSE found[n - 1].end
        <3>1. before = done(n - 1)
            BY <1>1
        <3>2. /\ before < found[n].start /\ found[n].start <= found[n].end
              /\ NoneIn(bytes, before + 1, found[n].start - 1)
              /\ found[n].data \/ NoneIn(bytes, found[n].start, found[n].end)
            BY DEF Listing, N
        <3> HIDE DEF before, done
        <3> QED
            BY <3>1, <3>2
    <2>3. done(n) = found[n].end
        BY <2>1
    <2>4. LoopInv(state[n - 1], first, done(n - 1), bytes)
        BY <1>4
    <2> HIDE DEF done
    <2>5. /\ LoopInv(Turn(state[n - 1], found[n]), first, found[n].end, bytes)
          /\ Turn(state[n - 1], found[n]).hold.end # -1 =>
                Turn(state[n - 1], found[n]).hold.start <= found[n].start
        BY <1>1, <2>1, <2>2, <2>4, TurnKeeps
    <2> QED
        BY <1>2, <2>3, <2>5
<1>5. T = {}
    <2>1. ASSUME T # {} PROVE FALSE
        <3>0. T \subseteq Nat
            BY <1>1
        <3>1. PICK n \in T : \A m \in T : n <= m
            <4> HIDE DEF T
            <4> QED
                BY <2>1, <3>0, LeastNumber
        <3>2. n \in 0..N /\ ~Kept(n)
            OBVIOUS
        <3> HIDE DEF Kept
        <3>3. n # 0
            BY <1>3, <3>2
        <3>4. n \in 1..N /\ n - 1 \in 0..N /\ ~(n <= n - 1)
            BY <1>1, <3>2, <3>3
        <3>5. Kept(n - 1)
            BY <3>1, <3>4
        <3> QED
            BY <1>4, <3>2, <3>4, <3>5
    <2> QED
        BY <2>1
<1>6. Kept(N) /\ done(N) = last
    <2>1. N \in 0..N /\ N # 0
        BY <1>1
    <2>2. Kept(N)
        BY <1>5, <2>1
    <2> QED
        BY <2>1, <2>2 DEF Listing, N
<1> DEFINE s == state[N]
<1>7. /\ LoopInv(s, first, last, bytes)
      /\ s.hold.end # -1 => s.hold.start <= found[N].start
      /\ found[N].start <= last
    <2>1. found[N].start <= last
        BY <1>1 DEF Listing, N
    <2> QED
        BY <1>1, <1>6, <2>1
<1>8. Resize(found, first, first) = s.saved \o Rest(s)
    BY DEF Resize, state, N
<1> HIDE DEF s
<1>9. s.hold \in ByteRange /\ s.hold.start \in Nat /\ s.hold.end \in Int
    BY <1>7 DEF LoopInv, LoopState, ByteRange
<1>10. \/ Saved(Rest(s), s.hold.start, last, bytes)
       \/ Saved(Rest(s), s.hold.start, last - 1, bytes) /\ found[N].start = last
    <2>1. CASE s.hold.end = -1
        <3>1. Rest(s) = <<>> /\ last = s.hold.start - 1
            BY <1>7, <1>9, <2>1 DEF Rest, LoopInv
        <3> QED
            BY <1>9, <3>1, SavedNothing
    <2>2. CASE s.hold.end # -1 /\ s.hold.start < last
        <3>1. s.hold.end = last /\ s.hold.start < last
            BY <1>7, <2>2 DEF LoopInv
        <3>2. Rest(s) = Split(s.hold)
            BY <1>9, <3>1 DEF Rest
        <3>3. s.hold.end >= s.hold.start - 1
            BY <1>9, <3>1
        <3>4. s.hold.data \/ NoneIn(bytes, s.hold.start, s.hold.end)
            BY <1>7 DEF LoopInv
        <3> QED
            BY <1>9, <3>1, <3>2, <3>3, <3>4, SavedSplit
    <2>3. CASE s.hold.end # -1 /\ ~(s.hold.start < last)
        <3>1. s.hold.end = last /\ s.hold.start <= last
            BY <1>7, <2>3 DEF LoopInv
        <3>2. s.hold.start = last /\ found[N].start = last
            BY <1>1, <1>7, <1>9, <2>3, <3>1
        <3>3. Rest(s) = <<>>
            BY <1>9, <3>1, <3>2 DEF Rest
        <3> QED
            BY <1>9, <3>2, <3>3, SavedNothing
    <2> QED
        BY <2>1, <2>2, <2>3
<1> DEFINE x == s.hold.start - 1
           y == last - 1
<1>11. /\ x \in Int /\ y \in Int /\ x + 1 = s.hold.start
       /\ Saved(s.saved, first, x, bytes)
    BY <1>7, <1>9 DEF LoopInv
<1>12. Saved(Rest(s), x + 1, last, bytes) \/ (Saved(Rest(s), x + 1, y, bytes) /\ found[N].start = last)
    BY <1>10, <1>11
<1> HIDE DEF x, y
<1>13. \/ Saved(s.saved \o Rest(s), first, last, bytes)
       \/ Saved(s.saved \o Rest(s), first, y, bytes) /\ found[N].start = last
    BY <1>11, <1>12, SavedConcat
<1> QED
    BY <1>8, <1>13 DEF N, y

-----------------------------------------------------------------------------
(* Sorted lists the elements of a finite set of numbers in order: each      *)
(* number of smaller elements is that of one element.                       *)
LEMMA SortedLists ==
    ASSUME NEW S \in SUBSET Int, IsFiniteSet(S)
    PROVE  /\ Sorted(S) \in Seq(S)
           /\ \A m, n \in 1..Len(Sorted(S)) : m < n => Sorted(S)[m] < Sorted(S)[n]
           /\ \A i \in S : \E n \in 1..Len(Sorted(S)) : Sorted(S)[n] = i
<1> DEFINE Below(i) == {j \in S : j < i}
           C == Cardinality(S)
           rank == [i \in S |-> Cardinality(Below(i))]
           t == Sorted(S)
<1>0. \A i \in S : i \in Int
    OBVIOUS
<1>1. C \in Nat
    BY FS_CardinalityType
<1>2. ASSUME NEW i \in S
      PROVE  IsFiniteSet(Below(i)) /\ Cardinality(Below(i)) \in 0..(C - 1)
    <2>1. /\ IsFiniteSet(S \ {i}) /\ Cardinality(S \ {i}) = C - 1
        BY FS_RemoveElement
    <2>2. Below(i) \in SUBSET (S \ {i})
        OBVIOUS
    <2>3. IsFiniteSet(Below(i)) /\ Cardinality(Below(i)) <= C - 1
        BY <2>1, <2>2, FS_Subset
    <2>4. Cardinality(Below(i)) \in Nat
        BY <2>3, FS_CardinalityType
    <2> QED
        BY <1>1, <2>3, <2>4
<1>3. ASSUME NEW i \in S, NEW k \in S, i < k
      PROVE  Cardinality(Below(i)) < Cardinality(Below(k))
    <2>1. Below(i) \in SUBSET Below(k) /\ i \in Below(k) /\ i \notin Below(i)
        <3>1. i \in Int /\ k \in Int
            BY <1>0
        <3>2. ASSUME NEW j \in Below(i) PROVE j \in Below(k)
            <4>1. j \in Int /\ j < i
                BY <1>0
            <4> QED
                BY <1>3, <3>1, <4>1
        <3>3. i \in Below(k) /\ i \notin Below(i)
            BY <1>3, <3>1
        <3> HIDE DEF Below
        <3> QED
            BY <3>2, <3>3
    <2> DEFINE A == Below(i)
               B == Below(k)
    <2>2. A \in SUBSET B /\ A # B /\ IsFiniteSet(B)
        BY <1>2, <2>1
    <2>3. Cardinality(A) \in Int /\ Cardinality(B) \in Int
        BY <1>1, <1>2
    <2> HIDE DEF A, B
    <2>4. Cardinality(A) <= Cardinality(B) /\ Cardinality(A) # Cardinality(B)
        BY <2>2, FS_Subset
    <2>5. Cardinality(A) < Cardinality(B)
        BY <2>3, <2>4
    <2> QED
        BY <2>5 DEF A, B
<1>4. \A i \in S : rank[i] = Cardinality(Below(i)) /\ rank[i] \in 0..(C - 1)
    BY <1>2
<1>5. \A i, k \in S : i < k => rank[i] < rank[k]
    BY <1>3
<1>6. rank \in [S -> 0..(C - 1)]
    BY <1>2
<1>r. \A i \in S : rank[i] \in Int
    <2> HIDE DEF rank
    <2> QED
        BY <1>1, <1>6
<1> HIDE DEF rank
<1>7. rank \in Injection(S, 0..(C - 1))
    <2>1. ASSUME NEW i \in S, NEW k \in S, rank[i] = rank[k] PROVE i = k
        <3>1. rank[i] \in Int /\ ~(i < k) /\ ~(k < i)
            BY <1>r, <1>5, <2>1
        <3> QED
            BY <1>0, <3>1
    <2> QED
        BY <1>6, <2>1 DEF Injection, IsInjective
<1>8. IsFiniteSet(0..(C - 1)) /\ Cardinality(0..(C - 1)) = C
    <2>1. /\ IsFiniteSet(0..(C - 1))
          /\ Cardinality(0..(C - 1)) = IF 0 > C - 1 THEN 0 ELSE (C - 1) - 0 + 1
        <3> DEFINE last == C - 1
        <3>1. 0 \in Int /\ last \in Int
            BY <1>1
        <3> HIDE DEF last
        <3>2. /\ IsFiniteSet(0..last)
              /\ Cardinality(0..last) = IF 0 > last THEN 0 ELSE last - 0 + 1
            BY <3>1, FS_Interval, Zenon
        <3> QED
            BY <3>2 DEF last
    <2> QED
        BY <1>1, <2>1
<1>9. rank \in Surjection(S, 0..(C - 1))
    BY <1>7, <1>8, FS_Injection
<1>10. \A m \in 0..(C - 1) : \E i \in S : rank[i] = m
    BY <1>9 DEF Surjection
<1>11. ASSUME NEW n \in 1..C PROVE t[n] \in S /\ rank[t[n]] = n - 1
    <2>1. t[n] = CHOOSE i \in S : Cardinality(Below(i)) = n - 1
        BY DEF Sorted
    <2>2. PICK i \in S : rank[i] = n - 1
        BY <1>1, <1>10
    <2>3. \E k \in S : Cardinality(Below(k)) = n - 1
        BY <1>4, <2>2
    <2> QED
        BY <1>4, <2>1, <2>3
<1>12. t \in [1..C -> S]
    <2> DEFINE e(n) == CHOOSE i \in S : Cardinality(Below(i)) = n - 1
    <2>1. t = [n \in 1..C |-> e(n)]
        BY DEF Sorted
    <2>2. \A n \in 1..C : e(n) \in S
        BY <1>11, <2>1
    <2> HIDE DEF e, t
    <2> QED
        BY <2>1, <2>2
<1>13. t \in Seq(S) /\ Len(t) = C
    <2>1. t \in Seq(S)
        BY <1>1, <1>12, SeqDef
    <2> QED
        BY <1>1, <1>12, <2>1, LenProperties
<1> HIDE DEF t
<1>14. ASSUME NEW m \in 1..C, NEW n \in 1..C, m < n PROVE t[m] < t[n]
    <2>1. t[m] \in S /\ t[n] \in S /\ rank[t[m]] < rank[t[n]]
        BY <1>1, <1>11, <1>14
    <2>2. rank[t[m]] \in Int /\ rank[t[n]] \in Int
        BY <1>r, <2>1
    <2>3. t[m] \in Int /\ t[n] \in Int
        BY <1>0, <2>1
    <2>4. ASSUME t[n] < t[m] PROVE FALSE
        <3>1. rank[t[n]] < rank[t[m]]
            BY <1>5, <2>1, <2>4, Zenon
        <3> QED
            BY <2>1, <2>2, <3>1
    <2>5. t[m] # t[n]
        BY <2>1, <2>2
    <2> QED
        BY <2>3, <2>4, <2>5
<1>15. ASSUME NEW i \in S PROVE \E n \in 1..C : t[n] = i
    <2> DEFINE n == rank[i] + 1
    <2>0. rank[i] \in 0..(C - 1)
        BY <1>4
    <2>1. n \in 1..C /\ n - 1 = rank[i]
        BY <1>1, <2>0
    <2> HIDE DEF n
    <2>2. t[n] \in S /\ rank[t[n]] = rank[i]
        BY <1>11, <2>1
    <2>3. t[n] = i
        BY <1>7, <2>2 DEF Injection, IsInjective
    <2> QED
        BY <2>1, <2>3
<1> QED
    BY <1>13, <1>14, <1>15 DEF t

(* Nothing lies between two neighbours, nor outside of the first and last.  *)
LEMMA SortedNeighbours ==
    ASSUME NEW S \in SUBSET Int, IsFiniteSet(S), NEW t, t = Sorted(S)
    PROVE  /\ t \in Seq(S) /\ Len(t) \in Nat
           /\ \A n \in 1..Len(t) : t[n] \in S
           /\ \A n \in 1..(Len(t) - 1) :
                 t[n] < t[n + 1] /\ \A i \in S : i <= t[n] \/ t[n + 1] <= i
           /\ S # {} => /\ Len(t) >= 1
                        /\ \A i \in S : t[1] <= i /\ i <= t[Len(t)]
           /\ S = {} => t = <<>>
<1>1. /\ t \in Seq(S)
      /\ \A m, n \in 1..Len(t) : m < n => t[m] < t[n]
      /\ \A i \in S : \E n \in 1..Len(t) : t[n] = i
    BY SortedLists
<1>2. Len(t) \in Nat /\ \A n \in 1..Len(t) : t[n] \in S /\ t[n] \in Int
    BY <1>1, ElementOfSeq, LenProperties
<1>3. ASSUME NEW n \in 1..(Len(t) - 1)
      PROVE  t[n] < t[n + 1] /\ \A i \in S : i <= t[n] \/ t[n + 1] <= i
    <2>1. n \in 1..Len(t) /\ n + 1 \in 1..Len(t) /\ n < n + 1
        BY <1>2
    <2>2. ASSUME NEW i \in S PROVE i <= t[n] \/ t[n + 1] <= i
        <3>1. PICK k \in 1..Len(t) : t[k] = i
            BY <1>1
        <3>2. CASE k <= n
            BY <1>1, <1>2, <2>1, <3>1, <3>2
        <3>3. CASE k > n
            BY <1>1, <1>2, <2>1, <3>1, <3>3
        <3> QED
            BY <3>2, <3>3
    <2> QED
        BY <1>1, <2>1, <2>2
<1>4. ASSUME S # {}
      PROVE  Len(t) >= 1 /\ \A i \in S : t[1] <= i /\ i <= t[Len(t)]
    <2>1. Len(t) >= 1
        <3>1. PICK i \in S : TRUE
            BY <1>4
        <3>2. PICK n \in 1..Len(t) : t[n] = i
            BY <1>1
        <3> QED
            BY <1>2, <3>2
    <2>2. ASSUME NEW i \in S PROVE t[1] <= i /\ i <= t[Len(t)]
        <3>1. PICK k \in 1..Len(t) : t[k] = i
            BY <1>1
        <3> QED
            BY <1>1, <1>2, <2>1, <3>1
    <2> QED
        BY <2>1, <2>2
<1>5. S = {} => t = <<>>
    <2>1. S = {} => Len(t) = 0
        BY <1>2
    <2> QED
        BY <1>1, <2>1, EmptySeq
<1> QED
    BY <1>1, <1>2, <1>3, <1>4, <1>5
=============================================================================
