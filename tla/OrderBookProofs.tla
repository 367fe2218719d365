--------------------------- MODULE OrderBookProofs ---------------------------
(***************************************************************************)
(* The order book over each of the maps of HashMap.hpp, for every set of    *)
(* ids, prices and quantities, every number of levels and every size of the *)
(* table: the maps keep exactly the orders of the book, the levels hold     *)
(* what their orders add up to, and the best index is at the best of them.  *)
(***************************************************************************)
EXTENDS OrderBook, CommonLemmas, FiniteSetTheorems

-----------------------------------------------------------------------------
(***************************************************************************)
(* Numbers and cells.                                                       *)
(***************************************************************************)
\* Min is the least number of a set.
LEMMA MinIsLeast ==
    ASSUME NEW T \in SUBSET Nat, T # {}
    PROVE  Min(T) \in T /\ \A y \in T : Min(T) <= y
<1>1. \E x \in T : \A y \in T : x <= y
    BY LeastNat
<1> QED  BY <1>1, Zenon DEF Min

\* The tables have cells.
LEMMA BucketsPositive == InitBuckets \in Nat \ {0}
BY BucketsAssumption

\* A key has a bucket.
LEMMA BucketOf ==
    ASSUME NEW k \in Ids
    PROVE  IndexOf(k, InitBuckets) \in Buckets
<1>1. k \in Nat
    BY IdsAssumption
<1>2. k % InitBuckets \in 0 .. InitBuckets - 1
    BY <1>1, BucketsPositive, CellInRing
<1> QED  BY <1>2 DEF IndexOf, Buckets

-----------------------------------------------------------------------------
(***************************************************************************)
(* ChainingHashMap.                                                         *)
(***************************************************************************)
\* The nodes of a map from ids to pointers; the pointer of an id is the id.
Pairs == [key : Ids, value : Ids \union {NoValue}]

\* The first node with the key, as the loops over a bucket find it.
LEMMA ChainingLoop ==
    ASSUME NEW m, NEW k, ChainingBucket(m, k) \in Seq(Pairs)
    PROVE  \/ /\ ChainingFind(m, k) \in 1 .. Len(ChainingBucket(m, k))
              /\ ChainingBucket(m, k)[ChainingFind(m, k)].key = k
           \/ /\ ChainingFind(m, k) = 0
              /\ \A i \in 1 .. Len(ChainingBucket(m, k)) : ChainingBucket(m, k)[i].key # k
<1> DEFINE list == ChainingBucket(m, k)
           I == {i \in 1 .. Len(list) : list[i].key = k}
<1>1. ChainingFind(m, k) = IF I # {} THEN Min(I) ELSE 0
    BY Zenon DEF SelectInSeq, ChainingFind
<1>2. I \in SUBSET Nat
    OBVIOUS
<1>3. CASE I # {}
    <2>1. ChainingFind(m, k) \in I
        BY <1>1, <1>2, <1>3, MinIsLeast
    <2> QED  BY <2>1
<1>4. CASE I = {}
    BY <1>1, <1>4
<1> QED  BY <1>3, <1>4

\* A bucket of the keys K: each once, with its own pointer.
BucketOK(list, K) ==
    /\ list \in Seq(Pairs)
    /\ \A i \in 1 .. Len(list) : list[i].key \in K /\ list[i].value = list[i].key
    /\ \A i, j \in 1 .. Len(list) : list[i].key = list[j].key => i = j
    /\ \A k \in K : \E i \in 1 .. Len(list) : list[i].key = k

\* The keys of S that fall into bucket b.
KeysIn(S, b) == {k \in S : IndexOf(k, InitBuckets) = b}

\* m holds the keys of S.
ChainingOK(m, S) ==
    /\ m \in [kind : {"chaining"}, table : [Buckets -> Seq(Pairs)]]
    /\ \A b \in Buckets : BucketOK(m.table[b], KeysIn(S, b))

\* find() and contains() of a ChainingHashMap.
LEMMA ChainingFinds ==
    ASSUME NEW S \in SUBSET Ids, NEW m, ChainingOK(m, S), NEW k \in Ids
    PROVE  /\ k \in S => /\ ChainingFind(m, k) \in 1 .. Len(ChainingBucket(m, k))
                         /\ ChainingBucket(m, k)[ChainingFind(m, k)].key = k
                         /\ ChainingBucket(m, k)[ChainingFind(m, k)].value = k
           /\ k \notin S => ChainingFind(m, k) = 0
<1> DEFINE b == IndexOf(k, InitBuckets)
           list == ChainingBucket(m, k)
<1>1. b \in Buckets
    BY BucketOf
<1>2. BucketOK(list, KeysIn(S, b))
    BY <1>1 DEF ChainingOK, ChainingBucket
<1>3. \/ ChainingFind(m, k) \in 1 .. Len(list) /\ list[ChainingFind(m, k)].key = k
      \/ ChainingFind(m, k) = 0 /\ \A i \in 1 .. Len(list) : list[i].key # k
    <2>1. list \in Seq(Pairs)
        BY <1>2 DEF BucketOK
    <2> QED  BY <2>1, ChainingLoop
<1> HIDE DEF list
<1>4. k \in S <=> k \in KeysIn(S, b)
    BY DEF KeysIn
<1>5. CASE k \in S
    <2>1. \E i \in 1 .. Len(list) : list[i].key = k
        BY <1>2, <1>4, <1>5 DEF BucketOK
    <2>2. ChainingFind(m, k) \in 1 .. Len(list) /\ list[ChainingFind(m, k)].key = k
        BY <1>3, <2>1
    <2>3. list[ChainingFind(m, k)].value = k
        BY <1>2, <2>2 DEF BucketOK
    <2> QED  BY <1>5, <2>2, <2>3 DEF list
<1>6. CASE k \notin S
    <2>1. \A i \in 1 .. Len(list) : list[i].key # k
        BY <1>2, <1>4, <1>6 DEF BucketOK
    <2>2. ChainingFind(m, k) = 0
        BY <1>3, <2>1
    <2> QED  BY <1>6, <2>2
<1> QED  BY <1>5, <1>6

\* A new key at the end of its bucket.
LEMMA BucketGrows ==
    ASSUME NEW K \in SUBSET Ids, NEW list, BucketOK(list, K), NEW k \in Ids \ K
    PROVE  BucketOK(Append(list, [key |-> k, value |-> k]), K \union {k})
<1> DEFINE node == [key |-> k, value |-> k]
           new == Append(list, node)
<1>1. node \in Pairs /\ node.key = k /\ node.value = k
    BY DEF Pairs
<1>2. list \in Seq(Pairs) /\ Len(list) \in Nat
    BY LenProperties DEF BucketOK
<1> HIDE DEF node
<1>3. /\ new \in Seq(Pairs) /\ Len(new) = Len(list) + 1
      /\ \A i \in 1 .. Len(list) : new[i] = list[i]
      /\ new[Len(list) + 1] = node
    BY <1>1, <1>2, AppendProperties
<1> HIDE DEF new
<1>4. \A i \in 1 .. Len(new) : i \in 1 .. Len(list) \/ i = Len(list) + 1
    BY <1>2, <1>3
<1>5. \A i \in 1 .. Len(new) : new[i].key \in K \union {k} /\ new[i].value = new[i].key
    BY <1>1, <1>3, <1>4 DEF BucketOK
<1>6. \A i, j \in 1 .. Len(new) : new[i].key = new[j].key => i = j
    BY <1>1, <1>3, <1>4 DEF BucketOK
<1>7. ASSUME NEW l \in K \union {k} PROVE \E i \in 1 .. Len(new) : new[i].key = l
    <2>1. CASE l = k
        <3>1. Len(list) + 1 \in 1 .. Len(new)
            BY <1>2, <1>3
        <3> QED  BY <1>1, <1>3, <2>1, <3>1
    <2>2. CASE l \in K
        <3>1. PICK i \in 1 .. Len(list) : list[i].key = l
            BY <2>2 DEF BucketOK
        <3>2. i \in 1 .. Len(new)
            BY <1>2, <1>3
        <3> QED  BY <1>3, <3>1, <3>2
    <2> QED  BY <2>1, <2>2
<1>8. BucketOK(new, K \union {k})
    BY <1>3, <1>5, <1>6, <1>7 DEF BucketOK
<1> QED  BY <1>8 DEF new, node

\* What remove() leaves, node by node.
IsKept(kept, list, k) ==
    /\ kept \in [0 .. Len(list) -> Seq(Pairs)]
    /\ kept[0] = <<>>
    /\ \A i \in 1 .. Len(list) :
          kept[i] = IF list[i].key = k THEN kept[i - 1] ELSE Append(kept[i - 1], list[i])

\* The recursion of WithoutKey is well-founded.
LEMMA WithoutKeySteps ==
    ASSUME NEW list \in Seq(Pairs), NEW k
    PROVE  \E kept : IsKept(kept, list, k) /\ WithoutKey(list, k) = kept[Len(list)]
<1> DEFINE N == Len(list)
           X == Seq(Pairs)
           g == [i \in 1 .. N |->
                    [x \in X |-> IF list[i].key = k THEN x ELSE Append(x, list[i])]]
           Def(f) == [i \in 0 .. N |->
                        IF i = 0 THEN <<>>
                        ELSE IF list[i].key = k THEN f[i - 1]
                             ELSE Append(f[i - 1], list[i])]
           kept == CHOOSE f : f = Def(f)
<1>1. N \in Nat /\ <<>> \in X
    BY LenProperties, EmptySeq
<1>2. g \in [1 .. N -> [X -> X]]
    <2>1. \A i \in 1 .. N : list[i] \in Pairs
        BY ElementOfSeq
    <2>2. \A i \in 1 .. N, x \in X : Append(x, list[i]) \in X
        BY <2>1, AppendProperties
    <2> HIDE DEF X
    <2>3. \A i \in 1 .. N : [x \in X |-> IF list[i].key = k THEN x
                                        ELSE Append(x, list[i])] \in [X -> X]
        BY <2>2
    <2> QED  BY <2>3
<1>3. \A i \in 1 .. N, x \in X :
         g[i][x] = IF list[i].key = k THEN x ELSE Append(x, list[i])
    BY Zenon
<1> HIDE DEF g, X
<1>4. PICK f : GoesBy(f, g, <<>>, N, X)
    BY <1>1, <1>2, RecursiveFunction
<1>5. f = Def(f)
    <2>0. f \in [0 .. N -> X] /\ f[0] = <<>> /\ \A i \in 1 .. N : f[i] = g[i][f[i - 1]]
        BY <1>4 DEF GoesBy
    <2>1. \A i \in 1 .. N : i - 1 \in 0 .. N /\ f[i - 1] \in X
        BY <1>1, <2>0
    <2>2. \A i \in 1 .. N : f[i] = IF list[i].key = k THEN f[i - 1]
                                   ELSE Append(f[i - 1], list[i])
        BY <1>3, <2>0, <2>1
    <2>3. \A i \in 0 .. N : f[i] = Def(f)[i]
        <3>1. ASSUME NEW i \in 0 .. N PROVE f[i] = Def(f)[i]
            <4>1. CASE i = 0
                BY <2>0, <4>1
            <4>2. CASE i # 0
                <5>1. i \in 1 .. N
                    BY <1>1, <4>2
                <5> QED  BY <2>2, <4>2, <5>1
            <4> QED  BY <4>1, <4>2
        <3> QED  BY <3>1
    <2> QED  BY <2>0, <2>3
<1>6. kept = Def(kept)
    BY <1>5, Zenon
<1>7. WithoutKey(list, k) = kept[N]
    BY Zenon DEF WithoutKey
<1> HIDE DEF kept
<1>8. /\ kept[0] = <<>>
      /\ \A i \in 1 .. N : kept[i] = IF list[i].key = k THEN kept[i - 1]
                                      ELSE Append(kept[i - 1], list[i])
    <2>1. \A i \in 0 .. N : kept[i] = Def(kept)[i]
        BY <1>6, Zenon
    <2>2. 0 \in 0 .. N /\ \A i \in 1 .. N : i \in 0 .. N /\ i # 0
        BY <1>1
    <2> QED  BY <2>1, <2>2
<1>9. \A i \in 1 .. N : kept[i - 1] \in X => kept[i] = g[i][kept[i - 1]]
    BY <1>3, <1>8
<1>10. \A i \in 0 .. N : kept[i] \in X
    BY <1>1, <1>2, <1>8, <1>9, RecursiveType
<1>11. kept \in [0 .. N -> X]
    BY <1>6, <1>10
<1>12. IsKept(kept, list, k)
    BY <1>8, <1>11 DEF X, IsKept
<1> QED  BY <1>7, <1>12

\* remove() leaves the other keys of a bucket.
LEMMA BucketShrinks ==
    ASSUME NEW K \in SUBSET Ids, NEW list, BucketOK(list, K), NEW k
    PROVE  BucketOK(WithoutKey(list, k), K \ {k})
<1> DEFINE N == Len(list)
           Seen(n) == {list[i].key : i \in 1 .. n} \ {k}
<1>1. list \in Seq(Pairs) /\ N \in Nat
    BY LenProperties DEF BucketOK
<1>0. PICK kept : IsKept(kept, list, k) /\ WithoutKey(list, k) = kept[N]
    BY <1>1, WithoutKeySteps
<1>2. /\ kept[0] = <<>>
      /\ \A i \in 1 .. N : kept[i] = IF list[i].key = k THEN kept[i - 1]
                                     ELSE Append(kept[i - 1], list[i])
    BY <1>0 DEF IsKept
<1> DEFINE T == {n \in 0 .. N : BucketOK(kept[n], Seen(n))}
<1>3. 0 \in T
    <2>1. Len(<<>>) = 0 /\ <<>> \in Seq(Pairs) /\ Seen(0) = {}
        BY EmptySeq
    <2>2. BucketOK(<<>>, {})
        BY <2>1 DEF BucketOK
    <2>3. 0 \in 0 .. N
        BY <1>1
    <2> QED  BY <1>2, <2>1, <2>2, <2>3
<1>4. ASSUME NEW n \in 0 .. N - 1, n \in T PROVE n + 1 \in T
    <2>1. n + 1 \in 1 .. N /\ (n + 1) - 1 = n /\ n + 1 \in 0 .. N
        BY <1>1
    <2>2. BucketOK(kept[n], Seen(n))
        BY <1>4
    <2>3. \A i \in 1 .. n + 1 : i \in 1 .. n \/ i = n + 1
        OBVIOUS
    <2>4. CASE list[n + 1].key = k
        <3>1. Seen(n + 1) = Seen(n)
            BY <2>3, <2>4
        <3>2. kept[n + 1] = kept[n]
            BY <1>2, <2>1, <2>4
        <3> QED  BY <2>1, <2>2, <3>1, <3>2
    <2>5. CASE list[n + 1].key # k
        <3> DEFINE l == list[n + 1].key
        <3>1. l \in K /\ list[n + 1].value = l /\ list[n + 1] \in Pairs
            BY <2>1, <1>1, ElementOfSeq DEF BucketOK
        <3>2. list[n + 1] = [key |-> l, value |-> l]
            BY <3>1 DEF Pairs
        <3>3. Seen(n + 1) = Seen(n) \union {l}
            BY <2>3, <2>5
        <3>4. l \notin Seen(n)
            <4>1. \A i \in 1 .. n : i \in 1 .. N /\ i # n + 1
                BY <1>1
            <4> QED  BY <2>1, <4>1 DEF BucketOK
        <3>5. Seen(n) \in SUBSET Ids
            <4>1. \A i \in 1 .. n : i \in 1 .. N
                BY <1>1
            <4> QED  BY <4>1 DEF BucketOK
        <3>6. kept[n + 1] = Append(kept[n], [key |-> l, value |-> l])
            BY <1>2, <2>1, <2>5, <3>2
        <3> HIDE DEF l, Seen
        <3>7. BucketOK(kept[n + 1], Seen(n) \union {l})
            BY <2>2, <3>1, <3>4, <3>5, <3>6, BucketGrows
        <3> QED  BY <2>1, <3>3, <3>7
    <2> QED  BY <2>4, <2>5
<1> HIDE DEF T
<1>5. \A n \in 0 .. N : n \in T
    BY <1>1, <1>3, <1>4, UpTo
<1>6. BucketOK(kept[N], Seen(N))
    <2>1. N \in T
        BY <1>1, <1>5
    <2> QED  BY <2>1, Zenon DEF T
<1>7. Seen(N) = K \ {k}
    <2>1. {list[i].key : i \in 1 .. N} = K
        <3>1. \A i \in 1 .. N : list[i].key \in K
            BY DEF BucketOK
        <3>2. \A l \in K : \E i \in 1 .. N : list[i].key = l
            BY DEF BucketOK
        <3> QED  BY <3>1, <3>2, Zenon
    <2> QED  BY <2>1, Zenon
<1> QED  BY <1>0, <1>6, <1>7

\* One bucket is replaced.
LEMMA ChainingReplace ==
    ASSUME NEW S \in SUBSET Ids, NEW T \in SUBSET Ids, NEW m, ChainingOK(m, S),
           NEW b \in Buckets, NEW list, BucketOK(list, KeysIn(T, b)),
           \A c \in Buckets \ {b} : KeysIn(T, c) = KeysIn(S, c)
    PROVE  ChainingOK([m EXCEPT !.table[b] = list], T)
<1> DEFINE new == [m EXCEPT !.table[b] = list]
<1>1. list \in Seq(Pairs)
    BY DEF BucketOK
<1>2. new \in [kind : {"chaining"}, table : [Buckets -> Seq(Pairs)]]
    BY <1>1 DEF ChainingOK
<1>3. \A c \in Buckets : new.table[c] = IF c = b THEN list ELSE m.table[c]
    BY DEF ChainingOK
<1> HIDE DEF new
<1>4. \A c \in Buckets : BucketOK(new.table[c], KeysIn(T, c))
    BY <1>3 DEF ChainingOK
<1>5. ChainingOK(new, T)
    BY <1>2, <1>4 DEF ChainingOK
<1> QED  BY <1>5 DEF new

\* A new map has no keys.
LEMMA ChainingInit == ChainingOK(ChainingEmpty, {})
<1>1. <<>> \in Seq(Pairs) /\ Len(<<>>) = 0
    BY EmptySeq
<1>2. ChainingEmpty \in [kind : {"chaining"}, table : [Buckets -> Seq(Pairs)]]
    BY <1>1 DEF ChainingEmpty
<1>3. \A b \in Buckets : ChainingEmpty.table[b] = <<>>
    BY DEF ChainingEmpty
<1>4. \A b : KeysIn({}, b) = {}
    BY DEF KeysIn
<1>5. BucketOK(<<>>, {})
    BY <1>1 DEF BucketOK
<1> QED  BY <1>2, <1>3, <1>4, <1>5 DEF ChainingOK

\* The keys of the buckets when one key comes or goes.
LEMMA KeysInChange ==
    ASSUME NEW S \in SUBSET Ids, NEW k \in Ids
    PROVE  LET b == IndexOf(k, InitBuckets)
           IN  /\ KeysIn(S \union {k}, b) = KeysIn(S, b) \union {k}
               /\ KeysIn(S \ {k}, b) = KeysIn(S, b) \ {k}
               /\ \A c \in Buckets \ {b} : /\ KeysIn(S \union {k}, c) = KeysIn(S, c)
                                           /\ KeysIn(S \ {k}, c) = KeysIn(S, c)
BY DEF KeysIn

\* erase() takes out its key.
LEMMA ChainingErases ==
    ASSUME NEW S \in SUBSET Ids, NEW m, ChainingOK(m, S), NEW k \in Ids
    PROVE  ChainingOK(ChainingErase(m, k), S \ {k})
<1> DEFINE b == IndexOf(k, InitBuckets)
<1>1. b \in Buckets
    BY BucketOf
<1>2. BucketOK(m.table[b], KeysIn(S, b)) /\ KeysIn(S, b) \in SUBSET Ids
    BY <1>1 DEF ChainingOK, KeysIn
<1>3. BucketOK(WithoutKey(m.table[b], k), KeysIn(S, b) \ {k})
    BY <1>2, BucketShrinks
<1>4. BucketOK(WithoutKey(m.table[b], k), KeysIn(S \ {k}, b))
    BY <1>3, KeysInChange
<1>5. ChainingErase(m, k) = [m EXCEPT !.table[b] = WithoutKey(m.table[b], k)]
    BY DEF ChainingErase
<1>6. \A c \in Buckets \ {b} : KeysIn(S \ {k}, c) = KeysIn(S, c)
    BY KeysInChange
<1> HIDE DEF b
<1> QED  BY <1>1, <1>4, <1>5, <1>6, ChainingReplace

\* insert() of a new key, and the same by operator[] and a store.
LEMMA ChainingPuts ==
    ASSUME NEW S \in SUBSET Ids, NEW m, ChainingOK(m, S), NEW k \in Ids \ S
    PROVE  /\ ChainingOK(ChainingPut(m, k, k), S \union {k})
           /\ ChainingPut(ChainingPut(m, k, NoValue), k, k) = ChainingPut(m, k, k)
<1> DEFINE b == IndexOf(k, InitBuckets)
           list == m.table[b]
           node == [key |-> k, value |-> k]
           blank == [key |-> k, value |-> NoValue]
           w == ChainingPut(m, k, NoValue)
<1>0. k \in Ids /\ S \union {k} \in SUBSET Ids
    OBVIOUS
<1>1. b \in Buckets
    BY BucketOf
<1>2. BucketOK(list, KeysIn(S, b)) /\ KeysIn(S, b) \in SUBSET Ids /\ k \notin KeysIn(S, b)
    BY <1>1 DEF ChainingOK, KeysIn
<1>3. ChainingFind(m, k) = 0
    BY ChainingFinds
<1>4. /\ ChainingPut(m, k, k) = [m EXCEPT !.table[b] = Append(list, node)]
      /\ w = [m EXCEPT !.table[b] = Append(list, blank)]
    BY <1>3 DEF ChainingPut
<1> HIDE DEF w
<1>5. ChainingOK(ChainingPut(m, k, k), S \union {k})
    <2>1. BucketOK(Append(list, node), KeysIn(S, b) \union {k})
        BY <1>2, BucketGrows
    <2>2. BucketOK(Append(list, node), KeysIn(S \union {k}, b))
        BY <2>1, KeysInChange
    <2>3. \A c \in Buckets \ {b} : KeysIn(S \union {k}, c) = KeysIn(S, c)
        BY <1>0, KeysInChange
    <2> DEFINE new == Append(list, node)
    <2>4. BucketOK(new, KeysIn(S \union {k}, b)) /\ ChainingPut(m, k, k) = [m EXCEPT !.table[b] = new]
        BY <1>4, <2>2
    <2> HIDE DEF b, new
    <2> QED  BY <1>0, <1>1, <2>3, <2>4, ChainingReplace
<1>6. ChainingPut(w, k, k) = ChainingPut(m, k, k)
    <2> DEFINE long == Append(list, blank)
               n == Len(list)
    <2>1. list \in Seq(Pairs) /\ n \in Nat /\ blank \in Pairs
        BY <1>2, LenProperties DEF BucketOK, Pairs
    <2>2. /\ long \in Seq(Pairs) /\ Len(long) = n + 1
          /\ \A i \in 1 .. n : long[i] = list[i]
          /\ long[n + 1] = blank
        BY <2>1, AppendProperties
    <2>3. m \in [kind : {"chaining"}, table : [Buckets -> Seq(Pairs)]]
        BY DEF ChainingOK
    <2>4. w.table[b] = long
        BY <1>1, <1>4, <2>3
    <2>5. ChainingBucket(w, k) = long
        BY <2>4 DEF ChainingBucket
    <2> HIDE DEF long
    <2>6. ChainingFind(w, k) = n + 1
        <3>1. \A i \in 1 .. n : long[i].key # k
            BY <1>2, <2>2 DEF BucketOK
        <3>2. \/ /\ ChainingFind(w, k) \in 1 .. Len(long)
                 /\ long[ChainingFind(w, k)].key = k
              \/ ChainingFind(w, k) = 0 /\ \A i \in 1 .. Len(long) : long[i].key # k
            BY <2>2, <2>5, ChainingLoop
        <3>3. n + 1 \in 1 .. Len(long) /\ long[n + 1].key = k
            BY <2>1, <2>2
        <3>4. \A i \in 1 .. n + 1 : i \in 1 .. n \/ i = n + 1
            BY <2>1
        <3> QED  BY <2>2, <3>1, <3>2, <3>3, <3>4
    <2>7. [long EXCEPT ![n + 1].value = k] = Append(list, node)
        <3> DEFINE l == [long EXCEPT ![n + 1].value = k]
                   a == Append(list, node)
        <3>1. /\ a \in Seq(Pairs) /\ Len(a) = n + 1
              /\ \A i \in 1 .. n : a[i] = list[i]
              /\ a[n + 1] = node
            <4>1. node \in Pairs
                BY DEF Pairs
            <4> QED  BY <2>1, <4>1, AppendProperties
        <3>2. /\ DOMAIN l = 1 .. n + 1
              /\ \A i \in 1 .. n : l[i] = list[i]
              /\ l[n + 1] = node
            <4>1. DOMAIN long = 1 .. n + 1
                BY <2>2, LenProperties
            <4>2. [blank EXCEPT !.value = k] = node
                OBVIOUS
            <4> HIDE DEF blank, node
            <4> QED  BY <2>1, <2>2, <4>1, <4>2
        <3>3. DOMAIN a = 1 .. n + 1
            BY <3>1, LenProperties
        <3>4. \A i \in 1 .. n + 1 : l[i] = a[i]
            <4>1. \A i \in 1 .. n + 1 : i \in 1 .. n \/ i = n + 1
                BY <2>1
            <4> HIDE DEF l, a
            <4> QED  BY <3>1, <3>2, <4>1
        <3>5. l = [i \in 1 .. n + 1 |-> l[i]] /\ a = [i \in 1 .. n + 1 |-> a[i]]
            <4>1. l = [i \in DOMAIN l |-> l[i]]
                BY <2>2
            <4>2. a = [i \in DOMAIN a |-> a[i]]
                <5> HIDE DEF a
                <5> QED  BY <3>1
            <4> HIDE DEF l, a
            <4> QED  BY <3>2, <3>3, <4>1, <4>2
        <3> HIDE DEF l, a
        <3> QED  BY <3>4, <3>5 DEF l, a
    <2>8. ChainingPut(w, k, k) = [w EXCEPT !.table[b][n + 1].value = k]
        BY <2>1, <2>6 DEF ChainingPut
    <2>9. [w EXCEPT !.table[b][n + 1].value = k]
             = [w EXCEPT !.table[b] = [long EXCEPT ![n + 1].value = k]]
        BY <2>4
    <2>10. [w EXCEPT !.table[b] = Append(list, node)] = [m EXCEPT !.table[b] = Append(list, node)]
        BY <1>1, <1>4, <2>3
    <2> QED  BY <1>4, <2>7, <2>8, <2>9, <2>10
<1> QED  BY <1>5, <1>6 DEF w

-----------------------------------------------------------------------------
(***************************************************************************)
(* FixedSizedChainingHashMap.                                               *)
(***************************************************************************)
\* A sequence without its element p.
LEMMA Removed ==
    ASSUME NEW X, NEW s \in Seq(X), NEW p \in 1 .. Len(s)
    PROVE  /\ RemoveAt(s, p) \in Seq(X)
           /\ Len(RemoveAt(s, p)) = Len(s) - 1
           /\ \A i \in 1 .. Len(s) - 1 : RemoveAt(s, p)[i] = IF i < p THEN s[i] ELSE s[i + 1]
<1> DEFINE a == SubSeq(s, 1, p - 1)
           c == SubSeq(s, p + 1, Len(s))
<1>0. Len(s) \in Nat /\ p \in Nat
    BY LenProperties
<1>1. /\ a \in Seq(X) /\ Len(a) = p - 1
      /\ \A i \in 1 .. p - 1 : a[i] = s[i]
    <2>1. \A i \in 1 .. p - 1 : i \in 1 .. Len(s)
        BY <1>0
    <2>2. 1 \in 1 .. Len(s) + 1 /\ p - 1 \in 0 .. Len(s) /\ 1 <= p
        BY <1>0
    <2> QED  BY <1>0, <2>1, <2>2, SubSeqProperties
<1>2. /\ c \in Seq(X) /\ Len(c) = Len(s) - p
      /\ \A i \in 1 .. Len(s) - p : c[i] = s[p + i]
    <2>1. \A i \in p + 1 .. Len(s) : i \in 1 .. Len(s)
        BY <1>0
    <2> QED  BY <1>0, <2>1, SubSeqProperties
<1>3. RemoveAt(s, p) = a \o c
    BY DEF RemoveAt
<1> HIDE DEF a, c
<1>4. /\ a \o c \in Seq(X) /\ Len(a \o c) = Len(a) + Len(c)
      /\ \A i \in 1 .. Len(a) + Len(c) :
            (a \o c)[i] = IF i <= Len(a) THEN a[i] ELSE c[i - Len(a)]
    BY <1>1, <1>2, ConcatProperties
<1>5. Len(a) + Len(c) = Len(s) - 1
    BY <1>0, <1>1, <1>2
<1>6. ASSUME NEW i \in 1 .. Len(s) - 1
      PROVE  (a \o c)[i] = IF i < p THEN s[i] ELSE s[i + 1]
    <2>1. CASE i < p
        <3>1. i \in 1 .. p - 1 /\ i <= Len(a)
            BY <1>0, <1>1, <2>1
        <3> QED  BY <1>1, <1>4, <1>5, <2>1, <3>1
    <2>2. CASE ~(i < p)
        <3>1. /\ ~(i <= Len(a)) /\ i - Len(a) \in 1 .. Len(s) - p
              /\ p + (i - Len(a)) = i + 1
            BY <1>0, <1>1, <2>2
        <3> QED  BY <1>2, <1>4, <1>5, <2>2, <3>1
    <2> QED  BY <2>1, <2>2
<1> QED  BY <1>3, <1>4, <1>5, <1>6

\* A bucket without the node at p.
LEMMA BucketCut ==
    ASSUME NEW K \in SUBSET Ids, NEW list, BucketOK(list, K), NEW p \in 1 .. Len(list)
    PROVE  BucketOK(RemoveAt(list, p), K \ {list[p].key})
<1> DEFINE new == RemoveAt(list, p)
           k == list[p].key
           N == Len(list)
           at(i) == IF i < p THEN i ELSE i + 1
<1>1. list \in Seq(Pairs) /\ N \in Nat /\ p \in 1 .. N
    BY LenProperties DEF BucketOK
<1>2. /\ new \in Seq(Pairs) /\ Len(new) = N - 1
      /\ \A i \in 1 .. N - 1 : new[i] = IF i < p THEN list[i] ELSE list[i + 1]
    BY <1>1, Removed
<1> HIDE DEF new
<1>3. \A i \in 1 .. N - 1 : new[i] = list[at(i)]
    BY <1>2
<1>4. \A i \in 1 .. N - 1 : at(i) \in 1 .. N /\ at(i) # p
    BY <1>1
<1>5. \A i, j \in 1 .. N - 1 : at(i) = at(j) => i = j
    BY <1>1
<1>6. \A l \in 1 .. N : l # p => \E i \in 1 .. N - 1 : at(i) = l
    <2>1. ASSUME NEW l \in 1 .. N, l # p PROVE \E i \in 1 .. N - 1 : at(i) = l
        <3>1. CASE l < p
            <4>1. l \in 1 .. N - 1 /\ at(l) = l
                BY <1>1, <3>1
            <4> QED  BY <4>1
        <3>2. CASE l > p
            <4>1. l - 1 \in 1 .. N - 1 /\ at(l - 1) = l
                BY <1>1, <3>2
            <4> QED  BY <4>1
        <3> QED  BY <1>1, <2>1, <3>1, <3>2
    <2> QED  BY <2>1
<1> HIDE DEF at, N
<1>7. \A i \in 1 .. N : list[i].key \in K /\ list[i].value = list[i].key
    BY DEF BucketOK, N
<1>8. \A i, j \in 1 .. N : list[i].key = list[j].key => i = j
    BY DEF BucketOK, N
<1>9. \A i \in 1 .. N - 1 : new[i].key \in K \ {k} /\ new[i].value = new[i].key
    BY <1>1, <1>3, <1>4, <1>7, <1>8
<1>10. \A i, j \in 1 .. N - 1 : new[i].key = new[j].key => i = j
    BY <1>3, <1>4, <1>5, <1>8
<1>11. \A x \in K \ {k} : \E i \in 1 .. N - 1 : new[i].key = x
    <2>1. ASSUME NEW x \in K \ {k} PROVE \E i \in 1 .. N - 1 : new[i].key = x
        <3>1. PICK l \in 1 .. N : list[l].key = x
            BY DEF BucketOK, N
        <3>2. PICK i \in 1 .. N - 1 : at(i) = l
            BY <1>6, <3>1
        <3> QED  BY <1>3, <3>1, <3>2
    <2> QED  BY <2>1
<1> QED  BY <1>2, <1>9, <1>10, <1>11 DEF BucketOK, new, N

\* The pairs in the nodes of a list.
InNodes(nodes, list) == [i \in 1 .. Len(list) |-> nodes[list[i]]]

\* What a node of the pool may hold: a key and a pointer, or nothing.
NodeStates == [key : Nat, value : Ids \union {NoValue}]

FixedMaps == [kind : {"fixed"}, buckets : [Buckets -> Seq(Nodes)],
              nodes : [Nodes -> NodeStates], free : Seq(Nodes)]

\* The node n is in the free stack, and in the bucket b.
IsFree(m, n)     == \E i \in 1 .. Len(m.free) : m.free[i] = n
IsLinked(m, n, b) == \E i \in 1 .. Len(m.buckets[b]) : m.buckets[b][i] = n

\* m holds the keys of S, and every node is at one place.
FixedOK(m, S) ==
    /\ m \in FixedMaps
    /\ \A b \in Buckets : BucketOK(InNodes(m.nodes, m.buckets[b]), KeysIn(S, b))
    /\ \A i, j \in 1 .. Len(m.free) : m.free[i] = m.free[j] => i = j
    /\ \A n \in Nodes, b \in Buckets : ~(IsFree(m, n) /\ IsLinked(m, n, b))
    /\ \A n \in Nodes : IsFree(m, n) \/ \E b \in Buckets : IsLinked(m, n, b)

\* The first node with the key, as the loops over a bucket find it.
LEMMA FixedLoop ==
    ASSUME NEW m, NEW k, FixedBucket(m, k) \in Seq(Nodes)
    PROVE  \/ /\ FixedFind(m, k) \in 1 .. Len(FixedBucket(m, k))
              /\ m.nodes[FixedBucket(m, k)[FixedFind(m, k)]].key = k
           \/ /\ FixedFind(m, k) = 0
              /\ \A i \in 1 .. Len(FixedBucket(m, k)) : m.nodes[FixedBucket(m, k)[i]].key # k
<1> DEFINE list == FixedBucket(m, k)
           I == {i \in 1 .. Len(list) : m.nodes[list[i]].key = k}
<1>1. FixedFind(m, k) = IF I # {} THEN Min(I) ELSE 0
    BY Zenon DEF SelectInSeq, FixedFind
<1>2. I \in SUBSET Nat
    OBVIOUS
<1>3. CASE I # {}
    <2>1. FixedFind(m, k) \in I
        BY <1>1, <1>2, <1>3, MinIsLeast
    <2> QED  BY <2>1
<1>4. CASE I = {}
    BY <1>1, <1>4
<1> QED  BY <1>3, <1>4

\* The nodes of a list as pairs.
LEMMA InNodesIs ==
    ASSUME NEW nodes, NEW list \in Seq(Nodes)
    PROVE  /\ Len(list) \in Nat
           /\ InNodes(nodes, list) \in Seq(Pairs) => Len(InNodes(nodes, list)) = Len(list)
           /\ \A i \in 1 .. Len(list) : InNodes(nodes, list)[i] = nodes[list[i]]
<1> DEFINE s == InNodes(nodes, list)
<1>1. Len(list) \in Nat
    BY LenProperties
<1>2. DOMAIN s = 1 .. Len(list) /\ \A i \in 1 .. Len(list) : s[i] = nodes[list[i]]
    BY DEF InNodes
<1>3. s \in Seq(Pairs) => Len(s) = Len(list)
    <2> HIDE DEF s
    <2>1. s \in Seq(Pairs) => DOMAIN s = 1 .. Len(s) /\ Len(s) \in Nat
        BY LenProperties
    <2> QED  BY <1>1, <1>2, <2>1
<1> QED  BY <1>1, <1>2, <1>3

\* find() and contains() of a FixedSizedChainingHashMap.
LEMMA FixedFinds ==
    ASSUME NEW S \in SUBSET Ids, NEW m, FixedOK(m, S), NEW k \in Ids
    PROVE  /\ k \in S => /\ FixedFind(m, k) \in 1 .. Len(FixedBucket(m, k))
                         /\ m.nodes[FixedBucket(m, k)[FixedFind(m, k)]].key = k
                         /\ m.nodes[FixedBucket(m, k)[FixedFind(m, k)]].value = k
           /\ k \notin S => FixedFind(m, k) = 0
<1> DEFINE b == IndexOf(k, InitBuckets)
           list == FixedBucket(m, k)
           pairs == InNodes(m.nodes, list)
           f == FixedFind(m, k)
<1>1. b \in Buckets
    BY BucketOf
<1>2. BucketOK(pairs, KeysIn(S, b)) /\ list \in Seq(Nodes)
    BY <1>1 DEF FixedOK, FixedBucket, FixedMaps
<1>3. \/ f \in 1 .. Len(list) /\ m.nodes[list[f]].key = k
      \/ f = 0 /\ \A i \in 1 .. Len(list) : m.nodes[list[i]].key # k
    BY <1>2, FixedLoop
<1>4. Len(pairs) = Len(list) /\ \A i \in 1 .. Len(list) : pairs[i] = m.nodes[list[i]]
    <2>1. pairs \in Seq(Pairs)
        BY <1>2 DEF BucketOK
    <2> QED  BY <1>2, <2>1, InNodesIs
<1> HIDE DEF list, pairs, f
<1>5. k \in S <=> k \in KeysIn(S, b)
    BY DEF KeysIn
<1>6. CASE k \in S
    <2>1. \E i \in 1 .. Len(list) : m.nodes[list[i]].key = k
        BY <1>2, <1>4, <1>5, <1>6 DEF BucketOK
    <2>2. f \in 1 .. Len(list) /\ m.nodes[list[f]].key = k
        BY <1>3, <2>1
    <2>3. m.nodes[list[f]].value = k
        BY <1>2, <1>4, <2>2 DEF BucketOK
    <2> QED  BY <1>6, <2>2, <2>3 DEF list, f
<1>7. CASE k \notin S
    <2>1. \A i \in 1 .. Len(list) : m.nodes[list[i]].key # k
        BY <1>2, <1>4, <1>5, <1>7 DEF BucketOK
    <2>2. f = 0
        BY <1>3, <2>1
    <2> QED  BY <1>7, <2>2 DEF f
<1> QED  BY <1>6, <1>7

\* A new map has no keys and all nodes free.
LEMMA FixedInit == FixedOK(FixedEmpty, {})
<1> DEFINE m == FixedEmpty
           N == InitBuckets * NodesPerBucket
<1>0. N \in Nat
    BY BucketsPositive, NodesAssumption
<1>1. /\ m.kind = "fixed" /\ m.buckets = [i \in Buckets |-> <<>>]
      /\ m.nodes = [n \in Nodes |-> [key |-> 0, value |-> NoValue]]
      /\ m.free = [i \in 1 .. N |-> i]
    BY DEF FixedEmpty
<1>2. m.free \in Seq(Nodes) /\ Len(m.free) = N /\ \A i \in 1 .. N : m.free[i] = i
    <2>1. \A i \in 1 .. N : i \in Nodes
        BY DEF Nodes
    <2> HIDE DEF N
    <2> QED  BY <1>0, <1>1, <2>1
<1>3. m \in FixedMaps
    <2>1. m.buckets \in [Buckets -> Seq(Nodes)]
        BY <1>1, EmptySeq
    <2>2. m.nodes \in [Nodes -> NodeStates]
        BY <1>1 DEF NodeStates
    <2>3. m = [kind |-> m.kind, buckets |-> m.buckets, nodes |-> m.nodes, free |-> m.free]
        BY DEF FixedEmpty
    <2> HIDE DEF m
    <2> QED  BY <1>1, <1>2, <2>1, <2>2, <2>3 DEF FixedMaps
<1> HIDE DEF m, N
<1>4. \A b \in Buckets : m.buckets[b] = <<>> /\ Len(m.buckets[b]) = 0
    BY <1>1, EmptySeq
<1>5. \A b \in Buckets : BucketOK(InNodes(m.nodes, m.buckets[b]), KeysIn({}, b))
    <2>1. InNodes(m.nodes, <<>>) = <<>> /\ <<>> \in Seq(Pairs) /\ Len(<<>>) = 0
        BY EmptySeq DEF InNodes
    <2>2. \A b : KeysIn({}, b) = {}
        BY DEF KeysIn
    <2>3. BucketOK(<<>>, {})
        BY <2>1 DEF BucketOK
    <2> QED  BY <1>4, <2>1, <2>2, <2>3
<1>6. \A n \in Nodes, b \in Buckets : ~IsLinked(m, n, b)
    BY <1>4 DEF IsLinked
<1>7. \A n \in Nodes : IsFree(m, n)
    BY <1>2 DEF IsFree, Nodes, N
<1>8. \A i, j \in 1 .. Len(m.free) : m.free[i] = m.free[j] => i = j
    BY <1>2
<1> QED  BY <1>3, <1>5, <1>6, <1>7, <1>8 DEF FixedOK, m

\* w is m with the top of the free stack filled and linked behind bucket b.
IsTaken(w, m, k, v, b, n) ==
    /\ b \in Buckets /\ n \in Nodes /\ IsFree(m, n)
    /\ w \in FixedMaps
    /\ w = [kind |-> "fixed", free |-> w.free,
            nodes |-> [m.nodes EXCEPT ![n] = [key |-> k, value |-> v]],
            buckets |-> [m.buckets EXCEPT ![b] = Append(m.buckets[b], n)]]
    /\ w.free = Front(m.free)
    /\ Len(m.free) \in Nat \ {0} /\ Len(w.free) = Len(m.free) - 1
    /\ n = m.free[Len(m.free)]
    /\ \A i \in 1 .. Len(w.free) : w.free[i] = m.free[i]

\* A node that is taken.
LEMMA FixedTakes ==
    ASSUME NEW S \in SUBSET Ids, NEW m, FixedOK(m, S), NEW k \in Ids, m.free # <<>>,
           NEW v \in Ids \union {NoValue}
    PROVE  IsTaken(FixedAppend(m, k, v), m, k, v, IndexOf(k, InitBuckets), Last(m.free))
<1> DEFINE b == IndexOf(k, InitBuckets)
           n == Last(m.free)
           L == Len(m.free)
           w == FixedAppend(m, k, v)
           node == [key |-> k, value |-> v]
<1>1. b \in Buckets
    BY BucketOf
<1>2. m \in FixedMaps
    BY DEF FixedOK
<1>3. /\ m.free \in Seq(Nodes) /\ m.nodes \in [Nodes -> NodeStates]
      /\ m.buckets \in [Buckets -> Seq(Nodes)] /\ m.kind = "fixed"
    BY <1>2 DEF FixedMaps
<1>4. L \in Nat \ {0}
    BY <1>3, EmptySeq, LenProperties
<1>5. n = m.free[L] /\ L \in 1 .. L /\ n \in Nodes
    <2>1. n = m.free[L]
        BY DEF Last
    <2>2. L \in 1 .. L
        BY <1>4
    <2> QED  BY <1>3, <2>1, <2>2, ElementOfSeq
<1>6. /\ Front(m.free) \in Seq(Nodes) /\ Len(Front(m.free)) = L - 1
      /\ \A i \in 1 .. L - 1 : Front(m.free)[i] = m.free[i]
    <2>1. \A i \in 1 .. L - 1 : i \in 1 .. L
        BY <1>4
    <2>2. Front(m.free) = SubSeq(m.free, 1, L - 1)
        BY DEF Front
    <2> QED  BY <1>3, <1>4, <2>1, <2>2, SubSeqProperties
<1>7. node \in NodeStates
    BY IdsAssumption DEF NodeStates
<1>8. Append(m.buckets[b], n) \in Seq(Nodes)
    BY <1>1, <1>3, <1>5, AppendProperties
<1> HIDE DEF node
<1>9. w = [kind |-> "fixed", free |-> Front(m.free),
           nodes |-> [m.nodes EXCEPT ![n] = node],
           buckets |-> [m.buckets EXCEPT ![b] = Append(m.buckets[b], n)]]
    <2>1. w = [m EXCEPT !.free = Front(m.free), !.nodes[n] = node,
                        !.buckets[b] = Append(m.buckets[b], n)]
        BY DEF FixedAppend, node
    <2> HIDE DEF w, n, b
    <2> QED  BY <1>2, <2>1 DEF FixedMaps
<1>10. IsFree(m, n)
    BY <1>5 DEF IsFree
<1> HIDE DEF w, n, b
<1>11. w.free = Front(m.free)
    BY <1>9
<1>12. w \in FixedMaps
    BY <1>1, <1>3, <1>5, <1>6, <1>7, <1>8, <1>9 DEF FixedMaps
<1>13. w = [kind |-> "fixed", free |-> w.free,
            nodes |-> [m.nodes EXCEPT ![n] = node],
            buckets |-> [m.buckets EXCEPT ![b] = Append(m.buckets[b], n)]]
    BY <1>9, <1>11
<1>14. IsTaken(w, m, k, v, b, n)
    BY <1>1, <1>4, <1>5, <1>6, <1>10, <1>11, <1>12, <1>13 DEF node, IsTaken
<1> QED  BY <1>14 DEF w, n, b

\* A list that does not have the node does not see what is written to it.
LEMMA InNodesElsewhere ==
    ASSUME NEW nodes \in [Nodes -> NodeStates], NEW list \in Seq(Nodes), NEW n \in Nodes,
           NEW node, \A i \in 1 .. Len(list) : list[i] # n
    PROVE  InNodes([nodes EXCEPT ![n] = node], list) = InNodes(nodes, list)
<1>1. \A i \in 1 .. Len(list) : list[i] \in Nodes
    BY ElementOfSeq
<1>2. \A i \in 1 .. Len(list) : [nodes EXCEPT ![n] = node][list[i]] = nodes[list[i]]
    BY <1>1
<1> QED  BY <1>2, Zenon DEF InNodes

\* The node that is linked behind a list.
LEMMA InNodesAppend ==
    ASSUME NEW nodes \in [Nodes -> NodeStates], NEW list \in Seq(Nodes), NEW n \in Nodes,
           NEW node \in Pairs, \A i \in 1 .. Len(list) : list[i] # n,
           InNodes(nodes, list) \in Seq(Pairs)
    PROVE  InNodes([nodes EXCEPT ![n] = node], Append(list, n))
              = Append(InNodes(nodes, list), node)
<1> DEFINE new == [nodes EXCEPT ![n] = node]
           l == Append(list, n)
           s == InNodes(nodes, list)
           a == Append(s, node)
           c == InNodes(new, l)
           N == Len(list)
<1>1. /\ N \in Nat /\ Len(s) = N
      /\ \A i \in 1 .. N : s[i] = nodes[list[i]] /\ list[i] \in Nodes
    BY InNodesIs, ElementOfSeq
<1>2. /\ l \in Seq(Nodes) /\ Len(l) = N + 1
      /\ \A i \in 1 .. N : l[i] = list[i]
      /\ l[N + 1] = n
    BY AppendProperties
<1>3. /\ a \in Seq(Pairs) /\ Len(a) = N + 1
      /\ \A i \in 1 .. N : a[i] = s[i]
      /\ a[N + 1] = node
    <2> HIDE DEF s, N
    <2>1. s \in Seq(Pairs)
        BY DEF s
    <2> QED  BY <1>1, <2>1, AppendProperties
<1>4. c = [i \in 1 .. N + 1 |-> new[l[i]]]
    BY <1>2, Zenon DEF InNodes
<1>5. a = [i \in 1 .. N + 1 |-> a[i]]
    <2> HIDE DEF a
    <2>1. DOMAIN a = 1 .. N + 1 /\ a = [i \in DOMAIN a |-> a[i]]
        BY <1>3, LenProperties
    <2> QED  BY <2>1
<1>6. \A i \in 1 .. N + 1 : new[l[i]] = a[i]
    <2>1. \A i \in 1 .. N + 1 : i \in 1 .. N \/ i = N + 1
        BY <1>1
    <2>2. new[n] = node
        OBVIOUS
    <2>3. \A x \in Nodes : x # n => new[x] = nodes[x]
        OBVIOUS
    <2> HIDE DEF new, l, a, s, N
    <2>4. \A i \in 1 .. N : new[l[i]] = a[i]
        <3>1. \A i \in 1 .. N : list[i] # n
            BY DEF N
        <3> QED  BY <1>1, <1>2, <1>3, <2>3, <3>1
    <2> QED  BY <1>2, <1>3, <2>1, <2>2, <2>4
<1> HIDE DEF new, l, a, s, c, N
<1>7. c = a
    BY <1>4, <1>5, <1>6
<1> QED  BY <1>7 DEF new, l, a, s, c, N

\* A new key takes a node.
LEMMA FixedAppends ==
    ASSUME NEW S \in SUBSET Ids, NEW m, FixedOK(m, S), NEW k \in Ids \ S, m.free # <<>>
    PROVE  FixedOK(FixedAppend(m, k, k), S \union {k})
<1> DEFINE b == IndexOf(k, InitBuckets)
           n == Last(m.free)
           w == FixedAppend(m, k, k)
           node == [key |-> k, value |-> k]
           L == Len(m.free)
<1>0. k \in Ids /\ k \in Ids \union {NoValue} /\ node \in Pairs
    BY DEF Pairs
<1>1. /\ b \in Buckets /\ n \in Nodes /\ IsFree(m, n) /\ w \in FixedMaps
      /\ w = [kind |-> "fixed", free |-> w.free,
              nodes |-> [m.nodes EXCEPT ![n] = node],
              buckets |-> [m.buckets EXCEPT ![b] = Append(m.buckets[b], n)]]
      /\ L \in Nat \ {0} /\ Len(w.free) = L - 1 /\ n = m.free[L]
      /\ \A i \in 1 .. Len(w.free) : w.free[i] = m.free[i]
    <2>1. IsTaken(w, m, k, k, b, n)
        BY <1>0, FixedTakes
    <2> QED  BY <2>1, Zenon DEF IsTaken
<1> HIDE DEF b, n, w, node, L
<1>2. /\ m.free \in Seq(Nodes) /\ m.nodes \in [Nodes -> NodeStates]
      /\ m.buckets \in [Buckets -> Seq(Nodes)]
    BY DEF FixedOK, FixedMaps
<1>3. w.nodes = [m.nodes EXCEPT ![n] = node]
    BY <1>1
<1>4. /\ w.buckets[b] = Append(m.buckets[b], n)
      /\ \A c \in Buckets \ {b} : w.buckets[c] = m.buckets[c]
    BY <1>1, <1>2
<1>5. \A c \in Buckets : \A i \in 1 .. Len(m.buckets[c]) : m.buckets[c][i] # n
    BY <1>1 DEF FixedOK, IsLinked
<1>6. BucketOK(InNodes(w.nodes, w.buckets[b]), KeysIn(S \union {k}, b))
    <2> DEFINE list == m.buckets[b]
    <2>1. BucketOK(InNodes(m.nodes, list), KeysIn(S, b)) /\ list \in Seq(Nodes)
        BY <1>1, <1>2 DEF FixedOK
    <2>2. KeysIn(S, b) \in SUBSET Ids /\ k \in Ids \ KeysIn(S, b)
        BY DEF KeysIn
    <2>3. InNodes(m.nodes, list) \in Seq(Pairs)
        BY <2>1 DEF BucketOK
    <2>4. \A i \in 1 .. Len(list) : list[i] # n
        BY <1>1, <1>5
    <2> HIDE DEF list
    <2>5. InNodes(w.nodes, Append(list, n)) = Append(InNodes(m.nodes, list), node)
        <3> DEFINE nodes == m.nodes
        <3>1. nodes \in [Nodes -> NodeStates] /\ InNodes(nodes, list) \in Seq(Pairs)
            BY <1>2, <2>3
        <3> HIDE DEF nodes
        <3>2. InNodes([nodes EXCEPT ![n] = node], Append(list, n))
                 = Append(InNodes(nodes, list), node)
            BY <1>0, <1>1, <2>1, <2>4, <3>1, InNodesAppend
        <3> QED  BY <1>3, <3>2 DEF nodes
    <2>6. BucketOK(Append(InNodes(m.nodes, list), node), KeysIn(S, b) \union {k})
        BY <2>1, <2>2, BucketGrows DEF node
    <2>7. KeysIn(S \union {k}, b) = KeysIn(S, b) \union {k}
        BY <1>0, KeysInChange DEF b
    <2> QED  BY <1>4, <2>5, <2>6, <2>7 DEF list
<1>7. ASSUME NEW c \in Buckets \ {b}
      PROVE  BucketOK(InNodes(w.nodes, w.buckets[c]), KeysIn(S \union {k}, c))
    <2>1. KeysIn(S \union {k}, c) = KeysIn(S, c)
        BY <1>0, KeysInChange DEF b
    <2>2. m.buckets[c] \in Seq(Nodes) /\ \A i \in 1 .. Len(m.buckets[c]) : m.buckets[c][i] # n
        BY <1>2, <1>5
    <2>3. InNodes(w.nodes, m.buckets[c]) = InNodes(m.nodes, m.buckets[c])
        <3> DEFINE nodes == m.nodes
                   list == m.buckets[c]
        <3>1. nodes \in [Nodes -> NodeStates] /\ list \in Seq(Nodes)
              /\ \A i \in 1 .. Len(list) : list[i] # n
            BY <1>2, <2>2
        <3> HIDE DEF nodes, list
        <3>2. InNodes([nodes EXCEPT ![n] = node], list) = InNodes(nodes, list)
            BY <1>1, <3>1, InNodesElsewhere
        <3> QED  BY <1>3, <3>2 DEF nodes, list
    <2>4. BucketOK(InNodes(m.nodes, m.buckets[c]), KeysIn(S, c))
        BY DEF FixedOK
    <2> QED  BY <1>4, <2>1, <2>3, <2>4
<1>8. \A i, j \in 1 .. Len(w.free) : w.free[i] = w.free[j] => i = j
    <2>1. \A i \in 1 .. Len(w.free) : i \in 1 .. L
        BY <1>1
    <2>2. \A i, j \in 1 .. L : m.free[i] = m.free[j] => i = j
        BY DEF FixedOK, L
    <2> QED  BY <1>1, <2>1, <2>2
<1>9. \A x \in Nodes : IsFree(w, x) <=> (IsFree(m, x) /\ x # n)
    <2>1. \A i \in 1 .. L : i \in 1 .. Len(w.free) \/ i = L
        BY <1>1
    <2>2. \A i \in 1 .. Len(w.free) : i \in 1 .. L /\ i # L
        BY <1>1
    <2>3. \A i, j \in 1 .. L : m.free[i] = m.free[j] => i = j
        BY DEF FixedOK, L
    <2>4. L \in 1 .. L
        BY <1>1
    <2> QED  BY <1>1, <2>1, <2>2, <2>3, <2>4 DEF IsFree, L
<1>10. /\ \A x \in Nodes : IsLinked(w, x, b) <=> IsLinked(m, x, b) \/ x = n
       /\ \A x \in Nodes, c \in Buckets \ {b} : IsLinked(w, x, c) <=> IsLinked(m, x, c)
    <2> DEFINE list == m.buckets[b]
    <2>1. list \in Seq(Nodes) /\ Len(list) \in Nat
        BY <1>1, <1>2, LenProperties
    <2> HIDE DEF list
    <2>2. /\ Len(Append(list, n)) = Len(list) + 1
          /\ \A i \in 1 .. Len(list) : Append(list, n)[i] = list[i]
          /\ Append(list, n)[Len(list) + 1] = n
        BY <1>1, <2>1, AppendProperties
    <2>3. \A i \in 1 .. Len(list) + 1 : i \in 1 .. Len(list) \/ i = Len(list) + 1
        BY <2>1
    <2>4. Len(list) + 1 \in 1 .. Len(list) + 1 /\ \A i \in 1 .. Len(list) : i \in 1 .. Len(list) + 1
        BY <2>1
    <2> DEFINE new == Append(list, n)
    <2>5. w.buckets[b] = new
        BY <1>4 DEF list
    <2> HIDE DEF new
    <2>6. \A x \in Nodes : (\E i \in 1 .. Len(new) : new[i] = x)
                             <=> (\E i \in 1 .. Len(list) : list[i] = x) \/ x = n
        BY <2>2, <2>3, <2>4 DEF new
    <2>7. \A x \in Nodes : IsLinked(w, x, b) <=> IsLinked(m, x, b) \/ x = n
        BY <2>5, <2>6 DEF IsLinked, list
    <2>8. \A x \in Nodes, c \in Buckets \ {b} : IsLinked(w, x, c) <=> IsLinked(m, x, c)
        BY <1>4 DEF IsLinked
    <2> QED  BY <2>7, <2>8
<1>11. \A x \in Nodes, c \in Buckets : ~(IsFree(w, x) /\ IsLinked(w, x, c))
    BY <1>9, <1>10 DEF FixedOK
<1>12. \A x \in Nodes : IsFree(w, x) \/ \E c \in Buckets : IsLinked(w, x, c)
    BY <1>1, <1>9, <1>10 DEF FixedOK
<1> QED  BY <1>1, <1>6, <1>7, <1>8, <1>11, <1>12 DEF FixedOK, w

\* operator[] of a new key and the store through its reference.
LEMMA FixedAssigns ==
    ASSUME NEW S \in SUBSET Ids, NEW m, FixedOK(m, S), NEW k \in Ids \ S, m.free # <<>>
    PROVE  LET w == FixedAppend(m, k, NoValue)
           IN  [w EXCEPT !.nodes[FixedBucket(w, k)[FixedFind(w, k)]].value = k]
                  = FixedAppend(m, k, k)
<1> DEFINE b == IndexOf(k, InitBuckets)
           n == Last(m.free)
           w == FixedAppend(m, k, NoValue)
           u == FixedAppend(m, k, k)
           node == [key |-> k, value |-> k]
           blank == [key |-> k, value |-> NoValue]
           list == m.buckets[b]
           new == Append(list, n)
<1>0. k \in Ids /\ k \in Ids \union {NoValue} /\ NoValue \in Ids \union {NoValue}
    OBVIOUS
<1>1. /\ b \in Buckets /\ n \in Nodes /\ IsFree(m, n)
      /\ w = [kind |-> "fixed", free |-> w.free,
              nodes |-> [m.nodes EXCEPT ![n] = blank],
              buckets |-> [m.buckets EXCEPT ![b] = new]]
      /\ w.free = Front(m.free)
    <2>1. IsTaken(w, m, k, NoValue, b, n)
        BY <1>0, FixedTakes
    <2> QED  BY <2>1, Zenon DEF IsTaken
<1>2. /\ u = [kind |-> "fixed", free |-> u.free,
              nodes |-> [m.nodes EXCEPT ![n] = node],
              buckets |-> [m.buckets EXCEPT ![b] = new]]
      /\ u.free = Front(m.free)
    <2>1. IsTaken(u, m, k, k, b, n)
        BY <1>0, FixedTakes
    <2> QED  BY <2>1, Zenon DEF IsTaken
<1> HIDE DEF b, n, w, u
<1>3. /\ m.nodes \in [Nodes -> NodeStates] /\ m.buckets \in [Buckets -> Seq(Nodes)]
      /\ list \in Seq(Nodes) /\ Len(list) \in Nat
    BY <1>1, LenProperties DEF FixedOK, FixedMaps
<1>4. FixedBucket(w, k) = new
    BY <1>1, <1>3 DEF FixedBucket, b
<1>5. /\ new \in Seq(Nodes) /\ Len(new) = Len(list) + 1
      /\ \A i \in 1 .. Len(list) : new[i] = list[i]
      /\ new[Len(list) + 1] = n
    BY <1>1, <1>3, AppendProperties
<1> HIDE DEF new
<1>6. FixedFind(w, k) = Len(list) + 1
    <2>1. w.nodes = [m.nodes EXCEPT ![n] = blank]
        BY <1>1
    <2>2. \A i \in 1 .. Len(list) : list[i] # n /\ list[i] \in Nodes
        BY <1>1, <1>3, ElementOfSeq DEF FixedOK, IsLinked
    <2>3. \A i \in 1 .. Len(list) : w.nodes[new[i]] = m.nodes[list[i]]
        BY <1>1, <1>3, <1>5, <2>1, <2>2
    <2>4. \A i \in 1 .. Len(list) : m.nodes[list[i]].key # k
        <3> DEFINE pairs == InNodes(m.nodes, list)
        <3>1. BucketOK(pairs, KeysIn(S, b)) /\ k \notin KeysIn(S, b)
            BY <1>1 DEF FixedOK, KeysIn
        <3>2. pairs \in Seq(Pairs)
            BY <3>1 DEF BucketOK
        <3>3. Len(pairs) = Len(list) /\ \A i \in 1 .. Len(list) : pairs[i] = m.nodes[list[i]]
            BY <1>3, <3>2, InNodesIs
        <3> HIDE DEF pairs
        <3> QED  BY <3>1, <3>3 DEF BucketOK
    <2>5. w.nodes[new[Len(list) + 1]].key = k
        BY <1>1, <1>3, <1>5, <2>1
    <2>6. \A i \in 1 .. Len(new) : i \in 1 .. Len(list) \/ i = Len(list) + 1
        BY <1>3, <1>5
    <2>7. Len(list) + 1 \in 1 .. Len(new)
        BY <1>3, <1>5
    <2>8. \/ FixedFind(w, k) \in 1 .. Len(new) /\ w.nodes[new[FixedFind(w, k)]].key = k
          \/ FixedFind(w, k) = 0 /\ \A i \in 1 .. Len(new) : w.nodes[new[i]].key # k
        BY <1>4, <1>5, FixedLoop
    <2> QED  BY <2>3, <2>4, <2>5, <2>6, <2>7, <2>8
<1>7. FixedBucket(w, k)[FixedFind(w, k)] = n
    BY <1>4, <1>5, <1>6
<1>8. [w EXCEPT !.nodes[n].value = k] = u
    <2>1. w.nodes = [m.nodes EXCEPT ![n] = blank]
        BY <1>1
    <2>2. [w.nodes EXCEPT ![n].value = k] = [m.nodes EXCEPT ![n] = node]
        BY <1>1, <1>3, <2>1
    <2>3. [w EXCEPT !.nodes[n].value = k] = [w EXCEPT !.nodes = [w.nodes EXCEPT ![n].value = k]]
        BY <1>1
    <2> HIDE DEF blank, node
    <2> QED  BY <1>1, <1>2, <2>2, <2>3
<1> QED  BY <1>7, <1>8 DEF w, u

\* A list without its node p, as pairs.
LEMMA InNodesCut ==
    ASSUME NEW nodes, NEW list \in Seq(Nodes), InNodes(nodes, list) \in Seq(Pairs),
           NEW p \in 1 .. Len(list)
    PROVE  InNodes(nodes, RemoveAt(list, p)) = RemoveAt(InNodes(nodes, list), p)
<1> DEFINE s == InNodes(nodes, list)
           l == RemoveAt(list, p)
           r == RemoveAt(s, p)
           N == Len(list)
<1>1. /\ N \in Nat /\ Len(s) = N
      /\ \A i \in 1 .. N : s[i] = nodes[list[i]]
    BY InNodesIs
<1>2. /\ l \in Seq(Nodes) /\ Len(l) = N - 1
      /\ \A i \in 1 .. N - 1 : l[i] = IF i < p THEN list[i] ELSE list[i + 1]
    BY Removed
<1>3. /\ r \in Seq(Pairs) /\ Len(r) = N - 1
      /\ \A i \in 1 .. N - 1 : r[i] = IF i < p THEN s[i] ELSE s[i + 1]
    <2>1. s \in Seq(Pairs) /\ p \in 1 .. Len(s)
        BY <1>1
    <2> HIDE DEF s
    <2> QED  BY <1>1, <2>1, Removed
<1> HIDE DEF s, l, r, N
<1>4. \A i \in 1 .. N - 1 : i \in 1 .. N /\ i + 1 \in 1 .. N
    BY <1>1
<1>5. \A i \in 1 .. N - 1 : nodes[l[i]] = r[i]
    BY <1>1, <1>2, <1>3, <1>4
<1>6. InNodes(nodes, l) = [i \in 1 .. N - 1 |-> nodes[l[i]]]
    BY <1>2, Zenon DEF InNodes
<1>7. r = [i \in 1 .. N - 1 |-> r[i]]
    <2>1. DOMAIN r = 1 .. N - 1 /\ r = [i \in DOMAIN r |-> r[i]]
        BY <1>3, LenProperties
    <2> QED  BY <2>1
<1>8. InNodes(nodes, l) = r
    BY <1>5, <1>6, <1>7
<1> QED  BY <1>8 DEF l, r, s

\* erase() takes out its key and gives its node back.
LEMMA FixedErases ==
    ASSUME NEW S \in SUBSET Ids, NEW m, FixedOK(m, S), NEW k \in Ids
    PROVE  FixedOK(FixedErase(m, k), S \ {k})
<1> DEFINE b == IndexOf(k, InitBuckets)
           p == FixedFind(m, k)
           list == m.buckets[b]
           n == list[p]
           w == FixedErase(m, k)
           blank == [key |-> 0, value |-> NoValue]
           L == Len(m.free)
<1>1. CASE k \notin S
    <2>1. p = 0
        BY <1>1, FixedFinds
    <2>2. w = m /\ S \ {k} = S
        BY <1>1, <2>1 DEF FixedErase
    <2> QED  BY <2>2
<1>2. CASE k \in S
    <2>0. FixedBucket(m, k) = list
        BY DEF FixedBucket
    <2>1. p \in 1 .. Len(list) /\ m.nodes[n].key = k
        BY <1>2, <2>0, FixedFinds
    <2>2. /\ m \in FixedMaps
          /\ m.free \in Seq(Nodes) /\ m.nodes \in [Nodes -> NodeStates]
          /\ m.buckets \in [Buckets -> Seq(Nodes)] /\ m.kind = "fixed"
        BY DEF FixedOK, FixedMaps
    <2>3. b \in Buckets /\ list \in Seq(Nodes) /\ Len(list) \in Nat /\ L \in Nat
        BY <2>2, BucketOf, LenProperties
    <2>4. n \in Nodes
        BY <2>1, <2>3, ElementOfSeq
    <2>5. w = [m EXCEPT !.free = Append(m.free, n), !.nodes[n] = blank,
                        !.buckets[b] = RemoveAt(list, p)]
        <3>1. p # 0
            BY <2>1, <2>3
        <3> QED  BY <2>0, <3>1 DEF FixedErase, FixedBucket
    <2> HIDE DEF w, p, n, b, list, L
    <2> DEFINE cut == RemoveAt(list, p)
    <2>6. /\ cut \in Seq(Nodes) /\ Len(cut) = Len(list) - 1
          /\ \A i \in 1 .. Len(list) - 1 : cut[i] = IF i < p THEN list[i] ELSE list[i + 1]
        BY <2>1, <2>3, Removed
    <2> HIDE DEF cut
    <2>7. /\ w.free = Append(m.free, n) /\ w.nodes = [m.nodes EXCEPT ![n] = blank]
          /\ w.buckets[b] = cut /\ w.buckets \in [Buckets -> Seq(Nodes)]
          /\ \A c \in Buckets \ {b} : w.buckets[c] = m.buckets[c]
          /\ w = [kind |-> "fixed", buckets |-> w.buckets, nodes |-> w.nodes, free |-> w.free]
        <3> DEFINE nf == Append(m.free, n)
        <3> HIDE DEF nf
        <3>1. w = [m EXCEPT !.free = nf, !.nodes[n] = blank, !.buckets[b] = cut]
            BY <2>5 DEF nf, cut
        <3>2. m \in FixedMaps
            BY <2>2
        <3> HIDE DEF blank
        <3>3. w = [kind |-> "fixed", buckets |-> [m.buckets EXCEPT ![b] = cut],
                   nodes |-> [m.nodes EXCEPT ![n] = blank], free |-> nf]
            BY <3>1, <3>2 DEF FixedMaps
        <3> QED  BY <2>2, <2>3, <2>6, <3>3 DEF nf
    <2>8. /\ w.free \in Seq(Nodes) /\ Len(w.free) = L + 1
          /\ \A i \in 1 .. L : w.free[i] = m.free[i]
          /\ w.free[L + 1] = n
        BY <2>2, <2>4, <2>7, AppendProperties DEF L
    <2>9. w \in FixedMaps
        <3>1. blank \in NodeStates
            BY DEF NodeStates
        <3> HIDE DEF blank
        <3>2. w.nodes \in [Nodes -> NodeStates]
            BY <2>2, <2>4, <2>7, <3>1
        <3>3. /\ w.free \in Seq(Nodes) /\ w.buckets \in [Buckets -> Seq(Nodes)]
              /\ w = [kind |-> "fixed", buckets |-> w.buckets, nodes |-> w.nodes, free |-> w.free]
            BY <2>7, <2>8
        <3> QED  BY <3>2, <3>3 DEF FixedMaps
    <2>10. BucketOK(InNodes(m.nodes, list), KeysIn(S, b)) /\ InNodes(m.nodes, list) \in Seq(Pairs)
        BY <2>3 DEF FixedOK, BucketOK, list
    <2>11. /\ Len(InNodes(m.nodes, list)) = Len(list)
           /\ \A i \in 1 .. Len(list) : InNodes(m.nodes, list)[i] = m.nodes[list[i]]
        BY <2>3, <2>10, InNodesIs
    <2>12. \A i \in 1 .. Len(list) : list[i] = n => i = p
        BY <2>1, <2>10, <2>11 DEF BucketOK, n
    <2>13. \A i \in 1 .. Len(cut) : cut[i] # n
        <3>1. \A i \in 1 .. Len(list) - 1 : i \in 1 .. Len(list) /\ i + 1 \in 1 .. Len(list)
            BY <2>3
        <3>2. \A i \in 1 .. Len(list) - 1 : (i < p => i # p) /\ (~(i < p) => i + 1 # p)
            BY <2>1, <2>3
        <3> QED  BY <2>6, <2>12, <3>1, <3>2
    <2>14. ~IsFree(m, n) /\ \A c \in Buckets : c # b => ~IsLinked(m, n, c)
        <3>1. IsLinked(m, n, b)
            BY <2>1 DEF IsLinked, list, n
        <3>2. ~IsFree(m, n)
            BY <2>3, <2>4, <3>1 DEF FixedOK
        <3>3. ASSUME NEW c \in Buckets, c # b, IsLinked(m, n, c) PROVE FALSE
            <4> DEFINE other == m.buckets[c]
            <4>1. PICK i \in 1 .. Len(other) : other[i] = n
                BY <3>3 DEF IsLinked
            <4>2. BucketOK(InNodes(m.nodes, other), KeysIn(S, c)) /\ other \in Seq(Nodes)
                BY <2>2 DEF FixedOK
            <4> HIDE DEF other
            <4>3. InNodes(m.nodes, other) \in Seq(Pairs)
                BY <4>2 DEF BucketOK
            <4>4. /\ Len(InNodes(m.nodes, other)) = Len(other)
                  /\ InNodes(m.nodes, other)[i] = m.nodes[n]
                BY <4>1, <4>2, <4>3, InNodesIs
            <4>5. k \in KeysIn(S, c)
                BY <2>1, <4>1, <4>2, <4>4 DEF BucketOK
            <4> QED  BY <3>3, <4>5 DEF KeysIn, b
        <3> QED  BY <3>2, <3>3
    <2>15. BucketOK(InNodes(w.nodes, w.buckets[b]), KeysIn(S \ {k}, b))
        <3> DEFINE nodes == m.nodes
                   pairs == InNodes(nodes, list)
        <3>1. nodes \in [Nodes -> NodeStates] /\ pairs \in Seq(Pairs)
            BY <2>2, <2>10
        <3> HIDE DEF nodes
        <3>2. InNodes([nodes EXCEPT ![n] = blank], cut) = InNodes(nodes, cut)
            BY <2>4, <2>6, <2>13, <3>1, InNodesElsewhere
        <3>3. InNodes(nodes, cut) = RemoveAt(pairs, p)
            BY <2>1, <2>3, <3>1, InNodesCut DEF cut
        <3>4. KeysIn(S, b) \in SUBSET Ids /\ p \in 1 .. Len(pairs) /\ pairs[p].key = k
              /\ BucketOK(pairs, KeysIn(S, b))
            BY <2>1, <2>10, <2>11 DEF KeysIn, nodes, n
        <3> HIDE DEF pairs
        <3>5. BucketOK(RemoveAt(pairs, p), KeysIn(S, b) \ {k})
            BY <3>4, BucketCut
        <3>6. KeysIn(S \ {k}, b) = KeysIn(S, b) \ {k}
            BY KeysInChange DEF b
        <3> QED  BY <2>7, <3>2, <3>3, <3>5, <3>6 DEF nodes
    <2>16. ASSUME NEW c \in Buckets \ {b}
           PROVE  BucketOK(InNodes(w.nodes, w.buckets[c]), KeysIn(S \ {k}, c))
        <3> DEFINE nodes == m.nodes
                   other == m.buckets[c]
        <3>1. nodes \in [Nodes -> NodeStates] /\ other \in Seq(Nodes)
              /\ \A i \in 1 .. Len(other) : other[i] # n
            BY <2>2, <2>14 DEF IsLinked
        <3> HIDE DEF nodes, other
        <3>2. InNodes([nodes EXCEPT ![n] = blank], other) = InNodes(nodes, other)
            BY <2>4, <3>1, InNodesElsewhere
        <3>3. BucketOK(InNodes(nodes, other), KeysIn(S, c))
            BY DEF FixedOK, nodes, other
        <3>4. KeysIn(S \ {k}, c) = KeysIn(S, c)
            BY KeysInChange DEF b
        <3> QED  BY <2>7, <3>2, <3>3, <3>4 DEF nodes, other
    <2>17. \A i, j \in 1 .. Len(w.free) : w.free[i] = w.free[j] => i = j
        <3>1. \A i \in 1 .. Len(w.free) : i \in 1 .. L \/ i = L + 1
            BY <2>3, <2>8
        <3>2. \A i, j \in 1 .. L : m.free[i] = m.free[j] => i = j
            BY DEF FixedOK, L
        <3>3. \A i \in 1 .. L : m.free[i] # n
            BY <2>14 DEF IsFree, L
        <3> QED  BY <2>8, <3>1, <3>2, <3>3
    <2>18. \A x \in Nodes : IsFree(w, x) <=> IsFree(m, x) \/ x = n
        <3>1. \A i \in 1 .. Len(w.free) : i \in 1 .. L \/ i = L + 1
            BY <2>3, <2>8
        <3>2. L + 1 \in 1 .. Len(w.free) /\ \A i \in 1 .. L : i \in 1 .. Len(w.free)
            BY <2>3, <2>8
        <3> QED  BY <2>8, <3>1, <3>2 DEF IsFree, L
    <2>19. \A x \in Nodes : IsLinked(w, x, b) <=> IsLinked(m, x, b) /\ x # n
        <3>1. ASSUME NEW x \in Nodes, IsLinked(w, x, b) PROVE IsLinked(m, x, b) /\ x # n
            <4>1. PICK i \in 1 .. Len(cut) : cut[i] = x
                BY <2>7, <3>1 DEF IsLinked
            <4>2. i \in 1 .. Len(list) - 1 /\ i \in 1 .. Len(list) /\ i + 1 \in 1 .. Len(list)
                BY <2>3, <2>6, <4>1
            <4>3. \E j \in 1 .. Len(list) : list[j] = x
                BY <2>6, <4>1, <4>2
            <4> QED  BY <2>13, <4>1, <4>3 DEF IsLinked, list
        <3>2. ASSUME NEW x \in Nodes, IsLinked(m, x, b), x # n PROVE IsLinked(w, x, b)
            <4>1. PICK j \in 1 .. Len(list) : list[j] = x
                BY <3>2 DEF IsLinked, list
            <4>2. CASE j < p
                <5>1. j \in 1 .. Len(list) - 1
                    BY <2>1, <2>3, <4>2
                <5> QED  BY <2>6, <2>7, <4>1, <4>2, <5>1 DEF IsLinked
            <4>3. CASE j > p
                <5>1. j - 1 \in 1 .. Len(list) - 1 /\ ~(j - 1 < p) /\ (j - 1) + 1 = j
                    BY <2>1, <2>3, <4>3
                <5>2. cut[j - 1] = x
                    BY <2>6, <4>1, <5>1
                <5> QED  BY <2>6, <2>7, <5>1, <5>2 DEF IsLinked
            <4>4. j # p
                BY <3>2, <4>1 DEF n
            <4>5. j < p \/ j > p
                BY <2>1, <2>3, <4>4
            <4> QED  BY <4>2, <4>3, <4>5
        <3> QED  BY <3>1, <3>2
    <2>20. \A x \in Nodes, c \in Buckets \ {b} : IsLinked(w, x, c) <=> IsLinked(m, x, c)
        BY <2>7 DEF IsLinked
    <2>21. \A x \in Nodes, c \in Buckets : ~(IsFree(w, x) /\ IsLinked(w, x, c))
        BY <2>14, <2>18, <2>19, <2>20 DEF FixedOK
    <2>22. \A x \in Nodes : IsFree(w, x) \/ \E c \in Buckets : IsLinked(w, x, c)
        BY <2>3, <2>18, <2>19, <2>20 DEF FixedOK
    <2> QED  BY <2>9, <2>15, <2>16, <2>17, <2>21, <2>22 DEF FixedOK, w
<1> QED  BY <1>1, <1>2

\* A sequence has an element, and has none twice.
Has(s, x)    == \E i \in 1 .. Len(s) : s[i] = x
NoRepeats(s) == \A i, j \in 1 .. Len(s) : s[i] = s[j] => i = j

\* What two sequences have together.
LEMMA ConcatHas ==
    ASSUME NEW X, NEW s \in Seq(X), NEW t \in Seq(X)
    PROVE  /\ s \o t \in Seq(X)
           /\ \A x : Has(s \o t, x) <=> Has(s, x) \/ Has(t, x)
           /\ NoRepeats(s) /\ NoRepeats(t) /\ (\A x : ~(Has(s, x) /\ Has(t, x)))
                 => NoRepeats(s \o t)
<1> DEFINE a == s \o t
           M == Len(s)
           N == Len(t)
<1>1. M \in Nat /\ N \in Nat
    BY LenProperties
<1>2. /\ a \in Seq(X) /\ Len(a) = M + N
      /\ \A i \in 1 .. M + N : a[i] = IF i <= M THEN s[i] ELSE t[i - M]
    BY ConcatProperties
<1> HIDE DEF a, M, N
<1>3. \A i \in 1 .. M : i \in 1 .. M + N /\ a[i] = s[i]
    BY <1>1, <1>2
<1>4. \A i \in 1 .. N : M + i \in 1 .. M + N /\ a[M + i] = t[i]
    <2>1. \A i \in 1 .. N : M + i \in 1 .. M + N /\ ~(M + i <= M) /\ (M + i) - M = i
        BY <1>1
    <2> QED  BY <1>2, <2>1
<1>5. \A i \in 1 .. M + N : i \in 1 .. M \/ \E j \in 1 .. N : i = M + j
    <2>1. \A i \in 1 .. M + N : i \in 1 .. M \/ i - M \in 1 .. N
        BY <1>1
    <2>2. \A i \in 1 .. M + N : i = M + (i - M)
        BY <1>1
    <2> QED  BY <2>1, <2>2
<1>6. ASSUME NEW x PROVE Has(a, x) <=> Has(s, x) \/ Has(t, x)
    <2>1. ASSUME Has(a, x) PROVE Has(s, x) \/ Has(t, x)
        <3>1. PICK i \in 1 .. M + N : a[i] = x
            BY <1>2, <2>1 DEF Has
        <3>2. CASE i \in 1 .. M
            BY <1>3, <3>1, <3>2 DEF Has, M
        <3>3. CASE \E j \in 1 .. N : i = M + j
            BY <1>4, <3>1, <3>3 DEF Has, N
        <3> QED  BY <1>5, <3>2, <3>3
    <2>2. Has(s, x) => Has(a, x)
        BY <1>2, <1>3 DEF Has, M
    <2>3. Has(t, x) => Has(a, x)
        BY <1>2, <1>4 DEF Has, N
    <2> QED  BY <2>1, <2>2, <2>3
<1>7. ASSUME NoRepeats(s), NoRepeats(t), \A x : ~(Has(s, x) /\ Has(t, x))
      PROVE  NoRepeats(a)
    <2>1. SUFFICES ASSUME NEW i \in 1 .. M + N, NEW j \in 1 .. M + N, a[i] = a[j]
                   PROVE  i = j
        BY <1>2 DEF NoRepeats
    <2>2. CASE i \in 1 .. M /\ j \in 1 .. M
        BY <1>3, <1>7, <2>1, <2>2 DEF NoRepeats, M
    <2>3. CASE \E p, q \in 1 .. N : i = M + p /\ j = M + q
        <3>1. PICK p \in 1 .. N, q \in 1 .. N : i = M + p /\ j = M + q
            BY <2>3
        <3>2. t[p] = t[q]
            BY <1>4, <2>1, <3>1
        <3>3. p = q
            BY <1>7, <3>2 DEF NoRepeats, N
        <3> QED  BY <3>1, <3>3
    <2>4. CASE i \in 1 .. M /\ \E q \in 1 .. N : j = M + q
        <3>1. Has(s, a[i]) /\ Has(t, a[i])
            BY <1>3, <1>4, <2>1, <2>4 DEF Has, M, N
        <3> QED  BY <1>7, <3>1
    <2>5. CASE j \in 1 .. M /\ \E q \in 1 .. N : i = M + q
        <3>1. Has(s, a[i]) /\ Has(t, a[i])
            BY <1>3, <1>4, <2>1, <2>5 DEF Has, M, N
        <3> QED  BY <1>7, <3>1
    <2> QED  BY <1>5, <2>2, <2>3, <2>4, <2>5
<1> QED  BY <1>2, <1>6, <1>7 DEF a

\* A sequence that has every element of T once.
LEMMA CountOnce ==
    ASSUME NEW T, NEW s \in Seq(T), NoRepeats(s), \A x \in T : Has(s, x)
    PROVE  ToSet(s) = T /\ Len(s) = Cardinality(T)
<1> DEFINE N == Len(s)
<1>1. N \in Nat /\ DOMAIN s = 1 .. N /\ s \in [1 .. N -> T]
    BY LenProperties
<1>2. ToSet(s) = T
    BY <1>1 DEF ToSet, Has
<1>3. s \in Bijection(1 .. N, T)
    BY <1>1 DEF Bijection, Injection, Surjection, IsInjective, NoRepeats, Has
<1>4. ExistsBijection(1 .. N, T)
    BY <1>3 DEF ExistsBijection
<1>5. Cardinality(T) = N
    <2> HIDE DEF N
    <2> QED  BY <1>1, <1>4, FS_CountingElements
<1> QED  BY <1>2, <1>5

\* h is the concatenation of seqs, one after the other.
IsFlat(h, seqs, N) ==
    /\ h[1] = seqs[1]
    /\ \A i \in 2 .. N : h[i] = h[i - 1] \o seqs[i]

\* The recursion of FlattenSeq is well-founded.
LEMMA FlattenSteps ==
    ASSUME NEW X, NEW N \in Nat \ {0}, NEW seqs, Len(seqs) = N,
           \A i \in 1 .. N : seqs[i] \in Seq(X)
    PROVE  \E h : IsFlat(h, seqs, N) /\ FlattenSeq(seqs) = h[N]
<1> DEFINE Y == Seq(X)
           M == N - 1
           g == [i \in 1 .. M |-> [x \in Y |-> x \o seqs[i + 1]]]
           Def(f) == [i \in 1 .. N |-> IF i = 1 THEN seqs[i] ELSE f[i - 1] \o seqs[i]]
           h == CHOOSE f : f = Def(f)
<1>1. M \in Nat /\ seqs[1] \in Y
    OBVIOUS
<1>2. g \in [1 .. M -> [Y -> Y]]
    <2>1. \A i \in 1 .. M : i + 1 \in 1 .. N
        OBVIOUS
    <2>2. \A i \in 1 .. M, x \in Y : x \o seqs[i + 1] \in Y
        BY <2>1, ConcatProperties
    <2> HIDE DEF Y, M
    <2> QED  BY <2>2
<1>3. \A i \in 1 .. M, x \in Y : g[i][x] = x \o seqs[i + 1]
    BY Zenon
<1> HIDE DEF g, Y
<1>4. PICK f0 : GoesBy(f0, g, seqs[1], M, Y)
    <2> HIDE DEF M
    <2> QED  BY <1>1, <1>2, RecursiveFunction
<1>5. /\ f0 \in [0 .. M -> Y] /\ f0[0] = seqs[1]
      /\ \A i \in 1 .. M : f0[i] = g[i][f0[i - 1]]
    BY <1>4, Zenon DEF GoesBy
<1> DEFINE f == [i \in 1 .. N |-> f0[i - 1]]
<1>6. f = Def(f)
    <2>1. ASSUME NEW i \in 1 .. N PROVE f[i] = Def(f)[i]
        <3>1. CASE i = 1
            BY <1>5, <3>1
        <3>2. CASE i # 1
            <4>1. i - 1 \in 1 .. M /\ i - 1 \in 1 .. N /\ (i - 1) - 1 \in 0 .. M /\ (i - 1) + 1 = i
                BY <3>2
            <4>2. f0[(i - 1) - 1] \in Y
                BY <1>5, <4>1
            <4>3. f0[i - 1] = f0[(i - 1) - 1] \o seqs[i]
                BY <1>3, <1>5, <4>1, <4>2
            <4> QED  BY <3>2, <4>1, <4>3
        <3> QED  BY <3>1, <3>2
    <2>2. f = [i \in 1 .. N |-> f[i]] /\ Def(f) = [i \in 1 .. N |-> Def(f)[i]]
        OBVIOUS
    <2> HIDE DEF f, Def
    <2> QED  BY <2>1, <2>2
<1> HIDE DEF f
<1>7. h = Def(h)
    BY <1>6, Zenon
<1>8. FlattenSeq(seqs) = h[N]
    <2>1. Len(seqs) # 0
        OBVIOUS
    <2> QED  BY <2>1, Zenon DEF FlattenSeq
<1> HIDE DEF h
<1>9. \A i \in 1 .. N : h[i] = IF i = 1 THEN seqs[i] ELSE h[i - 1] \o seqs[i]
    <2>1. \A i \in 1 .. N : h[i] = Def(h)[i]
        BY <1>7, Zenon
    <2> QED  BY <2>1, Zenon
<1>10. IsFlat(h, seqs, N)
    <2>1. 1 \in 1 .. N /\ \A i \in 2 .. N : i \in 1 .. N /\ i # 1
        OBVIOUS
    <2> QED  BY <1>9, <2>1 DEF IsFlat
<1> QED  BY <1>8, <1>10

\* No node is twice in the buckets.
LEMMA FixedApart ==
    ASSUME NEW S \in SUBSET Ids, NEW m, FixedOK(m, S)
    PROVE  /\ \A b \in Buckets : m.buckets[b] \in Seq(Nodes) /\ NoRepeats(m.buckets[b])
           /\ \A b, c \in Buckets : \A n : Has(m.buckets[b], n) /\ Has(m.buckets[c], n) => b = c
<1> DEFINE pairs(b) == InNodes(m.nodes, m.buckets[b])
<1>1. \A b \in Buckets : m.buckets[b] \in Seq(Nodes) /\ BucketOK(pairs(b), KeysIn(S, b))
    BY DEF FixedOK, FixedMaps
<1>2. \A b \in Buckets : pairs(b) \in Seq(Pairs)
    BY <1>1 DEF BucketOK
<1>3. \A b \in Buckets :
         /\ Len(pairs(b)) = Len(m.buckets[b])
         /\ \A i \in 1 .. Len(m.buckets[b]) : pairs(b)[i] = m.nodes[m.buckets[b][i]]
    BY <1>1, <1>2, InNodesIs
<1> HIDE DEF pairs
<1>4. \A b \in Buckets : NoRepeats(m.buckets[b])
    BY <1>1, <1>3 DEF BucketOK, NoRepeats
<1>5. \A b \in Buckets : \A n : Has(m.buckets[b], n) => m.nodes[n].key \in KeysIn(S, b)
    BY <1>1, <1>3 DEF BucketOK, Has
<1> QED  BY <1>1, <1>4, <1>5 DEF KeysIn

\* The free stack and the buckets have every node once.
LEMMA FixedNodes ==
    ASSUME NEW S \in SUBSET Ids, NEW m, FixedOK(m, S)
    PROVE  ToSet(NodesOf(m)) = Nodes /\ Len(NodesOf(m)) = Cardinality(Nodes)
<1> DEFINE N == InitBuckets
           seqs == [b \in 1 .. N |-> m.buckets[b - 1]]
<1>1. N \in Nat \ {0}
    BY BucketsPositive
<1>2. \A i \in 1 .. N : i - 1 \in Buckets
    BY <1>1 DEF Buckets
<1>3. /\ \A b \in Buckets : m.buckets[b] \in Seq(Nodes) /\ NoRepeats(m.buckets[b])
      /\ \A b, c \in Buckets : \A n : Has(m.buckets[b], n) /\ Has(m.buckets[c], n) => b = c
    BY FixedApart
<1>4. /\ \A i \in 1 .. N : seqs[i] = m.buckets[i - 1]
      /\ \A i \in 1 .. N : seqs[i] \in Seq(Nodes) /\ NoRepeats(seqs[i])
      /\ \A i, j \in 1 .. N : \A n : Has(seqs[i], n) /\ Has(seqs[j], n) => i = j
    <2>1. \A i \in 1 .. N : seqs[i] = m.buckets[i - 1]
        OBVIOUS
    <2>2. \A i, j \in 1 .. N : i - 1 = j - 1 => i = j
        BY <1>1
    <2> HIDE DEF seqs
    <2>3. \A i, j \in 1 .. N : \A n : Has(seqs[i], n) /\ Has(seqs[j], n) => i = j
        BY <1>2, <1>3, <2>1, <2>2
    <2> QED  BY <1>2, <1>3, <2>1, <2>3
<1>5. Len(seqs) = N
    <2> HIDE DEF N
    <2>1. N \in Nat /\ \A i \in 1 .. N : m.buckets[i - 1] \in Seq(Nodes)
        BY <1>1, <1>2, <1>3
    <2> QED  BY <2>1
<1> HIDE DEF N
<1>6. PICK h : IsFlat(h, seqs, N) /\ FlattenSeq(seqs) = h[N]
    <2> HIDE DEF seqs
    <2> QED  BY <1>1, <1>4, <1>5, FlattenSteps
<1> HIDE DEF seqs
<1> DEFINE Upto(n) == /\ h[n + 1] \in Seq(Nodes) /\ NoRepeats(h[n + 1])
                      /\ \A x : Has(h[n + 1], x) <=> \E i \in 1 .. n + 1 : Has(seqs[i], x)
           T == {n \in 0 .. N - 1 : Upto(n)}
<1>7. 0 \in T
    <2>1. h[1] = seqs[1] /\ 1 \in 1 .. N /\ 0 \in 0 .. N - 1 /\ 0 + 1 = 1
        BY <1>1, <1>6 DEF IsFlat
    <2>2. \A x : Has(seqs[1], x) <=> \E i \in 1 .. 1 : Has(seqs[i], x)
        OBVIOUS
    <2>3. h[0 + 1] = seqs[1]
        BY <2>1
    <2>4. seqs[1] \in Seq(Nodes) /\ NoRepeats(seqs[1])
        BY <1>4, <2>1
    <2>5. \A x : Has(h[0 + 1], x) <=> \E i \in 1 .. 0 + 1 : Has(seqs[i], x)
        BY <2>1, <2>2, <2>3
    <2>6. Upto(0)
        BY <2>3, <2>4, <2>5, Zenon
    <2> QED  BY <2>1, <2>6
<1>8. ASSUME NEW n \in 0 .. (N - 1) - 1, n \in T PROVE n + 1 \in T
    <2>1. /\ n + 2 \in 2 .. N /\ n + 2 \in 1 .. N /\ (n + 2) - 1 = n + 1 /\ (n + 1) + 1 = n + 2
          /\ n + 1 \in 0 .. N - 1
        BY <1>1
    <2>2. Upto(n)
        BY <1>8, Zenon
    <2>3. h[n + 2] = h[n + 1] \o seqs[n + 2]
        BY <1>6, <2>1 DEF IsFlat
    <2>4. seqs[n + 2] \in Seq(Nodes) /\ NoRepeats(seqs[n + 2])
        BY <1>4, <2>1
    <2> HIDE DEF T
    <2>5. \A x : ~(Has(h[n + 1], x) /\ Has(seqs[n + 2], x))
        <3>1. \A i \in 1 .. n + 1 : i \in 1 .. N /\ i # n + 2
            BY <1>1
        <3> QED  BY <1>4, <2>1, <2>2, <3>1
    <2> DEFINE s == h[n + 1]
               t == seqs[n + 2]
    <2>6. /\ s \in Seq(Nodes) /\ t \in Seq(Nodes) /\ NoRepeats(s) /\ NoRepeats(t)
          /\ \A x : ~(Has(s, x) /\ Has(t, x))
        BY <2>2, <2>4, <2>5
    <2> HIDE DEF s, t
    <2>7. s \o t \in Seq(Nodes) /\ NoRepeats(s \o t) /\ \A x : Has(s \o t, x) <=> Has(s, x) \/ Has(t, x)
        BY <2>6, ConcatHas
    <2>8. h[(n + 1) + 1] = s \o t
        BY <2>1, <2>3 DEF s, t
    <2>9. \A i \in 1 .. (n + 1) + 1 : i \in 1 .. n + 1 \/ i = n + 2
        OBVIOUS
    <2>10. n + 2 \in 1 .. (n + 1) + 1 /\ \A i \in 1 .. n + 1 : i \in 1 .. (n + 1) + 1
        OBVIOUS
    <2>11. \A x : Has(s \o t, x) <=> \E i \in 1 .. (n + 1) + 1 : Has(seqs[i], x)
        <3>1. \A x : Has(s, x) <=> \E i \in 1 .. n + 1 : Has(seqs[i], x)
            BY <2>2 DEF s
        <3> QED  BY <2>7, <2>9, <2>10, <3>1 DEF t
    <2>12. Upto(n + 1)
        BY <2>7, <2>8, <2>11, Zenon
    <2> QED  BY <2>1, <2>12, Zenon DEF T
<1>9. Upto(N - 1)
    <2> HIDE DEF T, Upto
    <2>1. N - 1 \in Nat
        BY <1>1
    <2>2. \A n \in 0 .. N - 1 : n \in T
        BY <1>7, <1>8, <2>1, UpTo
    <2>3. N - 1 \in T
        BY <2>1, <2>2
    <2> QED  BY <2>3, Zenon DEF T
<1> DEFINE flat == h[N]
<1>10. /\ flat \in Seq(Nodes) /\ NoRepeats(flat)
       /\ \A x : Has(flat, x) <=> \E i \in 1 .. N : Has(seqs[i], x)
    <2>1. (N - 1) + 1 = N
        BY <1>1
    <2> HIDE DEF T
    <2> QED  BY <1>9, <2>1
<1>11. NodesOf(m) = m.free \o flat
    BY <1>6 DEF NodesOf, seqs, N
<1> HIDE DEF T, Upto, flat
<1>12. m.free \in Seq(Nodes) /\ NoRepeats(m.free)
    BY DEF FixedOK, FixedMaps, NoRepeats
<1>13. \A n \in Nodes : Has(m.free, n) <=> IsFree(m, n)
    BY DEF Has, IsFree
<1>14. \A n \in Nodes : Has(flat, n) <=> \E b \in Buckets : IsLinked(m, n, b)
    <2>1. \A b \in Buckets : b + 1 \in 1 .. N /\ (b + 1) - 1 = b
        BY <1>1 DEF Buckets, N
    <2>2. \A i \in 1 .. N : \A n : Has(seqs[i], n) <=> IsLinked(m, n, i - 1)
        BY <1>4 DEF Has, IsLinked
    <2> QED  BY <1>2, <1>10, <2>1, <2>2
<1>15. \A x : Has(m.free, x) => x \in Nodes
    BY <1>12, ElementOfSeq DEF Has
<1>16. \A x : ~(Has(m.free, x) /\ Has(flat, x))
    BY <1>13, <1>14, <1>15 DEF FixedOK
<1> DEFINE all == m.free \o flat
<1>17. all \in Seq(Nodes) /\ NoRepeats(all) /\ \A x : Has(all, x) <=> Has(m.free, x) \/ Has(flat, x)
    BY <1>10, <1>12, <1>16, ConcatHas
<1> HIDE DEF all
<1>18. \A x \in Nodes : Has(all, x)
    BY <1>13, <1>14, <1>17 DEF FixedOK
<1>19. ToSet(all) = Nodes /\ Len(all) = Cardinality(Nodes)
    BY <1>17, <1>18, CountOnce
<1> QED  BY <1>11, <1>19 DEF all

-----------------------------------------------------------------------------
(***************************************************************************)
(* OpenAddressingHashMap.                                                   *)
(***************************************************************************)
\* The tables of n cells.
OpenTables(n) == [kind : {"open"}, status : [0 .. n - 1 -> {"EMPTY", "OCCUPIED", "DELETED"}],
                  key : [0 .. n - 1 -> Nat], value : [0 .. n - 1 -> Ids \union {NoValue}],
                  size : Nat]

\* A probe goes through every cell once.
LEMMA ProbeCells ==
    ASSUME NEW n \in Nat \ {0}, NEW k \in Nat
    PROVE  /\ \A j \in 0 .. n - 1 : IndexOf(k + j, n) \in 0 .. n - 1
           /\ \A i, j \in 0 .. n - 1 : IndexOf(k + i, n) = IndexOf(k + j, n) => i = j
           /\ \A c \in 0 .. n - 1 : \E j \in 0 .. n - 1 : IndexOf(k + j, n) = c
<1> DEFINE D == 0 .. n - 1
           f == [j \in D |-> IndexOf(k + j, n)]
<1>1. \A j \in D : IndexOf(k + j, n) \in D
    <2>1. \A j \in D : k + j \in Nat
        OBVIOUS
    <2> QED  BY <2>1, CellInRing DEF IndexOf
<1>2. \A i, j \in D : i < j => IndexOf(k + i, n) # IndexOf(k + j, n)
    <2>1. ASSUME NEW i \in D, NEW j \in D, i < j
          PROVE  (k + i) % n # (k + j) % n
        <3>1. k + i \in Nat /\ k + j \in Nat /\ k + i < k + j /\ (k + j) - (k + i) < n
            BY <2>1
        <3> DEFINE a == k + i
                   c == k + j
        <3>2. a \in Nat /\ c \in Nat /\ a < c /\ c - a < n
            BY <3>1
        <3> HIDE DEF a, c
        <3>3. a % n # c % n
            BY <3>2, CellsDiffer
        <3> QED  BY <3>3 DEF a, c
    <2> QED  BY <2>1 DEF IndexOf
<1>3. \A i, j \in D : IndexOf(k + i, n) = IndexOf(k + j, n) => i = j
    <2>1. \A i, j \in D : i = j \/ i < j \/ j < i
        OBVIOUS
    <2> QED  BY <1>2, <2>1
<1>4. IsFiniteSet(D)
    BY FS_Interval
<1> HIDE DEF D
<1>5. f \in Injection(D, D)
    BY <1>1, <1>3 DEF Injection, IsInjective
<1> HIDE DEF f
<1>6. f \in Surjection(D, D)
    BY <1>4, <1>5, FS_Injection
<1>7. \A c \in D : \E j \in D : f[j] = c
    BY <1>6 DEF Surjection
<1> QED  BY <1>1, <1>3, <1>7 DEF D, f

\* The number of cells.
LEMMA OpenCells ==
    ASSUME NEW n \in Nat \ {0}, NEW m \in OpenTables(n)
    PROVE  Capacity(m) = n /\ DOMAIN m.status = 0 .. n - 1
<1>1. DOMAIN m.status = 0 .. n - 1
    BY DEF OpenTables
<1>2. Cardinality(0 .. n - 1) = n
    <2>1. Cardinality(0 .. n - 1) = IF 0 > n - 1 THEN 0 ELSE (n - 1) - 0 + 1
        BY FS_Interval
    <2> QED  BY <2>1
<1> QED  BY <1>1, <1>2 DEF Capacity

\* Where insert() and operator[] stop for the key k, at the step s.
StopsAt(m, k, n, s) ==
    /\ s \in 0 .. n - 1
    /\ m.status[IndexOf(k + s, n)] # "OCCUPIED" \/ m.key[IndexOf(k + s, n)] = k
    /\ \A l \in 0 .. s - 1 : /\ m.status[IndexOf(k + l, n)] = "OCCUPIED"
                             /\ m.key[IndexOf(k + l, n)] # k

\* The loop of insert() and operator[].
LEMMA PlaceIs ==
    ASSUME NEW n \in Nat \ {0}, NEW m \in OpenTables(n), NEW k \in Nat, NEW s,
           StopsAt(m, k, n, s)
    PROVE  OpenPlace(m, k) = IndexOf(k + s, n)
<1> DEFINE steps == {j \in 0 .. n - 1 : \/ m.status[IndexOf(k + j, n)] # "OCCUPIED"
                                        \/ m.key[IndexOf(k + j, n)] = k}
<1>1. Capacity(m) = n
    BY OpenCells
<1>2. OpenPlace(m, k) = IF FirstStep(steps) = -1 THEN -1 ELSE IndexOf(k + FirstStep(steps), n)
    BY <1>1 DEF OpenPlace, Probe
<1>3. s \in steps /\ steps \in SUBSET Nat
    BY DEF StopsAt
<1>4. FirstStep(steps) \in steps /\ \A j \in steps : FirstStep(steps) <= j
    <2> HIDE DEF steps
    <2>1. FirstStep(steps) = Min(steps)
        BY <1>3 DEF FirstStep
    <2>2. steps # {}
        BY <1>3
    <2>3. Min(steps) \in steps /\ \A y \in steps : Min(steps) <= y
        BY <1>3, <2>2, MinIsLeast
    <2> QED  BY <2>1, <2>3
<1>5. FirstStep(steps) = s
    <2> DEFINE t == FirstStep(steps)
    <2> HIDE DEF t
    <2>1. t \in 0 .. n - 1 /\ t <= s /\ (m.status[IndexOf(k + t, n)] # "OCCUPIED"
                                         \/ m.key[IndexOf(k + t, n)] = k)
        BY <1>3, <1>4 DEF t
    <2>2. t \notin 0 .. s - 1
        BY <2>1 DEF StopsAt
    <2>3. s \in 0 .. n - 1
        BY DEF StopsAt
    <2> QED  BY <2>1, <2>2, <2>3 DEF t
<1>6. s # -1
    BY DEF StopsAt
<1> QED  BY <1>2, <1>5, <1>6

\* The cells that hold a key.
Occupied(m) == {i \in DOMAIN m.status : m.status[i] = "OCCUPIED"}

\* The probe for the key k reaches it at the step j, before any EMPTY cell.
Reaches(m, k, n, j) ==
    /\ Holds(m, IndexOf(k + j, n), k)
    /\ \A l \in 0 .. j - 1 : m.status[IndexOf(k + l, n)] # "EMPTY"

\* The table of n cells holds the keys of S, each in one cell that its probe
\* reaches, and is not loaded beyond the maximum.
OpenOK(m, S, n) ==
    /\ n \in Nat \ {0} /\ m \in OpenTables(n)
    /\ \A i \in 0 .. n - 1 : m.status[i] = "OCCUPIED" => m.key[i] \in S /\ m.value[i] = m.key[i]
    /\ \A i, j \in 0 .. n - 1 :
          m.status[i] = "OCCUPIED" /\ m.status[j] = "OCCUPIED" /\ m.key[i] = m.key[j] => i = j
    /\ \A k \in S : \E j \in 0 .. n - 1 : Reaches(m, k, n, j)
    /\ m.size = Cardinality(Occupied(m))
    /\ 10 * m.size <= 7 * n

\* find() and contains() of an OpenAddressingHashMap.
LEMMA OpenFinds ==
    ASSUME NEW S \in SUBSET Ids, NEW m, NEW n, OpenOK(m, S, n), NEW k \in Ids
    PROVE  /\ k \in S => OpenFind(m, k) \in 0 .. n - 1 /\ Holds(m, OpenFind(m, k), k)
           /\ k \notin S => OpenFind(m, k) = -1
<1> DEFINE at(j) == IndexOf(k + j, n)
           hits == {j \in 0 .. n - 1 : Holds(m, at(j), k)}
           empties == {j \in 0 .. n - 1 : m.status[at(j)] = "EMPTY"}
           hit == FirstStep(hits)
           empty == FirstStep(empties)
<1>0. n \in Nat \ {0} /\ m \in OpenTables(n) /\ k \in Nat
    BY IdsAssumption DEF OpenOK
<1>1. Capacity(m) = n
    BY <1>0, OpenCells
<1>2. OpenFind(m, k) = IF hit # -1 /\ (empty = -1 \/ hit < empty) THEN at(hit) ELSE -1
    BY <1>1 DEF OpenFind, Probe
<1>3. \A j \in 0 .. n - 1 : at(j) \in 0 .. n - 1
    BY <1>0, ProbeCells
<1>4. CASE k \notin S
    <2>1. hits = {}
        BY <1>3, <1>4 DEF OpenOK, Holds
    <2>2. hit = -1
        BY <2>1 DEF FirstStep
    <2> QED  BY <1>2, <1>4, <2>2
<1>5. CASE k \in S
    <2>1. PICK j \in 0 .. n - 1 : Reaches(m, k, n, j)
        BY <1>5 DEF OpenOK
    <2>2. j \in hits /\ hits \in SUBSET Nat /\ empties \in SUBSET Nat
        BY <2>1 DEF Reaches
    <2>3. hit \in hits /\ hit <= j
        <3> HIDE DEF hits
        <3>1. hits # {} /\ hit = Min(hits)
            BY <2>2 DEF FirstStep
        <3> QED  BY <2>2, <3>1, MinIsLeast
    <2>4. hit \in 0 .. n - 1 /\ Holds(m, at(hit), k) /\ hit # -1
        BY <1>0, <2>3
    <2>5. empties # {} => empty \in empties
        <3> HIDE DEF empties
        <3>1. empties # {} => empty = Min(empties)
            BY DEF FirstStep
        <3> QED  BY <2>2, <3>1, MinIsLeast
    <2>6. empties = {} => empty = -1
        BY DEF FirstStep
    <2>7. \A e \in empties : e > j
        <3>1. ASSUME NEW e \in empties, ~(e > j) PROVE FALSE
            <4>1. e \in 0 .. n - 1 /\ m.status[at(e)] = "EMPTY"
                OBVIOUS
            <4>2. e = j \/ e \in 0 .. j - 1
                BY <3>1, <4>1
            <4>3. m.status[at(j)] = "OCCUPIED"
                BY <2>1 DEF Reaches, Holds
            <4> QED  BY <2>1, <4>1, <4>2, <4>3 DEF Reaches
        <3> QED  BY <3>1
    <2>8. empty = -1 \/ hit < empty
        <3>1. \A e \in empties : e \in Nat
            BY <2>2
        <3> HIDE DEF empties, hits, hit, empty
        <3> QED  BY <2>3, <2>4, <2>5, <2>6, <2>7, <3>1
    <2>9. OpenFind(m, k) = at(hit)
        BY <1>2, <2>4, <2>8
    <2> HIDE DEF hit
    <2> QED  BY <1>3, <1>5, <2>4, <2>9
<1> QED  BY <1>4, <1>5

\* There is a cell for every key.
LEMMA OpenStops ==
    ASSUME NEW S \in SUBSET Ids, NEW m, NEW n, OpenOK(m, S, n), NEW k \in Ids
    PROVE  \E s : StopsAt(m, k, n, s)
<1> DEFINE Stop(j) == \/ m.status[IndexOf(k + j, n)] # "OCCUPIED"
                      \/ m.key[IndexOf(k + j, n)] = k
           steps == {j \in 0 .. n - 1 : Stop(j)}
<1>0. n \in Nat \ {0} /\ m \in OpenTables(n) /\ k \in Nat
    BY IdsAssumption DEF OpenOK
<1>1. DOMAIN m.status = 0 .. n - 1
    BY <1>0, OpenCells
<1>2. \E c \in 0 .. n - 1 : m.status[c] # "OCCUPIED"
    <2>1. SUFFICES ASSUME \A c \in 0 .. n - 1 : m.status[c] = "OCCUPIED" PROVE FALSE
        OBVIOUS
    <2>2. Occupied(m) = DOMAIN m.status
        BY <1>1, <2>1 DEF Occupied
    <2>3. Cardinality(DOMAIN m.status) = n
        BY <1>0, OpenCells DEF Capacity
    <2>4. m.size = n /\ 10 * m.size <= 7 * n
        BY <2>2, <2>3 DEF OpenOK
    <2> QED  BY <1>0, <2>4
<1>3. \E j \in 0 .. n - 1 : Stop(j)
    <2>1. PICK c \in 0 .. n - 1 : m.status[c] # "OCCUPIED"
        BY <1>2
    <2>2. PICK j \in 0 .. n - 1 : IndexOf(k + j, n) = c
        BY <1>0, ProbeCells
    <2> QED  BY <2>1, <2>2
<1>4. steps \in SUBSET Nat /\ steps # {}
    BY <1>3
<1>5. PICK s \in steps : \A l \in steps : s <= l
    <2> HIDE DEF steps
    <2> QED  BY <1>4, LeastNat
<1>6. s \in 0 .. n - 1 /\ Stop(s)
    OBVIOUS
<1>7. \A l \in 0 .. s - 1 : ~Stop(l)
    <2>1. ASSUME NEW l \in 0 .. s - 1, Stop(l) PROVE FALSE
        <3>1. l \in 0 .. n - 1 /\ l < s
            BY <1>0, <1>6
        <3>2. l \in steps
            BY <2>1, <3>1
        <3> QED  BY <1>5, <1>6, <3>1, <3>2
    <2> QED  BY <2>1
<1>8. StopsAt(m, k, n, s)
    BY <1>6, <1>7 DEF StopsAt
<1> QED  BY <1>8

\* Where operator[] stops for a key of the table: at the key, or at a tombstone.
LEMMA OpenStopsOnKey ==
    ASSUME NEW S \in SUBSET Ids, NEW m, NEW n, OpenOK(m, S, n), NEW k \in S, NEW s,
           StopsAt(m, k, n, s)
    PROVE  Holds(m, IndexOf(k + s, n), k) \/ m.status[IndexOf(k + s, n)] = "DELETED"
<1> DEFINE c == IndexOf(k + s, n)
<1>0. n \in Nat \ {0} /\ m \in OpenTables(n) /\ k \in Nat /\ s \in 0 .. n - 1
    BY IdsAssumption DEF OpenOK, StopsAt
<1>1. c \in 0 .. n - 1
    BY <1>0, ProbeCells
<1>2. m.status[c] \in {"EMPTY", "OCCUPIED", "DELETED"}
    BY <1>0, <1>1 DEF OpenTables
<1>3. m.status[c] # "EMPTY"
    <2>1. PICK j \in 0 .. n - 1 : Reaches(m, k, n, j)
        BY DEF OpenOK
    <2>2. s \in 0 .. j - 1 \/ s = j \/ j \in 0 .. s - 1
        BY <1>0
    <2>3. s \in 0 .. j - 1 => m.status[c] # "EMPTY"
        BY <2>1 DEF Reaches
    <2>4. s = j => m.status[c] # "EMPTY"
        BY <2>1 DEF Reaches, Holds
    <2>5. j \notin 0 .. s - 1
        BY <2>1 DEF Reaches, Holds, StopsAt
    <2> QED  BY <2>2, <2>3, <2>4, <2>5
<1> QED  BY <1>2, <1>3 DEF StopsAt, Holds

\* A table without keys.
LEMMA OpenInit ==
    ASSUME NEW n \in Nat \ {0}
    PROVE  OpenOK(OpenTable(n), {}, n)
<1> DEFINE m == OpenTable(n)
<1>1. m \in OpenTables(n)
    BY DEF OpenTable, OpenTables
<1>2. m.size = 0 /\ \A i \in 0 .. n - 1 : m.status[i] = "EMPTY"
    BY DEF OpenTable
<1> HIDE DEF m
<1>3. Occupied(m) = {}
    <2>1. DOMAIN m.status = 0 .. n - 1
        BY <1>1, OpenCells
    <2> QED  BY <1>2, <2>1 DEF Occupied
<1>4. m.size = Cardinality(Occupied(m)) /\ 10 * m.size <= 7 * n
    BY <1>2, <1>3, FS_EmptySet
<1>5. \A i \in 0 .. n - 1 : m.status[i] # "OCCUPIED"
    BY <1>2
<1>6. OpenOK(m, {}, n)
    BY <1>1, <1>4, <1>5 DEF OpenOK
<1> QED  BY <1>6 DEF m

\* Occupied cells are finitely many.
LEMMA OccupiedFinite ==
    ASSUME NEW n \in Nat \ {0}, NEW m \in OpenTables(n)
    PROVE  IsFiniteSet(Occupied(m)) /\ Cardinality(Occupied(m)) \in Nat
<1>1. DOMAIN m.status = 0 .. n - 1 /\ IsFiniteSet(0 .. n - 1)
    BY OpenCells, FS_Interval
<1>2. Occupied(m) \in SUBSET (0 .. n - 1)
    BY <1>1 DEF Occupied
<1> HIDE DEF Occupied
<1> QED  BY <1>1, <1>2, FS_Subset, FS_CardinalityType

\* w is m with the cell c written, and the size z.
IsWritten(w, m, n, c, st, k, v, z) ==
    /\ w \in OpenTables(n) /\ w.size = z
    /\ w.status[c] = st /\ w.key[c] = k /\ w.value[c] = v
    /\ \A i \in 0 .. n - 1 : i # c => /\ w.status[i] = m.status[i]
                                      /\ w.key[i] = m.key[i] /\ w.value[i] = m.value[i]
    /\ st = "OCCUPIED" => Occupied(w) = Occupied(m) \union {c}
    /\ st # "OCCUPIED" => Occupied(w) = Occupied(m) \ {c}

\* The cell that a write changes, and the others.
LEMMA CellWritten ==
    ASSUME NEW n \in Nat \ {0}, NEW m \in OpenTables(n), NEW c \in 0 .. n - 1,
           NEW st \in {"EMPTY", "OCCUPIED", "DELETED"}, NEW k \in Nat,
           NEW v \in Ids \union {NoValue}, NEW z \in Nat, NEW w,
           w = [m EXCEPT !.status[c] = st, !.key[c] = k, !.value[c] = v, !.size = z]
    PROVE  IsWritten(w, m, n, c, st, k, v, z)
<1> DEFINE D == 0 .. n - 1
           ST == {"EMPTY", "OCCUPIED", "DELETED"}
           V == Ids \union {NoValue}
<1>1. /\ m \in [kind : {"open"}, status : [D -> ST], key : [D -> Nat], value : [D -> V], size : Nat]
      /\ c \in D /\ st \in ST /\ v \in V
    BY DEF OpenTables
<1> HIDE DEF D, ST, V
<1>2. w = [kind |-> "open", status |-> [m.status EXCEPT ![c] = st],
           key |-> [m.key EXCEPT ![c] = k], value |-> [m.value EXCEPT ![c] = v], size |-> z]
    BY <1>1
<1>3. w \in [kind : {"open"}, status : [D -> ST], key : [D -> Nat], value : [D -> V], size : Nat]
    BY <1>1, <1>2
<1>4. w \in OpenTables(n)
    BY <1>3 DEF OpenTables, D, ST, V
<1>5. /\ w.size = z /\ w.status[c] = st /\ w.key[c] = k /\ w.value[c] = v
      /\ \A i \in D : i # c => /\ w.status[i] = m.status[i]
                               /\ w.key[i] = m.key[i] /\ w.value[i] = m.value[i]
    BY <1>1, <1>2
<1>6. DOMAIN w.status = D /\ DOMAIN m.status = D
    BY <1>1, <1>3
<1>7. st = "OCCUPIED" => Occupied(w) = Occupied(m) \union {c}
    BY <1>1, <1>5, <1>6 DEF Occupied
<1>8. st # "OCCUPIED" => Occupied(w) = Occupied(m) \ {c}
    BY <1>1, <1>5, <1>6 DEF Occupied
<1> QED  BY <1>4, <1>5, <1>7, <1>8 DEF D, IsWritten

\* w is m with the new key k in the cell c.
IsOccupied(w, m, S, k, n, c) ==
    /\ OpenOK(w, S \union {k}, n)
    /\ w.size = m.size + 1
    /\ m.status[c] # "OCCUPIED"
    /\ \A i \in 0 .. n - 1 : w.status[i] = "DELETED" => m.status[i] = "DELETED"

\* A new key in the cell where its probe stops.
LEMMA OpenOccupies ==
    ASSUME NEW S \in SUBSET Ids, NEW m, NEW n, OpenOK(m, S, n), NEW k \in Ids \ S, NEW s,
           StopsAt(m, k, n, s), 10 * (m.size + 1) <= 7 * n
    PROVE  IsOccupied(Occupy(m, IndexOf(k + s, n), k, k), m, S, k, n, IndexOf(k + s, n))
<1> DEFINE c == IndexOf(k + s, n)
           w == Occupy(m, c, k, k)
<1>0. /\ n \in Nat \ {0} /\ m \in OpenTables(n) /\ k \in Nat /\ s \in 0 .. n - 1
      /\ m.size \in Nat /\ k \in Ids \union {NoValue}
    BY IdsAssumption DEF OpenOK, StopsAt, OpenTables
<1>1. c \in 0 .. n - 1
    BY <1>0, ProbeCells
<1>2. m.status[c] # "OCCUPIED"
    BY <1>1 DEF OpenOK, StopsAt
<1>3. /\ w \in OpenTables(n) /\ w.size = m.size + 1
      /\ w.status[c] = "OCCUPIED" /\ w.key[c] = k /\ w.value[c] = k
      /\ \A i \in 0 .. n - 1 : i # c => /\ w.status[i] = m.status[i]
                                        /\ w.key[i] = m.key[i] /\ w.value[i] = m.value[i]
      /\ Occupied(w) = Occupied(m) \union {c}
    <2>1. w = [m EXCEPT !.status[c] = "OCCUPIED", !.key[c] = k, !.value[c] = k,
                        !.size = m.size + 1]
        BY DEF Occupy
    <2>2. m.size + 1 \in Nat
        BY <1>0
    <2> HIDE DEF c, w
    <2>3. IsWritten(w, m, n, c, "OCCUPIED", k, k, m.size + 1)
        BY <1>0, <1>1, <2>1, <2>2, CellWritten
    <2> QED  BY <2>3, Zenon DEF IsWritten
<1> HIDE DEF c, w
<1>4. w.size = Cardinality(Occupied(w)) /\ 10 * w.size <= 7 * n
    <2>1. c \notin Occupied(m)
        BY <1>2 DEF Occupied
    <2>2. IsFiniteSet(Occupied(m)) /\ m.size = Cardinality(Occupied(m))
        BY <1>0, OccupiedFinite DEF OpenOK
    <2>3. Cardinality(Occupied(m) \union {c}) = Cardinality(Occupied(m)) + 1
        BY <2>1, <2>2, FS_AddElement
    <2> QED  BY <1>3, <2>2, <2>3
<1>5. \A i \in 0 .. n - 1 : w.status[i] = "OCCUPIED" =>
                               w.key[i] \in S \union {k} /\ w.value[i] = w.key[i]
    BY <1>3 DEF OpenOK
<1>6. \A i, j \in 0 .. n - 1 :
         w.status[i] = "OCCUPIED" /\ w.status[j] = "OCCUPIED" /\ w.key[i] = w.key[j] => i = j
    BY <1>3 DEF OpenOK
<1>7. ASSUME NEW x \in S PROVE \E j \in 0 .. n - 1 : Reaches(w, x, n, j)
    <2>1. PICK j \in 0 .. n - 1 : Reaches(m, x, n, j)
        BY DEF OpenOK
    <2>2. \A l \in 0 .. j : l \in 0 .. n - 1
        BY <1>0
    <2>3. x \in Nat
        BY IdsAssumption
    <2>4. \A l \in 0 .. j : IndexOf(x + l, n) \in 0 .. n - 1
        BY <1>0, <2>2, <2>3, ProbeCells
    <2>5. Holds(w, IndexOf(x + j, n), x)
        <3>1. IndexOf(x + j, n) \in 0 .. n - 1
            BY <2>4
        <3>2. Holds(m, IndexOf(x + j, n), x)
            BY <2>1 DEF Reaches
        <3> QED  BY <1>2, <1>3, <3>1, <3>2 DEF Holds
    <2>6. \A l \in 0 .. j - 1 : w.status[IndexOf(x + l, n)] # "EMPTY"
        <3>1. \A l \in 0 .. j - 1 : l \in 0 .. j
            OBVIOUS
        <3> QED  BY <1>3, <2>1, <2>4, <3>1 DEF Reaches
    <2> QED  BY <2>5, <2>6 DEF Reaches
<1>8. Reaches(w, k, n, s)
    <2>1. Holds(w, IndexOf(k + s, n), k)
        BY <1>3 DEF Holds, c
    <2>2. \A l \in 0 .. s - 1 : IndexOf(k + l, n) \in 0 .. n - 1
        <3>1. \A l \in 0 .. s - 1 : l \in 0 .. n - 1
            BY <1>0
        <3> QED  BY <1>0, <3>1, ProbeCells
    <2>3. \A l \in 0 .. s - 1 : w.status[IndexOf(k + l, n)] = "OCCUPIED"
        BY <1>3, <2>2 DEF StopsAt
    <2> QED  BY <2>1, <2>3 DEF Reaches
<1>9. \A x \in S \union {k} : \E j \in 0 .. n - 1 : Reaches(w, x, n, j)
    BY <1>0, <1>7, <1>8
<1>10. OpenOK(w, S \union {k}, n)
    BY <1>0, <1>3, <1>4, <1>5, <1>6, <1>9 DEF OpenOK
<1>11. \A i \in 0 .. n - 1 : w.status[i] = "DELETED" => m.status[i] = "DELETED"
    BY <1>3
<1>12. IsOccupied(w, m, S, k, n, c)
    BY <1>2, <1>3, <1>10, <1>11 DEF IsOccupied
<1> QED  BY <1>12 DEF c, w

\* erase() leaves a tombstone, which no other key's probe ends at.
LEMMA OpenErases ==
    ASSUME NEW S \in SUBSET Ids, NEW m, NEW n, OpenOK(m, S, n), NEW k \in Ids
    PROVE  OpenOK(OpenErase(m, k), S \ {k}, n)
<1> DEFINE c == OpenFind(m, k)
           w == OpenErase(m, k)
<1>0. n \in Nat \ {0} /\ m \in OpenTables(n) /\ m.size \in Nat
    BY DEF OpenOK, OpenTables
<1>1. CASE k \notin S
    <2>1. c = -1
        BY <1>1, OpenFinds
    <2>2. w = m /\ S \ {k} = S
        BY <1>1, <2>1 DEF OpenErase
    <2> QED  BY <2>2
<1>2. CASE k \in S
    <2>1. c \in 0 .. n - 1 /\ Holds(m, c, k)
        BY <1>2, OpenFinds
    <2>2. w = Vacate(m, c, "DELETED")
        <3>1. c # -1
            BY <1>0, <2>1
        <3> QED  BY <3>1 DEF OpenErase
    <2>3. IsFiniteSet(Occupied(m)) /\ m.size = Cardinality(Occupied(m)) /\ c \in Occupied(m)
        <3>1. DOMAIN m.status = 0 .. n - 1
            BY <1>0, OpenCells
        <3> HIDE DEF c
        <3>2. c \in Occupied(m)
            BY <2>1, <3>1 DEF Occupied, Holds
        <3> QED  BY <1>0, <3>2, OccupiedFinite DEF OpenOK
    <2> HIDE DEF c, w
    <2>4. IsFiniteSet(Occupied(m) \ {c}) /\ Cardinality(Occupied(m) \ {c}) = m.size - 1
        BY <2>3, FS_RemoveElement
    <2>5. m.size - 1 \in Nat
        BY <2>4, FS_CardinalityType
    <2>6. /\ w \in OpenTables(n) /\ w.size = m.size - 1
          /\ w.status[c] = "DELETED"
          /\ \A i \in 0 .. n - 1 : i # c => /\ w.status[i] = m.status[i]
                                            /\ w.key[i] = m.key[i] /\ w.value[i] = m.value[i]
          /\ Occupied(w) = Occupied(m) \ {c}
        <3>1. w = [m EXCEPT !.status[c] = "DELETED", !.key[c] = 0, !.value[c] = NoValue,
                            !.size = m.size - 1]
            BY <2>2 DEF Vacate
        <3>2. IsWritten(w, m, n, c, "DELETED", 0, NoValue, m.size - 1)
            BY <1>0, <2>1, <2>5, <3>1, CellWritten
        <3>3. "DELETED" # "OCCUPIED"
            OBVIOUS
        <3> QED  BY <3>2, <3>3, Zenon DEF IsWritten
    <2>7. w.size = Cardinality(Occupied(w)) /\ 10 * w.size <= 7 * n
        <3>1. 10 * m.size <= 7 * n
            BY DEF OpenOK
        <3> QED  BY <1>0, <2>4, <2>6, <3>1
    <2>8. \A i \in 0 .. n - 1 : w.status[i] = "OCCUPIED" =>
                                   w.key[i] \in S \ {k} /\ w.value[i] = w.key[i]
        BY <2>1, <2>6 DEF OpenOK, Holds
    <2>9. \A i, j \in 0 .. n - 1 :
             w.status[i] = "OCCUPIED" /\ w.status[j] = "OCCUPIED" /\ w.key[i] = w.key[j] => i = j
        BY <2>6 DEF OpenOK
    <2>10. ASSUME NEW x \in S \ {k} PROVE \E j \in 0 .. n - 1 : Reaches(w, x, n, j)
        <3>1. PICK j \in 0 .. n - 1 : Reaches(m, x, n, j)
            BY DEF OpenOK
        <3>2. \A l \in 0 .. j : l \in 0 .. n - 1
            BY <1>0
        <3>3. x \in Nat
            BY IdsAssumption
        <3>4. \A l \in 0 .. j : IndexOf(x + l, n) \in 0 .. n - 1
            BY <1>0, <3>2, <3>3, ProbeCells
        <3>5. Holds(w, IndexOf(x + j, n), x)
            <4>1. IndexOf(x + j, n) \in 0 .. n - 1
                BY <3>4
            <4>2. Holds(m, IndexOf(x + j, n), x)
                BY <3>1 DEF Reaches
            <4> QED  BY <2>1, <2>6, <4>1, <4>2 DEF Holds
        <3>6. \A l \in 0 .. j - 1 : w.status[IndexOf(x + l, n)] # "EMPTY"
            <4>1. \A l \in 0 .. j - 1 : l \in 0 .. j
                OBVIOUS
            <4> QED  BY <2>6, <3>1, <3>4, <4>1 DEF Reaches
        <3> QED  BY <3>5, <3>6 DEF Reaches
    <2>11. OpenOK(w, S \ {k}, n)
        BY <1>0, <2>6, <2>7, <2>8, <2>9, <2>10 DEF OpenOK
    <2> QED  BY <2>11 DEF w
<1> QED  BY <1>1, <1>2

\* A store leaves a table of the same number of cells.
LEMMA OpenStoreType ==
    ASSUME NEW n \in Nat \ {0}, NEW x \in OpenTables(n), NEW k \in Nat,
           NEW v \in Ids \union {NoValue}
    PROVE  OpenStore(x, k, v) \in OpenTables(n)
<1> DEFINE c == OpenPlace(x, k)
           D == 0 .. n - 1
           ST == {"EMPTY", "OCCUPIED", "DELETED"}
           V == Ids \union {NoValue}
           R == [kind : {"open"}, status : [D -> ST], key : [D -> Nat], value : [D -> V], size : Nat]
<1>1. x \in R /\ v \in V /\ "OCCUPIED" \in ST
    BY DEF OpenTables
<1>2. OpenStore(x, k, v) = IF x.status[c] = "OCCUPIED" THEN [x EXCEPT !.value[c] = v]
                           ELSE Occupy(x, c, k, v)
    BY DEF OpenStore
<1> HIDE DEF c, D, ST, V
<1>3. [x EXCEPT !.value[c] = v] \in R
    BY <1>1
<1>4. Occupy(x, c, k, v) \in R
    <2>1. Occupy(x, c, k, v) =
             [kind |-> "open", status |-> [x.status EXCEPT ![c] = "OCCUPIED"],
              key |-> [x.key EXCEPT ![c] = k], value |-> [x.value EXCEPT ![c] = v],
              size |-> x.size + 1]
        <3> DEFINE z == x.size + 1
        <3> HIDE DEF z
        <3> DEFINE w == Occupy(x, c, k, v)
                   occ == "OCCUPIED"
        <3>1. w = [x EXCEPT !.status[c] = occ, !.key[c] = k, !.value[c] = v, !.size = z]
            BY DEF Occupy, z
        <3> HIDE DEF w, occ
        <3>2. w = [kind |-> "open", status |-> [x.status EXCEPT ![c] = occ],
                   key |-> [x.key EXCEPT ![c] = k], value |-> [x.value EXCEPT ![c] = v],
                   size |-> z]
            <4>1. CASE c \in D
                BY <1>1, <3>1, <4>1
            <4>2. CASE c \notin D
                BY <1>1, <3>1, <4>2
            <4> QED  BY <4>1, <4>2
        <3> QED  BY <3>1, <3>2 DEF z, w, occ
    <2>2. [x.status EXCEPT ![c] = "OCCUPIED"] \in [D -> ST]
        BY <1>1
    <2>3. [x.key EXCEPT ![c] = k] \in [D -> Nat]
        BY <1>1
    <2>4. [x.value EXCEPT ![c] = v] \in [D -> V]
        BY <1>1
    <2>5. x.size + 1 \in Nat
        BY <1>1
    <2> QED  BY <2>1, <2>2, <2>3, <2>4, <2>5
<1>5. OpenStore(x, k, v) \in R
    BY <1>2, <1>3, <1>4
<1> QED  BY <1>5 DEF OpenTables, D, ST, V

\* The tables that reHash() goes through.
IsMoved(h, m, n) ==
    /\ h \in [0 .. n -> OpenTables(2 * n)]
    /\ h[0] = OpenTable(2 * n)
    /\ \A i \in 1 .. n : h[i] = IF m.status[i - 1] = "OCCUPIED"
                                THEN OpenStore(h[i - 1], m.key[i - 1], m.value[i - 1])
                                ELSE h[i - 1]

\* The recursion of ReHash is well-founded.
LEMMA ReHashSteps ==
    ASSUME NEW n \in Nat \ {0}, NEW m \in OpenTables(n)
    PROVE  \E h : IsMoved(h, m, n) /\ ReHash(m) = h[n]
<1> DEFINE X == OpenTables(2 * n)
           g == [i \in 1 .. n |-> [x \in X |->
                    IF m.status[i - 1] = "OCCUPIED"
                    THEN OpenStore(x, m.key[i - 1], m.value[i - 1]) ELSE x]]
           Def(f) == [i \in 0 .. Capacity(m) |->
                        IF i = 0 THEN OpenTable(2 * Capacity(m))
                        ELSE IF m.status[i - 1] = "OCCUPIED"
                             THEN OpenStore(f[i - 1], m.key[i - 1], m.value[i - 1])
                             ELSE f[i - 1]]
           h == CHOOSE f : f = Def(f)
<1>0. Capacity(m) = n /\ 2 * n \in Nat \ {0} /\ n \in Nat
    BY OpenCells
<1>1. OpenTable(2 * n) \in X
    BY <1>0, OpenInit DEF OpenOK
<1>2. g \in [1 .. n -> [X -> X]]
    <2>1. \A i \in 1 .. n : m.key[i - 1] \in Nat /\ m.value[i - 1] \in Ids \union {NoValue}
        <3>1. \A i \in 1 .. n : i - 1 \in 0 .. n - 1
            OBVIOUS
        <3>2. m.key \in [0 .. n - 1 -> Nat] /\ m.value \in [0 .. n - 1 -> Ids \union {NoValue}]
            BY DEF OpenTables
        <3> QED  BY <3>1, <3>2
    <2>2. \A i \in 1 .. n, x \in X : OpenStore(x, m.key[i - 1], m.value[i - 1]) \in X
        BY <1>0, <2>1, OpenStoreType
    <2> HIDE DEF X
    <2> QED  BY <2>2
<1>3. \A i \in 1 .. n, x \in X :
         g[i][x] = IF m.status[i - 1] = "OCCUPIED"
                   THEN OpenStore(x, m.key[i - 1], m.value[i - 1]) ELSE x
    BY Zenon
<1> HIDE DEF g, X
<1>4. PICK f : GoesBy(f, g, OpenTable(2 * n), n, X)
    BY <1>0, <1>1, <1>2, RecursiveFunction
<1>5. /\ f \in [0 .. n -> X] /\ f[0] = OpenTable(2 * n)
      /\ \A i \in 1 .. n : f[i] = g[i][f[i - 1]]
    BY <1>4, Zenon DEF GoesBy
<1>6. f = Def(f)
    <2>1. \A i \in 1 .. n : i - 1 \in 0 .. n /\ f[i - 1] \in X
        BY <1>5
    <2>2. \A i \in 1 .. n : f[i] = IF m.status[i - 1] = "OCCUPIED"
                                   THEN OpenStore(f[i - 1], m.key[i - 1], m.value[i - 1])
                                   ELSE f[i - 1]
        BY <1>3, <1>5, <2>1
    <2>3. ASSUME NEW i \in 0 .. n PROVE f[i] = Def(f)[i]
        <3>1. CASE i = 0
            BY <1>0, <1>5, <3>1
        <3>2. CASE i # 0
            <4>1. i \in 1 .. n
                BY <3>2
            <4> QED  BY <1>0, <2>2, <3>2, <4>1
        <3> QED  BY <3>1, <3>2
    <2>4. f = [i \in 0 .. n |-> f[i]] /\ Def(f) = [i \in 0 .. n |-> Def(f)[i]]
        BY <1>0, <1>5
    <2> HIDE DEF Def
    <2> QED  BY <2>3, <2>4
<1>7. h = Def(h)
    BY <1>6, Zenon
<1>8. ReHash(m) = h[n]
    <2>1. ReHash(m) = h[Capacity(m)]
        BY Zenon DEF ReHash
    <2> QED  BY <1>0, <2>1
<1> HIDE DEF h
<1>9. /\ h[0] = OpenTable(2 * n)
      /\ \A i \in 1 .. n : h[i] = IF m.status[i - 1] = "OCCUPIED"
                                  THEN OpenStore(h[i - 1], m.key[i - 1], m.value[i - 1])
                                  ELSE h[i - 1]
    <2>1. \A i \in 0 .. n : h[i] = Def(h)[i]
        BY <1>7, Zenon
    <2>2. 0 \in 0 .. n /\ \A i \in 1 .. n : i \in 0 .. n /\ i # 0
        OBVIOUS
    <2> QED  BY <1>0, <2>1, <2>2
<1>10. \A i \in 1 .. n : h[i - 1] \in X => h[i] = g[i][h[i - 1]]
    BY <1>3, <1>9
<1>11. \A i \in 0 .. n : h[i] \in X
    BY <1>0, <1>1, <1>2, <1>9, <1>10, RecursiveType
<1>12. h \in [0 .. n -> X]
    BY <1>0, <1>7, <1>11
<1>13. IsMoved(h, m, n)
    BY <1>9, <1>12 DEF X, IsMoved
<1> QED  BY <1>8, <1>13

\* No cell is a tombstone.
NoTombstone(m, n) == \A i \in 0 .. n - 1 : m.status[i] # "DELETED"

\* reHash() keeps the keys, in a table without tombstones and with room for more.
LEMMA ReHashes ==
    ASSUME NEW S \in SUBSET Ids, NEW m, NEW n, OpenOK(m, S, n)
    PROVE  /\ OpenOK(ReHash(m), S, 2 * n) /\ NoTombstone(ReHash(m), 2 * n)
           /\ 10 * (ReHash(m).size + 1) <= 7 * (2 * n)
<1>0. /\ n \in Nat \ {0} /\ m \in OpenTables(n) /\ 2 * n \in Nat \ {0} /\ n \in Nat
      /\ m.size \in Nat
    BY DEF OpenOK, OpenTables
<1>1. PICK h : IsMoved(h, m, n) /\ ReHash(m) = h[n]
    BY <1>0, ReHashSteps
<1>2. /\ h[0] = OpenTable(2 * n)
      /\ \A i \in 1 .. n : h[i] = IF m.status[i - 1] = "OCCUPIED"
                                  THEN OpenStore(h[i - 1], m.key[i - 1], m.value[i - 1])
                                  ELSE h[i - 1]
    BY <1>1, Zenon DEF IsMoved
<1> DEFINE Cells(i) == {c \in 0 .. i - 1 : m.status[c] = "OCCUPIED"}
           Keys(i) == {m.key[c] : c \in Cells(i)}
           Good(i) == /\ OpenOK(h[i], Keys(i), 2 * n) /\ NoTombstone(h[i], 2 * n)
                      /\ h[i].size = Cardinality(Cells(i))
           T == {i \in 0 .. n : Good(i)}
<1>3. 0 \in T
    <2>1. Cells(0) = {} /\ Keys(0) = {}
        OBVIOUS
    <2>2. OpenOK(h[0], {}, 2 * n)
        BY <1>0, <1>2, OpenInit
    <2>3. NoTombstone(h[0], 2 * n) /\ h[0].size = 0
        BY <1>0, <1>2 DEF NoTombstone, OpenTable
    <2>4. Good(0)
        BY <2>1, <2>2, <2>3, FS_EmptySet
    <2>5. 0 \in 0 .. n
        BY <1>0
    <2> HIDE DEF Good
    <2> QED  BY <2>4, <2>5
<1>4. \A i \in 0 .. n : /\ IsFiniteSet(Cells(i)) /\ Cardinality(Cells(i)) \in Nat
                        /\ Cardinality(Cells(i)) <= m.size /\ Cells(i) \in SUBSET Occupied(m)
    <2>1. ASSUME NEW i \in 0 .. n PROVE Cells(i) \in SUBSET Occupied(m)
        <3>1. DOMAIN m.status = 0 .. n - 1
            BY <1>0, OpenCells
        <3>2. \A c \in 0 .. i - 1 : c \in 0 .. n - 1
            BY <1>0
        <3> QED  BY <3>1, <3>2 DEF Occupied
    <2>2. IsFiniteSet(Occupied(m)) /\ m.size = Cardinality(Occupied(m))
        BY <1>0, OccupiedFinite DEF OpenOK
    <2> HIDE DEF Cells
    <2> QED  BY <2>1, <2>2, FS_Subset, FS_CardinalityType
<1>5. ASSUME NEW i \in 0 .. n - 1, i \in T PROVE i + 1 \in T
    <2>1. i + 1 \in 1 .. n /\ (i + 1) - 1 = i /\ i + 1 \in 0 .. n /\ i \in 0 .. n
        BY <1>0
    <2>2. Good(i)
        BY <1>5, Zenon
    <2> HIDE DEF T
    <2>3. \A c \in 0 .. (i + 1) - 1 : c \in 0 .. i - 1 \/ c = i
        OBVIOUS
    <2>4. \A c \in 0 .. i - 1 : c \in 0 .. (i + 1) - 1
        OBVIOUS
    <2>5. i \in 0 .. (i + 1) - 1 /\ i \notin 0 .. i - 1
        OBVIOUS
    <2>6. CASE m.status[i] # "OCCUPIED"
        <3>1. Cells(i + 1) = Cells(i)
            BY <2>3, <2>4, <2>6
        <3>2. h[i + 1] = h[i]
            BY <1>2, <2>1, <2>6
        <3>3. Good(i + 1)
            BY <2>2, <3>1, <3>2
        <3> QED  BY <2>1, <3>3 DEF T
    <2>7. CASE m.status[i] = "OCCUPIED"
        <3> DEFINE k == m.key[i]
        <3>1. Cells(i + 1) = Cells(i) \union {i} /\ i \notin Cells(i)
            BY <2>3, <2>4, <2>5, <2>7
        <3>2. Keys(i + 1) = Keys(i) \union {k}
            BY <3>1
        <3>3. k \in S /\ m.value[i] = k
            BY <2>7 DEF OpenOK
        <3>4. k \notin Keys(i) /\ Keys(i) \in SUBSET Ids
            <4>1. \A c \in Cells(i) : c \in 0 .. n - 1 /\ m.status[c] = "OCCUPIED" /\ c # i
                BY <1>0, <3>1
            <4>2. \A c \in Cells(i) : m.key[c] # k /\ m.key[c] \in S
                BY <2>7, <4>1 DEF OpenOK
            <4> HIDE DEF Cells
            <4> QED  BY <4>2
        <3>5. h[i + 1] = OpenStore(h[i], k, k)
            BY <1>2, <2>1, <2>7, <3>3
        <3> DEFINE x == h[i]
                   K == Keys(i)
        <3>6. OpenOK(x, K, 2 * n) /\ NoTombstone(x, 2 * n) /\ x.size = Cardinality(Cells(i))
            BY <2>2
        <3>7. Cardinality(Cells(i + 1)) = Cardinality(Cells(i)) + 1
            BY <1>4, <2>1, <3>1, FS_AddElement
        <3>8. 10 * (x.size + 1) <= 7 * (2 * n)
            <4>1. Cardinality(Cells(i)) + 1 <= m.size /\ Cardinality(Cells(i)) \in Nat
                BY <1>4, <2>1, <3>7
            <4>2. 10 * m.size <= 7 * n
                BY DEF OpenOK
            <4>3. \A z \in Nat : z + 1 <= m.size => 10 * (z + 1) <= 7 * (2 * n)
                BY <1>0, <4>2
            <4> QED  BY <3>6, <4>1, <4>3
        <3>9. k \in Ids \ K /\ K \in SUBSET Ids /\ k \in Ids /\ k \in Nat
            BY <3>3, <3>4, IdsAssumption
        <3> HIDE DEF k, x, K, Cells, Keys, Good
        <3>10. PICK s : StopsAt(x, k, 2 * n, s)
            BY <3>6, <3>9, OpenStops
        <3>11. OpenPlace(x, k) = IndexOf(k + s, 2 * n)
            <4>1. x \in OpenTables(2 * n)
                BY <3>6 DEF OpenOK
            <4> QED  BY <1>0, <3>9, <3>10, <4>1, PlaceIs
        <3> DEFINE c == IndexOf(k + s, 2 * n)
                   w == Occupy(x, c, k, k)
        <3>12. /\ OpenOK(w, K \union {k}, 2 * n) /\ w.size = x.size + 1
               /\ x.status[c] # "OCCUPIED"
               /\ \A j \in 0 .. 2 * n - 1 : w.status[j] = "DELETED" => x.status[j] = "DELETED"
            <4> DEFINE N == 2 * n
            <4>1. OpenOK(x, K, N) /\ StopsAt(x, k, N, s) /\ 10 * (x.size + 1) <= 7 * N
                BY <3>6, <3>8, <3>10
            <4> HIDE DEF N
            <4>2. IsOccupied(Occupy(x, IndexOf(k + s, N), k, k), x, K, k, N, IndexOf(k + s, N))
                BY <3>9, <4>1, OpenOccupies
            <4> QED  BY <4>2, Zenon DEF N, IsOccupied
        <3>13. h[i + 1] = w
            BY <3>5, <3>11, <3>12 DEF OpenStore, x
        <3> HIDE DEF w, c
        <3>14. NoTombstone(w, 2 * n)
            BY <3>6, <3>12 DEF NoTombstone
        <3>15. OpenOK(h[i + 1], Keys(i + 1), 2 * n) /\ NoTombstone(h[i + 1], 2 * n)
            BY <3>2, <3>12, <3>13, <3>14 DEF K
        <3>16. h[i + 1].size = Cardinality(Cells(i + 1))
            BY <3>6, <3>7, <3>12, <3>13
        <3>17. Good(i + 1)
            BY <3>15, <3>16 DEF Good
        <3> QED  BY <2>1, <3>17 DEF T
    <2> QED  BY <2>6, <2>7
<1>6. Good(n)
    <2> HIDE DEF T, Good
    <2>1. \A i \in 0 .. n : i \in T
        BY <1>0, <1>3, <1>5, UpTo
    <2>2. n \in T
        BY <1>0, <2>1
    <2> QED  BY <2>2, Zenon DEF T
<1>7. Keys(n) = S
    <2>1. \A c \in Cells(n) : m.key[c] \in S
        BY DEF OpenOK
    <2>2. ASSUME NEW k \in S PROVE \E c \in Cells(n) : m.key[c] = k
        <3>1. PICK j \in 0 .. n - 1 : Reaches(m, k, n, j)
            BY DEF OpenOK
        <3>2. k \in Nat
            BY IdsAssumption
        <3>3. IndexOf(k + j, n) \in 0 .. n - 1
            BY <1>0, <3>2, ProbeCells
        <3> QED  BY <3>1, <3>3 DEF Reaches, Holds
    <2> HIDE DEF Cells
    <2> QED  BY <2>1, <2>2
<1>8. 10 * (h[n].size + 1) <= 7 * (2 * n)
    <2>0. n \in 0 .. n
        BY <1>0
    <2>1. Cardinality(Cells(n)) \in Nat /\ Cardinality(Cells(n)) <= m.size
        <3> HIDE DEF Cells
        <3> QED  BY <1>4, <2>0
    <2>2. 10 * m.size <= 7 * n
        BY DEF OpenOK
    <2>3. h[n].size = Cardinality(Cells(n))
        BY <1>6
    <2>4. \A z \in Nat : z <= m.size => 10 * (z + 1) <= 7 * (2 * n)
        BY <1>0, <2>2
    <2> HIDE DEF Cells
    <2> QED  BY <2>1, <2>3, <2>4
<1> HIDE DEF Cells, Keys, T
<1> QED  BY <1>1, <1>6, <1>7, <1>8

\* The table has room for one more key.
HasRoom(w, S, n) == OpenOK(w, S, n) /\ 10 * (w.size + 1) <= 7 * n

\* The table that insert() and operator[] go on with has room.
LEMMA OpenRoom ==
    ASSUME NEW S \in SUBSET Ids, NEW m, NEW n, OpenOK(m, S, n)
    PROVE  /\ OverLoad(m) => HasRoom(ReHash(m), S, 2 * n)
           /\ ~OverLoad(m) => HasRoom(m, S, n)
<1>1. OverLoad(m) => HasRoom(ReHash(m), S, 2 * n)
    BY ReHashes DEF HasRoom
<1>2. ASSUME ~OverLoad(m) PROVE HasRoom(m, S, n)
    <2>1. n \in Nat \ {0} /\ m \in OpenTables(n) /\ m.size \in Nat
        BY DEF OpenOK, OpenTables
    <2>2. Capacity(m) = n
        BY <2>1, OpenCells
    <2>3. ~((m.size + 1) * 10 > n * 7)
        BY <1>2, <2>2 DEF OverLoad
    <2>4. 10 * (m.size + 1) <= 7 * n
        BY <2>1, <2>3
    <2> QED  BY <2>4 DEF HasRoom
<1> QED  BY <1>1, <1>2

\* insert() behind the test of the load, and operator[] with a store through its
\* reference, of a new key.
LEMMA OpenStores ==
    ASSUME NEW S \in SUBSET Ids, NEW m, NEW n, HasRoom(m, S, n), NEW k \in Ids \ S
    PROVE  LET c == OpenPlace(m, k)
               w == Occupy(m, c, k, NoValue)
           IN  /\ c # -1 /\ m.status[c] # "OCCUPIED"
               /\ OpenOK(OpenStore(m, k, k), S \union {k}, n)
               /\ [w EXCEPT !.value[OpenPlace(w, k)] = k] = OpenStore(m, k, k)
<1> DEFINE c == OpenPlace(m, k)
           w == Occupy(m, c, k, NoValue)
<1>0. /\ OpenOK(m, S, n) /\ n \in Nat \ {0} /\ m \in OpenTables(n) /\ m.size \in Nat
      /\ k \in Nat /\ k \in Ids /\ NoValue \in Ids \union {NoValue}
    BY IdsAssumption DEF HasRoom, OpenOK, OpenTables
<1>1. PICK s : StopsAt(m, k, n, s)
    BY <1>0, OpenStops
<1>2. c = IndexOf(k + s, n) /\ s \in 0 .. n - 1
    BY <1>0, <1>1, PlaceIs DEF StopsAt
<1>3. c \in 0 .. n - 1 /\ c # -1
    <2> HIDE DEF c
    <2>1. c \in 0 .. n - 1
        BY <1>0, <1>2, ProbeCells
    <2> QED  BY <1>0, <2>1
<1>4. IsOccupied(Occupy(m, c, k, k), m, S, k, n, c)
    <2>1. IsOccupied(Occupy(m, IndexOf(k + s, n), k, k), m, S, k, n, IndexOf(k + s, n))
        BY <1>0, <1>1, OpenOccupies DEF HasRoom
    <2> QED  BY <1>2, <2>1
<1>5. m.status[c] # "OCCUPIED" /\ OpenOK(Occupy(m, c, k, k), S \union {k}, n)
    BY <1>4 DEF IsOccupied
<1>6. OpenStore(m, k, k) = Occupy(m, c, k, k)
    BY <1>5 DEF OpenStore
<1> HIDE DEF c
<1>7. /\ w \in OpenTables(n) /\ w.key[c] = k
      /\ \A i \in 0 .. n - 1 : i # c => /\ w.status[i] = m.status[i]
                                        /\ w.key[i] = m.key[i]
    <2>1. w = [m EXCEPT !.status[c] = "OCCUPIED", !.key[c] = k, !.value[c] = NoValue,
                        !.size = m.size + 1]
        BY DEF Occupy
    <2>2. m.size + 1 \in Nat
        BY <1>0
    <2> HIDE DEF w
    <2>3. IsWritten(w, m, n, c, "OCCUPIED", k, NoValue, m.size + 1)
        BY <1>0, <1>3, <2>1, <2>2, CellWritten
    <2> QED  BY <2>3, Zenon DEF IsWritten
<1>8. OpenPlace(w, k) = c
    <2> HIDE DEF w
    <2>1. \A l \in 0 .. s - 1 : IndexOf(k + l, n) \in 0 .. n - 1 /\ IndexOf(k + l, n) # c
        <3>1. \A l \in 0 .. s - 1 : l \in 0 .. n - 1 /\ l # s
            BY <1>0, <1>2
        <3> QED  BY <1>0, <1>2, <3>1, ProbeCells
    <2>2. StopsAt(w, k, n, s)
        <3>1. w.key[IndexOf(k + s, n)] = k
            BY <1>2, <1>7
        <3>2. \A l \in 0 .. s - 1 : /\ w.status[IndexOf(k + l, n)] = "OCCUPIED"
                                    /\ w.key[IndexOf(k + l, n)] # k
            BY <1>1, <1>7, <2>1 DEF StopsAt
        <3> QED  BY <1>2, <3>1, <3>2 DEF StopsAt
    <2> QED  BY <1>0, <1>2, <1>7, <2>2, PlaceIs
<1>9. [w EXCEPT !.value[c] = k] = Occupy(m, c, k, k)
    <2> DEFINE u == Occupy(m, c, k, k)
               D == 0 .. n - 1
               ST == {"EMPTY", "OCCUPIED", "DELETED"}
               V == Ids \union {NoValue}
               z == m.size + 1
               occ == "OCCUPIED"
    <2>1. /\ m \in [kind : {"open"}, status : [D -> ST], key : [D -> Nat], value : [D -> V], size : Nat]
          /\ c \in D
        BY <1>0, <1>3 DEF OpenTables
    <2>2. w = [m EXCEPT !.status[c] = occ, !.key[c] = k, !.value[c] = NoValue, !.size = z]
        BY DEF Occupy
    <2>3. u = [m EXCEPT !.status[c] = occ, !.key[c] = k, !.value[c] = k, !.size = z]
        BY DEF Occupy
    <2> HIDE DEF w, u, D, ST, V, z, occ
    <2>4. w = [kind |-> "open", status |-> [m.status EXCEPT ![c] = occ],
               key |-> [m.key EXCEPT ![c] = k], value |-> [m.value EXCEPT ![c] = NoValue],
               size |-> z]
        BY <2>1, <2>2
    <2>5. u = [kind |-> "open", status |-> [m.status EXCEPT ![c] = occ],
               key |-> [m.key EXCEPT ![c] = k], value |-> [m.value EXCEPT ![c] = k],
               size |-> z]
        BY <2>1, <2>3
    <2>6. [[m.value EXCEPT ![c] = NoValue] EXCEPT ![c] = k] = [m.value EXCEPT ![c] = k]
        BY <2>1
    <2>7. [w EXCEPT !.value[c] = k] = [w EXCEPT !.value = [w.value EXCEPT ![c] = k]]
        BY <2>4
    <2>8. w.value = [m.value EXCEPT ![c] = NoValue]
        BY <2>4
    <2>9. [w EXCEPT !.value = [m.value EXCEPT ![c] = k]] = u
        BY <2>4, <2>5
    <2>10. [w EXCEPT !.value[c] = k] = u
        BY <2>6, <2>7, <2>8, <2>9
    <2> QED  BY <2>10 DEF u
<1> QED  BY <1>3, <1>5, <1>6, <1>8, <1>9 DEF c

\* operator[] of a key of the table.
LEMMA OpenIndexes ==
    ASSUME NEW S \in SUBSET Ids, NEW m, NEW n, OpenOK(m, S, n), NEW k \in S
    PROVE  \/ /\ OpenIndex(m, k).value = k
              /\ \E N : OpenOK(OpenIndex(m, k).map, S, N)
           \/ /\ OpenPlace(m, k) \in DOMAIN m.status
              /\ m.status[OpenPlace(m, k)] = "DELETED"
              /\ OpenIndex(m, k).value = NoValue
<1> DEFINE i == OpenPlace(m, k)
           w == IF OverLoad(m) THEN ReHash(m) ELSE m
           j == OpenPlace(w, k)
           r == OpenIndex(m, k)
<1>0. n \in Nat \ {0} /\ m \in OpenTables(n) /\ k \in Nat /\ k \in Ids
    BY IdsAssumption DEF OpenOK
<1>1. PICK s : StopsAt(m, k, n, s)
    BY <1>0, OpenStops
<1>2. i = IndexOf(k + s, n) /\ s \in 0 .. n - 1
    BY <1>0, <1>1, PlaceIs DEF StopsAt
<1>3. i \in 0 .. n - 1 /\ i # -1 /\ i \in DOMAIN m.status
    <2> HIDE DEF i
    <2>1. i \in 0 .. n - 1
        BY <1>0, <1>2, ProbeCells
    <2>2. DOMAIN m.status = 0 .. n - 1
        BY <1>0, OpenCells
    <2> QED  BY <1>0, <2>1, <2>2
<1>4. r = IF m.status[i] = "OCCUPIED" THEN Result(m, m.value[i])
          ELSE IF w.status[j] = "OCCUPIED" THEN Result(w, w.value[j])
          ELSE Result(Occupy(w, j, k, NoValue), NoValue)
    BY <1>3 DEF OpenIndex
<1>5. Holds(m, i, k) \/ m.status[i] = "DELETED"
    BY <1>1, <1>2, OpenStopsOnKey
<1>6. CASE Holds(m, i, k)
    <2>1. m.value[i] = k /\ m.status[i] = "OCCUPIED"
        BY <1>3, <1>6 DEF OpenOK, Holds
    <2>2. r = Result(m, k)
        BY <1>4, <2>1
    <2>3. r.value = k /\ r.map = m
        BY <2>2 DEF Result
    <2> QED  BY <2>3
<1>7. CASE m.status[i] = "DELETED"
    <2>1. r = IF w.status[j] = "OCCUPIED" THEN Result(w, w.value[j])
              ELSE Result(Occupy(w, j, k, NoValue), NoValue)
        BY <1>4, <1>7
    <2>2. CASE OverLoad(m)
        <3> DEFINE N == 2 * n
        <3>1. OpenOK(w, S, N) /\ NoTombstone(w, N)
            BY <2>2, ReHashes
        <3>2. N \in Nat \ {0} /\ w \in OpenTables(N)
            BY <3>1 DEF OpenOK
        <3> HIDE DEF w, N, j
        <3>3. PICK t : StopsAt(w, k, N, t)
            BY <1>0, <3>1, OpenStops
        <3>4. OpenPlace(w, k) = IndexOf(k + t, N) /\ t \in 0 .. N - 1
            BY <1>0, <3>2, <3>3, PlaceIs DEF StopsAt
        <3>5. j = IndexOf(k + t, N)
            BY <3>4 DEF j
        <3>6. j \in 0 .. N - 1
            BY <1>0, <3>2, <3>4, <3>5, ProbeCells
        <3>7. Holds(w, j, k) \/ w.status[j] = "DELETED"
            BY <3>1, <3>3, <3>5, OpenStopsOnKey
        <3>8. Holds(w, j, k)
            BY <3>1, <3>6, <3>7 DEF NoTombstone
        <3>9. w.value[j] = k /\ w.status[j] = "OCCUPIED"
            BY <3>1, <3>6, <3>8 DEF OpenOK, Holds
        <3>10. r = Result(w, k)
            BY <2>1, <3>9
        <3>11. r.value = k /\ r.map = w
            BY <3>10 DEF Result
        <3> QED  BY <3>1, <3>11
    <2>3. CASE ~OverLoad(m)
        <3>1. w = m /\ j = i
            BY <2>3
        <3>2. r.value = NoValue
            BY <1>7, <2>1, <3>1 DEF Result
        <3> QED  BY <1>3, <1>7, <3>2
    <2> QED  BY <2>2, <2>3
<1> QED  BY <1>5, <1>6, <1>7

-----------------------------------------------------------------------------
(***************************************************************************)
(* The four maps behind one interface.                                      *)
(***************************************************************************)
STLOK(m, S) == m = [kind |-> "stl", map |-> [k \in S |-> k]]

\* m holds the keys of S, each with its own pointer.
MapOK(m, S) ==
    \/ m.kind = "chaining" /\ ChainingOK(m, S)
    \/ m.kind = "fixed" /\ FixedOK(m, S)
    \/ m.kind = "open" /\ \E n : OpenOK(m, S, n)
    \/ m.kind = "stl" /\ STLOK(m, S)

\* Each kind of map in turn.
LEMMA MapOKKinds ==
    ASSUME NEW m, NEW S
    PROVE  /\ ChainingOK(m, S) => MapOK(m, S)
           /\ FixedOK(m, S) => MapOK(m, S)
           /\ \A n : OpenOK(m, S, n) => MapOK(m, S)
           /\ STLOK(m, S) => MapOK(m, S)
<1>1. ChainingOK(m, S) => m.kind = "chaining"
    BY DEF ChainingOK
<1>2. FixedOK(m, S) => m.kind = "fixed"
    BY DEF FixedOK, FixedMaps
<1>3. \A n : OpenOK(m, S, n) => m.kind = "open"
    BY DEF OpenOK, OpenTables
<1>4. STLOK(m, S) => m.kind = "stl"
    BY DEF STLOK
<1> QED  BY <1>1, <1>2, <1>3, <1>4 DEF MapOK

\* A new map of any kind has no keys.
LEMMA MapInit ==
    ASSUME NEW kind \in Kinds
    PROVE  MapOK(EmptyMap(kind), {})
<1>1. CASE kind = "chaining"
    <2>1. EmptyMap(kind) = ChainingEmpty
        BY <1>1 DEF EmptyMap
    <2> QED  BY <2>1, ChainingInit, MapOKKinds
<1>2. CASE kind = "fixed"
    <2>1. EmptyMap(kind) = FixedEmpty
        BY <1>2 DEF EmptyMap
    <2> QED  BY <2>1, FixedInit, MapOKKinds
<1>3. CASE kind = "open"
    <2>1. EmptyMap(kind) = OpenTable(InitBuckets)
        BY <1>3 DEF EmptyMap, OpenEmpty
    <2>2. OpenOK(OpenTable(InitBuckets), {}, InitBuckets)
        BY BucketsPositive, OpenInit
    <2> QED  BY <2>1, <2>2, MapOKKinds
<1>4. CASE kind = "stl"
    <2>1. EmptyMap(kind) = STLEmpty
        BY <1>4 DEF EmptyMap
    <2>2. <<>> = [k \in {} |-> k]
        OBVIOUS
    <2>3. STLOK(STLEmpty, {})
        BY <2>2 DEF STLEmpty, STLOK
    <2> QED  BY <2>1, <2>3, MapOKKinds
<1> QED  BY <1>1, <1>2, <1>3, <1>4 DEF Kinds

\* find() gives the keys of the map, and contains() says the same.
LEMMA MapFinds ==
    ASSUME NEW S \in SUBSET Ids, NEW m, MapOK(m, S), NEW k \in Ids
    PROVE  /\ MapContains(m, k) <=> k \in S
           /\ MapFind(m, k) = IF k \in S THEN k ELSE NoValue
<1>1. CASE m.kind = "chaining" /\ ChainingOK(m, S)
    <2>1. /\ MapContains(m, k) = (ChainingFind(m, k) # 0)
          /\ MapFind(m, k) = ChainingGet(m, k)
        BY <1>1 DEF MapContains, MapFind
    <2>2. Len(ChainingBucket(m, k)) \in Nat
        <3>1. ChainingBucket(m, k) \in Seq(Pairs)
            BY <1>1, BucketOf DEF ChainingOK, ChainingBucket
        <3> QED  BY <3>1, LenProperties
    <2>3. /\ k \in S => ChainingFind(m, k) # 0 /\ ChainingBucket(m, k)[ChainingFind(m, k)].value = k
          /\ k \notin S => ChainingFind(m, k) = 0
        BY <1>1, <2>2, ChainingFinds
    <2> QED  BY <2>1, <2>3 DEF ChainingGet
<1>2. CASE m.kind = "fixed" /\ FixedOK(m, S)
    <2>1. /\ MapContains(m, k) = (FixedFind(m, k) # 0)
          /\ MapFind(m, k) = FixedGet(m, k)
        BY <1>2 DEF MapContains, MapFind
    <2>2. Len(FixedBucket(m, k)) \in Nat
        <3>1. FixedBucket(m, k) \in Seq(Nodes)
            BY <1>2, BucketOf DEF FixedOK, FixedMaps, FixedBucket
        <3> QED  BY <3>1, LenProperties
    <2>3. /\ k \in S => FixedFind(m, k) # 0 /\ m.nodes[FixedBucket(m, k)[FixedFind(m, k)]].value = k
          /\ k \notin S => FixedFind(m, k) = 0
        BY <1>2, <2>2, FixedFinds
    <2> QED  BY <2>1, <2>3 DEF FixedGet
<1>3. CASE m.kind = "open" /\ \E n : OpenOK(m, S, n)
    <2>1. /\ MapContains(m, k) = (OpenFind(m, k) # -1)
          /\ MapFind(m, k) = OpenGet(m, k)
        BY <1>3 DEF MapContains, MapFind
    <2>2. PICK n : OpenOK(m, S, n)
        BY <1>3
    <2>3. /\ k \in S => OpenFind(m, k) \in 0 .. n - 1 /\ Holds(m, OpenFind(m, k), k)
          /\ k \notin S => OpenFind(m, k) = -1
        BY <2>2, OpenFinds
    <2>4. k \in S => OpenFind(m, k) # -1 /\ m.value[OpenFind(m, k)] = k
        BY <2>2, <2>3 DEF OpenOK, Holds
    <2> QED  BY <2>1, <2>3, <2>4 DEF OpenGet
<1>4. CASE m.kind = "stl" /\ STLOK(m, S)
    <2>1. /\ MapContains(m, k) = (k \in DOMAIN m.map)
          /\ MapFind(m, k) = STLGet(m, k)
        BY <1>4 DEF MapContains, MapFind
    <2>2. m.map = [x \in S |-> x]
        BY <1>4 DEF STLOK
    <2> QED  BY <2>1, <2>2 DEF STLGet
<1> QED  BY <1>1, <1>2, <1>3, <1>4 DEF MapOK

\* erase() takes out its key.
LEMMA MapErases ==
    ASSUME NEW S \in SUBSET Ids, NEW m, MapOK(m, S), NEW k \in Ids
    PROVE  MapOK(MapErase(m, k), S \ {k})
<1>1. CASE m.kind = "chaining" /\ ChainingOK(m, S)
    <2>1. MapErase(m, k) = ChainingErase(m, k)
        BY <1>1 DEF MapErase
    <2> QED  BY <1>1, <2>1, ChainingErases, MapOKKinds
<1>2. CASE m.kind = "fixed" /\ FixedOK(m, S)
    <2>1. MapErase(m, k) = FixedErase(m, k)
        BY <1>2 DEF MapErase
    <2> QED  BY <1>2, <2>1, FixedErases, MapOKKinds
<1>3. CASE m.kind = "open" /\ \E n : OpenOK(m, S, n)
    <2>1. MapErase(m, k) = OpenErase(m, k)
        BY <1>3 DEF MapErase
    <2> QED  BY <1>3, <2>1, OpenErases, MapOKKinds
<1>4. CASE m.kind = "stl" /\ STLOK(m, S)
    <2>1. MapErase(m, k) = STLErase(m, k)
        BY <1>4 DEF MapErase
    <2>2. m = [kind |-> "stl", map |-> [x \in S |-> x]]
        BY <1>4 DEF STLOK
    <2>3. STLErase(m, k) = [kind |-> "stl", map |-> [x \in S \ {k} |-> x]]
        BY <2>2 DEF STLErase
    <2> QED  BY <2>1, <2>3, MapOKKinds DEF STLOK
<1> QED  BY <1>1, <1>2, <1>3, <1>4 DEF MapOK

\* Both ways to put a new key into a map: insert(), and operator[] with a store.
LEMMA MapPuts ==
    ASSUME NEW S \in SUBSET Ids, NEW m, MapOK(m, S), NEW k \in Ids \ S
    PROVE  /\ ~MapInsert(m, k, k).thrown => MapOK(MapInsert(m, k, k).map, S \union {k})
           /\ ~MapAssign(m, k, k).thrown => MapOK(MapAssign(m, k, k).map, S \union {k})
<1>0. k \in Ids /\ S \union {k} \in SUBSET Ids
    OBVIOUS
<1>1. CASE m.kind = "chaining" /\ ChainingOK(m, S)
    <2>1. ChainingFind(m, k) = 0
        BY <1>1, <1>0, ChainingFinds
    <2>2. MapIndex(m, k) = Result(ChainingPut(m, k, NoValue), NoValue)
        BY <1>1, <2>1 DEF MapIndex, ChainingIndex
    <2>3. MapIndex(m, k).map = ChainingPut(m, k, NoValue) /\ ~MapIndex(m, k).thrown
        BY <2>2 DEF Result
    <2>4. MapAssign(m, k, k) = Result(ChainingPut(ChainingPut(m, k, NoValue), k, k), k)
        BY <1>1, <2>3 DEF MapAssign
    <2>5. MapInsert(m, k, k) = Result(ChainingPut(m, k, k), NoValue)
        BY <1>1 DEF MapInsert
    <2>6. /\ ChainingOK(ChainingPut(m, k, k), S \union {k})
          /\ ChainingPut(ChainingPut(m, k, NoValue), k, k) = ChainingPut(m, k, k)
        BY <1>1, ChainingPuts
    <2>7. /\ MapInsert(m, k, k).map = ChainingPut(m, k, k)
          /\ MapAssign(m, k, k).map = ChainingPut(m, k, k)
        BY <2>4, <2>5, <2>6 DEF Result
    <2> QED  BY <2>6, <2>7, MapOKKinds
<1>2. CASE m.kind = "fixed" /\ FixedOK(m, S)
    <2>1. FixedFind(m, k) = 0
        BY <1>2, <1>0, FixedFinds
    <2>2. MapIndex(m, k) = IF m.free = <<>> THEN Thrown(m)
                           ELSE Result(FixedAppend(m, k, NoValue), NoValue)
        BY <1>2, <2>1 DEF MapIndex, FixedIndex
    <2>3. MapInsert(m, k, k) = IF m.free = <<>> THEN Thrown(m)
                               ELSE Result(FixedAppend(m, k, k), NoValue)
        BY <1>2 DEF MapInsert, FixedInsert
    <2>4. CASE m.free = <<>>
        <3>1. MapIndex(m, k).thrown /\ MapInsert(m, k, k).thrown
            BY <2>2, <2>3, <2>4 DEF Thrown
        <3>2. MapAssign(m, k, k) = MapIndex(m, k)
            BY <3>1 DEF MapAssign
        <3> QED  BY <3>1, <3>2
    <2>5. CASE m.free # <<>>
        <3> DEFINE w == FixedAppend(m, k, NoValue)
        <3>1. MapIndex(m, k).map = w /\ ~MapIndex(m, k).thrown
            BY <2>2, <2>5 DEF Result
        <3>2. MapAssign(m, k, k) =
                 Result([w EXCEPT !.nodes[FixedBucket(w, k)[FixedFind(w, k)]].value = k], k)
            BY <1>2, <3>1 DEF MapAssign
        <3>3. /\ FixedOK(FixedAppend(m, k, k), S \union {k})
              /\ [w EXCEPT !.nodes[FixedBucket(w, k)[FixedFind(w, k)]].value = k]
                    = FixedAppend(m, k, k)
            BY <1>2, <2>5, FixedAppends, FixedAssigns
        <3>4. /\ MapInsert(m, k, k).map = FixedAppend(m, k, k)
              /\ MapAssign(m, k, k).map = FixedAppend(m, k, k)
            BY <2>3, <2>5, <3>2, <3>3 DEF Result
        <3> QED  BY <3>3, <3>4, MapOKKinds
    <2> QED  BY <2>4, <2>5
<1>3. CASE m.kind = "open" /\ \E n : OpenOK(m, S, n)
    <2>1. PICK n : OpenOK(m, S, n)
        BY <1>3
    <2> DEFINE v == IF OverLoad(m) THEN ReHash(m) ELSE m
               i == OpenPlace(m, k)
               j == OpenPlace(v, k)
               w == Occupy(v, j, k, NoValue)
    <2>2. PICK N : HasRoom(v, S, N)
        <3>1. CASE OverLoad(m)
            BY <2>1, <3>1, OpenRoom
        <3>2. CASE ~OverLoad(m)
            BY <2>1, <3>2, OpenRoom
        <3> QED  BY <3>1, <3>2
    <2>3. i # -1 /\ m.status[i] # "OCCUPIED"
        <3>0. n \in Nat \ {0} /\ m \in OpenTables(n) /\ k \in Nat
            BY <2>1, IdsAssumption DEF OpenOK
        <3>1. PICK s : StopsAt(m, k, n, s)
            BY <1>0, <2>1, OpenStops
        <3>2. i = IndexOf(k + s, n) /\ s \in 0 .. n - 1
            BY <3>0, <3>1, PlaceIs DEF StopsAt
        <3> HIDE DEF i
        <3>3. i \in 0 .. n - 1
            BY <3>0, <3>2, ProbeCells
        <3>4. m.status[i] # "OCCUPIED"
            BY <2>1, <3>1, <3>2, <3>3 DEF OpenOK, StopsAt
        <3> QED  BY <3>0, <3>3, <3>4
    <2>4. /\ v.status[j] # "OCCUPIED"
          /\ OpenOK(OpenStore(v, k, k), S \union {k}, N)
          /\ [w EXCEPT !.value[OpenPlace(w, k)] = k] = OpenStore(v, k, k)
        <3> HIDE DEF v
        <3> QED  BY <2>2, OpenStores
    <2>5. MapInsert(m, k, k) = Result(OpenStore(v, k, k), NoValue)
        BY <1>3 DEF MapInsert, OpenInsert
    <2>6. MapIndex(m, k) = Result(w, NoValue)
        <3>1. MapIndex(m, k) = OpenIndex(m, k)
            BY <1>3 DEF MapIndex
        <3> QED  BY <2>3, <2>4, <3>1 DEF OpenIndex
    <2> HIDE DEF w, v
    <2>7. MapIndex(m, k).map = w /\ ~MapIndex(m, k).thrown
        BY <2>6 DEF Result
    <2>8. MapAssign(m, k, k) = Result([w EXCEPT !.value[OpenPlace(w, k)] = k], k)
        BY <1>3, <2>7 DEF MapAssign
    <2>9. /\ MapInsert(m, k, k).map = OpenStore(v, k, k)
          /\ MapAssign(m, k, k).map = OpenStore(v, k, k)
        BY <2>4, <2>5, <2>8 DEF Result
    <2> QED  BY <2>4, <2>9, MapOKKinds
<1>4. CASE m.kind = "stl" /\ STLOK(m, S)
    <2>1. m = [kind |-> "stl", map |-> [x \in S |-> x]] /\ DOMAIN m.map = S
        BY <1>4 DEF STLOK
    <2> DEFINE w == STLPut(m, k, NoValue)
               u == [kind |-> "stl", map |-> [x \in S \union {k} |-> x]]
    <2>2. STLPut(m, k, k) = u
        BY <2>1 DEF STLPut
    <2>3. w = [kind |-> "stl", map |-> [x \in S \union {k} |-> IF x = k THEN NoValue ELSE x]]
        BY <2>1 DEF STLPut
    <2>4. STLPut(w, k, k) = u
        <3> HIDE DEF w
        <3>1. DOMAIN w.map = S \union {k} /\ \A x \in S : w.map[x] = x
            BY <2>3
        <3>2. [x \in DOMAIN w.map \union {k} |-> IF x = k THEN k ELSE w.map[x]]
                 = [x \in S \union {k} |-> x]
            BY <3>1
        <3>3. STLPut(w, k, k) = [w EXCEPT !.map = [x \in S \union {k} |-> x]]
            BY <3>2 DEF STLPut
        <3> QED  BY <2>3, <3>3
    <2>5. MapInsert(m, k, k) = Result(STLPut(m, k, k), NoValue)
        BY <1>4, <2>1 DEF MapInsert, STLInsert
    <2>6. MapIndex(m, k) = Result(w, NoValue)
        BY <1>4, <2>1 DEF MapIndex, STLIndex
    <2> HIDE DEF w
    <2>7. MapIndex(m, k).map = w /\ ~MapIndex(m, k).thrown
        BY <2>6 DEF Result
    <2>8. MapAssign(m, k, k) = Result(STLPut(w, k, k), k)
        BY <1>4, <2>7 DEF MapAssign
    <2>9. MapInsert(m, k, k).map = u /\ MapAssign(m, k, k).map = u
        BY <2>2, <2>4, <2>5, <2>8 DEF Result
    <2>10. STLOK(u, S \union {k})
        BY DEF STLOK
    <2> HIDE DEF u
    <2> QED  BY <2>9, <2>10, MapOKKinds
<1> QED  BY <1>1, <1>2, <1>3, <1>4 DEF MapOK

\* operator[] of a key of the map gives its pointer, or stops at a tombstone of an
\* OpenAddressingHashMap.
LEMMA MapIndexes ==
    ASSUME NEW S \in SUBSET Ids, NEW m, MapOK(m, S), NEW k \in S
    PROVE  \/ /\ MapIndex(m, k).value = k
              /\ MapOK(MapIndex(m, k).map, S)
           \/ /\ m.kind = "open"
              /\ OpenPlace(m, k) \in DOMAIN m.status
              /\ m.status[OpenPlace(m, k)] = "DELETED"
              /\ MapIndex(m, k).value = NoValue
<1>0. k \in Ids
    OBVIOUS
<1>1. CASE m.kind = "chaining" /\ ChainingOK(m, S)
    <2>1. ChainingBucket(m, k) \in Seq(Pairs)
        BY <1>0, <1>1, BucketOf DEF ChainingOK, ChainingBucket
    <2>2. Len(ChainingBucket(m, k)) \in Nat
        BY <2>1, LenProperties
    <2>3. ChainingFind(m, k) # 0 /\ ChainingBucket(m, k)[ChainingFind(m, k)].value = k
        BY <1>0, <1>1, <2>2, ChainingFinds
    <2>4. MapIndex(m, k) = Result(m, k)
        BY <1>1, <2>3 DEF MapIndex, ChainingIndex
    <2>5. MapIndex(m, k).value = k /\ MapIndex(m, k).map = m
        BY <2>4 DEF Result
    <2> QED  BY <2>5
<1>2. CASE m.kind = "fixed" /\ FixedOK(m, S)
    <2>1. FixedBucket(m, k) \in Seq(Nodes)
        BY <1>0, <1>2, BucketOf DEF FixedOK, FixedMaps, FixedBucket
    <2>2. Len(FixedBucket(m, k)) \in Nat
        BY <2>1, LenProperties
    <2>3. FixedFind(m, k) # 0 /\ m.nodes[FixedBucket(m, k)[FixedFind(m, k)]].value = k
        BY <1>0, <1>2, <2>2, FixedFinds
    <2>4. MapIndex(m, k) = Result(m, k)
        BY <1>2, <2>3 DEF MapIndex, FixedIndex
    <2>5. MapIndex(m, k).value = k /\ MapIndex(m, k).map = m
        BY <2>4 DEF Result
    <2> QED  BY <2>5
<1>3. CASE m.kind = "open" /\ \E n : OpenOK(m, S, n)
    <2>1. MapIndex(m, k) = OpenIndex(m, k)
        BY <1>3 DEF MapIndex
    <2>2. PICK n : OpenOK(m, S, n)
        BY <1>3
    <2>3. \/ /\ OpenIndex(m, k).value = k
             /\ \E N : OpenOK(OpenIndex(m, k).map, S, N)
          \/ /\ OpenPlace(m, k) \in DOMAIN m.status
             /\ m.status[OpenPlace(m, k)] = "DELETED"
             /\ OpenIndex(m, k).value = NoValue
        BY <2>2, OpenIndexes
    <2> QED  BY <1>3, <2>1, <2>3, MapOKKinds
<1>4. CASE m.kind = "stl" /\ STLOK(m, S)
    <2>1. m.map = [x \in S |-> x]
        BY <1>4 DEF STLOK
    <2>2. MapIndex(m, k) = Result(m, k)
        BY <1>4, <2>1 DEF MapIndex, STLIndex
    <2>3. MapIndex(m, k).value = k /\ MapIndex(m, k).map = m
        BY <2>2 DEF Result
    <2> QED  BY <2>3
<1> QED  BY <1>1, <1>2, <1>3, <1>4 DEF MapOK

-----------------------------------------------------------------------------
(***************************************************************************)
(* What the quantities of a set of orders add up to.                        *)
(***************************************************************************)
\* The quantities of the orders o with the ids S; a sum takes them in the order of
\* CHOOSE.
Sum(o, S) == MapThenSumSet(LAMBDA id : o[id].quantity, S)
Pick(s)   == CHOOSE x \in s : TRUE

\* f gives the sum over every subset of S.
SumStep(o, s, f) == IF s = {} THEN 0 ELSE o[Pick(s)].quantity + f[s \ {Pick(s)}]
IsSum(f, o, S) ==
    /\ f \in [SUBSET S -> Nat]
    /\ \A s \in SUBSET S : f[s] = SumStep(o, s, f)

\* The element that is picked, and the rest.
LEMMA PickIs ==
    ASSUME NEW S, IsFiniteSet(S), NEW s \in SUBSET S, s # {}
    PROVE  /\ Pick(s) \in s /\ Pick(s) \in S /\ s \ {Pick(s)} \in SUBSET S
           /\ IsFiniteSet(s) /\ Cardinality(s) \in Nat \ {0}
           /\ Cardinality(s \ {Pick(s)}) = Cardinality(s) - 1
<1>1. Pick(s) \in s
    BY DEF Pick
<1>2. IsFiniteSet(s) /\ Cardinality(s) \in Nat
    BY FS_Subset, FS_CardinalityType
<1>3. Cardinality(s) # 0
    BY <1>2, FS_EmptySet
<1>4. Cardinality(s \ {Pick(s)}) = Cardinality(s) - 1
    BY <1>1, <1>2, FS_RemoveElement
<1> QED  BY <1>1, <1>2, <1>3, <1>4

\* There is such a function.
LEMMA SumExists ==
    ASSUME NEW S, IsFiniteSet(S), NEW o, \A x \in S : o[x].quantity \in Nat
    PROVE  \E f : IsSum(f, o, S)
<1> DEFINE P == SUBSET S
           N == Cardinality(S) + 1
           X == [P -> Nat]
           Next1(x) == [s \in P |-> SumStep(o, s, x)]
           g == [i \in 1 .. N |-> [x \in X |-> Next1(x)]]
           x0 == [s \in P |-> 0]
<1>1. Cardinality(S) \in Nat /\ N \in Nat \ {0}
    BY FS_CardinalityType
<1>2. \A x \in X : Next1(x) \in X
    <2>1. ASSUME NEW x \in X, NEW s \in P PROVE SumStep(o, s, x) \in Nat
        <3>1. CASE s = {}
            BY <3>1 DEF SumStep
        <3>2. CASE s # {}
            <4>1. Pick(s) \in S /\ s \ {Pick(s)} \in P
                BY <3>2, PickIs
            <4> QED  BY <3>2, <4>1 DEF SumStep
        <3> QED  BY <3>1, <3>2
    <2> HIDE DEF P
    <2> QED  BY <2>1
<1>3. g \in [1 .. N -> [X -> X]] /\ x0 \in X
    <2>1. x0 \in X
        OBVIOUS
    <2> HIDE DEF X, Next1, x0
    <2> QED  BY <1>2, <2>1
<1>4. \A i \in 1 .. N, x \in X : g[i][x] = Next1(x)
    BY Zenon
<1> HIDE DEF g, x0, X, N
<1>5. PICK F : GoesBy(F, g, x0, N, X)
    BY <1>1, <1>3, RecursiveFunction
<1>6. F \in [0 .. N -> X] /\ F[0] = x0 /\ \A i \in 1 .. N : F[i] = g[i][F[i - 1]]
    BY <1>5, Zenon DEF GoesBy
<1>7. \A i \in 1 .. N : i - 1 \in 0 .. N /\ F[i - 1] \in X /\ F[i] = Next1(F[i - 1])
    <2>1. \A i \in 1 .. N : i - 1 \in 0 .. N
        BY <1>1
    <2> HIDE DEF Next1
    <2> QED  BY <1>4, <1>6, <2>1
<1>8. \A i \in 1 .. N, s \in P : F[i][s] = SumStep(o, s, F[i - 1])
    BY <1>7
<1> DEFINE Settled(i) == \A s \in P : Cardinality(s) <= i => F[i + 1][s] = F[i][s]
           T == {i \in 0 .. N - 1 : Settled(i)}
<1>9. 0 \in T
    <2>1. ASSUME NEW s \in P, Cardinality(s) <= 0 PROVE F[0 + 1][s] = F[0][s]
        <3>1. s = {}
            <4>1. s # {} => Cardinality(s) \in Nat \ {0}
                BY PickIs
            <4> QED  BY <2>1, <4>1
        <3>2. F[0][s] = 0
            BY <1>6 DEF x0
        <3>3. 1 \in 1 .. N
            BY <1>1
        <3>4. F[1][s] = 0
            BY <1>8, <3>1, <3>3 DEF SumStep
        <3> QED  BY <3>2, <3>4
    <2>2. 0 \in 0 .. N - 1
        BY <1>1
    <2> QED  BY <2>1, <2>2
<1>10. ASSUME NEW i \in 0 .. (N - 1) - 1, i \in T PROVE i + 1 \in T
    <2>1. i + 1 \in 1 .. N /\ i + 2 \in 1 .. N /\ (i + 2) - 1 = i + 1 /\ (i + 1) - 1 = i
          /\ (i + 1) + 1 = i + 2 /\ i + 1 \in 0 .. N - 1
        BY <1>1
    <2>2. ASSUME NEW s \in P, Cardinality(s) <= i + 1 PROVE F[(i + 1) + 1][s] = F[i + 1][s]
        <3>1. F[i + 2][s] = SumStep(o, s, F[i + 1]) /\ F[i + 1][s] = SumStep(o, s, F[i])
            <4> HIDE DEF P
            <4> QED  BY <1>8, <2>1
        <3>2. CASE s = {}
            BY <2>1, <3>1, <3>2 DEF SumStep
        <3>3. CASE s # {}
            <4>1. /\ s \ {Pick(s)} \in P /\ Cardinality(s) \in Nat
                  /\ Cardinality(s \ {Pick(s)}) = Cardinality(s) - 1
                BY <3>3, PickIs
            <4>2. Cardinality(s \ {Pick(s)}) <= i
                BY <2>2, <4>1
            <4>3. F[i + 1][s \ {Pick(s)}] = F[i][s \ {Pick(s)}]
                BY <1>10, <4>1, <4>2
            <4> QED  BY <2>1, <3>1, <3>3, <4>3 DEF SumStep
        <3> QED  BY <3>2, <3>3
    <2> QED  BY <2>1, <2>2
<1>11. Settled(N - 1)
    <2> HIDE DEF T, Settled
    <2>1. N - 1 \in Nat
        BY <1>1
    <2>2. \A i \in 0 .. N - 1 : i \in T
        BY <1>9, <1>10, <2>1, UpTo
    <2>3. N - 1 \in T
        BY <2>1, <2>2
    <2> QED  BY <2>3, Zenon DEF T
<1> HIDE DEF T
<1> DEFINE f == F[N - 1]
<1>12. f \in X
    <2>1. N - 1 \in 0 .. N
        BY <1>1
    <2> QED  BY <1>6, <2>1
<1>13. ASSUME NEW s \in P PROVE f[s] = SumStep(o, s, f)
    <2>1. Cardinality(s) <= N - 1
        <3>1. Cardinality(s) <= Cardinality(S)
            BY FS_Subset
        <3> QED  BY <1>1, <3>1 DEF N
    <2>2. (N - 1) + 1 = N /\ N \in 1 .. N
        BY <1>1
    <2>3. F[N][s] = F[N - 1][s]
        BY <1>11, <2>1, <2>2
    <2>4. F[N][s] = SumStep(o, s, F[N - 1])
        BY <1>8, <2>2
    <2> QED  BY <2>3, <2>4
<1> HIDE DEF f
<1>14. IsSum(f, o, S)
    BY <1>12, <1>13 DEF IsSum, X
<1> QED  BY <1>14

\* Two such functions agree on a set that both know.
LEMMA SumUnique ==
    ASSUME NEW S, IsFiniteSet(S), NEW o, NEW f, NEW h,
           \A s \in SUBSET S : f[s] = SumStep(o, s, f),
           \A s \in SUBSET S : h[s] = SumStep(o, s, h)
    PROVE  f[S] = h[S]
<1> DEFINE N == Cardinality(S)
           P == SUBSET S
           T == {i \in 0 .. N : \A s \in P : Cardinality(s) = i => f[s] = h[s]}
<1>1. N \in Nat
    BY FS_CardinalityType
<1>2. 0 \in T
    <2>1. ASSUME NEW s \in P, Cardinality(s) = 0 PROVE f[s] = h[s]
        <3>1. s = {}
            BY <2>1, PickIs
        <3>2. f[s] = SumStep(o, s, f) /\ h[s] = SumStep(o, s, h)
            OBVIOUS
        <3> QED  BY <3>1, <3>2 DEF SumStep
    <2>2. 0 \in 0 .. N
        BY <1>1
    <2> QED  BY <2>1, <2>2
<1>3. ASSUME NEW i \in 0 .. N - 1, i \in T PROVE i + 1 \in T
    <2>1. i + 1 \in 0 .. N
        BY <1>1
    <2>2. ASSUME NEW s \in P, Cardinality(s) = i + 1 PROVE f[s] = h[s]
        <3>1. s # {}
            <4>1. Cardinality(s) # 0
                BY <2>2
            <4> QED  BY <4>1, FS_EmptySet
        <3>2. /\ s \ {Pick(s)} \in P /\ Cardinality(s \ {Pick(s)}) = Cardinality(s) - 1
            BY <3>1, PickIs
        <3>3. Cardinality(s \ {Pick(s)}) = i
            BY <2>2, <3>2
        <3>4. f[s \ {Pick(s)}] = h[s \ {Pick(s)}]
            BY <1>3, <3>2, <3>3
        <3>5. f[s] = SumStep(o, s, f) /\ h[s] = SumStep(o, s, h)
            OBVIOUS
        <3> QED  BY <3>1, <3>4, <3>5 DEF SumStep
    <2> QED  BY <2>1, <2>2
<1>4. N \in T
    <2> HIDE DEF T, N
    <2>1. \A i \in 0 .. N : i \in T
        BY <1>1, <1>2, <1>3, UpTo
    <2>2. N \in 0 .. N
        BY <1>1
    <2> QED  BY <2>1, <2>2
<1> QED  BY <1>4

\* Such a function gives what MapThenSumSet gives.
LEMMA SumIs ==
    ASSUME NEW S, IsFiniteSet(S), NEW o, NEW f, IsSum(f, o, S), NEW U \in SUBSET S
    PROVE  Sum(o, U) = f[U]
<1> DEFINE Def(x) == [s \in SUBSET U |->
                        IF s = {} THEN 0 ELSE o[Pick(s)].quantity + x[s \ {Pick(s)}]]
           h == CHOOSE x : x = Def(x)
           r == [s \in SUBSET U |-> f[s]]
<1>0. IsFiniteSet(U)
    BY FS_Subset
<1>1. r = Def(r)
    <2>1. ASSUME NEW s \in SUBSET U PROVE r[s] = Def(r)[s]
        <3>1. s \in SUBSET S /\ r[s] = f[s] /\ f[s] = SumStep(o, s, f)
            BY DEF IsSum
        <3>2. CASE s = {}
            BY <3>1, <3>2 DEF SumStep
        <3>3. CASE s # {}
            <4>1. s \ {Pick(s)} \in SUBSET U
                OBVIOUS
            <4>2. r[s \ {Pick(s)}] = f[s \ {Pick(s)}]
                BY <4>1
            <4>3. Def(r)[s] = o[Pick(s)].quantity + r[s \ {Pick(s)}]
                BY <3>3
            <4> HIDE DEF Def, r
            <4> QED  BY <3>1, <3>3, <4>2, <4>3 DEF SumStep
        <3> QED  BY <3>2, <3>3
    <2>2. r = [s \in SUBSET U |-> r[s]] /\ Def(r) = [s \in SUBSET U |-> Def(r)[s]]
        OBVIOUS
    <2> HIDE DEF Def, r
    <2> QED  BY <2>1, <2>2
<1>2. h = Def(h)
    BY <1>1, Zenon
<1>3. Sum(o, U) = h[U]
    BY Zenon DEF Sum, MapThenSumSet, MapThenFoldSet, Pick
<1> HIDE DEF h
<1>4. \A s \in SUBSET U : h[s] = SumStep(o, s, h)
    <2>1. \A s \in SUBSET U : h[s] = Def(h)[s]
        BY <1>2, Zenon
    <2> QED  BY <2>1, Zenon DEF SumStep
<1>5. \A s \in SUBSET U : f[s] = SumStep(o, s, f)
    BY DEF IsSum
<1>6. f[U] = h[U]
    BY <1>0, <1>4, <1>5, SumUnique
<1> QED  BY <1>3, <1>6

\* Any element may be taken out first.
LEMMA SumTakes ==
    ASSUME NEW S, IsFiniteSet(S), NEW o, \A x \in S : o[x].quantity \in Nat,
           NEW f, IsSum(f, o, S), NEW x \in S
    PROVE  f[S] = o[x].quantity + f[S \ {x}]
<1> DEFINE N == Cardinality(S)
           P == SUBSET S
           q(y) == o[y].quantity
           T == {i \in 0 .. N : \A s \in P : Cardinality(s) = i =>
                                   \A y \in s : f[s] = q(y) + f[s \ {y}]}
<1>1. N \in Nat
    BY FS_CardinalityType
<1>2. f \in [P -> Nat] /\ \A s \in P : s # {} => f[s] = q(Pick(s)) + f[s \ {Pick(s)}]
    BY DEF IsSum, SumStep
<1>3. 0 \in T
    <2>1. ASSUME NEW s \in P, Cardinality(s) = 0 PROVE s = {}
        <3>1. s # {} => Cardinality(s) \in Nat \ {0}
            BY PickIs
        <3> QED  BY <2>1, <3>1
    <2>2. 0 \in 0 .. N
        BY <1>1
    <2> QED  BY <2>1, <2>2
<1>4. ASSUME NEW i \in 0 .. N - 1, i \in T PROVE i + 1 \in T
    <2>1. i + 1 \in 0 .. N
        BY <1>1
    <2>2. ASSUME NEW s \in P, Cardinality(s) = i + 1, NEW y \in s
          PROVE  f[s] = q(y) + f[s \ {y}]
        <3> DEFINE z == Pick(s)
        <3>1. s # {}
            OBVIOUS
        <3>2. z \in s /\ IsFiniteSet(s) /\ f[s] = q(z) + f[s \ {z}]
            BY <1>2, <3>1, PickIs
        <3> HIDE DEF z
        <3>3. CASE y = z
            BY <3>2, <3>3
        <3>4. CASE y # z
            <4>1. s \ {z} \in P /\ s \ {y} \in P /\ y \in s \ {z} /\ z \in s \ {y}
                BY <3>2, <3>4
            <4>2. Cardinality(s \ {z}) = i /\ Cardinality(s \ {y}) = i
                <5>1. Cardinality(s \ {z}) = Cardinality(s) - 1
                    BY <3>2, FS_RemoveElement
                <5>2. Cardinality(s \ {y}) = Cardinality(s) - 1
                    BY <3>2, FS_RemoveElement
                <5> QED  BY <2>2, <5>1, <5>2
            <4>3. \A t \in P : Cardinality(t) = i => \A w \in t : f[t] = q(w) + f[t \ {w}]
                BY <1>4
            <4>4. f[s \ {z}] = q(y) + f[(s \ {z}) \ {y}] /\ f[s \ {y}] = q(z) + f[(s \ {y}) \ {z}]
                <5> HIDE DEF q, T
                <5> QED  BY <4>1, <4>2, <4>3
            <4>5. (s \ {z}) \ {y} = (s \ {y}) \ {z} /\ (s \ {y}) \ {z} \in P
                BY <4>1
            <4>6. q(y) \in Nat /\ q(z) \in Nat /\ f[(s \ {y}) \ {z}] \in Nat
                BY <1>2, <3>2, <4>5
            <4>7. \A a, b, c \in Nat : a + (b + c) = b + (a + c)
                OBVIOUS
            <4> DEFINE F == f[(s \ {y}) \ {z}]
            <4>8. f[s] = q(z) + (q(y) + F) /\ q(y) + f[s \ {y}] = q(y) + (q(z) + F)
                BY <3>2, <4>4, <4>5, Zenon
            <4>9. q(y) \in Nat /\ q(z) \in Nat /\ F \in Nat
                BY <4>6
            <4> HIDE DEF q, T, F
            <4>10. q(z) + (q(y) + F) = q(y) + (q(z) + F)
                BY <4>7, <4>9
            <4> QED  BY <4>8, <4>10, Zenon
        <3> QED  BY <3>3, <3>4
    <2> QED  BY <2>1, <2>2
<1>5. N \in T
    <2> HIDE DEF T, N
    <2>1. \A i \in 0 .. N : i \in T
        BY <1>1, <1>3, <1>4, UpTo
    <2>2. N \in 0 .. N
        BY <1>1
    <2> QED  BY <2>1, <2>2
<1> QED  BY <1>5

\* A sum is a number; it is 0 for no orders.
LEMMA SumNat ==
    ASSUME NEW S, IsFiniteSet(S), NEW o, \A x \in S : o[x].quantity \in Nat
    PROVE  Sum(o, S) \in Nat /\ Sum(o, {}) = 0
<1>1. PICK f : IsSum(f, o, S)
    BY SumExists
<1>2. Sum(o, S) = f[S] /\ Sum(o, {}) = f[{}]
    BY <1>1, SumIs
<1>3. f[S] \in Nat /\ f[{}] = 0
    BY <1>1 DEF IsSum, SumStep
<1> QED  BY <1>2, <1>3

\* One order more adds its quantity.
LEMMA SumWith ==
    ASSUME NEW S, IsFiniteSet(S), NEW x, x \notin S, NEW o,
           \A y \in S \union {x} : o[y].quantity \in Nat
    PROVE  Sum(o, S \union {x}) = Sum(o, S) + o[x].quantity
<1> DEFINE U == S \union {x}
<1>1. IsFiniteSet(U)
    BY FS_AddElement
<1>2. \A y \in U : o[y].quantity \in Nat
    OBVIOUS
<1>3. U \ {x} = S /\ x \in U /\ S \in SUBSET U /\ U \in SUBSET U
    OBVIOUS
<1> HIDE DEF U
<1>4. PICK f : IsSum(f, o, U)
    BY <1>1, <1>2, SumExists
<1>5. Sum(o, U) = f[U] /\ Sum(o, S) = f[S]
    BY <1>1, <1>3, <1>4, SumIs
<1>6. f[U] = o[x].quantity + f[U \ {x}]
    BY <1>1, <1>2, <1>3, <1>4, SumTakes
<1>7. f[S] \in Nat /\ o[x].quantity \in Nat
    BY <1>2, <1>3, <1>4 DEF IsSum
<1>8. Sum(o, U) = Sum(o, S) + o[x].quantity
    <2>1. \A a, b \in Nat : a + b = b + a
        OBVIOUS
    <2>2. o[x].quantity + f[S] = f[S] + o[x].quantity
        BY <1>7, <2>1, Zenon
    <2> QED  BY <1>3, <1>5, <1>6, <2>2, Zenon
<1> QED  BY <1>8 DEF U

\* The sum depends on the quantities of the set alone.
LEMMA SumSame ==
    ASSUME NEW S, IsFiniteSet(S), NEW o, \A x \in S : o[x].quantity \in Nat,
           NEW p, \A x \in S : p[x].quantity = o[x].quantity
    PROVE  Sum(p, S) = Sum(o, S)
<1>1. PICK f : IsSum(f, o, S)
    BY SumExists
<1>2. IsSum(f, p, S)
    <2>1. ASSUME NEW s \in SUBSET S PROVE SumStep(p, s, f) = SumStep(o, s, f)
        <3>1. CASE s = {}
            BY <3>1 DEF SumStep
        <3>2. CASE s # {}
            <4>1. Pick(s) \in S
                BY <3>2, PickIs
            <4> QED  BY <3>2, <4>1 DEF SumStep
        <3> QED  BY <3>1, <3>2
    <2> QED  BY <1>1, <2>1 DEF IsSum
<1>3. S \in SUBSET S
    OBVIOUS
<1>4. Sum(o, S) = f[S]
    BY <1>1, <1>3, SumIs
<1>5. Sum(p, S) = f[S]
    BY <1>2, <1>3, SumIs
<1> QED  BY <1>4, <1>5

\* There is something on a level that has an order.
LEMMA SumPositive ==
    ASSUME NEW S, IsFiniteSet(S), NEW o, \A x \in S : o[x].quantity \in Nat \ {0}
    PROVE  Sum(o, S) \in Nat /\ (Sum(o, S) > 0 <=> S # {})
<1>1. Sum(o, S) \in Nat /\ Sum(o, {}) = 0
    BY SumNat
<1>2. ASSUME S # {} PROVE Sum(o, S) > 0
    <2>1. PICK x \in S : TRUE
        BY <1>2
    <2> DEFINE R == S \ {x}
    <2>2. IsFiniteSet(R) /\ x \notin R /\ R \union {x} = S
        BY FS_RemoveElement
    <2>3. \A y \in R \union {x} : o[y].quantity \in Nat
        BY <2>2
    <2> HIDE DEF R
    <2>4. Sum(o, R \union {x}) = Sum(o, R) + o[x].quantity
        BY <2>2, <2>3, SumWith
    <2>5. Sum(o, R) \in Nat
        BY <2>2, <2>3, SumNat
    <2>6. o[x].quantity \in Nat \ {0}
        OBVIOUS
    <2>7. \A a \in Nat, b \in Nat \ {0} : a + b > 0
        OBVIOUS
    <2> QED  BY <2>2, <2>4, <2>5, <2>6, <2>7
<1> QED  BY <1>1, <1>2

-----------------------------------------------------------------------------
(***************************************************************************)
(* The price levels.                                                        *)
(***************************************************************************)
\* The ids of the orders o on a level, what they add up to, and what one order
\* adds to a level.
At(o, s, i)       == {id \in DOMAIN o : o[id].side = s /\ priceToIndex(o[id].price) = i}
Amount(o, s, i)   == Sum(o, At(o, s, i))
Share(order, s, i) == IF order.side = s /\ priceToIndex(order.price) = i
                      THEN order.quantity ELSE 0

\* Finitely many orders of the book.
BookOrders(o) == /\ IsFiniteSet(DOMAIN o) /\ DOMAIN o \in SUBSET Ids
                 /\ o \in [DOMAIN o -> Order]

\* A price falls on a level of the board.
LEMMA OnTheBoard ==
    ASSUME NEW p \in Prices
    PROVE  priceToIndex(p) \in Levels
<1> DEFINE c == PriceSteps
           M == MaxPriceLevels
           q == p \div c
           r == p % c
<1>1. c \in Nat \ {0} /\ M \in Nat \ {0} /\ p \in 0 .. M * c - 1
    BY StepAssumption, LevelAssumption, PricesAssumption
<1>2. M * c \in Nat /\ M * c = c * M /\ p \in Nat /\ p < c * M
    BY <1>1
<1>3. q \in Nat /\ r \in Nat /\ p = c * q + r
    BY <1>1, <1>2, DivMod
<1> HIDE DEF c, M, q, r
<1>4. CASE M < q
    <2>1. c * q >= c * M + c
        BY <1>1, <1>3, <1>4, WholeTurn
    <2>2. c * q \in Int /\ c * M \in Int
        BY <1>1, <1>3
    <2> QED  BY <1>1, <1>2, <1>3, <2>1, <2>2
<1>5. CASE M = q
    <2>1. c * q \in Int /\ c * M \in Int
        BY <1>1, <1>3
    <2> QED  BY <1>1, <1>2, <1>3, <1>5, <2>1
<1>6. CASE q < M
    <2>1. q \in 0 .. M - 1
        BY <1>1, <1>3, <1>6
    <2> QED  BY <2>1 DEF q, M, c, priceToIndex, Levels
<1> QED  BY <1>1, <1>3, <1>4, <1>5, <1>6

\* What a level holds is a number, and none without an order.
LEMMA AmountIs ==
    ASSUME NEW o, BookOrders(o), NEW s, NEW i
    PROVE  /\ IsFiniteSet(At(o, s, i)) /\ \A id \in DOMAIN o : o[id].quantity \in Nat \ {0}
           /\ Amount(o, s, i) \in Nat /\ (Amount(o, s, i) > 0 <=> At(o, s, i) # {})
<1>1. At(o, s, i) \in SUBSET DOMAIN o
    BY DEF At
<1>2. IsFiniteSet(At(o, s, i))
    BY <1>1, FS_Subset DEF BookOrders
<1>3. \A id \in DOMAIN o : o[id].quantity \in Nat \ {0}
    BY QuantityAssumption DEF BookOrders, Order
<1>4. \A id \in At(o, s, i) : o[id].quantity \in Nat \ {0}
    BY <1>1, <1>3
<1>5. Sum(o, At(o, s, i)) \in Nat /\ (Sum(o, At(o, s, i)) > 0 <=> At(o, s, i) # {})
    BY <1>2, <1>4, SumPositive
<1> QED  BY <1>2, <1>3, <1>5 DEF Amount

\* The book o with one order more.
With(o, id, order) == [x \in DOMAIN o \union {id} |-> IF x = id THEN order ELSE o[x]]

\* An order adds its quantity to its level.
LEMMA AmountWith ==
    ASSUME NEW o, BookOrders(o), NEW id \in Ids, id \notin DOMAIN o, NEW order \in Order,
           NEW s, NEW i
    PROVE  /\ BookOrders(With(o, id, order))
           /\ Amount(With(o, id, order), s, i) = Amount(o, s, i) + Share(order, s, i)
<1> DEFINE p == With(o, id, order)
           A == At(o, s, i)
           B == At(p, s, i)
<1>1. /\ DOMAIN p = DOMAIN o \union {id} /\ p[id] = order
      /\ \A x \in DOMAIN o : p[x] = o[x]
    BY DEF With
<1>2. BookOrders(p)
    <2>1. IsFiniteSet(DOMAIN o \union {id})
        BY FS_AddElement DEF BookOrders
    <2>2. p \in [DOMAIN o \union {id} -> Order]
        BY DEF With, BookOrders
    <2> HIDE DEF p
    <2> QED  BY <1>1, <2>1, <2>2 DEF BookOrders
<1>3. IsFiniteSet(A) /\ Amount(o, s, i) \in Nat /\ \A x \in DOMAIN o : o[x].quantity \in Nat \ {0}
    BY AmountIs
<1>4. \A x \in DOMAIN p : p[x].quantity \in Nat \ {0}
    <2> HIDE DEF p
    <2> QED  BY <1>2, AmountIs
<1> HIDE DEF p
<1>5. A \in SUBSET DOMAIN o /\ id \notin A
    BY DEF At
<1>6. Sum(p, A) = Sum(o, A)
    <2>1. \A x \in A : o[x].quantity \in Nat /\ p[x].quantity = o[x].quantity
        BY <1>1, <1>3, <1>5
    <2> HIDE DEF A
    <2> QED  BY <1>3, <2>1, SumSame
<1>7. CASE order.side = s /\ priceToIndex(order.price) = i
    <2>1. B = A \union {id}
        BY <1>1, <1>7 DEF At
    <2>2. \A x \in A \union {id} : p[x].quantity \in Nat
        BY <1>1, <1>4, <1>5
    <2> HIDE DEF A, B
    <2>3. Sum(p, A \union {id}) = Sum(p, A) + p[id].quantity
        BY <1>3, <1>5, <2>2, SumWith
    <2>4. Share(order, s, i) = p[id].quantity
        BY <1>1, <1>7 DEF Share
    <2> QED  BY <1>2, <1>6, <2>1, <2>3, <2>4 DEF Amount, A, B, p
<1>8. CASE ~(order.side = s /\ priceToIndex(order.price) = i)
    <2>1. B = A
        BY <1>1, <1>8 DEF At
    <2>2. Share(order, s, i) = 0
        BY <1>8 DEF Share
    <2>3. Amount(p, s, i) = Amount(o, s, i)
        BY <1>6, <2>1 DEF Amount
    <2>4. \A a \in Nat : a = a + 0
        OBVIOUS
    <2> QED  BY <1>2, <1>3, <2>2, <2>3, <2>4 DEF p
<1> QED  BY <1>7, <1>8

\* The book o without one of its orders.
Without(o, id) == [x \in DOMAIN o \ {id} |-> o[x]]

\* What the other orders leave on a level.
LEMMA AmountWithout ==
    ASSUME NEW o, BookOrders(o), NEW id \in DOMAIN o, NEW s, NEW i
    PROVE  /\ BookOrders(Without(o, id))
           /\ Amount(o, s, i) = Amount(Without(o, id), s, i) + Share(o[id], s, i)
<1> DEFINE p == Without(o, id)
<1>1. DOMAIN p = DOMAIN o \ {id} /\ \A x \in DOMAIN o \ {id} : p[x] = o[x]
    BY DEF Without
<1>2. BookOrders(p)
    <2>1. IsFiniteSet(DOMAIN o \ {id})
        BY FS_RemoveElement DEF BookOrders
    <2>2. p \in [DOMAIN o \ {id} -> Order]
        BY DEF Without, BookOrders
    <2>3. DOMAIN o \ {id} \in SUBSET Ids
        BY DEF BookOrders
    <2> HIDE DEF p
    <2> QED  BY <1>1, <2>1, <2>2, <2>3 DEF BookOrders
<1> HIDE DEF p
<1>3. id \in Ids /\ o[id] \in Order /\ id \notin DOMAIN p
    BY <1>1 DEF BookOrders
<1>4. With(p, id, o[id]) = o
    <2>1. DOMAIN p \union {id} = DOMAIN o
        BY <1>1
    <2>2. With(p, id, o[id]) = [x \in DOMAIN o |-> IF x = id THEN o[id] ELSE p[x]]
        BY <2>1 DEF With
    <2>3. o = [x \in DOMAIN o |-> o[x]]
        BY DEF BookOrders
    <2>4. \A x \in DOMAIN o : o[x] = IF x = id THEN o[id] ELSE p[x]
        BY <1>1
    <2> QED  BY <2>2, <2>3, <2>4
<1>5. Amount(With(p, id, o[id]), s, i) = Amount(p, s, i) + Share(o[id], s, i)
    <2> DEFINE ord == o[id]
    <2>1. ord \in Order
        BY <1>3
    <2> HIDE DEF ord
    <2>2. Amount(With(p, id, ord), s, i) = Amount(p, s, i) + Share(ord, s, i)
        BY <1>2, <1>3, <2>1, AmountWith
    <2> QED  BY <2>2 DEF ord
<1> QED  BY <1>2, <1>4, <1>5 DEF p

\* An order with another quantity, alone and in the book o.
Amended(order, q)    == [order EXCEPT !.quantity = q]
AmendedIn(o, id, q) == [o EXCEPT ![id].quantity = q]

\* An order whose quantity changes moves its level by the difference.
LEMMA AmountUpdate ==
    ASSUME NEW o, BookOrders(o), NEW id \in DOMAIN o, NEW q \in Quantities, NEW s, NEW i
    PROVE  /\ BookOrders(AmendedIn(o, id, q)) /\ DOMAIN AmendedIn(o, id, q) = DOMAIN o
           /\ Amount(AmendedIn(o, id, q), s, i)
                 = Amount(Without(o, id), s, i) + Share(Amended(o[id], q), s, i)
<1> DEFINE p == Without(o, id)
           u == AmendedIn(o, id, q)
           ord == Amended(o[id], q)
<1>0. u = [o EXCEPT ![id].quantity = q] /\ ord = [o[id] EXCEPT !.quantity = q]
    BY DEF Amended, AmendedIn
<1> HIDE DEF u, ord
<1>1. /\ DOMAIN o \in SUBSET Ids /\ IsFiniteSet(DOMAIN o) /\ o \in [DOMAIN o -> Order]
    BY DEF BookOrders
<1>2. o[id] \in Order
    BY <1>1
<1>3. ord \in Order
    BY <1>0, <1>2 DEF Order
<1>4. u \in [DOMAIN o -> Order] /\ DOMAIN u = DOMAIN o
    BY <1>0, <1>1, <1>3
<1>5. DOMAIN p = DOMAIN o \ {id} /\ \A x \in DOMAIN o \ {id} : p[x] = o[x]
    BY DEF Without
<1>6. u = [x \in DOMAIN o |-> IF x = id THEN ord ELSE o[x]]
    BY <1>0, <1>1
<1>7. With(p, id, ord) = [x \in DOMAIN o |-> IF x = id THEN ord ELSE o[x]]
    <2> HIDE DEF p
    <2>1. DOMAIN p \union {id} = DOMAIN o
        BY <1>5
    <2> QED  BY <2>1, <1>5 DEF With
<1>8. BookOrders(p)
    BY AmountWithout
<1>9. id \in Ids /\ id \notin DOMAIN p
    BY <1>1, <1>5
<1> HIDE DEF p
<1>10. /\ BookOrders(With(p, id, ord))
       /\ Amount(With(p, id, ord), s, i) = Amount(p, s, i) + Share(ord, s, i)
    BY <1>3, <1>8, <1>9, AmountWith
<1>11. u = With(p, id, ord)
    BY <1>6, <1>7
<1> QED  BY <1>4, <1>10, <1>11 DEF p, u, ord

-----------------------------------------------------------------------------
(***************************************************************************)
(* The top of a side: the first level that has a quantity, or, when none    *)
(* has, an index that no level comes behind.                                *)
(***************************************************************************)
TopOK(lv, b, s) ==
    \/ /\ b \in Levels
       /\ lv[b] > 0
       /\ \A i \in Levels : Before(s, i, b) => lv[i] = 0
    \/ \A i \in Levels : lv[i] = 0 /\ (Before(s, i, b) \/ i = b)

\* An inserted order keeps the best index at the top.
LEMMA TopInsert ==
    ASSUME NEW s \in Sides, NEW lv \in [Levels -> Nat], NEW b \in Int, TopOK(lv, b, s),
           NEW idx \in Levels, NEW q \in Nat \ {0}
    PROVE  TopOK([lv EXCEPT ![idx] = @ + q], IF Before(s, idx, b) THEN idx ELSE b, s)
<1> DEFINE nv == [lv EXCEPT ![idx] = @ + q]
<1>1. Levels \in SUBSET Int
    BY LevelAssumption DEF Levels
<1>2. nv \in [Levels -> Nat] /\ nv[idx] > 0 /\ \A i \in Levels \ {idx} : nv[i] = lv[i]
    OBVIOUS
<1>3. lv[idx] \in Nat /\ nv[idx] >= lv[idx]
    OBVIOUS
<1> HIDE DEF nv
<1>4. CASE Before(s, idx, b)
    <2>1. \A i \in Levels : Before(s, i, idx) => i # idx /\ Before(s, i, b)
        BY <1>1, <1>4 DEF Before
    <2>2. \A i \in Levels : Before(s, i, b) => lv[i] = 0
        BY DEF TopOK
    <2>3. \A i \in Levels : Before(s, i, idx) => nv[i] = 0
        BY <1>2, <2>1, <2>2
    <2> QED  BY <1>2, <1>4, <2>3 DEF TopOK, nv
<1>5. CASE ~Before(s, idx, b)
    <2>1. \A i \in Levels : Before(s, i, b) => i # idx /\ lv[i] = 0
        BY <1>5 DEF TopOK
    <2>2. \A i \in Levels : Before(s, i, b) => nv[i] = 0
        BY <1>2, <2>1
    <2>3. b \in Levels /\ nv[b] > 0
        <3>1. CASE b = idx
            BY <1>2, <3>1
        <3>2. CASE b # idx
            <4>1. ~ \A i \in Levels : lv[i] = 0 /\ (Before(s, i, b) \/ i = b)
                BY <1>5, <3>2
            <4>2. b \in Levels /\ lv[b] > 0
                BY <4>1 DEF TopOK
            <4> QED  BY <1>2, <3>2, <4>2
        <3> QED  BY <3>1, <3>2
    <2> QED  BY <1>5, <2>2, <2>3 DEF TopOK, nv
<1> QED  BY <1>4, <1>5

\* A set of levels that is not empty has one that comes before the others.
LEMMA FirstOf ==
    ASSUME NEW s \in Sides, NEW T \in SUBSET Levels, T # {}
    PROVE  \E i \in T : \A j \in T \ {i} : Before(s, i, j)
<1>1. MaxPriceLevels \in Nat
    BY LevelAssumption
<1>2. CASE s = "ask"
    <2>1. T \in SUBSET Nat
        BY <1>1 DEF Levels
    <2>2. \E i \in T : \A j \in T : i <= j
        BY <2>1, LeastNat
    <2> QED  BY <1>2, <2>1, <2>2 DEF Before
<1>3. CASE s = "bid"
    <2> DEFINE R == {MaxPriceLevels - 1 - i : i \in T}
    <2>1. \A i \in T : MaxPriceLevels - 1 - i \in Nat /\ i \in Nat
        BY <1>1 DEF Levels
    <2>2. R \in SUBSET Nat /\ R # {}
        BY <2>1
    <2> HIDE DEF R
    <2>3. PICK r \in R : \A x \in R : r <= x
        BY <2>2, LeastNat
    <2>4. PICK i \in T : r = MaxPriceLevels - 1 - i
        BY <2>3 DEF R
    <2>5. \A j \in T : r <= MaxPriceLevels - 1 - j
        BY <2>3 DEF R
    <2>6. \A j \in T \ {i} : i > j
        BY <1>1, <2>1, <2>4, <2>5
    <2> QED  BY <1>3, <2>4, <2>6 DEF Before
<1> QED  BY <1>2, <1>3 DEF Sides

\* The scan of updatePriceLevel ends at the next level that has a quantity, or at
\* the last one when there is none.
LEMMA NextBestIs ==
    ASSUME NEW s \in Sides, NEW lv \in [Levels -> Nat], NEW idx \in Levels
    PROVE  LET live == {i \in Levels : Before(s, idx, i) /\ lv[i] > 0}
           IN  \/ /\ NextBest(s, lv, idx) \in live
                  /\ \A j \in live \ {NextBest(s, lv, idx)} : Before(s, NextBest(s, lv, idx), j)
               \/ live = {} /\ NextBest(s, lv, idx) = LastLevel(s)
<1> DEFINE live == {i \in Levels : Before(s, idx, i) /\ lv[i] > 0}
           nb == NextBest(s, lv, idx)
<1>1. live \in SUBSET Levels
    OBVIOUS
<1>2. nb = IF live = {} THEN LastLevel(s)
           ELSE CHOOSE i \in live : \A j \in live \ {i} : Before(s, i, j)
    BY Zenon DEF NextBest
<1> HIDE DEF live, nb
<1>3. CASE live = {}
    BY <1>2, <1>3 DEF live, nb
<1>4. CASE live # {}
    <2>1. \E i \in live : \A j \in live \ {i} : Before(s, i, j)
        BY <1>1, <1>4, FirstOf
    <2>2. nb \in live /\ \A j \in live \ {nb} : Before(s, nb, j)
        BY <1>2, <1>4, <2>1
    <2> QED  BY <2>2 DEF live, nb
<1> QED  BY <1>3, <1>4

\* A level that had a quantity may lose it: the best index goes on to the next one.
LEMMA TopUpdate ==
    ASSUME NEW s \in Sides, NEW lv \in [Levels -> Nat], NEW b \in Int, TopOK(lv, b, s),
           NEW idx \in Levels, lv[idx] > 0, NEW nv \in [Levels -> Nat],
           \A i \in Levels \ {idx} : nv[i] = lv[i]
    PROVE  TopOK(nv, IF idx = b /\ nv[idx] = 0 THEN NextBest(s, nv, idx) ELSE b, s)
<1>1. Levels \in SUBSET Int /\ lv[idx] \in Nat /\ nv[idx] \in Nat
    BY LevelAssumption DEF Levels
<1>2. /\ b \in Levels
      /\ lv[b] > 0
      /\ \A i \in Levels : Before(s, i, b) => lv[i] = 0
    BY <1>1 DEF TopOK
<1>3. ~Before(s, idx, b)
    BY <1>1, <1>2
<1>4. \A i \in Levels : Before(s, i, b) => nv[i] = 0
    BY <1>2, <1>3
<1>5. CASE idx = b /\ nv[idx] = 0
    <2> DEFINE live == {i \in Levels : Before(s, idx, i) /\ nv[i] > 0}
               nb == NextBest(s, nv, idx)
    <2>1. \A i \in Levels : Before(s, i, idx) \/ i = idx => nv[i] = 0
        BY <1>4, <1>5
    <2>2. \A i \in Levels : Before(s, i, idx) \/ i = idx \/ Before(s, idx, i)
        BY <1>1 DEF Before
    <2>3. \A i \in Levels : nv[i] \in Nat
        OBVIOUS
    <2>4. \A i \in Levels : i \notin live => nv[i] = 0
        BY <2>1, <2>2, <2>3
    <2>5. \/ nb \in live /\ \A j \in live \ {nb} : Before(s, nb, j)
          \/ live = {} /\ nb = LastLevel(s)
        BY NextBestIs, Zenon
    <2> HIDE DEF nb
    <2>6. CASE nb \in live /\ \A j \in live \ {nb} : Before(s, nb, j)
        <3>1. nb \in Levels /\ nv[nb] > 0
            BY <2>6
        <3>2. \A i, j \in Int : Before(s, i, j) => ~Before(s, j, i) /\ i # j
            BY DEF Before
        <3> HIDE DEF live
        <3>3. \A i \in Levels : Before(s, i, nb) => i \notin live
            BY <1>1, <2>6, <3>1, <3>2
        <3>4. \A i \in Levels : Before(s, i, nb) => nv[i] = 0
            BY <2>4, <3>3
        <3> QED  BY <1>5, <3>1, <3>4 DEF TopOK, nb
    <2>7. CASE live = {} /\ nb = LastLevel(s)
        <3>1. \A i \in Levels : nv[i] = 0
            BY <2>4, <2>7
        <3>2. \A i \in Levels : Before(s, i, nb) \/ i = nb
            BY <2>7, LevelAssumption DEF Before, LastLevel, Levels, Sides
        <3> QED  BY <1>5, <3>1, <3>2 DEF TopOK, nb
    <2> QED  BY <2>5, <2>6, <2>7
<1>6. CASE ~(idx = b /\ nv[idx] = 0)
    <2>1. nv[b] > 0
        BY <1>1, <1>2, <1>6
    <2> QED  BY <1>2, <1>4, <1>6, <2>1 DEF TopOK
<1> QED  BY <1>5, <1>6

-----------------------------------------------------------------------------
(***************************************************************************)
(* The inductive invariant of the book.                                     *)
(***************************************************************************)
BookType ==
    /\ BookOrders(orders)
    /\ levels \in [Sides -> [Levels -> Nat]]
    /\ best \in [Sides -> Int]
    /\ crashed \in BOOLEAN

\* The levels hold what the orders add up to.
LevelsHold == \A s \in Sides : \A i \in Levels : levels[s][i] = Amount(orders, s, i)

\* Both best indexes are at the top of their side.
TopsHold == \A s \in Sides : TopOK(levels[s], best[s], s)

Inv ==
    /\ BookType
    /\ MapOK(orderMap, DOMAIN orders)
    /\ LevelsHold
    /\ TopsHold
    /\ NullOnlyBehindTombstone

\* A new book.
LEMMA InvInit ==
    ASSUME Init
    PROVE  Inv
<1>1. PICK kind \in MapKinds : orderMap = EmptyMap(kind)
    BY DEF Init
<1>2. orders = <<>> /\ DOMAIN orders = {} /\ crashed = FALSE
    BY DEF Init
<1>3. levels = [s \in Sides |-> [i \in Levels |-> 0]] /\ best = [bid |-> -1, ask |-> MaxPriceLevels]
    BY DEF Init
<1>4. BookOrders(orders)
    <2>1. IsFiniteSet({})
        BY FS_EmptySet
    <2>2. orders \in [{} -> Order]
        BY <1>2
    <2> QED  BY <1>2, <2>1, <2>2 DEF BookOrders
<1>5. BookType
    <2>1. best \in [Sides -> Int]
        BY <1>3, LevelAssumption DEF Sides
    <2> QED  BY <1>2, <1>3, <1>4, <2>1 DEF BookType
<1>6. MapOK(orderMap, DOMAIN orders)
    BY <1>1, <1>2, MapInit, KindsAssumption
<1>7. LevelsHold
    <2> SUFFICES ASSUME NEW s \in Sides, NEW i \in Levels PROVE levels[s][i] = Amount(orders, s, i)
        BY DEF LevelsHold
    <2>1. At(orders, s, i) = {}
        BY <1>2 DEF At
    <2>2. Amount(orders, s, i) \in Nat /\ ~(Amount(orders, s, i) > 0)
        BY <1>4, <2>1, AmountIs
    <2> QED  BY <1>3, <2>2
<1>8. TopsHold
    <2> SUFFICES ASSUME NEW s \in Sides PROVE TopOK(levels[s], best[s], s)
        BY DEF TopsHold
    <2>1. \A i \in Levels : levels[s][i] = 0
        BY <1>3
    <2>2. \A i \in Levels : Before(s, i, best[s])
        BY <1>3, LevelAssumption DEF Before, Levels, Sides
    <2> QED  BY <2>1, <2>2 DEF TopOK
<1> QED  BY <1>2, <1>5, <1>6, <1>7, <1>8 DEF Inv, NullOnlyBehindTombstone

\* The side of a level that one order changes, and what the other levels keep.
LEMMA ShareElsewhere ==
    ASSUME NEW order \in Order
    PROVE  /\ order.side \in Sides /\ priceToIndex(order.price) \in Levels
           /\ order.quantity \in Nat \ {0}
           /\ Share(order, order.side, priceToIndex(order.price)) = order.quantity
           /\ \A s, i : ~(s = order.side /\ i = priceToIndex(order.price)) => Share(order, s, i) = 0
<1>1. order.side \in Sides /\ order.price \in Prices /\ order.quantity \in Nat \ {0}
    BY QuantityAssumption DEF Order
<1>2. priceToIndex(order.price) \in Levels
    BY <1>1, OnTheBoard
<1> QED  BY <1>1, <1>2 DEF Share

\* insert() of an order.
LEMMA InvInsert ==
    ASSUME Inv, NEW id \in Ids, NEW order \in Order, ~crashed, insert(id, order)
    PROVE  Inv'
<1> DEFINE s == order.side
           idx == priceToIndex(order.price)
           put == MapAssign(orderMap, id, id)
<1>1. /\ id \notin DOMAIN orders
      /\ crashed' = crashed
      /\ \/ put.thrown /\ UNCHANGED <<orderMap, orders, levels, best>>
         \/ /\ ~put.thrown
            /\ orderMap' = put.map
            /\ orders' = Adding(id, order)
            /\ levels' = [levels EXCEPT ![s][idx] = @ + order.quantity]
            /\ best' = IF Before(s, idx, best[s]) THEN [best EXCEPT ![s] = idx] ELSE best
    BY Zenon DEF insert
<1>2. /\ BookOrders(orders) /\ levels \in [Sides -> [Levels -> Nat]] /\ best \in [Sides -> Int]
      /\ MapOK(orderMap, DOMAIN orders) /\ LevelsHold /\ TopsHold
    BY DEF Inv, BookType
<1>3. DOMAIN orders \in SUBSET Ids
    BY <1>2 DEF BookOrders
<1>4. crashed' \in BOOLEAN /\ NullOnlyBehindTombstone'
    BY <1>1 DEF Inv, BookType, NullOnlyBehindTombstone
<1>5. CASE UNCHANGED <<orderMap, orders, levels, best>>
    <2>1. /\ orderMap' = orderMap /\ orders' = orders /\ levels' = levels /\ best' = best
        BY <1>5
    <2>2. BookType' /\ MapOK(orderMap, DOMAIN orders)' /\ LevelsHold' /\ TopsHold'
        BY <1>2, <1>4, <2>1, Zenon DEF BookType, LevelsHold, TopsHold
    <2> QED  BY <1>4, <2>2 DEF Inv
<1>6. CASE /\ ~put.thrown
           /\ orderMap' = put.map
           /\ orders' = Adding(id, order)
           /\ levels' = [levels EXCEPT ![s][idx] = @ + order.quantity]
           /\ best' = IF Before(s, idx, best[s]) THEN [best EXCEPT ![s] = idx] ELSE best
    <2>1. /\ s \in Sides /\ idx \in Levels /\ order.quantity \in Nat \ {0}
          /\ Share(order, s, idx) = order.quantity
          /\ \A t, i : ~(t = s /\ i = idx) => Share(order, t, i) = 0
        BY ShareElsewhere, Zenon
    <2>2. orders' = With(orders, id, order) /\ DOMAIN orders' = DOMAIN orders \union {id}
        BY <1>6, Zenon DEF Adding, With
    <2>3. id \in Ids \ DOMAIN orders
        BY <1>1
    <2>4. MapOK(orderMap', DOMAIN orders')
        <3> DEFINE S == DOMAIN orders
        <3>1. S \in SUBSET Ids /\ MapOK(orderMap, S) /\ id \in Ids \ S
            BY <1>2, <1>3, <2>3
        <3> HIDE DEF S
        <3>2. ~MapAssign(orderMap, id, id).thrown =>
                  MapOK(MapAssign(orderMap, id, id).map, S \union {id})
            BY <3>1, MapPuts
        <3> QED  BY <1>6, <2>2, <3>2, Zenon DEF S
    <2>5. /\ BookOrders(orders')
          /\ \A t, i : Amount(orders', t, i) = Amount(orders, t, i) + Share(order, t, i)
        BY <1>1, <1>2, <2>2, AmountWith
    <2> HIDE DEF s, idx, put
    <2>6. /\ levels' \in [Sides -> [Levels -> Nat]]
          /\ levels'[s] = [levels[s] EXCEPT ![idx] = @ + order.quantity]
          /\ \A t \in Sides \ {s} : levels'[t] = levels[t]
        BY <1>2, <1>6, <2>1
    <2>7. /\ best' \in [Sides -> Int]
          /\ best'[s] = IF Before(s, idx, best[s]) THEN idx ELSE best[s]
          /\ \A t \in Sides \ {s} : best'[t] = best[t]
        BY <1>2, <1>6, <2>1, LevelAssumption DEF Levels
    <2>8. BookType'
        BY <1>4, <2>5, <2>6, <2>7 DEF BookType
    <2>9. LevelsHold'
        <3> SUFFICES ASSUME NEW t \in Sides, NEW i \in Levels
                     PROVE  levels'[t][i] = Amount(orders', t, i)
            BY DEF LevelsHold
        <3>1. levels[t][i] = Amount(orders, t, i) /\ levels[t][i] \in Nat
            BY <1>2 DEF LevelsHold
        <3>2. Amount(orders', t, i) = Amount(orders, t, i) + Share(order, t, i)
            BY <2>5
        <3>3. CASE t = s /\ i = idx
            <4>1. levels'[t][i] = levels[t][i] + order.quantity
                BY <1>2, <2>1, <2>6, <3>3
            <4> QED  BY <2>1, <3>1, <3>2, <3>3, <4>1
        <3>4. CASE ~(t = s /\ i = idx)
            <4>1. levels'[t][i] = levels[t][i]
                BY <1>2, <2>1, <2>6, <3>4
            <4>2. Share(order, t, i) = 0
                BY <2>1, <3>4
            <4> QED  BY <3>1, <3>2, <4>1, <4>2
        <3> QED  BY <3>3, <3>4
    <2>10. TopsHold'
        <3> SUFFICES ASSUME NEW t \in Sides PROVE TopOK(levels'[t], best'[t], t)
            BY DEF TopsHold
        <3>1. TopOK(levels[t], best[t], t) /\ levels[t] \in [Levels -> Nat] /\ best[t] \in Int
            BY <1>2 DEF TopsHold
        <3>2. CASE t = s
            <4> DEFINE lv == levels[s]
                       b == best[s]
                       q == order.quantity
            <4>1. lv \in [Levels -> Nat] /\ b \in Int /\ TopOK(lv, b, s) /\ q \in Nat \ {0}
                BY <2>1, <3>1, <3>2
            <4>2. levels'[s] = [lv EXCEPT ![idx] = @ + q]
                  /\ best'[s] = IF Before(s, idx, b) THEN idx ELSE b
                BY <2>6, <2>7
            <4> HIDE DEF lv, b, q
            <4>3. TopOK([lv EXCEPT ![idx] = @ + q], IF Before(s, idx, b) THEN idx ELSE b, s)
                BY <2>1, <4>1, TopInsert
            <4> QED  BY <3>2, <4>2, <4>3
        <3>3. CASE t # s
            BY <2>6, <2>7, <3>1, <3>3
        <3> QED  BY <3>2, <3>3
    <2> QED  BY <1>4, <2>4, <2>8, <2>9, <2>10 DEF Inv
<1> QED  BY <1>1, <1>5, <1>6

\* updatePriceLevel() for an order of the book whose quantity goes from old to q, or
\* to 0: rest is what the other orders have on each level.
LEMMA InvLevel ==
    ASSUME BookType, LevelsHold, TopsHold, NEW id \in DOMAIN orders, NEW q \in Nat,
           NEW change, change = q - orders[id].quantity,
           updatePriceLevel(orders[id].side, orders[id].price, change)
    PROVE  LET s == orders[id].side
               idx == priceToIndex(orders[id].price)
           IN  /\ levels' \in [Sides -> [Levels -> Nat]] /\ best' \in [Sides -> Int] /\ TopsHold'
               /\ \A t \in Sides, i \in Levels :
                     levels'[t][i] = Amount(Without(orders, id), t, i)
                                        + IF t = s /\ i = idx THEN q ELSE 0
<1> DEFINE order == orders[id]
           s == order.side
           idx == priceToIndex(order.price)
           lv == [levels[s] EXCEPT ![idx] = @ + change]
           rest(t, i) == Amount(Without(orders, id), t, i)
<1>1. /\ BookOrders(orders) /\ levels \in [Sides -> [Levels -> Nat]] /\ best \in [Sides -> Int]
    BY DEF BookType
<1>2. order \in Order
    BY <1>1 DEF BookOrders
<1>3. /\ s \in Sides /\ idx \in Levels /\ order.quantity \in Nat \ {0}
      /\ Share(order, s, idx) = order.quantity
      /\ \A t, i : ~(t = s /\ i = idx) => Share(order, t, i) = 0
    <2> HIDE DEF order
    <2> QED  BY <1>2, ShareElsewhere, Zenon
<1>4. BookOrders(Without(orders, id))
      /\ \A t, i : Amount(orders, t, i) = rest(t, i) + Share(order, t, i)
    BY <1>1, AmountWithout
<1>5. \A t, i : rest(t, i) \in Nat
    BY <1>4, AmountIs
<1>6. /\ levels' = [levels EXCEPT ![s] = lv]
      /\ best' = IF idx = best[s] /\ lv[idx] = 0
                 THEN [best EXCEPT ![s] = NextBest(s, lv, idx)]
                 ELSE best
    BY Zenon DEF updatePriceLevel
<1>7. change = q - order.quantity
    OBVIOUS
<1> HIDE DEF order, s, idx, rest
<1>8. \A t \in Sides, i \in Levels : levels[t][i] = rest(t, i) + Share(order, t, i)
    BY <1>4 DEF LevelsHold
<1>9. levels[s][idx] = rest(s, idx) + order.quantity /\ rest(s, idx) \in Nat
    BY <1>3, <1>5, <1>8
<1>10. levels[s][idx] + change = rest(s, idx) + q /\ levels[s][idx] > 0
    BY <1>3, <1>7, <1>9
<1>11. /\ lv \in [Levels -> Nat] /\ lv[idx] = rest(s, idx) + q
       /\ \A i \in Levels \ {idx} : lv[i] = levels[s][i]
    <2>1. rest(s, idx) + q \in Nat
        BY <1>9
    <2>2. levels[s] \in [Levels -> Nat]
        BY <1>1, <1>3
    <2> QED  BY <1>3, <1>10, <2>1, <2>2
<1> HIDE DEF lv
<1>12. levels' \in [Sides -> [Levels -> Nat]] /\ levels'[s] = lv
       /\ \A t \in Sides \ {s} : levels'[t] = levels[t]
    BY <1>1, <1>3, <1>6, <1>11
<1>13. ASSUME NEW t \in Sides, NEW i \in Levels
       PROVE  levels'[t][i] = rest(t, i) + IF t = s /\ i = idx THEN q ELSE 0
    <2>1. rest(t, i) \in Nat
        BY <1>5
    <2>2. CASE t = s /\ i = idx
        BY <1>11, <1>12, <2>2
    <2>3. CASE ~(t = s /\ i = idx)
        <3>1. levels'[t][i] = levels[t][i]
            BY <1>11, <1>12, <2>3
        <3>2. levels[t][i] = rest(t, i) + 0
            BY <1>3, <1>8, <2>3
        <3> QED  BY <2>1, <2>3, <3>1, <3>2
    <2> QED  BY <2>2, <2>3
<1>14. NextBest(s, lv, idx) \in Int
    <2>1. \/ NextBest(s, lv, idx) \in Levels
          \/ NextBest(s, lv, idx) = LastLevel(s)
        BY <1>3, <1>11, NextBestIs
    <2> QED  BY <2>1, LevelAssumption DEF LastLevel, Levels
<1>15. /\ best' \in [Sides -> Int]
       /\ best'[s] = IF idx = best[s] /\ lv[idx] = 0 THEN NextBest(s, lv, idx) ELSE best[s]
       /\ \A t \in Sides \ {s} : best'[t] = best[t]
    BY <1>1, <1>3, <1>6, <1>14
<1>16. TopsHold'
    <2> SUFFICES ASSUME NEW t \in Sides PROVE TopOK(levels'[t], best'[t], t)
        BY DEF TopsHold
    <2>1. TopOK(levels[t], best[t], t) /\ levels[t] \in [Levels -> Nat] /\ best[t] \in Int
        BY <1>1 DEF TopsHold
    <2>2. CASE t = s
        <3> DEFINE old == levels[s]
                   b == best[s]
        <3>1. old \in [Levels -> Nat] /\ b \in Int /\ TopOK(old, b, s) /\ old[idx] > 0
              /\ \A i \in Levels \ {idx} : lv[i] = old[i]
            BY <1>10, <1>11, <2>1, <2>2
        <3>2. best'[s] = IF idx = b /\ lv[idx] = 0 THEN NextBest(s, lv, idx) ELSE b
            BY <1>15
        <3> HIDE DEF old, b
        <3>3. TopOK(lv, IF idx = b /\ lv[idx] = 0 THEN NextBest(s, lv, idx) ELSE b, s)
            BY <1>3, <1>11, <3>1, TopUpdate
        <3> QED  BY <1>12, <2>2, <3>2, <3>3
    <2>3. CASE t # s
        BY <1>12, <1>15, <2>1, <2>3
    <2> QED  BY <2>2, <2>3
<1> QED  BY <1>12, <1>13, <1>15, <1>16 DEF order, s, idx, rest

\* What contains() and operator[] tell update() and cancel() of the order.
LEMMA FoundIs ==
    ASSUME Inv, NEW id \in Ids
    PROVE  /\ Found(id) => /\ id \in DOMAIN orders /\ crashed' = crashed
                           /\ MapOK(MapIndex(orderMap, id).map, DOMAIN orders)
           /\ NullOrder(id) => /\ id \in DOMAIN orders
                               /\ orderMap.kind = "open"
                               /\ OpenPlace(orderMap, id) \in DOMAIN orderMap.status
                               /\ orderMap.status[OpenPlace(orderMap, id)] = "DELETED"
<1> DEFINE S == DOMAIN orders
<1>1. S \in SUBSET Ids /\ MapOK(orderMap, S)
    BY DEF Inv, BookType, BookOrders
<1> HIDE DEF S
<1>2. MapContains(orderMap, id) => id \in S
    BY <1>1, MapFinds
<1>3. id \in S =>
         \/ /\ MapIndex(orderMap, id).value = id
            /\ MapOK(MapIndex(orderMap, id).map, S)
         \/ /\ orderMap.kind = "open"
            /\ OpenPlace(orderMap, id) \in DOMAIN orderMap.status
            /\ orderMap.status[OpenPlace(orderMap, id)] = "DELETED"
            /\ MapIndex(orderMap, id).value = NoValue
    BY <1>1, MapIndexes, Zenon
<1>4. id # NoValue
    BY IdsAssumption
<1>5. Found(id) => /\ id \in S /\ crashed' = crashed
                   /\ MapOK(MapIndex(orderMap, id).map, S)
    BY <1>2, <1>3, Zenon DEF Found
<1>6. NullOrder(id) => /\ id \in S
                       /\ orderMap.kind = "open"
                       /\ OpenPlace(orderMap, id) \in DOMAIN orderMap.status
                       /\ orderMap.status[OpenPlace(orderMap, id)] = "DELETED"
    BY <1>2, <1>3, <1>4, Zenon DEF NullOrder
<1> QED  BY <1>5, <1>6, Zenon DEF S

\* A step that changes nothing.
LEMMA InvSame ==
    ASSUME Inv, UNCHANGED bvars
    PROVE  Inv'
<1>1. orderMap' = orderMap /\ orders' = orders /\ levels' = levels /\ best' = best
      /\ crashed' = crashed
    BY DEF bvars
<1> QED  BY <1>1, Zenon DEF Inv, BookType, LevelsHold, TopsHold, NullOnlyBehindTombstone

\* A null pointer is followed.
LEMMA InvNull ==
    ASSUME Inv, NEW id \in Ids, NullOrder(id)
    PROVE  Inv'
<1>1. orderMap' = orderMap /\ orders' = orders /\ levels' = levels /\ best' = best
      /\ crashed' = TRUE
    BY DEF NullOrder
<1>2. /\ id \in DOMAIN orders
      /\ orderMap.kind = "open"
      /\ OpenPlace(orderMap, id) \in DOMAIN orderMap.status
      /\ orderMap.status[OpenPlace(orderMap, id)] = "DELETED"
    BY FoundIs, Zenon
<1>3. NullOnlyBehindTombstone'
    BY <1>1, <1>2, Zenon DEF NullOnlyBehindTombstone
<1>4. BookType' /\ MapOK(orderMap, DOMAIN orders)' /\ LevelsHold' /\ TopsHold'
    BY <1>1, Zenon DEF Inv, BookType, LevelsHold, TopsHold
<1> QED  BY <1>3, <1>4 DEF Inv

\* update() of an order.
LEMMA InvUpdate ==
    ASSUME Inv, NEW id \in Ids, NEW q \in Quantities, ~crashed, update(id, q)
    PROVE  Inv'
<1>1. CASE NotFound(id)
    BY <1>1, InvSame DEF NotFound
<1>2. CASE NullOrder(id)
    BY <1>2, InvNull
<1>3. CASE /\ Found(id)
           /\ updatePriceLevel(orders[id].side, orders[id].price, q - orders[id].quantity)
           /\ orderMap' = MapIndex(orderMap, id).map
           /\ orders' = [orders EXCEPT ![id].quantity = q]
    <2> DEFINE order == orders[id]
               s == order.side
               idx == priceToIndex(order.price)
               new == [order EXCEPT !.quantity = q]
               rest(t, i) == Amount(Without(orders, id), t, i)
    <2>1. id \in DOMAIN orders /\ crashed' = crashed
          /\ MapOK(MapIndex(orderMap, id).map, DOMAIN orders)
        BY <1>3, FoundIs, Zenon
    <2>2. BookType /\ LevelsHold /\ TopsHold /\ BookOrders(orders) /\ crashed \in BOOLEAN
        BY DEF Inv, BookType
    <2>3. q \in Nat /\ q - orders[id].quantity = q - orders[id].quantity
        BY QuantityAssumption
    <2>4. /\ levels' \in [Sides -> [Levels -> Nat]] /\ best' \in [Sides -> Int] /\ TopsHold'
          /\ \A t \in Sides, i \in Levels :
                levels'[t][i] = rest(t, i) + IF t = s /\ i = idx THEN q ELSE 0
        BY <1>3, <2>1, <2>2, <2>3, InvLevel, Zenon
    <2>5. /\ BookOrders(orders') /\ DOMAIN orders' = DOMAIN orders
          /\ \A t, i : Amount(orders', t, i) = rest(t, i) + Share(new, t, i)
        <3>1. orders' = AmendedIn(orders, id, q) /\ new = Amended(orders[id], q)
            BY <1>3 DEF AmendedIn, Amended
        <3> HIDE DEF new
        <3> QED  BY <2>1, <2>2, <3>1, AmountUpdate
    <2>6. order \in Order
        BY <2>1, <2>2 DEF BookOrders
    <2>7. \A t, i : Share(new, t, i) = IF t = s /\ i = idx THEN q ELSE 0
        <3> HIDE DEF order
        <3>1. new.side = order.side /\ new.price = order.price /\ new.quantity = q
            BY <2>6 DEF Order
        <3> QED  BY <3>1 DEF Share
    <2> HIDE DEF order, s, idx, new, rest
    <2>8. LevelsHold'
        <3> SUFFICES ASSUME NEW t \in Sides, NEW i \in Levels
                     PROVE  levels'[t][i] = Amount(orders', t, i)
            BY DEF LevelsHold
        <3> DEFINE z == IF t = s /\ i = idx THEN q ELSE 0
        <3>1. levels'[t][i] = rest(t, i) + z
            BY <2>4
        <3>2. Amount(orders', t, i) = rest(t, i) + Share(new, t, i)
            BY <2>5
        <3>3. Share(new, t, i) = z
            BY <2>7
        <3> HIDE DEF z
        <3> QED  BY <3>1, <3>2, <3>3, Zenon
    <2>9. BookType'
        BY <2>1, <2>2, <2>4, <2>5, Zenon DEF BookType
    <2>10. MapOK(orderMap, DOMAIN orders)'
        BY <1>3, <2>1, <2>5, Zenon
    <2>11. NullOnlyBehindTombstone'
        BY <2>1, Zenon DEF NullOnlyBehindTombstone
    <2> QED  BY <2>4, <2>8, <2>9, <2>10, <2>11 DEF Inv
<1> QED  BY <1>1, <1>2, <1>3, Zenon DEF update

\* cancel() of an order.
LEMMA InvCancel ==
    ASSUME Inv, NEW id \in Ids, ~crashed, cancel(id)
    PROVE  Inv'
<1>1. CASE NotFound(id)
    BY <1>1, InvSame DEF NotFound
<1>2. CASE NullOrder(id)
    BY <1>2, InvNull
<1>3. CASE /\ Found(id)
           /\ updatePriceLevel(orders[id].side, orders[id].price, -orders[id].quantity)
           /\ orderMap' = MapErase(MapIndex(orderMap, id).map, id)
           /\ orders' = Removing(id)
    <2> DEFINE s == orders[id].side
               idx == priceToIndex(orders[id].price)
               rest(t, i) == Amount(Without(orders, id), t, i)
               change == -orders[id].quantity
    <2>1. id \in DOMAIN orders /\ crashed' = crashed
          /\ MapOK(MapIndex(orderMap, id).map, DOMAIN orders)
        BY <1>3, FoundIs, Zenon
    <2>2. BookType /\ LevelsHold /\ TopsHold /\ BookOrders(orders) /\ crashed \in BOOLEAN
        BY DEF Inv, BookType
    <2>3. 0 \in Nat /\ change = 0 - orders[id].quantity
        <3>1. orders[id] \in Order
            BY <2>1, <2>2 DEF BookOrders
        <3>2. orders[id].quantity \in Nat
            BY <3>1, ShareElsewhere
        <3> QED  BY <3>2
    <2>4. updatePriceLevel(orders[id].side, orders[id].price, change)
        BY <1>3
    <2> HIDE DEF change
    <2>5. /\ levels' \in [Sides -> [Levels -> Nat]] /\ best' \in [Sides -> Int] /\ TopsHold'
          /\ \A t \in Sides, i \in Levels :
                levels'[t][i] = rest(t, i) + IF t = s /\ i = idx THEN 0 ELSE 0
        BY <2>1, <2>2, <2>3, <2>4, InvLevel, Zenon
    <2>6. orders' = Without(orders, id) /\ DOMAIN orders' = DOMAIN orders \ {id}
        BY <1>3, Zenon DEF Removing, Without
    <2>7. BookOrders(Without(orders, id)) /\ \A t, i : rest(t, i) \in Nat
        <3>1. BookOrders(Without(orders, id))
            BY <2>1, <2>2, AmountWithout
        <3> QED  BY <3>1, AmountIs
    <2> HIDE DEF s, idx, rest
    <2>8. \A t \in Sides, i \in Levels : levels'[t][i] = rest(t, i)
        BY <2>5, <2>7
    <2>9. LevelsHold'
        BY <2>6, <2>8, Zenon DEF LevelsHold, rest
    <2>10. BookType'
        BY <2>1, <2>2, <2>5, <2>6, <2>7, Zenon DEF BookType
    <2>11. MapOK(orderMap, DOMAIN orders)'
        <3> DEFINE S == DOMAIN orders
                   m == MapIndex(orderMap, id).map
        <3>1. S \in SUBSET Ids
            BY <2>2 DEF BookOrders
        <3>2. MapOK(m, S)
            BY <2>1
        <3> HIDE DEF S, m
        <3>3. MapOK(MapErase(m, id), S \ {id})
            BY <3>1, <3>2, MapErases
        <3> QED  BY <1>3, <2>6, <3>3, Zenon DEF S, m
    <2>12. NullOnlyBehindTombstone'
        BY <2>1, Zenon DEF NullOnlyBehindTombstone
    <2> QED  BY <2>5, <2>9, <2>10, <2>11, <2>12 DEF Inv
<1> QED  BY <1>1, <1>2, <1>3, Zenon DEF cancel

\* Every step of the book.
LEMMA InvNext ==
    ASSUME Inv, [Next]_bvars
    PROVE  Inv'
<1>1. CASE UNCHANGED bvars
    BY <1>1, InvSame
<1>2. CASE Crashed
    BY <1>2, InvSame DEF Crashed
<1>3. ASSUME ~crashed, NEW id \in Ids, NEW o \in Order, insert(id, o) PROVE Inv'
    BY <1>3, InvInsert
<1>4. ASSUME ~crashed, NEW id \in Ids, NEW q \in Quantities, update(id, q) PROVE Inv'
    BY <1>4, InvUpdate
<1>5. ASSUME ~crashed, NEW id \in Ids, cancel(id) PROVE Inv'
    BY <1>5, InvCancel
<1> QED  BY <1>1, <1>2, <1>3, <1>4, <1>5, Zenon DEF Next

\* The invariant holds of every book, with any of the maps, after any sequence of
\* insert(), update() and cancel().
THEOREM BookInvariant == Spec => []Inv
<1>1. Init => Inv
    BY InvInit
<1>2. Inv /\ [Next]_bvars => Inv'
    BY InvNext
<1> QED  BY <1>1, <1>2, PTL DEF Spec

-----------------------------------------------------------------------------
(***************************************************************************)
(* What the invariant says of the book and of its map.                      *)
(***************************************************************************)

\* A level has a quantity exactly when it has an order, and it is their sum.
LEMMA LevelsAre ==
    ASSUME Inv, NEW s \in Sides, NEW i \in Levels
    PROVE  /\ levels[s][i] = QuantityAt(s, i) /\ levels[s][i] \in Nat
           /\ levels[s][i] > 0 <=> OrdersAt(s, i) # {}
<1>1. OrdersAt(s, i) = At(orders, s, i)
    BY Zenon DEF OrdersAt, At
<1>2. QuantityAt(s, i) = Amount(orders, s, i)
    BY <1>1, Zenon DEF QuantityAt, Amount, Sum
<1>3. levels[s][i] = Amount(orders, s, i) /\ BookOrders(orders)
    BY DEF Inv, BookType, LevelsHold
<1>4. Amount(orders, s, i) \in Nat /\ (Amount(orders, s, i) > 0 <=> At(orders, s, i) # {})
    BY <1>3, AmountIs
<1> QED  BY <1>1, <1>2, <1>3, <1>4

\* Every level holds the sum of its orders' quantities.
LEMMA LevelsFollow ==
    ASSUME Inv
    PROVE  LevelsMatch
BY LevelsAre, Zenon DEF LevelsMatch

\* The best index of a side is where its first order is.
LEMMA TopFollows ==
    ASSUME Inv
    PROVE  TopOfBook
<1> SUFFICES ASSUME NEW s \in Sides
             PROVE  LET live == {i \in Levels : OrdersAt(s, i) # {}}
                    IN  IF live # {}
                        THEN \E i \in live : /\ Best(s) = <<i, QuantityAt(s, i)>>
                                             /\ \A j \in live : ~Before(s, j, i)
                        ELSE best[s] \in Levels => Best(s)[2] = 0
    BY Zenon DEF TopOfBook
<1> DEFINE live == {i \in Levels : OrdersAt(s, i) # {}}
           b == best[s]
<1>1. \A i \in Levels : /\ levels[s][i] = QuantityAt(s, i) /\ levels[s][i] \in Nat
                        /\ levels[s][i] > 0 <=> i \in live
    BY LevelsAre
<1>2. TopOK(levels[s], b, s) /\ live \in SUBSET Levels
    BY DEF Inv, TopsHold
<1>3. Best(s) = <<b, levels[s][b]>>
    BY DEF Best
<1> HIDE DEF live, b
<1>4. CASE live # {}
    <2>1. PICK x \in live : TRUE
        BY <1>4
    <2>2. x \in Levels /\ levels[s][x] # 0
        BY <1>1, <1>2
    <2>3. /\ b \in Levels
          /\ levels[s][b] > 0
          /\ \A i \in Levels : Before(s, i, b) => levels[s][i] = 0
        BY <1>2, <2>2 DEF TopOK
    <2>4. b \in live
        BY <1>1, <2>3
    <2>5. \A j \in live : ~Before(s, j, b)
        BY <1>1, <1>2, <2>3
    <2>6. Best(s) = <<b, QuantityAt(s, b)>>
        BY <1>1, <1>3, <2>3
    <2> QED  BY <1>4, <2>4, <2>5, <2>6, Zenon DEF live
<1>5. CASE live = {}
    <2>1. b \in Levels => levels[s][b] = 0
        BY <1>1, <1>5
    <2>2. Best(s)[2] = levels[s][b]
        BY <1>3
    <2> QED  BY <1>5, <2>1, <2>2, Zenon DEF live, b
<1> QED  BY <1>4, <1>5

\* print() passes over no level that has an order, and over none twice.
LEMMA PrintFollows ==
    ASSUME Inv
    PROVE  PrintShowsTop
<1> SUFFICES ASSUME NEW s \in Sides, NEW n \in 1 .. MaxPriceLevels
             PROVE  Printed(s, n) =
                        {i \in Levels : /\ OrdersAt(s, i) # {}
                                        /\ Cardinality({j \in Levels : OrdersAt(s, j) # {}
                                                           /\ Before(s, j, i)}) < n}
    BY Zenon DEF PrintShowsTop
<1> DEFINE shown(i) == levels[s][i] > 0 /\ ~Before(s, i, best[s])
           above(i) == {j \in Levels : shown(j) /\ Before(s, j, i)}
           offered(i) == {j \in Levels : OrdersAt(s, j) # {} /\ Before(s, j, i)}
<1>1. \A i \in Levels : shown(i) <=> OrdersAt(s, i) # {}
    <2>1. \A i \in Levels : levels[s][i] \in Nat /\ (levels[s][i] > 0 <=> OrdersAt(s, i) # {})
        BY LevelsAre
    <2>2. TopOK(levels[s], best[s], s)
        BY DEF Inv, TopsHold
    <2>3. \A i \in Levels : Before(s, i, best[s]) => levels[s][i] = 0
        BY <2>2 DEF TopOK
    <2> QED  BY <2>1, <2>3
<1>2. Printed(s, n) = {i \in Levels : shown(i) /\ Cardinality(above(i)) < n}
    BY Zenon DEF Printed
<1> HIDE DEF shown
<1>3. \A i : above(i) = offered(i)
    BY <1>1
<1> HIDE DEF above, offered
<1>4. Printed(s, n) = {i \in Levels : OrdersAt(s, i) # {} /\ Cardinality(offered(i)) < n}
    BY <1>1, <1>2, <1>3
<1> QED  BY <1>4, Zenon DEF offered

\* find() gives the orders of the book, and nothing of the map is lost.
LEMMA MapFollows ==
    ASSUME Inv
    PROVE  MapAgrees
<1> DEFINE S == DOMAIN orders
           m == orderMap
<1>1. S \in SUBSET Ids /\ MapOK(m, S)
    BY DEF Inv, BookType, BookOrders
<1> HIDE DEF S, m
<1>2. \A id \in Ids : MapFind(m, id) = IF id \in S THEN id ELSE NoValue
    BY <1>1, MapFinds
<1>3. ASSUME m.kind = "fixed"
      PROVE  ToSet(NodesOf(m)) = Nodes /\ Len(NodesOf(m)) = Cardinality(Nodes)
    <2>1. FixedOK(m, S)
        BY <1>1, <1>3 DEF MapOK
    <2> QED  BY <1>1, <2>1, FixedNodes
<1>4. ASSUME m.kind = "open"
      PROVE  m.size = Cardinality({i \in DOMAIN m.status : m.status[i] = "OCCUPIED"})
    <2>1. PICK n : OpenOK(m, S, n)
        BY <1>1, <1>4 DEF MapOK
    <2> QED  BY <2>1, Zenon DEF OpenOK, Occupied
<1> QED  BY <1>2, <1>3, <1>4, Zenon DEF MapAgrees, m, S

\* insert() and erase() of the map change what find() gives for their key alone.
LEMMA ChangesFollow ==
    ASSUME Inv
    PROVE  InsertAndErase
<1> DEFINE S == DOMAIN orders
           m == orderMap
<1>1. S \in SUBSET Ids /\ MapOK(m, S)
    BY DEF Inv, BookType, BookOrders
<1> HIDE DEF S, m
<1>2. ASSUME NEW id \in Ids, NEW other \in Ids
      PROVE  /\ ~MapInsert(m, id, id).thrown /\ ~MapContains(m, id) =>
                    MapFind(MapInsert(m, id, id).map, other)
                        = IF other = id THEN id ELSE MapFind(m, other)
             /\ MapFind(MapErase(m, id), other)
                    = IF other = id THEN NoValue ELSE MapFind(m, other)
    <2>1. /\ MapContains(m, id) <=> id \in S
          /\ MapFind(m, other) = IF other \in S THEN other ELSE NoValue
        BY <1>1, <1>2, MapFinds
    <2>2. ASSUME ~MapInsert(m, id, id).thrown, ~MapContains(m, id)
          PROVE  MapFind(MapInsert(m, id, id).map, other)
                     = IF other = id THEN id ELSE MapFind(m, other)
        <3> DEFINE w == MapInsert(m, id, id).map
                   T == S \union {id}
        <3>1. id \in Ids \ S
            BY <1>2, <2>1, <2>2
        <3>2. MapOK(w, T)
            BY <1>1, <2>2, <3>1, MapPuts
        <3>3. T \in SUBSET Ids
            BY <1>1, <1>2
        <3> HIDE DEF w, T
        <3>4. MapFind(w, other) = IF other \in T THEN other ELSE NoValue
            BY <1>2, <3>2, <3>3, MapFinds
        <3> QED  BY <2>1, <3>4, Zenon DEF T, w
    <2>3. MapFind(MapErase(m, id), other) = IF other = id THEN NoValue ELSE MapFind(m, other)
        <3> DEFINE w == MapErase(m, id)
                   T == S \ {id}
        <3>1. MapOK(w, T)
            BY <1>1, <1>2, MapErases
        <3>2. T \in SUBSET Ids
            BY <1>1
        <3> HIDE DEF w, T
        <3>3. MapFind(w, other) = IF other \in T THEN other ELSE NoValue
            BY <1>2, <3>1, <3>2, MapFinds
        <3> QED  BY <2>1, <3>3, Zenon DEF T, w
    <2> QED  BY <2>2, <2>3
<1> QED  BY <1>2, Zenon DEF InsertAndErase, m

\* Whatever the orders and their sequence, each level holds the sum of the
\* quantities of the orders on it: insert(), update() and cancel() account for
\* every order once.
THEOREM LevelsAreSums == Spec => []LevelsMatch
BY BookInvariant, LevelsFollow, PTL

\* bestBid() and bestAsk() give the best price that has an order and all that is
\* offered there, whatever order was inserted, changed or cancelled before.
THEOREM BestIsTop == Spec => []TopOfBook
BY BookInvariant, TopFollows, PTL

\* print() shows the best levels that have orders, as many as it has room for.
THEOREM PrintIsTop == Spec => []PrintShowsTop
BY BookInvariant, PrintFollows, PTL

\* With every kind of map find() gives exactly the orders of the book; the pool of
\* nodes and the count of the occupied cells are right at all times.
THEOREM MapHoldsTheOrders == Spec => []MapAgrees
BY BookInvariant, MapFollows, PTL

\* From every map the book can build, insert() and erase() of a key change what
\* find() gives for this key, and for no other.
THEOREM MapChangesOneKey == Spec => []InsertAndErase
BY BookInvariant, ChangesFollow, PTL

\* operator[] gives a null order behind contains() only where an erased cell lies
\* in front of the order in an OpenAddressingHashMap.
THEOREM NullBehindTombstone == Spec => []NullOnlyBehindTombstone
<1>1. Inv => NullOnlyBehindTombstone
    BY DEF Inv
<1> QED  BY BookInvariant, <1>1, PTL

=============================================================================
