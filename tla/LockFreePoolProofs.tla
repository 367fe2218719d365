-------------------------- MODULE LockFreePoolProofs -------------------------
(***************************************************************************)
(* LockFreeThreadSafePool for every number of buffers, every set of threads *)
(* and every width of the tag: the free list stays a list of exactly the    *)
(* buffers nobody has, and the pool implements MessagePool.                 *)
(***************************************************************************)
EXTENDS LockFreeThreadSafePool, FiniteSetTheorems, TLAPS

-----------------------------------------------------------------------------
\* How far a list of the pool can reach.
Places == 0 .. PoolMsgCount

\* g is the walk along nextFree_ from head_.
WalkFrom(g) ==
    /\ g \in [Places -> Indices \union {End}]
    /\ g[0] = head.index
    /\ \A k \in 1 .. PoolMsgCount :
          g[k] = IF g[k - 1] = End THEN End ELSE nextFree[g[k - 1]]

\* It ends and passes no buffer twice.
EndsOnce(g) ==
    /\ g[PoolMsgCount] = End
    /\ \A j, k \in Places : j <= k /\ g[j] = End => g[k] = End
    /\ \A j, k \in Places : g[j] = g[k] /\ g[j] # End => j = k

\* The buffers that callers have or that are on their way back.
Out == taken \union Returning

\* It passes exactly the others.
Covers(g) == \A i \in Indices : i \notin Out <=> \E k \in Places : g[k] = i

ListInv == \E g \in [Places -> Indices \union {End}] :
               WalkFrom(g) /\ EndsOnce(g) /\ Covers(g)

\* A thread's age is the distance from its tag to that of head_, so that an
\* unchanged word means that head_ never changed in between.
AgeInv ==
    \A t \in Threads : pc[t] # "idle" =>
        /\ \/ oldHead[t].tag + age[t] = head.tag
           \/ oldHead[t].tag + age[t] = head.tag + TagMod
        /\ age[t] = 0 => oldHead[t] = head

\* The locals of allocate() and of deallocate().
LocalInv ==
    /\ \A t \in Threads : back[t] # End <=> pc[t] \in {"link", "push"}
    /\ \A t \in Threads : back[t] \notin taken
    /\ \A t, u \in Threads : back[t] = back[u] /\ back[t] # End => t = u
    /\ \A t \in Threads : pc[t] = "pop" =>
          /\ oldHead[t].index # End
          /\ age[t] = 0 => link[t] = nextFree[oldHead[t].index]
    /\ \A t \in Threads : pc[t] = "push" => nextFree[back[t]] = oldHead[t].index

IInv == PoolTypeOK /\ ListInv /\ AgeInv /\ LocalInv

-----------------------------------------------------------------------------
\* Every set of natural numbers has a least element, which gives induction.
LEMMA LeastNumber ==
    ASSUME NEW T, T \subseteq Nat, T # {}
    PROVE  \E x \in T : \A y \in T : x <= y
<1> DEFINE R == {ss \in Nat \X Nat : ss[1] < ss[2]}
<1>1. IsWellFoundedOn(R, Nat)
    BY NatLessThanWellFounded DEF OpToRel
<1> HIDE DEF R
<1>2. PICK x \in T : \A y \in T : ~ (<<y, x>> \in R)
    BY <1>1, WFMin
<1>3. ASSUME NEW y \in T PROVE x <= y
    <2>1. x \in Nat /\ y \in Nat
        OBVIOUS
    <2>2. y < x => <<y, x>> \in R
        BY <2>1 DEF R
    <2> QED  BY <1>2, <2>1, <2>2
<1> QED  BY <1>3

\* The equation that defines Walk.
WalkEquation(g) ==
    g = [k \in 0 .. PoolMsgCount |->
           IF k = 0 THEN head.index
           ELSE IF g[k - 1] = End THEN End ELSE nextFree[g[k - 1]]]

\* The walk of the invariant is the one that the properties speak of.
LEMMA WalkIs ==
    ASSUME NEW g, WalkFrom(g)
    PROVE  Walk = g
<1>1. WalkEquation(g)
    BY PoolSizeAssumption DEF WalkFrom, WalkEquation, Places
<1>2. Walk = CHOOSE w : WalkEquation(w)
    BY Zenon DEF Walk, WalkEquation
<1>3. WalkEquation(Walk)
    BY <1>1, <1>2, Zenon
<1>4. DOMAIN Walk = Places /\ Walk = [k \in Places |-> Walk[k]]
    BY <1>3 DEF WalkEquation, Places
<1>5. /\ Walk[0] = head.index
      /\ \A k \in 1 .. PoolMsgCount :
            Walk[k] = IF Walk[k - 1] = End THEN End ELSE nextFree[Walk[k - 1]]
    BY <1>3, PoolSizeAssumption DEF WalkEquation
<1>6. \A k \in Places : Walk[k] = g[k]
    <2> DEFINE T == {k \in Places : Walk[k] # g[k]}
    <2> SUFFICES ASSUME T # {} PROVE FALSE
        OBVIOUS
    <2>1. T \subseteq Nat
        BY PoolSizeAssumption DEF Places
    <2>2. PICK x \in T : \A y \in T : x <= y
        BY <2>1, LeastNumber
    <2>3. x # 0
        BY <1>5 DEF WalkFrom
    <2>4. x \in 1 .. PoolMsgCount /\ x - 1 \in Places /\ x - 1 < x
        BY <2>3, PoolSizeAssumption DEF Places
    <2>5. Walk[x - 1] = g[x - 1]
        BY <2>2, <2>4
    <2>6. Walk[x] = g[x]
        BY <1>5, <2>4, <2>5 DEF WalkFrom
    <2> QED  BY <2>6
<1> QED  BY <1>4, <1>6 DEF WalkFrom

\* ListInv is what ListExact says.
LEMMA ListInvExact == ListInv => ListExact
<1> SUFFICES ASSUME ListInv PROVE ListExact  OBVIOUS
<1>1. PICK g \in [Places -> Indices \union {End}] :
          WalkFrom(g) /\ EndsOnce(g) /\ Covers(g)
    BY DEF ListInv
<1>2. Walk = g
    BY <1>1, WalkIs
<1>3. End \notin Indices
    BY DEF End, Indices
<1>4. FreeList = Indices \ (taken \union Returning)
    BY <1>1, <1>2, <1>3 DEF FreeList, Covers, Out, Places
<1> QED  BY <1>1, <1>2, <1>4 DEF ListExact, EndsOnce

-----------------------------------------------------------------------------
\* The mark of the end is no index.
LEMMA EndNoIndex == End \notin Indices
BY DEF End, Indices

\* A fresh pool is one list.
LEMMA InitIInv == Init => IInv
<1> SUFFICES ASSUME Init PROVE IInv  OBVIOUS
<1> DEFINE n == PoolMsgCount
           g == [k \in Places |-> n - 1 - k]
<1>1. PoolTypeOK
    <2>1. \A i \in Indices : i - 1 \in Indices \union {End}
        BY PoolSizeAssumption DEF Indices, End
    <2>2. PoolMsgCount - 1 \in Indices /\ 0 \in 0 .. TagMod - 1
        BY PoolSizeAssumption, TagAssumption DEF Indices
    <2>3. head \in Heads /\ NoHead \in Heads
        BY <2>2 DEF Init, Heads, NoHead
    <2>4. nextFree \in [Indices -> Indices \union {End}]
        BY <2>1 DEF Init
    <2> QED  BY <2>2, <2>3, <2>4 DEF Init, PoolTypeOK
<1>2. Returning = {} /\ Out = {}
    BY DEF Init, Returning, Out
<1>3. n \in Nat /\ n # 0
    BY PoolSizeAssumption
<1>4. g \in [Places -> Indices \union {End}]
    BY <1>3 DEF Places, Indices, End
<1>5. WalkFrom(g)
    <2>1. g[0] = head.index
        BY <1>3 DEF Init, Places
    <2>2. ASSUME NEW k \in 1 .. n
          PROVE  g[k] = IF g[k - 1] = End THEN End ELSE nextFree[g[k - 1]]
        <3>1. k \in Places /\ k - 1 \in Places /\ g[k] = n - 1 - k /\ g[k - 1] = n - k
            BY <1>3 DEF Places
        <3>2. n - k \in Indices /\ n - k # End
            BY <1>3 DEF Indices, End
        <3>3. nextFree[n - k] = n - k - 1
            BY <3>2 DEF Init
        <3> QED  BY <1>3, <3>1, <3>2, <3>3
    <2> QED  BY <1>4, <2>1, <2>2 DEF WalkFrom
<1>6. EndsOnce(g)
    BY <1>3 DEF EndsOnce, Places, End
<1>7. Covers(g)
    <2> SUFFICES ASSUME NEW i \in Indices PROVE \E k \in Places : g[k] = i
        BY <1>2 DEF Covers
    <2>1. n - 1 - i \in Places /\ g[n - 1 - i] = i
        BY <1>3 DEF Places, Indices
    <2> QED  BY <2>1
<1>8. ListInv
    BY <1>4, <1>5, <1>6, <1>7 DEF ListInv
<1>9. AgeInv /\ LocalInv
    BY DEF Init, AgeInv, LocalInv
<1> QED  BY <1>1, <1>8, <1>9 DEF IInv

\* As long as someone has a buffer, the list is shorter than the pool.
LEMMA ListShort ==
    ASSUME NEW g \in [Places -> Indices \union {End}], EndsOnce(g), Covers(g),
           NEW b \in Indices, b \in Out
    PROVE  g[PoolMsgCount - 1] = End
<1> DEFINE n == PoolMsgCount
<1>1. n \in Nat \ {0} /\ n - 1 \in Places
    BY PoolSizeAssumption DEF Places
<1> SUFFICES ASSUME g[n - 1] # End PROVE FALSE
    OBVIOUS
<1> HIDE DEF n
<1>2. \A k \in 0 .. n - 1 : k \in Places /\ g[k] # End
    BY <1>1 DEF EndsOnce, Places, n
<1>3. \A k \in 0 .. n - 1 : g[k] \in Indices \ {b}
    BY <1>2 DEF Covers
<1> DEFINE f == [k \in 0 .. n - 1 |-> g[k]]
<1>4. f \in Injection(0 .. n - 1, Indices \ {b})
    <2>1. f \in [0 .. n - 1 -> Indices \ {b}]
        BY <1>3
    <2>2. \A j, k \in 0 .. n - 1 : f[j] = f[k] => j = k
        BY <1>2 DEF EndsOnce
    <2> QED  BY <2>1, <2>2 DEF Injection, IsInjective
<1>5. IsFiniteSet(Indices) /\ Cardinality(Indices) = n
    <2>1. 0 \in Int /\ n - 1 \in Int /\ ~ (0 > n - 1) /\ n - 1 - 0 + 1 = n
        BY <1>1
    <2> QED  BY <2>1, FS_Interval DEF Indices, n
<1>6. IsFiniteSet(Indices \ {b}) /\ Cardinality(Indices \ {b}) = n - 1
    BY <1>5, FS_RemoveElement
<1>7. Cardinality(0 .. n - 1) = n
    BY <1>5 DEF Indices, n
<1>8. Cardinality(0 .. n - 1) <= Cardinality(Indices \ {b})
    BY <1>4, <1>6, FS_Injection
<1> QED  BY <1>1, <1>6, <1>7, <1>8

\* head_ moves to the second of the list.
LEMMA ListPop ==
    ASSUME PoolTypeOK, ListInv, head.index # End,
           head'.index = nextFree[head.index], nextFree' = nextFree,
           Out' = Out \union {head.index}
    PROVE  ListInv'
<1> DEFINE n == PoolMsgCount
<1>1. n \in Nat \ {0} /\ 0 \in Places /\ n \in Places
    BY PoolSizeAssumption DEF Places
<1>2. PICK g \in [Places -> Indices \union {End}] :
          WalkFrom(g) /\ EndsOnce(g) /\ Covers(g)
    BY DEF ListInv
<1> DEFINE h == [k \in Places |-> IF k < n THEN g[k + 1] ELSE End]
<1>3. \A k \in Places : k < n => k + 1 \in Places /\ k + 1 \in 1 .. n
    BY <1>1 DEF Places
<1>4. h \in [Places -> Indices \union {End}]
    BY <1>3
<1>5. g[0] = head.index /\ g[n] = End
    BY <1>2 DEF WalkFrom, EndsOnce
<1>6. \A k \in Places : h[k] = IF k < n THEN g[k + 1] ELSE End
    OBVIOUS
<1> HIDE DEF h
<1>7. WalkFrom(h)'
    <2>1. h[0] = head'.index
        BY <1>1, <1>2, <1>3, <1>5, <1>6 DEF WalkFrom
    <2>2. ASSUME NEW k \in 1 .. n
          PROVE  h[k] = IF h[k - 1] = End THEN End ELSE nextFree[h[k - 1]]
        <3>1. k \in Places /\ k - 1 \in Places /\ k - 1 < n /\ (k - 1) + 1 = k
            BY <1>1 DEF Places
        <3>2. h[k - 1] = g[k]
            BY <1>6, <3>1
        <3>3. CASE k < n
            <4>1. k + 1 \in 1 .. n /\ (k + 1) - 1 = k
                BY <1>1, <3>3
            <4>2. g[k + 1] = IF g[k] = End THEN End ELSE nextFree[g[k]]
                BY <1>2, <4>1 DEF WalkFrom
            <4> QED  BY <1>6, <3>1, <3>2, <3>3, <4>2
        <3>4. CASE k = n
            BY <1>1, <1>5, <1>6, <3>1, <3>2, <3>4
        <3> QED  BY <1>1, <3>3, <3>4
    <2> QED  BY <1>4, <2>1, <2>2 DEF WalkFrom
<1>8. EndsOnce(h)
    <2>1. h[n] = End
        BY <1>1, <1>6
    <2>2. ASSUME NEW j \in Places, NEW k \in Places, j <= k, h[j] = End
          PROVE  h[k] = End
        <3>1. CASE k < n
            <4>1. j < n /\ j + 1 <= k + 1 /\ j + 1 \in Places /\ k + 1 \in Places
                BY <1>1, <1>3, <2>2, <3>1 DEF Places
            <4> QED  BY <1>2, <1>6, <2>2, <3>1, <4>1 DEF EndsOnce
        <3>2. CASE ~ (k < n)
            BY <1>6, <3>2
        <3> QED  BY <3>1, <3>2
    <2>3. ASSUME NEW j \in Places, NEW k \in Places, h[j] = h[k], h[j] # End
          PROVE  j = k
        <3>1. /\ j < n /\ k < n /\ j + 1 \in Places /\ k + 1 \in Places
              /\ g[j + 1] = g[k + 1] /\ g[j + 1] # End
            BY <1>3, <1>6, <2>3
        <3>2. j + 1 = k + 1
            BY <1>2, <3>1 DEF EndsOnce
        <3> QED  BY <1>1, <3>2 DEF Places
    <2> QED  BY <2>1, <2>2, <2>3 DEF EndsOnce
<1>9. Covers(h)'
    <2> SUFFICES ASSUME NEW i \in Indices
                 PROVE  i \notin Out' <=> \E k \in Places : h[k] = i
        BY DEF Covers
    <2>1. ASSUME i \notin Out' PROVE \E k \in Places : h[k] = i
        <3>1. i \notin Out /\ i # g[0]
            BY <1>5, <2>1
        <3>2. PICK k \in Places : g[k] = i
            BY <1>2, <3>1 DEF Covers
        <3>3. k # 0 /\ k - 1 \in Places /\ k - 1 < n /\ (k - 1) + 1 = k
            BY <1>1, <3>1, <3>2 DEF Places
        <3>4. h[k - 1] = i
            BY <1>6, <3>2, <3>3
        <3> QED  BY <3>3, <3>4
    <2>2. ASSUME NEW k \in Places, h[k] = i PROVE i \notin Out'
        <3>1. k < n /\ k + 1 \in Places /\ g[k + 1] = i /\ i # End
            BY <1>3, <1>6, <2>2, EndNoIndex
        <3>2. i \notin Out
            BY <1>2, <3>1 DEF Covers
        <3>3. i # head.index
            <4>1. k + 1 # 0  BY <1>1 DEF Places
            <4> QED  BY <1>1, <1>2, <1>5, <3>1, <4>1 DEF EndsOnce
        <3> QED  BY <3>2, <3>3
    <2> QED  BY <2>1, <2>2
<1>10. EndsOnce(h)' /\ h \in [Places -> Indices \union {End}]
    BY <1>4, <1>8 DEF EndsOnce
<1> QED  BY <1>7, <1>9, <1>10 DEF ListInv

\* head_ moves to a buffer in front of the list.
LEMMA ListPush ==
    ASSUME PoolTypeOK, ListInv, NEW b \in Indices, b \in Out,
           head'.index = b, nextFree[b] = head.index, nextFree' = nextFree,
           Out' = Out \ {b}
    PROVE  ListInv'
<1> DEFINE n == PoolMsgCount
<1>1. n \in Nat \ {0} /\ 0 \in Places /\ n \in Places /\ n - 1 \in Places
    BY PoolSizeAssumption DEF Places
<1>2. PICK g \in [Places -> Indices \union {End}] :
          WalkFrom(g) /\ EndsOnce(g) /\ Covers(g)
    BY DEF ListInv
<1> DEFINE h == [k \in Places |-> IF k = 0 THEN b ELSE g[k - 1]]
<1>3. \A k \in Places : k # 0 => k - 1 \in Places /\ k \in 1 .. n
    BY <1>1 DEF Places
<1>4. h \in [Places -> Indices \union {End}]
    BY <1>3
<1>5. g[0] = head.index /\ g[n - 1] = End /\ b # End
    BY <1>2, ListShort, EndNoIndex DEF WalkFrom
<1>6. h[0] = b /\ \A k \in 1 .. n : k \in Places /\ k - 1 \in Places /\ h[k] = g[k - 1]
    BY <1>1 DEF Places
<1>7. \A k \in Places : g[k] # b
    BY <1>2 DEF Covers
<1> HIDE DEF h
<1>8. WalkFrom(h)'
    <2>1. ASSUME NEW k \in 1 .. n
          PROVE  h[k] = IF h[k - 1] = End THEN End ELSE nextFree[h[k - 1]]
        <3>1. CASE k = 1
            <4>1. h[k] = g[0] /\ h[k - 1] = b
                BY <1>6, <3>1
            <4> QED  BY <1>5, <4>1
        <3>2. CASE k # 1
            <4>1. k - 1 \in 1 .. n
                BY <1>1, <3>2
            <4>2. h[k] = g[k - 1] /\ h[k - 1] = g[(k - 1) - 1]
                BY <1>6, <4>1
            <4>3. g[k - 1] = IF g[(k - 1) - 1] = End THEN End ELSE nextFree[g[(k - 1) - 1]]
                BY <1>2, <4>1 DEF WalkFrom
            <4> QED  BY <4>2, <4>3
        <3> QED  BY <3>1, <3>2
    <2> QED  BY <1>4, <1>6, <2>1 DEF WalkFrom
<1>9. EndsOnce(h)
    <2>1. h[n] = End
        BY <1>1, <1>5, <1>6
    <2>2. ASSUME NEW j \in Places, NEW k \in Places, j <= k, h[j] = End
          PROVE  h[k] = End
        <3>1. j \in 1 .. n
            BY <1>3, <1>5, <1>6, <2>2
        <3>2. k \in 1 .. n /\ j - 1 <= k - 1
            BY <1>1, <2>2, <3>1 DEF Places
        <3> QED  BY <1>2, <1>6, <2>2, <3>1, <3>2 DEF EndsOnce
    <2>3. ASSUME NEW j \in Places, NEW k \in Places, h[j] = h[k], h[j] # End
          PROVE  j = k
        <3>1. CASE j = 0 \/ k = 0
            BY <1>3, <1>6, <1>7, <2>3, <3>1
        <3>2. CASE j # 0 /\ k # 0
            <4>1. j \in 1 .. n /\ k \in 1 .. n
                BY <1>3, <3>2
            <4>2. j - 1 = k - 1
                BY <1>2, <1>6, <2>3, <4>1 DEF EndsOnce
            <4> QED  BY <1>1, <4>1, <4>2
        <3> QED  BY <3>1, <3>2
    <2> QED  BY <2>1, <2>2, <2>3 DEF EndsOnce
<1>10. Covers(h)'
    <2> SUFFICES ASSUME NEW i \in Indices
                 PROVE  i \notin Out' <=> \E k \in Places : h[k] = i
        BY DEF Covers
    <2>1. CASE i = b
        BY <1>1, <1>6, <2>1
    <2>2. CASE i # b
        <3>1. ASSUME i \notin Out' PROVE \E k \in Places : h[k] = i
            <4>1. PICK k \in Places : g[k] = i
                BY <1>2, <2>2, <3>1 DEF Covers
            <4>2. k # n
                BY <1>2, <4>1, EndNoIndex DEF EndsOnce
            <4>3. k + 1 \in 1 .. n /\ (k + 1) - 1 = k
                BY <1>1, <4>2 DEF Places
            <4>4. k + 1 \in Places /\ h[k + 1] = i
                BY <1>6, <4>1, <4>3
            <4> QED  BY <4>4
        <3>2. ASSUME NEW k \in Places, h[k] = i PROVE i \notin Out'
            <4>1. k \in 1 .. n
                BY <1>3, <1>6, <2>2, <3>2
            <4>2. k - 1 \in Places /\ g[k - 1] = i
                BY <1>6, <3>2, <4>1
            <4> QED  BY <1>2, <4>2 DEF Covers
        <3> QED  BY <3>1, <3>2
    <2> QED  BY <2>1, <2>2
<1>11. EndsOnce(h)' /\ h \in [Places -> Indices \union {End}]
    BY <1>4, <1>9 DEF EndsOnce
<1> QED  BY <1>8, <1>10, <1>11 DEF ListInv

\* A write to the link of a buffer outside the list does not change the list.
LEMMA ListSame ==
    ASSUME PoolTypeOK, ListInv, head' = head, Out' = Out,
           \A i \in Indices : i \notin Out => nextFree'[i] = nextFree[i]
    PROVE  ListInv'
<1>1. PICK g \in [Places -> Indices \union {End}] :
          WalkFrom(g) /\ EndsOnce(g) /\ Covers(g)
    BY DEF ListInv
<1>2. \A k \in 1 .. PoolMsgCount : k - 1 \in Places
    BY PoolSizeAssumption DEF Places
<1>3. \A k \in Places : g[k] # End => g[k] \in Indices /\ g[k] \notin Out
    BY <1>1 DEF Covers
<1>4. WalkFrom(g)'
    BY <1>1, <1>2, <1>3 DEF WalkFrom
<1>5. EndsOnce(g)' /\ Covers(g)'
    BY <1>1 DEF EndsOnce, Covers
<1> QED  BY <1>4, <1>5 DEF ListInv

-----------------------------------------------------------------------------
\* allocate() loads head_.
LEMMA AllocateLoadIInv ==
    ASSUME IInv, NEW t \in Threads, AllocateLoad(t)
    PROVE  IInv'
<1> USE DEF IInv, AllocateLoad, Go, LoadHead
<1>1. PoolTypeOK'
    BY TagAssumption DEF PoolTypeOK
<1>2. ListInv'
    BY ListSame DEF Out, Returning
<1>3. AgeInv'
    BY DEF AgeInv, PoolTypeOK, Heads
<1>4. LocalInv'
    BY DEF LocalInv, PoolTypeOK
<1> QED  BY <1>1, <1>2, <1>3, <1>4

\* It reads the link of the head it loaded, or is killed by reading past the end.
LEMMA AllocateReadIInv ==
    ASSUME IInv, NEW t \in Threads, AllocateRead(t)
    PROVE  IInv'
<1> USE DEF IInv, Go
<1>1. CASE oldHead[t].index # End
    <2>1. /\ pc[t] = "read" /\ pc' = [pc EXCEPT ![t] = "pop"]
          /\ link' = [link EXCEPT ![t] = nextFree[oldHead[t].index]]
          /\ UNCHANGED <<head, nextFree, taken, oldHead, back, age, crashed>>
        BY <1>1 DEF AllocateRead
    <2>2. nextFree[oldHead[t].index] \in Indices \union {End}
        BY <1>1 DEF PoolTypeOK, Heads
    <2>3. PoolTypeOK'
        BY <2>1, <2>2 DEF PoolTypeOK
    <2>4. ListInv'
        BY <2>1, ListSame DEF Out, Returning
    <2>5. AgeInv'
        BY <2>1 DEF AgeInv, PoolTypeOK
    <2>6. LocalInv'
        BY <1>1, <2>1 DEF LocalInv, PoolTypeOK
    <2> QED  BY <2>3, <2>4, <2>5, <2>6
<1>2. CASE oldHead[t].index = End
    <2>1. /\ pc[t] = "read" /\ pc' = [pc EXCEPT ![t] = "read"] /\ crashed' = TRUE
          /\ UNCHANGED <<head, nextFree, taken, oldHead, link, back, age>>
        BY <1>2 DEF AllocateRead, locals
    <2>2. pc' = pc
        BY <2>1 DEF PoolTypeOK
    <2>3. PoolTypeOK'
        BY <2>1, <2>2 DEF PoolTypeOK
    <2>4. ListInv'
        BY <2>1, ListSame DEF Out, Returning
    <2>5. AgeInv' /\ LocalInv'
        BY <2>1, <2>2 DEF AgeInv, LocalInv
    <2> QED  BY <2>3, <2>4, <2>5
<1> QED  BY <1>1, <1>2

\* A failed exchange of allocate() loads head_ again.
LEMMA AllocateRetryIInv ==
    ASSUME IInv, NEW t \in Threads, Go(t, "pop", "read"), LoadHead(t),
           link' = [link EXCEPT ![t] = End],
           UNCHANGED <<nextFree, taken, back, crashed>>
    PROVE  IInv'
<1> USE DEF IInv, Go, LoadHead
<1>1. PoolTypeOK'
    BY TagAssumption DEF PoolTypeOK
<1>2. ListInv'
    BY ListSame DEF Out, Returning
<1>3. AgeInv'
    BY DEF AgeInv, PoolTypeOK, Heads
<1>4. LocalInv'
    BY DEF LocalInv, PoolTypeOK
<1> QED  BY <1>1, <1>2, <1>3, <1>4

\* deallocate() gets a buffer from its caller and loads head_.
LEMMA DeallocateLoadIInv ==
    ASSUME IInv, NEW t \in Threads, DeallocateLoad(t)
    PROVE  IInv'
<1> USE DEF IInv, Go, LoadHead, DeallocateLoad
<1>1. PICK i \in taken : taken' = taken \ {i} /\ back' = [back EXCEPT ![t] = i]
    OBVIOUS
<1>2. i \in Indices /\ i # End
    BY EndNoIndex DEF PoolTypeOK
<1>3. PoolTypeOK'
    BY <1>1, <1>2, TagAssumption DEF PoolTypeOK
<1>4. back[t] = End /\ back'[t] = i /\ \A u \in Threads \ {t} : back'[u] = back[u]
    BY <1>1 DEF LocalInv, PoolTypeOK
<1>5. Returning' = Returning \union {i}
    BY <1>2, <1>4 DEF Returning
<1>6. Out' = Out
    BY <1>1, <1>5 DEF Out
<1>7. ListInv'
    BY <1>6, ListSame
<1>8. AgeInv'
    BY DEF AgeInv, PoolTypeOK, Heads
<1>9. LocalInv'
    BY <1>1, <1>2, <1>4 DEF LocalInv, PoolTypeOK
<1> QED  BY <1>3, <1>7, <1>8, <1>9

\* It links the buffer in front of the head it loaded.
LEMMA DeallocateLinkIInv ==
    ASSUME IInv, NEW t \in Threads, DeallocateLink(t)
    PROVE  IInv'
<1> USE DEF IInv, Go, DeallocateLink, locals
<1>1. back[t] \in Indices /\ back[t] # End /\ back[t] \in Out
    BY EndNoIndex DEF LocalInv, PoolTypeOK, Out, Returning
<1>2. PoolTypeOK'
    BY <1>1 DEF PoolTypeOK, Heads
<1>3. \A i \in Indices \ {back[t]} : nextFree'[i] = nextFree[i]
    BY DEF PoolTypeOK
<1>4. ListInv'
    BY <1>1, <1>3, ListSame DEF Out, Returning
<1>5. AgeInv'
    BY DEF AgeInv, PoolTypeOK
<1>6. \A u \in Threads : pc[u] = "pop" /\ age[u] = 0 => oldHead[u].index \notin Out
    <2> SUFFICES ASSUME NEW u \in Threads, pc[u] = "pop", age[u] = 0
                 PROVE  oldHead[u].index \notin Out
        OBVIOUS
    <2>1. oldHead[u] = head /\ head.index # End /\ head.index \in Indices
        BY DEF AgeInv, LocalInv, PoolTypeOK, Heads
    <2>2. PICK g \in [Places -> Indices \union {End}] :
              WalkFrom(g) /\ EndsOnce(g) /\ Covers(g)
        BY DEF ListInv
    <2>3. 0 \in Places /\ g[0] = head.index
        BY <2>2, PoolSizeAssumption DEF WalkFrom, Places
    <2> QED  BY <2>1, <2>2, <2>3 DEF Covers
<1>7. nextFree'[back[t]] = oldHead[t].index
    BY <1>1 DEF PoolTypeOK
<1>8. LocalInv'
    BY <1>1, <1>3, <1>6, <1>7 DEF LocalInv, PoolTypeOK, Heads
<1> QED  BY <1>2, <1>4, <1>5, <1>8

\* A failed exchange of deallocate() loads head_ again.
LEMMA DeallocateRetryIInv ==
    ASSUME IInv, NEW t \in Threads, Go(t, "push", "link"), LoadHead(t),
           UNCHANGED <<nextFree, taken, link, back, crashed>>
    PROVE  IInv'
<1> USE DEF IInv, Go, LoadHead
<1>1. PoolTypeOK'
    BY TagAssumption DEF PoolTypeOK
<1>2. ListInv'
    BY ListSame DEF Out, Returning
<1>3. AgeInv'
    BY DEF AgeInv, PoolTypeOK, Heads
<1>4. LocalInv'
    BY DEF LocalInv, PoolTypeOK
<1> QED  BY <1>1, <1>2, <1>3, <1>4

-----------------------------------------------------------------------------
\* The tag counts up to its width and starts again.
LEMMA NextTag ==
    ASSUME NEW x \in 0 .. TagMod - 1
    PROVE  /\ (x + 1) % TagMod \in 0 .. TagMod - 1
           /\ (x + 1) % TagMod = IF x + 1 = TagMod THEN 0 ELSE x + 1
<1>1. TagMod \in Nat /\ TagMod > 1 /\ x \in Nat /\ x + 1 <= TagMod
    BY TagAssumption
<1>2. CASE x + 1 = TagMod
    <2>1. TagMod % TagMod = 0
        BY <1>1
    <2> QED  BY <1>1, <1>2, <2>1
<1>3. CASE x + 1 < TagMod
    <2>1. (x + 1) % TagMod = x + 1
        BY <1>1, <1>3
    <2> QED  BY <1>1, <1>3, <2>1
<1> QED  BY <1>1, <1>2, <1>3

\* The exchange of t succeeds only if head_ has not changed since t loaded it.
LEMMA UnchangedHead ==
    ASSUME IInv, NEW t \in Threads, pc[t] # "idle", head = oldHead[t]
    PROVE  age[t] = 0
<1>1. age[t] \in 0 .. TagMod - 1 /\ head.tag \in 0 .. TagMod - 1
    BY DEF IInv, PoolTypeOK, Heads
<1>2. \/ head.tag + age[t] = head.tag
      \/ head.tag + age[t] = head.tag + TagMod
    BY DEF IInv, AgeInv
<1> QED  BY <1>1, <1>2, TagAssumption

\* The exchange keeps the ages of the others the distance of the tags.
LEMMA StoreHeadAges ==
    ASSUME IInv, NEW t \in Threads, NEW i \in Indices \union {End},
           StoreHead(t, i), pc' = [pc EXCEPT ![t] = "idle"]
    PROVE  /\ AgeInv'
           /\ head' \in Heads /\ head'.index = i
           /\ oldHead' \in [Threads -> Heads]
           /\ age' \in [Threads -> 0 .. TagMod - 1]
           /\ \A u \in Threads \ {t} : pc[u] # "idle" => age'[u] # 0
           /\ \A u \in Threads \ {t} : oldHead'[u] = oldHead[u]
<1>1. /\ head = oldHead[t] /\ NoTagWrap(t)
      /\ head' = [index |-> i, tag |-> (head.tag + 1) % TagMod]
      /\ age' = [u \in Threads |-> IF u = t \/ pc[u] = "idle" THEN 0 ELSE age[u] + 1]
      /\ oldHead' = [oldHead EXCEPT ![t] = NoHead]
    BY DEF StoreHead
<1>2. head.tag \in 0 .. TagMod - 1 /\ head \in Heads
    BY DEF IInv, PoolTypeOK, Heads
<1> DEFINE m == (head.tag + 1) % TagMod
<1>3. m \in 0 .. TagMod - 1 /\ m = IF head.tag + 1 = TagMod THEN 0 ELSE head.tag + 1
    BY <1>2, NextTag
<1> HIDE DEF m
<1>4. head'.index = i /\ head'.tag = m
    BY <1>1 DEF m
<1>5. head' \in Heads
    BY <1>1, <1>3 DEF Heads, m
<1>6. NoHead \in Heads
    BY TagAssumption DEF NoHead, Heads
<1>7. oldHead' \in [Threads -> Heads]
    BY <1>1, <1>6 DEF IInv, PoolTypeOK
<1>8. \A u \in Threads \ {t} : oldHead'[u] = oldHead[u] /\ pc'[u] = pc[u]
    BY <1>1 DEF IInv, PoolTypeOK
<1>9. \A u \in Threads \ {t} : pc[u] # "idle" =>
          age'[u] = age[u] + 1 /\ age'[u] < TagMod /\ age[u] \in Nat /\ age'[u] # 0
    BY <1>1, TagAssumption DEF NoTagWrap, IInv, PoolTypeOK
<1>10. age' \in [Threads -> 0 .. TagMod - 1]
    <2>1. \A u \in Threads : (IF u = t \/ pc[u] = "idle" THEN 0 ELSE age[u] + 1)
                                 \in 0 .. TagMod - 1
        BY <1>1, TagAssumption DEF NoTagWrap, IInv, PoolTypeOK
    <2> QED  BY <1>1, <2>1, Zenon
<1>11. pc'[t] = "idle"
    BY DEF IInv, PoolTypeOK
<1>12. ASSUME NEW u \in Threads \ {t}, pc[u] # "idle"
       PROVE  /\ \/ oldHead[u].tag + age'[u] = m
                 \/ oldHead[u].tag + age'[u] = m + TagMod
    <2>1. oldHead[u].tag \in Nat /\ oldHead[u].tag < TagMod
        BY TagAssumption DEF IInv, PoolTypeOK, Heads
    <2>2. \/ oldHead[u].tag + age[u] = head.tag
          \/ oldHead[u].tag + age[u] = head.tag + TagMod
        BY <1>12 DEF IInv, AgeInv
    <2>3. age'[u] = age[u] + 1 /\ age'[u] < TagMod /\ age[u] \in Nat
        BY <1>9, <1>12
    <2>4. age'[u] \in Nat /\ TagMod \in Nat /\ head.tag \in Nat /\ head.tag < TagMod
        BY <1>2, <2>3, TagAssumption
    <2>5. CASE head.tag + 1 = TagMod
        BY <1>3, <2>1, <2>2, <2>3, <2>4, <2>5
    <2>6. CASE head.tag + 1 # TagMod
        BY <1>3, <2>1, <2>2, <2>3, <2>4, <2>6
    <2> QED  BY <2>5, <2>6
<1>13. AgeInv'
    <2> SUFFICES ASSUME NEW u \in Threads, pc'[u] # "idle"
                 PROVE  /\ \/ oldHead'[u].tag + age'[u] = head'.tag
                           \/ oldHead'[u].tag + age'[u] = head'.tag + TagMod
                        /\ age'[u] = 0 => oldHead'[u] = head'
        BY DEF AgeInv
    <2>1. u \in Threads \ {t} /\ pc[u] # "idle"
        BY <1>8, <1>11
    <2>2. age'[u] # 0 /\ oldHead'[u] = oldHead[u]
        BY <1>8, <1>9, <2>1
    <2> QED  BY <1>4, <1>12, <2>1, <2>2
<1> QED  BY <1>4, <1>5, <1>7, <1>8, <1>9, <1>10, <1>13

\* A successful exchange of allocate(): the first buffer of the list is out.
Popped(t) ==
    /\ Go(t, "pop", "idle")
    /\ StoreHead(t, link[t])
    /\ taken' = taken \union {oldHead[t].index}
    /\ link' = [link EXCEPT ![t] = End]
    /\ UNCHANGED <<nextFree, back, crashed>>

\* The buffer that such a step takes was free, and is the one t had read.
LEMMA PoppedOut ==
    ASSUME IInv, NEW t \in Threads, Popped(t)
    PROVE  /\ head.index \in Indices /\ head.index \notin Out
           /\ head = oldHead[t] /\ link[t] = nextFree[head.index]
           /\ taken' = taken \union {head.index}
           /\ Out' = Out \union {head.index}
<1>1. pc[t] = "pop" /\ head = oldHead[t]
    BY DEF Popped, Go, StoreHead
<1>2. age[t] = 0
    BY <1>1, UnchangedHead
<1>3. head.index # End /\ link[t] = nextFree[head.index] /\ head.index \in Indices
    BY <1>1, <1>2 DEF IInv, LocalInv, PoolTypeOK, Heads
<1>4. taken' = taken \union {head.index}
    BY <1>1 DEF Popped
<1>5. Returning' = Returning
    BY DEF Popped, Returning
<1>6. head.index \notin Out
    <2>1. PICK g \in [Places -> Indices \union {End}] :
              WalkFrom(g) /\ EndsOnce(g) /\ Covers(g)
        BY DEF IInv, ListInv
    <2>2. 0 \in Places /\ g[0] = head.index
        BY <2>1, PoolSizeAssumption DEF WalkFrom, Places
    <2> QED  BY <1>3, <2>1, <2>2 DEF Covers
<1> QED  BY <1>1, <1>3, <1>4, <1>5, <1>6 DEF Out

\* The list without it is still the list of the free buffers.
LEMMA PoppedIInv ==
    ASSUME IInv, NEW t \in Threads, Popped(t)
    PROVE  IInv'
<1>1. /\ head.index \in Indices /\ head.index \notin Out
      /\ head = oldHead[t] /\ link[t] = nextFree[head.index]
      /\ taken' = taken \union {head.index}
      /\ Out' = Out \union {head.index}
    BY PoppedOut
<1>2. link[t] \in Indices \union {End}
    BY DEF IInv, PoolTypeOK
<1>3. /\ pc[t] = "pop" /\ pc' = [pc EXCEPT ![t] = "idle"] /\ StoreHead(t, link[t])
      /\ link' = [link EXCEPT ![t] = End]
      /\ nextFree' = nextFree /\ back' = back /\ crashed' = crashed
    BY DEF Popped, Go
<1>4. /\ AgeInv'
      /\ head' \in Heads /\ head'.index = link[t]
      /\ oldHead' \in [Threads -> Heads]
      /\ age' \in [Threads -> 0 .. TagMod - 1]
      /\ \A u \in Threads \ {t} : pc[u] # "idle" => age'[u] # 0
      /\ \A u \in Threads \ {t} : oldHead'[u] = oldHead[u]
    BY <1>2, <1>3, StoreHeadAges
<1>5. PoolTypeOK'
    BY <1>1, <1>3, <1>4 DEF IInv, PoolTypeOK
<1>6. ListInv'
    BY <1>1, <1>3, <1>4, EndNoIndex, ListPop DEF IInv
<1>7. LocalInv'
    <2>1. \A u \in Threads : back[u] # head.index
        BY <1>1, EndNoIndex DEF Out, Returning
    <2>2. \A u \in Threads \ {t} : pc'[u] = pc[u] /\ link'[u] = link[u]
        BY <1>3 DEF IInv, PoolTypeOK
    <2>3. pc'[t] = "idle"
        BY <1>3 DEF IInv, PoolTypeOK
    <2> QED  BY <1>1, <1>3, <1>4, <2>1, <2>2, <2>3 DEF IInv, LocalInv
<1> QED  BY <1>4, <1>5, <1>6, <1>7 DEF IInv

\* A successful exchange of deallocate(): its buffer is the first of the list.
Pushed(t) ==
    /\ Go(t, "push", "idle")
    /\ StoreHead(t, back[t])
    /\ back' = [back EXCEPT ![t] = End]
    /\ UNCHANGED <<nextFree, taken, link, crashed>>

\* The buffer that such a step gives back was out, and no other thread returns it.
LEMMA PushedOut ==
    ASSUME IInv, NEW t \in Threads, Pushed(t)
    PROVE  /\ back[t] \in Indices /\ back[t] \in Out
           /\ Out' = Out \ {back[t]}
<1>1. pc[t] = "push" /\ back[t] # End /\ back[t] \in Indices
    BY DEF Pushed, Go, IInv, LocalInv, PoolTypeOK
<1>2. back[t] \in Returning /\ back[t] \notin taken
    BY <1>1 DEF Returning, IInv, LocalInv
<1>3. back'[t] = End /\ \A u \in Threads \ {t} : back'[u] = back[u]
    BY DEF Pushed, IInv, PoolTypeOK
<1>4. \A u \in Threads \ {t} : back[u] # back[t]
    BY <1>1 DEF IInv, LocalInv
<1>5. Returning' = Returning \ {back[t]}
    BY <1>1, <1>3, <1>4 DEF Returning
<1>6. taken' = taken
    BY DEF Pushed
<1> QED  BY <1>1, <1>2, <1>5, <1>6 DEF Out

\* The list with it is still the list of the free buffers.
LEMMA PushedIInv ==
    ASSUME IInv, NEW t \in Threads, Pushed(t)
    PROVE  IInv'
<1>1. back[t] \in Indices /\ back[t] \in Out /\ Out' = Out \ {back[t]}
    BY PushedOut
<1>2. /\ pc[t] = "push" /\ pc' = [pc EXCEPT ![t] = "idle"] /\ StoreHead(t, back[t])
      /\ back' = [back EXCEPT ![t] = End]
      /\ nextFree' = nextFree /\ taken' = taken /\ link' = link /\ crashed' = crashed
    BY DEF Pushed, Go
<1>3. /\ AgeInv'
      /\ head' \in Heads /\ head'.index = back[t]
      /\ oldHead' \in [Threads -> Heads]
      /\ age' \in [Threads -> 0 .. TagMod - 1]
      /\ \A u \in Threads \ {t} : pc[u] # "idle" => age'[u] # 0
      /\ \A u \in Threads \ {t} : oldHead'[u] = oldHead[u]
    BY <1>1, <1>2, StoreHeadAges
<1>4. PoolTypeOK'
    BY <1>2, <1>3 DEF IInv, PoolTypeOK
<1>5. nextFree[back[t]] = head.index
    BY <1>2 DEF IInv, LocalInv, StoreHead
<1>6. ListInv'
    BY <1>1, <1>2, <1>3, <1>5, ListPush DEF IInv
<1>7. LocalInv'
    <2>1. End \notin taken
        BY EndNoIndex DEF IInv, PoolTypeOK
    <2>2. \A u \in Threads \ {t} : pc'[u] = pc[u] /\ back'[u] = back[u]
        BY <1>2 DEF IInv, PoolTypeOK
    <2>3. pc'[t] = "idle" /\ back'[t] = End
        BY <1>2 DEF IInv, PoolTypeOK
    <2> QED  BY <1>2, <1>3, <2>1, <2>2, <2>3 DEF IInv, LocalInv
<1> QED  BY <1>3, <1>4, <1>6, <1>7 DEF IInv

\* Every step of allocate() and of deallocate() keeps the invariant.
LEMMA StepIInv == IInv /\ [Next]_pvars => IInv'
<1> SUFFICES ASSUME IInv, [Next]_pvars PROVE IInv'  OBVIOUS
<1>1. CASE UNCHANGED pvars
    <2>1. /\ head' = head /\ nextFree' = nextFree /\ taken' = taken /\ pc' = pc
          /\ oldHead' = oldHead /\ link' = link /\ back' = back /\ age' = age
          /\ crashed' = crashed
        BY <1>1 DEF pvars, locals
    <2>2. PoolTypeOK' /\ AgeInv' /\ LocalInv'
        BY <2>1 DEF IInv, PoolTypeOK, AgeInv, LocalInv
    <2>3. ListInv'
        BY <2>1, ListSame DEF IInv, Out, Returning
    <2> QED  BY <2>2, <2>3 DEF IInv
<1>2. ASSUME NEW t \in Threads, Step(t) PROVE IInv'
    <2>1. AllocateCAS(t) => IInv'
        BY PoppedIInv, AllocateRetryIInv DEF AllocateCAS, Popped
    <2>2. DeallocateCAS(t) => IInv'
        BY PushedIInv, DeallocateRetryIInv DEF DeallocateCAS, Pushed
    <2> QED  BY <1>2, <2>1, <2>2, AllocateLoadIInv, AllocateReadIInv,
                DeallocateLoadIInv, DeallocateLinkIInv DEF Step
<1> QED  BY <1>1, <1>2 DEF Next

\* So it holds in every state of the pool.
LEMMA SpecIInv == Spec => []IInv
<1> QED  BY InitIInv, StepIInv, PTL DEF Spec

-----------------------------------------------------------------------------
\* The pool's words stay in range: head_, nextFree_, the locals of both
\* operations, and the age that tells a tag from the same tag one turn later.
THEOREM PoolTypeCorrect == Spec => []PoolTypeOK
<1>1. IInv => PoolTypeOK
    BY DEF IInv
<1> QED  BY <1>1, SpecIInv, PTL

\* Whatever the threads' allocate() and deallocate() interleave to, the list from
\* head_ ends and holds exactly the buffers that no caller has and that are not on
\* their way back: the tag keeps every stale nextIndex out of head_.
THEOREM PoolListExact == Spec => []ListExact
<1>1. IInv => ListExact
    BY ListInvExact DEF IInv
<1> QED  BY <1>1, SpecIInv, PTL

\* The buffers on the list are the ones that are not out.
FreeExact == FreeList = Indices \ Out /\ Out \subseteq Indices

\* The invariant says so.
LEMMA IInvFreeExact == IInv => FreeExact
<1> SUFFICES ASSUME IInv PROVE FreeExact  OBVIOUS
<1>1. FreeList = Indices \ Out
    BY ListInvExact DEF IInv, ListExact, Out
<1>2. Out \subseteq Indices
    BY DEF IInv, PoolTypeOK, Out, Returning
<1> QED  BY <1>1, <1>2 DEF FreeExact

\* A step that leaves the buffers that are out alone leaves the free ones alone.
LEMMA SameOut ==
    ASSUME FreeExact, FreeExact', Out' = Out
    PROVE  UNCHANGED <<FreeList, taken \union Returning>>
<1>1. FreeList' = FreeList
    BY DEF FreeExact
<1> QED  BY <1>1 DEF Out

\* Every step is an abstract allocate(), an abstract deallocate() or neither.
LEMMA StepPool ==
    ASSUME IInv, IInv', FreeExact, FreeExact', [Next]_pvars
    PROVE  [\E b \in Indices : Pool!Hand(b) \/ Pool!TakeBack(b)]_<<FreeList, taken \union Returning>>
<1> DEFINE A == \E b \in Indices : Pool!Hand(b) \/ Pool!TakeBack(b)
<1> SUFFICES A \/ UNCHANGED <<FreeList, taken \union Returning>>
    OBVIOUS
<1>1. ASSUME NEW t \in Threads, Popped(t) PROVE A
    <2>1. /\ head.index \in Indices /\ head.index \notin Out
          /\ Out' = Out \union {head.index}
        BY <1>1, PoppedOut
    <2>2. head.index \in FreeList /\ FreeList' = FreeList \ {head.index}
        BY <2>1 DEF FreeExact
    <2>3. Pool!Hand(head.index)
        BY <2>1, <2>2 DEF Pool!Hand, Out
    <2> QED  BY <2>1, <2>3
<1>2. ASSUME NEW t \in Threads, Pushed(t) PROVE A
    <2>1. back[t] \in Indices /\ back[t] \in Out /\ Out' = Out \ {back[t]}
        BY <1>2, PushedOut
    <2>2. FreeList' = FreeList \union {back[t]}
        BY <2>1 DEF FreeExact
    <2>3. Pool!TakeBack(back[t])
        BY <2>1, <2>2 DEF Pool!TakeBack, Out
    <2> QED  BY <2>1, <2>3
<1>3. ASSUME taken' = taken, back' = back
      PROVE  UNCHANGED <<FreeList, taken \union Returning>>
    <2>1. Out' = Out
        BY <1>3 DEF Out, Returning
    <2> QED  BY <2>1, SameOut
<1>4. ASSUME NEW t \in Threads, DeallocateLoad(t)
      PROVE  UNCHANGED <<FreeList, taken \union Returning>>
    <2>1. PICK i \in taken : taken' = taken \ {i} /\ back' = [back EXCEPT ![t] = i]
        BY <1>4 DEF DeallocateLoad
    <2>2. back[t] = End /\ i # End
        BY <1>4, <2>1, EndNoIndex DEF DeallocateLoad, Go, IInv, LocalInv, PoolTypeOK
    <2>3. back'[t] = i /\ \A u \in Threads \ {t} : back'[u] = back[u]
        BY <2>1 DEF IInv, PoolTypeOK
    <2>4. Returning' = Returning \union {i}
        BY <2>2, <2>3 DEF Returning
    <2>5. Out' = Out
        BY <2>1, <2>4 DEF Out
    <2> QED  BY <2>5, SameOut
<1>5. CASE UNCHANGED pvars
    BY <1>3, <1>5 DEF pvars, locals
<1>6. ASSUME NEW t \in Threads, Step(t)
      PROVE  A \/ UNCHANGED <<FreeList, taken \union Returning>>
    <2>1. AllocateLoad(t) \/ AllocateRead(t) \/ DeallocateLink(t) =>
              taken' = taken /\ back' = back
        BY DEF AllocateLoad, AllocateRead, DeallocateLink, locals
    <2>2. AllocateCAS(t) => Popped(t) \/ (taken' = taken /\ back' = back)
        BY DEF AllocateCAS, Popped
    <2>3. DeallocateCAS(t) => Pushed(t) \/ (taken' = taken /\ back' = back)
        BY DEF DeallocateCAS, Pushed
    <2> QED  BY <1>1, <1>2, <1>3, <1>4, <1>6, <2>1, <2>2, <2>3 DEF Step
<1> QED  BY <1>5, <1>6 DEF Next

\* The lock-free pool implements MessagePool: allocate() hands out, at its
\* exchange, a buffer that nobody had, deallocate() takes back one that was out.
THEOREM PoolRefinesMessagePool == Spec => ImplementsPool
<1>1. Init => Pool!PoolInit
    <2> SUFFICES ASSUME Init PROVE Pool!PoolInit  OBVIOUS
    <2>1. FreeExact
        BY InitIInv, IInvFreeExact
    <2>2. taken \union Returning = {}
        BY DEF Init, Returning
    <2> QED  BY <2>1, <2>2 DEF Pool!PoolInit, FreeExact, Out
<1>2. IInv' => FreeExact'
    BY IInvFreeExact, PTL
<1>3. IInv /\ IInv' /\ [Next]_pvars =>
        [\E b \in Indices : Pool!Hand(b) \/ Pool!TakeBack(b)]_<<FreeList, taken \union Returning>>
    BY <1>2, IInvFreeExact, StepPool
<1> QED  BY <1>1, <1>3, SpecIInv, PTL DEF Spec, ImplementsPool, Pool!PoolSpec
=============================================================================
