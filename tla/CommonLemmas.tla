---------------------------- MODULE CommonLemmas -----------------------------
(***************************************************************************)
(* What the proofs share.  Induction: a least counterexample, and functions *)
(* that are defined recursively.  The arithmetic of the rings of Queue.hpp  *)
(* and of the tables of HashMap.hpp: position i is kept in cell i & mask_,  *)
(* that is i modulo the capacity; and what is queued is the part of         *)
(* everything enqueued that starts at head_.                                *)
(***************************************************************************)
EXTENDS Integers, Sequences, SequenceTheorems, WellFoundedInduction, TLAPS

\* A set of numbers that is not empty has a least one.
LEMMA LeastNat ==
    ASSUME NEW T \in SUBSET Nat, T # {}
    PROVE  \E n \in T : \A m \in T : n <= m
<1> DEFINE R == {ss \in Nat \X Nat : ss[1] < ss[2]}
<1>1. IsWellFoundedOn(R, Nat)
    BY NatLessThanWellFounded DEF OpToRel
<1> HIDE DEF R
<1>2. PICK x \in T : \A y \in T : ~ (<<y, x>> \in R)
    BY <1>1, WFMin
<1>3. \A y \in T : ~ (y < x)
    BY <1>2 DEF R
<1> QED BY <1>3

\* What holds of 0, and of n + 1 when it holds of n, holds of every number up to N.
LEMMA UpTo ==
    ASSUME NEW N \in Nat, NEW T, 0 \in T,
           \A n \in 0 .. N - 1 : n \in T => n + 1 \in T
    PROVE  \A n \in 0 .. N : n \in T
<1> SUFFICES ASSUME NEW k \in 0 .. N, k \notin T PROVE FALSE
    OBVIOUS
<1> DEFINE Bad == {n \in 0 .. N : n \notin T}
<1>1. Bad \in SUBSET Nat /\ Bad # {}
    OBVIOUS
<1> HIDE DEF Bad
<1>2. PICK n \in Bad : \A m \in Bad : n <= m
    BY <1>1, LeastNat
<1>3. n \in 0 .. N /\ n \notin T /\ n # 0
    BY <1>2 DEF Bad
<1>4. n - 1 \in 0 .. N - 1 /\ n - 1 \notin Bad /\ (n - 1) + 1 = n
    BY <1>2, <1>3
<1>5. n - 1 \in T
    BY <1>3, <1>4 DEF Bad
<1> QED  BY <1>3, <1>4, <1>5

\* f starts with x0 and goes by g: its value at i is made of that at i - 1.
GoesBy(f, g, x0, N, X) ==
    /\ f \in [0 .. N -> X]
    /\ f[0] = x0
    /\ \A i \in 1 .. N : f[i] = g[i][f[i - 1]]

\* There is such a function.
LEMMA RecursiveFunction ==
    ASSUME NEW X, NEW N \in Nat, NEW x0 \in X, NEW g \in [1 .. N -> [X -> X]]
    PROVE  \E f : GoesBy(f, g, x0, N, X)
<1> DEFINE Good(n, f) == f[0] = x0 /\ \A i \in 1 .. n : f[i] = g[i][f[i - 1]]
           T == {n \in 0 .. N : \E f \in [0 .. n -> X] : Good(n, f)}
<1>1. 0 \in T
    <2>1. [i \in 0 .. 0 |-> x0] \in [0 .. 0 -> X] /\ Good(0, [i \in 0 .. 0 |-> x0])
        OBVIOUS
    <2>2. \E f \in [0 .. 0 -> X] : Good(0, f)
        BY <2>1, Zenon
    <2>3. 0 \in 0 .. N
        OBVIOUS
    <2> QED  BY <2>2, <2>3, Zenon
<1>2. ASSUME NEW n \in 0 .. N - 1, n \in T PROVE n + 1 \in T
    <2>1. PICK f \in [0 .. n -> X] : Good(n, f)
        BY <1>2
    <2> DEFINE h == [i \in 0 .. n + 1 |-> IF i = n + 1 THEN g[n + 1][f[n]] ELSE f[i]]
    <2>2. n + 1 \in 1 .. N /\ f[n] \in X
        BY <2>1
    <2>3. g[n + 1][f[n]] \in X
        BY <2>2
    <2>4. h \in [0 .. n + 1 -> X]
        BY <2>3
    <2>5. h[0] = x0
        BY <2>1
    <2>6. ASSUME NEW i \in 1 .. n + 1 PROVE h[i] = g[i][h[i - 1]]
        <3>1. i - 1 \in 0 .. n /\ h[i - 1] = f[i - 1]
            OBVIOUS
        <3>2. CASE i = n + 1
            BY <3>1, <3>2
        <3>3. CASE i # n + 1
            <4>1. i \in 1 .. n /\ h[i] = f[i]
                BY <3>3
            <4> QED  BY <2>1, <3>1, <4>1
        <3> QED  BY <3>2, <3>3
    <2> HIDE DEF h
    <2>7. n + 1 \in 0 .. N
        OBVIOUS
    <2>8. Good(n + 1, h)
        BY <2>5, <2>6
    <2> QED  BY <2>4, <2>7, <2>8, Zenon
<1> HIDE DEF T
<1>3. N \in T
    <2>1. \A n \in 0 .. N : n \in T
        BY <1>1, <1>2, UpTo
    <2>2. N \in 0 .. N
        OBVIOUS
    <2> QED  BY <2>1, <2>2
<1>4. PICK f \in [0 .. N -> X] : Good(N, f)
    BY <1>3 DEF T
<1>5. GoesBy(f, g, x0, N, X)
    BY <1>4 DEF GoesBy
<1> QED  BY <1>5

\* A function that goes by g has its values where g has them.
LEMMA RecursiveType ==
    ASSUME NEW X, NEW N \in Nat, NEW g \in [1 .. N -> [X -> X]],
           NEW h, h[0] \in X,
           \A i \in 1 .. N : h[i - 1] \in X => h[i] = g[i][h[i - 1]]
    PROVE  \A i \in 0 .. N : h[i] \in X
<1> DEFINE T == {n \in 0 .. N : h[n] \in X}
<1>1. 0 \in T
    OBVIOUS
<1>2. ASSUME NEW n \in 0 .. N - 1, n \in T PROVE n + 1 \in T
    <2>1. n + 1 \in 1 .. N /\ (n + 1) - 1 = n /\ h[n] \in X
        BY <1>2
    <2>2. h[n + 1] = g[n + 1][h[n]]
        BY <2>1
    <2> QED  BY <2>1, <2>2
<1> HIDE DEF T
<1>3. \A n \in 0 .. N : n \in T
    BY <1>1, <1>2, UpTo
<1> QED  BY <1>3 DEF T

-----------------------------------------------------------------------------
\* A position is its cell plus whole turns of the ring (& mask_).
LEMMA DivMod ==
    ASSUME NEW c \in Nat \ {0}, NEW i \in Nat
    PROVE  /\ i % c \in Nat
           /\ i \div c \in Nat
           /\ i = c * (i \div c) + (i % c)
BY Z3

\* The cell of a position is a cell of the ring.
LEMMA CellInRing ==
    ASSUME NEW c \in Nat \ {0}, NEW i \in Nat
    PROVE  i % c \in 0 .. c - 1
OBVIOUS

\* One turn more is at least c positions more.
LEMMA WholeTurn ==
    ASSUME NEW c \in Nat \ {0}, NEW a \in Nat, NEW b \in Nat, a < b
    PROVE  c * b >= c * a + c
<1>1. b >= a + 1  OBVIOUS
<1>2. c * b >= c * (a + 1)  BY <1>1
<1>3. c * (a + 1) = c * a + c  OBVIOUS
<1> QED  BY <1>2, <1>3

\* Positions less than a turn apart fall into different cells.
LEMMA CellsDiffer ==
    ASSUME NEW c \in Nat \ {0}, NEW i \in Nat, NEW j \in Nat, i < j, j - i < c
    PROVE  i % c # j % c
<1> SUFFICES ASSUME i % c = j % c PROVE FALSE  OBVIOUS
<1>1. i \div c \in Nat /\ i % c \in Nat /\ i = c * (i \div c) + (i % c)
    BY DivMod, Zenon
<1>2. j \div c \in Nat /\ j % c \in Nat /\ j = c * (j \div c) + (j % c)
    BY DivMod, Zenon
<1>3. c * (i \div c) \in Int /\ c * (j \div c) \in Int  BY <1>1, <1>2
<1>4. CASE i \div c < j \div c
    <2>1. c * (j \div c) >= c * (i \div c) + c  BY <1>1, <1>2, <1>4, WholeTurn
    <2> QED  BY <1>1, <1>2, <1>3, <2>1
<1>5. CASE j \div c < i \div c
    <2>1. c * (i \div c) >= c * (j \div c) + c  BY <1>1, <1>2, <1>5, WholeTurn
    <2> QED  BY <1>1, <1>2, <1>3, <2>1
<1>6. CASE i \div c = j \div c  BY <1>1, <1>2, <1>3, <1>6
<1> QED  BY <1>1, <1>2, <1>4, <1>5, <1>6

\* A position and the one a turn later share their cell.
LEMMA SameCellNextTurn ==
    ASSUME NEW c \in Nat \ {0}, NEW i \in Nat
    PROVE  (i + c) % c = i % c
<1> DEFINE j == i + c
<1>1. j \in Nat /\ j = i + c  OBVIOUS
<1> HIDE DEF j
<1>2. i \div c \in Nat /\ i % c \in Nat /\ i = c * (i \div c) + (i % c)
    BY DivMod, Zenon
<1>3. j \div c \in Nat /\ j % c \in Nat /\ j = c * (j \div c) + (j % c)
    BY <1>1, DivMod, Zenon
<1>4. i % c \in 0 .. c - 1 /\ j % c \in 0 .. c - 1
    BY <1>1, CellInRing
<1>5. (i \div c) + 1 \in Nat /\ c * ((i \div c) + 1) = c * (i \div c) + c
    BY <1>2
<1>6. c * (i \div c) \in Int /\ c * (j \div c) \in Int  BY <1>2, <1>3
<1>7. CASE (i \div c) + 1 < j \div c
    <2>1. c * (j \div c) >= c * ((i \div c) + 1) + c  BY <1>3, <1>5, <1>7, WholeTurn
    <2> QED  BY <1>1, <1>2, <1>3, <1>4, <1>5, <1>6, <2>1
<1>8. CASE j \div c < (i \div c) + 1
    <2>1. c * ((i \div c) + 1) >= c * (j \div c) + c  BY <1>3, <1>5, <1>8, WholeTurn
    <2> QED  BY <1>1, <1>2, <1>3, <1>4, <1>5, <1>6, <2>1
<1>9. CASE (i \div c) + 1 = j \div c
    <2>1. j % c = i % c
        BY <1>1, <1>2, <1>3, <1>5, <1>6, <1>9
    <2> QED  BY <2>1 DEF j
<1> QED  BY <1>2, <1>3, <1>7, <1>8, <1>9

-----------------------------------------------------------------------------
\* q is what is left of the history e behind its first h elements.
IsRest(S, q, e, h) ==
    /\ q \in Seq(S)
    /\ Len(q) = Len(e) - h
    /\ \A k \in 1 .. Len(e) - h : q[k] = e[h + k]

\* There is one rest.
LEMMA RestUnique ==
    ASSUME NEW S, NEW e \in Seq(S), NEW h \in 0 .. Len(e),
           NEW q, NEW r, IsRest(S, q, e, h), IsRest(S, r, e, h)
    PROVE  q = r
BY SeqEqual DEF IsRest

\* The rest grows at its end with the history.
LEMMA RestGrows ==
    ASSUME NEW S, NEW e \in Seq(S), NEW v \in S, NEW h \in 0 .. Len(e),
           NEW q, NEW r, IsRest(S, q, e, h), IsRest(S, r, Append(e, v), h)
    PROVE  r = Append(q, v)
<1> DEFINE n == Len(e) - h
           a == Append(q, v)
<1>1. Len(e) \in Nat /\ h \in Nat /\ n \in Nat /\ h + n = Len(e)
    BY LenProperties
<1>2. /\ Append(e, v) \in Seq(S) /\ Len(Append(e, v)) = Len(e) + 1
      /\ \A i \in 1 .. Len(e) : Append(e, v)[i] = e[i]
      /\ Append(e, v)[Len(e) + 1] = v
    BY AppendProperties
<1>3. q \in Seq(S) /\ Len(q) = n /\ \A k \in 1 .. n : q[k] = e[h + k]
    BY DEF IsRest
<1>4. /\ r \in Seq(S) /\ Len(r) = n + 1
      /\ \A k \in 1 .. n + 1 : r[k] = Append(e, v)[h + k]
    <2>1. Len(Append(e, v)) - h = n + 1
        BY <1>1, <1>2
    <2> QED  BY <2>1, Zenon DEF IsRest
<1>5. /\ a \in Seq(S) /\ Len(a) = n + 1
      /\ \A k \in 1 .. n : a[k] = q[k]
      /\ a[n + 1] = v
    BY <1>3, AppendProperties
<1> HIDE DEF n, a
<1>6. ASSUME NEW k \in 1 .. n + 1
      PROVE  r[k] = a[k]
    <2>1. CASE k \in 1 .. n
        <3>1. h + k \in 1 .. Len(e)  BY <1>1, <2>1
        <3> QED  BY <1>2, <1>3, <1>4, <1>5, <2>1, <3>1, Zenon
    <2>2. CASE k = n + 1
        <3>1. h + k = Len(e) + 1  BY <1>1, <2>2
        <3> QED  BY <1>2, <1>4, <1>5, <2>2, <3>1, Zenon
    <2>3. k \in 1 .. n \/ k = n + 1  BY <1>1
    <2> QED  BY <2>1, <2>2, <2>3, Zenon
<1>7. r = a
    BY <1>4, <1>5, <1>6, SeqEqual
<1> QED  BY <1>7 DEF a

\* It shrinks at its beginning when the next element is taken.
LEMMA RestShrinks ==
    ASSUME NEW S, NEW e \in Seq(S), NEW h \in 0 .. Len(e), h < Len(e),
           NEW q, NEW r, IsRest(S, q, e, h), IsRest(S, r, e, h + 1)
    PROVE  q # << >> /\ r = Tail(q)
<1>1. Len(e) \in Nat /\ h \in Nat
    BY LenProperties
<1>2. q \in Seq(S) /\ Len(q) = Len(e) - h
    BY DEF IsRest
<1>3. q # << >>
    <2>1. Len(q) # 0  BY <1>1, <1>2
    <2>2. Len(<< >>) = 0  OBVIOUS
    <2> QED  BY <2>1, <2>2, Zenon
<1>4. /\ Tail(q) \in Seq(S) /\ Len(Tail(q)) = Len(q) - 1
      /\ \A k \in 1 .. Len(q) - 1 : Tail(q)[k] = q[k + 1]
    BY <1>2, <1>3, HeadTailProperties
<1>5. r \in Seq(S) /\ Len(r) = Len(q) - 1
    BY <1>1, <1>2 DEF IsRest
<1>6. \A k \in 1 .. Len(q) - 1 : r[k] = Tail(q)[k]
    BY <1>1, <1>2, <1>4 DEF IsRest
<1>7. r = Tail(q)
    BY <1>4, <1>5, <1>6, SeqEqual
<1> QED  BY <1>3, <1>7

\* Whole turns do not change the slot.
LEMMA SlotOfTurns ==
    ASSUME NEW n \in Nat, n > 0, NEW s \in 0 .. n - 1, NEW k \in Int
    PROVE  (s + k * n) % n = s
OBVIOUS

\* The next slot and the one before.
LEMMA NextSlot ==
    ASSUME NEW n \in Nat \ {0}, NEW s \in 0 .. n - 1
    PROVE  /\ (s + 1) % n = IF s = n - 1 THEN 0 ELSE s + 1
           /\ (s - 1) % n = IF s = 0 THEN n - 1 ELSE s - 1
<1>1. \A r \in 0 .. n - 1, k \in Int : (r + k * n) % n = r
  BY SlotOfTurns
<1>2. /\ s = n - 1 => s + 1 = 0 + 1 * n
      /\ s # n - 1 => s + 1 = (s + 1) + 0 * n /\ s + 1 \in 0 .. n - 1
      /\ s = 0 => s - 1 = (n - 1) + (0 - 1) * n
      /\ s # 0 => s - 1 = (s - 1) + 0 * n /\ s - 1 \in 0 .. n - 1
  OBVIOUS
<1>3. 0 \in 0 .. n - 1 /\ n - 1 \in 0 .. n - 1
  OBVIOUS
<1> QED  BY <1>1, <1>2, <1>3

\* A sequence is a function on so many numbers.
LEMMA SequenceIs ==
    ASSUME NEW S, NEW s \in Seq(S), NEW k \in Nat, Len(s) = k
    PROVE  s \in [1 .. k -> S]
OBVIOUS

=============================================================================
