------------------------------- MODULE HashMaps -------------------------------
(***************************************************************************)
(* The four maps of HashMap.hpp as functions of their state: the chained    *)
(* table, the chained table over a pool of nodes, the table with open       *)
(* addressing and the wrapper of std::unordered_map.  A map is a record     *)
(* with its kind; the keys are integers, which std::hash leaves as they     *)
(* are.  Pointers into a map never outlive the call that returned them, so  *)
(* that find() and operator[] give values, and m[k] = v is MapAssign.          *)
(***************************************************************************)
EXTENDS Integers, Sequences, FiniteSets, FiniteSetsExt, SequencesExt

CONSTANTS
    InitBuckets,      \* Const::initBuckets
    NodesPerBucket,   \* the 16 of nodesPool_(Const::initBuckets * 16)
    NoValue           \* Value{} and the nullptr of find()

ASSUME BucketsAssumption == InitBuckets \in {2^n : n \in 0 .. 20}
ASSUME NodesAssumption   == NodesPerBucket \in Nat \ {0}

Kinds   == {"chaining", "fixed", "open", "stl"}
Buckets == 0 .. InitBuckets - 1
Nodes   == 1 .. InitBuckets * NodesPerBucket

\* std::hash<Key>()(key) & mask_, for a table of n cells.
IndexOf(key, n) == key % n

\* What a map operation leaves and gives: the map, a value, and whether it threw.
Result(m, v)  == [map |-> m, value |-> v, thrown |-> FALSE]
Thrown(m)     == [map |-> m, value |-> NoValue, thrown |-> TRUE]

-----------------------------------------------------------------------------
(***************************************************************************)
(* ChainingHashMap: a list of pairs per bucket.                             *)
(***************************************************************************)
ChainingEmpty == [kind |-> "chaining", table |-> [i \in Buckets |-> <<>>]]

ChainingBucket(m, key) == m.table[IndexOf(key, InitBuckets)]

\* The loops over a bucket: the first position with the key, or 0.
ChainingFind(m, key) ==
    SelectInSeq(ChainingBucket(m, key), LAMBDA node : node.key = key)

\* find(): the value of the key, or null.
ChainingGet(m, key) ==
    LET p == ChainingFind(m, key)
    IN  IF p = 0 THEN NoValue ELSE ChainingBucket(m, key)[p].value

\* Both operator[] and insert end in emplace_back(key, value) of a new key.
ChainingPut(m, key, value) ==
    LET i == IndexOf(key, InitBuckets)
        p == ChainingFind(m, key)
    IN  IF p = 0
        THEN [m EXCEPT !.table[i] = Append(@, [key |-> key, value |-> value])]
        ELSE [m EXCEPT !.table[i][p].value = value]

ChainingIndex(m, key) ==
    LET p == ChainingFind(m, key)
    IN  IF p = 0 THEN Result(ChainingPut(m, key, NoValue), NoValue)
        ELSE Result(m, ChainingBucket(m, key)[p].value)

\* Mutant: the search for the key looks at the first node of the bucket only.
ChainingEraseFirst(m, key) ==
    IF ChainingFind(m, key) # 1 THEN m
    ELSE [m EXCEPT !.table[IndexOf(key, InitBuckets)] = Tail(@)]

\* remove(node) of a list takes out every node that has the key of this one.
WithoutKey(list, key) ==
    LET kept[i \in 0 .. Len(list)] ==
            IF i = 0 THEN <<>>
            ELSE IF list[i].key = key THEN kept[i - 1]
                 ELSE Append(kept[i - 1], list[i])
    IN  kept[Len(list)]

ChainingErase(m, key) ==
    [m EXCEPT !.table[IndexOf(key, InitBuckets)] = WithoutKey(@, key)]

-----------------------------------------------------------------------------
(***************************************************************************)
(* FixedSizedChainingHashMap: the linked list of a bucket is the sequence   *)
(* of its nodes; freeNodes_ is a stack.                                     *)
(***************************************************************************)
FixedEmpty ==
    [kind |-> "fixed",
     buckets |-> [i \in Buckets |-> <<>>],
     nodes |-> [n \in Nodes |-> [key |-> 0, value |-> NoValue]],
     free |-> [i \in 1 .. InitBuckets * NodesPerBucket |-> i]]

FixedBucket(m, key) == m.buckets[IndexOf(key, InitBuckets)]

FixedFind(m, key) ==
    SelectInSeq(FixedBucket(m, key), LAMBDA n : m.nodes[n].key = key)

FixedGet(m, key) ==
    LET p == FixedFind(m, key)
    IN  IF p = 0 THEN NoValue ELSE m.nodes[FixedBucket(m, key)[p]].value

\* Take the top of freeNodes_, fill it and link it behind the last node.
FixedAppend(m, key, value) ==
    LET n == Last(m.free)
    IN  [m EXCEPT !.free = Front(@),
                  !.nodes[n] = [key |-> key, value |-> value],
                  !.buckets[IndexOf(key, InitBuckets)] = Append(@, n)]

\* insert() does not look whether the key is there already.
FixedInsert(m, key, value) ==
    IF m.free = <<>> THEN Thrown(m) ELSE Result(FixedAppend(m, key, value), NoValue)

\* Mutant: the loop ends at the last node instead of behind it.
FixedIndexMissesLast(m, key) ==
    LET p == SelectInSeq(Front(FixedBucket(m, key)), LAMBDA n : m.nodes[n].key = key)
    IN  IF p # 0 THEN Result(m, m.nodes[FixedBucket(m, key)[p]].value)
        ELSE IF m.free = <<>> THEN Thrown(m)
        ELSE Result(FixedAppend(m, key, NoValue), NoValue)

FixedIndex(m, key) ==
    LET p == FixedFind(m, key)
    IN  IF p # 0 THEN Result(m, m.nodes[FixedBucket(m, key)[p]].value)
        ELSE IF m.free = <<>> THEN Thrown(m)
        ELSE Result(FixedAppend(m, key, NoValue), NoValue)

\* Mutant: the erased node is not given back.
FixedEraseLeak(m, key) ==
    LET p == FixedFind(m, key)
    IN  IF p = 0 THEN m
        ELSE [m EXCEPT !.buckets[IndexOf(key, InitBuckets)] = RemoveAt(@, p)]

\* What the node held stays in the code's pool; here it is blanked.
FixedErase(m, key) ==
    LET p == FixedFind(m, key)
        n == FixedBucket(m, key)[p]
    IN  IF p = 0 THEN m
        ELSE [m EXCEPT !.free = Append(@, n),
                       !.nodes[n] = [key |-> 0, value |-> NoValue],
                       !.buckets[IndexOf(key, InitBuckets)] = RemoveAt(@, p)]

-----------------------------------------------------------------------------
(***************************************************************************)
(* OpenAddressingHashMap: one table, linear probing, tombstones.            *)
(***************************************************************************)
OpenTable(n) ==
    [kind |-> "open",
     status |-> [i \in 0 .. n - 1 |-> "EMPTY"],
     key |-> [i \in 0 .. n - 1 |-> 0],
     value |-> [i \in 0 .. n - 1 |-> NoValue],
     size |-> 0]

OpenEmpty == OpenTable(InitBuckets)

Capacity(m) == Cardinality(DOMAIN m.status)

\* The j-th cell that a probe for the key visits.
Probe(m, key, j) == IndexOf(key + j, Capacity(m))

Holds(m, i, key) == m.status[i] = "OCCUPIED" /\ m.key[i] = key

\* The first of the given probe steps; -1 when the probe comes around.
FirstStep(steps) == IF steps = {} THEN -1 ELSE Min(steps)

\* contains(), erase() and find() go on until an EMPTY cell, past tombstones,
\* and at most once around.
OpenFind(m, key) ==
    LET steps == 0 .. Capacity(m) - 1
        at(j) == Probe(m, key, j)
        hit   == FirstStep({j \in steps : Holds(m, at(j), key)})
        empty == FirstStep({j \in steps : m.status[at(j)] = "EMPTY"})
    IN  IF hit # -1 /\ (empty = -1 \/ hit < empty) THEN at(hit) ELSE -1

OpenGet(m, key) ==
    LET i == OpenFind(m, key) IN IF i = -1 THEN NoValue ELSE m.value[i]

\* insert() and operator[] stop at the first cell that is not OCCUPIED, be it a
\* tombstone in front of the key they look for.
OpenPlace(m, key) ==
    LET step == FirstStep({j \in 0 .. Capacity(m) - 1 :
                    \/ m.status[Probe(m, key, j)] # "OCCUPIED"
                    \/ m.key[Probe(m, key, j)] = key})
    IN  IF step = -1 THEN -1 ELSE Probe(m, key, step)

\* (size_ + 1) > table_.size() * maxLoadFactor_, with 0.7f
OverLoad(m) == (m.size + 1) * 10 > Capacity(m) * 7

\* A key and a value in a cell that was EMPTY or DELETED.
Occupy(m, i, key, value) ==
    [m EXCEPT !.status[i] = "OCCUPIED", !.key[i] = key, !.value[i] = value,
              !.size = @ + 1]

\* insert() behind its test of the load.
OpenStore(m, key, value) ==
    LET i == OpenPlace(m, key)
    IN  IF m.status[i] = "OCCUPIED" THEN [m EXCEPT !.value[i] = value]
        ELSE Occupy(m, i, key, value)

\* reHash(): the occupied cells, in the order of the table, are inserted into one
\* of twice the size, whose load never calls for another reHash().
ReHash(m) ==
    LET moved[i \in 0 .. Capacity(m)] ==
            IF i = 0 THEN OpenTable(2 * Capacity(m))
            ELSE IF m.status[i - 1] = "OCCUPIED"
                 THEN OpenStore(moved[i - 1], m.key[i - 1], m.value[i - 1])
                 ELSE moved[i - 1]
    IN  moved[Capacity(m)]

OpenInsert(m, key, value) ==
    OpenStore(IF OverLoad(m) THEN ReHash(m) ELSE m, key, value)

\* operator[] tests the load only when it has found no cell with the key, and
\* starts again behind a reHash().
OpenIndex(m, key) ==
    LET i == OpenPlace(m, key)
        w == IF OverLoad(m) THEN ReHash(m) ELSE m
        j == OpenPlace(w, key)
    IN  IF i = -1 THEN Thrown(m)
        ELSE IF m.status[i] = "OCCUPIED" THEN Result(m, m.value[i])
        ELSE IF w.status[j] = "OCCUPIED" THEN Result(w, w.value[j])
        ELSE Result(Occupy(w, j, key, NoValue), NoValue)

\* A cell that is given up.  What it held stays in the code's table, where nobody
\* reads it; here it is blanked.
Vacate(m, i, status) ==
    [m EXCEPT !.status[i] = status, !.key[i] = 0, !.value[i] = NoValue, !.size = @ - 1]

\* Mutant: an erased cell ends the probes of other keys.
OpenEraseToEmpty(m, key) ==
    LET i == OpenFind(m, key) IN IF i = -1 THEN m ELSE Vacate(m, i, "EMPTY")

OpenErase(m, key) ==
    LET i == OpenFind(m, key) IN IF i = -1 THEN m ELSE Vacate(m, i, "DELETED")

-----------------------------------------------------------------------------
(***************************************************************************)
(* STLHashMap, and the interface MyHM over all four.                        *)
(***************************************************************************)
STLEmpty == [kind |-> "stl", map |-> <<>>]

STLPut(m, key, value) ==
    [m EXCEPT !.map = [k \in DOMAIN m.map \union {key} |->
                         IF k = key THEN value ELSE m.map[k]]]

\* map_.insert({key, value}) leaves a key that is there alone.
STLInsert(m, key, value) == IF key \in DOMAIN m.map THEN m ELSE STLPut(m, key, value)

STLIndex(m, key) ==
    IF key \in DOMAIN m.map THEN Result(m, m.map[key])
    ELSE Result(STLPut(m, key, NoValue), NoValue)

STLGet(m, key) == IF key \in DOMAIN m.map THEN m.map[key] ELSE NoValue

STLErase(m, key) == [m EXCEPT !.map = [k \in DOMAIN m.map \ {key} |-> m.map[k]]]

EmptyMap(kind) ==
    CASE kind = "chaining" -> ChainingEmpty
      [] kind = "fixed"    -> FixedEmpty
      [] kind = "open"     -> OpenEmpty
      [] kind = "stl"      -> STLEmpty

MapContains(m, key) ==
    CASE m.kind = "chaining" -> ChainingFind(m, key) # 0
      [] m.kind = "fixed"    -> FixedFind(m, key) # 0
      [] m.kind = "open"     -> OpenFind(m, key) # -1
      [] m.kind = "stl"      -> key \in DOMAIN m.map

MapFind(m, key) ==
    CASE m.kind = "chaining" -> ChainingGet(m, key)
      [] m.kind = "fixed"    -> FixedGet(m, key)
      [] m.kind = "open"     -> OpenGet(m, key)
      [] m.kind = "stl"      -> STLGet(m, key)

MapInsert(m, key, value) ==
    CASE m.kind = "chaining" -> Result(ChainingPut(m, key, value), NoValue)
      [] m.kind = "fixed"    -> FixedInsert(m, key, value)
      [] m.kind = "open"     -> Result(OpenInsert(m, key, value), NoValue)
      [] m.kind = "stl"      -> Result(STLInsert(m, key, value), NoValue)

\* operator[]: the map afterwards and the value its reference shows.
MapIndex(m, key) ==
    CASE m.kind = "chaining" -> ChainingIndex(m, key)
      [] m.kind = "fixed"    -> FixedIndex(m, key)
      [] m.kind = "open"     -> OpenIndex(m, key)
      [] m.kind = "stl"      -> STLIndex(m, key)

\* m[key] = value: operator[] and a store through its reference, which is to the
\* cell where the key is found first.
MapAssign(m, key, value) ==
    LET r == MapIndex(m, key)
        w == r.map
    IN  IF r.thrown THEN r
        ELSE CASE m.kind = "chaining" -> Result(ChainingPut(w, key, value), value)
               [] m.kind = "fixed" ->
                      Result([w EXCEPT !.nodes[FixedBucket(w, key)[FixedFind(w, key)]].value
                                            = value], value)
               [] m.kind = "open"  ->
                      Result([w EXCEPT !.value[OpenPlace(w, key)] = value], value)
               [] m.kind = "stl"   -> Result(STLPut(w, key, value), value)

MapErase(m, key) ==
    CASE m.kind = "chaining" -> ChainingErase(m, key)
      [] m.kind = "fixed"    -> FixedErase(m, key)
      [] m.kind = "open"     -> OpenErase(m, key)
      [] m.kind = "stl"      -> STLErase(m, key)

=============================================================================
