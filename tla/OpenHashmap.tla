---------------------------- MODULE OpenHashmap -----------------------------
(***************************************************************************)
(* The open-addressing hash map of src/hw11/lib/open_hashmap.c (and, with  *)
(* its buckets in place of pointers to them, of src/hw3/src), used as its  *)
(* callers use it: get a key, and set it when it is not there              *)
(* (src/hw11/main.c 103-122, 322-348, src/hw3/bin/main.c 83-101).          *)
(*                                                                         *)
(* A bucket is Null, a Hollow node that IS_VACANT because get allocated it *)
(* or delete emptied it, or a node with a key and a number.  Probing goes  *)
(* from the key's home bucket round the table; operations name the bucket  *)
(* by its distance from there.                                             *)
(***************************************************************************)
EXTENDS Integers, FiniteSets

CONSTANTS
    Keys,            \* strings, or words
    Hashes,          \* the hash functions to consider
    Buckets0,        \* DEFAULT_NUMBER_OF_BUCKETS, 100 in the code
    Amounts,         \* what one line can add to a key
    MaxAsked,        \* bound on what is added to a key
    Faults           \* which allocations may fail

FaultKinds ==
    {"node",         \* calloc of a bucket's node (131, 175)
     "key",          \* the caller's bstrcpy or calloc (main.c 109-112)
     "new",          \* _OpenHashmap_create in realloc (85-88)
     "copy"}         \* a set into the new map (97-98)

ASSUME HashmapAssumption ==
    /\ Hashes \subseteq [Keys -> Nat]
    /\ Buckets0 \in Nat /\ Buckets0 > 1
    /\ Amounts \subseteq Nat \ {0}
    /\ MaxAsked \in Nat
    /\ Faults \subseteq FaultKinds

Null == [kind |-> "null"]
Hollow == [kind |-> "hollow"]
Node(k, v) == [kind |-> "node", key |-> k, data |-> v]

VARIABLES
    hash,            \* the hash function
    map,             \* number_of_buckets, buckets and number_of_elements
    asked,           \* what the callers wanted to be added to each key
    failed,          \* a caller was told of a failure
    faults           \* the allocations that failed

mapVars == <<hash, map, asked, failed, faults>>

Empty(n) == [n |-> n, buckets |-> [i \in 0..(n - 1) |-> Null], elements |-> 0]

MapInit ==
    /\ hash \in Hashes
    /\ map = Empty(Buckets0)
    /\ asked = [k \in Keys |-> 0]
    /\ failed = FALSE
    /\ faults = {}

-----------------------------------------------------------------------------
(* Probing *)

\* The bucket at distance d from a key's home.
Place(m, k, d) == (hash[k] + d) % m.n
At(m, k, d) == m.buckets[Place(m, k, d)]
Distances(m) == 0..(m.n - 1)

IsVacant(b) == b.kind # "node"

\* The bucket's node has the key (hash and compare, 182).
Holds(b, k) == ~IsVacant(b) /\ b.key = k

\* Where get stops, if it does not go round: the first vacant bucket or the
\* key's own.
GetStop(m, k) ==
    {d \in Distances(m) :
        /\ IsVacant(At(m, k, d)) \/ Holds(At(m, k, d), k)
        /\ \A e \in 0..(d - 1) :
              ~IsVacant(At(m, k, e)) /\ ~Holds(At(m, k, e), k)}

\* Where set stops: the first vacant bucket.  No key is compared.
SetStop(m, k) ==
    {d \in Distances(m) :
        /\ IsVacant(At(m, k, d))
        /\ \A e \in 0..(d - 1) : ~IsVacant(At(m, k, e))}

Found(m, k) == \E d \in GetStop(m, k) : Holds(At(m, k, d), k)

DataOf(m, k) == IF Found(m, k)
                THEN LET d == CHOOSE e \in GetStop(m, k) : TRUE IN At(m, k, d).data
                ELSE 0

-----------------------------------------------------------------------------
(* The operations *)

\* set writes the node at distance d (136-141).
Store(m, k, v, d) ==
    [m EXCEPT !.buckets[Place(m, k, d)] = Node(k, v), !.elements = @ + 1]

\* What set does to a map with room, before it looks at the load (128-145).
Insert(m, k, v) == Store(m, k, v, CHOOSE d \in SetStop(m, k) : TRUE)

\* number_of_elements > number_of_buckets * realloc_factor, 0.9 (147-148)
Loaded(m) == 10 * m.elements > 9 * m.n

\* expand_factor * number_of_buckets, 1.5 (87)
Grown(m) == (3 * m.n) \div 2

\* A mutant: nodes keep their index in the larger table.
CopiedInPlace(m) ==
    [m EXCEPT !.n = Grown(m),
              !.buckets = [i \in 0..(Grown(m) - 1) |->
                              IF i < m.n /\ ~IsVacant(m.buckets[i]) THEN m.buckets[i] ELSE Null]]

\* The nodes of a map's first buckets set into a new and larger one, in the
\* order of the buckets (85-100).
CopiedUpTo(m) ==
    LET upTo[i \in 0..m.n] ==
            IF i = 0 THEN Empty(Grown(m))
            ELSE LET b == m.buckets[i - 1]
                 IN  IF IsVacant(b) THEN upTo[i - 1] ELSE Insert(upTo[i - 1], b.key, b.data)
    IN  upTo

\* All of them; number_of_elements stays the old map's (102-110).
Copied(m) == [CopiedUpTo(m)[m.n] EXCEPT !.elements = m.elements]

\* What realloc leaves and returns.  When the new map cannot be created it
\* returns 0 all the same (82, 88, 112-116).
ReallocOutcomes(m) ==
    {[map |-> Copied(m), rc |-> 0, fault |-> {}]}
    \cup (IF "new" \in Faults THEN {[map |-> m, rc |-> 0, fault |-> {"new"}]} ELSE {})
    \cup (IF "copy" \in Faults THEN {[map |-> m, rc |-> -1, fault |-> {"copy"}]} ELSE {})

\* A mutant: a set that found no bucket reports success.
GrowSilently(m, ok) ==
    IF Loaded(m) THEN ReallocOutcomes(m) ELSE {[map |-> m, rc |-> 0, fault |-> {}]}

\* set returns -1 when it found no vacant bucket, even if the map has grown
\* meanwhile (147-163).
GrowLoaded(m, ok) ==
    {[o EXCEPT !.rc = IF ok THEN @ ELSE -1] :
        o \in IF Loaded(m) THEN ReallocOutcomes(m)
              ELSE {[map |-> m, rc |-> 0, fault |-> {}]}}

SetOutcomes(m, k, v) ==
    IF SetStop(m, k) = {} THEN GrowLoaded(m, FALSE)
    ELSE GrowLoaded(Insert(m, k, v), TRUE)
         \cup (IF "node" \in Faults /\ \E d \in SetStop(m, k) : At(m, k, d) = Null
               THEN {[map |-> m, rc |-> -1, fault |-> {"node"}]} ELSE {})

\* get of a key that is not there allocates a node for the bucket it stops at
\* (173-181); when it cannot, it returns NULL as well.
MissOutcomes(m, k) ==
    {[map |-> [m EXCEPT !.buckets[Place(m, k, d)] = Hollow], fault |-> {}] :
        d \in {e \in GetStop(m, k) : At(m, k, e) = Null}}
    \cup (IF \E d \in GetStop(m, k) : At(m, k, d) = Null
          THEN IF "node" \in Faults THEN {[map |-> m, fault |-> {"node"}]} ELSE {}
          ELSE {[map |-> m, fault |-> {}]})

\* The caller adds to the number get returned.
AddToFound(k, d) ==
    /\ Found(map, k)
    /\ \E e \in GetStop(map, k) :
          map' = [map EXCEPT !.buckets[Place(map, k, e)].data = @ + d]
    /\ UNCHANGED <<failed, faults>>

\* Or it copies the key and sets it.
SetMissing(k, d) ==
    /\ ~Found(map, k)
    /\ \E missed \in MissOutcomes(map, k) :
          \/ /\ "key" \in Faults
             /\ map' = missed.map
             /\ failed' = TRUE
             /\ faults' = faults \cup missed.fault \cup {"key"}
          \/ \E o \in SetOutcomes(missed.map, k, d) :
                /\ map' = o.map
                /\ failed' = (failed \/ o.rc # 0)
                /\ faults' = faults \cup missed.fault \cup o.fault

\* One line of a log, or one entry of another map (traverse_combine).
Count(k, d) ==
    /\ asked[k] + d <= MaxAsked
    /\ asked' = [asked EXCEPT ![k] = @ + d]
    /\ UNCHANGED hash
    /\ AddToFound(k, d) \/ SetMissing(k, d)

\* delete empties the key's bucket (219-247).
Delete(k) ==
    /\ Found(map, k)
    /\ \E d \in GetStop(map, k) :
          map' = [map EXCEPT !.buckets[Place(map, k, d)] = Hollow]
    /\ UNCHANGED <<hash, asked, failed, faults>>

MapNext == \E k \in Keys, d \in Amounts : Count(k, d)

\* The log analyser and the word counter never delete.
MapSpec == MapInit /\ [][MapNext]_mapVars

\* The tests do.
DeletingSpec == MapInit /\ [][MapNext \/ \E k \in Keys : Delete(k)]_mapVars

-----------------------------------------------------------------------------
(* Properties *)

BucketsOf(m) == {m.buckets[i] : i \in 0..(m.n - 1)}
Nodes(m) == {i \in 0..(m.n - 1) : ~IsVacant(m.buckets[i])}
NodeKinds == {Null, Hollow} \cup [kind : {"node"}, key : Keys, data : Nat]

\* The table has a bucket for every index below number_of_buckets, before and
\* after realloc swaps both (102-110).
MapTypeOK ==
    /\ hash \in Hashes
    /\ map.n \in Nat /\ map.elements \in Nat
    /\ DOMAIN map.buckets = 0..(map.n - 1)
    /\ BucketsOf(map) \subseteq NodeKinds
    /\ asked \in [Keys -> 0..MaxAsked]
    /\ failed \in BOOLEAN /\ faults \subseteq Faults

\* Every node is where get finds it, whatever collided, wrapped round the end
\* of the table or moved when the table grew; hence a key has one node, although
\* set compares no keys and relies on the get before it (79-117, 118-193).
EveryNodeFound ==
    \A i \in Nodes(map) :
        \E d \in GetStop(map, map.buckets[i].key) :
            Place(map, map.buckets[i].key, d) = i

\* The map holds the sums of what was added, and an addition that is not made
\* is reported, although a table that cannot grow is not.
Counters == INSTANCE CounterMap WITH counts <- [k \in Keys |-> DataOf(map, k)]
ImplementsCounters == Counters!Spec

\* test_simple (hw11/tests/open_hashmap_tests.c 66-85) deletes a key and then
\* finds the others: deleting one key leaves the others in the map.
DeleteKeepsOthers ==
    [][\A k \in Keys : Delete(k) =>
          \A j \in Keys \ {k} : Found(map, j) => Found(map, j)']_mapVars
=============================================================================
