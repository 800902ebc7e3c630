# Verification of mulle-container

mulle-container is a C library of containers of pointers and integers: hash maps and sets,
FIFO queues, arrays, range sets and range maps. This directory holds TLA+ models of its core,
TLC configurations that check them on small instances, and proofs for the TLA+ proof system.
All paths below are relative to the repository.

    tlc -workers 2 -config queue.cfg MCPointerQueue.tla     # model-check one run
    tlapm Queue_proofs.tla                                  # check the proofs of the queues

The other modules with proofs are `PointerMap_proofs`, `Rangeset_proofs`, `Rangemap_proofs`,
`PointerSet_proofs`, `Arrays_proofs`, `Assoc_proofs` and `NumberFacts`. Each takes between a minute and
half an hour.

1. The system
2. The modules and the code
3. The runs, their bounds and what they show
4. The proofs
5. Where code and documentation disagree
6. What is not modelled
7. Plan

## 1. The system

The library is sequential. A container is a plain struct; an operation is a function that runs
to its end and returns; nothing is persisted, and nothing is locked (README.md leaves locking to
the caller). The only code that runs *during* an operation is the callbacks of the user (retain,
release, hash, is_equal), and the debug build asserts that they do not change the container that
calls them. So the hard behaviour is not in threads or crashes. It is in

* **long sequences of legal calls**: deletion in an open-addressed table, a chain of buckets with
  spares, an array of ranges that merge, split and move;
* **interleaving of an open enumerator** with the operations on its container, guarded by a
  mutation counter that `next` asserts on;
* **several containers that own the same pointers** through reference counts;
* **boundaries**: the last hole of a table, a bucket read to its end, the greatest location,
  capacity 0, unsigned counters and unsigned locations.

Every operation is one atomic action of a model, with all calls it makes: growing, shrinking,
callbacks. There is no liveness to state: an operation is a terminating C function, there is no
scheduler whose fairness a property could rest on, and no container promises that anything
happens later. No specification states fairness.

### Components

| component | state | operations | interacts with | correct when |
|---|---|---|---|---|
| hash table core `src/map/pointer/*-generic.c`, `*-struct.*` | `_storage` (2^n keys, then 2^n values), `_count`, `_size`, `_n_mutations` | write (overwrite / insert / update), get, `__get`, remove, grow, shrink, reset, copy_items | callbacks; enumerators through `_n_mutations` | every stored key is found by its probe; a hole always remains; the two lookups agree; any reorganisation moves `_n_mutations` |
| map `src/map/mulle--map.*` | the table, and the callbacks | init, done, reset, copy, set, insert, register, update, remove, shrink | reference counts of keys and values that other maps share | one retain per place that holds a pointer; never released while stored; it is a dictionary |
| map enumerator | `_left`, `_curr`, the remembered `_n_mutations` | enumerate, next, done | its map | returns each pair once, or asserts |
| tiny map enumerator `src/map/*maptinyenumerator*` | `_left`, `_curr` | enumerate, next, done | its map | as above, without the assertion |
| pointer queue `src/queue/mulle--pointerqueue.*` | chain `_read` .. `_write`, spares, indices, `_count`, `_spare_allowance`, `_n_mutations` | push, pop, reset, init, done, the public grow and shrink, enumeration | malloc; its enumerators | FIFO; no bucket lost, shared or reached by a stale pointer; count exact |
| struct queue `src/queue/struct` | as above, structs in the buckets | and `reserve` | pointers handed out by `reserve` | as above; a reserved pointer is where its struct is popped from |
| pointer set `src/set/pointer` and `src/set` | hash table without values, perhaps in a storage the caller lent (`_initial_storage`) | init, set, insert, register, get, remove, reset, shrink, union, intersect, copy | callbacks; the other set of union and intersect | as the table, and dst is the union or intersection |
| range set `src/rangeset` | sorted array of ranges, in the caller's storage or on the heap | insert, remove, their batches, shift, reset, shrink_to_fit, searches | malloc | sorted, no overlaps; a set of locations; searches return the closest |
| range map `src/rangemap` | ranges and values in one buffer | insert, remove, get, search, enumerate | callbacks | ranges and values stay aligned; disjoint |
| pointer array, struct array `src/array/pointer`, `src/array/struct` | `_storage`, `_curr`, `_sentinel` in a growing buffer, perhaps one the caller lent (`_initial_storage`), `_n_mutations` | add, get, set, remove, insert, sort, search, extract, absorb, enumerate in both directions | malloc, with one allocator per array; other arrays (add_array, absorb) | a sequence; each block belongs to one array and goes back to its allocator; a valid enumerator reads live memory |
| array `src/array` | the pointer array, and the callbacks | add, set, remove, copy, find, reset | reference counts of objects other arrays share | one retain per place |
| pair array and assoc `src/assoc` | array of pairs, `_is_sorted` | set, get, add, find, remove, ranges, shifts of integer keys | compare callback; callbacks | what is marked as sorted is sorted; when it was sorted does not show; references exact |
| wrappers with an allocator `src/*/mulle-*.h` | the container and its allocator | all of the above | forward | forward to the right function |
| callbacks `src/mulle-container-callback.*` | none | ready-made retain, release, hash, ... | called by all containers | hash agrees with is_equal |
| helpers, generated headers | none | rounding, mode names, includes | all | – |

`PROJECT.json` lists, for each of these, what is modelled, and every hazard found in the code at
its line with the properties that cover it.

## 2. The modules and the code

    HashTable  <--EXTENDS--  PointerMap  <--  MCPointerMap
    PointerMap  --INSTANCE-->  AbstractMap
         ^--  PointerMap_proofs
    PointerSet  <--  MCPointerSet                   PointerSet  --INSTANCE-->  SetFamily
         ^--  PointerSet_proofs
    PointerQueue  <--  StructQueue  <--  MCPointerQueue
    StructQueue  --INSTANCE-->  FIFOQueue
         ^--  Queue_proofs
    Ranges  <--  Rangeset  <--  MCRangeset          Rangeset  --INSTANCE-->  LocationSet
         |          ^--  Rangeset_proofs
         ^-----  Rangemap  <--  MCRangemap          Rangemap  --INSTANCE-->  RangeDictionary
                    ^--  Rangemap_proofs
    Slices  <--  PointerArray  <--  OwningArray  <--.
         ^-----  StructArray  <-----------------  ArrayHeap
    ArrayHeap  <--  PointerArrays, OwningArrays, StructArrays  <--  Arrays  <--  MCArrays
    Arrays  --INSTANCE-->  SequenceStore
         ^--  Arrays_proofs
    Slices  <--  PairArray  <--  Assoc  <--  Assocs  <--  MCAssoc
    Assocs  --INSTANCE-->  PairBag
         ^--  Assoc_proofs

**Powers** has the powers of two as a function and the rounding of `mulle_pow2round`; **NumberFacts**
has lemmas on numbers, sets of numbers, the powers, and on counting occurrences in sequences and in
families of sequences. The tables, sets, slices and range sets use the first, all proofs the second.
The lemmas on arrays of ranges are at the start of both `Rangeset_proofs` and `Rangemap_proofs`: they need the
constant of `Ranges`, which `NumberFacts` has no use for.

**HashTable** is the table as a value, `[slots, size, count, nMutations]`, and its algorithms as
operators: `HashForSize` (the masked hash), `FindIndex` (linear probing from the home slot, around
the end), `Added` with growing at 3/4 (`IsFull`, `FillLimit`), `CloseGap` (the deletion loop that
moves later pairs of the chain into the gap, with `StaysPut` as its wrap-around test),
`ShrunkSize` (halve while sparse), `Rehash`. A hash is a constant function from keys to numbers,
equality a constant classification of keys, so keys may be equal without being identical.

**PointerMap** has the variables `maps` (a table per map, `None` before init and after done),
`refs` (retains minus releases per pointer), `dangling` (pointers given their last release while a
map still holds them), `rover` (an open enumerator with the history of what it returned) and
`ret`. Each public writing function is an action; the callbacks it runs, in the code's order, are
a sequence of +1 and -1 that `RunCallbacks` applies. `owned`, chosen at the start, says which pointers the
program's callbacks retain: none in the raw `mulle__pointermap`, whose callbacks are nops, keys and
values in a `mulle__map` that owns them. Update is only called when values are not owned, because
it returns the value it has released. Done and reset are
not called while the map is being enumerated, which is the contract of the enumerator.
**AbstractMap** is a dictionary per map with the results of the operations.

**PointerSet** has a table of its own, because the source repeats the table of the map in
`mulle--pointerset-generic.c` instead of sharing it. An operation is a *run*: the table it leaves,
the calls of callbacks and allocator it makes in order, its result, and whether it raised the
mutation counter (`moved` holds that until the next operation; the counter's value is asked for
nothing else). Storages of malloc are counted like references, so that a leaked temporary set or
a freed lent storage shows. `UnionOf` and `Intersection` build the temporary set by the same writes
as the code, `Swap` puts it in the place of dst. A run may also be `Hung` (the probe meets neither
an equal key nor a hole) or `Aborted` (an assertion of `allocate_storage` or `init_storage`): then
`status` says so and nothing happens any more, which is why this run does not check for deadlock.
`CopyPointerset` is the copy of a pointerset. It passes the callback that owns nothing, which is the case that
no key of the program is `Owned`.
**SetFamily** has sets of keys of which no two are equal.

**PointerQueue** keeps the buckets explicit: `next[b]`, `storage[b]`, the set of blocks
`allocated`, and the fields of the struct. The branches of pop (`PopNothing`, `PopFromBucket`,
`PopLastBucket`, `PopNextBucket`) are those of `shrink` followed by `pop_noshrink`. The loops of reset and
done along `_next` are written with the walk they take (`Walks(p)`): a model whose `_next` had no
walk to NULL would not take the step. What a bucket out of use holds is one value, `Void`.
The mutation counter is abstracted to whether it moved since the enumerator was opened (`Stale`).
**StructQueue** is the same chain with structs in the buckets (the source repeats it, type by type):
`PushStruct` copies one in, `Reserve` returns the place of one and the caller stores through it, now and
later (`Update`); `held` is that pointer, with the number of structs in front of it. `GrowQueue` and
`ShrinkQueue` are the public grow and shrink, called where they do not lose an item, at the end of
a bucket. **FIFOQueue** is a sequence.

**Rangeset** has one variable, `[ranges, size, static]`. The loops of insert and remove visit
ranges one at a time from whichever one the binary search found; in a sorted array the ranges
that touch a given one are neighbours, so each operation is one splice of the array. `size` and
`static` follow `grow`, `shrink` and `shrink_to_fit`, and outgrowing the caller's storage.
Shift computes
locations modulo the machine word, as the unsigned addition does. **LocationSet** is a set of
locations.

**Rangemap** keeps the one buffer of the code, `cells`, places 1 to 2 * `size`, whose first `size` places
hold ranges and whose last `size` places hold values: growing has to move the values, insert and remove
move both halves. The enumerator is two places in that buffer. Places out of use hold `Junk`, so a value
that was not moved shows. **RangeDictionary** is a set of ranges with values, with the results
EINVAL, EADDRINUSE, ENOENT and EACCES.

**Ranges** is `struct mulle_range` and its binary searches, shared by both. They come from
mulle-data, which is not part of the repository, and are modelled as the code here uses them:
`get_max` is the end of a range, the distance is in steps to the nearest element (the search
tests confirm it), and the intersection search finds a range whenever one intersects. A comment in
mulle--rangemap.c:235 doubts the last for queries that begin in a hole; the randomized tests
of range set and range map pass only if it is so.

**Slices** has the ranges arrays are given (`All` is a length that reaches to the end), how they are
validated, and cutting, inserting and removing in a sequence, which is what memcpy and memmove do.

**PointerArray** is one pointer array as a value, `[items, size, storage, initial, ...]`, and its
operations as operators that return the array they leave. Two fields are only used on the way:
`freed` collects the blocks an operation frees and `mutations` counts how often it raised the mutation
counter; a storage that is `Moved` is a block malloc has yet to give. **OwningArray** adds sequences of
retains and releases, and the search with its quick check (`QuickWindow` stands for its 32 items);
**StructArray** is the other layout of growing, `set_count` and so on. **ArrayHeap** has the
variables: `arrays`, the `allocator` each was initialised with, `heap` (each block in use, with its
allocator), `misfreed` (memory that was freed and must not be), `stolen` (lent storage that absorb
passed on), `refs`, and `rover`, an enumerator that would not assert. `Commit` lets the mallocs and
frees of an operation happen. **PointerArrays**, **OwningArrays** and **StructArrays** make an action of
each public operation, **Arrays** puts them together for a program whose arrays are of one `kind`, and
names each call and its arguments in `call`, so that **SequenceStore** can say what that very call
does to the sequences. Sorting is nondeterministic: `qsort` may leave equal items in any order.

**PairArray** has the array of pairs and its binary search. **Assoc** has the assocs of a program,
`[pairs, size, sorted, compare]`, their reference counts and an enumerator; an operation that needs
order goes through `QsortIfNeeded`, again with equal keys in any order. The `kind` of a program is integer
keys, which the shifts `Remap` and `MoveTo` need, or strings that are retained. The loops of the shifts compare
keys as unsigned words, so a negative key ends them: it is above every end. **Assocs** has the
next-state relation and the properties, and **PairBag** is a bag of pairs with a rank of its keys.

Definitions marked "mutant" are wrong on purpose. Each is the definition after it with a
plausible mistake, and PROJECT.json names the property that notices when it is put in its place.

## 3. The runs, their bounds and what they show

| run | question | bounds | why they are enough |
|---|---|---|---|
| map_probing | Can writes, removals, growing and shrinking lose a key, use up the last hole, or mislead an open enumerator? | 6 keys, 2 of them equal; hashes chosen so that chains collide, interleave and wrap; sizes 4 and 8; at most 9 mutations per map | 6 is the fill limit of 8 slots, so the table is as full as it gets and is once grown and once shrunk; chains of length 3 and more wrap around the end |
| map_ownership | Are reference counts exact, is nothing released while it is stored, is a map a dictionary, results included? | 2 maps, 3 keys (2 equal), 2 values, one of them NULL, owned or not; size 4, 4 mutations | the maps share pointers, are copied into each other, overwrite equal keys with other keys, and are reset; NULL values occur |
| pointerset | Are references and storages exact, is a set a set, results included, and which operations do not return? | one set with 5 keys (2 equal) in up to 8 slots, or two sets with 3 keys (2 equal) in up to 4; lent storages of 4, and of 6, which is refused | 4 different keys outgrow 4 slots, lent ones too; all ways in which two sets and NULL can be dst and operands occur, dst twice and both operands the same included; hashes collide at the end of 4 slots |
| pointerset_hole_doc | (violation) Does a set always keep a hole? | as above | two keys suffice |
| queue | Does the chain stay intact, is the queue a FIFO, does an enumerator return what pop would, does a reserved pointer stay good? | 3 buckets of 2 items, 2 values, allowance 1 or 2; an enumerator or a reserved pointer, not both | first, middle and last bucket differ; a spare is taken, kept, refused; reset splits the chain between spares and free; a reserved struct moves from the last bucket to the first |
| rangeset | Does the array stay sorted and free of overlaps, is it a set of locations, do the searches find the closest? | locations 0..6; all 28 valid ranges, and rejected ones, as arguments; capacities 0, 2 (caller's) and 3; upward shifts by 1, 3 and everything | all sets over 7 locations arise, and all their cuts into ranges that operations can produce; up to 4 separate ranges, so insertions swallow several; storage grows 0, 1, 2, 4, 8 and shrinks |
| rangemap | Do ranges and values stay in step, is it a map of ranges to values, are queries complete? | locations 0..3, 2 values, capacities 0 and 3, all 10 valid ranges and 2 rejected ones | up to 4 ranges, the buffer grows 0, 2, 4 and 3, 6; queries begin before, in, between and behind ranges; an enumerator is open while the map changes |
| rangeset_shift_doc | (violation) Does shift leave lower locations alone? | shifts by 1 and -2 | one range suffices |
| arrays | Is an array a sequence, is memory exact, does a valid enumerator read its array, are references exact and searches right? | 2 arrays of one of the three kinds; the first has up to 3 items while it is alone and not enumerated, two together have up to 2, and 1 with an enumerator; 1 pointer and NULL, or 3 objects, 2 of them equal; capacities 0 and 1, lent storage for 1, 2 allocators, 4 blocks; MinCapacity 1 for 4 and QuickWindow 1 for 32 | a lent storage is outgrown by the second item; 3 items have a first, a middle and a last; removal of equals from both ends of a run of them; all ways in which one array is added to, copied into or absorbed by another or itself; the quick search ends in front of, at and behind an equal object |
| absorb_doc | (violation) Is only memory of malloc freed? | two pointer arrays | one lent storage suffices |
| assoc | Is an assoc sorted when it is searched, are references exact, does it show in any result when it was sorted? | 5 integer keys, -1 to 3 (of two assocs no key is negative), or 3 strings of which 2 are equal; ascending and descending compare; an assoc alone has up to 3 pairs, one of two up to 2, and then none is enumerated | sorting, adding, binary search to both sides of a pair, and equal keys in both orders occur; key shifts meet a negative key and are given a negative index; copies and additions between two assocs, and of one to itself |
| assoc_move | (violation) Does moving a range leave other keys alone? | one assoc, keys 0..4, up to 3 pairs | two pairs suffice |

Where a run has a VIEW, it leaves out of the state what no later step reads: the last result and the
name of the last call. The properties about results are checked on every step TLC generates, not only
on those that lead to a new view. CONSTRAINTs are the bounds given in the table, and a SYMMETRY only
exchanges constants no definition tells apart.

Deadlock is checked in all runs but those of sets, where a program that hangs or aborts stops:
everywhere else some operation is always possible.

**Maps.** `ProbeChains`: the probe for a stored key ends at its slot; with `HoleRemains` that is
what makes linear probing with deletion work. `LookupsAgree`: `get`, which looks for the pointer
first, and `__get`, which only hashes, return the same value. `EnumeratorComplete`: while the
assertion in `next` holds, what was returned and what lies ahead is exactly what the map holds.
`MutationsVisible` is the reason that works. `HoleRemains` also says that a shrunk storage has room for
another pair, so shrinking and growing do not alternate. `OwnershipExact`, `NoDangling`: reference counts. `RefinesAbstractMap`: a dictionary.

**Sets.** `OwnershipExact`: one retain per set that holds a key, one storage per set that has one,
and nothing released while it is still in use, in spite of temporary sets. `RefinesSetFamily`: the
storage a union or intersection leaves does not show in any later result. `OnlyTinyTablesHang`: init,
growing and shrinking always keep a hole; an endless probe needs a set with fewer than four slots,
which only a union makes (and intersect inherits). `MutationsVisible` as for maps.

**Queue.** `Chained`: the chain and the spares are two disjoint lists which together hold every
block malloc gave out. `NoLeak`, `SparesBalanced` (the unsigned allowance never wraps and no spare
is lost), `CountExact`, `AssertionsHold` (the asserts of shrink and pop_noshrink), `EnumeratesAll`, and
`RefinesFIFOQueue`. `HeldExact`: as long as a reserved struct is queued, the pointer that reserve gave out
is the place pop will read it from, whatever became of the buckets in front of it.

**Range set.** `WellFormed` holds the assertion of the debug build, on which every binary search relies.
`InsertAndRemoveExact` compares insert and remove with union and difference of sets of locations,
for every argument in every reachable set. `SearchFindsClosest` compares the
searches with their definitions, adjacent ranges, first and last location included. `ShiftExact`
describes when a shift does what it says: nothing that lies below is nearest to the location, and
what moves has room. `RefinesLocationSet`: memory and cuts do not show.

**Range map.** `WellFormed` as above. `RefinesRangeDictionary`: whatever moves in the buffer, a range
keeps its value. `QueryComplete`: `get_ranges_values` finds all ranges that intersect, although
it scans from one place and stops at the first that does not, and `get_exact` finds exactly the range.
`EnumeratesInOrder`: an enumerator that is not stale returns all entries in order.

**Arrays.** `HeapExact`: every block belongs to one array and is freed with the allocator of that array;
lent storage is an array's own unless absorb has passed it on, and nothing else is ever freed
wrongly. `EnumeratorSound`: an enumerator whose assertion would hold reads the storage of its
array, unless that was absorbed. `OwnershipExact`: one retain per place, adding an array to itself and
removing equal objects included. `SearchesExact` compares the searches with their definition in every
range: the quick check for identity hides no equal object and looks at nothing outside. `RefinesSequenceStore`:
each call does to the sequences what its operation promises.

**Assocs.** `SortedWhenSearched`: what is marked as sorted is in order, whatever was added, set, removed
or given another key. `RefinesPairBag`: no effect and no result depends on when the pairs were sorted,
and a read does not disturb an enumerator. `OwnershipExact`: as above, and that the pairs are pairs of
keys of the one kind and fit into the capacity; an open enumerator's assoc is a sorted one.

## 4. The proofs

The proofs hold for every value of the constants that satisfies the assumptions named in the modules.
`PROJECT.json` says of each theorem what it establishes.

| component | module | proved, of the properties the runs check | rests on |
|---|---|---|---|
| queues | `Queue_proofs` | all: `TypeOK`, `Chained`, `NoLeak`, `SparesBalanced`, `CountExact`, `AssertionsHold`, `EnumeratesAll` under `Spec` and under `StructSpec`; `HeldExact`, `RefinesFIFOQueue` under `StructSpec` | `QueueInv`, `StructInv` |
| map, hash table | `PointerMap_proofs` | all: `TypeOK`, `ProbeChains`, `HoleRemains`, `LookupsAgree`, `MutationsVisible`, `EnumeratorComplete`, `OwnershipExact`, `NoDangling`, `RefinesAbstractMap` | `MapsOK`, `RoverOK`, `OwnershipInv` |
| set | `PointerSet_proofs` | all: `OwnershipExact`, `OnlyTinyTablesHang`, `MutationsVisible`, `RefinesSetFamily` | `SetsInv` |
| range set | `Rangeset_proofs` | all: `WellFormed`, `InsertAndRemoveExact`, `SearchFindsClosest`, `ShiftExact`, `RefinesLocationSet`, if the program shifts upward only | `RangesetInv` |
| range map | `Rangemap_proofs` | all: `WellFormed`, `QueryComplete`, `EnumeratesInOrder`, `RefinesRangeDictionary` | `RangemapInv` |
| arrays | `Arrays_proofs` | all: `TypeOK`, `HeapExact`, `EnumeratorSound`, `OwnershipExact`, `SearchesExact`, `RefinesSequenceStore` | `ArraysInv`, `RefsOK`, `HonestInv` |
| assoc | `Assoc_proofs` | all: `SortedWhenSearched`, `OwnershipExact`, `RefinesPairBag`; and that the binary search is exact | `AInv`, `OInv`, `RInv` |

`NumberFacts` holds the lemmas that all of these need.

**Induction and recursion.** The library's induction theorems take an operator as a parameter, which
the provers cannot instantiate. `NumberFacts` therefore states them for *sets* and *functions*:
`Induction` (a set of numbers with 0 and each successor has all numbers), and, for a recursively
defined function, a set R of triples (number, value, next value): `RunExists` and `RunsAgree` say
that a function following R exists and is unique, `Recursion` that it satisfies its defining
equation. The powers of two and their rounding (`PowerFacts`, `RoundFacts`) and the loops over a table
(copying, releasing) are reasoned about with these. The binary search of assocs recurs on two bounds,
not on a number; `LoopResults` covers such loops: a function of states that either returns or goes on with a
state of smaller measure returns what each of its steps hands on.

**Queues.** `Chained` alone is not inductive: it says that there is a walk from `_read`, but not
that the walk passes each bucket once, and with a bucket twice in it freeing the first would free
another. `QueueInv` asks for injective walks (`Linked`) whose spares balance the allowance, since that
decides whether `free_bucket` keeps or frees a bucket; for the read and write positions to be in
the first and last bucket with `count` between them (`Positioned`), since `pop` decides by indices
alone whether a bucket is exhausted; and for an open enumerator to stand as far behind the read
position as it has returned items (`Enumerating`). `WalkUnique`: from a pointer there is at most one
walk to NULL, so the walks of the invariant are the walks the loops take. `GrowLinked`,
`FreeBucketLinked` and `ResetLinked` show that the operations on the links preserve `Linked`, each
by exhibiting the new walks (a bucket appended, the first one moved to the spares or freed, a
prefix turned over onto the spares); one lemma per operation adds the positions.
`StructInv` adds the pointer that reserve gave out. Grow and shrink by themselves keep it
(`GrowQueueInv`, `ShrinkQueueInv`). `HeldExact` and the refinement need the *contents*, which are read along
the walk: the k-th item is in bucket `(readIndex + k - 1) \div BucketSize + 1` of it (`ContentsPlace`). An
operation either extends the walk (`Extends`) or takes buckets off its front and moves the read position
along (`Moves`), and either way place k of the old contents is place k or k - n of the new ones
(`ContentsStep`), whose division is what `ShiftedPlace` is about. From that, push appends, pop takes the head,
and everything else leaves the contents alone.

**Hash table.** `TableOK`: keys are distinct up to is_equal, no hole lies between a pair's home slot
and the pair (`Unbroken`), the count is the number of used slots and less than the size, and the
size is 0 or a power of two from 4 on. `FirstProbeFacts` relates a probe to the order `Before` in which slots are
met from a home slot; with it `Unbroken` gives `FindStored` and `FindAbsent`. The deletion loop is the
hard part. Its invariant `Gap` describes the table after n slots have been looked at with the gap
at d: outside of d it holds what it held before without the deleted pair, each chain is unbroken if the
gap counts as used, and no pair walked past so far has the gap on its way. Each step either leaves a
pair (`GapStays`: `StaysPut` is exactly the cyclic order) or moves it into the gap (`GapMoves`); when the
loop ends at a hole the gap is on no probe at all (`GapCloses`). The other loops write pairs into
fresh storage (`CopyFacts`, `RehashFacts`), where the sizes of growing and shrinking leave room
(`LimitFacts`, `ShrunkFacts`).

**Map.** `MapsOK`: each table satisfies `TableOK` and stays within the bounds. Every step changes a
map's slots together with its mutation counter or not at all (`Evolves`, `MapSteps`). So in `RoverOK` an
enumerator whose counter agrees still stands between the pairs it returned and those it has left.
`OwnershipInv`: an owned pointer's count is the number of pairs, of all maps, that hold it. A callback
sequence relates the counts before and after it, and the pointers whose last reference went (`Ran`);
sequences compose (`RanConcat`). `Settled` says of the calls of an operation that they lead to
the counts of its new contents and give up nothing that is still held: this is where the order of retain and release
matters, and it is shown per kind of write (`SettledWrite`), for copying and for taking down by
induction over the slots. For `RefinesAbstractMap` a map is the function `DictOf` its set of pairs; each
table operation's effect on that set is a lemma (`AddedFacts`, `ReplacedFacts`,
`RemovedFacts`).

**Set.** The lemmas on the table are those of the map again, with keys for pairs, but `TableOK` is weaker: the
count is at most the fill limit, and in two slots, which only a union leaves, the limit is two. So a probe ends
*unless* the storage has two slots (`HangsTiny`), and every lemma on an operation has an alternative, `Blocked`: an
assertion that stops it, or a probe that does not end, with the storage of two slots that is the reason.
`SetsInv` has, besides `TableOK` of every set, that a lent storage has one of the lent capacities, and that the references of keys *and* of storages
are counted by the sets that have them (`Counts`, as for maps; `Assets` of a set are its keys and its storage).
A temporary set belongs to no set while it is filled, and can be dropped or swapped in only at the end: `Place` adds a place
for it to the sets, so that filling it is `Settled` like filling a set, and `SwapFacts` moves it from that place to dst, after
what dst had has been given up. That the keys it takes over are still there then, dst being an operand or not, is `Secured`:
each is in a place other than the one that is filled. One lemma says of a loop over keys what it leaves (`SetItemsFacts`);
union, intersection, copy and copy_items are instances of it. `OperateFacts` then gets from the run of any operation to the next
state (`Kept`: the invariant, the visible mutation, the keys and the result), and one lemma per operation says
what the keys and the result are, which is what `RefinesSetFamily` needs.

**Range set.** `RangesetInv`: the ranges are in order and inside the word, the storage is large
enough, and the caller's as long as it has the caller's size. `SpliceInOrder` and `SpliceCovers` say of a
splice what it keeps in order and which locations it leaves; the rest of insert and remove is to show
for each case (absent, touched, trimmed, punched) that the splice covers exactly the new locations
(`InsertedGains`, `RemovedLoses`). Batches are induction over their ranges (`WithRangesFacts`). For the searches,
`NearestFacts` is about the binary search for the nearest range, whose tie between two neighbours is where
the five modes differ (`ClosestBelow`, `ClosestAbove`).

The theorems assume that the distances the *program* shifts by are not negative. That is what the
code allows, not a convenience: a downward shift out of an arbitrary set makes ranges
overlap (section 5), and then no invariant of order exists. An upward shift first clears the
locations that would be moved out of the word, which is why it keeps the order (`ShiftedFacts`).
`ShiftExact` itself speaks of every distance, up and down, tried in every set that can come about, and
is proved for both: `UpFacts`, and `DownFacts`, where the precondition gives the room.

**Range map.** `RangemapInv` has the two halves of the buffer in step: `MapOK` says what is in the
first `length` places of either half. `MoveFacts` is memmove, with overlap; `GrownFacts`, `GapFacts` and
`CloseFacts` compute what growing, insertion and removal leave in both halves. An enumerator that is not
stale stands at the same entry in both (`RoverOK`). `ScanFacts` shows that the scan of
`get_ranges_values`, which goes on from where the binary search met the query and stops at the first range that
does not intersect, misses none. The dictionary of the refinement is the set of (range, value) pairs.

**Arrays.** One invariant serves the three kinds of arrays. `ArraysInv` says that each array is a record
of its kind whose items fit (`ArrayOK`), that block and storage correspond one to one (`HeapOK`), that lent
storage is an array's own or in `stolen`, and that an enumerator that is not robbed stands within its array
(`RoverOK`: the storage alone would not be inductive, the position and the end have to fit the items). An operation is a chain
of the operators of PointerArray and StructArray, so what is proved of each of these is that it leads from
one *stage* to a stage (`Stage(a, b)`): b still has a's storage and has freed nothing, or its storage is
`Moved` and it has freed exactly the storage a had, if that was not lent; and if b is not a, then the mutation
counter has moved. `UpdateInv`, `EstablishInv`, `DissolveInv`, `ExtractInv` and `AbsorbInv` then show once for each of the
ways in which an operation ends, not once per operation, that the invariant is kept when the mallocs and frees of a stage
happen. Absorbing is the one operation that touches two arrays and passes on storage that is not malloc's.

For ownership the stages carry the reference counts (`HStage`), and an operation is `Balanced` if it changes
the counts by what it changes the items. The loops (removal of equals, addition of an array, to itself too) are
inductions with that as their invariant. `RefsOK` counts places, as for assocs.
That nothing else retains or releases is a lemma on each kind (`PointerKeepsRefs`, `StructsKeepRefs`).
`SearchesExact` needs only that items are a sequence: `WithinFacts` is about the range after it has been
validated, `FindOwnedFacts` about the quick check, whose range is a prefix of that one.

`RefinesSequenceStore` reads an array as the sequence of its items and an enumerator as what it has left of the
sequence (`Rest`). One lemma for each way to end an operation says what it makes of the sequences (`Becoming`),
and one for each operation of the abstract specification turns that into its step (`AddStep`, `RemoveAllStep`, ...);
what is between is, for each operation of each kind, that its stages compute the sequence it promises. The loops that
remove are inductions again, over what they have kept so far (`Cut` is stated with an increasing map of
places, so that it need not be computed). `HonestInv` is what the refinement needs besides: only
the `absorb_array` of pointer arrays takes the storage from under an open enumerator.

**Assoc.** `SortedWhenSearched` is not inductive by itself: that a sorted array without some of its
pairs is sorted needs the pairs to be a sequence and the removed range to lie in it. `AInv` adds
that each assoc is a record of a sequence of pairs of the program's kind of keys, a flag and a known
compare function. What changes a pair or its key goes through `Unsorted` (`UnsortedGood`); what
keeps the flag either is `qsort`, whose outcome is in order (`QsortByGood`), or removes pairs
(`WithoutInOrder`, `PopPairKeeps`). One lemma per action shows that its assoc is of the one form or
the other. The two key shifts are where the code is easily wrong: `RekeyedGood` only shows that they
leave pairs; the flag is what makes them right.

`AssocBsearchExact` says of `pair_bsearch` that in an array in order it finds a pair with an equal key if there is
one, and otherwise the place where the key belongs (`BsearchFinds`, from `WindowFacts`: what is sought is never outside
of the window). Ownership needs what `AInv` leaves out: `OInv` adds that an assoc has room for its pairs, that the
kind of a pair is that of its program, that an enumerator is open on a live assoc, and that `refs` counts the
*places* (assoc, index, key or value) that hold an object. Places are counted by cardinality, so each operation is shown to
add, remove or exchange places: a permutation leaves their number alone, since it maps them one to one; concatenation
adds those of the second sequence; a cut takes away those of the slice. One lemma per action
connects that with the retains and releases the action makes.

`RefinesPairBag` compares sequences with bags. A bag is handled by the *tally* of its sequence, how many places hold
each pair (`Tally`, `BagOfCounts`): what an operation adds and takes is a change of the tally (`TallyIs`), and
so of the bag (`BagAdds`, `BagTakes`, `BagReplaces`, `BagOnly`, and `RenamedBag` for new keys). The other half is the order. In pairs that are
in order, those below a key are a prefix (`BelowIsStart`), so that PairBag, which has no sequence, can
say from the ranks alone which pairs may be at an index (`AtPlace`), and equal keys are side by side
(`Contiguous`), which is what `remove` takes when it looks before and behind its hit. `is_equal` compares
two sorted arrays place by place: if each class of keys has as many pairs in either, the places can be paired up
(`ClassesPaired`), and such a pairing moves no pair to another rank (`PairedRanks`), so the keys are equal in place
(`AlikeInPlace`). The loops of the key shifts see exactly the keys from the first to where they stop (`LoopSees`), if the compare
function ascends. An enumerator is not disturbed by a call that sorts, because its assoc is sorted as long as it is open;
`RInv` adds that it ends where the assoc does. `AssocAssumption` states what this needs of the data: a compare function
ranks keys by integers, a class of integer keys has one key, and `None` is no assoc, bag, sequence or enumerator.

**Checked first.** `QueueInv`'s parts, `WellFormed` of range set and map, the conjuncts of
`TableOK`, those of `OInv`, `ArraysInv` and `RefsOK`, and the counts of `SetsInv` (in `OwnershipExact`) were checked by TLC on the instances of section 3 before they were proved.

**Only model-checked.** None of the properties of the passing runs: each has a theorem. Downward shifts of
range sets as steps of the program are only in the run that shows a disagreement (rangeset_shift_doc), as the order
does not survive them.

**Out of the prover's reach.** Liveness and ENABLED; no property here needs either (section 1).

## 5. Where code and documentation disagree

Shown by a run:

* `shift` starts at the *nearest* range, which may lie below the location, and can move it below
  0, where the location wraps; API_RANGESET.md:431 says locations at or after move. *rangeset_shift_doc*
* `union` makes a storage with as many slots as there are keys (`mulle--pointerset-generic.c:707`); with
  two keys it has two slots and no hole, and a lookup, insertion or removal of another key loops
  forever; mulle--set.c:57 says that a set needs a hole and at least four slots. *pointerset_hole_doc*

* `absorb_array` takes over the victim's storage even when that was lent to the victim
  (`mulle--pointerarray.c:344`), and later frees it; the comment on line 351 has the victim keep it. *absorb_doc*
* `move_intptr_key_range` upward also shifts the key `index + 1`, which is in neither of the two ranges it
  exchanges (`mulle--assoc.c:626`): {0,1} to 1 makes 1 and 3 of the keys 0 and 2. *assoc_move*

Met while reading, not shown by a run of its own:

* `update` inserts a missing key (`mulle--pointermap-generic.c:309`); API_MAP.md:247 says it does
  nothing. `Update` of AbstractMap inserts.
* `mulle_pointerqueue_shrink` frees the read bucket, unread items included; API_POINTERQUEUE.md:208
  says it frees spare buckets.
* A range set can hold adjacent ranges, after an insertion that overlaps one neighbour and meets
  another ({0,1}, {2,1}, then {0,2}); mulle--rangeset.h:53 and API_RANGESET.md:13 say they are coalesced.
  `contains` relies on it and denies {0,3} there.
* `absorb_array` does not raise the victim's mutation counter, so that an enumerator of the victim is not
  caught (API_POINTERARRAY.md:16 says that it is invalid).
* `mulle__pointerarray_member` of NULL is always 1 (`mulle--pointerarray.h:1248`).
* `_mulle__array_find_in_range` may return an identical object behind an equal one, since it looks for the
  pointer first (only among the first 32); `_mulle__array_remove` compares with its argument after the array
  has released it; remove_last of an empty array releases NULL.
* `_mulle__structarray_extract_data` copies as many *bytes* as the array has room for structs
  (`mulle--structarray.c:242`), when it copies out of lent storage.
* `get`, `get_lenient` and `set` of a struct array compare with the capacity, not the count
  (`mulle--structarray.h:341`, 519).
* `_mulle__assoc_is_equal` sorts the other assoc by the first one's compare function, and compares only
  the values of keys that are the same pointer (`mulle--assoc.c:194`); the model has the case of one compare
  function. remove_last of an empty assoc releases notakey (`mulle--assoc.h:410`).
* `next` of an assoc's enumerator does not look at the mutation counter; `set_compare` is missing in the list
  of what invalidates one. Both key shifts validate a range of *keys* against the *count*, and presume an
  ascending compare function.
* `_mulle_pointerpair_bsearch_or_less` computes `closest` and returns the middle
  (`mulle-pointerpair.h:224`); nothing calls it.
* `_mulle__structqueue_removeall` is declared (`mulle--structqueue.h:199`) and called, but not defined.
* A downward shift onto locations that are still in the set makes ranges overlap
  ({0,2},{5,2} shifted by -4 at 5 gives {0,2},{1,2}); an upward shift removes what is in the top
  `delta` locations even below the location. `ShiftExact` is checked where neither happens.
* `sum_lengths_range` starts at the range nearest to the begin of the query, and stops at the first that
  does not intersect: for {0,2},{4,2} and the query {2,3} that is {0,2}, and the sum is 0.
* `search_range` with `<` may return a range that extends beyond the location, where
  mulle--rangeset.h:372 lists only ranges that end before it; `search_location` needs it that way.
* The union of sets with one key or none in all has size 1, and the intersection with a first operand
  that has no storage has size 0, where the allocation asserts at least 2
  (`mulle--pointerset-generic.c:75`). The model stops there as `Aborted`.
* `init_with_static_pointers` rounds the capacity down to a power of two, but initialises the storage with
  the capacity as given, where an assertion wants a power of two (`mulle--pointerset-struct.c:101`).
* API_MAP.md:237 has register return NULL on insertion, the code returns the value.
* API_POINTERQUEUE.md:16 omits push among the calls that invalidate an enumerator; :190 documents
  removeall, which is declared but not defined; :178 has reset free all buckets, the code keeps
  spares.
* `_mulle__rangemap_get_exact` of a range that intersects a stored one but begins in front of it sets
  ENOENT, where API_RANGEMAP.md:142 says EINVAL: only the first location is looked up.
* `remove_rangeset` of a set from itself reads the array that it is shifting.
* The comment of `mulle--structqueue.h:204` on reserve says the pointer stays valid as long as the
  queue (asset/dox/api/toc/index.md:1704: until `done`; :2137: it never moves); pop frees the bucket it points into,
  or uses it again. `HeldExact` holds while the struct is queued.
* Queues accept NULL according to asset/dox/api/toc/index.md:56; push asserts that it is none
  (`mulle--pointerqueue.h:186`).

Where the documents of one container say something else than `Refines...` of it, the abstract specification has what
the code does:

* *Range map.* knowledge-rangemap.md:9 and 19-27 have insert merge adjacent ranges, keep the leftmost value
  and return merged values, and have remove split ranges and return removed values. The code keeps adjacent ranges
  apart, refuses an overlapping one with EADDRINUSE (`mulle--rangemap.c:133`) and the removal of a part of a range
  with EACCES (:191), and returns no values, as API_RANGEMAP.md:5-15 has it. `RangeDictionary` follows the code.
* *Set.* API_SET.md:159 has register return NULL when it inserts; the code returns the key it was given
  (`mulle--pointerset-generic.h:257`), as asset/dox/api/toc/index.md:1511 says, and VERBS.md:65 has it return the
  previous value. API_SET.md:130 has get return NULL for an absent key; it returns notakey
  (`mulle--set.h:196`), which only the get of a pointerset turns into NULL (`mulle--pointerset-struct.c:180`).
  The model has one value for both. `add_set` *sets* the keys, so that an equal key is replaced
  (`mulle-set.c:85`), where API_SET.md:199 says insert; API_MAP.md:298 says so of `add_map`, which
  overwrites too. API_POINTERSET.md:230 has shrink reallocate unconditionally; it asserts that the set
  is sparse, and returns if the storage would not get smaller (`mulle--pointerset-generic.c:438`, 450).
* *Arrays.* `remove_unique` looks from the back and removes the *last* occurrence
  (`mulle--pointerarray.h:761`, `mulle--array.c:216`); API_POINTERARRAY.md:306, API_ARRAY.md:198 and the
  comment of mulle-array.h:358 have it remove the first. `insert_in_range` moves what is
  behind the location (`mulle--pointerarray.c:234`); API_POINTERARRAY.md:349 has it replace that many elements.
  `reset` keeps the storage, as asset/dox/interfaces.md:32 says; API_ARRAY.md:239 has it freed and
  initialised again, and VERBS.md:23 says done and init. `SequenceStore` and `HeapExact` have the
  code's way. API_ARRAY.md:179 (remove_last of an empty array does nothing) and :294 (the
  first equal element is found) are the two cases named above. knowledge.md:16 has every size rounded up to a power of 2;
  arrays and range maps are made with the capacity given.
* *Assoc.* API_ASSOC.md:454 has `move_intptr_key_range` add an offset; its argument is the *index* that the range goes
  to, and what is in between moves the other way (`mulle--assoc.c:589`). API_ASSOC.md:440 has remap add the
  offset to all keys in the range. Both do nothing unless the range fits the *count* and its first key (for the move
  downward, the index) is present, and they end at the first negative key, because the loops compare
  unsigned (:638). So a move to a negative index moves no key, but marks the assoc unsorted and
  raises the mutation counter; `PairBag` says so in `Move`. API_ASSOC.md:413 and 424 have all pairs of the
  other assoc added, the code adds those whose key is new (:325). API_ASSOC.md:391-393 has values compared by the
  compare function or as pointers; see `is_equal` above. API_ASSOC.md:692 has adding notakey abort; there is
  an assertion only, and of `mulle_not_a_pointer`, whichever notakey the callbacks have (:391). The keys of the model do
  not include it.
* *Assoc, test.* test/assoc/assoc-move.c moves ranges from 10 on in an assoc of five pairs. A range is
  validated against the count, so none of its calls moves anything, and its expected output has the keys unchanged.
* *Struct array.* API_STRUCTARRAY.md:20 has an enumerator invalid after any mutation. The functions with an
  underscore, which the `_for` macros use, assert that (`mulle--structarray.h:789`); those that accept NULL
  (:800) and the public ones that call them (`mulle-structarray.h:848`) do not look at the mutation counter.
  The model's enumerator is the one that asserts.
* *Range set.* API_RANGESET.md:391 repeats what mulle--rangeset.h:372 says of the search with `<`.

## 6. What is not modelled

* Out of memory: the allocators of mulle-allocator do not return NULL, they abort. `ArrayHeapAssumption`
  says so: there are as many blocks as arrays, each of which has at most one.
* Callbacks that read the container that calls them: an operation with its callbacks is one step.
* 64-bit overflow of counts, sizes and mutation counters, which needs more operations than a
  program can run; unsigned wrap-around is modelled where values near the boundary are ordinary
  arguments (locations).
* `describe`, printing, `count_collisions`: they change no state.
* The tiny map enumerator: a private variant of the map's enumerator without the assertion.
* Which bytes a struct has, its alignment, and pointers into an array's own storage that are passed to
  its own insertion.
* Comparing assocs with different compare functions, and compare functions that are no order.
* The wrappers of maps, sets and queues that add an allocator, and the generated headers: they forward.
* Liveness and fairness: see section 1. That a probe loop ends is a safety property here, the hole it
  needs, and where it has none the model of sets hangs visibly.

## 7. Plan

All components with state are modelled. What is left to do:

* *Instances*: two range maps or sets with removals of one from the other; assocs with two compare
  functions that are compared.
