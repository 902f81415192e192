# A TLA+ verification project for QLever

QLever is a SPARQL engine: it builds a static index of a set of quads, answers
SPARQL queries from it over HTTP, and applies SPARQL updates on top of it. This
directory specifies the parts of QLever whose correctness depends on the order
of events, on partial failures and on shared state, and the algorithms of its
scans, joins, updates, query plans and index builds whose boundary cases are many;
model-checks the specifications with TLC; and proves some of their properties for every value
of the parameters with TLAPS. `PROJECT.json` connects every definition with
the source lines it models, and lists the runs, the hazards and the findings.

Paths below are relative to the root of the repository (`src/index/...`).

## 1. The system

| Component | State | Operations | Interacts with |
|---|---|---|---|
| **DeltaTriples / DeltaTriplesManager** (`src/index/DeltaTriples.*`) | two hash maps (inserted, deleted) from triple to handles, for normal and for internal triples; the located triples of each permutation; `index_`; the published snapshot; the file of persisted updates | `insertTriples`, `deleteTriples`, `vacuum`, `clear`, `modify`, `writeToDisk`, `readFromDisk`, `getCurrentSnapshot` | called by the server's update thread; every query holds a snapshot |
| **LocatedTriples** (`src/index/LocatedTriples.*`) | per permutation and block, a set of triples ordered by the triple alone; augmented block metadata | `add`, `erase`, `mergeTriples`, `identifyTriplesToVacuum`, `updateAugmentedMetadata` | owned by DeltaTriples; read by index scans |
| **Update requests** (`src/engine/Server.cpp`, `ExecuteUpdate.cpp`) | the operations of a request and their graph patterns | `processUpdate`, `executeUpdate`, `computeGraphUpdateQuads`, the commands `clear-delta-triples`, `vacuum-delta-triples`, ... | one update thread; `DeltaTriplesManager::modify` |
| **Query cache** (`src/util/Cache.h`) | unpinned entries in order of use, pinned entries, two totals, three limits | lookup, `insert`, `insertPinned`, promotion, `makeRoom...`, clears, limits | wrapped by ConcurrentCache |
| **ConcurrentCache and `Operation::getResult`** (`src/util/ConcurrentCache.h`, `src/engine/Operation.cpp`) | the cache, `_inProgress`, one `ResultInProgress` per computation | `computeOnce`, `computeOncePinned`, `computeButDontStore`, `tryInsertIfNotPresent`, `getIfContained` | every thread that evaluates a query |
| **Named result cache** (`src/engine/NamedResultCache.*`) | results stored under a name | store, get, clear | written by `getResult`, read by the planner |
| **Index rebuild** (`src/index/IndexRebuilder.cpp`) | a snapshot, id mappings, the difference to a later snapshot | materialize, remap, swap | DeltaTriples, the server |
| **Permutations and compressed relations** (`src/index/CompressedRelation*`, `src/engine/IndexScan.cpp`) | blocks with metadata; the state shared by the two sides of a prefiltered scan | write, filter blocks, lazy scans, sizes and counts from metadata | located triples, joins |
| **Index builder, vocabularies, parsers** (`src/index/IndexImpl.cpp`, `VocabularyMergerImpl.h`, `PatternCreator.cpp`) | item maps, partial vocabularies, id maps, the turn of the writers | parallel parse, write in order, merge, convert, patterns | queues and pipelines |
| **Operations on id tables** (`src/engine`, `src/util/JoinAlgorithms`) | blocks kept back, offsets, groups carried over between tables | joins, OPTIONAL, MINUS, UNION, DISTINCT, GROUP BY, products, property paths | lazy results of their children |
| **Block prefilters of FILTERs** (`src/engine/sparqlExpressions/Prefilter*`, `src/global/ValueIdComparators.h`) | none | expression to prefilter, prefilter to ranges of blocks | scans |
| **Blank node manager** (`src/util/BlankNodeManager.*`) | blocks in use, block sets by UUID (weak pointers), local managers | allocate, merge, persist, restore, free | local vocabularies, persisted results |
| **Query planner** (`src/engine/QueryPlanner.*`) | candidate plans with the sets of triples and filters that they cover; triples not planned yet; variables bound so far | visit the elements of a group, optimize what commutes, join behind an OPTIONAL, MINUS or BIND | materialized views, estimates of the operations |
| **Expressions, export** | tables | evaluate, export | ConcurrentCache, Cancellation |
| **Cancellation** (`src/util/CancellationHandle.*`) | an atomic state shared by watchdog, computation and canceller | `throwIfCancelled`, `cancel`, `resetWatchDogState` | every long computation |
| **Websocket updates** (`src/util/http/websocket/`) | query id registry, hub of distributors, their queues of messages | acquire, add data, wait for data, sign end | server sessions |
| **Queues and pipelines** (`ThreadSafeQueue.h`, `TaskQueue.h`, `AsyncStream.h`, `BatchedPipeline.h`, `ParallelMultiwayMerge.h`) | bounded buffers | push, pop, finish, exceptions | builder, parser, export |
| **Memory limit, materialized views, HTTP server, CLI** | see `PROJECT.json` | | |

### Which behaviours are hard, and what correctness means

* **A modification that ends halfway.** Updates run one after the other under
  a write lock, so their hazard is not interleaving but an exception: a
  timeout between two of the permutations, a failed check in
  `LocatedTriplesPerBlock::add`, a full disk, the end of the process. Correct
  means: handles in the maps never dangle, permutations agree, an update is
  durable before it is visible, a failed request has no effect.
* **Versions.** A query is identified in the cache by its tree and by `index_`
  of its snapshot. Correct means that two contents never share an index.
* **Derived triples.** Language filters are answered from internal triples that
  every update has to keep in step with the quads.
* **One computation for many threads.** A thread that finds a key in
  `_inProgress` waits for another one. Correct means: exactly one computes, its
  result or its failure reaches everybody who waits, nobody waits forever, a
  pinned result is pinned whoever computed it.
* **Limits.** The cache has to stay within limits that change at runtime,
  with pinned entries that may exceed them and results of size zero.
* **Blocking with a lock held.** The push of the ordered queue blocks on a
  full queue while it holds the mutex that `finish` needs. Correct means: the
  values come in order, the end is not seen too early, and wherever its threads
  are blocked, a generator or a task queue can be destroyed.
* **Weak pointers and late cleanups.** Distributors expire while others with
  the same id are created. Correct means: a running query is found, there is one
  sender, nothing is left behind, and every listener ends.
* **Lazy results.** An operation reads its input table by table, or two
  inputs at their own pace. Values, groups and undefined rows continue over the
  end of a table. Correct means: the result is that of the whole input.
* **Deciding by metadata.** Scans, joins and filters skip blocks by their first
  and last triple, their graphs and their number of rows, which were computed
  before the updates. Correct means: nothing that matches is skipped.
* **Renumbering.** A build turns words into ids in concurrent batches, and a
  rebuild moves the ids of an index that is still being updated. Correct means:
  every id keeps its word, and the order of the ids is that of the words.
* **Plans chosen by estimates.** Which plan survives, which planner runs and when a
  filter is applied depends on estimates that no test controls. Correct means:
  every plan that may be chosen has the solutions of the group.
* **Reuse of indices.** Blank nodes are allocated in blocks that are freed when
  the last owner goes, and restored under the same UUID. Correct means: a block in use is
  never handed out again.
* **Compare and exchange on a shared state.** Watchdog, computation and
  canceller each act on a state they have read before. Correct means: a
  cancellation is never undone.

## 2. Modules

| Module | What it is |
|---|---|
| `DeltaTriples` | updates, snapshots, persistence, vacuum, crashes |
| `TripleStore` | the abstract store DeltaTriples implements |
| `MCDeltaTriples` | constants for TLC |
| `DeltaTriplesProofs` | theorems about `DeltaTriples` |
| `FlexibleCache` | the cache with least-recently-used eviction |
| `ConcurrentCache` | extends `FlexibleCache`: threads, computations, lazy results |
| `MCConcurrentCache` | constants for TLC |
| `ConcurrentCacheProofs` | theorems about `FlexibleCache` and `ConcurrentCache` |
| `ThreadSafeQueue` | the critical sections and notifications of the bounded queue |
| `QueueManager` | extends `ThreadSafeQueue`: ordered queue, `queueManager`, `runStreamAsync` |
| `MCQueueManager` | constants for TLC |
| `QueueManagerProofs` | theorems about `QueueManager` |
| `TaskQueue` | extends `ThreadSafeQueue`: the pool of workers |
| `MCTaskQueue` | constants for TLC |
| `TaskQueueProofs` | theorems about `TaskQueue` |
| `CancellationHandle` | the cancellation state and the watchdog |
| `MCCancellationHandle` | constants for TLC |
| `CancellationHandleProofs` | theorems about `CancellationHandle` |
| `QueryHub` | registry, hub, distributors, senders and websocket sessions |
| `MCQueryHub` | constants for TLC |
| `QueryHubProofs` | theorems about `QueryHub` |
| `BlankNodes` | the blank node manager, local managers, persistence, restarts |
| `MCBlankNodes` | constants for TLC |
| `BlankNodesProofs` | theorems about `BlankNodes` |
| `JoinAlgorithms` | zipper join with UNDEF, galloping join, special OPTIONAL join |
| `BlockZipperJoin` | extends `JoinAlgorithms`: joins of blocks, OPTIONAL, MINUS |
| `CompressedRelation` | writer of two permutations, updates in blocks, scans, sizes, blocks for joins |
| `IndexScanPrefilter` | extends `CompressedRelation`: the two sides of a prefiltered scan |
| `ValueId` | datatypes and order of ids |
| `PrefilterExpressions` | block prefilters of FILTERs, comparators of ids |
| `IndexRebuilder` | ids of a rebuilt index |
| `IndexBuilder` | from parsed triples to vocabulary and triples of ids, with concurrent writers |
| `IndexProofs` | theorems about `IndexBuilder` and `IndexRebuilder` |
| `PatternCreator` | patterns of the subjects |
| `LazyOperations` | Cartesian product, UNION, DISTINCT, lazy GROUP BY |
| `TransitivePath` | property paths |
| `QueryPlanner` | plans for a group graph pattern: dynamic programming, greedy planner, filters, OPTIONAL, MINUS, BIND |
| `Inputs` | how inputs of algorithms are chosen |
| `JoinChecks`, `ScanChecks`, `FilterChecks`, `OperationChecks`, `RebuildChecks`, `BuildChecks`, `PlannerChecks` | inputs, reference definitions and properties of the algorithms |
| `Algorithms` | all checks of algorithms, the builder and the cache as one specification |

### DeltaTriples

*State.* `inserted`, `deleted` are the keys of `triplesInserted_` and
`triplesDeleted_`, one pair for normal and one for internal triples.
`located[<<kind, p>>]` is the content of `LocatedTriplesPerBlock` of the p-th
permutation: pairs of a triple and its flag `insertOrDelete_`. `augmented` is
what the block metadata was computed from: `updateAugmentedMetadata` copies
`located` to it. `index` is `index_`, `snapshot` the published copy, `file` the
persisted updates. `pc`, `mode`, `where`, `op`, `opsDone` are the position of
the update thread. `torn` is history: an exception has ended an update after
it changed something.

*Actions.* `modify` takes a write lock, runs a function, updates the metadata,
writes to disk and publishes. Each of these is one action, because an exception
or a crash can separate them: `BeginUpdate`, `BeginOperation` (which refreshes
the metadata before the second and later operations with a pattern),
`EvaluateWhere`, `DeleteNormal`, `DeleteInternal`, `InsertNormal`,
`InsertInternal`, `EndOperations`, `updateAugmentedMetadata`, `BeginWrite`,
`Rename`, `Publish`; `BeginVacuum`, `VacuumNormal`, `VacuumInternal`; `Clear`;
`Start`, which reads the file and inserts before it deletes; and the faults
`CancelOperation`, `modifyTriplesInterrupted`, `VacuumInterrupted`,
`DiskFault`, `Crash`. `modifyTriplesImpl` is translated as a whole: it drops the
triples that are in the target map, erases those in the inverse map through
their handles, adds the rest to one permutation after the other and then
enters them into the map. When it is interrupted, the first permutations have
the triples and the others do not. Before this, it renames blank nodes
(`rewriteLocalVocabEntriesAndBlankNodes`): one that neither the static index nor
`localVocab_` has becomes a new one, the same in all triples of the call. The
internal triples are made from the quads before they are renamed, and are renamed by
a call of their own, with another new blank node. At a restart, the blank nodes of
the file are renamed in the same way.

*Abstractions.* A quad has a subject, which may be a blank node, an object and a
graph; `WithSubject` is the quad with another blank node in its place. It is a natural number, its place in the order of the triples, so that "the first quad with this object"
of `makeInternalTriples` means the smallest. The pattern of an operation gives
an arbitrary choice of quads, whose blank nodes are those of located triples or, to
insert, one of the request. A blank node of `localVocab_` that no located triple has any
longer can not come up again and may be reused by the model (`OwnedNodes`,
`UsedNodes`); it is never the node of a snapshot, of the file or of a request. The order
within blocks, the block indices and the words of the local vocabulary are left out; a
block matters only for `vacuum`, where it is a function of the triple. The temporary
file is never read and therefore not state. `located` pairs a triple with its flag,
while the `std::set` of the code is ordered by the triple alone; that the model never
has both flags, because an insertion next to an existing element fails the check of
`add` (`Conflicts`), is a lemma of the proofs (`OneFlagPerTriple`).

### FlexibleCache

`cache` is a record: `order` (unpinned keys, least recently used first: the
priority queue `_entries` and `_accessMap`), `pinned` (`_pinnedMap`) and the
totals `sizeNonPinned` and `sizePinned`; `limits` has the three limits. A value
is represented by its key and has the size `Size[key]`. The operators
(`Insert`, `InsertPinned`, `MakePinned`, `MakeRoom`, ...) map a cache to a
cache, with an operator `...Throws` for the exceptions, so that
`ConcurrentCache` can use them inside its own actions. `MakeRoomThrows` is the
subtraction of `MemorySize`, which throws on underflow.

### ConcurrentCache

A *call* is a pair of a thread and a key, or `TopLevel` for the request that
asks for the root and consumes its result; trees are finite, so a thread has at
most one call for each key. `at[t]` is the innermost call, `up` the caller,
`pc` the position in `computeOnceImpl`, `todo` the children not asked for yet,
`lazy` the keys whose lazy results the call holds, `waits` the
`ResultInProgress` a call waits for. `exc` is history: what raised the
exception. Every critical section is one action and everything between two of
them is separate: `Lookup` (`Hit`, `Join`, `Own`, `DontStore`), `Store`, `Finish`,
`Discard`, `FinishEmpty`, `Failing`, `Abort`, `Wake`, `InsertFallback`; the
computation is `CallChild`, `Consume`, `Fail`, `ReturnMaterialized`,
`ReturnLazy`; an exception goes up with `Raise` and `Unwind`; `Command` changes
the cache from outside. A computation may fail at any point, may call its
children in any order or not at all, and may return a lazy result unless it is
pinned. A lazy result is stored when it has been read to its end, by the
callback of `runComputationAndPrepareForCache`, and not at all if it is dropped.
`TrackedSpec` adds the history variable `cleared`: the pinning calls during which a
command has cleared the whole cache, which `PinnedWhenReturned` exempts.

### ThreadSafeQueue, QueueManager and TaskQueue

`ThreadSafeQueue` has the variables of the class and one operator per way
through a critical section (`PushWaits`, `PushRefused`, `PushStores`, `PopWaits`,
...). Its mutex is never held while a thread blocks, so a critical section is
one step; notifications come after the unlock, as steps of their own.
`pushWait` and `popWait` are the threads blocked in `wait`; a thread that has
been woken evaluates its predicate again. Spurious wake-ups add nothing: a
thread whose predicate is false blocks again.

`QueueManager` uses these operators from several producer threads and one
consumer. `kind` chooses the `OrderedThreadSafeQueue`, the plain queue or the
stream with one thread (`AsyncStream.h`). The ordered queue's own mutex is a
variable, because its `push` keeps it while the inner push blocks. A producer
function hands out the next value, throws before or after taking one, or ends
(as the block readers of the lazy index scans do); the consumer pops, and may
destroy the generator between any two pops. Destruction is `Finish`, `Join` and
the `finish` of the queue's own destructor.

`TaskQueue` has pushers, workers and an owner. A task is abstract; those in
`Finishing` call `finish` from inside the pool. A second call of `finish`
returns at once, as in the code. The owner calls the destructor when the
pushers are done, because using an object during its destruction is undefined.

### CancellationHandle

The handle with its watchdog. A loop around `compare_exchange` is a step that
reads and a step that swaps if the state is still the one read, or reads again
(a weak exchange may fail for no reason). All accesses are to one atomic
variable, so relaxed memory order permits no other outcomes. The intervals of
the watchdog have any length, and what is logged is left out.

### QueryHub

A distributor is named after the query or session that creates it. `holds` are
the shared pointers, `socketDistributors` the weak ones; a distributor is
`Alive` while a client or a function posted to its strand holds it. `strand` is
the queue of posted functions: updates, the end, and the sessions that resume.
The steps of the end of a query are in the order of the destructors:
`SetFinished`, `DeleteFromDistributors`, `PostEnd`, `Unregister`, `Release`. A
client may leave at any time. Boost.asio is represented by what the code relies
on: functions posted to a strand run one at a time, in order, and setting the
timer anew resumes those who wait.

### BlankNodes

A set of blocks (class `Blocks`) is shared by the local vocabularies that hold
a pointer to it; `managedBlockSets_` has weak pointers by UUID. A set whose last
owner has dropped it is *dying* until its destructor has the lock in
`freeBlockSet`, and the steps of other threads fall in between. `getId`,
`MergeWith`, writing a result, restoring it in the next process
(`registerAndAllocateBlockSet`, entry by entry) and destroying are actions. The
random choice of a free block is any free block.

### The algorithms

They are operators, translated loop by loop: a loop is a recursive operator
over a record that holds the local variables, an iterator is a position, and
`ok` or `failed` becomes a field of the record where the code has an
`AD_CORRECTNESS_CHECK`. Control is complete; ids are small numbers, rows short
sequences, and the sizes at which the code changes its behaviour (blocks per
fetch, rows per block, graphs per block, rows per chunk) are CONSTANTS or
parameters. An input is chosen in two or three steps, and an invariant compares
the result with a definition on sets of pairs, rows or walks. Some parts have
more than one step because the code does:

* `IndexScanPrefilter`: each consumer reads when it likes; the record `state` is
  `SharedGeneratorState`.
* `IndexBuilder`: the main thread, the writers of the batches and the threads
  that write the triples in turn are separate; a writer may fail while it sorts, before it
  has asked for its turn (`SortFails`), while it writes its words, and while it writes
  its triples; and the parser may fail (`ParseFails`). `withWriteLockAndOrdered` is a guard on `nextOrderedRequest`, which
  its destructor-like cleanup increments also after an exception. Behind a writer that failed
  while sorting, all others wait, as in the code.
* `CompressedRelation`: an index is written, then updated, then scanned.
* `IndexRebuilder` works on a snapshot and on the updates after it.
* `QueryPlanner`: the elements of a group are visited one by one, as by
  `graphPatternOperationVisitor`, and then optimized. A tree is what it
  returns: variables, solutions, and the bag of the elements it joins. Where
  the code takes the cheapest or smallest plan, or compares the size of a component
  with the planning budget, all outcomes are considered: the operators return
  sets of rows of plans. What is inside of braces has been planned before, and its
  plan brings the numbers of its own filters with it. Solutions are sets, so that the
  number of duplicates is only seen by the bag of elements.

`PrefilterExpressions` follows the SPARQL expression down to the ranges of
blocks: `getPrefilterExpressionForMetadata`, merging of children under AND, OR
and NOT, `logicalComplement`, `evaluate` with its handling of inconsistent blocks, and
`getRangesForId`. Doubles are numbers in the order of their bits, NaN included.

## 3. Runs

| Run | Configuration | Result | Question |
|---|---|---|---|
| `updates` | `DeltaTriplesUpdates` | pass, 346 549 states | What do queries see, with new blank nodes, several graphs, crashes and failed writes? |
| `interrupted` | `DeltaTriplesInterrupted` | pass, 1 033 452 states | What survives an update or a vacuum cut short at every point? |
| `timeout` | `DeltaTriplesTimeout` | violation | Is a snapshot consistent after an update timed out? |
| `concurrent` | `ConcurrentCache` | pass, 49 684 states | Who computes, who waits, what is pinned, does every query end? |
| `queue` | `QueueManager` | pass, 210 198 states | In which order do values come, when is the end seen, can the generator be destroyed? |
| `task_queue` | `TaskQueue` | pass, 247 482 states | Do `finish` and the destructor wait for the tasks, and return? |
| `cancellation` | `CancellationHandle` | pass, 331 422 states | Can a cancellation be undone, does the watchdog end? |
| `hub` | `QueryHub` | pass, 120 775 states | Who sends, who is found, what is left behind, do sessions end? |
| `blank` | `BlankNodes` | pass, 419 165 states | Is a block in use ever handed out again, is one forgotten? |
| `algorithms` | `Algorithms` | pass, 359 938 states | Do the algorithms compute what they should on all small inputs, do plans return the solutions of their group, does a build end with the right index, does the cache keep its limits? |
| `optional_join` | `OptionalJoin` | violation | Does an OPTIONAL of blocks keep every row of its left side? |
| `filter_blocks` | `FilterInts` | violation | Does a prefilter on integers skip only blocks without results? |

### Properties

* `HandlesValid`: no handle dangles, whatever was cut short.
* `MapsMatchPermutations`: as long as no update was cut short, maps and
  permutations agree; a vacuum may be cut short at any point.
* `SnapshotConsistent`, `WhereSeesLiveState`: every permutation gives the same
  answers, and the metadata scans use accounts for every inserted triple, in
  published snapshots and between the operations of a request.
* `LanguageFilterComplete`: for queries over all graphs, a language-tagged quad without a
  local blank node is visible exactly if its internal copy is, and the object of every
  visible language-tagged quad has its tag in some graph. Updates that were cut
  short are not covered: the run has no timeouts, and the theorem excludes them. What
  the static index has in addition (`LanguageFilterAsInBase`) is lost by updates,
  see section 5.
* `IndexIdentifiesContent`: a snapshot with the index of its predecessor has
  its content (this is what the query cache relies on).
* `VacuumKeepsContent`: a vacuum changes no content, finished or not.
* `ImplementsTripleStore`: with `saved` mapped to what the file stands for and
  `visible` to what queries see, both up to the names of blank nodes, DeltaTriples
  implements `TripleStore`: the
  content changes in one step per request, and is saved before it is visible.
* `UpdateIsAtomic`: a request that fails leaves the content as it was.
* `CacheSizesRespected` (`SizesExact`, `SizeWithinLimit`), `EntriesWithinLimit`,
  `InsertSucceeds`: the accounting and the limits of the cache.
* `InProgressOwned`: a key is in `_inProgress` exactly while one thread computes
  it for everybody, although entries are erased by key, not by owner.
* `WaitersHaveOwner`: a waiting thread waits for another thread that will still
  call `finish` or `abort`.
* `PinnedWhenReturned`: a call that pins and returns without an exception has
  its result pinned, also if another thread computed it, unless a command has
  cleared the whole cache during the call.
* `AbortMeansFailure`: a computation is announced as failed only if it failed.
* `QueriesEnd`: every query ends.
* `YieldsInOrder`, `EndMeansComplete`: values come in the order of their indices
  (from the plain queue: once), and `pop` reports the end only when all have
  come and nobody has failed. An exception replaces what is still queued.
* `GeneratorDestroyed`: the generator's destructor returns, although a producer
  may hold the mutex of the ordered queue when `finish` is called: the inner
  queue is finished first.
* `FinishWaitsForTasks`, `DestroyedMeansRun`, `TaskQueueDestroyed`: when finishing
  is complete every accepted task has run, but for the one that called
  `finish` (and, if that worker is the only one, those behind it: see section 5);
  after destruction each has run once; and the destructor returns.
* `CancelIsEffective`, `FirstReasonWins`, `WatchDogEnds`: nobody who read the state
  before a cancellation overwrites it, the first reason stays, and the watchdog
  can be joined.
* `OneSender`, `RunningQueryIsFound`, `ExpiredEntriesAreRemoved`, `SessionsEnd`: see
  section 1.
* `ClosedMeansNoMoreData`: a session is closed by the server only after the last
  update.
* `IdsProtected`, `BlocksAccounted`, `FreshIds`: every blank node that a
  vocabulary knows lies in a block it owns; the blocks in use are those of the
  existing sets, each in one set; and `getId` never returns an index that anybody
  holds or that has been persisted and may be restored.
* `JoinsExact`: `ZipperJoinExact` (every compatible pair once, every row
  without partner once, and the parts the caller merges are
  sorted), `GallopingJoinExact`, `SpecialOptionalJoinExact`; and the same for inputs
  that come as blocks, for all ways to cut them (`BlockJoinExact`, and OPTIONAL, MINUS and
  special OPTIONAL under the conditions named in `FewBlocksPerValue` and section 5).
* `ScansExact`: `WriterKeepsTriples` (both permutations hold the triples, and
  no two blocks share one), `ScanExact` (a scan with any fixed ids, graphs, limit
  and offset returns the updated content), `SizesFromMetadata`,
  `GroupCountsWithoutUpdates`, `BlocksForJoinComplete` and, for every order in which the
  consumers of a prefiltered scan read, `PrefilterLossless`.
* `FiltersLossless`: `SkippedBlocksMatchNothing` for filters built from
  comparisons, lists, types and years with AND, OR and NOT, and `RangesForIdExact`, with
  the exceptions that their comments list and section 5 explains: lists below two
  negations, blocks of integers of both signs, negated comparisons on NaN, encoded IRIs.
* `OperationsExact`: `CartesianProductExact`, `SortedUnionExact`, `DistinctExact`,
  `GroupByExact`, `TransitivePathExact`.
* `RebuildExact`: `RebuildKeepsOrder` (`KeepsMeaning`, and columns are remapped id by
  id), `LaterUpdatesFit` (`FitsLater`: what comes after the snapshot gets ids that agree
  with the new index), `DiffRestores`, `StatisticsExact`.
* `BuildExact`: decoded with the merged vocabulary, the triples pushed to the two
  sorters are those that were parsed, each in its sorter and as often as it is in
  the input, whatever the interleaving of the writers; the vocabulary is sorted and has
  exactly their words; and once the input is parsed, only the failure of a writer fails a build.
* `TurnsPassOnAfterSort`: a writer that has asked for its turn passes it on also when it
  fails, so that whoever waits has a running writer, or one that failed while sorting,
  before it; the latter blocks all behind it for good (section 5). A build in which a writer
  failed merges nothing.
* `PatternsExact`: every triple comes out once with the patterns of its subject and of its
  object, and two subjects share a pattern exactly if they have the same predicates.
* `PlansExact`: every plan that may be chosen for a group returns its solutions, as
  the SPARQL standard defines them from left to right with the filters at the end,
  joins every element once, and no check of the planner fails; except for the
  three kinds of groups of section 5.

### Bounds, and why they are enough

`DeltaTriples`: three quads, one of them in the static index
(so that inserting and deleting each is redundant or not), one new one, and one with a
blank node, which has the object of the new one in another graph; four
blank nodes, one of a request and three that can be handed out: for the normal and for
the internal triples of an update, and after a restart; two permutations of
each kind (one that was reached before an interruption and one that was not),
two operations per request, and at most four increments of `index_`, that is
two updates that delete and insert, or four that do one of both: a triple can be
inserted, deleted, vacuumed, restored after a crash and inserted again. `RoomForNodes`
refuses an operation for whose blank nodes, or for those of a later restart, there is no
room. In `interrupted`, there are two quads without a blank node, one of them with a
language tag, the vacuum has a threshold of two triples and may be cut short, and an
update after an interrupted one starts from the torn state. `FlexibleCache`: four results of the sizes 0, 1, 2 and 3, with
limits that are raised and lowered below the sizes in use.
`ConcurrentCache`: two threads, a join, a scan they share and a service call
whose result is not cached; a cache with room for one entry makes evictions
happen between every two steps, and the limit is lowered so that storing
results throws. There is no symmetry, because the run checks liveness.

`QueueManager`: two producers and three values through a queue with one place:
one producer can be blocked in the inner push while the other waits for its
turn, fails or ends. `TaskQueue`: two pushers, two workers, a queue with one place
and three tasks, two of which call `finish`. `CancellationHandle`: three threads, so
that one may cancel while two others reset and check. `QueryHub`: one id, since
different ids share nothing, two queries that use it one after the other, each
with updates, and one session that may create the distributor, join it, or
outlive the query. None of these runs uses symmetry, because they check
liveness. `BlankNodes`: two blocks of two indices, two vocabularies and three
block sets, so that a set can be dying while its UUID is registered again and a
third one takes its blocks; one restart; blocks and vocabularies are symmetric.

`Algorithms`. Joins: tables of up to three rows (five together) with two columns over UNDEF, 1
and 2; all cuts into blocks, empty ones included, with one block per
fetch, so that every value of two rows can exceed it (`OptionalJoin.cfg` has the three of the
code). Scans: eight triples in three relations and two graphs, blocks of two
rows and one graph per block, up to seven triples or three updates: a relation
may fill several blocks, share one, or exist in updates only. Prefiltered
scans: up to three tables and two blocks. Filters: three blocks over a column of
integers, doubles, NaN, terms or dates, with up to two operators above
another. Operations: three rows per child of a product (with limits and
offsets around the sizes and the largest number), two per child of a union,
five for DISTINCT and GROUP BY, all cuts into tables; property paths on all
graphs with three nodes, and on two named graphs with two nodes each. Rebuild:
four words and four blocks of blank nodes in all distributions. Builder: up to four
batches of one or two triples, two item maps and two writers at a time. Plans: all
groups of up to three elements, or four triples (`MaxElements`, `MaxTriples`), out of
five triples (a path, a cycle, two with a repeated variable), three OPTIONALs, a
MINUS, a group and two BINDs, with up to two filters and a view for two of the
triples: enough for two parts with a barrier between them, for overlapping
plans, for several components, and for a greedy step that uses its cache. In each
case one more element gives no new branch of the code a chance: the boundaries
(empty, one, last, equal to the size of a block, and over it) are within.

### Fairness

`concurrent` assumes weak fairness of `Step(t)` for each thread t: a thread that
can run will run, which the scheduler of the operating system guarantees for
the threads of the query pool, and a computation ends, because it reads finite
tables and checks for the timeout of its query. There is no fairness for
`BeginQuery`, reads and commands, and none that would favour one outcome of a
computation. A waiting thread is disabled until it is notified: waiting in
`ResultInProgress::getResult` is not subject to the timeout of the query, so
the property rests on the notifications alone. No cycle of waiting threads is
possible since a thread waits only for keys below the keys it computes.

`queue` and `task_queue` assume weak fairness of each thread:
a thread that is not blocked runs. For the consumer this includes that it goes
on to pop or destroys the generator, and for the owner that it destroys the task
queue, which is what makes the properties worth asking; calling `Stop` or
`finish` earlier is not required. `cancellation` assumes weak fairness of the
watchdog alone, whose waits end by their interval. `hub` assumes that the io_context runs what is posted to each strand, that a query which has begun
to end goes on, and that a handshake or a write ends (websocket streams have
timeouts). A query need not end and no client need leave.

## 4. Proofs

Every safety property of the runs `updates`, `interrupted`, `concurrent`, `queue`,
`task_queue`, `cancellation`, `hub` and `blank`, those of the index builder and that of the
cache, is a theorem for every value of the constants. What the invariants claim was first
checked by TLC on the instances of the runs.

`DeltaTriplesProofs` (from `TripleAssumption`, `NodeAssumption`, `BoundAssumption`: any
set of quads, with any objects and graphs, any blank nodes, any number of permutations,
any commands and faults):

* `TypeCorrect`, `HandlesAlwaysValid`, `MapsAlwaysMatch`:
  `Spec => []P` for `TypeOK`, `HandlesValid` and `MapsMatchPermutations`. The inductive
  invariant `IInv` is their conjunction with `OneFlagPerTriple`: that the model, as
  the ordered sets of the code, has a triple with one flag only.
  None is inductive alone: that erasing through a handle leaves the other
  handles valid needs that no triple has both flags, and that needs the check in
  `add`, which in turn never fails if maps and permutations match
  (`ExactNoConflicts`). The lemmas follow the code: what `Remap` and `Relocate`
  do to the maps and permutations in a complete and in an interrupted call, and
  what erasing redundant triples does.
* `SnapshotsConsistent`: `SnapshotConsistent` under the additional assumption
  that updates do not time out. It needs `Steady`: metadata and permutations
  agree in the snapshot and, when a publication is near, in the live state. The
  run `timeout` shows that the assumption cannot be dropped.
* `WhereAlwaysSeesLiveState`, with all faults. The invariant adds that whenever
  a request is between two operations or at rest and nothing was cut short, the
  metadata accounts for every insertion.
* `VacuumNeverChangesContent`, with all faults: the lemma `EraseView` says that
  erasing a set of redundant entries leaves what a merge with the static index
  returns, also in a permutation that an interrupted update has left behind.
* `SameIndexSameContent`: `IndexIdentifiesContent` without `clear` (which does not
  change `index_`, section 5) and without interrupted updates. `VersionInv` relates
  the live content to that of the snapshot: they differ only if `index` is greater.
* `LanguageFiltersComplete`: `LanguageFilterComplete` without interrupted updates, for any
  assignment of objects and graphs to quads and with renamed blank nodes. `LInv` follows
  the internal triples through the four phases of
  an operation, in which they lag behind the quads by what the operation has deleted or
  inserted. That a tag stays once it is there is part of it, since a call does not
  add the tag in every graph; `RewriteNormal` and `RewriteInternal` say that renaming leaves
  quads without a blank node, and all tags, alone.
* `StoreImplemented`: `Spec => ImplementsTripleStore` for `Persist = TRUE` and without
  interrupted updates: initial states map to initial states, and every step
  to a step of `TripleStore` or a stutter. `FileInv` says what the file holds relative to
  the live maps and the snapshot at each position of `modify`. A file holds the maps as
  they were, and reading it back inserts before it deletes; that this gives the same
  content rests on `MapsMatchPermutations` and on the maps being disjoint. The blank nodes
  of the file are renamed when it is read, so the content is compared up to their names
  (`SameUpToNodes`): `ModifyOwned` and `LiveNodesOwned` say that a live blank node is one of
  `localVocab_` and so is not renamed again, `InsertionsRestored` that the renaming of
  one call is injective and new.

`ConcurrentCacheProofs` (from `CacheAssumption`, `ThreadAssumption` and
`TreeAssumption`: any number of threads, any finite set of keys, any sizes, any acyclic
tree, any limits and commands):

* `SizesAlwaysRespected`. The inductive invariant is `CacheInv`: `Good` (every key is
  held once, the two totals are the sums of the sizes) and `Within` (the limit
  is respected unless the pinned entries alone exceed it). The operations are treated
  as operators first (`AccessGood`, `MakePinnedGood`, `MakeRoomGood`, `InsertGood`,
  ...), so that the same lemmas serve `ConcurrentCache`. `TotalSize` and `SizeOfOldest`
  are recursive functions, one over sets, one over a sequence. What is needed about
  them is an induction, for which the library's induction theorems cannot be
  instantiated by the provers; it is carried out as an argument about a least counterexample
  (`LeastNumber`, `LeastSet`, from the well-foundedness of the natural numbers and of the
  subsets of a finite set): the function exists (`TotalFunction`), is additive
  (`TotalAdd`, `TotalUnion`), and the sum over the oldest entries is the total of the set of
  them (`OldestTotal`).
* `TypeCorrect`, `InProgressAlwaysOwned`, `WaitersAlwaysHaveOwner`. The
  inductive invariant adds `CallsNested`: the calls of a thread form a stack
  along which trees grow and in which every call but the innermost is running.
  Without it a thread could call a key for which it already has a call, and a
  failing child could raise its exception in a call that is storing or
  announcing a result. `Rank` is the height that `TreeAssumption` promises.
  Every action either moves the innermost call to another label (`Moves`),
  adds a call (`Calls`) or ends one (`Ends`); the stack is treated once for each
  of the three, ownership and waiting once for each way in which an action
  treats `_inProgress` and the waiting threads.
* `ConcurrentSizesRespected`: the critical sections of the threads apply the operations of
  the cache with their checks (`StepOnCache`), and so keep `CacheInv`.
* `PinsDelivered`: `TrackedSpec => PinnedWhenReturned`. `PinInv` follows a request to pin:
  while a key is computed it is in the entry of `_inProgress`; once the owner
  is about to announce the result, the key is pinned; a thread that waits has passed its
  request to the owner it waits for, or has been told of a result that is pinned. It uses that
  the entry and the waiting threads belong to the same owner (`IInv`), and that nothing but
  clearing the whole cache unpins a result (`ClearsRemembered`). `PinStep` lists what a
  step may do to labels, requests and waits; each action is shown to be such a step.

`QueueManagerProofs` (from `MaxSizeAssumption` and `ManagerAssumption`: any finite
number of producers, any number of values, any capacity):

* `TypeCorrect` (with the capacity of the queue) and `AlwaysYieldsInOrder`. The
  invariant is stated about `Stored`, the popped values followed by those in the
  queue, which only a push changes. `Control` says that whoever is inside the
  inner push holds the mutex, so that one producer at most has the turn, and
  that nobody returns to its loop after finishing; `Order` relates `nextIndex_`
  (or, for a stream, the next value) to the length of `Stored`, while the queue is
  not finished, and for the plain queue keeps the values about to be pushed
  apart from the stored ones. Most steps are `Quiet` and are treated together.
* `EndIsComplete`: `EndMeansComplete`. `Completeness` says who may have finished the queue (the last
  producer, one that failed, or the generator that is destroyed), that the
  number of producers which still run is counted exactly, and that every value taken from
  the source is stored, about to be pushed, or lost with a producer whose exception
  is reported.

`TaskQueueProofs` (any sets of workers, pushers and tasks, any capacity):

* `FinishWaits`, `DestructorWaits`. The invariant says that an accepted task which has not
  run is queued or in the hands of one worker (`Placed`, `NoneLost`), which tasks are
  still to be pushed (`Pending`), and that a worker which has ended, and so may be joined,
  has left an empty, finished queue (`Ending`). The proof showed that
  `FinishWaitsForTasks` has to exempt a pool with a single worker whose task calls
  `finish` (section 5).

`QueryHubProofs` (any sets of queries and sessions, any assignment of ids):

* `NoSecondSender`, `QueriesAreFound`, `NoEntryStays`. The invariant: an entry of the hub
  has a distributor of its id (`SameId`) that is not older than any other in use;
  one running query per id is registered (`Registered`) and its distributor is the one in
  the entry (`Running`); an entry is marked as started only by its query (`Started`); and a
  distributor that is in the hub has its cleanup armed (`Armed`). `OneSender` needs the
  order of the destructors: the query leaves the hub before its id is unregistered.

`BlankNodesProofs` (from `BlankNodesAssumption`: any set of blocks, any
number of indices per block, any vocabularies, any number of restarts):

* `UsedIdsAreProtected`, `AllBlocksAccounted`, and `NoBlankNodeTwice`, the action property
  `FreshIds`. None is inductive: that an index of a block is fresh needs that the
  block is in no other set, alive, dying or persisted. The invariant states
  how the blocks of the sets are laid out (`Shape`), that the blocks a vocabulary uses are in sets
  it owns (`Owned`), that persisted indices are in blocks which the next
  process allocates before anything else (`AllSecured`, `FileComplete`), and that a set restored from
  the file has the blocks of its entry (`FromFile`).

`CancellationHandleProofs` (any set of threads, no assumption):

* `CancelIsAlwaysEffective`, `FirstReasonAlwaysWins`. The invariant adds that a
  thread about to please the watchdog has read a state that is not cancelled,
  and that a call of `cancel` which found the handle cancelled found it so
  rightly: cancelled states never change.

`IndexProofs` (any sequences of batches of parsed triples, any size of a batch, any
numbers of item maps and of writers, any failures of the parser and of writers): from `BuildNumbers`,
`BuildWords` (the words with one of the internal prefixes are neighbours in the order, as
words with a common prefix are, and no blank node has one), `BuildInputs` and `BuildIds`.
The last says that an item map gets no more words than the `100 * maxNumberOfTriples` ids
reserved for it. The code relies on this, and checks it: otherwise two words of a batch
would share an id, and `AD_CORRECTNESS_CHECK(inserted)` in `createInternalMapping` throws.
The assumption fails only for text literals with hundreds of words on average.

* `TurnsAlwaysPassOnAfterSort`. `WritersInv`: the writers before `nextOrderedRequest` have
  written or failed to, those from it on have not, or have failed while sorting (`TurnsOk`), and `futures` is a window of the last writers, all before it
  having succeeded (`WindowOk`); so a build that merges has waited for everybody.
  `TurnsPassOnAfterSort` alone is not inductive: after a `get` it would not be known that the
  writers before the window did not fail.
* `BuildAlwaysExact`. `ContentInv`: the file of all triples is the concatenation of the
  triples of those writers that succeeded, in their order, and each of these triples,
  decoded with the partial vocabulary of its writer, is the triple that was parsed
  (`ContentOk`). `ReadInv`: what the writers stand for, then the batch that has been read,
  then what is still to be read, is the input. `ConvInv`: the batches converted so far are a
  prefix of the file, and decode to the sources of their writers. Under these, the
  argument follows the data. The id of a word is its place among the first occurrences
  (`ItemMapFacts`), sorting the words is a permutation of them (`SortedFacts`), the position of
  a word in the sorted vector is the id it gets in the file (`MappedComponent`,
  `JobFacts`), the id map of a batch takes it to a place of the merged vocabulary with the
  same word (`IdMapTranslates`), and a contiguous range of words is a range of ids
  (`RangeExact`), so that internal triples are recognised.
* Orders and sequences: that a finite set with a total order can be listed by rank
  (`RankOnto`), and what `FlattenSeq` returns (`FlattenLast`, `FlattenConcat`,
  `FlattenSlice`, `FlattenAligned`). `FlattenSeq` is a recursive function inside the
  community module; `FlatExists` shows that the function exists. Induction over the
  length of a sequence is done with the set of lengths for which the claim holds
  (`AllUpTo`, from the well-foundedness of the natural numbers), because the induction
  theorems with an operator as a parameter cannot be instantiated.

For these proofs `IndexBuilder` says where words are in a sequence by sets of positions
(`ElementsAt`, `PlaceAmong`), which are the counters of the code's loops.

The same module proves what the ids of a rebuilt index mean, for any sorted vocabulary,
any finite set of words of the updates, none of them in the vocabulary (as
`materializeLocalVocab` checks, `EntriesAreNew`), any finite set of blocks of blank nodes
and any other ids (`RebuildInput`, `FoldedIds`); from `BlankBlocks`:

* `RebuildKeepsMeaning`: `KeepsMeaning`. `mergeVocabs` is a loop of rounds; after each of
  them (`MergeOk`) what was written is sorted and has the first old words, each at its
  index plus the number of entries inserted before it, and the first entries; `EntryRound`
  and `OldWordRound` are its two branches. At the end (`MappingOf`) the number of
  insertion positions up to an old index, which `remapVocabId` finds by binary search, is
  the distance by which its word has moved. The blocks of blank nodes are listed in
  ascending order, so that the number of the blocks below one is its position among them,
  and division by the size of a block recovers block and offset (`BlockOfIndex`,
  `BlankRemapped`). `Remapped` collects both; the order of ids of
  different types does not change.
* `LaterUpdatesFitIn`: `FitsLater`, for any later words that are neither in the vocabulary nor
  in the updates, and any later blocks. The one assumption the code does not
  guarantee is that no later block has an index below the number of blocks in use: an
  index of a block is drawn at random from about 2^60 / 1000 of them, and the code does not
  exclude a small one (in the run, those blocks are left out, too).

The two theorems are about the definitions `KeepsMeaning` and `FitsLater` that the run
`algorithms` checks as parts of `RebuildExact`.

Left to TLC: `QueriesEnd`, `GeneratorDestroyed`, `TaskQueueDestroyed`,
`WatchDogEnds` and `SessionsEnd`, because liveness under fairness is out of this
prover's reach; and the checks of the algorithms (`JoinsExact`, `ScansExact`,
`FiltersLossless`, `OperationsExact`, `PatternsExact`, `PlansExact`), which are
loops written as RECURSIVE operators, about which this prover cannot reason at all. Of
`RebuildExact`, the folds over columns and blocks (`remapColumn`, `StatisticsExact`) and the
difference of snapshots (`DiffRestores`, about the blocks of `CompressedRelation`) stay with TLC.

## 5. Findings

Each is a run that TLC refutes, with the line of the repository it contradicts
in `PROJECT.json`.

1. `timeout`: an update that times out in `locateAndAddTriples` has changed some
   permutations; the next request publishes them.
2. `optional_join`: when the left side of an OPTIONAL of blocks has an undefined
   value, `consumeRemainingBlocks` reads its remaining blocks to pair them with
   the undefined values of the right side, and `fillWithAllFromLeft`
   no longer finds them: their rows are missing (left blocks `[UNDEF, 1]`, `[1]`).
3. `filter_blocks`: ids of negative integers come after those of the others. A
   block from 0 to -1 is skipped for `FILTER(?x > 0)`: the range of the
   matching ids lies strictly between its bounds, and is empty among the first
   and last ids of blocks.

### Observations

Statements that one would expect to hold and that TLC refutes on small
instances. They are not among the runs; each can be reproduced by checking the
named property with the constants given (for `Algorithms` by putting the
property in the place of the invariants of `Algorithms.cfg`).

Updates, cache and server:

* `IndexIdentifiesContent` (`DeltaTriplesUpdates.cfg` with `Commands = {"update", "clear"}`):
  `DeltaTriples::clear` does not
  increment `index_`. Results that were cached before `clear-delta-triples` are
  returned after it, whereas `src/index/DeltaTriples.h:48` calls the index unique.
* `ClosedMeansNoMoreData` (as an invariant of `QueryHub.cfg` with
  `Query <- MCOneQuery`, `Session <- MCSessions` and `MaxUpdates = 1`: one query,
  two sessions): `signalEnd` sets `finished_` at once, while the last update is still queued on the strand; a session that
  resumes in between is closed without it
  (`src/util/http/websocket/QueryToSocketDistributor.h:74`: "a nullptr if no more data is available").
* Not modelled: `processUpdateImpl` clears the query cache and the named results
  inside `modify`, before the snapshot is published
  (`src/engine/Server.cpp:1188`); a query that runs meanwhile stores a result of the
  old snapshot under its name afterwards (`src/engine/Operation.cpp:407`).

* `UpdateIsAtomic` (with the constants of `DeltaTriplesTimeout.cfg`): operations of a request that fails later stay in effect and
  become visible with the next request. The comment at `src/engine/Server.cpp:1217`
  says that several updates of a request "have to run atomically".
* `LanguageFilterAsInBase` (as an invariant of `DeltaTriplesUpdates.cfg`), for two reasons. One
  request that inserts two quads with the same object in two graphs tags the literal in one
  graph only, because `makeInternalTriples` remembers the objects it has met without
  their graph (`DeltaTriples.cpp:270`). And the copy of a quad with a new blank node
  gets another blank node than the quad, because
  `rewriteLocalVocabEntriesAndBlankNodes` is called once for the normal and once for the
  internal triples, each time with an empty map (`DeltaTriples.cpp:422`): the copy, which
  answers a language filter, has a subject that is in no quad, and a deletion of the quad
  does not delete it.
* `EntriesWithinLimit` (`Algorithms` with `entries |-> 1` in `MCLimits`): an empty result has
  size zero, which `makeRoomIfFits` takes for "no new entry".
* `InsertSucceeds` (`Algorithms` with `single |-> 3` in `MCLimits`): when the pinned entries
  exceed the size of the cache, the subtraction in `makeRoomIfFits` throws, and
  with it every `insert` and every change of a limit, whereas the comment at
  `src/util/Cache.h:152` says that nothing happens.
* `AbortMeansFailure` (`ConcurrentCache.cfg` with room for three entries): a computed
  result that is already in the cache, stored by the consumer of a lazy result,
  makes `insert` throw; the query and all that wait for it fail.
* `FinishWaitsForTasks` with one worker: `finish`, called by a task, returns while
  that worker still has queued tasks, and the flag for which
  `waitUntilFinished` waits is set as well. The destructor still runs the tasks,
  because it joins the worker. The comment at `src/util/TaskQueue.h:85` says
  "Blocks until all tasks have been computed".
* `insertPinned` throws for a result above the limit for single entries, whereas
  the help text of the option in `src/ServerMain.cpp:97` says that such results
  "will not be cached unless pinned".

Algorithms:

* `FewBlocksPerValue` cannot be dropped from `BlockOptionalExact`, `BlockMinusExact`
  and `BlockSpecialOptionalExact`: when a value of the right side spans more
  than `FETCH_BLOCKS` blocks, rows of the left side are reported as unmatched
  although they match (one block per fetch: left `[1]`, right `[1] [1,2] [2]`).
* `SortedUnionSorted`: `Union::resultSortedOn` promises the whole order, but the
  comparison stops at the first column that one child lacks
  (`trimmedTargetOrder`, `src/engine/Union.cpp:415`). If the other child has UNDEF in that column,
  rows that agree up to it are not sorted on the columns after it.
* `TransitivePathOfGraphExact`: a row with a graph and without a node is expanded
  to the nodes of all graphs (`expandUndef`, `src/engine/TransitivePathImpl.h:43`), and rows of other
  graphs are added. Rows without a node are expanded to nodes with an outgoing edge only,
  so that paths of length zero from other nodes are not found.
* `RangesForZeroExact`: for a comparison with 0, `getRangesForDouble` searches
  ids among which there may be NaN, and may return a reversed range.
* `SkippedBlocksOfListsMatchNothing`: `IsInExpression::logicalComplement` always sets
  `isNegated_`, so that two negations of a list do not cancel out
  (`PrefilterExpressionIndex.cpp:721`, where the header, line 123, says they do): for
  `!(!(?x IN (1)))` three blocks with the integer 1 alone are skipped.
  `SkippedBlocksMatchNothing` therefore leaves lists below two negations out (`ListNegatedTwice`),
  and two more cases: a negated comparison is true for NaN, but its complement skips
  blocks with NaN; and `isIRI` skips blocks of encoded IRIs.
* `GroupCountsExact`: `getDistinctColIdsAndCounts` takes `numRows_` for the size of
  a group that fills a block, also if updates have changed the block or a triple
  is in several graphs (`CompressedRelation.cpp:1046`).
* `NobodyWaitsForFailed`: a writer whose sort throws (`IndexImpl.cpp:1546` to 1577) has not asked
  for its turn yet and never passes it on; the writers after it wait forever, and so does the
  main thread, in a `get` or when it destroys the futures (the comment at `Synchronized.h:135`
  mentions the deadlock). `TurnsPassOnAfterSort` says what holds instead.
* `NoFilterMissed` (with `PlanSpec` of `PlannerChecks`, `MaxElements = 3`, `MaxTriples = 4`): the filters that `fillDpTab` adds for a
  repeated variable are numbered behind those of the group in every call
  (`QueryPlanner.cpp:1779`), but a plan keeps the numbers across an OPTIONAL, MINUS or
  BIND (lines 3023 and 3214). In `{?x <p> ?x OPTIONAL {?x <q> ?y} ?y <r> ?y}` the second of
  them counts as applied already and may be missing, whereas the comment at line 1403
  says that the last row is treated "so that no filters are missed".
* `FiltersStayBehind` (likewise): a filter is applied as soon as its
  variables are columns of a plan. If such a variable is unbound in a solution
  and a later element of the group binds it (two OPTIONALs with the same variable and
  `FILTER(bound(?y))`), the solution has been dropped before.
* `CandidateJoinFound` (likewise): the variables of a MINUS count as bound
  (line 2983), although no plan has them. A later OPTIONAL or MINUS that has only these
  in common with the rest fails the check "Could not find a single candidate join for two
  optimized graph patterns" (line 3036); it would have been handled as unconnected
  otherwise.
* `BlocksAccounted` excludes that a UUID is registered again before the destructor
  of its old set has run: `freeBlockSet` then finds the new entry, or none, and
  the blocks of the old set stay in use.
* `LaterUpdatesFit` excludes blank nodes whose block index is below the
  number of blocks that were in use at the snapshot: `DeltaTriples::remapId` leaves them
  unchanged and they may meet an index of the new range.
* `DiffRestores` excludes triples that `vacuum` or `clear` has removed between the two
  snapshots: the difference does not contain them.

## 6. What is not modelled, and why

QLever has 158 000 lines of code outside of its tests. More than a tenth are generated parsers, and most of
the rest (visitors and parsers, the evaluation of expressions, text
and spatial search, SERVICE, the export formats, compression, file formats, the
HTTP layer, command line tools, benchmarks) maps values to values without
state of its own. Its correctness is the meaning of strings and numbers, for which a model
would be a second implementation and not an abstraction; it is left to the tests. The share of
lines that the map in `PROJECT.json` covers is therefore small, and cannot
become large.

Within the modelled components:

* queries: results precomputed for a sibling of a SERVICE, `disableCaching`,
  results pinned with a name, runtime information;
* updates: the words of the local vocabulary, and blank nodes as objects and graphs (they are
  renamed as subjects are);
* `FlexibleCache::erase`, which only the named result cache uses;
* websockets: the commands `cancel` and `cancel_on_close`;
* scans: compression, payload columns, the cache of decompressed blocks;
* filters: `PrefixRegexExpression`;
* plans: text and spatial search with the substitutes of filters, property paths and
  path search, the variable of GRAPH, joins pushed into UNIONs, sort orders, the counting of
  subgraphs, the rows for GROUP BY, HAVING, ORDER BY and DISTINCT, the branch of `visitBind` that
  pushes a BIND into the scan of a materialized view which has the column of its expression
  (`QueryPlanner.cpp:3195` to 3210), and three checks that cannot fail for groups of the
  modelled sizes: that only the plans of a BIND, OPTIONAL or MINUS bring numbers of
  filters with them as seeds (lines 809 to 814), and the limits
  of 64 elements (571, 787, 1785). What a tree returns (`JoinSolutions`, `LeftJoinSolutions`,
  `MinusSolutions`, `ExtendSolutions`, `FilterSolutions`) is the meaning of the operation in
  SPARQL, not a translation of its code, which is the subject of `JoinAlgorithms` and
  `BlockZipperJoin`;
* paths: the variant with hash maps (`TransitivePathHashMap`), which differs in
  how successors are found;
* builds: the text index, the external sorter, the second vocabulary pass of the
  graph column (treated as the other columns are);
* rebuild: writing the files and exchanging the index of the server.

## 7. Plan

1. **Named result cache**, composed with snapshots.
2. **Websocket commands**, composed with `CancellationHandle`.
3. **Memory limit**: allocation that evicts from the query cache.
4. **Proofs of algorithms**: those that can be written as recursive functions instead of
   recursive operators (the zipper join without UNDEF, the creation of patterns), by
   induction over sets of numbers as in `IndexProofs`.
