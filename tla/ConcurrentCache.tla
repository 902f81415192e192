--------------------------- MODULE ConcurrentCache ---------------------------
(***************************************************************************)
(* ConcurrentCache.h and its caller Operation::getResult: the query cache  *)
(* shared by the threads that evaluate queries.  A key identifies a query  *)
(* tree (and the version of the located triples).  computeOnce returns the *)
(* cached result of a key, or waits for the thread that is computing it,   *)
(* or computes it; a computation in turn obtains the results of children.  *)
(* A result may be lazy: then it is stored only when its consumer has read *)
(* all of it, and the threads that waited for it compute it themselves.    *)
(*                                                                         *)
(* A thread has at most one call for each key and one for the request      *)
(* itself, TopLevel, which asks for the root and consumes its result.      *)
(***************************************************************************)
EXTENDS FlexibleCache

CONSTANTS
    Thread,       \* the threads that evaluate queries
    NoThread,     \* none of them
    TopLevel,     \* the request, which is no key
    Child,        \* the children of each key's tree
    Uncacheable,  \* the keys whose operation has canResultBeCached() = false
    Requests,     \* the kinds of requests
    Commands      \* whether commands change the cache meanwhile

Node == Key \cup {TopLevel}
Call == Thread \X Node

ASSUME ThreadAssumption ==
    /\ NoThread \notin Thread
    /\ TopLevel \notin Key
    /\ Uncacheable \subseteq Key
    /\ Requests \subseteq {"plain", "pin", "pinSubtrees", "read"}
    /\ Commands \in BOOLEAN

\* A tree is larger than its children, so that no call contains one with the
\* same key.
ASSUME TreeAssumption ==
    /\ Child \in [Key -> SUBSET Key]
    /\ \E rank \in [Key -> 0 .. Cardinality(Key)] :
          \A k \in Key : \A c \in Child[k] : rank[c] < rank[k]

VARIABLES
    inProgress, \* _inProgress: who computes a key, and whether to pin it
    mode,       \* the kind of request a thread is evaluating
    at,         \* the innermost call of a thread
    pc,         \* where each call is
    up,         \* the call from which a call was made
    todo,       \* the children a call has not asked for
    lazy,       \* the keys whose lazy results a call is consuming
    waits,      \* the ResultInProgress a call waits for: owner and status
    exc         \* history: what raised the exception a thread handles

threadVars == <<mode, at, pc, up, todo, lazy, waits, exc>>
vars == <<cache, limits, inProgress, mode, at, pc, up, todo, lazy, waits, exc>>

NotInProgress == [owner |-> NoThread, pin |-> FALSE]
NoWait == [owner |-> NoThread, status |-> "none"]

Init ==
    /\ CacheInit
    /\ inProgress = [k \in Key |-> NotInProgress]
    /\ mode = [t \in Thread |-> "idle"]
    /\ at = [t \in Thread |-> TopLevel]
    /\ pc = [c \in Call |-> "none"]
    /\ up = [c \in Call |-> TopLevel]
    /\ todo = [c \in Call |-> {}]
    /\ lazy = [c \in Call |-> {}]
    /\ waits = [c \in Call |-> NoWait]
    /\ exc = [t \in Thread |-> "none"]

-----------------------------------------------------------------------------
\* The call a thread is executing.
Now(t) == <<t, at[t]>>

\* The calls that run a computeFunction, and the request itself.
Running == {"request", "computing", "fallback", "uncached"}

\* getResult pins the root or all results, and computes those not lazily.
Pinned(t, k) ==
    \/ mode[t] = "pinSubtrees"
    \/ mode[t] = "pin" /\ up[<<t, k>>] = TopLevel

Goto(t, label) == pc' = [pc EXCEPT ![Now(t)] = label]

\* computeOnceImpl returns to its caller, which no longer needs the key and
\* may have to consume lazy results.
Return(t, lazyResults) ==
    LET caller == <<t, up[Now(t)]>>
    IN  /\ at' = [at EXCEPT ![t] = up[Now(t)]]
        /\ pc' = [pc EXCEPT ![Now(t)] = "none"]
        /\ todo' = [todo EXCEPT ![Now(t)] = {}, ![caller] = @ \ {at[t]}]
        /\ lazy' = [lazy EXCEPT ![Now(t)] = {}, ![caller] = @ \cup lazyResults]
        /\ up' = [up EXCEPT ![Now(t)] = TopLevel]
        /\ UNCHANGED <<mode, exc>>

\* An exception in the call that is executing: a computing thread has to tell
\* the others, in the catch clause of computeOnceImpl.
Handler(label) ==
    IF label \in {"computing", "store"} THEN "failing" ELSE "throwing"

Raise(t, cause) ==
    /\ Goto(t, Handler(pc[Now(t)]))
    /\ lazy' = [lazy EXCEPT ![Now(t)] = {}]
    /\ exc' = [exc EXCEPT ![t] = cause]
    /\ UNCHANGED <<mode, at, up, todo, waits>>

\* finish or abort: the threads that wait for the computation learn of it.
Notify(t, status) ==
    waits' = [c \in Call |->
                IF c[2] = at[t] /\ waits[c] = [owner |-> t, status |-> "pending"]
                  THEN [waits[c] EXCEPT !.status = status]
                  ELSE waits[c]]

-----------------------------------------------------------------------------
(***************************************************************************)
(* Requests.                                                               *)
(***************************************************************************)
BeginQuery(t) ==
    /\ mode[t] = "idle"
    /\ \E root \in Key, m \in Requests \ {"read"} :
         /\ mode' = [mode EXCEPT ![t] = m]
         /\ todo' = [todo EXCEPT ![Now(t)] = {root}]
    /\ Goto(t, "request")
    /\ UNCHANGED <<cacheVars, inProgress, at, up, lazy, waits, exc>>

\* getIfContained, and computeOnce with onlyReadFromCache: nothing is computed.
ReadFromCache(t) ==
    /\ "read" \in Requests
    /\ mode[t] = "idle"
    /\ \E k \in Key, pin \in BOOLEAN :
         cache' = Access(IF pin THEN MakePinned(cache, k) ELSE cache, k)
    /\ UNCHANGED <<limits, inProgress, threadVars>>

\* The response has been sent, or the error has been reported.
EndQuery(t) ==
    /\ at[t] = TopLevel
    /\ \/ pc[Now(t)] = "request" /\ todo[Now(t)] = {}
       \/ pc[Now(t)] = "throwing"
    /\ mode' = [mode EXCEPT ![t] = "idle"]
    /\ Goto(t, "none")
    /\ todo' = [todo EXCEPT ![Now(t)] = {}]
    /\ lazy' = [lazy EXCEPT ![Now(t)] = {}]
    /\ exc' = [exc EXCEPT ![t] = "none"]
    /\ UNCHANGED <<cacheVars, inProgress, at, up, waits>>

-----------------------------------------------------------------------------
(***************************************************************************)
(* Computations.                                                           *)
(***************************************************************************)
CallChild(t) ==
    /\ pc[Now(t)] \in Running
    /\ \E k \in todo[Now(t)] :
         /\ at' = [at EXCEPT ![t] = k]
         /\ pc' = [pc EXCEPT ![<<t, k>>] = "lookup"]
         /\ up' = [up EXCEPT ![<<t, k>>] = at[t]]
    /\ UNCHANGED <<cacheVars, inProgress, mode, todo, lazy, waits, exc>>

\* A lazy result has been read to its end: the callback of
\* runComputationAndPrepareForCache stores it, unless storing it throws.
Consume(t) ==
    /\ pc[Now(t)] \in Running
    /\ \E k \in lazy[Now(t)] :
         \/ /\ ~TryInsertThrows(cache, limits, k, FALSE)
            /\ cache' = TryInsert(cache, limits, k, FALSE)
            /\ lazy' = [lazy EXCEPT ![Now(t)] = @ \ ({k} \cup Child[k])]
            /\ UNCHANGED <<mode, at, pc, up, todo, waits, exc>>
         \/ /\ TryInsertThrows(cache, limits, k, FALSE)
            /\ Raise(t, "cache")
            /\ UNCHANGED cache
    /\ UNCHANGED <<limits, inProgress>>

\* The computation, or the consumption of a lazy result, throws.
Fail(t) ==
    /\ pc[Now(t)] \in Running
    /\ Raise(t, "compute")
    /\ UNCHANGED <<cacheVars, inProgress>>

\* The computation ends with a fully materialized result, which is suitable
\* for the cache.
ReturnMaterialized(t) ==
    /\ \/ /\ pc[Now(t)] = "computing"
          /\ Goto(t, "store")
          /\ UNCHANGED <<mode, at, up, todo, lazy, exc>>
       \/ /\ pc[Now(t)] = "fallback"
          /\ Goto(t, "insert")
          /\ UNCHANGED <<mode, at, up, todo, lazy, exc>>
       \/ /\ pc[Now(t)] = "uncached"
          /\ Return(t, {})
    /\ UNCHANGED <<cacheVars, inProgress, waits>>

\* The computation ends with a lazy result, which is not.
ReturnLazy(t) ==
    /\ ~Pinned(t, at[t])
    /\ \/ /\ pc[Now(t)] = "computing"
          /\ Goto(t, "discard")
          /\ UNCHANGED <<mode, at, up, todo, lazy, exc>>
       \/ /\ pc[Now(t)] = "fallback"
          /\ Return(t, lazy[Now(t)] \cup {at[t]})
       \/ /\ pc[Now(t)] = "uncached"
          /\ Return(t, lazy[Now(t)])
    /\ UNCHANGED <<cacheVars, inProgress, waits>>

-----------------------------------------------------------------------------
(***************************************************************************)
(* computeOnceImpl: the first critical section.                            *)
(***************************************************************************)
Hit(t) ==
    LET k == at[t]
    IN  /\ Present(cache, k)
        /\ cache' = Access(IF Pinned(t, k) /\ k \notin Uncacheable
                             THEN MakePinned(cache, k) ELSE cache, k)
        /\ Return(t, {})
        /\ UNCHANGED <<inProgress, waits>>

\* Mutant: a waiting thread does not ask for the result to be pinned.
Join_NoPin(t) ==
    LET k == at[t]
    IN  /\ ~Present(cache, k)
        /\ k \notin Uncacheable
        /\ inProgress[k].owner # NoThread
        /\ waits' = [waits EXCEPT ![Now(t)] =
                       [owner |-> inProgress[k].owner, status |-> "pending"]]
        /\ Goto(t, "waiting")
        /\ UNCHANGED <<inProgress, cache, mode, at, up, todo, lazy, exc>>

Join(t) ==
    LET k == at[t]
    IN  /\ ~Present(cache, k)
        /\ k \notin Uncacheable
        /\ inProgress[k].owner # NoThread
        /\ inProgress' = [inProgress EXCEPT ![k].pin = @ \/ Pinned(t, k)]
        /\ waits' = [waits EXCEPT ![Now(t)] =
                       [owner |-> inProgress[k].owner, status |-> "pending"]]
        /\ Goto(t, "waiting")
        /\ UNCHANGED <<cache, mode, at, up, todo, lazy, exc>>

Own(t) ==
    LET k == at[t]
    IN  /\ ~Present(cache, k)
        /\ k \notin Uncacheable
        /\ inProgress[k].owner = NoThread
        /\ inProgress' =
             [inProgress EXCEPT ![k] = [owner |-> t, pin |-> Pinned(t, k)]]
        /\ todo' = [todo EXCEPT ![Now(t)] = Child[k]]
        /\ Goto(t, "computing")
        /\ UNCHANGED <<cache, mode, at, up, lazy, waits, exc>>

\* computeButDontStore.
DontStore(t) ==
    LET k == at[t]
    IN  /\ ~Present(cache, k)
        /\ k \in Uncacheable
        /\ todo' = [todo EXCEPT ![Now(t)] = Child[k]]
        /\ Goto(t, "uncached")
        /\ UNCHANGED <<inProgress, cache, mode, at, up, lazy, waits, exc>>

Lookup(t) ==
    /\ pc[Now(t)] = "lookup"
    /\ Hit(t) \/ Join(t) \/ Own(t) \/ DontStore(t)
    /\ UNCHANGED limits

-----------------------------------------------------------------------------
(***************************************************************************)
(* The end of a computation: the entry in _inProgress is erased by key,    *)
(* and in a step of its own the waiting threads are notified.              *)
(***************************************************************************)
Erase(k) == inProgress' = [inProgress EXCEPT ![k] = NotInProgress]

\* moveFromInProgressToCache.
Store(t) ==
    /\ pc[Now(t)] = "store"
    /\ \/ /\ inProgress[at[t]].pin
          /\ ~InsertPinnedThrows(cache, limits, at[t])
          /\ cache' = InsertPinned(cache, limits, at[t])
          /\ Erase(at[t])
          /\ Goto(t, "finish")
          /\ UNCHANGED <<mode, at, up, todo, lazy, waits, exc>>
       \/ /\ ~inProgress[at[t]].pin
          /\ ~InsertThrows(cache, limits, at[t])
          /\ cache' = Insert(cache, limits, at[t])
          /\ Erase(at[t])
          /\ Goto(t, "finish")
          /\ UNCHANGED <<mode, at, up, todo, lazy, waits, exc>>
       \/ /\ IF inProgress[at[t]].pin
               THEN InsertPinnedThrows(cache, limits, at[t])
               ELSE InsertThrows(cache, limits, at[t])
          /\ Raise(t, "cache")
          /\ UNCHANGED <<cache, inProgress>>
    /\ UNCHANGED limits

Finish(t) ==
    /\ pc[Now(t)] = "finish"
    /\ Notify(t, "finished")
    /\ Return(t, {})
    /\ UNCHANGED <<cacheVars, inProgress>>

Discard(t) ==
    /\ pc[Now(t)] = "discard"
    /\ Erase(at[t])
    /\ Goto(t, "finishEmpty")
    /\ UNCHANGED <<cacheVars, mode, at, up, todo, lazy, waits, exc>>

\* Mutant: a thread whose result is lazy returns without finish(nullptr).
FinishEmpty_Skip(t) ==
    /\ pc[Now(t)] = "finishEmpty"
    /\ Return(t, lazy[Now(t)] \cup {at[t]})
    /\ UNCHANGED <<cacheVars, inProgress, waits>>

FinishEmpty(t) ==
    /\ pc[Now(t)] = "finishEmpty"
    /\ Notify(t, "empty")
    /\ Return(t, lazy[Now(t)] \cup {at[t]})
    /\ UNCHANGED <<cacheVars, inProgress>>

\* Mutant: the catch clause leaves the entry in _inProgress.
Failing_NoErase(t) ==
    /\ pc[Now(t)] = "failing"
    /\ Goto(t, "abort")
    /\ UNCHANGED <<cacheVars, inProgress, mode, at, up, todo, lazy, waits, exc>>

Failing(t) ==
    /\ pc[Now(t)] = "failing"
    /\ Erase(at[t])
    /\ Goto(t, "abort")
    /\ UNCHANGED <<cacheVars, mode, at, up, todo, lazy, waits, exc>>

\* Mutant: the waiting threads are not notified of the failure.
Abort_NoNotify(t) ==
    /\ pc[Now(t)] = "abort"
    /\ Goto(t, "throwing")
    /\ UNCHANGED <<cacheVars, inProgress, mode, at, up, todo, lazy, waits, exc>>

Abort(t) ==
    /\ pc[Now(t)] = "abort"
    /\ Notify(t, "aborted")
    /\ Goto(t, "throwing")
    /\ UNCHANGED <<cacheVars, inProgress, mode, at, up, todo, lazy, exc>>

\* The exception leaves the call and is raised in the caller.
Unwind(t) ==
    LET caller == <<t, up[Now(t)]>>
    IN  /\ pc[Now(t)] = "throwing"
        /\ at[t] # TopLevel
        /\ at' = [at EXCEPT ![t] = up[Now(t)]]
        /\ pc' = [pc EXCEPT ![Now(t)] = "none", ![caller] = Handler(@)]
        /\ todo' = [todo EXCEPT ![Now(t)] = {}]
        /\ lazy' = [lazy EXCEPT ![Now(t)] = {}, ![caller] = {}]
        /\ up' = [up EXCEPT ![Now(t)] = TopLevel]
        /\ UNCHANGED <<cacheVars, inProgress, mode, waits, exc>>

\* getResult of ResultInProgress returns, throws, or tells the thread to
\* compute the result itself.
Wake(t) ==
    /\ pc[Now(t)] = "waiting"
    /\ waits[Now(t)].status # "pending"
    /\ waits' = [waits EXCEPT ![Now(t)] = NoWait]
    /\ CASE waits[Now(t)].status = "finished" -> Return(t, {})
         [] waits[Now(t)].status = "aborted" ->
              /\ Goto(t, "throwing")
              /\ exc' = [exc EXCEPT ![t] = "waited"]
              /\ UNCHANGED <<mode, at, up, todo, lazy>>
         [] OTHER ->
              /\ Goto(t, "fallback")
              /\ todo' = [todo EXCEPT ![Now(t)] = Child[at[t]]]
              /\ UNCHANGED <<mode, at, up, lazy, exc>>
    /\ UNCHANGED <<cacheVars, inProgress>>

\* tryInsertIfNotPresent after the fallback computation.
InsertFallback(t) ==
    /\ pc[Now(t)] = "insert"
    /\ \/ /\ ~TryInsertThrows(cache, limits, at[t], Pinned(t, at[t]))
          /\ cache' = TryInsert(cache, limits, at[t], Pinned(t, at[t]))
          /\ Return(t, {})
          /\ UNCHANGED waits
       \/ /\ TryInsertThrows(cache, limits, at[t], Pinned(t, at[t]))
          /\ Raise(t, "cache")
          /\ UNCHANGED cache
    /\ UNCHANGED <<limits, inProgress>>

-----------------------------------------------------------------------------
\* The commands and runtime parameters that change the cache.
Command ==
    /\ Commands
    /\ Maintain
    /\ UNCHANGED <<inProgress, threadVars>>

\* What a thread does on its own once it has started a query.
Step(t) ==
    \/ EndQuery(t) \/ CallChild(t) \/ Consume(t) \/ Fail(t)
    \/ ReturnMaterialized(t) \/ ReturnLazy(t) \/ Lookup(t)
    \/ Store(t) \/ Finish(t) \/ Discard(t) \/ FinishEmpty(t)
    \/ Failing(t) \/ Abort(t) \/ Unwind(t) \/ Wake(t) \/ InsertFallback(t)

Next ==
    \/ \E t \in Thread : BeginQuery(t) \/ ReadFromCache(t) \/ Step(t)
    \/ Command

Spec == Init /\ [][Next]_vars

\* The scheduler runs every thread, and every computation ends: it runs on
\* finite tables and checks for the timeout of its query.
FairSpec == Spec /\ \A t \in Thread : WF_vars(Step(t))

-----------------------------------------------------------------------------
PCs == {"none", "request", "lookup", "computing", "fallback", "uncached",
        "store", "finish", "discard", "finishEmpty", "failing", "abort",
        "throwing", "waiting", "insert"}

\* The calls of a thread that computes for others, before and after it has
\* removed the key from _inProgress.
Owning == {"computing", "store", "discard", "failing"}
Announcing == {"finish", "finishEmpty", "abort"}

\* The type of the state of the threads and of _inProgress.
TypeOK ==
    /\ inProgress \in
         [Key -> [owner : Thread \cup {NoThread}, pin : BOOLEAN]]
    /\ mode \in [Thread -> {"idle", "plain", "pin", "pinSubtrees"}]
    /\ at \in [Thread -> Node]
    /\ pc \in [Call -> PCs]
    /\ up \in [Call -> Node]
    /\ todo \in [Call -> SUBSET Key]
    /\ lazy \in [Call -> SUBSET Key]
    /\ waits \in [Call -> [owner : Thread \cup {NoThread},
                           status : {"none", "pending", "finished", "empty",
                                     "aborted"}]]
    /\ exc \in [Thread -> {"none", "compute", "cache", "waited"}]

\* A key is in _inProgress exactly while one thread computes it for everybody,
\* although entries are erased by key whoever made them: no thread erases the
\* entry of another, and no entry is left behind.
InProgressOwned ==
    \A t \in Thread, k \in Key :
        inProgress[k].owner = t <=> pc[<<t, k>>] \in Owning

\* Whoever waits for a result waits for a thread that will announce it, and
\* never for itself: no wake-up is lost.
WaitersHaveOwner ==
    \A w \in Thread, k \in Key :
        pc[<<w, k>>] = "waiting" /\ waits[<<w, k>>].status = "pending" =>
            /\ waits[<<w, k>>].owner \in Thread \ {w}
            /\ pc[<<waits[<<w, k>>].owner, k>>] \in Owning \cup Announcing

\* A computation is announced as failed only if it failed: not because its
\* result could not be stored.  The code does not ensure this: see the
\* observations in the README.
AbortMeansFailure ==
    \A t \in Thread, k \in Key :
        pc[<<t, k>>] = "abort" => exc[t] # "cache"

\* Every query ends: no thread waits forever for a result.
QueriesEnd == \A t \in Thread : mode[t] # "idle" ~> mode[t] = "idle"

-----------------------------------------------------------------------------
(***************************************************************************)
(* Pinning.  A history variable remembers the calls during which a command *)
(* has cleared the whole cache.                                            *)
(***************************************************************************)
VARIABLE cleared

\* The calls that are under way and pin their result.
Pinning == {c \in Thread \X Key : pc[c] # "none" /\ Pinned(c[1], c[2])}

TrackedInit == Init /\ cleared = {}

TrackedNext ==
    /\ Next
    /\ cleared' = IF cache' = EmptyCache /\ UNCHANGED <<inProgress, threadVars>>
                    THEN Pinning ELSE cleared \cap Pinning'

trackedVars == <<vars, cleared>>
TrackedSpec == TrackedInit /\ [][TrackedNext]_trackedVars

\* When a call that pins its result returns without an exception, the result
\* is pinned, also if another thread computed it in computeOnceImpl and did
\* not mean to pin it, unless clear-cache-complete has removed it meanwhile.
PinnedWhenReturned ==
    [][\A t \in Thread : \A k \in Key \ Uncacheable :
          (pc[<<t, k>>] \notin {"none", "throwing"} /\ pc'[<<t, k>>] = "none"
             /\ Pinned(t, k) /\ <<t, k>> \notin cleared)
          => k \in cache'.pinned]_trackedVars
=============================================================================
