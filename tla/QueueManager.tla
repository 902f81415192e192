---------------------------- MODULE QueueManager -----------------------------
(***************************************************************************)
(* The users of the thread-safe queues: queueManager with several producer *)
(* threads, over the plain or the OrderedThreadSafeQueue, and the single   *)
(* producer of runStreamAsync.  One consumer pops from the queue and       *)
(* destroys the generator when it has seen the end or an exception, or     *)
(* earlier.                                                                *)
(*                                                                         *)
(* The OrderedThreadSafeQueue has a mutex and a condition variable of its  *)
(* own.  Its push holds that mutex while it blocks in the inner queue.     *)
(***************************************************************************)
EXTENDS ThreadSafeQueue

CONSTANTS
    Producer,   \* the producer threads
    Consumer,   \* the thread that owns the generator
    NoThread,   \* none of them
    NumItems,   \* the number of values that there are to produce
    Kinds       \* the kinds of generators: "ordered", "plain", "stream"

ASSUME ManagerAssumption ==
    /\ IsFiniteSet(Producer) /\ Producer /= {}
    /\ Consumer \notin Producer
    /\ NoThread \notin Producer \cup {Consumer}
    /\ NumItems \in Nat
    /\ Kinds \subseteq {"ordered", "plain", "stream"}

Thread == Producer \cup {Consumer}

VARIABLES
    kind,        \* the kind of generator
    nextIndex,   \* nextIndex_ of the ordered queue
    orderFinish, \* finish_ of the ordered queue
    mutex,       \* who holds the mutex_ of the ordered queue
    cvWait,      \* the threads that wait for its cv_
    next,        \* the next value to produce
    index,       \* the value, or its index, that a producer has produced
    numThreads,  \* numUnfinishedThreads_
    pc,          \* where each thread is
    ret,         \* where it continues after the call it is executing
    popped,      \* history: the values the consumer has popped
    failed,      \* history: the producers that threw
    outcome      \* history: how the consumer's iteration ended

orderVars == <<nextIndex, orderFinish, mutex, cvWait>>
historyVars == <<popped, failed, outcome>>
vars == <<queueVars, orderVars, kind, next, index, numThreads, pc, ret,
          historyVars>>

\* A stream has one producer thread, the managed queues have all of them.
Init ==
    /\ QueueInit
    /\ kind \in Kinds
    /\ nextIndex = 0 /\ orderFinish = FALSE /\ mutex = NoThread /\ cvWait = {}
    /\ next = 0
    /\ index = [p \in Producer |-> 0]
    /\ \E P \in IF kind = "stream" THEN {{p} : p \in Producer} ELSE {Producer} :
          /\ numThreads = Cardinality(P)
          /\ pc = [t \in Thread |-> IF t = Consumer THEN "pop"
                                    ELSE IF t \in P THEN "produce" ELSE "ended"]
    /\ ret = [t \in Thread |-> "none"]
    /\ popped = <<>> /\ failed = {} /\ outcome = "none"

ordered == kind = "ordered"

Awake(t) == t \notin pushWait \cup popWait \cup cvWait

At(t, label) == pc[t] = label /\ Awake(t)

Goto(t, label) == pc' = [pc EXCEPT ![t] = label]

\* The end of the task of a producer thread: the thread of a stream finishes
\* the queue, the others are counted.
AfterLoop == IF kind = "stream" THEN "finish" ELSE "decrement"

\* A refused push ends the loop; the thread of a stream returns at once.
AfterRefusal == IF kind = "stream" THEN "ended" ELSE "decrement"

-----------------------------------------------------------------------------
\* The producer function: it hands out the values one after the other, and may
\* throw before or after it has taken one.
Produce(p) ==
    /\ At(p, "produce") /\ next < NumItems
    /\ next' = next + 1
    /\ index' = [index EXCEPT ![p] = next]
    /\ Goto(p, IF ordered THEN "lock" ELSE "push")
    /\ UNCHANGED <<queueVars, orderVars, kind, numThreads, ret, historyVars>>

ProducerThrows(p) ==
    /\ At(p, "produce")
    /\ next' \in {next, next + 1} /\ next' <= NumItems
    /\ failed' = failed \cup {p}
    /\ Goto(p, "exception")
    /\ ret' = [ret EXCEPT ![p] = AfterLoop]
    /\ UNCHANGED <<queueVars, orderVars, kind, index, numThreads, popped, outcome>>

ProducerEnds(p) ==
    /\ At(p, "produce") /\ next = NumItems
    /\ Goto(p, AfterLoop)
    /\ UNCHANGED <<queueVars, orderVars, kind, next, index, numThreads, ret,
                   historyVars>>

\* OrderedThreadSafeQueue::push up to the inner push: wait for the turn, or
\* give up, or take the turn and keep the mutex.
WaitForTurn(p) ==
    /\ At(p, "lock") /\ mutex = NoThread
    /\ index[p] /= nextIndex /\ ~orderFinish
    /\ cvWait' = cvWait \cup {p}
    /\ UNCHANGED <<queueVars, nextIndex, orderFinish, mutex, kind, next, index,
                   numThreads, pc, ret, historyVars>>

GiveUpTurn(p) ==
    /\ At(p, "lock") /\ mutex = NoThread /\ orderFinish
    /\ Goto(p, AfterRefusal)
    /\ UNCHANGED <<queueVars, orderVars, kind, next, index, numThreads, ret,
                   historyVars>>

\* Mutant: a producer pushes without waiting for its turn.
TakeTurn_AnyTime(p) ==
    /\ At(p, "lock") /\ mutex = NoThread
    /\ ~orderFinish
    /\ nextIndex' = nextIndex + 1
    /\ mutex' = p
    /\ Goto(p, "push")
    /\ UNCHANGED <<queueVars, orderFinish, cvWait, kind, next, index,
                   numThreads, ret, historyVars>>

TakeTurn(p) ==
    /\ At(p, "lock") /\ mutex = NoThread
    /\ index[p] = nextIndex /\ ~orderFinish
    /\ nextIndex' = nextIndex + 1
    /\ mutex' = p
    /\ Goto(p, "push")
    /\ UNCHANGED <<queueVars, orderFinish, cvWait, kind, next, index,
                   numThreads, ret, historyVars>>

\* The push of the ThreadSafeQueue.
PushBlocks(p) ==
    /\ At(p, "push") /\ PushWaits(p)
    /\ UNCHANGED <<orderVars, kind, next, index, numThreads, pc, ret, historyVars>>

PushFails(p) ==
    /\ At(p, "push") /\ PushRefused
    /\ Goto(p, IF ordered THEN "unlock" ELSE AfterRefusal)
    /\ ret' = [ret EXCEPT ![p] = AfterRefusal]
    /\ UNCHANGED <<orderVars, kind, next, index, numThreads, historyVars>>

Push(p) ==
    /\ At(p, "push") /\ PushStores(index[p])
    /\ Goto(p, "notifyPop")
    /\ ret' = [ret EXCEPT ![p] = "produce"]
    /\ UNCHANGED <<orderVars, kind, next, index, numThreads, historyVars>>

NotifyAfterPush(p) ==
    /\ At(p, "notifyPop") /\ NotifyPop
    /\ Goto(p, IF ordered THEN "unlock" ELSE ret[p])
    /\ UNCHANGED <<orderVars, kind, next, index, numThreads, ret, historyVars>>

\* The end of OrderedThreadSafeQueue::push.
Unlock(p) ==
    /\ At(p, "unlock")
    /\ mutex' = NoThread
    /\ Goto(p, "notifyTurn")
    /\ UNCHANGED <<queueVars, nextIndex, orderFinish, cvWait, kind, next, index,
                   numThreads, ret, historyVars>>

NotifyTurn(t) ==
    /\ At(t, "notifyTurn")
    /\ cvWait' = {}
    /\ Goto(t, ret[t])
    /\ UNCHANGED <<queueVars, nextIndex, orderFinish, mutex, kind, next, index,
                   numThreads, ret, historyVars>>

\* pushException, which then continues like finish.
PushException(p) ==
    /\ At(p, "exception")
    /\ IF pushedException
       THEN /\ UNCHANGED queueVars
            /\ Goto(p, IF ordered THEN "orderFinish" ELSE ret[p])
       ELSE /\ StoreException
            /\ Goto(p, "notifyBoth")
    /\ UNCHANGED <<orderVars, kind, next, index, numThreads, ret, historyVars>>

\* finish: first the inner queue, then the order.  A producer calls it at the
\* end of its task, the consumer in the destructor of the generator and, when
\* the threads have been joined, in the destructor of the queue.
Finish(t) ==
    /\ pc[t] \in {"finish", "destroyQueue"}
    /\ SetFinish
    /\ Goto(t, "notifyBoth")
    /\ ret' = [ret EXCEPT ![t] = IF t /= Consumer THEN "ended"
                                 ELSE IF pc[t] = "finish" THEN "join"
                                 ELSE "destroyed"]
    /\ UNCHANGED <<orderVars, kind, next, index, numThreads, historyVars>>

NotifyFinish(t) ==
    /\ At(t, "notifyBoth") /\ NotifyBoth
    /\ Goto(t, IF ordered THEN "orderFinish" ELSE ret[t])
    /\ UNCHANGED <<orderVars, kind, next, index, numThreads, ret, historyVars>>

FinishOrder(t) ==
    /\ At(t, "orderFinish") /\ mutex = NoThread
    /\ orderFinish' = TRUE
    /\ Goto(t, "notifyTurn")
    /\ UNCHANGED <<queueVars, nextIndex, mutex, cvWait, kind, next, index,
                   numThreads, ret, historyVars>>

\* The end of makeQueueTask: the last thread finishes the queue.
Decrement(p) ==
    /\ At(p, "decrement")
    /\ numThreads' = numThreads - 1
    /\ Goto(p, "check")
    /\ UNCHANGED <<queueVars, orderVars, kind, next, index, ret, historyVars>>

\* Mutant: the last but one thread finishes the queue.
FinishIfLast_OffByOne(p) ==
    /\ At(p, "check")
    /\ Goto(p, IF numThreads <= 1 THEN "finish" ELSE "ended")
    /\ UNCHANGED <<queueVars, orderVars, kind, next, index, numThreads, ret,
                   historyVars>>

FinishIfLast(p) ==
    /\ At(p, "check")
    /\ Goto(p, IF numThreads <= 0 THEN "finish" ELSE "ended")
    /\ UNCHANGED <<queueVars, orderVars, kind, next, index, numThreads, ret,
                   historyVars>>

-----------------------------------------------------------------------------
\* The consumer pops until it has seen the end or an exception, or stops.
PopBlocks ==
    /\ At(Consumer, "pop") /\ PopWaits(Consumer)
    /\ UNCHANGED <<orderVars, kind, next, index, numThreads, pc, ret, historyVars>>

Pop ==
    /\ At(Consumer, "pop") /\ PopTakes
    /\ popped' = Append(popped, Head(queue))
    /\ Goto(Consumer, "notifyPush")
    /\ UNCHANGED <<orderVars, kind, next, index, numThreads, ret, failed, outcome>>

NotifyAfterPop ==
    /\ At(Consumer, "notifyPush") /\ NotifyPush
    /\ Goto(Consumer, "pop")
    /\ UNCHANGED <<orderVars, kind, next, index, numThreads, ret, historyVars>>

LeaveLoop(how) ==
    /\ outcome' = how
    /\ Goto(Consumer, "finish")
    /\ UNCHANGED <<orderVars, kind, next, index, numThreads, ret, popped, failed>>

PopRethrows == At(Consumer, "pop") /\ PopThrows /\ LeaveLoop("exception")

PopReturnsEnd == At(Consumer, "pop") /\ PopEnds /\ LeaveLoop("end")

Stop == At(Consumer, "pop") /\ UNCHANGED queueVars /\ LeaveLoop("stopped")

\* The destructor of the generator joins the threads before it destroys the
\* queue.
Join ==
    /\ pc[Consumer] = "join"
    /\ \A p \in Producer : pc[p] = "ended"
    /\ Goto(Consumer, "destroyQueue")
    /\ UNCHANGED <<queueVars, orderVars, kind, next, index, numThreads, ret,
                   historyVars>>

-----------------------------------------------------------------------------
ProducerStep(p) ==
    \/ Produce(p) \/ ProducerThrows(p) \/ ProducerEnds(p)
    \/ WaitForTurn(p) \/ GiveUpTurn(p) \/ TakeTurn(p)
    \/ PushBlocks(p) \/ PushFails(p) \/ Push(p) \/ NotifyAfterPush(p)
    \/ Unlock(p) \/ PushException(p) \/ Decrement(p) \/ FinishIfLast(p)

FinishStep(t) ==
    Finish(t) \/ NotifyFinish(t) \/ FinishOrder(t) \/ NotifyTurn(t)

ConsumerStep ==
    \/ PopBlocks \/ Pop \/ NotifyAfterPop \/ PopRethrows \/ PopReturnsEnd
    \/ Join

\* The generator has been destroyed: nothing happens any more.
Destroyed == pc[Consumer] = "destroyed" /\ UNCHANGED vars

Next ==
    \/ \E p \in Producer : ProducerStep(p)
    \/ \E t \in Thread : FinishStep(t)
    \/ ConsumerStep
    \/ Stop
    \/ Destroyed

Spec == Init /\ [][Next]_vars

\* The operating system runs each thread that is not blocked, and a consumer
\* goes on until it destroys the generator.
FairSpec ==
    /\ Spec
    /\ \A p \in Producer : WF_vars(ProducerStep(p) \/ FinishStep(p))
    /\ WF_vars(ConsumerStep \/ FinishStep(Consumer))

-----------------------------------------------------------------------------
Labels == {"produce", "lock", "push", "notifyPop", "unlock", "notifyTurn",
           "exception", "finish", "notifyBoth", "orderFinish", "decrement",
           "check", "ended", "pop", "notifyPush", "join", "destroyQueue",
           "destroyed"}

\* The types of the variables, and the capacity of the queue.
TypeOK ==
    /\ queue \in Seq(Nat) /\ Len(queue) <= MaxSize
    /\ finish \in BOOLEAN /\ pushedException \in BOOLEAN
    /\ pushWait \in SUBSET Producer /\ popWait \in SUBSET {Consumer}
    /\ kind \in {"ordered", "plain", "stream"}
    /\ nextIndex \in Nat /\ orderFinish \in BOOLEAN
    /\ mutex \in Producer \cup {NoThread} /\ cvWait \in SUBSET Producer
    /\ next \in 0 .. NumItems
    /\ index \in [Producer -> Nat]
    /\ numThreads \in Int
    /\ pc \in [Thread -> Labels]
    /\ ret \in [Thread -> Labels \cup {"none"}]
    /\ popped \in Seq(Nat)
    /\ failed \in SUBSET Producer
    /\ outcome \in {"none", "end", "exception", "stopped"}

\* The ordered queue yields the values in ascending consecutive order of their
\* indices, although several threads produce them (push and pop of the
\* OrderedThreadSafeQueue), and so does a stream; the plain queue yields no
\* value twice.
YieldsInOrder ==
    \A i \in 1 .. Len(popped) :
        IF kind = "plain" THEN \A j \in 1 .. (i - 1) : popped[j] /= popped[i]
                          ELSE popped[i] = i - 1

\* A consumer that pop tells of the end has popped all the values, and no
\* producer has failed: neither a thread that ends while others are still
\* pushing nor an exception goes unnoticed (makeQueueTask).
EndMeansComplete ==
    outcome = "end" =>
        /\ failed = {}
        /\ {popped[i] : i \in 1 .. Len(popped)} = 0 .. (NumItems - 1)

\* The generator can always be destroyed: wherever the producers are blocked
\* when the consumer stops or one of them fails, they all end and are joined.
GeneratorDestroyed == <>(pc[Consumer] = "destroyed")
=============================================================================
