--------------------------- MODULE ThreadSafeQueue ---------------------------
(***************************************************************************)
(* ThreadSafeQueue of util/ThreadSafeQueue.h: a bounded queue with a mutex *)
(* and two condition variables.  The mutex is never held while a thread    *)
(* blocks, so that each critical section is one step; the notifications    *)
(* follow after the unlock, as steps of their own.  A thread that a        *)
(* notification wakes evaluates its predicate again, under the lock.       *)
(*                                                                         *)
(* The operators below are the critical sections and the notifications;    *)
(* the modules that extend this one say which thread performs them when.   *)
(***************************************************************************)
EXTENDS Integers, Sequences, FiniteSets

CONSTANT MaxSize   \* maxSize_

ASSUME MaxSizeAssumption == MaxSize \in Nat \ {0}

VARIABLES
    queue,           \* queue_
    finish,          \* finish_
    pushedException, \* whether pushedException_ is set
    pushWait,        \* the threads that wait in push, for popNotification_
    popWait          \* the threads that wait in pop, for pushNotification_

queueVars == <<queue, finish, pushedException, pushWait, popWait>>

QueueInit ==
    /\ queue = <<>>
    /\ finish = FALSE
    /\ pushedException = FALSE
    /\ pushWait = {}
    /\ popWait = {}

-----------------------------------------------------------------------------
\* push: wait for a free place, give up, or store the value.
PushWaits(t) ==
    /\ Len(queue) >= MaxSize /\ ~finish
    /\ pushWait' = pushWait \cup {t}
    /\ UNCHANGED <<queue, finish, pushedException, popWait>>

PushRefused ==
    /\ finish
    /\ UNCHANGED queueVars

PushStores(value) ==
    /\ Len(queue) < MaxSize /\ ~finish
    /\ queue' = Append(queue, value)
    /\ UNCHANGED <<finish, pushedException, pushWait, popWait>>

\* pop: wait for an element, rethrow the exception, see the end, or take the
\* first element.
PopWaits(t) ==
    /\ queue = <<>> /\ ~finish /\ ~pushedException
    /\ popWait' = popWait \cup {t}
    /\ UNCHANGED <<queue, finish, pushedException, pushWait>>

PopThrows ==
    /\ pushedException
    /\ UNCHANGED queueVars

\* Mutant: pop sees the end before the queue has been drained.
PopEnds_Early ==
    /\ ~pushedException /\ finish
    /\ UNCHANGED queueVars

PopEnds ==
    /\ ~pushedException /\ finish /\ queue = <<>>
    /\ UNCHANGED queueVars

PopTakes ==
    /\ ~pushedException /\ queue /= <<>>
    /\ queue' = Tail(queue)
    /\ UNCHANGED <<finish, pushedException, pushWait, popWait>>

\* pushException when it is the first one; a second one changes nothing.
StoreException ==
    /\ pushedException' = TRUE
    /\ finish' = TRUE
    /\ UNCHANGED <<queue, pushWait, popWait>>

SetFinish ==
    /\ finish' = TRUE
    /\ UNCHANGED <<queue, pushedException, pushWait, popWait>>

-----------------------------------------------------------------------------
\* notify_one wakes one of the waiting threads, if there is one.
WakeOne(waiting, woken) ==
    \/ waiting = {} /\ woken = {}
    \/ \E t \in waiting : woken = waiting \ {t}

\* pushNotification_.notify_one() at the end of push.
NotifyPop ==
    /\ WakeOne(popWait, popWait')
    /\ UNCHANGED <<queue, finish, pushedException, pushWait>>

\* popNotification_.notify_one() at the end of pop.
NotifyPush ==
    /\ WakeOne(pushWait, pushWait')
    /\ UNCHANGED <<queue, finish, pushedException, popWait>>

\* Mutant: finish notifies the threads in pop only.
NotifyBoth_PopOnly ==
    /\ popWait' = {}
    /\ UNCHANGED <<queue, finish, pushedException, pushWait>>

\* Both notify_all() at the end of finish and pushException.
NotifyBoth ==
    /\ pushWait' = {} /\ popWait' = {}
    /\ UNCHANGED <<queue, finish, pushedException>>
=============================================================================
