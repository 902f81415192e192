-------------------------- MODULE TaskQueueProofs ---------------------------
(***************************************************************************)
(* Proofs about TaskQueue, for any number of workers, pushers, tasks and   *)
(* places in the queue: finish and the destructor wait for the tasks.      *)
(***************************************************************************)
EXTENDS TaskQueue, SequenceTheorems, TLAPS

\* Where a worker holds a task that it has popped and not run to its end.
Busy == {"notifyPush", "callFinish", "finishImpl", "notifyBoth", "join", "run"}

\* Where a thread is inside finish.
InFinish == {"callFinish", "finishImpl", "notifyBoth", "join"}

\* Where a thread can be.
Labels ==
    Busy \cup {"pop", "ended", "idle", "push", "notifyPop", "owning", "finished",
              "wait", "joinAll", "destroyed"}

TypeOK ==
    /\ queue \in Seq(Task)
    /\ pushedException = FALSE
    /\ pc \in [Thread -> Labels]
    /\ \A t \in Pusher : pc[t] \in {"idle", "push", "notifyPop", "ended"}
    /\ \A w \in Worker : pc[w] \in Busy \cup {"pop", "ended"}
    /\ ret \in [Thread -> {"none", "run", "finished", "joinAll"}]
    /\ \A w \in Worker : pc[w] \in InFinish => ret[w] = "run"
    /\ pc[Owner] \in InFinish => ret[Owner] \in {"finished", "joinAll"}
    /\ task \in [Thread -> Task \cup {NoTask}]
    /\ todo \subseteq Task /\ accepted \subseteq Task
    /\ runs \in [Task -> Nat]

\* A task that has not been accepted is at one place, and has not run.
Pending ==
    /\ todo \cap accepted = {}
    /\ \A p \in Pusher : pc[p] = "push" => task[p] \in Task \ (todo \cup accepted)
    /\ \A p, r \in Pusher :
          pc[p] = "push" /\ pc[r] = "push" /\ task[p] = task[r] => p = r
    /\ \A k \in Task \ accepted : runs[k] = 0

\* Neither is an accepted task at two places, and it runs when it leaves the
\* last.
Placed ==
    /\ \A i \in 1 .. Len(queue) : queue[i] \in accepted /\ runs[queue[i]] = 0
    /\ \A i, j \in 1 .. Len(queue) : queue[i] = queue[j] => i = j
    /\ \A w \in Worker : pc[w] \in Busy =>
          /\ task[w] \in accepted /\ runs[task[w]] = 0
          /\ \A i \in 1 .. Len(queue) : queue[i] /= task[w]
    /\ \A w, v \in Worker :
          pc[w] \in Busy /\ pc[v] \in Busy /\ task[w] = task[v] => w = v

\* No accepted task is lost.
NoneLost ==
    \A k \in accepted :
        \/ runs[k] = 1
        \/ \E i \in 1 .. Len(queue) : queue[i] = k
        \/ \E w \in Worker : pc[w] \in Busy /\ task[w] = k

\* A worker ends when the queue is finished and drained.  Once finish is over,
\* no worker works but the one that has called it, if it was one.
Ending ==
    /\ \A w \in Worker : pc[w] = "ended" => finish /\ queue = <<>>
    /\ \A t \in Worker \cup {Owner} : pc[t] \in {"notifyBoth", "join"} => finish
    /\ \A w \in Worker : pc[w] \in InFinish => task[w] \in Finishing
    /\ finishedFinishing =>
          /\ \A w, v \in Worker : pc[w] /= "ended" /\ pc[v] /= "ended" => w = v
          /\ \A w \in Worker : pc[w] \in Busy =>
                (pc[w] = "run" /\ task[w] \in Finishing) \/ Worker = {w}
    /\ pc[Owner] = "destroyed" => \A w \in Worker : pc[w] = "ended"

IInv == TypeOK /\ Pending /\ Placed /\ NoneLost /\ Ending
-----------------------------------------------------------------------------
\* Types and control are kept.
LEMMA StepTypeOK ==
    ASSUME TypeOK, Pending, Placed, [Next]_vars
    PROVE  TypeOK'
  <1> USE TaskAssumption DEF At, Goto, Thread, queueVars, flagVars, taskVars,
           Busy, InFinish, Labels, TypeOK
  <1>1. ASSUME NEW p \in Pusher, CallPush(p)
        PROVE  TypeOK'
    BY <1>1 DEF CallPush
  <1>2. ASSUME NEW p \in Pusher, PushBlocks(p)
        PROVE  TypeOK'
    BY <1>2 DEF PushBlocks, PushWaits
  <1>3. ASSUME NEW p \in Pusher, PushFails(p)
        PROVE  TypeOK'
    BY <1>3 DEF PushFails, PushRefused
  <1>4. ASSUME NEW p \in Pusher, Push(p)
        PROVE  TypeOK'
    <2>1. task[p] \in Task
      BY <1>4 DEF Push, Pending
    <2> QED
      BY <1>4, <2>1 DEF Push, PushStores
  <1>5. ASSUME NEW p \in Pusher, NotifyAfterPush(p)
        PROVE  TypeOK'
    BY <1>5 DEF NotifyAfterPush, NotifyPop
  <1>6. ASSUME NEW p \in Pusher, StopPushing(p)
        PROVE  TypeOK'
    BY <1>6 DEF StopPushing
  <1>7. ASSUME NEW w \in Worker, PopBlocks(w)
        PROVE  TypeOK'
    BY <1>7 DEF PopBlocks, PopWaits
  <1>8. ASSUME NEW w \in Worker, PopReturnsEnd(w)
        PROVE  TypeOK'
    BY <1>8 DEF PopReturnsEnd, PopEnds
  <1>9. ASSUME NEW w \in Worker, Pop(w)
        PROVE  TypeOK'
    BY <1>9 DEF Pop, PopTakes
  <1>10. ASSUME NEW w \in Worker, NotifyAfterPop(w)
        PROVE  TypeOK'
    BY <1>10 DEF NotifyAfterPop, NotifyPush
  <1>11. ASSUME NEW w \in Worker, Run(w)
        PROVE  TypeOK'
    <2>1. task[w] \in Task
      BY <1>11 DEF Run, Placed
    <2>2. runs' \in [Task -> Nat]
      BY <1>11, <2>1 DEF Run
    <2> QED
      BY <1>11, <2>2 DEF Run
  <1>12. ASSUME NEW t \in Worker \cup {Owner}, CallFinish(t)
        PROVE  TypeOK'
    BY <1>12 DEF CallFinish
  <1>13. ASSUME NEW t \in Worker \cup {Owner}, FinishQueue(t)
        PROVE  TypeOK'
    BY <1>13 DEF FinishQueue, SetFinish
  <1>14. ASSUME NEW t \in Worker \cup {Owner}, NotifyFinish(t)
        PROVE  TypeOK'
    BY <1>14 DEF NotifyFinish, NotifyBoth
  <1>15. ASSUME NEW t \in Worker \cup {Owner}, JoinOthers(t)
        PROVE  TypeOK'
    BY <1>15 DEF JoinOthers
  <1>16. ASSUME OwnerFinishes
        PROVE  TypeOK'
    BY <1>16 DEF OwnerFinishes
  <1>17. ASSUME Destroy
        PROVE  TypeOK'
    BY <1>17 DEF Destroy
  <1>18. ASSUME WaitUntilFinished
        PROVE  TypeOK'
    BY <1>18 DEF WaitUntilFinished
  <1>19. ASSUME JoinAll
        PROVE  TypeOK'
    BY <1>19 DEF JoinAll
  <1>20. CASE UNCHANGED vars
    BY <1>20 DEF vars
  <1> QED
    BY <1>1, <1>2, <1>3, <1>4, <1>5, <1>6, <1>7, <1>8, <1>9, <1>10, <1>11,
       <1>12, <1>13, <1>14, <1>15, <1>16, <1>17, <1>18, <1>19, <1>20
       DEF Next, PusherStep, WorkerStep, FinishStep, OwnerStep, Destroyed

\* The tasks that have not been accepted stay apart.
LEMMA StepPending ==
    ASSUME TypeOK, Pending, Placed, [Next]_vars
    PROVE  Pending'
  <1> USE TaskAssumption DEF At, Goto, Thread, queueVars, flagVars, taskVars,
           Busy, InFinish, TypeOK, Pending, Placed
  <1>1. ASSUME NEW p \in Pusher, CallPush(p)
        PROVE  Pending'
    BY <1>1 DEF CallPush
  <1>2. ASSUME NEW p \in Pusher, PushBlocks(p)
        PROVE  Pending'
    BY <1>2 DEF PushBlocks, PushWaits
  <1>3. ASSUME NEW p \in Pusher, PushFails(p)
        PROVE  Pending'
    BY <1>3 DEF PushFails, PushRefused
  <1>4. ASSUME NEW p \in Pusher, Push(p)
        PROVE  Pending'
    BY <1>4 DEF Push, PushStores
  <1>5. ASSUME NEW p \in Pusher, NotifyAfterPush(p)
        PROVE  Pending'
    BY <1>5 DEF NotifyAfterPush, NotifyPop
  <1>6. ASSUME NEW p \in Pusher, StopPushing(p)
        PROVE  Pending'
    BY <1>6 DEF StopPushing
  <1>7. ASSUME NEW w \in Worker, PopBlocks(w)
        PROVE  Pending'
    BY <1>7 DEF PopBlocks, PopWaits
  <1>8. ASSUME NEW w \in Worker, PopReturnsEnd(w)
        PROVE  Pending'
    BY <1>8 DEF PopReturnsEnd, PopEnds
  <1>9. ASSUME NEW w \in Worker, Pop(w)
        PROVE  Pending'
    BY <1>9 DEF Pop, PopTakes
  <1>10. ASSUME NEW w \in Worker, NotifyAfterPop(w)
        PROVE  Pending'
    BY <1>10 DEF NotifyAfterPop, NotifyPush
  <1>11. ASSUME NEW w \in Worker, Run(w)
        PROVE  Pending'
    BY <1>11 DEF Run
  <1>12. ASSUME NEW t \in Worker \cup {Owner}, CallFinish(t)
        PROVE  Pending'
    BY <1>12 DEF CallFinish
  <1>13. ASSUME NEW t \in Worker \cup {Owner}, FinishQueue(t)
        PROVE  Pending'
    BY <1>13 DEF FinishQueue, SetFinish
  <1>14. ASSUME NEW t \in Worker \cup {Owner}, NotifyFinish(t)
        PROVE  Pending'
    BY <1>14 DEF NotifyFinish, NotifyBoth
  <1>15. ASSUME NEW t \in Worker \cup {Owner}, JoinOthers(t)
        PROVE  Pending'
    BY <1>15 DEF JoinOthers
  <1>16. ASSUME OwnerFinishes
        PROVE  Pending'
    BY <1>16 DEF OwnerFinishes
  <1>17. ASSUME Destroy
        PROVE  Pending'
    BY <1>17 DEF Destroy
  <1>18. ASSUME WaitUntilFinished
        PROVE  Pending'
    BY <1>18 DEF WaitUntilFinished
  <1>19. ASSUME JoinAll
        PROVE  Pending'
    BY <1>19 DEF JoinAll
  <1>20. CASE UNCHANGED vars
    BY <1>20 DEF vars
  <1> QED
    BY <1>1, <1>2, <1>3, <1>4, <1>5, <1>6, <1>7, <1>8, <1>9, <1>10, <1>11,
       <1>12, <1>13, <1>14, <1>15, <1>16, <1>17, <1>18, <1>19, <1>20
       DEF Next, PusherStep, WorkerStep, FinishStep, OwnerStep, Destroyed

\* So do the accepted ones.
LEMMA StepPlaced ==
    ASSUME TypeOK, Pending, Placed, [Next]_vars
    PROVE  Placed'
  <1> USE TaskAssumption DEF At, Goto, Thread, queueVars, flagVars, taskVars,
           Busy, InFinish, TypeOK, Pending, Placed
  <1>1. ASSUME NEW p \in Pusher, CallPush(p)
        PROVE  Placed'
    BY <1>1 DEF CallPush
  <1>2. ASSUME NEW p \in Pusher, PushBlocks(p)
        PROVE  Placed'
    BY <1>2 DEF PushBlocks, PushWaits
  <1>3. ASSUME NEW p \in Pusher, PushFails(p)
        PROVE  Placed'
    BY <1>3 DEF PushFails, PushRefused
  <1>4. ASSUME NEW p \in Pusher, Push(p)
        PROVE  Placed'
    BY <1>4 DEF Push, PushStores
  <1>5. ASSUME NEW p \in Pusher, NotifyAfterPush(p)
        PROVE  Placed'
    BY <1>5 DEF NotifyAfterPush, NotifyPop
  <1>6. ASSUME NEW p \in Pusher, StopPushing(p)
        PROVE  Placed'
    BY <1>6 DEF StopPushing
  <1>7. ASSUME NEW w \in Worker, PopBlocks(w)
        PROVE  Placed'
    BY <1>7 DEF PopBlocks, PopWaits
  <1>8. ASSUME NEW w \in Worker, PopReturnsEnd(w)
        PROVE  Placed'
    BY <1>8 DEF PopReturnsEnd, PopEnds
  <1>9. ASSUME NEW w \in Worker, Pop(w)
        PROVE  Placed'
    BY <1>9 DEF Pop, PopTakes
  <1>10. ASSUME NEW w \in Worker, NotifyAfterPop(w)
        PROVE  Placed'
    BY <1>10 DEF NotifyAfterPop, NotifyPush
  <1>11. ASSUME NEW w \in Worker, Run(w)
        PROVE  Placed'
    BY <1>11 DEF Run
  <1>12. ASSUME NEW t \in Worker \cup {Owner}, CallFinish(t)
        PROVE  Placed'
    BY <1>12 DEF CallFinish
  <1>13. ASSUME NEW t \in Worker \cup {Owner}, FinishQueue(t)
        PROVE  Placed'
    BY <1>13 DEF FinishQueue, SetFinish
  <1>14. ASSUME NEW t \in Worker \cup {Owner}, NotifyFinish(t)
        PROVE  Placed'
    BY <1>14 DEF NotifyFinish, NotifyBoth
  <1>15. ASSUME NEW t \in Worker \cup {Owner}, JoinOthers(t)
        PROVE  Placed'
    BY <1>15 DEF JoinOthers
  <1>16. ASSUME OwnerFinishes
        PROVE  Placed'
    BY <1>16 DEF OwnerFinishes
  <1>17. ASSUME Destroy
        PROVE  Placed'
    BY <1>17 DEF Destroy
  <1>18. ASSUME WaitUntilFinished
        PROVE  Placed'
    BY <1>18 DEF WaitUntilFinished
  <1>19. ASSUME JoinAll
        PROVE  Placed'
    BY <1>19 DEF JoinAll
  <1>20. CASE UNCHANGED vars
    BY <1>20 DEF vars
  <1> QED
    BY <1>1, <1>2, <1>3, <1>4, <1>5, <1>6, <1>7, <1>8, <1>9, <1>10, <1>11,
       <1>12, <1>13, <1>14, <1>15, <1>16, <1>17, <1>18, <1>19, <1>20
       DEF Next, PusherStep, WorkerStep, FinishStep, OwnerStep, Destroyed

\* None is lost.
LEMMA StepNoneLost ==
    ASSUME TypeOK, Placed, NoneLost, [Next]_vars
    PROVE  NoneLost'
  <1> USE TaskAssumption DEF At, Goto, Thread, queueVars, flagVars, taskVars,
           Busy, InFinish, TypeOK, Placed, NoneLost
  <1>1. ASSUME NEW p \in Pusher, CallPush(p)
        PROVE  NoneLost'
    BY <1>1 DEF CallPush
  <1>2. ASSUME NEW p \in Pusher, PushBlocks(p)
        PROVE  NoneLost'
    BY <1>2 DEF PushBlocks, PushWaits
  <1>3. ASSUME NEW p \in Pusher, PushFails(p)
        PROVE  NoneLost'
    BY <1>3 DEF PushFails, PushRefused
  <1>4. ASSUME NEW p \in Pusher, Push(p)
        PROVE  NoneLost'
    BY <1>4 DEF Push, PushStores
  <1>5. ASSUME NEW p \in Pusher, NotifyAfterPush(p)
        PROVE  NoneLost'
    BY <1>5 DEF NotifyAfterPush, NotifyPop
  <1>6. ASSUME NEW p \in Pusher, StopPushing(p)
        PROVE  NoneLost'
    BY <1>6 DEF StopPushing
  <1>7. ASSUME NEW w \in Worker, PopBlocks(w)
        PROVE  NoneLost'
    BY <1>7 DEF PopBlocks, PopWaits
  <1>8. ASSUME NEW w \in Worker, PopReturnsEnd(w)
        PROVE  NoneLost'
    BY <1>8 DEF PopReturnsEnd, PopEnds
  <1>9. ASSUME NEW w \in Worker, Pop(w)
        PROVE  NoneLost'
    <2> SUFFICES ASSUME NEW k \in accepted, runs[k] /= 1
                 PROVE  \/ \E i \in 1 .. Len(queue') : queue'[i] = k
                        \/ \E v \in Worker : pc'[v] \in Busy /\ task'[v] = k
      BY <1>9 DEF Pop
    <2>1. /\ queue /= <<>> /\ queue' = Tail(queue)
          /\ task' = [task EXCEPT ![w] = queue[1]]
          /\ pc' = [pc EXCEPT ![w] = "notifyPush"] /\ pc[w] = "pop"
      BY <1>9 DEF Pop, PopTakes
    <2>2. CASE \E v \in Worker : pc[v] \in Busy /\ task[v] = k
      BY <2>1, <2>2
    <2>3. ASSUME NEW i \in 1 .. Len(queue), queue[i] = k
          PROVE  \/ \E j \in 1 .. Len(queue') : queue'[j] = k
                 \/ \E v \in Worker : pc'[v] \in Busy /\ task'[v] = k
      <3>1. CASE i = 1
        BY <2>1, <2>3, <3>1
      <3>2. CASE i /= 1
        <4>1. i - 1 \in 1 .. Len(queue') /\ queue'[i - 1] = k
          BY <2>1, <2>3, <3>2
        <4> QED
          BY <4>1
      <3> QED
        BY <3>1, <3>2
    <2> QED
      BY <2>2, <2>3
  <1>10. ASSUME NEW w \in Worker, NotifyAfterPop(w)
        PROVE  NoneLost'
    BY <1>10 DEF NotifyAfterPop, NotifyPush
  <1>11. ASSUME NEW w \in Worker, Run(w)
        PROVE  NoneLost'
    BY <1>11, SMTT(30) DEF Run
  <1>12. ASSUME NEW t \in Worker \cup {Owner}, CallFinish(t)
        PROVE  NoneLost'
    BY <1>12 DEF CallFinish
  <1>13. ASSUME NEW t \in Worker \cup {Owner}, FinishQueue(t)
        PROVE  NoneLost'
    BY <1>13 DEF FinishQueue, SetFinish
  <1>14. ASSUME NEW t \in Worker \cup {Owner}, NotifyFinish(t)
        PROVE  NoneLost'
    BY <1>14 DEF NotifyFinish, NotifyBoth
  <1>15. ASSUME NEW t \in Worker \cup {Owner}, JoinOthers(t)
        PROVE  NoneLost'
    BY <1>15 DEF JoinOthers
  <1>16. ASSUME OwnerFinishes
        PROVE  NoneLost'
    BY <1>16 DEF OwnerFinishes
  <1>17. ASSUME Destroy
        PROVE  NoneLost'
    BY <1>17 DEF Destroy
  <1>18. ASSUME WaitUntilFinished
        PROVE  NoneLost'
    BY <1>18 DEF WaitUntilFinished
  <1>19. ASSUME JoinAll
        PROVE  NoneLost'
    BY <1>19 DEF JoinAll
  <1>20. CASE UNCHANGED vars
    BY <1>20 DEF vars
  <1> QED
    BY <1>1, <1>2, <1>3, <1>4, <1>5, <1>6, <1>7, <1>8, <1>9, <1>10, <1>11,
       <1>12, <1>13, <1>14, <1>15, <1>16, <1>17, <1>18, <1>19, <1>20
       DEF Next, PusherStep, WorkerStep, FinishStep, OwnerStep, Destroyed

\* The end.
LEMMA StepEnding ==
    ASSUME TypeOK, Ending, [Next]_vars
    PROVE  Ending'
  <1> USE TaskAssumption DEF At, Goto, Thread, queueVars, flagVars, taskVars,
           Busy, InFinish, TypeOK, Ending
  <1>1. ASSUME NEW p \in Pusher, CallPush(p)
        PROVE  Ending'
    BY <1>1 DEF CallPush
  <1>2. ASSUME NEW p \in Pusher, PushBlocks(p)
        PROVE  Ending'
    BY <1>2 DEF PushBlocks, PushWaits
  <1>3. ASSUME NEW p \in Pusher, PushFails(p)
        PROVE  Ending'
    BY <1>3 DEF PushFails, PushRefused
  <1>4. ASSUME NEW p \in Pusher, Push(p)
        PROVE  Ending'
    BY <1>4 DEF Push, PushStores
  <1>5. ASSUME NEW p \in Pusher, NotifyAfterPush(p)
        PROVE  Ending'
    BY <1>5 DEF NotifyAfterPush, NotifyPop
  <1>6. ASSUME NEW p \in Pusher, StopPushing(p)
        PROVE  Ending'
    BY <1>6 DEF StopPushing
  <1>7. ASSUME NEW w \in Worker, PopBlocks(w)
        PROVE  Ending'
    BY <1>7 DEF PopBlocks, PopWaits
  <1>8. ASSUME NEW w \in Worker, PopReturnsEnd(w)
        PROVE  Ending'
    BY <1>8 DEF PopReturnsEnd, PopEnds
  <1>9. ASSUME NEW w \in Worker, Pop(w)
        PROVE  Ending'
    BY <1>9 DEF Pop, PopTakes
  <1>10. ASSUME NEW w \in Worker, NotifyAfterPop(w)
        PROVE  Ending'
    BY <1>10 DEF NotifyAfterPop, NotifyPush
  <1>11. ASSUME NEW w \in Worker, Run(w)
        PROVE  Ending'
    BY <1>11 DEF Run
  <1>12. ASSUME NEW t \in Worker \cup {Owner}, CallFinish(t)
        PROVE  Ending'
    BY <1>12 DEF CallFinish
  <1>13. ASSUME NEW t \in Worker \cup {Owner}, FinishQueue(t)
        PROVE  Ending'
    BY <1>13 DEF FinishQueue, SetFinish
  <1>14. ASSUME NEW t \in Worker \cup {Owner}, NotifyFinish(t)
        PROVE  Ending'
    BY <1>14 DEF NotifyFinish, NotifyBoth
  <1>15. ASSUME NEW t \in Worker \cup {Owner}, JoinOthers(t)
        PROVE  Ending'
    BY <1>15 DEF JoinOthers
  <1>16. ASSUME OwnerFinishes
        PROVE  Ending'
    BY <1>16 DEF OwnerFinishes
  <1>17. ASSUME Destroy
        PROVE  Ending'
    BY <1>17 DEF Destroy
  <1>18. ASSUME WaitUntilFinished
        PROVE  Ending'
    BY <1>18 DEF WaitUntilFinished
  <1>19. ASSUME JoinAll
        PROVE  Ending'
    BY <1>19 DEF JoinAll
  <1>20. CASE UNCHANGED vars
    BY <1>20 DEF vars
  <1> QED
    BY <1>1, <1>2, <1>3, <1>4, <1>5, <1>6, <1>7, <1>8, <1>9, <1>10, <1>11,
       <1>12, <1>13, <1>14, <1>15, <1>16, <1>17, <1>18, <1>19, <1>20
       DEF Next, PusherStep, WorkerStep, FinishStep, OwnerStep, Destroyed

-----------------------------------------------------------------------------
\* The initial states are those of the invariant.
LEMMA InitIInv == Init => IInv
  <1> SUFFICES ASSUME Init
               PROVE  IInv
    OBVIOUS
  <1> USE TaskAssumption DEF Init, QueueInit, Thread, Busy, InFinish, Labels
  <1>1. TypeOK
    BY DEF TypeOK
  <1>2. Pending /\ Placed /\ NoneLost
    BY DEF Pending, Placed, NoneLost
  <1>3. Ending
    BY DEF Ending
  <1> QED
    BY <1>1, <1>2, <1>3 DEF IInv

\* Every step keeps the invariant.
LEMMA NextIInv == IInv /\ [Next]_vars => IInv'
  BY StepTypeOK, StepPending, StepPlaced, StepNoneLost, StepEnding DEF IInv

\* The invariant holds throughout every behaviour.
LEMMA IInvAlways == Spec => []IInv
  BY InitIInv, NextIInv, PTL DEF Spec

\* Whichever thread calls finish, the accepted tasks have run when it is over,
\* but for those of the worker that called it (TaskQueue::finishImpl).
THEOREM FinishWaits == Spec => []FinishWaitsForTasks
  <1>1. IInv => FinishWaitsForTasks
    <2> SUFFICES ASSUME IInv, finishedFinishing, NEW k \in accepted, runs[k] /= 1,
                        ~ \E w \in Worker : Worker = {w} /\ pc[w] /= "ended"
                 PROVE  \E w \in Worker :
                           pc[w] = "run" /\ task[w] = k /\ k \in Finishing
      BY DEF FinishWaitsForTasks
    <2>1. queue = <<>>
      <3>1. \E w \in Worker : pc[w] = "ended"
        BY TaskAssumption DEF IInv, Ending
      <3> QED
        BY <3>1 DEF IInv, Ending
    <2>2. PICK w \in Worker : pc[w] \in Busy /\ task[w] = k
      BY <2>1 DEF IInv, NoneLost
    <2>3. Worker /= {w}
      BY <2>2 DEF Busy
    <2> QED
      BY <2>2, <2>3 DEF IInv, Ending
  <1> QED
    BY <1>1, IInvAlways, PTL

\* The destructor returns when each accepted task has run once, and no other
\* task has run (TaskQueue::~TaskQueue).
THEOREM DestructorWaits == Spec => []DestroyedMeansRun
  <1>1. IInv => DestroyedMeansRun
    <2> SUFFICES ASSUME IInv, pc[Owner] = "destroyed", NEW k \in Task
                 PROVE  runs[k] = IF k \in accepted THEN 1 ELSE 0
      BY DEF DestroyedMeansRun
    <2>1. queue = <<>> /\ \A w \in Worker : pc[w] = "ended"
      BY TaskAssumption DEF IInv, Ending
    <2>2. CASE k \in accepted
      BY <2>1, <2>2 DEF IInv, NoneLost, Busy
    <2>3. CASE k \notin accepted
      BY <2>3 DEF IInv, Pending
    <2> QED
      BY <2>2, <2>3
  <1> QED
    BY <1>1, IInvAlways, PTL
=============================================================================
