------------------------------ MODULE TaskQueue ------------------------------
(***************************************************************************)
(* util/TaskQueue.h: a pool of worker threads that execute the tasks of a  *)
(* bounded queue.  finish and the destructor wait for the tasks; finish    *)
(* may be called by the owner, and by a task that one of the workers runs, *)
(* and both may happen while the other is under way.  The time statistics  *)
(* are left out.                                                           *)
(***************************************************************************)
EXTENDS ThreadSafeQueue

CONSTANTS
    Worker,    \* threads_
    Pusher,    \* the threads that push tasks
    Owner,     \* the thread that destroys the TaskQueue
    Task,      \* the tasks
    NoTask,    \* none of them
    Finishing  \* the tasks that call finish

ASSUME TaskAssumption ==
    /\ Worker /= {}
    /\ Worker \cap Pusher = {} /\ Owner \notin Worker \cup Pusher
    /\ Finishing \subseteq Task /\ NoTask \notin Task

Thread == Worker \cup Pusher \cup {Owner}

VARIABLES
    startedFinishing,  \* startedFinishing_
    finishedFinishing, \* finishedFinishing_
    pc,                \* where each thread is
    ret,               \* where it continues after finish
    task,              \* the task a thread pushes or runs
    todo,              \* the tasks that have not been pushed
    accepted,          \* history: the tasks whose push returned true
    runs               \* history: how often each task has run

flagVars == <<startedFinishing, finishedFinishing>>
taskVars == <<task, todo, accepted, runs>>
vars == <<queueVars, flagVars, pc, ret, taskVars>>

Init ==
    /\ QueueInit
    /\ startedFinishing = FALSE /\ finishedFinishing = FALSE
    /\ pc = [t \in Thread |-> IF t \in Worker THEN "pop"
                              ELSE IF t \in Pusher THEN "idle" ELSE "owning"]
    /\ ret = [t \in Thread |-> "none"]
    /\ task = [t \in Thread |-> NoTask]
    /\ todo = Task
    /\ accepted = {}
    /\ runs = [k \in Task |-> 0]

At(t, label) == pc[t] = label /\ t \notin pushWait \cup popWait

Goto(t, label) == pc' = [pc EXCEPT ![t] = label]

-----------------------------------------------------------------------------
\* TaskQueue::push.  A pusher stops when it has no more tasks, or when the
\* queue refuses one.
CallPush(t) ==
    /\ At(t, "idle")
    /\ \E k \in todo :
          task' = [task EXCEPT ![t] = k] /\ todo' = todo \ {k}
    /\ Goto(t, "push")
    /\ UNCHANGED <<queueVars, flagVars, ret, accepted, runs>>

PushBlocks(t) ==
    /\ At(t, "push") /\ PushWaits(t)
    /\ UNCHANGED <<flagVars, pc, ret, taskVars>>

PushFails(t) ==
    /\ At(t, "push") /\ PushRefused
    /\ Goto(t, "ended")
    /\ UNCHANGED <<flagVars, ret, taskVars>>

Push(t) ==
    /\ At(t, "push") /\ PushStores(task[t])
    /\ accepted' = accepted \cup {task[t]}
    /\ Goto(t, "notifyPop")
    /\ UNCHANGED <<flagVars, ret, task, todo, runs>>

NotifyAfterPush(t) ==
    /\ At(t, "notifyPop") /\ NotifyPop
    /\ Goto(t, "idle")
    /\ UNCHANGED <<flagVars, ret, taskVars>>

StopPushing(t) ==
    /\ At(t, "idle") /\ todo = {}
    /\ Goto(t, "ended")
    /\ UNCHANGED <<queueVars, flagVars, ret, taskVars>>

-----------------------------------------------------------------------------
\* function_for_thread.
PopBlocks(w) ==
    /\ At(w, "pop") /\ PopWaits(w)
    /\ UNCHANGED <<flagVars, pc, ret, taskVars>>

PopReturnsEnd(w) ==
    /\ At(w, "pop") /\ PopEnds
    /\ Goto(w, "ended")
    /\ UNCHANGED <<flagVars, ret, taskVars>>

Pop(w) ==
    /\ At(w, "pop") /\ PopTakes
    /\ task' = [task EXCEPT ![w] = Head(queue)]
    /\ Goto(w, "notifyPush")
    /\ UNCHANGED <<flagVars, ret, todo, accepted, runs>>

NotifyAfterPop(w) ==
    /\ At(w, "notifyPush") /\ NotifyPush
    /\ Goto(w, IF task[w] \in Finishing THEN "callFinish" ELSE "run")
    /\ ret' = [ret EXCEPT ![w] = "run"]
    /\ UNCHANGED <<flagVars, taskVars>>

\* The end of the task.
Run(w) ==
    /\ At(w, "run")
    /\ runs' = [runs EXCEPT ![task[w]] = @ + 1]
    /\ Goto(w, "pop")
    /\ UNCHANGED <<queueVars, flagVars, ret, task, todo, accepted>>

-----------------------------------------------------------------------------
\* finish: only the first call does anything.
CallFinish(t) ==
    /\ At(t, "callFinish")
    /\ startedFinishing' = TRUE
    /\ Goto(t, IF startedFinishing THEN ret[t] ELSE "finishImpl")
    /\ UNCHANGED <<queueVars, finishedFinishing, ret, taskVars>>

\* finishImpl: finish the queue, join the other threads, set the flag.
FinishQueue(t) ==
    /\ At(t, "finishImpl") /\ SetFinish
    /\ Goto(t, "notifyBoth")
    /\ UNCHANGED <<flagVars, ret, taskVars>>

NotifyFinish(t) ==
    /\ At(t, "notifyBoth") /\ NotifyBoth
    /\ Goto(t, "join")
    /\ UNCHANGED <<flagVars, ret, taskVars>>

\* Mutant: finish does not join the workers.
JoinOthers_NoJoin(t) ==
    /\ At(t, "join")
    /\ finishedFinishing' = TRUE
    /\ Goto(t, ret[t])
    /\ UNCHANGED <<queueVars, startedFinishing, ret, taskVars>>

JoinOthers(t) ==
    /\ At(t, "join")
    /\ \A w \in Worker \ {t} : pc[w] = "ended"
    /\ finishedFinishing' = TRUE
    /\ Goto(t, ret[t])
    /\ UNCHANGED <<queueVars, startedFinishing, ret, taskVars>>

-----------------------------------------------------------------------------
\* The owner may call finish while others push; it destroys the TaskQueue
\* when no other thread uses it any more.
OwnerFinishes ==
    /\ At(Owner, "owning")
    /\ Goto(Owner, "callFinish")
    /\ ret' = [ret EXCEPT ![Owner] = "finished"]
    /\ UNCHANGED <<queueVars, flagVars, taskVars>>

\* The destructor: wait for a call of finish that has started, or finish; then
\* the destructors of the threads join them.
Destroy ==
    /\ pc[Owner] \in {"owning", "finished"}
    /\ \A t \in Pusher : pc[t] = "ended"
    /\ startedFinishing' = TRUE
    /\ Goto(Owner, IF startedFinishing THEN "wait" ELSE "finishImpl")
    /\ ret' = [ret EXCEPT ![Owner] = "joinAll"]
    /\ UNCHANGED <<queueVars, finishedFinishing, taskVars>>

WaitUntilFinished ==
    /\ At(Owner, "wait") /\ finishedFinishing
    /\ Goto(Owner, "joinAll")
    /\ UNCHANGED <<queueVars, flagVars, ret, taskVars>>

JoinAll ==
    /\ At(Owner, "joinAll")
    /\ \A w \in Worker : pc[w] = "ended"
    /\ Goto(Owner, "destroyed")
    /\ UNCHANGED <<queueVars, flagVars, ret, taskVars>>

-----------------------------------------------------------------------------
PusherStep(t) ==
    \/ CallPush(t) \/ PushBlocks(t) \/ PushFails(t) \/ Push(t)
    \/ NotifyAfterPush(t) \/ StopPushing(t)

WorkerStep(w) ==
    PopBlocks(w) \/ PopReturnsEnd(w) \/ Pop(w) \/ NotifyAfterPop(w) \/ Run(w)

FinishStep(t) ==
    CallFinish(t) \/ FinishQueue(t) \/ NotifyFinish(t) \/ JoinOthers(t)

OwnerStep == Destroy \/ WaitUntilFinished \/ JoinAll

Destroyed == pc[Owner] = "destroyed" /\ UNCHANGED vars

Next ==
    \/ \E t \in Pusher : PusherStep(t)
    \/ \E w \in Worker : WorkerStep(w)
    \/ \E t \in Worker \cup {Owner} : FinishStep(t)
    \/ OwnerFinishes
    \/ OwnerStep
    \/ Destroyed

Spec == Init /\ [][Next]_vars

\* The operating system runs each thread that is not blocked, and the owner
\* destroys the TaskQueue.
FairSpec ==
    /\ Spec
    /\ \A t \in Pusher : WF_vars(PusherStep(t))
    /\ \A w \in Worker : WF_vars(WorkerStep(w) \/ FinishStep(w))
    /\ WF_vars(OwnerStep \/ FinishStep(Owner))

-----------------------------------------------------------------------------
\* finishImpl waits for the tasks: once finishedFinishing_ is set, every task
\* that push has accepted has run, whichever thread finishes, and wherever the
\* pushers and the workers are when it does.  Exempt is the task that called
\* finish, which a worker is still running, and, if that worker is the only
\* one, what it has not come to: it joins no thread, and finish returns to it
\* while tasks are queued.
FinishWaitsForTasks ==
    finishedFinishing =>
        \A k \in accepted :
            \/ runs[k] = 1
            \/ \E w \in Worker : pc[w] = "run" /\ task[w] = k /\ k \in Finishing
            \/ \E w \in Worker : Worker = {w} /\ pc[w] /= "ended"

\* The destructor waits for the tasks: each accepted task has run exactly once
\* when the TaskQueue is gone, and no other task has.
DestroyedMeansRun ==
    pc[Owner] = "destroyed" =>
        \A k \in Task : runs[k] = IF k \in accepted THEN 1 ELSE 0

\* Nobody waits forever: the destructor returns, also when a task has called
\* finish and joins the other workers meanwhile.
TaskQueueDestroyed == <>(pc[Owner] = "destroyed")
=============================================================================
