-------------------------- MODULE CancellationHandle --------------------------
(***************************************************************************)
(* util/CancellationHandle.{h,cpp} with the watchdog enabled: an atomic    *)
(* state that threads check and cancel, and that a watchdog thread changes *)
(* to notice threads that do not check often enough.  A loop around a      *)
(* compare-exchange is two steps: one reads the state, the other swaps it  *)
(* if it has not changed.  What is logged is left out.                     *)
(***************************************************************************)
EXTENDS Naturals

CONSTANT Thread   \* the threads that use the handle

NOT_CANCELLED == 0
WAITING_FOR_CHECK == 1
CHECK_WINDOW_MISSED == 2
MANUAL == 3
TIMEOUT == 4

CancellationState == 0 .. 4

isCancelled(s) == s > CHECK_WINDOW_MISSED

VARIABLES
    cancellationState, \* cancellationState_
    running,           \* watchDogState_.running_
    watchDog,          \* where the watchdog thread is
    watched,           \* the state it has read
    pc,                \* where each thread is
    state,             \* the state it has read
    newState,          \* the state it wants to set
    alive,             \* whether the destructor has not been called
    cancelled          \* history: whether a call of cancel has returned

handleVars == <<cancellationState, running, alive>>
watchVars == <<watchDog, watched>>
threadVars == <<pc, state, newState>>
vars == <<handleVars, watchVars, threadVars, cancelled>>

Init ==
    /\ cancellationState = NOT_CANCELLED
    /\ running = FALSE
    /\ watchDog = "none" /\ watched = NOT_CANCELLED
    /\ pc = [t \in Thread |-> "idle"]
    /\ state = [t \in Thread |-> NOT_CANCELLED]
    /\ newState = [t \in Thread |-> NOT_CANCELLED]
    /\ alive = TRUE
    /\ cancelled = FALSE

Goto(t, label) == pc' = [pc EXCEPT ![t] = label]

-----------------------------------------------------------------------------
\* cancel and resetWatchDogState: the load of setStatePreservingCancel.
CallSet(t, s) ==
    /\ alive /\ pc[t] = "idle"
    /\ state' = [state EXCEPT ![t] = cancellationState]
    /\ newState' = [newState EXCEPT ![t] = s]
    /\ Goto(t, "set")
    /\ UNCHANGED <<handleVars, watchVars, cancelled>>

cancel(t) == \E reason \in {MANUAL, TIMEOUT} : CallSet(t, reason)

resetWatchDogState(t) == CallSet(t, NOT_CANCELLED)

ReturnFromSet(t) ==
    /\ Goto(t, "idle")
    /\ cancelled' = (cancelled \/ isCancelled(newState[t]))

\* The loop of setStatePreservingCancel.  compare_exchange_weak may fail
\* although the state has not changed.
SetPreserves(t) ==
    /\ pc[t] = "set" /\ isCancelled(state[t])
    /\ ReturnFromSet(t)
    /\ UNCHANGED <<handleVars, watchVars, state, newState>>

\* Mutant: the state is stored without comparing it.
SetSwaps_Store(t) ==
    /\ pc[t] = "set" /\ ~isCancelled(state[t])
    /\ cancellationState' = newState[t]
    /\ ReturnFromSet(t)
    /\ UNCHANGED <<running, alive, watchVars, state, newState>>

SetSwaps(t) ==
    /\ pc[t] = "set" /\ ~isCancelled(state[t])
    /\ cancellationState = state[t]
    /\ cancellationState' = newState[t]
    /\ ReturnFromSet(t)
    /\ UNCHANGED <<running, alive, watchVars, state, newState>>

SetRetries(t) ==
    /\ pc[t] = "set" /\ ~isCancelled(state[t])
    /\ state' = [state EXCEPT ![t] = cancellationState]
    /\ UNCHANGED <<handleVars, watchVars, pc, newState, cancelled>>

\* throwIfCancelled and isCancelled: a thread that finds the state cancelled
\* throws; one that the watchdog waits for changes the state back.
Check(t) ==
    /\ alive /\ pc[t] = "idle"
    /\ state' = [state EXCEPT ![t] = cancellationState]
    /\ Goto(t, IF isCancelled(cancellationState) THEN "thrown"
               ELSE IF cancellationState = NOT_CANCELLED THEN "idle"
               ELSE "please")
    /\ UNCHANGED <<handleVars, watchVars, newState, cancelled>>

\* The loop of pleaseWatchDog.
\* Mutant: the state is stored without comparing it.
PleaseSwaps_Store(t) ==
    /\ pc[t] = "please"
    /\ cancellationState' = NOT_CANCELLED
    /\ Goto(t, "idle")
    /\ UNCHANGED <<running, alive, watchVars, state, newState, cancelled>>

PleaseSwaps(t) ==
    /\ pc[t] = "please"
    /\ cancellationState = state[t]
    /\ cancellationState' = NOT_CANCELLED
    /\ Goto(t, "idle")
    /\ UNCHANGED <<running, alive, watchVars, state, newState, cancelled>>

PleaseRetries(t) ==
    /\ pc[t] = "please"
    /\ state' = [state EXCEPT ![t] = cancellationState]
    /\ Goto(t, IF isCancelled(cancellationState) \/ cancellationState = NOT_CANCELLED
               THEN "idle" ELSE "please")
    /\ UNCHANGED <<handleVars, watchVars, newState, cancelled>>

-----------------------------------------------------------------------------
\* startWatchDog, which is called at most once.
startWatchDog ==
    /\ alive /\ watchDog = "none" /\ ~running
    /\ running' = TRUE
    /\ watchDog' = "load"
    /\ UNCHANGED <<cancellationState, alive, watched, threadVars, cancelled>>

\* One round of the watchdog, during which it holds the mutex.
\* Mutant: the watchdog goes on when the handle is cancelled.
WatchDogLoads_NoBreak ==
    /\ watchDog = "load"
    /\ watched' = cancellationState
    /\ watchDog' = "swap"
    /\ UNCHANGED <<handleVars, threadVars, cancelled>>

WatchDogLoads ==
    /\ watchDog = "load"
    /\ watched' = cancellationState
    /\ watchDog' = IF isCancelled(cancellationState) THEN "ended" ELSE "swap"
    /\ UNCHANGED <<handleVars, threadVars, cancelled>>

WatchDogSwaps ==
    /\ watchDog = "swap"
    /\ cancellationState' =
          IF cancellationState = watched /\ watched < CHECK_WINDOW_MISSED
          THEN watched + 1 ELSE cancellationState
    /\ watchDog' = "wait"
    /\ UNCHANGED <<running, alive, watched, threadVars, cancelled>>

\* wait_for ends when the interval is over or when it is notified.
WatchDogWakes ==
    /\ watchDog = "wait"
    /\ watchDog' = IF running THEN "load" ELSE "ended"
    /\ UNCHANGED <<handleVars, watched, threadVars, cancelled>>

\* The destructor, when no thread uses the handle any more: it tells the
\* watchdog to stop, and then joins it.
Destroy ==
    /\ alive
    /\ \A t \in Thread : pc[t] \in {"idle", "thrown"}
    /\ watchDog /= "swap"
    /\ running' = FALSE
    /\ alive' = FALSE
    /\ UNCHANGED <<cancellationState, watchVars, threadVars, cancelled>>

Joined == ~alive /\ watchDog \in {"none", "ended"}

-----------------------------------------------------------------------------
WatchDogStep == WatchDogLoads \/ WatchDogSwaps \/ WatchDogWakes

Next ==
    \/ \E t \in Thread :
          \/ cancel(t) \/ resetWatchDogState(t)
          \/ SetPreserves(t) \/ SetSwaps(t) \/ SetRetries(t)
          \/ Check(t) \/ PleaseSwaps(t) \/ PleaseRetries(t)
    \/ startWatchDog
    \/ WatchDogStep
    \/ Destroy
    \/ Joined /\ UNCHANGED vars

Spec == Init /\ [][Next]_vars

\* The operating system runs the watchdog, whose waits end by themselves.
FairSpec == Spec /\ WF_vars(WatchDogStep)

-----------------------------------------------------------------------------
\* The types of the variables.
TypeOK ==
    /\ cancellationState \in CancellationState
    /\ running \in BOOLEAN /\ alive \in BOOLEAN
    /\ watchDog \in {"none", "load", "swap", "wait", "ended"}
    /\ watched \in CancellationState
    /\ pc \in [Thread -> {"idle", "set", "please", "thrown"}]
    /\ state \in [Thread -> CancellationState]
    /\ newState \in [Thread -> {NOT_CANCELLED, MANUAL, TIMEOUT}]
    /\ cancelled \in BOOLEAN

\* Once a call of cancel has returned, the handle is cancelled, so that the
\* next throwIfCancelled throws: neither the watchdog, nor a thread that
\* pleases it, nor resetWatchDogState, with a state it read before, undoes
\* the cancellation.
CancelIsEffective == cancelled => isCancelled(cancellationState)

\* A handle that is cancelled stays cancelled, and for the first reason: a
\* query that timed out is not reported as cancelled manually.
FirstReasonWins ==
    [][isCancelled(cancellationState) => cancellationState' = cancellationState]_vars

\* The watchdog ends when the handle is destroyed, or cancelled, wherever it
\* is in its round; then the destructor can join it.
WatchDogEnds ==
    (~alive \/ cancelled) ~> (watchDog \in {"none", "ended"})
=============================================================================
