----------------------- MODULE CancellationHandleProofs -----------------------
(***************************************************************************)
(* Proofs about CancellationHandle, for every set of threads: a            *)
(* cancellation is neither lost nor changed.                               *)
(***************************************************************************)
EXTENDS CancellationHandle, TLAPS

\* What a thread has read limits what it may swap: a thread that has seen a
\* cancellation sees no later one undone, and one that pleases the watchdog
\* has not seen one.
ReadsAreSound ==
    \A t \in Thread :
        /\ pc[t] = "set" /\ isCancelled(state[t]) => isCancelled(cancellationState)
        /\ pc[t] = "please" => ~isCancelled(state[t])

IInv == TypeOK /\ CancelIsEffective /\ ReadsAreSound

\* Initially nothing is cancelled and nobody has read anything.
LEMMA InitIInv == Init => IInv
  <1> SUFFICES ASSUME Init
               PROVE  IInv
    OBVIOUS
  <1> USE DEF Init, NOT_CANCELLED, CHECK_WINDOW_MISSED
  <1>1. TypeOK
    <2>1. /\ pc \in [Thread -> {"idle", "set", "please", "thrown"}]
          /\ state \in [Thread -> CancellationState]
      BY DEF CancellationState
    <2>2. newState \in [Thread -> {NOT_CANCELLED, MANUAL, TIMEOUT}]
      BY Zenon
    <2>3. cancellationState \in CancellationState /\ watched \in CancellationState
      BY DEF CancellationState
    <2>4. watchDog \in {"none", "load", "swap", "wait", "ended"}
      OBVIOUS
    <2>5. running \in BOOLEAN /\ alive \in BOOLEAN /\ cancelled \in BOOLEAN
      BY Zenon
    <2> QED
      BY <2>1, <2>2, <2>3, <2>4, <2>5, Zenon DEF TypeOK
  <1>2. CancelIsEffective
    BY DEF CancelIsEffective
  <1>3. ReadsAreSound
    BY DEF ReadsAreSound
  <1> QED
    BY <1>1, <1>2, <1>3 DEF IInv

\* No step changes the state of a cancelled handle.
LEMMA StepKeepsReason ==
    ASSUME TypeOK, ReadsAreSound, [Next]_vars, isCancelled(cancellationState)
    PROVE  cancellationState' = cancellationState
  <1> USE DEF handleVars, watchVars, threadVars
  <1>1. CASE UNCHANGED vars
    BY <1>1 DEF vars
  <1>2. ASSUME NEW t \in Thread, cancel(t) \/ resetWatchDogState(t)
        PROVE  cancellationState' = cancellationState
    BY <1>2 DEF cancel, resetWatchDogState, CallSet
  <1>3. ASSUME NEW t \in Thread, SetPreserves(t) \/ SetRetries(t) \/ Check(t)
                                 \/ PleaseRetries(t)
        PROVE  cancellationState' = cancellationState
    BY <1>3 DEF SetPreserves, SetRetries, Check, PleaseRetries
  <1>4. ASSUME NEW t \in Thread, SetSwaps(t)
        PROVE  FALSE
    BY <1>4 DEF SetSwaps
  <1>5. ASSUME NEW t \in Thread, PleaseSwaps(t)
        PROVE  FALSE
    BY <1>5 DEF PleaseSwaps, ReadsAreSound
  <1>6. CASE startWatchDog \/ WatchDogLoads \/ WatchDogWakes \/ Destroy
    BY <1>6 DEF startWatchDog, WatchDogLoads, WatchDogWakes, Destroy
  <1>7. CASE WatchDogSwaps
    BY <1>7 DEF WatchDogSwaps, TypeOK, CancellationState, isCancelled,
                CHECK_WINDOW_MISSED
  <1> QED
    BY <1>1, <1>2, <1>3, <1>4, <1>5, <1>6, <1>7 DEF Next, WatchDogStep, vars

\* Every step preserves the types.
LEMMA StepKeepsTypes == TypeOK /\ [Next]_vars => TypeOK'
  <1> SUFFICES ASSUME TypeOK, [Next]_vars
               PROVE  TypeOK'
    OBVIOUS
  <1> USE DEF TypeOK, handleVars, watchVars, threadVars, CancellationState,
              NOT_CANCELLED, WAITING_FOR_CHECK, CHECK_WINDOW_MISSED, MANUAL, TIMEOUT
  <1>1. CASE UNCHANGED vars
    BY <1>1 DEF vars
  <1>2. ASSUME NEW t \in Thread, cancel(t) \/ resetWatchDogState(t)
        PROVE  TypeOK'
    BY <1>2 DEF cancel, resetWatchDogState, CallSet, Goto
  <1>3. ASSUME NEW t \in Thread, SetPreserves(t) \/ SetSwaps(t) \/ SetRetries(t)
        PROVE  TypeOK'
    <2> USE DEF SetPreserves, SetSwaps, SetRetries, ReturnFromSet, Goto
    <2>1. CASE SetPreserves(t)
      BY <1>3, <2>1
    <2>2. CASE SetSwaps(t)
      BY <1>3, <2>2
    <2>3. CASE SetRetries(t)
      BY <1>3, <2>3
    <2> QED
      BY <1>3, <2>1, <2>2, <2>3
  <1>4. ASSUME NEW t \in Thread, Check(t) \/ PleaseSwaps(t) \/ PleaseRetries(t)
        PROVE  TypeOK'
    BY <1>4 DEF Check, PleaseSwaps, PleaseRetries, Goto
  <1>5. CASE startWatchDog \/ WatchDogStep \/ Destroy
    <2>1. CASE startWatchDog \/ Destroy
      BY <2>1 DEF startWatchDog, Destroy
    <2>2. CASE WatchDogLoads
      BY <2>2 DEF WatchDogLoads
    <2>3. CASE WatchDogSwaps
      BY <2>3 DEF WatchDogSwaps
    <2>4. CASE WatchDogWakes
      BY <2>4 DEF WatchDogWakes
    <2> QED
      BY <1>5, <2>1, <2>2, <2>3, <2>4 DEF WatchDogStep
  <1> QED
    BY <1>1, <1>2, <1>3, <1>4, <1>5 DEF Next, vars

\* Every step preserves the invariant.
LEMMA StepIInv == IInv /\ [Next]_vars => IInv'
  <1> SUFFICES ASSUME IInv, [Next]_vars
               PROVE  IInv'
    OBVIOUS
  <1> USE DEF IInv
  <1>0. TypeOK'
    BY StepKeepsTypes
  <1>1. isCancelled(cancellationState) => isCancelled(cancellationState')
    BY StepKeepsReason
  <1> USE DEF handleVars, watchVars, threadVars
  <1>2. CASE UNCHANGED vars
    BY <1>2, <1>0 DEF vars, CancelIsEffective, ReadsAreSound, isCancelled
  <1>3. ASSUME NEW t \in Thread, cancel(t) \/ resetWatchDogState(t)
        PROVE  CancelIsEffective' /\ ReadsAreSound'
    BY <1>3, <1>1 DEF cancel, resetWatchDogState, CallSet, Goto, TypeOK,
                      CancelIsEffective, ReadsAreSound
  <1>4. ASSUME NEW t \in Thread, SetPreserves(t) \/ SetSwaps(t) \/ SetRetries(t)
        PROVE  CancelIsEffective' /\ ReadsAreSound'
    BY <1>4, <1>1 DEF SetPreserves, SetSwaps, SetRetries, ReturnFromSet, Goto,
                      TypeOK, CancelIsEffective, ReadsAreSound
  <1>5. ASSUME NEW t \in Thread, Check(t) \/ PleaseSwaps(t) \/ PleaseRetries(t)
        PROVE  CancelIsEffective' /\ ReadsAreSound'
    BY <1>5, <1>1 DEF Check, PleaseSwaps, PleaseRetries, Goto, TypeOK,
                      CancelIsEffective, ReadsAreSound
  <1>6. CASE startWatchDog \/ WatchDogStep \/ Destroy
    <2>1. UNCHANGED <<threadVars, cancelled>>
      BY <1>6 DEF startWatchDog, WatchDogStep, WatchDogLoads, WatchDogSwaps,
                  WatchDogWakes, Destroy
    <2> QED
      BY <2>1, <1>0, <1>1 DEF CancelIsEffective, ReadsAreSound
  <1> QED
    BY <1>0, <1>2, <1>3, <1>4, <1>5, <1>6 DEF Next, vars

\* The invariant holds in every reachable state.
THEOREM IInvAlways == Spec => []IInv
  BY InitIInv, StepIInv, PTL DEF Spec

\* Once a call of cancel has returned, the handle is cancelled, however many
\* threads check it, reset it and please the watchdog meanwhile.
THEOREM CancelIsAlwaysEffective == Spec => []CancelIsEffective
  BY IInvAlways, PTL DEF IInv

\* A cancelled handle keeps the state, and so the reason, for ever.
THEOREM FirstReasonAlwaysWins == Spec => FirstReasonWins
  <1>1. IInv /\ [Next]_vars =>
            [isCancelled(cancellationState) => cancellationState' = cancellationState]_vars
    BY StepKeepsReason DEF IInv
  <1> QED
    BY <1>1, IInvAlways, PTL DEF Spec, FirstReasonWins
=============================================================================
