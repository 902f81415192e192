------------------------- MODULE QueueManagerProofs --------------------------
(***************************************************************************)
(* Proofs about QueueManager, for any number of producers, of values and   *)
(* of places in the queue: the values come in order, and all of them have  *)
(* come when the consumer is told of the end.                              *)
(***************************************************************************)
EXTENDS QueueManager, FiniteSetTheorems, SequenceTheorems, TLAPS

\* The values that have been stored, whether they have been popped or not.
Stored == popped \o queue

\* Where the producers are: the labels of the ordered queue occur in it only,
\* a producer holds its mutex throughout the inner push, one that has left its
\* loop does not return to it, and a stream has one producer.
Control ==
    /\ \A t \in Thread :
          pc[t] \in {"lock", "unlock", "orderFinish", "notifyTurn"} => ordered
    /\ \A p \in Producer :
          ordered /\ pc[p] \in {"push", "notifyPop", "unlock"} => mutex = p
    /\ \A p \in Producer :
          /\ pc[p] \in {"exception", "notifyBoth", "orderFinish"} =>
                ret[p] \in {"finish", "decrement", "ended"}
          /\ pc[p] = "notifyPop" => ret[p] = "produce"
          /\ pc[p] \in {"unlock", "notifyTurn"} =>
                ret[p] \in {"produce", "finish", "decrement", "ended"}
    /\ pc[Consumer] \in {"notifyBoth", "orderFinish", "notifyTurn"} =>
          ret[Consumer] \in {"join", "destroyed"}
    /\ kind = "stream" =>
          \A p, r \in Producer : pc[p] /= "ended" /\ pc[r] /= "ended" => p = r

\* The values of the ordered queue and of a stream are stored in order.
Consecutive == kind /= "plain" => \A i \in 1 .. Len(Stored) : Stored[i] = i - 1

\* Who pushes to the ordered queue has the next index to be stored.
Turn ==
    ordered /\ ~finish =>
        /\ \A p \in Producer : pc[p] = "push" =>
              index[p] = Len(Stored) /\ nextIndex = Len(Stored) + 1
        /\ (\A p \in Producer : pc[p] /= "push") => nextIndex = Len(Stored)

\* So has the producer of a stream.
StreamTurn ==
    kind = "stream" =>
        \A p \in Producer :
            /\ pc[p] = "push" => index[p] = Len(Stored) /\ next = Len(Stored) + 1
            /\ pc[p] \in {"produce", "notifyPop"} => next = Len(Stored)

\* The values of a plain queue are different, also from those about to be
\* stored.
Distinct ==
    kind = "plain" =>
        /\ \A i \in 1 .. Len(Stored) :
              /\ Stored[i] < next
              /\ \A j \in 1 .. (i - 1) : Stored[j] /= Stored[i]
              /\ \A p \in Producer : pc[p] = "push" => Stored[i] /= index[p]
        /\ \A p \in Producer : pc[p] = "push" =>
              /\ index[p] < next
              /\ \A r \in Producer \ {p} : pc[r] = "push" => index[r] /= index[p]

Order == Consecutive /\ Turn /\ StreamTurn /\ Distinct

IInv == TypeOK /\ Control /\ Order

-----------------------------------------------------------------------------
\* The stored values are natural numbers, and begin with the popped ones.
LEMMA StoredType ==
    ASSUME TypeOK
    PROVE  /\ Stored \in Seq(Nat)
           /\ Len(Stored) = Len(popped) + Len(queue)
           /\ \A i \in 1 .. Len(popped) : Stored[i] = popped[i]
  <1>1. popped \in Seq(Nat) /\ queue \in Seq(Nat)
    BY DEF TypeOK
  <1> QED
    BY <1>1 DEF Stored

\* Popping a value moves it from the queue to the popped values.
LEMMA StoredPop ==
    ASSUME TypeOK, Pop
    PROVE  Stored' = Stored
  <1>1. queue /= <<>> /\ queue' = Tail(queue) /\ popped' = Append(popped, Head(queue))
    BY DEF Pop, PopTakes
  <1> DEFINE h == Head(queue)
  <1>2. /\ popped \in Seq(Nat) /\ queue \in Seq(Nat)
        /\ h \in Nat /\ Tail(queue) \in Seq(Nat) /\ <<h>> \in Seq(Nat)
    BY <1>1, HeadTailProperties DEF TypeOK
  <1>3. queue = <<h>> \o Tail(queue)
    <2>1. Len(queue) \in Nat \ {0} /\ h = queue[1]
      BY <1>1, <1>2
    <2>2. Tail(queue) = SubSeq(queue, 2, Len(queue))
      BY <1>1, <1>2, TailIsSubSeq
    <2>3. SubSeq(queue, 1, Len(queue)) = <<queue[1]>> \o SubSeq(queue, 2, Len(queue))
      BY <1>2, <2>1, SubSeqRecursiveFirst
    <2> QED
      BY <1>2, <2>1, <2>2, <2>3, SubSeqFull
  <1>4. popped' = popped \o <<h>>
    BY <1>1, <1>2, AppendIsConcat
  <1> HIDE DEF h
  <1>5. (popped \o <<h>>) \o Tail(queue) = popped \o (<<h>> \o Tail(queue))
    BY <1>2, ConcatAssociative, SMTT(30)
  <1> QED
    BY <1>1, <1>3, <1>4, <1>5, Zenon DEF Stored

\* Pushing a value appends it to the stored values.
LEMMA StoredPush ==
    ASSUME TypeOK, NEW p \in Producer, Push(p)
    PROVE  Stored' = Append(Stored, index[p])
  <1>1. queue' = Append(queue, index[p]) /\ popped' = popped
    BY DEF Push, PushStores, historyVars
  <1> QED
    BY <1>1, SMTT(30) DEF TypeOK, Stored

\* The other steps do not change the stored values.
LEMMA StoredSame ==
    ASSUME UNCHANGED <<queue, popped>>
    PROVE  Stored' = Stored
  BY DEF Stored
-----------------------------------------------------------------------------
\* The initial states are those of the invariant.
LEMMA InitIInv == Init => IInv
  <1> SUFFICES ASSUME Init
               PROVE  IInv
    OBVIOUS
  <1> USE DEF Init, QueueInit
  <1>1. PICK P \in SUBSET Producer :
           /\ numThreads = Cardinality(P)
           /\ pc = [t \in Thread |-> IF t = Consumer THEN "pop"
                                     ELSE IF t \in P THEN "produce" ELSE "ended"]
           /\ kind = "stream" => \E p \in Producer : P = {p}
    <2>1. CASE kind = "stream"
      BY <2>1
    <2>2. CASE kind /= "stream"
      BY <2>2
    <2> QED
      BY <2>1, <2>2
  <1>2. numThreads \in Int
    BY <1>1, ManagerAssumption, FS_Subset, FS_CardinalityType
  <1>3. Stored = <<>> /\ Len(Stored) = 0
    BY DEF Stored
  <1>4. TypeOK
    <2>1. pc \in [Thread -> Labels]
      BY <1>1 DEF Labels
    <2>2. ret \in [Thread -> Labels \cup {"none"}]
      OBVIOUS
    <2>3. index \in [Producer -> Nat]
      OBVIOUS
    <2>4. /\ finish \in BOOLEAN /\ pushedException \in BOOLEAN
          /\ orderFinish \in BOOLEAN
      BY Zenon
    <2>5. queue \in Seq(Nat) /\ Len(queue) <= MaxSize /\ popped \in Seq(Nat)
      BY MaxSizeAssumption
    <2>6. /\ pushWait \in SUBSET Producer /\ popWait \in SUBSET {Consumer}
          /\ cvWait \in SUBSET Producer /\ failed \in SUBSET Producer
          /\ mutex \in Producer \cup {NoThread}
          /\ outcome \in {"none", "end", "exception", "stopped"}
          /\ kind \in {"ordered", "plain", "stream"}
      BY ManagerAssumption
    <2>7. next \in 0 .. NumItems /\ nextIndex \in Nat
      BY ManagerAssumption
    <2> QED
      BY <1>2, <2>1, <2>2, <2>3, <2>4, <2>5, <2>6, <2>7, Zenon DEF TypeOK
  <1>5. Control
    BY <1>1, ManagerAssumption DEF Control, Thread
  <1>6. Order
    BY <1>1, <1>3 DEF Order, Consecutive, Turn, StreamTurn, Distinct, ordered, Thread
  <1> QED
    BY <1>4, <1>5, <1>6 DEF IInv

-----------------------------------------------------------------------------
\* Every step preserves the types.
LEMMA TypeStep == TypeOK /\ Control /\ [Next]_vars => TypeOK'
  <1> SUFFICES ASSUME TypeOK, Control, [Next]_vars
               PROVE  TypeOK'
    OBVIOUS
  <1> USE ManagerAssumption
      DEF TypeOK, Goto, At, queueVars, orderVars, historyVars, Labels, Thread,
          AfterLoop, AfterRefusal
  <1>1. ASSUME NEW p \in Producer, Produce(p)
        PROVE  TypeOK'
    BY <1>1 DEF Produce
  <1>2. ASSUME NEW p \in Producer, ProducerThrows(p)
        PROVE  TypeOK'
    BY <1>2 DEF ProducerThrows
  <1>3. ASSUME NEW p \in Producer, ProducerEnds(p)
        PROVE  TypeOK'
    BY <1>3 DEF ProducerEnds
  <1>4. ASSUME NEW p \in Producer, WaitForTurn(p)
        PROVE  TypeOK'
    BY <1>4 DEF WaitForTurn
  <1>5. ASSUME NEW p \in Producer, GiveUpTurn(p)
        PROVE  TypeOK'
    BY <1>5 DEF GiveUpTurn
  <1>6. ASSUME NEW p \in Producer, TakeTurn(p)
        PROVE  TypeOK'
    BY <1>6 DEF TakeTurn
  <1>7. ASSUME NEW p \in Producer, PushBlocks(p)
        PROVE  TypeOK'
    BY <1>7 DEF PushBlocks, PushWaits
  <1>8. ASSUME NEW p \in Producer, PushFails(p)
        PROVE  TypeOK'
    BY <1>8 DEF PushFails, PushRefused
  <1>9. ASSUME NEW p \in Producer, Push(p)
        PROVE  TypeOK'
    <2>1. queue' \in Seq(Nat) /\ Len(queue') <= MaxSize
      BY <1>9, MaxSizeAssumption DEF Push, PushStores
    <2> QED
      BY <1>9, <2>1 DEF Push, PushStores
  <1>10. ASSUME NEW p \in Producer, NotifyAfterPush(p)
        PROVE  TypeOK'
    BY <1>10 DEF Control, NotifyAfterPush, NotifyPop, WakeOne
  <1>11. ASSUME NEW p \in Producer, Unlock(p)
        PROVE  TypeOK'
    BY <1>11 DEF Unlock
  <1>12. ASSUME NEW p \in Producer, PushException(p)
        PROVE  TypeOK'
    <2>1. pc' \in [Thread -> Labels]
      <3>1. PICK l \in {"notifyBoth", "orderFinish", ret[p]} :
               pc' = [pc EXCEPT ![p] = l]
        BY <1>12 DEF PushException
      <3>2. ret[p] \in Labels
        BY <1>12 DEF Control, PushException
      <3> QED
        BY <3>1, <3>2
    <2>2. finish' \in BOOLEAN /\ pushedException' \in BOOLEAN
      BY <1>12, Zenon DEF PushException, StoreException
    <2>3. UNCHANGED <<queue, pushWait, popWait, orderVars, kind, next, index,
                      numThreads, ret, historyVars>>
      BY <1>12 DEF PushException, StoreException
    <2> QED
      BY <2>1, <2>2, <2>3
  <1>13. ASSUME NEW p \in Producer, Decrement(p)
        PROVE  TypeOK'
    BY <1>13 DEF Decrement
  <1>14. ASSUME NEW p \in Producer, FinishIfLast(p)
        PROVE  TypeOK'
    BY <1>14 DEF FinishIfLast
  <1>15. ASSUME NEW t \in Thread, Finish(t)
        PROVE  TypeOK'
    BY <1>15 DEF Finish, SetFinish
  <1>16. ASSUME NEW t \in Thread, NotifyFinish(t)
        PROVE  TypeOK'
    BY <1>16 DEF Control, NotifyFinish, NotifyBoth
  <1>17. ASSUME NEW t \in Thread, FinishOrder(t)
        PROVE  TypeOK'
    BY <1>17 DEF FinishOrder
  <1>18. ASSUME NEW t \in Thread, NotifyTurn(t)
        PROVE  TypeOK'
    BY <1>18 DEF Control, NotifyTurn
  <1>19. CASE PopBlocks
    BY <1>19 DEF PopBlocks, PopWaits
  <1>20. CASE Pop
    <2>1. /\ queue' \in Seq(Nat) /\ Len(queue') <= MaxSize
          /\ popped' \in Seq(Nat)
      BY <1>20, MaxSizeAssumption, HeadTailProperties DEF Pop, PopTakes
    <2> QED
      BY <1>20, <2>1 DEF Pop, PopTakes
  <1>21. CASE NotifyAfterPop
    BY <1>21 DEF NotifyAfterPop, NotifyPush, WakeOne
  <1>22. CASE PopRethrows
    BY <1>22 DEF PopRethrows, PopThrows, LeaveLoop
  <1>23. CASE PopReturnsEnd
    BY <1>23 DEF PopReturnsEnd, PopEnds, LeaveLoop
  <1>24. CASE Join
    BY <1>24 DEF Join
  <1>25. CASE Stop
    BY <1>25 DEF Stop, LeaveLoop
  <1>26. CASE UNCHANGED vars
    BY <1>26 DEF vars
  <1> QED
    BY <1>1, <1>2, <1>3, <1>4, <1>5, <1>6, <1>7, <1>8, <1>9, <1>10, <1>11,
           <1>12, <1>13, <1>14, <1>15, <1>16, <1>17, <1>18, <1>19, <1>20,
           <1>21, <1>22, <1>23, <1>24, <1>25, <1>26 DEF Next, ProducerStep,
           FinishStep, ConsumerStep, Destroyed

\* Every step preserves the control state.
LEMMA ControlStep == TypeOK /\ Control /\ [Next]_vars => Control'
  <1> SUFFICES ASSUME TypeOK, Control, [Next]_vars
               PROVE  Control'
    OBVIOUS
  <1> USE ManagerAssumption
      DEF TypeOK, Control, Goto, At, queueVars, orderVars, historyVars, Thread,
          AfterLoop, AfterRefusal, ordered
  <1>1. ASSUME NEW p \in Producer, Produce(p)
        PROVE  Control'
    BY <1>1 DEF Produce
  <1>2. ASSUME NEW p \in Producer, ProducerThrows(p)
        PROVE  Control'
    BY <1>2 DEF ProducerThrows
  <1>3. ASSUME NEW p \in Producer, ProducerEnds(p)
        PROVE  Control'
    BY <1>3 DEF ProducerEnds
  <1>4. ASSUME NEW p \in Producer, WaitForTurn(p)
        PROVE  Control'
    BY <1>4 DEF WaitForTurn
  <1>5. ASSUME NEW p \in Producer, GiveUpTurn(p)
        PROVE  Control'
    BY <1>5 DEF GiveUpTurn
  <1>6. ASSUME NEW p \in Producer, TakeTurn(p)
        PROVE  Control'
    BY <1>6 DEF TakeTurn
  <1>7. ASSUME NEW p \in Producer, PushBlocks(p)
        PROVE  Control'
    BY <1>7 DEF PushBlocks, PushWaits
  <1>8. ASSUME NEW p \in Producer, PushFails(p)
        PROVE  Control'
    BY <1>8 DEF PushFails, PushRefused
  <1>9. ASSUME NEW p \in Producer, Push(p)
        PROVE  Control'
    BY <1>9 DEF Push, PushStores
  <1>10. ASSUME NEW p \in Producer, NotifyAfterPush(p)
        PROVE  Control'
    BY <1>10 DEF NotifyAfterPush, NotifyPop, WakeOne
  <1>11. ASSUME NEW p \in Producer, Unlock(p)
        PROVE  Control'
    BY <1>11 DEF Unlock
  <1>12. ASSUME NEW p \in Producer, PushException(p)
        PROVE  Control'
    <2>1. /\ pc' = [pc EXCEPT ![p] = IF ~pushedException THEN "notifyBoth"
                                       ELSE IF ordered THEN "orderFinish" ELSE ret[p]]
          /\ UNCHANGED <<kind, mutex, ret>>
      BY <1>12 DEF PushException
    <2>2. pc[p] = "exception"
      BY <1>12 DEF PushException
    <2> QED
      BY <2>1, <2>2
  <1>13. ASSUME NEW p \in Producer, Decrement(p)
        PROVE  Control'
    BY <1>13 DEF Decrement
  <1>14. ASSUME NEW p \in Producer, FinishIfLast(p)
        PROVE  Control'
    BY <1>14 DEF FinishIfLast
  <1>15. ASSUME NEW t \in Thread, Finish(t)
        PROVE  Control'
    BY <1>15 DEF Finish, SetFinish
  <1>16. ASSUME NEW t \in Thread, NotifyFinish(t)
        PROVE  Control'
    BY <1>16 DEF NotifyFinish, NotifyBoth
  <1>17. ASSUME NEW t \in Thread, FinishOrder(t)
        PROVE  Control'
    BY <1>17 DEF FinishOrder
  <1>18. ASSUME NEW t \in Thread, NotifyTurn(t)
        PROVE  Control'
    BY <1>18 DEF NotifyTurn
  <1>19. CASE PopBlocks
    BY <1>19 DEF PopBlocks, PopWaits
  <1>20. CASE Pop
    BY <1>20 DEF Pop, PopTakes
  <1>21. CASE NotifyAfterPop
    BY <1>21 DEF NotifyAfterPop, NotifyPush, WakeOne
  <1>22. CASE PopRethrows
    BY <1>22 DEF PopRethrows, PopThrows, LeaveLoop
  <1>23. CASE PopReturnsEnd
    BY <1>23 DEF PopReturnsEnd, PopEnds, LeaveLoop
  <1>24. CASE Join
    BY <1>24 DEF Join
  <1>25. CASE Stop
    BY <1>25 DEF Stop, LeaveLoop
  <1>26. CASE UNCHANGED vars
    BY <1>26 DEF vars
  <1> QED
    BY <1>1, <1>2, <1>3, <1>4, <1>5, <1>6, <1>7, <1>8, <1>9, <1>10, <1>11,
           <1>12, <1>13, <1>14, <1>15, <1>16, <1>17, <1>18, <1>19, <1>20,
           <1>21, <1>22, <1>23, <1>24, <1>25, <1>26 DEF Next, ProducerStep,
           FinishStep, ConsumerStep, Destroyed

-----------------------------------------------------------------------------
\* What most steps have in common: they neither store, produce nor admit a
\* value, and no producer starts a push or returns to its loop.
Quiet ==
    /\ UNCHANGED <<kind, next, index, nextIndex>>
    /\ finish => finish'
    /\ \A p \in Producer :
          /\ pc'[p] = "push" => pc[p] = "push"
          /\ ~finish' /\ pc[p] = "push" => pc'[p] = "push"
          /\ kind = "stream" /\ pc'[p] \in {"produce", "notifyPop"} =>
                pc[p] \in {"produce", "notifyPop"}

\* Such steps preserve the order.
LEMMA QuietOrder ==
    ASSUME TypeOK, Order, Quiet, Stored' = Stored
    PROVE  Order'
  <1> USE DEF Quiet, ordered
  <1>0. Len(Stored) \in Nat
    BY StoredType
  <1>1. Consecutive'
    BY DEF Order, Consecutive
  <1>2. Turn'
    BY <1>0 DEF Order, Turn
  <1>3. StreamTurn'
    BY <1>0 DEF Order, StreamTurn
  <1>4. Distinct'
    BY DEF Order, Distinct
  <1> QED
    BY <1>1, <1>2, <1>3, <1>4 DEF Order

\* The quiet steps of the producers.
LEMMA ProducerQuiet ==
    ASSUME TypeOK, Control, NEW p \in Producer,
           \/ ProducerEnds(p) \/ WaitForTurn(p) \/ GiveUpTurn(p) \/ PushBlocks(p)
           \/ PushFails(p) \/ NotifyAfterPush(p) \/ Unlock(p) \/ PushException(p)
           \/ Decrement(p) \/ FinishIfLast(p)
    PROVE  Quiet /\ Stored' = Stored
  <1> USE ManagerAssumption
      DEF TypeOK, Control, Quiet, Goto, At, queueVars, orderVars, historyVars,
          Thread, ordered, AfterLoop, AfterRefusal
  <1>1. CASE ProducerEnds(p)
    BY <1>1, StoredSame DEF ProducerEnds
  <1>2. CASE WaitForTurn(p)
    BY <1>2, StoredSame DEF WaitForTurn
  <1>3. CASE GiveUpTurn(p)
    BY <1>3, StoredSame DEF GiveUpTurn
  <1>4. CASE PushBlocks(p)
    BY <1>4, StoredSame DEF PushBlocks, PushWaits
  <1>5. CASE PushFails(p)
    BY <1>5, StoredSame DEF PushFails, PushRefused
  <1>6. CASE NotifyAfterPush(p)
    BY <1>6, StoredSame DEF NotifyAfterPush, NotifyPop
  <1>7. CASE Unlock(p)
    BY <1>7, StoredSame DEF Unlock
  <1>8. CASE PushException(p)
    <2>1. /\ pc' = [pc EXCEPT ![p] = IF ~pushedException THEN "notifyBoth"
                                       ELSE IF ordered THEN "orderFinish" ELSE ret[p]]
          /\ UNCHANGED <<kind, next, index, nextIndex, queue, popped>>
      BY <1>8 DEF PushException, StoreException
    <2>2. pc[p] = "exception" /\ ret[p] \in {"finish", "decrement", "ended"}
      BY <1>8 DEF PushException
    <2>3. finish => finish'
      BY <1>8, Zenon DEF PushException, StoreException
    <2>4. Stored' = Stored
      BY <2>1, StoredSame
    <2> QED
      BY <2>1, <2>2, <2>3, <2>4
  <1>9. CASE Decrement(p)
    BY <1>9, StoredSame DEF Decrement
  <1>10. CASE FinishIfLast(p)
    BY <1>10, StoredSame DEF FinishIfLast
  <1> QED
    BY <1>1, <1>2, <1>3, <1>4, <1>5, <1>6, <1>7, <1>8, <1>9, <1>10

\* The steps of finish, and of the notification of the turn.
LEMMA FinishQuiet ==
    ASSUME TypeOK, Control, NEW t \in Thread, FinishStep(t)
    PROVE  Quiet /\ Stored' = Stored
  <1> USE ManagerAssumption
      DEF TypeOK, Control, Quiet, Goto, At, queueVars, orderVars, historyVars,
          Thread, ordered
  <1>1. CASE Finish(t)
    BY <1>1, StoredSame DEF Finish, SetFinish
  <1>2. CASE NotifyFinish(t)
    BY <1>2, StoredSame DEF NotifyFinish, NotifyBoth
  <1>3. CASE FinishOrder(t)
    BY <1>3, StoredSame DEF FinishOrder
  <1>4. CASE NotifyTurn(t)
    BY <1>4, StoredSame DEF NotifyTurn
  <1> QED
    BY <1>1, <1>2, <1>3, <1>4 DEF FinishStep

\* The steps of the consumer.
LEMMA ConsumerQuiet ==
    ASSUME TypeOK, ConsumerStep \/ Stop
    PROVE  Quiet /\ Stored' = Stored
  <1> USE ManagerAssumption
      DEF TypeOK, Quiet, Goto, At, queueVars, orderVars, historyVars, Thread
  <1>1. CASE PopBlocks
    BY <1>1, StoredSame DEF PopBlocks, PopWaits
  <1>2. CASE Pop
    BY <1>2, StoredPop DEF Pop, PopTakes
  <1>3. CASE NotifyAfterPop
    BY <1>3, StoredSame DEF NotifyAfterPop, NotifyPush
  <1>4. CASE PopRethrows \/ PopReturnsEnd \/ Stop
    BY <1>4, StoredSame DEF PopRethrows, PopThrows, PopReturnsEnd, PopEnds, Stop,
                            LeaveLoop
  <1>5. CASE Join
    BY <1>5, StoredSame DEF Join
  <1> QED
    BY <1>1, <1>2, <1>3, <1>4, <1>5 DEF ConsumerStep

\* Producing a value: a plain queue gets one that is larger than the others,
\* a stream the next one.
LEMMA ProduceOrder ==
    ASSUME TypeOK, Control, Order, NEW p \in Producer, Produce(p)
    PROVE  Order'
  <1> USE ManagerAssumption
      DEF TypeOK, Goto, At, queueVars, orderVars, historyVars, Thread, ordered
  <1>0. /\ Stored' = Stored /\ Len(Stored) \in Nat /\ Stored \in Seq(Nat)
        /\ \A i \in 1 .. Len(Stored) : Stored[i] \in Nat
    BY StoredSame, StoredType, ElementOfSeq, SMTT(30) DEF Produce
  <1>1. Consecutive'
    BY <1>0 DEF Order, Consecutive, Produce
  <1>2. Turn'
    BY <1>0 DEF Order, Turn, Produce
  <1>3. StreamTurn'
    <2> SUFFICES ASSUME kind = "stream"
                 PROVE  StreamTurn'
      BY DEF StreamTurn, Produce
    <2>1. /\ next' = next + 1 /\ index'[p] = next
          /\ pc' = [pc EXCEPT ![p] = "push"] /\ pc[p] = "produce"
      BY DEF Produce
    <2>2. next = Len(Stored)
      BY <2>1 DEF Order, StreamTurn
    <2>3. \A r \in Producer \ {p} : pc'[r] = "ended"
      BY <2>1 DEF Control
    <2>4. /\ Len(Stored)' = Len(Stored)
          /\ pc'[p] = "push" /\ index'[p] = Len(Stored) /\ next' = Len(Stored) + 1
      BY <1>0, <2>1, <2>2
    <2> QED
      BY <2>3, <2>4 DEF StreamTurn
  <1>4. Distinct'
    <2> SUFFICES ASSUME kind = "plain"
                 PROVE  Distinct'
      BY DEF Distinct, Produce
    <2>1. /\ next' = next + 1 /\ next \in Nat /\ kind' = kind
          /\ index' = [index EXCEPT ![p] = next]
          /\ pc' = [pc EXCEPT ![p] = "push"]
      BY DEF Produce
    <2>2. \A i \in 1 .. Len(Stored) :
             /\ Stored[i] < next
             /\ \A j \in 1 .. (i - 1) : Stored[j] /= Stored[i]
             /\ \A r \in Producer : pc[r] = "push" => Stored[i] /= index[r]
      BY DEF Order, Distinct
    <2>3. \A r \in Producer : pc[r] = "push" =>
             /\ index[r] < next
             /\ \A u \in Producer \ {r} : pc[u] = "push" => index[u] /= index[r]
      BY DEF Order, Distinct
    <2> QED
      BY <1>0, <2>1, <2>2, <2>3 DEF Distinct
  <1> QED
    BY <1>1, <1>2, <1>3, <1>4 DEF Order

\* A producer that throws may lose a value, but stores nothing any more.
LEMMA ThrowOrder ==
    ASSUME TypeOK, Control, Order, NEW p \in Producer, ProducerThrows(p)
    PROVE  Order'
  <1> USE ManagerAssumption
      DEF TypeOK, Goto, At, queueVars, orderVars, historyVars, Thread, ordered
  <1>0. /\ Stored' = Stored /\ Len(Stored) \in Nat
        /\ \A i \in 1 .. Len(Stored) : Stored[i] \in Nat
    BY StoredSame, StoredType, ElementOfSeq, SMTT(30) DEF ProducerThrows
  <1>1. Consecutive'
    BY <1>0 DEF Order, Consecutive, ProducerThrows
  <1>2. Turn'
    BY <1>0 DEF Order, Turn, ProducerThrows
  <1>3. StreamTurn'
    BY <1>0 DEF Order, StreamTurn, ProducerThrows, Control
  <1>4. Distinct'
    BY <1>0 DEF Order, Distinct, ProducerThrows
  <1> QED
    BY <1>1, <1>2, <1>3, <1>4 DEF Order

\* Taking the turn: nobody else is pushing, because the mutex is free.
LEMMA TurnOrder ==
    ASSUME TypeOK, Control, Order, NEW p \in Producer, TakeTurn(p)
    PROVE  Order'
  <1> USE ManagerAssumption
      DEF TypeOK, Goto, At, queueVars, orderVars, historyVars, Thread, ordered
  <1>0. Stored' = Stored /\ Len(Stored) \in Nat
    BY StoredSame, StoredType DEF TakeTurn
  <1>1. kind = "ordered" /\ kind' = "ordered"
    BY DEF TakeTurn, Control
  <1>2. \A r \in Producer : pc[r] /= "push"
    BY <1>1 DEF TakeTurn, Control
  <1>3. Consecutive'
    BY <1>0, <1>1 DEF Order, Consecutive
  <1>4. Turn'
    BY <1>0, <1>1, <1>2 DEF Order, Turn, TakeTurn
  <1>5. StreamTurn' /\ Distinct'
    BY <1>1 DEF StreamTurn, Distinct
  <1> QED
    BY <1>3, <1>4, <1>5 DEF Order

\* Storing a value.
LEMMA PushOrder ==
    ASSUME TypeOK, Control, Order, NEW p \in Producer, Push(p)
    PROVE  Order'
  <1> USE ManagerAssumption
      DEF TypeOK, Goto, At, queueVars, orderVars, historyVars, Thread, ordered
  <1> DEFINE n == Len(Stored)
  <1>0. /\ Stored \in Seq(Nat) /\ n \in Nat
        /\ Len(Stored') = n + 1
        /\ \A i \in 1 .. n : Stored'[i] = Stored[i]
        /\ Stored'[n + 1] = index[p]
    <2>1. Stored \in Seq(Nat) /\ index[p] \in Nat
      BY StoredType
    <2>2. Stored' = Append(Stored, index[p])
      BY StoredPush
    <2> QED
      BY <2>1, <2>2, AppendProperties
  <1>1. /\ pc[p] = "push" /\ ~finish
        /\ pc' = [pc EXCEPT ![p] = "notifyPop"]
        /\ UNCHANGED <<kind, next, index, nextIndex, finish>>
    BY DEF Push, PushStores
  <1>2. kind /= "plain" => index[p] = n
    BY <1>1 DEF Order, Turn, StreamTurn
  <1>3. Consecutive'
    <2> SUFFICES ASSUME kind /= "plain", NEW i \in 1 .. (n + 1)
                 PROVE  Stored'[i] = i - 1
      BY <1>0, <1>1 DEF Consecutive
    <2>1. CASE i \in 1 .. n
      BY <1>0, <2>1 DEF Order, Consecutive
    <2>2. CASE i = n + 1
      BY <1>0, <1>2, <2>2
    <2> QED
      BY <1>0, <2>1, <2>2, SMTT(30)
  <1>4. Turn'
    <2> SUFFICES ASSUME kind = "ordered"
                 PROVE  Turn'
      BY <1>1 DEF Turn
    <2>1. \A r \in Producer : pc'[r] /= "push"
      BY <1>1 DEF Control
    <2>2. nextIndex = n + 1
      BY <1>1 DEF Order, Turn
    <2> QED
      BY <1>0, <1>1, <2>1, <2>2 DEF Turn
  <1>5. StreamTurn'
    <2> SUFFICES ASSUME kind = "stream"
                 PROVE  StreamTurn'
      BY <1>1 DEF StreamTurn
    <2>1. next = n + 1
      BY <1>1 DEF Order, StreamTurn
    <2>2. \A r \in Producer \ {p} : pc[r] = "ended" /\ pc'[r] = "ended"
      BY <1>1 DEF Control
    <2> QED
      BY <1>0, <1>1, <2>1, <2>2 DEF StreamTurn
  <1>6. Distinct'
    <2> SUFFICES ASSUME kind = "plain"
                 PROVE  Distinct'
      BY <1>1 DEF Distinct
    <2>1. \A i \in 1 .. n :
             /\ Stored[i] < next /\ Stored[i] /= index[p]
             /\ \A j \in 1 .. (i - 1) : Stored[j] /= Stored[i]
             /\ \A r \in Producer : pc[r] = "push" => Stored[i] /= index[r]
      BY <1>1 DEF Order, Distinct
    <2>2. \A r \in Producer : pc[r] = "push" =>
             /\ index[r] < next
             /\ \A u \in Producer \ {r} : pc[u] = "push" => index[u] /= index[r]
      BY DEF Order, Distinct
    <2>3. ASSUME NEW i \in 1 .. (n + 1)
          PROVE  /\ Stored'[i] < next
                 /\ \A j \in 1 .. (i - 1) : Stored'[j] /= Stored'[i]
                 /\ \A r \in Producer : pc'[r] = "push" => Stored'[i] /= index[r]
      <3>1. CASE i \in 1 .. n
        <4>1. \A j \in 1 .. (i - 1) : j \in 1 .. n
          BY <1>0, <3>1
        <4>2. \A r \in Producer : pc'[r] = "push" => pc[r] = "push"
          BY <1>1
        <4> QED
          BY <1>0, <2>1, <3>1, <4>1, <4>2, ZenonT(30)
      <3>2. CASE i = n + 1
        BY <1>0, <1>1, <2>1, <2>2, <3>2, SMTT(30)
      <3>3. i \in 1 .. n \/ i = n + 1
        BY <1>0
      <3> HIDE DEF n
      <3> QED
        BY <3>1, <3>2, <3>3, Zenon
    <2> QED
      BY <1>0, <1>1, <2>2, <2>3 DEF Distinct
  <1> QED
    BY <1>3, <1>4, <1>5, <1>6 DEF Order

\* Every step preserves the order.
LEMMA OrderStep == TypeOK /\ Control /\ Order /\ [Next]_vars => Order'
  <1> SUFFICES ASSUME TypeOK, Control, Order, [Next]_vars
               PROVE  Order'
    OBVIOUS
  <1>1. ASSUME NEW p \in Producer, ProducerStep(p)
        PROVE  Order'
    BY <1>1, ProduceOrder, ThrowOrder, TurnOrder, PushOrder, ProducerQuiet,
       QuietOrder DEF ProducerStep
  <1>2. ASSUME NEW t \in Thread, FinishStep(t)
        PROVE  Order'
    BY <1>2, FinishQuiet, QuietOrder
  <1>3. CASE ConsumerStep \/ Stop
    BY <1>3, ConsumerQuiet, QuietOrder
  <1>4. CASE UNCHANGED vars
    <2>1. Quiet /\ Stored' = Stored
      BY <1>4, StoredSame DEF vars, Quiet, queueVars, orderVars, historyVars
    <2> QED
      BY <2>1, QuietOrder
  <1> QED
    BY <1>1, <1>2, <1>3, <1>4 DEF Next, Destroyed

\* The invariant holds in every reachable state.
THEOREM IInvAlways == Spec => []IInv
  <1>1. IInv /\ [Next]_vars => IInv'
    BY TypeStep, ControlStep, OrderStep DEF IInv
  <1> QED
    BY InitIInv, <1>1, PTL DEF Spec

\* The queue never holds more than MaxSize values, and the variables have
\* their types.
THEOREM TypeCorrect == Spec => []TypeOK
  BY IInvAlways, PTL DEF IInv

\* Whatever the number of producer threads, of values and of places: the
\* ordered queue and a stream yield the values in order, without a gap, and
\* the plain queue yields none of them twice.
THEOREM AlwaysYieldsInOrder == Spec => []YieldsInOrder
  <1>1. IInv => YieldsInOrder
    <2> SUFFICES ASSUME IInv
                 PROVE  YieldsInOrder
      OBVIOUS
    <2>1. /\ Len(Stored) = Len(popped) + Len(queue)
          /\ Len(popped) \in Nat /\ Len(queue) \in Nat
          /\ \A i \in 1 .. Len(popped) : Stored[i] = popped[i]
      <3>1. TypeOK
        BY DEF IInv
      <3>2. popped \in Seq(Nat) /\ queue \in Seq(Nat)
        BY <3>1 DEF TypeOK
      <3>3. Len(popped) \in Nat /\ Len(queue) \in Nat
        BY <3>2
      <3> QED
        BY <3>1, <3>3, StoredType, Zenon
    <2>2. CASE kind = "plain"
      <3>1. ASSUME NEW i \in 1 .. Len(popped), NEW j \in 1 .. (i - 1)
            PROVE  popped[j] /= popped[i]
        <4>1. i \in 1 .. Len(Stored) /\ j \in 1 .. Len(popped)
          BY <2>1
        <4>2. Stored[j] /= Stored[i]
          BY <2>2, <4>1 DEF IInv, Order, Distinct
        <4> QED
          BY <2>1, <4>1, <4>2
      <3> QED
        BY <2>2, <3>1 DEF YieldsInOrder
    <2>3. CASE kind /= "plain"
      BY <2>1, <2>3 DEF IInv, Order, Consecutive, YieldsInOrder
    <2> QED
      BY <2>2, <2>3
  <1> QED
    BY IInvAlways, <1>1, PTL

-----------------------------------------------------------------------------
\* For the end: the producers that have not yet left their task's loop and
\* been counted, ...
Active(p) ==
    \/ pc[p] \in {"produce", "lock", "push", "notifyPop", "exception", "decrement"}
    \/ /\ pc[p] \in {"unlock", "notifyTurn", "notifyBoth", "orderFinish"}
       /\ ret[p] /= "ended"

ActiveProducers == {p \in Producer : Active(p)}

\* ... those that go on producing, and the values that have been stored.
Looping(p) ==
    \/ pc[p] \in {"produce", "lock", "push", "notifyPop"}
    \/ pc[p] \in {"unlock", "notifyTurn"} /\ ret[p] = "produce"

Values == {Stored[i] : i \in 1 .. Len(Stored)}

\* The consumer pops until its iteration ends.
Popping == pc[Consumer] \in {"pop", "notifyPush"} <=> outcome = "none"

\* numUnfinishedThreads_ counts the threads that are not done.
Counting == kind /= "stream" => numThreads = Cardinality(ActiveProducers)

\* A producer finishes the queue when no other is active.  So the queue is
\* finished, or its order is, only then, or by an exception, or when the
\* consumer has stopped.
Finishing ==
    /\ \A p \in Producer :
          /\ pc[p] = "finish" => ActiveProducers = {}
          /\ ret[p] = "finish" => kind = "stream"
          /\ pc[p] /= "destroyQueue"
          /\ pc[p] = "exception" => ret[p] = AfterLoop
    /\ finish /\ ~pushedException /\ outcome = "none" => ActiveProducers = {}
    /\ orderFinish \/ pushedException => finish
    /\ \A t \in Thread : pc[t] \in {"notifyBoth", "orderFinish"} => finish

\* A failure is reported by an exception in the queue.
Reported ==
    /\ \A p \in Producer :
          /\ p \in failed => pushedException \/ pc[p] = "exception"
          /\ pc[p] = "exception" => p \in failed
    /\ pushedException => failed /= {}

\* As long as no producer fails and the consumer pops, every value that has
\* been taken is stored or about to be, and someone takes the next one.
NoneLost ==
    /\ outcome = "none" /\ failed = {} =>
          /\ next = NumItems \/ \E p \in Producer : Looping(p)
          /\ \A v \in 0 .. (next - 1) :
                v \in Values \/ \E p \in Producer : pc[p] \in {"lock", "push"} /\ index[p] = v
    /\ Values \subseteq 0 .. (next - 1)
    /\ \A p \in Producer : pc[p] \in {"lock", "push"} => index[p] < next

\* The end that pop reports stays right.
Ended == outcome = "end" => ActiveProducers = {} /\ EndMeansComplete

Completeness == Popping /\ Counting /\ Finishing /\ Reported /\ NoneLost /\ Ended

-----------------------------------------------------------------------------
\* What every step does to the threads and the flags that the end depends on:
\* nobody becomes active again, and only who is counted ceases to be active; a
\* producer enters finish when the count is zero; and the queue is finished by
\* a producer there, by an exception, or after the consumer's iteration.
EndStep ==
    /\ UNCHANGED kind /\ Popping' /\ Reported'
    /\ pushedException => pushedException'
    /\ outcome' = "none" => outcome = "none"
    /\ \A p \in Producer :
          /\ Active(p)' => Active(p)
          /\ Active(p) => Active(p)' \/ kind = "stream" \/ Decrement(p)
          /\ ret'[p] = "finish" => kind = "stream"
          /\ pc'[p] /= "destroyQueue"
          /\ pc'[p] = "exception" => ret'[p] = AfterLoop
          /\ pc'[p] = "finish" => pc[p] = "finish" \/ kind = "stream" \/ numThreads <= 0
    /\ orderFinish' \/ pushedException' => finish'
    /\ \A t \in Thread : pc'[t] \in {"notifyBoth", "orderFinish"} => finish'
    /\ finish' => \/ finish \/ pushedException' \/ outcome /= "none"
                  \/ \E p \in Producer : pc[p] = "finish"
    /\ numThreads' = numThreads \/ \E p \in Producer : Decrement(p)

\* The steps of the producers.
LEMMA ProducerEndStep ==
    ASSUME TypeOK, Control, Popping, Finishing, Reported,
           NEW p \in Producer, ProducerStep(p)
    PROVE  EndStep
  <1> USE ManagerAssumption
      DEF TypeOK, Control, Popping, Finishing, Reported, EndStep, Active, Goto, At,
          queueVars, orderVars, historyVars, Thread, ordered, AfterLoop, AfterRefusal
  <1>1. CASE Produce(p)
    BY <1>1 DEF Produce
  <1>2. CASE ProducerThrows(p)
    BY <1>2 DEF ProducerThrows
  <1>3. CASE ProducerEnds(p)
    BY <1>3 DEF ProducerEnds
  <1>4. CASE WaitForTurn(p)
    BY <1>4 DEF WaitForTurn
  <1>5. CASE GiveUpTurn(p)
    BY <1>5 DEF GiveUpTurn
  <1>6. CASE TakeTurn(p)
    BY <1>6 DEF TakeTurn
  <1>7. CASE PushBlocks(p)
    BY <1>7 DEF PushBlocks, PushWaits
  <1>8. CASE PushFails(p)
    BY <1>8 DEF PushFails, PushRefused
  <1>9. CASE Push(p)
    BY <1>9 DEF Push, PushStores
  <1>10. CASE NotifyAfterPush(p)
    BY <1>10 DEF NotifyAfterPush, NotifyPop
  <1>11. CASE Unlock(p)
    BY <1>11 DEF Unlock
  <1>12. CASE PushException(p)
    <2>0. pc[p] = "exception" /\ UNCHANGED <<ret, kind, numThreads, outcome, failed, orderFinish>>
      BY <1>12 DEF PushException
    <2>1. CASE pushedException
      <3>1. UNCHANGED <<finish, pushedException>>
        BY <1>12, <2>1 DEF PushException
      <3>2. pc' = [pc EXCEPT ![p] = IF ordered THEN "orderFinish" ELSE ret[p]]
        BY <1>12, <2>1 DEF PushException
      <3> QED
        BY <2>0, <2>1, <3>1, <3>2
    <2>2. CASE ~pushedException
      <3>1. finish' /\ pushedException'
        BY <1>12, <2>2, Zenon DEF PushException, StoreException
      <3>2. pc' = [pc EXCEPT ![p] = "notifyBoth"]
        BY <1>12, <2>2 DEF PushException
      <3> QED
        BY <2>0, <2>2, <3>1, <3>2
    <2> QED
      BY <2>1, <2>2
  <1>13. CASE Decrement(p)
    <2>1. /\ pc[p] = "decrement" /\ pc' = [pc EXCEPT ![p] = "check"]
          /\ UNCHANGED <<queueVars, orderVars, kind, ret, historyVars>>
      BY <1>13 DEF Decrement
    <2> QED
      BY <1>13, <2>1
  <1>14. CASE FinishIfLast(p)
    BY <1>14 DEF FinishIfLast
  <1> QED
    BY <1>1, <1>2, <1>3, <1>4, <1>5, <1>6, <1>7, <1>8, <1>9, <1>10, <1>11, <1>12,
       <1>13, <1>14 DEF ProducerStep

\* The steps of finish.
LEMMA FinishEndStep ==
    ASSUME TypeOK, Control, Popping, Finishing, Reported, NEW t \in Thread, FinishStep(t)
    PROVE  EndStep
  <1> USE ManagerAssumption
      DEF TypeOK, Control, Popping, Finishing, Reported, EndStep, Active, Goto, At,
          queueVars, orderVars, historyVars, Thread, ordered, AfterLoop
  <1>1. CASE Finish(t)
    BY <1>1 DEF Finish, SetFinish
  <1>2. CASE NotifyFinish(t)
    BY <1>2 DEF NotifyFinish, NotifyBoth
  <1>3. CASE FinishOrder(t)
    BY <1>3 DEF FinishOrder
  <1>4. CASE NotifyTurn(t)
    BY <1>4 DEF NotifyTurn
  <1> QED
    BY <1>1, <1>2, <1>3, <1>4 DEF FinishStep

\* The steps of the consumer.
LEMMA ConsumerEndStep ==
    ASSUME TypeOK, Control, Popping, Finishing, Reported, ConsumerStep \/ Stop
    PROVE  EndStep
  <1> USE ManagerAssumption
      DEF TypeOK, Control, Popping, Finishing, Reported, EndStep, Active, Goto, At,
          queueVars, orderVars, historyVars, Thread, ordered, AfterLoop
  <1>1. CASE PopBlocks
    BY <1>1 DEF PopBlocks, PopWaits
  <1>2. CASE Pop
    BY <1>2 DEF Pop, PopTakes
  <1>3. CASE NotifyAfterPop
    BY <1>3 DEF NotifyAfterPop, NotifyPush
  <1>4. CASE PopRethrows
    BY <1>4 DEF PopRethrows, PopThrows, LeaveLoop
  <1>5. CASE PopReturnsEnd
    BY <1>5 DEF PopReturnsEnd, PopEnds, LeaveLoop
  <1>6. CASE Stop
    BY <1>6 DEF Stop, LeaveLoop
  <1>7. CASE Join
    BY <1>7 DEF Join
  <1> QED
    BY <1>1, <1>2, <1>3, <1>4, <1>5, <1>6, <1>7 DEF ConsumerStep

\* All the steps.
LEMMA AllEndSteps ==
    ASSUME TypeOK, Control, Popping, Finishing, Reported, [Next]_vars
    PROVE  EndStep
  <1>1. CASE UNCHANGED vars
    BY <1>1 DEF vars, queueVars, orderVars, historyVars, EndStep, Popping, Finishing,
                Reported, Active, Thread, AfterLoop
  <1> QED
    BY <1>1, ProducerEndStep, FinishEndStep, ConsumerEndStep DEF Next, Destroyed

\* No producer becomes active again.
LEMMA ActiveShrinks ==
    ASSUME EndStep
    PROVE  /\ ActiveProducers' \subseteq ActiveProducers
           /\ kind /= "stream" => \A p \in ActiveProducers : p \in ActiveProducers' \/ Decrement(p)
  BY DEF EndStep, ActiveProducers

\* The count stays right: a producer decrements it when it ceases to be active.
LEMMA CountingStep ==
    ASSUME TypeOK, Counting, EndStep
    PROVE  Counting'
  <1> SUFFICES ASSUME kind /= "stream"
               PROVE  numThreads' = Cardinality(ActiveProducers')
    BY DEF Counting, EndStep
  <1>1. numThreads = Cardinality(ActiveProducers) /\ IsFiniteSet(ActiveProducers)
    BY ManagerAssumption, FS_Subset DEF Counting, ActiveProducers
  <1>2. ASSUME NEW p \in Producer, Decrement(p)
        PROVE  numThreads' = Cardinality(ActiveProducers')
    <2>1. /\ pc[p] = "decrement" /\ pc' = [pc EXCEPT ![p] = "check"] /\ ret' = ret
          /\ numThreads' = numThreads - 1
      BY <1>2 DEF Decrement, At, Goto
    <2>2. ActiveProducers' = ActiveProducers \ {p} /\ p \in ActiveProducers
      BY <2>1, ManagerAssumption DEF ActiveProducers, Active, TypeOK, Thread
    <2> QED
      BY <1>1, <2>1, <2>2, FS_RemoveElement
  <1>3. CASE \A p \in Producer : ~Decrement(p)
    <2>1. ActiveProducers' = ActiveProducers
      BY <1>3, ActiveShrinks DEF ActiveProducers
    <2> QED
      BY <1>1, <1>3, <2>1 DEF EndStep
  <1> QED
    BY <1>2, <1>3

\* The queue is finished only when nobody is active, ...
LEMMA FinishingStep ==
    ASSUME TypeOK, Control, Control', Counting, Finishing, EndStep
    PROVE  Finishing'
  <1>1. ASSUME NEW p \in Producer, pc'[p] = "finish"
        PROVE  ActiveProducers' = {}
    <2>1. CASE pc[p] = "finish"
      BY <2>1, ActiveShrinks DEF Finishing
    <2>2. CASE kind = "stream"
      <3>1. kind' = "stream" /\ \A r \in Producer \ {p} : pc'[r] = "ended"
        BY <1>1, <2>2 DEF Control, EndStep
      <3> QED
        BY <1>1, <3>1 DEF ActiveProducers, Active
    <2>3. CASE kind /= "stream" /\ numThreads <= 0
      <3>1. IsFiniteSet(ActiveProducers) /\ Cardinality(ActiveProducers) <= 0
        BY <2>3, ManagerAssumption, FS_Subset DEF Counting, ActiveProducers
      <3>2. ActiveProducers = {}
        BY <3>1, FS_EmptySet, FS_CardinalityType
      <3> QED
        BY <3>2, ActiveShrinks
    <2> QED
      BY <1>1, <2>1, <2>2, <2>3 DEF EndStep
  <1>2. finish' /\ ~pushedException' /\ outcome' = "none" => ActiveProducers' = {}
    BY ActiveShrinks DEF EndStep, Finishing
  <1> QED
    BY <1>1, <1>2 DEF Finishing, EndStep, AfterLoop

\* ... so that no push is refused as long as the consumer pops and nobody fails.
LEMMA NotRefused ==
    ASSUME Finishing, Reported, outcome = "none", failed = {}, NEW p \in Producer, Active(p)
    PROVE  ~finish /\ ~orderFinish
  BY DEF Finishing, Reported, ActiveProducers

\* The stored values are those of the sequence, with the one that is pushed.
LEMMA ValuesFacts ==
    ASSUME TypeOK
    PROVE  /\ Stored' = Stored => Values' = Values
           /\ \A p \in Producer : Push(p) => Values' = Values \cup {index[p]}
  <1>1. Stored' = Stored => Values' = Values
    BY DEF Values
  <1>2. ASSUME NEW p \in Producer, Push(p)
        PROVE  Values' = Values \cup {index[p]}
    <2>1. Stored \in Seq(Nat) /\ Stored' = Append(Stored, index[p]) /\ index[p] \in Nat
      BY <1>2, StoredType, StoredPush DEF TypeOK
    <2>2. /\ Len(Stored') = Len(Stored) + 1 /\ Stored'[Len(Stored) + 1] = index[p]
          /\ \A i \in 1 .. Len(Stored) : Stored'[i] = Stored[i]
          /\ Len(Stored) \in Nat
      BY <2>1, AppendProperties
    <2> DEFINE n == Len(Stored)
    <2>3. 1 .. (n + 1) = (1 .. n) \cup {n + 1}
      BY <2>2
    <2> QED
      BY <2>2, <2>3 DEF Values
  <1> QED
    BY <1>1, <1>2

-----------------------------------------------------------------------------
\* What most steps do to the values: nothing is taken, stored or given up.
Keeping ==
    /\ UNCHANGED <<next, index, failed>> /\ Stored' = Stored
    /\ outcome' = "none" => outcome = "none"
    /\ \A p \in Producer :
          /\ pc'[p] \in {"lock", "push"} <=> pc[p] \in {"lock", "push"}
          /\ Looping(p) => Looping(p)'

\* Such steps lose no value.
LEMMA KeepingLosesNone ==
    ASSUME TypeOK, NoneLost, Keeping
    PROVE  NoneLost'
  <1>1. Values' = Values
    BY ValuesFacts DEF Keeping
  <1> QED
    BY <1>1 DEF NoneLost, Keeping

\* The steps of the producers that are of this kind.
LEMMA ProducerKeeping ==
    ASSUME TypeOK, Control, NEW p \in Producer,
           \/ WaitForTurn(p) \/ TakeTurn(p) \/ PushBlocks(p) \/ NotifyAfterPush(p)
           \/ Unlock(p) \/ PushException(p) \/ Decrement(p) \/ FinishIfLast(p)
    PROVE  Keeping
  <1> USE ManagerAssumption, StoredSame
      DEF TypeOK, Control, Keeping, Looping, Goto, At, queueVars, orderVars,
          historyVars, Thread, ordered
  <1>1. CASE WaitForTurn(p)
    BY <1>1 DEF WaitForTurn
  <1>2. CASE TakeTurn(p)
    BY <1>2 DEF TakeTurn
  <1>3. CASE PushBlocks(p)
    BY <1>3 DEF PushBlocks, PushWaits
  <1>4. CASE NotifyAfterPush(p)
    BY <1>4 DEF NotifyAfterPush, NotifyPop
  <1>5. CASE Unlock(p)
    BY <1>5 DEF Unlock
  <1>6. CASE PushException(p)
    <2>1. /\ pc[p] = "exception" /\ ret[p] \in {"finish", "decrement", "ended"}
          /\ UNCHANGED <<next, index, failed, outcome, ret, queue, popped>>
      BY <1>6 DEF PushException, StoreException
    <2>2. PICK l \in {"notifyBoth", "orderFinish", ret[p]} : pc' = [pc EXCEPT ![p] = l]
      BY <1>6 DEF PushException
    <2> QED
      BY <2>1, <2>2
  <1>7. CASE Decrement(p)
    BY <1>7 DEF Decrement
  <1>8. CASE FinishIfLast(p)
    BY <1>8 DEF FinishIfLast
  <1> QED
    BY <1>1, <1>2, <1>3, <1>4, <1>5, <1>6, <1>7, <1>8

\* The steps of finish.
LEMMA FinishKeeping ==
    ASSUME TypeOK, Control, NEW t \in Thread, FinishStep(t)
    PROVE  Keeping
  <1> USE ManagerAssumption, StoredSame
      DEF TypeOK, Control, Keeping, Looping, Goto, At, queueVars, orderVars,
          historyVars, Thread, ordered
  <1>1. CASE Finish(t)
    BY <1>1 DEF Finish, SetFinish
  <1>2. CASE NotifyFinish(t)
    BY <1>2 DEF NotifyFinish, NotifyBoth
  <1>3. CASE FinishOrder(t)
    BY <1>3 DEF FinishOrder
  <1>4. CASE NotifyTurn(t)
    BY <1>4 DEF NotifyTurn
  <1> QED
    BY <1>1, <1>2, <1>3, <1>4 DEF FinishStep

\* The steps of the consumer.
LEMMA ConsumerKeeping ==
    ASSUME TypeOK, ConsumerStep \/ Stop
    PROVE  Keeping
  <1>1. Stored' = Stored
    BY ConsumerQuiet
  <1> USE ManagerAssumption
      DEF TypeOK, Keeping, Looping, Goto, At, queueVars, orderVars, historyVars, Thread
  <1>2. CASE PopBlocks \/ Pop \/ NotifyAfterPop
    BY <1>1, <1>2 DEF PopBlocks, PopWaits, Pop, PopTakes, NotifyAfterPop, NotifyPush
  <1>3. CASE PopRethrows \/ PopReturnsEnd \/ Stop
    BY <1>1, <1>3 DEF PopRethrows, PopThrows, PopReturnsEnd, PopEnds, Stop, LeaveLoop
  <1>4. CASE Join
    BY <1>1, <1>4 DEF Join
  <1> QED
    BY <1>2, <1>3, <1>4 DEF ConsumerStep

\* A value that is taken is held by its producer, ...
LEMMA ProduceLosesNone ==
    ASSUME TypeOK, NoneLost, NEW p \in Producer, Produce(p)
    PROVE  NoneLost'
  <1> USE ManagerAssumption
  <1>1. /\ pc[p] = "produce" /\ next' = next + 1 /\ index' = [index EXCEPT ![p] = next]
        /\ pc' = [pc EXCEPT ![p] = IF ordered THEN "lock" ELSE "push"]
        /\ UNCHANGED <<failed, outcome>> /\ Values' = Values /\ next \in Nat
        /\ next < NumItems
    BY StoredSame, ValuesFacts DEF Produce, At, Goto, queueVars, historyVars, TypeOK
  <1>2. /\ pc'[p] \in {"lock", "push"} /\ index'[p] = next
        /\ \A r \in Producer \ {p} : pc'[r] = pc[r] /\ index'[r] = index[r]
    BY <1>1 DEF TypeOK, Thread
  <1>3. Looping(p)'
    BY <1>2 DEF Looping
  <1>4. \A v \in 0 .. (next' - 1) : v \in 0 .. (next - 1) \/ v = next
    BY <1>1
  <1>5. outcome = "none" /\ failed = {} => \A v \in 0 .. (next' - 1) :
           v \in Values \/ \E r \in Producer : pc'[r] \in {"lock", "push"} /\ index'[r] = v
    <2> SUFFICES ASSUME outcome = "none", failed = {}, NEW v \in 0 .. (next' - 1), v \notin Values
                 PROVE  \E r \in Producer : pc'[r] \in {"lock", "push"} /\ index'[r] = v
      OBVIOUS
    <2>1. CASE v = next
      BY <1>2, <2>1
    <2>2. CASE v \in 0 .. (next - 1)
      <3>1. PICK r \in Producer : pc[r] \in {"lock", "push"} /\ index[r] = v
        BY <2>2 DEF NoneLost
      <3> QED
        BY <1>1, <1>2, <3>1
    <2> QED
      BY <1>4, <2>1, <2>2
  <1>6. Values' \subseteq 0 .. (next' - 1)
    BY <1>1 DEF NoneLost
  <1>7. \A r \in Producer : pc'[r] \in {"lock", "push"} => index'[r] < next'
    BY <1>1, <1>2 DEF NoneLost, TypeOK
  <1> QED
    BY <1>1, <1>3, <1>5, <1>6, <1>7 DEF NoneLost

\* ... which stores it, ...
LEMMA PushLosesNone ==
    ASSUME TypeOK, NoneLost, NEW p \in Producer, Push(p)
    PROVE  NoneLost'
  <1> USE ManagerAssumption
  <1>1. /\ pc[p] = "push" /\ pc' = [pc EXCEPT ![p] = "notifyPop"]
        /\ UNCHANGED <<next, index, failed, outcome>>
        /\ Values' = Values \cup {index[p]}
    BY ValuesFacts DEF Push, At, Goto, historyVars
  <1>2. pc'[p] = "notifyPop" /\ \A r \in Producer \ {p} : pc'[r] = pc[r]
    BY <1>1 DEF TypeOK, Thread
  <1>3. Looping(p)'
    BY <1>2 DEF Looping
  <1>4. index[p] \in 0 .. (next - 1)
    BY <1>1 DEF NoneLost, TypeOK
  <1> QED
    BY <1>1, <1>2, <1>3, <1>4, ZenonT(30) DEF NoneLost

\* ... and is not refused, nor does it leave the loop before the last value.
LEMMA LeavingLosesNone ==
    ASSUME TypeOK, Finishing, Reported, NoneLost, NEW p \in Producer,
           ProducerThrows(p) \/ ProducerEnds(p) \/ GiveUpTurn(p) \/ PushFails(p)
    PROVE  NoneLost'
  <1> USE ManagerAssumption
  <1>1. Values' = Values /\ outcome' = outcome
    BY StoredSame, ValuesFacts DEF ProducerThrows, ProducerEnds, GiveUpTurn, PushFails,
       PushRefused, queueVars, historyVars
  <1>2. next' \in Nat /\ next \in Nat /\ next' >= next /\ index' = index
    BY DEF ProducerThrows, ProducerEnds, GiveUpTurn, PushFails, TypeOK
  <1>3. \A r \in Producer : pc'[r] \in {"lock", "push"} => pc[r] \in {"lock", "push"}
    BY DEF ProducerThrows, ProducerEnds, GiveUpTurn, PushFails, AfterLoop, AfterRefusal,
       ordered, Goto, TypeOK, Thread
  <1>4. Values' \subseteq 0 .. (next' - 1)
    BY <1>1, <1>2 DEF NoneLost
  <1>5. \A r \in Producer : pc'[r] \in {"lock", "push"} => index'[r] < next'
    BY <1>2, <1>3 DEF NoneLost, TypeOK
  <1>6. ASSUME outcome' = "none", failed' = {}
        PROVE  /\ next' = NumItems \/ \E r \in Producer : Looping(r)'
               /\ \A v \in 0 .. (next' - 1) :
                     \/ v \in Values'
                     \/ \E r \in Producer : pc'[r] \in {"lock", "push"} /\ index'[r] = v
    <2>1. ~ProducerThrows(p)
      BY <1>6 DEF ProducerThrows
    <2>2. failed = {} /\ outcome = "none"
      BY <1>1, <1>6, <2>1 DEF ProducerEnds, GiveUpTurn, PushFails, historyVars
    <2>3. ~GiveUpTurn(p)
      BY <2>2, NotRefused DEF GiveUpTurn, At, Active
    <2>4. ~PushFails(p)
      BY <2>2, NotRefused DEF PushFails, PushRefused, At, Active
    <2>5. ProducerEnds(p)
      BY <2>1, <2>3, <2>4
    <2>6. next' = NumItems /\ next' = next
      BY <2>5 DEF ProducerEnds
    <2>7. \A r \in Producer : pc[r] \in {"lock", "push"} => pc'[r] \in {"lock", "push"}
      BY <2>5 DEF ProducerEnds, At, Goto, TypeOK, Thread
    <2> QED
      BY <1>1, <1>2, <2>2, <2>6, <2>7 DEF NoneLost
  <1> QED
    BY <1>4, <1>5, <1>6 DEF NoneLost

\* No step loses a value.
LEMMA NoneLostStep ==
    ASSUME TypeOK, Control, Finishing, Reported, NoneLost, [Next]_vars
    PROVE  NoneLost'
  <1>1. ASSUME NEW p \in Producer, ProducerStep(p)
        PROVE  NoneLost'
    BY <1>1, ProduceLosesNone, PushLosesNone, LeavingLosesNone, ProducerKeeping,
       KeepingLosesNone DEF ProducerStep
  <1>2. CASE UNCHANGED vars
    <2>1. Keeping
      BY <1>2, StoredSame DEF vars, queueVars, historyVars, Keeping, Looping
    <2> QED
      BY <2>1, KeepingLosesNone
  <1> QED
    BY <1>1, <1>2, FinishKeeping, ConsumerKeeping, KeepingLosesNone DEF Next, Destroyed

\* At the end nobody is active, so that all the values have been popped; and
\* nothing happens to them afterwards.
LEMMA EndedStep ==
    ASSUME TypeOK, Control, Completeness, EndStep, [Next]_vars
    PROVE  Ended'
  <1> USE DEF Completeness
  <1> SUFFICES ASSUME outcome' = "end"
               PROVE  ActiveProducers' = {} /\ EndMeansComplete'
    BY DEF Ended
  <1>1. CASE outcome = "end"
    <2>1. ActiveProducers' = {}
      BY <1>1, ActiveShrinks DEF Ended
    <2>2. \A p \in Producer : pc[p] /= "produce"
      BY <1>1 DEF Ended, ActiveProducers, Active
    <2>3. pc[Consumer] /= "pop"
      BY <1>1 DEF Popping
    <2>4. failed' = failed
      BY <2>2 DEF Next, ProducerStep, FinishStep, ConsumerStep, Destroyed, vars, historyVars,
         At, Produce, ProducerThrows, ProducerEnds, WaitForTurn, GiveUpTurn, TakeTurn,
         PushBlocks, PushFails, Push, NotifyAfterPush, Unlock, PushException, Decrement,
         FinishIfLast, Finish, NotifyFinish, FinishOrder, NotifyTurn, PopBlocks, Pop,
         NotifyAfterPop, PopRethrows, PopReturnsEnd, Stop, LeaveLoop, Join
    <2>5. popped' = popped
      BY <2>3 DEF Next, ProducerStep, FinishStep, ConsumerStep, Destroyed, vars, historyVars,
         At, Produce, ProducerThrows, ProducerEnds, WaitForTurn, GiveUpTurn, TakeTurn,
         PushBlocks, PushFails, Push, NotifyAfterPush, Unlock, PushException, Decrement,
         FinishIfLast, Finish, NotifyFinish, FinishOrder, NotifyTurn, PopBlocks, Pop,
         NotifyAfterPop, PopRethrows, PopReturnsEnd, Stop, LeaveLoop, Join
    <2> QED
      BY <1>1, <2>1, <2>4, <2>5 DEF Ended, EndMeansComplete
  <1>2. CASE outcome /= "end"
    <2>1. PopReturnsEnd
      BY <1>2 DEF Next, ProducerStep, FinishStep, ConsumerStep, Destroyed, vars, historyVars,
         Produce, ProducerThrows, ProducerEnds, WaitForTurn, GiveUpTurn, TakeTurn,
         PushBlocks, PushFails, Push, NotifyAfterPush, Unlock, PushException, Decrement,
         FinishIfLast, Finish, NotifyFinish, FinishOrder, NotifyTurn, PopBlocks, Pop,
         NotifyAfterPop, PopRethrows, Stop, LeaveLoop, Join
    <2>2. /\ outcome = "none" /\ finish /\ ~pushedException /\ queue = <<>>
          /\ UNCHANGED <<popped, failed>>
      BY <2>1 DEF PopReturnsEnd, PopEnds, At, Popping, LeaveLoop
    <2>3. ActiveProducers = {} /\ ActiveProducers' = {}
      BY <2>2, ActiveShrinks DEF Finishing
    <2>4. \A p \in Producer : ~Active(p)
      BY <2>3 DEF ActiveProducers
    <2>5. failed = {}
      BY <2>2, <2>4 DEF Reported, Active, TypeOK
    <2>6. \A p \in Producer : ~Looping(p) /\ pc[p] \notin {"lock", "push"}
      BY <2>4 DEF Looping, Active
    <2>7. next = NumItems /\ Values = 0 .. (NumItems - 1)
      BY <2>2, <2>5, <2>6 DEF NoneLost
    <2>8. Values = {popped[i] : i \in 1 .. Len(popped)}
      <3>1. popped \in Seq(Nat) /\ Len(popped) \in Nat /\ Len(queue) = 0
        BY <2>2 DEF TypeOK
      <3>2. Stored = popped
        BY <2>2, <3>1, ConcatEmptySeq DEF Stored
      <3> QED
        BY <3>2 DEF Values
    <2> QED
      BY <2>2, <2>3, <2>5, <2>7, <2>8 DEF EndMeansComplete
  <1> QED
    BY <1>1, <1>2

\* The end is right at first, ...
LEMMA InitCompleteness == Init => Completeness
  <1> SUFFICES ASSUME Init
               PROVE  Completeness
    OBVIOUS
  <1> USE ManagerAssumption DEF Init, QueueInit
  <1>1. PICK P \in SUBSET Producer :
           /\ numThreads = Cardinality(P)
           /\ pc = [t \in Thread |-> IF t = Consumer THEN "pop"
                                     ELSE IF t \in P THEN "produce" ELSE "ended"]
           /\ P /= {}
    <2>1. CASE kind = "stream"
      BY <2>1
    <2>2. CASE kind /= "stream"
      BY <2>2
    <2> QED
      BY <2>1, <2>2
  <1>2. /\ pc[Consumer] = "pop" /\ \A p \in P : pc[p] = "produce"
        /\ \A p \in Producer \ P : pc[p] = "ended"
    BY <1>1 DEF Thread
  <1>3. Values = {} /\ popped = <<>>
    BY DEF Values, Stored
  <1>4. ActiveProducers = P
    BY <1>1, <1>2 DEF ActiveProducers, Active
  <1>5. Popping /\ Counting /\ Ended
    BY <1>1, <1>2, <1>4 DEF Popping, Counting, Ended
  <1>6. ~finish /\ ~pushedException /\ ~orderFinish
    BY Zenon
  <1>7. \A t \in Thread : pc[t] \in {"pop", "produce", "ended"} /\ ret[t] = "none"
    BY <1>1
  <1>8. Finishing /\ Reported
    BY <1>6, <1>7 DEF Finishing, Reported, Thread
  <1>9. NoneLost
    <2>1. PICK p \in Producer : p \in P /\ pc[p] = "produce"
      BY <1>1, <1>2
    <2>2. Looping(p)
      BY <2>1 DEF Looping
    <2>3. next = 0 /\ 0 .. (next - 1) = {}
      OBVIOUS
    <2>4. \A r \in Producer : pc[r] \notin {"lock", "push"}
      BY <1>2
    <2> QED
      BY <1>3, <2>2, <2>3, <2>4 DEF NoneLost
  <1> QED
    BY <1>5, <1>8, <1>9 DEF Completeness

\* ... and always.
LEMMA CompletenessAlways == Spec => []Completeness
  <1>1. TypeOK /\ Control /\ Control' /\ Completeness /\ [Next]_vars => Completeness'
    <2> SUFFICES ASSUME TypeOK, Control, Control', Completeness, [Next]_vars
                 PROVE  Completeness'
      OBVIOUS
    <2>1. EndStep
      BY AllEndSteps DEF Completeness
    <2>2. Popping' /\ Reported'
      BY <2>1 DEF EndStep
    <2>3. Counting' /\ Finishing'
      BY <2>1, CountingStep, FinishingStep DEF Completeness
    <2>4. NoneLost'
      BY NoneLostStep DEF Completeness
    <2>5. Ended'
      BY <2>1, EndedStep
    <2> QED
      BY <2>2, <2>3, <2>4, <2>5 DEF Completeness
  <1>2. IInv => TypeOK /\ Control
    BY DEF IInv
  <1> QED
    BY <1>1, <1>2, InitCompleteness, IInvAlways, PTL DEF Spec

\* When pop tells the consumer of the end, it has popped all the values that
\* there are, and no producer has failed: for any number of threads, of values
\* and of places, over the plain and the ordered queue and for a stream.
THEOREM EndIsComplete == Spec => []EndMeansComplete
  <1>1. Completeness => EndMeansComplete
    BY DEF Completeness, Ended, EndMeansComplete
  <1> QED
    BY <1>1, CompletenessAlways, PTL
=============================================================================
