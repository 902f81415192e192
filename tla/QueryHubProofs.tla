--------------------------- MODULE QueryHubProofs ---------------------------
(***************************************************************************)
(* Proofs about QueryHub, for any number of ids, queries, sessions and     *)
(* updates: the hub and the registry agree on who sends.                   *)
(***************************************************************************)
EXTENDS QueryHub, SequenceTheorems, TLAPS

QueryLabels ==
    {"new", "registered", "sending", "finished", "deleted", "signalled",
     "unregistered", "ended"}

SessionLabels ==
    {"new", "accepting", "writing", "resuming", "woken", "waiting", "closed", "ended"}

\* What the posted functions are.
Function == Session \cup {"update", "end"}

\* The entries of the hub.
Entries == [distributor : Client \cup {None}, started : BOOLEAN]

TypeOK ==
    /\ registry \subseteq QueryId
    /\ socketDistributors \in [QueryId -> Entries]
    /\ holds \in [Client -> Client \cup {None}]
    /\ cleanup \in [Client -> {"none", "armed"}]
    /\ strand \in [Client -> Seq(Function)]
    /\ waiting \in [Client -> Seq(Session)]
    /\ pc \in [Client -> QueryLabels \cup SessionLabels]
    /\ \A q \in Query : pc[q] \in QueryLabels
    /\ \A s \in Session : pc[s] \in SessionLabels

\* The ids fit: a client has a distributor of its id, and so has an entry.
SameId ==
    /\ \A c \in Client : holds[c] /= None => IdOf[holds[c]] = IdOf[c]
    /\ \A i \in QueryId :
          LET d == socketDistributors[i].distributor
          IN  d /= None => IdOf[d] = i

\* A client that has not come to the hub has not created a distributor, so
\* that the one it creates is a new one.
Fresh ==
    \A c \in Client : pc[c] \in {"new", "registered"} =>
        /\ \A e \in Client : holds[e] /= c
        /\ \A i \in QueryId : socketDistributors[i].distributor /= c
        /\ strand[c] = <<>>

\* Where a query has its id for itself: from its registration to the end of
\* signalEnd.
InUse == {"registered", "sending", "finished", "deleted", "signalled"}

\* The ids in use are registered, and each by one query.
Registered ==
    /\ \A q \in Query : pc[q] \in InUse => IdOf[q] \in registry
    /\ \A q, r \in Query :
          pc[q] \in InUse /\ pc[r] \in InUse /\ IdOf[q] = IdOf[r] => q = r

\* The entry of a running query is its own, and no entry is once it has been
\* deleted.
Running ==
    \A q \in Query :
        /\ pc[q] \in {"sending", "finished", "deleted"} => holds[q] /= None
        /\ pc[q] \in {"sending", "finished"} => Entry(q).distributor = holds[q]
        /\ pc[q] = "deleted" => Entry(q).distributor /= holds[q]

\* An entry with a sender belongs to a running query as long as its
\* distributor lives.
Started ==
    \A i \in QueryId : socketDistributors[i].started =>
        /\ socketDistributors[i].distributor /= None
        /\ \A d \in Client : socketDistributors[i].distributor = d /\ Alive(d) =>
              \E q \in Query : IdOf[q] = i /\ pc[q] \in {"sending", "finished"}

\* The distributor of an entry has yet to clean up.
Armed ==
    \A i \in QueryId :
        LET d == socketDistributors[i].distributor
        IN  d /= None => cleanup[d] = "armed"

IInv == TypeOK /\ SameId /\ Fresh /\ Registered /\ Running /\ Started /\ Armed

-----------------------------------------------------------------------------
\* The two cases of createOrAcquireDistributorInternal.
LEMMA AcquireCases ==
    ASSUME TypeOK, NEW c \in Client, NEW isSender \in BOOLEAN, Acquire(c, isSender)
    PROVE  \/ /\ Entry(c).distributor \in Client /\ Alive(Entry(c).distributor)
              /\ ~(isSender /\ Entry(c).started)
              /\ holds' = [holds EXCEPT ![c] = Entry(c).distributor]
              /\ socketDistributors' = [socketDistributors EXCEPT ![IdOf[c]] =
                    [distributor |-> Entry(c).distributor,
                     started |-> isSender \/ Entry(c).started]]
              /\ cleanup' = cleanup
           \/ /\ Entry(c).distributor = None \/ ~Alive(Entry(c).distributor)
              /\ holds' = [holds EXCEPT ![c] = c]
              /\ socketDistributors' = [socketDistributors EXCEPT ![IdOf[c]] =
                    [distributor |-> c, started |-> isSender]]
              /\ cleanup' = [cleanup EXCEPT ![c] = "armed"]
  <1> DEFINE d == Entry(c).distributor
             found == d /= None /\ Alive(d)
  <1>1. d \in Client \cup {None}
    BY HubAssumption DEF TypeOK, Entry, Entries
  <1>2. CASE found
    <2>1. (isSender \/ (found /\ Entry(c).started)) = (isSender \/ Entry(c).started)
      BY <1>2
    <2> QED
      BY <1>1, <1>2, <2>1, Zenon DEF Acquire
  <1>3. CASE ~found
    <2>1. (isSender \/ (found /\ Entry(c).started)) = isSender
      BY <1>3
    <2> QED
      BY <1>3, <2>1, Zenon DEF Acquire
  <1> QED
    BY <1>2, <1>3

\* An entry that has been deleted is an entry.
LEMMA NoEntryType == NoEntry \in Entries
  <1>1. FALSE \in BOOLEAN
    BY Zenon
  <1> QED
    BY <1>1 DEF NoEntry, Entries

\* Acquiring a distributor keeps the types of the hub.
LEMMA AcquireType ==
    ASSUME TypeOK, NEW c \in Client, NEW isSender \in BOOLEAN, Acquire(c, isSender)
    PROVE  /\ socketDistributors' \in [QueryId -> Entries]
           /\ holds' \in [Client -> Client \cup {None}]
           /\ cleanup' \in [Client -> {"none", "armed"}]
  <1>1. Entry(c) \in Entries
    BY HubAssumption DEF TypeOK, Entry
  <1>2. ASSUME NEW d \in Client, NEW b \in BOOLEAN
        PROVE  [distributor |-> d, started |-> b] \in Entries
    BY DEF Entries
  <1>3. (isSender \/ Entry(c).started) \in BOOLEAN
    BY Zenon
  <1>4. socketDistributors' \in [QueryId -> Entries]
    <2> DEFINE old == [distributor |-> Entry(c).distributor,
                       started |-> isSender \/ Entry(c).started]
               new == [distributor |-> c, started |-> isSender]
    <2>1. \/ /\ Entry(c).distributor \in Client
             /\ socketDistributors' = [socketDistributors EXCEPT ![IdOf[c]] = old]
          \/ socketDistributors' = [socketDistributors EXCEPT ![IdOf[c]] = new]
      BY AcquireCases, Zenon
    <2>2. new \in Entries /\ (Entry(c).distributor \in Client => old \in Entries)
      BY <1>2, <1>3, Zenon
    <2> HIDE DEF old, new
    <2> QED
      BY <2>1, <2>2 DEF TypeOK
  <1>5. holds' \in [Client -> Client \cup {None}]
    BY AcquireCases DEF TypeOK
  <1>6. cleanup' \in [Client -> {"none", "armed"}]
    BY AcquireCases DEF TypeOK
  <1> QED
    BY <1>4, <1>5, <1>6

\* So does posting a function.
LEMMA PostType ==
    ASSUME TypeOK, NEW d, NEW f \in Function, Post(d, f)
    PROVE  strand' \in [Client -> Seq(Function)]
  <1>1. CASE d \in Client
    <2>1. Append(strand[d], f) \in Seq(Function)
      BY <1>1 DEF TypeOK
    <2> QED
      BY <1>1, <2>1 DEF TypeOK, Post
  <1>2. CASE d \notin Client
    BY <1>2 DEF TypeOK, Post
  <1> QED
    BY <1>1, <1>2

\* The three kinds of functions that a strand runs: in each of them, it keeps
\* the rest of its functions, and what it adds to them are sessions.
LEMMA RunStrandCases ==
    ASSUME TypeOK, NEW d \in Client, RunStrand(d)
    PROVE  /\ strand[d] /= <<>>
           /\ \E added \in Seq(Session) :
                 strand' = [strand EXCEPT ![d] = Tail(@) \o added]
           /\ waiting' \in [Client -> Seq(Session)]
           /\ pc' \in [Client -> QueryLabels \cup SessionLabels]
           /\ \A q \in Query : pc'[q] = pc[q]
           /\ \A s \in Session : pc'[s] \in SessionLabels
           /\ \A s \in Session : pc'[s] = "new" => pc[s] = "new"
           /\ UNCHANGED hubVars
  <1> DEFINE f == Head(strand[d])
  <1> USE HubAssumption DEF TypeOK, Client, Goto, QueryLabels, SessionLabels
  <1>1. strand[d] /= <<>> /\ UNCHANGED hubVars /\ Tail(strand[d]) \in Seq(Function)
    BY DEF RunStrand
  <1>2. CASE f \in {"update", "end"} /\ RunWakeUp(d, f = "update")
    <2>1. /\ waiting[d] \in Seq(Session)
          /\ strand' = [strand EXCEPT ![d] = Tail(@) \o waiting[d]]
          /\ waiting' = [waiting EXCEPT ![d] = <<>>]
      BY <1>2 DEF RunWakeUp
    <2>2. \A i \in 1 .. Len(waiting[d]) : waiting[d][i] \in Session
      BY <2>1
    <2>3. pc' = [c \in Client |->
                    IF \E i \in 1 .. Len(waiting[d]) : waiting[d][i] = c
                    THEN "woken" ELSE pc[c]]
      BY <1>2 DEF RunWakeUp
    <2>4. waiting' \in [Client -> Seq(Session)]
      <3>1. <<>> \in Seq(Session)
        OBVIOUS
      <3> QED
        BY <2>1, <3>1
    <2>5. \E added \in Seq(Session) : strand' = [strand EXCEPT ![d] = Tail(@) \o added]
      BY <2>1
    <2> QED
      BY <1>1, <2>2, <2>3, <2>4, <2>5, ZenonT(30)
  <1>3. ASSUME f \in Session, pc[f] \in {"resuming", "woken"},
               strand' = [strand EXCEPT ![d] = Tail(@)],
               \/ Fetch(f) /\ UNCHANGED waiting
               \/ /\ waiting' = [waiting EXCEPT ![d] = Append(@, f)]
                  /\ Goto(f, "waiting")
        PROVE  /\ \E added \in Seq(Session) :
                     strand' = [strand EXCEPT ![d] = Tail(@) \o added]
               /\ waiting' \in [Client -> Seq(Session)]
               /\ pc' \in [Client -> QueryLabels \cup SessionLabels]
               /\ \A q \in Query : pc'[q] = pc[q]
               /\ \A s \in Session : pc'[s] \in SessionLabels
               /\ \A s \in Session : pc'[s] = "new" => pc[s] = "new"
    <2>1. <<>> \in Seq(Session) /\ Tail(strand[d]) \o <<>> = Tail(strand[d])
      BY <1>1, ConcatEmptySeq
    <2>2. PICK l \in {"writing", "closed", "waiting"} : pc' = [pc EXCEPT ![f] = l]
      BY <1>3 DEF Fetch
    <2> HIDE DEF f
    <2>3. waiting' \in [Client -> Seq(Session)]
      <3>1. Append(waiting[d], f) \in Seq(Session)
        BY <1>3
      <3> QED
        BY <1>3, <3>1
    <2>4. \E added \in Seq(Session) : strand' = [strand EXCEPT ![d] = Tail(@) \o added]
      BY <1>3, <2>1
    <2> QED
      BY <1>3, <2>2, <2>3, <2>4
  <1>4. CASE f \in Session /\ pc[f] = "resuming" /\ RunResumed(d, f)
    <2>1. /\ strand' = [strand EXCEPT ![d] = Tail(@)]
          /\ \/ Fetch(f) /\ UNCHANGED waiting
             \/ /\ waiting' = [waiting EXCEPT ![d] = Append(@, f)]
                /\ Goto(f, "waiting")
      BY <1>4, Zenon DEF RunResumed
    <2> QED
      BY <1>1, <1>3, <1>4, <2>1
  <1>5. CASE f \in Session /\ pc[f] = "woken" /\ RunWoken(d, f)
    BY <1>1, <1>3, <1>5 DEF RunWoken
  <1> QED
    BY <1>1, <1>2, <1>4, <1>5 DEF RunStrand

\* A client that closes its websocket: only the wait of its session is taken
\* from the sequence of the waits.
LEMMA ClientClosesWaiting ==
    ASSUME TypeOK, NEW s \in Session, ClientCloses(s)
    PROVE  waiting' \in [Client -> Seq(Session)]
  <1>1. CASE UNCHANGED waiting
    BY <1>1 DEF TypeOK
  <1>2. ASSUME NEW i \in DOMAIN waiting[holds[s]],
               waiting' = [waiting EXCEPT ![holds[s]] = RemoveAt(@, i)]
        PROVE  waiting' \in [Client -> Seq(Session)]
    <2> DEFINE d == holds[s]
    <2>1. CASE d \in Client
      <3>1. waiting[d] \in Seq(Session)
        BY <2>1 DEF TypeOK
      <3>2. i \in 1 .. Len(waiting[d]) /\ Len(waiting[d]) \in Nat
        BY <1>2, <3>1
      <3>3. /\ SubSeq(waiting[d], 1, i - 1) \in Seq(Session)
            /\ SubSeq(waiting[d], i + 1, Len(waiting[d])) \in Seq(Session)
        BY <3>1, <3>2, SubSeqProperties
      <3>4. RemoveAt(waiting[d], i) \in Seq(Session)
        BY <3>3, ConcatProperties DEF RemoveAt
      <3> QED
        BY <1>2, <2>1, <3>4 DEF TypeOK
    <2>2. CASE d \notin Client
      BY <1>2, <2>2 DEF TypeOK
    <2> QED
      BY <2>1, <2>2
  <1> QED
    BY <1>1, <1>2 DEF ClientCloses

\* Every step keeps the types.
LEMMA StepTypeOK ==
    ASSUME TypeOK, [Next]_vars
    PROVE  TypeOK'
  <1> USE HubAssumption DEF TypeOK, Client, Goto, Post, hubVars, distributorVars,
           QueryLabels, SessionLabels
  <1>1. ASSUME NEW q \in Query, Register(q)
        PROVE  TypeOK'
    BY <1>1 DEF Register
  <1>2. ASSUME NEW q \in Query, RefuseId(q)
        PROVE  TypeOK'
    BY <1>2 DEF RefuseId
  <1>3. ASSUME NEW q \in Query, AcquireForSending(q)
        PROVE  TypeOK'
    <2>1. TRUE \in BOOLEAN /\ q \in Client
      BY Zenon
    <2>2. Acquire(q, TRUE)
      BY <1>3 DEF AcquireForSending
    <2> QED
      BY <1>3, <2>1, <2>2, AcquireType DEF AcquireForSending
  <1>4. ASSUME NEW q \in Query, addQueryStatusUpdate(q)
        PROVE  TypeOK'
    <2>1. strand' \in [Client -> Seq(Function)]
      BY <1>4, PostType DEF addQueryStatusUpdate, Function
    <2> QED
      BY <1>4, <2>1 DEF addQueryStatusUpdate
  <1>5. ASSUME NEW q \in Query, SetFinished(q)
        PROVE  TypeOK'
    BY <1>5 DEF SetFinished
  <1>6. ASSUME NEW q \in Query, DeleteFromDistributors(q)
        PROVE  TypeOK'
    BY <1>6, NoEntryType DEF DeleteFromDistributors
  <1>7. ASSUME NEW q \in Query, PostEnd(q)
        PROVE  TypeOK'
    <2>1. strand' \in [Client -> Seq(Function)]
      BY <1>7, PostType DEF PostEnd, Function
    <2> QED
      BY <1>7, <2>1 DEF PostEnd
  <1>8. ASSUME NEW q \in Query, Unregister(q)
        PROVE  TypeOK'
    BY <1>8 DEF Unregister
  <1>9. ASSUME NEW s \in Session, AcquireForReceiving(s)
        PROVE  TypeOK'
    <2>1. FALSE \in BOOLEAN /\ s \in Client
      BY Zenon
    <2>2. Acquire(s, FALSE)
      BY <1>9 DEF AcquireForReceiving
    <2> QED
      BY <1>9, <2>1, <2>2, AcquireType DEF AcquireForReceiving
  <1>10. ASSUME NEW s \in Session, Resume(s)
        PROVE  TypeOK'
    <2>1. strand' \in [Client -> Seq(Function)]
      BY <1>10, PostType DEF Resume, Function
    <2> QED
      BY <1>10, <2>1 DEF Resume
  <1>11. ASSUME NEW s \in Session, ClientCloses(s)
        PROVE  TypeOK'
    <2>1. strand' \in [Client -> Seq(Function)]
      BY <1>11, PostType DEF ClientCloses, Function
    <2>2. waiting' \in [Client -> Seq(Session)]
      BY <1>11, ClientClosesWaiting
    <2>3. PICK l \in SessionLabels : pc' = [pc EXCEPT ![s] = l]
      BY <1>11 DEF ClientCloses
    <2> QED
      BY <1>11, <2>1, <2>2, <2>3 DEF ClientCloses
  <1>12. ASSUME NEW c \in Client, Release(c)
        PROVE  TypeOK'
    BY <1>12 DEF Release
  <1>13. ASSUME NEW c \in Client, CleanUp(c)
        PROVE  TypeOK'
    BY <1>13, NoEntryType DEF CleanUp
  <1>14. ASSUME NEW c \in Client, RunStrand(c)
        PROVE  TypeOK'
    <2>1. PICK added \in Seq(Session) :
             strand' = [strand EXCEPT ![c] = Tail(@) \o added]
      BY <1>14, RunStrandCases
    <2>2. strand[c] \in Seq(Function) /\ strand[c] /= <<>>
      BY <1>14, RunStrandCases
    <2>3. Tail(strand[c]) \o added \in Seq(Function)
      <3>1. added \in Seq(Function) /\ Tail(strand[c]) \in Seq(Function)
        BY <2>2 DEF Function
      <3> QED
        BY <3>1
    <2>4. strand' \in [Client -> Seq(Function)]
      BY <2>1, <2>3
    <2> QED
      BY <1>14, <2>4, RunStrandCases
  <1>15. CASE UNCHANGED vars
    BY <1>15 DEF vars, sessionVars
  <1> QED
    BY <1>1, <1>2, <1>3, <1>4, <1>5, <1>6, <1>7, <1>8, <1>9, <1>10,
       <1>11, <1>12, <1>13, <1>14, <1>15
       DEF Next, QueryStep, EndOfQuery, SessionStep, AllEnded

-----------------------------------------------------------------------------
\* A step that leaves the hub as it is: the queries do not move, no client and
\* no distributor becomes new, and nothing is posted to a new one.
Quiet ==
    /\ UNCHANGED hubVars
    /\ \A q \in Query : pc'[q] = pc[q]
    /\ \A s \in Session : pc'[s] = "new" => pc[s] = "new"
    /\ \A d \in Client : Alive(d)' => Alive(d)
    /\ \A d \in Client : pc[d] \in {"new", "registered"} => strand'[d] = strand[d]

\* What is posted by a client that has the distributor does not revive it.
LEMMA PostAlive ==
    ASSUME TypeOK, Fresh, NEW c \in Client, NEW f \in Function, Post(holds[c], f),
           UNCHANGED holds, NEW d \in Client
    PROVE  /\ Alive(d)' => Alive(d)
           /\ pc[d] \in {"new", "registered"} => strand'[d] = strand[d]
  <1>1. CASE d = holds[c]
    <2>1. Alive(d)
      BY <1>1 DEF Alive
    <2>2. pc[d] \notin {"new", "registered"}
      BY <1>1 DEF Fresh
    <2> QED
      BY <2>1, <2>2
  <1>2. CASE d /= holds[c]
    <2>1. strand'[d] = strand[d]
      BY <1>2 DEF Post, TypeOK
    <2> QED
      BY <2>1 DEF Alive
  <1> QED
    BY <1>1, <1>2

\* Nor do the functions that the strand runs.
LEMMA RunStrandAlive ==
    ASSUME TypeOK, NEW c \in Client, RunStrand(c), NEW d \in Client
    PROVE  /\ Alive(d)' => Alive(d)
           /\ strand[d] = <<>> => strand'[d] = strand[d]
  <1>1. PICK added \in Seq(Session) : strand' = [strand EXCEPT ![c] = Tail(@) \o added]
    BY RunStrandCases
  <1>2. holds' = holds /\ strand[c] /= <<>>
    BY RunStrandCases DEF hubVars
  <1>3. CASE d = c
    <2>1. /\ strand[c] \in Seq(Function) /\ strand'[c] = Tail(strand[c]) \o added
          /\ Tail(strand[c]) \in Seq(Function) /\ added \in Seq(Function)
      BY <1>1, <1>2 DEF TypeOK, Function
    <2>2. ASSUME NEW i \in 1 .. Len(strand'[c]), strand'[c][i] \in {"update", "end"}
          PROVE  \E j \in 1 .. Len(strand[c]) : strand[c][j] \in {"update", "end"}
      <3>1. CASE i <= Len(Tail(strand[c]))
        <4>1. strand'[c][i] = strand[c][i + 1] /\ i + 1 \in 1 .. Len(strand[c])
          BY <1>2, <2>1, <3>1
        <4> QED
          BY <2>2, <4>1
      <3>2. CASE ~(i <= Len(Tail(strand[c])))
        <4> DEFINE j == i - Len(Tail(strand[c]))
        <4>1. strand'[c][i] = added[j] /\ j \in 1 .. Len(added)
          BY <2>1, <3>2
        <4>2. added[j] \in Client
          BY <4>1 DEF Client
        <4> QED
          BY <2>2, <4>1, <4>2, HubAssumption
      <3> QED
        BY <3>1, <3>2
    <2> QED
      BY <1>2, <1>3, <2>2 DEF Alive
  <1>4. CASE d /= c
    <2>1. strand'[d] = strand[d]
      BY <1>1, <1>4 DEF TypeOK
    <2> QED
      BY <1>2, <2>1 DEF Alive
  <1> QED
    BY <1>3, <1>4

\* The steps of the sessions and of the strands are quiet, and so is the
\* update of a query.
LEMMA QuietSteps ==
    ASSUME TypeOK, Fresh,
           \/ \E q \in Query : addQueryStatusUpdate(q)
           \/ \E s \in Session : Resume(s) \/ ClientCloses(s)
           \/ \E d \in Client : RunStrand(d)
    PROVE  Quiet
  <1>1. ASSUME NEW q \in Query, addQueryStatusUpdate(q)
        PROVE  Quiet
    <2>1. q \in Client /\ "update" \in Function
      BY DEF Client, Function
    <2>2. Post(holds[q], "update") /\ UNCHANGED <<hubVars, pc>> /\ UNCHANGED holds
      BY <1>1 DEF addQueryStatusUpdate, hubVars
    <2> QED
      BY <2>1, <2>2, PostAlive DEF Quiet
  <1>2. ASSUME NEW s \in Session, Resume(s)
        PROVE  Quiet
    <2>1. s \in Client /\ s \in Function
      BY DEF Client, Function
    <2>2. Post(holds[s], s) /\ UNCHANGED hubVars /\ UNCHANGED holds
      BY <1>2 DEF Resume, hubVars
    <2>3. pc' = [pc EXCEPT ![s] = "resuming"]
      BY <1>2 DEF Resume, Goto
    <2> QED
      BY <2>1, <2>2, <2>3, PostAlive, HubAssumption DEF Quiet, TypeOK, Client
  <1>3. ASSUME NEW s \in Session, ClientCloses(s)
        PROVE  Quiet
    <2>1. s \in Client /\ s \in Function
      BY DEF Client, Function
    <2>2. UNCHANGED hubVars /\ UNCHANGED holds
      BY <1>3 DEF ClientCloses, hubVars
    <2>3. PICK l \in SessionLabels \ {"new"} : pc' = [pc EXCEPT ![s] = l]
      BY <1>3 DEF ClientCloses, Goto, SessionLabels
    <2>4. \/ Post(holds[s], s)
          \/ UNCHANGED strand
      BY <1>3 DEF ClientCloses
    <2>5. ASSUME UNCHANGED strand, NEW d \in Client
          PROVE  Alive(d)' => Alive(d)
      BY <2>2, <2>5 DEF Alive
    <2> QED
      BY <2>1, <2>2, <2>3, <2>4, <2>5, PostAlive, HubAssumption
         DEF Quiet, TypeOK, Client
  <1>4. ASSUME NEW d \in Client, RunStrand(d)
        PROVE  Quiet
    BY <1>4, RunStrandCases, RunStrandAlive DEF Quiet, Fresh
  <1> QED
    BY <1>1, <1>2, <1>3, <1>4

\* A quiet step keeps the invariant.
LEMMA QuietKeeps ==
    ASSUME IInv, TypeOK', Quiet
    PROVE  IInv'
  <1> USE DEF IInv, Quiet, hubVars
  <1>0. \A c \in Client : pc'[c] \in {"new", "registered"} => pc'[c] = pc[c]
    BY DEF TypeOK, Client, SessionLabels
  <1>1. SameId'
    BY DEF SameId
  <1>2. Fresh'
    BY <1>0 DEF Fresh
  <1>3. Registered'
    BY DEF Registered
  <1>4. Running'
    BY DEF Running, Entry
  <1>5. Started'
    BY ZenonT(30) DEF Started
  <1>6. Armed'
    BY DEF Armed
  <1> QED
    BY <1>1, <1>2, <1>3, <1>4, <1>5, <1>6

-----------------------------------------------------------------------------
\* A step that neither posts nor acquires revives nothing.
LEMMA AliveSame ==
    ASSUME UNCHANGED <<holds, strand>>, NEW d
    PROVE  Alive(d)' = Alive(d)
  BY DEF Alive

\* Nor does a step that leaves the entries alone make one of them lose its
\* query, as long as no query stops and no distributor is revived.
LEMMA StartedSame ==
    ASSUME Started, UNCHANGED socketDistributors,
           \A d \in Client : Alive(d)' => Alive(d),
           \A q \in Query : pc[q] \in {"sending", "finished"} =>
                              pc'[q] \in {"sending", "finished"}
    PROVE  Started'
  <1> SUFFICES ASSUME NEW i \in QueryId, socketDistributors'[i].started
               PROVE  /\ socketDistributors'[i].distributor /= None
                      /\ \A d \in Client :
                            socketDistributors'[i].distributor = d /\ Alive(d)' =>
                               \E q \in Query : IdOf[q] = i
                                                /\ pc'[q] \in {"sending", "finished"}
    BY Zenon DEF Started
  <1>1. socketDistributors[i].started
    BY Zenon
  <1>2. /\ socketDistributors[i].distributor /= None
        /\ \A d \in Client : socketDistributors[i].distributor = d /\ Alive(d) =>
              \E q \in Query : IdOf[q] = i /\ pc[q] \in {"sending", "finished"}
    BY <1>1, Zenon DEF Started
  <1> QED
    BY <1>2

\* What acquiring a distributor makes of the entries: that of the id is the
\* one the client now holds, which is either the former one or new.
LEMMA AcquireEntry ==
    ASSUME IInv, NEW c \in Client, NEW isSender \in BOOLEAN, Acquire(c, isSender)
    PROVE  /\ socketDistributors'[IdOf[c]].distributor = holds'[c]
           /\ holds'[c] \in {Entry(c).distributor, c} /\ holds'[c] \in Client
           /\ Entry(c).distributor /= None /\ Alive(Entry(c).distributor) =>
                 holds'[c] = Entry(c).distributor
           /\ IdOf[holds'[c]] = IdOf[c]
           /\ cleanup'[holds'[c]] = "armed"
           /\ \A d \in Client : cleanup[d] = "armed" => cleanup'[d] = "armed"
           /\ \A i \in QueryId \ {IdOf[c]} : socketDistributors'[i] = socketDistributors[i]
           /\ \A e \in Client \ {c} : holds'[e] = holds[e]
  <1>0. IdOf[c] \in QueryId /\ None \notin Client
    BY HubAssumption
  <1>1. CASE /\ Entry(c).distributor \in Client
             /\ holds' = [holds EXCEPT ![c] = Entry(c).distributor]
             /\ socketDistributors' = [socketDistributors EXCEPT ![IdOf[c]] =
                   [distributor |-> Entry(c).distributor,
                    started |-> isSender \/ Entry(c).started]]
             /\ cleanup' = cleanup
    BY <1>0, <1>1 DEF IInv, TypeOK, SameId, Armed, Entry
  <1>2. CASE /\ Entry(c).distributor = None \/ ~Alive(Entry(c).distributor)
             /\ holds' = [holds EXCEPT ![c] = c]
             /\ socketDistributors' = [socketDistributors EXCEPT ![IdOf[c]] =
                   [distributor |-> c, started |-> isSender]]
             /\ cleanup' = [cleanup EXCEPT ![c] = "armed"]
    BY <1>0, <1>2 DEF IInv, TypeOK
  <1> QED
    BY <1>1, <1>2, AcquireCases, SMT DEF IInv

\* Only the distributor that the client has acquired comes to life, and its
\* entry has a sender if it had one, or gets one.
LEMMA AcquireAlive ==
    ASSUME IInv, NEW c \in Client, NEW isSender \in BOOLEAN, Acquire(c, isSender),
           UNCHANGED strand, pc[c] \in {"new", "registered"}
    PROVE  /\ \A d \in Client : Alive(d)' => Alive(d) \/ d = holds'[c]
           /\ socketDistributors'[IdOf[c]].started =>
                 isSender \/ (Entry(c).started /\ Alive(Entry(c).distributor))
  <1>1. \A e \in Client \ {c} : holds'[e] = holds[e]
    BY AcquireEntry
  <1>2. \A d \in Client : Alive(d)' => Alive(d) \/ d = holds'[c]
    BY <1>1 DEF Alive
  <1>3. socketDistributors'[IdOf[c]].started =>
           isSender \/ (Entry(c).started /\ Alive(Entry(c).distributor))
    <2>1. IdOf[c] \in QueryId /\ DOMAIN socketDistributors = QueryId
      BY HubAssumption DEF IInv, TypeOK
    <2> DEFINE old == [distributor |-> Entry(c).distributor,
                       started |-> isSender \/ Entry(c).started]
               new == [distributor |-> c, started |-> isSender]
    <2>2. \/ /\ socketDistributors' = [socketDistributors EXCEPT ![IdOf[c]] = old]
             /\ Alive(Entry(c).distributor)
          \/ socketDistributors' = [socketDistributors EXCEPT ![IdOf[c]] = new]
      BY AcquireCases, Zenon DEF IInv
    <2>3. (old.started <=> isSender \/ Entry(c).started) /\ (new.started <=> isSender)
      BY Zenon
    <2> HIDE DEF old, new
    <2>4. \/ socketDistributors'[IdOf[c]] = old /\ Alive(Entry(c).distributor)
          \/ socketDistributors'[IdOf[c]] = new
      BY <2>1, <2>2
    <2> QED
      BY <2>3, <2>4, Zenon
  <1> QED
    BY <1>2, <1>3

\* Acquiring a distributor keeps the invariant: for a query, which is about to
\* send, and for a session.
LEMMA AcquireKeeps ==
    ASSUME IInv, TypeOK', NEW c \in Client, NEW isSender \in BOOLEAN,
           Acquire(c, isSender), UNCHANGED <<registry, strand>>,
           \/ /\ c \in Query /\ isSender /\ pc[c] = "registered"
              /\ pc' = [pc EXCEPT ![c] = "sending"]
           \/ /\ c \in Session /\ ~isSender /\ pc[c] = "new"
              /\ pc' = [pc EXCEPT ![c] = "accepting"]
    PROVE  IInv'
  <1>0. pc[c] \in {"new", "registered"} /\ pc'[c] \notin {"new", "registered"}
    BY DEF IInv, TypeOK
  <1>1. \A e \in Client \ {c} : pc'[e] = pc[e] /\ holds'[e] = holds[e]
    <2>1. \A e \in Client \ {c} : holds'[e] = holds[e]
      BY AcquireEntry
    <2> QED
      BY <2>1 DEF IInv, TypeOK
  <1> DEFINE d == holds'[c]
  <1>2. /\ socketDistributors'[IdOf[c]].distributor = d
        /\ d \in {Entry(c).distributor, c} /\ d \in Client
        /\ IdOf[d] = IdOf[c] /\ cleanup'[d] = "armed"
        /\ Entry(c).distributor /= None /\ Alive(Entry(c).distributor) =>
              d = Entry(c).distributor
    BY AcquireEntry
  <1>3. /\ \A e \in Client : cleanup[e] = "armed" => cleanup'[e] = "armed"
        /\ \A i \in QueryId \ {IdOf[c]} : socketDistributors'[i] = socketDistributors[i]
    BY AcquireEntry
  <1>4. c \in Query \cup Session /\ IdOf[c] \in QueryId
    BY HubAssumption DEF Client
  <1> HIDE DEF d
  <1>5. SameId'
    BY <1>1, <1>2, <1>3 DEF IInv, SameId, d
  <1>6. Fresh'
    BY <1>0, <1>1, <1>2, <1>3, <1>4 DEF IInv, Fresh, Entry, d
  <1>7. Registered'
    BY <1>1, HubAssumption, ZenonT(30) DEF IInv, Registered, InUse, TypeOK, Client
  <1>8. Running'
    <2> SUFFICES ASSUME NEW q \in Query
                 PROVE  /\ pc'[q] \in {"sending", "finished", "deleted"} =>
                              holds'[q] /= None
                        /\ pc'[q] \in {"sending", "finished"} =>
                              socketDistributors'[IdOf[q]].distributor = holds'[q]
                        /\ pc'[q] = "deleted" =>
                              socketDistributors'[IdOf[q]].distributor /= holds'[q]
      BY DEF Running, Entry
    <2>0. q \in Client /\ IdOf[q] \in QueryId /\ None \notin Client
      BY HubAssumption DEF Client
    <2>1. CASE q = c
      BY <1>2, <2>0, <2>1 DEF IInv, TypeOK, d
    <2>2. CASE q /= c /\ IdOf[q] /= IdOf[c]
      BY <1>1, <1>3, <2>0, <2>2 DEF IInv, Running, Entry
    <2>3. CASE q /= c /\ IdOf[q] = IdOf[c]
      <3>1. pc'[q] = pc[q] /\ holds'[q] = holds[q]
        BY <1>1, <2>0, <2>3
      <3>2. CASE pc[q] \in {"sending", "finished"}
        <4>1. holds[q] /= None /\ Entry(c).distributor = holds[q]
          BY <2>3, <3>2 DEF IInv, Running, Entry
        <4>2. Alive(Entry(c).distributor)
          BY <2>0, <4>1 DEF Alive
        <4> QED
          BY <1>2, <2>3, <3>1, <3>2, <4>1, <4>2
      <3>3. CASE pc[q] = "deleted"
        <4>1. holds[q] /= None /\ Entry(c).distributor /= holds[q]
          BY <2>3, <3>3 DEF IInv, Running, Entry
        <4>2. holds[q] /= c
          BY <1>0, <2>0 DEF IInv, Fresh
        <4> QED
          BY <1>2, <2>3, <3>1, <3>3, <4>1, <4>2
      <3> QED
        BY <3>1, <3>2, <3>3
    <2> QED
      BY <2>1, <2>2, <2>3
  <1>9. Started'
    <2>1. /\ \A e \in Client : Alive(e)' => Alive(e) \/ e = d
          /\ socketDistributors'[IdOf[c]].started =>
                isSender \/ (Entry(c).started /\ Alive(Entry(c).distributor))
      BY <1>0, AcquireAlive DEF d
    <2> SUFFICES ASSUME NEW i \in QueryId, socketDistributors'[i].started
                 PROVE  /\ socketDistributors'[i].distributor /= None
                        /\ \A e \in Client :
                              socketDistributors'[i].distributor = e /\ Alive(e)' =>
                                 \E q \in Query : IdOf[q] = i /\ pc'[q] \in {"sending", "finished"}
      BY Zenon DEF Started
    <2>2. \A q \in Query : pc[q] \in {"sending", "finished"} => pc'[q] = pc[q]
      BY <1>0, <1>1 DEF Client
    <2>3. CASE i = IdOf[c]
      <3>1. CASE isSender
        <4>1. c \in Query /\ pc'[c] = "sending"
          BY <3>1 DEF IInv, TypeOK
        <4> QED
          BY <1>2, <2>3, <4>1, HubAssumption
      <3>2. CASE Entry(c).started /\ Alive(Entry(c).distributor)
        <4>1. Entry(c).distributor \in Client
          BY <1>4, <3>2, Zenon DEF IInv, Started, TypeOK, Entries, Entry
        <4>2. \E q \in Query : IdOf[q] = IdOf[c] /\ pc[q] \in {"sending", "finished"}
          BY <1>4, <3>2, <4>1, Zenon DEF IInv, Started, Entry
        <4> QED
          BY <1>2, <2>2, <2>3, <4>2, HubAssumption
      <3> QED
        BY <2>1, <2>3, <3>1, <3>2
    <2>4. CASE i /= IdOf[c]
      <3>1. socketDistributors'[i] = socketDistributors[i]
        BY <1>3, <2>4
      <3>2. \A e \in Client : socketDistributors[i].distributor = e /\ Alive(e)' => Alive(e)
        BY <1>2, <2>1, <2>4, HubAssumption DEF IInv, SameId
      <3>3. socketDistributors[i].started
        BY <3>1, Zenon
      <3>4. /\ socketDistributors[i].distributor /= None
            /\ \A e \in Client : socketDistributors[i].distributor = e /\ Alive(e) =>
                  \E q \in Query : IdOf[q] = i /\ pc[q] \in {"sending", "finished"}
        BY <3>3, Zenon DEF IInv, Started
      <3> QED
        BY <2>2, <3>1, <3>2, <3>4
    <2> QED
      BY <2>3, <2>4
  <1>10. Armed'
    <2> SUFFICES ASSUME NEW i \in QueryId, socketDistributors'[i].distributor /= None
                 PROVE  cleanup'[socketDistributors'[i].distributor] = "armed"
      BY Zenon DEF Armed
    <2>1. CASE i = IdOf[c]
      BY <1>2, <2>1, Zenon
    <2>2. CASE i /= IdOf[c]
      <3>1. socketDistributors'[i] = socketDistributors[i]
        BY <1>3, <2>2, Zenon
      <3>2. socketDistributors[i].distributor \in Client
        BY <3>1 DEF IInv, TypeOK, Entries
      <3>3. cleanup[socketDistributors[i].distributor] = "armed"
        BY <3>1, Zenon DEF IInv, Armed
      <3> QED
        BY <1>3, <3>1, <3>2, <3>3, Zenon
    <2> QED
      BY <2>1, <2>2, Zenon
  <1> QED
    BY <1>5, <1>6, <1>7, <1>8, <1>9, <1>10 DEF IInv

\* Register keeps the invariant.
LEMMA RegisterKeeps ==
    ASSUME IInv, TypeOK', NEW q \in Query, Register(q)
    PROVE  IInv'
  <1> USE HubAssumption DEF IInv, Register, Goto, Post, Client, TypeOK, Entries, Entry, hubVars,
           distributorVars
  <1>1. SameId'
    BY DEF SameId, NoEntry
  <1>2. Fresh'
    BY DEF Fresh, NoEntry, QueryLabels, SessionLabels
  <1>3. Registered'
    BY DEF Registered, InUse, QueryLabels, SessionLabels
  <1>4. Running'
    BY DEF Running, NoEntry, Registered, InUse
  <1>5. Started'
    <2>1. \A d \in Client : Alive(d)' => Alive(d)
      BY AliveSame
    <2> QED
      BY <2>1, StartedSame
  <1>6. Armed'
    BY DEF Armed, NoEntry, Running, SameId
  <1> QED
    BY <1>1, <1>2, <1>3, <1>4, <1>5, <1>6

\* RefuseId keeps the invariant.
LEMMA RefuseIdKeeps ==
    ASSUME IInv, TypeOK', NEW q \in Query, RefuseId(q)
    PROVE  IInv'
  <1> USE HubAssumption DEF IInv, RefuseId, Goto, Post, Client, TypeOK, Entries, Entry, hubVars,
           distributorVars
  <1>1. SameId'
    BY DEF SameId, NoEntry
  <1>2. Fresh'
    BY DEF Fresh, NoEntry, QueryLabels, SessionLabels
  <1>3. Registered'
    BY DEF Registered, InUse, QueryLabels, SessionLabels
  <1>4. Running'
    BY DEF Running, NoEntry, Registered, InUse
  <1>5. Started'
    <2>1. \A d \in Client : Alive(d)' => Alive(d)
      BY AliveSame
    <2> QED
      BY <2>1, StartedSame
  <1>6. Armed'
    BY DEF Armed, NoEntry, Running, SameId
  <1> QED
    BY <1>1, <1>2, <1>3, <1>4, <1>5, <1>6

\* SetFinished keeps the invariant.
LEMMA SetFinishedKeeps ==
    ASSUME IInv, TypeOK', NEW q \in Query, SetFinished(q)
    PROVE  IInv'
  <1> USE HubAssumption DEF IInv, SetFinished, Goto, Post, Client, TypeOK, Entries, Entry, hubVars,
           distributorVars
  <1>1. SameId'
    BY DEF SameId, NoEntry
  <1>2. Fresh'
    BY DEF Fresh, NoEntry, QueryLabels, SessionLabels
  <1>3. Registered'
    BY DEF Registered, InUse, QueryLabels, SessionLabels
  <1>4. Running'
    BY DEF Running, NoEntry, Registered, InUse
  <1>5. Started'
    <2>1. \A d \in Client : Alive(d)' => Alive(d)
      BY AliveSame
    <2> QED
      BY <2>1, StartedSame
  <1>6. Armed'
    BY DEF Armed, NoEntry, Running, SameId
  <1> QED
    BY <1>1, <1>2, <1>3, <1>4, <1>5, <1>6

\* DeleteFromDistributors keeps the invariant.
LEMMA DeleteFromDistributorsKeeps ==
    ASSUME IInv, TypeOK', NEW q \in Query, DeleteFromDistributors(q)
    PROVE  IInv'
  <1> USE HubAssumption DEF IInv, DeleteFromDistributors, Goto, Post, Client, TypeOK,
             Entries, Entry, hubVars, distributorVars
  <1>1. SameId'
    BY DEF SameId, NoEntry
  <1>2. Fresh'
    BY DEF Fresh, NoEntry, QueryLabels, SessionLabels
  <1>3. Registered'
    BY DEF Registered, InUse, QueryLabels, SessionLabels
  <1>4. Running'
    BY DEF Running, NoEntry, Registered, InUse
  <1>5. Started'
    BY AliveSame DEF Started, NoEntry
  <1>6. Armed'
    BY DEF Armed, NoEntry, Running, SameId
  <1> QED
    BY <1>1, <1>2, <1>3, <1>4, <1>5, <1>6

\* PostEnd keeps the invariant.
LEMMA PostEndKeeps ==
    ASSUME IInv, TypeOK', NEW q \in Query, PostEnd(q)
    PROVE  IInv'
  <1> USE HubAssumption DEF IInv, PostEnd, Goto, Post, Client, TypeOK, Entries, Entry, hubVars,
           distributorVars
  <1>1. SameId'
    BY DEF SameId, NoEntry
  <1>2. Fresh'
    BY DEF Fresh, NoEntry, QueryLabels, SessionLabels
  <1>3. Registered'
    BY DEF Registered, InUse, QueryLabels, SessionLabels
  <1>4. Running'
    BY DEF Running, NoEntry, Registered, InUse
  <1>5. Started'
    <2>1. "end" \in Function /\ Post(holds[q], "end") /\ UNCHANGED holds
      BY DEF Function
    <2>2. \A d \in Client : Alive(d)' => Alive(d)
      BY <2>1, PostAlive
    <2> QED
      BY <2>2, StartedSame
  <1>6. Armed'
    BY DEF Armed, NoEntry, Running, SameId
  <1> QED
    BY <1>1, <1>2, <1>3, <1>4, <1>5, <1>6

\* Unregister keeps the invariant.
LEMMA UnregisterKeeps ==
    ASSUME IInv, TypeOK', NEW q \in Query, Unregister(q)
    PROVE  IInv'
  <1> USE HubAssumption DEF IInv, Unregister, Goto, Post, Client, TypeOK, Entries, Entry, hubVars,
           distributorVars
  <1>1. SameId'
    BY DEF SameId, NoEntry
  <1>2. Fresh'
    BY DEF Fresh, NoEntry, QueryLabels, SessionLabels
  <1>3. Registered'
    BY DEF Registered, InUse, QueryLabels, SessionLabels
  <1>4. Running'
    BY DEF Running, NoEntry, Registered, InUse
  <1>5. Started'
    <2>1. \A d \in Client : Alive(d)' => Alive(d)
      BY AliveSame
    <2> QED
      BY <2>1, StartedSame
  <1>6. Armed'
    BY DEF Armed, NoEntry, Running, SameId
  <1> QED
    BY <1>1, <1>2, <1>3, <1>4, <1>5, <1>6

\* Release keeps the invariant.
LEMMA ReleaseKeeps ==
    ASSUME IInv, TypeOK', NEW c \in Client, Release(c)
    PROVE  IInv'
  <1> USE HubAssumption DEF IInv, Release, Goto, Post, Client, TypeOK, Entries, Entry, hubVars,
           distributorVars
  <1>1. SameId'
    BY DEF SameId, NoEntry
  <1>2. Fresh'
    BY DEF Fresh, NoEntry, QueryLabels, SessionLabels
  <1>3. Registered'
    BY DEF Registered, InUse, QueryLabels, SessionLabels
  <1>4. Running'
    BY DEF Running, NoEntry, Registered, InUse
  <1>5. Started'
    <2>1. \A d \in Client : Alive(d)' => Alive(d)
      BY DEF Alive
    <2> QED
      BY <2>1, StartedSame
  <1>6. Armed'
    BY DEF Armed, NoEntry, Running, SameId
  <1> QED
    BY <1>1, <1>2, <1>3, <1>4, <1>5, <1>6

\* CleanUp keeps the invariant.
LEMMA CleanUpKeeps ==
    ASSUME IInv, TypeOK', NEW c \in Client, CleanUp(c)
    PROVE  IInv'
  <1> USE HubAssumption DEF IInv, CleanUp, Goto, Post, Client, TypeOK, Entries, Entry, hubVars,
           distributorVars
  <1>1. SameId'
    BY DEF SameId, NoEntry
  <1>2. Fresh'
    BY DEF Fresh, NoEntry, QueryLabels, SessionLabels
  <1>3. Registered'
    BY DEF Registered, InUse, QueryLabels, SessionLabels
  <1>4. Running'
    <2> SUFFICES ASSUME NEW q \in Query
                 PROVE  /\ pc[q] \in {"sending", "finished"} =>
                              Entry(q)'.distributor = holds[q]
                        /\ pc[q] = "deleted" => Entry(q)'.distributor /= holds[q]
      BY DEF Running
    <2>1. CASE pc[q] \in {"sending", "finished"}
      <3>1. Entry(q).distributor = holds[q] /\ holds[q] /= None
        BY <2>1 DEF Running
      <3>2. Alive(Entry(q).distributor)
        BY <3>1 DEF Alive
      <3> QED
        BY <2>1, <3>1, <3>2
    <2>2. CASE pc[q] = "deleted"
      BY <2>2 DEF Running, NoEntry
    <2> QED
      BY <2>1, <2>2
  <1>5. Started'
    BY AliveSame DEF Started, NoEntry
  <1>6. Armed'
    BY DEF Armed, NoEntry, Running, SameId
  <1> QED
    BY <1>1, <1>2, <1>3, <1>4, <1>5, <1>6

-----------------------------------------------------------------------------
\* The initial states are those of the invariant.
LEMMA InitIInv == Init => IInv
  <1> SUFFICES ASSUME Init
               PROVE  IInv
    OBVIOUS
  <1> USE HubAssumption DEF Init, Client
  <1>1. TypeOK
    BY NoEntryType DEF TypeOK, QueryLabels, SessionLabels
  <1>2. SameId /\ Fresh /\ Armed
    BY DEF SameId, Fresh, Armed, NoEntry
  <1>3. Registered /\ Running
    BY DEF Registered, Running, InUse
  <1>4. Started
    <2>1. \A i \in QueryId : socketDistributors[i] = NoEntry
      OBVIOUS
    <2> QED
      BY <2>1, Zenon DEF Started, NoEntry
  <1> QED
    BY <1>1, <1>2, <1>3, <1>4 DEF IInv

\* Every step keeps the invariant.
LEMMA NextIInv == IInv /\ [Next]_vars => IInv'
  <1> SUFFICES ASSUME IInv, [Next]_vars
               PROVE  IInv'
    OBVIOUS
  <1>0. TypeOK'
    BY StepTypeOK DEF IInv
  <1>1. ASSUME NEW q \in Query, AcquireForSending(q)
        PROVE  IInv'
    <2>1. /\ q \in Client /\ Acquire(q, TRUE) /\ UNCHANGED <<registry, strand>>
          /\ pc[q] = "registered" /\ pc' = [pc EXCEPT ![q] = "sending"]
      BY <1>1 DEF Client, AcquireForSending, distributorVars, Goto
    <2>2. TRUE \in BOOLEAN
      BY Zenon
    <2> QED
      BY <1>0, <2>1, <2>2, AcquireKeeps, Zenon
  <1>2. ASSUME NEW q \in Query, QueryStep(q)
        PROVE  IInv'
    <2>1. CASE addQueryStatusUpdate(q)
      BY <1>0, <2>1, QuietSteps, QuietKeeps DEF IInv
    <2> QED
      BY <1>0, <1>1, <1>2, <2>1, RegisterKeeps, RefuseIdKeeps, SetFinishedKeeps,
         DeleteFromDistributorsKeeps, PostEndKeeps, UnregisterKeeps
         DEF QueryStep, EndOfQuery
  <1>3. ASSUME NEW s \in Session, SessionStep(s)
        PROVE  IInv'
    <2>1. CASE AcquireForReceiving(s)
      <3>1. /\ s \in Client /\ Acquire(s, FALSE) /\ UNCHANGED <<registry, strand>>
            /\ pc[s] = "new" /\ pc' = [pc EXCEPT ![s] = "accepting"]
        BY <2>1 DEF Client, AcquireForReceiving, distributorVars, Goto
      <3>2. FALSE \in BOOLEAN
        BY Zenon
      <3> QED
        BY <1>0, <3>1, <3>2, AcquireKeeps, Zenon
    <2>2. CASE Resume(s) \/ ClientCloses(s)
      BY <1>0, <2>2, QuietSteps, QuietKeeps DEF IInv
    <2> QED
      BY <1>3, <2>1, <2>2 DEF SessionStep
  <1>4. ASSUME NEW c \in Client, Release(c) \/ CleanUp(c) \/ RunStrand(c)
        PROVE  IInv'
    <2>1. CASE RunStrand(c)
      BY <1>0, <2>1, QuietSteps, QuietKeeps DEF IInv
    <2> QED
      BY <1>0, <1>4, <2>1, ReleaseKeeps, CleanUpKeeps
  <1>5. CASE UNCHANGED vars
    <2>1. Quiet
      BY <1>5, AliveSame DEF Quiet, vars, distributorVars, hubVars
    <2> QED
      BY <1>0, <2>1, QuietKeeps
  <1> QED
    BY <1>2, <1>3, <1>4, <1>5 DEF Next, AllEnded

\* The invariant holds throughout every behaviour.
LEMMA IInvAlways == Spec => []IInv
  BY InitIInv, NextIInv, PTL DEF Spec

\* The check of createOrAcquireDistributorInternal that an id has one sender
\* never fails, however the ends of queries, the destructors and the sessions
\* of the same id interleave.
THEOREM NoSecondSender == Spec => []OneSender
  <1>1. IInv => OneSender
    <2> SUFFICES ASSUME IInv, NEW q \in Query, pc[q] = "registered", Entry(q).started,
                        Alive(Entry(q).distributor)
                 PROVE  FALSE
      BY DEF OneSender
    <2>1. IdOf[q] \in QueryId
      BY HubAssumption DEF Client
    <2>2. Entry(q).distributor \in Client
      BY <2>1, Zenon DEF IInv, Started, TypeOK, Entries, Entry
    <2>3. \E r \in Query : IdOf[r] = IdOf[q] /\ pc[r] \in {"sending", "finished"}
      BY <2>1, <2>2, Zenon DEF IInv, Started, Entry
    <2> QED
      BY <2>3 DEF IInv, Registered, InUse
  <1> QED
    BY <1>1, IInvAlways, PTL

\* A session that comes while a query runs finds the distributor of the query
\* (QueryHub::createOrAcquireDistributorInternal and deleteFromDistributors).
THEOREM QueriesAreFound == Spec => []RunningQueryIsFound
  <1>1. IInv => RunningQueryIsFound
    BY DEF IInv, Running, RunningQueryIsFound
  <1> QED
    BY <1>1, IInvAlways, PTL

\* An expired entry of the hub has a cleanup that will remove it.
THEOREM NoEntryStays == Spec => []ExpiredEntriesAreRemoved
  <1>1. IInv => ExpiredEntriesAreRemoved
    BY DEF IInv, Armed, SameId, TypeOK, Entries, ExpiredEntriesAreRemoved
  <1> QED
    BY <1>1, IInvAlways, PTL
=============================================================================
