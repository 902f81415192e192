------------------------------ MODULE QueryHub -------------------------------
(***************************************************************************)
(* util/http/websocket: the status updates of running queries.  A query    *)
(* registers its id in the QueryRegistry, and its MessageSender acquires   *)
(* the QueryToSocketDistributor of that id from the QueryHub; the          *)
(* UpdateFetcher of each websocket that watches the id acquires the same   *)
(* one.  Whoever comes first creates it.                                   *)
(*                                                                         *)
(* The hub holds weak pointers.  A distributor lives as long as a query or *)
(* a session holds it, or a function on its strand does; when it dies its  *)
(* cleanup removes it from the hub, in a step of its own.  The functions   *)
(* posted to the strand of a distributor run one after the other, in the   *)
(* order in which they were posted.                                        *)
(*                                                                         *)
(* A distributor is named after the query or the session that creates it.  *)
(* Payloads are left out, and so are the commands that clients send.       *)
(***************************************************************************)
EXTENDS Integers, Sequences, SequencesExt

CONSTANTS
    QueryId,    \* the query ids
    Query,      \* the queries, which send updates
    Session,    \* the websocket sessions
    IdOf,       \* the id of each query and session
    None,       \* no distributor
    MaxUpdates  \* how many updates a query sends at most

Client == Query \cup Session

ASSUME HubAssumption ==
    /\ Query \cap Session = {}
    /\ IdOf \in [Client -> QueryId]
    /\ None \notin Client
    /\ {"update", "end"} \cap Client = {}
    /\ MaxUpdates \in Nat

VARIABLES
    registry,           \* registry_: the ids in use
    socketDistributors, \* socketDistributors_: a distributor for each id
    holds,              \* the shared pointers: which distributor each has
    strand,             \* strand_: what has been posted to each distributor
    waiting,            \* the sessions that wait for infiniteTimer_
    currentIndex,       \* currentIndex_
    finished,           \* finished_
    cleanup,            \* cleanupCall_: whether it is yet to be called
    fetched,            \* currentIndex_ of each session's UpdateFetcher
    open,               \* whether the client has not closed the websocket
    pc,                 \* where each query and session is
    posted              \* history: the updates sent through a distributor

hubVars == <<registry, socketDistributors, holds, cleanup>>
distributorVars == <<strand, waiting, currentIndex, finished>>
sessionVars == <<fetched, open>>
vars == <<hubVars, distributorVars, sessionVars, pc, posted>>

NoEntry == [distributor |-> None, started |-> FALSE]

Init ==
    /\ registry = {}
    /\ socketDistributors = [i \in QueryId |-> NoEntry]
    /\ holds = [c \in Client |-> None]
    /\ strand = [d \in Client |-> <<>>]
    /\ waiting = [d \in Client |-> <<>>]
    /\ currentIndex = [d \in Client |-> 0]
    /\ finished = [d \in Client |-> FALSE]
    /\ cleanup = [d \in Client |-> "none"]
    /\ fetched = [s \in Session |-> 0]
    /\ open = [s \in Session |-> TRUE]
    /\ pc = [c \in Client |-> "new"]
    /\ posted = [d \in Client |-> 0]

Goto(c, label) == pc' = [pc EXCEPT ![c] = label]

Entry(c) == socketDistributors[IdOf[c]]

\* A shared pointer to the distributor exists: its users have one, and so have
\* the functions that addQueryStatusUpdate and signalEnd have posted.
Alive(d) ==
    \/ \E c \in Client : holds[c] = d
    \/ \E i \in 1 .. Len(strand[d]) : strand[d][i] \in {"update", "end"}

\* createOrAcquireDistributorInternal, under the lock of the hub: take the
\* distributor of the id if there is one that has not expired, else make one.
\* There must not be another sender.
Acquire(c, isSender) ==
    LET entry == Entry(c)
        found == entry.distributor /= None /\ Alive(entry.distributor)
        d == IF found THEN entry.distributor ELSE c
    IN  /\ ~(isSender /\ found /\ entry.started)
        /\ holds' = [holds EXCEPT ![c] = d]
        /\ socketDistributors' = [socketDistributors EXCEPT ![IdOf[c]] =
              [distributor |-> d, started |-> isSender \/ (found /\ entry.started)]]
        /\ cleanup' = IF found THEN cleanup ELSE [cleanup EXCEPT ![c] = "armed"]

-----------------------------------------------------------------------------
\* Server::getQueryId: an id that is in use is refused.
Register(q) ==
    /\ pc[q] = "new"
    /\ IdOf[q] \notin registry
    /\ registry' = registry \cup {IdOf[q]}
    /\ Goto(q, "registered")
    /\ UNCHANGED <<socketDistributors, holds, cleanup, distributorVars,
                   sessionVars, posted>>

RefuseId(q) ==
    /\ pc[q] = "new"
    /\ IdOf[q] \in registry
    /\ Goto(q, "ended")
    /\ UNCHANGED <<hubVars, distributorVars, sessionVars, posted>>

\* The constructor of MessageSender.
AcquireForSending(q) ==
    /\ pc[q] = "registered"
    /\ Acquire(q, TRUE)
    /\ Goto(q, "sending")
    /\ UNCHANGED <<registry, distributorVars, sessionVars, posted>>

Post(d, function) == strand' = [strand EXCEPT ![d] = Append(@, function)]

addQueryStatusUpdate(q) ==
    /\ pc[q] = "sending" /\ posted[holds[q]] < MaxUpdates
    /\ Post(holds[q], "update")
    /\ posted' = [posted EXCEPT ![holds[q]] = @ + 1]
    /\ UNCHANGED <<hubVars, waiting, currentIndex, finished, sessionVars, pc>>

\* The end of the query destroys the MessageSender.  signalEnd sets the flag,
\* deletes the entry of the hub, disables the cleanup and posts a function;
\* then the id is unregistered, and then the distributor released.
SetFinished(q) ==
    /\ pc[q] = "sending"
    /\ finished' = [finished EXCEPT ![holds[q]] = TRUE]
    /\ Goto(q, "finished")
    /\ UNCHANGED <<hubVars, strand, waiting, currentIndex, sessionVars, posted>>

\* Mutant: alwaysDelete is ignored.
DeleteFromDistributors_IfExpired(q) ==
    /\ pc[q] = "finished"
    /\ Goto(q, "deleted")
    /\ UNCHANGED <<hubVars, distributorVars, sessionVars, posted>>

DeleteFromDistributors(q) ==
    /\ pc[q] = "finished"
    /\ socketDistributors' = [socketDistributors EXCEPT ![IdOf[q]] = NoEntry]
    /\ Goto(q, "deleted")
    /\ UNCHANGED <<registry, holds, cleanup, distributorVars, sessionVars, posted>>

PostEnd(q) ==
    /\ pc[q] = "deleted"
    /\ cleanup' = [cleanup EXCEPT ![holds[q]] = "none"]
    /\ Post(holds[q], "end")
    /\ Goto(q, "signalled")
    /\ UNCHANGED <<registry, socketDistributors, holds, waiting, currentIndex,
                   finished, sessionVars, posted>>

Unregister(q) ==
    /\ pc[q] = "signalled"
    /\ registry' = registry \ {IdOf[q]}
    /\ Goto(q, "unregistered")
    /\ UNCHANGED <<socketDistributors, holds, cleanup, distributorVars,
                   sessionVars, posted>>

\* The shared pointer of a query or a session is released.
Release(c) ==
    /\ pc[c] \in {"unregistered", "closed"}
    /\ holds' = [holds EXCEPT ![c] = None]
    /\ Goto(c, "ended")
    /\ UNCHANGED <<registry, socketDistributors, cleanup, distributorVars,
                   sessionVars, posted>>

\* Mutant: the entry is deleted although it has not expired.
CleanUp_Always(d) ==
    /\ cleanup[d] = "armed" /\ ~Alive(d)
    /\ cleanup' = [cleanup EXCEPT ![d] = "none"]
    /\ socketDistributors' = [socketDistributors EXCEPT ![IdOf[d]] = NoEntry]
    /\ UNCHANGED <<registry, holds, distributorVars, sessionVars, pc, posted>>

\* Mutant: the entry is not deleted.
CleanUp_Never(d) ==
    /\ cleanup[d] = "armed" /\ ~Alive(d)
    /\ cleanup' = [cleanup EXCEPT ![d] = "none"]
    /\ UNCHANGED <<registry, socketDistributors, holds, distributorVars,
                   sessionVars, pc, posted>>

\* The destructor of a distributor whose query has not ended: it deletes the
\* entry of the hub if that has expired, be it its own or a later one.
CleanUp(d) ==
    /\ cleanup[d] = "armed" /\ ~Alive(d)
    /\ cleanup' = [cleanup EXCEPT ![d] = "none"]
    /\ socketDistributors' =
          IF Entry(d).distributor /= None /\ ~Alive(Entry(d).distributor)
          THEN [socketDistributors EXCEPT ![IdOf[d]] = NoEntry]
          ELSE socketDistributors
    /\ UNCHANGED <<registry, holds, distributorVars, sessionVars, pc, posted>>

-----------------------------------------------------------------------------
\* The constructor of the UpdateFetcher of a session.
AcquireForReceiving(s) ==
    /\ pc[s] = "new"
    /\ Acquire(s, FALSE)
    /\ Goto(s, "accepting")
    /\ UNCHANGED <<registry, distributorVars, sessionVars, posted>>

\* The handshake is over, or an update has been written: waitForServerEvents
\* continues on the strand.
Resume(s) ==
    /\ pc[s] \in {"accepting", "writing"}
    /\ Post(holds[s], s)
    /\ Goto(s, "resuming")
    /\ UNCHANGED <<hubVars, waiting, currentIndex, finished, sessionVars, posted>>

\* What a session does with what waitForNextDataPiece returns: write the
\* update, or close the websocket when there is none.  If the client has
\* closed it, the next operation of the session throws.
Fetch(s) ==
    LET d == holds[s]
        update == fetched[s] < currentIndex[d]
    IN  /\ fetched' = [fetched EXCEPT ![s] = currentIndex[d]]
        /\ Goto(s, IF update /\ open[s] THEN "writing" ELSE "closed")

\* Mutant: finished_ is not tested before the wait.
RunResumed_IgnoreFinished(d, s) ==
    LET returns == fetched[s] < currentIndex[d] \/ ~open[s]
    IN  /\ strand' = [strand EXCEPT ![d] = Tail(@)]
        /\ IF returns
           THEN Fetch(s) /\ UNCHANGED waiting
           ELSE /\ waiting' = [waiting EXCEPT ![d] = Append(@, s)]
                /\ Goto(s, "waiting")
                /\ UNCHANGED fetched
        /\ UNCHANGED currentIndex

\* waitForNextDataPiece up to its suspension, on the strand of d.
RunResumed(d, s) ==
    LET returns == fetched[s] < currentIndex[d] \/ finished[d] \/ ~open[s]
    IN  /\ strand' = [strand EXCEPT ![d] = Tail(@)]
        /\ IF returns
           THEN Fetch(s) /\ UNCHANGED waiting
           ELSE /\ waiting' = [waiting EXCEPT ![d] = Append(@, s)]
                /\ Goto(s, "waiting")
                /\ UNCHANGED fetched
        /\ UNCHANGED currentIndex

\* ... and after it.
RunWoken(d, s) ==
    /\ strand' = [strand EXCEPT ![d] = Tail(@)]
    /\ Fetch(s)
    /\ UNCHANGED <<waiting, currentIndex>>

\* The functions of addQueryStatusUpdate and signalEnd: wakeUpWaitingListeners
\* cancels the waits, whose continuations are posted.
RunWakeUp(d, update) ==
    /\ currentIndex' = [currentIndex EXCEPT ![d] = @ + IF update THEN 1 ELSE 0]
    /\ strand' = [strand EXCEPT ![d] = Tail(@) \o waiting[d]]
    /\ waiting' = [waiting EXCEPT ![d] = <<>>]
    /\ pc' = [c \in Client |->
                 IF \E i \in 1 .. Len(waiting[d]) : waiting[d][i] = c
                 THEN "woken" ELSE pc[c]]
    /\ UNCHANGED fetched

\* The strand runs the next function.
RunStrand(d) ==
    /\ strand[d] /= <<>>
    /\ LET f == Head(strand[d])
       IN  \/ f \in {"update", "end"} /\ RunWakeUp(d, f = "update")
           \/ f \in Session /\ pc[f] = "resuming" /\ RunResumed(d, f)
           \/ f \in Session /\ pc[f] = "woken" /\ RunWoken(d, f)
    /\ UNCHANGED <<hubVars, finished, open, posted>>

\* The client closes the websocket: a pending wait is cancelled, a pending
\* read or write fails.
ClientCloses(s) ==
    /\ open[s] /\ pc[s] \in {"accepting", "writing", "resuming", "woken", "waiting"}
    /\ open' = [open EXCEPT ![s] = FALSE]
    /\ IF pc[s] = "waiting"
       THEN /\ \E i \in DOMAIN waiting[holds[s]] :
                /\ waiting[holds[s]][i] = s
                /\ waiting' = [waiting EXCEPT ![holds[s]] = RemoveAt(@, i)]
            /\ Post(holds[s], s)
            /\ Goto(s, "woken")
       ELSE /\ Goto(s, IF pc[s] \in {"accepting", "writing"} THEN "closed" ELSE pc[s])
            /\ UNCHANGED <<waiting, strand>>
    /\ UNCHANGED <<hubVars, currentIndex, finished, fetched, posted>>

-----------------------------------------------------------------------------
EndOfQuery(q) ==
    SetFinished(q) \/ DeleteFromDistributors(q) \/ PostEnd(q) \/ Unregister(q)

QueryStep(q) ==
    \/ Register(q) \/ RefuseId(q) \/ AcquireForSending(q)
    \/ addQueryStatusUpdate(q) \/ EndOfQuery(q)

SessionStep(s) == AcquireForReceiving(s) \/ Resume(s) \/ ClientCloses(s)

AllEnded ==
    /\ \A c \in Client : pc[c] = "ended" /\ cleanup[c] = "none" /\ strand[c] = <<>>
    /\ UNCHANGED vars

Next ==
    \/ \E q \in Query : QueryStep(q)
    \/ \E s \in Session : SessionStep(s)
    \/ \E c \in Client : Release(c) \/ CleanUp(c) \/ RunStrand(c)
    \/ AllEnded

Spec == Init /\ [][Next]_vars

\* The threads of the io_context run what has been posted, a query that is
\* ending goes on, and a websocket write ends (with its timeout).
FairSpec ==
    /\ Spec
    /\ \A q \in Query : WF_vars(EndOfQuery(q) \/ Release(q))
    /\ \A s \in Session : WF_vars(Resume(s) \/ Release(s))
    /\ \A d \in Client : WF_vars(RunStrand(d))

-----------------------------------------------------------------------------
\* A query always gets the distributor of its id for sending: the check in
\* createOrAcquireDistributorInternal that no other query sends through it
\* does not fail, because the previous query with the same id has left the hub
\* before it unregistered its id.
OneSender ==
    \A q \in Query : pc[q] = "registered" =>
        LET entry == Entry(q)
        IN  entry.started => ~Alive(entry.distributor)

\* Whoever starts to watch a running query gets the distributor of the query:
\* no late cleanup of an expired distributor, and no end of another query,
\* removes the distributor from the hub while the query sends.
RunningQueryIsFound ==
    \A q \in Query : pc[q] \in {"sending", "finished"} =>
        Entry(q).distributor = holds[q]

\* The hub does not fill up: an entry whose distributor has expired is about
\* to be removed by the cleanup of a distributor with the same id.
ExpiredEntriesAreRemoved ==
    \A i \in QueryId :
        LET d == socketDistributors[i].distributor
        IN  d /= None /\ ~Alive(d) =>
                \E e \in Client : IdOf[e] = i /\ cleanup[e] = "armed" /\ ~Alive(e)

\* Every session that watches a query ends when the query has ended: no
\* session waits for a wake-up that has already happened.
SessionsEnd ==
    \A s \in Session :
        (holds[s] /= None /\ finished[holds[s]]) ~> (pc[s] = "ended")

\* What QueryToSocketDistributor.h says of waitForNextDataPiece, that it
\* returns no data if no more data is available: a session whose client has
\* not left is closed only when it has seen the last update of the query.
ClosedMeansNoMoreData ==
    \A s \in Session :
        pc[s] = "closed" /\ open[s] => fetched[s] = posted[holds[s]]
=============================================================================
