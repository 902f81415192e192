---------------------------- MODULE DeltaTriples ----------------------------
(***************************************************************************)
(* SPARQL updates in QLever: the class DeltaTriples (the triples inserted  *)
(* into and deleted from a static index), the DeltaTriplesManager that     *)
(* publishes a snapshot after each modification, and the update requests   *)
(* and commands of the Server that drive them.                             *)
(*                                                                         *)
(* The live DeltaTriples are kept twice: as two hash maps from a triple to *)
(* its handles (triplesInserted_, triplesDeleted_) and, sorted, in one     *)
(* LocatedTriplesPerBlock for each permutation.  Both exist for the normal *)
(* triples and for the internal triples QLever derives from them to answer *)
(* language filters.  All modifications run under one write lock, so what  *)
(* can go wrong is not interleaving but a modification that ends halfway:  *)
(* by a timeout, a failed write, a failed check or the end of the process. *)
(***************************************************************************)
EXTENDS Integers, FiniteSets

CONSTANTS
    Triple,          \* the quads a request may name, as positions in SPO order
    Base,            \* the quads of the static index
    LangTagged,      \* the quads whose object is a language-tagged literal
    Object,          \* the object of a quad
    Graph,           \* the graph of a quad
    Subject,         \* the subject of a quad
    Node,            \* the blank nodes that are not of the static index
    RequestNode,     \* those of them a request brings along
    WithSubject,     \* a quad with its blank node replaced by another one
    NumPermutations, \* permutations of each kind, PSO is the first
    Block,           \* the PSO block of a triple of each kind
    VacuumMinimumBlockSize, \* the runtime parameter vacuum-minimum-block-size
    Commands,        \* the requests the clients send
    Faults,          \* what may end a modification or the process early
    Persist,         \* whether the server runs with --persist-updates
    MaxOperations,   \* bound on the operations of one update request
    MaxIndex         \* bound on index_, the version of the located triples

-----------------------------------------------------------------------------
(***************************************************************************)
(* The two kinds of triples.  An internal triple is either the copy of a   *)
(* quad under its language-tagged predicate or the tag of an object.       *)
(***************************************************************************)
Kind == {"normal", "internal"}

LangPredicate(t) == <<"predicate", t>>
LangTag(t) == <<"tag", Object[t], Graph[t]>>

InternalsOf(S) == {LangPredicate(t) : t \in S} \cup {LangTag(t) : t \in S}

InternalTriple == InternalsOf(LangTagged)
TriplesOf(k) == IF k = "normal" THEN Triple ELSE InternalTriple

\* The static index as IndexBuilderTypes.h builds it: both internal triples
\* for every language-tagged quad, in the graph of the quad.
InternalBase == InternalsOf(Base \cap LangTagged)
BaseOf(k) == IF k = "normal" THEN Base ELSE InternalBase

\* The permutations in the order of Permutation::all, normal and internal.
Permutations ==
    ({"normal"} \X (1 .. NumPermutations["normal"]))
        \cup ({"internal"} \X (1 .. NumPermutations["internal"]))
PSO(k) == <<k, 1>>

\* A located triple is a triple with the flag insertOrDelete_.
Flag == {"insert", "delete"}
Inverse(flag) == IF flag = "insert" THEN "delete" ELSE "insert"
Located(S, flag) == S \X {flag}

\* The blank nodes of quads, of triples, and of the quads whose copies are in S.
NodesIn(S) == {Subject[t] : t \in S} \cap Node
CopiedIn(S) == {t \in LangTagged : LangPredicate(t) \in S}
NodesOf(k, S) == NodesIn(IF k = "normal" THEN S ELSE CopiedIn(S))

\* A quad up to the name of its blank node.
UpToNode(t) ==
    IF Subject[t] \in Node THEN {WithSubject[t][n] : n \in Node} ELSE {t}
UpToNodes(S) == {UpToNode(t) : t \in S}

ASSUME TripleAssumption ==
    /\ Triple \subseteq Nat
    /\ Base \subseteq Triple
    /\ LangTagged \subseteq Triple

ASSUME NodeAssumption ==
    /\ Node \subseteq Nat
    /\ RequestNode \subseteq Node
    /\ NodesIn(Base) = {}
    /\ \A t \in Triple, n \in Node :
          Subject[t] \in Node =>
            LET u == WithSubject[t][n]
            IN  /\ u \in Triple
                /\ Subject[u] = n /\ Object[u] = Object[t] /\ Graph[u] = Graph[t]
                /\ u \in LangTagged <=> t \in LangTagged
                /\ \A m \in Node : WithSubject[u][m] = WithSubject[t][m]

ASSUME BoundAssumption ==
    /\ NumPermutations \in [Kind -> Nat \ {0}]
    /\ VacuumMinimumBlockSize \in Nat
    /\ Commands \subseteq {"update", "vacuum", "clear"}
    /\ Faults \subseteq {"cancelUpdate", "cancelVacuum", "disk", "crash"}
    /\ Persist \in BOOLEAN
    /\ MaxOperations \in Nat
    /\ MaxIndex \in Nat

-----------------------------------------------------------------------------
VARIABLES
    inserted,   \* triplesInserted_ of each kind (its keys)
    deleted,    \* triplesDeleted_ of each kind (its keys)
    located,    \* the located triples of each permutation
    augmented,  \* the located triples the block metadata accounts for
    index,      \* locatedTriples_->index_
    snapshot,   \* currentLocatedTriplesSharedState_
    file,       \* the file of the persisted updates
    pc,         \* where the update thread is
    mode,       \* what the update thread is doing
    where,      \* whether the current operation has a graph pattern
    op,         \* the triples of the current operation
    opsDone,    \* how many operations of the request have been executed
    torn        \* history: an exception left the live state half-modified

live == <<inserted, deleted, located, augmented, index>>
request == <<mode, where, op, opsDone>>
vars == <<inserted, deleted, located, augmented, index, snapshot, file, pc,
          mode, where, op, opsDone, torn>>

NoFile == [inserted |-> {}, deleted |-> {}, state |-> "absent"]
NoOp == [del |-> {}, ins |-> {}]
EmptySnapshot ==
    [located |-> [s \in Permutations |-> {}],
     augmented |-> [s \in Permutations |-> {}],
     index |-> 0]

\* The process has not been started yet and nothing has been persisted.
Init ==
    /\ inserted = [k \in Kind |-> {}]
    /\ deleted = [k \in Kind |-> {}]
    /\ located = EmptySnapshot.located
    /\ augmented = EmptySnapshot.augmented
    /\ index = 0
    /\ snapshot = EmptySnapshot
    /\ file = NoFile
    /\ pc = "down"
    /\ mode = "none"
    /\ where = FALSE
    /\ op = NoOp
    /\ opsDone = 0
    /\ torn = FALSE

-----------------------------------------------------------------------------
(***************************************************************************)
(* Starting and ending the process.  The constructor of the manager        *)
(* publishes the empty DeltaTriples; createFromOnDiskIndex then reads the  *)
(* persisted updates, inserting before deleting, and publishes the result. *)
(***************************************************************************)
readFromDisk ==
    IF Persist /\ file.state # "absent"
      THEN /\ op' = [del |-> file.deleted, ins |-> file.inserted]
           /\ pc' = "insertNormal"
      ELSE /\ op' = NoOp
           /\ pc' = "metadata"

Start ==
    /\ pc = "down"
    /\ readFromDisk
    /\ mode' = "restore"
    /\ UNCHANGED <<live, snapshot, file, where, opsDone, torn>>

\* The process ends at any point: only the files survive.
Crash ==
    /\ "crash" \in Faults
    /\ pc # "down"
    /\ inserted' = [k \in Kind |-> {}]
    /\ deleted' = [k \in Kind |-> {}]
    /\ located' = EmptySnapshot.located
    /\ augmented' = EmptySnapshot.augmented
    /\ index' = 0
    /\ snapshot' = EmptySnapshot
    /\ pc' = "down"
    /\ mode' = "none"
    /\ where' = FALSE
    /\ op' = NoOp
    /\ opsDone' = 0
    /\ torn' = FALSE
    /\ UNCHANGED file

-----------------------------------------------------------------------------
(***************************************************************************)
(* DeltaTriplesManager::modify: the update thread takes the write lock,    *)
(* runs the function of the request, then updates the metadata, writes the *)
(* updates to disk and publishes a new snapshot.                           *)
(***************************************************************************)
Idle == pc = "idle"

BeginUpdate ==
    /\ Idle
    /\ "update" \in Commands
    /\ pc' = "operation"
    /\ mode' = "update"
    /\ opsDone' = 0
    /\ UNCHANGED <<live, snapshot, file, where, op, torn>>

BeginVacuum ==
    /\ Idle
    /\ "vacuum" \in Commands
    /\ pc' = "vacuumNormal"
    /\ mode' = "vacuum"
    /\ UNCHANGED <<live, snapshot, file, where, op, opsDone, torn>>

\* DeltaTriples::clear empties the maps and the located triples and drops the
\* augmented metadata; it leaves index_ alone.
Clear ==
    /\ Idle
    /\ "clear" \in Commands
    /\ inserted' = [k \in Kind |-> {}]
    /\ deleted' = [k \in Kind |-> {}]
    /\ located' = EmptySnapshot.located
    /\ augmented' = EmptySnapshot.augmented
    /\ pc' = "metadata"
    /\ mode' = "clear"
    /\ torn' = FALSE
    /\ UNCHANGED <<index, snapshot, file, where, op, opsDone>>

\* An exception ends modify: the lock is released, nothing is undone, and
\* neither the metadata nor the file nor the snapshot is updated.
Throw(changed) ==
    /\ pc' = "idle"
    /\ mode' = "none"
    /\ where' = FALSE
    /\ op' = NoOp
    /\ opsDone' = 0
    /\ torn' = (torn \/ changed)
    /\ UNCHANGED <<index, snapshot, file>>

\* Mutant: the metadata is not recomputed before the snapshot is published.
updateAugmentedMetadata_Stale ==
    /\ pc = "metadata"
    /\ pc' = IF mode = "restore" \/ ~Persist THEN "publish" ELSE "write"
    /\ UNCHANGED <<live, snapshot, file, request, torn>>

\* Mutant: the snapshot is published without writing the updates to disk.
updateAugmentedMetadata_NoWrite ==
    /\ pc = "metadata"
    /\ augmented' = located
    /\ pc' = "publish"
    /\ UNCHANGED <<inserted, deleted, located, index, snapshot, file, request,
                   torn>>

updateAugmentedMetadata ==
    /\ pc = "metadata"
    /\ augmented' = located
    /\ pc' = IF mode = "restore" \/ ~Persist THEN "publish" ELSE "write"
    /\ UNCHANGED <<inserted, deleted, located, index, snapshot, file, request,
                   torn>>

\* writeToDisk: the normal triples only, to a temporary file that replaces the
\* previous file once it is complete.  Nobody reads a temporary file.
BeginWrite ==
    /\ pc = "write"
    /\ pc' = "rename"
    /\ UNCHANGED <<live, snapshot, file, request, torn>>

Rename ==
    /\ pc = "rename"
    /\ file' = [inserted |-> inserted["normal"],
                deleted |-> deleted["normal"], state |-> "complete"]
    /\ pc' = "publish"
    /\ UNCHANGED <<live, snapshot, request, torn>>

\* Opening, writing or renaming the file fails with an exception.
DiskFault ==
    /\ "disk" \in Faults
    /\ pc \in {"write", "rename"}
    /\ Throw(FALSE)
    /\ UNCHANGED <<inserted, deleted, located, augmented>>

Publish ==
    /\ pc = "publish"
    /\ snapshot' = [located |-> located, augmented |-> augmented,
                    index |-> index]
    /\ pc' = "idle"
    /\ mode' = "none"
    /\ where' = FALSE
    /\ op' = NoOp
    /\ opsDone' = 0
    /\ UNCHANGED <<live, file, torn>>

-----------------------------------------------------------------------------
(***************************************************************************)
(* An update request is a list of operations.  Each evaluates its graph    *)
(* pattern on the live state, which makes the triples to delete and to     *)
(* insert, and then deletes and inserts them.                              *)
(***************************************************************************)
\* Mutant: the metadata is refreshed for none of the first two operations.
BeginOperation_OffByOne ==
    /\ pc = "operation"
    /\ opsDone < MaxOperations
    /\ where' \in BOOLEAN
    /\ augmented' = IF opsDone > 1 /\ where' THEN located ELSE augmented
    /\ pc' = "where"
    /\ op' = NoOp
    /\ UNCHANGED <<inserted, deleted, located, index, snapshot, file, mode,
                   opsDone, torn>>

BeginOperation ==
    /\ pc = "operation"
    /\ opsDone < MaxOperations
    /\ where' \in BOOLEAN
    /\ augmented' = IF opsDone # 0 /\ where' THEN located ELSE augmented
    /\ pc' = "where"
    /\ op' = NoOp
    /\ UNCHANGED <<inserted, deleted, located, index, snapshot, file, mode,
                   opsDone, torn>>

\* executeUpdate calls deleteTriples and insertTriples only with triples.
FirstPhase(o) ==
    CASE o.del # {} -> "deleteNormal"
      [] o.del = {} /\ o.ins # {} -> "insertNormal"
      [] OTHER -> "operation"

\* The blank nodes of localVocab_ that a located triple still has: another one
\* can no longer come up.
OwnedNodes ==
    UNION {NodesOf(s[1], {x[1] : x \in located[s]}) : s \in Permutations}

UsedNodes ==
    OwnedNodes \cup RequestNode \cup NodesIn(file.inserted \cup file.deleted)
        \cup UNION {NodesOf(s[1], {x[1] : x \in snapshot.located[s]}) :
                      s \in Permutations}

\* The bound on blank nodes: room for the normal and the internal triples of
\* this operation and, next to those of the file, of a later restart.
RoomForNodes(del, ins) ==
    LET kept == NodesOf("normal", inserted["normal"] \cup deleted["normal"])
                    \cup NodesIn(del \cup ins)
    IN  /\ 2 * Cardinality(NodesIn(ins) \cap RequestNode)
             <= Cardinality(Node \ UsedNodes)
        /\ 3 * Cardinality(kept) <= Cardinality(Node \ RequestNode)

\* Evaluating the pattern and computeGraphUpdateQuads: what is also inserted
\* is not deleted.  A pattern finds the blank nodes of located triples, normal
\* or internal; only an INSERT template may have its own ones.  The bound on
\* index_ leaves room for both calls.
EvaluateWhere ==
    /\ pc = "where"
    /\ \E del \in SUBSET {t \in Triple : NodesIn({t}) \subseteq OwnedNodes},
          ins \in SUBSET {t \in Triple :
                            NodesIn({t}) \subseteq OwnedNodes \cup RequestNode} :
         /\ del \cup ins # {} => index + 2 <= MaxIndex
         /\ RoomForNodes(del, ins)
         /\ op' = [del |-> del \ ins, ins |-> ins]
    /\ pc' = FirstPhase(op')
    /\ where' = FALSE
    /\ opsDone' = opsDone + 1
    /\ UNCHANGED <<live, snapshot, file, mode, torn>>

EndOperations ==
    /\ pc = "operation"
    /\ opsDone > 0
    /\ pc' = "metadata"
    /\ op' = NoOp
    /\ UNCHANGED <<live, snapshot, file, mode, where, opsDone, torn>>

\* The timeout is noticed while an operation is planned or evaluated; earlier
\* operations of the request have already changed the live state.
CancelOperation ==
    /\ "cancelUpdate" \in Faults
    /\ pc \in {"operation", "where"}
    /\ Throw(opsDone > 0)
    /\ UNCHANGED <<inserted, deleted, located, augmented>>

-----------------------------------------------------------------------------
(***************************************************************************)
(* makeInternalTriples: every language-tagged quad has a copy under its    *)
(* language-tagged predicate; an insertion also tags each object, once per *)
(* call, in the graph of the first quad with that object.  Tags stay.      *)
(***************************************************************************)
\* Mutant: quads without a language tag are not skipped.
makeInternalTriples_All(S, flag) == {LangPredicate(t) : t \in S}

\* Mutant: a deletion does not delete the copies.
makeInternalTriples_InsertOnly(S, flag) ==
    IF flag = "insert" THEN InternalsOf(S \cap LangTagged) ELSE {}

makeInternalTriples(S, flag) ==
    LET tagged == S \cap LangTagged
        first == {t \in tagged :
                     \A u \in tagged : Object[u] = Object[t] => t <= u}
    IN  {LangPredicate(t) : t \in tagged}
            \cup (IF flag = "insert" THEN {LangTag(t) : t \in first} ELSE {})

(***************************************************************************)
(* rewriteLocalVocabEntriesAndBlankNodes: a blank node that neither the    *)
(* static index nor localVocab_ has is replaced by a new one, the same for *)
(* all triples of the call.  The normal and the internal triples are two   *)
(* calls.  The local vocab hands out its blank nodes in order.             *)
(***************************************************************************)
Renamed(f, S) ==
    {IF Subject[t] \in DOMAIN f THEN WithSubject[t][f[Subject[t]]] ELSE t :
        t \in S}

rewriteLocalVocabEntriesAndBlankNodes(k, S) ==
    LET foreign == NodesOf(k, S) \ OwnedNodes
        free == Node \ UsedNodes
        copies == {LangPredicate(t) : t \in CopiedIn(S)}
        blankNodeMaps ==
          {f \in [foreign -> free] :
             \A m, n \in foreign :
                /\ f[m] = f[n] => m = n
                /\ \A i \in free : i < f[n] => \E j \in foreign : f[j] = i}
    IN  {IF k = "normal" THEN Renamed(f, S)
         ELSE {LangPredicate(t) : t \in Renamed(f, CopiedIn(S))}
                \cup (S \ copies) : f \in blankNodeMaps}

(***************************************************************************)
(* The rest of modifyTriplesImpl: triples already in the target map are    *)
(* dropped, triples in the inverse map are erased from it and from every   *)
(* permutation, then the remaining triples are located and added to one    *)
(* permutation after the other, and finally entered into the target map.   *)
(***************************************************************************)
Target(k, flag) == IF flag = "insert" THEN inserted[k] ELSE deleted[k]

Fresh(k, flag, S) == S \ Target(k, flag)

Erased(k, flag, S) ==
    Located(Fresh(k, flag, S) \cap Target(k, Inverse(flag)), Inverse(flag))

\* LocatedTriples is a std::set ordered by the triple only: it has a triple with
\* one flag at most, and adding it with either flag while it is there fails the
\* check in LocatedTriplesPerBlock::add.
Conflicts(k, flag, S, p) ==
    {t \in Fresh(k, flag, S) :
        \E f \in Flag :
            <<t, f>> \in located[<<k, p>>] \ Erased(k, flag, S)}

\* The located triples after those in added[p] were added to permutation p.
Relocate(k, flag, S, added) ==
    located' = [s \in Permutations |->
                  IF s[1] = k
                    THEN (located[s] \ Erased(k, flag, S))
                            \cup Located(added[s[2]], flag)
                    ELSE located[s]]

\* The inverse map loses the fresh triples, the target map gains Marked.
\* Mutant: the inverse map keeps the triples.
Remap_KeepInverse(k, flag, S, Marked) ==
    IF flag = "insert"
      THEN /\ inserted' = [inserted EXCEPT ![k] = @ \cup Marked]
           /\ UNCHANGED deleted
      ELSE /\ deleted' = [deleted EXCEPT ![k] = @ \cup Marked]
           /\ UNCHANGED inserted

Remap(k, flag, S, Marked) ==
    IF flag = "insert"
      THEN /\ deleted' = [deleted EXCEPT ![k] = @ \ Fresh(k, "insert", S)]
           /\ inserted' = [inserted EXCEPT ![k] = @ \cup Marked]
      ELSE /\ inserted' = [inserted EXCEPT ![k] = @ \ Fresh(k, "delete", S)]
           /\ deleted' = [deleted EXCEPT ![k] = @ \cup Marked]

modifyTriplesImpl(k, flag, S) ==
    /\ \A p \in 1 .. NumPermutations[k] : Conflicts(k, flag, S, p) = {}
    /\ Relocate(k, flag, S,
                [p \in 1 .. NumPermutations[k] |-> Fresh(k, flag, S)])
    /\ Remap(k, flag, S, Fresh(k, flag, S))

\* The same call when it throws: the first n permutations have the triples,
\* the next one has those added before a failed check, the maps have none.
modifyTriplesInterrupted(k, flag, S) ==
    \E n \in 0 .. NumPermutations[k], partial \in SUBSET Fresh(k, flag, S) :
        /\ \A p \in 1 .. n : Conflicts(k, flag, S, p) = {}
        /\ \/ /\ "cancelUpdate" \in Faults
              /\ mode = "update"
              /\ partial = {}
           \/ /\ n < NumPermutations[k]
              /\ Conflicts(k, flag, S, n + 1) # {}
              /\ partial \cap Conflicts(k, flag, S, n + 1) = {}
        /\ Relocate(k, flag, S,
                    [p \in 1 .. NumPermutations[k] |->
                       IF p <= n THEN Fresh(k, flag, S)
                       ELSE IF p = n + 1 THEN partial ELSE {}])
        /\ Remap(k, flag, S, {})
        /\ Throw(TRUE)
        /\ UNCHANGED augmented

-----------------------------------------------------------------------------
(***************************************************************************)
(* deleteTriples and insertTriples: first the normal triples, then the     *)
(* internal ones, and only then index_ is incremented.  While updates are  *)
(* restored both are called, insertTriples first.                          *)
(***************************************************************************)
modifyNormal(flag, S, next) ==
    \E T \in rewriteLocalVocabEntriesAndBlankNodes("normal", S) :
        \/ /\ modifyTriplesImpl("normal", flag, T)
           /\ pc' = next
           /\ UNCHANGED <<augmented, index, snapshot, file, request, torn>>
        \/ modifyTriplesInterrupted("normal", flag, T)

\* Mutant: index_ is only incremented by insertions.
modifyInternal_NoBump(flag, S, next) ==
    \E T \in rewriteLocalVocabEntriesAndBlankNodes(
                  "internal", makeInternalTriples(S, flag)) :
        \/ /\ modifyTriplesImpl("internal", flag, T)
           /\ index' = IF flag = "insert" THEN index + 1 ELSE index
           /\ pc' = next
           /\ UNCHANGED <<augmented, snapshot, file, request, torn>>
        \/ modifyTriplesInterrupted("internal", flag, T)

modifyInternal(flag, S, next) ==
    \E T \in rewriteLocalVocabEntriesAndBlankNodes(
                  "internal", makeInternalTriples(S, flag)) :
        \/ /\ modifyTriplesImpl("internal", flag, T)
           /\ index' = index + 1
           /\ pc' = next
           /\ UNCHANGED <<augmented, snapshot, file, request, torn>>
        \/ modifyTriplesInterrupted("internal", flag, T)

DeleteNormal ==
    /\ pc = "deleteNormal"
    /\ modifyNormal("delete", op.del, "deleteInternal")

DeleteInternal ==
    /\ pc = "deleteInternal"
    /\ modifyInternal("delete", op.del,
                      CASE mode = "restore" -> "metadata"
                        [] mode # "restore" /\ op.ins # {} -> "insertNormal"
                        [] OTHER -> "operation")

InsertNormal ==
    /\ pc = "insertNormal"
    /\ modifyNormal("insert", op.ins, "insertInternal")

InsertInternal ==
    /\ pc = "insertInternal"
    /\ modifyInternal("insert", op.ins,
                      IF mode = "restore" THEN "deleteNormal" ELSE "operation")

-----------------------------------------------------------------------------
(***************************************************************************)
(* vacuum: in the PSO blocks with enough located triples, the insertions   *)
(* of triples the static index has and the deletions of triples it has not *)
(* are removed, first among the normal, then among the internal triples.   *)
(***************************************************************************)
InLargeBlock(k, t) ==
    Cardinality({x \in located[PSO(k)] : Block[k][x[1]] = Block[k][t]})
        >= VacuumMinimumBlockSize

\* Mutant: every located triple of a large block is taken for redundant.
identifyTriplesToVacuum_All(k) ==
    {x \in located[PSO(k)] : InLargeBlock(k, x[1])}

identifyTriplesToVacuum(k) ==
    {x \in located[PSO(k)] :
        /\ InLargeBlock(k, x[1])
        /\ x[2] = "insert" <=> x[1] \in BaseOf(k)}

\* Erase the located triples in X through their handles in the two maps.
\* Mutant: the triples are erased from the PSO permutation only.
EraseLocated_PsoOnly(k, X) ==
    /\ located' = [located EXCEPT ![PSO(k)] = @ \ X]
    /\ inserted' =
         [inserted EXCEPT ![k] = {t \in @ : <<t, "insert">> \notin X}]
    /\ deleted' =
         [deleted EXCEPT ![k] = {t \in @ : <<t, "delete">> \notin X}]

EraseLocated(k, X) ==
    /\ located' = [s \in Permutations |->
                     IF s[1] = k THEN located[s] \ X ELSE located[s]]
    /\ inserted' =
         [inserted EXCEPT ![k] = {t \in @ : <<t, "insert">> \notin X}]
    /\ deleted' =
         [deleted EXCEPT ![k] = {t \in @ : <<t, "delete">> \notin X}]

Handles(k) == Located(inserted[k], "insert") \cup Located(deleted[k], "delete")

VacuumKind(k, next) ==
    /\ identifyTriplesToVacuum(k) \subseteq Handles(k)
    /\ EraseLocated(k, identifyTriplesToVacuum(k))
    /\ pc' = next
    /\ UNCHANGED <<augmented, index, snapshot, file, request, torn>>

\* The timeout is noticed, or a triple is found in the PSO permutation that no
\* map has; the triples removed so far stay removed.
VacuumInterrupted(k) ==
    /\ \/ "cancelVacuum" \in Faults
       \/ ~(identifyTriplesToVacuum(k) \subseteq Handles(k))
    /\ \E X \in SUBSET (identifyTriplesToVacuum(k) \cap Handles(k)) :
         EraseLocated(k, X)
    /\ Throw(FALSE)
    /\ UNCHANGED augmented

VacuumNormal ==
    /\ pc = "vacuumNormal"
    /\ \/ VacuumKind("normal", "vacuumInternal")
       \/ VacuumInterrupted("normal")

VacuumInternal ==
    /\ pc = "vacuumInternal"
    /\ \/ VacuumKind("internal", "metadata")
       \/ VacuumInterrupted("internal")

-----------------------------------------------------------------------------
Next ==
    \/ Start \/ Crash
    \/ BeginUpdate \/ BeginVacuum \/ Clear
    \/ BeginOperation \/ EvaluateWhere \/ EndOperations \/ CancelOperation
    \/ DeleteNormal \/ DeleteInternal \/ InsertNormal \/ InsertInternal
    \/ VacuumNormal \/ VacuumInternal
    \/ updateAugmentedMetadata
    \/ BeginWrite \/ Rename \/ DiskFault
    \/ Publish

Spec == Init /\ [][Next]_vars

-----------------------------------------------------------------------------
(***************************************************************************)
(* What readers see: the triples of the static index without the deleted   *)
(* and with the inserted ones, read from one permutation.                  *)
(***************************************************************************)
View(loc, s) ==
    {t \in TriplesOf(s[1]) :
        \/ <<t, "insert">> \in loc[s]
        \/ t \in BaseOf(s[1]) /\ <<t, "delete">> \notin loc[s]}

LiveView(k) == (BaseOf(k) \ deleted[k]) \cup inserted[k]
SnapshotView(k) == View(snapshot.located, PSO(k))
FileView == (Base \ file.deleted) \cup file.inserted

Entries(k) == TriplesOf(k) \X Flag

FileType ==
    [inserted : SUBSET Triple, deleted : SUBSET Triple,
     state : {"absent", "complete"}]

PCs == {"down", "idle", "operation", "where", "deleteNormal",
        "deleteInternal", "insertNormal", "insertInternal", "vacuumNormal",
        "vacuumInternal", "metadata", "write", "rename", "publish"}

LocatedOK(loc) ==
    /\ loc = [s \in Permutations |-> loc[s]]
    /\ \A s \in Permutations : loc[s] \subseteq Entries(s[1])

MapOK(map) ==
    /\ map = [k \in Kind |-> map[k]]
    /\ \A k \in Kind : map[k] \subseteq TriplesOf(k)

\* The type of the state.
TypeOK ==
    /\ MapOK(inserted) /\ MapOK(deleted)
    /\ LocatedOK(located) /\ LocatedOK(augmented)
    /\ index \in Nat
    /\ snapshot = [located |-> snapshot.located,
                   augmented |-> snapshot.augmented, index |-> snapshot.index]
    /\ LocatedOK(snapshot.located) /\ LocatedOK(snapshot.augmented)
    /\ snapshot.index \in Nat
    /\ file \in FileType
    /\ pc \in PCs
    /\ mode \in {"none", "restore", "update", "vacuum", "clear"}
    /\ where \in BOOLEAN
    /\ op \in [del : SUBSET Triple, ins : SUBSET Triple]
    /\ opsDone \in Nat
    /\ torn \in BOOLEAN

\* Every handle in the two maps points to a located triple with the flag of
\* its map in every permutation, also after an update was cut short: erasing
\* through a handle (eraseTripleInAllPermutations) never touches an element
\* that is gone or that belongs to the other map.
HandlesValid ==
    \A s \in Permutations : Handles(s[1]) \subseteq located[s]

\* Unless an exception ended an update halfway, all permutations hold exactly
\* the triples of the two maps.
MapsMatchPermutations ==
    ~torn => \A s \in Permutations : located[s] = Handles(s[1])

\* A query gets the same triples from every permutation of the snapshot, and
\* the block metadata accounts for every inserted triple, so that no scan
\* skips the block it is in.
SnapshotConsistent ==
    \A s \in Permutations :
        /\ View(snapshot.located, s) = SnapshotView(s[1])
        /\ \A t \in TriplesOf(s[1]) :
              <<t, "insert">> \in snapshot.located[s]
                  => <<t, "insert">> \in snapshot.augmented[s]

\* The graph pattern of an operation is evaluated on the live state with
\* metadata that accounts for every triple inserted so far.
WhereSeesLiveState ==
    pc = "where" /\ where /\ ~torn =>
        \A s \in Permutations : \A t \in TriplesOf(s[1]) :
            <<t, "insert">> \in located[s] => <<t, "insert">> \in augmented[s]

\* The internal triples of a snapshot answer language filters of queries over
\* all graphs: a language-tagged quad without a local blank node is visible
\* exactly if its copy is, and the object of every visible language-tagged quad
\* has its tag in some graph, though a call tags an object in one graph only
\* (makeInternalTriples) and no tag is ever deleted.
LanguageFilterComplete ==
    \A t \in LangTagged :
        /\ Subject[t] \notin Node =>
             (t \in SnapshotView("normal")
                <=> LangPredicate(t) \in SnapshotView("internal"))
        /\ t \in SnapshotView("normal") =>
             \E u \in LangTagged :
                 /\ Object[u] = Object[t]
                 /\ LangTag(u) \in SnapshotView("internal")

\* Every visible language-tagged quad has its copy and its tag in its graph, as
\* in the static index.  The code does not ensure either, the first for quads
\* with a blank node, the second for an object that is used in two graphs: see
\* the observations in the README.
LanguageFilterAsInBase ==
    \A t \in LangTagged \cap SnapshotView("normal") :
        InternalsOf({t}) \subseteq SnapshotView("internal")

\* While the process runs, the index of the published snapshot never
\* decreases, and a snapshot with the index of its predecessor has the
\* content of its predecessor: the index is part of the query cache's key.
IndexIdentifiesContent ==
    [][(snapshot' # snapshot /\ pc' # "down" /\ mode # "restore") =>
          /\ snapshot'.index >= snapshot.index
          /\ snapshot'.index = snapshot.index =>
               \A k \in Kind : SnapshotView(k)' = SnapshotView(k)]_vars

\* vacuum removes triples from the DeltaTriples but none from and none to the
\* content, also when it is cut short.
VacuumKeepsContent ==
    [][(mode = "vacuum" /\ pc' # "down") =>
          \A k \in Kind : LiveView(k)' = LiveView(k)]_vars

\* An update request whose operations fail leaves the content as it was, so
\* that all operations of a request take effect or none does.  The code does
\* not ensure this: see the observations in the README.
UpdateIsAtomic ==
    [][(mode = "update" /\ mode' = "none" /\ pc # "publish" /\ pc' # "down") =>
          \A k \in Kind : LiveView(k)' = SnapshotView(k)]_vars

(***************************************************************************)
(* The abstract store of which this is an implementation: saved is the     *)
(* content of the file, visible what queries are answered from.  While the *)
(* process is down or restores its updates, no query is answered, and what *)
(* will be visible is what has been saved.  A restart renames the blank    *)
(* nodes of the file, so the content is taken up to their names.           *)
(***************************************************************************)
Saved == UpToNodes(FileView)

Visible ==
    IF pc = "down" \/ mode = "restore" THEN Saved
    ELSE UpToNodes(SnapshotView("normal"))

Store == INSTANCE TripleStore
    WITH Triple <- UpToNodes(Triple), Base <- UpToNodes(Base),
         saved <- Saved, visible <- Visible

\* Updates are durable before they are visible, and survive a crash whole.
ImplementsTripleStore == Store!Spec
=============================================================================
