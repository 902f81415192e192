----------------------------- MODULE BlankNodes -----------------------------
(***************************************************************************)
(* Blank nodes that are created at run time: the BlankNodeManager of the   *)
(* index, the LocalBlankNodeManagers of local vocabularies, how they are   *)
(* written to disk with a result and reinstated by the next process.       *)
(*                                                                         *)
(* A blank node index is a pair <<block, k>> with k < BlockSize; the       *)
(* indices below minIndex_, which the index itself owns, play no role.     *)
(* A set of blocks (class Blocks) is owned jointly by the vocabularies     *)
(* that hold a shared_ptr to it.  When the last one drops it, it is        *)
(* "dying" until its destructor has taken the lock in freeBlockSet; the    *)
(* steps of other threads fall in between.                                 *)
(***************************************************************************)
EXTENDS Integers, Sequences, SequencesExt, FiniteSets

CONSTANTS Block,        \* the blocks, totalAvailableBlocks_ of them
          BlockSize,    \* blockSize_
          MaxUsed,      \* totalAvailableBlocks_ / 256
          MaxUuid,      \* bound: how many UUIDs are drawn
          BlockSet,     \* the addresses of Blocks objects
          Vocab,        \* the local vocabularies
          None,
          MaxRestarts

ASSUME BlankNodesAssumption ==
    /\ BlockSize \in Nat \ {0}
    /\ IsFiniteSet(BlockSet) /\ None \notin BlockSet

VARIABLES
    used,       \* usedBlocksSet_
    managed,    \* managedBlockSets_: UUID -> the set it points to, weakly
    random,     \* randomBlockWasRequested_
    sets,       \* the Blocks objects: state, uuid and blocks
    vocabs,     \* the local vocabularies with their LocalBlankNodeManager
    file,       \* the vocabulary of the result that is on disk
    fault,      \* a check in a destructor has failed
    raced,      \* a UUID was reinstated while its old set was dying
    drawn,      \* the number of UUIDs drawn so far
    restarts

managerVars == <<used, managed, random, sets>>
vars == <<used, managed, random, sets, vocabs, file, fault, raced, drawn, restarts>>

NoSet == [state |-> "none", uuid |-> None, blocks |-> <<>>]
NoVocab == [primary |-> None, others |-> {}, pending |-> <<>>, ids |-> {}]

Init ==
    /\ used = {} /\ managed = <<>> /\ random = FALSE
    /\ sets = [s \in BlockSet |-> NoSet]
    /\ vocabs = [v \in Vocab |-> NoVocab]
    /\ file = None /\ fault = FALSE /\ raced = FALSE
    /\ drawn = 0 /\ restarts = 0

Refs(v) == vocabs[v].others \union ({vocabs[v].primary} \ {None})
Exists(v) == vocabs[v].primary # None
Complete(v) == Exists(v) /\ vocabs[v].pending = <<>>
BlocksOf(s) == {sets[s].blocks[n].idx : n \in DOMAIN sets[s].blocks}
NewBlock(b) == [idx |-> b, next |-> 0]

(* UUIDs are random: none is ever drawn twice.  Which one is drawn makes   *)
(* no difference, so that they are numbered.                               *)
FreeSets == {s \in BlockSet : sets[s].state = "none"}

Put(f, u, s) == [x \in DOMAIN f \union {u} |-> IF x = u THEN s ELSE f[x]]
Without(f, u) == [x \in DOMAIN f \ {u} |-> f[x]]

(* After the references of a vocabulary have changed: the sets without an  *)
(* owner are dying.                                                        *)
Expire(ss, vs) ==
    [s \in BlockSet |->
        IF ss[s].state = "live" /\ \A v \in Vocab :
               s # vs[v].primary /\ s \notin vs[v].others
          THEN [ss[s] EXCEPT !.state = "dying"] ELSE ss[s]]

(* createBlockSet, for the LocalBlankNodeManager that v gets. *)
CreateManager(v, others, pending, ids) ==
    LET u == drawn + 1
        s == CHOOSE x \in FreeSets : TRUE
    IN  /\ drawn < MaxUuid /\ drawn' = u /\ FreeSets # {}
        /\ managed' = Put(managed, u, s)
        /\ sets' = [sets EXCEPT ![s] = [state |-> "live", uuid |-> u, blocks |-> <<>>]]
        /\ vocabs' = [vocabs EXCEPT ![v] =
               [primary |-> s, others |-> others, pending |-> pending, ids |-> ids]]
        /\ UNCHANGED <<used, random>>

CreateVocab(v) ==
    /\ ~Exists(v)
    /\ CreateManager(v, {}, <<>>, {})
    /\ UNCHANGED <<file, fault, raced, restarts>>

---------------------------------------------------------------------------
(* LocalBlankNodeManager::getId with BlankNodeManager::allocateBlock.  The *)
(* current block is full when its next index is idxAfterCurrentBlock_.     *)

NeedsBlock(s) ==
    \A n \in DOMAIN sets[s].blocks :
        n = Len(sets[s].blocks) => sets[s].blocks[n].next = BlockSize

(* v obtains the blank node id; the vocabulary remembers it as its own. *)
getId(v, id) ==
    LET s == vocabs[v].primary
        blocks == sets[s].blocks
    IN  /\ IF NeedsBlock(s)
             THEN /\ Cardinality(used) < MaxUsed
                  /\ id[1] \in Block \ used /\ id[2] = 0
                  /\ used' = used \union {id[1]} /\ random' = TRUE
                  /\ sets' = [sets EXCEPT ![s].blocks =
                         Append(@, [idx |-> id[1], next |-> 1])]
             ELSE /\ id = <<Last(blocks).idx, Last(blocks).next>>
                  /\ sets' = [sets EXCEPT ![s].blocks[Len(blocks)].next = @ + 1]
                  /\ UNCHANGED <<used, random>>
        /\ vocabs' = [vocabs EXCEPT ![v].ids = @ \union {id}]
        /\ UNCHANGED managed

Id == Block \X (0 .. BlockSize - 1)

GetId(v) ==
    /\ Complete(v)
    /\ \E id \in Id : getId(v, id)
    /\ UNCHANGED <<file, fault, raced, drawn, restarts>>

(* The check of allocateBlock fails: too many blocks are in use. *)
GetIdThrows(v) ==
    /\ Exists(v) /\ NeedsBlock(vocabs[v].primary)
    /\ Cardinality(used) >= MaxUsed
    /\ random' = TRUE
    /\ UNCHANGED <<used, managed, sets, vocabs, file, fault,
                   raced, drawn, restarts>>

(* containsBlankNodeIndex looks below the next index of every block. *)
containsBlankNodeIndex(v, id) ==
    \E s \in Refs(v) : \E n \in DOMAIN sets[s].blocks :
        sets[s].blocks[n].idx = id[1] /\ id[2] < sets[s].blocks[n].next

(* Mutant: only the primary set of w is kept alive. *)
MergeWith_PrimaryOnly(v, w) ==
    /\ v # w /\ Complete(v) /\ Complete(w)
    /\ vocabs' = [vocabs EXCEPT ![v].others = @ \union {vocabs[w].primary},
                                ![v].ids = @ \union vocabs[w].ids]
    /\ UNCHANGED <<managerVars, file, fault, raced, drawn, restarts>>

(* mergeWith: v keeps the sets of w alive. *)
MergeWith(v, w) ==
    /\ v # w /\ Complete(v) /\ Complete(w)
    /\ vocabs' = [vocabs EXCEPT ![v].others = @ \union Refs(w),
                                ![v].ids = @ \union vocabs[w].ids]
    /\ UNCHANGED <<managerVars, file, fault, raced, drawn, restarts>>

Drop(v) ==
    /\ Complete(v)
    /\ vocabs' = [vocabs EXCEPT ![v] = NoVocab]
    /\ sets' = Expire(sets, vocabs')
    /\ UNCHANGED <<used, managed, random, file, fault, raced, drawn, restarts>>

(* Mutant: the blocks are only freed together with the UUID. *)
freeBlockSet_WithUuid(s) ==
    LET u == sets[s].uuid
        gone == u \in DOMAIN managed /\ sets[managed[u]].state # "live"
    IN  /\ sets[s].state = "dying"
        /\ sets' = [sets EXCEPT ![s] = NoSet]
        /\ managed' = IF gone THEN Without(managed, u) ELSE managed
        /\ used' = IF gone THEN used ELSE used \ BlocksOf(s)
        /\ UNCHANGED <<random, fault, vocabs, file, raced, drawn, restarts>>

(* freeBlockSet, called by the destructor of the set. *)
freeBlockSet(s) ==
    LET u == sets[s].uuid
    IN  /\ sets[s].state = "dying"
        /\ sets' = [sets EXCEPT ![s] = NoSet]
        /\ IF u \notin DOMAIN managed THEN UNCHANGED <<used, managed, fault>>
           ELSE /\ managed' = IF sets[managed[u]].state # "live"
                                THEN Without(managed, u) ELSE managed
                /\ fault' = (fault \/ ~(BlocksOf(s) \subseteq used))
                /\ used' = used \ BlocksOf(s)
        /\ UNCHANGED <<random, vocabs, file, raced, drawn, restarts>>

---------------------------------------------------------------------------
(* Results and updates on disk. *)

(* getOwnedBlockIndices: the primary set first, then the others. *)
Entry(s) == [uuid |-> sets[s].uuid,
             indices |-> [n \in DOMAIN sets[s].blocks |-> sets[s].blocks[n].idx]]
getOwnedBlockIndices(v) ==
    LET others == SetToSeq(vocabs[v].others)
    IN  <<Entry(vocabs[v].primary)>> \o [n \in DOMAIN others |-> Entry(others[n])]

WriteResult(v) ==
    /\ Complete(v) /\ file = None
    /\ file' = [entries |-> getOwnedBlockIndices(v), ids |-> vocabs[v].ids]
    /\ UNCHANGED <<managerVars, vocabs, fault, raced, drawn, restarts>>

(* The end of the process and the start of the next one. *)
Restart ==
    /\ restarts < MaxRestarts /\ restarts' = restarts + 1
    /\ used' = {} /\ managed' = <<>> /\ random' = FALSE
    /\ sets' = [s \in BlockSet |-> NoSet]
    /\ vocabs' = [v \in Vocab |-> NoVocab]
    /\ UNCHANGED <<file, fault, raced, drawn>>

(* reserveBlankNodeBlocksFromExplicitIndices: a new LocalBlankNodeManager, *)
(* whose other sets are then registered one by one.                        *)
ReadResult(v) ==
    /\ ~Exists(v) /\ file # None
    /\ CreateManager(v, {}, file.entries, file.ids)
    /\ UNCHANGED <<file, fault, raced, restarts>>

(* registerAndAllocateBlockSet for the next entry of v. *)
Registered(v, s) ==
    [vocabs EXCEPT ![v].others = @ \union {s}, ![v].pending = Tail(@)]
NotRegistered(v) == [vocabs EXCEPT ![v] = NoVocab]

(* The UUID has a set that is alive: v shares it, if it has these blocks. *)
RegisterExisting(v, entry) ==
    LET s == managed[entry.uuid]
    IN  /\ entry.uuid \in DOMAIN managed /\ sets[s].state = "live"
        /\ vocabs' = IF entry.indices = Entry(s).indices THEN Registered(v, s)
                                                         ELSE NotRegistered(v)
        /\ sets' = Expire(sets, vocabs')
        /\ UNCHANGED <<used, managed, random, raced>>

(* allocateExplicitBlock for each index; the first one that is refused     *)
(* ends the registration, and the new set is destroyed.                    *)
allocateExplicitBlock(b) == ~random /\ b \notin used

(* Mutant: blocks reserved by an explicit index are not marked as used. *)
RegisterNew_Unmarked(v, entry) ==
    LET s == CHOOSE x \in FreeSets : TRUE
    IN  /\ entry.uuid \in DOMAIN managed => sets[managed[entry.uuid]].state # "live"
        /\ raced' = (raced \/ entry.uuid \in DOMAIN managed)
        /\ FreeSets # {}
        /\ managed' = Put(managed, entry.uuid, s)
        /\ vocabs' = Registered(v, s)
        /\ sets' = [sets EXCEPT ![s] =
               [state |-> "live", uuid |-> entry.uuid,
                blocks |-> [n \in DOMAIN entry.indices |-> NewBlock(entry.indices[n])]]]
        /\ UNCHANGED <<used, random>>

RegisterNew(v, entry) ==
    \E taken \in 0 .. Len(entry.indices) :
    LET s == CHOOSE x \in FreeSets : TRUE
        got == SubSeq(entry.indices, 1, taken)
        complete == taken = Len(entry.indices)
    IN  /\ entry.uuid \in DOMAIN managed => sets[managed[entry.uuid]].state # "live"
        /\ raced' = (raced \/ entry.uuid \in DOMAIN managed)
        /\ \A n \in 1 .. taken : allocateExplicitBlock(entry.indices[n])
        /\ ~complete => ~allocateExplicitBlock(entry.indices[taken + 1])
        /\ used' = used \union ToSet(got)
        /\ FreeSets # {}
        /\ managed' = Put(managed, entry.uuid, s)
        /\ vocabs' = IF complete THEN Registered(v, s) ELSE NotRegistered(v)
        /\ sets' = Expire([sets EXCEPT ![s] =
               [state |-> "live", uuid |-> entry.uuid,
                blocks |-> [n \in 1 .. taken |-> NewBlock(got[n])]]], vocabs')
        /\ UNCHANGED random

Register(v) ==
    /\ vocabs[v].pending # <<>>
    /\ \/ RegisterExisting(v, Head(vocabs[v].pending))
       \/ RegisterNew(v, Head(vocabs[v].pending))
    /\ UNCHANGED <<file, fault, drawn, restarts>>

Next ==
    \/ \E v \in Vocab :
           \/ CreateVocab(v) \/ GetId(v) \/ GetIdThrows(v) \/ Drop(v)
           \/ WriteResult(v) \/ ReadResult(v) \/ Register(v)
           \/ \E w \in Vocab : MergeWith(v, w)
    \/ \E s \in BlockSet : freeBlockSet(s)
    \/ Restart

Spec == Init /\ [][Next]_vars
---------------------------------------------------------------------------
Held == UNION {vocabs[v].ids : v \in {v \in Vocab : Complete(v)}}
Issued ==
    {id \in Id : \E s \in BlockSet : \E n \in DOMAIN sets[s].blocks :
        sets[s].blocks[n].idx = id[1] /\ id[2] < sets[s].blocks[n].next}

(* A blank node that getId creates is none that a vocabulary already uses: *)
(* not after merges, not after blocks were freed and drawn again, and not  *)
(* after a restart for a result that was reinstated from disk, although    *)
(* the next process draws its blocks at random.                            *)
FreshIds == [][(Issued' \ Issued) \intersect Held = {}]_vars

(* Every blank node that a vocabulary uses lies in a block that it keeps   *)
(* reserved, whatever other vocabularies it was merged from and whoever    *)
(* created the block.                                                      *)
IdsProtected ==
    \A v \in Vocab : vocabs[v].pending = <<>> =>
        \A id \in vocabs[v].ids : \E s \in Refs(v) : id[1] \in BlocksOf(s)

(* The blocks in use are those of the sets that exist, the check of        *)
(* freeBlockSet for each block that it frees never fails, and no block is  *)
(* held by two sets; except that blocks stay in use forever once a UUID    *)
(* was registered again before the destructor of its old set ran.          *)
BlocksAccounted ==
    /\ ~fault
    /\ \A s, t \in BlockSet : s # t => BlocksOf(s) \intersect BlocksOf(t) = {}
    /\ UNION {BlocksOf(s) : s \in BlockSet} \subseteq used
    /\ raced \/ used \subseteq UNION {BlocksOf(s) : s \in BlockSet}
=============================================================================
