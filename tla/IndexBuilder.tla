---------------------------- MODULE IndexBuilder ----------------------------
(***************************************************************************)
(* The first phase of building an index: from parsed triples to a sorted   *)
(* vocabulary and triples of ids (IndexImpl::createIdTriplesAndVocab).     *)
(*                                                                         *)
(* The main thread reads the triples in batches.  Those of a batch are     *)
(* shared out to several item maps, which give each of their words an id   *)
(* of their own.  Each batch is handed to a writer (std::async), which     *)
(* sorts the words, replaces the ids by positions in that order, writes    *)
(* the words to a file of its own and, in a thread of its own, the triples *)
(* to the file of all batches when its turn has come.  The files of words  *)
(* are merged, and the triples get the ids of the merged vocabulary.       *)
(*                                                                         *)
(* Words are numbers > 0 in the order of the comparator, numbers < 0 stand *)
(* for values that are folded into an id.  The graph of a triple, which is *)
(* treated like its other components, is left out.  A parsed triple has    *)
(*   spo    its components,                                                *)
(*   lang   <<>>, or if the object has a language tag the entity of the    *)
(*          tag and the predicate with the tag,                            *)
(*   words  the words of a text literal.                                   *)
(***************************************************************************)
EXTENDS ValueId, Sequences, SequencesExt, FiniteSetsExt

CONSTANTS LinesPerPartial,       \* triples per batch
          NumItemMaps,           \* NUM_PARALLEL_ITEM_MAPS
          IdsPerMap,             \* 100 * maxNumberOfTriples
          NumFutures,            \* writers at the same time, 3 in the code
          BlankNodes, InternalEntities, LangTaggedPredicates,  \* sets of words
          LANGUAGE_PREDICATE, HAS_WORD_PREDICATE, SpecialIris, \* words
          Externalized,          \* the words with shouldBeExternalized
          ParsedInputs           \* what a parser may deliver: sequences of batches

Word == Nat \ {0}

ParsedTriple ==
    {t \in [spo : [1 .. 3 -> Int \ {0}], lang : {<<>>} \union (Word \X Word), words : SUBSET Word] :
        IsFiniteSet(t.words)}

(* The words with a prefix are neighbours in the order, and none of the    *)
(* prefixes is one of blank nodes.                                         *)
PrefixWords(words) ==
    /\ words \subseteq Word /\ words \intersect BlankNodes = {}
    /\ \A a, b \in words : \A w \in a .. b : w \in words

ASSUME BuildNumbers == /\ NumItemMaps \in Nat \ {0} /\ NumFutures \in Nat \ {0}
                       /\ IdsPerMap \in Nat

ASSUME BuildWords == /\ LANGUAGE_PREDICATE \in Word /\ HAS_WORD_PREDICATE \in Word
                     /\ SpecialIris \in Seq(Word)
                     /\ PrefixWords(InternalEntities) /\ PrefixWords(LangTaggedPredicates)

ASSUME BuildInputs == ParsedInputs \subseteq Seq(Seq(ParsedTriple))

VARIABLES
    phase,               \* what the main thread does
    parsed,              \* the batches that the parser has still to deliver
    total,               \* all that it delivers
    current,             \* the batch that has been read, before its writer starts
    exhausted,           \* parserExhausted
    jobs,                \* one writer for each batch
    futures,             \* writePartialVocabularyFuture, numbers of jobs
    nextOrderedRequest,  \* the job whose turn it is to write triples
    idTriples,           \* the file of all triples
    merged,              \* the result of mergeVocabulary
    converted,           \* the number of batches that have their final ids
    it,                  \* the number of triples read from the file of all triples
    pushed               \* the triples pushed to a sorter, and whether to the internal one

buildVars == <<phase, parsed, total, current, exhausted, jobs, futures,
               nextOrderedRequest, idTriples, merged, converted, it, pushed>>

BuildInit ==
    /\ phase = "idle" /\ parsed = <<>> /\ total = <<>>
    /\ current = <<>> /\ exhausted = FALSE
    /\ jobs = <<>> /\ futures = <<>>
    /\ nextOrderedRequest = 1 /\ idTriples = <<>>
    /\ merged = <<>> /\ converted = 0
    /\ it = 0 /\ pushed = <<>>

---------------------------------------------------------------------------
(* One batch. *)

(* All triples that are made of a parsed one: itself, two for a language   *)
(* tag, one for each word of a text literal.                               *)
TriplesOf(t) ==
    LET o == t.spo[3]
        words == SetToSeq(t.words)
    IN  <<t.spo>>
        \o (IF t.lang = <<>> THEN <<>>
            ELSE << <<t.spo[1], t.lang[2], o>>, <<o, LANGUAGE_PREDICATE, t.lang[1]>> >>)
        \o [n \in DOMAIN words |-> <<o, HAS_WORD_PREDICATE, words[n]>>]

(* The words in the order in which the item map is asked for their ids.    *)
(* Only the components of the triple itself have the flag.                 *)
KeysOf(t) ==
    LET WordKey(w, external) == [word |-> w, external |-> external]
        words == SetToSeq(t.words)
    IN  [n \in 1 .. 3 |-> WordKey(t.spo[n], t.spo[n] \in Externalized)]
        \o (IF t.lang = <<>> THEN <<>>
            ELSE <<WordKey(t.lang[1], FALSE), WordKey(t.lang[2], FALSE), WordKey(LANGUAGE_PREDICATE, FALSE)>>)
        \o (IF t.words = {} THEN <<>> ELSE <<WordKey(HAS_WORD_PREDICATE, FALSE)>>)
        \o [n \in DOMAIN words |-> WordKey(words[n], FALSE)]

(* The place of n, or of the last one before n, among some positions, and  *)
(* the elements of a sequence at some of its positions, in their order.    *)
PlaceAmong(positions, n) == Cardinality({m \in positions : m <= n})

ElementsAt(s, positions) ==
    <<>> \o [k \in 1 .. Cardinality(positions) |->
                 s[CHOOSE n \in positions : PlaceAmong(positions, n) = k]]

(* getId: a word that the map does not have yet gets the next id, a known  *)
(* one keeps its id and its flag; a folded value is not in the map.        *)
FirstPositions(keys) ==
    {n \in DOMAIN keys : /\ keys[n].word > 0
                         /\ \A m \in 1 .. n - 1 : keys[m].word # keys[n].word}

SpecialKeys == [n \in DOMAIN SpecialIris |-> [word |-> SpecialIris[n], external |-> FALSE]]

(* The map with number j, for triples with the numbers of their maps. *)
ItemMap(assigned, j) ==
    LET keys == SpecialKeys \o FlattenSeq([n \in DOMAIN assigned |->
                    IF assigned[n].map = j THEN KeysOf(assigned[n].triple) ELSE <<>>])
    IN  ElementsAt(keys, FirstPositions(keys))

LocalId(maps, j, component) ==
    IF component < 0 THEN <<IntType, -component>>
    ELSE LET n == CHOOSE n \in DOMAIN maps[j] : maps[j][n].word = component
         IN  <<VocabIndex, (j - 1) * IdsPerMap + n - 1>>

(* The item map of the triple at a position of a batch of the parser. *)
getBatchRange(size, position) ==
    IF size < NumItemMaps THEN 1
    ELSE Min({((position - 1) \div (size \div NumItemMaps)) + 1, NumItemMaps})

(* The batches of the parser up to the size of a batch. *)
NumTriples(batches) == FoldLeft(LAMBDA n, b : n + Len(b), 0, batches)
Complete(batches) == NumTriples(batches) >= LinesPerPartial
NumTaken ==
    Min({n \in 0 .. Len(parsed) : Complete(SubSeq(parsed, 1, n))} \union {Len(parsed)})

(* The triples of a batch, each with the number of its map, and the maps. *)
Assigned(batches) ==
    FlattenSeq([b \in DOMAIN batches |->
        [n \in DOMAIN batches[b] |-> [triple |-> batches[b][n],
                                      map |-> getBatchRange(Len(batches[b]), n)]]])

ItemMaps(assigned) == [j \in 1 .. NumItemMaps |-> ItemMap(assigned, j)]

(* No item map gets more words than it has ids: otherwise two words would  *)
(* have the same id, which a check of createInternalMapping refuses by an  *)
(* exception in the writer, with the consequences of SortFails.            *)
IdsSuffice(batches) ==
    \A j \in 1 .. NumItemMaps : Len(ItemMap(Assigned(batches), j)) <= IdsPerMap

ASSUME BuildIds ==
    \A batches \in ParsedInputs :
        \A first \in 1 .. Len(batches) + 1 : \A last \in first - 1 .. Len(batches) :
            (last >= first => ~Complete(SubSeq(batches, first, last - 1)))
            => IdsSuffice(SubSeq(batches, first, last))

localWriter(batch) ==
    LET Local(a) == LET ts == TriplesOf(a.triple)
                    IN  [n \in DOMAIN ts |-> [k \in 1 .. 3 |-> LocalId(batch.maps, a.map, ts[n][k])]]
    IN  FlattenSeq([n \in DOMAIN batch.assigned |-> Local(batch.assigned[n])])

---------------------------------------------------------------------------
(* The writer of a batch. *)

isLessInTotalWithExternalFlag(a, b) ==
    a.word < b.word \/ (a.word = b.word /\ a.external /\ ~b.external)

SortedWords(s) ==
    LET NotAfter(m, n) == \/ isLessInTotalWithExternalFlag(s[m], s[n])
                          \/ ~isLessInTotalWithExternalFlag(s[n], s[m]) /\ m <= n
        Position(n) == Cardinality({m \in DOMAIN s : NotAfter(m, n)})
    IN  <<>> \o [k \in DOMAIN s |-> s[CHOOSE n \in DOMAIN s : Position(n) = k]]

vocabMapsToVector(maps) ==
    FlattenSeq([j \in DOMAIN maps |->
        [n \in DOMAIN maps[j] |-> [word |-> maps[j][n].word, external |-> maps[j][n].external,
                                   id |-> (j - 1) * IdsPerMap + n - 1]]])

(* Where a sorted sequence has a word that is not the one before. *)
NewPositions(s) == {n \in DOMAIN s : n = 1 \/ s[n].word # s[n - 1].word}

(* nextWordId for each element of the sorted vector. *)
createInternalMapping(vec) ==
    LET new == NewPositions(vec)
    IN  [n \in DOMAIN vec |-> PlaceAmong(new, n) - 1]

MappedIds(triples, vec) ==
    LET mapping == createInternalMapping(vec)
        Mapped(id) == IF id[1] # VocabIndex THEN id
                      ELSE <<VocabIndex, mapping[CHOOSE n \in DOMAIN vec : vec[n].id = id[2]]>>
    IN  [n \in DOMAIN triples |-> [k \in 1 .. 3 |-> Mapped(triples[n][k])]]

(* Of equal words, which have the same id now, the first is written. *)
PartialVocabulary(vec) ==
    LET unique == ElementsAt(vec, NewPositions(vec))
    IN  [n \in DOMAIN unique |-> [unique[n] EXCEPT !.id = n - 1]]

(* writeNextPartialVocabulary up to the writing. *)
Job(batch) ==
    LET vec == SortedWords(vocabMapsToVector(batch.maps))
    IN  [file |-> PartialVocabulary(vec), triples |-> MappedIds(localWriter(batch), vec),
         words |-> "running", write |-> "running"]

(* `write` is "none" if the writer never asks for its turn. *)
Finished(job) == job.words # "running" /\ job.write # "running"
Failed(job) == job.words = "error" \/ job.write \in {"error", "none"}

(* An exception while the words are sorted and mapped ends the writer      *)
(* before it has asked for its turn.                                       *)
SortFails(j) ==
    /\ j \in DOMAIN jobs /\ jobs[j].words = "running" /\ jobs[j].write = "running"
    /\ jobs' = [jobs EXCEPT ![j].words = "error", ![j].write = "none"]
    /\ UNCHANGED <<phase, parsed, total, current, exhausted, futures, nextOrderedRequest,
                   idTriples, merged, converted, it, pushed>>

EndOfWords(j, outcome) ==
    /\ j \in DOMAIN jobs /\ jobs[j].words = "running"
    /\ jobs' = [jobs EXCEPT ![j].words = outcome]
    /\ UNCHANGED <<phase, parsed, total, current, exhausted, futures, nextOrderedRequest,
                   idTriples, merged, converted, it, pushed>>

(* writePartialVocabularyToFile, and its failure (the disk is full). *)
WriteWords(j) == EndOfWords(j, "done")
WriteWordsFails(j) == EndOfWords(j, "error")

(* withWriteLockAndOrdered counts up also when it is left by an exception. *)
EndOfWrite(j, written, outcome) ==
    /\ j \in DOMAIN jobs /\ jobs[j].write = "running"
    /\ j = nextOrderedRequest
    /\ nextOrderedRequest' = nextOrderedRequest + 1
    /\ idTriples' = idTriples \o written
    /\ jobs' = [jobs EXCEPT ![j].write = outcome]
    /\ UNCHANGED <<phase, parsed, total, current, exhausted, futures, merged, converted,
                   it, pushed>>

(* Mutant: a writer does not wait for its turn. *)
WriteTriples_Unordered(j) ==
    /\ j \in DOMAIN jobs /\ jobs[j].write = "running"
    /\ nextOrderedRequest' = nextOrderedRequest + 1
    /\ idTriples' = idTriples \o jobs[j].triples
    /\ jobs' = [jobs EXCEPT ![j].write = "done"]
    /\ UNCHANGED <<phase, parsed, total, current, exhausted, futures, merged, converted,
                   it, pushed>>

(* Mutant: a failed writer does not pass on its turn. *)
WriteTriplesFails_KeepTurn(j) ==
    /\ j \in DOMAIN jobs /\ jobs[j].write = "running"
    /\ j = nextOrderedRequest
    /\ jobs' = [jobs EXCEPT ![j].write = "error"]
    /\ UNCHANGED <<phase, parsed, total, current, exhausted, futures, nextOrderedRequest,
                   idTriples, merged, converted, it, pushed>>

WriteTriples(j) == EndOfWrite(j, jobs[j].triples, "done")
WriteTriplesFails(j) == EndOfWrite(j, <<>>, "error")

---------------------------------------------------------------------------
(* The main thread. *)

StartBuild ==
    /\ phase = "idle"
    /\ \E batches \in ParsedInputs : parsed' = batches /\ total' = batches
    /\ phase' = "parse"
    /\ UNCHANGED <<current, exhausted, jobs, futures, nextOrderedRequest, idTriples, merged,
                   converted, it, pushed>>

(* One iteration of buildPartialVocabularies up to the wait for a writer. *)
ParseBatch ==
    /\ phase = "parse" /\ ~exhausted
    /\ LET assigned == Assigned(SubSeq(parsed, 1, NumTaken))
       IN  current' = [assigned |-> assigned, maps |-> ItemMaps(assigned)]
    /\ parsed' = SubSeq(parsed, NumTaken + 1, Len(parsed))
    /\ exhausted' = ~Complete(SubSeq(parsed, 1, NumTaken))
    /\ phase' = "launch"
    /\ UNCHANGED <<total, jobs, futures, nextOrderedRequest, idTriples, merged, converted,
                   it, pushed>>

(* The parser throws, and with it getNextValue of the pipeline.  The       *)
(* futures are destroyed, which waits for all writers.                     *)
ParseFails ==
    /\ phase = "parse" /\ ~exhausted
    /\ phase' = "unwind"
    /\ UNCHANGED <<parsed, total, current, exhausted, jobs, futures, nextOrderedRequest,
                   idTriples, merged, converted, it, pushed>>

(* The rest of the iteration, once the oldest of NumFutures writers has    *)
(* finished without an error.                                              *)
Launch ==
    /\ phase = "launch"
    /\ Len(futures) = NumFutures => LET oldest == jobs[Head(futures)]
                                    IN  Finished(oldest) /\ ~Failed(oldest)
    /\ jobs' = Append(jobs, Job(current))
    /\ futures' = Append(IF Len(futures) = NumFutures THEN Tail(futures) ELSE futures,
                         Len(jobs) + 1)
    /\ current' = <<>>
    /\ phase' = IF exhausted THEN "wait" ELSE "parse"
    /\ UNCHANGED <<parsed, total, exhausted, nextOrderedRequest, idTriples, merged, converted,
                   it, pushed>>

(* A get() that throws: the futures are destroyed, as above. *)
GetThrows ==
    /\ \/ phase = "launch" /\ Len(futures) = NumFutures
       \/ phase = "wait" /\ futures # <<>>
    /\ Finished(jobs[Head(futures)]) /\ Failed(jobs[Head(futures)])
    /\ phase' = "unwind"
    /\ UNCHANGED <<parsed, total, current, exhausted, jobs, futures, nextOrderedRequest,
                   idTriples, merged, converted, it, pushed>>

Unwind ==
    /\ phase = "unwind" /\ \A j \in DOMAIN jobs : Finished(jobs[j])
    /\ phase' = "failed"
    /\ UNCHANGED <<parsed, total, current, exhausted, jobs, futures, nextOrderedRequest,
                   idTriples, merged, converted, it, pushed>>

(* The gets after the last batch. *)
GetNext ==
    /\ phase = "wait" /\ futures # <<>>
    /\ Finished(jobs[Head(futures)]) /\ ~Failed(jobs[Head(futures)])
    /\ futures' = Tail(futures)
    /\ UNCHANGED <<phase, parsed, total, current, exhausted, jobs, nextOrderedRequest,
                   idTriples, merged, converted, it, pushed>>

---------------------------------------------------------------------------
(* mergeVocabulary.  The merged words come in the order of words, of equal *)
(* ones those with the flag first.                                         *)

QueueWords ==
    SortedWords(FlattenSeq([j \in DOMAIN jobs |->
               [n \in DOMAIN jobs[j].file |->
                   [word |-> jobs[j].file[n].word, external |-> jobs[j].file[n].external,
                    id |-> jobs[j].file[n].id, partialFileId |-> j]]]))

(* writeQueueWordsToIdMap: the first of equal words gets the next index,   *)
(* of the vocabulary or of the blank nodes, and the others the same.       *)
BlankPositions(queue) == {n \in NewPositions(queue) : queue[n].word \in BlankNodes}
WordPositions(queue) == {n \in NewPositions(queue) : queue[n].word \notin BlankNodes}

TargetId(queue, q) ==
    IF queue[q].word \in BlankNodes
      THEN <<BlankNodeIndex, PlaceAmong(BlankPositions(queue), q) - 1>>
      ELSE <<VocabIndex, PlaceAmong(WordPositions(queue), q) - 1>>

IdMap(queue, j) ==
    {[from |-> <<VocabIndex, queue[q].id>>, to |-> TargetId(queue, q)] :
        q \in {q \in DOMAIN queue : queue[q].partialFileId = j}}

(* The range of ids of the words with a prefix; the words with a prefix    *)
(* are neighbours in the order.                                            *)
IdRangeForPrefix(vocab, words) ==
    LET matches == {n \in DOMAIN vocab : vocab[n].word \in words}
    IN  IF matches = {} THEN [begin |-> <<0, 0>>, end |-> <<0, 0>>]
        ELSE [begin |-> <<VocabIndex, Min(matches) - 1>>, end |-> <<VocabIndex, Max(matches)>>]

InRange(range, id) == ~BitsLess(id, range.begin) /\ BitsLess(id, range.end)

(* `blank` lists the blank nodes in the order of getNextBlankNodeIndex. *)
mergeVocabulary ==
    LET queue == QueueWords
        vocab == ElementsAt(queue, WordPositions(queue))
    IN  [vocab |-> vocab, blank |-> ElementsAt(queue, BlankPositions(queue)),
         idMaps |-> [j \in DOMAIN jobs |-> IdMap(queue, j)],
         internalEntities |-> IdRangeForPrefix(vocab, InternalEntities),
         langTaggedPredicates |-> IdRangeForPrefix(vocab, LangTaggedPredicates)]

Merge ==
    /\ phase = "wait" /\ futures = <<>>
    /\ merged' = mergeVocabulary
    /\ phase' = "convert"
    /\ UNCHANGED <<parsed, total, current, exhausted, jobs, futures, nextOrderedRequest,
                   idTriples, converted, it, pushed>>

---------------------------------------------------------------------------
(* convertPartialToGlobalIds: the mappings come in order (QueueManager),   *)
(* and the triples of a batch are those that follow those of the one       *)
(* before; the order in which they are pushed to the sorters is irrelevant. *)

isQleverInternalTriple(triple) ==
    \E k \in 1 .. 3 : \/ InRange(merged.internalEntities, triple[k])
                      \/ InRange(merged.langTaggedPredicates, triple[k])

NumTriplesPerPartialVocab(j) == Len(jobs[j].triples)

transformTriple(triple, idMap) ==
    [k \in 1 .. 3 |-> IF triple[k][1] # VocabIndex THEN triple[k]
                      ELSE (CHOOSE e \in idMap : e.from = triple[k]).to]

(* The checks of transformTriple. *)
Convertible(slice, idMap) ==
    \A n \in DOMAIN slice : \A k \in 1 .. 3 :
        slice[n][k][1] = VocabIndex => \E e \in idMap : e.from = slice[n][k]

Pushed(triple, idMap) ==
    LET new == transformTriple(triple, idMap)
    IN  [triple |-> new, internal |-> isQleverInternalTriple(new)]

ConvertBatch ==
    /\ phase = "convert" /\ converted < Len(jobs)
    /\ LET j == converted + 1
           end == it + NumTriplesPerPartialVocab(j)
           slice == SubSeq(idTriples, it + 1, end)
           idMap == merged.idMaps[j]
       IN  IF ~Convertible(slice, idMap)
             THEN phase' = "failed" /\ UNCHANGED <<converted, it, pushed>>
             ELSE /\ converted' = j /\ it' = end
                  /\ pushed' = pushed \o [n \in DOMAIN slice |-> Pushed(slice[n], idMap)]
                  /\ phase' = IF j = Len(jobs) THEN "done" ELSE "convert"
    /\ UNCHANGED <<parsed, total, current, exhausted, jobs, futures, nextOrderedRequest,
                   idTriples, merged>>

WriterStep(j) ==
    \/ SortFails(j)
    \/ WriteWords(j) \/ WriteWordsFails(j)
    \/ WriteTriples(j) \/ WriteTriplesFails(j)

BuildNext ==
    \/ StartBuild \/ ParseBatch \/ ParseFails \/ Launch
    \/ GetThrows \/ Unwind \/ GetNext \/ Merge \/ ConvertBatch
    \/ \E j \in DOMAIN jobs : WriterStep(j)

BuildSpec == BuildInit /\ [][BuildNext]_buildVars

---------------------------------------------------------------------------
(* Properties. *)

AllTriplesOf(ts) == FlattenSeq([n \in DOMAIN ts |-> TriplesOf(ts[n])])
AllTriples == AllTriplesOf(FlattenSeq(total))
WordsIn(triples) == {w \in UNION {{t[k] : k \in 1 .. 3} : t \in ToSet(triples)} : w > 0}

Decoded(id) ==
    CASE id[1] = VocabIndex     -> merged.vocab[id[2] + 1].word
      [] id[1] = BlankNodeIndex -> merged.blank[id[2] + 1].word
      [] OTHER                  -> -id[2]

DecodedPushed ==
    [n \in DOMAIN pushed |-> [triple |-> [k \in 1 .. 3 |-> Decoded(pushed[n].triple[k])],
                              internal |-> pushed[n].internal]]

IsInternal(triple) ==
    \E k \in 1 .. 3 : triple[k] \in InternalEntities \union LangTaggedPredicates

Tagged(triples) ==
    [n \in DOMAIN triples |-> [triple |-> triples[n], internal |-> IsInternal(triples[n])]]

Count(s, x) == Cardinality({n \in DOMAIN s : s[n] = x})
SameElements(s, t) == \A x \in ToSet(s) \union ToSet(t) : Count(s, x) = Count(t, x)

(* A finished build has lost, changed and mixed up nothing, however the    *)
(* writers of the batches were interleaved: decoded with the vocabulary,   *)
(* the triples are the parsed ones and those that were added for them, the *)
(* internal ones in their own sorter; the vocabulary is sorted and has     *)
(* each word once; blank nodes have indices of their own.  And a build     *)
(* that fails after the parser has delivered all does so because of a      *)
(* writer: none of the checks of the ids fails.                            *)
BuildExact ==
    /\ phase = "done" =>
        /\ SameElements(DecodedPushed, Tagged(AllTriples))
        /\ \A n \in 2 .. Len(merged.vocab) : merged.vocab[n - 1].word < merged.vocab[n].word
        /\ {merged.vocab[n].word : n \in DOMAIN merged.vocab}
             = (WordsIn(AllTriples) \union ToSet(SpecialIris)) \ BlankNodes
        /\ \A n \in 2 .. Len(merged.blank) : merged.blank[n - 1].word < merged.blank[n].word
    /\ phase = "failed" /\ exhausted => \E j \in DOMAIN jobs : Failed(jobs[j])

(* A writer that has asked for its turn passes it on, whether it fails or  *)
(* not: if one waits, the one whose turn it is still runs, or has failed   *)
(* before it asked for its turn.  Behind such a one all writers wait, and  *)
(* the build with them, for ever: its turn is never passed on, nor is it   *)
(* skipped.  And no build goes on to merge the vocabularies after a writer *)
(* has failed.                                                             *)
TurnsPassOnAfterSort ==
    /\ \A j \in DOMAIN jobs : jobs[j].write = "running" =>
           \E k \in 1 .. j : k = nextOrderedRequest /\ jobs[k].write \in {"running", "none"}
    /\ \A j \in DOMAIN jobs : jobs[j].write = "none" => nextOrderedRequest <= j
    /\ phase \in {"convert", "done"} => \A j \in DOMAIN jobs : ~Failed(jobs[j])

(* No writer ever waits behind one that has failed: the code refutes it.   *)
NobodyWaitsForFailed ==
    \A j, k \in DOMAIN jobs : k < j /\ jobs[k].write = "none" => jobs[j].write # "running"
=============================================================================
