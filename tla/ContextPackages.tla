--------------------------- MODULE ContextPackages ----------------------------
(***************************************************************************)
(* The Context Builder: files are indexed into a catalog, a package is     *)
(* generated for a task from the catalog and the files as they are by then *)
(* (chunk, score, rank, deduplicate, fit to the budget, roll up), and is   *)
(* assembled into a text when a run starts.                                *)
(*                                                                         *)
(* A line of a file is one word of four letters; a content hash is the     *)
(* content.  Scores are exact, in units of 1/6000, so that every fraction  *)
(* with a denominator up to five is a whole number.  Indexing, generation  *)
(* and assembly are one step each: they read the files without a pause.    *)
(***************************************************************************)
EXTENDS Integers, Sequences, SequencesExt

CONSTANTS
  Files,            \* 1..n, in the order of their paths
  PathHints,        \* of each file, the hints that its path contains
  Contents,         \* what may be in a file: sequences of words
  Query,            \* the words of the task's title and description
  LinesPerChunk, OverlapLines,      \* of the TextChunker
  Budgets           \* the max_tokens of requests

VARIABLES
  disk,         \* the files: content, or Gone
  catalog,      \* source_documents, in order of creation
  package,      \* the context package of the task, with its sources
  basis,        \* auxiliary: what the package was generated from
  bundle        \* the text handed to the agent

contextVars == <<disk, catalog, package, basis, bundle>>

Gone == <<"(gone)">>
NoPackage == [budget |-> 0]

ASSUME ChunkerParameters ==
  LinesPerChunk \in Nat \ {0} /\ OverlapLines \in 0..(LinesPerChunk - 1)
ASSUME ContextAssumption ==
  /\ IsFiniteSet(Files) /\ Files = 1..Cardinality(Files)
  /\ \A words \in Contents \cup {Query} : words \in Seq(ToSet(words))
  /\ Budgets \subseteq Nat \ {0}

------------------------------------------------------------------------------
(***************************************************************************)
(* Indexing                                                                *)
(***************************************************************************)

\* The first hint found in the path decides.
InferDocType(hints) ==
  CASE "architecture" \in hints -> "architecture_doc"
    [] "coding_standard" \in hints -> "coding_standard"
    [] "openapi" \in hints -> "api_spec"
    [] OTHER -> "source_file"

AddDocument(rows, document) == Append(rows, document)
UpdateDocument(rows, document) ==
  [i \in DOMAIN rows |-> IF rows[i].file = document.file THEN document ELSE rows[i]]

\* A file whose hash has not changed is left alone, its age too.
IndexFile(rows, f) ==
  LET fresh == [file |-> f, hash |-> disk[f], doc_type |-> InferDocType(PathHints[f]), age |-> 0]
      found == {i \in DOMAIN rows : rows[i].file = f}
  IN IF found = {} THEN AddDocument(rows, fresh)
     ELSE IF \E i \in found : rows[i].hash = fresh.hash THEN rows
     ELSE UpdateDocument(rows, fresh)

IndexDirectory ==
  /\ package = NoPackage
  /\ catalog' = FoldLeft(LAMBDA rows, f : IF disk[f] = Gone THEN rows ELSE IndexFile(rows, f),
                         catalog, [f \in Files |-> f])
  /\ UNCHANGED <<disk, package, basis, bundle>>

\* Half-lives pass; one is enough to tell old from new.
TimePasses ==
  /\ package = NoPackage
  /\ catalog' = [i \in DOMAIN catalog |-> [catalog[i] EXCEPT !.age = 1]]
  /\ UNCHANGED <<disk, package, basis, bundle>>

\* Bound: one edit between the generation of the package and its assembly.
EditFile(f) ==
  /\ catalog # <<>>
  /\ package # NoPackage => bundle = <<>> /\ disk = basis.disk
  /\ \E content \in Contents \cup {Gone} : disk' = [disk EXCEPT ![f] = content]
  /\ UNCHANGED <<catalog, package, basis, bundle>>

ReadContent(f) == IF disk[f] = Gone THEN <<>> ELSE disk[f]

------------------------------------------------------------------------------
(***************************************************************************)
(* Chunks and scores                                                       *)
(***************************************************************************)

\* A quarter of the characters, line ends included.
EstimateTokens(lines) == IF lines = <<>> THEN 1 ELSE (5 * Len(lines) - 1) \div 4

Step == LinesPerChunk - OverlapLines

\* The lines at which a chunk starts: none after one that reached the end.
ChunkStarts(lines) ==
  {s \in 0..(Len(lines) - 1) :
     s % Step = 0 /\ (s = 0 \/ s - Step + LinesPerChunk < Len(lines))}

Chunks(lines) ==
  [i \in 1..Cardinality(ChunkStarts(lines)) |->
     SubSeq(lines, (i - 1) * Step + 1, Min({(i - 1) * Step + LinesPerChunk, Len(lines)}))]

Jaccard(a, b) ==
  IF ToSet(a) = {} \/ ToSet(b) = {} THEN 0
  ELSE (60 * Cardinality(ToSet(a) \cap ToSet(b))) \div Cardinality(ToSet(a) \cup ToSet(b))

NearDuplicate(a, b) == 100 * Jaccard(a, b) >= 85 * 60

DocTypePrior ==
  [coding_standard |-> 90, architecture_doc |-> 85, api_spec |-> 75, source_file |-> 50]

SectionOrder ==
  [coding_standard |-> 1, architecture_doc |-> 2, api_spec |-> 3, source_file |-> 5]

RecencyDecay(age) == IF age = 0 THEN 60 ELSE 30

\* Weights 35, 30, 20, 10 and 5; the fourth signal is always a half and the
\* fifth zero.
ScoreDocument(row, semantic, pinned) ==
  IF row.file \in pinned THEN 6000
  ELSE 35 * semantic + 18 * DocTypePrior[row.doc_type] + 20 * RecencyDecay(row.age) + 300

------------------------------------------------------------------------------
(***************************************************************************)
(* Generation                                                              *)
(***************************************************************************)

DedupExact(documents) ==
  FoldLeft(LAMBDA kept, d : IF \E k \in ToSet(kept) : k.hash = d.hash THEN kept ELSE Append(kept, d),
           <<>>, documents)

\* A document without a line is one chunk without a word and a token.
ScoredChunks(row, pinned) ==
  LET content == ReadContent(row.file)
      Scored(text, tokens) ==
        [file |-> row.file, text |-> text, tokens |-> tokens,
         score |-> ScoreDocument(row, Jaccard(Query, text), pinned)]
  IN IF content = <<>> THEN << Scored(<<>>, 0) >>
     ELSE [i \in DOMAIN Chunks(content) |->
             Scored(Chunks(content)[i], EstimateTokens(Chunks(content)[i]))]

\* Python's sort is stable: equal keys stay in the order they are in.
StableSort(seq, Before(_, _)) ==
  LET order == CHOOSE o \in SetToSeqs(DOMAIN seq) : \A i, j \in DOMAIN seq : i < j =>
                 /\ ~ Before(seq[o[j]], seq[o[i]])
                 /\ Before(seq[o[i]], seq[o[j]]) \/ o[i] < o[j]
  IN [i \in DOMAIN seq |-> seq[order[i]]]

DedupNearDuplicates(chunks) ==
  FoldLeft(LAMBDA kept, c :
             IF \E k \in ToSet(kept) : NearDuplicate(c.text, k.text) THEN kept ELSE Append(kept, c),
           <<>>, chunks)

\* A faulty variant, as in TaskStates.
FitBelowBudget(chunks, budget) ==
  FoldLeftDomain(LAMBDA fit, i :
      IF fit.used + chunks[i].tokens < budget
      THEN [used |-> fit.used + chunks[i].tokens, included |-> fit.included \cup {i}]
      ELSE fit,
    [used |-> 0, included |-> {}], chunks)

\* Greedy, in the order given: the positions of what is included.
FitBudget(chunks, budget) ==
  FoldLeftDomain(LAMBDA fit, i :
      IF fit.used + chunks[i].tokens <= budget
      THEN [used |-> fit.used + chunks[i].tokens, included |-> fit.included \cup {i}]
      ELSE fit,
    [used |-> 0, included |-> {}], chunks)

TokensOf(chunks, S) ==
  FoldLeftDomain(LAMBDA n, i : n + (IF i \in S THEN chunks[i].tokens ELSE 0), 0, chunks)

ChunksOf(chunks, d) == {i \in DOMAIN chunks : chunks[i].file = d.file}

Rollup(d, chunks, included) ==
  [file |-> d.file, doc_type |-> d.doc_type,
   score |-> Max({chunks[i].score : i \in ChunksOf(chunks, d)}),
   included |-> ChunksOf(chunks, d) \cap included # {},
   tokens |-> TokensOf(chunks, ChunksOf(chunks, d) \cap included)]

\* One row for each document that has a chunk left ...
Rollups(documents, chunks, included) ==
  FoldLeft(LAMBDA rows, d : IF ChunksOf(chunks, d) = {} THEN rows
                            ELSE Append(rows, Rollup(d, chunks, included)), <<>>, documents)

\* ... by section, then by score.
BuildSources(documents, chunks, included) ==
  StableSort(Rollups(documents, chunks, included), LAMBDA a, b :
    \/ SectionOrder[a.doc_type] < SectionOrder[b.doc_type]
    \/ SectionOrder[a.doc_type] = SectionOrder[b.doc_type] /\ a.score > b.score)

\* The newest documents come first out of the catalog.
GenerateContextPackage(budget, pinned) ==
  LET documents == DedupExact(Reverse(catalog))
      all == FlattenSeq([i \in DOMAIN documents |-> ScoredChunks(documents[i], pinned)])
      ranked == StableSort(all, LAMBDA a, b : a.score > b.score)
      kept == DedupNearDuplicates(ranked)
      fit == FitBudget(kept, budget)
  IN
  /\ package' = [budget |-> budget, token_count |-> fit.used,
                 sources |-> BuildSources(documents, kept, fit.included)]
  /\ basis' = [documents |-> documents, ranked |-> ranked, kept |-> kept, included |-> fit.included,
               disk |-> disk]
  /\ UNCHANGED <<disk, catalog, bundle>>

\* The endpoint pins nothing; a caller within the process may.  Bound: one
\* package of the task.
PostContextPackage(budget) == package = NoPackage /\ GenerateContextPackage(budget, {})
PackagePinned(budget) == package = NoPackage /\ GenerateContextPackage(budget, {1})

\* In the order of their ranks, each with the file of its document.
IncludedSources == SelectSeq(package.sources, LAMBDA row : row.included)

\* The included documents, whole, as they are by now.
AssembleContent ==
  /\ package # NoPackage
  /\ bundle = <<>>
  /\ LET views == IncludedSources
     IN bundle' = FlattenSeq([i \in DOMAIN views |-> ReadContent(views[i].file)])
  /\ UNCHANGED <<disk, catalog, package, basis>>

ContextInit ==
  /\ disk \in [Files -> Contents]
  /\ catalog = <<>>
  /\ package = NoPackage
  /\ basis = [documents |-> <<>>, ranked |-> <<>>, kept |-> <<>>, included |-> {},
               disk |-> disk]
  /\ bundle = <<>>

ContextNext ==
  \/ IndexDirectory \/ TimePasses \/ AssembleContent
  \/ \E f \in Files : EditFile(f)
  \/ \E budget \in Budgets : PostContextPackage(budget) \/ PackagePinned(budget)

ContextSpec == ContextInit /\ [][ContextNext]_contextVars

------------------------------------------------------------------------------
(***************************************************************************)
(* Properties                                                              *)
(***************************************************************************)

Document == [file : Files, hash : Contents, doc_type : DOMAIN SectionOrder, age : {0, 1}]

ContextTypeOK ==
  /\ disk \in [Files -> Contents \cup {Gone}]
  /\ catalog \in Seq(Document)
  /\ \A i, j \in DOMAIN catalog : catalog[i].file = catalog[j].file => i = j
  /\ package # NoPackage => package.budget \in Budgets

\* Every line is in a chunk, neighbours overlap as configured, and no chunk
\* lies within the one before it.
ChunksCover(lines) ==
  LET n == Cardinality(ChunkStarts(lines))
      Top(i) == (i - 1) * Step + 1
      End(i) == Top(i) + Len(Chunks(lines)[i]) - 1
  IN lines # <<>> =>
     /\ n > 0 /\ End(n) = Len(lines)
     /\ \A i \in 1..n : Chunks(lines)[i] = SubSeq(lines, Top(i), End(i))
     /\ \A i \in 1..(n - 1) : End(i) < End(i + 1) /\ End(i) - Top(i + 1) + 1 = OverlapLines

\* Of equal contents one remains, of near duplicates the best, best first.
Deduplicated(b) ==
  /\ \A i, j \in DOMAIN b.documents : b.documents[i].hash = b.documents[j].hash => i = j
  /\ \A i \in DOMAIN b.ranked :
       \E k \in DOMAIN b.kept : b.kept[k].score >= b.ranked[i].score /\
         (b.kept[k] = b.ranked[i] \/ NearDuplicate(b.kept[k].text, b.ranked[i].text))
  /\ \A i, j \in DOMAIN b.kept : i < j =>
       b.kept[i].score >= b.kept[j].score /\ ~ NearDuplicate(b.kept[i].text, b.kept[j].text)

\* The token count is that of the chunks, and a chunk is left out only if it
\* does not fit beside all the better ones that are in.
FilledUp(p, b) ==
  /\ TokensOf(b.kept, b.included) = p.token_count /\ p.token_count <= p.budget
  /\ \A i \in DOMAIN b.kept \ b.included :
       TokensOf(b.kept, {k \in b.included : k < i}) + b.kept[i].tokens > p.budget

\* Each document has at most one row, of all its chunks, and rows are by
\* section, then by score.
RolledUp(p, b) ==
  LET rows == p.sources
      ofRow(i) == {k \in DOMAIN b.kept : b.kept[k].file = rows[i].file}
  IN
  /\ \A i \in DOMAIN rows :
       /\ rows[i].score = Max({b.kept[k].score : k \in ofRow(i)})
       /\ rows[i].included <=> ofRow(i) \cap b.included # {}
       /\ rows[i].tokens = TokensOf(b.kept, ofRow(i) \cap b.included)
  /\ {rows[i].file : i \in DOMAIN rows} = {b.kept[k].file : k \in DOMAIN b.kept}
  /\ \A i, j \in DOMAIN rows : i < j =>
       /\ rows[i].file # rows[j].file
       /\ SectionOrder[rows[i].doc_type] <= SectionOrder[rows[j].doc_type]
       /\ rows[i].doc_type = rows[j].doc_type => rows[i].score >= rows[j].score

\* A package is what ranking, deduplication and budget promise, whatever was
\* edited between indexing and generation: of equal contents one remains, of
\* near duplicates the best; a chunk is left out only if it does not fit
\* beside all the better ones that are in; the token count is that of the
\* chunks, and of the rows; each document has at most one row, and rows are
\* by section, then by score.
PackageIsSound ==
  package # NoPackage =>
    /\ \A f \in Files : disk[f] # Gone => ChunksCover(disk[f])
    /\ Deduplicated(basis) /\ FilledUp(package, basis) /\ RolledUp(package, basis)

\* The text the agent is handed keeps within the max_tokens of its package,
\* if no file was edited since the package was generated.
AssembledWithinBudget ==
  bundle # <<>> /\ disk = basis.disk => EstimateTokens(bundle) <= package.budget

==============================================================================
