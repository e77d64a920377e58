--------------------------- MODULE KnowledgeBase ----------------------------
(***************************************************************************)
(* The readers of the Qdrant collection while documents come and go: the   *)
(* Documents page (voice_agent/kb/documents.py), which scrolls it page by  *)
(* page and deletes by document, and the question branch of the helmsman   *)
(* graph (backends/llm/langgraph_helmsman), which retrieves chunks, picks  *)
(* winners, fetches their neighbours and cites a source.                   *)
(*                                                                         *)
(* A point is a chunk of an upload; its id grows with the time of the      *)
(* upload. What a query finds best, what the language model answers and    *)
(* which calls fail is left open. The readers change nothing, so one       *)
(* request at a time is read against uploads and deletions at any moment.  *)
(***************************************************************************)
EXTENDS Naturals, Sequences, FiniteSets, Functions

CONSTANTS
  Files,        \* file names
  Uploads,      \* bound: uploads 1 .. Uploads, in the order of their point ids
  LastChunk,    \* bound: chunks 0 .. LastChunk of an upload
  PageSize,     \* points of a scroll page
  ScrollLimit,  \* documents.scroll_limit
  TopK,         \* llm.retrieval_top_k
  Winners,      \* how many chunks are selected: 3
  None          \* no source, no answer

ASSUME SizesArePositive ==
  {Uploads, PageSize, ScrollLimit, TopK, Winners} \subseteq Nat \ {0} /\ LastChunk \in Nat

VARIABLES
  fileOf,     \* the file each upload is of
  rerank,     \* llm.rerank
  expansion,  \* llm.expansion
  points,     \* the points in the collection, as <<upload, chunk>>
  upserted,   \* uploads that were finalized
  deletion,   \* the deletion under way and its count: <<upload, count>>
  step,       \* where the request is
  offset,     \* next_page_offset of the listing
  scrolled,   \* points the listing, or the expansion, was given
  chunks,     \* chunks of the graph's turn state
  todo,       \* files whose neighbours are still to be fetched
  answer,     \* the parsed answer
  seen,       \* points that were there at some time of the request (history)
  always      \* points that were there all the time (history)

dbVars == <<fileOf, rerank, expansion, points, upserted, deletion>>
readVars == <<step, offset, scrolled, chunks, todo, answer>>
vars == <<dbVars, readVars, seen, always>>

Docs == 1 .. Uploads

Points == Docs \X (0 .. LastChunk)

\* point_id of complete_metadata.
Id(p) == p[1] * (LastChunk + 1) + p[2]

Least(S) == CHOOSE i \in S : \A j \in S : i <= j

\* A finite set of numbers in ascending order: the n-th has n - 1 below it.
Ascending(S) ==
  [n \in 1 .. Cardinality(S) |-> CHOOSE i \in S : Cardinality({j \in S : j < i}) = n - 1]

\* What a sequence holds at some of its places, in its order.
At(s, places) == [n \in 1 .. Cardinality(places) |-> s[Ascending(places)[n]]]

ById(S) ==
  LET ids == Ascending({Id(p) : p \in S})
  IN  [n \in DOMAIN ids |-> CHOOSE p \in S : Id(p) = ids[n]]

First(s, n) == SubSeq(s, 1, IF n < Len(s) THEN n ELSE Len(s))

Init ==
  /\ fileOf \in [Docs -> Files]
  /\ rerank \in BOOLEAN /\ expansion \in BOOLEAN
  /\ points = {} /\ upserted = {}
  /\ deletion = <<>>
  /\ step = "idle"
  /\ offset = 0
  /\ scrolled = <<>> /\ chunks = <<>> /\ todo = <<>>
  /\ answer = None
  /\ seen = {} /\ always = {}

-----------------------------------------------------------------------------
(* Writers.                                                                *)

\* Every change of the collection is a change under a request that is reading.
Collection(S) ==
  /\ points' = S
  /\ seen' = seen \cup S
  /\ always' = always \cap S

\* upsert_points: the chunks of an upload that the reviewer approved.
Upsert(d) ==
  /\ d \notin upserted
  /\ upserted' = upserted \cup {d}
  /\ \E approved \in SUBSET ({d} \X (0 .. LastChunk)) :
       approved # {} /\ Collection(points \cup approved)
  /\ UNCHANGED <<fileOf, rerank, expansion, deletion, readVars>>

\* delete_document: nothing to delete is a 404.
DeleteCounts(d) ==
  /\ deletion = <<>>
  /\ \E p \in points : p[1] = d
  /\ deletion' = <<d, Cardinality({p \in points : p[1] = d})>>
  /\ UNCHANGED <<fileOf, rerank, expansion, points, upserted, readVars, seen, always>>

\* The request is carried out, whether or not its response arrives, or it is not.
DeleteRuns ==
  /\ deletion # <<>>
  /\ deletion' = <<>>
  /\ Collection({p \in points : p[1] # deletion[1]}) \/ Collection(points)
  /\ UNCHANGED <<fileOf, rerank, expansion, upserted, readVars>>

-----------------------------------------------------------------------------
(* GET /api/documents.                                                     *)

Begins(first) ==
  /\ step = "idle"
  /\ step' = first
  /\ seen' = points
  /\ always' = points
  /\ UNCHANGED <<dbVars, offset, scrolled, chunks, todo, answer>>

ListStarts == Begins("scroll")

\* The points of one page and the id of the first one behind it.
Page(from, limit) ==
  LET rest == ById({p \in points : Id(p) >= from})
  IN  [points |-> First(rest, limit),
       next |-> IF Len(rest) > limit THEN Id(rest[limit + 1]) ELSE 0]

\* Variant, not in Next: the next page starts with the last point of this one.
ScrollsAgain ==
  LET limit == IF PageSize < ScrollLimit - Len(scrolled) THEN PageSize
                                                         ELSE ScrollLimit - Len(scrolled)
      page == Page(offset, limit)
  IN  /\ step = "scroll"
      /\ scrolled' = scrolled \o page.points
      /\ offset' = IF page.points = <<>> THEN 0 ELSE Id(page.points[Len(page.points)])
      /\ step' = IF page.next = 0 \/ Len(scrolled') >= ScrollLimit THEN "listed" ELSE "scroll"
      /\ UNCHANGED <<dbVars, chunks, todo, answer, seen, always>>

\* Pages are asked for until there are no more or the limit is reached.
Scrolls ==
  LET limit == IF PageSize < ScrollLimit - Len(scrolled) THEN PageSize
                                                         ELSE ScrollLimit - Len(scrolled)
      page == Page(offset, limit)
  IN  /\ step = "scroll"
      /\ scrolled' = scrolled \o page.points
      /\ offset' = page.next
      /\ step' = IF page.next = 0 \/ Len(scrolled') >= ScrollLimit THEN "listed" ELSE "scroll"
      /\ UNCHANGED <<dbVars, chunks, todo, answer, seen, always>>

\* _group_documents: chunk_count of the row of an upload, 0 without a row.
ChunkCount(d) == Cardinality({i \in DOMAIN scrolled : scrolled[i][1] = d})

-----------------------------------------------------------------------------
(* The question branch: retrieve, select, expand, answer.                  *)

QuestionStarts == Begins("retrieve")

\* A chunk as the graph's state carries it: map_qdrant_points.
Chunk(p, neighbour) ==
  [file |-> fileOf[p[1]], id |-> p[2], upload |-> p[1], neighbour |-> neighbour]

\* hybrid_query: some of the points, best first.
Retrieves ==
  /\ step = "retrieve"
  /\ \E n \in 0 .. TopK : \E best \in [1 .. n -> points] :
       /\ \A i, j \in 1 .. n : i # j => best[i] # best[j]
       /\ n = 0 => points = {}
       /\ chunks' = [i \in 1 .. n |-> Chunk(best[i], FALSE)]
  /\ step' = "select"
  /\ UNCHANGED <<dbVars, offset, scrolled, todo, answer, seen, always>>

\* parse_rerank_indices: labels out of range are dropped, the best are taken if
\* none is left; a label may be there twice.
RerankIndices(labels) ==
  LET usable == At(labels, {i \in DOMAIN labels : labels[i] \in 1 .. Len(chunks)})
  IN  First(IF usable = <<>> THEN [i \in 1 .. Len(chunks) |-> i] ELSE usable, Winners)

\* rrf_top3, or what the reranking model says: any labels, or nothing readable.
Selects ==
  /\ step = "select"
  /\ IF ~rerank \/ chunks = <<>>
     THEN chunks' = First(chunks, Winners)
     ELSE \E n \in 0 .. Winners : \E labels \in [1 .. n -> 0 .. TopK + 1] :
            LET best == RerankIndices(labels)
            IN  chunks' = [i \in DOMAIN best |-> chunks[best[i]]]
  /\ step' = "expand"
  /\ UNCHANGED <<dbVars, offset, scrolled, todo, answer, seen, always>>

\* neighbour_ids of one file; the first chunk has no lower neighbour.
NeighbourIds(file) ==
  UNION {{c - 1 : c \in {chunks[i].id} \ {0}} \cup {chunks[i].id + 1} :
           i \in {j \in DOMAIN chunks : chunks[j].file = file}}

\* The files of the winners, in the order of their first winner.
WinnerFiles ==
  LET first == {i \in DOMAIN chunks : \A j \in 1 .. i - 1 : chunks[j].file # chunks[i].file}
  IN  At([i \in DOMAIN chunks |-> chunks[i].file], first)

ExpandStarts ==
  /\ step = "expand"
  /\ IF expansion THEN step' = "fetch" /\ todo' = WinnerFiles
                  ELSE step' = "answer" /\ UNCHANGED todo
  /\ UNCHANGED <<dbVars, offset, scrolled, chunks, answer, seen, always>>

\* scroll_neighbours: one request per file; one that fails is passed over.
Fetches ==
  /\ step = "fetch"
  /\ todo # <<>>
  /\ todo' = Tail(todo)
  /\ \/ scrolled' = scrolled \o ById({p \in points : fileOf[p[1]] = Head(todo)
                                                    /\ p[2] \in NeighbourIds(Head(todo))})
     \/ UNCHANGED scrolled
  /\ UNCHANGED <<dbVars, step, offset, chunks, answer, seen, always>>

\* Variant, not used: the neighbours are added as they come.
IsAnything(context, i) == TRUE

\* No chunk before it has its file and its id.
IsNew(context, i) ==
  \A j \in 1 .. i - 1 : <<context[j].file, context[j].id>> # <<context[i].file, context[i].id>>

\* merge_neighbours.
Merges ==
  LET context == chunks \o [i \in DOMAIN scrolled |-> Chunk(scrolled[i], TRUE)]
  IN  /\ step = "fetch"
      /\ todo = <<>>
      /\ chunks' = At(context, {i \in DOMAIN context : IsNew(context, i)})
      /\ step' = "answer"
      /\ UNCHANGED <<dbVars, offset, scrolled, todo, answer, seen, always>>

\* The chunk that is cited for a source_chunk_id: the first one that has it, else
\* the best one.
SourceChunk(id) ==
  LET having == {i \in DOMAIN chunks : chunks[i].id = id}
  IN  CASE chunks = <<>> -> None
        [] chunks # <<>> /\ having = {} -> chunks[1]
        [] OTHER -> chunks[Least(having)]

\* Variant, not used: whatever parses is called reliable.
ReliableIfParsed(id) == id # None /\ chunks # <<>>

\* citation_reliable.
Reliable(id) == id # None /\ \E i \in DOMAIN chunks : chunks[i].id = id

\* parse_rag_answer: the model means a chunk of the context and gives its id, or
\* gives another id, or none that can be read.
AnswerParsed ==
  /\ step = "answer"
  /\ \E meant \in Range(chunks) \cup {None}, id \in (0 .. LastChunk + 1) \cup {None} :
       /\ meant # None => id = meant.id
       /\ answer' = [meant |-> meant, id |-> id, source |-> SourceChunk(id),
                     reliable |-> Reliable(id)]
  /\ step' = "answered"
  /\ UNCHANGED <<dbVars, offset, scrolled, chunks, todo, seen, always>>

\* The page is sent, the turn is over, or a call failed: the 502 and the error
\* envelope leave nothing behind.
RequestEnds ==
  /\ step # "idle"
  /\ step' = "idle"
  /\ offset' = 0
  /\ scrolled' = <<>> /\ chunks' = <<>> /\ todo' = <<>>
  /\ answer' = None
  /\ seen' = {} /\ always' = {}
  /\ UNCHANGED dbVars

Next ==
  \/ \E d \in Docs : Upsert(d) \/ DeleteCounts(d)
  \/ DeleteRuns
  \/ ListStarts \/ Scrolls
  \/ QuestionStarts \/ Retrieves \/ Selects \/ ExpandStarts \/ Fetches \/ Merges \/ AnswerParsed
  \/ RequestEnds

Spec == Init /\ [][Next]_vars

-----------------------------------------------------------------------------
(* Properties.                                                             *)

\* Uploads and deletions between two pages neither hide nor double a chunk: the
\* count shown for a document is at least the chunks it had throughout the
\* listing and at most those it had at some time of it. Only the scroll limit
\* can make it smaller (list_documents, _group_documents).
ListingIsExact ==
  step = "listed" =>
    \A d \in Docs :
      /\ ChunkCount(d) <= Cardinality({p \in seen : p[1] = d})
      /\ \/ Len(scrolled) >= ScrollLimit
         \/ ChunkCount(d) >= Cardinality({p \in always : p[1] = d})

Upload(c) == <<c.upload, c.id>>

\* The context of an answer: something if anything was found, only chunks that
\* were in the collection during this turn, and with the expansion on no chunk
\* twice, every neighbour next to a winner of its file, and of the same upload
\* unless the file was uploaded more than once (select_node, expand_node).
ContextIsSound ==
  step = "answer" =>
    /\ chunks = <<>> => always = {}
    /\ \A i \in DOMAIN chunks : Upload(chunks[i]) \in seen
    /\ expansion => \A i, j \in DOMAIN chunks :
         chunks[i].file = chunks[j].file /\ chunks[i].id = chunks[j].id => i = j
    /\ \A i \in DOMAIN chunks : chunks[i].neighbour =>
         \E j \in DOMAIN chunks :
           /\ ~chunks[j].neighbour
           /\ chunks[j].file = chunks[i].file
           /\ chunks[i].id \in {chunks[j].id + 1} \cup {c \in {chunks[j].id - 1} : chunks[j].id > 0}
           /\ \/ chunks[j].upload = chunks[i].upload
              \/ \E d \in Docs : d # chunks[i].upload /\ fileOf[d] = chunks[i].file

\* A citation that is called reliable names the chunk the model meant, unless
\* two files in the context have a chunk of that id; and every answer with a
\* context cites a chunk of it (parse_rag_answer).
CitationIsTheSource ==
  answer # None =>
    /\ chunks # <<>> => \E i \in DOMAIN chunks : answer.source = chunks[i]
    /\ answer.reliable =>
         /\ answer.source.id = answer.id
         /\ \/ answer.meant \in {None, answer.source}
            \/ \E i \in DOMAIN chunks : chunks[i].id = answer.id /\ chunks[i] # answer.source

=============================================================================
