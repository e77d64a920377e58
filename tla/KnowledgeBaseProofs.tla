------------------------ MODULE KnowledgeBaseProofs -------------------------
(***************************************************************************)
(* Proofs about KnowledgeBase, for any number of uploads and chunks, any   *)
(* page size, scroll limit and retrieval settings: the listing neither     *)
(* hides nor doubles a chunk, the context of an answer is sound, and a     *)
(* reliable citation names its source.                                     *)
(*                                                                         *)
(* The listing is exact because every page goes on where the last one      *)
(* stopped, in an order of the ids that uploads and deletions do not       *)
(* change (PagesSoFar). A context is sound because what is fetched is      *)
(* next to a winner (FetchedAreNeighbours), and the merge keeps the first  *)
(* chunk of each file and id, which for a winner is a winner.              *)
(***************************************************************************)
EXTENDS KnowledgeBase, FiniteSetTheorems, SequenceTheorems, TLAPS

-----------------------------------------------------------------------------
(* The inductive invariant.                                                *)

ChunkSet == [file : Files, id : 0 .. LastChunk, upload : Docs, neighbour : BOOLEAN]

Typed ==
  /\ fileOf \in [Docs -> Files]
  /\ points \subseteq Points
  /\ seen \subseteq Points
  /\ scrolled \in Seq(Points)
  /\ chunks \in Seq(ChunkSet)
  /\ offset \in Nat

\* A request keeps what it reads to itself, and leaves nothing behind.
StageIsClean ==
  /\ step \in {"idle", "retrieve", "select", "expand"} => scrolled = <<>> /\ offset = 0
  /\ step \in {"idle", "scroll", "listed", "retrieve"} => chunks = <<>>
  /\ step # "answered" => answer = None

\* The history of the collection during a request.
HistoryIsTrue ==
  step # "idle" => points \subseteq seen /\ always \subseteq points

\* The pages so far: in order, of what was there, before the next one, and all
\* that stayed up to there.
PagesSoFar ==
  step \in {"scroll", "listed"} =>
    /\ \A i \in DOMAIN scrolled : scrolled[i] \in seen
    /\ \A i, j \in DOMAIN scrolled : i < j => Id(scrolled[i]) < Id(scrolled[j])
    /\ step = "scroll" =>
         /\ Len(scrolled) < ScrollLimit
         /\ \A i \in DOMAIN scrolled : Id(scrolled[i]) < offset
         /\ \A p \in always : Id(p) < offset => \E i \in DOMAIN scrolled : scrolled[i] = p
    /\ step = "listed" =>
         \/ Len(scrolled) >= ScrollLimit
         \/ \A p \in always : \E i \in DOMAIN scrolled : scrolled[i] = p

\* The chunks of a turn come from the collection as it was during the turn.
ChunksWereThere ==
  \A i \in DOMAIN chunks :
    /\ Upload(chunks[i]) \in seen
    /\ chunks[i].file = fileOf[chunks[i].upload]
    /\ step \in {"select", "expand", "fetch"} => ~chunks[i].neighbour

\* A turn is without chunks only if the collection had nothing to offer.
FoundSomething ==
  step \in {"select", "expand", "fetch", "answer"} /\ chunks = <<>> => always = {}

\* Whatever was fetched is next to a winner of its file.
FetchedAreNeighbours ==
  step = "fetch" =>
    \A i \in DOMAIN scrolled :
      scrolled[i] \in seen /\ scrolled[i][2] \in NeighbourIds(fileOf[scrolled[i][1]])

IInv ==
  /\ Typed /\ StageIsClean /\ HistoryIsTrue /\ PagesSoFar
  /\ ChunksWereThere /\ FoundSomething /\ FetchedAreNeighbours
  /\ ContextIsSound /\ CitationIsTheSource

-----------------------------------------------------------------------------
(* Ascending, At and First.                                                *)

LEMMA Linear ==
  ASSUME NEW a \in Nat, NEW b \in Nat, NEW m \in Nat, a < b
  PROVE  a * m + m <= b * m
  OBVIOUS

\* How many of S are below x.
Rank(S, x) == Cardinality({j \in S : j < x})

LEMMA RankGrows ==
  ASSUME NEW S \in SUBSET Nat, IsFiniteSet(S), NEW x \in S
  PROVE  /\ Rank(S, x) \in 0 .. Cardinality(S) - 1
         /\ \A y \in S : x < y => Rank(S, x) < Rank(S, y)
<1>1. \A z \in S : IsFiniteSet({j \in S : j < z}) /\ Rank(S, z) \in Nat
  <2> TAKE z \in S
  <2>1. {j \in S : j < z} \in SUBSET S
    OBVIOUS
  <2> QED
    BY <2>1, FS_Subset, FS_CardinalityType DEF Rank
<1>2. Rank(S, x) \in 0 .. Cardinality(S) - 1
  <2>1. {j \in S : j < x} \in SUBSET (S \ {x})
    OBVIOUS
  <2>2. IsFiniteSet(S \ {x}) /\ Cardinality(S \ {x}) = Cardinality(S) - 1
    BY FS_RemoveElement
  <2>3. Rank(S, x) <= Cardinality(S) - 1 /\ Cardinality(S) \in Nat
    BY <2>1, <2>2, FS_Subset, FS_CardinalityType DEF Rank
  <2>4. Rank(S, x) \in Nat
    BY <1>1
  <2> QED
    BY <2>3, <2>4
<1>3. ASSUME NEW y \in S, x < y PROVE Rank(S, x) < Rank(S, y)
  <2>1. {j \in S : j < x} \in SUBSET {j \in S : j < y}
    <3>1. x \in Nat /\ y \in Nat /\ \A j \in S : j \in Nat
      OBVIOUS
    <3>2. \A j \in S : j < x => j < y
      BY <1>3, <3>1
    <3> QED
      BY <3>2
  <2>2. x \in {j \in S : j < y} /\ x \notin {j \in S : j < x}
    BY <1>3
  <2>3. Rank(S, x) <= Rank(S, y) /\ Rank(S, x) # Rank(S, y)
    BY <1>1, <2>1, <2>2, FS_Subset DEF Rank
  <2>4. Rank(S, x) \in Nat /\ Rank(S, y) \in Nat
    BY <1>1
  <2> QED
    BY <2>3, <2>4
<1> QED
  BY <1>2, <1>3

\* Ascending enumerates the set, in order.
LEMMA AscendingOrders ==
  ASSUME NEW S \in SUBSET Nat, IsFiniteSet(S)
  PROVE  /\ Cardinality(S) \in Nat
         /\ Ascending(S) \in [1 .. Cardinality(S) -> S]
         /\ \A i, j \in 1 .. Cardinality(S) : i < j => Ascending(S)[i] < Ascending(S)[j]
         /\ \A x \in S : \E i \in 1 .. Cardinality(S) : Ascending(S)[i] = x
<1> DEFINE n == Cardinality(S)
           rank == [x \in S |-> Rank(S, x)]
<1>1. n \in Nat
  BY FS_CardinalityType
<1> HIDE DEF n
<1>2. \A x \in S : Rank(S, x) \in 0 .. n - 1
  BY RankGrows DEF n
<1>3. \A x, y \in S : x < y => Rank(S, x) < Rank(S, y)
  BY RankGrows
<1>4. \A x, y \in S : Rank(S, x) = Rank(S, y) => x = y
  BY <1>2, <1>3
<1>5. rank \in Injection(S, 0 .. n - 1)
  BY <1>2, <1>4 DEF Injection, IsInjective
<1>6. IsFiniteSet(0 .. n - 1) /\ Cardinality(0 .. n - 1) = n
  BY <1>1, FS_Interval
<1>7. rank \in Surjection(S, 0 .. n - 1)
  BY <1>5, <1>6, FS_Injection DEF n
<1>8. \A i \in 1 .. n : \E x \in S : Rank(S, x) = i - 1
  <2> TAKE i \in 1 .. n
  <2>1. i - 1 \in 0 .. n - 1
    BY <1>1
  <2> QED
    BY <1>7, <2>1 DEF Surjection
<1>9. \A i \in 1 .. n : Ascending(S)[i] \in S /\ Rank(S, Ascending(S)[i]) = i - 1
  <2> TAKE i \in 1 .. n
  <2>1. Ascending(S)[i] = CHOOSE x \in S : Rank(S, x) = i - 1
    BY DEF Ascending, Rank, n
  <2> QED
    BY <1>8, <2>1
<1>10. Ascending(S) \in [1 .. n -> S]
  <2> DEFINE nth(i) == CHOOSE x \in S : Cardinality({j \in S : j < x}) = i - 1
  <2>1. Ascending(S) = [i \in 1 .. n |-> nth(i)]
    BY DEF Ascending, n
  <2> HIDE DEF nth
  <2> QED
    BY <1>9, <2>1
<1>11. ASSUME NEW i \in 1 .. n, NEW j \in 1 .. n, i < j
       PROVE  Ascending(S)[i] < Ascending(S)[j]
  <2> DEFINE x == Ascending(S)[i]
             y == Ascending(S)[j]
  <2>1. x \in S /\ y \in S /\ Rank(S, x) = i - 1 /\ Rank(S, y) = j - 1
    BY <1>9
  <2> HIDE DEF x, y
  <2>2. x \in Nat /\ y \in Nat
    BY <2>1
  <2>3. ~(y < x) /\ y # x
    <3>1. ~(j - 1 < i - 1) /\ j - 1 # i - 1
      BY <1>11
    <3> QED
      BY <1>3, <2>1, <3>1
  <2> QED
    BY <2>2, <2>3 DEF x, y
<1>12. ASSUME NEW x \in S PROVE \E i \in 1 .. n : Ascending(S)[i] = x
  <2>1. Rank(S, x) + 1 \in 1 .. n /\ (Rank(S, x) + 1) - 1 = Rank(S, x)
    BY <1>1, <1>2
  <2> QED
    BY <1>4, <1>9, <2>1
<1> QED
  BY <1>1, <1>10, <1>11, <1>12 DEF n

\* t is s at the given places, in the order of s.
Picks(t, s, places) ==
  \E a \in [1 .. Len(t) -> places] :
    /\ \A i \in 1 .. Len(t) : t[i] = s[a[i]]
    /\ \A i, j \in 1 .. Len(t) : i < j => a[i] < a[j]
    /\ \A x \in places : \E i \in 1 .. Len(t) : a[i] = x

\* What a part of a sequence holds, and where it comes from.
LEMMA AtPlaces ==
  ASSUME NEW S, NEW s \in Seq(S), NEW places \in SUBSET DOMAIN s
  PROVE  At(s, places) \in Seq(S) /\ Picks(At(s, places), s, places)
<1> DEFINE a == Ascending(places)
           n == Cardinality(places)
<1>1. Len(s) \in Nat /\ DOMAIN s = 1 .. Len(s) /\ \A i \in DOMAIN s : s[i] \in S
  OBVIOUS
<1>2. places \in SUBSET Nat /\ IsFiniteSet(places)
  <2>1. IsFiniteSet(1 .. Len(s))
    BY <1>1, FS_Interval
  <2>2. places \in SUBSET (1 .. Len(s))
    BY <1>1
  <2> QED
    BY <1>1, <2>1, <2>2, FS_Subset
<1>3. /\ n \in Nat /\ a \in [1 .. n -> places]
      /\ \A i, j \in 1 .. n : i < j => a[i] < a[j]
      /\ \A x \in places : \E i \in 1 .. n : a[i] = x
  BY <1>2, AscendingOrders
<1>4. At(s, places) = [i \in 1 .. n |-> s[a[i]]]
  BY DEF At
<1> HIDE DEF a, n
<1>5. At(s, places) \in Seq(S) /\ Len(At(s, places)) = n
  BY <1>1, <1>3, <1>4
<1>6. \A i \in 1 .. n : At(s, places)[i] = s[a[i]]
  BY <1>4
<1> QED
  BY <1>3, <1>5, <1>6 DEF Picks

\* The beginning of a sequence.
LEMMA FirstOnes ==
  ASSUME NEW S, NEW s \in Seq(S), NEW n \in Nat
  PROVE  /\ First(s, n) \in Seq(S)
         /\ Len(First(s, n)) = IF n < Len(s) THEN n ELSE Len(s)
         /\ \A i \in 1 .. Len(First(s, n)) : i \in 1 .. Len(s) /\ First(s, n)[i] = s[i]
<1> DEFINE m == IF n < Len(s) THEN n ELSE Len(s)
<1>1. Len(s) \in Nat
  OBVIOUS
<1>2. m \in 0 .. Len(s)
  BY <1>1
<1>3. First(s, n) = SubSeq(s, 1, m)
  BY DEF First
<1> HIDE DEF m
<1>4. /\ SubSeq(s, 1, m) \in Seq(S) /\ Len(SubSeq(s, 1, m)) = m
      /\ \A i \in 1 .. m : SubSeq(s, 1, m)[i] = s[i]
  BY <1>1, <1>2
<1> QED
  BY <1>1, <1>2, <1>3, <1>4 DEF m

\* The smallest number of a set.
LEMMA LeastIsThere ==
  ASSUME NEW S \in SUBSET Nat, IsFiniteSet(S), S # {}
  PROVE  Least(S) \in S /\ \A j \in S : Least(S) <= j
<1> DEFINE a == Ascending(S)
           n == Cardinality(S)
<1>1. /\ n \in Nat /\ a \in [1 .. n -> S]
      /\ \A i, j \in 1 .. n : i < j => a[i] < a[j]
      /\ \A x \in S : \E i \in 1 .. n : a[i] = x
  BY AscendingOrders
<1> HIDE DEF a, n
<1>2. 1 \in 1 .. n
  <2>1. PICK x \in S : TRUE
    OBVIOUS
  <2>2. PICK i \in 1 .. n : a[i] = x
    BY <1>1
  <2> QED
    BY <1>1, <2>2
<1>3. \A x \in S : a[1] <= x
  <2> TAKE x \in S
  <2>1. PICK i \in 1 .. n : a[i] = x
    BY <1>1
  <2>2. a[1] \in Nat /\ x \in Nat
    BY <1>1, <1>2
  <2>3. i = 1 \/ 1 < i
    BY <1>1
  <2> QED
    BY <1>1, <1>2, <2>1, <2>2, <2>3
<1>4. a[1] \in S
  BY <1>1, <1>2
<1> QED
  BY <1>3, <1>4 DEF Least

-----------------------------------------------------------------------------
(* Points and their ids.                                                   *)

LEMMA Sizes ==
  /\ Uploads \in Nat \ {0} /\ PageSize \in Nat \ {0} /\ ScrollLimit \in Nat \ {0}
  /\ TopK \in Nat \ {0} /\ Winners \in Nat \ {0} /\ LastChunk \in Nat
BY SizesArePositive

LEMMA PointsTyped ==
  ASSUME NEW p \in Points
  PROVE  /\ p[1] \in Docs /\ p[1] \in Nat \ {0} /\ p[2] \in 0 .. LastChunk /\ p[2] \in Nat
         /\ p = <<p[1], p[2]>> /\ Id(p) \in Nat \ {0}
<1>1. /\ p[1] \in Docs /\ p[1] \in Nat \ {0} /\ p[2] \in 0 .. LastChunk /\ p[2] \in Nat
      /\ p = <<p[1], p[2]>>
  BY Sizes DEF Points, Docs
<1>2. /\ p[1] * (LastChunk + 1) \in Nat
      /\ 0 * (LastChunk + 1) + (LastChunk + 1) <= p[1] * (LastChunk + 1)
  BY <1>1, Sizes, Linear, SMTT(60)
<1>3. Id(p) \in Nat \ {0}
  BY <1>1, <1>2, Sizes DEF Id
<1> QED
  BY <1>1, <1>3

LEMMA FinitelyManyPoints ==
  ASSUME NEW S \in SUBSET Points
  PROVE  IsFiniteSet(S)
<1>1. IsFiniteSet(Docs) /\ IsFiniteSet(0 .. LastChunk)
  BY Sizes, FS_Interval DEF Docs
<1>2. IsFiniteSet(Points)
  BY <1>1, FS_Product DEF Points
<1> QED
  BY <1>2, FS_Subset

\* No two points share an id.
LEMMA IdsAreUnique ==
  ASSUME NEW p \in Points, NEW q \in Points, Id(p) = Id(q)
  PROVE  p = q
<1>1. /\ p[1] \in Nat /\ p[2] \in Nat /\ p[2] <= LastChunk /\ p = <<p[1], p[2]>>
      /\ q[1] \in Nat /\ q[2] \in Nat /\ q[2] <= LastChunk /\ q = <<q[1], q[2]>>
  BY PointsTyped, Sizes
<1> DEFINE m == LastChunk + 1
<1>2. m \in Nat /\ p[2] < m /\ q[2] < m /\ p[1] * m \in Nat /\ q[1] * m \in Nat
  BY <1>1, Sizes
<1>3. p[1] * m + p[2] = q[1] * m + q[2]
  BY DEF Id
<1>4. p[1] < q[1] => p[1] * m + m <= q[1] * m
  BY <1>1, <1>2, Linear
<1>5. q[1] < p[1] => q[1] * m + m <= p[1] * m
  BY <1>1, <1>2, Linear
<1> HIDE DEF m
<1>6. p[1] = q[1]
  BY <1>1, <1>2, <1>3, <1>4, <1>5
<1>7. p[2] = q[2]
  BY <1>1, <1>2, <1>3, <1>6
<1> QED
  BY <1>1, <1>6, <1>7

\* ById lists the points of a set once each, in the order of their ids.
LEMMA ByIdOrders ==
  ASSUME NEW S \in SUBSET Points
  PROVE  /\ ById(S) \in Seq(S)
         /\ \A i, j \in DOMAIN ById(S) : i < j => Id(ById(S)[i]) < Id(ById(S)[j])
         /\ \A p \in S : \E i \in DOMAIN ById(S) : ById(S)[i] = p
<1> DEFINE I == {Id(p) : p \in S}
           a == Ascending(I)
           n == Cardinality(I)
           point(i) == CHOOSE p \in S : Id(p) = a[i]
<1>1. I \in SUBSET Nat
  BY PointsTyped
<1>2. IsFiniteSet(I)
  <2> DEFINE f == [p \in S |-> Id(p)]
  <2>1. f \in Surjection(S, I)
    BY DEF Surjection
  <2> QED
    BY <2>1, FinitelyManyPoints, FS_Surjection
<1>3. /\ n \in Nat /\ a \in [1 .. n -> I]
      /\ \A i, j \in 1 .. n : i < j => a[i] < a[j]
      /\ \A x \in I : \E i \in 1 .. n : a[i] = x
  BY <1>1, <1>2, AscendingOrders
<1>4. ById(S) = [i \in 1 .. n |-> point(i)]
  <2>1. DOMAIN a = 1 .. n
    BY <1>3
  <2> QED
    BY <2>1 DEF ById
<1>5. \A i \in 1 .. n : point(i) \in S /\ Id(point(i)) = a[i]
  <2> TAKE i \in 1 .. n
  <2>1. \E p \in S : Id(p) = a[i]
    BY <1>3
  <2> QED
    BY <2>1
<1> HIDE DEF point, a, n
<1>6. ById(S) \in Seq(S) /\ DOMAIN ById(S) = 1 .. n
  BY <1>3, <1>4, <1>5
<1>7. \A i \in 1 .. n : ById(S)[i] \in S /\ Id(ById(S)[i]) = a[i]
  BY <1>4, <1>5
<1>8. ASSUME NEW p \in S PROVE \E i \in 1 .. n : ById(S)[i] = p
  <2>1. PICK i \in 1 .. n : a[i] = Id(p)
    BY <1>3
  <2>2. ById(S)[i] \in Points /\ p \in Points /\ Id(ById(S)[i]) = Id(p)
    BY <1>7, <2>1
  <2> QED
    BY <2>2, IdsAreUnique
<1> QED
  BY <1>3, <1>6, <1>7, <1>8

-----------------------------------------------------------------------------
(* Uploads and deletions.                                                  *)

LEMMA NeighboursStay ==
  ASSUME chunks' = chunks
  PROVE  \A f : NeighbourIds(f)' = NeighbourIds(f)
BY DEF NeighbourIds

LEMMA Unread ==
  ASSUME IInv, UNCHANGED <<fileOf, expansion, points, readVars, seen, always>>
  PROVE  IInv'
<1> USE DEF IInv, readVars
<1>1. Typed' /\ StageIsClean' /\ HistoryIsTrue'
  BY DEF Typed, StageIsClean, HistoryIsTrue, ChunkSet, Docs, Points
<1>2. PagesSoFar'
  BY DEF PagesSoFar, Id
<1>3. ChunksWereThere' /\ FoundSomething'
  BY DEF ChunksWereThere, FoundSomething, Upload
<1>4. FetchedAreNeighbours'
  BY NeighboursStay DEF FetchedAreNeighbours
<1>5. ContextIsSound'
  BY DEF ContextIsSound, Upload, Docs
<1>6. CitationIsTheSource'
  BY DEF CitationIsTheSource
<1> QED
  BY <1>1, <1>2, <1>3, <1>4, <1>5, <1>6

\* A change of the collection is none of what a request has read.
LEMMA CollectionStep ==
  ASSUME IInv, NEW S \in SUBSET Points, Collection(S),
         UNCHANGED <<fileOf, expansion, readVars>>
  PROVE  IInv'
<1> USE DEF IInv, readVars
<1>1. points' = S /\ seen' = seen \cup S /\ always' = always \cap S
  BY DEF Collection
<1>2. Typed' /\ StageIsClean'
  BY <1>1 DEF Typed, StageIsClean, ChunkSet, Docs, Points
<1>3. HistoryIsTrue'
  BY <1>1 DEF HistoryIsTrue
<1>4. PagesSoFar'
  BY <1>1 DEF PagesSoFar, Id
<1>5. ChunksWereThere' /\ FoundSomething'
  BY <1>1 DEF ChunksWereThere, FoundSomething, Upload
<1>6. FetchedAreNeighbours'
  BY <1>1, NeighboursStay DEF FetchedAreNeighbours
<1>7. ContextIsSound'
  BY <1>1 DEF ContextIsSound, Upload, Docs
<1>8. CitationIsTheSource'
  BY DEF CitationIsTheSource
<1> QED
  BY <1>2, <1>3, <1>4, <1>5, <1>6, <1>7, <1>8

LEMMA WriterStep ==
  ASSUME IInv, \/ \E d \in Docs : Upsert(d) \/ DeleteCounts(d)
               \/ DeleteRuns
  PROVE  IInv'
<1>1. points \in SUBSET Points
  BY DEF IInv, Typed
<1>2. ASSUME NEW d \in Docs, Upsert(d) PROVE IInv'
  <2>1. PICK approved \in SUBSET ({d} \X (0 .. LastChunk)) : Collection(points \cup approved)
    BY <1>2 DEF Upsert
  <2>2. points \cup approved \in SUBSET Points
    BY <1>1 DEF Points
  <2> QED
    BY <1>2, <2>1, <2>2, CollectionStep DEF Upsert
<1>3. ASSUME NEW d \in Docs, DeleteCounts(d) PROVE IInv'
  <2>1. UNCHANGED <<fileOf, rerank, expansion, points, upserted, readVars, seen, always>>
    BY <1>3 DEF DeleteCounts
  <2> QED
    BY <2>1, Unread
<1>4. ASSUME DeleteRuns PROVE IInv'
  <2>1. {p \in points : p[1] # deletion[1]} \in SUBSET Points
    BY <1>1
  <2> QED
    BY <1>1, <1>4, <2>1, CollectionStep DEF DeleteRuns
<1> QED
  BY <1>2, <1>3, <1>4

-----------------------------------------------------------------------------
(* The listing.                                                            *)

LEMMA BeginsStep ==
  ASSUME IInv, NEW first \in {"scroll", "retrieve"}, Begins(first)
  PROVE  IInv'
<1> USE DEF IInv
<1>1. /\ step = "idle" /\ step' = first /\ seen' = points /\ always' = points
      /\ UNCHANGED <<dbVars, offset, scrolled, chunks, todo, answer>>
  BY DEF Begins
<1>2. /\ scrolled = <<>> /\ offset = 0 /\ chunks = <<>> /\ answer = None
      /\ DOMAIN scrolled = {} /\ DOMAIN chunks = {} /\ Len(scrolled) = 0
  BY <1>1 DEF StageIsClean
<1>3. Typed' /\ StageIsClean' /\ HistoryIsTrue'
  BY <1>1, <1>2 DEF Typed, StageIsClean, HistoryIsTrue, ChunkSet, Docs, Points, dbVars
<1>4. PagesSoFar'
  <2>1. \A p \in points : ~(Id(p) < 0)
    BY PointsTyped DEF Typed
  <2> QED
    BY <1>1, <1>2, <2>1, Sizes DEF PagesSoFar, Id
<1>5. ChunksWereThere' /\ FoundSomething' /\ FetchedAreNeighbours' /\ ContextIsSound'
  BY <1>1, <1>2 DEF ChunksWereThere, FoundSomething, FetchedAreNeighbours, ContextIsSound
<1>6. CitationIsTheSource'
  BY <1>1, <1>2 DEF CitationIsTheSource
<1> QED
  BY <1>3, <1>4, <1>5, <1>6

LEMMA RequestEndsStep ==
  ASSUME IInv, RequestEnds
  PROVE  IInv'
<1> USE DEF IInv
<1>1. /\ step' = "idle" /\ offset' = 0
      /\ scrolled' = <<>> /\ chunks' = <<>> /\ answer' = None /\ seen' = {} /\ always' = {}
      /\ UNCHANGED dbVars
  BY DEF RequestEnds
<1>2. DOMAIN chunks' = {}
  BY <1>1
<1>3. Typed'
  <2>1. <<>> \in Seq(Points) /\ <<>> \in Seq(ChunkSet)
    BY EmptySeq
  <2> QED
    BY <1>1, <2>1 DEF Typed, ChunkSet, Docs, Points, dbVars
<1>4. StageIsClean' /\ HistoryIsTrue' /\ PagesSoFar' /\ FoundSomething' /\ FetchedAreNeighbours'
  BY <1>1 DEF StageIsClean, HistoryIsTrue, PagesSoFar, FoundSomething, FetchedAreNeighbours
<1>5. ChunksWereThere' /\ ContextIsSound' /\ CitationIsTheSource'
  BY <1>1, <1>2 DEF ChunksWereThere, ContextIsSound, CitationIsTheSource
<1> QED
  BY <1>3, <1>4, <1>5

\* A page: what is there from its offset to the next one.
LEMMA PageIsNext ==
  ASSUME Typed, NEW from \in Nat, NEW limit \in Nat \ {0}
  PROVE  /\ Page(from, limit).points \in Seq(points)
         /\ \A i \in DOMAIN Page(from, limit).points : from <= Id(Page(from, limit).points[i])
         /\ \A i, j \in DOMAIN Page(from, limit).points :
              i < j => Id(Page(from, limit).points[i]) < Id(Page(from, limit).points[j])
         /\ Page(from, limit).next \in Nat
         /\ Page(from, limit).next # 0 =>
              /\ from <= Page(from, limit).next
              /\ \A i \in DOMAIN Page(from, limit).points :
                   Id(Page(from, limit).points[i]) < Page(from, limit).next
         /\ \A p \in points :
              from <= Id(p) /\ (Page(from, limit).next # 0 => Id(p) < Page(from, limit).next)
              => \E i \in DOMAIN Page(from, limit).points : Page(from, limit).points[i] = p
<1> DEFINE S == {p \in points : Id(p) >= from}
           rest == ById(S)
           next == IF Len(rest) > limit THEN Id(rest[limit + 1]) ELSE 0
<1>1. S \in SUBSET Points /\ S \subseteq points
  BY DEF Typed
<1>2. /\ rest \in Seq(S)
      /\ \A i, j \in DOMAIN rest : i < j => Id(rest[i]) < Id(rest[j])
      /\ \A p \in S : \E i \in DOMAIN rest : rest[i] = p
  BY <1>1, ByIdOrders
<1>3. Page(from, limit).points = First(rest, limit) /\ Page(from, limit).next = next
  BY DEF Page
<1>4. \A p \in S : p \in points /\ from <= Id(p) /\ Id(p) \in Nat \ {0}
  <2> TAKE p \in S
  <2>1. p \in points /\ Id(p) >= from /\ Id(p) \in Nat \ {0}
    BY <1>1, PointsTyped
  <2> QED
    BY <2>1
<1>5. \A p \in points : from <= Id(p) => p \in S
  <2> TAKE p \in points
  <2>1. Id(p) \in Nat
    BY PointsTyped DEF Typed
  <2> QED
    BY <2>1
<1> HIDE DEF rest, S
<1>6. /\ Len(rest) \in Nat /\ DOMAIN rest = 1 .. Len(rest)
      /\ \A i \in DOMAIN rest : rest[i] \in S
  BY <1>2
<1> DEFINE page == First(rest, limit)
<1>7. /\ page \in Seq(S) /\ Len(page) = IF limit < Len(rest) THEN limit ELSE Len(rest)
      /\ \A i \in 1 .. Len(page) : i \in 1 .. Len(rest) /\ page[i] = rest[i]
  BY <1>2, FirstOnes
<1> HIDE DEF page
<1>8. Len(page) \in Nat /\ DOMAIN page = 1 .. Len(page) /\ page \in Seq(points)
  <2>1. S \subseteq points
    BY <1>4
  <2> QED
    BY <1>7, <2>1, SeqMonotonic
<1>9. \A i \in DOMAIN page : from <= Id(page[i])
  BY <1>4, <1>6, <1>7, <1>8
<1>10. \A i, j \in DOMAIN page : i < j => Id(page[i]) < Id(page[j])
  BY <1>2, <1>6, <1>7, <1>8
<1>11. CASE limit < Len(rest)
  <2>1. limit + 1 \in DOMAIN rest /\ Len(page) = limit /\ next = Id(rest[limit + 1])
    BY <1>6, <1>7, <1>11
  <2>2. next \in Nat \ {0} /\ from <= next
    BY <1>4, <1>6, <2>1
  <2>3. \A i \in DOMAIN page : Id(page[i]) < next
    <3> TAKE i \in DOMAIN page
    <3>1. i \in DOMAIN rest /\ page[i] = rest[i] /\ i < limit + 1
      BY <1>6, <1>7, <1>8, <2>1
    <3> QED
      BY <1>2, <2>1, <3>1
  <2>4. ASSUME NEW p \in points, from <= Id(p), Id(p) < next
        PROVE  \E i \in DOMAIN page : page[i] = p
    <3>1. PICK i \in DOMAIN rest : rest[i] = p
      BY <1>2, <1>5, <2>4
    <3>2. ~(limit + 1 < i) /\ i # limit + 1
      <4>1. Id(p) \in Nat
        BY <1>4, <1>5, <2>4
      <4> QED
        BY <1>2, <2>1, <2>2, <2>4, <3>1, <4>1
    <3>3. i \in 1 .. Len(page)
      BY <1>6, <2>1, <3>2
    <3> QED
      BY <1>7, <1>8, <3>1, <3>3
  <2> QED
    BY <1>3, <1>8, <1>9, <1>10, <2>2, <2>3, <2>4 DEF page
<1>12. CASE ~(limit < Len(rest))
  <2>1. next = 0 /\ Len(page) = Len(rest)
    BY <1>6, <1>7, <1>12
  <2>2. ASSUME NEW p \in points, from <= Id(p)
        PROVE  \E i \in DOMAIN page : page[i] = p
    <3>1. PICK i \in DOMAIN rest : rest[i] = p
      BY <1>2, <1>5, <2>2
    <3> QED
      BY <1>6, <1>7, <1>8, <2>1, <3>1
  <2> QED
    BY <1>3, <1>8, <1>9, <1>10, <2>1, <2>2 DEF page
<1> QED
  BY <1>11, <1>12

\* Two stretches of points one behind the other.
LEMMA JoinedPoints ==
  ASSUME NEW s \in Seq(Points), NEW t \in Seq(Points)
  PROVE  /\ s \o t \in Seq(Points)
         /\ Len(s) \in Nat /\ Len(t) \in Nat /\ Len(s \o t) = Len(s) + Len(t)
         /\ DOMAIN s = 1 .. Len(s) /\ DOMAIN t = 1 .. Len(t)
         /\ DOMAIN (s \o t) = 1 .. Len(s) + Len(t)
         /\ \A i \in DOMAIN s : i \in DOMAIN (s \o t) /\ (s \o t)[i] = s[i]
         /\ \A i \in DOMAIN t : Len(s) + i \in DOMAIN (s \o t) /\ (s \o t)[Len(s) + i] = t[i]
         /\ \A i \in DOMAIN (s \o t) : i \in DOMAIN s \/
              (i - Len(s) \in DOMAIN t /\ (s \o t)[i] = t[i - Len(s)] /\ i > Len(s))
  OBVIOUS

\* A page more.
LEMMA ScrollsStep ==
  ASSUME IInv, Scrolls
  PROVE  IInv'
<1> USE DEF IInv
<1> DEFINE limit == IF PageSize < ScrollLimit - Len(scrolled) THEN PageSize
                                                            ELSE ScrollLimit - Len(scrolled)
<1>1. PICK page : page = Page(offset, limit)
  OBVIOUS
<1>2. /\ step = "scroll" /\ scrolled' = scrolled \o page.points /\ offset' = page.next
      /\ step' = IF page.next = 0 \/ Len(scrolled') >= ScrollLimit THEN "listed" ELSE "scroll"
      /\ UNCHANGED <<dbVars, chunks, todo, answer, seen, always>>
  BY <1>1 DEF Scrolls
<1>3. /\ scrolled \in Seq(Points) /\ Len(scrolled) \in Nat /\ Len(scrolled) < ScrollLimit
      /\ offset \in Nat
  BY <1>2 DEF Typed, PagesSoFar
<1>4. limit \in Nat \ {0}
  BY <1>3, Sizes
<1> HIDE DEF limit
<1>5. /\ page.points \in Seq(points) /\ page.next \in Nat
      /\ \A i \in DOMAIN page.points : offset <= Id(page.points[i])
      /\ \A i, j \in DOMAIN page.points : i < j => Id(page.points[i]) < Id(page.points[j])
      /\ page.next # 0 =>
           /\ offset <= page.next
           /\ \A i \in DOMAIN page.points : Id(page.points[i]) < page.next
      /\ \A p \in points :
           offset <= Id(p) /\ (page.next # 0 => Id(p) < page.next)
           => \E i \in DOMAIN page.points : page.points[i] = p
  BY <1>1, <1>3, <1>4, PageIsNext
<1> DEFINE t == page.points
<1>6. t \in Seq(Points) /\ \A i \in DOMAIN t : t[i] \in points
  <2>1. points \subseteq Points
    BY DEF Typed
  <2> QED
    BY <1>5, <2>1, SeqMonotonic
<1> HIDE DEF t
<1>7. /\ scrolled' \in Seq(Points)
      /\ Len(scrolled) \in Nat /\ DOMAIN scrolled = 1 .. Len(scrolled) /\ DOMAIN t = 1 .. Len(t)
      /\ Len(t) \in Nat
      /\ Len(scrolled') = Len(scrolled) + Len(t) /\ DOMAIN scrolled' = 1 .. Len(scrolled) + Len(t)
      /\ \A i \in DOMAIN scrolled : i \in DOMAIN scrolled' /\ scrolled'[i] = scrolled[i]
      /\ \A i \in DOMAIN t : Len(scrolled) + i \in DOMAIN scrolled'
                             /\ scrolled'[Len(scrolled) + i] = t[i]
      /\ \A i \in DOMAIN scrolled' : i \in DOMAIN scrolled \/
           (i - Len(scrolled) \in DOMAIN t /\ scrolled'[i] = t[i - Len(scrolled)]
            /\ i > Len(scrolled))
  <2>1. scrolled' = scrolled \o t
    BY <1>2 DEF t
  <2> QED
    BY <1>3, <1>6, <2>1, JoinedPoints
<1>8. /\ \A i \in DOMAIN scrolled : Id(scrolled[i]) < offset /\ Id(scrolled[i]) \in Nat
      /\ \A i \in DOMAIN t : offset <= Id(t[i]) /\ Id(t[i]) \in Nat
  <2>1. /\ \A i \in DOMAIN scrolled : scrolled[i] \in Points
        /\ \A i \in DOMAIN t : t[i] \in Points
    BY <1>3, <1>6
  <2> QED
    BY <1>2, <1>5, <2>1, PointsTyped DEF PagesSoFar, t
<1>9. \A i \in DOMAIN scrolled' : scrolled'[i] \in seen
  BY <1>2, <1>6, <1>7 DEF PagesSoFar, HistoryIsTrue
<1>10. ASSUME NEW i \in DOMAIN scrolled', NEW j \in DOMAIN scrolled', i < j
       PROVE  Id(scrolled'[i]) < Id(scrolled'[j])
  <2>1. CASE j \in DOMAIN scrolled
    <3>1. i \in DOMAIN scrolled
      BY <1>7, <1>10, <2>1
    <3> QED
      BY <1>2, <1>7, <1>10, <2>1, <3>1 DEF PagesSoFar
  <2>2. CASE i \in DOMAIN scrolled /\ j \notin DOMAIN scrolled
    <3>1. j - Len(scrolled) \in DOMAIN t /\ scrolled'[j] = t[j - Len(scrolled)]
          /\ scrolled'[i] = scrolled[i]
      BY <1>7, <2>2
    <3>2. /\ Id(scrolled[i]) < offset /\ Id(scrolled[i]) \in Nat
          /\ offset <= Id(t[j - Len(scrolled)]) /\ Id(t[j - Len(scrolled)]) \in Nat
      BY <1>8, <2>2, <3>1
    <3> QED
      BY <1>3, <3>1, <3>2
  <2>3. CASE i \notin DOMAIN scrolled /\ j \notin DOMAIN scrolled
    <3>1. /\ j - Len(scrolled) \in DOMAIN t /\ scrolled'[j] = t[j - Len(scrolled)]
          /\ i - Len(scrolled) \in DOMAIN t /\ scrolled'[i] = t[i - Len(scrolled)]
      BY <1>7, <2>3
    <3>2. i - Len(scrolled) < j - Len(scrolled)
      BY <1>7, <1>10
    <3> QED
      BY <1>5, <3>1, <3>2 DEF t
  <2> QED
    BY <2>1, <2>2, <2>3
<1>11. ASSUME NEW p \in always, page.next # 0 => Id(p) < page.next
       PROVE  \E i \in DOMAIN scrolled' : scrolled'[i] = p
  <2>1. p \in points /\ Id(p) \in Nat
    BY <1>2, PointsTyped DEF HistoryIsTrue, Typed
  <2>2. CASE Id(p) < offset
    <3>1. \E i \in DOMAIN scrolled : scrolled[i] = p
      BY <1>2, <2>2 DEF PagesSoFar
    <3> QED
      BY <1>7, <3>1
  <2>3. CASE ~(Id(p) < offset)
    <3>1. offset <= Id(p)
      BY <1>3, <2>1, <2>3
    <3>2. \E i \in DOMAIN t : t[i] = p
      BY <1>5, <1>11, <2>1, <3>1 DEF t
    <3> QED
      BY <1>7, <3>2
  <2> QED
    BY <2>2, <2>3
<1>12. PagesSoFar'
  <2>1. CASE step' = "scroll"
    <3>1. page.next # 0 /\ ~(Len(scrolled') >= ScrollLimit)
      BY <1>2, <2>1
    <3>2. Len(scrolled') < ScrollLimit
      BY <1>7, <3>1, Sizes
    <3>3. ASSUME NEW i \in DOMAIN scrolled' PROVE Id(scrolled'[i]) < page.next
      <4>1. CASE i \in DOMAIN scrolled
        BY <1>3, <1>5, <1>7, <1>8, <3>1, <4>1
      <4>2. CASE i \notin DOMAIN scrolled
        BY <1>5, <1>7, <3>1, <3>3, <4>2 DEF t
      <4> QED
        BY <4>1, <4>2
    <3> QED
      BY <1>2, <1>9, <1>10, <1>11, <2>1, <3>2, <3>3 DEF PagesSoFar, Id
  <2>2. CASE step' = "listed"
    <3>1. Len(scrolled') >= ScrollLimit \/ page.next = 0
      BY <1>2, <2>2
    <3> QED
      BY <1>2, <1>9, <1>10, <1>11, <2>2, <3>1 DEF PagesSoFar, Id
  <2> QED
    BY <1>2, <2>1, <2>2
<1>13. Typed'
  BY <1>2, <1>5, <1>7 DEF Typed, ChunkSet, Docs, Points, dbVars
<1>14. step' \in {"scroll", "listed"} /\ chunks' = <<>> /\ answer' = None /\ DOMAIN chunks' = {}
  BY <1>2 DEF StageIsClean
<1>15. StageIsClean' /\ HistoryIsTrue' /\ FoundSomething' /\ FetchedAreNeighbours'
  BY <1>2, <1>14 DEF StageIsClean, HistoryIsTrue, FoundSomething, FetchedAreNeighbours, dbVars
<1>16. ChunksWereThere' /\ ContextIsSound' /\ CitationIsTheSource'
  BY <1>14 DEF ChunksWereThere, ContextIsSound, CitationIsTheSource
<1> QED
  BY <1>12, <1>13, <1>15, <1>16

-----------------------------------------------------------------------------
(* The question branch.                                                    *)

\* A chunk made of a point of the collection.
LEMMA ChunkOfPoint ==
  ASSUME fileOf \in [Docs -> Files], NEW p \in Points, NEW b \in BOOLEAN
  PROVE  /\ Chunk(p, b) \in ChunkSet /\ Upload(Chunk(p, b)) = p
         /\ Chunk(p, b).file = fileOf[p[1]] /\ Chunk(p, b).id = p[2]
         /\ Chunk(p, b).upload = p[1] /\ Chunk(p, b).neighbour = b
<1>1. p[1] \in Docs /\ p[2] \in 0 .. LastChunk /\ p = <<p[1], p[2]>>
  BY PointsTyped
<1>2. fileOf[p[1]] \in Files
  BY <1>1
<1> QED
  BY <1>1, <1>2 DEF Chunk, ChunkSet, Upload

\* What holds of the other parts while a turn has no answer yet.
LEMMA TurnStep ==
  ASSUME IInv, step \in {"retrieve", "select", "expand"}, step' \in {"select", "expand", "fetch"},
         UNCHANGED <<dbVars, offset, scrolled, answer, seen, always>>
  PROVE  /\ StageIsClean' /\ HistoryIsTrue' /\ PagesSoFar' /\ FetchedAreNeighbours'
         /\ ContextIsSound' /\ CitationIsTheSource'
<1> USE DEF IInv
<1>1. scrolled' = <<>> /\ offset' = 0 /\ answer' = None /\ DOMAIN scrolled' = {}
  BY DEF StageIsClean
<1>2. StageIsClean' /\ HistoryIsTrue' /\ PagesSoFar'
  BY <1>1 DEF StageIsClean, HistoryIsTrue, PagesSoFar, dbVars
<1>3. FetchedAreNeighbours' /\ ContextIsSound' /\ CitationIsTheSource'
  BY <1>1 DEF FetchedAreNeighbours, ContextIsSound, CitationIsTheSource
<1> QED
  BY <1>2, <1>3

LEMMA RetrievesStep ==
  ASSUME IInv, Retrieves
  PROVE  IInv'
<1> USE DEF IInv
<1>1. /\ step = "retrieve" /\ step' = "select"
      /\ UNCHANGED <<dbVars, offset, scrolled, todo, answer, seen, always>>
  BY DEF Retrieves
<1>2. PICK n \in 0 .. TopK : \E best \in [1 .. n -> points] :
        (n = 0 => points = {}) /\ chunks' = [i \in 1 .. n |-> Chunk(best[i], FALSE)]
  BY DEF Retrieves
<1>3. PICK best \in [1 .. n -> points] :
        (n = 0 => points = {}) /\ chunks' = [i \in 1 .. n |-> Chunk(best[i], FALSE)]
  BY <1>2
<1>4. n \in Nat
  BY Sizes
<1>5. ASSUME NEW i \in 1 .. n
      PROVE  /\ chunks'[i] \in ChunkSet /\ Upload(chunks'[i]) \in seen
             /\ chunks'[i].file = fileOf[chunks'[i].upload] /\ chunks'[i].neighbour = FALSE
  <2>1. best[i] \in points /\ best[i] \in Points /\ best[i] \in seen
    BY <1>1 DEF Typed, HistoryIsTrue
  <2>2. chunks'[i] = Chunk(best[i], FALSE)
    BY <1>3
  <2> QED
    BY <2>1, <2>2, ChunkOfPoint, ZenonT(60) DEF Typed
<1>6. chunks' \in Seq(ChunkSet) /\ DOMAIN chunks' = 1 .. n /\ Len(chunks') = n
  <2> DEFINE c(i) == Chunk(best[i], FALSE)
  <2>1. chunks' = [i \in 1 .. n |-> c(i)] /\ \A i \in 1 .. n : c(i) \in ChunkSet
    BY <1>3, <1>5
  <2> HIDE DEF c
  <2> QED
    BY <1>4, <2>1
<1>7. Typed'
  BY <1>1, <1>6 DEF Typed, ChunkSet, Docs, Points, dbVars
<1>8. ChunksWereThere'
  BY <1>1, <1>5, <1>6 DEF ChunksWereThere, Upload, dbVars
<1>9. FoundSomething'
  <2>1. chunks' = <<>> => n = 0
    BY <1>4, <1>6
  <2> QED
    BY <1>1, <1>3, <2>1 DEF FoundSomething, HistoryIsTrue
<1> QED
  BY <1>1, <1>7, <1>8, <1>9, TurnStep

\* A choice among the chunks, that is empty only if there are none.
LEMMA ChosenStep ==
  ASSUME IInv, step = "select", step' = "expand",
         UNCHANGED <<dbVars, offset, scrolled, answer, seen, always>>,
         chunks' \in Seq(ChunkSet),
         \A i \in DOMAIN chunks' : \E j \in DOMAIN chunks : chunks'[i] = chunks[j],
         chunks' = <<>> => chunks = <<>>
  PROVE  IInv'
<1> USE DEF IInv
<1>1. Typed'
  BY DEF Typed, ChunkSet, Docs, Points, dbVars
<1>2. ChunksWereThere'
  <2> SUFFICES ASSUME NEW i \in DOMAIN chunks'
               PROVE  /\ Upload(chunks'[i]) \in seen
                      /\ chunks'[i].file = fileOf[chunks'[i].upload]
                      /\ ~chunks'[i].neighbour
    BY DEF ChunksWereThere, dbVars, Upload
  <2>1. PICK j \in DOMAIN chunks : chunks'[i] = chunks[j]
    OBVIOUS
  <2> QED
    BY <2>1 DEF ChunksWereThere
<1>3. FoundSomething'
  BY DEF FoundSomething
<1> QED
  BY <1>1, <1>2, <1>3, TurnStep

LEMMA SelectsStep ==
  ASSUME IInv, Selects
  PROVE  IInv'
<1>1. /\ step = "select" /\ step' = "expand"
      /\ UNCHANGED <<dbVars, offset, scrolled, todo, answer, seen, always>>
  BY DEF Selects
<1>2. chunks \in Seq(ChunkSet) /\ Len(chunks) \in Nat /\ DOMAIN chunks = 1 .. Len(chunks)
  BY DEF IInv, Typed
<1>3. CASE chunks' = First(chunks, Winners)
  <2>1. /\ chunks' \in Seq(ChunkSet)
        /\ Len(chunks') = IF Winners < Len(chunks) THEN Winners ELSE Len(chunks)
        /\ \A i \in 1 .. Len(chunks') : i \in 1 .. Len(chunks) /\ chunks'[i] = chunks[i]
    BY <1>2, <1>3, FirstOnes, Sizes
  <2>2. DOMAIN chunks' = 1 .. Len(chunks')
    BY <2>1
  <2>3. chunks' = <<>> => chunks = <<>>
    <3>1. chunks' = <<>> => Len(chunks') = 0
      OBVIOUS
    <3>2. Len(chunks') = 0 => Len(chunks) = 0
      BY <1>2, <2>1, Sizes
    <3> QED
      BY <1>2, <3>1, <3>2, EmptySeq
  <2> QED
    BY <1>1, <1>2, <2>1, <2>2, <2>3, ChosenStep
<1>4. CASE chunks # <<>> /\ \E n \in 0 .. Winners : \E labels \in [1 .. n -> 0 .. TopK + 1] :
             chunks' = [i \in DOMAIN RerankIndices(labels) |-> chunks[RerankIndices(labels)[i]]]
  <2>1. PICK n \in 0 .. Winners : \E labels \in [1 .. n -> 0 .. TopK + 1] :
             chunks' = [i \in DOMAIN RerankIndices(labels) |-> chunks[RerankIndices(labels)[i]]]
    BY <1>4
  <2>2. PICK labels \in [1 .. n -> 0 .. TopK + 1] :
             chunks' = [i \in DOMAIN RerankIndices(labels) |-> chunks[RerankIndices(labels)[i]]]
    BY <2>1
  <2> DEFINE best == RerankIndices(labels)
             L == 1 .. Len(chunks)
             all == [i \in 1 .. Len(chunks) |-> i]
             places == {i \in DOMAIN labels : labels[i] \in 1 .. Len(chunks)}
             usable == At(labels, places)
             s == IF usable = <<>> THEN all ELSE usable
  <2>3. n \in Nat /\ labels \in Seq(Nat) /\ DOMAIN labels = 1 .. n
    BY Sizes
  <2>4. usable \in Seq(L)
    <3>0. places \in SUBSET DOMAIN labels
      OBVIOUS
    <3>1. usable \in Seq(Nat) /\ Picks(usable, labels, places)
      BY <2>3, <3>0, AtPlaces
    <3>2. PICK a \in [1 .. Len(usable) -> places] :
            \A i \in 1 .. Len(usable) : usable[i] = labels[a[i]]
      BY <3>1 DEF Picks
    <3>3. \A i \in 1 .. Len(usable) : usable[i] \in L
      BY <3>2
    <3> HIDE DEF usable, L
    <3> QED
      BY <3>1, <3>3, SMTT(60)
  <2>5. best = First(s, Winners)
    BY DEF RerankIndices
  <2>6. all \in Seq(L) /\ Len(all) = Len(chunks)
    BY <1>2
  <2>7. Len(chunks) # 0
    BY <1>2, <1>4, EmptySeq
  <2> HIDE DEF usable, all, L
  <2>8. s \in Seq(L) /\ Len(s) \in Nat \ {0}
    <3>1. CASE usable = <<>>
      BY <1>2, <2>6, <2>7, <3>1
    <3>2. CASE usable # <<>>
      BY <2>4, <3>2
    <3> QED
      BY <3>1, <3>2
  <2> HIDE DEF s, best
  <2>9. best \in Seq(L) /\ Len(best) = IF Winners < Len(s) THEN Winners ELSE Len(s)
    BY <2>5, <2>8, FirstOnes, Sizes
  <2>10. /\ Len(best) \in Nat \ {0} /\ DOMAIN best = 1 .. Len(best)
         /\ \A i \in DOMAIN best : best[i] \in L
    BY <2>8, <2>9, Sizes
  <2>11. chunks' = [i \in 1 .. Len(best) |-> chunks[best[i]]]
    BY <2>2, <2>10 DEF best
  <2>12. \A i \in 1 .. Len(best) : chunks'[i] = chunks[best[i]] /\ best[i] \in DOMAIN chunks
    BY <1>2, <2>10, <2>11 DEF L
  <2>13. chunks' \in Seq(ChunkSet) /\ DOMAIN chunks' = 1 .. Len(best) /\ Len(chunks') = Len(best)
    BY <1>2, <2>10, <2>11, <2>12
  <2>14. chunks' # <<>>
    BY <2>10, <2>13
  <2> QED
    BY <1>1, <2>12, <2>13, <2>14, ChosenStep
<1> QED
  BY <1>3, <1>4 DEF Selects

LEMMA ExpandStartsStep ==
  ASSUME IInv, ExpandStarts
  PROVE  IInv'
<1>1. /\ step = "expand" /\ UNCHANGED <<dbVars, offset, scrolled, chunks, answer, seen, always>>
      /\ step' = IF expansion THEN "fetch" ELSE "answer"
  BY DEF ExpandStarts
<1>2. Typed' /\ FoundSomething'
  BY <1>1 DEF IInv, Typed, FoundSomething, ChunkSet, Docs, Points, dbVars
<1>3. ChunksWereThere' /\ \A i \in DOMAIN chunks : ~chunks[i].neighbour
  BY <1>1 DEF IInv, ChunksWereThere, Upload, dbVars
<1>4. CASE expansion
  BY <1>1, <1>2, <1>3, <1>4, TurnStep DEF IInv
<1>5. CASE ~expansion
  <2>1. step' = "answer" /\ ~expansion' /\ answer' = None
    BY <1>1, <1>5 DEF dbVars, IInv, StageIsClean
  <2>2. StageIsClean' /\ HistoryIsTrue' /\ PagesSoFar' /\ FetchedAreNeighbours'
    BY <1>1, <2>1 DEF IInv, StageIsClean, HistoryIsTrue, PagesSoFar, FetchedAreNeighbours, dbVars
  <2>3. ContextIsSound'
    <3>1. chunks' = <<>> => always' = {}
      BY <1>1 DEF IInv, FoundSomething
    <3>2. \A i \in DOMAIN chunks' : Upload(chunks'[i]) \in seen' /\ ~chunks'[i].neighbour
      BY <1>1, <1>3 DEF IInv, ChunksWereThere, Upload
    <3> QED
      BY <2>1, <3>1, <3>2 DEF ContextIsSound, Upload
  <2>4. CitationIsTheSource'
    BY <2>1 DEF CitationIsTheSource
  <2> QED
    BY <1>2, <1>3, <2>2, <2>3, <2>4 DEF IInv
<1> QED
  BY <1>4, <1>5

LEMMA FetchesStep ==
  ASSUME IInv, Fetches
  PROVE  IInv'
<1>1. /\ step = "fetch" /\ UNCHANGED <<dbVars, step, offset, chunks, answer, seen, always>>
  BY DEF Fetches
<1>2. PICK S : S = {p \in points : fileOf[p[1]] = Head(todo) /\ p[2] \in NeighbourIds(Head(todo))}
  OBVIOUS
<1>3. scrolled' = scrolled \o ById(S) \/ scrolled' = scrolled
  BY <1>2 DEF Fetches
<1>4. S \in SUBSET Points /\ S \subseteq points /\ S \subseteq seen
  BY <1>1, <1>2 DEF IInv, Typed, HistoryIsTrue
<1>5. scrolled' \in Seq(Points) /\ FetchedAreNeighbours'
  <2>1. CASE scrolled' = scrolled
    BY <1>1, <2>1, NeighboursStay DEF IInv, Typed, FetchedAreNeighbours, dbVars
  <2>2. CASE scrolled' = scrolled \o ById(S)
    <3>1. PICK t : t = ById(S)
      OBVIOUS
    <3>2. t \in Seq(S) /\ t \in Seq(Points) /\ \A i \in DOMAIN t : t[i] \in S
      <4>1. t \in Seq(S)
        BY <1>4, <3>1, ByIdOrders
      <4> QED
        BY <1>4, <4>1, SeqMonotonic
    <3>3. scrolled \in Seq(Points) /\ scrolled' = scrolled \o t
      BY <2>2, <3>1 DEF IInv, Typed
    <3>4. /\ scrolled' \in Seq(Points)
          /\ \A i \in DOMAIN scrolled : scrolled'[i] = scrolled[i]
          /\ \A i \in DOMAIN scrolled' : i \in DOMAIN scrolled \/
               (i - Len(scrolled) \in DOMAIN t /\ scrolled'[i] = t[i - Len(scrolled)])
      BY <3>2, <3>3, JoinedPoints
    <3>5. ASSUME NEW i \in DOMAIN scrolled'
          PROVE  /\ scrolled'[i] \in seen
                 /\ scrolled'[i][2] \in NeighbourIds(fileOf[scrolled'[i][1]])
      <4>1. CASE i \in DOMAIN scrolled
        BY <1>1, <3>4, <4>1 DEF IInv, FetchedAreNeighbours
      <4>2. CASE scrolled'[i] \in S
        BY <1>2, <1>4, <4>2
      <4> QED
        BY <3>2, <3>4, <4>1, <4>2
    <3> QED
      BY <1>1, <3>4, <3>5, NeighboursStay DEF FetchedAreNeighbours, dbVars
  <2> QED
    BY <1>3, <2>1, <2>2
<1>6. Typed' /\ StageIsClean' /\ HistoryIsTrue' /\ PagesSoFar' /\ FoundSomething'
  BY <1>1, <1>5 DEF IInv, Typed, StageIsClean, HistoryIsTrue, PagesSoFar, FoundSomething,
                    ChunkSet, Docs, Points, dbVars
<1>7. ChunksWereThere' /\ ContextIsSound' /\ CitationIsTheSource'
  BY <1>1, <1>6 DEF IInv, ChunksWereThere, Upload, ContextIsSound, CitationIsTheSource,
                    StageIsClean, dbVars
<1> QED
  BY <1>5, <1>6, <1>7 DEF IInv

\* x is the id before or behind id.
Beside(x, id) == x \in {id + 1} \cup {c \in {id - 1} : id > 0}

\* A context that begins with n winners and goes on with neighbours of theirs.
Mixed(context, n) ==
  \A i \in DOMAIN context :
    /\ Upload(context[i]) \in seen /\ context[i].file = fileOf[context[i].upload]
    /\ i <= n => ~context[i].neighbour
    /\ i > n => \E w \in 1 .. n : w \in DOMAIN context /\ context[w].file = context[i].file
                                  /\ Beside(context[i].id, context[w].id)

\* The context that is merged.
LEMMA ContextIsMixed ==
  ASSUME IInv, step = "fetch"
  PROVE  LET context == chunks \o [i \in DOMAIN scrolled |-> Chunk(scrolled[i], TRUE)]
         IN  /\ context \in Seq(ChunkSet) /\ Mixed(context, Len(chunks))
             /\ Len(chunks) \in Nat /\ (context = <<>> => chunks = <<>>)
<1> DEFINE c(i) == Chunk(scrolled[i], TRUE)
<1>1. PICK t : t = [i \in DOMAIN scrolled |-> c(i)]
  OBVIOUS
<1>2. PICK context : context = chunks \o t
  OBVIOUS
<1>3. chunks \in Seq(ChunkSet) /\ scrolled \in Seq(Points) /\ fileOf \in [Docs -> Files]
  BY DEF IInv, Typed
<1>4. \A i \in DOMAIN scrolled : scrolled[i] \in Points /\ c(i) \in ChunkSet
  <2> TAKE i \in DOMAIN scrolled
  <2>1. scrolled[i] \in Points /\ TRUE \in BOOLEAN
    BY <1>3
  <2> QED
    BY <1>3, <2>1, ChunkOfPoint
<1> HIDE DEF c
<1>5. t \in Seq(ChunkSet) /\ DOMAIN t = DOMAIN scrolled /\ \A i \in DOMAIN t : t[i] = c(i)
  <2>1. Len(scrolled) \in Nat /\ DOMAIN scrolled = 1 .. Len(scrolled)
    BY <1>3
  <2> QED
    BY <1>1, <1>4, <2>1
<1>6. PICK S : S = ChunkSet
  OBVIOUS
<1>7. /\ context \in Seq(S) /\ Len(chunks) \in Nat /\ Len(t) \in Nat
      /\ Len(context) = Len(chunks) + Len(t) /\ DOMAIN context = 1 .. Len(context)
      /\ DOMAIN chunks = 1 .. Len(chunks) /\ DOMAIN t = 1 .. Len(t)
      /\ \A i \in 1 .. Len(chunks) : context[i] = chunks[i]
      /\ \A i \in DOMAIN context : i > Len(chunks) =>
           i - Len(chunks) \in DOMAIN t /\ context[i] = t[i - Len(chunks)]
  <2>1. chunks \in Seq(S) /\ t \in Seq(S)
    BY <1>3, <1>5, <1>6
  <2> QED
    BY <1>2, <2>1
<1>8. context = <<>> => chunks = <<>>
  <2>1. context = <<>> => Len(context) = 0
    OBVIOUS
  <2>2. Len(context) = 0 => Len(chunks) = 0
    BY <1>7
  <2> QED
    BY <1>3, <2>1, <2>2, EmptySeq
<1>9. ASSUME NEW i \in DOMAIN context, i <= Len(chunks)
      PROVE  /\ Upload(context[i]) \in seen /\ context[i].file = fileOf[context[i].upload]
             /\ ~context[i].neighbour
  <2>1. i \in DOMAIN chunks /\ context[i] = chunks[i]
    BY <1>7, <1>9
  <2> QED
    BY <2>1 DEF IInv, ChunksWereThere
<1>10. ASSUME NEW i \in DOMAIN context, i > Len(chunks)
       PROVE  /\ Upload(context[i]) \in seen /\ context[i].file = fileOf[context[i].upload]
              /\ \E w \in 1 .. Len(chunks) : w \in DOMAIN context
                   /\ context[w].file = context[i].file /\ Beside(context[i].id, context[w].id)
  <2>1. PICK k \in DOMAIN scrolled : context[i] = Chunk(scrolled[k], TRUE)
    BY <1>5, <1>7, <1>10 DEF c
  <2>2. scrolled[k] \in seen /\ scrolled[k][2] \in NeighbourIds(fileOf[scrolled[k][1]])
    BY DEF IInv, FetchedAreNeighbours
  <2>3. /\ Upload(context[i]) \in seen /\ context[i].file = fileOf[context[i].upload]
        /\ context[i].file = fileOf[scrolled[k][1]] /\ context[i].id = scrolled[k][2]
    BY <1>3, <1>4, <2>1, <2>2, ChunkOfPoint, ZenonT(60)
  <2>4. PICK w \in DOMAIN chunks :
          /\ chunks[w].file = context[i].file
          /\ context[i].id \in {x - 1 : x \in {chunks[w].id} \ {0}} \cup {chunks[w].id + 1}
    BY <2>2, <2>3 DEF NeighbourIds
  <2>5. chunks[w].id \in Nat
    <3>1. chunks[w] \in ChunkSet
      BY <1>3
    <3> QED
      BY <3>1, Sizes DEF ChunkSet
  <2>6. Beside(context[i].id, chunks[w].id)
    BY <2>4, <2>5 DEF Beside
  <2>7. w \in 1 .. Len(chunks) /\ w \in DOMAIN context /\ context[w] = chunks[w]
    BY <1>7
  <2> QED
    BY <2>3, <2>4, <2>6, <2>7
<1>11. Mixed(context, Len(chunks))
  <2>1. \A i \in DOMAIN context : i \in Nat
    BY <1>7
  <2> QED
    BY <1>7, <1>9, <1>10, <2>1 DEF Mixed
<1> QED
  BY <1>1, <1>2, <1>6, <1>7, <1>8, <1>11 DEF c

\* Chunks of the turn, each once, the neighbours among them beside a winner.
Merged(merged) ==
  /\ \A i \in DOMAIN merged :
       Upload(merged[i]) \in seen /\ merged[i].file = fileOf[merged[i].upload]
  /\ \A i, j \in DOMAIN merged :
       merged[i].file = merged[j].file /\ merged[i].id = merged[j].id => i = j
  /\ \A i \in DOMAIN merged : merged[i].neighbour =>
       \E j \in DOMAIN merged :
         /\ ~merged[j].neighbour
         /\ merged[j].file = merged[i].file
         /\ Beside(merged[i].id, merged[j].id)
         /\ \/ merged[j].upload = merged[i].upload
            \/ \E d \in Docs : d # merged[i].upload /\ fileOf[d] = merged[i].file

\* What is kept of a context: its chunks, each once, and the first winner that
\* stands for each.
LEMMA MergedIsSound ==
  ASSUME NEW context \in Seq(ChunkSet), NEW n \in Nat, Mixed(context, n),
         NEW merged, merged = At(context, {i \in DOMAIN context : IsNew(context, i)}),
         fileOf \in [Docs -> Files]
  PROVE  merged \in Seq(ChunkSet) /\ Merged(merged) /\ (merged = <<>> => context = <<>>)
<1>1. PICK kept : kept = {i \in DOMAIN context : IsNew(context, i)}
  OBVIOUS
<1>2. kept \in SUBSET DOMAIN context /\ \A i \in kept : IsNew(context, i)
  BY <1>1
<1>3. merged \in Seq(ChunkSet) /\ Picks(merged, context, kept)
  BY <1>1, <1>2, AtPlaces
<1>4. PICK a \in [1 .. Len(merged) -> kept] :
        /\ \A i \in 1 .. Len(merged) : merged[i] = context[a[i]]
        /\ \A i, j \in 1 .. Len(merged) : i < j => a[i] < a[j]
        /\ \A x \in kept : \E i \in 1 .. Len(merged) : a[i] = x
  BY <1>3 DEF Picks
<1>5. /\ Len(merged) \in Nat /\ DOMAIN merged = 1 .. Len(merged)
      /\ Len(context) \in Nat /\ DOMAIN context = 1 .. Len(context)
  BY <1>3
<1>6. \A i \in DOMAIN merged :
        a[i] \in DOMAIN context /\ a[i] \in Nat \ {0} /\ merged[i] = context[a[i]]
  BY <1>2, <1>4, <1>5
<1>7. merged = <<>> => context = <<>>
  <2>1. SUFFICES ASSUME merged = <<>>, Len(context) # 0 PROVE FALSE
    BY EmptySeq
  <2>2. 1 \in DOMAIN context /\ IsNew(context, 1)
    BY <1>5, <2>1 DEF IsNew
  <2>3. 1 \in kept
    BY <1>1, <2>2
  <2>4. Len(merged) = 0
    BY <2>1
  <2> QED
    BY <1>4, <2>3, <2>4
<1>8. \A i \in DOMAIN merged :
        Upload(merged[i]) \in seen /\ merged[i].file = fileOf[merged[i].upload]
  BY <1>6 DEF Mixed
<1>9. ASSUME NEW i \in DOMAIN merged, NEW j \in DOMAIN merged, i < j
      PROVE  ~(merged[i].file = merged[j].file /\ merged[i].id = merged[j].id)
  <2>1. a[i] < a[j] /\ a[i] \in 1 .. a[j] - 1 /\ IsNew(context, a[j])
    <3>1. a[i] < a[j] /\ a[i] \in Nat \ {0} /\ a[j] \in Nat \ {0} /\ IsNew(context, a[j])
      BY <1>2, <1>4, <1>5, <1>6, <1>9
    <3> QED
      BY <3>1
  <2>2. <<context[a[i]].file, context[a[i]].id>> # <<context[a[j]].file, context[a[j]].id>>
    BY <2>1 DEF IsNew
  <2>3. merged[i] = context[a[i]] /\ merged[j] = context[a[j]]
    BY <1>6
  <2> QED
    BY <2>2, <2>3
<1>10. \A i, j \in DOMAIN merged :
         merged[i].file = merged[j].file /\ merged[i].id = merged[j].id => i = j
  <2> TAKE i, j \in DOMAIN merged
  <2>1. i < j \/ j < i \/ i = j
    BY <1>5
  <2> QED
    BY <1>9, <2>1
<1>11. ASSUME NEW i \in DOMAIN merged, merged[i].neighbour
       PROVE  \E j \in DOMAIN merged :
                /\ ~merged[j].neighbour
                /\ merged[j].file = merged[i].file
                /\ Beside(merged[i].id, merged[j].id)
                /\ \/ merged[j].upload = merged[i].upload
                   \/ \E d \in Docs : d # merged[i].upload /\ fileOf[d] = merged[i].file
  <2>1. a[i] > n
    <3>1. ~(a[i] <= n)
      BY <1>6, <1>11 DEF Mixed
    <3> QED
      BY <1>6, <3>1
  <2>2. PICK w \in 1 .. n : /\ w \in DOMAIN context /\ context[w].file = merged[i].file
                            /\ Beside(merged[i].id, context[w].id)
    <3>1. \E w \in 1 .. n : /\ w \in DOMAIN context /\ context[w].file = context[a[i]].file
                            /\ Beside(context[a[i]].id, context[w].id)
      BY <1>6, <2>1 DEF Mixed
    <3>2. context[a[i]] = merged[i]
      BY <1>6
    <3> QED
      BY <3>1, <3>2
  <2>3. PICK same : same = {k \in DOMAIN context : /\ context[k].file = context[w].file
                                                   /\ context[k].id = context[w].id}
    OBVIOUS
  <2>4. same \in SUBSET Nat /\ IsFiniteSet(same) /\ w \in same
    <3>1. same \in SUBSET (1 .. Len(context))
      BY <1>5, <2>3
    <3>2. IsFiniteSet(1 .. Len(context))
      BY <1>5, FS_Interval
    <3>3. IsFiniteSet(same)
      BY <3>1, <3>2, FS_Subset
    <3> QED
      BY <1>5, <2>2, <2>3, <3>1, <3>3
  <2>5. PICK first \in same : \A k \in same : first <= k
    BY <2>4, LeastIsThere
  <2>6. /\ first \in DOMAIN context /\ first \in Nat /\ first <= n
        /\ context[first].file = context[w].file /\ context[first].id = context[w].id
    <3>1. first <= w /\ w \in Nat /\ w <= n /\ first \in Nat
      BY <2>4, <2>5
    <3>2. first <= n
      BY <3>1
    <3> QED
      BY <2>3, <3>1, <3>2
  <2>7. IsNew(context, first)
    <3>1. SUFFICES ASSUME NEW k \in 1 .. first - 1,
                          context[k].file = context[first].file,
                          context[k].id = context[first].id
                   PROVE  FALSE
      BY DEF IsNew
    <3>2. k \in DOMAIN context /\ k \in Nat /\ k < first
      BY <1>5, <2>6
    <3>3. k \in same
      BY <2>3, <2>6, <3>1, <3>2
    <3> QED
      BY <2>5, <2>6, <3>2, <3>3
  <2>8. PICK j \in DOMAIN merged : a[j] = first
    <3>1. first \in kept
      BY <1>1, <2>6, <2>7
    <3> QED
      BY <1>4, <1>5, <3>1
  <2>9. /\ merged[j] = context[first] /\ ~merged[j].neighbour
        /\ merged[j].file = merged[i].file /\ Beside(merged[i].id, merged[j].id)
    BY <1>6, <2>2, <2>6, <2>8 DEF Mixed
  <2>10. merged[j].upload \in Docs /\ fileOf[merged[j].upload] = merged[i].file
    <3>1. merged[j] \in ChunkSet
      BY <1>3
    <3> QED
      BY <1>8, <2>9, <3>1 DEF ChunkSet
  <2> QED
    BY <2>9, <2>10
<1> QED
  BY <1>3, <1>7, <1>8, <1>10, <1>11 DEF Merged

LEMMA MergesStep ==
  ASSUME IInv, Merges
  PROVE  IInv'
<1>1. PICK context : context = chunks \o [i \in DOMAIN scrolled |-> Chunk(scrolled[i], TRUE)]
  OBVIOUS
<1>2. /\ step = "fetch" /\ step' = "answer"
      /\ chunks' = At(context, {i \in DOMAIN context : IsNew(context, i)})
      /\ UNCHANGED <<dbVars, offset, scrolled, todo, answer, seen, always>>
  BY <1>1 DEF Merges
<1>3. /\ context \in Seq(ChunkSet) /\ Mixed(context, Len(chunks)) /\ Len(chunks) \in Nat
      /\ context = <<>> => chunks = <<>>
  BY <1>1, <1>2, ContextIsMixed
<1>4. PICK merged : merged = chunks'
  OBVIOUS
<1>5. fileOf \in [Docs -> Files] /\ answer = None
  BY <1>2 DEF IInv, Typed, StageIsClean
<1>6. merged \in Seq(ChunkSet) /\ Merged(merged) /\ (merged = <<>> => context = <<>>)
  BY <1>2, <1>3, <1>4, <1>5, MergedIsSound
<1>7. merged = <<>> => always = {}
  BY <1>2, <1>3, <1>6 DEF IInv, FoundSomething
<1>8. Typed' /\ FoundSomething' /\ ChunksWereThere'
  BY <1>2, <1>4, <1>6, <1>7, ZenonT(60)
  DEF IInv, Typed, FoundSomething, ChunksWereThere, Merged, ChunkSet,
                                Docs, Points, Upload, dbVars
<1>9. StageIsClean' /\ HistoryIsTrue' /\ PagesSoFar' /\ FetchedAreNeighbours'
  BY <1>2, <1>5 DEF IInv, StageIsClean, HistoryIsTrue, PagesSoFar, FetchedAreNeighbours, dbVars
<1>10. ContextIsSound'
  <2>1. step' = "answer" /\ seen' = seen /\ fileOf' = fileOf /\ always' = always /\ chunks' = merged
    BY <1>2, <1>4 DEF dbVars
  <2> QED
    BY <1>6, <1>7, <2>1 DEF ContextIsSound, Merged, Upload, Beside, Docs
<1>11. CitationIsTheSource'
  BY <1>2, <1>5 DEF CitationIsTheSource
<1> QED
  BY <1>8, <1>9, <1>10, <1>11 DEF IInv

LEMMA AnswerParsedStep ==
  ASSUME IInv, AnswerParsed
  PROVE  IInv'
<1>1. /\ step = "answer" /\ step' = "answered"
      /\ UNCHANGED <<dbVars, offset, scrolled, chunks, todo, seen, always>>
  BY DEF AnswerParsed
<1>2. PICK meant \in Range(chunks) \cup {None}, id \in (0 .. LastChunk + 1) \cup {None} :
        /\ meant # None => id = meant.id
        /\ answer' = [meant |-> meant, id |-> id, source |-> SourceChunk(id),
                      reliable |-> Reliable(id)]
  BY DEF AnswerParsed
<1>3. PICK source : source = SourceChunk(id)
  OBVIOUS
<1>4. answer'.meant = meant /\ answer'.id = id /\ answer'.source = source
      /\ (answer'.reliable <=> Reliable(id))
  BY <1>2, <1>3
<1>5. /\ Len(chunks) \in Nat /\ DOMAIN chunks = 1 .. Len(chunks)
      /\ chunks # <<>> => 1 \in DOMAIN chunks
  <2>1. chunks \in Seq(ChunkSet)
    BY DEF IInv, Typed
  <2>2. /\ Len(chunks) \in Nat /\ DOMAIN chunks = 1 .. Len(chunks)
        /\ Len(chunks) = 0 => chunks = <<>>
    BY <2>1, EmptySeq
  <2> QED
    BY <2>2
<1>6. PICK having : having = {i \in DOMAIN chunks : chunks[i].id = id}
  OBVIOUS
<1>7. having \in SUBSET Nat /\ IsFiniteSet(having) /\ having \subseteq DOMAIN chunks
  <2>1. having \in SUBSET (1 .. Len(chunks))
    BY <1>5, <1>6
  <2>2. IsFiniteSet(1 .. Len(chunks))
    BY <1>5, FS_Interval
  <2>3. IsFiniteSet(having)
    BY <2>1, <2>2, FS_Subset
  <2> QED
    BY <1>5, <2>1, <2>3
<1>8. chunks # <<>> /\ having # {} =>
        Least(having) \in having /\ source = chunks[Least(having)]
  BY <1>3, <1>6, <1>7, LeastIsThere DEF SourceChunk
<1>9. chunks # <<>> /\ having = {} => source = chunks[1]
  BY <1>3, <1>6 DEF SourceChunk
<1>10. chunks # <<>> => \E i \in DOMAIN chunks : source = chunks[i]
  BY <1>5, <1>7, <1>8, <1>9
<1>11. ASSUME Reliable(id)
       PROVE  /\ source.id = id
              /\ \/ meant \in {None, source}
                 \/ \E i \in DOMAIN chunks : chunks[i].id = id /\ chunks[i] # source
  <2>1. having # {} /\ chunks # <<>>
    BY <1>6, <1>11 DEF Reliable
  <2>2. source.id = id
    BY <1>6, <1>8, <2>1
  <2>3. CASE meant # None
    <3>1. PICK k \in DOMAIN chunks : meant = chunks[k]
      BY <1>2, <2>3 DEF Range
    <3> QED
      BY <1>2, <2>2, <2>3, <3>1
  <2> QED
    BY <2>2, <2>3
<1>12. CitationIsTheSource'
  BY <1>1, <1>4, <1>10, <1>11 DEF CitationIsTheSource
<1>13. Typed' /\ StageIsClean' /\ HistoryIsTrue' /\ PagesSoFar' /\ FoundSomething'
  BY <1>1 DEF IInv, Typed, StageIsClean, HistoryIsTrue, PagesSoFar, FoundSomething,
              ChunkSet, Docs, Points, dbVars
<1>14. ChunksWereThere' /\ FetchedAreNeighbours' /\ ContextIsSound'
  BY <1>1 DEF IInv, ChunksWereThere, Upload, FetchedAreNeighbours, ContextIsSound, dbVars
<1> QED
  BY <1>12, <1>13, <1>14 DEF IInv

-----------------------------------------------------------------------------
(* The theorems.                                                           *)

LEMMA Initially == Init => IInv
<1> SUFFICES ASSUME Init PROVE IInv
  OBVIOUS
<1>1. /\ step = "idle" /\ scrolled = <<>> /\ chunks = <<>> /\ answer = None /\ offset = 0
      /\ DOMAIN chunks = {} /\ points = {} /\ seen = {} /\ fileOf \in [Docs -> Files]
  BY DEF Init
<1>2. Typed
  <2>1. <<>> \in Seq(Points) /\ <<>> \in Seq(ChunkSet)
    BY EmptySeq
  <2> QED
    BY <1>1, <2>1 DEF Typed
<1> QED
  BY <1>1, <1>2 DEF IInv, StageIsClean, HistoryIsTrue, PagesSoFar, ChunksWereThere,
                    FoundSomething, FetchedAreNeighbours, ContextIsSound, CitationIsTheSource

LEMMA Steps == IInv /\ [Next]_vars => IInv'
<1> SUFFICES ASSUME IInv, [Next]_vars PROVE IInv'
  OBVIOUS
<1>1. ASSUME UNCHANGED vars PROVE IInv'
  BY <1>1, Unread DEF vars, dbVars
<1>2. ASSUME ListStarts \/ QuestionStarts PROVE IInv'
  BY <1>2, BeginsStep DEF ListStarts, QuestionStarts
<1>3. ASSUME Next PROVE IInv'
  BY <1>2, <1>3, WriterStep, ScrollsStep, RetrievesStep, SelectsStep, ExpandStartsStep,
     FetchesStep, MergesStep, AnswerParsedStep, RequestEndsStep DEF Next
<1> QED
  BY <1>1, <1>3

\* The inductive invariant holds in every reachable state.
THEOREM Inductive == Spec => []IInv
BY Initially, Steps, PTL DEF Spec

\* At a listing's end, every chunk of a document that stayed is counted, and no
\* chunk is counted twice: the places of the list are mapped one to one to what was
\* there, and what stayed one to one to its places.
LEMMA ListingCounts ==
  ASSUME IInv
  PROVE  ListingIsExact
<1> SUFFICES ASSUME step = "listed", NEW d \in Docs
             PROVE  /\ ChunkCount(d) <= Cardinality({p \in seen : p[1] = d})
                    /\ \/ Len(scrolled) >= ScrollLimit
                       \/ ChunkCount(d) >= Cardinality({p \in always : p[1] = d})
  BY DEF ListingIsExact
<1> DEFINE A == {i \in DOMAIN scrolled : scrolled[i][1] = d}
           B == {p \in seen : p[1] = d}
           C == {p \in always : p[1] = d}
<1>1. /\ scrolled \in Seq(Points) /\ Len(scrolled) \in Nat /\ DOMAIN scrolled = 1 .. Len(scrolled)
      /\ \A i \in DOMAIN scrolled : scrolled[i] \in seen /\ Id(scrolled[i]) \in Nat
      /\ \A i, j \in DOMAIN scrolled : i < j => Id(scrolled[i]) < Id(scrolled[j])
  BY PointsTyped DEF IInv, Typed, PagesSoFar
<1>2. IsFiniteSet(A) /\ IsFiniteSet(B)
  <2>1. A \in SUBSET (1 .. Len(scrolled)) /\ B \in SUBSET Points
    BY <1>1 DEF IInv, Typed
  <2>2. IsFiniteSet(1 .. Len(scrolled))
    BY <1>1, FS_Interval
  <2> QED
    BY <2>1, <2>2, FS_Subset, FinitelyManyPoints
<1>3. \A i, j \in A : scrolled[i] = scrolled[j] => i = j
  BY <1>1
<1>4. Cardinality(A) <= Cardinality(B)
  <2> DEFINE f == [i \in A |-> scrolled[i]]
  <2>1. f \in Injection(A, B)
    BY <1>1, <1>3 DEF Injection, IsInjective
  <2> QED
    BY <1>2, <2>1, FS_Injection
<1>5. ASSUME ~(Len(scrolled) >= ScrollLimit) PROVE Cardinality(C) <= Cardinality(A)
  <2> DEFINE place(p) == CHOOSE i \in A : scrolled[i] = p
             g == [p \in C |-> place(p)]
  <2>1. \A p \in C : place(p) \in A /\ scrolled[place(p)] = p
    <3> TAKE p \in C
    <3>1. \E i \in A : scrolled[i] = p
      BY <1>5 DEF IInv, PagesSoFar
    <3> QED
      BY <3>1
  <2> HIDE DEF place, A, C
  <2>2. g \in Injection(C, A)
    BY <2>1 DEF Injection, IsInjective
  <2> QED
    BY <1>2, <2>2, FS_Injection
<1>6. Cardinality(A) \in Nat
  BY <1>2, FS_CardinalityType
<1>7. ASSUME ~(Len(scrolled) >= ScrollLimit) PROVE Cardinality(A) >= Cardinality(C)
  BY <1>5, <1>7
<1> QED
  BY <1>4, <1>7 DEF ChunkCount

\* Uploads and deletions between two pages neither hide nor double a chunk of a
\* document in the list (list_documents, _group_documents).
THEOREM ListingExact == Spec => []ListingIsExact
BY Inductive, ListingCounts, PTL

\* The context an answer is made from is of this turn, has no chunk twice, and
\* every neighbour in it has its winner (select_node, expand_node).
THEOREM ContextSound == Spec => []ContextIsSound
<1>1. IInv => ContextIsSound
  BY DEF IInv
<1> QED
  BY <1>1, Inductive, PTL

\* A citation that is called reliable is the chunk the model meant, unless two
\* chunks share its id (parse_rag_answer).
THEOREM CitationTrue == Spec => []CitationIsTheSource
<1>1. IInv => CitationIsTheSource
  BY DEF IInv
<1> QED
  BY <1>1, Inductive, PTL
=============================================================================
