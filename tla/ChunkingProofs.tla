--------------------------- MODULE ChunkingProofs ---------------------------
(***************************************************************************)
(* Proofs about Chunking and FixedWindows, for every text and every size.  *)
(*                                                                         *)
(* Fixed-size: the windows cover the text, and each is filed under a place *)
(* that has its first characters. Windows (Advancing) are ordered, each    *)
(* begins before the end of the last by exactly the overlap, and what lies *)
(* before the end of the last is covered (CoveredSoFar). The search always *)
(* finds something, because it starts no later than the window it looks    *)
(* for (SearchIsBehind).                                                   *)
(*                                                                         *)
(* Paragraph-aware: only the sentence trim loses anything (LossIsTrimmed). *)
(* At every turn of the loops (ParagraphInv) the chunks, the chunk being   *)
(* merged, the pieces, the rest of the block and the parts follow one      *)
(* another in the text, and every character that is not white space is in  *)
(* one of them.                                                            *)
(***************************************************************************)
EXTENDS Chunking, FiniteSetTheorems, SequenceTheorems, WellFoundedInduction, TLAPS

WindowSet == [from : Nat, to : Nat]

Typed ==
  /\ text \in Seq(Letters) /\ text # <<>>
  /\ loop \in {"windows", "offsets", "none"}
  /\ pos \in Nat
  /\ chunks \in Seq(WindowSet)
  /\ searchFrom \in Nat
  /\ starts \in Seq(Nat)

\* Windows lie in the text, have a size, and go on.
Advancing ==
  \A i \in DOMAIN chunks :
    /\ chunks[i].from < chunks[i].to /\ chunks[i].to <= chunks[i].from + ChunkSize
    /\ chunks[i].to <= Len(text)
    /\ i + 1 \in DOMAIN chunks => /\ chunks[i].to = chunks[i + 1].from + ChunkOverlap
                                  /\ chunks[i].to = chunks[i].from + ChunkSize
    /\ \A j \in DOMAIN chunks :
         i < j => chunks[i].from < chunks[j].from /\ chunks[i].to < chunks[j].to

\* The end of the last window.
Reached == IF chunks = <<>> THEN 0 ELSE chunks[Len(chunks)].to

CoveredSoFar == \A c \in Nat : c < Reached => \E i \in DOMAIN chunks : c \in In(chunks[i])

\* While windows are cut, the last one is full and ends before the text does.
Cutting ==
  loop = "windows" =>
    /\ pos < Len(text) /\ Len(chunks) <= pos
    /\ starts = <<>> /\ searchFrom = 0
    /\ IF chunks = <<>> THEN pos = 0 ELSE Reached = pos + ChunkOverlap
    /\ \A i \in DOMAIN chunks :
         /\ chunks[i].from < pos /\ chunks[i].to <= pos + ChunkOverlap
         /\ i = Len(chunks) => chunks[i].to = chunks[i].from + ChunkSize
    /\ Reached < Len(text)

\* Once they are cut, the last one ends with the text.
IsCut == loop # "windows" => chunks # <<>> /\ Reached = Len(text) /\ Len(chunks) <= Len(text)

\* The next search starts no later than the window that it looks for.
SearchIsBehind ==
  /\ Len(starts) <= Len(chunks)
  /\ \A i \in DOMAIN starts : starts[i] < searchFrom
  /\ loop = "offsets" => /\ Len(starts) < Len(chunks)
                         /\ searchFrom <= chunks[Len(starts) + 1].from

IInv ==
  /\ Typed /\ Advancing /\ CoveredSoFar /\ Cutting /\ IsCut /\ SearchIsBehind
  /\ OffsetsNeverBehind

-----------------------------------------------------------------------------
LEMMA Sizes ==
  /\ ChunkSize \in Nat \ {0} /\ KeyLength \in Nat \ {0} /\ MaxLen \in Nat \ {0}
  /\ ChunkOverlap \in Nat /\ ChunkOverlap < ChunkSize
BY WindowsAdvance

\* The smallest number of a set.
LEMMA LeastIsThere ==
  ASSUME NEW S \in SUBSET Nat, S # {}
  PROVE  Least(S) \in S /\ \A j \in S : Least(S) <= j
<1>1. PICK x \in S : \A y \in S : ~(<<y, x>> \in OpToRel(<, Nat))
  BY NatLessThanWellFounded, WFMin
<1>2. \A y \in S : x <= y
  <2> TAKE y \in S
  <2>1. x \in Nat /\ y \in Nat /\ ~(y < x)
    BY <1>1 DEF OpToRel
  <2> QED
    BY <2>1
<1> QED
  BY <1>2 DEF Least

\* A sequence and one more.
LEMMA Appended ==
  ASSUME NEW S, NEW s \in Seq(S), NEW x \in S
  PROVE  /\ Append(s, x) \in Seq(S) /\ Len(s) \in Nat /\ Len(Append(s, x)) = Len(s) + 1
         /\ DOMAIN s = 1 .. Len(s) /\ DOMAIN Append(s, x) = 1 .. Len(s) + 1
         /\ \A i \in 1 .. Len(s) : Append(s, x)[i] = s[i]
         /\ Append(s, x)[Len(s) + 1] = x /\ Append(s, x) # <<>>
  OBVIOUS

LEMMA Initially == Init => IInv
<1> SUFFICES ASSUME Init PROVE IInv
  OBVIOUS
<1>1. text \in Seq(Letters) /\ text # <<>> /\ Len(text) \in Nat \ {0}
  <2>1. PICK n \in 1 .. MaxLen : text \in [1 .. n -> Letters]
    BY DEF Init
  <2>2. n \in Nat \ {0}
    BY Sizes
  <2> QED
    BY <2>1, <2>2
<1>2. /\ loop = "windows" /\ pos = 0 /\ chunks = <<>> /\ searchFrom = 0 /\ starts = <<>>
      /\ DOMAIN chunks = {} /\ DOMAIN starts = {} /\ Len(chunks) = 0 /\ Len(starts) = 0
  BY DEF Init
<1>3. Typed
  <2>1. <<>> \in Seq(WindowSet) /\ <<>> \in Seq(Nat)
    BY EmptySeq
  <2> QED
    BY <1>1, <1>2, <2>1 DEF Typed
<1>4. Advancing /\ CoveredSoFar /\ Cutting /\ IsCut
  BY <1>1, <1>2 DEF Advancing, CoveredSoFar, Cutting, IsCut, Reached
<1>5. SearchIsBehind /\ OffsetsNeverBehind
  BY <1>2 DEF SearchIsBehind, OffsetsNeverBehind
<1> QED
  BY <1>3, <1>4, <1>5 DEF IInv

\* One window more.
LEMMA TakesWindowStep ==
  ASSUME IInv, TakesWindow
  PROVE  IInv'
<1>1. PICK end : end = Min2(pos + ChunkSize, Len(text))
  OBVIOUS
<1>2. /\ loop = "windows" /\ pos < Len(text)
      /\ chunks' = Append(chunks, [from |-> pos, to |-> end])
      /\ end >= Len(text) => loop' = "offsets" /\ pos' = pos
      /\ ~(end >= Len(text)) => pos' = end - ChunkOverlap /\ loop' = loop
      /\ text' = text /\ searchFrom' = searchFrom /\ starts' = starts
  BY <1>1 DEF TakesWindow, NextPos
<1>3. /\ text \in Seq(Letters) /\ text # <<>> /\ Len(text) \in Nat /\ pos \in Nat
      /\ chunks \in Seq(WindowSet)
  BY DEF IInv, Typed
<1>4. /\ end \in Nat /\ pos < end /\ end <= Len(text) /\ end <= pos + ChunkSize
      /\ ~(end >= Len(text)) => end = pos + ChunkSize
  BY <1>1, <1>2, <1>3, Sizes DEF Min2
<1>5. PICK w : w = [from |-> pos, to |-> end]
  OBVIOUS
<1>6. w \in WindowSet /\ w.from = pos /\ w.to = end
  BY <1>3, <1>4, <1>5 DEF WindowSet
<1>7. PICK n : n = Len(chunks)
  OBVIOUS
<1>8. /\ chunks' \in Seq(WindowSet) /\ n \in Nat /\ Len(chunks') = n + 1
      /\ DOMAIN chunks = 1 .. n /\ DOMAIN chunks' = 1 .. n + 1
      /\ \A i \in 1 .. n : chunks'[i] = chunks[i]
      /\ chunks'[n + 1] = w /\ chunks' # <<>>
  <2>1. chunks' = Append(chunks, w)
    BY <1>2, <1>5
  <2> QED
    BY <1>3, <1>6, <1>7, <2>1, Appended
<1>9. \A i \in 1 .. n : chunks[i].from \in Nat /\ chunks[i].to \in Nat
  <2> TAKE i \in 1 .. n
  <2>1. chunks[i] \in WindowSet
    BY <1>3, <1>8
  <2> QED
    BY <2>1 DEF WindowSet
<1>10. /\ n <= pos /\ starts = <<>> /\ searchFrom = 0
       /\ n = 0 => pos = 0
       /\ n # 0 => chunks[n].to = pos + ChunkOverlap /\ chunks[n].to = chunks[n].from + ChunkSize
       /\ \A i \in 1 .. n : chunks[i].from < pos /\ chunks[i].to <= pos + ChunkOverlap
       /\ \A i \in 1 .. n : chunks[i].to < Len(text)
  <2>1. n = 0 <=> chunks = <<>>
    BY <1>3, <1>7, EmptySeq
  <2>2. /\ n <= pos /\ starts = <<>> /\ searchFrom = 0
        /\ n = 0 => pos = 0
        /\ n # 0 => chunks[n].to = pos + ChunkOverlap /\ n \in 1 .. n
        /\ Reached < Len(text)
        /\ \A i \in 1 .. n : /\ chunks[i].from < pos /\ chunks[i].to <= pos + ChunkOverlap
                             /\ i = n => chunks[i].to = chunks[i].from + ChunkSize
    BY <1>2, <1>7, <1>8, <2>1 DEF IInv, Cutting, Reached
  <2>3. n # 0 => pos + ChunkOverlap < Len(text)
    BY <1>7, <2>1, <2>2 DEF Reached
  <2>4. \A i \in 1 .. n : chunks[i].to < Len(text)
    <3> TAKE i \in 1 .. n
    <3>1. n # 0
      BY <1>8
    <3> QED
      BY <1>3, <1>9, <2>2, <2>3, <3>1, Sizes, SMTT(60)
  <2> QED
    BY <2>2, <2>4
<1>11. \A i \in 1 .. n : chunks[i].from < w.from /\ chunks[i].to < w.to
  <2> TAKE i \in 1 .. n
  <2>1. /\ chunks[i].from < pos /\ chunks[i].to <= pos + ChunkOverlap /\ chunks[i].to < Len(text)
        /\ chunks[i].to \in Nat
    BY <1>9, <1>10
  <2>2. chunks[i].to < end
    BY <1>1, <1>3, <2>1, Sizes DEF Min2
  <2> QED
    BY <1>6, <2>1, <2>2
<1>12. Advancing'
  <2>1. ASSUME NEW i \in 1 .. n + 1
        PROVE  /\ chunks'[i].from < chunks'[i].to /\ chunks'[i].to <= chunks'[i].from + ChunkSize
               /\ chunks'[i].to <= Len(text)
    <3>1. CASE i = n + 1
      BY <1>4, <1>6, <1>8, <3>1
    <3>2. CASE i \in 1 .. n
      BY <1>8, <3>2 DEF IInv, Advancing
    <3> QED
      BY <1>8, <3>1, <3>2
  <2>2. ASSUME NEW i \in 1 .. n + 1, i + 1 \in 1 .. n + 1
        PROVE  /\ chunks'[i].to = chunks'[i + 1].from + ChunkOverlap
               /\ chunks'[i].to = chunks'[i].from + ChunkSize
    <3>1. i \in 1 .. n
      BY <1>8, <2>2
    <3>2. CASE i = n
      BY <1>6, <1>8, <1>10, <3>1, <3>2
    <3>3. CASE i # n
      <4>1. i + 1 \in 1 .. n
        BY <1>8, <3>1, <3>3
      <4> QED
        BY <1>8, <3>1, <4>1 DEF IInv, Advancing
    <3> QED
      BY <3>2, <3>3
  <2>3. ASSUME NEW i \in 1 .. n + 1, NEW j \in 1 .. n + 1, i < j
        PROVE  chunks'[i].from < chunks'[j].from /\ chunks'[i].to < chunks'[j].to
    <3>1. i \in 1 .. n
      BY <1>8, <2>3
    <3>2. CASE j = n + 1
      BY <1>8, <1>11, <3>1, <3>2
    <3>3. CASE j \in 1 .. n
      BY <1>8, <2>3, <3>1, <3>3 DEF IInv, Advancing
    <3> QED
      BY <1>8, <3>2, <3>3
  <2> QED
    BY <1>2, <1>8, <2>1, <2>2, <2>3, SMTT(60) DEF Advancing
<1>13. Reached' = end
  BY <1>6, <1>8 DEF Reached
<1>14. CoveredSoFar'
  <2>1. ASSUME NEW c \in Nat, c < end
        PROVE  \E i \in 1 .. n + 1 : c \in In(chunks'[i])
    <3>1. CASE c >= pos
      <4>1. c \in In(w)
        BY <1>3, <1>4, <1>6, <2>1, <3>1 DEF In
      <4>2. n + 1 \in 1 .. n + 1
        BY <1>8
      <4> QED
        BY <1>8, <4>1, <4>2
    <3>2. CASE c < pos
      <4>1. n # 0 /\ chunks # <<>>
        BY <1>3, <1>7, <1>10, <3>2
      <4>2. c < Reached
        BY <1>3, <1>7, <1>10, <3>2, <4>1, Sizes DEF Reached
      <4>3. PICK i \in 1 .. n : c \in In(chunks[i])
        BY <1>8, <4>2 DEF IInv, CoveredSoFar
      <4>4. i \in 1 .. n + 1 /\ chunks'[i] = chunks[i]
        BY <1>8
      <4> QED
        BY <4>3, <4>4
    <3> QED
      BY <1>3, <3>1, <3>2
  <2> QED
    BY <1>8, <1>13, <2>1 DEF CoveredSoFar, In
<1>15. CASE end >= Len(text)
  <2>1. end = Len(text) /\ loop' = "offsets" /\ pos' = pos
    BY <1>2, <1>3, <1>4, <1>15
  <2>2. Cutting' /\ IsCut'
    <3>1. n + 1 <= Len(text)
      BY <1>2, <1>3, <1>8, <1>10
    <3> QED
      BY <1>2, <1>8, <1>13, <2>1, <3>1 DEF Cutting, IsCut
  <2>3. Len(starts') = 0 /\ DOMAIN starts' = {} /\ searchFrom' = 0
    BY <1>2, <1>10
  <2>4. SearchIsBehind' /\ OffsetsNeverBehind'
    <3>1. chunks'[1].from \in Nat /\ 1 \in DOMAIN chunks'
      <4>1. chunks'[1] \in WindowSet /\ 1 \in DOMAIN chunks'
        BY <1>8
      <4> QED
        BY <4>1 DEF WindowSet
    <3>2. 0 <= n + 1 /\ 0 < n + 1 /\ 0 <= chunks'[1].from /\ 0 + 1 = 1
      BY <1>8, <3>1
    <3> QED
      BY <1>8, <2>3, <3>2 DEF SearchIsBehind, OffsetsNeverBehind
  <2>5. Typed'
    BY <1>2, <1>8, <2>1 DEF IInv, Typed
  <2> QED
    BY <1>12, <1>14, <2>2, <2>4, <2>5 DEF IInv
<1>16. CASE ~(end >= Len(text))
  <2>1. /\ end = pos + ChunkSize /\ loop' = "windows" /\ pos' = end - ChunkOverlap
        /\ end < Len(text)
    BY <1>2, <1>3, <1>4, <1>16
  <2>2. pos' \in Nat /\ pos < pos' /\ pos' + ChunkOverlap = end /\ pos' < Len(text)
    BY <1>3, <2>1, Sizes
  <2>3. Cutting'
    <3>1. n + 1 <= pos'
      BY <1>3, <1>8, <1>10, <2>2
    <3>2. ASSUME NEW i \in 1 .. n + 1
          PROVE  /\ chunks'[i].from < pos' /\ chunks'[i].to <= pos' + ChunkOverlap
                 /\ i = n + 1 => chunks'[i].to = chunks'[i].from + ChunkSize
      <4>1. CASE i = n + 1
        BY <1>3, <1>4, <1>6, <1>8, <2>1, <2>2, <4>1
      <4>2. CASE i \in 1 .. n
        <5>1. i # n + 1
          BY <1>8, <4>2
        <5> QED
          BY <1>3, <1>4, <1>6, <1>8, <1>9, <1>11, <2>2, <4>2, <5>1
      <4> QED
        BY <1>8, <4>1, <4>2
    <3> QED
      BY <1>2, <1>8, <1>10, <1>13, <2>1, <2>2, <3>1, <3>2 DEF Cutting
  <2>4. IsCut' /\ SearchIsBehind' /\ OffsetsNeverBehind'
    <3>1. Len(starts') = 0 /\ DOMAIN starts' = {} /\ 0 <= n + 1
      BY <1>2, <1>8, <1>10
    <3> QED
      BY <1>8, <2>1, <3>1 DEF IsCut, SearchIsBehind, OffsetsNeverBehind
  <2>5. Typed'
    BY <1>2, <1>8, <2>1, <2>2 DEF IInv, Typed
  <2> QED
    BY <1>12, <1>14, <2>3, <2>4, <2>5 DEF IInv
<1> QED
  BY <1>15, <1>16

LEMMA Successor ==
  ASSUME NEW n \in Nat, NEW k \in Nat, k + 1 <= n, k + 1 # n
  PROVE  k + 1 < n /\ (k + 1) + 1 \in 1 .. n /\ k + 1 < (k + 1) + 1
OBVIOUS

\* Where one window is filed.
LEMMA FindsOffsetStep ==
  ASSUME IInv, FindsOffset
  PROVE  IInv'
<1>1. PICK m : m = Len(starts)
  OBVIOUS
<1>2. PICK w : w = chunks[m + 1]
  OBVIOUS
<1>3. PICK found : found = {p \in searchFrom .. Len(text) : Matches(w, p)}
  OBVIOUS
<1>4. PICK start : start = IF found = {} THEN searchFrom ELSE Least(found)
  OBVIOUS
<1>5. /\ loop = "offsets" /\ starts' = Append(starts, start) /\ searchFrom' = start + 1
      /\ loop' = IF Len(starts') = Len(chunks) THEN "none" ELSE "offsets"
      /\ text' = text /\ pos' = pos /\ chunks' = chunks
  BY <1>1, <1>2, <1>3, <1>4 DEF FindsOffset, SearchNext
<1>6. /\ Len(text) \in Nat /\ searchFrom \in Nat /\ starts \in Seq(Nat) /\ m \in Nat
      /\ chunks \in Seq(WindowSet) /\ Len(chunks) \in Nat /\ DOMAIN chunks = 1 .. Len(chunks)
  BY <1>1 DEF IInv, Typed
<1>7. m < Len(chunks) /\ m + 1 \in DOMAIN chunks /\ searchFrom <= w.from
  <2>1. m < Len(chunks) /\ searchFrom <= w.from
    BY <1>1, <1>2, <1>5 DEF IInv, SearchIsBehind
  <2>2. m + 1 \in 1 .. Len(chunks)
    BY <1>6, <2>1
  <2> QED
    BY <1>6, <2>1, <2>2
<1>8. w.from \in Nat /\ w.to \in Nat /\ w.from < w.to /\ w.to <= Len(text)
  <2>1. w \in WindowSet
    BY <1>2, <1>6, <1>7
  <2> QED
    BY <1>2, <1>7, <2>1 DEF WindowSet, IInv, Advancing
<1>9. w.from \in found
  <2>1. w.from \in searchFrom .. Len(text)
    BY <1>6, <1>7, <1>8
  <2>2. \A i \in 1 .. Min2(KeyLength, w.to - w.from) : w.from + i <= Len(text)
    BY <1>6, <1>8, Sizes DEF Min2
  <2> QED
    BY <1>3, <2>1, <2>2 DEF Matches
<1>10. /\ start \in found /\ start \in Nat /\ start <= w.from /\ searchFrom <= start
       /\ Matches(w, start)
  <2>1. found \in SUBSET Nat
    BY <1>3, <1>6
  <2>2. start \in found /\ start <= w.from
    BY <1>4, <1>9, <2>1, LeastIsThere
  <2> QED
    BY <1>3, <1>6, <2>1, <2>2
<1>11. /\ starts' \in Seq(Nat) /\ Len(starts') = m + 1
       /\ DOMAIN starts = 1 .. m /\ DOMAIN starts' = 1 .. m + 1
       /\ \A i \in 1 .. m : starts'[i] = starts[i]
       /\ starts'[m + 1] = start
  <2>1. PICK s : s = starts
    BY Zenon
  <2>2. s \in Seq(Nat) /\ Len(s) = m /\ starts' = Append(s, start)
    BY <1>1, <1>5, <1>6, <2>1, Zenon
  <2>3. /\ Append(s, start) \in Seq(Nat) /\ Len(Append(s, start)) = Len(s) + 1
        /\ DOMAIN s = 1 .. Len(s) /\ DOMAIN Append(s, start) = 1 .. Len(s) + 1
        /\ \A i \in 1 .. Len(s) : Append(s, start)[i] = s[i]
        /\ Append(s, start)[Len(s) + 1] = start
    BY <1>10, <2>2, Appended
  <2> QED
    BY <2>1, <2>2, <2>3
<1>12. \A i \in 1 .. m : starts[i] < searchFrom /\ starts[i] \in Nat
  <2> TAKE i \in 1 .. m
  <2>1. i \in DOMAIN starts
    BY <1>11
  <2>2. starts[i] \in Nat
    BY <1>6, <2>1
  <2> QED
    BY <2>1, <2>2 DEF IInv, SearchIsBehind
<1>13. \A v, p : Matches(v, p)' = Matches(v, p)
  BY <1>5 DEF Matches
<1>14. OffsetsNeverBehind'
  <2>1. ASSUME NEW i \in 1 .. m + 1
        PROVE  /\ Matches(chunks[i], starts'[i]) /\ starts'[i] <= chunks[i].from
               /\ \A j \in 1 .. i - 1 : starts'[j] < starts'[i]
    <3>1. CASE i = m + 1
      <4>1. \A j \in 1 .. i - 1 : starts'[j] < start
        <5> TAKE j \in 1 .. i - 1
        <5>1. j \in 1 .. m
          BY <1>6, <3>1
        <5> QED
          BY <1>6, <1>10, <1>11, <1>12, <5>1
      <4> QED
        BY <1>2, <1>10, <1>11, <3>1, <4>1
    <3>2. CASE i \in 1 .. m
      <4>1. /\ Matches(chunks[i], starts[i]) /\ starts[i] <= chunks[i].from
            /\ \A j \in 1 .. i - 1 : starts[j] < starts[i]
        BY <1>11, <3>2 DEF IInv, OffsetsNeverBehind
      <4>2. \A j \in 1 .. i - 1 : j \in 1 .. m
        BY <1>6, <3>2
      <4> QED
        BY <1>11, <3>2, <4>1, <4>2
    <3> QED
      BY <1>6, <3>1, <3>2
  <2> QED
    BY <1>5, <1>11, <1>13, <2>1 DEF OffsetsNeverBehind
<1>15. SearchIsBehind'
  <2>1. m + 1 <= Len(chunks) /\ Len(starts') <= Len(chunks')
    <3>1. m + 1 <= Len(chunks)
      BY <1>6, <1>7
    <3> QED
      BY <1>5, <1>11, <3>1
  <2>2. ASSUME NEW i \in 1 .. m + 1 PROVE starts'[i] < searchFrom'
    <3>1. CASE i = m + 1
      BY <1>5, <1>10, <1>11, <3>1
    <3>2. CASE i \in 1 .. m
      <4>1. starts'[i] = starts[i] /\ starts[i] < searchFrom /\ starts[i] \in Nat
        BY <1>11, <1>12, <3>2
      <4>2. starts[i] < start + 1
        BY <1>6, <1>10, <4>1
      <4> QED
        BY <1>5, <4>1, <4>2
    <3> QED
      BY <1>6, <3>1, <3>2
  <2>3. ASSUME loop' = "offsets"
        PROVE  m + 1 < Len(chunks) /\ searchFrom' <= chunks[(m + 1) + 1].from
    <3>1. m + 1 < Len(chunks) /\ (m + 1) + 1 \in DOMAIN chunks /\ m + 1 < (m + 1) + 1
      <4>1. m + 1 # Len(chunks)
        BY <1>5, <1>11, <2>3
      <4>2. m + 1 < Len(chunks) /\ (m + 1) + 1 \in 1 .. Len(chunks) /\ m + 1 < (m + 1) + 1
        <5>1. Len(chunks) \in Nat /\ m \in Nat /\ m + 1 <= Len(chunks)
          BY <1>6, <2>1
        <5> QED
          BY <4>1, <5>1, Successor
      <4> QED
        BY <1>6, <4>2
    <3>2. w.from < chunks[(m + 1) + 1].from
      BY <1>2, <1>7, <3>1 DEF IInv, Advancing
    <3>3. chunks[(m + 1) + 1].from \in Nat
      <4>1. chunks[(m + 1) + 1] \in WindowSet
        BY <1>6, <3>1
      <4> QED
        BY <4>1 DEF WindowSet
    <3> QED
      BY <1>5, <1>8, <1>10, <3>1, <3>2, <3>3
  <2> QED
    BY <1>5, <1>11, <2>1, <2>2, <2>3 DEF SearchIsBehind
<1>16. loop' \in {"offsets", "none"} /\ loop' # "windows" /\ searchFrom' \in Nat
  BY <1>5, <1>10
<1>17. Typed' /\ Advancing' /\ CoveredSoFar' /\ Cutting' /\ IsCut'
  BY <1>5, <1>11, <1>16 DEF IInv, Typed, Advancing, CoveredSoFar, In, Cutting, IsCut, Reached
<1> QED
  BY <1>14, <1>15, <1>17 DEF IInv

LEMMA Steps == IInv /\ [Next]_vars => IInv'
<1> SUFFICES ASSUME IInv, [Next]_vars PROVE IInv'
  OBVIOUS
<1>1. ASSUME UNCHANGED vars PROVE IInv'
  <2>1. \A w, p : Matches(w, p)' = Matches(w, p)
    BY <1>1 DEF vars, Matches
  <2> QED
    BY <1>1, <2>1 DEF vars, IInv, Typed, Advancing, CoveredSoFar, In, Reached, Cutting, IsCut,
                      SearchIsBehind, OffsetsNeverBehind
<1> QED
  BY <1>1, TakesWindowStep, FindsOffsetStep DEF Next

\* The inductive invariant holds in every reachable state.
THEOREM Inductive == Spec => []IInv
BY Initially, Steps, PTL DEF Spec

\* How many numbers there are from a to b.
LEMMA Span ==
  ASSUME NEW a \in Nat, NEW b \in Nat, a <= b
  PROVE  Cardinality(a .. b - 1) = b - a
<1>1. CASE a < b
  <2>1. b - 1 \in Nat /\ a <= b - 1 /\ (b - 1) - a + 1 = b - a
    BY <1>1
  <2> QED
    BY <2>1, FS_Interval
<1>2. CASE a = b
  <2>1. a .. b - 1 = {} /\ b - a = 0
    BY <1>2
  <2> QED
    BY <2>1, FS_EmptySet
<1> QED
  BY <1>1, <1>2

\* What the windows add up to when they are cut.
LEMMA CutCovers ==
  ASSUME IInv
  PROVE  WindowsCover
<1>1. /\ Len(text) \in Nat /\ chunks \in Seq(WindowSet) /\ Len(chunks) \in Nat
      /\ DOMAIN chunks = 1 .. Len(chunks) /\ pos \in Nat
  BY DEF IInv, Typed
<1>2. Len(chunks) <= Len(text)
  BY <1>1 DEF IInv, Cutting, IsCut
<1>3. SUFFICES ASSUME loop # "windows"
               PROVE  /\ UNION {In(chunks[i]) : i \in DOMAIN chunks} = 0 .. Len(text) - 1
                      /\ \A i \in DOMAIN chunks : Cardinality(In(chunks[i])) \in 1 .. ChunkSize
                      /\ \A i \in DOMAIN chunks : i + 1 \in DOMAIN chunks =>
                           /\ Cardinality(In(chunks[i]) \cap In(chunks[i + 1])) = ChunkOverlap
                           /\ \E c \in In(chunks[i + 1]) : \A j \in 1 .. i : c \notin In(chunks[j])
  BY <1>2 DEF WindowsCover
<1>4. \A i \in DOMAIN chunks :
        /\ chunks[i].from \in Nat /\ chunks[i].to \in Nat /\ chunks[i].from < chunks[i].to
        /\ chunks[i].to <= chunks[i].from + ChunkSize /\ chunks[i].to <= Len(text)
  <2> TAKE i \in DOMAIN chunks
  <2>1. chunks[i] \in WindowSet
    BY <1>1
  <2> QED
    BY <2>1 DEF WindowSet, IInv, Advancing
<1>5. UNION {In(chunks[i]) : i \in DOMAIN chunks} = 0 .. Len(text) - 1
  <2>1. ASSUME NEW i \in DOMAIN chunks, NEW c \in In(chunks[i]) PROVE c \in 0 .. Len(text) - 1
    BY <1>1, <1>4, <2>1 DEF In
  <2>2. ASSUME NEW c \in 0 .. Len(text) - 1 PROVE \E i \in DOMAIN chunks : c \in In(chunks[i])
    <3>1. c \in Nat /\ c < Len(text) /\ Reached = Len(text)
      BY <1>1, <1>3 DEF IInv, IsCut
    <3> QED
      BY <3>1 DEF IInv, CoveredSoFar
  <2> QED
    BY <2>1, <2>2
<1>6. ASSUME NEW i \in DOMAIN chunks PROVE Cardinality(In(chunks[i])) \in 1 .. ChunkSize
  <2>1. Cardinality(In(chunks[i])) = chunks[i].to - chunks[i].from
    BY <1>4, Span DEF In
  <2> QED
    BY <1>4, <2>1, Sizes
<1>7. ASSUME NEW i \in DOMAIN chunks, i + 1 \in DOMAIN chunks
      PROVE  /\ Cardinality(In(chunks[i]) \cap In(chunks[i + 1])) = ChunkOverlap
             /\ \E c \in In(chunks[i + 1]) : \A j \in 1 .. i : c \notin In(chunks[j])
  <2>1. PICK a, b, c, d : /\ a = chunks[i].from /\ b = chunks[i].to
                          /\ c = chunks[i + 1].from /\ d = chunks[i + 1].to
    OBVIOUS
  <2>2. /\ a \in Nat /\ b \in Nat /\ c \in Nat /\ d \in Nat /\ a < b /\ c < d /\ a < c /\ b < d
        /\ b = c + ChunkOverlap
    <3>1. i < i + 1
      BY <1>1
    <3> QED
      BY <1>4, <1>7, <2>1, <3>1 DEF IInv, Advancing
  <2>3. In(chunks[i]) = a .. b - 1 /\ In(chunks[i + 1]) = c .. d - 1
    BY <2>1 DEF In
  <2>4. (a .. b - 1) \cap (c .. d - 1) = c .. b - 1
    BY <2>2
  <2>5. Cardinality(c .. b - 1) = ChunkOverlap
    <3>1. c <= b /\ b - c = ChunkOverlap
      BY <2>2, Sizes
    <3> QED
      BY <2>2, <3>1, Span
  <2>6. b \in c .. d - 1
    BY <2>2, Sizes
  <2>7. ASSUME NEW j \in 1 .. i PROVE b \notin In(chunks[j])
    <3>1. j \in DOMAIN chunks /\ (j < i \/ j = i)
      BY <1>1
    <3>2. chunks[j].to <= b /\ chunks[j].to \in Nat /\ chunks[j].from \in Nat
      <4>1. chunks[j].to <= chunks[i].to
        <5>1. j < i => chunks[j].to < chunks[i].to
          BY <3>1 DEF IInv, Advancing
        <5> QED
          BY <1>4, <3>1, <5>1
      <4> QED
        BY <1>4, <2>1, <3>1, <4>1
    <3> QED
      BY <2>2, <3>2 DEF In
  <2> QED
    BY <2>3, <2>4, <2>5, <2>6, <2>7
<1> QED
  BY <1>5, <1>6, <1>7

\* Whatever its length, a text is covered by its windows, and each window shares
\* exactly the overlap with the next (chunk_fixed_size).
THEOREM Covers == Spec => []WindowsCover
BY Inductive, CutCovers, PTL

\* Every window is found, at its place or at a repetition before it
\* (complete_metadata).
THEOREM OffsetsFound == Spec => []OffsetsNeverBehind
<1>1. IInv => OffsetsNeverBehind
  BY DEF IInv
<1> QED
  BY <1>1, Inductive, PTL

-----------------------------------------------------------------------------
(* Strings: slices, joins and what str.strip leaves.                       *)

\* The texts the chunker has not put a newline into.
Plain == Seq(Nat \ {0})

\* s has nothing that t has not, and in the same order.
LEMMA BeforeKept ==
  ASSUME NEW s, NEW t, NEW a, NEW b, Before(s, t), From(a) \subseteq From(s),
         From(b) \subseteq From(t)
  PROVE  Before(a, b)
BY DEF Before

LEMMA EmptyString ==
  /\ <<>> \in Plain /\ <<>> \in Seq(Nat) /\ Len(<<>>) = 0 /\ DOMAIN <<>> = {}
  /\ From(<<>>) = {} /\ Increasing(<<>>)
  /\ \A s : Before(s, <<>>) /\ Before(<<>>, s)
<1>1. /\ <<>> \in Plain /\ <<>> \in Seq(Nat) /\ Len(<<>>) = 0 /\ DOMAIN <<>> = {}
  BY EmptySeq DEF Plain
<1>2. From(<<>>) = {} /\ Increasing(<<>>)
  BY <1>1 DEF From, Increasing
<1> QED
  BY <1>1, <1>2 DEF Before

LEMMA PlainString ==
  ASSUME NEW s \in Plain
  PROVE  s \in Seq(Nat) /\ \A i \in DOMAIN s : s[i] \in Nat \ {0} /\ s[i] \in From(s)
<1>1. Len(s) \in Nat /\ DOMAIN s = 1 .. Len(s) /\ \A i \in 1 .. Len(s) : s[i] \in Nat \ {0}
  BY DEF Plain
<1>2. s \in Seq(Nat)
  <2>1. s = [i \in 1 .. Len(s) |-> s[i]]
    BY DEF Plain
  <2> QED
    BY <1>1, <2>1
<1> QED
  BY <1>1, <1>2 DEF From

\* t is what s has from a to b.
SliceOf(t, s, a, b) ==
  /\ Len(t) = b - a + 1 /\ Len(t) \in Nat /\ Len(t) <= Len(s)
  /\ DOMAIN t = 1 .. (b - a + 1)
  /\ \A i \in DOMAIN t : t[i] = s[a + i - 1] /\ a + i - 1 \in DOMAIN s
  /\ From(t) \subseteq From(s)
  /\ \A k \in a .. b : s[k] # 0 => s[k] \in From(t)
  /\ Increasing(s) => Increasing(t)

LEMMA Slice ==
  ASSUME NEW S, NEW s \in Seq(S), NEW a \in Nat, NEW b \in Nat,
         1 <= a, a <= b + 1, b <= Len(s), NEW t, t = SubSeq(s, a, b)
  PROVE  t \in Seq(S) /\ SliceOf(t, s, a, b)
<1>1. Len(s) \in Nat /\ DOMAIN s = 1 .. Len(s)
  OBVIOUS
<1>2. /\ t \in Seq(S) /\ Len(t) = b - a + 1 /\ DOMAIN t = 1 .. (b - a + 1)
      /\ Len(t) \in Nat /\ Len(t) <= Len(s)
  BY <1>1
<1>3. \A i \in DOMAIN t : t[i] = s[a + i - 1] /\ a + i - 1 \in DOMAIN s
  BY <1>1
<1>4. From(t) \subseteq From(s)
  BY <1>3 DEF From
<1>5. ASSUME NEW k \in a .. b, s[k] # 0 PROVE s[k] \in From(t)
  <2>1. k - a + 1 \in DOMAIN t /\ a + (k - a + 1) - 1 = k
    BY <1>2, <1>5
  <2>2. t[k - a + 1] = s[k]
    BY <1>3, <2>1
  <2> QED
    BY <1>5, <2>1, <2>2 DEF From
<1>6. ASSUME Increasing(s) PROVE Increasing(t)
  <2> SUFFICES ASSUME NEW i \in DOMAIN t, NEW j \in DOMAIN t, i < j, t[i] # 0, t[j] # 0
               PROVE  t[i] < t[j]
    BY DEF Increasing
  <2>1. a + i - 1 < a + j - 1
    BY <1>2
  <2> QED
    BY <1>3, <1>6, <2>1 DEF Increasing
<1> QED
  BY <1>2, <1>3, <1>4, <1>5, <1>6 DEF SliceOf

LEMMA Cuttings ==
  ASSUME NEW s \in Plain, Increasing(s), NEW a \in Nat, NEW b \in Nat, NEW c \in Nat, NEW d \in Nat,
         1 <= a, a <= b + 1, b < c, c <= d + 1, d <= Len(s)
  PROVE  Before(SubSeq(s, a, b), SubSeq(s, c, d))
<1>1. Len(s) \in Nat /\ DOMAIN s = 1 .. Len(s) /\ \A i \in DOMAIN s : s[i] \in Nat \ {0}
  BY DEF Plain
<1>2. PICK t : t = SubSeq(s, a, b)
  OBVIOUS
<1>3. PICK u : u = SubSeq(s, c, d)
  OBVIOUS
<1>4. /\ DOMAIN t = 1 .. (b - a + 1)
      /\ \A i \in DOMAIN t : t[i] = s[a + i - 1] /\ a + i - 1 \in DOMAIN s
  <2>1. b <= Len(s) /\ s \in Seq(Nat \ {0})
    BY <1>1 DEF Plain
  <2>2. SliceOf(t, s, a, b)
    BY <1>2, <2>1, Slice
  <2> QED
    BY <2>2 DEF SliceOf
<1>5. /\ DOMAIN u = 1 .. (d - c + 1)
      /\ \A i \in DOMAIN u : u[i] = s[c + i - 1] /\ c + i - 1 \in DOMAIN s
  <2>1. 1 <= c /\ s \in Seq(Nat \ {0})
    BY DEF Plain
  <2>2. SliceOf(u, s, c, d)
    BY <1>3, <2>1, Slice
  <2> QED
    BY <2>2 DEF SliceOf
<1>6. ASSUME NEW i \in DOMAIN t, NEW j \in DOMAIN u PROVE t[i] < u[j]
  <2>1. i \in 1 .. (b - a + 1) /\ j \in 1 .. (d - c + 1)
    BY <1>4, <1>5
  <2>2. a + i - 1 < c + j - 1
    BY <2>1
  <2>3. PICK x \in DOMAIN s, y \in DOMAIN s : x < y /\ t[i] = s[x] /\ u[j] = s[y]
    BY <1>4, <1>5, <2>2
  <2> QED
    BY <1>1, <2>3 DEF Increasing
<1> QED
  BY <1>2, <1>3, <1>6 DEF Before, From

\* A newline is put between two strings.
LEMMA Joins ==
  ASSUME NEW s \in Seq(Nat), NEW t \in Seq(Nat)
  PROVE  /\ Joined(s, t) \in Seq(Nat) /\ Len(Joined(s, t)) = Len(s) + Len(t) + 1
         /\ Len(s) \in Nat /\ Len(t) \in Nat
         /\ From(Joined(s, t)) = From(s) \cup From(t)
         /\ Increasing(s) /\ Increasing(t) /\ Before(s, t) => Increasing(Joined(s, t))
<1>1. PICK m, n : m = Len(s) /\ n = Len(t)
  OBVIOUS
<1>2. PICK j : j = Joined(s, t)
  OBVIOUS
<1>3. /\ m \in Nat /\ n \in Nat /\ DOMAIN s = 1 .. m /\ DOMAIN t = 1 .. n
      /\ j \in Seq(Nat) /\ Len(j) = m + n + 1 /\ DOMAIN j = 1 .. (m + n + 1)
      /\ \A i \in 1 .. m : j[i] = s[i]
      /\ j[m + 1] = 0
      /\ \A i \in 1 .. n : j[m + 1 + i] = t[i]
  BY <1>1, <1>2 DEF Joined
<1>4. \A k \in DOMAIN j : \/ k \in 1 .. m
                          \/ k = m + 1
                          \/ k - (m + 1) \in 1 .. n /\ j[k] = t[k - (m + 1)]
  <2> TAKE k \in DOMAIN j
  <2>1. CASE k > m + 1
    <3>0. k \in 1 .. (m + n + 1)
      BY <1>3
    <3>1. k - (m + 1) \in 1 .. n /\ m + 1 + (k - (m + 1)) = k
      BY <1>3, <2>1, <3>0, SMTT(60)
    <3>2. j[m + 1 + (k - (m + 1))] = t[k - (m + 1)]
      BY <1>3, <3>1
    <3> QED
      BY <3>1, <3>2
  <2>2. CASE ~(k > m + 1)
    BY <1>3, <2>2
  <2> QED
    BY <2>1, <2>2
<1>5. From(j) = From(s) \cup From(t)
  <2>1. ASSUME NEW k \in DOMAIN j, j[k] # 0 PROVE j[k] \in From(s) \cup From(t)
    BY <1>3, <1>4, <2>1 DEF From
  <2>2. ASSUME NEW k \in DOMAIN s PROVE k \in DOMAIN j /\ j[k] = s[k]
    BY <1>3
  <2>3. ASSUME NEW k \in DOMAIN t PROVE m + 1 + k \in DOMAIN j /\ j[m + 1 + k] = t[k]
    BY <1>3, SMTT(60)
  <2> QED
    BY <2>1, <2>2, <2>3 DEF From
<1>6. ASSUME Increasing(s), Increasing(t), Before(s, t) PROVE Increasing(j)
  <2> SUFFICES ASSUME NEW a \in DOMAIN j, NEW b \in DOMAIN j, a < b, j[a] # 0, j[b] # 0
               PROVE  j[a] < j[b]
    BY DEF Increasing
  <2>1. a # m + 1 /\ b # m + 1
    BY <1>3
  <2>2. CASE a \in 1 .. m /\ b \in 1 .. m
    BY <1>3, <1>6, <2>2 DEF Increasing
  <2>3. CASE a \in 1 .. m /\ b \notin 1 .. m
    <3>1. j[a] \in From(s) /\ j[b] \in From(t)
      BY <1>3, <1>4, <2>1, <2>3 DEF From
    <3> QED
      BY <1>6, <3>1 DEF Before
  <2>4. CASE a \notin 1 .. m
    <3>1. b \notin 1 .. m
      BY <1>3, <2>4
    <3>2. /\ a - (m + 1) \in 1 .. n /\ j[a] = t[a - (m + 1)]
          /\ b - (m + 1) \in 1 .. n /\ j[b] = t[b - (m + 1)]
      BY <1>4, <2>1, <2>4, <3>1
    <3>3. a - (m + 1) < b - (m + 1)
      BY <1>3
    <3> QED
      BY <1>3, <1>6, <3>2, <3>3 DEF Increasing
  <2> QED
    BY <2>2, <2>3, <2>4
<1> QED
  BY <1>1, <1>2, <1>3, <1>5, <1>6

\* The largest number of a set that has a bound.
LEMMA GreatestIsThere ==
  ASSUME NEW n \in Nat, NEW S \in SUBSET (0 .. n), S # {}
  PROVE  Greatest(S) \in S /\ Greatest(S) \in 0 .. n /\ \A j \in S : j <= Greatest(S)
<1>1. PICK T : T = {n - k : k \in S}
  OBVIOUS
<1>2. T \in SUBSET Nat /\ T # {}
  <2>1. \A k \in S : n - k \in Nat
    OBVIOUS
  <2>2. PICK k : k \in S
    OBVIOUS
  <2> QED
    BY <1>1, <2>1, <2>2
<1>3. Least(T) \in T /\ \A j \in T : Least(T) <= j
  BY <1>2, LeastIsThere
<1>4. PICK k \in S : Least(T) = n - k
  BY <1>1, <1>3
<1>5. \A j \in S : j <= k
  <2> TAKE j \in S
  <2>1. n - j \in T /\ j \in Nat /\ k \in Nat
    BY <1>1
  <2>2. n - k <= n - j
    BY <1>3, <1>4, <2>1
  <2> QED
    BY <2>1, <2>2
<1> QED
  BY <1>5 DEF Greatest

\* str.strip leaves a slice, and every character that is not white space.
LEMMA Strips ==
  ASSUME NEW S, S \subseteq Nat, NEW s \in Seq(S)
  PROVE  /\ Strip(s) \in Seq(S) /\ Len(Strip(s)) \in Nat /\ Len(Strip(s)) <= Len(s)
         /\ From(Strip(s)) \subseteq From(s)
         /\ Ink \cap From(s) \subseteq From(Strip(s))
         /\ Increasing(s) => Increasing(Strip(s))
<1>1. PICK ink : ink = {i \in DOMAIN s : Kind(s[i]) \notin White}
  OBVIOUS
<1>2. Len(s) \in Nat /\ DOMAIN s = 1 .. Len(s) /\ ink \subseteq 1 .. Len(s)
  BY <1>1
<1>3. ASSUME NEW c \in Ink, c \in From(s)
      PROVE  \E i \in ink : s[i] = c /\ c # 0
  <2>1. PICK i \in DOMAIN s : s[i] = c /\ c # 0
    BY <1>3 DEF From
  <2>2. Kind(c) \notin White
    BY <1>3, <2>1 DEF Ink, Kind
  <2> QED
    BY <1>1, <2>1, <2>2
<1>4. CASE ink = {}
  <2>1. Strip(s) = <<>>
    BY <1>1, <1>4 DEF Strip
  <2> QED
    BY <1>2, <1>3, <1>4, <2>1, EmptyString
<1>5. CASE ink # {}
  <2>1. PICK a, b : a = Least(ink) /\ b = Greatest(ink)
    OBVIOUS
  <2>2. Strip(s) = SubSeq(s, a, b)
    BY <1>1, <1>5, <2>1 DEF Strip
  <2>3. a \in ink /\ b \in ink /\ (\A i \in ink : a <= i /\ i <= b)
    <3>1. ink \in SUBSET Nat /\ ink \in SUBSET (0 .. Len(s))
      BY <1>2
    <3> QED
      BY <1>2, <1>5, <2>1, <3>1, LeastIsThere, GreatestIsThere
  <2>4. a \in Nat /\ b \in Nat /\ 1 <= a /\ a <= b + 1 /\ b <= Len(s)
    BY <1>2, <2>3
  <2>5. /\ Strip(s) \in Seq(S) /\ Len(Strip(s)) \in Nat /\ Len(Strip(s)) <= Len(s)
        /\ From(Strip(s)) \subseteq From(s) /\ (Increasing(s) => Increasing(Strip(s)))
        /\ \A k \in a .. b : s[k] # 0 => s[k] \in From(Strip(s))
    <3>1. Strip(s) \in Seq(S) /\ SliceOf(Strip(s), s, a, b)
      BY <2>2, <2>4, Slice
    <3> QED
      BY <3>1 DEF SliceOf
  <2>6. \A i \in ink : i \in a .. b
    BY <1>2, <2>3
  <2> QED
    BY <1>3, <2>5, <2>6
<1> QED
  BY <1>4, <1>5

-----------------------------------------------------------------------------
(* re.split: the parts are in order, do not overlap, and have all the ink. *)

Patterns == {"paragraph", "line", "sentence"}

\* Patterns match white space.
LEMMA SeparatorsAreWhite ==
  ASSUME NEW s, NEW pattern \in Patterns, NEW i \in Separators(s, pattern), DOMAIN s \subseteq Nat
  PROVE  i \in DOMAIN s /\ Kind(s[i]) \in White
<1>1. CASE pattern = "paragraph"
  BY <1>1 DEF Separators, White
<1>2. CASE pattern = "line"
  BY <1>2 DEF Separators, White
<1>3. CASE pattern = "sentence"
  <2>1. i \in DOMAIN s /\ \E j \in 1 .. i - 1 : \A k \in j + 1 .. i : Kind(s[k]) \in White
    BY <1>3 DEF Separators
  <2> QED
    BY <2>1
<1> QED
  BY <1>1, <1>2, <1>3 DEF Patterns

\* The separators (or ends of the string) on either side of position i.
RunStart(seps, i) == Greatest({0} \cup {k \in seps : k < i})
RunEnd(n, seps, i) == Least({n + 1} \cup {k \in seps : k > i})

\* Positions a and b are around i, with no separator between them.
Around(a, b, n, seps, i) ==
  /\ a \in Nat /\ b \in Nat /\ a < i /\ i < b /\ b <= n + 1
  /\ \A k \in seps : k <= a \/ k >= b

\* The bounds of a run.
LEMMA RunBounds ==
  ASSUME NEW n \in Nat, NEW seps \in SUBSET (1 .. n), NEW i \in 1 .. n, i \notin seps
  PROVE  Around(RunStart(seps, i), RunEnd(n, seps, i), n, seps, i)
<1> DEFINE A == {0} \cup {k \in seps : k < i}
           B == {n + 1} \cup {k \in seps : k > i}
           a == Greatest(A)
           b == Least(B)
<1>1. ASSUME NEW k \in A PROVE k \in 0 .. n /\ k < i
  <2>1. CASE k = 0
    BY <2>1
  <2>2. CASE k \in {x \in seps : x < i}
    <3>1. k \in seps /\ k < i
      BY <2>2
    <3>2. k \in 1 .. n
      BY <3>1
    <3> QED
      BY <3>1, <3>2
  <2> QED
    BY <1>1, <2>1, <2>2
<1>2. ASSUME NEW k \in B PROVE k \in Nat /\ k > i
  <2>1. CASE k = n + 1
    BY <2>1
  <2>2. CASE k \in {x \in seps : x > i}
    <3>1. k \in seps /\ k > i
      BY <2>2
    <3>2. k \in 1 .. n
      BY <3>1
    <3> QED
      BY <3>1, <3>2
  <2> QED
    BY <1>2, <2>1, <2>2
<1>3. 0 \in A /\ n + 1 \in B /\ \A k \in seps : k < i => k \in A
  OBVIOUS
<1>4. \A k \in seps : k > i => k \in B
  OBVIOUS
<1> HIDE DEF A, B
<1>5. A \in SUBSET (0 .. n) /\ A # {} /\ B \in SUBSET Nat /\ B # {}
  BY <1>1, <1>2, <1>3
<1>6. a \in A /\ \A k \in A : k <= a
  BY <1>5, GreatestIsThere
<1>7. b \in B /\ \A k \in B : b <= k
  BY <1>5, LeastIsThere
<1> HIDE DEF a, b
<1>8. a \in Nat /\ b \in Nat /\ a < i /\ i < b /\ b <= n + 1
  BY <1>1, <1>2, <1>3, <1>6, <1>7
<1>9. ASSUME NEW k \in seps PROVE k <= a \/ k >= b
  <2>1. k \in 1 .. n /\ k # i
    BY <1>9
  <2>2. k < i \/ k > i
    BY <2>1
  <2> QED
    BY <1>3, <1>4, <1>6, <1>7, <1>8, <2>1, <2>2
<1>10. a = RunStart(seps, i) /\ b = RunEnd(n, seps, i)
  BY DEF a, b, A, B, RunStart, RunEnd
<1>11. Around(a, b, n, seps, i)
  BY <1>8, <1>9 DEF Around
<1> QED
  BY <1>10, <1>11

\* A run is what is between its bounds.
LEMMA RunIsSlice ==
  ASSUME NEW s, NEW seps, NEW i
  PROVE  Run(s, seps, i) = SubSeq(s, RunStart(seps, i) + 1, RunEnd(Len(s), seps, i) - 1)
BY DEF Run, RunStart, RunEnd

LEMMA RunAround ==
  ASSUME NEW s \in Plain, Increasing(s), NEW seps, seps \subseteq DOMAIN s,
         NEW i \in DOMAIN s, i \notin seps, NEW r, r = Run(s, seps, i)
  PROVE  r \in Plain /\ Increasing(r) /\ From(r) \subseteq From(s) /\ s[i] \in From(r)
<1>1. Len(s) \in Nat /\ DOMAIN s = 1 .. Len(s) /\ s \in Seq(Nat \ {0}) /\ s[i] # 0
  BY DEF Plain
<1> DEFINE a == RunStart(seps, i)
           b == RunEnd(Len(s), seps, i)
<1>2. a \in Nat /\ b \in Nat /\ a < i /\ i < b /\ b <= Len(s) + 1
  <2>1. seps \in SUBSET (1 .. Len(s)) /\ i \in 1 .. Len(s)
    BY <1>1
  <2>2. Around(a, b, Len(s), seps, i)
    BY <1>1, <2>1, RunBounds
  <2> QED
    BY <2>2 DEF Around
<1>3. r = SubSeq(s, a + 1, b - 1)
  BY RunIsSlice
<1> HIDE DEF a, b
<1>4. /\ a + 1 \in Nat /\ b - 1 \in Nat /\ 1 <= a + 1 /\ a + 1 <= (b - 1) + 1 /\ b - 1 <= Len(s)
      /\ i \in a + 1 .. b - 1
  BY <1>1, <1>2
<1>5. /\ r \in Seq(Nat \ {0}) /\ From(r) \subseteq From(s) /\ (Increasing(s) => Increasing(r))
      /\ \A k \in a + 1 .. b - 1 : s[k] # 0 => s[k] \in From(r)
  <2>1. PICK x, y : x = a + 1 /\ y = b - 1
    OBVIOUS
  <2>2. x \in Nat /\ y \in Nat /\ 1 <= x /\ x <= y + 1 /\ y <= Len(s) /\ r = SubSeq(s, x, y)
    BY <1>3, <1>4, <2>1
  <2>3. /\ r \in Seq(Nat \ {0}) /\ From(r) \subseteq From(s) /\ (Increasing(s) => Increasing(r))
        /\ \A k \in x .. y : s[k] # 0 => s[k] \in From(r)
    <3>1. s \in Seq(Nat \ {0})
      BY <1>1
    <3>2. r \in Seq(Nat \ {0}) /\ SliceOf(r, s, x, y)
      BY <2>2, <3>1, Slice
    <3> QED
      BY <3>2 DEF SliceOf
  <2> QED
    BY <2>1, <2>3
<1> QED
  BY <1>1, <1>4, <1>5 DEF Plain

\* Two runs are the same, or one comes before the other.
LEMMA RunsApart ==
  ASSUME NEW s \in Plain, Increasing(s), NEW seps, seps \subseteq DOMAIN s,
         NEW i \in DOMAIN s, i \notin seps, NEW j \in DOMAIN s, j \notin seps, i < j
  PROVE  Run(s, seps, i) = Run(s, seps, j) \/ Before(Run(s, seps, i), Run(s, seps, j))
<1>1. Len(s) \in Nat /\ DOMAIN s = 1 .. Len(s)
  BY DEF Plain
<1>2. seps \in SUBSET (1 .. Len(s)) /\ i \in 1 .. Len(s) /\ j \in 1 .. Len(s)
  BY <1>1
<1> DEFINE a == RunStart(seps, i)
           b == RunEnd(Len(s), seps, i)
           c == RunStart(seps, j)
           d == RunEnd(Len(s), seps, j)
<1>3. /\ a \in Nat /\ b \in Nat /\ a < i /\ i < b /\ b <= Len(s) + 1
      /\ \A k \in seps : k <= a \/ k >= b
  <2>1. Around(a, b, Len(s), seps, i)
    BY <1>1, <1>2, RunBounds
  <2> QED
    BY <2>1 DEF Around
<1>4. /\ c \in Nat /\ d \in Nat /\ c < j /\ j < d /\ d <= Len(s) + 1
      /\ \A k \in seps : k <= c \/ k >= d
  <2>1. Around(c, d, Len(s), seps, j)
    BY <1>1, <1>2, RunBounds
  <2> QED
    BY <2>1 DEF Around
<1>5. Run(s, seps, i) = SubSeq(s, a + 1, b - 1) /\ Run(s, seps, j) = SubSeq(s, c + 1, d - 1)
  BY RunIsSlice
<1>6. CASE \E k \in seps : i < k /\ k < j
  <2> HIDE DEF a, b, c, d
  <2>1. PICK k \in seps : i < k /\ k < j
    BY <1>6
  <2>2. k \in 1 .. Len(s)
    BY <1>2
  <2>3. b <= k /\ k <= c
    BY <1>2, <1>3, <1>4, <2>1, <2>2
  <2>4. /\ a + 1 \in Nat /\ b - 1 \in Nat /\ c + 1 \in Nat /\ d - 1 \in Nat
        /\ 1 <= a + 1 /\ a + 1 <= (b - 1) + 1 /\ b - 1 < c + 1 /\ c + 1 <= (d - 1) + 1
        /\ d - 1 <= Len(s)
    BY <1>1, <1>2, <1>3, <1>4, <2>2, <2>3
  <2> QED
    BY <1>5, <2>4, Cuttings
<1>7. CASE ~ \E k \in seps : i < k /\ k < j
  <2>1. ASSUME NEW k \in seps PROVE (k < i <=> k < j) /\ (k > i <=> k > j)
    <3>1. k \in 1 .. Len(s) /\ k # i /\ k # j /\ ~(i < k /\ k < j)
      BY <1>2, <1>7, <2>1
    <3> QED
      BY <1>2, <3>1
  <2>2. {k \in seps : k < i} = {k \in seps : k < j} /\ {k \in seps : k > i} = {k \in seps : k > j}
    BY <2>1
  <2> QED
    BY <2>2 DEF Run
<1> QED
  BY <1>6, <1>7

\* What re.split and the stripping leave of a block, however it is split.
LEMMA Splits ==
  ASSUME NEW s \in Plain, Increasing(s), NEW pattern \in Patterns
  PROVE  /\ \A p \in Parts(s, pattern) :
              p \in Plain /\ p # <<>> /\ Increasing(p) /\ From(p) \subseteq From(s)
         /\ \A p, q \in Parts(s, pattern) : p = q \/ Before(p, q) \/ Before(q, p)
         /\ \A c \in Ink : c \in From(s) => \E p \in Parts(s, pattern) : c \in From(p)
<1>1. PICK seps : seps = Separators(s, pattern)
  OBVIOUS
<1>2. Len(s) \in Nat /\ DOMAIN s = 1 .. Len(s) /\ DOMAIN s \subseteq Nat
  BY DEF Plain
<1>3. seps \subseteq DOMAIN s /\ \A i \in seps : Kind(s[i]) \in White
  BY <1>1, <1>2, SeparatorsAreWhite
<1> DEFINE Kept(i) == IF pattern = "sentence" THEN Run(s, seps, i) ELSE Strip(Run(s, seps, i))
<1>4. Parts(s, pattern) = {Kept(i) : i \in DOMAIN s \ seps} \ {<<>>}
  <2>1. PICK runs : runs = {Run(s, seps, i) : i \in DOMAIN s \ seps}
    OBVIOUS
  <2>2. Parts(s, pattern) = (IF pattern = "sentence" THEN runs ELSE {Strip(r) : r \in runs}) \ {<<>>}
    BY <1>1, <2>1 DEF Parts
  <2> QED
    BY <2>1, <2>2
<1>5. ASSUME NEW i \in DOMAIN s \ seps
      PROVE  /\ Kept(i) \in Plain /\ Increasing(Kept(i))
             /\ From(Kept(i)) \subseteq From(Run(s, seps, i)) /\ From(Kept(i)) \subseteq From(s)
             /\ Ink \cap From(Run(s, seps, i)) \subseteq From(Kept(i))
             /\ s[i] \in From(Run(s, seps, i))
  <2>1. PICK r : r = Run(s, seps, i)
    OBVIOUS
  <2>2. r \in Plain /\ Increasing(r) /\ From(r) \subseteq From(s) /\ s[i] \in From(r)
    BY <1>3, <1>5, <2>1, RunAround
  <2>3. /\ Strip(r) \in Plain /\ From(Strip(r)) \subseteq From(r) /\ Increasing(Strip(r))
        /\ Ink \cap From(r) \subseteq From(Strip(r))
    BY <2>2, Strips DEF Plain
  <2> QED
    BY <2>1, <2>2, <2>3
<1>6. ASSUME NEW i \in DOMAIN s \ seps, NEW j \in DOMAIN s \ seps, i < j
      PROVE  Kept(i) = Kept(j) \/ Before(Kept(i), Kept(j))
  <2>1. CASE Run(s, seps, i) = Run(s, seps, j)
    BY <2>1
  <2>2. CASE Before(Run(s, seps, i), Run(s, seps, j))
    <3>1. /\ From(Kept(i)) \subseteq From(Run(s, seps, i))
          /\ From(Kept(j)) \subseteq From(Run(s, seps, j))
      BY <1>5
    <3> QED
      BY <2>2, <3>1, BeforeKept
  <2> QED
    BY <1>3, <1>6, <2>1, <2>2, RunsApart
<1> HIDE DEF Kept
<1>7. ASSUME NEW p \in Parts(s, pattern), NEW q \in Parts(s, pattern)
      PROVE  p = q \/ Before(p, q) \/ Before(q, p)
  <2>1. PICK i \in DOMAIN s \ seps : p = Kept(i)
    BY <1>4
  <2>2. PICK j \in DOMAIN s \ seps : q = Kept(j)
    BY <1>4
  <2>3. i < j \/ j < i \/ i = j
    BY <1>2
  <2> QED
    BY <1>6, <2>1, <2>2, <2>3
<1>8. ASSUME NEW c \in Ink, c \in From(s) PROVE \E p \in Parts(s, pattern) : c \in From(p)
  <2>1. PICK i \in DOMAIN s : s[i] = c /\ c # 0
    BY <1>8 DEF From
  <2>2. i \notin seps
    <3>1. Kind(c) \notin White
      BY <1>8, <2>1 DEF Ink, Kind
    <3> QED
      BY <1>3, <2>1, <3>1
  <2>3. c \in From(Kept(i))
    BY <1>5, <1>8, <2>1, <2>2
  <2>4. Kept(i) # <<>>
    BY <2>3, EmptyString
  <2> QED
    BY <1>4, <2>2, <2>3, <2>4
<1>9. ASSUME NEW p \in Parts(s, pattern)
      PROVE  p \in Plain /\ p # <<>> /\ Increasing(p) /\ From(p) \subseteq From(s)
  BY <1>4, <1>5
<1> QED
  BY <1>7, <1>8, <1>9

\* The next part comes before the others.
LEMMA FirstIsBefore ==
  ASSUME NEW S, S # {}, \A p \in S : p \in Plain /\ p # <<>>,
         \A p, q \in S : p = q \/ Before(p, q) \/ Before(q, p)
  PROVE  FirstOf(S) \in S /\ \A q \in S \ {FirstOf(S)} : Before(FirstOf(S), q)
<1>1. \A p \in S : p[1] \in Nat /\ p[1] \in From(p)
  <2> TAKE p \in S
  <2>1. p \in Plain /\ p # <<>>
    OBVIOUS
  <2>2. 1 \in DOMAIN p
    BY <2>1, EmptySeq DEF Plain
  <2> QED
    BY <2>1, <2>2, PlainString
<1>2. PICK T : T = {p[1] : p \in S}
  OBVIOUS
<1>3. T \in SUBSET Nat /\ T # {}
  <2>1. PICK p : p \in S
    OBVIOUS
  <2>2. p[1] \in T
    BY <1>2, <2>1
  <2> QED
    BY <1>1, <1>2, <2>2
<1>4. Least(T) \in T /\ \A x \in T : Least(T) <= x
  BY <1>3, LeastIsThere
<1>5. \E p \in S : \A q \in S : p[1] <= q[1]
  BY <1>2, <1>4
<1>6. PICK p : p = FirstOf(S)
  OBVIOUS
<1>7. p \in S /\ \A q \in S : p[1] <= q[1]
  BY <1>5, <1>6 DEF FirstOf
<1>8. ASSUME NEW q \in S \ {p} PROVE Before(p, q)
  <2>1. ~ Before(q, p)
    <3>1. p[1] <= q[1] /\ p[1] \in Nat /\ q[1] \in Nat /\ p[1] \in From(p) /\ q[1] \in From(q)
      BY <1>1, <1>7, <1>8
    <3>2. ~(q[1] < p[1])
      BY <3>1
    <3> QED
      BY <3>1, <3>2 DEF Before
  <2> QED
    BY <1>7, <1>8, <2>1
<1> QED
  BY <1>6, <1>7, <1>8

LEMMA Limits ==
  /\ MergeLimit \in Nat \ {0} /\ MinChunkSize \in Nat \ {0} /\ ChunkOverlap \in Nat
BY SizesMatch, WindowsAdvance

\* The hard cut takes something, and not too much.
LEMMA CutIsInside ==
  ASSUME NEW s \in Plain, Len(s) > MergeLimit
  PROVE  CutAt(s) \in 1 .. MergeLimit
<1>1. Len(s) \in Nat /\ MergeLimit \in Nat \ {0}
  BY Limits DEF Plain
<1>2. Min2(MergeLimit + 1, Len(s)) \in Nat /\ Min2(MergeLimit + 1, Len(s)) <= MergeLimit + 1
  BY <1>1 DEF Min2
<1>3. PICK spaces : spaces = {i \in 2 .. Min2(MergeLimit + 1, Len(s)) : Kind(s[i]) = "_"}
  OBVIOUS
<1>4. \A i \in spaces : i \in 2 .. MergeLimit + 1
  <2> TAKE i \in spaces
  <2>1. i \in 2 .. Min2(MergeLimit + 1, Len(s))
    BY <1>3
  <2> QED
    BY <1>1, <1>2, <2>1
<1>5. CASE spaces = {}
  <2>1. CutAt(s) = MergeLimit
    BY <1>3, <1>5 DEF CutAt
  <2> QED
    BY <1>1, <2>1
<1>6. CASE spaces # {}
  <2>1. CutAt(s) = Greatest(spaces) - 1
    BY <1>3, <1>6 DEF CutAt
  <2>2. spaces \in SUBSET (0 .. MergeLimit + 1) /\ MergeLimit + 1 \in Nat
    BY <1>1, <1>4
  <2>3. Greatest(spaces) \in spaces
    BY <1>6, <2>2, GreatestIsThere
  <2>4. Greatest(spaces) \in 2 .. MergeLimit + 1
    BY <1>4, <2>3
  <2> QED
    BY <1>1, <2>1, <2>4
<1> QED
  BY <1>5, <1>6

-----------------------------------------------------------------------------
(* The loops of chunk_paragraph_aware: what is where in the text.          *)

Stages == {"off", "split", "parts", "cut", "merge", "done"}

Splitting == stage \in {"off", "split", "parts", "cut"}

\* No string is longer than the merge limit.
Limited(f) == \A i \in DOMAIN f : Increasing(f[i]) /\ Len(f[i]) <= MergeLimit

Ordered(f) == \A i, j \in DOMAIN f : i < j => Before(f[i], f[j])

\* What each loop leaves to the next.
StagesFit ==
  /\ stage \in Stages
  /\ Splitting => current = <<>> /\ raw = <<>>
  /\ stage \in {"parts", "merge", "done"} => block = <<>>
  /\ stage \in {"merge", "done"} => parts = {}
  /\ stage = "done" => pieces = <<>> /\ current = <<>>

\* What is still to be split is in order, and no two parts overlap.
ToSplit ==
  /\ block \in Plain /\ Increasing(block)
  /\ \A p \in parts : p \in Plain /\ p # <<>> /\ Increasing(p) /\ Before(block, p)
  /\ \A p, q \in parts : p = q \/ Before(p, q) \/ Before(q, p)

\* The pieces are in order and come before what is still to be split.
PiecesFit ==
  /\ pieces \in Seq(Plain) /\ Limited(pieces) /\ Ordered(pieces)
  /\ \A i \in DOMAIN pieces :
       Before(pieces[i], block) /\ \A p \in parts : Before(pieces[i], p)

\* The chunks are in order and come before the pieces that are not merged yet.
ChunksFit ==
  /\ raw \in Seq(Seq(Nat)) /\ Limited(raw) /\ Ordered(raw)
  /\ current \in Seq(Nat) /\ Increasing(current) /\ Len(current) <= MergeLimit
  /\ \A i \in DOMAIN raw : Before(raw[i], current)
  /\ \A j \in DOMAIN pieces :
       Before(current, pieces[j]) /\ \A i \in DOMAIN raw : Before(raw[i], pieces[j])

\* Where a character of the text is.
Somewhere(c) ==
  \/ c \in From(block)
  \/ \E p \in parts : c \in From(p)
  \/ \E i \in DOMAIN pieces : c \in From(pieces[i])
  \/ c \in From(current)
  \/ \E i \in DOMAIN raw : c \in From(raw[i])

NothingLost == \A c \in Ink : Somewhere(c)

ParagraphInv ==
  /\ 1 \in Ink
  /\ StagesFit /\ ToSplit /\ PiecesFit /\ ChunksFit /\ NothingLost

\* g has what f has, and x.
OneMore(g, f, x) ==
  /\ \A i \in DOMAIN g : (i \in DOMAIN f /\ g[i] = f[i]) \/ g[i] = x
  /\ \A i \in DOMAIN f : i \in DOMAIN g /\ g[i] = f[i]
  /\ \E i \in DOMAIN g : g[i] = x

\* One string more, behind the others.
LEMMA Behind ==
  ASSUME NEW S, NEW f \in Seq(S), Limited(f), Ordered(f), NEW x \in S, Increasing(x),
         Len(x) <= MergeLimit, \A i \in DOMAIN f : Before(f[i], x), NEW g, g = Append(f, x)
  PROVE  g \in Seq(S) /\ Limited(g) /\ Ordered(g) /\ OneMore(g, f, x)
<1>1. PICK n : n = Len(f)
  OBVIOUS
<1>2. /\ g \in Seq(S) /\ n \in Nat /\ DOMAIN f = 1 .. n /\ DOMAIN g = 1 .. n + 1
      /\ \A i \in 1 .. n : g[i] = f[i]
      /\ g[n + 1] = x
  BY <1>1, Appended
<1>3. \A i \in DOMAIN g : (i \in DOMAIN f /\ g[i] = f[i]) \/ (i = n + 1 /\ g[i] = x)
  BY <1>2
<1>4. Limited(g)
  BY <1>3 DEF Limited
<1>5. ASSUME NEW i \in DOMAIN g, NEW j \in DOMAIN g, i < j PROVE Before(g[i], g[j])
  <2>1. i \in DOMAIN f /\ g[i] = f[i]
    BY <1>2, <1>5
  <2>2. CASE j \in DOMAIN f /\ g[j] = f[j]
    BY <1>5, <2>1, <2>2 DEF Ordered
  <2>3. CASE g[j] = x
    BY <2>1, <2>3
  <2> QED
    BY <1>3, <2>2, <2>3
<1>6. (\A i \in DOMAIN f : i \in DOMAIN g /\ g[i] = f[i]) /\ \E i \in DOMAIN g : g[i] = x
  <2>1. n + 1 \in DOMAIN g
    BY <1>2
  <2>2. ASSUME NEW i \in DOMAIN f PROVE i \in DOMAIN g /\ g[i] = f[i]
    BY <1>2
  <2> QED
    BY <1>2, <2>1, <2>2
<1> QED
  BY <1>2, <1>3, <1>4, <1>5, <1>6 DEF Ordered, OneMore

\* g has what f has, except x, which is first in f.
OneLess(g, f, x) ==
  /\ 1 \in DOMAIN f /\ x = f[1]
  /\ \A i \in DOMAIN g : i + 1 \in DOMAIN f /\ g[i] = f[i + 1] /\ Before(x, g[i])
  /\ \A i \in DOMAIN f : f[i] = x \/ \E j \in DOMAIN g : g[j] = f[i]

\* The first string is taken off.
LEMMA FirstTaken ==
  ASSUME NEW S, NEW f \in Seq(S), f # <<>>, Limited(f), Ordered(f), NEW x, x = Head(f),
         NEW g, g = Tail(f)
  PROVE  /\ x \in S /\ Increasing(x) /\ Len(x) <= MergeLimit
         /\ g \in Seq(S) /\ Limited(g) /\ Ordered(g) /\ OneLess(g, f, x)
<1>1. PICK n : n = Len(f)
  OBVIOUS
<1>2. n \in Nat \ {0} /\ DOMAIN f = 1 .. n /\ x = f[1] /\ x \in S /\ 1 \in DOMAIN f
  BY <1>1, EmptySeq
<1>3. /\ g \in Seq(S) /\ DOMAIN g = 1 .. n - 1
      /\ \A i \in DOMAIN g : i + 1 \in DOMAIN f /\ g[i] = f[i + 1]
  BY <1>1, <1>2
<1>4. \A i \in DOMAIN g : Before(x, g[i])
  <2> TAKE i \in DOMAIN g
  <2>1. 1 < i + 1 /\ i + 1 \in DOMAIN f
    BY <1>2, <1>3
  <2> QED
    BY <1>2, <1>3, <2>1 DEF Ordered
<1>5. Limited(g) /\ Ordered(g)
  <2>1. ASSUME NEW i \in DOMAIN g, NEW j \in DOMAIN g, i < j PROVE Before(g[i], g[j])
    <3>1. i + 1 < j + 1
      BY <1>2, <1>3, <2>1
    <3> QED
      BY <1>3, <3>1 DEF Ordered
  <2> QED
    BY <1>3, <2>1 DEF Limited, Ordered
<1>6. ASSUME NEW i \in DOMAIN f, i # 1 PROVE \E j \in DOMAIN g : g[j] = f[i]
  <2>1. i - 1 \in DOMAIN g /\ (i - 1) + 1 = i
    BY <1>2, <1>3, <1>6
  <2> QED
    BY <1>3, <2>1
<1> QED
  BY <1>2, <1>3, <1>4, <1>5, <1>6 DEF Limited, OneLess

LEMMA ParagraphInitially == CleanInit => ParagraphInv
<1> SUFFICES ASSUME CleanInit PROVE ParagraphInv
  OBVIOUS
<1>1. Len(text) \in Nat \ {0} /\ DOMAIN text = 1 .. Len(text)
  BY Initially DEF CleanInit, IInv, Typed
<1>2. /\ stage \in {"off", "split"} /\ block = [i \in DOMAIN text |-> i] /\ parts = {}
      /\ pieces = <<>> /\ current = <<>> /\ raw = <<>>
  BY DEF CleanInit
<1>3. 1 \in Ink
  BY <1>1 DEF CleanInit, Clean, Ink
<1>4. block \in Plain /\ Increasing(block) /\ \A c \in Ink : c \in From(block)
  <2>1. block \in Seq(Nat \ {0}) /\ DOMAIN block = 1 .. Len(text) /\ \A i \in DOMAIN block : block[i] = i
    BY <1>1, <1>2
  <2>2. \A c \in Ink : c \in DOMAIN block /\ block[c] = c /\ c # 0
    BY <1>1, <2>1 DEF Ink
  <2> QED
    BY <2>1, <2>2 DEF Plain, Increasing, From
<1>5. StagesFit
  BY <1>2 DEF StagesFit, Stages, Splitting
<1>6. ToSplit
  BY <1>2, <1>4 DEF ToSplit
<1>7. <<>> \in Seq(Plain) /\ <<>> \in Seq(Seq(Nat)) /\ DOMAIN pieces = {} /\ DOMAIN raw = {}
  BY <1>2, EmptySeq
<1>8. PiecesFit
  BY <1>2, <1>7 DEF PiecesFit, Limited, Ordered
<1>9. ChunksFit
  BY <1>2, <1>7, EmptyString, Limits DEF ChunksFit, Limited, Ordered
<1>10. NothingLost
  BY <1>4 DEF NothingLost, Somewhere
<1> QED
  BY <1>3, <1>5, <1>6, <1>8, <1>9, <1>10 DEF ParagraphInv

LEMMA SameInk == text' = text => Ink' = Ink
BY DEF Ink

LEMMA SplitsBlockStep ==
  ASSUME ParagraphInv, SplitsBlock, text' = text
  PROVE  ParagraphInv'
<1>1. /\ stage = "split" /\ pieces' = pieces /\ current' = current /\ raw' = raw
      /\ Ink' = Ink /\ current = <<>> /\ raw = <<>>
  BY SameInk DEF SplitsBlock, ParagraphInv, StagesFit, Splitting
<1>2. CASE Usable(block) = {}
  <2>1. stage' = "cut" /\ block' = block /\ parts' = parts
    BY <1>2 DEF SplitsBlock
  <2> QED
    BY <1>1, <2>1 DEF ParagraphInv, StagesFit, Stages, Splitting, ToSplit, PiecesFit, ChunksFit,
                      NothingLost, Somewhere, Limited, Ordered
<1>3. CASE Usable(block) # {}
  <2>1. PICK pattern : pattern = FirstPattern(Usable(block))
    OBVIOUS
  <2>2. pattern \in Patterns
    BY <2>1 DEF FirstPattern, Patterns
  <2>3. PICK P : P = Parts(block, pattern)
    OBVIOUS
  <2>4. stage' = "parts" /\ parts' = parts \cup P /\ block' = <<>>
    BY <1>3, <2>1, <2>3 DEF SplitsBlock
  <2>5. /\ block \in Plain /\ Increasing(block)
        /\ \A p \in parts : p \in Plain /\ p # <<>> /\ Increasing(p) /\ Before(block, p)
        /\ \A p, q \in parts : p = q \/ Before(p, q) \/ Before(q, p)
    BY DEF ParagraphInv, ToSplit
  <2>6. /\ \A p \in P : p \in Plain /\ p # <<>> /\ Increasing(p) /\ From(p) \subseteq From(block)
        /\ \A p, q \in P : p = q \/ Before(p, q) \/ Before(q, p)
        /\ \A c \in Ink : c \in From(block) => \E p \in P : c \in From(p)
    BY <2>2, <2>3, <2>5, Splits
  <2>7. \A p \in P, q \in parts : Before(p, q)
    BY <2>5, <2>6, BeforeKept
  <2>8. ToSplit'
    <3>1. \A p \in parts' : p \in Plain /\ p # <<>> /\ Increasing(p) /\ Before(<<>>, p)
      BY <2>4, <2>5, <2>6, EmptyString
    <3>2. \A p, q \in parts' : p = q \/ Before(p, q) \/ Before(q, p)
      BY <2>4, <2>5, <2>6, <2>7
    <3> QED
      BY <2>4, <3>1, <3>2, EmptyString DEF ToSplit
  <2>9. PiecesFit'
    <3>1. ASSUME NEW i \in DOMAIN pieces
          PROVE  Before(pieces[i], <<>>) /\ \A p \in parts' : Before(pieces[i], p)
      <4>1. Before(pieces[i], block) /\ \A p \in parts : Before(pieces[i], p)
        BY <3>1 DEF ParagraphInv, PiecesFit
      <4> QED
        BY <2>4, <2>6, <4>1, BeforeKept, EmptyString
    <3> QED
      BY <1>1, <2>4, <3>1 DEF ParagraphInv, PiecesFit
  <2>10. ChunksFit'
    BY <1>1 DEF ParagraphInv, ChunksFit
  <2>11. NothingLost'
    <3>1. ASSUME NEW c \in Ink PROVE Somewhere(c)'
      BY <1>1, <2>4, <2>6, <3>1, EmptyString DEF ParagraphInv, NothingLost, Somewhere
    <3> QED
      BY <1>1, <3>1 DEF NothingLost
  <2>12. StagesFit'
    BY <1>1, <2>4 DEF StagesFit, Stages, Splitting
  <2> QED
    BY <1>1, <2>8, <2>9, <2>10, <2>11, <2>12 DEF ParagraphInv
<1> QED
  BY <1>2, <1>3

LEMMA TakesPartStep ==
  ASSUME ParagraphInv, TakesPart, text' = text
  PROVE  ParagraphInv'
<1>1. PICK p : p = FirstOf(parts)
  OBVIOUS
<1>2. /\ stage = "parts" /\ parts # {} /\ parts' = parts \ {p}
      /\ current' = current /\ raw' = raw /\ Ink' = Ink
      /\ current = <<>> /\ raw = <<>> /\ block = <<>>
  BY <1>1, SameInk DEF TakesPart, ParagraphInv, StagesFit, Splitting
<1>3. /\ Len(p) > MergeLimit => stage' = "split" /\ block' = p /\ pieces' = pieces
      /\ ~(Len(p) > MergeLimit) =>
            stage' = "parts" /\ block' = <<>> /\ pieces' = Append(pieces, p)
  BY <1>1, <1>2 DEF TakesPart
<1>4. /\ \A q \in parts : q \in Plain /\ q # <<>> /\ Increasing(q)
      /\ \A q, r \in parts : q = r \/ Before(q, r) \/ Before(r, q)
  BY DEF ParagraphInv, ToSplit
<1>5. p \in parts /\ (\A q \in parts' : q \in parts /\ Before(p, q))
  BY <1>1, <1>2, <1>4, FirstIsBefore
<1>6. /\ pieces \in Seq(Plain) /\ Limited(pieces) /\ Ordered(pieces)
      /\ \A i \in DOMAIN pieces : \A q \in parts : Before(pieces[i], q)
  BY DEF ParagraphInv, PiecesFit
<1>7. p \in Plain /\ Increasing(p) /\ Len(p) \in Nat
  BY <1>4, <1>5 DEF Plain
<1>8. ASSUME NEW c \in Ink
      PROVE  \/ c \in From(p) \/ \E q \in parts' : c \in From(q)
             \/ \E i \in DOMAIN pieces : c \in From(pieces[i])
  <2>1. \/ \E q \in parts : c \in From(q)
        \/ \E i \in DOMAIN pieces : c \in From(pieces[i])
    BY <1>2, <1>8, EmptyString DEF ParagraphInv, NothingLost, Somewhere
  <2> QED
    BY <1>2, <2>1
<1>9. StagesFit'
  BY <1>2, <1>3 DEF StagesFit, Stages, Splitting
<1>10. CASE Len(p) > MergeLimit
  <2>1. ToSplit'
    BY <1>3, <1>4, <1>5, <1>7, <1>10 DEF ToSplit
  <2>2. PiecesFit'
    BY <1>3, <1>5, <1>6, <1>10 DEF PiecesFit
  <2>3. ChunksFit'
    BY <1>2, <1>3, <1>10 DEF ParagraphInv, ChunksFit
  <2>4. NothingLost'
    BY <1>2, <1>3, <1>8, <1>10 DEF NothingLost, Somewhere
  <2> QED
    BY <1>2, <1>9, <2>1, <2>2, <2>3, <2>4 DEF ParagraphInv
<1>11. CASE ~(Len(p) > MergeLimit)
  <2>1. stage' = "parts" /\ block' = <<>> /\ pieces' = Append(pieces, p)
    BY <1>3, <1>11
  <2>2. Len(p) <= MergeLimit
    BY <1>7, <1>11, Limits
  <2>3. /\ pieces' \in Seq(Plain) /\ Limited(pieces') /\ Ordered(pieces')
        /\ OneMore(pieces', pieces, p)
    <3>1. \A i \in DOMAIN pieces : Before(pieces[i], p)
      BY <1>5, <1>6
    <3> QED
      BY <1>6, <1>7, <2>1, <2>2, <3>1, Behind
  <2>4. ToSplit'
    BY <1>4, <1>5, <2>1, EmptyString DEF ToSplit
  <2>5. PiecesFit'
    <3>1. ASSUME NEW i \in DOMAIN pieces'
          PROVE  Before(pieces'[i], <<>>) /\ \A q \in parts' : Before(pieces'[i], q)
      BY <1>5, <1>6, <2>3, <3>1, EmptyString DEF OneMore
    <3> QED
      BY <2>1, <2>3, <3>1 DEF PiecesFit
  <2>6. ChunksFit'
    <3>1. \A j \in DOMAIN pieces' : Before(<<>>, pieces'[j])
      BY EmptyString
    <3>2. DOMAIN raw = {}
      BY <1>2, EmptyString
    <3> QED
      BY <1>2, <3>1, <3>2 DEF ParagraphInv, ChunksFit
  <2>7. NothingLost'
    <3>1. ASSUME NEW c \in Ink PROVE Somewhere(c)'
      <4>1. \/ \E q \in parts' : c \in From(q)
            \/ \E i \in DOMAIN pieces' : c \in From(pieces'[i])
        BY <1>8, <2>3, <3>1 DEF OneMore
      <4> QED
        BY <4>1 DEF Somewhere
    <3> QED
      BY <1>2, <3>1 DEF NothingLost
  <2> QED
    BY <1>2, <1>9, <2>4, <2>5, <2>6, <2>7 DEF ParagraphInv
<1> QED
  BY <1>10, <1>11

LEMMA CutsStep ==
  ASSUME ParagraphInv, Cuts, text' = text
  PROVE  ParagraphInv'
<1>1. PICK k : k = CutAt(block)
  OBVIOUS
<1>2. PICK u, v : u = SubSeq(block, 1, k) /\ v = SubSeq(block, k + 1, Len(block))
  OBVIOUS
<1>3. PICK x : x = Strip(u)
  OBVIOUS
<1>4. /\ stage = "cut" /\ Len(block) > MergeLimit
      /\ pieces' = Append(pieces, x) /\ block' = Strip(v)
      /\ stage' = stage /\ parts' = parts /\ current' = current /\ raw' = raw
      /\ Ink' = Ink /\ current = <<>> /\ raw = <<>>
  BY <1>1, <1>2, <1>3, SameInk DEF Cuts, ParagraphInv, StagesFit, Splitting
<1>5. /\ block \in Plain /\ Increasing(block) /\ Len(block) \in Nat
      /\ DOMAIN block = 1 .. Len(block)
      /\ \A q \in parts : q \in Plain /\ q # <<>> /\ Increasing(q) /\ Before(block, q)
      /\ \A q, r \in parts : q = r \/ Before(q, r) \/ Before(r, q)
  BY DEF ParagraphInv, ToSplit, Plain
<1>6. k \in Nat /\ 1 <= k /\ k <= MergeLimit /\ k <= Len(block) /\ MergeLimit \in Nat
  BY <1>1, <1>4, <1>5, CutIsInside, Limits
<1>7. /\ u \in Plain /\ Increasing(u) /\ From(u) \subseteq From(block) /\ Len(u) = k
      /\ \A i \in 1 .. k : block[i] # 0 => block[i] \in From(u)
  <2>1. /\ block \in Seq(Nat \ {0}) /\ k \in Nat /\ 1 \in Nat /\ 1 <= 1 /\ 1 <= k + 1
        /\ k <= Len(block) /\ u = SubSeq(block, 1, k)
    BY <1>2, <1>5, <1>6 DEF Plain
  <2>2. u \in Seq(Nat \ {0}) /\ SliceOf(u, block, 1, k)
    BY <2>1, Slice
  <2> QED
    BY <1>5, <1>6, <2>2 DEF SliceOf, Plain
<1>8. /\ v \in Plain /\ Increasing(v) /\ From(v) \subseteq From(block)
      /\ \A i \in k + 1 .. Len(block) : block[i] # 0 => block[i] \in From(v)
  <2>1. /\ block \in Seq(Nat \ {0}) /\ k + 1 \in Nat /\ 1 <= k + 1 /\ k + 1 <= Len(block) + 1
        /\ Len(block) <= Len(block) /\ Len(block) \in Nat /\ v = SubSeq(block, k + 1, Len(block))
    BY <1>2, <1>5, <1>6 DEF Plain
  <2>2. v \in Seq(Nat \ {0}) /\ SliceOf(v, block, k + 1, Len(block))
    BY <2>1, Slice
  <2> QED
    BY <1>5, <2>2 DEF SliceOf, Plain
<1>9. Before(u, v)
  <2>1. 1 <= k + 1 /\ k < k + 1 /\ k + 1 <= Len(block) + 1 /\ k + 1 \in Nat
    BY <1>5, <1>6
  <2> QED
    BY <1>2, <1>5, <1>6, <2>1, Cuttings
<1>10. \A c \in From(block) : c \in From(u) \/ c \in From(v)
  <2> TAKE c \in From(block)
  <2>1. PICK i \in DOMAIN block : block[i] = c /\ c # 0
    BY DEF From
  <2>2. i \in 1 .. k \/ i \in k + 1 .. Len(block)
    BY <1>5, <1>6
  <2> QED
    BY <1>7, <1>8, <2>1, <2>2
<1>11. /\ x \in Plain /\ Increasing(x) /\ Len(x) <= MergeLimit
       /\ From(x) \subseteq From(u) /\ Ink \cap From(u) \subseteq From(x)
  <2>1. /\ x \in Seq(Nat \ {0}) /\ Len(x) \in Nat /\ Len(x) <= Len(u) /\ Increasing(x)
        /\ From(x) \subseteq From(u) /\ Ink \cap From(u) \subseteq From(x)
    BY <1>3, <1>7, Strips DEF Plain
  <2> QED
    BY <1>6, <1>7, <2>1 DEF Plain
<1>12. /\ block' \in Plain /\ Increasing(block')
       /\ From(block') \subseteq From(v) /\ Ink \cap From(v) \subseteq From(block')
  <2>1. PICK y : y = Strip(v)
    OBVIOUS
  <2>2. /\ y \in Seq(Nat \ {0}) /\ Increasing(y)
        /\ From(y) \subseteq From(v) /\ Ink \cap From(v) \subseteq From(y)
    BY <1>8, <2>1, Strips DEF Plain
  <2> QED
    BY <1>4, <2>1, <2>2 DEF Plain
<1>13. /\ Before(x, block') /\ \A q \in parts : Before(x, q) /\ Before(block', q)
  <2>1. From(x) \subseteq From(block) /\ From(block') \subseteq From(block)
    BY <1>7, <1>8, <1>11, <1>12
  <2> QED
    BY <1>5, <1>9, <1>11, <1>12, <2>1, BeforeKept
<1>14. /\ pieces \in Seq(Plain) /\ Limited(pieces) /\ Ordered(pieces)
       /\ \A i \in DOMAIN pieces :
            /\ Before(pieces[i], x) /\ Before(pieces[i], block')
            /\ \A q \in parts : Before(pieces[i], q)
  <2>1. /\ pieces \in Seq(Plain) /\ Limited(pieces) /\ Ordered(pieces)
        /\ \A i \in DOMAIN pieces :
             Before(pieces[i], block) /\ \A q \in parts : Before(pieces[i], q)
    BY DEF ParagraphInv, PiecesFit
  <2>2. From(x) \subseteq From(block) /\ From(block') \subseteq From(block)
    BY <1>7, <1>8, <1>11, <1>12
  <2> QED
    BY <2>1, <2>2, BeforeKept
<1>15. /\ pieces' \in Seq(Plain) /\ Limited(pieces') /\ Ordered(pieces')
       /\ OneMore(pieces', pieces, x)
  <2>1. pieces' = Append(pieces, x) /\ \A i \in DOMAIN pieces : Before(pieces[i], x)
    BY <1>4, <1>14
  <2> QED
    BY <1>11, <1>14, <2>1, Behind
<1>16. StagesFit'
  BY <1>4 DEF StagesFit, Stages, Splitting
<1>17. ToSplit'
  BY <1>4, <1>5, <1>12, <1>13 DEF ToSplit
<1>18. PiecesFit'
  <2>1. ASSUME NEW i \in DOMAIN pieces'
        PROVE  Before(pieces'[i], block') /\ \A q \in parts : Before(pieces'[i], q)
    BY <1>13, <1>14, <1>15, <2>1 DEF OneMore
  <2> QED
    BY <1>4, <1>15, <2>1 DEF PiecesFit
<1>19. ChunksFit'
  <2>1. DOMAIN raw = {} /\ \A j \in DOMAIN pieces' : Before(<<>>, pieces'[j])
    BY <1>4, EmptyString
  <2> QED
    BY <1>4, <2>1 DEF ParagraphInv, ChunksFit
<1>20. NothingLost'
  <2>1. ASSUME NEW c \in Ink PROVE Somewhere(c)'
    <3>1. \/ c \in From(block) \/ \E q \in parts : c \in From(q)
          \/ \E i \in DOMAIN pieces : c \in From(pieces[i])
      BY <1>4, <2>1, EmptyString DEF ParagraphInv, NothingLost, Somewhere
    <3>2. c \in From(block) => c \in From(x) \/ c \in From(block')
      BY <1>10, <1>11, <1>12, <2>1
    <3>3. \/ c \in From(block') \/ \E q \in parts' : c \in From(q)
          \/ \E i \in DOMAIN pieces' : c \in From(pieces'[i])
      BY <1>4, <1>15, <3>1, <3>2 DEF OneMore
    <3> QED
      BY <3>3 DEF Somewhere
  <2> QED
    BY <1>4, <2>1 DEF NothingLost
<1> QED
  BY <1>4, <1>16, <1>17, <1>18, <1>19, <1>20 DEF ParagraphInv

LEMMA CutEndsStep ==
  ASSUME ParagraphInv, CutEnds, text' = text
  PROVE  ParagraphInv'
<1>1. /\ stage = "cut" /\ Len(block) <= MergeLimit /\ block' = <<>> /\ stage' = "parts"
      /\ parts' = parts /\ current' = current /\ raw' = raw
      /\ pieces' = IF block = <<>> THEN pieces ELSE Append(pieces, block)
      /\ Ink' = Ink /\ current = <<>> /\ raw = <<>>
  BY SameInk DEF CutEnds, ParagraphInv, StagesFit, Splitting
<1>2. /\ block \in Plain /\ Increasing(block)
      /\ \A q \in parts : q \in Plain /\ q # <<>> /\ Increasing(q) /\ Before(block, q)
      /\ \A q, r \in parts : q = r \/ Before(q, r) \/ Before(r, q)
      /\ pieces \in Seq(Plain) /\ Limited(pieces) /\ Ordered(pieces)
      /\ \A i \in DOMAIN pieces :
           Before(pieces[i], block) /\ \A q \in parts : Before(pieces[i], q)
  BY DEF ParagraphInv, ToSplit, PiecesFit
<1>3. /\ pieces' \in Seq(Plain) /\ Limited(pieces') /\ Ordered(pieces')
      /\ IF block = <<>> THEN pieces' = pieces ELSE OneMore(pieces', pieces, block)
  <2>1. CASE block = <<>>
    BY <1>1, <1>2, <2>1
  <2>2. CASE block # <<>>
    <3>1. pieces' = Append(pieces, block)
      BY <1>1, <2>2
    <3>2. \A i \in DOMAIN pieces : Before(pieces[i], block)
      BY <1>2
    <3> QED
      BY <1>1, <1>2, <3>1, <3>2, Behind
  <2> QED
    BY <2>1, <2>2
<1>4. StagesFit'
  BY <1>1 DEF StagesFit, Stages, Splitting
<1>5. ToSplit'
  BY <1>1, <1>2, EmptyString DEF ToSplit
<1>6. PiecesFit'
  <2>1. ASSUME NEW i \in DOMAIN pieces'
        PROVE  Before(pieces'[i], <<>>) /\ \A q \in parts : Before(pieces'[i], q)
    BY <1>2, <1>3, <2>1, EmptyString DEF OneMore
  <2> QED
    BY <1>1, <1>3, <2>1 DEF PiecesFit
<1>7. ChunksFit'
  <2>1. DOMAIN raw = {} /\ \A j \in DOMAIN pieces' : Before(<<>>, pieces'[j])
    BY <1>1, EmptyString
  <2> QED
    BY <1>1, <2>1 DEF ParagraphInv, ChunksFit
<1>8. NothingLost'
  <2>1. ASSUME NEW c \in Ink PROVE Somewhere(c)'
    <3>1. \/ c \in From(block) \/ \E q \in parts : c \in From(q)
          \/ \E i \in DOMAIN pieces : c \in From(pieces[i])
      BY <1>1, <2>1, EmptyString DEF ParagraphInv, NothingLost, Somewhere
    <3>2. \/ \E q \in parts' : c \in From(q)
          \/ \E i \in DOMAIN pieces' : c \in From(pieces'[i])
      BY <1>1, <1>3, <3>1, EmptyString DEF OneMore
    <3> QED
      BY <3>2 DEF Somewhere
  <2> QED
    BY <1>1, <2>1 DEF NothingLost
<1> QED
  BY <1>1, <1>4, <1>5, <1>6, <1>7, <1>8 DEF ParagraphInv

LEMMA SplitEndsStep ==
  ASSUME ParagraphInv, SplitEnds, text' = text
  PROVE  ParagraphInv'
<1>1. /\ stage = "parts" /\ parts = {} /\ stage' = "merge" /\ block = <<>>
      /\ block' = block /\ parts' = parts /\ pieces' = pieces /\ current' = current /\ raw' = raw
      /\ Ink' = Ink
  BY SameInk DEF SplitEnds, ParagraphInv, StagesFit
<1>2. StagesFit'
  BY <1>1 DEF ParagraphInv, StagesFit, Stages, Splitting
<1> QED
  BY <1>1, <1>2 DEF ParagraphInv, ToSplit, PiecesFit, ChunksFit, NothingLost, Somewhere

\* What is flushed.
LEMMA Flushes ==
  ASSUME ParagraphInv
  PROVE  /\ Flushed \in Seq(Seq(Nat)) /\ Limited(Flushed) /\ Ordered(Flushed)
         /\ \A i \in DOMAIN Flushed :
              (i \in DOMAIN raw /\ Flushed[i] = raw[i]) \/ Flushed[i] = current
         /\ \A i \in DOMAIN raw : i \in DOMAIN Flushed /\ Flushed[i] = raw[i]
         /\ \A c \in From(current) : \E i \in DOMAIN Flushed : c \in From(Flushed[i])
<1>1. /\ raw \in Seq(Seq(Nat)) /\ Limited(raw) /\ Ordered(raw)
      /\ current \in Seq(Nat) /\ Increasing(current) /\ Len(current) <= MergeLimit
      /\ \A i \in DOMAIN raw : Before(raw[i], current)
  BY DEF ParagraphInv, ChunksFit
<1>2. CASE current = <<>>
  <2>1. Flushed = raw
    BY <1>2 DEF Flushed
  <2> QED
    BY <1>1, <1>2, <2>1, EmptyString
<1>3. CASE current # <<>>
  <2>1. Flushed = Append(raw, current)
    BY <1>3 DEF Flushed
  <2>2. /\ Flushed \in Seq(Seq(Nat)) /\ Limited(Flushed) /\ Ordered(Flushed)
        /\ OneMore(Flushed, raw, current)
    BY <1>1, <2>1, Behind
  <2> QED
    BY <2>2 DEF OneMore
<1> QED
  BY <1>2, <1>3

LEMMA MergesStep ==
  ASSUME ParagraphInv, Merges, text' = text
  PROVE  ParagraphInv'
<1>1. PICK p, g : p = Head(pieces) /\ g = Tail(pieces)
  OBVIOUS
<1>2. /\ stage = "merge" /\ pieces # <<>> /\ pieces' = g
      /\ stage' = stage /\ block' = block /\ parts' = parts /\ Ink' = Ink
      /\ block = <<>> /\ parts = {}
  BY <1>1, SameInk DEF Merges, ParagraphInv, StagesFit
<1>3. IF Len(current) + Len(p) + 1 <= MergeLimit
      THEN current' = (IF current = <<>> THEN p ELSE Joined(current, p)) /\ raw' = raw
      ELSE current' = p /\ raw' = Flushed
  BY <1>1 DEF Merges
<1>4. /\ pieces \in Seq(Plain) /\ Limited(pieces) /\ Ordered(pieces)
      /\ raw \in Seq(Seq(Nat)) /\ Limited(raw) /\ Ordered(raw)
      /\ current \in Seq(Nat) /\ Increasing(current) /\ Len(current) <= MergeLimit
      /\ \A i \in DOMAIN raw : Before(raw[i], current)
      /\ \A j \in DOMAIN pieces :
           Before(current, pieces[j]) /\ \A i \in DOMAIN raw : Before(raw[i], pieces[j])
  BY DEF ParagraphInv, PiecesFit, ChunksFit
<1>5. /\ p \in Plain /\ Increasing(p) /\ Len(p) <= MergeLimit
      /\ g \in Seq(Plain) /\ Limited(g) /\ Ordered(g) /\ OneLess(g, pieces, p)
  BY <1>1, <1>2, <1>4, FirstTaken
<1>6. p \in Seq(Nat) /\ Before(current, p) /\ \A i \in DOMAIN raw : Before(raw[i], p)
  BY <1>4, <1>5, PlainString DEF OneLess
<1>7. \A j \in DOMAIN g : Before(current, g[j]) /\ \A i \in DOMAIN raw : Before(raw[i], g[j])
  BY <1>4, <1>5 DEF OneLess
<1>8. ASSUME NEW c \in Ink
      PROVE  \/ c \in From(p) \/ \E j \in DOMAIN g : c \in From(g[j])
             \/ c \in From(current) \/ \E i \in DOMAIN raw : c \in From(raw[i])
  <2>1. \/ \E i \in DOMAIN pieces : c \in From(pieces[i])
        \/ c \in From(current) \/ \E i \in DOMAIN raw : c \in From(raw[i])
    BY <1>2, <1>8, EmptyString DEF ParagraphInv, NothingLost, Somewhere
  <2> QED
    BY <1>5, <2>1 DEF OneLess
<1>9. /\ raw' \in Seq(Seq(Nat)) /\ Limited(raw') /\ Ordered(raw')
      /\ current' \in Seq(Nat) /\ Increasing(current') /\ Len(current') <= MergeLimit
      /\ \A i \in DOMAIN raw' : Before(raw'[i], current')
      /\ \A j \in DOMAIN g :
           Before(current', g[j]) /\ \A i \in DOMAIN raw' : Before(raw'[i], g[j])
      /\ \A c : \/ c \in From(p) \/ c \in From(current) \/ \E i \in DOMAIN raw : c \in From(raw[i])
                => c \in From(current') \/ \E i \in DOMAIN raw' : c \in From(raw'[i])
  <2>1. CASE Len(current) + Len(p) + 1 <= MergeLimit /\ current = <<>>
    <3>1. current' = p /\ raw' = raw
      BY <1>3, <2>1
    <3> QED
      BY <1>4, <1>5, <1>6, <1>7, <2>1, <3>1, EmptyString DEF OneLess
  <2>2. CASE Len(current) + Len(p) + 1 <= MergeLimit /\ current # <<>>
    <3>1. current' = Joined(current, p) /\ raw' = raw
      BY <1>3, <2>2
    <3>2. PICK j : j = Joined(current, p)
      OBVIOUS
    <3>3. /\ j \in Seq(Nat) /\ Len(j) = Len(current) + Len(p) + 1
          /\ From(j) = From(current) \cup From(p) /\ Increasing(j)
      BY <1>4, <1>5, <1>6, <3>2, Joins
    <3>4. /\ \A i \in DOMAIN raw : Before(raw[i], j)
          /\ \A i \in DOMAIN g : Before(j, g[i])
      BY <1>4, <1>5, <1>6, <1>7, <3>3 DEF Before, OneLess
    <3> QED
      BY <1>4, <1>7, <2>2, <3>1, <3>2, <3>3, <3>4
  <2>3. CASE ~(Len(current) + Len(p) + 1 <= MergeLimit)
    <3>1. current' = p /\ raw' = Flushed
      BY <1>3, <2>3
    <3>2. /\ Flushed \in Seq(Seq(Nat)) /\ Limited(Flushed) /\ Ordered(Flushed)
          /\ \A i \in DOMAIN Flushed :
               (i \in DOMAIN raw /\ Flushed[i] = raw[i]) \/ Flushed[i] = current
          /\ \A i \in DOMAIN raw : i \in DOMAIN Flushed /\ Flushed[i] = raw[i]
          /\ \A c \in From(current) : \E i \in DOMAIN Flushed : c \in From(Flushed[i])
      BY Flushes
    <3> QED
      BY <1>5, <1>6, <1>7, <3>1, <3>2, ZenonT(60) DEF OneLess
  <2> QED
    BY <2>1, <2>2, <2>3
<1>10. StagesFit' /\ ToSplit'
  BY <1>2 DEF ParagraphInv, StagesFit, Stages, Splitting, ToSplit
<1>11. PiecesFit'
  BY <1>2, <1>5, EmptyString DEF PiecesFit
<1>12. ChunksFit'
  BY <1>2, <1>9 DEF ChunksFit
<1>13. NothingLost'
  <2>1. ASSUME NEW c \in Ink PROVE Somewhere(c)'
    BY <1>2, <1>8, <1>9, <2>1 DEF Somewhere
  <2> QED
    BY <1>2, <2>1 DEF NothingLost
<1> QED
  BY <1>2, <1>10, <1>11, <1>12, <1>13 DEF ParagraphInv

LEMMA MergeEndsStep ==
  ASSUME ParagraphInv, MergeEnds, text' = text
  PROVE  ParagraphInv'
<1>1. /\ stage = "merge" /\ pieces = <<>> /\ raw' = Flushed /\ current' = <<>> /\ stage' = "done"
      /\ block' = block /\ parts' = parts /\ pieces' = pieces /\ Ink' = Ink
      /\ block = <<>> /\ parts = {} /\ DOMAIN pieces = {}
  BY SameInk, EmptyString DEF MergeEnds, ParagraphInv, StagesFit
<1>2. /\ Flushed \in Seq(Seq(Nat)) /\ Limited(Flushed) /\ Ordered(Flushed)
      /\ \A i \in DOMAIN raw : i \in DOMAIN Flushed /\ Flushed[i] = raw[i]
      /\ \A c \in From(current) : \E i \in DOMAIN Flushed : c \in From(Flushed[i])
  BY Flushes
<1>3. StagesFit' /\ ToSplit' /\ PiecesFit'
  BY <1>1 DEF ParagraphInv, StagesFit, Stages, Splitting, ToSplit, PiecesFit
<1>4. ChunksFit'
  BY <1>1, <1>2, EmptyString, Limits DEF ChunksFit
<1>5. NothingLost'
  <2>1. ASSUME NEW c \in Ink PROVE Somewhere(c)'
    <3>1. c \in From(current) \/ \E i \in DOMAIN raw : c \in From(raw[i])
      BY <1>1, <2>1, EmptyString DEF ParagraphInv, NothingLost, Somewhere
    <3>2. \E i \in DOMAIN raw' : c \in From(raw'[i])
      BY <1>1, <1>2, <3>1
    <3> QED
      BY <3>2 DEF Somewhere
  <2> QED
    BY <1>1, <2>1 DEF NothingLost
<1> QED
  BY <1>1, <1>3, <1>4, <1>5 DEF ParagraphInv

LEMMA ParagraphSteps == ParagraphInv /\ [ChunkNext]_allVars => ParagraphInv'
<1> SUFFICES ASSUME ParagraphInv, [ChunkNext]_allVars PROVE ParagraphInv'
  OBVIOUS
<1>1. text' = text
  BY DEF ChunkNext, allVars, vars, Next, TakesWindow, FindsOffset
<1>2. ASSUME UNCHANGED paragraphVars PROVE ParagraphInv'
  BY <1>1, <1>2, SameInk DEF paragraphVars, ParagraphInv, StagesFit, Stages, Splitting, ToSplit,
                             PiecesFit, ChunksFit, Limited, Ordered, NothingLost, Somewhere
<1>3. ASSUME ParagraphStep PROVE ParagraphInv'
  BY <1>1, <1>3, SplitsBlockStep, TakesPartStep, CutsStep, CutEndsStep, SplitEndsStep,
     MergesStep, MergeEndsStep DEF ParagraphStep
<1> QED
  BY <1>2, <1>3 DEF ChunkNext, allVars

\* The inductive invariant of the paragraph-aware strategy holds in every
\* reachable state.
THEOREM ParagraphInductive == CleanSpec => []ParagraphInv
BY ParagraphInitially, ParagraphSteps, PTL DEF CleanSpec

-----------------------------------------------------------------------------
(* Trim, tail merge and overlap.                                           *)

LEMMA TrimIsInside ==
  ASSUME NEW s \in Seq(Nat)
  PROVE  TrimAt(s) \in Nat /\ TrimAt(s) <= Len(s)
<1>1. Len(s) \in Nat /\ DOMAIN s = 1 .. Len(s)
  OBVIOUS
<1>2. PICK ends : ends = {j \in SentenceEnds(s) : j > (Len(s) * TrimFrom) \div 100}
  OBVIOUS
<1>3. \A j \in ends : j \in 0 .. Len(s)
  <2> TAKE j \in ends
  <2>1. j \in SentenceEnds(s)
    BY <1>2
  <2>2. j \in DOMAIN s
    BY <2>1 DEF SentenceEnds
  <2> QED
    BY <1>1, <2>2
<1>4. TrimAt(s) = IF ends # {} /\ Greatest(ends) + TrimSlack < Len(s) THEN Greatest(ends) ELSE Len(s)
  BY <1>2 DEF TrimAt
<1>5. ends # {} => Greatest(ends) \in 0 .. Len(s)
  <2>1. ends \in SUBSET (0 .. Len(s))
    BY <1>3
  <2> QED
    BY <1>1, <2>1, GreatestIsThere
<1> QED
  BY <1>1, <1>4, <1>5

\* A function on the first n numbers is a sequence.
LEMMA Listed ==
  ASSUME NEW S, NEW n \in Nat, NEW f \in [1 .. n -> S]
  PROVE  f \in Seq(S) /\ Len(f) = n
  OBVIOUS

\* What the trim leaves of the chunks.
LEMMA TrimmedFit ==
  ASSUME raw \in Seq(Seq(Nat)), Limited(raw), Ordered(raw)
  PROVE  /\ Trimmed \in Seq(Seq(Nat)) /\ Len(Trimmed) = Len(raw) /\ DOMAIN Trimmed = DOMAIN raw
         /\ Limited(Trimmed) /\ Ordered(Trimmed)
<1>1. Len(raw) \in Nat /\ DOMAIN raw = 1 .. Len(raw) /\ MergeLimit \in Nat
  BY Limits
<1>2. ASSUME NEW i \in DOMAIN raw
      PROVE  /\ Trimmed[i] \in Seq(Nat) /\ From(Trimmed[i]) \subseteq From(raw[i])
             /\ Increasing(Trimmed[i]) /\ Len(Trimmed[i]) <= MergeLimit
  <2>1. PICK s, k : s = raw[i] /\ k = TrimAt(s)
    OBVIOUS
  <2>2. s \in Seq(Nat) /\ Increasing(s) /\ Len(s) <= MergeLimit /\ Len(s) \in Nat
    BY <1>2, <2>1 DEF Limited
  <2>3. Trimmed[i] = s \/ Trimmed[i] = Strip(SubSeq(s, 1, k))
    BY <1>2, <2>1 DEF Trimmed
  <2>4. PICK t : t = SubSeq(s, 1, k)
    OBVIOUS
  <2>5. t \in Seq(Nat) /\ SliceOf(t, s, 1, k)
    <3>1. k \in Nat /\ k <= Len(s) /\ 1 \in Nat /\ 1 <= 1 /\ 1 <= k + 1
      BY <2>1, <2>2, TrimIsInside
    <3> QED
      BY <2>2, <2>4, <3>1, Slice
  <2>6. From(t) \subseteq From(s) /\ Increasing(t) /\ Len(t) <= Len(s) /\ Len(t) \in Nat
    BY <2>2, <2>5 DEF SliceOf
  <2>7. /\ Strip(t) \in Seq(Nat) /\ From(Strip(t)) \subseteq From(t) /\ Increasing(Strip(t))
        /\ Len(Strip(t)) <= Len(t) /\ Len(Strip(t)) \in Nat
    BY <2>5, <2>6, Strips
  <2>8. Len(Strip(t)) <= MergeLimit
    BY <1>1, <2>2, <2>6, <2>7
  <2> QED
    BY <2>1, <2>2, <2>3, <2>4, <2>6, <2>7, <2>8
<1>3. DOMAIN Trimmed = DOMAIN raw
  BY DEF Trimmed
<1>4. Trimmed \in Seq(Seq(Nat)) /\ Len(Trimmed) = Len(raw)
  <2>1. PICK T : T = Trimmed
    OBVIOUS
  <2>2. T \in [1 .. Len(raw) -> Seq(Nat)]
    <3>1. Trimmed = [i \in DOMAIN Trimmed |-> Trimmed[i]]
      BY DEF Trimmed
    <3> QED
      BY <1>1, <1>2, <1>3, <2>1, <3>1
  <2> QED
    BY <1>1, <2>1, <2>2, Listed
<1>5. Ordered(Trimmed)
  <2>1. ASSUME NEW i \in DOMAIN raw, NEW j \in DOMAIN raw, i < j
        PROVE  Before(Trimmed[i], Trimmed[j])
    <3>1. Before(raw[i], raw[j])
      BY <2>1 DEF Ordered
    <3> QED
      BY <1>2, <3>1, BeforeKept
  <2> QED
    BY <1>3, <2>1 DEF Ordered
<1> QED
  BY <1>2, <1>3, <1>4, <1>5 DEF Limited

\* All but the last chunk keep the limit; the last one may have a tail.
Merging(m) ==
  /\ m # <<>> /\ Ordered(m)
  /\ \A i \in DOMAIN m :
       /\ Increasing(m[i])
       /\ Len(m[i]) <= MergeLimit + (IF i = Len(m) THEN MinChunkSize ELSE 0)

\* The tail merge keeps everything, in order.
LEMMA TailFits ==
  ASSUME NEW t \in Seq(Seq(Nat)), t # <<>>, Limited(t), Ordered(t)
  PROVE  /\ TailMerged(t) \in Seq(Seq(Nat)) /\ Merging(TailMerged(t))
         /\ Covered(t) \subseteq Covered(TailMerged(t))
<1>1. PICK n, m : n = Len(t) /\ m = TailMerged(t)
  OBVIOUS
<1>2. /\ n \in Nat \ {0} /\ DOMAIN t = 1 .. n /\ MergeLimit \in Nat /\ MinChunkSize \in Nat \ {0}
      /\ \A i \in 1 .. n : t[i] \in Seq(Nat) /\ Increasing(t[i]) /\ Len(t[i]) \in Nat
                           /\ Len(t[i]) <= MergeLimit
  <2>1. n \in Nat \ {0} /\ DOMAIN t = 1 .. n
    BY <1>1, EmptySeq
  <2>2. ASSUME NEW i \in 1 .. n PROVE t[i] \in Seq(Nat) /\ Len(t[i]) \in Nat
    BY <2>1, <2>2
  <2> QED
    BY <2>1, <2>2, Limits DEF Limited
<1>3. CASE n > 1 /\ Len(t[n]) < MinChunkSize
  <2>1. PICK j : j = Joined(t[n - 1], t[n])
    OBVIOUS
  <2>2. n - 1 \in 1 .. n /\ n \in 1 .. n /\ n - 1 < n /\ n - 1 \in Nat \ {0}
    BY <1>2, <1>3
  <2>3. Before(t[n - 1], t[n])
    BY <1>2, <2>2 DEF Ordered
  <2>4. /\ j \in Seq(Nat) /\ Len(j) = Len(t[n - 1]) + Len(t[n]) + 1 /\ Increasing(j)
        /\ From(j) = From(t[n - 1]) \cup From(t[n])
    BY <1>2, <2>1, <2>2, <2>3, Joins
  <2>5. Len(j) \in Nat /\ Len(j) <= MergeLimit + MinChunkSize
    BY <1>2, <1>3, <2>2, <2>4
  <2>6. m = [i \in 1 .. n - 1 |-> IF i = n - 1 THEN j ELSE t[i]]
    BY <1>1, <1>3, <2>1 DEF TailMerged
  <2>7. /\ DOMAIN m = 1 .. n - 1 /\ m[n - 1] = j
        /\ \A i \in 1 .. n - 1 : i # n - 1 => m[i] = t[i]
    BY <2>2, <2>6
  <2>8. \A i \in 1 .. n - 1 : i \in 1 .. n /\ m[i] \in Seq(Nat)
    <3> TAKE i \in 1 .. n - 1
    <3>1. i \in 1 .. n
      BY <1>2
    <3> QED
      BY <1>2, <2>4, <2>7, <3>1
  <2>9. m \in Seq(Seq(Nat)) /\ Len(m) = n - 1
    <3>1. m \in [1 .. n - 1 -> Seq(Nat)]
      BY <2>6, <2>7, <2>8
    <3> QED
      BY <2>2, <3>1, Listed
  <2>10. ASSUME NEW i \in 1 .. n - 1
         PROVE  /\ Increasing(m[i])
                /\ Len(m[i]) <= MergeLimit + (IF i = n - 1 THEN MinChunkSize ELSE 0)
    <3>1. CASE i = n - 1
      BY <2>4, <2>5, <2>7, <3>1
    <3>2. CASE i # n - 1
      <4>1. m[i] = t[i] /\ i \in 1 .. n
        BY <2>7, <2>8, <3>2
      <4> QED
        BY <1>2, <3>2, <4>1
    <3> QED
      BY <3>1, <3>2
  <2>11. Ordered(m)
    <3>1. ASSUME NEW i \in 1 .. n - 1, NEW k \in 1 .. n - 1, i < k PROVE Before(m[i], m[k])
      <4>1. m[i] = t[i] /\ i \in 1 .. n /\ k \in 1 .. n /\ i < n
        BY <1>2, <2>7, <2>8, <3>1
      <4>2. Before(t[i], t[k]) /\ Before(t[i], t[n])
        BY <1>2, <2>2, <3>1, <4>1 DEF Ordered
      <4>3. CASE k = n - 1
        BY <2>4, <2>7, <4>1, <4>2, <4>3 DEF Before
      <4>4. CASE k # n - 1
        BY <2>7, <4>1, <4>2, <4>4
      <4> QED
        BY <4>3, <4>4
    <3> QED
      BY <2>7, <3>1 DEF Ordered
  <2>12. ASSUME NEW i \in 1 .. n, NEW c \in From(t[i]) PROVE \E k \in DOMAIN m : c \in From(m[k])
    <3>1. CASE i < n - 1
      <4>1. i \in 1 .. n - 1 /\ i # n - 1
        BY <1>2, <3>1
      <4> QED
        BY <2>7, <2>12, <4>1
    <3>2. CASE i = n - 1 \/ i = n
      <4>1. n - 1 \in DOMAIN m
        BY <2>2, <2>7
      <4> QED
        BY <2>4, <2>7, <2>12, <3>2, <4>1
    <3> QED
      BY <1>2, <3>1, <3>2
  <2>13. m # <<>>
    BY <2>2, <2>9, EmptySeq
  <2>14. Covered(t) \subseteq Covered(m)
    BY <1>2, <2>12 DEF Covered
  <2>15. Merging(m)
    BY <2>7, <2>9, <2>10, <2>11, <2>13 DEF Merging
  <2> QED
    BY <1>1, <2>9, <2>14, <2>15
<1>4. CASE ~(n > 1 /\ Len(t[n]) < MinChunkSize)
  <2>1. m = t
    BY <1>1, <1>4 DEF TailMerged
  <2>2. \A i \in DOMAIN t : Len(t[i]) <= MergeLimit + (IF i = Len(t) THEN MinChunkSize ELSE 0)
    BY <1>2
  <2> QED
    BY <1>1, <1>2, <2>1, <2>2 DEF Merging
<1> QED
  BY <1>3, <1>4

\* The overlap is a slice of the chunk before, and not too long.
LEMMA OverlapFits ==
  ASSUME NEW s \in Seq(Nat), Increasing(s)
  PROVE  /\ Overlap(s) \in Seq(Nat) /\ Increasing(Overlap(s)) /\ From(Overlap(s)) \subseteq From(s)
         /\ Len(Overlap(s)) <= ChunkOverlap
<1>1. PICK n, k : n = Len(s) /\ k = Min2(ChunkOverlap, n)
  OBVIOUS
<1>2. PICK ov : ov = SubSeq(s, n - k + 1, n)
  OBVIOUS
<1>3. n \in Nat /\ k \in Nat /\ k <= n /\ k <= ChunkOverlap /\ ChunkOverlap \in Nat
  BY <1>1, Limits DEF Min2
<1>4. ov \in Seq(Nat) /\ SliceOf(ov, s, n - k + 1, n)
  <2>1. PICK a : a = n - k + 1
    OBVIOUS
  <2>2. /\ a \in Nat /\ n \in Nat /\ 1 <= a /\ a <= n + 1 /\ n <= Len(s) /\ ov = SubSeq(s, a, n)
    <3>1. n <= Len(s)
      BY <1>1, <1>3
    <3> QED
      BY <1>2, <1>3, <2>1, <3>1
  <2>3. ov \in Seq(Nat) /\ SliceOf(ov, s, a, n)
    BY <2>2, Slice
  <2> QED
    BY <2>1, <2>3
<1>5. /\ Increasing(ov) /\ From(ov) \subseteq From(s) /\ Len(ov) \in Nat /\ Len(ov) <= ChunkOverlap
  BY <1>3, <1>4 DEF SliceOf
<1> DEFINE At(kind) == {i \in DOMAIN ov : Kind(ov[i]) = kind}
           Rest(kind) == SubSeq(ov, Least(At(kind)) + 1, Len(ov))
<1>6. ASSUME NEW kind, At(kind) # {}
      PROVE  /\ Rest(kind) \in Seq(Nat) /\ Increasing(Rest(kind))
             /\ From(Rest(kind)) \subseteq From(s) /\ Len(Rest(kind)) <= ChunkOverlap
  <2>1. PICK x : x = Least(At(kind))
    OBVIOUS
  <2>2. DOMAIN ov = 1 .. Len(ov) /\ At(kind) \in SUBSET Nat /\ At(kind) \subseteq DOMAIN ov
    BY <1>4
  <2>3. x \in DOMAIN ov
    BY <1>6, <2>1, <2>2, LeastIsThere
  <2>4. PICK a, t : a = x + 1 /\ t = SubSeq(ov, a, Len(ov))
    OBVIOUS
  <2>5. a \in Nat /\ 1 <= a /\ a <= Len(ov) + 1 /\ Len(ov) <= Len(ov)
    BY <1>5, <2>2, <2>3, <2>4
  <2>6. t \in Seq(Nat) /\ SliceOf(t, ov, a, Len(ov))
    BY <1>4, <1>5, <2>4, <2>5, Slice
  <2>7. t = Rest(kind)
    BY <2>1, <2>4
  <2>8. /\ t \in Seq(Nat) /\ Increasing(t) /\ From(t) \subseteq From(s) /\ Len(t) <= ChunkOverlap
    BY <1>3, <1>5, <2>6 DEF SliceOf
  <2> QED
    BY <2>7, <2>8
<1>7. \/ Overlap(s) = ov
      \/ At("n") # {} /\ Overlap(s) = Rest("n")
      \/ At("_") # {} /\ Overlap(s) = Rest("_")
  BY <1>1, <1>2 DEF Overlap
<1> QED
  BY <1>4, <1>5, <1>6, <1>7

\* What the invariant says once the loops have ended.
LEMMA DoneIsTrimmed ==
  ASSUME ParagraphInv
  PROVE  LossIsTrimmed
<1> SUFFICES ASSUME stage = "done"
             PROVE  LET out == ParagraphAware IN
                      /\ out # <<>>
                      /\ Ink \ Covered(out) \subseteq TrimmedOff
                      /\ \A i, j \in DOMAIN out : i < j => Before(Merged[i], Merged[j])
                      /\ \A i \in DOMAIN out :
                           /\ Increasing(out[i])
                           /\ Len(out[i]) <= MergeLimit + ChunkOverlap + 1
                                + (IF i = Len(out) THEN MinChunkSize ELSE 0)
  BY DEF LossIsTrimmed
<1>1. /\ raw \in Seq(Seq(Nat)) /\ Limited(raw) /\ Ordered(raw)
      /\ \A c \in Ink : \E i \in DOMAIN raw : c \in From(raw[i])
  <2>1. /\ block = <<>> /\ parts = {} /\ pieces = <<>> /\ current = <<>>
    BY DEF ParagraphInv, StagesFit
  <2> QED
    BY <2>1, EmptyString DEF ParagraphInv, ChunksFit, NothingLost, Somewhere
<1>2. raw # <<>> /\ Len(raw) \in Nat
  <2>1. PICK i \in DOMAIN raw : 1 \in From(raw[i])
    BY <1>1 DEF ParagraphInv
  <2> QED
    BY <1>1, <2>1, EmptySeq
<1>3. PICK t, m, out : t = Trimmed /\ m = Merged /\ out = ParagraphAware
  OBVIOUS
<1>4. /\ t \in Seq(Seq(Nat)) /\ Len(t) = Len(raw) /\ DOMAIN t = DOMAIN raw
      /\ Limited(t) /\ Ordered(t)
  BY <1>1, <1>3, TrimmedFit
<1>5. t # <<>>
  BY <1>1, <1>2, <1>4, EmptySeq
<1>6. m \in Seq(Seq(Nat)) /\ Merging(m) /\ Covered(t) \subseteq Covered(m)
  <2>1. m = TailMerged(t)
    BY <1>3 DEF Merged
  <2> QED
    BY <1>4, <1>5, <2>1, TailFits
<1>7. PICK n : n = Len(m)
  OBVIOUS
<1>8. /\ n \in Nat \ {0} /\ DOMAIN m = 1 .. n
      /\ MergeLimit \in Nat /\ MinChunkSize \in Nat /\ ChunkOverlap \in Nat
  <2>1. m # <<>>
    BY <1>6 DEF Merging
  <2> QED
    BY <1>6, <1>7, <2>1, EmptySeq, Limits
<1>9. out = [i \in 1 .. n |-> IF i = 1 THEN m[i] ELSE Joined(Overlap(m[i - 1]), m[i])]
  BY <1>3, <1>8 DEF ParagraphAware
<1>10. /\ \A i, j \in 1 .. n : i < j => Before(m[i], m[j])
       /\ \A i \in 1 .. n :
            /\ m[i] \in Seq(Nat) /\ Len(m[i]) \in Nat /\ Increasing(m[i])
            /\ Len(m[i]) <= MergeLimit + (IF i = n THEN MinChunkSize ELSE 0)
  <2>1. ASSUME NEW i \in 1 .. n PROVE m[i] \in Seq(Nat) /\ Len(m[i]) \in Nat
    BY <1>6, <1>8, <2>1
  <2> QED
    BY <1>6, <1>7, <1>8, <2>1 DEF Merging, Ordered
<1>11. ASSUME NEW i \in 1 .. n
       PROVE  /\ out[i] \in Seq(Nat) /\ Increasing(out[i]) /\ From(m[i]) \subseteq From(out[i])
              /\ Len(out[i]) <= MergeLimit + ChunkOverlap + 1 + (IF i = n THEN MinChunkSize ELSE 0)
  <2>1. CASE i = 1
    <3>1. out[i] = m[i]
      BY <1>9, <1>11, <2>1
    <3>2. PICK l, x : l = Len(m[i]) /\ x = IF i = n THEN MinChunkSize ELSE 0
      OBVIOUS
    <3>3. l \in Nat /\ x \in Nat /\ l <= MergeLimit + x
      BY <1>8, <1>10, <1>11, <3>2
    <3>4. l <= MergeLimit + ChunkOverlap + 1 + x
      BY <1>8, <3>3
    <3> QED
      BY <1>10, <1>11, <3>1, <3>2, <3>4
  <2>2. CASE i # 1
    <3>1. i - 1 \in 1 .. n /\ i - 1 < i
      BY <1>8, <1>11, <2>2
    <3>2. PICK o : o = Overlap(m[i - 1])
      OBVIOUS
    <3>3. out[i] = Joined(o, m[i])
      BY <1>9, <1>11, <2>2, <3>2
    <3>4. /\ o \in Seq(Nat) /\ Increasing(o) /\ From(o) \subseteq From(m[i - 1])
          /\ Len(o) <= ChunkOverlap
      BY <1>10, <3>1, <3>2, OverlapFits
    <3>5. Before(o, m[i])
      <4>1. Before(m[i - 1], m[i])
        BY <1>10, <1>11, <3>1
      <4> QED
        BY <3>4, <4>1, BeforeKept
    <3>6. /\ out[i] \in Seq(Nat) /\ Len(out[i]) = Len(o) + Len(m[i]) + 1
          /\ Len(o) \in Nat /\ Increasing(out[i]) /\ From(out[i]) = From(o) \cup From(m[i])
      BY <1>10, <1>11, <3>3, <3>4, <3>5, Joins
    <3>7. PICK l, x : l = Len(m[i]) /\ x = IF i = n THEN MinChunkSize ELSE 0
      OBVIOUS
    <3>8. l \in Nat /\ x \in Nat /\ l <= MergeLimit + x
      BY <1>8, <1>10, <1>11, <3>7
    <3>9. Len(out[i]) <= MergeLimit + ChunkOverlap + 1 + x
      BY <1>8, <3>4, <3>6, <3>7, <3>8
    <3> QED
      BY <3>6, <3>7, <3>9
  <2> QED
    BY <2>1, <2>2
<1>12. DOMAIN out = 1 .. n /\ Len(out) = n /\ out # <<>>
  <2>1. DOMAIN out = 1 .. n
    BY <1>9
  <2>2. out \in [1 .. n -> Seq(Nat)]
    BY <1>9, <1>11, <2>1
  <2>3. out \in Seq(Seq(Nat)) /\ Len(out) = n
    BY <1>8, <2>2, Listed
  <2> QED
    BY <1>8, <2>1, <2>3, EmptySeq
<1>13. Ink \ Covered(out) \subseteq TrimmedOff
  <2>1. ASSUME NEW c \in Ink, c \notin TrimmedOff PROVE c \in Covered(out)
    <3>1. PICK i \in DOMAIN raw : c \in From(raw[i])
      BY <1>1, <2>1
    <3>2. c \in From(t[i])
      BY <1>3, <2>1, <3>1 DEF TrimmedOff
    <3>3. c \in Covered(m)
      BY <1>4, <1>6, <3>1, <3>2 DEF Covered
    <3>4. PICK j \in 1 .. n : c \in From(m[j])
      BY <1>8, <3>3 DEF Covered
    <3> QED
      BY <1>11, <1>12, <3>4 DEF Covered
  <2> QED
    BY <2>1
<1> QED
  BY <1>3, <1>10, <1>11, <1>12, <1>13

\* Whatever the text and the sizes, the paragraph-aware strategy loses only what
\* its sentence trim takes off, keeps the order and repeats nothing but the
\* overlap (_split_block, chunk_paragraph_aware).
THEOREM OnlyTrimmedLost == CleanSpec => []LossIsTrimmed
BY ParagraphInductive, DoneIsTrimmed, PTL

\* The fixed-size strategy is chunk_text's other branch: what is shown of its
\* loops holds for every document that is chunked.
THEOREM WindowsOfDocuments == CleanSpec => [](WindowsCover /\ OffsetsNeverBehind)
<1>1. CleanInit => Init
  BY DEF CleanInit
<1>2. [ChunkNext]_allVars => [Next]_vars
  BY DEF ChunkNext, allVars, vars
<1>3. IInv => WindowsCover /\ OffsetsNeverBehind
  BY CutCovers DEF IInv
<1> QED
  BY <1>1, <1>2, <1>3, Initially, Steps, PTL DEF CleanSpec

=============================================================================
