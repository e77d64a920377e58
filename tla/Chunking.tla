------------------------------ MODULE Chunking ------------------------------
(***************************************************************************)
(* How an uploaded document becomes chunks (voice_agent/kb/ingestion/      *)
(* chunking.py): chunk_text cuts a text by one of two strategies, the      *)
(* fixed-size one of FixedWindows or the paragraph-aware one below.        *)
(*                                                                         *)
(* A character is one of four kinds: "x" a capital, "." a sentence end,    *)
(* "_" a space and "n" a newline. A string is the sequence of the          *)
(* positions its characters have in the text, 0 for a newline the chunker  *)
(* put in, so that what becomes of each character can be followed. The     *)
(* sizes are parameters; the code's are 75, 400, 725, 85 % and 5.          *)
(*                                                                         *)
(* Splitting and merging are loops, and a step is one turn of one of them. *)
(* The recursion of _split_block goes through the text from its start to   *)
(* its end, so the parts its nested loops have before them are a set, of   *)
(* which the first in the text is next.                                    *)
(***************************************************************************)
EXTENDS FixedWindows

CONSTANTS
  MinChunkSize, \* MIN_CHUNK_SIZE
  MergeLimit,   \* MERGE_LIMIT
  TrimFrom,     \* the sentence trim looks at a chunk from this percentage on
  TrimSlack     \* and does not take fewer characters than this off

ASSUME SizesMatch ==
  /\ {MinChunkSize, MergeLimit} \subseteq Nat \ {0}
  /\ TrimFrom \in 0 .. 100 /\ TrimSlack \in Nat

VARIABLES
  stage,   \* the loop of chunk_paragraph_aware that is running; "off": not chosen
  block,   \* the block being split, or what remains of it
  parts,   \* the parts that the loops of _split_block have before them
  pieces,  \* the pieces found, and later those not merged yet
  current, \* the chunk being merged
  raw      \* raw_chunks

paragraphVars == <<stage, block, parts, pieces, current, raw>>

allVars == <<vars, paragraphVars>>

White == {"_", "n"}

Kind(c) == IF c = 0 THEN "n" ELSE text[c]

Greatest(S) == CHOOSE i \in S : \A j \in S : j <= i

\* str.strip.
Strip(s) ==
  LET ink == {i \in DOMAIN s : Kind(s[i]) \notin White}
  IN  IF ink = {} THEN <<>> ELSE SubSeq(s, Least(ink), Greatest(ink))

-----------------------------------------------------------------------------
(* _split_block.                                                           *)

\* The places of s that a pattern of re.split matches: blank lines, line ends,
\* the white space after a sentence.
Separators(s, pattern) ==
  CASE pattern = "paragraph" ->
         {i \in DOMAIN s : /\ Kind(s[i]) = "n"
                           /\ \E j \in {i - 1, i + 1} \cap DOMAIN s : Kind(s[j]) = "n"}
    [] pattern = "line" -> {i \in DOMAIN s : Kind(s[i]) = "n"}
    [] pattern = "sentence" ->
         {i \in DOMAIN s : \E j \in 1 .. i - 1 :
            /\ Kind(s[j]) = "."
            /\ \A k \in j + 1 .. i : Kind(s[k]) \in White}

\* The stretch of s around i, from the separator before it to the one behind it.
Run(s, seps, i) ==
  SubSeq(s, Greatest({0} \cup {k \in seps : k < i}) + 1,
            Least({Len(s) + 1} \cup {k \in seps : k > i}) - 1)

\* re.split, the empty parts left out.
Parts(s, pattern) ==
  LET seps == Separators(s, pattern)
      runs == {Run(s, seps, i) : i \in DOMAIN s \ seps}
      kept == IF pattern = "sentence" THEN runs ELSE {Strip(r) : r \in runs}
  IN  kept \ {<<>>}

\* The patterns that leave more than one part, one of them small enough.
Usable(s) ==
  {pattern \in {"paragraph", "line", "sentence"} :
     LET ps == Parts(s, pattern)
     IN  Cardinality(ps) > 1 /\ \E p \in ps : Len(p) <= MergeLimit}

\* They are tried in this order.
FirstPattern(patterns) ==
  CASE "paragraph" \in patterns -> "paragraph"
    [] "paragraph" \notin patterns /\ "line" \in patterns -> "line"
    [] OTHER -> "sentence"

\* _split_block is entered: it goes through the parts, or falls back to cutting.
SplitsBlock ==
  /\ stage = "split"
  /\ IF Usable(block) = {}
       THEN stage' = "cut" /\ UNCHANGED <<block, parts>>
       ELSE /\ stage' = "parts"
            /\ parts' = parts \cup Parts(block, FirstPattern(Usable(block)))
            /\ block' = <<>>
  /\ UNCHANGED <<pieces, current, raw>>

\* The first in the text.
FirstOf(S) == CHOOSE s \in S : \A t \in S : s[1] <= t[1]

\* The next part: a piece, or a block to be split again.
TakesPart ==
  LET p == FirstOf(parts)
  IN  /\ stage = "parts"
      /\ parts # {}
      /\ parts' = parts \ {p}
      /\ IF Len(p) > MergeLimit THEN stage' = "split" /\ block' = p /\ UNCHANGED pieces
                                ELSE pieces' = Append(pieces, p) /\ UNCHANGED <<stage, block>>
      /\ UNCHANGED <<current, raw>>

\* The hard fallback: at the last space that still fits, or in the middle of a word.
CutAt(s) ==
  LET spaces == {i \in 2 .. Min2(MergeLimit + 1, Len(s)) : Kind(s[i]) = "_"}
  IN  IF spaces = {} THEN MergeLimit ELSE Greatest(spaces) - 1

Cuts ==
  /\ stage = "cut"
  /\ Len(block) > MergeLimit
  /\ pieces' = Append(pieces, Strip(SubSeq(block, 1, CutAt(block))))
  /\ block' = Strip(SubSeq(block, CutAt(block) + 1, Len(block)))
  /\ UNCHANGED <<stage, parts, current, raw>>

CutEnds ==
  /\ stage = "cut"
  /\ Len(block) <= MergeLimit
  /\ pieces' = IF block = <<>> THEN pieces ELSE Append(pieces, block)
  /\ block' = <<>>
  /\ stage' = "parts"
  /\ UNCHANGED <<parts, current, raw>>

SplitEnds ==
  /\ stage = "parts"
  /\ parts = {}
  /\ stage' = "merge"
  /\ UNCHANGED <<block, parts, pieces, current, raw>>

-----------------------------------------------------------------------------
(* chunk_paragraph_aware: the loop that merges.                            *)

Joined(s, t) == s \o <<0>> \o t

Flushed == IF current = <<>> THEN raw ELSE Append(raw, current)

\* Pieces are joined by a newline as long as they fit together.
Merges ==
  LET p == Head(pieces)
  IN  /\ stage = "merge"
      /\ pieces # <<>>
      /\ pieces' = Tail(pieces)
      /\ IF Len(current) + Len(p) + 1 <= MergeLimit
           THEN /\ current' = IF current = <<>> THEN p ELSE Joined(current, p)
                /\ UNCHANGED raw
           ELSE current' = p /\ raw' = Flushed
      /\ UNCHANGED <<stage, block, parts>>

MergeEnds ==
  /\ stage = "merge"
  /\ pieces = <<>>
  /\ raw' = Flushed
  /\ current' = <<>>
  /\ stage' = "done"
  /\ UNCHANGED <<block, parts, pieces>>

-----------------------------------------------------------------------------
(* chunk_paragraph_aware: trim, tail merge and overlap.                    *)

\* _SENT_END: a sentence end and the white space after it, which holds a newline
\* or leads to a capital.
SentenceEnds(s) ==
  {j \in DOMAIN s : /\ Kind(s[j]) = "."
                    /\ \E k \in j + 1 .. Len(s) :
                         /\ \A i \in j + 1 .. k - 1 : Kind(s[i]) \in White
                         /\ Kind(s[k]) = "n" \/ (k > j + 1 /\ Kind(s[k]) = "x")}

\* How much of a chunk the sentence trim keeps.
TrimAt(s) ==
  LET ends == {j \in SentenceEnds(s) : j > (Len(s) * TrimFrom) \div 100}
  IN  IF ends # {} /\ Greatest(ends) + TrimSlack < Len(s) THEN Greatest(ends) ELSE Len(s)

\* All but the last chunk are trimmed.
Trimmed ==
  [i \in DOMAIN raw |->
     IF i = Len(raw) \/ TrimAt(raw[i]) = Len(raw[i]) THEN raw[i]
     ELSE Strip(SubSeq(raw[i], 1, TrimAt(raw[i])))]

\* Variant, not used: a short tail replaces the chunk before it.
TailReplaces(trimmed) ==
  LET n == Len(trimmed)
  IN  IF n > 1 /\ Len(trimmed[n]) < MinChunkSize
      THEN [i \in 1 .. n - 1 |-> IF i = n - 1 THEN trimmed[n] ELSE trimmed[i]]
      ELSE trimmed

\* A short tail joins the chunk before it.
TailMerged(trimmed) ==
  LET n == Len(trimmed)
  IN  IF n > 1 /\ Len(trimmed[n]) < MinChunkSize
      THEN [i \in 1 .. n - 1 |-> IF i = n - 1 THEN Joined(trimmed[n - 1], trimmed[n])
                                            ELSE trimmed[i]]
      ELSE trimmed

\* The last characters of the chunk before, from a line or a word on.
Overlap(prev) ==
  LET ov == SubSeq(prev, Len(prev) - Min2(ChunkOverlap, Len(prev)) + 1, Len(prev))
      At(kind) == {i \in DOMAIN ov : Kind(ov[i]) = kind}
      Behind(kind) == SubSeq(ov, Least(At(kind)) + 1, Len(ov))
      Cuttable(kind) == At(kind) # {} /\ Least(At(kind)) > 1
  IN  IF Cuttable("n") THEN Behind("n") ELSE IF Cuttable("_") THEN Behind("_") ELSE ov

\* The chunks before the overlap is put in front of them.
Merged == TailMerged(Trimmed)

\* What chunk_paragraph_aware returns.
ParagraphAware ==
  [i \in DOMAIN Merged |->
     IF i = 1 THEN Merged[i] ELSE Joined(Overlap(Merged[i - 1]), Merged[i])]

-----------------------------------------------------------------------------
(* Every text clean_pdf_text may return: stripped, at most one blank line. *)

Clean ==
  /\ text[1] \notin White /\ text[Len(text)] \notin White
  /\ \A i \in 3 .. Len(text) : {text[i - 2], text[i - 1], text[i]} # {"n"}

\* chunk_text: one of the strategies is chosen.
CleanInit ==
  /\ Init
  /\ Clean
  /\ stage \in {"off", "split"}
  /\ block = [i \in DOMAIN text |-> i]
  /\ parts = {}
  /\ pieces = <<>>
  /\ current = <<>>
  /\ raw = <<>>

ParagraphStep ==
  \/ SplitsBlock \/ TakesPart \/ Cuts \/ CutEnds \/ SplitEnds \/ Merges \/ MergeEnds

ChunkNext ==
  \/ stage = "off" /\ Next /\ UNCHANGED paragraphVars
  \/ ParagraphStep /\ UNCHANGED vars

CleanSpec == CleanInit /\ [][ChunkNext]_allVars

-----------------------------------------------------------------------------
(* Properties.                                                             *)

Ink == {i \in DOMAIN text : text[i] \notin White}

From(s) == {s[i] : i \in DOMAIN s} \ {0}

Covered(s) == UNION {From(s[i]) : i \in DOMAIN s}

\* All of s comes from before all of t.
Before(s, t) == \A x \in From(s), y \in From(t) : x < y

\* Nothing is in s twice or out of order.
Increasing(s) == \A a, b \in DOMAIN s : a < b /\ s[a] # 0 /\ s[b] # 0 => s[a] < s[b]

\* What the sentence trim takes off.
TrimmedOff == UNION {From(raw[i]) \ From(Trimmed[i]) : i \in DOMAIN raw}

\* Splitting, merging, the tail merge and the overlap lose nothing and keep the
\* order: there is a chunk, a character missing from every chunk was taken off by
\* the sentence trim, no character is in two chunks but by the overlap, a chunk
\* with its overlap repeats nothing and never runs backwards, and only the last
\* one can be longer than the merge limit and the overlap (chunk_paragraph_aware).
LossIsTrimmed == stage = "done" =>
  LET out == ParagraphAware IN
    /\ out # <<>>
    /\ Ink \ Covered(out) \subseteq TrimmedOff
    /\ \A i, j \in DOMAIN out : i < j => Before(Merged[i], Merged[j])
    /\ \A i \in DOMAIN out :
         /\ Increasing(out[i])
         /\ Len(out[i]) <= MergeLimit + ChunkOverlap + 1
              + (IF i = Len(out) THEN MinChunkSize ELSE 0)

\* What the sentence trim takes off a chunk is in the next one: "the
\* sentence-boundary trim that relies on the 75-char overlap to re-cover trimmed
\* text" (chunking.py, module docstring).
TrimmedTextRecovered ==
  stage = "done" => TrimmedOff \cap Ink \subseteq Covered(ParagraphAware)

=============================================================================
