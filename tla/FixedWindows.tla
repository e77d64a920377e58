---------------------------- MODULE FixedWindows ----------------------------
(***************************************************************************)
(* The fixed-size strategy of an upload: the loop of chunk_fixed_size      *)
(* (voice_agent/kb/ingestion/chunking.py) cuts the text into overlapping   *)
(* windows, and the loop of complete_metadata (metadata.py) looks for the  *)
(* place of each window by its first characters. A step is one turn of a   *)
(* loop. A window is the slice [from, to) of the text, counted from 0 as   *)
(* in the code, so that its characters are text[from + 1] .. text[to].     *)
(***************************************************************************)
EXTENDS Naturals, Sequences, FiniteSets

CONSTANTS
  ChunkSize,    \* CHUNK_SIZE
  ChunkOverlap, \* CHUNK_OVERLAP
  KeyLength,    \* characters complete_metadata searches for
  Letters,      \* characters
  MaxLen        \* bound: length of a text

ASSUME WindowsAdvance ==
  /\ {ChunkSize, KeyLength, MaxLen} \subseteq Nat \ {0}
  /\ ChunkOverlap \in 0 .. ChunkSize - 1

VARIABLES
  text,       \* clean_text
  loop,       \* the loop that is running: "windows", "offsets" or "none"
  pos,        \* where the next window starts
  chunks,     \* the windows
  searchFrom, \* search_from
  starts      \* start_char of the windows so far

vars == <<text, loop, pos, chunks, searchFrom, starts>>

Min2(a, b) == IF a < b THEN a ELSE b

Least(S) == CHOOSE i \in S : \A j \in S : i <= j

Init ==
  /\ text \in UNION {[1 .. n -> Letters] : n \in 1 .. MaxLen}
  /\ loop = "windows"
  /\ pos = 0
  /\ chunks = <<>>
  /\ searchFrom = 0
  /\ starts = <<>>

\* Variant, not used: the next window starts where the last one ended.
NextPosNot(end) == end

\* The next window overlaps with the last one.
NextPos(end) == end - ChunkOverlap

\* One window; the one that reaches the end is the last.
TakesWindow ==
  LET end == Min2(pos + ChunkSize, Len(text))
  IN  /\ loop = "windows"
      /\ pos < Len(text)
      /\ chunks' = Append(chunks, [from |-> pos, to |-> end])
      /\ IF end >= Len(text) THEN loop' = "offsets" /\ UNCHANGED pos
                             ELSE pos' = NextPos(end) /\ UNCHANGED loop
      /\ UNCHANGED <<text, searchFrom, starts>>

\* The first characters of a window are at place p of the text.
Matches(w, p) ==
  \A i \in 1 .. Min2(KeyLength, w.to - w.from) :
    p + i <= Len(text) /\ text[p + i] = text[w.from + i]

\* Variant, not used: the search goes on behind the window that was found.
SearchBehind(start, w) == start + (w.to - w.from)

\* Where the next search starts.
SearchNext(start, w) == start + 1

\* start_char of the next window: str.find from search_from on, or search_from.
FindsOffset ==
  LET w == chunks[Len(starts) + 1]
      found == {p \in searchFrom .. Len(text) : Matches(w, p)}
      start == IF found = {} THEN searchFrom ELSE Least(found)
  IN  /\ loop = "offsets"
      /\ starts' = Append(starts, start)
      /\ searchFrom' = SearchNext(start, w)
      /\ loop' = IF Len(starts') = Len(chunks) THEN "none" ELSE "offsets"
      /\ UNCHANGED <<text, pos, chunks>>

Next == TakesWindow \/ FindsOffset

Spec == Init /\ [][Next]_vars

-----------------------------------------------------------------------------
(* Properties.                                                             *)

In(w) == w.from .. w.to - 1

\* When the windows are cut they cover the text without a gap and nothing else,
\* each shares exactly the overlap with the next and is not longer than the
\* size, each has a character that none before it has, and there are no more of
\* them than characters, so that the loop ends (chunk_fixed_size).
WindowsCover ==
  /\ Len(chunks) <= Len(text)
  /\ loop # "windows" =>
       /\ UNION {In(chunks[i]) : i \in DOMAIN chunks} = 0 .. Len(text) - 1
       /\ \A i \in DOMAIN chunks : Cardinality(In(chunks[i])) \in 1 .. ChunkSize
       /\ \A i \in DOMAIN chunks : i + 1 \in DOMAIN chunks =>
            /\ Cardinality(In(chunks[i]) \cap In(chunks[i + 1])) = ChunkOverlap
            /\ \E c \in In(chunks[i + 1]) : \A j \in 1 .. i : c \notin In(chunks[j])

\* The place a window is filed under has the window's first characters, is never
\* behind its real one, although a repetition may be found before it, and no two
\* windows share one: the search never fails (complete_metadata).
OffsetsNeverBehind ==
  \A i \in DOMAIN starts :
    /\ Matches(chunks[i], starts[i])
    /\ starts[i] <= chunks[i].from
    /\ \A j \in 1 .. i - 1 : starts[j] < starts[i]

=============================================================================
