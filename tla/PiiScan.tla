------------------------------ MODULE PiiScan ------------------------------
(***************************************************************************)
(* One scan of a text by the Google backend (governance/app/pii.py,        *)
(* run_google).  A text over the size limit is cut into overlapping        *)
(* chunks, measured in bytes but never splitting a character; each chunk   *)
(* is inspected on its own, its findings are shifted to offsets of the     *)
(* whole text, and at the end all of them are merged and replaced by       *)
(* markers.                                                                *)
(*                                                                         *)
(* What Google finds is external: it reports every sensitive value that    *)
(* lies whole inside the chunk, and may report the visible part of one     *)
(* that does not, as offsets in characters or in bytes of the chunk.       *)
(***************************************************************************)
EXTENDS Redaction

CONSTANTS
  MaxContentBytes,    \* _GOOGLE_MAX_CONTENT_BYTES
  ChunkOverlapBytes,  \* _GOOGLE_CHUNK_OVERLAP_BYTES
  MaxLength,          \* how many characters a text has at most
  MaxValues           \* how many sensitive values it has at most

\* The two limits are 450,000 and 4,096, far enough apart for every chunk to
\* start after the previous one although both its ends back off to the start
\* of a character.  "w" is a character of two bytes, "a" one of one byte.
ASSUME ChunkAssumption ==
  /\ MaxContentBytes \in Nat /\ ChunkOverlapBytes \in Nat /\ MaxLength \in Nat /\ MaxValues \in Nat
  /\ ChunkOverlapBytes + 2 < MaxContentBytes

VARIABLES
  text,
  values,             \* the sensitive values in it
  chunk,              \* the bounds of the chunk to inspect, in characters
  findings,           \* the findings so far, in the order they came
  phase,              \* "scan", "done" or "failed" (PiiBackendError)
  redacted            \* PiiResult.redacted_text

vars == <<text, values, chunk, findings, phase, redacted>>

-----------------------------------------------------------------------------
(* Characters and bytes.                                                    *)

\* The byte offset of character i: one byte each, two for "w".
ByteOffset(s, i) == i + Cardinality({n \in 1 .. i : s[n] = "w"})

\* The last character that starts at or before a byte.
CharacterAt(s, byte) == Max({i \in 0 .. Len(s) : ByteOffset(s, i) <= byte})

\* None for a range that is empty, leaves the chunk or splits a character.
ByteToCodepointRange(s, from, to) ==
  LET i == CharacterAt(s, from)
      j == CharacterAt(s, to)
  IN  IF /\ 0 <= from /\ from < to /\ to <= ByteOffset(s, Len(s))
         /\ ByteOffset(s, i) = from /\ ByteOffset(s, j) = to
        THEN {<<i, j>>}
        ELSE {}

\* A reported location is a range in characters or in bytes.
FindingRange(s, report) ==
  IF report.unit = "byte"
    THEN ByteToCodepointRange(s, report.from, report.to)
    ELSE IF 0 <= report.from /\ report.from < report.to /\ report.to <= Len(s)
           THEN {<<report.from, report.to>>}
           ELSE {}

-----------------------------------------------------------------------------
(* Chunks.                                                                  *)

Lower(x, y) == IF x < y THEN x ELSE y

\* The chunk that starts at a character: as many bytes as the limit allows.
ChunkFrom(s, from) ==
  LET total == ByteOffset(s, Len(s))
      bytes == Lower(ByteOffset(s, from) + MaxContentBytes, total)
  IN  [from |-> from, to |-> CharacterAt(s, bytes)]

\* Mutant: as NextStart, but the chunks do not overlap.
NextStartAtEnd == chunk.to

\* Mutant: as NextStart, but the overlap is counted in characters.
NextStartCharacters ==
  IF chunk.to > ChunkOverlapBytes THEN chunk.to - ChunkOverlapBytes ELSE 0

\* Where the next one starts: at least the overlap before the end of this one.
NextStart == CharacterAt(text, ByteOffset(text, chunk.to) - ChunkOverlapBytes)

ChunkText == Slice(text, chunk.from, chunk.to)

-----------------------------------------------------------------------------
(* What Google may report of a chunk.                                       *)

Units == {"codepoint", "byte"}

Whole(v) == chunk.from <= v.start /\ v.end <= chunk.to
Cut(v) == ~ Whole(v) /\ v.start < chunk.to /\ chunk.from < v.end

\* The part of a value inside the chunk, at offsets of the chunk.
Visible(v, unit) ==
  LET from == (IF v.start < chunk.from THEN chunk.from ELSE v.start) - chunk.from
      to   == Lower(v.end, chunk.to) - chunk.from
  IN  [type |-> v.type, score |-> v.score, unit |-> unit,
       from |-> IF unit = "byte" THEN ByteOffset(ChunkText, from) ELSE from,
       to |-> IF unit = "byte" THEN ByteOffset(ChunkText, to) ELSE to]

Reports(unit) ==
  {{Visible(v, unit) : v \in {w \in values : Whole(w)} \cup cut} :
     cut \in SUBSET {w \in values : Cut(w)}}

-----------------------------------------------------------------------------
(* The scan.                                                                *)

\* A chunk's findings, merged, at offsets of the chunk.
NormalizeGoogleFindings(reports) ==
  DeduplicateFindings(SetToSeq(
    UNION {{Finding(r.type, range[1], range[2], r.score) :
              range \in FindingRange(ChunkText, r)} : r \in reports}))

\* Chunk offsets become offsets of the text.
Shift(fs) ==
  [n \in DOMAIN fs |-> [fs[n] EXCEPT !.start = @ + chunk.from, !.end = @ + chunk.from]]

\* The chunk's findings join those so far; the last chunk ends the scan.
Conclude(found) ==
  IF chunk.to = Len(text)
    THEN LET fs == DeduplicateFindings(findings \o found)
         IN  /\ findings' = fs
             /\ redacted' = RedactWithTypedMarkers(text, fs)
             /\ phase' = "done"
             /\ UNCHANGED chunk
    ELSE /\ findings' = findings \o found
         /\ chunk' = ChunkFrom(text, NextStart)
         /\ UNCHANGED <<phase, redacted>>

InspectChunk ==
  /\ phase = "scan"
  /\ \E unit \in Units : \E reports \in Reports(unit) :
       /\ \A r \in reports : FindingRange(ChunkText, r) # {}
       /\ Conclude(Shift(NormalizeGoogleFindings(reports)))
  /\ UNCHANGED <<text, values>>

\* The call fails for good, its findings are truncated, or a range is not one:
\* nothing of the text is returned.
InspectFails ==
  /\ phase = "scan"
  /\ phase' = "failed"
  /\ UNCHANGED <<text, values, chunk, findings, redacted>>

\* The values a text may have: of two types, with two scores.
Sensitive(s) ==
  {v \in [type : {"e", "s"}, start : 0 .. Len(s), end : 0 .. Len(s), score : 1 .. 2] :
     v.start < v.end}

\* At most MaxValues of them, that may overlap.
Values(s) == {ToSet(vs) : vs \in BoundedSeq(Sensitive(s), MaxValues)}

\* An empty text is answered without a scan.
Init ==
  /\ text \in BoundedSeq({"a", "w"}, MaxLength)
  /\ values \in Values(text)
  /\ chunk = ChunkFrom(text, 0)
  /\ findings = <<>>
  /\ phase = IF text = <<>> THEN "done" ELSE "scan"
  /\ redacted = <<>>

Next == InspectFails \/ InspectChunk

Spec == Init /\ [][Next]_vars

-----------------------------------------------------------------------------
(* Properties.                                                              *)

\* A sensitive value no longer than the overlap is redacted whole wherever the
\* chunk boundaries fall: some chunk contains all of it, and neither the shift
\* to offsets of the text nor the merging of findings loses a part of it.
NothingExposed ==
  phase = "done" =>
    \A v \in values :
      ByteOffset(text, v.end) - ByteOffset(text, v.start) <= ChunkOverlapBytes =>
        \E n \in DOMAIN findings :
          findings[n].start <= v.start /\ v.end <= findings[n].end

\* What a reader would write for the redaction of a text: each covered run
\* becomes its marker, every other character stays.
Redaction(fs) ==
  FlattenSeq([i \in DOMAIN text |->
    IF \E n \in DOMAIN fs : fs[n].start = i - 1
      THEN Marker(fs[CHOOSE n \in DOMAIN fs : fs[n].start = i - 1].type)
    ELSE IF \E n \in DOMAIN fs : fs[n].start < i /\ i <= fs[n].end
      THEN <<>>
    ELSE <<text[i]>>])

\* Replacing the spans from the last to the first, each at the offsets of the
\* unredacted text, gives that redaction: the merged findings never overlap.  A
\* merged span carries the label of the strongest value it covers, in whatever
\* order chunks and types were reported.
RedactsExactly ==
  phase = "done" =>
    /\ redacted = Redaction(findings)
    /\ \A n \in DOMAIN findings :
         /\ \E v \in values : v.type = findings[n].type /\ v.score = findings[n].score
         /\ \A v \in values :
              (/\ findings[n].start <= v.start /\ v.end <= findings[n].end
               /\ ByteOffset(text, v.end) - ByteOffset(text, v.start) <= ChunkOverlapBytes)
                => v.score <= findings[n].score

\* The chunking loop ends: each chunk starts after the one before it, although
\* its start and its end back off to the start of a character, and reaches
\* further; only the last one ends the scan.
ScanAdvances ==
  [][\/ phase' = "failed"
     \/ phase' = "done" /\ chunk.to = Len(text)
     \/ /\ phase' = "scan"
        /\ chunk.from < chunk'.from /\ chunk'.from <= chunk.to
        /\ chunk.to < chunk'.to]_vars
=============================================================================
