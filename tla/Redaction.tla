----------------------------- MODULE Redaction -----------------------------
(***************************************************************************)
(* How a text loses its sensitive spans.  The governance service merges    *)
(* the findings of its scans and replaces each by a typed marker           *)
(* (governance/app/pii.py).  The gateway proxy, which sent one flat text   *)
(* made of several leaves of the request, lays the flat answer back over   *)
(* those leaves with a diff (proxy/app/protocol_types.py).                 *)
(*                                                                         *)
(* A text is a sequence of characters.  Offsets are Python's: they count   *)
(* from 0, and a range excludes its end.                                   *)
(***************************************************************************)
EXTENDS Integers, Sequences, FiniteSets, SequencesExt

Slice(s, from, to) == SubSeq(s, from + 1, to)

\* "".join(texts)
Join(texts) == FlattenSeq(texts)

-----------------------------------------------------------------------------
(* Findings.                                                                *)

Finding(type, from, to, score) ==
  [type |-> type, start |-> from, end |-> to, score |-> score]

\* The sort key of _deduplicate_findings.
Before(f, g) ==
  \/ f.start < g.start
  \/ f.start = g.start /\ f.end > g.end
  \/ f.start = g.start /\ f.end = g.end /\ f.score > g.score

\* A stable sort: equal keys keep the order of the list.
SortFindings(fs) ==
  LET Precedes(i, j) == \/ Before(fs[i], fs[j])
                        \/ ~ Before(fs[j], fs[i]) /\ i < j
      Place(i) == Cardinality({j \in DOMAIN fs : Precedes(j, i)}) + 1
  IN  [k \in DOMAIN fs |-> fs[CHOOSE i \in DOMAIN fs : Place(i) = k]]

\* Mutant: as MergeFindings, but the first label stays.
MergeFindingsFirst(kept, f) ==
  Finding(kept.type, kept.start, Max({kept.end, f.end}), kept.score)

\* The union of two overlapping spans, under the label of the stronger one.
MergeFindings(kept, f) ==
  LET label == IF f.score > kept.score THEN f ELSE kept
  IN  Finding(label.type, kept.start, Max({kept.end, f.end}), label.score)

\* What is kept once the next finding in order has been looked at.
Keep(kept, f) ==
  IF kept # <<>> /\ f.start < Last(kept).end
    THEN Append(Front(kept), MergeFindings(Last(kept), f))
    ELSE Append(kept, f)

\* The loop over the sorted findings: what is kept after the first n.
KeptAfter(sorted) ==
  LET kept[n \in 0 .. Len(sorted)] ==
        IF n = 0 THEN <<>> ELSE Keep(kept[n - 1], sorted[n])
  IN  kept

DeduplicateFindings(fs) == KeptAfter(SortFindings(fs))[Len(fs)]

\* The marker of a finding; a type's name is one character here.
Marker(type) == <<"[", type, "]">>

\* One span becomes its marker.
Replace(redacted, f) ==
  Slice(redacted, 0, f.start) \o Marker(f.type) \o Slice(redacted, f.end, Len(redacted))

\* From the last finding to the first, so that earlier offsets stay valid: the
\* text after n rounds of the loop.
ReplacedAfter(text, fs) ==
  LET replaced[n \in 0 .. Len(fs)] ==
        IF n = 0 THEN text ELSE Replace(replaced[n - 1], fs[Len(fs) - n + 1])
  IN  replaced

\* Mutant: as RedactWithTypedMarkers, but from the first finding to the last.
RedactForward(text, fs) == FoldLeft(Replace, text, fs)

RedactWithTypedMarkers(text, fs) == ReplacedAfter(text, fs)[Len(fs)]

-----------------------------------------------------------------------------
(* difflib.SequenceMatcher without its junk heuristics: the longest common  *)
(* block, the earliest in a and then in b, and so on left and right of it.  *)

CommonBlocks(a, b, alo, ahi, blo, bhi) ==
  {m \in (alo .. ahi - 1) \X (blo .. bhi - 1) \X (1 .. ahi - alo) :
     /\ m[1] + m[3] <= ahi
     /\ m[2] + m[3] <= bhi
     /\ Slice(a, m[1], m[1] + m[3]) = Slice(b, m[2], m[2] + m[3])}

LongestMatch(blocks) ==
  CHOOSE m \in blocks : \A n \in blocks :
    \/ m[3] > n[3]
    \/ m[3] = n[3] /\ (m[1] < n[1] \/ (m[1] = n[1] /\ m[2] <= n[2]))

MatchingBlocks(a, b) ==
  LET ends == 0 .. Len(a)
      marks == 0 .. Len(b)
      blocks[r \in ends \X ends \X marks \X marks] ==
        LET common == CommonBlocks(a, b, r[1], r[2], r[3], r[4])
            m      == LongestMatch(common)
        IN  IF common = {} THEN <<>>
            ELSE blocks[<<r[1], m[1], r[3], m[2]>>] \o <<m>>
                   \o blocks[<<m[1] + m[3], r[2], m[2] + m[3], r[4]>>]
  IN  blocks[<<0, Len(a), 0, Len(b)>>]

OpCode(tag, i, ii, j, jj) == [tag |-> tag, i |-> i, ii |-> ii, j |-> j, jj |-> jj]

\* What lies between two blocks, and the block itself.
OpCodes(a, b) ==
  LET blocks == Append(MatchingBlocks(a, b), <<Len(a), Len(b), 0>>)
      Gap(n) == LET i == IF n = 1 THEN 0 ELSE blocks[n - 1][1] + blocks[n - 1][3]
                    j == IF n = 1 THEN 0 ELSE blocks[n - 1][2] + blocks[n - 1][3]
                    ii == blocks[n][1]
                    jj == blocks[n][2]
                IN  IF i < ii /\ j < jj THEN <<OpCode("replace", i, ii, j, jj)>>
                    ELSE IF i < ii THEN <<OpCode("delete", i, ii, j, jj)>>
                    ELSE IF j < jj THEN <<OpCode("insert", i, ii, j, jj)>>
                    ELSE <<>>
      Same(n) == LET m == blocks[n]
                 IN  IF m[3] = 0 THEN <<>>
                     ELSE <<OpCode("equal", m[1], m[1] + m[3], m[2], m[2] + m[3])>>
  IN  FlattenSeq([n \in DOMAIN blocks |-> Gap(n) \o Same(n)])

-----------------------------------------------------------------------------
(* The leaves of a request and the redacted text.                           *)

LeafStart(leaves, n) == Len(Join(SubSeq(leaves, 1, n - 1)))
LeafEnd(leaves, n) == Len(Join(SubSeq(leaves, 1, n)))

\* The leaf of a position; one past the end belongs to the last leaf.
LeafForPosition(leaves, position) ==
  LET holds == {n \in DOMAIN leaves :
                  LeafStart(leaves, n) <= position /\ position < LeafEnd(leaves, n)}
  IN  IF holds = {} THEN Len(leaves) ELSE CHOOSE n \in holds : TRUE

\* The leaves a range of the original text has characters in.
Overlapping(leaves, op) ==
  {n \in DOMAIN leaves :
     Max({op.i, LeafStart(leaves, n)}) < Min({op.ii, LeafEnd(leaves, n)})}

\* What one edit adds to leaf n: an insertion goes to the leaf it falls in, a
\* replacement to the first leaf it touches, equal text stays where it was.
Share(leaves, redacted, op, n) ==
  LET replacement == Slice(redacted, op.j, op.jj)
      touched     == Overlapping(leaves, op)
  IN  IF op.tag = "insert"
        THEN IF n = LeafForPosition(leaves, op.i) THEN replacement ELSE <<>>
      ELSE IF n \notin touched \/ op.tag = "delete" THEN <<>>
      ELSE IF op.tag = "replace"
        THEN IF n = Min(touched) THEN replacement ELSE <<>>
      ELSE Slice(replacement, Max({op.i, LeafStart(leaves, n)}) - op.i,
                              Min({op.ii, LeafEnd(leaves, n)}) - op.i)

RedistributeRedactedText(leaves, redacted) ==
  LET ops == OpCodes(Join(leaves), redacted)
  IN  IF Join(leaves) = redacted THEN leaves
      ELSE [n \in DOMAIN leaves |->
              Join([o \in DOMAIN ops |-> Share(leaves, redacted, ops[o], n)])]
=============================================================================
