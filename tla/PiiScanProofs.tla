--------------------------- MODULE PiiScanProofs ----------------------------
(***************************************************************************)
(* Proofs about PiiScan: that the chunking loop advances, that a value no  *)
(* longer than the overlap is redacted whole, and that the redacted text   *)
(* differs from the text in the covered runs alone, for texts of any       *)
(* length and any two limits that are far enough apart.                    *)
(*                                                                         *)
(* What the recursive operators compute is shown by taking the least       *)
(* counterexample: Least is the only form of induction used here.          *)
(***************************************************************************)
EXTENDS PiiScan, SequenceTheorems, FiniteSetTheorems, FunctionTheorems,
        WellFoundedInduction, TLAPS

-----------------------------------------------------------------------------
(* Least and greatest numbers. *)

\* A set of numbers that is not empty has a least one.
LEMMA Least ==
  ASSUME NEW S \in SUBSET Nat, S # {}
  PROVE  \E x \in S : \A y \in S : x <= y
<1> DEFINE R == OpToRel(<, Nat)
<1>1. R = {ss \in Nat \X Nat : ss[1] < ss[2]}
  BY DEF OpToRel
<1>2. IsWellFoundedOn(R, Nat)
  BY NatLessThanWellFounded
<1>3. \A y \in Nat, x \in Nat : <<y, x>> \in R <=> y < x
  BY <1>1
<1> HIDE DEF R
<1>4. PICK x \in S : \A y \in S : ~ (<<y, x>> \in R)
  BY <1>2, WFMin
<1>5. ASSUME NEW y \in S PROVE x <= y
  <2>1. x \in Nat /\ y \in Nat /\ ~ (y < x)
    BY <1>3, <1>4
  <2> QED
    BY <2>1
<1> QED
  BY <1>5

\* A bounded set of numbers has a greatest one, and Max is it.
LEMMA MaxIs ==
  ASSUME NEW n \in Nat, NEW S \in SUBSET (0 .. n), S # {}
  PROVE  Max(S) \in S /\ \A y \in S : y <= Max(S)
<1> DEFINE T == {n - x : x \in S}
<1>1. T \in SUBSET Nat /\ T # {}
  <2>1. \A x \in S : x \in 0 .. n
    OBVIOUS
  <2>2. \A x \in 0 .. n : n - x \in Nat
    OBVIOUS
  <2> QED
    BY <2>1, <2>2
<1>2. PICK t \in T : \A u \in T : t <= u
  BY <1>1, Least
<1>3. PICK x \in S : t = n - x
  OBVIOUS
<1>4. \A y \in S : x >= y
  <2> TAKE y \in S
  <2>1. n - x <= n - y
    BY <1>2, <1>3
  <2>2. x \in Int /\ y \in Int
    OBVIOUS
  <2> QED
    BY <2>1, <2>2
<1>5. Max(S) \in S /\ \A y \in S : Max(S) >= y
  BY <1>4 DEF Max
<1>6. \A y \in S : y \in Int
  OBVIOUS
<1> QED
  BY <1>5, <1>6

-----------------------------------------------------------------------------
(* Characters and bytes. *)

\* Every character has one byte or two.
LEMMA BytesStep ==
  ASSUME NEW s, NEW i \in Nat
  PROVE  /\ ByteOffset(s, i) \in Nat
         /\ ByteOffset(s, i + 1) \in {ByteOffset(s, i) + 1, ByteOffset(s, i) + 2}
<1> DEFINE W(k) == {n \in 1 .. k : s[n] = "w"}
<1>1. \A k \in Nat : IsFiniteSet(W(k)) /\ Cardinality(W(k)) \in Nat
  <2> TAKE k \in Nat
  <2>1. IsFiniteSet(1 .. k) /\ W(k) \in SUBSET (1 .. k)
    BY FS_Interval
  <2> QED
    BY <2>1, FS_Subset, FS_CardinalityType
<1>2. i + 1 \in Nat /\ W(i + 1) \in {W(i), W(i) \cup {i + 1}} /\ i + 1 \notin W(i)
  <2>1. \A n \in Int : n \in 1 .. i + 1 <=> n \in 1 .. i \/ n = i + 1
    OBVIOUS
  <2>2. CASE s[i + 1] = "w"
    BY <2>1, <2>2
  <2>3. CASE s[i + 1] # "w"
    BY <2>1, <2>3
  <2> QED
    BY <2>2, <2>3
<1> HIDE DEF W
<1>3. Cardinality(W(i + 1)) \in {Cardinality(W(i)), Cardinality(W(i)) + 1}
  BY <1>1, <1>2, FS_AddElement
<1>4. ByteOffset(s, i) = i + Cardinality(W(i)) /\ ByteOffset(s, i + 1) = i + 1 + Cardinality(W(i + 1))
  BY DEF ByteOffset, W
<1> QED
  BY <1>1, <1>3, <1>4

\* The offset of a character is a number.
LEMMA BytesType ==
  ASSUME NEW s, NEW i \in Nat
  PROVE  ByteOffset(s, i) \in Nat
BY BytesStep

\* Later characters start at later bytes.
LEMMA BytesMonotone ==
  ASSUME NEW s, NEW i \in Nat, NEW j \in Nat, i < j
  PROVE  ByteOffset(s, i) < ByteOffset(s, j)
<1> DEFINE W(k) == {n \in 1 .. k : s[n] = "w"}
<1>1. \A k \in Nat : IsFiniteSet(W(k)) /\ Cardinality(W(k)) \in Nat
  <2> TAKE k \in Nat
  <2>1. IsFiniteSet(1 .. k) /\ W(k) \in SUBSET (1 .. k)
    BY FS_Interval
  <2> QED
    BY <2>1, FS_Subset, FS_CardinalityType
<1>2. W(i) \in SUBSET W(j)
  OBVIOUS
<1> HIDE DEF W
<1>3. Cardinality(W(i)) <= Cardinality(W(j))
  BY <1>1, <1>2, FS_Subset
<1>4. ByteOffset(s, i) = i + Cardinality(W(i)) /\ ByteOffset(s, j) = j + Cardinality(W(j))
  BY DEF ByteOffset, W
<1> QED
  BY <1>1, <1>3, <1>4

\* The first character starts at byte 0.
LEMMA BytesStart ==
  ASSUME NEW s
  PROVE  ByteOffset(s, 0) = 0
<1>1. {n \in 1 .. 0 : s[n] = "w"} = {}
  OBVIOUS
<1> QED
  BY <1>1, FS_EmptySet DEF ByteOffset

\* So the order of bytes is the order of characters.
LEMMA BytesOrder ==
  ASSUME NEW s, NEW i \in Nat, NEW j \in Nat
  PROVE  /\ i <= j <=> ByteOffset(s, i) <= ByteOffset(s, j)
         /\ i = j <=> ByteOffset(s, i) = ByteOffset(s, j)
<1>1. ByteOffset(s, i) \in Nat /\ ByteOffset(s, j) \in Nat
  BY BytesType
<1>2. i < j => ByteOffset(s, i) < ByteOffset(s, j)
  BY BytesMonotone
<1>3. j < i => ByteOffset(s, j) < ByteOffset(s, i)
  BY BytesMonotone
<1> QED
  BY <1>1, <1>2, <1>3

\* CharacterAt is the last character that starts at or before the byte.
LEMMA CharacterAtIs ==
  ASSUME NEW s, Len(s) \in Nat, NEW byte \in Nat
  PROVE  /\ CharacterAt(s, byte) \in 0 .. Len(s)
         /\ ByteOffset(s, CharacterAt(s, byte)) <= byte
         /\ \A i \in 0 .. Len(s) : ByteOffset(s, i) <= byte => i <= CharacterAt(s, byte)
<1> DEFINE S == {i \in 0 .. Len(s) : ByteOffset(s, i) <= byte}
<1>1. 0 \in S
  BY BytesStart
<1>2. S \in SUBSET (0 .. Len(s)) /\ S # {}
  BY <1>1
<1>3. Max(S) \in S /\ \A y \in S : y <= Max(S)
  BY <1>2, MaxIs
<1> QED
  BY <1>3 DEF CharacterAt

\* The character found ends less than two bytes before the byte sought.
LEMMA CharacterAtNear ==
  ASSUME NEW s, Len(s) \in Nat, NEW byte \in Nat
  PROVE  \/ CharacterAt(s, byte) = Len(s)
         \/ byte <= ByteOffset(s, CharacterAt(s, byte)) + 1
<1> DEFINE c == CharacterAt(s, byte)
<1>1. /\ c \in 0 .. Len(s)
      /\ \A i \in 0 .. Len(s) : ByteOffset(s, i) <= byte => i <= c
  BY CharacterAtIs
<1> HIDE DEF c
<1>2. SUFFICES ASSUME c # Len(s) PROVE byte <= ByteOffset(s, c) + 1
  BY DEF c
<1>3. c \in Nat /\ c + 1 \in 0 .. Len(s) /\ ~ (c + 1 <= c)
  BY <1>1, <1>2
<1>4. /\ ByteOffset(s, c) \in Nat
      /\ ByteOffset(s, c + 1) \in {ByteOffset(s, c) + 1, ByteOffset(s, c) + 2}
  BY <1>3, BytesStep
<1>5. ~ (ByteOffset(s, c + 1) <= byte)
  BY <1>1, <1>3
<1> QED
  BY <1>4, <1>5

\* The start of a character is found again.
LEMMA CharacterAtStart ==
  ASSUME NEW s, Len(s) \in Nat, NEW i \in 0 .. Len(s)
  PROVE  CharacterAt(s, ByteOffset(s, i)) = i
<1> DEFINE byte == ByteOffset(s, i)
           c == CharacterAt(s, byte)
<1>1. i \in Nat /\ byte \in Nat
  BY BytesType
<1>2. /\ c \in 0 .. Len(s) /\ ByteOffset(s, c) <= byte
      /\ \A j \in 0 .. Len(s) : ByteOffset(s, j) <= byte => j <= c
  BY <1>1, CharacterAtIs
<1>3. i <= c
  BY <1>1, <1>2
<1> HIDE DEF c
<1>4. c <= i
  <2>1. c \in Nat
    BY <1>2
  <2> QED
    BY <1>1, <1>2, <2>1, BytesOrder
<1> QED
  BY <1>1, <1>2, <1>3, <1>4 DEF c

-----------------------------------------------------------------------------
(* Chunks. *)

\* A chunk has at most the limit's bytes, and is the last one or has all of
\* them but one.
LEMMA ChunkIs ==
  ASSUME NEW s, Len(s) \in Nat, NEW from \in 0 .. Len(s)
  PROVE  /\ ChunkFrom(s, from).from = from
         /\ ChunkFrom(s, from).to \in from .. Len(s)
         /\ \/ ChunkFrom(s, from).to = Len(s)
            \/ ByteOffset(s, from) + MaxContentBytes <= ByteOffset(s, ChunkFrom(s, from).to) + 1
         /\ ByteOffset(s, ChunkFrom(s, from).to) <= ByteOffset(s, from) + MaxContentBytes
<1> DEFINE total == ByteOffset(s, Len(s))
           limit == ByteOffset(s, from) + MaxContentBytes
           bytes == Lower(limit, total)
           to == CharacterAt(s, bytes)
<1>1. ChunkFrom(s, from) = [from |-> from, to |-> to]
  BY DEF ChunkFrom
<1>2. from \in Nat /\ ByteOffset(s, from) \in Nat /\ total \in Nat /\ limit \in Nat
  BY BytesType, ChunkAssumption
<1>3. bytes \in Nat /\ bytes <= limit /\ bytes <= total /\ (bytes = limit \/ bytes = total)
  BY <1>2 DEF Lower
<1> HIDE DEF bytes
<1>4. /\ to \in 0 .. Len(s) /\ ByteOffset(s, to) <= bytes
      /\ \A i \in 0 .. Len(s) : ByteOffset(s, i) <= bytes => i <= to
  BY <1>3, CharacterAtIs
<1>5. to = Len(s) \/ bytes <= ByteOffset(s, to) + 1
  BY <1>3, CharacterAtNear
<1> HIDE DEF to
<1>6. ByteOffset(s, to) \in Nat
  BY <1>4, BytesType
<1>7. ByteOffset(s, from) <= bytes
  <2>1. ByteOffset(s, from) <= total
    BY <1>2, BytesOrder
  <2> QED
    BY <1>2, <1>3, <2>1, ChunkAssumption
<1>8. from <= to
  BY <1>4, <1>7
<1>9. bytes = total => to = Len(s)
  <2> SUFFICES ASSUME bytes = total PROVE to = Len(s)
    OBVIOUS
  <2>1. Len(s) <= to
    BY <1>3, <1>4
  <2> QED
    BY <1>4, <2>1
<1>10. to = Len(s) \/ limit <= ByteOffset(s, to) + 1
  BY <1>3, <1>5, <1>9
<1>11. ByteOffset(s, to) <= limit
  BY <1>2, <1>3, <1>4, <1>6
<1> QED
  BY <1>1, <1>2, <1>4, <1>8, <1>10, <1>11

\* The next chunk starts inside this one, after its start, and reaches further;
\* a value no longer than the overlap that this chunk cuts lies after that start.
LEMMA NextChunkIs ==
  ASSUME NEW s, Len(s) \in Nat, NEW from \in 0 .. Len(s),
         NEW to, to = ChunkFrom(s, from).to, to # Len(s),
         NEW start, start = CharacterAt(s, ByteOffset(s, to) - ChunkOverlapBytes)
  PROVE  /\ start \in 0 .. Len(s)
         /\ from < start /\ start <= to
         /\ to < ChunkFrom(s, start).to
         /\ \A i, j \in 0 .. Len(s) :
              /\ ByteOffset(s, j) - ByteOffset(s, i) <= ChunkOverlapBytes
              /\ ~ (j <= to)
              => start <= i
<1> DEFINE B(i) == ByteOffset(s, i)
           byte == B(to) - ChunkOverlapBytes
<1>1. /\ to \in from .. Len(s)
      /\ B(from) + MaxContentBytes <= B(to) + 1
      /\ B(to) <= B(from) + MaxContentBytes
  BY ChunkIs
<1>2. to \in Nat /\ from \in Nat /\ B(to) \in Nat /\ B(from) \in Nat
  BY <1>1, BytesType
<1>3. byte \in Nat /\ B(from) < byte
  BY <1>1, <1>2, ChunkAssumption
<1>4. /\ start \in 0 .. Len(s) /\ B(start) <= byte
      /\ \A i \in 0 .. Len(s) : B(i) <= byte => i <= start
  BY <1>3, CharacterAtIs
<1>5. start = Len(s) \/ byte <= B(start) + 1
  BY <1>3, CharacterAtNear
<1>6. start \in Nat /\ B(start) \in Nat
  BY <1>4, BytesType
<1>7. start <= to
  <2>1. B(start) <= B(to)
    BY <1>2, <1>3, <1>4, <1>6, ChunkAssumption
  <2> QED
    BY <1>2, <1>6, <2>1, BytesOrder
<1>8. byte <= B(start) + 1
  BY <1>1, <1>4, <1>5, <1>7
<1>9. from < start
  <2>1. B(from) < B(start)
    BY <1>1, <1>2, <1>6, <1>8, ChunkAssumption
  <2>2. ~ (B(start) <= B(from))
    BY <1>2, <1>6, <2>1
  <2> QED
    BY <1>2, <1>6, <2>2, BytesOrder
<1>10. to < ChunkFrom(s, start).to
  <2> DEFINE end == ChunkFrom(s, start).to
  <2>1. /\ end \in start .. Len(s)
        /\ end = Len(s) \/ B(start) + MaxContentBytes <= B(end) + 1
    BY <1>4, ChunkIs
  <2> HIDE DEF end
  <2>2. end \in Nat /\ B(end) \in Nat
    BY <1>6, <2>1, BytesType
  <2>3. CASE end = Len(s)
    BY <1>1, <1>2, <2>3 DEF end
  <2>4. CASE B(start) + MaxContentBytes <= B(end) + 1
    <3>1. ~ (B(end) <= B(to))
      BY <1>2, <1>6, <1>8, <2>2, <2>4, ChunkAssumption
    <3>2. ~ (end <= to)
      BY <1>2, <2>2, <3>1, BytesOrder
    <3> QED
      BY <1>2, <2>2, <3>2 DEF end
  <2> QED
    BY <2>1, <2>3, <2>4
<1>11. ASSUME NEW i \in 0 .. Len(s), NEW j \in 0 .. Len(s),
              B(j) - B(i) <= ChunkOverlapBytes, ~ (j <= to)
       PROVE  start <= i
  <2>1. i \in Nat /\ j \in Nat /\ B(i) \in Nat /\ B(j) \in Nat
    BY BytesType
  <2>2. ~ (B(j) <= B(to))
    BY <1>2, <1>11, <2>1, BytesOrder
  <2>3. B(start) <= B(i)
    BY <1>2, <1>4, <1>6, <1>11, <2>1, <2>2, ChunkAssumption
  <2> QED
    BY <1>6, <2>1, <2>3, BytesOrder
<1> QED
  BY <1>4, <1>7, <1>9, <1>10, <1>11

-----------------------------------------------------------------------------
(* The chunking loop. *)

\* The chunk to inspect is one of the text.
ChunkInv ==
  /\ text \in Seq({"a", "w"})
  /\ chunk.from \in 0 .. Len(text)
  /\ chunk = ChunkFrom(text, chunk.from)
  /\ phase \in {"scan", "done", "failed"}

\* A sequence of bounded length is a sequence.
LEMMA BoundedIsSeq ==
  ASSUME NEW S, NEW n, NEW s \in BoundedSeq(S, n)
  PROVE  s \in Seq(S)
<1>1. PICK m \in 0 .. n : s \in [1 .. m -> S]
  BY DEF BoundedSeq, SeqOf
<1>2. m \in Nat
  OBVIOUS
<1> QED
  BY <1>1, <1>2, IsASeq

\* A step that does not end the scan goes on to the next chunk.
LEMMA ScanGoesOn ==
  ASSUME ChunkInv, InspectChunk, chunk.to # Len(text)
  PROVE  /\ phase' = "scan" /\ text' = text /\ values' = values
         /\ chunk' = ChunkFrom(text, NextStart)
         /\ NextStart \in 0 .. Len(text)
         /\ chunk'.from = NextStart
         /\ chunk.from < NextStart /\ NextStart <= chunk.to /\ chunk.to < chunk'.to
         /\ \A i, j \in 0 .. Len(text) :
              /\ ByteOffset(text, j) - ByteOffset(text, i) <= ChunkOverlapBytes
              /\ ~ (j <= chunk.to)
              => NextStart <= i
<1>1. phase' = "scan" /\ text' = text /\ values' = values /\ chunk' = ChunkFrom(text, NextStart)
  BY DEF InspectChunk, Conclude
<1>2. PICK s : s = text
  OBVIOUS
<1>3. PICK from, to, start : from = chunk.from /\ to = chunk.to /\ start = NextStart
  OBVIOUS
<1>4. Len(s) \in Nat /\ from \in 0 .. Len(s) /\ to # Len(s) /\ to = ChunkFrom(s, from).to
  BY <1>2, <1>3, LenProperties DEF ChunkInv
<1>5. start = CharacterAt(s, ByteOffset(s, to) - ChunkOverlapBytes)
  BY <1>2, <1>3 DEF NextStart
<1>6. /\ start \in 0 .. Len(s)
      /\ from < start /\ start <= to
      /\ to < ChunkFrom(s, start).to
      /\ \A i, j \in 0 .. Len(s) :
           /\ ByteOffset(s, j) - ByteOffset(s, i) <= ChunkOverlapBytes
           /\ ~ (j <= to)
           => start <= i
  BY <1>4, <1>5, NextChunkIs
<1>7. ChunkFrom(s, start).from = start
  BY <1>4, <1>6, ChunkIs
<1> QED
  BY <1>1, <1>2, <1>3, <1>6, <1>7

\* Every step keeps the chunk a chunk of the text.
LEMMA ChunkStep ==
  ASSUME ChunkInv, [Next]_vars
  PROVE  ChunkInv'
<1>1. CASE InspectChunk /\ chunk.to # Len(text)
  <2>1. /\ phase' = "scan" /\ text' = text /\ chunk' = ChunkFrom(text, NextStart)
        /\ NextStart \in 0 .. Len(text) /\ chunk'.from = NextStart
    BY <1>1, ScanGoesOn
  <2>2. chunk' = ChunkFrom(text', chunk'.from)
    BY <2>1
  <2> QED
    BY <2>1, <2>2 DEF ChunkInv
<1>2. CASE InspectChunk /\ chunk.to = Len(text)
  BY <1>2 DEF InspectChunk, Conclude, ChunkInv
<1>3. CASE InspectFails
  BY <1>3 DEF InspectFails, ChunkInv
<1>4. CASE UNCHANGED vars
  BY <1>4 DEF vars, ChunkInv
<1> QED
  BY <1>1, <1>2, <1>3, <1>4 DEF Next

\* The chunk the loop of run_google inspects is always one of the text.
THEOREM ChunkCorrect == Spec => []ChunkInv
<1>1. Init => ChunkInv
  <2> SUFFICES ASSUME Init PROVE ChunkInv
    OBVIOUS
  <2>1. text \in Seq({"a", "w"})
    BY BoundedIsSeq DEF Init
  <2>2. Len(text) \in Nat /\ 0 \in 0 .. Len(text)
    BY <2>1, LenProperties
  <2>3. ChunkFrom(text, 0).from = 0
    BY DEF ChunkFrom
  <2>4. chunk = ChunkFrom(text, 0) /\ phase \in {"scan", "done"}
    BY DEF Init
  <2> QED
    BY <2>1, <2>2, <2>3, <2>4 DEF ChunkInv
<1> QED
  BY <1>1, ChunkStep, PTL DEF Spec

\* The chunking loop ends, for every text and all limits: each chunk starts
\* after the one before it and reaches further.
THEOREM ScanAdvancesCorrect == Spec => ScanAdvances
<1> DEFINE Advance == \/ phase' = "failed"
                      \/ phase' = "done" /\ chunk.to = Len(text)
                      \/ /\ phase' = "scan"
                         /\ chunk.from < chunk'.from /\ chunk'.from <= chunk.to
                         /\ chunk.to < chunk'.to
<1>1. ChunkInv /\ [Next]_vars => [Advance]_vars
  <2> SUFFICES ASSUME ChunkInv, Next PROVE Advance
    OBVIOUS
  <2>1. CASE InspectFails
    BY <2>1 DEF InspectFails
  <2>2. CASE InspectChunk /\ chunk.to = Len(text)
    BY <2>2 DEF InspectChunk, Conclude
  <2>3. CASE InspectChunk /\ chunk.to # Len(text)
    BY <2>3, ScanGoesOn
  <2> QED
    BY <2>1, <2>2, <2>3 DEF Next
<1> QED
  BY <1>1, ChunkCorrect, PTL DEF Spec, ScanAdvances

-----------------------------------------------------------------------------
(* Merging findings. *)

FindingSet == [type : {"e", "s"}, start : Int, end : Int, score : Int]

Covers(f, g) == f.start <= g.start /\ g.end <= f.end /\ g.score <= f.score

\* The sort key is a total order up to equal keys.
LEMMA BeforeOrder ==
  ASSUME NEW f \in FindingSet, NEW g \in FindingSet, NEW h \in FindingSet
  PROVE  /\ ~ Before(f, f)
         /\ Before(f, g) => ~ Before(g, f)
         /\ Before(f, g) /\ ~ Before(h, g) => Before(f, h)
         /\ ~ Before(g, f) /\ Before(g, h) => Before(f, h)
         /\ ~ Before(g, f) /\ ~ Before(h, g) => ~ Before(h, f)
         /\ ~ Before(g, f) => f.start <= g.start
<1>1. /\ f.start \in Int /\ f.end \in Int /\ f.score \in Int
      /\ g.start \in Int /\ g.end \in Int /\ g.score \in Int
      /\ h.start \in Int /\ h.end \in Int /\ h.score \in Int
  BY DEF FindingSet
<1> QED
  BY <1>1 DEF Before

\* SortFindings is a permutation of the list, in the order of the key.
LEMMA SortedIs ==
  ASSUME NEW fs \in Seq(FindingSet)
  PROVE  /\ SortFindings(fs) \in Seq(FindingSet)
         /\ Len(SortFindings(fs)) = Len(fs)
         /\ \A i \in 1 .. Len(fs) : \E k \in 1 .. Len(fs) : SortFindings(fs)[k] = fs[i]
         /\ \A k \in 1 .. Len(fs) : \E i \in 1 .. Len(fs) : SortFindings(fs)[k] = fs[i]
         /\ \A k, l \in 1 .. Len(fs) :
              k < l => SortFindings(fs)[k].start <= SortFindings(fs)[l].start
<1> DEFINE n == Len(fs)
           D == DOMAIN fs
           Prec(i, j) == Before(fs[i], fs[j]) \/ (~ Before(fs[j], fs[i]) /\ i < j)
           P(i) == {j \in D : Prec(j, i)}
           place == [i \in D |-> Cardinality(P(i)) + 1]
           sorted == [k \in D |-> fs[CHOOSE i \in D : Cardinality(P(i)) + 1 = k]]
<1>1. n \in Nat /\ D = 1 .. n /\ \A i \in D : fs[i] \in FindingSet
  BY LenProperties, ElementOfSeq
<1>2. SortFindings(fs) = sorted
  BY DEF SortFindings
<1> HIDE DEF n, D, sorted
<1>12. IsFiniteSet(D) /\ Cardinality(D) = n
  <2>1. IsFiniteSet(1 .. n) /\ Cardinality(1 .. n) = IF 1 > n THEN 0 ELSE n - 1 + 1
    BY <1>1, FS_Interval
  <2> QED
    BY <1>1, <2>1
<1>3. \A i, j \in D : /\ ~ Prec(i, i)
                      /\ Prec(i, j) \/ Prec(j, i) \/ i = j
                      /\ Prec(i, j) => fs[i].start <= fs[j].start
  <2> TAKE i \in D, j \in D
  <2>1. i \in Int /\ j \in Int
    BY <1>1
  <2>2. fs[i] \in FindingSet /\ fs[j] \in FindingSet
    BY <1>1
  <2>3. ~ Before(fs[i], fs[i]) /\ (Before(fs[i], fs[j]) => ~ Before(fs[j], fs[i]))
        /\ (~ Before(fs[j], fs[i]) => fs[i].start <= fs[j].start)
    BY <2>2, BeforeOrder
  <2> QED
    BY <2>1, <2>3
<1>4. \A i, j, k \in D : Prec(i, j) /\ Prec(j, k) => Prec(i, k)
  <2> TAKE i \in D, j \in D, k \in D
  <2>1. i \in Int /\ j \in Int /\ k \in Int
    BY <1>1
  <2>2. fs[i] \in FindingSet /\ fs[j] \in FindingSet /\ fs[k] \in FindingSet
    BY <1>1
  <2>3. /\ Before(fs[j], fs[k]) => ~ Before(fs[k], fs[j])
        /\ Before(fs[i], fs[j]) /\ ~ Before(fs[k], fs[j]) => Before(fs[i], fs[k])
        /\ ~ Before(fs[j], fs[i]) /\ Before(fs[j], fs[k]) => Before(fs[i], fs[k])
        /\ ~ Before(fs[j], fs[i]) /\ ~ Before(fs[k], fs[j]) => ~ Before(fs[k], fs[i])
    BY <2>2, BeforeOrder
  <2> QED
    BY <2>1, <2>3
<1> HIDE DEF Prec
<1>5. \A i \in D : IsFiniteSet(P(i)) /\ Cardinality(P(i)) \in Nat /\ Cardinality(P(i)) < n
  <2> TAKE i \in D
  <2>1. P(i) \in SUBSET (D \ {i})
    BY <1>3
  <2>2. IsFiniteSet(D \ {i}) /\ Cardinality(D \ {i}) = n - 1
    <3>1. IsFiniteSet(D \ {i}) /\ Cardinality(D \ {i}) = Cardinality(D) - 1
      BY <1>12, FS_RemoveElement, Zenon
    <3> QED
      BY <1>12, <3>1
  <2>3. IsFiniteSet(P(i)) /\ Cardinality(P(i)) <= Cardinality(D \ {i})
    BY <2>1, <2>2, FS_Subset
  <2>4. Cardinality(P(i)) \in Nat
    BY <2>3, FS_CardinalityType
  <2> HIDE DEF P
  <2>5. PICK c \in Nat : c = Cardinality(P(i))
    BY <2>4
  <2>6. c <= n - 1
    BY <2>2, <2>3, <2>5
  <2>7. c < n
    BY <1>1, <2>6
  <2> QED
    BY <2>3, <2>5, <2>7
<1>6. \A i, j \in D : Prec(i, j) => Cardinality(P(i)) < Cardinality(P(j))
  <2> SUFFICES ASSUME NEW i \in D, NEW j \in D, Prec(i, j)
               PROVE  Cardinality(P(i)) < Cardinality(P(j))
    OBVIOUS
  <2>1. P(i) \in SUBSET P(j) /\ i \in P(j) /\ i \notin P(i)
    BY <1>3, <1>4
  <2>2. P(i) # P(j)
    BY <2>1
  <2> HIDE DEF P
  <2>3. /\ Cardinality(P(i)) <= Cardinality(P(j))
        /\ Cardinality(P(j)) = Cardinality(P(i)) => P(j) = P(i)
    BY <1>5, <2>1, FS_Subset
  <2> QED
    BY <1>5, <2>2, <2>3
<1> HIDE DEF P
<1>7. place \in [D -> D] /\ \A i \in D : place[i] = Cardinality(P(i)) + 1
  BY <1>1, <1>5
<1>8. \A i, j \in D : place[i] = place[j] => i = j
  <2> SUFFICES ASSUME NEW i \in D, NEW j \in D, place[i] = place[j], i # j PROVE FALSE
    OBVIOUS
  <2>1. Cardinality(P(i)) \in Nat /\ Cardinality(P(j)) \in Nat /\ Cardinality(P(i)) = Cardinality(P(j))
    BY <1>5, <1>7
  <2> QED
    BY <1>3, <1>6, <2>1
<1> HIDE DEF place
<1>9. place \in Injection(D, D)
  BY <1>7, <1>8 DEF Injection, IsInjective
<1>10. place \in Surjection(D, D)
  BY <1>12, <1>9, FS_Injection
<1>11. \A k \in D : \E i \in D : place[i] = k
  BY <1>10, Fun_SurjectionProperties
<1>13. \A k \in D : \E i \in D : place[i] = k /\ sorted[k] = fs[i]
  <2> TAKE k \in D
  <2> DEFINE c == CHOOSE i \in D : Cardinality(P(i)) + 1 = k
  <2>1. \E i \in D : Cardinality(P(i)) + 1 = k
    BY <1>7, <1>11
  <2>2. c \in D /\ Cardinality(P(c)) + 1 = k
    BY <2>1
  <2>3. sorted[k] = fs[c]
    BY DEF sorted
  <2> HIDE DEF c
  <2> QED
    BY <1>7, <2>2, <2>3
<1>14. sorted \in Seq(FindingSet) /\ Len(sorted) = n
  <2>1. sorted \in [D -> FindingSet]
    <3>1. \A k \in D : sorted[k] \in FindingSet
      BY <1>1, <1>13
    <3>2. sorted = [k \in D |-> sorted[k]]
      BY DEF sorted
    <3> QED
      BY <3>1, <3>2
  <2>2. sorted \in Seq(FindingSet)
    BY <1>1, <2>1, IsASeq
  <2> QED
    BY <1>1, <2>1, <2>2, LenProperties
<1>15. \A i \in D : place[i] \in D /\ sorted[place[i]] = fs[i]
  BY <1>7, <1>8, <1>13
<1>16. ASSUME NEW k \in D, NEW l \in D, k < l PROVE sorted[k].start <= sorted[l].start
  <2>1. PICK i \in D : place[i] = k /\ sorted[k] = fs[i]
    BY <1>13
  <2>2. PICK j \in D : place[j] = l /\ sorted[l] = fs[j]
    BY <1>13
  <2>3. Cardinality(P(i)) < Cardinality(P(j)) /\ Cardinality(P(i)) \in Nat /\ Cardinality(P(j)) \in Nat
    BY <1>1, <1>5, <1>7, <1>16, <2>1, <2>2
  <2>4. ~ Prec(j, i) /\ i # j
    BY <1>6, <2>3
  <2> QED
    BY <1>3, <2>1, <2>2, <2>4
<1> QED
  BY <1>1, <1>2, <1>13, <1>14, <1>15, <1>16 DEF n

\* The loop over the sorted findings has a value at every step.
LEMMA KeptAfterIs ==
  ASSUME NEW sorted, Len(sorted) \in Nat
  PROVE  /\ KeptAfter(sorted)[0] = <<>>
         /\ \A n \in 1 .. Len(sorted) :
              KeptAfter(sorted)[n] = Keep(KeptAfter(sorted)[n - 1], sorted[n])
<1> DEFINE D == 0 .. Len(sorted)
           Body(g, n) == IF n = 0 THEN <<>> ELSE Keep(g[n - 1], sorted[n])
           Good(g, k) == \A n \in D : n <= k => g[n] = Body(g, n)
           Bad == {k \in D : ~ \E g : Good(g, k)}
<1>1. \A k \in D : k \in Nat /\ k \in Int
  OBVIOUS
<1>2. Bad = {}
  <2> SUFFICES ASSUME Bad # {} PROVE FALSE
    OBVIOUS
  <2>1. Bad \in SUBSET Nat
    BY <1>1
  <2>2. PICK m \in Bad : \A k \in Bad : m <= k
    BY <2>1, Least
  <2>3. m \in D /\ ~ \E g : Good(g, m)
    OBVIOUS
  <2>4. CASE m = 0
    <3> DEFINE g == [n \in D |-> <<>>]
    <3>1. ASSUME NEW n \in D, n <= m PROVE g[n] = Body(g, n)
      <4>1. n = 0
        BY <1>1, <2>4, <3>1
      <4>2. g[n] = <<>>
        OBVIOUS
      <4> QED
        BY <4>1, <4>2
    <3> HIDE DEF g, Body
    <3>2. Good(g, m)
      BY <3>1
    <3> HIDE DEF Good
    <3> QED
      BY <2>3, <3>2
  <2>5. CASE m # 0
    <3>1. m - 1 \in D /\ m - 1 < m
      BY <1>1, <2>3, <2>5
    <3>2. m - 1 \notin Bad
      <4> HIDE DEF Bad
      <4>1. m \in Int /\ ~ (m <= m - 1)
        BY <1>1, <2>3
      <4> QED
        BY <2>2, <4>1
    <3>3. PICK g : Good(g, m - 1)
      BY <3>1, <3>2
    <3> DEFINE h == [n \in D |-> Body(g, n)]
    <3>4. ASSUME NEW n \in D, n <= m PROVE h[n] = Body(h, n)
      <4>1. CASE n = 0
        BY <4>1
      <4>2. CASE n # 0
        <5>1. n - 1 \in D /\ n - 1 <= m - 1
          BY <1>1, <2>3, <3>4, <4>2
        <5>2. h[n - 1] = Body(g, n - 1)
          BY <5>1
        <5>3. g[n - 1] = Body(g, n - 1)
          BY <3>3, <5>1
        <5>4. h[n - 1] = g[n - 1]
          BY <5>2, <5>3
        <5>5. h[n] = Keep(g[n - 1], sorted[n])
          BY <4>2
        <5> HIDE DEF h
        <5> QED
          BY <4>2, <5>4, <5>5
      <4> QED
        BY <4>1, <4>2
    <3> HIDE DEF h, Body
    <3>5. Good(h, m)
      BY <3>4
    <3> QED
      BY <2>3, <3>5
  <2> QED
    BY <2>4, <2>5
<1>3. PICK g : Good(g, Len(sorted))
  <2>1. Len(sorted) \in D
    OBVIOUS
  <2> QED
    BY <1>2, <2>1
<1> DEFINE f == [n \in D |-> g[n]]
<1>4. f = [n \in D |-> IF n = 0 THEN <<>> ELSE Keep(f[n - 1], sorted[n])]
  <2>1. ASSUME NEW n \in D PROVE f[n] = Body(f, n)
    <3>1. f[n] = Body(g, n)
      BY <1>1, <1>3
    <3>2. n # 0 => n - 1 \in D
      BY <1>1
    <3>3. n # 0 => f[n - 1] = g[n - 1]
      BY <3>2
    <3> HIDE DEF f
    <3> QED
      BY <3>1, <3>3
  <2>2. f = [n \in D |-> f[n]]
    OBVIOUS
  <2> HIDE DEF f
  <2> QED
    BY <2>1, <2>2
<1>5. KeptAfter(sorted) = [n \in D |-> IF n = 0 THEN <<>> ELSE Keep(KeptAfter(sorted)[n - 1], sorted[n])]
  <2> HIDE DEF f
  <2> QED
    BY <1>4 DEF KeptAfter
<1> DEFINE kept == KeptAfter(sorted)
<1> HIDE DEF kept
<1>6. kept = [n \in D |-> IF n = 0 THEN <<>> ELSE Keep(kept[n - 1], sorted[n])]
  BY <1>5 DEF kept
<1>7. 0 \in D /\ \A n \in 1 .. Len(sorted) : n \in D /\ n # 0
  OBVIOUS
<1>8. kept[0] = <<>> /\ \A n \in 1 .. Len(sorted) : kept[n] = Keep(kept[n - 1], sorted[n])
  BY <1>6, <1>7
<1> QED
  BY <1>8 DEF kept

\* Max of two numbers is one of them and at least each of them.
LEMMA MaxOfTwo ==
  ASSUME NEW a \in Int, NEW b \in Int
  PROVE  Max({a, b}) \in {a, b} /\ a <= Max({a, b}) /\ b <= Max({a, b})
<1>1. \E x \in {a, b} : \A y \in {a, b} : x >= y
  OBVIOUS
<1>2. Max({a, b}) \in {a, b} /\ \A y \in {a, b} : Max({a, b}) >= y
  BY <1>1 DEF Max
<1> QED
  BY <1>2

\* A merged finding starts where the first did and reaches as far as the one
\* that reaches further; its label is that of the stronger one.
LEMMA MergeIs ==
  ASSUME NEW g \in FindingSet, NEW f \in FindingSet
  PROVE  /\ MergeFindings(g, f) \in FindingSet
         /\ MergeFindings(g, f).start = g.start
         /\ g.end <= MergeFindings(g, f).end /\ f.end <= MergeFindings(g, f).end
         /\ MergeFindings(g, f).end \in {g.end, f.end}
         /\ g.score <= MergeFindings(g, f).score /\ f.score <= MergeFindings(g, f).score
         /\ \E h \in {g, f} : /\ MergeFindings(g, f).type = h.type
                             /\ MergeFindings(g, f).score = h.score
<1> DEFINE m == Max({g.end, f.end})
           label == IF f.score > g.score THEN f ELSE g
<1>1. g.start \in Int /\ g.end \in Int /\ f.end \in Int /\ label \in FindingSet
  BY DEF FindingSet
<1>2. m \in {g.end, f.end} /\ m \in Int /\ g.end <= m /\ f.end <= m
  BY <1>1, MaxOfTwo
<1>3. MergeFindings(g, f) = [type |-> label.type, start |-> g.start, end |-> m, score |-> label.score]
  BY DEF MergeFindings, Finding
<1>4. label.type \in {"e", "s"} /\ label.score \in Int
  BY <1>1 DEF FindingSet
<1>5. g.score <= label.score /\ f.score <= label.score /\ label \in {g, f}
  <2>1. g.score \in Int /\ f.score \in Int
    BY DEF FindingSet
  <2> QED
    BY <2>1
<1> HIDE DEF m, label
<1> QED
  BY <1>1, <1>2, <1>3, <1>4, <1>5 DEF FindingSet

\* Spans one after the other.
Apart(fs) == \A k, l \in DOMAIN fs : k < l => fs[k].end <= fs[l].start

\* Everything in fs is covered by something in gs.
CoveredBy(fs, gs) == \A k \in DOMAIN fs : \E l \in DOMAIN gs : Covers(gs[l], fs[k])

\* Keep loses nothing and keeps the spans apart, if findings come in order.
LEMMA KeepIs ==
  ASSUME NEW kept \in Seq(FindingSet), Apart(kept), NEW f \in FindingSet,
         kept # <<>> => Last(kept).start <= f.start
  PROVE  /\ Keep(kept, f) \in Seq(FindingSet) /\ Keep(kept, f) # <<>>
         /\ Apart(Keep(kept, f))
         /\ Last(Keep(kept, f)).start <= f.start
         /\ CoveredBy(kept, Keep(kept, f))
         /\ \E l \in DOMAIN Keep(kept, f) : Covers(Keep(kept, f)[l], f)
<1> DEFINE n == Len(kept)
           K == Keep(kept, f)
<1>1. /\ n \in Nat /\ DOMAIN kept = 1 .. n
      /\ \A k \in 1 .. n : kept[k] \in FindingSet
  BY LenProperties, ElementOfSeq
<1>2. \A g \in FindingSet : g.start \in Int /\ g.end \in Int /\ g.score \in Int
  BY DEF FindingSet
<1>3. CASE kept # <<>> /\ f.start < Last(kept).end
  <2> DEFINE front == SubSeq(kept, 1, n - 1)
             m == MergeFindings(kept[n], f)
  <2>1. n # 0 /\ kept[n] = Last(kept)
    BY <1>3, EmptySeq DEF Last
  <2>2. n \in 1 .. n /\ kept[n] \in FindingSet
    BY <1>1, <2>1
  <2>3. /\ m \in FindingSet /\ m.start = kept[n].start
        /\ kept[n].end <= m.end /\ f.end <= m.end
        /\ kept[n].score <= m.score /\ f.score <= m.score
    BY <2>2, MergeIs
  <2>4. K = Append(front, m)
    BY <1>3, <2>1 DEF Keep, Front
  <2> HIDE DEF m
  <2>5. /\ front \in Seq(FindingSet) /\ Len(front) = n - 1
        /\ \A k \in 1 .. n - 1 : front[k] = kept[k]
    <3>1. \A k \in 1 .. n - 1 : kept[k] \in FindingSet
      BY <1>1
    <3> QED
      BY <1>1, <2>1, <3>1, SubSeqProperties
  <2> HIDE DEF front, K
  <2>6. /\ K \in Seq(FindingSet) /\ Len(K) = n /\ DOMAIN K = 1 .. n
        /\ \A k \in 1 .. n - 1 : K[k] = kept[k]
        /\ K[n] = m
    <3>1. /\ Append(front, m) \in Seq(FindingSet) /\ Len(Append(front, m)) = Len(front) + 1
          /\ \A k \in 1 .. Len(front) : Append(front, m)[k] = front[k]
          /\ Append(front, m)[Len(front) + 1] = m
      BY <2>3, <2>5, AppendProperties
    <3>2. Len(K) = n /\ K \in Seq(FindingSet)
      BY <1>1, <2>4, <2>5, <3>1
    <3>3. DOMAIN K = 1 .. n
      BY <3>2, LenProperties
    <3> QED
      BY <1>1, <2>4, <2>5, <3>1, <3>2, <3>3
  <2>7. \A k \in 1 .. n : k \in 1 .. n - 1 \/ k = n
    <3> HIDE DEF n
    <3> QED
      BY <1>1
  <2>8. \A k \in 1 .. n : K[k].start = kept[k].start
    BY <2>3, <2>6, <2>7
  <2>9. Apart(K)
    <3> SUFFICES ASSUME NEW k \in 1 .. n, NEW l \in 1 .. n, k < l PROVE K[k].end <= K[l].start
      BY <2>6 DEF Apart
    <3>1. k \in 1 .. n - 1
      BY <1>1
    <3>2. kept[k].end <= kept[l].start
      BY <1>1 DEF Apart
    <3> QED
      BY <2>6, <2>8, <3>1, <3>2
  <2>10. Last(K).start <= f.start
    <3>1. kept[n].start <= f.start
      BY <1>3, <2>1
    <3>2. Last(K) = m
      BY <2>6 DEF Last
    <3> QED
      BY <2>3, <3>1, <3>2
  <2>11. CoveredBy(kept, K)
    <3> SUFFICES ASSUME NEW k \in 1 .. n PROVE Covers(K[k], kept[k])
      BY <1>1, <2>6 DEF CoveredBy
    <3>1. kept[k].start \in Int /\ kept[k].end \in Int /\ kept[k].score \in Int
      BY <1>1, <1>2
    <3>2. CASE k = n
      BY <2>3, <2>6, <3>1, <3>2 DEF Covers
    <3>3. CASE k \in 1 .. n - 1
      BY <2>6, <3>1, <3>3 DEF Covers
    <3> QED
      BY <2>7, <3>2, <3>3
  <2>12. Covers(K[n], f)
    BY <1>3, <2>1, <2>3, <2>6 DEF Covers
  <2>13. K # <<>>
    BY <2>1, <2>6, EmptySeq
  <2> QED
    BY <2>2, <2>6, <2>9, <2>10, <2>11, <2>12, <2>13 DEF K
<1>4. CASE ~ (kept # <<>> /\ f.start < Last(kept).end)
  <2>1. K = Append(kept, f)
    BY <1>4 DEF Keep
  <2> HIDE DEF K
  <2>2. /\ K \in Seq(FindingSet) /\ Len(K) = n + 1 /\ DOMAIN K = 1 .. n + 1
        /\ \A k \in 1 .. n : K[k] = kept[k]
        /\ K[n + 1] = f
    <3>1. /\ K \in Seq(FindingSet) /\ Len(K) = n + 1
          /\ \A k \in 1 .. n : K[k] = kept[k]
          /\ K[n + 1] = f
      BY <2>1, AppendProperties
    <3> QED
      BY <3>1, LenProperties
  <2>3. \A k \in 1 .. n + 1 : k \in 1 .. n \/ k = n + 1
    BY <1>1
  <2>4. f.start \in Int /\ f.end \in Int /\ f.score \in Int
    BY <1>2
  <2>5. \A k \in 1 .. n : kept[k].end <= f.start
    <3> TAKE k \in 1 .. n
    <3>1. n \in 1 .. n /\ n # 0
      BY <1>1
    <3>2. kept # <<>> /\ Last(kept) = kept[n]
      BY <3>1, EmptySeq DEF Last
    <3>3. /\ kept[k].end \in Int /\ kept[n].start \in Int /\ kept[n].end \in Int
      BY <1>1, <1>2, <3>1
    <3>4. kept[n].end <= f.start /\ kept[n].start <= f.start
      BY <1>4, <2>4, <3>2, <3>3
    <3>5. CASE k = n
      BY <3>4, <3>5
    <3>6. CASE k # n
      <4>1. k < n
        <5> HIDE DEF n
        <5> QED
          BY <1>1, <3>6
      <4>2. kept[k].end <= kept[n].start
        BY <1>1, <3>1, <4>1 DEF Apart
      <4>3. kept[n].start <= f.start
        BY <3>4
      <4> QED
        BY <2>4, <3>3, <4>2, <4>3
    <3> QED
      BY <3>5, <3>6
  <2>6. Apart(K)
    <3> SUFFICES ASSUME NEW k \in 1 .. n + 1, NEW l \in 1 .. n + 1, k < l PROVE K[k].end <= K[l].start
      BY <2>2 DEF Apart
    <3>1. k \in 1 .. n
      BY <1>1
    <3>2. CASE l = n + 1
      BY <2>2, <2>5, <3>1, <3>2
    <3>3. CASE l \in 1 .. n
      BY <1>1, <2>2, <3>1, <3>3 DEF Apart
    <3> QED
      BY <2>3, <3>2, <3>3
  <2>7. Last(K).start <= f.start
    BY <2>2, <2>4 DEF Last
  <2>8. CoveredBy(kept, K)
    <3> SUFFICES ASSUME NEW k \in 1 .. n PROVE k \in 1 .. n + 1 /\ Covers(K[k], kept[k])
      BY <1>1, <2>2 DEF CoveredBy
    <3>1. /\ kept[k].start \in Int /\ kept[k].end \in Int /\ kept[k].score \in Int
          /\ k \in 1 .. n + 1
      BY <1>1, <1>2
    <3> QED
      BY <2>2, <3>1 DEF Covers
  <2>9. n + 1 \in DOMAIN K /\ Covers(K[n + 1], f)
    BY <1>1, <2>2, <2>4 DEF Covers
  <2>10. K # <<>>
    BY <1>1, <2>2, EmptySeq
  <2> QED
    BY <2>2, <2>6, <2>7, <2>8, <2>9, <2>10 DEF K
<1> QED
  BY <1>3, <1>4

\* Covering is transitive.
LEMMA CoversTransitive ==
  ASSUME NEW f \in FindingSet, NEW g \in FindingSet, NEW h \in FindingSet, Covers(f, g), Covers(g, h)
  PROVE  Covers(f, h)
<1>1. /\ f.start \in Int /\ g.start \in Int /\ h.start \in Int
      /\ f.end \in Int /\ g.end \in Int /\ h.end \in Int
      /\ f.score \in Int /\ g.score \in Int /\ h.score \in Int
  BY DEF FindingSet
<1> QED
  BY <1>1 DEF Covers

\* What is true of the loop over the sorted findings after n of them.
LoopInv(sorted, kept, n) ==
  /\ kept \in Seq(FindingSet) /\ Apart(kept)
  /\ kept # <<>> => n # 0 /\ Last(kept).start <= sorted[n].start
  /\ \A m \in 1 .. n : \E l \in DOMAIN kept : Covers(kept[l], sorted[m])

\* One round of the loop of _deduplicate_findings keeps its invariant.
LEMMA LoopStep ==
  ASSUME NEW sorted \in Seq(FindingSet), NEW n \in 1 .. Len(sorted), NEW kept,
         \A k, l \in 1 .. Len(sorted) : k < l => sorted[k].start <= sorted[l].start,
         LoopInv(sorted, kept, n - 1)
  PROVE  LoopInv(sorted, Keep(kept, sorted[n]), n)
<1> DEFINE N == Len(sorted)
           f == sorted[n]
           K == Keep(kept, f)
<1>1. N \in Nat /\ \A k \in 1 .. N : sorted[k] \in FindingSet
  BY LenProperties, ElementOfSeq
<1>2. \A g \in FindingSet : g.start \in Int
  BY DEF FindingSet
<1>3. kept \in Seq(FindingSet) /\ Apart(kept)
  BY DEF LoopInv
<1>4. f \in FindingSet /\ f.start \in Int
  BY <1>1, <1>2
<1> HIDE DEF N
<1>5. n \in Int /\ n # 0
  BY <1>1 DEF N
<1>6. ASSUME kept # <<>> PROVE Last(kept).start <= f.start
  <2>1. n - 1 # 0 /\ Last(kept).start <= sorted[n - 1].start
    BY <1>6 DEF LoopInv
  <2>2. n - 1 \in 1 .. N /\ n - 1 < n
    BY <1>1, <1>5, <2>1 DEF N
  <2>3. sorted[n - 1].start <= f.start
    BY <2>2 DEF N
  <2>4. Len(kept) \in 1 .. Len(kept)
    BY <1>3, <1>6, EmptySeq, LenProperties
  <2>5. Last(kept).start \in Int /\ sorted[n - 1].start \in Int
    BY <1>1, <1>2, <1>3, <2>2, <2>4, ElementOfSeq DEF Last
  <2> HIDE DEF f
  <2> QED
    BY <1>4, <2>1, <2>3, <2>5
<1> HIDE DEF f
<1>7. /\ K \in Seq(FindingSet) /\ K # <<>> /\ Apart(K)
      /\ Last(K).start <= f.start
      /\ CoveredBy(kept, K)
      /\ \E l \in DOMAIN K : Covers(K[l], f)
  BY <1>3, <1>4, <1>6, KeepIs
<1> HIDE DEF K
<1>8. ASSUME NEW m \in 1 .. n PROVE \E l \in DOMAIN K : Covers(K[l], sorted[m])
  <2>1. CASE m = n
    BY <1>7, <2>1 DEF f
  <2>2. CASE m # n
    <3>1. m \in 1 .. n - 1 /\ m \in 1 .. N
      BY <1>1, <1>5, <2>2 DEF N
    <3>2. PICK k \in DOMAIN kept : Covers(kept[k], sorted[m])
      BY <3>1 DEF LoopInv
    <3>3. PICK l \in DOMAIN K : Covers(K[l], kept[k])
      BY <1>7 DEF CoveredBy
    <3>4. K[l] \in FindingSet /\ kept[k] \in FindingSet /\ sorted[m] \in FindingSet
      BY <1>1, <1>3, <1>7, <3>1, LenProperties, ElementOfSeq
    <3> QED
      BY <3>2, <3>3, <3>4, CoversTransitive
  <2> QED
    BY <2>1, <2>2
<1>9. LoopInv(sorted, K, n)
  BY <1>5, <1>7, <1>8 DEF LoopInv, f
<1> QED
  BY <1>9 DEF K, f

\* Merging a list of findings loses none of them and leaves spans apart.
LEMMA DeduplicateIs ==
  ASSUME NEW fs \in Seq(FindingSet)
  PROVE  /\ DeduplicateFindings(fs) \in Seq(FindingSet)
         /\ Apart(DeduplicateFindings(fs))
         /\ CoveredBy(fs, DeduplicateFindings(fs))
<1> DEFINE sorted == SortFindings(fs)
           N == Len(fs)
           kept == KeptAfter(sorted)
           Bad == {n \in 0 .. N : ~ LoopInv(sorted, kept[n], n)}
<1>1. /\ N \in Nat /\ sorted \in Seq(FindingSet) /\ Len(sorted) = N
      /\ \A i \in 1 .. N : \E k \in 1 .. N : sorted[k] = fs[i]
      /\ \A k, l \in 1 .. N : k < l => sorted[k].start <= sorted[l].start
  BY SortedIs, LenProperties
<1>2. DeduplicateFindings(fs) = kept[N]
  BY DEF DeduplicateFindings
<1> HIDE DEF sorted, N
<1>3. kept[0] = <<>> /\ \A n \in 1 .. N : kept[n] = Keep(kept[n - 1], sorted[n])
  BY <1>1, KeptAfterIs
<1> HIDE DEF kept
<1>4. Bad = {}
  <2> SUFFICES ASSUME Bad # {} PROVE FALSE
    OBVIOUS
  <2>1. PICK m \in Bad : \A n \in Bad : m <= n
    <3>1. Bad \in SUBSET Nat
      BY <1>1
    <3> QED
      BY <3>1, Least
  <2>2. m \in 0 .. N /\ m \in Int /\ ~ LoopInv(sorted, kept[m], m)
    BY <1>1
  <2>3. CASE m = 0
    <3>1. LoopInv(sorted, <<>>, 0)
      <4>1. <<>> \in Seq(FindingSet) /\ DOMAIN <<>> = {} /\ 1 .. 0 = {}
        BY EmptySeq
      <4> QED
        BY <4>1 DEF LoopInv, Apart
    <3> QED
      BY <1>3, <2>2, <2>3, <3>1
  <2>4. CASE m # 0
    <3>1. m \in 1 .. N /\ m - 1 \in 0 .. N /\ ~ (m <= m - 1)
      BY <1>1, <2>2, <2>4
    <3>2. LoopInv(sorted, kept[m - 1], m - 1)
      BY <2>1, <3>1
    <3>3. LoopInv(sorted, Keep(kept[m - 1], sorted[m]), m)
      BY <1>1, <3>1, <3>2, LoopStep
    <3> QED
      BY <1>3, <2>2, <3>1, <3>3
  <2> QED
    BY <2>3, <2>4
<1>5. LoopInv(sorted, kept[N], N)
  BY <1>1, <1>4
<1>6. ASSUME NEW i \in DOMAIN fs PROVE \E l \in DOMAIN kept[N] : Covers(kept[N][l], fs[i])
  <2>1. i \in 1 .. N
    BY LenProperties DEF N
  <2>2. PICK k \in 1 .. N : sorted[k] = fs[i]
    BY <1>1, <2>1
  <2> QED
    BY <1>5, <2>2 DEF LoopInv
<1> QED
  BY <1>2, <1>5, <1>6 DEF LoopInv, CoveredBy

\* A set of findings that merging does not leave.
Merges(S) == S \in SUBSET FindingSet /\ \A g, f \in S : MergeFindings(g, f) \in S

LEMMA KeepStaysIn ==
  ASSUME NEW S, Merges(S), NEW kept \in Seq(S), NEW f \in S
  PROVE  Keep(kept, f) \in Seq(S)
<1> DEFINE n == Len(kept)
<1>1. n \in Nat /\ \A k \in 1 .. n : kept[k] \in S
  BY LenProperties, ElementOfSeq
<1>2. CASE kept # <<>> /\ f.start < Last(kept).end
  <2> DEFINE front == SubSeq(kept, 1, n - 1)
             m == MergeFindings(kept[n], f)
  <2>1. n # 0 /\ kept[n] = Last(kept)
    BY <1>2, EmptySeq DEF Last
  <2>2. m \in S
    <3>1. n \in 1 .. n
      BY <1>1, <2>1
    <3> QED
      BY <1>1, <3>1 DEF Merges
  <2>3. Keep(kept, f) = Append(front, m)
    BY <1>2, <2>1 DEF Keep, Front
  <2>4. front \in Seq(S)
    <3>1. \A k \in 1 .. n - 1 : kept[k] \in S
      BY <1>1
    <3> QED
      BY <1>1, <2>1, <3>1, SubSeqProperties
  <2> HIDE DEF front, m
  <2> QED
    BY <2>2, <2>3, <2>4, AppendProperties
<1>3. CASE ~ (kept # <<>> /\ f.start < Last(kept).end)
  <2>1. Keep(kept, f) = Append(kept, f)
    BY <1>3 DEF Keep
  <2> QED
    BY <2>1, AppendProperties
<1> QED
  BY <1>2, <1>3

\* Sorting and merging leave no such set either.
LEMMA DeduplicateStaysIn ==
  ASSUME NEW S, Merges(S), NEW fs \in Seq(S)
  PROVE  DeduplicateFindings(fs) \in Seq(S)
<1> DEFINE sorted == SortFindings(fs)
           N == Len(fs)
           kept == KeptAfter(sorted)
           Bad == {n \in 0 .. N : kept[n] \notin Seq(S)}
<1>1. fs \in Seq(FindingSet) /\ N \in Nat
  BY SeqMonotonic, LenProperties DEF Merges
<1>2. /\ sorted \in Seq(FindingSet) /\ Len(sorted) = N
      /\ \A k \in 1 .. N : \E i \in 1 .. N : sorted[k] = fs[i]
  BY <1>1, SortedIs, LenProperties
<1>3. \A k \in 1 .. N : sorted[k] \in S
  BY <1>1, <1>2, ElementOfSeq
<1>4. DeduplicateFindings(fs) = kept[N]
  BY DEF DeduplicateFindings
<1> HIDE DEF sorted, N
<1>5. kept[0] = <<>> /\ \A n \in 1 .. N : kept[n] = Keep(kept[n - 1], sorted[n])
  BY <1>1, <1>2, KeptAfterIs
<1> HIDE DEF kept
<1>6. Bad = {}
  <2> SUFFICES ASSUME Bad # {} PROVE FALSE
    OBVIOUS
  <2>1. PICK m \in Bad : \A n \in Bad : m <= n
    <3>1. Bad \in SUBSET Nat
      BY <1>1
    <3> QED
      BY <3>1, Least
  <2>2. m \in 0 .. N /\ m \in Int /\ kept[m] \notin Seq(S)
    BY <1>1
  <2>3. m # 0
    BY <1>5, <2>2, EmptySeq
  <2>4. m \in 1 .. N /\ m - 1 \in 0 .. N /\ ~ (m <= m - 1)
    BY <1>1, <2>2, <2>3
  <2>5. kept[m - 1] \in Seq(S) /\ sorted[m] \in S
    BY <1>3, <2>1, <2>4
  <2>6. Keep(kept[m - 1], sorted[m]) \in Seq(S)
    BY <2>5, KeepStaysIn
  <2> QED
    BY <1>5, <2>2, <2>4, <2>6
<1>7. N \in 0 .. N
  BY <1>1
<1> QED
  BY <1>4, <1>6, <1>7

\* Findings between two offsets that carry the label of one of the values.
Placed(V, from, to) ==
  {f \in FindingSet : /\ from <= f.start /\ f.start < f.end /\ f.end <= to
                      /\ \E v \in V : v.type = f.type /\ v.score = f.score}

LEMMA PlacedMerges ==
  ASSUME NEW V, NEW from \in Int, NEW to \in Int
  PROVE  Merges(Placed(V, from, to))
<1> SUFFICES ASSUME NEW g \in Placed(V, from, to), NEW f \in Placed(V, from, to)
             PROVE  MergeFindings(g, f) \in Placed(V, from, to)
  BY DEF Merges, Placed
<1> DEFINE m == MergeFindings(g, f)
<1>1. g \in FindingSet /\ f \in FindingSet
  BY DEF Placed
<1>2. /\ m \in FindingSet /\ m.start = g.start
      /\ g.end <= m.end /\ m.end \in {g.end, f.end}
      /\ \E h \in {g, f} : m.type = h.type /\ m.score = h.score
  BY <1>1, MergeIs
<1> HIDE DEF m
<1>3. \A h \in FindingSet : h.start \in Int /\ h.end \in Int
  BY DEF FindingSet
<1>4. from <= g.start /\ g.start < g.end /\ g.end <= to /\ f.end <= to
  BY DEF Placed
<1>5. from <= m.start /\ m.start < m.end /\ m.end <= to
  BY <1>1, <1>2, <1>3, <1>4
<1>6. \E v \in V : v.type = m.type /\ v.score = m.score
  <2>1. PICK h \in {g, f} : m.type = h.type /\ m.score = h.score
    BY <1>2
  <2>2. \E v \in V : v.type = h.type /\ v.score = h.score
    BY DEF Placed
  <2> QED
    BY <2>1, <2>2
<1>7. m \in Placed(V, from, to)
  BY <1>2, <1>5, <1>6 DEF Placed
<1> QED
  BY <1>7 DEF m

-----------------------------------------------------------------------------
(* The findings of a chunk. *)

\* SetToSeq lists every element of a finite set.
LEMMA SetToSeqIs ==
  ASSUME NEW S, IsFiniteSet(S)
  PROVE  /\ SetToSeq(S) \in Seq(S)
         /\ \A x \in S : \E k \in DOMAIN SetToSeq(S) : SetToSeq(S)[k] = x
<1> DEFINE n == Cardinality(S)
           f == SetToSeq(S)
<1>1. n \in Nat /\ \E g \in [1 .. n -> S] : IsInjective(g)
  <2>1. n \in Nat /\ ExistsBijection(1 .. n, S)
    BY FS_CardinalityType
  <2> QED
    BY <2>1 DEF ExistsBijection, Bijection, Injection
<1>2. f \in [1 .. n -> S] /\ IsInjective(f)
  BY <1>1 DEF SetToSeq
<1> HIDE DEF f
<1>3. Cardinality(1 .. n) = n
  BY <1>1, FS_Interval
<1>4. f \in Injection(1 .. n, S)
  BY <1>2 DEF Injection
<1> HIDE DEF n
<1>5. f \in Surjection(1 .. n, S)
  <2>1. Cardinality(1 .. n) = Cardinality(S)
    BY <1>3 DEF n
  <2> QED
    BY <1>4, <2>1, FS_Injection
<1>6. f \in Seq(S)
  BY <1>1, <1>2, IsASeq
<1>7. \A x \in S : \E k \in DOMAIN f : f[k] = x
  BY <1>2, <1>5 DEF Surjection
<1> QED
  BY <1>6, <1>7 DEF f

\* The values of the text.
ValuesInv ==
  /\ IsFiniteSet(values)
  /\ \A v \in values : v \in Sensitive(text)

\* The bounds of the chunk, as numbers.
LEMMA ChunkBounds ==
  ASSUME ChunkInv
  PROVE  /\ chunk.from \in Nat /\ chunk.to \in Nat /\ Len(text) \in Nat
         /\ chunk.from <= chunk.to /\ chunk.to <= Len(text)
         /\ Len(ChunkText) = chunk.to - chunk.from
<1>1. Len(text) \in Nat /\ chunk.from \in 0 .. Len(text)
  BY LenProperties DEF ChunkInv
<1>2. chunk.to \in chunk.from .. Len(text)
  <2>1. PICK s, from : s = text /\ from = chunk.from
    OBVIOUS
  <2>2. ChunkFrom(s, from).to \in from .. Len(s)
    BY <1>1, <2>1, ChunkIs
  <2> QED
    BY <2>1, <2>2 DEF ChunkInv
<1>3. \A i \in 1 .. Len(text) : text[i] \in {"a", "w"}
  BY ElementOfSeq DEF ChunkInv
<1>4. PICK a \in Nat, b \in Nat : a = chunk.from /\ b = chunk.to
  BY <1>1, <1>2
<1>5. a <= b /\ b <= Len(text)
  BY <1>1, <1>2, <1>4
<1>6. Len(SubSeq(text, a + 1, b)) = b - a
  <2>1. \A i \in a + 1 .. b : text[i] \in {"a", "w"}
    BY <1>1, <1>3, <1>5
  <2>2. Len(SubSeq(text, a + 1, b)) = IF a + 1 <= b THEN b - (a + 1) + 1 ELSE 0
    BY <2>1, SubSeqProperties
  <2> QED
    BY <1>5, <2>2
<1> QED
  BY <1>1, <1>4, <1>5, <1>6 DEF ChunkText, Slice

\* A sensitive value lies inside the text and is not empty.
LEMMA ValueBounds ==
  ASSUME ChunkInv, NEW v \in Sensitive(text)
  PROVE  /\ v.start \in Nat /\ v.end \in Nat /\ v.start < v.end /\ v.end <= Len(text)
         /\ v.type \in {"e", "s"} /\ v.score \in Int
         /\ v \in FindingSet
<1>1. Len(text) \in Nat
  BY ChunkBounds
<1> QED
  BY <1>1 DEF Sensitive, FindingSet

\* At most one range, which is not empty and does not leave the text.
LEMMA RangeIs ==
  ASSUME NEW s, Len(s) \in Nat, NEW r, r.from \in Nat, r.to \in Nat
  PROVE  \/ FindingRange(s, r) = {}
         \/ \E i \in Nat, j \in Nat :
              FindingRange(s, r) = {<<i, j>>} /\ i < j /\ j <= Len(s)
<1> DEFINE i == CharacterAt(s, r.from)
           j == CharacterAt(s, r.to)
<1>1. i \in 0 .. Len(s) /\ j \in 0 .. Len(s)
  BY CharacterAtIs
<1> HIDE DEF i, j
<1>2. i \in Nat /\ j \in Nat /\ i <= Len(s) /\ j <= Len(s)
  BY <1>1
<1>3. CASE r.unit = "byte" /\ FindingRange(s, r) # {}
  <2>1. /\ FindingRange(s, r) = {<<i, j>>} /\ r.from < r.to
        /\ ByteOffset(s, i) = r.from /\ ByteOffset(s, j) = r.to
    BY <1>3 DEF FindingRange, ByteToCodepointRange, i, j
  <2>2. ~ (j <= i)
    <3> SUFFICES ASSUME j <= i PROVE FALSE
      OBVIOUS
    <3>1. ByteOffset(s, j) <= ByteOffset(s, i)
      BY <1>1, <1>2, BytesOrder
    <3> QED
      BY <2>1, <3>1
  <2> QED
    BY <1>2, <2>1, <2>2
<1>4. CASE r.unit # "byte"
  BY <1>4 DEF FindingRange
<1> QED
  BY <1>3, <1>4

\* What is reported of a value that lies whole in the chunk: where it is.
LEMMA WholeIsReported ==
  ASSUME ChunkInv, NEW v \in Sensitive(text), Whole(v), NEW unit \in Units
  PROVE  /\ FindingRange(ChunkText, Visible(v, unit)) = {<<v.start - chunk.from, v.end - chunk.from>>}
         /\ Visible(v, unit).from \in Nat /\ Visible(v, unit).to \in Nat
<1> DEFINE s == ChunkText
           a == v.start - chunk.from
           b == v.end - chunk.from
           r == Visible(v, unit)
<1>1. /\ chunk.from \in Nat /\ chunk.to \in Nat /\ Len(s) = chunk.to - chunk.from
      /\ chunk.from <= chunk.to
  BY ChunkBounds
<1>2. v.start \in Nat /\ v.end \in Nat /\ v.start < v.end
  BY ValueBounds
<1>3. chunk.from <= v.start /\ v.end <= chunk.to
  BY DEF Whole
<1>4. a \in Nat /\ b \in Nat /\ a < b /\ b <= Len(s) /\ Len(s) \in Nat
  BY <1>1, <1>2, <1>3
<1>5. /\ (IF v.start < chunk.from THEN chunk.from ELSE v.start) - chunk.from = a
      /\ Lower(v.end, chunk.to) - chunk.from = b
  BY <1>1, <1>2, <1>3 DEF Lower
<1>6. /\ r.unit = unit
      /\ r.from = IF unit = "byte" THEN ByteOffset(s, a) ELSE a
      /\ r.to = IF unit = "byte" THEN ByteOffset(s, b) ELSE b
  BY <1>5 DEF Visible
<1> HIDE DEF a, b, r, s
<1>7. ByteOffset(s, a) \in Nat /\ ByteOffset(s, b) \in Nat /\ ByteOffset(s, Len(s)) \in Nat
  BY <1>4, BytesType
<1>8. r.from \in Nat /\ r.to \in Nat
  BY <1>4, <1>6, <1>7
<1>9. CASE unit # "byte"
  BY <1>4, <1>6, <1>8, <1>9 DEF FindingRange, a, b, r, s
<1>10. CASE unit = "byte"
  <2>1. ByteOffset(s, a) < ByteOffset(s, b)
    BY <1>4, BytesMonotone
  <2>2. ByteOffset(s, b) <= ByteOffset(s, Len(s))
    BY <1>4, BytesOrder
  <2>3. CharacterAt(s, ByteOffset(s, a)) = a /\ CharacterAt(s, ByteOffset(s, b)) = b
    BY <1>4, CharacterAtStart
  <2>4. ByteToCodepointRange(s, ByteOffset(s, a), ByteOffset(s, b)) = {<<a, b>>}
    BY <1>7, <2>1, <2>2, <2>3 DEF ByteToCodepointRange
  <2>5. FindingRange(s, r) = {<<a, b>>}
    BY <1>6, <1>10, <2>4 DEF FindingRange
  <2> QED
    BY <1>8, <2>5 DEF a, b, r, s
<1> QED
  BY <1>9, <1>10

\* What is reported of one it cuts: some offsets of the chunk.
LEMMA CutIsReported ==
  ASSUME ChunkInv, NEW v \in Sensitive(text), Cut(v), NEW unit \in Units
  PROVE  Visible(v, unit).from \in Nat /\ Visible(v, unit).to \in Nat
<1> DEFINE a == (IF v.start < chunk.from THEN chunk.from ELSE v.start) - chunk.from
           b == Lower(v.end, chunk.to) - chunk.from
<1>1. chunk.from \in Nat /\ chunk.to \in Nat /\ chunk.from <= chunk.to
  BY ChunkBounds
<1>2. v.start \in Nat /\ v.end \in Nat /\ v.start < v.end
  BY ValueBounds
<1>3. a \in Nat /\ b \in Nat
  BY <1>1, <1>2 DEF Cut, Lower
<1>4. ByteOffset(ChunkText, a) \in Nat /\ ByteOffset(ChunkText, b) \in Nat
  BY <1>3, BytesType
<1>5. /\ Visible(v, unit).from = IF unit = "byte" THEN ByteOffset(ChunkText, a) ELSE a
      /\ Visible(v, unit).to = IF unit = "byte" THEN ByteOffset(ChunkText, b) ELSE b
  BY DEF Visible
<1> HIDE DEF a, b
<1> QED
  BY <1>3, <1>4, <1>5

\* The findings of a chunk, at offsets of the text, cover every value that lies
\* whole in it.
LEMMA FoundIs ==
  ASSUME ChunkInv, ValuesInv, NEW unit \in Units, NEW reports \in Reports(unit)
  PROVE  /\ Shift(NormalizeGoogleFindings(reports)) \in Seq(Placed(values, 0, Len(text)))
         /\ \A v \in values : Whole(v) =>
              \E n \in DOMAIN Shift(NormalizeGoogleFindings(reports)) :
                Covers(Shift(NormalizeGoogleFindings(reports))[n], v)
<1> DEFINE Of(r) == {Finding(r.type, range[1], range[2], r.score) :
                       range \in FindingRange(ChunkText, r)}
           F == UNION {Of(r) : r \in reports}
           fs == DeduplicateFindings(SetToSeq(F))
           found == Shift(fs)
           L == Len(ChunkText)
           P == Placed(values, 0, L)
<1>1. PICK cut \in SUBSET {w \in values : Cut(w)} :
        reports = {Visible(v, unit) : v \in {w \in values : Whole(w)} \cup cut}
  BY DEF Reports
<1> DEFINE W == {w \in values : Whole(w)} \cup cut
<1>2. \A v \in W : v \in values /\ v \in Sensitive(text) /\ (Whole(v) \/ Cut(v))
  BY DEF ValuesInv
<1>3. \A v \in W : Visible(v, unit).from \in Nat /\ Visible(v, unit).to \in Nat
  BY <1>2, WholeIsReported, CutIsReported
<1>4. \A v \in W : Visible(v, unit).type = v.type /\ Visible(v, unit).score = v.score
  BY DEF Visible
<1>5. /\ chunk.from \in Nat /\ L \in Nat /\ Len(text) \in Nat
      /\ chunk.from + L <= Len(text)
  BY ChunkBounds
<1> HIDE DEF L
<1>6. ASSUME NEW v \in W
      PROVE  IsFiniteSet(Of(Visible(v, unit))) /\ Of(Visible(v, unit)) \in SUBSET P
  <2> DEFINE r == Visible(v, unit)
  <2>1. \/ FindingRange(ChunkText, r) = {}
        \/ \E i \in Nat, j \in Nat :
             FindingRange(ChunkText, r) = {<<i, j>>} /\ i < j /\ j <= L
    <3>1. r.from \in Nat /\ r.to \in Nat
      BY <1>3
    <3>2. PICK q, s : q = r /\ s = ChunkText
      OBVIOUS
    <3>3. \/ FindingRange(s, q) = {}
          \/ \E i \in Nat, j \in Nat :
               FindingRange(s, q) = {<<i, j>>} /\ i < j /\ j <= Len(s)
      <4>1. q.from \in Nat /\ q.to \in Nat /\ Len(s) \in Nat
        BY <1>5, <3>1, <3>2 DEF L
      <4> QED
        BY <4>1, RangeIs
    <3> QED
      BY <3>2, <3>3 DEF L
  <2>2. /\ r.type \in {"e", "s"} /\ r.score \in Int
        /\ \E w \in values : w.type = r.type /\ w.score = r.score
    <3>1. v.type \in {"e", "s"} /\ v.score \in Int
      BY <1>2, ValueBounds
    <3> QED
      BY <1>2, <1>4, <3>1
  <2> HIDE DEF r
  <2>3. CASE FindingRange(ChunkText, r) = {}
    <3>1. Of(r) = {}
      BY <2>3
    <3> QED
      BY <3>1, FS_EmptySet DEF r
  <2>4. ASSUME NEW i \in Nat, NEW j \in Nat, i < j, j <= L,
               FindingRange(ChunkText, r) = {<<i, j>>}
        PROVE  IsFiniteSet(Of(r)) /\ Of(r) \in SUBSET P
    <3>1. Of(r) = {Finding(r.type, i, j, r.score)}
      BY <2>4
    <3>2. Finding(r.type, i, j, r.score) \in P
      <4> DEFINE x == Finding(r.type, i, j, r.score)
      <4>1. x.type = r.type /\ x.start = i /\ x.end = j /\ x.score = r.score
        BY DEF Finding
      <4>2. x \in FindingSet
        BY <2>2 DEF Finding, FindingSet
      <4> HIDE DEF x
      <4>3. 0 <= x.start /\ x.start < x.end /\ x.end <= L
        BY <2>4, <4>1
      <4>4. \E w \in values : w.type = x.type /\ w.score = x.score
        BY <2>2, <4>1
      <4>5. x \in P
        BY <4>2, <4>3, <4>4 DEF Placed
      <4> QED
        BY <4>5 DEF x
    <3> HIDE DEF Of, P
    <3> QED
      BY <3>1, <3>2, FS_Singleton
  <2>5. IsFiniteSet(Of(r)) /\ Of(r) \in SUBSET P
    BY <2>1, <2>3, <2>4 DEF r
  <2> QED
    BY <2>5 DEF r
<1> HIDE DEF P
<1>7. IsFiniteSet(F) /\ F \in SUBSET P
  <2> DEFINE G == {Of(r) : r \in reports}
             g == [v \in W |-> Of(Visible(v, unit))]
  <2>1. G = {Of(Visible(v, unit)) : v \in W}
    BY <1>1
  <2> HIDE DEF Of, W
  <2>2. g \in Surjection(W, G)
    BY <2>1 DEF Surjection
  <2>3. IsFiniteSet(W)
    <3>1. W \in SUBSET values
      BY <1>2
    <3> QED
      BY <3>1, FS_Subset DEF ValuesInv
  <2>4. IsFiniteSet(G)
    BY <2>2, <2>3, FS_Surjection
  <2>5. \A T \in G : IsFiniteSet(T) /\ T \in SUBSET P
    BY <1>6, <2>1
  <2> HIDE DEF G
  <2>6. IsFiniteSet(UNION G) /\ UNION G \in SUBSET P
    BY <2>4, <2>5, FS_UNION
  <2> QED
    BY <2>6 DEF G
<1>8. NormalizeGoogleFindings(reports) = fs
  BY DEF NormalizeGoogleFindings
<1>9. ASSUME NEW v \in values, Whole(v)
      PROVE  Finding(v.type, v.start - chunk.from, v.end - chunk.from, v.score) \in F
  <2>1. v \in W /\ Visible(v, unit) \in reports
    BY <1>1, <1>9
  <2>2. FindingRange(ChunkText, Visible(v, unit)) = {<<v.start - chunk.from, v.end - chunk.from>>}
    BY <1>2, <1>9, <2>1, WholeIsReported
  <2>3. Of(Visible(v, unit))
          = {Finding(v.type, v.start - chunk.from, v.end - chunk.from, v.score)}
    BY <1>4, <2>1, <2>2
  <2> HIDE DEF Of
  <2> QED
    BY <2>1, <2>3
<1> HIDE DEF F
<1>10. /\ SetToSeq(F) \in Seq(P)
       /\ \A x \in F : \E k \in DOMAIN SetToSeq(F) : SetToSeq(F)[k] = x
  <2>1. /\ SetToSeq(F) \in Seq(F)
        /\ \A x \in F : \E k \in DOMAIN SetToSeq(F) : SetToSeq(F)[k] = x
    BY <1>7, SetToSeqIs
  <2> QED
    BY <1>7, <2>1, SeqMonotonic
<1>11. /\ fs \in Seq(P) /\ fs \in Seq(FindingSet)
       /\ CoveredBy(SetToSeq(F), fs)
  <2>1. Merges(P)
    BY <1>5, PlacedMerges DEF P
  <2>2. SetToSeq(F) \in Seq(FindingSet)
    BY <1>10, <2>1, SeqMonotonic DEF Merges
  <2> QED
    BY <1>10, <2>1, <2>2, DeduplicateIs, DeduplicateStaysIn
<1> HIDE DEF fs
<1>12. /\ found \in Seq(Placed(values, 0, Len(text))) /\ DOMAIN found = DOMAIN fs
       /\ \A n \in DOMAIN fs : /\ found[n].start = fs[n].start + chunk.from
                               /\ found[n].end = fs[n].end + chunk.from
                               /\ found[n].score = fs[n].score
  <2>1. Len(fs) \in Nat /\ DOMAIN fs = 1 .. Len(fs) /\ \A n \in 1 .. Len(fs) : fs[n] \in P
    BY <1>11, LenProperties, ElementOfSeq
  <2> DEFINE Moved(f) == [f EXCEPT !.start = @ + chunk.from, !.end = @ + chunk.from]
  <2>2. ASSUME NEW f \in P
        PROVE  /\ Moved(f) \in Placed(values, 0, Len(text))
               /\ Moved(f).start = f.start + chunk.from
               /\ Moved(f).end = f.end + chunk.from
               /\ Moved(f).score = f.score
    <3> DEFINE d == chunk.from
               g == [f EXCEPT !.start = @ + d, !.end = @ + d]
    <3>1. /\ f \in FindingSet /\ 0 <= f.start /\ f.start < f.end /\ f.end <= L
          /\ \E v \in values : v.type = f.type /\ v.score = f.score
      BY DEF P, Placed
    <3>2. f.start \in Int /\ f.end \in Int
      BY <3>1 DEF FindingSet
    <3>3. d \in Nat
      BY <1>5
    <3> HIDE DEF d
    <3>4. f.start + d \in Int /\ f.end + d \in Int
      BY <3>2, <3>3
    <3>5. /\ g \in FindingSet /\ g.start = f.start + d /\ g.end = f.end + d
          /\ g.type = f.type /\ g.score = f.score
      BY <3>1, <3>4 DEF FindingSet
    <3> HIDE DEF g
    <3>6. 0 <= g.start /\ g.start < g.end /\ g.end <= Len(text)
      <4>1. d + L <= Len(text) /\ L \in Nat /\ Len(text) \in Nat
        BY <1>5 DEF d
      <4> QED
        BY <3>1, <3>2, <3>3, <3>5, <4>1
    <3>7. g \in Placed(values, 0, Len(text))
      BY <3>1, <3>5, <3>6 DEF Placed
    <3> QED
      BY <3>5, <3>7 DEF g, d
  <2>3. \A n \in DOMAIN fs : found[n] = Moved(fs[n])
    BY DEF Shift
  <2>4. found = [n \in DOMAIN fs |-> found[n]]
    BY DEF Shift
  <2> HIDE DEF found, Moved
  <2>5. \A n \in DOMAIN fs : /\ found[n] \in Placed(values, 0, Len(text))
                             /\ found[n].start = fs[n].start + chunk.from
                             /\ found[n].end = fs[n].end + chunk.from
                             /\ found[n].score = fs[n].score
    BY <2>1, <2>2, <2>3
  <2>6. found \in [1 .. Len(fs) -> Placed(values, 0, Len(text))]
    BY <2>1, <2>4, <2>5
  <2>7. found \in Seq(Placed(values, 0, Len(text)))
    BY <2>1, <2>6, IsASeq
  <2> QED
    BY <2>1, <2>5, <2>6, <2>7
<1> HIDE DEF found
<1>13. ASSUME NEW v \in values, Whole(v)
       PROVE  \E n \in DOMAIN found : Covers(found[n], v)
  <2> DEFINE x == Finding(v.type, v.start - chunk.from, v.end - chunk.from, v.score)
  <2>1. PICK k \in DOMAIN SetToSeq(F) : SetToSeq(F)[k] = x
    BY <1>9, <1>10, <1>13
  <2>2. PICK n \in DOMAIN fs : Covers(fs[n], x)
    BY <1>11, <2>1 DEF CoveredBy
  <2>3. fs[n].start \in Int /\ fs[n].end \in Int
    <3>1. fs[n] \in FindingSet
      BY <1>11, LenProperties, ElementOfSeq
    <3> QED
      BY <3>1 DEF FindingSet
  <2>4. v.start \in Int /\ v.end \in Int
    <3>1. v \in Sensitive(text)
      BY DEF ValuesInv
    <3> QED
      BY <3>1, ValueBounds
  <2>5. /\ fs[n].start <= v.start - chunk.from /\ v.end - chunk.from <= fs[n].end
        /\ v.score <= fs[n].score
    BY <2>2 DEF Covers, Finding
  <2>6. Covers(found[n], v)
    <3>1. PICK a \in Int, b \in Int, d \in Nat :
            a = fs[n].start /\ b = fs[n].end /\ d = chunk.from
      BY <1>5, <2>3
    <3>2. PICK c \in Int, e \in Int : c = v.start /\ e = v.end
      BY <2>4
    <3>3. a <= c - d /\ e - d <= b
      BY <2>5, <3>1, <3>2
    <3>4. a + d <= c /\ e <= b + d
      BY <3>3
    <3>5. found[n].start = a + d /\ found[n].end = b + d
      BY <1>12, <3>1
    <3>6. v.score <= found[n].score
      BY <1>12, <2>5
    <3> QED
      BY <3>2, <3>4, <3>5, <3>6 DEF Covers
  <2> QED
    BY <1>12, <2>6
<1> QED
  BY <1>8, <1>12, <1>13 DEF found

-----------------------------------------------------------------------------
(* The redacted text. *)

\* The loop of the redaction, as two equations.
LEMMA ReplacedAfterIs ==
  ASSUME NEW s, NEW fs, Len(fs) \in Nat
  PROVE  /\ ReplacedAfter(s, fs)[0] = s
         /\ \A n \in 1 .. Len(fs) :
              ReplacedAfter(s, fs)[n] = Replace(ReplacedAfter(s, fs)[n - 1], fs[Len(fs) - n + 1])
<1> DEFINE D == 0 .. Len(fs)
           Body(g, n) == IF n = 0 THEN s ELSE Replace(g[n - 1], fs[Len(fs) - n + 1])
           Good(g, k) == \A n \in D : n <= k => g[n] = Body(g, n)
           Bad == {k \in D : ~ \E g : Good(g, k)}
<1>1. \A k \in D : k \in Nat /\ k \in Int
  OBVIOUS
<1>2. Bad = {}
  <2> SUFFICES ASSUME Bad # {} PROVE FALSE
    OBVIOUS
  <2>1. Bad \in SUBSET Nat
    BY <1>1
  <2>2. PICK m \in Bad : \A k \in Bad : m <= k
    BY <2>1, Least
  <2>3. m \in D /\ ~ \E g : Good(g, m)
    OBVIOUS
  <2>4. CASE m = 0
    <3> DEFINE g == [n \in D |-> s]
    <3>1. ASSUME NEW n \in D, n <= m PROVE g[n] = Body(g, n)
      <4>1. n = 0
        BY <1>1, <2>4, <3>1
      <4>2. g[n] = s
        OBVIOUS
      <4> QED
        BY <4>1, <4>2
    <3> HIDE DEF g, Body
    <3>2. Good(g, m)
      BY <3>1
    <3> HIDE DEF Good
    <3> QED
      BY <2>3, <3>2
  <2>5. CASE m # 0
    <3>1. m - 1 \in D /\ m - 1 < m
      BY <1>1, <2>3, <2>5
    <3>2. m - 1 \notin Bad
      <4> HIDE DEF Bad
      <4>1. m \in Int /\ ~ (m <= m - 1)
        BY <1>1, <2>3
      <4> QED
        BY <2>2, <4>1
    <3>3. PICK g : Good(g, m - 1)
      BY <3>1, <3>2
    <3> DEFINE h == [n \in D |-> Body(g, n)]
    <3>4. ASSUME NEW n \in D, n <= m PROVE h[n] = Body(h, n)
      <4>1. CASE n = 0
        BY <4>1
      <4>2. CASE n # 0
        <5>1. n - 1 \in D /\ n - 1 <= m - 1
          BY <1>1, <2>3, <3>4, <4>2
        <5>2. h[n - 1] = Body(g, n - 1)
          BY <5>1
        <5>3. g[n - 1] = Body(g, n - 1)
          BY <3>3, <5>1
        <5>4. h[n - 1] = g[n - 1]
          BY <5>2, <5>3
        <5>5. h[n] = Replace(g[n - 1], fs[Len(fs) - n + 1])
          BY <4>2
        <5> HIDE DEF h
        <5> QED
          BY <4>2, <5>4, <5>5
      <4> QED
        BY <4>1, <4>2
    <3> HIDE DEF h, Body
    <3>5. Good(h, m)
      BY <3>4
    <3> QED
      BY <2>3, <3>5
  <2> QED
    BY <2>4, <2>5
<1>3. PICK g : Good(g, Len(fs))
  <2>1. Len(fs) \in D
    OBVIOUS
  <2> QED
    BY <1>2, <2>1
<1> DEFINE f == [n \in D |-> g[n]]
<1>4. f = [n \in D |-> IF n = 0 THEN s ELSE Replace(f[n - 1], fs[Len(fs) - n + 1])]
  <2>1. ASSUME NEW n \in D PROVE f[n] = Body(f, n)
    <3>1. f[n] = Body(g, n)
      BY <1>1, <1>3
    <3>2. n # 0 => n - 1 \in D
      BY <1>1
    <3>3. n # 0 => f[n - 1] = g[n - 1]
      BY <3>2
    <3> HIDE DEF f
    <3> QED
      BY <3>1, <3>3
  <2>2. f = [n \in D |-> f[n]]
    OBVIOUS
  <2> HIDE DEF f
  <2> QED
    BY <2>1, <2>2
<1>5. ReplacedAfter(s, fs)
        = [n \in D |-> IF n = 0 THEN s
                      ELSE Replace(ReplacedAfter(s, fs)[n - 1], fs[Len(fs) - n + 1])]
  <2> HIDE DEF f
  <2> QED
    BY <1>4 DEF ReplacedAfter
<1> DEFINE replaced == ReplacedAfter(s, fs)
<1> HIDE DEF replaced
<1>6. replaced = [n \in D |-> IF n = 0 THEN s ELSE Replace(replaced[n - 1], fs[Len(fs) - n + 1])]
  BY <1>5 DEF replaced
<1>7. 0 \in D /\ \A n \in 1 .. Len(fs) : n \in D /\ n # 0
  OBVIOUS
<1>8. /\ replaced[0] = s
      /\ \A n \in 1 .. Len(fs) : replaced[n] = Replace(replaced[n - 1], fs[Len(fs) - n + 1])
  BY <1>6, <1>7
<1> QED
  BY <1>8 DEF replaced


\* A flattened sequence is put together piece by piece.
LEMMA FlattenIs ==
  ASSUME NEW seqs, Len(seqs) \in Nat \ {0}
  PROVE  \E flat : /\ flat[1] = seqs[1]
                   /\ \A n \in 2 .. Len(seqs) : flat[n] = flat[n - 1] \o seqs[n]
                   /\ FlattenSeq(seqs) = flat[Len(seqs)]
<1> DEFINE D == 1 .. Len(seqs)
           Body(g, n) == IF n = 1 THEN seqs[1] ELSE g[n - 1] \o seqs[n]
           Good(g, k) == \A n \in D : n <= k => g[n] = Body(g, n)
           Bad == {k \in D : ~ \E g : Good(g, k)}
<1>1. \A k \in D : k \in Nat /\ k \in Int
  OBVIOUS
<1>2. Bad = {}
  <2> SUFFICES ASSUME Bad # {} PROVE FALSE
    OBVIOUS
  <2>1. Bad \in SUBSET Nat
    BY <1>1
  <2>2. PICK m \in Bad : \A k \in Bad : m <= k
    BY <2>1, Least
  <2>3. m \in D /\ ~ \E g : Good(g, m)
    OBVIOUS
  <2>4. CASE m = 1
    <3> DEFINE g == [n \in D |-> seqs[1]]
    <3>1. ASSUME NEW n \in D, n <= m PROVE g[n] = Body(g, n)
      <4>1. n = 1
        BY <1>1, <2>4, <3>1
      <4>2. g[n] = seqs[1]
        OBVIOUS
      <4> QED
        BY <4>1, <4>2
    <3> HIDE DEF g, Body
    <3>2. Good(g, m)
      BY <3>1
    <3> HIDE DEF Good
    <3> QED
      BY <2>3, <3>2
  <2>5. CASE m # 1
    <3>1. m - 1 \in D /\ m - 1 < m
      BY <1>1, <2>3, <2>5
    <3>2. m - 1 \notin Bad
      <4> HIDE DEF Bad
      <4>1. m \in Int /\ ~ (m <= m - 1)
        BY <1>1, <2>3
      <4> QED
        BY <2>2, <4>1
    <3>3. PICK g : Good(g, m - 1)
      BY <3>1, <3>2
    <3> DEFINE h == [n \in D |-> Body(g, n)]
    <3>4. ASSUME NEW n \in D, n <= m PROVE h[n] = Body(h, n)
      <4>1. CASE n = 1
        BY <4>1
      <4>2. CASE n # 1
        <5>1. n - 1 \in D /\ n - 1 <= m - 1
          BY <1>1, <2>3, <3>4, <4>2
        <5>2. h[n - 1] = Body(g, n - 1)
          BY <5>1
        <5>3. g[n - 1] = Body(g, n - 1)
          BY <3>3, <5>1
        <5>4. h[n - 1] = g[n - 1]
          BY <5>2, <5>3
        <5>5. h[n] = g[n - 1] \o seqs[n]
          BY <4>2
        <5> HIDE DEF h
        <5> QED
          BY <4>2, <5>4, <5>5
      <4> QED
        BY <4>1, <4>2
    <3> HIDE DEF h, Body
    <3>5. Good(h, m)
      BY <3>4
    <3> QED
      BY <2>3, <3>5
  <2> QED
    BY <2>4, <2>5
<1>3. PICK g : Good(g, Len(seqs))
  <2>1. Len(seqs) \in D
    OBVIOUS
  <2> QED
    BY <1>2, <2>1
<1> DEFINE f == [n \in D |-> g[n]]
<1>4. f = [n \in D |-> IF n = 1 THEN seqs[1] ELSE f[n - 1] \o seqs[n]]
  <2>1. ASSUME NEW n \in D PROVE f[n] = Body(f, n)
    <3>1. f[n] = Body(g, n)
      BY <1>1, <1>3
    <3>2. n # 1 => n - 1 \in D
      BY <1>1
    <3>3. n # 1 => f[n - 1] = g[n - 1]
      BY <3>2
    <3> HIDE DEF f
    <3> QED
      BY <3>1, <3>3
  <2>2. f = [n \in D |-> f[n]]
    OBVIOUS
  <2> HIDE DEF f
  <2> QED
    BY <2>1, <2>2
<1> DEFINE flat == CHOOSE h : h = [n \in D |-> IF n = 1 THEN seqs[1] ELSE h[n - 1] \o seqs[n]]
<1>5. flat = [n \in D |-> IF n = 1 THEN seqs[1] ELSE flat[n - 1] \o seqs[n]]
  <2> HIDE DEF f
  <2> QED
    BY <1>4
<1>6. FlattenSeq(seqs) = flat[Len(seqs)]
  <2>1. (CHOOSE h : h = [n \in D |-> IF n = 1 THEN seqs[n] ELSE h[n - 1] \o seqs[n]]) = flat
    <3>1. ASSUME NEW h
          PROVE  [n \in D |-> IF n = 1 THEN seqs[n] ELSE h[n - 1] \o seqs[n]]
                   = [n \in D |-> IF n = 1 THEN seqs[1] ELSE h[n - 1] \o seqs[n]]
      OBVIOUS
    <3> QED
      BY <3>1
  <2> QED
    BY <2>1 DEF FlattenSeq
<1> HIDE DEF flat
<1>7. 1 \in D /\ \A n \in 2 .. Len(seqs) : n \in D /\ n # 1
  OBVIOUS
<1>8. flat[1] = seqs[1] /\ \A n \in 2 .. Len(seqs) : flat[n] = flat[n - 1] \o seqs[n]
  BY <1>5, <1>7
<1> QED
  BY <1>6, <1>8

\* Characters of a text and of the markers.
Chars == {"a", "w", "[", "]", "e", "s"}

\* q has the characters of s from one offset to another.
IsSlice(q, s, a, b) == Len(q) = b - a /\ \A i \in 1 .. b - a : q[i] = s[a + i]

LEMMA SliceIs ==
  ASSUME NEW C, NEW s \in Seq(C), NEW a \in Nat, NEW b \in Nat, a <= b, b <= Len(s)
  PROVE  Slice(s, a, b) \in Seq(C) /\ IsSlice(Slice(s, a, b), s, a, b)
<1> DEFINE q == SubSeq(s, a + 1, b)
<1>1. \A i \in a + 1 .. b : s[i] \in C
  <2>1. Len(s) \in Nat
    BY LenProperties
  <2>2. \A i \in a + 1 .. b : i \in 1 .. Len(s)
    BY <2>1
  <2> QED
    BY <2>2, ElementOfSeq
<1>2. /\ q \in Seq(C) /\ Len(q) = (IF a + 1 <= b THEN b - (a + 1) + 1 ELSE 0)
      /\ \A i \in 1 .. b - (a + 1) + 1 : q[i] = s[a + 1 + i - 1]
  <2>1. PICK d \in Int : d = a + 1
    OBVIOUS
  <2>2. /\ SubSeq(s, d, b) \in Seq(C) /\ Len(SubSeq(s, d, b)) = (IF d <= b THEN b - d + 1 ELSE 0)
        /\ \A i \in 1 .. b - d + 1 : SubSeq(s, d, b)[i] = s[d + i - 1]
    BY <1>1, <2>1, SubSeqProperties
  <2> QED
    BY <2>1, <2>2
<1> HIDE DEF q
<1>3. IsSlice(q, s, a, b)
  BY <1>2 DEF IsSlice
<1> QED
  BY <1>2, <1>3 DEF q, Slice

\* r is h, then x.
IsConcat(r, h, x) ==
  /\ Len(r) = Len(h) + Len(x)
  /\ \A i \in 1 .. Len(h) + Len(x) : r[i] = IF i <= Len(h) THEN h[i] ELSE x[i - Len(h)]

LEMMA ConcatIs ==
  ASSUME NEW C, NEW h \in Seq(C), NEW x \in Seq(C)
  PROVE  h \o x \in Seq(C) /\ IsConcat(h \o x, h, x)
<1>1. /\ h \o x \in Seq(C) /\ Len(h \o x) = Len(h) + Len(x)
      /\ \A i \in 1 .. Len(h) + Len(x) : (h \o x)[i] = IF i <= Len(h) THEN h[i] ELSE x[i - Len(h)]
  BY ConcatProperties
<1> DEFINE r == h \o x
<1> HIDE DEF r
<1>2. IsConcat(r, h, x)
  BY <1>1 DEF IsConcat, r
<1> QED
  BY <1>1, <1>2 DEF r

\* Three texts in a row, however they are put together.
Associate(a, b, c) == (a \o b) \o c = a \o (b \o c)

LEMMA ThreeInARow ==
  ASSUME NEW C, NEW a \in Seq(C), NEW b \in Seq(C), NEW c \in Seq(C)
  PROVE  Associate(a, b, c)
BY ConcatAssociative DEF Associate

\* flat[n] is the first n pieces of p in one sequence.
Flattens(flat, p, C) ==
  /\ p \in Seq(Seq(C))
  /\ flat \in [0 .. Len(p) -> Seq(C)]
  /\ flat[0] = <<>>
  /\ \A n \in 1 .. Len(p) : flat[n] = flat[n - 1] \o p[n]

\* A sequence of sequences has such a flat, and FlattenSeq is its last value.
LEMMA FlatExists ==
  ASSUME NEW C, NEW p \in Seq(Seq(C))
  PROVE  \E flat : Flattens(flat, p, C) /\ FlattenSeq(p) = flat[Len(p)]
<1> DEFINE N == Len(p)
<1>1. N \in Nat /\ \A n \in 1 .. N : p[n] \in Seq(C)
  BY LenProperties, ElementOfSeq
<1>2. CASE N = 0
  <2> DEFINE flat == [n \in 0 .. N |-> <<>>]
  <2>1. p = <<>> /\ FlattenSeq(p) = <<>>
    BY <1>2, EmptySeq DEF FlattenSeq
  <2>2. flat \in [0 .. N -> Seq(C)] /\ flat[0] = <<>> /\ flat[N] = <<>>
    BY <1>1
  <2>3. 1 .. N = {}
    BY <1>2
  <2> HIDE DEF flat
  <2> QED
    BY <2>1, <2>2, <2>3 DEF Flattens
<1>3. CASE N # 0
  <2>1. PICK f : /\ f[1] = p[1]
                 /\ \A n \in 2 .. N : f[n] = f[n - 1] \o p[n]
                 /\ FlattenSeq(p) = f[N]
    BY <1>1, <1>3, FlattenIs
  <2> DEFINE Bad == {n \in 1 .. N : f[n] \notin Seq(C)}
  <2>2. Bad = {}
    <3> SUFFICES ASSUME Bad # {} PROVE FALSE
      OBVIOUS
    <3>1. PICK m \in Bad : \A n \in Bad : m <= n
      <4>1. Bad \in SUBSET Nat
        BY <1>1
      <4> QED
        BY <4>1, Least
    <3>2. m \in 1 .. N /\ m \in Int /\ f[m] \notin Seq(C)
      BY <1>1
    <3>3. CASE m = 1
      BY <1>1, <2>1, <3>2, <3>3
    <3>4. CASE m # 1
      <4>1. m \in 2 .. N /\ m - 1 \in 1 .. N /\ ~ (m <= m - 1)
        BY <1>1, <3>2, <3>4
      <4>2. f[m - 1] \in Seq(C)
        BY <3>1, <4>1
      <4>3. f[m - 1] \o p[m] \in Seq(C)
        BY <1>1, <3>2, <4>2, ConcatProperties
      <4> QED
        BY <2>1, <3>2, <4>1, <4>3
    <3> QED
      BY <3>3, <3>4
  <2> DEFINE flat == [n \in 0 .. N |-> IF n = 0 THEN <<>> ELSE f[n]]
  <2>3. \A n \in 1 .. N : n \in 0 .. N /\ n # 0 /\ (n # 1 => n \in 2 .. N /\ n - 1 \in 1 .. N)
    BY <1>1
  <2>4. \A n \in 0 .. N : n = 0 \/ n \in 1 .. N
    BY <1>1
  <2>5. 0 \in 0 .. N /\ N \in 1 .. N /\ 1 \in 1 .. N /\ 1 - 1 = 0
    BY <1>1, <1>3
  <2>6. flat[0] = <<>> /\ \A n \in 1 .. N : flat[n] = f[n]
    BY <2>3, <2>5
  <2>7. flat \in [0 .. N -> Seq(C)]
    <3>1. \A n \in 0 .. N : (IF n = 0 THEN <<>> ELSE f[n]) \in Seq(C)
      BY <2>2, <2>4, EmptySeq
    <3> QED
      BY <3>1
  <2> HIDE DEF flat, N
  <2>8. ASSUME NEW n \in 1 .. N PROVE flat[n] = flat[n - 1] \o p[n]
    <3>1. CASE n = 1
      <4>1. flat[n - 1] = <<>> /\ p[1] \in Seq(C)
        BY <1>1, <2>5, <2>6, <3>1
      <4>2. <<>> \o p[1] = p[1]
        BY <4>1, ConcatEmptySeq
      <4> QED
        BY <2>1, <2>6, <3>1, <4>1, <4>2
    <3>2. CASE n # 1
      BY <2>1, <2>3, <2>6, <3>2
    <3> QED
      BY <3>1, <3>2
  <2>9. Flattens(flat, p, C) /\ FlattenSeq(p) = flat[N]
    BY <2>1, <2>5, <2>6, <2>7, <2>8 DEF Flattens, N
  <2> QED
    BY <2>9 DEF N
<1> QED
  BY <1>2, <1>3

\* Pieces i + 1 to j are empty.
Blank(p, i, j) == \A l \in i + 1 .. j : p[l] = <<>>

\* Empty pieces add nothing.
LEMMA FlatEmpty ==
  ASSUME NEW C, NEW p, NEW flat, Flattens(flat, p, C),
         NEW i \in 0 .. Len(p), NEW j \in i .. Len(p), Blank(p, i, j)
  PROVE  flat[j] = flat[i]
<1> DEFINE Bad == {l \in i .. j : flat[l] # flat[i]}
<1>1. Len(p) \in Nat /\ i \in Nat /\ j \in Nat /\ i <= j /\ j <= Len(p)
  BY LenProperties DEF Flattens
<1>2. Bad = {}
  <2> SUFFICES ASSUME Bad # {} PROVE FALSE
    OBVIOUS
  <2>1. PICK m \in Bad : \A n \in Bad : m <= n
    <3>1. Bad \in SUBSET Nat
      BY <1>1
    <3> QED
      BY <3>1, Least
  <2>2. m \in i .. j /\ m \in Int /\ flat[m] # flat[i]
    BY <1>1
  <2>3. m - 1 \in i .. j /\ ~ (m <= m - 1) /\ m \in i + 1 .. j /\ m \in 1 .. Len(p)
        /\ m - 1 \in 0 .. Len(p)
    BY <1>1, <2>2
  <2>4. flat[m - 1] = flat[i]
    BY <2>1, <2>3
  <2>5. flat[m] = flat[m - 1] \o <<>>
    BY <2>3 DEF Flattens, Blank
  <2>6. flat[m - 1] \in Seq(C)
    BY <2>3 DEF Flattens
  <2> QED
    BY <2>2, <2>4, <2>5, <2>6, ConcatEmptySeq
<1>3. j \in i .. j
  BY <1>1
<1> QED
  BY <1>2, <1>3

\* One more character.
LEMMA OneMore ==
  ASSUME NEW C, NEW w \in Seq(C), NEW s \in Seq(C), NEW i \in Nat, NEW m \in Nat,
         i < m, m <= Len(s)
  PROVE  (w \o Slice(s, i, m - 1)) \o <<s[m]>> = w \o Slice(s, i, m)
<1> DEFINE u == Slice(s, i, m - 1)
           v == <<s[m]>>
<1>1. /\ m - 1 \in Nat /\ i <= m - 1 /\ m - 1 <= Len(s)
      /\ i + 1 \in 1 .. Len(s) /\ m \in i + 1 .. Len(s) /\ m \in 1 .. Len(s)
  BY LenProperties
<1>2. u \in Seq(C)
  BY <1>1, SliceIs
<1>3. v \in Seq(C)
  <2>1. s[m] \in C
    BY <1>1, ElementOfSeq
  <2> QED
    BY <2>1
<1>4. Slice(s, i, m) = u \o v
  BY <1>1, SubSeqRecursiveSecond DEF Slice
<1> HIDE DEF u, v
<1>5. (w \o u) \o v = w \o (u \o v)
  <2>1. Associate(w, u, v)
    BY <1>2, <1>3, ThreeInARow
  <2> QED
    BY <2>1 DEF Associate
<1> QED
  BY <1>4, <1>5 DEF u, v

\* Pieces i + 1 to j are characters of s.
Plain(p, s, i, j) == Len(s) = Len(p) /\ \A l \in i + 1 .. j : p[l] = <<s[l]>>

Grows(flat, s, i, j) == flat[j] = flat[i] \o Slice(s, i, j)

\* Pieces of one character each add a part of the text.
LEMMA FlatPlain ==
  ASSUME NEW C, NEW p, NEW flat, Flattens(flat, p, C),
         NEW s \in Seq(C), NEW i \in 0 .. Len(p), NEW j \in i .. Len(p), Plain(p, s, i, j)
  PROVE  Grows(flat, s, i, j)
<1> DEFINE Grown(l) == flat[l] = flat[i] \o Slice(s, i, l)
           Bad == {l \in i .. j : ~ Grown(l)}
<1>1. Len(p) \in Nat /\ i \in Nat /\ j \in Nat /\ i <= j /\ j <= Len(p)
  BY LenProperties DEF Flattens
<1>2. flat[i] \in Seq(C)
  BY <1>1 DEF Flattens
<1>3. Grown(i)
  <2>1. Slice(s, i, i) = <<>>
    BY <1>1, SubSeqEmpty DEF Slice
  <2> QED
    BY <1>2, <2>1, ConcatEmptySeq
<1>4. ASSUME NEW m \in i + 1 .. j, Grown(m - 1) PROVE Grown(m)
  <2> DEFINE w == flat[i]
             u == flat[m - 1]
  <2>1. m \in Nat /\ m \in 1 .. Len(p) /\ i < m /\ m <= Len(s)
    BY <1>1 DEF Plain
  <2>2. flat[m] = u \o <<s[m]>>
    BY <2>1 DEF Flattens, Plain
  <2>3. w \in Seq(C) /\ u = w \o Slice(s, i, m - 1)
    BY <1>2, <1>4
  <2>4. i \in Nat
    BY <1>1
  <2> HIDE DEF w, u
  <2>5. (w \o Slice(s, i, m - 1)) \o <<s[m]>> = w \o Slice(s, i, m)
    BY <2>1, <2>3, <2>4, OneMore
  <2>6. flat[m] = w \o Slice(s, i, m)
    BY <2>2, <2>3, <2>5
  <2> QED
    BY <2>6 DEF w
<1> HIDE DEF Grown
<1>5. Bad = {}
  <2> SUFFICES ASSUME Bad # {} PROVE FALSE
    OBVIOUS
  <2>1. PICK m \in Bad : \A n \in Bad : m <= n
    <3>1. Bad \in SUBSET Nat
      BY <1>1
    <3> QED
      BY <3>1, Least
  <2>2. m \in i .. j /\ m \in Int /\ m # i
    BY <1>1, <1>3
  <2>3. m \in i + 1 .. j /\ m - 1 \in i .. j /\ ~ (m <= m - 1)
    BY <1>1, <2>2
  <2> QED
    BY <1>4, <2>1, <2>3
<1>6. j \in i .. j
  BY <1>1
<1> QED
  BY <1>5, <1>6 DEF Grown, Grows

\* A slice of the first of two texts.
LEMMA SliceLeft ==
  ASSUME NEW C, NEW h \in Seq(C), NEW x \in Seq(C), NEW a \in Nat, a <= Len(h)
  PROVE  Slice(h \o x, 0, a) = Slice(h, 0, a)
<1> DEFINE r == h \o x
           q == Slice(r, 0, a)
           t == Slice(h, 0, a)
<1>1. Len(h) \in Nat /\ Len(x) \in Nat /\ 0 \in Nat /\ 0 <= a
  BY LenProperties
<1>2. r \in Seq(C) /\ IsConcat(r, h, x)
  BY ConcatIs
<1> HIDE DEF r
<1>3. a <= Len(r)
  BY <1>1, <1>2 DEF IsConcat
<1>4. q \in Seq(C) /\ IsSlice(q, r, 0, a)
  BY <1>1, <1>2, <1>3, SliceIs
<1>5. t \in Seq(C) /\ IsSlice(t, h, 0, a)
  BY <1>1, SliceIs
<1> HIDE DEF q, t
<1>6. Len(q) = Len(t) /\ \A i \in 1 .. Len(q) : q[i] = t[i]
  BY <1>1, <1>2, <1>4, <1>5 DEF IsConcat, IsSlice
<1>7. q = t
  BY <1>4, <1>5, <1>6, SeqEqual
<1> QED
  BY <1>7 DEF q, r, t

\* A slice up to the end of the second of two texts.
LEMMA SliceRight ==
  ASSUME NEW C, NEW h \in Seq(C), NEW x \in Seq(C), NEW b \in Nat, b <= Len(h)
  PROVE  Slice(h \o x, b, Len(h \o x)) = Slice(h, b, Len(h)) \o x
<1> DEFINE r == h \o x
           e == Len(r)
           c == Len(h)
           t == Slice(h, b, c)
           u == t \o x
           q == Slice(r, b, e)
<1>1. c \in Nat /\ c <= Len(h) /\ Len(x) \in Nat /\ b <= c
  BY LenProperties
<1>2. r \in Seq(C) /\ IsConcat(r, h, x)
  BY ConcatIs
<1>3. t \in Seq(C) /\ IsSlice(t, h, b, c)
  BY <1>1, SliceIs
<1> HIDE DEF r, t
<1>4. u \in Seq(C) /\ IsConcat(u, t, x)
  BY <1>3, ConcatIs
<1> HIDE DEF u
<1>5. e \in Nat /\ b <= e /\ e <= Len(r)
  BY <1>1, <1>2 DEF IsConcat
<1> HIDE DEF e
<1>6. q \in Seq(C) /\ IsSlice(q, r, b, e)
  BY <1>2, <1>5, SliceIs
<1> HIDE DEF q
<1>7. Len(q) = Len(u) /\ e = c + Len(x) /\ Len(q) = e - b /\ Len(t) = c - b
  BY <1>1, <1>2, <1>3, <1>4, <1>6 DEF IsConcat, IsSlice, e
<1> HIDE DEF c
<1>8. ASSUME NEW i \in 1 .. Len(q) PROVE q[i] = u[i]
  <2>1. i \in 1 .. e - b /\ b + i \in 1 .. Len(h) + Len(x) /\ i \in 1 .. Len(t) + Len(x)
    BY <1>1, <1>5, <1>7 DEF c
  <2>2. q[i] = r[b + i]
    BY <1>6, <2>1 DEF IsSlice
  <2>3. CASE i <= Len(t)
    <3>1. b + i <= Len(h) /\ i \in 1 .. c - b
      BY <1>1, <1>7, <2>3 DEF c
    <3>2. r[b + i] = h[b + i]
      BY <1>2, <2>1, <3>1 DEF IsConcat
    <3>3. u[i] = t[i]
      BY <1>4, <2>1, <2>3 DEF IsConcat
    <3>4. t[i] = h[b + i]
      BY <1>3, <3>1 DEF IsSlice
    <3> QED
      BY <2>2, <3>2, <3>3, <3>4
  <2>4. CASE ~ (i <= Len(t))
    <3>1. ~ (b + i <= Len(h)) /\ (b + i) - Len(h) = i - Len(t)
      BY <1>1, <1>7, <2>4 DEF c
    <3>2. r[b + i] = x[(b + i) - Len(h)]
      BY <1>2, <2>1, <3>1 DEF IsConcat
    <3>3. u[i] = x[i - Len(t)]
      BY <1>4, <2>1, <2>4 DEF IsConcat
    <3> QED
      BY <2>2, <3>1, <3>2, <3>3
  <2> QED
    BY <2>3, <2>4
<1>9. q = u
  <2>1. Len(q) = Len(u)
    BY <1>7
  <2> QED
    BY <1>4, <1>6, <1>8, <2>1, SeqEqual
<1> QED
  BY <1>9 DEF q, u, t, c, e, r

\* A prefix of a prefix.
LEMMA SliceOfSlice ==
  ASSUME NEW C, NEW s \in Seq(C), NEW c \in Nat, c <= Len(s), NEW a \in Nat, NEW b \in Nat,
         a <= b, b <= c
  PROVE  Slice(Slice(s, 0, c), a, b) = Slice(s, a, b)
<1> DEFINE h == Slice(s, 0, c)
           q == Slice(h, a, b)
           u == Slice(s, a, b)
<1>1. 0 \in Nat /\ 0 <= c /\ b <= Len(s)
  <2>1. Len(s) \in Nat
    BY LenProperties
  <2> QED
    BY <2>1
<1>2. h \in Seq(C) /\ IsSlice(h, s, 0, c)
  BY <1>1, SliceIs
<1>3. u \in Seq(C) /\ IsSlice(u, s, a, b)
  BY <1>1, SliceIs
<1> HIDE DEF h, u
<1>4. b <= Len(h)
  BY <1>2 DEF IsSlice
<1>5. q \in Seq(C) /\ IsSlice(q, h, a, b)
  BY <1>2, <1>4, SliceIs
<1> HIDE DEF q
<1>6. Len(q) = Len(u) /\ \A i \in 1 .. Len(q) : q[i] = u[i]
  BY <1>2, <1>3, <1>5 DEF IsSlice
<1>7. q = u
  BY <1>3, <1>5, <1>6, SeqEqual
<1> QED
  BY <1>7 DEF q, u, h

\* A span among the first c characters of a text.
Span(f, c) == f.start \in Nat /\ f.end \in Nat /\ f.start < f.end /\ f.end <= c

\* What a round of the loop does to a text whose first c characters are still
\* untouched, when the span lies among them.
ReplacedOnce(s, c, x, f, C) ==
  LET tail == Marker(f.type) \o (Slice(s, f.end, c) \o x)
  IN  tail \in Seq(C) /\ Replace(Slice(s, 0, c) \o x, f) = Slice(s, 0, f.start) \o tail

LEMMA ReplaceIs ==
  ASSUME NEW C, NEW s \in Seq(C), NEW c \in Nat, c <= Len(s), NEW x \in Seq(C),
         NEW f, Span(f, c), Marker(f.type) \in Seq(C)
  PROVE  ReplacedOnce(s, c, x, f, C)
<1> DEFINE a == f.start
           b == f.end
           k == Marker(f.type)
           h == Slice(s, 0, c)
           r == h \o x
           u == Slice(s, 0, a)
           t == Slice(s, b, c)
           v == t \o x
<1>1. Replace(r, f) = (Slice(r, 0, a) \o k) \o Slice(r, b, Len(r))
  BY DEF Replace
<1>2. a \in Nat /\ b \in Nat /\ a < b /\ b <= c /\ k \in Seq(C)
  BY DEF Span
<1> HIDE DEF a, b, k, r
<1>3. Len(s) \in Nat /\ 0 \in Nat /\ 0 <= c /\ a <= c /\ 0 <= a /\ a <= Len(s) /\ c <= c
  BY <1>2, LenProperties
<1>4. h \in Seq(C) /\ IsSlice(h, s, 0, c)
  BY <1>3, SliceIs
<1>5. u \in Seq(C)
  BY <1>2, <1>3, SliceIs
<1>6. t \in Seq(C)
  BY <1>2, SliceIs
<1>7. Slice(h, 0, a) = u
  BY <1>2, <1>3, SliceOfSlice
<1>8. Slice(h, b, c) = t
  BY <1>2, <1>3, SliceOfSlice
<1> HIDE DEF h, u, t
<1>9. Len(h) = c /\ a <= Len(h) /\ b <= Len(h)
  BY <1>2, <1>3, <1>4 DEF IsSlice
<1>10. Slice(r, 0, a) = u
  <2>1. Slice(h \o x, 0, a) = Slice(h, 0, a)
    BY <1>2, <1>4, <1>9, SliceLeft
  <2> QED
    BY <1>7, <2>1 DEF r
<1>11. Slice(r, b, Len(r)) = v
  <2>1. Slice(h \o x, b, Len(h \o x)) = Slice(h, b, Len(h)) \o x
    <3>1. h \in Seq(C) /\ b \in Nat /\ b <= Len(h)
      BY <1>2, <1>4, <1>9
    <3> QED
      BY <3>1, SliceRight
  <2>2. Slice(h, b, Len(h)) = t
    BY <1>8, <1>9
  <2> QED
    BY <2>1, <2>2 DEF r
<1>12. v \in Seq(C)
  BY <1>6, ConcatIs
<1> HIDE DEF v
<1>13. k \o v \in Seq(C)
  BY <1>2, <1>12, ConcatIs
<1>14. (u \o k) \o v = u \o (k \o v)
  <2>1. k \in Seq(C)
    BY <1>2
  <2>2. Associate(u, k, v)
    BY <1>5, <1>12, <2>1, ThreeInARow
  <2> QED
    BY <2>2 DEF Associate
<1>15. Replace(r, f) = u \o (k \o v)
  BY <1>1, <1>10, <1>11, <1>14
<1> QED
  BY <1>13, <1>15 DEF ReplacedOnce, r, u, k, v, h, t, a, b

\* The pieces of a redacted text, one per character.
Pieces(s, fs) ==
  [i \in DOMAIN s |->
    IF \E n \in DOMAIN fs : fs[n].start = i - 1
      THEN Marker(fs[CHOOSE n \in DOMAIN fs : fs[n].start = i - 1].type)
    ELSE IF \E n \in DOMAIN fs : fs[n].start < i /\ i <= fs[n].end
      THEN <<>>
    ELSE <<s[i]>>]

\* Spans of a text, one after the other.
SpansOf(s, fs) ==
  /\ fs \in Seq(FindingSet)
  /\ Apart(fs)
  /\ \A k \in 1 .. Len(fs) : Span(fs[k], Len(s))

\* Where the k-th span starts; the end of the text after the last one.
Edge(s, fs, k) == IF k \in 1 .. Len(fs) THEN fs[k].start ELSE Len(s)

\* The order of the spans.
LEMMA SpanOrder ==
  ASSUME NEW s \in Seq({"a", "w"}), NEW fs, SpansOf(s, fs)
  PROVE  /\ Len(s) \in Nat /\ Len(fs) \in Nat /\ DOMAIN fs = 1 .. Len(fs)
         /\ \A k \in 1 .. Len(fs) :
              /\ fs[k] \in FindingSet
              /\ fs[k].start \in Nat /\ fs[k].end \in Nat
              /\ fs[k].start < fs[k].end /\ fs[k].end <= Len(s)
              /\ fs[k].type \in {"e", "s"}
         /\ \A k, l \in 1 .. Len(fs) : k < l => fs[k].end <= fs[l].start
<1>1. fs \in Seq(FindingSet)
  BY DEF SpansOf
<1>2. Len(s) \in Nat /\ Len(fs) \in Nat /\ DOMAIN fs = 1 .. Len(fs)
  BY <1>1, LenProperties
<1>3. ASSUME NEW k \in 1 .. Len(fs)
      PROVE  /\ fs[k] \in FindingSet
             /\ fs[k].start \in Nat /\ fs[k].end \in Nat
             /\ fs[k].start < fs[k].end /\ fs[k].end <= Len(s)
             /\ fs[k].type \in {"e", "s"}
  <2>1. fs[k] \in FindingSet
    BY <1>1, ElementOfSeq
  <2>2. fs[k].type \in {"e", "s"}
    BY <2>1 DEF FindingSet
  <2>3. Span(fs[k], Len(s))
    BY DEF SpansOf
  <2> QED
    BY <2>1, <2>2, <2>3 DEF Span
<1>4. \A k, l \in 1 .. Len(fs) : k < l => fs[k].end <= fs[l].start
  BY <1>2 DEF SpansOf, Apart
<1> QED
  BY <1>2, <1>3, <1>4

\* At most one span starts at a character, or has it.
LEMMA SpanUnique ==
  ASSUME NEW s \in Seq({"a", "w"}), NEW fs, SpansOf(s, fs),
         NEW k \in 1 .. Len(fs), NEW l \in 1 .. Len(fs), NEW i \in Int,
         fs[k].start < i, i <= fs[k].end, fs[l].start < i, i <= fs[l].end
  PROVE  k = l
<1>1. /\ k \in Int /\ l \in Int
      /\ fs[k].start \in Nat /\ fs[k].end \in Nat /\ fs[l].start \in Nat /\ fs[l].end \in Nat
      /\ k < l => fs[k].end <= fs[l].start
      /\ l < k => fs[l].end <= fs[k].start
  BY SpanOrder
<1>2. ~ (k < l)
  BY <1>1
<1>3. ~ (l < k)
  BY <1>1
<1> QED
  BY <1>1, <1>2, <1>3

\* A marker where a span starts, nothing in the rest of it, and every other
\* character as it was.
ArePieces(p, s, fs) ==
  /\ p \in Seq(Seq(Chars)) /\ Len(p) = Len(s)
  /\ \A k \in 1 .. Len(fs) :
       /\ p[fs[k].start + 1] = Marker(fs[k].type)
       /\ \A i \in fs[k].start + 2 .. fs[k].end : p[i] = <<>>
  /\ \A i \in 1 .. Len(s) :
       (\A l \in 1 .. Len(fs) : ~ (fs[l].start < i /\ i <= fs[l].end)) => p[i] = <<s[i]>>

LEMMA PiecesAre ==
  ASSUME NEW s \in Seq({"a", "w"}), NEW fs, SpansOf(s, fs)
  PROVE  ArePieces(Pieces(s, fs), s, fs)
<1> DEFINE p == Pieces(s, fs)
           N == Len(fs)
           L == Len(s)
           At(i) == \E n \in 1 .. N : fs[n].start = i - 1
           In(i) == \E n \in 1 .. N : fs[n].start < i /\ i <= fs[n].end
           c(i) == CHOOSE n \in 1 .. N : fs[n].start = i - 1
           Piece(i) == IF At(i) THEN Marker(fs[c(i)].type) ELSE IF In(i) THEN <<>> ELSE <<s[i]>>
<1>1. /\ L \in Nat /\ N \in Nat /\ DOMAIN fs = 1 .. N
      /\ \A k \in 1 .. N :
           /\ fs[k].start \in Nat /\ fs[k].end \in Nat
           /\ fs[k].start < fs[k].end /\ fs[k].end <= L
           /\ fs[k].type \in {"e", "s"}
  BY SpanOrder
<1>2. DOMAIN s = 1 .. L /\ \A i \in 1 .. L : s[i] \in {"a", "w"}
  BY LenProperties, ElementOfSeq
<1>3. p = [i \in 1 .. L |-> Piece(i)]
  BY <1>1, <1>2 DEF Pieces
<1>4. \A i \in 1 .. L : p[i] = Piece(i)
  BY <1>3
<1>5. \A i : At(i) => c(i) \in 1 .. N /\ fs[c(i)].start = i - 1
  OBVIOUS
<1> HIDE DEF c
<1>6. ASSUME NEW i \in 1 .. L PROVE Piece(i) \in Seq(Chars)
  <2>1. CASE At(i)
    <3>1. fs[c(i)].type \in {"e", "s"}
      BY <1>1, <1>5, <2>1
    <3>2. \A t \in {"e", "s"} : Marker(t) \in Seq(Chars)
      BY DEF Marker, Chars
    <3> HIDE DEF At
    <3> QED
      BY <2>1, <3>1, <3>2
  <2>2. CASE ~ At(i)
    <3>1. <<s[i]>> \in Seq(Chars) /\ <<>> \in Seq(Chars)
      <4>1. s[i] \in Chars
        BY <1>2 DEF Chars
      <4> QED
        BY <4>1
    <3> HIDE DEF At, In
    <3> QED
      BY <2>2, <3>1
  <2> QED
    BY <2>1, <2>2
<1> HIDE DEF p, Piece
<1>7. p \in Seq(Seq(Chars)) /\ Len(p) = L
  <2>1. p \in [1 .. L -> Seq(Chars)]
    BY <1>3, <1>6
  <2>2. p \in Seq(Seq(Chars))
    BY <1>1, <2>1, IsASeq
  <2> QED
    BY <1>1, <2>1, <2>2, LenProperties
<1>8. ASSUME NEW k \in 1 .. N
      PROVE  /\ p[fs[k].start + 1] = Marker(fs[k].type)
             /\ \A i \in fs[k].start + 2 .. fs[k].end : p[i] = <<>>
  <2>1. fs[k].start \in Nat /\ fs[k].end \in Nat /\ fs[k].start < fs[k].end /\ fs[k].end <= L
    BY <1>1
  <2>2. p[fs[k].start + 1] = Marker(fs[k].type)
    <3>1. PICK i \in Int : i = fs[k].start + 1
      BY <2>1
    <3>2. i \in 1 .. L /\ fs[k].start = i - 1 /\ fs[k].start < i /\ i <= fs[k].end
      <4>1. \A a, b, n \in Nat : a < b /\ b <= n
              => a + 1 \in 1 .. n /\ a = (a + 1) - 1 /\ a < a + 1 /\ a + 1 <= b
        OBVIOUS
      <4>2. L \in Nat
        BY <1>1
      <4> HIDE DEF L
      <4> QED
        BY <2>1, <3>1, <4>1, <4>2
    <3>3. At(i)
      BY <3>2
    <3>4. c(i) \in 1 .. N /\ fs[c(i)].start = i - 1
      BY <1>5, <3>3
    <3>5. fs[c(i)].start < i /\ i <= fs[c(i)].end
      <4>1. fs[c(i)].start \in Nat /\ fs[c(i)].end \in Nat /\ fs[c(i)].start < fs[c(i)].end
        BY <1>1, <3>4
      <4> QED
        BY <3>4, <4>1
    <3>6. c(i) = k
      BY <3>2, <3>4, <3>5, SpanUnique
    <3>7. p[i] = Marker(fs[c(i)].type)
      BY <1>4, <3>2, <3>3 DEF Piece
    <3> QED
      BY <3>1, <3>6, <3>7
  <2>3. ASSUME NEW i \in fs[k].start + 2 .. fs[k].end PROVE p[i] = <<>>
    <3>1. i \in Int /\ i \in 1 .. L /\ fs[k].start < i /\ i <= fs[k].end /\ fs[k].start # i - 1
      BY <1>1, <2>1
    <3>2. In(i)
      BY <3>1
    <3>3. ~ At(i)
      <4> SUFFICES ASSUME At(i) PROVE FALSE
        OBVIOUS
      <4>1. PICK n \in 1 .. N : fs[n].start = i - 1
        OBVIOUS
      <4>2. fs[n].start < i /\ i <= fs[n].end
        <5>1. fs[n].start \in Nat /\ fs[n].end \in Nat /\ fs[n].start < fs[n].end
          BY <1>1
        <5> QED
          BY <3>1, <4>1, <5>1
      <4>3. n = k
        BY <3>1, <4>2, SpanUnique
      <4> QED
        BY <3>1, <4>1, <4>3
    <3> HIDE DEF At, In
    <3> QED
      BY <1>4, <3>1, <3>2, <3>3 DEF Piece
  <2> QED
    BY <2>2, <2>3
<1>9. ASSUME NEW i \in 1 .. L, \A l \in 1 .. N : ~ (fs[l].start < i /\ i <= fs[l].end)
      PROVE  p[i] = <<s[i]>>
  <2>1. ~ In(i)
    BY <1>9
  <2>2. ~ At(i)
    <3> SUFFICES ASSUME At(i) PROVE FALSE
      OBVIOUS
    <3>1. PICK n \in 1 .. N : fs[n].start = i - 1
      OBVIOUS
    <3>2. fs[n].start \in Nat /\ fs[n].end \in Nat /\ fs[n].start < fs[n].end
      BY <1>1
    <3>3. fs[n].start < i /\ i <= fs[n].end
      BY <3>1, <3>2
    <3> QED
      BY <1>9, <3>3
  <2> HIDE DEF At, In
  <2> QED
    BY <1>4, <2>1, <2>2 DEF Piece
<1> QED
  <2>1. ArePieces(p, s, fs)
    BY <1>7, <1>8, <1>9 DEF ArePieces
  <2> QED
    BY <2>1 DEF p

\* Four texts in a row, however they are put together.
InARow(a, b, c, d) == ((a \o b) \o c) \o d = a \o (b \o (c \o d))

LEMMA FourInARow ==
  ASSUME NEW C, NEW a \in Seq(C), NEW b \in Seq(C), NEW c \in Seq(C), NEW d \in Seq(C)
  PROVE  InARow(a, b, c, d)
<1> DEFINE ab == a \o b
           cd == c \o d
<1>1. ab \in Seq(C) /\ cd \in Seq(C)
  BY ConcatIs
<1>2. Associate(a, b, cd)
  <2> HIDE DEF cd
  <2> QED
    BY <1>1, ThreeInARow
<1>3. Associate(ab, c, d)
  <2> HIDE DEF ab
  <2> QED
    BY <1>1, ThreeInARow
<1> QED
  BY <1>2, <1>3 DEF InARow, Associate

\* No span has a character between the end of one span and the start of the
\* next, or before the first one.
LEMMA BetweenSpans ==
  ASSUME NEW s \in Seq({"a", "w"}), NEW fs, SpansOf(s, fs),
         NEW k \in 0 .. Len(fs), NEW from \in Nat, from = IF k = 0 THEN 0 ELSE fs[k].end
  PROVE  /\ Edge(s, fs, k + 1) \in Nat /\ from <= Edge(s, fs, k + 1) /\ Edge(s, fs, k + 1) <= Len(s)
         /\ \A i \in from + 1 .. Edge(s, fs, k + 1) :
              \A l \in 1 .. Len(fs) : ~ (fs[l].start < i /\ i <= fs[l].end)
<1> DEFINE N == Len(fs)
           L == Len(s)
           e == Edge(s, fs, k + 1)
<1>1. /\ L \in Nat /\ N \in Nat
      /\ \A j \in 1 .. N : /\ fs[j].start \in Nat /\ fs[j].end \in Nat
                           /\ fs[j].start < fs[j].end /\ fs[j].end <= L
      /\ \A j, l \in 1 .. N : j < l => fs[j].end <= fs[l].start
  BY SpanOrder
<1>2. k \in Int /\ (k = 0 \/ k \in 1 .. N)
  BY <1>1
<1>3. e \in Nat /\ from <= e /\ e <= L
  <2>1. CASE k + 1 \in 1 .. N
    <3>1. e = fs[k + 1].start
      BY <2>1 DEF Edge
    <3> HIDE DEF e
    <3>2. e \in Nat /\ e <= L
      BY <1>1, <2>1, <3>1
    <3>3. CASE k = 0
      BY <3>2, <3>3
    <3>4. CASE k # 0
      <4>1. k \in 1 .. N /\ k < k + 1
        BY <1>2, <3>4
      <4>2. fs[k].end <= fs[k + 1].start
        BY <1>1, <2>1, <4>1
      <4> QED
        BY <3>1, <3>2, <3>4, <4>2
    <3> QED
      BY <3>3, <3>4
  <2>2. CASE ~ (k + 1 \in 1 .. N)
    <3>1. e = L
      BY <2>2 DEF Edge
    <3> HIDE DEF e
    <3> QED
      BY <1>1, <1>2, <3>1
  <2> QED
    BY <2>1, <2>2
<1>4. ASSUME NEW i \in from + 1 .. e, NEW l \in 1 .. N, fs[l].start < i, i <= fs[l].end
      PROVE  FALSE
  <2>1. i \in Int /\ from < i /\ i <= e /\ l \in Int
    BY <1>3
  <2>2. fs[l].start \in Nat /\ fs[l].end \in Nat
    BY <1>1
  <2>3. CASE l <= k
    <3>1. k \in 1 .. N /\ from = fs[k].end
      BY <1>1, <1>2, <2>1, <2>3
    <3>2. fs[k].start \in Nat /\ fs[k].end \in Nat /\ fs[k].start < fs[k].end
      BY <1>1, <3>1
    <3>3. l = k \/ fs[l].end <= fs[k].start
      BY <1>1, <1>2, <2>1, <2>3, <3>1
    <3>4. fs[l].end <= fs[k].end
      BY <2>2, <3>2, <3>3
    <3> QED
      BY <1>4, <2>1, <2>2, <3>1, <3>2, <3>4
  <2>4. CASE ~ (l <= k)
    <3>1. k + 1 \in 1 .. N /\ (l = k + 1 \/ k + 1 < l)
      BY <1>1, <1>2, <2>1, <2>4
    <3>2. e = fs[k + 1].start
      BY <3>1 DEF Edge
    <3>3. /\ fs[k + 1].start \in Nat /\ fs[k + 1].end \in Nat
          /\ fs[k + 1].start < fs[k + 1].end
      BY <1>1, <3>1
    <3>4. l = k + 1 \/ fs[k + 1].end <= fs[l].start
      BY <1>1, <3>1
    <3>5. fs[k + 1].start <= fs[l].start
      BY <2>2, <3>3, <3>4
    <3> HIDE DEF e
    <3>6. i <= fs[k + 1].start
      BY <2>1, <3>2
    <3> QED
      BY <1>4, <2>1, <2>2, <3>3, <3>5, <3>6
  <2> QED
    BY <2>3, <2>4
<1> QED
  BY <1>3, <1>4

\* r is the redaction of s from character c on, and still s before it.
Agrees(s, flat, r, c) ==
  \E x \in Seq(Chars) : r = Slice(s, 0, c) \o x /\ flat[Len(s)] = flat[c] \o x

\* One round of the loop: the k-th span and what follows it are redacted.
LEMMA RedactionRound ==
  ASSUME NEW s \in Seq({"a", "w"}), NEW fs, SpansOf(s, fs), NEW k \in 1 .. Len(fs),
         NEW flat, Flattens(flat, Pieces(s, fs), Chars),
         NEW r, Agrees(s, flat, r, Edge(s, fs, k + 1))
  PROVE  Agrees(s, flat, Replace(r, fs[k]), Edge(s, fs, k))
<1> DEFINE f == fs[k]
           a == f.start
           b == f.end
           c == Edge(s, fs, k + 1)
           L == Len(s)
           p == Pieces(s, fs)
           M == Marker(f.type)
           t == Slice(s, b, c)
<1>1. /\ L \in Nat /\ Len(fs) \in Nat /\ a \in Nat /\ b \in Nat /\ a < b /\ b <= L
      /\ f.type \in {"e", "s"}
  BY SpanOrder
<1>2. k \in 0 .. Len(fs) /\ k # 0 /\ Edge(s, fs, k) = a
  BY <1>1 DEF Edge
<1>3. /\ c \in Nat /\ b <= c /\ c <= L
      /\ \A i \in b + 1 .. c : \A l \in 1 .. Len(fs) : ~ (fs[l].start < i /\ i <= fs[l].end)
  <2>1. k \in 0 .. Len(fs) /\ b \in Nat /\ b = IF k = 0 THEN 0 ELSE fs[k].end
    BY <1>1, <1>2
  <2> HIDE DEF b
  <2> QED
    BY <2>1, BetweenSpans
<1>4. /\ p \in Seq(Seq(Chars)) /\ Len(p) = L
      /\ p[a + 1] = M /\ \A i \in a + 2 .. b : p[i] = <<>>
      /\ \A i \in 1 .. L : (\A l \in 1 .. Len(fs) : ~ (fs[l].start < i /\ i <= fs[l].end))
                             => p[i] = <<s[i]>>
  <2>1. ArePieces(p, s, fs)
    BY PiecesAre
  <2> HIDE DEF p
  <2> QED
    BY <2>1 DEF ArePieces
<1>5. s \in Seq(Chars)
  BY SeqMonotonic DEF Chars
<1>6. M \in Seq(Chars)
  <2>1. \A y \in {"e", "s"} : Marker(y) \in Seq(Chars)
    BY DEF Marker, Chars
  <2> QED
    BY <1>1, <2>1
<1>7. PICK x \in Seq(Chars) : r = Slice(s, 0, c) \o x /\ flat[L] = flat[c] \o x
  BY DEF Agrees
<1>8. Flattens(flat, p, Chars)
  OBVIOUS
<1>9. flat[a] \in Seq(Chars)
  <2>1. a \in 0 .. Len(p)
    BY <1>1, <1>4
  <2> QED
    BY <2>1 DEF Flattens
<1> HIDE DEF p, L, c
<1>10. flat[c] = flat[b] \o t
  <2>1. Plain(p, s, b, c)
    <3>1. \A i \in b + 1 .. c : i \in 1 .. L
      BY <1>1, <1>3
    <3>2. \A i \in b + 1 .. c : p[i] = <<s[i]>>
      BY <1>3, <1>4, <3>1
    <3> QED
      BY <1>4, <3>2 DEF Plain, L
  <2>2. b \in 0 .. Len(p) /\ c \in b .. Len(p)
    BY <1>1, <1>3, <1>4
  <2> HIDE DEF b
  <2> QED
    <3>1. Grows(flat, s, b, c)
      BY <1>5, <1>8, <2>1, <2>2, FlatPlain, Zenon
    <3> QED
      BY <3>1 DEF Grows
<1>11. flat[b] = flat[a + 1]
  <2> DEFINE d == a + 1
  <2>1. a \in Nat /\ b \in Nat /\ a < b /\ b <= Len(p) /\ Len(p) \in Nat
    BY <1>1, <1>4
  <2>2. \A i \in a + 2 .. b : p[i] = <<>>
    BY <1>4
  <2> HIDE DEF a, b
  <2>3. Blank(p, d, b)
    BY <2>1, <2>2 DEF Blank
  <2>4. d \in 0 .. Len(p) /\ b \in d .. Len(p)
    BY <2>1
  <2> HIDE DEF d
  <2>5. flat[b] = flat[d]
    BY <1>8, <2>3, <2>4, FlatEmpty
  <2> QED
    BY <2>5 DEF d
<1>12. flat[a + 1] = flat[a] \o M
  <2>1. a + 1 \in 1 .. Len(p) /\ (a + 1) - 1 = a
    BY <1>1, <1>4
  <2> QED
    BY <1>4, <1>8, <2>1 DEF Flattens
<1>13. t \in Seq(Chars)
  <2>1. b \in Nat /\ c \in Nat /\ b <= c /\ c <= Len(s)
    BY <1>1, <1>3 DEF L
  <2> HIDE DEF b
  <2> QED
    BY <1>5, <2>1, SliceIs
<1> DEFINE y == M \o (t \o x)
<1>14. y \in Seq(Chars) /\ Replace(r, f) = Slice(s, 0, a) \o y
  <2>1. Span(f, c) /\ c \in Nat /\ c <= Len(s)
    BY <1>1, <1>3 DEF Span, L
  <2>2. x \in Seq(Chars)
    BY <1>7
  <2>3. /\ Marker(f.type) \o (Slice(s, f.end, c) \o x) \in Seq(Chars)
        /\ Replace(Slice(s, 0, c) \o x, f)
             = Slice(s, 0, f.start) \o (Marker(f.type) \o (Slice(s, f.end, c) \o x))
    <3>1. ReplacedOnce(s, c, x, f, Chars)
      BY <1>5, <1>6, <2>1, <2>2, ReplaceIs, Zenon
    <3> QED
      BY <3>1 DEF ReplacedOnce
  <2> QED
    BY <1>7, <2>3
<1>15. flat[L] = flat[a] \o y
  <2> DEFINE u == flat[a]
  <2>1. u \in Seq(Chars) /\ x \in Seq(Chars)
    BY <1>7, <1>9
  <2>2. flat[L] = ((u \o M) \o t) \o x
    BY <1>7, <1>10, <1>11, <1>12
  <2> HIDE DEF u, t, M
  <2>3. ((u \o M) \o t) \o x = u \o (M \o (t \o x))
    <3>1. InARow(u, M, t, x)
      BY <1>6, <1>13, <2>1, FourInARow, Zenon
    <3> QED
      BY <3>1 DEF InARow
  <2> QED
    BY <2>2, <2>3 DEF u
<1> HIDE DEF y
<1>16. \E z \in Seq(Chars) : Replace(r, f) = Slice(s, 0, a) \o z /\ flat[Len(s)] = flat[a] \o z
  BY <1>14, <1>15 DEF L
<1> QED
  BY <1>2, <1>16 DEF Agrees

\* Replacing the spans from the last to the first gives the pieces in a row.
LEMMA RedactionIs ==
  ASSUME NEW s \in Seq({"a", "w"}), NEW fs, SpansOf(s, fs)
  PROVE  RedactWithTypedMarkers(s, fs) = FlattenSeq(Pieces(s, fs))
<1> DEFINE N == Len(fs)
           L == Len(s)
           p == Pieces(s, fs)
           R == ReplacedAfter(s, fs)
           Left(m) == Edge(s, fs, (N + 1) - m)
<1>1. L \in Nat /\ N \in Nat
  BY SpanOrder
<1>2. p \in Seq(Seq(Chars)) /\ Len(p) = L
  BY PiecesAre DEF ArePieces
<1>3. s \in Seq(Chars)
  BY SeqMonotonic DEF Chars
<1> HIDE DEF p
<1>4. PICK flat : Flattens(flat, p, Chars) /\ FlattenSeq(p) = flat[Len(p)]
  BY <1>2, FlatExists
<1>5. /\ R[0] = s
      /\ \A m \in 1 .. N : R[m] = Replace(R[m - 1], fs[N - m + 1])
  BY <1>1, ReplacedAfterIs
<1>6. flat \in [0 .. L -> Seq(Chars)] /\ Flattens(flat, Pieces(s, fs), Chars)
  BY <1>2, <1>4 DEF p, Flattens
<1> HIDE DEF R
<1> DEFINE Good(m) == Agrees(s, flat, R[m], Left(m))
           Bad == {m \in 0 .. N : ~ Good(m)}
<1>7. Good(0)
  <2>1. Left(0) = L
    BY <1>1 DEF Edge
  <2>2. s = Slice(s, 0, L) \o <<>>
    <3>1. Slice(s, 0, L) = s
      BY <1>3, SubSeqFull DEF Slice
    <3> QED
      BY <1>3, <3>1, ConcatEmptySeq
  <2>3. flat[L] \in Seq(Chars)
    BY <1>1, <1>6
  <2>4. flat[L] = flat[L] \o <<>>
    BY <2>3, ConcatEmptySeq
  <2>5. <<>> \in Seq(Chars)
    BY EmptySeq
  <2>6. Agrees(s, flat, s, L)
    BY <2>2, <2>4, <2>5, Zenon DEF Agrees
  <2> QED
    BY <1>5, <2>1, <2>6
<1>8. ASSUME NEW m \in 1 .. N, Good(m - 1) PROVE Good(m)
  <2> DEFINE k == N - m + 1
  <2>1. k \in 1 .. N /\ (N + 1) - (m - 1) = k + 1 /\ (N + 1) - m = k
    BY <1>1
  <2>2. Agrees(s, flat, R[m - 1], Edge(s, fs, k + 1))
    BY <1>8, <2>1
  <2>3. R[m] = Replace(R[m - 1], fs[k])
    BY <1>5
  <2> HIDE DEF k
  <2>4. Agrees(s, flat, Replace(R[m - 1], fs[k]), Edge(s, fs, k))
    BY <1>6, <2>1, <2>2, RedactionRound
  <2> QED
    BY <2>1, <2>3, <2>4
<1> HIDE DEF Good
<1>9. Bad = {}
  <2> SUFFICES ASSUME Bad # {} PROVE FALSE
    OBVIOUS
  <2>1. PICK m \in Bad : \A j \in Bad : m <= j
    <3>1. Bad \in SUBSET Nat
      OBVIOUS
    <3> QED
      BY <3>1, Least
  <2>2. m \in 0 .. N /\ m \in Int /\ m # 0
    BY <1>7
  <2>3. m \in 1 .. N /\ m - 1 \in 0 .. N /\ ~ (m <= m - 1)
    BY <1>1, <2>2
  <2> QED
    BY <1>8, <2>1, <2>3
<1>10. Agrees(s, flat, R[N], Edge(s, fs, 1))
  <2>1. N \in 0 .. N /\ (N + 1) - N = 1
    BY <1>1
  <2>2. Good(N)
    BY <1>9, <2>1
  <2> QED
    BY <2>1, <2>2 DEF Good
<1> DEFINE c == Edge(s, fs, 1)
<1>11. /\ c \in Nat /\ c <= L
       /\ \A i \in 1 .. c : \A l \in 1 .. N : ~ (fs[l].start < i /\ i <= fs[l].end)
  <2>1. 0 \in 0 .. N /\ 0 \in Nat /\ 0 = IF 0 = 0 THEN 0 ELSE fs[0].end
    BY <1>1
  <2>2. /\ Edge(s, fs, 0 + 1) \in Nat /\ Edge(s, fs, 0 + 1) <= Len(s)
        /\ \A i \in 0 + 1 .. Edge(s, fs, 0 + 1) :
             \A l \in 1 .. Len(fs) : ~ (fs[l].start < i /\ i <= fs[l].end)
    BY <2>1, BetweenSpans
  <2> QED
    BY <2>2
<1>12. PICK x \in Seq(Chars) : R[N] = Slice(s, 0, c) \o x /\ flat[L] = flat[c] \o x
  BY <1>10 DEF Agrees
<1>13. flat[c] = Slice(s, 0, c)
  <2>1. Plain(p, s, 0, c)
    <3>1. \A i \in 0 + 1 .. c : i \in 1 .. L /\ i \in 1 .. c
      BY <1>1, <1>11
    <3>2. \A i \in 1 .. L : (\A l \in 1 .. N : ~ (fs[l].start < i /\ i <= fs[l].end))
                              => p[i] = <<s[i]>>
      BY PiecesAre DEF ArePieces, p
    <3>3. \A i \in 0 + 1 .. c : p[i] = <<s[i]>>
      BY <1>11, <3>1, <3>2
    <3> QED
      BY <1>2, <3>3 DEF Plain
  <2>2. 0 \in 0 .. Len(p) /\ c \in 0 .. Len(p)
    BY <1>1, <1>2, <1>11
  <2> HIDE DEF c
  <2>3. flat[c] = flat[0] \o Slice(s, 0, c)
    <3>1. Grows(flat, s, 0, c)
      BY <1>3, <1>4, <2>1, <2>2, FlatPlain, Zenon
    <3> QED
      BY <3>1 DEF Grows
  <2>4. flat[0] = <<>>
    BY <1>4 DEF Flattens
  <2>5. Slice(s, 0, c) \in Seq(Chars)
    <3>1. c \in Nat /\ 0 \in Nat /\ 0 <= c /\ c <= Len(s)
      BY <1>11 DEF c
    <3> QED
      BY <1>3, <3>1, SliceIs
  <2>6. <<>> \o Slice(s, 0, c) = Slice(s, 0, c)
    BY <2>5, ConcatEmptySeq
  <2> QED
    BY <2>3, <2>4, <2>6
<1>14. R[N] = flat[L]
  BY <1>12, <1>13
<1>15. RedactWithTypedMarkers(s, fs) = R[N]
  BY DEF RedactWithTypedMarkers, R
<1> QED
  BY <1>2, <1>4, <1>14, <1>15 DEF p

-----------------------------------------------------------------------------
(* The scan. *)

\* A value no longer than the overlap.
Short(v) == ByteOffset(text, v.end) - ByteOffset(text, v.start) <= ChunkOverlapBytes

\* A value some finding covers.
Found(v) == \E n \in DOMAIN findings : Covers(findings[n], v)

\* The inductive invariant: a short value is found, or lies after the start of
\* the chunk that comes next; at the end all are found, in spans apart, and the
\* text has been redacted with them.  A finding lies inside the text and has the
\* label of one of its values.
ScanInv ==
  /\ ChunkInv
  /\ ValuesInv
  /\ findings \in Seq(Placed(values, 0, Len(text)))
  /\ phase = "scan" => \A v \in values : Short(v) => chunk.from <= v.start \/ Found(v)
  /\ phase = "done" => /\ Apart(findings)
                       /\ redacted = RedactWithTypedMarkers(text, findings)
                       /\ \A v \in values : Short(v) => Found(v)

\* Placed findings are findings.
LEMMA PlacedFindings ==
  ASSUME NEW V, NEW from, NEW to, NEW fs \in Seq(Placed(V, from, to))
  PROVE  fs \in Seq(FindingSet)
<1>1. Placed(V, from, to) \in SUBSET FindingSet
  BY DEF Placed
<1> QED
  BY <1>1, SeqMonotonic

\* What a part of the findings covers, all of them cover.
LEMMA ConcatCovers ==
  ASSUME NEW fs \in Seq(FindingSet), NEW gs \in Seq(FindingSet), NEW v,
         \/ \E n \in DOMAIN fs : Covers(fs[n], v)
         \/ \E n \in DOMAIN gs : Covers(gs[n], v)
  PROVE  \E n \in DOMAIN (fs \o gs) : Covers((fs \o gs)[n], v)
<1> DEFINE m == Len(fs)
           l == Len(gs)
           all == fs \o gs
<1>1. m \in Nat /\ DOMAIN fs = 1 .. m /\ l \in Nat /\ DOMAIN gs = 1 .. l
  BY LenProperties
<1>2. /\ all \in Seq(FindingSet) /\ Len(all) = m + l
      /\ \A i \in 1 .. m + l : all[i] = IF i <= m THEN fs[i] ELSE gs[i - m]
  BY ConcatProperties
<1>3. DOMAIN all = 1 .. m + l
  BY <1>2, LenProperties
<1> HIDE DEF m, l, all
<1>4. ASSUME NEW n \in 1 .. m, Covers(fs[n], v) PROVE \E i \in DOMAIN all : Covers(all[i], v)
  <2>1. n \in 1 .. m + l /\ n <= m
    BY <1>1
  <2>2. all[n] = fs[n]
    BY <1>2, <2>1
  <2> QED
    BY <1>3, <1>4, <2>1, <2>2
<1>5. ASSUME NEW n \in 1 .. l, Covers(gs[n], v) PROVE \E i \in DOMAIN all : Covers(all[i], v)
  <2>1. m + n \in 1 .. m + l /\ ~ (m + n <= m) /\ (m + n) - m = n
    BY <1>1
  <2>2. all[m + n] = gs[n]
    BY <1>2, <2>1
  <2> QED
    BY <1>3, <1>5, <2>1, <2>2
<1> QED
  BY <1>1, <1>4, <1>5 DEF all

\* What is covered before the merging is covered after it.
LEMMA DeduplicateCovers ==
  ASSUME NEW fs \in Seq(FindingSet), NEW v \in FindingSet,
         \E n \in DOMAIN fs : Covers(fs[n], v)
  PROVE  \E n \in DOMAIN DeduplicateFindings(fs) : Covers(DeduplicateFindings(fs)[n], v)
<1> DEFINE gs == DeduplicateFindings(fs)
<1>1. gs \in Seq(FindingSet) /\ CoveredBy(fs, gs)
  BY DeduplicateIs
<1> HIDE DEF gs
<1>2. PICK n \in DOMAIN fs : Covers(fs[n], v)
  OBVIOUS
<1>3. PICK k \in DOMAIN gs : Covers(gs[k], fs[n])
  BY <1>1 DEF CoveredBy
<1>4. fs[n] \in FindingSet /\ gs[k] \in FindingSet
  BY <1>1, LenProperties, ElementOfSeq
<1>5. Covers(gs[k], v)
  BY <1>2, <1>3, <1>4, CoversTransitive
<1> QED
  BY <1>5 DEF gs

\* Inspecting a chunk keeps the invariant: the values that are whole in the
\* chunk are found, the others start in the next one.
LEMMA InspectStep ==
  ASSUME ScanInv, InspectChunk
  PROVE  ScanInv'
<1> USE DEF ScanInv
<1>1. PICK unit \in Units : \E reports \in Reports(unit) :
        Conclude(Shift(NormalizeGoogleFindings(reports)))
  BY DEF InspectChunk
<1>2. PICK reports \in Reports(unit) : Conclude(Shift(NormalizeGoogleFindings(reports)))
  BY <1>1
<1>3. PICK found, all : found = Shift(NormalizeGoogleFindings(reports)) /\ all = findings \o found
  OBVIOUS
<1> DEFINE P == Placed(values, 0, Len(text))
<1>4. /\ found \in Seq(P) /\ found \in Seq(FindingSet) /\ findings \in Seq(FindingSet)
      /\ \A v \in values : Whole(v) => \E n \in DOMAIN found : Covers(found[n], v)
  <2>1. /\ found \in Seq(P)
        /\ \A v \in values : Whole(v) => \E n \in DOMAIN found : Covers(found[n], v)
    BY <1>3, FoundIs
  <2>2. findings \in Seq(P)
    OBVIOUS
  <2> QED
    BY <2>1, <2>2, PlacedFindings
<1>5. all \in Seq(P) /\ all \in Seq(FindingSet)
  <2>1. findings \in Seq(P)
    OBVIOUS
  <2>2. all \in Seq(P)
    BY <1>3, <1>4, <2>1, ConcatProperties
  <2> QED
    BY <2>2, PlacedFindings
<1>6. text' = text /\ values' = values /\ phase = "scan" /\ Conclude(found)
  BY <1>2, <1>3 DEF InspectChunk
<1>7. ChunkInv'
  BY ChunkStep DEF Next
<1>8. ValuesInv'
  BY <1>6 DEF ValuesInv
<1>9. ASSUME NEW v \in values, Short(v), chunk.from <= v.start => v.end <= chunk.to
      PROVE  \E n \in DOMAIN all : Covers(all[n], v)
  <2>1. CASE Found(v)
    <3>1. PICK fs \in Seq(FindingSet) : fs = findings
      BY <1>4
    <3>2. \E n \in DOMAIN fs : Covers(fs[n], v)
      BY <2>1, <3>1 DEF Found
    <3>3. \E n \in DOMAIN (fs \o found) : Covers((fs \o found)[n], v)
      BY <1>4, <3>2, ConcatCovers
    <3> QED
      BY <1>3, <3>1, <3>3
  <2>2. CASE chunk.from <= v.start
    <3>1. Whole(v)
      BY <1>9, <2>2 DEF Whole
    <3>2. PICK fs \in Seq(FindingSet) : fs = findings
      BY <1>4
    <3>3. \E n \in DOMAIN found : Covers(found[n], v)
      BY <1>4, <3>1
    <3>4. \E n \in DOMAIN (fs \o found) : Covers((fs \o found)[n], v)
      BY <1>4, <3>3, ConcatCovers
    <3> QED
      BY <1>3, <3>2, <3>4
  <2> QED
    BY <1>6, <1>9, <2>1, <2>2
<1>10. \A v \in values : /\ v.start \in Nat /\ v.end \in Nat /\ v.end <= Len(text)
                         /\ v \in FindingSet
  BY ValueBounds DEF ValuesInv
<1>11. CASE chunk.to = Len(text)
  <2>1. /\ findings' = DeduplicateFindings(all) /\ phase' = "done"
        /\ redacted' = RedactWithTypedMarkers(text, DeduplicateFindings(all))
    BY <1>3, <1>6, <1>11 DEF Conclude
  <2>2. DeduplicateFindings(all) \in Seq(P) /\ Apart(DeduplicateFindings(all))
    <3>1. Merges(P)
      <4>1. Len(text) \in Int
        BY ChunkBounds
      <4> QED
        BY <4>1, PlacedMerges
    <3> HIDE DEF P
    <3> QED
      BY <1>5, <3>1, DeduplicateIs, DeduplicateStaysIn
  <2>3. ASSUME NEW v \in values, Short(v)
        PROVE  \E n \in DOMAIN findings' : Covers(findings'[n], v)
    <3>1. \E n \in DOMAIN all : Covers(all[n], v)
      BY <1>9, <1>10, <1>11, <2>3
    <3>2. \E n \in DOMAIN DeduplicateFindings(all) : Covers(DeduplicateFindings(all)[n], v)
      BY <1>5, <1>10, <3>1, DeduplicateCovers
    <3> QED
      BY <2>1, <3>2
  <2>4. \A v \in values' : Short(v)' => Found(v)'
    BY <1>6, <2>3 DEF Short, Found
  <2>5. findings' \in Seq(Placed(values', 0, Len(text')))
    BY <1>6, <2>1, <2>2
  <2>6. Apart(findings') /\ redacted' = RedactWithTypedMarkers(text', findings')
    BY <1>6, <2>1, <2>2
  <2> QED
    BY <1>7, <1>8, <2>1, <2>4, <2>5, <2>6
<1>12. CASE chunk.to # Len(text)
  <2>1. findings' = all
    BY <1>3, <1>6, <1>12 DEF Conclude
  <2>2. /\ phase' = "scan" /\ chunk'.from = NextStart
        /\ \A i, j \in 0 .. Len(text) :
             /\ ByteOffset(text, j) - ByteOffset(text, i) <= ChunkOverlapBytes
             /\ ~ (j <= chunk.to)
             => NextStart <= i
    BY <1>12, ScanGoesOn
  <2>3. ASSUME NEW v \in values, Short(v)
        PROVE  NextStart <= v.start \/ \E n \in DOMAIN findings' : Covers(findings'[n], v)
    <3>1. CASE v.end <= chunk.to
      BY <1>9, <2>1, <2>3, <3>1
    <3>2. CASE ~ (v.end <= chunk.to)
      <4>1. v.start \in 0 .. Len(text) /\ v.end \in 0 .. Len(text)
        <5>1. v \in Sensitive(text)
          BY DEF ValuesInv
        <5> QED
          BY <5>1 DEF Sensitive
      <4> QED
        BY <2>2, <2>3, <3>2, <4>1 DEF Short
    <3> QED
      BY <3>1, <3>2
  <2>4. \A v \in values' : Short(v)' => chunk'.from <= v.start \/ Found(v)'
    BY <1>6, <2>2, <2>3 DEF Short, Found
  <2>5. findings' \in Seq(Placed(values', 0, Len(text')))
    BY <1>5, <1>6, <2>1
  <2> QED
    BY <1>7, <1>8, <2>2, <2>4, <2>5
<1> QED
  BY <1>11, <1>12

\* The invariant of the scan holds in every state of run_google: no short value
\* is left behind by the chunks inspected so far.
THEOREM ScanCorrect == Spec => []ScanInv
<1>1. Init => ScanInv
  <2> SUFFICES ASSUME Init PROVE ScanInv
    OBVIOUS
  <2>1. text \in Seq({"a", "w"})
    BY BoundedIsSeq DEF Init
  <2>2. Len(text) \in Nat /\ 0 \in 0 .. Len(text)
    BY <2>1, LenProperties
  <2>3. ChunkFrom(text, 0).from = 0
    BY DEF ChunkFrom
  <2>4. chunk = ChunkFrom(text, 0) /\ phase \in {"scan", "done"}
    BY DEF Init
  <2>5. ChunkInv
    BY <2>1, <2>2, <2>3, <2>4 DEF ChunkInv
  <2>6. PICK vs \in BoundedSeq(Sensitive(text), MaxValues) : values = ToSet(vs)
    BY DEF Init, Values
  <2>7. PICK m \in 0 .. MaxValues : vs \in [1 .. m -> Sensitive(text)]
    BY <2>6 DEF BoundedSeq, SeqOf
  <2>8. \A v \in values : v \in Sensitive(text)
    BY <2>6, <2>7 DEF ToSet
  <2>9. IsFiniteSet(values)
    <3>1. vs \in Surjection(1 .. m, values)
      BY <2>6, <2>7 DEF Surjection, ToSet
    <3>2. m \in Nat /\ IsFiniteSet(1 .. m)
      BY FS_Interval
    <3> QED
      BY <3>1, <3>2, FS_Surjection
  <2>10. ValuesInv
    BY <2>8, <2>9 DEF ValuesInv
  <2>11. findings = <<>> /\ <<>> \in Seq(Placed(values, 0, Len(text))) /\ Apart(<<>>)
    BY EmptySeq DEF Init, Apart
  <2>12. \A v \in values : chunk.from <= v.start
    <3>1. \A v \in values : v.start \in Nat
      BY <2>5, <2>8, ValueBounds
    <3> QED
      BY <2>3, <2>4, <3>1
  <2>13. phase = "done" => values = {}
    <3> SUFFICES ASSUME phase = "done", NEW v \in values PROVE FALSE
      OBVIOUS
    <3>1. text = <<>>
      BY DEF Init
    <3>2. v.start \in Nat /\ v.end \in Nat /\ v.start < v.end /\ v.end <= Len(text)
      BY <2>5, <2>8, ValueBounds
    <3> QED
      BY <3>1, <3>2, EmptySeq
  <2>14. phase = "done" => redacted = RedactWithTypedMarkers(text, findings)
    <3> SUFFICES ASSUME phase = "done" PROVE redacted = RedactWithTypedMarkers(text, findings)
      OBVIOUS
    <3>1. text = <<>> /\ redacted = <<>> /\ Len(<<>>) = 0
      BY EmptySeq DEF Init
    <3>2. ReplacedAfter(<<>>, <<>>)[0] = <<>>
      BY <3>1, ReplacedAfterIs
    <3> QED
      BY <2>11, <3>1, <3>2 DEF RedactWithTypedMarkers
  <2> QED
    BY <2>5, <2>10, <2>11, <2>12, <2>13, <2>14 DEF ScanInv
<1>2. ScanInv /\ [Next]_vars => ScanInv'
  <2> SUFFICES ASSUME ScanInv, [Next]_vars PROVE ScanInv'
    OBVIOUS
  <2>1. CASE InspectFails
    <3>1. ChunkInv'
      BY ChunkStep DEF ScanInv
    <3> QED
      BY <2>1, <3>1 DEF InspectFails, ScanInv, ValuesInv
  <2>2. CASE InspectChunk
    BY <2>2, InspectStep
  <2>3. CASE UNCHANGED vars
    BY <2>3 DEF vars, ScanInv, ChunkInv, ValuesInv, Short, Found
  <2> QED
    BY <2>1, <2>2, <2>3 DEF Next
<1> QED
  BY <1>1, <1>2, PTL DEF Spec

\* A sensitive value no longer than the overlap is redacted whole wherever the
\* chunk boundaries fall, for every text, any number of values and all limits:
\* neither the cutting at characters, nor the conversion and shifting of
\* offsets, nor the merging of findings loses a part of it.
THEOREM NothingExposedCorrect == Spec => []NothingExposed
<1>1. ScanInv => NothingExposed
  BY DEF ScanInv, NothingExposed, Short, Found, Covers
<1> QED
  BY <1>1, ScanCorrect, PTL

\* The spans that are replaced by markers never overlap, so that replacing one
\* leaves the offsets of those before it valid.
THEOREM SpansApartCorrect == Spec => [](phase = "done" => Apart(findings))
<1>1. ScanInv => (phase = "done" => Apart(findings))
  BY DEF ScanInv
<1> QED
  BY <1>1, ScanCorrect, PTL

\* The findings at the end are spans of the text, one after the other.
LEMMA DoneSpans ==
  ASSUME ScanInv, phase = "done"
  PROVE  /\ text \in Seq({"a", "w"}) /\ SpansOf(text, findings)
         /\ Len(findings) \in Nat /\ DOMAIN findings = 1 .. Len(findings)
         /\ \A n \in 1 .. Len(findings) : findings[n] \in Placed(values, 0, Len(text))
<1>1. text \in Seq({"a", "w"}) /\ Len(text) \in Nat
  BY LenProperties DEF ScanInv, ChunkInv
<1>2. findings \in Seq(Placed(values, 0, Len(text))) /\ Apart(findings)
  BY DEF ScanInv
<1>3. /\ Len(findings) \in Nat /\ DOMAIN findings = 1 .. Len(findings)
      /\ \A n \in 1 .. Len(findings) : findings[n] \in Placed(values, 0, Len(text))
  BY <1>2, LenProperties, ElementOfSeq
<1>4. findings \in Seq(FindingSet)
  BY <1>2, PlacedFindings
<1>5. \A f \in Placed(values, 0, Len(text)) : Span(f, Len(text))
  BY <1>1 DEF Placed, FindingSet, Span
<1>6. SpansOf(text, findings)
  BY <1>2, <1>3, <1>4, <1>5 DEF SpansOf
<1> QED
  BY <1>1, <1>3, <1>6

\* The strongest short value that a finding covers is no stronger than it: the
\* finding that was made of the value is this one, since no other has its
\* characters.
LEMMA LabelIsStrongest ==
  ASSUME ScanInv, phase = "done", NEW n \in DOMAIN findings, NEW v \in values, Short(v),
         findings[n].start <= v.start, v.end <= findings[n].end
  PROVE  v.score <= findings[n].score
<1>1. PICK k \in DOMAIN findings : Covers(findings[k], v)
  BY DEF ScanInv, Found
<1>2. v.start \in Nat /\ v.end \in Nat /\ v.start < v.end
  <2>1. ChunkInv /\ v \in Sensitive(text)
    BY DEF ScanInv, ValuesInv
  <2> QED
    BY <2>1, ValueBounds
<1>3. /\ text \in Seq({"a", "w"}) /\ SpansOf(text, findings)
      /\ n \in 1 .. Len(findings) /\ k \in 1 .. Len(findings)
  BY DoneSpans
<1>4. /\ findings[n].start \in Nat /\ findings[n].end \in Nat
      /\ findings[k].start \in Nat /\ findings[k].end \in Nat
  BY <1>3, SpanOrder
<1>5. findings[k].start <= v.start /\ v.end <= findings[k].end /\ v.score <= findings[k].score
  BY <1>1 DEF Covers
<1>6. PICK i \in Int : i = v.start + 1
  BY <1>2
<1>7. /\ findings[n].start < i /\ i <= findings[n].end
      /\ findings[k].start < i /\ i <= findings[k].end
  BY <1>2, <1>4, <1>5, <1>6
<1>8. n = k
  <2>1. PICK fs : fs = findings
    OBVIOUS
  <2> QED
    BY <1>3, <1>7, <2>1, SpanUnique
<1> QED
  BY <1>5, <1>8

\* What run_google returns is the text with each covered run replaced by its
\* marker and every other character as it was, although the markers change the
\* length of the text while it is being redacted; each marker has the label of
\* the strongest value under it.
THEOREM RedactsExactlyCorrect == Spec => []RedactsExactly
<1>1. ASSUME ScanInv, phase = "done" PROVE redacted = Redaction(findings)
  <2>1. Redaction(findings) = FlattenSeq(Pieces(text, findings))
    BY DEF Redaction, Pieces
  <2>2. text \in Seq({"a", "w"}) /\ SpansOf(text, findings)
    BY <1>1, DoneSpans
  <2>3. RedactWithTypedMarkers(text, findings) = FlattenSeq(Pieces(text, findings))
    BY <2>2, RedactionIs
  <2> QED
    BY <1>1, <2>1, <2>3 DEF ScanInv
<1>2. ASSUME ScanInv, phase = "done", NEW n \in DOMAIN findings
      PROVE  \E v \in values : v.type = findings[n].type /\ v.score = findings[n].score
  <2>1. findings[n] \in Placed(values, 0, Len(text))
    BY <1>2, DoneSpans
  <2> QED
    BY <2>1 DEF Placed
<1>3. ASSUME ScanInv, phase = "done", NEW n \in DOMAIN findings, NEW v \in values,
             findings[n].start <= v.start, v.end <= findings[n].end, Short(v)
      PROVE  v.score <= findings[n].score
  BY <1>3, LabelIsStrongest
<1>4. ScanInv => RedactsExactly
  BY <1>1, <1>2, <1>3 DEF RedactsExactly, Short
<1> QED
  BY <1>4, ScanCorrect, PTL
=============================================================================
