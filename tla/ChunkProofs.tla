---------------------------- MODULE ChunkProofs ----------------------------
(***************************************************************************)
(* ChunkText and the repair of badly extracted documents, for texts of any *)
(* length: no passage of a text is lost, and a question does not repair    *)
(* what was just cut.                                                      *)
(***************************************************************************)
EXTENDS MCAlgorithms, OrderingProofs

-----------------------------------------------------------------------------
(* The trimmed text.                                                       *)

Black(text) == {p \in DOMAIN text : text[p] # Blank}

\* What TrimSpace leaves of a text: from its first to its last character that
\* is not blank.
Trimmed(text) == SubSeq(text, Min(Black(text)), Max(Black(text)))

\* A text that is not blank has a first and a last character that is not.
LEMMA BlackEnds ==
    ASSUME NEW C, NEW text \in Seq(C), Black(text) # {}
    PROVE  /\ Min(Black(text)) \in Black(text) /\ Max(Black(text)) \in Black(text)
           /\ \A p \in Black(text) : Min(Black(text)) <= p /\ p <= Max(Black(text))
           /\ Min(Black(text)) \in Nat \ {0} /\ Max(Black(text)) \in Nat
           /\ Min(Black(text)) <= Max(Black(text)) /\ Max(Black(text)) <= Len(text)
<1>1. Black(text) \subseteq 1..Len(text) /\ Len(text) \in Nat
  BY DEF Black
<1>2. Black(text) \subseteq Nat /\ Black(text) \subseteq Int
      /\ \A p \in Black(text) : p <= Len(text) /\ p # 0
  BY <1>1
<1>3. Min(Black(text)) \in Black(text) /\ \A p \in Black(text) : Min(Black(text)) <= p
  BY <1>2, MinIsLeast
<1>4. Max(Black(text)) \in Black(text) /\ \A p \in Black(text) : p <= Max(Black(text))
  BY <1>1, <1>2, MaxIsGreatest
<1> QED BY <1>2, <1>3, <1>4

\* TrimSpace keeps what lies between these two.
LEMMA SpaceTrimmed ==
    ASSUME NEW C, NEW text \in Seq(C), Black(text) # {}
    PROVE  TrimSpace(text, DOMAIN text) = Min(Black(text))..Max(Black(text))
<1> DEFINE lo == Min(Black(text))
           hi == Max(Black(text))
<1>1. /\ lo \in Black(text) /\ hi \in Black(text)
      /\ \A p \in Black(text) : lo <= p /\ p <= hi
      /\ lo \in Nat \ {0} /\ hi \in Nat /\ hi <= Len(text)
  BY BlackEnds
<1>2. DOMAIN text = 1..Len(text) /\ Len(text) \in Nat
  OBVIOUS
<1>3. TrimSpace(text, DOMAIN text)
          = {p \in DOMAIN text : \E a, b \in Black(text) : a <= p /\ p <= b}
  BY DEF TrimSpace, Black
<1> HIDE DEF lo, hi
<1>4. ASSUME NEW p \in DOMAIN text, NEW a \in Black(text), NEW b \in Black(text),
             a <= p, p <= b
      PROVE  p \in lo..hi
  <2>1. Black(text) \subseteq 1..Len(text)
    BY <1>2 DEF Black
  <2>2. a \in Int /\ b \in Int /\ p \in Int /\ lo <= a /\ b <= hi
    BY <1>1, <1>2, <2>1
  <2> QED BY <1>1, <1>4, <2>2
<1>5. ASSUME NEW p \in lo..hi PROVE p \in DOMAIN text /\ lo <= p /\ p <= hi
  BY <1>1, <1>2
<1>6. {p \in DOMAIN text : \E a, b \in Black(text) : a <= p /\ p <= b} = lo..hi
  <2>1. \A p \in lo..hi : \E a, b \in Black(text) : a <= p /\ p <= b
    BY <1>1, <1>5
  <2> QED BY <1>4, <1>5, <2>1
<1> QED BY <1>3, <1>6 DEF lo, hi

\* The least and the greatest member of an interval.
LEMMA EndsOfInterval ==
    ASSUME NEW a \in Nat, NEW b \in Nat, a <= b
    PROVE  Min(a..b) = a /\ Max(a..b) = b
<1>1. a \in a..b /\ b \in a..b /\ a..b \subseteq Nat
  OBVIOUS
<1>2. Min(a..b) \in a..b /\ Min(a..b) <= a
  BY <1>1, MinIsLeast
<1>3. Max(a..b) \in a..b /\ b <= Max(a..b)
  <2>1. a..b \subseteq Int /\ a..b # {} /\ \A x \in a..b : x <= b
    BY <1>1
  <2> QED BY <1>1, <2>1, MaxIsGreatest
<1> QED BY <1>2, <1>3

\* The trimmed text, character by character.
LEMMA TrimmedText ==
    ASSUME NEW C, NEW text \in Seq(C), Black(text) # {}
    PROVE  /\ Trimmed(text) \in Seq(C)
           /\ Len(Trimmed(text)) = Max(Black(text)) - Min(Black(text)) + 1
           /\ \A i \in 1..(Max(Black(text)) - Min(Black(text)) + 1) :
                  Trimmed(text)[i] = text[Min(Black(text)) + i - 1]
<1> DEFINE lo == Min(Black(text))
           hi == Max(Black(text))
<1>1. lo \in Nat \ {0} /\ hi \in Nat /\ lo <= hi /\ hi <= Len(text) /\ Len(text) \in Nat
  BY BlackEnds
<1> HIDE DEF lo, hi
<1>2. \A i \in lo..hi : text[i] \in C
  BY <1>1
<1>3. /\ SubSeq(text, lo, hi) \in Seq(C)
      /\ Len(SubSeq(text, lo, hi)) = IF lo <= hi THEN hi - lo + 1 ELSE 0
      /\ \A i \in 1..(hi - lo + 1) : SubSeq(text, lo, hi)[i] = text[lo + i - 1]
  BY <1>1, <1>2, SubSeqProperties
<1>4. Trimmed(text) = SubSeq(text, lo, hi)
  BY DEF Trimmed, lo, hi
<1> QED BY <1>1, <1>3, <1>4 DEF lo, hi

-----------------------------------------------------------------------------
(* The windows.                                                            *)

\* What is left of the k-th window, counted from 0, and the windows that
\* become chunks.
Window(trimmed, size, step, k) ==
    TrimSpace(trimmed, (k * step + 1)..WindowEnd(k * step, size, Len(trimmed)))
Kept(trimmed, size, step) ==
    {k \in 0..(Len(trimmed) - 1) :
        /\ k = 0 \/ WindowEnd((k - 1) * step, size, Len(trimmed)) < Len(trimmed)
        /\ Window(trimmed, size, step, k) # {}}
Chunks(trimmed, size, step) ==
    IF Len(trimmed) <= size THEN <<DOMAIN trimmed>>
    ELSE [i \in 1..Cardinality(Kept(trimmed, size, step)) |->
             Window(trimmed, size, step, Ascending(Kept(trimmed, size, step))[i])]

\* ChunkText in these terms.
LEMMA ChunksOfText ==
    ASSUME NEW C, NEW text \in Seq(C), NEW chunkSize, NEW overlap
    PROVE  LET size == ChunkSize(chunkSize)
           IN /\ Black(text) = {} => ChunkText(text, chunkSize, overlap) = << >>
              /\ Black(text) # {} => ChunkText(text, chunkSize, overlap)
                     = Chunks(Trimmed(text), size, Step(size, Overlap(size, overlap)))
<1> DEFINE space == TrimSpace(text, DOMAIN text)
           size == ChunkSize(chunkSize)
           step == Step(size, Overlap(size, overlap))
           trimmed == SubSeq(text, Min(space), Max(space))
<1>1. ChunkText(text, chunkSize, overlap) = IF space = {} THEN << >>
                                            ELSE Chunks(trimmed, size, step)
  BY DEF ChunkText, Chunks, Kept, Window
<1>2. ASSUME Black(text) = {} PROVE space = {}
  BY <1>2 DEF TrimSpace, Black
<1>3. ASSUME Black(text) # {} PROVE space # {} /\ trimmed = Trimmed(text)
  <2>1. space = Min(Black(text))..Max(Black(text))
    BY <1>3, SpaceTrimmed
  <2>2. Min(Black(text)) \in Nat /\ Max(Black(text)) \in Nat
        /\ Min(Black(text)) <= Max(Black(text))
    BY <1>3, BlackEnds
  <2> HIDE DEF space
  <2>3. Min(space) = Min(Black(text)) /\ Max(space) = Max(Black(text))
    BY <2>1, <2>2, EndsOfInterval
  <2> QED BY <2>1, <2>2, <2>3 DEF Trimmed
<1> HIDE DEF space, size, step, trimmed
<1> QED BY <1>1, <1>2, <1>3 DEF size, step

\* The chunk size is positive and the step is what two neighbours do not share.
LEMMA StepShared ==
    ASSUME NEW chunkSize \in Int, NEW overlap \in Int
    PROVE  LET size == ChunkSize(chunkSize)
               shared == IF overlap \in 0..(size - 1) THEN overlap
                         ELSE IF DefaultOverlap < size THEN DefaultOverlap ELSE 0
           IN /\ size \in Nat \ {0} /\ shared \in 0..(size - 1)
              /\ Step(size, Overlap(size, overlap)) = size - shared
<1> DEFINE size == ChunkSize(chunkSize)
<1>1. size \in Nat \ {0}
  BY AlgorithmsAssumption DEF ChunkSize
<1> HIDE DEF size
<1>2. (overlap \in 0..(size - 1)) <=> ~(overlap < 0 \/ overlap >= size)
  BY <1>1
<1>3. DefaultOverlap \in Nat
  BY AlgorithmsAssumption
<1>4. CASE overlap \in 0..(size - 1)
  <2>1. Overlap(size, overlap) = overlap
    BY <1>2, <1>4 DEF Overlap
  <2>2. Step(size, overlap) = size - overlap
    BY <1>1, <1>4 DEF Step
  <2> QED BY <1>1, <1>4, <2>1, <2>2 DEF size
<1>5. CASE overlap \notin 0..(size - 1)
  <2>1. Overlap(size, overlap) = DefaultOverlap
    BY <1>2, <1>5 DEF Overlap
  <2>2. Step(size, DefaultOverlap) = IF DefaultOverlap < size THEN size - DefaultOverlap
                                                              ELSE size
    BY <1>1, <1>3 DEF Step
  <2> QED BY <1>1, <1>3, <1>5, <2>1, <2>2 DEF size
<1> QED BY <1>4, <1>5

\* A window holds no more than size characters.
LEMMA WindowSize ==
    ASSUME NEW C, NEW trimmed \in Seq(C), NEW size \in Nat \ {0}, NEW step \in Nat,
           NEW k \in Nat
    PROVE  /\ Window(trimmed, size, step, k) \subseteq (k * step + 1)..(k * step + size)
           /\ Cardinality(Window(trimmed, size, step, k)) \in Nat
           /\ Cardinality(Window(trimmed, size, step, k)) <= size
<1> DEFINE x == k * step
           end == WindowEnd(x, size, Len(trimmed))
           w == Window(trimmed, size, step, k)
           T == (x + 1)..(x + size)
<1>1. x \in Nat
  BY Multiples
<1>2. Len(trimmed) \in Nat
  OBVIOUS
<1>3. w = TrimSpace(trimmed, (x + 1)..end)
  BY DEF Window
<1> HIDE DEF x
<1>4. x + size \in Int /\ end = Min({x + size, Len(trimmed)})
  BY <1>1 DEF WindowEnd
<1>5. end \in Int /\ end <= x + size
  BY <1>1, <1>2, <1>4, MinOfTwo
<1> HIDE DEF end, w
<1>6. w \subseteq (x + 1)..end
  BY <1>3 DEF TrimSpace
<1>7. w \subseteq T
  BY <1>1, <1>5, <1>6
<1>8. IsFiniteSet(T) /\ Cardinality(T) = size
  <2>1. x + 1 \in Int /\ x + size \in Int /\ x + 1 <= x + size
        /\ (x + size) - (x + 1) + 1 = size
    BY <1>1
  <2> QED BY <2>1, FS_Interval
<1>9. IsFiniteSet(w) /\ Cardinality(w) <= size
  <2> HIDE DEF T
  <2>1. w \in SUBSET T
    BY <1>7
  <2> QED BY <1>8, <2>1, FS_Subset
<1>10. Cardinality(w) \in Nat
  BY <1>9, FS_CardinalityType
<1> QED BY <1>7, <1>9, <1>10 DEF w, x

\* A window keeps whatever lies in it between two characters that are not
\* blank.
LEMMA WindowKeeps ==
    ASSUME NEW C, NEW trimmed \in Seq(C), NEW size \in Nat \ {0}, NEW step \in Nat,
           NEW k \in Nat, NEW a \in 1..Len(trimmed), NEW b \in 1..Len(trimmed),
           trimmed[a] # Blank, trimmed[b] # Blank,
           a <= b, k * step < a, b <= k * step + size
    PROVE  a..b \subseteq Window(trimmed, size, step, k)
<1> DEFINE x == k * step
           end == WindowEnd(x, size, Len(trimmed))
           ps == (x + 1)..end
<1>1. x \in Nat
  BY Multiples
<1>2. Len(trimmed) \in Nat
  OBVIOUS
<1>3. Window(trimmed, size, step, k)
          = {p \in ps : \E c, d \in {q \in ps : trimmed[q] # Blank} : c <= p /\ p <= d}
  BY DEF Window, TrimSpace
<1>4. x < a /\ b <= x + size
  OBVIOUS
<1> HIDE DEF x
<1>5. end = IF x + size <= Len(trimmed) THEN x + size ELSE Len(trimmed)
  BY <1>1, <1>2, MinOfTwo DEF WindowEnd
<1> HIDE DEF end
<1>6. \A p \in a..b : p \in ps
  BY <1>1, <1>2, <1>4, <1>5
<1>7. a \in a..b /\ b \in a..b
  OBVIOUS
<1>8. a \in {p \in ps : trimmed[p] # Blank} /\ b \in {p \in ps : trimmed[p] # Blank}
  BY <1>6, <1>7
<1> HIDE DEF ps
<1> QED BY <1>3, <1>6, <1>8

\* Of the windows that the loop comes to, one holds any passage that is no
\* longer than what two neighbours share and one character.
LEMMA PassageReached ==
    ASSUME NEW length \in Nat, NEW size \in Nat \ {0}, NEW shared \in 0..(size - 1),
           NEW step, step = size - shared,
           NEW a \in 1..length, NEW b \in 1..length, a <= b, b - a <= shared
    PROVE  \E k \in 0..(length - 1) :
               /\ k = 0 \/ (k - 1) * step + size < length
               /\ k * step < a /\ b <= k * step + size
<1> DEFINE K == {k \in Nat : k * step < a /\ (k = 0 \/ (k - 1) * step + size < length)}
<1>1. step \in Nat \ {0} /\ step + shared = size
  OBVIOUS
<1>2. \A k \in K : k < a
  <2> SUFFICES ASSUME NEW k \in K PROVE k < a
    OBVIOUS
  <2> DEFINE x == k * step
  <2>1. k <= x /\ x < a /\ x \in Nat /\ k \in Nat
    BY <1>1, Multiples
  <2> HIDE DEF x
  <2> QED BY <2>1
<1>3. 0 \in K
  <2>1. 0 * step = 0
    BY <1>1
  <2> QED BY <2>1
<1>4. PICK k \in K : \A m \in K : m <= k
  <2>1. K \subseteq Int /\ K # {}
    BY <1>3
  <2>2. a \in Int /\ \A m \in K : m <= a
    <3>1. a \in Int /\ \A m \in K : m \in Int
      OBVIOUS
    <3> HIDE DEF K
    <3> QED BY <1>2, <3>1
  <2> HIDE DEF K
  <2>3. Max(K) \in K /\ \A m \in K : m <= Max(K)
    BY <2>1, <2>2, MaxIsGreatest
  <2> QED BY <2>3
<1> DEFINE x == k * step
           y == (k + 1) * step
<1>5. x \in Nat /\ y = x + step /\ x < a
  BY <1>1, <1>4, Multiples
<1>6. k \in 0..(length - 1) /\ (k = 0 \/ (k - 1) * step + size < length)
  BY <1>2, <1>4
<1>7. x + size < length => a <= y
  <2> SUFFICES ASSUME x + size < length, y < a PROVE FALSE
    BY <1>1, <1>5
  <2>1. k + 1 \in Nat /\ (k + 1) - 1 = k
    BY <1>4
  <2>2. k + 1 \in K
    BY <2>1
  <2> QED BY <1>4, <2>1, <2>2
<1>8. b <= x + size
  <2> HIDE DEF x, y
  <2> QED BY <1>1, <1>5, <1>7
<1> QED BY <1>5, <1>6, <1>8


\* The windows that become chunks are finitely many, and Ascending lists them.
LEMMA KeptListed ==
    ASSUME NEW C, NEW trimmed \in Seq(C), NEW size, NEW step
    PROVE  /\ Kept(trimmed, size, step) \subseteq Nat
           /\ Cardinality(Kept(trimmed, size, step)) \in Nat
           /\ \A k \in Kept(trimmed, size, step) :
                  \E i \in 1..Cardinality(Kept(trimmed, size, step)) :
                      Ascending(Kept(trimmed, size, step))[i] = k
           /\ \A i \in 1..Cardinality(Kept(trimmed, size, step)) :
                  Ascending(Kept(trimmed, size, step))[i] \in Kept(trimmed, size, step)
<1> DEFINE kept == Kept(trimmed, size, step)
           T == 0..(Len(trimmed) - 1)
<1>1. kept \subseteq T
  BY DEF Kept
<1>2. IsFiniteSet(T)
  BY FS_Interval
<1>3. T \subseteq Nat /\ T \subseteq Int
  OBVIOUS
<1> HIDE DEF kept, T
<1>4. IsFiniteSet(kept)
  BY <1>1, <1>2, FS_Subset
<1>5. kept \subseteq Nat /\ kept \subseteq Int /\ Cardinality(kept) \in Nat
  BY <1>1, <1>3, <1>4, FS_CardinalityType
<1>6. /\ Ascending(kept) \in Seq(kept) /\ Len(Ascending(kept)) = Cardinality(kept)
      /\ \A k \in kept : \E i \in 1..Cardinality(kept) : Ascending(kept)[i] = k
  BY <1>4, <1>5, AscendingLists
<1>7. \A i \in 1..Cardinality(kept) : Ascending(kept)[i] \in kept
  BY <1>6, ElementOfSeq
<1> QED BY <1>5, <1>6, <1>7 DEF kept

\* No chunk is empty or larger than size.
LEMMA ChunksSized ==
    ASSUME NEW C, NEW trimmed \in Seq(C), trimmed # << >>, NEW size \in Nat \ {0},
           NEW step \in Nat, NEW i \in DOMAIN Chunks(trimmed, size, step)
    PROVE  /\ Chunks(trimmed, size, step)[i] # {}
           /\ Cardinality(Chunks(trimmed, size, step)[i]) <= size
<1>1. CASE Len(trimmed) <= size
  <2>1. Chunks(trimmed, size, step) = <<DOMAIN trimmed>>
    BY <1>1 DEF Chunks
  <2>2. Chunks(trimmed, size, step)[i] = 1..Len(trimmed)
    BY <2>1
  <2>3. Len(trimmed) \in Nat \ {0}
    BY EmptySeq
  <2>4. 1 \in 1..Len(trimmed) /\ Len(trimmed) - 1 + 1 = Len(trimmed)
        /\ 1 \in Int /\ Len(trimmed) \in Int /\ ~(1 > Len(trimmed))
    BY <2>3
  <2>5. Cardinality(1..Len(trimmed)) = Len(trimmed)
    BY <2>4, FS_Interval
  <2> QED BY <1>1, <2>2, <2>4, <2>5
<1>2. CASE ~(Len(trimmed) <= size)
  <2> DEFINE kept == Kept(trimmed, size, step)
             k == Ascending(kept)[i]
  <2>1. Chunks(trimmed, size, step)
            = [j \in 1..Cardinality(kept) |-> Window(trimmed, size, step, Ascending(kept)[j])]
    BY <1>2 DEF Chunks
  <2>2. i \in 1..Cardinality(kept)
    BY <2>1
  <2>3. Chunks(trimmed, size, step)[i] = Window(trimmed, size, step, k)
    BY <2>1, <2>2
  <2>4. k \in kept /\ k \in Nat
    BY <2>2, KeptListed
  <2>5. Window(trimmed, size, step, k) # {}
    BY <2>4 DEF Kept
  <2> HIDE DEF k
  <2>6. Cardinality(Window(trimmed, size, step, k)) <= size
    BY <2>4, WindowSize
  <2> QED BY <2>3, <2>5, <2>6
<1> QED BY <1>1, <1>2

\* A chunk holds any passage, from one character that is not blank to another,
\* that is no longer than what two neighbours share and one character.
LEMMA PassageWhole ==
    ASSUME NEW C, NEW trimmed \in Seq(C), NEW size \in Nat \ {0},
           NEW shared \in 0..(size - 1), NEW step, step = size - shared,
           NEW a \in 1..Len(trimmed), NEW b \in 1..Len(trimmed),
           trimmed[a] # Blank, trimmed[b] # Blank, a <= b, b - a <= shared
    PROVE  \E i \in DOMAIN Chunks(trimmed, size, step) :
               a..b \subseteq Chunks(trimmed, size, step)[i]
<1> DEFINE length == Len(trimmed)
<1>0. length \in Nat /\ step \in Nat
  OBVIOUS
<1>1. CASE length <= size
  <2>1. Chunks(trimmed, size, step) = <<DOMAIN trimmed>>
    BY <1>1 DEF Chunks
  <2>2. Chunks(trimmed, size, step)[1] = 1..length /\ 1 \in DOMAIN Chunks(trimmed, size, step)
    BY <2>1
  <2>3. a..b \subseteq 1..length
    BY <1>0
  <2> QED BY <2>2, <2>3
<1>2. CASE ~(length <= size)
  <2> DEFINE kept == Kept(trimmed, size, step)
  <2>1. PICK k \in 0..(length - 1) :
            /\ k = 0 \/ (k - 1) * step + size < length
            /\ k * step < a /\ b <= k * step + size
    BY <1>0, PassageReached
  <2>2. k \in Nat
    BY <1>0
  <2>3. a..b \subseteq Window(trimmed, size, step, k)
    BY <1>0, <2>1, <2>2, WindowKeeps
  <2>4. Window(trimmed, size, step, k) # {}
    <3>1. a \in a..b
      OBVIOUS
    <3> QED BY <2>3, <3>1
  <2>5. k = 0 \/ WindowEnd((k - 1) * step, size, length) < length
    <3> SUFFICES ASSUME k # 0 PROVE WindowEnd((k - 1) * step, size, length) < length
      OBVIOUS
    <3> DEFINE x == (k - 1) * step
    <3>1. k - 1 \in Nat
      BY <2>2
    <3>2. x \in Nat /\ x + size < length
      BY <1>0, <2>1, <3>1, Multiples
    <3> HIDE DEF x
    <3>3. x + size \in Int /\ WindowEnd(x, size, length) = Min({x + size, length})
      BY <3>2 DEF WindowEnd
    <3>4. WindowEnd(x, size, length) = x + size
      BY <1>0, <3>2, <3>3, MinOfTwo
    <3> QED BY <3>2, <3>4 DEF x
  <2>6. k \in kept
    BY <2>1, <2>4, <2>5 DEF Kept
  <2>7. PICK i \in 1..Cardinality(kept) : Ascending(kept)[i] = k
    BY <2>6, KeptListed
  <2>8. Chunks(trimmed, size, step)
            = [j \in 1..Cardinality(kept) |-> Window(trimmed, size, step, Ascending(kept)[j])]
    BY <1>2 DEF Chunks
  <2>9. i \in DOMAIN Chunks(trimmed, size, step)
        /\ Chunks(trimmed, size, step)[i] = Window(trimmed, size, step, k)
    BY <2>7, <2>8
  <2> QED BY <2>3, <2>9
<1> QED BY <1>1, <1>2

\* Every cut of a text, with any chunk size and any overlap.
ChunkCall ==
    call.what = "chunk" => /\ call.text \in Seq({"x", Blank})
                           /\ call.chunkSize \in Int /\ call.overlap \in Int

\* No passage of a text is lost or torn, however ChunkText is called.
THEOREM PassagesHold ==
    ASSUME ChunkCall
    PROVE  PassagesUnsplit
<1> SUFFICES ASSUME call.what = "chunk" PROVE PassagesUnsplit
  BY DEF PassagesUnsplit
<1> DEFINE text == call.text
           chunks == ChunkText(text, call.chunkSize, call.overlap)
           black == Black(text)
           lo == Min(black)
           length == IF black = {} THEN 0 ELSE Max(black) - lo + 1
           size == ChunkSize(call.chunkSize)
           shared == IF call.overlap \in 0..(size - 1) THEN call.overlap
                     ELSE IF DefaultOverlap < size THEN DefaultOverlap ELSE 0
           step == Step(size, Overlap(size, call.overlap))
           C == {"x", Blank}
<1>1. text \in Seq(C) /\ call.chunkSize \in Int /\ call.overlap \in Int
  BY DEF ChunkCall
<1>2. size \in Nat \ {0} /\ shared \in 0..(size - 1) /\ step = size - shared
  BY <1>1, StepShared
<1>3. /\ black = {} => chunks = << >>
      /\ black # {} => chunks = Chunks(Trimmed(text), size, step)
  BY <1>1, ChunksOfText
<1>4. black # {} => /\ Trimmed(text) \in Seq(C)
                    /\ Len(Trimmed(text)) = length
                    /\ \A i \in 1..length : Trimmed(text)[i] = text[lo + i - 1]
  BY <1>1, TrimmedText
<1>5. black # {} => lo \in Nat \ {0} /\ length \in Nat \ {0}
  <2>1. black # {} => /\ lo \in Nat \ {0} /\ Max(black) \in Nat /\ lo <= Max(black)
    BY <1>1, BlackEnds
  <2> HIDE DEF black, lo
  <2> QED BY <2>1
<1>6. PassagesUnsplit <=>
          /\ \A i \in DOMAIN chunks : chunks[i] # {} /\ Cardinality(chunks[i]) <= size
          /\ \A a, b \in 1..length :
                 /\ {a + lo - 1, b + lo - 1} \subseteq black
                 /\ a <= b /\ b - a <= shared
                 => \E i \in DOMAIN chunks : a..b \subseteq chunks[i]
  BY DEF PassagesUnsplit, Black
<1> HIDE DEF text, chunks, lo, length, size, shared, step, C
<1>7. ASSUME NEW i \in DOMAIN chunks
      PROVE  chunks[i] # {} /\ Cardinality(chunks[i]) <= size
  <2>1. black # {}
    BY <1>3
  <2>2. Trimmed(text) # << >> /\ Trimmed(text) \in Seq(C)
    BY <1>4, <1>5, <2>1
  <2>3. step \in Nat
    BY <1>2
  <2>4. i \in DOMAIN Chunks(Trimmed(text), size, step)
    BY <1>3, <2>1
  <2>5. /\ Chunks(Trimmed(text), size, step)[i] # {}
        /\ Cardinality(Chunks(Trimmed(text), size, step)[i]) <= size
    BY <1>2, <2>2, <2>3, <2>4, ChunksSized
  <2> QED BY <1>3, <2>1, <2>5
<1>8. ASSUME NEW a \in 1..length, NEW b \in 1..length,
             {a + lo - 1, b + lo - 1} \subseteq black, a <= b, b - a <= shared
      PROVE  \E i \in DOMAIN chunks : a..b \subseteq chunks[i]
  <2>1. black # {}
    BY <1>8
  <2>2. Trimmed(text) \in Seq(C) /\ Len(Trimmed(text)) = length
        /\ Trimmed(text)[a] = text[lo + a - 1] /\ Trimmed(text)[b] = text[lo + b - 1]
    BY <1>4, <2>1
  <2>3. lo + a - 1 = a + lo - 1 /\ lo + b - 1 = b + lo - 1
    BY <1>5, <2>1
  <2>4. Trimmed(text)[a] # Blank /\ Trimmed(text)[b] # Blank
    BY <1>8, <2>2, <2>3 DEF Black
  <2>5. \E i \in DOMAIN Chunks(Trimmed(text), size, step) :
            a..b \subseteq Chunks(Trimmed(text), size, step)[i]
    BY <1>2, <1>8, <2>2, <2>4, PassageWhole
  <2> QED BY <1>3, <2>1, <2>5
<1> QED BY <1>6, <1>7, <1>8

-----------------------------------------------------------------------------
(* The sample of a document's first chunks.                                *)

\* Something of a kind is counted, and everything if all is of these kinds.
LEMMA Counted ==
    ASSUME NEW C, NEW text \in Seq(C), NEW kinds
    PROVE  /\ Count(text, kinds) \in Nat
           /\ Count(text, kinds) > 0 <=> \E p \in 1..Len(text) : text[p] \in kinds
           /\ C \subseteq kinds => Count(text, kinds) = Len(text)
<1> DEFINE some == {p \in DOMAIN text : text[p] \in kinds}
           length == Len(text)
<1>1. length \in Nat /\ DOMAIN text = 1..length
  OBVIOUS
<1>2. IsFiniteSet(1..length) /\ Cardinality(1..length) = length
  <2>1. 1 \in Int /\ length \in Int /\ (IF 1 > length THEN 0 ELSE length - 1 + 1) = length
    BY <1>1
  <2> QED BY <2>1, FS_Interval
<1>3. some \subseteq 1..length
  BY <1>1
<1> HIDE DEF length
<1>4. IsFiniteSet(some)
  <2> HIDE DEF some
  <2> QED BY <1>2, <1>3, FS_Subset
<1>5. Cardinality(some) \in Nat /\ (Cardinality(some) = 0 <=> some = {})
  <2> HIDE DEF some
  <2> QED BY <1>4, FS_CardinalityType, FS_EmptySet
<1>6. C \subseteq kinds => some = 1..length
  <2>1. \A p \in 1..length : text[p] \in C
    BY <1>1, ElementOfSeq DEF length
  <2> QED BY <1>1, <2>1
<1>7. some = {} <=> ~\E p \in 1..length : text[p] \in kinds
  BY <1>1
<1>8. Count(text, kinds) = Cardinality(some)
  BY DEF Count
<1> HIDE DEF some
<1>9. Count(text, kinds) \in Nat
  BY <1>5, <1>8
<1>10. Count(text, kinds) > 0 <=> \E p \in 1..length : text[p] \in kinds
  <2>1. Count(text, kinds) > 0 <=> Count(text, kinds) # 0
    BY <1>9
  <2> QED BY <1>5, <1>7, <1>8, <2>1
<1>11. C \subseteq kinds => Count(text, kinds) = length
  BY <1>2, <1>6, <1>8
<1> QED BY <1>9, <1>10, <1>11 DEF length

\* A text that begins as another does.
Begins(first, text) ==
    /\ Len(first) <= Len(text)
    /\ \A p \in 1..Len(first) : text[p] = first[p]

\* The sample consists of what the chunks consist of and blanks, and it begins
\* with the first chunk.
LEMMA SampleOf ==
    ASSUME NEW D, Blank \in D, NEW chunks \in Seq(Seq(D)), chunks # << >>
    PROVE  /\ Sample(chunks) \in Seq(D) /\ Begins(chunks[1], Sample(chunks))
           /\ Len(chunks) = 1 => Sample(chunks) = chunks[1]
<1> DEFINE k == Min({SampleChunks, Len(chunks)})
           parts == [i \in 1..k |-> IF i = 1 THEN chunks[i] ELSE <<Blank>> \o chunks[i]]
<1>1. Len(chunks) \in Nat \ {0} /\ SampleChunks \in Nat \ {0}
  BY EmptySeq, IngestAssumption
<1>2. k \in Nat \ {0} /\ k <= Len(chunks) /\ (Len(chunks) = 1 => k = 1)
  <2>1. k = IF SampleChunks <= Len(chunks) THEN SampleChunks ELSE Len(chunks)
    BY <1>1, MinOfTwo
  <2> DEFINE n == Len(chunks)
  <2> HIDE DEF k, n
  <2>2. n \in Nat \ {0} /\ k = IF SampleChunks <= n THEN SampleChunks ELSE n
    BY <1>1, <2>1 DEF n
  <2>3. k \in Nat \ {0} /\ k <= n /\ (n = 1 => k = 1)
    BY <1>1, <2>2
  <2> QED BY <2>3 DEF n
<1>3. Sample(chunks) = FlattenSeq(parts)
  BY DEF Sample
<1> HIDE DEF k
<1>4. Len(parts) = k
  BY <1>2
<1>5. \A i \in 1..k : chunks[i] \in Seq(D)
  <2>1. \A i \in 1..k : i \in 1..Len(chunks)
    BY <1>1, <1>2
  <2> QED BY <2>1, ElementOfSeq
<1>6. /\ 1 \in 1..k /\ parts[1] = chunks[1]
      /\ \A i \in 2..k : i \in 1..k /\ parts[i] = <<Blank>> \o chunks[i]
  <2>1. 1 \in 1..k /\ \A i \in 2..k : i \in 1..k /\ i # 1
    BY <1>2
  <2> QED BY <2>1
<1> HIDE DEF parts
<1>7. PICK f : /\ f[1] = parts[1]
               /\ \A i \in 2..k : f[i] = f[i - 1] \o parts[i]
               /\ FlattenSeq(parts) = f[k]
  BY <1>2, <1>4, FlattenDef
<1> DEFINE T == {n \in Nat : n + 1 \in 1..k => f[n + 1] \in Seq(D) /\ Begins(chunks[1], f[n + 1])}
<1>8. 0 \in T
  <2>1. 0 + 1 = 1 /\ f[1] = chunks[1] /\ chunks[1] \in Seq(D)
    BY <1>5, <1>6, <1>7
  <2>2. Begins(chunks[1], chunks[1])
    <3>1. Len(chunks[1]) \in Nat
      BY <2>1
    <3> QED BY <3>1 DEF Begins
  <2> QED BY <2>1, <2>2
<1>9. ASSUME NEW n \in Nat, n \in T PROVE n + 1 \in T
  <2> SUFFICES ASSUME (n + 1) + 1 \in 1..k
               PROVE  f[(n + 1) + 1] \in Seq(D) /\ Begins(chunks[1], f[(n + 1) + 1])
    BY <1>9
  <2>1. n + 1 \in 1..k /\ (n + 1) + 1 \in 2..k /\ ((n + 1) + 1) - 1 = n + 1
    BY <1>2
  <2> DEFINE so == f[n + 1]
             more == chunks[(n + 1) + 1]
             all == f[(n + 1) + 1]
             first == chunks[1]
  <2>2. so \in Seq(D) /\ Begins(first, so)
    BY <1>9, <2>1
  <2>3. more \in Seq(D) /\ first \in Seq(D)
    BY <1>5, <1>6
  <2>4. all = so \o (<<Blank>> \o more)
    BY <1>6, <1>7, <2>1
  <2> HIDE DEF so, more, all, first
  <2>5. <<Blank>> \in Seq(D)
    OBVIOUS
  <2>6. <<Blank>> \o more \in Seq(D)
    BY <2>3, <2>5
  <2>7. all \in Seq(D) /\ Len(all) >= Len(so) /\ \A p \in 1..Len(so) : all[p] = so[p]
    BY <2>2, <2>4, <2>6
  <2>8. Len(first) \in Nat /\ Len(so) \in Nat /\ Len(all) \in Nat
    BY <2>2, <2>3, <2>7
  <2>9. Begins(first, all)
    BY <2>2, <2>7, <2>8 DEF Begins
  <2> QED BY <2>7, <2>9 DEF all, first
<1>10. Nat \subseteq T
  BY <1>8, <1>9, SetInduction
<1>11. f[k] \in Seq(D) /\ Begins(chunks[1], f[k])
  <2>1. k - 1 \in Nat /\ (k - 1) + 1 = k /\ k \in 1..k
    BY <1>2
  <2>2. k - 1 \in T
    BY <1>10, <2>1
  <2> QED BY <2>1, <2>2
<1>12. Len(chunks) = 1 => f[k] = chunks[1]
  BY <1>2, <1>6, <1>7
<1> QED BY <1>3, <1>7, <1>11, <1>12

-----------------------------------------------------------------------------
(* The chunks of an extracted text.                                        *)

\* What an extractor finds, as the Python service normalises it.
Kinds == {"letter", "mark", "common", "rare", "other", Blank}
Normalised(text) ==
    /\ text # << >> /\ text[1] # Blank /\ text[Len(text)] # Blank
    /\ \A i \in 2..Len(text) : text[i - 1] # Blank \/ text[i] # Blank

\* A normalised text is its own trimmed text.
LEMMA NormalTrimmed ==
    ASSUME NEW C, NEW text \in Seq(C), Normalised(text)
    PROVE  Black(text) # {} /\ Trimmed(text) = text
<1>1. Len(text) \in Nat \ {0} /\ DOMAIN text = 1..Len(text)
  BY EmptySeq DEF Normalised
<1>2. 1 \in Black(text) /\ Len(text) \in Black(text) /\ Black(text) \subseteq 1..Len(text)
  BY <1>1 DEF Normalised, Black
<1>3. /\ Min(Black(text)) \in Nat \ {0} /\ Max(Black(text)) \in Nat
      /\ Min(Black(text)) <= 1 /\ Len(text) <= Max(Black(text))
      /\ Max(Black(text)) <= Len(text)
  BY <1>2, BlackEnds
<1>4. Min(Black(text)) = 1 /\ Max(Black(text)) = Len(text)
  BY <1>1, <1>3
<1>5. SubSeq(text, 1, Len(text)) = text
  BY SubSeqFull
<1> QED BY <1>2, <1>4, <1>5 DEF Trimmed

\* The first window of a text longer than a chunk: its first character is in
\* it, and one of its last two.
LEMMA FirstWindow ==
    ASSUME NEW C, NEW text \in Seq(C), Normalised(text), NEW size \in Nat,
           1 < size, size < Len(text), NEW step \in Nat
    PROVE  /\ Window(text, size, step, 0) \subseteq 1..size
           /\ 1 \in Window(text, size, step, 0)
           /\ Max(Window(text, size, step, 0)) \in Window(text, size, step, 0)
           /\ Max(Window(text, size, step, 0)) >= size - 1
<1> DEFINE w == Window(text, size, step, 0)
           b == IF text[size] = Blank THEN size - 1 ELSE size
<1>1. 0 * step = 0 /\ 0 \in Nat /\ 0 + 1 = 1 /\ 0 + size = size /\ size \in Nat \ {0}
  OBVIOUS
<1>2. w \subseteq 1..size
  BY <1>1, WindowSize
<1>3. /\ b \in 1..Len(text) /\ 1 \in 1..Len(text) /\ 1 <= b /\ b <= size /\ b >= size - 1
      /\ b \in Int /\ size \in 2..Len(text)
  OBVIOUS
<1>4. text[b] # Blank /\ text[1] # Blank
  BY <1>3 DEF Normalised
<1> HIDE DEF b
<1>5. 1..b \subseteq w
  <2>1. 0 * step < 1 /\ b <= 0 * step + size
    BY <1>1, <1>3
  <2> HIDE DEF w
  <2> QED BY <1>1, <1>3, <1>4, <2>1, WindowKeeps DEF w
<1>6. 1 \in w /\ b \in w
  <2>1. 1 \in 1..b /\ b \in 1..b
    BY <1>3
  <2> HIDE DEF w
  <2> QED BY <1>5, <2>1
<1> HIDE DEF w
<1>7. w \subseteq Int /\ w # {} /\ \A x \in w : x <= size
  BY <1>2, <1>6
<1>8. Max(w) \in w /\ \A x \in w : x <= Max(w)
  <2>1. size \in Int
    OBVIOUS
  <2> QED BY <1>7, <2>1, MaxIsGreatest
<1>9. Max(w) >= size - 1
  <2>1. b <= Max(w) /\ Max(w) \in Int
    BY <1>6, <1>7, <1>8
  <2> QED BY <1>3, <2>1
<1> QED BY <1>2, <1>6, <1>8, <1>9 DEF w

\* Of a sequence of chunks the first is the first window.
LEMMA FirstKept ==
    ASSUME NEW C, NEW text \in Seq(C), NEW size, NEW step,
           ~(Len(text) <= size), Window(text, size, step, 0) # {}, text # << >>
    PROVE  /\ 1 \in DOMAIN Chunks(text, size, step)
           /\ Chunks(text, size, step)[1] = Window(text, size, step, 0)
<1> DEFINE kept == Kept(text, size, step)
           n == Cardinality(kept)
<1>1. 0 \in kept
  <2>1. Len(text) \in Nat \ {0}
    BY EmptySeq
  <2>2. 0 \in 0..(Len(text) - 1)
    BY <2>1
  <2> QED BY <2>2 DEF Kept
<1>2. kept \subseteq Nat /\ kept \subseteq Int /\ IsFiniteSet(kept)
  <2>1. kept \subseteq 0..(Len(text) - 1)
    BY DEF Kept
  <2>2. IsFiniteSet(0..(Len(text) - 1))
    BY FS_Interval
  <2>3. 0..(Len(text) - 1) \subseteq Nat /\ Nat \subseteq Int
    OBVIOUS
  <2> HIDE DEF kept
  <2> QED BY <2>1, <2>2, <2>3, FS_Subset
<1> HIDE DEF kept
<1>3. n \in Nat
  BY <1>2, FS_CardinalityType
<1>4. /\ Ascending(kept) \in Seq(kept) /\ Len(Ascending(kept)) = n
      /\ \A k \in kept : \E i \in 1..n : Ascending(kept)[i] = k
      /\ \A i, j \in 1..n : i < j => Ascending(kept)[i] < Ascending(kept)[j]
  BY <1>2, AscendingLists
<1>5. PICK i \in 1..n : Ascending(kept)[i] = 0
  BY <1>1, <1>4
<1> HIDE DEF n
<1>6. 1 \in 1..n /\ (i = 1 \/ 1 < i)
  BY <1>3, <1>5
<1>7. Ascending(kept)[1] \in Nat
  BY <1>2, <1>4, <1>6, ElementOfSeq
<1>8. Ascending(kept)[1] = 0
  BY <1>4, <1>5, <1>6, <1>7
<1>9. Chunks(text, size, step)
          = [j \in 1..n |-> Window(text, size, step, Ascending(kept)[j])]
  BY DEF Chunks, kept, n
<1> QED BY <1>6, <1>8, <1>9

\* The part of a text that a window holds.
Content(text, w) == SubSeq(text, Min(w), Max(w))

\* What a window holds of a text is made of the text's characters, and starts
\* with the first one if that is in it.
LEMMA WindowContent ==
    ASSUME NEW C, NEW text \in Seq(C), NEW w, w \subseteq 1..Len(text), w # {}
    PROVE  /\ Content(text, w) \in Seq(C)
           /\ 1 \in w => Len(Content(text, w)) = Max(w)
<1> DEFINE lo == Min(w)
           hi == Max(w)
           length == Len(text)
<1>0. length \in Nat
  OBVIOUS
<1> HIDE DEF length
<1>1. w \subseteq 1..length /\ w \subseteq Nat /\ w \subseteq Int /\ \A x \in w : x <= length
  <2>1. w \subseteq 1..length
    BY DEF length
  <2> QED BY <1>0, <2>1
<1>2. lo \in w /\ \A x \in w : lo <= x
  BY <1>1, MinIsLeast
<1>3. hi \in w /\ \A x \in w : x <= hi
  <2>1. length \in Int
    BY <1>0
  <2>2. w \subseteq Int /\ \A x \in w : x <= length
    BY <1>1
  <2> HIDE DEF lo
  <2> QED BY <2>1, <2>2, MaxIsGreatest
<1> HIDE DEF lo, hi
<1>4. lo \in 1..length /\ hi \in 1..length /\ lo <= hi
  BY <1>1, <1>2, <1>3
<1>5. lo \in Int /\ hi \in Int /\ \A i \in lo..hi : text[i] \in C
  <2>1. \A i \in lo..hi : i \in 1..length
    BY <1>0, <1>4
  <2> QED BY <1>4, <2>1, ElementOfSeq DEF length
<1>6. /\ SubSeq(text, lo, hi) \in Seq(C)
      /\ Len(SubSeq(text, lo, hi)) = IF lo <= hi THEN hi - lo + 1 ELSE 0
  BY <1>5, SubSeqProperties
<1>7. 1 \in w => lo = 1
  BY <1>2, <1>4
<1>8. 1 \in w => Len(SubSeq(text, lo, hi)) = hi
  BY <1>4, <1>6, <1>7
<1> QED BY <1>6, <1>8 DEF Content, lo, hi

\* A window lies in the text.
LEMMA WindowInText ==
    ASSUME NEW C, NEW text \in Seq(C), NEW size \in Nat, NEW step \in Nat, NEW k \in Nat
    PROVE  Window(text, size, step, k) \subseteq 1..Len(text)
<1> DEFINE x == k * step
           end == WindowEnd(x, size, Len(text))
<1>1. x \in Nat /\ Len(text) \in Nat
  BY Multiples
<1>2. Window(text, size, step, k) \subseteq (x + 1)..end
  BY DEF Window, TrimSpace
<1> HIDE DEF x
<1>3. x + size \in Int /\ end = Min({x + size, Len(text)})
  BY <1>1 DEF WindowEnd
<1>4. end \in Int /\ end <= Len(text)
  BY <1>1, <1>3, MinOfTwo
<1> HIDE DEF end
<1>5. (x + 1)..end \subseteq 1..Len(text)
  BY <1>1, <1>4
<1> QED BY <1>2, <1>5

\* The chunks of a text are made of its characters; a short text is its only
\* chunk, and the first chunk of a longer one lacks at most one character.
LEMMA ChunksBuilt ==
    ASSUME NEW C, NEW text \in Seq(C), Normalised(text)
    PROVE  /\ BuildChunks(text) \in Seq(Seq(C)) /\ BuildChunks(text) # << >>
           /\ Len(text) <= ChunkRunes => BuildChunks(text) = <<text>>
           /\ ~(Len(text) <= ChunkRunes) => Len(BuildChunks(text)[1]) >= ChunkRunes - 1
<1> DEFINE size == ChunkRunes
           step == ChunkRunes - ChunkOverlap
           length == Len(text)
           windows == ChunkText(text, ChunkRunes, ChunkOverlap)
<1>1. size \in Nat /\ 1 < size /\ step \in Nat /\ size \in Nat \ {0}
  BY IngestAssumption
<1>2. length \in Nat \ {0}
  BY EmptySeq DEF Normalised
<1>3. windows = Chunks(text, size, step)
  <2>1. ChunkSize(ChunkRunes) = ChunkRunes
    BY IngestAssumption DEF ChunkSize
  <2>2. Overlap(ChunkRunes, ChunkOverlap) = ChunkOverlap
    BY IngestAssumption DEF Overlap
  <2>3. Step(ChunkRunes, ChunkOverlap) = step
    BY IngestAssumption DEF Step
  <2>4. Black(text) # {} /\ Trimmed(text) = text
    BY NormalTrimmed
  <2>5. windows = Chunks(Trimmed(text), ChunkSize(ChunkRunes),
                         Step(ChunkSize(ChunkRunes), Overlap(ChunkSize(ChunkRunes), ChunkOverlap)))
    <3> HIDE DEF windows
    <3> QED BY <2>4, ChunksOfText DEF windows
  <2> QED BY <2>1, <2>2, <2>3, <2>4, <2>5
<1>4. BuildChunks(text) = [i \in DOMAIN windows |-> Content(text, windows[i])]
  BY DEF BuildChunks, Content
<1> HIDE DEF windows, size, step
<1>5. CASE length <= size
  <2>1. windows = <<DOMAIN text>> /\ DOMAIN text = 1..length
    BY <1>3, <1>5 DEF Chunks
  <2>2. DOMAIN windows = 1..1 /\ windows[1] = 1..length
    BY <2>1
  <2>3. Content(text, 1..length) = text
    <3>1. Min(1..length) = 1 /\ Max(1..length) = length
      BY <1>2, EndsOfInterval
    <3>2. SubSeq(text, 1, length) = text
      BY SubSeqFull
    <3> QED BY <3>1, <3>2 DEF Content
  <2>4. BuildChunks(text) = [i \in 1..1 |-> text]
    BY <1>4, <2>2, <2>3
  <2>5. BuildChunks(text) = <<text>>
    BY <2>4
  <2>6. <<text>> \in Seq(Seq(C)) /\ <<text>> # << >>
    OBVIOUS
  <2> QED BY <1>5, <2>5, <2>6 DEF size
<1>6. CASE ~(length <= size)
  <2> DEFINE kept == Kept(text, size, step)
             n == Cardinality(kept)
             first == Window(text, size, step, 0)
  <2>1. /\ first \subseteq 1..size /\ 1 \in first /\ Max(first) \in first
        /\ Max(first) >= size - 1
    <3>1. size < length
      BY <1>1, <1>2, <1>6
    <3> QED BY <1>1, <3>1, FirstWindow
  <2>2. windows = [j \in 1..n |-> Window(text, size, step, Ascending(kept)[j])]
    BY <1>3, <1>6 DEF Chunks
  <2>3. n \in Nat /\ kept \subseteq Nat /\ \A j \in 1..n : Ascending(kept)[j] \in kept
    BY KeptListed
  <2>4. 1 \in DOMAIN windows /\ windows[1] = first
    <3>1. first # {} /\ text # << >>
      BY <2>1 DEF Normalised
    <3> HIDE DEF first
    <3> QED BY <1>3, <1>6, <3>1, FirstKept DEF first
  <2>5. \A j \in 1..n : windows[j] \subseteq 1..length /\ windows[j] # {}
    <3> SUFFICES ASSUME NEW j \in 1..n
                 PROVE  windows[j] \subseteq 1..length /\ windows[j] # {}
      OBVIOUS
    <3> DEFINE k == Ascending(kept)[j]
    <3>1. k \in kept /\ k \in Nat
      BY <2>3
    <3>2. windows[j] = Window(text, size, step, k)
      BY <2>2
    <3>3. Window(text, size, step, k) # {}
      BY <3>1 DEF Kept
    <3> HIDE DEF k
    <3>4. Window(text, size, step, k) \subseteq 1..length
      BY <1>1, <3>1, WindowInText
    <3> QED BY <3>2, <3>3, <3>4
  <2>6. DOMAIN windows = 1..n
    BY <2>2
  <2> HIDE DEF n, first
  <2>7. \A j \in 1..n : Content(text, windows[j]) \in Seq(C)
    BY <2>5, WindowContent
  <2>8. BuildChunks(text) \in [1..n -> Seq(C)]
    BY <1>4, <2>6, <2>7
  <2>9. BuildChunks(text) \in Seq(Seq(C)) /\ BuildChunks(text) # << >>
    <3>1. 1 \in 1..n
      BY <2>4, <2>6
    <3>2. BuildChunks(text) \in Seq(Seq(C)) /\ Len(BuildChunks(text)) = n
      BY <2>3, <2>8, SeqDef
    <3> QED BY <2>3, <3>1, <3>2
  <2>10. Len(BuildChunks(text)[1]) >= ChunkRunes - 1
    <3>1. BuildChunks(text)[1] = Content(text, first)
      BY <1>4, <2>4
    <3>2. first \subseteq 1..length /\ first # {} /\ 1 \in first
      BY <2>1, <2>4, <2>5, <2>6
    <3>3. Len(Content(text, first)) = Max(first)
      BY <3>2, WindowContent
    <3> QED BY <2>1, <3>1, <3>3 DEF size
  <2> QED BY <1>6, <2>9, <2>10 DEF size
<1> QED BY <1>5, <1>6 DEF size

\* Every extracted text that is normalised, of a PDF or not.
IngestCall ==
    call.what = "ingest" => /\ call.text \in Seq(Kinds) /\ Normalised(call.text)
                            /\ call.isPDF \in BOOLEAN

\* A sample without anything odd, long enough, is no reason for a repair.
LEMMA PlainSample ==
    ASSUME NEW sample \in Seq({"letter", "common", Blank}), Len(sample) >= MinReadable
    PROVE  /\ ~(Count(sample, {"mark"}) > 0) /\ ~LooksLikeCorruptedPDFText(sample)
           /\ IsReadableText(sample)
<1> DEFINE C == {"letter", "common", Blank}
           han == Count(sample, {"common", "rare"})
           common == Count(sample, {"common"})
           length == Len(sample)
<1>1. length \in Nat \ {0} /\ MinReadable \in Nat \ {0} /\ MinHan \in Nat \ {0}
      /\ \A p \in 1..length : sample[p] \in C
  BY IngestAssumption
<1>2. ~(Count(sample, {"mark"}) > 0)
  <2>1. Count(sample, {"mark"}) > 0 <=> \E p \in 1..Len(sample) : sample[p] \in {"mark"}
    BY Counted
  <2> QED BY <1>1, <2>1 DEF Blank
<1>3. ~LooksLikeCorruptedPDFText(sample)
  <2>1. han = common
    <3>1. {p \in DOMAIN sample : sample[p] \in {"common", "rare"}}
              = {p \in DOMAIN sample : sample[p] \in {"common"}}
      <4>1. \A p \in DOMAIN sample : sample[p] \in C
        BY <1>1
      <4>2. \A c \in C : c \in {"common", "rare"} <=> c \in {"common"}
        BY DEF Blank
      <4> HIDE DEF C
      <4> QED BY <4>1, <4>2
    <3> QED BY <3>1 DEF Count
  <2>2. common \in Nat
    BY Counted
  <2>3. sample # << >>
    BY <1>1
  <2>4. LooksLikeCorruptedPDFText(sample) <=>
            sample = << >> \/ (han >= MinHan /\ 100 * common < 8 * han)
    BY DEF LooksLikeCorruptedPDFText
  <2> HIDE DEF han, common
  <2>5. ~(han >= MinHan /\ 100 * common < 8 * han)
    BY <1>1, <2>1, <2>2
  <2> QED BY <2>3, <2>4, <2>5
<1>4. IsReadableText(sample)
  <2>1. C \subseteq Readable
    BY DEF Readable
  <2>2. Count(sample, Readable) = length
    BY <2>1, Counted
  <2> HIDE DEF length
  <2>3. 100 * length >= 45 * length
    BY <1>1
  <2> QED BY <2>2, <2>3 DEF IsReadableText, length
<1> QED BY <1>2, <1>3, <1>4

\* A document just cut from an accepted text is repaired only if it is a PDF whose
\* text has a character that is not counted as readable, a Han character that is
\* not common, or one of a PDF's own keywords.
THEOREM RepairHolds ==
    ASSUME IngestCall
    PROVE  RepairSettles
<1> SUFFICES ASSUME call.what = "ingest", Extracts(call.isPDF, call.text)
             PROVE  RepairSettles
  BY DEF RepairSettles
<1> DEFINE text == call.text
           isPDF == call.isPDF
           chunks == BuildChunks(text)
           again == ShouldRepairChunks(isPDF, chunks)
           odd == Count(text, {"mark", "other", "rare"}) > 0
           sample == Sample(chunks)
           Plain == {"letter", "common", Blank}
<1>1. text \in Seq(Kinds) /\ Normalised(text)
  BY DEF IngestCall
<1>2. RepairSettles <=>
          /\ chunks # << >>
          /\ again => isPDF /\ odd
          /\ again /\ Len(text) <= ChunkRunes =>
                 "mark" \in Range(text) \/ LooksLikeCorruptedPDFText(text)
          /\ isPDF /\ "mark" \in Range(chunks[1]) => again
  BY DEF RepairSettles
<1>3. again <=> \/ chunks = << >>
                \/ isPDF /\ \/ Count(sample, {"mark"}) > 0
                            \/ LooksLikeCorruptedPDFText(sample)
                            \/ ~IsReadableText(sample)
  BY DEF ShouldRepairChunks
<1>4. isPDF => IsReadableText(text)
  BY DEF Extracts
<1> HIDE DEF text, isPDF, chunks, again, odd, sample
<1>5. /\ chunks \in Seq(Seq(Kinds)) /\ chunks # << >>
      /\ Len(text) <= ChunkRunes => chunks = <<text>>
      /\ ~(Len(text) <= ChunkRunes) => Len(chunks[1]) >= ChunkRunes - 1
  BY <1>1, ChunksBuilt DEF chunks
<1>6. /\ sample \in Seq(Kinds) /\ Begins(chunks[1], sample)
      /\ Len(chunks) = 1 => sample = chunks[1]
  <2>1. Blank \in Kinds
    BY DEF Kinds
  <2> QED BY <1>5, <2>1, SampleOf DEF sample
<1>7. Len(text) <= ChunkRunes => sample = text
  <2>1. Len(<<text>>) = 1 /\ <<text>>[1] = text
    OBVIOUS
  <2> QED BY <1>5, <1>6, <2>1
<1>8. chunks[1] \in Seq(Kinds) /\ Len(sample) \in Nat
  <2>1. Len(chunks) \in Nat \ {0}
    BY <1>5, EmptySeq
  <2>2. 1 \in 1..Len(chunks)
    BY <2>1
  <2> QED BY <1>5, <1>6, <2>2, ElementOfSeq
<1>9. ASSUME isPDF PROVE Len(sample) >= MinReadable
  <2>1. CASE Len(text) <= ChunkRunes
    BY <1>4, <1>7, <1>9, <2>1 DEF IsReadableText
  <2>2. CASE ~(Len(text) <= ChunkRunes)
    <3> DEFINE m == Len(chunks[1])
    <3>1. m \in Nat /\ m >= ChunkRunes - 1 /\ m <= Len(sample)
      BY <1>5, <1>6, <1>8, <2>2 DEF Begins
    <3> HIDE DEF m
    <3>2. MinReadable \in Nat /\ ChunkRunes \in Nat /\ MinReadable < ChunkRunes
      BY IngestAssumption
    <3> QED BY <1>8, <3>1, <3>2
  <2> QED BY <2>1, <2>2
<1>10. ASSUME ~odd PROVE text \in Seq(Plain)
  <2>1. Count(text, {"mark", "other", "rare"}) > 0
            <=> \E p \in 1..Len(text) : text[p] \in {"mark", "other", "rare"}
    BY <1>1, Counted
  <2>2. \A p \in 1..Len(text) : text[p] \in Kinds
    BY <1>1, ElementOfSeq
  <2>3. \A p \in 1..Len(text) : text[p] \in Plain
    BY <1>10, <2>1, <2>2 DEF odd, Kinds
  <2>4. text \in [1..Len(text) -> Plain] /\ Len(text) \in Nat
    <3>1. text \in [1..Len(text) -> Kinds] /\ Len(text) \in Nat
      BY <1>1
    <3> HIDE DEF Plain
    <3> QED BY <2>3, <3>1
  <2> QED BY <2>4, SeqDef
<1>11. ASSUME again PROVE isPDF /\ odd
  <2>1. isPDF
    BY <1>3, <1>5, <1>11
  <2>2. ASSUME ~odd PROVE FALSE
    <3>1. text \in Seq(Plain)
      BY <1>10, <2>2
    <3>2. chunks \in Seq(Seq(Plain))
      BY <1>1, <3>1, ChunksBuilt DEF chunks
    <3>3. sample \in Seq(Plain)
      <4>1. Blank \in Plain
        OBVIOUS
      <4> HIDE DEF Plain
      <4> QED BY <1>5, <3>2, <4>1, SampleOf DEF sample
    <3>4. Len(sample) >= MinReadable
      BY <1>9, <2>1
    <3>5. /\ ~(Count(sample, {"mark"}) > 0) /\ ~LooksLikeCorruptedPDFText(sample)
          /\ IsReadableText(sample)
      BY <3>3, <3>4, PlainSample
    <3> QED BY <1>3, <1>5, <1>11, <3>5
  <2> QED BY <2>1, <2>2
<1>12. ASSUME again, Len(text) <= ChunkRunes
       PROVE  "mark" \in Range(text) \/ LooksLikeCorruptedPDFText(text)
  <2>1. sample = text /\ isPDF
    BY <1>7, <1>11, <1>12
  <2>2. Count(text, {"mark"}) > 0 => "mark" \in Range(text)
    <3>1. Count(text, {"mark"}) > 0 <=> \E p \in 1..Len(text) : text[p] \in {"mark"}
      BY <1>1, Counted
    <3>2. DOMAIN text = 1..Len(text)
      BY <1>1
    <3> QED BY <3>1, <3>2 DEF Range
  <2> QED BY <1>3, <1>4, <1>5, <1>12, <2>1, <2>2
<1>13. ASSUME isPDF, "mark" \in Range(chunks[1]) PROVE again
  <2>1. PICK p \in DOMAIN chunks[1] : chunks[1][p] = "mark"
    BY <1>13 DEF Range
  <2>2. p \in 1..Len(chunks[1]) /\ p \in 1..Len(sample) /\ sample[p] = "mark"
    <3>1. DOMAIN chunks[1] = 1..Len(chunks[1]) /\ Len(chunks[1]) \in Nat
      BY <1>8
    <3>2. Len(chunks[1]) <= Len(sample) /\ \A q \in 1..Len(chunks[1]) : sample[q] = chunks[1][q]
      BY <1>6 DEF Begins
    <3> QED BY <1>8, <2>1, <3>1, <3>2
  <2>3. Count(sample, {"mark"}) > 0 <=> \E q \in 1..Len(sample) : sample[q] \in {"mark"}
    BY <1>6, Counted
  <2>4. Count(sample, {"mark"}) > 0
    BY <2>2, <2>3
  <2> QED BY <1>3, <1>13, <2>4
<1> QED BY <1>2, <1>5, <1>11, <1>12, <1>13

=============================================================================
