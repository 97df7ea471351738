------------------------- MODULE DatabaseFileProofs -------------------------
(***************************************************************************)
(* Proofs about DatabaseFile, for every size the blocks may have, every    *)
(* number of builds and short writes and every width of an offset: what a  *)
(* build leaves in the file wherever it stops, and what a search finds in  *)
(* it.                                                                     *)
(*                                                                         *)
(* The argument: the file is at every moment a prefix of what one build    *)
(* writes, with some first words of its header replaced by those of the    *)
(* complete header, and these only when all blocks are there (IsImage).    *)
(***************************************************************************)
EXTENDS DatabaseFile, NumberLemmas

-----------------------------------------------------------------------------
(* The inductive invariant *)

\* There are no holes in the file.
IsFile == \E m \in Nat : file = [o \in 0 .. m - 1 |-> file[o]]

\* What a search may be.
SearchRecords ==
  [ pc : {"idle", "header", "blocks", "served", "unopened", "refused", "killed"},
    size : Nat, block : Blocks, got : [Blocks -> 0 .. Garbage], capacity : Nat,
    quiet : BOOLEAN ]

\* The types of the variables, and the reach of the next write: it begins
\* within the file or at its end.
TypeInv ==
  /\ TypeOK
  /\ IsFile
  /\ search \in SearchRecords
  /\ header \in [Blocks -> [offset : Nat, length : Nat, raw : Nat]]
  /\ sizes \in [1 .. MaxEvents -> [Blocks -> Nat]]
  /\ pc # "off" => build > 0
  /\ Writing => at <= Size
  /\ pc = "tables" => ftell <= Size
  /\ pc = "stub" => ftell = 0
  /\ pc = "final" => ftell = 0
  /\ Writing => at = Wrap(ftell + done)
  /\ file # << >> => exists
  /\ pc \notin {"off", "parse"} => exists

\* The header of a build that measures s, with the entries up to block m.
HeaderUpTo(s, m) ==
  [b \in Blocks |->
     IF b <= m /\ s[b] > 0
     THEN [offset |-> Ends(s)[b - 1], length |-> s[b], raw |-> s[b]]
     ELSE [offset |-> 0, length |-> 0, raw |-> 0]]

FullHeader(s) == HeaderUpTo(s, Len(Layout))

\* The file f holds the first n cells that build g writes when its blocks
\* measure s, and the first k words of its header are the complete ones.
Image(f, s, g, k, n) ==
  /\ DOMAIN f = 0 .. n - 1
  /\ \A w \in 0 .. HeaderSize - 1 :
       w < n => f[w] = Cell(g, 0, HeaderWord(IF w < k THEN FullHeader(s) ELSE NoEntries, w))
  /\ \A b \in Blocks : \A i \in 0 .. s[b] - 1 :
       Ends(s)[b - 1] + i < n => f[Ends(s)[b - 1] + i] = Cell(g, b, i)
  /\ n <= Ends(s)[Len(Layout)]
  /\ k > 0 => n = Ends(s)[Len(Layout)]

IsImage(g, k, n) == Image(file, sizes[g], g, k, n)

\* What some build has written, or nothing.
IsSomeImage ==
  \/ file = << >>
  \/ \E g \in 1 .. build, k \in 0 .. HeaderSize, n \in Nat \ {0} : IsImage(g, k, n)

\* Where the build stands in what it writes.
Progress ==
  LET s == sizes[build]
  IN  /\ pc = "stub" => header = NoEntries /\ IsImage(build, 0, done)
      /\ pc = "block" => /\ s[block] > 0
                         /\ header = HeaderUpTo(s, block)
                         /\ ftell = Ends(s)[block - 1]
                         /\ IsImage(build, 0, ftell + done)
      /\ pc = "tables" => /\ header = HeaderUpTo(s, Dict)
                          /\ ftell = Ends(s)[Dict]
                          /\ IsImage(build, 0, ftell)
      /\ pc = "final" => /\ header = FullHeader(s)
                         /\ IsImage(build, done, Ends(s)[Len(Layout)])
      /\ result = "ok" => /\ pc = "off" /\ build > 0
                          /\ IsImage(build, HeaderSize, Ends(s)[Len(Layout)])

FileInv == AllFit => IsSomeImage /\ Progress

\* A search that no build runs beside has read what there is, block by block.
SearchInv ==
  search.quiet =>
    /\ pc = "off"
    /\ AllFit =>
        /\ search.pc \in {"header", "blocks", "served", "unopened", "refused"}
        /\ search.pc \in {"header", "blocks", "served"} => file # << >> /\ search.size = Size
        /\ search.pc = "refused" => result # "ok"
        /\ search.pc = "header" => search.block = Conf
        /\ \A b \in Blocks :
             search.got[b] = IF (b < search.block \/ search.pc = "served") /\ Entry(b).length > 0
                             THEN file[0].gen ELSE Nothing
        /\ search.block > TrigramIndex \/ search.pc = "served" =>
             search.capacity = Word(CapacityAt)

IInv == TypeInv /\ FileInv /\ SearchInv

-----------------------------------------------------------------------------
(* The layout of the file *)

\* Eleven blocks behind a header of 33 words.
LEMMA LayoutLength ==
  /\ Len(Layout) = 11 /\ Blocks = 1 .. 11 /\ HeaderSize = 33
  /\ Conf = 1 /\ Dict = 2 /\ TrigramIndex = 10 /\ CapacityAt = 29
BY DEF Layout, Blocks, HeaderSize, EntryAt, Conf, Dict, TrigramIndex, CapacityAt

\* No block that is compressed with the dictionary comes before it.
LEMMA DictionaryComesFirst == \A b \in WithDict : b > Dict
BY DEF WithDict, Layout, Blocks, Dict

\* The recursive function that says where blocks end is well defined.
LEMMA EndsStep ==
  ASSUME NEW s \in [Blocks -> Nat]
  PROVE  /\ Ends(s) \in [0 .. 11 -> Nat]
         /\ Ends(s)[0] = HeaderSize
         /\ \A b \in Blocks : Ends(s)[b] = Ends(s)[b - 1] + s[b]
<1> DEFINE Eq(f, n) ==
      f = [b \in 0 .. n |-> IF b = 0 THEN HeaderSize ELSE f[b - 1] + s[b]]
<1> DEFINE Defined(n) == \E f \in [0 .. n -> Nat] : Eq(f, n)
<1> DEFINE Q == {n \in Nat : n <= 11 => Defined(n)}
<1>1. Defined(0)
  <2> DEFINE f == [b \in 0 .. 0 |-> HeaderSize]
  <2>1. f \in [0 .. 0 -> Nat]
    BY LayoutLength
  <2>2. Eq(f, 0)
    OBVIOUS
  <2> QED BY <2>1, <2>2
<1>2. ASSUME NEW n \in Nat, n + 1 <= 11, Defined(n)
      PROVE  Defined(n + 1)
  <2>1. PICK f \in [0 .. n -> Nat] : Eq(f, n)
    BY <1>2
  <2> DEFINE g == [b \in 0 .. n + 1 |-> IF b = n + 1 THEN f[n] + s[n + 1] ELSE f[b]]
  <2>2. s[n + 1] \in Nat
    <3>1. n + 1 \in Blocks
      BY <1>2, LayoutLength
    <3> QED BY <3>1
  <2>3. g \in [0 .. n + 1 -> Nat]
    BY <2>2
  <2>4. ASSUME NEW b \in 0 .. n + 1
        PROVE  g[b] = IF b = 0 THEN HeaderSize ELSE g[b - 1] + s[b]
    BY <2>1
  <2> HIDE DEF g
  <2> DEFINE h == [b \in 0 .. n + 1 |-> IF b = 0 THEN HeaderSize ELSE g[b - 1] + s[b]]
  <2>5. \A b \in 0 .. n + 1 : g[b] = h[b]
    BY <2>4
  <2>6. g = [b \in 0 .. n + 1 |-> g[b]] /\ h = [b \in 0 .. n + 1 |-> h[b]]
    BY <2>3
  <2>7. Eq(g, n + 1)
    BY <2>5, <2>6
  <2> QED BY <2>3, <2>7
<1> HIDE DEF Defined
<1>3. 11 \in Q
  <2>1. \A n \in Nat : n \in Q => n + 1 \in Q
    BY <1>2
  <2>2. 0 \in Q
    BY <1>1
  <2> HIDE DEF Q
  <2> QED BY <2>1, <2>2, InductiveSetHasAll
<1>4. PICK f \in [0 .. 11 -> Nat] : Eq(f, 11)
  BY <1>3 DEF Defined
<1>5. Eq(Ends(s), 11)
  BY <1>4, LayoutLength DEF Ends
<1> QED BY <1>4, <1>5, LayoutLength

\* Blocks end one after the other.
LEMMA EndsAscend ==
  ASSUME NEW s \in [Blocks -> Nat], NEW a \in 0 .. 11, NEW b \in 0 .. 11, a <= b
  PROVE  Ends(s)[a] <= Ends(s)[b]
<1> DEFINE Q == {n \in Nat : a + n <= 11 => Ends(s)[a] <= Ends(s)[a + n]}
<1>1. 0 \in Q
  BY EndsStep
<1>2. ASSUME NEW n \in Nat, n \in Q PROVE n + 1 \in Q
  <2> SUFFICES ASSUME a + n + 1 <= 11 PROVE Ends(s)[a] <= Ends(s)[a + n + 1]
    OBVIOUS
  <2>1. a + n + 1 \in Blocks /\ a + n \in 0 .. 11
    BY LayoutLength
  <2>2. Ends(s)[a + n + 1] = Ends(s)[a + n] + s[a + n + 1]
    BY <2>1, EndsStep
  <2> QED BY <1>2, <2>1, <2>2, EndsStep
<1> HIDE DEF Q
<1>3. b - a \in Q
  BY <1>1, <1>2, InductiveSetHasAll
<1> QED BY <1>3 DEF Q

\* Only the dictionary may be empty.
LEMMA ProfileFacts ==
  ASSUME NEW s \in Profiles
  PROVE  /\ s \in [Blocks -> Nat]
         /\ \A b \in Blocks \ {Dict} : s[b] > 0
         /\ \A b \in 0 .. 10 : Ends(s)[b] < Ends(s)[11]
         /\ HeaderSize <= Ends(s)[1]
<1>1. s \in [Blocks -> Nat] /\ \A b \in Blocks \ {Dict} : s[b] > 0
  BY ProfilesAssumption
<1>2. ASSUME NEW b \in 0 .. 10 PROVE Ends(s)[b] < Ends(s)[11]
  <2>1. Ends(s)[b] <= Ends(s)[10]
    BY <1>1, EndsAscend
  <2>2. Ends(s)[11] = Ends(s)[10] + s[11]
    BY <1>1, EndsStep, LayoutLength
  <2>3. s[11] > 0 /\ s[11] \in Nat
    BY <1>1, LayoutLength
  <2> QED BY <1>1, <2>1, <2>2, <2>3, EndsStep
<1>3. HeaderSize <= Ends(s)[1]
  BY <1>1, EndsStep, EndsAscend
<1> QED BY <1>1, <1>2, <1>3

\* Every word of the header but the first belongs to one entry.
LEMMA HeaderWords ==
  ASSUME NEW h
  PROVE  /\ HeaderWord(h, 0) = 1
         /\ HeaderWord(h, CapacityAt) = h[TrigramIndex].raw
         /\ \A b \in Blocks :
              /\ EntryAt(b) \in 1 .. 32 /\ EntryAt(b) + 1 \in 1 .. 32
              /\ HeaderWord(h, EntryAt(b)) = h[b].offset
              /\ HeaderWord(h, EntryAt(b) + 1) = h[b].length
              /\ b > Dict => /\ EntryAt(b) + 2 \in 1 .. 32
                             /\ HeaderWord(h, EntryAt(b) + 2) = h[b].raw
<1> DEFINE Has(b, w) == w \in EntryAt(b)..(EntryAt(b) + (IF b <= Dict THEN 1 ELSE 2))
<1>1. HeaderWord(h, 0) = 1 /\ HeaderWord(h, CapacityAt) = h[TrigramIndex].raw
  BY LayoutLength DEF HeaderWord
<1>2. ASSUME NEW b \in Blocks PROVE EntryAt(b) \in 1 .. 32 /\ EntryAt(b) + 1 \in 1 .. 32
  BY LayoutLength DEF EntryAt, TrigramIndex
<1>3. ASSUME NEW b \in Blocks, b > Dict PROVE EntryAt(b) + 2 \in 1 .. 32
  BY <1>3, LayoutLength DEF EntryAt, TrigramIndex
<1>4. ASSUME NEW b \in Blocks, NEW i \in 0 .. 2, b > Dict \/ i < 2
      PROVE  HeaderWord(h, EntryAt(b) + i) = << h[b].offset, h[b].length, h[b].raw >>[i + 1]
  <2> DEFINE w == EntryAt(b) + i
             c == CHOOSE d \in Blocks : Has(d, w)
  <2>1. Has(b, w) /\ w # 0 /\ w # CapacityAt /\ w - EntryAt(b) + 1 = i + 1
    <3>1. EntryAt(b) \in 1 .. 32
      BY <1>2
    <3>2. i <= IF b <= Dict THEN 1 ELSE 2
      BY <1>4, LayoutLength
    <3>3. w # CapacityAt
      BY <1>4, LayoutLength DEF EntryAt, TrigramIndex
    <3> QED BY <3>1, <3>2, <3>3, LayoutLength
  <2>2. \A d \in Blocks : Has(d, w) => d = b
    BY <1>4, LayoutLength DEF EntryAt, TrigramIndex
  <2>3. c = b
    BY <2>1, <2>2
  <2>4. HeaderWord(h, w) = IF w = 0 THEN 1
                           ELSE IF w = CapacityAt THEN h[TrigramIndex].raw
                           ELSE << h[c].offset, h[c].length, h[c].raw >>[w - EntryAt(c) + 1]
    BY Zenon DEF HeaderWord
  <2> HIDE DEF w, c
  <2>5. HeaderWord(h, w) = << h[b].offset, h[b].length, h[b].raw >>[i + 1]
    BY <2>1, <2>3, <2>4
  <2> QED BY <2>5 DEF w
<1>5. ASSUME NEW b \in Blocks
      PROVE  /\ HeaderWord(h, EntryAt(b)) = h[b].offset
             /\ HeaderWord(h, EntryAt(b) + 1) = h[b].length
  <2>1. HeaderWord(h, EntryAt(b) + 0) = h[b].offset /\ HeaderWord(h, EntryAt(b) + 1) = h[b].length
    BY <1>4
  <2> QED BY <1>2, <2>1
<1>6. ASSUME NEW b \in Blocks, b > Dict
      PROVE  HeaderWord(h, EntryAt(b) + 2) = h[b].raw
  BY <1>4, <1>6
<1> QED BY <1>1, <1>2, <1>3, <1>5, <1>6

\* Every word of a header is a number.
LEMMA HeaderWordIsNat ==
  ASSUME NEW h \in [Blocks -> [offset : Nat, length : Nat, raw : Nat]], NEW w \in 0 .. 32
  PROVE  HeaderWord(h, w) \in Nat
<1>1. CASE w = 0
  BY <1>1, HeaderWords
<1>2. CASE w = 29
  BY <1>2, HeaderWords, LayoutLength
<1>3. CASE w \notin {0, 29}
  <2> DEFINE In(b) == w = EntryAt(b) \/ w = EntryAt(b) + 1 \/ (b > Dict /\ w = EntryAt(b) + 2)
  <2>1. \E b \in Blocks : In(b)
    <3>1. CASE w \in 1 .. 2
      <4>1. 1 \in Blocks /\ In(1)
        BY <3>1, LayoutLength DEF EntryAt, TrigramIndex
      <4> QED BY <4>1
    <3>2. CASE w \in 3 .. 4
      <4>1. 2 \in Blocks /\ In(2)
        BY <3>2, LayoutLength DEF EntryAt, TrigramIndex
      <4> QED BY <4>1
    <3>3. CASE w \in 5 .. 28
      <4>1. PICK b \in 3 .. 10 : w - 5 - 3 * (b - 3) \in 0 .. 2
        <5>1. w \in 5 .. 28
          BY <3>3
        <5>2. (w - 5) \div 3 \in 0 .. 7 /\ (w - 5) - 3 * ((w - 5) \div 3) \in 0 .. 2
          BY <5>1
        <5>3. PICK q \in 0 .. 7 : w - 5 - 3 * q \in 0 .. 2
          BY <5>2
        <5>4. q + 3 \in 3 .. 10 /\ (q + 3) - 3 = q
          OBVIOUS
        <5> QED BY <5>3, <5>4
      <4>2. b \in Blocks /\ b > Dict /\ EntryAt(b) = 5 + 3 * (b - 3)
        BY LayoutLength DEF EntryAt, TrigramIndex
      <4>3. In(b)
        BY <4>1, <4>2
      <4> QED BY <4>2, <4>3
    <3>4. CASE w \in 30 .. 32
      <4>1. 11 \in Blocks /\ 11 > Dict /\ EntryAt(11) = 30
        BY LayoutLength DEF EntryAt, TrigramIndex
      <4>2. In(11)
        BY <3>4, <4>1
      <4> QED BY <4>1, <4>2
    <3> HIDE DEF In
    <3> QED BY <1>3, <3>1, <3>2, <3>3, <3>4
  <2>2. PICK b \in Blocks : In(b)
    BY <2>1
  <2>3. h[b].offset \in Nat /\ h[b].length \in Nat /\ h[b].raw \in Nat
    OBVIOUS
  <2>4. /\ HeaderWord(h, EntryAt(b)) = h[b].offset /\ HeaderWord(h, EntryAt(b) + 1) = h[b].length
        /\ b > Dict => HeaderWord(h, EntryAt(b) + 2) = h[b].raw
    BY HeaderWords
  <2> QED BY <2>2, <2>3, <2>4
<1> QED BY <1>1, <1>2, <1>3

-----------------------------------------------------------------------------
(* Offsets that wrap *)

\* A number is below the modulus and differs from x by a multiple of it only
\* if it is the remainder of x.
LEMMA RemainderIs ==
  ASSUME NEW m \in Nat \ {0}, NEW x \in Nat, NEW q \in Int, NEW r \in 0 .. m - 1,
         x = m * q + r
  PROVE  x % m = r
<1> DEFINE p == x \div m
           t == x % m
<1>1. p \in Int /\ t \in 0 .. m - 1 /\ x = m * p + t
  OBVIOUS
<1> HIDE DEF p, t
<1>2. m * (p - q) = r - t
  BY <1>1
<1>3. CASE p - q >= 1
  <2>1. m * (p - q) >= m
    BY <1>1, <1>3
  <2> QED BY <1>1, <1>2, <2>1
<1>4. CASE q - p >= 1
  <2>1. m * (q - p) >= m
    BY <1>1, <1>4
  <2>2. m * (q - p) = t - r
    BY <1>1
  <2> QED BY <1>1, <2>1, <2>2
<1>5. CASE p = q
  BY <1>1, <1>5 DEF t
<1> QED BY <1>1, <1>3, <1>4, <1>5

\* Wrapping once at the end is wrapping at each step.
LEMMA WrapFacts ==
  ASSUME NEW x \in Nat
  PROVE  /\ Wrap(x) \in 0 .. OffsetLimit - 1
         /\ Wrap(x) <= x
         /\ x < OffsetLimit => Wrap(x) = x
         /\ \A n \in Nat : Wrap(Wrap(x) + n) = Wrap(x + n)
<1> DEFINE m == OffsetLimit
<1>0. m \in Nat \ {0}
  BY BoundsAssumption
<1>1. x % m \in 0 .. m - 1 /\ x = m * (x \div m) + (x % m) /\ x \div m \in Nat
  BY <1>0
<1>2. m * (x \div m) \in Nat
  BY <1>0, <1>1
<1>3. x < m => x % m = x
  BY <1>0
<1>4. ASSUME NEW n \in Nat PROVE ((x % m) + n) % m = (x + n) % m
  <2> DEFINE y == (x % m) + n
             r == y % m
  <2>1. y \in Nat /\ r \in 0 .. m - 1 /\ y = m * (y \div m) + r /\ y \div m \in Int
    BY <1>0, <1>1
  <2>2. x + n = m * (x \div m + y \div m) + r
    <3> DEFINE a == x \div m
               b == y \div m
    <3>1. x + n = m * a + m * b + r
      BY <1>0, <1>1, <2>1
    <3> HIDE DEF a, b, r
    <3>2. ASSUME NEW u \in Int, NEW v \in Int PROVE m * u + m * v = m * (u + v)
      BY <1>0
    <3>3. a \in Int /\ b \in Int
      BY <1>1, <2>1 DEF a, b
    <3> QED BY <3>1, <3>2, <3>3 DEF a, b
  <2> HIDE DEF y, r
  <2> DEFINE k == x \div m + y \div m
             z == x + n
  <2>3. k \in Int /\ z \in Nat
    BY <1>1, <2>1
  <2>4. z = m * k + r
    BY <2>2
  <2> HIDE DEF k, z, m
  <2>5. z % m = r
    BY <1>0, <2>1, <2>3, <2>4, RemainderIs
  <2> QED BY <2>5 DEF z, y, r
<1> QED BY <1>0, <1>1, <1>2, <1>3, <1>4 DEF Wrap

-----------------------------------------------------------------------------
(* Types *)

\* A file without holes has as many cells as its size says.
LEMMA FileSize ==
  ASSUME IsFile
  PROVE  /\ Size \in Nat /\ DOMAIN file = 0 .. Size - 1
         /\ file = << >> <=> Size = 0
<1>1. PICK m \in Nat : file = [o \in 0 .. m - 1 |-> file[o]]
  BY DEF IsFile
<1>2. DOMAIN file = 0 .. m - 1
  BY <1>1
<1>3. Size = m
  BY <1>2, FS_Interval DEF Size
<1>4. file = << >> => m = 0
  BY <1>2
<1>5. m = 0 => file = << >>
  BY <1>1
<1> QED BY <1>1, <1>2, <1>3, <1>4, <1>5

\* A function on the first m offsets has m of them.
LEMMA DomainSize ==
  ASSUME NEW f, NEW m \in Nat, DOMAIN f = 0 .. m - 1
  PROVE  Cardinality(DOMAIN f) = m
BY FS_Interval

\* Builds and short writes are bounded.
LEMMA EventsCount ==
  ASSUME TypeInv
  PROVE  Events \in Nat /\ build + short <= Events
<1> DEFINE Unusual == { g \in 1..build : sizes[g] # Usual }
<1>1. build \in Nat /\ short \in Nat
  BY DEF TypeInv, TypeOK
<1>2. IsFiniteSet(1..build)
  BY <1>1, FS_Interval
<1>3. IsFiniteSet(Unusual)
  BY <1>2, FS_Subset, Unusual \in SUBSET (1..build)
<1>4. Cardinality(Unusual) \in Nat
  BY <1>3, FS_CardinalityType
<1> QED BY <1>1, <1>4 DEF Events

\* What the build that runs measures.
LEMMA SizesOfBuild ==
  ASSUME TypeInv, build > 0
  PROVE  /\ build \in 1 .. MaxEvents /\ sizes[build] \in Profiles
         /\ sizes[build] \in [Blocks -> Nat]
<1>1. build \in 1 .. MaxEvents /\ build \in 1 .. build
  BY BoundsAssumption DEF TypeInv, TypeOK
<1>2. sizes[build] \in Profiles
  BY <1>1 DEF TypeInv, TypeOK
<1> QED BY <1>1, <1>2, ProfilesAssumption

\* The buffer of a write is a block of this build or a header.
LEMMA BufferIsNat ==
  ASSUME TypeInv
  PROVE  /\ BufferSize \in Nat
         /\ pc = "block" => BufferSize = sizes[build][block]
         /\ pc # "block" => BufferSize = 33
<1>1. CASE pc = "block"
  <2>1. build > 0 /\ block \in Blocks
    BY <1>1 DEF TypeInv, TypeOK
  <2> QED BY <1>1, <2>1, SizesOfBuild DEF BufferSize
<1>2. CASE pc # "block"
  BY <1>2, LayoutLength DEF BufferSize
<1> QED BY <1>1, <1>2

\* One write leaves the file without a hole.
LEMMA PwriteKeepsFile ==
  ASSUME TypeInv, NEW n \in Nat \ {0}, Writing,
         file' = [ o \in DOMAIN file \union at..(at + n - 1) |->
                     IF o \in at..(at + n - 1) THEN BufferCell(done + o - at) ELSE file[o] ]
  PROVE  /\ IsFile' /\ Size' >= Size /\ Size' >= at + n
         /\ DOMAIN file' = 0 .. Size' - 1
<1>1. Size \in Nat /\ DOMAIN file = 0 .. Size - 1 /\ at \in Nat /\ at <= Size
  BY FileSize DEF TypeInv, TypeOK
<1> DEFINE m == IF at + n > Size THEN at + n ELSE Size
<1>2. DOMAIN file \union at..(at + n - 1) = 0 .. m - 1 /\ m \in Nat /\ m >= Size /\ m >= at + n
  BY <1>1
<1> HIDE DEF m
<1>3. DOMAIN file' = 0 .. m - 1
  BY <1>2
<1>4. file' = [o \in 0 .. m - 1 |-> file'[o]]
  BY <1>2, <1>3
<1>5. IsFile'
  BY <1>2, <1>4 DEF IsFile
<1>6. Size' = m
  BY <1>2, <1>3, DomainSize DEF Size
<1> QED BY <1>2, <1>3, <1>5, <1>6

\* One write puts cells of the running build into the file.
LEMMA CellsKept ==
  ASSUME TypeInv, NEW n \in Nat \ {0}, Writing, n <= BufferSize - done,
         file' = [ o \in DOMAIN file \union at..(at + n - 1) |->
                     IF o \in at..(at + n - 1) THEN BufferCell(done + o - at) ELSE file[o] ]
  PROVE  \A o \in DOMAIN file' : /\ file'[o].gen \in 1..build /\ file'[o].part \in Blocks \union {0}
                                /\ file'[o].val \in Nat
<1> SUFFICES ASSUME NEW o \in DOMAIN file'
             PROVE  /\ file'[o].gen \in 1..build /\ file'[o].part \in Blocks \union {0}
                    /\ file'[o].val \in Nat
  OBVIOUS
<1>1. build \in 1 .. build /\ block \in Blocks
  BY DEF TypeInv, TypeOK, Writing
<1>2. CASE o \in at..(at + n - 1)
  <2>1. file'[o] = BufferCell(done + o - at)
    BY <1>2
  <2>2. BufferCell(done + o - at).gen = build /\ BufferCell(done + o - at).part \in Blocks \union {0}
    BY <1>1 DEF BufferCell, HeaderCell, Cell, Writing
  <2>3. BufferCell(done + o - at).val \in Nat
    <3>1. done \in Nat /\ at \in Nat /\ BufferSize \in Nat
      <4>1. done \in 0 .. BufferSize /\ at \in Nat
        BY DEF TypeInv, TypeOK
      <4> QED BY <4>1, BufferIsNat
    <3>2. PICK i : i = done + o - at
      OBVIOUS
    <3>3. i \in 0 .. BufferSize - 1
      BY <1>2, <3>1, <3>2
    <3>4. CASE pc = "block"
      <4>1. BufferCell(i).val = i
        BY <3>4 DEF BufferCell, Cell
      <4> QED BY <3>1, <3>2, <3>3, <4>1
    <3>5. CASE pc # "block"
      <4>1. i \in 0 .. 32
        BY <3>3, <3>5, BufferIsNat
      <4>2. PICK h : /\ h \in [Blocks -> [offset : Nat, length : Nat, raw : Nat]]
                     /\ BufferCell(i) = HeaderCell(h, i)
        <5>1. CASE pc = "stub"
          <6>1. NoEntries \in [Blocks -> [offset : Nat, length : Nat, raw : Nat]]
            BY DEF NoEntries
          <6>2. BufferCell(i) = HeaderCell(NoEntries, i)
            BY <5>1 DEF BufferCell
          <6> QED BY <6>1, <6>2
        <5>2. CASE pc = "final"
          <6>1. header \in [Blocks -> [offset : Nat, length : Nat, raw : Nat]]
            BY DEF TypeInv
          <6>2. BufferCell(i) = HeaderCell(header, i)
            BY <5>2 DEF BufferCell
          <6> QED BY <6>1, <6>2
        <5> QED BY <3>5, <5>1, <5>2 DEF Writing
      <4>3. HeaderWord(h, i) \in Nat
        BY <4>1, <4>2, HeaderWordIsNat
      <4>4. BufferCell(i).val = HeaderWord(h, i)
        BY <4>2 DEF HeaderCell, Cell
      <4> QED BY <3>2, <4>3, <4>4
    <3> QED BY <3>4, <3>5
  <2> QED BY <1>1, <2>1, <2>2, <2>3
<1>3. CASE o \notin at..(at + n - 1)
  <2>1. o \in DOMAIN file /\ file'[o] = file[o]
    BY <1>3
  <2> QED BY <2>1 DEF TypeInv, TypeOK
<1> QED BY <1>2, <1>3

\* The next block starts within the file: its size is that of this build.
LEMMA StartBlockTypes ==
  ASSUME TypeInv, pc # "off", NEW b \in Blocks, NEW o \in 0 .. OffsetLimit - 1, o <= Size,
         StartBlock(b, o), pc # "parse",
         UNCHANGED << exists, file, build, sizes, short, built, result, message, search >>
  PROVE  TypeInv'
<1>1. build > 0
  BY DEF TypeInv
<1>2. sizes[build][b] \in Nat
  BY <1>1, SizesOfBuild
<1>3. o = Wrap(o + 0)
  BY WrapFacts, BoundsAssumption
<1>4. Size' = Size /\ IsFile'
  BY DEF Size, IsFile, TypeInv
<1>5. header' \in [Blocks -> [offset : Nat, length : Nat, raw : Nat]]
  BY <1>2, BoundsAssumption DEF StartBlock, TypeInv
<1>6. pc' = "block" /\ block' = b /\ ftell' = o /\ at' = o /\ done' = 0
  BY DEF StartBlock
<1>7. BufferSize' = sizes[build][b]
  BY <1>6 DEF BufferSize
<1>8. done' \in 0 .. BufferSize'
  BY <1>2, <1>6, <1>7
<1>9. TypeOK'
  BY <1>4, <1>5, <1>6, <1>8 DEF TypeOK, TypeInv, Garbage
<1> QED BY <1>1, <1>3, <1>4, <1>5, <1>6, <1>9 DEF TypeInv, Writing

\* What stays when a step leaves the file and the write alone.
LEMMA TypesKept ==
  ASSUME TypeInv,
         UNCHANGED << exists, file, sizes, header, ftell, block, at, done, short, build >>,
         pc' \in {"off", pc},
         built' \in [Tables -> {"running", "ready", "failed"}],
         result' \in {"none", "ok", "failed", "dead"}, message' \in BOOLEAN,
         search' \in SearchRecords
  PROVE  TypeInv'
<1>0. /\ search'.pc \in {"idle", "header", "blocks", "served", "unopened", "refused", "killed"}
      /\ search'.block \in Blocks /\ search'.got \in [Blocks -> 0..Garbage]
      /\ search'.capacity \in Nat /\ search'.quiet \in BOOLEAN
  BY DEF SearchRecords
<1>1. Size' = Size /\ IsFile'
  BY DEF Size, IsFile, TypeInv
<1>2. Writing' => Writing /\ BufferSize' = BufferSize
  BY DEF Writing, BufferSize
<1>3. TypeOK'
  BY <1>0, <1>1, <1>2 DEF TypeInv, TypeOK, Garbage
<1> QED BY <1>1, <1>2, <1>3 DEF TypeInv, Writing, Wrap

\* A search holds what a build wrote, or Garbage.
LEMMA SearchTypes ==
  ASSUME TypeInv, SearchStep
  PROVE  TypeInv'
<1>0. search \in SearchRecords /\ NoSearch \in SearchRecords
  <2>1. [b \in Blocks |-> 0] \in [Blocks -> 0 .. Garbage] /\ 1 \in Blocks
    BY BoundsAssumption, LayoutLength DEF Garbage
  <2> QED BY <2>1 DEF NoSearch, SearchRecords, TypeInv
<1>1. search' \in SearchRecords
  <2>8. Word(CapacityAt) \in Nat
    BY DEF Word, TypeInv, TypeOK
  <2>1. ASSUME NEW value \in 0 .. Garbage, Take(value) PROVE search' \in SearchRecords
    <3>1. search.block + 1 \in Blocks => search'.block = search.block + 1
      BY <1>0, <2>1 DEF Take, SearchRecords
    <3> QED BY <1>0, <2>1, <2>8, <3>1 DEF Take, SearchRecords
  <2>2. CASE OpenMap
    <3>1. Size \in Nat
      BY FileSize DEF TypeInv
    <3> QED BY <1>0, <2>2, <3>1 DEF OpenMap, SearchRecords
  <2>9. CASE OpenMapFails
    BY <1>0, <2>9 DEF OpenMapFails, SearchRecords
  <2>3. CASE ReadHeader \/ RefuseBlock \/ BusError
    BY <1>0, <2>3 DEF ReadHeader, RefuseBlock, BusError, SearchRecords
  <2>4. CASE ReadNothing
    BY <2>1, <2>4, BoundsAssumption DEF ReadNothing, Nothing, Garbage
  <2>5. CASE ReadBlock
    <3>1. PICK g \in 1 .. build : Take(g)
      BY <2>5 DEF ReadBlock
    <3>2. build \in 0 .. MaxEvents
      BY DEF TypeInv, TypeOK
    <3>3. g \in 0 .. Garbage
      BY <3>1, <3>2, BoundsAssumption DEF Garbage
    <3> QED BY <2>1, <3>1, <3>3
  <2>6. CASE ReadGarbage
    BY <2>1, <2>6, BoundsAssumption DEF ReadGarbage, Garbage
  <2>7. CASE LeaveSearch
    BY <1>0, <2>7 DEF LeaveSearch
  <2> QED BY <2>2, <2>3, <2>4, <2>5, <2>6, <2>7, <2>9 DEF SearchStep
<1>2. UNCHANGED << exists, file, pc, build, sizes, writeVars, built, result, message >>
  BY DEF SearchStep
<1>3. /\ UNCHANGED << exists, file, sizes, header, ftell, block, at, done, short, build, pc >>
      /\ built' = built /\ result' = result /\ message' = message
  BY <1>2 DEF writeVars
<1>4. /\ built \in [Tables -> {"running", "ready", "failed"}]
      /\ result \in {"none", "ok", "failed", "dead"} /\ message \in BOOLEAN
  BY DEF TypeInv, TypeOK
<1> QED BY <1>1, <1>3, <1>4, TypesKept

LEMMA PwriteTypes ==
  ASSUME TypeInv, Pwrite
  PROVE  TypeInv'
<1>0. Writing /\ UNCHANGED << exists, pc, build, sizes, header, ftell, block, built, result, message, search >>
  BY DEF Pwrite
<1>1. PICK n \in 1..(BufferSize - done) :
        /\ n < BufferSize - done => Events < MaxEvents
        /\ short' = IF n < BufferSize - done THEN short + 1 ELSE short
        /\ file' = [ o \in DOMAIN file \union at..(at + n - 1) |->
                       IF o \in at..(at + n - 1) THEN BufferCell(done + o - at) ELSE file[o] ]
        /\ done' = done + n
        /\ at' = Wrap(at + n)
  BY DEF Pwrite
<1>2. BufferSize \in Nat /\ done \in 0 .. BufferSize /\ n \in Nat \ {0} /\ n <= BufferSize - done
  <2>1. done \in 0 .. BufferSize
    BY <1>0 DEF TypeInv, TypeOK
  <2> QED BY <1>1, <2>1, BufferIsNat
<1>3. at \in Nat /\ ftell \in Nat /\ at = Wrap(ftell + done)
  BY <1>0 DEF TypeInv, TypeOK
<1>4. IsFile' /\ Size' >= Size /\ Size' >= at + n /\ DOMAIN file' = 0 .. Size' - 1
  BY <1>0, <1>1, <1>2, PwriteKeepsFile
<1>5. \A o \in DOMAIN file' : /\ file'[o].gen \in 1..build /\ file'[o].part \in Blocks \union {0}
                             /\ file'[o].val \in Nat
  BY <1>0, <1>1, <1>2, CellsKept
<1>6. at' \in 0 .. OffsetLimit - 1 /\ at' <= Size' /\ at' = Wrap(ftell + done')
  <2>1. at' \in 0 .. OffsetLimit - 1 /\ at' <= at + n
    BY <1>1, <1>2, <1>3, WrapFacts
  <2>2. ftell + done \in Nat
    BY <1>2, <1>3
  <2>3. Wrap(Wrap(ftell + done) + n) = Wrap(ftell + done + n)
    BY <1>2, <2>2, WrapFacts
  <2>4. ftell + done + n = ftell + (done + n)
    BY <1>2, <1>3
  <2>5. at' = Wrap(ftell + done')
    BY <1>1, <1>3, <2>3, <2>4
  <2>6. Size' \in Nat
    BY <1>4, FileSize, DomainSize DEF Size, IsFile
  <2> QED BY <1>2, <1>3, <1>4, <2>1, <2>5, <2>6, BoundsAssumption
<1>7. short' \in 0 .. MaxEvents
  <2>1. short \in 0 .. MaxEvents /\ build \in Nat /\ MaxEvents \in Nat
    BY BoundsAssumption DEF TypeInv, TypeOK
  <2>2. CASE n < BufferSize - done
    BY <1>1, <2>1, <2>2, EventsCount
  <2>3. CASE ~(n < BufferSize - done)
    BY <1>1, <2>1, <2>3
  <2> QED BY <2>2, <2>3
<1>8. Writing' /\ BufferSize' = BufferSize /\ done' \in 0 .. BufferSize
  BY <1>0, <1>1, <1>2 DEF Writing, BufferSize
<1>9. exists'
  BY <1>0 DEF Writing, TypeInv
<1>10. TypeOK'
  BY <1>0, <1>4, <1>5, <1>6, <1>7, <1>8 DEF TypeInv, TypeOK, Garbage
<1> QED BY <1>0, <1>4, <1>6, <1>8, <1>9, <1>10 DEF TypeInv, Writing

\* A build begins by truncating the file, or leaves it as it is.
LEMMA ConstructTypes ==
  ASSUME TypeInv, Construct
  PROVE  TypeInv'
<1>1. PICK s \in Profiles : /\ Events + (IF s = Usual THEN 1 ELSE 2) <= MaxEvents
                            /\ sizes' = [sizes EXCEPT ![build + 1] = s]
  BY DEF Construct
<1>2. build + 1 \in 1 .. MaxEvents /\ build \in Nat
  <2>1. build \in Nat /\ short \in Nat /\ MaxEvents \in Nat
    BY BoundsAssumption DEF TypeInv, TypeOK
  <2> QED BY <1>1, <2>1, EventsCount
<1>3. /\ sizes' \in [1 .. MaxEvents -> [Blocks -> Nat]]
      /\ \A g \in 1 .. build' : sizes'[g] \in Profiles
  <2>1. s \in [Blocks -> Nat] /\ build' = build + 1
    BY ProfilesAssumption DEF Construct
  <2>2. /\ sizes \in [1 .. MaxEvents -> [Blocks -> Nat]]
        /\ \A g \in 1 .. build : sizes[g] \in Profiles
    BY DEF TypeInv, TypeOK
  <2>3. sizes' \in [1 .. MaxEvents -> [Blocks -> Nat]]
    BY <1>1, <1>2, <2>1, <2>2
  <2>4. ASSUME NEW g \in 1 .. build' PROVE sizes'[g] \in Profiles
    <3>0. MaxEvents \in Nat
      BY BoundsAssumption
    <3>1. g \in 1 .. MaxEvents /\ (g = build + 1 \/ g \in 1 .. build)
      BY <1>2, <2>1, <3>0
    <3>2. CASE g = build + 1
      BY <1>1, <1>2, <2>2, <3>2
    <3>3. CASE g # build + 1
      BY <1>1, <2>2, <3>1, <3>3
    <3> QED BY <3>2, <3>3
  <2> QED BY <2>3, <2>4
<1>4. /\ IsFile' /\ DOMAIN file' = 0 .. Size' - 1
      /\ \A o \in DOMAIN file' : /\ file'[o].gen \in 1..build' /\ file'[o].part \in Blocks \union {0}
                                /\ file'[o].val \in Nat
      /\ file' # << >> => exists'
  <2>1. CASE Truncate
    <3>1. file' = << >> /\ DOMAIN file' = 0 .. 0 - 1
      BY <2>1 DEF Truncate
    <3>2. Size' = 0
      BY <3>1, DomainSize DEF Size
    <3>3. IsFile'
      <4>1. file' = [o \in 0 .. 0 - 1 |-> file'[o]]
        BY <3>1
      <4> QED BY <4>1 DEF IsFile
    <3> QED BY <3>1, <3>2, <3>3
  <2>2. CASE UNCHANGED fileVars
    <3>1. file' = file /\ exists' = exists /\ build' = build + 1
      BY <2>2 DEF fileVars, Construct
    <3>2. Size' = Size /\ IsFile'
      BY <3>1 DEF Size, IsFile, TypeInv
    <3>3. 1 .. build \subseteq 1 .. build'
      BY <1>2, <3>1
    <3> QED BY <3>1, <3>2, <3>3 DEF TypeInv, TypeOK
  <2> QED BY <2>1, <2>2 DEF Construct
<1>5. ~Writing' /\ pc' = "parse" /\ build' = build + 1
  BY DEF Construct, Writing
<1>6. /\ built' \in [Tables -> {"running", "ready", "failed"}]
      /\ result' = "none" /\ message' = FALSE /\ UNCHANGED writeVars
      /\ search' = [search EXCEPT !.quiet = FALSE]
  BY DEF Construct, NothingBuilt
<1>7. TypeOK'
  <2>1. /\ search'.pc = search.pc /\ search'.block = search.block
        /\ search'.got = search.got /\ search'.capacity = search.capacity
        /\ search'.quiet \in BOOLEAN
    BY <1>6 DEF TypeInv, SearchRecords
  <2>2. exists' \in BOOLEAN
    BY DEF Construct, Truncate, fileVars, TypeInv, TypeOK
  <2>3. /\ search'.pc \in {"idle", "header", "blocks", "served", "unopened", "refused", "killed"}
        /\ search'.block \in Blocks /\ search'.got \in [Blocks -> 0 .. Garbage]
        /\ search'.capacity \in Nat
    BY <2>1 DEF TypeInv, TypeOK
  <2>4. /\ DOMAIN header' = Blocks
        /\ ftell' \in 0..(OffsetLimit - 1) /\ at' \in 0..(OffsetLimit - 1)
        /\ block' \in Blocks /\ short' \in 0 .. MaxEvents
    BY <1>6 DEF TypeInv, TypeOK, writeVars
  <2>5. /\ search'.pc \in {"idle", "header", "blocks", "served", "unopened", "refused", "killed"}
        /\ search'.block \in Blocks /\ search'.got \in [Blocks -> 0 .. Garbage]
        /\ search'.capacity \in Nat /\ search'.quiet \in BOOLEAN
    BY <2>1, <2>3
  <2>6. /\ built' \in [Tables -> {"running", "ready", "failed"}]
        /\ result' = "none" /\ message' = FALSE
    BY <1>6
  <2>7. build' \in 0 .. MaxEvents /\ \A g \in 1 .. build' : sizes'[g] \in Profiles
    BY <1>2, <1>3, <1>5
  <2>8. /\ DOMAIN file' = 0 .. Size' - 1
        /\ \A o \in DOMAIN file' : /\ file'[o].gen \in 1..build' /\ file'[o].part \in Blocks \union {0}
                                  /\ file'[o].val \in Nat
    BY <1>4
  <2> HIDE DEF Construct, TypeInv
  <2> QED BY <1>5, <2>2, <2>4, <2>5, <2>6, <2>7, <2>8 DEF TypeOK
<1>8. search' \in SearchRecords
  BY <1>6 DEF TypeInv, SearchRecords
<1> QED BY <1>2, <1>3, <1>4, <1>5, <1>6, <1>7, <1>8 DEF TypeInv, writeVars

\* Every step keeps the types.
LEMMA TypeStep ==
  ASSUME TypeInv, [Next]_vars
  PROVE  TypeInv'
<1>0. /\ built \in [Tables -> {"running", "ready", "failed"}]
      /\ result \in {"none", "ok", "failed", "dead"} /\ message \in BOOLEAN
      /\ search.pc \in {"idle", "header", "blocks", "served", "unopened", "refused", "killed"}
      /\ search.block \in Blocks /\ search.got \in [Blocks -> 0..Garbage]
      /\ search.capacity \in Nat /\ search.quiet \in BOOLEAN
      /\ search \in SearchRecords
  BY DEF TypeInv, TypeOK
<1>1. CASE Construct
  BY <1>1, ConstructTypes
<1>2. CASE OpenDatabase
  <2>1. file' = << >> /\ DOMAIN file' = 0 .. 0 - 1 /\ file' = [o \in 0 .. 0 - 1 |-> file'[o]]
    BY <1>2 DEF OpenDatabase, Truncate
  <2>2. IsFile' /\ Size' = 0
    BY <2>1, DomainSize DEF IsFile, Size
  <2>3. header' \in [Blocks -> [offset : Nat, length : Nat, raw : Nat]]
    BY <1>2 DEF OpenDatabase, NoEntries
  <2>4. /\ pc' = "stub" /\ BufferSize' = HeaderSize /\ ftell' = 0 /\ at' = 0 /\ done' = 0
        /\ exists' = TRUE /\ UNCHANGED << build, sizes, block, short, built, result, message, search >>
    BY <1>2 DEF OpenDatabase, Truncate, BufferSize
  <2>5. build > 0
    BY <1>2 DEF OpenDatabase, TypeInv
  <2>6. TypeOK'
    BY <1>0, <2>1, <2>2, <2>3, <2>4, LayoutLength, BoundsAssumption DEF TypeInv, TypeOK, Garbage
  <2>7. 0 = Wrap(0 + 0)
    BY WrapFacts, BoundsAssumption
  <2> QED BY <2>2, <2>3, <2>4, <2>5, <2>6, <2>7 DEF TypeInv
<1>3. CASE Pwrite
  BY <1>3, PwriteTypes
<1>4. CASE SearchStep
  BY <1>4, SearchTypes
<1>5. ASSUME NEW b \in Blocks, StubDone \/ (ConfDone /\ sizes[build][Dict] > 0) \/ CommitNext,
             StartBlock(b, Wrap(ftell + BufferSize))
      PROVE  TypeInv'
  <2>1. /\ done = BufferSize /\ Writing /\ pc # "off" /\ pc # "parse"
        /\ UNCHANGED << exists, file, build, sizes, short, built, result, message, search >>
    BY <1>5 DEF StubDone, ConfDone, CommitNext, Written, Writing
  <2>2. at \in 0 .. OffsetLimit - 1 /\ at <= Size /\ at = Wrap(ftell + BufferSize)
    BY <2>1 DEF TypeInv, TypeOK
  <2> QED BY <1>5, <2>1, <2>2, StartBlockTypes
<1>6. CASE StubDone
  BY <1>5, <1>6, LayoutLength DEF StubDone
<1>7. ASSUME pc' = "tables", ftell' = Wrap(ftell + BufferSize), Written,
             UNCHANGED << header, block, at, done, exists, file, build, sizes, short,
                          built, result, message, search >>
      PROVE  TypeInv'
  <2>1. done = BufferSize /\ Writing /\ pc \notin {"off", "parse"}
    BY <1>7 DEF Written, Writing
  <2>2. ftell' = at /\ at <= Size
    BY <1>7, <2>1 DEF TypeInv
  <2>3. Size' = Size /\ IsFile'
    BY <1>7 DEF Size, IsFile, TypeInv
  <2>4. ~Writing'
    BY <1>7 DEF Writing
  <2>5. TypeOK'
    BY <1>7, <2>2, <2>3, <2>4 DEF TypeInv, TypeOK, Garbage
  <2> QED BY <1>7, <2>1, <2>2, <2>3, <2>4, <2>5 DEF TypeInv
<1>8. CASE ConfDone
  BY <1>5, <1>7, <1>8, LayoutLength DEF ConfDone
<1>9. CASE DictDone
  BY <1>7, <1>9 DEF DictDone
<1>10. ASSUME NEW t \in Tables, BuildTable(t) PROVE TypeInv'
  <2>1. built' \in [Tables -> {"running", "ready", "failed"}]
    BY <1>0, <1>10 DEF BuildTable
  <2>2. /\ UNCHANGED << exists, file, sizes, header, ftell, block, at, done, short, build >>
        /\ UNCHANGED << pc, result, message, search >>
    BY <1>10 DEF BuildTable, writeVars
  <2> QED BY <1>0, <2>1, <2>2, TypesKept
<1>11. CASE TablesReady
  <2>1. /\ pc = "tables" /\ ftell \in 0 .. OffsetLimit - 1 /\ ftell <= Size
        /\ UNCHANGED << exists, file, build, sizes, short, built, result, message, search >>
    BY <1>11 DEF TablesReady, Collected, TypeInv, TypeOK
  <2>2. StartBlock(Dict + 1, ftell) /\ Dict + 1 \in Blocks
    BY <1>11, LayoutLength DEF TablesReady
  <2> QED BY <2>1, <2>2, StartBlockTypes
<1>12. CASE CommitNext
  BY <1>5, <1>12 DEF CommitNext
<1>13. CASE CommitHeader
  <2>1. /\ pc' = "final" /\ ftell' = 0 /\ at' = 0 /\ done' = 0 /\ pc \notin {"off", "parse"}
        /\ UNCHANGED << exists, file, build, sizes, header, block, short, built, result, message, search >>
    BY <1>13 DEF CommitHeader
  <2>2. Size' = Size /\ IsFile' /\ Size \in Nat
    BY <2>1, FileSize DEF Size, IsFile, TypeInv
  <2>3. BufferSize' = 33
    BY <2>1, LayoutLength DEF BufferSize
  <2>4. 0 = Wrap(0 + 0)
    BY WrapFacts, BoundsAssumption
  <2>5. TypeOK'
    BY <1>0, <2>1, <2>2, <2>3, BoundsAssumption DEF TypeInv, TypeOK, Garbage
  <2> QED BY <2>1, <2>2, <2>4, <2>5 DEF TypeInv
<1>14. CASE TableFailed \/ OpenFails \/ PwriteFails
  <2>1. /\ UNCHANGED << exists, file, sizes, header, ftell, block, at, done, short, build >>
        /\ UNCHANGED << built, search >>
    BY <1>14 DEF TableFailed, OpenFails, PwriteFails, writeVars
  <2>2. pc' = "off" /\ result' = "failed" /\ message' \in BOOLEAN
    BY <1>14 DEF TableFailed, OpenFails, PwriteFails, Fail
  <2> QED BY <1>0, <2>1, <2>2, TypesKept
<1>15. CASE Succeed \/ Die
  <2>1. /\ UNCHANGED << exists, file, sizes, header, ftell, block, at, done, short, build >>
        /\ UNCHANGED << built, search, message >>
    BY <1>15 DEF Succeed, Die, writeVars
  <2>2. pc' = "off" /\ result' \in {"ok", "dead"}
    BY <1>15 DEF Succeed, Die
  <2> QED BY <1>0, <2>1, <2>2, TypesKept
<1>16. CASE UNCHANGED vars
  <2>1. /\ UNCHANGED << exists, file, sizes, header, ftell, block, at, done, short, build >>
        /\ UNCHANGED << pc, built, result, message, search >>
    BY <1>16 DEF vars
  <2> QED BY <1>0, <2>1, TypesKept
<1> QED BY <1>1, <1>2, <1>3, <1>4, <1>6, <1>8, <1>9, <1>10, <1>11, <1>12, <1>13, <1>14, <1>15, <1>16
        DEF Next, BuildStep

\* The first state has the types.
LEMMA InitTypes ==
  ASSUME Init
  PROVE  TypeInv
<1>1. file = [o \in 0 .. 0 - 1 |-> file[o]] /\ DOMAIN file = 0 .. 0 - 1
  BY DEF Init
<1>2. IsFile /\ Size = 0
  BY <1>1, DomainSize DEF IsFile, Size
<1>3. header \in [Blocks -> [offset : Nat, length : Nat, raw : Nat]]
  BY DEF Init, NoEntries
<1>4. /\ sizes \in [1 .. MaxEvents -> [Blocks -> Nat]]
      /\ \A g \in 1 .. build : sizes[g] \in Profiles
  BY DEF Init
<1>8. search \in SearchRecords
  <2>1. [b \in Blocks |-> 0] \in [Blocks -> 0 .. Garbage] /\ 1 \in Blocks
    BY BoundsAssumption, LayoutLength DEF Garbage
  <2> QED BY <2>1 DEF Init, NoSearch, SearchRecords
<1>5. /\ search.pc = "idle" /\ search.block \in Blocks /\ search.quiet = FALSE
      /\ search.got \in [Blocks -> 0 .. Garbage] /\ search.capacity \in Nat
  BY LayoutLength, BoundsAssumption DEF Init, NoSearch, Garbage
<1>6. built \in [Tables -> {"running", "ready", "failed"}]
  BY DEF Init, NothingBuilt
<1>7. TypeOK
  <2>1. /\ exists = FALSE /\ pc = "off" /\ build = 0 /\ ftell = 0 /\ at = 0 /\ short = 0
        /\ block = Conf /\ result = "none" /\ message = FALSE
    BY DEF Init
  <2>2. 0 \in 0 .. MaxEvents /\ 0 \in 0 .. OffsetLimit - 1 /\ Conf \in Blocks
    BY LayoutLength, BoundsAssumption
  <2>3. DOMAIN header = Blocks
    BY <1>3
  <2>4. ~Writing
    BY <2>1 DEF Writing
  <2>5. DOMAIN file = 0 .. Size - 1 /\ \A o \in DOMAIN file : FALSE
    BY <1>1, <1>2
  <2>6. search.pc \in {"idle", "header", "blocks", "served", "unopened", "refused", "killed"}
    BY <1>5
  <2> QED BY <1>4, <1>5, <1>6, <2>1, <2>2, <2>3, <2>4, <2>5, <2>6 DEF TypeOK
<1> QED BY <1>2, <1>3, <1>4, <1>7, <1>8 DEF Init, TypeInv, Writing

\* Every variable has its type, in every state of every build and search: the
\* file never has a hole, no write goes past the end of its buffer.
THEOREM TypeInvariant == Spec => []TypeInv
<1>1. Init => TypeInv
  BY InitTypes
<1>2. TypeInv /\ [Next]_vars => TypeInv'
  BY TypeStep
<1> QED BY <1>1, <1>2, PTL DEF Spec

\* The types that the runs check.
THEOREM TypeCorrect == Spec => []TypeOK
<1>1. TypeInv => TypeOK
  BY DEF TypeInv
<1> QED BY <1>1, TypeInvariant, PTL

-----------------------------------------------------------------------------
(* One write *)

\* n more bytes of block b, d of which are written, take the file from f to f2.
BlockWrite(s, g, b, d, n, e, f, f2) ==
  /\ d + n <= s[b] /\ e = Ends(s)[b - 1] + d
  /\ f2 = [ o \in DOMAIN f \union e .. e + n - 1 |->
              IF o \in e .. e + n - 1 THEN Cell(g, b, d + o - e) ELSE f[o] ]

\* A piece of block b goes where the block lies, behind all that is there.
LEMMA BlockWrites ==
  ASSUME NEW s \in Profiles, NEW g, NEW b \in Blocks, NEW d \in Nat, NEW n \in Nat \ {0},
         NEW e, NEW f, Image(f, s, g, 0, e), NEW f2, BlockWrite(s, g, b, d, n, e, f, f2)
  PROVE  Image(f2, s, g, 0, e + n)
<1> d + n <= s[b] /\ e = Ends(s)[b - 1] + d
    /\ f2 = [ o \in DOMAIN f \union e .. e + n - 1 |->
                 IF o \in e .. e + n - 1 THEN Cell(g, b, d + o - e) ELSE f[o] ]
  BY Zenon DEF BlockWrite
<1>0. PICK m : m = e + n
  OBVIOUS
<1> SUFFICES Image(f2, s, g, 0, m)
  BY <1>0
<1> DEFINE E == Ends(s)
<1>1. /\ s \in [Blocks -> Nat] /\ E \in [0 .. 11 -> Nat] /\ E[0] = 33
      /\ \A c \in Blocks : E[c] = E[c - 1] + s[c] /\ c - 1 \in 0 .. 11 /\ c \in 0 .. 11
      /\ Len(Layout) = 11
  BY ProfileFacts, EndsStep, LayoutLength
<1>2. \A p \in 0 .. 11, q \in 0 .. 11 : p <= q => E[p] <= E[q]
  BY <1>1, EndsAscend
<1>3. e \in Nat /\ e >= 33 /\ e + n <= E[b] /\ E[b - 1] <= e
  <2>1. E[b - 1] >= E[0]
    BY <1>1, <1>2
  <2> QED BY <1>1, <2>1
<1>4. DOMAIN f = 0 .. e - 1
  BY DEF Image
<1>5. DOMAIN f2 = 0 .. m - 1
  <2>1. 0 .. e - 1 \union e .. e + n - 1 = 0 .. m - 1
    BY <1>0, <1>3
  <2> QED BY <1>4, <2>1
<1>6. \A o \in 0 .. e - 1 : f2[o] = f[o]
  BY <1>3, <1>4
<1>7. \A o \in e .. e + n - 1 : f2[o] = Cell(g, b, d + o - e)
  BY <1>3, <1>4
<1>8. ASSUME NEW w \in 0 .. HeaderSize - 1
      PROVE  f2[w] = Cell(g, 0, HeaderWord(IF w < 0 THEN FullHeader(s) ELSE NoEntries, w))
  <2>1. w \in 0 .. e - 1 /\ w < e
    BY <1>3, LayoutLength
  <2>2. f[w] = Cell(g, 0, HeaderWord(IF w < 0 THEN FullHeader(s) ELSE NoEntries, w))
    BY <2>1 DEF Image
  <2> QED BY <1>6, <2>1, <2>2
<1>9. ASSUME NEW c \in Blocks, NEW i \in 0 .. s[c] - 1, E[c - 1] + i < m
      PROVE  f2[E[c - 1] + i] = Cell(g, c, i)
  <2> DEFINE o == E[c - 1] + i
  <2>1. o \in Nat /\ i \in Nat /\ i < s[c] /\ E[c - 1] \in Nat /\ s[c] \in Nat
    BY <1>1
  <2>2. CASE o < e
    <3>1. f[o] = Cell(g, c, i)
      BY <2>2 DEF Image
    <3>2. o \in 0 .. e - 1
      BY <1>3, <2>1, <2>2
    <3> HIDE DEF o, E
    <3>3. f2[o] = f[o]
      BY <1>6, <3>2
    <3> QED BY <3>1, <3>3 DEF o
  <2>3. CASE o >= e
    <3>1. o < E[b] /\ o < E[c] /\ o >= E[c - 1] /\ o >= E[b - 1]
      BY <1>0, <1>1, <1>3, <1>9, <2>1, <2>3
    <3>2. ~(c <= b - 1) /\ ~(b <= c - 1)
      <4>1. c <= b - 1 => E[c] <= E[b - 1]
        BY <1>1, <1>2
      <4>2. b <= c - 1 => E[b] <= E[c - 1]
        BY <1>1, <1>2
      <4>3. E[b] \in Nat /\ E[c] \in Nat /\ E[b - 1] \in Nat /\ E[c - 1] \in Nat /\ o \in Nat
        BY <1>1, <2>1
      <4> HIDE DEF E, o
      <4> QED BY <3>1, <4>1, <4>2, <4>3
    <3>3. c = b
      BY <3>2, LayoutLength
    <3>4. o \in e .. e + n - 1 /\ d + o - e = i
      BY <1>0, <1>1, <1>3, <1>9, <2>1, <2>3, <3>3
    <3> QED BY <1>7, <3>3, <3>4
  <2> QED BY <1>3, <2>1, <2>2, <2>3
<1>10. m <= E[11]
  <2>1. E[b] <= E[11]
    BY <1>1, <1>2
  <2> QED BY <1>0, <1>1, <1>3, <2>1
<1>11. ~(0 > 0) /\ Len(Layout) = 11
  BY <1>1
<1> HIDE DEF E
<1> QED BY <1>5, <1>8, <1>9, <1>10, <1>11, Zenon DEF Image, E

\* A piece of the first header goes behind the words that are there.
LEMMA StubWrites ==
  ASSUME NEW s \in Profiles, NEW g, NEW d \in Nat, NEW n \in Nat \ {0}, d + n <= 33,
         NEW f, Image(f, s, g, 0, d), NEW f2,
         f2 = [ o \in DOMAIN f \union d .. d + n - 1 |->
                  IF o \in d .. d + n - 1 THEN Cell(g, 0, HeaderWord(NoEntries, o)) ELSE f[o] ]
  PROVE  Image(f2, s, g, 0, d + n)
<1>0. PICK m : m = d + n
  OBVIOUS
<1> SUFFICES Image(f2, s, g, 0, m)
  BY <1>0
<1> DEFINE E == Ends(s)
<1>1. /\ s \in [Blocks -> Nat] /\ E \in [0 .. 11 -> Nat] /\ E[0] = 33
      /\ \A c \in Blocks : c - 1 \in 0 .. 11
      /\ Len(Layout) = 11
  BY ProfileFacts, EndsStep, LayoutLength
<1>2. \A p \in 0 .. 11 : 33 <= E[p]
  BY <1>1, EndsAscend
<1>3. DOMAIN f = 0 .. d - 1
  BY DEF Image
<1>4. DOMAIN f2 = 0 .. m - 1
  <2>1. 0 .. d - 1 \union d .. d + n - 1 = 0 .. m - 1
    BY <1>0
  <2> QED BY <1>3, <2>1
<1>5. ASSUME NEW w \in 0 .. HeaderSize - 1, w < m
      PROVE  f2[w] = Cell(g, 0, HeaderWord(IF w < 0 THEN FullHeader(s) ELSE NoEntries, w))
  <2>1. ~(w < 0) /\ w \in Nat
    BY LayoutLength
  <2>2. CASE w < d
    <3>1. f[w] = Cell(g, 0, HeaderWord(NoEntries, w))
      BY <2>1, <2>2 DEF Image
    <3> QED BY <1>3, <2>1, <2>2, <3>1
  <2>3. CASE w >= d
    BY <1>0, <1>5, <2>1, <2>3
  <2> QED BY <2>1, <2>2, <2>3
<1>6. ASSUME NEW c \in Blocks, NEW i \in 0 .. s[c] - 1, E[c - 1] + i < m
      PROVE  FALSE
  <2>1. E[c - 1] >= 33 /\ E[c - 1] \in Nat /\ s[c] \in Nat /\ i \in Nat
    BY <1>1, <1>2
  <2> QED BY <1>0, <1>6, <2>1
<1>7. m <= E[11]
  <2>1. E[11] >= 33 /\ E[11] \in Nat
    BY <1>1, <1>2
  <2> QED BY <1>0, <2>1
<1>8. ~(0 > 0) /\ Len(Layout) = 11
  BY <1>1
<1> QED BY <1>4, <1>5, <1>6, <1>7, <1>8, Zenon DEF Image

\* A piece of the last header replaces words of the first one.
LEMMA FinalWrites ==
  ASSUME NEW s \in Profiles, NEW g, NEW d \in Nat, NEW n \in Nat \ {0}, d + n <= 33,
         NEW f, Image(f, s, g, d, Ends(s)[11]), NEW f2,
         f2 = [ o \in DOMAIN f \union d .. d + n - 1 |->
                  IF o \in d .. d + n - 1 THEN Cell(g, 0, HeaderWord(FullHeader(s), o)) ELSE f[o] ]
  PROVE  Image(f2, s, g, d + n, Ends(s)[11])
<1> DEFINE E == Ends(s)
<1>1. /\ s \in [Blocks -> Nat] /\ E \in [0 .. 11 -> Nat] /\ E[0] = 33
      /\ \A c \in Blocks : c - 1 \in 0 .. 11
      /\ Len(Layout) = 11
  BY ProfileFacts, EndsStep, LayoutLength
<1>2. \A p \in 0 .. 11 : 33 <= E[p]
  BY <1>1, EndsAscend
<1>3. DOMAIN f = 0 .. E[11] - 1 /\ E[11] \in Nat /\ E[11] >= 33
  BY <1>1, <1>2 DEF Image
<1>4. DOMAIN f2 = 0 .. E[11] - 1
  <2>1. 0 .. E[11] - 1 \union d .. d + n - 1 = 0 .. E[11] - 1
    BY <1>3
  <2> QED BY <1>3, <2>1
<1>5. ASSUME NEW w \in 0 .. HeaderSize - 1
      PROVE  f2[w] = Cell(g, 0, HeaderWord(IF w < d + n THEN FullHeader(s) ELSE NoEntries, w))
  <2>1. w \in Nat /\ w < E[11] /\ w \in DOMAIN f
    BY <1>3, LayoutLength
  <2>2. f[w] = Cell(g, 0, HeaderWord(IF w < d THEN FullHeader(s) ELSE NoEntries, w))
    BY <1>1, <2>1 DEF Image
  <2>3. CASE w \in d .. d + n - 1
    BY <2>1, <2>3
  <2>4. CASE w \notin d .. d + n - 1
    BY <2>1, <2>2, <2>4
  <2> QED BY <2>3, <2>4
<1>6. ASSUME NEW c \in Blocks, NEW i \in 0 .. s[c] - 1, E[c - 1] + i < E[11]
      PROVE  f2[E[c - 1] + i] = Cell(g, c, i)
  <2>1. E[c - 1] >= 33 /\ E[c - 1] \in Nat /\ s[c] \in Nat /\ i \in Nat
    BY <1>1, <1>2
  <2>2. f[E[c - 1] + i] = Cell(g, c, i)
    BY <1>1, <1>6 DEF Image
  <2>3. E[c - 1] + i \in DOMAIN f /\ E[c - 1] + i \notin d .. d + n - 1
    BY <1>3, <1>6, <2>1
  <2> QED BY <2>2, <2>3
<1> QED BY <1>1, <1>3, <1>4, <1>5, <1>6 DEF Image

-----------------------------------------------------------------------------
(* What is in the file *)

\* The header db_hdr grows by one entry with each block; the dictionary that
\* is not written leaves no trace in it.
LEMMA HeaderGrows ==
  ASSUME NEW s \in Profiles
  PROVE  /\ HeaderUpTo(s, 0) = NoEntries
         /\ \A b \in Blocks : s[b] > 0 =>
              [HeaderUpTo(s, b - 1) EXCEPT
                 ![b] = [offset |-> Ends(s)[b - 1], length |-> s[b], raw |-> s[b]]] = HeaderUpTo(s, b)
         /\ s[Dict] = 0 => HeaderUpTo(s, Dict) = HeaderUpTo(s, Conf)
<1>0. s \in [Blocks -> Nat]
  BY ProfileFacts
<1>1. HeaderUpTo(s, 0) = NoEntries
  BY <1>0, LayoutLength DEF HeaderUpTo, NoEntries
<1>2. ASSUME NEW b \in Blocks, s[b] > 0
      PROVE  [HeaderUpTo(s, b - 1) EXCEPT
                 ![b] = [offset |-> Ends(s)[b - 1], length |-> s[b], raw |-> s[b]]] = HeaderUpTo(s, b)
  <2> DEFINE e == [offset |-> Ends(s)[b - 1], length |-> s[b], raw |-> s[b]]
             h == [HeaderUpTo(s, b - 1) EXCEPT ![b] = e]
             f == HeaderUpTo(s, b)
  <2>1. h = [c \in Blocks |-> h[c]] /\ f = [c \in Blocks |-> f[c]]
    BY DEF HeaderUpTo
  <2>2. ASSUME NEW c \in Blocks PROVE h[c] = f[c]
    <3>1. CASE c = b
      BY <1>2, <3>1, LayoutLength DEF HeaderUpTo
    <3>2. CASE c # b
      <4>1. c <= b - 1 <=> c <= b
        BY <3>2, LayoutLength
      <4> QED BY <3>2, <4>1 DEF HeaderUpTo
    <3> QED BY <3>1, <3>2
  <2> HIDE DEF h, f
  <2> QED BY <2>1, <2>2 DEF h, f
<1>3. ASSUME s[Dict] = 0 PROVE HeaderUpTo(s, Dict) = HeaderUpTo(s, Conf)
  <2>1. \A c \in Blocks : (c <= Dict /\ s[c] > 0) <=> (c <= Conf /\ s[c] > 0)
    BY <1>3, LayoutLength
  <2> QED BY <2>1 DEF HeaderUpTo
<1> QED BY <1>1, <1>2, <1>3

\* An image of nothing is an empty file.
LEMMA EmptyImage ==
  ASSUME NEW s \in Profiles, NEW g, NEW f, DOMAIN f = {}
  PROVE  Image(f, s, g, 0, 0)
<1> DEFINE E == Ends(s)
<1>1. /\ s \in [Blocks -> Nat] /\ E \in [0 .. 11 -> Nat] /\ E[0] = 33
      /\ \A c \in Blocks : c - 1 \in 0 .. 11
      /\ Len(Layout) = 11
  BY ProfileFacts, EndsStep, LayoutLength
<1>2. DOMAIN f = 0 .. 0 - 1
  OBVIOUS
<1>3. ASSUME NEW w \in 0 .. HeaderSize - 1, w < 0 PROVE FALSE
  BY <1>3
<1>4. ASSUME NEW c \in Blocks, NEW i \in 0 .. s[c] - 1, E[c - 1] + i < 0 PROVE FALSE
  <2>1. s[c] \in Nat /\ c - 1 \in 0 .. 11
    BY <1>1
  <2>2. i \in Nat
    BY <2>1
  <2> HIDE DEF E
  <2>3. E[c - 1] \in Nat
    BY <1>1, <2>1
  <2> QED BY <1>4, <2>2, <2>3
<1>5. 0 <= E[Len(Layout)] /\ ~(0 > 0)
  BY <1>1
<1> QED BY <1>2, <1>3, <1>4, <1>5, Zenon DEF Image

\* No step makes an earlier build fit that did not.
LEMMA FitStays ==
  ASSUME TypeInv, [Next]_vars, AllFit'
  PROVE  /\ AllFit /\ build' \in Nat
         /\ \A g \in 1 .. build : g \in 1 .. build' /\ sizes'[g] = sizes[g]
<1>1. \A g \in 1 .. build : g \in 1 .. build' /\ sizes'[g] = sizes[g]
  <2>1. CASE Construct
    <3>1. PICK s \in Profiles : sizes' = [sizes EXCEPT ![build + 1] = s]
      BY <2>1 DEF Construct
    <3>2. build' = build + 1 /\ build \in Nat
      BY <2>1 DEF Construct, TypeInv, TypeOK
    <3>3. \A g \in 1 .. build : sizes'[g] = sizes[g]
      BY <3>1, <3>2, Z3 DEF TypeInv
    <3> QED BY <3>2, <3>3
  <2>2. CASE ~Construct
    <3>1. build' = build /\ sizes' = sizes
      BY <2>2 DEF Next, vars, BuildStep, OpenFails, PwriteFails, Die, SearchStep, OpenDatabase, Pwrite,
                  StubDone, ConfDone, DictDone, BuildTable, TablesReady, TableFailed, CommitNext,
                  CommitHeader, Succeed
    <3> QED BY <3>1
  <2> QED BY <2>1, <2>2
<1>2. ASSUME NEW g \in 1 .. build PROVE Fits(g)
  <2>1. Fits(g)'
    BY <1>1 DEF AllFit
  <2> QED BY <1>1, <2>1 DEF Fits
<1>3. build' \in Nat
  <2>1. build' \in 0 .. MaxEvents
    BY TypeStep DEF TypeInv, TypeOK
  <2> QED BY <2>1
<1> QED BY <1>1, <1>2, <1>3 DEF AllFit

\* Steps that write nothing, and that leave the build where it is or end it
\* without success, keep what is known of the file.
LEMMA FileKept ==
  ASSUME FileInv, AllFit' => AllFit,
         UNCHANGED << file, build, sizes, header, ftell, block, done >>,
         pc' \in {"off", pc}, result' = result \/ result' # "ok"
  PROVE  FileInv'
<1> SUFFICES ASSUME AllFit' PROVE IsSomeImage' /\ Progress'
  BY DEF FileInv
<1>1. IsSomeImage /\ Progress
  BY DEF FileInv
<1>2. IsSomeImage'
  BY <1>1 DEF IsSomeImage, IsImage
<1>3. Progress'
  BY <1>1 DEF Progress, IsImage
<1> QED BY <1>2, <1>3

\* A block is started behind all that is in the file.
LEMMA StartBlockFile ==
  ASSUME TypeInv, FileInv, AllFit' => AllFit, build > 0, result # "ok",
         NEW b \in Blocks, NEW o,
         AllFit => /\ sizes[build][b] > 0 /\ o = Ends(sizes[build])[b - 1]
                   /\ header = HeaderUpTo(sizes[build], b - 1) /\ IsImage(build, 0, o),
         StartBlock(b, o), UNCHANGED << file, build, sizes, result >>
  PROVE  FileInv'
<1> SUFFICES ASSUME AllFit' PROVE IsSomeImage' /\ Progress'
  BY DEF FileInv
<1>1. IsSomeImage
  BY DEF FileInv
<1>2. IsSomeImage'
  BY <1>1 DEF IsSomeImage, IsImage
<1>3. /\ pc' = "block" /\ block' = b /\ ftell' = o /\ done' = 0
      /\ header' = [header EXCEPT ![b] = [offset |-> o, length |-> sizes[build][b],
                                          raw |-> sizes[build][b]]]
  BY DEF StartBlock
<1>4. header' = HeaderUpTo(sizes[build], b)
  BY <1>3, SizesOfBuild, HeaderGrows
<1>5. o + 0 = o /\ o \in Nat
  <2>1. o = Ends(sizes[build])[b - 1] /\ sizes[build] \in [Blocks -> Nat] /\ b - 1 \in 0 .. 11
    BY SizesOfBuild, LayoutLength
  <2> QED BY <2>1, EndsStep
<1>6. IsImage(build, 0, o + 0)
  BY <1>5
<1>7. Progress'
  BY <1>3, <1>4, <1>5, <1>6 DEF Progress, IsImage
<1> QED BY <1>2, <1>7

\* Where a step of the write goes: no offset has wrapped.
LEMMA WriteOffset ==
  ASSUME TypeInv, FileInv, AllFit, Writing, done < BufferSize
  PROVE  /\ at = ftell + done /\ ftell \in Nat
         /\ pc # "block" => ftell = 0 /\ BufferSize = 33
         /\ pc = "block" => DOMAIN file = 0 .. at - 1
<1> DEFINE s == sizes[build]
           E == Ends(s)
<1>1. Progress
  BY DEF FileInv
<1>2. build > 0 /\ build \in 1 .. build
  BY DEF TypeInv, TypeOK, Writing
<1>3. s \in Profiles /\ s \in [Blocks -> Nat]
  BY <1>2, SizesOfBuild
<1>4. E[11] <= OffsetLimit
  BY <1>2, LayoutLength DEF AllFit, Fits
<1>5. /\ E \in [0 .. 11 -> Nat] /\ E[0] = 33 /\ \A b \in Blocks : E[b] = E[b - 1] + s[b]
      /\ \A b \in 0 .. 11 : 0 <= b /\ E[0] <= E[b] /\ E[b] <= E[11]
  BY <1>3, EndsStep, EndsAscend, LayoutLength
<1>6. BufferSize \in Nat /\ done \in Nat
  <2>1. done \in 0 .. BufferSize
    BY DEF TypeInv, TypeOK
  <2> QED BY <2>1, BufferIsNat
<1>7. ftell \in Nat /\ at = Wrap(ftell + done)
  BY DEF TypeInv, TypeOK
<1>8. CASE pc # "block"
  <2>1. ftell = 0 /\ BufferSize = 33
    BY <1>8, BufferIsNat DEF TypeInv, Writing
  <2>2. E[11] \in Nat /\ 33 <= E[11]
    BY <1>5
  <2>3. ftell + done < OffsetLimit
    BY <1>4, <1>6, <2>1, <2>2, BoundsAssumption
  <2> QED BY <1>6, <1>7, <1>8, <2>1, <2>3, WrapFacts
<1>9. CASE pc = "block"
  <2>1. /\ block \in Blocks /\ ftell = E[block - 1] /\ BufferSize = s[block]
        /\ Image(file, s, build, 0, ftell + done)
    BY <1>1, <1>9, BufferIsNat DEF Progress, IsImage, TypeInv, TypeOK
  <2>2. ftell + done < E[block] /\ E[block] <= E[11] /\ E[11] \in Nat /\ E[block] \in Nat
    <3>1. block \in 0 .. 11 /\ E[block] = E[block - 1] + s[block]
      BY <1>5, <2>1, LayoutLength
    <3>2. E[block] \in Nat /\ E[11] \in Nat /\ E[block] <= E[11]
      BY <1>5, <3>1
    <3>3. s[block] \in Nat
      BY <1>3, <2>1
    <3> QED BY <1>6, <1>7, <2>1, <3>1, <3>2, <3>3
  <2>3. ftell + done < OffsetLimit
    BY <1>4, <1>6, <1>7, <2>2, BoundsAssumption
  <2>4. at = ftell + done
    BY <1>6, <1>7, <2>3, WrapFacts
  <2> QED BY <1>7, <1>9, <2>1, <2>4 DEF Image
<1> QED BY <1>8, <1>9

\* A step of the write goes where the image of the build ends, or into the
\* header that is written last: no offset wraps before that.
LEMMA PwriteFile ==
  ASSUME TypeInv, FileInv, Pwrite, AllFit' => AllFit
  PROVE  FileInv'
<1> SUFFICES ASSUME AllFit' PROVE IsSomeImage' /\ Progress'
  BY DEF FileInv
<1>1. AllFit /\ IsSomeImage /\ Progress
  BY DEF FileInv
<1>2. Writing /\ UNCHANGED << exists, pc, build, sizes, header, ftell, block, built, result, message, search >>
  BY DEF Pwrite
<1>3. PICK n \in 1..(BufferSize - done) :
        /\ file' = [ o \in DOMAIN file \union at..(at + n - 1) |->
                       IF o \in at..(at + n - 1) THEN BufferCell(done + o - at) ELSE file[o] ]
        /\ done' = done + n
  BY DEF Pwrite
<1> DEFINE s == sizes[build]
           E == Ends(s)
<1>4. /\ build > 0 /\ build \in 1 .. build /\ s \in Profiles /\ s \in [Blocks -> Nat]
      /\ E \in [0 .. 11 -> Nat] /\ E[0] = 33 /\ E[11] <= OffsetLimit
      /\ \A b \in Blocks : E[b] = E[b - 1] + s[b] /\ b - 1 \in 0 .. 11
      /\ Len(Layout) = 11 /\ E[11] > 0
  <2>1. build > 0 /\ build \in 1 .. build
    BY <1>2 DEF TypeInv, TypeOK, Writing
  <2>2. s \in Profiles /\ s \in [Blocks -> Nat]
    BY <2>1, SizesOfBuild
  <2>3. Fits(build)
    BY <1>1, <2>1 DEF AllFit
  <2>4. E \in [0 .. 11 -> Nat] /\ E[0] = 33 /\ \A b \in Blocks : E[b] = E[b - 1] + s[b]
    BY <2>2, EndsStep, LayoutLength
  <2>5. E[0] < E[11]
    BY <2>2, ProfileFacts
  <2> QED BY <2>1, <2>2, <2>3, <2>4, <2>5, LayoutLength DEF Fits
<1>5. BufferSize \in Nat /\ done \in Nat /\ n \in Nat \ {0} /\ done + n <= BufferSize
  <2>1. done \in 0 .. BufferSize
    BY <1>2 DEF TypeInv, TypeOK
  <2> QED BY <1>3, <2>1, BufferIsNat
<1>6. ftell \in Nat
  BY <1>2 DEF TypeInv, TypeOK
<1>7. at = ftell + done
  <2>1. done < BufferSize
    BY <1>5
  <2> QED BY <1>1, <1>2, <2>1, WriteOffset
<1>8. ASSUME NEW k \in 0 .. HeaderSize, NEW m \in Nat \ {0}, Image(file', s, build, k, m)
      PROVE  IsSomeImage'
  BY <1>2, <1>4, <1>8 DEF IsSomeImage, IsImage
<1>9. CASE pc = "stub"
  <2>1. ftell = 0 /\ BufferSize = 33 /\ header = NoEntries /\ Image(file, s, build, 0, done)
    BY <1>1, <1>9, BufferIsNat DEF Progress, IsImage, TypeInv
  <2>2. at = done
    BY <1>5, <1>7, <2>1
  <2>3. \A o \in at..(at + n - 1) : BufferCell(done + o - at) = Cell(build, 0, HeaderWord(NoEntries, o))
    BY <1>5, <1>9, <2>2 DEF BufferCell, HeaderCell
  <2>4. file' = [ o \in DOMAIN file \union done .. done + n - 1 |->
                    IF o \in done .. done + n - 1 THEN Cell(build, 0, HeaderWord(NoEntries, o)) ELSE file[o] ]
    BY <1>3, <2>2, <2>3, Zenon
  <2>5. Image(file', s, build, 0, done + n)
    BY <1>4, <1>5, <2>1, <2>4, StubWrites
  <2>6. IsSomeImage'
    BY <1>5, <1>8, <2>5, LayoutLength
  <2> QED BY <1>1, <1>2, <1>3, <1>9, <2>1, <2>5, <2>6 DEF Progress, IsImage
<1>10. CASE pc = "block"
  <2> DEFINE b == block
             e == ftell + done
  <2>1. /\ b \in Blocks /\ ftell = E[b - 1] /\ BufferSize = s[b] /\ s[b] > 0
        /\ header = HeaderUpTo(s, b) /\ Image(file, s, build, 0, e)
    BY <1>1, <1>10, BufferIsNat DEF Progress, IsImage, TypeInv, TypeOK
  <2>2. at = e
    BY <1>7
  <2>3. \A i : BufferCell(i) = Cell(build, b, i)
    BY <1>10 DEF BufferCell
  <2>4. file' = [ o \in DOMAIN file \union e .. e + n - 1 |->
                    IF o \in e .. e + n - 1 THEN Cell(build, b, done + o - e) ELSE file[o] ]
    BY <1>3, <2>2, <2>3, Zenon
  <2>5. Image(file', s, build, 0, e + n)
    <3>1. done + n <= s[b] /\ e = E[b - 1] + done
      BY <1>5, <2>1
    <3>2. BlockWrite(s, build, b, done, n, e, file, file')
      BY <2>4, <3>1, Zenon DEF BlockWrite
    <3> HIDE DEF e, b, E, s
    <3> QED BY <1>4, <1>5, <2>1, <3>2, BlockWrites
  <2>6. e + n = ftell + done' /\ e + n \in Nat \ {0}
    BY <1>3, <1>5, <1>6
  <2>7. IsSomeImage'
    BY <1>8, <2>5, <2>6, LayoutLength
  <2> HIDE DEF e
  <2> QED BY <1>1, <1>2, <1>10, <2>1, <2>5, <2>6, <2>7 DEF Progress, IsImage
<1>11. CASE pc = "final"
  <2>1. /\ ftell = 0 /\ BufferSize = 33 /\ header = FullHeader(s)
        /\ Image(file, s, build, done, E[11])
    BY <1>1, <1>4, <1>11, BufferIsNat DEF Progress, IsImage, TypeInv
  <2>2. at = done
    BY <1>5, <1>7, <2>1
  <2>3. \A o \in at..(at + n - 1) : BufferCell(done + o - at) = Cell(build, 0, HeaderWord(FullHeader(s), o))
    BY <1>5, <1>11, <2>1, <2>2 DEF BufferCell, HeaderCell
  <2>4. file' = [ o \in DOMAIN file \union done .. done + n - 1 |->
                    IF o \in done .. done + n - 1 THEN Cell(build, 0, HeaderWord(FullHeader(s), o)) ELSE file[o] ]
    BY <1>3, <2>2, <2>3, Zenon
  <2>5. Image(file', s, build, done + n, E[11])
    BY <1>4, <1>5, <2>1, <2>4, FinalWrites
  <2>6. IsSomeImage'
    BY <1>4, <1>5, <1>8, <2>1, <2>5, LayoutLength
  <2> QED BY <1>1, <1>2, <1>3, <1>4, <1>11, <2>1, <2>5, <2>6 DEF Progress, IsImage
<1> QED BY <1>2, <1>9, <1>10, <1>11 DEF Writing

\* Every step keeps what is known of the file.
LEMMA FileStep ==
  ASSUME TypeInv, FileInv, [Next]_vars
  PROVE  FileInv'
<1>1. AllFit' => AllFit
  BY FitStays
<1> DEFINE s == sizes[build]
           E == Ends(s)
<1>2. CASE Construct
  <2> SUFFICES ASSUME AllFit' PROVE IsSomeImage' /\ Progress'
    BY DEF FileInv
  <2>1. IsSomeImage
    BY <1>1 DEF FileInv
  <2>2. /\ Truncate \/ UNCHANGED fileVars
        /\ pc' = "parse" /\ result' = "none"
    BY <1>2 DEF Construct
  <2>3. \A g \in 1 .. build : g \in 1 .. build' /\ sizes'[g] = sizes[g]
    BY FitStays
  <2>4. IsSomeImage'
    <3>1. CASE file' = << >>
      BY <3>1 DEF IsSomeImage
    <3>2. CASE file' = file /\ file # << >>
      BY <2>1, <2>3, <3>2 DEF IsSomeImage, IsImage
    <3> QED BY <2>2, <3>1, <3>2 DEF Truncate, fileVars
  <2> QED BY <2>2, <2>4 DEF Progress
<1>3. CASE OpenDatabase
  <2> SUFFICES ASSUME AllFit' PROVE IsSomeImage' /\ Progress'
    BY DEF FileInv
  <2>1. /\ pc = "parse" /\ pc' = "stub" /\ file' = << >> /\ header' = NoEntries /\ done' = 0
        /\ build' = build /\ sizes' = sizes /\ result' = result
    BY <1>3 DEF OpenDatabase, Truncate
  <2>2. result # "ok"
    BY <1>1, <2>1 DEF FileInv, Progress
  <2>3. s \in Profiles
    BY <2>1, SizesOfBuild DEF TypeInv
  <2>4. Image(file', s, build, 0, 0)
    <3>1. DOMAIN file' = {}
      BY <2>1
    <3> QED BY <2>3, <3>1, EmptyImage
  <2>5. IsSomeImage'
    BY <2>1 DEF IsSomeImage
  <2> QED BY <2>1, <2>2, <2>4, <2>5 DEF Progress, IsImage
<1>4. CASE Pwrite
  BY <1>1, <1>4, PwriteFile
<1>5. ASSUME pc \in {"stub", "block", "tables"}
      PROVE  /\ build > 0 /\ s \in Profiles /\ s \in [Blocks -> Nat]
             /\ E \in [0 .. 11 -> Nat] /\ E[0] = 33
             /\ \A b \in Blocks : E[b] = E[b - 1] + s[b]
             /\ \A b \in Blocks \ {Dict} : s[b] > 0
             /\ AllFit => /\ result # "ok" /\ Progress
                          /\ \A b \in 0 .. 10 : Wrap(E[b]) = E[b]
  <2>1. build > 0
    BY <1>5 DEF TypeInv
  <2>2. s \in Profiles /\ s \in [Blocks -> Nat]
    BY <2>1, SizesOfBuild
  <2>3. E \in [0 .. 11 -> Nat] /\ E[0] = 33 /\ \A b \in Blocks : E[b] = E[b - 1] + s[b]
    BY <2>2, EndsStep, LayoutLength
  <2>4. ASSUME AllFit PROVE result # "ok" /\ Progress
    BY <1>5, <2>4 DEF FileInv, Progress
  <2>5. ASSUME AllFit, NEW b \in 0 .. 10 PROVE Wrap(E[b]) = E[b]
    <3>1. E[11] <= OffsetLimit
      <4>1. build \in 1 .. build
        BY <2>1 DEF TypeInv, TypeOK
      <4> QED BY <2>5, <4>1, LayoutLength DEF AllFit, Fits
    <3>2. E[b] < E[11]
      BY <2>2, ProfileFacts
    <3>3. E[b] \in Nat /\ E[11] \in Nat
      BY <2>3
    <3>4. E[b] < OffsetLimit
      BY <3>1, <3>2, <3>3, BoundsAssumption
    <3> QED BY <3>3, <3>4, WrapFacts
  <2>6. \A b \in Blocks \ {Dict} : s[b] > 0
    BY <2>2, ProfileFacts
  <2> QED BY <2>1, <2>2, <2>3, <2>4, <2>5, <2>6
<1>6. CASE StubDone
  <2>1. /\ pc = "stub" /\ done = BufferSize /\ StartBlock(Conf, Wrap(ftell + BufferSize))
        /\ UNCHANGED << file, build, sizes, result >>
    BY <1>6 DEF StubDone, Written
  <2>2. BufferSize = 33 /\ ftell = 0
    BY <2>1, BufferIsNat DEF TypeInv
  <2>3. ASSUME AllFit
        PROVE  /\ s[Conf] > 0 /\ Wrap(ftell + BufferSize) = E[Conf - 1]
               /\ header = HeaderUpTo(s, Conf - 1) /\ IsImage(build, 0, Wrap(ftell + BufferSize))
    <3>1. header = NoEntries /\ IsImage(build, 0, done)
      BY <1>5, <2>1, <2>3 DEF Progress
    <3>2. Wrap(33) = 33 /\ 33 = E[0]
      BY <1>5, <2>1, <2>3
    <3>3. ftell + BufferSize = 33 /\ Conf - 1 = 0 /\ done = 33 /\ Conf \in Blocks \ {Dict}
      BY <2>1, <2>2, LayoutLength
    <3>4. HeaderUpTo(s, 0) = NoEntries /\ s[Conf] > 0
      BY <1>5, <2>1, <3>3, HeaderGrows
    <3> QED BY <3>1, <3>2, <3>3, <3>4
  <2>4. AllFit => result # "ok"
    BY <1>5, <2>1
  <2> QED BY <1>1, <1>5, <2>1, <2>3, <2>4, LayoutLength, StartBlockFile DEF FileInv
<1>7. ASSUME Written, pc = "block", AllFit
      PROVE  /\ s[block] > 0 /\ header = HeaderUpTo(s, block)
             /\ ftell + BufferSize = E[block] /\ IsImage(build, 0, E[block])
             /\ block < 11 => Wrap(ftell + BufferSize) = E[block]
  <2>1. /\ s[block] > 0 /\ header = HeaderUpTo(s, block) /\ ftell = E[block - 1]
        /\ IsImage(build, 0, ftell + done)
    BY <1>5, <1>7 DEF Progress
  <2>2. done = s[block] /\ BufferSize = s[block] /\ block \in Blocks
    BY <1>7, BufferIsNat DEF Written, TypeInv, TypeOK
  <2>3. ftell + done = E[block]
    BY <1>5, <1>7, <2>1, <2>2
  <2>4. block < 11 => block \in 0 .. 10
    BY <2>2, LayoutLength
  <2> QED BY <1>5, <1>7, <2>1, <2>2, <2>3, <2>4
<1>8. CASE ConfDone /\ s[Dict] > 0
  <2>1. /\ Written /\ pc = "block" /\ block = Conf /\ StartBlock(Dict, Wrap(ftell + BufferSize))
        /\ UNCHANGED << file, build, sizes, result >>
    BY <1>8 DEF ConfDone
  <2>2. Dict \in Blocks /\ Dict - 1 = Conf /\ Conf < 11
    BY LayoutLength
  <2>3. AllFit => result # "ok"
    BY <1>5, <2>1
  <2>4. CASE AllFit
    BY <1>1, <1>5, <1>7, <1>8, <2>1, <2>2, <2>3, <2>4, StartBlockFile
  <2>5. CASE ~AllFit
    BY <1>1, <2>5 DEF FileInv
  <2> QED BY <2>4, <2>5
<1>9. ASSUME pc = "block", Written, block < 11,
             pc' = "tables", ftell' = Wrap(ftell + BufferSize),
             AllFit => header = HeaderUpTo(s, Dict) /\ E[block] = E[Dict],
             UNCHANGED << header, file, build, sizes, result >>
      PROVE  FileInv'
  <2> SUFFICES ASSUME AllFit' PROVE IsSomeImage' /\ Progress'
    BY DEF FileInv
  <2>1. AllFit /\ IsSomeImage /\ result # "ok"
    BY <1>1, <1>5, <1>9 DEF FileInv
  <2>2. IsSomeImage'
    BY <1>9, <2>1 DEF IsSomeImage, IsImage
  <2>3. ftell' = E[Dict] /\ IsImage(build, 0, E[Dict]) /\ header = HeaderUpTo(s, Dict)
    BY <1>7, <1>9, <2>1
  <2> QED BY <1>9, <2>1, <2>2, <2>3 DEF Progress, IsImage
<1>10. CASE ConfDone /\ ~(s[Dict] > 0)
  <2>1. /\ Written /\ pc = "block" /\ block = Conf /\ pc' = "tables"
        /\ ftell' = Wrap(ftell + BufferSize) /\ UNCHANGED << header, file, build, sizes, result >>
    BY <1>10 DEF ConfDone
  <2>2. s[Dict] = 0 /\ E[Conf] = E[Dict] /\ Conf < 11
    <3>1. s[Dict] \in Nat /\ Dict \in Blocks /\ Dict - 1 = Conf
      BY <1>5, <2>1, LayoutLength
    <3>2. E[Dict] = E[Conf] + s[Dict] /\ E[Conf] \in Nat
      BY <1>5, <2>1, <3>1, LayoutLength
    <3> QED BY <1>10, <3>1, <3>2, LayoutLength
  <2>3. AllFit => header = HeaderUpTo(s, Dict)
    BY <1>5, <1>7, <2>1, <2>2, HeaderGrows
  <2> QED BY <1>9, <2>1, <2>2, <2>3
<1>11. CASE DictDone
  <2>1. /\ Written /\ pc = "block" /\ block = Dict /\ pc' = "tables"
        /\ ftell' = Wrap(ftell + BufferSize) /\ UNCHANGED << header, file, build, sizes, result >>
    BY <1>11 DEF DictDone
  <2>2. Dict < 11
    BY LayoutLength
  <2> QED BY <1>7, <1>9, <2>1, <2>2
<1>12. CASE TablesReady
  <2>1. /\ pc = "tables" /\ StartBlock(Dict + 1, ftell) /\ UNCHANGED << file, build, sizes, result >>
    BY <1>12 DEF TablesReady, Collected
  <2>2. Dict + 1 \in Blocks /\ Dict + 1 \in Blocks \ {Dict} /\ (Dict + 1) - 1 = Dict
    BY LayoutLength
  <2>3. CASE AllFit
    <3>1. header = HeaderUpTo(s, Dict) /\ ftell = E[Dict] /\ IsImage(build, 0, ftell)
      BY <1>5, <2>1, <2>3 DEF Progress
    <3> QED BY <1>1, <1>5, <2>1, <2>2, <2>3, <3>1, StartBlockFile
  <2>4. CASE ~AllFit
    BY <1>1, <2>4 DEF FileInv
  <2> QED BY <2>3, <2>4
<1>13. CASE CommitNext
  <2>1. /\ Written /\ pc = "block" /\ block > Dict /\ block + 1 \in Blocks
        /\ StartBlock(block + 1, Wrap(ftell + BufferSize)) /\ UNCHANGED << file, build, sizes, result >>
    BY <1>13 DEF CommitNext
  <2>2. block \in Blocks /\ block < 11 /\ (block + 1) - 1 = block /\ block + 1 \in Blocks \ {Dict}
    <3>1. block \in Blocks
      BY DEF TypeInv, TypeOK
    <3> QED BY <2>1, <3>1, LayoutLength
  <2>3. CASE AllFit
    BY <1>1, <1>5, <1>7, <2>1, <2>2, <2>3, StartBlockFile
  <2>4. CASE ~AllFit
    BY <1>1, <2>4 DEF FileInv
  <2> QED BY <2>3, <2>4
<1>14. CASE CommitHeader
  <2> SUFFICES ASSUME AllFit' PROVE IsSomeImage' /\ Progress'
    BY DEF FileInv
  <2>1. /\ Written /\ pc = "block" /\ block = Len(Layout) /\ pc' = "final" /\ done' = 0
        /\ UNCHANGED << header, file, build, sizes, result >>
    BY <1>14 DEF CommitHeader
  <2>2. AllFit /\ IsSomeImage /\ result # "ok"
    BY <1>1, <1>5, <2>1 DEF FileInv
  <2>3. IsSomeImage'
    BY <2>1, <2>2 DEF IsSomeImage, IsImage
  <2>4. header = FullHeader(s) /\ IsImage(build, 0, E[Len(Layout)])
    BY <1>7, <2>1, <2>2 DEF FullHeader
  <2> QED BY <2>1, <2>2, <2>3, <2>4 DEF Progress, IsImage
<1>15. CASE Succeed
  <2> SUFFICES ASSUME AllFit' PROVE IsSomeImage' /\ Progress'
    BY DEF FileInv
  <2>1. /\ Written /\ pc = "final" /\ pc' = "off" /\ result' = "ok"
        /\ UNCHANGED << file, build, sizes >>
    BY <1>15 DEF Succeed
  <2>2. AllFit /\ IsSomeImage /\ IsImage(build, done, E[Len(Layout)])
    BY <1>1, <2>1 DEF FileInv, Progress
  <2>3. IsSomeImage'
    BY <2>1, <2>2 DEF IsSomeImage, IsImage
  <2>4. done = HeaderSize /\ build > 0
    BY <2>1, LayoutLength, BufferIsNat DEF Written, TypeInv
  <2> QED BY <2>1, <2>2, <2>3, <2>4 DEF Progress, IsImage
<1>16. CASE TableFailed \/ OpenFails \/ PwriteFails \/ Die
  <2>1. /\ UNCHANGED << file, build, sizes, header, ftell, block, done >>
        /\ pc' = "off" /\ result' # "ok"
    BY <1>16 DEF TableFailed, OpenFails, PwriteFails, Die, Fail, writeVars
  <2> QED BY <1>1, <2>1, FileKept
<1>17. CASE SearchStep \/ (\E t \in Tables : BuildTable(t)) \/ UNCHANGED vars
  <2>1. UNCHANGED << file, build, sizes, header, ftell, block, done, pc, result >>
    BY <1>17 DEF SearchStep, BuildTable, vars, writeVars
  <2> QED BY <1>1, <2>1, FileKept
<1> QED BY <1>2, <1>3, <1>4, <1>6, <1>8, <1>10, <1>11, <1>12, <1>13, <1>14, <1>15, <1>16, <1>17
        DEF Next, BuildStep, ConfDone

-----------------------------------------------------------------------------
(* What a reader finds *)

\* Numbers that a reader of an image meets.
LEMMA ImageSizes ==
  ASSUME TypeInv, NEW g \in 1 .. build
  PROVE  LET s == sizes[g]
             E == Ends(s)
         IN  /\ s \in Profiles /\ s \in [Blocks -> Nat]
             /\ E \in [0 .. 11 -> Nat] /\ E[11] \in Nat /\ E[11] > 33
             /\ \A b \in Blocks : /\ E[b - 1] \in Nat /\ E[b - 1] >= 33 /\ E[b] = E[b - 1] + s[b]
                                  /\ E[b] <= E[11]
             /\ \A b \in Blocks \ {Dict} : s[b] > 0
<1> DEFINE s == sizes[g]
           E == Ends(s)
<1>1. s \in Profiles
  BY DEF TypeInv, TypeOK
<1>2. s \in [Blocks -> Nat] /\ E[0] < E[11] /\ \A b \in Blocks \ {Dict} : s[b] > 0
  BY <1>1, ProfileFacts
<1>3. E \in [0 .. 11 -> Nat] /\ E[0] = 33 /\ \A b \in Blocks : E[b] = E[b - 1] + s[b]
  BY <1>2, EndsStep, LayoutLength
<1>4. ASSUME NEW b \in Blocks PROVE E[b - 1] \in Nat /\ E[b - 1] >= 33 /\ E[b] <= E[11]
  <2>1. b - 1 \in 0 .. 11 /\ b \in 0 .. 11
    BY LayoutLength
  <2>2. E[0] <= E[b - 1] /\ E[b] <= E[11]
    BY <1>2, <2>1, EndsAscend
  <2> QED BY <1>3, <2>1, <2>2
<1>5. E[11] \in Nat
  BY <1>3
<1> QED BY <1>1, <1>2, <1>3, <1>4, <1>5

\* What the words of an image's header say.
LEMMA ImageWords ==
  ASSUME TypeInv, NEW g \in 1 .. build, NEW k \in 0 .. 33, NEW n \in Nat \ {0}, IsImage(g, k, n)
  PROVE  /\ file # << >> /\ 0 \in DOMAIN file /\ file[0].gen = g /\ Word(0) = 1
         /\ \A w \in 1 .. 32 :
              /\ w < k => /\ w \in DOMAIN file /\ file[w].gen = g
                          /\ Word(w) = HeaderWord(FullHeader(sizes[g]), w)
              /\ ~(w < k) => Word(w) \in {0, HeaderWord(NoEntries, w)}
<1> DEFINE s == sizes[g]
<1>1. Image(file, s, g, k, n) /\ HeaderSize = 33 /\ Len(Layout) = 11
  BY LayoutLength DEF IsImage
<1>2. DOMAIN file = 0 .. n - 1
  BY <1>1 DEF Image
<1>3. \A w \in 0 .. 32 :
        w < n => file[w] = Cell(g, 0, HeaderWord(IF w < k THEN FullHeader(s) ELSE NoEntries, w))
  <2>1. \A w \in 0 .. HeaderSize - 1 :
          w < n => file[w] = Cell(g, 0, HeaderWord(IF w < k THEN FullHeader(s) ELSE NoEntries, w))
    BY <1>1, Zenon DEF Image
  <2>2. HeaderSize - 1 = 32
    BY <1>1
  <2> QED BY <2>1, <2>2, Zenon
<1>4. k > 0 => n > 33
  <2>1. Ends(s)[11] > 33
    BY ImageSizes
  <2> QED BY <1>1, <2>1 DEF Image
<1>5. 0 \in DOMAIN file /\ file[0] = Cell(g, 0, 1)
  <2>1. 0 < n /\ 0 \in 0 .. 32
    OBVIOUS
  <2>2. file[0] = Cell(g, 0, HeaderWord(IF 0 < k THEN FullHeader(s) ELSE NoEntries, 0))
    BY <1>3, <2>1
  <2> DEFINE h == IF 0 < k THEN FullHeader(s) ELSE NoEntries
  <2>3. HeaderWord(h, 0) = 1
    BY HeaderWords
  <2> HIDE DEF h, s
  <2>4. file[0] = Cell(g, 0, HeaderWord(h, 0))
    BY <2>2 DEF h
  <2> QED BY <1>2, <2>1, <2>3, <2>4
<1>6. Word(0) = 1
  BY <1>5 DEF Word, Cell
<1>7. ASSUME NEW w \in 1 .. 32, w < k
      PROVE  w \in DOMAIN file /\ file[w].gen = g /\ Word(w) = HeaderWord(FullHeader(s), w)
  <2>1. w \in DOMAIN file /\ w < n /\ w \in 0 .. 32
    BY <1>2, <1>4, <1>7
  <2>2. file[w] = Cell(g, 0, HeaderWord(FullHeader(s), w))
    BY <1>3, <1>7, <2>1
  <2> QED BY <2>1, <2>2 DEF Word, Cell
<1>8. ASSUME NEW w \in 1 .. 32, ~(w < k)
      PROVE  Word(w) \in {0, HeaderWord(NoEntries, w)}
  <2>1. CASE w < n
    <3>1. file[w] = Cell(g, 0, HeaderWord(NoEntries, w))
      BY <1>3, <1>8, <2>1
    <3> QED BY <3>1 DEF Word, Cell
  <2>2. CASE ~(w < n)
    BY <1>2, <2>2 DEF Word
  <2> QED BY <2>1, <2>2
<1>9. file # << >> /\ file[0].gen = g
  BY <1>5 DEF Cell
<1> HIDE DEF s
<1> QED BY <1>5, <1>6, <1>7, <1>8, <1>9 DEF s

\* What the entries of an image's header say: nothing, as long as the words
\* of the last header are not there, and then where the block is.
LEMMA ImageEntries ==
  ASSUME TypeInv, NEW g \in 1 .. build, NEW k \in 0 .. 33, NEW n \in Nat \ {0}, IsImage(g, k, n),
         NEW b \in Blocks
  PROVE  /\ Entry(b).length = IF EntryAt(b) + 1 < k THEN sizes[g][b] ELSE 0
         /\ b > Dict => Entry(b).raw = IF EntryAt(b) + 2 < k THEN sizes[g][b] ELSE 0
         /\ EntryAt(b) + 1 < k => /\ Entry(b).offset = IF sizes[g][b] > 0 THEN Ends(sizes[g])[b - 1] ELSE 0
                                  /\ EntryAt(b) + 1 \in DOMAIN file
                                  /\ file[EntryAt(b) + 1].gen = g
         /\ Entry(b).length \in Nat /\ Entry(b).offset \in Nat
<1> DEFINE s == sizes[g]
           a == EntryAt(b)
           full == FullHeader(s)[b]
<1>1. /\ a \in 1 .. 32 /\ a + 1 \in 1 .. 32
      /\ b > Dict => a + 2 \in 1 .. 32
  BY HeaderWords
<1>2. s[b] \in Nat /\ b <= Len(Layout)
  BY ImageSizes, LayoutLength
<1>3. full = IF s[b] > 0 THEN [offset |-> Ends(s)[b - 1], length |-> s[b], raw |-> s[b]]
             ELSE [offset |-> 0, length |-> 0, raw |-> 0]
  BY <1>2 DEF FullHeader, HeaderUpTo
<1>4. full.length = s[b] /\ full.raw = s[b] /\ full.offset = IF s[b] > 0 THEN Ends(s)[b - 1] ELSE 0
  BY <1>2, <1>3
<1>5. NoEntries[b].length = 0 /\ NoEntries[b].raw = 0 /\ NoEntries[b].offset = 0
  BY DEF NoEntries
<1>6. \A h : /\ HeaderWord(h, a) = h[b].offset /\ HeaderWord(h, a + 1) = h[b].length
             /\ b > Dict => HeaderWord(h, a + 2) = h[b].raw
  BY HeaderWords
<1>7. Entry(b) = [offset |-> Word(a), length |-> Word(a + 1), raw |-> Word(a + 2)]
  BY DEF Entry
<1> HIDE DEF a, full
<1>8. ASSUME NEW w \in 1 .. 32
      PROVE  /\ w < k => /\ w \in DOMAIN file /\ file[w].gen = g
                         /\ Word(w) = HeaderWord(FullHeader(s), w)
             /\ ~(w < k) => Word(w) \in {0, HeaderWord(NoEntries, w)}
  BY ImageWords
<1>9. /\ HeaderWord(FullHeader(s), a) = full.offset
      /\ HeaderWord(FullHeader(s), a + 1) = full.length
      /\ b > Dict => HeaderWord(FullHeader(s), a + 2) = full.raw
  BY <1>6 DEF full
<1>10. /\ HeaderWord(NoEntries, a) = 0 /\ HeaderWord(NoEntries, a + 1) = 0
       /\ b > Dict => HeaderWord(NoEntries, a + 2) = 0
  BY <1>5, <1>6
<1>14. Ends(s)[b - 1] \in Nat
  BY ImageSizes
<1> HIDE DEF s
<1>11. Entry(b).length = IF a + 1 < k THEN s[b] ELSE 0
  BY <1>1, <1>4, <1>7, <1>8, <1>9, <1>10
<1>12. ASSUME b > Dict PROVE Entry(b).raw = IF a + 2 < k THEN s[b] ELSE 0
  BY <1>1, <1>4, <1>7, <1>8, <1>9, <1>10, <1>12
<1>13. ASSUME a + 1 < k
       PROVE  /\ Entry(b).offset = IF s[b] > 0 THEN Ends(s)[b - 1] ELSE 0
              /\ a + 1 \in DOMAIN file /\ file[a + 1].gen = g
  <2>1. a < k
    BY <1>1, <1>13
  <2> QED BY <1>1, <1>4, <1>7, <1>8, <1>9, <1>13, <2>1
<1>15. Entry(b).length \in Nat /\ Entry(b).offset \in Nat
  <2>1. full.offset \in Nat
    BY <1>4, <1>14
  <2>2. Entry(b).length \in Nat
    BY <1>2, <1>11
  <2>3. Entry(b).offset = Word(a)
    BY <1>7
  <2>4. CASE a < k
    <3>1. Word(a) = full.offset
      BY <1>1, <1>8, <1>9, <2>4
    <3> QED BY <2>1, <2>2, <2>3, <3>1
  <2>5. CASE ~(a < k)
    <3>1. Word(a) \in {0, 0}
      BY <1>1, <1>8, <1>10, <2>5
    <3> QED BY <2>2, <2>3, <3>1
  <2> QED BY <2>4, <2>5
<1> QED BY <1>11, <1>12, <1>13, <1>15 DEF a, s

\* The third word of an entry of the header.
LEMMA ImageRaw ==
  ASSUME TypeInv, NEW g \in 1 .. build, NEW k \in 0 .. 33, NEW n \in Nat \ {0}, IsImage(g, k, n),
         NEW b \in Blocks
  PROVE  b > Dict => Entry(b).raw = IF EntryAt(b) + 2 < k THEN sizes[g][b] ELSE 0
BY ImageEntries

\* An entry that names a length leads to the whole block, and to no other
\* build's.
LEMMA ImageBlocks ==
  ASSUME TypeInv, NEW g \in 1 .. build, NEW k \in 0 .. 33, NEW n \in Nat \ {0}, IsImage(g, k, n),
         NEW b \in Blocks, EntryAt(b) + 1 < k
  PROVE  /\ Whole(g, b)
         /\ \A o \in Span(b) : o \in DOMAIN file
         /\ sizes[g][b] > 0 => \A c \in 1 .. build : Whole(c, b) => c = g
<1> DEFINE s == sizes[g]
           E == Ends(s)
<1>1. /\ Entry(b).length = s[b]
      /\ Entry(b).offset = IF s[b] > 0 THEN E[b - 1] ELSE 0
  BY ImageEntries
<1>2. s[b] \in Nat /\ E[b - 1] \in Nat /\ E[b] = E[b - 1] + s[b] /\ E[b] <= E[11] /\ E[11] \in Nat
  BY ImageSizes
<1>3. /\ DOMAIN file = 0 .. E[11] - 1
      /\ \A i \in 0 .. s[b] - 1 : E[b - 1] + i < E[11] => file[E[b - 1] + i] = Cell(g, b, i)
  <2>1. k > 0
    <3>1. EntryAt(b) \in 1 .. 32
      BY HeaderWords
    <3> QED BY <3>1
  <2> QED BY <2>1, LayoutLength DEF IsImage, Image
<1>4. ASSUME s[b] > 0, NEW o \in Span(b)
      PROVE  o \in DOMAIN file /\ file[o] = Cell(g, b, o - Entry(b).offset)
  <2>1. o \in E[b - 1] .. E[b - 1] + s[b] - 1 /\ Entry(b).offset = E[b - 1]
    BY <1>1, <1>4 DEF Span
  <2> DEFINE i == o - E[b - 1]
  <2>2. i \in 0 .. s[b] - 1 /\ o = E[b - 1] + i /\ o < E[11] /\ o \in Nat
    BY <1>2, <2>1
  <2>3. o - Entry(b).offset = i /\ o \in DOMAIN file
    BY <1>2, <1>3, <2>1, <2>2
  <2> HIDE DEF i, s, E
  <2>4. file[o] = Cell(g, b, i)
    BY <1>3, <2>2
  <2> QED BY <2>3, <2>4
<1>5. ASSUME ~(s[b] > 0), NEW o \in Span(b) PROVE FALSE
  <2>1. o \in 0 .. 0 + 0 - 1
    BY <1>1, <1>2, <1>5 DEF Span
  <2> QED BY <2>1
<1>6. Whole(g, b) /\ \A o \in Span(b) : o \in DOMAIN file
  BY <1>1, <1>4, <1>5 DEF Whole
<1>7. ASSUME s[b] > 0, NEW c \in 1 .. build, Whole(c, b) PROVE c = g
  <2>1. E[b - 1] \in Span(b) /\ Entry(b).offset = E[b - 1]
    BY <1>1, <1>2, <1>7 DEF Span
  <2>2. file[E[b - 1]] = Cell(g, b, E[b - 1] - E[b - 1])
    BY <1>4, <1>7, <2>1
  <2>3. file[E[b - 1]] = Cell(c, b, E[b - 1] - E[b - 1])
    BY <1>7, <2>1 DEF Whole
  <2> QED BY <2>2, <2>3 DEF Cell
<1> QED BY <1>6, <1>7

\* The file a search maps: the image of one build, and of the last build when
\* that succeeded.
LEMMA ReadableImage ==
  ASSUME TypeInv, FileInv, AllFit, file # << >>
  PROVE  \E g \in 1 .. build, k \in 0 .. 33, n \in Nat \ {0} :
            IsImage(g, k, n) /\ (result = "ok" => g = build /\ k = 33)
<1>1. CASE result = "ok"
  <2>1. build > 0 /\ IsImage(build, HeaderSize, Ends(sizes[build])[Len(Layout)])
    BY <1>1 DEF FileInv, Progress
  <2>2. build \in 1 .. build
    BY <2>1 DEF TypeInv, TypeOK
  <2>3. \A g \in 1 .. build : Ends(sizes[g])[11] \in Nat \ {0}
    <3> TAKE g \in 1 .. build
    <3>1. Ends(sizes[g])[11] \in Nat /\ Ends(sizes[g])[11] > 33
      BY ImageSizes
    <3> QED BY <3>1
  <2>4. Ends(sizes[build])[11] \in Nat \ {0}
    BY <2>2, <2>3, Zenon
  <2> QED BY <2>1, <2>2, <2>4, LayoutLength
<1>2. CASE result # "ok"
  <2>1. PICK g \in 1 .. build, k \in 0 .. HeaderSize, n \in Nat \ {0} : IsImage(g, k, n)
    BY DEF FileInv, IsSomeImage
  <2> QED BY <1>2, <2>1, LayoutLength
<1> QED BY <1>1, <1>2

\* One block of a search beside which no build runs: it is there, decodes to
\* what one build wrote, or the last word of its entry is missing.
LEMMA BlockReads ==
  ASSUME TypeInv, SearchInv, search.quiet, AllFit, search.pc = "blocks",
         NEW g \in 1 .. build, NEW k \in 0 .. 33, NEW n \in Nat \ {0}, IsImage(g, k, n),
         NEW b, b = search.block, Entry(b).length > 0
  PROVE  /\ InReach(b)
         /\ \A c \in 1 .. build : Decodes(c, b) => c = g
         /\ Decodes(g, b) \/ TooSmall(b)
         /\ k = 33 => Decodes(g, b)
<1> DEFINE s == sizes[g]
           a == EntryAt(b) + 1
<1>1. b \in Blocks
  BY DEF TypeInv, TypeOK
<1>2. a < k /\ s[b] > 0 /\ Entry(b).length = s[b]
  <2>1. Entry(b).length = IF a < k THEN s[b] ELSE 0
    BY <1>1, ImageEntries
  <2> HIDE DEF a, s
  <2> QED BY <2>1
<1>3. Whole(g, b) /\ (\A o \in Span(b) : o \in DOMAIN file) /\ \A c \in 1 .. build : Whole(c, b) => c = g
  BY <1>1, <1>2, ImageBlocks
<1>4. search.size = Size /\ Size \in Nat /\ DOMAIN file = 0 .. Size - 1
  BY FileSize DEF SearchInv, TypeInv
<1>5. InReach(b)
  BY <1>3, <1>4 DEF InReach
<1>6. ASSUME b \in WithDict
      PROVE  search.got[Dict] = IF s[Dict] > 0 THEN g ELSE Nothing
  <2>1. b > Dict /\ Dict \in Blocks
    BY <1>6, DictionaryComesFirst, LayoutLength
  <2>2. EntryAt(Dict) + 1 < k
    BY <1>1, <1>2, <2>1, LayoutLength DEF EntryAt, TrigramIndex
  <2>3. Entry(Dict).length = s[Dict]
    BY <2>1, <2>2, ImageEntries
  <2>4. search.got[Dict] = IF (Dict < search.block \/ search.pc = "served") /\ Entry(Dict).length > 0
                           THEN file[0].gen ELSE Nothing
    BY <2>1 DEF SearchInv
  <2>5. file[0].gen = g
    BY ImageWords, Zenon
  <2>6. Dict < search.block
    BY <2>1
  <2> HIDE DEF s, a
  <2> QED BY <2>3, <2>4, <2>5, <2>6
<1>7. b > Dict => Entry(b).raw = IF EntryAt(b) + 2 < k THEN s[b] ELSE 0
  BY <1>1, ImageRaw, Zenon
<1>8. s[b] \in Nat
  BY <1>1, ImageSizes
<1> HIDE DEF s
<1>9. CASE b > Dict /\ ~(EntryAt(b) + 2 < k)
  <2>1. Entry(b).raw < s[b]
    BY <1>2, <1>7, <1>8, <1>9
  <2>2. TooSmall(b)
    BY <1>3, <1>9, <2>1 DEF TooSmall, s
  <2>3. k # 33
    <3>1. EntryAt(b) + 2 \in 1 .. 32
      BY <1>1, <1>9, HeaderWords
    <3> QED BY <1>9, <3>1
  <2> QED BY <1>3, <1>5, <2>2, <2>3 DEF Decodes
<1>10. CASE ~(b > Dict) \/ EntryAt(b) + 2 < k
  <2>1. b > Dict => Entry(b).raw >= s[b]
    BY <1>7, <1>8, <1>10
  <2>2. Decodes(g, b)
    BY <1>3, <1>6, <2>1 DEF Decodes, s
  <2> QED BY <1>3, <1>5, <2>2 DEF Decodes
<1> QED BY <1>9, <1>10

\* Taking a block keeps what is known of a quiet search.
LEMMA TakeSearch ==
  ASSUME TypeInv, SearchInv, AllFit' => AllFit, search.quiet, search.pc = "blocks",
         UNCHANGED << file, pc, build, sizes, result >>, NEW value, Take(value),
         AllFit => value = IF Entry(search.block).length > 0 THEN file[0].gen ELSE Nothing
  PROVE  SearchInv'
<1>1. search.block \in Blocks /\ search.got \in [Blocks -> 0 .. Garbage]
  BY DEF TypeInv, TypeOK
<1>2. search.quiet' = TRUE /\ pc' = "off"
  BY DEF Take, SearchInv, TypeInv, TypeOK
<1> SUFFICES ASSUME AllFit'
             PROVE  /\ search'.pc \in {"header", "blocks", "served", "unopened", "refused"}
                    /\ search'.pc \in {"header", "blocks", "served"} =>
                         file' # << >> /\ search'.size = Size'
                    /\ search'.pc = "refused" => result' # "ok"
                    /\ search'.pc = "header" => search'.block = Conf
                    /\ \A b \in Blocks :
                         search'.got[b] =
                           IF (b < search'.block \/ search'.pc = "served") /\ Entry(b)'.length > 0
                           THEN file'[0].gen ELSE Nothing
                    /\ search'.block > TrigramIndex \/ search'.pc = "served" =>
                         search'.capacity = Word(CapacityAt)'
  BY <1>2 DEF SearchInv
<1>3. AllFit /\ file # << >> /\ search.size = Size
  BY DEF SearchInv
<1>4. \A b \in Blocks :
        search.got[b] = IF b < search.block /\ Entry(b).length > 0 THEN file[0].gen ELSE Nothing
  BY <1>3 DEF SearchInv
<1>5. Size' = Size /\ \A b : Entry(b)' = Entry(b)
  BY DEF Size, Entry, Word
<1>6. /\ search'.got = [search.got EXCEPT ![search.block] = value]
      /\ search'.block = IF search.block + 1 \in Blocks THEN search.block + 1 ELSE search.block
      /\ search'.pc = IF search.block + 1 \in Blocks THEN "blocks" ELSE "served"
      /\ search'.size = search.size
      /\ search'.capacity = IF search.block = TrigramIndex THEN Word(CapacityAt) ELSE search.capacity
  BY DEF Take, TypeInv, SearchRecords
<1>8. search.block > TrigramIndex => search.capacity = Word(CapacityAt)
  BY <1>3 DEF SearchInv
<1>9. Word(CapacityAt)' = Word(CapacityAt)
  BY DEF Word, CapacityAt, EntryAt
<1>10. search'.block > TrigramIndex \/ search'.pc = "served" => search'.capacity = Word(CapacityAt)
  <2>1. CASE search.block = TrigramIndex
    BY <1>6, <2>1
  <2>2. CASE search.block > TrigramIndex
    BY <1>6, <1>8, <2>2
  <2>3. CASE search.block < TrigramIndex
    <3>1. search.block + 1 \in Blocks /\ search.block + 1 <= TrigramIndex
      BY <1>1, <2>3, LayoutLength
    <3>2. search'.block = search.block + 1 /\ search'.pc = "blocks"
      BY <1>6, <3>1
    <3> QED BY <1>1, <3>1, <3>2, LayoutLength
  <2> QED BY <1>1, <2>1, <2>2, <2>3, LayoutLength
<1>7. ASSUME NEW b \in Blocks
      PROVE  search'.got[b] =
               IF (b < search'.block \/ search'.pc = "served") /\ Entry(b).length > 0
               THEN file[0].gen ELSE Nothing
  <2>1. CASE b = search.block
    <3>1. search'.got[b] = value
      BY <1>1, <1>6, <2>1
    <3>2. b < search'.block \/ search'.pc = "served"
      BY <1>1, <1>6, <2>1, LayoutLength
    <3> QED BY <1>3, <2>1, <3>1, <3>2
  <2>2. CASE b # search.block
    <3>1. search'.got[b] = search.got[b]
      BY <1>1, <1>6, <2>2
    <3>2. (b < search'.block \/ search'.pc = "served") <=> b < search.block
      BY <1>1, <1>6, <2>2, LayoutLength
    <3> QED BY <1>4, <3>1, <3>2
  <2> QED BY <2>1, <2>2
<1> QED BY <1>3, <1>5, <1>6, <1>7, <1>9, <1>10

\* A quiet search was one before the step, but for the step that begins it.
LEMMA QuietBefore ==
  ASSUME TypeInv, SearchStep, search'.quiet, ~OpenMap, ~OpenMapFails
  PROVE  search.quiet /\ ~LeaveSearch /\ search.pc \in {"header", "blocks"}
<1>1. search \in SearchRecords
  BY DEF TypeInv
<1>2. ~LeaveSearch
  BY DEF LeaveSearch, NoSearch
<1>3. ASSUME NEW value, Take(value) PROVE search.quiet
  BY <1>1, <1>3 DEF Take, SearchRecords
<1>4. CASE ReadNothing \/ ReadBlock \/ ReadGarbage
  <2>1. search.quiet
    BY <1>3, <1>4 DEF ReadNothing, ReadBlock, ReadGarbage
  <2> QED BY <1>2, <1>4, <2>1 DEF ReadNothing, ReadBlock, ReadGarbage, AtBlock
<1>5. CASE ReadHeader \/ RefuseBlock \/ BusError
  <2>1. search.quiet
    BY <1>1, <1>5 DEF ReadHeader, RefuseBlock, BusError, SearchRecords
  <2> QED BY <1>2, <1>5, <2>1 DEF ReadHeader, RefuseBlock, BusError, AtBlock, Searching
<1> QED BY <1>2, <1>4, <1>5 DEF SearchStep

\* Every step keeps what is known of a search that no build runs beside.
LEMMA QuietStep ==
  ASSUME TypeInv, FileInv, SearchInv, [Next]_vars
  PROVE  SearchInv'
<1>1. AllFit' => AllFit
  BY FitStays
<1>2. CASE ~SearchStep
  <2>1. CASE search'.quiet = FALSE
    BY <2>1 DEF SearchInv
  <2>2. CASE Construct
    <3>1. search'.quiet = FALSE
      BY <2>2 DEF Construct, TypeInv, TypeOK
    <3> QED BY <3>1 DEF SearchInv
  <2>3. CASE BuildStep \/ OpenFails \/ PwriteFails \/ Die
    <3>1. pc # "off" /\ search' = search
      BY <2>3 DEF BuildStep, OpenFails, PwriteFails, Die, OpenDatabase, Pwrite, StubDone, ConfDone,
                  DictDone, BuildTable, TablesReady, TableFailed, CommitNext, CommitHeader, Succeed,
                  Written, Writing, Collected
    <3> QED BY <3>1 DEF SearchInv
  <2>4. CASE UNCHANGED vars
    <3>1. UNCHANGED << file, pc, search, result >>
      BY <2>4 DEF vars
    <3>2. Size' = Size /\ \A b : Entry(b)' = Entry(b)
      BY <3>1 DEF Size, Entry, Word
    <3>3. Word(CapacityAt)' = Word(CapacityAt)
      BY <3>1 DEF Word, CapacityAt, EntryAt
    <3> QED BY <1>1, <3>1, <3>2, <3>3 DEF SearchInv
  <2> QED BY <1>2, <2>2, <2>3, <2>4 DEF Next
<1>3. CASE SearchStep
  <2>0. UNCHANGED << file, exists, pc, build, sizes, result >>
    BY <1>3 DEF SearchStep
  <2> SUFFICES ASSUME search'.quiet PROVE SearchInv'
    BY DEF SearchInv
  <2>1. CASE ~AllFit
    <3>1. pc = "off"
      <4>1. CASE OpenMap \/ OpenMapFails
        BY <4>1 DEF OpenMap, OpenMapFails, NoSearch
      <4>2. CASE ~OpenMap /\ ~OpenMapFails
        BY <1>3, <4>2, QuietBefore DEF SearchInv
      <4> QED BY <4>1, <4>2
    <3> QED BY <1>1, <2>0, <2>1, <3>1 DEF SearchInv
  <2>2. CASE AllFit
    <3>0. \A b : Entry(b)' = Entry(b)
      BY <2>0 DEF Entry, Word
    <3>7. Word(CapacityAt)' = Word(CapacityAt)
      BY <2>0 DEF Word, CapacityAt, EntryAt
    <3>1. CASE OpenMap
      <4>1. search' = [NoSearch EXCEPT !.pc = IF exists /\ Size > 0 THEN "header" ELSE "refused",
                                       !.size = Size, !.quiet = (pc = "off")]
        BY <3>1 DEF OpenMap
      <4>2. /\ search'.pc = IF exists /\ Size > 0 THEN "header" ELSE "refused"
            /\ search'.size = Size /\ search'.quiet = (pc = "off") /\ search'.block = Conf
            /\ search'.got = [b \in Blocks |-> Nothing]
        BY <4>1, LayoutLength DEF NoSearch, Nothing
      <4>3. Size' = Size /\ Size \in Nat /\ (file = << >> <=> Size = 0) /\ (file # << >> => exists)
        BY <2>0, FileSize DEF Size, TypeInv
      <4>4. ASSUME result = "ok" PROVE file # << >>
        <5>1. build > 0 /\ IsImage(build, HeaderSize, Ends(sizes[build])[Len(Layout)])
          BY <2>2, <4>4 DEF FileInv, Progress
        <5>2. build \in 1 .. build
          BY <5>1 DEF TypeInv, TypeOK
        <5>3. Ends(sizes[build])[11] \in Nat \ {0}
          BY <5>2, ImageSizes
        <5>4. PICK g \in 1 .. build, k \in 0 .. 33, n \in Nat \ {0} : IsImage(g, k, n)
          BY <5>1, <5>2, <5>3, LayoutLength
        <5> QED BY <5>4, ImageWords
      <4>5. pc = "off"
        BY <4>2
      <4>6. \A b \in Blocks : ~(b < Conf) /\ search'.got[b] = Nothing
        BY <4>2, LayoutLength
      <4>7. search'.pc \in {"header", "refused"}
        BY <4>2
      <4>8. search'.pc = "refused" => result # "ok"
        BY <4>2, <4>3, <4>4
      <4>9. search'.pc = "header" => file # << >>
        BY <4>2, <4>3
      <4>10. ~(search'.block > TrigramIndex) /\ search'.pc # "served"
        BY <4>2, LayoutLength
      <4> QED BY <2>0, <4>2, <4>3, <4>5, <4>6, <4>7, <4>8, <4>9, <4>10 DEF SearchInv
    <3>6. CASE OpenMapFails
      <4>1. search' = [NoSearch EXCEPT !.pc = "unopened", !.quiet = (pc = "off")]
        BY <3>6 DEF OpenMapFails
      <4>2. /\ search'.pc = "unopened" /\ search'.quiet = (pc = "off") /\ search'.block = Conf
            /\ search'.got = [b \in Blocks |-> Nothing]
        BY <4>1, LayoutLength DEF NoSearch, Nothing
      <4>3. \A b \in Blocks : ~(b < Conf) /\ search'.got[b] = Nothing
        BY <4>2, LayoutLength
      <4>4. ~(search'.block > TrigramIndex)
        BY <4>2, LayoutLength
      <4> QED BY <2>0, <4>2, <4>3, <4>4 DEF SearchInv
    <3>2. CASE LeaveSearch
      BY <3>2 DEF LeaveSearch, NoSearch
    <3>3. ASSUME ~OpenMap, ~OpenMapFails, ~LeaveSearch
          PROVE  search.quiet /\ pc = "off" /\ search.pc \in {"header", "blocks"} /\ file # << >>
      <4>1. search.quiet /\ search.pc \in {"header", "blocks"}
        BY <1>3, <3>3, QuietBefore
      <4> QED BY <2>2, <4>1 DEF SearchInv
    <3>4. CASE ReadHeader
      <4>1. ~OpenMap /\ ~OpenMapFails /\ ~LeaveSearch
        BY <3>4 DEF ReadHeader, OpenMap, OpenMapFails, LeaveSearch
      <4>2. PICK g \in 1 .. build, k \in 0 .. 33, n \in Nat \ {0} : IsImage(g, k, n)
        BY <2>2, <3>3, <4>1, ReadableImage
      <4>3. Word(0) = 1
        BY <4>2, ImageWords
      <4>4. search' = [search EXCEPT !.pc = "blocks"]
        BY <3>4, <4>3 DEF ReadHeader
      <4>5. /\ search'.pc = "blocks" /\ search'.got = search.got /\ search'.block = search.block
            /\ search'.size = search.size /\ search.pc = "header"
            /\ search'.capacity = search.capacity
        BY <3>4, <4>4 DEF ReadHeader, TypeInv, SearchRecords
      <4>6. Size' = Size
        BY <2>0 DEF Size
      <4> QED BY <2>0, <2>2, <3>0, <3>3, <3>7, <4>1, <4>5, <4>6 DEF SearchInv
    <3>5. CASE ReadNothing \/ ReadBlock \/ ReadGarbage \/ RefuseBlock \/ BusError
      <4>1. ~OpenMap /\ ~OpenMapFails /\ ~LeaveSearch
        BY <3>5 DEF ReadNothing, ReadBlock, ReadGarbage, RefuseBlock, BusError, AtBlock, Searching,
                    OpenMap, OpenMapFails, LeaveSearch
      <4>2. PICK g \in 1 .. build, k \in 0 .. 33, n \in Nat \ {0} :
              IsImage(g, k, n) /\ (result = "ok" => g = build /\ k = 33)
        BY <2>2, <3>3, <4>1, ReadableImage
      <4>3. file[0].gen = g
        BY <4>2, ImageWords
      <4> DEFINE b == search.block
      <4>4. search.pc = "blocks" /\ Entry(b).length > 0 =>
              /\ InReach(b)
              /\ \A c \in 1 .. build : Decodes(c, b) => c = g
              /\ Decodes(g, b) \/ TooSmall(b)
              /\ k = 33 => Decodes(g, b)
        BY <2>2, <3>3, <4>1, <4>2, BlockReads
      <4>5. CASE ReadNothing
        BY <1>1, <2>0, <3>3, <4>1, <4>5, TakeSearch DEF ReadNothing, AtBlock
      <4>6. CASE ReadBlock
        <5>1. PICK c \in 1 .. build : Decodes(c, b) /\ Take(c)
          BY <4>6 DEF ReadBlock
        <5>2. search.pc = "blocks" /\ Entry(b).length > 0
          BY <4>6 DEF ReadBlock, AtBlock
        <5>3. c = g
          BY <4>4, <5>1, <5>2
        <5> QED BY <1>1, <2>0, <3>3, <4>1, <4>3, <5>1, <5>2, <5>3, TakeSearch
      <4>7. CASE ReadGarbage
        BY <4>2, <4>4, <4>7 DEF ReadGarbage, AtBlock, Decodable
      <4>8. CASE RefuseBlock
        <5>1. /\ search.pc = "blocks" /\ Entry(b).length > 0 /\ ~(InReach(b) /\ Decodable(b))
              /\ search' = [search EXCEPT !.pc = "refused"]
          BY <4>8 DEF RefuseBlock, AtBlock
        <5>2. result # "ok"
          BY <4>2, <4>4, <5>1 DEF Decodable
        <5>3. /\ search'.pc = "refused" /\ search'.got = search.got /\ search'.block = search.block
              /\ search'.capacity = search.capacity
          BY <5>1 DEF TypeInv, SearchRecords
        <5> QED BY <2>0, <2>2, <3>0, <3>3, <3>7, <4>1, <5>1, <5>2, <5>3 DEF SearchInv
      <4>9. CASE BusError
        <5>1. search.pc = "blocks" /\ ~InReach(b)
          BY <3>3, <4>1, <4>9 DEF BusError, Gone
        <5>2. Entry(b).length > 0
          <6>1. Entry(b).length \in Nat /\ Entry(b).offset \in Nat
            <7>1. b \in Blocks
              BY DEF TypeInv, TypeOK
            <7> QED BY <4>2, <7>1, ImageEntries
          <6>2. Entry(b).length = 0 => Span(b) = {}
            BY <6>1 DEF Span
          <6> QED BY <5>1, <6>1, <6>2 DEF InReach
        <5> QED BY <4>4, <5>1, <5>2
      <4> QED BY <3>5, <4>5, <4>6, <4>7, <4>8, <4>9
    <3> QED BY <1>3, <3>1, <3>2, <3>4, <3>5, <3>6 DEF SearchStep
  <2> QED BY <2>1, <2>2
<1> QED BY <1>2, <1>3

-----------------------------------------------------------------------------
(* What the file and a search promise *)

\* The invariant holds in every state.
LEMMA Invariant == Spec => []IInv
<1>1. Init => IInv
  <2> SUFFICES ASSUME Init PROVE FileInv /\ SearchInv /\ TypeInv
    BY DEF IInv
  <2>1. FileInv
    BY DEF Init, FileInv, IsSomeImage, Progress
  <2>2. SearchInv
    BY DEF Init, SearchInv, NoSearch
  <2>3. TypeInv
    BY InitTypes
  <2> QED BY <2>1, <2>2, <2>3
<1>2. IInv /\ [Next]_vars => IInv'
  BY TypeStep, FileStep, QuietStep DEF IInv
<1> QED BY <1>1, <1>2, PTL DEF Spec

\* Wherever a build stops, a header entry that is not zero leads to the whole
\* block of the build that wrote it (store_db writes zeros first, the blocks,
\* and the header last).
THEOREM HeaderIsSafe == Spec => []HeaderNeverRunsAhead
<1>1. IInv => HeaderNeverRunsAhead
  <2> SUFFICES ASSUME TypeInv, FileInv, AllFit, NEW b \in Blocks, Entry(b).length > 0
               PROVE  /\ EntryAt(b) + 1 \in DOMAIN file
                      /\ Whole(file[EntryAt(b) + 1].gen, b)
    BY DEF IInv, HeaderNeverRunsAhead
  <2>1. file # << >>
    <3>1. CASE file = << >>
      <4>1. Entry(b).length = 0
        BY <3>1 DEF Entry, Word
      <4> QED BY <4>1
    <3> QED BY <3>1
  <2>2. PICK g \in 1 .. build, k \in 0 .. 33, n \in Nat \ {0} : IsImage(g, k, n)
    BY <2>1, ReadableImage
  <2>3. EntryAt(b) + 1 < k
    <3>1. Entry(b).length = IF EntryAt(b) + 1 < k THEN sizes[g][b] ELSE 0
      BY <2>2, ImageEntries
    <3> QED BY <3>1
  <2>4. EntryAt(b) + 1 \in DOMAIN file /\ file[EntryAt(b) + 1].gen = g
    BY <2>2, <2>3, ImageEntries
  <2>5. Whole(g, b)
    BY <2>2, <2>3, ImageBlocks
  <2> QED BY <2>4, <2>5
<1> QED BY <1>1, Invariant, PTL

\* After success every block of the build is reachable through the header of
\* that build (store_db returns true).
THEOREM SuccessLeavesAll == Spec => []SuccessIsWhole
<1>1. IInv => SuccessIsWhole
  <2> SUFFICES ASSUME TypeInv, FileInv, AllFit, result = "ok", NEW b \in Blocks
               PROVE  Whole(build, b) /\ (b > Dict => Entry(b).raw = sizes[build][b])
    BY DEF IInv, SuccessIsWhole
  <2>1. build > 0 /\ IsImage(build, 33, Ends(sizes[build])[11])
    BY LayoutLength DEF FileInv, Progress
  <2>2. build \in 1 .. build
    BY <2>1 DEF TypeInv, TypeOK
  <2>3. Ends(sizes[build])[11] \in Nat \ {0}
    BY <2>2, ImageSizes
  <2>4. PICK g \in 1 .. build, k \in 0 .. 33, n \in Nat \ {0} :
          IsImage(g, k, n) /\ g = build /\ k = 33
    BY <2>1, <2>2, <2>3
  <2>5. EntryAt(b) + 1 < k /\ (b > Dict => EntryAt(b) + 2 < k)
    BY <2>4, HeaderWords
  <2>6. Whole(g, b)
    BY <2>4, <2>5, ImageBlocks
  <2>7. b > Dict => Entry(b).raw = IF EntryAt(b) + 2 < k THEN sizes[g][b] ELSE 0
    BY <2>4, ImageEntries
  <2> QED BY <2>4, <2>5, <2>6, <2>7
<1> QED BY <1>1, Invariant, PTL

\* What a search that has read block b of an image holds of it.
LEMMA GotOfImage ==
  ASSUME TypeInv, SearchInv, search.quiet, AllFit, search.pc = "served",
         NEW g \in 1 .. build, NEW k \in 0 .. 33, NEW n \in Nat \ {0}, IsImage(g, k, n),
         NEW b \in Blocks
  PROVE  search.got[b] = IF EntryAt(b) + 1 < k /\ sizes[g][b] > 0 THEN g ELSE Nothing
<1>1. Entry(b).length = IF EntryAt(b) + 1 < k THEN sizes[g][b] ELSE 0
  BY ImageEntries
<1>2. search.got[b] = IF Entry(b).length > 0 THEN file[0].gen ELSE Nothing
  BY DEF SearchInv
<1>3. file[0].gen = g
  BY ImageWords
<1> QED BY <1>1, <1>2, <1>3

\* A search that no build runs beside is never killed and never takes a wrong
\* block; after a build that succeeded it gets that build's blocks.
THEOREM QuietSearchServed == Spec => []QuietSearchIsTrue
<1>1. IInv => QuietSearchIsTrue
  <2> SUFFICES ASSUME TypeInv, FileInv, SearchInv, search.quiet, AllFit
               PROVE  /\ search.pc # "killed"
                      /\ \A b \in Blocks : search.got[b] # Garbage
                      /\ result = "ok" =>
                          /\ search.pc # "refused"
                          /\ search.pc = "served" =>
                              \A b \in Blocks :
                                search.got[b] = IF sizes[build][b] > 0 THEN build ELSE Nothing
    BY DEF IInv, QuietSearchIsTrue
  <2>1. search.pc # "killed" /\ (result = "ok" => search.pc # "refused")
    BY DEF SearchInv
  <2>2. ASSUME NEW b \in Blocks PROVE search.got[b] # Garbage
    <3>1. CASE file = << >>
      <4>1. Entry(b).length = 0
        BY <3>1 DEF Entry, Word
      <4>2. search.got[b] = Nothing
        BY <4>1 DEF SearchInv
      <4> QED BY <4>2, BoundsAssumption DEF Nothing, Garbage
    <3>2. CASE file # << >>
      <4>1. PICK g \in 1 .. build, k \in 0 .. 33, n \in Nat \ {0} : IsImage(g, k, n)
        BY <3>2, ReadableImage
      <4>2. file[0].gen = g
        BY <4>1, ImageWords
      <4>3. search.got[b] \in {g, Nothing}
        BY <4>2 DEF SearchInv
      <4>4. build \in 0 .. MaxEvents
        BY DEF TypeInv, TypeOK
      <4> QED BY <4>3, <4>4, BoundsAssumption DEF Nothing, Garbage
    <3> QED BY <3>1, <3>2
  <2>3. ASSUME result = "ok", search.pc = "served", NEW b \in Blocks
        PROVE  search.got[b] = IF sizes[build][b] > 0 THEN build ELSE Nothing
    <3>1. file # << >>
      BY <2>3 DEF SearchInv
    <3>2. PICK g \in 1 .. build, k \in 0 .. 33, n \in Nat \ {0} :
            IsImage(g, k, n) /\ (result = "ok" => g = build /\ k = 33)
      BY <3>1, ReadableImage
    <3>3. search.got[b] = IF EntryAt(b) + 1 < k /\ sizes[g][b] > 0 THEN g ELSE Nothing
      BY <2>3, <3>2, GotOfImage
    <3>4. EntryAt(b) + 1 < 33
      BY HeaderWords
    <3> QED BY <2>3, <3>2, <3>3, <3>4
  <2> QED BY <2>1, <2>2, <2>3
<1> QED BY <1>1, Invariant, PTL

\* The capacity that an image's header names, once that word is there.
LEMMA CapacityOfImage ==
  ASSUME TypeInv, NEW g \in 1 .. build, NEW k \in 0 .. 33, NEW n \in Nat \ {0}, IsImage(g, k, n),
         CapacityAt < k
  PROVE  Word(CapacityAt) = sizes[g][TrigramIndex]
<1>1. CapacityAt \in 1 .. 32 /\ TrigramIndex \in Blocks \ {Dict} /\ TrigramIndex <= Len(Layout)
  BY LayoutLength
<1>2. Word(CapacityAt) = HeaderWord(FullHeader(sizes[g]), CapacityAt)
  BY <1>1, ImageWords
<1>3. HeaderWord(FullHeader(sizes[g]), CapacityAt) = FullHeader(sizes[g])[TrigramIndex].raw
  BY HeaderWords
<1>4. sizes[g][TrigramIndex] > 0
  BY <1>1, ImageSizes
<1>5. FullHeader(sizes[g])[TrigramIndex].raw = sizes[g][TrigramIndex]
  BY <1>1, <1>4 DEF FullHeader, HeaderUpTo
<1> QED BY <1>2, <1>3, <1>5

\* A quiet search that has the posting lists has the tables they point into
\* and the capacity of the index, of the same build: their header entries are
\* written before the lists'.
THEOREM PostingsHaveTheirTables == Spec => []PostingsResolve
<1>1. IInv => PostingsResolve
  <2> SUFFICES ASSUME TypeInv, FileInv, SearchInv, search.quiet, AllFit, search.pc = "served",
                      search.got[11] # Nothing
               PROVE  /\ \A b \in Blocks \ {Dict} : search.got[b] = search.got[11]
                      /\ search.capacity = sizes[search.got[11]][TrigramIndex]
    BY LayoutLength DEF IInv, PostingsResolve
  <2>1. file # << >>
    BY DEF SearchInv
  <2>2. PICK g \in 1 .. build, k \in 0 .. 33, n \in Nat \ {0} : IsImage(g, k, n)
    BY <2>1, ReadableImage, Zenon
  <2>3. search.got[11] = IF EntryAt(11) + 1 < k /\ sizes[g][11] > 0 THEN g ELSE Nothing
    BY <2>2, GotOfImage, LayoutLength
  <2>4. EntryAt(11) + 1 < k /\ search.got[11] = g
    BY <2>3
  <2>5. ASSUME NEW b \in Blocks \ {Dict} PROVE search.got[b] = g
    <3>1. search.got[b] = IF EntryAt(b) + 1 < k /\ sizes[g][b] > 0 THEN g ELSE Nothing
      BY <2>2, GotOfImage
    <3>2. EntryAt(b) <= EntryAt(11) /\ EntryAt(b) \in Nat /\ EntryAt(11) \in Nat
      BY LayoutLength DEF EntryAt, TrigramIndex
    <3>3. sizes[g][b] > 0
      BY ImageSizes
    <3> QED BY <2>4, <3>1, <3>2, <3>3
  <2>6. search.capacity = Word(CapacityAt)
    BY DEF SearchInv
  <2>7. CapacityAt < k
    <3>1. EntryAt(11) = 30 /\ CapacityAt = 29
      BY LayoutLength DEF EntryAt, TrigramIndex
    <3> QED BY <2>4, <3>1
  <2>8. Word(CapacityAt) = sizes[g][TrigramIndex]
    BY <2>2, <2>7, CapacityOfImage
  <2> QED BY <2>4, <2>5, <2>6, <2>8
<1> QED BY <1>1, Invariant, PTL

\* No step of a build changes a byte behind the header that is in the file,
\* unless it truncates the file (FileWrapper::write at db_hdr's offsets).
THEOREM BlocksStay == Spec => BlocksNeverOverlap
<1> DEFINE Stays == (AllFit /\ file' # << >>) =>
              \A o \in DOMAIN file : o >= HeaderSize => o \in DOMAIN file' /\ file'[o] = file[o]
<1>1. IInv /\ [Next]_vars => [Stays]_vars
  <2> SUFFICES ASSUME TypeInv, FileInv, [Next]_vars, AllFit, file' # << >>,
                      NEW o \in DOMAIN file, o >= HeaderSize
               PROVE  o \in DOMAIN file' /\ file'[o] = file[o]
    BY DEF IInv
  <2>1. CASE ~Pwrite
    <3>1. file' = file \/ file' = << >>
      BY <2>1 DEF Next, vars, BuildStep, OpenFails, PwriteFails, Die, SearchStep, OpenDatabase,
                  StubDone, ConfDone, DictDone, BuildTable, TablesReady, TableFailed, CommitNext,
                  CommitHeader, Succeed, Construct, Truncate, fileVars
    <3> QED BY <3>1
  <2>2. CASE Pwrite
    <3>1. Writing
      BY <2>2 DEF Pwrite
    <3>2. PICK n \in 1..(BufferSize - done) :
            file' = [ p \in DOMAIN file \union at..(at + n - 1) |->
                       IF p \in at..(at + n - 1) THEN BufferCell(done + p - at) ELSE file[p] ]
      BY <2>2 DEF Pwrite
    <3>3. done \in Nat /\ BufferSize \in Nat /\ n \in Nat \ {0} /\ done + n <= BufferSize /\ at \in Nat
      <4>1. done \in 0 .. BufferSize /\ at \in Nat
        BY <3>1 DEF TypeInv, TypeOK
      <4> QED BY <3>2, <4>1, BufferIsNat
    <3>4. o \notin at..(at + n - 1)
      <4>1. CASE pc = "block"
        <5>1. done < BufferSize
          BY <3>3
        <5>2. DOMAIN file = 0 .. at - 1
          BY <3>1, <4>1, <5>1, WriteOffset
        <5> QED BY <3>3, <5>2
      <4>2. CASE pc # "block"
        <5>1. at + n - 1 < 33
          BY <3>1, <3>3, <4>2, BufferIsNat, WriteOffset
        <5> QED BY <3>3, <5>1, LayoutLength
      <4> QED BY <4>1, <4>2
    <3> QED BY <3>2, <3>4
  <2> QED BY <2>1, <2>2
<1> QED BY <1>1, Invariant, PTL DEF Spec, BlocksNeverOverlap
=============================================================================
