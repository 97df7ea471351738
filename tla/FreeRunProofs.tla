---------------------------- MODULE FreeRunProofs ----------------------------
(***************************************************************************)
(* Proofs about FreeRun, for any number of files and threads, files of any *)
(* size and any number of matches: what the parser hands over is what the  *)
(* tables of the file hold, and each thread prints the matches of its own  *)
(* files.                                                                  *)
(***************************************************************************)
EXTENDS FreeRun, SequenceTheorems, NumberLemmas

-----------------------------------------------------------------------------
(* The loops of the parser *)

EntryType == [name : Names, source : Tables]
Entries == Seq(EntryType)
ParseType == [list : Entries, end : {"ok", "failed", "exit", "killed"}]

\* The loop over a table, with the list after each turn.
LEMMA StoredLoop ==
  ASSUME NEW table \in SectionType, table.type \in Tables, NEW N, N = Len(table.symbols)
  PROVE  \E f \in [0 .. N -> Entries] :
           /\ f[0] = << >>
           /\ \A k \in 1 .. N :
                f[k] = IF table.symbols[k].name # Nameless /\ Wanted(table.symbols[k])
                         THEN Append(f[k - 1], Entry(table.symbols[k], table.type))
                         ELSE f[k - 1]
           /\ Stored(table) = f[N]
<1> DEFINE symbols == table.symbols
           Keep(k) == symbols[k].name # Nameless /\ Wanted(symbols[k])
           E(k, l) == IF Keep(k) THEN Append(l, Entry(symbols[k], table.type)) ELSE l
           step == [w \in (1 .. N) \X Entries |-> E(w[1], w[2])]
<1>1. N \in Nat /\ \A k \in 1 .. N : symbols[k] \in SymbolType
  BY DEF SectionType
<1>2. ASSUME NEW k \in 1 .. N, NEW l \in Entries PROVE E(k, l) \in Entries
  <2>1. symbols[k].name \in Names
    BY <1>1 DEF SymbolType
  <2>2. Entry(symbols[k], table.type) \in EntryType
    BY <2>1 DEF Entry, EntryType
  <2> QED BY <2>2 DEF Entries
<1> HIDE DEF Keep
<1>3. step \in Steps(N, Entries) /\ << >> \in Entries
  BY <1>2 DEF Steps, Entries
<1>4. \A k \in 1 .. N, l \in Entries : step[<< k, l >>] = E(k, l)
  OBVIOUS
<1> HIDE DEF step, E
<1>5. PICK f : IsLoop(f, N, Entries, << >>, step)
  BY <1>1, <1>3, LoopDefined
<1>6. /\ f \in [0 .. N -> Entries] /\ f[0] = << >>
      /\ \A k \in 1 .. N : f[k] = E(k, f[k - 1])
  <2>1. f \in [0 .. N -> Entries] /\ f[0] = << >>
    BY <1>5 DEF IsLoop
  <2>2. ASSUME NEW k \in 1 .. N PROVE f[k] = E(k, f[k - 1])
    <3>1. k - 1 \in 0 .. N
      BY <1>1
    <3>2. f[k] = step[<< k, f[k - 1] >>]
      BY <1>5 DEF IsLoop
    <3> QED BY <1>4, <2>1, <3>1, <3>2
  <2> QED BY <2>1, <2>2
<1> DEFINE eqn(g) == g = [k \in 0 .. N |-> IF k = 0 THEN << >> ELSE E(k, g[k - 1])]
           g == CHOOSE g : eqn(g)
<1>7. eqn(f)
  <2>1. \A k \in 0 .. N : f[k] = IF k = 0 THEN << >> ELSE E(k, f[k - 1])
    BY <1>1, <1>6
  <2> QED BY <1>6, <2>1
<1>8. eqn(g)
  BY <1>7
<1>9. Stored(table) = g[N]
  BY Zenon DEF Stored, E, Keep
<1> HIDE DEF g
<1>10. \A k \in 0 .. N : f[k] = g[k]
  <2>1. \A k \in 0 .. N : g[k] = IF k = 0 THEN << >> ELSE E(k, g[k - 1])
    BY <1>8
  <2>2. f[0] = g[0]
    BY <1>1, <1>6, <2>1
  <2>3. ASSUME NEW k \in 1 .. N, f[k - 1] = g[k - 1] PROVE f[k] = g[k]
    <3>1. k \in 0 .. N /\ k # 0
      BY <1>1
    <3>2. f[k] = E(k, f[k - 1]) /\ g[k] = E(k, g[k - 1])
      BY <1>6, <2>1, <3>1
    <3> QED BY <2>3, <3>2
  <2>4. N \in Nat
    BY <1>1
  <2> HIDE DEF eqn
  <2>5. GoAlike(f, g, N)
    BY <2>2, <2>3 DEF GoAlike
  <2> QED BY <2>4, <2>5, AgreeUpTo
<1>11. Stored(table) = f[N]
  BY <1>1, <1>9, <1>10
<1> QED BY <1>6, <1>11 DEF E, Keep

LEMMA StoredType ==
  ASSUME NEW table \in SectionType, table.type \in Tables
  PROVE  Stored(table) \in Entries
<1>1. PICK N : N = Len(table.symbols)
  OBVIOUS
<1>2. N \in Nat
  BY <1>1 DEF SectionType
<1>3. PICK f \in [0 .. N -> Entries] : Stored(table) = f[N]
  BY <1>1, StoredLoop
<1> QED BY <1>2, <1>3

LEMMA ParseSectionType ==
  ASSUME NEW parse \in ParseType, NEW section \in SectionType
  PROVE  ParseSection(parse, section) \in ParseType
<1>1. CASE parse.end = "ok" /\ section.type \in Tables
  <2>1. Stored(section) \in Entries /\ parse.list \in Entries
    BY <1>1, StoredType DEF ParseType
  <2>2. parse.list \o Stored(section) \in Entries
    BY <2>1 DEF Entries
  <2> QED BY <1>1, <2>2 DEF ParseSection, ParseSymtable, ParseType
<1>2. CASE ~ (parse.end = "ok" /\ section.type \in Tables)
  BY <1>2 DEF ParseSection
<1> QED BY <1>1, <1>2

\* The loop over the sections of a member.
LEMMA ParseElfLoop ==
  ASSUME NEW parse \in ParseType, NEW sections \in Seq(SectionType), NEW N, N = Len(sections)
  PROVE  \E f \in [0 .. N -> ParseType] :
           /\ f[0] = parse
           /\ \A k \in 1 .. N : f[k] = ParseSection(f[k - 1], sections[k])
           /\ ParseElf(parse, sections) = f[N]
<1> DEFINE E(k, l) == ParseSection(l, sections[k])
           step == [w \in (1 .. N) \X ParseType |-> E(w[1], w[2])]
<1>1. N \in Nat /\ parse \in ParseType
  OBVIOUS
<1>2. ASSUME NEW k \in 1 .. N, NEW l \in ParseType PROVE E(k, l) \in ParseType
  <2>1. sections[k] \in SectionType
    BY <1>1
  <2> QED BY <2>1, ParseSectionType
<1>3. step \in Steps(N, ParseType)
  BY <1>2 DEF Steps
<1>4. \A k \in 1 .. N, l \in ParseType : step[<< k, l >>] = E(k, l)
  OBVIOUS
<1> HIDE DEF step, E
<1>5. PICK f : IsLoop(f, N, ParseType, parse, step)
  BY <1>1, <1>3, LoopDefined
<1>6. /\ f \in [0 .. N -> ParseType] /\ f[0] = parse
      /\ \A k \in 1 .. N : f[k] = E(k, f[k - 1])
  <2>1. f \in [0 .. N -> ParseType] /\ f[0] = parse
    BY <1>5 DEF IsLoop
  <2>2. ASSUME NEW k \in 1 .. N PROVE f[k] = E(k, f[k - 1])
    <3>1. k - 1 \in 0 .. N
      BY <1>1
    <3>2. f[k] = step[<< k, f[k - 1] >>]
      BY <1>5 DEF IsLoop
    <3> QED BY <1>4, <2>1, <3>1, <3>2
  <2> QED BY <2>1, <2>2
<1> DEFINE eqn(g) == g = [k \in 0 .. N |-> IF k = 0 THEN parse ELSE E(k, g[k - 1])]
           g == CHOOSE g : eqn(g)
<1>7. eqn(g)
  <2>1. \A k \in 0 .. N : f[k] = IF k = 0 THEN parse ELSE E(k, f[k - 1])
    BY <1>1, <1>6
  <2>2. eqn(f)
    BY <1>6, <2>1
  <2> QED BY <2>2
<1>8. ParseElf(parse, sections) = g[N]
  BY Zenon DEF ParseElf, E
<1> HIDE DEF g
<1>9. \A k \in 0 .. N : f[k] = g[k]
  <2>1. \A k \in 0 .. N : g[k] = IF k = 0 THEN parse ELSE E(k, g[k - 1])
    BY <1>7
  <2>2. f[0] = g[0]
    BY <1>1, <1>6, <2>1
  <2>3. ASSUME NEW k \in 1 .. N, f[k - 1] = g[k - 1] PROVE f[k] = g[k]
    <3>1. k \in 0 .. N /\ k # 0
      BY <1>1
    <3>2. f[k] = E(k, f[k - 1]) /\ g[k] = E(k, g[k - 1])
      BY <1>6, <2>1, <3>1
    <3> QED BY <2>3, <3>2
  <2>4. GoAlike(f, g, N)
    BY <2>2, <2>3 DEF GoAlike
  <2> HIDE DEF eqn
  <2> QED BY <1>1, <2>4, AgreeUpTo
<1>10. ParseElf(parse, sections) = f[N]
  BY <1>1, <1>8, <1>9
<1> QED BY <1>6, <1>10 DEF E

LEMMA ParseElfType ==
  ASSUME NEW parse \in ParseType, NEW sections \in Seq(SectionType)
  PROVE  ParseElf(parse, sections) \in ParseType
<1>1. PICK N \in Nat : N = Len(sections)
  OBVIOUS
<1>2. PICK f \in [0 .. N -> ParseType] : ParseElf(parse, sections) = f[N]
  BY <1>1, ParseElfLoop
<1> QED BY <1>2

LEMMA ParseMemberType ==
  ASSUME NEW parse \in ParseType, NEW member \in MemberType
  PROVE  ParseMember(parse, member) \in ParseType
<1>1. member.sections \in Seq(SectionType) /\ member.kind \in {"elf", "other", "bad"}
  BY DEF MemberType
<1>2. ParseElf(parse, member.sections) \in ParseType
  BY <1>1, ParseElfType
<1>3. [parse EXCEPT !.end = "exit"] \in ParseType
  BY DEF ParseType
<1> QED BY <1>1, <1>2, <1>3 DEF ParseMember

\* The loop over the members of an archive.
LEMMA ParseArchiveLoop ==
  ASSUME NEW parse \in ParseType, NEW members \in Seq(MemberType), NEW N, N = Len(members)
  PROVE  \E f \in [0 .. N -> ParseType] :
           /\ f[0] = parse
           /\ \A k \in 1 .. N : f[k] = ParseMember(f[k - 1], members[k])
           /\ ParseArchive(parse, members) = f[N]
<1> DEFINE E(k, l) == ParseMember(l, members[k])
           step == [w \in (1 .. N) \X ParseType |-> E(w[1], w[2])]
<1>1. N \in Nat /\ parse \in ParseType
  OBVIOUS
<1>2. ASSUME NEW k \in 1 .. N, NEW l \in ParseType PROVE E(k, l) \in ParseType
  <2>1. members[k] \in MemberType
    BY <1>1
  <2> QED BY <2>1, ParseMemberType
<1>3. step \in Steps(N, ParseType)
  BY <1>2 DEF Steps
<1>4. \A k \in 1 .. N, l \in ParseType : step[<< k, l >>] = E(k, l)
  OBVIOUS
<1> HIDE DEF step, E
<1>5. PICK f : IsLoop(f, N, ParseType, parse, step)
  BY <1>1, <1>3, LoopDefined
<1>6. /\ f \in [0 .. N -> ParseType] /\ f[0] = parse
      /\ \A k \in 1 .. N : f[k] = E(k, f[k - 1])
  <2>1. f \in [0 .. N -> ParseType] /\ f[0] = parse
    BY <1>5 DEF IsLoop
  <2>2. ASSUME NEW k \in 1 .. N PROVE f[k] = E(k, f[k - 1])
    <3>1. k - 1 \in 0 .. N
      BY <1>1
    <3>2. f[k] = step[<< k, f[k - 1] >>]
      BY <1>5 DEF IsLoop
    <3> QED BY <1>4, <2>1, <3>1, <3>2
  <2> QED BY <2>1, <2>2
<1> DEFINE eqn(g) == g = [k \in 0 .. N |-> IF k = 0 THEN parse ELSE E(k, g[k - 1])]
           g == CHOOSE g : eqn(g)
<1>7. eqn(g)
  <2>1. \A k \in 0 .. N : f[k] = IF k = 0 THEN parse ELSE E(k, f[k - 1])
    BY <1>1, <1>6
  <2>2. eqn(f)
    BY <1>6, <2>1
  <2> QED BY <2>2
<1>8. ParseArchive(parse, members) = g[N]
  BY Zenon DEF ParseArchive, E
<1> HIDE DEF g
<1>9. \A k \in 0 .. N : f[k] = g[k]
  <2>1. \A k \in 0 .. N : g[k] = IF k = 0 THEN parse ELSE E(k, g[k - 1])
    BY <1>7
  <2>2. f[0] = g[0]
    BY <1>1, <1>6, <2>1
  <2>3. ASSUME NEW k \in 1 .. N, f[k - 1] = g[k - 1] PROVE f[k] = g[k]
    <3>1. k \in 0 .. N /\ k # 0
      BY <1>1
    <3>2. f[k] = E(k, f[k - 1]) /\ g[k] = E(k, g[k - 1])
      BY <1>6, <2>1, <3>1
    <3> QED BY <2>3, <3>2
  <2>4. GoAlike(f, g, N)
    BY <2>2, <2>3 DEF GoAlike
  <2> HIDE DEF eqn
  <2> QED BY <1>1, <2>4, AgreeUpTo
<1>10. ParseArchive(parse, members) = f[N]
  BY <1>1, <1>8, <1>9
<1> QED BY <1>6, <1>10 DEF E

LEMMA ParseArchiveType ==
  ASSUME NEW parse \in ParseType, NEW members \in Seq(MemberType)
  PROVE  ParseArchive(parse, members) \in ParseType
<1>1. PICK N \in Nat : N = Len(members)
  OBVIOUS
<1>2. PICK f \in [0 .. N -> ParseType] : ParseArchive(parse, members) = f[N]
  BY <1>1, ParseArchiveLoop
<1> QED BY <1>2

LEMMA ParseSymtablesType ==
  ASSUME NEW f \in FileType
  PROVE  ParseSymtables(f) \in ParseType
<1>1. Nothing \in ParseType /\ [Nothing EXCEPT !.end = "failed"] \in ParseType
  <2>1. << >> \in Entries
    BY DEF Entries
  <2> QED BY <2>1 DEF Nothing, ParseType
<1>2. CASE f.kind = "elf"
  <2>1. f.members[1].sections \in Seq(SectionType)
    BY <1>2 DEF FileType
  <2> QED BY <1>1, <1>2, <2>1, ParseElfType DEF ParseSymtables
<1>3. CASE f.kind = "archive"
  <2>1. f.members \in Seq(MemberType)
    BY <1>3 DEF FileType
  <2> QED BY <1>1, <1>3, <2>1, ParseArchiveType DEF ParseSymtables
<1>4. CASE f.kind = "none"
  BY <1>1, <1>4 DEF ParseSymtables
<1> QED BY <1>2, <1>3, <1>4 DEF FileType

-----------------------------------------------------------------------------
(* What the parser lists *)

Place == Nat \X Nat \X Nat

\* The entry for the symbol at place p of file f.
EntryAt(f, p) ==
  Entry(f.members[p[1]].sections[p[2]].symbols[p[3]], f.members[p[1]].sections[p[2]].type)

\* The files the parser gets have their members and sections in sequences.
LEMMA MembersType ==
  ASSUME NEW f \in FileType
  PROVE  /\ f.members \in Seq(MemberType)
         /\ f.kind = "elf" => Len(f.members) = 1 /\ f.members[1].kind = "elf"
<1>1. CASE f.kind = "elf"
  <2> DEFINE Only == [kind : {"elf"}, sections : Seq(SectionType)]
  <2>1. f.members \in [1 .. 1 -> Only]
    BY <1>1 DEF FileType
  <2>0. Only \subseteq MemberType
    BY DEF MemberType
  <2> HIDE DEF Only
  <2>2. f.members \in Seq(MemberType) /\ Len(f.members) = 1
    <3>1. f.members \in [1 .. 1 -> MemberType]
      BY <2>0, <2>1
    <3>2. PICK g \in [1 .. 1 -> MemberType] : g = f.members
      BY <3>1
    <3>5. PICK one \in Nat : one = 1
      OBVIOUS
    <3>6. g \in [1 .. one -> MemberType]
      BY <3>5
    <3>3. g \in Seq(MemberType)
      BY <3>6, SeqDef
    <3>4. Len(g) = 1
      BY <3>2, <3>3, LenProperties
    <3> QED BY <3>2, <3>3, <3>4
  <2> QED BY <2>1, <2>2 DEF Only
<1>2. CASE f.kind # "elf"
  BY <1>2 DEF FileType
<1> QED BY <1>1, <1>2

LEMMA SymbolPlaces ==
  ASSUME NEW f \in FileType, NEW p
  PROVE  p \in Symbols(f) <=>
           /\ p \in Place
           /\ p[1] \in 1 .. Len(f.members)
           /\ p[2] \in 1 .. Len(f.members[p[1]].sections)
           /\ p[3] \in 1 .. Len(f.members[p[1]].sections[p[2]].symbols)
<1>1. f.members \in Seq(MemberType)
  BY MembersType
<1>2. ASSUME NEW m \in 1 .. Len(f.members) PROVE f.members[m].sections \in Seq(SectionType)
  <2>1. f.members[m] \in MemberType
    BY <1>1
  <2> QED BY <2>1 DEF MemberType
<1>3. ASSUME NEW m \in 1 .. Len(f.members), NEW s \in 1 .. Len(f.members[m].sections)
      PROVE  f.members[m].sections[s].symbols \in Seq(SymbolType)
  <2>1. f.members[m].sections[s] \in SectionType
    BY <1>2
  <2> QED BY <2>1 DEF SectionType
<1>4. p \in Symbols(f) <=>
        \E m \in DOMAIN f.members : \E s \in DOMAIN f.members[m].sections :
          \E k \in DOMAIN f.members[m].sections[s].symbols : p = <<m, s, k>>
  BY DEF Symbols
<1>5. p \in Symbols(f) <=>
        \E m \in 1 .. Len(f.members) : \E s \in 1 .. Len(f.members[m].sections) :
          \E k \in 1 .. Len(f.members[m].sections[s].symbols) : p = <<m, s, k>>
  <2>1. DOMAIN f.members = 1 .. Len(f.members)
    BY <1>1
  <2>2. \A m \in 1 .. Len(f.members) : DOMAIN f.members[m].sections = 1 .. Len(f.members[m].sections)
    BY <1>2
  <2>3. \A m \in 1 .. Len(f.members) : \A s \in 1 .. Len(f.members[m].sections) :
          DOMAIN f.members[m].sections[s].symbols = 1 .. Len(f.members[m].sections[s].symbols)
    BY <1>3
  <2> QED BY <1>4, <2>1, <2>2, <2>3
<1>6. ASSUME p \in Symbols(f)
      PROVE  /\ p \in Place
             /\ p[1] \in 1 .. Len(f.members)
             /\ p[2] \in 1 .. Len(f.members[p[1]].sections)
             /\ p[3] \in 1 .. Len(f.members[p[1]].sections[p[2]].symbols)
  <2>1. PICK m \in 1 .. Len(f.members) : \E s \in 1 .. Len(f.members[m].sections) :
          \E k \in 1 .. Len(f.members[m].sections[s].symbols) : p = <<m, s, k>>
    BY <1>5, <1>6
  <2>2. PICK s \in 1 .. Len(f.members[m].sections) :
          \E k \in 1 .. Len(f.members[m].sections[s].symbols) : p = <<m, s, k>>
    BY <2>1
  <2>3. PICK k \in 1 .. Len(f.members[m].sections[s].symbols) : p = <<m, s, k>>
    BY <2>2
  <2>4. p[1] = m /\ p[2] = s /\ p[3] = k /\ p \in Place
    BY <2>3 DEF Place
  <2> QED BY <2>4
<1>7. ASSUME p \in Place PROVE p = <<p[1], p[2], p[3]>>
  BY <1>7 DEF Place
<1> QED BY <1>5, <1>6, <1>7, Zenon

\* An element put behind b is put behind a and b.
Behind(a, b, e) == Append(a \o b, e) = a \o Append(b, e)

LEMMA AppendBehind ==
  ASSUME NEW E, NEW a \in Seq(E), NEW b \in Seq(E), NEW e \in E
  PROVE  Behind(a, b, e)
<1>1. Append(a \o b, e) \in Seq(E) /\ a \o Append(b, e) \in Seq(E)
  OBVIOUS
<1>2. Len(Append(a \o b, e)) = Len(a \o Append(b, e))
  OBVIOUS
<1>3. ASSUME NEW i \in 1 .. Len(a \o Append(b, e))
      PROVE  Append(a \o b, e)[i] = (a \o Append(b, e))[i]
  OBVIOUS
<1>4. Append(a \o b, e) = a \o Append(b, e)
  BY <1>1, <1>2, <1>3, SeqEqual
<1> QED BY <1>4 DEF Behind

\* A list with one more entry lists one more place, that is behind the others.
LEMMA AddPlace ==
  ASSUME NEW list \in Entries, NEW f, NEW S, ListsPlaces(list, f, S),
         NEW p, \A q \in S : Before(q, p)
  PROVE  ListsPlaces(Append(list, EntryAt(f, p)), f, S \cup {p})
<1>1. PICK N \in Nat : N = Len(list) /\ DOMAIN list = 1 .. N
  BY DEF Entries
<1>2. PICK place \in [1 .. N -> S] :
        /\ S = {place[n] : n \in 1 .. N}
        /\ \A m, n \in 1 .. N : m < n => Before(place[m], place[n])
        /\ \A n \in 1 .. N : list[n] = EntryAt(f, place[n])
  BY <1>1 DEF ListsPlaces, EntryAt
<1> DEFINE new == [n \in 1 .. N + 1 |-> IF n = N + 1 THEN p ELSE place[n]]
           more == Append(list, EntryAt(f, p))
<1>3. /\ DOMAIN more = 1 .. N + 1
      /\ more[N + 1] = EntryAt(f, p)
      /\ \A n \in 1 .. N : more[n] = list[n]
  BY <1>1 DEF Entries
<1>4. /\ new \in [1 .. N + 1 -> S \cup {p}]
      /\ new[N + 1] = p
      /\ \A n \in 1 .. N : new[n] = place[n]
  BY <1>2
<1> HIDE DEF new, more
<1>5. S \cup {p} = {new[n] : n \in 1 .. N + 1}
  <2>1. ASSUME NEW q \in S PROVE \E n \in 1 .. N + 1 : q = new[n]
    BY <1>2, <1>4
  <2>2. \E n \in 1 .. N + 1 : p = new[n]
    BY <1>4
  <2> QED BY <1>4, <2>1, <2>2
<1>6. ASSUME NEW m \in 1 .. N + 1, NEW n \in 1 .. N + 1, m < n
      PROVE  Before(new[m], new[n])
  <2>1. m \in 1 .. N
    BY <1>6
  <2>2. CASE n = N + 1
    BY <1>2, <1>4, <2>1, <2>2
  <2>3. CASE n # N + 1
    <3>1. n \in 1 .. N
      BY <2>3
    <3> QED BY <1>2, <1>4, <1>6, <2>1, <3>1
  <2> QED BY <2>2, <2>3
<1>7. ASSUME NEW n \in 1 .. N + 1 PROVE more[n] = EntryAt(f, new[n])
  <2>1. CASE n = N + 1
    BY <1>3, <1>4, <2>1
  <2>2. CASE n # N + 1
    <3>1. n \in 1 .. N
      BY <2>2
    <3> QED BY <1>2, <1>3, <1>4, <3>1
  <2> QED BY <2>1, <2>2
<1>8. ListsPlaces(more, f, S \cup {p})
  <2>1. \E g \in [DOMAIN more -> S \cup {p}] :
          /\ S \cup {p} = {g[n] : n \in DOMAIN more}
          /\ \A m, n \in DOMAIN more : m < n => Before(g[m], g[n])
          /\ \A n \in DOMAIN more : more[n] = EntryAt(f, g[n])
    BY <1>3, <1>4, <1>5, <1>6, <1>7
  <2> QED BY <2>1 DEF ListsPlaces, EntryAt
<1> QED BY <1>8 DEF more

\* The places sought up to symbol k of section s of member m.
UpTo(f, m, s, k) ==
  {p \in Sought(f) : \/ p[1] < m
                     \/ p[1] = m /\ p[2] < s
                     \/ p[1] = m /\ p[2] = s /\ p[3] <= k}

\* A section that is no table has none, and behind its last symbol begins the
\* next section.
LEMMA NextSection ==
  ASSUME NEW f \in FileType, NEW m \in 1 .. Len(f.members), NEW s \in 1 .. Len(f.members[m].sections)
  PROVE  /\ UpTo(f, m, s, Len(f.members[m].sections[s].symbols)) = UpTo(f, m, s + 1, 0)
         /\ f.members[m].sections[s].type \notin Tables => UpTo(f, m, s, 0) = UpTo(f, m, s + 1, 0)
<1> DEFINE N == Len(f.members[m].sections[s].symbols)
<1>1. \A p \in Sought(f) :
        /\ p \in Place
        /\ f.members[p[1]].sections[p[2]].type \in Tables
        /\ p[3] \in 1 .. Len(f.members[p[1]].sections[p[2]].symbols)
  BY SymbolPlaces DEF Sought
<1>2. N \in Nat
  <2>1. f.members[m] \in MemberType
    BY MembersType
  <2>2. f.members[m].sections[s] \in SectionType
    BY <2>1 DEF MemberType
  <2> QED BY <2>2 DEF SectionType
<1>3. m \in Nat /\ s \in Nat
  OBVIOUS
<1>4. \A p \in Sought(f) : p[1] = m /\ p[2] = s => p[3] \in 1 .. N /\ f.members[m].sections[s].type \in Tables
  BY <1>1
<1>5. \A p \in Sought(f) : p[1] \in Nat /\ p[2] \in Nat /\ p[3] \in Nat \ {0}
  BY <1>1 DEF Place
<1> HIDE DEF N
<1>6. UpTo(f, m, s, N) = UpTo(f, m, s + 1, 0)
  BY <1>2, <1>3, <1>4, <1>5 DEF UpTo
<1>7. f.members[m].sections[s].type \notin Tables => UpTo(f, m, s, 0) = UpTo(f, m, s + 1, 0)
  BY <1>3, <1>4, <1>5 DEF UpTo
<1> QED BY <1>6, <1>7 DEF N

\* Behind the last section of a member begins the next one, and a member that
\* is no ELF file has none.
LEMMA NextMember ==
  ASSUME NEW f \in FileType, NEW m \in 1 .. Len(f.members)
  PROVE  /\ UpTo(f, m, Len(f.members[m].sections) + 1, 0) = UpTo(f, m + 1, 1, 0)
         /\ f.members[m].kind # "elf" => UpTo(f, m, 1, 0) = UpTo(f, m + 1, 1, 0)
<1> DEFINE N == Len(f.members[m].sections)
<1>1. \A p \in Sought(f) :
        /\ p \in Place
        /\ f.members[p[1]].kind = "elf"
        /\ p[2] \in 1 .. Len(f.members[p[1]].sections)
        /\ p[3] \in 1 .. Len(f.members[p[1]].sections[p[2]].symbols)
  BY SymbolPlaces DEF Sought
<1>2. N \in Nat
  <2>1. f.members[m] \in MemberType
    BY MembersType
  <2> QED BY <2>1 DEF MemberType
<1>3. m \in Nat
  OBVIOUS
<1>4. \A p \in Sought(f) : p[1] = m => p[2] \in 1 .. N /\ f.members[m].kind = "elf"
  BY <1>1
<1>5. \A p \in Sought(f) : p[1] \in Nat /\ p[2] \in Nat \ {0} /\ p[3] \in Nat \ {0}
  BY <1>1 DEF Place
<1> HIDE DEF N
<1>6. UpTo(f, m, N + 1, 0) = UpTo(f, m + 1, 1, 0)
  BY <1>2, <1>3, <1>4, <1>5 DEF UpTo
<1>7. f.members[m].kind # "elf" => UpTo(f, m, 1, 0) = UpTo(f, m + 1, 1, 0)
  BY <1>3, <1>4, <1>5 DEF UpTo
<1> QED BY <1>6, <1>7 DEF N

\* One more symbol.
LEMMA NextSymbol ==
  ASSUME NEW f \in FileType, NEW m \in 1 .. Len(f.members), f.members[m].kind = "elf",
         NEW s \in 1 .. Len(f.members[m].sections), f.members[m].sections[s].type \in Tables,
         NEW k \in 1 .. Len(f.members[m].sections[s].symbols)
  PROVE  LET p == <<m, s, k>>
             sought == Wanted(f.members[m].sections[s].symbols[k])
         IN  /\ UpTo(f, m, s, k) = IF sought THEN UpTo(f, m, s, k - 1) \cup {p} ELSE UpTo(f, m, s, k - 1)
             /\ \A q \in UpTo(f, m, s, k - 1) : Before(q, p)
<1> DEFINE p == <<m, s, k>>
           sought == Wanted(f.members[m].sections[s].symbols[k])
<1>1. m \in Nat /\ s \in Nat /\ k \in Nat
  OBVIOUS
<1>2. p \in Symbols(f)
  <2>1. p \in Place /\ p[1] = m /\ p[2] = s /\ p[3] = k
    BY <1>1 DEF Place
  <2> HIDE DEF p
  <2> QED BY <2>1, SymbolPlaces
<1>3. p \in Sought(f) <=> sought
  BY <1>2 DEF Sought
<1>4. \A q \in Sought(f) : q \in Place
  BY SymbolPlaces DEF Sought
<1>5. \A q \in Sought(f) : /\ q[1] \in Nat /\ q[2] \in Nat /\ q[3] \in Nat
                           /\ q = <<q[1], q[2], q[3]>>
  BY <1>4 DEF Place
<1>6. \A q \in UpTo(f, m, s, k - 1) : Before(q, p)
  BY <1>1, <1>5 DEF UpTo, Before
<1>7. \A q \in Sought(f) : q \in UpTo(f, m, s, k) <=> q \in UpTo(f, m, s, k - 1) \/ q = p
  BY <1>1, <1>5 DEF UpTo
<1>8. UpTo(f, m, s, k) \subseteq Sought(f) /\ UpTo(f, m, s, k - 1) \subseteq Sought(f)
  BY DEF UpTo
<1>9. UpTo(f, m, s, k) = IF sought THEN UpTo(f, m, s, k - 1) \cup {p} ELSE UpTo(f, m, s, k - 1)
  <2> HIDE DEF sought, p
  <2>1. CASE sought
    BY <1>3, <1>7, <1>8, <2>1
  <2>2. CASE ~ sought
    BY <1>3, <1>7, <1>8, <2>2
  <2> QED BY <2>1, <2>2
<1> QED BY <1>6, <1>9

\* After the loop over a table the list has its symbols as well.
LEMMA SectionLists ==
  ASSUME NEW f \in FileType, NEW m \in 1 .. Len(f.members), f.members[m].kind = "elf",
         NEW s \in 1 .. Len(f.members[m].sections), f.members[m].sections[s].type \in Tables,
         NEW list \in Entries, ListsPlaces(list, f, UpTo(f, m, s, 0))
  PROVE  ListsPlaces(list \o Stored(f.members[m].sections[s]), f, UpTo(f, m, s + 1, 0))
<1> DEFINE table == f.members[m].sections[s]
           N == Len(table.symbols)
<1>1. table \in SectionType
  <2>1. f.members[m] \in MemberType
    BY MembersType
  <2> QED BY <2>1 DEF MemberType
<1>2. N \in Nat
  BY <1>1 DEF SectionType
<1>3. PICK g \in [0 .. N -> Entries] :
        /\ g[0] = << >>
        /\ \A k \in 1 .. N :
             g[k] = IF table.symbols[k].name # Nameless /\ Wanted(table.symbols[k])
                      THEN Append(g[k - 1], Entry(table.symbols[k], table.type))
                      ELSE g[k - 1]
        /\ Stored(table) = g[N]
  BY <1>1, StoredLoop
<1> DEFINE Q == {k \in 0 .. N : ListsPlaces(list \o g[k], f, UpTo(f, m, s, k))}
<1>4. 0 \in Q
  <2>1. list \o << >> = list
    BY ConcatEmptySeq DEF Entries
  <2>4. g[0] = << >>
    BY <1>3, Zenon
  <2>2. g[0] = << >> /\ 0 \in 0 .. N
    BY <1>2, <2>4
  <2>3. ListsPlaces(list \o g[0], f, UpTo(f, m, s, 0))
    BY <1>2, <2>1, <2>2
  <2> QED BY <2>2, <2>3
<1>5. ASSUME NEW k \in 0 .. N - 1, k \in Q PROVE k + 1 \in Q
  <2> DEFINE n == k + 1
             p == <<m, s, n>>
             symbol == table.symbols[n]
             S == UpTo(f, m, s, k)
  <2>1. n \in 1 .. N /\ n - 1 = k /\ k \in 0 .. N /\ n \in 0 .. N
    BY <1>2
  <2>2. /\ UpTo(f, m, s, n) = IF Wanted(symbol) THEN S \cup {p} ELSE S
        /\ \A q \in S : Before(q, p)
    BY <2>1, NextSymbol
  <2>3. Wanted(symbol) => symbol.name # Nameless
    BY QueryAssumption DEF Wanted
  <2>4. g[n] = IF Wanted(symbol) THEN Append(g[k], Entry(symbol, table.type)) ELSE g[k]
    BY <1>3, <2>1, <2>3
  <2>5. EntryAt(f, p) = Entry(symbol, table.type)
    BY DEF EntryAt
  <2>6. g[k] \in Entries /\ list \o g[k] \in Entries /\ ListsPlaces(list \o g[k], f, S)
    <3>1. g[k] \in Entries
      BY <1>3, <2>1
    <3>2. list \o g[k] \in Entries
      BY <3>1, ConcatProperties DEF Entries
    <3> QED BY <1>5, <3>1, <3>2
  <2>9. EntryAt(f, p) \in EntryType
    <3>1. symbol \in SymbolType
      BY <1>1, <2>1 DEF SectionType
    <3> QED BY <2>5, <3>1, SMTT(30) DEF Entry, EntryType, SymbolType
  <2> HIDE DEF n, p, symbol, S, table, N
  <2>7. CASE Wanted(symbol)
    <3>1. ListsPlaces(Append(list \o g[k], EntryAt(f, p)), f, S \cup {p})
      BY <2>2, <2>6, AddPlace
    <3>2. Append(list \o g[k], EntryAt(f, p)) = list \o Append(g[k], EntryAt(f, p))
      <4>1. list \in Seq(EntryType) /\ g[k] \in Seq(EntryType)
        BY <2>6 DEF Entries
      <4>2. Behind(list, g[k], EntryAt(f, p))
        BY <2>9, <4>1, AppendBehind
      <4> QED BY <4>2 DEF Behind
    <3> QED BY <2>1, <2>2, <2>4, <2>5, <2>7, <3>1, <3>2 DEF n
  <2>8. CASE ~ Wanted(symbol)
    BY <2>1, <2>2, <2>4, <2>6, <2>8 DEF n
  <2> QED BY <2>7, <2>8
<1>6. N \in Q
  <2> HIDE DEF Q, N
  <2>1. \A k \in 0 .. N - 1 : k \in Q => k + 1 \in Q
    BY <1>5
  <2>2. 0 .. N \subseteq Q
    BY <1>2, <1>4, <2>1, InductionUpTo
  <2> QED BY <1>2, <2>2
<1>7. UpTo(f, m, s, N) = UpTo(f, m, s + 1, 0)
  BY NextSection
<1> HIDE DEF N
<1> QED BY <1>3, <1>6, <1>7

\* What a turn of each loop of the parser does when it ends well.
LEMMA SectionEndsWell ==
  ASSUME NEW parse \in ParseType, NEW section \in SectionType,
         ParseSection(parse, section).end = "ok"
  PROVE  /\ parse.end = "ok"
         /\ ParseSection(parse, section).list =
              IF section.type \in Tables THEN parse.list \o Stored(section) ELSE parse.list
<1>1. CASE parse.end = "ok" /\ section.type \in Tables
  <2>1. CASE section.sound
    BY <1>1, <2>1 DEF ParseSection, ParseSymtable, ParseType
  <2>2. CASE ~ section.sound
    <3>1. ParseSection(parse, section).end = "killed"
      BY <1>1, <2>2 DEF ParseSection, ParseSymtable, ParseType
    <3> QED BY <3>1
  <2> QED BY <2>1, <2>2
<1>2. CASE ~ (parse.end = "ok" /\ section.type \in Tables)
  <2>1. ParseSection(parse, section) = parse
    BY <1>2 DEF ParseSection
  <2> QED BY <1>2, <2>1
<1> QED BY <1>1, <1>2

\* A member that is parsed to its end.
LEMMA MemberLists ==
  ASSUME NEW f \in FileType, NEW m \in 1 .. Len(f.members), f.members[m].kind = "elf",
         NEW parse \in ParseType, ParseElf(parse, f.members[m].sections).end = "ok"
  PROVE  /\ parse.end = "ok"
         /\ ListsPlaces(parse.list, f, UpTo(f, m, 1, 0)) =>
              ListsPlaces(ParseElf(parse, f.members[m].sections).list, f, UpTo(f, m + 1, 1, 0))
<1> DEFINE sections == f.members[m].sections
           N == Len(sections)
<1>1. sections \in Seq(SectionType)
  <2>1. f.members[m] \in MemberType
    BY MembersType
  <2> QED BY <2>1 DEF MemberType
<1>2. N \in Nat /\ \A s \in 1 .. N : sections[s] \in SectionType
  BY <1>1
<1> HIDE DEF sections
<1>3. PICK turn \in [0 .. N -> ParseType] :
        /\ turn[0] = parse
        /\ \A k \in 1 .. N : turn[k] = ParseSection(turn[k - 1], sections[k])
        /\ ParseElf(parse, sections) = turn[N]
  BY <1>1, ParseElfLoop
<1> DEFINE Listed(k) ==
             /\ parse.end = "ok"
             /\ ListsPlaces(parse.list, f, UpTo(f, m, 1, 0)) =>
                  ListsPlaces(turn[k].list, f, UpTo(f, m, k + 1, 0))
           Q == {k \in 0 .. N : turn[k].end = "ok" => Listed(k)}
<1>4. 0 \in Q
  <2>1. 0 + 1 = 1 /\ 0 \in 0 .. N
    BY <1>2
  <2> QED BY <1>3, <2>1
<1>5. ASSUME NEW k \in 0 .. N - 1, k \in Q PROVE k + 1 \in Q
  <2> DEFINE n == k + 1
  <2>1. n \in 1 .. N /\ n \in 0 .. N /\ k \in 0 .. N /\ n - 1 = k
    BY <1>2
  <2> SUFFICES ASSUME turn[n].end = "ok" PROVE Listed(n)
    BY <2>1
  <2>2. turn[n] = ParseSection(turn[k], sections[n]) /\ turn[k] \in ParseType
    BY <1>3, <2>1
  <2>3. /\ turn[k].end = "ok"
        /\ turn[n].list = IF sections[n].type \in Tables THEN turn[k].list \o Stored(sections[n])
                                                          ELSE turn[k].list
    BY <1>2, <2>1, <2>2, SectionEndsWell
  <2>4. Listed(k)
    BY <1>5, <2>3
  <2>5. turn[k].list \in Entries
    BY <2>2 DEF ParseType
  <2> SUFFICES ASSUME ListsPlaces(turn[k].list, f, UpTo(f, m, n, 0))
               PROVE  ListsPlaces(turn[n].list, f, UpTo(f, m, n + 1, 0))
    BY <2>4
  <2> HIDE DEF n
  <2>6. CASE sections[n].type \in Tables
    BY <2>1, <2>3, <2>5, <2>6, SectionLists DEF sections
  <2>7. CASE sections[n].type \notin Tables
    <3>1. UpTo(f, m, n, 0) = UpTo(f, m, n + 1, 0)
      BY <2>1, <2>7, NextSection DEF sections
    <3> QED BY <2>3, <2>7, <3>1
  <2> QED BY <2>6, <2>7
<1>6. N \in Q
  <2> HIDE DEF Q, N
  <2>1. \A k \in 0 .. N - 1 : k \in Q => k + 1 \in Q
    BY <1>5
  <2>2. 0 .. N \subseteq Q
    BY <1>2, <1>4, <2>1, InductionUpTo
  <2> QED BY <1>2, <2>2
<1>7. UpTo(f, m, N + 1, 0) = UpTo(f, m + 1, 1, 0)
  BY NextMember DEF sections
<1>8. turn[N].end = "ok"
  BY <1>3 DEF sections
<1>9. Listed(N)
  BY <1>6, <1>8
<1> QED BY <1>3, <1>7, <1>9 DEF sections

\* What the parser hands over for a file it can parse is what the tables of
\* the file hold.
THEOREM ParserListsAll ==
  ASSUME NEW f \in FileType, ParseSymtables(f).end = "ok"
  PROVE  ListsPlaces(ParseSymtables(f).list, f, Sought(f))
<1> DEFINE N == Len(f.members)
<1>1. f.members \in Seq(MemberType) /\ N \in Nat /\ \A m \in 1 .. N : f.members[m] \in MemberType
  BY MembersType
<1>2. Nothing \in ParseType /\ Nothing.list = << >> /\ Nothing.end = "ok"
  <2>1. << >> \in Entries
    BY DEF Entries
  <2>2. Nothing.list = << >> /\ Nothing.end = "ok"
    BY DEF Nothing
  <2>3. Nothing \in ParseType
    BY <2>1 DEF Nothing, ParseType
  <2> QED BY <2>2, <2>3
<1>3. UpTo(f, 1, 1, 0) = {} /\ UpTo(f, N + 1, 1, 0) = Sought(f)
  <2>1. \A p \in Sought(f) : p \in Place /\ p[1] \in 1 .. N /\ p[2] >= 1 /\ p[3] >= 1
    <3>1. \A p \in Sought(f) : p \in Symbols(f)
      BY Zenon DEF Sought
    <3>2. ASSUME NEW p \in Symbols(f) PROVE p \in Place /\ p[1] \in 1 .. N /\ p[2] >= 1 /\ p[3] >= 1
      <4>1. /\ p \in Place /\ p[1] \in 1 .. N
            /\ p[2] \in 1 .. Len(f.members[p[1]].sections)
            /\ p[3] \in 1 .. Len(f.members[p[1]].sections[p[2]].symbols)
        BY SymbolPlaces, Zenon
      <4> QED BY <4>1
    <3> QED BY <3>1, <3>2
  <2>2. \A p \in Sought(f) : p[1] \in Nat /\ p[1] >= 1 /\ p[1] < N + 1 /\ p[2] \in Nat /\ p[3] \in Nat
    BY <1>1, <2>1 DEF Place
  <2> HIDE DEF N
  <2>3. UpTo(f, 1, 1, 0) = {}
    BY <2>1, <2>2 DEF UpTo
  <2>4. UpTo(f, N + 1, 1, 0) = Sought(f)
    BY <2>2 DEF UpTo
  <2> QED BY <2>3, <2>4
<1>4. ListsPlaces(Nothing.list, f, UpTo(f, 1, 1, 0))
  <2>1. ListsPlaces(<< >>, f, {})
    <3> DEFINE place == [n \in {} |-> n]
    <3>1. DOMAIN << >> = {}
      OBVIOUS
    <3>2. place \in [DOMAIN << >> -> {}] /\ {} = {place[n] : n \in DOMAIN << >>}
      BY <3>1
    <3> HIDE DEF place
    <3> QED BY <3>1, <3>2 DEF ListsPlaces
  <2> QED BY <1>2, <1>3, <2>1
<1>5. CASE f.kind = "elf"
  <2>1. N = 1 /\ f.members[1].kind = "elf"
    BY <1>5, MembersType
  <2>2. ParseSymtables(f) = ParseElf(Nothing, f.members[1].sections)
    BY <1>5 DEF ParseSymtables
  <2>3. 1 \in 1 .. Len(f.members)
    BY <2>1
  <2>4. ListsPlaces(ParseSymtables(f).list, f, UpTo(f, 1 + 1, 1, 0))
    BY <1>2, <1>4, <2>1, <2>2, <2>3, MemberLists
  <2> QED BY <1>3, <2>1, <2>4
<1>6. CASE f.kind = "archive"
  <2>1. ParseSymtables(f) = ParseArchive(Nothing, f.members)
    BY <1>6 DEF ParseSymtables
  <2> HIDE DEF N
  <2>2. PICK turn \in [0 .. N -> ParseType] :
          /\ turn[0] = Nothing
          /\ \A k \in 1 .. N : turn[k] = ParseMember(turn[k - 1], f.members[k])
          /\ ParseArchive(Nothing, f.members) = turn[N]
    BY <1>1, <1>2, ParseArchiveLoop DEF N
  <2> DEFINE Listed(k) == ListsPlaces(turn[k].list, f, UpTo(f, k + 1, 1, 0))
             Q == {k \in 0 .. N : turn[k].end = "ok" => Listed(k)}
  <2>3. 0 \in Q
    <3>1. 0 + 1 = 1 /\ 0 \in 0 .. N
      BY <1>1
    <3> QED BY <1>4, <2>2, <3>1
  <2>4. ASSUME NEW k \in 0 .. N - 1, k \in Q PROVE k + 1 \in Q
    <3> DEFINE n == k + 1
               member == f.members[n]
    <3>1. n \in 1 .. N /\ n \in 0 .. N /\ k \in 0 .. N /\ n - 1 = k
      BY <1>1
    <3> SUFFICES ASSUME turn[n].end = "ok" PROVE Listed(n)
      BY <3>1
    <3>2. turn[n] = ParseMember(turn[k], member) /\ turn[k] \in ParseType
      BY <2>2, <3>1
    <3>3. member.kind \in {"elf", "other", "bad"}
      BY <1>1, <3>1 DEF MemberType
    <3> HIDE DEF n
    <3>4. CASE turn[k].end = "ok" /\ member.kind = "elf"
      <4>1. turn[n] = ParseElf(turn[k], member.sections)
        BY <3>2, <3>4 DEF ParseMember
      <4>2. ListsPlaces(turn[k].list, f, UpTo(f, n, 1, 0))
        BY <2>4, <3>4 DEF n
      <4> QED BY <3>1, <3>2, <3>4, <4>1, <4>2, MemberLists DEF N
    <3>5. CASE turn[k].end = "ok" /\ member.kind = "other"
      <4>1. turn[n] = turn[k]
        BY <3>2, <3>5 DEF ParseMember
      <4>2. UpTo(f, n, 1, 0) = UpTo(f, n + 1, 1, 0)
        BY <3>1, <3>5, NextMember DEF N
      <4>3. ListsPlaces(turn[k].list, f, UpTo(f, n, 1, 0))
        BY <2>4, <3>5 DEF n
      <4> QED BY <4>1, <4>2, <4>3
    <3>6. CASE turn[k].end = "ok" /\ member.kind = "bad"
      <4>1. turn[n].end = "exit"
        BY <3>2, <3>6 DEF ParseMember, ParseType
      <4> QED BY <4>1
    <3>7. CASE turn[k].end # "ok"
      <4>1. turn[n] = turn[k]
        BY <3>2, <3>7 DEF ParseMember
      <4> QED BY <3>7, <4>1
    <3> QED BY <3>3, <3>4, <3>5, <3>6, <3>7
  <2>5. N \in Q
    <3> HIDE DEF Q
    <3>1. \A k \in 0 .. N - 1 : k \in Q => k + 1 \in Q
      BY <2>4
    <3>2. 0 .. N \subseteq Q
      BY <1>1, <2>3, <3>1, InductionUpTo
    <3> QED BY <1>1, <3>2
  <2> QED BY <1>3, <2>1, <2>2, <2>5
<1>7. CASE f.kind = "none"
  <2>1. ParseSymtables(f).end = "failed"
    BY <1>7 DEF ParseSymtables, Nothing
  <2> QED BY <2>1
<1> QED BY <1>5, <1>6, <1>7 DEF FileType

-----------------------------------------------------------------------------
(* The invariant *)

Text ==
  ({"path"} \X Nat) \cup ({"symbol"} \X EntryType) \cup {<<"colon", 0>>, <<"time", 0>>}

Insertion == [by : Nat, text : Text]

Workers == 1 .. HardwareThreads

TypeInv ==
  /\ files \in Seq(File) /\ chunks \in Seq(Seq(Nat)) /\ launched \in Nat
  /\ at \in [Workers -> Nat \ {0}]
  /\ doing \in [Workers -> {"parse", "print", "exit"}]
  /\ entries \in [Workers -> Entries]
  /\ printed \in [Workers -> Nat]
  /\ out \in Seq(Insertion)
  /\ pc \in {"count", "launch", "join", "time", "ended"}
  /\ process \in {"running", "exiting", "exited", "killed"}

\* How the files are divided.
Chunks(n) == [t \in 1 .. ThreadCount(n) |-> Chunk(t - 1, n, ThreadCount(n))]

\* How far the main thread has come.
SplitInv ==
  /\ pc = "count" => chunks = << >> /\ launched = 0
  /\ pc # "count" => chunks = Chunks(Len(files))
  /\ pc = "launch" => launched < Len(chunks)
  /\ pc \in {"join", "time", "ended"} => launched = Len(chunks)

\* What a thread has in its hands: nothing while it looks for its next file,
\* and what the parser made of this one while it prints.
Holds(t) ==
  /\ doing[t] = "parse" => entries[t] = << >> /\ printed[t] = 0
  /\ doing[t] # "parse" => AtFile(t)
  /\ doing[t] = "print" =>
       /\ EndOfParse(t) = "ok" /\ entries[t] = Parsed[FileOf(t)].list
       /\ printed[t] <= 3 * Len(entries[t])

WorkerInv ==
  /\ \A t \in Workers : Holds(t)
  /\ \A t \in Threads : at[t] <= Len(chunks[t]) + 1
  /\ \A t \in Workers \ Threads : at[t] = 1

\* The thread that has called exit never comes to the end of its chunk, so
\* that the main thread waits for it until the process is gone.
RunInv ==
  /\ process \in {"exiting", "exited"} => \E t \in Threads : doing[t] = "exit"
  /\ pc \in {"time", "ended"} => process = "running" /\ \A t \in Threads : ~ AtFile(t)

\* Who has inserted.
OutInv ==
  /\ pc # "ended" => \A n \in DOMAIN out : out[n].by \in Threads
  /\ pc = "ended" =>
       /\ out # << >> /\ out[Len(out)].text = <<"time", 0>>
       /\ \A n \in 1 .. Len(out) - 1 : out[n].by \in Threads

\* What thread t has inserted when it has listed the files at the places kept.
Printed(t, kept) ==
  IF doing[t] = "print"
  THEN Listings(files, chunks[t], kept) \o SubSeq(Listing(chunks[t][at[t]], entries[t]), 1, printed[t])
  ELSE Listings(files, chunks[t], kept)

Share(t) ==
  \E kept \in SUBSET (1 .. at[t] - 1) :
    /\ process = "running" => kept = 1 .. at[t] - 1
    /\ InsertedBy(t, out) = Printed(t, kept)

ShareInv == \A t \in Threads : Share(t)

IInv == TypeInv /\ SplitInv /\ WorkerInv /\ RunInv /\ OutInv /\ ShareInv

-----------------------------------------------------------------------------
(* Listings and chunks *)

\* What a thread inserts for its symbols is three insertions for each.
LEMMA ListingType ==
  ASSUME NEW path \in Nat, NEW symbols \in Entries
  PROVE  /\ Listing(path, symbols) \in Seq(Text)
         /\ Len(Listing(path, symbols)) = 3 * Len(symbols)
<1> DEFINE N == 3 * Len(symbols)
           text(k) == CASE k % 3 = 1 -> <<"path", path>>
                        [] k % 3 = 2 -> <<"colon", 0>>
                        [] OTHER     -> <<"symbol", symbols[k \div 3]>>
<1>1. N \in Nat /\ Len(symbols) \in Nat
  BY DEF Entries
<1>2. ASSUME NEW k \in 1 .. N PROVE text(k) \in Text
  <2>1. CASE k % 3 = 1 \/ k % 3 = 2
    BY <2>1 DEF Text
  <2>2. CASE k % 3 # 1 /\ k % 3 # 2
    <3>1. k \div 3 \in 1 .. Len(symbols)
      <4>1. \A x, y \in Nat : x \in 1 .. 3 * y /\ x % 3 # 1 /\ x % 3 # 2 => x \div 3 \in 1 .. y
        OBVIOUS
      <4> QED BY <1>1, <2>2, <4>1
    <3>2. symbols[k \div 3] \in EntryType
      BY <3>1 DEF Entries
    <3>3. text(k) = <<"symbol", symbols[k \div 3]>>
      BY <2>2
    <3> HIDE DEF text
    <3> QED BY <3>2, <3>3 DEF Text
  <2> QED BY <2>1, <2>2
<1>3. Listing(path, symbols) = [k \in 1 .. N |-> text(k)]
  BY DEF Listing
<1> HIDE DEF text, N
<1>4. [k \in 1 .. N |-> text(k)] \in Seq(Text) /\ Len([k \in 1 .. N |-> text(k)]) = N
  BY <1>1, <1>2
<1> QED BY <1>3, <1>4 DEF N

\* Nothing is inserted for no symbols.
LEMMA ListingOfNothing ==
  ASSUME NEW path \in Nat
  PROVE  Listing(path, << >>) = << >>
<1>1. << >> \in Entries
  BY DEF Entries
<1>2. Listing(path, << >>) \in Seq(Text) /\ Len(Listing(path, << >>)) = 0
  BY <1>1, ListingType
<1> QED BY <1>2

LEMMA ThreadCountFits ==
  ASSUME NEW n \in Nat
  PROVE  ThreadCount(n) \in 1 .. HardwareThreads
<1>1. HardwareThreads \in Nat \ {0} /\ MinFilesPerThread \in Nat \ {0}
  BY ThreadsAssumption
<1> QED BY <1>1, ThreadCountRange DEF ThreadCount

\* A chunk is a share of the files.
LEMMA ChunkIsShare ==
  ASSUME NEW n \in Nat, NEW c \in Nat \ {0}, NEW i \in Nat
  PROVE  /\ Chunk(i, n, c) = [k \in 1 .. ShareSize(i, n, c) |-> ShareBegin(i, n, c) + k]
         /\ ShareSize(i, n, c) \in Nat /\ ShareBegin(i, n, c) \in Nat
         /\ i < c => ShareBegin(i, n, c) + ShareSize(i, n, c) <= n
<1>1. n \div c \in Nat /\ n % c \in Nat
  BY DivMod
<1> DEFINE begin == i * (n \div c) + (IF i < n % c THEN i ELSE n % c)
           size == (n \div c) + (IF i < n % c THEN 1 ELSE 0)
<1>2. Chunk(i, n, c) = [k \in 1 .. size |-> begin + k]
  BY Zenon DEF Chunk
<1>3. ShareSize(i, n, c) = size
  BY Zenon DEF ShareSize
<1>4. ShareBegin(i, n, c) = begin
  <2>1. (IF i < n % c THEN i ELSE n % c) = (IF i <= n % c THEN i ELSE n % c)
    BY <1>1
  <2> QED BY <2>1, Zenon DEF ShareBegin
<1> HIDE DEF begin, size
<1>5. Chunk(i, n, c) = [k \in 1 .. ShareSize(i, n, c) |-> ShareBegin(i, n, c) + k]
  BY <1>2, <1>3, <1>4
<1>6. /\ ShareSize(i, n, c) \in Nat /\ ShareBegin(i, n, c) \in Nat
      /\ ShareBegin(i + 1, n, c) = ShareBegin(i, n, c) + ShareSize(i, n, c)
  BY SharesTile
<1>7. ASSUME i < c PROVE ShareBegin(i, n, c) + ShareSize(i, n, c) <= n
  <2>1. i + 1 \in Nat /\ c \in Nat /\ i + 1 <= c
    BY <1>7
  <2>2. ShareBegin(i + 1, n, c) <= ShareBegin(c, n, c) /\ ShareBegin(c, n, c) = n
    BY <2>1, SharesTile
  <2> QED BY <1>6, <2>2
<1> QED BY <1>5, <1>6, <1>7

\* Every thread gets a chunk, of files that there are.
LEMMA ChunksType ==
  ASSUME NEW n \in Nat
  PROVE  /\ Chunks(n) \in Seq(Seq(1 .. n))
         /\ Len(Chunks(n)) = ThreadCount(n) /\ ThreadCount(n) \in 1 .. HardwareThreads
<1>1. PICK c : c = ThreadCount(n)
  OBVIOUS
<1>2. c \in 1 .. HardwareThreads /\ c \in Nat \ {0}
  BY <1>1, ThreadCountFits, ThreadsAssumption
<1>3. ASSUME NEW t \in 1 .. c PROVE Chunk(t - 1, n, c) \in Seq(1 .. n)
  <2>1. PICK i : i = t - 1
    OBVIOUS
  <2>2. i \in Nat /\ i < c
    BY <1>2, <2>1
  <2> DEFINE begin == ShareBegin(i, n, c)
             size == ShareSize(i, n, c)
  <2>3. /\ Chunk(i, n, c) = [k \in 1 .. size |-> begin + k]
        /\ begin \in Nat /\ size \in Nat /\ begin + size <= n
    BY <1>2, <2>2, ChunkIsShare
  <2> HIDE DEF begin, size
  <2>4. [k \in 1 .. size |-> begin + k] \in Seq(1 .. n)
    BY <2>3
  <2> QED BY <2>1, <2>3, <2>4
<1>4. Chunks(n) = [t \in 1 .. c |-> Chunk(t - 1, n, c)]
  BY <1>1 DEF Chunks
<1>5. [t \in 1 .. c |-> Chunk(t - 1, n, c)] \in Seq(Seq(1 .. n))
  BY <1>2, <1>3
<1>6. Len([t \in 1 .. c |-> Chunk(t - 1, n, c)]) = c
  BY <1>2
<1> QED BY <1>1, <1>2, <1>4, <1>5, <1>6

-----------------------------------------------------------------------------
(* What a thread has inserted *)

\* What thread t has inserted, after each insertion into o.
LEMMA InsertedByLoop ==
  ASSUME NEW t, NEW o \in Seq(Insertion), NEW N, N = Len(o)
  PROVE  \E f \in [0 .. N -> Seq(Text)] :
           /\ f[0] = << >>
           /\ \A k \in 1 .. N : f[k] = IF o[k].by = t THEN Append(f[k - 1], o[k].text) ELSE f[k - 1]
           /\ InsertedBy(t, o) = f[N]
<1> DEFINE E(k, l) == IF o[k].by = t THEN Append(l, o[k].text) ELSE l
           step == [w \in (1 .. N) \X Seq(Text) |-> E(w[1], w[2])]
<1>1. N \in Nat /\ << >> \in Seq(Text)
  OBVIOUS
<1>2. ASSUME NEW k \in 1 .. N, NEW l \in Seq(Text) PROVE E(k, l) \in Seq(Text)
  <2>1. o[k] \in Insertion
    BY <1>1
  <2>2. o[k].text \in Text
    BY <2>1 DEF Insertion
  <2> QED BY <2>2
<1>3. step \in Steps(N, Seq(Text))
  BY <1>2 DEF Steps
<1>4. \A k \in 1 .. N, l \in Seq(Text) : step[<< k, l >>] = E(k, l)
  OBVIOUS
<1> HIDE DEF step, E
<1>5. PICK f : IsLoop(f, N, Seq(Text), << >>, step)
  BY <1>1, <1>3, LoopDefined
<1>6. /\ f \in [0 .. N -> Seq(Text)] /\ f[0] = << >>
      /\ \A k \in 1 .. N : f[k] = E(k, f[k - 1])
  <2>1. f \in [0 .. N -> Seq(Text)] /\ f[0] = << >>
    BY <1>5 DEF IsLoop
  <2>2. ASSUME NEW k \in 1 .. N PROVE f[k] = E(k, f[k - 1])
    <3>1. k - 1 \in 0 .. N
      BY <1>1
    <3>2. f[k] = step[<< k, f[k - 1] >>]
      BY <1>5 DEF IsLoop
    <3> QED BY <1>4, <2>1, <3>1, <3>2
  <2> QED BY <2>1, <2>2
<1> DEFINE eqn(g) == g = [k \in 0 .. N |-> IF k = 0 THEN << >> ELSE E(k, g[k - 1])]
           g == CHOOSE g : eqn(g)
<1>7. eqn(g)
  <2>1. \A k \in 0 .. N : f[k] = IF k = 0 THEN << >> ELSE E(k, f[k - 1])
    BY <1>1, <1>6
  <2>2. eqn(f)
    BY <1>6, <2>1
  <2> QED BY <2>2
<1>8. InsertedBy(t, o) = g[N]
  BY Zenon DEF InsertedBy, E
<1> HIDE DEF g
<1>9. \A k \in 0 .. N : f[k] = g[k]
  <2>1. \A k \in 0 .. N : g[k] = IF k = 0 THEN << >> ELSE E(k, g[k - 1])
    BY <1>7
  <2>2. f[0] = g[0]
    BY <1>1, <1>6, <2>1
  <2>3. ASSUME NEW k \in 1 .. N, f[k - 1] = g[k - 1] PROVE f[k] = g[k]
    <3>1. k \in 0 .. N /\ k # 0
      BY <1>1
    <3>2. f[k] = E(k, f[k - 1]) /\ g[k] = E(k, g[k - 1])
      BY <1>6, <2>1, <3>1
    <3> QED BY <2>3, <3>2
  <2>4. GoAlike(f, g, N)
    BY <2>2, <2>3 DEF GoAlike
  <2> HIDE DEF eqn
  <2> QED BY <1>1, <2>4, AgreeUpTo
<1>10. InsertedBy(t, o) = f[N]
  BY <1>1, <1>8, <1>9
<1> QED BY <1>6, <1>10 DEF E

LEMMA InsertedByType ==
  ASSUME NEW t, NEW o \in Seq(Insertion)
  PROVE  InsertedBy(t, o) \in Seq(Text)
<1>1. PICK N \in Nat : N = Len(o)
  OBVIOUS
<1>2. PICK text : text = InsertedBy(t, o)
  OBVIOUS
<1>3. PICK f \in [0 .. N -> Seq(Text)] : InsertedBy(t, o) = f[N]
  BY <1>1, <1>2, InsertedByLoop
<1> QED BY <1>3

\* InsertedBy, by what it gives after each insertion.
LEMMA InsertedBySteps ==
  ASSUME NEW t, NEW o \in Seq(Insertion)
  PROVE  \E f \in [0 .. Len(o) -> Seq(Text)] :
           /\ f[0] = << >>
           /\ \A k \in 1 .. Len(o) :
                /\ o[k].by = t => f[k] = Append(f[k - 1], o[k].text)
                /\ o[k].by # t => f[k] = f[k - 1]
           /\ InsertedBy(t, o) = f[Len(o)]
<1>1. PICK N : N = Len(o)
  OBVIOUS
<1>2. PICK text : text = InsertedBy(t, o)
  OBVIOUS
<1>3. PICK f \in [0 .. N -> Seq(Text)] :
        /\ f[0] = << >>
        /\ \A k \in 1 .. N : f[k] = IF o[k].by = t THEN Append(f[k - 1], o[k].text) ELSE f[k - 1]
        /\ InsertedBy(t, o) = f[N]
  BY <1>1, <1>2, InsertedByLoop
<1>4. \A k \in 1 .. N :
        /\ o[k].by = t => f[k] = Append(f[k - 1], o[k].text)
        /\ o[k].by # t => f[k] = f[k - 1]
  BY <1>3
<1> QED BY <1>1, <1>3, <1>4

\* An insertion adds to what its thread has inserted, and to that of no other.
LEMMA OneMoreInsertion ==
  ASSUME NEW t, NEW o \in Seq(Insertion), NEW e \in Insertion
  PROVE  InsertedBy(t, Append(o, e)) =
           IF e.by = t THEN Append(InsertedBy(t, o), e.text) ELSE InsertedBy(t, o)
<1>1. PICK p : p = Append(o, e)
  OBVIOUS
<1>15. p \in Seq(Insertion)
  BY <1>1
<1>2. PICK N \in Nat : N = Len(o)
  OBVIOUS
<1>3. PICK M \in Nat : M = Len(p)
  BY <1>15
<1>4. M = N + 1 /\ p[M] = e /\ \A k \in 1 .. N : p[k] = o[k]
  BY <1>1, <1>2, <1>3, <1>15
<1>5. PICK f :
        /\ f \in [0 .. N -> Seq(Text)]
        /\ f[0] = << >>
        /\ \A k \in 1 .. N :
             /\ o[k].by = t => f[k] = Append(f[k - 1], o[k].text)
             /\ o[k].by # t => f[k] = f[k - 1]
        /\ InsertedBy(t, o) = f[N]
  BY <1>2, InsertedBySteps, Zenon
<1>6. PICK g :
        /\ g \in [0 .. M -> Seq(Text)]
        /\ g[0] = << >>
        /\ \A k \in 1 .. M :
             /\ p[k].by = t => g[k] = Append(g[k - 1], p[k].text)
             /\ p[k].by # t => g[k] = g[k - 1]
        /\ InsertedBy(t, p) = g[M]
  BY <1>3, <1>15, InsertedBySteps, Zenon
<1>7. ASSUME NEW k \in 1 .. N, f[k - 1] = g[k - 1] PROVE f[k] = g[k]
  <2>1. k \in 1 .. M /\ p[k] = o[k]
    BY <1>4
  <2>2. CASE o[k].by = t
    BY <1>5, <1>6, <1>7, <2>1, <2>2
  <2>3. CASE o[k].by # t
    BY <1>5, <1>6, <1>7, <2>1, <2>3
  <2> QED BY <2>2, <2>3
<1>8. GoAlike(f, g, N)
  <2>1. f[0] = g[0]
    BY <1>5, <1>6
  <2> QED BY <1>7, <2>1 DEF GoAlike
<1>9. f[N] = g[N]
  <2>1. \A k \in 0 .. N : f[k] = g[k]
    BY <1>8, AgreeUpTo
  <2> QED BY <2>1
<1>10. M \in 1 .. M /\ M - 1 = N
  BY <1>4
<1>11. g[M] = IF e.by = t THEN Append(g[N], e.text) ELSE g[N]
  BY <1>4, <1>6, <1>10
<1> QED BY <1>1, <1>5, <1>6, <1>9, <1>11

LEMMA NothingInserted ==
  ASSUME NEW t, NEW o \in Seq(Insertion), \A n \in DOMAIN o : o[n].by # t
  PROVE  InsertedBy(t, o) = << >>
<1>1. PICK N \in Nat : N = Len(o)
  OBVIOUS
<1>6. PICK text : text = InsertedBy(t, o)
  OBVIOUS
<1>2. PICK f \in [0 .. N -> Seq(Text)] :
        /\ f[0] = << >>
        /\ \A k \in 1 .. N : f[k] = IF o[k].by = t THEN Append(f[k - 1], o[k].text) ELSE f[k - 1]
        /\ InsertedBy(t, o) = f[N]
  BY <1>1, <1>6, InsertedByLoop
<1> DEFINE Q == {k \in 0 .. N : f[k] = << >>}
<1>3. 0 \in Q
  BY <1>2
<1>4. ASSUME NEW k \in 0 .. N - 1, k \in Q PROVE k + 1 \in Q
  <2>1. k + 1 \in 1 .. N /\ (k + 1) - 1 = k
    OBVIOUS
  <2>2. o[k + 1].by # t
    BY <1>1, <2>1
  <2>3. f[k + 1] = f[k]
    BY <1>2, <2>1, <2>2
  <2> QED BY <1>4, <2>1, <2>3
<1>5. N \in Q
  <2> HIDE DEF Q
  <2>1. \A k \in 0 .. N - 1 : k \in Q => k + 1 \in Q
    BY <1>4
  <2>2. 0 .. N \subseteq Q
    BY <1>3, <2>1, InductionUpTo
  <2> QED BY <2>2
<1> QED BY <1>2, <1>5

-----------------------------------------------------------------------------
(* The listings of the files of a chunk *)

LEMMA MatchesType ==
  ASSUME NEW f \in File
  PROVE  /\ Parsed[f] = ParseSymtables(f) /\ Parsed[f] \in ParseType
         /\ Matches(f) \in Entries
<1>1. Parsed[f] = ParseSymtables(f)
  BY DEF Parsed
<1>2. f \in FileType
  BY FileAssumption
<1>3. ParseSymtables(f) \in ParseType
  BY <1>2, ParseSymtablesType
<1>4. Parsed[f].list \in Entries /\ << >> \in Entries
  BY <1>1, <1>3 DEF ParseType, Entries
<1> QED BY <1>1, <1>3, <1>4 DEF Matches

\* f has the listings of the kept places up to each place.
ListingsAt(f, fs, chunk, kept, N) ==
  /\ f[0] = << >>
  /\ \A k \in 1 .. N :
       f[k] = IF k \in kept THEN f[k - 1] \o Listing(chunk[k], Matches(fs[chunk[k]])) ELSE f[k - 1]
  /\ Listings(fs, chunk, kept) = f[N]

\* The listings of the places kept, after each place of the chunk.
LEMMA ListingsLoop ==
  ASSUME NEW fs \in Seq(File), NEW chunk \in Seq(1 .. Len(fs)), NEW kept, NEW N, N = Len(chunk)
  PROVE  \E f \in [0 .. N -> Seq(Text)] : ListingsAt(f, fs, chunk, kept, N)
<1> DEFINE E(k, l) == IF k \in kept THEN l \o Listing(chunk[k], Matches(fs[chunk[k]])) ELSE l
           step == [w \in (1 .. N) \X Seq(Text) |-> E(w[1], w[2])]
<1>1. N \in Nat /\ << >> \in Seq(Text)
  OBVIOUS
<1>2. ASSUME NEW k \in 1 .. N, NEW l \in Seq(Text) PROVE E(k, l) \in Seq(Text)
  <2>1. chunk[k] \in 1 .. Len(fs)
    BY <1>1
  <2>2. chunk[k] \in Nat /\ fs[chunk[k]] \in File
    BY <2>1
  <2>3. Matches(fs[chunk[k]]) \in Entries
    BY <2>2, MatchesType
  <2>4. Listing(chunk[k], Matches(fs[chunk[k]])) \in Seq(Text)
    BY <2>2, <2>3, ListingType
  <2> QED BY <2>4
<1>3. step \in Steps(N, Seq(Text))
  BY <1>2 DEF Steps
<1>4. \A k \in 1 .. N, l \in Seq(Text) : step[<< k, l >>] = E(k, l)
  OBVIOUS
<1> HIDE DEF step, E
<1>5. PICK f : IsLoop(f, N, Seq(Text), << >>, step)
  BY <1>1, <1>3, LoopDefined
<1>6. /\ f \in [0 .. N -> Seq(Text)] /\ f[0] = << >>
      /\ \A k \in 1 .. N : f[k] = E(k, f[k - 1])
  <2>1. f \in [0 .. N -> Seq(Text)] /\ f[0] = << >>
    BY <1>5 DEF IsLoop
  <2>2. ASSUME NEW k \in 1 .. N PROVE f[k] = E(k, f[k - 1])
    <3>1. k - 1 \in 0 .. N
      BY <1>1
    <3>2. f[k] = step[<< k, f[k - 1] >>]
      BY <1>5 DEF IsLoop
    <3> QED BY <1>4, <2>1, <3>1, <3>2
  <2> QED BY <2>1, <2>2
<1> DEFINE eqn(g) == g = [k \in 0 .. N |-> IF k = 0 THEN << >> ELSE E(k, g[k - 1])]
           g == CHOOSE g : eqn(g)
<1>7. eqn(g)
  <2>1. \A k \in 0 .. N : f[k] = IF k = 0 THEN << >> ELSE E(k, f[k - 1])
    BY <1>1, <1>6
  <2>2. eqn(f)
    BY <1>6, <2>1
  <2> QED BY <2>2
<1>8. Listings(fs, chunk, kept) = g[N]
  BY Zenon DEF Listings, E
<1> HIDE DEF g
<1>9. \A k \in 0 .. N : f[k] = g[k]
  <2>1. \A k \in 0 .. N : g[k] = IF k = 0 THEN << >> ELSE E(k, g[k - 1])
    BY <1>7
  <2>2. f[0] = g[0]
    BY <1>1, <1>6, <2>1
  <2>3. ASSUME NEW k \in 1 .. N, f[k - 1] = g[k - 1] PROVE f[k] = g[k]
    <3>1. k \in 0 .. N /\ k # 0
      BY <1>1
    <3>2. f[k] = E(k, f[k - 1]) /\ g[k] = E(k, g[k - 1])
      BY <1>6, <2>1, <3>1
    <3> QED BY <2>3, <3>2
  <2>4. GoAlike(f, g, N)
    BY <2>2, <2>3 DEF GoAlike
  <2> HIDE DEF eqn
  <2> QED BY <1>1, <2>4, AgreeUpTo
<1>10. Listings(fs, chunk, kept) = f[N]
  BY <1>1, <1>8, <1>9
<1> QED BY <1>6, <1>10, Zenon DEF E, ListingsAt

LEMMA TextAssociative ==
  ASSUME NEW x \in Seq(Text), NEW y \in Seq(Text), NEW z \in Seq(Text)
  PROVE  x \o y \in Seq(Text) /\ (x \o y) \o z = x \o (y \o z)
<1>1. x \o y \in Seq(Text)
  BY ConcatProperties
<1>2. (x \o y) \o z = x \o (y \o z)
  BY ConcatAssociative
<1> QED BY <1>1, <1>2

\* The same, with what becomes of each place on its own.
KeptAt(f, fs, chunk, kept, N) ==
  /\ f[0] = << >>
  /\ \A k \in 1 .. N :
       /\ k \notin kept => f[k] = f[k - 1]
       /\ k \in kept => f[k] = f[k - 1] \o Listing(chunk[k], Matches(fs[chunk[k]]))
  /\ Listings(fs, chunk, kept) = f[N]

LEMMA ListingsSteps ==
  ASSUME NEW fs \in Seq(File), NEW chunk \in Seq(1 .. Len(fs)), NEW kept, NEW N, N = Len(chunk)
  PROVE  \E f \in [0 .. N -> Seq(Text)] : KeptAt(f, fs, chunk, kept, N)
<1>1. PICK f \in [0 .. N -> Seq(Text)] : ListingsAt(f, fs, chunk, kept, N)
  BY ListingsLoop, Zenon
<1>2. f[0] = << >> /\ Listings(fs, chunk, kept) = f[N]
  BY <1>1 DEF ListingsAt
<1>3. \A k \in 1 .. N :
        /\ k \notin kept => f[k] = f[k - 1]
        /\ k \in kept => f[k] = f[k - 1] \o Listing(chunk[k], Matches(fs[chunk[k]]))
  BY <1>1 DEF ListingsAt
<1>4. KeptAt(f, fs, chunk, kept, N)
  BY <1>2, <1>3, Zenon DEF KeptAt
<1> QED BY <1>4

LEMMA ListingsType ==
  ASSUME NEW fs \in Seq(File), NEW chunk \in Seq(1 .. Len(fs)), NEW kept
  PROVE  Listings(fs, chunk, kept) \in Seq(Text)
<1>1. PICK N : N = Len(chunk)
  OBVIOUS
<1>2. PICK f \in [0 .. N -> Seq(Text)] : KeptAt(f, fs, chunk, kept, N)
  BY <1>1, ListingsSteps, Zenon
<1>3. N \in 0 .. N
  BY <1>1
<1>4. Listings(fs, chunk, kept) = f[N]
  BY <1>2 DEF KeptAt
<1> QED BY <1>3, <1>4

\* From m to N nothing is added.
Stays(f, m, N) == \A k \in m + 1 .. N : f[k] = f[k - 1]

LEMMA NothingAdded ==
  ASSUME NEW N \in Nat, NEW f, NEW m \in 0 .. N, Stays(f, m, N)
  PROVE  f[N] = f[m]
<1> DEFINE Q == {k \in 0 .. N : k >= m => f[k] = f[m]}
<1>1. 0 \in Q
  OBVIOUS
<1>2. ASSUME NEW k \in 0 .. N - 1, k \in Q PROVE k + 1 \in Q
  <2>1. k + 1 \in 1 .. N /\ (k + 1) - 1 = k
    OBVIOUS
  <2>2. CASE k >= m
    <3>1. k + 1 \in m + 1 .. N
      BY <2>2
    <3>2. f[k + 1] = f[k]
      BY <2>1, <3>1 DEF Stays
    <3> QED BY <1>2, <2>1, <2>2, <3>2
  <2>3. CASE ~ (k >= m)
    BY <2>1, <2>3
  <2> QED BY <2>2, <2>3
<1>3. 0 .. N \subseteq Q
  <2> HIDE DEF Q
  <2>1. \A k \in 0 .. N - 1 : k \in Q => k + 1 \in Q
    BY <1>2
  <2> QED BY <1>1, <2>1, InductionUpTo
<1>4. N \in 0 .. N /\ N >= m
  OBVIOUS
<1> QED BY <1>3, <1>4

LEMMA NoListings ==
  ASSUME NEW fs \in Seq(File), NEW chunk \in Seq(1 .. Len(fs))
  PROVE  Listings(fs, chunk, {}) = << >>
<1>1. PICK N \in Nat : N = Len(chunk)
  OBVIOUS
<1>2. PICK S : S = {}
  OBVIOUS
<1>3. PICK f \in [0 .. N -> Seq(Text)] :
        /\ f[0] = << >>
        /\ \A k \in 1 .. N :
             /\ k \notin S => f[k] = f[k - 1]
             /\ k \in S => f[k] = f[k - 1] \o Listing(chunk[k], Matches(fs[chunk[k]]))
        /\ Listings(fs, chunk, S) = f[N]
  <2>1. PICK f \in [0 .. N -> Seq(Text)] : KeptAt(f, fs, chunk, S, N)
    BY <1>1, ListingsSteps, Zenon
  <2> QED BY <2>1, Zenon DEF KeptAt
<1>4. 0 \in 0 .. N
  OBVIOUS
<1>5. \A k \in 1 .. N : k \notin S => f[k] = f[k - 1]
  BY <1>3
<1>6. Stays(f, 0, N)
  BY <1>2, <1>5 DEF Stays
<1>8. f[N] = f[0]
  BY <1>4, <1>6, NothingAdded
<1>7. f[0] = << >> /\ Listings(fs, chunk, S) = f[N]
  BY <1>3
<1> QED BY <1>2, <1>7, <1>8

\* The listing of one more file, behind those that are kept.
LEMMA OneMoreListing ==
  ASSUME NEW fs \in Seq(File), NEW chunk \in Seq(1 .. Len(fs)), NEW n \in DOMAIN chunk,
         NEW kept \in SUBSET (1 .. n - 1)
  PROVE  Listings(fs, chunk, kept \cup {n}) =
           Listings(fs, chunk, kept) \o Listing(chunk[n], Matches(fs[chunk[n]]))
<1>1. PICK N \in Nat : N = Len(chunk)
  OBVIOUS
<1>2. PICK kept2 : kept2 = kept \cup {n}
  OBVIOUS
<1>3. PICK f \in [0 .. N -> Seq(Text)] :
        /\ f[0] = << >>
        /\ \A k \in 1 .. N :
             /\ k \notin kept => f[k] = f[k - 1]
             /\ k \in kept => f[k] = f[k - 1] \o Listing(chunk[k], Matches(fs[chunk[k]]))
        /\ Listings(fs, chunk, kept) = f[N]
  <2>1. PICK f \in [0 .. N -> Seq(Text)] : KeptAt(f, fs, chunk, kept, N)
    BY <1>1, ListingsSteps, Zenon
  <2> QED BY <2>1, Zenon DEF KeptAt
<1>4. PICK g \in [0 .. N -> Seq(Text)] :
        /\ g[0] = << >>
        /\ \A k \in 1 .. N :
             /\ k \notin kept2 => g[k] = g[k - 1]
             /\ k \in kept2 => g[k] = g[k - 1] \o Listing(chunk[k], Matches(fs[chunk[k]]))
        /\ Listings(fs, chunk, kept2) = g[N]
  <2>1. PICK g \in [0 .. N -> Seq(Text)] : KeptAt(g, fs, chunk, kept2, N)
    BY <1>1, ListingsSteps, Zenon
  <2> QED BY <2>1, Zenon DEF KeptAt
<1>5. n \in 1 .. N /\ n - 1 \in 0 .. N /\ n \in 0 .. N
  BY <1>1
<1>10. f[0] = g[0]
  BY <1>3, <1>4
<1>11. \A k \in 1 .. N : k \notin kept => f[k] = f[k - 1]
  BY <1>3
<1>12. \A k \in 1 .. N : k \notin kept2 => g[k] = g[k - 1]
  BY <1>4
<1>6. f[n - 1] = g[n - 1]
  <2>1. ASSUME NEW k \in 1 .. n - 1, f[k - 1] = g[k - 1] PROVE f[k] = g[k]
    <3>1. k \in 1 .. N /\ k # n
      BY <1>5
    <3>2. k \in kept2 <=> k \in kept
      BY <1>2, <3>1
    <3> QED BY <1>3, <1>4, <2>1, <3>1, <3>2
  <2>2. PICK m \in Nat : m = n - 1
    BY <1>5
  <2>3. GoAlike(f, g, m)
    BY <1>10, <2>1, <2>2 DEF GoAlike
  <2>4. \A k \in 0 .. m : f[k] = g[k]
    BY <2>3, AgreeUpTo
  <2> QED BY <2>2, <2>4
<1>7. f[N] = f[n - 1]
  <2>1. PICK m \in 0 .. N : m = n - 1
    BY <1>5
  <2>4. ASSUME NEW k \in m + 1 .. N PROVE k \in 1 .. N /\ k \notin kept
    BY <1>5, <2>1
  <2>2. Stays(f, m, N)
    BY <1>11, <2>4 DEF Stays
  <2>3. f[N] = f[m]
    BY <2>2, NothingAdded
  <2> QED BY <2>1, <2>3
<1>8. g[N] = g[n]
  <2>1. n \in Nat /\ n >= 1 /\ n <= N
    BY <1>5
  <2>5. \A k \in kept2 : k <= n
    <3>1. \A k \in kept : k <= n
      BY <2>1
    <3> QED BY <1>2, <2>1, <3>1
  <2>2. ASSUME NEW k \in n + 1 .. N PROVE k \in 1 .. N /\ k \notin kept2
    <3>1. k \in Nat /\ n < k /\ k <= N /\ ~(k <= n)
      BY <1>1, <2>1, SMTT(30)
    <3>2. k \in 1 .. N
      BY <2>1, <3>1
    <3>3. k \notin kept2
      BY <2>5, <3>1
    <3> QED BY <3>2, <3>3
  <2>3. Stays(g, n, N)
    BY <1>12, <2>2 DEF Stays
  <2> QED BY <1>5, <2>3, NothingAdded
<1>9. g[n] = g[n - 1] \o Listing(chunk[n], Matches(fs[chunk[n]]))
  BY <1>2, <1>4, <1>5
<1> QED BY <1>2, <1>3, <1>4, <1>6, <1>7, <1>8, <1>9

GoesOn(x, y) == \E rest \in Seq(Text) : y = x \o rest

\* The same places up to m.
SameUpTo(m, S, T) == \A k \in 1 .. m : k \in S <=> k \in T

\* If kept2 has the same places up to m as kept, which has none behind m, its
\* listings are those of kept and then the others.
LEMMA ListingsGoOn ==
  ASSUME NEW fs \in Seq(File), NEW chunk \in Seq(1 .. Len(fs)), NEW m \in 0 .. Len(chunk),
         NEW kept \in SUBSET (1 .. m), NEW kept2, SameUpTo(m, kept2, kept)
  PROVE  GoesOn(Listings(fs, chunk, kept), Listings(fs, chunk, kept2))
<1>1. PICK N \in Nat : N = Len(chunk)
  OBVIOUS
<1>3. PICK f \in [0 .. N -> Seq(Text)] :
        /\ f[0] = << >>
        /\ \A k \in 1 .. N :
             /\ k \notin kept => f[k] = f[k - 1]
             /\ k \in kept => f[k] = f[k - 1] \o Listing(chunk[k], Matches(fs[chunk[k]]))
        /\ Listings(fs, chunk, kept) = f[N]
  <2>1. PICK f \in [0 .. N -> Seq(Text)] : KeptAt(f, fs, chunk, kept, N)
    BY <1>1, ListingsSteps, Zenon
  <2> QED BY <2>1, Zenon DEF KeptAt
<1>4. PICK g \in [0 .. N -> Seq(Text)] :
        /\ g[0] = << >>
        /\ \A k \in 1 .. N :
             /\ k \notin kept2 => g[k] = g[k - 1]
             /\ k \in kept2 => g[k] = g[k - 1] \o Listing(chunk[k], Matches(fs[chunk[k]]))
        /\ Listings(fs, chunk, kept2) = g[N]
  <2>1. PICK g \in [0 .. N -> Seq(Text)] : KeptAt(g, fs, chunk, kept2, N)
    BY <1>1, ListingsSteps, Zenon
  <2> QED BY <2>1, Zenon DEF KeptAt
<1>5. m \in 0 .. N
  BY <1>1
<1>13. f[0] = g[0]
  BY <1>3, <1>4
<1>14. \A k \in 1 .. N : k \notin kept => f[k] = f[k - 1]
  BY <1>3
<1>15. \A k \in 1 .. N :
         /\ k \notin kept2 => g[k] = g[k - 1]
         /\ k \in kept2 => g[k] = g[k - 1] \o Listing(chunk[k], Matches(fs[chunk[k]]))
  BY <1>4
<1>6. f[m] = g[m]
  <2>1. ASSUME NEW k \in 1 .. m, f[k - 1] = g[k - 1] PROVE f[k] = g[k]
    <3>1. k \in 1 .. N
      BY <1>5
    <3>2. k \in kept2 <=> k \in kept
      BY DEF SameUpTo
    <3> QED BY <1>3, <1>4, <2>1, <3>1, <3>2
  <2>2. PICK j \in Nat : j = m
    BY <1>5
  <2>3. GoAlike(f, g, j)
    BY <1>13, <2>1, <2>2 DEF GoAlike
  <2>4. \A k \in 0 .. j : f[k] = g[k]
    BY <2>3, AgreeUpTo
  <2> QED BY <2>2, <2>4
<1>7. f[N] = f[m]
  <2>1. Stays(f, m, N)
    BY <1>5, <1>14 DEF Stays
  <2> QED BY <1>5, <2>1, NothingAdded
<1>16. PICK first \in Seq(Text) : first = f[m]
  BY <1>5
<1> DEFINE More(k) == \E rest \in Seq(Text) : g[k] = first \o rest
           Q == {k \in 0 .. N : k >= m => More(k)}
<1>8. More(m)
  <2>1. << >> \in Seq(Text) /\ first = first \o << >>
    OBVIOUS
  <2> QED BY <1>6, <1>16, <2>1
<1> HIDE DEF More
<1>9. 0 \in Q
  BY <1>5, <1>8
<1>10. ASSUME NEW k \in 0 .. N - 1, k \in Q PROVE k + 1 \in Q
  <2>1. k + 1 \in 1 .. N /\ (k + 1) - 1 = k /\ k + 1 \in 0 .. N
    OBVIOUS
  <2>2. CASE k + 1 = m
    BY <1>8, <2>1, <2>2
  <2>3. CASE k + 1 < m
    BY <1>5, <2>1, <2>3
  <2>4. CASE k >= m
    <3>1. PICK rest \in Seq(Text) : g[k] = first \o rest
      BY <1>10, <2>4 DEF More
    <3>2. CASE k + 1 \notin kept2
      <4>1. g[k + 1] = first \o rest
        BY <1>15, <2>1, <3>1, <3>2
      <4>2. More(k + 1)
        BY <4>1 DEF More
      <4> QED BY <2>1, <4>2
    <3>3. CASE k + 1 \in kept2
      <4>1. PICK c : c = chunk[k + 1]
        OBVIOUS
      <4>2. c \in 1 .. Len(fs)
        BY <1>1, <2>1, <4>1
      <4>3. c \in Nat /\ fs[c] \in File
        BY <4>2
      <4>4. Matches(fs[c]) \in Entries
        BY <4>3, MatchesType
      <4>5. PICK text : text = Listing(c, Matches(fs[c]))
        OBVIOUS
      <4>6. text \in Seq(Text)
        BY <4>3, <4>4, <4>5, ListingType
      <4>7. g[k + 1] = g[k] \o text
        BY <1>15, <2>1, <3>3, <4>1, <4>5
      <4>8. rest \o text \in Seq(Text) /\ (first \o rest) \o text = first \o (rest \o text)
        BY <4>6, TextAssociative
      <4>9. g[k + 1] = first \o (rest \o text)
        BY <3>1, <4>7, <4>8
      <4>10. More(k + 1)
        BY <4>8, <4>9 DEF More
      <4> QED BY <2>1, <4>10
    <3> QED BY <3>2, <3>3
  <2> QED BY <1>5, <2>2, <2>3, <2>4
<1>11. N \in Q
  <2> HIDE DEF Q
  <2>1. \A k \in 0 .. N - 1 : k \in Q => k + 1 \in Q
    BY <1>10
  <2>2. 0 .. N \subseteq Q
    BY <1>9, <2>1, InductionUpTo
  <2> QED BY <2>2
<1>12. N >= m
  BY <1>5
<1>17. More(N)
  BY <1>11, <1>12
<1>18. \E rest \in Seq(Text) : Listings(fs, chunk, kept2) = Listings(fs, chunk, kept) \o rest
  BY <1>3, <1>4, <1>7, <1>16, <1>17 DEF More
<1> QED BY <1>18 DEF GoesOn

-----------------------------------------------------------------------------
(* What the invariant says of a thread and its file *)

LEMMA ThreadsFit ==
  ASSUME TypeInv, SplitInv
  PROVE  /\ Threads \subseteq Workers /\ Threads \subseteq DOMAIN chunks
         /\ launched <= Len(chunks)
         /\ Threads # {} => pc # "count"
         /\ pc # "count" => chunks \in Seq(Seq(1 .. Len(files))) /\ Len(chunks) \in Workers
<1>1. Len(files) \in Nat /\ launched \in Nat /\ Len(chunks) \in Nat
      /\ DOMAIN chunks = 1 .. Len(chunks)
      /\ pc \in {"count", "launch", "join", "time", "ended"}
  BY DEF TypeInv
<1>2. PICK n \in Nat : n = Len(files)
  BY <1>1
<1>3. /\ Chunks(n) \in Seq(Seq(1 .. n))
      /\ Len(Chunks(n)) \in 1 .. HardwareThreads
  BY ChunksType
<1>4. CASE pc = "count"
  <2>1. chunks = << >> /\ launched = 0
    BY <1>4 DEF SplitInv
  <2> QED BY <1>4, <2>1 DEF Threads
<1>5. CASE pc # "count"
  <2>0. chunks = Chunks(n)
    BY <1>2, <1>5 DEF SplitInv
  <2>1. launched <= Len(chunks)
    <3>1. pc = "launch" => launched < Len(chunks)
      BY DEF SplitInv
    <3>2. pc \in {"join", "time", "ended"} => launched = Len(chunks)
      BY DEF SplitInv
    <3>3. pc \in {"launch", "join", "time", "ended"}
      BY <1>1, <1>5
    <3>4. launched \in Nat /\ Len(chunks) \in Nat
      BY <1>1
    <3> QED BY <3>1, <3>2, <3>3, <3>4
  <2>2. chunks \in Seq(Seq(1 .. Len(files))) /\ Len(chunks) \in Workers
    BY <1>2, <1>3, <2>0 DEF Workers
  <2>3. Threads \subseteq Workers /\ Threads \subseteq DOMAIN chunks
    BY <1>1, <2>1, <2>2, ThreadsAssumption DEF Threads, Workers
  <2> QED BY <1>5, <2>1, <2>2, <2>3
<1> QED BY <1>4, <1>5

LEMMA ChunkFits ==
  ASSUME TypeInv, SplitInv, NEW t \in Threads
  PROVE  t \in Workers /\ t \in Nat \ {0} /\ pc # "count" /\ chunks[t] \in Seq(1 .. Len(files))
<1>1. /\ t \in Workers /\ t \in DOMAIN chunks /\ pc # "count"
      /\ chunks \in Seq(Seq(1 .. Len(files)))
  BY ThreadsFit
<1> QED BY <1>1, ThreadsAssumption DEF Workers

LEMMA FileFits ==
  ASSUME TypeInv, SplitInv, NEW t, AtFile(t)
  PROVE  /\ t \in Threads /\ at[t] \in DOMAIN chunks[t]
         /\ chunks[t][at[t]] \in 1 .. Len(files) /\ FileOf(t) \in File
         /\ Parsed[FileOf(t)] \in ParseType /\ Parsed[FileOf(t)].list \in Entries
<1>1. t \in Threads /\ at[t] <= Len(chunks[t])
  BY DEF AtFile
<1>2. t \in Workers /\ chunks[t] \in Seq(1 .. Len(files))
  BY <1>1, ChunkFits
<1>3. at[t] \in Nat \ {0} /\ files \in Seq(File)
  BY <1>2 DEF TypeInv
<1>4. at[t] \in DOMAIN chunks[t]
  BY <1>1, <1>2, <1>3
<1>5. chunks[t][at[t]] \in 1 .. Len(files)
  BY <1>2, <1>4
<1>6. FileOf(t) \in File
  BY <1>3, <1>5 DEF FileOf
<1>7. Parsed[FileOf(t)] \in ParseType
  BY <1>6, MatchesType
<1> QED BY <1>1, <1>4, <1>5, <1>6, <1>7 DEF ParseType

\* The thread of an action is at a file and not in exit.
LEMMA WorkerAtFile ==
  ASSUME NEW t, Worker(t)
  PROVE  AtFile(t) /\ Running /\ doing[t] \in {"parse", "print"}
BY DEF Worker, ParseFile, PassFile, ExitProgram, Crash, Insert, NextFile, Parsing, Printing

LEMMA InitIInv ==
  ASSUME Init
  PROVE  IInv
<1> USE DEF Init
<1>1. TypeInv
  <2>1. files \in Seq(File)
    <3>1. files \in BoundedSeq(File, MaxFiles)
      BY DEF Init
    <3> QED BY <3>1, BoundsAssumption DEF BoundedSeq, SeqOf
  <2>2. << >> \in Entries /\ << >> \in Seq(Insertion) /\ << >> \in Seq(Seq(Nat))
    BY DEF Entries
  <2> QED BY <2>1, <2>2 DEF TypeInv, Workers
<1>2. Threads = {}
  BY DEF Threads
<1>3. SplitInv
  BY DEF SplitInv
<1>4. WorkerInv
  BY <1>2 DEF WorkerInv, Holds, Workers
<1>5. RunInv /\ OutInv
  BY DEF RunInv, OutInv
<1>6. ShareInv
  BY <1>2 DEF ShareInv
<1> QED BY <1>1, <1>3, <1>4, <1>5, <1>6 DEF IInv

LEMMA TypeStep ==
  ASSUME TypeInv, SplitInv, [Next]_vars
  PROVE  TypeInv'
<1>1. CASE ComputeChunks
  <2>1. Len(files) \in Nat
    BY DEF TypeInv
  <2>2. PICK n \in Nat : n = Len(files)
    BY <2>1
  <2>3. chunks' = Chunks(n)
    BY <1>1, <2>2 DEF ComputeChunks, Chunks
  <2>4. chunks' \in Seq(Seq(1 .. n))
    BY <2>3, ChunksType
  <2>5. chunks' \in Seq(Seq(Nat))
    <3>1. \A c \in Seq(1 .. n) : c \in Seq(Nat)
      OBVIOUS
    <3> QED BY <2>4, <3>1
  <2> QED BY <1>1, <2>5 DEF ComputeChunks, threadVars, TypeInv
<1>2. CASE LaunchThread
  BY <1>2 DEF LaunchThread, threadVars, TypeInv
<1>3. CASE JoinThreads
  BY <1>3 DEF JoinThreads, threadVars, TypeInv
<1>4. CASE PrintTime
  <2>1. [by |-> 0, text |-> <<"time", 0>>] \in Insertion
    BY DEF Insertion, Text
  <2> QED BY <1>4, <2>1 DEF PrintTime, threadVars, TypeInv
<1>5. CASE FinishExit
  BY <1>5 DEF FinishExit, threadVars, TypeInv
<1>6. ASSUME NEW t \in Threads, Worker(t) PROVE TypeInv'
  <2>1. AtFile(t)
    BY <1>6, WorkerAtFile
  <2>2. t \in Workers /\ t \in Nat
    BY ChunkFits
  <2>3. /\ chunks[t][at[t]] \in Nat
        /\ Parsed[FileOf(t)].list \in Entries
    BY <2>1, FileFits
  <2>4. CASE ParseFile(t)
    <3>1. entries[t] \in Entries
      BY <2>2 DEF TypeInv
    <3>2. entries[t] \o Parsed[FileOf(t)].list \in Entries
      BY <2>3, <3>1 DEF Entries
    <3> QED BY <2>2, <2>4, <3>2 DEF ParseFile, TypeInv
  <2>5. CASE PassFile(t)
    BY <2>2, <2>5 DEF PassFile, TypeInv
  <2>6. CASE ExitProgram(t)
    BY <2>2, <2>6 DEF ExitProgram, TypeInv
  <2>7. CASE Crash(t)
    BY <2>2, <2>7 DEF Crash, threadVars, TypeInv
  <2>8. CASE Insert(t)
    <3>1. entries[t] \in Entries /\ printed[t] \in Nat
      BY <2>2 DEF TypeInv
    <3>2. PICK text : text = Listing(chunks[t][at[t]], entries[t])
      OBVIOUS
    <3>3. text \in Seq(Text)
      BY <2>3, <3>1, <3>2, ListingType
    <3>4. /\ printed[t] < Len(text)
          /\ out' = Append(out, [by |-> t, text |-> text[printed[t] + 1]])
      BY <2>8, <3>2 DEF Insert
    <3>5. text[printed[t] + 1] \in Text
      BY <3>1, <3>3, <3>4
    <3>6. [by |-> t, text |-> text[printed[t] + 1]] \in Insertion
      BY <2>2, <3>5 DEF Insertion
    <3>7. out' \in Seq(Insertion)
      BY <3>4, <3>6 DEF TypeInv
    <3>8. printed' \in [Workers -> Nat]
      BY <2>2, <2>8, SMTT(30) DEF Insert, TypeInv
    <3> QED BY <2>8, <3>7, <3>8 DEF Insert, TypeInv
  <2>9. CASE NextFile(t)
    <3>1. << >> \in Entries
      BY DEF Entries
    <3> QED BY <2>2, <2>9, <3>1 DEF NextFile, TypeInv
  <2> QED BY <1>6, <2>4, <2>5, <2>6, <2>7, <2>8, <2>9 DEF Worker
<1>7. CASE UNCHANGED vars
  BY <1>7 DEF vars, threadVars, TypeInv
<1> QED BY <1>1, <1>2, <1>3, <1>4, <1>5, <1>6, <1>7 DEF Next, Main

LEMMA SplitStep ==
  ASSUME TypeInv, SplitInv, [Next]_vars
  PROVE  SplitInv'
<1>1. CASE ComputeChunks
  <2>1. PICK n \in Nat : n = Len(files)
    BY DEF TypeInv
  <2>2. chunks' = Chunks(n)
    BY <1>1, <2>1 DEF ComputeChunks, Chunks
  <2>3. Len(chunks') \in 1 .. HardwareThreads
    BY <2>2, ChunksType
  <2>4. launched' = 0 /\ pc' = "launch" /\ files' = files
    BY <1>1 DEF ComputeChunks, SplitInv
  <2>5. launched' < Len(chunks')
    BY <2>3, <2>4, ThreadsAssumption
  <2> QED BY <2>1, <2>2, <2>4, <2>5 DEF SplitInv
<1>2. CASE LaunchThread
  <2>1. launched \in Nat /\ Len(chunks) \in Nat
    BY DEF TypeInv
  <2> QED BY <1>2, <2>1 DEF LaunchThread, SplitInv
<1>3. CASE JoinThreads
  BY <1>3 DEF JoinThreads, SplitInv
<1>4. CASE PrintTime
  BY <1>4 DEF PrintTime, SplitInv
<1>5. CASE FinishExit
  BY <1>5 DEF FinishExit, SplitInv
<1>6. ASSUME NEW t \in Threads, Worker(t) PROVE SplitInv'
  <2>1. UNCHANGED <<files, chunks, launched, pc>>
    BY <1>6 DEF Worker, ParseFile, PassFile, ExitProgram, Crash, Insert, NextFile
  <2> QED BY <2>1 DEF SplitInv
<1>7. CASE UNCHANGED vars
  BY <1>7 DEF vars, SplitInv
<1> QED BY <1>1, <1>2, <1>3, <1>4, <1>5, <1>6, <1>7 DEF Next, Main

\* A step of the main thread or of another one leaves a thread alone.
LeftAlone(t) == UNCHANGED <<at[t], doing[t], entries[t], printed[t]>>

LEMMA HoldsStays ==
  ASSUME TypeInv, SplitInv, NEW t \in Workers, Holds(t), LeftAlone(t),
         UNCHANGED <<files, chunks>>, Threads \subseteq Threads'
  PROVE  Holds(t)'
<1>1. AtFile(t) => AtFile(t)' /\ FileOf(t)' = FileOf(t)
  BY DEF AtFile, LeftAlone, FileOf
<1>2. AtFile(t) => EndOfParse(t)' = EndOfParse(t)
  BY <1>1 DEF EndOfParse
<1>3. doing[t]' = doing[t] /\ entries[t]' = entries[t] /\ printed[t]' = printed[t]
  BY DEF LeftAlone
<1> QED BY <1>1, <1>2, <1>3 DEF Holds

LEMMA WorkerStep ==
  ASSUME TypeInv, SplitInv, WorkerInv, [Next]_vars
  PROVE  WorkerInv'
<1>0. launched \in Nat /\ Threads = 1 .. launched /\ Threads \subseteq Workers
  <2>1. Threads \subseteq Workers
    BY ThreadsFit
  <2> QED BY <2>1 DEF TypeInv, Threads
<1>1. CASE ComputeChunks
  <2>1. Threads = {} /\ Threads' = {}
    BY <1>1 DEF ComputeChunks, SplitInv, Threads
  <2>2. UNCHANGED <<at, doing, entries, printed>>
    BY <1>1 DEF ComputeChunks, threadVars
  <2>3. ASSUME NEW t \in Workers PROVE Holds(t)' /\ at'[t] = 1
    <3>1. ~ AtFile(t)
      BY <2>1 DEF AtFile
    <3>2. doing[t] = "parse" /\ entries[t] = << >> /\ printed[t] = 0
      BY <3>1 DEF WorkerInv, Holds, TypeInv
    <3>3. Holds(t)'
      BY <2>2, <3>2 DEF Holds
    <3> QED BY <2>1, <2>2, <3>3 DEF WorkerInv
  <2> QED BY <2>1, <2>3 DEF WorkerInv, Workers
<1>2. CASE LaunchThread
  <2>1. /\ launched' = launched + 1 /\ UNCHANGED <<files, chunks, at, doing, entries, printed>>
    BY <1>2 DEF LaunchThread, threadVars
  <2>2. Threads' = Threads \cup {launched + 1}
    BY <1>0, <2>1 DEF Threads
  <2>3. ASSUME NEW t \in Workers PROVE Holds(t)'
    <3>1. LeftAlone(t) /\ Holds(t) /\ Threads \subseteq Threads'
      BY <2>1, <2>2 DEF LeftAlone, WorkerInv
    <3> QED BY <2>1, <3>1, HoldsStays
  <2>4. ASSUME NEW t \in Threads' PROVE at'[t] <= Len(chunks'[t]) + 1
    <3>1. CASE t \in Threads
      BY <2>1, <3>1 DEF WorkerInv
    <3>2. CASE t \notin Threads
      <4>1. t \in Workers
        <5>1. pc # "count" /\ launched < Len(chunks)
          BY <1>2 DEF LaunchThread, SplitInv
        <5>2. Len(chunks) \in Workers
          BY <5>1, ThreadsFit
        <5>3. t = launched + 1
          BY <2>2, <3>2
        <5> QED BY <1>0, <5>1, <5>2, <5>3, ThreadsAssumption DEF Workers
      <4>2. at'[t] = 1
        BY <2>1, <3>2, <4>1 DEF WorkerInv
      <4>3. chunks[t] \in Seq(Nat)
        <5>1. chunks \in Seq(Seq(Nat)) /\ launched + 1 <= Len(chunks)
          BY <1>0, <1>2 DEF LaunchThread, SplitInv, TypeInv
        <5>2. t = launched + 1
          BY <2>2, <3>2
        <5> QED BY <1>0, <5>1, <5>2
      <4> QED BY <2>1, <4>2, <4>3
    <3> QED BY <3>1, <3>2
  <2>5. \A t \in Workers \ Threads' : at'[t] = 1
    BY <2>1, <2>2 DEF WorkerInv
  <2> QED BY <2>3, <2>4, <2>5 DEF WorkerInv, Workers
<1>3. ASSUME UNCHANGED <<files, chunks, launched, at, doing, entries, printed>>
      PROVE  WorkerInv'
  <2>1. Threads' = Threads
    BY <1>3 DEF Threads
  <2>2. ASSUME NEW t \in Workers PROVE Holds(t)'
    <3>1. LeftAlone(t) /\ Holds(t)
      BY <1>3 DEF LeftAlone, WorkerInv
    <3> QED BY <1>3, <2>1, <3>1, HoldsStays
  <2> QED BY <1>3, <2>1, <2>2 DEF WorkerInv, Workers
<1>4. ASSUME NEW t \in Threads, Worker(t) PROVE WorkerInv'
  <2>1. AtFile(t) /\ doing[t] \in {"parse", "print"}
    BY <1>4, WorkerAtFile
  <2>2. t \in Workers /\ Holds(t)
    BY <1>0 DEF WorkerInv
  <2>3. UNCHANGED <<files, chunks, launched>> /\ Threads' = Threads
    BY <1>4 DEF Worker, ParseFile, PassFile, ExitProgram, Crash, Insert, NextFile, Threads, threadVars
  <2>4. ASSUME NEW u \in Workers, u # t PROVE LeftAlone(u)
    BY <1>4, <2>2, <2>4 DEF Worker, ParseFile, PassFile, ExitProgram, Crash, Insert, NextFile,
       LeftAlone, threadVars, TypeInv
  <2>5. ASSUME NEW u \in Workers, u # t PROVE Holds(u)'
    <3>1. Holds(u) /\ LeftAlone(u)
      BY <2>4, <2>5 DEF WorkerInv
    <3> QED BY <2>3, <3>1, HoldsStays
  <2>6. at'[t] \in {at[t], at[t] + 1} /\ at[t] \in Nat
    BY <1>4, <2>2 DEF Worker, ParseFile, PassFile, ExitProgram, Crash, Insert, NextFile,
       threadVars, TypeInv
  <2>7. at'[t] <= Len(chunks[t]) + 1
    <3>1. at[t] <= Len(chunks[t]) /\ Len(chunks[t]) \in Nat
      <4>1. chunks[t] \in Seq(1 .. Len(files))
        BY ChunkFits
      <4> QED BY <2>1, <4>1 DEF AtFile
    <3> QED BY <2>6, <3>1
  <2>8. doing'[t] # "parse" => at'[t] = at[t]
    BY <1>4, <2>2 DEF Worker, ParseFile, PassFile, ExitProgram, Crash, Insert, NextFile,
       Parsing, threadVars, TypeInv
  <2>9. doing'[t] # "parse" => AtFile(t)' /\ FileOf(t)' = FileOf(t) /\ EndOfParse(t)' = EndOfParse(t)
    BY <2>1, <2>3, <2>8 DEF AtFile, FileOf, EndOfParse
  <2>10. Holds(t)'
    <3>1. CASE ParseFile(t)
      <4>1. /\ doing[t] = "parse" /\ EndOfParse(t) = "ok"
            /\ entries' = [entries EXCEPT ![t] = @ \o Parsed[FileOf(t)].list]
            /\ doing' = [doing EXCEPT ![t] = "print"] /\ printed' = printed
        BY <3>1 DEF ParseFile, Parsing
      <4>2. entries[t] = << >> /\ printed[t] = 0
        BY <2>2, <4>1 DEF Holds
      <4>3. Parsed[FileOf(t)].list \in Entries
        BY <2>1, FileFits
      <4>4. PICK list : list = Parsed[FileOf(t)].list
        OBVIOUS
      <4>5. << >> \o list = list /\ Len(list) \in Nat
        BY <4>3, <4>4 DEF Entries
      <4>6. doing'[t] = "print" /\ printed'[t] = 0 /\ entries'[t] = list
        BY <2>2, <4>1, <4>2, <4>4, <4>5 DEF TypeInv
      <4>7. Parsed[FileOf(t)]' = Parsed[FileOf(t)]
        BY <2>9, <4>6
      <4>8. printed'[t] <= 3 * Len(entries'[t])
        BY <4>5, <4>6
      <4>9. EndOfParse(t)' = "ok" /\ AtFile(t)'
        BY <2>9, <4>1, <4>6
      <4>10. entries'[t] = Parsed[FileOf(t)]'.list
        BY <4>4, <4>6, <4>7
      <4> QED BY <4>6, <4>8, <4>9, <4>10 DEF Holds
    <3>2. CASE PassFile(t)
      <4>1. doing'[t] = "parse" /\ entries'[t] = entries[t] /\ printed'[t] = printed[t] /\ doing[t] = "parse"
        BY <3>2 DEF PassFile, Parsing
      <4> QED BY <2>2, <4>1 DEF Holds
    <3>3. CASE ExitProgram(t)
      <4>1. doing'[t] = "exit"
        BY <2>2, <3>3 DEF ExitProgram, TypeInv
      <4> QED BY <2>9, <4>1 DEF Holds
    <3>4. CASE Crash(t)
      <4>1. LeftAlone(t)
        BY <3>4 DEF Crash, threadVars, LeftAlone
      <4> QED BY <2>2, <2>3, <4>1, HoldsStays
    <3>5. CASE Insert(t)
      <4>1. PICK text : text = Listing(chunks[t][at[t]], entries[t])
        OBVIOUS
      <4>2. /\ doing[t] = "print" /\ printed[t] < Len(text)
            /\ printed' = [printed EXCEPT ![t] = @ + 1] /\ doing' = doing /\ entries' = entries
        BY <3>5, <4>1 DEF Insert, Printing
      <4>3. entries[t] \in Entries /\ printed[t] \in Nat /\ printed'[t] = printed[t] + 1
        BY <2>2, <4>2 DEF TypeInv
      <4>4. chunks[t][at[t]] \in Nat
        BY <2>1, FileFits
      <4>5. Len(text) = 3 * Len(entries[t]) /\ Len(entries[t]) \in Nat
        BY <4>1, <4>3, <4>4, ListingType DEF Entries
      <4>6. printed'[t] <= 3 * Len(entries'[t])
        BY <4>2, <4>3, <4>5
      <4>7. EndOfParse(t) = "ok" /\ entries[t] = Parsed[FileOf(t)].list
        BY <2>2, <4>2 DEF Holds
      <4>8. doing'[t] = "print" /\ AtFile(t)' /\ EndOfParse(t)' = "ok"
        BY <2>9, <4>2, <4>7
      <4>9. entries'[t] = Parsed[FileOf(t)]'.list
        BY <2>9, <4>2, <4>7
      <4> QED BY <4>6, <4>8, <4>9 DEF Holds
    <3>6. CASE NextFile(t)
      <4>1. doing'[t] = "parse" /\ entries'[t] = << >> /\ printed'[t] = 0
        BY <2>2, <3>6 DEF NextFile, TypeInv
      <4> QED BY <4>1 DEF Holds
    <3> QED BY <1>4, <3>1, <3>2, <3>3, <3>4, <3>5, <3>6 DEF Worker
  <2>11. \A u \in Workers : Holds(u)'
    BY <2>5, <2>10
  <2>12. \A u \in Threads' : at'[u] <= Len(chunks'[u]) + 1
    BY <1>0, <2>3, <2>4, <2>7 DEF WorkerInv, LeftAlone
  <2>13. \A u \in Workers \ Threads' : at'[u] = 1
    BY <2>3, <2>4 DEF WorkerInv, LeftAlone
  <2> QED BY <2>11, <2>12, <2>13 DEF WorkerInv, Workers
<1>5. CASE JoinThreads
  BY <1>3, <1>5 DEF JoinThreads, threadVars
<1>6. CASE PrintTime
  BY <1>3, <1>6 DEF PrintTime, threadVars
<1>7. CASE FinishExit
  BY <1>3, <1>7 DEF FinishExit, threadVars
<1>8. CASE UNCHANGED vars
  BY <1>3, <1>8 DEF vars, threadVars
<1> QED BY <1>1, <1>2, <1>4, <1>5, <1>6, <1>7, <1>8 DEF Next, Main

LEMMA RunStep ==
  ASSUME TypeInv, SplitInv, WorkerInv, RunInv, [Next]_vars
  PROVE  RunInv'
<1>0. launched \in Nat /\ Threads \subseteq Workers
  <2>1. Threads \subseteq Workers
    BY ThreadsFit
  <2> QED BY <2>1 DEF TypeInv
<1>1. CASE ComputeChunks
  <2>1. Threads = {}
    BY <1>1 DEF ComputeChunks, SplitInv, Threads
  <2>2. process \notin {"exiting", "exited"}
    BY <2>1 DEF RunInv
  <2> QED BY <1>1, <2>2 DEF ComputeChunks, RunInv
<1>2. CASE LaunchThread
  <2>1. /\ launched' = launched + 1 /\ pc' \notin {"time", "ended"}
        /\ doing' = doing /\ process' = process
    BY <1>2 DEF LaunchThread, threadVars
  <2>2. Threads \subseteq Threads'
    BY <1>0, <2>1 DEF Threads
  <2> QED BY <2>1, <2>2 DEF RunInv
<1>3. CASE JoinThreads
  <2>1. /\ \A t \in Threads : ~ AtFile(t)
        /\ UNCHANGED <<chunks, launched, at, doing, process>> /\ Running
    BY <1>3 DEF JoinThreads, threadVars
  <2>2. \A t \in Threads : doing[t] # "exit"
    BY <1>0, <2>1 DEF WorkerInv, Holds
  <2>3. process = "running"
    BY <2>1, <2>2 DEF RunInv, Running
  <2>4. \A t \in Threads' : ~ AtFile(t)'
    BY <2>1 DEF Threads, AtFile
  <2> QED BY <2>1, <2>3, <2>4 DEF RunInv
<1>4. CASE PrintTime
  <2>1. /\ pc = "time" /\ UNCHANGED <<chunks, launched, at, doing, process>>
    BY <1>4 DEF PrintTime, threadVars
  <2>2. process = "running" /\ \A t \in Threads : ~ AtFile(t)
    BY <2>1 DEF RunInv
  <2>3. \A t \in Threads' : ~ AtFile(t)'
    BY <2>1, <2>2 DEF Threads, AtFile
  <2> QED BY <2>1, <2>2, <2>3 DEF RunInv
<1>5. CASE FinishExit
  <2>1. process = "exiting" /\ process' = "exited" /\ UNCHANGED <<launched, doing, pc>>
    BY <1>5 DEF FinishExit, threadVars
  <2>2. \E t \in Threads : doing[t] = "exit"
    BY <2>1 DEF RunInv
  <2>3. pc \notin {"time", "ended"}
    BY <2>1 DEF RunInv
  <2> QED BY <2>1, <2>2, <2>3 DEF RunInv, Threads
<1>6. ASSUME NEW t \in Threads, Worker(t) PROVE RunInv'
  <2>1. AtFile(t) /\ doing[t] \in {"parse", "print"} /\ t \in Workers
    BY <1>0, <1>6, WorkerAtFile
  <2>2. pc \notin {"time", "ended"}
    BY <2>1 DEF RunInv
  <2>3. UNCHANGED <<launched, pc>> /\ Threads' = Threads
    BY <1>6 DEF Worker, ParseFile, PassFile, ExitProgram, Crash, Insert, NextFile, Threads
  <2>4. CASE ExitProgram(t)
    <3>1. doing'[t] = "exit"
      BY <2>1, <2>4 DEF ExitProgram, TypeInv
    <3> QED BY <2>2, <2>3, <3>1 DEF RunInv
  <2>5. CASE ~ ExitProgram(t)
    <3>1. process' \in {process, "killed"} /\ \A u \in Workers : u # t => doing'[u] = doing[u]
      BY <1>6, <2>5 DEF Worker, ParseFile, PassFile, Crash, Insert, NextFile, threadVars, TypeInv
    <3>2. (\E u \in Threads : doing[u] = "exit") => \E u \in Threads' : doing'[u] = "exit"
      BY <1>0, <2>1, <2>3, <3>1
    <3> QED BY <2>2, <2>3, <3>1, <3>2 DEF RunInv
  <2> QED BY <2>4, <2>5
<1>7. CASE UNCHANGED vars
  BY <1>7 DEF vars, threadVars, RunInv, Threads, AtFile
<1> QED BY <1>1, <1>2, <1>3, <1>4, <1>5, <1>6, <1>7 DEF Next, Main

LEMMA OutStep ==
  ASSUME TypeInv, SplitInv, RunInv, OutInv, [Next]_vars
  PROVE  OutInv'
<1>0. out \in Seq(Insertion) /\ launched \in Nat
  BY DEF TypeInv
<1>1. ASSUME out' = out, pc # "ended", pc' # "ended", Threads \subseteq Threads'
      PROVE  OutInv'
  BY <1>1 DEF OutInv
<1>2. CASE ComputeChunks
  <2>1. Threads' = Threads
    BY <1>2 DEF ComputeChunks, Threads
  <2> QED BY <1>1, <1>2, <2>1 DEF ComputeChunks
<1>3. CASE LaunchThread
  <2>1. Threads \subseteq Threads'
    BY <1>0, <1>3 DEF LaunchThread, Threads
  <2> QED BY <1>1, <1>3, <2>1 DEF LaunchThread
<1>4. CASE JoinThreads
  <2>1. Threads' = Threads
    BY <1>4 DEF JoinThreads, Threads
  <2> QED BY <1>1, <1>4, <2>1 DEF JoinThreads
<1>5. CASE PrintTime
  <2>1. /\ pc # "ended" /\ pc' = "ended" /\ Threads' = Threads
        /\ out' = Append(out, [by |-> 0, text |-> <<"time", 0>>])
    BY <1>5 DEF PrintTime, Threads
  <2>2. /\ out' # << >> /\ out'[Len(out')].text = <<"time", 0>>
        /\ Len(out') - 1 = Len(out)
        /\ \A n \in 1 .. Len(out) : n \in DOMAIN out /\ out'[n] = out[n]
    BY <1>0, <2>1
  <2>3. \A n \in 1 .. Len(out') - 1 : out'[n].by \in Threads'
    BY <2>1, <2>2 DEF OutInv
  <2> QED BY <2>1, <2>2, <2>3 DEF OutInv
<1>6. ASSUME Threads' = Threads, pc' = pc, out' = out PROVE OutInv'
  BY <1>6 DEF OutInv
<1>7. CASE FinishExit
  BY <1>6, <1>7 DEF FinishExit, Threads
<1>8. ASSUME NEW t \in Threads, Worker(t) PROVE OutInv'
  <2>1. AtFile(t)
    BY <1>8, WorkerAtFile
  <2>2. pc # "ended"
    BY <2>1 DEF RunInv
  <2>3. pc' = pc /\ Threads' = Threads
    BY <1>8 DEF Worker, ParseFile, PassFile, ExitProgram, Crash, Insert, NextFile, Threads
  <2>4. CASE Insert(t)
    <3>1. PICK e : out' = Append(out, e) /\ e.by = t
      BY <2>4 DEF Insert
    <3>2. \A n \in DOMAIN out' : out'[n] = e \/ (n \in DOMAIN out /\ out'[n] = out[n])
      <4>1. PICK k \in Nat : k = Len(out)
        BY <1>0
      <4>2. DOMAIN out' = 1 .. k + 1 /\ DOMAIN out = 1 .. k
        BY <1>0, <3>1, <4>1
      <4>3. out'[k + 1] = e
        BY <1>0, <3>1, <4>1
      <4>4. \A n \in 1 .. k : out'[n] = out[n]
        BY <1>0, <3>1, <4>1
      <4>5. \A n \in 1 .. k + 1 : n \in 1 .. k \/ n = k + 1
        OBVIOUS
      <4> SUFFICES ASSUME NEW n \in DOMAIN out'
                   PROVE  out'[n] = e \/ (n \in DOMAIN out /\ out'[n] = out[n])
        OBVIOUS
      <4>6. n \in 1 .. k + 1
        BY <4>2
      <4>7. CASE n = k + 1
        BY <4>3, <4>7
      <4>8. CASE n \in 1 .. k
        BY <4>2, <4>4, <4>8
      <4> QED BY <4>5, <4>6, <4>7, <4>8
    <3>3. \A n \in DOMAIN out' : out'[n].by \in Threads
      BY <2>2, <3>1, <3>2 DEF OutInv
    <3> QED BY <2>2, <2>3, <3>3 DEF OutInv
  <2>5. CASE ~ Insert(t)
    <3>1. out' = out
      BY <1>8, <2>5 DEF Worker, ParseFile, PassFile, ExitProgram, Crash, NextFile
    <3> QED BY <1>6, <2>3, <3>1
  <2> QED BY <2>4, <2>5
<1>9. CASE UNCHANGED vars
  BY <1>6, <1>9 DEF vars, Threads
<1> QED BY <1>2, <1>3, <1>4, <1>5, <1>7, <1>8, <1>9 DEF Next, Main

LEMMA ShareStays ==
  ASSUME NEW t, Share(t), LeftAlone(t), UNCHANGED <<files, chunks>>,
         InsertedBy(t, out)' = InsertedBy(t, out),
         process' = "running" => process = "running"
  PROVE  Share(t)'
<1>1. PICK kept \in SUBSET (1 .. at[t] - 1) :
        /\ process = "running" => kept = 1 .. at[t] - 1
        /\ InsertedBy(t, out) = Printed(t, kept)
  BY DEF Share
<1>2. at[t]' = at[t]
  BY DEF LeftAlone
<1>3. Printed(t, kept)' = Printed(t, kept)
  BY DEF LeftAlone, Printed
<1>4. kept \in SUBSET (1 .. at[t]' - 1) /\ (process' = "running" => kept = 1 .. at[t]' - 1)
  BY <1>1, <1>2
<1>5. InsertedBy(t, out)' = Printed(t, kept)'
  BY <1>1, <1>3
<1> QED BY <1>4, <1>5 DEF Share

\* A new list of a thread that has printed nothing of it yet.
LEMMA PrintNothing ==
  ASSUME NEW x \in Seq(Text), NEW y \in Seq(Text)
  PROVE  x = x \o SubSeq(y, 1, 0)
<1>1. SubSeq(y, 1, 0) = << >>
  BY SubSeqEmpty
<1> QED BY <1>1, ConcatEmptySeq

\* One insertion, and the last one.
LEMMA PrintOneMore ==
  ASSUME NEW x \in Seq(Text), NEW y \in Seq(Text), NEW n \in Nat, n < Len(y)
  PROVE  Append(x \o SubSeq(y, 1, n), y[n + 1]) = x \o SubSeq(y, 1, n + 1)
<1>1. PICK a : a = SubSeq(y, 1, n)
  OBVIOUS
<1>2. PICK b : b = SubSeq(y, 1, n + 1)
  OBVIOUS
<1>3. a \in Seq(Text) /\ Len(a) = n /\ \A i \in 1 .. n : a[i] = y[i]
  BY <1>1
<1>5. y[n + 1] \in Text
  OBVIOUS
<1>6. PICK c : c = y[n + 1]
  OBVIOUS
<1>7. c \in Text /\ << c >> \in Seq(Text)
  BY <1>5, <1>6
<1>8. b = a \o << c >>
  <2>1. PICK m : m = n + 1
    OBVIOUS
  <2>2. 1 \in 1 .. Len(y) /\ m \in 1 .. Len(y) /\ m - 1 = n
    BY <2>1
  <2>3. SubSeq(y, 1, m) = SubSeq(y, 1, m - 1) \o << y[m] >>
    BY <2>2, SubSeqRecursiveSecond
  <2> QED BY <1>1, <1>2, <1>6, <2>1, <2>2, <2>3
<1>9. Append(x \o a, c) = x \o (a \o << c >>)
  <2>1. x \o a \in Seq(Text)
    BY <1>3, ConcatProperties
  <2>2. Append(x \o a, c) = (x \o a) \o << c >>
    BY <1>7, <2>1, AppendIsConcat
  <2> QED BY <1>3, <1>7, <2>2, ConcatAssociative
<1> QED BY <1>1, <1>2, <1>6, <1>8, <1>9

LEMMA PrintAll ==
  ASSUME NEW y \in Seq(Text)
  PROVE  SubSeq(y, 1, Len(y)) = y
BY SubSeqFull

LEMMA ShareStep ==
  ASSUME TypeInv, SplitInv, WorkerInv, RunInv, OutInv, ShareInv, [Next]_vars
  PROVE  ShareInv'
<1>0. launched \in Nat /\ Threads \subseteq Workers /\ out \in Seq(Insertion) /\ files \in Seq(File)
  <2>1. Threads \subseteq Workers
    BY ThreadsFit
  <2> QED BY <2>1 DEF TypeInv
<1>1. ASSUME UNCHANGED <<files, chunks, launched, at, doing, entries, printed>>,
             process' = "running" => process = "running",
             \A t \in Threads : InsertedBy(t, out)' = InsertedBy(t, out)
      PROVE  ShareInv'
  <2>1. Threads' = Threads
    BY <1>1 DEF Threads
  <2>2. ASSUME NEW t \in Threads PROVE Share(t)'
    <3>1. Share(t) /\ LeftAlone(t)
      BY <1>1 DEF ShareInv, LeftAlone
    <3> QED BY <1>1, <3>1, ShareStays
  <2> QED BY <2>1, <2>2 DEF ShareInv
<1>2. CASE ComputeChunks
  <2>1. Threads' = {}
    BY <1>2 DEF ComputeChunks, SplitInv, Threads
  <2> QED BY <2>1 DEF ShareInv
<1>3. CASE LaunchThread
  <2>1. /\ launched' = launched + 1 /\ pc = "launch" /\ launched < Len(chunks)
        /\ UNCHANGED <<files, chunks, at, doing, entries, printed, out, process>>
    BY <1>3 DEF LaunchThread, SplitInv, threadVars
  <2>2. ASSUME NEW t \in Threads PROVE Share(t)'
    <3>1. Share(t) /\ LeftAlone(t) /\ InsertedBy(t, out)' = InsertedBy(t, out)
      BY <2>1 DEF ShareInv, LeftAlone
    <3> QED BY <2>1, <3>1, ShareStays
  <2>3. PICK t : t = launched + 1
    OBVIOUS
  <2>4. t \notin Threads /\ Threads' = Threads \cup {t}
    BY <1>0, <2>1, <2>3 DEF Threads
  <2>5. t \in DOMAIN chunks /\ t \in Workers
    <3>1. Len(chunks) \in Workers /\ chunks \in Seq(Seq(1 .. Len(files)))
      BY <2>1, ThreadsFit
    <3> QED BY <1>0, <2>1, <2>3, <3>1, ThreadsAssumption DEF Workers
  <2>6. chunks[t] \in Seq(1 .. Len(files))
    <3>1. chunks \in Seq(Seq(1 .. Len(files)))
      BY <2>1, ThreadsFit
    <3> QED BY <2>5, <3>1
  <2>7. at[t] = 1 /\ doing[t] # "print"
    <3>1. at[t] = 1 /\ Holds(t)
      BY <2>4, <2>5 DEF WorkerInv
    <3> QED BY <2>4, <3>1 DEF Holds, AtFile
  <2>8. InsertedBy(t, out) = << >>
    <3>1. \A n \in DOMAIN out : out[n].by # t
      BY <2>1, <2>4 DEF OutInv
    <3> QED BY <1>0, <3>1, NothingInserted
  <2>9. Listings(files, chunks[t], {}) = << >>
    BY <1>0, <2>6, NoListings
  <2>10. InsertedBy(t, out)' = Printed(t, {})'
    BY <2>1, <2>7, <2>8, <2>9 DEF Printed
  <2>11. {} \in SUBSET (1 .. at'[t] - 1) /\ {} = 1 .. at'[t] - 1
    BY <2>1, <2>7
  <2>12. Share(t)'
    BY <2>10, <2>11 DEF Share
  <2> QED BY <2>2, <2>4, <2>12 DEF ShareInv
<1>4. CASE JoinThreads
  BY <1>1, <1>4 DEF JoinThreads, threadVars
<1>5. CASE PrintTime
  <2>1. PICK e : e = [by |-> 0, text |-> <<"time", 0>>]
    OBVIOUS
  <2>2. e \in Insertion /\ e.by = 0
    BY <2>1 DEF Insertion, Text
  <2>3. out' = Append(out, e)
    BY <1>5, <2>1 DEF PrintTime
  <2>4. ASSUME NEW t \in Threads PROVE InsertedBy(t, out)' = InsertedBy(t, out)
    <3>1. t # 0
      BY <1>0 DEF Threads
    <3>2. InsertedBy(t, Append(out, e)) = InsertedBy(t, out)
      BY <1>0, <2>2, <3>1, OneMoreInsertion
    <3> QED BY <2>3, <3>2
  <2> QED BY <1>1, <1>5, <2>4 DEF PrintTime, threadVars
<1>6. CASE FinishExit
  BY <1>1, <1>6 DEF FinishExit, threadVars
<1>7. CASE UNCHANGED vars
  BY <1>1, <1>7 DEF vars, threadVars
<1>8. ASSUME NEW t \in Threads, Worker(t) PROVE ShareInv'
  <2>1. AtFile(t) /\ t \in Workers /\ Running
    BY <1>0, <1>8, WorkerAtFile
  <2>2. UNCHANGED <<files, chunks, launched>> /\ Threads' = Threads
    BY <1>8 DEF Worker, ParseFile, PassFile, ExitProgram, Crash, Insert, NextFile, Threads, threadVars
  <2>3. ASSUME NEW u \in Workers, u # t PROVE LeftAlone(u)
    BY <1>8, <2>1, <2>3 DEF Worker, ParseFile, PassFile, ExitProgram, Crash, Insert, NextFile,
       LeftAlone, threadVars, TypeInv
  <2>4. process' = "running" => process = "running"
    BY <1>8 DEF Worker, ParseFile, PassFile, ExitProgram, Crash, Insert, NextFile
  <2>5. PICK n, c : n = at[t] /\ c = chunks[t]
    OBVIOUS
  <2>6. /\ c \in Seq(1 .. Len(files)) /\ n \in DOMAIN c /\ n \in Nat \ {0} /\ c[n] \in Nat
        /\ FileOf(t) = files[c[n]] /\ FileOf(t) \in File
    <3>1. c \in Seq(1 .. Len(files))
      BY <2>5, ChunkFits
    <3>2. n \in DOMAIN c /\ c[n] \in 1 .. Len(files) /\ FileOf(t) \in File
      BY <2>1, <2>5, FileFits
    <3> QED BY <2>5, <3>1, <3>2 DEF FileOf
  <2>7. PICK text : text = Listing(c[n], Matches(files[c[n]]))
    OBVIOUS
  <2>8. text \in Seq(Text) /\ Matches(files[c[n]]) \in Entries
    BY <2>6, <2>7, MatchesType, ListingType
  <2>9. PICK kept \in SUBSET (1 .. n - 1) :
          /\ process = "running" => kept = 1 .. n - 1
          /\ InsertedBy(t, out) = Printed(t, kept)
    BY <2>5 DEF ShareInv, Share
  <2>10. PICK listed : listed = Listings(files, c, kept)
    OBVIOUS
  <2>11. listed \in Seq(Text)
    BY <1>0, <2>6, <2>10, ListingsType
  <2>12. Listings(files, c, kept \cup {n}) = listed \o text
    BY <1>0, <2>6, <2>7, <2>10, OneMoreListing
  <2>13. /\ kept \cup {n} \in SUBSET (1 .. (n + 1) - 1)
         /\ process = "running" => kept \cup {n} = 1 .. (n + 1) - 1
    <3>0. n \in 1 .. (n + 1) - 1 /\ \A k \in 1 .. n - 1 : k \in 1 .. (n + 1) - 1
      BY <2>6
    <3>1. kept \cup {n} \in SUBSET (1 .. (n + 1) - 1)
      BY <3>0
    <3>2. (1 .. n - 1) \cup {n} = 1 .. (n + 1) - 1
      BY <2>6
    <3> QED BY <2>9, <3>1, <3>2
  <2>14. doing[t] = "print" =>
           /\ Matches(files[c[n]]) = entries[t]
           /\ InsertedBy(t, out) = listed \o SubSeq(text, 1, printed[t])
    <3> SUFFICES ASSUME doing[t] = "print"
                 PROVE  /\ Matches(files[c[n]]) = entries[t]
                        /\ InsertedBy(t, out) = listed \o SubSeq(text, 1, printed[t])
      OBVIOUS
    <3>1. EndOfParse(t) = "ok" /\ entries[t] = Parsed[FileOf(t)].list
      BY <2>1 DEF WorkerInv, Holds
    <3>2. Matches(files[c[n]]) = entries[t]
      BY <2>6, <3>1 DEF Matches, EndOfParse
    <3>3. Printed(t, kept) = listed \o SubSeq(text, 1, printed[t])
      BY <2>5, <2>7, <2>10, <3>2 DEF Printed
    <3> QED BY <2>9, <3>2, <3>3
  <2>15. doing[t] # "print" => InsertedBy(t, out) = listed
    BY <2>5, <2>9, <2>10 DEF Printed
  <2>16. ASSUME out' = out, Share(t)' PROVE ShareInv'
    <3>1. ASSUME NEW u \in Threads, u # t PROVE Share(u)'
      <4>1. Share(u) /\ LeftAlone(u)
        BY <1>0, <2>3, <3>1 DEF ShareInv
      <4>2. InsertedBy(u, out)' = InsertedBy(u, out)
        BY <2>16
      <4> QED BY <2>2, <2>4, <4>1, <4>2, ShareStays
    <3> QED BY <2>2, <2>16, <3>1 DEF ShareInv
  <2>17. CASE ParseFile(t)
    <3>1. /\ doing[t] = "parse" /\ EndOfParse(t) = "ok"
          /\ UNCHANGED <<at, printed, out, process>>
          /\ entries' = [entries EXCEPT ![t] = @ \o Parsed[FileOf(t)].list]
          /\ doing' = [doing EXCEPT ![t] = "print"]
      BY <2>17 DEF ParseFile, Parsing
    <3>2. entries[t] = << >> /\ printed[t] = 0
      BY <2>1, <3>1 DEF WorkerInv, Holds
    <3>3. PICK list : list = Parsed[FileOf(t)].list
      OBVIOUS
    <3>4. list \in Entries /\ Matches(files[c[n]]) = list
      BY <2>1, <2>6, <3>1, <3>3, FileFits DEF Matches, EndOfParse
    <3>5. << >> \o list = list
      BY <3>4 DEF Entries
    <3>6. entries'[t] = list /\ doing'[t] = "print" /\ printed'[t] = 0
      BY <2>1, <3>1, <3>2, <3>3, <3>5 DEF TypeInv
    <3>7. listed = listed \o SubSeq(text, 1, 0)
      BY <2>8, <2>11, PrintNothing
    <3>8. Printed(t, kept)' = listed
      BY <2>2, <2>5, <2>7, <2>10, <3>1, <3>4, <3>6, <3>7 DEF Printed
    <3>9. InsertedBy(t, out)' = listed
      BY <2>15, <3>1
    <3>10. Share(t)'
      BY <2>5, <2>9, <3>1, <3>8, <3>9 DEF Share
    <3> QED BY <2>16, <3>1, <3>10
  <2>18. CASE PassFile(t)
    <3>1. /\ doing[t] = "parse" /\ (EndOfParse(t) = "failed" \/ process = "exiting")
          /\ UNCHANGED <<doing, entries, printed, out, process>>
          /\ at' = [at EXCEPT ![t] = @ + 1]
      BY <2>18 DEF PassFile, Parsing, PathIsLost
    <3>2. at'[t] = n + 1 /\ InsertedBy(t, out)' = listed
      BY <2>1, <2>5, <2>15, <3>1 DEF TypeInv
    <3>3. ASSUME NEW places, Listings(files, c, places) = listed,
                 places \in SUBSET (1 .. (n + 1) - 1),
                 process = "running" => places = 1 .. (n + 1) - 1
          PROVE  ShareInv'
      <4>1. Printed(t, places)' = listed
        BY <2>2, <2>5, <3>1, <3>3 DEF Printed
      <4>2. Share(t)'
        BY <3>1, <3>2, <3>3, <4>1 DEF Share
      <4> QED BY <2>16, <3>1, <4>2
    <3>4. CASE EndOfParse(t) = "failed"
      <4>1. Matches(files[c[n]]) = << >>
        BY <2>6, <3>4 DEF Matches, EndOfParse
      <4>2. text = << >>
        BY <2>6, <2>7, <4>1, ListingOfNothing
      <4>3. listed \o text = listed
        BY <2>11, <4>2
      <4>4. Listings(files, c, kept \cup {n}) = listed
        BY <2>12, <4>3
      <4> QED BY <2>13, <3>3, <4>4
    <3>5. CASE process = "exiting"
      <4>1. kept \in SUBSET (1 .. (n + 1) - 1)
        BY <2>6
      <4> QED BY <2>10, <3>3, <3>5, <4>1
    <3> QED BY <3>1, <3>4, <3>5
  <2>19. CASE ExitProgram(t)
    <3>1. /\ doing[t] = "parse" /\ UNCHANGED <<at, entries, printed, out>>
          /\ doing' = [doing EXCEPT ![t] = "exit"] /\ process' = "exiting"
      BY <2>19 DEF ExitProgram, Parsing
    <3>2. doing'[t] = "exit" /\ InsertedBy(t, out)' = listed
      BY <2>1, <2>15, <3>1 DEF TypeInv
    <3>3. Printed(t, kept)' = listed
      BY <2>2, <2>5, <2>10, <3>2 DEF Printed
    <3>4. Share(t)'
      BY <2>5, <2>9, <3>1, <3>2, <3>3 DEF Share
    <3> QED BY <2>16, <3>1, <3>4
  <2>20. CASE Crash(t)
    BY <1>1, <2>2, <2>20 DEF Crash, threadVars
  <2>21. CASE Insert(t)
    <3>1. /\ doing[t] = "print" /\ UNCHANGED <<at, doing, entries, process>>
          /\ printed[t] < Len(Listing(chunks[t][at[t]], entries[t]))
          /\ out' = Append(out, [by |-> t, text |-> Listing(chunks[t][at[t]], entries[t])[printed[t] + 1]])
          /\ printed' = [printed EXCEPT ![t] = @ + 1]
      BY <2>21 DEF Insert, Printing
    <3>2. text = Listing(chunks[t][at[t]], entries[t])
      BY <2>5, <2>7, <2>14, <3>1
    <3>3. PICK m \in Nat : m = printed[t]
      BY <2>1 DEF TypeInv
    <3>4. m < Len(text) /\ printed'[t] = m + 1
      BY <2>1, <3>1, <3>2, <3>3 DEF TypeInv
    <3>5. PICK e : e = [by |-> t, text |-> text[m + 1]]
      OBVIOUS
    <3>6. text[m + 1] \in Text
      BY <2>8, <3>4
    <3>7. e \in Insertion /\ e.by = t /\ e.text = text[m + 1]
      <4>1. t \in Nat
        BY ChunkFits
      <4> QED BY <3>5, <3>6, <4>1 DEF Insertion
    <3>8. out' = Append(out, e)
      BY <3>1, <3>2, <3>3, <3>5
    <3>9. InsertedBy(t, Append(out, e)) = Append(InsertedBy(t, out), text[m + 1])
      BY <1>0, <3>7, OneMoreInsertion
    <3>10. InsertedBy(t, out) = listed \o SubSeq(text, 1, m)
      BY <2>14, <3>1, <3>3
    <3>11. Append(listed \o SubSeq(text, 1, m), text[m + 1]) = listed \o SubSeq(text, 1, m + 1)
      BY <2>8, <2>11, <3>4, PrintOneMore
    <3>12. InsertedBy(t, out)' = listed \o SubSeq(text, 1, m + 1)
      BY <3>8, <3>9, <3>10, <3>11
    <3>13. Printed(t, kept)' = listed \o SubSeq(text, 1, m + 1)
      BY <2>2, <2>5, <2>10, <3>1, <3>2, <3>4 DEF Printed
    <3>14. Share(t)'
      BY <2>5, <2>9, <3>1, <3>12, <3>13 DEF Share
    <3>15. ASSUME NEW u \in Threads, u # t PROVE Share(u)'
      <4>1. Share(u) /\ LeftAlone(u)
        BY <1>0, <2>3, <3>15 DEF ShareInv
      <4>2. InsertedBy(u, Append(out, e)) = InsertedBy(u, out)
        BY <1>0, <3>7, <3>15, OneMoreInsertion
      <4>3. InsertedBy(u, out)' = InsertedBy(u, out)
        BY <3>8, <4>2
      <4> QED BY <2>2, <2>4, <4>1, <4>3, ShareStays
    <3> QED BY <2>2, <3>14, <3>15 DEF ShareInv
  <2>22. CASE NextFile(t)
    <3>1. /\ doing[t] = "print" /\ printed[t] = 3 * Len(entries[t])
          /\ UNCHANGED <<out, process>>
          /\ doing' = [doing EXCEPT ![t] = "parse"] /\ at' = [at EXCEPT ![t] = @ + 1]
      BY <2>22 DEF NextFile, Printing
    <3>2. doing'[t] = "parse" /\ at'[t] = n + 1
      BY <2>1, <2>5, <3>1 DEF TypeInv
    <3>3. Matches(files[c[n]]) = entries[t] /\ InsertedBy(t, out) = listed \o SubSeq(text, 1, printed[t])
      BY <2>14, <3>1
    <3>4. Len(text) = 3 * Len(entries[t])
      BY <2>6, <2>7, <2>8, <3>3, ListingType
    <3>5. SubSeq(text, 1, printed[t]) = text
      BY <2>8, <3>1, <3>4, PrintAll
    <3>6. InsertedBy(t, out)' = listed \o text
      BY <3>1, <3>3, <3>5
    <3>7. Printed(t, kept \cup {n})' = listed \o text
      BY <2>2, <2>5, <2>12, <3>2 DEF Printed
    <3>8. Share(t)'
      BY <2>13, <3>1, <3>2, <3>6, <3>7 DEF Share
    <3> QED BY <2>16, <3>1, <3>8
  <2> QED BY <1>8, <2>17, <2>18, <2>19, <2>20, <2>21, <2>22 DEF Worker
<1> QED BY <1>2, <1>3, <1>4, <1>5, <1>6, <1>7, <1>8 DEF Next, Main

-----------------------------------------------------------------------------
(* The results *)

\* IInv is an inductive invariant of a free run.
THEOREM FreeRunInvariant == Spec => []IInv
<1>1. Init => IInv
  BY InitIInv
<1>2. ASSUME IInv, [Next]_vars PROVE IInv'
  <2>1. TypeInv /\ SplitInv /\ WorkerInv /\ RunInv /\ OutInv /\ ShareInv
    BY <1>2 DEF IInv
  <2>2. TypeInv'
    BY <1>2, <2>1, TypeStep
  <2>3. SplitInv'
    BY <1>2, <2>1, SplitStep
  <2>4. WorkerInv'
    BY <1>2, <2>1, WorkerStep
  <2>5. RunInv'
    BY <1>2, <2>1, RunStep
  <2>6. OutInv'
    BY <1>2, <2>1, OutStep
  <2>7. ShareInv'
    BY <1>2, <2>1, ShareStep
  <2> QED BY <2>2, <2>3, <2>4, <2>5, <2>6, <2>7 DEF IInv
<1> QED BY <1>1, <1>2, PTL DEF Spec

\* A thread that prints holds what the parser handed over for this file alone,
\* and that is the symbols looked for in all the symbol tables of the file.
LEMMA WholeEntries ==
  ASSUME IInv
  PROVE  EntriesAreWhole
<1> SUFFICES ASSUME NEW t \in Threads, Printing(t)
             PROVE  ListsPlaces(entries[t], FileOf(t), Sought(FileOf(t)))
  BY DEF EntriesAreWhole
<1>1. TypeInv /\ SplitInv /\ WorkerInv
  BY DEF IInv
<1>2. AtFile(t) /\ doing[t] = "print"
  BY DEF Printing
<1>3. Threads \subseteq Workers
  BY <1>1, ThreadsFit
<1>4. EndOfParse(t) = "ok" /\ entries[t] = Parsed[FileOf(t)].list
  BY <1>1, <1>2, <1>3 DEF WorkerInv, Holds
<1>5. PICK f : f = FileOf(t)
  OBVIOUS
<1>6. f \in File
  BY <1>1, <1>2, <1>5, FileFits
<1>7. Parsed[f] = ParseSymtables(f)
  BY <1>6, MatchesType
<1>8. f \in FileType
  BY <1>6, FileAssumption
<1>9. ParseSymtables(f).end = "ok"
  BY <1>4, <1>5, <1>7 DEF EndOfParse
<1>10. ListsPlaces(ParseSymtables(f).list, f, Sought(f))
  BY <1>8, <1>9, ParserListsAll
<1> QED BY <1>4, <1>5, <1>7, <1>10

THEOREM EntriesWhole == Spec => []EntriesAreWhole
BY FreeRunInvariant, WholeEntries, PTL

LEMMA PrefixOf ==
  ASSUME NEW x \in Seq(Text), NEW y \in Seq(Text), NEW z, z = x \o y
  PROVE  IsPrefix(x, z)
<1>1. z \in Seq(Text) /\ Len(x) <= Len(z) /\ \A k \in 1 .. Len(x) : z[k] = x[k]
  OBVIOUS
<1>2. SubSeq(z, 1, Len(x)) = x
  BY <1>1
<1>3. SubSeq(x, 1, Len(x)) = x
  OBVIOUS
<1> QED BY <1>1, <1>2, <1>3 DEF IsPrefix

LEMMA CutInTwo ==
  ASSUME NEW y \in Seq(Text), NEW p \in Nat, p <= Len(y)
  PROVE  \E a, b \in Seq(Text) : a = SubSeq(y, 1, p) /\ y = a \o b
<1>1. PICK N \in Nat : N = Len(y)
  OBVIOUS
<1>2. PICK a : a = SubSeq(y, 1, p)
  OBVIOUS
<1>3. PICK b : b = [k \in 1 .. N - p |-> y[p + k]]
  OBVIOUS
<1>4. a \in Seq(Text) /\ Len(a) = p /\ \A k \in 1 .. p : a[k] = y[k]
  BY <1>2
<1>5. b \in Seq(Text) /\ Len(b) = N - p /\ \A k \in 1 .. N - p : b[k] = y[p + k]
  <2>1. N - p \in Nat /\ \A k \in 1 .. N - p : y[p + k] \in Text
    BY <1>1
  <2> QED BY <1>3, <2>1
<1>6. PICK z \in Seq(Text) : z = a \o b
  <2>1. a \o b \in Seq(Text)
    BY <1>4, <1>5
  <2> QED BY <2>1
<1>7. Len(z) = N
  BY <1>1, <1>4, <1>5, <1>6
<1>8. ASSUME NEW k \in 1 .. N PROVE z[k] = y[k]
  <2>1. CASE k <= p
    BY <1>4, <1>5, <1>6, <2>1
  <2>2. CASE ~ (k <= p)
    <3>1. PICK j \in 1 .. N - p : k = p + j
      <4>1. k - p \in 1 .. N - p /\ k = p + (k - p)
        BY <2>2
      <4> QED BY <4>1
    <3>2. z[k] = b[j]
      BY <1>4, <1>5, <1>6, <3>1
    <3> QED BY <1>5, <3>1, <3>2
  <2> QED BY <2>1, <2>2
<1>9. z = y
  BY <1>1, <1>7, <1>8
<1> QED BY <1>2, <1>4, <1>5, <1>6, <1>9

\* What a thread has inserted begins the listings of its files.
LEMMA SharePrinted ==
  ASSUME IInv
  PROVE  ThreadsPrintTheirShare
<1> SUFFICES ASSUME NEW t \in Threads
             PROVE  \E kept \in SUBSET DOMAIN chunks[t] :
                      /\ process = "running" => kept = DOMAIN chunks[t]
                      /\ IsPrefix(InsertedBy(t, out), Listings(files, chunks[t], kept))
  BY DEF ThreadsPrintTheirShare
<1>1. TypeInv /\ SplitInv /\ WorkerInv /\ Share(t)
  BY DEF IInv, ShareInv
<1>2. t \in Workers /\ chunks[t] \in Seq(1 .. Len(files))
  BY <1>1, ChunkFits
<1>3. files \in Seq(File) /\ out \in Seq(Insertion) /\ at[t] \in Nat \ {0} /\ printed[t] \in Nat
  BY <1>1, <1>2 DEF TypeInv
<1>4. Holds(t) /\ at[t] <= Len(chunks[t]) + 1
  BY <1>1, <1>2 DEF WorkerInv
<1>5. PICK c \in Seq(1 .. Len(files)) : c = chunks[t]
  BY <1>2
<1>6. PICK n \in Nat \ {0} : n = at[t]
  BY <1>3
<1>7. PICK N \in Nat : N = Len(c)
  OBVIOUS
<1>8. PICK kept \in SUBSET (1 .. n - 1) :
        /\ process = "running" => kept = 1 .. n - 1
        /\ InsertedBy(t, out) = Printed(t, kept)
  BY <1>1, <1>6 DEF Share
<1>9. PICK listed : listed = Listings(files, c, kept)
  OBVIOUS
<1>10. listed \in Seq(Text)
  BY <1>3, <1>9, ListingsType
<1>11. DOMAIN c = 1 .. N /\ n <= N + 1
  BY <1>4, <1>5, <1>6, <1>7
<1> SUFFICES \E places \in SUBSET (1 .. N) :
               /\ process = "running" => places = 1 .. N
               /\ IsPrefix(InsertedBy(t, out), Listings(files, c, places))
  BY <1>5, <1>11
<1>12. CASE doing[t] # "print"
  <2>1. InsertedBy(t, out) = listed
    BY <1>5, <1>8, <1>9, <1>12 DEF Printed
  <2>2. PICK m \in 0 .. Len(c) : m = n - 1
    BY <1>7, <1>11
  <2>3. kept \in SUBSET (1 .. m)
    BY <2>2
  <2>4. ASSUME NEW places \in SUBSET (1 .. N), SameUpTo(m, places, kept)
        PROVE  IsPrefix(InsertedBy(t, out), Listings(files, c, places))
    <3>1. PICK text : text = Listings(files, c, places)
      OBVIOUS
    <3>3. GoesOn(listed, text)
      BY <1>3, <1>9, <2>3, <2>4, <3>1, ListingsGoOn
    <3>2. PICK rest \in Seq(Text) : text = listed \o rest
      BY <3>3 DEF GoesOn
    <3> QED BY <1>10, <2>1, <3>1, <3>2, PrefixOf
  <2>5. CASE process = "running"
    <3>1. \A k \in 1 .. m : k \in 1 .. N <=> k \in kept
      BY <1>7, <1>8, <2>2, <2>5
    <3>2. SameUpTo(m, 1 .. N, kept)
      BY <3>1 DEF SameUpTo
    <3> QED BY <2>4, <3>2
  <2>6. CASE process # "running"
    <3>1. kept \in SUBSET (1 .. N)
      BY <1>7, <2>2
    <3>2. SameUpTo(m, kept, kept)
      BY DEF SameUpTo
    <3> QED BY <2>4, <2>6, <3>1, <3>2
  <2> QED BY <2>5, <2>6
<1>13. CASE doing[t] = "print"
  <2>1. AtFile(t) /\ EndOfParse(t) = "ok" /\ entries[t] = Parsed[FileOf(t)].list
    BY <1>4, <1>13 DEF Holds
  <2>2. n \in DOMAIN c /\ n \in 1 .. N /\ c[n] \in 1 .. Len(files) /\ FileOf(t) = files[c[n]]
    <3>1. n \in DOMAIN c /\ c[n] \in 1 .. Len(files)
      BY <1>1, <1>5, <1>6, <2>1, FileFits
    <3> QED BY <1>5, <1>6, <1>11, <3>1 DEF FileOf
  <2>3. files[c[n]] \in File
    BY <1>3, <2>2
  <2>4. Matches(files[c[n]]) = entries[t] /\ Matches(files[c[n]]) \in Entries
    <3>1. Matches(files[c[n]]) = entries[t]
      BY <2>1, <2>2 DEF Matches, EndOfParse
    <3> QED BY <2>3, <3>1, MatchesType
  <2>5. PICK text : text = Listing(c[n], Matches(files[c[n]]))
    OBVIOUS
  <2>6. text \in Seq(Text) /\ Len(text) = 3 * Len(entries[t])
    <3>1. c[n] \in Nat
      BY <2>2
    <3> QED BY <2>4, <2>5, <3>1, ListingType
  <2>7. PICK p \in Nat : p = printed[t] /\ p <= Len(text)
    BY <1>3, <1>4, <1>13, <2>6 DEF Holds
  <2>8. InsertedBy(t, out) = listed \o SubSeq(text, 1, p)
    BY <1>5, <1>6, <1>8, <1>9, <1>13, <2>4, <2>5, <2>7 DEF Printed
  <2>9. PICK a, b \in Seq(Text) : a = SubSeq(text, 1, p) /\ text = a \o b
    BY <2>6, <2>7, CutInTwo
  <2>10. Listings(files, c, kept \cup {n}) = listed \o text
    BY <1>3, <1>9, <2>2, <2>5, OneMoreListing
  <2>11. PICK with : with = kept \cup {n}
    OBVIOUS
  <2>12. PICK m \in 0 .. Len(c) : m = n
    BY <1>7, <2>2
  <2>13. with \in SUBSET (1 .. m) /\ Listings(files, c, with) = listed \o text
    <3>1. n \in 1 .. m /\ \A k \in 1 .. n - 1 : k \in 1 .. m
      BY <2>12
    <3> QED BY <2>10, <2>11, <3>1
  <2>14. ASSUME NEW places \in SUBSET (1 .. N), SameUpTo(m, places, with)
         PROVE  IsPrefix(InsertedBy(t, out), Listings(files, c, places))
    <3>1. PICK all : all = Listings(files, c, places)
      OBVIOUS
    <3>2. PICK first : first = Listings(files, c, with)
      OBVIOUS
    <3>8. GoesOn(first, all)
      BY <1>3, <2>13, <2>14, <3>1, <3>2, ListingsGoOn
    <3>3. PICK rest \in Seq(Text) : all = first \o rest
      BY <3>8 DEF GoesOn
    <3>4. first = listed \o (a \o b)
      BY <2>9, <2>13, <3>2
    <3>5. listed \o a \in Seq(Text) /\ (listed \o a) \o b = listed \o (a \o b)
      BY <1>10, <2>9, TextAssociative
    <3>9. PICK more : more = listed \o a
      OBVIOUS
    <3>11. more \in Seq(Text)
      BY <3>5, <3>9
    <3>10. b \o rest \in Seq(Text) /\ (more \o b) \o rest = more \o (b \o rest)
      BY <3>11, TextAssociative, Zenon
    <3>6. b \o rest \in Seq(Text) /\ ((listed \o a) \o b) \o rest = (listed \o a) \o (b \o rest)
      BY <3>9, <3>10
    <3>7. all = (listed \o a) \o (b \o rest)
      BY <3>3, <3>4, <3>5, <3>6
    <3> QED BY <2>8, <2>9, <3>1, <3>5, <3>6, <3>7, PrefixOf
  <2>15. CASE process = "running"
    <3>1. \A k \in 1 .. m : k \in 1 .. N /\ k \in with
      BY <1>8, <2>2, <2>11, <2>12, <2>15
    <3>2. SameUpTo(m, 1 .. N, with)
      BY <3>1 DEF SameUpTo
    <3> QED BY <2>14, <3>2
  <2>16. CASE process # "running"
    <3>1. with \in SUBSET (1 .. N)
      BY <2>2, <2>12, <2>13
    <3>2. SameUpTo(m, with, with)
      BY DEF SameUpTo
    <3> QED BY <2>14, <2>16, <3>1, <3>2
  <2> QED BY <2>15, <2>16
<1> QED BY <1>12, <1>13

THEOREM ShareIsPrinted == Spec => []ThreadsPrintTheirShare
BY FreeRunInvariant, SharePrinted, PTL

\* The chunks have each file in one place.
LEMMA OnePlaceEach ==
  ASSUME TypeInv, SplitInv, pc = "ended", NEW f \in DOMAIN files
  PROVE  \E p \in Places(f) : Places(f) = {p}
<1>1. PICK n \in Nat : n = Len(files)
  BY DEF TypeInv
<1>2. PICK d : d = ThreadCount(n)
  OBVIOUS
<1>3. d \in Nat \ {0} /\ d \in 1 .. HardwareThreads
  BY <1>2, ThreadCountFits, ThreadsAssumption
<1>4. chunks = Chunks(n) /\ launched = Len(chunks)
  BY <1>1 DEF SplitInv
<1>5. Len(Chunks(n)) = d
  BY <1>2, ChunksType
<1>6. Threads = 1 .. d
  BY <1>4, <1>5 DEF Threads
<1>7. ASSUME NEW i \in 0 .. d - 1
      PROVE  /\ chunks[i + 1] = [k \in 1 .. ShareSize(i, n, d) |-> ShareBegin(i, n, d) + k]
             /\ ShareSize(i, n, d) \in Nat /\ ShareBegin(i, n, d) \in Nat
             /\ ShareBegin(i + 1, n, d) = ShareBegin(i, n, d) + ShareSize(i, n, d)
             /\ ShareBegin(i + 1, n, d) <= n
  <2>1. i \in Nat /\ i < d /\ i + 1 \in 1 .. d /\ (i + 1) - 1 = i
    BY <1>3
  <2>2. chunks[i + 1] = Chunk((i + 1) - 1, n, d)
    BY <1>2, <1>4, <2>1 DEF Chunks
  <2>3. chunks[i + 1] = Chunk(i, n, d)
    BY <2>1, <2>2
  <2>4. /\ Chunk(i, n, d) = [k \in 1 .. ShareSize(i, n, d) |-> ShareBegin(i, n, d) + k]
        /\ ShareSize(i, n, d) \in Nat /\ ShareBegin(i, n, d) \in Nat
        /\ ShareBegin(i, n, d) + ShareSize(i, n, d) <= n
    BY <1>3, <2>1, ChunkIsShare
  <2>5. ShareBegin(i + 1, n, d) = ShareBegin(i, n, d) + ShareSize(i, n, d)
    BY <1>3, <2>1, SharesTile
  <2> QED BY <2>3, <2>4, <2>5
<1>8. f \in 1 .. n
  BY <1>1 DEF TypeInv
<1>9. PICK i \in 0 .. d - 1 :
        /\ ShareBegin(i, n, d) < f /\ f <= ShareBegin(i + 1, n, d)
        /\ \A j \in 0 .. d - 1 :
             ShareBegin(j, n, d) < f /\ f <= ShareBegin(j + 1, n, d) => j = i
  BY <1>3, <1>8, OneShareEach
<1>10. PICK begin, size : begin = ShareBegin(i, n, d) /\ size = ShareSize(i, n, d)
  OBVIOUS
<1>11. /\ chunks[i + 1] = [k \in 1 .. size |-> begin + k] /\ begin \in Nat /\ size \in Nat
       /\ begin < f /\ f <= begin + size
  BY <1>7, <1>9, <1>10
<1>12. PICK p : p = <<i + 1, f - begin>>
  OBVIOUS
<1>13. p \in Places(f)
  <2>1. i + 1 \in 1 .. d /\ f - begin \in 1 .. n /\ f - begin \in 1 .. size
    BY <1>3, <1>8, <1>11
  <2>2. Len(chunks[i + 1]) = size /\ chunks[i + 1][f - begin] = f
    BY <1>8, <1>11, <2>1
  <2>3. f - begin <= size
    BY <2>1
  <2> QED BY <1>1, <1>6, <1>12, <2>1, <2>2, <2>3 DEF Places
<1>14. ASSUME NEW q \in Places(f) PROVE q = p
  <2>1. PICK t \in 1 .. d, k \in 1 .. n : q = <<t, k>> /\ k <= Len(chunks[t]) /\ chunks[t][k] = f
    BY <1>1, <1>6 DEF Places
  <2>2. PICK j \in 0 .. d - 1 : j = t - 1 /\ t = j + 1
    BY <1>3
  <2>3. PICK b, s : b = ShareBegin(j, n, d) /\ s = ShareSize(j, n, d)
    OBVIOUS
  <2>4. /\ chunks[t] = [h \in 1 .. s |-> b + h] /\ b \in Nat /\ s \in Nat
        /\ ShareBegin(j + 1, n, d) = b + s
    BY <1>7, <2>2, <2>3
  <2>5. k \in 1 .. s
    BY <2>1, <2>4
  <2>6. f = b + k
    BY <2>1, <2>4, <2>5
  <2>7. b < f /\ f <= b + s
    BY <2>4, <2>5, <2>6
  <2>8. j = i
    BY <1>9, <2>3, <2>4, <2>7
  <2>9. t = i + 1 /\ k = f - begin
    <3>1. b = begin
      BY <1>10, <2>3, <2>8
    <3> QED BY <1>11, <2>2, <2>4, <2>6, <2>8, <3>1
  <2> QED BY <1>12, <2>1, <2>9
<1> QED BY <1>13, <1>14

\* When the time is printed every thread is behind the end of its chunk.
LEMMA TimeIsAfterAll ==
  ASSUME IInv
  PROVE  TimeComesLast
<1> SUFFICES ASSUME pc = "ended"
             PROVE  /\ process = "running"
                    /\ out # << >> /\ out[Len(out)].text = <<"time", 0>>
                    /\ \A n \in 1 .. Len(out) - 1 : out[n].by \in Threads
                    /\ \A f \in DOMAIN files : \E p \in Places(f) : Places(f) = {p}
                    /\ \A t \in Threads : InsertedBy(t, out) = Listings(files, chunks[t], DOMAIN chunks[t])
  BY DEF TimeComesLast
<1>1. TypeInv /\ SplitInv /\ WorkerInv /\ RunInv /\ OutInv /\ ShareInv
  BY DEF IInv
<1>2. process = "running" /\ \A t \in Threads : ~ AtFile(t)
  BY <1>1 DEF RunInv
<1>3. /\ out # << >> /\ out[Len(out)].text = <<"time", 0>>
      /\ \A n \in 1 .. Len(out) - 1 : out[n].by \in Threads
  BY <1>1 DEF OutInv
<1>4. \A f \in DOMAIN files : \E p \in Places(f) : Places(f) = {p}
  BY <1>1, OnePlaceEach
<1>5. ASSUME NEW t \in Threads
      PROVE  InsertedBy(t, out) = Listings(files, chunks[t], DOMAIN chunks[t])
  <2>1. t \in Workers /\ chunks[t] \in Seq(1 .. Len(files))
    BY <1>1, ChunkFits
  <2>2. at[t] \in Nat
    BY <1>1, <2>1 DEF TypeInv
  <2>3. Holds(t) /\ at[t] <= Len(chunks[t]) + 1 /\ ~ (at[t] <= Len(chunks[t]))
    BY <1>1, <1>2, <2>1 DEF WorkerInv, AtFile
  <2>4. 1 .. at[t] - 1 = DOMAIN chunks[t]
    BY <2>1, <2>2, <2>3
  <2>5. doing[t] # "print"
    BY <1>2, <2>3 DEF Holds
  <2>6. InsertedBy(t, out) = Printed(t, DOMAIN chunks[t])
    BY <1>1, <1>2, <2>4 DEF ShareInv, Share
  <2> QED BY <2>5, <2>6 DEF Printed
<1> QED BY <1>2, <1>3, <1>4, <1>5

THEOREM TimeIsLast == Spec => []TimeComesLast
BY FreeRunInvariant, TimeIsAfterAll, PTL
=============================================================================
