------------------------- MODULE TrigramSearchProofs -------------------------
(***************************************************************************)
(* Proofs about TrigramSearch, for every alphabet, every set of names and  *)
(* queries, every scan and every number of symbols and references whose    *)
(* blocks 32 bits can measure: the tables give back what was put in, and   *)
(* an answer is exact.                                                     *)
(***************************************************************************)
EXTENDS TrigramSearch, SequenceTheorems, NumberLemmas

-----------------------------------------------------------------------------
(* The inductive invariant *)

Letter == 1..2 * Letters

Ref == [file_id : 0..Len(Files) - 1, is_defined : BOOLEAN]

Symbol == [name : Names, refs : Seq(Ref)]

\* The entries of an index, as far as they measure.
Entries == [offset : Nat, length : Nat]

\* What a table of items over S may be.
Laid(S) ==
  [index : Seq(Entries), blob : Seq(S), next : Nat,
   unit : Nat \ {0}, entry : Nat \ {0}]

\* The item is found behind the first k elements of blob.
Behind(blob, k, item, S) ==
  /\ k \in Nat /\ item \in Seq(S)
  /\ k + Len(item) <= Len(blob)
  /\ SubSeq(blob, k + 1, k + Len(item)) = item

\* The entry e of an index leads to item, where an element takes unit bytes.
Holds(blob, unit, e, item, S) ==
  \E k \in Nat :
    e.offset = k * unit /\ e.length = Len(item) * unit /\ Behind(blob, k, item, S)

\* Each of the n entries of the table leads to its item.
AllHeld(table, items, n, S) ==
  /\ table.next = Len(table.blob) * table.unit
  /\ \A i \in 1 .. n : Holds(table.blob, table.unit, table.index[i], items[i], S)

\* The table gives back each of the first n items, if 32 bits measure it.
IsLaid(table, items, n, S) ==
  /\ table \in Laid(S)
  /\ Len(table.index) = n
  /\ Fits(table) => AllHeld(table, items, n, S)

\* The blobs hold the names and the references of the symbols.
TablesInv ==
  /\ symtable \in Seq(Symbol)
  /\ IsLaid(blobs.names, [i \in 1 .. Len(symtable) |-> symtable[i].name], Len(symtable), Letter)
  /\ IsLaid(blobs.metadata, [i \in 1 .. Len(symtable) |-> symtable[i].refs], Len(symtable), Ref)

QueryInv ==
  /\ pc \in {"build", "idle", "count", "resolve", "answered", "refused", "undefined"}
  /\ query \in Seq(Letter)
  /\ codes \subseteq Trigrams(query)

\* The trigrams of the query found so far in the name of symbol id.
Shared(id) == (Trigrams(query) \ codes) \cap Trigrams(symtable[id + 1].name)

\* The counts are those of the trigrams looked up so far.
CountInv ==
  pc = "count" =>
    /\ query # << >> /\ results = {}
    /\ DOMAIN counts = {id \in Ids : Shared(id) # {}}
    /\ \A id \in DOMAIN counts : counts[id] = Cardinality(Shared(id))

\* Every symbol of the name asked for is a candidate or a result, if it was
\* stored.
ResultInv ==
  /\ AllFit => pc # "undefined"
  /\ pc \in {"resolve", "answered"} =>
    /\ candidates \subseteq Ids
    /\ \A r \in results : \E id \in Ids : r = Result(id)
    /\ \A id \in Ids : symtable[id + 1].name = query /\ ~Passed(id) =>
          id \in candidates \/ Result(id) \in results
    /\ pc = "answered" => candidates = {}

IInv == TablesInv /\ QueryInv /\ CountInv /\ ResultInv /\ NotFoundIsTrue

-----------------------------------------------------------------------------
(* Blobs *)

\* Appending leaves the stretches of a sequence where they are.
LEMMA StretchBefore ==
  ASSUME NEW S, NEW s \in Seq(S), NEW t \in Seq(S),
         NEW a \in Nat \ {0}, NEW b \in Nat, a <= b + 1, b <= Len(s)
  PROVE  SubSeq(s \o t, a, b) = SubSeq(s, a, b)
<1>1. Len(s) \in Nat
  BY LenProperties
<1>2. CASE a <= b
  <2>1. a \in 1 .. Len(s) /\ b \in 1 .. Len(s)
    BY <1>1, <1>2
  <2> QED BY <2>1, SubSeqOfConcat1
<1>3. CASE a > b
  <2>1. SubSeq(s \o t, a, b) = << >> /\ SubSeq(s, a, b) = << >>
    BY <1>3, SubSeqEmpty
  <2> QED BY <2>1
<1> QED BY <1>2, <1>3

\* What a blob holds it still holds when something is appended.
LEMMA BehindStill ==
  ASSUME NEW S, NEW s \in Seq(S), NEW t \in Seq(S), NEW k, NEW item, Behind(s, k, item, S)
  PROVE  Behind(s \o t, k, item, S)
<1> PICK l : l = Len(item)
  OBVIOUS
<1>1. k \in Nat /\ item \in Seq(S) /\ k + l <= Len(s) /\ SubSeq(s, k + 1, k + l) = item
  BY DEF Behind
<1>2. Len(s) \in Nat /\ Len(t) \in Nat /\ Len(s \o t) = Len(s) + Len(t) /\ l \in Nat
  BY <1>1, LenProperties, ConcatProperties
<1>3. k + l <= Len(s \o t)
  BY <1>1, <1>2
<1> PICK a : a = k + 1
  OBVIOUS
<1> PICK b : b = k + l
  OBVIOUS
<1>4. SubSeq(s \o t, a, b) = SubSeq(s, a, b)
  <2>1. a \in Nat \ {0} /\ b \in Nat /\ a <= b + 1 /\ b <= Len(s)
    BY <1>1, <1>2
  <2> QED BY <2>1, StretchBefore, SMTT(30)
<1> QED BY <1>1, <1>3, <1>4 DEF Behind

\* The same of what an entry leads to.
LEMMA HoldsStill ==
  ASSUME NEW S, NEW s \in Seq(S), NEW t \in Seq(S), NEW u, NEW e, NEW item, Holds(s, u, e, item, S)
  PROVE  Holds(s \o t, u, e, item, S)
<1>1. PICK k \in Nat : e.offset = k * u /\ e.length = Len(item) * u /\ Behind(s, k, item, S)
  BY DEF Holds
<1>2. Behind(s \o t, k, item, S)
  BY <1>1, BehindStill
<1> QED BY <1>1, <1>2, Zenon DEF Holds

\* What is appended is at the end.
LEMMA BehindLast ==
  ASSUME NEW S, NEW s \in Seq(S), NEW t \in Seq(S)
  PROVE  Behind(s \o t, Len(s), t, S)
<1> PICK k : k = Len(s)
  OBVIOUS
<1> PICK l : l = Len(t)
  OBVIOUS
<1> PICK a : a = k + 1
  OBVIOUS
<1> PICK b : b = k + l
  OBVIOUS
<1>1. k \in Nat /\ l \in Nat
  BY LenProperties
<1>2. SubSeq(s \o t, a, b) = t
  <2>1. CASE l > 0
    <3>1. a \in Len(s) + 1 .. Len(s) + Len(t) /\ b \in Len(s) + 1 .. Len(s) + Len(t)
      BY <1>1, <2>1
    <3>2. SubSeq(s \o t, a, b) = SubSeq(t, a - Len(s), b - Len(s))
      BY <3>1, SubSeqOfConcat2
    <3>3. a - Len(s) = 1 /\ b - Len(s) = Len(t)
      BY <1>1
    <3>4. SubSeq(t, 1, Len(t)) = t
      BY SubSeqFull
    <3> QED BY <3>2, <3>3, <3>4
  <2>2. CASE l = 0
    <3>1. a \in Int /\ b \in Int /\ b < a
      BY <1>1, <2>2
    <3>2. SubSeq(s \o t, a, b) = << >>
      BY <3>1, SubSeqEmpty
    <3>3. t = << >>
      BY <2>2, EmptySeq
    <3> QED BY <3>2, <3>3
  <2> QED BY <1>1, <2>1, <2>2
<1>3. Len(s \o t) = Len(s) + Len(t)
  BY ConcatProperties
<1>4. k + l <= Len(s \o t)
  BY <1>1, <1>3
<1> QED BY <1>1, <1>2, <1>4, Zenon DEF Behind

\* The index entry of the next item.
EntryOf(table, item) ==
  [offset |-> table.next, length |-> Uint32(Len(item) * table.unit)]

\* What Lay makes of each part of a table.
LEMMA LayParts ==
  ASSUME NEW S, NEW table \in Laid(S), NEW item \in Seq(S)
  PROVE  /\ Lay(table, item) \in Laid(S)
         /\ EntryOf(table, item) \in Entries
         /\ Lay(table, item).index = Append(table.index, EntryOf(table, item))
         /\ Lay(table, item).blob = table.blob \o item
         /\ Lay(table, item).next = Uint32(table.next + EntryOf(table, item).length)
         /\ Lay(table, item).unit = table.unit /\ Lay(table, item).entry = table.entry
<1> PICK e : e = EntryOf(table, item)
  OBVIOUS
<1> PICK new : new = Lay(table, item)
  OBVIOUS
<1> PICK X : X = Entries
  OBVIOUS
<1>1. /\ table.index \in Seq(X) /\ table.blob \in Seq(S) /\ table.next \in Nat
      /\ table.unit \in Nat \ {0} /\ table.entry \in Nat \ {0}
      /\ DOMAIN table = {"index", "blob", "next", "unit", "entry"}
  BY DEF Laid
<1>2. Len(item) * table.unit \in Nat
  <2>1. Len(item) \in Nat
    BY LenProperties
  <2> QED BY <1>1, <2>1, TimesGrows
<1>3. \A n \in Nat : Uint32(n) \in Nat
  <2> SUFFICES ASSUME NEW n \in Nat PROVE n % OffsetLimit \in Nat
    BY DEF Uint32
  <2>1. n % OffsetLimit \in 0 .. OffsetLimit - 1
    BY DivMod, SizesAssumption
  <2> QED BY <2>1, SizesAssumption
<1>4. e \in X /\ e.length = Uint32(Len(item) * table.unit) /\ e.length \in Nat
      /\ e = [offset |-> table.next, length |-> e.length]
  BY <1>1, <1>2, <1>3 DEF EntryOf, Entries
<1>5. Append(table.index, e) \in Seq(X)
  BY <1>1, <1>4, AppendProperties
<1>6. table.blob \o item \in Seq(S)
  BY <1>1, ConcatProperties
<1>7. table.next + e.length \in Nat
  BY <1>1, <1>4
<1>8. new = [table EXCEPT !.index = Append(@, e), !.blob = @ \o item,
                          !.next = Uint32(@ + e.length)]
  BY <1>4, Zenon DEF Lay
<1>9. /\ new.index = Append(table.index, e) /\ new.blob = table.blob \o item
      /\ new.next = Uint32(table.next + e.length)
      /\ new.unit = table.unit /\ new.entry = table.entry
  BY <1>1, <1>8
<1>10. new \in Laid(S)
  <2>1. new = [index |-> new.index, blob |-> new.blob, next |-> new.next,
               unit |-> new.unit, entry |-> new.entry]
    BY <1>1, <1>8
  <2>2. Uint32(table.next + e.length) \in Nat
    BY <1>3, <1>7
  <2> QED BY <1>1, <1>5, <1>6, <1>9, <2>1, <2>2 DEF Laid
<1> QED BY <1>4, <1>9, <1>10

\* A table that 32 bits measure after an item was laid was measured before;
\* the item starts at the end of the blob and keeps its length.
LEMMA LayFits ==
  ASSUME NEW S, NEW table \in Laid(S), NEW item \in Seq(S), Fits(Lay(table, item))
  PROVE  /\ Fits(table)
         /\ Uint32(Len(item) * table.unit) = Len(item) * table.unit
         /\ table.next = Len(table.blob) * table.unit =>
              Lay(table, item).next = Len(table.blob \o item) * table.unit
<1> PICK l : l = Len(item)
  OBVIOUS
<1> PICK b : b = Len(table.blob)
  OBVIOUS
<1> PICK u : u = table.unit
  OBVIOUS
<1> PICK e : e = EntryOf(table, item)
  OBVIOUS
<1> PICK new : new = Lay(table, item)
  OBVIOUS
<1> PICK k : k = Len(table.index)
  OBVIOUS
<1>1. /\ table.index \in Seq(Entries) /\ table.blob \in Seq(S)
      /\ u \in Nat \ {0} /\ table.entry \in Nat \ {0}
  BY DEF Laid
<1>2. l \in Nat /\ b \in Nat /\ k \in Nat
  BY <1>1, LenProperties
<1>3. /\ new.index = Append(table.index, e) /\ new.blob = table.blob \o item
      /\ new.next = Uint32(table.next + e.length)
      /\ new.unit = u /\ new.entry = table.entry /\ e \in Entries
  <2>1. /\ new.index = Append(table.index, e) /\ new.blob = table.blob \o item
        /\ new.next = Uint32(table.next + e.length)
        /\ new.unit = table.unit /\ new.entry = table.entry
        /\ e \in Entries
    BY LayParts, Zenon
  <2> QED BY <2>1, Zenon
<1>4. Len(new.blob) = b + l /\ Len(new.index) = k + 1
  <2>1. Len(table.blob \o item) = b + l
    BY <1>1, ConcatProperties
  <2>2. Len(Append(table.index, e)) = k + 1
    BY <1>1, <1>3, AppendProperties
  <2> QED BY <1>3, <2>1, <2>2
<1>5. (b + l) * u < OffsetLimit /\ (k + 1) * table.entry < OffsetLimit
  <2>1. Fits(new)
    OBVIOUS
  <2> QED BY <1>3, <1>4, <2>1 DEF Fits
<1>6. b * u \in Nat /\ l * u \in Nat /\ (b + l) * u \in Nat
      /\ b * u <= (b + l) * u /\ l * u <= (b + l) * u
  <2>1. b <= b + l /\ l <= b + l /\ b + l \in Nat /\ u \in Nat
    BY <1>1, <1>2
  <2> QED BY <1>2, <2>1, TimesGrows
<1>7. (b + l) * u = b * u + l * u
  <2>1. b \in Nat /\ l \in Nat /\ u \in Nat
    BY <1>1, <1>2
  <2> QED BY <2>1, TimesSum, Zenon
<1>8. k * table.entry \in Nat /\ k * table.entry <= (k + 1) * table.entry
      /\ (k + 1) * table.entry \in Nat
  <2>1. k <= k + 1 /\ k + 1 \in Nat /\ table.entry \in Nat
    BY <1>1, <1>2
  <2> QED BY <1>2, <2>1, TimesGrows
<1>9. OffsetLimit \in Nat \ {0}
  BY SizesAssumption
<1>10. Fits(table)
  <2>1. b * u < OffsetLimit /\ k * table.entry < OffsetLimit
    BY <1>5, <1>6, <1>8, <1>9
  <2> QED BY <2>1 DEF Fits
<1>11. Uint32(l * u) = l * u
  <2>1. l * u < OffsetLimit
    BY <1>5, <1>6, <1>9
  <2> QED BY <1>6, <1>9, <2>1, SmallMod DEF Uint32
<1>12. ASSUME table.next = b * u PROVE new.next = (b + l) * u
  <2>1. table.next + e.length = (b + l) * u
    <3>1. e.length = l * u
      BY <1>11 DEF EntryOf
    <3> QED BY <1>7, <1>12, <3>1
  <2>2. Uint32((b + l) * u) = (b + l) * u
    BY <1>5, <1>6, <1>9, SmallMod DEF Uint32
  <2> QED BY <1>3, <2>1, <2>2
<1> QED BY <1>3, <1>4, <1>10, <1>11, <1>12

\* An item laid behind the others leaves these where they are.
LEMMA LayOne ==
  ASSUME NEW S, NEW n \in Nat, NEW items, NEW more, NEW table, IsLaid(table, items, n, S),
         NEW item \in Seq(S), \A i \in 1 .. n : more[i] = items[i], more[n + 1] = item
  PROVE  IsLaid(Lay(table, item), more, n + 1, S)
<1> PICK e : e = EntryOf(table, item)
  OBVIOUS
<1> PICK new : new = Lay(table, item)
  OBVIOUS
<1> PICK X : X = Entries
  OBVIOUS
<1>1. table \in Laid(S) /\ Len(table.index) = n
  BY DEF IsLaid
<1>2. table.index \in Seq(X) /\ table.blob \in Seq(S) /\ table.unit \in Nat \ {0}
  BY <1>1 DEF Laid
<1>3. /\ new \in Laid(S) /\ e \in X
      /\ new.index = Append(table.index, e) /\ new.blob = table.blob \o item
      /\ new.unit = table.unit
  <2>1. /\ new \in Laid(S) /\ e \in Entries
        /\ new.index = Append(table.index, e) /\ new.blob = table.blob \o item
        /\ new.unit = table.unit
    <3>1. table \in Laid(S)
      BY <1>1
    <3>2. /\ Lay(table, item) \in Laid(S) /\ EntryOf(table, item) \in Entries
          /\ Lay(table, item).index = Append(table.index, EntryOf(table, item))
          /\ Lay(table, item).blob = table.blob \o item
          /\ Lay(table, item).unit = table.unit
      BY <3>1, LayParts, SMTT(30)
    <3> QED BY <3>2, SMT
  <2> QED BY <2>1, Zenon
<1>4. /\ Len(Append(table.index, e)) = n + 1
      /\ (\A i \in 1 .. n : Append(table.index, e)[i] = table.index[i])
      /\ Append(table.index, e)[n + 1] = e
  BY <1>1, <1>2, <1>3, AppendProperties
<1>5. ASSUME Fits(new) PROVE AllHeld(new, more, n + 1, S)
  <2>1. /\ Fits(table) /\ Uint32(Len(item) * table.unit) = Len(item) * table.unit
        /\ (table.next = Len(table.blob) * table.unit =>
              new.next = Len(table.blob \o item) * table.unit)
    BY <1>1, <1>5, LayFits, Zenon
  <2>2. /\ table.next = Len(table.blob) * table.unit
        /\ \A i \in 1 .. n : Holds(table.blob, table.unit, table.index[i], items[i], S)
    BY <2>1, Zenon DEF IsLaid, AllHeld
  <2>3. new.next = Len(new.blob) * new.unit
    BY <1>3, <2>1, <2>2, Zenon
  <2>4. ASSUME NEW i \in 1 .. n
        PROVE  Holds(new.blob, new.unit, new.index[i], more[i], S)
    <3>1. Holds(table.blob \o item, table.unit, table.index[i], items[i], S)
      BY <1>2, <2>2, HoldsStill, Zenon
    <3>2. new.index[i] = table.index[i] /\ items[i] = more[i]
      BY <1>3, <1>4
    <3> QED BY <1>3, <3>1, <3>2, Zenon
  <2>5. Holds(new.blob, new.unit, new.index[n + 1], more[n + 1], S)
    <3>1. Behind(table.blob \o item, Len(table.blob), item, S) /\ Len(table.blob) \in Nat
      BY <1>2, BehindLast, LenProperties
    <3>2. e.offset = Len(table.blob) * table.unit /\ e.length = Len(item) * table.unit
      BY <2>1, <2>2 DEF EntryOf
    <3>3. Holds(table.blob \o item, table.unit, e, item, S)
      BY <3>1, <3>2, Zenon DEF Holds
    <3> QED BY <1>3, <1>4, <3>3, Zenon
  <2>6. ASSUME NEW i \in 1 .. n + 1
        PROVE  Holds(new.blob, new.unit, new.index[i], more[i], S)
    <3>1. CASE i = n + 1
      BY <2>5, <3>1, Zenon
    <3>2. CASE i # n + 1
      <4>1. i \in 1 .. n
        BY <3>2
      <4> QED BY <2>4, <4>1, Zenon
    <3> QED BY <3>1, <3>2
  <2> QED BY <2>3, <2>6, Zenon DEF AllHeld
<1>6. Len(new.index) = n + 1
  BY <1>3, <1>4
<1> QED BY <1>3, <1>5, <1>6, Zenon DEF IsLaid

\* Nothing laid out.
LEMMA LayNone ==
  ASSUME NEW S, NEW items, NEW unit \in Nat \ {0}, NEW entry \in Nat \ {0}
  PROVE  IsLaid(Table(unit, entry), items, 0, S)
<1>1. Table(unit, entry) \in Laid(S) /\ Len(Table(unit, entry).index) = 0
  BY DEF Table, Laid
<1>2. Table(unit, entry).next = 0 /\ Len(Table(unit, entry).blob) = 0
      /\ Table(unit, entry).unit = unit
  BY DEF Table
<1>3. 0 * unit = 0
  OBVIOUS
<1>4. AllHeld(Table(unit, entry), items, 0, S)
  BY <1>2, <1>3 DEF AllHeld
<1> QED BY <1>1, <1>4 DEF IsLaid

\* All names of a scan come back from the blob they are laid out in.
LEMMA LaidOutRight ==
  ASSUME NEW S, NEW items \in Seq(Seq(S)), NEW entry \in Nat \ {0}
  PROVE  IsLaid(LaidOut(items, entry), items, Len(items), S)
<1> DEFINE N == Len(items)
           None == Table(1, entry)
           step == [p \in (1 .. N) \X Laid(S) |-> Lay(p[2], items[p[1]])]
<1>0. N \in Nat /\ \A n \in 1 .. N : items[n] \in Seq(S)
  BY LenProperties, ElementOfSeq
<1>1. None \in Laid(S) /\ IsLaid(None, items, 0, S)
  <2>1. IsLaid(None, items, 0, S)
    BY LayNone
  <2> QED BY <2>1 DEF IsLaid
<1>2. ASSUME NEW laid \in Laid(S), NEW item \in Seq(S) PROVE Lay(laid, item) \in Laid(S)
  BY LayParts, Zenon
<1> HIDE DEF None
<1>3. step \in Steps(N, Laid(S))
  BY <1>0, <1>2 DEF Steps
<1>4. \A n \in 1 .. N, laid \in Laid(S) : step[<< n, laid >>] = Lay(laid, items[n])
  OBVIOUS
<1> HIDE DEF step, N
<1>5. PICK f : IsLoop(f, N, Laid(S), None, step)
  BY <1>0, <1>1, <1>3, LoopDefined
<1> DEFINE g == [n \in 0 .. N |-> IF n = 0 THEN None ELSE Lay(f[n - 1], items[n])]
<1>6. ASSUME NEW n \in 0 .. N PROVE f[n] = g[n]
  <2>1. CASE n = 0
    BY <1>5, <2>1 DEF IsLoop
  <2>2. CASE n # 0
    <3>1. n \in 1 .. N /\ n - 1 \in 0 .. N
      BY <1>0, <2>2
    <3>2. f[n] = step[<< n, f[n - 1] >>] /\ f[n - 1] \in Laid(S)
      BY <1>5, <3>1 DEF IsLoop
    <3> QED BY <1>4, <2>2, <3>1, <3>2
  <2> QED BY <2>1, <2>2
<1>7. f = g
  <2>1. f = [n \in 0 .. N |-> f[n]] /\ g = [n \in 0 .. N |-> g[n]]
    BY <1>5 DEF IsLoop
  <2> HIDE DEF g
  <2> QED BY <1>6, <2>1
<1> DEFINE laid == CHOOSE h : h = [n \in 0 .. N |-> IF n = 0 THEN None ELSE Lay(h[n - 1], items[n])]
<1>8. laid = [n \in 0 .. N |-> IF n = 0 THEN None ELSE Lay(laid[n - 1], items[n])]
  BY <1>7, Zenon
<1>9. LaidOut(items, entry) = laid[N]
  BY DEF LaidOut, N, None
<1> HIDE DEF laid
<1> DEFINE Q == {n \in Nat : n <= N => IsLaid(laid[n], items, n, S)}
<1>10. 0 \in Q
  BY <1>0, <1>1, <1>8
<1>11. ASSUME NEW n \in Nat, n \in Q PROVE n + 1 \in Q
  <2> SUFFICES ASSUME n + 1 <= N PROVE IsLaid(laid[n + 1], items, n + 1, S)
    OBVIOUS
  <2>1. IsLaid(laid[n], items, n, S)
    BY <1>0, <1>11
  <2>2. n + 1 \in 1 .. N /\ n + 1 # 0 /\ (n + 1) - 1 = n /\ n + 1 \in 0 .. N
    BY <1>0
  <2>3. laid[n + 1] = Lay(laid[n], items[n + 1])
    BY <1>8, <2>2
  <2> QED BY <1>0, <2>1, <2>2, <2>3, LayOne
<1> HIDE DEF Q
<1>12. N \in Q
  BY <1>0, <1>10, <1>11, InductiveSetHasAll
<1> QED BY <1>0, <1>9, <1>12 DEF Q, N

\* Entry i of an index leads to item i, and within what is stored.
LEMMA StretchOfLaid ==
  ASSUME NEW S, NEW table, NEW items, NEW n \in Nat, IsLaid(table, items, n, S), Fits(table),
         NEW i \in 0 .. n - 1
  PROVE  Stretch(table, i) = items[i + 1] /\ Readable(table, i)
<1> PICK e : e = table.index[i + 1]
  OBVIOUS
<1> PICK u : u = table.unit
  OBVIOUS
<1> PICK item : item = items[i + 1]
  OBVIOUS
<1> PICK l : l = Len(item)
  OBVIOUS
<1> PICK b : b = Len(table.blob)
  OBVIOUS
<1>1. table \in Laid(S) /\ Len(table.index) = n
  BY DEF IsLaid
<1>2. table.blob \in Seq(S) /\ u \in Nat \ {0} /\ table.entry \in Nat \ {0}
  BY <1>1 DEF Laid
<1>3. i + 1 \in 1 .. n /\ i + 1 \in Nat /\ i + 1 <= n
  OBVIOUS
<1>4. Holds(table.blob, u, e, item, S)
  BY <1>3, Zenon DEF IsLaid, AllHeld
<1>5. PICK k \in Nat : e.offset = k * u /\ e.length = l * u /\ Behind(table.blob, k, item, S)
  BY <1>4, Zenon DEF Holds
<1>6. item \in Seq(S) /\ k + l <= b /\ SubSeq(table.blob, k + 1, k + l) = item
  BY <1>5, Zenon DEF Behind
<1>7. l \in Nat /\ b \in Nat
  BY <1>2, <1>6, LenProperties
<1>8. Stretch(table, i) = item
  <2>1. (k * u) \div u = k /\ (l * u) \div u = l
    BY <1>2, <1>7, TimesDiv
  <2>2. Stretch(table, i)
          = SubSeq(table.blob, (k * u) \div u + 1, (k * u) \div u + (l * u) \div u)
    BY <1>5, Zenon DEF Stretch
  <2> QED BY <1>6, <2>1, <2>2, Zenon
<1>9. OffsetLimit \in Nat \ {0} /\ b * u < OffsetLimit
  BY <1>1, SizesAssumption DEF Fits
<1>10. e.offset % u = 0
  BY <1>2, <1>5, TimesDiv
<1>11. e.offset + e.length <= Uint32(b * u)
  <2>1. k + l \in Nat /\ u \in Nat
    BY <1>2, <1>7
  <2>2. b * u \in Nat /\ (k + l) * u <= b * u
    BY <1>6, <1>7, <2>1, TimesGrows
  <2>3. Uint32(b * u) = b * u
    BY <1>9, <2>2, SmallMod DEF Uint32
  <2>4. e.offset + e.length = (k + l) * u
    BY <1>2, <1>5, <1>7, TimesSum
  <2> QED BY <2>2, <2>3, <2>4
<1>12. Readable(table, i)
  BY <1>10, <1>11, Zenon DEF Readable
<1> QED BY <1>8, <1>12

\* All entries of an index that 32 bits measure are stored.
LEMMA AllStored ==
  ASSUME NEW S, NEW table, NEW items, NEW n \in Nat, IsLaid(table, items, n, S), Fits(table)
  PROVE  Stored(table) = n
<1> PICK m : m = table.entry
  OBVIOUS
<1>1. table \in Laid(S) /\ Len(table.index) = n
  BY DEF IsLaid
<1>2. m \in Nat \ {0}
  BY <1>1 DEF Laid
<1>3. OffsetLimit \in Nat \ {0} /\ n * m < OffsetLimit
  BY <1>1, SizesAssumption DEF Fits
<1>4. (n * m) \div m = n /\ n * m \in Nat
  <2>1. n * m \in Nat
    BY <1>2
  <2> QED BY <1>2, <2>1, TimesDiv
<1>5. Uint32(n * m) = n * m
  BY <1>3, <1>4, SmallMod DEF Uint32
<1> QED BY <1>1, <1>4, <1>5, Zenon DEF Stored

\* The path that the tables give for a file is the path of that file, and
\* reading it stays within the tables.
LEMMA PathsBack ==
  ASSUME NEW f \in 0 .. Len(Files) - 1, Fits(FileNames), Fits(PathNames)
  PROVE  /\ FullPath(f) = PathOfFile(f + 1)
         /\ f < Stored(FileNames) /\ Readable(FileNames, f)
         /\ Readable(PathNames, Files[f + 1].path_id)
<1> DEFINE names == [g \in DOMAIN Files |-> Files[g].name]
           F == [path_id : 0..Len(Paths) - 1, name : Seq(Chars \ {Slash})]
<1>1. Paths \in Seq(Seq(Chars)) /\ Files \in Seq(F)
  BY FilesAssumption
<1>2. Len(Files) \in Nat /\ DOMAIN Files = 1 .. Len(Files) /\ \A g \in 1 .. Len(Files) : Files[g] \in F
  BY <1>1, LenProperties, ElementOfSeq
<1>3. names \in Seq(Seq(Chars \ {Slash})) /\ Len(names) = Len(Files)
  <2>1. \A g \in 1 .. Len(Files) : Files[g].name \in Seq(Chars \ {Slash})
    BY <1>2
  <2>2. names \in [1 .. Len(Files) -> Seq(Chars \ {Slash})]
    BY <1>2, <2>1
  <2> QED BY <1>2, <2>2
<1>4. f + 1 \in 1 .. Len(Files) /\ names[f + 1] = Files[f + 1].name
  BY <1>2
<1>5. Files[f + 1].path_id \in 0 .. Len(Paths) - 1
  BY <1>2, <1>4
<1>6. Len(Paths) \in Nat
  BY <1>1, LenProperties
<1>7. EntrySize.file \in Nat \ {0} /\ EntrySize.path \in Nat \ {0}
  BY SizesAssumption
<1>8. FileNames = LaidOut(names, EntrySize.file)
  BY Zenon DEF FileNames
<1> HIDE DEF names
<1>9. Stretch(FileNames, f) = names[f + 1] /\ Readable(FileNames, f) /\ f < Stored(FileNames)
  <2>1. IsLaid(FileNames, names, Len(Files), Chars \ {Slash})
    BY <1>3, <1>7, <1>8, LaidOutRight, Zenon
  <2>2. Stored(FileNames) = Len(Files)
    BY <1>2, <2>1, AllStored, Zenon
  <2>3. f < Len(Files)
    BY <1>2
  <2>4. Stretch(FileNames, f) = names[f + 1] /\ Readable(FileNames, f)
    BY <1>2, <2>1, StretchOfLaid
  <2> QED BY <2>2, <2>3, <2>4
<1>10. /\ Stretch(PathNames, Files[f + 1].path_id) = Paths[Files[f + 1].path_id + 1]
       /\ Readable(PathNames, Files[f + 1].path_id)
       /\ Files[f + 1].path_id < Stored(PathNames)
  <2>1. IsLaid(LaidOut(Paths, EntrySize.path), Paths, Len(Paths), Chars)
    BY <1>1, <1>7, LaidOutRight, Zenon
  <2>2. IsLaid(PathNames, Paths, Len(Paths), Chars)
    BY <2>1, Zenon DEF PathNames
  <2>3. Stored(PathNames) = Len(Paths)
    BY <1>6, <2>2, AllStored, Zenon
  <2>4. Files[f + 1].path_id < Len(Paths)
    BY <1>5, <1>6
  <2>5. /\ Stretch(PathNames, Files[f + 1].path_id) = Paths[Files[f + 1].path_id + 1]
        /\ Readable(PathNames, Files[f + 1].path_id)
    BY <1>5, <1>6, <2>2, StretchOfLaid
  <2> QED BY <2>3, <2>4, <2>5
<1>11. FullPath(f) = Join(Paths[Files[f + 1].path_id + 1], names[f + 1])
  BY <1>9, <1>10, Zenon DEF FullPath
<1> QED BY <1>4, <1>9, <1>10, <1>11, Zenon DEF PathOfFile

-----------------------------------------------------------------------------
(* References *)

\* What a sequence holds once one more element is appended.
LEMMA RangeAppend ==
  ASSUME NEW S, NEW s \in Seq(S), NEW e \in S
  PROVE  Range(Append(s, e)) = Range(s) \cup {e}
<1>1. /\ Append(s, e) \in Seq(S) /\ Len(Append(s, e)) = Len(s) + 1
      /\ (\A i \in 1 .. Len(s) : Append(s, e)[i] = s[i]) /\ Append(s, e)[Len(s) + 1] = e
  BY AppendProperties
<1>2. Len(s) \in Nat /\ DOMAIN s = 1 .. Len(s) /\ DOMAIN Append(s, e) = 1 .. Len(s) + 1
  BY <1>1, LenProperties
<1>3. ASSUME NEW x \in Range(Append(s, e)) PROVE x \in Range(s) \cup {e}
  <2> PICK i \in 1 .. Len(s) + 1 : x = Append(s, e)[i]
    BY <1>2, <1>3 DEF Range
  <2>1. CASE i = Len(s) + 1
    BY <1>1, <2>1
  <2>2. CASE i # Len(s) + 1
    <3>1. i \in 1 .. Len(s)
      BY <1>2, <2>2
    <3> QED BY <1>1, <1>2, <3>1 DEF Range
  <2> QED BY <2>1, <2>2
<1>4. ASSUME NEW x \in Range(s) PROVE x \in Range(Append(s, e))
  <2> PICK i \in 1 .. Len(s) : x = s[i]
    BY <1>2, <1>4 DEF Range
  <2>1. i \in 1 .. Len(s) + 1
    BY <1>2
  <2> QED BY <1>1, <1>2, <2>1 DEF Range
<1>5. e \in Range(Append(s, e))
  <2>1. Len(s) + 1 \in 1 .. Len(s) + 1
    BY <1>2
  <2> QED BY <1>1, <1>2, <2>1 DEF Range
<1> QED BY <1>3, <1>4, <1>5

\* The loop over the references of a symbol keeps those that are taken.
LEMMA KeptRight ==
  ASSUME NEW name, NEW refs \in Seq(Ref)
  PROVE  /\ Kept(name, refs) \in Seq(Ref)
         /\ Range(Kept(name, refs)) = {x \in Range(refs) : Taken(name, x)}
<1> DEFINE N == Len(refs)
           step == [p \in (1 .. N) \X Seq(Ref) |->
                      IF Taken(name, refs[p[1]]) THEN Append(p[2], refs[p[1]]) ELSE p[2]]
<1>0. N \in Nat /\ DOMAIN refs = 1 .. N /\ \A n \in 1 .. N : refs[n] \in Ref
  BY LenProperties, ElementOfSeq
<1>1. << >> \in Seq(Ref)
  OBVIOUS
<1>2. ASSUME NEW n \in 1 .. N, NEW s \in Seq(Ref)
      PROVE  (IF Taken(name, refs[n]) THEN Append(s, refs[n]) ELSE s) \in Seq(Ref)
  <2>1. Append(s, refs[n]) \in Seq(Ref)
    BY <1>0, AppendProperties
  <2> QED BY <2>1
<1>3. step \in Steps(N, Seq(Ref))
  BY <1>2 DEF Steps
<1>4. \A n \in 1 .. N, s \in Seq(Ref) :
        step[<< n, s >>] = IF Taken(name, refs[n]) THEN Append(s, refs[n]) ELSE s
  OBVIOUS
<1> HIDE DEF step, N
<1>5. PICK f : IsLoop(f, N, Seq(Ref), << >>, step)
  BY <1>0, <1>1, <1>3, LoopDefined
<1> DEFINE g == [n \in 0 .. N |->
                   IF n = 0 THEN << >>
                   ELSE IF Taken(name, refs[n]) THEN Append(f[n - 1], refs[n]) ELSE f[n - 1]]
<1>6. ASSUME NEW n \in 0 .. N PROVE f[n] = g[n]
  <2>1. CASE n = 0
    BY <1>5, <2>1 DEF IsLoop
  <2>2. CASE n # 0
    <3>1. n \in 1 .. N /\ n - 1 \in 0 .. N
      BY <1>0, <2>2
    <3>2. f[n] = step[<< n, f[n - 1] >>] /\ f[n - 1] \in Seq(Ref)
      BY <1>5, <3>1 DEF IsLoop
    <3> QED BY <1>4, <2>2, <3>1, <3>2
  <2> QED BY <2>1, <2>2
<1>7. f = g
  <2>1. f = [n \in 0 .. N |-> f[n]] /\ g = [n \in 0 .. N |-> g[n]]
    BY <1>5 DEF IsLoop
  <2> HIDE DEF g
  <2> QED BY <1>6, <2>1
<1> DEFINE kept == CHOOSE h : h = [n \in 0 .. N |->
                     IF n = 0 THEN << >>
                     ELSE IF Taken(name, refs[n]) THEN Append(h[n - 1], refs[n]) ELSE h[n - 1]]
<1>8. kept = [n \in 0 .. N |->
                IF n = 0 THEN << >>
                ELSE IF Taken(name, refs[n]) THEN Append(kept[n - 1], refs[n]) ELSE kept[n - 1]]
  BY <1>7, Zenon
<1>9. Kept(name, refs) = kept[N]
  BY DEF Kept, N
<1> HIDE DEF kept
<1> DEFINE Seen(n) == {refs[i] : i \in 1 .. n}
           Right(n) == kept[n] \in Seq(Ref) /\ Range(kept[n]) = {x \in Seen(n) : Taken(name, x)}
           Q == {n \in Nat : n <= N => Right(n)}
<1>10. Right(0)
  <2>1. kept[0] = << >>
    BY <1>0, <1>8
  <2>2. Range(<< >>) = {} /\ Seen(0) = {}
    BY DEF Range
  <2> HIDE DEF Seen
  <2> QED BY <1>1, <2>1, <2>2
<1>11. ASSUME NEW n \in Nat, n + 1 <= N, Right(n) PROVE Right(n + 1)
  <2>1. n + 1 \in 1 .. N /\ n + 1 # 0 /\ (n + 1) - 1 = n /\ n + 1 \in 0 .. N
    BY <1>0, <1>11
  <2>2. kept[n + 1] = IF Taken(name, refs[n + 1]) THEN Append(kept[n], refs[n + 1]) ELSE kept[n]
    BY <1>8, <2>1
  <2>3. Seen(n + 1) = Seen(n) \cup {refs[n + 1]}
    OBVIOUS
  <2>4. refs[n + 1] \in Ref /\ kept[n] \in Seq(Ref)
        /\ Range(kept[n]) = {x \in Seen(n) : Taken(name, x)}
    BY <1>0, <1>11, <2>1
  <2> HIDE DEF Seen
  <2>5. CASE Taken(name, refs[n + 1])
    <3>1. Range(Append(kept[n], refs[n + 1])) = Range(kept[n]) \cup {refs[n + 1]}
          /\ Append(kept[n], refs[n + 1]) \in Seq(Ref)
      BY <2>4, RangeAppend, AppendProperties
    <3> QED BY <2>2, <2>3, <2>4, <2>5, <3>1
  <2>6. CASE ~Taken(name, refs[n + 1])
    BY <2>2, <2>3, <2>4, <2>6
  <2> QED BY <2>5, <2>6
<1>12. 0 \in Q
  BY <1>0, <1>10
<1>13. ASSUME NEW n \in Nat, n \in Q PROVE n + 1 \in Q
  <2> HIDE DEF Right
  <2> SUFFICES ASSUME n + 1 <= N PROVE Right(n + 1)
    OBVIOUS
  <2>1. n <= N
    BY <1>0
  <2> QED BY <1>11, <1>13, <2>1
<1> HIDE DEF Q
<1>14. N \in Q
  BY <1>0, <1>12, <1>13, InductiveSetHasAll
<1>15. Right(N)
  <2> HIDE DEF Right
  <2> QED BY <1>0, <1>14 DEF Q
<1>16. Seen(N) = Range(refs)
  BY <1>0 DEF Range
<1> QED BY <1>9, <1>15, <1>16

-----------------------------------------------------------------------------
(* Trigrams *)

\* A name has finitely many trigrams, and none only if it is empty.
LEMMA TrigramsOfWord ==
  ASSUME NEW word \in Seq(Letter)
  PROVE  IsFiniteSet(Trigrams(word)) /\ (word # << >> <=> Trigrams(word) # {})
<1> DEFINE at(i) == << At(word, i), At(word, i + 1), At(word, i + 2) >>
           W == (0 - 1) .. Len(word)
<1>1. Len(word) \in Nat
  BY LenProperties
<1>2. CASE word = << >>
  <2>1. Trigrams(word) = {}
    BY <1>2 DEF Trigrams
  <2> QED BY <1>2, <2>1, FS_EmptySet
<1>3. CASE word # << >>
  <2>1. Trigrams(word) = {at(i) : i \in W}
    BY <1>3 DEF Trigrams
  <2>2. IsFiniteSet(W)
    BY <1>1, FS_Interval
  <2>3. 0 \in W
    BY <1>1
  <2> DEFINE h == [i \in W |-> at(i)]
             T == {at(i) : i \in W}
  <2>4. IsFiniteSet(T)
    <3>1. h \in Surjection(W, T)
      BY DEF Surjection
    <3> HIDE DEF h, W, T
    <3> QED BY <2>2, <3>1, FS_Surjection
  <2>5. at(0) \in T
    BY <2>3
  <2> HIDE DEF T, at
  <2> QED BY <1>3, <2>1, <2>4, <2>5 DEF T
<1> QED BY <1>2, <1>3

-----------------------------------------------------------------------------
(* The tables *)

\* The references that one turn may add are references.
LEMMA RefsAreRefs == Refs \subseteq Seq(Ref)
<1> SUFFICES ASSUME NEW refs \in Refs PROVE refs \in Seq(Ref)
  OBVIOUS
<1>1. PICK n \in 1 .. MaxRefs : refs \in [1 .. n -> Ref]
  BY DEF Refs, Ref
<1>2. n \in Nat
  BY BoundsAssumption
<1> QED BY <1>1, <1>2

\* One turn of the loop over the symbol table keeps the tables right.
LEMMA AddSymbolTables == TablesInv /\ AddSymbol => TablesInv'
<1> SUFFICES ASSUME TablesInv, AddSymbol PROVE TablesInv'
  OBVIOUS
<1> DEFINE N == Len(symtable)
<1>1. PICK name \in Names, refs \in Refs :
        /\ symtable' = Append(symtable, [name |-> name, refs |-> refs])
        /\ blobs' = [names |-> Lay(blobs.names, name), metadata |-> Lay(blobs.metadata, refs)]
  BY DEF AddSymbol
<1> DEFINE sym == [name |-> name, refs |-> refs]
           more == Append(symtable, sym)
<1>2. name \in Seq(Letter) /\ refs \in Seq(Ref)
  BY NamesAssumption, RefsAreRefs DEF Letter
<1>3. sym \in Symbol /\ sym.name = name /\ sym.refs = refs
  BY <1>2 DEF Symbol
<1>4. symtable \in Seq(Symbol) /\ N \in Nat
  BY LenProperties DEF TablesInv
<1> HIDE DEF sym
<1>5. /\ more \in Seq(Symbol) /\ Len(more) = N + 1
      /\ (\A i \in 1 .. N : more[i] = symtable[i]) /\ more[N + 1] = sym
  BY <1>3, <1>4, AppendProperties
<1>6. symtable' = more
  BY <1>1 DEF sym
<1> HIDE DEF more, N
<1>7. IsLaid(Lay(blobs.names, name), [i \in 1 .. N + 1 |-> more[i].name], N + 1, Letter)
  <2> DEFINE a == [i \in 1 .. N |-> symtable[i].name]
             b == [i \in 1 .. N + 1 |-> more[i].name]
  <2>1. (\A i \in 1 .. N : b[i] = a[i]) /\ b[N + 1] = name
    BY <1>3, <1>4, <1>5
  <2>2. IsLaid(blobs.names, a, N, Letter)
    BY DEF TablesInv, N
  <2> HIDE DEF a, b
  <2>3. IsLaid(Lay(blobs.names, name), b, N + 1, Letter)
    BY <1>2, <1>4, <2>1, <2>2, LayOne
  <2> QED BY <2>3 DEF b
<1>8. IsLaid(Lay(blobs.metadata, refs), [i \in 1 .. N + 1 |-> more[i].refs], N + 1, Ref)
  <2> DEFINE a == [i \in 1 .. N |-> symtable[i].refs]
             b == [i \in 1 .. N + 1 |-> more[i].refs]
  <2>1. (\A i \in 1 .. N : b[i] = a[i]) /\ b[N + 1] = refs
    BY <1>3, <1>4, <1>5
  <2>2. IsLaid(blobs.metadata, a, N, Ref)
    BY DEF TablesInv, N
  <2> HIDE DEF a, b
  <2>3. IsLaid(Lay(blobs.metadata, refs), b, N + 1, Ref)
    BY <1>2, <1>4, <2>1, <2>2, LayOne
  <2> QED BY <2>3 DEF b
<1>9. blobs'.names = Lay(blobs.names, name) /\ blobs'.metadata = Lay(blobs.metadata, refs)
  BY <1>1
<1>10. /\ IsLaid(blobs'.names, [i \in 1 .. Len(symtable') |-> symtable'[i].name], Len(symtable'), Letter)
       /\ IsLaid(blobs'.metadata, [i \in 1 .. Len(symtable') |-> symtable'[i].refs], Len(symtable'), Ref)
  BY <1>5, <1>6, <1>7, <1>8, <1>9
<1>11. symtable' \in Seq(Symbol)
  BY <1>5, <1>6
<1> QED BY <1>10, <1>11 DEF TablesInv

\* The blocks give every symbol its own name and references back.
LEMMA TablesRight == TablesInv => TablesRoundTrip
<1> SUFFICES ASSUME TablesInv, Fits(blobs.names), Fits(blobs.metadata), NEW id \in Ids
             PROVE  /\ Readable(blobs.names, id) /\ Readable(blobs.metadata, id)
                    /\ NameOf(id) = symtable[id + 1].name
                    /\ RefsOf(id) = symtable[id + 1].refs
  BY DEF TablesRoundTrip
<1> DEFINE N == Len(symtable)
           a == [i \in 1 .. N |-> symtable[i].name]
           b == [i \in 1 .. N |-> symtable[i].refs]
<1>1. N \in Nat
  BY LenProperties DEF TablesInv
<1>2. id \in 0 .. N - 1 /\ id + 1 \in 1 .. N
  BY <1>1 DEF Ids
<1>3. a[id + 1] = symtable[id + 1].name /\ b[id + 1] = symtable[id + 1].refs
  BY <1>2
<1>4. IsLaid(blobs.names, a, N, Letter) /\ IsLaid(blobs.metadata, b, N, Ref)
  BY DEF TablesInv
<1> HIDE DEF a, b, N
<1>5. Stretch(blobs.names, id) = a[id + 1] /\ Readable(blobs.names, id)
  BY <1>1, <1>2, <1>4, StretchOfLaid
<1>6. Stretch(blobs.metadata, id) = b[id + 1] /\ Readable(blobs.metadata, id)
  BY <1>1, <1>2, <1>4, StretchOfLaid
<1> QED BY <1>3, <1>5, <1>6 DEF NameOf, RefsOf

-----------------------------------------------------------------------------
(* The answer *)

\* What a candidate adds to the answer: the files that define it if its name
\* is the one asked for, and nothing otherwise.
LEMMA ResultExact ==
  ASSUME TablesInv, AllFit, NEW id \in Ids
  PROVE  /\ Range(Result(id).references) =
              {PathOfFile(ref.file_id + 1) :
                 ref \in {x \in Range(symtable[id + 1].refs) : Wanted(symtable[id + 1].name, x)}}
         /\ Legible(id)
<1> DEFINE name == symtable[id + 1].name
           refs == symtable[id + 1].refs
           kept == Kept(name, refs)
           paths == [i \in DOMAIN kept |-> FullPath(kept[i].file_id)]
           Good == {x \in Range(refs) : Wanted(name, x)}
<1>1. refs \in Seq(Ref)
  <2>1. id + 1 \in 1 .. Len(symtable) /\ symtable \in Seq(Symbol)
    BY LenProperties DEF TablesInv, Ids
  <2>2. symtable[id + 1] \in Symbol
    BY <2>1, ElementOfSeq
  <2> QED BY <2>2 DEF Symbol
<1>2. NameOf(id) = name /\ RefsOf(id) = refs
      /\ Readable(blobs.names, id) /\ Readable(blobs.metadata, id)
  BY TablesRight DEF TablesRoundTrip, AllFit
<1>3. Result(id).references = paths
  BY <1>2 DEF Result
<1> HIDE DEF name, refs
<1>4. kept \in Seq(Ref) /\ Range(kept) = Good
  <2>1. ASSUME NEW x \in Range(refs) PROVE Taken(name, x) <=> Wanted(name, x)
    <3>1. x.file_id \in 0 .. Len(Files) - 1
      <4>1. x \in Ref
        BY <1>1, LenProperties, ElementOfSeq DEF Range
      <4> QED BY <4>1 DEF Ref
    <3>2. x.file_id < Stored(FileNames)
      BY <3>1, PathsBack, Zenon DEF AllFit
    <3> QED BY <3>2, Zenon DEF Taken
  <2>2. kept \in Seq(Ref) /\ Range(kept) = {x \in Range(refs) : Taken(name, x)}
    BY <1>1, KeptRight, Zenon
  <2> QED BY <2>1, <2>2
<1> HIDE DEF kept, Good
<1>5. \A i \in DOMAIN kept : kept[i] \in Ref
  BY <1>4, LenProperties, ElementOfSeq
<1>6. \A i \in DOMAIN kept : paths[i] = PathOfFile(kept[i].file_id + 1)
  BY <1>5, PathsBack DEF Ref, AllFit
<1>7. Range(paths) = {PathOfFile(ref.file_id + 1) : ref \in Range(kept)}
  <2>1. Range(paths) = {PathOfFile(kept[i].file_id + 1) : i \in DOMAIN kept}
    BY <1>6 DEF Range
  <2> QED BY <2>1 DEF Range
<1>8. ASSUME NEW ref \in Range(refs)
      PROVE  Readable(FileNames, ref.file_id) /\ Readable(PathNames, Files[ref.file_id + 1].path_id)
  <2>1. ref.file_id \in 0 .. Len(Files) - 1
    <3>1. ref \in Ref
      BY <1>1, <1>8, LenProperties, ElementOfSeq DEF Range
    <3> QED BY <3>1 DEF Ref
  <2>2. Fits(FileNames) /\ Fits(PathNames)
    BY DEF AllFit
  <2> QED BY <2>1, <2>2, PathsBack
<1>9. Legible(id)
  <2>1. \A ref \in Range(RefsOf(id)) : Taken(NameOf(id), ref) =>
           LET path_id == Files[ref.file_id + 1].path_id
           IN /\ Readable(FileNames, ref.file_id)
              /\ path_id < Stored(PathNames) => Readable(PathNames, path_id)
    BY <1>2, <1>8, Zenon
  <2> QED BY <1>2, <2>1, Zenon DEF Legible
<1> QED BY <1>3, <1>4, <1>7, <1>9 DEF name, refs, Good

\* No entry is passed over of an index that 32 bits measure.
LEMMA NonePassed ==
  ASSUME TablesInv, Fits(blobs.names), NEW id \in Ids
  PROVE  ~Passed(id)
<1> DEFINE a == [i \in 1 .. Len(symtable) |-> symtable[i].name]
<1>1. Len(symtable) \in Nat
  BY LenProperties DEF TablesInv
<1>2. IsLaid(blobs.names, a, Len(symtable), Letter)
  BY Zenon DEF TablesInv
<1> HIDE DEF a
<1>3. Stored(blobs.names) = Len(symtable)
  BY <1>1, <1>2, AllStored, Zenon
<1> QED BY <1>1, <1>3 DEF Passed, Ids

\* An answer is exact.
LEMMA AnswerRight == TablesInv /\ ResultInv => AnswerIsExact
<1> SUFFICES ASSUME TablesInv, ResultInv, AllFit, pc = "answered" PROVE Printed = Expected(query)
  BY DEF AnswerIsExact, ResultInv
<1>1. symtable \in Seq(Symbol) /\ Len(symtable) \in Nat /\ DOMAIN symtable = 1 .. Len(symtable)
  BY LenProperties DEF TablesInv
<1>2. /\ \A r \in results : \E id \in Ids : r = Result(id)
      /\ \A id \in Ids : symtable[id + 1].name = query => Result(id) \in results
  BY NonePassed DEF ResultInv, AllFit
<1>3. ASSUME NEW x \in Printed PROVE x \in Expected(query)
  <2>1. PICK r \in results : x \in Range(r.references)
    BY <1>3 DEF Printed
  <2>2. PICK id \in Ids : r = Result(id)
    BY <1>2, <2>1
  <2>3. PICK ref \in Range(symtable[id + 1].refs) :
          Wanted(symtable[id + 1].name, ref) /\ x = PathOfFile(ref.file_id + 1)
    BY <2>1, <2>2, ResultExact
  <2>4. symtable[id + 1] \in Range(symtable)
    BY <1>1 DEF Ids, Range
  <2>5. symtable[id + 1].name = query /\ ref.is_defined
    BY <2>3 DEF Wanted
  <2> QED BY <2>3, <2>4, <2>5 DEF Expected
<1>4. ASSUME NEW x \in Expected(query) PROVE x \in Printed
  <2>1. PICK s \in Range(symtable) : s.name = query /\
          \E ref \in Range(s.refs) : ref.is_defined /\ x = PathOfFile(ref.file_id + 1)
    BY <1>4 DEF Expected
  <2>2. PICK i \in 1 .. Len(symtable) : s = symtable[i]
    BY <1>1, <2>1 DEF Range
  <2> PICK id \in Ids : id + 1 = i
    <3>1. i - 1 \in Ids /\ (i - 1) + 1 = i
      BY <1>1 DEF Ids
    <3> QED BY <3>1
  <2>3. PICK ref \in Range(symtable[id + 1].refs) : ref.is_defined /\ x = PathOfFile(ref.file_id + 1)
    BY <2>1, <2>2
  <2>4. Wanted(symtable[id + 1].name, ref)
    BY <2>1, <2>2, <2>3 DEF Wanted
  <2>5. x \in Range(Result(id).references)
    BY <2>3, <2>4, ResultExact
  <2>6. Result(id) \in results
    BY <1>2, <2>1, <2>2
  <2> QED BY <2>5, <2>6 DEF Printed
<1> QED BY <1>3, <1>4

-----------------------------------------------------------------------------
(* The invariant *)

\* A program that has not built anything yet.
LEMMA InitInv == Init => IInv
<1> SUFFICES ASSUME Init PROVE IInv
  OBVIOUS
<1>1. symtable = << >> /\ Len(symtable) = 0 /\ pc = "build" /\ query = << >> /\ codes = {}
  BY DEF Init
<1>2. TablesInv
  <2>1. /\ blobs.names = Table(1, EntrySize.symbol)
        /\ blobs.metadata = Table(RefSize, EntrySize.symbol)
    BY DEF Init
  <2>3. RefSize \in Nat \ {0} /\ EntrySize.symbol \in Nat \ {0} /\ 1 \in Nat \ {0}
    BY SizesAssumption
  <2>2. symtable \in Seq(Symbol)
    BY <1>1
  <2> QED BY <1>1, <2>1, <2>2, <2>3, LayNone DEF TablesInv
<1>3. QueryInv
  BY <1>1 DEF QueryInv
<1>4. CountInv /\ ResultInv /\ NotFoundIsTrue
  BY <1>1 DEF CountInv, ResultInv, NotFoundIsTrue
<1> QED BY <1>2, <1>3, <1>4 DEF IInv

\* The build is not yet searched.
LEMMA AddSymbolInv == IInv /\ AddSymbol => IInv'
<1> SUFFICES ASSUME IInv, AddSymbol PROVE IInv'
  OBVIOUS
<1>1. pc' = "build" /\ query' = query /\ codes' = codes
  BY DEF AddSymbol
<1>2. TablesInv'
  BY AddSymbolTables DEF IInv
<1>3. QueryInv'
  BY <1>1 DEF IInv, QueryInv
<1>4. CountInv' /\ ResultInv' /\ NotFoundIsTrue'
  BY <1>1 DEF CountInv, ResultInv, NotFoundIsTrue
<1> QED BY <1>2, <1>3, <1>4 DEF IInv

\* The tables stay when symtable and blobs do.
LEMMA TablesStay == TablesInv /\ UNCHANGED << symtable, blobs >> => TablesInv'
BY DEF TablesInv

\* The build is over.
LEMMA CommitInv == IInv /\ Commit => IInv'
<1> SUFFICES ASSUME IInv, Commit PROVE IInv'
  OBVIOUS
<1>1. pc' = "idle" /\ UNCHANGED << symtable, blobs, query, codes >>
  BY DEF Commit
<1>2. TablesInv'
  BY <1>1, TablesStay DEF IInv
<1>3. QueryInv'
  BY <1>1 DEF IInv, QueryInv
<1>4. CountInv' /\ ResultInv' /\ NotFoundIsTrue'
  BY <1>1 DEF CountInv, ResultInv, NotFoundIsTrue
<1> QED BY <1>2, <1>3, <1>4 DEF IInv

\* The program ends; the tables stay on disk.
LEMMA LeaveInv == IInv /\ Leave => IInv'
<1> SUFFICES ASSUME IInv, Leave PROVE IInv'
  OBVIOUS
<1>1. pc' = "idle" /\ query' = << >> /\ codes' = {} /\ UNCHANGED << symtable, blobs >>
  BY DEF Leave
<1>2. TablesInv'
  BY <1>1, TablesStay DEF IInv
<1>3. QueryInv'
  BY <1>1 DEF QueryInv
<1>4. CountInv' /\ ResultInv' /\ NotFoundIsTrue'
  BY <1>1 DEF CountInv, ResultInv, NotFoundIsTrue
<1> QED BY <1>2, <1>3, <1>4 DEF IInv

\* A query without trigrams is the empty one; otherwise nothing is counted yet.
LEMMA AskInv == IInv /\ Ask => IInv'
<1> SUFFICES ASSUME IInv, Ask PROVE IInv'
  OBVIOUS
<1>1. /\ query' \in Queries /\ results' = {} /\ codes' = Trigrams(query') /\ counts' = [id \in {} |-> 0]
      /\ pc' = (IF codes' = {} THEN "refused" ELSE "count") /\ UNCHANGED << symtable, blobs >>
  BY DEF Ask
<1>2. TablesInv'
  BY <1>1, TablesStay DEF IInv
<1>3. query' \in Seq(Letter)
  BY <1>1, NamesAssumption DEF Letter
<1>4. QueryInv'
  BY <1>1, <1>3 DEF QueryInv
<1>5. query' # << >> <=> codes' # {}
  BY <1>1, <1>3, TrigramsOfWord
<1>6. NotFoundIsTrue' /\ ResultInv'
  BY <1>1, <1>5 DEF NotFoundIsTrue, ResultInv
<1>7. CountInv'
  <2>1. \A id \in Ids' : Shared(id)' = {}
    BY <1>1 DEF Shared
  <2>2. DOMAIN counts' = {}
    BY <1>1
  <2> QED BY <1>1, <1>5, <2>1, <2>2 DEF CountInv
<1> QED BY <1>2, <1>4, <1>6, <1>7 DEF IInv

\* A trigram is counted for exactly the symbols that have it, and never twice.
LEMMA CountCodeInv == IInv /\ CountCode => IInv'
<1> SUFFICES ASSUME IInv, CountCode PROVE IInv'
  OBVIOUS
<1>1. /\ pc = "count" /\ UNCHANGED << symtable, blobs, pc, query, candidates, results >>
      /\ TablesInv /\ QueryInv /\ CountInv
  BY DEF CountCode, IInv
<1>2. PICK code \in codes :
        /\ codes' = codes \ {code}
        /\ counts' = [ id \in DOMAIN counts \union Posting(code) |->
                         (IF id \in DOMAIN counts THEN counts[id] ELSE 0)
                         + (IF id \in Posting(code) THEN 1 ELSE 0) ]
  BY DEF CountCode
<1>3. TablesInv'
  BY <1>1, TablesStay
<1>4. QueryInv'
  BY <1>1, <1>2 DEF QueryInv
<1>5. ResultInv' /\ NotFoundIsTrue'
  BY <1>1 DEF ResultInv, NotFoundIsTrue
<1>6. /\ query # << >> /\ results = {}
      /\ DOMAIN counts = {id \in Ids : Shared(id) # {}}
      /\ \A id \in DOMAIN counts : counts[id] = Cardinality(Shared(id))
  BY <1>1 DEF CountInv
<1>7. ASSUME NEW id \in Ids
      PROVE  /\ Shared(id)' = IF id \in Posting(code) THEN Shared(id) \cup {code} ELSE Shared(id)
             /\ code \notin Shared(id) /\ IsFiniteSet(Shared(id))
  <2>1. code \in Trigrams(query) /\ code \in codes
    BY <1>1, <1>2 DEF QueryInv
  <2>2. Shared(id)' = (Trigrams(query) \ codes') \cap Trigrams(symtable[id + 1].name)
    BY <1>1 DEF Shared
  <2>3. id \in Posting(code) <=> code \in Trigrams(symtable[id + 1].name)
    BY DEF Posting
  <2>4. Shared(id) \subseteq Trigrams(query) /\ code \notin Shared(id)
    BY <2>1 DEF Shared
  <2>5. IsFiniteSet(Trigrams(query))
    BY <1>1, TrigramsOfWord DEF QueryInv
  <2>6. IsFiniteSet(Shared(id))
    BY <2>4, <2>5, FS_Subset
  <2>7. Shared(id)' = IF id \in Posting(code) THEN Shared(id) \cup {code} ELSE Shared(id)
    BY <1>2, <2>1, <2>2, <2>3 DEF Shared
  <2> QED BY <2>4, <2>6, <2>7
<1>8. Ids' = Ids /\ Posting(code) \subseteq Ids
  BY <1>1 DEF Ids, Posting
<1>9. DOMAIN counts' = {id \in Ids' : Shared(id)' # {}}
  <2>1. DOMAIN counts' = DOMAIN counts \union Posting(code)
    BY <1>2
  <2> QED BY <1>6, <1>7, <1>8, <2>1
<1>10. ASSUME NEW id \in DOMAIN counts' PROVE counts'[id] = Cardinality(Shared(id)')
  <2>1. id \in Ids /\ id \in DOMAIN counts \union Posting(code)
    BY <1>2, <1>6, <1>8
  <2> DEFINE old == IF id \in DOMAIN counts THEN counts[id] ELSE 0
  <2>2. counts'[id] = old + (IF id \in Posting(code) THEN 1 ELSE 0)
    BY <1>2, <2>1
  <2>3. old = Cardinality(Shared(id))
    BY <1>6, <2>1, FS_EmptySet
  <2>4. Cardinality(Shared(id)) \in Nat
    BY <1>7, <2>1, FS_CardinalityType
  <2> HIDE DEF old
  <2>5. CASE id \in Posting(code)
    <3>1. Cardinality(Shared(id) \cup {code}) = Cardinality(Shared(id)) + 1
      BY <1>7, <2>1, FS_AddElement
    <3> QED BY <1>7, <2>1, <2>2, <2>3, <2>5, <3>1
  <2>6. CASE id \notin Posting(code)
    BY <1>7, <2>1, <2>2, <2>3, <2>4, <2>6
  <2> QED BY <2>5, <2>6
<1>11. CountInv'
  BY <1>1, <1>6, <1>9, <1>10 DEF CountInv
<1> QED BY <1>3, <1>4, <1>5, <1>11 DEF IInv

\* A symbol of the name asked for shares every trigram of the query.
LEMMA PickCandidatesInv == IInv /\ PickCandidates => IInv'
<1> SUFFICES ASSUME IInv, PickCandidates PROVE IInv'
  OBVIOUS
<1>1. /\ pc = "count" /\ codes = {}
      /\ candidates' = {id \in DOMAIN counts : Verified(id)}
      /\ pc' = (IF candidates' = {} THEN "refused" ELSE "resolve")
      /\ UNCHANGED << symtable, blobs, query, codes, counts, results >>
      /\ TablesInv /\ QueryInv /\ CountInv
  BY DEF PickCandidates, IInv
<1>2. TablesInv' /\ QueryInv'
  BY <1>1, TablesStay DEF QueryInv
<1>3. CountInv'
  BY <1>1 DEF CountInv
<1>4. /\ query # << >> /\ results = {}
      /\ DOMAIN counts = {id \in Ids : Shared(id) # {}}
      /\ \A id \in DOMAIN counts : counts[id] = Cardinality(Shared(id))
  BY <1>1 DEF CountInv
<1>5. ASSUME NEW id \in Ids, symtable[id + 1].name = query PROVE id \in candidates'
  <2>1. Shared(id) = Trigrams(query)
    BY <1>1, <1>5 DEF Shared
  <2>2. Trigrams(query) # {}
    BY <1>1, <1>4, TrigramsOfWord DEF QueryInv
  <2> QED BY <1>1, <1>4, <2>1, <2>2 DEF Verified
<1>6. NotFoundIsTrue'
  <2> SUFFICES ASSUME pc' = "refused", NEW s \in Range(symtable), s.name = query PROVE FALSE
    BY <1>1 DEF NotFoundIsTrue
  <2>1. PICK i \in 1 .. Len(symtable) : s = symtable[i]
    BY <1>1, LenProperties DEF TablesInv, Range
  <2>2. i - 1 \in Ids /\ (i - 1) + 1 = i
    BY <1>1, LenProperties DEF TablesInv, Ids
  <2>3. i - 1 \in candidates'
    BY <1>5, <2>1, <2>2
  <2> QED BY <1>1, <2>3
<1>7. ResultInv'
  <2>1. Ids' = Ids
    BY <1>1 DEF Ids
  <2>3. candidates' \subseteq Ids'
    BY <1>1, <1>4, <2>1
  <2>4. results' = {} /\ pc' # "answered" /\ pc' # "undefined"
    <3>1. results' = {}
      BY <1>1, <1>4, Zenon
    <3>2. pc' = "refused" \/ pc' = "resolve"
      BY <1>1, Zenon
    <3> QED BY <3>1, <3>2
  <2>2. \A id \in Ids' : symtable'[id + 1].name = query' => id \in candidates'
    BY <1>1, <1>5, <2>1
  <2>5. AllFit' => pc' # "undefined"
    BY <2>4
  <2>6. \A r \in results' : \E id \in Ids' : r = Result(id)'
    BY <2>4
  <2>7. /\ candidates' \subseteq Ids'
        /\ \A r \in results' : \E id \in Ids' : r = Result(id)'
        /\ \A id \in Ids' : symtable'[id + 1].name = query' /\ ~Passed(id)' =>
              id \in candidates' \/ Result(id)' \in results'
        /\ pc' = "answered" => candidates' = {}
    BY <2>2, <2>3, <2>4, <2>6
  <2> QED BY <2>5, <2>7 DEF ResultInv
<1> QED BY <1>2, <1>3, <1>6, <1>7 DEF IInv

\* A result depends on the tables and the query only.
LEMMA ResultStays ==
  ASSUME UNCHANGED << blobs, query >>, NEW id
  PROVE  Result(id)' = Result(id) /\ Passed(id)' = Passed(id)
BY DEF Result, Kept, Taken, Wanted, NameOf, RefsOf, Passed

\* A candidate that leaves the set is a result, or was passed over.
LEMMA ResolveInv == IInv /\ Resolve => IInv'
<1> SUFFICES ASSUME IInv, Resolve PROVE IInv'
  OBVIOUS
<1>1. PICK id \in candidates :
        /\ results' = results \union (IF Passed(id) THEN {} ELSE {Result(id)})
        /\ candidates' = candidates \ {id}
  BY DEF Resolve
<1>2. /\ pc = "resolve"
      /\ pc' = (IF candidates' # {} THEN "resolve" ELSE IF results' = {} THEN "refused" ELSE "answered")
      /\ UNCHANGED << symtable, blobs, query, codes, counts >>
      /\ TablesInv /\ QueryInv /\ ResultInv
  BY DEF Resolve, IInv
<1>3. TablesInv' /\ QueryInv'
  BY <1>2, TablesStay DEF QueryInv
<1>4. CountInv'
  BY <1>2 DEF CountInv
<1>5. Ids' = Ids /\ \A i : Result(i)' = Result(i) /\ Passed(i)' = Passed(i)
  BY <1>2, ResultStays DEF Ids
<1>6. /\ candidates \subseteq Ids
      /\ \A r \in results : \E i \in Ids : r = Result(i)
      /\ \A i \in Ids : symtable[i + 1].name = query /\ ~Passed(i) => i \in candidates \/ Result(i) \in results
  BY <1>2 DEF ResultInv
<1>7. \A i \in Ids : symtable[i + 1].name = query /\ ~Passed(i) => i \in candidates' \/ Result(i) \in results'
  BY <1>1, <1>6
<1>8. ResultInv'
  <2>1. candidates' \subseteq Ids'
    BY <1>1, <1>5, <1>6
  <2>4. pc' = "answered" => candidates' = {}
    BY <1>2
  <2>2. \A r \in results' : \E i \in Ids' : r = Result(i)'
    BY <1>1, <1>5, <1>6
  <2>3. \A i \in Ids' : symtable'[i + 1].name = query' /\ ~Passed(i)' =>
                       i \in candidates' \/ Result(i)' \in results'
    BY <1>2, <1>5, <1>7
  <2>5. pc' # "undefined"
    BY <1>2
  <2> QED BY <2>1, <2>2, <2>3, <2>4, <2>5 DEF ResultInv
<1>9. NotFoundIsTrue'
  <2> SUFFICES ASSUME pc' = "refused", Stored(blobs.names) = Len(symtable),
                      NEW s \in Range(symtable), s.name = query
               PROVE  FALSE
    BY <1>2 DEF NotFoundIsTrue
  <2>1. candidates' = {} /\ results' = {}
    BY <1>2
  <2>2. PICK i \in 1 .. Len(symtable) : s = symtable[i]
    BY <1>2, LenProperties DEF TablesInv, Range
  <2>3. i - 1 \in Ids /\ (i - 1) + 1 = i /\ ~Passed(i - 1)
    BY <1>2, LenProperties DEF TablesInv, Ids, Passed
  <2> QED BY <1>7, <2>1, <2>2, <2>3
<1> QED BY <1>3, <1>4, <1>8, <1>9 DEF IInv

\* A candidate leads out of the blocks only if their sizes do not fit.
LEMMA ResolveAstrayInv == IInv /\ ResolveAstray => IInv'
<1> SUFFICES ASSUME IInv, ResolveAstray PROVE IInv'
  OBVIOUS
<1>1. /\ pc = "resolve" /\ pc' = "undefined"
      /\ UNCHANGED << symtable, blobs, query, codes, counts, candidates, results >>
      /\ TablesInv /\ QueryInv /\ ResultInv
  BY DEF ResolveAstray, IInv
<1>2. TablesInv' /\ QueryInv'
  BY <1>1, TablesStay DEF QueryInv
<1>3. CountInv' /\ NotFoundIsTrue'
  BY <1>1 DEF CountInv, NotFoundIsTrue
<1>4. ~AllFit
  <2>1. PICK id \in candidates : ~Legible(id)
    BY DEF ResolveAstray
  <2>2. id \in Ids
    BY <1>1, <2>1 DEF ResultInv
  <2> QED BY <1>1, <2>1, <2>2, ResultExact
<1>5. ~AllFit'
  BY <1>1, <1>4 DEF AllFit
<1>6. ResultInv'
  BY <1>1, <1>5 DEF ResultInv
<1> QED BY <1>2, <1>3, <1>6 DEF IInv

\* A step that changes nothing.
LEMMA StutterInv == IInv /\ UNCHANGED vars => IInv'
<1> SUFFICES ASSUME IInv, UNCHANGED vars PROVE IInv'
  OBVIOUS
<1>1. UNCHANGED << symtable, blobs, pc, query, codes, counts, candidates, results >>
  BY DEF vars
<1>2. TablesInv' /\ QueryInv' /\ NotFoundIsTrue'
  BY <1>1, TablesStay DEF IInv, QueryInv, NotFoundIsTrue
<1>3. CountInv'
  BY <1>1 DEF IInv, CountInv, Shared, Ids
<1>4. Ids' = Ids /\ \A i : Result(i)' = Result(i) /\ Passed(i)' = Passed(i)
  BY <1>1, ResultStays DEF Ids
<1>5. ResultInv'
  <2>1. AllFit' = AllFit
    BY <1>1 DEF AllFit
  <2> QED BY <1>1, <1>4, <2>1 DEF IInv, ResultInv
<1> QED BY <1>2, <1>3, <1>5 DEF IInv

\* Every step keeps the invariant.
LEMMA NextInv == IInv /\ [Next]_vars => IInv'
BY AddSymbolInv, CommitInv, AskInv, CountCodeInv, PickCandidatesInv, ResolveInv,
   ResolveAstrayInv, LeaveInv,
   StutterInv DEF Next

\* Every reachable state satisfies the invariant.
LEMMA Invariant == Spec => []IInv
BY InitInv, NextInv, PTL DEF Spec

-----------------------------------------------------------------------------
(* What holds of every database and every search *)

\* The blocks that the build lays out, as long as 32 bits measure them, give
\* every symbol its own name and its own references back.
THEOREM BlocksRoundTrip == Spec => []TablesRoundTrip
<1>1. IInv => TablesRoundTrip
  BY TablesRight DEF IInv
<1> QED BY <1>1, Invariant, PTL

\* "Symbol not found" is the truth, as long as every symbol was stored.
THEOREM NotFoundTold == Spec => []NotFoundIsTrue
<1>1. IInv => NotFoundIsTrue
  BY DEF IInv
<1> QED BY <1>1, Invariant, PTL

\* In a database whose blocks 32 bits measure, an answer lists the files that
\* define the symbol of exactly the name asked for, and no others, and reads
\* nothing outside of the blocks.
THEOREM ExactAnswers == Spec => []AnswerIsExact
<1>1. IInv => AnswerIsExact
  BY AnswerRight DEF IInv
<1> QED BY <1>1, Invariant, PTL
=============================================================================
