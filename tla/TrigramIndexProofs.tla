-------------------------- MODULE TrigramIndexProofs --------------------------
(***************************************************************************)
(* Proofs about TrigramIndex, for every set of trigram codes, every        *)
(* multiplier and size of the hash, every capacity the table starts from   *)
(* and every number of names.                                              *)
(***************************************************************************)
EXTENDS TrigramIndex, FunctionTheorems, FiniteSetTheorems, SequenceTheorems, TLAPS

-----------------------------------------------------------------------------
(* Arithmetic of the slots *)

\* Dividing a value below h * m by m gives a value below h.
LEMMA DivBelow ==
  ASSUME NEW n \in Nat, NEW m \in Nat \ {0}, NEW h \in Nat \ {0}, n < h * m
  PROVE  n \div m \in 0 .. h - 1
<1> DEFINE q == n \div m
<1>1. q \in Int /\ m * q <= n
  OBVIOUS
<1>2. q >= 0
  OBVIOUS
<1>3. q < h
  <2> SUFFICES ASSUME q >= h PROVE FALSE
    BY <1>1
  <2>1. m * q >= m * h
    BY <1>1
  <2>2. QED BY <2>1, <1>1
<1> QED BY <1>1, <1>2, <1>3

\* The top bits of a hash are the number of a slot.
LEMMA HomeInRange ==
  ASSUME NEW c \in Codes, NEW cap \in Nat \ {0}
  PROVE  HomeSlot(c, cap) \in 0 .. cap - 1
<1> DEFINE h == FibonacciHash(c)
<1>1. h \in 0 .. HashSpace - 1
  BY CodesAssumption, HashAssumption DEF FibonacciHash
<1> HIDE DEF h
<1>2. h * cap \in Nat /\ h * cap < cap * HashSpace
  BY <1>1, HashAssumption
<1>3. (h * cap) \div HashSpace \in 0 .. cap - 1
  BY <1>2, DivBelow, HashAssumption
<1> QED BY <1>3 DEF HomeSlot, h

\* The slot after the last one is the first.
LEMMA NextWraps ==
  ASSUME NEW cap \in Nat \ {0}, NEW i \in 0 .. cap - 1
  PROVE  (i + 1) % cap = IF i + 1 = cap THEN 0 ELSE i + 1
OBVIOUS

-----------------------------------------------------------------------------
(* Types *)

\* A posting list fits the posting array: it is a list of symbol ids.
LEMMA SortedUniqueType ==
  ASSUME NEW list \in Seq(Nat), NEW s \in SortedUnique(list)
  PROVE  s \in Seq(Nat) /\ Range(s) = Range(list)
<1>1. PICK n \in 0 .. Len(list) : s \in [1 .. n -> Range(list)]
  BY DEF SortedUnique
<1>2. Range(list) \subseteq Nat
  BY DEF Range
<1> QED BY <1>1, <1>2 DEF SortedUnique

\* Steps that leave the table alone keep the types of its slots.
LEMMA SlotsKept ==
  ASSUME SlotsOK, UNCHANGED <<slots, postings, capacity>>,
         pc \in {"add", "size"} <=> pc' \in {"add", "size"}
  PROVE  SlotsOK'
BY DEF SlotsOK, TableSlots

\* Every variable has its type, in every reachable state of the builder and
\* of the lookup; in particular a probe never leaves the table.
THEOREM TypeCorrect == Spec => []TypeOK
<1>1. Init => TypeOK
  BY CodesAssumption, CapacityAssumption, WordsAssumption
     DEF Init, TypeOK, SlotsOK, TableSlots
<1>2. TypeOK /\ [Next]_vars => TypeOK'
  <2> SUFFICES ASSUME TypeOK, [Next]_vars PROVE TypeOK'
    OBVIOUS
  <2> USE DEF TypeOK
  <2>1. ASSUME NEW w \in SUBSET Codes, AddWord(w) PROVE TypeOK'
    <3>1. SlotsOK'
      BY <2>1, SlotsKept DEF AddWord
    <3>2. Len(words') = Len(words) + 1 /\ Len(words) + 1 <= MaxWords
      BY <2>1, WordsAssumption DEF AddWord
    <3> QED BY <2>1, <3>1, <3>2 DEF AddWord
  <2>2. CASE StartTable
    BY <2>2, SlotsKept DEF StartTable
  <2>3. CASE GrowCapacity
    <3>1. SlotsOK'
      BY <2>3 DEF GrowCapacity, SlotsOK, TableSlots
    <3> QED BY <2>3, <3>1 DEF GrowCapacity
  <2>4. CASE AllocateSlots
    <3>1. SlotsOK'
      BY <2>4 DEF AllocateSlots, FreeSlot, Slot, SlotsOK, TableSlots
    <3> QED BY <2>4, <3>1 DEF AllocateSlots, Entries
  <2>5. ASSUME NEW c \in Codes, TakeEntry(c) PROVE TypeOK'
    <3>1. HomeSlot(c, capacity) \in 0 .. capacity - 1
      BY HomeInRange
    <3>2. SlotsOK'
      BY <2>5, SlotsKept DEF TakeEntry
    <3> QED BY <2>5, <3>1, <3>2 DEF TakeEntry
  <2>6. CASE ProbeTaken
    <3>1. NextSlot(idx) \in 0 .. capacity - 1
      BY <2>6, NextWraps DEF ProbeTaken, NextSlot
    <3>2. SlotsOK'
      BY <2>6, SlotsKept DEF ProbeTaken
    <3> QED BY <2>6, <3>1, <3>2 DEF ProbeTaken
  <2>7. CASE PlaceEntry
    <3>1. PICK syms \in SortedUnique(symbolsOf[code]) :
            /\ slots' = [slots EXCEPT ![idx] = [trigram_code   |-> code,
                                                posting_offset |-> Len(postings),
                                                posting_count  |-> Len(syms)]]
            /\ postings' = postings \o syms
      BY <2>7 DEF PlaceEntry
    <3>2. syms \in Seq(Nat)
      BY SortedUniqueType
    <3>3. postings' \in Seq(Nat) /\ Len(postings') = Len(postings) + Len(syms)
      BY <3>1, <3>2
    <3>4. idx \in TableSlots /\ TableSlots' = TableSlots
      BY <2>7 DEF PlaceEntry, TableSlots
    <3>5. slots' \in [TableSlots' -> Slot]
      <4>1. [trigram_code |-> code, posting_offset |-> Len(postings),
             posting_count |-> Len(syms)] \in Slot
        BY <3>2 DEF Slot
      <4> QED BY <3>1, <3>4, <4>1 DEF SlotsOK
    <3>6. ASSUME NEW i \in TableSlots
          PROVE  slots'[i].posting_offset + slots'[i].posting_count <= Len(postings')
      <4>1. slots \in [TableSlots -> Slot]
        BY DEF SlotsOK
      <4>2. CASE i = idx
        BY <3>1, <3>2, <3>3, <3>4, <4>1, <4>2
      <4>3. CASE i # idx
        <5>1. slots'[i] = slots[i] /\ slots[i] \in Slot
          BY <3>1, <4>1, <4>3
        <5>2. slots[i].posting_offset + slots[i].posting_count <= Len(postings)
          BY DEF SlotsOK
        <5> QED BY <3>2, <3>3, <5>1, <5>2 DEF Slot
      <4> QED BY <4>2, <4>3
    <3>7. SlotsOK'
      BY <3>4, <3>5, <3>6 DEF SlotsOK
    <3> QED BY <2>7, <3>3, <3>7 DEF PlaceEntry
  <2>8. CASE FinishTable
    BY <2>8, SlotsKept DEF FinishTable
  <2>9. ASSUME NEW c \in Codes, Lookup(c) PROVE TypeOK'
    <3>1. HomeSlot(c, capacity) \in 0 .. capacity - 1
      BY HomeInRange
    <3>2. SlotsOK'
      BY <2>9, SlotsKept DEF Lookup
    <3> QED BY <2>9, <3>1, <3>2 DEF Lookup
  <2>10. CASE WalkOn
    <3>1. NextSlot(idx) \in 0 .. capacity - 1
      BY <2>10, NextWraps DEF WalkOn, NextSlot
    <3>2. SlotsOK'
      BY <2>10, SlotsKept DEF WalkOn
    <3> QED BY <2>10, <3>1, <3>2 DEF WalkOn
  <2>11. CASE Hit
    <3> DEFINE slot == slots[idx]
    <3>1. slot \in Slot /\ slot.posting_offset + slot.posting_count <= Len(postings)
      <4>1. idx \in TableSlots
        BY <2>11 DEF Hit, TableSlots
      <4> QED BY <4>1 DEF SlotsOK
    <3> HIDE DEF slot
    <3>2. SubSeq(postings, slot.posting_offset + 1, slot.posting_offset + slot.posting_count)
            \in Seq(Nat)
      <4> DEFINE m == slot.posting_offset + 1
                 n == slot.posting_offset + slot.posting_count
      <4>1. m \in Nat \ {0} /\ n \in Nat /\ n <= Len(postings)
        BY <3>1 DEF Slot
      <4> HIDE DEF m, n
      <4>2. SubSeq(postings, m, n) \in Seq(Nat)
        BY <4>1, \A i \in m .. n : i \in 1 .. Len(postings), SubSeqProperties
      <4> QED BY <4>2 DEF m, n
    <3>3. SlotsOK'
      BY <2>11, SlotsKept DEF Hit
    <3> QED BY <2>11, <3>2, <3>3 DEF Hit, slot
  <2>12. CASE Miss
    BY <2>12, SlotsKept DEF Miss
  <2>13. CASE NextQuery
    BY <2>13, SlotsKept DEF NextQuery
  <2>14. CASE UNCHANGED vars
    BY <2>14, SlotsKept DEF vars
  <2> QED
    BY <2>1, <2>2, <2>3, <2>4, <2>5, <2>6, <2>7, <2>8, <2>9, <2>10, <2>11, <2>12,
       <2>13, <2>14 DEF Next, Build, Walk
<1> QED BY <1>1, <1>2, PTL DEF Spec

-----------------------------------------------------------------------------
(* The parts of IndexInv *)

\* A name added to the table extends the lists of its trigrams by its id.
LEMMA AddWordCollects ==
  ASSUME TypeOK, CollectedRight, NEW w \in SUBSET Codes, AddWord(w)
  PROVE  CollectedRight'
<1> DEFINE n == Len(words)
<1> SUFFICES ASSUME NEW c \in Codes PROVE IsPostingListOf(symbolsOf[c], c)'
  BY DEF CollectedRight
<1>1. words' = Append(words, w) /\ n \in Nat /\ words \in Seq(SUBSET Codes)
  BY DEF AddWord, TypeOK
<1>2. Len(words') = n + 1 /\ words'[n + 1] = w /\ \A i \in 1 .. n : words'[i] = words[i]
  BY <1>1
<1>3. IdsWith(c)' = IdsWith(c) \cup (IF c \in w THEN {n} ELSE {})
  <2>1. ASSUME NEW i \in 0 .. n - 1 PROVE words'[i + 1] = words[i + 1]
    BY <1>2
  <2> HIDE DEF n
  <2> QED BY <1>1, <1>2, <2>1 DEF IdsWith, n
<1>4. IsPostingListOf(symbolsOf[c], c) /\ symbolsOf[c] \in Seq(Nat)
  BY DEF CollectedRight, TypeOK
<1>5. CASE c \notin w
  <2>1. symbolsOf'[c] = symbolsOf[c]
    BY <1>5 DEF AddWord, TypeOK
  <2> QED BY <1>3, <1>4, <1>5, <2>1 DEF IsPostingListOf
<1>6. CASE c \in w
  <2> DEFINE old == symbolsOf[c]
             new == symbolsOf'[c]
  <2>1. new = Append(old, n)
    BY <1>6 DEF AddWord, TypeOK
  <2> HIDE DEF old, new, n
  <2>2. old \in Seq(Nat) /\ IsPostingListOf(old, c)
    BY <1>4 DEF old
  <2>3. /\ Len(new) = Len(old) + 1
        /\ new[Len(old) + 1] = n
        /\ \A i \in 1 .. Len(old) : new[i] = old[i]
        /\ DOMAIN new = 1 .. Len(old) + 1
        /\ DOMAIN old = 1 .. Len(old)
    BY <1>1, <2>1, <2>2
  <2>4. Range(new) = Range(old) \cup {n}
    BY <2>2, <2>3 DEF Range
  <2>5. \A i \in 1 .. Len(old) : old[i] < n
    <3>1. \A i \in 1 .. Len(old) : old[i] \in IdsWith(c)
      BY <2>2, <2>3 DEF IsPostingListOf, Range
    <3> QED BY <1>1, <3>1 DEF IdsWith, n
  <2>6. \A i, j \in 1 .. Len(new) : i < j => new[i] < new[j]
    <3> SUFFICES ASSUME NEW i \in 1 .. Len(new), NEW j \in 1 .. Len(new), i < j
                 PROVE  new[i] < new[j]
      OBVIOUS
    <3>1. i \in 1 .. Len(old)
      BY <2>2, <2>3
    <3>2. CASE j = Len(old) + 1
      BY <2>3, <2>5, <3>1, <3>2
    <3>3. CASE j # Len(old) + 1
      <4>1. j \in 1 .. Len(old)
        BY <2>2, <2>3, <3>3
      <4> QED BY <2>2, <2>3, <3>1, <4>1 DEF IsPostingListOf
    <3> QED BY <3>2, <3>3
  <2>7. Range(new) = IdsWith(c)'
    BY <1>3, <1>6, <2>2, <2>4 DEF IsPostingListOf
  <2> QED BY <2>6, <2>7 DEF IsPostingListOf, new
<1> QED BY <1>5, <1>6

\* Placing an entry keeps every older stretch of the posting array and adds
\* the list of the placed code at its end.
LEMMA PlaceEntryDescribes ==
  ASSUME TypeOK, CollectedRight, SlotsRight, PlaceEntry
  PROVE  SlotsRight'
<1>1. PICK syms \in SortedUnique(symbolsOf[code]) :
        /\ slots' = [slots EXCEPT ![idx] = [trigram_code   |-> code,
                                            posting_offset |-> Len(postings),
                                            posting_count  |-> Len(syms)]]
        /\ postings' = postings \o syms
  BY DEF PlaceEntry
<1>2. /\ idx \in DOMAIN slots /\ DOMAIN slots' = DOMAIN slots
      /\ slots \in [TableSlots -> Slot] /\ DOMAIN slots = TableSlots
  BY <1>1 DEF PlaceEntry, TypeOK, SlotsOK, TableSlots
<1>3. syms \in Seq(Nat) /\ postings \in Seq(Nat) /\ symbolsOf[code] \in Seq(Nat)
  BY SortedUniqueType DEF TypeOK
<1>4. /\ \A n \in 1 .. Len(postings) : postings'[n] = postings[n]
      /\ \A n \in 1 .. Len(syms) : postings'[Len(postings) + n] = syms[n]
  BY <1>1, <1>3
<1>5. \A c : IdsWith(c)' = IdsWith(c)
  BY DEF IdsWith, PlaceEntry
<1> SUFFICES ASSUME NEW i \in DOMAIN slots, Taken(i)'
             PROVE  SlotDescribesList(i)'
  BY <1>2 DEF SlotsRight
<1>6. CASE i = idx
  <2>1. /\ slots'[i].trigram_code = code
        /\ slots'[i].posting_offset = Len(postings)
        /\ slots'[i].posting_count = Len(syms)
    BY <1>1, <1>2, <1>6
  <2>2. Range(syms) = IdsWith(code)
    BY <1>3, SortedUniqueType DEF CollectedRight, IsPostingListOf, TypeOK
  <2>3. {postings'[Len(postings) + k] : k \in 1 .. Len(syms)} = Range(syms)
    <3>1. Range(syms) = {syms[k] : k \in 1 .. Len(syms)}
      BY <1>3 DEF Range
    <3>2. \A k \in 1 .. Len(syms) : postings'[Len(postings) + k] = syms[k]
      BY <1>4
    <3> HIDE DEF Range
    <3> QED BY ONLY <3>1, <3>2
  <2>4. \A k, l \in 1 .. Len(syms) : k < l => syms[k] < syms[l]
    BY <1>3 DEF SortedUnique
  <2>5. \A k, l \in 1 .. Len(syms) :
          k < l => postings'[Len(postings) + k] < postings'[Len(postings) + l]
    BY <1>4, <2>4
  <2> QED BY <1>5, <2>1, <2>2, <2>3, <2>5 DEF SlotDescribesList
<1>7. CASE i # idx
  <2> DEFINE first == slots[i].posting_offset
             count == slots[i].posting_count
  <2>1. slots'[i] = slots[i] /\ slots[i] \in Slot
    BY <1>1, <1>2, <1>7
  <2>2. Taken(i)
    BY <2>1 DEF Taken
  <2>3. SlotDescribesList(i)
    BY <2>2 DEF SlotsRight
  <2>4. first \in Nat /\ count \in Nat /\ first + count <= Len(postings)
    <3>1. first \in Nat /\ count \in Nat
      BY <2>1 DEF Slot
    <3>2. first + count <= Len(postings)
      BY <1>2 DEF TypeOK, SlotsOK
    <3> QED BY <3>1, <3>2
  <2> HIDE DEF first, count
  <2>5. \A k \in 1 .. count : first + k \in 1 .. Len(postings)
    BY <1>3, <2>4
  <2>6. \A k \in 1 .. count : postings'[first + k] = postings[first + k]
    BY <1>4, <2>5
  <2>7. /\ {postings'[first + k] : k \in 1 .. count} = IdsWith(slots[i].trigram_code)
        /\ \A k, l \in 1 .. count : k < l => postings'[first + k] < postings'[first + l]
    BY <2>3, <2>6 DEF SlotDescribesList, first, count
  <2> QED BY <1>5, <2>1, <2>7 DEF SlotDescribesList, first, count
<1> QED BY <1>6, <1>7

\* Going one slot on extends what a probe has passed by the slot it was at.
LEMMA PassOne ==
  ASSUME capacity \in Nat \ {0}, NEW h \in 0 .. capacity - 1, NEW i \in 0 .. capacity - 1
  PROVE  /\ NextSlot(i) \in 0 .. capacity - 1
         /\ PathBefore(h, NextSlot(i)) \subseteq PathBefore(h, i) \cup {i}
<1>1. NextSlot(i) = IF i + 1 = capacity THEN 0 ELSE i + 1
  BY NextWraps DEF NextSlot
<1> QED BY <1>1 DEF PathBefore

\* Of two different slots, a probe from h comes to one before the other.
LEMMA PathOrder ==
  ASSUME capacity \in Nat \ {0}, NEW h \in 0 .. capacity - 1,
         NEW i \in 0 .. capacity - 1, NEW j \in 0 .. capacity - 1, i # j
  PROVE  i \in PathBefore(h, j) \/ j \in PathBefore(h, i)
BY DEF PathBefore

\* A slot a probe passes is a slot of the table.
LEMMA PathInTable ==
  ASSUME capacity \in Nat \ {0}, NEW h \in 0 .. capacity - 1,
         NEW i \in 0 .. capacity - 1
  PROVE  PathBefore(h, i) \subseteq 0 .. capacity - 1 /\ PathBefore(h, h) = {}
BY DEF PathBefore

\* Placing an entry breaks no probe chain, and its own chain is the slots
\* its probe passed.
LEMMA PlaceEntryKeepsChains ==
  ASSUME TypeOK, ProbeChainsUnbroken, ProbePassedTaken, PlaceEntry
  PROVE  ProbeChainsUnbroken'
<1>1. PICK syms \in SortedUnique(symbolsOf[code]) :
        slots' = [slots EXCEPT ![idx] = [trigram_code   |-> code,
                                         posting_offset |-> Len(postings),
                                         posting_count  |-> Len(syms)]]
  BY DEF PlaceEntry
<1>2. /\ idx \in DOMAIN slots /\ DOMAIN slots' = DOMAIN slots
      /\ DOMAIN slots = 0 .. capacity - 1 /\ capacity \in Nat \ {0}
  BY <1>1 DEF PlaceEntry, TypeOK, SlotsOK, TableSlots
<1>3. slots'[idx].trigram_code = code /\ code # Empty
  BY <1>1, <1>2, EmptyAssumption DEF TypeOK
<1>4. \A j \in DOMAIN slots : j # idx => slots'[j] = slots[j]
  BY <1>1, <1>2
<1>5. \A j \in DOMAIN slots : Taken(j) => Taken(j)'
  BY <1>3, <1>4 DEF Taken
<1>6. \A h, i : PathBefore(h, i)' = PathBefore(h, i)
  BY DEF PathBefore, PlaceEntry
<1>7. \A c : HomeSlot(c, capacity)' = HomeSlot(c, capacity)
  BY DEF PlaceEntry
<1> SUFFICES ASSUME NEW i \in DOMAIN slots, Taken(i)',
                    NEW j \in PathBefore(HomeSlot(slots'[i].trigram_code, capacity), i)
             PROVE  Taken(j)'
  BY <1>2, <1>6, <1>7 DEF ProbeChainsUnbroken, PlaceEntry
<1>8. slots'[i].trigram_code \in Codes
  BY <1>1, <1>2, <1>3, <1>4 DEF TypeOK, SlotsOK, Slot, Taken
<1>9. HomeSlot(slots'[i].trigram_code, capacity) \in 0 .. capacity - 1
  BY <1>2, <1>8, HomeInRange
<1>10. j \in DOMAIN slots
  BY <1>2, <1>9, PathInTable
<1>11. CASE i = idx
  BY <1>3, <1>5, <1>10, <1>11 DEF ProbePassedTaken, PlaceEntry
<1>12. CASE i # idx
  <2>1. slots'[i] = slots[i] /\ Taken(i)
    BY <1>4, <1>12 DEF Taken
  <2> QED BY <1>5, <1>10, <2>1 DEF ProbeChainsUnbroken
<1> QED BY <1>11, <1>12

\* Placing an entry takes its code, and no other, from those still missing.
LEMMA PlaceEntryStores ==
  ASSUME TypeOK, EntriesStored, PlaceEntry
  PROVE  EntriesStored'
<1>1. PICK syms \in SortedUnique(symbolsOf[code]) :
        slots' = [slots EXCEPT ![idx] = [trigram_code   |-> code,
                                         posting_offset |-> Len(postings),
                                         posting_count  |-> Len(syms)]]
  BY DEF PlaceEntry
<1>2. idx \in DOMAIN slots /\ DOMAIN slots' = DOMAIN slots
  BY <1>1 DEF PlaceEntry, TypeOK, SlotsOK, TableSlots
<1>3. ASSUME NEW c \in Entries \ todo'
      PROVE  \E i \in DOMAIN slots : slots'[i].trigram_code = c
  <2>1. CASE c = code
    BY <1>1, <1>2, <2>1
  <2>2. CASE c # code
    <3>1. c \in Entries \ todo
      BY <1>3, <2>2 DEF PlaceEntry
    <3>2. PICK i \in DOMAIN slots : slots[i].trigram_code = c
      BY <3>1 DEF EntriesStored, PlaceEntry
    <3>3. i # idx
      <4>1. c # Empty
        BY <3>1, EmptyAssumption DEF Entries
      <4> QED BY <3>2, <4>1 DEF PlaceEntry
    <3> QED BY <1>1, <1>2, <3>2, <3>3
  <2> QED BY <2>1, <2>2
<1>4. Entries' = Entries /\ pc' = "insert"
  BY DEF Entries, PlaceEntry
<1> QED BY <1>2, <1>3, <1>4 DEF EntriesStored

\* A walk that comes to a slot with its code answers the list of the code.
LEMMA HitExact ==
  ASSUME TypeOK, SlotsRight, Hit
  PROVE  LookupExact'
<1> DEFINE first == slots[idx].posting_offset
           count == slots[idx].posting_count
<1>1. idx \in TableSlots /\ DOMAIN slots = TableSlots /\ slots[idx] \in Slot
  BY DEF Hit, TypeOK, SlotsOK, TableSlots
<1>2. Taken(idx) /\ slots[idx].trigram_code = code
  BY EmptyAssumption DEF Hit, Taken, TypeOK
<1>3. SlotDescribesList(idx)
  BY <1>1, <1>2 DEF SlotsRight
<1>4. first \in Nat /\ count \in Nat
  BY <1>1 DEF Slot
<1>5. first + count <= Len(postings)
  BY <1>1 DEF TypeOK, SlotsOK
<1>6. answer' = SubSeq(postings, first + 1, first + count)
  BY DEF Hit
<1>7. /\ {postings[first + k] : k \in 1 .. count} = IdsWith(code)
      /\ \A k, l \in 1 .. count : k < l => postings[first + k] < postings[first + l]
  BY <1>2, <1>3 DEF SlotDescribesList
<1> HIDE DEF first, count
<1>8. /\ answer' \in Seq(Nat)
      /\ Len(answer') = count
      /\ \A k \in 1 .. count : answer'[k] = postings[first + k]
  <2>1. \A i \in first + 1 .. first + count : postings[i] \in Nat
    BY <1>4, <1>5 DEF TypeOK
  <2>2. /\ SubSeq(postings, first + 1, first + count) \in Seq(Nat)
        /\ Len(SubSeq(postings, first + 1, first + count)) =
             IF first + 1 <= first + count THEN first + count - (first + 1) + 1 ELSE 0
        /\ \A i \in 1 .. first + count - (first + 1) + 1 :
             SubSeq(postings, first + 1, first + count)[i] = postings[first + 1 + i - 1]
    BY <1>4, <2>1, SubSeqProperties
  <2>3. \A k \in 1 .. count : first + 1 + k - 1 = first + k
    BY <1>4
  <2> QED BY <1>4, <1>6, <2>2, <2>3
<1>9. Range(answer') = IdsWith(code)
  BY <1>7, <1>8 DEF Range
<1>10. IdsWith(code)' = IdsWith(code) /\ code' = code
  BY DEF IdsWith, Hit
<1> QED BY <1>7, <1>8, <1>9, <1>10 DEF LookupExact, IsPostingListOf

\* A walk that comes to a free slot asked for a code no name contains.
LEMMA MissExact ==
  ASSUME TypeOK, CollectedRight, ProbeChainsUnbroken, EntriesStored, WalkPassedOthers, Miss
  PROVE  LookupExact'
<1> DEFINE h == HomeSlot(code, capacity)
<1>1. /\ idx \in 0 .. capacity - 1 /\ DOMAIN slots = 0 .. capacity - 1
      /\ capacity \in Nat \ {0} /\ code \in Codes /\ ~ Taken(idx)
  BY DEF Miss, TypeOK, SlotsOK, TableSlots, Taken
<1>2. h \in 0 .. capacity - 1
  BY <1>1, HomeInRange
<1> HIDE DEF h
<1>3. \A i \in DOMAIN slots : slots[i].trigram_code # code
  <2> SUFFICES ASSUME NEW i \in DOMAIN slots, slots[i].trigram_code = code PROVE FALSE
    OBVIOUS
  <2>1. Taken(i) /\ i # idx
    BY <1>1, EmptyAssumption DEF Taken
  <2>2. idx \notin PathBefore(h, i)
    BY <1>1, <2>1 DEF ProbeChainsUnbroken, h
  <2>3. i \notin PathBefore(h, idx)
    BY DEF WalkPassedOthers, Miss, h
  <2> QED BY <1>1, <1>2, <2>1, <2>2, <2>3, PathOrder
<1>4. code \notin Entries
  BY <1>3 DEF EntriesStored, Miss
<1>5. symbolsOf[code] = <<>>
  BY <1>1, <1>4 DEF Entries
<1>6. IsPostingListOf(<<>>, code)
  BY <1>1, <1>5 DEF CollectedRight
<1> QED BY <1>6 DEF LookupExact, IsPostingListOf, IdsWith, Miss

-----------------------------------------------------------------------------
(* IndexInv is inductive *)

LEMMA IndexInvInit == Init => IndexInv
<1> SUFFICES ASSUME Init PROVE IndexInv
  OBVIOUS
<1>1. CollectedRight
  BY DEF Init, CollectedRight, IsPostingListOf, IdsWith, Range
<1>2. DOMAIN slots = {} /\ pc = "add" /\ todo = {}
  BY DEF Init
<1> QED
  BY <1>1, <1>2 DEF IndexInv, SlotsRight, ProbeChainsUnbroken, EntriesStored, ProbePassedTaken,
                    WalkPassedOthers, LookupExact

LEMMA IndexInvStep == TypeOK /\ TypeOK' /\ IndexInv /\ [Next]_vars => IndexInv'
<1> SUFFICES ASSUME TypeOK, TypeOK', IndexInv, [Next]_vars PROVE IndexInv'
  OBVIOUS
<1>t. pc \in {"add", "size"} => DOMAIN slots = {}
  BY DEF TypeOK, SlotsOK, TableSlots
<1>p. capacity \in Nat \ {0} /\ code \in Codes
  BY DEF TypeOK
\* Steps that change neither the names, the table nor the todo list.
<1>q. ASSUME UNCHANGED <<words, symbolsOf, capacity, slots, postings, todo>>,
             pc \in {"add", "size"} <=> pc' \in {"add", "size"},
             pc' \in {"ready", "walk", "answered"} => todo = {}
      PROVE  CollectedRight' /\ SlotsRight' /\ ProbeChainsUnbroken' /\ EntriesStored'
  <2>1. CollectedRight'
    BY <1>q DEF IndexInv, CollectedRight, IsPostingListOf, IdsWith
  <2>2. SlotsRight'
    BY <1>q DEF IndexInv, SlotsRight, Taken, SlotDescribesList, IdsWith
  <2>3. ProbeChainsUnbroken'
    BY <1>q DEF IndexInv, ProbeChainsUnbroken, Taken, PathBefore
  <2>4. EntriesStored'
    BY <1>q DEF IndexInv, EntriesStored, Entries
  <2> QED BY <2>1, <2>2, <2>3, <2>4
<1>1. ASSUME NEW w \in SUBSET Codes, AddWord(w) PROVE IndexInv'
  <2>1. CollectedRight'
    BY <1>1, AddWordCollects DEF IndexInv
  <2>2. DOMAIN slots' = {} /\ pc' = "add"
    BY <1>1, <1>t DEF AddWord
  <2> QED BY <2>1, <2>2 DEF IndexInv, SlotsRight, ProbeChainsUnbroken, EntriesStored,
             ProbePassedTaken, WalkPassedOthers, LookupExact
<1>2. CASE StartTable
  BY <1>2, <1>q DEF StartTable, IndexInv, ProbePassedTaken, WalkPassedOthers, LookupExact
<1>3. CASE GrowCapacity
  <2>1. CollectedRight'
    BY <1>3 DEF GrowCapacity, IndexInv, CollectedRight, IsPostingListOf, IdsWith
  <2>2. DOMAIN slots' = {} /\ pc' = "size"
    BY <1>3, <1>t DEF GrowCapacity
  <2> QED BY <2>1, <2>2 DEF IndexInv, SlotsRight, ProbeChainsUnbroken, EntriesStored,
             ProbePassedTaken, WalkPassedOthers, LookupExact
<1>4. CASE AllocateSlots
  <2>1. CollectedRight'
    BY <1>4 DEF AllocateSlots, IndexInv, CollectedRight, IsPostingListOf, IdsWith
  <2>2. \A i \in DOMAIN slots' : ~ Taken(i)'
    BY <1>4 DEF AllocateSlots, Taken, FreeSlot
  <2>3. EntriesStored'
    BY <1>4 DEF AllocateSlots, EntriesStored, Entries
  <2> QED BY <1>4, <2>1, <2>2, <2>3 DEF AllocateSlots, IndexInv, SlotsRight, ProbeChainsUnbroken,
             ProbePassedTaken, WalkPassedOthers, LookupExact
<1>5. ASSUME NEW c \in Codes, TakeEntry(c) PROVE IndexInv'
  <2>1. PathBefore(HomeSlot(c, capacity), HomeSlot(c, capacity)) = {}
    BY <1>p, HomeInRange, PathInTable
  <2>2. ProbePassedTaken'
    BY <1>5, <2>1 DEF TakeEntry, ProbePassedTaken, PathBefore
  <2> QED BY <1>5, <1>q, <2>2 DEF TakeEntry, IndexInv, WalkPassedOthers, LookupExact
<1>6. CASE ProbeTaken
  <2>1. idx \in 0 .. capacity - 1 /\ HomeSlot(code, capacity) \in 0 .. capacity - 1
    BY <1>6, <1>p, HomeInRange DEF ProbeTaken, TypeOK
  <2>2. PathBefore(HomeSlot(code, capacity), idx') \subseteq
          PathBefore(HomeSlot(code, capacity), idx) \cup {idx}
    BY <1>6, <1>p, <2>1, PassOne DEF ProbeTaken
  <2>3. ProbePassedTaken'
    BY <1>6, <2>2 DEF ProbeTaken, IndexInv, ProbePassedTaken, PathBefore, Taken
  <2> QED BY <1>6, <1>q, <2>3 DEF ProbeTaken, IndexInv, WalkPassedOthers, LookupExact
<1>7. CASE PlaceEntry
  <2>1. CollectedRight'
    BY <1>7 DEF PlaceEntry, IndexInv, CollectedRight, IsPostingListOf, IdsWith
  <2>2. pc' = "insert"
    BY <1>7 DEF PlaceEntry
  <2> QED BY <1>7, <2>1, <2>2, PlaceEntryDescribes, PlaceEntryKeepsChains, PlaceEntryStores
          DEF IndexInv, ProbePassedTaken, WalkPassedOthers, LookupExact
<1>8. CASE FinishTable
  BY <1>8, <1>q DEF FinishTable, IndexInv, ProbePassedTaken, WalkPassedOthers, LookupExact
<1>9. ASSUME NEW c \in Codes, Lookup(c) PROVE IndexInv'
  <2>1. PathBefore(HomeSlot(c, capacity), HomeSlot(c, capacity)) = {}
    BY <1>p, HomeInRange, PathInTable
  <2>2. WalkPassedOthers'
    BY <1>9, <2>1 DEF Lookup, WalkPassedOthers, PathBefore
  <2>3. todo = {}
    BY <1>9 DEF Lookup, IndexInv, EntriesStored
  <2> QED BY <1>9, <1>q, <2>2, <2>3 DEF Lookup, IndexInv, ProbePassedTaken, LookupExact
<1>10. CASE WalkOn
  <2>1. idx \in 0 .. capacity - 1 /\ HomeSlot(code, capacity) \in 0 .. capacity - 1
    BY <1>10, <1>p, HomeInRange DEF WalkOn, TypeOK
  <2>2. PathBefore(HomeSlot(code, capacity), idx') \subseteq
          PathBefore(HomeSlot(code, capacity), idx) \cup {idx}
    BY <1>10, <1>p, <2>1, PassOne DEF WalkOn
  <2>3. WalkPassedOthers'
    BY <1>10, <2>2 DEF WalkOn, IndexInv, WalkPassedOthers, PathBefore
  <2>4. todo = {}
    BY <1>10 DEF WalkOn, IndexInv, EntriesStored
  <2> QED BY <1>10, <1>q, <2>3, <2>4 DEF WalkOn, IndexInv, ProbePassedTaken, LookupExact
<1>11. CASE Hit
  <2>1. todo = {}
    BY <1>11 DEF Hit, IndexInv, EntriesStored
  <2> QED BY <1>11, <1>q, <2>1, HitExact DEF Hit, IndexInv, ProbePassedTaken, WalkPassedOthers
<1>12. CASE Miss
  <2>1. todo = {}
    BY <1>12 DEF Miss, IndexInv, EntriesStored
  <2> QED BY <1>12, <1>q, <2>1, MissExact DEF Miss, IndexInv, ProbePassedTaken, WalkPassedOthers
<1>13. CASE NextQuery
  <2>1. todo = {}
    BY <1>13 DEF NextQuery, IndexInv, EntriesStored
  <2> QED BY <1>13, <1>q, <2>1 DEF NextQuery, IndexInv, ProbePassedTaken, WalkPassedOthers,
             LookupExact
<1>14. CASE UNCHANGED vars
  <2>1. ProbePassedTaken' /\ WalkPassedOthers' /\ LookupExact'
    BY <1>14 DEF vars, IndexInv, ProbePassedTaken, WalkPassedOthers, LookupExact, PathBefore,
                 Taken, IsPostingListOf, IdsWith
  <2> QED BY <1>14, <1>q, <2>1 DEF vars, IndexInv, EntriesStored
<1> QED
  BY <1>1, <1>2, <1>3, <1>4, <1>5, <1>6, <1>7, <1>8, <1>9, <1>10, <1>11, <1>12, <1>13, <1>14
     DEF Next, Build, Walk

\* The collected lists, the filled slots, the probe chains and the answers
\* are right in every reachable state.
THEOREM IndexInvariant == Spec => []IndexInv
BY TypeCorrect, IndexInvInit, IndexInvStep, PTL DEF Spec

\* A finished lookup answered exactly the ascending list of the symbols
\* whose name contains the trigram, for any hash and any insertion order.
THEOREM LookupIsExact == Spec => []LookupExact
<1>1. IndexInv => LookupExact
  BY DEF IndexInv
<1> QED BY <1>1, IndexInvariant, PTL

\* A walk from the home slot of a stored code cannot stop before its slot.
THEOREM ChainsStayUnbroken == Spec => []ProbeChainsUnbroken
<1>1. IndexInv => ProbeChainsUnbroken
  BY DEF IndexInv
<1> QED BY <1>1, IndexInvariant, PTL

-----------------------------------------------------------------------------
(* A free slot is left *)

LEMMA SpaceInvInit == Init => SpaceInv
BY DEF Init, SpaceInv

LEMMA SpaceInvStep == TypeOK /\ SpaceInv /\ [Next]_vars => SpaceInv'
<1> SUFFICES ASSUME TypeOK, SpaceInv, [Next]_vars PROVE SpaceInv'
  OBVIOUS
<1>t. pc \in {"add", "size"} => DOMAIN slots = {}
  BY DEF TypeOK, SlotsOK, TableSlots
\* Steps that change neither the entries, the table nor the todo list.
<1>q. ASSUME UNCHANGED <<symbolsOf, capacity, slots, todo>>,
             pc' \notin {"add", "size"} => pc \notin {"add", "size"},
             pc' = "probe" => code' \in todo
      PROVE  SpaceInv'
  BY <1>q DEF SpaceInv, Taken, Entries
<1>1. ASSUME NEW w \in SUBSET Codes, AddWord(w) PROVE SpaceInv'
  <2>1. DOMAIN slots' = {} /\ pc' = "add" /\ todo' = todo
    BY <1>1, <1>t DEF AddWord
  <2>2. Entries \subseteq Entries'
    <3> SUFFICES ASSUME NEW c \in Codes, symbolsOf[c] # <<>> PROVE symbolsOf'[c] # <<>>
      BY DEF Entries
    <3>1. symbolsOf[c] \in Seq(Nat) /\ Len(words) \in Nat
      BY DEF TypeOK
    <3>2. symbolsOf'[c] = IF c \in w THEN Append(symbolsOf[c], Len(words)) ELSE symbolsOf[c]
      BY <1>1 DEF AddWord
    <3> QED BY <3>1, <3>2
  <2> QED BY <2>1, <2>2 DEF SpaceInv
<1>2. CASE StartTable
  BY <1>2, <1>q DEF StartTable
<1>3. CASE GrowCapacity
  <2>1. DOMAIN slots' = {} /\ pc' = "size" /\ todo' = todo /\ Entries' = Entries
    BY <1>3, <1>t DEF GrowCapacity, Entries
  <2> QED BY <2>1 DEF SpaceInv
<1>4. CASE AllocateSlots
  <2>1. \A i \in DOMAIN slots' : ~ Taken(i)'
    BY <1>4 DEF AllocateSlots, Taken, FreeSlot
  <2>2. /\ Entries' = Entries /\ todo' = Entries /\ pc' = "insert"
        /\ ~ Overloaded(Cardinality(Entries), capacity)'
    BY <1>4 DEF AllocateSlots, Entries, Overloaded
  <2> QED BY <2>1, <2>2 DEF SpaceInv
<1>5. ASSUME NEW c \in Codes, TakeEntry(c) PROVE SpaceInv'
  BY <1>5, <1>q DEF TakeEntry
<1>6. CASE ProbeTaken
  BY <1>6, <1>q DEF ProbeTaken, SpaceInv
<1>7. CASE PlaceEntry
  <2>1. PICK syms \in SortedUnique(symbolsOf[code]) :
          slots' = [slots EXCEPT ![idx] = [trigram_code   |-> code,
                                           posting_offset |-> Len(postings),
                                           posting_count  |-> Len(syms)]]
    BY <1>7 DEF PlaceEntry
  <2>2. idx \in DOMAIN slots /\ DOMAIN slots' = DOMAIN slots
    BY <1>7, <2>1 DEF PlaceEntry, TypeOK, SlotsOK, TableSlots
  <2>3. slots'[idx].trigram_code = code /\ \A i \in DOMAIN slots : i # idx => slots'[i] = slots[i]
    BY <2>1, <2>2
  <2>4. code \in todo /\ code \in Entries /\ todo' = todo \ {code} /\ Entries' = Entries
    BY <1>7 DEF PlaceEntry, SpaceInv, Entries
  <2>5. \A i \in DOMAIN slots : i # idx /\ Taken(i)' =>
          slots'[i].trigram_code \in Entries \ todo
    BY <2>3 DEF SpaceInv, Taken
  <2>6. \A i \in DOMAIN slots : Taken(i)' => slots'[i].trigram_code \in Entries \ todo'
    BY <2>3, <2>4, <2>5
  <2>7. ASSUME NEW i \in DOMAIN slots, NEW j \in DOMAIN slots, Taken(i)',
               slots'[i].trigram_code = slots'[j].trigram_code
        PROVE  i = j
    <3>1. Taken(j)'
      BY <2>7 DEF Taken
    <3>2. (i = idx) = (j = idx)
      BY <2>3, <2>4, <2>5, <2>7, <3>1
    <3> QED BY <2>3, <2>7, <3>2 DEF SpaceInv, Taken
  <2>8. pc' = "insert" /\ capacity' = capacity /\ pc = "probe"
    BY <1>7 DEF PlaceEntry
  <2> QED BY <2>2, <2>4, <2>6, <2>7, <2>8 DEF SpaceInv
<1>8. CASE FinishTable
  BY <1>8, <1>q DEF FinishTable
<1>9. ASSUME NEW c \in Codes, Lookup(c) PROVE SpaceInv'
  BY <1>9, <1>q DEF Lookup
<1>10. CASE Walk
  BY <1>10, <1>q DEF Walk, WalkOn, Hit, Miss
<1>11. CASE NextQuery
  BY <1>11, <1>q DEF NextQuery
<1>12. CASE UNCHANGED vars
  BY <1>12, <1>q DEF vars, SpaceInv
<1> QED
  BY <1>1, <1>2, <1>3, <1>4, <1>5, <1>6, <1>7, <1>8, <1>9, <1>10, <1>11, <1>12 DEF Next, Build

\* A table with every slot taken would hold as many entries as slots.
LEMMA FullTableIsOverloaded == TypeOK /\ SpaceInv => FreeSlotLeft
<1> SUFFICES ASSUME TypeOK, SpaceInv, pc \notin {"add", "size"},
                    \A i \in DOMAIN slots : Taken(i)
             PROVE  FALSE
  BY DEF FreeSlotLeft
<1> DEFINE S == 0 .. capacity - 1
           f == [i \in S |-> slots[i].trigram_code]
<1>1. DOMAIN slots = S /\ capacity \in Nat \ {0}
  BY DEF TypeOK, SlotsOK, TableSlots
<1>2. f \in [S -> Entries] /\ \A i, j \in S : f[i] = f[j] => i = j
  BY <1>1 DEF SpaceInv
<1> HIDE DEF f
<1>3. f \in Injection(S, Entries)
  BY <1>2, Fun_IsInj
<1>4. IsFiniteSet(Entries) /\ Cardinality(Entries) \in Nat
  BY CodesAssumption, FS_Subset, FS_CardinalityType DEF Entries
<1>5. Cardinality(S) <= Cardinality(Entries)
  BY <1>3, <1>4, FS_Injection
<1>6. Cardinality(S) = capacity
  BY <1>1, FS_Interval
<1>7. ~ (10 * Cardinality(Entries) > 7 * capacity)
  BY DEF SpaceInv, Overloaded
<1> QED BY <1>1, <1>4, <1>5, <1>6, <1>7

\* While a table is filled or looked up it has a free slot for the probe
\* loops to stop at, whatever was inserted.
THEOREM FreeSlotIsLeft == Spec => []FreeSlotLeft
<1>1. Spec => []SpaceInv
  BY TypeCorrect, SpaceInvInit, SpaceInvStep, PTL DEF Spec
<1> QED BY <1>1, TypeCorrect, FullTableIsOverloaded, PTL

-----------------------------------------------------------------------------
(* Steps *)

\* What one step may do to the slots and to the posting array.
LEMMA StepKeepsFilledSlots ==
  ASSUME TypeOK, [Next]_vars
  PROVE  /\ \A i \in DOMAIN slots : Taken(i) => slots'[i] = slots[i]
         /\ SubSeq(postings', 1, Len(postings)) = postings
<1>0. postings \in Seq(Nat)
  BY DEF TypeOK
<1>1. CASE UNCHANGED <<slots, postings>>
  BY <1>0, <1>1
<1>2. CASE AllocateSlots
  <2>1. DOMAIN slots = {} /\ postings' = postings
    BY <1>2 DEF AllocateSlots, TypeOK, SlotsOK, TableSlots
  <2> QED BY <1>0, <2>1
<1>3. CASE PlaceEntry
  <2>1. PICK syms \in SortedUnique(symbolsOf[code]) :
          /\ slots' = [slots EXCEPT ![idx] = [trigram_code   |-> code,
                                              posting_offset |-> Len(postings),
                                              posting_count  |-> Len(syms)]]
          /\ postings' = postings \o syms
    BY <1>3 DEF PlaceEntry
  <2>2. syms \in Seq(Nat)
    BY SortedUniqueType DEF TypeOK
  <2>3. SubSeq(postings \o syms, 1, Len(postings)) = postings
    BY <1>0, <2>2
  <2>4. ASSUME NEW i \in DOMAIN slots, Taken(i) PROVE slots'[i] = slots[i]
    <3>1. i # idx
      BY <1>3, <2>4 DEF PlaceEntry, Taken
    <3> QED BY <2>1, <3>1 DEF TypeOK, SlotsOK
  <2> QED BY <2>1, <2>3, <2>4
<1> QED
  BY <1>1, <1>2, <1>3
     DEF Next, Build, Walk, AddWord, StartTable, GrowCapacity, TakeEntry, ProbeTaken,
         FinishTable, Lookup, WalkOn, Hit, Miss, NextQuery, vars

\* Offsets stored in the table stay right while it is built: a filled slot
\* is never written again and the posting array only grows.
THEOREM FilledSlotsNeverChange == Spec => FilledSlotsStay
<1>1. TypeOK /\ [Next]_vars =>
        [/\ \A i \in DOMAIN slots : Taken(i) => slots'[i] = slots[i]
         /\ SubSeq(postings', 1, Len(postings)) = postings]_vars
  BY StepKeepsFilledSlots
<1> QED BY <1>1, TypeCorrect, PTL DEF Spec, FilledSlotsStay

\* Building the table and walking it implement the abstract inverted index:
\* every lookup answers the posting list of its trigram, in one step.
THEOREM TableImplementsIndex == Spec => ImplementsIndex
<1>1. Init => Index!Init
  BY DEF Init, Index!Init, Phase
<1>2. TypeOK /\ IndexInv /\ IndexInv' /\ [Next]_vars => [Index!Next]_Index!vars
  <2> SUFFICES ASSUME TypeOK, IndexInv, IndexInv', [Next]_vars
               PROVE  [Index!Next]_Index!vars
    OBVIOUS
  <2> USE DEF Phase, Index!Next, Index!vars
  <2>1. ASSUME NEW w \in SUBSET Codes, AddWord(w) PROVE Index!AddWord
    BY <2>1 DEF AddWord, Index!AddWord
  <2>2. CASE StartTable \/ GrowCapacity \/ AllocateSlots
    BY <2>2 DEF StartTable, GrowCapacity, AllocateSlots
  <2>3. ASSUME NEW c \in Codes, TakeEntry(c) PROVE UNCHANGED Index!vars
    BY <2>3 DEF TakeEntry
  <2>4. CASE ProbeTaken \/ PlaceEntry
    BY <2>4 DEF ProbeTaken, PlaceEntry
  <2>5. CASE FinishTable
    BY <2>5 DEF FinishTable, Index!Freeze
  <2>6. ASSUME NEW c \in Codes, Lookup(c) PROVE Index!Ask
    BY <2>6 DEF Lookup, Index!Ask
  <2>7. CASE WalkOn
    BY <2>7 DEF WalkOn
  <2>8. CASE Hit \/ Miss
    <3>1. IsPostingListOf(answer, code)'
      BY <2>8 DEF IndexInv, LookupExact, Hit, Miss
    <3>2. Index!IsPostingList(answer', words, code)
      BY <2>8, <3>1 DEF Hit, Miss, IsPostingListOf, IdsWith, Index!IsPostingList,
                        Index!IdsWith, Index!StrictlyAscending, Range, Index!Range
    <3> QED BY <2>8, <3>2 DEF Hit, Miss, Index!Reply
  <2>9. CASE NextQuery
    BY <2>9 DEF NextQuery, Index!Close
  <2>10. CASE UNCHANGED vars
    BY <2>10 DEF vars
  <2> QED
    BY <2>1, <2>2, <2>3, <2>4, <2>5, <2>6, <2>7, <2>8, <2>9, <2>10 DEF Next, Build, Walk
<1> QED BY <1>1, <1>2, TypeCorrect, IndexInvariant, PTL DEF Spec, ImplementsIndex, Index!Spec
=============================================================================
