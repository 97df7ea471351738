----------------------------- MODULE TrigramIndex -----------------------------
(***************************************************************************)
(* The trigram index of the database: TrigramBuilder::add_word collects,   *)
(* for every trigram code, the ids of the symbols whose name contains it;  *)
(* build_trigram_index lays the lists out in one posting array and in an   *)
(* open-addressed hash table with linear probing, and                      *)
(* DatabaseReader::lookup_trigram walks that table.  The builder and the   *)
(* reader are different runs of the program; the table reaches the reader  *)
(* through the file, which DatabaseFile models.                            *)
(*                                                                         *)
(* A name is abstracted to the set of its trigram codes (TrigramSearch     *)
(* has the extraction); the empty name has none.                           *)
(***************************************************************************)
EXTENDS Naturals, Sequences, FiniteSets, Functions

CONSTANTS
  Codes,          \* the trigram codes that occur, numbers below 2^24
  Empty,          \* TRIGRAM_EMPTY_SLOT, the code of a free slot
  Golden,         \* golden_ratio64, the multiplier of the hash
  HashSpace,      \* number of hash values, 2^64 in the code
  MinCapacity,    \* 16 in the code
  MaxWords        \* bound on the number of names

ASSUME CodesAssumption == IsFiniteSet(Codes) /\ Codes \subseteq Nat /\ Codes # {}

ASSUME HashAssumption == Golden \in Nat /\ HashSpace \in Nat \ {0}

ASSUME CapacityAssumption == MinCapacity \in Nat \ {0}

ASSUME WordsAssumption == MaxWords \in Nat

\* A trigram code has 24 bits, TRIGRAM_EMPTY_SLOT has all 32 set.
ASSUME EmptyAssumption == Empty \notin Codes

FreeSlot == [trigram_code |-> Empty, posting_offset |-> 0, posting_count |-> 0]

VARIABLES
  words,        \* the names of the merged symbol table, in iteration order
  symbolsOf,    \* _trigram_to_symbols; a code never added maps to <<>>
  capacity,     \* number of slots of the table
  slots,        \* trigram_slots
  postings,     \* the posting array all lists are laid out in
  todo,         \* codes of `entries` the insertion loop has not placed yet
  code, idx,    \* the code inserted or looked up, and the slot it is at
  answer,       \* what lookup_trigram returned last
  pc

vars == <<words, symbolsOf, capacity, slots, postings, todo, code, idx, answer, pc>>

-----------------------------------------------------------------------------
(* Hashing *)

FibonacciHash(c) == (c * Golden) % HashSpace

\* The top bits of the hash: shifting right by 64 - log2(cap) is dividing
\* by HashSpace / cap.
HomeSlot(c, cap) == (FibonacciHash(c) * cap) \div HashSpace

\* Mutants of NextSlot: no mask, and a mask that leaves out the last slot.
NextSlotUnmasked(i) == i + 1
NextSlotShort(i) == (i + 1) % (capacity - 1)

\* idx + 1 masked with capacity - 1; the capacity is a power of two.
NextSlot(i) == (i + 1) % capacity

\* Mutant of Overloaded: the table may be filled to its last slot.
OverloadedWhenFull(count, cap) == count > cap

\* More entries than the load factor of 0.7 allows.
Overloaded(count, cap) == 10 * count > 7 * cap

Entries == {c \in Codes : symbolsOf[c] # <<>>}

\* std::ranges::sort and unique: the ascending list of the elements of list.
SortedUnique(list) ==
  {s \in UNION {[1 .. n -> Range(list)] : n \in 0 .. Len(list)} :
     /\ Range(s) = Range(list)
     /\ \A i, j \in DOMAIN s : i < j => s[i] < s[j]}

-----------------------------------------------------------------------------
(* Building *)

Init ==
  /\ words = <<>>
  /\ symbolsOf = [c \in Codes |-> <<>>]
  /\ capacity = MinCapacity
  /\ slots = [i \in {} |-> FreeSlot]
  /\ postings = <<>>
  /\ todo = {}
  /\ code = CHOOSE c \in Codes : TRUE
  /\ idx = 0
  /\ answer = <<>>
  /\ pc = "add"

\* Mutant of AddWord: an empty name uses up no id.
AddWordSkippingEmpty(w) ==
  /\ pc = "add"
  /\ Len(words) < MaxWords
  /\ words' = Append(words, w)
  /\ symbolsOf' = [c \in Codes |->
                    IF c \in w THEN Append(symbolsOf[c], Len(SelectSeq(words, LAMBDA v : v # {})))
                               ELSE symbolsOf[c]]
  /\ UNCHANGED <<capacity, slots, postings, todo, code, idx, answer, pc>>

\* add_word(sym_name, sym_idx++): the id is used up by an empty name too.
AddWord(w) ==
  /\ pc = "add"
  /\ Len(words) < MaxWords
  /\ words' = Append(words, w)
  /\ symbolsOf' = [c \in Codes |-> IF c \in w THEN Append(symbolsOf[c], Len(words))
                                              ELSE symbolsOf[c]]
  /\ UNCHANGED <<capacity, slots, postings, todo, code, idx, answer, pc>>

\* All names are in; trigram_capacity_for_count starts from its minimum.
StartTable ==
  /\ pc = "add"
  /\ pc' = "size"
  /\ UNCHANGED <<words, symbolsOf, capacity, slots, postings, todo, code, idx, answer>>

GrowCapacity ==
  /\ pc = "size"
  /\ Overloaded(Cardinality(Entries), capacity)
  /\ capacity' = 2 * capacity
  /\ UNCHANGED <<words, symbolsOf, slots, postings, todo, code, idx, answer, pc>>

\* Mutant of AllocateSlots: the capacity is never grown for the load.
AllocateSlotsAtOnce ==
  /\ pc = "size"
  /\ slots' = [i \in 0 .. capacity - 1 |-> FreeSlot]
  /\ todo' = Entries
  /\ pc' = "insert"
  /\ UNCHANGED <<words, symbolsOf, capacity, postings, code, idx, answer>>

AllocateSlots ==
  /\ pc = "size"
  /\ ~ Overloaded(Cardinality(Entries), capacity)
  /\ slots' = [i \in 0 .. capacity - 1 |-> FreeSlot]
  /\ todo' = Entries
  /\ pc' = "insert"
  /\ UNCHANGED <<words, symbolsOf, capacity, postings, code, idx, answer>>

\* The entries come in the order of an unordered_map, that is, in any order.
TakeEntry(c) ==
  /\ pc = "insert"
  /\ c \in todo
  /\ code' = c
  /\ idx' = HomeSlot(c, capacity)
  /\ pc' = "probe"
  /\ UNCHANGED <<words, symbolsOf, capacity, slots, postings, todo, answer>>

ProbeTaken ==
  /\ pc = "probe"
  /\ slots[idx].trigram_code # Empty
  /\ idx' = NextSlot(idx)
  /\ UNCHANGED <<words, symbolsOf, capacity, slots, postings, todo, code, answer, pc>>

\* Mutant of PlaceEntry: the slot is written without looking whether it is free.
PlaceEntryAnywhere ==
  /\ pc = "probe"
  /\ \E syms \in SortedUnique(symbolsOf[code]) :
       /\ slots' = [slots EXCEPT ![idx] = [trigram_code   |-> code,
                                           posting_offset |-> Len(postings),
                                           posting_count  |-> Len(syms)]]
       /\ postings' = postings \o syms
  /\ todo' = todo \ {code}
  /\ pc' = "insert"
  /\ UNCHANGED <<words, symbolsOf, capacity, code, idx, answer>>

PlaceEntry ==
  /\ pc = "probe"
  /\ slots[idx].trigram_code = Empty
  /\ \E syms \in SortedUnique(symbolsOf[code]) :
       /\ slots' = [slots EXCEPT ![idx] = [trigram_code   |-> code,
                                           posting_offset |-> Len(postings),
                                           posting_count  |-> Len(syms)]]
       /\ postings' = postings \o syms
  /\ todo' = todo \ {code}
  /\ pc' = "insert"
  /\ UNCHANGED <<words, symbolsOf, capacity, code, idx, answer>>

FinishTable ==
  /\ pc = "insert"
  /\ todo = {}
  /\ pc' = "ready"
  /\ UNCHANGED <<words, symbolsOf, capacity, slots, postings, todo, code, idx, answer>>

-----------------------------------------------------------------------------
(* Looking up *)

Lookup(c) ==
  /\ pc = "ready"
  /\ code' = c
  /\ idx' = HomeSlot(c, capacity)
  /\ pc' = "walk"
  /\ UNCHANGED <<words, symbolsOf, capacity, slots, postings, todo, answer>>

WalkOn ==
  /\ pc = "walk"
  /\ slots[idx].trigram_code \notin {Empty, code}
  /\ idx' = NextSlot(idx)
  /\ UNCHANGED <<words, symbolsOf, capacity, slots, postings, todo, code, answer, pc>>

\* Mutant of Hit: posting_count is taken for the end of a half-open stretch
\* that already starts at 1.
HitShort ==
  /\ pc = "walk"
  /\ slots[idx].trigram_code = code
  /\ LET slot == slots[idx] IN
       answer' = SubSeq(postings, slot.posting_offset + 1,
                                  slot.posting_offset + slot.posting_count - 1)
  /\ pc' = "answered"
  /\ UNCHANGED <<words, symbolsOf, capacity, slots, postings, todo, code, idx>>

Hit ==
  /\ pc = "walk"
  /\ slots[idx].trigram_code = code
  /\ LET slot == slots[idx] IN
       answer' = SubSeq(postings, slot.posting_offset + 1,
                                  slot.posting_offset + slot.posting_count)
  /\ pc' = "answered"
  /\ UNCHANGED <<words, symbolsOf, capacity, slots, postings, todo, code, idx>>

Miss ==
  /\ pc = "walk"
  /\ slots[idx].trigram_code = Empty
  /\ answer' = <<>>
  /\ pc' = "answered"
  /\ UNCHANGED <<words, symbolsOf, capacity, slots, postings, todo, code, idx>>

\* find_symbol_references goes on to the next trigram of its query.
NextQuery ==
  /\ pc = "answered"
  /\ pc' = "ready"
  /\ UNCHANGED <<words, symbolsOf, capacity, slots, postings, todo, code, idx, answer>>

Build ==
  \/ StartTable \/ GrowCapacity \/ AllocateSlots
  \/ \E c \in Codes : TakeEntry(c)
  \/ ProbeTaken \/ PlaceEntry \/ FinishTable

Walk == WalkOn \/ Hit \/ Miss

Next ==
  \/ \E w \in SUBSET Codes : AddWord(w)
  \/ Build
  \/ \E c \in Codes : Lookup(c)
  \/ Walk
  \/ NextQuery

Spec == Init /\ [][Next]_vars

\* The loops of the builder and of the lookup run to their end: each is
\* straight-line code of one thread that waits for nobody.
FairSpec == Spec /\ WF_vars(Build) /\ WF_vars(Walk)

-----------------------------------------------------------------------------
(* Properties *)

Slot == [trigram_code : Codes \cup {Empty}, posting_offset : Nat, posting_count : Nat]

TableSlots == IF pc \in {"add", "size"} THEN {} ELSE 0 .. capacity - 1

\* Every slot describes a stretch of the posting array.
SlotsOK ==
  /\ slots \in [TableSlots -> Slot]
  /\ \A i \in TableSlots : slots[i].posting_offset + slots[i].posting_count <= Len(postings)

TypeOK ==
  /\ words \in Seq(SUBSET Codes)
  /\ Len(words) <= MaxWords
  /\ symbolsOf \in [Codes -> Seq(Nat)]
  /\ capacity \in Nat \ {0}
  /\ SlotsOK
  /\ postings \in Seq(Nat)
  /\ todo \in SUBSET Codes
  /\ code \in Codes
  /\ idx \in Nat
  /\ pc \in {"probe", "walk"} => idx < capacity
  /\ answer \in Seq(Nat)
  /\ pc \in {"add", "size", "insert", "probe", "ready", "walk", "answered"}

\* The numbers of the names that contain c, from the names themselves.
IdsWith(c) == {i \in 0 .. Len(words) - 1 : c \in words[i + 1]}

\* s lists the names that contain c, every one once, in ascending order.
IsPostingListOf(s, c) ==
  /\ Range(s) = IdsWith(c)
  /\ \A i, j \in 1 .. Len(s) : i < j => s[i] < s[j]

\* A finished lookup answered exactly the symbols whose name contains the
\* trigram, whatever collided, wrapped around or was absent on the way.
LookupExact == pc = "answered" => IsPostingListOf(answer, code)

\* The slots a probe that started at h has passed when it first comes to i.
PathBefore(h, i) ==
  IF h <= i THEN h .. i - 1 ELSE (h .. capacity - 1) \cup (0 .. i - 1)

Taken(i) == slots[i].trigram_code # Empty

\* From the home slot of a stored code to the slot it was placed in, every
\* slot is taken: a walk from the home slot cannot stop before it.
ProbeChainsUnbroken ==
  \A i \in DOMAIN slots : Taken(i) =>
    \A j \in PathBefore(HomeSlot(slots[i].trigram_code, capacity), i) : Taken(j)

\* While a table is filled or looked up it has a free slot, so that neither
\* of the two unbounded probe loops runs around it for ever.
FreeSlotLeft ==
  pc \notin {"add", "size"} => \E i \in DOMAIN slots : ~ Taken(i)

\* Each slot describes a stretch of the posting array that is the posting
\* list of its code.
SlotDescribesList(i) ==
  LET slot == slots[i]
      first == slot.posting_offset
      count == slot.posting_count
  IN  /\ {postings[first + k] : k \in 1 .. count} = IdsWith(slot.trigram_code)
      /\ \A k, l \in 1 .. count : k < l => postings[first + k] < postings[first + l]

(* What LookupExact rests on.  The collected lists are right, each filled   *)
(* slot describes the list of its code, no entry is missing from the       *)
(* table, and the slots a probe has passed are taken, for a lookup by      *)
(* other codes.                                                            *)
CollectedRight == \A c \in Codes : IsPostingListOf(symbolsOf[c], c)

SlotsRight == \A i \in DOMAIN slots : Taken(i) => SlotDescribesList(i)

EntriesStored ==
  /\ pc \notin {"add", "size"} =>
       \A c \in Entries \ todo : \E i \in DOMAIN slots : slots[i].trigram_code = c
  /\ pc \in {"ready", "walk", "answered"} => todo = {}

ProbePassedTaken ==
  pc = "probe" => \A j \in PathBefore(HomeSlot(code, capacity), idx) : Taken(j)

WalkPassedOthers ==
  pc = "walk" => \A j \in PathBefore(HomeSlot(code, capacity), idx) :
                   slots[j].trigram_code \notin {Empty, code}

\* The inductive invariant behind LookupExact: every part above, together.
IndexInv ==
  /\ CollectedRight
  /\ SlotsRight
  /\ ProbeChainsUnbroken
  /\ EntriesStored
  /\ ProbePassedTaken
  /\ WalkPassedOthers
  /\ LookupExact

\* The inductive invariant behind FreeSlotLeft: no code is stored twice or
\* before its turn, and the capacity was chosen for the number of entries.
SpaceInv ==
  /\ \A i, j \in DOMAIN slots :
       Taken(i) /\ slots[i].trigram_code = slots[j].trigram_code => i = j
  /\ \A i \in DOMAIN slots : Taken(i) => slots[i].trigram_code \in Entries \ todo
  /\ todo \subseteq Entries
  /\ pc = "probe" => code \in todo
  /\ pc \notin {"add", "size"} => ~ Overloaded(Cardinality(Entries), capacity)

\* A slot that was filled keeps its entry and the posting array only grows,
\* so the offsets stored in the table stay right while it is built.
FilledSlotsStay ==
  [][/\ \A i \in DOMAIN slots : Taken(i) => slots'[i] = slots[i]
     /\ SubSeq(postings', 1, Len(postings)) = postings]_vars

\* Sizing and filling the table comes to an end.
TableFinishes == pc = "size" ~> pc = "ready"

\* `while (true)` of lookup_trigram comes to an end, for absent codes too:
\* the load factor leaves a free slot to stop at.
LookupTerminates == pc = "walk" ~> pc = "answered"

\* The table implements the abstract index.
Phase == CASE pc = "ready"    -> "frozen"
           [] pc = "walk"     -> "asked"
           [] pc = "answered" -> "answered"
           [] OTHER           -> "open"

Index == INSTANCE InvertedIndex WITH
           NoCode <- Empty,
           phase  <- Phase,
           query  <- IF pc \in {"walk", "answered"} THEN code ELSE Empty

ImplementsIndex == Index!Spec
=============================================================================
