------------------------------ MODULE Formats ------------------------------
(***************************************************************************)
(* What the library keeps in pages, byte by byte: 64-bit numbers           *)
(* (endianness.h), the fields of a list page (free_page_list_format.h) and *)
(* the store header (format/store_header.cc).  FreePageList and StoreFiles *)
(* take the fields of the last two as they are.  Of spans there is what    *)
(* these need.                                                             *)
(*                                                                         *)
(* A 64-bit number is the sequence of its eight bytes, the most            *)
(* significant one first; a size_t has 64 bits too.                        *)
(***************************************************************************)
EXTENDS Integers, Sequences

CONSTANT LittleEndian   \* does the platform store a number's low byte first?

VARIABLES memory,    \* the bytes of the test's arrays, by address
          header,    \* a StoreHeader
          accepted   \* what Deserialize last returned

memoryVars == <<memory, header, accepted>>

nullptr == -1

-----------------------------------------------------------------------------
(* span *)

Span(data, size) == [data |-> data, size |-> size]

first(s, count) == Span(s.data, count)
last(s, count) == Span(s.data + (s.size - count), count)
subspan(s, pos, count) == Span(s.data + pos, count)

Elements(s) == [i \in 1..s.size |-> memory[s.data + i - 1]]

Addresses(s) == {a \in DOMAIN memory : s.data <= a /\ a < s.data + s.size}

\* memory with the bytes x at the beginning of the span s.
Stored(s, x) ==
  [a \in DOMAIN memory |->
     IF a \in Addresses(first(s, Len(x))) THEN x[a - s.data + 1] ELSE memory[a]]

FillSpan(s, value) ==
  /\ memory' = Stored(s, [i \in 1..s.size |-> value])
  /\ UNCHANGED <<header, accepted>>

-----------------------------------------------------------------------------
(* 64-bit numbers *)

\* A number's bytes in the order of their addresses, and back.
Platform(value) ==
  IF LittleEndian THEN [i \in 1..8 |-> value[9 - i]] ELSE value

IsAligned(s) == s.data # nullptr /\ s.data % 8 = 0 /\ s.size = 8

LoadUint64(from) == Platform(Elements(from))

StoreUint64(value, to) ==
  /\ IsAligned(to)
  /\ memory' = Stored(to, Platform(value))
  /\ UNCHANGED <<header, accepted>>

UInt64(n) == [i \in 1..8 |-> IF i <= 4 THEN 0 ELSE (n \div 256^(8 - i)) % 256]

-----------------------------------------------------------------------------
(* FreePageListFormat *)

kNextEntryOffset == 0
kNextPageIdOffset == 8
kEntrySize == 8

NextEntryOffset(page) == LoadUint64(subspan(page, kNextEntryOffset, 8))

SetNextEntryOffset(offset, page) ==
  StoreUint64(offset, subspan(page, kNextEntryOffset, 8))

NextPageId64(page) == LoadUint64(subspan(page, kNextPageIdOffset, 8))

\* Mutant: the two fields overlap.
SetNextPageId64AtStart(id, page) ==
  StoreUint64(id, subspan(page, kNextEntryOffset, 8))

SetNextPageId64(id, page) ==
  StoreUint64(id, subspan(page, kNextPageIdOffset, 8))

IsCorruptEntryOffset(offset, page_size) ==
  offset >= page_size \/ offset % kEntrySize # 0

-----------------------------------------------------------------------------
(* StoreHeader *)

kSerializedSize == 48
kGlobalMagic == <<66, 101, 114, 114, 121, 68, 66, 32>>
kStoreMagic == <<68, 66, 83, 116, 111, 114, 101, 32>>
kInvalidFreeListHeadPage == UInt64(0)

\* The page_shift byte overwrites a byte of the last word, and it is the one at
\* offset 40 whatever the order of a number's bytes.
Serialize(h, to) ==
  /\ memory' = Stored(to, Platform(kGlobalMagic) \o Platform(kStoreMagic) \o
                 Platform(UInt64(0)) \o Platform(h.page_count) \o
                 Platform(h.free_list_head_page) \o
                 [Platform(UInt64(0)) EXCEPT ![1] = h.page_shift])
  /\ UNCHANGED <<header, accepted>>

\* The members are assigned on the way, also by a call that fails.
Deserialize(from) ==
  LET word(n) == LoadUint64(subspan(from, 8 * n, 8))
      head == word(4)
      page_shift == memory[from.data + 40]
  IN  /\ IF word(0) # kGlobalMagic \/ word(1) # kStoreMagic \/ word(2) # UInt64(0)
         THEN accepted' = FALSE /\ UNCHANGED header
         ELSE /\ accepted' = (head # kInvalidFreeListHeadPage /\ page_shift < 32)
              /\ header' = [page_count |-> word(3), free_list_head_page |-> head,
                            page_shift |-> IF head = kInvalidFreeListHeadPage
                                           THEN header.page_shift ELSE page_shift]
      /\ UNCHANGED memory
=============================================================================
