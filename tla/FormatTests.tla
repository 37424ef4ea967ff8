---------------------------- MODULE FormatTests ----------------------------
(***************************************************************************)
(* The tests of 64-bit numbers (util/endianness_unittest.cc), list pages   *)
(* (free_page_list_format_unittest.cc) and the store header                *)
(* (format/store_header_unittest.cc), as scripts for the model of memory.  *)
(* An array of a test begins at address 0 unless it says otherwise, and    *)
(* its list pages have 64 bytes.                                           *)
(***************************************************************************)
EXTENDS Formats, TestScript, FiniteSets

kMemorySize == 96

FormatInit ==
  /\ memory = [a \in 0..kMemorySize - 1 |-> 205]
  /\ header = [page_count |-> UInt64(0), free_list_head_page |-> UInt64(0),
               page_shift |-> 0]
  /\ accepted = FALSE

FormatCall ==
  \/ Now("Set") /\ memory' = Stored(Span(Arg(1), Len(Arg(2))), Arg(2))
                /\ UNCHANGED <<header, accepted>>
  \/ Now("FillSpan") /\ FillSpan(Arg(1), Arg(2))
  \/ Now("StoreUint64") /\ StoreUint64(Arg(1), Arg(2))
  \/ Now("SetNextEntryOffset") /\ SetNextEntryOffset(Arg(1), Arg(2))
  \/ Now("SetNextPageId64") /\ SetNextPageId64(Arg(1), Arg(2))
  \/ Now("Serialize") /\ Serialize(Arg(1), Arg(2))
  \/ Now("Deserialize") /\ Deserialize(Arg(1))
  \/ Now("Expect") /\ UNCHANGED memoryVars

-----------------------------------------------------------------------------
(* 64-bit numbers, list pages and headers, in arrays of bytes *)

Reads(s, x) == Expect(<<"elements", s>>, [elements |-> x])

magic1 == kGlobalMagic
magic2 == kStoreMagic
Loads(s, value) == Expect(<<"load", s>>, [value |-> value])
Unwritten(n) == [i \in 1..n |-> 205]

LoadMatchesStore ==
  LET buffer == Span(0, 32)
  IN  << <<"FillSpan", buffer, 205>>,
         <<"StoreUint64", magic1, subspan(buffer, 8, 8)>>,
         Reads(first(buffer, 8), Unwritten(8)), Reads(last(buffer, 16), Unwritten(16)),
         Loads(subspan(buffer, 8, 8), magic1),
         <<"StoreUint64", magic2, subspan(buffer, 8, 8)>>,
         Loads(subspan(buffer, 8, 8), magic2),
         <<"StoreUint64", magic1, subspan(buffer, 16, 8)>>,
         Loads(subspan(buffer, 8, 8), magic2), Loads(subspan(buffer, 16, 8), magic1),
         Loads(subspan(buffer, 0, 8), Unwritten(8)),
         Loads(subspan(buffer, 24, 8), Unwritten(8)) >>

ListPage == Span(0, 64)
next_entry_offset == <<0, 0, 0, 0, 18, 52, 86, 120>>
next_page_id64 == <<18, 52, 86, 120, 144, 171, 205, 239>>
FillListPage == <<"FillSpan", ListPage, 204>>
BytesChanged(n) == Expect(<<"page">>, [bytes_changed |-> n])

NextEntryOffsetTest ==
  << FillListPage, <<"SetNextEntryOffset", next_entry_offset, ListPage>>,
     Expect(<<"page">>, [offset |-> next_entry_offset]), BytesChanged(8) >>

NextPageId64Test ==
  << FillListPage, <<"SetNextPageId64", next_page_id64, ListPage>>,
     Expect(<<"page">>, [next |-> next_page_id64]), BytesChanged(8) >>

PageFields ==
  << FillListPage, <<"SetNextEntryOffset", next_entry_offset, ListPage>>,
     <<"SetNextPageId64", next_page_id64, ListPage>>,
     Expect(<<"page">>, [offset |-> next_entry_offset, next |-> next_page_id64]),
     BytesChanged(16) >>

OffsetIs(corrupt, offset, page_size) ==
  Expect(<<"offset", offset, page_size>>, [corrupt |-> corrupt])

IsCorruptEntryOffsetTest ==
  << OffsetIs(FALSE, 16, 256) >> \o
  ForEach(7, LAMBDA i : << OffsetIs(TRUE, 16 + i, 256) >>) \o
  << OffsetIs(FALSE, 24, 256) >> \o
  ForEach(7, LAMBDA i : << OffsetIs(TRUE, 24 + i, 256) >>) \o
  << OffsetIs(FALSE, 32, 256), OffsetIs(FALSE, 248, 256), OffsetIs(TRUE, 256, 256),
     OffsetIs(TRUE, 1024, 256), OffsetIs(FALSE, 256, 1024),
     OffsetIs(TRUE, 1024, 1024) >>

TestHeader ==
  [page_count |-> <<0, 0, 0, 0, 192, 222, 205, 239>>,
   free_list_head_page |-> <<0, 0, 0, 0, 18, 52, 86, 120>>, page_shift |-> 12]

HeaderIs(r) == Expect(<<"header">>, r)

SerializeDeserialize ==
  LET buffer == Span(0, 2 * kSerializedSize)
  IN  << <<"FillSpan", buffer, 205>>, <<"Serialize", TestHeader, buffer>>,
         Reads(last(buffer, kSerializedSize), Unwritten(kSerializedSize)),
         <<"Deserialize", buffer>>,
         HeaderIs([accepted |-> TRUE, header |-> TestHeader]) >>

\* Serialize's first 24 bytes, as they are in the buffer.
FixedBytes == Platform(kGlobalMagic) \o Platform(kStoreMagic) \o Platform(UInt64(0))

\* buffer[n - 1] ^= 1 << j
Flipped(n, j) ==
  IF (FixedBytes[n] \div 2^j) % 2 = 0 THEN FixedBytes[n] + 2^j ELSE FixedBytes[n] - 2^j

HeaderErrors ==
  LET buffer == Span(0, kSerializedSize)
      accepts(b) == << <<"Deserialize", buffer>>, HeaderIs([accepted |-> b]) >>
  IN  << <<"Serialize", TestHeader, buffer>> >> \o accepts(TRUE) \o
      ForEach(24, LAMBDA n : ForEach(8, LAMBDA j :
        << <<"Set", n - 1, <<Flipped(n, j - 1)>>>> >> \o accepts(FALSE) \o
        << <<"Set", n - 1, <<FixedBytes[n]>>>> >> \o accepts(TRUE)))

-----------------------------------------------------------------------------
FormatTestCases ==
  \/ script = LoadMatchesStore
  \/ script = NextEntryOffsetTest
  \/ script = NextPageId64Test
  \/ script = PageFields
  \/ script = IsCorruptEntryOffsetTest
  \/ script = SerializeDeserialize
  \/ script = HeaderErrors

RunFormatTest == FormatCall /\ Advance

FormatSees(x, k) ==
  CASE x[1] = "elements"                 -> Elements(x[2])
    [] x[1] = "load"                     -> LoadUint64(x[2])
    [] x[1] = "page" /\ k = "offset"     -> NextEntryOffset(ListPage)
    [] x[1] = "page" /\ k = "next"       -> NextPageId64(ListPage)
    [] x[1] = "page" /\ k = "bytes_changed" ->
         Cardinality({a \in Addresses(ListPage) : memory[a] # 204})
    [] x[1] = "offset"                   -> IsCorruptEntryOffset(x[2], x[3])
    [] x[1] = "header" /\ k = "accepted" -> accepted
    [] x[1] = "header" /\ k = "header"   -> header

FormatExpectationHolds ==
  Now("Expect") => \A k \in DOMAIN Arg(2) : Arg(2)[k] = FormatSees(Arg(1), k)
=============================================================================
