---------------------------- MODULE StoreHeader ----------------------------
(***************************************************************************)
(* The store header (format/store_header.cc), as it is kept in a StoreImpl *)
(* and as the first six 64-bit words of the data file's page 0.  Formats   *)
(* has the header's bytes, and Deserialize, which StoreImpl does not call. *)
(***************************************************************************)
EXTENDS Naturals, Sequences

CONSTANTS kGlobalMagic, kStoreMagic,
          PageShift   \* the page_shift of the pools

ASSUME HeaderAssumption ==
  /\ kGlobalMagic \in Nat \ {0} /\ kStoreMagic \in Nat \ {0}
  /\ PageShift \in 1..31

kInvalidFreeListHeadPage == 0

\* StoreHeader::StoreHeader.  In release builds free_list_head_page starts out
\* undefined; Bootstrap sets it before the header is written.
NewHeader(page_count) ==
  [page_count |-> page_count,
   free_list_head_page |-> kInvalidFreeListHeadPage,
   page_shift |-> PageShift]

Serialize(h) ==
  <<kGlobalMagic, kStoreMagic, 0, h.page_count, h.free_list_head_page,
    h.page_shift>>
=============================================================================
