---------------------------- MODULE FreePageList ----------------------------
(***************************************************************************)
(* The lists of free pages in a store's data file (free_page_list.cc,      *)
(* free_page_list_format.h).                                               *)
(*                                                                         *)
(* A list is a chain of list pages, themselves free pages.  A list page    *)
(* holds the number of the next list page and an array of free page        *)
(* numbers, filled up to NextEntryOffset.  Pages past the first are full.  *)
(* The store has one list, whose last page is not tracked, and every       *)
(* transaction has one, which is merged into the store's in the end.       *)
(*                                                                         *)
(* entries[p] is the filled part of p's array.  What lies behind it is     *)
(* never read, so storing an offset truncates or extends the sequence.     *)
(* Nor is a page that is no list page ever read as one: its entries are    *)
(* <<>> and its successor is kInvalidPageId here.                          *)
(* Whether a list page is in the pool, and what the pool does with the     *)
(* modified pages, is StoreImpl's business; here StorePage succeeds or     *)
(* fails.  Page numbers fit a size_t, so kDatabaseTooLarge is not returned. *)
(***************************************************************************)
EXTENDS Naturals, Sequences, FiniteSets, Functions

CONSTANTS Pages,           \* the pages of the data file, without the header
          kInvalidPageId,  \* page number 0: no page, and the header page
          StoreList,       \* the store's list
          TxnLists,        \* the transactions' lists
          PageSize,        \* the pool's page_size()
          kGlobalMagic,    \* the header page's first 8 bytes, as a number
          kStoreMagic      \* the header page's next 8 bytes

kFirstEntryOffset == 16
kEntrySize == 8

ASSUME FormatAssumption ==
  /\ PageSize \in Nat /\ PageSize > kFirstEntryOffset
  /\ PageSize % kEntrySize = 0
  /\ kGlobalMagic \in Nat /\ kGlobalMagic >= PageSize

ASSUME ListAssumption ==
  /\ IsFiniteSet(Pages) /\ kInvalidPageId \notin Pages
  /\ StoreList \notin TxnLists

FreeLists == {StoreList} \union TxnLists

VARIABLES head_page_id,  \* FreePageList::head_page_id_
          tail_page_id,  \* FreePageList::tail_page_id_
          was_merged,    \* FreePageList::was_merged_
          next_page_id,  \* the list pages' NextPageId64
          entries,       \* the list pages' entries
          used,          \* the pages that the callers use
          free,          \* what each list should hold, by the calls made
          status         \* what the last call returned

listVars == <<head_page_id, tail_page_id, was_merged>>
vars == <<listVars, next_page_id, entries, used, free, status>>

is_empty(l) == head_page_id[l] = kInvalidPageId

\* The header page read as a list page shows the header's magic numbers.
NextEntryOffset(p) ==
  IF p = kInvalidPageId THEN kGlobalMagic
  ELSE kFirstEntryOffset + kEntrySize * Len(entries[p])

NextPageId64(p) == IF p = kInvalidPageId THEN kStoreMagic ELSE next_page_id[p]

IsCorruptEntryOffset(offset) == offset >= PageSize \/ offset % kEntrySize # 0

\* A StorePage call failed, before the list or any page was changed.
StorePageFails ==
  /\ status' = "kIoError"
  /\ UNCHANGED <<listVars, next_page_id, entries, used, free>>

-----------------------------------------------------------------------------
(* FreePageList::Pop *)

\* Mutant: the entry stays in the list page.
PopEntryStays(l) ==
  LET h == head_page_id[l]
      id == entries[h][Len(entries[h])]
  IN  /\ ~is_empty(l)
      /\ NextEntryOffset(h) # kFirstEntryOffset
      /\ used' = used \union {id}
      /\ free' = [free EXCEPT ![l] = @ \ {id}]
      /\ status' = "kSuccess"
      /\ UNCHANGED <<listVars, next_page_id, entries>>

\* Take the last entry of the head page.
PopEntry(l) ==
  LET h == head_page_id[l]
      offset == NextEntryOffset(h) - kEntrySize
      id == entries[h][Len(entries[h])]
  IN  /\ ~is_empty(l)
      /\ NextEntryOffset(h) # kFirstEntryOffset
      /\ ~IsCorruptEntryOffset(offset)
      /\ entries' = [entries EXCEPT ![h] = SubSeq(@, 1, Len(@) - 1)]
      /\ used' = used \union {id}
      /\ free' = [free EXCEPT ![l] = @ \ {id}]
      /\ status' = "kSuccess"
      /\ UNCHANGED <<listVars, next_page_id>>

\* The head page has no entries left: take the page itself.
PopPage(l) ==
  LET h == head_page_id[l]
  IN  /\ ~is_empty(l)
      /\ NextEntryOffset(h) = kFirstEntryOffset
      /\ head_page_id' = [head_page_id EXCEPT ![l] = NextPageId64(h)]
      /\ tail_page_id' = IF NextPageId64(h) = kInvalidPageId
                         THEN [tail_page_id EXCEPT ![l] = kInvalidPageId]
                         ELSE tail_page_id
      /\ used' = used \union {h}
      /\ next_page_id' = [next_page_id EXCEPT ![h] = kInvalidPageId]
      /\ free' = [free EXCEPT ![l] = @ \ {h}]
      /\ status' = "kSuccess"
      /\ UNCHANGED <<was_merged, entries>>

\* An empty list has kInvalidPageId to give.
PopNothing ==
  /\ status' = "kSuccess"
  /\ UNCHANGED <<listVars, next_page_id, entries, used, free>>

Pop(l) ==
  /\ ~was_merged[l]
  /\ \/ PopEntry(l)
     \/ PopPage(l)
     \/ ~is_empty(l) /\ StorePageFails
     \/ is_empty(l) /\ PopNothing

-----------------------------------------------------------------------------
(* FreePageList::Push *)

Pushed(l, p) ==
  /\ used' = used \ {p}
  /\ free' = [free EXCEPT ![l] = @ \union {p}]
  /\ status' = "kSuccess"

\* The head page is missing or full.
NeedsListPage(l) ==
  is_empty(l) \/ NextEntryOffset(head_page_id[l]) >= PageSize

\* Mutant: one entry is written past the end of the page.
PushEntryPastEnd(l, p) ==
  LET h == head_page_id[l]
  IN  /\ ~is_empty(l)
      /\ NextEntryOffset(h) <= PageSize
      /\ entries' = [entries EXCEPT ![h] = Append(@, p)]
      /\ Pushed(l, p)
      /\ UNCHANGED <<listVars, next_page_id>>

PushEntry(l, p) ==
  LET h == head_page_id[l]
  IN  /\ ~NeedsListPage(l)
      /\ ~IsCorruptEntryOffset(NextEntryOffset(h))
      /\ entries' = [entries EXCEPT ![h] = Append(@, p)]
      /\ Pushed(l, p)
      /\ UNCHANGED <<listVars, next_page_id>>

\* Mutant: the first page is not recorded as the tail.
PushPageForgetsTail(l, p) ==
  /\ NeedsListPage(l)
  /\ entries' = [entries EXCEPT ![p] = <<>>]
  /\ next_page_id' = [next_page_id EXCEPT ![p] = head_page_id[l]]
  /\ head_page_id' = [head_page_id EXCEPT ![l] = p]
  /\ Pushed(l, p)
  /\ UNCHANGED <<was_merged, tail_page_id>>

\* Mutant: a list page is added before the head page is full.
PushPageTooEarly(l, p) ==
  /\ entries' = [entries EXCEPT ![p] = <<>>]
  /\ next_page_id' = [next_page_id EXCEPT ![p] = head_page_id[l]]
  /\ tail_page_id' = IF is_empty(l) THEN [tail_page_id EXCEPT ![l] = p]
                     ELSE tail_page_id
  /\ head_page_id' = [head_page_id EXCEPT ![l] = p]
  /\ Pushed(l, p)
  /\ UNCHANGED was_merged

\* The freed page becomes the list's head page.
PushPage(l, p) ==
  /\ NeedsListPage(l)
  /\ entries' = [entries EXCEPT ![p] = <<>>]
  /\ next_page_id' = [next_page_id EXCEPT ![p] = head_page_id[l]]
  /\ tail_page_id' = IF is_empty(l) THEN [tail_page_id EXCEPT ![l] = p]
                     ELSE tail_page_id
  /\ head_page_id' = [head_page_id EXCEPT ![l] = p]
  /\ Pushed(l, p)
  /\ UNCHANGED was_merged

\* A caller frees a page that it uses.
Push(l, p) ==
  /\ ~was_merged[l]
  /\ p \in used
  /\ PushEntry(l, p) \/ PushPage(l, p) \/ StorePageFails

-----------------------------------------------------------------------------
(* FreePageList::Merge of a transaction's list into the store's *)

\* The list pages after step 1: the other list's last page is followed by this
\* list's second page, unless the other list has a single page.
FullPagesChained(o) ==
  IF tail_page_id[o] = head_page_id[o] THEN next_page_id
  ELSE [next_page_id EXCEPT ![tail_page_id[o]] =
                              NextPageId64(head_page_id[StoreList])]

\* The other head page's entries and its own number fit this list's head page.
HeadsFit(h, oh) ==
  NextEntryOffset(h) + (NextEntryOffset(oh) - kFirstEntryOffset) < PageSize

\* Step 2, when they fit: the other head page stops being a list page.
JoinHeads(h, oh, next) ==
  /\ entries' = [entries EXCEPT ![h] = @ \o <<oh>> \o entries[oh],
                               ![oh] = <<>>]
  /\ next_page_id' = [next EXCEPT ![oh] = kInvalidPageId]

\* Mutant: the entries moved to the other head page stay in this one.
FillOtherHeadCopies(h, oh, next) ==
  LET moved == (PageSize - NextEntryOffset(oh)) \div kEntrySize
      kept == Len(entries[h]) - moved
  IN  /\ entries' = [entries EXCEPT ![oh] =
                       @ \o SubSeq(entries[h], kept + 1, Len(entries[h]))]
      /\ next_page_id' = [next EXCEPT ![h] = oh]

\* Step 2, when they do not: this page's last entries fill up the other page,
\* which becomes this page's successor.
FillOtherHead(h, oh, next) ==
  LET moved == (PageSize - NextEntryOffset(oh)) \div kEntrySize
      kept == Len(entries[h]) - moved
  IN  /\ entries' = [entries EXCEPT
                       ![h] = SubSeq(@, 1, kept),
                       ![oh] = @ \o SubSeq(entries[h], kept + 1, Len(entries[h]))]
      /\ next_page_id' = [next EXCEPT ![h] = oh]

\* One of the heads' offsets is taken for corrupt, after step 1.
MergeIsRefused(h, oh) ==
  \/ IsCorruptEntryOffset(NextEntryOffset(h))
  \/ IsCorruptEntryOffset(NextEntryOffset(oh))

MergePages(o) ==
  LET h == head_page_id[StoreList]
      oh == head_page_id[o]
  IN  /\ ~is_empty(o)
      /\ \/ /\ MergeIsRefused(h, oh)
            /\ next_page_id' = FullPagesChained(o)
            /\ status' = "kDataCorrupted"
            /\ UNCHANGED <<entries, free>>
         \/ /\ ~MergeIsRefused(h, oh)
            /\ IF HeadsFit(h, oh)
               THEN JoinHeads(h, oh, FullPagesChained(o))
               ELSE FillOtherHead(h, oh, FullPagesChained(o))
            /\ free' = [free EXCEPT ![StoreList] = @ \union free[o]]
            /\ status' = "kSuccess"

Merge(o) ==
  /\ ~was_merged[o]
  /\ was_merged' = [was_merged EXCEPT ![o] = TRUE]
  /\ \/ MergePages(o)
     \/ /\ is_empty(o)
        /\ status' = "kSuccess"
        /\ UNCHANGED <<next_page_id, entries, free>>
     \/ /\ ~is_empty(o)
        /\ status' = "kIoError"
        /\ UNCHANGED <<next_page_id, entries, free>>
  /\ UNCHANGED <<head_page_id, tail_page_id, used>>

-----------------------------------------------------------------------------
\* All lists are empty.  The pages' contents do not matter yet.
Init ==
  /\ head_page_id = [l \in FreeLists |-> kInvalidPageId]
  /\ tail_page_id = [l \in FreeLists |-> kInvalidPageId]
  /\ was_merged = [l \in FreeLists |-> FALSE]
  /\ next_page_id = [p \in Pages |-> kInvalidPageId]
  /\ entries = [p \in Pages |-> <<>>]
  /\ used = Pages
  /\ free = [l \in FreeLists |-> {}]
  /\ status = "kSuccess"

Next ==
  \/ \E l \in FreeLists : Pop(l)
  \/ \E l \in FreeLists, p \in Pages : Push(l, p)
  \/ \E o \in TxnLists : Merge(o)

Spec == Init /\ [][Next]_vars

-----------------------------------------------------------------------------
(* Properties *)

EntriesPerPage == (PageSize - kFirstEntryOffset) \div kEntrySize

LiveLists == {l \in FreeLists : ~was_merged[l]}

\* The list pages from page p on, at most n of them, last page first.
ChainFrom[n \in Nat] ==
  [p \in Pages \union {kInvalidPageId, kStoreMagic} |->
     IF n = 0 \/ p \notin Pages THEN <<>>
     ELSE Append(ChainFrom[n - 1][next_page_id[p]], p)]

Chain(l) == ChainFrom[Cardinality(Pages)][head_page_id[l]]

\* The list pages of chain c, each followed by its entries.
WithEntries(c) ==
  LET UpTo[n \in 0..Len(c)] ==
        IF n = 0 THEN <<>> ELSE UpTo[n - 1] \o <<c[n]>> \o entries[c[n]]
  IN  UpTo[Len(c)]

\* The free pages of the list, in the order in which they were pushed.
Contents(l) == WithEntries(Chain(l))

FreePages(l) == Range(Contents(l))

\* The variables' types.  No list page holds more than it has room for.
TypeOK ==
  /\ head_page_id \in [FreeLists -> Pages \union {kInvalidPageId}]
  /\ tail_page_id \in [FreeLists -> Pages \union {kInvalidPageId}]
  /\ was_merged \in [FreeLists -> BOOLEAN]
  /\ next_page_id \in [Pages -> Pages \union {kInvalidPageId, kStoreMagic}]
  /\ entries \in [Pages -> Seq(Pages)]
  /\ \A p \in Pages : Len(entries[p]) <= EntriesPerPage
  /\ used \in SUBSET Pages
  /\ free \in [FreeLists -> SUBSET Pages]
  /\ status \in {"kSuccess", "kIoError", "kDataCorrupted"}

\* Pop never hands out a page that is in use, or the same page twice: a page
\* is at most once on one of the lists, and then nobody uses it.  It holds
\* through merges, failed ones included.
NoPageIsFreeTwice ==
  \A l \in LiveLists :
    /\ IsInjective(Contents(l))
    /\ FreePages(l) \intersect used = {}
    /\ \A k \in LiveLists \ {l} : FreePages(l) \intersect FreePages(k) = {}

\* "Each list is a (potentially) non-full page, followed by full pages"
\* (free_page_list.cc:218), which is what Merge's step 1 relies on.
PagesAfterHeadAreFull ==
  \A l \in LiveLists : \A i \in 1..(Len(Chain(l)) - 1) :
    Len(entries[Chain(l)[i]]) = EntriesPerPage

\* A transaction's list knows its last page, to which Merge links the store's
\* full pages.
TailIsTheLastPage ==
  \A l \in LiveLists \intersect TxnLists :
    tail_page_id[l] = IF is_empty(l) THEN kInvalidPageId ELSE Chain(l)[1]

\* A list holds the pages that the calls put there: "Merges another list's
\* pages into this list" (free_page_list.h:71).
ListsHoldTheirPages ==
  \A l \in LiveLists : FreePages(l) = free[l]

Stack == INSTANCE FreePageStack WITH
  stack <- [l \in FreeLists |-> IF was_merged[l] THEN <<>> ELSE Contents(l)],
  in_use <- used

\* A list is a stack: Push and Pop work on its end, whether that is an entry or
\* a list page, and calls that fail change nothing.  A merge adds nothing to
\* the store's list but pages of the merged list, each once.
IsFreePageStack == Stack!StackSpec
=============================================================================
