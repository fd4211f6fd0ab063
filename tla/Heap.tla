--------------------------------- MODULE Heap ----------------------------------
(* The heap every allocation of both programs comes from                     *)
(* (Arsenal/Common/heap.c under memory.c).  Small blocks are cut one after   *)
(* another from a page and kept in one free list for each size; a medium     *)
(* block is an entry of a page whose entries split and merge; a large block  *)
(* has a page of its own.  Pages come from malloc and are told apart by      *)
(* their address alone, which the heap never compares: which unused one      *)
(* malloc gives makes no difference.                                         *)
(*                                                                           *)
(* A place in a page is <<page, offset>>, and a block is known by the place  *)
(* its user gets.  The lists of small blocks and of small pages, linked one  *)
(* way and used at their head only, are sequences; the others are linked as  *)
(* the code links them.  The peak of the memory used is only logged and left *)
(* out, and so is the reallocation no caller is left of (memory.c:167).      *)
EXTENDS Integers, Sequences, FiniteSets

CONSTANTS
    Page, Null,
    Align,        \* AR_HEAP_ALIGN
    PageSize,     \* PAGE_SIZE: data of a page of small or of medium blocks
    PageHeader,   \* sizeof(page_t)
    PointerSize,  \* sizeof(void*)
    SmallSize, MediumSize,       \* the largest small and medium request
    MediumHeader, LargeHeader,   \* both aligned
    Loads         \* bound: [sizes |-> ..., most |-> ..., pages |-> ...], the sizes
                  \* a program asks for, how many blocks of them it uses at a
                  \* time, and how many pages malloc has for it

ASSUME HeapAssumption ==
    /\ {Align, PageSize, SmallSize, MediumSize, PointerSize} \subseteq Nat \ {0}
    /\ {PageHeader, MediumHeader, LargeHeader} \subseteq Nat
    /\ (SmallSize + 1) % Align = 0 /\ PageSize % Align = 0
    /\ MediumHeader % Align = 0 /\ LargeHeader % Align = 0
    /\ Align > 1 /\ PointerSize <= SmallSize /\ SmallSize < MediumSize
    /\ SmallSize + 2 * Align <= PageSize
    /\ MediumHeader + MediumSize < PageSize

\* What malloc gives is an address, and a load has no more pages than there are.
ASSUME PageAssumption ==
    /\ IsFiniteSet(Page) /\ Page # {}
    /\ Null \notin Page /\ Null \notin Page \X Nat
    /\ \A l \in Loads : /\ l.sizes \subseteq Nat \ {0}
                        /\ {l.most, l.pages} \subseteq Nat
                        /\ l.pages <= Cardinality(Page)

VARIABLES
    heap,   \* the heap with the memory it manages
    held,   \* the bytes asked for of every block in use
    load    \* of the program

heap_vars == <<heap, held, load>>

AlignSize(n) == ((n + Align - 1) \div Align) * Align

SmallHeader == 2

SmallAlign(n) == AlignSize(n + SmallHeader) - SmallHeader

MediumSmallest == AlignSize(SmallSize + 1) + MediumHeader

Indices == 0 .. (SmallSize + 1) \div Align

-----------------------------------------------------------------------------
(* Pages.                                                                    *)

HasPage(h) == Cardinality(DOMAIN h.page) < load.pages

NewPage(h) == CHOOSE p \in Page : p \notin DOMAIN h.page

\* A map with x in it, or another value of x.
With(f, x, v) == [y \in DOMAIN f \cup {x} |-> IF y = x THEN v ELSE f[y]]

Without(f, S) == [x \in DOMAIN f \ S |-> f[x]]

AllocatePage(h, p, bytes) ==
    [h EXCEPT !.page = With(@, p, [data_size |-> bytes, next |-> Null, prev |-> Null,
                                   largest_free |-> 0, first_free |-> Null]),
              !.page_allocated = @ + 1,
              !.actual_mem_used = @ + bytes + PageHeader]

FreePage(h, p) ==
    [h EXCEPT !.page = Without(@, {p}),
              !.entry = Without(@, {e \in DOMAIN @ : e[1] = p}),
              !.page_allocated = @ - 1,
              !.actual_mem_used = @ - h.page[p].data_size - PageHeader]

\* An assignment through a pointer that may be NULL, and is then left out.
SetPage(h, p, field, value) ==
    IF p = Null THEN h ELSE [h EXCEPT !.page[p][field] = value]

SetEntry(h, e, field, value) ==
    IF e = Null THEN h ELSE [h EXCEPT !.entry[e][field] = value]

\* The neighbours of p in its list are linked with each other.
UnlinkPage(h, p) ==
    LET r == h.page[p]
    IN  SetPage(SetPage(h, r.prev, "next", r.next), r.next, "prev", r.prev)

\* In front of the list that begins with first.
PushPage(h, p, first) ==
    SetPage([h EXCEPT !.page[p].prev = Null, !.page[p].next = first], first, "prev", p)

\* Along next: longer than there are pages if it goes round.
Pages(h, first) ==
    LET next(s) == h.page[s[Len(s)]].next
        list[k \in 0 .. Cardinality(Page)] ==
            IF k = 0 THEN IF first = Null THEN <<>> ELSE <<first>>
            ELSE IF list[k - 1] = <<>> THEN <<>>
            ELSE IF next(list[k - 1]) = Null THEN list[k - 1]
            ELSE Append(list[k - 1], next(list[k - 1]))
    IN  list[Cardinality(Page)]

-----------------------------------------------------------------------------
(* Small blocks.  idx is the size of one in its header.                      *)

Mark(h, ptr, kind) == [h EXCEPT !.mark = With(@, ptr, kind)]

Unmark(h, ptr) == [h EXCEPT !.mark = Without(@, {ptr})]

SmallCut(h, bytes) ==
    LET ptr == <<h.small_cur_page, h.small_cur_page_offset + SmallHeader>>
    IN  [heap |-> Mark([h EXCEPT !.idx = With(@, ptr, bytes \div Align),
                                 !.small_cur_page_offset = @ + bytes + SmallHeader],
                       ptr, "small"),
         ptr |-> ptr]

\* What is left of the old page is never used.
SmallNewPage(h) ==
    LET p == NewPage(h)
    IN  [AllocatePage(h, p, PageSize) EXCEPT
            !.small_used_pages = <<h.small_cur_page>> \o @,
            !.small_cur_page = p,
            !.small_cur_page_offset = SmallAlign(0)]

Failed(h) == [heap |-> h, ptr |-> Null]

SmallAllocate(h, n) ==
    LET bytes == SmallAlign(IF n < PointerSize THEN PointerSize ELSE n)
        free == h.small_first_free[bytes \div Align]
        left == h.page[h.small_cur_page].data_size - h.small_cur_page_offset
    IN  IF free # <<>>
        THEN [heap |-> Mark([h EXCEPT !.small_first_free[bytes \div Align] = Tail(@)],
                            Head(free), "small"),
              ptr |-> Head(free)]
        ELSE IF bytes + SmallHeader <= left THEN SmallCut(h, bytes)
        ELSE IF HasPage(h) THEN SmallCut(SmallNewPage(h), bytes)
        ELSE Failed(h)

SmallFree(h, ptr) ==
    [Unmark(h, ptr) EXCEPT !.small_first_free[h.idx[ptr]] = <<ptr>> \o @]

-----------------------------------------------------------------------------
(* Medium blocks: the entries of a page follow each other without a gap, and *)
(* the free ones are a list of their own, whose first is split or used.      *)

Size(h, e) == h.entry[e].size

\* Out of the list of free entries.
UnlinkFree(h, e) ==
    LET r == h.entry[e]
        h1 == IF r.prev_free = Null THEN [h EXCEPT !.page[e[1]].first_free = r.next_free]
              ELSE SetEntry(h, r.prev_free, "next_free", r.next_free)
    IN  SetEntry(h1, r.next_free, "prev_free", r.prev_free)

\* In front of the list of free entries, and the page's largest as far as it knows.
PushFree(h, e) ==
    LET first == h.page[e[1]].first_free
    IN  [SetEntry(h, first, "prev_free", e) EXCEPT
            !.entry[e].prev_free = Null,
            !.entry[e].next_free = first,
            !.page[e[1]].first_free = e,
            !.page[e[1]].largest_free = Size(h, e)]

\* An entry in use behind best.
UsedEntry(h, best, bytes) ==
    [size |-> bytes, prev |-> best, next |-> h.entry[best].next, prev_free |-> Null,
     next_free |-> Null, free_block |-> FALSE]

\* Mutant: the first entry keeps its size.
SplitWithoutShrinking(h, best, bytes) ==
    LET nw == <<best[1], best[2] + Size(h, best) - bytes>>
        h1 == SetEntry(SetEntry(h, h.entry[best].next, "prev", nw), best, "next", nw)
    IN  [heap |-> [h1 EXCEPT !.entry = With(@, nw, UsedEntry(h, best, bytes))],
         used |-> nw]

\* The end of the first free entry becomes an entry in use.
SplitEntry(h, best, bytes) ==
    LET rest == Size(h, best) - bytes
        nw == <<best[1], best[2] + rest>>
        h1 == SetEntry(SetEntry(h, h.entry[best].next, "prev", nw), best, "next", nw)
        h2 == SetEntry(h1, best, "size", rest)
    IN  [heap |-> [h2 EXCEPT !.entry = With(@, nw, UsedEntry(h, best, bytes)),
                             !.page[best[1]].largest_free = rest],
         used |-> nw]

\* The whole of it is used, and the page counts as full, whatever else is free.
UseEntry(h, best) ==
    [heap |-> [UnlinkFree(h, best) EXCEPT
                 !.entry[best].prev_free = Null, !.entry[best].next_free = Null,
                 !.entry[best].free_block = FALSE,
                 !.page[best[1]].largest_free = 0],
     used |-> best]

MediumAllocDataFromPage(h, p, bytes) ==
    LET best == h.page[p].first_free
    IN  IF Size(h, best) >= bytes + MediumSmallest THEN SplitEntry(h, best, bytes)
        ELSE UseEntry(h, best)

MediumNewPage(h, p) ==
    LET h1 == PushPage(AllocatePage(h, p, PageSize), p, h.medium_first_free_page)
    IN  [h1 EXCEPT
            !.medium_last_free_page = IF h.medium_first_free_page = Null THEN p ELSE @,
            !.medium_first_free_page = p,
            !.page[p].largest_free = PageSize,
            !.page[p].first_free = <<p, 0>>,
            !.entry = With(@, <<p, 0>>,
                           [size |-> PageSize, prev |-> Null, next |-> Null,
                            prev_free |-> Null, next_free |-> Null,
                            free_block |-> TRUE])]

\* Out of the pages with room, whose first and last it may be.
LeaveFreePages(h, p) ==
    [UnlinkPage(h, p) EXCEPT
        !.medium_last_free_page = IF p = @ THEN h.page[p].prev ELSE @,
        !.medium_first_free_page = IF p = @ THEN h.page[p].next ELSE @]

\* A page without room goes to the full ones, another to the front.
MediumRelist(h, p) ==
    LET h1 == LeaveFreePages(h, p)
    IN  IF h.page[p].largest_free < MediumSmallest
        THEN [PushPage(h1, p, h.medium_first_used_page) EXCEPT
                !.medium_first_used_page = p]
        ELSE IF p # h.medium_first_free_page
        THEN [PushPage(h1, p, h.medium_first_free_page) EXCEPT
                !.medium_first_free_page = p]
        ELSE h

MediumAllocate(h, n) ==
    LET need == AlignSize(n) + MediumHeader
        pages == Pages(h, h.medium_first_free_page)
        roomy == {k \in DOMAIN pages : h.page[pages[k]].largest_free >= need}
        first == CHOOSE k \in roomy : \A j \in roomy : k <= j
        p == IF roomy # {} THEN pages[first] ELSE NewPage(h)
        h1 == IF roomy # {} THEN h ELSE MediumNewPage(h, p)
        r == MediumAllocDataFromPage(h1, p, need)
        ptr == <<p, r.used[2] + MediumHeader>>
    IN  IF roomy = {} /\ ~HasPage(h) THEN Failed(h)
        ELSE [heap |-> MediumRelist(Mark(r.heap, ptr, "medium"), p), ptr |-> ptr]

\* e takes the entry behind it in, if there is one in h's lists.
Absorb(h, e, next) ==
    LET after == h.entry[next].next
        h1 == [h EXCEPT !.entry[e].size = @ + Size(h, next), !.entry[e].next = after]
    IN  SetEntry(h1, after, "prev", e)

IsFreeEntry(h, e) == e # Null /\ h.entry[e].free_block

Forget(h, e) == [h EXCEPT !.entry = Without(@, {e})]

\* Into the free entry before it, or to the front of the free ones.
MergePrev(h, e) ==
    LET prev == h.entry[e].prev
    IN  IF IsFreeEntry(h, prev)
        THEN [heap |-> Forget(Absorb(h, prev, e), e), free |-> prev]
        ELSE [heap |-> [PushFree(h, e) EXCEPT !.entry[e].free_block = TRUE], free |-> e]

MergeNext(h, e) ==
    LET next == h.entry[e].next
    IN  IF IsFreeEntry(h, next) THEN Forget(UnlinkFree(Absorb(h, e, next), next), next)
        ELSE h

\* The largest the page knows of is the first; e comes first if it is larger.
LargestFirst(h, e) ==
    LET first == h.page[e[1]].first_free
        h1 == [h EXCEPT !.page[e[1]].largest_free =
                           IF first = Null THEN 0 ELSE Size(h, first)]
    IN  IF Size(h, e) > h1.page[e[1]].largest_free THEN PushFree(UnlinkFree(h1, e), e)
        ELSE h1

\* Mutant: the page stays the first of the full ones.
BackToFreePagesAsWell(h, p) ==
    LET last == h.medium_last_free_page
    IN  SetPage([UnlinkPage(h, p) EXCEPT
                    !.page[p].next = Null,
                    !.page[p].prev = last,
                    !.medium_last_free_page = p,
                    !.medium_first_free_page = IF @ = Null THEN p ELSE @],
                last, "next", p)

\* From the full pages to the end of those with room.
BackToFreePages(h, p) ==
    LET last == h.medium_last_free_page
    IN  SetPage([UnlinkPage(h, p) EXCEPT
                    !.medium_first_used_page = IF @ = p THEN h.page[p].next ELSE @,
                    !.page[p].next = Null,
                    !.page[p].prev = last,
                    !.medium_last_free_page = p,
                    !.medium_first_free_page = IF @ = Null THEN p ELSE @],
                last, "next", p)

\* Mutant: whether the page is full is asked once the block is free.
MediumFreeAskingLate(h, ptr) ==
    LET p == ptr[1]
        e == <<p, ptr[2] - MediumHeader>>
        merged == MergePrev(Unmark(h, ptr), e)
        h1 == LargestFirst(MergeNext(merged.heap, merged.free), merged.free)
        h2 == IF h1.page[p].largest_free >= MediumSmallest THEN h1
              ELSE BackToFreePages(h1, p)
    IN  IF Size(h2, merged.free) = h2.page[p].data_size
        THEN FreePage(LeaveFreePages(h2, p), p)
        ELSE h2

MediumFree(h, ptr) ==
    LET p == ptr[1]
        e == <<p, ptr[2] - MediumHeader>>
        in_freelist == h.page[p].largest_free >= MediumSmallest
        merged == MergePrev(Unmark(h, ptr), e)
        h1 == LargestFirst(MergeNext(merged.heap, merged.free), merged.free)
        h2 == IF in_freelist THEN h1 ELSE BackToFreePages(h1, p)
    IN  IF Size(h2, merged.free) = h2.page[p].data_size
        THEN FreePage(LeaveFreePages(h2, p), p)
        ELSE h2

-----------------------------------------------------------------------------
(* Large blocks.                                                             *)

LargeAllocate(h, n) ==
    LET p == NewPage(h)
        ptr == <<p, LargeHeader>>
        h1 == PushPage(AllocatePage(h, p, n + LargeHeader), p, h.large_first_used_page)
    IN  IF ~HasPage(h) THEN Failed(h)
        ELSE [heap |-> Mark([h1 EXCEPT !.large_first_used_page = p], ptr, "large"),
              ptr |-> ptr]

LargeFree(h, ptr) ==
    LET p == ptr[1]
    IN  FreePage([UnlinkPage(Unmark(h, ptr), p) EXCEPT
                    !.large_first_used_page = IF p = @ THEN h.page[p].next ELSE @],
                 p)

-----------------------------------------------------------------------------
(* The heap.                                                                 *)

AllocFromHeap(h, n) ==
    IF n <= SmallSize THEN SmallAllocate(h, n)
    ELSE IF n <= MediumSize THEN MediumAllocate(h, n)
    ELSE LargeAllocate(h, n)

FreeToHeap(h, ptr) ==
    CASE h.mark[ptr] = "small" -> SmallFree(h, ptr)
      [] h.mark[ptr] = "medium" -> MediumFree(h, ptr)
      [] h.mark[ptr] = "large" -> LargeFree(h, ptr)

NoHeap ==
    [created |-> FALSE, page |-> <<>>, entry |-> <<>>, idx |-> <<>>, mark |-> <<>>,
     small_first_free |-> [i \in Indices |-> <<>>], small_cur_page |-> Null,
     small_cur_page_offset |-> 0, small_used_pages |-> <<>>,
     medium_first_free_page |-> Null, medium_last_free_page |-> Null,
     medium_first_used_page |-> Null, large_first_used_page |-> Null,
     page_allocated |-> 0, actual_mem_used |-> 0]

\* AR_InitMemory has no other answer to a failure than to end the program.
CreateHeap ==
    /\ ~heap.created
    /\ LET p == NewPage(NoHeap)
       IN  heap' = [AllocatePage(NoHeap, p, PageSize) EXCEPT
                       !.created = TRUE,
                       !.small_cur_page = p,
                       !.small_cur_page_offset = SmallAlign(0)]
    /\ UNCHANGED <<held, load>>

\* The pages the lists lead to, in the order they are freed.
ListedPages(h) ==
    <<h.small_cur_page>> \o h.small_used_pages
    \o Pages(h, h.medium_first_free_page) \o Pages(h, h.medium_first_used_page)
    \o Pages(h, h.large_first_used_page)

\* With every block still in use, which is an end of the program.
DestroyHeap ==
    /\ heap.created
    /\ LET pages == ListedPages(heap)
           freed[k \in 0 .. Len(pages)] ==
               IF k = 0 THEN heap ELSE FreePage(freed[k - 1], pages[k])
           h == freed[Len(pages)]
       IN  heap' = [NoHeap EXCEPT !.page = h.page,
                                  !.page_allocated = h.page_allocated,
                                  !.actual_mem_used = h.actual_mem_used]
    /\ held' = <<>>
    /\ UNCHANGED load

\* AR_malloc and AR_calloc try a million times; nothing frees in between.
Malloc ==
    /\ heap.created
    /\ Cardinality(DOMAIN held) < load.most
    /\ \E n \in load.sizes :
         LET r == AllocFromHeap(heap, n)
         IN  /\ r.ptr # Null
             /\ heap' = r.heap
             /\ held' = With(held, r.ptr, n)
    /\ UNCHANGED load

Free ==
    /\ heap.created
    /\ \E ptr \in DOMAIN held :
         /\ heap' = FreeToHeap(heap, ptr)
         /\ held' = Without(held, {ptr})
    /\ UNCHANGED load

HeapInit == heap = NoHeap /\ held = <<>> /\ load \in Loads

HeapNext == CreateHeap \/ DestroyHeap \/ Malloc \/ Free

HeapSpec == HeapInit /\ [][HeapNext]_heap_vars

-----------------------------------------------------------------------------
(* Properties.                                                               *)

Extent(at, from, to) == [page |-> at[1], from |-> from, to |-> to]

SmallBytes(idx) == idx * Align + Align - SmallHeader

\* All memory something is kept in, headers included.
Extents ==
    {Extent(b, b[2] - SmallHeader, b[2] + SmallBytes(heap.idx[b])) : b \in DOMAIN heap.idx}
    \cup {Extent(e, e[2], e[2] + Size(heap, e)) : e \in DOMAIN heap.entry}
    \cup {Extent(b, 0, heap.page[b[1]].data_size) :
            b \in {b \in DOMAIN held : heap.mark[b] = "large"}}

HeaderOf(kind) ==
    CASE kind = "small" -> SmallHeader
      [] kind = "medium" -> MediumHeader
      [] kind = "large" -> LargeHeader

\* However blocks were split, merged and used again: what a user was given is
\* aligned, lies behind its own header and inside its page, and touches neither
\* another block nor anything the heap keeps for itself.
BlocksApart ==
    heap.created =>
        /\ \A x \in Extents :
              /\ 0 <= x.from /\ x.to <= heap.page[x.page].data_size
              /\ \A y \in Extents \ {x} :
                    x.page = y.page => x.to <= y.from \/ y.to <= x.from
        /\ \A b \in DOMAIN held :
              /\ b[2] % Align = 0
              /\ \E x \in Extents :
                    /\ x.page = b[1]
                    /\ b[2] = x.from + HeaderOf(heap.mark[b])
                    /\ b[2] + held[b] <= x.to

EntriesOf(p) == {e \in DOMAIN heap.entry : e[1] = p}

FreeOf(p) == {e \in EntriesOf(p) : heap.entry[e].free_block}

\* Entries cover the page, linked both ways, and no two free ones are neighbours.
PageTiled(p) ==
    /\ <<p, 0>> \in EntriesOf(p) /\ heap.entry[<<p, 0>>].prev = Null
    /\ \A e \in EntriesOf(p) :
         LET r == heap.entry[e]
             end == e[2] + r.size
         IN  /\ r.size >= MediumSmallest
             /\ r.prev # Null => r.prev \in EntriesOf(p) /\ heap.entry[r.prev].next = e
             /\ r.prev = Null => e = <<p, 0>>
             /\ IF r.next = Null THEN end = heap.page[p].data_size
                ELSE /\ r.next = <<p, end>>
                     /\ r.next \in EntriesOf(p) /\ heap.entry[r.next].prev = e
                     /\ ~(r.free_block /\ heap.entry[r.next].free_block)

\* The free list of a page holds its free entries, linked both ways.
FreeListed(p) ==
    LET first == heap.page[p].first_free
    IN  /\ (first = Null) = (FreeOf(p) = {})
        /\ first # Null => first \in FreeOf(p) /\ heap.entry[first].prev_free = Null
        /\ \A e \in FreeOf(p) :
             LET r == heap.entry[e]
             IN  /\ r.prev_free = Null => e = first
                 /\ r.prev_free # Null =>
                       r.prev_free \in FreeOf(p) /\ heap.entry[r.prev_free].next_free = e
                 /\ r.next_free # Null =>
                       r.next_free \in FreeOf(p) /\ heap.entry[r.next_free].prev_free = e

LinkedBack(list) ==
    \A k \in DOMAIN list :
        heap.page[list[k]].prev = IF k = 1 THEN Null ELSE list[k - 1]

\* A page is among those with room exactly when its first free entry is worth
\* looking at; pages and their entries are linked both ways; and a page without a
\* block in use is given back.
MediumListsSound ==
    LET roomy == Pages(heap, heap.medium_first_free_page)
        full == Pages(heap, heap.medium_first_used_page)
    IN  /\ LinkedBack(roomy) /\ LinkedBack(full)
        /\ heap.medium_last_free_page =
              IF roomy = <<>> THEN Null ELSE roomy[Len(roomy)]
        /\ \A k \in DOMAIN roomy :
              LET p == heap.page[roomy[k]]
              IN  p.first_free # Null /\ p.largest_free = Size(heap, p.first_free)
        /\ \A k \in DOMAIN full : heap.page[full[k]].largest_free = 0
        /\ \A p \in {roomy[k] : k \in DOMAIN roomy} \cup {full[k] : k \in DOMAIN full} :
              /\ PageTiled(p)
              /\ FreeListed(p)
              /\ EntriesOf(p) # FreeOf(p)

\* Each page is on one list and once, or none are left and no byte is in the books.
PagesAccounted ==
    IF heap.created
    THEN /\ Len(ListedPages(heap)) = Cardinality(DOMAIN heap.page)
         /\ {ListedPages(heap)[k] : k \in DOMAIN ListedPages(heap)} = DOMAIN heap.page
         /\ \A b \in DOMAIN held : heap.mark[b] = "large" => b[1] \in DOMAIN heap.page
    ELSE heap.page = <<>> /\ heap.page_allocated = 0 /\ heap.actual_mem_used = 0

\* What the assertions of heap.c rely on: the lists of pages and of free entries
\* are sound whatever was split and merged (heap.c:461), and freeing the pages of
\* the lists, as AR_DestroyHeap will, leaves no page and no byte in the books
\* (heap.c:852).
HeapSound == (heap.created => MediumListsSound) /\ PagesAccounted
=============================================================================
