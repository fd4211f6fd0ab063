----------------------------- MODULE HeapProofs -----------------------------
(* Proofs about Heap: whatever is allocated and freed, the blocks a program *)
(* uses are apart from each other and from what the heap keeps for itself,  *)
(* its lists are sound, and its end leaves nothing behind.                  *)
EXTENDS Heap, WellFoundedInduction, SequenceTheorems, FiniteSetTheorems, TLAPS

-----------------------------------------------------------------------------
(* A heap, its pages and their lists.                                       *)

Fields == {"created", "page", "entry", "idx", "mark", "small_first_free",
           "small_cur_page", "small_cur_page_offset", "small_used_pages",
           "medium_first_free_page", "medium_last_free_page",
           "medium_first_used_page", "large_first_used_page",
           "page_allocated", "actual_mem_used"}

IsHeap(h) == h = [x \in Fields |-> h[x]]

Same(h, g, changed) ==
    /\ IsHeap(g)
    /\ \A x \in Fields \ changed : g[x] = h[x]

SetIn(f, p, field, value) ==
    [q \in DOMAIN f |-> IF q = p THEN [f[q] EXCEPT ![field] = value] ELSE f[q]]

\* An assignment through a page pointer, NULL or not (the list code of heap.c).
LEMMA SetPageIs ==
    ASSUME NEW h, NEW p, NEW field, NEW value, IsHeap(h),
           h.page = [q \in DOMAIN h.page |-> h.page[q]], Null \notin DOMAIN h.page
    PROVE  /\ Same(h, SetPage(h, p, field, value), {"page"})
           /\ SetPage(h, p, field, value).page = SetIn(h.page, p, field, value)
  BY DEF SetPage, IsHeap, Fields, Same, SetIn

\* The same for an entry of a page of medium blocks.
LEMMA SetEntryIs ==
    ASSUME NEW h, NEW e, NEW field, NEW value, IsHeap(h),
           h.entry = [q \in DOMAIN h.entry |-> h.entry[q]], Null \notin DOMAIN h.entry
    PROVE  /\ Same(h, SetEntry(h, e, field, value), {"entry"})
           /\ SetEntry(h, e, field, value).entry = SetIn(h.entry, e, field, value)
  BY DEF SetEntry, IsHeap, Fields, Same, SetIn

Place == Page \X Nat
PageOrNull == Page \cup {Null}
PlaceOrNull == Place \cup {Null}
PageRec == [data_size : Nat, next : PageOrNull, prev : PageOrNull,
            largest_free : Nat, first_free : PlaceOrNull]
EntryRec == [size : Nat, prev : PlaceOrNull, next : PlaceOrNull,
             prev_free : PlaceOrNull, next_free : PlaceOrNull, free_block : BOOLEAN]

\* A map of pages.
IsPages(pg) == DOMAIN pg \subseteq Page /\ pg \in [DOMAIN pg -> PageRec]

\* The same pages but for their places in lists.
Relinked(pg, pg2) ==
    /\ DOMAIN pg2 = DOMAIN pg
    /\ pg2 \in [DOMAIN pg -> PageRec]
    /\ \A q \in DOMAIN pg : /\ pg2[q].data_size = pg[q].data_size
                            /\ pg2[q].largest_free = pg[q].largest_free
                            /\ pg2[q].first_free = pg[q].first_free

\* What a new next of one page changes, which is its next.
LEMMA SetNext ==
    ASSUME NEW pg, IsPages(pg), NEW p, NEW v \in PageOrNull
    PROVE  /\ Relinked(pg, SetIn(pg, p, "next", v))
           /\ \A q \in DOMAIN pg :
                 /\ SetIn(pg, p, "next", v)[q].next = IF q = p THEN v ELSE pg[q].next
                 /\ SetIn(pg, p, "next", v)[q].prev = pg[q].prev
  BY DEF IsPages, Relinked, SetIn, PageRec

\* The same of its prev.
LEMMA SetPrev ==
    ASSUME NEW pg, IsPages(pg), NEW p, NEW v \in PageOrNull
    PROVE  /\ Relinked(pg, SetIn(pg, p, "prev", v))
           /\ \A q \in DOMAIN pg :
                 /\ SetIn(pg, p, "prev", v)[q].prev = IF q = p THEN v ELSE pg[q].prev
                 /\ SetIn(pg, p, "prev", v)[q].next = pg[q].next
  BY DEF IsPages, Relinked, SetIn, PageRec

\* What a page's links are: pages or NULL.
LEMMA PageLinks ==
    ASSUME NEW pg, IsPages(pg), NEW p \in DOMAIN pg
    PROVE  /\ pg[p] \in PageRec
           /\ pg[p].next \in PageOrNull /\ pg[p].prev \in PageOrNull
  BY DEF IsPages, PageRec

\* Pages that are linked otherwise are pages.
LEMMA RelinkedIsPages ==
    ASSUME NEW pg, NEW pg2, IsPages(pg), Relinked(pg, pg2)
    PROVE  IsPages(pg2)
  BY DEF IsPages, Relinked

\* Pages may be linked otherwise in two steps.
LEMMA RelinkedTwice ==
    ASSUME NEW pg, NEW pg2, NEW pg3, Relinked(pg, pg2), Relinked(pg2, pg3)
    PROVE  Relinked(pg, pg3)
  BY DEF Relinked

\* The pages are a map, and NULL is none of them.
LEMMA PagesAreMap ==
    ASSUME NEW pg, IsPages(pg)
    PROVE  pg = [q \in DOMAIN pg |-> pg[q]] /\ Null \notin DOMAIN pg
  BY PageAssumption DEF IsPages

\* A page's neighbours are linked with each other (heap.c's way out of a list).
LEMMA UnlinkPageIs ==
    ASSUME NEW h, IsHeap(h), IsPages(h.page), NEW p \in DOMAIN h.page
    PROVE  LET g == UnlinkPage(h, p)
               r == h.page[p]
           IN  /\ Same(h, g, {"page"})
               /\ Relinked(h.page, g.page)
               /\ \A q \in DOMAIN h.page :
                     /\ g.page[q].next = IF q = r.prev THEN r.next ELSE h.page[q].next
                     /\ g.page[q].prev = IF q = r.next THEN r.prev ELSE h.page[q].prev
<1> DEFINE r == h.page[p]
           h1 == SetPage(h, r.prev, "next", r.next)
           h2 == SetPage(h1, r.next, "prev", r.prev)
<1>1. r.next \in PageOrNull /\ r.prev \in PageOrNull
  BY PageLinks
<1>2. Same(h, h1, {"page"}) /\ h1.page = SetIn(h.page, r.prev, "next", r.next)
  BY SetPageIs, PagesAreMap
<1>3. /\ Relinked(h.page, h1.page)
      /\ \A q \in DOMAIN h.page :
            /\ h1.page[q].next = IF q = r.prev THEN r.next ELSE h.page[q].next
            /\ h1.page[q].prev = h.page[q].prev
  BY <1>1, <1>2, SetNext
<1>4. IsHeap(h1) /\ IsPages(h1.page) /\ DOMAIN h1.page = DOMAIN h.page
  BY <1>2, <1>3, RelinkedIsPages DEF Same, Relinked
<1> HIDE DEF h1
<1>5. Same(h1, h2, {"page"}) /\ h2.page = SetIn(h1.page, r.next, "prev", r.prev)
  BY <1>4, SetPageIs, PagesAreMap
<1>6. /\ Relinked(h1.page, h2.page)
      /\ \A q \in DOMAIN h.page :
            /\ h2.page[q].prev = IF q = r.next THEN r.prev ELSE h1.page[q].prev
            /\ h2.page[q].next = h1.page[q].next
  BY <1>1, <1>4, <1>5, SetPrev, SMTT(30)
<1>7. h2 = UnlinkPage(h, p)
  BY DEF h1, UnlinkPage
<1> HIDE DEF h2
<1>8. Same(h, h2, {"page"}) /\ Relinked(h.page, h2.page)
  <2>1. Same(h, h2, {"page"})
    BY <1>2, <1>5, SMTT(30) DEF Same
  <2>2. Relinked(h.page, h2.page)
    BY <1>3, <1>6, RelinkedTwice
  <2> QED
    BY <2>1, <2>2
<1> QED
  BY <1>3, <1>6, <1>7, <1>8

ListKinds == {"roomy", "full", "large"}
Kinds == ListKinds \cup {"small"}

Heads(h) == [roomy |-> h.medium_first_free_page, full |-> h.medium_first_used_page,
             large |-> h.large_first_used_page]

NextSound(S, pg, kind, last) ==
    \A p \in S :
        IF pg[p].next = Null THEN kind[p] = "roomy" => p = last
        ELSE /\ pg[p].next \in S /\ kind[pg[p].next] = kind[p]
             /\ pg[pg[p].next].prev = p

PrevSound(S, pg, kind, heads) ==
    \A p \in S :
        IF pg[p].prev = Null THEN kind[p] \in ListKinds => p = heads[kind[p]]
        ELSE /\ pg[p].prev \in S /\ kind[pg[p].prev] = kind[p]
             /\ pg[pg[p].prev].next = p

HeadsSound(S, pg, kind, heads) ==
    \A k \in ListKinds :
        heads[k] # Null => heads[k] \in S /\ kind[heads[k]] = k /\ pg[heads[k]].prev = Null

LastSound(S, pg, kind, heads, last) ==
    /\ last # Null => last \in S /\ kind[last] = "roomy" /\ pg[last].next = Null
    /\ (last = Null) = (heads["roomy"] = Null)

\* No list goes round: pages have numbers that grow along next.
Ranked(S, pg) ==
    \E n \in Nat, rank \in [S -> Nat] :
        \A p \in S : rank[p] <= n /\ (pg[p].next # Null => rank[p] < rank[pg[p].next])

Linked(S, pg, kind, heads, last) ==
    /\ NextSound(S, pg, kind, last) /\ PrevSound(S, pg, kind, heads)
    /\ HeadsSound(S, pg, kind, heads) /\ LastSound(S, pg, kind, heads, last)
    /\ Ranked(S, pg)

\* Lists are sound if their links are those of sound lists.
LEMMA LinkedAgree ==
    ASSUME NEW S, NEW pg, NEW pg2, NEW kind, NEW kind2, NEW heads, NEW last,
           Linked(S, pg, kind, heads, last),
           \A q \in S : pg2[q].next = pg[q].next /\ pg2[q].prev = pg[q].prev /\ kind2[q] = kind[q]
    PROVE  Linked(S, pg2, kind2, heads, last)
<1>1. Ranked(S, pg2)
  BY DEF Linked, Ranked
<1> QED
  BY <1>1 DEF Linked, NextSound, PrevSound, HeadsSound, LastSound

\* A page leaves its list, whose first or last it may be.
LEMMA LinkedLeave ==
    ASSUME NEW S, Null \notin S, NEW pg, NEW pg2, NEW kind, NEW heads, NEW last,
           Linked(S, pg, kind, heads, last), NEW p \in S,
           \A q \in S :
               /\ pg2[q].next = IF q = pg[p].prev THEN pg[p].next ELSE pg[q].next
               /\ pg2[q].prev = IF q = pg[p].next THEN pg[p].prev ELSE pg[q].prev,
           NEW heads2, NEW last2,
           \A k \in ListKinds : heads2[k] = IF heads[k] = p THEN pg[p].next ELSE heads[k],
           last = p => last2 = pg[p].prev, last # p => last2 = last
    PROVE  Linked(S \ {p}, pg2, kind, heads2, last2)
<1>1. NextSound(S \ {p}, pg2, kind, last2)
  BY DEF Linked, NextSound, PrevSound, HeadsSound, LastSound
<1>2. PrevSound(S \ {p}, pg2, kind, heads2)
  BY DEF Linked, NextSound, PrevSound, HeadsSound, LastSound
<1>3. HeadsSound(S \ {p}, pg2, kind, heads2)
  BY DEF Linked, NextSound, PrevSound, HeadsSound, LastSound
<1>4. LastSound(S \ {p}, pg2, kind, heads2, last2)
  BY DEF Linked, NextSound, PrevSound, HeadsSound, LastSound, ListKinds
<1>5. Ranked(S \ {p}, pg2)
  <2>1. PICK n \in Nat, rank \in [S -> Nat] :
           \A q \in S : rank[q] <= n /\ (pg[q].next # Null => rank[q] < rank[pg[q].next])
    BY DEF Linked, Ranked
  <2> DEFINE rank2 == [q \in S \ {p} |-> rank[q]]
  <2>2. /\ n \in Nat /\ rank2 \in [S \ {p} -> Nat]
        /\ \A q \in S \ {p} : rank2[q] <= n
    BY <2>1
  <2>3. ASSUME NEW q \in S \ {p}, pg2[q].next # Null
        PROVE  rank2[q] < rank2[pg2[q].next]
    <3>1. /\ pg[q].next # Null => pg[q].next \in S /\ rank[q] < rank[pg[q].next]
          /\ pg[p].next # Null => pg[p].next \in S /\ rank[p] < rank[pg[p].next]
          /\ q = pg[p].prev => pg[q].next = p
      BY <2>1 DEF Linked, NextSound, PrevSound
    <3>2. pg2[q].next \in S \ {p}
      BY <2>3, <1>1 DEF NextSound
    <3>3. \A x \in S : rank[x] \in Nat
      OBVIOUS
    <3> QED
      BY <2>3, <3>1, <3>2, <3>3
  <2> QED
    BY <2>2, <2>3 DEF Ranked
<1> QED
  BY <1>1, <1>2, <1>3, <1>4, <1>5 DEF Linked

\* A page is put in front of a list.
LEMMA LinkedPush ==
    ASSUME NEW S, Null \notin S, NEW pg, NEW pg2, NEW kind, NEW kind2, NEW heads, NEW last,
           Linked(S, pg, kind, heads, last), NEW p, p \notin S, p # Null, NEW k \in ListKinds,
           kind2[p] = k, \A q \in S : kind2[q] = kind[q],
           pg2[p].next = heads[k], pg2[p].prev = Null,
           \A q \in S : /\ pg2[q].next = pg[q].next
                        /\ pg2[q].prev = IF q = heads[k] THEN p ELSE pg[q].prev,
           NEW heads2, NEW last2,
           heads2[k] = p, \A j \in ListKinds \ {k} : heads2[j] = heads[j],
           k = "roomy" /\ heads[k] = Null => last2 = p,
           k # "roomy" \/ heads[k] # Null => last2 = last
    PROVE  Linked(S \cup {p}, pg2, kind2, heads2, last2)
<1>1. NextSound(S \cup {p}, pg2, kind2, last2)
  BY DEF Linked, NextSound, PrevSound, HeadsSound, LastSound
<1>2. PrevSound(S \cup {p}, pg2, kind2, heads2)
  BY DEF Linked, NextSound, PrevSound, HeadsSound, LastSound
<1>3. HeadsSound(S \cup {p}, pg2, kind2, heads2)
  BY DEF Linked, NextSound, PrevSound, HeadsSound, LastSound
<1>4. LastSound(S \cup {p}, pg2, kind2, heads2, last2)
  BY DEF Linked, NextSound, PrevSound, HeadsSound, LastSound, ListKinds
<1>5. Ranked(S \cup {p}, pg2)
  <2>1. PICK n \in Nat, rank \in [S -> Nat] :
           \A q \in S : rank[q] <= n /\ (pg[q].next # Null => rank[q] < rank[pg[q].next])
    BY DEF Linked, Ranked
  <2> DEFINE rank2 == [q \in S \cup {p} |-> IF q = p THEN 0 ELSE rank[q] + 1]
  <2>2. /\ n + 1 \in Nat /\ rank2 \in [S \cup {p} -> Nat]
        /\ \A q \in S \cup {p} : rank2[q] <= n + 1
    BY <2>1
  <2>3. ASSUME NEW q \in S \cup {p}, pg2[q].next # Null
        PROVE  rank2[q] < rank2[pg2[q].next]
    <3>1. pg2[q].next \in S /\ pg2[q].next # p
      BY <2>3 DEF Linked, NextSound, HeadsSound
    <3>2. q # p => rank[q] < rank[pg2[q].next]
      BY <2>1, <2>3
    <3>3. \A x \in S : rank[x] \in Nat
      OBVIOUS
    <3> QED
      BY <2>3, <3>1, <3>2, <3>3
  <2> QED
    BY <2>2, <2>3 DEF Ranked
<1> QED
  BY <1>1, <1>2, <1>3, <1>4, <1>5 DEF Linked

\* A page is put behind the last of those with room.
LEMMA LinkedAtEnd ==
    ASSUME NEW S, Null \notin S, NEW pg, NEW pg2, NEW kind, NEW kind2, NEW heads, NEW last,
           Linked(S, pg, kind, heads, last), NEW p, p \notin S, p # Null,
           kind2[p] = "roomy", \A q \in S : kind2[q] = kind[q],
           pg2[p].next = Null, pg2[p].prev = last,
           \A q \in S : /\ pg2[q].next = IF q = last THEN p ELSE pg[q].next
                        /\ pg2[q].prev = pg[q].prev,
           NEW heads2,
           heads2["roomy"] = IF heads["roomy"] = Null THEN p ELSE heads["roomy"],
           \A j \in {"full", "large"} : heads2[j] = heads[j]
    PROVE  Linked(S \cup {p}, pg2, kind2, heads2, p)
<1>1. NextSound(S \cup {p}, pg2, kind2, p)
  BY DEF Linked, NextSound, PrevSound, HeadsSound, LastSound, ListKinds
<1>2. PrevSound(S \cup {p}, pg2, kind2, heads2)
  BY DEF Linked, NextSound, PrevSound, HeadsSound, LastSound, ListKinds
<1>3. HeadsSound(S \cup {p}, pg2, kind2, heads2)
  BY DEF Linked, NextSound, PrevSound, HeadsSound, LastSound, ListKinds
<1>4. LastSound(S \cup {p}, pg2, kind2, heads2, p)
  BY DEF Linked, NextSound, PrevSound, HeadsSound, LastSound, ListKinds
<1>5. Ranked(S \cup {p}, pg2)
  <2>1. PICK n \in Nat, rank \in [S -> Nat] :
           \A q \in S : rank[q] <= n /\ (pg[q].next # Null => rank[q] < rank[pg[q].next])
    BY DEF Linked, Ranked
  <2> DEFINE rank2 == [q \in S \cup {p} |-> IF q = p THEN n + 1 ELSE rank[q]]
  <2>2. /\ n + 1 \in Nat /\ rank2 \in [S \cup {p} -> Nat]
        /\ \A q \in S \cup {p} : rank2[q] <= n + 1
    BY <2>1
  <2>3. ASSUME NEW q \in S \cup {p}, pg2[q].next # Null
        PROVE  rank2[q] < rank2[pg2[q].next]
    <3>1. q \in S /\ q # p
      BY <2>3
    <3>2. q # last => pg[q].next \in S /\ rank[q] < rank[pg[q].next] /\ pg2[q].next = pg[q].next
      BY <2>1, <2>3, <3>1 DEF Linked, NextSound
    <3>3. \A x \in S : rank[x] \in Nat /\ rank[x] <= n
      BY <2>1
    <3> QED
      BY <2>3, <3>1, <3>2, <3>3
  <2> QED
    BY <2>2, <2>3 DEF Ranked
<1> QED
  BY <1>1, <1>2, <1>3, <1>4, <1>5 DEF Linked

\* What putting a page in front of a list changes.
LEMMA PushPageIs ==
    ASSUME NEW h, IsHeap(h), IsPages(h.page), NEW p \in DOMAIN h.page, NEW first \in PageOrNull,
           first # p
    PROVE  LET g == PushPage(h, p, first)
           IN  /\ Same(h, g, {"page"})
               /\ Relinked(h.page, g.page)
               /\ \A q \in DOMAIN h.page :
                     /\ g.page[q].next = IF q = p THEN first ELSE h.page[q].next
                     /\ g.page[q].prev = IF q = p THEN Null
                                         ELSE IF q = first THEN p ELSE h.page[q].prev
<1> DEFINE h1 == [h EXCEPT !.page[p].prev = Null, !.page[p].next = first]
           g == SetPage(h1, first, "prev", p)
<1>1. Same(h, h1, {"page"})
  BY DEF IsHeap, Same, Fields
<1>2. p \in Page /\ Null \in PageOrNull /\ p \in PageOrNull
  BY DEF IsPages, PageOrNull
<1>3. /\ Relinked(h.page, h1.page)
      /\ \A q \in DOMAIN h.page :
            /\ h1.page[q].next = IF q = p THEN first ELSE h.page[q].next
            /\ h1.page[q].prev = IF q = p THEN Null ELSE h.page[q].prev
  <2>1. h1.page = [h.page EXCEPT ![p] = [h.page[p] EXCEPT !.prev = Null, !.next = first]]
    BY DEF IsHeap, Fields, IsPages
  <2>2. [h.page[p] EXCEPT !.prev = Null, !.next = first] \in PageRec
    BY <1>2, PageLinks DEF PageRec
  <2> QED
    BY <2>1, <2>2, <1>2 DEF IsPages, Relinked, PageRec
<1>4. IsHeap(h1) /\ IsPages(h1.page) /\ DOMAIN h1.page = DOMAIN h.page
  BY <1>1, <1>3, RelinkedIsPages DEF Same, Relinked
<1>5. g = PushPage(h, p, first)
  BY DEF PushPage
<1> HIDE DEF h1
<1>6. Same(h1, g, {"page"}) /\ g.page = SetIn(h1.page, first, "prev", p)
  BY <1>4, SetPageIs, PagesAreMap
<1>7. /\ Relinked(h1.page, g.page)
      /\ \A q \in DOMAIN h.page :
            /\ g.page[q].prev = IF q = first THEN p ELSE h1.page[q].prev
            /\ g.page[q].next = h1.page[q].next
  BY <1>2, <1>4, <1>6, SetPrev
<1> HIDE DEF g
<1>8. Same(h, g, {"page"}) /\ Relinked(h.page, g.page)
  BY <1>1, <1>3, <1>6, <1>7, RelinkedTwice DEF Same
<1> QED
  BY <1>3, <1>5, <1>7, <1>8

NewRec(bytes) == [data_size |-> bytes, next |-> Null, prev |-> Null,
                  largest_free |-> 0, first_free |-> Null]

\* A page more, in no list yet (AllocatePage).
LEMMA AllocatePageIs ==
    ASSUME NEW h, IsHeap(h), IsPages(h.page), NEW p \in Page, p \notin DOMAIN h.page,
           NEW bytes \in Nat
    PROVE  LET g == AllocatePage(h, p, bytes)
           IN  /\ Same(h, g, {"page", "page_allocated", "actual_mem_used"})
               /\ DOMAIN g.page = DOMAIN h.page \cup {p}
               /\ IsPages(g.page)
               /\ g.page[p] = NewRec(bytes)
               /\ \A q \in DOMAIN h.page : g.page[q] = h.page[q]
               /\ g.page_allocated = h.page_allocated + 1
               /\ g.actual_mem_used = h.actual_mem_used + bytes + PageHeader
<1> DEFINE g == AllocatePage(h, p, bytes)
<1>1. g = [h EXCEPT !.page = With(@, p, NewRec(bytes)),
                    !.page_allocated = @ + 1,
                    !.actual_mem_used = @ + bytes + PageHeader]
  BY DEF AllocatePage, NewRec
<1>2. Same(h, g, {"page", "page_allocated", "actual_mem_used"})
  BY <1>1 DEF IsHeap, Fields, Same
<1>3. g.page = With(h.page, p, NewRec(bytes))
  BY <1>1 DEF IsHeap, Fields
<1>4. NewRec(bytes) \in PageRec
  BY DEF NewRec, PageRec, PageOrNull, PlaceOrNull
<1>5. /\ g.page_allocated = h.page_allocated + 1
      /\ g.actual_mem_used = h.actual_mem_used + bytes + PageHeader
  BY <1>1 DEF IsHeap, Fields
<1> QED
  BY <1>2, <1>3, <1>4, <1>5 DEF With, IsPages

\* What is left when page p is given back.
LEMMA FreePageIs ==
    ASSUME NEW h, IsHeap(h), NEW p
    PROVE  LET g == FreePage(h, p)
           IN  /\ Same(h, g, {"page", "entry", "page_allocated", "actual_mem_used"})
               /\ g.page = Without(h.page, {p})
               /\ g.entry = Without(h.entry, {e \in DOMAIN h.entry : e[1] = p})
               /\ g.page_allocated = h.page_allocated - 1
               /\ g.actual_mem_used = h.actual_mem_used - h.page[p].data_size - PageHeader
  BY DEF FreePage, IsHeap, Fields, Same

\* sum is the memory of any set of pages with their headers.
Weighs(pg, sum) ==
    /\ sum \in [SUBSET DOMAIN pg -> Nat] /\ sum[{}] = 0
    /\ \A A \in SUBSET DOMAIN pg : \A p \in DOMAIN pg \ A :
          sum[A \cup {p}] = sum[A] + (pg[p].data_size + PageHeader)

\* The books of heap.c are right: how many pages there are, and their memory.
Booked(h) ==
    /\ h.page_allocated = Cardinality(DOMAIN h.page)
    /\ \E sum : Weighs(h.page, sum) /\ h.actual_mem_used = sum[DOMAIN h.page]

BooksKept(h, g) ==
    /\ g.page_allocated = h.page_allocated /\ g.actual_mem_used = h.actual_mem_used
    /\ DOMAIN g.page = DOMAIN h.page
    /\ \A q \in DOMAIN h.page : g.page[q].data_size = h.page[q].data_size

\* The books stay right while pages are neither got nor given back.
LEMMA BookedStays ==
    ASSUME NEW h, NEW g, Booked(h), BooksKept(h, g)
    PROVE  Booked(g)
  BY DEF Booked, BooksKept, Weighs

\* A page more is booked.
LEMMA BookedMore ==
    ASSUME NEW h, NEW g, Booked(h), DOMAIN h.page \subseteq Page,
           NEW p, p \notin DOMAIN h.page, DOMAIN g.page = DOMAIN h.page \cup {p},
           \A q \in DOMAIN h.page : g.page[q].data_size = h.page[q].data_size,
           \A q \in DOMAIN g.page : g.page[q].data_size \in Nat,
           g.page_allocated = h.page_allocated + 1,
           g.actual_mem_used = h.actual_mem_used + g.page[p].data_size + PageHeader
    PROVE  Booked(g)
<1>1. PICK sum : Weighs(h.page, sum) /\ h.actual_mem_used = sum[DOMAIN h.page]
  BY DEF Booked
<1> DEFINE w == g.page[p].data_size + PageHeader
           sum2 == [A \in SUBSET DOMAIN g.page |->
                      IF p \in A THEN sum[A \ {p}] + w ELSE sum[A]]
<1>2. w \in Nat
  BY HeapAssumption
<1>3. \A A \in SUBSET DOMAIN g.page : A \ {p} \in SUBSET DOMAIN h.page
  OBVIOUS
<1>4. \A A \in SUBSET DOMAIN h.page : sum[A] \in Nat
  BY <1>1 DEF Weighs
<1>5. sum2 \in [SUBSET DOMAIN g.page -> Nat]
  <2>1. ASSUME NEW A \in SUBSET DOMAIN g.page
        PROVE  (IF p \in A THEN sum[A \ {p}] + w ELSE sum[A]) \in Nat
    <3>1. CASE p \in A
      BY <3>1, <1>2, <1>3, <1>4
    <3>2. CASE p \notin A
      BY <3>2, <1>4
    <3> QED
      BY <3>1, <3>2
  <2> QED
    BY <2>1
<1>6. sum2[{}] = 0
  BY <1>1 DEF Weighs
<1>7. ASSUME NEW A \in SUBSET DOMAIN g.page, NEW q \in DOMAIN g.page \ A
      PROVE  sum2[A \cup {q}] = sum2[A] + (g.page[q].data_size + PageHeader)
  <2>1. CASE q = p
    <3>1. (A \cup {q}) \ {p} = A /\ p \in A \cup {q} /\ p \notin A
      BY <2>1
    <3> QED
      BY <3>1, <2>1
  <2>2. CASE q # p
    <3>1. q \in DOMAIN h.page \ (A \ {p}) /\ g.page[q].data_size = h.page[q].data_size
      BY <2>2
    <3>2. sum[(A \ {p}) \cup {q}] = sum[A \ {p}] + (g.page[q].data_size + PageHeader)
      <4>1. A \ {p} \in SUBSET DOMAIN h.page
        BY <1>3
      <4>2. \A B \in SUBSET DOMAIN h.page : \A x \in DOMAIN h.page \ B :
               sum[B \cup {x}] = sum[B] + (h.page[x].data_size + PageHeader)
        BY <1>1 DEF Weighs
      <4>3. sum[(A \ {p}) \cup {q}] = sum[A \ {p}] + (h.page[q].data_size + PageHeader)
        BY <3>1, <4>1, <4>2
      <4> QED
        BY <3>1, <4>3
    <3>3. CASE p \in A
      <4>1. (A \cup {q}) \ {p} = (A \ {p}) \cup {q} /\ p \in A \cup {q}
        BY <2>2, <3>3
      <4>2. sum2[A \cup {q}] = sum[(A \ {p}) \cup {q}] + w /\ sum2[A] = sum[A \ {p}] + w
        BY <4>1, <3>3
      <4>3. sum[A \ {p}] \in Nat
        BY <1>3, <1>4
      <4>4. g.page[q].data_size + PageHeader \in Nat
        BY HeapAssumption
      <4> QED
        BY <4>2, <4>3, <4>4, <3>2, <1>2
    <3>4. CASE p \notin A
      <4>1. A \ {p} = A /\ p \notin A \cup {q}
        BY <2>2, <3>4
      <4> QED
        BY <4>1, <3>2, <3>4
    <3> QED
      BY <3>3, <3>4
  <2> QED
    BY <2>1, <2>2
<1>8. Weighs(g.page, sum2)
  BY <1>5, <1>6, <1>7 DEF Weighs
<1>9. sum2[DOMAIN g.page] = sum[DOMAIN h.page] + w
  <2>1. DOMAIN g.page \ {p} = DOMAIN h.page /\ p \in DOMAIN g.page
    OBVIOUS
  <2> QED
    BY <2>1
<1>10. g.actual_mem_used = sum2[DOMAIN g.page]
  BY <1>1, <1>9, <1>4, HeapAssumption
<1>11. g.page_allocated = Cardinality(DOMAIN g.page)
  <2>1. IsFiniteSet(DOMAIN h.page)
    BY PageAssumption, FS_Subset
  <2> QED
    BY <2>1, FS_AddElement DEF Booked
<1> HIDE DEF sum2
<1> QED
  BY <1>8, <1>10, <1>11 DEF Booked

\* A page less is booked.
LEMMA BookedLess ==
    ASSUME NEW h, NEW g, Booked(h), DOMAIN h.page \subseteq Page,
           NEW p \in DOMAIN h.page, DOMAIN g.page = DOMAIN h.page \ {p},
           \A q \in DOMAIN g.page : g.page[q].data_size = h.page[q].data_size,
           h.page[p].data_size \in Nat, g.page_allocated = h.page_allocated - 1,
           g.actual_mem_used = h.actual_mem_used - h.page[p].data_size - PageHeader
    PROVE  Booked(g)
<1>1. PICK sum : Weighs(h.page, sum) /\ h.actual_mem_used = sum[DOMAIN h.page]
  BY DEF Booked
<1> DEFINE sum2 == [A \in SUBSET DOMAIN g.page |-> sum[A]]
<1>2. Weighs(g.page, sum2)
  BY <1>1 DEF Weighs
<1>3. sum[DOMAIN h.page] = sum[DOMAIN g.page] + (h.page[p].data_size + PageHeader)
  <2>1. DOMAIN h.page = DOMAIN g.page \cup {p}
    OBVIOUS
  <2>2. DOMAIN g.page \in SUBSET DOMAIN h.page /\ p \in DOMAIN h.page \ DOMAIN g.page
    OBVIOUS
  <2>3. sum[DOMAIN g.page \cup {p}] = sum[DOMAIN g.page] + (h.page[p].data_size + PageHeader)
    BY <2>2, <1>1 DEF Weighs
  <2> QED
    BY <2>1, <2>3
<1>4. sum[DOMAIN g.page] \in Nat
  BY <1>1 DEF Weighs
<1>5. g.actual_mem_used = sum2[DOMAIN g.page]
  BY <1>1, <1>3, <1>4, HeapAssumption
<1>6. g.page_allocated = Cardinality(DOMAIN g.page)
  <2>1. IsFiniteSet(DOMAIN h.page)
    BY PageAssumption, FS_Subset
  <2>2. Cardinality(DOMAIN g.page) = Cardinality(DOMAIN h.page) - 1
    BY <2>1, FS_RemoveElement
  <2> QED
    BY <2>2 DEF Booked
<1> HIDE DEF sum2
<1> QED
  BY <1>2, <1>5, <1>6 DEF Booked

-----------------------------------------------------------------------------
(* Sizes and alignment.                                                     *)

\* The sizes of the heap are numbers.
LEMMA Sizes ==
    /\ Align \in Nat /\ Align > 1 /\ PageSize \in Nat /\ SmallSize \in Nat /\ MediumSize \in Nat
    /\ PointerSize \in Nat /\ PageHeader \in Nat /\ MediumHeader \in Nat /\ LargeHeader \in Nat
  BY HeapAssumption

\* Division by the alignment, with its remainder.
LEMMA Divides ==
    ASSUME NEW n \in Int
    PROVE  /\ n = Align * (n \div Align) + (n % Align)
           /\ (n % Align) \in 0 .. Align - 1
           /\ n \div Align \in Int
  BY Sizes

\* Aligned is to be a multiple.
LEMMA MultipleIff ==
    ASSUME NEW n \in Int
    PROVE  n % Align = 0 <=> \E k \in Int : n = Align * k
<1>1. ASSUME n % Align = 0 PROVE \E k \in Int : n = Align * k
  <2> DEFINE q == n \div Align
  <2>1. n = Align * q /\ q \in Int
    BY <1>1, Divides, Sizes
  <2> QED
    BY <2>1
<1>2. ASSUME NEW k \in Int, n = Align * k PROVE n % Align = 0
  <2> DEFINE q == n \div Align
             r == n % Align
  <2>1. n = Align * q + r /\ r \in 0 .. Align - 1 /\ q \in Int
    BY Divides
  <2> HIDE DEF q, r
  <2>2. Align * (k - q) = r
    BY <1>2, <2>1, Sizes
  <2>3. CASE k - q >= 1
    <3>1. Align * (k - q) >= Align
      BY <2>3, <2>1, Sizes
    <3> QED
      BY <3>1, <2>1, <2>2, Sizes
  <2>4. CASE k - q <= -1
    <3>1. Align * (k - q) <= - Align
      BY <2>4, <2>1, Sizes
    <3> QED
      BY <3>1, <2>1, <2>2, Sizes
  <2>5. CASE k - q = 0
    BY <2>5, <2>1, <2>2, Sizes DEF r
  <2> QED
    BY <2>3, <2>4, <2>5, <2>1
<1> QED
  BY <1>1, <1>2

\* Sums and differences of aligned numbers are aligned.
LEMMA Multiples ==
    ASSUME NEW m \in Int, NEW n \in Int, m % Align = 0, n % Align = 0
    PROVE  (m + n) % Align = 0 /\ (m - n) % Align = 0
<1>1. PICK k \in Int : m = Align * k
  BY MultipleIff
<1>2. PICK l \in Int : n = Align * l
  BY MultipleIff
<1>3. m + n = Align * (k + l) /\ m - n = Align * (k - l)
  BY <1>1, <1>2, Sizes
<1>4. k + l \in Int /\ k - l \in Int /\ m + n \in Int /\ m - n \in Int
  OBVIOUS
<1> QED
  BY <1>3, <1>4, MultipleIff

\* A quotient is known by its remainder.
LEMMA DivIs ==
    ASSUME NEW n \in Int, NEW k \in Int, NEW r \in 0 .. Align - 1, n = Align * k + r
    PROVE  n \div Align = k
<1> DEFINE q == n \div Align
           t == n % Align
<1>1. n = Align * q + t /\ t \in 0 .. Align - 1 /\ q \in Int
  BY Divides
<1> HIDE DEF q, t
<1>2. Align * (k - q) = t - r
  BY <1>1, Sizes
<1>3. CASE k - q >= 1
  <2>1. Align * (k - q) >= Align
    BY <1>3, <1>1, Sizes
  <2> QED
    BY <2>1, <1>1, <1>2, Sizes
<1>4. CASE k - q <= -1
  <2>1. Align * (k - q) <= - Align
    BY <1>4, <1>1, Sizes
  <2> QED
    BY <2>1, <1>1, <1>2, Sizes
<1> QED
  BY <1>1, <1>3, <1>4 DEF q

\* Rounding up to the alignment (AR_HEAP_ALIGN_SIZE).
LEMMA AlignSizeIs ==
    ASSUME NEW n \in Nat
    PROVE  /\ AlignSize(n) \in Nat /\ AlignSize(n) >= n /\ AlignSize(n) < n + Align
           /\ AlignSize(n) % Align = 0
           /\ \E k \in Int : AlignSize(n) = Align * k
<1> DEFINE m == n + Align - 1
           q == m \div Align
           r == m % Align
<1>1. m \in Int /\ m = n + Align - 1
  BY Sizes
<1>2. m = Align * q + r /\ r \in 0 .. Align - 1 /\ q \in Int
  BY <1>1, Divides
<1>3. AlignSize(n) = q * Align
  BY DEF AlignSize
<1> HIDE DEF m, q, r
<1>4. AlignSize(n) = Align * q /\ AlignSize(n) \in Int
  BY <1>2, <1>3, Sizes
<1>5. AlignSize(n) % Align = 0
  BY <1>2, <1>4, MultipleIff
<1> QED
  BY <1>1, <1>2, <1>4, <1>5, Sizes

\* Where the first small block of a page begins.
LEMMA FirstOffset ==
    SmallAlign(0) = Align - 2 /\ SmallAlign(0) \in 0 .. PageSize
    /\ (SmallAlign(0) + SmallHeader) % Align = 0
<1>1. 0 + SmallHeader \in Nat /\ 0 + SmallHeader = 2
  BY DEF SmallHeader
<1>2. AlignSize(2) \in Nat /\ AlignSize(2) >= 2 /\ AlignSize(2) < 2 + Align
  BY AlignSizeIs
<1>3. PICK k \in Int : AlignSize(2) = Align * k
  BY AlignSizeIs
<1>4. k = 1
  <2>1. CASE k >= 2
    <3>1. Align * k >= Align * 2
      BY <2>1, Sizes
    <3> QED
      BY <3>1, <1>2, <1>3, Sizes
  <2>2. CASE k <= 0
    <3>1. Align * k <= 0
      BY <2>2, Sizes
    <3> QED
      BY <3>1, <1>2, <1>3, Sizes
  <2> QED
    BY <2>1, <2>2
<1>5. SmallAlign(0) = Align - 2
  BY <1>1, <1>3, <1>4, Sizes DEF SmallAlign, SmallHeader
<1>6. Align = Align * 1 /\ Align \in Int
  BY Sizes
<1>7. Align % Align = 0
  BY <1>6, MultipleIff
<1>8. SmallAlign(0) + SmallHeader = Align
  BY <1>5, Sizes DEF SmallHeader
<1>9. Align <= PageSize
  BY HeapAssumption
<1> QED
  BY <1>5, <1>7, <1>8, <1>9, Sizes

\* The room of a small block, whose index is kept.
LEMMA SmallRoom ==
    ASSUME NEW n \in Nat, n <= SmallSize, NEW m \in Nat,
           m = IF n < PointerSize THEN PointerSize ELSE n
    PROVE  LET bytes == SmallAlign(m)
           IN  /\ bytes \in Nat /\ n <= bytes
               /\ bytes \div Align \in Indices
               /\ SmallBytes(bytes \div Align) = bytes
               /\ (bytes + SmallHeader) % Align = 0
               /\ SmallAlign(0) + bytes + SmallHeader <= PageSize
<1> DEFINE T == AlignSize(m + 2)
<1>1. m + 2 \in Nat /\ m >= 1 /\ m <= SmallSize /\ m >= n
  BY HeapAssumption
<1>2. T \in Nat /\ T >= m + 2 /\ T < m + 2 + Align /\ T % Align = 0
  BY <1>1, AlignSizeIs
<1>3. PICK k \in Int : T = Align * k
  BY <1>1, AlignSizeIs
<1>4. SmallAlign(m) = T - 2
  BY DEF SmallAlign, SmallHeader
<1> HIDE DEF T
<1>5. PICK s \in Int : SmallSize + 1 = Align * s
  BY HeapAssumption, MultipleIff
<1>6. k >= 1
  <2>1. CASE k <= 0
    <3>1. Align * k <= 0
      BY <2>1, Sizes
    <3> QED
      BY <3>1, <1>1, <1>2, <1>3, Sizes
  <2> QED
    BY <2>1
<1>7. k <= s + 1
  <2>1. CASE k >= s + 2
    <3>1. Align * k >= Align * (s + 2)
      BY <2>1, Sizes
    <3>2. Align * (s + 2) = SmallSize + 1 + 2 * Align
      BY <1>5, Sizes
    <3> QED
      BY <3>1, <3>2, <1>1, <1>2, <1>3, Sizes
  <2> QED
    BY <2>1
<1>8. T <= SmallSize + 1 + Align
  <2>1. Align * k <= Align * (s + 1)
    BY <1>7, Sizes
  <2>2. Align * (s + 1) = SmallSize + 1 + Align
    BY <1>5, Sizes
  <2> QED
    BY <2>1, <2>2, <1>3, Sizes
<1>9. (SmallSize + 1) \div Align = s
  <2>1. 0 \in 0 .. Align - 1 /\ SmallSize + 1 = Align * s + 0 /\ SmallSize + 1 \in Int
    BY <1>5, Sizes
  <2> QED
    BY <2>1, DivIs
<1>10. SmallAlign(m) \div Align = k - 1
  <2>1. Align - 2 \in 0 .. Align - 1 /\ T - 2 = Align * (k - 1) + (Align - 2)
        /\ T - 2 \in Int /\ k - 1 \in Int
    BY <1>2, <1>3, Sizes
  <2> QED
    BY <2>1, <1>4, DivIs
<1>11. k - 1 \in Indices
  BY <1>6, <1>7, <1>9 DEF Indices
<1>12. SmallBytes(k - 1) = T - 2
  BY <1>3, Sizes DEF SmallBytes, SmallHeader
<1>13. SmallAlign(m) + SmallHeader = T
  BY <1>2, <1>4 DEF SmallHeader
<1>14. SmallAlign(0) + (SmallAlign(m) + SmallHeader) <= PageSize
  BY <1>2, <1>8, <1>13, FirstOffset, Sizes, HeapAssumption
<1>15. SmallAlign(m) \in Nat /\ n <= SmallAlign(m)
  BY <1>1, <1>2, <1>4
<1> QED
  BY <1>2, <1>4, <1>10, <1>11, <1>12, <1>13, <1>14, <1>15, FirstOffset DEF SmallHeader

\* The room of a medium block.
LEMMA MediumRoom ==
    ASSUME NEW n \in Nat, n > SmallSize, n <= MediumSize
    PROVE  LET need == AlignSize(n) + MediumHeader
           IN  /\ need \in Nat /\ need >= n + MediumHeader /\ need >= MediumSmallest
               /\ need <= PageSize /\ need % Align = 0
<1> DEFINE T == AlignSize(n)
<1>1. T \in Nat /\ T >= n /\ T < n + Align /\ T % Align = 0
  BY AlignSizeIs
<1>2. PICK k \in Int : T = Align * k
  BY AlignSizeIs
<1>3. PICK s \in Int : SmallSize + 1 = Align * s
  BY HeapAssumption, MultipleIff
<1>4. PICK z \in Int : PageSize - MediumHeader = Align * z
  <2>1. PageSize \in Int /\ MediumHeader \in Int /\ PageSize % Align = 0 /\ MediumHeader % Align = 0
    BY HeapAssumption
  <2>2. (PageSize - MediumHeader) % Align = 0 /\ PageSize - MediumHeader \in Int
    BY <2>1, Multiples
  <2> QED
    BY <2>2, MultipleIff
<1> HIDE DEF T
<1>5. AlignSize(SmallSize + 1) = SmallSize + 1
  <2> DEFINE U == AlignSize(SmallSize + 1)
  <2>1. SmallSize + 1 \in Nat
    BY Sizes
  <2>2. U \in Nat /\ U >= SmallSize + 1 /\ U < SmallSize + 1 + Align
    BY <2>1, AlignSizeIs
  <2>3. PICK u \in Int : U = Align * u
    BY <2>1, AlignSizeIs
  <2> HIDE DEF U
  <2>4. Align * (u - s) >= 0 /\ Align * (u - s) < Align
    BY <2>2, <2>3, <1>3, Sizes
  <2>5. u - s = 0
    <3>1. CASE u - s >= 1
      <4>1. Align * (u - s) >= Align
        BY <3>1, Sizes
      <4> QED
        BY <4>1, <2>4, Sizes
    <3>2. CASE u - s <= -1
      <4>1. Align * (u - s) <= - Align
        BY <3>2, Sizes
      <4> QED
        BY <4>1, <2>4, Sizes
    <3> QED
      BY <3>1, <3>2
  <2> QED
    BY <2>3, <2>5, <1>3, Sizes DEF U
<1>6. k <= z
  <2>1. CASE k >= z + 1
    <3>1. Align * k >= Align * (z + 1)
      BY <2>1, Sizes
    <3>2. Align * (z + 1) = PageSize - MediumHeader + Align
      BY <1>4, Sizes
    <3> QED
      BY <3>1, <3>2, <1>1, <1>2, Sizes, HeapAssumption
  <2> QED
    BY <2>1
<1>7. Align * k <= Align * z
  BY <1>6, Sizes
<1>8. T + MediumHeader <= PageSize
  BY <1>7, <1>2, <1>4, Sizes
<1>9. (T + MediumHeader) % Align = 0
  BY <1>1, Multiples, HeapAssumption
<1> QED
  BY <1>1, <1>5, <1>8, <1>9, Sizes DEF T, MediumSmallest

\* The smallest medium entry fits a page.
LEMMA SmallestIs ==
    MediumSmallest \in Nat /\ MediumSmallest > 0 /\ MediumSmallest <= PageSize
<1>1. SmallSize + 1 \in Nat /\ SmallSize + 1 > SmallSize /\ SmallSize + 1 <= MediumSize
  BY HeapAssumption
<1>2. AlignSize(SmallSize + 1) \in Nat /\ AlignSize(SmallSize + 1) >= SmallSize + 1
  BY <1>1, AlignSizeIs
<1>3. AlignSize(SmallSize + 1) + MediumHeader <= PageSize
  BY <1>1, MediumRoom
<1> QED
  BY <1>1, <1>2, <1>3, Sizes DEF MediumSmallest

-----------------------------------------------------------------------------
(* The entries of a page of medium blocks.                                  *)

\* Where an entry ends.
End(en, e) == e[2] + en[e].size

IsEntries(en) == DOMAIN en \subseteq Place /\ en \in [DOMAIN en -> EntryRec]

\* M are the pages of medium blocks.
OnPages(en, M) == (\A e \in DOMAIN en : e[1] \in M) /\ \A p \in M : <<p, 0>> \in DOMAIN en

Sized(en) ==
    \A e \in DOMAIN en :
        /\ en[e].size >= MediumSmallest /\ End(en, e) <= PageSize
        /\ e[2] % Align = 0 /\ en[e].size % Align = 0

NextTiled(en) ==
    \A e \in DOMAIN en :
        IF en[e].next = Null THEN End(en, e) = PageSize
        ELSE /\ en[e].next = <<e[1], End(en, e)>> /\ en[e].next \in DOMAIN en
             /\ en[en[e].next].prev = e

PrevTiled(en) ==
    \A e \in DOMAIN en :
        IF en[e].prev = Null THEN e[2] = 0
        ELSE en[e].prev \in DOMAIN en /\ en[e].prev[1] = e[1] /\ en[en[e].prev].next = e

Apart(en) ==
    \A e, f \in DOMAIN en :
        e # f /\ e[1] = f[1] => End(en, e) <= f[2] \/ End(en, f) <= e[2]

Tiled(en, M) ==
    /\ IsEntries(en) /\ OnPages(en, M) /\ Sized(en)
    /\ NextTiled(en) /\ PrevTiled(en) /\ Apart(en)

\* The types of what an entry keeps.
LEMMA EntryFacts ==
    ASSUME NEW en, IsEntries(en), NEW e \in DOMAIN en
    PROVE  /\ e \in Place /\ e[1] \in Page /\ e[2] \in Nat /\ e = <<e[1], e[2]>>
           /\ en[e].size \in Nat /\ End(en, e) \in Nat /\ en[e].free_block \in BOOLEAN
           /\ en[e].prev \in PlaceOrNull /\ en[e].next \in PlaceOrNull
           /\ en[e].prev_free \in PlaceOrNull /\ en[e].next_free \in PlaceOrNull
  BY DEF IsEntries, EntryRec, Place, End

\* NULL is no entry.
LEMMA EntryIsPlace ==
    ASSUME NEW en, IsEntries(en)
    PROVE  Null \notin DOMAIN en /\ Null \notin Place
  BY PageAssumption DEF IsEntries, Place

\* Tiling asks for sizes and neighbours only.
LEMMA TiledAgree ==
    ASSUME NEW en, NEW en2, NEW M, Tiled(en, M), IsEntries(en2), DOMAIN en2 = DOMAIN en,
           \A e \in DOMAIN en : /\ en2[e].size = en[e].size /\ en2[e].next = en[e].next
                                /\ en2[e].prev = en[e].prev
    PROVE  Tiled(en2, M)
<1>1. \A e \in DOMAIN en : End(en2, e) = End(en, e)
  BY DEF End
<1> QED
  BY <1>1 DEF Tiled, OnPages, Sized, NextTiled, PrevTiled, Apart

\* An entry that takes in the one behind it.
LEMMA TiledJoined ==
    ASSUME NEW en, NEW en2, NEW M, Tiled(en, M), IsEntries(en2), NEW a \in DOMAIN en,
           NEW f, f = en[a].next, f # Null,
           DOMAIN en2 = DOMAIN en \ {f},
           en2[a].size = en[a].size + en[f].size, en2[a].next = en[f].next,
           \A e \in DOMAIN en \ {a, f} : en2[e].size = en[e].size /\ en2[e].next = en[e].next,
           \A e \in DOMAIN en \ {f} :
              en2[e].prev = IF e = en[f].next THEN a ELSE en[e].prev
    PROVE  Tiled(en2, M) /\ a # f
<1>1. /\ f \in DOMAIN en /\ f = <<a[1], End(en, a)>> /\ en[f].prev = a
      /\ f[1] = a[1] /\ f[2] = End(en, a)
  BY DEF Tiled, NextTiled
<1>2. /\ a[2] \in Nat /\ f[2] \in Nat /\ en[a].size \in Nat /\ en[f].size \in Nat
      /\ MediumSmallest \in Nat /\ MediumSmallest > 0 /\ PageSize \in Nat
  BY <1>1, EntryFacts, SmallestIs, Sizes DEF Tiled
<1>3. en[a].size >= MediumSmallest /\ en[f].size >= MediumSmallest
  BY <1>1 DEF Tiled, Sized
<1>4. a # f
  BY <1>1, <1>2, <1>3 DEF End
<1>5. /\ End(en2, a) = End(en, f)
      /\ \A e \in DOMAIN en \ {a, f} : End(en2, e) = End(en, e)
  BY <1>1, <1>2, <1>4 DEF End
<1>6. OnPages(en2, M)
  <2>1. \A p \in M : <<p, 0>> # f
    BY <1>1, <1>2, <1>3 DEF End
  <2> QED
    BY <2>1 DEF Tiled, OnPages
<1>7. Sized(en2)
  <2>1. en2[a].size >= MediumSmallest /\ en2[a].size % Align = 0
    <3>1. en[a].size % Align = 0 /\ en[f].size % Align = 0
      BY <1>1 DEF Tiled, Sized
    <3>2. en[a].size \in Int /\ en[f].size \in Int
      BY <1>2
    <3>3. (en[a].size + en[f].size) % Align = 0
      BY <3>1, <3>2, Multiples
    <3> QED
      BY <3>3, <1>2, <1>3
  <2> QED
    BY <2>1, <1>1, <1>5 DEF Tiled, Sized
<1>8. NextTiled(en2)
  <2> SUFFICES ASSUME NEW e \in DOMAIN en2
               PROVE  IF en2[e].next = Null THEN End(en2, e) = PageSize
                      ELSE /\ en2[e].next = <<e[1], End(en2, e)>> /\ en2[e].next \in DOMAIN en2
                           /\ en2[en2[e].next].prev = e
    BY DEF NextTiled
  <2>1. CASE e = a
    <3>1. en[f].next # f
      BY <1>1, <1>2, <1>3 DEF Tiled, NextTiled, End
    <3> QED
      BY <2>1, <3>1, <1>1, <1>4, <1>5 DEF Tiled, NextTiled
  <2>2. CASE e # a
    <3>1. e \in DOMAIN en /\ e # f
      OBVIOUS
    <3>2. en[e].next # f
      BY <2>2, <3>1, <1>1 DEF Tiled, NextTiled
    <3>3. en[e].next # Null => en[e].next # en[f].next
      BY <3>1, <1>1 DEF Tiled, NextTiled
    <3> QED
      BY <2>2, <3>1, <3>2, <3>3, <1>5 DEF Tiled, NextTiled
  <2> QED
    BY <2>1, <2>2
<1>9. PrevTiled(en2)
  <2> SUFFICES ASSUME NEW e \in DOMAIN en2
               PROVE  IF en2[e].prev = Null THEN e[2] = 0
                      ELSE en2[e].prev \in DOMAIN en2 /\ en2[e].prev[1] = e[1]
                           /\ en2[en2[e].prev].next = e
    BY DEF PrevTiled
  <2>0. e \in DOMAIN en /\ e # f
    OBVIOUS
  <2>1. CASE e = en[f].next
    <3>1. e[1] = f[1]
      BY <2>0, <2>1, <1>1, EntryIsPlace DEF Tiled, NextTiled
    <3>2. a # Null
      BY EntryIsPlace DEF Tiled
    <3> QED
      BY <2>0, <2>1, <3>1, <3>2, <1>1, <1>4
  <2>2. CASE e # en[f].next
    <3>1. en[e].prev # f
      BY <2>0, <2>2, <1>1 DEF Tiled, PrevTiled
    <3>2. en[e].prev # a
      BY <2>0, <2>2, EntryIsPlace DEF Tiled, PrevTiled
    <3> QED
      BY <2>0, <2>2, <3>1, <3>2 DEF Tiled, PrevTiled
  <2> QED
    BY <2>1, <2>2
<1>10. Apart(en2)
  <2> SUFFICES ASSUME NEW d \in DOMAIN en2, NEW e \in DOMAIN en2, d # e, d[1] = e[1]
               PROVE  End(en2, d) <= e[2] \/ End(en2, e) <= d[2]
    BY DEF Apart
  <2>0. d \in DOMAIN en \ {f} /\ e \in DOMAIN en \ {f}
    OBVIOUS
  <2>1. End(en, d) <= e[2] \/ End(en, e) <= d[2]
    BY <2>0 DEF Tiled, Apart
  <2>2. ASSUME NEW g \in DOMAIN en, g # a, g # f, g[1] = a[1]
        PROVE  End(en, f) <= g[2] \/ End(en, g) <= a[2]
    <3>1. End(en, f) <= g[2] \/ End(en, g) <= f[2]
      BY <2>2, <1>1 DEF Tiled, Apart
    <3>2. End(en, a) <= g[2] \/ End(en, g) <= a[2]
      BY <2>2 DEF Tiled, Apart
    <3>3. /\ g[2] \in Nat /\ en[g].size \in Nat /\ en[g].size > 0
          /\ End(en, g) = g[2] + en[g].size
      <4>1. en[g].size >= MediumSmallest
        BY DEF Tiled, Sized
      <4> QED
        BY <4>1, <1>2, EntryFacts DEF Tiled, End
    <3> QED
      BY <3>1, <3>2, <3>3, <1>1, <1>2 DEF End
  <2>3. CASE d = a
    BY <2>0, <2>2, <2>3, <1>5
  <2>4. CASE e = a
    BY <2>0, <2>2, <2>4, <1>5
  <2>5. CASE d # a /\ e # a
    BY <2>0, <2>1, <2>5, <1>5
  <2> QED
    BY <2>3, <2>4, <2>5
<1> QED
  BY <1>4, <1>6, <1>7, <1>8, <1>9, <1>10 DEF Tiled

\* The end of an entry becomes one of its own.
LEMMA TiledSplit ==
    ASSUME NEW en, NEW en2, NEW M, Tiled(en, M), IsEntries(en2), NEW a \in DOMAIN en,
           NEW n \in Nat, n >= MediumSmallest, n % Align = 0, en[a].size >= n + MediumSmallest,
           NEW f, f = <<a[1], a[2] + en[a].size - n>>,
           DOMAIN en2 = DOMAIN en \cup {f},
           en2[a].size = en[a].size - n, en2[a].next = f, en2[a].prev = en[a].prev,
           en2[f].size = n, en2[f].next = en[a].next, en2[f].prev = a,
           \A e \in DOMAIN en \ {a} :
              /\ en2[e].size = en[e].size /\ en2[e].next = en[e].next
              /\ en2[e].prev = IF e = en[a].next THEN f ELSE en[e].prev
    PROVE  Tiled(en2, M) /\ f \notin DOMAIN en
<1>1. /\ a[1] \in Page /\ a[2] \in Nat /\ en[a].size \in Nat /\ a \in Place
      /\ MediumSmallest \in Nat /\ MediumSmallest > 0 /\ PageSize \in Nat
  BY EntryFacts, SmallestIs, Sizes DEF Tiled
<1>2. f[1] = a[1] /\ f[2] = a[2] + en[a].size - n /\ f[2] \in Nat /\ f[2] > a[2] /\ f \in Place
  BY <1>1 DEF Place
<1>3. \A e \in DOMAIN en : /\ e[2] \in Nat /\ en[e].size \in Nat /\ en[e].size >= MediumSmallest
                           /\ End(en, e) = e[2] + en[e].size /\ End(en, e) <= PageSize
                           /\ e = <<e[1], e[2]>>
  BY EntryFacts DEF Tiled, Sized, End
<1>4. f \notin DOMAIN en
  <2>1. ASSUME f \in DOMAIN en PROVE FALSE
    <3>1. End(en, f) <= a[2] \/ End(en, a) <= f[2]
      BY <2>1, <1>2 DEF Tiled, Apart
    <3> QED
      BY <2>1, <3>1, <1>1, <1>2, <1>3
  <2> QED
    BY <2>1
<1>5. /\ End(en2, a) = f[2] /\ End(en2, f) = End(en, a)
      /\ \A e \in DOMAIN en \ {a} : End(en2, e) = End(en, e)
  BY <1>1, <1>2, <1>3 DEF End
<1>6. OnPages(en2, M)
  BY <1>2 DEF Tiled, OnPages
<1>7. Sized(en2)
  <2>1. en[a].size % Align = 0 /\ a[2] % Align = 0
    BY DEF Tiled, Sized
  <2> DEFINE rest == en[a].size - n
  <2>a. en[a].size \in Int /\ n \in Int /\ a[2] \in Int /\ rest \in Int
    BY <1>1
  <2>2. rest % Align = 0
    BY <2>1, <2>a, Multiples
  <2> HIDE DEF rest
  <2>3. (a[2] + rest) % Align = 0
    BY <2>1, <2>2, <2>a, Multiples
  <2> USE DEF rest
  <2>4. f[2] = a[2] + (en[a].size - n)
    BY <1>1, <1>2
  <2>5. en2[a].size >= MediumSmallest /\ End(en2, a) <= PageSize /\ en2[a].size % Align = 0
    BY <2>2, <1>1, <1>2, <1>3, <1>5
  <2>6. en2[f].size >= MediumSmallest /\ End(en2, f) <= PageSize /\ f[2] % Align = 0
    BY <2>3, <2>4, <1>3, <1>5
  <2> QED
    BY <2>1, <2>5, <2>6, <1>5 DEF Tiled, Sized
<1>8. NextTiled(en2)
  <2> SUFFICES ASSUME NEW e \in DOMAIN en2
               PROVE  IF en2[e].next = Null THEN End(en2, e) = PageSize
                      ELSE /\ en2[e].next = <<e[1], End(en2, e)>> /\ en2[e].next \in DOMAIN en2
                           /\ en2[en2[e].next].prev = e
    BY DEF NextTiled
  <2>1. CASE e = a
    <3>1. f # Null
      BY <1>2, PageAssumption DEF Place
    <3> QED
      BY <2>1, <3>1, <1>2, <1>5
  <2>2. CASE e = f
    <3>1. en[a].next # Null => /\ en[a].next = <<a[1], End(en, a)>> /\ en[a].next \in DOMAIN en
                               /\ en[a].next # a
      BY <1>1, <1>3 DEF Tiled, NextTiled
    <3>2. en[a].next = Null => End(en, a) = PageSize
      BY DEF Tiled, NextTiled
    <3> QED
      BY <2>2, <3>1, <3>2, <1>2, <1>5
  <2>3. CASE e # a /\ e # f
    <3>1. e \in DOMAIN en
      BY <2>3
    <3>2. en[e].next # Null => en[e].next # en[a].next /\ en[e].next \in DOMAIN en
      BY <2>3, <3>1 DEF Tiled, NextTiled
    <3> QED
      BY <2>3, <3>1, <3>2, <1>5 DEF Tiled, NextTiled
  <2> QED
    BY <2>1, <2>2, <2>3
<1>9. PrevTiled(en2)
  <2> SUFFICES ASSUME NEW e \in DOMAIN en2
               PROVE  IF en2[e].prev = Null THEN e[2] = 0
                      ELSE en2[e].prev \in DOMAIN en2 /\ en2[e].prev[1] = e[1]
                           /\ en2[en2[e].prev].next = e
    BY DEF PrevTiled
  <2>1. CASE e = f
    BY <2>1, <1>2, EntryIsPlace DEF Tiled
  <2>2. CASE e # f /\ e # a /\ e = en[a].next
    <3>1. e[1] = a[1]
      BY <2>2, EntryIsPlace DEF Tiled, NextTiled
    <3>2. e \in DOMAIN en \ {a} /\ en2[e].prev = f /\ f # Null
      BY <2>2, <1>2, EntryIsPlace DEF Tiled
    <3> QED
      BY <2>2, <3>1, <3>2, <1>2
  <2>3. CASE e # f /\ (e = a \/ e # en[a].next)
    <3>1. e \in DOMAIN en /\ en2[e].prev = en[e].prev
      BY <2>3
    <3>2. en[e].prev # a
      <4>1. en[a].next # a
        <5>1. a # Null
          BY EntryIsPlace DEF Tiled
        <5> QED
          BY <5>1, <1>1, <1>3 DEF Tiled, NextTiled
      <4> QED
        BY <2>3, <3>1, <4>1, PageAssumption, <1>1 DEF Tiled, PrevTiled, Place
    <3>3. en[e].prev # Null => en[e].prev \in DOMAIN en \ {a}
      BY <3>1, <3>2 DEF Tiled, PrevTiled
    <3> QED
      BY <3>1, <3>3 DEF Tiled, PrevTiled
  <2> QED
    BY <2>1, <2>2, <2>3
<1>10. Apart(en2)
  <2> SUFFICES ASSUME NEW d \in DOMAIN en2, NEW e \in DOMAIN en2, d # e, d[1] = e[1]
               PROVE  End(en2, d) <= e[2] \/ End(en2, e) <= d[2]
    BY DEF Apart
  <2>1. ASSUME NEW g \in DOMAIN en, g # a, g[1] = a[1]
        PROVE  /\ End(en2, a) <= g[2] \/ End(en2, g) <= a[2]
               /\ End(en2, f) <= g[2] \/ End(en2, g) <= f[2]
    <3>1. End(en, a) <= g[2] \/ End(en, g) <= a[2]
      BY <2>1 DEF Tiled, Apart
    <3> QED
      BY <2>1, <3>1, <1>1, <1>2, <1>3, <1>5
  <2>2. CASE d \in DOMAIN en \ {a} /\ e \in DOMAIN en \ {a}
    BY <2>2, <1>5 DEF Tiled, Apart
  <2>3. CASE d \in {a, f} /\ e \in {a, f}
    BY <2>3, <1>2, <1>5
  <2>4. CASE d \in {a, f} /\ e \in DOMAIN en \ {a}
    BY <2>4, <2>1, <1>2
  <2>5. CASE e \in {a, f} /\ d \in DOMAIN en \ {a}
    BY <2>5, <2>1, <1>2
  <2> QED
    BY <2>2, <2>3, <2>4, <2>5
<1> QED
  BY <1>4, <1>6, <1>7, <1>8, <1>9, <1>10 DEF Tiled

-----------------------------------------------------------------------------
(* The free lists of pages.                                                 *)

FreeNext(S, en) ==
    \A e \in S : en[e].next_free # Null =>
        /\ en[e].next_free \in S /\ en[e].next_free[1] = e[1]
        /\ en[en[e].next_free].prev_free = e

FreePrev(S, en) ==
    \A e \in S : en[e].prev_free # Null =>
        /\ en[e].prev_free \in S /\ en[e].prev_free[1] = e[1]
        /\ en[en[e].prev_free].next_free = e

FirstFree(S, en, pg) ==
    \A p \in DOMAIN pg :
        /\ pg[p].first_free # Null => /\ pg[p].first_free \in S /\ pg[p].first_free[1] = p
                                      /\ en[pg[p].first_free].prev_free = Null
        /\ \A e \in S : e[1] = p /\ en[e].prev_free = Null => pg[p].first_free = e

\* No list of free entries goes round: they have numbers that grow along next_free.
FreeRank(S, en, rank) ==
    /\ rank \in [S -> Nat]
    /\ \A e \in S : en[e].next_free # Null => rank[e] < rank[en[e].next_free]

FreeRanked(S, en) == \E rank : FreeRank(S, en, rank)

FreeLinked(S, en, pg) ==
    FreeNext(S, en) /\ FreePrev(S, en) /\ FirstFree(S, en, pg) /\ FreeRanked(S, en)

\* Free lists are sound if their links are those of sound ones.
LEMMA FreeAgree ==
    ASSUME NEW S, NEW en, NEW en2, NEW pg, NEW pg2, FreeLinked(S, en, pg),
           \A e \in S : en2[e].next_free = en[e].next_free /\ en2[e].prev_free = en[e].prev_free,
           \A p \in DOMAIN pg2 : p \in DOMAIN pg /\ pg2[p].first_free = pg[p].first_free
    PROVE  FreeLinked(S, en2, pg2)
<1>1. FreeRanked(S, en2)
  BY DEF FreeLinked, FreeRanked, FreeRank
<1> QED
  BY <1>1 DEF FreeLinked, FreeNext, FreePrev, FirstFree

\* An entry leaves the free list of its page.
LEMMA FreeLeave ==
    ASSUME NEW S, Null \notin S, NEW en, NEW en2, NEW pg, NEW pg2, FreeLinked(S, en, pg),
           NEW e \in S,
           \A q \in S :
               /\ en2[q].next_free = IF q = en[e].prev_free THEN en[e].next_free ELSE en[q].next_free
               /\ en2[q].prev_free = IF q = en[e].next_free THEN en[e].prev_free ELSE en[q].prev_free,
           DOMAIN pg2 = DOMAIN pg,
           \A p \in DOMAIN pg :
               pg2[p].first_free = IF p = e[1] /\ en[e].prev_free = Null THEN en[e].next_free
                                   ELSE pg[p].first_free
    PROVE  FreeLinked(S \ {e}, en2, pg2)
<1>1. FreeNext(S \ {e}, en2)
  BY DEF FreeLinked, FreeNext, FreePrev, FirstFree
<1>2. FreePrev(S \ {e}, en2)
  BY DEF FreeLinked, FreeNext, FreePrev, FirstFree
<1>3. FirstFree(S \ {e}, en2, pg2)
  BY DEF FreeLinked, FreeNext, FreePrev, FirstFree
<1>4. FreeRanked(S \ {e}, en2)
  <2>1. PICK rank : FreeRank(S, en, rank)
    BY DEF FreeLinked, FreeRanked
  <2> DEFINE rank2 == [q \in S \ {e} |-> rank[q]]
  <2>2. rank2 \in [S \ {e} -> Nat]
    BY <2>1 DEF FreeRank
  <2>3. ASSUME NEW q \in S \ {e}, en2[q].next_free # Null
        PROVE  rank2[q] < rank2[en2[q].next_free]
    <3>1. /\ en[q].next_free # Null => en[q].next_free \in S /\ rank[q] < rank[en[q].next_free]
          /\ en[e].next_free # Null => en[e].next_free \in S /\ rank[e] < rank[en[e].next_free]
          /\ q = en[e].prev_free => en[q].next_free = e
      BY <2>1 DEF FreeLinked, FreeNext, FreePrev, FreeRank
    <3>2. en2[q].next_free \in S \ {e}
      BY <2>3, <1>1 DEF FreeNext
    <3>3. \A x \in S : rank[x] \in Nat
      BY <2>1 DEF FreeRank
    <3> QED
      BY <2>3, <3>1, <3>2, <3>3
  <2> QED
    BY <2>2, <2>3 DEF FreeRanked, FreeRank
<1> QED
  BY <1>1, <1>2, <1>3, <1>4 DEF FreeLinked

\* An entry is put in front of the free list of its page.
LEMMA FreeEnter ==
    ASSUME NEW S, Null \notin S, NEW en, NEW en2, NEW pg, NEW pg2, FreeLinked(S, en, pg),
           NEW e, e \notin S, e # Null, e[1] \in DOMAIN pg,
           en2[e].prev_free = Null, en2[e].next_free = pg[e[1]].first_free,
           \A q \in S :
               /\ en2[q].next_free = en[q].next_free
               /\ en2[q].prev_free = IF q = pg[e[1]].first_free THEN e ELSE en[q].prev_free,
           DOMAIN pg2 = DOMAIN pg,
           \A p \in DOMAIN pg :
               pg2[p].first_free = IF p = e[1] THEN e ELSE pg[p].first_free
    PROVE  FreeLinked(S \cup {e}, en2, pg2)
<1>1. FreeNext(S \cup {e}, en2)
  BY DEF FreeLinked, FreeNext, FreePrev, FirstFree
<1>2. FreePrev(S \cup {e}, en2)
  BY DEF FreeLinked, FreeNext, FreePrev, FirstFree
<1>3. FirstFree(S \cup {e}, en2, pg2)
  BY DEF FreeLinked, FreeNext, FreePrev, FirstFree
<1>4. FreeRanked(S \cup {e}, en2)
  <2>1. PICK rank : FreeRank(S, en, rank)
    BY DEF FreeLinked, FreeRanked
  <2> DEFINE rank2 == [q \in S \cup {e} |-> IF q = e THEN 0 ELSE rank[q] + 1]
  <2>2. \A q \in S : rank[q] \in Nat /\ rank2[q] = rank[q] + 1
    BY <2>1 DEF FreeRank
  <2>3. rank2 \in [S \cup {e} -> Nat] /\ rank2[e] = 0
    BY <2>2
  <2>4. ASSUME NEW q \in S \cup {e}, en2[q].next_free # Null
        PROVE  rank2[q] < rank2[en2[q].next_free]
    <3>1. CASE q = e
      <4>1. en2[q].next_free \in S
        BY <2>4, <3>1 DEF FreeLinked, FirstFree
      <4> HIDE DEF rank2
      <4> QED
        BY <3>1, <4>1, <2>2, <2>3
    <3>2. CASE q # e
      <4>1. q \in S /\ en2[q].next_free = en[q].next_free
        BY <3>2
      <4>2. en[q].next_free \in S /\ rank[q] < rank[en[q].next_free]
        BY <4>1, <2>1, <2>4 DEF FreeLinked, FreeNext, FreeRank
      <4> HIDE DEF rank2
      <4> QED
        BY <4>1, <4>2, <2>2
    <3> QED
      BY <3>1, <3>2
  <2> HIDE DEF rank2
  <2> QED
    BY <2>3, <2>4 DEF FreeRanked, FreeRank
<1> QED
  BY <1>1, <1>2, <1>3, <1>4 DEF FreeLinked

-----------------------------------------------------------------------------
EntryFields == {"size", "prev", "next", "prev_free", "next_free", "free_block"}
PageFields == {"data_size", "next", "prev", "largest_free", "first_free"}

\* The map en with one field of one entry set.
SetOne(en, g, e, field, v) ==
    /\ DOMAIN g = DOMAIN en
    /\ \A q \in DOMAIN en : \A x \in EntryFields :
          g[q][x] = IF q = e /\ x = field THEN v ELSE en[q][x]

\* An assignment to a link of an entry.
LEMMA SetEntryLink ==
    ASSUME NEW en, IsEntries(en), NEW e, NEW v \in PlaceOrNull,
           NEW field \in {"prev", "next", "prev_free", "next_free"}
    PROVE  IsEntries(SetIn(en, e, field, v)) /\ SetOne(en, SetIn(en, e, field, v), e, field, v)
  BY DEF IsEntries, SetIn, EntryRec, SetOne, EntryFields

\* An assignment to the size of an entry.
LEMMA SetEntrySize ==
    ASSUME NEW en, IsEntries(en), NEW e, NEW v \in Nat
    PROVE  IsEntries(SetIn(en, e, "size", v)) /\ SetOne(en, SetIn(en, e, "size", v), e, "size", v)
  BY DEF IsEntries, SetIn, EntryRec, SetOne, EntryFields

\* An assignment to the mark of a free entry.
LEMMA SetEntryFree ==
    ASSUME NEW en, IsEntries(en), NEW e, NEW v \in BOOLEAN
    PROVE  /\ IsEntries(SetIn(en, e, "free_block", v))
           /\ SetOne(en, SetIn(en, e, "free_block", v), e, "free_block", v)
  BY DEF IsEntries, SetIn, EntryRec, SetOne, EntryFields

\* The map pg with one field of one page set.
SetOnePage(pg, g, p, field, v) ==
    /\ DOMAIN g = DOMAIN pg
    /\ \A q \in DOMAIN pg : \A x \in PageFields :
          g[q][x] = IF q = p /\ x = field THEN v ELSE pg[q][x]

\* An assignment to the largest size a page knows of.
LEMMA SetLargest ==
    ASSUME NEW pg, IsPages(pg), NEW p, NEW v \in Nat
    PROVE  /\ IsPages(SetIn(pg, p, "largest_free", v))
           /\ SetOnePage(pg, SetIn(pg, p, "largest_free", v), p, "largest_free", v)
  BY DEF IsPages, SetIn, PageRec, SetOnePage, PageFields

\* An assignment to the first free entry of a page.
LEMMA SetFirst ==
    ASSUME NEW pg, IsPages(pg), NEW p, NEW v \in PlaceOrNull
    PROVE  /\ IsPages(SetIn(pg, p, "first_free", v))
           /\ SetOnePage(pg, SetIn(pg, p, "first_free", v), p, "first_free", v)
  BY DEF IsPages, SetIn, PageRec, SetOnePage, PageFields

\* Entries of h with their links in free lists changed, and pages with their
\* first free ones.
FreeOnly(h, g) ==
    /\ Same(h, g, {"page", "entry"})
    /\ IsPages(g.page) /\ IsEntries(g.entry)
    /\ DOMAIN g.page = DOMAIN h.page /\ DOMAIN g.entry = DOMAIN h.entry
    /\ \A p \in DOMAIN h.page : /\ g.page[p].data_size = h.page[p].data_size
                                /\ g.page[p].next = h.page[p].next
                                /\ g.page[p].prev = h.page[p].prev
    /\ \A e \in DOMAIN h.entry : /\ g.entry[e].size = h.entry[e].size
                                 /\ g.entry[e].next = h.entry[e].next
                                 /\ g.entry[e].prev = h.entry[e].prev

\* The entries are a map, and NULL is none of them.
LEMMA EntriesAreMap ==
    ASSUME NEW en, IsEntries(en)
    PROVE  en = [q \in DOMAIN en |-> en[q]] /\ Null \notin DOMAIN en
  BY EntryIsPlace DEF IsEntries

\* What taking an entry out of its free list changes.
LEMMA UnlinkFreeIs ==
    ASSUME NEW h, IsHeap(h), IsPages(h.page), IsEntries(h.entry), NEW e \in DOMAIN h.entry
    PROVE  LET g == UnlinkFree(h, e)
               r == h.entry[e]
           IN  /\ FreeOnly(h, g)
               /\ \A q \in DOMAIN h.entry :
                    /\ g.entry[q].next_free = IF q = r.prev_free THEN r.next_free ELSE h.entry[q].next_free
                    /\ g.entry[q].prev_free = IF q = r.next_free THEN r.prev_free ELSE h.entry[q].prev_free
                    /\ g.entry[q].free_block = h.entry[q].free_block
               /\ \A p \in DOMAIN h.page :
                    /\ g.page[p].first_free = IF p = e[1] /\ r.prev_free = Null THEN r.next_free
                                              ELSE h.page[p].first_free
                    /\ g.page[p].largest_free = h.page[p].largest_free
<1> DEFINE r == h.entry[e]
           h1 == IF r.prev_free = Null THEN [h EXCEPT !.page[e[1]].first_free = r.next_free]
                 ELSE SetEntry(h, r.prev_free, "next_free", r.next_free)
           g == SetEntry(h1, r.next_free, "prev_free", r.prev_free)
<1>1. r.prev_free \in PlaceOrNull /\ r.next_free \in PlaceOrNull /\ Null \notin DOMAIN h.entry
  BY EntryFacts, EntryIsPlace
<1>2. /\ Same(h, h1, {"page", "entry"})
      /\ h1.page = IF r.prev_free = Null THEN SetIn(h.page, e[1], "first_free", r.next_free)
                   ELSE h.page
      /\ h1.entry = SetIn(h.entry, r.prev_free, "next_free", r.next_free)
  <2>1. CASE r.prev_free = Null
    <3>1. h1 = [h EXCEPT !.page[e[1]].first_free = r.next_free]
      BY <2>1
    <3>2. SetIn(h.entry, r.prev_free, "next_free", r.next_free) = h.entry
      BY <1>1, <2>1, EntriesAreMap DEF SetIn
    <3> HIDE DEF h1
    <3>3. Same(h, h1, {"page", "entry"}) /\ h1.entry = h.entry
      BY <3>1 DEF IsHeap, Fields, Same
    <3>4. h1.page = SetIn(h.page, e[1], "first_free", r.next_free)
      BY <3>1, PagesAreMap DEF IsHeap, Fields, SetIn
    <3> QED
      BY <2>1, <3>2, <3>3, <3>4
  <2>2. CASE r.prev_free # Null
    <3>1. h1 = SetEntry(h, r.prev_free, "next_free", r.next_free)
      BY <2>2
    <3> HIDE DEF h1
    <3>2. /\ Same(h, h1, {"entry"})
          /\ h1.entry = SetIn(h.entry, r.prev_free, "next_free", r.next_free)
      BY <3>1, SetEntryIs, EntriesAreMap
    <3> QED
      BY <2>2, <3>2 DEF Same, Fields
  <2> QED
    BY <2>1, <2>2
<1> HIDE DEF h1
<1>3. IsEntries(h1.entry) /\ SetOne(h.entry, h1.entry, r.prev_free, "next_free", r.next_free)
  BY <1>1, <1>2, SetEntryLink
<1>4. /\ IsPages(h1.page) /\ DOMAIN h1.page = DOMAIN h.page
      /\ \A p \in DOMAIN h.page :
            /\ h1.page[p].data_size = h.page[p].data_size /\ h1.page[p].next = h.page[p].next
            /\ h1.page[p].prev = h.page[p].prev /\ h1.page[p].largest_free = h.page[p].largest_free
            /\ h1.page[p].first_free = IF p = e[1] /\ r.prev_free = Null THEN r.next_free
                                       ELSE h.page[p].first_free
  <2>1. CASE r.prev_free = Null
    <3>1. IsPages(h1.page) /\ SetOnePage(h.page, h1.page, e[1], "first_free", r.next_free)
      BY <1>1, <1>2, <2>1, SetFirst
    <3> QED
      BY <2>1, <3>1 DEF SetOnePage, PageFields
  <2>2. CASE r.prev_free # Null
    BY <1>2, <2>2
  <2> QED
    BY <2>1, <2>2
<1>5. IsHeap(h1)
  BY <1>2 DEF Same
<1>6. Same(h1, g, {"entry"}) /\ g.entry = SetIn(h1.entry, r.next_free, "prev_free", r.prev_free)
  BY <1>3, <1>5, SetEntryIs, EntriesAreMap
<1>7. g = UnlinkFree(h, e)
  BY DEF g, h1, UnlinkFree
<1> HIDE DEF g
<1>8. IsEntries(g.entry) /\ SetOne(h1.entry, g.entry, r.next_free, "prev_free", r.prev_free)
  BY <1>1, <1>3, <1>6, SetEntryLink
<1>9. Same(h, g, {"page", "entry"}) /\ g.page = h1.page
  BY <1>2, <1>6 DEF Same, Fields
<1>10. \A q \in DOMAIN h.entry :
          /\ g.entry[q].size = h.entry[q].size /\ g.entry[q].next = h.entry[q].next
          /\ g.entry[q].prev = h.entry[q].prev /\ g.entry[q].free_block = h.entry[q].free_block
          /\ g.entry[q].next_free = IF q = r.prev_free THEN r.next_free ELSE h.entry[q].next_free
          /\ g.entry[q].prev_free = IF q = r.next_free THEN r.prev_free ELSE h.entry[q].prev_free
  BY <1>3, <1>8 DEF SetOne, EntryFields
<1>11. DOMAIN g.entry = DOMAIN h.entry
  BY <1>3, <1>8 DEF SetOne
<1>12. FreeOnly(h, g)
  BY <1>4, <1>8, <1>9, <1>10, <1>11 DEF FreeOnly
<1> QED
  BY <1>4, <1>7, <1>9, <1>10, <1>12

\* What putting an entry in front of its free list changes.
LEMMA PushFreeIs ==
    ASSUME NEW h, IsHeap(h), IsPages(h.page), IsEntries(h.entry), NEW e \in DOMAIN h.entry,
           e[1] \in DOMAIN h.page, h.page[e[1]].first_free # e
    PROVE  LET g == PushFree(h, e)
               first == h.page[e[1]].first_free
           IN  /\ FreeOnly(h, g)
               /\ \A q \in DOMAIN h.entry :
                    /\ g.entry[q].next_free = IF q = e THEN first ELSE h.entry[q].next_free
                    /\ g.entry[q].prev_free = IF q = e THEN Null
                                              ELSE IF q = first THEN e ELSE h.entry[q].prev_free
                    /\ g.entry[q].free_block = h.entry[q].free_block
               /\ \A p \in DOMAIN h.page :
                    /\ g.page[p].first_free = IF p = e[1] THEN e ELSE h.page[p].first_free
                    /\ g.page[p].largest_free = IF p = e[1] THEN h.entry[e].size
                                                ELSE h.page[p].largest_free
<1> DEFINE first == h.page[e[1]].first_free
           p == e[1]
           h1 == SetEntry(h, first, "prev_free", e)
           g == [h1 EXCEPT !.entry[e].prev_free = Null,
                           !.entry[e].next_free = first,
                           !.page[e[1]].first_free = e,
                           !.page[e[1]].largest_free = Size(h, e)]
           en2 == SetIn(h1.entry, e, "prev_free", Null)
           en3 == SetIn(en2, e, "next_free", first)
           pg2 == SetIn(h.page, p, "first_free", e)
           pg3 == SetIn(pg2, p, "largest_free", Size(h, e))
<1>1. first \in PlaceOrNull /\ e \in PlaceOrNull /\ Null \in PlaceOrNull /\ Size(h, e) \in Nat
  <2>1. h.page[e[1]] \in PageRec
    BY PageLinks
  <2> QED
    BY <2>1, EntryFacts DEF PlaceOrNull, PageRec, Size
<1>2. Same(h, h1, {"entry"}) /\ h1.entry = SetIn(h.entry, first, "prev_free", e)
  BY SetEntryIs, EntriesAreMap
<1>3. IsEntries(h1.entry) /\ SetOne(h.entry, h1.entry, first, "prev_free", e)
  BY <1>1, <1>2, SetEntryLink
<1>4. g = PushFree(h, e)
  BY DEF PushFree
<1>5. h1.page = h.page /\ IsHeap(h1)
  BY <1>2 DEF Same, Fields
<1> HIDE DEF h1, first
<1>6. Same(h1, g, {"page", "entry"})
  <2> DEFINE k1 == [h1 EXCEPT !.entry[e].prev_free = Null]
             k2 == [k1 EXCEPT !.entry[e].next_free = first]
             k3 == [k2 EXCEPT !.page[e[1]].first_free = e]
             k4 == [k3 EXCEPT !.page[e[1]].largest_free = Size(h, e)]
  <2>1. g = k4
    OBVIOUS
  <2> HIDE DEF g
  <2>2. Same(h1, k1, {"page", "entry"})
    BY <1>5 DEF IsHeap, Fields, Same
  <2> HIDE DEF k1
  <2>3. Same(k1, k2, {"page", "entry"})
    BY <2>2 DEF IsHeap, Fields, Same
  <2> HIDE DEF k2
  <2>4. Same(k2, k3, {"page", "entry"})
    BY <2>3 DEF IsHeap, Fields, Same
  <2> HIDE DEF k3
  <2>5. Same(k3, k4, {"page", "entry"})
    BY <2>4 DEF IsHeap, Fields, Same
  <2> HIDE DEF k4
  <2> QED
    BY <2>1, <2>2, <2>3, <2>4, <2>5 DEF Same
<1>7. g.entry = en3
  <2>1. DOMAIN h1.entry = DOMAIN h.entry /\ h1.entry = [q \in DOMAIN h1.entry |-> h1.entry[q]]
    BY <1>3, EntriesAreMap DEF SetOne
  <2>2. g.entry = [h1.entry EXCEPT ![e] = [h1.entry[e] EXCEPT !.prev_free = Null, !.next_free = first]]
    BY <1>5, <2>1 DEF IsHeap, Fields
  <2> HIDE DEF g
  <2> QED
    BY <2>1, <2>2 DEF SetIn
<1>8. g.page = pg3
  <2>1. h.page = [q \in DOMAIN h.page |-> h.page[q]]
    BY PagesAreMap
  <2>2. g.page = [h.page EXCEPT ![p] = [h.page[p] EXCEPT !.first_free = e, !.largest_free = Size(h, e)]]
    BY <1>5, <2>1 DEF IsHeap, Fields
  <2> HIDE DEF g
  <2> QED
    BY <2>1, <2>2 DEF SetIn
<1> HIDE DEF g
<1>9. IsEntries(en2) /\ SetOne(h1.entry, en2, e, "prev_free", Null)
  BY <1>1, <1>3, SetEntryLink
<1>10. IsEntries(en3) /\ SetOne(en2, en3, e, "next_free", first)
  BY <1>1, <1>9, SetEntryLink
<1>11. IsPages(pg2) /\ SetOnePage(h.page, pg2, p, "first_free", e)
  BY <1>1, SetFirst
<1>12. IsPages(pg3) /\ SetOnePage(pg2, pg3, p, "largest_free", Size(h, e))
  BY <1>1, <1>11, SetLargest
<1> HIDE DEF en2, en3, pg2, pg3
<1>13. \A q \in DOMAIN h.entry :
          /\ g.entry[q].size = h.entry[q].size /\ g.entry[q].next = h.entry[q].next
          /\ g.entry[q].prev = h.entry[q].prev /\ g.entry[q].free_block = h.entry[q].free_block
          /\ g.entry[q].next_free = IF q = e THEN first ELSE h.entry[q].next_free
          /\ g.entry[q].prev_free = IF q = e THEN Null
                                    ELSE IF q = first THEN e ELSE h.entry[q].prev_free
  BY <1>3, <1>7, <1>9, <1>10 DEF SetOne, EntryFields
<1>14. \A q \in DOMAIN h.page :
          /\ g.page[q].data_size = h.page[q].data_size /\ g.page[q].next = h.page[q].next
          /\ g.page[q].prev = h.page[q].prev
          /\ g.page[q].first_free = IF q = p THEN e ELSE h.page[q].first_free
          /\ g.page[q].largest_free = IF q = p THEN h.entry[e].size ELSE h.page[q].largest_free
  BY <1>8, <1>11, <1>12 DEF SetOnePage, PageFields, Size
<1>15. FreeOnly(h, g)
  <2>1. Same(h, g, {"page", "entry"})
    BY <1>2, <1>6 DEF Same, Fields
  <2>2. DOMAIN g.entry = DOMAIN h.entry /\ DOMAIN g.page = DOMAIN h.page
    BY <1>3, <1>7, <1>8, <1>9, <1>10, <1>11, <1>12 DEF SetOne, SetOnePage
  <2>3. IsEntries(g.entry) /\ IsPages(g.page)
    BY <1>7, <1>8, <1>10, <1>12
  <2> QED
    BY <2>1, <2>2, <2>3, <1>13, <1>14 DEF FreeOnly
<1> QED
  BY <1>4, <1>13, <1>14, <1>15 DEF first

-----------------------------------------------------------------------------
(* Entries split, used whole, merged and freed.                             *)

FreeSet(en) == {e \in DOMAIN en : en[e].free_block}

\* No two free entries are neighbours, unless the first of them is x.
Spaced(en, x) ==
    \A e \in DOMAIN en :
        e # x /\ en[e].free_block /\ en[e].next # Null => ~en[en[e].next].free_block

\* The pages M of medium blocks and their entries.
EntriesSound(h, M) ==
    /\ IsHeap(h) /\ IsPages(h.page) /\ M \subseteq DOMAIN h.page
    /\ Tiled(h.entry, M)
    /\ FreeLinked(FreeSet(h.entry), h.entry, h.page)

\* Off page p nothing was changed.
Elsewhere(h, g, p) ==
    /\ DOMAIN g.page = DOMAIN h.page
    /\ \A q \in DOMAIN h.page \ {p} : /\ g.page[q].largest_free = h.page[q].largest_free
                                      /\ g.page[q].first_free = h.page[q].first_free
    /\ \A e \in DOMAIN h.entry :
          e[1] # p => /\ e \in DOMAIN g.entry /\ g.entry[e].size = h.entry[e].size
                      /\ g.entry[e].free_block = h.entry[e].free_block

\* The sizes of pages and their places in lists are what they were.
PlacesKept(h, g) ==
    \A q \in DOMAIN h.page : /\ g.page[q].data_size = h.page[q].data_size
                             /\ g.page[q].next = h.page[q].next
                             /\ g.page[q].prev = h.page[q].prev

\* Entries in use stay as they are, but for x.
UsedKept(h, g, x) ==
    \A e \in DOMAIN h.entry :
        e # x /\ ~h.entry[e].free_block =>
            /\ e \in DOMAIN g.entry /\ ~g.entry[e].free_block
            /\ g.entry[e].size = h.entry[e].size

\* A link is a place or NULL.
LEMMA PlacesTyped == Null \in PlaceOrNull /\ Place \subseteq PlaceOrNull
  BY DEF PlaceOrNull

\* The end of a free entry becomes one in use (MediumAllocDataFromPage).
LEMMA SplitEntryIs ==
    ASSUME NEW h, NEW M, EntriesSound(h, M), NEW b \in DOMAIN h.entry,
           h.entry[b].free_block, h.page[b[1]].first_free = b, Spaced(h.entry, Null),
           NEW n \in Nat, n >= MediumSmallest, n % Align = 0, Size(h, b) >= n + MediumSmallest
    PROVE  LET r == SplitEntry(h, b, n)
               g == r.heap
           IN  /\ Same(h, g, {"page", "entry"})
               /\ EntriesSound(g, M) /\ Spaced(g.entry, Null)
               /\ r.used \notin DOMAIN h.entry
               /\ r.used \in DOMAIN g.entry /\ r.used \in Place /\ r.used[1] = b[1]
               /\ ~g.entry[r.used].free_block /\ g.entry[r.used].size = n
               /\ Elsewhere(h, g, b[1]) /\ PlacesKept(h, g) /\ UsedKept(h, g, Null)
               /\ g.page[b[1]].first_free = b
               /\ g.page[b[1]].largest_free = Size(g, b)
<1> DEFINE en == h.entry
           p == b[1]
           a == en[b].next
           m == Size(h, b) - n
           nw == <<b[1], b[2] + m>>
           h0 == SetEntry(h, h.entry[b].next, "prev", nw)
           h1 == SetEntry(h0, b, "next", nw)
           h2 == SetEntry(h1, b, "size", m)
           en1 == SetIn(h.entry, a, "prev", nw)
           en2 == SetIn(en1, b, "next", nw)
           en3 == SetIn(en2, b, "size", m)
           g == [h2 EXCEPT !.entry = With(@, nw, UsedEntry(h, b, n)),
                           !.page[b[1]].largest_free = m]
           r == [heap |-> g, used |-> nw]
<1>1. /\ IsHeap(h) /\ IsPages(h.page) /\ IsEntries(en) /\ p \in DOMAIN h.page /\ p \in Page
      /\ b \in Place /\ en[b].size \in Nat /\ a \in PlaceOrNull /\ b[2] \in Nat
  BY EntryFacts DEF EntriesSound, Tiled, OnPages
<1>2. m \in Nat /\ m >= MediumSmallest /\ MediumSmallest \in Nat /\ MediumSmallest > 0
  BY <1>1, SmallestIs DEF Size
<1>2a. m = en[b].size - n
  BY DEF Size
<1>3. /\ nw \in Place /\ nw \in PlaceOrNull /\ nw[1] = b[1]
      /\ nw = <<b[1], b[2] + en[b].size - n>>
  <2>1. nw = <<b[1], b[2] + m>>
    OBVIOUS
  <2>2. b[2] + m = b[2] + en[b].size - n /\ b[2] + m \in Nat
    BY <1>1, <1>2, <1>2a
  <2> HIDE DEF m, nw
  <2> QED
    BY <2>1, <2>2, <1>1, PlacesTyped DEF Place
<1>4. r = SplitEntry(h, b, n)
  BY DEF SplitEntry
<1> HIDE DEF nw, m
<1>5. Same(h, h0, {"entry"}) /\ h0.entry = en1
  BY <1>1, SetEntryIs, EntriesAreMap
<1>6. IsEntries(en1) /\ SetOne(en, en1, a, "prev", nw)
  BY <1>1, <1>3, SetEntryLink
<1>7. IsEntries(en2) /\ SetOne(en1, en2, b, "next", nw)
  BY <1>3, <1>6, SetEntryLink
<1>8. IsEntries(en3) /\ SetOne(en2, en3, b, "size", m)
  BY <1>2, <1>7, SetEntrySize
<1> HIDE DEF h0
<1>9. Same(h0, h1, {"entry"}) /\ h1.entry = en2
  <2>1. IsHeap(h0) /\ IsEntries(h0.entry)
    BY <1>5, <1>6 DEF Same
  <2> QED
    BY <2>1, <1>5, SetEntryIs, EntriesAreMap
<1> HIDE DEF h1
<1>10. Same(h1, h2, {"entry"}) /\ h2.entry = en3
  <2>1. IsHeap(h1) /\ IsEntries(h1.entry)
    BY <1>7, <1>9 DEF Same
  <2> QED
    BY <2>1, <1>9, SetEntryIs, EntriesAreMap
<1> HIDE DEF h2
<1>11. Same(h, h2, {"entry"}) /\ h2.page = h.page /\ IsHeap(h2)
  BY <1>5, <1>9, <1>10 DEF Same, Fields
<1>11a. Same(h2, g, {"page", "entry"})
  BY <1>11 DEF IsHeap, Fields, Same
<1>11b. g.entry = With(en3, nw, UsedEntry(h, b, n))
  BY <1>10, <1>11 DEF IsHeap, Fields
<1>12. g.page = SetIn(h.page, p, "largest_free", m)
  BY <1>1, <1>11, PagesAreMap DEF IsHeap, Fields, SetIn
<1> HIDE DEF g
<1>13. IsPages(g.page) /\ SetOnePage(h.page, g.page, p, "largest_free", m)
  BY <1>1, <1>2, <1>12, SetLargest
<1> HIDE DEF en1, en2, en3
<1>14. nw \notin DOMAIN en
  <2>1. ASSUME nw \in DOMAIN en PROVE FALSE
    <3>1. End(en, nw) <= b[2] \/ End(en, b) <= nw[2]
      <4>1. nw # b
          BY <1>1, <1>2, <1>2a, <1>3
      <4> QED
        BY <2>1, <1>3, <4>1 DEF EntriesSound, Tiled, Apart
    <3>2. en[nw].size \in Nat
      BY <2>1, <1>1, EntryFacts
    <3> QED
      BY <3>1, <3>2, <1>1, <1>2, <1>2a, <1>3, SmallestIs DEF End
  <2> QED
    BY <2>1
<1>15. UsedEntry(h, b, n) \in EntryRec
  BY <1>1, PlacesTyped DEF UsedEntry, EntryRec
<1>16. DOMAIN en3 = DOMAIN en
  BY <1>6, <1>7, <1>8 DEF SetOne
<1>17. IsEntries(g.entry) /\ DOMAIN g.entry = DOMAIN en \cup {nw}
  BY <1>3, <1>8, <1>11b, <1>15, <1>16 DEF With, IsEntries
<1>18. \A e \in DOMAIN en :
          /\ g.entry[e].size = IF e = b THEN m ELSE en[e].size
          /\ g.entry[e].next = IF e = b THEN nw ELSE en[e].next
          /\ g.entry[e].prev = IF e = a THEN nw ELSE en[e].prev
          /\ g.entry[e].next_free = en[e].next_free /\ g.entry[e].prev_free = en[e].prev_free
          /\ g.entry[e].free_block = en[e].free_block
  <2>1. \A e \in DOMAIN en : g.entry[e] = en3[e]
    BY <1>11b, <1>14, <1>16 DEF With
  <2> QED
    BY <2>1, <1>6, <1>7, <1>8 DEF SetOne, EntryFields
<1>19. /\ g.entry[nw].size = n /\ g.entry[nw].next = a /\ g.entry[nw].prev = b
       /\ ~g.entry[nw].free_block
  BY <1>11b, <1>16 DEF With, UsedEntry
<1>20. a # b
  <2>1. a # Null => a = <<b[1], End(en, b)>>
    BY DEF EntriesSound, Tiled, NextTiled
  <2>2. b # Null
    BY <1>1, EntryIsPlace
  <2> QED
    BY <2>1, <2>2, <1>1, <1>2, <1>2a DEF End
<1>21. Tiled(g.entry, M)
  <2>1. Tiled(en, M)
    BY DEF EntriesSound
  <2>2. en[b].size >= n + MediumSmallest
    BY DEF Size
  <2>3. /\ g.entry[b].size = en[b].size - n /\ g.entry[b].next = nw /\ g.entry[b].prev = en[b].prev
        /\ \A e \in DOMAIN en \ {b} :
              /\ g.entry[e].size = en[e].size /\ g.entry[e].next = en[e].next
              /\ g.entry[e].prev = IF e = en[b].next THEN nw ELSE en[e].prev
    BY <1>18, <1>20, <1>2a
  <2> HIDE DEF en, a
  <2>4. g.entry[nw].next = en[b].next
    BY <1>19 DEF a
  <2> QED
    BY <2>1, <2>2, <2>3, <2>4, <1>3, <1>17, <1>19, TiledSplit DEF en
<1>22. FreeLinked(FreeSet(g.entry), g.entry, g.page)
  <2>1. FreeSet(g.entry) = FreeSet(en)
    BY <1>17, <1>18, <1>19 DEF FreeSet
  <2>2. \A q \in DOMAIN g.page : q \in DOMAIN h.page /\ g.page[q].first_free = h.page[q].first_free
    BY <1>13 DEF SetOnePage, PageFields
  <2>3. \A e \in FreeSet(en) :
           g.entry[e].next_free = en[e].next_free /\ g.entry[e].prev_free = en[e].prev_free
    BY <1>18 DEF FreeSet
  <2>4. FreeLinked(FreeSet(en), en, h.page)
    BY DEF EntriesSound
  <2> QED
    BY <2>1, <2>2, <2>3, <2>4, FreeAgree
<1>23. Same(h, g, {"page", "entry"})
  BY <1>11, <1>11a DEF Same, Fields
<1>24. EntriesSound(g, M)
  BY <1>13, <1>21, <1>22, <1>23 DEF EntriesSound, Same, SetOnePage
<1>25. Spaced(g.entry, Null)
  <2> SUFFICES ASSUME NEW e \in DOMAIN g.entry, g.entry[e].free_block, g.entry[e].next # Null
               PROVE  ~g.entry[g.entry[e].next].free_block
    BY DEF Spaced
  <2>1. e \in DOMAIN en /\ e # nw
    BY <1>17, <1>19
  <2>2. CASE e = b
    BY <2>1, <2>2, <1>18, <1>19
  <2>3. CASE e # b
    <3>1. en[e].free_block /\ en[e].next # Null /\ g.entry[e].next = en[e].next
      BY <2>1, <2>3, <1>18
    <3>2. en[e].next \in DOMAIN en /\ e # Null
      BY <2>1, <3>1, EntryIsPlace, <1>1 DEF EntriesSound, Tiled, NextTiled
    <3> QED
      BY <2>1, <3>1, <3>2, <1>18 DEF Spaced
  <2> QED
    BY <2>2, <2>3
<1>26. Elsewhere(h, g, p) /\ PlacesKept(h, g)
  <2>1. \A e \in DOMAIN en : e[1] # p => e # b
    OBVIOUS
  <2> QED
    BY <2>1, <1>13, <1>17, <1>18 DEF Elsewhere, PlacesKept, SetOnePage, PageFields
<1>27. UsedKept(h, g, Null)
  BY <1>17, <1>18 DEF UsedKept
<1>28. g.page[p].first_free = b /\ g.page[p].largest_free = Size(g, b)
  BY <1>1, <1>13, <1>18 DEF SetOnePage, PageFields, Size
<1>29. r.heap = g /\ r.used = nw
  OBVIOUS
<1> HIDE DEF r
<1> QED
  BY <1>3, <1>4, <1>14, <1>17, <1>19, <1>23, <1>24, <1>25, <1>26, <1>27, <1>28, <1>29

\* The parts of a sound heap of entries.
LEMMA SoundParts ==
    ASSUME NEW h, NEW M, EntriesSound(h, M)
    PROVE  /\ IsHeap(h) /\ IsPages(h.page) /\ IsEntries(h.entry) /\ M \subseteq DOMAIN h.page
           /\ Null \notin DOMAIN h.entry
           /\ Tiled(h.entry, M) /\ FreeLinked(FreeSet(h.entry), h.entry, h.page)
           /\ \A e \in DOMAIN h.entry : e[1] \in M /\ e[1] \in DOMAIN h.page
  BY EntryIsPlace DEF EntriesSound, Tiled, OnPages

\* A free entry is used whole (MediumAllocDataFromPage).
LEMMA UseEntryIs ==
    ASSUME NEW h, NEW M, EntriesSound(h, M), NEW b \in DOMAIN h.entry,
           h.entry[b].free_block, Spaced(h.entry, Null)
    PROVE  LET r == UseEntry(h, b)
               g == r.heap
           IN  /\ Same(h, g, {"page", "entry"})
               /\ EntriesSound(g, M) /\ Spaced(g.entry, Null)
               /\ r.used = b /\ b \in DOMAIN g.entry
               /\ ~g.entry[b].free_block /\ g.entry[b].size = h.entry[b].size
               /\ Elsewhere(h, g, b[1]) /\ PlacesKept(h, g) /\ UsedKept(h, g, Null)
               /\ g.page[b[1]].largest_free = 0
<1> DEFINE en == h.entry
           p == b[1]
           h1 == UnlinkFree(h, b)
           k1 == [h1 EXCEPT !.entry[b].prev_free = Null]
           k2 == [k1 EXCEPT !.entry[b].next_free = Null]
           k3 == [k2 EXCEPT !.entry[b].free_block = FALSE]
           g == [k3 EXCEPT !.page[b[1]].largest_free = 0]
           r == UseEntry(h, b)
<1>1. /\ IsHeap(h) /\ IsPages(h.page) /\ IsEntries(en) /\ p \in DOMAIN h.page
      /\ Null \notin DOMAIN en
  BY SoundParts
<1>2. r.heap = g /\ r.used = b
  BY DEF UseEntry
<1>3. /\ FreeOnly(h, h1)
      /\ \A q \in DOMAIN en :
           /\ h1.entry[q].next_free = IF q = en[b].prev_free THEN en[b].next_free ELSE en[q].next_free
           /\ h1.entry[q].prev_free = IF q = en[b].next_free THEN en[b].prev_free ELSE en[q].prev_free
           /\ h1.entry[q].free_block = en[q].free_block
      /\ \A q \in DOMAIN h.page :
           /\ h1.page[q].first_free = IF q = b[1] /\ en[b].prev_free = Null THEN en[b].next_free
                                      ELSE h.page[q].first_free
           /\ h1.page[q].largest_free = h.page[q].largest_free
  BY <1>1, UnlinkFreeIs
<1> HIDE DEF h1, r
<1>4. /\ IsHeap(h1) /\ IsPages(h1.page) /\ IsEntries(h1.entry)
      /\ DOMAIN h1.entry = DOMAIN en /\ DOMAIN h1.page = DOMAIN h.page
  BY <1>3 DEF FreeOnly, Same
<1>5. FreeLinked(FreeSet(en) \ {b}, h1.entry, h1.page)
  <2>1. b \in FreeSet(en) /\ Null \notin FreeSet(en) /\ FreeLinked(FreeSet(en), en, h.page)
    BY <1>1, SoundParts DEF FreeSet
  <2>2. \A q \in FreeSet(en) : q \in DOMAIN en
    BY DEF FreeSet
  <2> HIDE DEF en
  <2> QED
    BY <2>1, <2>2, <1>3, <1>4, FreeLeave
<1>6. Same(h1, k1, {"entry"}) /\ k1.entry = SetIn(h1.entry, b, "prev_free", Null)
  BY <1>4, EntriesAreMap DEF IsHeap, Fields, Same, SetIn
<1>7. IsEntries(k1.entry) /\ SetOne(h1.entry, k1.entry, b, "prev_free", Null)
  BY <1>4, <1>6, SetEntryLink, PlacesTyped
<1> HIDE DEF k1
<1>8. Same(k1, k2, {"entry"}) /\ k2.entry = SetIn(k1.entry, b, "next_free", Null)
  BY <1>6, <1>7, EntriesAreMap DEF IsHeap, Fields, Same, SetIn
<1>9. IsEntries(k2.entry) /\ SetOne(k1.entry, k2.entry, b, "next_free", Null)
  BY <1>7, <1>8, SetEntryLink, PlacesTyped
<1> HIDE DEF k2
<1>10. Same(k2, k3, {"entry"}) /\ k3.entry = [k2.entry EXCEPT ![b].free_block = FALSE]
  BY <1>8 DEF IsHeap, Fields, Same
<1> DEFINE no == FALSE
<1>10a. no \in BOOLEAN /\ ~no
  OBVIOUS
<1>10b. k3.entry = [k2.entry EXCEPT ![b].free_block = no]
  BY <1>10
<1> HIDE DEF no
<1>11. IsEntries(k3.entry) /\ SetOne(k2.entry, k3.entry, b, "free_block", no)
  <2>1. k3.entry = SetIn(k2.entry, b, "free_block", no)
    BY <1>9, <1>10b, EntriesAreMap DEF SetIn
  <2> QED
    BY <2>1, <1>9, <1>10a, SetEntryFree
<1> HIDE DEF k3
<1>12. Same(h1, k3, {"entry"}) /\ k3.page = h1.page
  BY <1>6, <1>8, <1>10 DEF Same, Fields
<1>13. Same(k3, g, {"page"}) /\ g.page = SetIn(h1.page, p, "largest_free", 0)
  BY <1>4, <1>12, PagesAreMap, SMTT(30) DEF IsHeap, Fields, Same, SetIn
<1>14. IsPages(g.page) /\ SetOnePage(h1.page, g.page, p, "largest_free", 0)
  BY <1>4, <1>13, SetLargest
<1> HIDE DEF g
<1>15. Same(h, g, {"page", "entry"}) /\ g.entry = k3.entry
  BY <1>3, <1>12, <1>13 DEF Same, Fields, FreeOnly
<1>16. /\ IsEntries(g.entry) /\ DOMAIN g.entry = DOMAIN en
       /\ \A q \in DOMAIN en :
             /\ g.entry[q].size = en[q].size /\ g.entry[q].next = en[q].next
             /\ g.entry[q].prev = en[q].prev
             /\ q # b => g.entry[q].free_block = en[q].free_block
             /\ q = b => ~g.entry[q].free_block
             /\ q # b => /\ g.entry[q].next_free = h1.entry[q].next_free
                         /\ g.entry[q].prev_free = h1.entry[q].prev_free
  <2>1. DOMAIN k2.entry = DOMAIN en
    BY <1>4, <1>7, <1>9 DEF SetOne
  <2>2. /\ IsEntries(g.entry) /\ DOMAIN g.entry = DOMAIN en
    BY <1>11, <1>15, <2>1 DEF SetOne
  <2>3. \A q \in DOMAIN en :
             /\ g.entry[q].size = en[q].size /\ g.entry[q].next = en[q].next
             /\ g.entry[q].prev = en[q].prev
             /\ q # b => /\ g.entry[q].next_free = h1.entry[q].next_free
                         /\ g.entry[q].prev_free = h1.entry[q].prev_free
    BY <1>3, <1>4, <1>7, <1>9, <1>11, <1>15, <2>1 DEF SetOne, EntryFields, FreeOnly
  <2>4. \A q \in DOMAIN en : g.entry[q].free_block = IF q = b THEN no ELSE en[q].free_block
    BY <1>3, <1>4, <1>7, <1>9, <1>11, <1>15, <2>1 DEF SetOne, EntryFields
  <2> QED
    BY <2>2, <2>3, <2>4, <1>10a
<1>17. Tiled(g.entry, M)
  BY <1>16, SoundParts, TiledAgree
<1>18. FreeLinked(FreeSet(g.entry), g.entry, g.page)
  <2>1. FreeSet(g.entry) = FreeSet(en) \ {b}
    BY <1>16 DEF FreeSet
  <2>2. \A q \in DOMAIN g.page : q \in DOMAIN h1.page /\ g.page[q].first_free = h1.page[q].first_free
    BY <1>14 DEF SetOnePage, PageFields
  <2>3. \A e \in FreeSet(en) \ {b} : /\ g.entry[e].next_free = h1.entry[e].next_free
                                     /\ g.entry[e].prev_free = h1.entry[e].prev_free
    BY <1>16 DEF FreeSet
  <2> QED
    BY <2>1, <2>2, <2>3, <1>5, FreeAgree
<1>19. EntriesSound(g, M)
  BY <1>1, <1>4, <1>14, <1>15, <1>17, <1>18, SoundParts DEF EntriesSound, Same, SetOnePage
<1>20. Spaced(g.entry, Null)
  <2>1. \A e \in DOMAIN en : en[e].next # Null => en[e].next \in DOMAIN en
    BY SoundParts DEF Tiled, NextTiled
  <2> QED
    BY <1>16, <2>1 DEF Spaced
<1>21. \A q \in DOMAIN h.page :
          /\ g.page[q].data_size = h.page[q].data_size /\ g.page[q].next = h.page[q].next
          /\ g.page[q].prev = h.page[q].prev
          /\ q # p => /\ g.page[q].first_free = h.page[q].first_free
                      /\ g.page[q].largest_free = h.page[q].largest_free
          /\ q = p => g.page[q].largest_free = 0
  BY <1>3, <1>4, <1>14 DEF SetOnePage, PageFields, FreeOnly
<1>22. Elsewhere(h, g, p) /\ PlacesKept(h, g)
  <2>1. \A e \in DOMAIN en : e[1] # p => e # b
    OBVIOUS
  <2>2. DOMAIN g.page = DOMAIN h.page
    BY <1>4, <1>14 DEF SetOnePage
  <2>3. \A e \in DOMAIN en : e[1] # p => g.entry[e].free_block = en[e].free_block
    BY <2>1, <1>16
  <2>4. \A e \in DOMAIN en : e \in DOMAIN g.entry /\ g.entry[e].size = en[e].size
    BY <1>16
  <2> QED
    BY <2>2, <2>3, <2>4, <1>21 DEF Elsewhere, PlacesKept
<1>23. UsedKept(h, g, Null)
  BY <1>16 DEF UsedKept
<1>24. ~g.entry[b].free_block /\ g.entry[b].size = en[b].size /\ b \in DOMAIN g.entry
  BY <1>16
<1>25. g.page[p].largest_free = 0
  BY <1>1, <1>21
<1> QED
  BY <1>2, <1>15, <1>19, <1>20, <1>22, <1>23, <1>24, <1>25 DEF r

\* An entry is no more.
LEMMA ForgetIs ==
    ASSUME NEW h, IsHeap(h), IsEntries(h.entry), NEW f
    PROVE  /\ Same(h, Forget(h, f), {"entry"})
           /\ IsEntries(Forget(h, f).entry)
           /\ DOMAIN Forget(h, f).entry = DOMAIN h.entry \ {f}
           /\ \A q \in DOMAIN h.entry \ {f} : Forget(h, f).entry[q] = h.entry[q]
<1>1. Same(h, Forget(h, f), {"entry"})
  BY DEF Forget, IsHeap, Fields, Same
<1>2. Forget(h, f).entry = Without(h.entry, {f})
  BY DEF Forget, IsHeap, Fields
<1>3. /\ DOMAIN Without(h.entry, {f}) = DOMAIN h.entry \ {f}
      /\ \A q \in DOMAIN h.entry \ {f} : Without(h.entry, {f})[q] = h.entry[q]
      /\ Without(h.entry, {f}) \in [DOMAIN h.entry \ {f} -> EntryRec]
  BY DEF Without, IsEntries
<1> QED
  BY <1>1, <1>2, <1>3 DEF IsEntries

\* An entry takes in the one behind it.
LEMMA AbsorbIs ==
    ASSUME NEW h, IsHeap(h), IsEntries(h.entry), NEW a \in DOMAIN h.entry,
           NEW f \in DOMAIN h.entry
    PROVE  LET g == Absorb(h, a, f)
               en == h.entry
           IN  /\ Same(h, g, {"entry"})
               /\ IsEntries(g.entry) /\ DOMAIN g.entry = DOMAIN en
               /\ \A q \in DOMAIN en :
                    /\ g.entry[q].size = IF q = a THEN en[a].size + en[f].size ELSE en[q].size
                    /\ g.entry[q].next = IF q = a THEN en[f].next ELSE en[q].next
                    /\ g.entry[q].prev = IF q = en[f].next THEN a ELSE en[q].prev
                    /\ g.entry[q].next_free = en[q].next_free
                    /\ g.entry[q].prev_free = en[q].prev_free
                    /\ g.entry[q].free_block = en[q].free_block
<1> DEFINE en == h.entry
           after == en[f].next
           sum == en[a].size + en[f].size
           k1 == [h EXCEPT !.entry[a].size = sum]
           k2 == [k1 EXCEPT !.entry[a].next = after]
           g == SetEntry(k2, after, "prev", a)
           en1 == SetIn(en, a, "size", sum)
           en2 == SetIn(en1, a, "next", after)
           en3 == SetIn(en2, after, "prev", a)
<1>1. sum \in Nat /\ after \in PlaceOrNull /\ a \in PlaceOrNull /\ a # Null
  BY EntryFacts, EntryIsPlace, PlacesTyped
<1>2. g = Absorb(h, a, f)
  <2>1. [h EXCEPT !.entry[a].size = @ + Size(h, f), !.entry[a].next = h.entry[f].next] = k2
    BY DEF Size
  <2> QED
    BY <2>1 DEF Absorb
<1> HIDE DEF sum, after
<1>3. Same(h, k1, {"entry"}) /\ k1.entry = en1
  BY EntriesAreMap DEF IsHeap, Fields, Same, SetIn
<1>4. IsEntries(en1) /\ SetOne(en, en1, a, "size", sum)
  BY <1>1, SetEntrySize
<1> HIDE DEF k1
<1>5. Same(k1, k2, {"entry"}) /\ k2.entry = en2
  BY <1>3, <1>4, EntriesAreMap DEF IsHeap, Fields, Same, SetIn
<1>6. IsEntries(en2) /\ SetOne(en1, en2, a, "next", after)
  BY <1>1, <1>4, SetEntryLink
<1> HIDE DEF k2
<1>7. Same(k2, g, {"entry"}) /\ g.entry = en3
  <2>1. IsHeap(k2) /\ IsEntries(k2.entry)
    BY <1>5, <1>6 DEF Same
  <2> QED
    BY <2>1, <1>5, SetEntryIs, EntriesAreMap
<1>8. IsEntries(en3) /\ SetOne(en2, en3, after, "prev", a)
  BY <1>1, <1>6, SetEntryLink
<1> HIDE DEF g, en1, en2, en3
<1>9. Same(h, g, {"entry"})
  BY <1>3, <1>5, <1>7 DEF Same
<1>10. DOMAIN en3 = DOMAIN en
  BY <1>4, <1>6, <1>8 DEF SetOne
<1>11. \A q \in DOMAIN en :
          /\ en3[q].size = IF q = a THEN sum ELSE en[q].size
          /\ en3[q].next = IF q = a THEN after ELSE en[q].next
          /\ en3[q].prev = IF q = after THEN a ELSE en[q].prev
          /\ en3[q].next_free = en[q].next_free
          /\ en3[q].prev_free = en[q].prev_free
          /\ en3[q].free_block = en[q].free_block
  BY <1>4, <1>6, <1>8 DEF SetOne, EntryFields
<1> QED
  BY <1>2, <1>7, <1>8, <1>9, <1>10, <1>11 DEF sum, after

\* The entry in use e is freed behind a free one.
LEMMA MergeIntoPrev ==
    ASSUME NEW h, NEW M, EntriesSound(h, M), Spaced(h.entry, Null),
           NEW e \in DOMAIN h.entry, ~h.entry[e].free_block,
           NEW a, a = h.entry[e].prev, a # Null, h.entry[a].free_block
    PROVE  LET g == Forget(Absorb(h, a, e), e)
           IN  /\ Same(h, g, {"page", "entry"})
               /\ EntriesSound(g, M) /\ Spaced(g.entry, a)
               /\ a \in DOMAIN g.entry /\ a[1] = e[1] /\ g.entry[a].free_block
               /\ Elsewhere(h, g, e[1]) /\ PlacesKept(h, g) /\ UsedKept(h, g, e)
               /\ g.page = h.page
<1> DEFINE en == h.entry
           h1 == Absorb(h, a, e)
           g == Forget(h1, e)
<1>1. /\ IsHeap(h) /\ IsPages(h.page) /\ IsEntries(en) /\ M \subseteq DOMAIN h.page
      /\ Null \notin DOMAIN en /\ Tiled(en, M) /\ FreeLinked(FreeSet(en), en, h.page)
  BY SoundParts
<1>2. a \in DOMAIN en /\ a[1] = e[1] /\ en[a].next = e /\ a # e
  BY <1>1 DEF Tiled, PrevTiled
<1>3. /\ Same(h, h1, {"entry"})
      /\ IsEntries(h1.entry) /\ DOMAIN h1.entry = DOMAIN en
      /\ \A q \in DOMAIN en :
           /\ h1.entry[q].size = IF q = a THEN en[a].size + en[e].size ELSE en[q].size
           /\ h1.entry[q].next = IF q = a THEN en[e].next ELSE en[q].next
           /\ h1.entry[q].prev = IF q = en[e].next THEN a ELSE en[q].prev
           /\ h1.entry[q].next_free = en[q].next_free
           /\ h1.entry[q].prev_free = en[q].prev_free
           /\ h1.entry[q].free_block = en[q].free_block
  <2>1. h1 = Absorb(h, a, e) /\ e \in DOMAIN h.entry
    OBVIOUS
  <2> HIDE DEF h1
  <2> QED
    BY <2>1, <1>1, <1>2, AbsorbIs, SMTT(60)
<1> HIDE DEF h1
<1>4. /\ Same(h1, g, {"entry"}) /\ IsEntries(g.entry) /\ DOMAIN g.entry = DOMAIN en \ {e}
      /\ \A q \in DOMAIN en \ {e} : g.entry[q] = h1.entry[q]
  <2>1. IsHeap(h1)
    BY <1>3 DEF Same
  <2> QED
    BY <2>1, <1>3, ForgetIs
<1> HIDE DEF g
<1>5. Same(h, g, {"entry"}) /\ g.page = h.page
  BY <1>3, <1>4 DEF Same, Fields
<1>6. Tiled(g.entry, M)
  <2>1. /\ g.entry[a].size = en[a].size + en[e].size /\ g.entry[a].next = en[e].next
        /\ \A q \in DOMAIN en \ {a, e} : g.entry[q].size = en[q].size /\ g.entry[q].next = en[q].next
        /\ \A q \in DOMAIN en \ {e} : g.entry[q].prev = IF q = en[e].next THEN a ELSE en[q].prev
    BY <1>2, <1>3, <1>4
  <2>2. e # Null
    BY <1>1
  <2> HIDE DEF en
  <2> QED
    BY <2>1, <2>2, <1>1, <1>2, <1>4, TiledJoined
<1>7. FreeLinked(FreeSet(g.entry), g.entry, g.page)
  <2>1. FreeSet(g.entry) = FreeSet(en)
    BY <1>3, <1>4 DEF FreeSet
  <2>2. \A q \in FreeSet(en) :
           g.entry[q].next_free = en[q].next_free /\ g.entry[q].prev_free = en[q].prev_free
    BY <1>3, <1>4 DEF FreeSet
  <2>3. \A p \in DOMAIN g.page : p \in DOMAIN h.page /\ g.page[p].first_free = h.page[p].first_free
    BY <1>5
  <2> QED
    BY <2>1, <2>2, <2>3, <1>1, FreeAgree
<1>8. EntriesSound(g, M)
  BY <1>1, <1>5, <1>6, <1>7 DEF EntriesSound, Same
<1>9. Spaced(g.entry, a)
  <2> SUFFICES ASSUME NEW d \in DOMAIN g.entry, d # a, g.entry[d].free_block,
                      g.entry[d].next # Null
               PROVE  ~g.entry[g.entry[d].next].free_block
    BY DEF Spaced
  <2>1. d \in DOMAIN en /\ d # e /\ g.entry[d].next = en[d].next /\ en[d].free_block
    BY <1>3, <1>4
  <2>2. en[d].next \in DOMAIN en /\ en[d].next # e
    BY <2>1, <1>1, <1>2 DEF Tiled, NextTiled
  <2>3. ~en[en[d].next].free_block
    BY <2>1, <1>1 DEF Spaced
  <2> QED
    BY <2>1, <2>2, <2>3, <1>3, <1>4
<1>10. Elsewhere(h, g, e[1])
  <2>1. \A q \in DOMAIN en : q[1] # e[1] => q # e /\ q # a
    BY <1>2
  <2>2. \A q \in DOMAIN en : q[1] # e[1] =>
           q \in DOMAIN g.entry /\ g.entry[q].size = en[q].size
    BY <2>1, <1>3, <1>4
  <2>3. \A q \in DOMAIN en : q[1] # e[1] => g.entry[q].free_block = en[q].free_block
    BY <2>1, <1>3, <1>4
  <2> QED
    BY <2>2, <2>3, <1>5 DEF Elsewhere
<1>11. PlacesKept(h, g)
  BY <1>5 DEF PlacesKept
<1>12. UsedKept(h, g, e)
  BY <1>2, <1>3, <1>4 DEF UsedKept
<1>13. a \in DOMAIN g.entry /\ g.entry[a].free_block
  BY <1>2, <1>3, <1>4
<1>14. Same(h, g, {"page", "entry"})
  BY <1>5 DEF Same
<1> QED
  BY <1>2, <1>5, <1>8, <1>9, <1>10, <1>11, <1>12, <1>13, <1>14 DEF g, h1

\* The entry in use e is freed on its own.
LEMMA FreedAlone ==
    ASSUME NEW h, NEW M, EntriesSound(h, M), Spaced(h.entry, Null),
           NEW e \in DOMAIN h.entry, ~h.entry[e].free_block,
           ~IsFreeEntry(h, h.entry[e].prev)
    PROVE  LET g == [PushFree(h, e) EXCEPT !.entry[e].free_block = TRUE]
           IN  /\ Same(h, g, {"page", "entry"})
               /\ EntriesSound(g, M) /\ Spaced(g.entry, e)
               /\ e \in DOMAIN g.entry /\ g.entry[e].free_block
               /\ Elsewhere(h, g, e[1]) /\ PlacesKept(h, g) /\ UsedKept(h, g, e)
<1> DEFINE en == h.entry
           p == e[1]
           first == h.page[e[1]].first_free
           h1 == PushFree(h, e)
           yes == TRUE
           g == [h1 EXCEPT !.entry[e].free_block = yes]
<1>1. /\ IsHeap(h) /\ IsPages(h.page) /\ IsEntries(en) /\ M \subseteq DOMAIN h.page
      /\ Null \notin DOMAIN en /\ Tiled(en, M) /\ FreeLinked(FreeSet(en), en, h.page)
      /\ p \in DOMAIN h.page /\ IsHeap(h) /\ Null \notin FreeSet(en)
  BY SoundParts DEF FreeSet
<1>2. first # e
  <2>1. first # Null => first \in FreeSet(en)
    BY <1>1 DEF FreeLinked, FirstFree
  <2> QED
    BY <2>1, <1>1 DEF FreeSet
<1>3. /\ FreeOnly(h, h1)
      /\ \A q \in DOMAIN en :
           /\ h1.entry[q].next_free = IF q = e THEN first ELSE en[q].next_free
           /\ h1.entry[q].prev_free = IF q = e THEN Null
                                      ELSE IF q = first THEN e ELSE en[q].prev_free
           /\ h1.entry[q].free_block = en[q].free_block
      /\ \A q \in DOMAIN h.page :
           /\ h1.page[q].first_free = IF q = p THEN e ELSE h.page[q].first_free
           /\ h1.page[q].largest_free = IF q = p THEN en[e].size ELSE h.page[q].largest_free
  BY <1>1, <1>2, PushFreeIs
<1>4. g = [PushFree(h, e) EXCEPT !.entry[e].free_block = TRUE]
  OBVIOUS
<1>5. yes \in BOOLEAN /\ yes
  OBVIOUS
<1> HIDE DEF h1, first, yes
<1>6. /\ IsHeap(h1) /\ IsPages(h1.page) /\ IsEntries(h1.entry)
      /\ DOMAIN h1.entry = DOMAIN en /\ DOMAIN h1.page = DOMAIN h.page
  BY <1>3 DEF FreeOnly, Same
<1>7. Same(h1, g, {"entry"}) /\ g.entry = SetIn(h1.entry, e, "free_block", yes)
  BY <1>6, EntriesAreMap DEF IsHeap, Fields, Same, SetIn
<1>8. IsEntries(g.entry) /\ SetOne(h1.entry, g.entry, e, "free_block", yes)
  BY <1>5, <1>6, <1>7, SetEntryFree
<1> HIDE DEF g
<1>9. Same(h, g, {"page", "entry"}) /\ g.page = h1.page
  BY <1>3, <1>7 DEF Same, Fields, FreeOnly
<1>10. /\ DOMAIN g.entry = DOMAIN en
       /\ \A q \in DOMAIN en :
             /\ g.entry[q].size = en[q].size /\ g.entry[q].next = en[q].next
             /\ g.entry[q].prev = en[q].prev
             /\ g.entry[q].next_free = h1.entry[q].next_free
             /\ g.entry[q].prev_free = h1.entry[q].prev_free
             /\ q # e => g.entry[q].free_block = en[q].free_block
             /\ q = e => g.entry[q].free_block
  <2>1. DOMAIN g.entry = DOMAIN en
    BY <1>6, <1>8 DEF SetOne
  <2>2. \A q \in DOMAIN en :
             /\ g.entry[q].size = en[q].size /\ g.entry[q].next = en[q].next
             /\ g.entry[q].prev = en[q].prev
             /\ g.entry[q].next_free = h1.entry[q].next_free
             /\ g.entry[q].prev_free = h1.entry[q].prev_free
    BY <1>3, <1>6, <1>8 DEF SetOne, EntryFields, FreeOnly
  <2>3. \A q \in DOMAIN en : g.entry[q].free_block = IF q = e THEN yes ELSE en[q].free_block
    BY <1>3, <1>6, <1>8 DEF SetOne, EntryFields
  <2> QED
    BY <2>1, <2>2, <2>3, <1>5
<1>11. Tiled(g.entry, M)
  BY <1>1, <1>8, <1>10, TiledAgree
<1>12. FreeLinked(FreeSet(g.entry), g.entry, g.page)
  <2>1. FreeSet(g.entry) = FreeSet(en) \cup {e} /\ e \notin FreeSet(en) /\ e # Null
    BY <1>1, <1>10 DEF FreeSet
  <2>2. \A q \in FreeSet(en) : q \in DOMAIN en /\ q # e
    BY DEF FreeSet
  <2>3. /\ g.entry[e].prev_free = Null /\ g.entry[e].next_free = h.page[e[1]].first_free
        /\ \A q \in FreeSet(en) :
              /\ g.entry[q].next_free = en[q].next_free
              /\ g.entry[q].prev_free = IF q = h.page[e[1]].first_free THEN e ELSE en[q].prev_free
    BY <2>2, <1>3, <1>10 DEF first
  <2>4. /\ DOMAIN g.page = DOMAIN h.page
        /\ \A q \in DOMAIN h.page : g.page[q].first_free = IF q = e[1] THEN e ELSE h.page[q].first_free
    BY <1>3, <1>6, <1>9
  <2> HIDE DEF en
  <2> QED
    BY <2>1, <2>3, <2>4, <1>1, FreeEnter, SMTT(30)
<1>13. EntriesSound(g, M)
  BY <1>1, <1>6, <1>9, <1>11, <1>12 DEF EntriesSound, Same
<1>14. Spaced(g.entry, e)
  <2> SUFFICES ASSUME NEW d \in DOMAIN g.entry, d # e, g.entry[d].free_block,
                      g.entry[d].next # Null
               PROVE  ~g.entry[g.entry[d].next].free_block
    BY DEF Spaced
  <2>1. d \in DOMAIN en /\ g.entry[d].next = en[d].next /\ en[d].free_block /\ d # Null
    BY <1>1, <1>10
  <2>2. en[d].next \in DOMAIN en /\ en[en[d].next].prev = d
    BY <2>1, <1>1 DEF Tiled, NextTiled
  <2>3. en[d].next # e
    BY <2>1, <2>2 DEF IsFreeEntry
  <2>4. ~en[en[d].next].free_block
    BY <2>1, <1>1 DEF Spaced
  <2> QED
    BY <2>1, <2>2, <2>3, <2>4, <1>10
<1>15. Elsewhere(h, g, p) /\ PlacesKept(h, g)
  <2>1. \A q \in DOMAIN en : q[1] # p => q # e
    OBVIOUS
  <2>2. \A q \in DOMAIN en : q[1] # p => g.entry[q].free_block = en[q].free_block
    BY <2>1, <1>10
  <2>3. \A q \in DOMAIN en : q \in DOMAIN g.entry /\ g.entry[q].size = en[q].size
    BY <1>10
  <2> QED
    BY <2>2, <2>3, <1>3, <1>6, <1>9 DEF Elsewhere, PlacesKept, FreeOnly
<1>16. UsedKept(h, g, e)
  BY <1>10 DEF UsedKept
<1>17. e \in DOMAIN g.entry /\ g.entry[e].free_block
  BY <1>10
<1> QED
  BY <1>4, <1>9, <1>13, <1>14, <1>15, <1>16, <1>17

\* The entry in use e is freed, merged with the one before it or not.
LEMMA MergePrevIs ==
    ASSUME NEW h, NEW M, EntriesSound(h, M), Spaced(h.entry, Null),
           NEW e \in DOMAIN h.entry, ~h.entry[e].free_block
    PROVE  LET r == MergePrev(h, e)
               g == r.heap
           IN  /\ Same(h, g, {"page", "entry"})
               /\ EntriesSound(g, M) /\ Spaced(g.entry, r.free)
               /\ r.free \in DOMAIN g.entry /\ r.free[1] = e[1] /\ g.entry[r.free].free_block
               /\ Elsewhere(h, g, e[1]) /\ PlacesKept(h, g) /\ UsedKept(h, g, e)
<1> DEFINE a == h.entry[e].prev
           r == MergePrev(h, e)
<1>1. CASE IsFreeEntry(h, a)
  <2>1. r.heap = Forget(Absorb(h, a, e), e) /\ r.free = a
    BY <1>1 DEF MergePrev
  <2>2. a # Null /\ h.entry[a].free_block
    BY <1>1 DEF IsFreeEntry
  <2> HIDE DEF r, a
  <2> QED
    BY <2>1, <2>2, MergeIntoPrev DEF a, r
<1>2. CASE ~IsFreeEntry(h, a)
  <2>1. r.heap = [PushFree(h, e) EXCEPT !.entry[e].free_block = TRUE] /\ r.free = e
    BY <1>2 DEF MergePrev
  <2> HIDE DEF r
  <2> QED
    BY <2>1, <1>2, FreedAlone, SMTT(30) DEF r
<1> QED
  BY <1>1, <1>2

\* The free entry e takes in the free one behind it.
LEMMA MergeWithNext ==
    ASSUME NEW h, NEW M, EntriesSound(h, M), NEW e \in DOMAIN h.entry, h.entry[e].free_block,
           Spaced(h.entry, e), NEW f, f = h.entry[e].next, f # Null, h.entry[f].free_block
    PROVE  LET g == Forget(UnlinkFree(Absorb(h, e, f), f), f)
           IN  /\ Same(h, g, {"page", "entry"})
               /\ EntriesSound(g, M) /\ Spaced(g.entry, Null)
               /\ e \in DOMAIN g.entry /\ g.entry[e].free_block
               /\ Elsewhere(h, g, e[1]) /\ PlacesKept(h, g) /\ UsedKept(h, g, Null)
<1> DEFINE en == h.entry
           p == e[1]
           h1 == Absorb(h, e, f)
           h2 == UnlinkFree(h1, f)
           g == Forget(h2, f)
<1>1. /\ IsHeap(h) /\ IsPages(h.page) /\ IsEntries(en) /\ M \subseteq DOMAIN h.page
      /\ Null \notin DOMAIN en /\ Tiled(en, M) /\ FreeLinked(FreeSet(en), en, h.page)
      /\ Null \notin FreeSet(en)
  BY SoundParts DEF FreeSet
<1>2. f \in DOMAIN en /\ f[1] = p /\ en[f].prev = e /\ f = <<e[1], End(en, e)>>
  BY <1>1 DEF Tiled, NextTiled
<1>3. /\ Same(h, h1, {"entry"})
      /\ IsEntries(h1.entry) /\ DOMAIN h1.entry = DOMAIN en
      /\ \A q \in DOMAIN en :
           /\ h1.entry[q].size = IF q = e THEN en[e].size + en[f].size ELSE en[q].size
           /\ h1.entry[q].next = IF q = e THEN en[f].next ELSE en[q].next
           /\ h1.entry[q].prev = IF q = en[f].next THEN e ELSE en[q].prev
           /\ h1.entry[q].next_free = en[q].next_free
           /\ h1.entry[q].prev_free = en[q].prev_free
           /\ h1.entry[q].free_block = en[q].free_block
  <2> HIDE DEF p, h2, g
  <2>1. IsHeap(h) /\ IsEntries(h.entry) /\ e \in DOMAIN h.entry /\ f \in DOMAIN h.entry
    BY <1>1, <1>2
  <2> QED
    BY <2>1, AbsorbIs, SMTT(30)
<1> HIDE DEF h1
<1>4. h1.page = h.page /\ IsHeap(h1) /\ IsPages(h1.page)
  BY <1>1, <1>3 DEF Same, Fields
<1>5. /\ FreeOnly(h1, h2)
      /\ \A q \in DOMAIN en :
           /\ h2.entry[q].next_free = IF q = en[f].prev_free THEN en[f].next_free ELSE en[q].next_free
           /\ h2.entry[q].prev_free = IF q = en[f].next_free THEN en[f].prev_free ELSE en[q].prev_free
           /\ h2.entry[q].free_block = en[q].free_block
      /\ \A q \in DOMAIN h.page :
           /\ h2.page[q].first_free = IF q = f[1] /\ en[f].prev_free = Null THEN en[f].next_free
                                      ELSE h.page[q].first_free
           /\ h2.page[q].largest_free = h.page[q].largest_free
  <2>1. /\ FreeOnly(h1, h2)
        /\ \A q \in DOMAIN h1.entry :
           /\ h2.entry[q].next_free = IF q = h1.entry[f].prev_free THEN h1.entry[f].next_free ELSE h1.entry[q].next_free
           /\ h2.entry[q].prev_free = IF q = h1.entry[f].next_free THEN h1.entry[f].prev_free ELSE h1.entry[q].prev_free
           /\ h2.entry[q].free_block = h1.entry[q].free_block
        /\ \A q \in DOMAIN h1.page :
           /\ h2.page[q].first_free = IF q = f[1] /\ h1.entry[f].prev_free = Null THEN h1.entry[f].next_free
                                      ELSE h1.page[q].first_free
           /\ h2.page[q].largest_free = h1.page[q].largest_free
    BY <1>2, <1>3, <1>4, UnlinkFreeIs
  <2> HIDE DEF h2
  <2> QED
    BY <2>1, <1>2, <1>3, <1>4
<1> HIDE DEF h2
<1>6. /\ IsHeap(h2) /\ IsPages(h2.page) /\ IsEntries(h2.entry) /\ DOMAIN h2.page = DOMAIN h.page
      /\ DOMAIN h2.entry = DOMAIN en
  BY <1>3, <1>4, <1>5 DEF FreeOnly, Same
<1>7. /\ Same(h2, g, {"entry"}) /\ IsEntries(g.entry) /\ DOMAIN g.entry = DOMAIN en \ {f}
      /\ \A q \in DOMAIN en \ {f} : g.entry[q] = h2.entry[q]
  BY <1>6, ForgetIs
<1> HIDE DEF g
<1>8. Same(h, g, {"page", "entry"}) /\ g.page = h2.page
  BY <1>3, <1>5, <1>7 DEF Same, Fields, FreeOnly
<1>9. \A q \in DOMAIN en \ {f} :
           /\ g.entry[q].size = IF q = e THEN en[e].size + en[f].size ELSE en[q].size
           /\ g.entry[q].next = IF q = e THEN en[f].next ELSE en[q].next
           /\ g.entry[q].prev = IF q = en[f].next THEN e ELSE en[q].prev
           /\ g.entry[q].next_free = h2.entry[q].next_free
           /\ g.entry[q].prev_free = h2.entry[q].prev_free
           /\ g.entry[q].free_block = en[q].free_block
  BY <1>3, <1>5, <1>7 DEF FreeOnly
<1>10. Tiled(g.entry, M) /\ e # f
  <2>0. e # f
    <3>1. en[e].size > 0 /\ en[e].size \in Nat /\ e[2] \in Nat
      BY <1>1, EntryFacts, SmallestIs DEF Tiled, Sized
    <3> QED
      BY <3>1, <1>2 DEF End
  <2>1. /\ g.entry[e].size = en[e].size + en[f].size /\ g.entry[e].next = en[f].next
        /\ \A q \in DOMAIN en \ {e, f} : g.entry[q].size = en[q].size /\ g.entry[q].next = en[q].next
        /\ \A q \in DOMAIN en \ {f} : g.entry[q].prev = IF q = en[f].next THEN e ELSE en[q].prev
    BY <2>0, <1>9
  <2> HIDE DEF en
  <2> QED
    BY <2>0, <2>1, <1>1, <1>7, TiledJoined DEF en
<1>11. FreeLinked(FreeSet(g.entry), g.entry, g.page)
  <2>1. FreeSet(g.entry) = FreeSet(en) \ {f} /\ f \in FreeSet(en)
    BY <1>2, <1>7, <1>9 DEF FreeSet
  <2>2. \A q \in FreeSet(en) : q \in DOMAIN en
    BY DEF FreeSet
  <2>3. FreeLinked(FreeSet(en) \ {f}, h2.entry, h2.page)
    <3> HIDE DEF en
    <3> QED
      BY <2>1, <2>2, <1>1, <1>5, <1>6, FreeLeave
  <2>4. \A q \in FreeSet(en) \ {f} : /\ g.entry[q].next_free = h2.entry[q].next_free
                                     /\ g.entry[q].prev_free = h2.entry[q].prev_free
    BY <2>2, <1>9
  <2>5. \A q \in DOMAIN g.page : q \in DOMAIN h2.page /\ g.page[q].first_free = h2.page[q].first_free
    BY <1>8
  <2> QED
    BY <2>1, <2>3, <2>4, <2>5, FreeAgree
<1>12. EntriesSound(g, M)
  BY <1>1, <1>6, <1>8, <1>10, <1>11 DEF EntriesSound, Same
<1>13. Spaced(g.entry, Null)
  <2> SUFFICES ASSUME NEW d \in DOMAIN g.entry, g.entry[d].free_block, g.entry[d].next # Null
               PROVE  ~g.entry[g.entry[d].next].free_block
    BY DEF Spaced
  <2>0. d \in DOMAIN en /\ d # f /\ en[d].free_block
    BY <1>7, <1>9
  <2>1. CASE d = e
    <3>1. g.entry[d].next = en[f].next /\ en[f].next # Null
      BY <2>0, <2>1, <1>9
    <3>2. en[f].next \in DOMAIN en /\ en[en[f].next].prev = f
      BY <3>1, <1>1, <1>2 DEF Tiled, NextTiled
    <3>3. ~en[en[f].next].free_block
      BY <3>1, <1>2, <1>10 DEF Spaced
    <3> QED
      BY <3>1, <3>2, <3>3, <1>2, <1>7, <1>9, <1>10
  <2>2. CASE d # e
    <3>1. g.entry[d].next = en[d].next
      BY <2>0, <2>2, <1>9
    <3>2. en[d].next \in DOMAIN en /\ en[en[d].next].prev = d
      BY <2>0, <3>1, <1>1 DEF Tiled, NextTiled
    <3>3. en[d].next # f
      BY <2>2, <3>2, <1>2
    <3>4. ~en[en[d].next].free_block
      BY <2>0, <2>2, <3>1 DEF Spaced
    <3> QED
      BY <3>1, <3>2, <3>3, <3>4, <1>7, <1>9
  <2> QED
    BY <2>1, <2>2
<1>14. Elsewhere(h, g, p) /\ PlacesKept(h, g)
  <2>1. \A q \in DOMAIN en : q[1] # p => q # e /\ q # f
    BY <1>2
  <2>2. \A q \in DOMAIN en : q[1] # p => g.entry[q].free_block = en[q].free_block
    BY <2>1, <1>9
  <2>3. \A q \in DOMAIN en : q[1] # p => q \in DOMAIN g.entry /\ g.entry[q].size = en[q].size
    BY <2>1, <1>7, <1>9
  <2> QED
    BY <2>2, <2>3, <1>2, <1>4, <1>5, <1>6, <1>8 DEF Elsewhere, PlacesKept, FreeOnly
<1>15. UsedKept(h, g, Null)
  BY <1>2, <1>7, <1>9 DEF UsedKept
<1>16. e \in DOMAIN g.entry /\ g.entry[e].free_block
  BY <1>7, <1>9, <1>10
<1> QED
  BY <1>8, <1>12, <1>13, <1>14, <1>15, <1>16 DEF g, h2, h1

\* The free entry e is merged with the one behind it or not.
LEMMA MergeNextIs ==
    ASSUME NEW h, NEW M, EntriesSound(h, M), NEW e \in DOMAIN h.entry, h.entry[e].free_block,
           Spaced(h.entry, e)
    PROVE  LET g == MergeNext(h, e)
           IN  /\ Same(h, g, {"page", "entry"})
               /\ EntriesSound(g, M) /\ Spaced(g.entry, Null)
               /\ e \in DOMAIN g.entry /\ g.entry[e].free_block
               /\ Elsewhere(h, g, e[1]) /\ PlacesKept(h, g) /\ UsedKept(h, g, Null)
<1> DEFINE f == h.entry[e].next
           g == MergeNext(h, e)
<1>1. CASE IsFreeEntry(h, f)
  <2>1. g = Forget(UnlinkFree(Absorb(h, e, f), f), f)
    BY <1>1 DEF MergeNext
  <2>2. f # Null /\ h.entry[f].free_block
    BY <1>1 DEF IsFreeEntry
  <2> HIDE DEF g, f
  <2> QED
    BY <2>1, <2>2, MergeWithNext DEF f, g
<1>2. CASE ~IsFreeEntry(h, f)
  <2>1. g = h
    BY <1>2 DEF MergeNext
  <2>2. Spaced(h.entry, Null)
    BY <1>2 DEF Spaced, IsFreeEntry
  <2>3. IsHeap(h)
    BY SoundParts
  <2> HIDE DEF g
  <2> QED
    BY <2>1, <2>2, <2>3 DEF Elsewhere, PlacesKept, UsedKept, Same, g
<1> QED
  BY <1>1, <1>2

\* Free entries move in their lists: entries stay sound.
LEMMA FreeOnlySound ==
    ASSUME NEW h, NEW M, EntriesSound(h, M), NEW g, FreeOnly(h, g),
           FreeLinked(FreeSet(h.entry), g.entry, g.page),
           \A q \in DOMAIN h.entry : g.entry[q].free_block = h.entry[q].free_block
    PROVE  EntriesSound(g, M)
<1>1. FreeSet(g.entry) = FreeSet(h.entry)
  BY DEF FreeOnly, FreeSet
<1>2. Tiled(g.entry, M)
  BY SoundParts, TiledAgree DEF FreeOnly
<1> QED
  BY <1>1, <1>2, SoundParts DEF EntriesSound, FreeOnly, Same

\* The first free entry of page p is the largest the page knows of.
Known(h, p) ==
    /\ h.page[p].first_free # Null
    /\ h.page[p].largest_free = h.entry[h.page[p].first_free].size

\* The free entry e comes first if it is larger than the first.
LEMMA LargestFirstIs ==
    ASSUME NEW h, NEW M, EntriesSound(h, M), NEW e \in DOMAIN h.entry, h.entry[e].free_block,
           Spaced(h.entry, Null)
    PROVE  LET g == LargestFirst(h, e)
           IN  /\ Same(h, g, {"page", "entry"})
               /\ EntriesSound(g, M) /\ Spaced(g.entry, Null) /\ DOMAIN g.entry = DOMAIN h.entry
               /\ Elsewhere(h, g, e[1]) /\ PlacesKept(h, g)
               /\ \A q \in DOMAIN h.entry : /\ g.entry[q].size = h.entry[q].size
                                            /\ g.entry[q].free_block = h.entry[q].free_block
               /\ Known(g, e[1])
<1> DEFINE en == h.entry
           p == e[1]
           first == h.page[p].first_free
           room == IF first = Null THEN 0 ELSE Size(h, first)
           h1 == [h EXCEPT !.page[e[1]].largest_free = room]
           h2 == UnlinkFree(h1, e)
           h3 == PushFree(h2, e)
           g == LargestFirst(h, e)
<1>1. /\ IsHeap(h) /\ IsPages(h.page) /\ IsEntries(en) /\ M \subseteq DOMAIN h.page
      /\ Null \notin DOMAIN en /\ Tiled(en, M) /\ FreeLinked(FreeSet(en), en, h.page)
      /\ Null \notin FreeSet(en) /\ p \in DOMAIN h.page /\ e \in FreeSet(en)
      /\ FreeSet(en) \subseteq DOMAIN en
  BY SoundParts DEF FreeSet
<1>2. first # Null => first \in DOMAIN en /\ first \in FreeSet(en)
  BY <1>1 DEF FreeLinked, FirstFree
<1>3. room \in Nat /\ en[e].size \in Nat /\ en[e].size > 0
  BY <1>1, <1>2, EntryFacts, SmallestIs DEF Size, Tiled, Sized
<1>4. g = IF Size(h, e) > h1.page[p].largest_free THEN h3 ELSE h1
  BY DEF LargestFirst
<1> HIDE DEF g
<1>5. Same(h, h1, {"page"}) /\ h1.page = SetIn(h.page, p, "largest_free", room)
  <2> HIDE DEF room
  <2> QED
    BY <1>1, PagesAreMap DEF IsHeap, Fields, Same, SetIn
<1>6. IsPages(h1.page) /\ SetOnePage(h.page, h1.page, p, "largest_free", room)
  BY <1>1, <1>3, <1>5, SetLargest
<1> HIDE DEF h1, room
<1>7. /\ DOMAIN h1.page = DOMAIN h.page /\ h1.entry = en /\ IsHeap(h1)
      /\ h1.page[p].largest_free = room
      /\ \A q \in DOMAIN h.page :
            /\ h1.page[q].first_free = h.page[q].first_free
            /\ h1.page[q].data_size = h.page[q].data_size
            /\ h1.page[q].next = h.page[q].next /\ h1.page[q].prev = h.page[q].prev
            /\ q # p => h1.page[q].largest_free = h.page[q].largest_free
  BY <1>1, <1>5, <1>6 DEF SetOnePage, PageFields, Same, Fields
<1>8. FreeOnly(h, h1)
  <2>1. Same(h, h1, {"page", "entry"})
    BY <1>5 DEF Same
  <2> QED
    BY <2>1, <1>1, <1>6, <1>7 DEF FreeOnly
<1>9. EntriesSound(h1, M)
  <2>1. FreeLinked(FreeSet(en), h1.entry, h1.page)
    BY <1>1, <1>7, FreeAgree
  <2> QED
    BY <2>1, <1>7, <1>8, FreeOnlySound
<1>10. Elsewhere(h, h1, p) /\ PlacesKept(h, h1)
  BY <1>7 DEF Elsewhere, PlacesKept
<1>11. Size(h, e) = en[e].size
  BY DEF Size
<1>12. CASE ~(en[e].size > room)
  <2>1. g = h1
    BY <1>4, <1>7, <1>11, <1>12
  <2>2. room # 0
    BY <1>3, <1>12
  <2>3. Known(h1, p)
    BY <2>2, <1>1, <1>7 DEF Known, room, Size
  <2>4. Same(h, h1, {"page", "entry"})
    BY <1>5 DEF Same
  <2> QED
    BY <2>1, <2>3, <2>4, <1>7, <1>9, <1>10 DEF g
<1>13. CASE en[e].size > room
  <2>1. g = h3
    BY <1>4, <1>7, <1>11, <1>13
  <2>2. /\ FreeOnly(h1, h2)
        /\ \A q \in DOMAIN en :
             /\ h2.entry[q].next_free = IF q = en[e].prev_free THEN en[e].next_free ELSE en[q].next_free
             /\ h2.entry[q].prev_free = IF q = en[e].next_free THEN en[e].prev_free ELSE en[q].prev_free
             /\ h2.entry[q].free_block = en[q].free_block
        /\ \A q \in DOMAIN h.page :
             /\ h2.page[q].first_free = IF q = e[1] /\ en[e].prev_free = Null THEN en[e].next_free
                                        ELSE h.page[q].first_free
             /\ h2.page[q].largest_free = h1.page[q].largest_free
    <3>1. /\ FreeOnly(h1, h2)
          /\ \A q \in DOMAIN h1.entry :
               /\ h2.entry[q].next_free = IF q = h1.entry[e].prev_free THEN h1.entry[e].next_free ELSE h1.entry[q].next_free
               /\ h2.entry[q].prev_free = IF q = h1.entry[e].next_free THEN h1.entry[e].prev_free ELSE h1.entry[q].prev_free
               /\ h2.entry[q].free_block = h1.entry[q].free_block
          /\ \A q \in DOMAIN h1.page :
               /\ h2.page[q].first_free = IF q = e[1] /\ h1.entry[e].prev_free = Null THEN h1.entry[e].next_free
                                          ELSE h1.page[q].first_free
               /\ h2.page[q].largest_free = h1.page[q].largest_free
      BY <1>1, <1>6, <1>7, UnlinkFreeIs
    <3> HIDE DEF h2
    <3> QED
      BY <3>1, <1>7
  <2> HIDE DEF h2
  <2>3. /\ IsHeap(h2) /\ IsPages(h2.page) /\ IsEntries(h2.entry) /\ DOMAIN h2.page = DOMAIN h.page
        /\ DOMAIN h2.entry = DOMAIN en /\ \A q \in DOMAIN en : h2.entry[q].size = en[q].size
    BY <2>2, <1>7 DEF FreeOnly, Same
  <2>4. FreeLinked(FreeSet(en) \ {e}, h2.entry, h2.page)
    <3>1. \A q \in FreeSet(en) : q \in DOMAIN en
      BY <1>1
    <3> HIDE DEF en
    <3> QED
      BY <3>1, <2>2, <2>3, <1>1, FreeLeave
  <2>5. h2.page[p].first_free # e
    <3>1. e # Null
      BY <1>1
    <3> QED
      BY <3>1, <2>3, <2>4, <1>1 DEF FreeLinked, FirstFree
  <2>6. /\ FreeOnly(h2, h3)
        /\ \A q \in DOMAIN en :
             /\ h3.entry[q].next_free = IF q = e THEN h2.page[p].first_free ELSE h2.entry[q].next_free
             /\ h3.entry[q].prev_free = IF q = e THEN Null
                                        ELSE IF q = h2.page[p].first_free THEN e ELSE h2.entry[q].prev_free
             /\ h3.entry[q].free_block = h2.entry[q].free_block
        /\ \A q \in DOMAIN h.page :
             /\ h3.page[q].first_free = IF q = p THEN e ELSE h2.page[q].first_free
             /\ h3.page[q].largest_free = IF q = p THEN h2.entry[e].size ELSE h2.page[q].largest_free
    BY <2>3, <2>5, <1>1, PushFreeIs
  <2> HIDE DEF h3
  <2>7. /\ DOMAIN h3.page = DOMAIN h.page /\ DOMAIN h3.entry = DOMAIN en
        /\ \A q \in DOMAIN en : /\ h3.entry[q].size = en[q].size
                                /\ h3.entry[q].free_block = en[q].free_block
    BY <2>2, <2>3, <2>6 DEF FreeOnly
  <2>8. FreeLinked(FreeSet(en), h3.entry, h3.page)
    <3>1. \A q \in FreeSet(en) \ {e} : q \in DOMAIN en /\ q # e
      BY <1>1
    <3>2. (FreeSet(en) \ {e}) \cup {e} = FreeSet(en)
      BY <1>1
    <3>3. e \notin FreeSet(en) \ {e} /\ Null \notin FreeSet(en) \ {e} /\ e # Null
      BY <1>1
    <3>4. /\ h3.entry[e].prev_free = Null /\ h3.entry[e].next_free = h2.page[e[1]].first_free
          /\ \A q \in FreeSet(en) \ {e} :
                /\ h3.entry[q].next_free = h2.entry[q].next_free
                /\ h3.entry[q].prev_free = IF q = h2.page[e[1]].first_free THEN e ELSE h2.entry[q].prev_free
      BY <3>1, <2>6, <1>1
    <3>5. /\ DOMAIN h3.page = DOMAIN h2.page /\ e[1] \in DOMAIN h2.page
          /\ \A q \in DOMAIN h2.page : h3.page[q].first_free = IF q = e[1] THEN e ELSE h2.page[q].first_free
      BY <2>3, <2>6, <2>7, <1>1
    <3> DEFINE S == FreeSet(en) \ {e}
    <3>6. FreeLinked(S \cup {e}, h3.entry, h3.page)
      <4>1. e \notin S /\ Null \notin S /\ FreeLinked(S, h2.entry, h2.page)
        BY <3>3, <2>4
      <4>2. \A q \in S :
                /\ h3.entry[q].next_free = h2.entry[q].next_free
                /\ h3.entry[q].prev_free = IF q = h2.page[e[1]].first_free THEN e ELSE h2.entry[q].prev_free
        BY <3>4
      <4> HIDE DEF S, en
      <4> QED
        BY <4>1, <4>2, <3>3, <3>4, <3>5, FreeEnter
    <3> QED
      BY <3>2, <3>6
  <2>9. FreeOnly(h, h3)
    <3>1. Same(h, h3, {"page", "entry"})
      BY <2>2, <2>6, <1>8 DEF FreeOnly, Same
    <3>2. \A q \in DOMAIN en : /\ h3.entry[q].next = en[q].next /\ h3.entry[q].prev = en[q].prev
      BY <2>2, <2>3, <2>6, <1>7 DEF FreeOnly
    <3>3. \A q \in DOMAIN h.page : /\ h3.page[q].data_size = h.page[q].data_size
                                   /\ h3.page[q].next = h.page[q].next
                                   /\ h3.page[q].prev = h.page[q].prev
      BY <2>2, <2>3, <2>6, <1>7 DEF FreeOnly
    <3> QED
      BY <3>1, <3>2, <3>3, <2>6, <2>7 DEF FreeOnly
  <2>10. EntriesSound(h3, M)
    BY <2>7, <2>8, <2>9, FreeOnlySound
  <2>11. Spaced(h3.entry, Null)
    <3>1. \A q \in DOMAIN en : en[q].next # Null => en[q].next \in DOMAIN en
      BY <1>1 DEF Tiled, NextTiled
    <3>2. \A q \in DOMAIN en : h3.entry[q].next = en[q].next
      BY <2>9 DEF FreeOnly
    <3> QED
      BY <3>1, <3>2, <2>7 DEF Spaced
  <2>12. Elsewhere(h, h3, p) /\ PlacesKept(h, h3)
    BY <2>2, <2>6, <2>7, <2>9, <1>7 DEF Elsewhere, PlacesKept, FreeOnly
  <2>13. Known(h3, p)
    <3>1. e # Null
      BY <1>1
    <3> QED
      BY <3>1, <2>3, <2>6, <2>7, <1>1 DEF Known
  <2>14. Same(h, h3, {"page", "entry"})
    BY <2>9 DEF FreeOnly
  <2> QED
    BY <2>1, <2>7, <2>10, <2>11, <2>12, <2>13, <2>14 DEF g
<1> QED
  BY <1>12, <1>13

\* Two steps that change fields of a heap.
LEMMA SameTwice ==
    ASSUME NEW h, NEW g, NEW f, NEW X, NEW Y, Same(h, g, X), Same(g, f, Y), X \subseteq Y
    PROVE  Same(h, f, Y)
  BY DEF Same

\* Bytes are taken from a page whose first free entry has them.
LEMMA AllocDataIs ==
    ASSUME NEW h, NEW M, EntriesSound(h, M), Spaced(h.entry, Null),
           NEW p \in M, Known(h, p), NEW n \in Nat, n >= MediumSmallest, n % Align = 0,
           h.page[p].largest_free >= n
    PROVE  LET r == MediumAllocDataFromPage(h, p, n)
               g == r.heap
           IN  /\ Same(h, g, {"page", "entry"})
               /\ EntriesSound(g, M) /\ Spaced(g.entry, Null)
               /\ r.used \in DOMAIN g.entry /\ r.used \in Place /\ r.used[1] = p
               /\ ~g.entry[r.used].free_block /\ g.entry[r.used].size >= n
               /\ r.used \in DOMAIN h.entry => h.entry[r.used].free_block
               /\ Elsewhere(h, g, p) /\ PlacesKept(h, g) /\ UsedKept(h, g, Null)
               /\ g.page[p].largest_free = 0 \/ Known(g, p)
<1> DEFINE b == h.page[p].first_free
           r == MediumAllocDataFromPage(h, p, n)
<1>1. /\ b \in DOMAIN h.entry /\ h.entry[b].free_block /\ b[1] = p
      /\ h.entry[b].size \in Nat /\ h.entry[b].size >= n /\ b \in Place /\ b # Null
  <2>1. b # Null /\ p \in DOMAIN h.page
    BY SoundParts DEF Known
  <2>2. b \in FreeSet(h.entry) /\ b[1] = p
    BY <2>1, SoundParts DEF FreeLinked, FirstFree
  <2>3. b \in DOMAIN h.entry /\ h.entry[b].free_block
    BY <2>2 DEF FreeSet
  <2> QED
    BY <2>1, <2>2, <2>3, SoundParts, EntryFacts DEF Known
<1>2. CASE Size(h, b) >= n + MediumSmallest
  <2>1. r = SplitEntry(h, b, n)
    BY <1>2 DEF MediumAllocDataFromPage
  <2> HIDE DEF r
  <2>2. /\ Same(h, r.heap, {"page", "entry"})
        /\ EntriesSound(r.heap, M) /\ Spaced(r.heap.entry, Null)
        /\ r.used \notin DOMAIN h.entry
        /\ r.used \in DOMAIN r.heap.entry /\ r.used \in Place /\ r.used[1] = b[1]
        /\ ~r.heap.entry[r.used].free_block /\ r.heap.entry[r.used].size = n
        /\ Elsewhere(h, r.heap, b[1]) /\ PlacesKept(h, r.heap) /\ UsedKept(h, r.heap, Null)
        /\ r.heap.page[b[1]].first_free = b
        /\ r.heap.page[b[1]].largest_free = Size(r.heap, b)
    <3>1. h.page[b[1]].first_free = b
      BY <1>1
    <3> HIDE DEF b
    <3> QED
      BY <2>1, <3>1, <1>1, <1>2, SplitEntryIs, SMTT(60)
  <2>3. Known(r.heap, p)
    BY <2>2, <1>1 DEF Known, Size
  <2> QED
    BY <2>2, <2>3, <1>1 DEF r
<1>3. CASE ~(Size(h, b) >= n + MediumSmallest)
  <2>1. r = UseEntry(h, b)
    BY <1>3 DEF MediumAllocDataFromPage
  <2> HIDE DEF r
  <2>2. /\ Same(h, r.heap, {"page", "entry"})
        /\ EntriesSound(r.heap, M) /\ Spaced(r.heap.entry, Null)
        /\ r.used = b /\ b \in DOMAIN r.heap.entry
        /\ ~r.heap.entry[b].free_block /\ r.heap.entry[b].size = h.entry[b].size
        /\ Elsewhere(h, r.heap, b[1]) /\ PlacesKept(h, r.heap) /\ UsedKept(h, r.heap, Null)
        /\ r.heap.page[b[1]].largest_free = 0
    BY <2>1, <1>1, UseEntryIs, SMTT(30)
  <2> QED
    BY <2>2, <1>1 DEF r
<1> QED
  BY <1>2, <1>3

\* Two steps that change one page.
LEMMA ElsewhereTwice ==
    ASSUME NEW h, NEW g, NEW f, NEW p, Elsewhere(h, g, p), Elsewhere(g, f, p)
    PROVE  Elsewhere(h, f, p)
  BY DEF Elsewhere

\* Two steps that leave the pages where they are.
LEMMA PlacesTwice ==
    ASSUME NEW h, NEW g, NEW f, NEW p, Elsewhere(h, g, p), PlacesKept(h, g), PlacesKept(g, f)
    PROVE  PlacesKept(h, f)
  BY DEF PlacesKept, Elsewhere

\* The entry e in use becomes free, as much as its page can tell.
FreeEntry(h, e) ==
    LET merged == MergePrev(h, e)
    IN  LargestFirst(MergeNext(merged.heap, merged.free), merged.free)

\* Freeing a medium block, up to the lists of pages.
LEMMA FreeEntryIs ==
    ASSUME NEW h, NEW M, EntriesSound(h, M), Spaced(h.entry, Null),
           NEW e \in DOMAIN h.entry, ~h.entry[e].free_block
    PROVE  LET g == FreeEntry(h, e)
               x == MergePrev(h, e).free
           IN  /\ Same(h, g, {"page", "entry"})
               /\ EntriesSound(g, M) /\ Spaced(g.entry, Null)
               /\ Elsewhere(h, g, e[1]) /\ PlacesKept(h, g) /\ UsedKept(h, g, e)
               /\ Known(g, e[1])
               /\ x \in DOMAIN g.entry /\ x[1] = e[1] /\ g.entry[x].free_block
<1> DEFINE r == MergePrev(h, e)
           x == r.free
           h1 == r.heap
           h2 == MergeNext(h1, x)
           g == LargestFirst(h2, x)
<1>1. /\ Same(h, h1, {"page", "entry"})
      /\ EntriesSound(h1, M) /\ Spaced(h1.entry, x)
      /\ x \in DOMAIN h1.entry /\ x[1] = e[1] /\ h1.entry[x].free_block
      /\ Elsewhere(h, h1, e[1]) /\ PlacesKept(h, h1) /\ UsedKept(h, h1, e)
  BY MergePrevIs
<1>2. g = FreeEntry(h, e)
  BY DEF FreeEntry
<1> HIDE DEF h1, x
<1>3. /\ Same(h1, h2, {"page", "entry"})
      /\ EntriesSound(h2, M) /\ Spaced(h2.entry, Null)
      /\ x \in DOMAIN h2.entry /\ h2.entry[x].free_block
      /\ Elsewhere(h1, h2, x[1]) /\ PlacesKept(h1, h2) /\ UsedKept(h1, h2, Null)
  BY <1>1, MergeNextIs
<1> HIDE DEF h2
<1>4. /\ Same(h2, g, {"page", "entry"})
      /\ EntriesSound(g, M) /\ Spaced(g.entry, Null) /\ DOMAIN g.entry = DOMAIN h2.entry
      /\ Elsewhere(h2, g, x[1]) /\ PlacesKept(h2, g)
      /\ \A q \in DOMAIN h2.entry : /\ g.entry[q].size = h2.entry[q].size
                                    /\ g.entry[q].free_block = h2.entry[q].free_block
      /\ Known(g, x[1])
  BY <1>3, LargestFirstIs
<1> HIDE DEF g
<1>5. Same(h, g, {"page", "entry"})
  BY <1>1, <1>3, <1>4 DEF Same
<1>6. Elsewhere(h, h2, e[1]) /\ PlacesKept(h, h2)
  BY <1>1, <1>3, ElsewhereTwice, PlacesTwice
<1>7. Elsewhere(h, g, e[1]) /\ PlacesKept(h, g)
  BY <1>1, <1>4, <1>6, ElsewhereTwice, PlacesTwice
<1>8. UsedKept(h, g, e)
  <2> SUFFICES ASSUME NEW q \in DOMAIN h.entry, q # e, ~h.entry[q].free_block
               PROVE  /\ q \in DOMAIN g.entry /\ ~g.entry[q].free_block
                      /\ g.entry[q].size = h.entry[q].size
    BY DEF UsedKept
  <2>1. q \in DOMAIN h1.entry /\ ~h1.entry[q].free_block /\ h1.entry[q].size = h.entry[q].size
    BY <1>1 DEF UsedKept
  <2>2. q # Null
    BY <2>1, <1>1, SoundParts
  <2>3. q \in DOMAIN h2.entry /\ ~h2.entry[q].free_block /\ h2.entry[q].size = h.entry[q].size
    BY <2>1, <2>2, <1>3 DEF UsedKept
  <2> QED
    BY <2>3, <1>4
<1>9. Known(g, e[1]) /\ x \in DOMAIN g.entry /\ x[1] = e[1] /\ g.entry[x].free_block
  BY <1>1, <1>3, <1>4
<1> QED
  BY <1>2, <1>4, <1>5, <1>7, <1>8, <1>9 DEF x

-----------------------------------------------------------------------------
(* The lists of pages with entries on them.                                 *)

MediumPages(kind) == {p \in DOMAIN kind : kind[p] \in {"roomy", "full"}}

\* What a page knows of its free entries, but for page x.
RoomKnown(h, kind, x) ==
    \A p \in DOMAIN kind \ {x} : /\ kind[p] = "roomy" => Known(h, p)
                                 /\ kind[p] = "full" => h.page[p].largest_free = 0

\* kind tells the list of every page.
PagesSound(h, kind, x) ==
    /\ kind \in [DOMAIN h.page -> Kinds]
    /\ EntriesSound(h, MediumPages(kind)) /\ Spaced(h.entry, Null)
    /\ \A p \in DOMAIN kind : kind[p] # "large" => h.page[p].data_size = PageSize
    /\ Linked(DOMAIN h.page, h.page, kind, Heads(h), h.medium_last_free_page)
    /\ RoomKnown(h, kind, x) /\ Booked(h)

ListFields == {"page", "medium_first_free_page", "medium_last_free_page",
               "medium_first_used_page", "large_first_used_page"}

\* Entries are sound wherever their pages are listed.
LEMMA RelinkedSound ==
    ASSUME NEW h, NEW M, EntriesSound(h, M), NEW g, Same(h, g, ListFields),
           Relinked(h.page, g.page)
    PROVE  /\ EntriesSound(g, M) /\ g.entry = h.entry
           /\ \A q \in DOMAIN h.page : Known(h, q) => Known(g, q)
<1>1. g.entry = h.entry /\ IsHeap(g)
  BY DEF Same, Fields, ListFields
<1>2. IsPages(g.page) /\ DOMAIN g.page = DOMAIN h.page
  BY SoundParts, RelinkedIsPages DEF Relinked
<1>3. FreeLinked(FreeSet(h.entry), h.entry, g.page)
  BY <1>2, SoundParts, FreeAgree DEF Relinked
<1> QED
  BY <1>1, <1>2, <1>3 DEF EntriesSound, Known, Relinked

\* The books are right wherever pages are listed.
LEMMA RelinkedBooks ==
    ASSUME NEW h, Booked(h), NEW g, Same(h, g, ListFields), Relinked(h.page, g.page)
    PROVE  Booked(g)
<1>1. BooksKept(h, g)
  BY DEF Same, ListFields, Fields, Relinked, BooksKept
<1> QED
  BY <1>1, BookedStays

\* The first pages of the lists by name.
LEMMA HeadsAre ==
    ASSUME NEW h
    PROVE  /\ Heads(h)["roomy"] = h.medium_first_free_page
           /\ Heads(h)["full"] = h.medium_first_used_page
           /\ Heads(h)["large"] = h.large_first_used_page
  BY DEF Heads

\* A page leaves the pages with room.
LEMMA LeaveFreePagesIs ==
    ASSUME NEW h, NEW kind, IsHeap(h), IsPages(h.page),
           Linked(DOMAIN h.page, h.page, kind, Heads(h), h.medium_last_free_page),
           NEW p \in DOMAIN h.page, kind[p] = "roomy"
    PROVE  LET g == LeaveFreePages(h, p)
           IN  /\ Same(h, g, {"page", "medium_first_free_page", "medium_last_free_page"})
               /\ Relinked(h.page, g.page)
               /\ g.medium_first_free_page = IF p = h.medium_first_free_page THEN h.page[p].next
                                             ELSE h.medium_first_free_page
               /\ Linked(DOMAIN h.page \ {p}, g.page, kind, Heads(g), g.medium_last_free_page)
<1> DEFINE h1 == UnlinkPage(h, p)
           r == h.page[p]
           g == LeaveFreePages(h, p)
<1>1. /\ Same(h, h1, {"page"})
      /\ Relinked(h.page, h1.page)
      /\ \A q \in DOMAIN h.page :
            /\ h1.page[q].next = IF q = r.prev THEN r.next ELSE h.page[q].next
            /\ h1.page[q].prev = IF q = r.next THEN r.prev ELSE h.page[q].prev
  BY UnlinkPageIs
<1>2. g = [h1 EXCEPT
              !.medium_last_free_page = IF p = @ THEN h.page[p].prev ELSE @,
              !.medium_first_free_page = IF p = @ THEN h.page[p].next ELSE @]
  BY DEF LeaveFreePages
<1> HIDE DEF h1, g
<1>3. /\ h1.medium_last_free_page = h.medium_last_free_page
      /\ h1.medium_first_free_page = h.medium_first_free_page
      /\ IsHeap(h1)
  BY <1>1 DEF Same, Fields
<1>4. /\ Same(h1, g, {"medium_first_free_page", "medium_last_free_page"})
      /\ g.medium_first_free_page = IF p = h.medium_first_free_page THEN h.page[p].next
                                    ELSE h.medium_first_free_page
      /\ g.medium_last_free_page = IF h.medium_last_free_page = p THEN h.page[p].prev
                                   ELSE h.medium_last_free_page
  BY <1>2, <1>3 DEF IsHeap, Fields, Same
<1>5. /\ Same(h, g, {"page", "medium_first_free_page", "medium_last_free_page"})
      /\ g.page = h1.page
  BY <1>1, <1>4 DEF Same, Fields
<1>6. \A k \in ListKinds : Heads(g)[k] = IF Heads(h)[k] = p THEN h.page[p].next ELSE Heads(h)[k]
  <2>1. \A k \in ListKinds : Heads(h)[k] = p => k = "roomy"
    <3>1. p # Null
      BY PagesAreMap
    <3> QED
      BY <3>1 DEF Linked, HeadsSound
  <2>2. g.medium_first_used_page = h.medium_first_used_page
        /\ g.large_first_used_page = h.large_first_used_page
    BY <1>5 DEF Same, Fields
  <2>3. "full" \in ListKinds /\ "large" \in ListKinds
    BY DEF ListKinds
  <2> QED
    BY <2>1, <2>2, <2>3, <1>4, HeadsAre DEF ListKinds
<1>7. Linked(DOMAIN h.page \ {p}, h1.page, kind, Heads(g), g.medium_last_free_page)
  <2> DEFINE S == DOMAIN h.page
             pg == h.page
             pg2 == h1.page
             heads == Heads(h)
             heads2 == Heads(g)
             last == h.medium_last_free_page
             last2 == g.medium_last_free_page
  <2>1. Null \notin S /\ Linked(S, pg, kind, heads, last) /\ p \in S
    BY PagesAreMap
  <2>2. \A q \in S : /\ pg2[q].next = IF q = pg[p].prev THEN pg[p].next ELSE pg[q].next
                     /\ pg2[q].prev = IF q = pg[p].next THEN pg[p].prev ELSE pg[q].prev
    BY <1>1
  <2>3. \A k \in ListKinds : heads2[k] = IF heads[k] = p THEN pg[p].next ELSE heads[k]
    BY <1>6
  <2>4. (last = p => last2 = pg[p].prev) /\ (last # p => last2 = last)
    BY <1>4
  <2> HIDE DEF S, pg, pg2, heads, heads2, last, last2
  <2>5. Linked(S \ {p}, pg2, kind, heads2, last2)
    BY <2>1, <2>2, <2>3, <2>4, LinkedLeave
  <2> QED
    BY <2>5 DEF S, pg2, heads2, last2
<1> QED
  BY <1>1, <1>4, <1>5, <1>7 DEF g

\* A page in no list is put in front of one.
PutInFront(h, kind, p, k, g, kind2) ==
    /\ k \in ListKinds /\ kind2[p] = k
    /\ \A q \in DOMAIN h.page \ {p} : kind2[q] = kind[q]
    /\ Same(PushPage(h, p, Heads(h)[k]), g, ListFields)
    /\ g.page = PushPage(h, p, Heads(h)[k]).page
    /\ Heads(g)[k] = p /\ \A j \in ListKinds \ {k} : Heads(g)[j] = Heads(h)[j]
    /\ k = "roomy" /\ Heads(h)[k] = Null => g.medium_last_free_page = p
    /\ k # "roomy" \/ Heads(h)[k] # Null => g.medium_last_free_page = h.medium_last_free_page

\* A page in no list is put in front of one.
LEMMA PushedInto ==
    ASSUME NEW h, NEW kind, IsHeap(h), IsPages(h.page), NEW p \in DOMAIN h.page,
           Linked(DOMAIN h.page \ {p}, h.page, kind, Heads(h), h.medium_last_free_page),
           NEW k, NEW g, NEW kind2, PutInFront(h, kind, p, k, g, kind2)
    PROVE  /\ Same(h, g, ListFields) /\ Relinked(h.page, g.page)
           /\ Linked(DOMAIN h.page, g.page, kind2, Heads(g), g.medium_last_free_page)
<1> DEFINE S == DOMAIN h.page \ {p}
           first == Heads(h)[k]
           g0 == PushPage(h, p, Heads(h)[k])
<1>1. first # Null => first \in S
  BY DEF Linked, HeadsSound, PutInFront
<1>2. first \in PageOrNull /\ first # p /\ p # Null
  BY <1>1, PagesAreMap DEF IsPages, PageOrNull
<1>3. /\ Same(h, g0, {"page"})
      /\ Relinked(h.page, g0.page)
      /\ \A q \in DOMAIN h.page :
            /\ g0.page[q].next = IF q = p THEN first ELSE h.page[q].next
            /\ g0.page[q].prev = IF q = p THEN Null
                                ELSE IF q = first THEN p ELSE h.page[q].prev
  BY <1>2, PushPageIs
<1> HIDE DEF g0
<1>3a. Same(g0, g, ListFields) /\ g.page = g0.page
  BY DEF g0, PutInFront
<1>4. Same(h, g, ListFields) /\ Relinked(h.page, g.page)
  BY <1>3, <1>3a DEF Same, ListFields
<1>5. Linked(S \cup {p}, g.page, kind2, Heads(g), g.medium_last_free_page)
  <2>1. Null \notin S /\ p \notin S
    BY PagesAreMap
  <2>2. /\ g.page[p].next = Heads(h)[k] /\ g.page[p].prev = Null
        /\ \A q \in S : /\ g.page[q].next = h.page[q].next
                        /\ g.page[q].prev = IF q = Heads(h)[k] THEN p ELSE h.page[q].prev
    BY <1>3, <1>3a DEF PutInFront
  <2>3. \A q \in S : kind2[q] = kind[q]
    BY DEF PutInFront
  <2>4. Linked(S, h.page, kind, Heads(h), h.medium_last_free_page)
    OBVIOUS
  <2> DEFINE pg == h.page
             pg2 == g.page
             heads == Heads(h)
             heads2 == Heads(g)
             last == h.medium_last_free_page
             last2 == g.medium_last_free_page
  <2>5. /\ pg2[p].next = heads[k] /\ pg2[p].prev = Null
        /\ \A q \in S : /\ pg2[q].next = pg[q].next
                        /\ pg2[q].prev = IF q = heads[k] THEN p ELSE pg[q].prev
    BY <2>2
  <2>6. heads2[k] = p /\ \A j \in ListKinds \ {k} : heads2[j] = heads[j]
    BY DEF PutInFront
  <2>7. /\ k = "roomy" /\ heads[k] = Null => last2 = p
        /\ k # "roomy" \/ heads[k] # Null => last2 = last
    BY DEF PutInFront
  <2>8. Linked(S, pg, kind, heads, last) /\ kind2[p] = k /\ k \in ListKinds
    BY <2>4 DEF PutInFront
  <2> HIDE DEF S, first, pg, pg2, heads, heads2, last, last2
  <2>9. Linked(S \cup {p}, pg2, kind2, heads2, last2)
    BY <2>1, <2>3, <2>5, <2>6, <2>7, <2>8, <1>2, LinkedPush
  <2> QED
    BY <2>9 DEF S, pg2, heads2, last2
<1>6. S \cup {p} = DOMAIN h.page
  OBVIOUS
<1> HIDE DEF S
<1> QED
  BY <1>4, <1>5, <1>6

\* The page taken from goes to the full ones or to the front.
LEMMA MediumRelistIs ==
    ASSUME NEW h, NEW kind, NEW p \in DOMAIN h.page, PagesSound(h, kind, p), kind[p] = "roomy",
           h.page[p].largest_free = 0 \/ Known(h, p), h.medium_first_free_page # Null,
           NEW kind2, kind2 = IF h.page[p].largest_free = 0 THEN [kind EXCEPT ![p] = "full"]
                              ELSE kind
    PROVE  LET g == MediumRelist(h, p)
           IN  /\ Same(h, g, ListFields) /\ Relinked(h.page, g.page)
               /\ PagesSound(g, kind2, Null)
<1> DEFINE h1 == LeaveFreePages(h, p)
           g == MediumRelist(h, p)
<1>0. /\ EntriesSound(h, MediumPages(kind)) /\ IsHeap(h) /\ IsPages(h.page)
      /\ DOMAIN kind = DOMAIN h.page /\ p # Null
      /\ Linked(DOMAIN h.page, h.page, kind, Heads(h), h.medium_last_free_page)
  <2>1. EntriesSound(h, MediumPages(kind)) /\ DOMAIN kind = DOMAIN h.page
        /\ Linked(DOMAIN h.page, h.page, kind, Heads(h), h.medium_last_free_page)
    BY DEF PagesSound
  <2> QED
    BY <2>1, SoundParts, PagesAreMap
<1>1. Known(h, p) => h.page[p].largest_free >= MediumSmallest
  <2>1. Known(h, p) => h.page[p].first_free \in DOMAIN h.entry
    BY <1>0, SoundParts DEF Known, FreeLinked, FirstFree, FreeSet
  <2> QED
    BY <2>1, <1>0, SoundParts DEF Known, Tiled, Sized
<1>2. h.page[p].largest_free \in Nat /\ MediumSmallest \in Nat /\ MediumSmallest > 0
  BY <1>0, PageLinks, SmallestIs DEF PageRec
<1>3. h.page[p].largest_free < MediumSmallest <=> h.page[p].largest_free = 0
  BY <1>1, <1>2
<1>4. /\ Same(h, h1, {"page", "medium_first_free_page", "medium_last_free_page"})
      /\ Relinked(h.page, h1.page)
      /\ h1.medium_first_free_page = IF p = h.medium_first_free_page THEN h.page[p].next
                                     ELSE h.medium_first_free_page
      /\ Linked(DOMAIN h.page \ {p}, h1.page, kind, Heads(h1), h1.medium_last_free_page)
  BY <1>0, LeaveFreePagesIs
<1>5. /\ IsHeap(h1) /\ IsPages(h1.page) /\ DOMAIN h1.page = DOMAIN h.page
      /\ Same(h, h1, ListFields)
      /\ h1.medium_first_used_page = h.medium_first_used_page
      /\ h1.large_first_used_page = h.large_first_used_page
  BY <1>0, <1>4, RelinkedIsPages DEF Same, Fields, Relinked, ListFields
<1>6. g = IF h.page[p].largest_free = 0
          THEN [PushPage(h1, p, h.medium_first_used_page) EXCEPT !.medium_first_used_page = p]
          ELSE IF p # h.medium_first_free_page
          THEN [PushPage(h1, p, h.medium_first_free_page) EXCEPT !.medium_first_free_page = p]
          ELSE h
  BY <1>3 DEF MediumRelist
<1>6a. kind2 \in [DOMAIN h.page -> Kinds] /\ MediumPages(kind2) = MediumPages(kind)
  BY <1>0 DEF PagesSound, MediumPages, Kinds, ListKinds
<1> HIDE DEF h1, g
<1>7. /\ Same(h, g, ListFields) /\ Relinked(h.page, g.page)
      /\ Linked(DOMAIN h.page, g.page, kind2, Heads(g), g.medium_last_free_page)
  <2>1. CASE h.page[p].largest_free = 0
    <3> DEFINE g0 == PushPage(h1, p, h.medium_first_used_page)
    <3>1. g = [g0 EXCEPT !.medium_first_used_page = p] /\ g0 = PushPage(h1, p, Heads(h1)["full"])
      BY <2>1, <1>5, <1>6, HeadsAre
    <3>2. Same(h1, g0, {"page"})
      <4> DEFINE x == Heads(h1)["full"]
      <4>a. "full" \in ListKinds
        BY DEF ListKinds
      <4>b. x # Null => x \in DOMAIN h.page \ {p}
        BY <4>a, <1>4 DEF Linked, HeadsSound
      <4> HIDE DEF x
      <4>c. x # p /\ x \in PageOrNull
        BY <4>b, <1>0, <1>5 DEF IsPages, PageOrNull
      <4>1. Heads(h1)["full"] # p /\ Heads(h1)["full"] \in PageOrNull
        BY <4>c DEF x
      <4> QED
        BY <4>1, <3>1, <1>5, PushPageIs
    <3> HIDE DEF g0
    <3>3. /\ Same(g0, g, {"medium_first_used_page"}) /\ g.medium_first_used_page = p
          /\ g.page = g0.page
      BY <3>1, <3>2 DEF IsHeap, Fields, Same
    <3>4. /\ Same(g0, g, ListFields) /\ g.medium_last_free_page = h1.medium_last_free_page
          /\ g.medium_first_free_page = h1.medium_first_free_page
          /\ g.large_first_used_page = h1.large_first_used_page
      BY <3>2, <3>3 DEF Same, Fields, ListFields
    <3>5. Heads(g)["full"] = p /\ \A j \in ListKinds \ {"full"} : Heads(g)[j] = Heads(h1)[j]
      BY <3>3, <3>4, HeadsAre DEF ListKinds
    <3>6. "full" \in ListKinds /\ kind2[p] = "full"
          /\ \A q \in DOMAIN h1.page \ {p} : kind2[q] = kind[q]
      BY <2>1, <1>0, <1>5 DEF ListKinds
    <3>7. /\ Same(h1, g, ListFields) /\ Relinked(h1.page, g.page)
          /\ Linked(DOMAIN h1.page, g.page, kind2, Heads(g), g.medium_last_free_page)
      <4> DEFINE k == "full"
      <4>1. /\ k \in ListKinds /\ kind2[p] = k
            /\ Heads(g)[k] = p /\ \A j \in ListKinds \ {k} : Heads(g)[j] = Heads(h1)[j]
            /\ Same(PushPage(h1, p, Heads(h1)[k]), g, ListFields)
            /\ g.page = PushPage(h1, p, Heads(h1)[k]).page
        BY <3>1, <3>3, <3>4, <3>5, <3>6
      <4>2. /\ k = "roomy" /\ Heads(h1)[k] = Null => g.medium_last_free_page = p
            /\ k # "roomy" \/ Heads(h1)[k] # Null =>
                   g.medium_last_free_page = h1.medium_last_free_page
        BY <3>1, <3>4
      <4>3. Linked(DOMAIN h1.page \ {p}, h1.page, kind, Heads(h1), h1.medium_last_free_page)
        BY <1>4, <1>5
      <4>4. /\ IsHeap(h1) /\ IsPages(h1.page) /\ p \in DOMAIN h1.page
            /\ \A q \in DOMAIN h1.page \ {p} : kind2[q] = kind[q]
        BY <3>6, <1>5
      <4> HIDE DEF k
      <4>5. PutInFront(h1, kind, p, k, g, kind2)
        BY <4>1, <4>2, <4>4 DEF PutInFront
      <4> QED
        BY <4>3, <4>4, <4>5, PushedInto
    <3> QED
      BY <3>7, <1>4, <1>5, RelinkedTwice DEF Same
  <2>2. CASE h.page[p].largest_free # 0 /\ p # h.medium_first_free_page
    <3> DEFINE g0 == PushPage(h1, p, h.medium_first_free_page)
    <3>1. g = [g0 EXCEPT !.medium_first_free_page = p] /\ g0 = PushPage(h1, p, Heads(h1)["roomy"])
          /\ Heads(h1)["roomy"] # Null
      BY <2>2, <1>4, <1>6, HeadsAre
    <3>2. Same(h1, g0, {"page"})
      <4> DEFINE x == Heads(h1)["roomy"]
      <4>a. "roomy" \in ListKinds
        BY DEF ListKinds
      <4>b. x # Null => x \in DOMAIN h.page \ {p}
        BY <4>a, <1>4 DEF Linked, HeadsSound
      <4> HIDE DEF x
      <4>c. x # p /\ x \in PageOrNull
        BY <4>b, <1>0, <1>5 DEF IsPages, PageOrNull
      <4>1. Heads(h1)["roomy"] # p /\ Heads(h1)["roomy"] \in PageOrNull
        BY <4>c DEF x
      <4> QED
        BY <4>1, <3>1, <1>5, PushPageIs
    <3> HIDE DEF g0
    <3>3. /\ Same(g0, g, {"medium_first_free_page"}) /\ g.medium_first_free_page = p
          /\ g.page = g0.page
      BY <3>1, <3>2 DEF IsHeap, Fields, Same
    <3>4. /\ Same(g0, g, ListFields) /\ g.medium_last_free_page = h1.medium_last_free_page
          /\ g.medium_first_used_page = h1.medium_first_used_page
          /\ g.large_first_used_page = h1.large_first_used_page
      BY <3>2, <3>3 DEF Same, Fields, ListFields
    <3>5. Heads(g)["roomy"] = p /\ \A j \in ListKinds \ {"roomy"} : Heads(g)[j] = Heads(h1)[j]
      BY <3>3, <3>4, HeadsAre DEF ListKinds
    <3>6. "roomy" \in ListKinds /\ kind2[p] = "roomy"
          /\ \A q \in DOMAIN h1.page \ {p} : kind2[q] = kind[q]
      BY <2>2 DEF ListKinds
    <3>7. /\ Same(h1, g, ListFields) /\ Relinked(h1.page, g.page)
          /\ Linked(DOMAIN h1.page, g.page, kind2, Heads(g), g.medium_last_free_page)
      <4> DEFINE k == "roomy"
      <4>1. /\ k \in ListKinds /\ kind2[p] = k
            /\ Heads(g)[k] = p /\ \A j \in ListKinds \ {k} : Heads(g)[j] = Heads(h1)[j]
            /\ Same(PushPage(h1, p, Heads(h1)[k]), g, ListFields)
            /\ g.page = PushPage(h1, p, Heads(h1)[k]).page
        BY <3>1, <3>3, <3>4, <3>5, <3>6
      <4>2. /\ k = "roomy" /\ Heads(h1)[k] = Null => g.medium_last_free_page = p
            /\ k # "roomy" \/ Heads(h1)[k] # Null =>
                   g.medium_last_free_page = h1.medium_last_free_page
        BY <3>1, <3>4
      <4>3. Linked(DOMAIN h1.page \ {p}, h1.page, kind, Heads(h1), h1.medium_last_free_page)
        BY <1>4, <1>5
      <4>4. /\ IsHeap(h1) /\ IsPages(h1.page) /\ p \in DOMAIN h1.page
            /\ \A q \in DOMAIN h1.page \ {p} : kind2[q] = kind[q]
        BY <3>6, <1>5
      <4> HIDE DEF k
      <4>5. PutInFront(h1, kind, p, k, g, kind2)
        BY <4>1, <4>2, <4>4 DEF PutInFront
      <4> QED
        BY <4>3, <4>4, <4>5, PushedInto
    <3> QED
      BY <3>7, <1>4, <1>5, RelinkedTwice DEF Same
  <2>3. CASE h.page[p].largest_free # 0 /\ p = h.medium_first_free_page
    <3>1. g = h /\ kind2 = kind
      BY <2>3, <1>6
    <3> QED
      BY <3>1, <1>0 DEF Same, Relinked, IsPages
  <2> QED
    BY <2>1, <2>2, <2>3
<1>8. /\ EntriesSound(g, MediumPages(kind2)) /\ g.entry = h.entry
      /\ \A q \in DOMAIN h.page : Known(h, q) => Known(g, q)
  BY <1>0, <1>6a, <1>7, RelinkedSound
<1>9. RoomKnown(g, kind2, Null)
  <2>1. \A q \in DOMAIN h.page : g.page[q].largest_free = h.page[q].largest_free
    BY <1>7 DEF Relinked
  <2>2. \A q \in DOMAIN kind \ {p} : /\ kind2[q] = kind[q]
                                     /\ kind[q] = "roomy" => Known(g, q)
                                     /\ kind[q] = "full" => g.page[q].largest_free = 0
    BY <2>1, <1>0, <1>8 DEF PagesSound, RoomKnown
  <2>3. /\ kind2[p] = "roomy" => Known(g, p)
        /\ kind2[p] = "full" => g.page[p].largest_free = 0
    BY <2>1, <1>0, <1>8
  <2>4. DOMAIN kind2 = DOMAIN kind
    BY <1>0, <1>6a
  <2> QED
    BY <2>2, <2>3, <2>4 DEF RoomKnown
<1>10. \A q \in DOMAIN kind2 : kind2[q] # "large" => g.page[q].data_size = PageSize
  <2>1. \A q \in DOMAIN kind2 : kind2[q] # "large" => kind[q] # "large"
    BY <1>0
  <2> QED
    BY <2>1, <1>0, <1>6a, <1>7 DEF PagesSound, Relinked
<1>11. PagesSound(g, kind2, Null)
  <2>1. DOMAIN g.page = DOMAIN h.page
    BY <1>7 DEF Relinked
  <2>2. Booked(h)
    BY <1>0 DEF PagesSound
  <2>3. Booked(g)
    BY <2>2, <1>7, RelinkedBooks
  <2> QED
    BY <2>1, <2>3, <1>6a, <1>7, <1>8, <1>9, <1>10 DEF PagesSound
<1> QED
  BY <1>7, <1>11 DEF g

\* The parts of sound pages.
LEMMA SoundFacts ==
    ASSUME NEW h, NEW kind, NEW x, PagesSound(h, kind, x)
    PROVE  /\ EntriesSound(h, MediumPages(kind)) /\ IsHeap(h) /\ IsPages(h.page)
           /\ IsEntries(h.entry) /\ Null \notin DOMAIN h.page
           /\ DOMAIN kind = DOMAIN h.page /\ \A q \in DOMAIN h.page : kind[q] \in Kinds
           /\ Linked(DOMAIN h.page, h.page, kind, Heads(h), h.medium_last_free_page)
  BY SoundParts, PagesAreMap DEF PagesSound

\* A full page with a block freed goes behind those with room.
LEMMA BackToFreePagesIs ==
    ASSUME NEW h, NEW kind, NEW p \in DOMAIN h.page, PagesSound(h, kind, p), kind[p] = "full",
           Known(h, p)
    PROVE  LET g == BackToFreePages(h, p)
           IN  /\ Same(h, g, ListFields) /\ Relinked(h.page, g.page)
               /\ PagesSound(g, [kind EXCEPT ![p] = "roomy"], Null)
<1> DEFINE last == h.medium_last_free_page
           S == DOMAIN h.page \ {p}
           kind2 == [kind EXCEPT ![p] = "roomy"]
           h1 == UnlinkPage(h, p)
           used == IF h.medium_first_used_page = p THEN h.page[p].next
                   ELSE h.medium_first_used_page
           roomy == IF h.medium_first_free_page = Null THEN p ELSE h.medium_first_free_page
           k1 == [h1 EXCEPT !.medium_first_used_page = used]
           k2 == [k1 EXCEPT !.page[p].next = Null]
           k3 == [k2 EXCEPT !.page[p].prev = last]
           k4 == [k3 EXCEPT !.medium_last_free_page = p]
           k5 == [k4 EXCEPT !.medium_first_free_page = roomy]
           g == SetPage(k5, last, "next", p)
<1>0. /\ EntriesSound(h, MediumPages(kind)) /\ IsHeap(h) /\ IsPages(h.page)
      /\ DOMAIN kind = DOMAIN h.page /\ p # Null
      /\ Linked(DOMAIN h.page, h.page, kind, Heads(h), last)
      /\ Null \notin DOMAIN h.page
  BY SoundFacts
<1>1. /\ Same(h, h1, {"page"})
      /\ Relinked(h.page, h1.page)
      /\ \A q \in DOMAIN h.page :
            /\ h1.page[q].next = IF q = h.page[p].prev THEN h.page[p].next ELSE h.page[q].next
            /\ h1.page[q].prev = IF q = h.page[p].next THEN h.page[p].prev ELSE h.page[q].prev
  BY <1>0, UnlinkPageIs
<1>2. g = BackToFreePages(h, p)
  <2> HIDE DEF h1
  <2>1. h1.medium_first_used_page = h.medium_first_used_page /\ IsHeap(h1)
        /\ h1.medium_first_free_page = h.medium_first_free_page
    BY <1>1 DEF Same, Fields
  <2>2. k5 = [h1 EXCEPT
                    !.medium_first_used_page = IF @ = p THEN h.page[p].next ELSE @,
                    !.page[p].next = Null,
                    !.page[p].prev = last,
                    !.medium_last_free_page = p,
                    !.medium_first_free_page = IF @ = Null THEN p ELSE @]
    BY <2>1
  <2> HIDE DEF k5
  <2> QED
    BY <2>2 DEF h1, BackToFreePages
<1>3. last # Null => last \in S /\ kind[last] = "roomy"
  BY <1>0 DEF Linked, LastSound
<1> HIDE DEF last, h1, used, roomy
<1>4. /\ Same(h, k1, {"page", "medium_first_used_page"}) /\ k1.page = h1.page
      /\ k1.medium_first_used_page = used
  BY <1>1 DEF IsHeap, Fields, Same
<1> HIDE DEF k1
<1>5. IsPages(k1.page) /\ DOMAIN k1.page = DOMAIN h.page /\ IsHeap(k1)
  BY <1>0, <1>1, <1>4, RelinkedIsPages DEF Relinked, Same
<1>6. Linked(S, k1.page, kind, Heads(k1), last)
  <2> DEFINE pg == h.page
             pg2 == k1.page
             heads == Heads(h)
             heads2 == Heads(k1)
  <2>1. \A q \in DOMAIN h.page : /\ pg2[q].next = IF q = pg[p].prev THEN pg[p].next ELSE pg[q].next
                                 /\ pg2[q].prev = IF q = pg[p].next THEN pg[p].prev ELSE pg[q].prev
    BY <1>1, <1>4
  <2>2. \A k \in ListKinds : heads2[k] = IF heads[k] = p THEN pg[p].next ELSE heads[k]
    <3>1. \A k \in ListKinds : heads[k] = p => k = "full"
      BY <1>0 DEF Linked, HeadsSound
    <3>2. /\ k1.medium_first_free_page = h.medium_first_free_page
          /\ k1.large_first_used_page = h.large_first_used_page
      BY <1>4 DEF Same, Fields
    <3>3. "roomy" \in ListKinds /\ "large" \in ListKinds
      BY DEF ListKinds
    <3> QED
      BY <3>1, <3>2, <3>3, <1>4, HeadsAre DEF ListKinds, used
  <2>3. (last = p => last = pg[p].prev) /\ (last # p => last = last)
    BY <1>0, <1>3
  <2>4. Null \notin DOMAIN h.page /\ Linked(DOMAIN h.page, pg, kind, heads, last)
    BY <1>0
  <2> DEFINE D == DOMAIN h.page
  <2>5. p \in D
    OBVIOUS
  <2> HIDE DEF pg, pg2, heads, heads2, D
  <2>6. Linked(D \ {p}, pg2, kind, heads2, last)
    BY <2>1, <2>2, <2>3, <2>4, <2>5, LinkedLeave DEF D
  <2> QED
    BY <2>6 DEF D, pg2, heads2
<1> DEFINE pk1 == k1.page
           pk2 == SetIn(pk1, p, "next", Null)
           pk3 == SetIn(pk2, p, "prev", last)
           pk4 == SetIn(pk3, last, "next", p)
<1>7. Same(k1, k2, {"page"}) /\ k2.page = pk2
  BY <1>5, PagesAreMap DEF IsHeap, Fields, Same, SetIn
<1>8. last \in PageOrNull /\ Null \in PageOrNull /\ p \in PageOrNull
  BY <1>0, <1>3 DEF PageOrNull, IsPages
<1>9. /\ Relinked(pk1, pk2)
      /\ \A q \in DOMAIN h.page : /\ pk2[q].next = IF q = p THEN Null ELSE pk1[q].next
                                  /\ pk2[q].prev = pk1[q].prev
  BY <1>5, <1>8, SetNext
<1>10. IsPages(pk2) /\ DOMAIN pk2 = DOMAIN h.page
  BY <1>5, <1>9, RelinkedIsPages DEF Relinked
<1> HIDE DEF k2, pk2
<1>11. Same(k2, k3, {"page"}) /\ k3.page = pk3
  BY <1>7, <1>10, PagesAreMap DEF IsHeap, Fields, Same, SetIn
<1>12. /\ Relinked(pk2, pk3)
       /\ \A q \in DOMAIN h.page : /\ pk3[q].prev = IF q = p THEN last ELSE pk2[q].prev
                                   /\ pk3[q].next = pk2[q].next
  BY <1>8, <1>10, SetPrev
<1>13. IsPages(pk3) /\ DOMAIN pk3 = DOMAIN h.page
  BY <1>10, <1>12, RelinkedIsPages DEF Relinked
<1> HIDE DEF k3, pk3
<1>14. /\ Same(k3, k4, {"medium_last_free_page"}) /\ k4.medium_last_free_page = p
  BY <1>11 DEF IsHeap, Fields, Same
<1> HIDE DEF k4
<1>15. /\ Same(k4, k5, {"medium_first_free_page"}) /\ k5.medium_first_free_page = roomy
  BY <1>14 DEF IsHeap, Fields, Same
<1> HIDE DEF k5
<1>16. k5.page = pk3 /\ IsHeap(k5)
  BY <1>11, <1>14, <1>15 DEF Same, Fields
<1>17. Same(k5, g, {"page"}) /\ g.page = pk4
  BY <1>13, <1>16, SetPageIs, PagesAreMap
<1>18. /\ Relinked(pk3, pk4)
       /\ \A q \in DOMAIN h.page : /\ pk4[q].next = IF q = last THEN p ELSE pk3[q].next
                                   /\ pk4[q].prev = pk3[q].prev
  BY <1>8, <1>13, SetNext
<1> HIDE DEF g, pk4
<1>19. Relinked(h.page, g.page)
  BY <1>1, <1>4, <1>9, <1>12, <1>17, <1>18, RelinkedTwice DEF pk1
<1>20. /\ Same(h, g, ListFields)
       /\ g.medium_last_free_page = p /\ g.medium_first_free_page = roomy
       /\ g.medium_first_used_page = k1.medium_first_used_page
       /\ g.large_first_used_page = k1.large_first_used_page
       /\ k1.medium_first_free_page = h.medium_first_free_page
  <2>1. Same(k1, k5, {"page", "medium_last_free_page", "medium_first_free_page"})
    BY <1>7, <1>11, <1>14, <1>15 DEF Same
  <2>2. k5.medium_last_free_page = p /\ k5.medium_first_free_page = roomy
    BY <1>14, <1>15 DEF Same, Fields
  <2> QED
    BY <2>1, <2>2, <1>4, <1>17 DEF Same, Fields, ListFields
<1>21. Linked(DOMAIN h.page, g.page, kind2, Heads(g), p)
  <2> DEFINE pg2 == g.page
             heads == Heads(k1)
             heads2 == Heads(g)
  <2>1. Null \notin S /\ p \notin S /\ p # Null /\ Linked(S, pk1, kind, heads, last)
    BY <1>0, <1>6
  <2>2. kind2[p] = "roomy" /\ \A q \in S : kind2[q] = kind[q]
    BY <1>0
  <2>3. pg2[p].next = Null /\ pg2[p].prev = last
    BY <1>3, <1>9, <1>12, <1>17, <1>18
  <2>4. \A q \in S : /\ pg2[q].next = IF q = last THEN p ELSE pk1[q].next
                     /\ pg2[q].prev = pk1[q].prev
    BY <1>9, <1>12, <1>17, <1>18
  <2>5. /\ heads2["roomy"] = IF heads["roomy"] = Null THEN p ELSE heads["roomy"]
        /\ \A j \in {"full", "large"} : heads2[j] = heads[j]
    BY <1>20, HeadsAre DEF roomy
  <2>6. S \cup {p} = DOMAIN h.page
    OBVIOUS
  <2> HIDE DEF S, pg2, pk1, heads, heads2, kind2
  <2>7. Linked(S \cup {p}, pg2, kind2, heads2, p)
    BY <2>1, <2>2, <2>3, <2>4, <2>5, LinkedAtEnd
  <2> QED
    BY <2>6, <2>7 DEF pg2, heads2
<1>22. kind2 \in [DOMAIN h.page -> Kinds] /\ MediumPages(kind2) = MediumPages(kind)
  BY <1>0 DEF PagesSound, MediumPages, Kinds, ListKinds
<1>23. /\ EntriesSound(g, MediumPages(kind2)) /\ g.entry = h.entry
       /\ \A q \in DOMAIN h.page : Known(h, q) => Known(g, q)
  BY <1>0, <1>19, <1>20, <1>22, RelinkedSound
<1>24. RoomKnown(g, kind2, Null)
  <2>1. \A q \in DOMAIN h.page : g.page[q].largest_free = h.page[q].largest_free
    BY <1>19 DEF Relinked
  <2>2. \A q \in DOMAIN kind \ {p} : /\ kind2[q] = kind[q]
                                     /\ kind[q] = "roomy" => Known(g, q)
                                     /\ kind[q] = "full" => g.page[q].largest_free = 0
    BY <2>1, <1>0, <1>23 DEF PagesSound, RoomKnown
  <2>3. kind2[p] = "roomy" /\ Known(g, p)
    BY <1>0, <1>23
  <2>4. DOMAIN kind2 = DOMAIN kind
    OBVIOUS
  <2> QED
    BY <2>2, <2>3, <2>4 DEF RoomKnown
<1>25. \A q \in DOMAIN kind2 : kind2[q] # "large" => g.page[q].data_size = PageSize
  <2>1. \A q \in DOMAIN kind2 : kind2[q] # "large" => kind[q] # "large"
    BY <1>0
  <2> QED
    BY <2>1, <1>0, <1>19 DEF PagesSound, Relinked
<1>26. PagesSound(g, kind2, Null)
  <2>1. DOMAIN g.page = DOMAIN h.page
    BY <1>19 DEF Relinked
  <2>2. Spaced(g.entry, Null)
    BY <1>23 DEF PagesSound
  <2>3. Booked(h)
    BY <1>0 DEF PagesSound
  <2>4. Booked(g)
    BY <2>3, <1>19, <1>20, RelinkedBooks
  <2> QED
    BY <2>1, <2>2, <2>4, <1>20, <1>21, <1>22, <1>23, <1>24, <1>25 DEF PagesSound
<1> QED
  BY <1>2, <1>19, <1>20, <1>26

\* Page p is in no list any more.
Unlisted(h, kind, p) ==
    /\ p \in DOMAIN h.page /\ kind \in [DOMAIN h.page -> Kinds]
    /\ EntriesSound(h, MediumPages(kind)) /\ Spaced(h.entry, Null)
    /\ \A q \in DOMAIN kind : kind[q] # "large" => h.page[q].data_size = PageSize
    /\ Linked(DOMAIN h.page \ {p}, h.page, kind, Heads(h), h.medium_last_free_page)
    /\ RoomKnown(h, kind, p) /\ Booked(h)

Dropped(kind, p) == Without(kind, {p})

BookFields == {"page", "entry", "page_allocated", "actual_mem_used"}

\* g is h without page p and what is on it.
PageLost(h, g, p) ==
    /\ DOMAIN g.page = DOMAIN h.page \ {p}
    /\ \A q \in DOMAIN h.page \ {p} : g.page[q] = h.page[q]
    /\ \A e \in DOMAIN h.entry : e[1] # p => e \in DOMAIN g.entry
    /\ \A e \in DOMAIN g.entry : e \in DOMAIN h.entry /\ g.entry[e] = h.entry[e]

\* A page in no list is given back (FreePage).
LEMMA PageGone ==
    ASSUME NEW h, NEW kind, NEW p, Unlisted(h, kind, p)
    PROVE  LET g == FreePage(h, p)
           IN  /\ Same(h, g, BookFields)
               /\ PagesSound(g, Dropped(kind, p), Null)
               /\ PageLost(h, g, p)
<1> DEFINE en == h.entry
           gone == {e \in DOMAIN en : e[1] = p}
           g == FreePage(h, p)
           kind2 == Dropped(kind, p)
<1>0. /\ p \in DOMAIN h.page /\ kind \in [DOMAIN h.page -> Kinds]
      /\ EntriesSound(h, MediumPages(kind)) /\ Spaced(en, Null)
      /\ \A q \in DOMAIN kind : kind[q] # "large" => h.page[q].data_size = PageSize
      /\ Linked(DOMAIN h.page \ {p}, h.page, kind, Heads(h), h.medium_last_free_page)
      /\ RoomKnown(h, kind, p) /\ Booked(h)
  BY DEF Unlisted
<1>1. /\ IsHeap(h) /\ IsPages(h.page) /\ IsEntries(en) /\ Null \notin DOMAIN en
      /\ Tiled(en, MediumPages(kind)) /\ FreeLinked(FreeSet(en), en, h.page)
      /\ DOMAIN kind = DOMAIN h.page /\ Null \notin DOMAIN h.page
  BY <1>0, SoundParts, PagesAreMap
<1>2. /\ Same(h, g, {"page", "entry", "page_allocated", "actual_mem_used"})
      /\ g.page = Without(h.page, {p}) /\ g.entry = Without(en, gone)
      /\ g.page_allocated = h.page_allocated - 1
      /\ g.actual_mem_used = h.actual_mem_used - h.page[p].data_size - PageHeader
  BY <1>1, FreePageIs
<1> HIDE DEF g
<1>3. /\ DOMAIN g.page = DOMAIN h.page \ {p}
      /\ \A q \in DOMAIN h.page \ {p} : g.page[q] = h.page[q]
      /\ IsPages(g.page)
  BY <1>1, <1>2 DEF Without, IsPages
<1>4. /\ DOMAIN g.entry = {e \in DOMAIN en : e[1] # p}
      /\ \A e \in DOMAIN g.entry : g.entry[e] = en[e]
      /\ IsEntries(g.entry)
  BY <1>1, <1>2 DEF Without, IsEntries
<1>5. /\ DOMAIN kind2 = DOMAIN h.page \ {p}
      /\ \A q \in DOMAIN kind2 : kind2[q] = kind[q]
      /\ kind2 \in [DOMAIN g.page -> Kinds]
  BY <1>0, <1>1, <1>3 DEF Without, Dropped
<1> HIDE DEF kind2
<1>6. MediumPages(kind2) = MediumPages(kind) \ {p} /\ MediumPages(kind2) \subseteq DOMAIN g.page
  BY <1>1, <1>3, <1>5 DEF MediumPages
<1>7. Tiled(g.entry, MediumPages(kind2))
  <2>1. OnPages(g.entry, MediumPages(kind2))
    <3>1. \A q \in MediumPages(kind2) : <<q, 0>>[1] # p
      BY <1>6
    <3> QED
      BY <3>1, <1>1, <1>4, <1>6 DEF Tiled, OnPages
  <2>2. \A e \in DOMAIN g.entry : End(g.entry, e) = End(en, e) /\ e \in DOMAIN en
    BY <1>4 DEF End
  <2>3. Sized(g.entry) /\ Apart(g.entry)
    BY <2>2, <1>1, <1>4 DEF Tiled, Sized, Apart
  <2>4. NextTiled(g.entry)
    <3> SUFFICES ASSUME NEW e \in DOMAIN g.entry
                 PROVE  IF g.entry[e].next = Null THEN End(g.entry, e) = PageSize
                        ELSE /\ g.entry[e].next = <<e[1], End(g.entry, e)>>
                             /\ g.entry[e].next \in DOMAIN g.entry
                             /\ g.entry[g.entry[e].next].prev = e
      BY DEF NextTiled
    <3>1. e \in DOMAIN en /\ e[1] # p /\ g.entry[e] = en[e]
      BY <1>4
    <3>2. CASE en[e].next = Null
      BY <3>1, <3>2, <2>2, <1>1 DEF Tiled, NextTiled
    <3>3. CASE en[e].next # Null
      <4>1. /\ en[e].next = <<e[1], End(en, e)>> /\ en[e].next \in DOMAIN en
            /\ en[en[e].next].prev = e
        BY <3>1, <3>3, <1>1 DEF Tiled, NextTiled
      <4>2. en[e].next[1] # p
        BY <4>1, <3>1
      <4> QED
        BY <4>1, <4>2, <3>1, <3>3, <2>2, <1>4
    <3> QED
      BY <3>2, <3>3
  <2>5. PrevTiled(g.entry)
    BY <1>1, <1>4 DEF Tiled, PrevTiled
  <2> QED
    BY <2>1, <2>3, <2>4, <2>5, <1>4 DEF Tiled
<1>8. FreeLinked(FreeSet(g.entry), g.entry, g.page)
  <2>1. FreeSet(g.entry) = {e \in FreeSet(en) : e[1] # p}
    BY <1>4 DEF FreeSet
  <2>2. \A e \in FreeSet(g.entry) : g.entry[e] = en[e]
    BY <1>4 DEF FreeSet
  <2>3. FreeNext(FreeSet(g.entry), g.entry)
    BY <2>1, <2>2, <1>1 DEF FreeLinked, FreeNext
  <2>4. FreePrev(FreeSet(g.entry), g.entry)
    BY <2>1, <2>2, <1>1 DEF FreeLinked, FreePrev
  <2>5. FirstFree(FreeSet(g.entry), g.entry, g.page)
    BY <2>1, <2>2, <1>1, <1>3 DEF FreeLinked, FirstFree
  <2>6. FreeRanked(FreeSet(g.entry), g.entry)
    <3>1. PICK rank : FreeRank(FreeSet(en), en, rank)
      BY <1>1 DEF FreeLinked, FreeRanked
    <3> DEFINE rank2 == [e \in FreeSet(g.entry) |-> rank[e]]
    <3>2. FreeRank(FreeSet(g.entry), g.entry, rank2)
      BY <3>1, <2>1, <2>2, <2>3 DEF FreeRank, FreeNext
    <3> QED
      BY <3>2 DEF FreeRanked
  <2> QED
    BY <2>3, <2>4, <2>5, <2>6 DEF FreeLinked
<1>9. EntriesSound(g, MediumPages(kind2))
  BY <1>0, <1>2, <1>3, <1>6, <1>7, <1>8 DEF EntriesSound, Same
<1>10. Spaced(g.entry, Null)
  BY <1>0, <1>4, <1>7 DEF Spaced, Tiled, NextTiled
<1>11. \A q \in DOMAIN kind2 : kind2[q] # "large" => g.page[q].data_size = PageSize
  BY <1>0, <1>1, <1>3, <1>5
<1>12. Linked(DOMAIN g.page, g.page, kind2, Heads(g), g.medium_last_free_page)
  <2>1. Heads(g) = Heads(h) /\ g.medium_last_free_page = h.medium_last_free_page
    BY <1>2 DEF Same, Fields, Heads
  <2>2. \A q \in DOMAIN h.page \ {p} : /\ g.page[q].next = h.page[q].next
                                       /\ g.page[q].prev = h.page[q].prev
                                       /\ kind2[q] = kind[q]
    BY <1>3, <1>5
  <2> DEFINE S == DOMAIN h.page \ {p}
             pg == h.page
             pg2 == g.page
  <2>3. Linked(S, pg, kind, Heads(h), h.medium_last_free_page)
    BY <1>0
  <2>4. \A q \in S : pg2[q].next = pg[q].next /\ pg2[q].prev = pg[q].prev /\ kind2[q] = kind[q]
    BY <2>2
  <2> HIDE DEF S, pg, pg2
  <2>5. Linked(S, pg2, kind2, Heads(h), h.medium_last_free_page)
    BY <2>3, <2>4, LinkedAgree
  <2> QED
    BY <2>1, <2>5, <1>3 DEF S, pg2
<1>13. RoomKnown(g, kind2, Null)
  <2> SUFFICES ASSUME NEW q \in DOMAIN kind2
               PROVE  /\ kind2[q] = "roomy" => Known(g, q)
                      /\ kind2[q] = "full" => g.page[q].largest_free = 0
    BY DEF RoomKnown
  <2>1. q \in DOMAIN kind \ {p} /\ kind2[q] = kind[q] /\ g.page[q] = h.page[q]
    BY <1>1, <1>3, <1>5
  <2>2. kind[q] = "full" => h.page[q].largest_free = 0
    BY <1>0, <2>1 DEF RoomKnown
  <2>3. ASSUME kind[q] = "roomy" PROVE Known(g, q)
    <3>1. Known(h, q)
      BY <1>0, <2>1, <2>3 DEF RoomKnown
    <3>2. h.page[q].first_free \in FreeSet(en) /\ h.page[q].first_free[1] = q
      BY <2>1, <3>1, <1>1 DEF Known, FreeLinked, FirstFree
    <3>3. h.page[q].first_free \in DOMAIN g.entry
      BY <2>1, <3>2, <1>4 DEF FreeSet
    <3> QED
      BY <2>1, <3>1, <3>3, <1>4 DEF Known
  <2> QED
    BY <2>1, <2>2, <2>3
<1>14. Booked(g)
  <2>1. DOMAIN h.page \subseteq Page /\ h.page[p].data_size \in Nat
    BY <1>0, <1>1 DEF IsPages, PageRec
  <2>2. \A q \in DOMAIN g.page : g.page[q].data_size = h.page[q].data_size
    BY <1>3
  <2> QED
    BY <2>1, <2>2, <1>0, <1>2, <1>3, BookedLess
<1>15. PagesSound(g, kind2, Null)
  BY <1>5, <1>9, <1>10, <1>11, <1>12, <1>13, <1>14 DEF PagesSound
<1> QED
  BY <1>2, <1>3, <1>4, <1>15 DEF g, kind2, PageLost, BookFields

\* A page that is one free entry has no other.
LEMMA OneEntry ==
    ASSUME NEW h, NEW M, EntriesSound(h, M), NEW x \in DOMAIN h.entry,
           h.entry[x].size = PageSize
    PROVE  \A e \in DOMAIN h.entry : e[1] = x[1] => e = x
<1> SUFFICES ASSUME NEW e \in DOMAIN h.entry, e[1] = x[1], e # x PROVE FALSE
  OBVIOUS
<1>1. Tiled(h.entry, M) /\ IsEntries(h.entry)
  BY SoundParts
<1>2. End(h.entry, x) <= e[2] \/ End(h.entry, e) <= x[2]
  BY <1>1 DEF Tiled, Apart
<1>3. /\ x[2] \in Nat /\ e[2] \in Nat /\ h.entry[e].size \in Nat /\ h.entry[e].size > 0
      /\ End(h.entry, x) <= PageSize /\ End(h.entry, e) <= PageSize /\ PageSize \in Nat
  BY <1>1, EntryFacts, SmallestIs, Sizes DEF Tiled, Sized
<1> QED
  BY <1>2, <1>3 DEF End

\* The page of entry x, which is all of it.
WholeFree(h, kind, x) ==
    /\ PagesSound(h, kind, Null) /\ x[1] \in DOMAIN h.page /\ kind[x[1]] = "roomy"
    /\ x \in DOMAIN h.entry /\ h.entry[x].free_block
    /\ h.entry[x].size = h.page[x[1]].data_size

\* g is h without page p, which is out of every list.
GivenBack(h, g, kind, p) ==
    /\ Same(h, g, ListFields \cup {"entry", "page_allocated", "actual_mem_used"})
    /\ PagesSound(g, Dropped(kind, p), Null)
    /\ DOMAIN g.page = DOMAIN h.page \ {p}
    /\ \A q \in DOMAIN g.page : g.page[q].data_size = h.page[q].data_size
    /\ UsedKept(h, g, Null)

\* A page without a block in use is given back.
LEMMA GiveBackIs ==
    ASSUME NEW h, NEW kind, NEW x, WholeFree(h, kind, x)
    PROVE  GivenBack(h, FreePage(LeaveFreePages(h, x[1]), x[1]), kind, x[1])
<1> DEFINE p == x[1]
<1>0. /\ PagesSound(h, kind, Null) /\ p \in DOMAIN h.page /\ kind[p] = "roomy"
      /\ x \in DOMAIN h.entry /\ x[1] = p /\ h.entry[x].free_block
      /\ h.entry[x].size = h.page[p].data_size
  BY DEF WholeFree
<1> HIDE DEF p
<1> DEFINE h1 == LeaveFreePages(h, p)
           g == FreePage(h1, p)
<1>1. /\ EntriesSound(h, MediumPages(kind)) /\ IsHeap(h) /\ IsPages(h.page)
      /\ DOMAIN kind = DOMAIN h.page
      /\ Linked(DOMAIN h.page, h.page, kind, Heads(h), h.medium_last_free_page)
  BY <1>0, SoundFacts
<1>2. /\ Same(h, h1, {"page", "medium_first_free_page", "medium_last_free_page"})
      /\ Relinked(h.page, h1.page)
      /\ Linked(DOMAIN h.page \ {p}, h1.page, kind, Heads(h1), h1.medium_last_free_page)
  BY <1>0, <1>1, LeaveFreePagesIs
<1> HIDE DEF h1
<1>3. Same(h, h1, ListFields) /\ DOMAIN h1.page = DOMAIN h.page
  BY <1>2 DEF Same, ListFields, Relinked
<1>4. /\ EntriesSound(h1, MediumPages(kind)) /\ h1.entry = h.entry
      /\ \A q \in DOMAIN h.page : Known(h, q) => Known(h1, q)
  BY <1>1, <1>2, <1>3, RelinkedSound
<1>5. RoomKnown(h1, kind, p)
  BY <1>0, <1>1, <1>2, <1>4, PagesAreMap DEF PagesSound, RoomKnown, Relinked
<1>6. \A q \in DOMAIN kind : kind[q] # "large" => h1.page[q].data_size = PageSize
  BY <1>0, <1>1, <1>2 DEF PagesSound, Relinked
<1>7. /\ Same(h1, g, {"page", "entry", "page_allocated", "actual_mem_used"})
      /\ PagesSound(g, Dropped(kind, p), Null)
      /\ DOMAIN g.page = DOMAIN h1.page \ {p}
      /\ \A q \in DOMAIN h1.page \ {p} : g.page[q] = h1.page[q]
      /\ \A e \in DOMAIN h1.entry : e[1] # p => e \in DOMAIN g.entry
      /\ \A e \in DOMAIN g.entry : g.entry[e] = h1.entry[e]
  <2>1. kind \in [DOMAIN h1.page -> Kinds] /\ Spaced(h1.entry, Null) /\ p \in DOMAIN h1.page
    BY <1>0, <1>3, <1>4 DEF PagesSound
  <2>2. Linked(DOMAIN h1.page \ {p}, h1.page, kind, Heads(h1), h1.medium_last_free_page)
    BY <1>2, <1>3
  <2>5. Booked(h)
    BY <1>0 DEF PagesSound
  <2>6. Booked(h1)
    BY <2>5, <1>2, <1>3, RelinkedBooks
  <2>3. Unlisted(h1, kind, p)
    BY <2>1, <2>2, <2>6, <1>4, <1>5, <1>6 DEF Unlisted
  <2>4. /\ Same(h1, g, BookFields) /\ PagesSound(g, Dropped(kind, p), Null)
        /\ PageLost(h1, g, p)
    BY <2>3, PageGone
  <2> QED
    BY <2>4 DEF PageLost, BookFields
<1> HIDE DEF g
<1>8. UsedKept(h, g, Null)
  <2>1. h.entry[x].size = PageSize
    BY <1>0, <1>1 DEF PagesSound
  <2>2. \A e \in DOMAIN h.entry : ~h.entry[e].free_block => e[1] # p
    BY <2>1, <1>0, <1>1, OneEntry
  <2> QED
    BY <2>2, <1>4, <1>7 DEF UsedKept
<1>9. Same(h, g, ListFields \cup {"entry", "page_allocated", "actual_mem_used"})
  BY <1>3, <1>7 DEF Same, ListFields
<1>10. \A q \in DOMAIN g.page : g.page[q].data_size = h.page[q].data_size
  BY <1>2, <1>3, <1>7 DEF Relinked
<1> QED
  BY <1>3, <1>7, <1>8, <1>9, <1>10 DEF g, h1, p, GivenBack

\* A page that is one entry.
LEMMA TiledAdded ==
    ASSUME NEW en, NEW en2, NEW M, Tiled(en, M), IsEntries(en2), NEW p \in Page, p \notin M,
           NEW w, w = <<p, 0>>, DOMAIN en2 = DOMAIN en \cup {w},
           en2[w].size = PageSize, en2[w].next = Null, en2[w].prev = Null,
           \A e \in DOMAIN en : en2[e] = en[e]
    PROVE  Tiled(en2, M \cup {p}) /\ w \notin DOMAIN en
<1>1. \A e \in DOMAIN en : e[1] # p /\ e[1] \in M
  BY DEF Tiled, OnPages
<1>2. w[1] = p /\ w[2] = 0 /\ w \notin DOMAIN en
  BY <1>1
<1>3. End(en2, w) = PageSize /\ \A e \in DOMAIN en : End(en2, e) = End(en, e)
  BY <1>2, Sizes DEF End
<1>4. OnPages(en2, M \cup {p})
  BY <1>1, <1>2 DEF Tiled, OnPages
<1>5. Sized(en2)
  <2>1. PageSize >= MediumSmallest
    BY SmallestIs, Sizes
  <2>2. 0 % Align = 0
    BY Sizes
  <2>3. PageSize % Align = 0
    BY HeapAssumption
  <2>4. PageSize <= PageSize
    BY Sizes
  <2> QED
    BY <2>1, <2>2, <2>3, <2>4, <1>2, <1>3 DEF Tiled, Sized
<1>6. NextTiled(en2)
  BY <1>2, <1>3 DEF Tiled, NextTiled
<1>7. PrevTiled(en2)
  BY <1>2 DEF Tiled, PrevTiled
<1>8. Apart(en2)
  <2>1. \A e, f \in DOMAIN en2 : e # f /\ e[1] = f[1] => e \in DOMAIN en /\ f \in DOMAIN en
    BY <1>1, <1>2
  <2> QED
    BY <2>1, <1>3 DEF Tiled, Apart
<1> QED
  BY <1>2, <1>4, <1>5, <1>6, <1>7, <1>8 DEF Tiled

Added(kind, p, k) == With(kind, p, k)

\* g is h with page p and one free entry on it.
PageGained(h, g, p) ==
    /\ DOMAIN g.page = DOMAIN h.page \cup {p}
    /\ \A q \in DOMAIN h.page : g.page[q].data_size = h.page[q].data_size
    /\ \A e \in DOMAIN h.entry : e \in DOMAIN g.entry /\ g.entry[e] = h.entry[e]
    /\ \A e \in DOMAIN g.entry : ~g.entry[e].free_block => e \in DOMAIN h.entry

GainFields == ListFields \cup BookFields

Whole == [size |-> PageSize, prev |-> Null, next |-> Null,
          prev_free |-> Null, next_free |-> Null, free_block |-> TRUE]

\* A page for medium blocks is got from malloc, one free entry.
LEMMA MediumNewPageIs ==
    ASSUME NEW h, NEW kind, PagesSound(h, kind, Null), NEW p \in Page, p \notin DOMAIN h.page
    PROVE  LET g == MediumNewPage(h, p)
           IN  /\ Same(h, g, GainFields)
               /\ PagesSound(g, Added(kind, p, "roomy"), Null)
               /\ PageGained(h, g, p)
               /\ g.page[p].largest_free = PageSize /\ g.medium_first_free_page = p
               /\ Added(kind, p, "roomy")[p] = "roomy"
<1> DEFINE en == h.entry
           first == h.medium_first_free_page
           last == IF first = Null THEN p ELSE h.medium_last_free_page
           w == <<p, 0>>
           a == AllocatePage(h, p, PageSize)
           h1 == PushPage(a, p, first)
           k1 == [h1 EXCEPT !.medium_last_free_page = last]
           k2 == [k1 EXCEPT !.medium_first_free_page = p]
           k3 == [k2 EXCEPT !.page[p].largest_free = PageSize]
           k4 == [k3 EXCEPT !.page[p].first_free = w]
           g == [k4 EXCEPT !.entry = With(@, w, Whole)]
           kind2 == Added(kind, p, "roomy")
           M == MediumPages(kind)
<1>1. /\ EntriesSound(h, M) /\ IsHeap(h) /\ IsPages(h.page) /\ IsEntries(en)
      /\ Null \notin DOMAIN h.page /\ DOMAIN kind = DOMAIN h.page
      /\ \A q \in DOMAIN h.page : kind[q] \in Kinds
      /\ Linked(DOMAIN h.page, h.page, kind, Heads(h), h.medium_last_free_page)
  BY SoundFacts
<1>2. /\ Same(h, a, {"page", "page_allocated", "actual_mem_used"})
      /\ DOMAIN a.page = DOMAIN h.page \cup {p}
      /\ IsPages(a.page)
      /\ a.page[p] = NewRec(PageSize)
      /\ \A q \in DOMAIN h.page : a.page[q] = h.page[q]
      /\ a.page_allocated = h.page_allocated + 1
      /\ a.actual_mem_used = h.actual_mem_used + PageSize + PageHeader
  BY <1>1, AllocatePageIs, Sizes
<1> HIDE DEF a
<1>3. /\ IsHeap(a) /\ a.entry = en /\ a.medium_last_free_page = h.medium_last_free_page
      /\ Heads(a) = Heads(h) /\ p # Null
      /\ a.medium_first_free_page = first
  BY <1>2, PageAssumption DEF Same, Fields, Heads
<1>4. first \in PageOrNull /\ first # p
  <2>1. first # Null => first \in DOMAIN h.page
    BY <1>1, HeadsAre DEF Linked, HeadsSound, ListKinds
  <2> QED
    BY <2>1, <1>1, <1>3 DEF IsPages, PageOrNull
<1>5. Same(a, h1, {"page"}) /\ Relinked(a.page, h1.page)
  BY <1>2, <1>3, <1>4, PushPageIs
<1>6. h1 = PushPage(a, p, Heads(a)["roomy"])
  BY <1>3, HeadsAre
<1>7. g = MediumNewPage(h, p)
  <2>1. h1.medium_last_free_page = h.medium_last_free_page /\ IsHeap(h1)
    BY <1>3, <1>5 DEF Same, Fields
  <2> HIDE DEF h1
  <2>2. g = [h1 EXCEPT
            !.medium_last_free_page = IF h.medium_first_free_page = Null THEN p ELSE @,
            !.medium_first_free_page = p,
            !.page[p].largest_free = PageSize,
            !.page[p].first_free = <<p, 0>>,
            !.entry = With(@, <<p, 0>>,
                           [size |-> PageSize, prev |-> Null, next |-> Null,
                            prev_free |-> Null, next_free |-> Null,
                            free_block |-> TRUE])]
    BY <2>1 DEF Whole
  <2> HIDE DEF g
  <2> QED
    BY <2>2 DEF MediumNewPage, h1, a
<1> HIDE DEF h1, first, last
<1>8. Same(h1, k1, {"medium_last_free_page"}) /\ k1.medium_last_free_page = last
  BY <1>5 DEF IsHeap, Fields, Same
<1> HIDE DEF k1
<1>9. Same(k1, k2, {"medium_first_free_page"}) /\ k2.medium_first_free_page = p
  BY <1>8 DEF IsHeap, Fields, Same
<1> HIDE DEF k2
<1>10. /\ k2.page = h1.page /\ k2.entry = en /\ IsHeap(k2)
       /\ Same(h1, k2, ListFields) /\ k2.medium_last_free_page = last
       /\ k2.medium_first_used_page = a.medium_first_used_page
       /\ k2.large_first_used_page = a.large_first_used_page
  BY <1>3, <1>5, <1>8, <1>9 DEF Same, Fields, ListFields
<1>11. /\ kind2[p] = "roomy" /\ DOMAIN kind2 = DOMAIN h.page \cup {p}
       /\ \A q \in DOMAIN h.page : kind2[q] = kind[q]
       /\ kind2 \in [DOMAIN h.page \cup {p} -> Kinds]
  BY <1>1 DEF Added, With, Kinds, ListKinds
<1>12. Linked(DOMAIN a.page \ {p}, a.page, kind, Heads(a), a.medium_last_free_page)
  <2> DEFINE S == DOMAIN h.page
             pg == h.page
             pg2 == a.page
             heads == Heads(h)
             last0 == h.medium_last_free_page
  <2>1. Linked(S, pg, kind, heads, last0)
    BY <1>1
  <2>2. \A q \in S : pg2[q].next = pg[q].next /\ pg2[q].prev = pg[q].prev /\ kind[q] = kind[q]
    BY <1>2
  <2> HIDE DEF S, pg, pg2, heads, last0
  <2>3. Linked(S, pg2, kind, heads, last0)
    BY <2>1, <2>2, LinkedAgree
  <2>4. DOMAIN a.page \ {p} = S
    BY <1>2 DEF S
  <2> QED
    BY <2>3, <2>4, <1>3 DEF pg2, heads, last0
<1>13. PutInFront(a, kind, p, "roomy", k2, kind2)
  <2>1. "roomy" \in ListKinds
    BY DEF ListKinds
  <2>2. Heads(k2)["roomy"] = p /\ \A j \in ListKinds \ {"roomy"} : Heads(k2)[j] = Heads(a)[j]
    BY <1>9, <1>10, HeadsAre DEF ListKinds
  <2>3. Heads(a)["roomy"] = Null => k2.medium_last_free_page = p
    BY <1>3, <1>10, HeadsAre DEF last
  <2>4. Heads(a)["roomy"] # Null => k2.medium_last_free_page = a.medium_last_free_page
    BY <1>3, <1>10, HeadsAre DEF last
  <2>5. \A q \in DOMAIN a.page \ {p} : kind2[q] = kind[q]
    BY <1>2, <1>11
  <2>6. Same(PushPage(a, p, Heads(a)["roomy"]), k2, ListFields)
        /\ k2.page = PushPage(a, p, Heads(a)["roomy"]).page
    BY <1>6, <1>10
  <2> QED
    BY <2>1, <2>2, <2>3, <2>4, <2>5, <2>6, <1>11 DEF PutInFront
<1>14. /\ Relinked(a.page, k2.page)
       /\ Linked(DOMAIN a.page, k2.page, kind2, Heads(k2), k2.medium_last_free_page)
  <2>1. p \in DOMAIN a.page
    BY <1>2
  <2> HIDE DEF kind2
  <2> QED
    BY <2>1, <1>2, <1>3, <1>12, <1>13, PushedInto
<1> DEFINE pg3 == SetIn(k2.page, p, "largest_free", PageSize)
           pg4 == SetIn(pg3, p, "first_free", w)
<1>15. IsPages(k2.page) /\ DOMAIN k2.page = DOMAIN h.page \cup {p}
  BY <1>2, <1>14, RelinkedIsPages DEF Relinked
<1>16. Same(k2, k3, {"page"}) /\ k3.page = pg3
  BY <1>10, <1>15, PagesAreMap DEF IsHeap, Fields, Same, SetIn
<1>17. IsPages(pg3) /\ SetOnePage(k2.page, pg3, p, "largest_free", PageSize)
  BY <1>15, SetLargest, Sizes
<1> HIDE DEF k3, pg3
<1>18. Same(k3, k4, {"page"}) /\ k4.page = pg4
  BY <1>16, <1>17, PagesAreMap DEF IsHeap, Fields, Same, SetIn
<1>19. w \in PlaceOrNull /\ w \in Place
  BY DEF PlaceOrNull, Place
<1>20. IsPages(pg4) /\ SetOnePage(pg3, pg4, p, "first_free", w)
  BY <1>17, <1>19, SetFirst
<1> HIDE DEF k4, pg4, w
<1>21. Same(k4, g, {"entry"}) /\ g.entry = With(k4.entry, w, Whole)
  BY <1>18 DEF IsHeap, Fields, Same
<1>22. k4.entry = en
  BY <1>10, <1>16, <1>18 DEF Same, Fields
<1> HIDE DEF g
<1>23. Same(h, g, GainFields) /\ g.page = pg4 /\ Heads(g) = Heads(k2)
       /\ g.medium_last_free_page = k2.medium_last_free_page /\ g.medium_first_free_page = p
  <2>1. Same(h1, k4, {"page", "medium_last_free_page", "medium_first_free_page"})
    BY <1>8, <1>9, <1>16, <1>18 DEF Same
  <2>2. Same(h, h1, GainFields)
    BY <1>2, <1>5 DEF Same, GainFields, ListFields, BookFields
  <2>3. Same(h, g, GainFields)
    BY <2>1, <2>2, <1>21 DEF Same, GainFields, ListFields, BookFields
  <2>4. Same(k2, g, {"page", "entry"})
    BY <1>16, <1>18, <1>21 DEF Same
  <2>5. g.page = pg4
    BY <1>18, <1>21 DEF Same, Fields
  <2> QED
    BY <2>3, <2>4, <2>5, <1>9 DEF Same, Fields, Heads
<1>24. /\ DOMAIN g.page = DOMAIN h.page \cup {p}
       /\ \A q \in DOMAIN g.page :
             /\ g.page[q].data_size = a.page[q].data_size
             /\ g.page[q].next = k2.page[q].next /\ g.page[q].prev = k2.page[q].prev
             /\ g.page[q].largest_free = IF q = p THEN PageSize ELSE a.page[q].largest_free
             /\ g.page[q].first_free = IF q = p THEN w ELSE a.page[q].first_free
  BY <1>2, <1>14, <1>15, <1>17, <1>20, <1>23 DEF SetOnePage, PageFields, Relinked
<1>25. Whole \in EntryRec /\ Whole.size = PageSize /\ Whole.next = Null /\ Whole.prev = Null
       /\ Whole.prev_free = Null /\ Whole.next_free = Null /\ Whole.free_block
  BY Sizes, PlacesTyped DEF Whole, EntryRec
<1>26. /\ DOMAIN g.entry = DOMAIN en \cup {w} /\ g.entry[w] = Whole
       /\ \A e \in DOMAIN en \ {w} : g.entry[e] = en[e]
       /\ IsEntries(g.entry)
  BY <1>1, <1>19, <1>21, <1>22, <1>25 DEF With, IsEntries
<1> HIDE DEF kind2
<1>27. p \notin M /\ M \subseteq DOMAIN h.page /\ MediumPages(kind2) = M \cup {p}
  BY <1>1, <1>11 DEF MediumPages
<1>28. Tiled(g.entry, M \cup {p}) /\ w \notin DOMAIN en
  <2>1. w \notin DOMAIN en
    BY <1>1, <1>27 DEF EntriesSound, Tiled, OnPages, w
  <2>2. \A e \in DOMAIN en : g.entry[e] = en[e]
    BY <2>1, <1>26
  <2>3. Tiled(en, M) /\ w = <<p, 0>>
    BY <1>1 DEF EntriesSound, w
  <2> HIDE DEF M, en
  <2> QED
    BY <2>1, <2>2, <2>3, <1>25, <1>26, <1>27, TiledAdded
<1>29. FreeLinked(FreeSet(g.entry), g.entry, g.page)
  <2>1. FreeLinked(FreeSet(en), en, h.page)
    BY <1>1, SoundParts
  <2>2. a.page[p].first_free = Null
    BY <1>2 DEF NewRec
  <2>3. FreeLinked(FreeSet(en), en, a.page)
    <3>1. \A e \in FreeSet(en) : e[1] # p
      BY <1>1, <1>27 DEF EntriesSound, Tiled, OnPages, FreeSet
    <3>2. \A q \in DOMAIN h.page : a.page[q].first_free = h.page[q].first_free
      BY <1>2
    <3>3. FirstFree(FreeSet(en), en, a.page)
      BY <3>1, <3>2, <2>1, <2>2, <1>2 DEF FreeLinked, FirstFree
    <3> QED
      BY <3>3, <2>1 DEF FreeLinked
  <2>4. FreeSet(g.entry) = FreeSet(en) \cup {w} /\ w \notin FreeSet(en) /\ w # Null
        /\ Null \notin FreeSet(en)
    BY <1>1, <1>19, <1>25, <1>26, <1>28, EntryIsPlace DEF FreeSet
  <2>5. w[1] = p
    BY DEF w
  <2>6. /\ w[1] \in DOMAIN a.page /\ DOMAIN g.page = DOMAIN a.page
        /\ g.entry[w].prev_free = Null /\ g.entry[w].next_free = a.page[w[1]].first_free
        /\ \A q \in FreeSet(en) :
              /\ g.entry[q].next_free = en[q].next_free
              /\ g.entry[q].prev_free = IF q = a.page[w[1]].first_free THEN w ELSE en[q].prev_free
        /\ \A q \in DOMAIN a.page : g.page[q].first_free = IF q = w[1] THEN w ELSE a.page[q].first_free
    BY <2>2, <2>4, <2>5, <1>2, <1>24, <1>25, <1>26, <1>28 DEF FreeSet
  <2> DEFINE S == FreeSet(en)
             pg == a.page
             pg2 == g.page
             en2 == g.entry
  <2>7. FreeLinked(S, en, pg) /\ w \notin S /\ w # Null /\ Null \notin S /\ w[1] \in DOMAIN pg
        /\ DOMAIN pg2 = DOMAIN pg /\ en2[w].prev_free = Null /\ en2[w].next_free = pg[w[1]].first_free
    BY <2>3, <2>4, <2>6
  <2>8. \A q \in S : /\ en2[q].next_free = en[q].next_free
                     /\ en2[q].prev_free = IF q = pg[w[1]].first_free THEN w ELSE en[q].prev_free
    BY <2>6
  <2>9. \A q \in DOMAIN pg : pg2[q].first_free = IF q = w[1] THEN w ELSE pg[q].first_free
    BY <2>6
  <2>10. FreeSet(en2) = S \cup {w}
    BY <2>4
  <2> HIDE DEF S, pg, pg2, en2, en
  <2>11. FreeLinked(S \cup {w}, en2, pg2)
    BY <2>7, <2>8, <2>9, FreeEnter
  <2> QED
    BY <2>10, <2>11 DEF en2, pg2
<1>30. EntriesSound(g, MediumPages(kind2))
  <2>1. IsHeap(g) /\ IsPages(g.page) /\ MediumPages(kind2) \subseteq DOMAIN g.page
    BY <1>20, <1>23, <1>24, <1>27 DEF Same
  <2> QED
    BY <2>1, <1>27, <1>28, <1>29 DEF EntriesSound
<1>31. Spaced(g.entry, Null)
  <2>1. \A e \in DOMAIN en : en[e].next # Null => en[e].next \in DOMAIN en
    BY <1>1, SoundParts DEF Tiled, NextTiled
  <2>2. \A e \in DOMAIN en : g.entry[e] = en[e]
    BY <1>26, <1>28
  <2>3. Spaced(en, Null)
    BY DEF PagesSound
  <2>4. \A e \in DOMAIN en : e # Null
    BY <1>1, EntryIsPlace
  <2> QED
    BY <2>1, <2>2, <2>3, <2>4, <1>25, <1>26 DEF Spaced
<1>32. Linked(DOMAIN g.page, g.page, kind2, Heads(g), g.medium_last_free_page)
  <2> DEFINE S == DOMAIN g.page
             pg == k2.page
             pg2 == g.page
             heads == Heads(k2)
             last0 == k2.medium_last_free_page
  <2>1. Linked(S, pg, kind2, heads, last0)
    BY <1>2, <1>14, <1>24
  <2>2. \A q \in S : pg2[q].next = pg[q].next /\ pg2[q].prev = pg[q].prev /\ kind2[q] = kind2[q]
    BY <1>24
  <2> HIDE DEF S, pg, pg2, heads, last0
  <2>3. Linked(S, pg2, kind2, heads, last0)
    BY <2>1, <2>2, LinkedAgree
  <2> QED
    BY <2>3, <1>23 DEF S, pg2, heads, last0
<1>33. RoomKnown(g, kind2, Null)
  <2> SUFFICES ASSUME NEW q \in DOMAIN kind2
               PROVE  /\ kind2[q] = "roomy" => Known(g, q)
                      /\ kind2[q] = "full" => g.page[q].largest_free = 0
    BY DEF RoomKnown
  <2>1. CASE q = p
    <3>1. w # Null
      BY <1>19, EntryIsPlace, PageAssumption DEF Place
    <3> QED
      BY <2>1, <3>1, <1>11, <1>24, <1>25, <1>26 DEF Known
  <2>2. CASE q # p
    <3>1. q \in DOMAIN h.page /\ kind2[q] = kind[q] /\ q # Null
      BY <2>2, <1>1, <1>11
    <3>2. g.page[q].largest_free = h.page[q].largest_free /\ g.page[q].first_free = h.page[q].first_free
      BY <2>2, <3>1, <1>2, <1>24
    <3>3. kind[q] = "full" => h.page[q].largest_free = 0
      BY <3>1, <1>1 DEF PagesSound, RoomKnown
    <3>4. ASSUME kind[q] = "roomy" PROVE Known(g, q)
      <4>1. Known(h, q)
        BY <3>1, <3>4, <1>1 DEF PagesSound, RoomKnown
      <4>2. h.page[q].first_free \in DOMAIN en
        BY <3>1, <4>1, <1>1, SoundParts DEF Known, FreeLinked, FirstFree, FreeSet
      <4> QED
        BY <3>2, <4>1, <4>2, <1>26, <1>28 DEF Known
    <3> QED
      BY <3>1, <3>2, <3>3, <3>4
  <2> QED
    BY <2>1, <2>2
<1>34. \A q \in DOMAIN kind2 : kind2[q] # "large" => g.page[q].data_size = PageSize
  <2>1. a.page[p].data_size = PageSize
    BY <1>2 DEF NewRec
  <2>2. \A q \in DOMAIN h.page : kind[q] # "large" => h.page[q].data_size = PageSize
    BY <1>1 DEF PagesSound
  <2> QED
    BY <2>1, <2>2, <1>2, <1>11, <1>24
<1>37. Booked(g)
  <2>1. g.page_allocated = a.page_allocated /\ g.actual_mem_used = a.actual_mem_used
    <3>1. k2.page_allocated = a.page_allocated /\ k2.actual_mem_used = a.actual_mem_used
      BY <1>5, <1>10 DEF Same, Fields, ListFields
    <3> QED
      BY <3>1, <1>16, <1>18, <1>21 DEF Same, Fields
  <2>2. /\ \A q \in DOMAIN h.page : g.page[q].data_size = h.page[q].data_size
        /\ g.page[p].data_size = PageSize
    BY <1>2, <1>24 DEF NewRec
  <2>3. DOMAIN h.page \subseteq Page /\ \A q \in DOMAIN g.page : g.page[q].data_size \in Nat
    BY <1>1, <1>20, <1>23 DEF IsPages, PageRec
  <2>4. Booked(h)
    BY DEF PagesSound
  <2>5. /\ g.page_allocated = h.page_allocated + 1
        /\ g.actual_mem_used = h.actual_mem_used + g.page[p].data_size + PageHeader
    BY <2>1, <2>2, <1>2
  <2> QED
    BY <2>2, <2>3, <2>4, <2>5, <1>24, BookedMore
<1>35. PagesSound(g, kind2, Null)
  BY <1>11, <1>24, <1>30, <1>31, <1>32, <1>33, <1>34, <1>37 DEF PagesSound
<1>36. PageGained(h, g, p)
  <2>1. \A q \in DOMAIN h.page : q \in DOMAIN g.page /\ g.page[q].data_size = h.page[q].data_size
    BY <1>2, <1>24
  <2> QED
    BY <2>1, <1>24, <1>25, <1>26, <1>28 DEF PageGained
<1> QED
  BY <1>7, <1>11, <1>23, <1>24, <1>35, <1>36 DEF kind2

-----------------------------------------------------------------------------
(* The pages with room, as MediumAllocate goes through them.                *)

\* Induction, for a set of numbers.
LEMMA InductionOverNat ==
    ASSUME NEW T \in SUBSET Nat, 0 \in T, \A n \in T : n + 1 \in T
    PROVE  Nat \subseteq T
<1> DEFINE R == OpToRel(<, Nat)
<1>1. IsWellFoundedOn(R, Nat)
  BY NatLessThanWellFounded
<1>2. \A i, j \in Nat : i < j => <<i, j>> \in R
  BY DEF OpToRel
<1> HIDE DEF R
<1> SUFFICES ASSUME Nat \ T # {} PROVE FALSE
  OBVIOUS
<1>3. PICK n \in Nat \ T : \A m \in Nat \ T : ~ (<<m, n>> \in R)
  BY <1>1, WFMin
<1>4. n # 0 /\ n - 1 \in Nat
  OBVIOUS
<1>5. n - 1 \in T
  <2>1. <<n - 1, n>> \in R
    BY <1>2, <1>4
  <2> QED
    BY <1>3, <1>4, <2>1
<1> QED
  BY <1>3, <1>5

\* One page more of a list.
Longer(h, s) ==
    IF s = <<>> THEN <<>>
    ELSE IF h.page[s[Len(s)]].next = Null THEN s
    ELSE Append(s, h.page[s[Len(s)]].next)

Start(first) == IF first = Null THEN <<>> ELSE <<first>>

IsListing(f, n, h, first) ==
    f = [k \in 0 .. n |-> IF k = 0 THEN Start(first) ELSE Longer(h, f[k - 1])]

\* The pages along next are a function of their number.
LEMMA ListingExists ==
    ASSUME NEW n \in Nat, NEW h, NEW first
    PROVE  \E f : IsListing(f, n, h, first)
<1> DEFINE T == {k \in Nat : \E f : IsListing(f, k, h, first)}
<1>1. 0 \in T
  <2> DEFINE f == [k \in 0 .. 0 |-> Start(first)]
  <2>1. IsListing(f, 0, h, first)
    BY DEF IsListing
  <2> QED
    BY <2>1
<1>2. ASSUME NEW m \in T PROVE m + 1 \in T
  <2>1. PICK f : IsListing(f, m, h, first)
    OBVIOUS
  <2> DEFINE g == [k \in 0 .. m + 1 |-> IF k = m + 1 THEN Longer(h, f[m]) ELSE f[k]]
  <2>2. /\ DOMAIN f = 0 .. m
        /\ \A k \in 0 .. m : f[k] = IF k = 0 THEN Start(first) ELSE Longer(h, f[k - 1])
    BY <2>1 DEF IsListing
  <2>3. \A k \in 0 .. m : k \in 0 .. m + 1 /\ k # m + 1
    OBVIOUS
  <2>4. \A k \in 0 .. m : g[k] = f[k]
    BY <2>3
  <2>5. g[m + 1] = Longer(h, f[m]) /\ g[m] = f[m]
    BY <2>4
  <2>6. DOMAIN g = 0 .. m + 1 /\ g = [k \in 0 .. m + 1 |-> g[k]]
    OBVIOUS
  <2> HIDE DEF g
  <2>7. \A k \in 0 .. m + 1 : g[k] = IF k = 0 THEN Start(first) ELSE Longer(h, g[k - 1])
    <3> TAKE k \in 0 .. m + 1
    <3>1. CASE k = m + 1
      BY <3>1, <2>5
    <3>2. CASE k # m + 1
      <4>1. k \in 0 .. m /\ (k # 0 => k - 1 \in 0 .. m)
        BY <3>2
      <4> QED
        BY <4>1, <2>2, <2>4
    <3> QED
      BY <3>1, <3>2
  <2>8. IsListing(g, m + 1, h, first)
    BY <2>6, <2>7 DEF IsListing
  <2> QED
    BY <2>8
<1>3. Nat \subseteq T
  <2>1. T \in SUBSET Nat
    OBVIOUS
  <2> HIDE DEF T
  <2> QED
    BY <1>1, <1>2, <2>1, InductionOverNat
<1> QED
  BY <1>3

\* A set of numbers has a smallest one.
LEMMA SmallestOf ==
    ASSUME NEW T \in SUBSET Nat, T # {}
    PROVE  \E k \in T : \A j \in T : k <= j
<1>1. IsWellFoundedOn(OpToRel(<, Nat), Nat)
  BY NatLessThanWellFounded
<1>2. PICK k \in T : \A j \in T : ~(<<j, k>> \in OpToRel(<, Nat))
  BY <1>1, WFMin
<1>3. \A j \in T : ~(j < k)
  BY <1>2 DEF OpToRel
<1>4. ASSUME NEW j \in T PROVE k <= j
  <2>1. k \in Int /\ j \in Int /\ ~(j < k)
    BY <1>3
  <2> QED
    BY <2>1
<1> QED
  BY <1>2, <1>4

\* A list of pages from first on, and the numbers rank of its pages grow.
InListing(h, R, rank, first, s) ==
    /\ s \in Seq(R)
    /\ IF first = Null THEN s = <<>> ELSE s # <<>> /\ s[1] = first
    /\ \A i \in DOMAIN s : i + 1 \in DOMAIN s => h.page[s[i]].next = s[i + 1]
    /\ \A i, j \in DOMAIN s : i < j => rank[s[i]] < rank[s[j]]

Growing(h, R, rank) ==
    /\ rank \in [R -> Nat]
    /\ \A p \in R : h.page[p].next # Null =>
          h.page[p].next \in R /\ rank[p] < rank[h.page[p].next]

\* The list has a page more, or was at its end.
LEMMA LongerListing ==
    ASSUME NEW h, NEW R, NEW rank, NEW first, NEW s, Growing(h, R, rank),
           InListing(h, R, rank, first, s)
    PROVE  /\ InListing(h, R, rank, first, Longer(h, s))
           /\ \/ Longer(h, s) = s /\ (s # <<>> => h.page[s[Len(s)]].next = Null)
              \/ Len(Longer(h, s)) = Len(s) + 1
<1>1. /\ s \in Seq(R) /\ (IF first = Null THEN s = <<>> ELSE s # <<>> /\ s[1] = first)
      /\ \A i \in DOMAIN s : i + 1 \in DOMAIN s => h.page[s[i]].next = s[i + 1]
      /\ \A i, j \in DOMAIN s : i < j => rank[s[i]] < rank[s[j]]
  BY DEF InListing
<1>2. CASE s = <<>> \/ h.page[s[Len(s)]].next = Null
  <2>1. Longer(h, s) = s
    BY <1>2 DEF Longer
  <2> QED
    BY <2>1, <1>2
<1>3. CASE s # <<>> /\ h.page[s[Len(s)]].next # Null
  <2> DEFINE l == Len(s)
             p == h.page[s[l]].next
             t == Append(s, p)
  <2>1. l \in Nat /\ l > 0 /\ DOMAIN s = 1 .. l /\ s[l] \in R /\ l \in DOMAIN s
    BY <1>1, <1>3
  <2>2. p \in R /\ rank[s[l]] < rank[p] /\ \A q \in R : rank[q] \in Nat
    BY <2>1, <1>3 DEF Growing
  <2>3. Longer(h, s) = t
    BY <1>3 DEF Longer
  <2>4. /\ t \in Seq(R) /\ Len(t) = l + 1 /\ DOMAIN t = 1 .. l + 1
        /\ t[l + 1] = p /\ \A i \in 1 .. l : t[i] = s[i]
    BY <1>1, <2>1, <2>2
  <2> HIDE DEF t, p, l
  <2>5. IF first = Null THEN t = <<>> ELSE t # <<>> /\ t[1] = first
    <3>1. 1 \in 1 .. l /\ t # <<>>
      BY <2>1, <2>4
    <3> QED
      BY <3>1, <2>4, <1>1, <1>3
  <2>6. ASSUME NEW i \in DOMAIN t, i + 1 \in DOMAIN t PROVE h.page[t[i]].next = t[i + 1]
    <3>1. CASE i = l
      BY <3>1, <2>1, <2>4 DEF p
    <3>2. CASE i # l
      <4>1. i \in 1 .. l /\ i + 1 \in 1 .. l
        BY <3>2, <2>1, <2>4, <2>6
      <4> QED
        BY <4>1, <1>1, <2>1, <2>4
    <3> QED
      BY <3>1, <3>2
  <2>7. ASSUME NEW i \in DOMAIN t, NEW j \in DOMAIN t, i < j PROVE rank[t[i]] < rank[t[j]]
    <3>1. i \in 1 .. l /\ t[i] = s[i] /\ s[i] \in R
      BY <2>1, <2>4, <2>7, <1>1
    <3>2. CASE j = l + 1
      <4>1. i = l \/ rank[s[i]] < rank[s[l]]
        BY <3>1, <2>1, <1>1
      <4>2. rank[s[i]] \in Nat /\ rank[s[l]] \in Nat /\ rank[p] \in Nat
        BY <3>1, <2>1, <2>2
      <4> QED
        BY <4>1, <4>2, <3>1, <3>2, <2>2, <2>4
    <3>3. CASE j # l + 1
      <4>1. j \in 1 .. l
        BY <3>3, <2>1, <2>4
      <4> QED
        BY <4>1, <3>1, <2>1, <2>4, <2>7, <1>1
    <3> QED
      BY <3>2, <3>3
  <2>8. InListing(h, R, rank, first, t)
    BY <2>4, <2>5, <2>6, <2>7 DEF InListing
  <2> QED
    BY <2>3, <2>4, <2>8 DEF l
<1> QED
  BY <1>2, <1>3

PagesIn(h, kind, k) == {p \in DOMAIN h.page : kind[p] = k}

\* s is the whole list of the pages of kind k, from the first to the last.
Listing(h, kind, k, s) ==
    /\ s \in Seq(PagesIn(h, kind, k)) /\ (s = <<>>) = (Heads(h)[k] = Null)
    /\ \A p \in PagesIn(h, kind, k) : \E i \in DOMAIN s : s[i] = p
    /\ \A i, j \in DOMAIN s : s[i] = s[j] => i = j
    /\ \A i \in DOMAIN s : h.page[s[i]].prev = IF i = 1 THEN Null ELSE s[i - 1]
    /\ s # <<>> => h.page[s[Len(s)]].next = Null

\* A list that has come to its end is all of it.
LEMMA ListingWhole ==
    ASSUME NEW h, NEW kind, NEW x, PagesSound(h, kind, x), NEW k \in ListKinds, NEW rank,
           Growing(h, DOMAIN h.page, rank), NEW s,
           InListing(h, PagesIn(h, kind, k), rank, Heads(h)[k], s),
           s # <<>> => h.page[s[Len(s)]].next = Null
    PROVE  Listing(h, kind, k, s)
<1> DEFINE R == PagesIn(h, kind, k)
           first == Heads(h)[k]
           pg == h.page
<1>1. /\ s \in Seq(R) /\ (IF first = Null THEN s = <<>> ELSE s # <<>> /\ s[1] = first)
      /\ \A i \in DOMAIN s : i + 1 \in DOMAIN s => pg[s[i]].next = s[i + 1]
      /\ \A i, j \in DOMAIN s : i < j => rank[s[i]] < rank[s[j]]
  BY DEF InListing
<1>2. /\ first # Null => first \in R /\ pg[first].prev = Null
      /\ \A p \in R : IF pg[p].prev = Null THEN p = first
                      ELSE pg[p].prev \in R /\ pg[pg[p].prev].next = p
      /\ \A p \in R : pg[p].next # Null => pg[pg[p].next].prev = p
      /\ Null \notin R
  BY SoundFacts DEF Linked, HeadsSound, PrevSound, NextSound, PagesIn
<1>3. \A p \in R : rank[p] \in Nat /\ (pg[p].next # Null => rank[p] < rank[pg[p].next])
  BY DEF Growing, PagesIn
<1> HIDE DEF R, first, pg
<1>4. Len(s) \in Nat /\ DOMAIN s = 1 .. Len(s) /\ \A i \in DOMAIN s : s[i] \in R
  BY <1>1
<1>5. ASSUME NEW i \in DOMAIN s, NEW j \in DOMAIN s, s[i] = s[j] PROVE i = j
  <2>1. rank[s[i]] = rank[s[j]] /\ rank[s[i]] \in Nat
    BY <1>3, <1>4, <1>5
  <2>2. ~(i < j) /\ ~(j < i)
    BY <2>1, <1>1
  <2> QED
    BY <2>2, <1>4
<1>6. ASSUME NEW i \in DOMAIN s PROVE pg[s[i]].prev = IF i = 1 THEN Null ELSE s[i - 1]
  <2>1. CASE i = 1
    BY <2>1, <1>1, <1>2
  <2>2. CASE i # 1
    <3>1. i - 1 \in DOMAIN s /\ (i - 1) + 1 = i
      BY <2>2, <1>4
    <3>2. pg[s[i - 1]].next = s[i]
      BY <3>1, <1>1
    <3> QED
      BY <3>1, <3>2, <2>2, <1>2, <1>4
  <2> QED
    BY <2>1, <2>2
<1>7. ASSUME NEW p \in R PROVE \E i \in DOMAIN s : s[i] = p
  <2> DEFINE T == {q \in R : ~ \E i \in DOMAIN s : s[i] = q}
             N == {rank[q] : q \in T}
  <2> SUFFICES ASSUME T # {} PROVE FALSE
    OBVIOUS
  <2>1. N \in SUBSET Nat /\ N # {}
    BY <1>3
  <2>2. PICK m \in N : \A j \in N : m <= j
    <3> HIDE DEF N
    <3> QED
      BY <2>1, SmallestOf
  <2>3. PICK q \in T : rank[q] = m
    OBVIOUS
  <2>4. q \in R /\ \A i \in DOMAIN s : s[i] # q
    OBVIOUS
  <2>5. CASE pg[q].prev = Null
    <3>1. q = first /\ first # Null
      BY <2>4, <2>5, <1>2
    <3>2. s # <<>> /\ s[1] = first
      BY <3>1, <1>1
    <3>3. 1 \in DOMAIN s
      BY <3>2, <1>1
    <3> QED
      BY <3>1, <3>2, <3>3, <2>4
  <2>6. CASE pg[q].prev # Null
    <3> DEFINE r == pg[q].prev
    <3>1. r \in R /\ pg[r].next = q
      BY <2>4, <2>6, <1>2
    <3>2. rank[r] < rank[q] /\ rank[r] \in Nat /\ rank[q] \in Nat
      BY <3>1, <2>4, <1>2, <1>3
    <3>3. r \notin T
      <4> SUFFICES ASSUME r \in T PROVE FALSE
        OBVIOUS
      <4>1. rank[r] \in N
        OBVIOUS
      <4>2. m <= rank[r]
        BY <4>1, <2>2
      <4> QED
        BY <4>2, <3>2, <2>3
    <3>4. PICK i \in DOMAIN s : s[i] = r
      BY <3>1, <3>3
    <3>5. CASE i = Len(s)
      <4>1. s # <<>>
        BY <3>4
      <4>2. pg[r].next = Null
        BY <4>1, <3>4, <3>5 DEF pg
      <4> QED
        BY <4>2, <3>1, <2>4, <1>2
    <3>6. CASE i # Len(s)
      <4>1. i + 1 \in DOMAIN s
        BY <3>6, <1>4
      <4> QED
        BY <4>1, <3>1, <3>4, <2>4, <1>1
    <3> QED
      BY <3>5, <3>6
  <2> QED
    BY <2>5, <2>6
<1>8. (s = <<>>) = (first = Null)
  BY <1>1
<1> QED
  BY <1>1, <1>5, <1>6, <1>7, <1>8 DEF Listing, R, first, pg

\* Pages holds the whole list: there are no more pages than it has places.
LEMMA PagesListed ==
    ASSUME NEW h, NEW kind, NEW x, PagesSound(h, kind, x), NEW k \in ListKinds
    PROVE  Listing(h, kind, k, Pages(h, Heads(h)[k]))
<1> DEFINE first == Heads(h)[k]
           n == Cardinality(Page)
           R == PagesIn(h, kind, k)
           f == CHOOSE list : IsListing(list, n, h, first)
<1>1. n \in Nat /\ R \subseteq Page
  BY PageAssumption, FS_CardinalityType, SoundFacts DEF PagesIn, IsPages
<1>2. IsListing(f, n, h, first)
  <2> HIDE DEF IsListing, n, first
  <2> QED
    BY <1>1, ListingExists
<1>3. Pages(h, first) = f[n]
  BY DEF Pages, IsListing, Longer, Start
<1>4. PICK rank : Growing(h, DOMAIN h.page, rank)
  <2>1. Ranked(DOMAIN h.page, h.page) /\ NextSound(DOMAIN h.page, h.page, kind, h.medium_last_free_page)
    BY SoundFacts DEF Linked
  <2> QED
    BY <2>1 DEF Ranked, NextSound, Growing
<1>5. first # Null => first \in R
  BY SoundFacts DEF Linked, HeadsSound, PagesIn
<1> DEFINE rank2 == [p \in R |-> rank[p]]
<1>6. Growing(h, R, rank2)
  BY <1>4, SoundFacts DEF Growing, PagesIn, Linked, NextSound
<1>7. \A p \in R : rank2[p] = rank[p]
  OBVIOUS
<1> HIDE DEF f, n, R, first, rank2
<1>8. \A i \in 0 .. n : f[i] = IF i = 0 THEN Start(first) ELSE Longer(h, f[i - 1])
  BY <1>2 DEF IsListing
<1> DEFINE Far(s, i) == s # <<>> /\ h.page[s[Len(s)]].next # Null => Len(s) = i + 1
           T == {i \in Nat : i <= n => InListing(h, R, rank2, first, f[i]) /\ Far(f[i], i)}
<1>9. 0 \in T
  <2>1. f[0] = Start(first)
    BY <1>1, <1>8
  <2>2. InListing(h, R, rank2, first, Start(first)) /\ Far(Start(first), 0)
    <3>1. CASE first = Null
      BY <3>1 DEF Start, InListing
    <3>2. CASE first # Null
      <4> DEFINE s == <<first>>
      <4>1. s \in Seq(R) /\ s # <<>> /\ s[1] = first /\ DOMAIN s = {1} /\ Len(s) = 1
        BY <3>2, <1>5
      <4>2. Start(first) = s
        BY <3>2 DEF Start
      <4> HIDE DEF s
      <4>3. InListing(h, R, rank2, first, s)
        BY <4>1, <3>2 DEF InListing
      <4> QED
        BY <4>1, <4>2, <4>3
    <3> QED
      BY <3>1, <3>2
  <2> QED
    BY <2>1, <2>2
<1>10. ASSUME NEW i \in T PROVE i + 1 \in T
  <2>1. CASE i + 1 <= n
    <3>1. i + 1 \in 0 .. n /\ i + 1 # 0 /\ (i + 1) - 1 = i /\ i <= n
      BY <2>1, <1>1
    <3>2. f[i + 1] = Longer(h, f[i])
      BY <3>1, <1>8
    <3>3. InListing(h, R, rank2, first, f[i]) /\ Far(f[i], i)
      BY <3>1
    <3> DEFINE s == f[i]
               t == f[i + 1]
    <3>4. /\ InListing(h, R, rank2, first, t)
          /\ \/ t = s /\ (s # <<>> => h.page[s[Len(s)]].next = Null)
             \/ Len(t) = Len(s) + 1
      <4>1. InListing(h, R, rank2, first, s)
        BY <3>3
      <4>2. t = Longer(h, s)
        BY <3>2
      <4> HIDE DEF s, t, T
      <4>3. /\ InListing(h, R, rank2, first, Longer(h, s))
            /\ \/ Longer(h, s) = s /\ (s # <<>> => h.page[s[Len(s)]].next = Null)
               \/ Len(Longer(h, s)) = Len(s) + 1
        BY <4>1, <1>6, LongerListing
      <4> QED
        BY <4>2, <4>3
    <3>5. Len(t) = Len(s) + 1 => s # <<>> /\ h.page[s[Len(s)]].next # Null
      <4>1. s \in Seq(R)
        BY <3>3 DEF InListing
      <4>2. s = <<>> \/ h.page[s[Len(s)]].next = Null => t = s
        BY <3>2 DEF Longer
      <4> HIDE DEF s, t
      <4>3. Len(s) \in Nat
        BY <4>1
      <4> QED
        BY <4>2, <4>3
    <3>6. Far(t, i + 1)
      BY <3>3, <3>4, <3>5
    <3> QED
      BY <3>4, <3>6
  <2>2. CASE ~(i + 1 <= n)
    BY <2>2
  <2> QED
    BY <2>1, <2>2
<1>11. InListing(h, R, rank2, first, f[n]) /\ Far(f[n], n)
  <2>1. T \in SUBSET Nat
    OBVIOUS
  <2>2. Nat \subseteq T
    <3> HIDE DEF T
    <3> QED
      BY <1>9, <1>10, <2>1, InductionOverNat
  <2> QED
    BY <2>2, <1>1
<1> DEFINE s == f[n]
<1>12. s # <<>> => h.page[s[Len(s)]].next = Null
  <2> SUFFICES ASSUME s # <<>>, h.page[s[Len(s)]].next # Null PROVE FALSE
    OBVIOUS
  <2>1. s \in Seq(R) /\ Len(s) = n + 1
    BY <1>11 DEF InListing
  <2>2. s \in [1 .. n + 1 -> Page]
    BY <2>1, <1>1
  <2>3. IsFiniteSet(1 .. n + 1) /\ Cardinality(1 .. n + 1) = n + 1
    <3>1. 1 \in Int /\ n + 1 \in Int /\ ~(1 > n + 1) /\ ((n + 1) - 1) + 1 = n + 1
      BY <1>1
    <3> HIDE DEF n
    <3> QED
      BY <3>1, FS_Interval
  <2>4. IsFiniteSet(Page) /\ Cardinality(Page) < Cardinality(1 .. n + 1)
    BY <2>3, <1>1, PageAssumption DEF n
  <2> HIDE DEF s
  <2>5. PICK i \in 1 .. n + 1, j \in 1 .. n + 1 : i # j /\ s[i] = s[j]
    BY <2>2, <2>3, <2>4, FS_PigeonHole
  <2>6. rank2[s[i]] = rank2[s[j]] /\ rank2[s[i]] \in Nat
    BY <2>1, <2>5, <1>1, <1>6 DEF Growing
  <2>7. ~(i < j) /\ ~(j < i)
    <3>1. InListing(h, R, rank2, first, s) /\ i \in DOMAIN s /\ j \in DOMAIN s
      BY <2>2, <1>11 DEF s
    <3> QED
      BY <3>1, <2>6 DEF InListing
  <2> QED
    BY <2>5, <2>7
<1>13. InListing(h, R, rank, first, s)
  BY <1>7, <1>11 DEF InListing
<1> HIDE DEF s
<1>14. Listing(h, kind, k, s)
  BY <1>4, <1>12, <1>13, ListingWhole DEF R, first
<1> QED
  BY <1>3, <1>14 DEF first, s

-----------------------------------------------------------------------------
(* New pages and the pages of large blocks.                                 *)

\* Malloc gives a page that is not in use.
LEMMA NewPageIs ==
    ASSUME NEW h, DOMAIN h.page \subseteq Page, load \in Loads, HasPage(h)
    PROVE  NewPage(h) \in Page /\ NewPage(h) \notin DOMAIN h.page
<1>1. DOMAIN h.page # Page
  <2>1. Cardinality(Page) \in Nat /\ load.pages \in Nat /\ load.pages <= Cardinality(Page)
    BY PageAssumption, FS_CardinalityType
  <2>2. ASSUME DOMAIN h.page = Page PROVE FALSE
    BY <2>1, <2>2 DEF HasPage
  <2> QED
    BY <2>2
<1>2. \E p \in Page : p \notin DOMAIN h.page
  BY <1>1
<1> QED
  BY <1>2 DEF NewPage

\* A new page that is in no list yet.
LEMMA PageAdded ==
    ASSUME NEW h, NEW kind, PagesSound(h, kind, Null), NEW p \in Page, p \notin DOMAIN h.page,
           NEW bytes \in Nat, NEW k \in {"small", "large"}, k = "small" => bytes = PageSize
    PROVE  LET a == AllocatePage(h, p, bytes)
           IN  /\ Same(h, a, {"page", "page_allocated", "actual_mem_used"})
               /\ DOMAIN a.page = DOMAIN h.page \cup {p}
               /\ a.page[p] = NewRec(bytes)
               /\ \A q \in DOMAIN h.page : a.page[q] = h.page[q]
               /\ Unlisted(a, Added(kind, p, k), p)
               /\ Added(kind, p, k)[p] = k
               /\ \A q \in DOMAIN h.page : Added(kind, p, k)[q] = kind[q]
<1> DEFINE a == AllocatePage(h, p, bytes)
           kind2 == Added(kind, p, k)
           M == MediumPages(kind)
           en == h.entry
<1>1. /\ EntriesSound(h, M) /\ IsHeap(h) /\ IsPages(h.page) /\ IsEntries(en)
      /\ Null \notin DOMAIN h.page /\ DOMAIN kind = DOMAIN h.page
      /\ \A q \in DOMAIN h.page : kind[q] \in Kinds
      /\ Linked(DOMAIN h.page, h.page, kind, Heads(h), h.medium_last_free_page)
  BY SoundFacts
<1>2. /\ Same(h, a, {"page", "page_allocated", "actual_mem_used"})
      /\ DOMAIN a.page = DOMAIN h.page \cup {p}
      /\ IsPages(a.page)
      /\ a.page[p] = NewRec(bytes)
      /\ \A q \in DOMAIN h.page : a.page[q] = h.page[q]
      /\ a.page_allocated = h.page_allocated + 1
      /\ a.actual_mem_used = h.actual_mem_used + bytes + PageHeader
  BY <1>1, AllocatePageIs
<1> HIDE DEF a
<1>3. /\ IsHeap(a) /\ a.entry = en /\ a.medium_last_free_page = h.medium_last_free_page
      /\ Heads(a) = Heads(h)
  BY <1>2 DEF Same, Fields, Heads
<1>4. /\ kind2[p] = k /\ DOMAIN kind2 = DOMAIN h.page \cup {p}
      /\ \A q \in DOMAIN h.page : kind2[q] = kind[q]
      /\ kind2 \in [DOMAIN h.page \cup {p} -> Kinds]
  BY <1>1 DEF Added, With, Kinds, ListKinds
<1> HIDE DEF kind2
<1>5. MediumPages(kind2) = M
  BY <1>1, <1>4 DEF MediumPages
<1>6. EntriesSound(a, M)
  <2>1. a.page[p].first_free = Null
    BY <1>2 DEF NewRec
  <2>2. FreeLinked(FreeSet(en), en, a.page)
    <3>1. \A e \in FreeSet(en) : e[1] \in DOMAIN h.page
      BY <1>1 DEF EntriesSound, Tiled, OnPages, FreeSet
    <3>2. FreeLinked(FreeSet(en), en, h.page)
      BY <1>1, SoundParts
    <3>3. FirstFree(FreeSet(en), en, a.page)
      BY <3>1, <3>2, <2>1, <1>2 DEF FreeLinked, FirstFree
    <3> QED
      BY <3>2, <3>3 DEF FreeLinked
  <2> QED
    BY <2>2, <1>1, <1>2, <1>3 DEF EntriesSound
<1>7. \A q \in DOMAIN kind2 : kind2[q] # "large" => a.page[q].data_size = PageSize
  <2>1. k # "large" => a.page[p].data_size = PageSize
    BY <1>2 DEF NewRec
  <2> QED
    BY <2>1, <1>1, <1>2, <1>4 DEF PagesSound
<1>8. Linked(DOMAIN a.page \ {p}, a.page, kind2, Heads(a), a.medium_last_free_page)
  <2> DEFINE S == DOMAIN h.page
             pg == h.page
             pg2 == a.page
             heads == Heads(h)
             last0 == h.medium_last_free_page
  <2>1. Linked(S, pg, kind, heads, last0)
    BY <1>1
  <2>2. \A q \in S : pg2[q].next = pg[q].next /\ pg2[q].prev = pg[q].prev /\ kind2[q] = kind[q]
    BY <1>2, <1>4
  <2> HIDE DEF S, pg, pg2, heads, last0
  <2>3. Linked(S, pg2, kind2, heads, last0)
    BY <2>1, <2>2, LinkedAgree
  <2>4. DOMAIN a.page \ {p} = S
    BY <1>2 DEF S
  <2> QED
    BY <2>3, <2>4, <1>3 DEF pg2, heads, last0
<1>9. RoomKnown(a, kind2, p)
  <2> SUFFICES ASSUME NEW q \in DOMAIN kind2 \ {p}
               PROVE  /\ kind2[q] = "roomy" => Known(a, q)
                      /\ kind2[q] = "full" => a.page[q].largest_free = 0
    BY DEF RoomKnown
  <2>1. q \in DOMAIN kind \ {Null} /\ kind2[q] = kind[q] /\ a.page[q] = h.page[q]
    BY <1>1, <1>2, <1>4
  <2> QED
    BY <2>1, <1>3 DEF PagesSound, RoomKnown, Known
<1>10. Unlisted(a, kind2, p)
  <2>1. Spaced(a.entry, Null)
    BY <1>3 DEF PagesSound
  <2>2. Booked(h)
    BY DEF PagesSound
  <2>3. DOMAIN h.page \subseteq Page /\ \A q \in DOMAIN a.page : a.page[q].data_size \in Nat
    BY <1>1, <1>2 DEF IsPages, PageRec
  <2>4. a.page[p].data_size = bytes
    BY <1>2 DEF NewRec
  <2>5. Booked(a)
    BY <2>2, <2>3, <2>4, <1>2, BookedMore
  <2> QED
    BY <2>1, <2>5, <1>2, <1>4, <1>5, <1>6, <1>7, <1>8, <1>9 DEF Unlisted
<1> QED
  BY <1>2, <1>4, <1>10 DEF kind2, a

\* A page of small blocks needs no list of its own.
LEMMA SmallPageListed ==
    ASSUME NEW h, NEW kind, NEW p, Unlisted(h, kind, p), kind[p] = "small",
           h.page[p].next = Null, h.page[p].prev = Null
    PROVE  PagesSound(h, kind, Null)
<1> DEFINE S == DOMAIN h.page \ {p}
<1>1. Linked(S, h.page, kind, Heads(h), h.medium_last_free_page) /\ S \cup {p} = DOMAIN h.page
      /\ DOMAIN kind = DOMAIN h.page
  BY DEF Unlisted
<1> HIDE DEF S
<1>2. Linked(S \cup {p}, h.page, kind, Heads(h), h.medium_last_free_page)
  <2>1. kind[p] \notin ListKinds /\ kind[p] # "roomy"
    BY DEF ListKinds
  <2>2. NextSound(S \cup {p}, h.page, kind, h.medium_last_free_page)
    BY <1>1, <2>1 DEF Linked, NextSound
  <2>3. PrevSound(S \cup {p}, h.page, kind, Heads(h))
    BY <1>1, <2>1 DEF Linked, PrevSound
  <2>4. HeadsSound(S \cup {p}, h.page, kind, Heads(h))
    BY <1>1 DEF Linked, HeadsSound
  <2>5. LastSound(S \cup {p}, h.page, kind, Heads(h), h.medium_last_free_page)
    BY <1>1 DEF Linked, LastSound
  <2>6. Ranked(S \cup {p}, h.page)
    <3>1. PICK n \in Nat, rank \in [S -> Nat] :
             \A q \in S : rank[q] <= n /\ (h.page[q].next # Null => rank[q] < rank[h.page[q].next])
      BY <1>1 DEF Linked, Ranked
    <3> DEFINE rank2 == [q \in S \cup {p} |-> IF q \in S THEN rank[q] ELSE 0]
    <3>2. rank2 \in [S \cup {p} -> Nat] /\ \A q \in S \cup {p} : rank2[q] <= n
      BY <3>1
    <3>3. \A q \in S : h.page[q].next # Null => h.page[q].next \in S
      BY <1>1 DEF Linked, NextSound
    <3>4. \A q \in S \cup {p} : h.page[q].next # Null => rank2[q] < rank2[h.page[q].next]
      BY <3>1, <3>3
    <3> HIDE DEF rank2
    <3> QED
      BY <3>1, <3>2, <3>4 DEF Ranked
  <2> QED
    BY <2>2, <2>3, <2>4, <2>5, <2>6 DEF Linked
<1>3. RoomKnown(h, kind, Null)
  BY DEF Unlisted, RoomKnown
<1> QED
  BY <1>1, <1>2, <1>3 DEF Unlisted, PagesSound

\* The page of a large block comes to the front of its list.
LEMMA LargePageListed ==
    ASSUME NEW h, NEW kind, NEW p, Unlisted(h, kind, p), kind[p] = "large"
    PROVE  LET g == [PushPage(h, p, h.large_first_used_page) EXCEPT !.large_first_used_page = p]
           IN  /\ PagesSound(g, kind, Null) /\ Same(h, g, ListFields)
               /\ Relinked(h.page, g.page)
<1> DEFINE first == h.large_first_used_page
           g0 == PushPage(h, p, first)
           g == [g0 EXCEPT !.large_first_used_page = p]
<1>1. /\ p \in DOMAIN h.page /\ kind \in [DOMAIN h.page -> Kinds]
      /\ EntriesSound(h, MediumPages(kind)) /\ Spaced(h.entry, Null)
      /\ \A q \in DOMAIN kind : kind[q] # "large" => h.page[q].data_size = PageSize
      /\ Linked(DOMAIN h.page \ {p}, h.page, kind, Heads(h), h.medium_last_free_page)
      /\ RoomKnown(h, kind, p) /\ Booked(h)
  BY DEF Unlisted
<1>2. IsHeap(h) /\ IsPages(h.page)
  BY <1>1, SoundParts
<1>3. first # p /\ first \in PageOrNull
  <2>1. "large" \in ListKinds /\ Heads(h)["large"] = first
    BY HeadsAre DEF ListKinds
  <2> HIDE DEF first
  <2>2. first # Null => first \in DOMAIN h.page \ {p}
    BY <2>1, <1>1 DEF Linked, HeadsSound
  <2>3. p # Null
    BY <1>1, <1>2, PagesAreMap
  <2> QED
    BY <2>2, <2>3, <1>2 DEF IsPages, PageOrNull
<1>4. Same(h, g0, {"page"})
  BY <1>1, <1>2, <1>3, PushPageIs
<1>5. g0 = PushPage(h, p, Heads(h)["large"])
  BY HeadsAre
<1> HIDE DEF g0
<1>6. Same(g0, g, {"large_first_used_page"}) /\ g.large_first_used_page = p
  BY <1>4 DEF IsHeap, Fields, Same
<1> HIDE DEF g
<1>7. /\ g.page = g0.page /\ g.medium_last_free_page = h.medium_last_free_page
      /\ g.medium_first_free_page = h.medium_first_free_page
      /\ g.medium_first_used_page = h.medium_first_used_page
      /\ Same(g0, g, ListFields)
  BY <1>4, <1>6 DEF Same, Fields, ListFields
<1>8. PutInFront(h, kind, p, "large", g, kind)
  <2>1. "large" \in ListKinds /\ "large" # "roomy"
    BY DEF ListKinds
  <2>2. Heads(g)["large"] = p /\ \A j \in ListKinds \ {"large"} : Heads(g)[j] = Heads(h)[j]
    BY <1>6, <1>7, HeadsAre DEF ListKinds
  <2>3. /\ Same(PushPage(h, p, Heads(h)["large"]), g, ListFields)
        /\ g.page = PushPage(h, p, Heads(h)["large"]).page
    BY <1>5, <1>7
  <2> QED
    BY <2>1, <2>2, <2>3, <1>7 DEF PutInFront
<1>9. /\ Same(h, g, ListFields) /\ Relinked(h.page, g.page)
      /\ Linked(DOMAIN h.page, g.page, kind, Heads(g), g.medium_last_free_page)
  BY <1>1, <1>2, <1>8, PushedInto
<1>10. /\ EntriesSound(g, MediumPages(kind)) /\ g.entry = h.entry
       /\ \A q \in DOMAIN h.page : Known(h, q) => Known(g, q)
  BY <1>1, <1>9, RelinkedSound
<1>11. RoomKnown(g, kind, Null)
  <2> SUFFICES ASSUME NEW q \in DOMAIN kind
               PROVE  /\ kind[q] = "roomy" => Known(g, q)
                      /\ kind[q] = "full" => g.page[q].largest_free = 0
    BY DEF RoomKnown
  <2>1. CASE q = p
    BY <2>1
  <2>2. CASE q # p
    BY <2>2, <1>1, <1>9, <1>10 DEF RoomKnown, Relinked
  <2> QED
    BY <2>1, <2>2
<1>12. \A q \in DOMAIN kind : kind[q] # "large" => g.page[q].data_size = PageSize
  BY <1>1, <1>9 DEF Relinked
<1>13. DOMAIN g.page = DOMAIN h.page
  BY <1>9 DEF Relinked
<1>14. PagesSound(g, kind, Null)
  <2>1. Booked(g)
    BY <1>1, <1>9, RelinkedBooks
  <2> QED
    BY <2>1, <1>1, <1>9, <1>10, <1>11, <1>12, <1>13 DEF PagesSound
<1> QED
  BY <1>9, <1>14 DEF g, g0

\* The page of a large block leaves its list.
LEMMA LargePageUnlisted ==
    ASSUME NEW h, NEW kind, PagesSound(h, kind, Null), NEW p \in DOMAIN h.page, kind[p] = "large"
    PROVE  LET g == [UnlinkPage(h, p) EXCEPT
                        !.large_first_used_page = IF p = @ THEN h.page[p].next ELSE @]
           IN  /\ Unlisted(g, kind, p) /\ Same(h, g, ListFields)
               /\ Relinked(h.page, g.page)
<1> DEFINE h1 == UnlinkPage(h, p)
           r == h.page[p]
           g == [h1 EXCEPT !.large_first_used_page = IF p = @ THEN h.page[p].next ELSE @]
<1>1. /\ EntriesSound(h, MediumPages(kind)) /\ IsHeap(h) /\ IsPages(h.page)
      /\ DOMAIN kind = DOMAIN h.page /\ Null \notin DOMAIN h.page
      /\ Linked(DOMAIN h.page, h.page, kind, Heads(h), h.medium_last_free_page)
  BY SoundFacts
<1>2. /\ Same(h, h1, {"page"})
      /\ Relinked(h.page, h1.page)
      /\ \A q \in DOMAIN h.page :
            /\ h1.page[q].next = IF q = r.prev THEN r.next ELSE h.page[q].next
            /\ h1.page[q].prev = IF q = r.next THEN r.prev ELSE h.page[q].prev
  BY <1>1, UnlinkPageIs
<1> HIDE DEF h1
<1>3. h1.large_first_used_page = h.large_first_used_page /\ IsHeap(h1)
  BY <1>2 DEF Same, Fields
<1>4. /\ Same(h1, g, {"large_first_used_page"})
      /\ g.large_first_used_page = IF p = h.large_first_used_page THEN h.page[p].next
                                   ELSE h.large_first_used_page
  BY <1>3 DEF IsHeap, Fields, Same
<1> HIDE DEF g
<1>5. /\ Same(h, g, ListFields) /\ g.page = h1.page
      /\ g.medium_first_free_page = h.medium_first_free_page
      /\ g.medium_first_used_page = h.medium_first_used_page
      /\ g.medium_last_free_page = h.medium_last_free_page
  BY <1>2, <1>4 DEF Same, Fields, ListFields
<1>6. \A k \in ListKinds : Heads(g)[k] = IF Heads(h)[k] = p THEN h.page[p].next ELSE Heads(h)[k]
  <2>1. \A k \in ListKinds : Heads(h)[k] = p => k = "large"
    BY <1>1 DEF Linked, HeadsSound
  <2>2. "full" \in ListKinds /\ "roomy" \in ListKinds
    BY DEF ListKinds
  <2> QED
    BY <2>1, <2>2, <1>4, <1>5, HeadsAre DEF ListKinds
<1>7. Linked(DOMAIN h.page \ {p}, h1.page, kind, Heads(g), g.medium_last_free_page)
  <2> DEFINE S == DOMAIN h.page
             pg == h.page
             pg2 == h1.page
             heads == Heads(h)
             heads2 == Heads(g)
             last == h.medium_last_free_page
             last2 == g.medium_last_free_page
  <2>1. Null \notin S /\ Linked(S, pg, kind, heads, last) /\ p \in S
    BY <1>1
  <2>2. \A q \in S : /\ pg2[q].next = IF q = pg[p].prev THEN pg[p].next ELSE pg[q].next
                     /\ pg2[q].prev = IF q = pg[p].next THEN pg[p].prev ELSE pg[q].prev
    BY <1>2
  <2>3. \A k \in ListKinds : heads2[k] = IF heads[k] = p THEN pg[p].next ELSE heads[k]
    BY <1>6
  <2>4. (last = p => last2 = pg[p].prev) /\ (last # p => last2 = last)
    <3>1. last # p
      BY <1>1 DEF Linked, LastSound
    <3> QED
      BY <3>1, <1>5
  <2> HIDE DEF S, pg, pg2, heads, heads2, last, last2
  <2>5. Linked(S \ {p}, pg2, kind, heads2, last2)
    BY <2>1, <2>2, <2>3, <2>4, LinkedLeave
  <2> QED
    BY <2>5 DEF S, pg2, heads2, last2
<1>8. Relinked(h.page, g.page) /\ DOMAIN g.page = DOMAIN h.page
  BY <1>2, <1>5 DEF Relinked
<1>9. /\ EntriesSound(g, MediumPages(kind)) /\ g.entry = h.entry
      /\ \A q \in DOMAIN h.page : Known(h, q) => Known(g, q)
  BY <1>1, <1>5, <1>8, RelinkedSound
<1>10. RoomKnown(g, kind, p)
  BY <1>1, <1>8, <1>9 DEF PagesSound, RoomKnown, Relinked
<1>11. \A q \in DOMAIN kind : kind[q] # "large" => g.page[q].data_size = PageSize
  BY <1>1, <1>8 DEF PagesSound, Relinked
<1>12. kind \in [DOMAIN g.page -> Kinds] /\ Spaced(g.entry, Null) /\ p \in DOMAIN g.page
  BY <1>8, <1>9 DEF PagesSound
<1>13. Unlisted(g, kind, p)
  <2>1. Booked(h)
    BY DEF PagesSound
  <2>2. Booked(g)
    BY <2>1, <1>5, <1>8, RelinkedBooks
  <2> QED
    BY <2>2, <1>5, <1>7, <1>8, <1>9, <1>10, <1>11, <1>12 DEF Unlisted
<1> QED
  BY <1>5, <1>8, <1>13 DEF g, h1

-----------------------------------------------------------------------------
(* Small blocks, and what blocks in use lie in.                             *)

\* Where the small block b ends.
BlockEnd(ix, b) == b[2] + SmallBytes(ix[b])

\* Small blocks lie on small pages, and on the current one before the offset.
BlocksPlaced(h, kind) ==
    /\ DOMAIN h.idx \subseteq Place /\ h.idx \in [DOMAIN h.idx -> Indices]
    /\ \A b \in DOMAIN h.idx :
          /\ b[1] \in DOMAIN h.page /\ kind[b[1]] = "small"
          /\ b[2] >= SmallHeader /\ b[2] % Align = 0 /\ BlockEnd(h.idx, b) <= PageSize
          /\ b[1] = h.small_cur_page => BlockEnd(h.idx, b) <= h.small_cur_page_offset

BlocksDisjoint(ix) ==
    \A b, c \in DOMAIN ix :
        b # c /\ b[1] = c[1] => \/ BlockEnd(ix, b) <= c[2] - SmallHeader
                                \/ BlockEnd(ix, c) <= b[2] - SmallHeader

CurrentSound(h, kind) ==
    /\ h.small_cur_page \in DOMAIN h.page /\ kind[h.small_cur_page] = "small"
    /\ h.small_cur_page_offset \in 0 .. PageSize
    /\ (h.small_cur_page_offset + SmallHeader) % Align = 0

\* A block waits in the list of its size, once, while nobody uses it.
WaitingSound(h) ==
    /\ h.small_first_free \in [Indices -> Seq(DOMAIN h.idx)]
    /\ \A i \in Indices : \A k \in DOMAIN h.small_first_free[i] :
          /\ h.idx[h.small_first_free[i][k]] = i
          /\ h.small_first_free[i][k] \notin DOMAIN h.mark
          /\ \A j \in DOMAIN h.small_first_free[i] :
                h.small_first_free[i][j] = h.small_first_free[i][k] => j = k

SmallPages(h, kind) == {p \in DOMAIN h.page : kind[p] = "small"}

\* The list of the other small pages holds each of them once.
SmallListed(h, kind) ==
    /\ h.small_used_pages \in Seq(SmallPages(h, kind) \ {h.small_cur_page})
    /\ \A p \in SmallPages(h, kind) \ {h.small_cur_page} :
          \E k \in DOMAIN h.small_used_pages : h.small_used_pages[k] = p
    /\ \A k, l \in DOMAIN h.small_used_pages :
          h.small_used_pages[k] = h.small_used_pages[l] => k = l

SmallSound(h, kind) ==
    /\ BlocksPlaced(h, kind) /\ BlocksDisjoint(h.idx)
    /\ CurrentSound(h, kind) /\ WaitingSound(h) /\ SmallListed(h, kind)

\* The entry of a medium block.
EntryOf(b) == <<b[1], b[2] - MediumHeader>>

\* What block b with n bytes in use lies in.
BlockHeld(h, kind, b, n) ==
    /\ b \in Place /\ n \in Nat /\ h.mark[b] \in {"small", "medium", "large"}
    /\ h.mark[b] = "small" => b \in DOMAIN h.idx /\ n <= SmallBytes(h.idx[b])
    /\ h.mark[b] = "medium" =>
          /\ EntryOf(b) \in DOMAIN h.entry /\ ~h.entry[EntryOf(b)].free_block
          /\ MediumHeader + n <= h.entry[EntryOf(b)].size
    /\ h.mark[b] = "large" =>
          /\ b[1] \in DOMAIN h.page /\ kind[b[1]] = "large" /\ b[2] = LargeHeader
          /\ h.page[b[1]].data_size = LargeHeader + n

HeldSound(h, kind, d) ==
    /\ DOMAIN d = DOMAIN h.mark
    /\ \A b \in DOMAIN d : BlockHeld(h, kind, b, d[b])

SoundAs(h, d, kind) ==
    /\ h.created = TRUE /\ PagesSound(h, kind, Null)
    /\ SmallSound(h, kind) /\ HeldSound(h, kind, d)

\* What small blocks are kept in.
SmallFields == {"idx", "mark", "small_first_free", "small_cur_page",
                "small_cur_page_offset", "small_used_pages"}

\* What small blocks are kept in is no matter of the lists of pages.
LEMMA PagesSame ==
    ASSUME NEW h, NEW kind, NEW x, PagesSound(h, kind, x), NEW g, Same(h, g, SmallFields)
    PROVE  PagesSound(g, kind, x)
<1>1. /\ IsHeap(g) /\ g.page = h.page /\ g.entry = h.entry
      /\ g.medium_first_free_page = h.medium_first_free_page
      /\ g.medium_first_used_page = h.medium_first_used_page
      /\ g.large_first_used_page = h.large_first_used_page
      /\ g.medium_last_free_page = h.medium_last_free_page
  BY DEF Same, Fields, SmallFields
<1>2. Heads(g) = Heads(h)
  BY <1>1 DEF Heads
<1>3. EntriesSound(g, MediumPages(kind))
  BY <1>1 DEF PagesSound, EntriesSound
<1>4. RoomKnown(g, kind, x)
  BY <1>1 DEF PagesSound, RoomKnown, Known
<1>5. Booked(g)
  <2>1. Booked(h)
    BY DEF PagesSound
  <2>2. BooksKept(h, g)
    BY <1>1 DEF BooksKept, Same, Fields, SmallFields
  <2> QED
    BY <2>1, <2>2, BookedStays
<1> QED
  BY <1>1, <1>2, <1>3, <1>4, <1>5 DEF PagesSound

\* Other memory is managed: small pages and small blocks stay as they are.
SmallKept(h, g, kind, kind2) ==
    /\ g.idx = h.idx /\ g.small_first_free = h.small_first_free
    /\ g.small_cur_page = h.small_cur_page
    /\ g.small_cur_page_offset = h.small_cur_page_offset
    /\ g.small_used_pages = h.small_used_pages
    /\ \A p \in DOMAIN h.page : kind[p] = "small" => p \in DOMAIN g.page /\ kind2[p] = "small"
    /\ \A p \in DOMAIN g.page : kind2[p] = "small" => p \in DOMAIN h.page /\ kind[p] = "small"
    /\ \A b \in DOMAIN g.mark : b \in DOMAIN h.mark \/ b \notin DOMAIN h.idx

\* Small blocks are sound while other memory is managed.
LEMMA SmallStays ==
    ASSUME NEW h, NEW kind, SmallSound(h, kind), NEW g, NEW kind2, SmallKept(h, g, kind, kind2)
    PROVE  SmallSound(g, kind2)
<1>1. BlocksPlaced(g, kind2) /\ BlocksDisjoint(g.idx)
  BY DEF SmallSound, SmallKept, BlocksPlaced
<1>2. CurrentSound(g, kind2)
  BY DEF SmallSound, SmallKept, CurrentSound
<1>3. WaitingSound(g)
  <2> SUFFICES ASSUME NEW i \in Indices, NEW k \in DOMAIN h.small_first_free[i]
               PROVE  h.small_first_free[i][k] \notin DOMAIN g.mark
    BY DEF SmallSound, SmallKept, WaitingSound
  <2>1. h.small_first_free[i] \in Seq(DOMAIN h.idx)
    BY DEF SmallSound, WaitingSound
  <2>2. h.small_first_free[i][k] \in DOMAIN h.idx
    BY <2>1
  <2> QED
    BY <2>2 DEF SmallSound, SmallKept, WaitingSound
<1>4. SmallListed(g, kind2)
  <2>1. SmallPages(g, kind2) = SmallPages(h, kind)
    BY DEF SmallPages, SmallKept
  <2> QED
    BY <2>1 DEF SmallSound, SmallKept, SmallListed
<1> QED
  BY <1>1, <1>2, <1>3, <1>4 DEF SmallSound

\* Blocks in use stay as they are, but those of entry x and of page y.
BlocksKept(h, g, kind, kind2, x, y) ==
    /\ \A b \in DOMAIN h.idx : b \in DOMAIN g.idx /\ g.idx[b] = h.idx[b]
    /\ UsedKept(h, g, x)
    /\ \A p \in DOMAIN h.page \ {y} :
          kind[p] = "large" => /\ p \in DOMAIN g.page /\ kind2[p] = "large"
                               /\ g.page[p].data_size = h.page[p].data_size

\* A block in use is, while what it lies in stays as it is.
LEMMA BlockStays ==
    ASSUME NEW h, NEW g, NEW kind, NEW kind2, NEW x, NEW y, BlocksKept(h, g, kind, kind2, x, y),
           NEW b, NEW n, BlockHeld(h, kind, b, n), g.mark[b] = h.mark[b],
           h.mark[b] = "medium" => EntryOf(b) # x,
           h.mark[b] = "large" => b[1] # y
    PROVE  BlockHeld(g, kind2, b, n)
  BY DEF BlockHeld, BlocksKept, UsedKept

\* Block ptr is used as well.
LEMMA HeldMore ==
    ASSUME NEW h, NEW g, NEW kind, NEW kind2, NEW d, HeldSound(h, kind, d),
           BlocksKept(h, g, kind, kind2, Null, Null), Null \notin DOMAIN h.page,
           IsEntries(h.entry), NEW ptr, NEW k, g.mark = With(h.mark, ptr, k), NEW n,
           BlockHeld(g, kind2, ptr, n)
    PROVE  HeldSound(g, kind2, With(d, ptr, n))
<1> DEFINE d2 == With(d, ptr, n)
<1>1. DOMAIN d2 = DOMAIN g.mark /\ DOMAIN d2 = DOMAIN d \cup {ptr} /\ d2[ptr] = n
      /\ DOMAIN d = DOMAIN h.mark
      /\ \A b \in DOMAIN d \ {ptr} : d2[b] = d[b] /\ g.mark[b] = h.mark[b]
  BY DEF HeldSound, With
<1> HIDE DEF d2
<1>2. ASSUME NEW b \in DOMAIN d \ {ptr} PROVE BlockHeld(g, kind2, b, d2[b])
  <2>1. BlockHeld(h, kind, b, d[b]) /\ d2[b] = d[b] /\ g.mark[b] = h.mark[b]
    BY <1>1 DEF HeldSound
  <2>2. h.mark[b] = "medium" => EntryOf(b) # Null
    BY <2>1, EntryIsPlace DEF BlockHeld
  <2>3. h.mark[b] = "large" => b[1] # Null
    BY <2>1 DEF BlockHeld
  <2> QED
    BY <2>1, <2>2, <2>3, BlockStays
<1> QED
  BY <1>1, <1>2 DEF HeldSound, d2

\* Entry x and page y are of no block in use but ptr.
OthersSpared(h, d, ptr, x, y) ==
    \A b \in DOMAIN d \ {ptr} : /\ h.mark[b] = "medium" => EntryOf(b) # x
                                /\ h.mark[b] = "large" => b[1] # y

\* Block ptr is not used any more.
LEMMA HeldLess ==
    ASSUME NEW h, NEW g, NEW kind, NEW kind2, NEW d, HeldSound(h, kind, d),
           NEW ptr, g.mark = Dropped(h.mark, ptr), NEW x, NEW y,
           BlocksKept(h, g, kind, kind2, x, y),
           OthersSpared(h, d, ptr, x, y)
    PROVE  HeldSound(g, kind2, Dropped(d, ptr))
<1> DEFINE d2 == Dropped(d, ptr)
<1>1. DOMAIN d2 = DOMAIN g.mark /\ DOMAIN d2 = DOMAIN d \ {ptr}
      /\ \A b \in DOMAIN d \ {ptr} : d2[b] = d[b] /\ g.mark[b] = h.mark[b]
  BY DEF HeldSound, Dropped, Without
<1> HIDE DEF d2
<1>2. ASSUME NEW b \in DOMAIN d \ {ptr} PROVE BlockHeld(g, kind2, b, d2[b])
  <2>1. BlockHeld(h, kind, b, d[b]) /\ d2[b] = d[b] /\ g.mark[b] = h.mark[b]
    BY <1>1 DEF HeldSound
  <2> QED
    BY <2>1, BlockStays DEF OthersSpared
<1> QED
  BY <1>1, <1>2 DEF HeldSound, d2

\* The first of a list and the others.
LEMMA HeadAndTail ==
    ASSUME NEW S, NEW s \in Seq(S), s # <<>>
    PROVE  /\ Head(s) = s[1] /\ 1 \in DOMAIN s /\ Tail(s) \in Seq(S) /\ s[1] \in S
           /\ \A k \in DOMAIN Tail(s) :
                 k + 1 \in DOMAIN s /\ Tail(s)[k] = s[k + 1] /\ k \in Nat /\ k > 0
<1>1. /\ Tail(s) \in Seq(S) /\ Len(Tail(s)) = Len(s) - 1 /\ Head(s) = s[1]
      /\ \A k \in 1 .. Len(Tail(s)) : Tail(s)[k] = s[k + 1]
  BY HeadTailProperties
<1>2. Len(s) \in Nat /\ Len(s) > 0 /\ DOMAIN s = 1 .. Len(s) /\ s[1] \in S
  BY EmptySeq
<1>3. DOMAIN Tail(s) = 1 .. Len(s) - 1
  BY <1>1
<1> QED
  BY <1>1, <1>2, <1>3

\* x in front of s.
Front(x, s) == <<x>> \o s

\* A list with one more in front.
LEMMA InFront ==
    ASSUME NEW S, NEW s \in Seq(S), NEW x \in S
    PROVE  /\ Front(x, s) \in Seq(S) /\ Front(x, s)[1] = x
           /\ \A k \in DOMAIN Front(x, s) :
                 k = 1 \/ (k \in Nat /\ k - 1 \in DOMAIN s /\ Front(x, s)[k] = s[k - 1])
<1> DEFINE one == <<x>>
           t == one \o s
<1>1. one \in Seq(S) /\ Len(one) = 1 /\ one[1] = x
  OBVIOUS
<1> HIDE DEF one
<1>2. /\ one \o s \in Seq(S) /\ Len(one \o s) = Len(one) + Len(s)
      /\ \A i \in 1 .. Len(one) + Len(s) :
            (one \o s)[i] = IF i <= Len(one) THEN one[i] ELSE s[i - Len(one)]
  BY <1>1, ConcatProperties, Zenon
<1> HIDE DEF t
<1>3. /\ t \in Seq(S) /\ Len(t) = 1 + Len(s)
      /\ \A i \in 1 .. Len(t) : t[i] = IF i <= 1 THEN one[i] ELSE s[i - 1]
  <2>1. t = one \o s
    BY DEF t
  <2> QED
    BY <2>1, <1>1, <1>2
<1>4. Len(s) \in Nat /\ DOMAIN s = 1 .. Len(s) /\ DOMAIN t = 1 .. Len(t)
  BY <1>3
<1>5. t[1] = x /\ \A k \in DOMAIN t :
                     k = 1 \/ (k \in Nat /\ k - 1 \in DOMAIN s /\ t[k] = s[k - 1])
  BY <1>1, <1>3, <1>4
<1> QED
  BY <1>3, <1>5 DEF one, t, Front

\* What s holds is behind it.
LEMMA InFrontLater ==
    ASSUME NEW S, NEW s \in Seq(S), NEW x \in S
    PROVE  /\ 1 \in DOMAIN Front(x, s)
           /\ \A k \in DOMAIN s : k + 1 \in DOMAIN Front(x, s) /\ Front(x, s)[k + 1] = s[k]
<1> DEFINE one == <<x>>
<1>1. one \in Seq(S) /\ Len(one) = 1
  OBVIOUS
<1> HIDE DEF one
<1>2. /\ one \o s \in Seq(S) /\ Len(one \o s) = Len(one) + Len(s)
      /\ \A i \in 1 .. Len(one) + Len(s) :
            (one \o s)[i] = IF i <= Len(one) THEN one[i] ELSE s[i - Len(one)]
  BY <1>1, ConcatProperties, Zenon
<1>3. Len(s) \in Nat /\ DOMAIN s = 1 .. Len(s) /\ DOMAIN (one \o s) = 1 .. 1 + Len(s)
  BY <1>1, <1>2
<1>4. \A k \in DOMAIN s : k + 1 \in 1 .. 1 + Len(s) /\ ~(k + 1 <= 1) /\ (k + 1) - 1 = k
  BY <1>3
<1>5. \A k \in DOMAIN s : (one \o s)[k + 1] = s[k]
  <2> TAKE k \in DOMAIN s
  <2>1. k + 1 \in 1 .. Len(one) + Len(s) /\ ~(k + 1 <= Len(one)) /\ (k + 1) - Len(one) = k
    BY <1>1, <1>4
  <2>2. (one \o s)[k + 1] = s[(k + 1) - Len(one)]
    BY <1>2, <2>1
  <2> QED
    BY <2>1, <2>2
<1>6. Front(x, s) = one \o s
  BY DEF Front, one
<1>7. 1 \in DOMAIN (one \o s)
  BY <1>3
<1> QED
  BY <1>3, <1>4, <1>5, <1>6, <1>7

\* The room of a small block is a number.
LEMMA SmallBytesIs ==
    ASSUME NEW i \in Indices
    PROVE  SmallBytes(i) \in Nat
<1>1. i \in Nat /\ Align \in Nat /\ Align > 1
  <2>1. (SmallSize + 1) \div Align \in Int
    BY Sizes, Divides
  <2> QED
    BY <2>1, Sizes DEF Indices
<1>2. i * Align \in Nat
  BY <1>1
<1> QED
  BY <1>1, <1>2 DEF SmallBytes, SmallHeader

\* The parts of a sound heap.
LEMMA SoundAsFacts ==
    ASSUME NEW h, NEW d, NEW kind, SoundAs(h, d, kind)
    PROVE  /\ h.created = TRUE /\ PagesSound(h, kind, Null)
           /\ SmallSound(h, kind) /\ HeldSound(h, kind, d)
           /\ IsHeap(h) /\ IsPages(h.page) /\ IsEntries(h.entry) /\ Null \notin DOMAIN h.page
           /\ DOMAIN kind = DOMAIN h.page /\ DOMAIN h.page \subseteq Page
           /\ EntriesSound(h, MediumPages(kind)) /\ Spaced(h.entry, Null)
           /\ DOMAIN d = DOMAIN h.mark
<1>1. PagesSound(h, kind, Null)
  BY DEF SoundAs
<1> QED
  BY <1>1, SoundFacts DEF SoundAs, PagesSound, IsPages, HeldSound

\* A block of a page of small blocks that is in no free list is not in use either.
LEMMA SmallNotHeld ==
    ASSUME NEW h, NEW d, NEW kind, SoundAs(h, d, kind), NEW b, b \notin DOMAIN h.idx,
           kind[b[1]] = "small"
    PROVE  b \notin DOMAIN d
<1> SUFFICES ASSUME b \in DOMAIN d PROVE FALSE
  OBVIOUS
<1>1. BlockHeld(h, kind, b, d[b])
  BY SoundAsFacts DEF HeldSound
<1>2. h.mark[b] = "medium"
  BY <1>1 DEF BlockHeld
<1>3. EntryOf(b) \in DOMAIN h.entry
  BY <1>1, <1>2 DEF BlockHeld
<1>4. EntryOf(b)[1] \in MediumPages(kind)
  BY <1>3, SoundAsFacts DEF EntriesSound, Tiled, OnPages
<1> QED
  BY <1>4 DEF EntryOf, MediumPages

\* A block is cut from the current page, which has room for it.
LEMMA SmallCutIs ==
    ASSUME NEW h, NEW d, NEW kind, SoundAs(h, d, kind), NEW n \in Nat, NEW bytes \in Nat,
           n <= bytes, bytes \div Align \in Indices, SmallBytes(bytes \div Align) = bytes,
           (bytes + SmallHeader) % Align = 0,
           h.small_cur_page_offset + bytes + SmallHeader <= PageSize
    PROVE  LET r == SmallCut(h, bytes)
           IN  /\ r.ptr # Null /\ r.ptr \notin DOMAIN d
               /\ SoundAs(r.heap, With(d, r.ptr, n), kind) /\ r.heap.entry = h.entry
<1> DEFINE off == h.small_cur_page_offset
           p == h.small_cur_page
           ptr == <<p, off + SmallHeader>>
           i == bytes \div Align
           h1 == [h EXCEPT !.idx = With(@, ptr, i), !.small_cur_page_offset = @ + bytes + SmallHeader]
           g == Mark(h1, ptr, "small")
<1>1. /\ SmallSound(h, kind) /\ HeldSound(h, kind, d) /\ IsHeap(h) /\ PagesSound(h, kind, Null)
      /\ DOMAIN kind = DOMAIN h.page /\ DOMAIN h.page \subseteq Page /\ h.created = TRUE
      /\ Null \notin DOMAIN h.page /\ IsEntries(h.entry)
  BY SoundAsFacts
<1>2. /\ p \in DOMAIN h.page /\ kind[p] = "small" /\ off \in 0 .. PageSize /\ off \in Nat
      /\ ((off + SmallHeader) % Align) = 0 /\ PageSize \in Nat
  BY <1>1, Sizes DEF SmallSound, CurrentSound
<1>3. ptr \in Place /\ ptr[1] = p /\ ptr[2] = off + SmallHeader /\ ptr # Null
  BY <1>1, <1>2, PageAssumption DEF Place, SmallHeader
<1>4. ptr \notin DOMAIN h.idx
  <2> SUFFICES ASSUME ptr \in DOMAIN h.idx PROVE FALSE
    OBVIOUS
  <2>1. BlockEnd(h.idx, ptr) <= off /\ h.idx[ptr] \in Indices
    BY <1>1, <1>3 DEF SmallSound, BlocksPlaced
  <2>2. SmallBytes(h.idx[ptr]) \in Nat
    BY <2>1, SmallBytesIs
  <2> QED
    BY <2>1, <2>2, <1>2, <1>3 DEF BlockEnd, SmallHeader
<1>5. ptr \notin DOMAIN d
  BY <1>2, <1>3, <1>4, SmallNotHeld
<1> HIDE DEF ptr, i
<1>6. /\ Same(h, h1, {"idx", "small_cur_page_offset"})
      /\ h1.idx = With(h.idx, ptr, i) /\ h1.small_cur_page_offset = off + bytes + SmallHeader
  BY <1>1 DEF IsHeap, Same, Fields
<1> HIDE DEF h1
<1>7. /\ Same(h1, g, {"mark"}) /\ g.mark = With(h1.mark, ptr, "small")
  BY <1>6 DEF IsHeap, Same, Fields, Mark
<1> HIDE DEF g
<1>8. /\ g.idx = With(h.idx, ptr, i) /\ g.small_cur_page_offset = off + bytes + SmallHeader
      /\ g.mark = With(h.mark, ptr, "small") /\ g.small_cur_page = p
      /\ g.small_first_free = h.small_first_free /\ g.created = h.created
      /\ g.page = h.page /\ g.entry = h.entry /\ Same(h, g, SmallFields)
      /\ g.small_used_pages = h.small_used_pages
  BY <1>6, <1>7 DEF Same, Fields, SmallFields
<1>9. PagesSound(g, kind, Null)
  BY <1>1, <1>8, PagesSame
<1>10. /\ DOMAIN g.idx = DOMAIN h.idx \cup {ptr} /\ g.idx[ptr] = i
       /\ \A b \in DOMAIN h.idx : g.idx[b] = h.idx[b]
  BY <1>4, <1>8 DEF With
<1>11. i \in Indices /\ SmallBytes(i) = bytes
  BY DEF i
<1>12. BlockEnd(g.idx, ptr) = off + bytes + SmallHeader
  BY <1>2, <1>3, <1>10, <1>11 DEF BlockEnd, SmallHeader
<1>13. \A b \in DOMAIN h.idx : /\ BlockEnd(g.idx, b) = BlockEnd(h.idx, b)
                               /\ b[2] \in Nat /\ BlockEnd(h.idx, b) \in Nat
  <2> TAKE b \in DOMAIN h.idx
  <2>1. b[2] \in Nat /\ h.idx[b] \in Indices
    BY <1>1 DEF SmallSound, BlocksPlaced, Place
  <2>2. SmallBytes(h.idx[b]) \in Nat
    BY <2>1, SmallBytesIs
  <2> QED
    BY <2>1, <2>2, <1>10 DEF BlockEnd
<1>14. BlocksPlaced(g, kind)
  <2>1. DOMAIN g.idx \subseteq Place /\ g.idx \in [DOMAIN g.idx -> Indices]
    <3>1. g.idx = [b \in DOMAIN g.idx |-> g.idx[b]]
      BY <1>8 DEF With
    <3>2. DOMAIN h.idx \subseteq Place /\ \A b \in DOMAIN h.idx : h.idx[b] \in Indices
      BY <1>1 DEF SmallSound, BlocksPlaced
    <3> QED
      BY <3>1, <3>2, <1>3, <1>10, <1>11
  <2>2. ASSUME NEW b \in DOMAIN h.idx
        PROVE  /\ b[1] \in DOMAIN h.page /\ kind[b[1]] = "small"
               /\ b[2] >= SmallHeader /\ b[2] % Align = 0 /\ BlockEnd(g.idx, b) <= PageSize
               /\ b[1] = p => BlockEnd(g.idx, b) <= off + bytes + SmallHeader
    <3>1. /\ b[1] \in DOMAIN h.page /\ kind[b[1]] = "small"
          /\ b[2] >= SmallHeader /\ b[2] % Align = 0 /\ BlockEnd(h.idx, b) <= PageSize
          /\ b[1] = p => BlockEnd(h.idx, b) <= off
      BY <1>1 DEF SmallSound, BlocksPlaced
    <3> QED
      BY <3>1, <1>2, <1>13 DEF SmallHeader
  <2>3. /\ ptr[1] \in DOMAIN h.page /\ kind[ptr[1]] = "small"
        /\ ptr[2] >= SmallHeader /\ ptr[2] % Align = 0 /\ BlockEnd(g.idx, ptr) <= PageSize
        /\ BlockEnd(g.idx, ptr) <= off + bytes + SmallHeader
    BY <1>2, <1>3, <1>12 DEF SmallHeader
  <2> QED
    BY <2>1, <2>2, <2>3, <1>8, <1>10 DEF BlocksPlaced
<1>15. BlocksDisjoint(g.idx)
  <2> SUFFICES ASSUME NEW b \in DOMAIN g.idx, NEW c \in DOMAIN g.idx, b # c, b[1] = c[1]
               PROVE  \/ BlockEnd(g.idx, b) <= c[2] - SmallHeader
                      \/ BlockEnd(g.idx, c) <= b[2] - SmallHeader
    BY DEF BlocksDisjoint
  <2>1. \A x \in DOMAIN h.idx : x[1] = p => BlockEnd(h.idx, x) <= off
    BY <1>1 DEF SmallSound, BlocksPlaced
  <2>2. CASE b = ptr
    BY <2>1, <2>2, <1>2, <1>3, <1>10, <1>13 DEF SmallHeader
  <2>3. CASE c = ptr
    BY <2>1, <2>3, <1>2, <1>3, <1>10, <1>13 DEF SmallHeader
  <2>4. CASE b # ptr /\ c # ptr
    BY <2>4, <1>1, <1>10, <1>13 DEF SmallSound, BlocksDisjoint
  <2> QED
    BY <2>2, <2>3, <2>4
<1>16. CurrentSound(g, kind)
  <2>1. off + bytes + SmallHeader \in 0 .. PageSize
    BY <1>2 DEF SmallHeader
  <2>2. ((off + SmallHeader) + (bytes + SmallHeader)) % Align = 0
    <3>1. off + SmallHeader \in Int /\ bytes + SmallHeader \in Int
      BY <1>2 DEF SmallHeader
    <3> QED
      BY <3>1, <1>2, Multiples
  <2>3. (off + bytes + SmallHeader) + SmallHeader = (off + SmallHeader) + (bytes + SmallHeader)
    BY <1>2 DEF SmallHeader
  <2> QED
    BY <2>1, <2>2, <2>3, <1>2, <1>8 DEF CurrentSound
<1>17. WaitingSound(g)
  <2>1. WaitingSound(h)
    BY <1>1 DEF SmallSound
  <2>2. g.small_first_free \in [Indices -> Seq(DOMAIN g.idx)]
    BY <2>1, <1>8, <1>10 DEF WaitingSound
  <2> SUFFICES ASSUME NEW j \in Indices, NEW k \in DOMAIN h.small_first_free[j]
               PROVE  /\ g.idx[h.small_first_free[j][k]] = j
                      /\ h.small_first_free[j][k] \notin DOMAIN g.mark
    BY <2>1, <2>2, <1>8 DEF WaitingSound
  <2>3. h.small_first_free[j] \in Seq(DOMAIN h.idx)
    BY <2>1 DEF WaitingSound
  <2>4. h.small_first_free[j][k] \in DOMAIN h.idx
    BY <2>3
  <2>5. DOMAIN g.mark = DOMAIN h.mark \cup {ptr}
    BY <1>8 DEF With
  <2> QED
    BY <2>1, <2>4, <2>5, <1>4, <1>10 DEF WaitingSound
<1>18. HeldSound(g, kind, With(d, ptr, n))
  <2>1. BlocksKept(h, g, kind, kind, Null, Null)
    BY <1>8, <1>10 DEF BlocksKept, UsedKept
  <2>2. g.mark[ptr] = "small"
    BY <1>8 DEF With
  <2>3. BlockHeld(g, kind, ptr, n)
    BY <2>2, <1>3, <1>10, <1>11 DEF BlockHeld
  <2> QED
    BY <2>1, <2>3, <1>1, <1>8, HeldMore
<1>19. SmallListed(g, kind)
  BY <1>1, <1>8 DEF SmallSound, SmallListed, SmallPages
<1>20. SoundAs(g, With(d, ptr, n), kind)
  BY <1>1, <1>8, <1>9, <1>14, <1>15, <1>16, <1>17, <1>18, <1>19 DEF SoundAs, SmallSound
<1>21. SmallCut(h, bytes).ptr = ptr /\ SmallCut(h, bytes).heap = g
  BY DEF SmallCut, ptr, g, h1, i
<1> QED
  BY <1>3, <1>5, <1>8, <1>20, <1>21

\* A page for small blocks.
LEMMA SmallNewPageIs ==
    ASSUME NEW h, NEW d, NEW kind, SoundAs(h, d, kind), load \in Loads, HasPage(h)
    PROVE  LET g == SmallNewPage(h)
           IN  /\ \E kind2 : SoundAs(g, d, kind2) /\ g.small_cur_page_offset = SmallAlign(0)
               /\ g.entry = h.entry
<1> DEFINE p == NewPage(h)
           a == AllocatePage(h, p, PageSize)
           kind2 == Added(kind, p, "small")
           off == SmallAlign(0)
           s == h.small_used_pages
           s2 == Front(h.small_cur_page, s)
           g == [a EXCEPT !.small_used_pages = <<h.small_cur_page>> \o @,
                          !.small_cur_page = p, !.small_cur_page_offset = off]
<1>1. /\ SmallSound(h, kind) /\ HeldSound(h, kind, d) /\ IsHeap(h) /\ PagesSound(h, kind, Null)
      /\ DOMAIN kind = DOMAIN h.page /\ DOMAIN h.page \subseteq Page /\ h.created = TRUE
      /\ DOMAIN d = DOMAIN h.mark
  BY SoundAsFacts
<1>2. p \in Page /\ p \notin DOMAIN h.page
  BY <1>1, NewPageIs
<1> HIDE DEF p
<1>3. /\ Same(h, a, {"page", "page_allocated", "actual_mem_used"})
      /\ DOMAIN a.page = DOMAIN h.page \cup {p}
      /\ a.page[p] = NewRec(PageSize)
      /\ \A q \in DOMAIN h.page : a.page[q] = h.page[q]
      /\ Unlisted(a, kind2, p)
      /\ kind2[p] = "small"
      /\ \A q \in DOMAIN h.page : kind2[q] = kind[q]
  BY <1>1, <1>2, Sizes, PageAdded
<1> HIDE DEF a, kind2
<1>4. PagesSound(a, kind2, Null)
  BY <1>3, SmallPageListed DEF NewRec
<1>5. off \in 0 .. PageSize /\ ((off + SmallHeader) % Align) = 0
  BY FirstOffset
<1> HIDE DEF off
<1>6. /\ Same(a, g, {"small_used_pages", "small_cur_page", "small_cur_page_offset"})
      /\ g.small_cur_page = p /\ g.small_cur_page_offset = off /\ g.small_used_pages = s2
  BY <1>3 DEF IsHeap, Same, Fields, Front
<1> HIDE DEF g
<1>7. /\ g.idx = h.idx /\ g.mark = h.mark /\ g.small_first_free = h.small_first_free
      /\ g.created = h.created /\ g.page = a.page /\ g.entry = h.entry
      /\ Same(a, g, SmallFields)
  BY <1>3, <1>6 DEF Same, Fields, SmallFields
<1>8. PagesSound(g, kind2, Null)
  BY <1>4, <1>7, PagesSame
<1>9. SmallSound(g, kind2)
  <2>1. BlocksPlaced(g, kind2)
    <3>1. \A b \in DOMAIN h.idx : b[1] \in DOMAIN h.page
      BY <1>1 DEF SmallSound, BlocksPlaced
    <3>2. \A b \in DOMAIN h.idx : b[1] # p
      BY <3>1, <1>2
    <3> QED
      BY <3>1, <3>2, <1>1, <1>3, <1>6, <1>7 DEF SmallSound, BlocksPlaced
  <2>2. CurrentSound(g, kind2)
    BY <1>3, <1>5, <1>6, <1>7 DEF CurrentSound
  <2>3. WaitingSound(g) /\ BlocksDisjoint(g.idx)
    BY <1>1, <1>7 DEF SmallSound, WaitingSound
  <2>4. SmallListed(g, kind2)
    <3> DEFINE c == h.small_cur_page
               S == SmallPages(h, kind) \ {c}
               T == SmallPages(g, kind2) \ {p}
    <3>1. c \in SmallPages(h, kind) /\ SmallListed(h, kind)
      BY <1>1 DEF SmallSound, CurrentSound, SmallPages
    <3>2. T = SmallPages(h, kind)
      BY <1>2, <1>3, <1>7 DEF SmallPages
    <3>3. /\ s \in Seq(S) /\ S \subseteq T /\ c \in T /\ c \notin S
          /\ \A q \in S : \E k \in DOMAIN s : s[k] = q
          /\ \A k, l \in DOMAIN s : s[k] = s[l] => k = l
      BY <3>1, <3>2 DEF SmallListed
    <3>4. s \in Seq(T) /\ \A k \in DOMAIN s : s[k] \in S
      BY <3>3
    <3>10. g.small_used_pages = s2 /\ s2 = Front(c, s) /\ T = S \cup {c}
           /\ T = SmallPages(g, kind2) \ {g.small_cur_page}
      BY <1>6, <3>1, <3>2
    <3> HIDE DEF s, c, S, T, s2
    <3>5. /\ s2 \in Seq(T) /\ s2[1] = c
          /\ \A k \in DOMAIN s2 : k = 1 \/ (k \in Nat /\ k - 1 \in DOMAIN s /\ s2[k] = s[k - 1])
      BY <3>3, <3>4, <3>10, InFront
    <3>6. 1 \in DOMAIN s2 /\ \A k \in DOMAIN s : k + 1 \in DOMAIN s2 /\ s2[k + 1] = s[k]
      BY <3>3, <3>4, <3>10, InFrontLater
    <3>7. ASSUME NEW q \in T PROVE \E k \in DOMAIN s2 : s2[k] = q
      BY <3>3, <3>5, <3>6, <3>10
    <3>8. ASSUME NEW k \in DOMAIN s2, NEW l \in DOMAIN s2, s2[k] = s2[l] PROVE k = l
      <4>1. CASE k = 1 \/ l = 1
        BY <4>1, <3>3, <3>4, <3>5, <3>8
      <4>2. CASE k # 1 /\ l # 1
        <5>1. /\ k \in Nat /\ k - 1 \in DOMAIN s /\ s2[k] = s[k - 1]
              /\ l \in Nat /\ l - 1 \in DOMAIN s /\ s2[l] = s[l - 1]
          BY <4>2, <3>5
        <5>2. k - 1 = l - 1
          BY <5>1, <3>3, <3>8
        <5> QED
          BY <5>1, <5>2
      <4> QED
        BY <4>1, <4>2
    <3> QED
      BY <3>5, <3>7, <3>8, <3>10 DEF SmallListed
  <2> QED
    BY <2>1, <2>2, <2>3, <2>4 DEF SmallSound
<1>10. HeldSound(g, kind2, d)
  <2>1. BlocksKept(h, g, kind, kind2, Null, Null)
    BY <1>3, <1>7 DEF BlocksKept, UsedKept
  <2>2. Null \notin DOMAIN h.entry /\ Null \notin DOMAIN h.page
    BY SoundAsFacts, EntryIsPlace
  <2>3. ASSUME NEW b \in DOMAIN d PROVE BlockHeld(g, kind2, b, d[b])
    <3>1. BlockHeld(h, kind, b, d[b]) /\ g.mark[b] = h.mark[b]
      BY <1>1, <1>7 DEF HeldSound
    <3>2. h.mark[b] = "medium" => EntryOf(b) # Null
      BY <3>1, <2>2 DEF BlockHeld
    <3>3. h.mark[b] = "large" => b[1] # Null
      BY <3>1, <2>2 DEF BlockHeld
    <3> QED
      BY <3>1, <3>2, <3>3, <2>1, BlockStays
  <2> QED
    BY <2>3, <1>1, <1>7 DEF HeldSound
<1>11. SoundAs(g, d, kind2)
  BY <1>1, <1>7, <1>8, <1>9, <1>10 DEF SoundAs
<1>12. g = SmallNewPage(h)
  BY DEF SmallNewPage, g, a, p, off
<1> QED
  BY <1>6, <1>7, <1>11, <1>12 DEF off

\* A block of the size that waits is used again.
LEMMA SmallTakenIs ==
    ASSUME NEW h, NEW d, NEW kind, SoundAs(h, d, kind), NEW n \in Nat, NEW i \in Indices,
           n <= SmallBytes(i), h.small_first_free[i] # <<>>
    PROVE  LET ptr == Head(h.small_first_free[i])
               g == Mark([h EXCEPT !.small_first_free[i] = Tail(@)], ptr, "small")
           IN  /\ ptr # Null /\ ptr \notin DOMAIN d /\ SoundAs(g, With(d, ptr, n), kind)
               /\ g.entry = h.entry
<1> DEFINE s == h.small_first_free[i]
           ptr == Head(s)
           h1 == [h EXCEPT !.small_first_free[i] = Tail(@)]
           g == Mark(h1, ptr, "small")
<1>1. /\ SmallSound(h, kind) /\ HeldSound(h, kind, d) /\ IsHeap(h) /\ PagesSound(h, kind, Null)
      /\ Null \notin DOMAIN h.page /\ IsEntries(h.entry) /\ h.created = TRUE
      /\ DOMAIN d = DOMAIN h.mark
  BY SoundAsFacts
<1>2. /\ s \in Seq(DOMAIN h.idx) /\ s # <<>>
      /\ h.small_first_free \in [Indices -> Seq(DOMAIN h.idx)]
      /\ \A j \in Indices : \A k \in DOMAIN h.small_first_free[j] :
            /\ h.idx[h.small_first_free[j][k]] = j
            /\ h.small_first_free[j][k] \notin DOMAIN h.mark
      /\ \A k \in DOMAIN s, l \in DOMAIN s : s[k] = s[l] => k = l
  BY <1>1 DEF SmallSound, WaitingSound
<1>3. /\ ptr = s[1] /\ 1 \in DOMAIN s /\ Tail(s) \in Seq(DOMAIN h.idx)
      /\ \A k \in DOMAIN Tail(s) : k + 1 \in DOMAIN s /\ Tail(s)[k] = s[k + 1] /\ k \in Nat /\ k > 0
  <2> HIDE DEF s
  <2> QED
    BY <1>2, HeadAndTail DEF ptr
<1>4. /\ ptr \in DOMAIN h.idx /\ ptr \notin DOMAIN h.mark /\ h.idx[ptr] = i
  BY <1>2, <1>3
<1> HIDE DEF ptr
<1>5. ptr \in Place /\ ptr # Null
  BY <1>1, <1>4, PageAssumption DEF SmallSound, BlocksPlaced, Place
<1>6. /\ Same(h, h1, {"small_first_free"})
      /\ h1.small_first_free = [h.small_first_free EXCEPT ![i] = Tail(s)]
  BY <1>1 DEF IsHeap, Same, Fields
<1> HIDE DEF h1
<1>7. /\ Same(h1, g, {"mark"}) /\ g.mark = With(h1.mark, ptr, "small")
  BY <1>6 DEF IsHeap, Same, Fields, Mark
<1> HIDE DEF g
<1>8. /\ g.idx = h.idx /\ g.small_cur_page_offset = h.small_cur_page_offset
      /\ g.mark = With(h.mark, ptr, "small") /\ g.small_cur_page = h.small_cur_page
      /\ g.small_first_free = [h.small_first_free EXCEPT ![i] = Tail(s)]
      /\ g.created = h.created
      /\ g.page = h.page /\ g.entry = h.entry /\ Same(h, g, SmallFields)
      /\ g.small_used_pages = h.small_used_pages
  BY <1>6, <1>7 DEF Same, Fields, SmallFields
<1>9. PagesSound(g, kind, Null)
  BY <1>1, <1>8, PagesSame
<1>10. /\ BlocksPlaced(g, kind) /\ BlocksDisjoint(g.idx) /\ CurrentSound(g, kind)
       /\ SmallListed(g, kind)
  BY <1>1, <1>8 DEF SmallSound, BlocksPlaced, CurrentSound, SmallListed, SmallPages
<1>11. WaitingSound(g)
  <2> DEFINE lists == h.small_first_free
             lists2 == g.small_first_free
  <2>1. lists2 \in [Indices -> Seq(DOMAIN h.idx)]
    BY <1>2, <1>3, <1>8
  <2>2. /\ lists2[i] = Tail(s)
        /\ \A j \in Indices \ {i} : lists2[j] = lists[j]
    BY <1>2, <1>8
  <2>3. DOMAIN g.mark = DOMAIN h.mark \cup {ptr}
    BY <1>8 DEF With
  <2> HIDE DEF lists2, s
  <2>4. ASSUME NEW j \in Indices, NEW k \in DOMAIN lists2[j]
        PROVE  /\ h.idx[lists2[j][k]] = j
               /\ lists2[j][k] \notin DOMAIN g.mark
               /\ \A l \in DOMAIN lists2[j] : lists2[j][l] = lists2[j][k] => l = k
    <3>1. CASE j = i
      <4>1. /\ k + 1 \in DOMAIN s /\ lists2[j][k] = s[k + 1] /\ k \in Nat /\ k > 0
        BY <3>1, <2>2, <2>4, <1>3
      <4>2. s[k + 1] # ptr
        BY <4>1, <1>2, <1>3
      <4>3. h.idx[s[k + 1]] = i /\ s[k + 1] \notin DOMAIN h.mark
        BY <4>1, <1>2 DEF s
      <4>4. ASSUME NEW l \in DOMAIN lists2[j], lists2[j][l] = lists2[j][k] PROVE l = k
        <5>1. l + 1 \in DOMAIN s /\ lists2[j][l] = s[l + 1] /\ l \in Nat
          BY <3>1, <2>2, <1>3
        <5>2. l + 1 = k + 1
          BY <4>1, <4>4, <5>1, <1>2
        <5> QED
          BY <4>1, <5>1, <5>2
      <4> QED
        BY <4>1, <4>2, <4>3, <4>4, <2>3, <3>1
    <3>2. CASE j # i
      <4>1. lists2[j] = lists[j]
        BY <3>2, <2>2
      <4>2. h.idx[lists[j][k]] = j /\ lists[j][k] \notin DOMAIN h.mark
        BY <4>1, <2>4, <1>2
      <4>3. lists[j][k] # ptr
        BY <4>2, <3>2, <1>4
      <4>4. \A l \in DOMAIN lists[j] : lists[j][l] = lists[j][k] => l = k
        BY <4>1, <2>4, <1>1 DEF SmallSound, WaitingSound
      <4> QED
        BY <4>1, <4>2, <4>3, <4>4, <2>3
    <3> QED
      BY <3>1, <3>2
  <2> QED
    BY <2>1, <2>4, <1>8 DEF WaitingSound, lists2
<1>12. HeldSound(g, kind, With(d, ptr, n))
  <2>1. BlocksKept(h, g, kind, kind, Null, Null)
    BY <1>8 DEF BlocksKept, UsedKept
  <2>2. g.mark[ptr] = "small"
    BY <1>8 DEF With
  <2>3. BlockHeld(g, kind, ptr, n)
    BY <2>2, <1>4, <1>5, <1>8 DEF BlockHeld
  <2> QED
    BY <2>1, <2>3, <1>1, <1>8, HeldMore
<1>13. SoundAs(g, With(d, ptr, n), kind)
  BY <1>1, <1>8, <1>9, <1>10, <1>11, <1>12 DEF SoundAs, SmallSound
<1> QED
  BY <1>1, <1>4, <1>5, <1>8, <1>13 DEF g, h1, ptr, s

\* Pages of medium blocks, but x, have an entry in use.
PagesUsed(h, x) ==
    \A e \in DOMAIN h.entry :
        e[1] # x => \E f \in DOMAIN h.entry : f[1] = e[1] /\ ~h.entry[f].free_block

Sound(h, d, kind) == SoundAs(h, d, kind) /\ PagesUsed(h, Null)

\* What an allocation answers: a block nobody uses, or nothing.
Allocated(d, n, r) ==
    r.ptr # Null =>
        /\ r.ptr \notin DOMAIN d
        /\ \E kind : Sound(r.heap, With(d, r.ptr, n), kind)

\* Pages have blocks in use while no entry changes.
LEMMA UsedStays ==
    ASSUME NEW h, NEW g, NEW x, PagesUsed(h, x), g.entry = h.entry
    PROVE  PagesUsed(g, x)
  BY DEF PagesUsed

\* SmallAllocate: from the list of the size, the current page or a new one.
LEMMA SmallAllocateIs ==
    ASSUME NEW h, NEW d, NEW kind, Sound(h, d, kind), load \in Loads,
           NEW n \in Nat, n <= SmallSize
    PROVE  Allocated(d, n, SmallAllocate(h, n))
<1> DEFINE m == IF n < PointerSize THEN PointerSize ELSE n
           bytes == SmallAlign(m)
           i == bytes \div Align
           free == h.small_first_free[i]
           ptr == Head(free)
           left == h.page[h.small_cur_page].data_size - h.small_cur_page_offset
           taken == Mark([h EXCEPT !.small_first_free[i] = Tail(@)], ptr, "small")
           r1 == [heap |-> taken, ptr |-> ptr]
           h2 == SmallNewPage(h)
           r == SmallAllocate(h, n)
<1>1. m \in Nat /\ SoundAs(h, d, kind) /\ PagesUsed(h, Null)
  BY Sizes DEF Sound
<1>2. /\ bytes \in Nat /\ n <= bytes /\ i \in Indices /\ SmallBytes(i) = bytes
      /\ ((bytes + SmallHeader) % Align) = 0
      /\ SmallAlign(0) + bytes + SmallHeader <= PageSize
  BY <1>1, SmallRoom
<1>3. r = IF free # <<>> THEN r1
          ELSE IF bytes + SmallHeader <= left THEN SmallCut(h, bytes)
          ELSE IF HasPage(h) THEN SmallCut(h2, bytes) ELSE Failed(h)
  BY DEF SmallAllocate
<1> HIDE DEF r, bytes, h2
<1>4. CASE free # <<>>
  <2>1. /\ ptr # Null /\ ptr \notin DOMAIN d
        /\ SoundAs(taken, With(d, ptr, n), kind) /\ taken.entry = h.entry
    BY <1>1, <1>2, <1>4, SmallTakenIs
  <2> HIDE DEF taken, ptr
  <2>2. r = r1 /\ r1.ptr = ptr /\ r1.heap = taken
    BY <1>3, <1>4
  <2> HIDE DEF r1
  <2>3. PagesUsed(taken, Null)
    BY <2>1, <1>1, UsedStays
  <2> QED
    BY <2>1, <2>2, <2>3 DEF Allocated, Sound, r
<1>5. CASE free = <<>> /\ bytes + SmallHeader <= left
  <2>1. r = SmallCut(h, bytes)
    BY <1>3, <1>5
  <2>2. /\ h.page[h.small_cur_page].data_size = PageSize
        /\ h.small_cur_page_offset \in Nat /\ PageSize \in Nat
    <3>1. /\ h.small_cur_page \in DOMAIN h.page /\ kind[h.small_cur_page] = "small"
          /\ h.small_cur_page_offset \in 0 .. PageSize
      BY <1>1, SoundAsFacts DEF SmallSound, CurrentSound
    <3>2. \A q \in DOMAIN kind : kind[q] # "large" => h.page[q].data_size = PageSize
      BY <1>1, SoundAsFacts DEF PagesSound
    <3>3. DOMAIN kind = DOMAIN h.page
      BY <1>1, SoundAsFacts
    <3> QED
      BY <3>1, <3>2, <3>3, Sizes
  <2>3. h.small_cur_page_offset + bytes + SmallHeader <= PageSize
    BY <2>2, <1>2, <1>5 DEF SmallHeader
  <2>4. /\ r.ptr # Null /\ r.ptr \notin DOMAIN d
        /\ SoundAs(r.heap, With(d, r.ptr, n), kind) /\ r.heap.entry = h.entry
    BY <2>1, <2>3, <1>1, <1>2, SmallCutIs
  <2>5. PagesUsed(r.heap, Null)
    BY <2>4, <1>1, UsedStays
  <2> QED
    BY <2>4, <2>5 DEF Allocated, Sound, r
<1>6. CASE free = <<>> /\ ~(bytes + SmallHeader <= left) /\ HasPage(h)
  <2>1. r = SmallCut(h2, bytes)
    BY <1>3, <1>6
  <2>2. PICK kind2 : /\ SoundAs(h2, d, kind2) /\ h2.small_cur_page_offset = SmallAlign(0)
                     /\ h2.entry = h.entry
    BY <1>1, <1>6, SmallNewPageIs DEF h2
  <2>3. h2.small_cur_page_offset + bytes + SmallHeader <= PageSize
    BY <2>2, <1>2
  <2>4. /\ r.ptr # Null /\ r.ptr \notin DOMAIN d
        /\ SoundAs(r.heap, With(d, r.ptr, n), kind2) /\ r.heap.entry = h.entry
    BY <2>1, <2>2, <2>3, <1>2, SmallCutIs
  <2>5. PagesUsed(r.heap, Null)
    BY <2>4, <1>1, UsedStays
  <2> QED
    BY <2>4, <2>5 DEF Allocated, Sound, r
<1>7. CASE free = <<>> /\ ~(bytes + SmallHeader <= left) /\ ~HasPage(h)
  <2>1. r.ptr = Null
    BY <1>3, <1>7 DEF Failed
  <2> QED
    BY <2>1 DEF Allocated, r
<1> QED
  BY <1>4, <1>5, <1>6, <1>7

\* SmallFree: the block waits in the list of its size.
LEMMA SmallFreeIs ==
    ASSUME NEW h, NEW d, NEW kind, SoundAs(h, d, kind), NEW ptr \in DOMAIN d,
           h.mark[ptr] = "small"
    PROVE  SoundAs(SmallFree(h, ptr), Dropped(d, ptr), kind) /\ SmallFree(h, ptr).entry = h.entry
<1> DEFINE i == h.idx[ptr]
           s == h.small_first_free[i]
           s2 == Front(ptr, s)
           h1 == Unmark(h, ptr)
           g == [h1 EXCEPT !.small_first_free[i] = <<ptr>> \o @]
<1>1. /\ SmallSound(h, kind) /\ HeldSound(h, kind, d) /\ IsHeap(h) /\ PagesSound(h, kind, Null)
      /\ Null \notin DOMAIN h.page /\ IsEntries(h.entry) /\ h.created = TRUE
      /\ DOMAIN d = DOMAIN h.mark
  BY SoundAsFacts
<1>2. ptr \in DOMAIN h.idx
  BY <1>1 DEF HeldSound, BlockHeld
<1>3. i \in Indices
  BY <1>1, <1>2 DEF SmallSound, BlocksPlaced
<1>4. /\ s \in Seq(DOMAIN h.idx)
      /\ h.small_first_free \in [Indices -> Seq(DOMAIN h.idx)]
      /\ \A j \in Indices : \A k \in DOMAIN h.small_first_free[j] :
            /\ h.idx[h.small_first_free[j][k]] = j
            /\ h.small_first_free[j][k] \notin DOMAIN h.mark
      /\ \A k \in DOMAIN s, l \in DOMAIN s : s[k] = s[l] => k = l
  BY <1>1, <1>3 DEF SmallSound, WaitingSound
<1>5. /\ s2 \in Seq(DOMAIN h.idx)
      /\ s2[1] = ptr
      /\ \A k \in DOMAIN s2 : k = 1 \/ (k \in Nat /\ k - 1 \in DOMAIN s /\ s2[k] = s[k - 1])
  <2> HIDE DEF s
  <2> QED
    BY <1>2, <1>4, InFront DEF s2
<1> HIDE DEF s2
<1>6. /\ Same(h, h1, {"mark"}) /\ h1.mark = Dropped(h.mark, ptr)
  BY <1>1 DEF IsHeap, Same, Fields, Unmark, Dropped
<1> HIDE DEF h1
<1>7. /\ Same(h1, g, {"small_first_free"})
      /\ g.small_first_free = [h1.small_first_free EXCEPT ![i] = <<ptr>> \o @]
  BY <1>6 DEF IsHeap, Same, Fields
<1> HIDE DEF g
<1>8. /\ g.idx = h.idx /\ g.small_cur_page_offset = h.small_cur_page_offset
      /\ g.mark = Dropped(h.mark, ptr) /\ g.small_cur_page = h.small_cur_page
      /\ h1.small_first_free = h.small_first_free
      /\ g.created = h.created
      /\ g.page = h.page /\ g.entry = h.entry /\ Same(h, g, SmallFields)
      /\ g.small_used_pages = h.small_used_pages
  BY <1>6, <1>7 DEF Same, Fields, SmallFields
<1>9. PagesSound(g, kind, Null)
  BY <1>1, <1>8, PagesSame
<1>10. /\ BlocksPlaced(g, kind) /\ BlocksDisjoint(g.idx) /\ CurrentSound(g, kind)
       /\ SmallListed(g, kind)
  BY <1>1, <1>8 DEF SmallSound, BlocksPlaced, CurrentSound, SmallListed, SmallPages
<1>11. WaitingSound(g)
  <2> DEFINE lists == h.small_first_free
             lists2 == g.small_first_free
  <2>1. lists2 = [lists EXCEPT ![i] = s2]
    BY <1>4, <1>7, <1>8, <1>3 DEF s2, Front
  <2>2. lists2 \in [Indices -> Seq(DOMAIN h.idx)] /\ lists2[i] = s2
        /\ \A j \in Indices \ {i} : lists2[j] = lists[j]
    BY <2>1, <1>3, <1>4, <1>5
  <2>3. DOMAIN g.mark = DOMAIN h.mark \ {ptr}
    BY <1>8 DEF Dropped, Without
  <2> HIDE DEF lists2, s
  <2>4. ASSUME NEW j \in Indices, NEW k \in DOMAIN lists2[j]
        PROVE  /\ h.idx[lists2[j][k]] = j
               /\ lists2[j][k] \notin DOMAIN g.mark
               /\ \A l \in DOMAIN lists2[j] : lists2[j][l] = lists2[j][k] => l = k
    <3>1. CASE j = i
      <4>1. \A l \in DOMAIN s : h.idx[s[l]] = i /\ s[l] \notin DOMAIN h.mark /\ s[l] # ptr
        BY <1>1, <1>3, <1>4 DEF s
      <4>2. h.idx[s2[k]] = i /\ s2[k] \notin DOMAIN g.mark
        BY <4>1, <3>1, <2>2, <2>3, <2>4, <1>5
      <4>3. ASSUME NEW l \in DOMAIN s2, s2[l] = s2[k] PROVE l = k
        <5>1. CASE k = 1
          BY <5>1, <4>1, <4>3, <1>5
        <5>2. CASE l = 1
          BY <5>2, <4>1, <4>3, <1>5, <3>1, <2>2, <2>4
        <5>3. CASE k # 1 /\ l # 1
          <6>1. /\ k \in Nat /\ k - 1 \in DOMAIN s /\ s2[k] = s[k - 1]
                /\ l \in Nat /\ l - 1 \in DOMAIN s /\ s2[l] = s[l - 1]
            BY <5>3, <1>5, <3>1, <2>2, <2>4
          <6>2. l - 1 = k - 1
            BY <6>1, <4>3, <1>4
          <6> QED
            BY <6>1, <6>2
        <5> QED
          BY <5>1, <5>2, <5>3
      <4> QED
        BY <4>2, <4>3, <3>1, <2>2
    <3>2. CASE j # i
      <4>1. lists2[j] = lists[j]
        BY <3>2, <2>2
      <4>2. h.idx[lists[j][k]] = j /\ lists[j][k] \notin DOMAIN h.mark
        BY <4>1, <2>4, <1>4
      <4>3. \A l \in DOMAIN lists[j] : lists[j][l] = lists[j][k] => l = k
        BY <4>1, <2>4, <1>1 DEF SmallSound, WaitingSound
      <4> QED
        BY <4>1, <4>2, <4>3, <2>3
    <3> QED
      BY <3>1, <3>2
  <2> QED
    <3>1. g.small_first_free = lists2 /\ g.idx = h.idx
      BY <1>8 DEF lists2
    <3> QED
      BY <2>2, <2>4, <3>1 DEF WaitingSound
<1>12. HeldSound(g, kind, Dropped(d, ptr))
  <2>1. BlocksKept(h, g, kind, kind, Null, Null)
    BY <1>8 DEF BlocksKept, UsedKept
  <2>2. OthersSpared(h, d, ptr, Null, Null)
    BY <1>1, EntryIsPlace DEF OthersSpared, HeldSound, BlockHeld
  <2> QED
    BY <2>1, <2>2, <1>1, <1>8, HeldLess
<1>13. SoundAs(g, Dropped(d, ptr), kind)
  BY <1>1, <1>8, <1>9, <1>10, <1>11, <1>12 DEF SoundAs, SmallSound
<1>14. g = SmallFree(h, ptr)
  BY DEF SmallFree, g, h1, i
<1> QED
  BY <1>8, <1>13, <1>14

-----------------------------------------------------------------------------
(* Medium blocks.                                                           *)

\* Entries of page p change and its room with them: the rest stays sound.
LEMMA ElsewhereSound ==
    ASSUME NEW h, NEW kind, PagesSound(h, kind, Null), NEW p, NEW g,
           Same(h, g, {"page", "entry"}), EntriesSound(g, MediumPages(kind)),
           Spaced(g.entry, Null), Elsewhere(h, g, p), PlacesKept(h, g)
    PROVE  PagesSound(g, kind, p)
<1>1. /\ EntriesSound(h, MediumPages(kind)) /\ Null \notin DOMAIN h.page
      /\ DOMAIN kind = DOMAIN h.page /\ DOMAIN g.page = DOMAIN h.page
      /\ Linked(DOMAIN h.page, h.page, kind, Heads(h), h.medium_last_free_page)
  BY SoundFacts DEF Elsewhere
<1>2. Heads(g) = Heads(h) /\ g.medium_last_free_page = h.medium_last_free_page
  BY DEF Same, Fields, Heads
<1>3. Linked(DOMAIN g.page, g.page, kind, Heads(g), g.medium_last_free_page)
  <2> DEFINE S == DOMAIN h.page
             pg == h.page
             pg2 == g.page
             heads == Heads(h)
             last0 == h.medium_last_free_page
  <2>1. Linked(S, pg, kind, heads, last0)
    BY <1>1
  <2>2. \A q \in S : pg2[q].next = pg[q].next /\ pg2[q].prev = pg[q].prev /\ kind[q] = kind[q]
    BY DEF PlacesKept
  <2> HIDE DEF S, pg, pg2, heads, last0
  <2>3. Linked(S, pg2, kind, heads, last0)
    BY <2>1, <2>2, LinkedAgree
  <2> QED
    BY <2>3, <1>1, <1>2 DEF S, pg2, heads, last0
<1>4. \A q \in DOMAIN kind : kind[q] # "large" => g.page[q].data_size = PageSize
  BY <1>1 DEF PagesSound, PlacesKept
<1>5. RoomKnown(g, kind, p)
  <2> SUFFICES ASSUME NEW q \in DOMAIN kind \ {p}
               PROVE  /\ kind[q] = "roomy" => Known(g, q)
                      /\ kind[q] = "full" => g.page[q].largest_free = 0
    BY DEF RoomKnown
  <2>1. /\ q \in DOMAIN h.page /\ q # Null
        /\ g.page[q].largest_free = h.page[q].largest_free
        /\ g.page[q].first_free = h.page[q].first_free
    BY <1>1 DEF Elsewhere
  <2>2. /\ kind[q] = "roomy" => Known(h, q)
        /\ kind[q] = "full" => h.page[q].largest_free = 0
    BY <1>1, <2>1 DEF PagesSound, RoomKnown
  <2>3. Known(h, q) => h.page[q].first_free \in DOMAIN h.entry /\ h.page[q].first_free[1] = q
    BY <1>1, <2>1, SoundParts DEF FreeLinked, FirstFree, FreeSet, Known
  <2> QED
    BY <2>1, <2>2, <2>3 DEF Known, Elsewhere
<1>6. kind \in [DOMAIN g.page -> Kinds]
  BY <1>1 DEF PagesSound
<1>7. Booked(g)
  <2>1. BooksKept(h, g)
    BY <1>1 DEF BooksKept, Same, Fields, PlacesKept
  <2> QED
    BY <2>1, BookedStays DEF PagesSound
<1> QED
  BY <1>3, <1>4, <1>5, <1>6, <1>7 DEF PagesSound

\* Page p has an entry in use now, and entries elsewhere are what they were.
LEMMA UsedElsewhere ==
    ASSUME NEW h, NEW g, NEW M, EntriesSound(h, M), EntriesSound(g, M), NEW p,
           Elsewhere(h, g, p), PagesUsed(h, p),
           NEW u \in DOMAIN g.entry, u[1] = p, ~g.entry[u].free_block
    PROVE  PagesUsed(g, Null)
<1> SUFFICES ASSUME NEW e \in DOMAIN g.entry
             PROVE  \E f \in DOMAIN g.entry : f[1] = e[1] /\ ~g.entry[f].free_block
  BY DEF PagesUsed
<1>1. CASE e[1] = p
  BY <1>1
<1>2. CASE e[1] # p
  <2>1. e[1] \in M
    BY SoundParts
  <2>2. <<e[1], 0>> \in DOMAIN h.entry /\ <<e[1], 0>>[1] = e[1]
    BY <2>1, SoundParts DEF Tiled, OnPages
  <2>3. PICK f \in DOMAIN h.entry : f[1] = e[1] /\ ~h.entry[f].free_block
    BY <2>2, <1>2 DEF PagesUsed
  <2>4. f \in DOMAIN g.entry /\ g.entry[f].free_block = h.entry[f].free_block
    BY <2>3, <1>2 DEF Elsewhere
  <2> QED
    BY <2>3, <2>4
<1> QED
  BY <1>1, <1>2

\* A medium block is taken from a page with room for it.
LEMMA MediumPlaceIs ==
    ASSUME NEW h, NEW d, NEW kind, SoundAs(h, d, kind), NEW p \in DOMAIN h.page,
           PagesUsed(h, p),
           kind[p] = "roomy", h.medium_first_free_page # Null, NEW n \in Nat,
           NEW need \in Nat, need >= n + MediumHeader, need >= MediumSmallest,
           need % Align = 0, h.page[p].largest_free >= need
    PROVE  LET r == MediumAllocDataFromPage(h, p, need)
               ptr == <<p, r.used[2] + MediumHeader>>
               g == MediumRelist(Mark(r.heap, ptr, "medium"), p)
           IN  /\ ptr # Null /\ ptr \notin DOMAIN d
               /\ \E kind2 : Sound(g, With(d, ptr, n), kind2)
<1> DEFINE r == MediumAllocDataFromPage(h, p, need)
           M == MediumPages(kind)
           used == r.used
           g1 == r.heap
           ptr == <<p, used[2] + MediumHeader>>
           g2 == Mark(g1, ptr, "medium")
           g == MediumRelist(g2, p)
           kind2 == IF g2.page[p].largest_free = 0 THEN [kind EXCEPT ![p] = "full"] ELSE kind
<1>1. /\ SmallSound(h, kind) /\ HeldSound(h, kind, d) /\ IsHeap(h) /\ PagesSound(h, kind, Null)
      /\ DOMAIN kind = DOMAIN h.page /\ DOMAIN h.page \subseteq Page /\ h.created = TRUE
      /\ Null \notin DOMAIN h.page /\ IsEntries(h.entry) /\ EntriesSound(h, M)
      /\ Spaced(h.entry, Null) /\ DOMAIN d = DOMAIN h.mark
  BY SoundAsFacts
<1>2. p \in M /\ Known(h, p)
  BY <1>1 DEF MediumPages, PagesSound, RoomKnown
<1>3. /\ Same(h, g1, {"page", "entry"})
      /\ EntriesSound(g1, M) /\ Spaced(g1.entry, Null)
      /\ used \in DOMAIN g1.entry /\ used \in Place /\ used[1] = p
      /\ ~g1.entry[used].free_block /\ g1.entry[used].size >= need
      /\ used \in DOMAIN h.entry => h.entry[used].free_block
      /\ Elsewhere(h, g1, p) /\ PlacesKept(h, g1) /\ UsedKept(h, g1, Null)
      /\ g1.page[p].largest_free = 0 \/ Known(g1, p)
  <2> HIDE DEF M
  <2> QED
    BY <1>1, <1>2, AllocDataIs
<1> HIDE DEF g1, used, r
<1>4. PagesSound(g1, kind, p)
  BY <1>1, <1>3, ElsewhereSound
<1>5. /\ ptr \in Place /\ ptr[1] = p /\ ptr # Null
      /\ EntryOf(ptr) = used
  <2>1. used[2] \in Nat /\ used = <<used[1], used[2]>> /\ MediumHeader \in Nat
    BY <1>3, Sizes DEF Place
  <2>2. used[2] + MediumHeader \in Nat /\ (used[2] + MediumHeader) - MediumHeader = used[2]
    BY <2>1
  <2> QED
    BY <2>1, <2>2, <1>1, <1>3, PageAssumption DEF Place, EntryOf
<1>6. ptr \notin DOMAIN h.idx
  BY <1>1, <1>5 DEF SmallSound, BlocksPlaced
<1>7. ptr \notin DOMAIN d
  <2> SUFFICES ASSUME ptr \in DOMAIN d PROVE FALSE
    OBVIOUS
  <2> HIDE DEF ptr
  <2>1. BlockHeld(h, kind, ptr, d[ptr])
    BY <1>1 DEF HeldSound
  <2> QED
    BY <2>1, <1>3, <1>5, <1>6 DEF BlockHeld
<1> HIDE DEF ptr
<1>8. Same(g1, g2, {"mark"}) /\ g2.mark = With(g1.mark, ptr, "medium")
  BY <1>3 DEF IsHeap, Same, Fields, Mark
<1> HIDE DEF g2
<1>9. /\ Same(g1, g2, SmallFields) /\ g2.page = g1.page /\ g2.entry = g1.entry
      /\ g2.medium_first_free_page = h.medium_first_free_page
  BY <1>3, <1>8 DEF Same, Fields, SmallFields
<1>10. PagesSound(g2, kind, p)
  BY <1>4, <1>9, PagesSame
<1>11. DOMAIN g2.page = DOMAIN h.page
  BY <1>3, <1>9 DEF Elsewhere
<1>12. g2.page[p].largest_free = 0 \/ Known(g2, p)
  BY <1>3, <1>9 DEF Known
<1>13. /\ Same(g2, g, ListFields) /\ Relinked(g2.page, g.page)
       /\ PagesSound(g, kind2, Null)
  BY <1>9, <1>10, <1>11, <1>12, MediumRelistIs
<1> HIDE DEF g
<1>14. /\ g.idx = h.idx /\ g.mark = With(h.mark, ptr, "medium")
       /\ g.small_first_free = h.small_first_free
       /\ g.small_cur_page = h.small_cur_page
       /\ g.small_cur_page_offset = h.small_cur_page_offset
       /\ g.created = h.created /\ g.entry = g1.entry
       /\ g.small_used_pages = h.small_used_pages
  BY <1>3, <1>8, <1>9, <1>13 DEF Same, Fields, SmallFields, ListFields
<1>15. /\ DOMAIN g.page = DOMAIN h.page
       /\ \A q \in DOMAIN h.page : g.page[q].data_size = h.page[q].data_size
  BY <1>3, <1>9, <1>11, <1>13 DEF Relinked, PlacesKept
<1>16. kind2[p] # "small" /\ \A q \in DOMAIN h.page \ {p} : kind2[q] = kind[q]
  BY <1>1
<1> HIDE DEF kind2
<1>17. SmallSound(g, kind2)
  <2>1. \A b \in DOMAIN g.mark : b \in DOMAIN h.mark \/ b = ptr
    BY <1>14 DEF With
  <2>2. SmallKept(h, g, kind, kind2)
    BY <2>1, <1>6, <1>14, <1>15, <1>16 DEF SmallKept
  <2> QED
    BY <2>2, <1>1, SmallStays
<1>18. HeldSound(g, kind2, With(d, ptr, n))
  <2>1. BlocksKept(h, g, kind, kind2, Null, Null)
    BY <1>3, <1>14, <1>15, <1>16 DEF BlocksKept, UsedKept
  <2>2. g.mark[ptr] = "medium"
    BY <1>14 DEF With
  <2>3. MediumHeader + n <= g.entry[used].size
    <3>1. g1.entry[used].size \in Nat /\ MediumHeader \in Nat
      BY <1>3, Sizes, SoundParts, EntryFacts
    <3> QED
      BY <3>1, <1>3, <1>14
  <2>4. BlockHeld(g, kind2, ptr, n)
    BY <2>2, <2>3, <1>3, <1>5, <1>14 DEF BlockHeld
  <2> QED
    BY <2>1, <2>4, <1>1, <1>14, HeldMore
<1>19. SoundAs(g, With(d, ptr, n), kind2)
  BY <1>1, <1>13, <1>14, <1>17, <1>18 DEF SoundAs
<1>20. PagesUsed(g, Null)
  <2>1. PagesUsed(g1, Null)
    <3> HIDE DEF M
    <3> QED
      BY <1>1, <1>3, UsedElsewhere
  <2> QED
    BY <2>1, <1>14, UsedStays
<1>21. Sound(g, With(d, ptr, n), kind2)
  BY <1>19, <1>20 DEF Sound
<1> QED
  BY <1>5, <1>7, <1>21 DEF g, g2, ptr, g1, used, r

\* A page of medium blocks, one free entry.
LEMMA MediumNewSound ==
    ASSUME NEW h, NEW d, NEW kind, Sound(h, d, kind), NEW p \in Page, p \notin DOMAIN h.page
    PROVE  LET g == MediumNewPage(h, p)
           IN  /\ SoundAs(g, d, Added(kind, p, "roomy")) /\ PagesUsed(g, p)
               /\ p \in DOMAIN g.page /\ g.page[p].largest_free = PageSize
               /\ g.medium_first_free_page = p
               /\ Added(kind, p, "roomy")[p] = "roomy"
<1> DEFINE g == MediumNewPage(h, p)
           kind2 == Added(kind, p, "roomy")
<1>1. /\ SmallSound(h, kind) /\ HeldSound(h, kind, d) /\ PagesSound(h, kind, Null)
      /\ DOMAIN kind = DOMAIN h.page /\ h.created = TRUE
      /\ Null \notin DOMAIN h.page /\ IsEntries(h.entry) /\ DOMAIN d = DOMAIN h.mark
      /\ EntriesSound(h, MediumPages(kind)) /\ PagesUsed(h, Null)
  BY SoundAsFacts DEF Sound
<1>2. /\ Same(h, g, GainFields)
      /\ PagesSound(g, kind2, Null)
      /\ PageGained(h, g, p)
      /\ g.page[p].largest_free = PageSize /\ g.medium_first_free_page = p
      /\ kind2[p] = "roomy"
  BY <1>1, MediumNewPageIs
<1> HIDE DEF g
<1>3. /\ g.idx = h.idx /\ g.mark = h.mark /\ g.small_first_free = h.small_first_free
      /\ g.small_cur_page = h.small_cur_page
      /\ g.small_cur_page_offset = h.small_cur_page_offset /\ g.created = h.created
      /\ g.small_used_pages = h.small_used_pages
  BY <1>2 DEF Same, Fields, GainFields, ListFields, BookFields
<1>4. /\ \A q \in DOMAIN h.page : kind2[q] = kind[q] /\ q \in DOMAIN g.page
      /\ DOMAIN g.page = DOMAIN h.page \cup {p}
  BY <1>1, <1>2 DEF Added, With, PageGained
<1> HIDE DEF kind2
<1>5. SmallSound(g, kind2)
  <2>1. SmallKept(h, g, kind, kind2)
    BY <1>2, <1>3, <1>4 DEF SmallKept
  <2> QED
    BY <2>1, <1>1, SmallStays
<1>6. HeldSound(g, kind2, d)
  <2>1. BlocksKept(h, g, kind, kind2, Null, Null)
    BY <1>2, <1>3, <1>4 DEF BlocksKept, UsedKept, PageGained
  <2>2. ASSUME NEW b \in DOMAIN d PROVE BlockHeld(g, kind2, b, d[b])
    <3>1. BlockHeld(h, kind, b, d[b]) /\ g.mark[b] = h.mark[b]
      BY <1>1, <1>3 DEF HeldSound
    <3>2. h.mark[b] = "medium" => EntryOf(b) # Null
      BY <3>1, <1>1, EntryIsPlace DEF BlockHeld
    <3>3. h.mark[b] = "large" => b[1] # Null
      BY <3>1, <1>1 DEF BlockHeld
    <3> QED
      BY <3>1, <3>2, <3>3, <2>1, BlockStays
  <2> QED
    BY <2>2, <1>1, <1>3 DEF HeldSound
<1>7. SoundAs(g, d, kind2)
  BY <1>1, <1>2, <1>3, <1>5, <1>6 DEF SoundAs
<1>8. PagesUsed(g, p)
  <2> SUFFICES ASSUME NEW e \in DOMAIN g.entry, e[1] # p
               PROVE  \E f \in DOMAIN g.entry : f[1] = e[1] /\ ~g.entry[f].free_block
    BY DEF PagesUsed
  <2>1. e[1] \in MediumPages(kind2) /\ DOMAIN kind2 = DOMAIN g.page
    BY <1>2, SoundFacts, SoundParts
  <2>2. e[1] \in MediumPages(kind)
    BY <2>1, <1>1, <1>4 DEF MediumPages
  <2>3. <<e[1], 0>> \in DOMAIN h.entry /\ <<e[1], 0>>[1] = e[1] /\ e[1] # Null
    BY <2>2, <1>1, SoundParts DEF Tiled, OnPages, MediumPages
  <2>4. PICK f \in DOMAIN h.entry : f[1] = e[1] /\ ~h.entry[f].free_block
    BY <2>3, <1>1 DEF PagesUsed
  <2> QED
    BY <2>4, <1>2 DEF PageGained
<1> QED
  BY <1>2, <1>7, <1>8 DEF g, kind2, PageGained

\* MediumAllocate: from the first page with enough room or a new one.
LEMMA MediumAllocateIs ==
    ASSUME NEW h, NEW d, NEW kind, Sound(h, d, kind), load \in Loads,
           NEW n \in Nat, n > SmallSize, n <= MediumSize
    PROVE  Allocated(d, n, MediumAllocate(h, n))
<1> DEFINE need == AlignSize(n) + MediumHeader
           pages == Pages(h, h.medium_first_free_page)
           roomy == {k \in DOMAIN pages : h.page[pages[k]].largest_free >= need}
           first == CHOOSE k \in roomy : \A j \in roomy : k <= j
           p == IF roomy # {} THEN pages[first] ELSE NewPage(h)
           h1 == IF roomy # {} THEN h ELSE MediumNewPage(h, p)
           q == MediumAllocDataFromPage(h1, p, need)
           ptr == <<p, q.used[2] + MediumHeader>>
           g == MediumRelist(Mark(q.heap, ptr, "medium"), p)
           r == MediumAllocate(h, n)
<1>1. /\ need \in Nat /\ need >= n + MediumHeader /\ need >= MediumSmallest
      /\ need <= PageSize /\ (need % Align) = 0
  BY MediumRoom
<1>2. /\ PagesSound(h, kind, Null) /\ DOMAIN kind = DOMAIN h.page /\ DOMAIN h.page \subseteq Page
      /\ Null \notin DOMAIN h.page /\ SoundAs(h, d, kind) /\ PagesUsed(h, Null)
      /\ IsEntries(h.entry)
  BY SoundAsFacts DEF Sound
<1>3. /\ pages \in Seq({x \in DOMAIN h.page : kind[x] = "roomy"})
      /\ pages # <<>> => h.medium_first_free_page # Null
  <2>1. Heads(h)["roomy"] = h.medium_first_free_page /\ "roomy" \in ListKinds
    BY HeadsAre DEF ListKinds
  <2>2. Listing(h, kind, "roomy", Pages(h, Heads(h)["roomy"]))
    BY <1>2, <2>1, PagesListed
  <2> QED
    BY <2>1, <2>2 DEF Listing, PagesIn
<1>4. r = IF roomy = {} /\ ~HasPage(h) THEN Failed(h) ELSE [heap |-> g, ptr |-> ptr]
  BY DEF MediumAllocate
<1> HIDE DEF r, need, pages
<1>5. CASE roomy # {}
  <2>1. first \in roomy
    <3>1. roomy \in SUBSET Nat
      BY <1>3
    <3>2. \E k \in roomy : \A j \in roomy : k <= j
      <4> HIDE DEF roomy
      <4> QED
        BY <3>1, <1>5, SmallestOf
    <3> HIDE DEF roomy
    <3> QED
      BY <3>2
  <2> HIDE DEF first
  <2>2. /\ first \in DOMAIN pages /\ h.page[pages[first]].largest_free >= need
    BY <2>1
  <2>3. pages[first] \in DOMAIN h.page /\ kind[pages[first]] = "roomy" /\ pages # <<>>
    BY <2>2, <1>3
  <2>4. p = pages[first] /\ h1 = h
    BY <1>5
  <2>5. p \in DOMAIN h.page /\ kind[p] = "roomy" /\ h.medium_first_free_page # Null
        /\ h.page[p].largest_free >= need
    BY <2>2, <2>3, <2>4, <1>3
  <2>6. r.ptr = ptr /\ r.heap = g
    BY <1>4, <1>5
  <2> HIDE DEF p, h1
  <2>7. /\ ptr # Null /\ ptr \notin DOMAIN d
        /\ \E kind2 : Sound(g, With(d, ptr, n), kind2)
    <3>1. PagesUsed(h, p)
      BY <1>2, PageAssumption DEF PagesUsed, IsEntries, Place
    <3> QED
      BY <3>1, <2>4, <2>5, <1>1, <1>2, MediumPlaceIs
  <2> HIDE DEF g, ptr
  <2> QED
    BY <2>6, <2>7 DEF Allocated, r
<1>6. CASE roomy = {} /\ HasPage(h)
  <2> DEFINE np == NewPage(h)
             hn == MediumNewPage(h, np)
             kind2 == Added(kind, np, "roomy")
  <2>1. p = np /\ h1 = hn
    BY <1>6
  <2>2. np \in Page /\ np \notin DOMAIN h.page
    BY <1>2, <1>6, NewPageIs
  <2>3. r.ptr = ptr /\ r.heap = g
    BY <1>4, <1>6
  <2> HIDE DEF np, h1, p
  <2>4. /\ SoundAs(hn, d, kind2) /\ PagesUsed(hn, np) /\ np \in DOMAIN hn.page
        /\ hn.page[np].largest_free = PageSize
        /\ hn.medium_first_free_page = np /\ kind2[np] = "roomy"
    BY <2>2, MediumNewSound
  <2>5. np # Null
    BY <2>2, PageAssumption
  <2> HIDE DEF hn, kind2
  <2>6. /\ ptr # Null /\ ptr \notin DOMAIN d
        /\ \E k : Sound(g, With(d, ptr, n), k)
    BY <2>1, <2>4, <2>5, <1>1, MediumPlaceIs
  <2> HIDE DEF g, ptr
  <2> QED
    BY <2>3, <2>6 DEF Allocated, r
<1>7. CASE roomy = {} /\ ~HasPage(h)
  <2>1. r.ptr = Null
    BY <1>4, <1>7 DEF Failed
  <2> QED
    BY <2>1 DEF Allocated, r
<1> QED
  BY <1>5, <1>6, <1>7

\* g is h with the entry e of a page p freed, and that page among those with room.
EntryFreed(h, g, kind, kind2, e, p) ==
    /\ Same(h, g, ListFields \cup {"entry", "page_allocated", "actual_mem_used"})
    /\ PagesSound(g, kind2, Null)
    /\ \A q \in DOMAIN h.page \ {p} : /\ q \in DOMAIN g.page /\ kind2[q] = kind[q]
                                      /\ g.page[q].data_size = h.page[q].data_size
    /\ \A q \in DOMAIN g.page : q \in DOMAIN h.page /\ (q = p => kind2[q] = "roomy")
    /\ UsedKept(h, g, e)

\* Among the pages with room, if it is not there.
LEMMA MediumRoomyAgain ==
    ASSUME NEW h, NEW kind, PagesSound(h, kind, Null), NEW e \in DOMAIN h.entry,
           ~h.entry[e].free_block
    PROVE  LET p == e[1]
               h1 == FreeEntry(h, e)
               x == MergePrev(h, e).free
               g == IF h.page[p].largest_free >= MediumSmallest THEN h1 ELSE BackToFreePages(h1, p)
           IN  /\ p \in DOMAIN g.page /\ p \in DOMAIN h.page /\ kind[p] \in {"roomy", "full"}
               /\ x \in DOMAIN g.entry /\ x[1] = p /\ g.entry[x].free_block
               /\ \E kind2 : EntryFreed(h, g, kind, kind2, e, p) /\ kind2[p] = "roomy"
<1> DEFINE p == e[1]
           M == MediumPages(kind)
           h1 == FreeEntry(h, e)
           x == MergePrev(h, e).free
           roomy == h.page[p].largest_free >= MediumSmallest
           g == IF roomy THEN h1 ELSE BackToFreePages(h1, p)
<1>1. /\ EntriesSound(h, M) /\ IsHeap(h) /\ IsPages(h.page)
      /\ IsEntries(h.entry) /\ Null \notin DOMAIN h.page
      /\ DOMAIN kind = DOMAIN h.page /\ Spaced(h.entry, Null)
  BY SoundFacts DEF PagesSound
<1>2. p \in M /\ p \in DOMAIN h.page /\ kind[p] \in {"roomy", "full"}
  BY <1>1, SoundParts DEF MediumPages
<1>3. /\ Same(h, h1, {"page", "entry"})
      /\ EntriesSound(h1, M) /\ Spaced(h1.entry, Null)
      /\ Elsewhere(h, h1, p) /\ PlacesKept(h, h1) /\ UsedKept(h, h1, e)
      /\ Known(h1, p)
      /\ x \in DOMAIN h1.entry /\ x[1] = p /\ h1.entry[x].free_block
  <2> HIDE DEF M
  <2> QED
    BY <1>1, FreeEntryIs
<1> HIDE DEF h1, x
<1>4. PagesSound(h1, kind, p) /\ DOMAIN h1.page = DOMAIN h.page
  BY <1>3, ElsewhereSound DEF Elsewhere
<1>5. kind[p] = "roomy" <=> roomy
  <2>1. CASE kind[p] = "roomy"
    <3>1. Known(h, p)
      BY <2>1, <1>1, <1>2 DEF PagesSound, RoomKnown
    <3>2. h.page[p].first_free \in DOMAIN h.entry
      BY <3>1, <1>1, <1>2, SoundParts DEF FreeLinked, FirstFree, FreeSet, Known
    <3>3. h.entry[h.page[p].first_free].size >= MediumSmallest
      BY <3>2, <1>1, SoundParts DEF Tiled, Sized
    <3> QED
      BY <3>1, <3>3, <2>1 DEF Known
  <2>2. CASE kind[p] = "full"
    <3>1. h.page[p].largest_free = 0
      BY <2>2, <1>1, <1>2 DEF PagesSound, RoomKnown
    <3> QED
      BY <3>1, <2>2, SmallestIs
  <2> QED
    BY <1>2, <2>1, <2>2
<1> HIDE DEF roomy
<1>6. CASE roomy
  <2>1. g = h1 /\ kind[p] = "roomy"
    BY <1>5, <1>6
  <2>2. PagesSound(h1, kind, Null)
    BY <2>1, <1>3, <1>4 DEF PagesSound, RoomKnown
  <2>3. Same(h, h1, ListFields \cup {"entry", "page_allocated", "actual_mem_used"})
    BY <1>3 DEF Same, ListFields
  <2>4. EntryFreed(h, h1, kind, kind, e, p)
    BY <2>1, <2>2, <2>3, <1>3, <1>4 DEF EntryFreed, PlacesKept
  <2> QED
    BY <2>1, <2>4, <1>2, <1>3, <1>4 DEF roomy, h1, x
<1>7. CASE ~roomy
  <2> DEFINE g2 == BackToFreePages(h1, p)
             kind2 == [kind EXCEPT ![p] = "roomy"]
  <2>1. g = g2 /\ kind[p] = "full"
    BY <1>2, <1>5, <1>7
  <2>2. /\ Same(h1, g2, ListFields) /\ Relinked(h1.page, g2.page)
        /\ PagesSound(g2, kind2, Null)
    BY <2>1, <1>2, <1>3, <1>4, BackToFreePagesIs
  <2>3. kind2[p] = "roomy" /\ \A q \in DOMAIN h.page \ {p} : kind2[q] = kind[q]
    BY <1>1, <1>2
  <2> HIDE DEF g2, kind2
  <2>4. g2.entry = h1.entry
    BY <2>2 DEF Same, Fields, ListFields
  <2>5. Same(h, g2, ListFields \cup {"entry", "page_allocated", "actual_mem_used"})
    BY <2>2, <1>3 DEF Same, ListFields
  <2>6. /\ DOMAIN g2.page = DOMAIN h.page
        /\ \A q \in DOMAIN h.page : g2.page[q].data_size = h.page[q].data_size
    BY <2>2, <1>3, <1>4 DEF Relinked, PlacesKept
  <2>7. UsedKept(h, g2, e)
    BY <2>4, <1>3 DEF UsedKept
  <2>8. EntryFreed(h, g2, kind, kind2, e, p)
    BY <2>2, <2>3, <2>5, <2>6, <2>7 DEF EntryFreed
  <2> QED
    BY <2>1, <2>3, <2>4, <2>6, <2>8, <1>2, <1>3 DEF roomy, h1, x
<1> QED
  BY <1>6, <1>7

\* A page may be given back once its last block is freed.
LEMMA FreedTwice ==
    ASSUME NEW h, NEW g, NEW f, NEW kind, NEW kind2, NEW kind3, NEW e, NEW p,
           EntryFreed(h, g, kind, kind2, e, p), EntryFreed(g, f, kind2, kind3, Null, p),
           Null \notin DOMAIN h.entry
    PROVE  EntryFreed(h, f, kind, kind3, e, p)
<1>1. Same(h, f, ListFields \cup {"entry", "page_allocated", "actual_mem_used"})
  BY DEF EntryFreed, Same
<1>2. \A q \in DOMAIN h.page \ {p} : /\ q \in DOMAIN f.page /\ kind3[q] = kind[q]
                                     /\ f.page[q].data_size = h.page[q].data_size
  BY DEF EntryFreed
<1>3. UsedKept(h, f, e)
  <2>1. UsedKept(h, g, e) /\ UsedKept(g, f, Null)
    BY DEF EntryFreed
  <2>2. IsEntries(g.entry)
    BY SoundFacts DEF EntryFreed
  <2>3. Null \notin DOMAIN g.entry
    BY <2>2, EntryIsPlace
  <2> QED
    BY <2>1, <2>3 DEF UsedKept
<1>4. \A q \in DOMAIN f.page : q \in DOMAIN h.page /\ (q = p => kind3[q] = "roomy")
  BY DEF EntryFreed
<1> QED
  BY <1>1, <1>2, <1>3, <1>4 DEF EntryFreed

\* Page p has a block in use, if it is left, and the others have theirs.
LEMMA UsedAfterFree ==
    ASSUME NEW h, NEW g, NEW kind, NEW kind2, NEW e, NEW p, PagesSound(h, kind, Null),
           EntryFreed(h, g, kind, kind2, e, p), e[1] = p, PagesUsed(h, Null),
           p \in DOMAIN g.page => \E u \in DOMAIN g.entry : u[1] = p /\ ~g.entry[u].free_block
    PROVE  PagesUsed(g, Null)
<1> SUFFICES ASSUME NEW x \in DOMAIN g.entry
             PROVE  \E f \in DOMAIN g.entry : f[1] = x[1] /\ ~g.entry[f].free_block
  BY DEF PagesUsed
<1>1. /\ EntriesSound(h, MediumPages(kind)) /\ EntriesSound(g, MediumPages(kind2))
      /\ DOMAIN kind = DOMAIN h.page /\ DOMAIN kind2 = DOMAIN g.page
      /\ Null \notin DOMAIN h.page
  BY SoundFacts DEF EntryFreed
<1>2. x[1] \in MediumPages(kind2) /\ x[1] \in DOMAIN g.page
  BY <1>1, SoundParts
<1>3. CASE x[1] = p
  BY <1>2, <1>3
<1>4. CASE x[1] # p
  <2>1. x[1] \in MediumPages(kind)
    BY <1>1, <1>2, <1>4 DEF EntryFreed, MediumPages
  <2>2. <<x[1], 0>> \in DOMAIN h.entry /\ <<x[1], 0>>[1] = x[1] /\ x[1] # Null
    BY <2>1, <1>1, SoundParts DEF Tiled, OnPages, MediumPages
  <2>3. PICK f \in DOMAIN h.entry : f[1] = x[1] /\ ~h.entry[f].free_block
    BY <2>2 DEF PagesUsed
  <2>4. f # e
    BY <2>3, <1>4
  <2> QED
    BY <2>3, <2>4 DEF EntryFreed, UsedKept
<1> QED
  BY <1>3, <1>4

\* A free entry that is not the whole page has a neighbour, which is in use.
LEMMA NeighbourUsed ==
    ASSUME NEW h, NEW M, EntriesSound(h, M), Spaced(h.entry, Null), NEW x \in DOMAIN h.entry,
           h.entry[x].free_block, h.entry[x].size # PageSize
    PROVE  \E u \in DOMAIN h.entry : u[1] = x[1] /\ ~h.entry[u].free_block
<1> DEFINE en == h.entry
<1>1. /\ IsEntries(en) /\ Null \notin DOMAIN en
      /\ NextTiled(en) /\ PrevTiled(en)
  BY SoundParts, EntryIsPlace DEF Tiled
<1>2. CASE en[x].next # Null
  <2>1. en[x].next = <<x[1], End(en, x)>> /\ en[x].next \in DOMAIN en
    BY <1>1, <1>2 DEF NextTiled
  <2>2. ~en[en[x].next].free_block
    BY <1>1, <1>2 DEF Spaced
  <2> QED
    BY <2>1, <2>2
<1>3. CASE en[x].next = Null
  <2>1. x[2] + en[x].size = PageSize
    BY <1>1, <1>3 DEF NextTiled, End
  <2>2. x[2] # 0
    BY <2>1, <1>1, EntryFacts
  <2>3. en[x].prev # Null /\ en[x].prev \in DOMAIN en /\ en[x].prev[1] = x[1]
        /\ en[en[x].prev].next = x
    BY <2>2, <1>1, EntryIsPlace DEF PrevTiled
  <2>4. ~en[en[x].prev].free_block
    BY <2>3, <1>1 DEF Spaced
  <2> QED
    BY <2>3, <2>4
<1> QED
  BY <1>2, <1>3

\* MediumFree: merged, relisted, given back.
LEMMA MediumFreeIs ==
    ASSUME NEW h, NEW d, NEW kind, Sound(h, d, kind), NEW ptr \in DOMAIN d,
           h.mark[ptr] = "medium"
    PROVE  \E kind2 : Sound(MediumFree(h, ptr), Dropped(d, ptr), kind2)
<1> DEFINE p == ptr[1]
           e == <<p, ptr[2] - MediumHeader>>
           h0 == Unmark(h, ptr)
           x == MergePrev(h0, e).free
           h1 == FreeEntry(h0, e)
           h2 == IF h0.page[p].largest_free >= MediumSmallest THEN h1 ELSE BackToFreePages(h1, p)
           g == IF Size(h2, x) = h2.page[p].data_size THEN FreePage(LeaveFreePages(h2, p), p)
                ELSE h2
<1>1. /\ SmallSound(h, kind) /\ HeldSound(h, kind, d) /\ PagesSound(h, kind, Null) /\ IsHeap(h)
      /\ DOMAIN kind = DOMAIN h.page /\ h.created = TRUE
      /\ Null \notin DOMAIN h.page /\ IsEntries(h.entry) /\ DOMAIN d = DOMAIN h.mark
      /\ PagesUsed(h, Null)
  BY SoundAsFacts DEF Sound
<1>2. /\ Same(h, h0, {"mark"}) /\ h0.mark = Dropped(h.mark, ptr)
  BY <1>1 DEF IsHeap, Same, Fields, Unmark, Dropped
<1>3. g = MediumFree(h, ptr)
  <2>1. h0.page[p].largest_free = h.page[p].largest_free
    BY <1>2 DEF Same, Fields
  <2> QED
    BY <2>1 DEF MediumFree, FreeEntry
<1> HIDE DEF h0
<1>4. /\ h0.page = h.page /\ h0.entry = h.entry /\ h0.idx = h.idx
      /\ h0.small_first_free = h.small_first_free /\ h0.small_cur_page = h.small_cur_page
      /\ h0.small_cur_page_offset = h.small_cur_page_offset /\ h0.created = h.created
      /\ h0.small_used_pages = h.small_used_pages
      /\ Same(h, h0, SmallFields)
  BY <1>2 DEF Same, Fields, SmallFields
<1>5. PagesSound(h0, kind, Null)
  BY <1>1, <1>4, PagesSame
<1>6. ptr \in Place /\ e = EntryOf(ptr) /\ e[1] = p /\ e \in DOMAIN h.entry
      /\ ~h.entry[e].free_block
  <2>1. BlockHeld(h, kind, ptr, d[ptr])
    BY <1>1 DEF HeldSound
  <2> QED
    BY <2>1 DEF BlockHeld, EntryOf
<1> HIDE DEF e
<1>7. /\ p \in DOMAIN h2.page /\ p \in DOMAIN h.page /\ kind[p] \in {"roomy", "full"}
      /\ x \in DOMAIN h2.entry /\ x[1] = p /\ h2.entry[x].free_block
      /\ \E kind1 : EntryFreed(h0, h2, kind, kind1, e, p) /\ kind1[p] = "roomy"
  <2> HIDE DEF p
  <2> QED
    BY <1>4, <1>5, <1>6, MediumRoomyAgain
<1> HIDE DEF h2, x
<1>8. PICK kind1 : EntryFreed(h0, h2, kind, kind1, e, p) /\ kind1[p] = "roomy"
  BY <1>7
<1>9. PICK kind2 : EntryFreed(h0, g, kind, kind2, e, p) /\ PagesUsed(g, Null)
  <2>1. CASE Size(h2, x) = h2.page[p].data_size
    <3> DEFINE g2 == FreePage(LeaveFreePages(h2, p), p)
               kind2 == Dropped(kind1, p)
    <3>1. g = g2
      BY <2>1
    <3>2. PagesSound(h2, kind1, Null) /\ h2.entry[x].size = h2.page[p].data_size
      BY <2>1, <1>8 DEF EntryFreed, Size
    <3>8. WholeFree(h2, kind1, x) /\ x[1] = p
      BY <3>2, <1>7, <1>8 DEF WholeFree
    <3> HIDE DEF p
    <3>3. /\ Same(h2, g2, ListFields \cup {"entry", "page_allocated", "actual_mem_used"})
          /\ PagesSound(g2, kind2, Null)
          /\ DOMAIN g2.page = DOMAIN h2.page \ {p}
          /\ \A q \in DOMAIN g2.page : g2.page[q].data_size = h2.page[q].data_size
          /\ UsedKept(h2, g2, Null)
      <4>1. GivenBack(h2, FreePage(LeaveFreePages(h2, x[1]), x[1]), kind1, x[1])
        BY <3>8, GiveBackIs
      <4>2. GivenBack(h2, g2, kind1, p)
        BY <3>8, <4>1
      <4> HIDE DEF g2
      <4> QED
        BY <4>2 DEF GivenBack
    <3>4. \A q \in DOMAIN h2.page \ {p} : kind2[q] = kind1[q]
      <4>1. DOMAIN kind1 = DOMAIN h2.page
        BY <3>2, SoundFacts
      <4> QED
        BY <4>1 DEF Dropped, Without
    <3> HIDE DEF g2, kind2
    <3>5. EntryFreed(h2, g2, kind1, kind2, Null, p)
      BY <3>3, <3>4 DEF EntryFreed
    <3>6. Null \notin DOMAIN h0.entry
      BY <1>1, <1>4, EntryIsPlace
    <3>7. EntryFreed(h0, g2, kind, kind2, e, p)
      BY <3>5, <3>6, <1>8, FreedTwice
    <3>9. PagesUsed(h0, Null) /\ e[1] = p /\ p \notin DOMAIN g2.page
      BY <1>1, <1>4, <1>6, <3>3, UsedStays
    <3>10. PagesUsed(g2, Null)
      BY <3>7, <3>9, <1>5, UsedAfterFree
    <3> QED
      BY <3>1, <3>7, <3>10
  <2>2. CASE Size(h2, x) # h2.page[p].data_size
    <3>1. PagesSound(h2, kind1, Null) /\ h2.entry[x].size # h2.page[p].data_size
      BY <2>2, <1>8 DEF EntryFreed, Size
    <3>2. h2.page[p].data_size = PageSize
      BY <3>1, <1>7, <1>8, SoundFacts DEF PagesSound
    <3>3. \E u \in DOMAIN h2.entry : u[1] = x[1] /\ ~h2.entry[u].free_block
      BY <3>1, <3>2, <1>7, NeighbourUsed DEF PagesSound
    <3>4. PagesUsed(h0, Null) /\ e[1] = p
      BY <1>1, <1>4, <1>6, UsedStays
    <3> HIDE DEF p
    <3>5. PagesUsed(h2, Null)
      BY <3>3, <3>4, <1>5, <1>7, <1>8, UsedAfterFree
    <3> QED
      BY <2>2, <3>5, <1>8
  <2> QED
    BY <2>1, <2>2
<1> HIDE DEF g
<1>10. /\ g.idx = h.idx /\ g.mark = Dropped(h.mark, ptr)
       /\ g.small_first_free = h.small_first_free /\ g.small_cur_page = h.small_cur_page
       /\ g.small_cur_page_offset = h.small_cur_page_offset /\ g.created = h.created
       /\ g.small_used_pages = h.small_used_pages
  BY <1>2, <1>4, <1>9 DEF EntryFreed, Same, Fields, ListFields
<1>11. SmallSound(g, kind2)
  <2>1. \A b \in DOMAIN g.mark : b \in DOMAIN h.mark
    BY <1>10 DEF Dropped, Without
  <2>2. SmallKept(h, g, kind, kind2)
    BY <2>1, <1>4, <1>7, <1>9, <1>10 DEF SmallKept, EntryFreed
  <2> QED
    BY <2>2, <1>1, SmallStays
<1>12. HeldSound(g, kind2, Dropped(d, ptr))
  <2>1. BlocksKept(h, g, kind, kind2, e, Null)
    BY <1>4, <1>7, <1>9, <1>10 DEF BlocksKept, EntryFreed, UsedKept
  <2>2. OthersSpared(h, d, ptr, e, Null)
    <3> SUFFICES ASSUME NEW b \in DOMAIN d \ {ptr}
                 PROVE  /\ h.mark[b] = "medium" => EntryOf(b) # e
                        /\ h.mark[b] = "large" => b[1] # Null
      BY DEF OthersSpared
    <3>1. BlockHeld(h, kind, b, d[b])
      BY <1>1 DEF HeldSound
    <3>2. b \in Place
      BY <3>1 DEF BlockHeld
    <3>3. EntryOf(b) # e
      BY <3>2, <1>6, Sizes DEF EntryOf, Place
    <3> QED
      BY <3>1, <3>3, <1>1 DEF BlockHeld
  <2> QED
    BY <2>1, <2>2, <1>1, <1>10, HeldLess
<1>13. SoundAs(g, Dropped(d, ptr), kind2)
  BY <1>1, <1>9, <1>10, <1>11, <1>12 DEF SoundAs, EntryFreed
<1>14. Sound(g, Dropped(d, ptr), kind2)
  BY <1>9, <1>13 DEF Sound
<1> QED
  BY <1>3, <1>14

-----------------------------------------------------------------------------
(* Large blocks.                                                            *)

\* A block in use lies on a page of the heap.
LEMMA HeldOnPages ==
    ASSUME NEW h, NEW d, NEW kind, SoundAs(h, d, kind), NEW b \in DOMAIN d
    PROVE  b \in Place /\ b[1] \in DOMAIN h.page
<1>1. BlockHeld(h, kind, b, d[b])
  BY SoundAsFacts DEF HeldSound
<1>2. h.mark[b] = "small" => b[1] \in DOMAIN h.page
  BY <1>1, SoundAsFacts DEF BlockHeld, SmallSound, BlocksPlaced
<1>3. h.mark[b] = "medium" => b[1] \in DOMAIN h.page
  <2> SUFFICES ASSUME h.mark[b] = "medium" PROVE b[1] \in DOMAIN h.page
    OBVIOUS
  <2>1. EntryOf(b) \in DOMAIN h.entry
    BY <1>1 DEF BlockHeld
  <2>2. EntriesSound(h, MediumPages(kind))
    BY SoundAsFacts
  <2>3. EntryOf(b)[1] \in DOMAIN h.page
    BY <2>1, <2>2, SoundParts
  <2> QED
    BY <2>3 DEF EntryOf
<1> QED
  BY <1>1, <1>2, <1>3 DEF BlockHeld

\* LargeAllocate: a page of its own.
LEMMA LargeAllocateIs ==
    ASSUME NEW h, NEW d, NEW kind, Sound(h, d, kind), load \in Loads, NEW n \in Nat
    PROVE  Allocated(d, n, LargeAllocate(h, n))
<1> DEFINE p == NewPage(h)
           ptr == <<p, LargeHeader>>
           bytes == n + LargeHeader
           a == AllocatePage(h, p, bytes)
           h1 == PushPage(a, p, h.large_first_used_page)
           g1 == [h1 EXCEPT !.large_first_used_page = p]
           g == Mark(g1, ptr, "large")
           k == "large"
           kind2 == Added(kind, p, k)
           r == LargeAllocate(h, n)
<1>1. /\ SmallSound(h, kind) /\ HeldSound(h, kind, d) /\ PagesSound(h, kind, Null) /\ IsHeap(h)
      /\ DOMAIN kind = DOMAIN h.page /\ h.created = TRUE /\ DOMAIN h.page \subseteq Page
      /\ Null \notin DOMAIN h.page /\ IsEntries(h.entry) /\ DOMAIN d = DOMAIN h.mark
      /\ SoundAs(h, d, kind) /\ PagesUsed(h, Null)
  BY SoundAsFacts DEF Sound
<1>2. r = IF ~HasPage(h) THEN Failed(h) ELSE [heap |-> g, ptr |-> ptr]
  BY DEF LargeAllocate
<1> HIDE DEF r
<1>3. CASE ~HasPage(h)
  BY <1>2, <1>3 DEF Failed, Allocated, r
<1>4. CASE HasPage(h)
  <2>1. p \in Page /\ p \notin DOMAIN h.page /\ bytes \in Nat /\ LargeHeader \in Nat
        /\ bytes = LargeHeader + n
    BY <1>1, <1>4, NewPageIs, Sizes
  <2>2. k \in {"small", "large"} /\ (k = "small" => bytes = PageSize)
    OBVIOUS
  <2>3. r.ptr = ptr /\ r.heap = g
    BY <1>2, <1>4
  <2>4. ptr \in Place /\ ptr # Null /\ ptr[1] = p /\ ptr[2] = LargeHeader
    BY <2>1, PageAssumption DEF Place
  <2>5. ptr \notin DOMAIN d /\ ptr \notin DOMAIN h.idx
    BY <1>1, <2>1, <2>4, HeldOnPages DEF SmallSound, BlocksPlaced
  <2> HIDE DEF p, bytes, ptr
  <2>6. /\ Same(h, a, {"page", "page_allocated", "actual_mem_used"})
        /\ DOMAIN a.page = DOMAIN h.page \cup {p}
        /\ a.page[p] = NewRec(bytes)
        /\ \A q \in DOMAIN h.page : a.page[q] = h.page[q]
        /\ Unlisted(a, kind2, p)
        /\ kind2[p] = "large"
        /\ \A q \in DOMAIN h.page : kind2[q] = kind[q]
    <3> HIDE DEF k
    <3>1. /\ Same(h, a, {"page", "page_allocated", "actual_mem_used"})
          /\ DOMAIN a.page = DOMAIN h.page \cup {p}
          /\ a.page[p] = NewRec(bytes)
          /\ \A q \in DOMAIN h.page : a.page[q] = h.page[q]
          /\ Unlisted(a, kind2, p)
          /\ kind2[p] = k
          /\ \A q \in DOMAIN h.page : kind2[q] = kind[q]
      BY <1>1, <2>1, <2>2, PageAdded
    <3> QED
      BY <3>1 DEF k
  <2> HIDE DEF a, kind2
  <2>7. a.large_first_used_page = h.large_first_used_page
    BY <2>6 DEF Same, Fields
  <2>8. h1 = PushPage(a, p, a.large_first_used_page)
    BY <2>7
  <2> HIDE DEF h1
  <2>9. /\ PagesSound(g1, kind2, Null) /\ Same(a, g1, ListFields)
        /\ Relinked(a.page, g1.page)
    BY <2>6, <2>8, LargePageListed
  <2> HIDE DEF g1
  <2>10. Same(g1, g, {"mark"}) /\ g.mark = With(g1.mark, ptr, "large")
    BY <2>9 DEF IsHeap, Same, Fields, Mark
  <2> HIDE DEF g
  <2>11. /\ g.idx = h.idx /\ g.mark = With(h.mark, ptr, "large")
         /\ g.small_first_free = h.small_first_free /\ g.small_cur_page = h.small_cur_page
         /\ g.small_cur_page_offset = h.small_cur_page_offset /\ g.created = h.created
         /\ g.entry = h.entry /\ g.page = g1.page /\ Same(g1, g, SmallFields)
         /\ g.small_used_pages = h.small_used_pages
    BY <2>6, <2>9, <2>10 DEF Same, Fields, ListFields, SmallFields
  <2>12. PagesSound(g, kind2, Null)
    BY <2>9, <2>11, PagesSame
  <2>13. /\ DOMAIN g.page = DOMAIN h.page \cup {p} /\ g.page[p].data_size = bytes
         /\ \A q \in DOMAIN h.page :
               q \in DOMAIN g.page /\ g.page[q].data_size = h.page[q].data_size
    BY <2>6, <2>9, <2>11 DEF Relinked, NewRec
  <2>14. SmallSound(g, kind2)
    <3>1. \A b \in DOMAIN g.mark : b \in DOMAIN h.mark \/ b = ptr
      BY <2>11 DEF With
    <3>2. SmallKept(h, g, kind, kind2)
      BY <3>1, <2>5, <2>6, <2>11, <2>13 DEF SmallKept
    <3> QED
      BY <3>2, <1>1, SmallStays
  <2>15. HeldSound(g, kind2, With(d, ptr, n))
    <3>1. BlocksKept(h, g, kind, kind2, Null, Null)
      BY <2>6, <2>11, <2>13 DEF BlocksKept, UsedKept
    <3>2. g.mark[ptr] = "large"
      BY <2>11 DEF With
    <3>3. BlockHeld(g, kind2, ptr, n)
      BY <3>2, <2>1, <2>4, <2>6, <2>13 DEF BlockHeld
    <3> QED
      BY <3>1, <3>3, <1>1, <2>11, HeldMore
  <2>16. SoundAs(g, With(d, ptr, n), kind2)
    BY <1>1, <2>11, <2>12, <2>14, <2>15 DEF SoundAs
  <2>17. PagesUsed(g, Null)
    BY <1>1, <2>11, UsedStays
  <2> QED
    BY <2>3, <2>5, <2>16, <2>17 DEF Allocated, Sound, r
<1> QED
  BY <1>3, <1>4

\* LargeFree: the page is given back.
LEMMA LargeFreeIs ==
    ASSUME NEW h, NEW d, NEW kind, Sound(h, d, kind), NEW ptr \in DOMAIN d,
           h.mark[ptr] = "large"
    PROVE  \E kind2 : Sound(LargeFree(h, ptr), Dropped(d, ptr), kind2)
<1> DEFINE p == ptr[1]
           h0 == Unmark(h, ptr)
           h1 == [UnlinkPage(h0, p) EXCEPT
                    !.large_first_used_page = IF p = @ THEN h0.page[p].next ELSE @]
           g == FreePage(h1, p)
           kind2 == Dropped(kind, p)
<1>1. /\ SmallSound(h, kind) /\ HeldSound(h, kind, d) /\ PagesSound(h, kind, Null) /\ IsHeap(h)
      /\ DOMAIN kind = DOMAIN h.page /\ h.created = TRUE
      /\ Null \notin DOMAIN h.page /\ IsEntries(h.entry) /\ DOMAIN d = DOMAIN h.mark
      /\ EntriesSound(h, MediumPages(kind)) /\ PagesUsed(h, Null)
  BY SoundAsFacts DEF Sound
<1>2. /\ Same(h, h0, {"mark"}) /\ h0.mark = Dropped(h.mark, ptr)
  BY <1>1 DEF IsHeap, Same, Fields, Unmark, Dropped
<1>3. g = LargeFree(h, ptr)
  <2>1. h0.page = h.page
    BY <1>2 DEF Same, Fields
  <2> HIDE DEF h0
  <2>2. g = FreePage([UnlinkPage(h0, p) EXCEPT
                        !.large_first_used_page = IF p = @ THEN h.page[p].next ELSE @], p)
    BY <2>1
  <2> QED
    BY <2>2 DEF LargeFree, h0
<1> HIDE DEF h0
<1>4. /\ h0.page = h.page /\ h0.entry = h.entry /\ h0.idx = h.idx
      /\ h0.small_first_free = h.small_first_free /\ h0.small_cur_page = h.small_cur_page
      /\ h0.small_cur_page_offset = h.small_cur_page_offset /\ h0.created = h.created
      /\ h0.small_used_pages = h.small_used_pages
      /\ Same(h, h0, SmallFields)
  BY <1>2 DEF Same, Fields, SmallFields
<1>5. PagesSound(h0, kind, Null)
  BY <1>1, <1>4, PagesSame
<1>6. /\ p \in DOMAIN h.page /\ kind[p] = "large" /\ ptr[2] = LargeHeader /\ ptr \in Place
  <2>1. BlockHeld(h, kind, ptr, d[ptr])
    BY <1>1 DEF HeldSound
  <2> QED
    BY <2>1 DEF BlockHeld
<1> HIDE DEF p
<1>7. /\ Unlisted(h1, kind, p) /\ Same(h0, h1, ListFields) /\ Relinked(h0.page, h1.page)
  BY <1>4, <1>5, <1>6, LargePageUnlisted
<1> HIDE DEF h1
<1>8. /\ Same(h1, g, BookFields) /\ PagesSound(g, kind2, Null) /\ PageLost(h1, g, p)
  BY <1>7, PageGone
<1> HIDE DEF g
<1>9. \A q \in DOMAIN h.page \ {p} : kind2[q] = kind[q]
  BY <1>1 DEF Dropped, Without
<1> HIDE DEF kind2
<1>10. /\ g.idx = h.idx /\ g.mark = Dropped(h.mark, ptr)
       /\ g.small_first_free = h.small_first_free /\ g.small_cur_page = h.small_cur_page
       /\ g.small_cur_page_offset = h.small_cur_page_offset /\ g.created = h.created
       /\ h1.entry = h.entry /\ g.small_used_pages = h.small_used_pages
  BY <1>2, <1>4, <1>7, <1>8 DEF Same, Fields, ListFields, BookFields
<1>11. /\ DOMAIN g.page = DOMAIN h.page \ {p}
       /\ \A q \in DOMAIN h.page \ {p} : g.page[q].data_size = h.page[q].data_size
  BY <1>4, <1>7, <1>8 DEF Relinked, PageLost
<1>12. SmallSound(g, kind2)
  <2>1. \A b \in DOMAIN g.mark : b \in DOMAIN h.mark
    BY <1>10 DEF Dropped, Without
  <2>2. SmallKept(h, g, kind, kind2)
    BY <2>1, <1>6, <1>9, <1>10, <1>11 DEF SmallKept
  <2> QED
    BY <2>2, <1>1, SmallStays
<1>13. \A e \in DOMAIN h.entry : e[1] # p
  <2>1. \A e \in DOMAIN h.entry : e[1] \in MediumPages(kind)
    BY <1>1, SoundParts
  <2> QED
    BY <2>1, <1>6 DEF MediumPages
<1>14. HeldSound(g, kind2, Dropped(d, ptr))
  <2>1. UsedKept(h, g, Null)
    BY <1>8, <1>10, <1>13 DEF UsedKept, PageLost
  <2>2. BlocksKept(h, g, kind, kind2, Null, p)
    BY <2>1, <1>9, <1>10, <1>11 DEF BlocksKept
  <2>3. OthersSpared(h, d, ptr, Null, p)
    <3> SUFFICES ASSUME NEW b \in DOMAIN d \ {ptr}
                 PROVE  /\ h.mark[b] = "medium" => EntryOf(b) # Null
                        /\ h.mark[b] = "large" => b[1] # p
      BY DEF OthersSpared
    <3>1. BlockHeld(h, kind, b, d[b])
      BY <1>1 DEF HeldSound
    <3>2. h.mark[b] = "medium" => EntryOf(b) # Null
      BY <3>1, <1>1, EntryIsPlace DEF BlockHeld
    <3>3. h.mark[b] = "large" => b[1] # p
      <4> SUFFICES ASSUME h.mark[b] = "large", b[1] = p PROVE FALSE
        OBVIOUS
      <4>1. b \in Place /\ b[2] = LargeHeader
        BY <3>1 DEF BlockHeld
      <4>2. b = <<b[1], b[2]>> /\ ptr = <<ptr[1], ptr[2]>>
        BY <4>1, <1>6 DEF Place
      <4> QED
        BY <4>1, <4>2, <1>6 DEF p
    <3> QED
      BY <3>2, <3>3
  <2> QED
    BY <2>2, <2>3, <1>1, <1>10, HeldLess
<1>15. PagesUsed(g, Null)
  <2>1. \A e \in DOMAIN g.entry : e \in DOMAIN h.entry
    BY <1>8, <1>10 DEF PageLost
  <2> QED
    BY <2>1, <1>1, <1>8, <1>10, <1>13 DEF PagesUsed, PageLost
<1>16. Sound(g, Dropped(d, ptr), kind2)
  BY <1>1, <1>8, <1>10, <1>12, <1>14, <1>15 DEF Sound, SoundAs
<1> QED
  BY <1>3, <1>16

-----------------------------------------------------------------------------
(* Every allocation, and a new heap.                                        *)

\* AR_AllocFromHeap, for every size.
LEMMA AllocIs ==
    ASSUME NEW h, NEW d, NEW kind, Sound(h, d, kind), load \in Loads, NEW n \in Nat
    PROVE  Allocated(d, n, AllocFromHeap(h, n))
<1>1. SmallSize \in Nat /\ MediumSize \in Nat
  BY Sizes
<1>2. CASE n <= SmallSize
  <2>1. Allocated(d, n, SmallAllocate(h, n))
    BY <1>2, SmallAllocateIs
  <2> QED
    BY <2>1, <1>2 DEF AllocFromHeap
<1>3. CASE n > SmallSize /\ n <= MediumSize
  <2>1. Allocated(d, n, MediumAllocate(h, n))
    BY <1>3, MediumAllocateIs
  <2>2. ~(n <= SmallSize)
    BY <1>1, <1>3
  <2> QED
    BY <2>1, <2>2, <1>3 DEF AllocFromHeap
<1>4. CASE ~(n <= SmallSize) /\ ~(n <= MediumSize)
  <2>1. Allocated(d, n, LargeAllocate(h, n))
    BY LargeAllocateIs
  <2> QED
    BY <2>1, <1>4 DEF AllocFromHeap
<1> QED
  BY <1>1, <1>2, <1>3, <1>4

\* AR_FreeToHeap, whatever the mark of the block says.
LEMMA FreeIs ==
    ASSUME NEW h, NEW d, NEW kind, Sound(h, d, kind), NEW ptr \in DOMAIN d
    PROVE  \E kind2 : Sound(FreeToHeap(h, ptr), Dropped(d, ptr), kind2)
<1>1. SoundAs(h, d, kind) /\ PagesUsed(h, Null) /\ BlockHeld(h, kind, ptr, d[ptr])
  BY SoundAsFacts DEF Sound, HeldSound
<1>2. h.mark[ptr] \in {"small", "medium", "large"}
  BY <1>1 DEF BlockHeld
<1>3. CASE h.mark[ptr] = "small"
  <2>1. SoundAs(SmallFree(h, ptr), Dropped(d, ptr), kind) /\ SmallFree(h, ptr).entry = h.entry
    BY <1>1, <1>3, SmallFreeIs
  <2>2. FreeToHeap(h, ptr) = SmallFree(h, ptr)
    BY <1>3 DEF FreeToHeap
  <2>3. PagesUsed(SmallFree(h, ptr), Null)
    BY <2>1, <1>1, UsedStays
  <2> QED
    BY <2>1, <2>2, <2>3 DEF Sound
<1>4. CASE h.mark[ptr] = "medium"
  <2>1. FreeToHeap(h, ptr) = MediumFree(h, ptr)
    BY <1>4 DEF FreeToHeap
  <2> QED
    BY <2>1, <1>4, MediumFreeIs
<1>5. CASE h.mark[ptr] = "large"
  <2>1. FreeToHeap(h, ptr) = LargeFree(h, ptr)
    BY <1>5 DEF FreeToHeap
  <2> QED
    BY <2>1, <1>5, LargeFreeIs
<1> QED
  BY <1>2, <1>3, <1>4, <1>5

NoPages == [q \in {} |-> Null]

\* No pages are sound.
LEMMA NoHeapIs ==
    /\ PagesSound(NoHeap, NoPages, Null)
    /\ NoHeap.page = NoPages /\ NoHeap.idx = NoPages /\ NoHeap.mark = NoPages
    /\ NoHeap.small_first_free = [i \in Indices |-> <<>>]
    /\ NoHeap.small_used_pages = <<>> /\ DOMAIN NoHeap.entry = {}
<1> DEFINE h == NoHeap
           kind == NoPages
<1>1. IsHeap(h)
  BY DEF NoHeap, IsHeap, Fields
<1>2. /\ h.page = <<>> /\ h.entry = <<>> /\ h.idx = <<>> /\ h.mark = <<>>
      /\ h.small_first_free = [i \in Indices |-> <<>>]
      /\ h.medium_first_free_page = Null /\ h.medium_last_free_page = Null
      /\ h.medium_first_used_page = Null /\ h.large_first_used_page = Null
      /\ h.small_used_pages = <<>> /\ h.page_allocated = 0 /\ h.actual_mem_used = 0
  BY DEF NoHeap
<1> HIDE DEF h
<1>3. NoPages = <<>> /\ DOMAIN kind = {}
  BY DEF NoPages
<1>4. /\ DOMAIN h.page = {} /\ DOMAIN h.entry = {}
  BY <1>2, <1>3
<1>5. IsPages(h.page) /\ IsEntries(h.entry)
  <2>1. h.page \in [{} -> PageRec] /\ h.entry \in [{} -> EntryRec]
    BY <1>2, <1>3 DEF NoPages
  <2> QED
    BY <2>1, <1>4 DEF IsPages, IsEntries
<1>6. MediumPages(kind) = {}
  BY <1>3 DEF MediumPages
<1>7. EntriesSound(h, MediumPages(kind)) /\ Spaced(h.entry, Null)
  <2>1. FreeRanked(FreeSet(h.entry), h.entry)
    <3> DEFINE rank == [e \in {} |-> 0]
    <3>1. rank \in [FreeSet(h.entry) -> Nat] /\ FreeSet(h.entry) = {}
      BY <1>4 DEF FreeSet
    <3> HIDE DEF rank
    <3>2. FreeRank(FreeSet(h.entry), h.entry, rank)
      BY <3>1 DEF FreeRank
    <3> QED
      BY <3>2 DEF FreeRanked
  <2> QED
    BY <1>1, <1>4, <1>5, <1>6, <2>1
       DEF EntriesSound, Spaced, Tiled, OnPages, Sized, NextTiled, PrevTiled, Apart, FreeLinked,
           FreeNext, FreePrev, FirstFree, FreeSet
<1>8. Linked(DOMAIN h.page, h.page, kind, Heads(h), h.medium_last_free_page)
  <2>1. \A k \in ListKinds : Heads(h)[k] = Null
    BY <1>2, HeadsAre DEF ListKinds
  <2>2. "roomy" \in ListKinds
    BY DEF ListKinds
  <2>3. Ranked(DOMAIN h.page, h.page)
    <3> DEFINE rank == [q \in {} |-> 0]
    <3>1. rank \in [DOMAIN h.page -> Nat] /\ 0 \in Nat
      BY <1>4
    <3> HIDE DEF rank
    <3> QED
      BY <3>1, <1>4 DEF Ranked
  <2> QED
    BY <2>1, <2>2, <2>3, <1>2, <1>4 DEF Linked, NextSound, PrevSound, HeadsSound, LastSound
<1>9. RoomKnown(h, kind, Null) /\ kind \in [DOMAIN h.page -> Kinds]
  BY <1>3, <1>4 DEF RoomKnown, NoPages
<1>10. Booked(h)
  <2> DEFINE sum == [A \in SUBSET {} |-> 0]
  <2>1. sum \in [SUBSET {} -> Nat] /\ sum[{}] = 0
    OBVIOUS
  <2> HIDE DEF sum
  <2>2. Weighs(h.page, sum) /\ h.actual_mem_used = sum[DOMAIN h.page]
    BY <2>1, <1>2, <1>4 DEF Weighs
  <2>3. h.page_allocated = Cardinality(DOMAIN h.page)
    BY <1>2, <1>4, FS_EmptySet
  <2> QED
    BY <2>2, <2>3 DEF Booked
<1>11. PagesSound(h, kind, Null)
  BY <1>3, <1>7, <1>8, <1>9, <1>10 DEF PagesSound
<1> QED
  BY <1>2, <1>3, <1>4, <1>11 DEF h

\* The new heap has one page, for small blocks.
LEMMA CreateIs ==
    LET p == NewPage(NoHeap)
        g == [AllocatePage(NoHeap, p, PageSize) EXCEPT
                !.created = TRUE,
                !.small_cur_page = p,
                !.small_cur_page_offset = SmallAlign(0)]
    IN  \E kind : Sound(g, <<>>, kind)
<1> DEFINE h == NoHeap
           p == NewPage(h)
           a == AllocatePage(h, p, PageSize)
           off == SmallAlign(0)
           yes == TRUE
           g == [a EXCEPT !.created = yes, !.small_cur_page = p, !.small_cur_page_offset = off]
           kind == NoPages
           k == "small"
           kind2 == Added(kind, p, k)
<1>1. /\ PagesSound(h, kind, Null) /\ IsHeap(h)
      /\ h.page = NoPages /\ h.idx = NoPages /\ h.mark = NoPages /\ DOMAIN NoPages = {}
      /\ h.small_first_free = [i \in Indices |-> <<>>]
      /\ h.small_used_pages = <<>> /\ DOMAIN h.entry = {}
  BY NoHeapIs, SoundFacts DEF NoPages
<1>2. p \in Page /\ p \notin DOMAIN h.page
  BY <1>1, PageAssumption DEF NewPage
<1>3. k \in {"small", "large"} /\ (k = "small" => PageSize = PageSize) /\ PageSize \in Nat
  BY Sizes
<1>4. yes = TRUE
  OBVIOUS
<1> HIDE DEF h, kind, p, yes
<1>5. /\ Same(h, a, {"page", "page_allocated", "actual_mem_used"})
      /\ DOMAIN a.page = DOMAIN h.page \cup {p}
      /\ a.page[p] = NewRec(PageSize)
      /\ Unlisted(a, kind2, p)
      /\ kind2[p] = k
  <2> HIDE DEF k
  <2> QED
    BY <1>1, <1>2, <1>3, PageAdded
<1> HIDE DEF a, kind2
<1>6. PagesSound(a, kind2, Null)
  BY <1>5, SmallPageListed DEF NewRec
<1>7. off \in 0 .. PageSize /\ ((off + SmallHeader) % Align) = 0
  BY FirstOffset
<1> HIDE DEF off
<1>8. /\ Same(a, g, {"created", "small_cur_page", "small_cur_page_offset"})
      /\ g.created = yes /\ g.small_cur_page = p /\ g.small_cur_page_offset = off
  BY <1>5 DEF IsHeap, Same, Fields
<1> HIDE DEF g
<1>9. /\ g.idx = NoPages /\ g.mark = NoPages /\ g.page = a.page /\ g.entry = a.entry
      /\ g.small_first_free = [i \in Indices |-> <<>>] /\ IsHeap(g)
      /\ g.medium_first_free_page = a.medium_first_free_page
      /\ g.medium_last_free_page = a.medium_last_free_page
      /\ g.medium_first_used_page = a.medium_first_used_page
      /\ g.large_first_used_page = a.large_first_used_page
      /\ g.small_used_pages = <<>> /\ DOMAIN g.entry = {}
      /\ g.page_allocated = a.page_allocated /\ g.actual_mem_used = a.actual_mem_used
  BY <1>1, <1>5, <1>8 DEF Same, Fields
<1>10. PagesSound(g, kind2, Null)
  <2>1. Heads(g) = Heads(a)
    BY <1>9 DEF Heads
  <2>2. EntriesSound(g, MediumPages(kind2))
    BY <1>6, <1>9 DEF PagesSound, EntriesSound
  <2>3. RoomKnown(g, kind2, Null)
    BY <1>6, <1>9 DEF PagesSound, RoomKnown, Known
  <2>4. Booked(g)
    <3>1. BooksKept(a, g)
      BY <1>9 DEF BooksKept
    <3> QED
      BY <3>1, <1>6, BookedStays DEF PagesSound
  <2> QED
    BY <2>1, <2>2, <2>3, <2>4, <1>6, <1>9 DEF PagesSound
<1>11. SmallSound(g, kind2)
  <2>1. BlocksPlaced(g, kind2) /\ BlocksDisjoint(g.idx)
    <3>1. g.idx \in [{} -> Indices] /\ DOMAIN g.idx = {}
      BY <1>9 DEF NoPages
    <3> QED
      BY <3>1 DEF BlocksPlaced, BlocksDisjoint
  <2>2. CurrentSound(g, kind2)
    BY <1>5, <1>7, <1>8, <1>9 DEF CurrentSound
  <2>3. WaitingSound(g)
    <3>1. g.small_first_free \in [Indices -> Seq(DOMAIN g.idx)]
      BY <1>9
    <3>2. \A i \in Indices : DOMAIN g.small_first_free[i] = {}
      BY <1>9
    <3> QED
      BY <3>1, <3>2 DEF WaitingSound
  <2>4. SmallListed(g, kind2)
    <3>1. SmallPages(g, kind2) \ {g.small_cur_page} = {}
      BY <1>1, <1>5, <1>8, <1>9 DEF SmallPages
    <3>2. <<>> \in Seq({}) /\ DOMAIN <<>> = {}
      OBVIOUS
    <3> QED
      BY <3>1, <3>2, <1>9 DEF SmallListed
  <2> QED
    BY <2>1, <2>2, <2>3, <2>4 DEF SmallSound
<1>12. HeldSound(g, kind2, <<>>)
  <2>1. DOMAIN g.mark = {} /\ DOMAIN <<>> = {}
    BY <1>9 DEF NoPages
  <2> QED
    BY <2>1 DEF HeldSound
<1>13. SoundAs(g, <<>>, kind2)
  BY <1>4, <1>8, <1>10, <1>11, <1>12 DEF SoundAs
<1>14. Sound(g, <<>>, kind2)
  BY <1>9, <1>13 DEF Sound, PagesUsed
<1> QED
  BY <1>14 DEF g, a, p, h, off, yes

-----------------------------------------------------------------------------
(* The end of the heap.                                                     *)

\* s holds each element of S once, and nothing else.
Holds(s, S) ==
    /\ s \in Seq(S)
    /\ \A p \in S : \E i \in DOMAIN s : s[i] = p
    /\ \A i, j \in DOMAIN s : s[i] = s[j] => i = j

\* Two lists of different things, one behind the other.
LEMMA HoldsJoined ==
    ASSUME NEW S, NEW T, S \cap T = {}, NEW s, NEW t, Holds(s, S), Holds(t, T)
    PROVE  Holds(s \o t, S \cup T)
<1> DEFINE U == S \cup T
           u == s \o t
<1>1. s \in Seq(U) /\ t \in Seq(U) /\ s \in Seq(S) /\ t \in Seq(T)
  BY DEF Holds
<1>2. /\ u \in Seq(U) /\ Len(u) = Len(s) + Len(t)
      /\ \A i \in 1 .. Len(s) + Len(t) : u[i] = IF i <= Len(s) THEN s[i] ELSE t[i - Len(s)]
  BY <1>1, ConcatProperties
<1>3. /\ Len(s) \in Nat /\ Len(t) \in Nat /\ DOMAIN s = 1 .. Len(s) /\ DOMAIN t = 1 .. Len(t)
      /\ DOMAIN u = 1 .. Len(s) + Len(t)
  BY <1>1, <1>2
<1> HIDE DEF u, U
<1>4. ASSUME NEW p \in U PROVE \E i \in DOMAIN u : u[i] = p
  <2>1. CASE p \in S
    <3>1. PICK i \in DOMAIN s : s[i] = p
      BY <2>1 DEF Holds
    <3>2. i \in DOMAIN u /\ i <= Len(s) /\ i \in 1 .. Len(s) + Len(t)
      BY <1>3
    <3> QED
      BY <3>1, <3>2, <1>2
  <2>2. CASE p \in T
    <3>1. PICK i \in DOMAIN t : t[i] = p
      BY <2>2 DEF Holds
    <3> DEFINE j == Len(s) + i
    <3>2. j \in DOMAIN u /\ ~(j <= Len(s)) /\ j \in 1 .. Len(s) + Len(t) /\ j - Len(s) = i
      BY <1>3
    <3> HIDE DEF j
    <3> QED
      BY <3>1, <3>2, <1>2
  <2> QED
    BY <2>1, <2>2 DEF U
<1>5. ASSUME NEW i \in DOMAIN u, NEW j \in DOMAIN u, u[i] = u[j] PROVE i = j
  <2>1. \A k \in DOMAIN u :
           IF k <= Len(s) THEN k \in DOMAIN s /\ u[k] = s[k] /\ u[k] \in S
           ELSE k - Len(s) \in DOMAIN t /\ u[k] = t[k - Len(s)] /\ u[k] \in T
    <3> TAKE k \in DOMAIN u
    <3>1. CASE k <= Len(s)
      <4>1. k \in DOMAIN s /\ u[k] = s[k]
        BY <3>1, <1>2, <1>3
      <4> QED
        BY <4>1, <3>1, <1>1
    <3>2. CASE ~(k <= Len(s))
      <4>1. k - Len(s) \in DOMAIN t /\ u[k] = t[k - Len(s)]
        BY <3>2, <1>2, <1>3
      <4>2. \A m \in DOMAIN t : t[m] \in T
        BY <1>1
      <4> QED
        BY <4>1, <4>2, <3>2
    <3> QED
      BY <3>1, <3>2
  <2>2. CASE i <= Len(s) /\ j <= Len(s)
    <3>1. i \in DOMAIN s /\ j \in DOMAIN s /\ s[i] = s[j]
      BY <2>1, <2>2, <1>5
    <3> QED
      BY <3>1 DEF Holds
  <2>3. CASE ~(i <= Len(s)) /\ ~(j <= Len(s))
    <3>1. i - Len(s) \in DOMAIN t /\ j - Len(s) \in DOMAIN t /\ t[i - Len(s)] = t[j - Len(s)]
      BY <2>1, <2>3, <1>5
    <3>2. i - Len(s) = j - Len(s)
      BY <3>1 DEF Holds
    <3> QED
      BY <3>2, <1>3
  <2> QED
    BY <2>1, <2>2, <2>3, <1>5
<1> QED
  BY <1>2, <1>4, <1>5 DEF Holds, u, U

\* Such a list is as long as there are things in it.
LEMMA HoldsCounted ==
    ASSUME NEW S, NEW s, Holds(s, S)
    PROVE  /\ Len(s) = Cardinality(S) /\ {s[k] : k \in DOMAIN s} = S
           /\ Len(s) \in Nat /\ DOMAIN s = 1 .. Len(s) /\ \A k \in DOMAIN s : s[k] \in S
<1>1. /\ Len(s) \in Nat /\ DOMAIN s = 1 .. Len(s) /\ s \in [1 .. Len(s) -> S]
      /\ \A k \in DOMAIN s : s[k] \in S
  BY DEF Holds
<1>2. s \in Bijection(1 .. Len(s), S)
  BY <1>1 DEF Holds, Bijection, Injection, Surjection, IsInjective
<1>3. ExistsBijection(1 .. Len(s), S)
  BY <1>2 DEF ExistsBijection
<1>4. IsFiniteSet(1 .. Len(s)) /\ Cardinality(1 .. Len(s)) = Len(s)
  <2>1. 1 \in Int /\ Len(s) \in Int /\ (IF 1 > Len(s) THEN 0 ELSE Len(s) - 1 + 1) = Len(s)
    BY <1>1
  <2> QED
    BY <2>1, FS_Interval
<1>5. Cardinality(S) = Len(s)
  BY <1>3, <1>4, FS_Bijection
<1>6. {s[k] : k \in DOMAIN s} = S
  BY <1>1 DEF Holds
<1> QED
  BY <1>1, <1>5, <1>6

\* Each page is on one list, and once.
LEMMA ListedPagesIs ==
    ASSUME NEW h, NEW d, NEW kind, Sound(h, d, kind)
    PROVE  Holds(ListedPages(h), DOMAIN h.page)
<1>1. /\ PagesSound(h, kind, Null) /\ SmallSound(h, kind) /\ DOMAIN kind = DOMAIN h.page
      /\ kind \in [DOMAIN h.page -> Kinds]
  BY SoundAsFacts DEF Sound, PagesSound
<1> DEFINE cur == <<h.small_cur_page>>
           used == h.small_used_pages
           roomy == Pages(h, h.medium_first_free_page)
           full == Pages(h, h.medium_first_used_page)
           large == Pages(h, h.large_first_used_page)
           C == {h.small_cur_page}
           U == SmallPages(h, kind) \ C
           A == PagesIn(h, kind, "roomy")
           B == PagesIn(h, kind, "full")
           L == PagesIn(h, kind, "large")
<1>2. /\ h.small_cur_page \in DOMAIN h.page /\ kind[h.small_cur_page] = "small"
  BY <1>1 DEF SmallSound, CurrentSound
<1>3. Holds(cur, C)
  BY DEF Holds
<1>4. Holds(used, U)
  BY <1>1 DEF Holds, SmallSound, SmallListed
<1>5. Holds(roomy, A) /\ Holds(full, B) /\ Holds(large, L)
  <2>1. \A k \in ListKinds : Holds(Pages(h, Heads(h)[k]), PagesIn(h, kind, k))
    <3> TAKE k \in ListKinds
    <3>1. Listing(h, kind, k, Pages(h, Heads(h)[k]))
      BY <1>1, PagesListed
    <3> QED
      BY <3>1 DEF Listing, Holds
  <2> QED
    BY <2>1, HeadsAre DEF ListKinds
<1>6. ListedPages(h) = cur \o used \o roomy \o full \o large
  BY DEF ListedPages
<1>7. /\ C \cap U = {} /\ (C \cup U) \cap A = {} /\ ((C \cup U) \cup A) \cap B = {}
      /\ (((C \cup U) \cup A) \cup B) \cap L = {}
      /\ (((C \cup U) \cup A) \cup B) \cup L = DOMAIN h.page
  BY <1>1, <1>2 DEF SmallPages, PagesIn, Kinds, ListKinds
<1> HIDE DEF cur, used, roomy, full, large, C, U, A, B, L
<1>8. Holds(cur \o used, C \cup U)
  BY <1>3, <1>4, <1>7, HoldsJoined
<1>9. Holds((cur \o used) \o roomy, (C \cup U) \cup A)
  BY <1>5, <1>7, <1>8, HoldsJoined
<1>10. Holds(((cur \o used) \o roomy) \o full, ((C \cup U) \cup A) \cup B)
  BY <1>5, <1>7, <1>9, HoldsJoined
<1>11. Holds((((cur \o used) \o roomy) \o full) \o large, (((C \cup U) \cup A) \cup B) \cup L)
  BY <1>5, <1>7, <1>10, HoldsJoined
<1> QED
  BY <1>6, <1>7, <1>11

\* The heap as the pages of s are given back one after another.
IsFreed(f, n, h, s) == f = [k \in 0 .. n |-> IF k = 0 THEN h ELSE FreePage(f[k - 1], s[k])]

\* Giving back pages one after another is a function of their number.
LEMMA FreedExists ==
    ASSUME NEW n \in Nat, NEW h, NEW s
    PROVE  \E f : IsFreed(f, n, h, s)
<1> DEFINE T == {k \in Nat : \E f : IsFreed(f, k, h, s)}
<1>1. 0 \in T
  <2> DEFINE f == [k \in 0 .. 0 |-> h]
  <2>1. IsFreed(f, 0, h, s)
    BY DEF IsFreed
  <2> QED
    BY <2>1
<1>2. ASSUME NEW m \in T PROVE m + 1 \in T
  <2>1. PICK f : IsFreed(f, m, h, s)
    OBVIOUS
  <2> DEFINE g == [k \in 0 .. m + 1 |-> IF k = m + 1 THEN FreePage(f[m], s[k]) ELSE f[k]]
  <2>2. /\ DOMAIN f = 0 .. m
        /\ \A k \in 0 .. m : f[k] = IF k = 0 THEN h ELSE FreePage(f[k - 1], s[k])
    BY <2>1 DEF IsFreed
  <2>3. \A k \in 0 .. m : k \in 0 .. m + 1 /\ k # m + 1
    OBVIOUS
  <2>4. \A k \in 0 .. m : g[k] = f[k]
    BY <2>3
  <2>5. g[m + 1] = FreePage(f[m], s[m + 1]) /\ g[m] = f[m]
    BY <2>4
  <2>6. DOMAIN g = 0 .. m + 1 /\ g = [k \in 0 .. m + 1 |-> g[k]]
    OBVIOUS
  <2> HIDE DEF g
  <2>7. \A k \in 0 .. m + 1 : g[k] = IF k = 0 THEN h ELSE FreePage(g[k - 1], s[k])
    <3> TAKE k \in 0 .. m + 1
    <3>1. CASE k = m + 1
      BY <3>1, <2>5
    <3>2. CASE k # m + 1
      <4>1. k \in 0 .. m /\ (k # 0 => k - 1 \in 0 .. m)
        BY <3>2
      <4> QED
        BY <4>1, <2>2, <2>4
    <3> QED
      BY <3>1, <3>2
  <2>8. IsFreed(g, m + 1, h, s)
    BY <2>6, <2>7 DEF IsFreed
  <2> QED
    BY <2>8
<1>3. Nat \subseteq T
  <2>1. T \in SUBSET Nat
    OBVIOUS
  <2> HIDE DEF T
  <2> QED
    BY <1>1, <1>2, <2>1, InductionOverNat
<1> QED
  BY <1>3

\* The pages from place i of s on are left, and the books are right.
Left(h, s, i) ==
    /\ IsHeap(h) /\ IsPages(h.page) /\ Booked(h)
    /\ \A p \in DOMAIN h.page : \E j \in DOMAIN s : i < j /\ s[j] = p
    /\ \A j \in DOMAIN s : i < j => s[j] \in DOMAIN h.page

\* One page more is given back.
LEMMA LeftLess ==
    ASSUME NEW h, NEW s, NEW i \in Nat, Left(h, s, i), i + 1 \in DOMAIN s, DOMAIN s \subseteq Nat,
           \A j, k \in DOMAIN s : s[j] = s[k] => j = k
    PROVE  Left(FreePage(h, s[i + 1]), s, i + 1)
<1> DEFINE p == s[i + 1]
           g == FreePage(h, p)
<1>1. p \in DOMAIN h.page /\ IsHeap(h) /\ IsPages(h.page) /\ Booked(h)
  <2>1. i < i + 1
    OBVIOUS
  <2> QED
    BY <2>1 DEF Left
<1>2. /\ IsHeap(g) /\ g.page = Without(h.page, {p})
      /\ g.page_allocated = h.page_allocated - 1
      /\ g.actual_mem_used = h.actual_mem_used - h.page[p].data_size - PageHeader
  <2>1. Same(h, g, {"page", "entry", "page_allocated", "actual_mem_used"})
    BY <1>1, FreePageIs
  <2> HIDE DEF p
  <2>2. /\ g.page = Without(h.page, {p}) /\ g.page_allocated = h.page_allocated - 1
        /\ g.actual_mem_used = h.actual_mem_used - h.page[p].data_size - PageHeader
    BY <1>1, FreePageIs
  <2> QED
    BY <2>1, <2>2 DEF Same
<1> HIDE DEF g
<1>3. /\ DOMAIN g.page = DOMAIN h.page \ {p} /\ IsPages(g.page)
      /\ \A q \in DOMAIN g.page : g.page[q] = h.page[q]
  BY <1>1, <1>2 DEF Without, IsPages
<1>4. Booked(g)
  <2>1. h.page[p].data_size \in Nat /\ DOMAIN h.page \subseteq Page
    BY <1>1 DEF IsPages, PageRec
  <2> HIDE DEF p
  <2> QED
    BY <1>1, <1>2, <1>3, <2>1, BookedLess
<1>5. ASSUME NEW q \in DOMAIN g.page PROVE \E j \in DOMAIN s : i + 1 < j /\ s[j] = q
  <2>1. PICK j \in DOMAIN s : i < j /\ s[j] = q
    BY <1>3 DEF Left
  <2>2. j # i + 1
    BY <1>3, <2>1
  <2>3. i + 1 < j
    BY <2>1, <2>2
  <2> QED
    BY <2>1, <2>3
<1>6. ASSUME NEW j \in DOMAIN s, i + 1 < j PROVE s[j] \in DOMAIN g.page
  <2>1. i < j /\ j # i + 1
    BY <1>6
  <2>2. s[j] \in DOMAIN h.page /\ s[j] # p
    BY <2>1 DEF Left
  <2> QED
    BY <2>2, <1>3
<1> QED
  BY <1>2, <1>3, <1>4, <1>5, <1>6 DEF Left, g, p

\* Then no page is left and nothing in the books.
LEMMA FreedAll ==
    ASSUME NEW h, IsHeap(h), IsPages(h.page), Booked(h), NEW s, Holds(s, DOMAIN h.page),
           NEW f, IsFreed(f, Len(s), h, s)
    PROVE  LET g == f[Len(s)]
           IN  g.page = <<>> /\ g.page_allocated = 0 /\ g.actual_mem_used = 0
<1> DEFINE n == Len(s)
           g == f[n]
<1>1. /\ n \in Nat /\ DOMAIN s = 1 .. n /\ \A j, k \in DOMAIN s : s[j] = s[k] => j = k
      /\ {s[k] : k \in DOMAIN s} = DOMAIN h.page
  BY HoldsCounted DEF Holds
<1>2. \A k \in 0 .. n : f[k] = IF k = 0 THEN h ELSE FreePage(f[k - 1], s[k])
  BY DEF IsFreed
<1> HIDE DEF n, g
<1> DEFINE T == {i \in Nat : i <= n => Left(f[i], s, i)}
<1>3. 0 \in T
  <2>1. f[0] = h
    BY <1>1, <1>2
  <2>2. Left(h, s, 0)
    BY <1>1 DEF Left
  <2> QED
    BY <2>1, <2>2
<1>4. ASSUME NEW i \in T PROVE i + 1 \in T
  <2>1. CASE i + 1 <= n
    <3>1. i + 1 \in 0 .. n /\ i + 1 # 0 /\ (i + 1) - 1 = i /\ i <= n /\ i + 1 \in DOMAIN s
          /\ DOMAIN s \subseteq Nat
      BY <2>1, <1>1
    <3>2. f[i + 1] = FreePage(f[i], s[i + 1])
      BY <3>1, <1>2
    <3>3. Left(f[i], s, i) /\ i \in Nat
      BY <3>1
    <3>4. Left(f[i + 1], s, i + 1)
      BY <3>1, <3>2, <3>3, <1>1, LeftLess
    <3> QED
      BY <3>4
  <2>2. CASE ~(i + 1 <= n)
    BY <2>2
  <2> QED
    BY <2>1, <2>2
<1>5. Left(f[n], s, n)
  <2>1. T \in SUBSET Nat
    OBVIOUS
  <2>2. Nat \subseteq T
    <3> HIDE DEF T
    <3> QED
      BY <1>3, <1>4, <2>1, InductionOverNat
  <2> QED
    BY <2>2, <1>1
<1>6. DOMAIN g.page = {} /\ IsPages(g.page) /\ Booked(g)
  <2>1. \A j \in DOMAIN s : ~(n < j)
    BY <1>1
  <2> QED
    BY <2>1, <1>5 DEF Left, g
<1>7. g.page = <<>>
  <2>1. g.page = NoPages /\ NoPages = <<>>
    BY <1>6 DEF NoPages, IsPages
  <2> QED
    BY <2>1
<1>8. g.page_allocated = 0
  BY <1>6, FS_EmptySet DEF Booked
<1>9. g.actual_mem_used = 0
  BY <1>6 DEF Booked, Weighs
<1> QED
  BY <1>7, <1>8, <1>9 DEF g, n

\* A heap that is given up is as if it had never been.
LEMMA DestroyIs ==
    ASSUME NEW h, NEW d, NEW kind, Sound(h, d, kind)
    PROVE  LET pages == ListedPages(h)
               freed[k \in 0 .. Len(pages)] ==
                   IF k = 0 THEN h ELSE FreePage(freed[k - 1], pages[k])
               g == freed[Len(pages)]
           IN  [NoHeap EXCEPT !.page = g.page,
                              !.page_allocated = g.page_allocated,
                              !.actual_mem_used = g.actual_mem_used] = NoHeap
<1> DEFINE pages == ListedPages(h)
           n == Len(pages)
           freed == CHOOSE f : IsFreed(f, n, h, pages)
           g == freed[n]
<1>1. IsHeap(h) /\ IsPages(h.page) /\ Booked(h)
  BY SoundAsFacts, SoundFacts DEF Sound, PagesSound
<1>2. Holds(pages, DOMAIN h.page)
  BY ListedPagesIs
<1>3. IsFreed(freed, n, h, pages)
  <2>1. n \in Nat
    BY <1>2 DEF Holds
  <2> HIDE DEF n, pages
  <2>2. \E f : IsFreed(f, n, h, pages)
    BY <2>1, FreedExists
  <2> QED
    BY <2>2
<1> HIDE DEF pages, freed
<1>4. g.page = <<>> /\ g.page_allocated = 0 /\ g.actual_mem_used = 0
  BY <1>1, <1>2, <1>3, FreedAll
<1> HIDE DEF g
<1>5. [NoHeap EXCEPT !.page = g.page,
                     !.page_allocated = g.page_allocated,
                     !.actual_mem_used = g.actual_mem_used] = NoHeap
  <2> DEFINE r == [NoHeap EXCEPT !.page = g.page,
                                 !.page_allocated = g.page_allocated,
                                 !.actual_mem_used = g.actual_mem_used]
  <2>1. IsHeap(NoHeap) /\ IsHeap(r)
    BY DEF NoHeap, IsHeap, Fields
  <2>2. NoHeap.page = <<>> /\ NoHeap.page_allocated = 0 /\ NoHeap.actual_mem_used = 0
    BY DEF NoHeap
  <2>3. /\ r.page = g.page /\ r.page_allocated = g.page_allocated
        /\ r.actual_mem_used = g.actual_mem_used
        /\ \A x \in Fields \ {"page", "page_allocated", "actual_mem_used"} : r[x] = NoHeap[x]
    BY DEF NoHeap, Fields
  <2> HIDE DEF r
  <2>4. \A x \in Fields : r[x] = NoHeap[x]
    BY <1>4, <2>2, <2>3
  <2>5. r = NoHeap
    BY <2>1, <2>4 DEF IsHeap
  <2> QED
    BY <2>5 DEF r
<1> QED
  BY <1>5 DEF g, n, freed, pages, IsFreed

-----------------------------------------------------------------------------
(* The invariant.                                                           *)

\* The heap is sound, with some list for every page, or there is none.
HeapInv ==
    /\ load \in Loads /\ heap.created \in BOOLEAN
    /\ heap.created => \E kind : Sound(heap, held, kind)
    /\ ~heap.created => heap = NoHeap /\ held = <<>>

\* The invariant holds before AR_InitMemory.
LEMMA InvInit == HeapInit => HeapInv
  BY DEF HeapInit, HeapInv, NoHeap

\* Every operation keeps the invariant.
LEMMA InvNext == HeapInv /\ [HeapNext]_heap_vars => HeapInv'
<1> SUFFICES ASSUME HeapInv, [HeapNext]_heap_vars PROVE HeapInv'
  OBVIOUS
<1>1. CASE CreateHeap
  <2>1. held' = <<>> /\ load' = load /\ load \in Loads
    BY <1>1 DEF HeapInv, CreateHeap
  <2>2. \E kind : Sound(heap', <<>>, kind)
    BY <1>1, CreateIs DEF CreateHeap
  <2>3. PICK kind : Sound(heap', held', kind)
    BY <2>1, <2>2
  <2>4. heap'.created = TRUE
    BY <2>3 DEF Sound, SoundAs
  <2> QED
    BY <2>1, <2>3, <2>4 DEF HeapInv
<1>2. CASE DestroyHeap
  <2>1. held' = <<>> /\ load' = load /\ load \in Loads
    BY <1>2 DEF HeapInv, DestroyHeap
  <2>2. PICK kind : Sound(heap, held, kind)
    BY <1>2 DEF HeapInv, DestroyHeap
  <2>3. heap' = NoHeap
    BY <1>2, <2>2, DestroyIs DEF DestroyHeap
  <2>4. NoHeap.created = FALSE
    BY DEF NoHeap
  <2> QED
    BY <2>1, <2>3, <2>4 DEF HeapInv
<1>3. CASE Malloc
  <2>1. load' = load /\ load \in Loads /\ heap.created
    BY <1>3 DEF HeapInv, Malloc
  <2>2. PICK kind : Sound(heap, held, kind)
    BY <2>1 DEF HeapInv
  <2>3. PICK n \in load.sizes :
           LET r == AllocFromHeap(heap, n)
           IN  r.ptr # Null /\ heap' = r.heap /\ held' = With(held, r.ptr, n)
    BY <1>3 DEF Malloc
  <2>4. n \in Nat
    BY <2>1, PageAssumption
  <2>5. Allocated(held, n, AllocFromHeap(heap, n))
    BY <2>1, <2>2, <2>4, AllocIs
  <2>6. PICK kind2 : Sound(heap', held', kind2)
    BY <2>3, <2>5 DEF Allocated
  <2>7. heap'.created = TRUE
    BY <2>6 DEF Sound, SoundAs
  <2> QED
    BY <2>1, <2>6, <2>7 DEF HeapInv
<1>4. CASE Free
  <2>1. load' = load /\ load \in Loads /\ heap.created
    BY <1>4 DEF HeapInv, Free
  <2>2. PICK kind : Sound(heap, held, kind)
    BY <2>1 DEF HeapInv
  <2>3. PICK ptr \in DOMAIN held :
           heap' = FreeToHeap(heap, ptr) /\ held' = Dropped(held, ptr)
    BY <1>4 DEF Free, Dropped
  <2>4. \E kind2 : Sound(FreeToHeap(heap, ptr), Dropped(held, ptr), kind2)
    BY <2>2, FreeIs
  <2>5. PICK kind2 : Sound(heap', held', kind2)
    BY <2>3, <2>4
  <2>6. heap'.created = TRUE
    BY <2>5 DEF Sound, SoundAs
  <2> QED
    BY <2>1, <2>5, <2>6 DEF HeapInv
<1>5. CASE UNCHANGED heap_vars
  BY <1>5 DEF HeapInv, heap_vars
<1> QED
  BY <1>1, <1>2, <1>3, <1>4, <1>5 DEF HeapNext

\* Whatever is allocated and freed, and in whatever order: every page is on the
\* list of its kind, entries cover their pages, free ones are on the lists of
\* theirs, no two of them are neighbours, small blocks follow each other, and
\* what every block in use lies in is not free (heap.c).
THEOREM HeapInvariant == HeapSpec => []HeapInv
  BY InvInit, InvNext, PTL DEF HeapSpec

-----------------------------------------------------------------------------
(* Blocks are apart.                                                        *)

SmallExtent(b) == Extent(b, b[2] - SmallHeader, b[2] + SmallBytes(heap.idx[b]))

EntryExtent(e) == Extent(e, e[2], e[2] + Size(heap, e))

LargeExtent(b) == Extent(b, 0, heap.page[b[1]].data_size)

\* An extent lies in its page, from its first byte to before its last.
WithinPage(x) ==
    /\ x.from \in Int /\ x.to \in Int /\ 0 <= x.from
    /\ x.page \in DOMAIN heap.page /\ x.to <= heap.page[x.page].data_size

\* The memory of a small block with its header.
LEMMA SmallExtentIs ==
    ASSUME NEW kind, SoundAs(heap, held, kind), NEW b \in DOMAIN heap.idx
    PROVE  LET x == SmallExtent(b)
           IN  /\ x.page = b[1] /\ kind[b[1]] = "small" /\ b[1] \in DOMAIN heap.page
               /\ x.from = b[2] - SmallHeader /\ x.to = BlockEnd(heap.idx, b)
               /\ WithinPage(x) /\ b[2] % Align = 0 /\ b[2] \in Nat
<1>1. /\ b \in Place /\ heap.idx[b] \in Indices
      /\ b[1] \in DOMAIN heap.page /\ kind[b[1]] = "small"
      /\ b[2] >= SmallHeader /\ b[2] % Align = 0 /\ BlockEnd(heap.idx, b) <= PageSize
  <2>1. BlocksPlaced(heap, kind)
    BY SoundAsFacts DEF SmallSound
  <2> QED
    BY <2>1 DEF BlocksPlaced
<1>2. heap.page[b[1]].data_size = PageSize
  <2>1. \A q \in DOMAIN kind : kind[q] # "large" => heap.page[q].data_size = PageSize
    BY SoundAsFacts DEF PagesSound
  <2>2. DOMAIN kind = DOMAIN heap.page
    BY SoundAsFacts
  <2> QED
    BY <2>1, <2>2, <1>1
<1>3. SmallBytes(heap.idx[b]) \in Nat /\ b[2] \in Nat
  BY <1>1, SmallBytesIs DEF Place
<1> QED
  BY <1>1, <1>2, <1>3 DEF SmallExtent, Extent, BlockEnd, WithinPage, SmallHeader

\* The memory of an entry with its header.
LEMMA EntryExtentIs ==
    ASSUME NEW kind, SoundAs(heap, held, kind), NEW e \in DOMAIN heap.entry
    PROVE  LET x == EntryExtent(e)
           IN  /\ x.page = e[1] /\ kind[e[1]] \in {"roomy", "full"} /\ e[1] \in DOMAIN heap.page
               /\ x.from = e[2] /\ x.to = End(heap.entry, e)
               /\ WithinPage(x) /\ e[2] % Align = 0
<1>1. EntriesSound(heap, MediumPages(kind)) /\ IsEntries(heap.entry)
      /\ DOMAIN kind = DOMAIN heap.page /\ PagesSound(heap, kind, Null)
  BY SoundAsFacts
<1>2. /\ e[1] \in DOMAIN heap.page /\ e[1] \in MediumPages(kind)
      /\ Tiled(heap.entry, MediumPages(kind))
  BY <1>1, SoundParts
<1>3. e[2] \in Nat /\ End(heap.entry, e) \in Nat
  BY <1>1, EntryFacts
<1>4. End(heap.entry, e) <= PageSize /\ e[2] % Align = 0
  BY <1>2 DEF Tiled, Sized
<1>5. kind[e[1]] \in {"roomy", "full"}
  BY <1>2 DEF MediumPages
<1>6. heap.page[e[1]].data_size = PageSize
  BY <1>1, <1>2, <1>5 DEF PagesSound
<1> QED
  BY <1>2, <1>3, <1>4, <1>5, <1>6 DEF EntryExtent, Extent, End, Size, WithinPage

\* The memory of a large block with its header.
LEMMA LargeExtentIs ==
    ASSUME NEW kind, SoundAs(heap, held, kind), NEW b \in DOMAIN held, heap.mark[b] = "large"
    PROVE  LET x == LargeExtent(b)
           IN  /\ x.page = b[1] /\ kind[b[1]] = "large" /\ b[1] \in DOMAIN heap.page
               /\ x.from = 0 /\ x.to = heap.page[b[1]].data_size
               /\ x.to = LargeHeader + held[b] /\ b[2] = LargeHeader /\ held[b] \in Nat
               /\ WithinPage(x)
<1>1. BlockHeld(heap, kind, b, held[b])
  BY SoundAsFacts DEF HeldSound
<1>2. /\ b[1] \in DOMAIN heap.page /\ kind[b[1]] = "large" /\ b[2] = LargeHeader
      /\ heap.page[b[1]].data_size = LargeHeader + held[b] /\ held[b] \in Nat
  BY <1>1 DEF BlockHeld
<1>3. LargeHeader \in Nat
  BY Sizes
<1> QED
  BY <1>2, <1>3 DEF LargeExtent, Extent, WithinPage

\* All memory something is kept in is of one of three kinds.
LEMMA ExtentCases ==
    ASSUME NEW x \in Extents
    PROVE  \/ \E b \in DOMAIN heap.idx : x = SmallExtent(b)
           \/ \E e \in DOMAIN heap.entry : x = EntryExtent(e)
           \/ \E b \in DOMAIN held : heap.mark[b] = "large" /\ x = LargeExtent(b)
  BY DEF Extents, SmallExtent, EntryExtent, LargeExtent

\* Extents of the same page that overlap are one.
LEMMA ExtentsApart ==
    ASSUME NEW kind, SoundAs(heap, held, kind), NEW x \in Extents, NEW y \in Extents,
           x.page = y.page, x # y
    PROVE  x.to <= y.from \/ y.to <= x.from
<1>1. CASE \E b \in DOMAIN heap.idx : x = SmallExtent(b)
  <2>1. PICK b \in DOMAIN heap.idx : x = SmallExtent(b)
    BY <1>1
  <2>2. x.page = b[1] /\ kind[b[1]] = "small" /\ x.from = b[2] - SmallHeader
        /\ x.to = BlockEnd(heap.idx, b)
    BY <2>1, SmallExtentIs
  <2>3. CASE \E c \in DOMAIN heap.idx : y = SmallExtent(c)
    <3>1. PICK c \in DOMAIN heap.idx : y = SmallExtent(c)
      BY <2>3
    <3>2. y.page = c[1] /\ y.from = c[2] - SmallHeader /\ y.to = BlockEnd(heap.idx, c)
      BY <3>1, SmallExtentIs
    <3>3. b # c
      BY <2>1, <3>1
    <3>4. BlocksDisjoint(heap.idx)
      BY SoundAsFacts DEF SmallSound
    <3> QED
      BY <2>2, <3>2, <3>3, <3>4 DEF BlocksDisjoint
  <2>4. CASE \E e \in DOMAIN heap.entry : y = EntryExtent(e)
    <3>1. PICK e \in DOMAIN heap.entry : y = EntryExtent(e)
      BY <2>4
    <3>2. y.page = e[1] /\ kind[e[1]] \in {"roomy", "full"}
      BY <3>1, EntryExtentIs
    <3> QED
      BY <2>2, <3>2
  <2>5. CASE \E c \in DOMAIN held : heap.mark[c] = "large" /\ y = LargeExtent(c)
    <3>1. PICK c \in DOMAIN held : heap.mark[c] = "large" /\ y = LargeExtent(c)
      BY <2>5
    <3>2. y.page = c[1] /\ kind[c[1]] = "large"
      BY <3>1, LargeExtentIs
    <3> QED
      BY <2>2, <3>2
  <2> QED
    BY <2>3, <2>4, <2>5, ExtentCases
<1>2. CASE \E e \in DOMAIN heap.entry : x = EntryExtent(e)
  <2>1. PICK e \in DOMAIN heap.entry : x = EntryExtent(e)
    BY <1>2
  <2>2. x.page = e[1] /\ kind[e[1]] \in {"roomy", "full"} /\ x.from = e[2]
        /\ x.to = End(heap.entry, e)
    BY <2>1, EntryExtentIs
  <2>3. CASE \E c \in DOMAIN heap.idx : y = SmallExtent(c)
    BY <2>2, <2>3, SmallExtentIs, ZenonT(40)
  <2>4. CASE \E f \in DOMAIN heap.entry : y = EntryExtent(f)
    <3>1. PICK f \in DOMAIN heap.entry : y = EntryExtent(f)
      BY <2>4
    <3>2. y.page = f[1] /\ y.from = f[2] /\ y.to = End(heap.entry, f)
      BY <3>1, EntryExtentIs
    <3>3. e # f
      BY <2>1, <3>1
    <3>4. Apart(heap.entry)
      BY SoundAsFacts, SoundParts DEF Tiled
    <3> QED
      BY <2>2, <3>2, <3>3, <3>4 DEF Apart
  <2>5. CASE \E c \in DOMAIN held : heap.mark[c] = "large" /\ y = LargeExtent(c)
    <3>1. PICK c \in DOMAIN held : heap.mark[c] = "large" /\ y = LargeExtent(c)
      BY <2>5
    <3>2. y.page = c[1] /\ kind[c[1]] = "large"
      BY <3>1, LargeExtentIs
    <3> QED
      BY <2>2, <3>2
  <2> QED
    BY <2>3, <2>4, <2>5, ExtentCases
<1>3. CASE \E b \in DOMAIN held : heap.mark[b] = "large" /\ x = LargeExtent(b)
  <2>1. PICK b \in DOMAIN held : heap.mark[b] = "large" /\ x = LargeExtent(b)
    BY <1>3
  <2>2. x.page = b[1] /\ kind[b[1]] = "large"
    BY <2>1, LargeExtentIs
  <2>3. CASE \E c \in DOMAIN heap.idx : y = SmallExtent(c)
    BY <2>2, <2>3, SmallExtentIs
  <2>4. CASE \E e \in DOMAIN heap.entry : y = EntryExtent(e)
    <3>1. PICK e \in DOMAIN heap.entry : y = EntryExtent(e)
      BY <2>4
    <3>2. y.page = e[1] /\ kind[e[1]] \in {"roomy", "full"}
      BY <3>1, EntryExtentIs
    <3> QED
      BY <2>2, <3>2
  <2>5. CASE \E c \in DOMAIN held : heap.mark[c] = "large" /\ y = LargeExtent(c)
    <3>1. PICK c \in DOMAIN held : heap.mark[c] = "large" /\ y = LargeExtent(c)
      BY <2>5
    <3>2. y.page = c[1]
      BY <3>1, LargeExtentIs
    <3>3. x = y
      BY <2>1, <2>2, <3>1, <3>2 DEF LargeExtent, Extent
    <3> QED
      BY <3>3
  <2> QED
    BY <2>3, <2>4, <2>5, ExtentCases
<1> QED
  BY <1>1, <1>2, <1>3, ExtentCases

\* A block in use lies in its extent, behind its header.
LEMMA BlockInExtent ==
    ASSUME NEW kind, SoundAs(heap, held, kind), NEW b \in DOMAIN held
    PROVE  /\ b[2] % Align = 0
           /\ \E x \in Extents : /\ x.page = b[1]
                                 /\ b[2] = x.from + HeaderOf(heap.mark[b])
                                 /\ b[2] + held[b] <= x.to
<1>1. BlockHeld(heap, kind, b, held[b])
  BY SoundAsFacts DEF HeldSound
<1>2. heap.mark[b] \in {"small", "medium", "large"} /\ b \in Place /\ held[b] \in Nat
  BY <1>1 DEF BlockHeld
<1>3. CASE heap.mark[b] = "small"
  <2>1. b \in DOMAIN heap.idx /\ held[b] <= SmallBytes(heap.idx[b])
    BY <1>1, <1>3 DEF BlockHeld
  <2>2. SmallExtent(b) \in Extents
    BY <2>1 DEF Extents, SmallExtent
  <2>3. /\ SmallExtent(b).page = b[1] /\ SmallExtent(b).from = b[2] - SmallHeader
        /\ SmallExtent(b).to = BlockEnd(heap.idx, b) /\ b[2] % Align = 0 /\ b[2] \in Nat
    BY <2>1, SmallExtentIs
  <2>4. HeaderOf(heap.mark[b]) = SmallHeader
    BY <1>3 DEF HeaderOf
  <2>5. SmallBytes(heap.idx[b]) \in Nat
    BY <2>1, SoundAsFacts, SmallBytesIs DEF SmallSound, BlocksPlaced
  <2>6. b[2] = SmallExtent(b).from + SmallHeader /\ b[2] + held[b] <= SmallExtent(b).to
    BY <2>1, <2>3, <2>5, <1>2 DEF SmallHeader, BlockEnd
  <2> QED
    BY <2>2, <2>3, <2>4, <2>6
<1>4. CASE heap.mark[b] = "medium"
  <2> DEFINE e == EntryOf(b)
  <2>1. e \in DOMAIN heap.entry /\ MediumHeader + held[b] <= heap.entry[e].size
    BY <1>1, <1>4 DEF BlockHeld
  <2>2. EntryExtent(e) \in Extents
    BY <2>1 DEF Extents, EntryExtent
  <2>3. /\ EntryExtent(e).page = e[1] /\ EntryExtent(e).from = e[2]
        /\ EntryExtent(e).to = End(heap.entry, e) /\ e[2] % Align = 0
    BY <2>1, EntryExtentIs
  <2>4. HeaderOf(heap.mark[b]) = MediumHeader
    BY <1>4 DEF HeaderOf
  <2>5. e[1] = b[1] /\ e[2] = b[2] - MediumHeader /\ b[2] \in Nat /\ MediumHeader \in Nat
    BY <1>2, Sizes DEF EntryOf, Place
  <2>6. heap.entry[e].size \in Nat
    BY <2>1, SoundAsFacts, EntryFacts
  <2> HIDE DEF e
  <2>7. b[2] = e[2] + MediumHeader /\ e[2] \in Int
    BY <2>5
  <2>8. b[2] % Align = 0
    <3>1. MediumHeader % Align = 0 /\ MediumHeader \in Int
      BY <2>5, HeapAssumption
    <3> QED
      BY <3>1, <2>3, <2>7, Multiples
  <2>9. b[2] + held[b] <= End(heap.entry, e)
    BY <2>1, <2>5, <2>6, <2>7, <1>2 DEF End
  <2> QED
    BY <2>2, <2>3, <2>4, <2>5, <2>7, <2>8, <2>9
<1>5. CASE heap.mark[b] = "large"
  <2>1. LargeExtent(b) \in Extents
    BY <1>5 DEF Extents, LargeExtent
  <2>2. /\ LargeExtent(b).page = b[1] /\ LargeExtent(b).from = 0
        /\ LargeExtent(b).to = LargeHeader + held[b] /\ b[2] = LargeHeader
    BY <1>5, LargeExtentIs
  <2>3. HeaderOf(heap.mark[b]) = LargeHeader
    BY <1>5 DEF HeaderOf
  <2>4. LargeHeader % Align = 0 /\ LargeHeader \in Nat
    BY HeapAssumption, Sizes
  <2>5. b[2] = LargeExtent(b).from + LargeHeader /\ b[2] + held[b] <= LargeExtent(b).to
    BY <2>2, <2>4, <1>2
  <2> QED
    BY <2>1, <2>2, <2>3, <2>4, <2>5
<1> QED
  BY <1>2, <1>3, <1>4, <1>5

\* A sound heap keeps blocks apart.
LEMMA SoundApart == HeapInv => BlocksApart
<1> SUFFICES ASSUME HeapInv, heap.created PROVE BlocksApart
  BY DEF BlocksApart
<1>1. PICK kind : SoundAs(heap, held, kind)
  BY DEF HeapInv, Sound
<1>2. ASSUME NEW x \in Extents
      PROVE  /\ 0 <= x.from /\ x.to <= heap.page[x.page].data_size
             /\ \A y \in Extents \ {x} : x.page = y.page => x.to <= y.from \/ y.to <= x.from
  <2>1. WithinPage(x)
    BY <1>1, ExtentCases, SmallExtentIs, EntryExtentIs, LargeExtentIs
  <2>2. \A y \in Extents \ {x} : x.page = y.page => x.to <= y.from \/ y.to <= x.from
    BY <1>1, ExtentsApart
  <2> QED
    BY <2>1, <2>2 DEF WithinPage
<1>3. \A b \in DOMAIN held :
         /\ b[2] % Align = 0
         /\ \E x \in Extents : /\ x.page = b[1]
                               /\ b[2] = x.from + HeaderOf(heap.mark[b])
                               /\ b[2] + held[b] <= x.to
  BY <1>1, BlockInExtent
<1> QED
  BY <1>2, <1>3 DEF BlocksApart

\* What AR_malloc gave is aligned, lies behind its header and inside its page,
\* and touches no other block and nothing of the heap, until it is freed (heap.c).
THEOREM HeapBlocksApart == HeapSpec => []BlocksApart
  BY HeapInvariant, SoundApart, PTL

\* One block more is in use.
OneMore == \E b : b \notin DOMAIN held /\ DOMAIN held' = DOMAIN held \cup {b}

\* AR_malloc gives no block that is still in use.
THEOREM GivenOnce == HeapSpec => [][Malloc => OneMore]_heap_vars
<1>1. HeapInv /\ [HeapNext]_heap_vars => [Malloc => OneMore]_heap_vars
  <2> SUFFICES ASSUME HeapInv, Malloc PROVE OneMore
    OBVIOUS
  <2>1. load \in Loads /\ heap.created
    BY DEF HeapInv, Malloc
  <2>2. PICK kind : Sound(heap, held, kind)
    BY <2>1 DEF HeapInv
  <2>3. PICK n \in load.sizes :
           LET r == AllocFromHeap(heap, n)
           IN  r.ptr # Null /\ held' = With(held, r.ptr, n)
    BY DEF Malloc
  <2>4. n \in Nat
    BY <2>1, PageAssumption
  <2>5. Allocated(held, n, AllocFromHeap(heap, n))
    BY <2>1, <2>2, <2>4, AllocIs
  <2> QED
    BY <2>3, <2>5 DEF Allocated, OneMore, With
<1> QED
  BY <1>1, HeapInvariant, PTL DEF HeapSpec

-----------------------------------------------------------------------------
(* The lists are sound.                                                     *)

\* Entries cover a page of medium blocks, and no two free ones are neighbours.
LEMMA TiledIs ==
    ASSUME NEW kind, SoundAs(heap, held, kind), NEW p \in MediumPages(kind)
    PROVE  PageTiled(p)
<1> DEFINE en == heap.entry
<1>1. /\ PagesSound(heap, kind, Null) /\ DOMAIN kind = DOMAIN heap.page /\ IsEntries(en)
      /\ Tiled(en, MediumPages(kind)) /\ Spaced(en, Null) /\ Null \notin DOMAIN en
      /\ Null \notin Place
  BY SoundAsFacts, SoundParts, EntryIsPlace
<1>2. heap.page[p].data_size = PageSize
  BY <1>1 DEF PagesSound, MediumPages
<1>3. <<p, 0>> \in EntriesOf(p)
  BY <1>1 DEF Tiled, OnPages, EntriesOf
<1>4. ASSUME NEW e \in DOMAIN en
      PROVE  /\ e[2] \in Nat /\ e = <<e[1], e[2]>> /\ en[e].size \in Nat
             /\ en[e].size >= MediumSmallest /\ End(en, e) = e[2] + en[e].size
  BY <1>1, EntryFacts DEF Tiled, Sized, End
<1>5. en[<<p, 0>>].prev = Null
  <2> DEFINE z == <<p, 0>>
             y == en[z].prev
  <2>1. z \in DOMAIN en /\ z[2] = 0
    BY <1>3 DEF EntriesOf
  <2> SUFFICES ASSUME y # Null PROVE FALSE
    OBVIOUS
  <2>2. y \in DOMAIN en /\ en[y].next = z
    BY <2>1, <1>1 DEF Tiled, PrevTiled
  <2>3. z # Null
    BY <2>1, <1>1
  <2>4. z = <<y[1], End(en, y)>>
    BY <2>2, <2>3, <1>1 DEF Tiled, NextTiled
  <2>5. End(en, y) = 0
    BY <2>4
  <2>6. MediumSmallest \in Nat /\ MediumSmallest > 0
    BY SmallestIs
  <2> HIDE DEF y, z
  <2> QED
    BY <2>2, <2>5, <2>6, <1>4
<1>6. ASSUME NEW e \in EntriesOf(p)
      PROVE  LET r == en[e]
                 end == e[2] + r.size
             IN  /\ r.size >= MediumSmallest
                 /\ r.prev # Null => r.prev \in EntriesOf(p) /\ en[r.prev].next = e
                 /\ r.prev = Null => e = <<p, 0>>
                 /\ IF r.next = Null THEN end = heap.page[p].data_size
                    ELSE /\ r.next = <<p, end>>
                         /\ r.next \in EntriesOf(p) /\ en[r.next].prev = e
                         /\ ~(r.free_block /\ en[r.next].free_block)
  <2>1. e \in DOMAIN en /\ e[1] = p
    BY DEF EntriesOf
  <2>2. /\ e = <<p, e[2]>> /\ en[e].size >= MediumSmallest /\ End(en, e) = e[2] + en[e].size
    BY <2>1, <1>4
  <2>3. IF en[e].prev = Null THEN e[2] = 0
        ELSE en[e].prev \in EntriesOf(p) /\ en[en[e].prev].next = e
    BY <2>1, <1>1 DEF Tiled, PrevTiled, EntriesOf
  <2>4. IF en[e].next = Null THEN End(en, e) = PageSize
        ELSE /\ en[e].next = <<p, End(en, e)>> /\ en[e].next \in DOMAIN en
             /\ en[en[e].next].prev = e
    BY <2>1, <1>1 DEF Tiled, NextTiled
  <2>5. en[e].next # Null => en[e].next \in EntriesOf(p)
    BY <2>4 DEF EntriesOf
  <2>6. e # Null /\ (en[e].free_block /\ en[e].next # Null => ~en[en[e].next].free_block)
    BY <2>1, <1>1 DEF Spaced
  <2> QED
    BY <2>2, <2>3, <2>4, <2>5, <2>6, <1>2
<1> QED
  BY <1>3, <1>5, <1>6 DEF PageTiled

\* The free list of a page holds its free entries.
LEMMA FreeListedIs ==
    ASSUME NEW kind, SoundAs(heap, held, kind), NEW p \in MediumPages(kind)
    PROVE  FreeListed(p)
<1> DEFINE en == heap.entry
           S == FreeSet(en)
           first == heap.page[p].first_free
<1>1. /\ FreeLinked(S, en, heap.page) /\ DOMAIN kind = DOMAIN heap.page /\ Null \notin DOMAIN en
      /\ p \in DOMAIN heap.page
  <2>1. EntriesSound(heap, MediumPages(kind)) /\ DOMAIN kind = DOMAIN heap.page
        /\ IsEntries(heap.entry)
    BY SoundAsFacts
  <2> QED
    BY <2>1, SoundParts, EntryIsPlace DEF MediumPages
<1>2. FreeOf(p) = {e \in S : e[1] = p}
  BY DEF FreeOf, EntriesOf, FreeSet
<1>3. first # Null => first \in FreeOf(p) /\ en[first].prev_free = Null
  BY <1>1, <1>2 DEF FreeLinked, FirstFree
<1>4. \A e \in FreeOf(p) : en[e].prev_free = Null => e = first
  BY <1>1, <1>2 DEF FreeLinked, FirstFree
<1>5. \A e \in FreeOf(p) :
         /\ en[e].prev_free # Null =>
               en[e].prev_free \in FreeOf(p) /\ en[en[e].prev_free].next_free = e
         /\ en[e].next_free # Null =>
               en[e].next_free \in FreeOf(p) /\ en[en[e].next_free].prev_free = e
  BY <1>1, <1>2 DEF FreeLinked, FreeNext, FreePrev
<1>6. PICK rank : FreeRank(S, en, rank)
  BY <1>1 DEF FreeLinked, FreeRanked
<1>7. FreeOf(p) # {} => first # Null
  <2> SUFFICES ASSUME FreeOf(p) # {} PROVE first # Null
    OBVIOUS
  <2> DEFINE N == {rank[e] : e \in FreeOf(p)}
  <2>1. N \in SUBSET Nat /\ N # {}
    BY <1>2, <1>6 DEF FreeRank
  <2>2. PICK m \in N : \A j \in N : m <= j
    <3> HIDE DEF N
    <3> QED
      BY <2>1, SmallestOf
  <2>3. PICK e \in FreeOf(p) : rank[e] = m
    OBVIOUS
  <2>4. e # Null
    BY <1>1, <1>2 DEF FreeSet
  <2>5. CASE en[e].prev_free = Null
    BY <2>4, <2>5, <1>4
  <2>6. CASE en[e].prev_free # Null
    <3> DEFINE q == en[e].prev_free
    <3>1. q \in FreeOf(p) /\ en[q].next_free = e
      BY <2>6, <1>5
    <3>2. rank[q] < rank[e] /\ rank[q] \in Nat /\ rank[e] \in Nat
      BY <3>1, <2>4, <1>2, <1>6 DEF FreeRank
    <3>3. rank[q] \in N
      BY <3>1
    <3>4. m <= rank[q]
      BY <3>3, <2>2
    <3> HIDE DEF q
    <3> QED
      BY <3>2, <3>4, <2>3
  <2> QED
    BY <2>5, <2>6
<1>8. (first = Null) = (FreeOf(p) = {})
  BY <1>3, <1>7
<1> QED
  BY <1>3, <1>4, <1>5, <1>8 DEF FreeListed

\* A page without a block in use has been given back.
LEMMA SomeUsed ==
    ASSUME NEW kind, Sound(heap, held, kind), NEW p \in MediumPages(kind)
    PROVE  EntriesOf(p) # FreeOf(p)
<1>1. PagesUsed(heap, Null) /\ SoundAs(heap, held, kind)
  BY DEF Sound
<1>2. /\ Tiled(heap.entry, MediumPages(kind)) /\ p \in DOMAIN heap.page
      /\ Null \notin DOMAIN heap.page
  <2>1. EntriesSound(heap, MediumPages(kind)) /\ DOMAIN kind = DOMAIN heap.page
        /\ Null \notin DOMAIN heap.page
    BY <1>1, SoundAsFacts
  <2> QED
    BY <2>1, SoundParts DEF MediumPages
<1>3. <<p, 0>> \in DOMAIN heap.entry /\ <<p, 0>>[1] = p /\ p # Null
  BY <1>2 DEF Tiled, OnPages
<1>4. PICK f \in DOMAIN heap.entry : f[1] = p /\ ~heap.entry[f].free_block
  BY <1>1, <1>3 DEF PagesUsed
<1> QED
  BY <1>4 DEF EntriesOf, FreeOf

\* The lists of a sound heap are as heap.c relies on.
LEMMA ListsSound ==
    ASSUME NEW kind, Sound(heap, held, kind)
    PROVE  MediumListsSound
<1> DEFINE roomy == Pages(heap, heap.medium_first_free_page)
           full == Pages(heap, heap.medium_first_used_page)
           last == heap.medium_last_free_page
           pg == heap.page
<1>1. /\ PagesSound(heap, kind, Null) /\ SoundAs(heap, held, kind)
      /\ DOMAIN kind = DOMAIN pg /\ Null \notin DOMAIN pg
  BY SoundAsFacts DEF Sound
<1>2. Listing(heap, kind, "roomy", roomy) /\ Listing(heap, kind, "full", full)
  <2>1. \A k \in ListKinds : Listing(heap, kind, k, Pages(heap, Heads(heap)[k]))
    BY <1>1, PagesListed
  <2> QED
    BY <2>1, HeadsAre DEF ListKinds
<1> HIDE DEF roomy, full
<1>3. /\ \A k \in DOMAIN roomy : roomy[k] \in DOMAIN pg /\ kind[roomy[k]] = "roomy"
      /\ \A k \in DOMAIN full : full[k] \in DOMAIN pg /\ kind[full[k]] = "full"
  <2>1. \A k \in DOMAIN roomy : roomy[k] \in PagesIn(heap, kind, "roomy")
    BY <1>2 DEF Listing
  <2>2. \A k \in DOMAIN full : full[k] \in PagesIn(heap, kind, "full")
    BY <1>2 DEF Listing
  <2> QED
    BY <2>1, <2>2 DEF PagesIn
<1>4. LinkedBack(roomy) /\ LinkedBack(full)
  BY <1>2 DEF Listing, LinkedBack
<1>5. last = IF roomy = <<>> THEN Null ELSE roomy[Len(roomy)]
  <2>1. /\ NextSound(DOMAIN pg, pg, kind, last)
        /\ LastSound(DOMAIN pg, pg, kind, Heads(heap), last)
    BY <1>1, SoundFacts DEF Linked
  <2>2. (roomy = <<>>) = (Heads(heap)["roomy"] = Null)
    BY <1>2 DEF Listing
  <2>3. CASE roomy = <<>>
    BY <2>1, <2>2, <2>3 DEF LastSound
  <2>4. CASE roomy # <<>>
    <3>1. Len(roomy) \in DOMAIN roomy
      <4>1. roomy \in Seq(PagesIn(heap, kind, "roomy"))
        BY <1>2 DEF Listing
      <4> QED
        BY <4>1, <2>4
    <3>2. pg[roomy[Len(roomy)]].next = Null
      BY <1>2, <2>4 DEF Listing
    <3>3. roomy[Len(roomy)] = last
      BY <3>1, <3>2, <1>3, <2>1 DEF NextSound
    <3> QED
      BY <3>3, <2>4
  <2> QED
    BY <2>3, <2>4
<1>6. ASSUME NEW k \in DOMAIN roomy
      PROVE  LET p == pg[roomy[k]]
             IN  p.first_free # Null /\ p.largest_free = Size(heap, p.first_free)
  BY <1>1, <1>3 DEF PagesSound, RoomKnown, Known, Size
<1>7. \A k \in DOMAIN full : pg[full[k]].largest_free = 0
  BY <1>1, <1>3 DEF PagesSound, RoomKnown
<1>8. ASSUME NEW p \in {roomy[k] : k \in DOMAIN roomy} \cup {full[k] : k \in DOMAIN full}
      PROVE  PageTiled(p) /\ FreeListed(p) /\ EntriesOf(p) # FreeOf(p)
  <2>1. p \in MediumPages(kind)
    BY <1>1, <1>3 DEF MediumPages
  <2> QED
    BY <2>1, <1>1, TiledIs, FreeListedIs, SomeUsed
<1> QED
  BY <1>4, <1>5, <1>6, <1>7, <1>8 DEF MediumListsSound, roomy, full

\* So is what the run checks of them.
LEMMA SoundHeap == HeapInv => HeapSound
<1> SUFFICES ASSUME HeapInv PROVE HeapSound
  OBVIOUS
<1>1. CASE heap.created
  <2>1. PICK kind : Sound(heap, held, kind)
    BY <1>1 DEF HeapInv
  <2>2. MediumListsSound
    BY <2>1, ListsSound
  <2>3. Holds(ListedPages(heap), DOMAIN heap.page)
    BY <2>1, ListedPagesIs
  <2>4. \A b \in DOMAIN held : heap.mark[b] = "large" => b[1] \in DOMAIN heap.page
    BY <2>1 DEF Sound, SoundAs, HeldSound, BlockHeld
  <2>5. PagesAccounted
    BY <1>1, <2>3, <2>4, HoldsCounted DEF PagesAccounted
  <2> QED
    BY <2>2, <2>5 DEF HeapSound
<1>2. CASE ~heap.created
  <2>1. heap.page = <<>> /\ heap.page_allocated = 0 /\ heap.actual_mem_used = 0
    BY <1>2 DEF HeapInv, NoHeap
  <2> QED
    BY <1>2, <2>1 DEF HeapSound, PagesAccounted
<1> QED
  BY <1>1, <1>2

\* Whatever was split, merged and relisted: the lists of pages and of free
\* entries lead both ways and end, the free entries of a page are those on its
\* list, a page is among those with room exactly if it knows of some, one without
\* a block in use was given back, and AR_DestroyHeap leaves no page and no byte
\* in the books (heap.c:461, heap.c:852).
THEOREM HeapStaysSound == HeapSpec => []HeapSound
  BY HeapInvariant, SoundHeap, PTL
=============================================================================
