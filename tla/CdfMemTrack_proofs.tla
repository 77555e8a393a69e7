--------------------------- MODULE CdfMemTrack_proofs ---------------------------
(* Proofs about the MEMORY_DEBUG allocator for every number of addresses,  *)
(* pool and page-set bound.                                                *)
EXTENDS CdfMemTrack, FiniteSetTheorems, TLAPS

\* cdf_mem_malloc_debug links at most the block it returns, and only after
\* kzalloc handed it out.
LEMMA MallocKeeps ==
    ASSUME TrackedAreLive, NEW size \in Sizes, NEW b \in Blocks \cup {NULL},
           CdfMemMallocDebug(size, b)
    PROVE  tracked' \subseteq live' \ Pool
<1>1. CASE size = "invalid" /\ b = NULL /\ UNCHANGED <<live, tracked>>
  BY <1>1 DEF TrackedAreLive
<1>2. CASE size = "large" /\ b \in Pool \ live /\ live' = live \cup {b}
           /\ UNCHANGED tracked
  BY <1>2 DEF TrackedAreLive
<1>3. CASE b = NULL /\ UNCHANGED <<live, tracked>>
  BY <1>3 DEF TrackedAreLive
<1>4. CASE /\ b \in KernelFree
           /\ live' = live \cup {b}
           /\ tracked' = tracked \cup {b}
  BY <1>4 DEF TrackedAreLive, KernelFree
<1>. QED BY <1>1, <1>2, <1>3, <1>4 DEF CdfMemMallocDebug

\* cdf_mem_free unlinks before it kfree's, and a pool block is never linked.
LEMMA FreeKeeps ==
    ASSUME TrackedAreLive, NEW p, NEW bug, CdfMemFree(p, bug)
    PROVE  tracked' \subseteq live' \ Pool
BY DEF CdfMemFree, TrackedAreLive

\* The cacheable branch links only blocks it keeps live, or nothing.
LEMMA CacheableKeeps ==
    ASSUME TrackedAreLive, NEW n, CacheablePagesAlloc(n)
    PROVE  tracked' \subseteq live' \ Pool
<1> PICK s \in KernelFree, P \in SUBSET KernelFree :
      \/ live' = live \cup P \cup {s} /\ tracked' = tracked \cup P \cup {s}
      \/ UNCHANGED <<live, tracked>>
  BY DEF CacheablePagesAlloc, PageAllocFail
<1>. QED BY DEF TrackedAreLive, KernelFree

\* The DMA branch links at most its storage array, kept live.
LEMMA DmaKeeps ==
    ASSUME TrackedAreLive, NEW n, DmaPagesAlloc(n)
    PROVE  tracked' \subseteq live' \ Pool
<1> PICK s \in KernelFree :
      \/ live' = live \cup {s} /\ tracked' = tracked \cup {s}
      \/ UNCHANGED <<live, tracked>>
  BY DEF DmaPagesAlloc, PageAllocFail
<1>. QED BY DEF TrackedAreLive, KernelFree

\* A multi-page allocation links only the storage and the pages it
\* allocated, and makes them live; its failure changes neither.
LEMMA MultiPagesAllocKeeps ==
    ASSUME TrackedAreLive, CdfMemMultiPagesAlloc
    PROVE  tracked' \subseteq live' \ Pool
<1> PICK elemNum \in 1..MaxElem, perPage \in 0..2, cacheable \in BOOLEAN :
      \/ UNCHANGED <<live, tracked>>
      \/ CacheablePagesAlloc(NumPages(elemNum, perPage))
      \/ DmaPagesAlloc(NumPages(elemNum, perPage))
  BY DEF CdfMemMultiPagesAlloc
<1>. QED BY CacheableKeeps, DmaKeeps DEF TrackedAreLive

LEMMA InitTracked == Init => TrackedAreLive
BY DEF Init, TrackedAreLive

LEMMA NextTracked == TrackedAreLive /\ [Next]_vars => TrackedAreLive'
<1> SUFFICES ASSUME TrackedAreLive, [Next]_vars PROVE TrackedAreLive'
  OBVIOUS
<1>1. CASE Malloc
  BY <1>1, MallocKeeps DEF Malloc, TrackedAreLive
<1>2. CASE Free
  BY <1>2, FreeKeeps DEF Free, TrackedAreLive
<1>3. CASE Overrun
  BY <1>3 DEF Overrun, TrackedAreLive
<1>4. CASE MultiPagesAlloc
  BY <1>4, MultiPagesAllocKeeps DEF MultiPagesAlloc, TrackedAreLive
<1>5. CASE MultiPagesFree
  BY <1>5 DEF MultiPagesFree, CdfMemMultiPagesFree, TrackedAreLive
<1>6. CASE CdfMemExit
  BY <1>6 DEF CdfMemExit, TrackedAreLive
<1>7. CASE UNCHANGED vars
  BY <1>7 DEF vars, TrackedAreLive
<1>. QED BY <1>1, <1>2, <1>3, <1>4, <1>5, <1>6, <1>7 DEF Next

\* For every number of addresses and pool, cdf_mem_list never
\* holds a node whose block was kfree'd or that belongs to the prealloc
\* pool, whatever order the mallocs, frees, overruns, multi-page
\* allocations (failed ones included) and cdf_mem_exit come in.
THEOREM TrackedAlwaysLive == Spec => []TrackedAreLive
BY InitTracked, NextTracked, PTL DEF Spec

-----------------------------------------------------------------------------
(* Coherent pages                                                          *)

\* A page set owns coherent pages only when it is a non-cacheable set, and
\* then all num_pages of them; so cdf_mem_multi_pages_alloc, which needs
\* num_pages = 0, starts from a set that owns none.
DmaNumShape == pages.dma_num \in {0, pages.num_pages}

\* Every coherent page allocated and not yet freed belongs to the page set.
CoherentPagesOwned == coherent = pages.dma_num

CInv == /\ coherent \in Nat
        /\ pages.num_pages \in Nat
        /\ DmaNumShape
        /\ CoherentPagesOwned

\* The DMA branch allocates exactly the pages it keeps, or returns every
\* page it took.
LEMMA DmaCoherent ==
    ASSUME CInv, pages.num_pages = 0, NEW n \in Nat, DmaPagesAlloc(n)
    PROVE  CInv'
<1> PICK s \in KernelFree, k \in 0..n :
      \/ coherent' = coherent + n
         /\ pages' = [storage |-> s, cacheable_pages |-> {},
                      num_pages |-> n, dma_num |-> n]
      \/ coherent' = coherent + k - DmaPagesFreed(k) /\ pages' = NoPages
  BY DEF DmaPagesAlloc
<1>1. coherent = 0
  BY DEF CInv, DmaNumShape, CoherentPagesOwned
<1>. QED BY <1>1 DEF CInv, DmaNumShape, CoherentPagesOwned, DmaPagesFreed, NoPages

LEMMA CacheableCoherent ==
    ASSUME CInv, pages.num_pages = 0, NEW n \in Nat, CacheablePagesAlloc(n)
    PROVE  CInv'
<1> PICK s \in KernelFree, P \in SUBSET KernelFree :
      /\ UNCHANGED coherent
      /\ \/ pages' = [storage |-> s, cacheable_pages |-> P,
                      num_pages |-> n, dma_num |-> 0]
         \/ pages' = NoPages
  BY DEF CacheablePagesAlloc
<1>1. coherent = 0
  BY DEF CInv, DmaNumShape, CoherentPagesOwned
<1>. QED BY <1>1 DEF CInv, DmaNumShape, CoherentPagesOwned, NoPages

\* pages->num_pages for any element count and per-page count is a number.
LEMMA NumPagesNat ==
    ASSUME NEW e \in 1..MaxElem, NEW q \in 1..2
    PROVE  NumPages(e, q) \in Nat
BY DEF NumPages

LEMMA InitCInv == Init => CInv
BY DEF Init, CInv, DmaNumShape, CoherentPagesOwned, NoPages

LEMMA NextCInv == CInv /\ [Next]_vars => CInv'
<1> SUFFICES ASSUME CInv, [Next]_vars PROVE CInv'
  OBVIOUS
<1>1. CASE MultiPagesAlloc
  <2>1. pages.num_pages = 0
    BY <1>1 DEF MultiPagesAlloc, CdfMemMultiPagesAlloc
  <2>2. PICK elemNum \in 1..MaxElem, perPage \in 0..2, cacheable \in BOOLEAN :
          \/ UNCHANGED coherent /\ pages' = NoPages
          \/ perPage > 0 /\ CacheablePagesAlloc(NumPages(elemNum, perPage))
          \/ perPage > 0 /\ DmaPagesAlloc(NumPages(elemNum, perPage))
    BY <1>1 DEF MultiPagesAlloc, CdfMemMultiPagesAlloc
  <2>3. CASE UNCHANGED coherent /\ pages' = NoPages
    BY <2>1, <2>3 DEF CInv, DmaNumShape, CoherentPagesOwned, NoPages
  <2>4. CASE perPage > 0 /\ CacheablePagesAlloc(NumPages(elemNum, perPage))
    BY <2>1, <2>4, NumPagesNat, CacheableCoherent
  <2>5. CASE perPage > 0 /\ DmaPagesAlloc(NumPages(elemNum, perPage))
    BY <2>1, <2>5, NumPagesNat, DmaCoherent
  <2>. QED BY <2>2, <2>3, <2>4, <2>5
<1>2. CASE MultiPagesFree
  BY <1>2 DEF MultiPagesFree, CdfMemMultiPagesFree, CInv, DmaNumShape,
              CoherentPagesOwned, NoPages
<1>3. CASE Malloc \/ Free \/ Overrun \/ CdfMemExit \/ UNCHANGED vars
  BY <1>3 DEF Malloc, Free, Overrun, CdfMemExit, vars, CInv, DmaNumShape,
              CoherentPagesOwned
<1>. QED BY <1>1, <1>2, <1>3 DEF Next

-----------------------------------------------------------------------------
(* Types                                                                   *)

\* num_pages is at least one page and at most one page per element.
LEMMA NumPagesRange ==
    ASSUME NEW e \in 1..MaxElem, NEW q \in 1..2
    PROVE  NumPages(e, q) \in 1..MaxElem
<1>1. CASE q = 1
  BY <1>1, MaxElemAssumption DEF NumPages
<1>2. CASE q = 2
  BY <1>2, MaxElemAssumption DEF NumPages
<1>. QED BY <1>1, <1>2

PageSets == [storage : Blocks \cup {NULL}, cacheable_pages : SUBSET Blocks,
             num_pages : 0..MaxElem, dma_num : 0..MaxElem]

\* The page set only ever holds kzalloc'd blocks, and an empty one
\* (num_pages = 0, the state cdf_mem_multi_pages_alloc starts from) holds
\* none.
PagesFromKernel == PageBlocks \subseteq Blocks \ Pool

EmptyPageSet == pages.num_pages = 0 => PageBlocks = {}

TInv == TypeOK /\ CInv /\ PagesFromKernel /\ EmptyPageSet

\* What the two page-allocation branches leave of TInv's parts that
\* concern them.
PagesAllocOK ==
    /\ live' \subseteq Blocks
    /\ tracked' \subseteq Blocks \ Pool
    /\ pages' \in PageSets
    /\ crashed' \in BOOLEAN
    /\ PagesFromKernel'
    /\ EmptyPageSet'

LEMMA NoPagesOK ==
    /\ NoPages \in PageSets
    /\ NoPages.cacheable_pages \cup ({NoPages.storage} \ {NULL}) = {}
BY MaxElemAssumption DEF NoPages, PageSets, NULL, Blocks

LEMMA CacheableType ==
    ASSUME TInv, NEW n \in 1..MaxElem, CacheablePagesAlloc(n)
    PROVE  PagesAllocOK
<1> PICK s \in KernelFree, P \in SUBSET KernelFree :
      \/ /\ live' = live \cup P \cup {s} /\ tracked' = tracked \cup P \cup {s}
         /\ pages' = [storage |-> s, cacheable_pages |-> P,
                      num_pages |-> n, dma_num |-> 0]
         /\ crashed' = crashed
      \/ UNCHANGED <<live, tracked, crashed>> /\ pages' = NoPages
  BY DEF CacheablePagesAlloc, PageAllocFail
<1>1. P \cup {s} \subseteq Blocks \ Pool /\ s # NULL
  BY DEF KernelFree, NULL, Blocks
<1>2. live \subseteq Blocks /\ tracked \subseteq Blocks \ Pool /\ crashed \in BOOLEAN
  BY DEF TInv, TypeOK
<1>3. CASE live' = live \cup P \cup {s} /\ tracked' = tracked \cup P \cup {s}
           /\ pages' = [storage |-> s, cacheable_pages |-> P,
                        num_pages |-> n, dma_num |-> 0]
           /\ crashed' = crashed
  <2>1. pages' \in PageSets
    BY <1>1, <1>3, MaxElemAssumption DEF PageSets
  <2>2. PagesFromKernel' /\ EmptyPageSet'
    BY <1>1, <1>3 DEF PagesFromKernel, EmptyPageSet, PageBlocks
  <2>. QED BY <1>1, <1>2, <1>3, <2>1, <2>2 DEF PagesAllocOK
<1>4. CASE UNCHANGED <<live, tracked, crashed>> /\ pages' = NoPages
  BY <1>2, <1>4, NoPagesOK DEF PagesAllocOK, PagesFromKernel, EmptyPageSet,
                               PageBlocks
<1>. QED BY <1>3, <1>4

LEMMA DmaType ==
    ASSUME TInv, NEW n \in 1..MaxElem, DmaPagesAlloc(n)
    PROVE  PagesAllocOK
<1> PICK s \in KernelFree :
      \/ /\ live' = live \cup {s} /\ tracked' = tracked \cup {s}
         /\ pages' = [storage |-> s, cacheable_pages |-> {},
                      num_pages |-> n, dma_num |-> n]
         /\ crashed' = crashed
      \/ UNCHANGED <<live, tracked, crashed>> /\ pages' = NoPages
  BY DEF DmaPagesAlloc, PageAllocFail
<1>1. s \in Blocks \ Pool /\ s # NULL
  BY DEF KernelFree, NULL, Blocks
<1>2. live \subseteq Blocks /\ tracked \subseteq Blocks \ Pool /\ crashed \in BOOLEAN
  BY DEF TInv, TypeOK
<1>3. CASE live' = live \cup {s} /\ tracked' = tracked \cup {s}
           /\ pages' = [storage |-> s, cacheable_pages |-> {},
                        num_pages |-> n, dma_num |-> n]
           /\ crashed' = crashed
  <2>1. pages' \in PageSets
    BY <1>1, <1>3, MaxElemAssumption DEF PageSets
  <2>2. PagesFromKernel' /\ EmptyPageSet'
    BY <1>1, <1>3 DEF PagesFromKernel, EmptyPageSet, PageBlocks
  <2>. QED BY <1>1, <1>2, <1>3, <2>1, <2>2 DEF PagesAllocOK
<1>4. CASE UNCHANGED <<live, tracked, crashed>> /\ pages' = NoPages
  BY <1>2, <1>4, NoPagesOK DEF PagesAllocOK, PagesFromKernel, EmptyPageSet,
                               PageBlocks
<1>. QED BY <1>3, <1>4

LEMMA MallocType ==
    ASSUME TInv, NEW size \in Sizes, NEW b \in Blocks \cup {NULL},
           CdfMemMallocDebug(size, b)
    PROVE  live' \subseteq Blocks /\ tracked' \subseteq Blocks \ Pool
<1>1. live \subseteq Blocks /\ tracked \subseteq Blocks \ Pool
  BY DEF TInv, TypeOK
<1>2. CASE b \in KernelFree /\ live' = live \cup {b}
           /\ tracked' = tracked \cup {b}
  BY <1>1, <1>2 DEF KernelFree
<1>3. CASE b \in Pool \ live /\ live' = live \cup {b} /\ UNCHANGED tracked
  BY <1>1, <1>3, PoolAssumption DEF Blocks
<1>4. CASE UNCHANGED <<live, tracked>>
  BY <1>1, <1>4
<1>. QED BY <1>2, <1>3, <1>4 DEF CdfMemMallocDebug

\* cdf_mem_free only ever removes blocks and nodes.
LEMMA FreeShrinks ==
    ASSUME NEW p, NEW bug, CdfMemFree(p, bug)
    PROVE  live' \subseteq live /\ tracked' \subseteq tracked
BY DEF CdfMemFree

LEMMA InitTInv == Init => TInv
<1> SUFFICES ASSUME Init PROVE TInv
  OBVIOUS
<1>1. TypeOK
  BY NoPagesOK, Zenon DEF Init, TypeOK, PageSets
<1>2. PagesFromKernel /\ EmptyPageSet
  BY NoPagesOK DEF Init, PagesFromKernel, EmptyPageSet, PageBlocks
<1>. QED BY <1>1, <1>2, InitCInv DEF TInv

LEMMA NextTInv == TInv /\ [Next]_vars => TInv'
<1> SUFFICES ASSUME TInv, [Next]_vars PROVE TInv'
  OBVIOUS
<1>0. CInv'
  BY NextCInv DEF TInv
<1>1. CASE Malloc
  <2>1. PICK size \in Sizes, b \in Blocks \cup {NULL} :
          /\ CdfMemMallocDebug(size, b)
          /\ held' = held \cup ({b} \ {NULL})
          /\ handed' = handed \cup ({b} \ {NULL})
    BY <1>1 DEF Malloc
  <2>2. live' \subseteq Blocks /\ tracked' \subseteq Blocks \ Pool
    BY <2>1, MallocType
  <2>. QED BY <1>0, <1>1, <2>1, <2>2
           DEF Malloc, TInv, TypeOK, CInv, NULL, PagesFromKernel, EmptyPageSet,
               PageBlocks
<1>2. CASE Free
  <2>1. PICK p \in handed \cup {NULL}, bug \in BOOLEAN :
          /\ CdfMemFree(p, bug)
          /\ crashed' = bug
          /\ held' = held \ {p}
          /\ misuse' = (misuse \/ (p # NULL /\ p \notin held))
    BY <1>2 DEF Free
  <2>2. live' \subseteq live /\ tracked' \subseteq tracked
    BY <2>1, FreeShrinks
  <2>. QED BY <1>0, <1>2, <2>1, <2>2
           DEF Free, TInv, TypeOK, CInv, PagesFromKernel, EmptyPageSet, PageBlocks
<1>3. CASE Overrun
  BY <1>0, <1>3 DEF Overrun, TInv, TypeOK, CInv, PagesFromKernel, EmptyPageSet,
                    PageBlocks
<1>4. CASE MultiPagesAlloc
  <2>0. UNCHANGED <<corrupt, held, handed, phase, misuse>>
    BY <1>4 DEF MultiPagesAlloc, CdfMemMultiPagesAlloc
  <2>1. PICK elemNum \in 1..MaxElem, perPage \in 0..2, cacheable \in BOOLEAN :
          \/ UNCHANGED <<live, tracked, crashed>> /\ pages' = NoPages
          \/ perPage \in 1..2 /\ CacheablePagesAlloc(NumPages(elemNum, perPage))
          \/ perPage \in 1..2 /\ DmaPagesAlloc(NumPages(elemNum, perPage))
    BY <1>4 DEF MultiPagesAlloc, CdfMemMultiPagesAlloc
  <2>2. CASE UNCHANGED <<live, tracked, crashed>> /\ pages' = NoPages
    BY <1>0, <2>0, <2>2, NoPagesOK
    DEF TInv, TypeOK, CInv, PagesFromKernel, EmptyPageSet, PageBlocks, PageSets
  <2>3. CASE perPage \in 1..2 /\ CacheablePagesAlloc(NumPages(elemNum, perPage))
    <3>1. NumPages(elemNum, perPage) \in 1..MaxElem
      BY <2>3, NumPagesRange
    <3>2. PagesAllocOK
      BY <2>3, <3>1, CacheableType
    <3>. QED BY <1>0, <2>0, <3>2 DEF PagesAllocOK, TInv, TypeOK, CInv, PageSets
  <2>4. CASE perPage \in 1..2 /\ DmaPagesAlloc(NumPages(elemNum, perPage))
    <3>1. NumPages(elemNum, perPage) \in 1..MaxElem
      BY <2>4, NumPagesRange
    <3>2. PagesAllocOK
      BY <2>4, <3>1, DmaType
    <3>. QED BY <1>0, <2>0, <3>2 DEF PagesAllocOK, TInv, TypeOK, CInv, PageSets
  <2>. QED BY <2>1, <2>2, <2>3, <2>4
<1>5. CASE MultiPagesFree
  <2>1. /\ live' \subseteq live /\ tracked' \subseteq tracked
        /\ crashed' \in BOOLEAN /\ pages' = NoPages
        /\ UNCHANGED <<corrupt, held, handed, phase, misuse>>
    BY <1>5 DEF MultiPagesFree, CdfMemMultiPagesFree
  <2>2. PagesFromKernel' /\ EmptyPageSet'
    BY <2>1, NoPagesOK DEF PagesFromKernel, EmptyPageSet, PageBlocks
  <2>. QED BY <1>0, <2>1, <2>2, NoPagesOK DEF TInv, TypeOK, CInv, PageSets
<1>6. CASE CdfMemExit
  BY <1>0, <1>6 DEF CdfMemExit, TInv, TypeOK, CInv, PagesFromKernel,
                    EmptyPageSet, PageBlocks
<1>7. CASE UNCHANGED vars
  BY <1>0, <1>7 DEF vars, TInv, TypeOK, CInv, PagesFromKernel, EmptyPageSet,
                    PageBlocks
<1>. QED BY <1>1, <1>2, <1>3, <1>4, <1>5, <1>6, <1>7 DEF Next

\* For every number of addresses, pool and element bound,
\* the allocator's state keeps its types: the list only links kzalloc'd
\* blocks, and num_pages stays within one page per element.
THEOREM TypeCorrect == Spec => []TypeOK
<1>1. TInv => TypeOK
  BY DEF TInv
<1>. QED BY InitTInv, NextTInv, <1>1, PTL DEF Spec

-----------------------------------------------------------------------------
(* Misuse                                                                  *)

\* While no caller has misused a pointer: CDF_BUG has not fired, every
\* block is held by a caller or by the page set and not by both, every
\* kzalloc'd block is linked, and no block is overrun.
CleanBody ==
    /\ live = held \cup PageBlocks
    /\ held \cap PageBlocks = {}
    /\ live \ Pool \subseteq tracked
    /\ corrupt = {}

OwnedWhileClean ==
    /\ crashed => misuse
    /\ (phase = "run" /\ ~misuse) => CleanBody

OInv == TInv /\ TrackedAreLive /\ OwnedWhileClean

\* A clean cdf_mem_malloc_debug: the block it returns is held by the caller
\* and, if kzalloc'd, linked.
LEMMA MallocClean ==
    ASSUME OInv, CleanBody,
           NEW size \in Sizes, NEW b \in Blocks \cup {NULL},
           CdfMemMallocDebug(size, b),
           held' = held \cup ({b} \ {NULL}), UNCHANGED <<pages, corrupt>>
    PROVE  CleanBody'
<1>1. CASE b = NULL /\ UNCHANGED <<live, tracked>>
  BY <1>1 DEF CleanBody, PageBlocks
<1>2. CASE b \in Pool \ live /\ live' = live \cup {b} /\ UNCHANGED tracked
  <2>1. b # NULL /\ b \notin PageBlocks
    BY <1>2, PoolAssumption DEF CleanBody, NULL, Blocks
  <2>. QED BY <1>2, <2>1 DEF CleanBody, PageBlocks
<1>3. CASE /\ b \in KernelFree
           /\ live' = live \cup {b}
           /\ tracked' = tracked \cup {b}
  <2>1. b # NULL /\ b \notin PageBlocks
    BY <1>3 DEF CleanBody, KernelFree, NULL, Blocks
  <2>. QED BY <1>3, <2>1 DEF CleanBody, PageBlocks
<1>. QED BY <1>1, <1>2, <1>3 DEF CdfMemMallocDebug

\* A clean cdf_mem_free of a held pointer or NULL: no CDF_BUG, and the
\* block leaves both live and the list.
LEMMA FreeClean ==
    ASSUME OInv, CleanBody, NEW p \in held \cup {NULL}, NEW bug,
           CdfMemFree(p, bug), held' = held \ {p}, UNCHANGED <<pages, corrupt>>
    PROVE  ~bug /\ CleanBody'
<1>0. /\ held \subseteq live /\ live \subseteq Blocks /\ tracked \subseteq Blocks
      /\ Pool \subseteq Blocks /\ NULL \notin Blocks
  BY PoolAssumption DEF OInv, TInv, TypeOK, CleanBody, NULL, Blocks
<1>1. CASE p = NULL
  <2>1. ~bug /\ UNCHANGED <<live, tracked>>
    BY <1>0, <1>1 DEF CdfMemFree
  <2>. QED BY <1>0, <1>1, <2>1 DEF CleanBody, PageBlocks
<1>2. CASE p \in held \cap Pool
  <2>1. ~bug /\ live' = live \ {p} /\ UNCHANGED tracked
    BY <1>0, <1>2 DEF CdfMemFree
  <2>. QED BY <1>2, <2>1 DEF CleanBody, PageBlocks
<1>3. CASE p \in held \ Pool
  <2>1. p \in tracked \ Pool /\ p \notin corrupt /\ p # NULL
    BY <1>0, <1>3 DEF CleanBody
  <2>2. ~bug /\ live' = live \ {p} /\ tracked' = tracked \ {p}
    BY <2>1 DEF CdfMemFree
  <2>. QED BY <1>3, <2>2 DEF CleanBody, PageBlocks
<1>. QED BY <1>1, <1>2, <1>3

\* What a clean page allocation leaves: no CDF_BUG, and the page set owns
\* exactly the blocks it added.
PagesAllocClean == ~crashed' /\ CleanBody'

LEMMA CacheableClean ==
    ASSUME OInv, CleanBody, ~crashed, PageBlocks = {},
           NEW n \in 1..MaxElem, CacheablePagesAlloc(n), UNCHANGED <<held, corrupt>>
    PROVE  PagesAllocClean
<1> PICK s \in KernelFree, P \in SUBSET KernelFree :
      \/ /\ live' = live \cup P \cup {s} /\ tracked' = tracked \cup P \cup {s}
         /\ pages' = [storage |-> s, cacheable_pages |-> P,
                      num_pages |-> n, dma_num |-> 0]
         /\ crashed' = crashed
      \/ UNCHANGED <<live, tracked, crashed>> /\ pages' = NoPages
  BY DEF CacheablePagesAlloc, PageAllocFail
<1>2. s # NULL /\ (P \cup {s}) \cap live = {} /\ live = held
  <2>1. s # NULL
    BY DEF KernelFree, NULL, Blocks
  <2>2. (P \cup {s}) \cap live = {}
    BY DEF KernelFree
  <2>3. live = held
    BY DEF CleanBody
  <2>. QED BY <2>1, <2>2, <2>3
<1>3. CASE live' = live \cup P \cup {s} /\ tracked' = tracked \cup P \cup {s}
           /\ pages' = [storage |-> s, cacheable_pages |-> P,
                        num_pages |-> n, dma_num |-> 0]
           /\ crashed' = crashed
  <2>1. PageBlocks' = P \cup {s}
    BY <1>2, <1>3 DEF PageBlocks
  <2>. QED BY <1>2, <1>3, <2>1 DEF PagesAllocClean, CleanBody
<1>4. CASE UNCHANGED <<live, tracked, crashed>> /\ pages' = NoPages
  BY <1>2, <1>4, NoPagesOK DEF PagesAllocClean, CleanBody, PageBlocks
<1>. QED BY <1>3, <1>4

LEMMA DmaClean ==
    ASSUME OInv, CleanBody, ~crashed, PageBlocks = {},
           NEW n \in 1..MaxElem, DmaPagesAlloc(n), UNCHANGED <<held, corrupt>>
    PROVE  PagesAllocClean
<1> PICK s \in KernelFree :
      \/ /\ live' = live \cup {s} /\ tracked' = tracked \cup {s}
         /\ pages' = [storage |-> s, cacheable_pages |-> {},
                      num_pages |-> n, dma_num |-> n]
         /\ crashed' = crashed
      \/ UNCHANGED <<live, tracked, crashed>> /\ pages' = NoPages
  BY DEF DmaPagesAlloc, PageAllocFail
<1>2. s # NULL /\ s \notin live /\ live = held
  BY DEF KernelFree, NULL, Blocks, CleanBody
<1>3. CASE live' = live \cup {s} /\ tracked' = tracked \cup {s}
           /\ pages' = [storage |-> s, cacheable_pages |-> {},
                        num_pages |-> n, dma_num |-> n]
           /\ crashed' = crashed
  <2>1. PageBlocks' = {s}
    BY <1>2, <1>3 DEF PageBlocks
  <2>. QED BY <1>2, <1>3, <2>1 DEF PagesAllocClean, CleanBody
<1>4. CASE UNCHANGED <<live, tracked, crashed>> /\ pages' = NoPages
  BY <1>2, <1>4, NoPagesOK DEF PagesAllocClean, CleanBody, PageBlocks
<1>. QED BY <1>3, <1>4

LEMMA NextOwned ==
    ASSUME OInv, [Next]_vars
    PROVE  OwnedWhileClean'
<1>1. CASE misuse'
  BY <1>1 DEF OwnedWhileClean
<1>2. CASE ~misuse' /\ ~misuse /\ phase = "run" /\ ~crashed
  <2>0. CleanBody
    BY <1>2 DEF OInv, OwnedWhileClean
  <2>1. CASE Malloc
    <3>1. PICK size \in Sizes, b \in Blocks \cup {NULL} :
            /\ CdfMemMallocDebug(size, b)
            /\ held' = held \cup ({b} \ {NULL})
      BY <2>1 DEF Malloc
    <3>2. CleanBody'
      BY <2>0, <2>1, <3>1, MallocClean DEF Malloc
    <3>. QED BY <1>2, <2>1, <3>2 DEF Malloc, OwnedWhileClean
  <2>2. CASE Free
    <3>1. PICK p \in handed \cup {NULL}, bug \in BOOLEAN :
            /\ CdfMemFree(p, bug)
            /\ crashed' = bug
            /\ held' = held \ {p}
            /\ misuse' = (misuse \/ (p # NULL /\ p \notin held))
      BY <2>2 DEF Free
    <3>2. p \in held \cup {NULL}
      BY <1>2, <3>1
    <3>3. ~bug /\ CleanBody'
      BY <2>0, <2>2, <3>1, <3>2, FreeClean DEF Free
    <3>. QED BY <1>2, <2>2, <3>1, <3>3 DEF Free, OwnedWhileClean
  <2>3. CASE Overrun
    BY <1>2, <2>3 DEF Overrun
  <2>4. CASE MultiPagesAlloc
    <3>0. /\ UNCHANGED <<corrupt, held, handed, phase, misuse>>
          /\ PageBlocks = {}
      BY <2>4 DEF MultiPagesAlloc, CdfMemMultiPagesAlloc, OInv, TInv, EmptyPageSet
    <3>1. PICK elemNum \in 1..MaxElem, perPage \in 0..2, cacheable \in BOOLEAN :
            \/ UNCHANGED <<live, tracked, crashed>> /\ pages' = NoPages
            \/ perPage \in 1..2 /\ CacheablePagesAlloc(NumPages(elemNum, perPage))
            \/ perPage \in 1..2 /\ DmaPagesAlloc(NumPages(elemNum, perPage))
      BY <2>4 DEF MultiPagesAlloc, CdfMemMultiPagesAlloc
    <3>2. PagesAllocClean
      <4>1. CASE UNCHANGED <<live, tracked, crashed>> /\ pages' = NoPages
        BY <1>2, <2>0, <3>0, <4>1, NoPagesOK
        DEF PagesAllocClean, CleanBody, PageBlocks
      <4>2. CASE perPage \in 1..2 /\ CacheablePagesAlloc(NumPages(elemNum, perPage))
        <5>1. NumPages(elemNum, perPage) \in 1..MaxElem
          BY <4>2, NumPagesRange
        <5>. QED BY <1>2, <2>0, <3>0, <4>2, <5>1, CacheableClean
      <4>3. CASE perPage \in 1..2 /\ DmaPagesAlloc(NumPages(elemNum, perPage))
        <5>1. NumPages(elemNum, perPage) \in 1..MaxElem
          BY <4>3, NumPagesRange
        <5>. QED BY <1>2, <2>0, <3>0, <4>3, <5>1, DmaClean
      <4>. QED BY <3>1, <4>1, <4>2, <4>3
    <3>. QED BY <1>2, <3>0, <3>2 DEF PagesAllocClean, OwnedWhileClean
  <2>5. CASE MultiPagesFree
    <3>1. /\ crashed' = (PageBlocks \ tracked # {})
          /\ live' = live \ PageBlocks
          /\ tracked' = tracked \ PageBlocks
          /\ pages' = NoPages
          /\ UNCHANGED <<corrupt, held, handed, phase, misuse>>
      BY <2>5 DEF MultiPagesFree, CdfMemMultiPagesFree
    <3>2. PageBlocks \subseteq tracked
      BY <2>0 DEF CleanBody, OInv, TInv, PagesFromKernel
    <3>3. ~crashed'
      BY <3>1, <3>2
    <3>4. CleanBody'
      BY <2>0, <3>1, <3>2, NoPagesOK DEF CleanBody, PageBlocks
    <3>. QED BY <1>2, <3>1, <3>3, <3>4 DEF OwnedWhileClean
  <2>6. CASE CdfMemExit
    BY <1>2, <2>6 DEF CdfMemExit, OwnedWhileClean
  <2>7. CASE UNCHANGED vars
    BY <1>2, <2>0, <2>7 DEF vars, OwnedWhileClean, CleanBody, PageBlocks
  <2>. QED BY <2>1, <2>2, <2>3, <2>4, <2>5, <2>6, <2>7 DEF Next
<1>3. CASE ~misuse' /\ ~(~misuse /\ phase = "run" /\ ~crashed)
  \* Every action needs Running and keeps misuse once set; a stutter
  \* changes nothing.
  <2>1. CASE UNCHANGED vars
    BY <1>3, <2>1 DEF vars, OInv, OwnedWhileClean
  <2>2. CASE Next
    <3>1. phase = "run" /\ ~crashed
      BY <2>2 DEF Next, Malloc, Free, Overrun, MultiPagesAlloc, MultiPagesFree,
                  CdfMemExit, Running
    <3>2. misuse => misuse'
      BY <2>2 DEF Next, Malloc, Free, Overrun, MultiPagesAlloc,
                  CdfMemMultiPagesAlloc, MultiPagesFree, CdfMemExit
    <3>. QED BY <1>3, <3>1, <3>2
  <2>. QED BY <2>1, <2>2
<1>. QED BY <1>1, <1>2, <1>3

LEMMA InitOInv == Init => OInv
<1> SUFFICES ASSUME Init PROVE OInv
  OBVIOUS
<1>1. OwnedWhileClean
  BY NoPagesOK DEF Init, OwnedWhileClean, CleanBody, PageBlocks
<1>. QED BY <1>1, InitTInv, InitTracked DEF OInv

LEMMA NextOInv == OInv /\ [Next]_vars => OInv'
BY NextTInv, NextTracked, NextOwned DEF OInv

\* The comment of cdf_mem_free says it panics on a corrupted block or a
\* double free.  For every number of addresses, pool and element bound,
\* CDF_BUG fires only after a caller overran a block or freed a pointer it
\* did not hold: never from a correct cdf_mem_free, a failed or successful
\* cdf_mem_multi_pages_alloc or a cdf_mem_multi_pages_free.
THEOREM BugOnlyOnMisuse == Spec => []CdfBugOnlyOnMisuse
<1>1. OInv /\ [Next]_vars => OInv'
  BY NextOInv
<1>2. OInv => CdfBugOnlyOnMisuse
  BY DEF OInv, OwnedWhileClean, CdfBugOnlyOnMisuse
<1>. QED BY InitOInv, <1>1, <1>2, PTL DEF Spec

\* For every bound, while no caller has misused a pointer, every
\* block the allocator handed out is held by a caller or by the page set:
\* a failed cdf_mem_multi_pages_alloc, cacheable or not, frees all it took.
THEOREM NoLeakWhileClean == Spec => []NoUnownedMemory
<1>1. OInv /\ [Next]_vars => OInv'
  BY NextOInv
<1>2. OInv => NoUnownedMemory
  BY DEF OInv, OwnedWhileClean, CleanBody, NoUnownedMemory
<1>. QED BY InitOInv, <1>1, <1>2, PTL DEF Spec
====

