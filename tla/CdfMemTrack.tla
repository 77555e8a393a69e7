------------------------------ MODULE CdfMemTrack ------------------------------
(***************************************************************************)
(* The MEMORY_DEBUG allocator of CDF (src/core/cdf/src/cdf_memory.c):      *)
(* cdf_mem_malloc_debug links every kzalloc'd block into cdf_mem_list,     *)
(* cdf_mem_free unlinks it, checks its header and trailer and reports a    *)
(* pointer it cannot find as a double free (CDF_BUG), cdf_mem_clean        *)
(* reports and frees what is still linked at cdf_mem_exit.  Large requests *)
(* of a CONFIG_WCNSS_MEM_PRE_ALLOC build come from the preallocated pool   *)
(* and are never linked.  cdf_mem_multi_pages_alloc/_free build a          *)
(* cacheable page set out of cdf_mem_malloc calls.                         *)
(*                                                                         *)
(* A block is a number in Blocks; 0 is NULL.  The list operations of       *)
(* cdf_list.c are atomic under cdf_mem_list_lock.  cdf_list_insert_front   *)
(* is taken to succeed: the size given to cdf_list_init is not enforced   *)
(* (lim_api.c:608 inits a list of size 0 that lim_cleanup later drains).  *)
(* CDF_BUG halts the kernel.                                               *)
(***************************************************************************)
EXTENDS Naturals, FiniteSets

CONSTANTS
    NBlocks,     \* addresses the kernel allocators can return
    Pool,        \* blocks of the WCNSS preallocated pool ({} if not built)
    MaxElem      \* bound on element_num of cdf_mem_multi_pages_alloc

ASSUME NBlocksAssumption == NBlocks \in Nat \ {0}
ASSUME PoolAssumption == Pool \subseteq 1..NBlocks
ASSUME MaxElemAssumption == MaxElem \in Nat \ {0}

Blocks == 1..NBlocks
NULL == 0

\* Requested sizes: 0 or above 1 MiB, up to the prealloc threshold, above it.
Sizes == {"invalid", "small", "large"}

VARIABLES
    live,        \* blocks the kernel (kzalloc or the pool) has handed out
    tracked,     \* the nodes of cdf_mem_list
    corrupt,     \* blocks whose header or trailer a caller overwrote
    held,        \* blocks a caller of cdf_mem_malloc holds
    handed,      \* blocks ever returned to a caller (stale pointers included)
    pages,       \* the cdf_mem_multi_page_t of one user (cacheable pages)
    phase,       \* "run" between cdf_mem_init and cdf_mem_exit, then "exited"
    crashed,     \* CDF_BUG fired
    misuse,      \* a caller freed a pointer it did not hold, or overran one
    coherent     \* dma_alloc_coherent pages not yet freed

vars == <<live, tracked, corrupt, held, handed, pages, phase, crashed, misuse,
          coherent>>

PageBlocks == pages.cacheable_pages \cup ({pages.storage} \ {NULL})

\* A block kzalloc may return: not in use and not part of the pool.
KernelFree == Blocks \ (live \cup Pool)

-----------------------------------------------------------------------------
(* Allocation                                                              *)

\* cdf_mem_malloc_debug(size): b is the block returned to the caller (NULL
\* if none), with the updates to live and tracked.
CdfMemMallocDebug(size, b) ==
    \/ /\ size = "invalid" /\ b = NULL
       /\ UNCHANGED <<live, tracked>>
    \/ /\ size = "large" /\ b \in Pool \ live          \* wcnss_prealloc_get
       /\ live' = live \cup {b}
       /\ UNCHANGED tracked
    \/ /\ size # "invalid"
       /\ size = "large" => Pool \subseteq live        \* no pool block left
       /\ \/ b = NULL /\ UNCHANGED <<live, tracked>>   \* kzalloc fails
          \/ /\ b \in KernelFree
             /\ live' = live \cup {b}
             /\ tracked' = tracked \cup {b}                \* cdf_list_insert_front

-----------------------------------------------------------------------------
(* Free                                                                    *)

\* Variant: the node is not unlinked before the block is kfree'd.
CdfMemFreeKeepsNode(p, bug) ==
    \/ p = NULL /\ ~bug /\ UNCHANGED <<live, tracked>>
    \/ /\ p \in Pool
       /\ ~bug /\ live' = live \ {p} /\ UNCHANGED tracked
    \/ /\ p \in tracked \ Pool
       /\ bug = (p \in corrupt)
       /\ live' = IF bug THEN live ELSE live \ {p}
       /\ UNCHANGED tracked
    \/ /\ p \in Blocks \ (Pool \cup tracked)
       /\ bug /\ UNCHANGED <<live, tracked>>

\* Variant: the wcnss_prealloc_put test is left out.
CdfMemFreeNoPreallocPut(p, bug) ==
    \/ p = NULL /\ ~bug /\ UNCHANGED <<live, tracked>>
    \/ /\ p \in tracked \ Pool
       /\ tracked' = tracked \ {p}
       /\ bug = (p \in corrupt)
       /\ live' = IF bug THEN live ELSE live \ {p}
    \/ /\ p \in Blocks \ tracked
       /\ bug /\ UNCHANGED <<live, tracked>>

\* cdf_mem_free(p): the updates to live and tracked, and whether CDF_BUG
\* fires.  A pool block goes back to the pool (wcnss_prealloc_put); a linked
\* block is unlinked, its header and trailer are checked and it is kfree'd;
\* a block cdf_list_remove_node cannot find is reported as a double free.
CdfMemFree(p, bug) ==
    \/ p = NULL /\ ~bug /\ UNCHANGED <<live, tracked>>
    \/ /\ p \in Pool
       /\ ~bug /\ live' = live \ {p} /\ UNCHANGED tracked
    \/ /\ p \in tracked \ Pool
       /\ tracked' = tracked \ {p}
       /\ bug = (p \in corrupt)
       /\ live' = IF bug THEN live ELSE live \ {p}
    \/ /\ p \in Blocks \ (Pool \cup tracked)
       /\ bug /\ UNCHANGED <<live, tracked>>

-----------------------------------------------------------------------------
(* cdf_mem_multi_pages_alloc / _free                                        *)

\* Variant: the page count is rounded up even when the division is exact.
NumPagesAlwaysRoundsUp(elemNum, perPage) == elemNum \div perPage + 1

\* pages->num_pages for element_num elements when perPage fit in a page.
NumPages(elemNum, perPage) ==
    elemNum \div perPage + (IF elemNum % perPage # 0 THEN 1 ELSE 0)

\* out_fail: the page set is emptied.  dma_num counts the coherent pages
\* of a non-cacheable set.
NoPages == [storage |-> NULL, cacheable_pages |-> {}, num_pages |-> 0, dma_num |-> 0]

\* page_alloc_fail, non-cacheable: the loop over i < page_idx hands the k
\* coherent pages allocated so far back to cdf_os_mem_free_consistent.
DmaPagesFreed(k) == k

\* Variant: the unwind loop stops one page short (i < page_idx - 1).
PageAllocFailSkipsOne(s, P) ==
    \E skip \in P :
        /\ live' = live \cup {skip}
        /\ tracked' = tracked \cup {skip}
        /\ UNCHANGED crashed

\* page_alloc_fail: the pages allocated so far, P, then the storage s, were
\* each linked by cdf_mem_malloc and are freed with cdf_mem_free, which
\* finds, unlinks and kfree's every one of them: nothing is left over.
PageAllocFail(s, P) ==
    UNCHANGED <<live, tracked, crashed>>

\* The cacheable branch for n pages: the storage s, then the pages P, each
\* by cdf_mem_malloc.
CacheablePagesAlloc(n) ==
    \E s \in KernelFree, P \in SUBSET KernelFree :
        /\ s \notin P
        /\ Cardinality(P) <= n
        /\ UNCHANGED coherent
        /\ \/ /\ Cardinality(P) = n                    \* every page allocated
              /\ live' = live \cup P \cup {s}
              /\ tracked' = tracked \cup P \cup {s}
              /\ pages' = [storage |-> s, cacheable_pages |-> P,
                           num_pages |-> n, dma_num |-> 0]
              /\ UNCHANGED crashed
           \/ /\ Cardinality(P) < n                    \* page |P| fails
              /\ PageAllocFail(s, P)
              /\ pages' = NoPages

\* The non-cacheable branch for n pages: the storage s by cdf_mem_malloc,
\* then coherent pages by cdf_os_mem_alloc_consistent, of which k succeed.
DmaPagesAlloc(n) ==
    \E s \in KernelFree, k \in 0..n :
        \/ /\ k = n                                    \* every page allocated
           /\ live' = live \cup {s}
           /\ tracked' = tracked \cup {s}
           /\ coherent' = coherent + n
           /\ pages' = [storage |-> s, cacheable_pages |-> {},
                        num_pages |-> n, dma_num |-> n]
           /\ UNCHANGED crashed
        \/ /\ k < n                                    \* coherent page k fails
           /\ coherent' = coherent + k - DmaPagesFreed(k)
           /\ PageAllocFail(s, {})
           /\ pages' = NoPages

\* cdf_mem_multi_pages_alloc(pages, element_size, element_num, cacheable):
\* num_element_per_page, num_pages, the storage array, then the pages; a
\* failure frees what was allocated and empties the page set.
CdfMemMultiPagesAlloc ==
    /\ pages.num_pages = 0
    /\ \E elemNum \in 1..MaxElem, perPage \in 0..2, cacheable \in BOOLEAN :
        \/ /\ perPage = 0                          \* element larger than a page
           /\ UNCHANGED <<live, tracked, crashed, coherent>>
           /\ pages' = NoPages
        \/ /\ perPage > 0
           \* the storage allocation fails
           /\ UNCHANGED <<live, tracked, crashed, coherent>>
           /\ pages' = NoPages
        \/ /\ perPage > 0 /\ cacheable
           /\ CacheablePagesAlloc(NumPages(elemNum, perPage))
        \/ /\ perPage > 0 /\ ~cacheable
           /\ DmaPagesAlloc(NumPages(elemNum, perPage))
    /\ UNCHANGED <<corrupt, held, handed, phase, misuse>>

\* cdf_mem_multi_pages_free(pages, cacheable): each page, with cdf_mem_free
\* or cdf_os_mem_free_consistent, then the storage with cdf_mem_free; then
\* the page set is emptied.
CdfMemMultiPagesFree ==
    /\ crashed' = (PageBlocks \ tracked # {})
    /\ live' = live \ PageBlocks
    /\ tracked' = tracked \ PageBlocks
    /\ coherent' = coherent - pages.dma_num
    /\ pages' = NoPages

-----------------------------------------------------------------------------
(* Actions                                                                 *)

\* cdf_mem_init: an empty list; nothing allocated yet.
Init ==
    /\ live = {}
    /\ tracked = {}
    /\ corrupt = {}
    /\ held = {}
    /\ handed = {}
    /\ pages = NoPages
    /\ phase = "run"
    /\ crashed = FALSE
    /\ misuse = FALSE
    /\ coherent = 0

Running == phase = "run" /\ ~crashed

\* A caller allocates with cdf_mem_malloc (MEMORY_DEBUG build).
Malloc ==
    /\ Running
    /\ \E size \in Sizes, b \in Blocks \cup {NULL} :
        /\ CdfMemMallocDebug(size, b)
        /\ held' = held \cup ({b} \ {NULL})
        /\ handed' = handed \cup ({b} \ {NULL})
    /\ UNCHANGED <<corrupt, pages, phase, crashed, misuse, coherent>>

\* A caller frees a pointer it holds, NULL, or a stale one (a double free).
Free ==
    /\ Running
    /\ \E p \in handed \cup {NULL}, bug \in BOOLEAN :
        /\ CdfMemFree(p, bug)
        /\ crashed' = bug
        /\ held' = held \ {p}
        /\ misuse' = (misuse \/ (p # NULL /\ p \notin held))
    /\ UNCHANGED <<corrupt, handed, pages, phase, coherent>>

\* A caller writes past the end (or before the start) of a block it holds.
Overrun ==
    /\ Running
    /\ \E p \in held \ Pool :
        /\ corrupt' = corrupt \cup {p}
        /\ misuse' = TRUE
    /\ UNCHANGED <<live, tracked, held, handed, pages, phase, crashed, coherent>>

MultiPagesAlloc == Running /\ CdfMemMultiPagesAlloc

MultiPagesFree ==
    /\ Running
    /\ CdfMemMultiPagesFree
    /\ UNCHANGED <<corrupt, held, handed, phase, misuse>>

\* cdf_mem_exit -> cdf_mem_clean: every node still linked is reported as a
\* leak, unlinked and kfree'd; the driver is then unloaded.
CdfMemExit ==
    /\ Running
    /\ live' = live \ tracked
    /\ tracked' = {}
    /\ phase' = "exited"
    /\ UNCHANGED <<corrupt, held, handed, pages, crashed, misuse, coherent>>

Next ==
    \/ Malloc
    \/ Free
    \/ Overrun
    \/ MultiPagesAlloc
    \/ MultiPagesFree
    \/ CdfMemExit

Spec == Init /\ [][Next]_vars

-----------------------------------------------------------------------------
(* Properties                                                              *)

TypeOK ==
    /\ live \subseteq Blocks
    /\ tracked \subseteq Blocks \ Pool
    /\ corrupt \subseteq Blocks
    /\ held \subseteq Blocks
    /\ handed \subseteq Blocks
    /\ pages \in [storage : Blocks \cup {NULL}, cacheable_pages : SUBSET Blocks,
                  num_pages : 0..MaxElem, dma_num : 0..MaxElem]
    /\ phase \in {"run", "exited"}
    /\ crashed \in BOOLEAN
    /\ misuse \in BOOLEAN
    /\ coherent \in Nat

\* cdf_mem_list never holds a node whose block has been kfree'd: every node
\* is a live kzalloc'd block, so cdf_mem_clean and later cdf_mem_free
\* calls never touch freed memory.
TrackedAreLive == tracked \subseteq live \ Pool

\* The comment of cdf_mem_free: it panics on a corrupted block or a double
\* free.  CDF_BUG fires only when some caller really overran a block or
\* freed a pointer it did not hold; cdf_mem_multi_pages_alloc/_free, the
\* unwind of a failed multi-page allocation and the prealloc pool never
\* make it fire on their own.
CdfBugOnlyOnMisuse == crashed => misuse

\* Every block cdf hands out is accounted for while the driver runs: it is
\* held by a caller or belongs to the page set; a failed
\* cdf_mem_multi_pages_alloc leaves nothing behind.
NoUnownedMemory ==
    (phase = "run" /\ ~crashed /\ ~misuse) => live = held \cup PageBlocks

====
