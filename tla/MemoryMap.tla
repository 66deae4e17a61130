----------------------------- MODULE MemoryMap -----------------------------
(***************************************************************************)
(* The division of memory at boot: palloc_init and init_pool in            *)
(* threads/palloc.c, and the kernel's page tables, paging_init in          *)
(* threads/init.c.  Memory is counted in pages.  A pool keeps its bitmap   *)
(* in its first pages.                                                     *)
(***************************************************************************)
EXTENDS Integers, FiniteSets

CONSTANTS
  FreeStart,      \* the first page that is free at boot: 1 MB
  BitsPerPage,    \* bits of a bitmap that fit in a page
  HeaderBits,     \* the room that struct bitmap takes, in bits
  ElemBits,       \* bits of an element of a bitmap
  EntriesPerTable,\* entries of a page table
  KernelText      \* the pages of the kernel's code

Panic == [base |-> -1, cnt |-> 0]

DivRoundUp(x, step) == (x + step - 1) \div step
bitmap_buf_size(bit_cnt) == HeaderBits + ElemBits * DivRoundUp(bit_cnt, ElemBits)

\* base is where the pages of the pool start, behind its bitmap.
init_pool(base, page_cnt) ==
  LET bm_pages == DivRoundUp(bitmap_buf_size(page_cnt), BitsPerPage)
  IN  IF bm_pages > page_cnt THEN Panic
      ELSE [base |-> base + bm_pages, cnt |-> page_cnt - bm_pages]

palloc_init(init_ram_pages, user_page_limit) ==
  LET free_pages == init_ram_pages - FreeStart
      half == free_pages \div 2
      user_pages == IF half > user_page_limit THEN user_page_limit ELSE half
      kernel_pages == free_pages - user_pages
  IN  [kernel |-> init_pool(FreeStart, kernel_pages),
       user |-> init_pool(FreeStart + kernel_pages, user_pages)]

page_from_pool(pool, page) == page >= pool.base /\ page < pool.base + pool.cnt

\* Where palloc_get_multiple finds group idx of a pool, and which bit of which
\* pool palloc_free_multiple clears.
PageAt(pool, idx) == pool.base + idx
FreedBit(pools, page) ==
  IF page_from_pool(pools.kernel, page) THEN <<"kernel", page - pools.kernel.base>>
  ELSE IF page_from_pool(pools.user, page) THEN <<"user", page - pools.user.base>>
  ELSE <<"none", 0>>

\* The page tables that paging_init has made after the first n pages: from the
\* index in the page directory to that in the page table to the entry.  A page
\* is mapped at a fixed offset, which is left out.
paging_init[n \in Nat] ==
  IF n = 0 THEN <<>>
  ELSE LET pd == paging_init[n - 1]
           page == n - 1
           pde_idx == page \div EntriesPerTable
           pte == [page |-> page, writable |-> page \notin KernelText]
           pt == [i \in {page % EntriesPerTable} |-> pte]
           Both(f, g) == [i \in DOMAIN f \cup DOMAIN g |-> IF i \in DOMAIN g THEN g[i] ELSE f[i]]
       IN  Both(pd, [i \in {pde_idx} |-> IF pde_idx \in DOMAIN pd THEN Both(pd[pde_idx], pt) ELSE pt])

-----------------------------------------------------------------------------
\* No page is in two pools or holds a bitmap as well, all of them are memory,
\* a page that is freed is freed in the pool it was taken from, the bitmap
\* covers the pool, and no more user pages than the limit are given out.  The
\* kernel maps each page of memory once, its own code read-only.
LayoutOK(ram, limit) ==
  LET p == palloc_init(ram, limit)
      Pages(pool) == {PageAt(pool, i) : i \in 0..(pool.cnt - 1)}
      start == [kernel |-> FreeStart,
                user |-> IF p.kernel = Panic THEN 0 ELSE p.kernel.base + p.kernel.cnt]
      mapped == paging_init[ram]
  IN  /\ Panic \notin {p.kernel, p.user} =>
           /\ Pages(p.kernel) \cup Pages(p.user) \subseteq FreeStart..(ram - 1)
           /\ Pages(p.kernel) \cap Pages(p.user) = {}
           /\ Cardinality(Pages(p.user)) <= limit
           /\ \A k \in {"kernel", "user"} :
                /\ (p[k].base - start[k]) * BitsPerPage >= HeaderBits + p[k].cnt
                /\ start[k]..(p[k].base - 1) \cap (Pages(p.kernel) \cup Pages(p.user)) = {}
                /\ \A i \in 0..(p[k].cnt - 1) : FreedBit(p, PageAt(p[k], i)) = <<k, i>>
      /\ \A page \in 0..(ram - 1) :
           {<<i, j>> \in (0..ram) \X (0..(EntriesPerTable - 1)) :
              i \in DOMAIN mapped /\ j \in DOMAIN mapped[i] /\ mapped[i][j].page = page}
           = {<<page \div EntriesPerTable, page % EntriesPerTable>>}
      /\ \A i \in DOMAIN mapped : \A j \in DOMAIN mapped[i] :
           mapped[i][j].writable <=> mapped[i][j].page \notin KernelText
=============================================================================
