------------------------------- MODULE Malloc -------------------------------
(***************************************************************************)
(* The block allocator, threads/malloc.c, over the pages of Palloc.        *)
(*                                                                         *)
(* An address is page * PGSIZE + offset, a descriptor is its block size.   *)
(* The page allocator is taken at its promise: it hands out a group of     *)
(* free pages or fails, and it may fail although a group is free, since    *)
(* pages may be freed behind its scan.  Between the steps below a thread   *)
(* touches only memory that it owns or that the descriptor's lock          *)
(* protects.  What realloc copies is left out.                             *)
(***************************************************************************)
EXTENDS Integers, Sequences, FiniteSets, SequencesExt, FiniteSetsExt

CONSTANTS
  Thread,
  PageCnt,    \* pages of the kernel pool
  PGSIZE,
  ArenaSize,  \* sizeof (struct arena)
  MinBlock,   \* the block size of the first descriptor
  SizeMax,    \* size_t counts modulo SizeMax + 1
  Sizes,      \* bound: the sizes asked for
  Products,   \* bound: the arguments <<a, b>> of calloc
  NULL

ASSUME MallocAssumption ==
  /\ {PageCnt, PGSIZE, ArenaSize, MinBlock, SizeMax} \subseteq Nat \ {0}
  /\ ArenaSize < PGSIZE
  /\ Sizes \subseteq 0..SizeMax
  /\ Products \subseteq (0..SizeMax) \X (0..SizeMax)
  /\ NULL \notin Thread

VARIABLES
  free_pages,  \* what the page allocator has to give
  arena,       \* the arena header in each page, NULL if there is none
  free_list,   \* of each descriptor
  lock,        \* of each descriptor, its holder
  pc,          \* where each thread is
  size,        \* the argument of malloc
  want,        \* history: the bytes that the caller needs
  block,       \* the block that malloc returns or that free is given
  old,         \* realloc's old_block with the bytes it was asked for, or NULL
  live         \* history: the blocks in the callers' hands, <<block, bytes>>

locals == <<size, want, block, old>>
vars == <<free_pages, arena, free_list, lock, pc, locals, live>>

Page == 0..PageCnt - 1
size_t(n) == n % (SizeMax + 1)

\* The block sizes of malloc_init's descriptors.
Desc == {d \in {MinBlock * 2^k : k \in 0..9} : d < PGSIZE \div 2}

blocks_per_arena(d) == (PGSIZE - ArenaSize) \div d

\* The smallest descriptor that satisfies a request for n bytes.
desc_for(n) ==
  LET fits == {d \in Desc : d >= n} IN IF fits = {} THEN NULL ELSE Min(fits)

page_cnt(n) == size_t(n + ArenaSize + PGSIZE - 1) \div PGSIZE

block_to_arena(b) == b \div PGSIZE

\* arena_to_block for each block of an arena of descriptor d in page a.
BlocksOf_NoHeader(a, d) ==
  [k \in 1..blocks_per_arena(d) |-> a * PGSIZE + (k - 1) * d]

BlocksOf(a, d) ==
  [k \in 1..blocks_per_arena(d) |-> a * PGSIZE + ArenaSize + (k - 1) * d]

block_size(b) ==
  LET a == arena[block_to_arena(b)] IN
  IF a.desc # NULL THEN a.desc ELSE PGSIZE * a.free_cnt - (b % PGSIZE)

Goto(t, label) == pc' = [pc EXCEPT ![t] = label]

ClearLocals(t) ==
  /\ size' = [size EXCEPT ![t] = 0]
  /\ want' = [want EXCEPT ![t] = 0]
  /\ block' = [block EXCEPT ![t] = NULL]
  /\ old' = [old EXCEPT ![t] = NULL]

-----------------------------------------------------------------------------
(***************************************************************************)
(* The calls.                                                              *)
(***************************************************************************)
Enter(t, n, bytes, r) ==
  /\ n # 0
  /\ Goto(t, IF desc_for(n) = NULL THEN "get_pages" ELSE "lock")
  /\ size' = [size EXCEPT ![t] = n]
  /\ want' = [want EXCEPT ![t] = bytes]
  /\ old' = [old EXCEPT ![t] = r]
  /\ UNCHANGED <<free_pages, arena, free_list, lock, block>>

malloc(t, n) ==
  /\ pc[t] = "idle"
  /\ Enter(t, n, n, NULL)
  /\ UNCHANGED live

calloc(t, a, b) ==
  LET product == size_t(a * b) IN
  /\ pc[t] = "idle"
  /\ ~(product < a \/ product < b)
  /\ Enter(t, product, a * b, NULL)
  /\ UNCHANGED live

free(t, r) ==
  /\ pc[t] = "idle"
  /\ r \in live
  /\ live' = live \ {r}
  /\ block' = [block EXCEPT ![t] = r[1]]
  /\ Goto(t, "free")
  /\ UNCHANGED <<free_pages, arena, free_list, lock, size, want, old>>

\* A call with null OLD_BLOCK is malloc, one with zero NEW_SIZE is free.
realloc(t, r, n) ==
  /\ pc[t] = "idle"
  /\ r \in live
  /\ Enter(t, n, n, r)
  /\ live' = live \ {r}

-----------------------------------------------------------------------------
(***************************************************************************)
(* malloc.                                                                 *)
(***************************************************************************)
\* malloc has returned b; realloc goes on to free its old block.
Returned(t, b) ==
  IF old[t] # NULL /\ b # NULL
  THEN /\ Goto(t, "free")
       /\ block' = [block EXCEPT ![t] = old[t][1]]
       /\ size' = [size EXCEPT ![t] = 0]
       /\ want' = [want EXCEPT ![t] = 0]
       /\ old' = [old EXCEPT ![t] = NULL]
       /\ live' = live \cup {<<b, want[t]>>}
  ELSE /\ Goto(t, "idle")
       /\ ClearLocals(t)
       /\ live' = live \cup (IF b = NULL THEN {} ELSE {<<b, want[t]>>})
                       \cup (IF old[t] = NULL THEN {} ELSE {old[t]})

\* palloc_get_multiple gives page a and the n - 1 pages after it.
TakePages(a, n) ==
  /\ n > 0
  /\ a..a + n - 1 \subseteq free_pages
  /\ free_pages' = free_pages \ (a..a + n - 1)

get_big(t) ==
  LET n == page_cnt(size[t]) IN
  /\ pc[t] = "get_pages"
  /\ \/ \E a \in Page :
          /\ TakePages(a, n)
          /\ arena' = [arena EXCEPT ![a] = [desc |-> NULL, free_cnt |-> n]]
          /\ Returned(t, a * PGSIZE + ArenaSize)
     \/ /\ Returned(t, NULL)
        /\ UNCHANGED <<free_pages, arena>>
  /\ UNCHANGED <<free_list, lock>>

lock_acquire(t) ==
  LET d == desc_for(size[t]) IN
  /\ pc[t] = "lock"
  /\ lock[d] = NULL
  /\ lock' = [lock EXCEPT ![d] = t]
  /\ Goto(t, IF free_list[d] = <<>> THEN "refill" ELSE "pop")
  /\ UNCHANGED <<free_pages, arena, free_list, locals, live>>

refill(t) ==
  LET d == desc_for(size[t]) IN
  /\ pc[t] = "refill"
  /\ \/ \E a \in Page :
          /\ TakePages(a, 1)
          /\ arena' = [arena EXCEPT ![a] = [desc |-> d, free_cnt |-> blocks_per_arena(d)]]
          /\ free_list' = [free_list EXCEPT ![d] = @ \o BlocksOf(a, d)]
          /\ Goto(t, "pop")
          /\ UNCHANGED <<lock, locals, live>>
     \/ /\ lock' = [lock EXCEPT ![d] = NULL]
        /\ Returned(t, NULL)
        /\ UNCHANGED <<free_pages, arena, free_list>>

pop(t) ==
  LET d == desc_for(size[t]) IN
  /\ pc[t] = "pop"
  /\ block' = [block EXCEPT ![t] = Head(free_list[d])]
  /\ arena' = [arena EXCEPT ![block_to_arena(block'[t])].free_cnt = @ - 1]
  /\ free_list' = [free_list EXCEPT ![d] = Tail(@)]
  /\ Goto(t, "unlock")
  /\ UNCHANGED <<free_pages, lock, size, want, old, live>>

lock_release(t) ==
  /\ pc[t] = "unlock"
  /\ lock' = [lock EXCEPT ![desc_for(size[t])] = NULL]
  /\ Returned(t, block[t])
  /\ UNCHANGED <<free_pages, arena, free_list>>

-----------------------------------------------------------------------------
(***************************************************************************)
(* free.                                                                   *)
(***************************************************************************)
free_big(t) ==
  LET a == block_to_arena(block[t]) IN
  /\ pc[t] = "free"
  /\ arena[a].desc = NULL
  /\ free_pages' = free_pages \cup (a..a + arena[a].free_cnt - 1)
  /\ arena' = [arena EXCEPT ![a] = NULL]
  /\ Goto(t, "idle")
  /\ ClearLocals(t)
  /\ UNCHANGED <<free_list, lock, live>>

free_lock(t) ==
  LET d == arena[block_to_arena(block[t])].desc IN
  /\ pc[t] = "free"
  /\ d # NULL
  /\ lock[d] = NULL
  /\ lock' = [lock EXCEPT ![d] = t]
  /\ size' = [size EXCEPT ![t] = d]
  /\ Goto(t, "push")
  /\ UNCHANGED <<free_pages, arena, free_list, want, block, old, live>>

\* The block goes back to the free list; an unused arena goes back to the pages.
free_push_Kept(t) ==
  LET d == size[t]
      a == block_to_arena(block[t]) IN
  /\ pc[t] = "push"
  /\ free_list' = [free_list EXCEPT ![d] = <<block[t]>> \o @]
  /\ arena' = [arena EXCEPT ![a].free_cnt = @ + 1]
  /\ Goto(t, "free_unlock")
  /\ UNCHANGED <<free_pages, lock, locals, live>>

free_push(t) ==
  LET d == size[t]
      a == block_to_arena(block[t])
      pushed == <<block[t]>> \o free_list[d]
      unused == arena[a].free_cnt + 1 >= blocks_per_arena(d) IN
  /\ pc[t] = "push"
  /\ IF unused
     THEN /\ free_list' = [free_list EXCEPT ![d] =
                             SelectSeq(pushed, LAMBDA b : block_to_arena(b) # a)]
          /\ arena' = [arena EXCEPT ![a] = NULL]
          /\ free_pages' = free_pages \cup {a}
     ELSE /\ free_list' = [free_list EXCEPT ![d] = pushed]
          /\ arena' = [arena EXCEPT ![a].free_cnt = @ + 1]
          /\ UNCHANGED free_pages
  /\ Goto(t, "free_unlock")
  /\ UNCHANGED <<lock, locals, live>>

free_unlock(t) ==
  /\ pc[t] = "free_unlock"
  /\ lock' = [lock EXCEPT ![size[t]] = NULL]
  /\ Goto(t, "idle")
  /\ ClearLocals(t)
  /\ UNCHANGED <<free_pages, arena, free_list, live>>

-----------------------------------------------------------------------------
Init ==
  /\ free_pages = Page
  /\ arena = [p \in Page |-> NULL]
  /\ free_list = [d \in Desc |-> <<>>]
  /\ lock = [d \in Desc |-> NULL]
  /\ pc = [t \in Thread |-> "idle"]
  /\ size = [t \in Thread |-> 0]
  /\ want = [t \in Thread |-> 0]
  /\ block = [t \in Thread |-> NULL]
  /\ old = [t \in Thread |-> NULL]
  /\ live = {}

Acquire(t) == lock_acquire(t) \/ free_lock(t)

Step(t) ==
  \/ get_big(t) \/ refill(t) \/ pop(t) \/ lock_release(t)
  \/ free_big(t) \/ free_push(t) \/ free_unlock(t)

Next ==
  \E t \in Thread :
    \/ Acquire(t) \/ Step(t)
    \/ \E n \in Sizes : malloc(t, n)
    \/ \E p \in Products : calloc(t, p[1], p[2])
    \/ \E r \in live : free(t, r) \/ \E n \in Sizes : realloc(t, r, n)

\* Threads that can run do.
Fairness == \A t \in Thread : WF_vars(Acquire(t) \/ Step(t))

Spec == Init /\ [][Next]_vars /\ Fairness

-----------------------------------------------------------------------------
(***************************************************************************)
(* Properties.                                                             *)
(***************************************************************************)
\* The blocks that are in use: in a caller's hands, being resized, about to be
\* returned, or about to go back to a free list.
InUse ==
  live \cup {old[t] : t \in {u \in Thread : old[u] # NULL}}
       \cup {<<block[t], IF pc[t] = "unlock" THEN want[t] ELSE 1>> :
             t \in {u \in Thread : pc[u] \in {"unlock", "free", "push"}}}

Bytes(b, n) == b..b + n - 1

\* The bytes of the block structure of a free block, and of an arena header.
FreeBytes ==
  UNION {Bytes(b, MinBlock) : b \in UNION {ToSet(free_list[d]) : d \in Desc}}
HeaderBytes ==
  UNION {Bytes(p * PGSIZE, ArenaSize) : p \in {q \in Page : arena[q] # NULL}}

\* No two blocks in use share a byte, and none has one in a header, in a free
\* block or in a free page: what a caller writes to the bytes it asked malloc
\* for reaches nothing else, and the assertions of block_to_arena hold.
BlocksDisjoint ==
  /\ \A r, s \in InUse : r = s \/ Bytes(r[1], r[2]) \cap Bytes(s[1], s[2]) = {}
  /\ \A r \in InUse :
       LET mine == Bytes(r[1], r[2]) IN
       /\ arena[block_to_arena(r[1])] # NULL
       /\ mine \cap (FreeBytes \cup HeaderBytes) = {}
       /\ {b \div PGSIZE : b \in mine} \cap free_pages = {}

\* Nothing leaks.  While a descriptor's lock is free, its free list holds exactly
\* the blocks of its arenas that nobody uses, each once; free_cnt counts them,
\* which free's assertion needs; and no arena without a used block is kept.  A
\* page that is not free holds an arena or is part of a big block in use.
MemoryAccounted ==
  /\ \A p \in Page \ free_pages :
       \E a \in Page :
         /\ arena[a] # NULL
         /\ IF arena[a].desc # NULL
            THEN p = a
            ELSE /\ p \in a..a + arena[a].free_cnt - 1
                 /\ a * PGSIZE + ArenaSize \in {r[1] : r \in InUse}
  /\ \A d \in Desc :
       lock[d] = NULL =>
         LET mine == {p \in Page : arena[p] # NULL /\ arena[p].desc = d}
             all == UNION {ToSet(BlocksOf(p, d)) : p \in mine}
             used == {r[1] : r \in InUse} IN
         /\ ToSet(free_list[d]) = all \ used
         /\ IsInjective(free_list[d])
         /\ \A p \in mine :
              /\ arena[p].free_cnt =
                   Cardinality({b \in ToSet(free_list[d]) : block_to_arena(b) = p})
              /\ arena[p].free_cnt < blocks_per_arena(d)

=============================================================================
