------------------------- MODULE AddressSpaceProofs -------------------------
(***************************************************************************)
(* Proofs about Process, for pools of any size, any executables and any    *)
(* number of tasks: the inductive invariant, and its preservation by the   *)
(* steps in which a process loads its program and gives its pages back.    *)
(*                                                                         *)
(* The inductive invariant says who owns each page.  A page directory, a   *)
(* page table, a user page, a copy of a file name and a struct thread can  *)
(* only be told apart from a page that palloc hands out next if each has   *)
(* one owner; and the CPU's page directory is only one that exists because *)
(* nobody but its own process destroys it.                                 *)
(***************************************************************************)
EXTENDS Process, ListLemmas

ProcLabel ==
  {"pagedir", "activate", "open", "segment", "page", "read", "install", "close",
   "free_copy", "user", "kill", "exit", "base", "destroy", "up", "die"}

ProcRec ==
  [pc : ProcLabel, pagedir : Nat, fn : Nat, exe : Executable, seg : Nat \ {0},
   pg : Nat \ {0}, kpage : Nat, pd : Nat, file : BOOLEAN, ok : BOOLEAN]

MainRec ==
  [pc : {"next", "create", "wait", "blocked", "off"}, fn : Nat, tasks : Nat,
   started : BOOLEAN]

TypeInv ==
  /\ total \in [kernel : Nat, user : Nat]
  /\ pool \in [{"kernel", "user"} -> SUBSET Nat]
  /\ procs \in [DOMAIN procs -> ProcRec]
  /\ \A d \in DOMAIN spaces : spaces[d] = [pts |-> spaces[d].pts, map |-> spaces[d].map]
  /\ main \in MainRec
  /\ ready \in Seq(DOMAIN procs \cup {Main})
  /\ temporary \in Int /\ panicked \in BOOLEAN

\* A thread runs, is ready, waits for the disk or is main and waits for a
\* process: one of these.
SchedInv ==
  /\ current \in DOMAIN procs \cup {Main, Idle}
  /\ IsInjective(ready) /\ current \notin Range(ready)
  /\ io \subseteq DOMAIN procs \ ({current} \cup Range(ready))
  /\ main.pc = "blocked" => current # Main /\ Main \notin Range(ready)

\* What a process owns at each label, and where load is in the executable.
Entered == {"activate", "open", "segment", "page", "read", "install"}

LocalAt(r, l) ==
  /\ l \in Entered => r.pagedir # Null
  /\ l \in {"pagedir", "base", "destroy", "up", "die"} => r.pagedir = Null
  /\ r.pd # Null <=> l \in {"base", "destroy"}
  /\ r.fn # Null <=> l \in Entered \cup {"pagedir", "close", "free_copy"}
  /\ r.kpage # Null <=> l \in {"read", "install"}
  /\ l \in {"pagedir", "activate", "open", "segment"} => r.pg = 1
  /\ l \in {"page", "read", "install"} /\ r.seg <= Len(r.exe.segments) =>
       /\ r.exe.segments[r.seg].type = "load"
       /\ r.pg <= Len(r.exe.segments[r.seg].pages)

LocalOK(r) == LocalAt(r, r.pc)

MainInv ==
  /\ main.fn # Null <=> main.pc = "create"
  /\ main.tasks = 0 => DOMAIN procs = {} /\ main.pc \in {"next", "off"}
  /\ temporary = -1 => main.tasks = 0
  /\ temporary >= -1
  /\ PanicsOnlyUnused

\* The page tables of an address space.
SpaceOK(s) ==
  /\ DOMAIN s.map \subseteq Nat /\ DOMAIN s.pts \subseteq Nat
  /\ \A u \in DOMAIN s.map : PdNo(u) \in DOMAIN s.pts

-----------------------------------------------------------------------------
(***************************************************************************)
(* Ownership of pages.  The sets of a pool's pages, free ones included,    *)
(* are a partition of the pool.                                            *)
(***************************************************************************)
Partition(sets, X) ==
  /\ \A i, j \in DOMAIN sets : i # j => sets[i] \cap sets[j] = {}
  /\ UNION {sets[i] : i \in DOMAIN sets} = X

\* The pages that f refers to, one from each element of its domain or none.
Held(f) == {f[t] : t \in DOMAIN f} \ {Null}
OneHolder(f) == \A t, u \in DOMAIN f : f[t] = f[u] /\ f[t] # Null => t = u

\* The pages that the tables F[d] refer to.
Listed(F) == UNION {{F[d][i] : i \in DOMAIN F[d]} : d \in DOMAIN F}
OneEntry(F) ==
  \A d, e \in DOMAIN F : \A i \in DOMAIN F[d], j \in DOMAIN F[e] :
    F[d][i] = F[e][j] => d = e /\ i = j

Fn == [t \in DOMAIN procs |-> procs[t].fn]
Kp == [t \in DOMAIN procs |-> procs[t].kpage]
Dirs(r) == {r.pagedir, r.pd} \ {Null}
Pts == [d \in DOMAIN spaces |-> spaces[d].pts]
Map == [d \in DOMAIN spaces |-> spaces[d].map]

Kernel ==
  <<DOMAIN procs, DOMAIN spaces, {main.fn} \ {Null}, Held(Fn), Listed(Pts), pool["kernel"]>>
User == <<Held(Kp), Listed(Map), pool["user"]>>

PagesInv ==
  /\ Partition(Kernel, 1..total["kernel"])
  /\ Partition(User, 1..total["user"])
  /\ OneHolder(Fn) /\ OneHolder(Kp) /\ OneEntry(Pts) /\ OneEntry(Map)
  /\ \A t, u \in DOMAIN procs : Dirs(procs[t]) \cap Dirs(procs[u]) # {} => t = u
  /\ DOMAIN spaces = UNION {Dirs(procs[t]) : t \in DOMAIN procs}

IndInv ==
  /\ TypeInv /\ SchedInv /\ MainInv /\ PagesInv /\ ActiveSpaceValid
  /\ \A t \in DOMAIN procs : LocalOK(procs[t])
  /\ \A d \in DOMAIN spaces : SpaceOK(spaces[d])

-----------------------------------------------------------------------------
(***************************************************************************)
(* Lemmas about the operators.                                             *)
(***************************************************************************)
\* A page that moves from one owner to another leaves a partition.
LEMMA Move ==
  ASSUME NEW A, NEW B, NEW X, Partition(A, X), DOMAIN B = DOMAIN A,
         NEW i \in DOMAIN A, NEW j \in DOMAIN A, i # j, NEW p \in A[i],
         B[i] = A[i] \ {p}, B[j] = A[j] \cup {p},
         \A k \in DOMAIN A \ {i, j} : B[k] = A[k]
  PROVE  Partition(B, X)
  <1>1. \A k, l \in DOMAIN B : k # l => B[k] \cap B[l] = {}
    BY DEF Partition
  <1>2. \A x : x \in X <=> \E k \in DOMAIN A : x \in A[k]
    BY DEF Partition
  <1>3. ASSUME NEW x PROVE x \in X <=> \E k \in DOMAIN B : x \in B[k]
    <2>1. CASE x = p
      BY <1>2, <2>1, Zenon
    <2>2. CASE x # p
      <3>1. \A k \in DOMAIN A : x \in A[k] <=> x \in B[k]
        BY <2>2, Zenon
      <3> QED BY <1>2, <3>1, Zenon
    <2> QED BY <2>1, <2>2, Zenon
  <1>4. UNION {B[k] : k \in DOMAIN B} = X
    BY <1>3, Zenon
  <1> QED BY <1>1, <1>4, Zenon DEF Partition

\* One holder more, one less, or the same.
LEMMA HoldAdd ==
  ASSUME NEW f, NEW g, NEW t, NEW p, p # Null, p \notin Held(f), OneHolder(f),
         DOMAIN g = DOMAIN f \cup {t}, t \in DOMAIN f => f[t] = Null, g[t] = p,
         \A u \in DOMAIN f \ {t} : g[u] = f[u]
  PROVE  Held(g) = Held(f) \cup {p} /\ OneHolder(g)
  <1>1. \A u \in DOMAIN f \ {t} : g[u] # p
    BY Zenon DEF Held
  <1>2. OneHolder(g)
    BY <1>1, Zenon DEF OneHolder
  <1>3. \A x : x \in Held(g) <=> x \in Held(f) \cup {p}
    BY Zenon DEF Held
  <1> QED BY <1>2, <1>3, Zenon

\* One holder gives its page up.
LEMMA HoldDrop ==
  ASSUME NEW f, NEW g, NEW t \in DOMAIN f, f[t] # Null, g[t] = Null, OneHolder(f),
         DOMAIN g = DOMAIN f, \A u \in DOMAIN f \ {t} : g[u] = f[u]
  PROVE  Held(g) = Held(f) \ {f[t]} /\ OneHolder(g) /\ f[t] \in Held(f)
  <1>1. OneHolder(g)
    BY Zenon DEF OneHolder
  <1>2. \A u \in DOMAIN f \ {t} : f[u] # f[t]
    BY Zenon DEF OneHolder
  <1>3. \A x : x \in Held(g) <=> x \in Held(f) \ {f[t]}
    BY <1>2, Zenon DEF Held
  <1> QED BY <1>1, <1>3, Zenon DEF Held

\* Holders that come or go without a page change nothing.
LEMMA HoldSame ==
  ASSUME NEW f, NEW g, OneHolder(f),
         \A u : (u \in DOMAIN f /\ f[u] # Null) <=> (u \in DOMAIN g /\ g[u] # Null),
         \A u \in DOMAIN f \cap DOMAIN g : g[u] = f[u]
  PROVE  Held(g) = Held(f) /\ OneHolder(g)
  <1>1. OneHolder(g)
    BY Zenon DEF OneHolder
  <1>2. \A x : x \in Held(g) <=> x \in Held(f)
    BY Zenon DEF Held
  <1> QED BY <1>1, <1>2, Zenon

\* One entry more or less in the table of d, and an empty table more or less.
LEMMA ListAdd ==
  ASSUME NEW F, NEW G, NEW d \in DOMAIN F, NEW k, NEW p, p \notin Listed(F), OneEntry(F),
         DOMAIN G = DOMAIN F, \A e \in DOMAIN F \ {d} : G[e] = F[e],
         k \notin DOMAIN F[d], DOMAIN G[d] = DOMAIN F[d] \cup {k}, G[d][k] = p,
         \A i \in DOMAIN F[d] : G[d][i] = F[d][i]
  PROVE  Listed(G) = Listed(F) \cup {p} /\ OneEntry(G)
  <1>1. \A e \in DOMAIN F : \A i \in DOMAIN F[e] : F[e][i] # p
    BY DEF Listed
  <1>2. OneEntry(G)
    BY <1>1 DEF OneEntry
  <1>3. \A x : x \in Listed(G) <=> \E e \in DOMAIN G : \E i \in DOMAIN G[e] : G[e][i] = x
    BY DEF Listed
  <1>4. \A x : x \in Listed(F) <=> \E e \in DOMAIN F : \E i \in DOMAIN F[e] : F[e][i] = x
    BY DEF Listed
  <1>5. \A x : x \in Listed(G) <=> x \in Listed(F) \cup {p}
    BY <1>3, <1>4
  <1> QED BY <1>2, <1>5, Zenon

\* One entry goes from the table of d.
LEMMA ListDrop ==
  ASSUME NEW F, NEW G, NEW d \in DOMAIN F, NEW k \in DOMAIN F[d], OneEntry(F),
         DOMAIN G = DOMAIN F, \A e \in DOMAIN F \ {d} : G[e] = F[e],
         DOMAIN G[d] = DOMAIN F[d] \ {k},
         \A i \in DOMAIN F[d] \ {k} : G[d][i] = F[d][i]
  PROVE  Listed(G) = Listed(F) \ {F[d][k]} /\ OneEntry(G) /\ F[d][k] \in Listed(F)
  <1>1. OneEntry(G)
    BY DEF OneEntry
  <1>2. \A x : x \in Listed(G) <=> \E e \in DOMAIN G : \E i \in DOMAIN G[e] : G[e][i] = x
    BY DEF Listed
  <1>3. \A x : x \in Listed(F) <=> \E e \in DOMAIN F : \E i \in DOMAIN F[e] : F[e][i] = x
    BY DEF Listed
  <1>4. \A e \in DOMAIN G : \A i \in DOMAIN G[e] : G[e][i] # F[d][k] /\ G[e][i] = F[e][i]
    BY DEF OneEntry
  <1>5. \A x : x \in Listed(G) <=> x \in Listed(F) \ {F[d][k]}
    BY <1>2, <1>3, <1>4
  <1> QED BY <1>1, <1>3, <1>5, Zenon

\* An empty table that comes or goes changes nothing.
LEMMA ListSame ==
  ASSUME NEW F, NEW G, NEW d, OneEntry(F),
         \A e : e # d => (e \in DOMAIN G <=> e \in DOMAIN F),
         \A e \in DOMAIN F \ {d} : G[e] = F[e],
         d \in DOMAIN F => DOMAIN F[d] = {}, d \in DOMAIN G => DOMAIN G[d] = {}
  PROVE  Listed(G) = Listed(F) /\ OneEntry(G)
  <1>1. OneEntry(G)
    BY DEF OneEntry
  <1>2. \A x : x \in Listed(G) <=> \E e \in DOMAIN G : \E i \in DOMAIN G[e] : G[e][i] = x
    BY DEF Listed
  <1>3. \A x : x \in Listed(F) <=> \E e \in DOMAIN F : \E i \in DOMAIN F[e] : F[e][i] = x
    BY DEF Listed
  <1>4. \A x : x \in Listed(G) <=> x \in Listed(F)
    BY <1>2, <1>3
  <1> QED BY <1>1, <1>4, Zenon

-----------------------------------------------------------------------------
(***************************************************************************)
(* Lemmas about steps.                                                     *)
(***************************************************************************)
\* A step moves one page of the kernel pool to another owner.
LEMMA KernelMove ==
  ASSUME Partition(Kernel, 1..total["kernel"]), total' = total,
         NEW i \in 1..6, NEW j \in 1..6, i # j, NEW p \in Kernel[i],
         Kernel'[i] = Kernel[i] \ {p}, Kernel'[j] = Kernel[j] \cup {p},
         \A k \in (1..6) \ {i, j} : Kernel'[k] = Kernel[k]
  PROVE  Partition(Kernel', 1..total'["kernel"])
  <1>1. DOMAIN Kernel = 1..6 /\ DOMAIN Kernel' = 1..6
    BY DEF Kernel
  <1>2. PICK A, B : A = Kernel /\ B = Kernel'
    BY Zenon
  <1>3. Partition(B, 1..total["kernel"])
    BY <1>1, <1>2, Move
  <1> QED BY <1>2, <1>3, Zenon

\* A step moves one page of the user pool to another owner.
LEMMA UserMove ==
  ASSUME Partition(User, 1..total["user"]), total' = total,
         NEW i \in 1..3, NEW j \in 1..3, i # j, NEW p \in User[i],
         User'[i] = User[i] \ {p}, User'[j] = User[j] \cup {p},
         \A k \in (1..3) \ {i, j} : User'[k] = User[k]
  PROVE  Partition(User', 1..total'["user"])
  <1>1. DOMAIN User = 1..3 /\ DOMAIN User' = 1..3
    BY DEF User
  <1>2. PICK A, B : A = User /\ B = User'
    BY Zenon
  <1>3. Partition(B, 1..total["user"])
    BY <1>1, <1>2, Move
  <1> QED BY <1>2, <1>3, Zenon

\* The sets of pages, by name.
LEMMA Owners ==
  /\ Kernel[1] = DOMAIN procs /\ Kernel[2] = DOMAIN spaces
  /\ Kernel[3] = {main.fn} \ {Null} /\ Kernel[4] = Held(Fn)
  /\ Kernel[5] = Listed(Pts) /\ Kernel[6] = pool["kernel"]
  /\ User[1] = Held(Kp) /\ User[2] = Listed(Map) /\ User[3] = pool["user"]
  BY Zenon DEF Kernel, User

\* The sets of pages after a step, by name.
LEMMA OwnersNext ==
  /\ Kernel'[1] = DOMAIN procs' /\ Kernel'[2] = DOMAIN spaces'
  /\ Kernel'[3] = {main'.fn} \ {Null} /\ Kernel'[4] = Held(Fn)'
  /\ Kernel'[5] = Listed(Pts)' /\ Kernel'[6] = pool'["kernel"]
  /\ User'[1] = Held(Kp)' /\ User'[2] = Listed(Map)' /\ User'[3] = pool'["user"]
  BY Zenon DEF Kernel, User

\* All pages of a pool are natural numbers but zero, and its sets are disjoint.
LEMMA PoolPages ==
  ASSUME TypeInv, PagesInv
  PROVE  /\ \A i \in 1..6 : Kernel[i] \subseteq Nat \ {0}
         /\ \A i, j \in 1..6 : i # j => Kernel[i] \cap Kernel[j] = {}
         /\ \A i \in 1..3 : User[i] \subseteq Nat \ {0}
         /\ \A i, j \in 1..3 : i # j => User[i] \cap User[j] = {}
  <1>1. DOMAIN Kernel = 1..6 /\ DOMAIN User = 1..3
    BY DEF Kernel, User
  <1>2. 1..total["kernel"] \subseteq Nat \ {0} /\ 1..total["user"] \subseteq Nat \ {0}
    BY DEF TypeInv
  <1>3. /\ \A i \in DOMAIN Kernel : Kernel[i] \subseteq 1..total["kernel"]
        /\ \A i, j \in DOMAIN Kernel : i # j => Kernel[i] \cap Kernel[j] = {}
        /\ \A i \in DOMAIN User : User[i] \subseteq 1..total["user"]
        /\ \A i, j \in DOMAIN User : i # j => User[i] \cap User[j] = {}
    <2>1. Partition(Kernel, 1..total["kernel"]) /\ Partition(User, 1..total["user"])
      BY Zenon DEF PagesInv
    <2> HIDE DEF Kernel, User
    <2> QED BY <2>1, Zenon DEF Partition
  <1> QED BY <1>1, <1>2, <1>3, Zenon

\* Without the free pages the owners account for the kernel pages in use.
LEMMA OwnedKernel ==
  ASSUME IndInv
  PROVE  Accounts("kernel", KernelOwned)
  <1>1. TypeInv /\ PagesInv
    BY Zenon DEF IndInv
  <1>2. PICK A, B : A = Kernel /\ B = KernelOwned
    BY Zenon
  <1>3. /\ DOMAIN A = 1..6 /\ DOMAIN B = 1..5 /\ Partition(A, 1..total["kernel"])
        /\ A[6] = pool["kernel"]
    BY <1>1, <1>2, Owners DEF Kernel, KernelOwned, PagesInv
  <1>4. \A k \in 1..5 : B[k] = A[k]
    <2>1. /\ KernelOwned[1] = DOMAIN procs /\ KernelOwned[2] = DOMAIN spaces
          /\ KernelOwned[3] = {main.fn} \ {Null}
          /\ KernelOwned[4] = {procs[t].fn : t \in DOMAIN procs} \ {Null}
          /\ KernelOwned[5] = UNION {{spaces[d].pts[i] : i \in DOMAIN spaces[d].pts} :
                                      d \in DOMAIN spaces}
      BY Zenon DEF KernelOwned
    <2>2. Held(Fn) = {procs[t].fn : t \in DOMAIN procs} \ {Null}
      BY Zenon DEF Held, Fn
    <2>3. Listed(Pts) = UNION {{spaces[d].pts[i] : i \in DOMAIN spaces[d].pts} :
                                d \in DOMAIN spaces}
      BY DEF Listed, Pts
    <2>4. \A k \in 1..5 : k \in {1, 2, 3, 4, 5}
      OBVIOUS
    <2>5. /\ B[1] = A[1] /\ B[2] = A[2] /\ B[3] = A[3] /\ B[4] = A[4] /\ B[5] = A[5]
      BY <1>2, <2>1, <2>2, <2>3, Owners, Zenon
    <2> QED BY <2>4, <2>5, Zenon
  <1>5. \A i, j \in 1..6 : i # j => A[i] \cap A[j] = {}
    BY <1>3, Zenon DEF Partition
  <1>6. \A x : x \in 1..total["kernel"] <=> \E k \in 1..6 : x \in A[k]
    BY <1>3, Zenon DEF Partition
  <1>7. \A x : x \in 1..total["kernel"] \ pool["kernel"] <=> \E k \in 1..5 : x \in B[k]
    <2>1. \A k \in 1..6 : k \in 1..5 \/ k = 6
      OBVIOUS
    <2>2. \A k \in 1..5 : A[k] \cap A[6] = {}
      BY <1>5
    <2>3. \A x : (\E k \in 1..6 : x \in A[k]) <=> x \in A[6] \/ \E k \in 1..5 : x \in A[k]
      BY <2>1
    <2> QED BY <1>3, <1>4, <1>6, <2>2, <2>3, Zenon
  <1>8. \A x : x \in UNION {B[k] : k \in DOMAIN B} <=> \E k \in DOMAIN B : x \in B[k]
    BY Zenon
  <1>9. UNION {B[k] : k \in DOMAIN B} = 1..total["kernel"] \ pool["kernel"]
    BY <1>3, <1>7, <1>8, Zenon
  <1>10. \A i, j \in DOMAIN B : i # j => B[i] \cap B[j] = {}
    BY <1>3, <1>4, <1>5
  <1> QED BY <1>2, <1>9, <1>10 DEF Accounts

\* Without the free pages the owners account for the user pages in use.
LEMMA OwnedUser ==
  ASSUME IndInv
  PROVE  Accounts("user", UserOwned)
  <1>1. TypeInv /\ PagesInv
    BY Zenon DEF IndInv
  <1>2. PICK A, B : A = User /\ B = UserOwned
    BY Zenon
  <1>3. /\ DOMAIN A = 1..3 /\ DOMAIN B = 1..2 /\ Partition(A, 1..total["user"])
        /\ A[3] = pool["user"]
    BY <1>1, <1>2, Owners DEF User, UserOwned, PagesInv
  <1>4. B[1] = A[1] /\ B[2] = A[2]
    <2>1. /\ UserOwned[1] = {procs[t].kpage : t \in DOMAIN procs} \ {Null}
          /\ UserOwned[2] = UNION {{spaces[d].map[u] : u \in DOMAIN spaces[d].map} :
                                    d \in DOMAIN spaces}
      BY Zenon DEF UserOwned
    <2>2. Held(Kp) = {procs[t].kpage : t \in DOMAIN procs} \ {Null}
      BY Zenon DEF Held, Kp
    <2>3. Listed(Map) = UNION {{spaces[d].map[u] : u \in DOMAIN spaces[d].map} :
                                d \in DOMAIN spaces}
      BY DEF Listed, Map
    <2> QED BY <1>2, <2>1, <2>2, <2>3, Owners, Zenon
  <1>5. /\ A[1] \cap A[2] = {} /\ A[1] \cap A[3] = {} /\ A[2] \cap A[3] = {}
    BY <1>3 DEF Partition
  <1>6. \A x : x \in 1..total["user"] <=> \E k \in 1..3 : x \in A[k]
    BY <1>3, Zenon DEF Partition
  <1>7. \A x : x \in 1..total["user"] \ pool["user"] <=> x \in B[1] \/ x \in B[2]
    <2>1. \A x : (\E k \in 1..3 : x \in A[k]) <=> x \in A[1] \/ x \in A[2] \/ x \in A[3]
      <3>1. \A k \in 1..3 : k \in {1, 2, 3}
        OBVIOUS
      <3> QED BY <3>1
    <2> QED BY <1>3, <1>4, <1>5, <1>6, <2>1, Zenon
  <1>8. \A x : x \in UNION {B[k] : k \in DOMAIN B} <=> x \in B[1] \/ x \in B[2]
    <2>1. \A k : k \in DOMAIN B <=> k = 1 \/ k = 2
      BY <1>3
    <2> QED BY <2>1, Zenon
  <1>9. UNION {B[k] : k \in DOMAIN B} = 1..total["user"] \ pool["user"]
    BY <1>7, <1>8, Zenon
  <1>10. \A i, j \in DOMAIN B : i # j => B[i] \cap B[j] = {}
    <2>1. \A k \in DOMAIN B : k = 1 \/ k = 2
      BY <1>3
    <2> QED BY <1>4, <1>5, <2>1, Zenon
  <1> QED BY <1>2, <1>9, <1>10 DEF Accounts

\* At boot every page is free.
LEMMA InitInv == Init => IndInv
  <1> SUFFICES ASSUME Init PROVE IndInv
    BY Zenon
  <1>1. DOMAIN procs = {} /\ DOMAIN spaces = {} /\ procs = <<>> /\ ready = <<>>
    BY DEF Init
  <1>2. PICK a \in Nat, b \in Nat : total = [kernel |-> a, user |-> b]
    BY ProcessAssumption, Zenon DEF Init
  <1>3. total["kernel"] = a /\ total["user"] = b /\ total \in [kernel : Nat, user : Nat]
    BY <1>2, Zenon
  <1>4. pool = [k \in {"kernel", "user"} |-> 1..total[k]]
    BY Zenon DEF Init
  <1>5. /\ pool["kernel"] = 1..total["kernel"] /\ pool["user"] = 1..total["user"]
        /\ pool \in [{"kernel", "user"} -> SUBSET Nat]
    BY <1>3, <1>4
  <1>6. /\ main \in MainRec /\ main.fn = Null /\ main.pc = "next" /\ main.tasks = 0
        /\ temporary = -1 /\ panicked = FALSE
    BY Zenon DEF Init, MainRec, Null
  <1>7. TypeInv
    <2>1. procs \in [DOMAIN procs -> ProcRec]
      BY <1>1
    <2>2. ready \in Seq(DOMAIN procs \cup {Main})
      BY <1>1
    <2>3. \A d \in DOMAIN spaces : spaces[d] = [pts |-> spaces[d].pts, map |-> spaces[d].map]
      BY <1>1, Zenon
    <2>4. temporary \in Int
      BY <1>6
    <2>5. panicked \in BOOLEAN
      BY <1>6, Zenon
    <2> QED BY <1>3, <1>5, <1>6, <2>1, <2>2, <2>3, <2>4, <2>5, Zenon DEF TypeInv
  <1>8. SchedInv
    BY <1>1, <1>6, EmptyRange, Zenon DEF Init, SchedInv
  <1>9. MainInv
    BY <1>1, <1>6 DEF MainInv, PanicsOnlyUnused
  <1>10. ActiveSpaceValid
    BY <1>1, Zenon DEF Init, ActiveSpaceValid
  <1>11. PagesInv
    <2>1. DOMAIN Fn = {} /\ DOMAIN Kp = {} /\ DOMAIN Pts = {} /\ DOMAIN Map = {}
      BY <1>1, Zenon DEF Fn, Kp, Pts, Map
    <2>2. OneHolder(Fn) /\ OneHolder(Kp) /\ OneEntry(Pts) /\ OneEntry(Map)
      BY <2>1, Zenon DEF OneHolder, OneEntry
    <2>3. Held(Fn) = {} /\ Held(Kp) = {} /\ Listed(Pts) = {} /\ Listed(Map) = {}
      BY <2>1, Zenon DEF Held, Listed
    <2>4. /\ Kernel[1] = {} /\ Kernel[2] = {} /\ Kernel[3] = {} /\ Kernel[4] = {}
          /\ Kernel[5] = {} /\ Kernel[6] = 1..total["kernel"]
          /\ User[1] = {} /\ User[2] = {} /\ User[3] = 1..total["user"]
      BY <1>1, <1>5, <1>6, <2>3, Owners, Zenon
    <2>5. PICK A, B : A = Kernel /\ B = User
      BY Zenon
    <2>6. DOMAIN A = 1..6 /\ DOMAIN B = 1..3
      BY <2>5 DEF Kernel, User
    <2>7. Partition(A, 1..total["kernel"])
      <3>1. \A k \in DOMAIN A : k \in {1, 2, 3, 4, 5, 6}
        BY <2>6
      <3>2. \A k \in DOMAIN A : k # 6 => A[k] = {}
        BY <2>4, <2>5, <3>1, Zenon
      <3>3. \A x : x \in UNION {A[k] : k \in DOMAIN A} <=> \E k \in DOMAIN A : x \in A[k]
        BY Zenon
      <3>4. 6 \in DOMAIN A /\ A[6] = 1..total["kernel"]
        BY <2>4, <2>5, <2>6
      <3>5. UNION {A[k] : k \in DOMAIN A} = 1..total["kernel"]
        BY <3>2, <3>3, <3>4, Zenon
      <3> QED BY <3>2, <3>5, Zenon DEF Partition
    <2>8. Partition(B, 1..total["user"])
      <3>1. \A k \in DOMAIN B : k \in {1, 2, 3}
        BY <2>6
      <3>2. \A k \in DOMAIN B : k # 3 => B[k] = {}
        BY <2>4, <2>5, <3>1, Zenon
      <3>3. \A x : x \in UNION {B[k] : k \in DOMAIN B} <=> \E k \in DOMAIN B : x \in B[k]
        BY Zenon
      <3>4. 3 \in DOMAIN B /\ B[3] = 1..total["user"]
        BY <2>4, <2>5, <2>6
      <3>5. UNION {B[k] : k \in DOMAIN B} = 1..total["user"]
        BY <3>2, <3>3, <3>4, Zenon
      <3> QED BY <3>2, <3>5, Zenon DEF Partition
    <2> QED BY <1>1, <2>2, <2>5, <2>7, <2>8, Zenon DEF PagesInv
  <1> QED BY <1>1, <1>7, <1>8, <1>9, <1>10, <1>11, Zenon DEF IndInv

\* palloc hands out a page that nobody owns.
LEMMA FreshKernel ==
  ASSUME TypeInv, PagesInv, HasPage("kernel")
  PROVE  LET p == Page("kernel")
         IN /\ p \in Nat /\ p # Null /\ p \in pool["kernel"]
            /\ p \notin DOMAIN procs /\ p \notin DOMAIN spaces /\ p # main.fn
            /\ p \notin Held(Fn) /\ p \notin Listed(Pts)
  <1>1. Page("kernel") \in pool["kernel"]
    BY Zenon DEF Page, HasPage
  <1>2. pool["kernel"] \subseteq Nat \ {0}
    BY PoolPages, Owners
  <1>3. /\ pool["kernel"] \cap DOMAIN procs = {} /\ pool["kernel"] \cap DOMAIN spaces = {}
        /\ pool["kernel"] \cap ({main.fn} \ {Null}) = {}
        /\ pool["kernel"] \cap Held(Fn) = {} /\ pool["kernel"] \cap Listed(Pts) = {}
    BY PoolPages, Owners
  <1> QED BY <1>1, <1>2, <1>3, Zenon DEF Null

\* The same for the user pool.
LEMMA FreshUser ==
  ASSUME TypeInv, PagesInv, HasPage("user")
  PROVE  LET p == Page("user")
         IN /\ p \in Nat /\ p # Null /\ p \in pool["user"]
            /\ p \notin Held(Kp) /\ p \notin Listed(Map)
  <1>1. Page("user") \in pool["user"]
    BY Zenon DEF Page, HasPage
  <1>2. /\ pool["user"] \subseteq Nat \ {0}
        /\ pool["user"] \cap Held(Kp) = {} /\ pool["user"] \cap Listed(Map) = {}
    BY PoolPages, Owners
  <1> QED BY <1>1, <1>2, Zenon DEF Null

\* A record with another label.
LEMMA WithPc ==
  ASSUME NEW m \in ProcRec, NEW l \in ProcLabel
  PROVE  LET r == [m EXCEPT !.pc = l]
         IN /\ r \in ProcRec /\ r.pc = l
            /\ r.pagedir = m.pagedir /\ r.pd = m.pd /\ r.fn = m.fn /\ r.kpage = m.kpage
            /\ r.seg = m.seg /\ r.pg = m.pg /\ r.exe = m.exe /\ r.ok = m.ok
  BY Zenon DEF ProcRec

\* A step of a process that leaves the scheduler alone.
LEMMA ProcStepInv ==
  ASSUME IndInv, current \in DOMAIN procs, NEW r \in ProcRec, LocalOK(r),
         procs' = [procs EXCEPT ![current] = r],
         UNCHANGED <<total, main, current, ready, io, esp0, temporary, panicked>>,
         pool' \in [{"kernel", "user"} -> SUBSET Nat],
         \A d \in DOMAIN spaces' :
           spaces'[d] = [pts |-> spaces'[d].pts, map |-> spaces'[d].map] /\ SpaceOK(spaces'[d]),
         cr3' # Null => cr3' \in DOMAIN spaces',
         r.pc \notin {"activate", "base"} => cr3' = r.pagedir,
         PagesInv'
  PROVE  IndInv'
  <1>1. /\ DOMAIN procs' = DOMAIN procs /\ procs'[current] = r
        /\ \A t \in DOMAIN procs \ {current} : procs'[t] = procs[t]
    BY Zenon
  <1>2. \A t \in DOMAIN procs : procs[t] \in ProcRec /\ LocalOK(procs[t])
    BY Zenon DEF IndInv, TypeInv
  <1>3. \A t \in DOMAIN procs' : procs'[t] \in ProcRec /\ LocalOK(procs'[t])
    BY <1>1, <1>2, Zenon
  <1>4. procs' \in [DOMAIN procs' -> ProcRec]
    BY <1>3, Zenon
  <1>5. TypeInv'
    BY <1>1, <1>4, Zenon DEF IndInv, TypeInv
  <1>6. SchedInv'
    BY <1>1, Zenon DEF IndInv, SchedInv
  <1>7. MainInv'
    BY <1>1, Zenon DEF IndInv, MainInv, PanicsOnlyUnused
  <1>8. ActiveSpaceValid'
    BY <1>1, Zenon DEF IndInv, ActiveSpaceValid, Me
  <1> QED BY <1>3, <1>5, <1>6, <1>7, <1>8, Zenon DEF IndInv

\* A step of a process that moves no page.
LEMMA PagesKept ==
  ASSUME IndInv, current \in DOMAIN procs, NEW r,
         procs' = [procs EXCEPT ![current] = r],
         UNCHANGED <<total, pool, spaces>>, main'.fn = main.fn,
         r.fn = Me.fn, r.kpage = Me.kpage, Dirs(r) = Dirs(Me)
  PROVE  PagesInv'
  <1>1. /\ DOMAIN procs' = DOMAIN procs
        /\ \A t \in DOMAIN procs : /\ procs'[t].fn = procs[t].fn
                                   /\ procs'[t].kpage = procs[t].kpage
                                   /\ Dirs(procs'[t]) = Dirs(procs[t])
    BY Zenon DEF Me
  <1>2. Fn' = Fn /\ Kp' = Kp /\ Pts' = Pts /\ Map' = Map
    BY <1>1, Zenon DEF Fn, Kp, Pts, Map
  <1>3. Kernel' = Kernel /\ User' = User
    BY <1>1, <1>2, Zenon DEF Kernel, User
  <1>4. \A t, u \in DOMAIN procs' : Dirs(procs'[t]) \cap Dirs(procs'[u]) # {} => t = u
    BY <1>1 DEF IndInv, PagesInv
  <1>5. DOMAIN spaces' = UNION {Dirs(procs'[t]) : t \in DOMAIN procs'}
    BY <1>1 DEF IndInv, PagesInv
  <1>6. OneHolder(Fn)' /\ OneHolder(Kp)' /\ OneEntry(Pts)' /\ OneEntry(Map)'
    <2>1. OneHolder(Fn) /\ OneHolder(Kp) /\ OneEntry(Pts) /\ OneEntry(Map)
      BY Zenon DEF IndInv, PagesInv
    <2> QED BY <1>2, <2>1 DEF OneHolder, OneEntry
  <1>7. Partition(Kernel, 1..total["kernel"])' /\ Partition(User, 1..total["user"])'
    <2>1. Partition(Kernel, 1..total["kernel"]) /\ Partition(User, 1..total["user"])
      BY Zenon DEF IndInv, PagesInv
    <2> QED BY <1>3, <2>1 DEF Partition
  <1> QED BY <1>4, <1>5, <1>6, <1>7, Zenon DEF PagesInv

-----------------------------------------------------------------------------
(***************************************************************************)
(* The steps of a process that move no page.                               *)
(***************************************************************************)
\* What holds of the running process.
LEMMA Running ==
  ASSUME IndInv, NEW l, InProc(l)
  PROVE  /\ current \in DOMAIN procs /\ Me \in ProcRec /\ LocalOK(Me) /\ Me.pc = l
         /\ Me.exe.segments \in Seq(Segment)
         /\ l \notin {"activate", "base"} => cr3 = Me.pagedir
         /\ cr3 # Null => cr3 \in DOMAIN spaces
         /\ current # Main /\ current # Idle
  <1>1. current \in DOMAIN procs /\ Me \in ProcRec /\ LocalOK(Me) /\ Me.pc = l
    BY Zenon DEF IndInv, TypeInv, InProc, Me
  <1>2. Me.exe \in Executable
    BY <1>1, Zenon DEF ProcRec
  <1>3. Me.exe.segments \in Seq(Segment)
    BY <1>2, ProcessAssumption, Zenon
  <1>4. current \in Nat
    BY <1>1, PoolPages, Owners DEF IndInv
  <1> QED BY <1>1, <1>3, <1>4, ProcessAssumption, Zenon DEF IndInv, ActiveSpaceValid

\* A step that changes the running process's record only.
LEMMA QuietStep ==
  ASSUME IndInv, NEW l, InProc(l), NEW r \in ProcRec, LocalOK(r),
         procs' = [procs EXCEPT ![current] = r],
         UNCHANGED <<total, pool, spaces, main, current, ready, io, esp0, temporary, panicked>>,
         cr3' # Null => cr3' \in DOMAIN spaces,
         r.pc \notin {"activate", "base"} => cr3' = r.pagedir,
         r.fn = Me.fn, r.kpage = Me.kpage, Dirs(r) = Dirs(Me)
  PROVE  IndInv'
  <1>1. current \in DOMAIN procs
    BY Running, Zenon
  <1>2. PagesInv'
    BY <1>1, PagesKept, Zenon
  <1>3. /\ pool' \in [{"kernel", "user"} -> SUBSET Nat]
        /\ \A d \in DOMAIN spaces' :
             spaces'[d] = [pts |-> spaces'[d].pts, map |-> spaces'[d].map] /\ SpaceOK(spaces'[d])
    BY Zenon DEF IndInv, TypeInv
  <1> QED BY <1>1, <1>2, <1>3, ProcStepInv, Zenon

\* A step that only moves the running process to another label.
LEMMA GotoStep ==
  ASSUME IndInv, NEW l, InProc(l), NEW k \in ProcLabel, Goto(k),
         UNCHANGED <<total, pool, spaces, main, current, ready, io, esp0, temporary, panicked>>,
         cr3' # Null => cr3' \in DOMAIN spaces,
         k \notin {"activate", "base"} => cr3' = Me.pagedir,
         LocalAt(Me, k)
  PROVE  IndInv'
  <1>1. PICK r : r = [Me EXCEPT !.pc = k]
    BY Zenon
  <1>2. /\ r \in ProcRec /\ r.pc = k /\ r.pagedir = Me.pagedir /\ r.pd = Me.pd
        /\ r.fn = Me.fn /\ r.kpage = Me.kpage
        /\ r.seg = Me.seg /\ r.pg = Me.pg /\ r.exe = Me.exe
    BY <1>1, Running, WithPc
  <1>3. procs' = [procs EXCEPT ![current] = r]
    BY <1>1, Zenon DEF Goto, Me
  <1>4. Dirs(r) = Dirs(Me)
    BY <1>2, Zenon DEF Dirs
  <1>5. LocalOK(r)
    BY <1>2, Zenon DEF LocalOK, LocalAt
  <1> QED BY <1>2, <1>3, <1>4, <1>5, QuietStep, Zenon

\* process_activate enters the address space that load has just made.
LEMMA LoadActivateInv ==
  ASSUME IndInv, load_activate
  PROVE  IndInv'
  <1>1. Me \in ProcRec /\ LocalOK(Me) /\ Me.pc = "activate" /\ current \in DOMAIN procs
    BY Running, Zenon DEF load_activate
  <1>2. LocalAt(Me, "open")
    BY <1>1, Zenon DEF LocalOK, LocalAt, Entered
  <1>3. Me.pagedir \in DOMAIN spaces
    <2>1. Me.pagedir \in Dirs(Me)
      BY <1>1, Zenon DEF Dirs, LocalOK, LocalAt, Entered
    <2> QED BY <1>1, <2>1, Zenon DEF Me, IndInv, PagesInv
  <1>4. esp0' = esp0
    BY Zenon DEF load_activate, tss_update, IndInv, ActiveSpaceValid
  <1>5. cr3' = Me.pagedir
    BY Zenon DEF load_activate, pagedir_activate
  <1>6. "open" \in ProcLabel
    BY Zenon DEF ProcLabel
  <1> QED BY <1>2, <1>3, <1>4, <1>5, <1>6, GotoStep, Zenon DEF load_activate

\* Opening the file and reading its header moves no page.
LEMMA LoadOpenInv ==
  ASSUME IndInv, load_open
  PROVE  IndInv'
  <1>1. Me \in ProcRec /\ LocalOK(Me) /\ Me.pc = "open" /\ cr3 = Me.pagedir
    BY Running DEF load_open
  <1>2. PICK k \in {"segment", "close"} : k = IF Me.exe.header THEN "segment" ELSE "close"
    BY Zenon
  <1>3. PICK r : r = [Me EXCEPT !.file = Me.exe.exists, !.pc = k]
    BY Zenon
  <1>4. Me.exe.exists \in BOOLEAN
    BY <1>1, ProcessAssumption, Zenon DEF ProcRec
  <1>5. /\ r \in ProcRec /\ r.pc = k /\ r.pagedir = Me.pagedir /\ r.pd = Me.pd
        /\ r.fn = Me.fn /\ r.kpage = Me.kpage /\ r.pg = Me.pg
    BY <1>1, <1>3, <1>4, Zenon DEF ProcRec, ProcLabel
  <1>6. procs' = [procs EXCEPT ![current] = r]
    BY <1>2, <1>3, Zenon DEF load_open, Me
  <1>7. LocalOK(r)
    BY <1>1, <1>5, Zenon DEF LocalOK, LocalAt, Entered
  <1>8. Dirs(r) = Dirs(Me)
    BY <1>5, Zenon DEF Dirs
  <1>9. InProc("open") /\ (cr3 # Null => cr3 \in DOMAIN spaces)
    BY Running, Zenon DEF load_open
  <1> QED BY <1>1, <1>5, <1>6, <1>7, <1>8, <1>9, QuietStep, Zenon DEF load_open, cpu

\* The loop over the program headers stops at a segment that has pages.
LEMMA LoadHeaderInv ==
  ASSUME IndInv, load_header
  PROVE  IndInv'
  <1>1. /\ Me \in ProcRec /\ LocalOK(Me) /\ Me.pc = "segment" /\ cr3 = Me.pagedir
        /\ cr3 # Null => cr3 \in DOMAIN spaces
        /\ InProc("segment") /\ Me.exe.segments \in Seq(Segment)
    BY Running DEF load_header
  <1>2. UNCHANGED <<total, pool, spaces, main, current, ready, io, cr3, esp0, temporary, panicked>>
    BY Zenon DEF load_header, cpu
  <1>3. ASSUME NEW k \in {"page", "close"}, Goto(k), LocalAt(Me, k)
        PROVE  IndInv'
    BY <1>1, <1>2, <1>3, GotoStep, Zenon DEF ProcLabel
  <1>4. CASE Goto("close")
    <2>1. LocalAt(Me, "close")
      BY <1>1, Zenon DEF LocalOK, LocalAt, Entered
    <2> QED BY <1>3, <1>4, <2>1, Zenon
  <1>5. CASE Goto("page") /\ (AtStack \/ Segments[Me.seg].type = "load")
    <2>3. Me.seg \in Nat \ {0} /\ Me.pg = 1 /\ Len(Me.exe.segments) \in Nat
      BY <1>1 DEF ProcRec, LocalOK, LocalAt
    <2>4. ASSUME Me.seg <= Len(Me.exe.segments)
          PROVE  /\ Me.exe.segments[Me.seg].type = "load"
                 /\ 1 <= Len(Me.exe.segments[Me.seg].pages)
      <3>1. Segments[Me.seg].type = "load" /\ Me.seg \in 1..Len(Me.exe.segments)
        BY <1>5, <2>3, <2>4 DEF AtStack, Segments
      <3>2. Me.exe.segments[Me.seg] \in Segment
        BY <1>1, <3>1
      <3>3. Me.exe.segments[Me.seg].pages \in Seq(Nat) \ {<<>>}
        BY <3>1, <3>2, Zenon DEF Segment, Segments
      <3>4. \A q \in Seq(Nat) \ {<<>>} : 1 <= Len(q)
        OBVIOUS
      <3> QED BY <3>1, <3>3, <3>4, Zenon DEF Segments
    <2>5. LocalAt(Me, "page")
      BY <1>1, <2>3, <2>4, Zenon DEF LocalOK, LocalAt, Entered
    <2> QED BY <1>3, <1>5, <2>5, Zenon
  <1>6. CASE procs' = [procs EXCEPT ![current].seg = @ + 1]
    <2>1. PICK r : r = [Me EXCEPT !.seg = @ + 1]
      BY Zenon
    <2>2. /\ r \in ProcRec /\ r.pc = Me.pc /\ r.pagedir = Me.pagedir /\ r.pd = Me.pd
          /\ r.fn = Me.fn /\ r.kpage = Me.kpage /\ r.pg = Me.pg
      BY <1>1, <2>1 DEF ProcRec
    <2>3. procs' = [procs EXCEPT ![current] = r]
      BY <1>6, <2>1, Zenon DEF Me
    <2>4. LocalOK(r)
      BY <1>1, <2>2, Zenon DEF LocalOK, LocalAt, Entered
    <2>5. Dirs(r) = Dirs(Me)
      BY <2>2, Zenon DEF Dirs
    <2> QED BY <1>1, <1>2, <2>2, <2>3, <2>4, <2>5, QuietStep, Zenon
  <1>7. CASE ~AtStack
    <2>1. Me.seg \in 1..Len(Me.exe.segments)
      BY <1>1, <1>7 DEF ProcRec, AtStack, Segments
    <2>2. Segments[Me.seg] \in Segment
      BY <1>1, <2>1 DEF Segments
    <2>3. Segments[Me.seg].type \in {"load", "ignore", "reject"}
      BY <2>2, Zenon DEF Segment
    <2> QED BY <1>4, <1>5, <1>6, <1>7, <2>3, Zenon DEF load_header
  <1> QED BY <1>5, <1>7, Zenon DEF load_header

\* Closing the file moves no page.
LEMMA LoadDoneInv ==
  ASSUME IndInv, load_done
  PROVE  IndInv'
  <1>1. /\ Me \in ProcRec /\ LocalOK(Me) /\ Me.pc = "close" /\ cr3 = Me.pagedir
        /\ cr3 # Null => cr3 \in DOMAIN spaces
        /\ InProc("close")
    BY Running DEF load_done
  <1>2. PICK r : r = [Me EXCEPT !.file = FALSE, !.pc = "free_copy"]
    BY Zenon
  <1>3. /\ r \in ProcRec /\ r.pc = "free_copy" /\ r.pagedir = Me.pagedir /\ r.pd = Me.pd
        /\ r.fn = Me.fn /\ r.kpage = Me.kpage
    BY <1>1, <1>2, Zenon DEF ProcRec, ProcLabel
  <1>4. procs' = [procs EXCEPT ![current] = r]
    BY <1>2, Zenon DEF load_done, Me
  <1>5. LocalOK(r) /\ Dirs(r) = Dirs(Me)
    BY <1>1, <1>3, Zenon DEF LocalOK, LocalAt, Entered, Dirs
  <1> QED BY <1>1, <1>3, <1>4, <1>5, QuietStep, Zenon DEF load_done, cpu

\* A system call or a fault only sends the process to its end.
LEMMA EndInv ==
  ASSUME IndInv, syscall_handler \/ page_fault \/ kill
  PROVE  IndInv'
  <1>1. PICK l \in {"user", "kill"}, k \in {"kill", "exit"} : InProc(l) /\ Goto(k)
    BY Zenon DEF syscall_handler, page_fault, kill
  <1>2. /\ Me \in ProcRec /\ LocalOK(Me) /\ Me.pc = l /\ cr3 = Me.pagedir
        /\ cr3 # Null => cr3 \in DOMAIN spaces
    BY <1>1, Running, Zenon
  <1>3. LocalAt(Me, k) /\ k \in ProcLabel
    BY <1>1, <1>2, Zenon DEF LocalOK, LocalAt, Entered, ProcLabel
  <1>4. UNCHANGED <<total, pool, spaces, main, current, ready, io, cr3, esp0, temporary, panicked>>
    BY Zenon DEF syscall_handler, page_fault, kill, cpu
  <1> QED BY <1>1, <1>2, <1>3, <1>4, GotoStep, Zenon

\* process_exit forgets the page directory, but remembers to destroy it.
LEMMA ProcessExitInv ==
  ASSUME IndInv, process_exit
  PROVE  IndInv'
  <1>1. /\ Me \in ProcRec /\ LocalOK(Me) /\ Me.pc = "exit" /\ cr3 = Me.pagedir
        /\ cr3 # Null => cr3 \in DOMAIN spaces
        /\ InProc("exit")
    BY Running DEF process_exit
  <1>2. PICK k \in {"up", "base"} : k = IF Me.pagedir = Null THEN "up" ELSE "base"
    BY Zenon
  <1>3. PICK r : r = [Me EXCEPT !.pd = Me.pagedir, !.pagedir = Null, !.pc = k]
    BY Zenon
  <1>4. /\ r \in ProcRec /\ r.pc = k /\ r.pagedir = Null /\ r.pd = Me.pagedir
        /\ r.fn = Me.fn /\ r.kpage = Me.kpage
    BY <1>1, <1>3, Zenon DEF ProcRec, ProcLabel, Null
  <1>5. procs' = [procs EXCEPT ![current] = r]
    BY <1>2, <1>3, Zenon DEF process_exit, Me
  <1>6. LocalOK(r) /\ Dirs(r) = Dirs(Me)
    BY <1>1, <1>2, <1>4, Zenon DEF LocalOK, LocalAt, Entered, Dirs
  <1>7. k # "base" => cr3 = Null
    BY <1>1, <1>2, Zenon
  <1> QED BY <1>1, <1>4, <1>5, <1>6, <1>7, QuietStep, Zenon DEF process_exit, cpu

\* process_exit leaves the address space that it will destroy.
LEMMA ExitActivateInv ==
  ASSUME IndInv, exit_activate
  PROVE  IndInv'
  <1>1. Me \in ProcRec /\ LocalOK(Me) /\ Me.pc = "base" /\ InProc("base")
    BY Running, Zenon DEF exit_activate
  <1>2. LocalAt(Me, "destroy") /\ "destroy" \in ProcLabel /\ Me.pagedir = Null
    BY <1>1, Zenon DEF LocalOK, LocalAt, Entered, ProcLabel
  <1>3. cr3' = Null
    BY Zenon DEF exit_activate, pagedir_activate
  <1> QED BY <1>1, <1>2, <1>3, GotoStep, Zenon DEF exit_activate

-----------------------------------------------------------------------------
(***************************************************************************)
(* The steps of a process that take or free a page.                        *)
(***************************************************************************)
\* The fields of the running process after a step.
LEMMA Fields ==
  ASSUME NEW c \in DOMAIN procs, NEW r, procs' = [procs EXCEPT ![c] = r]
  PROVE  /\ DOMAIN procs' = DOMAIN procs /\ procs'[c] = r
         /\ \A t \in DOMAIN procs \ {c} : procs'[t] = procs[t]
         /\ DOMAIN Fn = DOMAIN procs /\ DOMAIN Fn' = DOMAIN procs
         /\ DOMAIN Kp = DOMAIN procs /\ DOMAIN Kp' = DOMAIN procs
         /\ Fn[c] = procs[c].fn /\ Kp[c] = procs[c].kpage /\ Fn'[c] = r.fn /\ Kp'[c] = r.kpage
         /\ \A t \in DOMAIN procs \ {c} : Fn'[t] = Fn[t] /\ Kp'[t] = Kp[t]
  BY Zenon DEF Fn, Kp

\* The page directories of the processes after a step that keeps them.
LEMMA DirsSame ==
  ASSUME PagesInv, NEW c \in DOMAIN procs, NEW r, procs' = [procs EXCEPT ![c] = r],
         Dirs(r) = Dirs(procs[c])
  PROVE  /\ \A t, u \in DOMAIN procs' : Dirs(procs'[t]) \cap Dirs(procs'[u]) # {} => t = u
         /\ DOMAIN spaces = UNION {Dirs(procs'[t]) : t \in DOMAIN procs'}
  <1>1. DOMAIN procs' = DOMAIN procs /\ \A t \in DOMAIN procs : Dirs(procs'[t]) = Dirs(procs[t])
    BY Zenon
  <1> QED BY <1>1 DEF PagesInv

\* load_segment and setup_stack take a user page into their hand.
LEMMA GotPage ==
  ASSUME IndInv, NEW c \in DOMAIN procs, NEW r, procs' = [procs EXCEPT ![c] = r],
         UNCHANGED <<total, main, spaces>>, HasPage("user"), Take("user"),
         procs[c].kpage = Null, r.kpage = Page("user"), r.fn = procs[c].fn,
         Dirs(r) = Dirs(procs[c])
  PROVE  PagesInv' /\ pool' \in [{"kernel", "user"} -> SUBSET Nat]
  <1>1. TypeInv /\ PagesInv
    BY Zenon DEF IndInv
  <1>2. PICK p : p = Page("user")
    BY Zenon
  <1>3. p \in Nat /\ p # Null /\ p \in pool["user"] /\ p \notin Held(Kp) /\ p \notin Listed(Map)
    BY <1>1, <1>2, FreshUser, Zenon
  <1>4. /\ pool' \in [{"kernel", "user"} -> SUBSET Nat]
        /\ pool'["kernel"] = pool["kernel"] /\ pool'["user"] = pool["user"] \ {p}
    BY <1>1, <1>2, Zenon DEF Take, Page, TypeInv
  <1>5. Held(Kp') = Held(Kp) \cup {p} /\ OneHolder(Kp')
    <2>1. /\ OneHolder(Kp) /\ DOMAIN Kp' = DOMAIN Kp \cup {c}
          /\ Kp[c] = Null /\ Kp'[c] = p /\ \A u \in DOMAIN Kp \ {c} : Kp'[u] = Kp[u]
      <3>1. OneHolder(Kp)
        BY <1>1, Zenon DEF PagesInv
      <3>2. r.kpage = p
        BY <1>2, Zenon
      <3> QED BY <3>1, <3>2, Fields, Zenon
    <2>2. PICK f, g : f = Kp /\ g = Kp'
      BY Zenon
    <2>3. Held(g) = Held(f) \cup {p} /\ OneHolder(g)
      BY <1>3, <2>1, <2>2, HoldAdd
    <2> QED BY <2>2, <2>3, Zenon
  <1>6. Fn' = Fn /\ Pts' = Pts /\ Map' = Map
    BY Zenon DEF Fn, Pts, Map
  <1>7. Kernel' = Kernel
    BY <1>4, <1>6, Fields, Zenon DEF Kernel
  <1>8. Partition(User', 1..total'["user"])
    <2>1. Partition(User, 1..total["user"]) /\ total' = total
      BY <1>1, Zenon DEF PagesInv
    <2>2. /\ p \in User[3] /\ User'[3] = User[3] \ {p} /\ User'[1] = User[1] \cup {p}
          /\ \A k \in (1..3) \ {3, 1} : User'[k] = User[k]
      BY <1>3, <1>4, <1>5, <1>6, Owners, OwnersNext
    <2> QED BY <2>1, <2>2, UserMove
  <1>9. Partition(Kernel', 1..total'["kernel"])
    BY <1>1, <1>7, Zenon DEF PagesInv
  <1> QED BY <1>1, <1>4, <1>5, <1>6, <1>8, <1>9, DirsSame, Zenon DEF PagesInv

\* load_segment gives back the page in its hand.
LEMMA DroppedPage ==
  ASSUME IndInv, NEW c \in DOMAIN procs, NEW r, procs' = [procs EXCEPT ![c] = r],
         UNCHANGED <<total, main, spaces>>, Free("user", procs[c].kpage),
         procs[c].kpage # Null, r.kpage = Null, r.fn = procs[c].fn,
         Dirs(r) = Dirs(procs[c])
  PROVE  PagesInv' /\ pool' \in [{"kernel", "user"} -> SUBSET Nat]
  <1>1. TypeInv /\ PagesInv
    BY Zenon DEF IndInv
  <1>2. PICK p : p = procs[c].kpage
    BY Zenon
  <1>3. Held(Kp') = Held(Kp) \ {p} /\ OneHolder(Kp') /\ p \in Held(Kp)
    <2>1. /\ OneHolder(Kp) /\ DOMAIN Kp' = DOMAIN Kp /\ c \in DOMAIN Kp
          /\ Kp[c] = p /\ Kp'[c] = Null /\ \A u \in DOMAIN Kp \ {c} : Kp'[u] = Kp[u]
      <3>1. OneHolder(Kp)
        BY <1>1, Zenon DEF PagesInv
      <3> QED BY <1>2, <3>1, Fields, Zenon
    <2>2. PICK f, g : f = Kp /\ g = Kp'
      BY Zenon
    <2>3. Held(g) = Held(f) \ {p} /\ OneHolder(g) /\ p \in Held(f)
      BY <1>2, <2>1, <2>2, HoldDrop
    <2> QED BY <2>2, <2>3, Zenon
  <1>4. /\ pool' \in [{"kernel", "user"} -> SUBSET Nat]
        /\ pool'["kernel"] = pool["kernel"] /\ pool'["user"] = pool["user"] \cup {p}
    <2>1. p \in Nat
      BY <1>1, <1>3, PoolPages, Owners
    <2> QED BY <1>1, <1>2, <2>1, Zenon DEF Free, TypeInv
  <1>6. Fn' = Fn /\ Pts' = Pts /\ Map' = Map
    BY Zenon DEF Fn, Pts, Map
  <1>7. Kernel' = Kernel
    BY <1>4, <1>6, Fields, Zenon DEF Kernel
  <1>8. Partition(User', 1..total'["user"])
    <2>1. Partition(User, 1..total["user"]) /\ total' = total
      BY <1>1, Zenon DEF PagesInv
    <2>2. /\ p \in User[1] /\ User'[1] = User[1] \ {p} /\ User'[3] = User[3] \cup {p}
          /\ \A k \in (1..3) \ {1, 3} : User'[k] = User[k]
      BY <1>3, <1>4, <1>6, Owners, OwnersNext
    <2> QED BY <2>1, <2>2, UserMove
  <1>9. Partition(Kernel', 1..total'["kernel"])
    BY <1>1, <1>7, Zenon DEF PagesInv
  <1> QED BY <1>1, <1>3, <1>4, <1>6, <1>8, <1>9, DirsSame, Zenon DEF PagesInv

\* start_process gives back the copy of the file name.
LEMMA FreedCopy ==
  ASSUME IndInv, NEW c \in DOMAIN procs, NEW r, procs' = [procs EXCEPT ![c] = r],
         UNCHANGED <<total, main, spaces>>, Free("kernel", procs[c].fn),
         procs[c].fn # Null, r.fn = Null, r.kpage = procs[c].kpage,
         Dirs(r) = Dirs(procs[c])
  PROVE  PagesInv' /\ pool' \in [{"kernel", "user"} -> SUBSET Nat]
  <1>1. TypeInv /\ PagesInv
    BY Zenon DEF IndInv
  <1>2. PICK p : p = procs[c].fn
    BY Zenon
  <1>3. Held(Fn') = Held(Fn) \ {p} /\ OneHolder(Fn') /\ p \in Held(Fn)
    <2>1. /\ OneHolder(Fn) /\ DOMAIN Fn' = DOMAIN Fn /\ c \in DOMAIN Fn
          /\ Fn[c] = p /\ Fn'[c] = Null /\ \A u \in DOMAIN Fn \ {c} : Fn'[u] = Fn[u]
      <3>1. OneHolder(Fn)
        BY <1>1, Zenon DEF PagesInv
      <3> QED BY <1>2, <3>1, Fields, Zenon
    <2>2. PICK f, g : f = Fn /\ g = Fn'
      BY Zenon
    <2>3. Held(g) = Held(f) \ {p} /\ OneHolder(g) /\ p \in Held(f)
      BY <1>2, <2>1, <2>2, HoldDrop
    <2> QED BY <2>2, <2>3, Zenon
  <1>4. /\ pool' \in [{"kernel", "user"} -> SUBSET Nat]
        /\ pool'["user"] = pool["user"] /\ pool'["kernel"] = pool["kernel"] \cup {p}
    <2>1. p \in Nat
      BY <1>1, <1>3, PoolPages, Owners
    <2> QED BY <1>1, <1>2, <2>1, Zenon DEF Free, TypeInv
  <1>6. Kp' = Kp /\ Pts' = Pts /\ Map' = Map
    BY Zenon DEF Kp, Pts, Map
  <1>7. User' = User
    BY <1>4, <1>6, Zenon DEF User
  <1>8. Partition(Kernel', 1..total'["kernel"])
    <2>1. Partition(Kernel, 1..total["kernel"]) /\ total' = total
      BY <1>1, Zenon DEF PagesInv
    <2>2. /\ p \in Kernel[4] /\ Kernel'[4] = Kernel[4] \ {p} /\ Kernel'[6] = Kernel[6] \cup {p}
          /\ \A k \in (1..6) \ {4, 6} : Kernel'[k] = Kernel[k]
      <3>1. DOMAIN procs' = DOMAIN procs /\ DOMAIN spaces' = DOMAIN spaces /\ main' = main
        BY Fields, Zenon
      <3>2. Kernel'[1] = Kernel[1] /\ Kernel'[2] = Kernel[2] /\ Kernel'[3] = Kernel[3]
        BY <3>1, Owners, OwnersNext, Zenon
      <3>3. Kernel'[5] = Kernel[5]
        BY <1>6, Owners, OwnersNext, Zenon
      <3>4. \A k \in (1..6) \ {4, 6} : k \in {1, 2, 3, 5}
        OBVIOUS
      <3>5. p \in Kernel[4] /\ Kernel'[4] = Kernel[4] \ {p} /\ Kernel'[6] = Kernel[6] \cup {p}
        BY <1>3, <1>4, Owners, OwnersNext, Zenon
      <3> QED BY <3>2, <3>3, <3>4, <3>5, Zenon
    <2> QED BY <2>1, <2>2, KernelMove
  <1>9. Partition(User', 1..total'["user"])
    BY <1>1, <1>7, Zenon DEF PagesInv
  <1> QED BY <1>1, <1>3, <1>4, <1>6, <1>8, <1>9, DirsSame, Zenon DEF PagesInv

\* With a user page load goes on, without one it gives up.
LEMMA LoadGetPageInv ==
  ASSUME IndInv, load_get_page
  PROVE  IndInv'
  <1>1. /\ Me \in ProcRec /\ LocalOK(Me) /\ Me.pc = "page" /\ cr3 = Me.pagedir
        /\ cr3 # Null => cr3 \in DOMAIN spaces
        /\ InProc("page") /\ current \in DOMAIN procs
    BY Running DEF load_get_page
  <1>2. UNCHANGED <<total, spaces, main, current, ready, io, cr3, esp0, temporary, panicked>>
    BY Zenon DEF load_get_page, cpu
  <1>3. CASE ~HasPage("user")
    <2>1. Goto("close") /\ pool' = pool
      BY <1>3, Zenon DEF load_get_page
    <2>2. LocalAt(Me, "close") /\ "close" \in ProcLabel
      BY <1>1, Zenon DEF LocalOK, LocalAt, Entered, ProcLabel
    <2> QED BY <1>1, <1>2, <2>1, <2>2, GotoStep, Zenon
  <1>4. CASE HasPage("user")
    <2>1. Take("user") /\ procs' = [procs EXCEPT ![current].kpage = Page("user"),
                                                 ![current].pc = "read"]
      BY <1>4, Zenon DEF load_get_page
    <2>2. PICK p : p = Page("user")
      BY Zenon
    <2>3. p \in Nat /\ p # Null
      BY <1>4, <2>2, FreshUser, Zenon DEF IndInv
    <2>4. PICK r : r = [Me EXCEPT !.kpage = p, !.pc = "read"]
      BY Zenon
    <2>5. /\ r \in ProcRec /\ r.pc = "read" /\ r.pagedir = Me.pagedir /\ r.pd = Me.pd
          /\ r.fn = Me.fn /\ r.kpage = p /\ r.seg = Me.seg /\ r.pg = Me.pg /\ r.exe = Me.exe
      BY <1>1, <2>3, <2>4, Zenon DEF ProcRec, ProcLabel
    <2>6. procs' = [procs EXCEPT ![current] = r]
      BY <2>1, <2>2, <2>4, Zenon DEF Me
    <2>7. LocalOK(r) /\ Dirs(r) = Dirs(Me) /\ Me.kpage = Null
      BY <1>1, <2>3, <2>5, Zenon DEF LocalOK, LocalAt, Entered, Dirs
    <2>8. PagesInv' /\ pool' \in [{"kernel", "user"} -> SUBSET Nat]
      <3>1. /\ procs[current].kpage = Null /\ r.kpage = Page("user")
            /\ r.fn = procs[current].fn /\ Dirs(r) = Dirs(procs[current])
        BY <2>2, <2>5, <2>7, Zenon DEF Me
      <3> QED BY <1>1, <1>2, <1>4, <2>1, <2>6, <3>1, GotPage, Zenon
    <2>9. \A d \in DOMAIN spaces' :
            spaces'[d] = [pts |-> spaces'[d].pts, map |-> spaces'[d].map] /\ SpaceOK(spaces'[d])
      BY <1>2, Zenon DEF IndInv, TypeInv
    <2> QED BY <1>1, <1>2, <2>5, <2>6, <2>7, <2>8, <2>9, ProcStepInv, Zenon
  <1> QED BY <1>3, <1>4, Zenon

\* load gives up the page in its hand, when read or when install_page failed.
LEMMA DropInv ==
  ASSUME IndInv, NEW l \in {"read", "install"}, InProc(l), Drop,
         UNCHANGED <<total, spaces, main, current, ready, io, cr3, esp0, temporary, panicked>>
  PROVE  IndInv'
  <1>1. /\ Me \in ProcRec /\ LocalOK(Me) /\ Me.pc = l /\ cr3 = Me.pagedir
        /\ cr3 # Null => cr3 \in DOMAIN spaces
        /\ current \in DOMAIN procs
    BY Running, Zenon
  <1>2. PICK r : r = [Me EXCEPT !.kpage = Null, !.pc = "close"]
    BY Zenon
  <1>3. /\ r \in ProcRec /\ r.pc = "close" /\ r.pagedir = Me.pagedir /\ r.pd = Me.pd
        /\ r.fn = Me.fn /\ r.kpage = Null
    BY <1>1, <1>2, Zenon DEF ProcRec, ProcLabel, Null
  <1>4. procs' = [procs EXCEPT ![current] = r]
    BY <1>2, Zenon DEF Me, Drop
  <1>5. LocalOK(r) /\ Dirs(r) = Dirs(Me) /\ Me.kpage # Null
    BY <1>1, <1>3, Zenon DEF LocalOK, LocalAt, Entered, Dirs
  <1>6. PagesInv' /\ pool' \in [{"kernel", "user"} -> SUBSET Nat]
    BY <1>1, <1>3, <1>4, <1>5, DroppedPage, Zenon DEF Me, Drop
  <1>7. \A d \in DOMAIN spaces' :
          spaces'[d] = [pts |-> spaces'[d].pts, map |-> spaces'[d].map] /\ SpaceOK(spaces'[d])
    BY Zenon DEF IndInv, TypeInv
  <1> QED BY <1>1, <1>3, <1>4, <1>5, <1>6, <1>7, ProcStepInv, Zenon

\* A short read makes load give up the page in its hand.
LEMMA LoadReadInv ==
  ASSUME IndInv, load_read
  PROVE  IndInv'
  <1>1. /\ Me \in ProcRec /\ LocalOK(Me) /\ Me.pc = "read" /\ cr3 = Me.pagedir
        /\ cr3 # Null => cr3 \in DOMAIN spaces
        /\ InProc("read")
    BY Running DEF load_read
  <1>2. UNCHANGED <<total, spaces, main, current, ready, io, cr3, esp0, temporary, panicked>>
    BY Zenon DEF load_read, cpu
  <1>3. CASE Goto("install") /\ pool' = pool
    <2>1. LocalAt(Me, "install") /\ "install" \in ProcLabel
      BY <1>1, Zenon DEF LocalOK, LocalAt, Entered, ProcLabel
    <2> QED BY <1>1, <1>2, <1>3, <2>1, GotoStep, Zenon
  <1>4. CASE Drop
    BY <1>1, <1>2, <1>4, DropInv, Zenon
  <1> QED BY <1>3, <1>4, Zenon DEF load_read

\* start_process frees the copy of the file name, loaded or not.
LEMMA StartProcessInv ==
  ASSUME IndInv, start_process
  PROVE  IndInv'
  <1>1. /\ Me \in ProcRec /\ LocalOK(Me) /\ Me.pc = "free_copy" /\ cr3 = Me.pagedir
        /\ cr3 # Null => cr3 \in DOMAIN spaces
        /\ current \in DOMAIN procs
    BY Running DEF start_process
  <1>2. PICK k \in {"user", "exit"} : k = IF Me.ok THEN "user" ELSE "exit"
    BY Zenon
  <1>3. PICK r : r = [Me EXCEPT !.fn = Null, !.pc = k]
    BY Zenon
  <1>4. /\ r \in ProcRec /\ r.pc = k /\ r.pagedir = Me.pagedir /\ r.pd = Me.pd
        /\ r.fn = Null /\ r.kpage = Me.kpage
    BY <1>1, <1>3, Zenon DEF ProcRec, ProcLabel, Null
  <1>5. procs' = [procs EXCEPT ![current] = r]
    BY <1>2, <1>3, Zenon DEF Me, start_process
  <1>6. LocalOK(r) /\ Dirs(r) = Dirs(Me) /\ Me.fn # Null
    BY <1>1, <1>4, Zenon DEF LocalOK, LocalAt, Entered, Dirs
  <1>7. UNCHANGED <<total, spaces, main, current, ready, io, cr3, esp0, temporary, panicked>>
    BY Zenon DEF start_process, cpu
  <1>8. PagesInv' /\ pool' \in [{"kernel", "user"} -> SUBSET Nat]
    BY <1>1, <1>4, <1>5, <1>6, <1>7, FreedCopy, Zenon DEF Me, start_process
  <1>9. \A d \in DOMAIN spaces' :
          spaces'[d] = [pts |-> spaces'[d].pts, map |-> spaces'[d].map] /\ SpaceOK(spaces'[d])
    BY <1>7, Zenon DEF IndInv, TypeInv
  <1> QED BY <1>1, <1>4, <1>5, <1>6, <1>7, <1>8, <1>9, ProcStepInv, ZenonT(30)

\* A new page directory has no page tables.
LEMMA MadeDir ==
  ASSUME IndInv, NEW c \in DOMAIN procs, NEW r, procs' = [procs EXCEPT ![c] = r],
         UNCHANGED <<total, main>>, HasPage("kernel"), Take("kernel"),
         pagedir_create(Page("kernel")), Dirs(procs[c]) = {}, Dirs(r) = {Page("kernel")},
         r.fn = procs[c].fn, r.kpage = procs[c].kpage
  PROVE  /\ PagesInv' /\ pool' \in [{"kernel", "user"} -> SUBSET Nat]
         /\ \A d \in DOMAIN spaces' :
              spaces'[d] = [pts |-> spaces'[d].pts, map |-> spaces'[d].map] /\ SpaceOK(spaces'[d])
         /\ DOMAIN spaces' = DOMAIN spaces \cup {Page("kernel")}
  <1>1. TypeInv /\ PagesInv
    BY Zenon DEF IndInv
  <1>2. PICK p : p = Page("kernel")
    BY Zenon
  <1>3. p \in Nat /\ p # Null /\ p \in pool["kernel"] /\ p \notin DOMAIN spaces
    BY <1>1, <1>2, FreshKernel, Zenon
  <1>4. /\ pool' \in [{"kernel", "user"} -> SUBSET Nat]
        /\ pool'["user"] = pool["user"] /\ pool'["kernel"] = pool["kernel"] \ {p}
    BY <1>1, <1>2, Zenon DEF Take, Page, TypeInv
  <1>5. /\ DOMAIN spaces' = DOMAIN spaces \cup {p}
        /\ spaces'[p] = [pts |-> <<>>, map |-> <<>>]
        /\ \A d \in DOMAIN spaces : spaces'[d] = spaces[d]
    BY <1>2, <1>3, Zenon DEF pagedir_create
  <1>6. spaces'[p].pts = <<>> /\ spaces'[p].map = <<>>
    BY <1>5
  <1>7. \A d \in DOMAIN spaces' :
          spaces'[d] = [pts |-> spaces'[d].pts, map |-> spaces'[d].map] /\ SpaceOK(spaces'[d])
    <2>1. DOMAIN <<>> = {}
      OBVIOUS
    <2>2. SpaceOK(spaces'[p])
      BY <1>6, <2>1, Zenon DEF SpaceOK
    <2> QED BY <1>1, <1>5, <1>6, <2>2, Zenon DEF TypeInv, IndInv
  <1>8. Fn' = Fn /\ Kp' = Kp
    BY Zenon DEF Fn, Kp
  <1>9. Listed(Pts') = Listed(Pts) /\ OneEntry(Pts') /\ Listed(Map') = Listed(Map) /\ OneEntry(Map')
    <2>1. OneEntry(Pts) /\ OneEntry(Map) /\ DOMAIN <<>> = {}
      BY <1>1 DEF PagesInv
    <2>2. /\ DOMAIN Pts = DOMAIN spaces /\ DOMAIN Pts' = DOMAIN spaces \cup {p}
          /\ DOMAIN Map = DOMAIN spaces /\ DOMAIN Map' = DOMAIN spaces \cup {p}
          /\ Pts'[p] = <<>> /\ Map'[p] = <<>>
          /\ \A d \in DOMAIN spaces : Pts'[d] = Pts[d] /\ Map'[d] = Map[d]
      BY <1>5, <1>6, Zenon DEF Pts, Map
    <2>3. PICK f, g, h, k : f = Pts /\ g = Pts' /\ h = Map /\ k = Map'
      BY Zenon
    <2>4. Listed(g) = Listed(f) /\ OneEntry(g)
      BY <1>3, <2>1, <2>2, <2>3, ListSame, Zenon
    <2>5. Listed(k) = Listed(h) /\ OneEntry(k)
      BY <1>3, <2>1, <2>2, <2>3, ListSame, ZenonT(30)
    <2> QED BY <2>3, <2>4, <2>5, Zenon
  <1>10. Partition(Kernel', 1..total'["kernel"])
    <2>1. Partition(Kernel, 1..total["kernel"]) /\ total' = total
      BY <1>1, Zenon DEF PagesInv
    <2>2. Kernel'[1] = Kernel[1] /\ Kernel'[3] = Kernel[3] /\ Kernel'[4] = Kernel[4]
      BY <1>8, Fields, Owners, OwnersNext, Zenon
    <2>3. Kernel'[5] = Kernel[5]
      BY <1>9, Owners, OwnersNext, Zenon
    <2>4. \A k \in (1..6) \ {6, 2} : k \in {1, 3, 4, 5}
      OBVIOUS
    <2>5. p \in Kernel[6] /\ Kernel'[6] = Kernel[6] \ {p} /\ Kernel'[2] = Kernel[2] \cup {p}
      BY <1>3, <1>4, <1>5, Owners, OwnersNext, Zenon
    <2>6. \A k \in (1..6) \ {6, 2} : Kernel'[k] = Kernel[k]
      BY <2>2, <2>3, <2>4, Zenon
    <2> QED BY <2>1, <2>5, <2>6, KernelMove
  <1>11. Partition(User', 1..total'["user"])
    <2>1. User' = User
      BY <1>4, <1>8, <1>9, Zenon DEF User
    <2> QED BY <1>1, <2>1, Zenon DEF PagesInv
  <1>12. /\ \A t, u \in DOMAIN procs' : Dirs(procs'[t]) \cap Dirs(procs'[u]) # {} => t = u
         /\ DOMAIN spaces' = UNION {Dirs(procs'[t]) : t \in DOMAIN procs'}
    <2>1. /\ DOMAIN procs' = DOMAIN procs /\ Dirs(procs'[c]) = {p}
          /\ \A t \in DOMAIN procs \ {c} : Dirs(procs'[t]) = Dirs(procs[t])
      BY <1>2, Fields, Zenon
    <2>2. \A t \in DOMAIN procs : p \notin Dirs(procs[t])
      BY <1>1, <1>3, Zenon DEF PagesInv
    <2>3. /\ \A t, u \in DOMAIN procs : Dirs(procs[t]) \cap Dirs(procs[u]) # {} => t = u
          /\ \A x : x \in DOMAIN spaces <=> \E t \in DOMAIN procs : x \in Dirs(procs[t])
      BY <1>1, Zenon DEF PagesInv
    <2>4. \A t, u \in DOMAIN procs' : Dirs(procs'[t]) \cap Dirs(procs'[u]) # {} => t = u
      BY <2>1, <2>2, <2>3
    <2>5. \A x : x \in DOMAIN spaces' <=> \E t \in DOMAIN procs' : x \in Dirs(procs'[t])
      BY <1>5, <2>1, <2>3, Zenon
    <2>6. DOMAIN spaces' = UNION {Dirs(procs'[t]) : t \in DOMAIN procs'}
      <3>1. \A x : x \in UNION {Dirs(procs'[t]) : t \in DOMAIN procs'} <=>
                   \E t \in DOMAIN procs' : x \in Dirs(procs'[t])
        BY Zenon
      <3> QED BY <2>5, <3>1, Zenon
    <2> QED BY <2>4, <2>6, Zenon
  <1>13. OneHolder(Fn)' /\ OneHolder(Kp)' /\ OneEntry(Pts)' /\ OneEntry(Map)'
    <2>1. OneHolder(Fn) /\ OneHolder(Kp)
      BY <1>1, Zenon DEF PagesInv
    <2> QED BY <1>8, <1>9, <2>1, Zenon
  <1>14. PagesInv'
    BY <1>10, <1>11, <1>12, <1>13, Zenon DEF PagesInv
  <1> QED BY <1>2, <1>4, <1>5, <1>7, <1>14, Zenon

\* With a page for it load has an address space, without one it gives up.
LEMMA LoadPagedirInv ==
  ASSUME IndInv, load_pagedir
  PROVE  IndInv'
  <1>1. /\ Me \in ProcRec /\ LocalOK(Me) /\ Me.pc = "pagedir" /\ cr3 = Me.pagedir
        /\ cr3 # Null => cr3 \in DOMAIN spaces
        /\ InProc("pagedir") /\ current \in DOMAIN procs
    BY Running DEF load_pagedir
  <1>2. UNCHANGED <<total, main, current, ready, io, cr3, esp0, temporary, panicked>>
    BY Zenon DEF load_pagedir, cpu
  <1>3. CASE ~HasPage("kernel")
    <2>1. Goto("close") /\ UNCHANGED <<pool, spaces>>
      BY <1>3, Zenon DEF load_pagedir
    <2>2. LocalAt(Me, "close") /\ "close" \in ProcLabel
      BY <1>1, Zenon DEF LocalOK, LocalAt, Entered, ProcLabel
    <2> QED BY <1>1, <1>2, <2>1, <2>2, GotoStep, Zenon
  <1>4. CASE HasPage("kernel")
    <2>1. PICK p : p = Page("kernel")
      BY Zenon
    <2>2. /\ Take("kernel") /\ pagedir_create(p)
          /\ procs' = [procs EXCEPT ![current].pagedir = p, ![current].pc = "activate"]
      BY <1>4, <2>1, Zenon DEF load_pagedir
    <2>3. p \in Nat /\ p # Null
      BY <1>4, <2>1, FreshKernel, Zenon DEF IndInv
    <2>4. PICK r : r = [Me EXCEPT !.pagedir = p, !.pc = "activate"]
      BY Zenon
    <2>5. /\ r \in ProcRec /\ r.pc = "activate" /\ r.pagedir = p /\ r.pd = Me.pd
          /\ r.fn = Me.fn /\ r.kpage = Me.kpage /\ r.seg = Me.seg /\ r.pg = Me.pg /\ r.exe = Me.exe
      BY <1>1, <2>3, <2>4, Zenon DEF ProcRec, ProcLabel
    <2>6. procs' = [procs EXCEPT ![current] = r]
      BY <2>2, <2>4, Zenon DEF Me
    <2>7. LocalOK(r) /\ Dirs(r) = {p} /\ Dirs(Me) = {}
      BY <1>1, <2>3, <2>5, ZenonT(30) DEF LocalOK, LocalAt, Entered, Dirs
    <2>8. /\ PagesInv' /\ pool' \in [{"kernel", "user"} -> SUBSET Nat]
          /\ \A d \in DOMAIN spaces' :
              spaces'[d] = [pts |-> spaces'[d].pts, map |-> spaces'[d].map] /\ SpaceOK(spaces'[d])
          /\ DOMAIN spaces' = DOMAIN spaces \cup {p}
      <3>1. /\ Dirs(procs[current]) = {} /\ Dirs(r) = {Page("kernel")}
            /\ r.fn = procs[current].fn /\ r.kpage = procs[current].kpage
            /\ pagedir_create(Page("kernel"))
        BY <2>1, <2>2, <2>5, <2>7, Zenon DEF Me
      <3> QED BY <1>1, <1>2, <1>4, <2>1, <2>2, <2>6, <3>1, MadeDir, Zenon
    <2> QED BY <1>1, <1>2, <2>5, <2>6, <2>7, <2>8, ProcStepInv, Zenon
  <1> QED BY <1>3, <1>4, Zenon

\* The page that load is at is a page of the executable, or the stack's.
LEMMA AtUserPage ==
  ASSUME IndInv, InProc("install")
  PROVE  AtPage \in Nat /\ PdNo(AtPage) \in Nat
  <1>1. Me \in ProcRec /\ LocalOK(Me) /\ Me.pc = "install" /\ Me.exe.segments \in Seq(Segment)
    BY Running, Zenon
  <1>2. CASE AtStack
    <2>1. AtPage = StackPage
      BY <1>2, Zenon DEF AtPage
    <2> QED BY <2>1, ProcessAssumption, Zenon DEF UserPage
  <1>3. CASE ~AtStack
    <2>1. /\ Me.seg \in Nat \ {0} /\ Me.pg \in Nat \ {0} /\ Me.exe \in Executable
          /\ Len(Me.exe.segments) \in Nat
      BY <1>1 DEF ProcRec
    <2>2. Me.seg \in 1..Len(Me.exe.segments) /\ Me.seg <= Len(Me.exe.segments)
      BY <1>3, <2>1 DEF AtStack, Segments
    <2>3. PICK g : g = Me.exe.segments[Me.seg]
      BY Zenon
    <2>4. g \in Segment /\ g \in Range(Me.exe.segments)
      BY <1>1, <2>2, <2>3, InRange
    <2>5. g.type = "load" /\ Me.pg <= Len(g.pages)
      BY <1>1, <2>2, <2>3, Zenon DEF LocalOK, LocalAt
    <2>6. g.pages \in Seq(Nat)
      BY <2>4, <2>5, Zenon DEF Segment
    <2>7. Me.pg \in 1..Len(g.pages) /\ AtPage = g.pages[Me.pg]
      BY <1>3, <2>1, <2>3, <2>5, <2>6 DEF AtPage, Segments
    <2>8. AtPage \in Nat /\ AtPage \in Range(g.pages)
      BY <2>6, <2>7, InRange
    <2>9. g \in Loadable
      BY <2>1, <2>4, <2>5, Zenon DEF Loadable
    <2>10. AtPage \in UserPage
      BY <2>8, <2>9, Zenon DEF UserPage
    <2> QED BY <2>8, <2>10, ProcessAssumption, Zenon
  <1> QED BY <1>2, <1>3, Zenon

\* Where load goes next.
LEMMA InstalledOK ==
  ASSUME IndInv, InProc("install")
  PROVE  /\ Installed \in ProcRec /\ LocalOK(Installed)
         /\ Installed.kpage = Null /\ Installed.pagedir = Me.pagedir /\ Installed.pd = Me.pd
         /\ Installed.fn = Me.fn /\ Installed.pc \in {"close", "segment", "page"}
  <1>1. Me \in ProcRec /\ LocalOK(Me) /\ Me.pc = "install" /\ Me.exe.segments \in Seq(Segment)
    BY Running, Zenon
  <1>2. PICK last \in BOOLEAN : last = (~AtStack /\ Me.pg = Len(Segments[Me.seg].pages))
    BY Zenon
  <1>3. PICK k \in {"close", "segment", "page"} :
          k = IF AtStack THEN "close" ELSE IF last THEN "segment" ELSE "page"
    BY Zenon
  <1>4. PICK sg \in Nat \ {0} : sg = IF last THEN Me.seg + 1 ELSE Me.seg
    BY <1>1 DEF ProcRec
  <1>5. PICK q \in Nat \ {0} : q = IF last \/ AtStack THEN 1 ELSE Me.pg + 1
    BY <1>1 DEF ProcRec
  <1>6. PICK o \in BOOLEAN : o = AtStack
    <2>1. AtStack \in BOOLEAN
      BY <1>1 DEF AtStack, Segments, ProcRec
    <2> QED BY <2>1, Zenon
  <1>7. Installed = [Me EXCEPT !.kpage = Null, !.pc = k, !.ok = o, !.seg = sg, !.pg = q]
    BY <1>1, <1>2, <1>3, <1>4, <1>5, <1>6, Zenon DEF Installed, ProcRec
  <1>8. PICK r : r = [Me EXCEPT !.kpage = Null, !.pc = k, !.ok = o, !.seg = sg, !.pg = q]
    BY Zenon
  <1>9. /\ r \in ProcRec /\ r.pc = k /\ r.kpage = Null /\ r.pagedir = Me.pagedir
        /\ r.pd = Me.pd /\ r.fn = Me.fn /\ r.seg = sg /\ r.pg = q /\ r.exe = Me.exe
    BY <1>1, <1>8, Zenon DEF ProcRec, ProcLabel, Null
  <1>10. ASSUME k = "page", sg <= Len(Me.exe.segments)
         PROVE  /\ Me.exe.segments[sg].type = "load"
                /\ q <= Len(Me.exe.segments[sg].pages)
    <2>1. ~AtStack /\ ~last /\ sg = Me.seg /\ q = Me.pg + 1
      BY <1>3, <1>4, <1>5, <1>10, Zenon
    <2>2. /\ Me.exe.segments[sg].type = "load"
          /\ Me.pg <= Len(Me.exe.segments[sg].pages)
      BY <1>1, <1>10, <2>1, Zenon DEF LocalOK, LocalAt
    <2>3. Me.pg # Len(Me.exe.segments[sg].pages)
      BY <1>2, <2>1, Zenon DEF Segments
    <2>4. Me.exe.segments[sg] \in Segment
      BY <1>1, <1>10
    <2>5. Len(Me.exe.segments[sg].pages) \in Nat
      BY <2>2, <2>4 DEF Segment
    <2>6. Me.pg \in Nat
      BY <1>1, Zenon DEF ProcRec
    <2> QED BY <2>1, <2>2, <2>3, <2>5, <2>6
  <1>11. k = "segment" => q = 1
    BY <1>3, <1>5, Zenon
  <1>12. Me.pagedir # Null /\ Me.pd = Null /\ Me.fn # Null
    BY <1>1, Zenon DEF LocalOK, LocalAt, Entered
  <1>13. LocalOK(r)
    BY <1>3, <1>9, <1>10, <1>11, <1>12, Zenon DEF LocalOK, LocalAt, Entered
  <1> QED BY <1>7, <1>8, <1>9, <1>13, Zenon

\* A step that changes one address space leaves the others well formed.
LEMMA TablesOK ==
  ASSUME IndInv, NEW d \in DOMAIN spaces, NEW pt, NEW mp,
         spaces' = [spaces EXCEPT ![d] = [pts |-> pt, map |-> mp]],
         SpaceOK([pts |-> pt, map |-> mp])
  PROVE  \A e \in DOMAIN spaces' :
           spaces'[e] = [pts |-> spaces'[e].pts, map |-> spaces'[e].map] /\ SpaceOK(spaces'[e])
  <1>1. /\ DOMAIN spaces' = DOMAIN spaces
        /\ spaces'[d] = [pts |-> pt, map |-> mp]
        /\ \A e \in DOMAIN spaces \ {d} : spaces'[e] = spaces[e]
    BY Zenon
  <1>2. \A e \in DOMAIN spaces :
          spaces[e] = [pts |-> spaces[e].pts, map |-> spaces[e].map] /\ SpaceOK(spaces[e])
    BY Zenon DEF IndInv, TypeInv
  <1>3. spaces'[d] = [pts |-> spaces'[d].pts, map |-> spaces'[d].map] /\ SpaceOK(spaces'[d])
    BY <1>1, Zenon
  <1> QED BY <1>1, <1>2, <1>3, Zenon

\* A user page goes from load's hand into the address space.
LEMMA MappedPage ==
  ASSUME IndInv, NEW c \in DOMAIN procs, NEW r, procs' = [procs EXCEPT ![c] = r],
         total' = total, procs[c].kpage # Null, r.kpage = Null,
         NEW d \in DOMAIN spaces, NEW u, NEW pt, u \notin DOMAIN spaces[d].map,
         spaces' = [spaces EXCEPT ![d] =
                      [pts |-> pt, map |-> With(spaces[d].map, u, procs[c].kpage)]],
         pool'["user"] = pool["user"]
  PROVE  Partition(User', 1..total'["user"]) /\ OneHolder(Kp') /\ OneEntry(Map')
  <1>1. TypeInv /\ PagesInv
    BY Zenon DEF IndInv
  <1>2. PICK p : p = procs[c].kpage
    BY Zenon
  <1>3. Held(Kp') = Held(Kp) \ {p} /\ OneHolder(Kp') /\ p \in Held(Kp)
    <2>1. /\ OneHolder(Kp) /\ DOMAIN Kp' = DOMAIN Kp /\ c \in DOMAIN Kp
          /\ Kp[c] = p /\ Kp'[c] = Null /\ \A x \in DOMAIN Kp \ {c} : Kp'[x] = Kp[x]
      <3>1. OneHolder(Kp)
        BY <1>1, Zenon DEF PagesInv
      <3> QED BY <1>2, <3>1, Fields, Zenon
    <2>2. PICK f, g : f = Kp /\ g = Kp'
      BY Zenon
    <2>3. Held(g) = Held(f) \ {p} /\ OneHolder(g) /\ p \in Held(f)
      BY <1>2, <2>1, <2>2, HoldDrop, SMTT(30)
    <2> QED BY <2>2, <2>3, Zenon
  <1>4. p \notin Listed(Map)
    BY <1>1, <1>3, PoolPages, Owners
  <1>5. Listed(Map') = Listed(Map) \cup {p} /\ OneEntry(Map')
    <2>1. PICK mp : mp = With(spaces[d].map, u, p)
      BY Zenon
    <2>2. /\ DOMAIN mp = DOMAIN spaces[d].map \cup {u} /\ mp[u] = p
          /\ \A i \in DOMAIN spaces[d].map : mp[i] = spaces[d].map[i]
      BY <2>1, Zenon DEF With
    <2>3. spaces' = [spaces EXCEPT ![d] = [pts |-> pt, map |-> mp]]
      BY <1>2, <2>1, Zenon
    <2>4. /\ DOMAIN Map = DOMAIN spaces /\ DOMAIN Map' = DOMAIN spaces
          /\ Map[d] = spaces[d].map /\ Map'[d] = mp
          /\ \A e \in DOMAIN spaces \ {d} : Map'[e] = Map[e]
      BY <2>3 DEF Map
    <2>5. OneEntry(Map)
      BY <1>1, Zenon DEF PagesInv
    <2>6. PICK f, g : f = Map /\ g = Map'
      BY Zenon
    <2>7. /\ d \in DOMAIN f /\ p \notin Listed(f) /\ OneEntry(f)
          /\ DOMAIN g = DOMAIN f /\ \A e \in DOMAIN f \ {d} : g[e] = f[e]
          /\ u \notin DOMAIN f[d] /\ DOMAIN g[d] = DOMAIN f[d] \cup {u} /\ g[d][u] = p
          /\ \A i \in DOMAIN f[d] : g[d][i] = f[d][i]
      BY <1>4, <2>2, <2>4, <2>5, <2>6, ZenonT(30)
    <2>8. Listed(g) = Listed(f) \cup {p} /\ OneEntry(g)
      BY <2>7, ListAdd
    <2> QED BY <2>6, <2>8, Zenon
  <1>6. Partition(User', 1..total'["user"])
    <2>1. Partition(User, 1..total["user"]) /\ total' = total
      BY <1>1, Zenon DEF PagesInv
    <2>2. /\ p \in User[1] /\ User'[1] = User[1] \ {p} /\ User'[2] = User[2] \cup {p}
          /\ \A k \in (1..3) \ {1, 2} : User'[k] = User[k]
      BY <1>3, <1>5, Owners, OwnersNext
    <2> QED BY <2>1, <2>2, UserMove
  <1> QED BY <1>3, <1>5, <1>6, Zenon

\* lookup_page's new page table goes from the pool into the page directory.
LEMMA MadeTable ==
  ASSUME IndInv, UNCHANGED <<total, main>>, DOMAIN procs' = DOMAIN procs, Fn' = Fn,
         NEW d \in DOMAIN spaces, NEW n, NEW mp, n \notin DOMAIN spaces[d].pts,
         HasPage("kernel"), Take("kernel"),
         spaces' = [spaces EXCEPT ![d] =
                      [pts |-> With(spaces[d].pts, n, Page("kernel")), map |-> mp]]
  PROVE  /\ Partition(Kernel', 1..total'["kernel"]) /\ OneEntry(Pts')
         /\ pool' \in [{"kernel", "user"} -> SUBSET Nat] /\ pool'["user"] = pool["user"]
  <1>1. TypeInv /\ PagesInv
    BY Zenon DEF IndInv
  <1>2. PICK p : p = Page("kernel")
    BY Zenon
  <1>3. p \in pool["kernel"] /\ p \notin Listed(Pts)
    BY <1>1, <1>2, FreshKernel, Zenon
  <1>4. /\ pool' \in [{"kernel", "user"} -> SUBSET Nat]
        /\ pool'["user"] = pool["user"] /\ pool'["kernel"] = pool["kernel"] \ {p}
    BY <1>1, <1>2, Zenon DEF Take, Page, TypeInv
  <1>5. Listed(Pts') = Listed(Pts) \cup {p} /\ OneEntry(Pts') /\ DOMAIN spaces' = DOMAIN spaces
    <2>1. PICK pt : pt = With(spaces[d].pts, n, p)
      BY Zenon
    <2>2. /\ DOMAIN pt = DOMAIN spaces[d].pts \cup {n} /\ pt[n] = p
          /\ \A i \in DOMAIN spaces[d].pts : pt[i] = spaces[d].pts[i]
      BY <2>1, Zenon DEF With
    <2>3. spaces' = [spaces EXCEPT ![d] = [pts |-> pt, map |-> mp]]
      BY <1>2, <2>1, Zenon
    <2>4. /\ DOMAIN Pts = DOMAIN spaces /\ DOMAIN Pts' = DOMAIN spaces
          /\ Pts[d] = spaces[d].pts /\ Pts'[d] = pt
          /\ \A e \in DOMAIN spaces \ {d} : Pts'[e] = Pts[e]
      BY <2>3 DEF Pts
    <2>5. OneEntry(Pts)
      BY <1>1, Zenon DEF PagesInv
    <2>6. PICK f, g : f = Pts /\ g = Pts'
      BY Zenon
    <2>7. /\ d \in DOMAIN f /\ p \notin Listed(f) /\ OneEntry(f)
          /\ DOMAIN g = DOMAIN f /\ \A e \in DOMAIN f \ {d} : g[e] = f[e]
          /\ n \notin DOMAIN f[d] /\ DOMAIN g[d] = DOMAIN f[d] \cup {n} /\ g[d][n] = p
          /\ \A i \in DOMAIN f[d] : g[d][i] = f[d][i]
      BY <1>3, <2>2, <2>4, <2>5, <2>6, ZenonT(30)
    <2>8. Listed(g) = Listed(f) \cup {p} /\ OneEntry(g)
      BY <2>7, ListAdd
    <2> QED BY <2>3, <2>6, <2>8, Zenon
  <1>6. Partition(Kernel', 1..total'["kernel"])
    <2>1. Partition(Kernel, 1..total["kernel"]) /\ total' = total
      BY <1>1, Zenon DEF PagesInv
    <2>2. Kernel'[1] = Kernel[1] /\ Kernel'[3] = Kernel[3] /\ Kernel'[4] = Kernel[4]
      BY Owners, OwnersNext, Zenon
    <2>3. Kernel'[2] = Kernel[2]
      BY <1>5, Owners, OwnersNext, Zenon
    <2>4. \A k \in (1..6) \ {6, 5} : k \in {1, 2, 3, 4}
      OBVIOUS
    <2>5. p \in Kernel[6] /\ Kernel'[6] = Kernel[6] \ {p} /\ Kernel'[5] = Kernel[5] \cup {p}
      BY <1>3, <1>4, <1>5, Owners, OwnersNext, Zenon
    <2>6. \A k \in (1..6) \ {6, 5} : Kernel'[k] = Kernel[k]
      BY <2>2, <2>3, <2>4, Zenon
    <2> QED BY <2>1, <2>5, <2>6, KernelMove
  <1> QED BY <1>4, <1>5, <1>6, Zenon

\* install_page maps the page, or load gives it back.
LEMMA InstallPageInv ==
  ASSUME IndInv, install_page
  PROVE  IndInv'
  <1>1. /\ Me \in ProcRec /\ LocalOK(Me) /\ cr3 = Me.pagedir
        /\ cr3 # Null => cr3 \in DOMAIN spaces
        /\ InProc("install") /\ current \in DOMAIN procs
    BY Running DEF install_page
  <1>2. UNCHANGED <<total, main, current, ready, io, cr3, esp0, temporary, panicked>>
    BY Zenon DEF install_page, cpu
  <1>3. TypeInv /\ PagesInv
    BY Zenon DEF IndInv
  <1>4. Me.kpage # Null /\ Me.pagedir # Null
    BY <1>1, Zenon DEF LocalOK, LocalAt, Entered, InProc, Me
  <1>5. PICK d \in DOMAIN spaces : d = Me.pagedir
    BY <1>1, <1>4, Zenon
  <1>6. PICK u \in Nat : u = AtPage /\ PdNo(u) \in Nat
    BY <1>1, AtUserPage, Zenon
  <1>7. CASE pagedir_get_page(spaces[d], u) \/ ~lookup_page(spaces[d], u)
    <2>1. Drop /\ spaces' = spaces
      BY <1>5, <1>6, <1>7, Zenon DEF install_page
    <2> QED BY <1>1, <1>2, <2>1, DropInv, Zenon
  <1>8. CASE ~(pagedir_get_page(spaces[d], u) \/ ~lookup_page(spaces[d], u))
    <2>1. PICK r : r = Installed
      BY Zenon
    <2>2. /\ r \in ProcRec /\ LocalOK(r) /\ r.kpage = Null /\ r.fn = Me.fn
          /\ r.pagedir = Me.pagedir /\ r.pc \notin {"activate", "base"} /\ Dirs(r) = Dirs(Me)
      BY <1>1, <2>1, InstalledOK, Zenon DEF Dirs
    <2>3. procs' = [procs EXCEPT ![current] = r] /\ pagedir_set_page(u)
      BY <1>5, <1>6, <1>8, <2>1, Zenon DEF install_page
    <2>4. u \notin DOMAIN spaces[d].map
      BY <1>8, Zenon DEF pagedir_get_page
    <2>5. PICK mp : mp = With(spaces[d].map, u, Me.kpage)
      BY Zenon
    <2>6. PICK pt : pt = IF NewTable(spaces[d], u)
                           THEN With(spaces[d].pts, PdNo(u), Page("kernel"))
                           ELSE spaces[d].pts
      BY Zenon
    <2>7. spaces' = [spaces EXCEPT ![d] = [pts |-> pt, map |-> mp]]
      <3>1. spaces[d] = [pts |-> spaces[d].pts, map |-> spaces[d].map]
        BY <1>3, Zenon DEF TypeInv
      <3>2. spaces' = [spaces EXCEPT ![d] = [[spaces[d] EXCEPT !.map = mp] EXCEPT !.pts = pt]]
        BY <1>5, <2>3, <2>5, <2>6, Zenon DEF pagedir_set_page
      <3>3. [[spaces[d] EXCEPT !.map = mp] EXCEPT !.pts = pt] = [pts |-> pt, map |-> mp]
        <4>1. PICK a, b : a = spaces[d].pts /\ b = spaces[d].map
          BY Zenon
        <4>2. spaces[d] = [pts |-> a, map |-> b]
          BY <3>1, <4>1, Zenon
        <4>3. [[pts |-> a, map |-> b] EXCEPT !.map = mp] = [pts |-> a, map |-> mp]
          OBVIOUS
        <4>4. [[pts |-> a, map |-> mp] EXCEPT !.pts = pt] = [pts |-> pt, map |-> mp]
          OBVIOUS
        <4> QED BY <4>2, <4>3, <4>4, Zenon
      <3> QED BY <3>2, <3>3, Zenon
    <2>8. Fn' = Fn /\ DOMAIN procs' = DOMAIN procs
      BY <2>2, <2>3, Zenon DEF Fn, Me
    <2>9. /\ Partition(Kernel', 1..total'["kernel"]) /\ OneEntry(Pts')
          /\ pool' \in [{"kernel", "user"} -> SUBSET Nat] /\ pool'["user"] = pool["user"]
      <3>1. CASE NewTable(spaces[d], u)
        <4>1. /\ HasPage("kernel") /\ Take("kernel") /\ PdNo(u) \notin DOMAIN spaces[d].pts
              /\ pt = With(spaces[d].pts, PdNo(u), Page("kernel"))
          BY <1>5, <1>8, <2>3, <2>6, <3>1, Zenon DEF lookup_page, pagedir_set_page, NewTable
        <4> QED BY <1>2, <2>7, <2>8, <4>1, MadeTable, Zenon
      <3>2. CASE ~NewTable(spaces[d], u)
        <4>1. pool' = pool /\ pt = spaces[d].pts
          BY <1>5, <2>3, <2>6, <3>2, Zenon DEF pagedir_set_page
        <4>2. Pts' = Pts /\ DOMAIN spaces' = DOMAIN spaces
          BY <2>7, <4>1, Zenon DEF Pts
        <4>3. Kernel' = Kernel
          BY <1>2, <2>8, <4>1, <4>2, Zenon DEF Kernel
        <4> QED BY <1>2, <1>3, <4>1, <4>2, <4>3, Zenon DEF PagesInv, TypeInv
      <3> QED BY <3>1, <3>2, Zenon
    <2>10. Partition(User', 1..total'["user"]) /\ OneHolder(Kp') /\ OneEntry(Map')
      <3>1. /\ procs[current].kpage # Null
            /\ spaces' = [spaces EXCEPT ![d] =
                            [pts |-> pt, map |-> With(spaces[d].map, u, procs[current].kpage)]]
        BY <1>4, <2>5, <2>7, Zenon DEF Me
      <3> QED BY <1>1, <1>2, <2>2, <2>3, <2>4, <2>9, <3>1, MappedPage, ZenonT(30)
    <2>11. /\ \A t, v \in DOMAIN procs' : Dirs(procs'[t]) \cap Dirs(procs'[v]) # {} => t = v
           /\ DOMAIN spaces' = UNION {Dirs(procs'[t]) : t \in DOMAIN procs'}
      <3>1. DOMAIN spaces' = DOMAIN spaces
        BY <2>7, Zenon
      <3>2. Dirs(r) = Dirs(procs[current])
        BY <2>2, Zenon DEF Me
      <3> QED BY <1>1, <1>3, <2>3, <3>1, <3>2, DirsSame, Zenon
    <2>12. PagesInv'
      <3>1. OneHolder(Fn')
        BY <1>3, <2>8, Zenon DEF PagesInv
      <3> QED BY <2>9, <2>10, <2>11, <3>1, Zenon DEF PagesInv
    <2>13. SpaceOK([pts |-> pt, map |-> mp])
      <3>1. SpaceOK(spaces[d])
        BY Zenon DEF IndInv
      <3>2. DOMAIN mp = DOMAIN spaces[d].map \cup {u}
        BY <2>5, Zenon DEF With
      <3>3. DOMAIN pt = DOMAIN spaces[d].pts \cup {PdNo(u)}
        <4>1. CASE NewTable(spaces[d], u)
          BY <2>6, <4>1, Zenon DEF With
        <4>2. CASE ~NewTable(spaces[d], u)
          BY <2>6, <4>2, Zenon DEF NewTable
        <4> QED BY <4>1, <4>2, Zenon
      <3> QED BY <1>6, <3>1, <3>2, <3>3, Zenon DEF SpaceOK
    <2>14. \A e \in DOMAIN spaces' :
             spaces'[e] = [pts |-> spaces'[e].pts, map |-> spaces'[e].map] /\ SpaceOK(spaces'[e])
      BY <2>7, <2>13, TablesOK, Zenon
    <2>15. DOMAIN spaces' = DOMAIN spaces
      BY <2>7, Zenon
    <2> QED BY <1>1, <1>2, <2>2, <2>3, <2>9, <2>12, <2>14, <2>15, ProcStepInv, ZenonT(30)
  <1> QED BY <1>7, <1>8, Zenon

\* An address space with another map, or other page tables.
LEMMA SpaceWith ==
  ASSUME NEW s, NEW x, s = [pts |-> s.pts, map |-> s.map]
  PROVE  /\ [s EXCEPT !.map = x] = [pts |-> s.pts, map |-> x]
         /\ [s EXCEPT !.pts = x] = [pts |-> x, map |-> s.map]
  <1>1. PICK a, b : a = s.pts /\ b = s.map
    BY Zenon
  <1>2. s = [pts |-> a, map |-> b]
    BY <1>1, Zenon
  <1>3. [[pts |-> a, map |-> b] EXCEPT !.map = x] = [pts |-> a, map |-> x]
    OBVIOUS
  <1>4. [[pts |-> a, map |-> b] EXCEPT !.pts = x] = [pts |-> x, map |-> b]
    OBVIOUS
  <1> QED BY <1>1, <1>2, <1>3, <1>4, Zenon

\* A page that pagedir_destroy frees is no longer mapped.
LEMMA FreedUserPage ==
  ASSUME IndInv, UNCHANGED <<total, main, procs>>,
         NEW d \in DOMAIN spaces, NEW u \in DOMAIN spaces[d].map,
         Free("user", spaces[d].map[u]),
         spaces' = [spaces EXCEPT ![d] =
                      [pts |-> spaces[d].pts, map |-> Without(spaces[d].map, u)]]
  PROVE  PagesInv' /\ pool' \in [{"kernel", "user"} -> SUBSET Nat]
  <1>1. TypeInv /\ PagesInv
    BY Zenon DEF IndInv
  <1>2. PICK p : p = spaces[d].map[u]
    BY Zenon
  <1>3. PICK mp : mp = Without(spaces[d].map, u)
    BY Zenon
  <1>4. /\ DOMAIN mp = DOMAIN spaces[d].map \ {u}
        /\ \A i \in DOMAIN spaces[d].map \ {u} : mp[i] = spaces[d].map[i]
    BY <1>3, Zenon DEF Without
  <1>5. spaces' = [spaces EXCEPT ![d] = [pts |-> spaces[d].pts, map |-> mp]]
    BY <1>3, Zenon
  <1>6. Pts' = Pts /\ Fn' = Fn /\ Kp' = Kp /\ DOMAIN spaces' = DOMAIN spaces
    BY <1>5 DEF Pts, Fn, Kp
  <1>7. Listed(Map') = Listed(Map) \ {p} /\ OneEntry(Map') /\ p \in Listed(Map)
    <2>1. /\ DOMAIN Map = DOMAIN spaces /\ DOMAIN Map' = DOMAIN spaces
          /\ Map[d] = spaces[d].map /\ Map'[d] = mp
          /\ \A e \in DOMAIN spaces \ {d} : Map'[e] = Map[e]
      BY <1>5 DEF Map
    <2>2. OneEntry(Map)
      BY <1>1, Zenon DEF PagesInv
    <2>3. PICK f, g : f = Map /\ g = Map'
      BY Zenon
    <2>4. /\ d \in DOMAIN f /\ u \in DOMAIN f[d] /\ OneEntry(f)
          /\ DOMAIN g = DOMAIN f /\ \A e \in DOMAIN f \ {d} : g[e] = f[e]
          /\ DOMAIN g[d] = DOMAIN f[d] \ {u}
          /\ \A i \in DOMAIN f[d] \ {u} : g[d][i] = f[d][i]
      BY <1>4, <2>1, <2>2, <2>3, Zenon
    <2>5. Listed(g) = Listed(f) \ {f[d][u]} /\ OneEntry(g) /\ f[d][u] \in Listed(f)
      BY <2>4, ListDrop, Zenon
    <2>6. f[d][u] = p
      BY <1>2, <2>1, <2>3, Zenon
    <2> QED BY <2>3, <2>5, <2>6, Zenon
  <1>8. /\ pool' \in [{"kernel", "user"} -> SUBSET Nat]
        /\ pool'["kernel"] = pool["kernel"] /\ pool'["user"] = pool["user"] \cup {p}
    <2>1. p \in Nat
      BY <1>1, <1>7, PoolPages, Owners
    <2> QED BY <1>1, <1>2, <2>1, ZenonT(30) DEF Free, TypeInv
  <1>9. Kernel' = Kernel
    BY <1>6, <1>8, Zenon DEF Kernel
  <1>10. Partition(User', 1..total'["user"])
    <2>1. Partition(User, 1..total["user"]) /\ total' = total
      BY <1>1, Zenon DEF PagesInv
    <2>2. /\ p \in User[2] /\ User'[2] = User[2] \ {p} /\ User'[3] = User[3] \cup {p}
          /\ \A k \in (1..3) \ {2, 3} : User'[k] = User[k]
      BY <1>6, <1>7, <1>8, Owners, OwnersNext
    <2> QED BY <2>1, <2>2, UserMove
  <1> QED BY <1>1, <1>6, <1>7, <1>8, <1>9, <1>10, Zenon DEF PagesInv

\* A page table that pagedir_destroy frees is no longer in the directory.
LEMMA FreedTable ==
  ASSUME IndInv, UNCHANGED <<total, main, procs>>,
         NEW d \in DOMAIN spaces, NEW n \in DOMAIN spaces[d].pts,
         Free("kernel", spaces[d].pts[n]),
         spaces' = [spaces EXCEPT ![d] =
                      [pts |-> Without(spaces[d].pts, n), map |-> spaces[d].map]]
  PROVE  PagesInv' /\ pool' \in [{"kernel", "user"} -> SUBSET Nat]
  <1>1. TypeInv /\ PagesInv
    BY ZenonT(30) DEF IndInv
  <1>2. PICK p : p = spaces[d].pts[n]
    BY Zenon
  <1>3. PICK pt : pt = Without(spaces[d].pts, n)
    BY Zenon
  <1>4. /\ DOMAIN pt = DOMAIN spaces[d].pts \ {n}
        /\ \A i \in DOMAIN spaces[d].pts \ {n} : pt[i] = spaces[d].pts[i]
    BY <1>3, Zenon DEF Without
  <1>5. spaces' = [spaces EXCEPT ![d] = [pts |-> pt, map |-> spaces[d].map]]
    BY <1>3, Zenon
  <1>6. Map' = Map /\ Fn' = Fn /\ Kp' = Kp /\ DOMAIN spaces' = DOMAIN spaces
    BY <1>5 DEF Map, Fn, Kp
  <1>7. Listed(Pts') = Listed(Pts) \ {p} /\ OneEntry(Pts') /\ p \in Listed(Pts)
    <2>1. /\ DOMAIN Pts = DOMAIN spaces /\ DOMAIN Pts' = DOMAIN spaces
          /\ Pts[d] = spaces[d].pts /\ Pts'[d] = pt
          /\ \A e \in DOMAIN spaces \ {d} : Pts'[e] = Pts[e]
      BY <1>5 DEF Pts
    <2>2. OneEntry(Pts)
      BY <1>1, Zenon DEF PagesInv
    <2>3. PICK f, g : f = Pts /\ g = Pts'
      BY Zenon
    <2>4. /\ d \in DOMAIN f /\ n \in DOMAIN f[d] /\ OneEntry(f)
          /\ DOMAIN g = DOMAIN f /\ \A e \in DOMAIN f \ {d} : g[e] = f[e]
          /\ DOMAIN g[d] = DOMAIN f[d] \ {n}
          /\ \A i \in DOMAIN f[d] \ {n} : g[d][i] = f[d][i]
      BY <1>4, <2>1, <2>2, <2>3, Zenon
    <2>5. Listed(g) = Listed(f) \ {f[d][n]} /\ OneEntry(g) /\ f[d][n] \in Listed(f)
      BY <2>4, ListDrop, Zenon
    <2>6. f[d][n] = p
      BY <1>2, <2>1, <2>3, Zenon
    <2> QED BY <2>3, <2>5, <2>6, Zenon
  <1>8. /\ pool' \in [{"kernel", "user"} -> SUBSET Nat]
        /\ pool'["user"] = pool["user"] /\ pool'["kernel"] = pool["kernel"] \cup {p}
    <2>1. p \in Nat
      BY <1>1, <1>7, PoolPages, Owners
    <2> QED BY <1>1, <1>2, <2>1, ZenonT(30) DEF Free, TypeInv
  <1>9. User' = User
    BY <1>6, <1>8, ZenonT(30) DEF User
  <1>10. Partition(Kernel', 1..total'["kernel"])
    <2>1. Partition(Kernel, 1..total["kernel"]) /\ total' = total
      BY <1>1, Zenon DEF PagesInv
    <2>2. /\ Kernel'[1] = Kernel[1] /\ Kernel'[2] = Kernel[2]
          /\ Kernel'[3] = Kernel[3] /\ Kernel'[4] = Kernel[4]
      BY <1>6, Owners, OwnersNext, Zenon
    <2>3. \A k \in (1..6) \ {5, 6} : k \in {1, 2, 3, 4}
      OBVIOUS
    <2>4. p \in Kernel[5] /\ Kernel'[5] = Kernel[5] \ {p} /\ Kernel'[6] = Kernel[6] \cup {p}
      BY <1>7, <1>8, Owners, OwnersNext, Zenon
    <2>5. \A k \in (1..6) \ {5, 6} : Kernel'[k] = Kernel[k]
      BY <2>2, <2>3, Zenon
    <2> QED BY <2>1, <2>4, <2>5, KernelMove
  <1> QED BY <1>1, <1>6, <1>7, <1>8, <1>9, <1>10, Zenon DEF PagesInv

\* The page directory goes last, when it has no page tables and so no pages.
LEMMA FreedDir ==
  ASSUME IndInv, NEW c \in DOMAIN procs, NEW r, procs' = [procs EXCEPT ![c] = r],
         UNCHANGED <<total, main>>, NEW d \in DOMAIN spaces, DOMAIN spaces[d].pts = {},
         Free("kernel", d), spaces' = Without(spaces, d),
         Dirs(procs[c]) = {d}, Dirs(r) = {},
         r.fn = procs[c].fn, r.kpage = procs[c].kpage
  PROVE  /\ PagesInv' /\ pool' \in [{"kernel", "user"} -> SUBSET Nat]
         /\ \A e \in DOMAIN spaces' :
              spaces'[e] = [pts |-> spaces'[e].pts, map |-> spaces'[e].map] /\ SpaceOK(spaces'[e])
  <1>1. TypeInv /\ PagesInv
    BY Zenon DEF IndInv
  <1>2. /\ DOMAIN spaces' = DOMAIN spaces \ {d}
        /\ \A e \in DOMAIN spaces \ {d} : spaces'[e] = spaces[e]
    BY Zenon DEF Without
  <1>3. \A e \in DOMAIN spaces' :
          spaces'[e] = [pts |-> spaces'[e].pts, map |-> spaces'[e].map] /\ SpaceOK(spaces'[e])
    BY <1>2, Zenon DEF IndInv, TypeInv
  <1>4. DOMAIN spaces[d].map = {}
    <2>1. SpaceOK(spaces[d])
      BY Zenon DEF IndInv
    <2> QED BY <2>1, Zenon DEF SpaceOK
  <1>5. Fn' = Fn /\ Kp' = Kp
    BY Zenon DEF Fn, Kp
  <1>6. Listed(Pts') = Listed(Pts) /\ OneEntry(Pts') /\ Listed(Map') = Listed(Map) /\ OneEntry(Map')
    <2>1. OneEntry(Pts) /\ OneEntry(Map)
      BY <1>1, Zenon DEF PagesInv
    <2>2. /\ DOMAIN Pts = DOMAIN spaces /\ DOMAIN Pts' = DOMAIN spaces \ {d}
          /\ DOMAIN Map = DOMAIN spaces /\ DOMAIN Map' = DOMAIN spaces \ {d}
          /\ DOMAIN Pts[d] = {} /\ DOMAIN Map[d] = {}
          /\ \A e \in DOMAIN spaces \ {d} : Pts'[e] = Pts[e] /\ Map'[e] = Map[e]
      BY <1>2, <1>4, Zenon DEF Pts, Map
    <2>3. PICK f, g, h, k : f = Pts /\ g = Pts' /\ h = Map /\ k = Map'
      BY Zenon
    <2>4. Listed(g) = Listed(f) /\ OneEntry(g)
      BY <2>1, <2>2, <2>3, ListSame, Zenon
    <2>5. Listed(k) = Listed(h) /\ OneEntry(k)
      BY <2>1, <2>2, <2>3, ListSame, Zenon
    <2> QED BY <2>3, <2>4, <2>5, Zenon
  <1>7. /\ pool' \in [{"kernel", "user"} -> SUBSET Nat]
        /\ pool'["user"] = pool["user"] /\ pool'["kernel"] = pool["kernel"] \cup {d}
    <2>1. d \in Nat
      BY <1>1, PoolPages, Owners, SMTT(30)
    <2> QED BY <1>1, <2>1, Zenon DEF Free, TypeInv
  <1>8. Partition(Kernel', 1..total'["kernel"])
    <2>1. Partition(Kernel, 1..total["kernel"]) /\ total' = total
      BY <1>1, Zenon DEF PagesInv
    <2>2. Kernel'[1] = Kernel[1] /\ Kernel'[3] = Kernel[3] /\ Kernel'[4] = Kernel[4]
      BY <1>5, Fields, Owners, OwnersNext, Zenon
    <2>3. Kernel'[5] = Kernel[5]
      BY <1>6, Owners, OwnersNext, Zenon
    <2>4. \A k \in (1..6) \ {2, 6} : k \in {1, 3, 4, 5}
      OBVIOUS
    <2>5. d \in Kernel[2] /\ Kernel'[2] = Kernel[2] \ {d} /\ Kernel'[6] = Kernel[6] \cup {d}
      BY <1>2, <1>7, Owners, OwnersNext, Zenon
    <2>6. \A k \in (1..6) \ {2, 6} : Kernel'[k] = Kernel[k]
      BY <2>2, <2>3, <2>4, Zenon
    <2> QED BY <2>1, <2>5, <2>6, KernelMove
  <1>9. Partition(User', 1..total'["user"])
    <2>1. User' = User
      BY <1>5, <1>6, <1>7, Zenon DEF User
    <2> QED BY <1>1, <2>1, Zenon DEF PagesInv
  <1>10. /\ \A t, u \in DOMAIN procs' : Dirs(procs'[t]) \cap Dirs(procs'[u]) # {} => t = u
         /\ DOMAIN spaces' = UNION {Dirs(procs'[t]) : t \in DOMAIN procs'}
    <2>1. /\ DOMAIN procs' = DOMAIN procs /\ Dirs(procs'[c]) = {}
          /\ \A t \in DOMAIN procs \ {c} : Dirs(procs'[t]) = Dirs(procs[t])
      BY Fields, Zenon
    <2>2. /\ \A t, u \in DOMAIN procs : Dirs(procs[t]) \cap Dirs(procs[u]) # {} => t = u
          /\ \A x : x \in DOMAIN spaces <=> \E t \in DOMAIN procs : x \in Dirs(procs[t])
      BY <1>1 DEF PagesInv
    <2>3. \A t \in DOMAIN procs \ {c} : d \notin Dirs(procs[t])
      BY <2>2, Zenon
    <2>4. \A t, u \in DOMAIN procs' : Dirs(procs'[t]) \cap Dirs(procs'[u]) # {} => t = u
      BY <2>1, <2>2
    <2>5. \A x : x \in DOMAIN spaces' <=> \E t \in DOMAIN procs' : x \in Dirs(procs'[t])
      BY <1>2, <2>1, <2>2, <2>3, Zenon
    <2>6. DOMAIN spaces' = UNION {Dirs(procs'[t]) : t \in DOMAIN procs'}
      <3>1. \A x : x \in UNION {Dirs(procs'[t]) : t \in DOMAIN procs'} <=>
                   \E t \in DOMAIN procs' : x \in Dirs(procs'[t])
        BY Zenon
      <3> QED BY <2>5, <3>1, Zenon
    <2> QED BY <2>4, <2>6, Zenon
  <1>11. OneHolder(Fn') /\ OneHolder(Kp')
    BY <1>1, <1>5, Zenon DEF PagesInv
  <1>12. PagesInv'
    BY <1>6, <1>8, <1>9, <1>10, <1>11, Zenon DEF PagesInv
  <1> QED BY <1>3, <1>7, <1>12, Zenon

\* pagedir_destroy gives back a page, a page table or the page directory.
LEMMA PagedirDestroyInv ==
  ASSUME IndInv, pagedir_destroy
  PROVE  IndInv'
  <1>1. /\ Me \in ProcRec /\ LocalOK(Me) /\ Me.pc = "destroy" /\ cr3 = Me.pagedir
        /\ cr3 # Null => cr3 \in DOMAIN spaces
        /\ InProc("destroy") /\ current \in DOMAIN procs
    BY Running DEF pagedir_destroy
  <1>2. UNCHANGED <<total, main, current, ready, io, cr3, esp0, temporary, panicked>>
    BY Zenon DEF pagedir_destroy, cpu
  <1>3. TypeInv /\ PagesInv
    BY Zenon DEF IndInv
  <1>4. /\ Me.pd # Null /\ Me.pagedir = Null /\ Me.fn = Null /\ Me.kpage = Null
        /\ Dirs(Me) = {Me.pd} /\ cr3 = Null
    BY <1>1, Zenon DEF LocalOK, LocalAt, Entered, Dirs
  <1>5. PICK d \in DOMAIN spaces : d = Me.pd
    <2>1. Me.pd \in Dirs(procs[current])
      BY <1>4, Zenon DEF Me
    <2> QED BY <1>1, <1>3, <2>1, Zenon DEF PagesInv
  <1>6. /\ spaces[d] = [pts |-> spaces[d].pts, map |-> spaces[d].map] /\ SpaceOK(spaces[d])
    BY <1>3, Zenon DEF TypeInv, IndInv
  <1>7. CASE /\ DOMAIN spaces[d].pts = {}
             /\ Free("kernel", d) /\ spaces' = Without(spaces, d)
             /\ procs' = [procs EXCEPT ![current].pd = Null, ![current].pc = "up"]
    <2>2. PICK r : r = [Me EXCEPT !.pd = Null, !.pc = "up"]
      BY Zenon
    <2>3. /\ r \in ProcRec /\ r.pc = "up" /\ r.pagedir = Null /\ r.pd = Null
          /\ r.fn = Null /\ r.kpage = Null
      BY <1>1, <1>4, <2>2, Zenon DEF ProcRec, ProcLabel, Null
    <2>4. procs' = [procs EXCEPT ![current] = r]
      BY <1>7, <2>2, Zenon DEF Me
    <2>5. LocalOK(r) /\ Dirs(r) = {}
      BY <2>3, Zenon DEF LocalOK, LocalAt, Entered, Dirs
    <2>6. /\ Dirs(procs[current]) = {d} /\ r.fn = procs[current].fn
          /\ r.kpage = procs[current].kpage
      BY <1>4, <1>5, <2>3, Zenon DEF Me
    <2>7. /\ PagesInv' /\ pool' \in [{"kernel", "user"} -> SUBSET Nat]
          /\ \A e \in DOMAIN spaces' :
               spaces'[e] = [pts |-> spaces'[e].pts, map |-> spaces'[e].map] /\ SpaceOK(spaces'[e])
      BY <1>1, <1>2, <1>7, <2>4, <2>5, <2>6, FreedDir, Zenon
    <2> QED BY <1>1, <1>2, <1>4, <2>3, <2>4, <2>5, <2>7, ProcStepInv, ZenonT(30)
  <1>8. ASSUME NEW n \in DOMAIN spaces[d].pts, NEW pages,
               pages = {u \in DOMAIN spaces[d].map : PdNo(u) = n}, UNCHANGED procs,
               \/ \E u \in pages :
                    /\ Free("user", spaces[d].map[u])
                    /\ spaces' = [spaces EXCEPT ![d].map = Without(@, u)]
               \/ /\ pages = {} /\ Free("kernel", spaces[d].pts[n])
                  /\ spaces' = [spaces EXCEPT ![d].pts = Without(@, n)]
        PROVE  IndInv'
    <2>4. procs' = [procs EXCEPT ![current] = Me]
      BY <1>1, <1>3, <1>8, Zenon DEF TypeInv, Me
    <2>5. SUFFICES /\ PagesInv' /\ pool' \in [{"kernel", "user"} -> SUBSET Nat]
                   /\ \A e \in DOMAIN spaces' :
                        /\ spaces'[e] = [pts |-> spaces'[e].pts, map |-> spaces'[e].map]
                        /\ SpaceOK(spaces'[e])
      BY <1>1, <1>2, <1>4, <2>4, ProcStepInv, Zenon
    <2>6. ASSUME NEW u \in pages, Free("user", spaces[d].map[u]),
                 spaces' = [spaces EXCEPT ![d].map = Without(@, u)]
          PROVE  /\ PagesInv' /\ pool' \in [{"kernel", "user"} -> SUBSET Nat]
                 /\ \A e \in DOMAIN spaces' :
                      /\ spaces'[e] = [pts |-> spaces'[e].pts, map |-> spaces'[e].map]
                      /\ SpaceOK(spaces'[e])
      <3>2. u \in DOMAIN spaces[d].map
        BY <1>8, <2>6, Zenon
      <3>3. PICK mp : mp = Without(spaces[d].map, u)
        BY Zenon
      <3>4. spaces' = [spaces EXCEPT ![d].map = mp]
        BY <2>6, <3>3, Zenon
      <3>5. spaces' = [spaces EXCEPT ![d] = [pts |-> spaces[d].pts, map |-> mp]]
        <4>1. spaces' = [spaces EXCEPT ![d] = [spaces[d] EXCEPT !.map = mp]]
          BY <3>4, Zenon
        <4>2. [spaces[d] EXCEPT !.map = mp] = [pts |-> spaces[d].pts, map |-> mp]
          BY <1>6, SpaceWith, Zenon
        <4> QED BY <4>1, <4>2, Zenon
      <3>6. SpaceOK([pts |-> spaces[d].pts, map |-> mp])
        <4>1. DOMAIN mp = DOMAIN spaces[d].map \ {u}
          BY <3>3, Zenon DEF Without
        <4> QED BY <1>6, <4>1, Zenon DEF SpaceOK
      <3>7. PagesInv' /\ pool' \in [{"kernel", "user"} -> SUBSET Nat]
        BY <1>2, <1>8, <2>6, <3>2, <3>3, <3>5, FreedUserPage, ZenonT(30)
      <3> QED BY <3>5, <3>6, <3>7, TablesOK, Zenon
    <2>7. CASE /\ pages = {} /\ Free("kernel", spaces[d].pts[n])
               /\ spaces' = [spaces EXCEPT ![d].pts = Without(@, n)]
      <3>1. PICK pt : pt = Without(spaces[d].pts, n)
        BY Zenon
      <3>2. spaces' = [spaces EXCEPT ![d].pts = pt]
        BY <2>7, <3>1, Zenon
      <3>3. spaces' = [spaces EXCEPT ![d] = [pts |-> pt, map |-> spaces[d].map]]
        <4>1. spaces' = [spaces EXCEPT ![d] = [spaces[d] EXCEPT !.pts = pt]]
          BY <3>2, Zenon
        <4>2. [spaces[d] EXCEPT !.pts = pt] = [pts |-> pt, map |-> spaces[d].map]
          BY <1>6, SpaceWith, Zenon
        <4> QED BY <4>1, <4>2, Zenon
      <3>4. SpaceOK([pts |-> pt, map |-> spaces[d].map])
        <4>1. DOMAIN pt = DOMAIN spaces[d].pts \ {n}
          BY <3>1, Zenon DEF Without
        <4>2. \A u \in DOMAIN spaces[d].map : PdNo(u) # n
          BY <1>8, <2>7, Zenon
        <4> QED BY <1>6, <4>1, <4>2, Zenon DEF SpaceOK
      <3>5. PagesInv' /\ pool' \in [{"kernel", "user"} -> SUBSET Nat]
        BY <1>2, <1>8, <2>7, <3>1, <3>3, FreedTable, ZenonT(30)
      <3> QED BY <3>3, <3>4, <3>5, TablesOK, Zenon
    <2> QED BY <1>8, <2>6, <2>7, Zenon
  <1>9. CASE \E n \in DOMAIN spaces[d].pts :
               LET pages == {u \in DOMAIN spaces[d].map : PdNo(u) = n}
               IN /\ \/ \E u \in pages :
                          /\ Free("user", spaces[d].map[u])
                          /\ spaces' = [spaces EXCEPT ![d].map = Without(@, u)]
                     \/ /\ pages = {} /\ Free("kernel", spaces[d].pts[n])
                        /\ spaces' = [spaces EXCEPT ![d].pts = Without(@, n)]
                  /\ UNCHANGED procs
    BY <1>8, <1>9, Zenon
  <1> QED BY <1>5, <1>7, <1>9, ZenonT(30) DEF pagedir_destroy

=============================================================================
