------------------------- MODULE MCLibraries_proofs -------------------------
(***************************************************************************)
(* Proofs about the parts that have no threads of their own, MemoryPool    *)
(* and MessageStream, and about the two side by side (MCLibraries).        *)
(*                                                                         *)
(* For any classes of the memory manager, any numbers of blocks and        *)
(* objects and any sizes, memory is handed out once, and none is lost.     *)
(* The free list of a pool is described by the blocks that one finds on it *)
(* one after the other: g[0] is the first, and after m of them there are   *)
(* no more.                                                                *)
(*                                                                         *)
(* For messages and answers of any size and any items, what one side       *)
(* writes into a stream the other reads out of it.  The bytes of a message *)
(* are described by where each item ends: pos[j] is behind the j-th one.   *)
(***************************************************************************)
EXTENDS MCLibraries, FiniteSetTheorems, SequenceTheorems, WellFoundedInduction, TLAPS

(* The list has m blocks, g has them in order and each only once, and they *)
(* are those of the n blocks that are not in use.                          *)
Lists(pool, n, inUse, m, g) ==
  /\ m \in 0 .. n
  /\ g \in [0 .. n -> 0 .. n]
  /\ \A k \in 0 .. n : g[k] = 0 <=> m <= k
  /\ \A j, k \in 0 .. n : g[j] = g[k] /\ g[j] # 0 => j = k
  /\ \A b \in 1 .. n : b \notin inUse <=> \E k \in 0 .. n : g[k] = b
  /\ pool.pHeader = g[0]
  /\ \A k \in 0 .. n - 1 : g[k] # 0 => pool.pNext[g[k]] = g[k + 1]

CountsRefs(pool, n, inUse) == \A b \in 1 .. n : pool.nRef[b] = IF b \in inUse THEN 1 ELSE 0

(* A pool of n blocks of which those in inUse are held. *)
PoolInv(pool, n, inUse) ==
  /\ pool \in [pBuf : BOOLEAN, pHeader : 0 .. n, pNext : [1 .. n -> 0 .. n],
               nRef : [1 .. n -> 0 .. 1]]
  /\ inUse \subseteq 1 .. n
  /\ IF pool.pBuf THEN /\ \E m, g : Lists(pool, n, inUse, m, g)
                       /\ CountsRefs(pool, n, inUse)
     ELSE pool = Unmade(n) /\ inUse = {}

(* What the program holds: bytes come from a class or from malloc, objects *)
(* also from their pool.                                                   *)
Piece == [kind : {"bytes", "object"}, size : Nat,
          at : [from : {"mem", "pool", "malloc"}, class : Nat, id : Nat]]

HeldInv ==
  /\ held \subseteq Piece /\ IsFiniteSet(held)
  /\ \A g, h \in held : g # h => g.at # h.at
  /\ \A h \in held :
       /\ h.at.from = "mem" => h.at.class \in Classes /\ h.size <= BlockSize(h.at.class)
       /\ h.at.from = "pool" => h.at.class = 0 /\ h.kind = "object"
       /\ h.at.from = "malloc" => h.at.class = 0

(* The memory manager's pools, and the object pool. *)
ManagerInv ==
  /\ mem = [k \in Classes |-> mem[k]]
  /\ \A k \in Classes : PoolInv(mem[k], nBlockSzie, HeldOf("mem", k))

ObjectInv == PoolInv(obj, nPoolSzie, HeldOf("pool", 0)) /\ obj.pBuf

MemoryInv == ManagerInv /\ ObjectInv /\ HeldInv

-----------------------------------------------------------------------------
(* The least element of a set of numbers. *)
LEMMA LeastNumber ==
  ASSUME NEW T \in SUBSET Nat, T # {}
  PROVE  \E x \in T : \A y \in T : x <= y
<1>1. PICK x \in T : \A y \in T : <<y, x>> \notin OpToRel(<, Nat)
  BY NatLessThanWellFounded, WFMin
<1>2. \A y \in T : y \in Nat /\ x \in Nat  OBVIOUS
<1>3. \A y \in T : ~(y < x)  BY <1>1, <1>2 DEF OpToRel
<1>4. \A y \in T : x <= y  BY <1>2, <1>3
<1>5. QED  BY <1>4

(* What Walk finds is what the list has. *)
LEMMA WalkFinds ==
  ASSUME NEW pool, NEW n \in Nat \ {0}, NEW inUse, NEW m, NEW g, Lists(pool, n, inUse, m, g)
  PROVE  Walk(pool, n) = g
<1> DEFINE IsWalk(w) == w = [k \in 0 .. n |->
                               IF k = 0 THEN pool.pHeader
                               ELSE IF w[k - 1] = 0 THEN 0 ELSE pool.pNext[w[k - 1]]]
<1> DEFINE w == Walk(pool, n)
<1>1. /\ g \in [0 .. n -> 0 .. n] /\ m \in 0 .. n
      /\ \A k \in 0 .. n : g[k] = 0 <=> m <= k
      /\ pool.pHeader = g[0]
      /\ \A k \in 0 .. n - 1 : g[k] # 0 => pool.pNext[g[k]] = g[k + 1]
  BY DEF Lists
<1>2. ASSUME NEW k \in 1 .. n
      PROVE  g[k] = IF g[k - 1] = 0 THEN 0 ELSE pool.pNext[g[k - 1]]
  <2>1. k - 1 \in 0 .. n - 1 /\ k - 1 \in 0 .. n /\ (k - 1) + 1 = k /\ k \in 0 .. n  OBVIOUS
  <2>2. CASE g[k - 1] = 0
    <3>1. m <= k  BY <1>1, <2>1, <2>2
    <3>2. QED  BY <1>1, <2>1, <2>2, <3>1
  <2>3. CASE g[k - 1] # 0  BY <1>1, <2>1, <2>3
  <2>4. QED  BY <2>2, <2>3
<1>3. IsWalk(g)
  <2>1. ASSUME NEW k \in 0 .. n
        PROVE  g[k] = IF k = 0 THEN pool.pHeader
                      ELSE IF g[k - 1] = 0 THEN 0 ELSE pool.pNext[g[k - 1]]
    <3>1. k # 0 => k \in 1 .. n  OBVIOUS
    <3>2. QED  BY <1>1, <1>2, <3>1
  <2>2. g = [k \in 0 .. n |-> g[k]]  BY <1>1
  <2>3. QED  BY <2>1, <2>2
<1>4. IsWalk(w)
  <2>1. w = CHOOSE v : IsWalk(v)  BY DEF Walk
  <2> HIDE DEF IsWalk, w
  <2>2. QED  BY <1>3, <2>1
<1>5. /\ w = [k \in 0 .. n |-> w[k]]
      /\ w[0] = pool.pHeader
      /\ \A k \in 1 .. n : w[k] = IF w[k - 1] = 0 THEN 0 ELSE pool.pNext[w[k - 1]]
  <2> HIDE DEF w
  <2>1. \A k \in 0 .. n : w[k] = IF k = 0 THEN pool.pHeader
                                 ELSE IF w[k - 1] = 0 THEN 0 ELSE pool.pNext[w[k - 1]]
    BY <1>4
  <2>2. w = [k \in 0 .. n |-> w[k]]  BY <1>4
  <2>3. 0 \in 0 .. n /\ \A k \in 1 .. n : k \in 0 .. n /\ k # 0  OBVIOUS
  <2>4. QED  BY <2>1, <2>2, <2>3
<1> HIDE DEF w, IsWalk
<1> DEFINE T == {k \in 0 .. n : w[k] # g[k]}
<1>6. T = {}
  <2>1. ASSUME T # {} PROVE FALSE
    <3>1. T \in SUBSET Nat  OBVIOUS
    <3> HIDE DEF T
    <3>2. PICK x \in T : \A y \in T : x <= y  BY <2>1, <3>1, LeastNumber
    <3>3. x \in 0 .. n /\ w[x] # g[x]  BY DEF T
    <3>4. x # 0  BY <1>1, <1>5, <3>3
    <3>5. x \in 1 .. n /\ x - 1 \in 0 .. n /\ ~(x <= x - 1)  BY <3>3, <3>4
    <3>6. w[x - 1] = g[x - 1]  BY <3>2, <3>5 DEF T
    <3>7. QED  BY <1>2, <1>5, <3>3, <3>5, <3>6
  <2>2. QED  BY <2>1
<1>7. \A k \in 0 .. n : w[k] = g[k]  BY <1>6
<1>8. g = [k \in 0 .. n |-> g[k]]  BY <1>1
<1>9. w = g  BY <1>5, <1>7, <1>8
<1>10. QED  BY <1>9 DEF w

LEMMA ListIsDisjoint ==
  ASSUME NEW n \in Nat \ {0}, NEW pool, NEW inUse, PoolInv(pool, n, inUse)
  PROVE  Disjoint(pool, n, inUse)
<1> SUFFICES ASSUME pool.pBuf PROVE Disjoint(pool, n, inUse)
  BY DEF Disjoint
<1>1. PICK m, g : Lists(pool, n, inUse, m, g)  BY DEF PoolInv
<1>2. Walk(pool, n) = g  BY <1>1, WalkFinds
<1>3. g[n] = 0  BY <1>1 DEF Lists
<1>4. {g[j] : j \in 0 .. n} \ {0} = (1 .. n) \ inUse
  <2>1. \A j \in 0 .. n : g[j] \in 0 .. n  BY <1>1 DEF Lists
  <2>2. \A b \in 1 .. n : b \notin inUse <=> \E k \in 0 .. n : g[k] = b  BY <1>1 DEF Lists
  <2>3. \A b : b \in 1 .. n <=> b \in 0 .. n /\ b # 0  OBVIOUS
  <2>4. QED  BY <2>1, <2>2, <2>3
<1>5. CountsRefs(pool, n, inUse)  BY DEF PoolInv
<1>6. QED  BY <1>2, <1>3, <1>4, <1>5 DEF Disjoint, CountsRefs

-----------------------------------------------------------------------------
(* A new pool: every block is free. *)
LEMMA NewPool ==
  ASSUME NEW n \in Nat \ {0}
  PROVE  /\ PoolInv(Unmade(n), n, {}) /\ Unmade(n).pBuf = FALSE
         /\ PoolInv(initMemory(Unmade(n)), n, {}) /\ initMemory(Unmade(n)).pBuf = TRUE
<1> DEFINE u == Unmade(n)
           p == initMemory(u)
           g == [k \in 0 .. n |-> IF k < n THEN k + 1 ELSE 0]
<1>1. u \in [pBuf : BOOLEAN, pHeader : 0 .. n, pNext : [1 .. n -> 0 .. n], nRef : [1 .. n -> 0 .. 1]]
      /\ u.pBuf = FALSE /\ u.nRef = [b \in 1 .. n |-> 0] /\ DOMAIN u.pNext = 1 .. n
  BY DEF Unmade
<1>2. PoolInv(u, n, {})
  BY <1>1 DEF PoolInv
<1>3. /\ p.pBuf = TRUE /\ p.pHeader = 1 /\ p.nRef = [b \in 1 .. n |-> 0]
      /\ p.pNext = [b \in 1 .. n |-> IF b + 1 \in 1 .. n THEN b + 1 ELSE 0]
      /\ p \in [pBuf : BOOLEAN, pHeader : 0 .. n, pNext : [1 .. n -> 0 .. n], nRef : [1 .. n -> 0 .. 1]]
  <2>1. p = [pBuf |-> TRUE, pHeader |-> 1,
             pNext |-> [b \in 1 .. n |-> IF b + 1 \in 1 .. n THEN b + 1 ELSE 0],
             nRef |-> [b \in 1 .. n |-> 0]]
    <3>1. p = [u EXCEPT !.pBuf = TRUE, !.pHeader = 1,
                        !.pNext = [b \in DOMAIN u.pNext |->
                                     IF b + 1 \in DOMAIN u.pNext THEN b + 1 ELSE 0]]
      BY DEF initMemory
    <3>2. p = [u EXCEPT !.pBuf = TRUE, !.pHeader = 1,
                        !.pNext = [b \in 1 .. n |-> IF b + 1 \in 1 .. n THEN b + 1 ELSE 0]]
      BY <1>1, <3>1
    <3>3. QED  BY <3>2 DEF Unmade
  <2>2. [b \in 1 .. n |-> IF b + 1 \in 1 .. n THEN b + 1 ELSE 0] \in [1 .. n -> 0 .. n]  OBVIOUS
  <2>3. [b \in 1 .. n |-> 0] \in [1 .. n -> 0 .. 1]  OBVIOUS
  <2>4. QED  BY <2>1, <2>2, <2>3
<1> HIDE DEF p, u
<1>4. Lists(p, n, {}, n, g)
  <2>1. n \in 0 .. n /\ g \in [0 .. n -> 0 .. n]  OBVIOUS
  <2>2. \A k \in 0 .. n : g[k] = 0 <=> n <= k  OBVIOUS
  <2>3. \A j, k \in 0 .. n : g[j] = g[k] /\ g[j] # 0 => j = k  OBVIOUS
  <2>4. \A b \in 1 .. n : \E k \in 0 .. n : g[k] = b
    <3> TAKE b \in 1 .. n
    <3>1. b - 1 \in 0 .. n /\ b - 1 < n /\ (b - 1) + 1 = b  OBVIOUS
    <3>2. QED  BY <3>1
  <2>5. p.pHeader = g[0]  BY <1>3
  <2>6. \A k \in 0 .. n - 1 : g[k] # 0 => p.pNext[g[k]] = g[k + 1]
    <3> TAKE k \in 0 .. n - 1
    <3>1. k \in 0 .. n /\ k < n /\ k + 1 \in 1 .. n /\ k + 1 \in 0 .. n  OBVIOUS
    <3>2. g[k] = k + 1  BY <3>1
    <3>3. p.pNext[k + 1] = IF (k + 1) + 1 \in 1 .. n THEN (k + 1) + 1 ELSE 0  BY <1>3, <3>1
    <3>4. g[k + 1] = IF k + 1 < n THEN (k + 1) + 1 ELSE 0  BY <3>1
    <3>5. k + 1 < n <=> (k + 1) + 1 \in 1 .. n  OBVIOUS
    <3>6. QED  BY <3>2, <3>3, <3>4, <3>5
  <2>7. QED  BY <2>1, <2>2, <2>3, <2>4, <2>5, <2>6 DEF Lists
<1>5. CountsRefs(p, n, {})  BY <1>3 DEF CountsRefs
<1>6. PoolInv(p, n, {})  BY <1>3, <1>4, <1>5 DEF PoolInv
<1>7. QED  BY <1>1, <1>2, <1>3, <1>6 DEF p, u

(* Take gives the first block, which nobody has, or says there is none. *)
LEMMA TakesFree ==
  ASSUME NEW n \in Nat \ {0}, NEW pool, NEW inUse, PoolInv(pool, n, inUse), pool.pBuf
  PROVE  LET taken == Take(pool)
         IN  /\ taken.left.pBuf
             /\ taken.block = 0 => PoolInv(taken.left, n, inUse)
             /\ taken.block # 0 => /\ taken.block \in (1 .. n) \ inUse
                                 /\ PoolInv(taken.left, n, inUse \cup {taken.block})
<1> DEFINE taken == Take(pool)
           b == pool.pHeader
           p == taken.left
           used == inUse \cup {b}
<1>1. PICK m, g : Lists(pool, n, inUse, m, g)  BY DEF PoolInv
<1>2. pool \in [pBuf : BOOLEAN, pHeader : 0 .. n, pNext : [1 .. n -> 0 .. n], nRef : [1 .. n -> 0 .. 1]]
      /\ inUse \subseteq 1 .. n /\ CountsRefs(pool, n, inUse)
  BY DEF PoolInv
<1>3. CASE b = 0  BY <1>3 DEF Take
<1>4. CASE b # 0
  <2>1. b \in 1 .. n  BY <1>2, <1>4
  <2>2. p = [pool EXCEPT !.pHeader = pool.pNext[b], !.nRef[b] = 1] /\ taken.block = b
    BY <1>4 DEF Take
  <2>3. /\ p.pHeader = pool.pNext[b] /\ p.pNext = pool.pNext /\ p.pBuf = pool.pBuf
        /\ p.nRef = [pool.nRef EXCEPT ![b] = 1]
        /\ p \in [pBuf : BOOLEAN, pHeader : 0 .. n, pNext : [1 .. n -> 0 .. n], nRef : [1 .. n -> 0 .. 1]]
    <3>1. p = [pBuf |-> pool.pBuf, pHeader |-> pool.pNext[b], pNext |-> pool.pNext,
               nRef |-> [pool.nRef EXCEPT ![b] = 1]]
      BY <1>2, <2>2
    <3>2. pool.pNext[b] \in 0 .. n /\ [pool.nRef EXCEPT ![b] = 1] \in [1 .. n -> 0 .. 1]
      BY <1>2, <2>1
    <3>3. QED  BY <1>2, <3>1, <3>2
  <2> HIDE DEF p, taken
  <2> DEFINE h == [k \in 0 .. n |-> IF k < n THEN g[k + 1] ELSE 0]
  <2>4. /\ m \in 0 .. n /\ g \in [0 .. n -> 0 .. n] /\ g[0] = b
        /\ \A k \in 0 .. n : g[k] = 0 <=> m <= k
        /\ \A j, k \in 0 .. n : g[j] = g[k] /\ g[j] # 0 => j = k
        /\ \A c \in 1 .. n : c \notin inUse <=> \E k \in 0 .. n : g[k] = c
        /\ \A k \in 0 .. n - 1 : g[k] # 0 => pool.pNext[g[k]] = g[k + 1]
    BY <1>1 DEF Lists
  <2>5. 0 \in 0 .. n /\ 0 \in 0 .. n - 1 /\ n \in 0 .. n
        /\ \A k \in 0 .. n : k < n <=> k + 1 \in 0 .. n
    OBVIOUS
  <2>6. m # 0 /\ b \notin inUse  BY <1>4, <2>1, <2>4, <2>5
  <2>7. \A k \in 0 .. n - 1 : k \in 0 .. n /\ k + 1 \in 0 .. n /\ h[k] = g[k + 1]  OBVIOUS
  <2>8. h[n] = 0 /\ g[n] = 0
    <3>1. h[n] = 0  BY <2>5
    <3>2. m <= n  BY <2>4
    <3>3. QED  BY <2>4, <2>5, <3>1, <3>2
  <2>9. h \in [0 .. n -> 0 .. n]
    <3>1. ASSUME NEW k \in 0 .. n PROVE (IF k < n THEN g[k + 1] ELSE 0) \in 0 .. n
      BY <2>4, <2>5
    <3>2. QED  BY <3>1
  <2> HIDE DEF h
  <2>10. \A k \in 0 .. n : k \in 0 .. n - 1 \/ k = n  OBVIOUS
  <2>11. Lists(p, n, used, m - 1, h)
    <3>1. m - 1 \in 0 .. n  BY <2>4, <2>6
    <3>2. \A k \in 0 .. n : h[k] = 0 <=> m - 1 <= k
      <4> TAKE k \in 0 .. n
      <4>1. CASE k \in 0 .. n - 1
        <5>1. g[k + 1] = 0 <=> m <= k + 1  BY <2>4, <2>7, <4>1
        <5>2. m <= k + 1 <=> m - 1 <= k  BY <2>4
        <5>3. QED  BY <2>7, <4>1, <5>1, <5>2
      <4>2. CASE k = n  BY <2>4, <2>8, <4>2
      <4>3. QED  BY <2>10, <4>1, <4>2
    <3>3. \A j, k \in 0 .. n : h[j] = h[k] /\ h[j] # 0 => j = k
      <4> SUFFICES ASSUME NEW j \in 0 .. n, NEW k \in 0 .. n, h[j] = h[k], h[j] # 0
                   PROVE  j = k
        OBVIOUS
      <4>1. j \in 0 .. n - 1 /\ k \in 0 .. n - 1  BY <2>8, <2>10
      <4>2. g[j + 1] = g[k + 1] /\ g[j + 1] # 0 /\ j + 1 \in 0 .. n /\ k + 1 \in 0 .. n
        BY <2>7, <4>1
      <4>3. j + 1 = k + 1  BY <2>4, <4>2
      <4>4. QED  BY <4>3
    <3>4. ASSUME NEW c \in 1 .. n
          PROVE  c \notin used <=> \E k \in 0 .. n : h[k] = c
      <4>1. ASSUME NEW k \in 0 .. n, h[k] = c
            PROVE  c \notin used
        <5>1. k \in 0 .. n - 1  BY <2>8, <2>10, <4>1
        <5>2. g[k + 1] = c /\ k + 1 \in 0 .. n /\ k + 1 # 0  BY <2>7, <4>1, <5>1
        <5>3. c # b  BY <2>4, <2>5, <5>2
        <5>4. QED  BY <2>4, <5>2, <5>3
      <4>2. ASSUME c \notin used
            PROVE  \E k \in 0 .. n : h[k] = c
        <5>1. PICK k \in 0 .. n : g[k] = c  BY <2>4, <4>2
        <5>2. k # 0  BY <2>4, <4>2, <5>1
        <5>3. k - 1 \in 0 .. n - 1 /\ (k - 1) + 1 = k  BY <5>2
        <5>4. h[k - 1] = c /\ k - 1 \in 0 .. n  BY <2>7, <5>1, <5>3
        <5>5. QED  BY <5>4
      <4>3. QED  BY <4>1, <4>2
    <3>5. p.pHeader = h[0]
      <4>1. pool.pNext[g[0]] = g[0 + 1]  BY <1>4, <2>4, <2>5
      <4>2. h[0] = g[0 + 1]  BY <2>5, <2>7
      <4>3. QED  BY <2>3, <2>4, <4>1, <4>2
    <3>6. \A k \in 0 .. n - 1 : h[k] # 0 => p.pNext[h[k]] = h[k + 1]
      <4> SUFFICES ASSUME NEW k \in 0 .. n - 1, h[k] # 0
                   PROVE  pool.pNext[h[k]] = h[k + 1]
        BY <2>3
      <4>1. h[k] = g[k + 1] /\ k + 1 \in 0 .. n  BY <2>7
      <4>2. k + 1 # n  BY <2>8, <4>1
      <4>3. k + 1 \in 0 .. n - 1  BY <4>1, <4>2
      <4>4. pool.pNext[g[k + 1]] = g[(k + 1) + 1] /\ h[k + 1] = g[(k + 1) + 1]
        BY <2>4, <2>7, <4>1, <4>3
      <4>5. QED  BY <4>1, <4>4
    <3>7. QED  BY <2>9, <3>1, <3>2, <3>3, <3>4, <3>5, <3>6 DEF Lists
  <2>12. CountsRefs(p, n, used)
    <3>1. \A c \in 1 .. n : p.nRef[c] = IF c = b THEN 1 ELSE pool.nRef[c]  BY <1>2, <2>3
    <3>2. QED  BY <1>2, <3>1 DEF CountsRefs
  <2>13. PoolInv(p, n, used)  BY <1>2, <2>1, <2>3, <2>11, <2>12 DEF PoolInv
  <2>14. QED  BY <1>4, <2>1, <2>2, <2>3, <2>6, <2>13 DEF p, taken
<1>5. QED  BY <1>3, <1>4

(* allocMemory makes the pool if it must, and takes from it. *)
LEMMA AllocatesFree ==
  ASSUME NEW n \in Nat \ {0}, NEW pool, NEW inUse, PoolInv(pool, n, inUse)
  PROVE  LET taken == allocMemory(pool)
         IN  /\ taken.block = 0 => PoolInv(taken.left, n, inUse)
             /\ taken.block # 0 => /\ taken.block \in (1 .. n) \ inUse
                                 /\ PoolInv(taken.left, n, inUse \cup {taken.block})
<1>1. CASE pool.pBuf  BY <1>1, TakesFree DEF allocMemory
<1>2. CASE ~pool.pBuf
  <2> DEFINE p == initMemory(pool)
  <2>1. pool = Unmade(n) /\ inUse = {}  BY <1>2 DEF PoolInv
  <2>2. PoolInv(p, n, inUse) /\ p.pBuf  BY <2>1, NewPool
  <2>3. allocMemory(pool) = Take(p)  BY <1>2 DEF allocMemory
  <2> HIDE DEF p
  <2>4. QED  BY <2>2, <2>3, TakesFree
<1>3. QED  BY <1>1, <1>2

(* A block that is given back is first in the list.  The list still ends:  *)
(* it has as many blocks as there are not in use.                          *)
LEMMA ReturnsBlock ==
  ASSUME NEW n \in Nat \ {0}, NEW pool, NEW inUse, PoolInv(pool, n, inUse), NEW b \in inUse
  PROVE  /\ pool.pBuf
         /\ PoolInv(freeMemory(pool, b), n, inUse \ {b})
         /\ freeMemory(pool, b).pBuf
<1> DEFINE p == freeMemory(pool, b)
           used == inUse \ {b}
<1>1. pool.pBuf  BY DEF PoolInv
<1>2. PICK m, g : Lists(pool, n, inUse, m, g)  BY <1>1 DEF PoolInv
<1>3. pool \in [pBuf : BOOLEAN, pHeader : 0 .. n, pNext : [1 .. n -> 0 .. n], nRef : [1 .. n -> 0 .. 1]]
      /\ inUse \subseteq 1 .. n /\ CountsRefs(pool, n, inUse) /\ b \in 1 .. n
  BY <1>1 DEF PoolInv
<1>4. pool.nRef[b] = 1  BY <1>3 DEF CountsRefs
<1>5. /\ p.pHeader = b /\ p.pBuf = pool.pBuf
      /\ p.pNext = [pool.pNext EXCEPT ![b] = pool.pHeader]
      /\ p.nRef = [pool.nRef EXCEPT ![b] = 0]
      /\ p \in [pBuf : BOOLEAN, pHeader : 0 .. n, pNext : [1 .. n -> 0 .. n], nRef : [1 .. n -> 0 .. 1]]
  <2>1. p = [pool EXCEPT !.nRef[b] = pool.nRef[b] - 1, !.pNext[b] = pool.pHeader, !.pHeader = b]
    BY <1>3 DEF freeMemory
  <2>2. p = [pBuf |-> pool.pBuf, pHeader |-> b, pNext |-> [pool.pNext EXCEPT ![b] = pool.pHeader],
             nRef |-> [pool.nRef EXCEPT ![b] = pool.nRef[b] - 1]]
    BY <1>3, <2>1
  <2>3. pool.nRef[b] - 1 = 0  BY <1>4
  <2>4. [pool.pNext EXCEPT ![b] = pool.pHeader] \in [1 .. n -> 0 .. n]
        /\ [pool.nRef EXCEPT ![b] = 0] \in [1 .. n -> 0 .. 1]
    BY <1>3
  <2>5. QED  BY <1>3, <2>2, <2>3, <2>4
<1> HIDE DEF p
<1>6. /\ m \in 0 .. n /\ g \in [0 .. n -> 0 .. n] /\ pool.pHeader = g[0]
      /\ \A k \in 0 .. n : g[k] = 0 <=> m <= k
      /\ \A j, k \in 0 .. n : g[j] = g[k] /\ g[j] # 0 => j = k
      /\ \A c \in 1 .. n : c \notin inUse <=> \E k \in 0 .. n : g[k] = c
      /\ \A k \in 0 .. n - 1 : g[k] # 0 => pool.pNext[g[k]] = g[k + 1]
  BY <1>2 DEF Lists
<1>7. \A k \in 0 .. n : g[k] # b  BY <1>3, <1>6
<1>8. m < n
  <2> DEFINE S == 0 .. m - 1
             R == (1 .. n) \ {b}
             f == [k \in S |-> g[k]]
  <2>1. IsFiniteSet(S) /\ Cardinality(S) = m
    <3>1. m \in Nat /\ m - 1 \in Int  BY <1>6
    <3>2. IsFiniteSet(S) /\ Cardinality(S) = IF 0 > m - 1 THEN 0 ELSE (m - 1) - 0 + 1
      BY <3>1, FS_Interval
    <3>3. QED  BY <3>1, <3>2
  <2>2. IsFiniteSet(R) /\ Cardinality(R) = n - 1
    <3>1. IsFiniteSet(1 .. n) /\ Cardinality(1 .. n) = n
      <4>1. IsFiniteSet(1 .. n) /\ Cardinality(1 .. n) = IF 1 > n THEN 0 ELSE n - 1 + 1
        BY FS_Interval
      <4>2. QED  BY <4>1
    <3>2. /\ IsFiniteSet((1 .. n) \ {b})
          /\ Cardinality((1 .. n) \ {b}) =
               IF b \in 1 .. n THEN Cardinality(1 .. n) - 1 ELSE Cardinality(1 .. n)
      BY <3>1, FS_RemoveElement
    <3>3. QED  BY <1>3, <3>1, <3>2
  <2>3. \A k \in S : k \in 0 .. n /\ ~(m <= k)  BY <1>6
  <2>4. f \in [S -> R]
    <3>1. \A k \in S : g[k] \in R  BY <1>6, <1>7, <2>3
    <3>2. QED  BY <3>1
  <2>5. f \in Injection(S, R)
    <3>1. \A j, k \in S : f[j] = f[k] => j = k  BY <1>6, <2>3
    <3>2. DOMAIN f = S  OBVIOUS
    <3>3. IsInjective(f)  BY <3>1, <3>2 DEF IsInjective
    <3>4. QED  BY <2>4, <3>3 DEF Injection
  <2> HIDE DEF S, R, f
  <2>6. Cardinality(S) <= Cardinality(R)  BY <2>2, <2>5, FS_Injection
  <2>7. m <= n - 1  BY <2>1, <2>2, <2>6
  <2>8. QED  BY <1>6, <2>7
<1> DEFINE h == [k \in 0 .. n |-> IF k = 0 THEN b ELSE g[k - 1]]
<1>9. /\ h[0] = b
      /\ \A k \in 1 .. n : k \in 0 .. n /\ k - 1 \in 0 .. n /\ k - 1 \in 0 .. n - 1 /\ h[k] = g[k - 1]
      /\ \A k \in 0 .. n : k = 0 \/ k \in 1 .. n
  OBVIOUS
<1>10. h \in [0 .. n -> 0 .. n]
  <2>1. ASSUME NEW k \in 0 .. n PROVE (IF k = 0 THEN b ELSE g[k - 1]) \in 0 .. n
    BY <1>3, <1>6, <1>9
  <2>2. QED  BY <2>1
<1> HIDE DEF h
<1>11. Lists(p, n, used, m + 1, h)
  <2>1. m + 1 \in 0 .. n  BY <1>6, <1>8
  <2>2. \A k \in 0 .. n : h[k] = 0 <=> m + 1 <= k
    <3> TAKE k \in 0 .. n
    <3>1. CASE k = 0
      <4>1. h[k] # 0  BY <1>3, <1>9, <3>1
      <4>2. ~(m + 1 <= k)  BY <1>6, <3>1
      <4>3. QED  BY <4>1, <4>2
    <3>2. CASE k \in 1 .. n
      <4>1. g[k - 1] = 0 <=> m <= k - 1  BY <1>6, <1>9, <3>2
      <4>2. m <= k - 1 <=> m + 1 <= k  BY <1>6
      <4>3. QED  BY <1>9, <3>2, <4>1, <4>2
    <3>3. QED  BY <1>9, <3>1, <3>2
  <2>3. \A j, k \in 0 .. n : h[j] = h[k] /\ h[j] # 0 => j = k
    <3> SUFFICES ASSUME NEW j \in 0 .. n, NEW k \in 0 .. n, h[j] = h[k], h[j] # 0
                 PROVE  j = k
      OBVIOUS
    <3>1. CASE j = 0 \/ k = 0  BY <1>7, <1>9, <3>1
    <3>2. CASE j \in 1 .. n /\ k \in 1 .. n
      <4>1. g[j - 1] = g[k - 1] /\ g[j - 1] # 0 /\ j - 1 \in 0 .. n /\ k - 1 \in 0 .. n
        BY <1>9, <3>2
      <4>2. j - 1 = k - 1  BY <1>6, <4>1
      <4>3. QED  BY <4>2
    <3>3. QED  BY <1>9, <3>1, <3>2
  <2>4. ASSUME NEW c \in 1 .. n
        PROVE  c \notin used <=> \E k \in 0 .. n : h[k] = c
    <3>1. CASE c = b
      <4>1. 0 \in 0 .. n  OBVIOUS
      <4>2. QED  BY <1>9, <3>1, <4>1
    <3>2. CASE c # b
      <4>1. ASSUME NEW k \in 0 .. n, h[k] = c PROVE c \notin inUse
        <5>1. k \in 1 .. n  BY <1>9, <3>2, <4>1
        <5>2. g[k - 1] = c /\ k - 1 \in 0 .. n  BY <1>9, <4>1, <5>1
        <5>3. QED  BY <1>6, <5>2
      <4>2. ASSUME c \notin inUse PROVE \E k \in 0 .. n : h[k] = c
        <5>1. PICK k \in 0 .. n : g[k] = c  BY <1>6, <4>2
        <5>2. ~(m <= k)  BY <1>6, <5>1
        <5>3. k + 1 \in 1 .. n /\ (k + 1) - 1 = k  BY <1>6, <1>8, <5>2
        <5>4. h[k + 1] = c /\ k + 1 \in 0 .. n  BY <1>9, <5>1, <5>3
        <5>5. QED  BY <5>4
      <4>3. QED  BY <3>2, <4>1, <4>2
    <3>3. QED  BY <3>1, <3>2
  <2>5. p.pHeader = h[0]  BY <1>5, <1>9
  <2>6. \A k \in 0 .. n - 1 : h[k] # 0 => p.pNext[h[k]] = h[k + 1]
    <3> SUFFICES ASSUME NEW k \in 0 .. n - 1, h[k] # 0
                 PROVE  p.pNext[h[k]] = h[k + 1]
      OBVIOUS
    <3>1. k \in 0 .. n /\ k + 1 \in 1 .. n /\ (k + 1) - 1 = k  OBVIOUS
    <3>2. h[k + 1] = g[k]  BY <1>9, <3>1
    <3>3. CASE k = 0
      <4>1. p.pNext[b] = g[0]  BY <1>3, <1>5, <1>6
      <4>2. QED  BY <1>9, <3>2, <3>3, <4>1
    <3>4. CASE k \in 1 .. n
      <4>1. h[k] = g[k - 1] /\ k - 1 \in 0 .. n - 1 /\ k - 1 \in 0 .. n /\ (k - 1) + 1 = k
        BY <1>9, <3>4
      <4>2. g[k - 1] \in 0 .. n /\ g[k - 1] # 0 /\ g[k - 1] # b  BY <1>6, <1>7, <4>1
      <4>3. p.pNext[g[k - 1]] = pool.pNext[g[k - 1]]  BY <1>3, <1>5, <4>2
      <4>4. pool.pNext[g[k - 1]] = g[(k - 1) + 1]  BY <1>6, <4>1, <4>2
      <4>5. QED  BY <3>2, <4>1, <4>3, <4>4
    <3>5. QED  BY <1>9, <3>1, <3>3, <3>4
  <2>7. QED  BY <1>10, <2>1, <2>2, <2>3, <2>4, <2>5, <2>6 DEF Lists
<1>12. CountsRefs(p, n, used)
  <2>1. \A c \in 1 .. n : p.nRef[c] = IF c = b THEN 0 ELSE pool.nRef[c]  BY <1>3, <1>5
  <2>2. QED  BY <1>3, <2>1 DEF CountsRefs
<1>13. PoolInv(p, n, used)  BY <1>1, <1>3, <1>5, <1>11, <1>12 DEF PoolInv
<1>14. QED  BY <1>1, <1>5, <1>13 DEF p

(* The object pool gives a block back in the same way. *)
LEMMA SameFree == \A pool, b : freeObjMemory(pool, b) = freeMemory(pool, b)
BY DEF freeObjMemory, freeMemory

-----------------------------------------------------------------------------
(* The class that serves a size has room for it. *)
LEMMA ClassServes ==
  ASSUME NEW size \in Nat, size <= MaxMemory
  PROVE  szAlloc(size) \in Classes /\ size <= nSzie[szAlloc(size)]
<1> DEFINE T == {k \in Classes : size <= nSzie[k]}
<1>1. /\ nSzie \in Seq(Nat) /\ Len(nSzie) \in Nat /\ Classes = 1 .. Len(nSzie)
      /\ Len(nSzie) # 0 /\ \A k \in Classes : nSzie[k] \in Nat
  BY PoolConstants DEF Classes
<1>2. Len(nSzie) \in T  BY <1>1 DEF MaxMemory
<1>3. T \in SUBSET Nat /\ T # {}  BY <1>1, <1>2
<1>4. PICK k \in T : \A j \in T : k <= j  BY <1>3, LeastNumber
<1>5. \A j \in 1 .. k - 1 : nSzie[j] < size
  <2> TAKE j \in 1 .. k - 1
  <2>1. k \in Nat /\ k <= Len(nSzie)  BY <1>1, <1>4
  <2>2. j \in Classes /\ ~(k <= j)  BY <1>1, <2>1
  <2>3. ~(size <= nSzie[j])  BY <1>4, <2>2
  <2>4. QED  BY <1>1, <2>2, <2>3
<1>6. \E c \in Classes : size <= nSzie[c] /\ \A j \in 1 .. c - 1 : nSzie[j] < size
  BY <1>4, <1>5
<1>7. QED  BY <1>6 DEF szAlloc

LEMMA RoundsUp ==
  ASSUME NEW k \in Classes
  PROVE  nSzie[k] <= BlockSize(k)
<1>1. \A a \in Nat, P \in Nat \ {0} : a <= (a \div P) * P + IF a % P # 0 THEN P ELSE 0
  OBVIOUS
<1>2. nSzie[k] \in Nat /\ PointerSize \in Nat \ {0}  BY PoolConstants DEF Classes
<1>3. QED  BY <1>1, <1>2 DEF BlockSize

(* malloc gives what nobody holds; there is such a piece. *)
LEMMA MallocGivesNew ==
  ASSUME HeldInv, Cardinality(held) < MaxHeld
  PROVE  /\ Malloc.from = "malloc" /\ Malloc.class = 0 /\ Malloc.id \in Nat
         /\ Malloc = Address("malloc", 0, Malloc.id)
         /\ \A h \in held : h.at # Malloc
<1> DEFINE S == 1 .. MaxHeld + 1
           T == {n \in S : n \notin Malloced}
           New1(n) == n \notin Malloced /\ \A i \in 1 .. n - 1 : i \in Malloced
           n == CHOOSE i \in S : New1(i)
<1>1. IsFiniteSet(held) /\ Cardinality(held) \in Nat /\ MaxHeld \in Nat
  BY FS_CardinalityType, PoolConstants DEF HeldInv
<1>2. T # {}
  <2> SUFFICES ASSUME T = {} PROVE FALSE
    OBVIOUS
  <2> DEFINE f == [i \in S |-> CHOOSE h \in held : h.at.from = "malloc" /\ h.at.id = i]
  <2>1. \A i \in S : \E h \in held : h.at.from = "malloc" /\ h.at.id = i  BY DEF Malloced
  <2>2. \A i \in S : f[i] \in held /\ f[i].at.id = i  BY <2>1
  <2>3. DOMAIN f = S /\ f \in [S -> held]  BY <2>2
  <2> HIDE DEF f
  <2>4. f \in Injection(S, held)
    <3>1. IsInjective(f)  BY <2>2, <2>3 DEF IsInjective
    <3>2. QED  BY <2>3, <3>1 DEF Injection
  <2>5. Cardinality(S) = MaxHeld + 1
    <3>1. Cardinality(1 .. MaxHeld + 1) = IF 1 > MaxHeld + 1 THEN 0 ELSE (MaxHeld + 1) - 1 + 1
      <4>1. 1 \in Int /\ MaxHeld + 1 \in Int  BY <1>1
      <4>2. QED  BY <4>1, FS_Interval
    <3>2. QED  BY <1>1, <3>1
  <2> HIDE DEF S
  <2>6. Cardinality(S) <= Cardinality(held)  BY <1>1, <2>4, FS_Injection
  <2>7. QED  BY <1>1, <2>5, <2>6
<1>3. \E i \in S : New1(i)
  <2>1. T \in SUBSET Nat  OBVIOUS
  <2> HIDE DEF T
  <2>2. PICK i \in T : \A j \in T : i <= j  BY <1>2, <2>1, LeastNumber
  <2>3. i \in S /\ i \notin Malloced  BY <2>2 DEF T
  <2>4. \A j \in 1 .. i - 1 : j \in Malloced
    <3> TAKE j \in 1 .. i - 1
    <3>1. j \in S /\ ~(i <= j)  BY <1>1, <2>3
    <3>2. QED  BY <2>2, <3>1 DEF T
  <2>5. QED  BY <2>3, <2>4
<1>4. n \in S /\ n \notin Malloced
  <2> HIDE DEF New1
  <2>1. n \in S /\ New1(n)  BY <1>3
  <2>2. QED  BY <2>1 DEF New1
<1>5. Malloc = Address("malloc", 0, n)  BY DEF Malloc
<1> HIDE DEF n
<1>6. Malloc = [from |-> "malloc", class |-> 0, id |-> n]  BY <1>5 DEF Address
<1>7. \A h \in held : h.at # Malloc  BY <1>4, <1>6 DEF Malloced
<1>8. QED  BY <1>1, <1>4, <1>5, <1>6, <1>7

(* What the program takes and gives back. *)
LEMMA HoldsOneMore ==
  ASSUME HeldInv, NEW kind \in {"bytes", "object"}, NEW size \in Nat,
         NEW from \in {"mem", "pool", "malloc"}, NEW class \in Nat, NEW id \in Nat,
         \A h \in held : h.at # Address(from, class, id),
         from = "mem" => class \in Classes /\ size <= BlockSize(class),
         from = "pool" => class = 0 /\ kind = "object",
         from = "malloc" => class = 0,
         Hold(kind, size, Address(from, class, id))
  PROVE  /\ HeldInv'
         /\ HeldOf(from, class)' = HeldOf(from, class) \cup {id}
         /\ \A f, k : f # from \/ k # class => HeldOf(f, k)' = HeldOf(f, k)
<1> DEFINE at == [from |-> from, class |-> class, id |-> id]
           piece == [kind |-> kind, size |-> size, at |-> at]
<1>1. held' = held \cup {piece} /\ at = Address(from, class, id)  BY DEF Hold, Address
<1>2. piece \in Piece /\ piece.at = at /\ piece.size = size /\ piece.kind = kind
      /\ at.from = from /\ at.class = class /\ at.id = id
  BY DEF Piece
<1> HIDE DEF piece, at
<1>3. held \subseteq Piece /\ IsFiniteSet(held)  BY DEF HeldInv
<1>4. held' \subseteq Piece /\ IsFiniteSet(held')
  <2>1. IsFiniteSet(held \cup {piece})  BY <1>3, FS_AddElement
  <2>2. QED  BY <1>1, <1>2, <1>3, <2>1
<1>5. \A g, h \in held' : g # h => g.at # h.at  BY <1>1, <1>2 DEF HeldInv
<1>6. \A h \in held' :
        /\ h.at.from = "mem" => h.at.class \in Classes /\ h.size <= BlockSize(h.at.class)
        /\ h.at.from = "pool" => h.at.class = 0 /\ h.kind = "object"
        /\ h.at.from = "malloc" => h.at.class = 0
  <2> TAKE h \in held'
  <2>1. CASE h \in held  BY <2>1 DEF HeldInv
  <2>2. CASE h = piece  BY <1>2, <2>2
  <2>3. QED  BY <1>1, <2>1, <2>2
<1>7. HeldInv'  BY <1>4, <1>5, <1>6 DEF HeldInv, Classes, BlockSize
<1>8. HeldOf(from, class)' = HeldOf(from, class) \cup {id}  BY <1>1, <1>2 DEF HeldOf
<1>9. \A f, k : f # from \/ k # class => HeldOf(f, k)' = HeldOf(f, k)
  BY <1>1, <1>2 DEF HeldOf
<1>10. QED  BY <1>7, <1>8, <1>9

LEMMA HoldsOneLess ==
  ASSUME HeldInv, NEW piece \in held, held' = held \ {piece}
  PROVE  /\ HeldInv'
         /\ piece.at.id \in HeldOf(piece.at.from, piece.at.class)
         /\ HeldOf(piece.at.from, piece.at.class)' =
              HeldOf(piece.at.from, piece.at.class) \ {piece.at.id}
         /\ \A f, k : f # piece.at.from \/ k # piece.at.class => HeldOf(f, k)' = HeldOf(f, k)
<1>1. held \subseteq Piece /\ IsFiniteSet(held)  BY DEF HeldInv
<1>2. IsFiniteSet(held')  BY <1>1, FS_RemoveElement
<1>3. HeldInv'  BY <1>1, <1>2 DEF HeldInv, Classes, BlockSize
<1>4. ASSUME NEW h \in held, h.at.from = piece.at.from, h.at.class = piece.at.class,
             h.at.id = piece.at.id
      PROVE  h = piece
  <2>1. h.at \in [from : {"mem", "pool", "malloc"}, class : Nat, id : Nat]
        /\ piece.at \in [from : {"mem", "pool", "malloc"}, class : Nat, id : Nat]
    BY <1>1 DEF Piece
  <2>2. h.at = piece.at  BY <1>4, <2>1
  <2>3. QED  BY <2>2 DEF HeldInv
<1>5. piece.at.id \in HeldOf(piece.at.from, piece.at.class)  BY DEF HeldOf
<1>6. HeldOf(piece.at.from, piece.at.class)' = HeldOf(piece.at.from, piece.at.class) \ {piece.at.id}
  BY <1>4 DEF HeldOf
<1>7. \A f, k : f # piece.at.from \/ k # piece.at.class => HeldOf(f, k)' = HeldOf(f, k)
  BY DEF HeldOf
<1>8. QED  BY <1>3, <1>5, <1>6, <1>7

-----------------------------------------------------------------------------
(* The memory manager, for operator new and for an object that its pool    *)
(* has no block for.                                                       *)
LEMMA AllocKeeps ==
  ASSUME ManagerInv, HeldInv, Cardinality(held) < MaxHeld,
         NEW kind \in {"bytes", "object"}, NEW size \in Nat, allocMem(kind, size)
  PROVE  ManagerInv' /\ HeldInv' /\ HeldOf("pool", 0)' = HeldOf("pool", 0)
<1>1. nBlockSzie \in Nat \ {0}  BY PoolConstants
<1>2. ASSUME Hold(kind, size, Malloc)
      PROVE  /\ HeldInv' /\ HeldOf("pool", 0)' = HeldOf("pool", 0)
             /\ \A k : HeldOf("mem", k)' = HeldOf("mem", k)
  <2> DEFINE id == Malloc.id
  <2>1. id \in Nat /\ Malloc = Address("malloc", 0, id) /\ \A h \in held : h.at # Malloc
    BY MallocGivesNew
  <2> HIDE DEF id
  <2>2. Hold(kind, size, Address("malloc", 0, id))
        /\ \A h \in held : h.at # Address("malloc", 0, id)
    BY <1>2, <2>1
  <2>3. 0 \in Nat /\ "malloc" \in {"mem", "pool", "malloc"} /\ "malloc" # "mem" /\ "malloc" # "pool"
    OBVIOUS
  <2>4. /\ HeldInv'
        /\ \A f, k : f # "malloc" \/ k # 0 => HeldOf(f, k)' = HeldOf(f, k)
    BY <2>1, <2>2, <2>3, HoldsOneMore
  <2>5. QED  BY <2>3, <2>4
<1>3. CASE ~(size <= MaxMemory)
  <2>1. Hold(kind, size, Malloc) /\ UNCHANGED mem  BY <1>3 DEF allocMem
  <2>2. ManagerInv'  BY <1>2, <2>1 DEF ManagerInv, Classes
  <2>3. QED  BY <1>2, <2>1, <2>2
<1>4. CASE size <= MaxMemory
  <2> DEFINE k == szAlloc(size)
             taken == allocMemory(mem[k])
             used == HeldOf("mem", k)
  <2>1. k \in Classes /\ size <= nSzie[k]  BY <1>4, ClassServes
  <2>2. k \in Nat /\ size <= BlockSize(k)
    <3>1. nSzie[k] <= BlockSize(k)  BY <2>1, RoundsUp
    <3>2. k \in Nat /\ nSzie[k] \in Nat /\ PointerSize \in Nat \ {0}
      BY <2>1, PoolConstants DEF Classes
    <3>3. BlockSize(k) \in Int  BY <3>2 DEF BlockSize
    <3> HIDE DEF k
    <3>4. QED  BY <2>1, <3>1, <3>2, <3>3
  <2>3. mem' = [mem EXCEPT ![k] = taken.left]
        /\ Hold(kind, size, IF taken.block = 0 THEN Malloc ELSE Address("mem", k, taken.block))
    BY <1>4 DEF allocMem
  <2>4. PoolInv(mem[k], nBlockSzie, used)  BY <2>1 DEF ManagerInv
  <2>5. /\ taken.block = 0 => PoolInv(taken.left, nBlockSzie, used)
        /\ taken.block # 0 => /\ taken.block \in (1 .. nBlockSzie) \ used
                            /\ PoolInv(taken.left, nBlockSzie, used \cup {taken.block})
    BY <1>1, <2>4, AllocatesFree
  <2> HIDE DEF k, taken, used
  <2>6. /\ mem' = [j \in Classes |-> mem'[j]]
        /\ mem'[k] = taken.left /\ \A j \in Classes : j # k => mem'[j] = mem[j]
    BY <2>1, <2>3 DEF ManagerInv
  <2>7. CASE taken.block = 0
    <3>1. Hold(kind, size, Malloc)  BY <2>3, <2>7
    <3>2. \A j \in Classes : PoolInv(mem'[j], nBlockSzie, HeldOf("mem", j)')
      <4> TAKE j \in Classes
      <4>1. HeldOf("mem", j)' = HeldOf("mem", j)  BY <1>2, <3>1
      <4>2. CASE j = k  BY <2>5, <2>6, <2>7, <4>1, <4>2 DEF used
      <4>3. CASE j # k  BY <2>6, <4>1, <4>3 DEF ManagerInv
      <4>4. QED  BY <4>2, <4>3
    <3>3. ManagerInv'  BY <2>6, <3>2 DEF ManagerInv, Classes
    <3>4. QED  BY <1>2, <3>1, <3>3
  <2>8. CASE taken.block # 0
    <3> DEFINE b == taken.block
    <3>1. b \in Nat /\ b \notin used /\ Hold(kind, size, Address("mem", k, b))
      BY <2>3, <2>5, <2>8
    <3> HIDE DEF b
    <3>2. \A h \in held : h.at # Address("mem", k, b)
      BY <3>1 DEF Address, HeldOf, used
    <3>3. "mem" \in {"mem", "pool", "malloc"} /\ "mem" # "pool" /\ "mem" # "malloc"  OBVIOUS
    <3>4. /\ HeldInv'
          /\ HeldOf("mem", k)' = HeldOf("mem", k) \cup {b}
          /\ \A f, c : f # "mem" \/ c # k => HeldOf(f, c)' = HeldOf(f, c)
      BY <2>1, <2>2, <3>1, <3>2, <3>3, HoldsOneMore
    <3>5. \A j \in Classes : PoolInv(mem'[j], nBlockSzie, HeldOf("mem", j)')
      <4> TAKE j \in Classes
      <4>1. CASE j = k  BY <2>5, <2>6, <2>8, <3>4, <4>1 DEF used, b
      <4>2. CASE j # k
        <5>1. HeldOf("mem", j)' = HeldOf("mem", j)  BY <3>4, <4>2
        <5>2. QED  BY <2>6, <4>2, <5>1 DEF ManagerInv
      <4>3. QED  BY <4>1, <4>2
    <3>6. ManagerInv'  BY <2>6, <3>5 DEF ManagerInv, Classes
    <3>7. QED  BY <3>3, <3>4, <3>6
  <2>9. QED  BY <2>7, <2>8
<1>5. QED  BY <1>3, <1>4

(* What did not come from the object pool goes back where it came from.    *)
LEMMA FreeKeeps ==
  ASSUME ManagerInv, HeldInv, NEW piece \in held, piece.at.from # "pool", freeMem(piece.at),
         held' = held \ {piece}
  PROVE  ManagerInv' /\ HeldInv' /\ HeldOf("pool", 0)' = HeldOf("pool", 0)
<1> DEFINE k == piece.at.class
           b == piece.at.id
<1>1. nBlockSzie \in Nat \ {0}  BY PoolConstants
<1>2. /\ HeldInv'
      /\ b \in HeldOf(piece.at.from, k)
      /\ HeldOf(piece.at.from, k)' = HeldOf(piece.at.from, k) \ {b}
      /\ \A f, c : f # piece.at.from \/ c # k => HeldOf(f, c)' = HeldOf(f, c)
  BY HoldsOneLess
<1>3. HeldOf("pool", 0)' = HeldOf("pool", 0)  BY <1>2
<1>4. CASE piece.at.from = "malloc"
  <2>1. mem' = mem  BY <1>4 DEF freeMem
  <2>2. \A c \in Classes : HeldOf("mem", c)' = HeldOf("mem", c)  BY <1>2, <1>4
  <2>3. ManagerInv'  BY <2>1, <2>2 DEF ManagerInv, Classes
  <2>4. QED  BY <1>2, <1>3, <2>3
<1>5. CASE piece.at.from # "malloc"
  <2>1. piece.at.from = "mem" /\ k \in Classes  BY <1>5 DEF HeldInv, Piece
  <2>2. mem' = [mem EXCEPT ![k] = freeMemory(mem[k], b)]  BY <1>5 DEF freeMem
  <2>3. PoolInv(mem[k], nBlockSzie, HeldOf("mem", k))  BY <2>1 DEF ManagerInv
  <2>4. b \in HeldOf("mem", k) /\ HeldOf("mem", k)' = HeldOf("mem", k) \ {b}  BY <1>2, <2>1
  <2> HIDE DEF k, b
  <2>5. PoolInv(freeMemory(mem[k], b), nBlockSzie, HeldOf("mem", k) \ {b})
    BY <1>1, <2>3, <2>4, ReturnsBlock
  <2>6. /\ mem' = [j \in Classes |-> mem'[j]]
        /\ mem'[k] = freeMemory(mem[k], b) /\ \A j \in Classes : j # k => mem'[j] = mem[j]
    BY <2>1, <2>2 DEF ManagerInv
  <2>7. \A j \in Classes : PoolInv(mem'[j], nBlockSzie, HeldOf("mem", j)')
    <3> TAKE j \in Classes
    <3>1. CASE j = k  BY <2>4, <2>5, <2>6, <3>1
    <3>2. CASE j # k
      <4>1. HeldOf("mem", j)' = HeldOf("mem", j)  BY <1>2, <3>2
      <4>2. QED  BY <2>6, <3>2, <4>1 DEF ManagerInv
    <3>3. QED  BY <3>1, <3>2
  <2>8. ManagerInv'  BY <2>6, <2>7 DEF ManagerInv, Classes
  <2>9. QED  BY <1>2, <1>3, <2>8
<1>6. QED  BY <1>4, <1>5

-----------------------------------------------------------------------------
LEMMA MemoryStarts == MemoryInit => MemoryInv
<1> SUFFICES ASSUME MemoryInit PROVE MemoryInv
  OBVIOUS
<1>1. nBlockSzie \in Nat \ {0} /\ nPoolSzie \in Nat \ {0}  BY PoolConstants
<1>2. held = {} /\ \A f, k : HeldOf(f, k) = {}  BY DEF MemoryInit, HeldOf
<1>3. HeldInv  BY <1>2, FS_EmptySet DEF HeldInv
<1>4. PoolInv(obj, nPoolSzie, {}) /\ obj.pBuf  BY <1>1, NewPool DEF MemoryInit
<1>5. PoolInv(Unmade(nBlockSzie), nBlockSzie, {})  BY <1>1, NewPool
<1>6. /\ mem = [k \in Classes |-> mem[k]]
      /\ \A k \in Classes : PoolInv(mem[k], nBlockSzie, {})
  BY <1>5 DEF MemoryInit
<1>7. QED  BY <1>2, <1>3, <1>4, <1>6 DEF MemoryInv, ManagerInv, ObjectInv

LEMMA MemoryStep ==
  ASSUME MemoryInv, [MemoryNext]_poolVars
  PROVE  MemoryInv'
<1>1. ManagerInv /\ ObjectInv /\ HeldInv /\ nPoolSzie \in Nat \ {0}
  BY PoolConstants DEF MemoryInv
<1>2. ASSUME UNCHANGED obj, HeldOf("pool", 0)' = HeldOf("pool", 0)
      PROVE  ObjectInv'
  BY <1>1, <1>2 DEF ObjectInv
<1>3. CASE \E size \in Sizes : New(size)
  <2>1. PICK size \in Sizes : New(size)  BY <1>3
  <2>2. size \in Nat /\ Cardinality(held) < MaxHeld /\ allocMem("bytes", size) /\ UNCHANGED obj
    BY <2>1, PoolConstants DEF New
  <2>3. ManagerInv' /\ HeldInv' /\ HeldOf("pool", 0)' = HeldOf("pool", 0)
    BY <1>1, <2>2, AllocKeeps
  <2>4. QED  BY <1>2, <2>2, <2>3 DEF MemoryInv
<1>4. CASE createObject
  <2> DEFINE taken == allocObjMemory(obj)
             used == HeldOf("pool", 0)
  <2>1. /\ Cardinality(held) < MaxHeld /\ obj' = taken.left
        /\ IF taken.block = 0 THEN allocMem("object", ObjectSize + HeaderSize)
           ELSE /\ Hold("object", ObjectSize, Address("pool", 0, taken.block))
                /\ UNCHANGED mem
    BY <1>4 DEF createObject
  <2>2. /\ taken.left.pBuf
        /\ taken.block = 0 => PoolInv(taken.left, nPoolSzie, used)
        /\ taken.block # 0 => /\ taken.block \in (1 .. nPoolSzie) \ used
                            /\ PoolInv(taken.left, nPoolSzie, used \cup {taken.block})
    BY <1>1, TakesFree DEF ObjectInv, allocObjMemory
  <2> HIDE DEF taken, used
  <2>3. CASE taken.block = 0
    <3>1. ObjectSize + HeaderSize \in Nat /\ allocMem("object", ObjectSize + HeaderSize)
      BY <2>1, <2>3, PoolConstants
    <3>2. ManagerInv' /\ HeldInv' /\ HeldOf("pool", 0)' = HeldOf("pool", 0)
      BY <1>1, <2>1, <3>1, AllocKeeps
    <3>3. ObjectInv'  BY <2>1, <2>2, <2>3, <3>2 DEF ObjectInv, used
    <3>4. QED  BY <3>2, <3>3 DEF MemoryInv
  <2>4. CASE taken.block # 0
    <3> DEFINE b == taken.block
    <3>1. b \in Nat /\ b \notin used /\ Hold("object", ObjectSize, Address("pool", 0, b))
          /\ ObjectSize \in Nat /\ UNCHANGED mem
      BY <2>1, <2>2, <2>4, PoolConstants
    <3> HIDE DEF b
    <3>2. \A h \in held : h.at # Address("pool", 0, b)
      BY <3>1 DEF Address, HeldOf, used
    <3>3. "pool" \in {"mem", "pool", "malloc"} /\ "pool" # "mem" /\ "pool" # "malloc" /\ 0 \in Nat
          /\ "object" \in {"bytes", "object"}
      OBVIOUS
    <3>4. /\ HeldInv'
          /\ HeldOf("pool", 0)' = HeldOf("pool", 0) \cup {b}
          /\ \A f, c : f # "pool" \/ c # 0 => HeldOf(f, c)' = HeldOf(f, c)
      BY <1>1, <3>1, <3>2, <3>3, HoldsOneMore
    <3>5. ObjectInv'  BY <2>1, <2>2, <2>4, <3>4 DEF ObjectInv, used, b
    <3>6. \A c \in Classes : HeldOf("mem", c)' = HeldOf("mem", c)  BY <3>3, <3>4
    <3>7. ManagerInv'  BY <1>1, <3>1, <3>6 DEF ManagerInv, Classes
    <3>8. QED  BY <3>4, <3>5, <3>7 DEF MemoryInv
  <2>5. QED  BY <2>3, <2>4
<1>5. CASE \E piece \in held : Delete(piece)
  <2>1. PICK piece \in held : Delete(piece)  BY <1>5
  <2>2. piece.at.from # "pool" /\ freeMem(piece.at) /\ held' = held \ {piece} /\ UNCHANGED obj
    BY <1>1, <2>1 DEF Delete, HeldInv
  <2>3. ManagerInv' /\ HeldInv' /\ HeldOf("pool", 0)' = HeldOf("pool", 0)
    BY <1>1, <2>2, FreeKeeps
  <2>4. QED  BY <1>2, <2>2, <2>3 DEF MemoryInv
<1>6. CASE \E piece \in held : destroyObject(piece)
  <2>1. PICK piece \in held : destroyObject(piece)  BY <1>6
  <2>2. held' = held \ {piece}  BY <2>1 DEF destroyObject
  <2>3. CASE piece.at.from # "pool"
    <3>1. freeMem(piece.at) /\ UNCHANGED obj  BY <2>1, <2>3 DEF destroyObject
    <3>2. ManagerInv' /\ HeldInv' /\ HeldOf("pool", 0)' = HeldOf("pool", 0)
      BY <1>1, <2>2, <2>3, <3>1, FreeKeeps
    <3>3. QED  BY <1>2, <3>1, <3>2 DEF MemoryInv
  <2>4. CASE piece.at.from = "pool"
    <3> DEFINE b == piece.at.id
    <3>1. obj' = freeMemory(obj, b) /\ UNCHANGED mem
      BY <2>1, <2>4, SameFree DEF destroyObject
    <3>2. piece.at.class = 0  BY <1>1, <2>4 DEF HeldInv
    <3>3. /\ HeldInv'
          /\ b \in HeldOf("pool", 0) /\ HeldOf("pool", 0)' = HeldOf("pool", 0) \ {b}
          /\ \A f, c : f # "pool" \/ c # 0 => HeldOf(f, c)' = HeldOf(f, c)
      BY <1>1, <2>2, <2>4, <3>2, HoldsOneLess
    <3> HIDE DEF b
    <3>4. PoolInv(freeMemory(obj, b), nPoolSzie, HeldOf("pool", 0) \ {b}) /\ freeMemory(obj, b).pBuf
      BY <1>1, <3>3, ReturnsBlock DEF ObjectInv
    <3>5. ObjectInv'  BY <3>1, <3>3, <3>4 DEF ObjectInv
    <3>6. \A c \in Classes : HeldOf("mem", c)' = HeldOf("mem", c)
      <4>1. "mem" # "pool"  OBVIOUS
      <4>2. QED  BY <3>3, <4>1
    <3>7. ManagerInv'  BY <1>1, <3>1, <3>6 DEF ManagerInv, Classes
    <3>8. QED  BY <3>3, <3>5, <3>7 DEF MemoryInv
  <2>5. QED  BY <2>3, <2>4
<1>7. CASE UNCHANGED poolVars
  <2>1. mem' = mem /\ obj' = obj /\ held' = held  BY <1>7 DEF poolVars
  <2>2. \A f, k : HeldOf(f, k)' = HeldOf(f, k)  BY <2>1 DEF HeldOf
  <2>3. HeldInv'  BY <1>1, <2>1 DEF HeldInv, Classes, BlockSize
  <2>4. ManagerInv'  BY <1>1, <2>1, <2>2 DEF ManagerInv, Classes
  <2>5. ObjectInv'  BY <1>1, <2>1, <2>2 DEF ObjectInv
  <2>6. QED  BY <2>3, <2>4, <2>5 DEF MemoryInv
<1>8. QED  BY <1>3, <1>4, <1>5, <1>6, <1>7 DEF MemoryNext

(* Each pool's free list is a list of just the blocks that nobody holds,   *)
(* and what is held is held once, whatever is taken and given back.        *)
THEOREM PoolsAreLists == MemorySpec => []MemoryInv
BY MemoryStarts, MemoryStep, PTL DEF MemorySpec

(* No allocation gives out memory that is held, none is lost, every piece  *)
(* is large enough, and the assertions on nRef in freeMemory and           *)
(* freeObjMemory hold.                                                     *)
THEOREM MemoryHandedOutOnce == MemorySpec => []HandedOutOnce
<1>1. MemoryInv => HandedOutOnce
  <2> SUFFICES ASSUME MemoryInv PROVE HandedOutOnce
    OBVIOUS
  <2>1. nBlockSzie \in Nat \ {0} /\ nPoolSzie \in Nat \ {0}  BY PoolConstants
  <2>2. \A k \in Classes : Disjoint(mem[k], nBlockSzie, HeldOf("mem", k))
    BY <2>1, ListIsDisjoint DEF MemoryInv, ManagerInv
  <2>3. Disjoint(obj, nPoolSzie, HeldOf("pool", 0))
    BY <2>1, ListIsDisjoint DEF MemoryInv, ObjectInv
  <2>4. QED  BY <2>2, <2>3 DEF HandedOutOnce, MemoryInv, HeldInv
<1>2. QED  BY <1>1, PoolsAreLists, PTL

(* The pools' fields have their types: nRef is 0 or 1. *)
THEOREM MemoryTypes == MemorySpec => []MemoryTypeOK
<1>1. MemoryInv => MemoryTypeOK
  <2> SUFFICES ASSUME MemoryInv PROVE MemoryTypeOK
    OBVIOUS
  <2>1. \A pool, n, inUse : PoolInv(pool, n, inUse) => PoolTypeOK(pool, n)
    BY DEF PoolInv, PoolTypeOK
  <2>2. DOMAIN mem = Classes /\ \A k \in Classes : PoolTypeOK(mem[k], nBlockSzie)
    BY <2>1 DEF MemoryInv, ManagerInv
  <2>3. PoolTypeOK(obj, nPoolSzie)  BY <2>1 DEF MemoryInv, ObjectInv
  <2>4. \A piece \in held : piece.kind \in {"bytes", "object"} /\ piece.size \in Nat
    BY DEF MemoryInv, HeldInv, Piece
  <2>5. QED  BY <2>2, <2>3, <2>4 DEF MemoryTypeOK
<1>2. QED  BY <1>1, PoolsAreLists, PTL

-----------------------------------------------------------------------------
ByteType == {b \in [value : Int, k : Nat, of : Nat] : b.k <= b.of}

(* A stream of n bytes. *)
StreamOK(s, n) ==
  /\ s \in [buff : Seq(ByteType), write : Nat, read : Nat]
  /\ Len(s.buff) = n /\ s.write <= n /\ s.read <= n

ItemType ==
  {item \in [kind : Kinds, type : DOMAIN SizeOf, values : Seq(Nat)] :
     /\ item.kind = "value" => Len(item.values) = 1
     /\ item.kind # "value" => Len(item.values) <= MaxElements
     /\ item.kind = "string" => item.type = "int8"}

(* Behind the first at bytes are those of the value. *)
ValueAt(buff, at, value, size) == \A k \in 1 .. size : buff[at + k] = Byte(value, k, size)

ElementsAt(buff, at, values, size) ==
  \A k \in 1 .. Len(values) : ValueAt(buff, at + (k - 1) * size, values[k], size)

ItemSize(item) ==
  IF item.kind = "value" THEN SizeOf[item.type]
  ELSE SizeOf["uint32"] + Len(item.values) * SizeOf[item.type]

ItemAt(buff, at, item) ==
  IF item.kind = "value" THEN ValueAt(buff, at, item.values[1], SizeOf[item.type])
  ELSE /\ ValueAt(buff, at, Len(item.values), SizeOf["uint32"])
       /\ ElementsAt(buff, at + SizeOf["uint32"], item.values, SizeOf[item.type])

(* The items follow one another, from behind the length and the command of *)
(* the message to the byte that is the last one: pos says where each ends. *)
Layout(buff, its, pos, last) ==
  /\ pos \in [0 .. Len(its) -> 4 .. last]
  /\ pos[0] = 4 /\ pos[Len(its)] = last
  /\ \A j \in 1 .. Len(its) :
       pos[j] = pos[j - 1] + ItemSize(its[j]) /\ ItemAt(buff, pos[j - 1], its[j])

Holds(buff, its, last) == \E pos : Layout(buff, its, pos, last)
(* What has to be in the array or the string for it to be read. *)
Readable(item, len) ==
  /\ item.kind = "array" => Len(item.values) <= len
  /\ item.kind = "string" => item.values # << >>

EchoItems == [j \in 1 .. Len(echoed) |-> items[echoed[j]]]

TypesInv ==
  /\ phase \in {"writing", "reading", "lost", "answering", "done"}
  /\ StreamOK(writer, MessageSize) /\ StreamOK(reader, Len(reader.buff))
  /\ StreamOK(answer, AnswerSize)
  /\ items \in Seq(ItemType) /\ Len(items) <= MaxWrites
  /\ tries \in 0 .. MaxWrites
  /\ got \in Seq(Seq(Nat)) /\ Len(got) <= Len(items)
  /\ echoed \in Seq(1 .. Len(items))

(* The sender's stream holds the items. *)
WriterInv ==
  phase = "writing" =>
    /\ Len(items) <= tries /\ got = << >>
    /\ Holds(writer.buff, items, writer.write)

(* The reader's holds them too, and the reader is behind the last one it   *)
(* has read, unless it is lost.                                            *)
ReaderInv ==
  phase # "writing" =>
    /\ writer.write = Len(reader.buff)
    /\ \E pos : /\ Layout(reader.buff, items, pos, Len(reader.buff))
                /\ phase # "lost" => reader.read = pos[Len(got)]

(* What it has read. *)
GotInv ==
  /\ \A j \in 1 .. Len(got) :
       phase # "lost" \/ j # Len(got) =>
         got[j] = items[j].values /\ Readable(items[j], ArraySize)
  /\ phase = "lost" => got # << >> /\ got[Len(got)] = << >>
  /\ phase \in {"answering", "done"} => Len(got) = Len(items)
  /\ phase = "answering" => tries <= Len(items)

(* The answer holds the items that have been put into it. *)
AnswerInv ==
  /\ phase \in {"writing", "reading", "lost"} => echoed = << >>
  /\ Holds(answer.buff, EchoItems, answer.write)
  /\ phase = "done" => ValueAt(answer.buff, 0, answer.write, 2)

StreamInv == TypesInv /\ WriterInv /\ ReaderInv /\ GotInv /\ AnswerInv

-----------------------------------------------------------------------------
LEMMA SizesOfTypes ==
  /\ \A type \in DOMAIN SizeOf : SizeOf[type] \in {1, 2, 4, 8}
  /\ SizeOf["uint16"] = 2 /\ SizeOf["int16"] = 2 /\ SizeOf["uint32"] = 4 /\ SizeOf["int8"] = 1
  /\ "uint16" \in DOMAIN SizeOf /\ "int16" \in DOMAIN SizeOf /\ "uint32" \in DOMAIN SizeOf
  /\ "int8" \in DOMAIN SizeOf
BY DEF SizeOf

LEMMA Products ==
  ASSUME NEW n \in {1, 2, 4, 8}
  PROVE  /\ \A m \in Nat : m * n \in Nat /\ (m + 1) * n = m * n + n /\ m <= m * n
         /\ \A m \in Nat : \A k \in 1 .. m : (k - 1) * n \in Nat /\ (k - 1) * n + n <= m * n
         /\ 0 * n = 0
<1>1. CASE n = 1  BY <1>1
<1>2. CASE n = 2  BY <1>2
<1>3. CASE n = 4  BY <1>3
<1>4. CASE n = 8  BY <1>4
<1>5. QED  BY <1>1, <1>2, <1>3, <1>4

LEMMA AllNumbers ==
  ASSUME NEW T, 0 \in T, \A k \in Nat : k \in T => k + 1 \in T
  PROVE  \A n \in Nat : n \in T
<1> SUFFICES ASSUME Nat \ T # {} PROVE FALSE  OBVIOUS
<1>1. PICK x \in Nat \ T : \A y \in Nat \ T : <<y, x>> \notin OpToRel(<, Nat)
  <2>1. Nat \ T \in SUBSET Nat  OBVIOUS
  <2>2. QED  BY <2>1, NatLessThanWellFounded, WFMin
<1>2. x # 0 /\ x - 1 \in Nat /\ x - 1 < x  OBVIOUS
<1>3. x - 1 \in T  BY <1>1, <1>2 DEF OpToRel
<1>4. (x - 1) + 1 \in T  BY <1>2, <1>3
<1>5. QED  BY <1>4

LEMMA BytesOfValue ==
  ASSUME NEW value \in Int, NEW n \in {1, 2, 4, 8}
  PROVE  /\ Bytes(value, n) \in Seq(ByteType) /\ Len(Bytes(value, n)) = n
         /\ \A k \in 1 .. n : Bytes(value, n)[k] = Byte(value, k, n)
<1>1. n \in Nat  OBVIOUS
<1>2. ASSUME NEW k \in 1 .. n PROVE Byte(value, k, n) \in ByteType
  BY <1>1, <1>2 DEF Byte, ByteType
<1>3. Bytes(value, n) \in [1 .. n -> ByteType]  BY <1>2 DEF Bytes
<1>4. Bytes(value, n) \in Seq(ByteType)  BY <1>1, <1>3
<1>5. Len(Bytes(value, n)) = n  BY <1>1, <1>4, LenProperties DEF Bytes
<1>6. QED  BY <1>4, <1>5 DEF Bytes

(* The value that is found where one has been put. *)
LEMMA ValueFound ==
  ASSUME NEW buff \in Seq(ByteType), NEW at \in Nat, NEW value \in Int, NEW n \in {1, 2, 4, 8},
         at + n <= Len(buff), ValueAt(buff, at, value, n)
  PROVE  ValueOf(SubSeq(buff, at + 1, at + n)) = value
<1> DEFINE bytes == SubSeq(buff, at + 1, at + n)
<1>1. Len(buff) \in Nat /\ n \in Nat  BY LenProperties
<1>2. \A i \in at + 1 .. at + n : buff[i] \in ByteType  BY <1>1, ElementOfSeq
<1>3. /\ bytes \in Seq(ByteType) /\ Len(bytes) = n
      /\ \A i \in 1 .. n : bytes[i] = buff[at + i]
  <2>1. at + 1 \in Int /\ at + n \in Int  BY <1>1
  <2> DEFINE a == at + 1
             b == at + n
  <2>2. \A i \in a .. b : buff[i] \in ByteType  BY <1>2
  <2>3. a \in Int /\ b \in Int /\ a <= b /\ b - a + 1 = n /\ \A i \in 1 .. n : a + i - 1 = at + i
    BY <1>1
  <2> HIDE DEF a, b
  <2>4. /\ SubSeq(buff, a, b) \in Seq(ByteType)
        /\ Len(SubSeq(buff, a, b)) = IF a <= b THEN b - a + 1 ELSE 0
        /\ \A i \in 1 .. b - a + 1 : SubSeq(buff, a, b)[i] = buff[a + i - 1]
    BY <2>2, <2>3, SubSeqProperties
  <2>5. SubSeq(buff, a, b) = bytes  BY DEF a, b
  <2> HIDE DEF bytes
  <2>6. Len(bytes) = n  BY <2>3, <2>4, <2>5
  <2>7. \A i \in 1 .. n : bytes[i] = buff[at + i]  BY <2>3, <2>4, <2>5
  <2>8. QED  BY <2>4, <2>5, <2>6, <2>7
<1> HIDE DEF bytes
<1>4. \A i \in 1 .. n : bytes[i] = Byte(value, i, n)  BY <1>3 DEF ValueAt
<1>5. bytes = Bytes(value, n)
  <2>1. Bytes(value, n) \in Seq(ByteType) /\ Len(Bytes(value, n)) = n
        /\ \A k \in 1 .. n : Bytes(value, n)[k] = Byte(value, k, n)
    BY BytesOfValue
  <2>2. QED  BY <1>3, <1>4, <2>1, SeqEqual
<1>6. bytes[1].value = value
  <2>1. 1 \in 1 .. n  BY <1>1
  <2>2. bytes[1] = Byte(value, 1, n)  BY <1>4, <2>1
  <2>3. QED  BY <2>2 DEF Byte
<1>7. QED  BY <1>3, <1>5, <1>6 DEF ValueOf, bytes

(* What a stream is after bytes have been put into it. *)
PutInto(t, s, bytes, n) ==
  /\ StreamOK(t, n) /\ t.write = s.write + Len(bytes) /\ t.read = s.read
  /\ \A k \in 1 .. Len(bytes) : t.buff[s.write + k] = bytes[k]
  /\ \A k \in 1 .. n : (k <= s.write \/ k > s.write + Len(bytes)) => t.buff[k] = s.buff[k]

LEMMA PutFits ==
  ASSUME NEW n \in Nat, NEW s, StreamOK(s, n), NEW bytes \in Seq(ByteType),
         s.write + Len(bytes) <= n
  PROVE  PutInto(Put(s, bytes), s, bytes, n)
<1> DEFINE w == s.write
           m == Len(bytes)
           buff == [k \in DOMAIN s.buff |->
                     IF k \in w + 1 .. w + m THEN bytes[k - w] ELSE s.buff[k]]
           t == Put(s, bytes)
<1>1. /\ s \in [buff : Seq(ByteType), write : Nat, read : Nat]
      /\ Len(s.buff) = n /\ w \in Nat /\ w <= n /\ s.read <= n /\ m \in Nat
      /\ s.buff \in Seq(ByteType) /\ DOMAIN s.buff = 1 .. n /\ s.read \in Nat
      /\ \A k \in 1 .. n : s.buff[k] \in ByteType
      /\ \A k \in 1 .. m : bytes[k] \in ByteType
  BY LenProperties, ElementOfSeq DEF StreamOK
<1>2. ASSUME NEW k \in 1 .. n PROVE buff[k] \in ByteType
  <2>1. CASE k \in w + 1 .. w + m
    <3>1. k - w \in 1 .. m  BY <1>1, <2>1
    <3>2. QED  BY <1>1, <2>1, <3>1
  <2>2. CASE k \notin w + 1 .. w + m  BY <1>1, <2>2
  <2>3. QED  BY <2>1, <2>2
<1>3. buff \in [1 .. n -> ByteType]  BY <1>1, <1>2
<1>4. buff \in Seq(ByteType) /\ Len(buff) = n
  <2>1. buff \in Seq(ByteType)  BY <1>3
  <2>2. DOMAIN buff = 1 .. n  BY <1>3
  <2> HIDE DEF buff
  <2>3. QED  BY <2>1, <2>2, LenProperties
<1>5. \A k \in 1 .. m : buff[w + k] = bytes[k]
  <2> SUFFICES ASSUME NEW k \in 1 .. m PROVE buff[w + k] = bytes[k]  OBVIOUS
  <2>1. w + k \in 1 .. n /\ w + k \in w + 1 .. w + m /\ (w + k) - w = k  BY <1>1
  <2>2. QED  BY <1>1, <2>1
<1>6. \A k \in 1 .. n : (k <= w \/ k > w + m) => buff[k] = s.buff[k]  BY <1>1
<1>7. /\ t = [[s EXCEPT !.buff = buff] EXCEPT !.write = @ + m]
  BY DEF Put, push
<1> HIDE DEF buff, t
<1>8. /\ t \in [buff : Seq(ByteType), write : Nat, read : Nat] /\ t.buff = buff
      /\ t.write = w + m /\ t.read = s.read
  <2> DEFINE u == [s EXCEPT !.buff = buff]
  <2>1. /\ u \in [buff : Seq(ByteType), write : Nat, read : Nat] /\ u.buff = buff
        /\ u.write = w /\ u.read = s.read
    BY <1>1, <1>4
  <2>2. t = [u EXCEPT !.write = @ + m]  BY <1>7
  <2> HIDE DEF u
  <2>3. w + m \in Nat  BY <1>1
  <2>4. t = [u EXCEPT !.write = w + m]  BY <2>1, <2>2
  <2>5. QED  BY <2>1, <2>3, <2>4
<1>9. PutInto(t, s, bytes, n)  BY <1>1, <1>4, <1>5, <1>6, <1>8 DEF PutInto, StreamOK
<1>10. QED  BY <1>9 DEF t

(* Write, when there is room and when there is none. *)
Written(t, s, value, size, n) ==
  /\ StreamOK(t, n) /\ t.write = s.write + size /\ t.read = s.read
  /\ ValueAt(t.buff, s.write, value, size)
  /\ \A k \in 1 .. n : (k <= s.write \/ k > s.write + size) => t.buff[k] = s.buff[k]

LEMMA WriteFits ==
  ASSUME NEW n \in Nat, NEW s, StreamOK(s, n), NEW type \in DOMAIN SizeOf, NEW value \in Int
  PROVE  IF s.write + SizeOf[type] <= n
         THEN Write(s, type, value).ok /\ Written(Write(s, type, value).s, s, value, SizeOf[type], n)
         ELSE Write(s, type, value) = [s |-> s, ok |-> FALSE]
<1> DEFINE size == SizeOf[type]
           bytes == Bytes(value, size)
<1>1. size \in {1, 2, 4, 8}  BY SizesOfTypes
<1> HIDE DEF size
<1>2. /\ bytes \in Seq(ByteType) /\ Len(bytes) = size
      /\ \A k \in 1 .. size : bytes[k] = Byte(value, k, size)
  BY <1>1, BytesOfValue
<1>3. Len(s.buff) = n /\ s.write \in Nat /\ size \in Nat  BY <1>1 DEF StreamOK
<1>4. canWrite(s, size) <=> s.write + size <= n  BY <1>3 DEF canWrite, nSize
<1>5. Write(s, type, value) = IF canWrite(s, size) THEN [s |-> Put(s, bytes), ok |-> TRUE]
                              ELSE [s |-> s, ok |-> FALSE]
  BY <1>2 DEF Write, size
<1> HIDE DEF bytes
<1>6. CASE s.write + size <= n
  <2>1. PutInto(Put(s, bytes), s, bytes, n)  BY <1>2, <1>6, PutFits
  <2>2. Written(Put(s, bytes), s, value, size, n)
    BY <1>2, <2>1 DEF PutInto, Written, ValueAt
  <2>3. QED  BY <1>4, <1>5, <1>6, <2>2 DEF size
<1>7. CASE ~(s.write + size <= n)  BY <1>4, <1>5, <1>7 DEF size
<1>8. QED  BY <1>6, <1>7

(* The bytes of the elements of an array, one after the other. *)
ElementBytes(values, n) == FlattenSeq([k \in DOMAIN values |-> Bytes(values[k], n)])

LEMMA ElementsInOrder ==
  ASSUME NEW values \in Seq(Nat), NEW n \in {1, 2, 4, 8}
  PROVE  /\ ElementBytes(values, n) \in Seq(ByteType)
         /\ Len(ElementBytes(values, n)) = Len(values) * n
         /\ \A k \in 1 .. Len(values), i \in 1 .. n :
              ElementBytes(values, n)[(k - 1) * n + i] = Byte(values[k], i, n)
<1> DEFINE m == Len(values)
           S == Seq(ByteType)
           bs == [k \in DOMAIN values |-> Bytes(values[k], n)]
<1>1. m \in Nat /\ DOMAIN values = 1 .. m /\ n \in Nat /\ \A k \in 1 .. m : values[k] \in Nat
  BY LenProperties, ElementOfSeq
<1>2. ASSUME NEW k \in 1 .. m
      PROVE  /\ bs[k] \in S /\ Len(bs[k]) = n /\ \A i \in 1 .. n : bs[k][i] = Byte(values[k], i, n)
  <2>1. PICK v \in Int : v = values[k]  BY <1>1
  <2>2. bs[k] = Bytes(v, n)  BY <1>1, <2>1
  <2> HIDE DEF bs
  <2>3. /\ Bytes(v, n) \in Seq(ByteType) /\ Len(Bytes(v, n)) = n
        /\ \A i \in 1 .. n : Bytes(v, n)[i] = Byte(v, i, n)
    BY BytesOfValue
  <2>4. QED  BY <2>1, <2>2, <2>3
<1>3. bs \in Seq(S) /\ Len(bs) = m
  <2>1. bs \in [1 .. m -> S]  BY <1>1, <1>2
  <2>2. bs \in Seq(S) /\ DOMAIN bs = 1 .. m  BY <1>1, <2>1
  <2> HIDE DEF bs, S
  <2>3. QED  BY <1>1, <2>2, LenProperties
<1> HIDE DEF bs
<1> DEFINE Step(f, k) == IF k = 1 THEN bs[k] ELSE f[k - 1] \o bs[k]
           Good(f, k) == f \in [1 .. k -> S] /\ \A i \in 1 .. k : f[i] = Step(f, i)
           E == {k \in Nat : k <= m => \E f : Good(f, k)}
<1>4. \A k \in Nat : k \in E
  <2>1. 0 \in E
    <3> DEFINE f == [i \in 1 .. 0 |-> << >>]
    <3>1. 1 .. 0 = {}  OBVIOUS
    <3>2. Good(f, 0)  BY <3>1
    <3> HIDE DEF Good, f
    <3>3. QED  BY <3>2
  <2>2. ASSUME NEW k \in Nat, k \in E PROVE k + 1 \in E
    <3> SUFFICES ASSUME k + 1 <= m PROVE \E f : Good(f, k + 1)
      <4> HIDE DEF Good
      <4>1. QED  OBVIOUS
    <3>1. PICK f : Good(f, k)
      <4> HIDE DEF Good
      <4>1. QED  BY <1>1, <2>2
    <3> DEFINE g == [i \in 1 .. k + 1 |-> IF i = k + 1 THEN Step(f, i) ELSE f[i]]
    <3>2. k + 1 \in 1 .. m /\ bs[k + 1] \in S  BY <1>1, <1>2
    <3>3. Step(f, k + 1) \in S
      <4>1. CASE k = 0  BY <3>2, <4>1
      <4>2. CASE k # 0
        <5>1. f[k] \in S /\ (k + 1) - 1 = k /\ k + 1 # 1  BY <3>1, <4>2
        <5>2. f[k] \o bs[k + 1] \in S  BY <3>2, <5>1, ConcatProperties
        <5>3. QED  BY <5>1, <5>2
      <4>3. QED  BY <4>1, <4>2
    <3>4. ASSUME NEW i \in 1 .. k + 1 PROVE g[i] \in S /\ g[i] = Step(g, i)
      <4>1. CASE i = k + 1
        <5>1. g[i] = Step(f, i)  BY <4>1
        <5>2. i # 1 => g[i - 1] = f[i - 1]  BY <4>1
        <5>3. QED  BY <3>3, <4>1, <5>1, <5>2
      <4>2. CASE i # k + 1
        <5>1. i \in 1 .. k /\ g[i] = f[i]  BY <4>2
        <5>2. i # 1 => g[i - 1] = f[i - 1]  BY <5>1
        <5> HIDE DEF g
        <5>3. f[i] \in S /\ f[i] = Step(f, i)  BY <3>1, <5>1
        <5>4. QED  BY <5>1, <5>2, <5>3
      <4>3. QED  BY <4>1, <4>2
    <3>5. Good(g, k + 1)
      <4>1. g \in [1 .. k + 1 -> S]  BY <3>4
      <4> HIDE DEF g
      <4>2. QED  BY <3>4, <4>1
    <3> HIDE DEF Good, g
    <3>6. QED  BY <3>5
  <2> HIDE DEF E
  <2>3. QED  BY <2>1, <2>2, AllNumbers
<1>5. PICK f : Good(f, m)
  <2> HIDE DEF Good
  <2>1. QED  BY <1>1, <1>4
<1> DEFINE Body(h) == [i \in 1 .. Len(bs) |-> IF i = 1 THEN bs[i] ELSE h[i - 1] \o bs[i]]
           w == CHOOSE h : h = Body(h)
<1>6. w = Body(w)
  <2>1. f = Body(f)  BY <1>3, <1>5
  <2> HIDE DEF Body
  <2>2. QED  BY <2>1
<1>7. \A i \in 1 .. m : w[i] = IF i = 1 THEN bs[i] ELSE w[i - 1] \o bs[i]
  <2> HIDE DEF w
  <2>1. QED  BY <1>3, <1>6
<1>8. m # 0 => ElementBytes(values, n) = w[m]  BY <1>3 DEF ElementBytes, FlattenSeq, bs
<1>9. m = 0 => ElementBytes(values, n) = bs  BY <1>3 DEF ElementBytes, FlattenSeq, bs
<1> DEFINE Holding(b, j) == /\ b \in S /\ Len(b) = j * n
                            /\ \A k \in 1 .. j, i \in 1 .. n :
                                 b[(k - 1) * n + i] = Byte(values[k], i, n)
           T == {j \in Nat : j + 1 <= m => Holding(w[j + 1], j + 1)}
<1> HIDE DEF w, Body
<1>10. 0 \in T
  <2> SUFFICES ASSUME 1 <= m PROVE Holding(w[1], 1)  OBVIOUS
  <2>1. w[1] = bs[1] /\ 1 \in 1 .. m  BY <1>1, <1>7
  <2>2. w[1] \in S /\ Len(w[1]) = n /\ \A i \in 1 .. n : w[1][i] = Byte(values[1], i, n)
    BY <1>2, <2>1
  <2>3. 1 * n = n /\ (1 - 1) * n = 0 /\ \A k \in 1 .. 1 : k = 1  BY <1>1, Products
  <2>4. \A i \in 1 .. n : (1 - 1) * n + i = i  BY <2>3
  <2>5. \A k \in 1 .. 1, i \in 1 .. n : w[1][(k - 1) * n + i] = Byte(values[k], i, n)
    BY <2>2, <2>3, <2>4
  <2>6. QED  BY <2>2, <2>3, <2>5
<1>11. ASSUME NEW j \in Nat, j \in T PROVE j + 1 \in T
  <2> SUFFICES ASSUME j + 1 + 1 <= m PROVE Holding(w[j + 1 + 1], j + 1 + 1)  OBVIOUS
  <2> DEFINE p == j + 1
             q == p + 1
             a == w[p]
             b == bs[q]
  <2>1. p \in Nat /\ q \in 1 .. m /\ q - 1 = p /\ q # 1 /\ Holding(a, p)  BY <1>1, <1>11
  <2>2. w[q] = a \o b  BY <1>7, <2>1
  <2>3. b \in S /\ Len(b) = n /\ \A i \in 1 .. n : b[i] = Byte(values[q], i, n)  BY <1>2, <2>1
  <2>4. p * n \in Nat /\ q * n = p * n + n /\ n \in Nat
    <3> HIDE DEF p
    <3>1. QED  BY <1>1, <2>1, Products
  <2>5. a \in S /\ Len(a) = p * n
        /\ \A k \in 1 .. p, i \in 1 .. n : a[(k - 1) * n + i] = Byte(values[k], i, n)
    BY <2>1
  <2> HIDE DEF p, a, b
  <2>6. /\ a \o b \in S /\ Len(a \o b) = Len(a) + Len(b)
        /\ \A i \in 1 .. Len(a) + Len(b) :
             (a \o b)[i] = IF i <= Len(a) THEN a[i] ELSE b[i - Len(a)]
    BY <2>3, <2>5, ConcatProperties
  <2>7. ASSUME NEW k \in 1 .. q, NEW i \in 1 .. n
        PROVE  (a \o b)[(k - 1) * n + i] = Byte(values[k], i, n)
    <3> DEFINE l == (k - 1) * n
    <3>1. CASE k \in 1 .. p
      <4>1. l \in Nat /\ l + n <= p * n  BY <2>1, <3>1, Products
      <4> HIDE DEF l
      <4>2. l + i \in 1 .. Len(a) + Len(b) /\ l + i <= Len(a)  BY <2>3, <2>4, <2>5, <4>1
      <4>3. (a \o b)[l + i] = a[l + i]  BY <2>6, <4>2
      <4>4. QED  BY <2>5, <3>1, <4>3 DEF l
    <3>2. CASE k = q
      <4>1. l = p * n  BY <2>1, <3>2
      <4> HIDE DEF l
      <4>2. PICK c \in Nat : c = Len(a) /\ l = c  BY <2>4, <2>5, <4>1
      <4>3. c + i \in 1 .. c + n /\ ~(c + i <= c) /\ (c + i) - c = i  BY <2>4, <4>2
      <4>4. (a \o b)[c + i] = b[i]  BY <2>3, <2>6, <4>2, <4>3
      <4>5. QED  BY <2>3, <3>2, <4>2, <4>4 DEF l
    <3>3. k \in 1 .. p \/ k = q  BY <2>1
    <3>4. QED  BY <3>1, <3>2, <3>3
  <2>8. w[q] \in S /\ Len(w[q]) = q * n  BY <2>2, <2>3, <2>4, <2>5, <2>6
  <2>9. Holding(w[q], q)  BY <2>2, <2>7, <2>8
  <2>10. QED  BY <2>9 DEF p
<1>12. \A j \in Nat : j \in T
  <2> HIDE DEF T
  <2>1. QED  BY <1>10, <1>11, AllNumbers
<1>13. CASE m = 0
  <2>1. bs \in S
    <3>1. bs = << >>  BY <1>3, <1>13, EmptySeq
    <3>2. QED  BY <3>1, EmptySeq
  <2>2. ElementBytes(values, n) \in S /\ Len(ElementBytes(values, n)) = 0
    BY <1>3, <1>9, <1>13, <2>1
  <2>3. Len(values) * n = 0  BY <1>13, Products
  <2>4. 1 .. Len(values) = {}  BY <1>13
  <2>5. QED  BY <2>2, <2>3, <2>4
<1>14. CASE m # 0
  <2>1. PICK j \in Nat : j + 1 = m
    <3>1. m - 1 \in Nat /\ (m - 1) + 1 = m  BY <1>1, <1>14
    <3>2. QED  BY <3>1
  <2>2. Holding(w[m], m)
    <3> HIDE DEF Holding
    <3>1. j \in T /\ j + 1 <= m  BY <1>1, <1>12, <2>1
    <3>2. Holding(w[j + 1], j + 1)  BY <3>1
    <3>3. QED  BY <2>1, <3>2
  <2>3. QED  BY <1>8, <1>14, <2>2
<1>15. QED  BY <1>13, <1>14

LEMMA ItemSizes ==
  ASSUME NEW item \in ItemType
  PROVE  /\ item.kind \in Kinds /\ item.type \in DOMAIN SizeOf /\ item.values \in Seq(Nat)
         /\ SizeOf[item.type] \in {1, 2, 4, 8} /\ Len(item.values) \in Nat
         /\ ItemSize(item) \in Nat /\ 1 <= ItemSize(item)
         /\ Len(item.values) * SizeOf[item.type] \in Nat
         /\ item.kind = "value" => item.values[1] \in Nat
<1>1. /\ item.kind \in Kinds /\ item.type \in DOMAIN SizeOf /\ item.values \in Seq(Nat)
      /\ item.kind = "value" => Len(item.values) = 1
  BY DEF ItemType
<1>2. SizeOf[item.type] \in {1, 2, 4, 8} /\ Len(item.values) \in Nat /\ SizeOf["uint32"] = 4
  BY <1>1, SizesOfTypes, LenProperties
<1>3. Len(item.values) * SizeOf[item.type] \in Nat
  <2>1. PICK m \in Nat, n \in {1, 2, 4, 8} : m = Len(item.values) /\ n = SizeOf[item.type]
    BY <1>2
  <2>2. m * n \in Nat  BY Products
  <2>3. QED  BY <2>1, <2>2
<1>4. ItemSize(item) \in Nat /\ 1 <= ItemSize(item)
  <2>1. CASE item.kind = "value"  BY <1>2, <2>1 DEF ItemSize
  <2>2. CASE item.kind # "value"
    <3>1. PICK c \in Nat : c = Len(item.values) * SizeOf[item.type]  BY <1>3
    <3>2. ItemSize(item) = 4 + c  BY <1>2, <2>2, <3>1 DEF ItemSize
    <3>3. QED  BY <3>2
  <2>3. QED  BY <2>1, <2>2
<1>5. item.kind = "value" => item.values[1] \in Nat
  <2> SUFFICES ASSUME item.kind = "value" PROVE item.values[1] \in Nat  OBVIOUS
  <2>1. PICK values \in Seq(Nat) : values = item.values /\ Len(values) = 1  BY <1>1
  <2>2. \A i \in 1 .. Len(values) : values[i] \in Nat  BY ElementOfSeq
  <2>3. 1 \in 1 .. Len(values)  BY <2>1
  <2>4. QED  BY <2>1, <2>2, <2>3
<1>6. QED  BY <1>1, <1>2, <1>3, <1>4, <1>5

(* What a stream is after an item has been written to it. *)
ItemWritten(t, s, item, n) ==
  /\ StreamOK(t, n) /\ t.write = s.write + ItemSize(item) /\ t.read = s.read
  /\ ItemAt(t.buff, s.write, item)
  /\ \A k \in 1 .. n : k <= s.write => t.buff[k] = s.buff[k]

LEMMA ArrayFits ==
  ASSUME NEW n \in Nat, NEW s, StreamOK(s, n), NEW item \in ItemType, item.kind # "value"
  PROVE  IF s.write + ItemSize(item) <= n
         THEN /\ WriteArray(s, item.type, item.values).ok
              /\ ItemWritten(WriteArray(s, item.type, item.values).s, s, item, n)
         ELSE WriteArray(s, item.type, item.values) = [s |-> s, ok |-> FALSE]
<1>1. PICK values \in Seq(Nat), type \in DOMAIN SizeOf, size \in {1, 2, 4, 8} :
        values = item.values /\ type = item.type /\ size = SizeOf[item.type]
  BY ItemSizes
<1>2. PICK m \in Nat : m = Len(values)  BY LenProperties
<1> DEFINE bytes == ElementBytes(values, size)
<1>3. PICK c \in Nat : c = m * size /\ ItemSize(item) = 4 + c
  <2>1. m * size \in Nat  BY Products
  <2>2. QED  BY <1>1, <1>2, <2>1, SizesOfTypes DEF ItemSize
<1>4. /\ bytes \in Seq(ByteType) /\ Len(bytes) = c
      /\ \A k \in 1 .. m, i \in 1 .. size : bytes[(k - 1) * size + i] = Byte(values[k], i, size)
  BY <1>2, <1>3, ElementsInOrder
<1>5. WriteArray(s, type, values) =
        IF canWrite(s, Len(bytes) + SizeOf["uint32"])
        THEN [s |-> Put(Write(s, "uint32", Len(values)).s, bytes), ok |-> TRUE]
        ELSE [s |-> s, ok |-> FALSE]
  BY <1>1 DEF WriteArray, ElementBytes
<1> HIDE DEF bytes
<1>6. SizeOf["uint32"] = 4 /\ "uint32" \in DOMAIN SizeOf  BY SizesOfTypes
<1>7. PICK w \in Nat : w = s.write /\ Len(s.buff) = n  BY DEF StreamOK
<1>8. canWrite(s, Len(bytes) + SizeOf["uint32"]) <=> w + (4 + c) <= n
  BY <1>4, <1>6, <1>7 DEF canWrite, nSize
<1>9. CASE w + (4 + c) <= n
  <2> DEFINE u == Write(s, "uint32", m).s
             t == Put(u, bytes)
  <2>1. Written(u, s, m, 4, n)
    <3>1. s.write + SizeOf["uint32"] <= n  BY <1>6, <1>7, <1>9
    <3>2. m \in Int  OBVIOUS
    <3>3. Written(Write(s, "uint32", m).s, s, m, SizeOf["uint32"], n)
      BY <1>6, <3>1, <3>2, WriteFits
    <3>4. QED  BY <1>6, <3>3
  <2> HIDE DEF u
  <2>2. /\ StreamOK(u, n) /\ u.write = w + 4 /\ u.read = s.read /\ ValueAt(u.buff, w, m, 4)
        /\ \A k \in 1 .. n : k <= w => u.buff[k] = s.buff[k]
    BY <1>7, <2>1 DEF Written
  <2>3. PutInto(t, u, bytes, n)
    <3>1. u.write + Len(bytes) <= n  BY <1>4, <1>9, <2>2
    <3>2. QED  BY <1>4, <2>2, <3>1, PutFits
  <2> HIDE DEF t
  <2>4. /\ StreamOK(t, n) /\ t.write = (w + 4) + c /\ t.read = s.read
        /\ \A k \in 1 .. c : t.buff[(w + 4) + k] = bytes[k]
        /\ \A k \in 1 .. n : k <= w + 4 => t.buff[k] = u.buff[k]
    BY <1>4, <2>2, <2>3 DEF PutInto
  <2>5. ValueAt(t.buff, w, m, 4)
    <3> SUFFICES ASSUME NEW k \in 1 .. 4 PROVE t.buff[w + k] = Byte(m, k, 4)  BY DEF ValueAt
    <3>1. w + k \in 1 .. n /\ w + k <= w + 4  BY <1>9
    <3>2. t.buff[w + k] = u.buff[w + k]  BY <2>4, <3>1
    <3>3. QED  BY <2>2, <3>2 DEF ValueAt
  <2>6. ElementsAt(t.buff, w + 4, values, size)
    <3> SUFFICES ASSUME NEW k \in 1 .. m, NEW i \in 1 .. size
                 PROVE  t.buff[(w + 4) + (k - 1) * size + i] = Byte(values[k], i, size)
      BY <1>2 DEF ElementsAt, ValueAt
    <3>1. PICK l \in Nat : l = (k - 1) * size /\ l + size <= c  BY <1>3, Products
    <3>2. l + i \in 1 .. c /\ (w + 4) + l + i = (w + 4) + (l + i)  BY <3>1
    <3>3. t.buff[(w + 4) + (l + i)] = bytes[l + i]  BY <2>4, <3>2
    <3>4. bytes[l + i] = Byte(values[k], i, size)  BY <1>4, <3>1
    <3>5. QED  BY <3>1, <3>2, <3>3, <3>4
  <2>7. ItemAt(t.buff, w, item)  BY <1>1, <1>2, <1>6, <2>5, <2>6 DEF ItemAt
  <2>8. \A k \in 1 .. n : k <= w => t.buff[k] = s.buff[k]  BY <2>2, <2>4
  <2>9. t.write = w + ItemSize(item)  BY <1>3, <2>4
  <2>10. ItemWritten(t, s, item, n)  BY <1>7, <2>4, <2>7, <2>8, <2>9 DEF ItemWritten
  <2>11. WriteArray(s, type, values) = [s |-> t, ok |-> TRUE]
    BY <1>2, <1>5, <1>8, <1>9 DEF t, u
  <2>12. s.write + ItemSize(item) <= n  BY <1>3, <1>7, <1>9
  <2>13. QED  BY <1>1, <2>10, <2>11, <2>12
<1>10. CASE ~(w + (4 + c) <= n)
  <2>1. ~(s.write + ItemSize(item) <= n)  BY <1>3, <1>7, <1>10
  <2>2. WriteArray(s, type, values) = [s |-> s, ok |-> FALSE]  BY <1>5, <1>8, <1>10
  <2>3. QED  BY <1>1, <2>1, <2>2
<1>11. QED  BY <1>9, <1>10

LEMMA ItemFits ==
  ASSUME NEW n \in Nat, NEW s, StreamOK(s, n), NEW item \in ItemType
  PROVE  IF s.write + ItemSize(item) <= n
         THEN WriteItem(s, item).ok /\ ItemWritten(WriteItem(s, item).s, s, item, n)
         ELSE WriteItem(s, item) = [s |-> s, ok |-> FALSE]
<1>1. CASE item.kind = "value"
  <2>1. PICK value \in Int, type \in DOMAIN SizeOf :
          value = item.values[1] /\ type = item.type
    BY <1>1, ItemSizes
  <2>2. ItemSize(item) = SizeOf[type]  BY <1>1, <2>1 DEF ItemSize
  <2>3. WriteItem(s, item) = Write(s, type, value)  BY <1>1, <2>1 DEF WriteItem
  <2>4. ASSUME NEW t, Written(t, s, value, SizeOf[type], n) PROVE ItemWritten(t, s, item, n)
    BY <1>1, <2>1, <2>2, <2>4 DEF Written, ItemWritten, ItemAt
  <2>5. IF s.write + SizeOf[type] <= n
        THEN Write(s, type, value).ok /\ Written(Write(s, type, value).s, s, value, SizeOf[type], n)
        ELSE Write(s, type, value) = [s |-> s, ok |-> FALSE]
    BY WriteFits
  <2>6. QED  BY <2>2, <2>3, <2>4, <2>5
<1>2. CASE item.kind # "value"
  <2>1. WriteItem(s, item) = WriteArray(s, item.type, item.values)  BY <1>2 DEF WriteItem
  <2>2. QED  BY <1>2, <2>1, ArrayFits
<1>3. QED  BY <1>1, <1>2

(* What a stream is when it is m bytes further. *)
PopsTo(t, s, m, n) ==
  /\ t.buff = s.buff /\ t.write = s.write /\ t.read = s.read + m
  /\ s.read + m <= n => StreamOK(t, n)

LEMMA Popped ==
  ASSUME NEW n \in Nat, NEW s, StreamOK(s, n), NEW m \in Nat
  PROVE  PopsTo(pop(s, m), s, m, n)
<1>1. /\ s \in [buff : Seq(ByteType), write : Nat, read : Nat] /\ s.read \in Nat
      /\ Len(s.buff) = n /\ s.write <= n
  BY DEF StreamOK
<1>2. s.read + m \in Nat  BY <1>1
<1>3. pop(s, m) = [s EXCEPT !.read = s.read + m]  BY DEF pop
<1>4. /\ pop(s, m) \in [buff : Seq(ByteType), write : Nat, read : Nat]
      /\ pop(s, m).buff = s.buff /\ pop(s, m).write = s.write /\ pop(s, m).read = s.read + m
  BY <1>1, <1>2, <1>3
<1>5. QED  BY <1>1, <1>4 DEF StreamOK, PopsTo

(* What is to be read is there. *)
ValueLies(s, n, value, size) == s.read + size <= n /\ ValueAt(s.buff, s.read, value, size)

ValueIsRead(s, type, value) ==
  /\ Read(s, type, TRUE).s = pop(s, SizeOf[type]) /\ Read(s, type, TRUE).value = value
  /\ Read(s, type, FALSE).value = value

LEMMA ValueRead ==
  ASSUME NEW n \in Nat, NEW s, StreamOK(s, n), NEW type \in DOMAIN SizeOf, NEW value \in Nat,
         ValueLies(s, n, value, SizeOf[type])
  PROVE  ValueIsRead(s, type, value)
<1>1. PICK size \in {1, 2, 4, 8} : size = SizeOf[type]  BY SizesOfTypes
<1>2. PICK r \in Nat, buff \in Seq(ByteType) : r = s.read /\ buff = s.buff /\ Len(buff) = n
  BY DEF StreamOK
<1> USE DEF ValueLies
<1>3. canRead(s, size)  BY <1>1, <1>2 DEF canRead, nSize
<1>4. ValueOf(SubSeq(buff, r + 1, r + size)) = value  BY <1>1, <1>2, ValueFound
<1>5. ValueOf(Peek(s, size)) = value  BY <1>2, <1>4 DEF Peek
<1>6. QED  BY <1>1, <1>3, <1>5 DEF Read, ValueIsRead

(* What a stream is after an item has been read from it. *)
ItemPassed(t, s, item, n) ==
  /\ StreamOK(t, n) /\ t.buff = s.buff /\ t.write = s.write
  /\ t.read = s.read + ItemSize(item)

LEMMA CountRead ==
  ASSUME NEW n \in Nat, NEW s, StreamOK(s, n), NEW item \in ItemType, item.kind # "value",
         s.read + ItemSize(item) <= n, ItemAt(s.buff, s.read, item)
  PROVE  Read(s, "uint32", FALSE).value = Len(item.values)
<1>1. PICK c \in Nat, m \in Nat :
        /\ c = Len(item.values) * SizeOf[item.type] /\ m = Len(item.values)
  BY ItemSizes
<1>2. SizeOf["uint32"] = 4 /\ "uint32" \in DOMAIN SizeOf  BY SizesOfTypes
<1>3. ItemSize(item) = 4 + c /\ ValueAt(s.buff, s.read, m, 4)
  BY <1>1, <1>2 DEF ItemSize, ItemAt
<1>4. s.read \in Nat  BY DEF StreamOK
<1>5. s.read + 4 <= n  BY <1>3, <1>4
<1>6. Read(s, "uint32", FALSE).value = m
  <2>1. ValueLies(s, n, m, SizeOf["uint32"])  BY <1>2, <1>3, <1>5 DEF ValueLies
  <2>2. ValueIsRead(s, "uint32", m)  BY <1>2, <2>1, ValueRead
  <2>3. QED  BY <2>2 DEF ValueIsRead
<1>7. QED  BY <1>1, <1>6

LEMMA ArrayRead ==
  ASSUME NEW n \in Nat, NEW s, StreamOK(s, n), NEW item \in ItemType, item.kind # "value",
         s.read + ItemSize(item) <= n, ItemAt(s.buff, s.read, item),
         NEW len \in Nat
  PROVE  IF Len(item.values) <= len
         THEN /\ ItemPassed(ReadArray(s, item.type, len).s, s, item, n)
              /\ ReadArray(s, item.type, len).values = item.values
         ELSE ReadArray(s, item.type, len) = [s |-> s, values |-> << >>]
<1>1. PICK values \in Seq(Nat), type \in DOMAIN SizeOf, size \in {1, 2, 4, 8} :
        values = item.values /\ type = item.type /\ size = SizeOf[item.type]
  BY ItemSizes
<1>2. PICK m \in Nat : m = Len(values)  BY LenProperties
<1>3. PICK c \in Nat : c = m * size /\ ItemSize(item) = 4 + c
  <2>1. m * size \in Nat  BY Products
  <2>2. QED  BY <1>1, <1>2, <2>1, SizesOfTypes DEF ItemSize
<1>4. SizeOf["uint32"] = 4  BY SizesOfTypes
<1>5. PICK r \in Nat, buff \in Seq(ByteType) : r = s.read /\ buff = s.buff /\ Len(buff) = n
  BY DEF StreamOK
<1>6. r + (4 + c) <= n  BY <1>3, <1>5
<1>7. Read(s, "uint32", FALSE).value = m  BY <1>1, <1>2, CountRead
<1> DEFINE t == pop(s, 4)
           vs == [k \in 1 .. m |-> ValueOf(Peek(pop(t, (k - 1) * size), size))]
<1>8. ReadArray(s, type, len) =
        IF m <= len /\ canRead(s, m * size + 4) THEN [s |-> pop(t, m * size), values |-> vs]
        ELSE [s |-> s, values |-> << >>]
  BY <1>1, <1>4, <1>7 DEF ReadArray
<1>9. canRead(s, m * size + 4)  BY <1>3, <1>5, <1>6 DEF canRead, nSize
<1>10. /\ StreamOK(t, n) /\ t.buff = buff /\ t.write = s.write /\ t.read = r + 4
  <2>1. PopsTo(t, s, 4, n)  BY Popped
  <2>2. s.read + 4 <= n  BY <1>5, <1>6
  <2> HIDE DEF t
  <2>3. QED  BY <1>5, <2>1, <2>2 DEF PopsTo
<1> HIDE DEF t
<1>11. ItemPassed(pop(t, m * size), s, item, n)
  <2>1. pop(t, c).buff = buff /\ pop(t, c).write = s.write /\ pop(t, c).read = (r + 4) + c
        /\ StreamOK(pop(t, c), n)
    <3>1. t.read + c <= n  BY <1>6, <1>10
    <3>2. PopsTo(pop(t, c), t, c, n)  BY <1>10, Popped
    <3>3. QED  BY <1>10, <3>1, <3>2 DEF PopsTo
  <2>2. (r + 4) + c = r + ItemSize(item)  BY <1>3
  <2>3. QED  BY <1>3, <1>5, <2>1, <2>2 DEF ItemPassed
<1>12. vs = values
  <2>1. ASSUME NEW k \in 1 .. m
        PROVE  ValueOf(Peek(pop(t, (k - 1) * size), size)) = values[k]
    <3>1. PICK l \in Nat : l = (k - 1) * size /\ l + size <= c  BY <1>3, Products
    <3>2. pop(t, l).buff = buff /\ pop(t, l).read = (r + 4) + l
      <4>1. PopsTo(pop(t, l), t, l, n)  BY <1>10, Popped
      <4>2. QED  BY <1>10, <4>1 DEF PopsTo
    <3>3. PICK at \in Nat : at = (r + 4) + l /\ at + size <= Len(buff)  BY <1>5, <1>6, <3>1
    <3>4. PICK v \in Int : v = values[k]  BY <1>2, ElementOfSeq
    <3>5. ValueAt(buff, at, v, size)
      <4>1. ElementsAt(buff, r + 4, values, size)  BY <1>1, <1>4, <1>5 DEF ItemAt
      <4>2. k \in 1 .. Len(values)  BY <1>2
      <4>3. QED  BY <3>1, <3>3, <3>4, <4>1, <4>2 DEF ElementsAt
    <3>6. ValueOf(SubSeq(buff, at + 1, at + size)) = v  BY <3>3, <3>5, ValueFound
    <3>7. QED  BY <3>1, <3>2, <3>3, <3>4, <3>6 DEF Peek
  <2>2. values = [k \in 1 .. m |-> values[k]]  BY <1>2
  <2>3. QED  BY <2>1, <2>2
<1> HIDE DEF vs
<1>13. CASE m <= len
  <2>1. ReadArray(s, type, len) = [s |-> pop(t, m * size), values |-> vs]  BY <1>8, <1>9, <1>13
  <2>2. QED  BY <1>1, <1>2, <1>11, <1>12, <1>13, <2>1
<1>14. CASE ~(m <= len)
  <2>1. ReadArray(s, type, len) = [s |-> s, values |-> << >>]  BY <1>8, <1>14
  <2>2. QED  BY <1>1, <1>2, <1>14, <2>1
<1>15. QED  BY <1>13, <1>14

LEMMA StringRead ==
  ASSUME NEW n \in Nat, NEW s, StreamOK(s, n), NEW item \in ItemType, item.kind = "string",
         s.read + ItemSize(item) <= n, ItemAt(s.buff, s.read, item)
  PROVE  IF item.values # << >>
         THEN /\ ItemPassed(ReadString(s).s, s, item, n) /\ ReadString(s).values = item.values
         ELSE ReadString(s) = [s |-> s, values |-> << >>]
<1>1. PICK values \in Seq(Nat) : values = item.values /\ item.type = "int8"
  BY DEF ItemType
<1>2. PICK m \in Nat : m = Len(values)  BY LenProperties
<1>3. Read(s, "uint32", FALSE).value = m  BY <1>1, <1>2, CountRead
<1>4. values = << >> <=> m = 0  BY <1>2, EmptySeq
<1>5. nSize(s) = n  BY DEF StreamOK, nSize
<1>6. m <= n
  <2>1. m <= m * SizeOf["int8"] /\ m * SizeOf["int8"] \in Nat  BY SizesOfTypes, Products
  <2>2. PICK c \in Nat : c = m * SizeOf["int8"] /\ m <= c  BY <2>1
  <2>3. ItemSize(item) = 4 + c  BY <1>1, <1>2, <2>2, SizesOfTypes DEF ItemSize
  <2>4. s.read \in Nat  BY DEF StreamOK
  <2>5. QED  BY <2>2, <2>3, <2>4
<1>7. /\ ItemPassed(ReadArray(s, "int8", n).s, s, item, n)
      /\ ReadArray(s, "int8", n).values = item.values
  BY <1>1, <1>2, <1>6, ArrayRead
<1>8. ReadString(s) = IF m > 0 THEN ReadArray(s, "int8", n) ELSE [s |-> s, values |-> << >>]
  BY <1>3, <1>5 DEF ReadString
<1>9. QED  BY <1>1, <1>4, <1>7, <1>8

LEMMA ItemRead ==
  ASSUME NEW n \in Nat, NEW s, StreamOK(s, n), NEW item \in ItemType,
         s.read + ItemSize(item) <= n, ItemAt(s.buff, s.read, item),
         NEW len \in Nat
  PROVE  IF Readable(item, len)
         THEN /\ ItemPassed(ReadItem(s, item, len).s, s, item, n)
              /\ ReadItem(s, item, len).values = item.values
         ELSE ReadItem(s, item, len) = [s |-> s, values |-> << >>]
<1>1. CASE item.kind = "value"
  <2>1. PICK type \in DOMAIN SizeOf, value \in Nat, values \in Seq(Nat) :
          /\ type = item.type /\ values = item.values /\ value = values[1]
    BY <1>1, ItemSizes
  <2>2. ItemSize(item) = SizeOf[type] /\ ValueAt(s.buff, s.read, value, SizeOf[type])
    BY <1>1, <2>1 DEF ItemSize, ItemAt
  <2>3. s.read + SizeOf[type] <= n  BY <2>2
  <2>4. Read(s, type, TRUE).s = pop(s, SizeOf[type]) /\ Read(s, type, TRUE).value = value
    <3>1. ValueLies(s, n, value, SizeOf[type])  BY <2>2, <2>3 DEF ValueLies
    <3>2. ValueIsRead(s, type, value)  BY <3>1, ValueRead
    <3>3. QED  BY <3>2 DEF ValueIsRead
  <2>5. SizeOf[type] \in Nat  BY SizesOfTypes
  <2>6. ItemPassed(pop(s, SizeOf[type]), s, item, n)
    <3>1. PopsTo(pop(s, SizeOf[type]), s, SizeOf[type], n)  BY <2>5, Popped
    <3>2. QED  BY <2>2, <2>3, <3>1 DEF PopsTo, ItemPassed
  <2>7. << value >> = values
    <3>1. Len(values) = 1  BY <1>1, <2>1 DEF ItemType
    <3>2. values = [k \in 1 .. 1 |-> values[k]]  BY <3>1
    <3>3. << value >> = [k \in 1 .. 1 |-> value]  OBVIOUS
    <3>4. \A k \in 1 .. 1 : values[k] = value  BY <2>1
    <3>5. QED  BY <3>2, <3>3, <3>4
  <2>8. Readable(item, len)  BY <1>1 DEF Readable
  <2>9. ReadItem(s, item, len) = [s |-> pop(s, SizeOf[type]), values |-> << value >>]
    BY <1>1, <2>1, <2>4 DEF ReadItem
  <2>10. QED  BY <2>1, <2>6, <2>7, <2>8, <2>9
<1>2. CASE item.kind = "array"
  <2>1. Readable(item, len) <=> Len(item.values) <= len  BY <1>2 DEF Readable
  <2>2. ReadItem(s, item, len) = ReadArray(s, item.type, len)  BY <1>2 DEF ReadItem
  <2>3. QED  BY <1>2, <2>1, <2>2, ArrayRead
<1>3. CASE item.kind = "string"
  <2>1. Readable(item, len) <=> item.values # << >>  BY <1>3 DEF Readable
  <2>2. ReadItem(s, item, len) = ReadString(s)  BY <1>3 DEF ReadItem
  <2>3. QED  BY <1>3, <2>1, <2>2, StringRead
<1>4. QED  BY <1>1, <1>2, <1>3, ItemSizes DEF Kinds

-----------------------------------------------------------------------------
(* From the fifth byte to the last one, two messages have the same bytes. *)
SameBytes(b, c, last) == \A k \in 5 .. last : b[k] = c[k]

LEMMA ValueKept ==
  ASSUME NEW b, NEW c, NEW last \in Nat, SameBytes(b, c, last),
         NEW at \in Nat, NEW value, NEW size \in Nat, 4 <= at, at + size <= last,
         ValueAt(b, at, value, size)
  PROVE  ValueAt(c, at, value, size)
<1> SUFFICES ASSUME NEW k \in 1 .. size PROVE c[at + k] = Byte(value, k, size)  BY DEF ValueAt
<1>1. at + k \in 5 .. last  OBVIOUS
<1>2. b[at + k] = Byte(value, k, size)  BY DEF ValueAt
<1>3. QED  BY <1>1, <1>2 DEF SameBytes

LEMMA ItemKept ==
  ASSUME NEW b, NEW c, NEW last \in Nat, SameBytes(b, c, last),
         NEW item \in ItemType, NEW at \in Nat, 4 <= at, at + ItemSize(item) <= last,
         ItemAt(b, at, item)
  PROVE  ItemAt(c, at, item)
<1>1. PICK values \in Seq(Nat), size \in {1, 2, 4, 8} :
        values = item.values /\ size = SizeOf[item.type]
  BY ItemSizes
<1>2. SizeOf["uint32"] = 4 /\ size \in Nat  BY SizesOfTypes
<1>3. CASE item.kind = "value"
  <2>1. ValueAt(b, at, values[1], size) /\ ItemSize(item) = size
    BY <1>1, <1>3 DEF ItemAt, ItemSize
  <2>2. at + size <= last  BY <2>1
  <2>3. ValueAt(c, at, values[1], size)  BY <1>2, <2>1, <2>2, ValueKept
  <2>4. QED  BY <1>1, <1>3, <2>3 DEF ItemAt
<1>4. CASE item.kind # "value"
  <2>1. PICK m \in Nat : m = Len(values)  BY LenProperties
  <2>2. PICK d \in Nat : d = m * size /\ ItemSize(item) = 4 + d
    <3>1. m * size \in Nat  BY Products
    <3>2. QED  BY <1>1, <1>2, <1>4, <2>1, <3>1 DEF ItemSize
  <2>3. ValueAt(b, at, m, 4) /\ ElementsAt(b, at + 4, values, size)
    BY <1>1, <1>2, <1>4, <2>1 DEF ItemAt
  <2>4. ValueAt(c, at, m, 4)
    <3>1. at + 4 <= last  BY <2>2
    <3>2. QED  BY <2>3, <3>1, ValueKept
  <2>5. ElementsAt(c, at + 4, values, size)
    <3> SUFFICES ASSUME NEW k \in 1 .. Len(values)
                 PROVE  ValueAt(c, at + 4 + (k - 1) * size, values[k], size)
      BY DEF ElementsAt
    <3>1. k \in 1 .. m  BY <2>1
    <3>2. PICK l \in Nat : l = (k - 1) * size /\ l + size <= d  BY <2>2, <3>1, Products
    <3>3. PICK p \in Nat : p = at + 4 + l /\ 4 <= p /\ p + size <= last  BY <1>2, <2>2, <3>2
    <3>4. ValueAt(b, p, values[k], size)  BY <2>3, <3>2, <3>3 DEF ElementsAt
    <3>5. ValueAt(c, p, values[k], size)  BY <1>2, <3>3, <3>4, ValueKept
    <3>6. QED  BY <3>2, <3>3, <3>5
  <2>6. QED  BY <1>1, <1>2, <1>4, <2>1, <2>4, <2>5 DEF ItemAt
<1>5. QED  BY <1>3, <1>4

LEMMA LayoutKept ==
  ASSUME NEW b, NEW c, NEW last \in Nat, SameBytes(b, c, last),
         NEW its \in Seq(ItemType), NEW pos, Layout(b, its, pos, last)
  PROVE  Layout(c, its, pos, last)
<1>1. ASSUME NEW j \in 1 .. Len(its) PROVE ItemAt(c, pos[j - 1], its[j])
  <2>1. PICK m \in Nat : m = Len(its)  BY LenProperties
  <2>2. j \in 0 .. m /\ j - 1 \in 0 .. m  BY <2>1
  <2>3. pos[j] \in 4 .. last /\ pos[j - 1] \in 4 .. last  BY <2>1, <2>2 DEF Layout
  <2>4. PICK item \in ItemType : item = its[j]  BY ElementOfSeq
  <2>5. pos[j] = pos[j - 1] + ItemSize(item) /\ ItemAt(b, pos[j - 1], item)
    BY <2>4 DEF Layout
  <2>6. PICK at \in Nat : at = pos[j - 1] /\ 4 <= at /\ at + ItemSize(item) <= last
    BY <2>3, <2>5
  <2>7. ItemAt(b, at, item)  BY <2>5, <2>6
  <2>8. ItemAt(c, at, item)  BY <2>6, <2>7, ItemKept
  <2>9. QED  BY <2>4, <2>6, <2>8
<1>2. QED  BY <1>1 DEF Layout

LEMMA HoldsKept ==
  ASSUME NEW b, NEW c, NEW last \in Nat, SameBytes(b, c, last),
         NEW its \in Seq(ItemType), Holds(b, its, last)
  PROVE  Holds(c, its, last)
<1>1. PICK pos : Layout(b, its, pos, last)  BY DEF Holds
<1>2. Layout(c, its, pos, last)  BY <1>1, LayoutKept
<1>3. QED  BY <1>2 DEF Holds

LEMMA HoldsNothing == \A b : Holds(b, << >>, 4)
<1> SUFFICES ASSUME NEW b PROVE Holds(b, << >>, 4)  OBVIOUS
<1> DEFINE pos == [j \in 0 .. 0 |-> 4]
<1>1. Len(<< >>) = 0  OBVIOUS
<1>2. Layout(b, << >>, pos, 4)
  <2>1. pos \in [0 .. 0 -> 4 .. 4] /\ pos[0] = 4  OBVIOUS
  <2> HIDE DEF pos
  <2>2. 1 .. 0 = {}  OBVIOUS
  <2>3. QED  BY <1>1, <2>1, <2>2 DEF Layout
<1> HIDE DEF pos
<1>3. QED  BY <1>2 DEF Holds

LEMMA HoldsOneItemMore ==
  ASSUME NEW b, NEW last \in Nat, NEW its \in Seq(ItemType), Holds(b, its, last),
         NEW item \in ItemType, ItemAt(b, last, item)
  PROVE  Holds(b, Append(its, item), last + ItemSize(item))
<1>1. PICK pos : Layout(b, its, pos, last)  BY DEF Holds
<1>2. PICK m \in Nat : m = Len(its)  BY LenProperties
<1>3. PICK new \in Nat : new = last + ItemSize(item) /\ last <= new  BY ItemSizes
<1> DEFINE q == [j \in 0 .. m + 1 |-> IF j = m + 1 THEN new ELSE pos[j]]
           all == Append(its, item)
<1>4. all \in Seq(ItemType) /\ Len(all) = m + 1 /\ all[m + 1] = item
      /\ \A j \in 1 .. m : all[j] = its[j]
  BY <1>2, AppendProperties
<1> HIDE DEF all
<1>5. /\ pos \in [0 .. m -> 4 .. last] /\ pos[0] = 4 /\ pos[m] = last
      /\ \A j \in 1 .. m : pos[j] = pos[j - 1] + ItemSize(its[j]) /\ ItemAt(b, pos[j - 1], its[j])
  BY <1>1, <1>2 DEF Layout
<1>6. 4 <= last
  <2>1. 0 \in 0 .. m  OBVIOUS
  <2>2. pos[0] \in 4 .. last  BY <1>5, <2>1
  <2>3. QED  BY <2>2
<1>7. ASSUME NEW j \in 0 .. m + 1 PROVE q[j] \in 4 .. new
  <2>1. CASE j = m + 1  BY <1>3, <1>6, <2>1
  <2>2. CASE j # m + 1
    <3>1. j \in 0 .. m /\ q[j] = pos[j]  BY <2>2
    <3> HIDE DEF q
    <3>2. pos[j] \in 4 .. last  BY <1>5, <3>1
    <3>3. QED  BY <1>3, <3>1, <3>2
  <2>3. QED  BY <2>1, <2>2
<1>8. q \in [0 .. m + 1 -> 4 .. new] /\ q[0] = 4 /\ q[m + 1] = new
  <2>1. 0 \in 0 .. m + 1 /\ 0 # m + 1 /\ m + 1 \in 0 .. m + 1  OBVIOUS
  <2>2. q \in [0 .. m + 1 -> 4 .. new]  BY <1>7
  <2>3. QED  BY <1>5, <2>1, <2>2
<1>9. ASSUME NEW j \in 1 .. m + 1
      PROVE  q[j] = q[j - 1] + ItemSize(all[j]) /\ ItemAt(b, q[j - 1], all[j])
  <2>1. CASE j = m + 1
    <3>1. j - 1 = m /\ j - 1 \in 0 .. m + 1 /\ j - 1 # m + 1 /\ j \in 0 .. m + 1  BY <2>1
    <3>2. q[j] = new /\ q[j - 1] = last  BY <1>5, <2>1, <3>1
    <3> HIDE DEF q
    <3>3. QED  BY <1>3, <1>4, <2>1, <3>2
  <2>2. CASE j # m + 1
    <3>1. /\ j \in 1 .. m /\ j - 1 \in 0 .. m + 1 /\ j - 1 # m + 1
          /\ j \in 0 .. m + 1
      BY <2>2
    <3>2. q[j] = pos[j] /\ q[j - 1] = pos[j - 1]  BY <2>2, <3>1
    <3> HIDE DEF q
    <3>3. all[j] = its[j]  BY <1>4, <3>1
    <3>4. QED  BY <1>5, <3>1, <3>2, <3>3
  <2>3. QED  BY <2>1, <2>2
<1> HIDE DEF q
<1>10. Layout(b, all, q, new)  BY <1>4, <1>8, <1>9 DEF Layout
<1>11. QED  BY <1>3, <1>10 DEF Holds, all

LEMMA HoldsWritten ==
  ASSUME NEW n \in Nat, NEW s, NEW t, StreamOK(s, n), NEW its \in Seq(ItemType),
         Holds(s.buff, its, s.write), NEW item \in ItemType, ItemWritten(t, s, item, n)
  PROVE  Holds(t.buff, Append(its, item), t.write)
<1>1. PICK last \in Nat : last = s.write /\ last <= n  BY DEF StreamOK
<1>2. SameBytes(s.buff, t.buff, last)
  <2> SUFFICES ASSUME NEW k \in 5 .. last PROVE s.buff[k] = t.buff[k]  BY DEF SameBytes
  <2>1. k \in 1 .. n /\ k <= last  BY <1>1
  <2>2. QED  BY <1>1, <2>1 DEF ItemWritten
<1>3. Holds(s.buff, its, last)  BY <1>1
<1>4. Holds(t.buff, its, last)  BY <1>2, <1>3, HoldsKept
<1>5. ItemAt(t.buff, last, item) /\ t.write = last + ItemSize(item)
  BY <1>1 DEF ItemWritten
<1>6. Holds(t.buff, Append(its, item), last + ItemSize(item))
  BY <1>4, <1>5, HoldsOneItemMore
<1>7. QED  BY <1>5, <1>6

-----------------------------------------------------------------------------
(* The command follows the room for the length. *)
IsBegun(t, n) == StreamOK(t, n) /\ t.write = 4 /\ t.read = 0

IsNew(t, n) == StreamOK(t, n) /\ t.write = 0 /\ t.read = 0

LEMMA StreamIsNew ==
  ASSUME NEW n \in Nat
  PROVE  IsNew(NewStream(n), n)
<1> DEFINE s == NewStream(n)
<1>1. Junk \in ByteType  BY DEF Junk, Byte, ByteType
<1> DEFINE b == [k \in 1 .. n |-> Junk]
<1>2. b \in [1 .. n -> ByteType]  BY <1>1
<1>3. b \in Seq(ByteType) /\ Len(b) = n
  <2>1. b \in Seq(ByteType) /\ DOMAIN b = 1 .. n  BY <1>2
  <2> HIDE DEF b
  <2>2. QED  BY <2>1, LenProperties
<1>4. s = [buff |-> b, write |-> 0, read |-> 0]  BY DEF NewStream
<1> HIDE DEF b, s
<1>5. QED  BY <1>3, <1>4 DEF StreamOK, IsNew, s

LEMMA Begun ==
  ASSUME NEW n \in Nat, 4 <= n, NEW cmd \in Nat
  PROVE  IsBegun(setNetCmd(NewWriteStream(n), cmd), n)
<1> DEFINE s == NewStream(n)
           t == NewWriteStream(n)
           u == setNetCmd(t, cmd)
<1>1. StreamOK(s, n) /\ s.write = 0 /\ s.read = 0
  <2>1. IsNew(s, n)  BY StreamIsNew
  <2> HIDE DEF s
  <2>2. QED  BY <2>1 DEF IsNew
<1> HIDE DEF s
<1>2. SizeOf["uint16"] = 2 /\ "uint16" \in DOMAIN SizeOf /\ 0 \in Int /\ cmd \in Int  BY SizesOfTypes
<1>3. t = Write(s, "uint16", 0).s  BY DEF NewWriteStream, s
<1>4. Written(t, s, 0, 2, n)
  <2>1. s.write + SizeOf["uint16"] <= n  BY <1>1, <1>2
  <2>2. Written(Write(s, "uint16", 0).s, s, 0, SizeOf["uint16"], n)
    BY <1>1, <1>2, <2>1, WriteFits
  <2>3. QED  BY <1>2, <1>3, <2>2
<1> HIDE DEF t
<1>5. StreamOK(t, n) /\ t.write = 2 /\ t.read = 0  BY <1>1, <1>4 DEF Written
<1>6. u = Write(t, "uint16", cmd).s  BY DEF setNetCmd
<1>7. Written(u, t, cmd, 2, n)
  <2>1. t.write + SizeOf["uint16"] <= n  BY <1>2, <1>5
  <2>2. Written(Write(t, "uint16", cmd).s, t, cmd, SizeOf["uint16"], n)
    BY <1>2, <1>5, <2>1, WriteFits
  <2>3. QED  BY <1>2, <1>6, <2>2
<1> HIDE DEF u
<1>8. IsBegun(u, n)  BY <1>5, <1>7 DEF Written, IsBegun
<1>9. QED  BY <1>8 DEF u, t

(* The length is put in front, and the rest stays as it is. *)
IsFinished(t, s, n) ==
  /\ StreamOK(t, n) /\ t.write = s.write /\ t.read = s.read
  /\ ValueAt(t.buff, 0, s.write, 2)
  /\ SameBytes(s.buff, t.buff, n)

LEMMA PositionSet ==
  ASSUME NEW n \in Nat, NEW s, StreamOK(s, n), NEW p \in 0 .. n
  PROVE  /\ StreamOK(setWritePos(s, p), n) /\ setWritePos(s, p).write = p
         /\ setWritePos(s, p).read = s.read /\ setWritePos(s, p).buff = s.buff
<1>1. s \in [buff : Seq(ByteType), write : Nat, read : Nat] /\ Len(s.buff) = n /\ s.read <= n
  BY DEF StreamOK
<1>2. setWritePos(s, p) = [s EXCEPT !.write = p]  BY DEF setWritePos
<1>3. /\ setWritePos(s, p) \in [buff : Seq(ByteType), write : Nat, read : Nat]
      /\ setWritePos(s, p).write = p /\ setWritePos(s, p).read = s.read
      /\ setWritePos(s, p).buff = s.buff
  BY <1>1, <1>2
<1>4. QED  BY <1>1, <1>3 DEF StreamOK

LEMMA Finished ==
  ASSUME NEW n \in Nat, 4 <= n, NEW s, StreamOK(s, n)
  PROVE  IsFinished(finsh(s), s, n)
<1>1. PICK w \in 0 .. n : w = s.write  BY DEF StreamOK
<1> DEFINE a == setWritePos(s, 0)
           b == Write(a, "uint16", w).s
           c == setWritePos(b, w)
<1>2. 0 \in 0 .. n /\ w \in Int  OBVIOUS
<1>3. StreamOK(a, n) /\ a.write = 0 /\ a.read = s.read /\ a.buff = s.buff
  BY <1>2, PositionSet
<1> HIDE DEF a
<1>4. SizeOf["uint16"] = 2 /\ "uint16" \in DOMAIN SizeOf  BY SizesOfTypes
<1>5. Written(b, a, w, 2, n)
  <2>1. a.write + SizeOf["uint16"] <= n  BY <1>3, <1>4
  <2>2. Written(Write(a, "uint16", w).s, a, w, SizeOf["uint16"], n)
    BY <1>2, <1>3, <1>4, <2>1, WriteFits
  <2>3. QED  BY <1>4, <2>2
<1> HIDE DEF b
<1>6. /\ StreamOK(b, n) /\ b.read = s.read /\ ValueAt(b.buff, 0, w, 2)
      /\ \A k \in 1 .. n : k > 2 => b.buff[k] = s.buff[k]
  BY <1>3, <1>5 DEF Written
<1>7. StreamOK(c, n) /\ c.write = w /\ c.read = b.read /\ c.buff = b.buff
  BY <1>6, PositionSet
<1> HIDE DEF c
<1>8. SameBytes(s.buff, c.buff, n)
  <2> SUFFICES ASSUME NEW k \in 5 .. n PROVE s.buff[k] = c.buff[k]  BY DEF SameBytes
  <2>1. k \in 1 .. n /\ k > 2  OBVIOUS
  <2>2. QED  BY <1>6, <1>7, <2>1
<1>9. IsFinished(c, s, n)  BY <1>1, <1>6, <1>7, <1>8 DEF IsFinished
<1>10. finsh(s) = c  BY <1>1 DEF finsh, a, b, c
<1>11. QED  BY <1>9, <1>10

(* What the reader has when the length and the command have been read. *)
Opened(s) == getNetCmd(Read(NewReadStream(Message(s)), "int16", TRUE).s).s

HasArrived(t, s) ==
  /\ StreamOK(t, s.write) /\ t.read = 4
  /\ SameBytes(s.buff, t.buff, s.write)

LEMMA Skipped ==
  ASSUME NEW n \in Nat, NEW s, StreamOK(s, n), NEW type \in DOMAIN SizeOf,
         s.read + SizeOf[type] <= n
  PROVE  PopsTo(Read(s, type, TRUE).s, s, SizeOf[type], n)
<1>1. PICK size \in Nat : size = SizeOf[type]  BY SizesOfTypes
<1>2. PICK r \in Nat : r = s.read /\ Len(s.buff) = n  BY DEF StreamOK
<1>3. canRead(s, size)  BY <1>1, <1>2 DEF canRead, nSize
<1>4. Read(s, type, TRUE).s = pop(s, size)  BY <1>1, <1>3 DEF Read
<1>5. QED  BY <1>1, <1>4, Popped

AreFirst(f, b, w) == f \in Seq(ByteType) /\ Len(f) = w /\ \A k \in 1 .. w : f[k] = b[k]

LEMMA FirstBytes ==
  ASSUME NEW b \in Seq(ByteType), NEW w \in Nat, w <= Len(b)
  PROVE  AreFirst(SubSeq(b, 1, w), b, w)
<1>1. PICK m \in Nat : m = Len(b)  BY LenProperties
<1>2. \A i \in 1 .. w : b[i] \in ByteType
  <2>1. \A i \in 1 .. w : i \in 1 .. Len(b)  BY <1>1
  <2>2. QED  BY <2>1, ElementOfSeq
<1>3. 1 \in Int /\ w \in Int  OBVIOUS
<1>4. /\ SubSeq(b, 1, w) \in Seq(ByteType)
      /\ Len(SubSeq(b, 1, w)) = IF 1 <= w THEN w - 1 + 1 ELSE 0
      /\ \A i \in 1 .. w - 1 + 1 : SubSeq(b, 1, w)[i] = b[1 + i - 1]
  BY <1>2, <1>3, SubSeqProperties
<1>5. Len(SubSeq(b, 1, w)) = w  BY <1>4
<1>6. ASSUME NEW k \in 1 .. w PROVE SubSeq(b, 1, w)[k] = b[k]
  <2>1. k \in 1 .. w - 1 + 1 /\ 1 + k - 1 = k  OBVIOUS
  <2>2. QED  BY <1>4, <2>1
<1>7. QED  BY <1>4, <1>5, <1>6 DEF AreFirst

LEMMA Arrives ==
  ASSUME NEW n \in Nat, NEW s, StreamOK(s, n), 4 <= s.write, ValueAt(s.buff, 0, s.write, 2)
  PROVE  HasArrived(Opened(s), s)
<1>1. PICK w \in Nat, buff \in Seq(ByteType) :
        w = s.write /\ buff = s.buff /\ Len(buff) = n /\ w <= n /\ 4 <= w
  BY DEF StreamOK
<1> DEFINE message == SubSeq(buff, 1, w)
           m2 == SubSeq(message, 1, w)
           r == [buff |-> m2, write |-> w, read |-> 0]
<1>2. message \in Seq(ByteType) /\ Len(message) = w /\ \A k \in 1 .. w : message[k] = buff[k]
  <2>1. w <= Len(buff)  BY <1>1
  <2>2. AreFirst(message, buff, w)  BY <2>1, FirstBytes
  <2> HIDE DEF message
  <2>3. QED  BY <2>2 DEF AreFirst
<1> HIDE DEF message
<1>3. m2 \in Seq(ByteType) /\ Len(m2) = w /\ \A k \in 1 .. w : m2[k] = message[k]
  <2>1. w <= Len(message)  BY <1>2
  <2>2. AreFirst(m2, message, w)  BY <1>2, <2>1, FirstBytes
  <2> HIDE DEF m2
  <2>3. QED  BY <2>2 DEF AreFirst
<1>4. ValueOf(SubSeq(message, 1, 2)) = w
  <2>1. ValueAt(message, 0, w, 2)
    <3> SUFFICES ASSUME NEW k \in 1 .. 2 PROVE message[0 + k] = Byte(w, k, 2)  BY DEF ValueAt
    <3>1. k \in 1 .. w /\ 0 + k = k  BY <1>1
    <3>2. s.buff[0 + k] = Byte(s.write, k, 2)  BY DEF ValueAt
    <3>3. QED  BY <1>1, <1>2, <3>1, <3>2
  <2>2. 0 + 2 <= Len(message) /\ 0 \in Nat /\ 2 \in {1, 2, 4, 8} /\ w \in Int  BY <1>1, <1>2
  <2>3. ValueOf(SubSeq(message, 0 + 1, 0 + 2)) = w  BY <1>2, <2>1, <2>2, ValueFound
  <2>4. 0 + 1 = 1 /\ 0 + 2 = 2  OBVIOUS
  <2>5. QED  BY <2>3, <2>4
<1>5. NewReadStream(Message(s)) = r
  <2>1. Message(s) = message  BY <1>1 DEF Message, message
  <2>2. NewReadStream(message) = r  BY <1>4 DEF NewReadStream
  <2>3. QED  BY <2>1, <2>2
<1>6. StreamOK(r, w) /\ r.read = 0 /\ r.buff = m2
  <2> HIDE DEF m2
  <2>1. QED  BY <1>3 DEF StreamOK
<1> HIDE DEF m2, r
<1>7. /\ SizeOf["int16"] = 2 /\ "int16" \in DOMAIN SizeOf
      /\ SizeOf["uint16"] = 2 /\ "uint16" \in DOMAIN SizeOf
  BY SizesOfTypes
<1> DEFINE t == Read(r, "int16", TRUE).s
           u == Read(t, "uint16", TRUE).s
<1>8. StreamOK(t, w) /\ t.read = 2 /\ t.buff = m2
  <2>1. r.read + SizeOf["int16"] <= w  BY <1>1, <1>6, <1>7
  <2>2. PopsTo(t, r, SizeOf["int16"], w)  BY <1>6, <1>7, <2>1, Skipped
  <2> HIDE DEF t
  <2>3. QED  BY <1>6, <1>7, <2>1, <2>2 DEF PopsTo
<1> HIDE DEF t
<1>9. StreamOK(u, w) /\ u.read = 4 /\ u.buff = m2
  <2>1. t.read + SizeOf["uint16"] <= w  BY <1>1, <1>7, <1>8
  <2>2. PopsTo(u, t, SizeOf["uint16"], w)  BY <1>7, <1>8, <2>1, Skipped
  <2> HIDE DEF u
  <2>3. QED  BY <1>7, <1>8, <2>1, <2>2 DEF PopsTo
<1> HIDE DEF u
<1>10. SameBytes(buff, u.buff, w)
  <2> SUFFICES ASSUME NEW k \in 5 .. w PROVE buff[k] = u.buff[k]  BY DEF SameBytes
  <2>1. k \in 1 .. w  OBVIOUS
  <2>2. QED  BY <1>2, <1>3, <1>9, <2>1
<1>11. Opened(s) = u  BY <1>5 DEF Opened, getNetCmd, t, u
<1>12. QED  BY <1>1, <1>9, <1>10, <1>11 DEF HasArrived

-----------------------------------------------------------------------------
LEMMA HoldsBehindCommand ==
  ASSUME NEW b, NEW its \in Seq(ItemType), NEW last \in Nat, Holds(b, its, last)
  PROVE  4 <= last
<1>1. PICK pos : Layout(b, its, pos, last)  BY DEF Holds
<1>2. PICK m \in Nat : m = Len(its)  BY LenProperties
<1>3. 0 \in 0 .. m  OBVIOUS
<1>4. pos[0] \in 4 .. last  BY <1>1, <1>2, <1>3 DEF Layout
<1>5. QED  BY <1>4

(* What is read and what is written later is not disturbed. *)
LEMMA FewerBytes ==
  ASSUME NEW b, NEW c, NEW n \in Nat, SameBytes(b, c, n), NEW m \in Nat, m <= n
  PROVE  SameBytes(b, c, m)
<1> SUFFICES ASSUME NEW k \in 5 .. m PROVE b[k] = c[k]  BY DEF SameBytes
<1>1. k \in 5 .. n  OBVIOUS
<1>2. QED  BY <1>1 DEF SameBytes

LEMMA StreamStarts == StreamInit => StreamInv
<1> SUFFICES ASSUME StreamInit PROVE StreamInv  OBVIOUS
<1>1. /\ phase = "writing" /\ items = << >> /\ tries = 0 /\ got = << >> /\ echoed = << >>
      /\ writer = setNetCmd(NewWriteStream(MessageSize), CMD_LOGOUT)
      /\ reader = NewStream(0)
      /\ answer = setNetCmd(NewWriteStream(AnswerSize), CMD_LOGOUT_RESULT)
  BY DEF StreamInit
<1>2. IsBegun(writer, MessageSize)
  <2>1. CMD_LOGOUT \in Nat  BY DEF CMD_LOGOUT
  <2>2. QED  BY <1>1, <2>1, Begun, StreamLimits
<1>3. IsBegun(answer, AnswerSize)
  <2>1. CMD_LOGOUT_RESULT \in Nat  BY DEF CMD_LOGOUT_RESULT
  <2>2. QED  BY <1>1, <2>1, Begun, StreamLimits
<1>4. StreamOK(reader, Len(reader.buff))
  <2>1. 0 \in Nat  OBVIOUS
  <2>2. IsNew(reader, 0)  BY <1>1, <2>1, StreamIsNew
  <2>3. QED  BY <2>2 DEF IsNew, StreamOK
<1>5. EchoItems = << >>
  <2>1. Len(echoed) = 0  BY <1>1
  <2>2. QED  BY <2>1 DEF EchoItems
<1>6. TypesInv
  <2>1. << >> \in Seq(ItemType) /\ << >> \in Seq(Seq(Nat)) /\ Len(<< >>) = 0
        /\ << >> \in Seq(1 .. Len(items))
    BY EmptySeq
  <2>2. 0 \in 0 .. MaxWrites /\ 0 <= MaxWrites  BY StreamLimits
  <2>3. QED  BY <1>1, <1>2, <1>3, <1>4, <2>1, <2>2 DEF TypesInv, IsBegun
<1>7. WriterInv
  <2>1. Holds(writer.buff, << >>, 4)  BY HoldsNothing
  <2>2. Len(<< >>) = 0  OBVIOUS
  <2>3. QED  BY <1>1, <1>2, <2>1, <2>2 DEF WriterInv, IsBegun
<1>8. ReaderInv  BY <1>1 DEF ReaderInv
<1>9. GotInv
  <2>1. 1 .. Len(got) = {}  BY <1>1
  <2>2. QED  BY <1>1, <2>1 DEF GotInv
<1>10. AnswerInv
  <2>1. Holds(answer.buff, << >>, 4)  BY HoldsNothing
  <2>2. QED  BY <1>1, <1>3, <1>5, <2>1 DEF AnswerInv, IsBegun
<1>11. QED  BY <1>6, <1>7, <1>8, <1>9, <1>10 DEF StreamInv

LEMMA TryKeeps ==
  ASSUME StreamInv, NEW kind, NEW type, NEW values,
         [kind |-> kind, type |-> type, values |-> values] \in ItemType,
         Try(kind, type, values)
  PROVE  StreamInv'
<1>1. PICK item \in ItemType : item = [kind |-> kind, type |-> type, values |-> values]
  OBVIOUS
<1>2. TypesInv /\ WriterInv /\ GotInv /\ AnswerInv  BY DEF StreamInv
<1>3. /\ phase = "writing" /\ tries < MaxWrites /\ tries' = tries + 1
      /\ writer' = WriteItem(writer, item).s
      /\ items' = IF WriteItem(writer, item).ok THEN Append(items, item) ELSE items
      /\ phase' = phase /\ reader' = reader /\ got' = got /\ answer' = answer
      /\ echoed' = echoed
  BY <1>1 DEF Try
<1>4. /\ StreamOK(writer, MessageSize) /\ MessageSize \in Nat /\ items \in Seq(ItemType)
      /\ Len(items) \in Nat /\ Len(items) <= tries /\ got = << >> /\ echoed = << >>
      /\ Holds(writer.buff, items, writer.write) /\ tries \in Nat /\ MaxWrites \in Nat
  BY <1>2, <1>3, LenProperties, StreamLimits DEF TypesInv, WriterInv, AnswerInv
<1>5. /\ StreamOK(writer', MessageSize) /\ items' \in Seq(ItemType)
      /\ Len(items') <= tries + 1 /\ Holds(writer'.buff, items', writer'.write)
  <2>1. CASE writer.write + ItemSize(item) <= MessageSize
    <3> DEFINE t == WriteItem(writer, item).s
    <3>1. WriteItem(writer, item).ok /\ ItemWritten(t, writer, item, MessageSize)
      BY <1>4, <2>1, ItemFits
    <3> HIDE DEF t
    <3>2. writer' = t /\ items' = Append(items, item)  BY <1>3, <3>1 DEF t
    <3>3. Holds(t.buff, Append(items, item), t.write)  BY <1>4, <3>1, HoldsWritten
    <3>4. Append(items, item) \in Seq(ItemType) /\ Len(Append(items, item)) = Len(items) + 1
      BY <1>4, AppendProperties
    <3>5. Len(items') <= tries + 1  BY <1>4, <3>2, <3>4
    <3>6. StreamOK(t, MessageSize)  BY <3>1 DEF ItemWritten
    <3>7. QED  BY <3>2, <3>3, <3>4, <3>5, <3>6
  <2>2. CASE ~(writer.write + ItemSize(item) <= MessageSize)
    <3>1. WriteItem(writer, item) = [s |-> writer, ok |-> FALSE]  BY <1>4, <2>2, ItemFits
    <3>2. writer' = writer /\ items' = items  BY <1>3, <3>1
    <3>3. Len(items) <= tries + 1  BY <1>4
    <3>4. QED  BY <1>4, <3>2, <3>3
  <2>3. QED  BY <2>1, <2>2
<1>6. tries + 1 \in 0 .. MaxWrites /\ Len(items') \in Nat /\ Len(items') <= MaxWrites
  <2>1. Len(items') \in Nat  BY <1>5, LenProperties
  <2>2. QED  BY <1>3, <1>4, <1>5, <2>1
<1>7. TypesInv'
  <2>1. got' \in Seq(Seq(Nat)) /\ Len(got') <= Len(items')
    <3>1. Len(<< >>) = 0 /\ << >> \in Seq(Seq(Nat))  BY EmptySeq
    <3>2. QED  BY <1>3, <1>4, <1>6, <3>1
  <2>2. echoed' \in Seq(1 .. Len(items'))  BY <1>3, <1>4, EmptySeq
  <2>3. QED  BY <1>2, <1>3, <1>5, <1>6, <2>1, <2>2 DEF TypesInv
<1>8. WriterInv'  BY <1>3, <1>4, <1>5 DEF WriterInv
<1>9. ReaderInv'  BY <1>3 DEF ReaderInv
<1>10. GotInv'
  <2>1. 1 .. Len(got') = {}  BY <1>3, <1>4
  <2>2. QED  BY <1>3, <2>1 DEF GotInv
<1>11. AnswerInv'
  <2>1. Len(echoed) = 0 /\ Len(echoed') = 0  BY <1>3, <1>4
  <2>2. EchoItems = << >> /\ EchoItems' = << >>  BY <2>1 DEF EchoItems
  <2>3. QED  BY <1>2, <1>3, <2>2 DEF AnswerInv
<1>12. QED  BY <1>7, <1>8, <1>9, <1>10, <1>11 DEF StreamInv

LEMMA SendKeeps ==
  ASSUME StreamInv, Send
  PROVE  StreamInv'
<1>1. TypesInv /\ WriterInv /\ GotInv /\ AnswerInv  BY DEF StreamInv
<1>2. /\ phase = "writing" /\ writer' = finsh(writer) /\ phase' = "reading"
      /\ items' = items /\ tries' = tries /\ got' = got /\ answer' = answer
      /\ echoed' = echoed
  BY DEF Send
<1>3. reader' = Opened(writer')  BY DEF Send, Opened
<1>4. PICK n \in Nat : n = MessageSize /\ 4 <= n  BY StreamLimits
<1>5. PICK w \in Nat : w = writer.write /\ w <= n  BY <1>1, <1>4 DEF TypesInv, StreamOK
<1>6. /\ StreamOK(writer, n) /\ items \in Seq(ItemType) /\ got = << >> /\ echoed = << >>
      /\ Holds(writer.buff, items, w)
  BY <1>1, <1>2, <1>4, <1>5 DEF TypesInv, WriterInv, AnswerInv
<1>7. 4 <= w  BY <1>6, HoldsBehindCommand
<1>8. /\ StreamOK(writer', n) /\ writer'.write = w /\ ValueAt(writer'.buff, 0, w, 2)
      /\ SameBytes(writer.buff, writer'.buff, n)
  <2>1. IsFinished(finsh(writer), writer, n)  BY <1>4, <1>6, Finished
  <2>2. QED  BY <1>2, <1>5, <2>1 DEF IsFinished
<1>9. /\ StreamOK(reader', w) /\ reader'.read = 4
      /\ SameBytes(writer'.buff, reader'.buff, w)
  <2> DEFINE s == writer'
  <2>1. StreamOK(s, n) /\ s.write = w /\ ValueAt(s.buff, 0, w, 2)  BY <1>8
  <2> HIDE DEF s
  <2>2. HasArrived(Opened(s), s)  BY <1>7, <2>1, Arrives
  <2>3. s = writer'  BY DEF s
  <2>4. HasArrived(reader', writer')  BY <1>3, <2>2, <2>3
  <2>5. QED  BY <1>8, <2>4 DEF HasArrived
<1>10. Holds(reader'.buff, items, w)
  <2> DEFINE a == writer.buff
             b == writer'.buff
             c == reader'.buff
  <2>1. SameBytes(a, b, n) /\ SameBytes(b, c, w) /\ Holds(a, items, w)  BY <1>6, <1>8, <1>9
  <2> HIDE DEF a, b, c
  <2>2. SameBytes(a, b, w)  BY <1>5, <2>1, FewerBytes
  <2>3. Holds(b, items, w)  BY <1>6, <2>1, <2>2, HoldsKept
  <2>4. Holds(c, items, w)  BY <1>6, <2>1, <2>3, HoldsKept
  <2>5. QED  BY <2>4 DEF c
<1>11. Len(reader'.buff) = w /\ Len(got) = 0  BY <1>6, <1>9 DEF StreamOK
<1>12. TypesInv'  BY <1>1, <1>2, <1>4, <1>8, <1>9, <1>11 DEF TypesInv
<1>13. WriterInv'  BY <1>2 DEF WriterInv
<1>14. ReaderInv'
  <2>1. PICK pos : Layout(reader'.buff, items, pos, w)  BY <1>10 DEF Holds
  <2>2. pos[0] = 4  BY <2>1 DEF Layout
  <2>3. reader'.read = pos[Len(got')]  BY <1>2, <1>9, <1>11, <2>2
  <2>4. Layout(reader'.buff, items', pos, Len(reader'.buff))  BY <1>2, <1>11, <2>1
  <2>5. writer'.write = Len(reader'.buff)  BY <1>8, <1>11
  <2>6. QED  BY <2>3, <2>4, <2>5 DEF ReaderInv
<1>15. GotInv'
  <2>1. 1 .. Len(got') = {}  BY <1>2, <1>11
  <2>2. QED  BY <1>2, <2>1 DEF GotInv
<1>16. AnswerInv'
  <2>1. EchoItems' = EchoItems  BY <1>2 DEF EchoItems
  <2>2. QED  BY <1>1, <1>2, <1>6, <2>1 DEF AnswerInv
<1>17. QED  BY <1>12, <1>13, <1>14, <1>15, <1>16 DEF StreamInv

LEMMA ReadNextKeeps ==
  ASSUME StreamInv, ReadNext
  PROVE  StreamInv'
<1>1. TypesInv /\ ReaderInv /\ GotInv /\ AnswerInv  BY DEF StreamInv
<1> DEFINE r == ReadItem(reader, items[Len(got) + 1], ArraySize)
<1>2. /\ phase = "reading" /\ Len(got) < Len(items)
      /\ reader' = r.s /\ got' = Append(got, r.values)
      /\ phase' = IF Unreadable(items[Len(got) + 1]) THEN "lost" ELSE phase
      /\ writer' = writer /\ items' = items /\ tries' = tries /\ answer' = answer
      /\ echoed' = echoed
  BY DEF ReadNext
<1>3. PICK n \in Nat : n = Len(reader.buff) /\ StreamOK(reader, n)
  BY <1>1, LenProperties DEF TypesInv, StreamOK
<1>4. PICK l \in Nat, m \in Nat : l = Len(got) /\ m = Len(items) /\ l < m
  BY <1>1, <1>2, LenProperties DEF TypesInv
<1>5. PICK item \in ItemType : item = items[l + 1]
  <2>1. l + 1 \in 1 .. Len(items)  BY <1>4
  <2>2. items \in Seq(ItemType)  BY <1>1 DEF TypesInv
  <2>3. QED  BY <2>1, <2>2, ElementOfSeq
<1>6. PICK pos : Layout(reader.buff, items, pos, n) /\ reader.read = pos[l] /\ writer.write = n
  BY <1>1, <1>2, <1>3, <1>4 DEF ReaderInv
<1>7. /\ ItemAt(reader.buff, reader.read, item) /\ pos[l + 1] = reader.read + ItemSize(item)
      /\ pos[l + 1] <= n
  <2>1. l + 1 \in 1 .. Len(items) /\ (l + 1) - 1 = l /\ l + 1 \in 0 .. Len(items)  BY <1>4
  <2>2. pos[l + 1] \in 4 .. n  BY <1>6, <2>1 DEF Layout
  <2>3. /\ pos[l + 1] = pos[(l + 1) - 1] + ItemSize(items[l + 1])
        /\ ItemAt(reader.buff, pos[(l + 1) - 1], items[l + 1])
    BY <1>6, <2>1 DEF Layout
  <2>4. QED  BY <1>5, <1>6, <2>1, <2>2, <2>3
<1>8. IF Readable(item, ArraySize)
      THEN ItemPassed(r.s, reader, item, n) /\ r.values = item.values
      ELSE r = [s |-> reader, values |-> << >>]
  <2>1. reader.read + ItemSize(item) <= n  BY <1>7
  <2>2. ArraySize \in Nat  BY StreamLimits
  <2>3. r = ReadItem(reader, item, ArraySize)  BY <1>4, <1>5
  <2> HIDE DEF r
  <2>4. IF Readable(item, ArraySize)
        THEN /\ ItemPassed(ReadItem(reader, item, ArraySize).s, reader, item, n)
             /\ ReadItem(reader, item, ArraySize).values = item.values
        ELSE ReadItem(reader, item, ArraySize) = [s |-> reader, values |-> << >>]
    BY <1>3, <1>7, <2>1, <2>2, ItemRead
  <2>5. QED  BY <2>3, <2>4
<1> HIDE DEF r
<1>9. Unreadable(item) <=> ~Readable(item, ArraySize)
  <2>1. Len(item.values) \in Nat /\ ArraySize \in Nat  BY ItemSizes, StreamLimits
  <2>2. QED  BY <2>1 DEF Unreadable, Readable
<1>10. phase' = IF Readable(item, ArraySize) THEN "reading" ELSE "lost"
  BY <1>2, <1>4, <1>5, <1>9
<1>11. /\ StreamOK(reader', n) /\ reader'.buff = reader.buff /\ Len(reader'.buff) = n
       /\ phase' # "lost" => reader'.read = pos[l + 1]
  <2>1. CASE Readable(item, ArraySize)
    <3>1. StreamOK(r.s, n) /\ r.s.buff = reader.buff /\ r.s.read = reader.read + ItemSize(item)
      BY <1>8, <2>1 DEF ItemPassed
    <3>2. QED  BY <1>2, <1>3, <1>7, <3>1
  <2>2. CASE ~Readable(item, ArraySize)
    <3>1. r.s = reader /\ phase' = "lost"  BY <1>8, <1>10, <2>2
    <3>2. QED  BY <1>2, <1>3, <3>1
  <2>3. QED  BY <2>1, <2>2
<1>12. r.values = (IF Readable(item, ArraySize) THEN item.values ELSE << >>)
       /\ r.values \in Seq(Nat)
  <2>1. item.values \in Seq(Nat)  BY ItemSizes
  <2>2. << >> \in Seq(Nat)  BY EmptySeq
  <2>3. CASE Readable(item, ArraySize)  BY <1>8, <2>1, <2>3
  <2>4. CASE ~Readable(item, ArraySize)
    <3>1. r.values = << >>  BY <1>8, <2>4
    <3>2. QED  BY <2>2, <2>4, <3>1
  <2>5. QED  BY <2>3, <2>4
<1>13. /\ got' \in Seq(Seq(Nat)) /\ Len(got') = l + 1 /\ got'[l + 1] = r.values
       /\ \A j \in 1 .. l : got'[j] = got[j]
  <2> DEFINE T == Seq(Nat)
  <2>1. got \in Seq(T) /\ r.values \in T  BY <1>1, <1>12 DEF TypesInv
  <2> HIDE DEF T
  <2>2. /\ Append(got, r.values) \in Seq(T) /\ Len(Append(got, r.values)) = Len(got) + 1
        /\ \A i \in 1 .. Len(got) : Append(got, r.values)[i] = got[i]
        /\ Append(got, r.values)[Len(got) + 1] = r.values
    BY <2>1, AppendProperties
  <2>3. QED  BY <1>2, <1>4, <2>2 DEF T
<1>14. TypesInv'
  <2>1. Len(got') <= Len(items') /\ phase' \in {"reading", "lost"}  BY <1>2, <1>4, <1>10, <1>13
  <2>2. QED  BY <1>1, <1>2, <1>11, <1>13, <2>1 DEF TypesInv
<1>15. WriterInv'  BY <1>10 DEF WriterInv
<1>16. ReaderInv'
  <2>1. Layout(reader'.buff, items', pos, Len(reader'.buff))  BY <1>2, <1>6, <1>11
  <2>2. writer'.write = Len(reader'.buff)  BY <1>2, <1>6, <1>11
  <2>3. phase' # "lost" => reader'.read = pos[Len(got')]  BY <1>11, <1>13
  <2>4. QED  BY <2>1, <2>2, <2>3 DEF ReaderInv
<1>17. GotInv'
  <2>1. ASSUME NEW j \in 1 .. l + 1, phase' # "lost" \/ j # l + 1
        PROVE  got'[j] = items'[j].values /\ Readable(items'[j], ArraySize)
    <3>1. CASE j = l + 1
      <4>1. Readable(item, ArraySize)  BY <1>10, <2>1, <3>1
      <4>2. QED  BY <1>2, <1>5, <1>12, <1>13, <3>1, <4>1
    <3>2. CASE j # l + 1
      <4>1. j \in 1 .. l  BY <3>2
      <4>2. got[j] = items[j].values /\ Readable(items[j], ArraySize)
        BY <1>1, <1>2, <1>4, <4>1 DEF GotInv
      <4>3. QED  BY <1>2, <1>13, <4>1, <4>2
    <3>3. QED  BY <3>1, <3>2
  <2>2. phase' = "lost" => got' # << >> /\ got'[Len(got')] = << >>
    <3>1. got' # << >>
      <4>1. Len(<< >>) = 0 /\ Len(got') # 0  BY <1>13
      <4>2. QED  BY <4>1
    <3>2. phase' = "lost" => got'[l + 1] = << >>  BY <1>10, <1>12, <1>13
    <3>3. QED  BY <1>13, <3>1, <3>2
  <2>3. phase' \notin {"answering", "done"}  BY <1>10
  <2>4. QED  BY <1>13, <2>1, <2>2, <2>3 DEF GotInv
<1>18. AnswerInv'
  <2>1. EchoItems' = EchoItems  BY <1>2 DEF EchoItems
  <2>2. QED  BY <1>1, <1>2, <1>10, <2>1 DEF AnswerInv
<1>19. QED  BY <1>14, <1>15, <1>16, <1>17, <1>18 DEF StreamInv

LEMMA AllReadKeeps ==
  ASSUME StreamInv, AllRead
  PROVE  StreamInv'
<1>1. TypesInv /\ ReaderInv /\ GotInv /\ AnswerInv  BY DEF StreamInv
<1>2. /\ phase = "reading" /\ Len(got) = Len(items) /\ phase' = "answering" /\ tries' = 0
      /\ writer' = writer /\ items' = items /\ reader' = reader /\ got' = got
      /\ answer' = answer /\ echoed' = echoed
  BY DEF AllRead
<1>3. Len(items) \in Nat /\ 0 \in 0 .. MaxWrites
  BY <1>1, LenProperties, StreamLimits DEF TypesInv
<1>4. TypesInv'  BY <1>1, <1>2, <1>3 DEF TypesInv
<1>5. WriterInv'  BY <1>2 DEF WriterInv
<1>6. ReaderInv'  BY <1>1, <1>2 DEF ReaderInv
<1>7. GotInv'  BY <1>1, <1>2, <1>3 DEF GotInv
<1>8. AnswerInv'
  <2>1. EchoItems' = EchoItems  BY <1>2 DEF EchoItems
  <2>2. QED  BY <1>1, <1>2, <2>1 DEF AnswerInv
<1>9. QED  BY <1>4, <1>5, <1>6, <1>7, <1>8 DEF StreamInv

(* The items that have been put into the answer are some of the message's. *)
LEMMA EchoesAreItems ==
  ASSUME TypesInv
  PROVE  EchoItems \in Seq(ItemType) /\ Len(EchoItems) = Len(echoed)
<1>1. PICK m \in Nat : m = Len(echoed)  BY LenProperties DEF TypesInv
<1>2. ASSUME NEW j \in 1 .. m PROVE items[echoed[j]] \in ItemType
  <2>1. echoed[j] \in 1 .. Len(items)  BY <1>1, ElementOfSeq DEF TypesInv
  <2>2. QED  BY <2>1, ElementOfSeq DEF TypesInv
<1>3. EchoItems \in [1 .. m -> ItemType]  BY <1>1, <1>2 DEF EchoItems
<1>4. EchoItems \in Seq(ItemType) /\ DOMAIN EchoItems = 1 .. m  BY <1>3
<1>5. QED  BY <1>1, <1>4, LenProperties

LEMMA EchoKeeps ==
  ASSUME StreamInv, Echo
  PROVE  StreamInv'
<1>1. TypesInv /\ ReaderInv /\ GotInv /\ AnswerInv  BY DEF StreamInv
<1> DEFINE done == WriteItem(answer, [items[tries + 1] EXCEPT !.values = got[tries + 1]])
<1>2. /\ phase = "answering" /\ tries < Len(items) /\ tries' = tries + 1
      /\ answer' = done.s
      /\ echoed' = IF done.ok THEN Append(echoed, tries + 1) ELSE echoed
      /\ phase' = phase /\ writer' = writer /\ items' = items /\ reader' = reader
      /\ got' = got
  BY DEF Echo
<1>3. PICK m \in Nat, k \in Nat :
        /\ m = Len(items) /\ k = tries /\ k < m /\ m = Len(got) /\ m <= MaxWrites
  BY <1>1, <1>2, LenProperties DEF TypesInv, GotInv
<1>4. PICK item \in ItemType : item = items[k + 1] /\ got[k + 1] = item.values
  <2>1. k + 1 \in 1 .. Len(items) /\ k + 1 \in 1 .. Len(got)  BY <1>3
  <2>2. items \in Seq(ItemType)  BY <1>1 DEF TypesInv
  <2>3. items[k + 1] \in ItemType  BY <2>1, <2>2, ElementOfSeq
  <2>4. got[k + 1] = items[k + 1].values  BY <1>1, <1>2, <2>1 DEF GotInv
  <2>5. QED  BY <2>3, <2>4
<1>5. done = WriteItem(answer, item)
  <2>1. [item EXCEPT !.values = item.values] = item  BY DEF ItemType
  <2>2. QED  BY <1>3, <1>4, <2>1
<1> HIDE DEF done
<1>6. PICK n \in Nat : n = AnswerSize /\ StreamOK(answer, n)  BY <1>1, StreamLimits DEF TypesInv
<1>7. /\ EchoItems \in Seq(ItemType) /\ Holds(answer.buff, EchoItems, answer.write)
      /\ Len(EchoItems) = Len(echoed)
  BY <1>1, EchoesAreItems DEF AnswerInv
<1>8. /\ StreamOK(answer', n) /\ echoed' \in Seq(1 .. m)
      /\ Holds(answer'.buff, EchoItems', answer'.write)
  <2>1. CASE answer.write + ItemSize(item) <= n
    <3>1. done.ok /\ ItemWritten(done.s, answer, item, n)
      <4>1. WriteItem(answer, item).ok /\ ItemWritten(WriteItem(answer, item).s, answer, item, n)
        BY <1>6, <2>1, ItemFits
      <4>2. QED  BY <1>5, <4>1
    <3>2. Holds(answer'.buff, Append(EchoItems, item), answer'.write)
      <4> DEFINE t == done.s
                 e == EchoItems
      <4>1. ItemWritten(t, answer, item, n) /\ e \in Seq(ItemType)
            /\ Holds(answer.buff, e, answer.write)
        BY <1>7, <3>1
      <4> HIDE DEF t, e
      <4>2. Holds(t.buff, Append(e, item), t.write)  BY <1>6, <4>1, HoldsWritten
      <4>3. QED  BY <1>2, <4>2 DEF t, e
    <3>3. StreamOK(answer', n)  BY <1>2, <3>1 DEF ItemWritten
    <3>4. PICK c \in Nat : c = Len(echoed)  BY <1>1, LenProperties DEF TypesInv
    <3>5. /\ echoed' \in Seq(1 .. m) /\ Len(echoed') = c + 1 /\ echoed'[c + 1] = k + 1
          /\ \A j \in 1 .. c : echoed'[j] = echoed[j]
      <4>1. echoed \in Seq(1 .. m) /\ k + 1 \in 1 .. m  BY <1>1, <1>3 DEF TypesInv
      <4>2. echoed' = Append(echoed, k + 1)  BY <1>2, <1>3, <3>1
      <4>3. QED  BY <3>4, <4>1, <4>2, AppendProperties
    <3>6. EchoItems' = Append(EchoItems, item)
      <4>1. EchoItems' = [j \in 1 .. c + 1 |-> items[echoed'[j]]]
        BY <1>2, <3>5 DEF EchoItems
      <4>2. EchoItems = [j \in 1 .. c |-> items[echoed[j]]]  BY <3>4 DEF EchoItems
      <4> DEFINE e == EchoItems
                 f == EchoItems'
      <4>3. e \in Seq(ItemType) /\ Len(e) = c  BY <1>7, <3>4
      <4>4. \A j \in 1 .. c : f[j] = e[j]
        <5> SUFFICES ASSUME NEW j \in 1 .. c PROVE f[j] = e[j]  OBVIOUS
        <5>1. j \in 1 .. c + 1  OBVIOUS
        <5>2. QED  BY <3>5, <4>1, <4>2, <5>1
      <4>5. f[c + 1] = item
        <5>1. c + 1 \in 1 .. c + 1  OBVIOUS
        <5>2. QED  BY <1>4, <3>5, <4>1, <5>1
      <4>6. f = [j \in 1 .. c + 1 |-> f[j]]  BY <4>1
      <4> HIDE DEF e, f
      <4>7. /\ Append(e, item) \in Seq(ItemType) /\ Len(Append(e, item)) = c + 1
            /\ \A j \in 1 .. c : Append(e, item)[j] = e[j]
            /\ Append(e, item)[c + 1] = item
        BY <4>3, AppendProperties
      <4> DEFINE g == Append(e, item)
      <4>8. g = [j \in 1 .. c + 1 |-> g[j]]
        <5>1. g \in Seq(ItemType) /\ Len(g) = c + 1  BY <4>7
        <5> HIDE DEF g
        <5>2. QED  BY <5>1
      <4>9. \A j \in 1 .. c + 1 : f[j] = g[j]
        <5> SUFFICES ASSUME NEW j \in 1 .. c + 1 PROVE f[j] = g[j]  OBVIOUS
        <5>1. j \in 1 .. c \/ j = c + 1  OBVIOUS
        <5>2. QED  BY <4>4, <4>5, <4>7, <5>1
      <4> HIDE DEF g
      <4>10. f = g  BY <4>6, <4>8, <4>9
      <4>11. QED  BY <4>10 DEF e, f, g
    <3>7. QED  BY <3>2, <3>3, <3>5, <3>6
  <2>2. CASE ~(answer.write + ItemSize(item) <= n)
    <3>1. done = [s |-> answer, ok |-> FALSE]
      <4>1. WriteItem(answer, item) = [s |-> answer, ok |-> FALSE]  BY <1>6, <2>2, ItemFits
      <4>2. QED  BY <1>5, <4>1
    <3>2. answer' = answer /\ echoed' = echoed  BY <1>2, <3>1
    <3>3. EchoItems' = EchoItems  BY <1>2, <3>2 DEF EchoItems
    <3>4. echoed \in Seq(1 .. m)  BY <1>1, <1>3 DEF TypesInv
    <3>5. QED  BY <1>6, <1>7, <3>2, <3>3, <3>4
  <2>3. QED  BY <2>1, <2>2
<1>9. TypesInv'
  <2>1. tries' \in 0 .. MaxWrites  BY <1>2, <1>3, StreamLimits
  <2>2. QED  BY <1>1, <1>2, <1>3, <1>6, <1>8, <2>1 DEF TypesInv
<1>10. WriterInv'  BY <1>2 DEF WriterInv
<1>11. ReaderInv'  BY <1>1, <1>2 DEF ReaderInv
<1>12. GotInv'
  <2>1. tries' <= Len(items')  BY <1>2, <1>3
  <2>2. QED  BY <1>1, <1>2, <2>1 DEF GotInv
<1>13. AnswerInv'  BY <1>2, <1>8 DEF AnswerInv
<1>14. QED  BY <1>9, <1>10, <1>11, <1>12, <1>13 DEF StreamInv

LEMMA SendAnswerKeeps ==
  ASSUME StreamInv, SendAnswer
  PROVE  StreamInv'
<1>1. TypesInv /\ ReaderInv /\ GotInv /\ AnswerInv  BY DEF StreamInv
<1>2. /\ phase = "answering" /\ answer' = finsh(answer) /\ phase' = "done"
      /\ writer' = writer /\ items' = items /\ tries' = tries /\ reader' = reader
      /\ got' = got /\ echoed' = echoed
  BY DEF SendAnswer
<1>3. PICK n \in Nat : n = AnswerSize /\ 4 <= n /\ StreamOK(answer, n)
  BY <1>1, StreamLimits DEF TypesInv
<1>4. PICK w \in Nat : w = answer.write /\ w <= n  BY <1>3 DEF StreamOK
<1>5. /\ StreamOK(answer', n) /\ answer'.write = w /\ ValueAt(answer'.buff, 0, w, 2)
      /\ SameBytes(answer.buff, answer'.buff, n)
  <2>1. IsFinished(finsh(answer), answer, n)  BY <1>3, Finished
  <2>2. QED  BY <1>2, <1>4, <2>1 DEF IsFinished
<1>6. EchoItems' = EchoItems  BY <1>2 DEF EchoItems
<1>7. Holds(answer'.buff, EchoItems, w)
  <2> DEFINE a == answer.buff
             b == answer'.buff
             e == EchoItems
  <2>1. SameBytes(a, b, n) /\ Holds(a, e, w) /\ e \in Seq(ItemType)
    BY <1>1, <1>4, <1>5, EchoesAreItems DEF AnswerInv
  <2> HIDE DEF a, b, e
  <2>2. SameBytes(a, b, w)  BY <1>4, <2>1, FewerBytes
  <2>3. Holds(b, e, w)  BY <2>1, <2>2, HoldsKept
  <2>4. QED  BY <2>3 DEF b, e
<1>8. TypesInv'  BY <1>1, <1>2, <1>3, <1>5 DEF TypesInv
<1>9. WriterInv'  BY <1>2 DEF WriterInv
<1>10. ReaderInv'  BY <1>1, <1>2 DEF ReaderInv
<1>11. GotInv'  BY <1>1, <1>2 DEF GotInv
<1>12. AnswerInv'  BY <1>2, <1>5, <1>6, <1>7 DEF AnswerInv
<1>13. QED  BY <1>8, <1>9, <1>10, <1>11, <1>12 DEF StreamInv

LEMMA StreamStep == StreamInv /\ [StreamNext]_streamVars => StreamInv'
<1> SUFFICES ASSUME StreamInv, [StreamNext]_streamVars PROVE StreamInv'  OBVIOUS
<1>1. tries \in Nat /\ MaxElements \in Nat  BY StreamLimits DEF StreamInv, TypesInv
<1>2. ASSUME NEW k \in Nat PROVE Number(k) \in Nat  BY <1>1, <1>2 DEF Number
<1>3. ASSUME NEW type \in Types, WriteValue(type) PROVE StreamInv'
  <2> DEFINE values == << Number(1) >>
  <2>1. Number(1) \in Nat  BY <1>2
  <2>2. values \in Seq(Nat) /\ Len(values) = 1  BY <2>1
  <2>3. type \in DOMAIN SizeOf  BY StreamLimits
  <2>4. Try("value", type, values)  BY <1>3 DEF WriteValue
  <2> HIDE DEF values
  <2>5. [kind |-> "value", type |-> type, values |-> values] \in ItemType
    BY <2>2, <2>3 DEF ItemType, Kinds
  <2>6. QED  BY <2>4, <2>5, TryKeeps
<1>4. ASSUME NEW kind \in {"array", "string"}, NEW type \in DOMAIN SizeOf,
             kind = "string" => type = "int8", NEW n \in 0 .. MaxElements,
             WriteElements(kind, type, n)
      PROVE  StreamInv'
  <2> DEFINE values == [k \in 1 .. n |-> Number(k)]
  <2>1. \A k \in 1 .. n : Number(k) \in Nat  BY <1>2
  <2>2. values \in Seq(Nat) /\ Len(values) = n
    <3>1. values \in [1 .. n -> Nat] /\ n \in Nat  BY <1>1, <2>1
    <3>2. values \in Seq(Nat) /\ DOMAIN values = 1 .. n  BY <3>1
    <3> HIDE DEF values
    <3>3. QED  BY <3>1, <3>2, LenProperties
  <2>3. Try(kind, type, values)  BY <1>4 DEF WriteElements
  <2> HIDE DEF values
  <2>4. [kind |-> kind, type |-> type, values |-> values] \in ItemType
    BY <1>1, <1>4, <2>2 DEF ItemType, Kinds
  <2>5. QED  BY <2>3, <2>4, TryKeeps
<1>5. CASE \E type \in Types : WriteValue(type)  BY <1>3, <1>5
<1>6. CASE \E type \in ArrayTypes, n \in 0 .. MaxElements : WriteElements("array", type, n)
  <2>1. PICK type \in ArrayTypes, n \in 0 .. MaxElements : WriteElements("array", type, n)
    BY <1>6
  <2>2. type \in DOMAIN SizeOf  BY StreamLimits
  <2>3. QED  BY <1>4, <2>1, <2>2
<1>7. CASE \E n \in 0 .. MaxElements : WriteElements("string", "int8", n)
  <2>1. PICK n \in 0 .. MaxElements : WriteElements("string", "int8", n)  BY <1>7
  <2>2. QED  BY <1>4, <2>1, SizesOfTypes
<1>8. CASE Send  BY <1>8, SendKeeps
<1>9. CASE ReadNext  BY <1>9, ReadNextKeeps
<1>10. CASE AllRead  BY <1>10, AllReadKeeps
<1>11. CASE Echo  BY <1>11, EchoKeeps
<1>12. CASE SendAnswer  BY <1>12, SendAnswerKeeps
<1>13. CASE UNCHANGED streamVars
  <2>1. /\ phase' = phase /\ writer' = writer /\ items' = items /\ tries' = tries
        /\ reader' = reader /\ got' = got /\ answer' = answer /\ echoed' = echoed
    BY <1>13 DEF streamVars
  <2>2. EchoItems' = EchoItems  BY <2>1 DEF EchoItems
  <2>3. TypesInv'  BY <2>1 DEF StreamInv, TypesInv
  <2>4. WriterInv'  BY <2>1 DEF StreamInv, WriterInv
  <2>5. ReaderInv'  BY <2>1 DEF StreamInv, ReaderInv
  <2>6. GotInv'  BY <2>1 DEF StreamInv, GotInv
  <2>7. AnswerInv'  BY <2>1, <2>2 DEF StreamInv, AnswerInv
  <2>8. QED  BY <2>3, <2>4, <2>5, <2>6, <2>7 DEF StreamInv
<1>14. QED
  BY <1>5, <1>6, <1>7, <1>8, <1>9, <1>10, <1>11, <1>12, <1>13 DEF StreamNext

LEMMA StreamTyped == StreamInv => StreamTypeOK
<1> SUFFICES ASSUME StreamInv PROVE StreamTypeOK  OBVIOUS
<1>1. TypesInv  BY DEF StreamInv
<1>2. ASSUME NEW s, NEW n, StreamOK(s, n)
      PROVE  /\ s.write \in 0 .. nSize(s) /\ s.read \in 0 .. nSize(s) /\ nSize(s) = n
             /\ \A k \in DOMAIN s.buff : s.buff[k].k <= s.buff[k].of
  <2>1. s.buff \in Seq(ByteType) /\ Len(s.buff) = n /\ s.write \in Nat /\ s.read \in Nat
        /\ s.write <= n /\ s.read <= n /\ n \in Nat
    BY <1>2, LenProperties DEF StreamOK
  <2>2. ASSUME NEW k \in DOMAIN s.buff PROVE s.buff[k].k <= s.buff[k].of
    <3>1. k \in 1 .. Len(s.buff)  BY <2>1, LenProperties
    <3>2. s.buff[k] \in ByteType  BY <2>1, <3>1, ElementOfSeq
    <3>3. QED  BY <3>2 DEF ByteType
  <2>3. QED  BY <2>1, <2>2 DEF nSize
<1>3. \A s \in {writer, reader, answer} :
        /\ s.write \in 0 .. nSize(s) /\ s.read \in 0 .. nSize(s)
        /\ \A k \in DOMAIN s.buff : s.buff[k].k <= s.buff[k].of
  <2>1. StreamOK(writer, MessageSize) /\ StreamOK(reader, Len(reader.buff))
        /\ StreamOK(answer, AnswerSize)
    BY <1>1 DEF TypesInv
  <2> SUFFICES ASSUME NEW s \in {writer, reader, answer}
               PROVE  /\ s.write \in 0 .. nSize(s) /\ s.read \in 0 .. nSize(s)
                      /\ \A k \in DOMAIN s.buff : s.buff[k].k <= s.buff[k].of
    OBVIOUS
  <2>2. \E n : StreamOK(s, n)  BY <2>1
  <2>3. QED  BY <1>2, <2>2
<1>4. nSize(writer) = MessageSize /\ nSize(answer) = AnswerSize
  BY <1>1 DEF TypesInv, StreamOK, nSize
<1>5. ASSUME NEW j \in DOMAIN items
      PROVE  items[j].kind \in Kinds /\ items[j].values \in Seq(Nat)
  <2>1. items \in Seq(ItemType)  BY <1>1 DEF TypesInv
  <2>2. j \in 1 .. Len(items)  BY <2>1, LenProperties
  <2>3. items[j] \in ItemType  BY <2>1, <2>2, ElementOfSeq
  <2>4. QED  BY <2>3, ItemSizes
<1>6. got \in Seq(Seq(Int)) /\ echoed \in Seq(Nat)
  <2>1. got \in Seq(Seq(Nat)) /\ echoed \in Seq(1 .. Len(items))  BY <1>1 DEF TypesInv
  <2>2. \A t \in Seq(Nat) : t \in Seq(Int)  OBVIOUS
  <2>3. got \in Seq(Seq(Int))
    <3>1. PICK l \in Nat : l = Len(got)  BY <2>1, LenProperties
    <3>2. \A j \in 1 .. l : got[j] \in Seq(Nat)
      <4> DEFINE T == Seq(Nat)
      <4>1. got \in Seq(T)  BY <2>1
      <4> HIDE DEF T
      <4>2. \A j \in 1 .. l : got[j] \in T  BY <3>1, <4>1, ElementOfSeq
      <4>3. QED  BY <4>2 DEF T
    <3>3. \A j \in 1 .. l : got[j] \in Seq(Int)  BY <2>2, <3>2
    <3> DEFINE U == Seq(Int)
    <3>4. got = [j \in 1 .. l |-> got[j]]
      <4> DEFINE T == Seq(Nat)
      <4>1. got \in Seq(T)  BY <2>1
      <4> HIDE DEF T
      <4>2. QED  BY <3>1, <4>1
    <3>5. \A j \in 1 .. l : got[j] \in U  BY <3>3
    <3> HIDE DEF U
    <3>6. got \in [1 .. l -> U]  BY <3>4, <3>5
    <3>7. got \in Seq(U)  BY <3>6
    <3>8. QED  BY <3>7 DEF U
  <2>4. echoed \in Seq(Nat)  BY <2>1
  <2>5. QED  BY <2>3, <2>4
<1>7. QED  BY <1>1, <1>3, <1>4, <1>5, <1>6 DEF TypesInv, StreamTypeOK

-----------------------------------------------------------------------------
(* What is read from the answer, item after item: where the stream is      *)
(* after j of them, and their values.                                      *)
StreamAt(t, pos, j) == [buff |-> t.buff, write |-> t.write, read |-> pos[j]]

ValuesUpTo(j) == [i \in 1 .. j |-> items[echoed[i]].values]

BackFrom(x, j) ==
  LET r == ReadItem(x.s, items[echoed[j]], MaxElements)
  IN  [s |-> r.s, values |-> Append(x.values, r.values)]

LEMMA OneReadBack ==
  ASSUME StreamInv, phase \in {"answering", "done"},
         NEW w \in Nat, NEW t, StreamOK(t, w), NEW pos, Layout(t.buff, EchoItems, pos, w),
         NEW j \in 1 .. Len(echoed)
  PROVE  BackFrom([s |-> StreamAt(t, pos, j - 1), values |-> ValuesUpTo(j - 1)], j) =
           [s |-> StreamAt(t, pos, j), values |-> ValuesUpTo(j)]
<1>1. TypesInv /\ GotInv  BY DEF StreamInv
<1>2. PICK c \in Nat : c = Len(echoed)  BY <1>1, LenProperties DEF TypesInv
<1>3. PICK k \in 1 .. Len(items) : k = echoed[j]
  <2>1. echoed \in Seq(1 .. Len(items))  BY <1>1 DEF TypesInv
  <2>2. QED  BY <2>1, ElementOfSeq
<1>4. PICK item \in ItemType : item = items[k]
  <2>1. items \in Seq(ItemType)  BY <1>1 DEF TypesInv
  <2>2. QED  BY <2>1, ElementOfSeq
<1>5. Readable(item, MaxElements)
  <2>1. k \in 1 .. Len(got) /\ phase # "lost"  BY <1>1 DEF GotInv
  <2>2. Readable(item, ArraySize)  BY <1>1, <1>4, <2>1 DEF GotInv
  <2>3. QED  BY <2>2 DEF Readable, ItemType
<1>6. EchoItems[j] = item /\ Len(EchoItems) = c
  <2>1. EchoItems[j] = items[echoed[j]]  BY DEF EchoItems
  <2>2. QED  BY <1>1, <1>2, <1>3, <1>4, <2>1, EchoesAreItems
<1>7. /\ pos[j] = pos[j - 1] + ItemSize(item) /\ ItemAt(t.buff, pos[j - 1], item)
      /\ pos[j] \in 4 .. w /\ pos[j - 1] \in 4 .. w
  <2>1. j \in 0 .. c /\ j - 1 \in 0 .. c /\ j \in 1 .. c  BY <1>2
  <2>2. QED  BY <1>6, <2>1 DEF Layout
<1> DEFINE s == StreamAt(t, pos, j - 1)
           r == ReadItem(s, item, MaxElements)
           vs == ValuesUpTo(j - 1)
<1>8. StreamOK(s, w) /\ s.buff = t.buff /\ s.write = t.write /\ s.read = pos[j - 1]
  BY <1>7 DEF StreamOK, StreamAt
<1> HIDE DEF s
<1>9. ItemPassed(r.s, s, item, w) /\ r.values = item.values
  <2>1. s.read + ItemSize(item) <= w /\ ItemAt(s.buff, s.read, item)  BY <1>7, <1>8
  <2>2. MaxElements \in Nat  BY StreamLimits
  <2>3. QED  BY <1>5, <1>8, <2>1, <2>2, ItemRead
<1> HIDE DEF r
<1>10. r.s = StreamAt(t, pos, j)
  <2>1. /\ r.s \in [buff : Seq(ByteType), write : Nat, read : Nat] /\ r.s.buff = t.buff
        /\ r.s.write = t.write /\ r.s.read = pos[j]
    BY <1>7, <1>8, <1>9 DEF ItemPassed, StreamOK
  <2>2. r.s = [buff |-> r.s.buff, write |-> r.s.write, read |-> r.s.read]  BY <2>1
  <2>3. QED  BY <2>1, <2>2 DEF StreamAt
<1>11. Append(vs, item.values) = ValuesUpTo(j)
  <2> DEFINE V(i) == items[echoed[i]].values
             S == Seq(Nat)
             all == ValuesUpTo(j)
             p == j - 1
  <2>1. \A i \in 1 .. c : V(i) \in S
    <3> SUFFICES ASSUME NEW i \in 1 .. c PROVE V(i) \in S  OBVIOUS
    <3>1. echoed \in Seq(1 .. Len(items)) /\ items \in Seq(ItemType)  BY <1>1 DEF TypesInv
    <3>2. echoed[i] \in 1 .. Len(items)  BY <1>2, <3>1, ElementOfSeq
    <3>3. items[echoed[i]] \in ItemType  BY <3>1, <3>2, ElementOfSeq
    <3>4. QED  BY <3>3, ItemSizes
  <2>2. V(j) = item.values  BY <1>3, <1>4
  <2>3. p \in Nat /\ j = p + 1 /\ j \in 1 .. c /\ \A i \in 1 .. p : i \in 1 .. c  BY <1>2
  <2>4. vs = [i \in 1 .. p |-> V(i)]  BY DEF ValuesUpTo
  <2>5. all = [i \in 1 .. p + 1 |-> V(i)]  BY <2>3 DEF ValuesUpTo
  <2> HIDE DEF V, S, vs, all, p
  <2>6. vs \in [1 .. p -> S]  BY <2>1, <2>3, <2>4
  <2>7. vs \in Seq(S) /\ DOMAIN vs = 1 .. p  BY <2>3, <2>6
  <2>8. Len(vs) = p  BY <2>3, <2>7, LenProperties
  <2>9. V(j) \in S  BY <2>1, <2>3
  <2> DEFINE a == Append(vs, V(j))
  <2>10. /\ a \in Seq(S) /\ Len(a) = p + 1 /\ a[p + 1] = V(j)
         /\ \A i \in 1 .. p : a[i] = vs[i]
    BY <2>7, <2>8, <2>9, AppendProperties
  <2> HIDE DEF a
  <2>11. a = [i \in 1 .. p + 1 |-> a[i]]  BY <2>10
  <2>12. ASSUME NEW i \in 1 .. p + 1 PROVE a[i] = V(i)
    <3>1. i \in 1 .. p \/ i = p + 1  BY <2>3
    <3>2. QED  BY <2>3, <2>4, <2>10, <3>1
  <2>13. a = all  BY <2>5, <2>11, <2>12
  <2>14. QED  BY <2>2, <2>13 DEF a, all
<1>12. BackFrom([s |-> s, values |-> vs], j) = [s |-> r.s, values |-> Append(vs, r.values)]
  BY <1>3, <1>4 DEF BackFrom, r
<1>13. QED  BY <1>9, <1>10, <1>11, <1>12 DEF s

LEMMA AllReadBack ==
  ASSUME StreamInv, phase = "done"
  PROVE  /\ ReadBack.s.read = answer.write
         /\ ReadBack.values = [j \in DOMAIN echoed |-> items[echoed[j]].values]
<1>1. TypesInv /\ AnswerInv  BY DEF StreamInv
<1>2. PICK c \in Nat : c = Len(echoed) /\ DOMAIN echoed = 1 .. c
  BY <1>1, LenProperties DEF TypesInv
<1>3. PICK n \in Nat : StreamOK(answer, n)  BY <1>1, StreamLimits DEF TypesInv
<1>4. PICK w \in Nat : w = answer.write  BY <1>3 DEF StreamOK
<1>5. /\ EchoItems \in Seq(ItemType) /\ Holds(answer.buff, EchoItems, w) /\ Len(EchoItems) = c
      /\ ValueAt(answer.buff, 0, w, 2)
  BY <1>1, <1>2, <1>4, EchoesAreItems DEF AnswerInv
<1> DEFINE t == Opened(answer)
<1>6. StreamOK(t, w) /\ t.read = 4 /\ SameBytes(answer.buff, t.buff, w)
  <2>1. 4 <= w  BY <1>5, HoldsBehindCommand
  <2>2. HasArrived(t, answer)  BY <1>3, <1>4, <1>5, <2>1, Arrives
  <2> HIDE DEF t
  <2>3. QED  BY <1>4, <2>2 DEF HasArrived
<1> DEFINE Body(back) == [j \in 0 .. Len(echoed) |->
             IF j = 0 THEN [s |-> t, values |-> << >>] ELSE BackFrom(back[j - 1], j)]
           b == CHOOSE back : back = Body(back)
<1>7. ReadBack = b[Len(echoed)]  BY DEF ReadBack, BackFrom, Opened
<1> HIDE DEF t
<1>8. PICK pos : Layout(t.buff, EchoItems, pos, w)
  <2>1. Holds(t.buff, EchoItems, w)  BY <1>5, <1>6, HoldsKept
  <2>2. QED  BY <2>1 DEF Holds
<1>9. pos[0] = 4 /\ pos[c] = w  BY <1>5, <1>8 DEF Layout
<1> DEFINE F(j) == [s |-> StreamAt(t, pos, j), values |-> ValuesUpTo(j)]
           f == [j \in 0 .. c |-> F(j)]
<1>10. F(0) = [s |-> t, values |-> << >>]
  <2>1. StreamAt(t, pos, 0) = t
    <3>1. t \in [buff : Seq(ByteType), write : Nat, read : Nat]  BY <1>6 DEF StreamOK
    <3>2. t = [buff |-> t.buff, write |-> t.write, read |-> t.read]  BY <3>1
    <3>3. QED  BY <1>6, <1>9, <3>2 DEF StreamAt
  <2>2. ValuesUpTo(0) = << >>  BY DEF ValuesUpTo
  <2>3. QED  BY <2>1, <2>2
<1>11. ASSUME NEW j \in 1 .. c PROVE BackFrom(F(j - 1), j) = F(j)
  <2>1. phase \in {"answering", "done"} /\ j \in 1 .. Len(echoed)  BY <1>2
  <2>2. QED  BY <1>6, <1>8, <2>1, OneReadBack
<1> HIDE DEF F
<1>12. f = Body(f)
  <2>1. ASSUME NEW j \in 0 .. c
        PROVE  F(j) = IF j = 0 THEN [s |-> t, values |-> << >>] ELSE BackFrom(f[j - 1], j)
    <3>1. CASE j = 0  BY <1>10, <3>1
    <3>2. CASE j # 0
      <4>1. j \in 1 .. c /\ j - 1 \in 0 .. c  BY <3>2
      <4>2. f[j - 1] = F(j - 1)  BY <4>1
      <4> HIDE DEF f
      <4>3. QED  BY <1>11, <3>2, <4>1, <4>2
    <3>3. QED  BY <3>1, <3>2
  <2>2. QED  BY <1>2, <2>1
<1>13. b = Body(b)
  <2> HIDE DEF Body, f
  <2>1. QED  BY <1>12
<1>14. \A j \in 0 .. c : b[j] = IF j = 0 THEN [s |-> t, values |-> << >>] ELSE BackFrom(b[j - 1], j)
  <2> HIDE DEF b
  <2>1. QED  BY <1>2, <1>13
<1> HIDE DEF b, Body, f
<1> DEFINE T == {j \in Nat : j <= c => b[j] = F(j)}
<1>15. 0 \in T
  <2>1. 0 \in 0 .. c  OBVIOUS
  <2>2. QED  BY <1>10, <1>14, <2>1
<1>16. ASSUME NEW j \in Nat, j \in T PROVE j + 1 \in T
  <2> SUFFICES ASSUME j + 1 <= c PROVE b[j + 1] = F(j + 1)  OBVIOUS
  <2>1. b[j] = F(j) /\ j + 1 \in 0 .. c /\ j + 1 \in 1 .. c /\ j + 1 # 0 /\ (j + 1) - 1 = j
    BY <1>16
  <2>2. b[j + 1] = BackFrom(b[j], j + 1)  BY <1>14, <2>1
  <2>3. BackFrom(F(j), j + 1) = F(j + 1)
    <3>1. PICK k \in 1 .. c : k = j + 1 /\ k - 1 = j  BY <2>1
    <3>2. BackFrom(F(k - 1), k) = F(k)  BY <1>11
    <3>3. QED  BY <3>1, <3>2
  <2>4. QED  BY <2>1, <2>2, <2>3
<1>17. b[c] = F(c)
  <2> HIDE DEF T
  <2>1. \A j \in Nat : j \in T  BY <1>15, <1>16, AllNumbers
  <2>2. c \in T  BY <2>1
  <2>3. QED  BY <2>2 DEF T
<1>18. ReadBack = [s |-> StreamAt(t, pos, c), values |-> ValuesUpTo(c)]
  BY <1>2, <1>7, <1>17 DEF F
<1>19. ReadBack.s.read = pos[c] /\ ReadBack.values = ValuesUpTo(c)  BY <1>18 DEF StreamAt
<1>20. QED  BY <1>2, <1>4, <1>9, <1>19 DEF ValuesUpTo

LEMMA RoundTripHolds == StreamInv => StreamRoundTrip
<1> SUFFICES ASSUME StreamInv PROVE StreamRoundTrip  OBVIOUS
<1>1. TypesInv /\ ReaderInv /\ GotInv  BY DEF StreamInv
<1>2. DOMAIN got = 1 .. Len(got)  BY <1>1, LenProperties DEF TypesInv
<1>3. ASSUME NEW j \in DOMAIN got
      PROVE  got[j] = IF phase = "lost" /\ j = Len(got) THEN << >> ELSE items[j].values
  BY <1>1, <1>2 DEF GotInv
<1>4. phase \in {"answering", "done"} => reader.read = writer.write
  <2> SUFFICES ASSUME phase \in {"answering", "done"} PROVE reader.read = writer.write  OBVIOUS
  <2>1. PICK pos : Layout(reader.buff, items, pos, Len(reader.buff))
                   /\ reader.read = pos[Len(got)] /\ writer.write = Len(reader.buff)
    BY <1>1 DEF ReaderInv
  <2>2. Len(got) = Len(items)  BY <1>1 DEF GotInv
  <2>3. pos[Len(items)] = Len(reader.buff)  BY <2>1 DEF Layout
  <2>4. QED  BY <2>1, <2>2, <2>3
<1>5. phase = "done" =>
        /\ ReadBack.s.read = answer.write
        /\ ReadBack.values = [j \in DOMAIN echoed |-> items[echoed[j]].values]
  BY AllReadBack
<1>6. QED  BY <1>3, <1>4, <1>5 DEF StreamRoundTrip

-----------------------------------------------------------------------------
(* The streams hold the items that were written, one behind the other, and *)
(* the reader stands behind the last one it has read (CELLStream,          *)
(* CELLMsgStream).                                                         *)
THEOREM StreamInvariant == StreamSpec => []StreamInv
<1>1. StreamInit => StreamInv  BY StreamStarts
<1>2. StreamInv /\ [StreamNext]_streamVars => StreamInv'  BY StreamStep
<1>3. QED  BY <1>1, <1>2, PTL DEF StreamSpec

(* What was accepted by one side is what the other reads, entirely and in  *)
(* order, and so is the answer (CELLStream, CELLWriteStream::finsh,        *)
(* MyServer::OnNetMsg).                                                    *)
THEOREM WhatIsWrittenIsRead == StreamSpec => []StreamRoundTrip
<1>1. QED  BY StreamInvariant, RoundTripHolds, PTL

(* The variables of a message on its way have their types, and no position *)
(* of a stream is behind its end (CELLStream).                             *)
THEOREM StreamTypes == StreamSpec => []StreamTypeOK
<1>1. QED  BY StreamInvariant, StreamTyped, PTL

-----------------------------------------------------------------------------
(* The two side by side: each is what it is alone. *)
LEMMA PartsAlone == LibrarySpec => MemorySpec /\ StreamSpec
<1>1. LibraryInit => MemoryInit /\ StreamInit  BY DEF LibraryInit
<1>2. [LibraryNext]_<<library, poolVars, streamVars>> =>
        [MemoryNext]_poolVars /\ [StreamNext]_streamVars
  BY DEF LibraryNext
<1>3. QED  BY <1>1, <1>2, PTL DEF LibrarySpec, MemorySpec, StreamSpec

(* The variables of the pools and of the streams have their types          *)
(* (CELLMemoryMgr, CELLObjectPool, CELLStream).                            *)
THEOREM LibraryTypes == LibrarySpec => []LibraryTypeOK
<1>1. MemoryTypeOK /\ StreamTypeOK => LibraryTypeOK  BY DEF LibraryTypeOK
<1>2. QED  BY <1>1, PartsAlone, MemoryTypes, StreamTypes, PTL
=============================================================================
