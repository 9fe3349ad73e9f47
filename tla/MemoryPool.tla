------------------------------ MODULE MemoryPool ------------------------------
(***************************************************************************)
(* HelloMemory: the memory manager behind operator new and delete          *)
(* (MemoryMgr.hpp, Alloctor.cpp) and the pool that the objects of one      *)
(* class come from (CELLObjectPool.hpp).  A pool is an array of blocks     *)
(* whose headers form the list of the free ones; when it is empty the      *)
(* memory manager takes its memory from malloc, and the object pool from   *)
(* operator new[], that is, from the memory manager.                       *)
(*                                                                         *)
(* A call has its pool's mutex for as long as it works on it, so that each *)
(* call is one step and it does not matter which thread makes it.          *)
(* MemoryMgr::addRef, which has no caller, is left out, so that nRef says  *)
(* whether a block is in use.                                              *)
(***************************************************************************)
EXTENDS Integers, Sequences, SequencesExt, FiniteSets

CONSTANTS
  nSzie,         \* the sizes of the memory manager's classes: 64 to 1024
  nBlockSzie,    \* blocks of a class
  PointerSize,   \* what the sizes are rounded up to
  nPoolSzie,     \* objects of the object pool
  ObjectSize,    \* sizeof(Type)
  HeaderSize,    \* sizeof(NodeHeader)
  Sizes,         \* what the program asks operator new for
  MaxHeld        \* how much it holds at a time

ASSUME PoolConstants ==
  /\ nSzie \in Seq(Nat) /\ nSzie # << >>
  /\ \A k \in 1 .. Len(nSzie) - 1 : nSzie[k] < nSzie[k + 1]
  /\ nBlockSzie \in Nat \ {0} /\ nPoolSzie \in Nat \ {0} /\ PointerSize \in Nat \ {0}
  /\ ObjectSize \in Nat /\ HeaderSize \in Nat /\ Sizes \subseteq Nat /\ MaxHeld \in Nat

VARIABLES
  mem,    \* the pool of each class, a MemoryAlloc
  obj,    \* the object pool
  held    \* what the program holds: a kind, a size and where it is

poolVars == <<mem, obj, held>>

Classes == DOMAIN nSzie

(* MAX_MEMORY_SZIE *)
MaxMemory == nSzie[Len(nSzie)]

(* Block 0 is the null pointer.  A pool that has no memory yet has no list.*)
Unmade(n) == [pBuf |-> FALSE, pHeader |-> 0, pNext |-> [b \in 1 .. n |-> 0],
              nRef |-> [b \in 1 .. n |-> 0]]

(* MUTANT: one block too many is linked into the list. *)
initMemoryOneMore(pool) ==
  [pool EXCEPT !.pBuf = TRUE, !.pHeader = 1, !.pNext = [b \in DOMAIN @ |-> b + 1]]

(* initMemory and initPool: every block is free, in order. *)
initMemory(pool) ==
  [pool EXCEPT !.pBuf = TRUE, !.pHeader = 1,
               !.pNext = [b \in DOMAIN @ |-> IF b + 1 \in DOMAIN @ THEN b + 1 ELSE 0]]

(* The first free block and what is left; 0 if there is none. *)
Take(pool) ==
  IF pool.pHeader = 0 THEN [block |-> 0, left |-> pool]
  ELSE [block |-> pool.pHeader,
        left |-> [pool EXCEPT !.pHeader = pool.pNext[@], !.nRef[pool.pHeader] = 1]]

(* allocMemory makes the pool when it is first used. *)
allocMemory(pool) == Take(IF pool.pBuf THEN pool ELSE initMemory(pool))

(* MUTANT: the rest of the list is forgotten. *)
freeMemoryForgets(pool, b) ==
  [pool EXCEPT !.nRef[b] = @ - 1, !.pNext[b] = 0, !.pHeader = b]

(* freeMemory puts the block first in the list. *)
freeMemory(pool, b) ==
  [pool EXCEPT !.nRef[b] = @ - 1, !.pNext[b] = pool.pHeader, !.pHeader = b]

(* allocObjMemory and freeObjMemory, for a block of the pool. *)
allocObjMemory(pool) == Take(pool)
freeObjMemory(pool, b) ==
  [pool EXCEPT !.nRef[b] = @ - 1, !.pNext[b] = pool.pHeader, !.pHeader = b]

-----------------------------------------------------------------------------
(* init_szAlloc: the class that serves each size, and the room its blocks  *)
(* have (MemoryAlloctor).                                                  *)
szAlloc(size) == CHOOSE k \in Classes :
  size <= nSzie[k] /\ \A j \in 1 .. k - 1 : nSzie[j] < size

BlockSize(k) ==
  (nSzie[k] \div PointerSize) * PointerSize
    + IF nSzie[k] % PointerSize # 0 THEN PointerSize ELSE 0

(* Where a piece of memory is: block id of class k, of the object pool, or *)
(* a piece that malloc has given, which never gives one twice.             *)
Address(from, k, id) == [from |-> from, class |-> k, id |-> id]

Malloced == {piece.at.id : piece \in {h \in held : h.at.from = "malloc"}}

Malloc == Address("malloc", 0, CHOOSE n \in 1 .. MaxHeld + 1 :
                                 n \notin Malloced /\ \A m \in 1 .. n - 1 : m \in Malloced)

Hold(kind, size, at) ==
  held' = held \cup {[kind |-> kind, size |-> size, at |-> at]}

(* MemoryMgr::allocMem, for size bytes in which the program keeps kind. *)
allocMem(kind, size) ==
  IF size <= MaxMemory
  THEN LET k == szAlloc(size)
           got == allocMemory(mem[k])
       IN  /\ mem' = [mem EXCEPT ![k] = got.left]
           /\ Hold(kind, size, IF got.block = 0 THEN Malloc ELSE Address("mem", k, got.block))
  ELSE /\ Hold(kind, size, Malloc)
       /\ UNCHANGED mem

(* MemoryMgr::freeMem *)
freeMem(at) ==
  mem' = IF at.from = "malloc" THEN mem
         ELSE [mem EXCEPT ![at.class] = freeMemory(@, at.id)]

(* operator new and new[], and delete. *)
New(size) ==
  /\ Cardinality(held) < MaxHeld
  /\ allocMem("bytes", size)
  /\ UNCHANGED obj

Delete(piece) ==
  /\ piece.kind = "bytes"
  /\ freeMem(piece.at)
  /\ held' = held \ {piece}
  /\ UNCHANGED obj

(* createObject: a block of the pool, or bytes from operator new[] with a  *)
(* header in front.                                                        *)
createObject ==
  /\ Cardinality(held) < MaxHeld
  /\ LET got == allocObjMemory(obj)
     IN  /\ obj' = got.left
         /\ IF got.block = 0 THEN allocMem("object", ObjectSize + HeaderSize)
            ELSE /\ Hold("object", ObjectSize, Address("pool", 0, got.block))
                 /\ UNCHANGED mem

destroyObject(piece) ==
  /\ piece.kind = "object"
  /\ IF piece.at.from = "pool"
     THEN obj' = freeObjMemory(obj, piece.at.id) /\ UNCHANGED mem
     ELSE freeMem(piece.at) /\ UNCHANGED obj
  /\ held' = held \ {piece}

MemoryInit ==
  /\ mem = [k \in Classes |-> Unmade(nBlockSzie)]
  /\ obj = initMemory(Unmade(nPoolSzie))
  /\ held = {}

MemoryNext ==
  \/ \E size \in Sizes : New(size)
  \/ createObject
  \/ \E piece \in held : Delete(piece) \/ destroyObject(piece)

MemorySpec == MemoryInit /\ [][MemoryNext]_poolVars

-----------------------------------------------------------------------------
PoolTypeOK(pool, n) ==
  /\ pool.pBuf \in BOOLEAN
  /\ pool.pHeader \in 0 .. n
  /\ pool.pNext \in [1 .. n -> 0 .. n]
  /\ pool.nRef \in [1 .. n -> 0 .. 1]

MemoryTypeOK ==
  /\ DOMAIN mem = Classes
  /\ \A k \in Classes : PoolTypeOK(mem[k], nBlockSzie)
  /\ PoolTypeOK(obj, nPoolSzie)
  /\ \A piece \in held : piece.kind \in {"bytes", "object"} /\ piece.size \in Nat

(* The blocks that the next n allocations would take from a pool. *)
Walk(pool, n) ==
  LET next[k \in 0 .. n] ==
        IF k = 0 THEN pool.pHeader
        ELSE IF next[k - 1] = 0 THEN 0 ELSE pool.pNext[next[k - 1]]
  IN  next

HeldOf(from, k) ==
  {piece.at.id : piece \in {h \in held : h.at.from = from /\ h.at.class = k}}

(* The free list ends, and is exactly the blocks that nobody holds. *)
Disjoint(pool, n, inUse) ==
  pool.pBuf =>
    /\ Walk(pool, n)[n] = 0
    /\ {Walk(pool, n)[j] : j \in 0 .. n} \ {0} = (1 .. n) \ inUse
    /\ \A b \in 1 .. n : pool.nRef[b] = IF b \in inUse THEN 1 ELSE 0

(* No two pieces of memory that the program holds are the same, none is on *)
(* a free list, no block is lost, each is large enough for what was asked  *)
(* for, and the assertions on nRef hold, in whatever order objects and     *)
(* bytes are taken and given back, pools run empty and the one takes from  *)
(* the other (MemoryAlloc::allocMemory, freeMemory,                        *)
(* CELLObjectPool::allocObjMemory, freeObjMemory).                         *)
HandedOutOnce ==
  /\ \A g, h \in held : g # h => g.at # h.at
  /\ \A k \in Classes : Disjoint(mem[k], nBlockSzie, HeldOf("mem", k))
  /\ Disjoint(obj, nPoolSzie, HeldOf("pool", 0))
  /\ \A h \in held : h.at.from = "mem" => h.size <= BlockSize(h.at.class)
=============================================================================
