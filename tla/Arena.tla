-------------------------------- MODULE Arena --------------------------------
(***************************************************************************)
(* The arena of src/src/support/arena.c with the program that uses it: a   *)
(* list of chunks of which head is the one being filled.                   *)
(*                                                                         *)
(* A chunk is the number of the arena_chunk_new() call that made it, 0 is  *)
(* the null pointer, and an address is a chunk and an offset in it.        *)
(* malloc() is external: it returns aligned memory of its own for each     *)
(* chunk, so that addresses of two chunks are never equal.                 *)
(***************************************************************************)
EXTENDS Integers, Sequences

CONSTANTS Word,         \* sizeof(void *)
          Ids,          \* the objects the program keeps in the arena
          InitSizes,    \* bound: sizes given to arena_init()
          Sizes,        \* bound: sizes given to the other functions; 0 is
                        \* refused by the assert of arena_alloc()
          MaxChunks,    \* bound: chunks ever made
          MaxResets     \* bound: calls of arena_reset()

ASSUME WordAssumption == Word \in Nat \ {0}
ASSUME SizesAssumption == InitSizes \subseteq Nat /\ Sizes \subseteq Nat \ {0}

VARIABLES chunks,       \* the fields size and next of each chunk
          arena,        \* struct arena
          allocated,    \* the chunks not yet given back to free()
          blocks,       \* the live objects: [chunk, at, size]
          mem,          \* the contents of their bytes
          resets        \* how many times arena_reset() was called

vars == << chunks, arena, allocated, blocks, mem, resets >>

NULL == 0

-----------------------------------------------------------------------------
(* Mutant of align_up: down instead. *)
align_down(n) == Word * (n \div Word)

(* The next multiple of the word. *)
align_up(n) == Word * ((n + Word - 1) \div Word)

alloc_needed(x) == ((x + 32) * 3) \div 2

Extent(b) == {b.chunk} \X (b.at .. b.at + b.size - 1)

(* arena_alloc(): the head has room for size bytes. *)
Fits(size) == align_up(arena.offset) + size <= chunks[arena.head].size

(* The block it returns. *)
Place(size) ==
  IF Fits(size)
  THEN [chunk |-> arena.head, at |-> align_up(arena.offset), size |-> size]
  ELSE [chunk |-> Len(chunks) + 1, at |-> 0, size |-> size]

(* Mutant of ChunkSize: an object larger than a chunk is forgotten. *)
ChunkSizeOfNext(size) == arena.next_buffer_size

ChunkSize(size) ==
  IF arena.next_buffer_size < size THEN size ELSE arena.next_buffer_size

(* chunk h of list s gets a next one *)
Linked(s, h, next) == [s EXCEPT ![h].next = next]

(* Mutant of Overflow: the new chunk is not linked to the old head. *)
OverflowWithoutLink(size) ==
  /\ Len(chunks) < MaxChunks
  /\ chunks' = Append(chunks, [size |-> ChunkSize(size), next |-> NULL])
  /\ allocated' = allocated \cup {Len(chunks) + 1}
  /\ arena' = [arena EXCEPT !.head = Len(chunks) + 1, !.offset = size,
                            !.next_buffer_size = alloc_needed(ChunkSize(size))]

Overflow(size) ==
  LET new == Len(chunks) + 1
  IN  /\ Len(chunks) < MaxChunks
      /\ chunks' = Append(Linked(chunks, arena.head, new),
                          [size |-> ChunkSize(size), next |-> NULL])
      /\ allocated' = allocated \cup {new}
      /\ arena' = [arena EXCEPT !.head = new, !.offset = size,
                                !.next_buffer_size = alloc_needed(ChunkSize(size))]

arena_alloc(size) ==
  IF Fits(size)
  THEN /\ arena' = [arena EXCEPT !.offset = align_up(arena.offset) + size]
       /\ UNCHANGED << chunks, allocated >>
  ELSE Overflow(size)

(* Mutant of InPlace: any block of the head may be extended. *)
InPlaceAnywhere(b, size) ==
  b.chunk = arena.head /\ b.at + size <= chunks[arena.head].size

(* arena_realloc(): b is the last block of the head and size still fits. *)
InPlace(b, size) ==
  /\ b.chunk = arena.head /\ b.at + b.size = arena.offset
  /\ b.at + size <= chunks[arena.head].size

(* The chunks that are reached from chunk i. *)
Chain ==
  LET chain[i \in 0 .. Len(chunks)] ==
        IF i = NULL THEN {} ELSE {i} \cup chain[chunks[i].next]
  IN  chain[arena.buffer]

-----------------------------------------------------------------------------
(* arena_init() *)
Init ==
  /\ \E size \in InitSizes :
       /\ chunks = << [size |-> size, next |-> NULL] >>
       /\ arena = [offset |-> 0, buffer |-> 1, head |-> 1, next_buffer_size |-> size]
  /\ allocated = {1}
  /\ blocks = << >>
  /\ mem = << >>
  /\ resets = 0

InUse == arena.buffer # NULL

(* The program allocates an object, or reallocates a null pointer, and     *)
(* fills the object with its own bytes.                                    *)
Alloc(id, size) ==
  LET b == Place(size)
  IN
  /\ InUse /\ id \notin DOMAIN blocks
  /\ arena_alloc(size)
  /\ blocks' = [i \in DOMAIN blocks \cup {id} |-> IF i = id THEN b ELSE blocks[i]]
  /\ mem' = [a \in DOMAIN mem \cup Extent(b) |-> IF a \in Extent(b) THEN id ELSE mem[a]]
  /\ UNCHANGED resets

(* arena_realloc(): the bytes that both sizes have are kept or copied, the *)
(* program fills the others and forgets the old address.                   *)
Realloc(id, size) ==
  LET old == blocks[id]
      b   == IF InPlace(old, size) THEN [old EXCEPT !.size = size] ELSE Place(size)
      kept(a) == a[2] < b.at + old.size
  IN
  /\ InUse /\ id \in DOMAIN blocks
  /\ IF InPlace(old, size)
     THEN /\ arena' = [arena EXCEPT !.offset = old.at + size]
          /\ UNCHANGED << chunks, allocated >>
     ELSE arena_alloc(size)
  /\ blocks' = [blocks EXCEPT ![id] = b]
  /\ mem' = [a \in (DOMAIN mem \ Extent(old)) \cup Extent(b) |->
               IF a \notin Extent(b) THEN mem[a]
               ELSE IF kept(a) THEN mem[<< old.chunk, old.at + a[2] - b.at >>]
               ELSE id]
  /\ UNCHANGED resets

(* arena_reset(): the program forgets every object. *)
Reset ==
  /\ InUse /\ resets < MaxResets
  /\ arena' = [arena EXCEPT !.head = arena.buffer, !.offset = 0]
  /\ blocks' = << >>
  /\ mem' = << >>
  /\ resets' = resets + 1
  /\ UNCHANGED << chunks, allocated >>

(* arena_free(); the program ends after it. *)
Free ==
  /\ InUse
  /\ allocated' = allocated \ Chain
  /\ arena' = [offset |-> 0, buffer |-> NULL, head |-> NULL, next_buffer_size |-> 0]
  /\ blocks' = << >>
  /\ mem' = << >>
  /\ UNCHANGED << chunks, resets >>

Next ==
  \/ \E id \in Ids, size \in Sizes : Alloc(id, size) \/ Realloc(id, size)
  \/ Reset
  \/ Free

Spec == Init /\ [][Next]_vars

-----------------------------------------------------------------------------
(* The arena and its objects name chunks that exist, and the offset never  *)
(* leaves the head.                                                        *)
TypeOK ==
  /\ chunks \in Seq([size : Nat, next : Nat])
  /\ \A i \in 1 .. Len(chunks) : chunks[i].next <= Len(chunks)
  /\ arena \in [offset : Nat, buffer : Nat, head : Nat, next_buffer_size : Nat]
  /\ arena.head <= Len(chunks) /\ arena.buffer <= Len(chunks)
  /\ InUse => arena.head # NULL /\ arena.offset <= chunks[arena.head].size
  /\ DOMAIN blocks \subseteq Ids
  /\ \A i \in DOMAIN blocks :
       blocks[i] \in [chunk : 1 .. Len(chunks), at : Nat, size : Nat \ {0}]

(* No two live objects share a byte, whatever mix of allocation, extension *)
(* in place and copying made them; each lies in its chunk and is aligned.  *)
Aligned(b) == \E k \in 0 .. b.at : b.at = Word * k

BlocksAreSound ==
  /\ \A i, j \in DOMAIN blocks : i # j => Extent(blocks[i]) \cap Extent(blocks[j]) = {}
  /\ \A i \in DOMAIN blocks :
       /\ blocks[i].at + blocks[i].size <= chunks[blocks[i].chunk].size
       /\ Aligned(blocks[i])

(* Every object holds the bytes its owner wrote, through reallocation and  *)
(* through everything done to the other objects.                           *)
ContentsAreKept ==
  \A i \in DOMAIN blocks : \A a \in Extent(blocks[i]) : a \in DOMAIN mem /\ mem[a] = i

(* arena_free() reaches the chunk of every live object and, if the arena   *)
(* was never reset, every chunk that was made.                             *)
NothingIsLost ==
  /\ InUse => arena.head \in Chain
  /\ \A i \in DOMAIN blocks : blocks[i].chunk \in Chain
  /\ Chain \subseteq allocated
  /\ resets = 0 => Chain = allocated
=============================================================================
