------------------------------ MODULE ArenaProofs ------------------------------
(***************************************************************************)
(* The objects of an arena never share memory and never lose their         *)
(* contents, for every word size, every mix of sizes and any number of     *)
(* chunks and resets.                                                      *)
(***************************************************************************)
EXTENDS Arena, WellFoundedInduction, TLAPS

-----------------------------------------------------------------------------
Chunk == [size : Nat, next : Nat]

(* A block that ends inside its chunk, and below the offset in the head,   *)
(* of an arena with the list s of chunks and the struct ar.                *)
InChunk(s, ar, b) ==
  /\ b \in [chunk : 1 .. Len(s), at : Nat, size : Nat \ {0}]
  /\ b.at + b.size <= s[b.chunk].size
  /\ b.chunk = ar.head => b.at + b.size <= ar.offset
  /\ Aligned(b)

(* Blocks that lie apart. *)
Apart(b, d) ==
  \/ b.chunk # d.chunk
  \/ b.at + b.size <= d.at
  \/ d.at + d.size <= b.at

(* The arena between two calls. *)
Usable ==
  /\ arena.head \in 1 .. Len(chunks) /\ arena.buffer \in 1 .. Len(chunks)
  /\ arena.offset <= chunks[arena.head].size

(* The inductive invariant. *)
IInv ==
  /\ chunks \in Seq(Chunk)
  /\ \A i \in 1 .. Len(chunks) : chunks[i].next <= Len(chunks)
  /\ arena \in [offset : Nat, buffer : Nat, head : Nat, next_buffer_size : Nat]
  /\ arena.head <= Len(chunks) /\ arena.buffer <= Len(chunks)
  /\ InUse => Usable
  /\ DOMAIN blocks \subseteq Ids
  /\ \A i \in DOMAIN blocks : InChunk(chunks, arena, blocks[i])
  /\ \A i, j \in DOMAIN blocks : i # j => Apart(blocks[i], blocks[j])
  /\ ContentsAreKept

-----------------------------------------------------------------------------
(* The fields of the chunks. *)
LEMMA ChunkFields ==
  ASSUME NEW s \in Seq(Chunk)
  PROVE  \A i \in 1 .. Len(s) : s[i].size \in Nat /\ s[i].next \in Nat
<1>1. \A i \in 1 .. Len(s) : s[i] \in Chunk
  OBVIOUS
<1>. QED
  BY <1>1 DEF Chunk

(* Linking a chunk to the next leaves the list of chunks what it is. *)
LEMMA LinkedChunks ==
  ASSUME NEW s \in Seq(Chunk), NEW h \in 1 .. Len(s), NEW n \in Nat
  PROVE  /\ Linked(s, h, n) \in Seq(Chunk)
         /\ Len(Linked(s, h, n)) = Len(s)
         /\ \A i \in 1 .. Len(s) :
              /\ Linked(s, h, n)[i].size = s[i].size
              /\ Linked(s, h, n)[i].next = IF i = h THEN n ELSE s[i].next
<1>. DEFINE e == [s[h] EXCEPT !.next = n]
<1>1. e = [size |-> s[h].size, next |-> n] /\ e \in Chunk
  <2>1. s[h] \in Chunk
    OBVIOUS
  <2>. QED
    BY <2>1 DEF Chunk
<1>2. Linked(s, h, n) = [s EXCEPT ![h] = e]
  BY DEF Linked
<1>. HIDE DEF e
<1>3. /\ [s EXCEPT ![h] = e] \in Seq(Chunk)
      /\ Len([s EXCEPT ![h] = e]) = Len(s)
      /\ \A i \in 1 .. Len(s) : [s EXCEPT ![h] = e][i] = IF i = h THEN e ELSE s[i]
  BY <1>1
<1>. QED
  <2>1. /\ Linked(s, h, n) \in Seq(Chunk)
        /\ Len(Linked(s, h, n)) = Len(s)
    BY <1>2, <1>3
  <2>2. ASSUME NEW i \in 1 .. Len(s)
        PROVE  /\ Linked(s, h, n)[i].size = s[i].size
               /\ Linked(s, h, n)[i].next = IF i = h THEN n ELSE s[i].next
    <3>1. Linked(s, h, n)[i] = IF i = h THEN e ELSE s[i]
      BY <1>2, <1>3
    <3>2. e.size = s[h].size /\ e.next = n
      BY <1>1
    <3>. QED
      BY <3>1, <3>2
  <2>. QED
    BY <2>1, <2>2

(* align_up() rounds up, to a multiple of the word. *)
LEMMA AlignUp ==
  ASSUME NEW n \in Nat
  PROVE  /\ align_up(n) \in Nat
         /\ align_up(n) >= n
         /\ \E k \in 0 .. align_up(n) : align_up(n) = Word * k
<1>. DEFINE k == (n + Word - 1) \div Word
<1>1. k \in Nat
  BY WordAssumption, Z3
<1>2. Word * k >= n
  BY WordAssumption, Z3
<1>3. Word * k \in Nat /\ k <= Word * k
  <2>. HIDE DEF k
  <2>. QED
    BY <1>1, WordAssumption, Z3
<1>. HIDE DEF k
<1>4. align_up(n) = Word * k
  BY DEF align_up, k
<1>. QED
  BY <1>1, <1>2, <1>3, <1>4

(* Extents of blocks that lie apart are disjoint. *)
LEMMA ApartIsDisjoint ==
  ASSUME NEW s, NEW ar, NEW b, NEW d,
         InChunk(s, ar, b), InChunk(s, ar, d), Apart(b, d)
  PROVE  Extent(b) \cap Extent(d) = {}
<1>. SUFFICES ASSUME NEW a, a \in Extent(b), a \in Extent(d)
              PROVE  FALSE
  OBVIOUS
<1>1. /\ a[1] = b.chunk /\ a[2] \in b.at .. b.at + b.size - 1
      /\ a[1] = d.chunk /\ a[2] \in d.at .. d.at + d.size - 1
  BY DEF Extent
<1>2. /\ b.at \in Nat /\ b.size \in Nat
      /\ d.at \in Nat /\ d.size \in Nat
  BY DEF InChunk
<1>3. /\ b.at <= a[2] /\ a[2] < b.at + b.size
      /\ d.at <= a[2] /\ a[2] < d.at + d.size
      /\ a[2] \in Int
  BY <1>1, <1>2
<1>4. b.at + b.size <= d.at \/ d.at + d.size <= b.at
  BY <1>1 DEF Apart
<1>. QED
  BY <1>2, <1>3, <1>4

(* What arena_alloc() returns, and what it leaves. *)
LEMMA AllocSound ==
  ASSUME IInv, InUse, NEW size \in Sizes, arena_alloc(size),
         NEW b, b = Place(size)
  PROVE  /\ chunks' \in Seq(Chunk)
         /\ Len(chunks) <= Len(chunks')
         /\ \A i \in 1 .. Len(chunks') : chunks'[i].next <= Len(chunks')
         /\ \A i \in 1 .. Len(chunks) : chunks'[i].size = chunks[i].size
         /\ arena' \in [offset : Nat, buffer : Nat, head : Nat, next_buffer_size : Nat]
         /\ Usable'
         /\ InChunk(chunks', arena', b)
         /\ \A d : InChunk(chunks, arena, d) => InChunk(chunks', arena', d) /\ Apart(b, d)
<1>. DEFINE n == Len(chunks) + 1
<1>1. size \in Nat \ {0}
  BY SizesAssumption
<1>2. /\ Len(chunks) \in Nat /\ n \in Nat \ {0}
      /\ arena.offset \in Nat /\ arena.head \in 1 .. Len(chunks)
      /\ arena.buffer \in 1 .. Len(chunks) /\ arena.next_buffer_size \in Nat
      /\ arena.offset <= chunks[arena.head].size
      /\ \A i \in 1 .. Len(chunks) : chunks[i].size \in Nat /\ chunks[i].next \in Nat
  <2>1. chunks \in Seq(Chunk) /\ Usable
    BY DEF IInv
  <2>2. arena.offset \in Nat /\ arena.next_buffer_size \in Nat
    BY DEF IInv
  <2>3. Len(chunks) \in Nat
    BY <2>1
  <2>4. \A i \in 1 .. Len(chunks) : chunks[i].size \in Nat /\ chunks[i].next \in Nat
    BY <2>1, ChunkFields
  <2>. QED
    BY <2>1, <2>2, <2>3, <2>4 DEF Usable
<1>3. CASE Fits(size)
  <2>. DEFINE at == align_up(arena.offset)
  <2>1. /\ at \in Nat /\ at >= arena.offset
        /\ \E k \in 0 .. at : at = Word * k
    BY <1>2, AlignUp
  <2>2. at + size <= chunks[arena.head].size
    BY <1>3 DEF Fits
  <2>. HIDE DEF at
  <2>3. b = [chunk |-> arena.head, at |-> at, size |-> size]
    BY <1>3 DEF Place, at
  <2>4. /\ chunks' = chunks
        /\ arena' = [arena EXCEPT !.offset = at + size]
    BY <1>3 DEF arena_alloc, at
  <2>5. /\ arena'.offset = at + size /\ arena'.head = arena.head
        /\ arena'.buffer = arena.buffer
        /\ arena' \in [offset : Nat, buffer : Nat, head : Nat, next_buffer_size : Nat]
    <3>1. arena \in [offset : Nat, buffer : Nat, head : Nat, next_buffer_size : Nat]
      BY DEF IInv
    <3>2. at + size \in Nat
      BY <1>1, <2>1
    <3>. QED
      BY <3>1, <3>2, <2>4
  <2>6. Usable'
    BY <1>2, <2>2, <2>4, <2>5 DEF Usable
  <2>7. InChunk(chunks', arena', b)
    <3>1. Aligned(b)
      BY <2>1, <2>3 DEF Aligned
    <3>2. /\ b.chunk = arena.head /\ b.at = at /\ b.size = size
          /\ b \in [chunk : 1 .. Len(chunks), at : Nat, size : Nat \ {0}]
      BY <1>1, <1>2, <2>1, <2>3
    <3>. QED
      BY <3>1, <3>2, <2>2, <2>4, <2>5 DEF InChunk
  <2>8. ASSUME NEW d, InChunk(chunks, arena, d) PROVE InChunk(chunks', arena', d) /\ Apart(b, d)
    <3>1. /\ d \in [chunk : 1 .. Len(chunks), at : Nat, size : Nat \ {0}]
          /\ d.at + d.size <= chunks[d.chunk].size
          /\ d.chunk = arena.head => d.at + d.size <= arena.offset
          /\ Aligned(d)
      BY <2>8 DEF InChunk
    <3>2. d.chunk = arena'.head => d.at + d.size <= arena'.offset
      <4>1. d.at + d.size \in Nat
        BY <3>1
      <4>2. arena.offset <= arena'.offset
        BY <1>1, <1>2, <2>1, <2>5
      <4>. DEFINE end == d.at + d.size
      <4>. HIDE DEF end
      <4>3. d.chunk = arena'.head => end <= arena.offset
        BY <3>1, <2>5 DEF end
      <4>4. arena.offset \in Nat /\ arena'.offset \in Nat /\ end \in Nat
        BY <4>1, <1>2, <2>5 DEF end
      <4>. QED
        BY <4>2, <4>3, <4>4 DEF end
    <3>3. InChunk(chunks', arena', d)
      BY <3>1, <3>2, <2>4 DEF InChunk
    <3>4. Apart(b, d)
      BY <3>1, <1>2, <2>1, <2>3 DEF Apart
    <3>. QED
      BY <3>3, <3>4
  <2>9. /\ chunks' \in Seq(Chunk) /\ Len(chunks) <= Len(chunks')
        /\ \A i \in 1 .. Len(chunks') : chunks'[i].next <= Len(chunks')
        /\ \A i \in 1 .. Len(chunks) : chunks'[i].size = chunks[i].size
    BY <1>2, <2>4 DEF IInv
  <2>. QED
    BY <2>5, <2>6, <2>7, <2>8, <2>9
<1>4. CASE ~Fits(size)
  <2>. DEFINE linked == Linked(chunks, arena.head, n)
              new    == [size |-> ChunkSize(size), next |-> NULL]
  <2>1. ChunkSize(size) \in Nat /\ ChunkSize(size) >= size
    BY <1>1, <1>2 DEF ChunkSize
  <2>2. alloc_needed(ChunkSize(size)) \in Nat
    <3>. DEFINE s == ChunkSize(size)
    <3>1. s \in Nat
      BY <2>1
    <3>. HIDE DEF s
    <3>2. ((s + 32) * 3) \div 2 \in Nat
      BY <3>1
    <3>. QED
      BY <3>2 DEF alloc_needed, s
  <2>3. /\ chunks' = Append(linked, new)
        /\ arena' = [arena EXCEPT !.head = n, !.offset = size,
                                   !.next_buffer_size = alloc_needed(ChunkSize(size))]
    BY <1>4 DEF arena_alloc, Overflow
  <2>4. /\ linked \in Seq(Chunk) /\ Len(linked) = Len(chunks)
        /\ \A i \in 1 .. Len(chunks) : /\ linked[i].size = chunks[i].size
                                       /\ linked[i].next <= n
    <3>1. chunks \in Seq(Chunk) /\ \A i \in 1 .. Len(chunks) : chunks[i].next <= Len(chunks)
      BY DEF IInv
    <3>2. /\ linked \in Seq(Chunk) /\ Len(linked) = Len(chunks)
          /\ \A i \in 1 .. Len(chunks) :
               /\ linked[i].size = chunks[i].size
               /\ linked[i].next = IF i = arena.head THEN n ELSE chunks[i].next
      BY <3>1, <1>2, LinkedChunks
    <3>. HIDE DEF linked
    <3>3. \A i \in 1 .. Len(chunks) : chunks[i].next \in Nat /\ chunks[i].next <= n
      BY <3>1, <1>2
    <3>. QED
      BY <3>2, <3>3, <1>2
  <2>5. new \in Chunk /\ new.size = ChunkSize(size) /\ new.next = 0
    BY <2>1 DEF NULL, Chunk
  <2>. HIDE DEF linked, new
  <2>6. /\ chunks' \in Seq(Chunk) /\ Len(chunks') = n
        /\ \A i \in 1 .. Len(chunks) : chunks'[i] = linked[i]
        /\ chunks'[n] = new
    BY <2>3, <2>4, <2>5
  <2>7. /\ arena'.offset = size /\ arena'.head = n /\ arena'.buffer = arena.buffer
        /\ arena' \in [offset : Nat, buffer : Nat, head : Nat, next_buffer_size : Nat]
    BY <1>1, <1>2, <2>2, <2>3 DEF IInv
  <2>8. b = [chunk |-> n, at |-> 0, size |-> size]
    BY <1>4 DEF Place
  <2>9. Usable'
    BY <1>2, <2>1, <2>5, <2>6, <2>7 DEF Usable
  <2>10. InChunk(chunks', arena', b)
    <3>1. Aligned(b)
      BY <2>8, WordAssumption DEF Aligned
    <3>2. /\ b.chunk = n /\ b.at = 0 /\ b.size = size
          /\ b \in [chunk : 1 .. n, at : Nat, size : Nat \ {0}]
      BY <1>1, <1>2, <2>8
    <3>3. chunks'[n].size >= size
      BY <2>1, <2>5, <2>6
    <3>. QED
      BY <3>1, <3>2, <3>3, <1>1, <1>2, <2>6, <2>7 DEF InChunk
  <2>11. ASSUME NEW d, InChunk(chunks, arena, d) PROVE InChunk(chunks', arena', d) /\ Apart(b, d)
    <3>1. /\ d \in [chunk : 1 .. Len(chunks), at : Nat, size : Nat \ {0}]
          /\ d.at + d.size <= chunks[d.chunk].size
          /\ Aligned(d)
      BY <2>11 DEF InChunk
    <3>2. d.chunk # n /\ d.chunk \in 1 .. n
      BY <3>1, <1>2
    <3>3. chunks'[d.chunk].size = chunks[d.chunk].size
      BY <3>1, <2>4, <2>6
    <3>4. InChunk(chunks', arena', d)
      BY <3>1, <3>2, <3>3, <2>6, <2>7 DEF InChunk
    <3>5. Apart(b, d)
      BY <3>2, <2>8 DEF Apart
    <3>. QED
      BY <3>4, <3>5
  <2>12. \A i \in 1 .. Len(chunks') : chunks'[i].next <= Len(chunks')
    <3>1. \A i \in 1 .. Len(chunks') : i \in 1 .. Len(chunks) \/ i = n
      BY <1>2, <2>6
    <3>2. chunks'[n].next <= n
      BY <1>2, <2>5, <2>6
    <3>. QED
      BY <3>1, <3>2, <2>4, <2>6
  <2>13. \A i \in 1 .. Len(chunks) : chunks'[i].size = chunks[i].size
    BY <2>4, <2>6
  <2>. QED
    BY <1>2, <2>6, <2>7, <2>9, <2>10, <2>11, <2>12, <2>13
<1>. QED
  BY <1>3, <1>4

(* An object gets block b, apart from the blocks of the others, and its    *)
(* bytes; the others keep theirs.                                          *)
LEMMA Placed ==
  ASSUME IInv, NEW id \in Ids, NEW b, InChunk(chunks', arena', b),
         \A j \in DOMAIN blocks : j # id =>
           InChunk(chunks', arena', blocks[j]) /\ Apart(b, blocks[j]),
         blocks' = [i \in DOMAIN blocks \cup {id} |-> IF i = id THEN b ELSE blocks[i]],
         \A a \in Extent(b) : a \in DOMAIN mem' /\ mem'[a] = id,
         \A j \in DOMAIN blocks : j # id =>
           \A a \in Extent(blocks[j]) : a \in DOMAIN mem' /\ mem'[a] = mem[a]
  PROVE  /\ DOMAIN blocks' \subseteq Ids
         /\ \A i \in DOMAIN blocks' : InChunk(chunks', arena', blocks'[i])
         /\ \A i, j \in DOMAIN blocks' : i # j => Apart(blocks'[i], blocks'[j])
         /\ ContentsAreKept'
<1>1. /\ DOMAIN blocks' = DOMAIN blocks \cup {id}
      /\ blocks'[id] = b
      /\ \A j \in DOMAIN blocks : j # id => blocks'[j] = blocks[j]
  OBVIOUS
<1>2. DOMAIN blocks' \subseteq Ids
  BY <1>1 DEF IInv
<1>3. \A i \in DOMAIN blocks' : InChunk(chunks', arena', blocks'[i])
  BY <1>1
<1>4. \A i, j \in DOMAIN blocks' : i # j => Apart(blocks'[i], blocks'[j])
  <2>. SUFFICES ASSUME NEW i \in DOMAIN blocks', NEW j \in DOMAIN blocks', i # j
                PROVE  Apart(blocks'[i], blocks'[j])
    OBVIOUS
  <2>1. \A d, e : Apart(d, e) => Apart(e, d)
    BY DEF Apart
  <2>2. CASE i = id
    BY <1>1, <2>2
  <2>3. CASE j = id
    BY <1>1, <2>1, <2>3
  <2>4. CASE i # id /\ j # id
    BY <1>1, <2>4 DEF IInv
  <2>. QED
    BY <2>2, <2>3, <2>4
<1>5. ContentsAreKept'
  <2>1. ASSUME NEW i \in DOMAIN blocks', NEW a \in Extent(blocks'[i])
        PROVE  a \in DOMAIN mem' /\ mem'[a] = i
    <3>1. CASE i = id
      BY <1>1, <2>1, <3>1
    <3>2. CASE i # id
      <4>1. i \in DOMAIN blocks /\ a \in Extent(blocks[i])
        BY <1>1, <2>1, <3>2
      <4>2. mem[a] = i
        BY <4>1 DEF IInv, ContentsAreKept
      <4>. QED
        BY <3>2, <4>1, <4>2
    <3>. QED
      BY <3>1, <3>2
  <2>. QED
    BY <2>1 DEF ContentsAreKept, Extent
<1>. QED
  BY <1>2, <1>3, <1>4, <1>5

-----------------------------------------------------------------------------
LEMMA AllocStep ==
  ASSUME IInv, NEW id \in Ids, NEW size \in Sizes, Alloc(id, size)
  PROVE  IInv'
<1>. DEFINE b == Place(size)
<1>1. /\ InUse /\ id \notin DOMAIN blocks /\ arena_alloc(size)
      /\ blocks' = [i \in DOMAIN blocks \cup {id} |-> IF i = id THEN b ELSE blocks[i]]
      /\ mem' = [a \in DOMAIN mem \cup Extent(b) |->
                   IF a \in Extent(b) THEN id ELSE mem[a]]
  BY DEF Alloc
<1>. HIDE DEF b
<1>2. /\ chunks' \in Seq(Chunk)
      /\ \A i \in 1 .. Len(chunks') : chunks'[i].next <= Len(chunks')
      /\ arena' \in [offset : Nat, buffer : Nat, head : Nat, next_buffer_size : Nat]
      /\ Usable'
      /\ InChunk(chunks', arena', b)
      /\ \A d : InChunk(chunks, arena, d) => InChunk(chunks', arena', d) /\ Apart(b, d)
  BY <1>1, AllocSound DEF b
<1>3. \A j \in DOMAIN blocks :
        InChunk(chunks', arena', blocks[j]) /\ Apart(b, blocks[j])
  BY <1>2 DEF IInv
<1>4. \A j \in DOMAIN blocks : \A a \in Extent(blocks[j]) :
        a \in DOMAIN mem' /\ mem'[a] = mem[a]
  <2>. SUFFICES ASSUME NEW j \in DOMAIN blocks, NEW a \in Extent(blocks[j])
                PROVE  a \in DOMAIN mem' /\ mem'[a] = mem[a]
    OBVIOUS
  <2>1. a \notin Extent(b)
    BY <1>2, <1>3, ApartIsDisjoint
  <2>2. a \in DOMAIN mem
    BY DEF IInv, ContentsAreKept
  <2>. QED
    BY <1>1, <2>1, <2>2
<1>5. \A a \in Extent(b) : a \in DOMAIN mem' /\ mem'[a] = id
  BY <1>1
<1>6. /\ DOMAIN blocks' \subseteq Ids
      /\ \A i \in DOMAIN blocks' : InChunk(chunks', arena', blocks'[i])
      /\ \A i, j \in DOMAIN blocks' : i # j => Apart(blocks'[i], blocks'[j])
      /\ ContentsAreKept'
  BY <1>1, <1>2, <1>3, <1>4, <1>5, Placed
<1>7. arena'.head <= Len(chunks') /\ arena'.buffer <= Len(chunks')
  BY <1>2 DEF Usable
<1>. QED
  BY <1>2, <1>6, <1>7 DEF IInv

(* The last block of the head stretches or shrinks at its own end. *)
LEMMA InPlaceSound ==
  ASSUME IInv, InUse, NEW id \in DOMAIN blocks, NEW size \in Sizes,
         InPlace(blocks[id], size),
         arena' = [arena EXCEPT !.offset = blocks[id].at + size],
         chunks' = chunks,
         NEW b, b = [blocks[id] EXCEPT !.size = size]
  PROVE  /\ arena' \in [offset : Nat, buffer : Nat, head : Nat, next_buffer_size : Nat]
         /\ Usable'
         /\ InChunk(chunks', arena', b)
         /\ \A j \in DOMAIN blocks : j # id =>
              InChunk(chunks', arena', blocks[j]) /\ Apart(b, blocks[j])
<1>. DEFINE old == blocks[id]
<1>1. size \in Nat \ {0}
  BY SizesAssumption
<1>2. InChunk(chunks, arena, old)
  BY DEF IInv
<1>3. /\ old \in [chunk : 1 .. Len(chunks), at : Nat, size : Nat \ {0}]
      /\ Aligned(old)
  BY <1>2 DEF InChunk
<1>4. /\ old.chunk = arena.head /\ old.at + old.size = arena.offset
      /\ old.at + size <= chunks[arena.head].size
  BY DEF InPlace
<1>. HIDE DEF old
<1>5. /\ b \in [chunk : 1 .. Len(chunks), at : Nat, size : Nat \ {0}]
      /\ b.chunk = old.chunk /\ b.at = old.at /\ b.size = size
  BY <1>1, <1>3 DEF old
<1>6. /\ arena' \in [offset : Nat, buffer : Nat, head : Nat, next_buffer_size : Nat]
      /\ arena'.offset = old.at + size /\ arena'.head = arena.head
      /\ arena'.buffer = arena.buffer
  <2>1. arena \in [offset : Nat, buffer : Nat, head : Nat, next_buffer_size : Nat]
    BY DEF IInv
  <2>2. old.at + size \in Nat
    BY <1>1, <1>3
  <2>. QED
    BY <2>1, <2>2 DEF old
<1>7. Usable'
  <2>1. Usable
    BY DEF IInv
  <2>. QED
    BY <2>1, <1>4, <1>6 DEF Usable
<1>8. InChunk(chunks', arena', b)
  BY <1>3, <1>4, <1>5, <1>6 DEF InChunk, Aligned
<1>9. ASSUME NEW j \in DOMAIN blocks, j # id
      PROVE  InChunk(chunks', arena', blocks[j]) /\ Apart(b, blocks[j])
  <2>. DEFINE d == blocks[j]
  <2>1. InChunk(chunks, arena, d) /\ Apart(old, d)
    BY <1>9 DEF IInv, old
  <2>. HIDE DEF d
  <2>2. /\ d \in [chunk : 1 .. Len(chunks), at : Nat, size : Nat \ {0}]
        /\ d.at + d.size <= chunks[d.chunk].size /\ Aligned(d)
        /\ d.chunk = arena.head => d.at + d.size <= arena.offset
    BY <2>1 DEF InChunk
  <2>3. d.chunk = arena.head => d.at + d.size <= old.at
    BY <2>1, <2>2, <1>3, <1>4 DEF Apart
  <2>4. d.chunk = arena'.head => d.at + d.size <= arena'.offset
    BY <2>2, <2>3, <1>1, <1>3, <1>6
  <2>5. InChunk(chunks', arena', d)
    BY <2>2, <2>4 DEF InChunk
  <2>6. Apart(b, d)
    BY <2>3, <1>4, <1>5 DEF Apart
  <2>. QED
    BY <2>5, <2>6 DEF d
<1>. QED
  BY <1>6, <1>7, <1>8, <1>9

LEMMA ReallocStep ==
  ASSUME IInv, NEW id \in Ids, NEW size \in Sizes, Realloc(id, size)
  PROVE  IInv'
<1>. DEFINE old == blocks[id]
            b   == IF InPlace(old, size) THEN [old EXCEPT !.size = size] ELSE Place(size)
<1>1. /\ InUse /\ id \in DOMAIN blocks
      /\ IF InPlace(old, size)
         THEN arena' = [arena EXCEPT !.offset = old.at + size] /\ chunks' = chunks
         ELSE arena_alloc(size)
      /\ blocks' = [blocks EXCEPT ![id] = b]
      /\ mem' = [a \in (DOMAIN mem \ Extent(old)) \cup Extent(b) |->
                   IF a \notin Extent(b) THEN mem[a]
                   ELSE IF a[2] < b.at + old.size
                   THEN mem[<< old.chunk, old.at + a[2] - b.at >>]
                   ELSE id]
  BY DEF Realloc
<1>2. InChunk(chunks, arena, old)
  BY <1>1 DEF IInv
<1>3. /\ chunks' \in Seq(Chunk)
      /\ \A i \in 1 .. Len(chunks') : chunks'[i].next <= Len(chunks')
      /\ arena' \in [offset : Nat, buffer : Nat, head : Nat, next_buffer_size : Nat]
      /\ Usable'
      /\ InChunk(chunks', arena', b)
      /\ \A j \in DOMAIN blocks : j # id =>
           InChunk(chunks', arena', blocks[j]) /\ Apart(b, blocks[j])
  <2>1. CASE InPlace(old, size)
    <3>1. /\ b = [old EXCEPT !.size = size] /\ chunks' = chunks
          /\ arena' = [arena EXCEPT !.offset = old.at + size]
      BY <1>1, <2>1
    <3>2. /\ chunks' \in Seq(Chunk)
          /\ \A i \in 1 .. Len(chunks') : chunks'[i].next <= Len(chunks')
      BY <3>1 DEF IInv
    <3>. HIDE DEF b
    <3>. QED
      BY <1>1, <2>1, <3>1, <3>2, InPlaceSound
  <2>2. CASE ~InPlace(old, size)
    <3>1. b = Place(size) /\ arena_alloc(size)
      BY <1>1, <2>2
    <3>2. \A j \in DOMAIN blocks : InChunk(chunks, arena, blocks[j])
      BY DEF IInv
    <3>. HIDE DEF b
    <3>. QED
      BY <1>1, <3>1, <3>2, AllocSound
  <2>. QED
    BY <2>1, <2>2
<1>. HIDE DEF b
<1>4. ASSUME NEW j \in DOMAIN blocks, j # id, NEW a \in Extent(blocks[j])
      PROVE  a \in DOMAIN mem' /\ mem'[a] = mem[a]
  <2>1. a \notin Extent(b)
    BY <1>3, <1>4, ApartIsDisjoint
  <2>2. a \notin Extent(old)
    <3>1. InChunk(chunks, arena, blocks[j]) /\ Apart(old, blocks[j])
      BY <1>1, <1>4 DEF IInv
    <3>. QED
      BY <1>2, <1>4, <3>1, ApartIsDisjoint
  <2>3. a \in DOMAIN mem
    BY <1>4 DEF IInv, ContentsAreKept
  <2>. QED
    BY <1>1, <2>1, <2>2, <2>3
<1>5. ASSUME NEW a \in Extent(b) PROVE a \in DOMAIN mem' /\ mem'[a] = id
  <2>1. CASE a[2] < b.at + old.size
    <3>1. a[2] \in b.at .. b.at + b.size - 1 /\ b.at \in Nat /\ b.size \in Nat
      BY <1>3, <1>5 DEF Extent, InChunk
    <3>2. old.at \in Nat /\ old.size \in Nat
      BY <1>2 DEF InChunk
    <3>3. old.at + a[2] - b.at \in old.at .. old.at + old.size - 1
      BY <2>1, <3>1, <3>2
    <3>4. << old.chunk, old.at + a[2] - b.at >> \in Extent(old)
      BY <3>3 DEF Extent
    <3>5. mem[<< old.chunk, old.at + a[2] - b.at >>] = id
      BY <1>1, <3>4 DEF IInv, ContentsAreKept
    <3>. QED
      BY <1>1, <1>5, <2>1, <3>5
  <2>2. CASE ~(a[2] < b.at + old.size)
    BY <1>1, <1>5, <2>2
  <2>. QED
    BY <2>1, <2>2
<1>6. blocks' = [i \in DOMAIN blocks \cup {id} |-> IF i = id THEN b ELSE blocks[i]]
  BY <1>1
<1>7. /\ DOMAIN blocks' \subseteq Ids
      /\ \A i \in DOMAIN blocks' : InChunk(chunks', arena', blocks'[i])
      /\ \A i, j \in DOMAIN blocks' : i # j => Apart(blocks'[i], blocks'[j])
      /\ ContentsAreKept'
  BY <1>3, <1>4, <1>5, <1>6, Placed
<1>8. arena'.head <= Len(chunks') /\ arena'.buffer <= Len(chunks')
  BY <1>3 DEF Usable
<1>. QED
  BY <1>3, <1>7, <1>8 DEF IInv

(* arena_reset() and arena_free(): no object is left. *)
LEMMA ResetStep ==
  ASSUME IInv, Reset
  PROVE  IInv'
<1>1. /\ InUse /\ chunks' = chunks /\ blocks' = << >>
      /\ arena' = [arena EXCEPT !.head = arena.buffer, !.offset = 0]
  BY DEF Reset
<1>2. /\ arena \in [offset : Nat, buffer : Nat, head : Nat, next_buffer_size : Nat]
      /\ Usable /\ chunks \in Seq(Chunk)
      /\ \A i \in 1 .. Len(chunks) : chunks[i].next <= Len(chunks)
  BY <1>1 DEF IInv
<1>3. /\ arena' \in [offset : Nat, buffer : Nat, head : Nat, next_buffer_size : Nat]
      /\ arena'.head = arena.buffer /\ arena'.buffer = arena.buffer /\ arena'.offset = 0
  BY <1>1, <1>2
<1>4. Usable'
  <2>1. chunks[arena.buffer].size \in Nat
    BY <1>2, ChunkFields DEF Usable
  <2>. QED
    BY <1>1, <1>2, <1>3, <2>1 DEF Usable
<1>5. DOMAIN blocks' = {}
  BY <1>1
<1>. QED
  BY <1>1, <1>2, <1>3, <1>4, <1>5 DEF IInv, ContentsAreKept, Usable

LEMMA FreeStep ==
  ASSUME IInv, Free
  PROVE  IInv'
<1>1. /\ chunks' = chunks /\ DOMAIN blocks' = {}
      /\ arena' = [offset |-> 0, buffer |-> 0, head |-> 0, next_buffer_size |-> 0]
  BY DEF Free, NULL
<1>2. ~InUse'
  BY <1>1 DEF InUse, NULL
<1>3. Len(chunks) \in Nat
  BY DEF IInv
<1>. QED
  BY <1>1, <1>2, <1>3 DEF IInv, ContentsAreKept

LEMMA InitSound == Init => IInv
<1>. SUFFICES ASSUME Init PROVE IInv
  OBVIOUS
<1>1. PICK size \in InitSizes :
        /\ chunks = << [size |-> size, next |-> 0] >>
        /\ arena = [offset |-> 0, buffer |-> 1, head |-> 1, next_buffer_size |-> size]
  BY DEF Init, NULL
<1>2. size \in Nat
  BY SizesAssumption
<1>3. /\ chunks \in Seq(Chunk) /\ Len(chunks) = 1
      /\ chunks[1].size = size /\ chunks[1].next = 0
  BY <1>1, <1>2 DEF Chunk
<1>4. DOMAIN blocks = {}
  BY DEF Init
<1>5. Usable
  BY <1>1, <1>2, <1>3 DEF Usable
<1>. QED
  BY <1>1, <1>2, <1>3, <1>4, <1>5 DEF IInv, ContentsAreKept

LEMMA IInvInductive == Spec => []IInv
<1>1. IInv /\ [Next]_vars => IInv'
  <2>. SUFFICES ASSUME IInv, [Next]_vars PROVE IInv'
    OBVIOUS
  <2>1. ASSUME NEW id \in Ids, NEW size \in Sizes, Alloc(id, size)
        PROVE  IInv'
    BY <2>1, AllocStep
  <2>2. ASSUME NEW id \in Ids, NEW size \in Sizes, Realloc(id, size)
        PROVE  IInv'
    BY <2>2, ReallocStep
  <2>3. CASE Reset
    BY <2>3, ResetStep
  <2>4. CASE Free
    BY <2>4, FreeStep
  <2>5. CASE UNCHANGED vars
    BY <2>5 DEF vars, IInv, Usable, InUse, ContentsAreKept
  <2>. QED
    BY <2>1, <2>2, <2>3, <2>4, <2>5 DEF Next
<1>. QED
  BY InitSound, <1>1, PTL DEF Spec

-----------------------------------------------------------------------------
(* The offset never leaves the head, and the arena and its objects name    *)
(* chunks that exist.                                                      *)
THEOREM TypeCorrect == Spec => []TypeOK
<1>1. IInv => TypeOK
  BY DEF IInv, TypeOK, Usable, Chunk, InChunk, NULL
<1>. QED
  BY <1>1, IInvInductive, PTL

(* No two live objects ever share a byte, each lies in its chunk and is    *)
(* aligned: for every word size, mix of sizes and number of chunks.        *)
THEOREM BlocksAlwaysSound == Spec => []BlocksAreSound
<1>1. IInv => BlocksAreSound
  <2>. SUFFICES ASSUME IInv PROVE BlocksAreSound
    OBVIOUS
  <2>1. \A i \in DOMAIN blocks : InChunk(chunks, arena, blocks[i])
    BY DEF IInv
  <2>2. \A i, j \in DOMAIN blocks : i # j => Extent(blocks[i]) \cap Extent(blocks[j]) = {}
    BY <2>1, ApartIsDisjoint DEF IInv
  <2>. QED
    BY <2>1, <2>2 DEF BlocksAreSound, InChunk
<1>. QED
  BY <1>1, IInvInductive, PTL

(* No allocation, reallocation or reset ever changes a byte of a live      *)
(* object that is not its own.                                             *)
THEOREM ContentsAlwaysKept == Spec => []ContentsAreKept
<1>1. IInv => ContentsAreKept
  BY DEF IInv
<1>. QED
  BY <1>1, IInvInductive, PTL
-----------------------------------------------------------------------------
(* Reachability.  Chain is a recursive function of the list of chunks; the *)
(* lemmas say of it what the proof needs: a chunk reaches itself and what  *)
(* its next one reaches, later chunks only, and a new chunk linked to      *)
(* chunk h takes the place of all that came after h.                       *)

(* Chain, of the list s of chunks and for its chunk b. *)
Reached(s, b) ==
  LET chain[i \in 0 .. Len(s)] ==
        IF i = NULL THEN {} ELSE {i} \cup chain[s[i].next]
  IN  chain[b]

LEMMA ChainIsReached ==
  /\ Chain = Reached(chunks, arena.buffer)
  /\ Chain' = Reached(chunks', arena'.buffer)
  BY DEF Chain, Reached

(* Each chunk was made after the one that is linked to it. *)
Forward(s) ==
  \A i \in 1 .. Len(s) : s[i].next \in Nat /\ s[i].next <= Len(s)
                         /\ (s[i].next = 0 \/ i < s[i].next)

(* The chunks that every set with i and the next ones of its chunks has. *)
Closed(s, T) == \A k \in T : s[k].next # 0 => s[k].next \in T

Closure(s, i) ==
  {j \in 1 .. Len(s) : \A T \in SUBSET (1 .. Len(s)) : i \in T /\ Closed(s, T) => j \in T}

LEMMA ClosureStep ==
  ASSUME NEW s, Len(s) \in Nat, Forward(s), NEW i \in 1 .. Len(s)
  PROVE  /\ s[i].next # 0 => Closure(s, i) = {i} \cup Closure(s, s[i].next)
         /\ s[i].next = 0 => Closure(s, i) = {i}
<1>. DEFINE n == s[i].next
<1>1. i \in Closure(s, i)
  BY DEF Closure
<1>2. CASE n # 0
  <2>1. n \in 1 .. Len(s)
    BY <1>2 DEF Forward
  <2>2. ASSUME NEW j \in Closure(s, n) PROVE j \in Closure(s, i)
    <3>1. ASSUME NEW T \in SUBSET (1 .. Len(s)), i \in T, Closed(s, T) PROVE j \in T
      <4>1. n \in T
        BY <1>2, <3>1 DEF Closed
      <4>. QED
        BY <2>2, <3>1, <4>1 DEF Closure
    <3>. QED
      BY <2>2, <3>1 DEF Closure
  <2>3. ASSUME NEW j \in Closure(s, i), j # i PROVE j \in Closure(s, n)
    <3>1. ASSUME NEW T \in SUBSET (1 .. Len(s)), n \in T, Closed(s, T) PROVE j \in T
      <4>1. Closed(s, T \cup {i})
        BY <3>1 DEF Closed
      <4>2. j \in T \cup {i}
        BY <2>3, <4>1 DEF Closure
      <4>. QED
        BY <2>3, <4>2
    <3>. QED
      BY <2>3, <3>1 DEF Closure
  <2>. QED
    BY <1>1, <1>2, <2>2, <2>3
<1>3. CASE n = 0
  <2>1. Closed(s, {i})
    BY <1>3 DEF Closed
  <2>2. ASSUME NEW j \in Closure(s, i) PROVE j = i
    BY <2>1, <2>2 DEF Closure
  <2>. QED
    BY <1>1, <1>3, <2>2
<1>. QED
  BY <1>2, <1>3

LEMMA ReachedStep ==
  ASSUME NEW s, Len(s) \in Nat, Forward(s)
  PROVE  /\ Reached(s, 0) = {}
         /\ \A i \in 1 .. Len(s) : Reached(s, i) = {i} \cup Reached(s, s[i].next)
<1>. DEFINE D == 0 .. Len(s)
            Def(f) == [i \in D |-> IF i = NULL THEN {} ELSE {i} \cup f[s[i].next]]
            closure == [i \in D |-> IF i = 0 THEN {} ELSE Closure(s, i)]
            chain == CHOOSE f : f = Def(f)
<1>1. closure = Def(closure)
  <2>1. ASSUME NEW i \in D
        PROVE  closure[i] = IF i = NULL THEN {} ELSE {i} \cup closure[s[i].next]
    <3>1. CASE i = 0
      BY <3>1 DEF NULL
    <3>2. CASE i # 0
      <4>1. i \in 1 .. Len(s) /\ s[i].next \in D
        BY <3>2 DEF Forward
      <4>2. closure[i] = Closure(s, i)
        BY <3>2
      <4>3. closure[s[i].next] = IF s[i].next = 0 THEN {} ELSE Closure(s, s[i].next)
        BY <4>1
      <4>. QED
        BY <3>2, <4>1, <4>2, <4>3, ClosureStep DEF NULL
    <3>. QED
      BY <3>1, <3>2
  <2>. QED
    BY <2>1
<1>2. chain = Def(chain)
  BY <1>1
<1>3. \A b : Reached(s, b) = chain[b]
  BY DEF Reached
<1>. HIDE DEF chain
<1>4. \A i \in D : chain[i] = IF i = NULL THEN {} ELSE {i} \cup chain[s[i].next]
  BY <1>2
<1>5. Reached(s, 0) = {}
  <2>1. 0 \in D
    OBVIOUS
  <2>2. chain[0] = {}
    BY <1>4, <2>1 DEF NULL
  <2>. QED
    BY <1>3, <2>2
<1>6. ASSUME NEW i \in 1 .. Len(s) PROVE Reached(s, i) = {i} \cup Reached(s, s[i].next)
  <2>1. i \in D /\ i # NULL
    BY DEF NULL
  <2>2. chain[i] = {i} \cup chain[s[i].next]
    BY <1>4, <2>1
  <2>. QED
    BY <1>3, <2>2
<1>. QED
  BY <1>5, <1>6

(* A set of numbers up to n has a greatest one. *)
LEMMA Greatest ==
  ASSUME NEW n \in Nat, NEW T, T \subseteq 0 .. n, T # {}
  PROVE  \E x \in T : \A y \in T : y <= x
<1>. DEFINE R == OpToRel(<, Nat)
            U == {n - x : x \in T}
<1>1. U \subseteq Nat /\ U # {}
  <2>1. ASSUME NEW x \in T PROVE n - x \in Nat /\ n - x \in U
    <3>1. x \in 0 .. n
      OBVIOUS
    <3>. QED
      BY <3>1
  <2>. QED
    BY <2>1
<1>2. IsWellFoundedOn(R, Nat)
  BY NatLessThanWellFounded
<1>3. PICK u \in U : \A v \in U : ~ (<< v, u >> \in R)
  <2>. HIDE DEF R, U
  <2>. QED
    BY <1>1, <1>2, WFMin
<1>4. PICK x \in T : u = n - x
  BY <1>3
<1>5. ASSUME NEW y \in T PROVE y <= x
  <2>1. << n - y, u >> \notin R
    BY <1>3
  <2>2. ~(n - y < u)
    BY <1>1, <2>1 DEF OpToRel
  <2>. QED
    BY <1>4, <2>2
<1>. QED
  BY <1>5

LEMMA ReachedLater ==
  ASSUME NEW s, Len(s) \in Nat, Forward(s)
  PROVE  \A i \in 1 .. Len(s) : Reached(s, i) \subseteq i .. Len(s)
<1>. DEFINE Bad == {i \in 1 .. Len(s) : ~(Reached(s, i) \subseteq i .. Len(s))}
<1>. SUFFICES ASSUME Bad # {} PROVE FALSE
  OBVIOUS
<1>1. PICK i \in Bad : \A j \in Bad : j <= i
  <2>1. Bad \subseteq 0 .. Len(s)
    OBVIOUS
  <2>. HIDE DEF Bad
  <2>. QED
    BY <2>1, Greatest
<1>2. Reached(s, i) = {i} \cup Reached(s, s[i].next)
  BY ReachedStep
<1>3. CASE s[i].next = 0
  BY <1>2, <1>3, ReachedStep
<1>4. CASE s[i].next # 0
  <2>1. s[i].next \in 1 .. Len(s) /\ i < s[i].next
    BY <1>4 DEF Forward
  <2>2. s[i].next \notin Bad
    BY <1>1, <2>1
  <2>3. Reached(s, s[i].next) \subseteq s[i].next .. Len(s)
    BY <2>1, <2>2
  <2>. QED
    BY <1>2, <2>1, <2>3
<1>. QED
  BY <1>3, <1>4

(* Chunk n, new in the list t, is linked to chunk h of the list s. *)
Extended(s, h, t) ==
  /\ Len(t) = Len(s) + 1
  /\ \A i \in 1 .. Len(s) : t[i].next = IF i = h THEN Len(s) + 1 ELSE s[i].next
  /\ t[Len(s) + 1].next = 0

LEMMA ReachedExtended ==
  ASSUME NEW s, Len(s) \in Nat, Forward(s), NEW h \in 1 .. Len(s),
         NEW t, Extended(s, h, t)
  PROVE  /\ Forward(t)
         /\ \A b \in 1 .. Len(s) : h \in Reached(s, b) =>
              Reached(t, b) = {i \in Reached(s, b) : i <= h} \cup {Len(s) + 1}
<1>. DEFINE n == Len(s) + 1
            Kept(b) == {i \in Reached(s, b) : i <= h} \cup {n}
            Bad == {b \in 1 .. Len(s) : h \in Reached(s, b) /\ Reached(t, b) # Kept(b)}
<1>1. Forward(t) /\ Len(t) \in Nat
  <2>1. Len(t) = n /\ n \in Nat
    BY DEF Extended
  <2>2. ASSUME NEW i \in 1 .. Len(t)
        PROVE  t[i].next \in Nat /\ t[i].next <= n /\ (t[i].next = 0 \/ i < t[i].next)
    <3>1. CASE i = n
      BY <2>1, <3>1 DEF Extended
    <3>2. CASE i # n
      <4>1. i \in 1 .. Len(s)
        BY <2>1, <3>2
      <4>2. s[i].next \in Nat /\ s[i].next <= Len(s) /\ (s[i].next = 0 \/ i < s[i].next)
        BY <4>1 DEF Forward
      <4>3. t[i].next = IF i = h THEN n ELSE s[i].next
        BY <4>1 DEF Extended
      <4>. QED
        BY <2>1, <4>1, <4>2, <4>3
    <3>. QED
      BY <3>1, <3>2
  <2>. QED
    BY <2>1, <2>2 DEF Forward
<1>2. Reached(t, n) = {n}
  <2>1. Reached(t, n) = {n} \cup Reached(t, 0)
    BY <1>1, ReachedStep DEF Extended
  <2>. QED
    BY <1>1, <2>1, ReachedStep
<1>3. Bad = {}
  <2>. SUFFICES ASSUME Bad # {} PROVE FALSE
    OBVIOUS
  <2>1. PICK b \in Bad : \A j \in Bad : j <= b
    <3>1. Bad \subseteq 0 .. Len(s)
      OBVIOUS
    <3>. HIDE DEF Bad
    <3>. QED
      BY <3>1, Greatest
  <2>2. /\ b \in 1 .. Len(s) /\ h \in Reached(s, b) /\ Reached(t, b) # Kept(b)
        /\ Reached(s, b) = {b} \cup Reached(s, s[b].next)
        /\ Reached(t, b) = {b} \cup Reached(t, t[b].next)
    BY <1>1, ReachedStep DEF Extended
  <2>3. Reached(s, b) \subseteq b .. Len(s)
    BY <2>2, ReachedLater
  <2>4. CASE b = h
    <3>1. Reached(t, b) = {h, n}
      BY <1>2, <2>2, <2>4 DEF Extended
    <3>2. Kept(b) = {h, n}
      BY <2>2, <2>3, <2>4
    <3>. QED
      BY <2>2, <3>1, <3>2
  <2>5. CASE b # h
    <3>1. h \in Reached(s, s[b].next) /\ t[b].next = s[b].next
      BY <2>2, <2>5 DEF Extended
    <3>2. s[b].next # 0
      BY <3>1, ReachedStep
    <3>3. s[b].next \in 1 .. Len(s) /\ b < s[b].next
      BY <2>2, <3>2 DEF Forward
    <3>4. s[b].next \notin Bad
      BY <2>1, <3>3
    <3>5. Reached(t, s[b].next) = Kept(s[b].next)
      BY <3>1, <3>3, <3>4
    <3>6. b <= h
      BY <2>2, <2>3
    <3>. QED
      BY <2>2, <3>1, <3>5, <3>6
  <2>. QED
    BY <2>4, <2>5
<1>. QED
  BY <1>1, <1>3

-----------------------------------------------------------------------------
(* What was allocated and not lost: the head and the chunk of every object *)
(* are reached, objects lie no later than the head, and the head is the    *)
(* last chunk until the arena is reset.                                    *)
Links ==
  /\ resets \in Nat
  /\ Forward(chunks)
  /\ InUse => arena.head \in Chain
  /\ InUse /\ resets = 0 => arena.head = Len(chunks)
  /\ \A i \in DOMAIN blocks : blocks[i].chunk \in Chain /\ blocks[i].chunk <= arena.head
  /\ Chain \subseteq allocated
  /\ resets = 0 => Chain = allocated

(* arena_alloc() keeps all of this. *)
LEMMA AllocLinks ==
  ASSUME IInv, Links, InUse, NEW size \in Sizes, arena_alloc(size), UNCHANGED resets
  PROVE  /\ InUse' /\ Forward(chunks)'
         /\ arena'.head \in Chain'
         /\ resets = 0 => arena'.head = Len(chunks')
         /\ \A c \in Chain : c <= arena.head => c \in Chain' /\ c <= arena'.head
         /\ Place(size).chunk \in Chain' /\ Place(size).chunk <= arena'.head
         /\ Chain' \subseteq allocated'
         /\ resets = 0 => Chain' = allocated'
<1>1. /\ chunks \in Seq(Chunk) /\ Len(chunks) \in Nat
      /\ arena.head \in 1 .. Len(chunks) /\ arena.buffer \in 1 .. Len(chunks)
      /\ arena \in [offset : Nat, buffer : Nat, head : Nat, next_buffer_size : Nat]
  BY DEF IInv, Usable
<1>2. CASE Fits(size)
  <2>1. /\ chunks' = chunks /\ allocated' = allocated
        /\ arena' = [arena EXCEPT !.offset = align_up(arena.offset) + size]
        /\ Place(size).chunk = arena.head
    BY <1>2 DEF arena_alloc, Place
  <2>2. arena'.head = arena.head /\ arena'.buffer = arena.buffer
    BY <1>1, <2>1
  <2>3. Chain' = Chain
    BY <2>1, <2>2, ChainIsReached
  <2>. QED
    BY <1>1, <2>1, <2>2, <2>3 DEF Links, InUse
<1>3. CASE ~Fits(size)
  <2>. DEFINE n == Len(chunks) + 1
              h == arena.head
              b == arena.buffer
  <2>1. /\ chunks' = Append(Linked(chunks, h, n), [size |-> ChunkSize(size), next |-> 0])
        /\ allocated' = allocated \cup {n}
        /\ arena' = [arena EXCEPT !.head = n, !.offset = size,
                                  !.next_buffer_size = alloc_needed(ChunkSize(size))]
        /\ Place(size).chunk = n
    BY <1>3 DEF arena_alloc, Overflow, Place, NULL
  <2>2. arena'.head = n /\ arena'.buffer = b
    BY <1>1, <2>1
  <2>3. Extended(chunks, h, chunks')
    <3>1. /\ Linked(chunks, h, n) \in Seq(Chunk)
          /\ Len(Linked(chunks, h, n)) = Len(chunks)
          /\ \A i \in 1 .. Len(chunks) :
               Linked(chunks, h, n)[i].next = IF i = h THEN n ELSE chunks[i].next
      BY <1>1, LinkedChunks
    <3>. DEFINE linked == Linked(chunks, h, n)
                new    == [size |-> ChunkSize(size), next |-> 0]
    <3>2. new \in Chunk /\ new.next = 0
      <4>1. size \in Nat /\ arena.next_buffer_size \in Nat
        BY <1>1, SizesAssumption
      <4>. QED
        BY <4>1 DEF ChunkSize, Chunk
    <3>. HIDE DEF linked, new
    <3>3. chunks' = Append(linked, new)
      BY <2>1 DEF linked, new
    <3>4. /\ linked \in Seq(Chunk) /\ Len(linked) = Len(chunks)
          /\ \A i \in 1 .. Len(chunks) : linked[i].next = IF i = h THEN n ELSE chunks[i].next
      BY <3>1 DEF linked
    <3>5. /\ Len(chunks') = n
          /\ \A i \in 1 .. Len(chunks) : chunks'[i] = linked[i]
          /\ chunks'[n] = new
      BY <1>1, <3>2, <3>3, <3>4
    <3>6. \A i \in 1 .. Len(chunks) : chunks'[i].next = IF i = h THEN n ELSE chunks[i].next
      BY <3>4, <3>5
    <3>7. chunks'[n].next = 0
      BY <3>2, <3>5
    <3>. QED
      BY <3>5, <3>6, <3>7 DEF Extended
  <2>4. /\ Chain = Reached(chunks, b) /\ Chain' = Reached(chunks', b)
        /\ h \in Chain /\ Forward(chunks)
    BY <2>2, ChainIsReached DEF Links
  <2>5. Forward(chunks') /\ Chain' = {i \in Chain : i <= h} \cup {n}
    BY <1>1, <2>3, <2>4, ReachedExtended
  <2>6. Chain \subseteq 1 .. Len(chunks)
    <3>1. Chain \subseteq b .. Len(chunks)
      BY <1>1, <2>4, ReachedLater
    <3>. QED
      BY <1>1, <3>1
  <2>7. resets = 0 => Chain' = allocated'
    <3>. SUFFICES ASSUME resets = 0 PROVE Chain' = allocated'
      OBVIOUS
    <3>1. h = Len(chunks) /\ Chain = allocated
      BY DEF Links
    <3>2. \A i \in Chain : i <= h
      BY <1>1, <2>6, <3>1
    <3>. QED
      BY <2>1, <2>5, <3>1, <3>2
  <2>8. Chain' \subseteq allocated'
    BY <2>1, <2>5 DEF Links
  <2>9. InUse' /\ n \in Chain' /\ Len(chunks') = n
    BY <1>1, <2>2, <2>3, <2>5 DEF InUse, NULL, Extended
  <2>10. \A c \in Chain : c <= h => c \in Chain' /\ c <= n
    BY <1>1, <2>5, <2>6
  <2>. QED
    BY <1>1, <2>1, <2>2, <2>5, <2>7, <2>8, <2>9, <2>10
<1>. QED
  BY <1>2, <1>3

LEMMA LinksAllocStep ==
  ASSUME IInv, Links, NEW id \in Ids, NEW size \in Sizes, Alloc(id, size)
  PROVE  Links'
<1>1. /\ InUse /\ arena_alloc(size) /\ UNCHANGED resets
      /\ blocks' = [i \in DOMAIN blocks \cup {id} |->
                      IF i = id THEN Place(size) ELSE blocks[i]]
  BY DEF Alloc
<1>2. /\ DOMAIN blocks' = DOMAIN blocks \cup {id}
      /\ \A i \in DOMAIN blocks' : blocks'[i] = IF i = id THEN Place(size) ELSE blocks[i]
  BY <1>1
<1>3. \A i \in DOMAIN blocks' : blocks'[i].chunk \in Chain' /\ blocks'[i].chunk <= arena'.head
  BY <1>1, <1>2, AllocLinks DEF Links
<1>. QED
  BY <1>1, <1>3, AllocLinks DEF Links

LEMMA LinksReallocStep ==
  ASSUME IInv, Links, NEW id \in Ids, NEW size \in Sizes, Realloc(id, size)
  PROVE  Links'
<1>. DEFINE old == blocks[id]
            b   == IF InPlace(old, size) THEN [old EXCEPT !.size = size] ELSE Place(size)
<1>1. /\ InUse /\ id \in DOMAIN blocks /\ UNCHANGED resets
      /\ blocks' = [blocks EXCEPT ![id] = b]
      /\ IF InPlace(old, size)
         THEN /\ arena' = [arena EXCEPT !.offset = old.at + size]
              /\ UNCHANGED << chunks, allocated >>
         ELSE arena_alloc(size)
  BY DEF Realloc
<1>2. CASE InPlace(old, size)
  <2>1. /\ chunks' = chunks /\ allocated' = allocated
        /\ arena' = [arena EXCEPT !.offset = old.at + size]
    BY <1>1, <1>2
  <2>2. arena \in [offset : Nat, buffer : Nat, head : Nat, next_buffer_size : Nat]
    BY DEF IInv
  <2>3. arena'.head = arena.head /\ arena'.buffer = arena.buffer
    BY <2>1, <2>2
  <2>4. Chain' = Chain
    BY <2>1, <2>3, ChainIsReached
  <2>5. /\ DOMAIN blocks' = DOMAIN blocks
        /\ \A i \in DOMAIN blocks : blocks'[i].chunk = blocks[i].chunk
    <3>1. old \in [chunk : 1 .. Len(chunks), at : Nat, size : Nat \ {0}]
      BY <1>1 DEF IInv, InChunk
    <3>2. b = [old EXCEPT !.size = size]
      BY <1>2
    <3>3. b.chunk = old.chunk
      BY <3>1, <3>2
    <3>. HIDE DEF b
    <3>. QED
      BY <1>1, <3>3
  <2>. QED
    BY <1>1, <2>1, <2>3, <2>4, <2>5 DEF Links, InUse
<1>3. CASE ~InPlace(old, size)
  <2>1. b = Place(size) /\ arena_alloc(size)
    BY <1>1, <1>3
  <2>. HIDE DEF b
  <2>2. /\ DOMAIN blocks' = DOMAIN blocks
        /\ \A i \in DOMAIN blocks : blocks'[i] = IF i = id THEN Place(size) ELSE blocks[i]
    BY <1>1, <2>1
  <2>3. \A i \in DOMAIN blocks' :
          blocks'[i].chunk \in Chain' /\ blocks'[i].chunk <= arena'.head
    BY <1>1, <2>1, <2>2, AllocLinks DEF Links
  <2>. QED
    BY <1>1, <2>1, <2>3, AllocLinks DEF Links
<1>. QED
  BY <1>2, <1>3

(* arena_reset() goes back to the first chunk, which is always reached. *)
LEMMA LinksResetStep ==
  ASSUME IInv, Links, Reset
  PROVE  Links'
<1>1. /\ InUse /\ chunks' = chunks /\ allocated' = allocated
      /\ DOMAIN blocks' = {} /\ resets' = resets + 1
      /\ arena' = [arena EXCEPT !.head = arena.buffer, !.offset = 0]
  BY DEF Reset
<1>2. /\ arena \in [offset : Nat, buffer : Nat, head : Nat, next_buffer_size : Nat]
      /\ arena.buffer \in 1 .. Len(chunks) /\ Len(chunks) \in Nat
  BY <1>1 DEF IInv, Usable
<1>3. arena'.head = arena.buffer /\ arena'.buffer = arena.buffer
  BY <1>1, <1>2
<1>4. Chain' = Chain
  BY <1>1, <1>3, ChainIsReached
<1>5. arena.buffer \in Chain
  BY <1>2, ChainIsReached, ReachedStep DEF Links
<1>. QED
  BY <1>1, <1>3, <1>4, <1>5 DEF Links

(* arena_free() gives back what is reached. *)
LEMMA LinksFreeStep ==
  ASSUME IInv, Links, Free
  PROVE  Links'
<1>1. /\ chunks' = chunks /\ allocated' = allocated \ Chain
      /\ DOMAIN blocks' = {} /\ resets' = resets
      /\ arena' = [offset |-> 0, buffer |-> 0, head |-> 0, next_buffer_size |-> 0]
  BY DEF Free, NULL
<1>2. Len(chunks) \in Nat
  BY DEF IInv
<1>3. ~InUse'
  BY <1>1 DEF InUse, NULL
<1>4. Chain' = {}
  BY <1>1, <1>2, ChainIsReached, ReachedStep DEF Links
<1>. QED
  BY <1>1, <1>3, <1>4 DEF Links

LEMMA LinksInit == Init => Links
<1>. SUFFICES ASSUME Init PROVE Links
  OBVIOUS
<1>1. /\ Len(chunks) = 1 /\ chunks[1].next = 0
      /\ arena.buffer = 1 /\ arena.head = 1
      /\ allocated = {1} /\ DOMAIN blocks = {} /\ resets = 0
  BY DEF Init, NULL
<1>2. Forward(chunks)
  BY <1>1 DEF Forward
<1>3. Chain = {1}
  <2>1. Chain = Reached(chunks, 1)
    BY <1>1, ChainIsReached
  <2>2. Reached(chunks, 1) = {1} \cup Reached(chunks, 0) /\ Reached(chunks, 0) = {}
    BY <1>1, <1>2, ReachedStep
  <2>. QED
    BY <2>1, <2>2
<1>. QED
  BY <1>1, <1>2, <1>3 DEF Links

(* arena_free() reaches the chunk of every live object and, unless the     *)
(* arena was reset, every chunk arena_alloc() ever made.                   *)
THEOREM NothingIsEverLost == Spec => []NothingIsLost
<1>1. IInv /\ Links /\ [Next]_vars => Links'
  <2>. SUFFICES ASSUME IInv, Links, [Next]_vars PROVE Links'
    OBVIOUS
  <2>1. ASSUME NEW id \in Ids, NEW size \in Sizes, Alloc(id, size)
        PROVE  Links'
    BY <2>1, LinksAllocStep
  <2>2. ASSUME NEW id \in Ids, NEW size \in Sizes, Realloc(id, size)
        PROVE  Links'
    BY <2>2, LinksReallocStep
  <2>3. CASE Reset
    BY <2>3, LinksResetStep
  <2>4. CASE Free
    BY <2>4, LinksFreeStep
  <2>5. CASE UNCHANGED vars
    <3>1. Chain' = Chain
      BY <2>5, ChainIsReached DEF vars
    <3>. QED
      BY <2>5, <3>1 DEF vars, Links, InUse
  <2>. QED
    BY <2>1, <2>2, <2>3, <2>4, <2>5 DEF Next
<1>2. Links => NothingIsLost
  BY DEF Links, NothingIsLost
<1>. QED
  BY <1>1, <1>2, LinksInit, IInvInductive, PTL DEF Spec
=============================================================================
