------------------------------- MODULE HashMap -------------------------------
(***************************************************************************)
(* The hash map of src/src/support/hashmap.c with the program that uses it *)
(* as hashmap.h shows.  An entry is a pointer to its struct hashmap_entry; *)
(* next is the field of that name, the hash of an entry is that of its     *)
(* key.  hashmap_grow() and hashmap_get() take one step per turn of their  *)
(* loops, so that a chain that does not end is a behaviour that does not.  *)
(***************************************************************************)
EXTENDS Integers, FiniteSets

CONSTANTS Entries,      \* bound: the entries the program has
          Keys,
          Hashes,       \* bound: the values of strhash()
          InitSize,     \* buckets of the first table, 16 in the code
          NULL

ASSUME EntriesAssumption == IsFiniteSet(Entries) /\ NULL \notin Entries
ASSUME HashesAssumption == Hashes \subseteq Nat
ASSUME InitSizeAssumption == InitSize \in Nat \ {0}

VARIABLES keyOf,        \* the program's: the key each entry is made for
          hashOf,       \* strhash(): a function of the key
          table, size, nr,      \* struct hashmap; size is 0 if table is NULL
          next,
          call,         \* the loop that is running: none, grow or get
          arg,          \* its entry to put or key to find
          cur,          \* its local entry
          i, new,       \* the locals of hashmap_grow()
          given,        \* the program's: the entries it put in the map
          latest,       \* for each key, the one put last since the table grew
          done          \* the last call that returned, and its result

locals == << call, arg, cur, i, new >>
history == << given, latest, done >>
vars == << keyOf, hashOf, table, size, nr, next, locals, history >>

-----------------------------------------------------------------------------
Bucket(e, n) == hashOf[keyOf[e]] % n

(* xcalloc() *)
EmptyTable(n) == [b \in 0 .. n - 1 |-> NULL]

Grown(n) == IF n = 0 THEN InitSize ELSE 2 * n

(* Mutant of MustGrow: one entry too late. *)
MustGrowLate == nr > size

MustGrow == nr >= size

(* Mutant of Fresh: an entry that is in the map already is put again. *)
Anything(e) == TRUE

(* The entry is a new one (hashmap.h 24). *)
Fresh(e) == e \notin given

(* A loop ends: its locals are gone. *)
EndLoop ==
  call' = "none" /\ arg' = NULL /\ cur' = NULL /\ i' = 0 /\ new' = EmptyTable(0)

Nothing == [k \in Keys |-> NULL]

Init ==
  /\ keyOf \in [Entries -> Keys] /\ hashOf \in [Keys -> Hashes]
  /\ table = EmptyTable(0) /\ size = 0 /\ nr = 0
  /\ next = [e \in Entries |-> NULL]
  /\ call = "none" /\ arg = NULL /\ cur = NULL /\ i = 0 /\ new = EmptyTable(0)
  /\ given = {} /\ latest = Nothing /\ done = << "init", NULL, NULL >>

(* The end of hashmap_put(): e becomes the first of its chain in table t,  *)
(* which has n buckets. *)
Link(e, t, n) ==
  /\ next' = [next EXCEPT ![e] = t[Bucket(e, n)]]
  /\ table' = [t EXCEPT ![Bucket(e, n)] = e]
  /\ size' = n
  /\ nr' = nr + 1
  /\ given' = given \cup {e}
  /\ done' = << "put", e, NULL >>
  /\ UNCHANGED << keyOf, hashOf >>

(* hashmap_put() that needs no growth: into a first table or one with room. *)
Put(e) ==
  /\ call = "none" /\ Fresh(e)
  /\ IF size = 0 THEN Link(e, EmptyTable(InitSize), InitSize)
                 ELSE ~ MustGrow /\ Link(e, table, size)
  /\ latest' = [latest EXCEPT ![keyOf[e]] = e]
  /\ UNCHANGED locals

(* hashmap_put() calls hashmap_grow(), up to its loop. *)
Grow(e) ==
  /\ call = "none" /\ Fresh(e)
  /\ size # 0 /\ MustGrow
  /\ call' = "grow" /\ arg' = e
  /\ new' = EmptyTable(Grown(size))
  /\ i' = 0 /\ cur' = table[0]
  /\ UNCHANGED << keyOf, hashOf, table, size, nr, next, history >>

(* Mutant of Following: the link is read after it was written. *)
FollowingWritten(e) == new[Bucket(e, Grown(size))]

(* The local next of hashmap_grow(), saved before the link is overwritten. *)
Following(e) == next[e]

NewBucket(e) == Bucket(e, Grown(size))

(* The inner loop of hashmap_grow(): an entry goes to the front of its new *)
(* chain.                                                                  *)
Move ==
  /\ call = "grow" /\ cur # NULL
  /\ next' = [next EXCEPT ![cur] = new[NewBucket(cur)]]
  /\ new' = [new EXCEPT ![NewBucket(cur)] = cur]
  /\ cur' = Following(cur)
  /\ UNCHANGED << keyOf, hashOf, table, size, nr, call, arg, i, history >>

(* Its outer loop. *)
NextBucket ==
  /\ call = "grow" /\ cur = NULL /\ i + 1 < size
  /\ i' = i + 1 /\ cur' = table[i + 1]
  /\ UNCHANGED << keyOf, hashOf, table, size, nr, next, call, arg, new, history >>

(* The new table takes the place of the old one, and hashmap_put() ends.   *)
FinishGrow ==
  /\ call = "grow" /\ cur = NULL /\ i + 1 = size
  /\ Link(arg, new, Grown(size))
  /\ latest' = [Nothing EXCEPT ![keyOf[arg]] = arg]
  /\ EndLoop

Return(k, e) ==
  /\ done' = << "get", k, e >>
  /\ UNCHANGED << keyOf, hashOf, table, size, nr, next, given, latest >>

(* hashmap_get() of a key, up to its loop. *)
Get(k) ==
  /\ call = "none"
  /\ IF size = 0
     THEN Return(k, NULL) /\ UNCHANGED locals
     ELSE /\ call' = "get" /\ arg' = k /\ cur' = table[hashOf[k] % size]
          /\ UNCHANGED << keyOf, hashOf, table, size, nr, next, i, new, history >>

(* The comparison function is external: it compares the keys. *)
Matches(e, k) == hashOf[keyOf[e]] = hashOf[k] /\ keyOf[e] = k

(* A turn of its loop. *)
Pass ==
  /\ call = "get" /\ cur # NULL /\ ~ Matches(cur, arg)
  /\ cur' = next[cur]
  /\ UNCHANGED << keyOf, hashOf, table, size, nr, next, call, arg, i, new, history >>

(* Its two returns. *)
Found ==
  /\ call = "get" /\ cur # NULL /\ Matches(cur, arg)
  /\ Return(arg, cur)
  /\ EndLoop

Missing ==
  /\ call = "get" /\ cur = NULL
  /\ Return(arg, NULL)
  /\ EndLoop

(* hashmap_free(); the entries are the program's, which may put them into  *)
(* the map again.                                                          *)
Free ==
  /\ call = "none"
  /\ table' = EmptyTable(0) /\ size' = 0 /\ nr' = 0
  /\ given' = {} /\ latest' = Nothing /\ done' = << "free", NULL, NULL >>
  /\ UNCHANGED << keyOf, hashOf, next, locals >>

(* A turn of a loop; the program runs on while it is in one. *)
Run == Move \/ NextBucket \/ FinishGrow \/ Pass \/ Found \/ Missing

Next ==
  \/ \E e \in Entries : Put(e) \/ Grow(e)
  \/ \E k \in Keys : Get(k)
  \/ Run
  \/ Free

Spec == Init /\ [][Next]_vars

FairSpec == Spec /\ WF_vars(Run)

-----------------------------------------------------------------------------
Table(n) == [0 .. n - 1 -> Entries \cup {NULL}]

TypeOK ==
  /\ keyOf \in [Entries -> Keys] /\ hashOf \in [Keys -> Hashes]
  /\ size \in Nat /\ nr \in Nat /\ table \in Table(size)
  /\ next \in [Entries -> Entries \cup {NULL}]
  /\ call \in {"none", "grow", "get"}
  /\ cur \in Entries \cup {NULL}
  /\ call = "get" => size # 0 /\ arg \in Keys
  /\ call = "grow" => /\ arg \in Entries \ given
                      /\ i \in 0 .. size - 1 /\ new \in Table(Grown(size))
  /\ given \subseteq Entries
  /\ latest \in [Keys -> Entries \cup {NULL}]

(* The count that decides about growth is the number of entries, and with  *)
(* it there are never more entries than buckets.  The chains are short on  *)
(* average then; entries of equal hashes share one, however long.          *)
LoadIsBounded == nr = Cardinality(given) /\ nr <= size

(* Through collisions and growth, which moves every entry and turns chains *)
(* around, the map keeps each entry where a lookup finds it, and the one   *)
(* put last shadows those put before it until the table grows.             *)
Map == INSTANCE Multimap

MapSpec == Map!Spec

(* Every chain ends: growth and lookups, of absent keys too, return. *)
Returns == call # "none" ~> call = "none"
=============================================================================
