---------------------------- MODULE HashMapProofs ----------------------------
(***************************************************************************)
(* Proofs about the hash map, for any entries, keys, hash function and     *)
(* size of the first table.                                                *)
(*                                                                         *)
(* Chains are lists of pointers; what is said about them here is local to  *)
(* each link, with the height of an entry (the number of entries after it  *)
(* in its chain) as the measure.  An entry is linked in by getting a       *)
(* height above all of its chain, and one taken from the front leaves the  *)
(* heights of the others as they are.                                      *)
(***************************************************************************)
EXTENDS HashMap, FiniteSetTheorems, TLAPS

Nulled == Entries \cup {NULL}

(* The entries of set s are exactly those in the chains of table t, whose  *)
(* buckets are d; B gives the bucket of each entry.                        *)
Chained(e, B, s, nx, height) ==
  /\ nx[e] = NULL <=> height[e] = 0
  /\ nx[e] # NULL => /\ nx[e] \in s /\ B[nx[e]] = B[e]
                     /\ height[e] = height[nx[e]] + 1

Topped(e, t, B, height) == t[B[e]] # NULL /\ height[e] <= height[t[B[e]]]

Chains(t, d, B, s, nx, height) ==
  /\ t \in [d -> Nulled] /\ B \in [Entries -> d] /\ s \subseteq Entries
  /\ nx \in [Entries -> Nulled] /\ height \in [Entries -> Nat]
  /\ \A e \in s : Chained(e, B, s, nx, height) /\ Topped(e, t, B, height)
  /\ \A e, f \in s : B[e] = B[f] /\ height[e] = height[f] => e = f
  /\ \A b \in d : t[b] # NULL => t[b] \in s /\ B[t[b]] = b

(* The height of an entry linked in before h. *)
Above(h, height) == IF h = NULL THEN 0 ELSE height[h] + 1

Updated(f, x, v) == [f EXCEPT ![x] = v]

(* Chains do not depend on the links of other entries. *)
LEMMA ChainsFrame ==
  ASSUME NEW t, NEW d, NEW B, NEW s, NEW nx, NEW height,
         Chains(t, d, B, s, nx, height),
         NEW nx2 \in [Entries -> Nulled], NEW height2 \in [Entries -> Nat],
         \A e \in s : nx2[e] = nx[e] /\ height2[e] = height[e]
  PROVE  Chains(t, d, B, s, nx2, height2)
<1>1. ASSUME NEW e \in s
      PROVE  Chained(e, B, s, nx2, height2) /\ Topped(e, t, B, height2)
  <2>1. Chained(e, B, s, nx, height) /\ Topped(e, t, B, height) /\ B[e] \in d
    BY <1>1 DEF Chains
  <2>2. t[B[e]] \in s
    BY <2>1 DEF Chains, Topped
  <2>. QED
    BY <1>1, <2>1, <2>2 DEF Chained, Topped
<1>2. \A e, f \in s : B[e] = B[f] /\ height2[e] = height2[f] => e = f
  BY DEF Chains
<1>. QED
  BY <1>1, <1>2 DEF Chains

(* An entry that is in no chain goes to the front of one. *)
LEMMA Push ==
  ASSUME NEW t, NEW d, NEW B, NEW s, NEW nx, NEW height,
         Chains(t, d, B, s, nx, height),
         NEW e \in Entries, e \notin s
  PROVE  \E g :
           /\ Chains(Updated(t, B[e], e), d, B, s \cup {e},
                     Updated(nx, e, t[B[e]]), g)
           /\ \A f \in Entries \ {e} : g[f] = height[f]
           /\ \A f \in s : g[f] = height[f] /\ (B[f] = B[e] => height[f] < g[e])
<1>. DEFINE h  == t[B[e]]
            g  == [height EXCEPT ![e] = Above(h, height)]
            t2 == Updated(t, B[e], e)
            n2 == Updated(nx, e, h)
            s2 == s \cup {e}
<1>t. /\ t \in [d -> Nulled] /\ B \in [Entries -> d] /\ s \subseteq Entries
      /\ nx \in [Entries -> Nulled] /\ height \in [Entries -> Nat]
  BY DEF Chains
<1>0. /\ NULL \notin Entries /\ e # NULL /\ B[e] \in d /\ h \in Nulled
      /\ h # NULL => h \in s /\ B[h] = B[e]
  BY EntriesAssumption DEF Chains, Nulled
<1>1. /\ g \in [Entries -> Nat]
      /\ g[e] = Above(h, height)
      /\ \A f \in s : g[f] = height[f] /\ f # e /\ height[f] \in Nat
      /\ \A f \in Entries \ {e} : g[f] = height[f]
  BY <1>0, <1>t DEF Above, Nulled
<1>2. /\ t2[B[e]] = e
      /\ \A b \in d : b # B[e] => t2[b] = t[b]
      /\ n2[e] = h
      /\ \A f \in s : n2[f] = nx[f]
      /\ t2 \in [d -> Nulled] /\ n2 \in [Entries -> Nulled]
  BY <1>0, <1>t DEF Updated, Nulled
<1>3. \A f \in s : /\ nx[f] = NULL <=> height[f] = 0
                   /\ nx[f] # NULL => /\ nx[f] \in s /\ B[nx[f]] = B[f]
                                      /\ height[f] = height[nx[f]] + 1
                   /\ t[B[f]] # NULL /\ height[f] <= height[t[B[f]]]
                   /\ B[f] \in d /\ t[B[f]] \in s
  BY DEF Chains, Chained, Topped
<1>4. \A f \in s : B[f] = B[e] => h # NULL /\ height[f] < g[e]
  BY <1>0, <1>1, <1>3 DEF Above
<1>5. ASSUME NEW f \in s2
      PROVE  Chained(f, B, s2, n2, g)
  <2>1. CASE f = e
    <3>1. CASE h = NULL
      BY <1>1, <1>2, <2>1, <3>1 DEF Chained, Above
    <3>2. CASE h # NULL
      BY <1>0, <1>1, <1>2, <2>1, <3>2 DEF Chained, Above
    <3>. QED
      BY <3>1, <3>2
  <2>2. CASE f \in s
    BY <1>1, <1>2, <1>3, <2>2 DEF Chained
  <2>. QED
    BY <2>1, <2>2
<1>6. ASSUME NEW f \in s2
      PROVE  Topped(f, t2, B, g)
  <2>1. CASE f = e
    BY <1>0, <1>1, <1>2, <2>1 DEF Topped
  <2>2. CASE f \in s /\ B[f] = B[e]
    BY <1>0, <1>1, <1>2, <1>4, <2>2 DEF Topped
  <2>3. CASE f \in s /\ B[f] # B[e]
    BY <1>1, <1>2, <1>3, <2>3 DEF Topped
  <2>. QED
    BY <2>1, <2>2, <2>3
<1>7. ASSUME NEW f1 \in s2, NEW f2 \in s2, B[f1] = B[f2], g[f1] = g[f2]
      PROVE  f1 = f2
  <2>1. CASE f1 \in s /\ f2 \in s
    BY <1>1, <1>7, <2>1 DEF Chains
  <2>2. CASE f1 = e \/ f2 = e
    BY <1>1, <1>4, <1>7, <2>2
  <2>. QED
    BY <2>1, <2>2
<1>8. ASSUME NEW b \in d, t2[b] # NULL
      PROVE  t2[b] \in s2 /\ B[t2[b]] = b
  BY <1>2, <1>8 DEF Chains
<1>9. s2 \subseteq Entries
  BY <1>t
<1>. HIDE DEF g, s2, t2, n2
<1>10. Chains(t2, d, B, s2, n2, g)
  BY <1>t, <1>1, <1>2, <1>5, <1>6, <1>7, <1>8, <1>9 DEF Chains
<1>. QED
  BY <1>1, <1>4, <1>10 DEF s2, t2, n2

(* The first entry of a chain is taken from it. *)
LEMMA Pop ==
  ASSUME NEW t, NEW d, NEW B, NEW s, NEW nx, NEW height,
         Chains(t, d, B, s, nx, height),
         NEW b \in d, t[b] # NULL
  PROVE  Chains(Updated(t, b, nx[t[b]]), d, B, s \ {t[b]}, nx, height)
<1>. DEFINE e  == t[b]
            t2 == Updated(t, b, nx[e])
            s2 == s \ {e}
<1>t. /\ t \in [d -> Nulled] /\ B \in [Entries -> d] /\ s \subseteq Entries
      /\ nx \in [Entries -> Nulled] /\ height \in [Entries -> Nat]
  BY DEF Chains
<1>0. e \in s /\ e \in Entries /\ B[e] = b /\ NULL \notin Entries
  BY EntriesAssumption DEF Chains
<1>1. t2 \in [d -> Nulled] /\ t2[b] = nx[e] /\ \A c \in d : c # b => t2[c] = t[c]
  BY <1>0, <1>t DEF Updated, Nulled
<1>2. \A f \in s : /\ height[f] \in Nat
                   /\ nx[f] = NULL <=> height[f] = 0
                   /\ nx[f] # NULL => /\ nx[f] \in s /\ B[nx[f]] = B[f]
                                      /\ height[f] = height[nx[f]] + 1
                   /\ t[B[f]] # NULL /\ height[f] <= height[t[B[f]]]
                   /\ B[f] \in d /\ t[B[f]] \in s
  BY DEF Chains, Chained, Topped
<1>3. ASSUME NEW f \in s2, B[f] = b
      PROVE  height[f] < height[e]
  <2>1. height[f] <= height[e] /\ f \in s /\ f # e
    BY <1>2, <1>3
  <2>2. height[f] # height[e]
    BY <1>0, <1>3, <2>1 DEF Chains
  <2>. QED
    BY <1>0, <1>2, <2>1, <2>2
<1>4. ASSUME NEW f \in s2
      PROVE  Chained(f, B, s2, nx, height)
  <2>1. nx[f] # e
    BY <1>0, <1>2, <1>3, <1>4
  <2>. QED
    BY <1>2, <1>4, <2>1 DEF Chained
<1>5. ASSUME NEW f \in s2
      PROVE  Topped(f, t2, B, height)
  <2>1. CASE B[f] = b
    <3>1. height[f] < height[e] /\ height[e] \in Nat /\ height[f] \in Nat
      BY <1>0, <1>2, <1>3, <1>5, <2>1
    <3>2. nx[e] # NULL /\ height[e] = height[nx[e]] + 1 /\ nx[e] \in s
      BY <1>0, <1>2, <3>1
    <3>3. height[nx[e]] \in Nat /\ height[f] <= height[nx[e]]
      BY <1>2, <3>1, <3>2
    <3>. QED
      BY <1>1, <2>1, <3>2, <3>3 DEF Topped
  <2>2. CASE B[f] # b
    BY <1>1, <1>2, <1>5, <2>2 DEF Topped
  <2>. QED
    BY <2>1, <2>2
<1>6. \A f1, f2 \in s2 : B[f1] = B[f2] /\ height[f1] = height[f2] => f1 = f2
  BY DEF Chains
<1>7. ASSUME NEW c \in d, t2[c] # NULL
      PROVE  t2[c] \in s2 /\ B[t2[c]] = c
  <2>1. CASE c = b
    <3>1. nx[e] \in s /\ B[nx[e]] = B[e] /\ height[e] = height[nx[e]] + 1
      BY <1>0, <1>1, <1>2, <1>7, <2>1
    <3>2. nx[e] # e
      BY <1>0, <1>2, <3>1
    <3>. QED
      BY <1>0, <1>1, <2>1, <3>1, <3>2
  <2>2. CASE c # b
    BY <1>0, <1>1, <1>7, <2>2 DEF Chains
  <2>. QED
    BY <2>1, <2>2
<1>s. s2 \subseteq Entries
  BY <1>t
<1>. HIDE DEF s2, t2
<1>8. Chains(t2, d, B, s2, nx, height)
  BY <1>s, <1>t, <1>1, <1>4, <1>5, <1>6, <1>7 DEF Chains
<1>. QED
  BY <1>8 DEF s2, t2
-----------------------------------------------------------------------------
Buckets(n) == [e \in Entries |-> Bucket(e, n)]

(* What is left of the old table while hashmap_grow() empties it. *)
Rest == [b \in 0 .. size - 1 |->
           IF b < i THEN NULL ELSE IF b = i THEN cur ELSE table[b]]

(* Every entry is in its chain; while the table grows, in the rest of the  *)
(* old one or in the new one.                                              *)
Linked(height) ==
  IF call = "grow"
  THEN \E moved \in SUBSET given :
         /\ Chains(Rest, 0 .. size - 1, Buckets(size), given \ moved, next, height)
         /\ Chains(new, 0 .. Grown(size) - 1, Buckets(Grown(size)), moved, next, height)
  ELSE size # 0 => Chains(table, 0 .. size - 1, Buckets(size), given, next, height)

(* hashmap_get() has passed no entry with its key. *)
Walking(height) ==
  call = "get" =>
    /\ cur = NULL => \A e \in given : keyOf[e] # arg
    /\ cur # NULL => /\ cur \in given /\ Bucket(cur, size) = hashOf[arg] % size
                     /\ \A e \in given : keyOf[e] = arg => height[e] <= height[cur]

(* The newest entry of a key is the first of them in its chain. *)
Shadowing(height) ==
  call # "grow" => \A k \in Keys : latest[k] # NULL =>
    /\ latest[k] \in given /\ keyOf[latest[k]] = k
    /\ \A e \in given : keyOf[e] = k => height[e] <= height[latest[k]]

(* The inductive invariant. *)
IInv ==
  /\ TypeOK /\ LoadIsBounded
  /\ \E height \in [Entries -> Nat] :
       Linked(height) /\ Walking(height) /\ Shadowing(height)

LEMMA Remainder == \A a \in Nat, n \in Nat \ {0} : a % n \in 0 .. n - 1
  OBVIOUS

LEMMA BucketsType ==
  ASSUME TypeOK, NEW n \in Nat \ {0}
  PROVE  Buckets(n) \in [Entries -> 0 .. n - 1]
BY Remainder, HashesAssumption DEF Buckets, Bucket, TypeOK

LEMMA NoChains ==
  ASSUME TypeOK, NEW n \in Nat \ {0}, NEW height \in [Entries -> Nat]
  PROVE  Chains(EmptyTable(n), 0 .. n - 1, Buckets(n), {}, next, height)
BY BucketsType DEF Chains, EmptyTable, TypeOK, Nulled

LEMMA GivenFinite == TypeOK => IsFiniteSet(given) /\ Cardinality(given) \in Nat
BY EntriesAssumption, FS_Subset, FS_CardinalityType DEF TypeOK

LEMMA EmptyMap == TypeOK /\ LoadIsBounded /\ size = 0 => given = {} /\ nr = 0
<1>. SUFFICES ASSUME TypeOK, LoadIsBounded, size = 0 PROVE given = {} /\ nr = 0
  OBVIOUS
<1>1. nr = 0 /\ Cardinality(given) = 0 /\ IsFiniteSet(given)
  BY GivenFinite DEF LoadIsBounded, TypeOK
<1>. QED
  BY <1>1, FS_EmptySet

(* The end of hashmap_put(). *)
LEMMA LinkStep ==
  ASSUME TypeOK, nr = Cardinality(given),
         NEW n \in Nat \ {0}, NEW t \in Table(n), nr < n,
         NEW e \in Entries \ given, Link(e, t, n),
         NEW height,
         Chains(t, 0 .. n - 1, Buckets(n), given, next, height)
  PROVE  /\ table' \in Table(n) /\ next' \in [Entries -> Nulled]
         /\ nr' = Cardinality(given') /\ nr' \in Nat /\ nr' <= n
         /\ \E g :
              /\ Chains(table', 0 .. n - 1, Buckets(n), given', next', g)
              /\ \A f \in given : /\ g[f] = height[f]
                                  /\ keyOf[f] = keyOf[e] => height[f] < g[e]
<1>1. /\ given \in SUBSET Entries /\ next \in [Entries -> Nulled]
      /\ t \in [0 .. n - 1 -> Nulled] /\ Buckets(n) \in [Entries -> 0 .. n - 1]
  BY BucketsType DEF TypeOK, Table, Nulled
<1>2. Buckets(n)[e] = Bucket(e, n)
  BY DEF Buckets
<1>3. /\ table' = Updated(t, Buckets(n)[e], e)
      /\ next' = Updated(next, e, t[Buckets(n)[e]])
      /\ given' = given \cup {e} /\ nr' = nr + 1
  BY <1>2 DEF Link, Updated
<1>4. \E g :
        /\ Chains(table', 0 .. n - 1, Buckets(n), given', next', g)
        /\ \A f \in given : /\ g[f] = height[f]
                            /\ Buckets(n)[f] = Buckets(n)[e] => height[f] < g[e]
  <2>1. e \in Entries /\ e \notin given
    OBVIOUS
  <2>2. \E g : /\ Chains(Updated(t, Buckets(n)[e], e), 0 .. n - 1, Buckets(n),
                         given \cup {e}, Updated(next, e, t[Buckets(n)[e]]), g)
               /\ \A f \in given :
                    g[f] = height[f] /\ (Buckets(n)[f] = Buckets(n)[e] => height[f] < g[e])
    BY ONLY <2>1, Push, Chains(t, 0 .. n - 1, Buckets(n), given, next, height)
  <2>. QED
    BY <1>3, <2>2
<1>5. \A f \in given : keyOf[f] = keyOf[e] => Buckets(n)[f] = Buckets(n)[e]
  <2>. TAKE f \in given
  <2>1. f \in Entries
    BY <1>1
  <2>. QED
    BY <2>1 DEF Buckets, Bucket
<1>6. nr' = Cardinality(given') /\ nr' \in Nat /\ nr' <= n
  <2>1. nr \in Nat /\ IsFiniteSet(given)
    BY GivenFinite DEF TypeOK
  <2>2. Cardinality(given \cup {e}) = Cardinality(given) + 1
    BY <2>1, FS_AddElement
  <2>. QED
    BY <1>3, <2>1, <2>2
<1>7. table' \in Table(n) /\ next' \in [Entries -> Nulled]
  BY <1>1, <1>3 DEF Table, Nulled, Updated
<1>. QED
  BY <1>3, <1>4, <1>5, <1>6, <1>7

(* What does not change while the loops of the map run. *)
LEMMA BucketsSame ==
  ASSUME UNCHANGED << keyOf, hashOf >>, NEW n, size' = n
  PROVE  Buckets(size)' = Buckets(n)
BY DEF Buckets, Bucket

-----------------------------------------------------------------------------
LEMMA InitIInv == Init => IInv
<1>. SUFFICES ASSUME Init PROVE IInv
  OBVIOUS
<1>. DEFINE zero == [e \in Entries |-> 0]
<1>1. TypeOK
  BY DEF Init, TypeOK, EmptyTable, Table, Nothing
<1>2. LoadIsBounded
  BY FS_EmptySet DEF Init, LoadIsBounded
<1>3. zero \in [Entries -> Nat] /\ Linked(zero) /\ Walking(zero) /\ Shadowing(zero)
  BY DEF Init, Linked, Walking, Shadowing, Nothing
<1>. HIDE DEF zero
<1>. QED
  BY <1>1, <1>2, <1>3 DEF IInv

LEMMA PutStep ==
  ASSUME IInv, NEW e \in Entries, Put(e)
  PROVE  IInv'
<1>. DEFINE n == IF size = 0 THEN InitSize ELSE size
            t == IF size = 0 THEN EmptyTable(InitSize) ELSE table
<1>0. TypeOK /\ LoadIsBounded
  BY DEF IInv
<1>1. PICK height \in [Entries -> Nat] :
        Linked(height) /\ Walking(height) /\ Shadowing(height)
  BY DEF IInv
<1>2. /\ Link(e, t, n) /\ call = "none" /\ e \in Entries \ given
      /\ latest' = [latest EXCEPT ![keyOf[e]] = e]
      /\ UNCHANGED locals /\ UNCHANGED << keyOf, hashOf >> /\ size' = n
  BY DEF Put, Fresh, Link
<1>3. n \in Nat \ {0} /\ nr < n
  BY <1>0, EmptyMap, InitSizeAssumption DEF TypeOK, LoadIsBounded, Put, MustGrow
<1>4. t \in Table(n)
  BY <1>0 DEF TypeOK, Table, EmptyTable
<1>5. Chains(t, 0 .. n - 1, Buckets(n), given, next, height)
  BY <1>0, <1>1, <1>2, <1>3, EmptyMap, NoChains DEF Linked
<1>. HIDE DEF n, t
<1>6. nr = Cardinality(given)
  BY <1>0 DEF LoadIsBounded
<1>7. /\ table' \in Table(n) /\ next' \in [Entries -> Nulled]
      /\ nr' = Cardinality(given') /\ nr' \in Nat /\ nr' <= n
  BY <1>0, <1>2, <1>3, <1>4, <1>5, <1>6, LinkStep
<1>8. PICK g : /\ Chains(table', 0 .. n - 1, Buckets(n), given', next', g)
               /\ \A f \in given : /\ g[f] = height[f]
                                   /\ keyOf[f] = keyOf[e] => height[f] < g[e]
  BY <1>0, <1>2, <1>3, <1>4, <1>5, <1>6, LinkStep
<1>9. g \in [Entries -> Nat]
  BY <1>8 DEF Chains
<1>h. \A f \in given : g[f] = height[f]
  BY <1>8
<1>k. \A f \in given : keyOf[f] = keyOf[e] => height[f] < g[e]
  BY <1>8
<1>10. TypeOK'
  BY <1>0, <1>2, <1>3, <1>7 DEF TypeOK, Nulled, Link, locals, Table
<1>11. LoadIsBounded'
  BY <1>2, <1>7 DEF LoadIsBounded
<1>12. Linked(g)'
  BY <1>2, <1>3, <1>8, BucketsSame DEF Linked, locals
<1>13. Walking(g)'
  BY <1>2 DEF Walking, locals
<1>14. Shadowing(g)'
  <2>. SUFFICES ASSUME NEW k \in Keys, latest'[k] # NULL
                PROVE  /\ latest'[k] \in given' /\ keyOf[latest'[k]] = k
                       /\ \A f \in given' : keyOf[f] = k => g[f] <= g[latest'[k]]
    BY <1>2 DEF Shadowing
  <2>1. /\ given' = given \cup {e} /\ given \subseteq Entries
        /\ keyOf \in [Entries -> Keys] /\ latest \in [Keys -> Nulled]
    BY <1>0, <1>2 DEF TypeOK, Link, Nulled
  <2>2. CASE keyOf[e] = k
    <3>1. latest'[k] = e
      BY <1>2, <2>1, <2>2
    <3>2. ASSUME NEW f \in given', keyOf[f] = k
          PROVE  g[f] <= g[e]
      <4>1. CASE f = e
        BY <1>2, <1>9, <4>1
      <4>2. CASE f \in given
        <5>1. g[f] = height[f] /\ height[f] < g[e]
          BY <1>h, <1>k, <2>2, <3>2, <4>2
        <5>. QED
          BY <1>9, <2>1, <4>2, <5>1
      <4>. QED
        BY <2>1, <3>2, <4>1, <4>2
    <3>. QED
      BY <2>1, <2>2, <3>1, <3>2
  <2>3. CASE keyOf[e] # k
    <3>1. latest'[k] = latest[k]
      BY <1>2, <2>1, <2>3
    <3>. QED
      <4>1. /\ latest[k] \in given /\ keyOf[latest[k]] = k
            /\ \A f \in given : keyOf[f] = k => height[f] <= height[latest[k]]
        BY <1>1, <1>2, <3>1 DEF Shadowing
      <4>2. ASSUME NEW f \in given', keyOf[f] = k
            PROVE  g[f] <= g[latest[k]]
        <5>1. f \in given
          BY <2>1, <2>3, <4>2
        <5>2. g[f] = height[f] /\ g[latest[k]] = height[latest[k]]
          BY <1>h, <4>1, <5>1
        <5>. QED
          BY <4>1, <4>2, <5>1, <5>2
      <4>. QED
        BY <2>1, <3>1, <4>1, <4>2
  <2>. QED
    BY <2>2, <2>3
<1>. QED
  BY <1>9, <1>10, <1>11, <1>12, <1>13, <1>14 DEF IInv

LEMMA GrowStep ==
  ASSUME IInv, NEW e \in Entries, Grow(e)
  PROVE  IInv'
<1>0. TypeOK /\ LoadIsBounded
  BY DEF IInv
<1>1. PICK height \in [Entries -> Nat] : Linked(height)
  BY DEF IInv
<1>2. /\ call = "none" /\ call' = "grow" /\ size \in Nat \ {0} /\ size' = size
      /\ cur' = table[0] /\ i' = 0 /\ new' = EmptyTable(Grown(size))
      /\ UNCHANGED << keyOf, hashOf, table, nr, next, given >>
      /\ arg' = e /\ e \in Entries \ given
  BY <1>0 DEF Grow, Fresh, TypeOK, history
<1>3. Grown(size) \in Nat \ {0} /\ Grown(size)' = Grown(size)
  BY <1>2 DEF Grown
<1>4. Buckets(size)' = Buckets(size) /\ Buckets(Grown(size))' = Buckets(Grown(size))
  BY <1>2, <1>3 DEF Buckets, Bucket
<1>5. Rest' = table
  BY <1>0, <1>2 DEF Rest, TypeOK, Table
<1>6. /\ Chains(table, 0 .. size - 1, Buckets(size), given, next, height)
      /\ Chains(new', 0 .. Grown(size) - 1, Buckets(Grown(size)), {}, next, height)
  BY <1>0, <1>1, <1>2, <1>3, NoChains DEF Linked
<1>7. Linked(height)'
  <2>1. {} \in SUBSET given' /\ given' \ {} = given
    BY <1>2
  <2>. QED
    BY <1>2, <1>3, <1>4, <1>5, <1>6, <2>1 DEF Linked
<1>8. TypeOK'
  BY <1>0, <1>2, <1>3 DEF TypeOK, Table, EmptyTable, Grow, history
<1>9. LoadIsBounded'
  BY <1>0, <1>2 DEF LoadIsBounded
<1>10. Walking(height)' /\ Shadowing(height)'
  BY <1>2 DEF Walking, Shadowing
<1>. QED
  BY <1>7, <1>8, <1>9, <1>10 DEF IInv

LEMMA MoveStep ==
  ASSUME IInv, Move
  PROVE  IInv'
<1>. DEFINE d == 0 .. size - 1
            m == Grown(size)
            D == 0 .. m - 1
<1>0. TypeOK /\ LoadIsBounded
  BY DEF IInv
<1>1. PICK height \in [Entries -> Nat] : Linked(height)
  BY DEF IInv
<1>2. /\ call = "grow" /\ call' = "grow" /\ cur # NULL /\ cur' = next[cur]
      /\ UNCHANGED << keyOf, hashOf, table, size, nr, arg, i, given, latest >>
      /\ next' = Updated(next, cur, new[Bucket(cur, m)])
      /\ new' = Updated(new, Bucket(cur, m), cur)
  BY DEF Move, NewBucket, Following, Updated, history
<1>3. /\ size \in Nat \ {0} /\ i \in d /\ m \in Nat \ {0} /\ cur \in Entries
      /\ table \in [d -> Nulled] /\ new \in [D -> Nulled]
      /\ next \in [Entries -> Nulled] /\ given \subseteq Entries
  BY <1>0, <1>2 DEF TypeOK, Grown, Table, Nulled
<1>4. PICK moved \in SUBSET given :
        /\ Chains(Rest, d, Buckets(size), given \ moved, next, height)
        /\ Chains(new, D, Buckets(m), moved, next, height)
  BY <1>1, <1>2 DEF Linked
<1>. HIDE DEF d, D, m
<1>5. Rest \in [d -> Nulled] /\ Rest[i] = cur
  BY <1>2, <1>3 DEF Rest, d, Nulled
<1>6. cur \in given \ moved
  BY <1>2, <1>3, <1>4, <1>5 DEF Chains
<1>7. Chains(Updated(Rest, i, next[cur]), d, Buckets(size), (given \ moved) \ {cur},
             next, height)
  <2>1. /\ Chains(Rest, d, Buckets(size), given \ moved, next, height)
        /\ i \in d /\ Rest[i] # NULL
    BY <1>2, <1>3, <1>4, <1>5
  <2>2. Chains(Updated(Rest, i, next[Rest[i]]), d, Buckets(size),
               (given \ moved) \ {Rest[i]}, next, height)
    BY ONLY <2>1, Pop
  <2>. QED
    BY <1>5, <2>2
<1>8. Rest' = Updated(Rest, i, next[cur])
  <2>1. Rest' = [b \in d |-> IF b < i THEN NULL ELSE IF b = i THEN next[cur] ELSE table[b]]
    BY <1>2 DEF Rest, d
  <2>2. \A b \in d : b < i => b # i
    BY <1>3 DEF d
  <2>3. ASSUME NEW b \in d
        PROVE  Rest'[b] = Updated(Rest, i, next[cur])[b]
    BY <1>3, <2>1, <2>2 DEF Rest, Updated, d
  <2>4. Updated(Rest, i, next[cur]) = [b \in d |-> Updated(Rest, i, next[cur])[b]]
    BY DEF Updated, Rest, d
  <2>. QED
    BY <2>1, <2>3, <2>4
<1>9. Buckets(m)[cur] = Bucket(cur, m)
  BY <1>3 DEF Buckets
<1>10. PICK g :
         /\ Chains(new', D, Buckets(m), moved \cup {cur}, next', g)
         /\ \A f \in Entries \ {cur} : g[f] = height[f]
  <2>1. cur \in Entries /\ cur \notin moved
    BY <1>6, <1>3
  <2>2. Chains(new, D, Buckets(m), moved, next, height)
    BY <1>4
  <2>3. \E g :
          /\ Chains(Updated(new, Buckets(m)[cur], cur), D, Buckets(m), moved \cup {cur},
                    Updated(next, cur, new[Buckets(m)[cur]]), g)
          /\ \A f \in Entries \ {cur} : g[f] = height[f]
    BY ONLY <2>1, <2>2, Push
  <2>. QED
    BY <1>2, <1>9, <2>3
<1>11. g \in [Entries -> Nat] /\ next' \in [Entries -> Nulled] /\ new' \in [D -> Nulled]
  BY <1>10 DEF Chains
<1>12. Chains(Rest', d, Buckets(size), given \ (moved \cup {cur}), next', g)
  <2>1. (given \ moved) \ {cur} = given \ (moved \cup {cur})
    OBVIOUS
  <2>2. \A f \in given \ (moved \cup {cur}) : next'[f] = next[f] /\ g[f] = height[f]
    BY <1>2, <1>3, <1>10 DEF Updated
  <2>. QED
    BY <1>7, <1>8, <1>11, <2>1, <2>2, ChainsFrame
<1>13. /\ Buckets(size)' = Buckets(size) /\ Buckets(Grown(size))' = Buckets(m)
       /\ Grown(size)' = m /\ size' = size
  BY <1>2 DEF Buckets, Bucket, Grown, m
<1>14. Linked(g)'
  <2>1. moved \cup {cur} \in SUBSET given' /\ given' = given
    BY <1>2, <1>6
  <2>. QED
    BY <1>2, <1>10, <1>12, <1>13, <2>1 DEF Linked, d, D
<1>15. TypeOK'
  BY <1>0, <1>2, <1>3, <1>11, <1>13 DEF TypeOK, Table, Nulled, d, D
<1>16. LoadIsBounded'
  BY <1>0, <1>2 DEF LoadIsBounded
<1>17. Walking(g)' /\ Shadowing(g)'
  BY <1>2 DEF Walking, Shadowing
<1>. QED
  BY <1>11, <1>14, <1>15, <1>16, <1>17 DEF IInv

LEMMA NextBucketStep ==
  ASSUME IInv, NextBucket
  PROVE  IInv'
<1>0. TypeOK /\ LoadIsBounded
  BY DEF IInv
<1>1. PICK height \in [Entries -> Nat] : Linked(height)
  BY DEF IInv
<1>2. /\ call = "grow" /\ call' = "grow" /\ cur = NULL /\ i + 1 < size
      /\ i' = i + 1 /\ cur' = table[i + 1]
      /\ UNCHANGED << keyOf, hashOf, table, size, nr, next, arg, new, given, latest >>
  BY DEF NextBucket, history
<1>3. size \in Nat /\ i \in 0 .. size - 1 /\ table \in [0 .. size - 1 -> Nulled]
  BY <1>0, <1>2 DEF TypeOK, Table, Nulled
<1>4. Rest' = Rest
  BY <1>2, <1>3 DEF Rest
<1>5. /\ Buckets(size)' = Buckets(size) /\ Buckets(Grown(size))' = Buckets(Grown(size))
      /\ Grown(size)' = Grown(size)
  BY <1>2 DEF Buckets, Bucket, Grown
<1>6. Linked(height)'
  BY <1>1, <1>2, <1>4, <1>5 DEF Linked
<1>7. TypeOK'
  BY <1>0, <1>2, <1>3, <1>5 DEF TypeOK, Table, Nulled
<1>8. LoadIsBounded'
  BY <1>0, <1>2 DEF LoadIsBounded
<1>9. Walking(height)' /\ Shadowing(height)'
  BY <1>2 DEF Walking, Shadowing
<1>. QED
  BY <1>6, <1>7, <1>8, <1>9 DEF IInv

LEMMA FinishStep ==
  ASSUME IInv, FinishGrow
  PROVE  IInv'
<1>. DEFINE n == Grown(size)
<1>0. TypeOK /\ LoadIsBounded
  BY DEF IInv
<1>1. PICK height \in [Entries -> Nat] : Linked(height)
  BY DEF IInv
<1>2. /\ call = "grow" /\ call' = "none" /\ cur = NULL /\ i + 1 = size
      /\ Link(arg, new, n) /\ cur' = NULL
      /\ UNCHANGED << keyOf, hashOf >> /\ size' = n
      /\ latest' = [Nothing EXCEPT ![keyOf[arg]] = arg]
  BY DEF FinishGrow, EndLoop, Link
<1>3. /\ size \in Nat \ {0} /\ n \in Nat \ {0} /\ nr < n /\ i \in 0 .. size - 1
      /\ new \in Table(n) /\ arg \in Entries \ given /\ given \subseteq Entries
  BY <1>0, <1>2 DEF TypeOK, LoadIsBounded, Grown
<1>4. PICK moved \in SUBSET given :
        /\ Chains(Rest, 0 .. size - 1, Buckets(size), given \ moved, next, height)
        /\ Chains(new, 0 .. n - 1, Buckets(n), moved, next, height)
  BY <1>1, <1>2 DEF Linked
<1>5. moved = given
  <2>1. ASSUME NEW e \in given \ moved
        PROVE  FALSE
    <3>1. Rest[Buckets(size)[e]] # NULL /\ Buckets(size)[e] \in 0 .. size - 1
      BY <1>3, <1>4, <2>1 DEF Chains, Topped
    <3>2. \A b \in 0 .. size - 1 : Rest[b] = NULL
      BY <1>2, <1>3 DEF Rest
    <3>. QED
      BY <3>1, <3>2
  <2>. QED
    BY <1>4, <2>1
<1>. HIDE DEF n
<1>6. nr = Cardinality(given)
  BY <1>0 DEF LoadIsBounded
<1>7. /\ table' \in Table(n) /\ next' \in [Entries -> Nulled]
      /\ nr' = Cardinality(given') /\ nr' \in Nat /\ nr' <= n
  BY <1>0, <1>2, <1>3, <1>4, <1>5, <1>6, LinkStep
<1>8. PICK g : /\ Chains(table', 0 .. n - 1, Buckets(n), given', next', g)
               /\ \A f \in given : /\ g[f] = height[f]
                                   /\ keyOf[f] = keyOf[arg] => height[f] < g[arg]
  BY <1>0, <1>2, <1>3, <1>4, <1>5, <1>6, LinkStep
<1>9. g \in [Entries -> Nat]
  BY <1>8 DEF Chains
<1>10. TypeOK'
  BY <1>0, <1>2, <1>3, <1>7 DEF TypeOK, Nulled, Nothing, Link, Table
<1>11. LoadIsBounded'
  BY <1>2, <1>7 DEF LoadIsBounded
<1>12. Linked(g)'
  BY <1>2, <1>3, <1>8, BucketsSame DEF Linked
<1>13. Walking(g)'
  BY <1>2 DEF Walking
<1>14. Shadowing(g)'
  <2>. SUFFICES ASSUME NEW k \in Keys, latest'[k] # NULL
                PROVE  /\ latest'[k] \in given' /\ keyOf[latest'[k]] = k
                       /\ \A f \in given' : keyOf[f] = k => g[f] <= g[latest'[k]]
    BY <1>2 DEF Shadowing
  <2>1. given' = given \cup {arg}
    BY <1>2 DEF Link
  <2>2. keyOf[arg] = k /\ latest'[k] = arg
    BY <1>0, <1>2, <1>3 DEF Nothing, TypeOK
  <2>3. ASSUME NEW f \in given', keyOf[f] = k
        PROVE  g[f] <= g[arg]
    <3>1. CASE f = arg
      BY <1>3, <1>9, <3>1
    <3>2. CASE f \in given
      <4>1. g[f] = height[f] /\ height[f] < g[arg]
        BY <1>8, <2>2, <2>3, <3>2
      <4>. QED
        BY <1>3, <1>9, <3>2, <4>1
    <3>. QED
      BY <2>1, <2>3, <3>1, <3>2
  <2>. QED
    BY <2>1, <2>2, <2>3
<1>. QED
  BY <1>9, <1>10, <1>11, <1>12, <1>13, <1>14 DEF IInv

LEMMA GetStep ==
  ASSUME IInv, NEW k \in Keys, Get(k)
  PROVE  IInv'
<1>0. TypeOK /\ LoadIsBounded
  BY DEF IInv
<1>1. PICK height \in [Entries -> Nat] : Linked(height) /\ Walking(height) /\ Shadowing(height)
  BY DEF IInv
<1>2. /\ call = "none"
      /\ UNCHANGED << keyOf, hashOf, table, size, nr, next, i, new, given, latest >>
      /\ \/ UNCHANGED locals
         \/ size # 0 /\ call' = "get" /\ arg' = k /\ cur' = table[hashOf[k] % size]
  BY DEF Get, Return, history, locals
<1>3. Buckets(size)' = Buckets(size)
  BY <1>2 DEF Buckets, Bucket
<1>4. Linked(height)' /\ Shadowing(height)'
  BY <1>1, <1>2, <1>3 DEF Linked, Shadowing, locals
<1>5. CASE UNCHANGED locals
  <2>1. TypeOK' /\ LoadIsBounded' /\ Walking(height)'
    BY <1>0, <1>1, <1>2, <1>5 DEF TypeOK, LoadIsBounded, Walking, locals
  <2>. QED
    BY <1>4, <2>1 DEF IInv
<1>6. CASE size # 0 /\ call' = "get" /\ arg' = k /\ cur' = table[hashOf[k] % size]
  <2>1. /\ size \in Nat \ {0} /\ hashOf[k] \in Nat
        /\ hashOf[k] % size \in 0 .. size - 1 /\ given \subseteq Entries
    BY <1>0, <1>6, Remainder, HashesAssumption DEF TypeOK
  <2>2. Chains(table, 0 .. size - 1, Buckets(size), given, next, height)
    BY <1>1, <1>2, <1>6 DEF Linked
  <2>3. \A e \in given : /\ Buckets(size)[e] = Bucket(e, size)
                         /\ keyOf[e] = k => Buckets(size)[e] = hashOf[k] % size
    BY <2>1 DEF Buckets, Bucket
  <2>4. \A e \in given : keyOf[e] = k => cur' # NULL /\ height[e] <= height[cur']
    BY <1>6, <2>2, <2>3 DEF Chains, Topped
  <2>5. cur' # NULL => cur' \in given /\ Bucket(cur', size) = hashOf[k] % size
    BY <1>6, <2>1, <2>2, <2>3 DEF Chains
  <2>6. Bucket(cur, size)' = Bucket(cur', size)
    BY <1>2 DEF Bucket
  <2>7. Walking(height)'
    BY <1>2, <1>6, <2>4, <2>5, <2>6 DEF Walking
  <2>8. TypeOK' /\ LoadIsBounded'
    BY <1>0, <1>2, <1>6, <2>1, <2>5 DEF TypeOK, LoadIsBounded
  <2>. QED
    BY <1>4, <2>7, <2>8 DEF IInv
<1>. QED
  BY <1>2, <1>5, <1>6

(* Steps that leave the chains alone. *)
LEMMA ChainsStay ==
  ASSUME NEW height, Linked(height), call # "grow", call' # "grow",
         UNCHANGED << keyOf, hashOf, table, size, next, given >>
  PROVE  Linked(height)'
<1>1. Buckets(size)' = Buckets(size)
  BY DEF Buckets, Bucket
<1>. QED
  BY <1>1 DEF Linked

LEMMA PassStep ==
  ASSUME IInv, Pass
  PROVE  IInv'
<1>0. TypeOK /\ LoadIsBounded
  BY DEF IInv
<1>1. PICK height \in [Entries -> Nat] : Linked(height) /\ Walking(height) /\ Shadowing(height)
  BY DEF IInv
<1>2. /\ call = "get" /\ call' = "get" /\ cur # NULL /\ ~ Matches(cur, arg)
      /\ cur' = next[cur]
      /\ UNCHANGED << keyOf, hashOf, table, size, nr, next, arg, i, new, given, latest >>
  BY DEF Pass, history
<1>3. Linked(height)' /\ Shadowing(height)'
  BY <1>1, <1>2, ChainsStay DEF Shadowing
<1>4. /\ cur \in given /\ Bucket(cur, size) = hashOf[arg] % size
      /\ \A e \in given : keyOf[e] = arg => height[e] <= height[cur]
      /\ given \subseteq Entries /\ size # 0 /\ keyOf[cur] # arg
  BY <1>0, <1>1, <1>2 DEF Walking, TypeOK, Matches
<1>5. Chains(table, 0 .. size - 1, Buckets(size), given, next, height)
  BY <1>1, <1>2, <1>4 DEF Linked
<1>6. \A e \in given : Buckets(size)[e] = Bucket(e, size)
  BY <1>4 DEF Buckets
<1>7. ASSUME NEW e \in given, keyOf[e] = arg
      PROVE  height[e] < height[cur]
  <2>1. Buckets(size)[e] = Buckets(size)[cur] /\ e # cur
    BY <1>4, <1>6, <1>7 DEF Bucket
  <2>2. height[e] # height[cur]
    BY <1>4, <1>5, <2>1 DEF Chains
  <2>. QED
    BY <1>4, <1>7, <2>2
<1>8. /\ next[cur] = NULL <=> height[cur] = 0
      /\ next[cur] # NULL => /\ next[cur] \in given
                             /\ Buckets(size)[next[cur]] = Buckets(size)[cur]
                             /\ height[cur] = height[next[cur]] + 1
  BY <1>4, <1>5 DEF Chains, Chained
<1>9. Walking(height)'
  <2>1. CASE next[cur] = NULL
    <3>1. \A e \in given : keyOf[e] # arg
      BY <1>4, <1>7, <1>8, <2>1
    <3>. QED
      BY <1>2, <2>1, <3>1 DEF Walking
  <2>2. CASE next[cur] # NULL
    <3>1. next[cur] \in given /\ Bucket(next[cur], size) = hashOf[arg] % size
      BY <1>4, <1>6, <1>8, <2>2
    <3>2. ASSUME NEW e \in given, keyOf[e] = arg
          PROVE  height[e] <= height[next[cur]]
      BY <1>4, <1>7, <1>8, <2>2, <3>1, <3>2
    <3>3. Bucket(cur, size)' = Bucket(next[cur], size)
      BY <1>2 DEF Bucket
    <3>. QED
      BY <1>2, <2>2, <3>1, <3>2, <3>3 DEF Walking
  <2>. QED
    BY <2>1, <2>2
<1>10. TypeOK' /\ LoadIsBounded'
  BY <1>0, <1>2, <1>4 DEF TypeOK, LoadIsBounded
<1>. QED
  BY <1>3, <1>9, <1>10 DEF IInv

LEMMA ReturnStep ==
  ASSUME IInv, Found \/ Missing
  PROVE  IInv'
<1>0. TypeOK /\ LoadIsBounded
  BY DEF IInv
<1>1. PICK height \in [Entries -> Nat] : Linked(height) /\ Shadowing(height)
  BY DEF IInv
<1>2. /\ call = "get" /\ call' = "none" /\ cur' = NULL
      /\ UNCHANGED << keyOf, hashOf, table, size, nr, next, given, latest >>
  BY DEF Found, Missing, Return, EndLoop
<1>3. Linked(height)' /\ Shadowing(height)' /\ Walking(height)'
  BY <1>1, <1>2, ChainsStay DEF Shadowing, Walking
<1>4. TypeOK' /\ LoadIsBounded'
  BY <1>0, <1>2 DEF TypeOK, LoadIsBounded
<1>. QED
  BY <1>3, <1>4 DEF IInv

LEMMA FreeStep ==
  ASSUME IInv, Free
  PROVE  IInv'
<1>0. TypeOK
  BY DEF IInv
<1>1. PICK height \in [Entries -> Nat] : TRUE
  BY DEF IInv
<1>2. /\ call = "none" /\ call' = "none" /\ size' = 0 /\ nr' = 0 /\ given' = {}
      /\ latest' = Nothing /\ table' = EmptyTable(0)
      /\ UNCHANGED << keyOf, hashOf, next, cur >>
  BY DEF Free, locals
<1>3. TypeOK'
  BY <1>0, <1>2 DEF TypeOK, Table, EmptyTable, Nothing
<1>4. LoadIsBounded'
  BY <1>2, FS_EmptySet DEF LoadIsBounded
<1>5. Linked(height)' /\ Walking(height)' /\ Shadowing(height)'
  BY <1>0, <1>2 DEF Linked, Walking, Shadowing, Nothing, TypeOK
<1>. QED
  BY <1>3, <1>4, <1>5 DEF IInv

LEMMA StutterStep ==
  ASSUME IInv, UNCHANGED vars
  PROVE  IInv'
<1>1. PICK height \in [Entries -> Nat] : Linked(height) /\ Walking(height) /\ Shadowing(height)
  BY DEF IInv
<1>2. Buckets(size)' = Buckets(size) /\ Buckets(Grown(size))' = Buckets(Grown(size))
  BY DEF Buckets, Bucket, Grown, vars
<1>3. Rest' = Rest /\ Grown(size)' = Grown(size)
  BY DEF Rest, Grown, vars, locals
<1>4. Linked(height)'
  BY <1>1, <1>2, <1>3 DEF Linked, vars, locals, history
<1>5. Walking(height)' /\ Shadowing(height)'
  BY <1>1 DEF Walking, Shadowing, Bucket, vars, locals, history
<1>6. TypeOK' /\ LoadIsBounded'
  BY DEF IInv, TypeOK, Grown, LoadIsBounded, vars, locals, history
<1>. QED
  BY <1>4, <1>5, <1>6 DEF IInv

LEMMA IInvInductive == Spec => []IInv
<1>1. IInv /\ [Next]_vars => IInv'
  BY PutStep, GrowStep, MoveStep, NextBucketStep, FinishStep, GetStep, PassStep,
     ReturnStep, FreeStep, StutterStep DEF Next, Run
<1>. QED
  BY <1>1, InitIInv, PTL DEF Spec

-----------------------------------------------------------------------------
(* The variables keep their types for any number of entries and any hash   *)
(* function; in particular the bucket that an entry hashes to is one of    *)
(* the table.                                                              *)
THEOREM TypeCorrect == Spec => []TypeOK
<1>1. IInv => TypeOK
  BY DEF IInv
<1>. QED
  BY <1>1, IInvInductive, PTL

(* nr is exact and never more than the buckets, so that hashmap_put()      *)
(* keeps chains short on average.                                          *)
THEOREM LoadAlwaysBounded == Spec => []LoadIsBounded
<1>1. IInv => LoadIsBounded
  BY DEF IInv
<1>. QED
  BY <1>1, IInvInductive, PTL

(* The chained table with its growth implements the multimap: a lookup     *)
(* finds an entry with its key whenever one was put, and the newest one    *)
(* until the table grows.                                                  *)
THEOREM ImplementsMultimap == Spec => MapSpec
<1>1. Init => Map!Init
  BY DEF Init, Map!Init, Nothing
<1>2. IInv /\ [Next]_vars => [Map!Next]_<< keyOf, given, latest, done >>
  <2>. SUFFICES ASSUME IInv, [Next]_vars
                PROVE  [Map!Next]_<< keyOf, given, latest, done >>
    OBVIOUS
  <2>0. TypeOK /\ LoadIsBounded
    BY DEF IInv
  <2>1. ASSUME NEW e \in Entries, Put(e)
        PROVE  Map!Next
    <3>1. Map!Put(e)
      BY <2>1 DEF Put, Fresh, Link, Map!Put
    <3>. QED
      BY <3>1 DEF Map!Next
  <2>2. CASE FinishGrow
    <3>1. arg \in Entries /\ arg \notin given /\ keyOf[arg] \in Keys
      BY <2>0, <2>2 DEF FinishGrow, TypeOK
    <3>2. [Nothing EXCEPT ![keyOf[arg]] = arg]
            = [k \in Keys |-> IF k = keyOf[arg] THEN arg ELSE NULL]
      BY DEF Nothing
    <3>3. Map!Put(arg)
      BY <2>2, <3>1, <3>2 DEF FinishGrow, Link, Map!Put
    <3>. QED
      BY <3>1, <3>3 DEF Map!Next
  <2>3. ASSUME NEW k \in Keys, Get(k)
        PROVE  [Map!Next]_<< keyOf, given, latest, done >>
    <3>1. CASE size = 0
      <4>1. given = {}
        BY <2>0, <3>1, EmptyMap
      <4>2. Map!Get(k, NULL)
        BY <2>3, <3>1, <4>1 DEF Get, Return, Map!Get
      <4>. QED
        BY <4>2 DEF Map!Next
    <3>2. CASE size # 0
      BY <2>3, <3>2 DEF Get, history
    <3>. QED
      BY <3>1, <3>2
  <2>4. CASE Found
    <3>1. PICK height \in [Entries -> Nat] :
            Linked(height) /\ Walking(height) /\ Shadowing(height)
      BY DEF IInv
    <3>2. /\ call = "get" /\ cur # NULL /\ keyOf[cur] = arg /\ arg \in Keys /\ size # 0
          /\ cur \in given /\ given \subseteq Entries
          /\ \A e \in given : keyOf[e] = arg => height[e] <= height[cur]
      BY <2>0, <2>4, <3>1 DEF Found, Matches, Walking, TypeOK
    <3>3. latest[arg] \in {NULL, cur}
      <4>. SUFFICES ASSUME latest[arg] # NULL PROVE latest[arg] = cur
        OBVIOUS
      <4>1. /\ latest[arg] \in given /\ keyOf[latest[arg]] = arg
            /\ height[cur] <= height[latest[arg]]
        BY <3>1, <3>2 DEF Shadowing
      <4>2. height[cur] = height[latest[arg]]
        BY <3>2, <4>1
      <4>3. Buckets(size)[cur] = Buckets(size)[latest[arg]]
        BY <3>2, <4>1 DEF Buckets, Bucket
      <4>4. Chains(table, 0 .. size - 1, Buckets(size), given, next, height)
        BY <3>1, <3>2 DEF Linked
      <4>. QED
        BY <3>2, <4>1, <4>2, <4>3, <4>4 DEF Chains
    <3>4. Map!Get(arg, cur)
      BY <2>4, <3>2, <3>3 DEF Found, Return, Map!Get
    <3>. QED
      BY <3>2, <3>4 DEF Map!Next
  <2>5. CASE Missing
    <3>1. arg \in Keys /\ \A e \in given : keyOf[e] # arg
      BY <2>0, <2>5 DEF Missing, IInv, Walking, TypeOK
    <3>2. Map!Get(arg, NULL)
      BY <2>5, <3>1 DEF Missing, Return, Map!Get
    <3>. QED
      BY <3>1, <3>2 DEF Map!Next
  <2>6. CASE Free
    BY <2>6 DEF Free, Nothing, Map!Clear, Map!Next
  <2>7. CASE (\E e \in Entries : Grow(e)) \/ Move \/ NextBucket \/ Pass
    BY <2>7 DEF Grow, Move, NextBucket, Pass, history
  <2>8. CASE UNCHANGED vars
    BY <2>8 DEF vars, history
  <2>. QED
    BY <2>1, <2>2, <2>3, <2>4, <2>5, <2>6, <2>7, <2>8 DEF Next, Run
<1>. QED
  BY <1>1, <1>2, IInvInductive, PTL DEF Spec, Map!Spec, MapSpec
=============================================================================
