----------------------------- MODULE HashTable -----------------------------
(***************************************************************************)
(* The chained hash table of dttools (hash_table.c; itable.c is the same   *)
(* table with integer keys), which every table of the queue is built on.   *)
(* A table carries the cursor of its one iteration: ientry is the entry    *)
(* that the next hash_table_nextkey returns.                               *)
(*                                                                         *)
(* An entry is named by its key.  A removed entry is freed, so a cursor    *)
(* left on it dangles.  Values play no part in any of this.                *)
(***************************************************************************)
EXTENDS Integers, Sequences, FiniteSets, SequencesExt

CONSTANTS
  Key,            \* the keys a caller uses
  HashOf,         \* hash_func
  Null,           \* the null pointer
  InitialBuckets  \* the bucket_count given to hash_table_create

ASSUME TableConstants ==
  HashOf \in [Key -> Nat] /\ Null \notin Key /\ InitialBuckets \in Nat \ {0}

------------------------------------------------------------------------------
(* The operations, on a table t.                                            *)

hash_table_create(n) ==
  [buckets |-> [b \in 0 .. n - 1 |-> << >>], size |-> 0, ibucket |-> 0, ientry |-> Null]

BucketCount(t) == Cardinality(DOMAIN t.buckets)
Index(t, k)    == HashOf[k] % BucketCount(t)
Keys(t)        == UNION {Range(t.buckets[b]) : b \in DOMAIN t.buckets}

\* A search looks in one bucket only.
hash_table_lookup(t, k) == k \in Range(t.buckets[Index(t, k)])

\* The cursor at the first entry of the first bucket, from b on, that has one.
CursorFrom(t, b) ==
  LET full == {i \in b .. BucketCount(t) - 1 : t.buckets[i] # << >>}
  IN  IF full = {}
      THEN [t EXCEPT !.ibucket = BucketCount(t), !.ientry = Null]
      ELSE LET i == CHOOSE i \in full : \A j \in full : i <= j
           IN  [t EXCEPT !.ibucket = i, !.ientry = Head(t.buckets[i])]

hash_table_firstkey(t) == CursorFrom(t, 0)

\* Slip: the cursor stays on the entry that is returned.
NextkeyStays(t) == t

\* Slip: a bucket is skipped at the end of a chain.
NextkeySkipsBucket(t) ==
  LET chain == t.buckets[t.ibucket]
      i     == CHOOSE i \in DOMAIN chain : chain[i] = t.ientry
  IN  IF i < Len(chain)
      THEN [t EXCEPT !.ientry = chain[i + 1]]
      ELSE CursorFrom(t, t.ibucket + 2)

\* Moves on before its caller sees the entry, so that the caller may remove it.
hash_table_nextkey(t) ==
  LET chain == t.buckets[t.ibucket]
      i     == CHOOSE i \in DOMAIN chain : chain[i] = t.ientry
  IN  IF i < Len(chain)
      THEN [t EXCEPT !.ientry = chain[i + 1]]
      ELSE CursorFrom(t, t.ibucket + 1)

Dangling(t) == t.ientry # Null /\ t.ientry \notin Keys(t)

\* A new entry goes to the head of its bucket.
Link(t, k) ==
  [t EXCEPT !.buckets[Index(t, k)] = <<k>> \o @, !.size = @ + 1]

\* Keys in the order in which an iteration meets them.
Traversal(t) == FlattenSeq([i \in 1 .. BucketCount(t) |-> t.buckets[i - 1]])

\* The pairs are moved with the table's own cursor, which ends up spent.
hash_table_double_buckets(t) ==
  LET tn == FoldLeft(Link, hash_table_create(2 * BucketCount(t)), Traversal(t))
  IN  [t EXCEPT !.buckets = tn.buckets, !.size = tn.size,
                !.ibucket = BucketCount(t), !.ientry = Null]

\* DEFAULT_LOAD is 0.75.
Overloaded(t) == 4 * t.size > 3 * BucketCount(t)

\* The table is doubled before k is looked for.
hash_table_insert(t, k) ==
  LET g == IF Overloaded(t) THEN hash_table_double_buckets(t) ELSE t
  IN  IF hash_table_lookup(g, k) THEN g ELSE Link(g, k)

hash_table_remove(t, k) ==
  IF hash_table_lookup(t, k)
  THEN [t EXCEPT !.buckets[Index(t, k)] = SelectSeq(@, LAMBDA e : e # k), !.size = @ - 1]
  ELSE t
=============================================================================
