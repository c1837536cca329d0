--------------------------- MODULE StorageProofs ---------------------------
(***************************************************************************)
(* Proofs about EntityVersions, for any entities, values, interfaces and   *)
(* number of blocks: the tables stay consistent (TablesConsistent), the    *)
(* rows of a deployment and of a graft implement EntityHistory             *)
(* (TablesImplementHistory), and the store events name what changed        *)
(* (EventsCoverChanges).  All three rest on what a set of rows looks like  *)
(* between transactions (Sound) and on two lemmas about what a block       *)
(* (BlockRows) and a revert (RevertedRows) make of it.                     *)
(*                                                                         *)
(* And proofs about EntityCache, for any entities, fields and values: the  *)
(* cache cannot be told from the store (EntityCacheConsistent) and a block *)
(* ends with what is needed (BlocksEndLean).  They rest on what merging    *)
(* shows (ShownMerge, ShownChange, ShownReset), on what the operations of  *)
(* LfuCache do to a cache that mirrors the store (SoundCache), and on what *)
(* as_modifications makes of both (BlockEnds).                             *)
(***************************************************************************)
EXTENDS EntityVersions, EntityCache, SumTheorems

\* Block numbers that a query asks for.
Asked == Blocks \cup {BLOCK_NUMBER_MAX}

Holds(r, b) == r.lo <= b /\ b < r.hi

KeysOf(rs) == {r.key : r \in rs}

\* The tables of a deployment whose head is at block top.
Sound(rs, top) ==
    /\ rs \subseteq Row /\ Exclusion(rs) /\ IsFiniteSet(KeysOf(rs))
    /\ \A r \in rs : r.lo < r.hi /\ r.lo <= top /\ (r.hi # Unbounded => r.hi <= top)

----------------------------------------------------------------------------
(* Reading rows.                                                            *)

\* The bounds that account-like tables are asked with mean the same as the range
\* operator, and a current version is an unbounded one.
LEMMA RangeMeaning ==
    ASSUME NEW r \in Row
    PROVE  /\ r.lo \in Nat /\ r.hi \in Nat
           /\ BlockRangeCurrent(r) <=> r.hi = Unbounded
           /\ \A b \in Asked : BlockRangeContains(r, b) <=> Holds(r, b)
  BY VersionsAssumption DEF Row, Blocks, Unbounded, BLOCK_NUMBER_MAX, BlockRangeCurrent,
     BlockRangeContains, Holds, Asked

\* find returns the version that holds at the block, or nothing.
LEMMA FindMeaning ==
    ASSUME NEW rs \in SUBSET Row, Exclusion(rs), NEW k, NEW b \in Asked
    PROVE  /\ \A r \in rs : r.key = k /\ Holds(r, b) => Find(rs, k, b) = r.data
           /\ (\A r \in rs : r.key = k => ~Holds(r, b)) => Find(rs, k, b) = NoEntity
<1>. DEFINE found == FindQuery(rs, k, b)
<1>1. \A r : r \in found <=> r \in rs /\ r.key = k /\ Holds(r, b)
  BY RangeMeaning DEF FindQuery
<1>2. \A r, s \in found : r = s
  <2>. SUFFICES ASSUME NEW r \in found, NEW s \in found, r # s
                PROVE  FALSE
    OBVIOUS
  <2>1. r \in rs /\ s \in rs /\ r.key = s.key /\ Holds(r, b) /\ Holds(s, b)
    BY <1>1
  <2>2. r.hi <= s.lo \/ s.hi <= r.lo
    BY <2>1 DEF Exclusion
  <2>3. r.lo \in Nat /\ r.hi \in Nat /\ s.lo \in Nat /\ s.hi \in Nat /\ b \in Nat
    BY <2>1, RangeMeaning, VersionsAssumption DEF Asked, Blocks, BLOCK_NUMBER_MAX
  <2>. QED  BY <2>1, <2>2, <2>3 DEF Holds
<1>3. ASSUME NEW r \in rs, r.key = k, Holds(r, b)
      PROVE  Find(rs, k, b) = r.data
  <2>1. r \in found
    BY <1>1, <1>3
  <2>2. (CHOOSE x \in found : TRUE) = r
    BY <1>2, <2>1
  <2>. QED  BY <2>1, <2>2 DEF Find
<1>4. ASSUME \A r \in rs : r.key = k => ~Holds(r, b)
      PROVE  Find(rs, k, b) = NoEntity
  <2>1. found = {}
    BY <1>1, <1>4
  <2>. QED  BY <2>1 DEF Find
<1>. QED  BY <1>3, <1>4

\* Two tables that show the same versions of an entity give the same answer.
LEMMA FindSame ==
    ASSUME NEW rs \in SUBSET Row, Exclusion(rs), NEW qs \in SUBSET Row, Exclusion(qs),
           NEW k, NEW b \in Asked, NEW c \in Asked,
           \A r \in rs : r.key = k /\ Holds(r, b) =>
              \E q \in qs : q.key = k /\ Holds(q, c) /\ q.data = r.data,
           \A q \in qs : q.key = k /\ Holds(q, c) =>
              \E r \in rs : r.key = k /\ Holds(r, b) /\ r.data = q.data
    PROVE  Find(rs, k, b) = Find(qs, k, c)
<1>1. CASE \E r \in rs : r.key = k /\ Holds(r, b)
  <2>1. PICK r \in rs : r.key = k /\ Holds(r, b)
    BY <1>1
  <2>2. PICK q \in qs : q.key = k /\ Holds(q, c) /\ q.data = r.data
    BY <2>1
  <2>3. Find(rs, k, b) = r.data
    BY <2>1, FindMeaning
  <2>4. Find(qs, k, c) = q.data
    BY <2>2, FindMeaning
  <2>. QED  BY <2>2, <2>3, <2>4
<1>2. CASE \A r \in rs : r.key = k => ~Holds(r, b)
  <2>1. \A q \in qs : q.key = k => ~Holds(q, c)
    BY <1>2
  <2>2. Find(rs, k, b) = NoEntity
    BY <1>2, FindMeaning
  <2>3. Find(qs, k, c) = NoEntity
    BY <2>1, FindMeaning
  <2>. QED  BY <2>2, <2>3
<1>. QED  BY <1>1, <1>2

\* find_many answers like find.
LEMMA FindManyMeaning ==
    ASSUME NEW rs, NEW b
    PROVE  FindMany(rs, Keys, b) = [k \in Keys |-> Find(rs, k, b)]
<1>1. ASSUME NEW k \in Keys
      PROVE  {r \in FindManyQuery(rs, Keys, b) : r.key = k} = FindQuery(rs, k, b)
  BY DEF FindManyQuery, FindQuery
<1>2. ASSUME NEW k \in Keys
      PROVE  FindMany(rs, Keys, b)[k] = Find(rs, k, b)
  <2>. DEFINE found == {r \in FindManyQuery(rs, Keys, b) : r.key = k}
  <2>1. FindMany(rs, Keys, b)[k] =
           IF found = {} THEN NoEntity ELSE (CHOOSE r \in found : TRUE).data
    BY DEF FindMany
  <2>2. found = FindQuery(rs, k, b)
    BY <1>1
  <2>. HIDE DEF found
  <2>. QED  BY <2>1, <2>2 DEF Find
<1>3. FindMany(rs, Keys, b) = [k \in Keys |-> FindMany(rs, Keys, b)[k]]
  BY DEF FindMany
<1>. QED  BY <1>2, <1>3

\* Nothing changes from the head on.
LEMMA ConstantAbove ==
    ASSUME NEW top \in Blocks, NEW rs, Sound(rs, top), NEW k, NEW b \in Asked, b >= top
    PROVE  Find(rs, k, b) = Find(rs, k, top)
<1>. rs \in SUBSET Row /\ Exclusion(rs) /\ top \in Asked
  BY DEF Sound, Asked
<1>1. ASSUME NEW r \in rs
      PROVE  Holds(r, b) <=> Holds(r, top)
  <2>1. /\ r.lo <= top /\ (r.hi # Unbounded => r.hi <= top)
        /\ r.lo \in Nat /\ r.hi \in Nat /\ MaxBlock \in Nat
    BY RangeMeaning, VersionsAssumption DEF Sound
  <2>. QED  BY <2>1 DEF Holds, Asked, Blocks, Unbounded, BLOCK_NUMBER_MAX
<1>. QED  BY <1>1, FindSame

----------------------------------------------------------------------------
(* What a block and a revert make of the rows.                              *)

\* The rows after apply_entity_modifications: the current versions of what is
\* modified end at the block, and the writes start there.
LEMMA ModifiedRows ==
    ASSUME NEW d, rows[d] \subseteq Row, Exclusion(rows[d]),
           NEW block \in Blocks, NEW m \in Modifications(d), NEW data \in [DOMAIN m -> Data]
    PROVE  LET ns == ApplyEntityModifications(d, m, data, block)
               new(k) == [key |-> k, data |-> data[k], lo |-> block, hi |-> Unbounded]
               ended(r) == r.key \in DOMAIN m /\ r.hi = Unbounded
           IN  /\ DOMAIN m \subseteq Keys /\ IsFiniteSet(DOMAIN m)
               /\ \A k \in DOMAIN m : m[k] \in {"Insert", "Overwrite", "Remove"}
               /\ \A k \in DOMAIN m : m[k] = "Insert" <=>
                     \A r \in rows[d] : r.key = k => r.hi # Unbounded
               /\ \A q : q \in ns <=>
                     \/ \E r \in rows[d] : q = IF ended(r) THEN [r EXCEPT !.hi = block] ELSE r
                     \/ \E k \in DOMAIN m : m[k] # "Remove" /\ q = new(k)
<1>. DEFINE rs == rows[d]
            to(op) == {k \in DOMAIN m : m[k] = op}
            new(k) == [key |-> k, data |-> data[k], lo |-> block, hi |-> Unbounded]
            ended(r) == r.key \in DOMAIN m /\ r.hi = Unbounded
            is == Insert(rs, to("Insert"), data, block)
            us == Update(is, to("Overwrite"), data, block)
            ns == ApplyEntityModifications(d, m, data, block)
<1>1. /\ DOMAIN m \subseteq Keys /\ IsFiniteSet(DOMAIN m)
      /\ \A k \in DOMAIN m : m[k] \in {"Insert", "Overwrite", "Remove"}
      /\ \A k \in DOMAIN m : m[k] = "Insert" <=> Find(rs, k, BLOCK_NUMBER_MAX) = NoEntity
  <2>. DEFINE kinds == {"Insert", "Overwrite", "Remove"}
              kss == {s \in SUBSET Keys : IsFiniteSet(s) /\ Cardinality(s) <= MaxMods}
  <2>1. PICK ks \in kss : m \in [ks -> kinds]
    BY DEF Modifications
  <2>2. \A k \in DOMAIN m : m[k] = "Insert" <=> ~(Find(rs, k, BLOCK_NUMBER_MAX) # NoEntity)
    BY DEF Modifications
  <2>. QED  BY <2>1, <2>2
<1>2. ASSUME NEW k \in DOMAIN m
      PROVE  m[k] = "Insert" <=> \A r \in rs : r.key = k => r.hi # Unbounded
  <2>1. BLOCK_NUMBER_MAX \in Asked /\ NoEntity \notin Data
    BY VersionsAssumption DEF Asked
  <2>2. \A r \in rs : Holds(r, BLOCK_NUMBER_MAX) <=> r.hi = Unbounded
    BY VersionsAssumption DEF Row, Blocks, Unbounded, BLOCK_NUMBER_MAX, Holds
  <2>3. ASSUME NEW r \in rs, r.key = k, r.hi = Unbounded
        PROVE  Find(rs, k, BLOCK_NUMBER_MAX) # NoEntity
    <3>1. Find(rs, k, BLOCK_NUMBER_MAX) = r.data
      BY <2>1, <2>2, <2>3, FindMeaning
    <3>. QED  BY <2>1, <3>1 DEF Row
  <2>4. ASSUME \A r \in rs : r.key = k => r.hi # Unbounded
        PROVE  Find(rs, k, BLOCK_NUMBER_MAX) = NoEntity
    BY <2>1, <2>2, <2>4, FindMeaning
  <2>. QED  BY <1>1, <2>3, <2>4
<1>3. \A r \in rs : BlockRangeCurrent(r) <=> r.hi = Unbounded
  BY RangeMeaning
<1>4. \A k \in DOMAIN m : new(k) \in Row /\ new(k).key = k
  BY <1>1 DEF Row
<1>5. \A q : q \in is <=> q \in rs \/ \E k \in to("Insert") : q = new(k)
  BY DEF Insert, InsertQuery
<1>. DEFINE clamp(r, keys) == IF r.key \in keys /\ BlockRangeCurrent(r)
                              THEN [r EXCEPT !.hi = block] ELSE r
<1>6. \A q : q \in us <=> \/ \E r \in is : q = clamp(r, to("Overwrite"))
                         \/ \E k \in to("Overwrite") : q = new(k)
  BY DEF Update, InsertQuery, ClampRangeQuery
<1>7. \A q : q \in ns <=> \E r \in us : q = clamp(r, to("Remove"))
  BY DEF ApplyEntityModifications, Delete, ClampRangeQuery
<1>8. \A k \in to("Insert") : clamp(new(k), to("Overwrite")) = new(k)
  BY <1>4
<1>9. \A k \in DOMAIN m : m[k] # "Remove" => clamp(new(k), to("Remove")) = new(k)
  BY <1>4
<1>10. ASSUME NEW r \in rs
       PROVE  clamp(clamp(r, to("Overwrite")), to("Remove")) =
                 IF ended(r) THEN [r EXCEPT !.hi = block] ELSE r
  <2>1. CASE r.key \in to("Overwrite") /\ r.hi = Unbounded
    <3>1. clamp(r, to("Overwrite")) = [r EXCEPT !.hi = block]
      BY <1>3, <2>1
    <3>2. [r EXCEPT !.hi = block].key = r.key
      BY DEF Row
    <3>3. r.key \notin to("Remove") /\ ended(r)
      BY <2>1
    <3>. QED  BY <3>1, <3>2, <3>3
  <2>2. CASE ~(r.key \in to("Overwrite") /\ r.hi = Unbounded)
    <3>1. clamp(r, to("Overwrite")) = r
      BY <1>3, <2>2
    <3>2. ended(r) <=> r.key \in to("Remove") /\ r.hi = Unbounded
      BY <1>1, <1>2, <2>2
    <3>. QED  BY <1>3, <3>1, <3>2
  <2>. QED  BY <2>1, <2>2
<1>11. ASSUME NEW q
       PROVE  q \in ns <=>
                 \/ \E r \in rs : q = IF ended(r) THEN [r EXCEPT !.hi = block] ELSE r
                 \/ \E k \in DOMAIN m : m[k] # "Remove" /\ q = new(k)
  <2>. HIDE DEF clamp, is, us, ns, new, ended
  <2>1. \A k \in DOMAIN m : m[k] # "Remove" <=> k \in to("Insert") \/ k \in to("Overwrite")
    BY <1>1
  <2>. HIDE DEF to, rs
  <2>2. \A u : u \in us <=> \/ \E r \in rs : u = clamp(r, to("Overwrite"))
                            \/ \E k \in to("Insert") : u = new(k)
                            \/ \E k \in to("Overwrite") : u = new(k)
    BY <1>5, <1>6, <1>8
  <2>3. \A k : k \in to("Insert") \/ k \in to("Overwrite") => k \in DOMAIN m
    BY DEF to
  <2>. QED  BY <1>7, <1>9, <1>10, <2>1, <2>2, <2>3
<1>. QED  BY <1>1, <1>2, <1>11

\* transact_block_operations: the tables are sound with the block as the head,
\* show the same as before below it, and the same entities unless modified.
LEMMA BlockRows ==
    ASSUME NEW d, NEW top \in Blocks, Sound(rows[d], top),
           NEW block \in Blocks, block > top,
           NEW m \in Modifications(d), NEW data \in [DOMAIN m -> Data],
           NEW ns, ns = ApplyEntityModifications(d, m, data, block)
    PROVE  /\ Sound(ns, block)
           /\ \A k, b : b \in 0 .. (block - 1) => Find(ns, k, b) = Find(rows[d], k, b)
           /\ \A k : k \notin DOMAIN m =>
                 Find(ns, k, BLOCK_NUMBER_MAX) = Find(rows[d], k, BLOCK_NUMBER_MAX)
<1>. DEFINE rs == rows[d]
            new(k) == [key |-> k, data |-> data[k], lo |-> block, hi |-> Unbounded]
            ended(r) == r.key \in DOMAIN m /\ r.hi = Unbounded
            then(r) == IF ended(r) THEN [r EXCEPT !.hi = block] ELSE r
<1>1. /\ DOMAIN m \subseteq Keys /\ IsFiniteSet(DOMAIN m)
      /\ \A k \in DOMAIN m : m[k] = "Insert" <=> \A r \in rs : r.key = k => r.hi # Unbounded
      /\ \A q : q \in ns <=> \/ \E r \in rs : q = then(r)
                             \/ \E k \in DOMAIN m : m[k] # "Remove" /\ q = new(k)
  BY ModifiedRows DEF Sound
<1>2. ASSUME NEW r \in rs
      PROVE  /\ r \in Row /\ r.lo \in Nat /\ r.hi \in Nat /\ r.lo < r.hi /\ r.lo <= top
             /\ r.hi # Unbounded => r.hi <= top
  BY RangeMeaning DEF Sound
<1>3. MaxBlock \in Nat /\ top \in Nat /\ block \in Nat /\ block <= MaxBlock
      /\ Unbounded = MaxBlock + 2 /\ BLOCK_NUMBER_MAX = MaxBlock + 1
  BY VersionsAssumption DEF Blocks, Unbounded, BLOCK_NUMBER_MAX
<1>4. ASSUME NEW r \in rs
      PROVE  /\ then(r) \in Row /\ then(r).key = r.key /\ then(r).data = r.data
             /\ then(r).lo = r.lo /\ then(r).hi = IF ended(r) THEN block ELSE r.hi
  BY <1>2 DEF Row
<1>5. ASSUME NEW k \in DOMAIN m
      PROVE  /\ new(k) \in Row /\ new(k).key = k /\ new(k).lo = block /\ new(k).hi = Unbounded
  BY <1>1 DEF Row
<1>6. \A r \in rs : then(r) \in ns
  BY <1>1
<1>7. ASSUME NEW q \in ns
      PROVE  \/ \E r \in rs : q = then(r)
             \/ \E k \in DOMAIN m : m[k] # "Remove" /\ q = new(k)
  BY <1>1
<1>. HIDE DEF new, then
<1>8. ns \subseteq Row
  BY <1>4, <1>5, <1>7
<1>9. ASSUME NEW q \in ns
      PROVE  q.lo < q.hi /\ q.lo <= block /\ (q.hi # Unbounded => q.hi <= block)
  BY <1>2, <1>3, <1>4, <1>5, <1>7
<1>10. Exclusion(ns)
  <2>. SUFFICES ASSUME NEW p \in ns, NEW q \in ns, p # q, p.key = q.key
                PROVE  p.hi <= q.lo \/ q.hi <= p.lo
    BY DEF Exclusion
  <2>1. ASSUME NEW r \in rs, NEW t \in rs, p = then(r), q = then(t)
        PROVE  p.hi <= q.lo \/ q.hi <= p.lo
    <3>1. r # t /\ r.key = t.key
      BY <1>4, <2>1
    <3>2. r.hi <= t.lo \/ t.hi <= r.lo
      BY <3>1 DEF Sound, Exclusion
    <3>. QED  BY <1>2, <1>3, <1>4, <2>1, <3>2
  <2>2. ASSUME NEW r \in rs, NEW k \in DOMAIN m, r.key = k
        PROVE  then(r).hi <= new(k).lo
    BY <1>2, <1>3, <1>4, <1>5, <2>2
  <2>3. ASSUME NEW k \in DOMAIN m, NEW l \in DOMAIN m, p = new(k), q = new(l)
        PROVE  FALSE
    BY <1>5, <2>3
  <2>. QED  BY <1>4, <1>5, <1>7, <2>1, <2>2, <2>3
<1>11. IsFiniteSet(KeysOf(ns))
  <2>1. KeysOf(ns) \in SUBSET (KeysOf(rs) \cup DOMAIN m)
    BY <1>4, <1>5, <1>7 DEF KeysOf
  <2>2. IsFiniteSet(KeysOf(rs) \cup DOMAIN m)
    BY <1>1, FS_Union DEF Sound
  <2>. QED  BY <2>1, <2>2, FS_Subset
<1>12. Sound(ns, block)
  BY <1>8, <1>9, <1>10, <1>11 DEF Sound
<1>13. ASSUME NEW k, NEW b, b \in 0 .. (block - 1)
       PROVE  Find(ns, k, b) = Find(rs, k, b)
  <2>1. b \in Asked /\ b \in Nat /\ b < block
    BY <1>3, <1>13 DEF Asked, Blocks
  <2>2. ASSUME NEW q \in ns, q.key = k, Holds(q, b)
        PROVE  \E r \in rs : r.key = k /\ Holds(r, b) /\ r.data = q.data
    <3>1. PICK r \in rs : q = then(r)
      BY <1>3, <1>5, <1>7, <2>1, <2>2 DEF Holds
    <3>. QED  BY <1>2, <1>3, <1>4, <2>1, <2>2, <3>1 DEF Holds
  <2>3. ASSUME NEW r \in rs, r.key = k, Holds(r, b)
        PROVE  \E q \in ns : q.key = k /\ Holds(q, b) /\ q.data = r.data
    <3>1. then(r).key = k /\ Holds(then(r), b) /\ then(r).data = r.data
      BY <1>3, <1>4, <2>1, <2>3 DEF Holds
    <3>. QED  BY <1>6, <3>1
  <2>. QED  BY <1>8, <1>10, <2>1, <2>2, <2>3, FindSame DEF Sound
<1>14. ASSUME NEW k, k \notin DOMAIN m
       PROVE  Find(ns, k, BLOCK_NUMBER_MAX) = Find(rs, k, BLOCK_NUMBER_MAX)
  <2>1. \A r \in rs : r.key = k => then(r) = r
    BY <1>14 DEF then
  <2>2. \A q \in ns : q.key = k => q \in rs
    BY <1>4, <1>5, <1>7, <1>14, <2>1
  <2>3. \A r \in rs : r.key = k => r \in ns
    BY <1>6, <2>1
  <2>4. BLOCK_NUMBER_MAX \in Asked
    BY DEF Asked
  <2>. QED  BY <1>8, <1>10, <2>2, <2>3, <2>4, FindSame DEF Sound
<1>. QED  BY <1>12, <1>13, <1>14

\* revert_block to below a block, whatever the head was: the versions that start
\* from the block on are gone and those that ended there are current again.
LEMMA RevertedRows ==
    ASSUME NEW top \in Blocks, NEW rs, Sound(rs, top), NEW block \in 1 .. (MaxBlock + 1),
           NEW rev, rev = RevertBlock(rs, block)
    PROVE  /\ Sound(rev.rows, block - 1)
           /\ KeysOf(rev.rows) \subseteq KeysOf(rs)
           /\ \A k, b : b \in 0 .. (block - 1) => Find(rev.rows, k, b) = Find(rs, k, b)
           /\ \A k : k \notin rev.removed \cup rev.set =>
                 Find(rev.rows, k, BLOCK_NUMBER_MAX) = Find(rs, k, BLOCK_NUMBER_MAX)
           /\ \A k : k \in rev.removed <=> \E r \in rs : r.key = k /\ r.lo >= block
           /\ \A k : k \in rev.set <=>
                 \E r \in rs : r.key = k /\ r.lo < block /\ r.hi >= block /\ r.hi # Unbounded
           /\ \A k : k \in KeysOf({q \in rev.rows : q.hi = Unbounded}) <=>
                 \E r \in rs : r.key = k /\ r.lo < block /\ r.hi >= block
<1>. DEFINE ns == rev.rows
            back(r) == r.lo < block /\ r.hi >= block /\ r.hi # Unbounded
            then(r) == IF back(r) THEN [r EXCEPT !.hi = Unbounded] ELSE r
<1>1. ASSUME NEW r \in rs
      PROVE  /\ r \in Row /\ r.lo \in Nat /\ r.hi \in Nat /\ r.lo < r.hi
             /\ r.hi # Unbounded => r.hi <= MaxBlock
             /\ BlockRangeCurrent(r) <=> r.hi = Unbounded
  <2>1. r \in Row
    BY DEF Sound
  <2>2. r.hi # Unbounded => r.hi <= MaxBlock
    BY <2>1, VersionsAssumption DEF Row, Blocks
  <2>. QED  BY <2>1, <2>2, RangeMeaning DEF Sound
<1>2. MaxBlock \in Nat /\ block \in Nat /\ block > 0 /\ block <= MaxBlock + 1
      /\ Unbounded = MaxBlock + 2 /\ BLOCK_NUMBER_MAX = MaxBlock + 1
  BY VersionsAssumption DEF Unbounded, BLOCK_NUMBER_MAX
<1>3. \A r : r \in RevertRemoveQuery(rs, block) <=> r \in rs /\ r.lo >= block
  BY <1>1 DEF RevertRemoveQuery
<1>4. \A r : r \in rs \ RevertRemoveQuery(rs, block) <=> r \in rs /\ r.lo < block
  BY <1>1, <1>2, <1>3
<1>5. \A r : r \in RevertClampQuery(rs \ RevertRemoveQuery(rs, block), block - 1)
              <=> r \in rs /\ back(r)
  BY <1>1, <1>2, <1>4 DEF RevertClampQuery
<1>6. /\ \A k : k \in rev.removed <=> \E r \in rs : r.key = k /\ r.lo >= block
      /\ \A k : k \in rev.set <=> \E r \in rs : r.key = k /\ back(r)
      /\ \A q : q \in ns <=> \E r \in rs : r.lo < block /\ q = then(r)
  <2>. DEFINE gone == RevertRemoveQuery(rs, block)
              unclamped == RevertClampQuery(rs \ gone, block - 1)
  <2>1. /\ rev.removed = {r.key : r \in gone} /\ rev.set = {r.key : r \in unclamped}
        /\ ns = {IF r \in unclamped THEN [r EXCEPT !.hi = Unbounded] ELSE r : r \in rs \ gone}
    BY DEF RevertBlock
  <2>2. \A r \in rs : then(r) = IF r \in unclamped THEN [r EXCEPT !.hi = Unbounded] ELSE r
    BY <1>5
  <2>. HIDE DEF gone, unclamped, then, back
  <2>. QED  BY <1>3, <1>4, <1>5, <2>1, <2>2, ZenonT(30) DEF gone, unclamped
<1>7. ASSUME NEW r \in rs
      PROVE  /\ then(r) \in Row /\ then(r).key = r.key /\ then(r).data = r.data
             /\ then(r).lo = r.lo /\ then(r).hi = IF back(r) THEN Unbounded ELSE r.hi
  BY <1>1 DEF Row
<1>. HIDE DEF then
<1>8. ns \subseteq Row /\ KeysOf(ns) \subseteq KeysOf(rs)
  BY <1>6, <1>7 DEF KeysOf
<1>9. ASSUME NEW q \in ns
      PROVE  q.lo < q.hi /\ q.lo <= block - 1 /\ (q.hi # Unbounded => q.hi <= block - 1)
  <2>1. PICK r \in rs : r.lo < block /\ q = then(r)
    BY <1>6
  <2>. QED  BY <1>1, <1>2, <1>7, <2>1
<1>10. Exclusion(ns)
  <2>. SUFFICES ASSUME NEW p \in ns, NEW q \in ns, p # q, p.key = q.key
                PROVE  p.hi <= q.lo \/ q.hi <= p.lo
    BY DEF Exclusion
  <2>1. PICK r \in rs : r.lo < block /\ p = then(r)
    BY <1>6
  <2>2. PICK t \in rs : t.lo < block /\ q = then(t)
    BY <1>6
  <2>3. r.hi <= t.lo \/ t.hi <= r.lo
    BY <1>7, <2>1, <2>2 DEF Sound, Exclusion
  <2>. QED  BY <1>1, <1>2, <1>7, <2>1, <2>2, <2>3
<1>11. Sound(ns, block - 1)
  <2>1. IsFiniteSet(KeysOf(ns))
    BY <1>8, FS_Subset DEF Sound
  <2>. QED  BY <1>8, <1>9, <1>10, <2>1 DEF Sound
<1>12. ASSUME NEW k, NEW b, b \in 0 .. (block - 1)
       PROVE  Find(ns, k, b) = Find(rs, k, b)
  <2>1. b \in Asked /\ b \in Nat /\ b < block
    BY <1>2, <1>12 DEF Asked, Blocks
  <2>2. ASSUME NEW q \in ns, q.key = k, Holds(q, b)
        PROVE  \E r \in rs : r.key = k /\ Holds(r, b) /\ r.data = q.data
    <3>1. PICK r \in rs : r.lo < block /\ q = then(r)
      BY <1>6
    <3>. QED  BY <1>1, <1>2, <1>7, <2>1, <2>2, <3>1 DEF Holds
  <2>3. ASSUME NEW r \in rs, r.key = k, Holds(r, b)
        PROVE  \E q \in ns : q.key = k /\ Holds(q, b) /\ q.data = r.data
    <3>1. then(r).key = k /\ Holds(then(r), b) /\ then(r).data = r.data
      BY <1>1, <1>2, <1>7, <2>1, <2>3 DEF Holds
    <3>2. then(r) \in ns
      BY <1>1, <1>6, <2>1, <2>3 DEF Holds
    <3>. QED  BY <3>1, <3>2
  <2>. QED  BY <1>8, <1>10, <2>1, <2>2, <2>3, FindSame DEF Sound
<1>13. ASSUME NEW k, k \notin rev.removed \cup rev.set
       PROVE  Find(ns, k, BLOCK_NUMBER_MAX) = Find(rs, k, BLOCK_NUMBER_MAX)
  <2>1. \A r \in rs : r.key = k => r.lo < block /\ ~back(r)
    BY <1>1, <1>2, <1>6, <1>13
  <2>2. \A r \in rs : r.key = k => then(r) = r
    BY <2>1 DEF then
  <2>3. \A q \in ns : q.key = k => q \in rs
    BY <1>6, <1>7, <2>2
  <2>4. \A r \in rs : r.key = k => r \in ns
    BY <1>6, <2>1, <2>2
  <2>5. BLOCK_NUMBER_MAX \in Asked
    BY DEF Asked
  <2>. QED  BY <1>8, <1>10, <2>3, <2>4, <2>5, FindSame DEF Sound
<1>14. ASSUME NEW k
       PROVE  k \in KeysOf({q \in ns : q.hi = Unbounded}) <=>
                 \E r \in rs : r.key = k /\ r.lo < block /\ r.hi >= block
  <2>1. ASSUME NEW r \in rs, r.lo < block
        PROVE  then(r).hi = Unbounded <=> r.hi >= block
    BY <1>1, <1>2, <1>7, <2>1
  <2>. QED  BY <1>6, <1>7, <2>1 DEF KeysOf
<1>. QED  BY <1>6, <1>8, <1>11, <1>12, <1>13, <1>14

----------------------------------------------------------------------------
(* The inductive invariant.                                                 *)

GraftOK ==
    /\ graft = [state |-> graft.state, block |-> graft.block, view |-> graft.view,
                rewound |-> graft.rewound, copied |-> graft.copied]
    /\ graft.state \in {"none", "Init", "Ready"} /\ graft.block \in Blocks
    /\ graft.rewound \in BOOLEAN
    /\ graft.state = "none" => ptr[Copy] = 0
    /\ graft.state = "Init" => ptr[Copy] = graft.block
    /\ graft.state = "Ready" => ptr[Copy] >= graft.block
    /\ graft.state # "Ready" => rows[Copy] = {} /\ count[Copy] = 0 /\ graft.copied = 0

\* Until it is copied, the base still shows what was accepted.
BaseKeepsView ==
    graft.state = "Init" /\ ~graft.rewound =>
        /\ ptr[Base] >= graft.block
        /\ \A b \in 0 .. graft.block : FindMany(rows[Base], Keys, b) = graft.view[b]

DataSourcesOK ==
    /\ dds \subseteq [id : DataSourceIds, deployment : Deployments, lo : Blocks]
    /\ \A s, t \in dds : s.id = t.id => s = t

RowsOK ==
    /\ ptr \in [Deployments -> Blocks] /\ rows \in [Deployments -> SUBSET Row]
    /\ count \in [Deployments -> Int] /\ graft.copied \in Int
    /\ \A d \in Deployments : Sound(rows[d], ptr[d])

TablesInv ==
    /\ RowsOK /\ GraftOK /\ DataSourcesOK
    /\ event \in [deployment : Deployments, keys : SUBSET Keys]
    /\ EntityCountExact /\ InterfaceIdsUnique /\ DataSourcesRewound
    /\ BaseKeepsView /\ GraftCopiesHistory

----------------------------------------------------------------------------
(* Counting entities.                                                       *)

\* Rows of different entities are as many as the entities.
LEMMA CountRows ==
    ASSUME NEW S, NEW K, IsFiniteSet(K), \A r \in S : r.key \in K,
           \A k \in K : \E r \in S : r.key = k, \A r, s \in S : r.key = s.key => r = s
    PROVE  Cardinality(S) = Cardinality(K) /\ Cardinality(K) \in Nat
<1>. DEFINE f == [k \in K |-> CHOOSE r \in S : r.key = k]
<1>1. \A k \in K : f[k] \in S /\ f[k].key = k
  OBVIOUS
<1>2. f \in Injection(K, S)
  BY <1>1 DEF Injection, IsInjective
<1>3. f \in Surjection(K, S)
  BY <1>1 DEF Surjection
<1>4. ExistsBijection(K, S)
  BY <1>2, <1>3 DEF ExistsBijection, Bijection
<1>. QED  BY <1>4, FS_Bijection, FS_CardinalityType

CurrentKeys(rs) == KeysOf({r \in rs : r.hi = Unbounded})

\* An entity has at most one current version.
LEMMA CurrentCount ==
    ASSUME NEW top \in Blocks, NEW rs, Sound(rs, top)
    PROVE  /\ IsFiniteSet(CurrentKeys(rs)) /\ Cardinality(CurrentKeys(rs)) \in Nat
           /\ Cardinality({r \in rs : BlockRangeCurrent(r)}) = Cardinality(CurrentKeys(rs))
           /\ \A K \in SUBSET CurrentKeys(rs) :
                 Cardinality(DeletedRows(rs, K)) = Cardinality(K) /\ Cardinality(K) \in Nat
<1>1. \A r \in rs : BlockRangeCurrent(r) <=> r.hi = Unbounded
  BY RangeMeaning DEF Sound
<1>2. ASSUME NEW r \in rs, NEW s \in rs, r.hi = Unbounded, s.hi = Unbounded, r.key = s.key
      PROVE  r = s
  <2>1. r # s => r.hi <= s.lo \/ s.hi <= r.lo
    BY <1>2 DEF Sound, Exclusion
  <2>2. r.lo < r.hi /\ s.lo < s.hi /\ r.lo \in Nat /\ s.lo \in Nat /\ Unbounded \in Nat
    BY VersionsAssumption, RangeMeaning DEF Sound, Unbounded
  <2>. QED  BY <1>2, <2>1, <2>2
<1>3. ASSUME NEW K \in SUBSET CurrentKeys(rs)
      PROVE  /\ IsFiniteSet(K) /\ Cardinality(DeletedRows(rs, K)) = Cardinality(K)
             /\ Cardinality(K) \in Nat
  <2>1. K \in SUBSET KeysOf(rs)
    BY DEF CurrentKeys, KeysOf
  <2>2. IsFiniteSet(K)
    BY <2>1, FS_Subset DEF Sound
  <2>. DEFINE S == DeletedRows(rs, K)
  <2>3. \A r : r \in S <=> r \in rs /\ r.key \in K /\ r.hi = Unbounded
    BY <1>1 DEF DeletedRows
  <2>4. \A k \in K : \E r \in S : r.key = k
    BY <2>3 DEF CurrentKeys, KeysOf
  <2>5. \A r, s \in S : r.key = s.key => r = s
    BY <1>2, <2>3
  <2>. HIDE DEF S
  <2>. QED  BY <2>2, <2>3, <2>4, <2>5, CountRows DEF S
<1>4. {r \in rs : BlockRangeCurrent(r)} = DeletedRows(rs, CurrentKeys(rs))
  BY <1>1 DEF DeletedRows, CurrentKeys, KeysOf
<1>. QED  BY <1>3, <1>4

\* The sum of the two changes of a set of entities.
LEMMA CountChange ==
    ASSUME NEW K, NEW I, NEW R, IsFiniteSet(K), IsFiniteSet(I),
           I \cap K = {}, R \subseteq K
    PROVE  /\ Cardinality((K \ R) \cup I) = Cardinality(K) + Cardinality(I) - Cardinality(R)
           /\ Cardinality(K) \in Nat /\ Cardinality(I) \in Nat /\ Cardinality(R) \in Nat
<1>1. IsFiniteSet(R) /\ IsFiniteSet(K \ R) /\ Cardinality(K \ R) = Cardinality(K) - Cardinality(R)
  <2>1. K \cap R = R
    OBVIOUS
  <2>2. IsFiniteSet(R)
    BY FS_Subset
  <2>3. IsFiniteSet(K \ R) /\ Cardinality(K \ R) = Cardinality(K) - Cardinality(K \cap R)
    BY FS_Difference
  <2>. QED  BY <2>1, <2>2, <2>3
<1>2. (K \ R) \cap I = {}
  OBVIOUS
<1>3. Cardinality((K \ R) \cup I) = Cardinality(K \ R) + Cardinality(I) - 0
  BY <1>1, <1>2, FS_Union, FS_EmptySet
<1>. QED  BY <1>1, <1>3, FS_CardinalityType

\* A block changes the number of current entities by what it adds to the count.
LEMMA BlockCount ==
    ASSUME NEW d, NEW top \in Blocks, Sound(rows[d], top),
           NEW block \in Blocks, block > top,
           NEW m \in Modifications(d), NEW data \in [DOMAIN m -> Data],
           NEW ns, ns = ApplyEntityModifications(d, m, data, block)
    PROVE  /\ CountModifications(d, m) \in Int
           /\ Cardinality({r \in ns : BlockRangeCurrent(r)}) =
                 Cardinality({r \in rows[d] : BlockRangeCurrent(r)}) + CountModifications(d, m)
<1>. DEFINE rs == rows[d]
            I == {k \in DOMAIN m : m[k] = "Insert"}
            R == {k \in DOMAIN m : m[k] = "Remove"}
            W == {k \in DOMAIN m : m[k] # "Remove"}
            new(k) == [key |-> k, data |-> data[k], lo |-> block, hi |-> Unbounded]
            ended(r) == r.key \in DOMAIN m /\ r.hi = Unbounded
            then(r) == IF ended(r) THEN [r EXCEPT !.hi = block] ELSE r
<1>1. /\ DOMAIN m \subseteq Keys /\ IsFiniteSet(DOMAIN m)
      /\ \A k \in DOMAIN m : m[k] \in {"Insert", "Overwrite", "Remove"}
      /\ \A k \in DOMAIN m : m[k] = "Insert" <=> \A r \in rs : r.key = k => r.hi # Unbounded
      /\ \A q : q \in ns <=> \/ \E r \in rs : q = then(r)
                             \/ \E k \in DOMAIN m : m[k] # "Remove" /\ q = new(k)
  BY ModifiedRows DEF Sound
<1>2. \A r \in rs : r \in Row
  BY DEF Sound
<1>3. ASSUME NEW r \in rs
      PROVE  then(r).key = r.key /\ (then(r).hi = Unbounded <=> r.hi = Unbounded /\ r.key \notin DOMAIN m)
  <2>1. block # Unbounded
    BY VersionsAssumption DEF Blocks, Unbounded
  <2>. QED  BY <1>2, <2>1 DEF Row
<1>4. \A k \in DOMAIN m : new(k).key = k /\ new(k).hi = Unbounded
  OBVIOUS
<1>5. ASSUME NEW k
      PROVE  k \in CurrentKeys(ns) <=> ((k \in CurrentKeys(rs) /\ k \notin DOMAIN m) \/ k \in W)
  <2>1. k \in CurrentKeys(ns) <=> \E q \in ns : q.key = k /\ q.hi = Unbounded
    BY DEF CurrentKeys, KeysOf
  <2>2. k \in CurrentKeys(rs) <=> \E r \in rs : r.key = k /\ r.hi = Unbounded
    BY DEF CurrentKeys, KeysOf
  <2>. HIDE DEF then, new, rs
  <2>3. ASSUME NEW q \in ns, q.key = k, q.hi = Unbounded
        PROVE  \/ k \in CurrentKeys(rs) /\ k \notin DOMAIN m
               \/ k \in W
    <3>1. CASE \E r \in rs : q = then(r)
      BY <1>3, <2>2, <2>3, <3>1
    <3>2. CASE \E l \in DOMAIN m : m[l] # "Remove" /\ q = new(l)
      BY <1>4, <2>3, <3>2
    <3>. QED  BY <1>1, <3>1, <3>2
  <2>4. ASSUME NEW r \in rs, r.key = k, r.hi = Unbounded, k \notin DOMAIN m
        PROVE  k \in CurrentKeys(ns)
    <3>1. then(r) \in ns /\ then(r).key = k /\ then(r).hi = Unbounded
      BY <1>1, <1>3, <2>4
    <3>. QED  BY <2>1, <3>1
  <2>5. ASSUME k \in W
        PROVE  k \in CurrentKeys(ns)
    <3>1. new(k) \in ns /\ new(k).key = k /\ new(k).hi = Unbounded
      BY <1>1, <1>4, <2>5
    <3>. QED  BY <2>1, <3>1
  <2>. HIDE DEF W
  <2>. QED  BY <2>1, <2>2, <2>3, <2>4, <2>5
<1>6. ASSUME NEW k \in DOMAIN m
      PROVE  k \in CurrentKeys(rs) <=> m[k] # "Insert"
  BY <1>1 DEF CurrentKeys, KeysOf
<1>7. CurrentKeys(ns) = (CurrentKeys(rs) \ R) \cup I
  <2>1. ASSUME NEW k
        PROVE  k \in CurrentKeys(ns) <=> (k \in CurrentKeys(rs) /\ k \notin R) \/ k \in I
    <3>1. CASE k \in DOMAIN m
      <4>1. k \in W <=> k \notin R
        BY <3>1
      <4>2. k \in I => k \notin R
        OBVIOUS
      <4>3. k \in CurrentKeys(rs) <=> k \notin I
        BY <1>6, <3>1
      <4>. HIDE DEF W, I, R
      <4>. QED  BY <1>5, <3>1, <4>1, <4>2, <4>3
    <3>2. CASE k \notin DOMAIN m
      <4>1. k \notin I /\ k \notin R /\ k \notin W
        BY <3>2
      <4>. HIDE DEF W, I, R
      <4>. QED  BY <1>5, <3>2, <4>1
    <3>. QED  BY <3>1, <3>2
  <2>. QED  BY <2>1
<1>8. I \cap CurrentKeys(rs) = {} /\ R \subseteq CurrentKeys(rs)
  BY <1>6
<1>9. IsFiniteSet(I)
  <2>1. I \in SUBSET DOMAIN m
    OBVIOUS
  <2>. QED  BY <1>1, <2>1, FS_Subset
<1>10. /\ IsFiniteSet(CurrentKeys(rs))
       /\ Cardinality({r \in rs : BlockRangeCurrent(r)}) = Cardinality(CurrentKeys(rs))
       /\ Cardinality(DeletedRows(rs, R)) = Cardinality(R)
  BY <1>8, CurrentCount
<1>11. Cardinality({r \in ns : BlockRangeCurrent(r)}) = Cardinality(CurrentKeys(ns))
  BY BlockRows, CurrentCount
<1>. HIDE DEF I, R, rs
<1>12. /\ Cardinality(CurrentKeys(ns)) = Cardinality(CurrentKeys(rs)) + Cardinality(I) - Cardinality(R)
       /\ Cardinality(CurrentKeys(rs)) \in Nat /\ Cardinality(I) \in Nat /\ Cardinality(R) \in Nat
  <2>. DEFINE K == CurrentKeys(rs)
  <2>1. IsFiniteSet(K) /\ I \cap K = {} /\ R \subseteq K
    BY <1>8, <1>10
  <2>. HIDE DEF K
  <2>2. /\ Cardinality((K \ R) \cup I) = Cardinality(K) + Cardinality(I) - Cardinality(R)
        /\ Cardinality(K) \in Nat /\ Cardinality(I) \in Nat /\ Cardinality(R) \in Nat
    BY <1>9, <2>1, CountChange
  <2>. QED  BY <1>7, <2>2 DEF K
<1>13. CountModifications(d, m) = Cardinality(I) - Cardinality(R)
  BY <1>10 DEF CountModifications, I, R, rs
<1>. QED  BY <1>10, <1>11, <1>12, <1>13 DEF rs

\* So does the revert of the head.
LEMMA RevertedCount ==
    ASSUME NEW top \in Blocks, top > 0, NEW rs, Sound(rs, top), NEW rev, rev = RevertBlock(rs, top)
    PROVE  /\ RevertCount(rev) \in Int
           /\ Cardinality({r \in rev.rows : BlockRangeCurrent(r)}) =
                 Cardinality({r \in rs : BlockRangeCurrent(r)}) + RevertCount(rev)
<1>. DEFINE ns == rev.rows
            K == CurrentKeys(rs)
            I == rev.set \ rev.removed
            R == rev.removed \ rev.set
<1>0. top \in 1 .. (MaxBlock + 1) /\ top - 1 \in Blocks /\ MaxBlock \in Nat
  BY VersionsAssumption DEF Blocks
<1>1. /\ Sound(ns, top - 1)
      /\ \A k : k \in rev.removed <=> \E r \in rs : r.key = k /\ r.lo >= top
      /\ \A k : k \in rev.set <=>
            \E r \in rs : r.key = k /\ r.lo < top /\ r.hi >= top /\ r.hi # Unbounded
      /\ \A k : k \in KeysOf({q \in ns : q.hi = Unbounded}) <=>
            \E r \in rs : r.key = k /\ r.lo < top /\ r.hi >= top
  BY <1>0, RevertedRows
<1>2. ASSUME NEW r \in rs
      PROVE  /\ r \in Row /\ r.lo \in Nat /\ r.hi \in Nat /\ r.lo < r.hi /\ r.lo <= top
             /\ r.hi # Unbounded => r.hi <= top
  BY RangeMeaning DEF Sound
<1>3. ASSUME NEW r \in rs, r.lo >= top
      PROVE  r.hi = Unbounded
  BY <1>2, <1>3 DEF Blocks
<1>4. \A k : k \in K <=> \E r \in rs : r.key = k /\ r.hi = Unbounded
  BY DEF CurrentKeys, KeysOf
<1>5. rev.removed \subseteq K
  BY <1>1, <1>3, <1>4
<1>6. I \cap K = {}
  <2>. SUFFICES ASSUME NEW k, k \in rev.set, k \in K
                PROVE  k \in rev.removed
    OBVIOUS
  <2>1. PICK r \in rs : r.key = k /\ r.lo < top /\ r.hi >= top /\ r.hi # Unbounded
    BY <1>1
  <2>2. PICK s \in rs : s.key = k /\ s.hi = Unbounded
    BY <1>4
  <2>3. r.hi <= s.lo \/ s.hi <= r.lo
    BY <2>1, <2>2 DEF Sound, Exclusion
  <2>4. s.lo >= top
    BY <1>0, <1>2, <2>1, <2>2, <2>3 DEF Blocks, Unbounded
  <2>. QED  BY <1>1, <2>2, <2>4
<1>7. CurrentKeys(ns) = (K \ R) \cup I
  <2>1. ASSUME NEW k
        PROVE  k \in CurrentKeys(ns) <=> (k \in K /\ k \notin rev.removed) \/ k \in rev.set
    <3>1. k \in CurrentKeys(ns) <=> \E r \in rs : r.key = k /\ r.lo < top /\ r.hi >= top
      BY <1>1 DEF CurrentKeys
    <3>2. ASSUME NEW r \in rs, r.key = k, r.lo < top, r.hi >= top, k \notin rev.set
          PROVE  k \in K /\ k \notin rev.removed
      <4>1. r.hi = Unbounded
        BY <1>1, <3>2
      <4>2. ASSUME NEW s \in rs, s.key = k, s.lo >= top
            PROVE  FALSE
        <5>1. s # r /\ s.hi = Unbounded
          BY <1>2, <1>3, <3>2, <4>2 DEF Blocks
        <5>2. r.hi <= s.lo \/ s.hi <= r.lo
          BY <3>2, <4>2, <5>1 DEF Sound, Exclusion
        <5>. QED  BY <1>0, <1>2, <4>1, <5>1, <5>2 DEF Blocks, Unbounded
      <4>. QED  BY <1>1, <1>4, <3>2, <4>1, <4>2
    <3>3. ASSUME k \in K, k \notin rev.removed
          PROVE  \E r \in rs : r.key = k /\ r.lo < top /\ r.hi >= top
      <4>1. PICK r \in rs : r.key = k /\ r.hi = Unbounded
        BY <1>4, <3>3
      <4>2. ~(r.lo >= top)
        BY <1>1, <3>3, <4>1
      <4>. QED  BY <1>0, <1>2, <4>1, <4>2 DEF Blocks, Unbounded
    <3>. QED  BY <1>1, <3>1, <3>2, <3>3
  <2>2. ASSUME NEW k
        PROVE  k \in CurrentKeys(ns) <=> (k \in K /\ k \notin R) \/ k \in I
    BY <1>5, <2>1
  <2>. QED  BY <2>2
<1>8. IsFiniteSet(K) /\ IsFiniteSet(I) /\ R \subseteq K
  <2>1. I \in SUBSET KeysOf(rs)
    BY <1>1 DEF KeysOf
  <2>. QED  BY <1>5, <2>1, CurrentCount, FS_Subset DEF Sound
<1>9. /\ Cardinality({r \in rs : BlockRangeCurrent(r)}) = Cardinality(K)
      /\ Cardinality({r \in ns : BlockRangeCurrent(r)}) = Cardinality(CurrentKeys(ns))
  BY <1>0, <1>1, CurrentCount
<1>. HIDE DEF I, R, K
<1>10. /\ Cardinality(CurrentKeys(ns)) = Cardinality(K) + Cardinality(I) - Cardinality(R)
       /\ Cardinality(K) \in Nat /\ Cardinality(I) \in Nat /\ Cardinality(R) \in Nat
  <2>1. /\ Cardinality((K \ R) \cup I) = Cardinality(K) + Cardinality(I) - Cardinality(R)
        /\ Cardinality(K) \in Nat /\ Cardinality(I) \in Nat /\ Cardinality(R) \in Nat
    BY <1>6, <1>8, CountChange
  <2>. QED  BY <1>7, <2>1
<1>11. RevertCount(rev) = Cardinality(I) - Cardinality(R)
  BY DEF RevertCount, I, R
<1>. QED  BY <1>9, <1>10, <1>11

----------------------------------------------------------------------------
(* Every step keeps the invariant.                                          *)

\* What two tables show up to a block is the same in one query for all entities.
LEMMA SameView ==
    ASSUME NEW rs, NEW qs, NEW b, \A k \in Keys : Find(rs, k, b) = Find(qs, k, b)
    PROVE  FindMany(rs, Keys, b) = FindMany(qs, Keys, b)
  BY FindManyMeaning

\* transact_block_operations.
LEMMA TransactStep ==
    ASSUME TablesInv, NEW d \in Deployments, NEW block \in Blocks, NEW m \in Modifications(d),
           NEW data \in [DOMAIN m -> Data],
           NEW created \in {{}} \cup {{i} : i \in DataSourceIds \ {s.id : s \in dds}},
           TransactBlock(d, block, m, data, created)
    PROVE  TablesInv'
<1>. DEFINE ns == ApplyEntityModifications(d, m, data, block)
<1>0. /\ Started(d) /\ block > ptr[d] /\ InterfaceUniqueness(d, m)
      /\ rows' = [rows EXCEPT ![d] = ns]
      /\ count' = [count EXCEPT ![d] = @ + CountModifications(d, m)]
      /\ ptr' = [ptr EXCEPT ![d] = block]
      /\ dds' = dds \cup {[id |-> i, deployment |-> d, lo |-> block] : i \in created}
      /\ parts' = parts \cup created
      /\ event' = [deployment |-> d, keys |-> DOMAIN m]
      /\ graft' = graft
  BY DEF TransactBlock
<1>1. /\ ptr \in [Deployments -> Blocks] /\ rows \in [Deployments -> SUBSET Row]
      /\ count \in [Deployments -> Int] /\ graft.copied \in Int
      /\ \A e \in Deployments : Sound(rows[e], ptr[e]) /\ ptr[e] \in Blocks
  BY DEF TablesInv, RowsOK
<1>. HIDE DEF ns
<1>2. /\ Sound(ns, block)
      /\ \A k, b : b \in 0 .. (block - 1) => Find(ns, k, b) = Find(rows[d], k, b)
  BY <1>0, <1>1, BlockRows DEF ns
<1>3. /\ DOMAIN m \subseteq Keys
      /\ \A q \in ns : q.key \in KeysOf(rows[d]) \/ (q.key \in DOMAIN m /\ m[q.key] # "Remove")
  <2>1. rows[d] \subseteq Row /\ Exclusion(rows[d])
    BY <1>1 DEF Sound
  <2>. DEFINE ended(r) == r.key \in DOMAIN m /\ r.hi = Unbounded
              then(r) == IF ended(r) THEN [r EXCEPT !.hi = block] ELSE r
              new(k) == [key |-> k, data |-> data[k], lo |-> block, hi |-> Unbounded]
  <2>2. /\ DOMAIN m \subseteq Keys
        /\ \A q : q \in ns <=> \/ \E r \in rows[d] : q = then(r)
                               \/ \E k \in DOMAIN m : m[k] # "Remove" /\ q = new(k)
    BY <2>1, ModifiedRows DEF ns
  <2>3. \A r \in rows[d] : then(r).key = r.key
    BY <2>1 DEF Row
  <2>4. \A k : new(k).key = k
    OBVIOUS
  <2>. HIDE DEF then, new
  <2>. QED  BY <2>2, <2>3, <2>4 DEF KeysOf
<1>4. /\ rows'[d] = ns /\ ptr'[d] = block /\ count'[d] = count[d] + CountModifications(d, m)
      /\ \A e \in Deployments : e # d => rows'[e] = rows[e] /\ ptr'[e] = ptr[e] /\ count'[e] = count[e]
      /\ rows' \in [Deployments -> SUBSET Row] /\ ptr' \in [Deployments -> Blocks]
  <2>1. ns \in SUBSET Row
    BY <1>2 DEF Sound
  <2>. HIDE DEF ns
  <2>. QED  BY <1>0, <1>1, <2>1
<1>5. /\ CountModifications(d, m) \in Int
      /\ Cardinality({r \in ns : BlockRangeCurrent(r)}) =
            Cardinality({r \in rows[d] : BlockRangeCurrent(r)}) + CountModifications(d, m)
  BY <1>0, <1>1, BlockCount DEF ns
<1>6. RowsOK'
  <2>1. count' \in [Deployments -> Int]
    BY <1>0, <1>1, <1>5
  <2>2. ASSUME NEW e \in Deployments
        PROVE  Sound(rows'[e], ptr'[e])
    BY <1>1, <1>2, <1>4
  <2>3. \A e \in Deployments : Sound(rows[e], ptr[e])'
    BY <2>2 DEF Sound, Exclusion, KeysOf
  <2>. QED  BY <1>0, <1>1, <1>4, <2>1, <2>3 DEF RowsOK
<1>7. GraftOK'
  <2>1. d = Copy => graft.state = "Ready"
    BY <1>0 DEF Started
  <2>2. Copy \in Deployments /\ ptr[Copy] \in Nat /\ graft.block \in Nat /\ block \in Nat
    BY <1>1, VersionsAssumption DEF Deployments, Blocks, TablesInv, GraftOK
  <2>. QED  BY <1>0, <1>4, <2>1, <2>2 DEF TablesInv, GraftOK
<1>8. DataSourcesOK' /\ DataSourcesRewound'
  <2>1. CASE created = {}
    <3>1. dds' = dds /\ parts' = parts
      BY <1>0, <2>1
    <3>2. \A s \in dds : s.lo <= ptr'[s.deployment]
      <4>. SUFFICES ASSUME NEW s \in dds
                    PROVE  s.lo <= ptr'[s.deployment]
        OBVIOUS
      <4>1. s.deployment \in Deployments /\ s.lo \in Nat /\ s.lo <= ptr[s.deployment]
        BY VersionsAssumption DEF TablesInv, DataSourcesOK, DataSourcesRewound, Blocks
      <4>. QED  BY <1>0, <1>1, <1>4, <4>1, VersionsAssumption DEF Blocks
    <3>. QED  BY <3>1, <3>2 DEF TablesInv, DataSourcesOK, DataSourcesRewound
  <2>2. CASE created # {}
    <3>1. PICK i \in DataSourceIds : created = {i} /\ \A s \in dds : s.id # i
      BY <2>2
    <3>. DEFINE new == [id |-> i, deployment |-> d, lo |-> block]
    <3>2. dds' = dds \cup {new} /\ parts' = parts \cup {i}
      BY <1>0, <3>1
    <3>3. \A s \in dds : s.lo <= ptr'[s.deployment]
      <4>. SUFFICES ASSUME NEW s \in dds
                    PROVE  s.lo <= ptr'[s.deployment]
        OBVIOUS
      <4>1. s.deployment \in Deployments /\ s.lo \in Nat /\ s.lo <= ptr[s.deployment]
        BY VersionsAssumption DEF TablesInv, DataSourcesOK, DataSourcesRewound, Blocks
      <4>. QED  BY <1>0, <1>1, <1>4, <4>1, VersionsAssumption DEF Blocks
    <3>4. new.lo <= ptr'[new.deployment]
      BY <1>4, VersionsAssumption DEF Blocks
    <3>5. DataSourcesOK'
      BY <3>1, <3>2 DEF TablesInv, DataSourcesOK
    <3>6. parts' = {s.id : s \in dds'}
      <4>1. parts = {s.id : s \in dds}
        BY DEF TablesInv, DataSourcesRewound
      <4>2. new.id = i /\ new \in dds' /\ \A s \in dds' : s \in dds \/ s = new
        BY <3>2
      <4>. HIDE DEF new
      <4>. QED  BY <3>2, <4>1, <4>2
    <3>. QED  BY <3>2, <3>3, <3>4, <3>5, <3>6 DEF DataSourcesRewound
  <2>. QED  BY <2>1, <2>2
<1>9. event' \in [deployment : Deployments, keys : SUBSET Keys]
  BY <1>0, <1>3
<1>10. EntityCountExact'
  <2>. DEFINE size(rs) == Cardinality({r \in rs : BlockRangeCurrent(r)})
              extra(e) == IF e = Copy THEN graft.copied ELSE 0
  <2>1. ASSUME NEW e \in Deployments
        PROVE  count'[e] + extra(e) = size(rows'[e])
    <3>1. count[e] + extra(e) = size(rows[e]) /\ count[e] \in Int /\ extra(e) \in Int
      BY <1>1 DEF TablesInv, EntityCountExact
    <3>2. CASE e = d
      BY <1>4, <1>5, <3>1, <3>2
    <3>3. CASE e # d
      BY <1>4, <3>1, <3>3
    <3>. QED  BY <3>2, <3>3
  <2>. QED  BY <1>0, <2>1 DEF EntityCountExact, BlockRangeCurrent, BLOCK_NUMBER_MAX
<1>11. InterfaceIdsUnique'
  <2>. SUFFICES ASSUME NEW e \in Deployments, NEW r \in rows'[e], NEW s \in rows'[e],
                       r.key.id = s.key.id, s.key.type \in SharedInterface[r.key.type]
                PROVE  FALSE
    BY DEF InterfaceIdsUnique
  <2>1. \A a, b \in rows[e] : a.key.id = b.key.id => b.key.type \notin SharedInterface[a.key.type]
    BY DEF TablesInv, InterfaceIdsUnique
  <2>2. CASE e # d
    BY <1>4, <2>1, <2>2
  <2>3. CASE e = d
    <3>. DEFINE writes == {k \in DOMAIN m : m[k] # "Remove"}
    <3>1. /\ r.key \in KeysOf(rows[d]) \/ r.key \in writes
          /\ s.key \in KeysOf(rows[d]) \/ s.key \in writes
      BY <1>3, <1>4, <2>3
    <3>2. ASSUME NEW k \in writes
          PROVE  /\ \A x \in rows[d] : x.key.id = k.id => x.key.type \notin SharedInterface[k.type]
                 /\ \A l \in writes : l.id = k.id => l.type \notin SharedInterface[k.type]
      <4>1. /\ ConflictingEntity(rows[d], k) = {}
            /\ \A l \in writes : l.id = k.id => l.type \notin SharedInterface[k.type]
        BY <1>0 DEF InterfaceUniqueness
      <4>2. ASSUME NEW x \in rows[d], x.key.id = k.id, x.key.type \in SharedInterface[k.type]
            PROVE  FALSE
        <5>1. x.key \in ConflictingEntity(rows[d], k)
          BY <4>2 DEF ConflictingEntity
        <5>. QED  BY <4>1, <5>1
      <4>. QED  BY <4>1, <4>2
    <3>3. r.key \in Keys /\ s.key \in Keys
      BY <1>2, <1>4, <2>3 DEF Sound, Row
    <3>4. r.key.type \in SharedInterface[s.key.type]
      BY <3>3, VersionsAssumption
    <3>. HIDE DEF writes
    <3>5. ASSUME r.key \in KeysOf(rows[d]), s.key \in KeysOf(rows[d])
          PROVE  FALSE
      BY <2>1, <2>3, <3>5 DEF KeysOf
    <3>6. ASSUME r.key \in writes
          PROVE  FALSE
      BY <3>1, <3>2, <3>6 DEF KeysOf
    <3>7. ASSUME s.key \in writes
          PROVE  FALSE
      BY <3>1, <3>2, <3>4, <3>7 DEF KeysOf
    <3>. QED  BY <3>1, <3>5, <3>6, <3>7
  <2>. QED  BY <2>2, <2>3
<1>12. BaseKeepsView'
  <2>. SUFFICES ASSUME graft.state = "Init", ~graft.rewound
                PROVE  /\ ptr'[Base] >= graft.block
                       /\ \A b \in 0 .. graft.block : FindMany(rows'[Base], Keys, b) = graft.view[b]
    BY <1>0 DEF BaseKeepsView, FindMany, FindManyQuery, BlockRangeContains
  <2>1. /\ ptr[Base] >= graft.block
        /\ \A b \in 0 .. graft.block : FindMany(rows[Base], Keys, b) = graft.view[b]
    BY DEF TablesInv, BaseKeepsView
  <2>2. ptr[Base] \in Nat /\ graft.block \in Nat /\ block \in Nat /\ Base \in Deployments
    BY <1>1, VersionsAssumption DEF Deployments, Blocks, TablesInv, GraftOK
  <2>3. CASE d = Base
    <3>1. ASSUME NEW b \in 0 .. graft.block
          PROVE  FindMany(rows'[Base], Keys, b) = graft.view[b]
      <4>1. b \in 0 .. (block - 1)
        BY <1>0, <2>1, <2>2, <2>3
      <4>2. FindMany(ns, Keys, b) = FindMany(rows[d], Keys, b)
        BY <1>2, <4>1, SameView
      <4>. QED  BY <1>4, <2>1, <2>3, <4>2
    <3>. QED  BY <1>0, <1>4, <2>1, <2>2, <2>3, <3>1
  <2>4. CASE d # Base
    BY <1>4, <2>1, <2>2, <2>4
  <2>. QED  BY <2>3, <2>4
<1>13. GraftCopiesHistory'
  <2>. SUFFICES ASSUME graft.state = "Ready", ~graft.rewound, NEW b \in 0 .. graft.block
                PROVE  FindMany(rows'[Copy], Keys, b) = graft.view[b]
    BY <1>0 DEF GraftCopiesHistory, FindMany, FindManyQuery, BlockRangeContains
  <2>1. FindMany(rows[Copy], Keys, b) = graft.view[b]
    BY DEF TablesInv, GraftCopiesHistory
  <2>2. /\ ptr[Copy] \in Nat /\ graft.block \in Nat /\ block \in Nat /\ Copy \in Deployments
        /\ ptr[Copy] >= graft.block
    BY <1>1, VersionsAssumption DEF Deployments, Blocks, TablesInv, GraftOK
  <2>3. CASE d = Copy
    <3>1. b \in 0 .. (block - 1)
      BY <1>0, <2>2, <2>3
    <3>2. FindMany(ns, Keys, b) = FindMany(rows[d], Keys, b)
      BY <1>2, <3>1, SameView
    <3>. QED  BY <1>4, <2>1, <2>3, <3>2
  <2>4. CASE d # Copy
    BY <1>4, <2>1, <2>2, <2>4
  <2>. QED  BY <2>3, <2>4
<1>. QED  BY <1>6, <1>7, <1>8, <1>9, <1>10, <1>11, <1>12, <1>13 DEF TablesInv

\* revert_block_operations.
LEMMA RevertStep ==
    ASSUME TablesInv, NEW d \in Deployments, RevertBlockOperations(d)
    PROVE  TablesInv'
<1>. DEFINE rev == RevertBlock(rows[d], ptr[d])
            ns == rev.rows
            gone == DeleteDynamicDataSources(d, ptr[d])
<1>0. /\ Started(d) /\ ptr[d] > 0 /\ (d = Copy => graft.block <= ptr[d] - 1)
      /\ rows' = [rows EXCEPT ![d] = ns]
      /\ count' = [count EXCEPT ![d] = @ + RevertCount(rev)]
      /\ ptr' = [ptr EXCEPT ![d] = @ - 1]
      /\ dds' = dds \ gone /\ parts' = parts \ DeleteByPrefix({s.id : s \in gone})
      /\ event' = [deployment |-> d, keys |-> rev.removed \cup rev.set]
      /\ graft' = [graft EXCEPT !.rewound =
                      @ \/ (d = Base /\ graft.state = "Init" /\ ptr[d] <= graft.block)]
  BY DEF RevertBlockOperations, RevertMetadata
<1>1. /\ ptr \in [Deployments -> Blocks] /\ rows \in [Deployments -> SUBSET Row]
      /\ count \in [Deployments -> Int] /\ graft.copied \in Int /\ MaxBlock \in Nat
      /\ \A e \in Deployments : Sound(rows[e], ptr[e]) /\ ptr[e] \in Blocks /\ ptr[e] \in Nat
      /\ graft.block \in Blocks /\ graft.block \in Nat
  BY VersionsAssumption DEF TablesInv, RowsOK, GraftOK, Blocks
<1>2. ptr[d] \in 1 .. (MaxBlock + 1) /\ ptr[d] - 1 \in Blocks
  BY <1>0, <1>1 DEF Blocks
<1>3. /\ Sound(ns, ptr[d] - 1) /\ KeysOf(ns) \subseteq KeysOf(rows[d])
      /\ \A k, b : b \in 0 .. (ptr[d] - 1) => Find(ns, k, b) = Find(rows[d], k, b)
      /\ \A k : k \in rev.removed \/ k \in rev.set => \E r \in rows[d] : r.key = k
  BY <1>1, <1>2, RevertedRows
<1>4. /\ RevertCount(rev) \in Int
      /\ Cardinality({r \in ns : BlockRangeCurrent(r)}) =
            Cardinality({r \in rows[d] : BlockRangeCurrent(r)}) + RevertCount(rev)
  BY <1>0, <1>1, RevertedCount
<1>. HIDE DEF rev, ns
<1>5. /\ rows'[d] = ns /\ ptr'[d] = ptr[d] - 1 /\ count'[d] = count[d] + RevertCount(rev)
      /\ \A e \in Deployments : e # d => rows'[e] = rows[e] /\ ptr'[e] = ptr[e] /\ count'[e] = count[e]
      /\ rows' \in [Deployments -> SUBSET Row] /\ ptr' \in [Deployments -> Blocks]
  <2>1. ns \in SUBSET Row
    BY <1>3 DEF Sound
  <2>. QED  BY <1>0, <1>1, <1>2, <2>1
<1>6. /\ graft'.state = graft.state /\ graft'.block = graft.block /\ graft'.view = graft.view
      /\ graft'.copied = graft.copied
      /\ graft' = [state |-> graft'.state, block |-> graft'.block, view |-> graft'.view,
                   rewound |-> graft'.rewound, copied |-> graft'.copied]
      /\ graft'.rewound \in BOOLEAN
      /\ ~graft'.rewound => /\ ~graft.rewound
                            /\ ~(d = Base /\ graft.state = "Init" /\ ptr[d] <= graft.block)
  <2>. DEFINE now == graft.rewound \/ (d = Base /\ graft.state = "Init" /\ ptr[d] <= graft.block)
  <2>1. graft = [state |-> graft.state, block |-> graft.block, view |-> graft.view,
                 rewound |-> graft.rewound, copied |-> graft.copied]
        /\ graft' = [graft EXCEPT !.rewound = now] /\ now \in BOOLEAN
    BY <1>0 DEF TablesInv, GraftOK
  <2>. HIDE DEF now
  <2>2. graft' = [state |-> graft.state, block |-> graft.block, view |-> graft.view,
                  rewound |-> now, copied |-> graft.copied]
    BY <2>1
  <2>3. /\ graft'.state = graft.state /\ graft'.block = graft.block /\ graft'.view = graft.view
        /\ graft'.copied = graft.copied /\ graft'.rewound = now
    BY <2>2
  <2>. QED  BY <2>1, <2>2, <2>3 DEF now
<1>7. RowsOK'
  <2>1. count' \in [Deployments -> Int]
    BY <1>0, <1>1, <1>4
  <2>2. \A e \in Deployments : Sound(rows'[e], ptr'[e])
    BY <1>1, <1>3, <1>5
  <2>3. \A e \in Deployments : Sound(rows[e], ptr[e])'
    BY <2>2 DEF Sound, Exclusion, KeysOf
  <2>. QED  BY <1>1, <1>5, <1>6, <2>1, <2>3 DEF RowsOK
<1>8. GraftOK'
  <2>1. d = Copy => graft.state = "Ready"
    BY <1>0 DEF Started
  <2>2. Copy \in Deployments
    BY DEF Deployments
  <2>3. graft.state = "Ready" => ptr'[Copy] >= graft.block
    BY <1>0, <1>1, <1>5, <2>2 DEF TablesInv, GraftOK
  <2>. QED  BY <1>5, <1>6, <2>1, <2>2, <2>3 DEF TablesInv, GraftOK
<1>9. DataSourcesOK' /\ DataSourcesRewound'
  <2>1. \A s : s \in gone <=> s \in dds /\ s.deployment = d /\ s.lo >= ptr[d]
    BY DEF DeleteDynamicDataSources
  <2>. HIDE DEF gone
  <2>2. DataSourcesOK'
    BY <1>0 DEF TablesInv, DataSourcesOK
  <2>3. ASSUME NEW s \in dds'
        PROVE  s.lo <= ptr'[s.deployment]
    <3>1. s \in dds /\ s.deployment \in Deployments /\ s.lo \in Nat /\ s.lo <= ptr[s.deployment]
      BY <1>0, VersionsAssumption DEF TablesInv, DataSourcesOK, DataSourcesRewound, Blocks
    <3>2. ~(s.deployment = d /\ s.lo >= ptr[d])
      BY <1>0, <2>1, <3>1
    <3>. QED  BY <1>1, <1>5, <3>1, <3>2
  <2>4. parts' = {s.id : s \in dds'}
    <3>1. parts = {s.id : s \in dds} /\ \A s, t \in dds : s.id = t.id => s = t
      BY DEF TablesInv, DataSourcesRewound, DataSourcesOK
    <3>2. parts' = parts \ {s.id : s \in gone} /\ gone \subseteq dds
      BY <1>0, <2>1 DEF DeleteByPrefix
    <3>. QED  BY <1>0, <3>1, <3>2
  <2>. QED  BY <2>2, <2>3, <2>4 DEF DataSourcesRewound
<1>10. event' \in [deployment : Deployments, keys : SUBSET Keys]
  <2>1. \A r \in rows[d] : r.key \in Keys
    BY <1>1 DEF Sound, Row
  <2>. QED  BY <1>0, <1>3, <2>1
<1>11. EntityCountExact'
  <2>. DEFINE size(rs) == Cardinality({r \in rs : BlockRangeCurrent(r)})
              extra(e) == IF e = Copy THEN graft.copied ELSE 0
  <2>1. ASSUME NEW e \in Deployments
        PROVE  count'[e] + extra(e) = size(rows'[e])
    <3>1. count[e] + extra(e) = size(rows[e]) /\ count[e] \in Int /\ extra(e) \in Int
      BY <1>1 DEF TablesInv, EntityCountExact
    <3>2. CASE e = d
      BY <1>4, <1>5, <3>1, <3>2
    <3>3. CASE e # d
      BY <1>5, <3>1, <3>3
    <3>. QED  BY <3>2, <3>3
  <2>. QED  BY <1>6, <2>1 DEF EntityCountExact, BlockRangeCurrent, BLOCK_NUMBER_MAX
<1>12. InterfaceIdsUnique'
  <2>. SUFFICES ASSUME NEW e \in Deployments, NEW r \in rows'[e], NEW s \in rows'[e],
                       r.key.id = s.key.id
                PROVE  s.key.type \notin SharedInterface[r.key.type]
    BY DEF InterfaceIdsUnique
  <2>1. r.key \in KeysOf(rows[e]) /\ s.key \in KeysOf(rows[e])
    BY <1>3, <1>5 DEF KeysOf
  <2>. QED  BY <2>1 DEF KeysOf, TablesInv, InterfaceIdsUnique
<1>13. BaseKeepsView'
  <2>. SUFFICES ASSUME graft.state = "Init", ~graft'.rewound
                PROVE  /\ ptr'[Base] >= graft.block
                       /\ \A b \in 0 .. graft.block : FindMany(rows'[Base], Keys, b) = graft.view[b]
    BY <1>6, ZenonT(30) DEF BaseKeepsView, FindMany, FindManyQuery, BlockRangeContains
  <2>1. /\ ptr[Base] >= graft.block /\ Base \in Deployments
        /\ \A b \in 0 .. graft.block : FindMany(rows[Base], Keys, b) = graft.view[b]
    BY <1>6 DEF TablesInv, BaseKeepsView, Deployments
  <2>2. CASE d = Base
    <3>1. ptr[d] - 1 >= graft.block
      BY <1>1, <1>6, <2>2
    <3>2. ASSUME NEW b \in 0 .. graft.block
          PROVE  FindMany(rows'[Base], Keys, b) = graft.view[b]
      <4>1. b \in 0 .. (ptr[d] - 1)
        BY <1>1, <3>1
      <4>2. FindMany(ns, Keys, b) = FindMany(rows[d], Keys, b)
        BY <1>3, <4>1, SameView
      <4>. QED  BY <1>5, <2>1, <2>2, <4>2
    <3>. QED  BY <1>5, <2>2, <3>1, <3>2
  <2>3. CASE d # Base
    BY <1>5, <2>1, <2>3
  <2>. QED  BY <2>2, <2>3
<1>14. GraftCopiesHistory'
  <2>. SUFFICES ASSUME graft.state = "Ready", ~graft'.rewound, NEW b \in 0 .. graft.block
                PROVE  FindMany(rows'[Copy], Keys, b) = graft.view[b]
    BY <1>6 DEF GraftCopiesHistory, FindMany, FindManyQuery, BlockRangeContains
  <2>1. FindMany(rows[Copy], Keys, b) = graft.view[b] /\ Copy \in Deployments
    BY <1>6 DEF TablesInv, GraftCopiesHistory, Deployments
  <2>2. CASE d = Copy
    <3>1. b \in 0 .. (ptr[d] - 1)
      BY <1>0, <1>1, <2>2
    <3>2. FindMany(ns, Keys, b) = FindMany(rows[d], Keys, b)
      BY <1>3, <3>1, SameView
    <3>. QED  BY <1>5, <2>1, <2>2, <3>2
  <2>3. CASE d # Copy
    BY <1>5, <2>1, <2>3
  <2>. QED  BY <2>2, <2>3
<1>. QED  BY <1>7, <1>8, <1>9, <1>10, <1>11, <1>12, <1>13, <1>14 DEF TablesInv

\* A deployment is created as a graft: only its head and what it is promised.
LEMMA CreateGraftStep ==
    ASSUME TablesInv, NEW block \in Blocks, CreateGraft(block)
    PROVE  TablesInv'
<1>. DEFINE seen == [b \in 0 .. block |-> FindMany(rows[Base], Keys, b)]
<1>0. /\ graft.state = "none" /\ ptr[Base] >= block
      /\ graft' = [NoGraft EXCEPT !.state = "Init", !.block = block, !.view = seen]
      /\ ptr' = [ptr EXCEPT ![Copy] = block]
      /\ UNCHANGED <<rows, count, dds, parts, event>>
  BY DEF CreateGraft
<1>. HIDE DEF seen
<1>1. graft' = [state |-> "Init", block |-> block, view |-> seen, rewound |-> FALSE, copied |-> 0]
  BY <1>0 DEF NoGraft
<1>a. /\ graft'.state = "Init" /\ graft'.block = block /\ graft'.view = seen
      /\ graft'.rewound = FALSE /\ graft'.copied = 0
  BY <1>1
<1>2. /\ Base \in Deployments /\ Copy \in Deployments /\ Base # Copy
      /\ \A d \in Deployments : d = Base \/ d = Copy
  BY DEF Deployments, Base, Copy
<1>3. /\ ptr \in [Deployments -> Blocks] /\ count \in [Deployments -> Int]
      /\ \A d \in Deployments : Sound(rows[d], ptr[d])
      /\ rows[Copy] = {} /\ count[Copy] = 0 /\ graft.copied = 0 /\ ptr[Copy] = 0
  BY <1>0 DEF TablesInv, RowsOK, GraftOK
<1>4. ptr'[Base] = ptr[Base] /\ ptr'[Copy] = block /\ ptr' \in [Deployments -> Blocks]
  BY <1>0, <1>2, <1>3
<1>5. RowsOK'
  <2>1. Sound({}, block)
    <3>1. KeysOf({}) = {}
      BY DEF KeysOf
    <3>. QED  BY <3>1, FS_EmptySet DEF Sound, Exclusion
  <2>2. \A d \in Deployments : Sound(rows'[d], ptr'[d])
    BY <1>0, <1>2, <1>3, <1>4, <2>1
  <2>3. \A d \in Deployments : Sound(rows[d], ptr[d])'
    BY <2>2 DEF Sound, Exclusion, KeysOf
  <2>4. rows' \in [Deployments -> SUBSET Row] /\ count' \in [Deployments -> Int] /\ graft'.copied \in Int
    BY <1>0, <1>a DEF TablesInv, RowsOK
  <2>. QED  BY <1>4, <2>3, <2>4 DEF RowsOK
<1>6. GraftOK'
  <2>1. graft' = [state |-> graft'.state, block |-> graft'.block, view |-> graft'.view,
                  rewound |-> graft'.rewound, copied |-> graft'.copied]
    BY <1>1, <1>a
  <2>2. rows'[Copy] = {} /\ count'[Copy] = 0
    BY <1>0, <1>3
  <2>. QED  BY <1>a, <1>4, <2>1, <2>2 DEF GraftOK
<1>7. DataSourcesOK' /\ DataSourcesRewound'
  <2>1. ASSUME NEW s \in dds
        PROVE  s.lo <= ptr'[s.deployment]
    <3>1. s.deployment \in Deployments /\ s.lo \in Nat /\ s.lo <= ptr[s.deployment]
      BY VersionsAssumption DEF TablesInv, DataSourcesOK, DataSourcesRewound, Blocks
    <3>. QED  BY <1>2, <1>3, <1>4, <3>1, VersionsAssumption DEF Blocks
  <2>. QED  BY <1>0, <2>1 DEF TablesInv, DataSourcesOK, DataSourcesRewound
<1>8. EntityCountExact'
  <2>. DEFINE size(rs) == Cardinality({r \in rs : BlockRangeCurrent(r)})
  <2>1. ASSUME NEW d \in Deployments
        PROVE  count'[d] + (IF d = Copy THEN 0 ELSE 0) = size(rows'[d])
    BY <1>0, <1>3 DEF TablesInv, EntityCountExact
  <2>. QED  BY <1>a, <2>1 DEF EntityCountExact, BlockRangeCurrent, BLOCK_NUMBER_MAX
<1>9. event' \in [deployment : Deployments, keys : SUBSET Keys] /\ InterfaceIdsUnique'
  BY <1>0 DEF TablesInv, InterfaceIdsUnique
<1>10. BaseKeepsView'
  <2>1. \A b \in 0 .. block : FindMany(rows'[Base], Keys, b) = seen[b]
    BY <1>0 DEF seen
  <2>. QED  BY <1>0, <1>a, <1>4, <2>1, SMTT(30) DEF BaseKeepsView, FindMany, FindManyQuery, BlockRangeContains
<1>11. GraftCopiesHistory'
  BY <1>a DEF GraftCopiesHistory
<1>. QED  BY <1>5, <1>6, <1>7, <1>8, <1>9, <1>10, <1>11 DEF TablesInv

\* start_subgraph of the graft: all versions of the base, rewound to the graft.
LEMMA StartGraftStep ==
    ASSUME TablesInv, NEW newId \in NewIds, StartSubgraph(newId)
    PROVE  TablesInv'
<1>. DEFINE rev == RevertBlock(rows[Base], graft.block + 1)
            ns == rev.rows
            size(rs) == Cardinality({r \in rs : BlockRangeCurrent(r)})
            kept == {s \in dds : s.deployment = Base /\ s.lo < graft.block + 1}
            copies == {[id |-> newId[s.id], deployment |-> Copy, lo |-> s.lo] : s \in kept}
<1>0. /\ graft.state = "Init"
      /\ rows' = [rows EXCEPT ![Copy] = ns]
      /\ graft' = [graft EXCEPT !.state = "Ready", !.copied = size(rows'[Copy])]
      /\ UNCHANGED <<ptr, count, event>>
  BY DEF StartSubgraph, CopyFrom, CopyEntityData
<1>1. /\ dds' = dds \cup copies
      /\ parts' = parts \cup {newId[s.id] : s \in {x \in kept : x.id \in parts}}
  <2>1. {s \in {s \in dds : s.deployment = Base} : s.lo < graft.block + 1} = kept
    OBVIOUS
  <2>. HIDE DEF kept
  <2>. QED  BY <2>1 DEF StartSubgraph, CopyDynamicDataSources
<1>2. /\ Base \in Deployments /\ Copy \in Deployments /\ Base # Copy
      /\ \A d \in Deployments : d = Base \/ d = Copy
  BY DEF Deployments, Base, Copy
<1>3. /\ ptr \in [Deployments -> Blocks] /\ count \in [Deployments -> Int] /\ MaxBlock \in Nat
      /\ rows \in [Deployments -> SUBSET Row]
      /\ \A d \in Deployments : Sound(rows[d], ptr[d])
      /\ count[Copy] = 0 /\ graft.copied = 0 /\ ptr[Copy] = graft.block /\ graft.block \in Blocks
  BY <1>0, VersionsAssumption DEF TablesInv, RowsOK, GraftOK
<1>4. graft.block + 1 \in 1 .. (MaxBlock + 1) /\ (graft.block + 1) - 1 = graft.block
      /\ ptr[Base] \in Blocks
  BY <1>2, <1>3 DEF Blocks
<1>5. /\ Sound(ns, graft.block) /\ KeysOf(ns) \subseteq KeysOf(rows[Base])
      /\ \A k, b : b \in 0 .. graft.block => Find(ns, k, b) = Find(rows[Base], k, b)
  BY <1>2, <1>3, <1>4, RevertedRows
<1>6. size(ns) \in Nat
  BY <1>3, <1>5, CurrentCount
<1>. HIDE DEF ns, rev
<1>7. /\ rows'[Copy] = ns /\ rows'[Base] = rows[Base] /\ rows' \in [Deployments -> SUBSET Row]
  <2>1. ns \in SUBSET Row
    BY <1>5 DEF Sound
  <2>. QED  BY <1>0, <1>2, <1>3, <2>1
<1>8. graft' = [state |-> "Ready", block |-> graft.block, view |-> graft.view,
                rewound |-> graft.rewound, copied |-> size(ns)]
  <2>. DEFINE n == size(ns)
  <2>1. graft' = [graft EXCEPT !.state = "Ready", !.copied = n]
    BY <1>0, <1>7
  <2>2. graft = [state |-> graft.state, block |-> graft.block, view |-> graft.view,
                 rewound |-> graft.rewound, copied |-> graft.copied]
    BY DEF TablesInv, GraftOK
  <2>. HIDE DEF n
  <2>3. graft' = [state |-> "Ready", block |-> graft.block, view |-> graft.view,
                  rewound |-> graft.rewound, copied |-> n]
    BY <2>1, <2>2
  <2>. QED  BY <2>3 DEF n
<1>9. /\ graft'.state = "Ready" /\ graft'.block = graft.block /\ graft'.view = graft.view
      /\ graft'.rewound = graft.rewound /\ graft'.copied = size(ns)
  <2>. HIDE DEF size
  <2>. QED  BY <1>8
<1>10. RowsOK'
  <2>1. \A d \in Deployments : Sound(rows'[d], ptr'[d])
    BY <1>0, <1>2, <1>3, <1>5, <1>7
  <2>2. \A d \in Deployments : Sound(rows[d], ptr[d])'
    BY <2>1 DEF Sound, Exclusion, KeysOf
  <2>3. graft'.copied \in Int
    BY <1>6, <1>9
  <2>. QED  BY <1>0, <1>3, <1>7, <2>2, <2>3 DEF RowsOK
<1>11. GraftOK'
  <2>1. graft' = [state |-> graft'.state, block |-> graft'.block, view |-> graft'.view,
                  rewound |-> graft'.rewound, copied |-> graft'.copied]
    <3>. HIDE DEF size
    <3>. QED  BY <1>8, <1>9
  <2>2. ptr'[Copy] >= graft.block /\ graft.rewound \in BOOLEAN
    BY <1>0, <1>3 DEF TablesInv, GraftOK, Blocks
  <2>. QED  BY <1>3, <1>9, <2>1, <2>2 DEF GraftOK
<1>12. DataSourcesOK' /\ DataSourcesRewound'
  <2>1. /\ dds \subseteq [id : DataSourceIds, deployment : Deployments, lo : Blocks]
        /\ \A s, t \in dds : s.id = t.id => s = t
        /\ \A s \in dds : s.lo <= ptr[s.deployment]
        /\ parts = {s.id : s \in dds}
    BY DEF TablesInv, DataSourcesOK, DataSourcesRewound
  <2>. DEFINE olds == {s.id : s \in {x \in dds : x.deployment = Base}}
              free == DataSourceIds \ {s.id : s \in dds}
  <2>2. /\ newId \in [olds -> free]
        /\ \A a, b \in olds : newId[a] = newId[b] => a = b
    BY DEF NewIds, Injection, IsInjective
  <2>3. \A s \in kept : s \in dds /\ s.id \in olds /\ s.lo \in Blocks /\ s.lo < graft.block + 1
    BY <2>1
  <2>4. \A s \in kept : newId[s.id] \in DataSourceIds /\ \A t \in dds : t.id # newId[s.id]
    BY <2>2, <2>3
  <2>5. \A s, t \in kept : newId[s.id] = newId[t.id] => s = t
    BY <2>1, <2>2, <2>3
  <2>. HIDE DEF kept, olds, free
  <2>6. \A x : x \in copies <=>
           \E s \in kept : x = [id |-> newId[s.id], deployment |-> Copy, lo |-> s.lo]
    OBVIOUS
  <2>7. \A x \in copies : /\ x \in [id : DataSourceIds, deployment : Deployments, lo : Blocks]
                          /\ x.deployment = Copy /\ x.lo <= graft.block
                          /\ \A t \in dds : t.id # x.id
    BY <1>2, <1>3, <2>3, <2>4, <2>6 DEF Blocks
  <2>8. \A x, y \in copies : x.id = y.id => x = y
    BY <2>5, <2>6
  <2>9. {newId[s.id] : s \in {x \in kept : x.id \in parts}} = {x.id : x \in copies}
    <3>1. {x \in kept : x.id \in parts} = kept
      BY <2>1, <2>3
    <3>2. {x.id : x \in copies} = {newId[s.id] : s \in kept}
      <4>1. \A x \in copies : \E s \in kept : x.id = newId[s.id]
        BY <2>6
      <4>2. ASSUME NEW s \in kept
            PROVE  \E x \in copies : x.id = newId[s.id]
        <5>1. [id |-> newId[s.id], deployment |-> Copy, lo |-> s.lo] \in copies
          BY <2>6
        <5>. QED  BY <5>1
      <4>. HIDE DEF copies
      <4>. QED  BY <4>1, <4>2
    <3>. QED  BY <3>1, <3>2
  <2>. HIDE DEF copies
  <2>10. DataSourcesOK'
    BY <1>1, <2>1, <2>7, <2>8 DEF DataSourcesOK
  <2>11. \A s \in dds' : s.lo <= ptr'[s.deployment]
    BY <1>0, <1>1, <1>3, <2>1, <2>7
  <2>12. parts' = {s.id : s \in dds'}
    BY <1>1, <2>1, <2>9
  <2>. QED  BY <2>10, <2>11, <2>12 DEF DataSourcesRewound
<1>13. EntityCountExact'
  <2>1. count[Base] + 0 = size(rows[Base])
    BY <1>2 DEF TablesInv, EntityCountExact
  <2>2. ASSUME NEW d \in Deployments
        PROVE  count'[d] + (IF d = Copy THEN size(ns) ELSE 0) = size(rows'[d])
    <3>1. CASE d = Base
      <4>1. count'[d] = count[Base] /\ rows'[d] = rows[Base] /\ d # Copy
        BY <1>0, <1>2, <1>7, <3>1
      <4>. HIDE DEF size
      <4>. QED  BY <2>1, <4>1
    <3>2. CASE d = Copy
      <4>1. count'[d] = 0 /\ rows'[d] = ns
        BY <1>0, <1>3, <1>7, <3>2
      <4>. HIDE DEF size
      <4>. QED  BY <1>6, <3>2, <4>1
    <3>. QED  BY <1>2, <3>1, <3>2
  <2>. QED  BY <1>9, <2>2 DEF EntityCountExact, BlockRangeCurrent, BLOCK_NUMBER_MAX
<1>14. InterfaceIdsUnique'
  <2>. SUFFICES ASSUME NEW d \in Deployments, NEW r \in rows'[d], NEW s \in rows'[d],
                       r.key.id = s.key.id
                PROVE  s.key.type \notin SharedInterface[r.key.type]
    BY DEF InterfaceIdsUnique
  <2>1. r.key \in KeysOf(rows[Base]) /\ s.key \in KeysOf(rows[Base])
    BY <1>2, <1>5, <1>7 DEF KeysOf
  <2>. QED  BY <1>2, <2>1 DEF KeysOf, TablesInv, InterfaceIdsUnique
<1>15. event' \in [deployment : Deployments, keys : SUBSET Keys] /\ BaseKeepsView'
  <2>1. BaseKeepsView'
    BY <1>9 DEF BaseKeepsView
  <2>. QED  BY <1>0, <2>1 DEF TablesInv
<1>16. GraftCopiesHistory'
  <2>. SUFFICES ASSUME ~graft.rewound, NEW b \in 0 .. graft.block
                PROVE  FindMany(rows'[Copy], Keys, b) = graft.view[b]
    BY <1>9 DEF GraftCopiesHistory, FindMany, FindManyQuery, BlockRangeContains
  <2>1. FindMany(rows[Base], Keys, b) = graft.view[b]
    BY <1>0 DEF TablesInv, BaseKeepsView
  <2>2. FindMany(ns, Keys, b) = FindMany(rows[Base], Keys, b)
    BY <1>5, SameView
  <2>. QED  BY <1>7, <2>1, <2>2
<1>. QED  BY <1>10, <1>11, <1>12, <1>13, <1>14, <1>15, <1>16 DEF TablesInv

\* Nothing is stored yet.
LEMMA TablesInvInit == VersionsInit => TablesInv
<1>. SUFFICES ASSUME VersionsInit PROVE TablesInv
  OBVIOUS
<1>1. /\ \A d \in Deployments : rows[d] = {} /\ ptr[d] = 0 /\ count[d] = 0
      /\ rows \in [Deployments -> SUBSET Row] /\ dds = {} /\ parts = {}
      /\ ptr \in [Deployments -> Blocks] /\ count \in [Deployments -> Int]
      /\ Base \in Deployments /\ Copy \in Deployments /\ 0 \in Blocks
  BY VersionsAssumption DEF VersionsInit, Deployments, Blocks
<1>2. /\ graft = [state |-> "none", block |-> 0, view |-> <<>>, rewound |-> FALSE, copied |-> 0]
  BY DEF VersionsInit, NoGraft
<1>3. /\ graft.state = "none" /\ graft.block = 0 /\ graft.view = <<>>
      /\ graft.rewound = FALSE /\ graft.copied = 0
  BY <1>2
<1>4. RowsOK
  <2>1. KeysOf({}) = {}
    BY DEF KeysOf
  <2>2. Sound({}, 0)
    BY <2>1, FS_EmptySet DEF Sound, Exclusion
  <2>. QED  BY <1>1, <1>3, <2>2 DEF RowsOK
<1>5. GraftOK
  <2>1. graft = [state |-> graft.state, block |-> graft.block, view |-> graft.view,
                 rewound |-> graft.rewound, copied |-> graft.copied]
    BY <1>2, <1>3
  <2>. QED  BY <1>1, <1>3, <2>1 DEF GraftOK
<1>6. DataSourcesOK /\ DataSourcesRewound
  BY <1>1 DEF DataSourcesOK, DataSourcesRewound
<1>7. EntityCountExact
  <2>1. ASSUME NEW d \in Deployments
        PROVE  Cardinality({r \in rows[d] : BlockRangeCurrent(r)}) = 0
    <3>1. {r \in rows[d] : BlockRangeCurrent(r)} = {}
      BY <1>1
    <3>. QED  BY <3>1, FS_EmptySet
  <2>. QED  BY <1>1, <1>3, <2>1 DEF EntityCountExact
<1>8. event \in [deployment : Deployments, keys : SUBSET Keys]
  BY <1>1 DEF VersionsInit
<1>9. InterfaceIdsUnique /\ BaseKeepsView /\ GraftCopiesHistory
  BY <1>1, <1>3 DEF InterfaceIdsUnique, BaseKeepsView, GraftCopiesHistory
<1>. QED  BY <1>4, <1>5, <1>6, <1>7, <1>8, <1>9 DEF TablesInv

\* Every transaction preserves the invariant.
LEMMA TablesInvStep == TablesInv /\ [VersionsNext]_versionVars => TablesInv'
<1>. SUFFICES ASSUME TablesInv, [VersionsNext]_versionVars PROVE TablesInv'
  OBVIOUS
<1>1. CASE VersionsNext
  BY <1>1, TransactStep, RevertStep, CreateGraftStep, StartGraftStep DEF VersionsNext
<1>2. CASE UNCHANGED versionVars
  <2>1. /\ rows' = rows /\ ptr' = ptr /\ count' = count /\ dds' = dds /\ parts' = parts
        /\ event' = event /\ graft' = graft
    BY <1>2 DEF versionVars
  <2>2. RowsOK' /\ GraftOK' /\ DataSourcesOK' /\ DataSourcesRewound'
    BY <2>1 DEF TablesInv, RowsOK, GraftOK, DataSourcesOK, DataSourcesRewound, Sound, Exclusion, KeysOf
  <2>3. EntityCountExact' /\ InterfaceIdsUnique'
    BY <2>1 DEF TablesInv, EntityCountExact, InterfaceIdsUnique, BlockRangeCurrent, BLOCK_NUMBER_MAX
  <2>4. BaseKeepsView'
    <3>1. graft.state = "Init" /\ ~graft.rewound =>
            /\ ptr'[Base] >= graft.block
            /\ \A b \in 0 .. graft.block : FindMany(rows'[Base], Keys, b) = graft.view[b]
      BY <2>1 DEF TablesInv, BaseKeepsView
    <3>. QED  BY <2>1, <3>1 DEF BaseKeepsView, FindMany, FindManyQuery, BlockRangeContains
  <2>5. GraftCopiesHistory'
    <3>1. graft.state = "Ready" /\ ~graft.rewound =>
            \A b \in 0 .. graft.block : FindMany(rows'[Copy], Keys, b) = graft.view[b]
      BY <2>1 DEF TablesInv, GraftCopiesHistory
    <3>. QED  BY <2>1, <3>1 DEF GraftCopiesHistory, FindMany, FindManyQuery, BlockRangeContains
  <2>. QED  BY <2>1, <2>2, <2>3, <2>4, <2>5 DEF TablesInv
<1>. QED  BY <1>1, <1>2

\* What the runs check follows from the invariant.
LEMMA TablesInvEnough == TablesInv => TablesConsistent
<1>. SUFFICES ASSUME TablesInv PROVE TablesConsistent
  OBVIOUS
<1>1. rows \in [Deployments -> SUBSET Row] /\ VersionsDisjoint
  BY DEF TablesInv, RowsOK, Sound, VersionsDisjoint
<1>2. parts \in SUBSET DataSourceIds
  BY DEF TablesInv, DataSourcesOK, DataSourcesRewound
<1>. QED  BY <1>1, <1>2 DEF TablesInv, TablesConsistent, VersionsTypeOK, RowsOK, GraftOK, DataSourcesOK

\* After every block, every revert and the start of a graft, the tables, the
\* entity count, the data sources and a graft's copy of its base fit together.
THEOREM TablesStayConsistent == VersionsSpec => []TablesConsistent
<1>. QED  BY TablesInvInit, TablesInvStep, TablesInvEnough, PTL DEF VersionsSpec

----------------------------------------------------------------------------
(* Events.                                                                  *)

\* A step that moves the head of a running deployment names what it changed.
LEMMA EventsStep ==
    ASSUME TablesInv, [VersionsNext]_versionVars, NEW d \in Deployments,
           ptr'[d] # ptr[d], Started(d), NEW k \in Keys,
           Find(rows[d], k, BLOCK_NUMBER_MAX) # Find(rows'[d], k, BLOCK_NUMBER_MAX)
    PROVE  event'.deployment = d /\ k \in event'.keys
<1>1. /\ ptr \in [Deployments -> Blocks] /\ rows \in [Deployments -> SUBSET Row]
      /\ \A e \in Deployments : ptr[e] \in Blocks /\ Sound(rows[e], ptr[e])
      /\ MaxBlock \in Nat
  BY VersionsAssumption DEF TablesInv, RowsOK
<1>2. ASSUME NEW e \in Deployments, NEW block \in Blocks, NEW m \in Modifications(e),
             NEW data \in [DOMAIN m -> Data], NEW created, TransactBlock(e, block, m, data, created)
      PROVE  event'.deployment = d /\ k \in event'.keys
  <2>. DEFINE ns == ApplyEntityModifications(e, m, data, block)
  <2>1. /\ block > ptr[e] /\ rows' = [rows EXCEPT ![e] = ns] /\ ptr' = [ptr EXCEPT ![e] = block]
        /\ event' = [deployment |-> e, keys |-> DOMAIN m]
    BY <1>2 DEF TransactBlock
  <2>2. \A l : l \notin DOMAIN m =>
           Find(ns, l, BLOCK_NUMBER_MAX) = Find(rows[e], l, BLOCK_NUMBER_MAX)
    BY <1>1, <2>1, BlockRows
  <2>. HIDE DEF ns
  <2>. QED  BY <1>1, <2>1, <2>2
<1>3. ASSUME NEW e \in Deployments, RevertBlockOperations(e)
      PROVE  event'.deployment = d /\ k \in event'.keys
  <2>. DEFINE rev == RevertBlock(rows[e], ptr[e])
              ns == rev.rows
  <2>1. /\ ptr[e] > 0 /\ rows' = [rows EXCEPT ![e] = ns] /\ ptr' = [ptr EXCEPT ![e] = @ - 1]
        /\ event' = [deployment |-> e, keys |-> rev.removed \cup rev.set]
    BY <1>3 DEF RevertBlockOperations
  <2>2. ptr[e] \in 1 .. (MaxBlock + 1)
    BY <1>1, <2>1 DEF Blocks
  <2>3. \A l : l \notin rev.removed \cup rev.set =>
           Find(ns, l, BLOCK_NUMBER_MAX) = Find(rows[e], l, BLOCK_NUMBER_MAX)
    BY <1>1, <2>2, RevertedRows
  <2>. HIDE DEF ns, rev
  <2>. QED  BY <1>1, <2>1, <2>3
<1>4. ASSUME NEW block \in Blocks, CreateGraft(block)
      PROVE  FALSE
  BY <1>1, <1>4 DEF CreateGraft, Started
<1>5. ASSUME NEW newId \in NewIds, StartSubgraph(newId)
      PROVE  FALSE
  BY <1>5 DEF StartSubgraph
<1>6. ASSUME UNCHANGED versionVars
      PROVE  FALSE
  BY <1>6 DEF versionVars
<1>. QED  BY <1>2, <1>3, <1>4, <1>5, <1>6 DEF VersionsNext

\* The store event of a block or a revert names every entity whose current value
\* the transaction changed, so no subscription misses a change.
THEOREM StoreEventsCoverChanges == VersionsSpec => EventsCoverChanges
<1>1. TablesInv /\ [VersionsNext]_versionVars =>
        [\A d \in Deployments : ptr'[d] # ptr[d] /\ Started(d) /\ Started(d)' =>
           \A k \in Keys :
              Find(rows[d], k, BLOCK_NUMBER_MAX) # Find(rows'[d], k, BLOCK_NUMBER_MAX)
                  => event'.deployment = d /\ k \in event'.keys]_versionVars
  BY EventsStep
<1>. QED  BY <1>1, TablesInvInit, TablesInvStep, PTL DEF VersionsSpec, EventsCoverChanges

----------------------------------------------------------------------------
(* The rows implement the history.                                          *)

\* What rows show, as EntityHistory sees it.
ViewOf(rs) == [b \in Blocks |-> [k \in Keys |-> Find(rs, k, b)]]

\* The refinement mapping, before and after a step.
LEMMA HistoryShown ==
    ASSUME NEW d \in Deployments
    PROVE  HistoryOf(d) = ViewOf(rows[d]) /\ HistoryOf(d)' = ViewOf(rows'[d])
<1>1. HistoryOf(d) = ViewOf(rows[d])
  BY DEF HistoryOf, ViewOf
<1>2. HistoryOf(d)' = ViewOf(rows'[d])
  BY DEF HistoryOf, ViewOf, Find, FindQuery, BlockRangeContains, BLOCK_NUMBER_MAX, Unbounded, Blocks
<1>. QED  BY <1>1, <1>2

\* Rows show the same from the head on.
LEMMA ShownConstant ==
    ASSUME NEW top \in Blocks, NEW rs, Sound(rs, top), NEW c \in top .. MaxBlock
    PROVE  ViewOf(rs)[c] = ViewOf(rs)[top]
<1>1. c \in Blocks /\ c \in Asked /\ c >= top
  BY VersionsAssumption DEF Blocks, Asked
<1>2. \A k \in Keys : Find(rs, k, c) = Find(rs, k, top)
  BY <1>1, ConstantAbove
<1>. QED  BY <1>1, <1>2 DEF ViewOf

\* Rows that give the same answers at a block show the same there.
LEMMA ShownSame ==
    ASSUME NEW c \in Blocks, NEW rs, NEW qs, \A k : Find(rs, k, c) = Find(qs, k, c)
    PROVE  ViewOf(rs)[c] = ViewOf(qs)[c]
  BY DEF ViewOf

\* A block changes what is seen from it on, and from it on nothing changes.
LEMMA BlockHistory ==
    ASSUME TablesInv, NEW d \in Deployments, NEW block \in Blocks, NEW m \in Modifications(d),
           NEW data \in [DOMAIN m -> Data], NEW created, TransactBlock(d, block, m, data, created)
    PROVE  /\ ptr'[d] > ptr[d]
           /\ \A c \in 0 .. (ptr'[d] - 1) : HistoryOf(d)'[c] = HistoryOf(d)[c]
           /\ \A c \in ptr'[d] .. MaxBlock : HistoryOf(d)'[c] = HistoryOf(d)'[ptr'[d]]
           /\ \A e \in Deployments : e # d => rows'[e] = rows[e] /\ ptr'[e] = ptr[e]
<1>. DEFINE ns == ApplyEntityModifications(d, m, data, block)
<1>1. /\ ptr \in [Deployments -> Blocks] /\ rows \in [Deployments -> SUBSET Row]
      /\ ptr[d] \in Blocks /\ Sound(rows[d], ptr[d]) /\ MaxBlock \in Nat
  BY VersionsAssumption DEF TablesInv, RowsOK
<1>2. block > ptr[d] /\ rows' = [rows EXCEPT ![d] = ns] /\ ptr' = [ptr EXCEPT ![d] = block]
  BY DEF TransactBlock
<1>3. /\ Sound(ns, block)
      /\ \A k, b : b \in 0 .. (block - 1) => Find(ns, k, b) = Find(rows[d], k, b)
  BY <1>1, <1>2, BlockRows
<1>. HIDE DEF ns
<1>4. rows'[d] = ns /\ ptr'[d] = block
  BY <1>1, <1>2
<1>5. HistoryOf(d) = ViewOf(rows[d]) /\ HistoryOf(d)' = ViewOf(ns)
  BY <1>4, HistoryShown
<1>6. \A c \in 0 .. (block - 1) : ViewOf(ns)[c] = ViewOf(rows[d])[c]
  <2>1. \A c \in 0 .. (block - 1) : c \in Blocks
    BY <1>1 DEF Blocks
  <2>. QED  BY <1>3, <2>1, ShownSame
<1>7. \A c \in block .. MaxBlock : ViewOf(ns)[c] = ViewOf(ns)[block]
  BY <1>3, ShownConstant
<1>. QED  BY <1>1, <1>2, <1>4, <1>5, <1>6, <1>7

\* A revert leaves what was seen below the head, and from the head on shows what
\* was seen just below it.
LEMMA RevertHistory ==
    ASSUME TablesInv, NEW d \in Deployments, RevertBlockOperations(d)
    PROVE  /\ ptr[d] > 0 /\ ptr'[d] = ptr[d] - 1
           /\ \A c \in 0 .. (ptr[d] - 1) : HistoryOf(d)'[c] = HistoryOf(d)[c]
           /\ \A c \in ptr[d] .. MaxBlock : HistoryOf(d)'[c] = HistoryOf(d)[ptr[d] - 1]
           /\ \A e \in Deployments : e # d => rows'[e] = rows[e] /\ ptr'[e] = ptr[e]
<1>. DEFINE ns == RevertBlock(rows[d], ptr[d]).rows
<1>1. /\ ptr \in [Deployments -> Blocks] /\ rows \in [Deployments -> SUBSET Row]
      /\ ptr[d] \in Blocks /\ Sound(rows[d], ptr[d]) /\ MaxBlock \in Nat
  BY VersionsAssumption DEF TablesInv, RowsOK
<1>2. ptr[d] > 0 /\ rows' = [rows EXCEPT ![d] = ns] /\ ptr' = [ptr EXCEPT ![d] = @ - 1]
  BY DEF RevertBlockOperations
<1>3. ptr[d] \in 1 .. (MaxBlock + 1) /\ ptr[d] - 1 \in Blocks
  BY <1>1, <1>2 DEF Blocks
<1>4. /\ Sound(ns, ptr[d] - 1)
      /\ \A k, b : b \in 0 .. (ptr[d] - 1) => Find(ns, k, b) = Find(rows[d], k, b)
  BY <1>1, <1>3, RevertedRows
<1>. HIDE DEF ns
<1>5. rows'[d] = ns /\ ptr'[d] = ptr[d] - 1
  BY <1>1, <1>2
<1>6. HistoryOf(d) = ViewOf(rows[d]) /\ HistoryOf(d)' = ViewOf(ns)
  BY <1>5, HistoryShown
<1>7. \A c \in 0 .. (ptr[d] - 1) : ViewOf(ns)[c] = ViewOf(rows[d])[c]
  <2>1. \A c \in 0 .. (ptr[d] - 1) : c \in Blocks
    BY <1>1 DEF Blocks
  <2>. QED  BY <1>4, <2>1, ShownSame
<1>8. \A c \in ptr[d] .. MaxBlock : ViewOf(ns)[c] = ViewOf(rows[d])[ptr[d] - 1]
  <2>1. \A c \in ptr[d] .. MaxBlock : c \in (ptr[d] - 1) .. MaxBlock
    BY <1>1, <1>3 DEF Blocks
  <2>2. \A c \in (ptr[d] - 1) .. MaxBlock : ViewOf(ns)[c] = ViewOf(ns)[ptr[d] - 1]
    BY <1>3, <1>4, ShownConstant
  <2>3. ptr[d] - 1 \in 0 .. (ptr[d] - 1)
    BY <1>3 DEF Blocks
  <2>. QED  BY <1>7, <2>1, <2>2, <2>3
<1>. QED  BY <1>1, <1>2, <1>5, <1>6, <1>7, <1>8

\* Nothing is seen before the first block.
LEMMA EmptyHistory ==
    ASSUME NEW d \in Deployments, rows[d] = {}
    PROVE  HistoryOf(d) = [b \in 0 .. MaxBlock |-> [k \in Keys |-> NoEntity]]
<1>1. \A k, b : Find({}, k, b) = NoEntity
  BY DEF Find, FindQuery
<1>. QED  BY <1>1 DEF HistoryOf, Blocks

\* Every step of the tables is a step of the history of the base.
LEMMA BaseStep ==
    ASSUME TablesInv, [VersionsNext]_versionVars
    PROVE  [BaseHistory!HNext]_(BaseHistory!historyVars)
<1>0. Base \in Deployments /\ Copy \in Deployments /\ Base # Copy
      /\ ptr \in [Deployments -> Blocks] /\ rows \in [Deployments -> SUBSET Row]
  BY DEF Deployments, Base, Copy, TablesInv, RowsOK
<1>1. ASSUME rows'[Base] = rows[Base], ptr'[Base] = ptr[Base]
      PROVE  UNCHANGED BaseHistory!historyVars
  <2>1. HistoryOf(Base)' = HistoryOf(Base)
    BY <1>0, <1>1, HistoryShown
  <2>. QED  BY <1>1, <2>1 DEF BaseHistory!historyVars
<1>2. ASSUME NEW d \in Deployments, NEW block \in Blocks, NEW m \in Modifications(d),
             NEW data \in [DOMAIN m -> Data], NEW created, TransactBlock(d, block, m, data, created)
      PROVE  [BaseHistory!HNext]_(BaseHistory!historyVars)
  <2>1. CASE d = Base
    <3>1. /\ ptr'[d] > ptr[d]
          /\ \A c \in 0 .. (ptr'[d] - 1) : HistoryOf(d)'[c] = HistoryOf(d)[c]
          /\ \A c \in ptr'[d] .. MaxBlock : HistoryOf(d)'[c] = HistoryOf(d)'[ptr'[d]]
      BY <1>2, BlockHistory
    <3>2. BaseHistory!HAdd
      BY <2>1, <3>1 DEF BaseHistory!HAdd, BaseHistory!FrozenBelow, BaseHistory!ConstantFrom
    <3>. QED  BY <3>2 DEF BaseHistory!HNext
  <2>2. CASE d # Base
    BY <1>0, <1>1, <1>2, <2>2, BlockHistory
  <2>. QED  BY <2>1, <2>2
<1>3. ASSUME NEW d \in Deployments, RevertBlockOperations(d)
      PROVE  [BaseHistory!HNext]_(BaseHistory!historyVars)
  <2>1. CASE d = Base
    <3>1. /\ ptr[d] > 0 /\ ptr'[d] = ptr[d] - 1
          /\ \A c \in 0 .. (ptr[d] - 1) : HistoryOf(d)'[c] = HistoryOf(d)[c]
          /\ \A c \in ptr[d] .. MaxBlock : HistoryOf(d)'[c] = HistoryOf(d)[ptr[d] - 1]
      BY <1>3, RevertHistory
    <3>2. BaseHistory!HRevert
      BY <2>1, <3>1 DEF BaseHistory!HRevert, BaseHistory!FrozenBelow
    <3>. QED  BY <3>2 DEF BaseHistory!HNext
  <2>2. CASE d # Base
    BY <1>0, <1>1, <1>3, <2>2, RevertHistory
  <2>. QED  BY <2>1, <2>2
<1>4. ASSUME NEW block \in Blocks, CreateGraft(block)
      PROVE  UNCHANGED BaseHistory!historyVars
  <2>1. rows'[Base] = rows[Base] /\ ptr'[Base] = ptr[Base]
    BY <1>0, <1>4 DEF CreateGraft
  <2>. QED  BY <1>1, <2>1
<1>5. ASSUME NEW newId \in NewIds, StartSubgraph(newId)
      PROVE  UNCHANGED BaseHistory!historyVars
  <2>1. rows'[Base] = rows[Base] /\ ptr'[Base] = ptr[Base]
    BY <1>0, <1>5 DEF StartSubgraph
  <2>. QED  BY <1>1, <2>1
<1>6. ASSUME UNCHANGED versionVars
      PROVE  UNCHANGED BaseHistory!historyVars
  BY <1>1, <1>6 DEF versionVars
<1>. QED  BY <1>2, <1>3, <1>4, <1>5, <1>6 DEF VersionsNext

\* Every step of the tables is a step of the history of the graft: its head is
\* placed when it is created, its contents are given when it is started.
LEMMA CopyStep ==
    ASSUME TablesInv, [VersionsNext]_versionVars
    PROVE  [CopyHistory!HNext]_(CopyHistory!historyVars)
<1>0. /\ Base \in Deployments /\ Copy \in Deployments /\ Base # Copy
      /\ ptr \in [Deployments -> Blocks] /\ rows \in [Deployments -> SUBSET Row]
      /\ MaxBlock \in Nat
  BY VersionsAssumption DEF Deployments, Base, Copy, TablesInv, RowsOK
<1>1. ASSUME rows'[Copy] = rows[Copy], ptr'[Copy] = ptr[Copy], graft'.state = graft.state
      PROVE  UNCHANGED CopyHistory!historyVars
  <2>1. HistoryOf(Copy)' = HistoryOf(Copy)
    BY <1>0, <1>1, HistoryShown
  <2>. QED  BY <1>1, <2>1 DEF CopyHistory!historyVars
<1>2. ASSUME NEW d \in Deployments, NEW block \in Blocks, NEW m \in Modifications(d),
             NEW data \in [DOMAIN m -> Data], NEW created, TransactBlock(d, block, m, data, created)
      PROVE  [CopyHistory!HNext]_(CopyHistory!historyVars)
  <2>0. graft' = graft /\ Started(d)
    BY <1>2 DEF TransactBlock
  <2>1. CASE d = Copy
    <3>1. /\ ptr'[d] > ptr[d]
          /\ \A c \in 0 .. (ptr'[d] - 1) : HistoryOf(d)'[c] = HistoryOf(d)[c]
          /\ \A c \in ptr'[d] .. MaxBlock : HistoryOf(d)'[c] = HistoryOf(d)'[ptr'[d]]
      BY <1>2, BlockHistory
    <3>2. graft.state = "Ready"
      BY <2>0, <2>1 DEF Started
    <3>3. CopyHistory!HAdd
      BY <2>0, <2>1, <3>1, <3>2 DEF CopyHistory!HAdd, CopyHistory!FrozenBelow, CopyHistory!ConstantFrom
    <3>. QED  BY <3>3 DEF CopyHistory!HNext
  <2>2. CASE d # Copy
    BY <1>0, <1>1, <1>2, <2>0, <2>2, BlockHistory
  <2>. QED  BY <2>1, <2>2
<1>3. ASSUME NEW d \in Deployments, RevertBlockOperations(d)
      PROVE  [CopyHistory!HNext]_(CopyHistory!historyVars)
  <2>0. graft'.state = graft.state /\ Started(d)
    <3>. DEFINE now == graft.rewound \/ (d = Base /\ graft.state = "Init" /\ ptr[d] <= graft.block)
    <3>1. graft' = [graft EXCEPT !.rewound = now] /\ Started(d)
      BY <1>3 DEF RevertBlockOperations
    <3>2. graft = [state |-> graft.state, block |-> graft.block, view |-> graft.view,
                   rewound |-> graft.rewound, copied |-> graft.copied]
      BY DEF TablesInv, GraftOK
    <3>. HIDE DEF now
    <3>. QED  BY <3>1, <3>2
  <2>1. CASE d = Copy
    <3>1. /\ ptr[d] > 0 /\ ptr'[d] = ptr[d] - 1
          /\ \A c \in 0 .. (ptr[d] - 1) : HistoryOf(d)'[c] = HistoryOf(d)[c]
          /\ \A c \in ptr[d] .. MaxBlock : HistoryOf(d)'[c] = HistoryOf(d)[ptr[d] - 1]
      BY <1>3, RevertHistory
    <3>2. graft.state = "Ready"
      BY <2>0, <2>1 DEF Started
    <3>3. CopyHistory!HRevert
      BY <2>0, <2>1, <3>1, <3>2 DEF CopyHistory!HRevert, CopyHistory!FrozenBelow
    <3>. QED  BY <3>3 DEF CopyHistory!HNext
  <2>2. CASE d # Copy
    BY <1>0, <1>1, <1>3, <2>0, <2>2, RevertHistory
  <2>. QED  BY <2>1, <2>2
<1>4. ASSUME NEW block \in Blocks, CreateGraft(block)
      PROVE  CopyHistory!HPlace
  <2>1. /\ graft.state = "none" /\ graft'.state = "Init"
        /\ ptr'[Copy] = block /\ rows'[Copy] = rows[Copy]
    BY <1>0, <1>4 DEF CreateGraft, NoGraft
  <2>2. ptr[Copy] = 0 /\ block >= 0
    BY <1>0, <2>1 DEF TablesInv, GraftOK, Blocks
  <2>3. HistoryOf(Copy)' = HistoryOf(Copy)
    BY <1>0, <2>1, HistoryShown
  <2>. QED  BY <2>1, <2>2, <2>3 DEF CopyHistory!HPlace
<1>5. ASSUME NEW newId \in NewIds, StartSubgraph(newId)
      PROVE  CopyHistory!HSeed
  <2>1. TablesInv'
    BY <1>5, StartGraftStep
  <2>2. ptr'[Copy] = ptr[Copy] /\ ptr[Copy] \in Blocks /\ Sound(rows'[Copy], ptr[Copy])
    <3>1. ptr' = ptr
      BY <1>5 DEF StartSubgraph
    <3>2. Sound(rows[Copy], ptr[Copy])'
      BY <1>0, <2>1 DEF TablesInv, RowsOK
    <3>. QED  BY <1>0, <3>1, <3>2 DEF Sound, Exclusion, KeysOf
  <2>3. \A c \in ptr[Copy] .. MaxBlock : HistoryOf(Copy)'[c] = HistoryOf(Copy)'[ptr[Copy]]
    <3>1. \A c \in ptr[Copy] .. MaxBlock : ViewOf(rows'[Copy])[c] = ViewOf(rows'[Copy])[ptr[Copy]]
      BY <2>2, ShownConstant
    <3>2. HistoryOf(Copy)' = ViewOf(rows'[Copy])
      BY <1>0, HistoryShown
    <3>. QED  BY <3>1, <3>2
  <2>4. graft.state = "Init" /\ graft'.state = "Ready"
    <3>1. graft.state = "Init" /\ \E n : graft' = [graft EXCEPT !.state = "Ready", !.copied = n]
      BY <1>5 DEF StartSubgraph
    <3>2. graft = [state |-> graft.state, block |-> graft.block, view |-> graft.view,
                   rewound |-> graft.rewound, copied |-> graft.copied]
      BY DEF TablesInv, GraftOK
    <3>. QED  BY <3>1, <3>2
  <2>. QED  BY <2>2, <2>3, <2>4 DEF CopyHistory!HSeed, CopyHistory!ConstantFrom
<1>6. ASSUME UNCHANGED versionVars
      PROVE  UNCHANGED CopyHistory!historyVars
  BY <1>1, <1>6 DEF versionVars
<1>. QED  BY <1>2, <1>3, <1>4, <1>5, <1>6 DEF VersionsNext, CopyHistory!HNext

\* The rows with block ranges implement the plain history of what each deployment
\* showed at every block: for one that starts empty and for one that is grafted.
THEOREM RowsImplementHistory == VersionsSpec => TablesImplementHistory
<1>1. VersionsInit => BaseHistory!HInit /\ CopyHistory!HInit
  <2>. SUFFICES ASSUME VersionsInit PROVE BaseHistory!HInit /\ CopyHistory!HInit
    OBVIOUS
  <2>1. Base \in Deployments /\ Copy \in Deployments
    BY DEF Deployments
  <2>2. \A d \in Deployments : rows[d] = {} /\ ptr[d] = 0
    BY DEF VersionsInit
  <2>3. \A d \in Deployments : HistoryOf(d) = [b \in 0 .. MaxBlock |-> [k \in Keys |-> NoEntity]]
    BY <2>2, EmptyHistory
  <2>. QED  BY <2>1, <2>2, <2>3 DEF BaseHistory!HInit, CopyHistory!HInit
<1>2. TablesInv /\ [VersionsNext]_versionVars => [BaseHistory!HNext]_(BaseHistory!historyVars)
  BY BaseStep
<1>3. TablesInv /\ [VersionsNext]_versionVars => [CopyHistory!HNext]_(CopyHistory!historyVars)
  BY CopyStep
<1>. QED  BY <1>1, <1>2, <1>3, TablesInvInit, TablesInvStep, PTL DEF VersionsSpec,
     TablesImplementHistory, BaseImplementsHistory, CopyImplementsHistory,
     BaseHistory!HSpec, CopyHistory!HSpec

-----------------------------------------------------------------------------
(* Entities as the cache keeps them, and changes as the updates keep them:   *)
(* functions on some of the fields.                                         *)

AllFields == Fields \cup {TypenameField}

OnSome(D, V) == UNION {[fs -> V] : fs \in SUBSET D}

\* Cached entities may have a __typename and have no nulls; the updates may
\* have nulls, and a __typename only to take it out.
Cacheable == OnSome(AllFields, Values \cup {"type"})
Updating == {u \in OnSome(AllFields, Values \cup {Null}) :
                TypenameField \in DOMAIN u => u[TypenameField] = Null}

LEMMA OnSomeMeaning ==
    ASSUME NEW D, NEW V
    PROVE  \A e : e \in OnSome(D, V) <=>
              e = [f \in DOMAIN e |-> e[f]] /\ DOMAIN e \subseteq D
              /\ \A f \in DOMAIN e : e[f] \in V
  <1>1. ASSUME NEW e, e \in OnSome(D, V)
        PROVE  /\ e = [f \in DOMAIN e |-> e[f]]
               /\ DOMAIN e \subseteq D
               /\ \A f \in DOMAIN e : e[f] \in V
    <2>1. PICK fs \in SUBSET D : e \in [fs -> V]
      BY <1>1 DEF OnSome
    <2> QED
      BY <2>1
  <1>2. ASSUME NEW e, e = [f \in DOMAIN e |-> e[f]], DOMAIN e \subseteq D,
               \A f \in DOMAIN e : e[f] \in V
        PROVE  e \in OnSome(D, V)
    <2>1. e \in [DOMAIN e -> V]
      BY <1>2
    <2> QED
      BY <1>2, <2>1 DEF OnSome
  <1> QED
    BY <1>1, <1>2

LEMMA CacheableMeaning ==
    ASSUME NEW e
    PROVE  e \in Cacheable <=>
              e = [f \in DOMAIN e |-> e[f]] /\ DOMAIN e \subseteq AllFields
              /\ \A f \in DOMAIN e : e[f] \in Values \cup {"type"}
  BY OnSomeMeaning DEF Cacheable

LEMMA UpdatingMeaning ==
    ASSUME NEW u
    PROVE  u \in Updating <=>
              /\ u = [f \in DOMAIN u |-> u[f]]
              /\ DOMAIN u \subseteq AllFields
              /\ \A f \in DOMAIN u : u[f] \in Values \cup {Null}
              /\ TypenameField \in DOMAIN u => u[TypenameField] = Null
  BY OnSomeMeaning DEF Updating

LEMMA EntityMeaning ==
    ASSUME NEW e
    PROVE  e \in Entities <=>
              e = [f \in DOMAIN e |-> e[f]] /\ DOMAIN e \subseteq Fields
              /\ \A f \in DOMAIN e : e[f] \in Values
  <1>1. Entities = OnSome(Fields, Values)
    BY DEF Entities, OnSome
  <1> QED
    BY <1>1, OnSomeMeaning

LEMMA ChangeMeaning ==
    ASSUME NEW c \in Changes
    PROVE  /\ c = [f \in DOMAIN c |-> c[f]]
           /\ DOMAIN c \subseteq Fields
           /\ \A f \in DOMAIN c : c[f] \in Values \cup {Null}
  <1>1. c \in OnSome(Fields, Values \cup {Null})
    BY DEF Changes, OnSome
  <1> QED
    BY <1>1, OnSomeMeaning

\* None of them is None.
LEMMA NoneIsAbsent ==
    ASSUME NEW e \in Cacheable \cup Updating \cup Entities \cup Changes
    PROVE  e # Absent
  <1>1. /\ DOMAIN e \in SUBSET AllFields
        /\ e \in [DOMAIN e -> Values \cup {Null, "type"}]
    <2>1. CASE e \in Cacheable
      BY <2>1, CacheableMeaning
    <2>2. CASE e \in Updating
      BY <2>2, UpdatingMeaning
    <2>3. CASE e \in Entities
      BY <2>3, EntityMeaning DEF AllFields
    <2>4. CASE e \in Changes
      BY <2>4, ChangeMeaning DEF AllFields
    <2> QED
      BY <2>1, <2>2, <2>3, <2>4
  <1> QED
    BY <1>1, CacheAssumption DEF AllFields

LEMMA EntityIsCacheable == Entities \subseteq Cacheable
  BY EntityMeaning, CacheableMeaning DEF AllFields

LEMMA ChangeIsUpdating == Changes \subseteq Updating
  <1> SUFFICES ASSUME NEW c \in Changes
               PROVE  c \in Updating
    OBVIOUS
  <1>1. TypenameField \notin DOMAIN c
    BY ChangeMeaning, CacheAssumption
  <1> QED
    BY <1>1, ChangeMeaning, UpdatingMeaning DEF AllFields

LEMMA NoFields == <<>> \in Entities /\ DOMAIN <<>> = {}
  <1>1. <<>> \in [{} -> Values]
    OBVIOUS
  <1> QED
    BY <1>1 DEF Entities

-----------------------------------------------------------------------------
(* Merging and showing.                                                     *)

NotNull(u) == {f \in DOMAIN u : u[f] # Null}

LEMMA MergedFields ==
    ASSUME NEW e, NEW u
    PROVE  /\ DOMAIN MergeRemoveNullFields(e, u) = (DOMAIN e \ DOMAIN u) \cup NotNull(u)
           /\ \A f \in DOMAIN e \ DOMAIN u : MergeRemoveNullFields(e, u)[f] = e[f]
           /\ \A f \in NotNull(u) : MergeRemoveNullFields(e, u)[f] = u[f]
  BY DEF MergeRemoveNullFields, Merge, Restrict, NotNull

LEMMA ShownFields ==
    ASSUME NEW e, e # Absent
    PROVE  /\ DOMAIN Shown(e) = NotNull(e) \ {TypenameField}
           /\ \A f \in NotNull(e) \ {TypenameField} : Shown(e)[f] = e[f]
           /\ Shown(e) = [f \in NotNull(e) \ {TypenameField} |-> e[f]]
  <1>1. Shown(e) = [f \in NotNull(e) \ {TypenameField} |-> e[f]]
    BY DEF Shown, Restrict, NotNull
  <1> QED
    BY <1>1

LEMMA AllNotNull ==
    ASSUME NEW e \in Cacheable
    PROVE  NotNull(e) = DOMAIN e
  BY CacheableMeaning, CacheAssumption DEF NotNull

LEMMA ShownEntity ==
    ASSUME NEW e \in Entities
    PROVE  Shown(e) = e
  <1>1. NotNull(e) = DOMAIN e
    BY EntityIsCacheable, AllNotNull
  <1>2. TypenameField \notin DOMAIN e
    BY EntityMeaning, CacheAssumption
  <1>3. NotNull(e) \ {TypenameField} = DOMAIN e
    BY <1>1, <1>2
  <1>4. Shown(e) = [f \in DOMAIN e |-> e[f]]
    BY <1>3, ShownFields, NoneIsAbsent
  <1> QED
    BY <1>4, EntityMeaning

\* What shows of a cached entity is what the store would hold of it.
LEMMA ShownCached ==
    ASSUME NEW e \in Cacheable
    PROVE  /\ Shown(e) = WithoutTypename(e)
           /\ DOMAIN Shown(e) = DOMAIN e \ {TypenameField}
           /\ \A f \in DOMAIN e \ {TypenameField} : Shown(e)[f] = e[f]
           /\ Shown(e) # Absent
  <1>1. NotNull(e) = DOMAIN e
    BY AllNotNull
  <1>2. e # Absent
    BY NoneIsAbsent
  <1>3. Shown(e) = [f \in DOMAIN e \ {TypenameField} |-> e[f]]
    BY <1>1, <1>2, ShownFields
  <1>4. Shown(e) \in Cacheable
    BY <1>3, CacheableMeaning
  <1> QED
    BY <1>3, <1>4, NoneIsAbsent DEF WithoutTypename, Restrict

LEMMA MergeCacheable ==
    ASSUME NEW e \in Cacheable, NEW u \in Updating
    PROVE  MergeRemoveNullFields(e, u) \in Cacheable
  <1> DEFINE m == MergeRemoveNullFields(e, u)
  <1>0. /\ DOMAIN m = (DOMAIN e \ DOMAIN u) \cup NotNull(u)
        /\ \A f \in DOMAIN e \ DOMAIN u : m[f] = e[f]
        /\ \A f \in NotNull(u) : m[f] = u[f]
    BY DEF MergeRemoveNullFields, Merge, Restrict, NotNull
  <1>1. m = [f \in DOMAIN m |-> m[f]]
    BY DEF MergeRemoveNullFields, Restrict
  <1> HIDE DEF m
  <1>2. DOMAIN m \subseteq AllFields
    BY <1>0, CacheableMeaning, UpdatingMeaning DEF NotNull
  <1>3. \A f \in DOMAIN m : m[f] \in Values \cup {"type"}
    BY <1>0, CacheableMeaning, UpdatingMeaning DEF NotNull
  <1>4. m \in Cacheable
    BY <1>1, <1>2, <1>3, CacheableMeaning
  <1> QED
    BY <1>4 DEF m

LEMMA MergeEntity ==
    ASSUME NEW e \in Entities, NEW c \in Changes
    PROVE  MergeRemoveNullFields(e, c) \in Entities
  <1> DEFINE m == MergeRemoveNullFields(e, c)
  <1>0. /\ DOMAIN m = (DOMAIN e \ DOMAIN c) \cup NotNull(c)
        /\ \A f \in DOMAIN e \ DOMAIN c : m[f] = e[f]
        /\ \A f \in NotNull(c) : m[f] = c[f]
    BY DEF MergeRemoveNullFields, Merge, Restrict, NotNull
  <1>1. m = [f \in DOMAIN m |-> m[f]]
    BY DEF MergeRemoveNullFields, Restrict
  <1> HIDE DEF m
  <1>2. DOMAIN m \subseteq Fields
    BY <1>0, EntityMeaning, ChangeMeaning DEF NotNull
  <1>3. \A f \in DOMAIN m : m[f] \in Values
    BY <1>0, EntityMeaning, ChangeMeaning DEF NotNull
  <1>4. m \in Entities
    BY <1>1, <1>2, <1>3, EntityMeaning
  <1> QED
    BY <1>4 DEF m

LEMMA MergeUpdates ==
    ASSUME NEW u \in Updating, NEW c \in Changes
    PROVE  /\ Merge(u, c) \in Updating
           /\ DOMAIN Merge(u, c) = DOMAIN u \cup DOMAIN c
           /\ \A f \in DOMAIN c : Merge(u, c)[f] = c[f]
           /\ \A f \in DOMAIN u \ DOMAIN c : Merge(u, c)[f] = u[f]
  <1>1. /\ DOMAIN Merge(u, c) = DOMAIN u \cup DOMAIN c
        /\ \A f \in DOMAIN c : Merge(u, c)[f] = c[f]
        /\ \A f \in DOMAIN u \ DOMAIN c : Merge(u, c)[f] = u[f]
        /\ Merge(u, c) = [f \in DOMAIN Merge(u, c) |-> Merge(u, c)[f]]
    BY DEF Merge
  <1>2. TypenameField \notin DOMAIN c
    BY ChangeMeaning, CacheAssumption
  <1>3. Merge(u, c) \in Updating
    BY <1>1, <1>2, UpdatingMeaning, ChangeMeaning DEF AllFields
  <1> QED
    BY <1>1, <1>3

\* An update shows on what shows.
LEMMA ShownMerge ==
    ASSUME NEW e \in Cacheable, NEW u \in Updating
    PROVE  Shown(MergeRemoveNullFields(e, u)) = Shown(MergeRemoveNullFields(Shown(e), u))
  <1> DEFINE m == MergeRemoveNullFields(e, u)
             n == MergeRemoveNullFields(Shown(e), u)
             s == Shown(e)
  <1>0. /\ DOMAIN s = DOMAIN e \ {TypenameField}
        /\ \A f \in DOMAIN e \ {TypenameField} : s[f] = e[f]
        /\ s = [f \in DOMAIN e \ {TypenameField} |-> e[f]]
    BY ShownCached DEF WithoutTypename, Restrict
  <1>6. /\ DOMAIN m = (DOMAIN e \ DOMAIN u) \cup NotNull(u)
        /\ \A f \in DOMAIN e \ DOMAIN u : m[f] = e[f]
        /\ \A f \in NotNull(u) : m[f] = u[f]
    BY DEF MergeRemoveNullFields, Merge, Restrict, NotNull
  <1>7. /\ DOMAIN n = (DOMAIN s \ DOMAIN u) \cup NotNull(u)
        /\ \A f \in DOMAIN s \ DOMAIN u : n[f] = s[f]
        /\ \A f \in NotNull(u) : n[f] = u[f]
    BY DEF MergeRemoveNullFields, Merge, Restrict, NotNull
  <1>1. s \in Cacheable
    <2> HIDE DEF s
    <2> QED
      BY <1>0, CacheableMeaning
  <1>2. m \in Cacheable /\ n \in Cacheable
    BY <1>1, MergeCacheable
  <1> HIDE DEF m, n, s
  <1>3. DOMAIN m \ {TypenameField} = DOMAIN n \ {TypenameField}
    BY <1>0, <1>6, <1>7
  <1>4. \A f \in DOMAIN m \ {TypenameField} : m[f] = n[f]
    BY <1>0, <1>6, <1>7
  <1>5. /\ Shown(m) = [f \in DOMAIN m \ {TypenameField} |-> m[f]]
        /\ Shown(n) = [f \in DOMAIN n \ {TypenameField} |-> n[f]]
    BY <1>2, ShownCached DEF WithoutTypename, Restrict
  <1> QED
    BY <1>3, <1>4, <1>5 DEF m, n, s

\* An update on nothing is what it sets.
LEMMA ShownUpdate ==
    ASSUME NEW u \in Updating
    PROVE  Shown(u) = Shown(MergeRemoveNullFields(<<>>, u))
  <1> DEFINE m == MergeRemoveNullFields(<<>>, u)
  <1>1. m = [f \in NotNull(u) |-> u[f]]
    BY DEF MergeRemoveNullFields, Merge, Restrict, NotNull
  <1>2. m \in Cacheable
    BY NoFields, EntityIsCacheable, MergeCacheable
  <1>3. Shown(m) = [f \in DOMAIN m \ {TypenameField} |-> m[f]]
    BY <1>2, ShownCached DEF WithoutTypename, Restrict
  <1>4. Shown(u) = [f \in NotNull(u) \ {TypenameField} |-> u[f]]
    BY ShownFields, NoneIsAbsent
  <1> HIDE DEF m
  <1>5. Shown(m) = Shown(u)
    BY <1>1, <1>3, <1>4
  <1> QED
    BY <1>5 DEF m

LEMMA ShownMergeEntity ==
    ASSUME NEW e \in Entities, NEW u \in Updating
    PROVE  Shown(MergeRemoveNullFields(e, u)) \in Entities
  <1> DEFINE m == MergeRemoveNullFields(e, u)
             s == Shown(m)
  <1>1. /\ DOMAIN m = (DOMAIN e \ DOMAIN u) \cup NotNull(u)
        /\ \A f \in DOMAIN e \ DOMAIN u : m[f] = e[f]
        /\ \A f \in NotNull(u) : m[f] = u[f]
    BY DEF MergeRemoveNullFields, Merge, Restrict, NotNull
  <1>2. m \in Cacheable
    BY EntityIsCacheable, MergeCacheable
  <1>3. s = [f \in DOMAIN m \ {TypenameField} |-> m[f]]
    BY <1>2, ShownCached DEF WithoutTypename, Restrict
  <1> HIDE DEF m
  <1>4. \A f \in DOMAIN m : f # TypenameField => f \in Fields /\ m[f] \in Values
    BY <1>1, EntityMeaning, UpdatingMeaning DEF NotNull, AllFields
  <1> HIDE DEF s
  <1>5. DOMAIN s \subseteq Fields
    BY <1>3, <1>4
  <1>6. \A f \in DOMAIN s : s[f] \in Values
    BY <1>3, <1>4
  <1>7. s = [f \in DOMAIN s |-> s[f]]
    BY <1>3
  <1>8. s \in Entities
    BY <1>5, <1>6, <1>7, EntityMeaning
  <1> QED
    BY <1>8 DEF s, m

\* A change on top of an update is a change of what the update made.
LEMMA ShownChange ==
    ASSUME NEW e \in Entities, NEW u \in Updating, NEW c \in Changes
    PROVE  /\ Shown(MergeRemoveNullFields(e, Merge(u, c)))
                = MergeRemoveNullFields(Shown(MergeRemoveNullFields(e, u)), c)
           /\ Shown(MergeRemoveNullFields(e, u)) \in Entities
  <1> DEFINE m == MergeRemoveNullFields(e, u)
             v == Merge(u, c)
             n == MergeRemoveNullFields(e, v)
             s == Shown(m)
             r == MergeRemoveNullFields(s, c)
  <1>10. /\ DOMAIN m = (DOMAIN e \ DOMAIN u) \cup NotNull(u)
         /\ \A f \in DOMAIN e \ DOMAIN u : m[f] = e[f]
         /\ \A f \in NotNull(u) : m[f] = u[f]
    BY DEF MergeRemoveNullFields, Merge, Restrict, NotNull
  <1>11. /\ DOMAIN n = (DOMAIN e \ DOMAIN v) \cup NotNull(v)
         /\ \A f \in DOMAIN e \ DOMAIN v : n[f] = e[f]
         /\ \A f \in NotNull(v) : n[f] = v[f]
    BY DEF MergeRemoveNullFields, Merge, Restrict, NotNull
  <1>12. /\ DOMAIN r = (DOMAIN s \ DOMAIN c) \cup NotNull(c)
         /\ \A f \in DOMAIN s \ DOMAIN c : r[f] = s[f]
         /\ \A f \in NotNull(c) : r[f] = c[f]
    BY DEF MergeRemoveNullFields, Merge, Restrict, NotNull
  <1>13. /\ DOMAIN v = DOMAIN u \cup DOMAIN c
         /\ \A f \in DOMAIN c : v[f] = c[f]
         /\ \A f \in DOMAIN u \ DOMAIN c : v[f] = u[f]
    BY MergeUpdates
  <1>1. e \in Cacheable /\ v \in Updating
    BY EntityIsCacheable, MergeUpdates
  <1>2. m \in Cacheable /\ n \in Cacheable
    BY <1>1, MergeCacheable
  <1>3. /\ DOMAIN s = DOMAIN m \ {TypenameField}
        /\ \A f \in DOMAIN s : s[f] = m[f]
        /\ s = [f \in DOMAIN m \ {TypenameField} |-> m[f]]
    BY <1>2, ShownCached DEF WithoutTypename, Restrict
  <1>4. s \in Entities
    BY ShownMergeEntity
  <1>7. r = [f \in DOMAIN r |-> r[f]]
    BY DEF MergeRemoveNullFields, Restrict
  <1>8. Shown(n) = [f \in DOMAIN n \ {TypenameField} |-> n[f]]
    BY <1>2, ShownCached DEF WithoutTypename, Restrict
  <1> HIDE DEF m, n, s, r, v
  <1>14. TypenameField \notin DOMAIN c
    BY ChangeMeaning, CacheAssumption
  <1>15. NotNull(v) = NotNull(c) \cup (NotNull(u) \ DOMAIN c)
    BY <1>13 DEF NotNull
  <1>16. NotNull(c) \subseteq DOMAIN c /\ NotNull(u) \subseteq DOMAIN u
    BY DEF NotNull
  <1>5. DOMAIN n \ {TypenameField} = DOMAIN r
    BY <1>3, <1>10, <1>11, <1>12, <1>13, <1>14, <1>15, <1>16
  <1>6. ASSUME NEW f \in DOMAIN r
        PROVE  n[f] = r[f]
    BY <1>3, <1>5, <1>10, <1>11, <1>12, <1>13, <1>14, <1>15, <1>16
  <1>9. Shown(n) = r
    BY <1>5, <1>6, <1>7, <1>8
  <1> QED
    BY <1>4, <1>9 DEF m, n, s, r, v

\* A set after a removal: the fields that were there are unset.
LEMMA ShownReset ==
    ASSUME NEW e \in Entities, NEW old \in SUBSET AllFields, DOMAIN e \subseteq old,
           NEW c \in Changes
    PROVE  /\ Merge([f \in old |-> Null], c) \in Updating
           /\ DOMAIN Merge([f \in old |-> Null], c) = old \cup DOMAIN c
           /\ Shown(MergeRemoveNullFields(e, Merge([f \in old |-> Null], c)))
                = MergeRemoveNullFields(<<>>, c)
  <1> DEFINE z == [f \in old |-> Null]
  <1>1. z \in Updating
    BY UpdatingMeaning
  <1>2. DOMAIN z = old /\ NotNull(z) = {}
    BY DEF NotNull
  <1> HIDE DEF z
  <1>3. Merge(z, c) \in Updating /\ DOMAIN Merge(z, c) = old \cup DOMAIN c
    BY <1>1, <1>2, MergeUpdates
  <1>4. Shown(MergeRemoveNullFields(e, Merge(z, c)))
           = MergeRemoveNullFields(Shown(MergeRemoveNullFields(e, z)), c)
    BY <1>1, ShownChange
  <1>5. MergeRemoveNullFields(e, z) = <<>>
    <2>1. DOMAIN MergeRemoveNullFields(e, z) = {}
      BY <1>2, MergedFields
    <2>2. MergeRemoveNullFields(e, z) = [f \in {} |-> MergeRemoveNullFields(e, z)[f]]
      BY <2>1 DEF MergeRemoveNullFields, Restrict
    <2> QED
      BY <2>2
  <1>6. Shown(<<>>) = <<>>
    BY NoFields, ShownEntity
  <1> QED
    BY <1>3, <1>4, <1>5, <1>6 DEF z

LEMMA TaggedEntity ==
    ASSUME NEW e \in Entities
    PROVE  /\ WithTypename(e) \in Cacheable
           /\ Shown(WithTypename(e)) = e
           /\ DOMAIN WithTypename(e) = DOMAIN e \cup {TypenameField}
           /\ WithTypename(e)[TypenameField] = "type"
  <1> DEFINE t == WithTypename(e)
  <1>1. /\ DOMAIN t = DOMAIN e \cup {TypenameField}
        /\ t = [f \in DOMAIN t |-> t[f]]
        /\ t[TypenameField] = "type"
        /\ \A f \in DOMAIN e : f # TypenameField => t[f] = e[f]
    BY DEF WithTypename
  <1>2. TypenameField \notin DOMAIN e
    BY EntityMeaning, CacheAssumption
  <1> HIDE DEF t
  <1>3. t \in Cacheable
    BY <1>1, <1>2, EntityMeaning, CacheableMeaning DEF AllFields
  <1>4. Shown(t) = [f \in DOMAIN t \ {TypenameField} |-> t[f]]
    BY <1>3, ShownCached DEF WithoutTypename, Restrict
  <1>5. Shown(t) = [f \in DOMAIN e |-> e[f]]
    BY <1>1, <1>2, <1>4
  <1>6. Shown(t) = e
    BY <1>5, EntityMeaning
  <1> QED
    BY <1>1, <1>3, <1>6 DEF t

\* The largest weight of an entry: an entity with all its fields.
TopWeight == Cardinality(Fields) + 2

LEMMA WeighType ==
    ASSUME NEW e \in Cacheable \cup {Absent}
    PROVE  Weigh(e) \in 0..TopWeight
  <1>1. IsFiniteSet(Fields) /\ Cardinality(Fields) \in Nat
    BY CacheAssumption, FS_CardinalityType
  <1>2. /\ IsFiniteSet(AllFields)
        /\ Cardinality(AllFields) = Cardinality(Fields) + 1
    BY <1>1, CacheAssumption, FS_AddElement DEF AllFields
  <1>3. CASE e = Absent
    BY <1>1, <1>3 DEF Weigh, TopWeight
  <1>4. CASE e # Absent
    <2>1. DOMAIN e \subseteq AllFields
      BY <1>4, CacheableMeaning
    <2>2. Cardinality(DOMAIN e) \in Nat /\ Cardinality(DOMAIN e) <= Cardinality(AllFields)
      BY <1>2, <2>1, FS_Subset, FS_CardinalityType
    <2> QED
      BY <1>1, <1>2, <1>4, <2>2 DEF Weigh, TopWeight
  <1> QED
    BY <1>3, <1>4

-----------------------------------------------------------------------------
(* Caches.                                                                  *)

EntryType == [value : Cacheable \cup {Absent}, weight : 0..TopWeight,
              frequency : Nat, stale : BOOLEAN, willStale : BOOLEAN]

\* The queue of a cache, and a cache of what is in the store st.
Queue(es) == DOMAIN es \subseteq EntityKeys /\ es \in [DOMAIN es -> EntryType]

Mirrors(es, st) == \A k \in DOMAIN es : Shown(es[k].value) = st[k]

CacheRecord(c) ==
    /\ c = [entries |-> c.entries, total_weight |-> c.total_weight,
            stale_counter |-> c.stale_counter]
    /\ c.total_weight \in 0..(Word - 1)

SoundCache(c, st) == CacheRecord(c) /\ Queue(c.entries) /\ Mirrors(c.entries, st)

Exact(c) == c.total_weight = WeightOf(c.entries, DOMAIN c.entries)

\* The same entities with the same weights; and a larger cache.
Alike(es, fs) ==
    /\ DOMAIN es = DOMAIN fs
    /\ \A k \in DOMAIN es : es[k].value = fs[k].value /\ es[k].weight = fs[k].weight

Grown(es, fs) ==
    /\ DOMAIN es \subseteq DOMAIN fs
    /\ \A k \in DOMAIN es : fs[k].value = es[k].value

LEMMA WeightSame ==
    ASSUME NEW es, NEW fs, NEW S, \A k \in S : es[k].weight = fs[k].weight
    PROVE  WeightOf(es, S) = WeightOf(fs, S)
  <1>1. [k \in S |-> es[k].weight] = [k \in S |-> fs[k].weight]
    OBVIOUS
  <1> QED
    BY <1>1 DEF WeightOf

LEMMA QueueWeights ==
    ASSUME NEW es, Queue(es), NEW S \in SUBSET DOMAIN es, NEW T \in SUBSET S
    PROVE  /\ IsFiniteSet(S)
           /\ WeightOf(es, S) \in 0..(Word - 1)
           /\ WeightOf(es, T) \in 0..(Word - 1)
           /\ WeightOf(es, S) = WeightOf(es, T) + WeightOf(es, S \ T)
  <1>1. ASSUME NEW U \in SUBSET DOMAIN es
        PROVE  /\ IsFiniteSet(U)
               /\ NatOn([k \in U |-> es[k].weight], U)
               /\ WeightOf(es, U) \in 0..(Word - 1)
    <2> DEFINE w == [k \in U |-> es[k].weight]
    <2>1. IsFiniteSet(U) /\ Cardinality(U) <= Cardinality(EntityKeys)
      BY CacheAssumption, FS_Subset DEF Queue
    <2>2. /\ Cardinality(U) \in Nat
          /\ Cardinality(EntityKeys) \in Nat
          /\ TopWeight \in Nat
      BY <2>1, CacheAssumption, FS_CardinalityType DEF TopWeight
    <2>3. \A k \in U : w[k] \in 0..TopWeight
      BY DEF Queue, EntryType
    <2>4. NatOn(w, U)
      BY <2>2, <2>3 DEF NatOn
    <2> HIDE DEF w
    <2>5. SumFunctionOnSet(w, U) <= Cardinality(U) * TopWeight
      BY <2>1, <2>2, <2>3, SumBounded
    <2>6. SumFunctionOnSet(w, U) \in Nat
      BY <2>1, <2>4, SumNat
    <2>7. Cardinality(U) * TopWeight <= Cardinality(EntityKeys) * TopWeight
      <3>1. \A a, b, d \in Nat : a <= b => a * d <= b * d
        OBVIOUS
      <3> QED
        BY <2>1, <2>2, <3>1
    <2>8. Cardinality(EntityKeys) * TopWeight < Word /\ Word \in Nat
      BY CacheAssumption, LfuAssumption DEF TopWeight
    <2>9. Cardinality(U) * TopWeight \in Nat /\ Cardinality(EntityKeys) * TopWeight \in Nat
      <3>1. \A a, b \in Nat : a * b \in Nat
        OBVIOUS
      <3> QED
        BY <2>2, <3>1
    <2>10. SumFunctionOnSet(w, U) \in 0..(Word - 1)
      BY <2>5, <2>6, <2>7, <2>8, <2>9
    <2> QED
      BY <2>1, <2>4, <2>10 DEF w, WeightOf
  <1>2. WeightOf(es, S) = WeightOf(es, T) + WeightOf(es, S \ T)
    <2> DEFINE w == [k \in S |-> es[k].weight]
               v == [k \in T |-> es[k].weight]
               u == [k \in S \ T |-> es[k].weight]
    <2>1. /\ \A k \in T : v[k] = w[k]
          /\ \A k \in S \ T : u[k] = w[k]
      OBVIOUS
    <2>2. NatOn(w, S) /\ NatOn(w, T) /\ NatOn(w, S \ T)
      BY <1>1 DEF NatOn
    <2>3. IsFiniteSet(S) /\ IsFiniteSet(T) /\ IsFiniteSet(S \ T)
      BY <1>1
    <2> HIDE DEF w, v, u
    <2>4. SumFunctionOnSet(w, S) = SumFunctionOnSet(w, T) + SumFunctionOnSet(w, S \ T)
      BY <2>2, <2>3, SumParts
    <2>5. SumFunctionOnSet(v, T) = SumFunctionOnSet(w, T)
      BY <2>1, <2>2, <2>3, SumSame
    <2>6. SumFunctionOnSet(u, S \ T) = SumFunctionOnSet(w, S \ T)
      BY <2>1, <2>2, <2>3, SumSame
    <2> QED
      BY <2>4, <2>5, <2>6 DEF w, v, u, WeightOf
  <1> QED
    BY <1>1, <1>2

LEMMA QueueTotal ==
    ASSUME NEW es, Queue(es)
    PROVE  WeightOf(es, DOMAIN es) \in 0..(Word - 1)
  <1>1. DOMAIN es \in SUBSET DOMAIN es
    OBVIOUS
  <1> QED
    BY <1>1, QueueWeights

LEMMA QueueParts ==
    ASSUME NEW es, Queue(es), NEW T \in SUBSET DOMAIN es
    PROVE  /\ WeightOf(es, DOMAIN es) \in 0..(Word - 1)
           /\ WeightOf(es, T) \in 0..(Word - 1)
           /\ WeightOf(es, DOMAIN es \ T) \in 0..(Word - 1)
           /\ WeightOf(es, DOMAIN es) = WeightOf(es, T) + WeightOf(es, DOMAIN es \ T)
  <1>1. /\ DOMAIN es \in SUBSET DOMAIN es
        /\ DOMAIN es \ T \in SUBSET DOMAIN es
    OBVIOUS
  <1> QED
    BY <1>1, QueueWeights

LEMMA EntryFields ==
    ASSUME NEW e \in EntryType
    PROVE  /\ e.value \in Cacheable \cup {Absent} /\ e.weight \in 0..TopWeight
           /\ e.frequency \in Nat /\ e.stale \in BOOLEAN /\ e.willStale \in BOOLEAN
           /\ e = [value |-> e.value, weight |-> e.weight, frequency |-> e.frequency,
                   stale |-> e.stale, willStale |-> e.willStale]
  BY DEF EntryType

LEMMA AccessedEntry ==
    ASSUME NEW e \in EntryType
    PROVE  /\ Accessed(e) \in EntryType
           /\ Accessed(e).value = e.value
           /\ Accessed(e).weight = e.weight
  <1>1. Bumped(e.frequency) \in Nat
    BY EntryFields DEF Bumped
  <1> QED
    BY <1>1 DEF Accessed, EntryType

LEMMA NewEntryType ==
    ASSUME NEW v \in Cacheable \cup {Absent}
    PROVE  /\ NewEntry(v) \in EntryType
           /\ NewEntry(v).value = v
           /\ NewEntry(v).weight = Weigh(v)
  BY WeighType DEF NewEntry, Entry, EntryType

LEMMA QueueAlike ==
    ASSUME NEW es, NEW fs, NEW st, Alike(es, fs)
    PROVE  /\ WeightOf(es, DOMAIN es) = WeightOf(fs, DOMAIN fs)
           /\ Mirrors(es, st) => Mirrors(fs, st)
           /\ Grown(es, fs)
  BY WeightSame DEF Alike, Mirrors, Grown

LEMMA TouchCache ==
    ASSUME NEW c, NEW st, SoundCache(c, st), NEW key \in DOMAIN c.entries
    PROVE  /\ SoundCache(Touch(c, key), st)
           /\ Alike(c.entries, Touch(c, key).entries)
           /\ Exact(c) => Exact(Touch(c, key))
  <1> DEFINE d == Touch(c, key)
             es == c.entries
             fs == [es EXCEPT ![key] = Accessed(es[key])]
  <1>1. d = [c EXCEPT !.entries = fs]
    BY DEF Touch, ContainsKey
  <1>2. /\ d.entries = fs
        /\ d.total_weight = c.total_weight
        /\ d = [entries |-> fs, total_weight |-> c.total_weight,
                stale_counter |-> c.stale_counter]
    BY <1>1 DEF SoundCache, CacheRecord
  <1>3. es[key] \in EntryType /\ es \in [DOMAIN es -> EntryType] /\ DOMAIN es \subseteq EntityKeys
    BY DEF SoundCache, Queue
  <1>4. Queue(fs) /\ Alike(es, fs)
    BY <1>3, AccessedEntry DEF Queue, Alike
  <1> HIDE DEF d, fs
  <1>5. Mirrors(fs, st) /\ WeightOf(es, DOMAIN es) = WeightOf(fs, DOMAIN fs)
    BY <1>4, QueueAlike DEF SoundCache
  <1>6. CacheRecord(d)
    BY <1>2 DEF SoundCache, CacheRecord
  <1> QED
    BY <1>2, <1>4, <1>5, <1>6 DEF SoundCache, Exact, d

\* Entries that are inserted, for entities that are in the store and not in the
\* cache.
LEMMA InsertAllCache ==
    ASSUME NEW c, NEW st, SoundCache(c, st), NEW new, Queue(new), Mirrors(new, st),
           DOMAIN new \cap DOMAIN c.entries = {}
    PROVE  /\ SoundCache(LfuInsertAll(c, new), st)
           /\ DOMAIN LfuInsertAll(c, new).entries = DOMAIN c.entries \cup DOMAIN new
           /\ \A k \in DOMAIN c.entries : LfuInsertAll(c, new).entries[k] = c.entries[k]
           /\ \A k \in DOMAIN new : LfuInsertAll(c, new).entries[k] = new[k]
           /\ Exact(c) => Exact(LfuInsertAll(c, new))
  <1> DEFINE d == LfuInsertAll(c, new)
             es == c.entries
             fs == [k \in DOMAIN es \cup DOMAIN new |->
                       IF k \in DOMAIN new THEN new[k] ELSE es[k]]
             w == (c.total_weight + WeightOf(new, DOMAIN new)) % Word
  <1>1. d = [[c EXCEPT !.entries = fs] EXCEPT !.total_weight = w]
    BY DEF LfuInsertAll
  <1>2. [c EXCEPT !.entries = fs]
           = [entries |-> fs, total_weight |-> c.total_weight,
              stale_counter |-> c.stale_counter]
    BY DEF SoundCache, CacheRecord
  <1>3. d = [entries |-> fs, total_weight |-> w, stale_counter |-> c.stale_counter]
    <2> HIDE DEF d, fs, w
    <2> QED
      BY <1>1, <1>2
  <1>4. /\ es \in [DOMAIN es -> EntryType] /\ DOMAIN es \subseteq EntityKeys
        /\ new \in [DOMAIN new -> EntryType] /\ DOMAIN new \subseteq EntityKeys
    BY DEF SoundCache, Queue
  <1>5. /\ DOMAIN fs = DOMAIN es \cup DOMAIN new
        /\ \A k \in DOMAIN es : fs[k] = es[k]
        /\ \A k \in DOMAIN new : fs[k] = new[k]
    OBVIOUS
  <1>6. Queue(fs)
    BY <1>4 DEF Queue
  <1> HIDE DEF fs
  <1>7. Mirrors(fs, st)
    BY <1>5 DEF Mirrors, SoundCache
  <1>8. /\ WeightOf(fs, DOMAIN fs) = WeightOf(es, DOMAIN es) + WeightOf(new, DOMAIN new)
        /\ WeightOf(fs, DOMAIN fs) \in 0..(Word - 1)
        /\ WeightOf(new, DOMAIN new) \in Int
    <2>1. /\ WeightOf(fs, DOMAIN fs)
               = WeightOf(fs, DOMAIN es) + WeightOf(fs, DOMAIN fs \ DOMAIN es)
          /\ WeightOf(fs, DOMAIN fs) \in 0..(Word - 1)
      <3>1. DOMAIN es \in SUBSET DOMAIN fs
        BY <1>5
      <3> QED
        BY <1>6, <3>1, QueueParts
    <2>2. DOMAIN fs \ DOMAIN es = DOMAIN new
      BY <1>5
    <2>3. WeightOf(fs, DOMAIN es) = WeightOf(es, DOMAIN es)
      BY <1>5, WeightSame
    <2>4. WeightOf(fs, DOMAIN new) = WeightOf(new, DOMAIN new)
      BY <1>5, WeightSame
    <2>5. WeightOf(new, DOMAIN new) \in Int
      BY QueueTotal
    <2> QED
      BY <2>1, <2>2, <2>3, <2>4, <2>5
  <1>9. w \in 0..(Word - 1)
    BY <1>8, LfuAssumption DEF SoundCache, CacheRecord
  <1>10. Exact(c) => w = WeightOf(fs, DOMAIN fs)
    BY <1>8, LfuAssumption DEF Exact
  <1> HIDE DEF d, w
  <1>11. d.entries = fs /\ d.total_weight = w /\ CacheRecord(d)
    BY <1>3, <1>9 DEF CacheRecord
  <1> QED
    BY <1>5, <1>6, <1>7, <1>10, <1>11 DEF SoundCache, Exact, d

\* Entities that are removed.
LEMMA RemoveAllCache ==
    ASSUME NEW c, NEW st, SoundCache(c, st), NEW keys
    PROVE  /\ SoundCache(LfuRemoveAll(c, keys), st)
           /\ DOMAIN LfuRemoveAll(c, keys).entries = DOMAIN c.entries \ keys
           /\ \A k \in DOMAIN c.entries \ keys :
                 LfuRemoveAll(c, keys).entries[k] = c.entries[k]
           /\ Exact(c) => Exact(LfuRemoveAll(c, keys))
  <1> DEFINE d == LfuRemoveAll(c, keys)
             es == c.entries
             there == keys \cap DOMAIN es
             fs == [k \in DOMAIN es \ keys |-> es[k]]
             w == (c.total_weight - WeightOf(es, there)) % Word
  <1>1. d = [[c EXCEPT !.entries = fs] EXCEPT !.total_weight = w]
    BY DEF LfuRemoveAll, Restrict
  <1>2. [c EXCEPT !.entries = fs]
           = [entries |-> fs, total_weight |-> c.total_weight,
              stale_counter |-> c.stale_counter]
    BY DEF SoundCache, CacheRecord
  <1>3. d = [entries |-> fs, total_weight |-> w, stale_counter |-> c.stale_counter]
    <2> HIDE DEF d, fs, w
    <2> QED
      BY <1>1, <1>2
  <1>4. es \in [DOMAIN es -> EntryType] /\ DOMAIN es \subseteq EntityKeys
    BY DEF SoundCache, Queue
  <1>5. /\ DOMAIN fs = DOMAIN es \ keys
        /\ \A k \in DOMAIN es \ keys : fs[k] = es[k]
    OBVIOUS
  <1>6. Queue(fs)
    BY <1>4 DEF Queue
  <1> HIDE DEF fs
  <1>7. Mirrors(fs, st)
    BY <1>5 DEF Mirrors, SoundCache
  <1>8. /\ WeightOf(es, DOMAIN es) - WeightOf(es, there) = WeightOf(fs, DOMAIN fs)
        /\ WeightOf(fs, DOMAIN fs) \in 0..(Word - 1)
        /\ WeightOf(es, there) \in Int
    <2>1. /\ WeightOf(es, DOMAIN es)
               = WeightOf(es, there) + WeightOf(es, DOMAIN es \ there)
          /\ WeightOf(es, there) \in Int
      <3>1. there \in SUBSET DOMAIN es
        OBVIOUS
      <3>2. Queue(es)
        BY DEF SoundCache
      <3> HIDE DEF there, es
      <3> QED
        BY <3>1, <3>2, QueueParts
    <2>2. DOMAIN es \ there = DOMAIN fs
      BY <1>5
    <2>3. WeightOf(fs, DOMAIN fs) = WeightOf(es, DOMAIN fs)
      BY <1>5, WeightSame
    <2>4. WeightOf(fs, DOMAIN fs) \in 0..(Word - 1)
      BY <1>6, QueueTotal
    <2> QED
      BY <2>1, <2>2, <2>3, <2>4
  <1>9. w \in 0..(Word - 1)
    BY <1>8, LfuAssumption DEF SoundCache, CacheRecord
  <1>10. Exact(c) => w = WeightOf(fs, DOMAIN fs)
    BY <1>8, LfuAssumption DEF Exact
  <1> HIDE DEF d, w
  <1>11. d.entries = fs /\ d.total_weight = w /\ CacheRecord(d)
    BY <1>3, <1>9 DEF CacheRecord
  <1> QED
    BY <1>5, <1>6, <1>7, <1>10, <1>11 DEF SoundCache, Exact, d

Single(key, v) == [k \in {key} |-> NewEntry(v)]

LEMMA InsertOne ==
    ASSUME NEW c, NEW key, ~ContainsKey(c, key), NEW v \in Cacheable \cup {Absent}
    PROVE  LfuInsert(c, key, v, Weigh(v)) = LfuInsertAll(c, Single(key, v))
  <1> DEFINE new == [k \in {key} |-> NewEntry(v)]
             w == [k \in {key} |-> new[k].weight]
             es == [k \in DOMAIN c.entries \cup {key} |->
                       IF k = key THEN Entry(v, Weigh(v), 1) ELSE c.entries[k]]
             fs == [k \in DOMAIN c.entries \cup DOMAIN new |->
                       IF k \in DOMAIN new THEN new[k] ELSE c.entries[k]]
  <1>1. WeightOf(new, DOMAIN new) = Weigh(v)
    <2>1. w[key] = Weigh(v) /\ DOMAIN new = {key}
      BY NewEntryType
    <2>2. Weigh(v) \in Nat
      <3>1. TopWeight \in Nat
        BY CacheAssumption, FS_CardinalityType DEF TopWeight
      <3> QED
        BY <3>1, WeighType
    <2>3. NatOn(w, {key}) /\ IsFiniteSet({key}) /\ {key} \ {key} = {} /\ key \in {key}
      BY <2>1, <2>2, FS_Singleton DEF NatOn
    <2>4. WeightOf(new, DOMAIN new) = SumFunctionOnSet(w, {key})
      BY <2>1 DEF WeightOf
    <2> HIDE DEF w, new
    <2>5. SumFunctionOnSet(w, {key}) = w[key] + SumFunctionOnSet(w, {key} \ {key})
      BY <2>3, SumRemove
    <2>6. SumFunctionOnSet(w, {}) = 0
      BY SumEmpty
    <2> QED
      BY <2>1, <2>2, <2>3, <2>4, <2>5, <2>6
  <1>2. es = fs
    BY DEF NewEntry
  <1>3. LfuInsert(c, key, v, Weigh(v))
           = [c EXCEPT !.entries = es, !.total_weight = (@ + Weigh(v)) % Word]
    BY DEF LfuInsert
  <1>4. LfuInsertAll(c, new)
           = [c EXCEPT !.entries = fs, !.total_weight = (@ + WeightOf(new, DOMAIN new)) % Word]
    BY DEF LfuInsertAll
  <1> HIDE DEF new, w, es, fs
  <1> QED
    BY <1>1, <1>2, <1>3, <1>4 DEF new, Single

\* get_entity: the entity as it is in the store, and a cache that holds it.
LEMMA GetCache ==
    ASSUME NEW c, SoundCache(c, stored), NEW key \in EntityKeys,
           stored \in [EntityKeys -> Entities \cup {Absent}]
    PROVE  /\ SoundCache(GetEntity(c, key).cache, stored)
           /\ Grown(c.entries, GetEntity(c, key).cache.entries)
           /\ key \in DOMAIN GetEntity(c, key).cache.entries
           /\ GetEntity(c, key).cache.entries[key].value = GetEntity(c, key).entity
           /\ GetEntity(c, key).entity \in Cacheable \cup {Absent}
           /\ Shown(GetEntity(c, key).entity) = stored[key]
           /\ Exact(c) => Exact(GetEntity(c, key).cache)
  <1>1. CASE ContainsKey(c, key)
    <2>0. key \in DOMAIN c.entries
      BY <1>1 DEF ContainsKey
    <2>1. /\ GetEntity(c, key).cache = Touch(c, key)
          /\ GetEntity(c, key).entity = c.entries[key].value
      BY <1>1 DEF GetEntity
    <2>2. /\ SoundCache(Touch(c, key), stored)
          /\ Alike(c.entries, Touch(c, key).entries)
          /\ Exact(c) => Exact(Touch(c, key))
      BY <2>0, TouchCache
    <2>3. c.entries[key] \in EntryType
      BY <2>0 DEF SoundCache, Queue
    <2>4. c.entries[key].value \in Cacheable \cup {Absent}
      BY <2>3, EntryFields
    <2>5. Shown(c.entries[key].value) = stored[key]
      BY <2>0 DEF SoundCache, Mirrors
    <2>6. /\ Grown(c.entries, Touch(c, key).entries)
          /\ key \in DOMAIN Touch(c, key).entries
          /\ Touch(c, key).entries[key].value = c.entries[key].value
      BY <2>0, <2>2 DEF Alike, Grown
    <2> QED
      BY <2>1, <2>2, <2>4, <2>5, <2>6
  <1>2. CASE ~ContainsKey(c, key)
    <2> DEFINE v == stored[key]
               new == Single(key, v)
    <2>1. /\ GetEntity(c, key).cache = LfuInsert(c, key, v, Weigh(v))
          /\ GetEntity(c, key).entity = v
      BY <1>2 DEF GetEntity
    <2>2. v \in Cacheable \cup {Absent} /\ Shown(v) = v
      <3>1. v \in Entities \cup {Absent}
        OBVIOUS
      <3>2. CASE v = Absent
        BY <3>2 DEF Shown
      <3>3. CASE v \in Entities
        BY <3>3, EntityIsCacheable, ShownEntity
      <3> QED
        BY <3>1, <3>2, <3>3
    <2> HIDE DEF v
    <2>3. NewEntry(v) \in EntryType /\ NewEntry(v).value = v
      BY <2>2, NewEntryType
    <2>4. /\ DOMAIN new = {key} /\ new[key] = NewEntry(v)
          /\ Queue(new)
      BY <2>3 DEF Queue, Single
    <2>5. Mirrors(new, stored)
      BY <2>2, <2>3, <2>4 DEF Mirrors, v
    <2>6. LfuInsert(c, key, v, Weigh(v)) = LfuInsertAll(c, new)
      BY <1>2, <2>2, InsertOne
    <2>7. DOMAIN new \cap DOMAIN c.entries = {}
      BY <1>2, <2>4 DEF ContainsKey
    <2> HIDE DEF new
    <2>8. /\ SoundCache(LfuInsertAll(c, new), stored)
          /\ DOMAIN LfuInsertAll(c, new).entries = DOMAIN c.entries \cup DOMAIN new
          /\ \A k \in DOMAIN c.entries : LfuInsertAll(c, new).entries[k] = c.entries[k]
          /\ \A k \in DOMAIN new : LfuInsertAll(c, new).entries[k] = new[k]
          /\ Exact(c) => Exact(LfuInsertAll(c, new))
      BY <2>4, <2>5, <2>7, InsertAllCache
    <2>9. Grown(c.entries, LfuInsertAll(c, new).entries)
      BY <2>8 DEF Grown
    <2> QED
      BY <2>1, <2>2, <2>3, <2>4, <2>6, <2>8, <2>9 DEF v
  <1> QED
    BY <1>1, <1>2

\* extend with a cache of the same store.
LEMMA ExtendCache ==
    ASSUME NEW c, NEW o, NEW st, SoundCache(c, st), SoundCache(o, st)
    PROVE  /\ SoundCache(LfuExtend(c, o), st)
           /\ Grown(c.entries, LfuExtend(c, o).entries)
  <1> DEFINE es == c.entries
             ns == o.entries
             At(k) == IF k \in DOMAIN es
                      THEN IF k \in DOMAIN ns
                           THEN [es[k] EXCEPT !.frequency = ns[k].frequency,
                                              !.stale = ns[k].stale]
                           ELSE es[k]
                      ELSE ns[k]
             fs == [k \in DOMAIN es \cup DOMAIN ns |-> At(k)]
             d == LfuExtend(c, o)
  <1>1. d = [c EXCEPT !.entries = fs]
    BY DEF LfuExtend
  <1>2. d = [entries |-> fs, total_weight |-> c.total_weight,
             stale_counter |-> c.stale_counter]
    <2> HIDE DEF fs, d
    <2> QED
      BY <1>1 DEF SoundCache, CacheRecord
  <1>3. /\ \A k \in DOMAIN es : es[k] \in EntryType
        /\ \A k \in DOMAIN ns : ns[k] \in EntryType
        /\ DOMAIN es \subseteq EntityKeys
        /\ DOMAIN ns \subseteq EntityKeys
    BY DEF SoundCache, Queue
  <1>4. ASSUME NEW k \in DOMAIN es \cup DOMAIN ns
        PROVE  /\ At(k) \in EntryType
               /\ k \in DOMAIN es => At(k).value = es[k].value
               /\ k \notin DOMAIN es => At(k).value = ns[k].value
    <2>1. CASE k \in DOMAIN es /\ k \in DOMAIN ns
      <3>1. PICK e \in EntryType, n \in EntryType : e = es[k] /\ n = ns[k]
        BY <1>3, <2>1
      <3>2. n.frequency \in Nat /\ n.stale \in BOOLEAN
        BY EntryFields
      <3>3. [e EXCEPT !.frequency = n.frequency, !.stale = n.stale] \in EntryType
        BY <3>2 DEF EntryType
      <3>4. [e EXCEPT !.frequency = n.frequency, !.stale = n.stale].value = e.value
        BY DEF EntryType
      <3> QED
        BY <2>1, <3>1, <3>3, <3>4
    <2>2. CASE ~(k \in DOMAIN es /\ k \in DOMAIN ns)
      BY <1>3, <2>2
    <2> QED
      BY <2>1, <2>2
  <1> HIDE DEF At
  <1>5. /\ DOMAIN fs = DOMAIN es \cup DOMAIN ns
        /\ \A k \in DOMAIN fs : fs[k] = At(k)
        /\ Queue(fs)
    BY <1>3, <1>4 DEF Queue
  <1> HIDE DEF fs, d
  <1>6. Mirrors(fs, st)
    BY <1>4, <1>5 DEF Mirrors, SoundCache
  <1>7. Grown(es, fs)
    BY <1>4, <1>5 DEF Grown
  <1>8. d.entries = fs /\ CacheRecord(d)
    BY <1>2 DEF SoundCache, CacheRecord
  <1> QED
    BY <1>5, <1>6, <1>7, <1>8 DEF SoundCache, d

-----------------------------------------------------------------------------
(* The updates of a block.                                                  *)

Underlying(e) == IF e = Absent THEN <<>> ELSE e

\* What the updates make of an entity of the store.
Outcome(st, upd, k) ==
    IF k \notin DOMAIN upd THEN st[k]
    ELSE IF upd[k] = Absent THEN Absent
    ELSE Shown(MergeRemoveNullFields(Underlying(st[k]), upd[k]))

TaggedIn(c, k) ==
    /\ k \in DOMAIN c.entries
    /\ c.entries[k].value # Absent
    /\ TypenameField \in DOMAIN c.entries[k].value

\* A change takes a __typename out only of an entity that is cached with one.
UpdatesOK(upd, c) ==
    /\ DOMAIN upd \subseteq EntityKeys
    /\ upd \in [DOMAIN upd -> Updating \cup {Absent}]
    /\ \A k \in DOMAIN upd :
          upd[k] # Absent /\ TypenameField \in DOMAIN upd[k] => TaggedIn(c, k)

LEMMA UpdatesGrown ==
    ASSUME NEW c, NEW d, NEW upd, UpdatesOK(upd, c), Grown(c.entries, d.entries)
    PROVE  UpdatesOK(upd, d)
  BY DEF UpdatesOK, Grown, TaggedIn

LEMMA UnderlyingEntity ==
    ASSUME NEW e \in Entities \cup {Absent}
    PROVE  Underlying(e) \in Entities
  BY NoFields DEF Underlying

\* get gives what the updates make of the entity, from wherever it comes.
LEMMA GetShows ==
    ASSUME NEW c, SoundCache(c, stored), NEW key \in EntityKeys, NEW upd,
           UpdatesOK(upd, c), stored \in [EntityKeys -> Entities \cup {Absent}]
    PROVE  Shown(Get(c, upd, key)) = Outcome(stored, upd, key)
  <1> DEFINE now == GetEntity(c, key).entity
  <1>1. now \in Cacheable \cup {Absent} /\ Shown(now) = stored[key]
    BY GetCache
  <1> HIDE DEF now
  <1>2. CASE key \notin DOMAIN upd
    <2>1. Get(c, upd, key) = now
      BY <1>2 DEF Get, now
    <2> QED
      BY <1>1, <1>2, <2>1 DEF Outcome
  <1>3. CASE key \in DOMAIN upd /\ upd[key] = Absent
    <2>1. Get(c, upd, key) = Absent
      BY <1>3 DEF Get, now
    <2> QED
      BY <1>3, <2>1 DEF Outcome, Shown
  <1>4. CASE key \in DOMAIN upd /\ upd[key] # Absent /\ now = Absent
    <2>1. Get(c, upd, key) = upd[key]
      BY <1>4 DEF Get, now
    <2>2. stored[key] = Absent
      BY <1>1, <1>4 DEF Shown
    <2>3. upd[key] \in Updating
      BY <1>4 DEF UpdatesOK
    <2>4. Outcome(stored, upd, key) = Shown(MergeRemoveNullFields(<<>>, upd[key]))
      BY <1>4, <2>2 DEF Outcome, Underlying
    <2> QED
      BY <2>1, <2>3, <2>4, ShownUpdate
  <1>5. CASE key \in DOMAIN upd /\ upd[key] # Absent /\ now # Absent
    <2>1. Get(c, upd, key) = MergeRemoveNullFields(now, upd[key])
      BY <1>5 DEF Get, now
    <2>2. now \in Cacheable /\ upd[key] \in Updating
      BY <1>1, <1>5 DEF UpdatesOK
    <2>3. stored[key] # Absent
      BY <1>1, <2>2, ShownCached
    <2>4. Outcome(stored, upd, key) = Shown(MergeRemoveNullFields(Shown(now), upd[key]))
      BY <1>1, <1>5, <2>3 DEF Outcome, Underlying
    <2> QED
      BY <2>1, <2>2, <2>4, ShownMerge
  <1> QED
    BY <1>2, <1>3, <1>4, <1>5

LEMMA WithUpdateFields ==
    ASSUME NEW upd, NEW key, NEW u
    PROVE  /\ DOMAIN WithUpdate(upd, key, u) = DOMAIN upd \cup {key}
           /\ WithUpdate(upd, key, u)[key] = u
           /\ \A k \in DOMAIN upd \ {key} : WithUpdate(upd, key, u)[k] = upd[k]
  BY DEF WithUpdate

LEMMA UpdateThere ==
    ASSUME NEW upd, NEW key, NEW u
    PROVE  WithUpdate(upd, key, u) # <<>>
  <1> DEFINE w == WithUpdate(upd, key, u)
  <1>1. /\ DOMAIN w = DOMAIN upd \cup {key}
        /\ w[key] = u
        /\ \A k \in DOMAIN upd \ {key} : w[k] = upd[k]
    BY DEF WithUpdate
  <1>2. DOMAIN w # DOMAIN <<>>
    BY <1>1, NoFields
  <1> HIDE DEF w
  <1>3. w # <<>>
    BY <1>2
  <1> QED
    BY <1>1, <1>3 DEF w

\* A new update of one entity, none of the others.
LEMMA UpdateOne ==
    ASSUME NEW c, NEW upd, UpdatesOK(upd, c), NEW key \in EntityKeys,
           NEW u \in Updating \cup {Absent},
           u # Absent /\ TypenameField \in DOMAIN u => TaggedIn(c, key)
    PROVE  /\ UpdatesOK(WithUpdate(upd, key, u), c)
           /\ \A k \in EntityKeys \ {key} :
                 Outcome(stored, WithUpdate(upd, key, u), k) = Outcome(stored, upd, k)
           /\ Outcome(stored, WithUpdate(upd, key, u), key)
                = IF u = Absent THEN Absent
                  ELSE Shown(MergeRemoveNullFields(Underlying(stored[key]), u))
  <1> DEFINE w == WithUpdate(upd, key, u)
  <1>1. /\ DOMAIN w = DOMAIN upd \cup {key}
        /\ w[key] = u
        /\ \A k \in DOMAIN upd \ {key} : w[k] = upd[k]
        /\ w = [k \in DOMAIN upd \cup {key} |-> w[k]]
    BY DEF WithUpdate
  <1> HIDE DEF w
  <1>2. \A k \in DOMAIN w : w[k] \in Updating \cup {Absent}
    BY <1>1 DEF UpdatesOK
  <1>3. w \in [DOMAIN w -> Updating \cup {Absent}]
    BY <1>1, <1>2
  <1>4. UpdatesOK(w, c)
    BY <1>1, <1>3 DEF UpdatesOK
  <1>5. \A k \in EntityKeys \ {key} : Outcome(stored, w, k) = Outcome(stored, upd, k)
    BY <1>1 DEF Outcome
  <1>6. Outcome(stored, w, key)
           = IF u = Absent THEN Absent
             ELSE Shown(MergeRemoveNullFields(Underlying(stored[key]), u))
    BY <1>1 DEF Outcome
  <1> QED
    BY <1>4, <1>5, <1>6 DEF w

\* set changes what the updates make of the one entity, by the change.
LEMMA SetShows ==
    ASSUME NEW c, SoundCache(c, stored), NEW key \in EntityKeys, NEW upd,
           UpdatesOK(upd, c), stored \in [EntityKeys -> Entities \cup {Absent}],
           NEW change \in Changes, NEW r, r = SetEntity(c, upd, key, change)
    PROVE  /\ SoundCache(r.cache, stored)
           /\ Exact(c) => Exact(r.cache)
           /\ r.updates # <<>>
           /\ UpdatesOK(r.updates, r.cache)
           /\ \A k \in EntityKeys \ {key} :
                 Outcome(stored, r.updates, k) = Outcome(stored, upd, k)
           /\ Outcome(stored, r.updates, key)
                = MergeRemoveNullFields(Underlying(Outcome(stored, upd, key)), change)
           /\ MergeRemoveNullFields(Underlying(Outcome(stored, upd, key)), change) \in Entities
  <1>0. /\ stored[key] \in Entities \cup {Absent}
        /\ Underlying(stored[key]) \in Entities
        /\ change \in Updating /\ change # Absent
        /\ TypenameField \notin DOMAIN change
    BY UnderlyingEntity, ChangeIsUpdating, NoneIsAbsent, ChangeMeaning, CacheAssumption
  <1> DEFINE st == Underlying(stored[key])
  <1>1. CASE key \notin DOMAIN upd
    <2>1. r.cache = c /\ r.updates = WithUpdate(upd, key, change)
      BY <1>1 DEF SetEntity
    <2>2. Outcome(stored, upd, key) = stored[key]
      BY <1>1 DEF Outcome
    <2>3. MergeRemoveNullFields(st, change) \in Entities
      BY <1>0, MergeEntity
    <2>4. Shown(MergeRemoveNullFields(st, change)) = MergeRemoveNullFields(st, change)
      BY <2>3, ShownEntity
    <2>5. /\ UpdatesOK(r.updates, c)
          /\ \A k \in EntityKeys \ {key} :
                Outcome(stored, r.updates, k) = Outcome(stored, upd, k)
          /\ Outcome(stored, r.updates, key) = Shown(MergeRemoveNullFields(st, change))
      BY <1>0, <2>1, UpdateOne
    <2>6. r.updates # <<>>
      BY <2>1, UpdateThere, Zenon
    <2> QED
      BY <2>1, <2>2, <2>3, <2>4, <2>5, <2>6
  <1>2. CASE key \in DOMAIN upd /\ upd[key] # Absent
    <2> DEFINE u == upd[key]
    <2>0. u \in Updating /\ u # Absent
      BY <1>2 DEF UpdatesOK
    <2>1. r.cache = c /\ r.updates = WithUpdate(upd, key, Merge(u, change))
      BY <1>2 DEF SetEntity
    <2>2. Outcome(stored, upd, key) = Shown(MergeRemoveNullFields(st, u))
      BY <1>2 DEF Outcome
    <2>3. /\ Merge(u, change) \in Updating
          /\ DOMAIN Merge(u, change) = DOMAIN u \cup DOMAIN change
      BY <2>0, MergeUpdates
    <2>4. Merge(u, change) # Absent
      BY <2>3, NoneIsAbsent
    <2>5. TypenameField \in DOMAIN Merge(u, change) => TaggedIn(c, key)
      BY <1>0, <1>2, <2>3 DEF UpdatesOK
    <2>6. /\ Shown(MergeRemoveNullFields(st, Merge(u, change)))
               = MergeRemoveNullFields(Shown(MergeRemoveNullFields(st, u)), change)
          /\ Shown(MergeRemoveNullFields(st, u)) \in Entities
      BY <1>0, <2>0, ShownChange
    <2> HIDE DEF u, st
    <2>7. /\ UpdatesOK(r.updates, c)
          /\ \A k \in EntityKeys \ {key} :
                Outcome(stored, r.updates, k) = Outcome(stored, upd, k)
          /\ Outcome(stored, r.updates, key)
                = Shown(MergeRemoveNullFields(st, Merge(u, change)))
      BY <2>1, <2>3, <2>4, <2>5, UpdateOne DEF st
    <2>8. Underlying(Outcome(stored, upd, key)) = Outcome(stored, upd, key)
      BY <2>2, <2>6, NoneIsAbsent DEF Underlying
    <2>9. MergeRemoveNullFields(Outcome(stored, upd, key), change) \in Entities
      BY <2>2, <2>6, MergeEntity
    <2>10. r.updates # <<>>
      BY <2>1, UpdateThere, Zenon
    <2> QED
      BY <2>1, <2>2, <2>6, <2>7, <2>8, <2>9, <2>10
  <1>3. CASE key \in DOMAIN upd /\ upd[key] = Absent
    <2> DEFINE got == GetEntity(c, key)
               old == IF got.entity = Absent THEN {} ELSE DOMAIN got.entity
               u == Merge([f \in old |-> Null], change)
    <2>1. r.cache = got.cache /\ r.updates = WithUpdate(upd, key, u)
      BY <1>3 DEF SetEntity
    <2>2. /\ SoundCache(got.cache, stored)
          /\ Grown(c.entries, got.cache.entries)
          /\ key \in DOMAIN got.cache.entries
          /\ got.cache.entries[key].value = got.entity
          /\ got.entity \in Cacheable \cup {Absent}
          /\ Shown(got.entity) = stored[key]
          /\ Exact(c) => Exact(got.cache)
      BY GetCache
    <2> HIDE DEF got
    <2>3. old \in SUBSET AllFields /\ DOMAIN st \subseteq old
      <3>1. CASE got.entity = Absent
        <4>1. st = <<>>
          BY <2>2, <3>1 DEF Shown, Underlying
        <4> QED
          BY <3>1, <4>1, NoFields
      <3>2. CASE got.entity # Absent
        <4>0. got.entity \in Cacheable
          BY <2>2, <3>2
        <4>1. DOMAIN got.entity \subseteq AllFields
          BY <4>0, CacheableMeaning
        <4>2. /\ DOMAIN stored[key] = DOMAIN got.entity \ {TypenameField}
              /\ stored[key] # Absent
          BY <2>2, <4>0, ShownCached
        <4> QED
          BY <3>2, <4>1, <4>2 DEF Underlying
      <3> QED
        BY <3>1, <3>2
    <2>4. TypenameField \in old => TaggedIn(got.cache, key)
      BY <2>2 DEF TaggedIn
    <2> HIDE DEF old
    <2>5. /\ u \in Updating
          /\ DOMAIN u = old \cup DOMAIN change
          /\ Shown(MergeRemoveNullFields(st, u)) = MergeRemoveNullFields(<<>>, change)
      BY <1>0, <2>3, ShownReset
    <2> HIDE DEF u, st
    <2>6. u # Absent
      BY <2>5, NoneIsAbsent
    <2>7. TypenameField \in DOMAIN u => TaggedIn(got.cache, key)
      BY <1>0, <2>4, <2>5
    <2>8. UpdatesOK(upd, got.cache)
      BY <2>2, UpdatesGrown
    <2>9. /\ UpdatesOK(r.updates, got.cache)
          /\ \A k \in EntityKeys \ {key} :
                Outcome(stored, r.updates, k) = Outcome(stored, upd, k)
          /\ Outcome(stored, r.updates, key) = Shown(MergeRemoveNullFields(st, u))
      BY <2>1, <2>5, <2>6, <2>7, <2>8, UpdateOne DEF st
    <2>10. Underlying(Outcome(stored, upd, key)) = <<>>
      BY <1>3 DEF Outcome, Underlying
    <2>11. MergeRemoveNullFields(<<>>, change) \in Entities
      BY NoFields, MergeEntity
    <2>12. r.updates # <<>>
      BY <2>1, UpdateThere, Zenon
    <2> QED
      BY <2>1, <2>2, <2>5, <2>9, <2>10, <2>11, <2>12
  <1> QED
    BY <1>1, <1>2, <1>3

-----------------------------------------------------------------------------
(* Eviction.                                                                *)

LEMMA AgedEntry ==
    ASSUME NEW e \in EntryType, NEW b \in BOOLEAN
    PROVE  /\ [e EXCEPT !.stale = b, !.willStale = TRUE] \in EntryType
           /\ [e EXCEPT !.stale = b, !.willStale = TRUE].value = e.value
           /\ [e EXCEPT !.stale = b, !.willStale = TRUE].weight = e.weight
  BY DEF EntryType

LEMMA AgedCache ==
    ASSUME NEW c, NEW st, SoundCache(c, st)
    PROVE  /\ SoundCache(Aged(c), st)
           /\ DOMAIN Aged(c).entries = DOMAIN c.entries
           /\ Aged(c).total_weight = c.total_weight
           /\ Exact(c) => Exact(Aged(c))
  <1> DEFINE es == c.entries
             fs == [k \in DOMAIN es |->
                       [es[k] EXCEPT !.stale = es[k].willStale, !.willStale = TRUE]]
             d == Aged(c)
  <1>0. Queue(es) /\ Mirrors(es, st) /\ CacheRecord(c)
    BY DEF SoundCache
  <1>1. CASE c.stale_counter + 1 = StalePeriod
    <2>1. d = [[c EXCEPT !.stale_counter = 0] EXCEPT !.entries = fs]
      BY <1>1 DEF Aged
    <2>2. [c EXCEPT !.stale_counter = 0]
             = [entries |-> es, total_weight |-> c.total_weight, stale_counter |-> 0]
      BY <1>0 DEF CacheRecord
    <2>3. d = [entries |-> fs, total_weight |-> c.total_weight, stale_counter |-> 0]
      <3> HIDE DEF d, fs
      <3> QED
        BY <2>1, <2>2
    <2>4. ASSUME NEW k \in DOMAIN es
          PROVE  /\ fs[k] \in EntryType
                 /\ fs[k].value = es[k].value
                 /\ fs[k].weight = es[k].weight
      <3>1. PICK e \in EntryType : e = es[k]
        BY <1>0 DEF Queue
      <3>2. e.willStale \in BOOLEAN
        BY EntryFields
      <3>3. fs[k] = [e EXCEPT !.stale = e.willStale, !.willStale = TRUE]
        BY <3>1
      <3> QED
        BY <3>1, <3>2, <3>3, AgedEntry, ZenonT(30)
    <2>5. DOMAIN fs = DOMAIN es /\ fs = [k \in DOMAIN es |-> fs[k]]
      OBVIOUS
    <2> HIDE DEF d, fs
    <2>6. Queue(fs) /\ Alike(es, fs)
      BY <1>0, <2>4, <2>5 DEF Queue, Alike
    <2>7. Mirrors(fs, st) /\ WeightOf(es, DOMAIN es) = WeightOf(fs, DOMAIN fs)
      BY <1>0, <2>6, QueueAlike
    <2>8. d.entries = fs /\ d.total_weight = c.total_weight /\ CacheRecord(d)
      BY <1>0, <2>3 DEF CacheRecord
    <2> QED
      BY <2>5, <2>6, <2>7, <2>8 DEF SoundCache, Exact, d
  <1>2. CASE c.stale_counter + 1 # StalePeriod
    <2>1. d = [c EXCEPT !.stale_counter = c.stale_counter + 1]
      BY <1>2 DEF Aged
    <2>2. d = [entries |-> es, total_weight |-> c.total_weight,
               stale_counter |-> c.stale_counter + 1]
      BY <1>0, <2>1 DEF CacheRecord
    <2> HIDE DEF d
    <2>3. d.entries = es /\ d.total_weight = c.total_weight /\ CacheRecord(d)
      BY <1>0, <2>2 DEF CacheRecord
    <2> QED
      BY <1>0, <2>3 DEF SoundCache, Exact, d
  <1> QED
    BY <1>1, <1>2

\* The priority order is total.
LEMMA PriorityOrder ==
    ASSUME NEW e \in EntryType, NEW f \in EntryType, NEW g \in EntryType
    PROVE  /\ PoppedBefore(e, e)
           /\ PoppedBefore(e, f) \/ PoppedBefore(f, e)
           /\ PoppedBefore(e, f) /\ PoppedBefore(f, g) => PoppedBefore(e, g)
  <1>1. /\ e.stale \in BOOLEAN /\ f.stale \in BOOLEAN /\ g.stale \in BOOLEAN
        /\ e.frequency \in Nat /\ f.frequency \in Nat /\ g.frequency \in Nat
    BY EntryFields
  <1> QED
    BY <1>1 DEF PoppedBefore

\* So there is a last one to be popped.
LEMMA PoppedLast ==
    ASSUME NEW es, Queue(es), NEW T \in SUBSET DOMAIN es, T # {}
    PROVE  \E last \in T : \A k \in T : PoppedBefore(es[k], es[last])
  <1>0. /\ IsFiniteSet(T)
        /\ \A k \in T : es[k] \in EntryType
    BY CacheAssumption, FS_Subset DEF Queue
  <1> DEFINE B == {s \in SUBSET T :
                      s # {} /\ \A k \in T : \E l \in s : PoppedBefore(es[k], es[l])}
  <1>1. T \in B
    BY <1>0, PriorityOrder
  <1>2. PICK s \in B : \A x \in s : (s \ {x}) \notin B
    <2>1. B \in SUBSET (SUBSET T) /\ B # {}
      BY <1>1
    <2> HIDE DEF B
    <2> QED
      BY <1>0, <2>1, MinimalSet
  <1>3. PICK last \in s : TRUE
    BY <1>2
  <1>4. ASSUME NEW x \in s, NEW z \in s, x # z, PoppedBefore(es[x], es[z])
        PROVE  FALSE
    <2>1. s \ {x} \in SUBSET T /\ s \ {x} # {} /\ x \in T /\ z \in T
      BY <1>2, <1>4
    <2>2. ASSUME NEW k \in T
          PROVE  \E l \in s \ {x} : PoppedBefore(es[k], es[l])
      <3>1. PICK l \in s : PoppedBefore(es[k], es[l])
        BY <1>2
      <3>2. CASE l = x
        BY <1>0, <1>4, <2>1, <3>1, <3>2, PriorityOrder
      <3>3. CASE l # x
        BY <3>1, <3>3
      <3> QED
        BY <3>2, <3>3
    <2>3. s \ {x} \in B
      BY <2>1, <2>2
    <2> QED
      BY <1>2, <2>3
  <1>5. \A x \in s : x = last
    <2>1. SUFFICES ASSUME NEW x \in s, x # last
                   PROVE  FALSE
      OBVIOUS
    <2>2. x \in T /\ last \in T
      BY <1>2, <1>3
    <2>3. PoppedBefore(es[x], es[last]) \/ PoppedBefore(es[last], es[x])
      BY <1>0, <2>2, PriorityOrder
    <2> QED
      BY <1>3, <1>4, <2>1, <2>3
  <1>6. last \in T /\ \A k \in T : PoppedBefore(es[k], es[last])
    BY <1>2, <1>3, <1>5
  <1> QED
    BY <1>6

\* evict leaves a part of the cache, and when total_weight is exact it does not
\* run out of entries and leaves no more than the limit.
LEMMA EvictCache ==
    ASSUME NEW c, NEW st, SoundCache(c, st), NEW max \in Nat
    PROVE  /\ \A d \in LfuEvict(c, max) :
                 /\ SoundCache(d, st)
                 /\ Exact(c) => Exact(d) /\ WeightOf(d.entries, DOMAIN d.entries) <= max
           /\ Exact(c) => LfuEvict(c, max) # {}
  <1>1. CASE c.total_weight <= max
    <2>1. LfuEvict(c, max) = {c}
      BY <1>1 DEF LfuEvict
    <2> QED
      BY <1>1, <2>1 DEF Exact
  <1>2. CASE ~(c.total_weight <= max)
    <2> DEFINE a == Aged(c)
               es == a.entries
               Enough(gone) == EnoughEvicted(a, gone, max)
               First(gone) == \A k \in gone, l \in DOMAIN es \ gone :
                                 PoppedBefore(es[k], es[l])
               Last(gone) == \E last \in gone :
                                /\ \A k \in gone : PoppedBefore(es[k], es[last])
                                /\ ~Enough(gone \ {last})
               popped == {gone \in SUBSET DOMAIN es :
                             Enough(gone) /\ First(gone) /\ Last(gone)}
    <2>1. LfuEvict(c, max) = {LfuRemoveAll(a, gone) : gone \in popped}
      BY <1>2 DEF LfuEvict
    <2>2. /\ SoundCache(a, st)
          /\ a.total_weight = c.total_weight
          /\ Exact(c) => Exact(a)
      BY AgedCache
    <2> HIDE DEF a
    <2>3. Queue(es) /\ a.total_weight \in 0..(Word - 1)
      BY <2>2 DEF SoundCache, CacheRecord
    <2>4. ASSUME NEW gone \in popped
          PROVE  LET d == LfuRemoveAll(a, gone)
                 IN  /\ SoundCache(d, st)
                     /\ Exact(c) => Exact(d) /\ WeightOf(d.entries, DOMAIN d.entries) <= max
      <3> DEFINE d == LfuRemoveAll(a, gone)
      <3>1. gone \in SUBSET DOMAIN es /\ Enough(gone)
        OBVIOUS
      <3>2. /\ SoundCache(d, st)
            /\ Exact(a) => Exact(d)
        BY <2>2, RemoveAllCache
      <3>3. d.total_weight = (a.total_weight - WeightOf(es, gone)) % Word
        <4>1. gone \cap DOMAIN es = gone
          BY <3>1
        <4>2. a = [entries |-> es, total_weight |-> a.total_weight,
                   stale_counter |-> a.stale_counter]
          BY <2>2 DEF SoundCache, CacheRecord
        <4> QED
          BY <4>1, <4>2 DEF LfuRemoveAll
      <3>4. d.total_weight <= max
        BY <3>1, <3>3 DEF EnoughEvicted
      <3> QED
        BY <2>2, <3>2, <3>4 DEF Exact
    <2>5. ASSUME Exact(c)
          PROVE  popped # {}
      <3> DEFINE B == {gone \in SUBSET DOMAIN es : Enough(gone) /\ First(gone)}
      <3>1. DOMAIN es \in B
        <4>1. a.total_weight - WeightOf(es, DOMAIN es) = 0
          BY <2>2, <2>3, <2>5, QueueTotal DEF Exact
        <4>2. 0 % Word = 0 /\ 0 <= max
          BY LfuAssumption
        <4>3. Enough(DOMAIN es)
          BY <4>1, <4>2 DEF EnoughEvicted
        <4> QED
          BY <4>3
      <3>2. IsFiniteSet(DOMAIN es)
        BY <2>3, CacheAssumption, FS_Subset DEF Queue
      <3>3. PICK T \in B : \A x \in T : (T \ {x}) \notin B
        <4>1. B \in SUBSET (SUBSET DOMAIN es) /\ B # {}
          BY <3>1
        <4> HIDE DEF B
        <4> QED
          BY <3>2, <4>1, MinimalSet
      <3>4. T \in SUBSET DOMAIN es /\ Enough(T) /\ First(T)
        OBVIOUS
      <3>5. T # {}
        <4>1. WeightOf(es, {}) = 0
          BY SumEmpty DEF WeightOf
        <4>2. (a.total_weight - 0) % Word = a.total_weight
          BY <2>3, LfuAssumption
        <4>3. ~Enough({})
          BY <1>2, <2>2, <4>1, <4>2 DEF EnoughEvicted
        <4> QED
          BY <3>4, <4>3
      <3>6. PICK last \in T : \A k \in T : PoppedBefore(es[k], es[last])
        BY <2>3, <3>4, <3>5, PoppedLast
      <3>7. First(T \ {last})
        BY <3>4, <3>6
      <3>8. ~Enough(T \ {last})
        <4>1. T \ {last} \in SUBSET DOMAIN es
          BY <3>4
        <4> HIDE DEF First, Enough
        <4> QED
          BY <3>3, <3>6, <3>7, <4>1
      <3>9. T \in popped
        <4>1. Last(T)
          BY <3>6, <3>8
        <4> HIDE DEF First, Enough, Last
        <4> QED
          BY <3>4, <4>1
      <3> QED
        BY <3>9
    <2> HIDE DEF popped
    <2>6. \A d \in LfuEvict(c, max) :
             /\ SoundCache(d, st)
             /\ Exact(c) => Exact(d) /\ WeightOf(d.entries, DOMAIN d.entries) <= max
      BY <2>1, <2>4
    <2>7. Exact(c) => LfuEvict(c, max) # {}
      BY <2>1, <2>5
    <2> QED
      BY <2>6, <2>7
  <1> QED
    BY <1>1, <1>2

-----------------------------------------------------------------------------
(* The end of a block.                                                      *)

\* What the updates make of an entity, from the entity and its update.
Made(st, u) ==
    IF u = Absent THEN Absent ELSE Shown(MergeRemoveNullFields(Underlying(st), u))

\* The entity as as_modifications finds it in the cache.
Found(c, k) == IF ContainsKey(c, k) THEN c.entries[k].value ELSE Absent

LEMMA OutcomeType ==
    ASSUME NEW c, NEW upd, UpdatesOK(upd, c), NEW k \in EntityKeys,
           NEW st \in [EntityKeys -> Entities \cup {Absent}]
    PROVE  /\ Outcome(st, upd, k) \in Entities \cup {Absent}
           /\ k \in DOMAIN upd => Outcome(st, upd, k) = Made(st[k], upd[k])
  <1>1. Underlying(st[k]) \in Entities
    BY UnderlyingEntity
  <1>2. k \in DOMAIN upd /\ upd[k] # Absent => upd[k] \in Updating
    BY DEF UpdatesOK
  <1> QED
    BY <1>1, <1>2, ShownMergeEntity DEF Outcome, Made

\* An overwrite changes what the store holds, unless it only takes the
\* __typename out.
LEMMA OverwriteChanges ==
    ASSUME NEW now \in Cacheable, NEW u \in Updating,
           TypenameField \notin DOMAIN now \/ TypenameField \notin DOMAIN u,
           Shown(MergeRemoveNullFields(now, u)) = Shown(now)
    PROVE  MergeRemoveNullFields(now, u) = now
  <1> DEFINE m == MergeRemoveNullFields(now, u)
  <1>1. /\ DOMAIN m = (DOMAIN now \ DOMAIN u) \cup NotNull(u)
        /\ \A f \in DOMAIN now \ DOMAIN u : m[f] = now[f]
        /\ \A f \in NotNull(u) : m[f] = u[f]
    BY DEF MergeRemoveNullFields, Merge, Restrict, NotNull
  <1>2. m \in Cacheable
    BY MergeCacheable
  <1> HIDE DEF m
  <1>3. Shown(m) = Shown(now)
    BY DEF m
  <1>4. DOMAIN m \ {TypenameField} = DOMAIN now \ {TypenameField}
    BY <1>2, <1>3, ShownCached
  <1>5. \A f \in DOMAIN m \ {TypenameField} : m[f] = now[f]
    <2>1. /\ \A f \in DOMAIN m \ {TypenameField} : Shown(m)[f] = m[f]
          /\ \A f \in DOMAIN now \ {TypenameField} : Shown(now)[f] = now[f]
      BY <1>2, ShownCached
    <2> QED
      BY <1>3, <1>4, <2>1
  <1>6. TypenameField \notin NotNull(u)
    BY UpdatingMeaning DEF NotNull
  <1>7. TypenameField \in DOMAIN m <=> TypenameField \in DOMAIN now
    BY <1>1, <1>6
  <1>8. TypenameField \in DOMAIN m => m[TypenameField] = now[TypenameField]
    BY <1>1, <1>6
  <1>9. DOMAIN m = DOMAIN now /\ \A f \in DOMAIN m : m[f] = now[f]
    BY <1>4, <1>5, <1>7, <1>8
  <1>10. m = [f \in DOMAIN m |-> m[f]] /\ now = [f \in DOMAIN now |-> now[f]]
    BY <1>2, CacheableMeaning
  <1>11. m = now
    BY <1>9, <1>10
  <1> QED
    BY <1>11 DEF m

LEMMA ModificationMakes ==
    ASSUME NEW now \in Cacheable \cup {Absent}, NEW u \in Updating \cup {Absent},
           NEW st \in Entities \cup {Absent}, Shown(now) = st,
           NEW m, m = Modification(now, u)
    PROVE  /\ m.data \in Cacheable \cup {Absent}
           /\ Shown(m.data) = Made(st, u)
           /\ m.op = "None" => Made(st, u) = st
           /\ m.op # "None" => /\ m.op = "Insert" <=> st = Absent
                               /\ m.op = "Remove" <=> Made(st, u) = Absent
                               /\ now # Absent \/ u # Absent
           /\ /\ m.op # "None"
              /\ \/ now = Absent
                 \/ TypenameField \notin DOMAIN now
                 \/ u = Absent
                 \/ TypenameField \notin DOMAIN u
              => Made(st, u) # st
  <1>0. now # Absent <=> st # Absent
    <2>1. now # Absent => Shown(now) # Absent
      BY ShownCached
    <2> QED
      BY <2>1 DEF Shown
  <1>1. CASE now = Absent /\ u # Absent
    <2> DEFINE data == MergeRemoveNullFields(<<>>, u)
    <2>1. m.op = "Insert" /\ m.data = data
      BY <1>1 DEF Modification
    <2>2. data \in Cacheable
      BY <1>1, NoFields, EntityIsCacheable, MergeCacheable
    <2>3. Made(st, u) = Shown(data)
      BY <1>0, <1>1 DEF Made, Underlying
    <2>4. Shown(data) # Absent
      BY <2>2, ShownCached
    <2> HIDE DEF data
    <2> QED
      BY <1>0, <1>1, <2>1, <2>2, <2>3, <2>4
  <1>2. CASE now # Absent /\ u # Absent
    <2> DEFINE data == MergeRemoveNullFields(now, u)
    <2>0. now \in Cacheable /\ u \in Updating
      BY <1>2
    <2>1. m.op = (IF data = now THEN "None" ELSE "Overwrite") /\ m.data = data
      BY <1>2 DEF Modification
    <2>2. data \in Cacheable
      BY <2>0, MergeCacheable
    <2>3. Made(st, u) = Shown(data)
      <3>1. Made(st, u) = Shown(MergeRemoveNullFields(Shown(now), u))
        BY <1>0, <1>2 DEF Made, Underlying
      <3> QED
        BY <2>0, <3>1, ShownMerge
    <2>4. Shown(data) # Absent
      BY <2>2, ShownCached
    <2>5. (TypenameField \notin DOMAIN now \/ TypenameField \notin DOMAIN u)
             /\ Shown(data) = Shown(now) => data = now
      BY <2>0, OverwriteChanges
    <2> HIDE DEF data
    <2>6. CASE data = now
      <3>1. m.op = "None"
        BY <2>1, <2>6
      <3> QED
        BY <2>1, <2>2, <2>3, <2>6, <3>1
    <2>7. CASE data # now
      <3>1. m.op = "Overwrite"
        BY <2>1, <2>7
      <3>2. /\ m.op # "None" /\ m.op # "Insert" /\ m.op # "Remove"
        BY <3>1
      <3> QED
        BY <1>0, <1>2, <2>1, <2>2, <2>3, <2>4, <2>5, <2>7, <3>2
    <2> QED
      BY <2>6, <2>7
  <1>3. CASE now # Absent /\ u = Absent
    <2>1. m.op = "Remove" /\ m.data = Absent
      BY <1>3 DEF Modification
    <2>2. Made(st, u) = Absent /\ Shown(Absent) = Absent
      BY <1>3 DEF Made, Shown
    <2> QED
      BY <1>0, <1>3, <2>1, <2>2
  <1>4. CASE now = Absent /\ u = Absent
    <2>1. m.op = "None" /\ m.data = Absent
      BY <1>4 DEF Modification
    <2>2. Made(st, u) = Absent /\ Shown(Absent) = Absent
      BY <1>4 DEF Made, Shown
    <2> QED
      BY <1>0, <1>4, <2>1, <2>2
  <1> QED
    BY <1>1, <1>2, <1>3, <1>4

\* get_many: what as_modifications then finds is what the store has.
LEMMA LoadedCache ==
    ASSUME NEW c, SoundCache(c, stored), NEW upd, UpdatesOK(upd, c),
           stored \in [EntityKeys -> Entities \cup {Absent}]
    PROVE  /\ SoundCache(LoadMissing(c, upd), stored)
           /\ Exact(c) => Exact(LoadMissing(c, upd))
           /\ \A k \in DOMAIN upd :
                 /\ Found(LoadMissing(c, upd), k) \in Cacheable \cup {Absent}
                 /\ Shown(Found(LoadMissing(c, upd), k)) = stored[k]
                 /\ k \in DOMAIN c.entries =>
                       Found(LoadMissing(c, upd), k) = c.entries[k].value
  <1> DEFINE missing == {k \in DOMAIN upd : ~ContainsKey(c, k) /\ stored[k] # Absent}
             new == [k \in missing |-> NewEntry(WithTypename(stored[k]))]
             d == LfuInsertAll(c, new)
  <1>1. LoadMissing(c, upd) = d
    BY DEF LoadMissing
  <1>2. DOMAIN new = missing /\ missing \subseteq EntityKeys
    BY DEF UpdatesOK
  <1>3. ASSUME NEW k \in missing
        PROVE  /\ new[k] \in EntryType
               /\ Shown(new[k].value) = stored[k]
               /\ new[k].value \in Cacheable
    <2>1. stored[k] \in Entities
      BY <1>2
    <2>2. WithTypename(stored[k]) \in Cacheable /\ Shown(WithTypename(stored[k])) = stored[k]
      BY <2>1, TaggedEntity
    <2>3. new[k] = NewEntry(WithTypename(stored[k]))
      OBVIOUS
    <2> HIDE DEF new, missing
    <2> QED
      BY <2>2, <2>3, NewEntryType
  <1>4. Queue(new)
    <2>1. new = [k \in missing |-> new[k]]
      OBVIOUS
    <2> HIDE DEF new, missing
    <2> QED
      BY <1>2, <1>3, <2>1 DEF Queue
  <1>5. DOMAIN new \cap DOMAIN c.entries = {}
    BY <1>2 DEF ContainsKey
  <1>6. \A k \in DOMAIN upd : k \in missing \/ k \in DOMAIN c.entries \/ stored[k] = Absent
    BY DEF ContainsKey
  <1> HIDE DEF new, missing
  <1>7. Mirrors(new, stored)
    BY <1>2, <1>3 DEF Mirrors
  <1>8. /\ SoundCache(d, stored)
        /\ DOMAIN d.entries = DOMAIN c.entries \cup DOMAIN new
        /\ \A k \in DOMAIN c.entries : d.entries[k] = c.entries[k]
        /\ \A k \in DOMAIN new : d.entries[k] = new[k]
        /\ Exact(c) => Exact(d)
    BY <1>4, <1>5, <1>7, InsertAllCache
  <1> HIDE DEF d
  <1>9. ASSUME NEW k \in DOMAIN upd
        PROVE  /\ Found(d, k) \in Cacheable \cup {Absent}
               /\ Shown(Found(d, k)) = stored[k]
               /\ k \in DOMAIN c.entries => Found(d, k) = c.entries[k].value
    <2>1. CASE k \in DOMAIN d.entries
      <3>1. Found(d, k) = d.entries[k].value
        BY <2>1 DEF Found, ContainsKey
      <3>2. d.entries[k] \in EntryType /\ Shown(d.entries[k].value) = stored[k]
        BY <1>8, <2>1 DEF SoundCache, Queue, Mirrors
      <3>3. d.entries[k].value \in Cacheable \cup {Absent}
        BY <3>2, EntryFields
      <3> QED
        BY <1>8, <3>1, <3>2, <3>3
    <2>2. CASE k \notin DOMAIN d.entries
      <3>1. Found(d, k) = Absent
        BY <2>2 DEF Found, ContainsKey
      <3>2. stored[k] = Absent /\ k \notin DOMAIN c.entries
        BY <1>2, <1>6, <1>8, <2>2
      <3> QED
        BY <3>1, <3>2 DEF Shown
    <2> QED
      BY <2>1, <2>2
  <1> QED
    BY <1>1, <1>8, <1>9

\* as_modifications and the write: the store has what the updates made of it,
\* the cache what the store has, and only what is needed is written.
LEMMA BlockEnds ==
    ASSUME NEW c, SoundCache(c, stored), NEW upd, UpdatesOK(upd, c),
           stored \in [EntityKeys -> Entities \cup {Absent}],
           NEW r, r = AsModifications(c, upd),
           NEW st, st = ApplyTo(stored, r.modifications)
    PROVE  /\ st \in [EntityKeys -> Entities \cup {Absent}]
           /\ \A k \in EntityKeys : st[k] = Outcome(stored, upd, k)
           /\ SoundCache(r.cache, st)
           /\ Exact(c) => Exact(r.cache)
           /\ DOMAIN r.modifications \subseteq DOMAIN upd
           /\ \A k \in DOMAIN r.modifications :
                 /\ TaggedIn(c, k) \/ st[k] # stored[k]
                 /\ r.modifications[k].op = "Insert" <=> stored[k] = Absent
                 /\ r.modifications[k].op = "Remove" <=> st[k] = Absent
  <1> DEFINE loaded == LoadMissing(c, upd)
             result == [k \in DOMAIN upd |-> Modification(Found(loaded, k), upd[k])]
             needed == {k \in DOMAIN upd : result[k].op # "None"}
             kept == {k \in DOMAIN upd : Found(loaded, k) # Absent \/ upd[k] # Absent}
             new == [k \in kept |-> NewEntry(result[k].data)]
             rest == LfuRemoveAll(loaded, DOMAIN upd)
  <1>1. /\ r.modifications = [k \in needed |-> result[k]]
        /\ r.cache = LfuInsertAll(rest, new)
    BY DEF AsModifications, Found, Restrict
  <1>2. /\ SoundCache(loaded, stored)
        /\ Exact(c) => Exact(loaded)
        /\ \A k \in DOMAIN upd :
              /\ Found(loaded, k) \in Cacheable \cup {Absent}
              /\ Shown(Found(loaded, k)) = stored[k]
              /\ k \in DOMAIN c.entries => Found(loaded, k) = c.entries[k].value
    BY LoadedCache
  <1> HIDE DEF loaded
  <1>3. DOMAIN upd \subseteq EntityKeys /\ \A k \in DOMAIN upd : upd[k] \in Updating \cup {Absent}
    BY DEF UpdatesOK
  <1>4. /\ needed \subseteq DOMAIN upd
        /\ kept \subseteq DOMAIN upd
        /\ \A k \in DOMAIN upd : k \in kept <=> Found(loaded, k) # Absent \/ upd[k] # Absent
        /\ \A k \in DOMAIN upd : k \in needed <=> result[k].op # "None"
        /\ DOMAIN new = kept
        /\ new = [k \in kept |-> new[k]]
        /\ \A k \in kept : new[k] = NewEntry(result[k].data)
    OBVIOUS
  <1>5. /\ DOMAIN r.modifications = needed
        /\ \A k \in needed : r.modifications[k] = result[k]
    <2> HIDE DEF needed, result
    <2> QED
      BY <1>1
  <1>6. \A k \in DOMAIN upd : result[k] = Modification(Found(loaded, k), upd[k])
    OBVIOUS
  <1> HIDE DEF result, needed, kept, new
  <1>7. ASSUME NEW k \in DOMAIN upd
        PROVE  /\ result[k].data \in Cacheable \cup {Absent}
               /\ Shown(result[k].data) = Outcome(stored, upd, k)
               /\ result[k].op = "None" => Outcome(stored, upd, k) = stored[k]
               /\ result[k].op # "None" =>
                     /\ result[k].op = "Insert" <=> stored[k] = Absent
                     /\ result[k].op = "Remove" <=> Outcome(stored, upd, k) = Absent
                     /\ TaggedIn(c, k) \/ Outcome(stored, upd, k) # stored[k]
    <2> DEFINE now == Found(loaded, k)
               u == upd[k]
               s == stored[k]
               m == result[k]
    <2>1. now \in Cacheable \cup {Absent} /\ Shown(now) = s
      BY <1>2
    <2>2. u \in Updating \cup {Absent} /\ s \in Entities \cup {Absent} /\ m = Modification(now, u)
      BY <1>3, <1>6
    <2>3. Outcome(stored, upd, k) = Made(s, u)
      BY <1>3, OutcomeType
    <2>4. u # Absent /\ TypenameField \in DOMAIN u => TaggedIn(c, k)
      BY DEF UpdatesOK
    <2> HIDE DEF now, u, s, m
    <2>5. /\ m.data \in Cacheable \cup {Absent}
          /\ Shown(m.data) = Made(s, u)
          /\ m.op = "None" => Made(s, u) = s
          /\ m.op # "None" => /\ m.op = "Insert" <=> s = Absent
                              /\ m.op = "Remove" <=> Made(s, u) = Absent
                              /\ now # Absent \/ u # Absent
          /\ /\ m.op # "None"
             /\ \/ now = Absent
                \/ TypenameField \notin DOMAIN now
                \/ u = Absent
                \/ TypenameField \notin DOMAIN u
             => Made(s, u) # s
      BY <2>1, <2>2, ModificationMakes
    <2>6. m.op # "None" => TaggedIn(c, k) \/ Made(s, u) # s
      BY <2>4, <2>5
    <2> QED
      BY <2>3, <2>5, <2>6 DEF s, m
  <1>8. ASSUME NEW k \in EntityKeys
        PROVE  st[k] = Outcome(stored, upd, k)
    <2>0. st[k] = IF k \in DOMAIN r.modifications
                  THEN IF r.modifications[k].data = Absent THEN Absent
                       ELSE WithoutTypename(r.modifications[k].data)
                  ELSE stored[k]
      BY DEF ApplyTo
    <2>1. CASE k \in needed
      <3>1. st[k] = IF result[k].data = Absent THEN Absent
                    ELSE WithoutTypename(result[k].data)
        BY <1>5, <2>0, <2>1
      <3>2. st[k] = Shown(result[k].data)
        <4>1. result[k].data \in Cacheable \cup {Absent}
          BY <1>4, <1>7, <2>1
        <4>2. CASE result[k].data = Absent
          BY <3>1, <4>2 DEF Shown
        <4>3. CASE result[k].data # Absent
          BY <3>1, <4>1, <4>3, ShownCached
        <4> QED
          BY <4>2, <4>3
      <3> QED
        BY <1>4, <1>7, <2>1, <3>2
    <2>2. CASE k \notin needed /\ k \in DOMAIN upd
      <3>1. st[k] = stored[k]
        BY <1>5, <2>0, <2>2
      <3> QED
        BY <1>4, <1>7, <2>2, <3>1
    <2>3. CASE k \notin DOMAIN upd
      <3>1. st[k] = stored[k]
        BY <1>4, <1>5, <2>0, <2>3
      <3> QED
        BY <2>3, <3>1 DEF Outcome
    <2> QED
      BY <2>1, <2>2, <2>3
  <1>9. st \in [EntityKeys -> Entities \cup {Absent}]
    <2>1. \A k \in EntityKeys : st[k] \in Entities \cup {Absent}
      BY <1>8, OutcomeType
    <2>2. st = [k \in EntityKeys |-> st[k]]
      BY DEF ApplyTo
    <2> QED
      BY <2>1, <2>2
  <1>10. /\ SoundCache(rest, stored)
         /\ DOMAIN rest.entries = DOMAIN loaded.entries \ DOMAIN upd
         /\ Exact(loaded) => Exact(rest)
    BY <1>2, RemoveAllCache
  <1> HIDE DEF rest
  <1>11. SoundCache(rest, st)
    <2>1. ASSUME NEW k \in DOMAIN rest.entries
          PROVE  Shown(rest.entries[k].value) = st[k]
      <3>1. k \in EntityKeys /\ k \notin DOMAIN upd
        BY <1>10 DEF SoundCache, Queue
      <3>2. Shown(rest.entries[k].value) = stored[k]
        BY <1>10 DEF SoundCache, Mirrors
      <3> QED
        BY <1>8, <3>1, <3>2 DEF Outcome
    <2> QED
      BY <1>10, <2>1 DEF SoundCache, Mirrors
  <1>12. ASSUME NEW k \in kept
         PROVE  new[k] \in EntryType /\ Shown(new[k].value) = st[k]
    <2>1. k \in DOMAIN upd /\ k \in EntityKeys
      BY <1>3, <1>4
    <2>2. result[k].data \in Cacheable \cup {Absent} /\ Shown(result[k].data) = st[k]
      BY <1>7, <1>8, <2>1
    <2>3. new[k] = NewEntry(result[k].data)
      BY <1>4
    <2>4. NewEntry(result[k].data) \in EntryType /\ NewEntry(result[k].data).value = result[k].data
      BY <2>2, NewEntryType
    <2> QED
      BY <2>2, <2>3, <2>4
  <1>13. Queue(new) /\ Mirrors(new, st) /\ DOMAIN new \cap DOMAIN rest.entries = {}
    <2>1. Queue(new)
      BY <1>3, <1>4, <1>12 DEF Queue
    <2>2. Mirrors(new, st)
      BY <1>4, <1>12 DEF Mirrors
    <2>3. DOMAIN new \cap DOMAIN rest.entries = {}
      BY <1>4, <1>10
    <2> QED
      BY <2>1, <2>2, <2>3
  <1>14. /\ SoundCache(LfuInsertAll(rest, new), st)
         /\ Exact(rest) => Exact(LfuInsertAll(rest, new))
    BY <1>11, <1>13, InsertAllCache
  <1>15. ASSUME NEW k \in DOMAIN r.modifications
         PROVE  /\ TaggedIn(c, k) \/ st[k] # stored[k]
                /\ r.modifications[k].op = "Insert" <=> stored[k] = Absent
                /\ r.modifications[k].op = "Remove" <=> st[k] = Absent
    <2>1. k \in DOMAIN upd /\ k \in EntityKeys /\ result[k].op # "None"
          /\ r.modifications[k] = result[k]
      BY <1>3, <1>4, <1>5
    <2>2. st[k] = Outcome(stored, upd, k)
      BY <1>8, <2>1
    <2> QED
      BY <1>7, <2>1, <2>2
  <1> QED
    BY <1>1, <1>2, <1>4, <1>5, <1>8, <1>9, <1>10, <1>14, <1>15

-----------------------------------------------------------------------------
(* The invariant: the cache holds what the store holds, and the updates make *)
(* of it what the handlers have left.                                       *)

CacheInv ==
    /\ stored \in [EntityKeys -> Entities \cup {Absent}]
    /\ SoundCache(current, stored)
    /\ UpdatesOK(updates, current)
    /\ view = [k \in EntityKeys |-> Outcome(stored, updates, k)]
    /\ ops \in 0..MaxOps
    /\ ops = 0 => updates = <<>>
    /\ derived \/ (Exact(current) /\ ~panicked)

LEMMA NewCache ==
    ASSUME NEW st
    PROVE  SoundCache(LfuNew, st) /\ Exact(LfuNew)
  <1>1. /\ LfuNew.entries = <<>> /\ LfuNew.total_weight = 0
        /\ LfuNew = [entries |-> LfuNew.entries, total_weight |-> LfuNew.total_weight,
                     stale_counter |-> LfuNew.stale_counter]
    BY DEF LfuNew
  <1>2. Queue(<<>>)
    BY DEF Queue
  <1>3. Mirrors(<<>>, st)
    BY DEF Mirrors
  <1>4. WeightOf(<<>>, DOMAIN <<>>) = 0
    BY NoFields, SumEmpty DEF WeightOf
  <1>5. CacheRecord(LfuNew)
    BY <1>1, LfuAssumption DEF CacheRecord
  <1> QED
    BY <1>1, <1>2, <1>3, <1>4, <1>5 DEF SoundCache, Exact

LEMMA NoUpdates ==
    ASSUME NEW c, NEW st
    PROVE  /\ UpdatesOK(<<>>, c)
           /\ \A k \in EntityKeys : Outcome(st, <<>>, k) = st[k]
  <1>1. DOMAIN <<>> = {} /\ <<>> \in [{} -> Updating \cup {Absent}]
    OBVIOUS
  <1> QED
    BY <1>1 DEF UpdatesOK, Outcome

LEMMA CacheInvInit == CacheInit => CacheInv
  <1> SUFFICES ASSUME CacheInit
               PROVE  CacheInv
    OBVIOUS
  <1>1. stored \in [EntityKeys -> Entities \cup {Absent}]
    BY DEF CacheInit
  <1>2. SoundCache(current, stored) /\ Exact(current)
    BY NewCache DEF CacheInit
  <1>3. UpdatesOK(updates, current) /\ \A k \in EntityKeys : Outcome(stored, updates, k) = stored[k]
    BY NoUpdates DEF CacheInit
  <1>4. view = [k \in EntityKeys |-> Outcome(stored, updates, k)]
    BY <1>3 DEF CacheInit
  <1>5. ops = 0 /\ updates = <<>> /\ ~panicked
    BY DEF CacheInit
  <1> QED
    BY <1>1, <1>2, <1>3, <1>4, <1>5, CacheAssumption DEF CacheInv

LEMMA GetStep ==
    ASSUME CacheInv, NEW key \in EntityKeys, StoreGet(key)
    PROVE  CacheInv'
  <1>1. /\ stored' = stored /\ updates' = updates /\ view' = view
        /\ derived' = derived /\ panicked' = panicked
        /\ current' = GetEntity(current, key).cache
        /\ ops' = ops + 1 /\ ops < MaxOps
    BY DEF StoreGet, Performs
  <1>2. /\ SoundCache(current', stored)
        /\ Grown(current.entries, current'.entries)
        /\ Exact(current) => Exact(current')
    BY <1>1, GetCache DEF CacheInv
  <1>3. UpdatesOK(updates, current')
    BY <1>2, UpdatesGrown DEF CacheInv
  <1>4. ops' \in 0..MaxOps /\ ops' # 0
    BY <1>1, CacheAssumption DEF CacheInv
  <1> QED
    BY <1>1, <1>2, <1>3, <1>4 DEF CacheInv

LEMMA RemoveStep ==
    ASSUME CacheInv, NEW key \in EntityKeys, StoreRemove(key)
    PROVE  CacheInv'
  <1>1. /\ stored' = stored /\ current' = current
        /\ updates' = WithUpdate(updates, key, Absent)
        /\ view' = [view EXCEPT ![key] = Absent]
        /\ derived' = derived /\ panicked' = panicked
        /\ ops' = ops + 1 /\ ops < MaxOps
    BY DEF StoreRemove, Performs
  <1>2. /\ UpdatesOK(updates', current)
        /\ \A k \in EntityKeys \ {key} :
              Outcome(stored, updates', k) = Outcome(stored, updates, k)
        /\ Outcome(stored, updates', key) = Absent
    BY <1>1, UpdateOne DEF CacheInv
  <1>3. view' = [k \in EntityKeys |-> Outcome(stored, updates', k)]
    BY <1>1, <1>2 DEF CacheInv
  <1>4. ops' \in 0..MaxOps /\ ops' # 0
    BY <1>1, CacheAssumption DEF CacheInv
  <1> QED
    BY <1>1, <1>2, <1>3, <1>4 DEF CacheInv

\* What a set leaves, in the cache of the block or in one extended by ipfs.map.
LEMMA SetLeaves ==
    ASSUME CacheInv, NEW key \in EntityKeys, NEW change \in Changes,
           NEW c, SoundCache(c, stored), Grown(current.entries, c.entries),
           stored' = stored, view' = SetView(key, change),
           NEW r, r = SetEntity(c, updates, key, change),
           current' = r.cache, updates' = r.updates,
           ops' = ops + 1, ops < MaxOps,
           derived' \/ (derived' = derived /\ c = current /\ panicked' = panicked)
    PROVE  CacheInv'
  <1>0. UpdatesOK(updates, c)
    BY UpdatesGrown DEF CacheInv
  <1>1. /\ SoundCache(r.cache, stored)
        /\ Exact(c) => Exact(r.cache)
        /\ UpdatesOK(r.updates, r.cache)
        /\ \A k \in EntityKeys \ {key} :
              Outcome(stored, r.updates, k) = Outcome(stored, updates, k)
        /\ Outcome(stored, r.updates, key)
             = MergeRemoveNullFields(Underlying(Outcome(stored, updates, key)), change)
    <2>1. stored \in [EntityKeys -> Entities \cup {Absent}]
      BY DEF CacheInv
    <2> QED
      BY <1>0, <2>1, SetShows
  <1>2. view' = [k \in EntityKeys |-> Outcome(stored, updates', k)]
    <2>1. view[key] = Outcome(stored, updates, key)
      BY DEF CacheInv
    <2>2. view' = [view EXCEPT ![key] = MergeRemoveNullFields(Underlying(view[key]), change)]
      BY DEF SetView, Underlying
    <2>3. view \in [EntityKeys -> {Outcome(stored, updates, k) : k \in EntityKeys}]
      BY DEF CacheInv
    <2>4. \A k \in EntityKeys \ {key} : view[k] = Outcome(stored, updates, k)
      BY DEF CacheInv
    <2> DEFINE x == MergeRemoveNullFields(Underlying(view[key]), change)
    <2>5. x = Outcome(stored, updates', key)
      BY <1>1, <2>1
    <2>6. \A k \in EntityKeys \ {key} : view[k] = Outcome(stored, updates', k)
      BY <1>1, <2>4
    <2> HIDE DEF x
    <2>7. view' = [k \in EntityKeys |-> IF k = key THEN x ELSE view[k]]
      BY <2>2, <2>3 DEF x
    <2> QED
      BY <2>5, <2>6, <2>7
  <1>3. ops' \in 0..MaxOps /\ ops' # 0
    BY CacheAssumption DEF CacheInv
  <1>4. derived' \/ (Exact(current') /\ ~panicked')
    BY <1>1 DEF CacheInv
  <1> QED
    BY <1>1, <1>2, <1>3, <1>4 DEF CacheInv

LEMMA SetStep ==
    ASSUME CacheInv, NEW key \in EntityKeys, NEW change \in Changes, StoreSet(key, change)
    PROVE  CacheInv'
  <1> DEFINE r == SetEntity(current, updates, key, change)
  <1>1. /\ stored' = stored /\ view' = SetView(key, change)
        /\ current' = r.cache /\ updates' = r.updates
        /\ derived' = derived /\ panicked' = panicked
        /\ ops' = ops + 1 /\ ops < MaxOps
    BY DEF StoreSet, Performs
  <1>2. SoundCache(current, stored) /\ Grown(current.entries, current.entries)
    BY DEF CacheInv, Grown
  <1>3. r = SetEntity(current, updates, key, change)
    OBVIOUS
  <1> HIDE DEF r
  <1> QED
    BY <1>1, <1>2, <1>3, SetLeaves

LEMMA IpfsMapStep ==
    ASSUME CacheInv, NEW key \in EntityKeys, NEW change \in Changes, IpfsMap(key, change)
    PROVE  CacheInv'
  <1> DEFINE other == GetEntity(LfuNew, key).cache
             c == LfuExtend(current, other)
             r == SetEntity(c, updates, key, change)
  <1>1. /\ stored' = stored /\ view' = SetView(key, change)
        /\ current' = r.cache /\ updates' = r.updates
        /\ derived' = TRUE /\ panicked' = panicked
        /\ ops' = ops + 1 /\ ops < MaxOps
    BY DEF IpfsMap, Performs
  <1>2. SoundCache(other, stored)
    BY NewCache, GetCache DEF CacheInv
  <1> HIDE DEF other
  <1>3. SoundCache(c, stored) /\ Grown(current.entries, c.entries)
    BY <1>2, ExtendCache DEF CacheInv
  <1>4. r = SetEntity(c, updates, key, change)
    OBVIOUS
  <1> HIDE DEF c, r
  <1> QED
    BY <1>1, <1>3, <1>4, SetLeaves

\* The end of a block, for the invariant and for what it promises.
LEMMA EndStep ==
    ASSUME CacheInv, EndBlock
    PROVE  /\ CacheInv'
           /\ \A k \in DOMAIN mods' :
                 /\ Tagged(k) \/ stored'[k] # stored[k]
                 /\ mods'[k].op = "Insert" <=> stored[k] = Absent
                 /\ mods'[k].op = "Remove" <=> stored'[k] = Absent
           /\ ~derived' => WeightOf(current'.entries, DOMAIN current'.entries) <= CacheSize
  <1> DEFINE r == AsModifications(current, updates)
  <1>1. /\ mods' = r.modifications
        /\ stored' = ApplyTo(stored, r.modifications)
        /\ updates' = <<>> /\ ops' = 0
        /\ view' = view /\ derived' = derived
        /\ ~panicked
    BY DEF EndBlock
  <1>2. \/ current' \in LfuEvict(r.cache, CacheSize) /\ panicked' = panicked
        \/ LfuEvict(r.cache, CacheSize) = {} /\ current' = LfuNew
    BY DEF EndBlock, Evict
  <1>3. r = AsModifications(current, updates)
    OBVIOUS
  <1> HIDE DEF r
  <1>4. /\ stored' \in [EntityKeys -> Entities \cup {Absent}]
        /\ \A k \in EntityKeys : stored'[k] = Outcome(stored, updates, k)
        /\ SoundCache(r.cache, stored')
        /\ Exact(current) => Exact(r.cache)
        /\ \A k \in DOMAIN r.modifications :
              /\ TaggedIn(current, k) \/ stored'[k] # stored[k]
              /\ r.modifications[k].op = "Insert" <=> stored[k] = Absent
              /\ r.modifications[k].op = "Remove" <=> stored'[k] = Absent
    <2>1. /\ SoundCache(current, stored) /\ UpdatesOK(updates, current)
          /\ stored \in [EntityKeys -> Entities \cup {Absent}]
      BY DEF CacheInv
    <2>2. PICK st : st = stored'
      OBVIOUS
    <2>3. st = ApplyTo(stored, r.modifications)
      BY <1>1, <2>2
    <2>4. /\ st \in [EntityKeys -> Entities \cup {Absent}]
          /\ \A k \in EntityKeys : st[k] = Outcome(stored, updates, k)
          /\ SoundCache(r.cache, st)
          /\ Exact(current) => Exact(r.cache)
          /\ \A k \in DOMAIN r.modifications :
                /\ TaggedIn(current, k) \/ st[k] # stored[k]
                /\ r.modifications[k].op = "Insert" <=> stored[k] = Absent
                /\ r.modifications[k].op = "Remove" <=> st[k] = Absent
      BY <1>3, <2>1, <2>3, BlockEnds
    <2> QED
      BY <2>2, <2>4
  <1>5. /\ \A d \in LfuEvict(r.cache, CacheSize) :
              /\ SoundCache(d, stored')
              /\ Exact(r.cache) =>
                    Exact(d) /\ WeightOf(d.entries, DOMAIN d.entries) <= CacheSize
        /\ Exact(r.cache) => LfuEvict(r.cache, CacheSize) # {}
    BY <1>4, EvictCache, CacheAssumption
  <1>6. SoundCache(current', stored')
    BY <1>2, <1>5, NewCache
  <1>7. ASSUME ~derived'
        PROVE  /\ Exact(current') /\ ~panicked'
               /\ WeightOf(current'.entries, DOMAIN current'.entries) <= CacheSize
    <2>1. Exact(r.cache)
      BY <1>1, <1>4, <1>7 DEF CacheInv
    <2> QED
      BY <1>1, <1>2, <1>5, <2>1
  <1>8. /\ UpdatesOK(updates', current')
        /\ \A k \in EntityKeys : Outcome(stored', updates', k) = stored'[k]
    BY <1>1, NoUpdates
  <1>9. view' = [k \in EntityKeys |-> Outcome(stored', updates', k)]
    BY <1>1, <1>4, <1>8 DEF CacheInv
  <1>10. ops' \in 0..MaxOps /\ updates' = <<>>
    BY <1>1, CacheAssumption
  <1>11. CacheInv'
    BY <1>4, <1>6, <1>7, <1>8, <1>9, <1>10 DEF CacheInv
  <1>12. ASSUME NEW k \in DOMAIN mods'
         PROVE  /\ Tagged(k) \/ stored'[k] # stored[k]
                /\ mods'[k].op = "Insert" <=> stored[k] = Absent
                /\ mods'[k].op = "Remove" <=> stored'[k] = Absent
    BY <1>1, <1>4 DEF Tagged, TaggedIn
  <1> QED
    BY <1>7, <1>11, <1>12

LEMMA RevertCacheStep ==
    ASSUME CacheInv, NEW key \in EntityKeys, NEW entity \in Entities \cup {Absent},
           RevertResetsCache(key, entity)
    PROVE  CacheInv'
  <1>1. /\ stored' = [stored EXCEPT ![key] = entity]
        /\ view' = [view EXCEPT ![key] = entity]
        /\ current' = LfuNew
        /\ updates' = updates /\ ops' = ops /\ panicked' = panicked /\ derived' = derived
        /\ ~panicked /\ ops = 0
    BY DEF RevertResetsCache
  <1>2. updates = <<>> /\ stored \in [EntityKeys -> Entities \cup {Absent}]
    BY <1>1 DEF CacheInv
  <1>3. SoundCache(current', stored') /\ Exact(current')
    BY <1>1, NewCache
  <1>4. stored' \in [EntityKeys -> Entities \cup {Absent}]
    BY <1>1, <1>2
  <1>5. /\ UpdatesOK(updates', current')
        /\ \A k \in EntityKeys : Outcome(stored', updates', k) = stored'[k]
        /\ \A k \in EntityKeys : Outcome(stored, updates, k) = stored[k]
    BY <1>1, <1>2, NoUpdates
  <1>6. view = [k \in EntityKeys |-> stored[k]]
    BY <1>5 DEF CacheInv
  <1>7. view' = [k \in EntityKeys |-> Outcome(stored', updates', k)]
    BY <1>1, <1>2, <1>5, <1>6
  <1>8. ops' \in 0..MaxOps /\ updates' = <<>> /\ ~panicked'
    BY <1>1, <1>2, CacheAssumption
  <1> QED
    BY <1>3, <1>4, <1>5, <1>7, <1>8 DEF CacheInv

LEMMA CacheInvStep == CacheInv /\ [CacheNext]_cacheVars => CacheInv'
  <1> SUFFICES ASSUME CacheInv, [CacheNext]_cacheVars
               PROVE  CacheInv'
    OBVIOUS
  <1>1. CASE \E k \in EntityKeys : StoreGet(k) \/ StoreRemove(k)
    BY <1>1, GetStep, RemoveStep
  <1>2. CASE \E k \in EntityKeys, c \in Changes : StoreSet(k, c) \/ IpfsMap(k, c)
    BY <1>2, SetStep, IpfsMapStep
  <1>3. CASE EndBlock
    BY <1>3, EndStep
  <1>4. CASE \E k \in EntityKeys, e \in Entities \cup {Absent} : RevertResetsCache(k, e)
    BY <1>4, RevertCacheStep
  <1>5. CASE UNCHANGED cacheVars
    BY <1>5 DEF cacheVars, CacheInv, SoundCache, CacheRecord, Queue, Mirrors, UpdatesOK,
                TaggedIn, Outcome, Exact
  <1> QED
    BY <1>1, <1>2, <1>3, <1>4, <1>5 DEF CacheNext

LEMMA CacheInvEnough == CacheInv => EntityCacheConsistent
  <1> SUFFICES ASSUME CacheInv
               PROVE  EntityCacheConsistent
    OBVIOUS
  <1>1. CacheTypeOK
    <2>1. \A k \in DOMAIN updates :
             updates[k] = Absent \/ DOMAIN updates[k] \subseteq Fields \cup {TypenameField}
      BY UpdatingMeaning DEF CacheInv, UpdatesOK, AllFields
    <2> QED
      BY <2>1 DEF CacheTypeOK, CacheInv, SoundCache, Queue, CacheRecord, UpdatesOK
  <1>2. HandlersSeeWrites
    <2>1. ASSUME NEW k \in EntityKeys
          PROVE  Shown(Get(current, updates, k)) = view[k]
      BY GetShows DEF CacheInv
    <2> QED
      BY <2>1 DEF HandlersSeeWrites
  <1>3. StoreHasWrites
    <2>1. SUFFICES ASSUME updates = <<>>
                   PROVE  stored = view
      BY DEF StoreHasWrites
    <2>2. \A k \in EntityKeys : Outcome(stored, updates, k) = stored[k]
      BY <2>1, NoUpdates
    <2> QED
      BY <2>2 DEF CacheInv
  <1>4. CacheMatchesStore
    BY DEF CacheInv, SoundCache, Mirrors, CacheMatchesStore
  <1>5. WeightExactUnlessExtended
    BY DEF CacheInv, Exact, WeightExact, WeightExactUnlessExtended
  <1> QED
    BY <1>1, <1>2, <1>3, <1>4, <1>5 DEF EntityCacheConsistent

\* The entity cache cannot be told from the store, in any block, for any
\* entities, fields and values and any limit of the LFU cache: handlers read what
\* they wrote (EntityCache::get, set), a block leaves that in the store
\* (as_modifications), and total_weight is exact and evict does not panic
\* (LfuCache), as long as ipfs.map has not extended the cache.
THEOREM CacheStaysConsistent == CacheSpec => []EntityCacheConsistent
  <1>1. CacheSpec => []CacheInv
    BY CacheInvInit, CacheInvStep, PTL DEF CacheSpec
  <1> QED
    BY <1>1, CacheInvEnough, PTL

\* Only the end of a block takes the updates away.
LEMMA EndsOnly ==
    ASSUME CacheInv, [CacheNext]_cacheVars, updates # <<>>, updates' = <<>>
    PROVE  EndBlock
  <1>0. /\ SoundCache(current, stored) /\ UpdatesOK(updates, current)
        /\ stored \in [EntityKeys -> Entities \cup {Absent}]
    BY DEF CacheInv
  <1>1. ASSUME NEW k \in EntityKeys, StoreGet(k) \/ StoreRemove(k)
        PROVE  FALSE
    <2>1. updates' = updates \/ updates' = WithUpdate(updates, k, Absent)
      BY <1>1 DEF StoreGet, StoreRemove
    <2>2. WithUpdate(updates, k, Absent) # <<>>
      BY UpdateThere
    <2> QED
      BY <2>1, <2>2
  <1>2. ASSUME NEW k \in EntityKeys, NEW change \in Changes, StoreSet(k, change)
        PROVE  FALSE
    <2>1. PICK r : r = SetEntity(current, updates, k, change)
      OBVIOUS
    <2>2. updates' = r.updates
      BY <1>2, <2>1 DEF StoreSet
    <2>3. r.updates # <<>>
      BY <1>0, <2>1, SetShows
    <2> QED
      BY <2>2, <2>3
  <1>3. ASSUME NEW k \in EntityKeys, NEW change \in Changes, IpfsMap(k, change)
        PROVE  FALSE
    <2>0. PICK c : c = LfuExtend(current, GetEntity(LfuNew, k).cache)
      OBVIOUS
    <2>1. PICK r : r = SetEntity(c, updates, k, change)
      OBVIOUS
    <2>2. updates' = r.updates
      BY <1>3, <2>0, <2>1 DEF IpfsMap
    <2>3. SoundCache(GetEntity(LfuNew, k).cache, stored)
      BY <1>0, NewCache, GetCache
    <2>4. SoundCache(c, stored) /\ Grown(current.entries, c.entries)
      BY <1>0, <2>0, <2>3, ExtendCache
    <2>5. UpdatesOK(updates, c)
      BY <1>0, <2>4, UpdatesGrown
    <2>6. r.updates # <<>>
      BY <1>0, <2>1, <2>4, <2>5, SetShows
    <2> QED
      BY <2>2, <2>6
  <1>4. ASSUME NEW k \in EntityKeys, NEW e \in Entities \cup {Absent},
               RevertResetsCache(k, e)
        PROVE  FALSE
    BY <1>4 DEF RevertResetsCache
  <1>5. ASSUME UNCHANGED cacheVars
        PROVE  FALSE
    BY <1>5 DEF cacheVars
  <1> QED
    BY <1>1, <1>2, <1>3, <1>4, <1>5 DEF CacheNext

\* A block inserts, overwrites and removes exactly what the store needs
\* (as_modifications; an entity cached with a __typename may be written in vain),
\* and leaves a cache within ENTITY_CACHE_SIZE (evict), as long as ipfs.map has
\* not extended it.
THEOREM BlocksAlwaysEndLean == CacheSpec => BlocksEndLean
  <1>1. CacheSpec => []CacheInv
    BY CacheInvInit, CacheInvStep, PTL DEF CacheSpec
  <1>2. CacheInv /\ [CacheNext]_cacheVars =>
          [updates # <<>> /\ updates' = <<>> =>
              \A k \in DOMAIN mods' :
                 /\ Tagged(k) \/ stored'[k] # stored[k]
                 /\ mods'[k].op = "Insert" <=> stored[k] = Absent
                 /\ mods'[k].op = "Remove" <=> stored'[k] = Absent]_cacheVars
    BY EndsOnly, EndStep
  <1>3. CacheInv /\ [CacheNext]_cacheVars =>
          [~derived' /\ updates # <<>> /\ updates' = <<>> =>
              WeightOf(current'.entries, DOMAIN current'.entries) <= CacheSize]_cacheVars
    BY EndsOnly, EndStep
  <1>4. CacheSpec => OnlyNeededModifications
    BY <1>1, <1>2, PTL DEF CacheSpec, OnlyNeededModifications
  <1>5. CacheSpec => EvictedToLimitUnlessExtended
    BY <1>1, <1>3, PTL DEF CacheSpec, EvictedToLimitUnlessExtended
  <1> QED
    BY <1>4, <1>5 DEF BlocksEndLean
=============================================================================
