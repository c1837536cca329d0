----------------------------- MODULE QueryProofs -----------------------------
(***************************************************************************)
(* Proofs about queries: what the prefetcher fetches and what is delivered, *)
(* the load manager, comparison by prefixes, and what filters select.      *)
(***************************************************************************)
EXTENDS QueryExecution, EntityFilters, LoadManager, SumTheorems, SequenceTheorems

-----------------------------------------------------------------------------
(***************************************************************************)
(* QueryExecution.                                                         *)
(***************************************************************************)

\* A row but for the end of its block range, which a later block may set.
Stripped(r) ==
    [type |-> r.type, id |-> r.id, vid |-> r.vid, n |-> r.n, up |-> r.up,
     kids |-> r.kids, from |-> r.from]

Visible(rows, b) == {r \in rows : BlockRangeContains(r, b)}

StrippedRows(rows) == {Stripped(r) : r \in rows}

RowShape(r) ==
    /\ r = [type |-> r.type, id |-> r.id, vid |-> r.vid, n |-> r.n, up |-> r.up,
            kids |-> r.kids, from |-> r.from, to |-> r.to]
    /\ r.id \in Nat /\ r.vid \in Nat /\ r.from \in Nat /\ r.to \in Nat

Reorgs == [count : Nat, current : Nat, max : Nat]

States == [count : Nat, latest : Nat]

\* The rows of the subgraph are those of its block.
StoreInv ==
    /\ IsFiniteSet(db) /\ Unique(db, request.fields)
    /\ \A r \in db : /\ RowShape(r) /\ r.vid < NextVid
                     /\ r.from <= head /\ (r.to <= head \/ r.to = Infinity)
    /\ head \in 0..MaxBlock
    /\ reorgs \in Reorgs
    /\ reorgs.count > 0 => reorgs.max > 0

\* A query holds a number of levels it has fields for, and reverts since its
\* state was read account for all blocks the subgraph has lost.
RequestInv ==
    /\ request.number \in Nat \cup {Null}
    /\ Len(request.fields) \in Nat \ {0}
    /\ \A k \in 1..Len(request.fields) : FieldArguments(request.fields[k])
    /\ phase \in {"new", "locate", "fetch", "done"} \cup Errors
    /\ state \in States /\ block \in 0..MaxBlock
    /\ phase # "new" => /\ state.count <= reorgs.count
                        /\ head + (reorgs.count - state.count) >= state.latest

\* A revert has reached the block of the query: the runner will see it.
BlockReverted ==
    /\ reorgs.count > state.count
    /\ block + (reorgs.count - state.count) > state.latest

\* The subgraph still has the block of the query, with the rows it had.
BlockKept ==
    /\ block <= head
    /\ StrippedRows(Visible(db, block)) = StrippedRows(Visible(start, block))

LEMMA InitialStore ==
    ASSUME QueryInit
    PROVE  StoreInv /\ RequestInv /\ phase = "new" /\ levels = <<>>
  <1>1. PICK w \in Workloads : db = w[1] /\ request = w[2]
    BY DEF QueryInit
  <1>2. /\ IsFiniteSet(db) /\ Unique(db, request.fields) /\ \A r \in db : StoredRow(r)
        /\ request.number \in Nat \cup {Null}
        /\ Len(request.fields) \in Nat \ {0}
        /\ \A k \in 1..Len(request.fields) : FieldArguments(request.fields[k])
    BY <1>1, WorkloadAssumption
  <1>3. /\ head = LatestBlock /\ reorgs = [count |-> 0, current |-> 0, max |-> 0]
        /\ state = [count |-> 0, latest |-> 0] /\ block = 0 /\ phase = "new" /\ levels = <<>>
    BY DEF QueryInit
  <1>4. \A r \in db : /\ RowShape(r) /\ r.vid < FirstVid
                      /\ r.from <= head /\ (r.to <= head \/ r.to = Infinity)
    BY <1>2, <1>3, BlockAssumption DEF StoredRow, RowShape
  <1>5. NextVid = FirstVid + LatestBlock /\ LatestBlock \in Nat /\ FirstVid \in Nat
    BY <1>3, BlockAssumption DEF NextVid
  <1>6. \A r \in db : r.vid < NextVid
    BY <1>4, <1>5 DEF RowShape
  <1>7. StoreInv
    BY <1>2, <1>3, <1>4, <1>6, BlockAssumption DEF StoreInv, Reorgs
  <1>8. RequestInv
    BY <1>2, <1>3, BlockAssumption DEF RequestInv, States
  <1> QED
    BY <1>3, <1>7, <1>8

-----------------------------------------------------------------------------
(* What the indexer does to the rows.                                       *)

LEMMA OneMoreBlock ==
    ASSUME StoreInv, IndexBlock
    PROVE  \E r, c, f :
              /\ r \in db
              /\ r.to = Infinity /\ db' = (db \ {r}) \cup {c, f}
              /\ RowShape(c) /\ Stripped(c) = Stripped(r) /\ c.to = head + 1
              /\ RowShape(f) /\ f.type = r.type /\ f.id = r.id /\ f.vid = NextVid
              /\ f.from = head + 1 /\ f.to = Infinity
              /\ c.type = r.type /\ c.id = r.id /\ c.vid = r.vid /\ c.from = r.from
  <1>1. head \in Nat /\ head' = head + 1 /\ NextVid \in Nat /\ Infinity \in Nat
    BY BlockAssumption DEF StoreInv, IndexBlock, NextVid, Reorgs
  <1>2. PICK r \in db : /\ r.to = Infinity
                        /\ db' = (db \ {r}) \cup
                             {[r EXCEPT !.to = head'],
                              [r EXCEPT !.from = head', !.vid = NextVid, !.n = 3, !.kids = {}]}
    BY DEF IndexBlock
  <1>3. RowShape(r)
    BY <1>2 DEF StoreInv
  <1> DEFINE c == [type |-> r.type, id |-> r.id, vid |-> r.vid, n |-> r.n, up |-> r.up,
                   kids |-> r.kids, from |-> r.from, to |-> head']
             f == [type |-> r.type, id |-> r.id, vid |-> NextVid, n |-> 3, up |-> r.up,
                   kids |-> {}, from |-> head', to |-> r.to]
  <1>4. PICK t, i, v, n, u, k, b, e :
          r = [type |-> t, id |-> i, vid |-> v, n |-> n, up |-> u, kids |-> k,
               from |-> b, to |-> e]
    BY <1>3 DEF RowShape
  <1>5. [r EXCEPT !.to = head'] = c
    BY <1>4
  <1>6. [r EXCEPT !.from = head', !.vid = NextVid, !.n = 3, !.kids = {}] = f
    <2>1. r.type = t /\ r.id = i /\ r.up = u /\ r.to = e
      BY <1>4
    <2> DEFINE r1 == [type |-> t, id |-> i, vid |-> v, n |-> n, up |-> u, kids |-> k,
                      from |-> head', to |-> e]
               r2 == [type |-> t, id |-> i, vid |-> NextVid, n |-> n, up |-> u, kids |-> k,
                      from |-> head', to |-> e]
               r3 == [type |-> t, id |-> i, vid |-> NextVid, n |-> 3, up |-> u, kids |-> k,
                      from |-> head', to |-> e]
               r4 == [type |-> t, id |-> i, vid |-> NextVid, n |-> 3, up |-> u, kids |-> {},
                      from |-> head', to |-> e]
    <2>2. [r EXCEPT !.from = head'] = r1
      BY <1>4
    <2>3. [r1 EXCEPT !.vid = NextVid] = r2
      OBVIOUS
    <2>4. [r2 EXCEPT !.n = 3] = r3
      OBVIOUS
    <2>5. [r3 EXCEPT !.kids = {}] = r4
      OBVIOUS
    <2>6. [r EXCEPT !.from = head', !.vid = NextVid, !.n = 3, !.kids = {}]
            = [[[[r EXCEPT !.from = head'] EXCEPT !.vid = NextVid] EXCEPT !.n = 3]
                 EXCEPT !.kids = {}]
      OBVIOUS
    <2>7. [r EXCEPT !.from = head', !.vid = NextVid, !.n = 3, !.kids = {}] = r4
      BY <2>2, <2>3, <2>4, <2>5, <2>6
    <2> QED
      BY <2>1, <2>7
  <1>7. RowShape(c) /\ RowShape(f)
    BY <1>1, <1>2, <1>3 DEF RowShape
  <1>8. Stripped(c) = Stripped(r)
    BY DEF Stripped
  <1>9. /\ db' = (db \ {r}) \cup {c, f}
        /\ c.to = head + 1 /\ f.type = r.type /\ f.id = r.id /\ f.vid = NextVid
        /\ f.from = head + 1 /\ f.to = Infinity
        /\ c.type = r.type /\ c.id = r.id /\ c.vid = r.vid /\ c.from = r.from
    BY <1>1, <1>2, <1>5, <1>6
  <1> HIDE DEF c, f
  <1> QED
    BY <1>2, <1>7, <1>8, <1>9

LEMMA IndexBlockKeepsStore ==
    ASSUME StoreInv, IndexBlock
    PROVE  StoreInv'
  <1>1. PICK r, c, f :
              /\ r \in db
              /\ r.to = Infinity /\ db' = (db \ {r}) \cup {c, f}
              /\ RowShape(c) /\ Stripped(c) = Stripped(r) /\ c.to = head + 1
              /\ RowShape(f) /\ f.type = r.type /\ f.id = r.id /\ f.vid = NextVid
              /\ f.from = head + 1 /\ f.to = Infinity
              /\ c.type = r.type /\ c.id = r.id /\ c.vid = r.vid /\ c.from = r.from
    BY OneMoreBlock
  <1>2. /\ head \in Nat /\ head < MaxBlock /\ head' = head + 1 /\ MaxBlock \in Nat
        /\ Infinity \in Nat /\ MaxBlock < Infinity /\ FirstVid \in Nat
    BY BlockAssumption DEF StoreInv, IndexBlock
  <1>3. reorgs \in Reorgs /\ reorgs' = [reorgs EXCEPT !.current = 0]
    BY DEF StoreInv, IndexBlock
  <1>4. reorgs' \in Reorgs /\ reorgs'.count = reorgs.count /\ reorgs'.max = reorgs.max
        /\ reorgs.count \in Nat
    BY <1>3 DEF Reorgs
  <1>5. NextVid' = NextVid + 1 /\ NextVid \in Nat
    BY <1>2, <1>4 DEF NextVid
  <1>6. IsFiniteSet(db')
    <2>1. IsFiniteSet(db \ {r})
      BY FS_RemoveElement DEF StoreInv
    <2>2. IsFiniteSet(((db \ {r}) \cup {c}) \cup {f})
      BY <2>1, FS_AddElement
    <2>3. db' = ((db \ {r}) \cup {c}) \cup {f}
      BY <1>1
    <2> QED
      BY <2>2, <2>3
  <1>7. \A q \in db : /\ RowShape(q) /\ q.vid < NextVid
                      /\ q.from <= head /\ (q.to <= head \/ q.to = Infinity)
    BY DEF StoreInv
  <1>8. \A q \in db' : /\ RowShape(q) /\ q.vid < NextVid'
                       /\ q.from <= head' /\ (q.to <= head' \/ q.to = Infinity)
    BY <1>1, <1>2, <1>5, <1>7 DEF RowShape
  <1>9. Unique(db, request.fields) /\ request' = request
    BY DEF StoreInv, IndexBlock
  <1>10. Unique(db', request.fields)
    <2>1. ASSUME NEW p \in db', NEW q \in db'
          PROVE  /\ p.type = q.type /\ p.vid = q.vid => p = q
                 /\ p.id = q.id /\ Together(request.fields, p.type, q.type) =>
                       p = q \/ p.to <= q.from \/ q.to <= p.from
      <3>1. p \in db \ {r} \/ p = c \/ p = f
        BY <1>1, <2>1
      <3>2. q \in db \ {r} \/ q = c \/ q = f
        BY <1>1, <2>1
      <3>3. \A x \in db \ {r} :
               /\ x.vid # f.vid /\ c.vid # f.vid
               /\ ~(x.type = c.type /\ x.vid = c.vid)
               /\ x.id = c.id /\ Together(request.fields, x.type, c.type) => x.to <= c.from
               /\ x.id = f.id /\ Together(request.fields, x.type, f.type) => x.to <= f.from
        <4>1. ASSUME NEW x \in db \ {r}
              PROVE  /\ x.vid # f.vid /\ c.vid # f.vid
                     /\ ~(x.type = c.type /\ x.vid = c.vid)
                     /\ x.id = c.id /\ Together(request.fields, x.type, c.type) => x.to <= c.from
                     /\ x.id = f.id /\ Together(request.fields, x.type, f.type) => x.to <= f.from
          <5>1. /\ x.type = r.type /\ x.vid = r.vid => x = r
                /\ x.id = r.id /\ Together(request.fields, x.type, r.type) =>
                      x = r \/ x.to <= r.from \/ r.to <= x.from
            BY <1>1, <1>9, <4>1 DEF Unique
          <5>2. RowShape(x) /\ x.vid < NextVid /\ x.from <= head
            BY <1>7, <4>1
          <5>3. RowShape(r) /\ r.vid < NextVid /\ r.from <= head
            BY <1>1, <1>7
          <5> QED
            BY <1>1, <1>2, <1>5, <4>1, <5>1, <5>2, <5>3 DEF RowShape
        <4> QED
          BY <4>1
      <3>4. c.to <= f.from /\ c.vid # f.vid
        BY <1>1, <1>2, <1>5, <1>7 DEF RowShape
      <3>5. CASE p \in db \ {r} /\ q \in db \ {r}
        BY <1>9, <3>5 DEF Unique
      <3>6. \A t, u : Together(request.fields, t, u) => Together(request.fields, u, t)
        BY DEF Together
      <3>7. CASE p \in db \ {r} /\ (q = c \/ q = f)
        BY <3>3, <3>4, <3>7
      <3>8. CASE q \in db \ {r} /\ (p = c \/ p = f)
        BY <3>3, <3>4, <3>6, <3>8
      <3>9. CASE p \in {c, f} /\ q \in {c, f}
        BY <3>4, <3>9
      <3> QED
        BY <3>1, <3>2, <3>5, <3>7, <3>8, <3>9
    <2> QED
      BY <2>1 DEF Unique
  <1> QED
    BY <1>2, <1>4, <1>6, <1>8, <1>9, <1>10 DEF StoreInv

\* A row after its end was taken back, if that is the head.
Reopened(r) == IF r.to = head THEN [r EXCEPT !.to = Infinity] ELSE r

LEMMA ReopenedRow ==
    ASSUME StoreInv, NEW r \in db
    PROVE  /\ RowShape(Reopened(r)) /\ Stripped(Reopened(r)) = Stripped(r)
           /\ Reopened(r).type = r.type /\ Reopened(r).id = r.id
           /\ Reopened(r).vid = r.vid /\ Reopened(r).from = r.from
           /\ Reopened(r).to = IF r.to = head THEN Infinity ELSE r.to
  <1>1. RowShape(r) /\ Infinity \in Nat
    BY BlockAssumption DEF StoreInv
  <1>2. CASE r.to # head
    <2>1. Reopened(r) = r
      BY <1>2 DEF Reopened
    <2> QED
      BY <1>1, <1>2, <2>1
  <1>3. CASE r.to = head
    <2> DEFINE o == [type |-> r.type, id |-> r.id, vid |-> r.vid, n |-> r.n, up |-> r.up,
                     kids |-> r.kids, from |-> r.from, to |-> Infinity]
    <2>1. PICK t, i, v, n, u, k, b, e :
            r = [type |-> t, id |-> i, vid |-> v, n |-> n, up |-> u, kids |-> k,
                 from |-> b, to |-> e]
      BY <1>1 DEF RowShape
    <2>2. Reopened(r) = o
      BY <1>3, <2>1 DEF Reopened
    <2>3. RowShape(o) /\ Stripped(o) = Stripped(r)
      BY <1>1 DEF RowShape, Stripped
    <2>4. o.type = r.type /\ o.id = r.id /\ o.vid = r.vid /\ o.from = r.from /\ o.to = Infinity
      OBVIOUS
    <2> HIDE DEF o
    <2> QED
      BY <1>3, <2>2, <2>3, <2>4
  <1> QED
    BY <1>2, <1>3

LEMMA RevertBlockKeepsStore ==
    ASSUME StoreInv, RevertBlock
    PROVE  StoreInv'
  <1> DEFINE kept == {r \in db : r.from # head}
  <1>1. db' = {Reopened(r) : r \in kept}
    BY DEF RevertBlock, Reopened
  <1>2. /\ head \in Nat /\ head > 0 /\ head' = head - 1 /\ MaxBlock \in Nat /\ head <= MaxBlock
        /\ Infinity \in Nat /\ MaxBlock < Infinity /\ FirstVid \in Nat
    BY BlockAssumption DEF StoreInv, RevertBlock
  <1>3. reorgs \in Reorgs /\ reorgs' = CountedRevert
    BY DEF StoreInv, RevertBlock
  <1>4. reorgs' \in Reorgs /\ reorgs'.count = reorgs.count + 1 /\ reorgs'.max > 0
        /\ reorgs.count \in Nat
    BY <1>3 DEF Reorgs, CountedRevert
  <1>5. NextVid' = NextVid /\ NextVid \in Nat
    BY <1>2, <1>4 DEF NextVid
  <1>6. IsFiniteSet(db')
    <2>1. IsFiniteSet(kept)
      BY FS_Subset DEF StoreInv
    <2> DEFINE m == [r \in kept |-> Reopened(r)]
    <2>2. m \in Surjection(kept, db')
      BY <1>1 DEF Surjection
    <2> HIDE DEF kept, m
    <2> QED
      BY <2>1, <2>2, FS_Surjection
  <1>7. \A q \in db : /\ RowShape(q) /\ q.vid < NextVid
                      /\ q.from <= head /\ (q.to <= head \/ q.to = Infinity)
    BY DEF StoreInv
  <1>8. ASSUME NEW q \in db'
        PROVE  /\ RowShape(q) /\ q.vid < NextVid'
               /\ q.from <= head' /\ (q.to <= head' \/ q.to = Infinity)
    <2>1. PICK r \in kept : q = Reopened(r)
      BY <1>1
    <2>2. r \in db /\ r.from # head
      OBVIOUS
    <2>3. /\ RowShape(q) /\ q.vid = r.vid /\ q.from = r.from
          /\ q.to = IF r.to = head THEN Infinity ELSE r.to
      BY <2>1, <2>2, ReopenedRow
    <2> QED
      BY <1>2, <1>5, <1>7, <2>2, <2>3 DEF RowShape
  <1>9. Unique(db', request.fields) /\ request' = request
    <2>1. ASSUME NEW p \in db', NEW q \in db'
          PROVE  /\ p.type = q.type /\ p.vid = q.vid => p = q
                 /\ p.id = q.id /\ Together(request.fields, p.type, q.type) =>
                       p = q \/ p.to <= q.from \/ q.to <= p.from
      <3>1. PICK x \in kept : p = Reopened(x)
        BY <1>1
      <3>2. PICK y \in kept : q = Reopened(y)
        BY <1>1
      <3>3. x \in db /\ x.from # head /\ y \in db /\ y.from # head
        OBVIOUS
      <3>4. /\ p.type = x.type /\ p.id = x.id /\ p.vid = x.vid /\ p.from = x.from
            /\ p.to = IF x.to = head THEN Infinity ELSE x.to
        BY <3>1, <3>3, ReopenedRow
      <3>5. /\ q.type = y.type /\ q.id = y.id /\ q.vid = y.vid /\ q.from = y.from
            /\ q.to = IF y.to = head THEN Infinity ELSE y.to
        BY <3>2, <3>3, ReopenedRow
      <3>6. /\ x.type = y.type /\ x.vid = y.vid => x = y
            /\ x.id = y.id /\ Together(request.fields, x.type, y.type) =>
                  x = y \/ x.to <= y.from \/ y.to <= x.from
        BY <3>3 DEF StoreInv, Unique
      <3>7. x.from < head /\ y.from < head /\ x.from \in Nat /\ y.from \in Nat
        BY <1>2, <1>7, <3>3 DEF RowShape
      <3> QED
        BY <1>2, <3>1, <3>2, <3>4, <3>5, <3>6, <3>7
    <2> QED
      BY <2>1 DEF Unique, RevertBlock
  <1> QED
    BY <1>2, <1>4, <1>6, <1>8, <1>9 DEF StoreInv

\* The rows of a block that the subgraph has are not touched by a new one, nor
\* by the revert of a later one.
LEMMA IndexBlockKeepsBlock ==
    ASSUME StoreInv, IndexBlock, NEW b \in Nat, b <= head
    PROVE  StrippedRows(Visible(db', b)) = StrippedRows(Visible(db, b))
  <1>1. PICK r, c, f :
              /\ r \in db
              /\ r.to = Infinity /\ db' = (db \ {r}) \cup {c, f}
              /\ RowShape(c) /\ Stripped(c) = Stripped(r) /\ c.to = head + 1
              /\ RowShape(f) /\ f.type = r.type /\ f.id = r.id /\ f.vid = NextVid
              /\ f.from = head + 1 /\ f.to = Infinity
              /\ c.type = r.type /\ c.id = r.id /\ c.vid = r.vid /\ c.from = r.from
    BY OneMoreBlock
  <1>2. head \in Nat /\ head <= MaxBlock /\ MaxBlock < Infinity /\ Infinity \in Nat /\ MaxBlock \in Nat
    BY BlockAssumption DEF StoreInv
  <1>3. ~BlockRangeContains(f, b) /\ (BlockRangeContains(c, b) <=> BlockRangeContains(r, b))
    <2>1. r.from \in Nat
      BY <1>1 DEF StoreInv, RowShape
    <2> QED
      BY <1>1, <1>2, <2>1 DEF BlockRangeContains
  <1> QED
    BY <1>1, <1>3 DEF StrippedRows, Visible

LEMMA RevertBlockKeepsBlock ==
    ASSUME StoreInv, RevertBlock, NEW b \in Nat, b < head
    PROVE  StrippedRows(Visible(db', b)) = StrippedRows(Visible(db, b))
  <1> DEFINE kept == {r \in db : r.from # head}
  <1>1. db' = {Reopened(r) : r \in kept}
    BY DEF RevertBlock, Reopened
  <1>2. head \in Nat /\ head <= MaxBlock /\ MaxBlock < Infinity /\ Infinity \in Nat /\ MaxBlock \in Nat
    BY BlockAssumption DEF StoreInv
  <1>3. ASSUME NEW r \in db
        PROVE  /\ BlockRangeContains(Reopened(r), b) <=> BlockRangeContains(r, b)
               /\ BlockRangeContains(r, b) => r \in kept
    <2>1. /\ Reopened(r).from = r.from /\ r.from \in Nat /\ r.to \in Nat
          /\ Reopened(r).to = IF r.to = head THEN Infinity ELSE r.to
      BY ReopenedRow DEF StoreInv, RowShape
    <2> QED
      BY <1>2, <2>1 DEF BlockRangeContains
  <1>4. \A r \in db : Stripped(Reopened(r)) = Stripped(r)
    BY ReopenedRow
  <1>5. \A s : s \in StrippedRows(Visible(db', b))
                 <=> \E r \in kept : BlockRangeContains(Reopened(r), b) /\ s = Stripped(Reopened(r))
    BY <1>1 DEF StrippedRows, Visible
  <1>6. \A s : s \in StrippedRows(Visible(db, b))
                 <=> \E r \in db : BlockRangeContains(r, b) /\ s = Stripped(r)
    BY DEF StrippedRows, Visible
  <1>7. \A s : s \in StrippedRows(Visible(db', b)) <=> s \in StrippedRows(Visible(db, b))
    BY <1>3, <1>4, <1>5, <1>6
  <1> QED
    BY <1>7

-----------------------------------------------------------------------------
(* What the store returns.                                                  *)

LEMMA RangedRows ==
    ASSUME NEW order, NEW range, NEW rows
    PROVE  /\ \A p \in Ranged(order, range, rows) :
                 /\ p.row \in rows /\ p = [row |-> p.row, place |-> p.place]
                 /\ p.place = Place(order, rows, p.row) - range.skip
                 /\ p.place \in 1..range.first
           /\ \A r \in rows : Place(order, rows, r) - range.skip \in 1..range.first =>
                 [row |-> r, place |-> Place(order, rows, r) - range.skip]
                    \in Ranged(order, range, rows)
           /\ IsFiniteSet(rows) => IsFiniteSet(Ranged(order, range, rows))
  <1> DEFINE P(r) == [row |-> r, place |-> Place(order, rows, r) - range.skip]
             all == {P(r) : r \in rows}
  <1>1. Ranged(order, range, rows) = {p \in all : p.place \in 1..range.first}
    BY DEF Ranged
  <1>2. ASSUME IsFiniteSet(rows)
        PROVE  IsFiniteSet(Ranged(order, range, rows))
    <2> DEFINE m == [r \in rows |-> P(r)]
    <2>1. m \in Surjection(rows, all)
      BY DEF Surjection
    <2>2. IsFiniteSet(all)
      <3> HIDE DEF all, m
      <3> QED
        BY <1>2, <2>1, FS_Surjection
    <2>3. Ranged(order, range, rows) \subseteq all
      BY <1>1
    <2> HIDE DEF all
    <2> QED
      BY <2>2, <2>3, FS_Subset
  <1>3. ASSUME NEW p \in Ranged(order, range, rows)
        PROVE  /\ p.row \in rows /\ p = [row |-> p.row, place |-> p.place]
               /\ p.place = Place(order, rows, p.row) - range.skip
               /\ p.place \in 1..range.first
    <2>1. PICK r \in rows : p = P(r)
      BY <1>1
    <2>2. p.place \in 1..range.first
      BY <1>1
    <2> QED
      BY <2>1, <2>2
  <1>4. ASSUME NEW r \in rows, Place(order, rows, r) - range.skip \in 1..range.first
        PROVE  [row |-> r, place |-> Place(order, rows, r) - range.skip]
                    \in Ranged(order, range, rows)
    BY <1>1, <1>4
  <1> QED
    BY <1>2, <1>3, <1>4

LEMMA PlacedRow ==
    ASSUME NEW id, NEW order, NEW range, NEW rows,
           NEW n \in Placed(id, Ranged(order, range, rows))
    PROVE  /\ n.row \in rows /\ n.parent = id
           /\ n = [parent |-> id, row |-> n.row, place |-> n.place]
           /\ [row |-> n.row, place |-> n.place] \in Ranged(order, range, rows)
  <1>1. PICK p \in Ranged(order, range, rows) :
           n = [parent |-> id, row |-> p.row, place |-> p.place]
    BY DEF Placed
  <1>2. p.row \in rows /\ p = [row |-> p.row, place |-> p.place]
    BY RangedRows
  <1> QED
    BY <1>1, <1>2

LEMMA PlacedFinite ==
    ASSUME NEW id, NEW order, NEW range, NEW rows, IsFiniteSet(rows)
    PROVE  IsFiniteSet(Placed(id, Ranged(order, range, rows)))
  <1> DEFINE R == Ranged(order, range, rows)
             m == [p \in R |-> [parent |-> id, row |-> p.row, place |-> p.place]]
  <1>1. m \in Surjection(R, Placed(id, R))
    BY DEF Surjection, Placed
  <1>2. IsFiniteSet(R)
    BY RangedRows
  <1> HIDE DEF m, R
  <1>3. IsFiniteSet(Placed(id, R))
    BY <1>1, <1>2, FS_Surjection
  <1> QED
    BY <1>3 DEF R

\* The rows of an answer are rows of the subgraph, at the block of the query
\* and of the types of the field.
AnswerRows(level, nodes) ==
    /\ IsFiniteSet(nodes)
    /\ \A n \in nodes : n.row \in Visible(db, block) /\ n.row.type \in TypesOf(level)

LEMMA VisibleFinite ==
    ASSUME StoreInv
    PROVE  IsFiniteSet(Visible(db, block))
  BY FS_Subset DEF StoreInv, Visible

LEMMA RootRows ==
    ASSUME StoreInv, NEW args
    PROVE  AnswerRows(1, Root(QueryNoWindow(db, BuildQuery(1, args))))
  <1> DEFINE q == BuildQuery(1, args)
             rows == UNION {FilteredRows(db, type, q.filter, q.block) : type \in q.types}
  <1>1. q.types = TypesOf(1) /\ q.block = block
    BY DEF BuildQuery
  <1>2. \A r \in rows : r \in Visible(db, block) /\ r.type \in TypesOf(1)
    BY <1>1 DEF FilteredRows, Visible
  <1>3. IsFiniteSet(rows)
    <2>1. rows \subseteq Visible(db, block)
      BY <1>2
    <2> HIDE DEF rows
    <2> QED
      BY <2>1, VisibleFinite, FS_Subset
  <1>4. Root(QueryNoWindow(db, q)) = Placed(0, Ranged(q.order, q.range, rows))
    BY DEF Root, QueryNoWindow
  <1> HIDE DEF rows, q
  <1>5. /\ IsFiniteSet(Placed(0, Ranged(q.order, q.range, rows)))
        /\ \A n \in Placed(0, Ranged(q.order, q.range, rows)) : n.row \in rows
    BY <1>3, PlacedRow, PlacedFinite
  <1> QED
    BY <1>2, <1>4, <1>5 DEF AnswerRows, q

\* A parent of the level above: a row that was fetched at the block, of a type
\* of that level.
ParentNodes(level, parents) ==
    /\ level \in 1..Len(request.fields) /\ level - 1 \in 1..Len(request.fields)
    /\ IsFiniteSet(parents)
    /\ \A n \in parents : /\ Stripped(n.row) \in StrippedRows(Visible(db, block))
                          /\ n.row.type \in TypesOf(level - 1)

\* The entities that the rows of the subgraph link to a node.
DbLinked(args, level, node) ==
    {r \in Visible(db, block) :
        /\ r.type \in TypesOf(level) /\ r.n \in args.filter
        /\ IF Direct(args, node.row.type) THEN node.row.id \in r.up
           ELSE r.id \in node.row.kids}

\* The ids that a window for a type of parents asks for.
IdsOf(args, parents, type) ==
    {n.row.id : n \in {n \in parents : n.row.type = type /\ NamesAChild(args, type, n.row)}}

LEMMA WindowFacts ==
    ASSUME NEW level, NEW args, NEW parents, NEW w \in Windows(level, args, parents)
    PROVE  /\ w.parent \in TypesOf(level - 1) /\ w.type \in TypesOf(level)
           /\ w.direct = Direct(args, w.parent)
           /\ w.ids = IdsOf(args, parents, w.parent)
           /\ \E n \in parents : n.row.type = w.parent
           /\ \A id \in w.ids :
                 w.kids[id] = UNION {n.row.kids : n \in {n \in parents :
                                         n.row.type = w.parent /\ n.row.id = id}}
  <1> DEFINE rows(type) == {n.row : n \in {n \in parents : n.row.type = type}}
             ids(type) == {r.id : r \in {r \in rows(type) : NamesAChild(args, type, r)}}
             kids(type) == [id \in ids(type) |->
                              UNION {r.kids : r \in {r \in rows(type) : r.id = id}}]
  <1>0. Windows(level, args, parents)
          = {[parent |-> type, type |-> child, direct |-> Direct(args, type),
              ids |-> ids(type), kids |-> kids(type)]
             : type \in {u \in TypesOf(level - 1) : rows(u) # {}}, child \in TypesOf(level)}
    BY DEF Windows
  <1> HIDE DEF ids, kids
  <1>1. PICK t \in {u \in TypesOf(level - 1) : rows(u) # {}}, c \in TypesOf(level) :
          w = [parent |-> t, type |-> c, direct |-> Direct(args, t), ids |-> ids(t),
               kids |-> kids(t)]
    BY <1>0
  <1>2. ids(t) = IdsOf(args, parents, t)
    BY DEF IdsOf, ids
  <1>3. \A id \in ids(t) :
            kids(t)[id] = UNION {n.row.kids : n \in {n \in parents :
                                         n.row.type = t /\ n.row.id = id}}
    <2>1. ASSUME NEW id
          PROVE  UNION {r.kids : r \in {r \in rows(t) : r.id = id}}
                   = UNION {n.row.kids : n \in {n \in parents :
                                         n.row.type = t /\ n.row.id = id}}
      OBVIOUS
    <2> QED
      BY <2>1 DEF kids
  <1>4. t \in TypesOf(level - 1) /\ \E n \in parents : n.row.type = t
    OBVIOUS
  <1>5. w.parent = t /\ w.type = c /\ w.direct = Direct(args, t) /\ w.ids = ids(t) /\ w.kids = kids(t)
    BY <1>1
  <1> HIDE DEF rows
  <1> QED
    BY <1>2, <1>3, <1>4, <1>5

LEMMA WindowThere ==
    ASSUME NEW level, NEW args, NEW parents, NEW n \in parents,
           n.row.type \in TypesOf(level - 1), NEW c \in TypesOf(level)
    PROVE  \E w \in Windows(level, args, parents) : w.parent = n.row.type /\ w.type = c
  <1> DEFINE rows(type) == {m.row : m \in {m \in parents : m.row.type = type}}
             ids(type) == {r.id : r \in {r \in rows(type) : NamesAChild(args, type, r)}}
             kids(type) == [id \in ids(type) |->
                              UNION {r.kids : r \in {r \in rows(type) : r.id = id}}]
             t == n.row.type
             w == [parent |-> t, type |-> c, direct |-> Direct(args, t), ids |-> ids(t),
                   kids |-> kids(t)]
  <1>0. Windows(level, args, parents)
          = {[parent |-> type, type |-> child, direct |-> Direct(args, type),
              ids |-> ids(type), kids |-> kids(type)]
             : type \in {u \in TypesOf(level - 1) : rows(u) # {}}, child \in TypesOf(level)}
    BY DEF Windows
  <1> HIDE DEF ids, kids
  <1>1. rows(t) # {}
    OBVIOUS
  <1>2. w \in Windows(level, args, parents)
    BY <1>0, <1>1
  <1>3. w.parent = n.row.type /\ w.type = c
    OBVIOUS
  <1> HIDE DEF w
  <1> QED
    BY <1>2, <1>3

-----------------------------------------------------------------------------
(* Rows but for the ends of their ranges.                                   *)

LEMMA StrippedFields ==
    ASSUME NEW r, NEW q, Stripped(r) = Stripped(q)
    PROVE  /\ r.type = q.type /\ r.id = q.id /\ r.vid = q.vid /\ r.n = q.n
           /\ r.up = q.up /\ r.kids = q.kids /\ r.from = q.from /\ Data(r) = Data(q)
  <1>1. /\ Stripped(r).type = r.type /\ Stripped(r).id = r.id /\ Stripped(r).vid = r.vid
        /\ Stripped(r).n = r.n /\ Stripped(r).up = r.up /\ Stripped(r).kids = r.kids
        /\ Stripped(r).from = r.from
    BY DEF Stripped
  <1>2. /\ Stripped(q).type = q.type /\ Stripped(q).id = q.id /\ Stripped(q).vid = q.vid
        /\ Stripped(q).n = q.n /\ Stripped(q).up = q.up /\ Stripped(q).kids = q.kids
        /\ Stripped(q).from = q.from
    BY DEF Stripped
  <1>3. r.type = q.type /\ r.id = q.id /\ r.vid = q.vid /\ r.n = q.n
           /\ r.up = q.up /\ r.kids = q.kids /\ r.from = q.from
    BY <1>1, <1>2
  <1> QED
    BY <1>3 DEF Data

\* Rows that Stripped tells apart.
Told(rows) == \A r, q \in rows : Stripped(r) = Stripped(q) => r = q

LEMMA UniqueTold ==
    ASSUME NEW rows, NEW fields, Unique(rows, fields)
    PROVE  Told(rows)
  BY StrippedFields DEF Unique, Told

LEMMA StrippedSize ==
    ASSUME NEW rows, IsFiniteSet(rows), Told(rows)
    PROVE  Cardinality(StrippedRows(rows)) = Cardinality(rows)
  <1> DEFINE m == [r \in rows |-> Stripped(r)]
  <1>1. m \in Surjection(rows, StrippedRows(rows))
    BY DEF Surjection, StrippedRows
  <1>2. m \in Injection(rows, StrippedRows(rows))
    <2>1. m \in [rows -> StrippedRows(rows)]
      BY DEF StrippedRows
    <2>2. \A r, q \in rows : m[r] = m[q] => r = q
      BY DEF Told
    <2> HIDE DEF m
    <2> QED
      BY <2>1, <2>2 DEF Injection, IsInjective
  <1> HIDE DEF m
  <1> QED
    BY <1>1, <1>2, FS_Surjection

\* Where a row stands depends only on what Stripped keeps.
LEMMA SamePlace ==
    ASSUME NEW order, NEW A, NEW B, IsFiniteSet(A), IsFiniteSet(B), Told(A), Told(B),
           StrippedRows(A) = StrippedRows(B), NEW a \in A, NEW b \in B,
           Stripped(a) = Stripped(b)
    PROVE  Place(order, A, a) = Place(order, B, b)
  <1> DEFINE S == {r \in A : r = a \/ SortsBefore(order, r, a)}
             T == {r \in B : r = b \/ SortsBefore(order, r, b)}
  <1>1. \A r, q : Stripped(r) = Stripped(q) =>
                     (SortsBefore(order, r, a) <=> SortsBefore(order, q, b))
    <2>1. a.n = b.n /\ a.id = b.id
      BY StrippedFields
    <2>2. ASSUME NEW r, NEW q, Stripped(r) = Stripped(q)
          PROVE  SortsBefore(order, r, a) <=> SortsBefore(order, q, b)
      <3>1. r.n = q.n /\ r.id = q.id
        BY <2>2, StrippedFields
      <3> QED
        BY <2>1, <3>1 DEF SortsBefore
    <2> QED
      BY <2>2
  <1>2. StrippedRows(S) \subseteq StrippedRows(T)
    <2>1. ASSUME NEW r \in S
          PROVE  Stripped(r) \in StrippedRows(T)
      <3>1. PICK q \in B : Stripped(q) = Stripped(r)
        BY DEF StrippedRows
      <3>2. q \in T
        BY <1>1, <3>1 DEF Told
      <3> QED
        BY <3>1, <3>2 DEF StrippedRows
    <2> QED
      BY <2>1 DEF StrippedRows
  <1>3. StrippedRows(T) \subseteq StrippedRows(S)
    <2>1. ASSUME NEW r \in T
          PROVE  Stripped(r) \in StrippedRows(S)
      <3>1. PICK q \in A : Stripped(q) = Stripped(r)
        BY DEF StrippedRows
      <3>2. q \in S
        BY <1>1, <3>1 DEF Told
      <3> QED
        BY <3>1, <3>2 DEF StrippedRows
    <2> QED
      BY <2>1 DEF StrippedRows
  <1>4. IsFiniteSet(S) /\ IsFiniteSet(T) /\ Told(S) /\ Told(T)
    BY FS_Subset DEF Told
  <1>5. Place(order, A, a) = Cardinality(S) /\ Place(order, B, b) = Cardinality(T)
    BY DEF Place
  <1> HIDE DEF S, T
  <1> QED
    BY <1>2, <1>3, <1>4, <1>5, StrippedSize

LEMMA SameRange ==
    ASSUME NEW order, NEW range, NEW A, NEW B, IsFiniteSet(A), IsFiniteSet(B),
           Told(A), Told(B), StrippedRows(A) = StrippedRows(B)
    PROVE  RowsOf(Ranged(order, range, A)) \subseteq RowsOf(Ranged(order, range, B))
  <1>1. ASSUME NEW p \in Ranged(order, range, A)
        PROVE  [row |-> Data(p.row), place |-> p.place] \in RowsOf(Ranged(order, range, B))
    <2>1. /\ p.row \in A /\ p.place = Place(order, A, p.row) - range.skip
          /\ p.place \in 1..range.first
      BY RangedRows
    <2>2. PICK b \in B : Stripped(b) = Stripped(p.row)
      BY <2>1 DEF StrippedRows
    <2>3. Place(order, B, b) = Place(order, A, p.row)
      <3>1. PICK a \in A : a = p.row
        BY <2>1
      <3>2. Place(order, A, a) = Place(order, B, b)
        BY <2>2, <3>1, SamePlace
      <3> QED
        BY <3>1, <3>2
    <2>4. [row |-> b, place |-> Place(order, B, b) - range.skip] \in Ranged(order, range, B)
      BY <2>1, <2>3, RangedRows
    <2>5. Data(b) = Data(p.row)
      BY <2>2, StrippedFields
    <2> QED
      BY <2>1, <2>3, <2>4, <2>5 DEF RowsOf
  <1> QED
    BY <1>1 DEF RowsOf

-----------------------------------------------------------------------------
(* Windows and links: what the windows ask for is what is linked.           *)

LEMMA SameEntity ==
    ASSUME StoreInv, block \in Nat, NEW level, NEW parents, ParentNodes(level, parents),
           NEW n \in parents, NEW m \in parents, n.row.id = m.row.id
    PROVE  Stripped(n.row) = Stripped(m.row)
  <1>1. PICK x \in db : BlockRangeContains(x, block) /\ Stripped(x) = Stripped(n.row)
    BY DEF ParentNodes, StrippedRows, Visible
  <1>2. PICK y \in db : BlockRangeContains(y, block) /\ Stripped(y) = Stripped(m.row)
    BY DEF ParentNodes, StrippedRows, Visible
  <1>3. x.id = y.id /\ x.type = n.row.type /\ y.type = m.row.type
    BY <1>1, <1>2, StrippedFields
  <1>4. Together(request.fields, x.type, y.type)
    BY <1>3 DEF ParentNodes, Together, TypesOf
  <1>5. x = y \/ x.to <= y.from \/ y.to <= x.from
    BY <1>3, <1>4 DEF StoreInv, Unique
  <1>6. RowShape(x) /\ RowShape(y)
    BY DEF StoreInv
  <1>7. x = y
    BY <1>1, <1>2, <1>5, <1>6 DEF BlockRangeContains, RowShape
  <1> QED
    BY <1>1, <1>2, <1>7

LEMMA ChildrenLinked ==
    ASSUME StoreInv, block \in Nat, NEW level, NEW args, NEW parents,
           ParentNodes(level, parents), NEW node \in parents,
           NEW w \in Windows(level, args, parents), node.row.id \in w.ids
    PROVE  /\ w.parent = node.row.type
           /\ ChildrenOf(db, BuildQuery(level, args), w, node.row.id)
                = {r \in DbLinked(args, level, node) : r.type = w.type}
  <1> DEFINE q == BuildQuery(level, args)
             id == node.row.id
  <1>1. /\ w.type \in TypesOf(level) /\ w.direct = Direct(args, w.parent)
        /\ w.ids = IdsOf(args, parents, w.parent)
        /\ w.kids[id] = UNION {n.row.kids : n \in {n \in parents :
                                         n.row.type = w.parent /\ n.row.id = id}}
    BY WindowFacts
  <1>2. PICK m \in parents : m.row.type = w.parent /\ m.row.id = id
    BY <1>1 DEF IdsOf
  <1>3. w.parent = node.row.type
    BY <1>2, SameEntity, StrippedFields
  <1>4. \A n \in parents : n.row.id = id => n.row.type = node.row.type /\ n.row.kids = node.row.kids
    BY SameEntity, StrippedFields
  <1>5. w.kids[id] = node.row.kids
    <2>1. {n.row.kids : n \in {n \in parents : n.row.type = w.parent /\ n.row.id = id}}
            = {node.row.kids}
      BY <1>3, <1>4
    <2> QED
      BY <1>1, <2>1
  <1>6. q.filter = args.filter /\ q.block = block
    BY DEF BuildQuery
  <1>7. \A r : Links(w, id, r) <=> IF Direct(args, node.row.type) THEN id \in r.up
                                   ELSE r.id \in node.row.kids
    BY <1>1, <1>3, <1>5 DEF Links
  <1>8. ChildrenOf(db, q, w, id)
          = {r \in db : /\ r.type = w.type /\ BlockRangeContains(r, block)
                        /\ r.n \in args.filter /\ Links(w, id, r)}
    BY <1>6 DEF ChildrenOf, FilteredRows
  <1> QED
    BY <1>1, <1>3, <1>7, <1>8 DEF DbLinked, Visible

\* All windows together ask for what is linked to a parent.
LEMMA AllLinked ==
    ASSUME StoreInv, block \in Nat, NEW level, NEW args, NEW parents,
           ParentNodes(level, parents), NEW node \in parents
    PROVE  LET windows == Windows(level, args, parents)
               id == node.row.id
               q == BuildQuery(level, args)
           IN /\ UNION {ChildrenOf(db, q, w, id) : w \in {w \in windows : id \in w.ids}}
                   = DbLinked(args, level, node)
              /\ \A r \in DbLinked(args, level, node) :
                    \E w \in windows : w.type = r.type /\ id \in w.ids
  <1> DEFINE windows == Windows(level, args, parents)
             id == node.row.id
             q == BuildQuery(level, args)
             all == UNION {ChildrenOf(db, q, w, id) : w \in {w \in windows : id \in w.ids}}
  <1>1. \A w \in windows : id \in w.ids =>
           ChildrenOf(db, q, w, id) = {r \in DbLinked(args, level, node) : r.type = w.type}
    BY ChildrenLinked
  <1>2. ASSUME NEW r \in DbLinked(args, level, node)
        PROVE  \E w \in windows : w.type = r.type /\ id \in w.ids
    <2>1. r.type \in TypesOf(level) /\ NamesAChild(args, node.row.type, node.row)
      BY DEF DbLinked, NamesAChild
    <2>2. node.row.type \in TypesOf(level - 1)
      BY DEF ParentNodes
    <2>3. PICK w \in windows : w.parent = node.row.type /\ w.type = r.type
      BY <2>1, <2>2, WindowThere
    <2>4. w.ids = IdsOf(args, parents, w.parent)
      BY WindowFacts
    <2>5. id \in w.ids
      BY <2>1, <2>3, <2>4 DEF IdsOf
    <2> QED
      BY <2>3, <2>5
  <1>3. all = DbLinked(args, level, node)
    BY <1>1, <1>2
  <1> QED
    BY <1>2, <1>3

LEMMA WindowsFinite ==
    ASSUME NEW level, NEW args, NEW parents, IsFiniteSet(parents), IsFiniteSet(TypesOf(level))
    PROVE  IsFiniteSet(Windows(level, args, parents))
  <1> DEFINE rows(type) == {m.row : m \in {m \in parents : m.row.type = type}}
             ids(type) == {r.id : r \in {r \in rows(type) : NamesAChild(args, type, r)}}
             kids(type) == [id \in ids(type) |->
                              UNION {r.kids : r \in {r \in rows(type) : r.id = id}}]
             W(type, child) == [parent |-> type, type |-> child, direct |-> Direct(args, type),
                                ids |-> ids(type), kids |-> kids(type)]
             T == {u \in TypesOf(level - 1) : rows(u) # {}}
             C == TypesOf(level)
  <1>0. Windows(level, args, parents)
          = {[parent |-> type, type |-> child, direct |-> Direct(args, type),
              ids |-> ids(type), kids |-> kids(type)]
             : type \in {u \in TypesOf(level - 1) : rows(u) # {}}, child \in TypesOf(level)}
    BY DEF Windows
  <1>1. IsFiniteSet(T)
    <2> DEFINE S == {n.row.type : n \in parents}
               m == [n \in parents |-> n.row.type]
    <2>1. m \in Surjection(parents, S)
      BY DEF Surjection
    <2>2. IsFiniteSet(S)
      <3> HIDE DEF S, m
      <3> QED
        BY <2>1, FS_Surjection
    <2>3. T \subseteq S
      OBVIOUS
    <2> HIDE DEF S, T
    <2> QED
      BY <2>2, <2>3, FS_Subset
  <1>2. IsFiniteSet(T \X C)
    <2> HIDE DEF T
    <2> QED
      BY <1>1, FS_Product
  <1> HIDE DEF ids, kids, T
  <1> DEFINE f == [x \in T \X C |-> W(x[1], x[2])]
             R == {W(type, child) : type \in T, child \in C}
  <1>3. Windows(level, args, parents) = R
    BY <1>0 DEF T
  <1> HIDE DEF C, W
  <1>4. f \in Surjection(T \X C, R)
    <2>1. \A x \in T \X C : f[x] = W(x[1], x[2]) /\ x[1] \in T /\ x[2] \in C
      OBVIOUS
    <2>2. \A x \in T \X C : f[x] \in R
      BY <2>1
    <2>3. \A t \in T, c \in C : <<t, c>> \in T \X C /\ f[<<t, c>>] = W(t, c)
      OBVIOUS
    <2>4. ASSUME NEW y \in R
          PROVE  \E x \in T \X C : f[x] = y
      <3>1. PICK t \in T, c \in C : y = W(t, c)
        OBVIOUS
      <3> HIDE DEF f, R
      <3> QED
        BY <2>3, <3>1
    <2>5. f \in [T \X C -> R]
      <3>1. f = [x \in T \X C |-> f[x]]
        OBVIOUS
      <3> HIDE DEF f, R
      <3> QED
        BY <2>2, <3>1
    <2> HIDE DEF f, R
    <2> QED
      BY <2>4, <2>5 DEF Surjection
  <1> HIDE DEF f, R
  <1> QED
    BY <1>2, <1>3, <1>4, FS_Surjection

LEMMA MatchDataSame ==
    ASSUME StoreInv, NEW id, NEW order, NEW range, NEW rows, rows \subseteq db,
           NEW m \in Placed(id, Ranged(order, range, rows))
    PROVE  MatchData(db, m) = {m}
  <1>0. PICK p \in Ranged(order, range, rows) :
           m = [parent |-> id, row |-> p.row, place |-> p.place]
    BY DEF Placed
  <1>1. m.row \in rows
    BY <1>0, RangedRows
  <1>2. {r \in db : r.vid = m.row.vid /\ r.type = m.row.type} = {m.row}
    BY <1>1 DEF StoreInv, Unique
  <1>3. PICK a, b : m = [parent |-> id, row |-> a, place |-> b]
    BY <1>0
  <1>4. [m EXCEPT !.row = m.row] = m
    BY <1>3
  <1> QED
    BY <1>2, <1>4 DEF MatchData

LEMMA LinkedFacts ==
    ASSUME StoreInv, NEW args, NEW level, NEW node
    PROVE  /\ IsFiniteSet(DbLinked(args, level, node))
           /\ DbLinked(args, level, node) \subseteq db
           /\ \A r \in DbLinked(args, level, node) :
                 r \in Visible(db, block) /\ r.type \in TypesOf(level)
  <1>1. DbLinked(args, level, node) \subseteq Visible(db, block)
    BY DEF DbLinked
  <1> QED
    BY <1>1, VisibleFinite, FS_Subset DEF DbLinked, Visible

\* The order in which a request for several parents returns their children.
ListOrder(args) == IF args.single THEN "id" ELSE BuildOrder(args)

ListOf(args, level, node) ==
    Placed(node.row.id, Ranged(ListOrder(args), BuildRange(args), DbLinked(args, level, node)))

LEMMA FetchedLists ==
    ASSUME StoreInv, block \in Nat, NEW level, NEW args, NEW parents,
           ParentNodes(level, parents), IsFiniteSet(TypesOf(level)),
           ~args.single \/ Cardinality(Windows(level, args, parents)) # 1,
           args.single \in BOOLEAN,
           NEW children \in Fetch(level, args, parents)
    PROVE  /\ \A c \in children : \E node \in parents : c \in ListOf(args, level, node)
           /\ \A node \in parents : ListOf(args, level, node) \subseteq children
  <1> DEFINE windows == Windows(level, args, parents)
             q == BuildQuery(level, args)
             all(id) == UNION {ChildrenOf(db, q, w, id) : w \in {w \in windows : id \in w.ids}}
  <1>1. /\ q.range = BuildRange(args) /\ q.single = args.single
        /\ q.order = IF args.single THEN "none" ELSE BuildOrder(args)
        /\ BuildOrder(args) # "none"
    BY DEF BuildQuery, BuildOrder
  <1>2. \A node \in parents : all(node.row.id) = DbLinked(args, level, node)
    BY AllLinked
  <1>3. \A w \in windows : \A id \in w.ids : \E node \in parents : node.row.id = id
    BY WindowFacts DEF IdsOf
  <1>4. ASSUME NEW node \in parents, \A w \in windows : node.row.id \notin w.ids
        PROVE  ListOf(args, level, node) = {}
    <2>1. DbLinked(args, level, node) = {}
      BY <1>4, AllLinked
    <2>2. \A n \in ListOf(args, level, node) : n.row \in {}
      BY <2>1, PlacedRow DEF ListOf
    <2> QED
      BY <2>2
  <1>5. CASE windows = {}
    <2>1. children = {}
      BY <1>5 DEF Fetch
    <2> QED
      BY <1>4, <1>5, <2>1
  <1>6. CASE windows # {} /\ Cardinality(windows) # 1
    <2>1. children = QueryWindow(db, q, windows)
      BY <1>6 DEF Fetch, WindowResults
    <2>2. ASSUME NEW node \in parents
          PROVE  /\ Matches(db, q, windows, node.row.id) = ListOf(args, level, node)
                 /\ \A m \in Matches(db, q, windows, node.row.id) : MatchData(db, m) = {m}
      <3>1. Matches(db, q, windows, node.row.id)
              = Placed(node.row.id, Ranged(IF q.order = "none" THEN "id" ELSE q.order,
                                           q.range, all(node.row.id)))
        BY DEF Matches
      <3>2. (IF q.order = "none" THEN "id" ELSE q.order) = ListOrder(args)
        BY <1>1 DEF ListOrder
      <3>3. Matches(db, q, windows, node.row.id) = ListOf(args, level, node)
        BY <1>1, <1>2, <3>1, <3>2 DEF ListOf
      <3>4. \A m \in ListOf(args, level, node) : MatchData(db, m) = {m}
        BY MatchDataSame, LinkedFacts DEF ListOf
      <3> QED
        BY <3>3, <3>4
    <2> HIDE DEF windows, q
    <2>3. \A c : c \in children <=>
             \E id \in CollectParents(windows) : \E m \in Matches(db, q, windows, id) :
                 c \in MatchData(db, m)
      BY <2>1 DEF QueryWindow
    <2>4. \A id : id \in CollectParents(windows) <=> \E w \in windows : id \in w.ids
      BY DEF CollectParents
    <2>5. ASSUME NEW c \in children
          PROVE  \E node \in parents : c \in ListOf(args, level, node)
      BY <1>3, <2>2, <2>3, <2>4
    <2>6. ASSUME NEW node \in parents
          PROVE  ListOf(args, level, node) \subseteq children
      <3>1. CASE node.row.id \in CollectParents(windows)
        BY <2>2, <2>3, <3>1
      <3>2. CASE node.row.id \notin CollectParents(windows)
        BY <1>4, <2>4, <3>2
      <3> QED
        BY <3>1, <3>2
    <2> QED
      BY <2>5, <2>6
  <1>7. CASE windows # {} /\ Cardinality(windows) = 1
    <2>1. ~args.single
      BY <1>7
    <2>2. PICK w : windows = {w}
      <3>1. IsFiniteSet(windows)
        BY WindowsFinite DEF ParentNodes
      <3> HIDE DEF windows
      <3> QED
        BY <1>7, <3>1, FS_Singleton
    <2>3. children = RankedChildren(db, q, w)
      <3>1. (CHOOSE x \in windows : TRUE) = w
        BY <2>2
      <3> QED
        BY <1>1, <1>7, <2>1, <3>1 DEF Fetch, WindowResults
    <2>4. ASSUME NEW node \in parents, node.row.id \in w.ids
          PROVE  Placed(node.row.id, Ranged(q.order, q.range,
                                            ChildrenOf(db, q, w, node.row.id)))
                   = ListOf(args, level, node)
      <3>1. {x \in windows : node.row.id \in x.ids} = {w}
        BY <2>2, <2>4
      <3>2. all(node.row.id) = ChildrenOf(db, q, w, node.row.id)
        BY <3>1
      <3>3. q.order = ListOrder(args)
        BY <1>1, <2>1 DEF ListOrder
      <3> QED
        BY <1>1, <1>2, <3>2, <3>3 DEF ListOf
    <2>5. \A c : c \in children <=>
             \E id \in w.ids : c \in Placed(id, Ranged(q.order, q.range, ChildrenOf(db, q, w, id)))
      BY <2>3 DEF RankedChildren
    <2> HIDE DEF q, windows
    <2>6. ASSUME NEW c \in children
          PROVE  \E node \in parents : c \in ListOf(args, level, node)
      <3>1. PICK id \in w.ids :
               c \in Placed(id, Ranged(q.order, q.range, ChildrenOf(db, q, w, id)))
        BY <2>5
      <3>2. PICK node \in parents : node.row.id = id
        BY <1>3, <2>2
      <3> QED
        BY <2>4, <3>1, <3>2
    <2>7. ASSUME NEW node \in parents
          PROVE  ListOf(args, level, node) \subseteq children
      <3>1. CASE node.row.id \in w.ids
        BY <2>4, <2>5, <3>1
      <3>2. CASE node.row.id \notin w.ids
        BY <1>4, <2>2, <3>2
      <3> QED
        BY <3>1, <3>2
    <2> QED
      BY <2>6, <2>7
  <1> QED
    BY <1>5, <1>6, <1>7

-----------------------------------------------------------------------------
(* Fields with a single object.                                             *)

LEMMA IdsFinite ==
    ASSUME NEW args, NEW parents, IsFiniteSet(parents), NEW type
    PROVE  IsFiniteSet(IdsOf(args, parents, type))
  <1> DEFINE S == {n \in parents : n.row.type = type /\ NamesAChild(args, type, n.row)}
             m == [n \in S |-> n.row.id]
  <1>1. IsFiniteSet(S)
    BY FS_Subset
  <1>2. m \in Surjection(S, IdsOf(args, parents, type))
    BY DEF Surjection, IdsOf
  <1> HIDE DEF S, m
  <1> QED
    BY <1>1, <1>2, FS_Surjection

Pair(id, r) == [parent |-> id, row |-> r, place |-> 0]

LEMMA PairsFinite ==
    ASSUME NEW ids, NEW rows, IsFiniteSet(ids), IsFiniteSet(rows)
    PROVE  IsFiniteSet({Pair(id, r) : id \in ids, r \in rows})
  <1> DEFINE R == {Pair(id, r) : id \in ids, r \in rows}
             f == [x \in ids \X rows |-> Pair(x[1], x[2])]
  <1>1. IsFiniteSet(ids \X rows)
    BY FS_Product
  <1>2. f \in Surjection(ids \X rows, R)
    <2>1. \A x \in ids \X rows : f[x] = Pair(x[1], x[2]) /\ x[1] \in ids /\ x[2] \in rows
      OBVIOUS
    <2>2. \A x \in ids \X rows : f[x] \in R
      BY <2>1
    <2>3. \A t \in ids, c \in rows : <<t, c>> \in ids \X rows /\ f[<<t, c>>] = Pair(t, c)
      OBVIOUS
    <2>4. ASSUME NEW y \in R
          PROVE  \E x \in ids \X rows : f[x] = y
      <3>1. PICK t \in ids, c \in rows : y = Pair(t, c)
        OBVIOUS
      <3> HIDE DEF f, R
      <3> QED
        BY <2>3, <3>1
    <2>5. f \in [ids \X rows -> R]
      <3>1. f = [x \in ids \X rows |-> f[x]]
        OBVIOUS
      <3> HIDE DEF f, R
      <3> QED
        BY <2>2, <3>1
    <2> HIDE DEF f, R
    <2> QED
      BY <2>4, <2>5 DEF Surjection
  <1> HIDE DEF f, R
  <1>3. IsFiniteSet(R)
    BY <1>1, <1>2, FS_Surjection
  <1> QED
    BY <1>3 DEF R

\* Either all that is linked is fetched, or two objects for one parent.
LEMMA FetchedSingles ==
    ASSUME StoreInv, block \in Nat, NEW level, NEW args, NEW parents,
           ParentNodes(level, parents), IsFiniteSet(TypesOf(level)),
           args.single, Cardinality(Windows(level, args, parents)) = 1,
           NEW children \in Fetch(level, args, parents)
    PROVE  /\ \A c \in children : \E node \in parents :
                 \E r \in DbLinked(args, level, node) : c = Pair(node.row.id, r)
           /\ \/ \A node \in parents : \A r \in DbLinked(args, level, node) :
                    Pair(node.row.id, r) \in children
              \/ \E c, d \in children : c # d /\ c.parent = d.parent
  <1> DEFINE windows == Windows(level, args, parents)
             q == BuildQuery(level, args)
  <1>1. PICK w : windows = {w}
    <2>1. IsFiniteSet(windows)
      BY WindowsFinite DEF ParentNodes
    <2> HIDE DEF windows
    <2> QED
      BY <2>1, FS_Singleton DEF windows
  <1> DEFINE all == UNION {{Pair(id, r) : r \in ChildrenOf(db, q, w, id)} : id \in w.ids}
             n == IF Cardinality(all) < SingleLimit(w.ids)
                  THEN Cardinality(all) ELSE SingleLimit(w.ids)
  <1>2. children \subseteq all /\ Cardinality(children) = n
    <2>1. (CHOOSE x \in windows : TRUE) = w
      BY <1>1
    <2>2. q.single = args.single
      BY DEF BuildQuery
    <2>3. children \in SingleChildren(db, q, w)
      BY <1>1, <2>1, <2>2 DEF Fetch, WindowResults
    <2> QED
      BY <2>3 DEF SingleChildren, Pair
  <1>3. IsFiniteSet(w.ids)
    BY <1>1, WindowFacts, IdsFinite DEF ParentNodes
  <1>4. \A id \in w.ids : \E node \in parents : node.row.id = id
    BY <1>1, WindowFacts DEF IdsOf
  <1>5. ASSUME NEW node \in parents, node.row.id \in w.ids
        PROVE  ChildrenOf(db, q, w, node.row.id) = DbLinked(args, level, node)
    <2>1. {x \in windows : node.row.id \in x.ids} = {w}
      BY <1>1, <1>5
    <2>2. UNION {ChildrenOf(db, q, x, node.row.id) : x \in {x \in windows : node.row.id \in x.ids}}
            = DbLinked(args, level, node)
      BY AllLinked
    <2> QED
      BY <2>1, <2>2
  <1>6. ASSUME NEW node \in parents, NEW r \in DbLinked(args, level, node)
        PROVE  node.row.id \in w.ids
    BY <1>1, AllLinked
  <1>7. IsFiniteSet(all)
    <2> DEFINE X == {Pair(id, r) : id \in w.ids, r \in Visible(db, block)}
    <2>1. IsFiniteSet(X)
      BY <1>3, VisibleFinite, PairsFinite
    <2>2. \A id \in w.ids : ChildrenOf(db, q, w, id) \subseteq Visible(db, block)
      BY <1>4, <1>5, LinkedFacts
    <2> HIDE DEF q
    <2>3. all \subseteq X
      BY <2>2
    <2> HIDE DEF all, X
    <2> QED
      BY <2>1, <2>3, FS_Subset
  <1> HIDE DEF q
  <1>8. \A c \in all : \E id \in w.ids : \E r \in ChildrenOf(db, q, w, id) : c = Pair(id, r)
    OBVIOUS
  <1>9. \A id \in w.ids : \A r \in ChildrenOf(db, q, w, id) : Pair(id, r) \in all
    OBVIOUS
  <1> HIDE DEF all
  <1>10. \A c \in children : \E node \in parents :
                 \E r \in DbLinked(args, level, node) : c = Pair(node.row.id, r)
    BY <1>2, <1>4, <1>5, <1>8
  <1>11. IsFiniteSet(children) /\ Cardinality(all) \in Nat /\ Cardinality(w.ids) \in Nat
    BY <1>2, <1>3, <1>7, FS_Subset, FS_CardinalityType
  <1>12. CASE Cardinality(all) < SingleLimit(w.ids)
    <2>1. children = all
      BY <1>2, <1>7, <1>12, FS_Subset
    <2> QED
      BY <1>5, <1>6, <1>9, <1>10, <2>1
  <1>13. CASE ~(Cardinality(all) < SingleLimit(w.ids))
    <2>1. Cardinality(w.ids) < Cardinality(children)
      BY <1>2, <1>11, <1>13 DEF SingleLimit
    <2> DEFINE f == [c \in children |-> c.parent]
    <2>2. f \in [children -> w.ids]
      <3>1. \A c \in children : c.parent \in w.ids
        BY <1>2, <1>8 DEF Pair
      <3> QED
        BY <3>1
    <2>3. \E c, d \in children : c # d /\ f[c] = f[d]
      <3> HIDE DEF f
      <3> QED
        BY <1>3, <1>11, <2>1, <2>2, FS_PigeonHole
    <2> QED
      BY <1>10, <2>3
  <1> QED
    BY <1>12, <1>13

LEMMA LeastId ==
    ASSUME NEW rows, rows # {}, \A r \in rows : r.id \in Nat
    PROVE  \E r \in rows : \A q \in rows : r.id <= q.id
  <1> DEFINE I == {r.id : r \in rows}
             R == OpToRel(<, Nat)
  <1>1. I \subseteq Nat /\ I # {}
    OBVIOUS
  <1>2. \E i \in I : \A j \in I : ~(<<j, i>> \in R)
    <2> HIDE DEF I, R
    <2>1. IsWellFoundedOn(R, Nat)
      BY NatLessThanWellFounded DEF R
    <2> QED
      BY <1>1, <2>1, WFMin
  <1>3. PICK r \in rows : \A j \in I : ~(<<j, r.id>> \in R)
    BY <1>2
  <1>4. ASSUME NEW q \in rows
        PROVE  r.id <= q.id
    <2>1. ~(<<q.id, r.id>> \in R) /\ q.id \in Nat /\ r.id \in Nat
      BY <1>3
    <2> QED
      BY <2>1 DEF OpToRel
  <1> QED
    BY <1>3, <1>4

\* Sorted by id, there is a first row, and a second one if there are two.
LEMMA FirstTwo ==
    ASSUME NEW rows, \A r \in rows : r.id \in Nat, \A r, q \in rows : r.id = q.id => r = q
    PROVE  /\ \A r \in rows : rows = {r} => Place("id", rows, r) = 1
           /\ \A r, q \in rows : r # q =>
                 \E s, t \in rows : s # t /\ Place("id", rows, s) = 1 /\ Place("id", rows, t) = 2
  <1>1. \A a, b : SortsBefore("id", a, b) <=> a.id < b.id
    BY DEF SortsBefore
  <1>2. ASSUME NEW r \in rows, \A q \in rows : r.id <= q.id
        PROVE  Place("id", rows, r) = 1
    <2>1. {q \in rows : q = r \/ SortsBefore("id", q, r)} = {r}
      BY <1>1, <1>2
    <2> QED
      BY <2>1, FS_Singleton DEF Place
  <1>3. ASSUME NEW r \in rows, rows = {r}
        PROVE  Place("id", rows, r) = 1
    <2>1. \A q \in rows : r.id <= q.id
      BY <1>3
    <2> QED
      BY <1>2, <2>1
  <1>4. ASSUME NEW r \in rows, NEW q \in rows, r # q
        PROVE  \E s, t \in rows : /\ s # t /\ Place("id", rows, s) = 1
                                  /\ Place("id", rows, t) = 2
    <2>1. PICK s \in rows : \A x \in rows : s.id <= x.id
      BY LeastId
    <2> DEFINE others == rows \ {s}
    <2>2. PICK t \in others : \A x \in others : t.id <= x.id
      <3>1. others # {} /\ \A x \in others : x.id \in Nat
        BY <1>4
      <3> HIDE DEF others
      <3> QED
        BY <3>1, LeastId
    <2>3. t \in rows /\ t # s
      OBVIOUS
    <2>4. s.id < t.id
      BY <2>1, <2>3
    <2>5. {x \in rows : x = t \/ SortsBefore("id", x, t)} = {s} \cup {t}
      BY <1>1, <2>2, <2>3, <2>4
    <2>6. Cardinality({s} \cup {t}) = 2
      <3> DEFINE S == {s}
      <3>1. IsFiniteSet(S) /\ Cardinality(S) = 1
        BY FS_Singleton
      <3>2. t \notin S
        BY <2>3
      <3> HIDE DEF S
      <3>3. Cardinality(S \cup {t}) = Cardinality(S) + 1
        BY <3>1, <3>2, FS_AddElement
      <3>4. Cardinality(S \cup {t}) = 2
        BY <3>1, <3>3
      <3> QED
        BY <3>4 DEF S
    <2>7. Place("id", rows, t) = 2
      BY <2>5, <2>6 DEF Place
    <2>8. Place("id", rows, s) = 1
      BY <1>2, <2>1
    <2> QED
      BY <2>3, <2>7, <2>8
  <1> QED
    BY <1>3, <1>4

-----------------------------------------------------------------------------
(* A level is what single requests at the block would give.                 *)

StartInv ==
    /\ IsFiniteSet(start) /\ Unique(start, request.fields)
    /\ \A r \in start : RowShape(r)

LEMMA SameLinks ==
    ASSUME StoreInv, StartInv, BlockKept, NEW args, NEW level, NEW node
    PROVE  /\ StrippedRows(DbLinked(args, level, node))
                = StrippedRows(LinkedRows(args, level, node))
           /\ IsFiniteSet(LinkedRows(args, level, node))
           /\ Told(LinkedRows(args, level, node)) /\ Told(DbLinked(args, level, node))
  <1> DEFINE L(r) == /\ r.type \in TypesOf(level) /\ r.n \in args.filter
                     /\ IF Direct(args, node.row.type) THEN node.row.id \in r.up
                        ELSE r.id \in node.row.kids
  <1>1. DbLinked(args, level, node) = {r \in Visible(db, block) : L(r)}
    BY DEF DbLinked
  <1>2. LinkedRows(args, level, node) = {r \in Visible(start, block) : L(r)}
    BY DEF LinkedRows, Visible
  <1>3. \A r, q : Stripped(r) = Stripped(q) => (L(r) <=> L(q))
    BY StrippedFields
  <1> HIDE DEF L
  <1>4. StrippedRows(Visible(db, block)) = StrippedRows(Visible(start, block))
    BY DEF BlockKept
  <1>5. \A s : s \in StrippedRows(DbLinked(args, level, node))
                 => s \in StrippedRows(LinkedRows(args, level, node))
    <2>1. ASSUME NEW r \in Visible(db, block), L(r)
          PROVE  Stripped(r) \in StrippedRows(LinkedRows(args, level, node))
      <3>1. PICK x \in Visible(start, block) : Stripped(x) = Stripped(r)
        BY <1>4 DEF StrippedRows
      <3> QED
        BY <1>2, <1>3, <2>1, <3>1 DEF StrippedRows
    <2> QED
      BY <1>1, <2>1 DEF StrippedRows
  <1>6. \A s : s \in StrippedRows(LinkedRows(args, level, node))
                 => s \in StrippedRows(DbLinked(args, level, node))
    <2>1. ASSUME NEW r \in Visible(start, block), L(r)
          PROVE  Stripped(r) \in StrippedRows(DbLinked(args, level, node))
      <3>1. PICK x \in Visible(db, block) : Stripped(x) = Stripped(r)
        BY <1>4 DEF StrippedRows
      <3> QED
        BY <1>1, <1>3, <2>1, <3>1 DEF StrippedRows
    <2> QED
      BY <1>2, <2>1 DEF StrippedRows
  <1>7. Told(db) /\ Told(start)
    BY UniqueTold DEF StoreInv, StartInv
  <1>8. LinkedRows(args, level, node) \subseteq start /\ DbLinked(args, level, node) \subseteq db
    BY <1>1, <1>2 DEF Visible
  <1>9. IsFiniteSet(LinkedRows(args, level, node))
    BY <1>8, FS_Subset DEF StartInv
  <1>10. Told(LinkedRows(args, level, node)) /\ Told(DbLinked(args, level, node))
    BY <1>7, <1>8 DEF Told
  <1>11. StrippedRows(DbLinked(args, level, node)) = StrippedRows(LinkedRows(args, level, node))
    BY <1>5, <1>6
  <1> QED
    BY <1>9, <1>10, <1>11

LEMMA SameNodeLinks ==
    ASSUME NEW args, NEW level, NEW n, NEW m, Stripped(n.row) = Stripped(m.row)
    PROVE  /\ DbLinked(args, level, n) = DbLinked(args, level, m)
           /\ n.row.id = m.row.id
  <1>1. n.row.type = m.row.type /\ n.row.id = m.row.id /\ n.row.kids = m.row.kids
    BY StrippedFields
  <1> QED
    BY <1>1 DEF DbLinked

\* The children that a parent gets are those that carry its id, also when there
\* is only one parent.
LEMMA PerformedById ==
    ASSUME NEW parents, IsFiniteSet(parents), NEW children, NEW node \in parents,
           \A c \in children : \E n \in parents : c.parent = n.row.id
    PROVE  Perform(parents, children, node) = {c \in children : c.parent = node.row.id}
  <1>1. CASE Cardinality(parents) = 1
    <2>1. PICK x : parents = {x}
      BY <1>1, FS_Singleton
    <2>2. \A c \in children : c.parent = node.row.id
      BY <2>1
    <2> QED
      BY <1>1, <2>2 DEF Perform
  <1>2. CASE Cardinality(parents) # 1
    BY <1>2 DEF Perform
  <1> QED
    BY <1>1, <1>2

LEMMA ListsExact ==
    ASSUME StoreInv, StartInv, BlockKept, block \in Nat, NEW level, NEW args, NEW parents,
           ParentNodes(level, parents), IsFiniteSet(TypesOf(level)), args.single \in BOOLEAN,
           ~args.single, NEW children \in Fetch(level, args, parents), NEW node \in parents
    PROVE  RowsOf(Perform(parents, children, node)) = RowsOf(Naive(args, level, node))
  <1> DEFINE D == DbLinked(args, level, node)
             S == LinkedRows(args, level, node)
             o == BuildOrder(args)
             g == BuildRange(args)
  <1>1. /\ \A c \in children : \E n \in parents : c \in ListOf(args, level, n)
        /\ \A n \in parents : ListOf(args, level, n) \subseteq children
    BY FetchedLists
  <1>2. \A n : \A c \in ListOf(args, level, n) : c.parent = n.row.id
    BY DEF ListOf, Placed
  <1>3. Perform(parents, children, node) = {c \in children : c.parent = node.row.id}
    BY <1>1, <1>2, PerformedById DEF ParentNodes
  <1>4. Perform(parents, children, node) = ListOf(args, level, node)
    <2>1. ASSUME NEW n \in parents, n.row.id = node.row.id
          PROVE  ListOf(args, level, n) = ListOf(args, level, node)
      BY <2>1, SameEntity, SameNodeLinks DEF ListOf
    <2> QED
      BY <1>1, <1>2, <1>3, <2>1
  <1>5. ListOf(args, level, node) = Placed(node.row.id, Ranged(o, g, D))
    BY DEF ListOf, ListOrder
  <1>6. Naive(args, level, node) = Ranged(o, g, S)
    BY DEF Naive
  <1>7. /\ StrippedRows(D) = StrippedRows(S) /\ IsFiniteSet(S) /\ Told(S) /\ Told(D)
        /\ IsFiniteSet(D)
    BY SameLinks, LinkedFacts
  <1> HIDE DEF D, S, o, g
  <1>8. RowsOf(Ranged(o, g, D)) = RowsOf(Ranged(o, g, S))
    <2>1. RowsOf(Ranged(o, g, D)) \subseteq RowsOf(Ranged(o, g, S))
      BY <1>7, SameRange
    <2>2. RowsOf(Ranged(o, g, S)) \subseteq RowsOf(Ranged(o, g, D))
      BY <1>7, SameRange
    <2> QED
      BY <2>1, <2>2
  <1>9. RowsOf(Placed(node.row.id, Ranged(o, g, D))) = RowsOf(Ranged(o, g, D))
    <2> DEFINE R == Ranged(o, g, D)
               P(p) == [parent |-> node.row.id, row |-> p.row, place |-> p.place]
    <2> HIDE DEF R
    <2>1. Placed(node.row.id, R) = {P(p) : p \in R}
      BY DEF Placed
    <2>2. \A p : P(p).row = p.row /\ P(p).place = p.place
      OBVIOUS
    <2> HIDE DEF P
    <2>3. RowsOf(Placed(node.row.id, R)) = RowsOf(R)
      BY <2>1, <2>2 DEF RowsOf
    <2> QED
      BY <2>3 DEF R
  <1> QED
    BY <1>4, <1>5, <1>6, <1>8, <1>9

LEMMA TwoElements ==
    ASSUME NEW S, IsFiniteSet(S)
    PROVE  /\ \A x, y \in S : x # y => Cardinality(S) > 1
           /\ (\A x, y \in S : x = y) => Cardinality(S) <= 1
  <1>1. Cardinality(S) \in Nat
    BY FS_CardinalityType
  <1>2. /\ Cardinality(S) = 0 <=> S = {}
        /\ Cardinality(S) = 1 <=> \E x : S = {x}
    BY FS_EmptySet, FS_Singleton
  <1>3. ASSUME NEW x \in S, NEW y \in S, x # y
        PROVE  Cardinality(S) > 1
    BY <1>1, <1>2, <1>3
  <1>4. ASSUME \A x, y \in S : x = y
        PROVE  Cardinality(S) <= 1
    <2>1. S = {} \/ \E x : S = {x}
      BY <1>4
    <2> QED
      BY <1>2, <2>1
  <1> QED
    BY <1>3, <1>4

\* Rows of one type are told apart by what Data keeps.
LEMMA DataTold ==
    ASSUME StoreInv, NEW r \in db, NEW q \in db, Data(r) = Data(q)
    PROVE  r = q
  <1>1. Data(r).type = r.type /\ Data(r).vid = r.vid /\ Data(q).type = q.type /\ Data(q).vid = q.vid
    BY DEF Data
  <1>2. r.type = q.type /\ r.vid = q.vid
    BY <1>1
  <1> QED
    BY <1>2 DEF StoreInv, Unique

\* Two objects for one parent.
Ambiguous(parents, children) ==
    \E n \in parents : \E c, d \in children :
        c.parent = n.row.id /\ d.parent = n.row.id /\ c.row # d.row

Complete(args, level, parents, children) ==
    \A n \in parents :
        /\ \A r \in DbLinked(args, level, n) :
              \E c \in children : c.parent = n.row.id /\ c.row = r
        /\ \A r, q \in DbLinked(args, level, n) : r = q

Belong(args, level, parents, children) ==
    \A c \in children : \E n \in parents :
        c.parent = n.row.id /\ c.row \in DbLinked(args, level, n)

LEMMA SinglesFromOne ==
    ASSUME StoreInv, block \in Nat, NEW level, NEW args, NEW parents,
           ParentNodes(level, parents), IsFiniteSet(TypesOf(level)), args.single,
           Cardinality(Windows(level, args, parents)) = 1,
           NEW children \in Fetch(level, args, parents)
    PROVE  /\ Belong(args, level, parents, children)
           /\ Ambiguous(parents, children) \/ Complete(args, level, parents, children)
  <1>0. \A id, r : Pair(id, r).parent = id /\ Pair(id, r).row = r
    BY DEF Pair
  <1>1. /\ \A c \in children : \E node \in parents :
                 \E r \in DbLinked(args, level, node) : c = Pair(node.row.id, r)
        /\ \/ \A node \in parents : \A r \in DbLinked(args, level, node) :
                    Pair(node.row.id, r) \in children
           \/ \E c, d \in children : c # d /\ c.parent = d.parent
    BY FetchedSingles
  <1>2. Belong(args, level, parents, children)
    BY <1>0, <1>1 DEF Belong
  <1>3. CASE \A node \in parents : \A r \in DbLinked(args, level, node) :
                    Pair(node.row.id, r) \in children
    <2>0. ASSUME NEW n \in parents, NEW r \in DbLinked(args, level, n)
          PROVE  \E c \in children : c.parent = n.row.id /\ c.row = r
      <3>1. Pair(n.row.id, r) \in children
        BY <1>3
      <3>2. Pair(n.row.id, r).parent = n.row.id /\ Pair(n.row.id, r).row = r
        BY DEF Pair
      <3> QED
        BY <3>1, <3>2
    <2>1. CASE \A n \in parents : \A r, q \in DbLinked(args, level, n) : r = q
      BY <1>2, <2>0, <2>1 DEF Complete
    <2>2. CASE \E n \in parents : \E r, q \in DbLinked(args, level, n) : r # q
      <3>1. PICK n \in parents : \E r, q \in DbLinked(args, level, n) : r # q
        BY <2>2
      <3>2. PICK r \in DbLinked(args, level, n), q \in DbLinked(args, level, n) : r # q
        BY <3>1
      <3>3. PICK c \in children : c.parent = n.row.id /\ c.row = r
        BY <2>0
      <3>4. PICK d \in children : d.parent = n.row.id /\ d.row = q
        BY <2>0
      <3> QED
        BY <1>2, <3>2, <3>3, <3>4 DEF Ambiguous
    <2> QED
      BY <1>2, <2>1, <2>2
  <1>4. CASE \E c, d \in children : c # d /\ c.parent = d.parent
    <2>1. PICK c \in children, d \in children : c # d /\ c.parent = d.parent
      BY <1>4
    <2>2. PICK n \in parents : \E r \in DbLinked(args, level, n) : c = Pair(n.row.id, r)
      BY <1>1
    <2>3. PICK m \in parents : \E r \in DbLinked(args, level, m) : d = Pair(m.row.id, r)
      BY <1>1
    <2>4. c.parent = n.row.id /\ d.parent = n.row.id /\ c.row # d.row
      BY <1>0, <2>1, <2>2, <2>3
    <2> QED
      BY <1>2, <2>4 DEF Ambiguous
  <1> QED
    BY <1>1, <1>3, <1>4

LEMMA SinglesFromMany ==
    ASSUME StoreInv, block \in Nat, NEW level, NEW args, NEW parents,
           ParentNodes(level, parents), IsFiniteSet(TypesOf(level)), FieldArguments(args),
           args.single, Cardinality(Windows(level, args, parents)) # 1,
           NEW children \in Fetch(level, args, parents)
    PROVE  /\ Belong(args, level, parents, children)
           /\ Ambiguous(parents, children) \/ Complete(args, level, parents, children)
  <1> DEFINE D(n) == DbLinked(args, level, n)
             g == BuildRange(args)
  <1>0. g.first = 100 /\ g.skip = 0
    BY DEF BuildRange, FieldArguments
  <1>1. /\ \A c \in children : \E n \in parents : c \in ListOf(args, level, n)
        /\ \A n \in parents : ListOf(args, level, n) \subseteq children
    BY FetchedLists DEF FieldArguments
  <1>2. \A n : ListOf(args, level, n) = Placed(n.row.id, Ranged("id", g, D(n)))
    BY DEF ListOf, ListOrder
  <1>3. Belong(args, level, parents, children)
    <2>1. ASSUME NEW c \in children
          PROVE  \E n \in parents : c.parent = n.row.id /\ c.row \in D(n)
      <3>1. PICK n \in parents : c \in Placed(n.row.id, Ranged("id", g, D(n)))
        BY <1>1, <1>2
      <3>2. c.parent = n.row.id /\ c.row \in D(n)
        <4>1. PICK x \in Ranged("id", g, D(n)) :
                 c = [parent |-> n.row.id, row |-> x.row, place |-> x.place]
          BY <3>1 DEF Placed
        <4> HIDE DEF D, g
        <4>2. x.row \in D(n)
          BY RangedRows
        <4> QED
          BY <4>1, <4>2
      <3> QED
        BY <3>2
    <2> QED
      BY <2>1 DEF Belong
  <1>4. ASSUME NEW n \in parents, NEW r \in D(n), Place("id", D(n), r) \in 1..100
        PROVE  \E c \in children : c.parent = n.row.id /\ c.row = r
    <2> DEFINE p == [row |-> r, place |-> Place("id", D(n), r) - g.skip]
               c == [parent |-> n.row.id, row |-> p.row, place |-> p.place]
    <2>1. Place("id", D(n), r) - g.skip \in 1..g.first
      BY <1>0, <1>4
    <2>2. p \in Ranged("id", g, D(n))
      <3> HIDE DEF D, g
      <3> QED
        BY <2>1, RangedRows
    <2>3. c \in Placed(n.row.id, Ranged("id", g, D(n)))
      <3> HIDE DEF D, g, p
      <3> QED
        BY <2>2 DEF Placed
    <2>4. c.parent = n.row.id /\ c.row = r
      OBVIOUS
    <2> HIDE DEF c, p
    <2> QED
      BY <1>1, <1>2, <2>3, <2>4
  <1>5. ASSUME NEW n \in parents
        PROVE  /\ \A r \in D(n) : r.id \in Nat
               /\ \A r, q \in D(n) : r.id = q.id => r = q
    <2>1. \A r \in D(n) : r \in db /\ BlockRangeContains(r, block)
      BY LinkedFacts DEF Visible
    <2>2. \A r \in db : RowShape(r)
      BY DEF StoreInv
    <2>3. \A r, q \in D(n) : Together(request.fields, r.type, q.type)
      BY LinkedFacts DEF ParentNodes, Together, TypesOf
    <2>4. ASSUME NEW r \in D(n), NEW q \in D(n), r.id = q.id
          PROVE  r = q
      <3>1. r = q \/ r.to <= q.from \/ q.to <= r.from
        BY <2>1, <2>3, <2>4 DEF StoreInv, Unique
      <3> HIDE DEF D
      <3> QED
        BY <2>1, <2>2, <3>1 DEF BlockRangeContains, RowShape
    <2> HIDE DEF D
    <2> QED
      BY <2>1, <2>2, <2>4 DEF RowShape
  <1>6. CASE \A n \in parents : \A r, q \in D(n) : r = q
    <2>1. ASSUME NEW n \in parents, NEW r \in D(n)
          PROVE  \E c \in children : c.parent = n.row.id /\ c.row = r
      <3>1. D(n) = {r}
        BY <1>6
      <3>2. Place("id", D(n), r) = 1
        <4>1. PICK R : R = D(n)
          OBVIOUS
        <4> HIDE DEF D
        <4>2. Place("id", R, r) = 1
          BY <1>5, <3>1, <4>1, FirstTwo
        <4> QED
          BY <4>1, <4>2
      <3> QED
        BY <1>4, <3>2
    <2> QED
      BY <1>3, <1>6, <2>1 DEF Complete
  <1>7. CASE \E n \in parents : \E r, q \in D(n) : r # q
    <2>1. PICK n \in parents : \E r, q \in D(n) : r # q
      BY <1>7
    <2>2. PICK s \in D(n), t \in D(n) :
             s # t /\ Place("id", D(n), s) = 1 /\ Place("id", D(n), t) = 2
      <3> HIDE DEF D
      <3>1. PICK R : R = D(n)
        OBVIOUS
      <3>2. \E s, t \in R : s # t /\ Place("id", R, s) = 1 /\ Place("id", R, t) = 2
        BY <1>5, <2>1, <3>1, FirstTwo
      <3> QED
        BY <3>1, <3>2
    <2> HIDE DEF D
    <2>3. PICK c \in children : c.parent = n.row.id /\ c.row = s
      BY <1>4, <2>2
    <2>4. PICK d \in children : d.parent = n.row.id /\ d.row = t
      BY <1>4, <2>2
    <2> QED
      BY <1>3, <2>2, <2>3, <2>4 DEF Ambiguous
  <1> QED
    BY <1>6, <1>7

\* SingleObjectsExact, of one level.
SingleField(args, level, parents, children) ==
    LET got(node) == {Data(n.row) : n \in Perform(parents, children, node)}
        linked(node) == {Data(r) : r \in LinkedRows(args, level, node)}
    IN \/ \A node \in parents : got(node) = linked(node) /\ Cardinality(got(node)) <= 1
       \/ \E node \in parents : Cardinality(got(node)) > 1 /\ got(node) \subseteq linked(node)

LEMMA SinglesExact ==
    ASSUME StoreInv, StartInv, BlockKept, block \in Nat, NEW level, NEW args, NEW parents,
           ParentNodes(level, parents), IsFiniteSet(TypesOf(level)), FieldArguments(args),
           args.single, NEW children \in Fetch(level, args, parents)
    PROVE  SingleField(args, level, parents, children)
  <1> DEFINE got(node) == {Data(n.row) : n \in Perform(parents, children, node)}
             linked(node) == {Data(r) : r \in LinkedRows(args, level, node)}
             D(n) == DbLinked(args, level, n)
  <1>1. /\ Belong(args, level, parents, children)
        /\ Ambiguous(parents, children) \/ Complete(args, level, parents, children)
    BY SinglesFromOne, SinglesFromMany
  <1>2. ASSUME NEW node \in parents
        PROVE  Perform(parents, children, node) = {c \in children : c.parent = node.row.id}
    BY <1>1, PerformedById DEF ParentNodes, Belong
  <1>3. ASSUME NEW node \in parents, NEW c \in children, c.parent = node.row.id
        PROVE  c.row \in D(node)
    <2>1. PICK n \in parents : c.parent = n.row.id /\ c.row \in D(n)
      BY <1>1 DEF Belong
    <2>2. Stripped(n.row) = Stripped(node.row)
      BY <1>3, <2>1, SameEntity
    <2> QED
      BY <2>1, <2>2, SameNodeLinks
  <1>4. ASSUME NEW node \in parents
        PROVE  linked(node) = {Data(r) : r \in D(node)}
    <2>1. StrippedRows(D(node)) = StrippedRows(LinkedRows(args, level, node))
      BY SameLinks
    <2>2. \A r \in D(node) : \E q \in LinkedRows(args, level, node) : Data(q) = Data(r)
      BY <2>1, StrippedFields DEF StrippedRows
    <2>3. \A q \in LinkedRows(args, level, node) : \E r \in D(node) : Data(q) = Data(r)
      BY <2>1, StrippedFields DEF StrippedRows
    <2> HIDE DEF D
    <2> QED
      BY <2>2, <2>3
  <1>5. ASSUME NEW node \in parents
        PROVE  /\ got(node) \subseteq linked(node)
               /\ \A c \in children : c.parent = node.row.id => Data(c.row) \in got(node)
    BY <1>2, <1>3, <1>4
  <1>6. ASSUME NEW node \in parents
        PROVE  IsFiniteSet(got(node))
    <2> DEFINE X == {Data(r) : r \in D(node)}
               m == [r \in D(node) |-> Data(r)]
    <2>1. IsFiniteSet(D(node))
      BY LinkedFacts
    <2>2. m \in Surjection(D(node), X)
      BY DEF Surjection
    <2>3. IsFiniteSet(X)
      <3> HIDE DEF D, X, m
      <3> QED
        BY <2>1, <2>2, FS_Surjection
    <2>4. got(node) \subseteq X
      BY <1>4, <1>5
    <2> HIDE DEF X, got
    <2> QED
      BY <2>3, <2>4, FS_Subset
  <1>7. CASE Ambiguous(parents, children)
    <2>1. PICK n \in parents : \E c, d \in children :
             c.parent = n.row.id /\ d.parent = n.row.id /\ c.row # d.row
      BY <1>7 DEF Ambiguous
    <2>2. PICK c \in children, d \in children :
             c.parent = n.row.id /\ d.parent = n.row.id /\ c.row # d.row
      BY <2>1
    <2>3. c.row \in db /\ d.row \in db
      BY <1>3, <2>2, LinkedFacts
    <2>4. Data(c.row) # Data(d.row)
      BY <2>2, <2>3, DataTold
    <2>5. Data(c.row) \in got(n) /\ Data(d.row) \in got(n)
      BY <1>5, <2>2
    <2>6. Cardinality(got(n)) > 1
      <3> HIDE DEF got
      <3> QED
        BY <1>6, <2>4, <2>5, TwoElements
    <2> QED
      BY <1>5, <2>6 DEF SingleField
  <1>8. CASE Complete(args, level, parents, children)
    <2>1. ASSUME NEW node \in parents
          PROVE  got(node) = linked(node) /\ Cardinality(got(node)) <= 1
      <3>1. /\ \A r \in D(node) : \E c \in children : c.parent = node.row.id /\ c.row = r
            /\ \A r, q \in D(node) : r = q
        BY <1>8 DEF Complete
      <3>2. got(node) = linked(node)
        <4>1. \A r \in D(node) : Data(r) \in got(node)
          BY <1>5, <3>1
        <4> HIDE DEF D, got
        <4> QED
          BY <1>4, <1>5, <4>1
      <3>3. \A x, y \in got(node) : x = y
        <4> HIDE DEF D, got
        <4> QED
          BY <1>4, <3>1, <3>2
      <3>4. Cardinality(got(node)) <= 1
        <4> HIDE DEF got
        <4> QED
          BY <1>6, <3>3, TwoElements
      <3> QED
        BY <3>2, <3>4
    <2> QED
      BY <2>1 DEF SingleField
  <1> QED
    BY <1>1, <1>7, <1>8

-----------------------------------------------------------------------------
(* Whatever happens to the subgraph, a level holds rows of its types.       *)

Triple(id, r, p) == [parent |-> id, row |-> r, place |-> p]

Triples(ids, rows, places) == {Triple(x[1][1], x[1][2], x[2]) : x \in (ids \X rows) \X places}

LEMMA TriplesFinite ==
    ASSUME NEW ids, NEW rows, NEW places,
           IsFiniteSet(ids), IsFiniteSet(rows), IsFiniteSet(places)
    PROVE  /\ IsFiniteSet(Triples(ids, rows, places))
           /\ \A id \in ids, r \in rows, p \in places : Triple(id, r, p) \in Triples(ids, rows, places)
  <1> DEFINE X == (ids \X rows) \X places
             f == [x \in X |-> Triple(x[1][1], x[1][2], x[2])]
             R == Triples(ids, rows, places)
  <1>1. IsFiniteSet(ids \X rows)
    BY FS_Product
  <1>2. IsFiniteSet(X)
    BY <1>1, FS_Product
  <1> HIDE DEF X
  <1>3. f \in Surjection(X, R)
    BY DEF Surjection, Triples, X
  <1>4. IsFiniteSet(R)
    <2> HIDE DEF f, R
    <2> QED
      BY <1>2, <1>3, FS_Surjection
  <1>5. ASSUME NEW id \in ids, NEW r \in rows, NEW p \in places
        PROVE  Triple(id, r, p) \in R
    <2> DEFINE x == <<<<id, r>>, p>>
    <2>1. x \in (ids \X rows) \X places /\ x[1][1] = id /\ x[1][2] = r /\ x[2] = p
      OBVIOUS
    <2> HIDE DEF x
    <2> QED
      BY <2>1 DEF Triples
  <1> QED
    BY <1>4, <1>5

LEMMA FetchedRows ==
    ASSUME StoreInv, NEW level, NEW args, NEW parents, IsFiniteSet(parents),
           FieldArguments(args), IsFiniteSet(TypesOf(level)),
           NEW children \in Fetch(level, args, parents)
    PROVE  AnswerRows(level, children)
  <1> DEFINE windows == Windows(level, args, parents)
             q == BuildQuery(level, args)
             ids == {n.row.id : n \in parents}
             V == Visible(db, block)
             P == 0..(IF q.range.first > 0 THEN q.range.first ELSE 0)
             Good(c) == /\ c.row.type \in TypesOf(level)
                        /\ \E id \in ids, r \in V, p \in P : c = Triple(id, r, p)
  <1>1. q.range.first \in Int /\ q.block = block
    BY DEF BuildQuery, BuildRange, FieldArguments
  <1>2. IsFiniteSet(ids) /\ IsFiniteSet(V) /\ IsFiniteSet(P)
    <2> DEFINE m == [n \in parents |-> n.row.id]
    <2>1. m \in Surjection(parents, ids)
      BY DEF Surjection
    <2>2. IsFiniteSet(ids)
      <3> HIDE DEF m, ids
      <3> QED
        BY <2>1, FS_Surjection
    <2>3. IsFiniteSet(P)
      BY <1>1, FS_Interval
    <2> QED
      BY <2>2, <2>3, VisibleFinite
  <1>3. \A w \in windows : w.ids \subseteq ids /\ w.type \in TypesOf(level)
    BY WindowFacts DEF IdsOf
  <1>4. \A w, id : \A r \in ChildrenOf(db, q, w, id) : r \in V /\ r.type = w.type
    BY <1>1 DEF ChildrenOf, FilteredRows, Visible
  <1> HIDE DEF q, V
  <1>5. ASSUME NEW order, NEW id \in ids, NEW rows, rows \subseteq V,
               \A r \in rows : r.type \in TypesOf(level),
               NEW c \in Placed(id, Ranged(order, q.range, rows))
        PROVE  Good(c)
    <2>1. PICK x \in Ranged(order, q.range, rows) :
             c = [parent |-> id, row |-> x.row, place |-> x.place]
      BY <1>5 DEF Placed
    <2>2. x.row \in rows /\ x.place \in 1..q.range.first
      BY RangedRows
    <2>3. x.place \in P /\ x.row \in V /\ x.row.type \in TypesOf(level)
      BY <1>1, <1>5, <2>2
    <2>4. c = Triple(id, x.row, x.place) /\ c.row = x.row
      BY <2>1 DEF Triple
    <2> HIDE DEF P, ids
    <2> QED
      BY <1>5, <2>3, <2>4
  <1>6. ASSUME NEW c \in children
        PROVE  Good(c)
    <2>1. CASE windows = {}
      BY <2>1 DEF Fetch
    <2>2. CASE windows # {} /\ Cardinality(windows) # 1
      <3>1. children = QueryWindow(db, q, windows)
        BY <2>2 DEF Fetch, WindowResults, q
      <3> DEFINE all(id) == UNION {ChildrenOf(db, q, w, id) : w \in {w \in windows : id \in w.ids}}
                 o == IF q.order = "none" THEN "id" ELSE q.order
      <3>2. PICK id \in CollectParents(windows) :
               \E m \in Matches(db, q, windows, id) : c \in MatchData(db, m)
        BY <3>1 DEF QueryWindow
      <3>3. PICK m \in Matches(db, q, windows, id) : c \in MatchData(db, m)
        BY <3>2
      <3>4. m \in Placed(id, Ranged(o, q.range, all(id)))
        BY <3>3 DEF Matches
      <3>5. id \in ids
        BY <1>3 DEF CollectParents
      <3>6. all(id) \subseteq V /\ \A r \in all(id) : r.type \in TypesOf(level)
        BY <1>3, <1>4
      <3>7. all(id) \subseteq db
        BY <3>6 DEF V, Visible
      <3>8. PICK A : A = all(id)
        OBVIOUS
      <3> HIDE DEF all, o, windows
      <3>9. c = m
        BY <3>3, <3>4, <3>7, <3>8, MatchDataSame
      <3> QED
        BY <1>5, <3>4, <3>5, <3>6, <3>8, <3>9
    <2>3. CASE windows # {} /\ Cardinality(windows) = 1
      <3> DEFINE w == CHOOSE x \in windows : TRUE
      <3>1. w \in windows
        BY <2>3
      <3>2. CASE ~q.single
        <4>1. children = RankedChildren(db, q, w)
          BY <2>3, <3>2 DEF Fetch, WindowResults, q
        <4> HIDE DEF w
        <4>2. PICK id \in w.ids :
                 c \in Placed(id, Ranged(q.order, q.range, ChildrenOf(db, q, w, id)))
          BY <4>1 DEF RankedChildren
        <4>3. id \in ids
          BY <1>3, <3>1
        <4>4. /\ ChildrenOf(db, q, w, id) \subseteq V
              /\ \A r \in ChildrenOf(db, q, w, id) : r.type \in TypesOf(level)
          BY <1>3, <1>4, <3>1
        <4> HIDE DEF windows
        <4> QED
          BY <1>5, <4>2, <4>3, <4>4
      <3>3. CASE q.single
        <4>1. children \in SingleChildren(db, q, w)
          BY <2>3, <3>3 DEF Fetch, WindowResults, q
        <4> HIDE DEF w
        <4>2. PICK id \in w.ids : \E r \in ChildrenOf(db, q, w, id) :
                 c = [parent |-> id, row |-> r, place |-> 0]
          BY <4>1 DEF SingleChildren
        <4>3. PICK r \in ChildrenOf(db, q, w, id) : c = [parent |-> id, row |-> r, place |-> 0]
          BY <4>2
        <4>4. id \in ids /\ r \in V /\ r.type \in TypesOf(level) /\ 0 \in P
          BY <1>1, <1>3, <1>4, <3>1
        <4>5. c = Triple(id, r, 0) /\ c.row = r
          BY <4>3 DEF Triple
        <4> HIDE DEF P, ids
        <4> QED
          BY <4>4, <4>5
      <3> QED
        BY <3>2, <3>3
    <2> QED
      BY <2>1, <2>2, <2>3
  <1> HIDE DEF ids, P
  <1>7. children \subseteq Triples(ids, V, P)
    BY <1>2, <1>6, TriplesFinite
  <1>8. IsFiniteSet(children)
    BY <1>2, <1>7, TriplesFinite, FS_Subset
  <1>9. \A c \in children : c.row \in V /\ c.row.type \in TypesOf(level)
    BY <1>6 DEF Triple
  <1> QED
    BY <1>8, <1>9 DEF AnswerRows, V

-----------------------------------------------------------------------------
(* The invariant of a query.                                                *)

FieldExact(args, level, parents, children) ==
    /\ args.single => SingleField(args, level, parents, children)
    /\ ~args.single => \A node \in parents :
          RowsOf(Perform(parents, children, node)) = RowsOf(Naive(args, level, node))

NodesInv ==
    /\ \E S : levels \in Seq(S)
    /\ Len(levels) <= Len(request.fields)
    /\ \A k \in 1..Len(levels) :
          IsFiniteSet(levels[k]) /\ \A n \in levels[k] : n.row.type \in TypesOf(k)
    /\ phase \in {"new", "locate"} => levels = <<>>

\* Every node is a row the subgraph had when the block was located, and every
\* level holds for each parent what a request for it alone would have given.
AnswerRight ==
    /\ \A k \in 1..Len(levels) : \A n \in levels[k] :
          Stripped(n.row) \in StrippedRows(Visible(start, block))
    /\ \A k \in 1..Len(levels) - 1 :
          FieldExact(request.fields[k + 1], k + 1, levels[k], levels[k + 1])

FetchInv ==
    /\ StartInv
    /\ BlockReverted \/ (BlockKept /\ AnswerRight)

\* The answer is right as long as the block of the query is there, and when it is
\* not, the counted reverts show it.
QueryInv ==
    /\ StoreInv /\ RequestInv /\ NodesInv
    /\ phase = "fetch" => FetchInv
    /\ phase = "done" => AnswerRight

LEMMA FieldFetched ==
    ASSUME StoreInv, StartInv, BlockKept, block \in Nat, NEW level, NEW args, NEW parents,
           ParentNodes(level, parents), IsFiniteSet(TypesOf(level)), FieldArguments(args),
           NEW children \in Fetch(level, args, parents)
    PROVE  FieldExact(args, level, parents, children)
<1>1. args.single \in BOOLEAN
    BY DEF FieldArguments
<1>2. CASE args.single
    <2>1. SingleField(args, level, parents, children)
        BY <1>2, SinglesExact
    <2>2. QED
        BY <1>2, <2>1 DEF FieldExact
<1>3. CASE ~args.single
    <2>1. \A node \in parents :
              RowsOf(Perform(parents, children, node)) = RowsOf(Naive(args, level, node))
        BY <1>1, <1>3, ListsExact
    <2>2. QED
        BY <1>3, <2>1 DEF FieldExact
<1>4. QED
    BY <1>2, <1>3

LEMMA NoParents ==
    ASSUME NEW level, NEW args
    PROVE  FieldExact(args, level, {}, {})
BY DEF FieldExact, SingleField

\* What a level means depends on the query, its block and the rows at its start.
LEMMA SameField ==
    ASSUME NEW args, NEW level, NEW parents, NEW children,
           UNCHANGED <<request, start, block>>, FieldExact(args, level, parents, children)
    PROVE  FieldExact(args, level, parents, children)'
BY DEF FieldExact, SingleField, Naive, LinkedRows, TypesOf

LEMMA AnswerKept ==
    ASSUME AnswerRight, UNCHANGED <<request, start, block, levels>>
    PROVE  AnswerRight'
<1>1. \A k \in 1..Len(levels)' : \A n \in levels'[k] :
          Stripped(n.row) \in StrippedRows(Visible(start', block'))
    BY DEF AnswerRight
<1>2. ASSUME NEW k \in 1..Len(levels) - 1
      PROVE  FieldExact(request.fields[k + 1], k + 1, levels[k], levels[k + 1])'
    <2>1. FieldExact(request.fields[k + 1], k + 1, levels[k], levels[k + 1])
        BY <1>2 DEF AnswerRight
    <2>2. PICK a, p, c : a = request.fields[k + 1] /\ p = levels[k] /\ c = levels[k + 1]
        OBVIOUS
    <2>3. FieldExact(a, k + 1, p, c)'
        BY <2>1, <2>2, SameField
    <2>4. a = request'.fields[k + 1] /\ p = levels'[k] /\ c = levels'[k + 1]
        BY <2>2
    <2>5. QED
        BY <2>3, <2>4
<1>3. QED
    BY <1>1, <1>2 DEF AnswerRight

LEMMA AnswerExtended ==
    ASSUME NodesInv, AnswerRight, UNCHANGED <<request, start, block>>, NEW children,
           levels' = Append(levels, children), levels # <<>>,
           \A n \in children : Stripped(n.row) \in StrippedRows(Visible(start, block)),
           FieldExact(request.fields[Len(levels) + 1], Len(levels) + 1,
                      levels[Len(levels)], children)
    PROVE  AnswerRight'
<1>1. /\ Len(levels) \in Nat /\ Len(levels') = Len(levels) + 1 /\ Len(levels) > 0
      /\ \A k \in 1..Len(levels) : levels'[k] = levels[k]
      /\ levels'[Len(levels) + 1] = children
    <2>1. PICK S : levels \in Seq(S)
        BY DEF NodesInv
    <2>2. levels \in Seq(S \cup {children}) /\ children \in S \cup {children}
        BY <2>1
    <2>3. QED
        BY <2>2
<1>2. \A k \in 1..Len(levels') : \A n \in levels'[k] :
          Stripped(n.row) \in StrippedRows(Visible(start', block'))
    BY <1>1 DEF AnswerRight
<1>3. ASSUME NEW k \in 1..Len(levels') - 1
      PROVE  FieldExact(request.fields[k + 1], k + 1, levels[k], levels[k + 1])'
    <2>1. FieldExact(request.fields[k + 1], k + 1, levels'[k], levels'[k + 1])
        BY <1>1, <1>3 DEF AnswerRight
    <2>2. PICK a, p, c : a = request.fields[k + 1] /\ p = levels'[k] /\ c = levels'[k + 1]
        OBVIOUS
    <2>3. FieldExact(a, k + 1, p, c)'
        BY <2>1, <2>2, SameField
    <2>4. a = request'.fields[k + 1]
        BY <2>2
    <2>5. QED
        BY <2>2, <2>3, <2>4
<1>4. QED
    BY <1>2, <1>3 DEF AnswerRight

-----------------------------------------------------------------------------
(* The steps of the query.                                                  *)

LEMMA ReadStateKeeps ==
    ASSUME QueryInv, ReadState
    PROVE  QueryInv'
<1>1. StoreInv'
    BY DEF QueryInv, ReadState, StoreInv, storeVars, NextVid
<1>2. RequestInv'
    BY DEF QueryInv, ReadState, StoreInv, RequestInv, storeVars, States, Reorgs, Errors
<1>3. NodesInv'
    BY DEF QueryInv, ReadState, NodesInv, TypesOf
<1>4. QED
    BY <1>1, <1>2, <1>3 DEF QueryInv, ReadState

LEMMA LocateBlockKeeps ==
    ASSUME QueryInv, LocateBlock
    PROVE  QueryInv'
<1>1. StoreInv'
    BY DEF QueryInv, LocateBlock, Failed, StoreInv, storeVars, NextVid
<1>2. head \in 0..MaxBlock /\ MaxBlock \in Nat /\ levels' = levels /\ request' = request
    BY BlockAssumption DEF QueryInv, StoreInv, LocateBlock, Failed
<1>3. CASE request.number # Null /\ head < request.number
    <2>1. /\ phase' = "ValueParseError" /\ UNCHANGED <<request, start, block, levels>>
          /\ UNCHANGED <<db, head, reorgs, state>>
        BY <1>3 DEF LocateBlock, Failed, storeVars
    <2>2. RequestInv'
        BY <2>1 DEF QueryInv, RequestInv, Errors, LocateBlock
    <2>3. NodesInv'
        BY <2>1 DEF QueryInv, NodesInv, TypesOf
    <2>4. QED
        BY <1>1, <2>1, <2>2, <2>3 DEF QueryInv
<1>4. CASE ~(request.number # Null /\ head < request.number)
    <2>1. /\ block' = IF request.number # Null THEN request.number ELSE head
          /\ start' = db /\ phase' = "fetch" /\ UNCHANGED <<request, levels>>
          /\ UNCHANGED <<db, head, reorgs, state>>
        BY <1>4 DEF LocateBlock, storeVars
    <2>2. block' \in 0..MaxBlock /\ block' <= head
        BY <1>2, <1>4, <2>1 DEF QueryInv, RequestInv
    <2>3. RequestInv'
        BY <2>1, <2>2 DEF QueryInv, RequestInv, LocateBlock
    <2>4. NodesInv' /\ levels = <<>>
        BY <2>1 DEF QueryInv, NodesInv, TypesOf, LocateBlock
    <2>5. StartInv'
        BY <2>1 DEF QueryInv, StoreInv, StartInv
    <2>6. BlockKept'
        BY <2>1, <2>2 DEF BlockKept
    <2>7. AnswerRight'
        <3>1. levels' = <<>> /\ Len(levels') = 0
            BY <2>1, <2>4
        <3>2. QED
            BY <3>1 DEF AnswerRight
    <2>8. QED
        BY <1>1, <2>1, <2>3, <2>4, <2>5, <2>6, <2>7 DEF QueryInv, FetchInv
<1>5. QED
    BY <1>3, <1>4

\* A step of the query that only reads the store.
LEMMA ReadingKeeps ==
    ASSUME QueryInv, phase = "fetch", UNCHANGED <<storeVars, state, request, start, block>>,
           phase' \in {"fetch", "done"} \cup Errors
    PROVE  /\ StoreInv' /\ RequestInv' /\ FetchInv /\ StartInv'
           /\ BlockReverted' = BlockReverted /\ BlockKept' = BlockKept
<1>1. StoreInv'
    BY DEF QueryInv, StoreInv, storeVars, NextVid
<1>2. RequestInv'
    BY DEF QueryInv, RequestInv, storeVars, Errors
<1>3. FetchInv
    BY DEF QueryInv
<1>4. StartInv'
    BY <1>3 DEF FetchInv, StartInv
<1>5. BlockReverted' = BlockReverted /\ BlockKept' = BlockKept
    BY DEF BlockReverted, BlockKept, storeVars
<1>6. QED
    BY <1>1, <1>2, <1>3, <1>4, <1>5

LEMMA GivenUp ==
    ASSUME QueryInv, phase = "fetch", UNCHANGED <<storeVars, state>>,
           NEW error \in Errors, Failed(error)
    PROVE  QueryInv'
<1>1. phase' = error /\ phase' \in Errors /\ UNCHANGED <<request, start, block, levels>>
    BY DEF Failed
<1>2. StoreInv' /\ RequestInv'
    BY <1>1, ReadingKeeps
<1>3. phase' \notin {"new", "locate", "fetch", "done"}
    BY <1>1 DEF Errors
<1>4. NodesInv'
    BY <1>1, <1>3 DEF QueryInv, NodesInv, TypesOf
<1>5. QED
    BY <1>2, <1>3, <1>4 DEF QueryInv

\* The rows of a level are rows of the subgraph at the start while the block is kept.
LEMMA RowsAtStart ==
    ASSUME BlockKept, NEW level, NEW nodes, AnswerRows(level, nodes)
    PROVE  \A n \in nodes : Stripped(n.row) \in StrippedRows(Visible(start, block))
<1>1. ASSUME NEW n \in nodes
      PROVE  Stripped(n.row) \in StrippedRows(Visible(db, block))
    BY <1>1 DEF AnswerRows, StrippedRows
<1>2. QED
    BY <1>1 DEF BlockKept

LEMMA ExecuteRootKeeps ==
    ASSUME QueryInv, ExecuteRoot
    PROVE  QueryInv'
<1> DEFINE args == request.fields[1]
           nodes == Root(QueryNoWindow(db, BuildQuery(1, args)))
<1>1. phase = "fetch" /\ levels = <<>> /\ UNCHANGED <<storeVars, state>>
    BY DEF ExecuteRoot
<1>2. CASE RangeError(args)
    <2>1. Failed("RangeArgumentsError") /\ "RangeArgumentsError" \in Errors
        BY <1>2 DEF ExecuteRoot, Errors
    <2>2. QED
        BY <1>1, <2>1, GivenUp
<1>3. CASE ~RangeError(args)
    <2>1. levels' = <<nodes>> /\ UNCHANGED <<request, start, block, phase>>
        BY <1>3 DEF ExecuteRoot
    <2>2. AnswerRows(1, nodes)
        BY RootRows DEF QueryInv
    <2>3. PICK ns : ns = nodes
        OBVIOUS
    <2> HIDE DEF nodes
    <2>4. levels' = <<ns>> /\ AnswerRows(1, ns)
        BY <2>1, <2>2, <2>3
    <2>5. /\ levels' \in Seq({ns}) /\ Len(levels') = 1 /\ levels'[1] = ns
        BY <2>4
    <2>6. /\ StoreInv' /\ RequestInv' /\ FetchInv /\ StartInv'
          /\ BlockReverted' = BlockReverted /\ BlockKept' = BlockKept
        BY <1>1, <2>1, ReadingKeeps
    <2>7. NodesInv'
        <3>1. (\E S : levels' \in Seq(S)) /\ Len(levels') <= Len(request'.fields)
            <4>1. Len(request'.fields) \in Nat \ {0}
                BY <2>1 DEF QueryInv, RequestInv
            <4>2. \E S : levels' \in Seq(S)
                BY <2>5, Zenon
            <4>3. QED
                BY <2>5, <4>1, <4>2
        <3>2. IsFiniteSet(ns) /\ \A n \in ns : n.row.type \in TypesOf(1)
            BY <2>4 DEF AnswerRows
        <3>3. TypesOf(1)' = TypesOf(1)
            BY <2>1 DEF TypesOf
        <3>4. \A k \in 1..Len(levels') : k = 1
            BY <2>5
        <3>5. phase' = "fetch"
            BY <1>1, <2>1
        <3>6. QED
            BY <2>5, <3>1, <3>2, <3>3, <3>4, <3>5 DEF NodesInv
    <2>8. ASSUME BlockKept
          PROVE  AnswerRight'
        <3>1. \A n \in ns : Stripped(n.row) \in StrippedRows(Visible(start, block))
            BY <2>4, <2>8, RowsAtStart
        <3>2. QED
            BY <2>1, <2>5, <3>1 DEF AnswerRight
    <2>9. FetchInv'
        BY <2>6, <2>8 DEF FetchInv
    <2>10. QED
        BY <1>1, <2>1, <2>6, <2>7, <2>9 DEF QueryInv
<1>4. QED
    BY <1>2, <1>3

\* A level is added to the query.
LEMMA LevelAdded ==
    ASSUME QueryInv, phase = "fetch", levels # <<>>, Len(levels) + 1 <= Len(request.fields),
           UNCHANGED <<storeVars, state, request, start, block, phase>>, NEW children,
           levels' = Append(levels, children), AnswerRows(Len(levels) + 1, children),
           BlockKept /\ AnswerRight =>
               FieldExact(request.fields[Len(levels) + 1], Len(levels) + 1,
                          levels[Len(levels)], children)
    PROVE  QueryInv'
<1>1. /\ StoreInv' /\ RequestInv' /\ FetchInv /\ StartInv'
      /\ BlockReverted' = BlockReverted /\ BlockKept' = BlockKept
    BY ReadingKeeps
<1>2. PICK S : levels \in Seq(S)
    BY DEF QueryInv, NodesInv
<1>3. /\ levels \in Seq(S \cup {children}) /\ children \in S \cup {children}
    BY <1>2
<1>4. /\ levels' \in Seq(S \cup {children}) /\ Len(levels') = Len(levels) + 1
      /\ \A k \in 1..Len(levels) : levels'[k] = levels[k]
      /\ levels'[Len(levels) + 1] = children /\ Len(levels) \in Nat
    BY <1>3
<1>5. NodesInv'
    <2>1. ASSUME NEW k \in 1..Len(levels')
          PROVE  IsFiniteSet(levels'[k]) /\ \A n \in levels'[k] : n.row.type \in TypesOf(k)
        <3>1. CASE k \in 1..Len(levels)
            BY <1>4, <3>1 DEF QueryInv, NodesInv
        <3>2. CASE k = Len(levels) + 1
            BY <1>4, <3>2 DEF AnswerRows
        <3>3. QED
            BY <1>4, <3>1, <3>2
    <2>2. QED
        BY <1>4, <2>1 DEF NodesInv, TypesOf
<1>6. ASSUME BlockKept, AnswerRight
      PROVE  AnswerRight'
    <2>1. \A n \in children : Stripped(n.row) \in StrippedRows(Visible(start, block))
        BY <1>6, RowsAtStart
    <2>2. QED
        BY <1>6, <2>1, AnswerExtended DEF QueryInv
<1>7. FetchInv'
    BY <1>1, <1>6 DEF FetchInv
<1>8. QED
    BY <1>1, <1>5, <1>7 DEF QueryInv

LEMMA ExecuteFieldKeeps ==
    ASSUME QueryInv, ExecuteField
    PROVE  QueryInv'
<1> DEFINE level == Len(levels) + 1
           args == request.fields[level]
           parents == levels[Len(levels)]
<1>1. /\ phase = "fetch" /\ levels # <<>> /\ level <= Len(request.fields)
      /\ UNCHANGED <<storeVars, state>>
    BY DEF ExecuteField
<1>2. /\ Len(levels) \in Nat /\ Len(levels) > 0 /\ level - 1 = Len(levels)
    <2>1. PICK S : levels \in Seq(S)
        BY DEF QueryInv, NodesInv
    <2>2. QED
        BY <1>1, <2>1
<1>3. FieldArguments(args) /\ IsFiniteSet(TypesOf(level)) /\ block \in Nat
    BY <1>1, <1>2, BlockAssumption DEF QueryInv, RequestInv, FieldArguments, TypesOf
<1>4. /\ IsFiniteSet(parents) /\ \A n \in parents : n.row.type \in TypesOf(level - 1)
    BY <1>2 DEF QueryInv, NodesInv
<1>5. CASE parents = {} /\ levels' = Append(levels, {})
           /\ UNCHANGED <<request, start, block, phase>>
    <2>1. AnswerRows(level, {})
        BY FS_EmptySet DEF AnswerRows
    <2>2. FieldExact(args, level, parents, {})
        BY <1>5, NoParents
    <2>3. QED
        BY <1>1, <1>5, <2>1, <2>2, LevelAdded
<1>6. CASE RangeError(args) /\ Failed("RangeArgumentsError")
    <2>1. "RangeArgumentsError" \in Errors
        BY DEF Errors
    <2>2. QED
        BY <1>1, <1>6, <2>1, GivenUp
<1>7. ASSUME NEW children \in Fetch(level, args, parents), levels' = Append(levels, children),
             UNCHANGED <<request, start, block, phase>>
      PROVE  QueryInv'
    <2>1. PICK l, a, p : l = level /\ a = args /\ p = parents
        OBVIOUS
    <2> HIDE DEF level, args, parents
    <2>2. /\ IsFiniteSet(p) /\ FieldArguments(a) /\ IsFiniteSet(TypesOf(l))
          /\ children \in Fetch(l, a, p) /\ StoreInv
        BY <1>3, <1>4, <1>7, <2>1 DEF QueryInv
    <2>3. AnswerRows(l, children)
        BY <2>2, FetchedRows
    <2>4. ASSUME BlockKept, AnswerRight
          PROVE  FieldExact(a, l, p, children)
        <3>1. ASSUME NEW n \in parents
              PROVE  Stripped(n.row) \in StrippedRows(Visible(db, block))
            <4>1. Stripped(n.row) \in StrippedRows(Visible(start, block))
                BY <1>2, <2>4, <3>1 DEF AnswerRight, parents
            <4>2. QED
                BY <2>4, <4>1 DEF BlockKept
        <3>2. ParentNodes(l, p)
            BY <1>1, <1>2, <1>4, <2>1, <3>1 DEF ParentNodes, QueryInv, RequestInv, level
        <3>3. StartInv
            BY <1>1 DEF QueryInv, FetchInv
        <3>4. QED
            BY <1>3, <2>2, <2>4, <3>2, <3>3, FieldFetched
    <2>5. AnswerRows(level, children)
        BY <2>1, <2>3
    <2>6. BlockKept /\ AnswerRight => FieldExact(args, level, parents, children)
        BY <2>1, <2>4
    <2>7. QED
        BY <1>1, <1>7, <2>5, <2>6, LevelAdded DEF level, args, parents
<1>8. QED
    BY <1>2, <1>5, <1>6, <1>7 DEF ExecuteField

LEMMA ManyReverts ==
    ASSUME NEW m \in Nat, NEW d \in Nat, m > 0
    PROVE  m * d >= d
<1>1. PICK k \in Nat : m = k + 1
    <2>1. m - 1 \in Nat /\ m = (m - 1) + 1
        OBVIOUS
    <2>2. QED
        BY <2>1
<1>2. (k + 1) * d = k * d + d /\ k * d \in Nat
    OBVIOUS
<1>3. QED
    BY <1>1, <1>2

\* deployment_changed sees every revert that has reached the block of the query.
LEMMA RevertSeen ==
    ASSUME StoreInv, RequestInv, BlockReverted
    PROVE  DeploymentChanged
<1>1. PICK m, d : m = reorgs.max /\ d = reorgs.count - state.count
    OBVIOUS
<1>2. m \in Nat /\ d \in Nat /\ m > 0
    BY <1>1 DEF StoreInv, RequestInv, BlockReverted, Reorgs, States
<1>3. m * d >= d /\ m * d \in Nat
    BY <1>2, ManyReverts
<1>4. block + d > state.latest /\ block \in Nat /\ state.latest \in Nat
    BY <1>1, BlockAssumption DEF BlockReverted, RequestInv, States
<1>5. block + m * d > state.latest
    BY <1>2, <1>3, <1>4
<1>6. QED
    BY <1>1, <1>5 DEF DeploymentChanged, BlockReverted

LEMMA FetchDoneKeeps ==
    ASSUME QueryInv, FetchDone
    PROVE  QueryInv'
<1>1. /\ phase = "fetch" /\ phase' = IF DeploymentChanged THEN "DeploymentReverted" ELSE "done"
      /\ UNCHANGED <<storeVars, state, request, start, block, levels>>
    BY DEF FetchDone
<1>2. phase' \in {"done"} \cup Errors /\ phase' # "fetch"
    BY <1>1 DEF Errors
<1>3. StoreInv' /\ RequestInv' /\ FetchInv
    BY <1>1, <1>2, ReadingKeeps
<1>4. NodesInv'
    BY <1>1, <1>2 DEF QueryInv, NodesInv, TypesOf, Errors
<1>5. ASSUME phase' = "done"
      PROVE  AnswerRight'
    <2>1. ~DeploymentChanged
        BY <1>1, <1>5
    <2>2. ~BlockReverted
        BY <2>1, RevertSeen DEF QueryInv
    <2>3. AnswerRight
        BY <1>3, <2>2 DEF FetchInv
    <2>4. QED
        BY <1>1, <2>3, AnswerKept
<1>6. QED
    BY <1>2, <1>3, <1>4, <1>5 DEF QueryInv

LEMMA DeadlinePassedKeeps ==
    ASSUME QueryInv, DeadlinePassed
    PROVE  QueryInv'
<1>1. /\ phase = "fetch" /\ UNCHANGED <<storeVars, state>> /\ Failed("Timeout")
      /\ "Timeout" \in Errors
    BY DEF DeadlinePassed, Errors
<1>2. QED
    BY <1>1, GivenUp

-----------------------------------------------------------------------------
(* The steps of the indexer.                                                *)

LEMMA IndexBlockKeeps ==
    ASSUME QueryInv, IndexBlock
    PROVE  QueryInv'
<1>1. StoreInv'
    BY IndexBlockKeepsStore DEF QueryInv
<1>2. /\ head' = head + 1 /\ head \in Nat /\ UNCHANGED <<state, request, start, block, levels, phase>>
      /\ phase \in {"new", "locate", "fetch"}
      /\ reorgs'.count = reorgs.count /\ reorgs.count \in Nat /\ block \in Nat
    BY BlockAssumption DEF IndexBlock, Running, QueryInv, StoreInv, RequestInv, Reorgs
<1>3. RequestInv'
    BY <1>2 DEF QueryInv, RequestInv, States
<1>4. NodesInv'
    BY <1>2 DEF QueryInv, NodesInv, TypesOf
<1>5. ASSUME phase = "fetch"
      PROVE  FetchInv'
    <2>1. StartInv' /\ FetchInv
        BY <1>2, <1>5 DEF QueryInv, FetchInv, StartInv
    <2>2. CASE BlockReverted
        BY <1>2, <2>1, <2>2 DEF FetchInv, BlockReverted
    <2>3. CASE BlockKept /\ AnswerRight
        <3>1. PICK b \in Nat : b = block
            BY <1>2
        <3>2. StrippedRows(Visible(db', b)) = StrippedRows(Visible(db, b))
            BY <2>3, <3>1, IndexBlockKeepsBlock DEF QueryInv, BlockKept
        <3>3. block' <= head'
            BY <1>2, <2>3 DEF BlockKept
        <3>4. BlockKept'
            BY <1>2, <2>3, <3>1, <3>2, <3>3 DEF BlockKept
        <3>5. AnswerRight'
            BY <1>2, <2>3, AnswerKept
        <3>6. QED
            BY <2>1, <3>4, <3>5 DEF FetchInv
    <2>4. QED
        BY <2>1, <2>2, <2>3 DEF FetchInv
<1>6. QED
    BY <1>1, <1>2, <1>3, <1>4, <1>5 DEF QueryInv

LEMMA RevertBlockKeeps ==
    ASSUME QueryInv, RevertBlock
    PROVE  QueryInv'
<1>1. StoreInv'
    BY RevertBlockKeepsStore DEF QueryInv
<1>2. /\ head' = head - 1 /\ head \in Nat /\ UNCHANGED <<state, request, start, block, levels, phase>>
      /\ phase \in {"new", "locate", "fetch"}
      /\ reorgs'.count = reorgs.count + 1 /\ reorgs.count \in Nat /\ block \in Nat
      /\ state.count \in Nat /\ state.latest \in Nat
    BY BlockAssumption
       DEF RevertBlock, CountedRevert, Running, QueryInv, StoreInv, RequestInv, Reorgs, States
<1>3. RequestInv'
    BY <1>2 DEF QueryInv, RequestInv
<1>4. NodesInv'
    BY <1>2 DEF QueryInv, NodesInv, TypesOf
<1>5. ASSUME phase = "fetch"
      PROVE  FetchInv'
    <2>1. StartInv' /\ FetchInv
        BY <1>2, <1>5 DEF QueryInv, FetchInv, StartInv
    <2>2. CASE BlockReverted
        <3>1. BlockReverted'
            BY <1>2, <2>2 DEF BlockReverted
        <3>2. QED
            BY <2>1, <3>1 DEF FetchInv
    <2>3. CASE BlockKept /\ AnswerRight /\ block < head
        <3>1. PICK b \in Nat : b = block
            BY <1>2
        <3>2. StrippedRows(Visible(db', b)) = StrippedRows(Visible(db, b))
            BY <2>3, <3>1, RevertBlockKeepsBlock DEF QueryInv
        <3>3. block' <= head'
            BY <1>2, <2>3
        <3>4. BlockKept'
            BY <1>2, <2>3, <3>1, <3>2, <3>3 DEF BlockKept
        <3>5. AnswerRight'
            BY <1>2, <2>3, AnswerKept
        <3>6. QED
            BY <2>1, <3>4, <3>5 DEF FetchInv
    <2>4. CASE BlockKept /\ ~(block < head)
        <3>1. block = head
            BY <1>2, <2>4 DEF BlockKept
        <3>2. /\ state.count <= reorgs.count
              /\ head + (reorgs.count - state.count) >= state.latest
            BY <1>5 DEF QueryInv, RequestInv
        <3>3. BlockReverted'
            BY <1>2, <3>1, <3>2 DEF BlockReverted
        <3>4. QED
            BY <2>1, <3>3 DEF FetchInv
    <2>5. QED
        BY <2>1, <2>2, <2>3, <2>4 DEF FetchInv
<1>6. QED
    BY <1>1, <1>2, <1>3, <1>4, <1>5 DEF QueryInv

-----------------------------------------------------------------------------

LEMMA QueryInitially ==
    ASSUME QueryInit
    PROVE  QueryInv
<1>1. StoreInv /\ RequestInv /\ phase = "new" /\ levels = <<>>
    BY InitialStore
<1>2. levels \in Seq({}) /\ Len(levels) = 0
    BY <1>1
<1>3. NodesInv
    BY <1>1, <1>2 DEF NodesInv, RequestInv
<1>4. QED
    BY <1>1, <1>3 DEF QueryInv

LEMMA QueryStutters ==
    ASSUME QueryInv, UNCHANGED queryVars
    PROVE  QueryInv'
<1>1. UNCHANGED <<db, head, reorgs, state, request, start, block, levels, phase>>
    BY DEF queryVars, storeVars
<1>2. StoreInv' /\ RequestInv' /\ NodesInv'
    BY <1>1 DEF QueryInv, StoreInv, RequestInv, NodesInv, NextVid, TypesOf
<1>3. phase' = "done" => AnswerRight'
    BY <1>1, AnswerKept DEF QueryInv
<1>4. ASSUME phase' = "fetch"
      PROVE  FetchInv'
    <2>1. FetchInv
        BY <1>1, <1>4 DEF QueryInv
    <2>2. StartInv' /\ BlockReverted' = BlockReverted /\ BlockKept' = BlockKept
        BY <1>1, <2>1 DEF FetchInv, StartInv, BlockReverted, BlockKept
    <2>3. AnswerRight => AnswerRight'
        BY <1>1, AnswerKept
    <2>4. QED
        BY <2>1, <2>2, <2>3 DEF FetchInv
<1>5. QED
    BY <1>2, <1>3, <1>4 DEF QueryInv

LEMMA QueryStep ==
    ASSUME QueryInv, [QueryNext]_queryVars
    PROVE  QueryInv'
BY ReadStateKeeps, LocateBlockKeeps, ExecuteRootKeeps, ExecuteFieldKeeps, FetchDoneKeeps,
   DeadlinePassedKeeps, IndexBlockKeeps, RevertBlockKeeps, QueryStutters DEF QueryNext

LEMMA QueryInvLevels ==
    ASSUME QueryInv
    PROVE  LevelsExact
<1>1. QueryTypeOK
    BY DEF QueryInv, StoreInv, RequestInv, NodesInv, QueryTypeOK
<1>2. Len(levels) \in Nat
    <2>1. PICK S : levels \in Seq(S)
        BY DEF QueryInv, NodesInv
    <2>2. QED
        BY <2>1
<1>3. ASSUME phase = "done", NEW k \in 1..Len(levels) - 1
      PROVE  /\ FieldExact(request.fields[k + 1], k + 1, levels[k], levels[k + 1])
             /\ Level(k) = levels[k] /\ Level(k + 1) = levels[k + 1]
    <2>1. k \in 1..Len(levels) /\ k + 1 \in 1..Len(levels)
        BY <1>2, <1>3
    <2>2. QED
        BY <1>3, <2>1 DEF QueryInv, AnswerRight, Level
<1>4. BatchesMatchSingleRequests
    BY <1>3 DEF BatchesMatchSingleRequests, FieldExact, ChildrenOfNode
<1>5. SingleObjectsExact
    <2>1. ASSUME phase = "done", NEW k \in 1..Len(levels) - 1, request.fields[k + 1].single
          PROVE  SingleField(request.fields[k + 1], k + 1, levels[k], levels[k + 1])
        BY <1>3, <2>1 DEF FieldExact
    <2>2. QED
        BY <1>3, <2>1 DEF SingleObjectsExact, SingleField, ChildrenOfNode
<1>6. QED
    BY <1>1, <1>4, <1>5 DEF LevelsExact

LEMMA QueryInvDelivered ==
    ASSUME QueryInv
    PROVE  DeliveredAsOfLocatedBlock
<1>1. ASSUME phase = "done", NEW k \in 1..Len(levels), NEW n \in levels[k]
      PROVE  \E r \in start : /\ r.vid = n.row.vid /\ r.type = n.row.type /\ r.n = n.row.n
                              /\ BlockRangeContains(r, block)
    <2>1. Stripped(n.row) \in StrippedRows(Visible(start, block))
        BY <1>1 DEF QueryInv, AnswerRight
    <2>2. PICK r \in Visible(start, block) : Stripped(n.row) = Stripped(r)
        BY <2>1 DEF StrippedRows
    <2>3. r.vid = n.row.vid /\ r.type = n.row.type /\ r.n = n.row.n
        BY <2>2, StrippedFields
    <2>4. r \in start /\ BlockRangeContains(r, block)
        BY <2>2 DEF Visible
    <2>5. QED
        BY <2>3, <2>4
<1>2. QED
    BY <1>1 DEF DeliveredAsOfLocatedBlock

\* The prefetcher (execute_root_selection_set, execute_field, fetch, Join::perform)
\* is right for every schema, every data and every query: one request to the store
\* for all parents of a level gives each parent of a list field the children, the
\* order and the range that a request of its own at the located block would give
\* it, and a field with a single object loses nothing to its limit, whatever the
\* indexer adds or reverts in between.
THEOREM QueryLevelsExact == QuerySpec => []LevelsExact
<1>1. QueryInit => QueryInv
    BY QueryInitially
<1>2. QueryInv /\ [QueryNext]_queryVars => QueryInv'
    BY QueryStep
<1>3. QueryInv => LevelsExact
    BY QueryInvLevels
<1>4. QED
    BY <1>1, <1>2, <1>3, PTL DEF QuerySpec

\* A query that is delivered shows the entities of one moment, those of the block
\* that locate_block found, although each level is a request of its own:
\* deployment_changed discards every result that a revert may have touched.
THEOREM QueryDeliversOneBlock == QuerySpec => []DeliveredAsOfLocatedBlock
<1>1. QueryInit => QueryInv
    BY QueryInitially
<1>2. QueryInv /\ [QueryNext]_queryVars => QueryInv'
    BY QueryStep
<1>3. QueryInv => DeliveredAsOfLocatedBlock
    BY QueryInvDelivered
<1>4. QED
    BY <1>1, <1>2, <1>3, PTL DEF QuerySpec

-----------------------------------------------------------------------------
(***************************************************************************)
(* LoadManager: moving statistics.                                         *)
(***************************************************************************)

Bins == [start : Nat, duration : Nat, count : Nat]

Stats == [bins : Seq(Bins), duration : Nat, count : Nat]

\* Bins in order, within one window, none from the future.
InOrder(bins, now) ==
    /\ \A i, j \in 1..Len(bins) : i < j =>
          /\ bins[j].start - bins[i].start >= BIN_SIZE
          /\ bins[j].start - bins[i].start < WINDOW_SIZE
    /\ \A i \in 1..Len(bins) : bins[i].start <= now

StatsOK(s, now) ==
    /\ s \in Stats
    /\ s.duration = Durations(s.bins) /\ s.count = Counts(s.bins)
    /\ InOrder(s.bins, now)

LEMMA LeastOf ==
    ASSUME NEW S \in SUBSET Nat, S # {}
    PROVE  Min(S) \in S /\ \A i \in S : Min(S) <= i
  <1> DEFINE rows == {[id |-> i] : i \in S}
  <1>1. rows # {} /\ \A r \in rows : r.id \in Nat
    <2>1. PICK i \in S : TRUE
      OBVIOUS
    <2>2. [id |-> i] \in rows
      OBVIOUS
    <2>3. ASSUME NEW r \in rows
          PROVE  r.id \in Nat
      <3>1. PICK j \in S : r = [id |-> j]
        OBVIOUS
      <3> QED
        BY <3>1
    <2> QED
      BY <2>2, <2>3
  <1>2. \E r \in rows : \A q \in rows : r.id <= q.id
    <2> HIDE DEF rows
    <2> QED
      BY <1>1, LeastId
  <1>3. PICK r \in rows : \A q \in rows : r.id <= q.id
    BY <1>2
  <1>4. r.id \in S /\ \A i \in S : r.id <= i
    <2>1. PICK j \in S : r = [id |-> j]
      OBVIOUS
    <2>2. ASSUME NEW i \in S
          PROVE  r.id <= i
      <3>1. [id |-> i] \in rows
        OBVIOUS
      <3>2. r.id <= [id |-> i].id
        BY <1>3, <3>1
      <3> QED
        BY <3>2
    <2> QED
      BY <2>1, <2>2
  <1> QED
    BY <1>4 DEF Min

\* What expire_bins leaves: the bins from the first that has not expired on.
LEMMA FirstKeptFacts ==
    ASSUME NEW bins \in Seq(Bins), NEW now \in Nat
    PROVE  /\ FirstKept(bins, now) \in 1..Len(bins) + 1
           /\ \A i \in 1..Len(bins) : i < FirstKept(bins, now) => Expired(bins[i], now)
           /\ FirstKept(bins, now) \in 1..Len(bins) => ~Expired(bins[FirstKept(bins, now)], now)
           /\ \A i \in 1..Len(bins) : ~Expired(bins[i], now) => FirstKept(bins, now) <= i
  <1> DEFINE S == {i \in 1..Len(bins) : ~Expired(bins[i], now)} \cup {Len(bins) + 1}
  <1>1. S \in SUBSET Nat /\ S # {} /\ Len(bins) \in Nat
    OBVIOUS
  <1>2. Min(S) \in S /\ \A i \in S : Min(S) <= i
    <2> HIDE DEF S
    <2> QED
      BY <1>1, LeastOf
  <1>3. FirstKept(bins, now) = Min(S)
    BY DEF FirstKept
  <1>4. PICK m : m = FirstKept(bins, now)
    OBVIOUS
  <1>5. m \in S /\ \A i \in S : m <= i
    BY <1>2, <1>3, <1>4
  <1>6. ASSUME NEW i \in 1..Len(bins), i < m
        PROVE  Expired(bins[i], now)
    BY <1>1, <1>5, <1>6
  <1>7. m \in 1..Len(bins) + 1 /\ (m \in 1..Len(bins) => ~Expired(bins[m], now))
    BY <1>1, <1>5
  <1>8. \A i \in 1..Len(bins) : ~Expired(bins[i], now) => m <= i
    BY <1>5
  <1> QED
    BY <1>4, <1>6, <1>7, <1>8

LEMMA SubSeqFacts ==
    ASSUME NEW bins \in Seq(Bins), NEW m \in 1..Len(bins) + 1
    PROVE  LET rest == SubSeq(bins, m, Len(bins))
               gone == SubSeq(bins, 1, m - 1)
           IN /\ rest \in Seq(Bins) /\ Len(rest) = Len(bins) - (m - 1)
              /\ \A i \in 1..Len(rest) : rest[i] = bins[i + (m - 1)]
              /\ gone \in Seq(Bins) /\ Len(gone) = m - 1
              /\ \A i \in 1..Len(gone) : gone[i] = bins[i]
  <1>1. Len(bins) \in Nat /\ m \in Nat /\ m >= 1 /\ m <= Len(bins) + 1
    OBVIOUS
  <1>2. \A i \in m..Len(bins) : bins[i] \in Bins
    BY <1>1
  <1>3. \A i \in 1..m - 1 : bins[i] \in Bins
    BY <1>1
  <1> QED
    BY <1>1, <1>2, <1>3

\* The sum of a field over a sequence is that over a prefix and over the rest.
LEMMA SplitTail ==
    ASSUME NEW n \in Nat, NEW m \in 1..n + 1, NEW f, NEW g, NEW h,
           NatOn(f, 1..n), SameOn(g, f, 1..m - 1), ShiftedOn(h, f, 1..n - (m - 1), m - 1)
    PROVE  /\ SumFunctionOnSet(f, 1..n)
                = SumFunctionOnSet(g, 1..m - 1) + SumFunctionOnSet(h, 1..n - (m - 1))
           /\ SumFunctionOnSet(g, 1..m - 1) \in Nat
           /\ SumFunctionOnSet(h, 1..n - (m - 1)) \in Nat
  <1>0. /\ m - 1 \in 0..n /\ m - 1 \in Int /\ n - (m - 1) \in Int
        /\ \A i \in 1..m - 1 : i \in 1..n
        /\ \A i \in 1..n - (m - 1) : i + (m - 1) \in 1..n
    OBVIOUS
  <1>1. /\ m - 1 \in 0..n /\ NatOn(f, 1..n) /\ NatOn(f, 1..m - 1) /\ NatOn(g, 1..m - 1)
        /\ NatOn(h, 1..n - (m - 1))
        /\ IsFiniteSet(1..m - 1) /\ IsFiniteSet(1..n - (m - 1))
    <2>1. IsFiniteSet(1..m - 1) /\ IsFiniteSet(1..n - (m - 1))
      BY <1>0, FS_Interval
    <2>2. NatOn(f, 1..n) /\ NatOn(f, 1..m - 1) /\ NatOn(g, 1..m - 1)
      BY <1>0 DEF NatOn, SameOn
    <2>3. NatOn(h, 1..n - (m - 1))
      BY <1>0 DEF NatOn, ShiftedOn
    <2> QED
      BY <1>0, <2>1, <2>2, <2>3
  <1>2. SumFunctionOnSet(f, 1..n)
          = SumFunctionOnSet(f, 1..m - 1) + SumFunctionOnSet(f, ((m - 1) + 1)..n)
    BY <1>1, SumSplit
  <1>3. SumFunctionOnSet(g, 1..m - 1) = SumFunctionOnSet(f, 1..m - 1)
    BY <1>1, SumSame DEF SameOn
  <1>4. SumFunctionOnSet(h, 1..n - (m - 1)) = SumFunctionOnSet(f, Shifted(1..n - (m - 1), m - 1))
    <2>1. PICK S, k : S = 1..n - (m - 1) /\ k = m - 1
      OBVIOUS
    <2>2. S \in SUBSET Int /\ k \in Int /\ IsFiniteSet(S) /\ NatOn(h, S) /\ ShiftedOn(h, f, S, k)
      BY <1>1, <2>1
    <2>3. SumFunctionOnSet(h, S) = SumFunctionOnSet(f, Shifted(S, k))
      BY <2>2, SumShift
    <2> QED
      BY <2>1, <2>3
  <1>5. Shifted(1..n - (m - 1), m - 1) = ((m - 1) + 1)..n
    <2>1. ASSUME NEW j \in ((m - 1) + 1)..n
          PROVE  j \in Shifted(1..n - (m - 1), m - 1)
      <3>1. j - (m - 1) \in 1..n - (m - 1) /\ j = (j - (m - 1)) + (m - 1)
        OBVIOUS
      <3> QED
        BY <3>1 DEF Shifted
    <2>2. ASSUME NEW i \in 1..n - (m - 1)
          PROVE  i + (m - 1) \in ((m - 1) + 1)..n
      OBVIOUS
    <2> QED
      BY <2>1, <2>2 DEF Shifted
  <1>6. /\ SumFunctionOnSet(g, 1..m - 1) \in Nat
        /\ SumFunctionOnSet(h, 1..n - (m - 1)) \in Nat
    BY <1>1, SumNat
  <1> QED
    BY <1>2, <1>3, <1>4, <1>5, <1>6

LEMMA SplitBins ==
    ASSUME NEW bins \in Seq(Bins), NEW m \in 1..Len(bins) + 1
    PROVE  LET rest == SubSeq(bins, m, Len(bins))
               gone == SubSeq(bins, 1, m - 1)
           IN /\ Durations(bins) = Durations(gone) + Durations(rest)
              /\ Counts(bins) = Counts(gone) + Counts(rest)
              /\ Durations(gone) \in Nat /\ Durations(rest) \in Nat
              /\ Counts(gone) \in Nat /\ Counts(rest) \in Nat
  <1> DEFINE rest == SubSeq(bins, m, Len(bins))
             gone == SubSeq(bins, 1, m - 1)
             D(s) == [i \in 1..Len(s) |-> s[i].duration]
             C(s) == [i \in 1..Len(s) |-> s[i].count]
  <1>1. /\ rest \in Seq(Bins) /\ Len(rest) = Len(bins) - (m - 1)
        /\ \A i \in 1..Len(rest) : rest[i] = bins[i + (m - 1)]
        /\ gone \in Seq(Bins) /\ Len(gone) = m - 1
        /\ \A i \in 1..Len(gone) : gone[i] = bins[i]
    BY SubSeqFacts
  <1>2. Len(bins) \in Nat /\ \A i \in 1..Len(bins) : bins[i].duration \in Nat /\ bins[i].count \in Nat
    <2>1. Len(bins) \in Nat /\ \A i \in 1..Len(bins) : bins[i] \in Bins
      OBVIOUS
    <2> QED
      BY <2>1 DEF Bins
  <1> HIDE DEF rest, gone
  <1>3. PICK n : n = Len(bins)
    OBVIOUS
  <1>4. n \in Nat /\ m \in 1..n + 1
    BY <1>2, <1>3
  <1>5. /\ \A i \in 1..m - 1 : i \in 1..n
        /\ \A i \in 1..n - (m - 1) : i + (m - 1) \in 1..n
    BY <1>4
  <1>6. /\ \A i \in 1..n : D(bins)[i] \in Nat
        /\ \A i \in 1..m - 1 : D(gone)[i] = D(bins)[i]
        /\ \A i \in 1..n - (m - 1) : D(rest)[i] = D(bins)[i + (m - 1)]
    BY <1>1, <1>2, <1>3, <1>5
  <1>7. /\ \A i \in 1..n : C(bins)[i] \in Nat
        /\ \A i \in 1..m - 1 : C(gone)[i] = C(bins)[i]
        /\ \A i \in 1..n - (m - 1) : C(rest)[i] = C(bins)[i + (m - 1)]
    BY <1>1, <1>2, <1>3, <1>5
  <1>8. /\ Durations(bins) = SumFunctionOnSet(D(bins), 1..n)
        /\ Durations(gone) = SumFunctionOnSet(D(gone), 1..m - 1)
        /\ Durations(rest) = SumFunctionOnSet(D(rest), 1..n - (m - 1))
        /\ Counts(bins) = SumFunctionOnSet(C(bins), 1..n)
        /\ Counts(gone) = SumFunctionOnSet(C(gone), 1..m - 1)
        /\ Counts(rest) = SumFunctionOnSet(C(rest), 1..n - (m - 1))
    BY <1>1, <1>3 DEF Durations, Counts
  <1> HIDE DEF D, C
  <1>9. /\ Durations(bins) = Durations(gone) + Durations(rest)
        /\ Durations(gone) \in Nat /\ Durations(rest) \in Nat
    <2>1. PICK f, g, h : f = D(bins) /\ g = D(gone) /\ h = D(rest)
      OBVIOUS
    <2>2. NatOn(f, 1..n) /\ SameOn(g, f, 1..m - 1) /\ ShiftedOn(h, f, 1..n - (m - 1), m - 1)
      BY <1>6, <2>1 DEF NatOn, SameOn, ShiftedOn
    <2>3. /\ SumFunctionOnSet(f, 1..n)
                = SumFunctionOnSet(g, 1..m - 1) + SumFunctionOnSet(h, 1..n - (m - 1))
          /\ SumFunctionOnSet(g, 1..m - 1) \in Nat
          /\ SumFunctionOnSet(h, 1..n - (m - 1)) \in Nat
      BY <1>4, <2>2, SplitTail
    <2> QED
      BY <1>8, <2>1, <2>3
  <1>10. /\ Counts(bins) = Counts(gone) + Counts(rest)
         /\ Counts(gone) \in Nat /\ Counts(rest) \in Nat
    <2>1. PICK f, g, h : f = C(bins) /\ g = C(gone) /\ h = C(rest)
      OBVIOUS
    <2>2. NatOn(f, 1..n) /\ SameOn(g, f, 1..m - 1) /\ ShiftedOn(h, f, 1..n - (m - 1), m - 1)
      BY <1>7, <2>1 DEF NatOn, SameOn, ShiftedOn
    <2>3. /\ SumFunctionOnSet(f, 1..n)
                = SumFunctionOnSet(g, 1..m - 1) + SumFunctionOnSet(h, 1..n - (m - 1))
          /\ SumFunctionOnSet(g, 1..m - 1) \in Nat
          /\ SumFunctionOnSet(h, 1..n - (m - 1)) \in Nat
      BY <1>4, <2>2, SplitTail
    <2> QED
      BY <1>8, <2>1, <2>3
  <1> QED
    BY <1>9, <1>10 DEF rest, gone

-----------------------------------------------------------------------------
(* The three steps of add_at: a new bin, expiry, the measurement.           *)

Rising(bins, now) ==
    /\ \A i, j \in 1..Len(bins) : i < j => bins[j].start - bins[i].start >= BIN_SIZE
    /\ \A i \in 1..Len(bins) : bins[i].start <= now

NewBin(now) == [start |-> now, duration |-> 0, count |-> 0]

LEMMA AppendedZero ==
    ASSUME NEW n \in Nat, NEW f, NEW g, NatOn(g, 1..n), SameOn(f, g, 1..n), f[n + 1] = 0
    PROVE  SumFunctionOnSet(f, 1..n + 1) = SumFunctionOnSet(g, 1..n)
  <1>1. NatOn(f, 1..n + 1) /\ IsFiniteSet(1..n + 1) /\ (1..n) \in SUBSET (1..n + 1)
    <2>1. n + 1 \in Int /\ \A i \in 1..n + 1 : i \in 1..n \/ i = n + 1
      OBVIOUS
    <2>2. IsFiniteSet(1..n + 1)
      BY <2>1, FS_Interval
    <2>3. NatOn(f, 1..n + 1)
      BY <2>1 DEF NatOn, SameOn
    <2> QED
      BY <2>2, <2>3
  <1>2. (\A x \in 1..n : g[x] = f[x]) /\ \A x \in (1..n + 1) \ (1..n) : f[x] = 0
    BY DEF SameOn
  <1> QED
    BY <1>1, <1>2, SumSupport

LEMMA BinAt ==
    ASSUME NEW bins \in Seq(Bins)
    PROVE  /\ Len(bins) \in Nat
           /\ \A i \in 1..Len(bins) : /\ bins[i] \in Bins /\ bins[i].start \in Nat
                                      /\ bins[i].duration \in Nat /\ bins[i].count \in Nat
  <1>1. Len(bins) \in Nat /\ \A i \in 1..Len(bins) : bins[i] \in Bins
    OBVIOUS
  <1> QED
    BY <1>1 DEF Bins

LEMMA AppendedBin ==
    ASSUME NEW bins \in Seq(Bins), NEW now \in Nat
    PROVE  LET more == Append(bins, NewBin(now))
           IN /\ more \in Seq(Bins) /\ Len(more) = Len(bins) + 1
              /\ \A i \in 1..Len(bins) : more[i] = bins[i]
              /\ more[Len(bins) + 1] = NewBin(now)
              /\ Durations(more) = Durations(bins) /\ Counts(more) = Counts(bins)
  <1> DEFINE more == Append(bins, NewBin(now))
             D(s) == [i \in 1..Len(s) |-> s[i].duration]
             C(s) == [i \in 1..Len(s) |-> s[i].count]
  <1>1. NewBin(now) \in Bins
    BY DEF NewBin, Bins
  <1>2. /\ more \in Seq(Bins) /\ Len(more) = Len(bins) + 1
        /\ \A i \in 1..Len(bins) : more[i] = bins[i]
        /\ more[Len(bins) + 1] = NewBin(now)
    BY <1>1
  <1>3. PICK n, d, c, e, b : /\ n = Len(bins) /\ d = D(bins) /\ c = C(bins)
                             /\ e = D(more) /\ b = C(more)
    OBVIOUS
  <1>4. n \in Nat /\ \A i \in 1..n : bins[i].duration \in Nat /\ bins[i].count \in Nat
    BY <1>3, BinAt
  <1> HIDE DEF more
  <1>5. n + 1 \in 1..n + 1 /\ \A i \in 1..n : i \in 1..n + 1
    BY <1>4
  <1>6. /\ NatOn(d, 1..n) /\ NatOn(c, 1..n) /\ SameOn(e, d, 1..n) /\ SameOn(b, c, 1..n)
        /\ e[n + 1] = 0 /\ b[n + 1] = 0
    BY <1>2, <1>3, <1>4, <1>5 DEF NatOn, SameOn, NewBin
  <1>7. /\ SumFunctionOnSet(e, 1..n + 1) = SumFunctionOnSet(d, 1..n)
        /\ SumFunctionOnSet(b, 1..n + 1) = SumFunctionOnSet(c, 1..n)
    BY <1>4, <1>6, AppendedZero
  <1>8. Durations(more) = Durations(bins) /\ Counts(more) = Counts(bins)
    BY <1>2, <1>3, <1>7 DEF Durations, Counts
  <1> QED
    BY <1>2, <1>8 DEF more

LEMMA WithBinFacts ==
    ASSUME NEW now \in Nat, NEW s \in Stats, Rising(s.bins, now)
    PROVE  LET bins == WithBin(s, now)
           IN /\ bins \in Seq(Bins) /\ Len(bins) \in Nat \ {0} /\ Rising(bins, now)
              /\ Durations(bins) = Durations(s.bins) /\ Counts(bins) = Counts(s.bins)
              /\ now - bins[Len(bins)].start < BIN_SIZE
              /\ \/ bins = s.bins /\ s.bins # <<>>
                 \/ /\ bins = Append(s.bins, NewBin(now))
                    /\ s.bins # <<>> => now - s.bins[Len(s.bins)].start >= BIN_SIZE
  <1>1. s.bins \in Seq(Bins) /\ BIN_SIZE \in Nat \ {0}
    BY LoadAssumption DEF Stats
  <1>2. PICK b : b = s.bins
    OBVIOUS
  <1>3. /\ Len(b) \in Nat /\ b \in Seq(Bins)
        /\ \A i \in 1..Len(b) : b[i].start \in Nat
    BY <1>1, <1>2, BinAt
  <1>4. b # <<>> => Last(b) = b[Len(b)] /\ Len(b) \in 1..Len(b)
    BY <1>3 DEF Last
  <1>5. CASE NeedNewBin(s, now)
    <2>1. WithBin(s, now) = Append(b, NewBin(now))
      BY <1>2, <1>5 DEF WithBin, NewBin
    <2>2. PICK c : c = Append(b, NewBin(now))
      OBVIOUS
    <2>3. /\ c \in Seq(Bins) /\ Len(c) = Len(b) + 1
          /\ \A i \in 1..Len(b) : c[i] = b[i]
          /\ c[Len(b) + 1] = NewBin(now)
          /\ Durations(c) = Durations(b) /\ Counts(c) = Counts(b)
      BY <1>3, <2>2, AppendedBin
    <2>4. b # <<>> => now - b[Len(b)].start >= BIN_SIZE
      BY <1>2, <1>4, <1>5 DEF NeedNewBin
    <2>5. c[Len(b) + 1].start = now
      BY <2>3 DEF NewBin
    <2>6. \A i \in 1..Len(b) : now - b[i].start >= BIN_SIZE
      <3>1. ASSUME NEW i \in 1..Len(b)
            PROVE  now - b[i].start >= BIN_SIZE
        <4>1. b # <<>> /\ i <= Len(b)
          BY <1>3
        <4>2. b[i].start <= b[Len(b)].start
          BY <1>1, <1>2, <1>3, <1>4, <4>1 DEF Rising
        <4> QED
          BY <1>1, <1>3, <1>4, <2>4, <4>1, <4>2
      <3> QED
        BY <3>1
    <2>7. Rising(c, now)
      <3>1. ASSUME NEW i \in 1..Len(c), NEW j \in 1..Len(c), i < j
            PROVE  c[j].start - c[i].start >= BIN_SIZE
        <4>1. CASE j \in 1..Len(b)
          <5>1. i \in 1..Len(b) /\ c[i] = b[i] /\ c[j] = b[j]
            BY <1>3, <2>3, <3>1, <4>1
          <5> QED
            BY <1>2, <3>1, <4>1, <5>1 DEF Rising
        <4>2. CASE j = Len(b) + 1
          BY <1>3, <2>3, <2>5, <2>6, <3>1, <4>2
        <4> QED
          BY <1>3, <2>3, <4>1, <4>2
      <3>2. ASSUME NEW i \in 1..Len(c)
            PROVE  c[i].start <= now
        <4>1. CASE i \in 1..Len(b)
          BY <1>2, <2>3, <4>1 DEF Rising
        <4>2. CASE i = Len(b) + 1
          BY <2>5, <4>2
        <4> QED
          BY <1>3, <2>3, <4>1, <4>2
      <3> QED
        BY <3>1, <3>2 DEF Rising
    <2>8. Len(c) \in Nat \ {0} /\ now - c[Len(c)].start < BIN_SIZE
      BY <1>1, <1>3, <2>3, <2>5
    <2> QED
      BY <1>2, <2>1, <2>2, <2>3, <2>4, <2>7, <2>8
  <1>6. CASE ~NeedNewBin(s, now)
    <2>1. WithBin(s, now) = b /\ b # <<>>
      BY <1>2, <1>6 DEF WithBin, NeedNewBin
    <2>2. now - b[Len(b)].start < BIN_SIZE
      BY <1>1, <1>2, <1>3, <1>4, <1>6, <2>1 DEF NeedNewBin
    <2>3. Len(b) \in Nat \ {0}
      BY <1>3, <2>1
    <2> QED
      BY <1>2, <1>3, <2>1, <2>2, <2>3
  <1> QED
    BY <1>5, <1>6

\* The bins that are left, and which are gone.
LEMMA ExpiryFacts ==
    ASSUME NEW now \in Nat, NEW bins \in Seq(Bins), Len(bins) # 0, Rising(bins, now),
           now - bins[Len(bins)].start < BIN_SIZE
    PROVE  LET m    == FirstKept(bins, now)
               rest == SubSeq(bins, m, Len(bins))
           IN /\ m \in 1..Len(bins) /\ rest \in Seq(Bins) /\ Len(rest) = Len(bins) - (m - 1)
              /\ Len(rest) # 0 /\ \A i \in 1..Len(rest) : rest[i] = bins[i + (m - 1)]
              /\ m > 1 => now - bins[m - 1].start >= WINDOW_SIZE
              /\ now - rest[1].start < WINDOW_SIZE
              /\ rest[Len(rest)] = bins[Len(bins)]
              /\ InOrder(rest, now)
  <1> DEFINE m == FirstKept(bins, now)
             rest == SubSeq(bins, m, Len(bins))
  <1>1. BIN_SIZE \in Nat /\ WINDOW_SIZE \in Nat /\ BIN_SIZE < WINDOW_SIZE
    BY LoadAssumption
  <1>2. Len(bins) \in Nat \ {0} /\ \A i \in 1..Len(bins) : bins[i].start \in Nat
    BY BinAt
  <1>3. /\ m \in 1..Len(bins) + 1
        /\ \A i \in 1..Len(bins) : i < m => Expired(bins[i], now)
        /\ m \in 1..Len(bins) => ~Expired(bins[m], now)
        /\ \A i \in 1..Len(bins) : ~Expired(bins[i], now) => m <= i
    BY FirstKeptFacts
  <1>4. Len(bins) \in 1..Len(bins) /\ ~Expired(bins[Len(bins)], now)
    BY <1>1, <1>2 DEF Expired
  <1>5. m \in 1..Len(bins)
    BY <1>2, <1>3, <1>4
  <1>6. /\ rest \in Seq(Bins) /\ Len(rest) = Len(bins) - (m - 1)
        /\ \A i \in 1..Len(rest) : rest[i] = bins[i + (m - 1)]
    BY <1>3, SubSeqFacts
  <1> HIDE DEF m, rest
  <1>7. now - bins[m].start < WINDOW_SIZE
    BY <1>1, <1>2, <1>3, <1>5 DEF Expired
  <1>8. m > 1 => now - bins[m - 1].start >= WINDOW_SIZE
    <2>1. ASSUME m > 1
          PROVE  m - 1 \in 1..Len(bins) /\ m - 1 < m
      BY <1>2, <1>5, <2>1
    <2> QED
      BY <1>3, <2>1 DEF Expired
  <1>9. Len(rest) \in Nat /\ Len(rest) # 0 /\ 1 \in 1..Len(rest) /\ Len(rest) \in 1..Len(rest)
    BY <1>2, <1>5, <1>6
  <1>10. rest[1] = bins[m] /\ rest[Len(rest)] = bins[Len(bins)]
    <2>1. 1 + (m - 1) = m /\ Len(rest) + (m - 1) = Len(bins)
      BY <1>2, <1>5, <1>6
    <2> QED
      BY <1>6, <1>9, <2>1
  <1>11. InOrder(rest, now)
    <2>1. \A i \in 1..Len(rest) : i + (m - 1) \in 1..Len(bins) /\ i + (m - 1) >= m
      BY <1>2, <1>5, <1>6
    <2>2. ASSUME NEW i \in 1..Len(rest)
          PROVE  /\ rest[i].start <= now /\ rest[i].start \in Nat
                 /\ now - rest[i].start < WINDOW_SIZE
      <3>1. PICK k : k = i + (m - 1)
        OBVIOUS
      <3>2. k \in 1..Len(bins) /\ k >= m /\ rest[i] = bins[k]
        BY <1>6, <2>1, <2>2, <3>1
      <3>3. bins[k].start >= bins[m].start
        BY <1>1, <1>2, <1>5, <3>2 DEF Rising
      <3> QED
        BY <1>1, <1>2, <1>5, <1>7, <3>2, <3>3 DEF Rising
    <2>3. ASSUME NEW i \in 1..Len(rest), NEW j \in 1..Len(rest), i < j
          PROVE  rest[j].start - rest[i].start >= BIN_SIZE
      <3>1. PICK k, l : k = i + (m - 1) /\ l = j + (m - 1)
        OBVIOUS
      <3>2. k \in 1..Len(bins) /\ l \in 1..Len(bins) /\ k < l /\ rest[i] = bins[k] /\ rest[j] = bins[l]
        BY <1>5, <1>6, <2>1, <2>3, <3>1
      <3> QED
        BY <3>2 DEF Rising
    <2>4. ASSUME NEW i \in 1..Len(rest), NEW j \in 1..Len(rest), i < j
          PROVE  rest[j].start - rest[i].start < WINDOW_SIZE
      BY <1>1, <2>2, <2>4
    <2> QED
      BY <2>2, <2>3, <2>4 DEF InOrder
  <1> QED
    BY <1>5, <1>6, <1>7, <1>8, <1>9, <1>10, <1>11 DEF m, rest

\* The measurement goes into the last bin.
Measured(bins, d) ==
    [bins EXCEPT ![Len(bins)] =
        [Last(bins) EXCEPT !.duration = @ + d, !.count = @ + 1]]

LEMMA MeasuredFacts ==
    ASSUME NEW bins \in Seq(Bins), Len(bins) # 0, NEW d \in Nat
    PROVE  LET more == Measured(bins, d)
           IN /\ more \in Seq(Bins) /\ Len(more) = Len(bins)
              /\ \A i \in 1..Len(bins) :
                    /\ more[i].start = bins[i].start
                    /\ more[i].duration = bins[i].duration + (IF i = Len(bins) THEN d ELSE 0)
                    /\ more[i].count = bins[i].count + (IF i = Len(bins) THEN 1 ELSE 0)
              /\ Durations(more) = Durations(bins) + d /\ Counts(more) = Counts(bins) + 1
  <1> DEFINE more == Measured(bins, d)
             D(s) == [i \in 1..Len(s) |-> s[i].duration]
             C(s) == [i \in 1..Len(s) |-> s[i].count]
  <1>1. PICK n : n = Len(bins)
    OBVIOUS
  <1>2. /\ n \in Nat /\ n > 0 /\ n \in 1..n
        /\ \A i \in 1..n : /\ bins[i] \in Bins /\ bins[i].start \in Nat
                           /\ bins[i].duration \in Nat /\ bins[i].count \in Nat
    BY <1>1, BinAt
  <1>3. PICK back : back = [start |-> bins[n].start, duration |-> bins[n].duration + d,
                            count |-> bins[n].count + 1]
    OBVIOUS
  <1>4. [Last(bins) EXCEPT !.duration = @ + d, !.count = @ + 1] = back /\ back \in Bins
    <2>1. Last(bins) = bins[n] /\ bins[n] \in Bins
      BY <1>1, <1>2 DEF Last
    <2>2. PICK x : x = bins[n]
      OBVIOUS
    <2>3. x = [start |-> x.start, duration |-> x.duration, count |-> x.count]
      BY <2>1, <2>2 DEF Bins
    <2>4. PICK u, v, w : u = x.start /\ v = x.duration /\ w = x.count
      OBVIOUS
    <2>5. x = [start |-> u, duration |-> v, count |-> w]
      BY <2>3, <2>4
    <2>6. PICK p, q : p = v + d /\ q = w + 1
      OBVIOUS
    <2>7. [[start |-> u, duration |-> v, count |-> w] EXCEPT !.duration = p]
            = [start |-> u, duration |-> p, count |-> w]
      OBVIOUS
    <2>8. [[start |-> u, duration |-> p, count |-> w] EXCEPT !.count = q]
            = [start |-> u, duration |-> p, count |-> q]
      OBVIOUS
    <2>9. [x EXCEPT !.duration = @ + d, !.count = @ + 1]
            = [[x EXCEPT !.duration = p] EXCEPT !.count = q]
      BY <2>4, <2>6, Zenon
    <2>10. back = [start |-> u, duration |-> p, count |-> q]
      BY <1>3, <2>2, <2>4, <2>6
    <2>11. back \in Bins
      <3>1. bins[n].start \in Nat /\ bins[n].duration \in Nat /\ bins[n].count \in Nat
        BY <1>2
      <3>2. u \in Nat /\ v \in Nat /\ w \in Nat
        BY <2>2, <2>4, <3>1
      <3>3. p \in Nat /\ q \in Nat
        BY <2>6, <3>2
      <3> QED
        BY <2>10, <3>2, <3>3 DEF Bins
    <2> QED
      BY <2>1, <2>2, <2>5, <2>7, <2>8, <2>9, <2>10, <2>11
  <1>5. /\ more = [bins EXCEPT ![n] = back]
    BY <1>1, <1>4 DEF Measured
  <1>6. /\ more \in Seq(Bins) /\ Len(more) = n
        /\ \A i \in 1..n : more[i] = IF i = n THEN back ELSE bins[i]
    BY <1>1, <1>2, <1>4, <1>5
  <1> HIDE DEF more
  <1>7. \A i \in 1..n :
           /\ more[i].start = bins[i].start
           /\ more[i].duration = bins[i].duration + (IF i = n THEN d ELSE 0)
           /\ more[i].count = bins[i].count + (IF i = n THEN 1 ELSE 0)
    BY <1>2, <1>3, <1>6
  <1>8. PICK e, c, f, g : /\ e = D(bins) /\ c = C(bins) /\ f = D(more) /\ g = C(more)
    OBVIOUS
  <1>9. /\ NatOn(e, 1..n) /\ NatOn(f, 1..n) /\ NatOn(c, 1..n) /\ NatOn(g, 1..n)
        /\ \A i \in (1..n) \ {n} : f[i] = e[i] /\ g[i] = c[i]
        /\ f[n] = e[n] + d /\ g[n] = c[n] + 1
    <2>1. \A i \in 1..n : /\ e[i] = bins[i].duration /\ f[i] = more[i].duration
                          /\ c[i] = bins[i].count /\ g[i] = more[i].count
      BY <1>1, <1>6, <1>8
    <2>2. NatOn(e, 1..n) /\ NatOn(c, 1..n)
      BY <1>2, <2>1 DEF NatOn
    <2>3. NatOn(f, 1..n) /\ NatOn(g, 1..n)
      <3>1. ASSUME NEW i \in 1..n
            PROVE  f[i] \in Nat /\ g[i] \in Nat
        <4>1. bins[i].duration \in Nat /\ bins[i].count \in Nat
          BY <1>2
        <4>2. PICK x, y : x = bins[i].duration /\ y = bins[i].count
          OBVIOUS
        <4>3. f[i] = x + (IF i = n THEN d ELSE 0) /\ g[i] = y + (IF i = n THEN 1 ELSE 0)
          BY <1>7, <2>1, <4>2
        <4>4. x \in Nat /\ y \in Nat
          BY <4>1, <4>2
        <4> QED
          BY <4>3, <4>4
      <3> QED
        BY <3>1 DEF NatOn
    <2> QED
      BY <1>2, <1>7, <2>1, <2>2, <2>3, SMTT(30)
  <1>10. IsFiniteSet(1..n)
    <2>1. 1 \in Int /\ n \in Int
      BY <1>2
    <2> QED
      BY <2>1, FS_Interval
  <1>11. /\ SumFunctionOnSet(f, 1..n) + e[n] = SumFunctionOnSet(e, 1..n) + f[n]
         /\ SumFunctionOnSet(g, 1..n) + c[n] = SumFunctionOnSet(c, 1..n) + g[n]
    <2>1. PICK S : S = 1..n
      OBVIOUS
    <2>2. /\ NatOn(e, S) /\ NatOn(f, S) /\ NatOn(c, S) /\ NatOn(g, S) /\ n \in S
          /\ IsFiniteSet(S) /\ (\A i \in S \ {n} : f[i] = e[i]) /\ \A i \in S \ {n} : g[i] = c[i]
      BY <1>2, <1>9, <1>10, <2>1
    <2>3. SumFunctionOnSet(f, S) + e[n] = SumFunctionOnSet(e, S) + f[n]
      BY <2>2, SumChange
    <2>4. SumFunctionOnSet(g, S) + c[n] = SumFunctionOnSet(c, S) + g[n]
      BY <2>2, SumChange
    <2> QED
      BY <2>1, <2>3, <2>4
  <1>12. /\ SumFunctionOnSet(f, 1..n) \in Nat /\ SumFunctionOnSet(e, 1..n) \in Nat
         /\ SumFunctionOnSet(g, 1..n) \in Nat /\ SumFunctionOnSet(c, 1..n) \in Nat
         /\ e[n] \in Nat /\ c[n] \in Nat
    BY <1>2, <1>9, <1>10, SumNat DEF NatOn
  <1>13. /\ SumFunctionOnSet(f, 1..n) = SumFunctionOnSet(e, 1..n) + d
         /\ SumFunctionOnSet(g, 1..n) = SumFunctionOnSet(c, 1..n) + 1
    <2>1. PICK u, v, x, y : /\ u = SumFunctionOnSet(f, 1..n) /\ v = SumFunctionOnSet(e, 1..n)
                            /\ x = SumFunctionOnSet(g, 1..n) /\ y = SumFunctionOnSet(c, 1..n)
      OBVIOUS
    <2>2. PICK p, q : p = e[n] /\ q = c[n]
      OBVIOUS
    <2>3. /\ u \in Nat /\ v \in Nat /\ x \in Nat /\ y \in Nat /\ p \in Nat /\ q \in Nat
          /\ u + p = v + (p + d) /\ x + q = y + (q + 1)
      BY <1>9, <1>11, <1>12, <2>1, <2>2
    <2>4. u = v + d
      BY <2>3
    <2>5. x = y + 1
      BY <2>3
    <2> QED
      BY <2>1, <2>4, <2>5
  <1>14. Durations(more) = Durations(bins) + d /\ Counts(more) = Counts(bins) + 1
    BY <1>1, <1>6, <1>8, <1>13 DEF Durations, Counts
  <1> QED
    BY <1>1, <1>6, <1>7, <1>14 DEF more

-----------------------------------------------------------------------------
(* add_at keeps the totals those of the bins.                               *)

BinsLeft(s, now) ==
    SubSeq(WithBin(s, now), FirstKept(WithBin(s, now), now), Len(WithBin(s, now)))

LEMMA AddAtParts ==
    ASSUME NEW now \in Nat, NEW s \in Stats, NEW d
    PROVE  LET gone == SubSeq(WithBin(s, now), 1, FirstKept(WithBin(s, now), now) - 1)
           IN AddAt(s, now, d) = [bins |-> Measured(BinsLeft(s, now), d),
                                  duration |-> s.duration - Durations(gone) + d,
                                  count |-> s.count - Counts(gone) + 1]
  <1>1. PICK w : w = WithBin(s, now)
    OBVIOUS
  <1>2. PICK t : t = [s EXCEPT !.bins = w]
    OBVIOUS
  <1>3. t.bins = w /\ t.duration = s.duration /\ t.count = s.count
    BY <1>2 DEF Stats
  <1>4. PICK kept : kept = ExpireBins(t, now)
    OBVIOUS
  <1>5. /\ kept.bins = BinsLeft(s, now)
        /\ kept.duration = s.duration - Durations(SubSeq(w, 1, FirstKept(w, now) - 1))
        /\ kept.count = s.count - Counts(SubSeq(w, 1, FirstKept(w, now) - 1))
    BY <1>1, <1>3, <1>4 DEF ExpireBins, BinsLeft
  <1>6. AddAt(s, now, d) = [bins |-> Measured(kept.bins, d), duration |-> kept.duration + d,
                            count |-> kept.count + 1]
    BY <1>1, <1>2, <1>4, Zenon DEF AddAt, Measured
  <1> QED
    BY <1>1, <1>5, <1>6

LEMMA InOrderMeasured ==
    ASSUME NEW rest \in Seq(Bins), Len(rest) # 0, NEW d \in Nat, NEW now, InOrder(rest, now)
    PROVE  InOrder(Measured(rest, d), now)
  <1>1. /\ Len(Measured(rest, d)) = Len(rest)
        /\ \A i \in 1..Len(rest) : Measured(rest, d)[i].start = rest[i].start
    BY MeasuredFacts
  <1> QED
    BY <1>1 DEF InOrder

LEMMA InOrderRising ==
    ASSUME NEW bins, NEW now, InOrder(bins, now)
    PROVE  Rising(bins, now)
  BY DEF InOrder, Rising

LEMMA LeftFacts ==
    ASSUME NEW now \in Nat, NEW s \in Stats, Rising(s.bins, now)
    PROVE  LET w == WithBin(s, now)
               m == FirstKept(w, now)
               rest == BinsLeft(s, now)
           IN /\ w \in Seq(Bins) /\ Len(w) \in Nat \ {0}
              /\ m \in 1..Len(w) /\ rest \in Seq(Bins) /\ Len(rest) = Len(w) - (m - 1)
              /\ Len(rest) # 0 /\ \A i \in 1..Len(rest) : rest[i] = w[i + (m - 1)]
              /\ m > 1 => now - w[m - 1].start >= WINDOW_SIZE
              /\ now - rest[1].start < WINDOW_SIZE
              /\ now - rest[Len(rest)].start < BIN_SIZE
              /\ InOrder(rest, now)
  <1>1. PICK w : w = WithBin(s, now)
    OBVIOUS
  <1>2. /\ w \in Seq(Bins) /\ Len(w) \in Nat \ {0} /\ Rising(w, now)
        /\ now - w[Len(w)].start < BIN_SIZE
    BY <1>1, WithBinFacts
  <1>3. PICK m, rest : m = FirstKept(w, now) /\ rest = SubSeq(w, m, Len(w))
    OBVIOUS
  <1>4. BinsLeft(s, now) = rest
    BY <1>1, <1>3 DEF BinsLeft
  <1>5. /\ m \in 1..Len(w) /\ rest \in Seq(Bins) /\ Len(rest) = Len(w) - (m - 1)
        /\ Len(rest) # 0 /\ \A i \in 1..Len(rest) : rest[i] = w[i + (m - 1)]
        /\ m > 1 => now - w[m - 1].start >= WINDOW_SIZE
        /\ now - rest[1].start < WINDOW_SIZE
        /\ rest[Len(rest)] = w[Len(w)]
        /\ InOrder(rest, now)
    BY <1>2, <1>3, ExpiryFacts
  <1> QED
    BY <1>1, <1>2, <1>3, <1>4, <1>5

LEMMA AddAtOK ==
    ASSUME NEW now \in Nat, NEW s, StatsOK(s, now), NEW d \in Nat
    PROVE  StatsOK(AddAt(s, now, d), now) /\ AddAt(s, now, d).bins = Measured(BinsLeft(s, now), d)
  <1>1. s \in Stats /\ Rising(s.bins, now) /\ s.duration = Durations(s.bins) /\ s.count = Counts(s.bins)
    BY InOrderRising DEF StatsOK
  <1>2. PICK w, m, rest, gone : /\ w = WithBin(s, now) /\ m = FirstKept(w, now)
                                /\ rest = BinsLeft(s, now) /\ gone = SubSeq(w, 1, m - 1)
    OBVIOUS
  <1>3. /\ w \in Seq(Bins) /\ Len(w) \in Nat \ {0} /\ m \in 1..Len(w) /\ rest \in Seq(Bins)
        /\ Len(rest) # 0 /\ InOrder(rest, now)
    BY <1>1, <1>2, LeftFacts
  <1>4. m \in 1..Len(w) + 1 /\ rest = SubSeq(w, m, Len(w))
    BY <1>2, <1>3 DEF BinsLeft
  <1>5. /\ Durations(w) = Durations(gone) + Durations(rest)
        /\ Counts(w) = Counts(gone) + Counts(rest)
        /\ Durations(gone) \in Nat /\ Durations(rest) \in Nat
        /\ Counts(gone) \in Nat /\ Counts(rest) \in Nat
    BY <1>2, <1>3, <1>4, SplitBins
  <1>6. Durations(w) = s.duration /\ Counts(w) = s.count
    BY <1>1, <1>2, WithBinFacts
  <1>7. PICK more : more = Measured(rest, d)
    OBVIOUS
  <1>8. /\ more \in Seq(Bins) /\ Durations(more) = Durations(rest) + d /\ Counts(more) = Counts(rest) + 1
    BY <1>3, <1>7, MeasuredFacts
  <1>9. InOrder(more, now)
    BY <1>3, <1>7, InOrderMeasured
  <1>10. AddAt(s, now, d) = [bins |-> more, duration |-> s.duration - Durations(gone) + d,
                             count |-> s.count - Counts(gone) + 1]
    BY <1>1, <1>2, <1>7, AddAtParts
  <1>11. s.duration - Durations(gone) + d = Durations(more)
    BY <1>5, <1>6, <1>8
  <1>12. s.count - Counts(gone) + 1 = Counts(more)
    BY <1>5, <1>6, <1>8
  <1>13. AddAt(s, now, d) = [bins |-> more, duration |-> Durations(more), count |-> Counts(more)]
    BY <1>10, <1>11, <1>12
  <1>14. Durations(more) \in Nat /\ Counts(more) \in Nat
    BY <1>5, <1>8
  <1> QED
    BY <1>2, <1>7, <1>8, <1>9, <1>13, <1>14 DEF StatsOK, Stats

LEMMA NoStatsOK ==
    ASSUME NEW now
    PROVE  StatsOK(NoStats, now)
  <1>1. Durations(<<>>) = 0 /\ Counts(<<>>) = 0
    <2>1. 1..Len(<<>>) = {}
      OBVIOUS
    <2> QED
      BY <2>1, SumEmpty DEF Durations, Counts
  <1>2. NoStats.bins = <<>> /\ NoStats.duration = 0 /\ NoStats.count = 0 /\ NoStats \in Stats
    BY DEF NoStats, Stats
  <1>3. InOrder(<<>>, now)
    BY DEF InOrder
  <1> QED
    BY <1>1, <1>2, <1>3 DEF StatsOK

LEMMA StatsOKLater ==
    ASSUME NEW now \in Nat, NEW then \in Nat, now <= then, NEW s, StatsOK(s, now)
    PROVE  StatsOK(s, then)
  <1>1. s.bins \in Seq(Bins)
    BY DEF StatsOK, Stats
  <1>2. \A i \in 1..Len(s.bins) : s.bins[i].start \in Nat
    BY <1>1, BinAt
  <1>3. InOrder(s.bins, then)
    BY <1>2 DEF InOrder, StatsOK
  <1> QED
    BY <1>3 DEF StatsOK

-----------------------------------------------------------------------------
(* The statistics and the work that was recorded for some shapes: every     *)
(* bin, with those after it, has the work since its start.                  *)

Logs == Seq([shape : Shapes, at : Nat, duration : Nat])

Of(log, shapes) == {i \in 1..Len(log) : log[i].shape \in shapes}

EntriesSince(log, shapes, b) == {i \in Of(log, shapes) : log[i].at >= b}

LogDurations(log) == [i \in 1..Len(log) |-> log[i].duration]

WorkSince(log, shapes, b) == SumFunctionOnSet(LogDurations(log), EntriesSince(log, shapes, b))

TailFrom(bins, k) == SubSeq(bins, k, Len(bins))

Tails(bins, log, shapes) ==
    \A k \in 1..Len(bins) : Durations(TailFrom(bins, k)) = WorkSince(log, shapes, bins[k].start)

\* No work falls between two bins, or after the last.
Gapless(bins, log, shapes) ==
    \A i \in Of(log, shapes), k \in 1..Len(bins) :
        \/ log[i].at < bins[k].start + BIN_SIZE
        \/ k < Len(bins) /\ log[i].at >= bins[k + 1].start

Past(log, shapes, now) == \A i \in Of(log, shapes) : log[i].at <= now

Logged(bins, log, shapes) ==
    /\ bins = <<>> => Of(log, shapes) = {}
    /\ Tails(bins, log, shapes)
    /\ Gapless(bins, log, shapes)

LEMMA EntryAt ==
    ASSUME NEW log \in Logs
    PROVE  /\ Len(log) \in Nat
           /\ \A i \in 1..Len(log) : /\ log[i].shape \in Shapes /\ log[i].at \in Nat
                                     /\ log[i].duration \in Nat
  <1>1. PICK T : T = [shape : Shapes, at : Nat, duration : Nat]
    OBVIOUS
  <1>2. log \in Seq(T)
    BY <1>1 DEF Logs
  <1>3. Len(log) \in Nat /\ \A i \in 1..Len(log) : log[i] \in T
    BY <1>2
  <1> QED
    BY <1>1, <1>3

LEMMA TailAppend ==
    ASSUME NEW b \in Seq(Bins), NEW x \in Bins, NEW k \in 1..Len(b) + 1
    PROVE  TailFrom(Append(b, x), k) = Append(TailFrom(b, k), x) /\ TailFrom(b, k) \in Seq(Bins)
  <1>1. /\ TailFrom(b, k) \in Seq(Bins) /\ Len(TailFrom(b, k)) = Len(b) - (k - 1)
        /\ \A i \in 1..Len(b) - (k - 1) : TailFrom(b, k)[i] = b[i + (k - 1)]
    BY SubSeqFacts DEF TailFrom
  <1>2. PICK c : c = Append(b, x)
    OBVIOUS
  <1>3. /\ c \in Seq(Bins) /\ Len(c) = Len(b) + 1 /\ k \in 1..Len(c) + 1
        /\ \A i \in 1..Len(b) : c[i] = b[i]
        /\ c[Len(b) + 1] = x
    BY <1>2
  <1>4. /\ TailFrom(c, k) \in Seq(Bins) /\ Len(TailFrom(c, k)) = Len(c) - (k - 1)
        /\ \A i \in 1..Len(c) - (k - 1) : TailFrom(c, k)[i] = c[i + (k - 1)]
    BY <1>3, SubSeqFacts DEF TailFrom
  <1>5. PICK n, u, v : n = Len(b) /\ u = TailFrom(c, k) /\ v = Append(TailFrom(b, k), x)
    OBVIOUS
  <1>6. n \in Nat /\ k \in Nat /\ k >= 1 /\ k <= n + 1
    BY <1>5
  <1>7. /\ v \in Seq(Bins) /\ Len(v) = n - (k - 1) + 1
        /\ \A i \in 1..n - (k - 1) : v[i] = TailFrom(b, k)[i]
        /\ v[n - (k - 1) + 1] = x
    BY <1>1, <1>5, <1>6
  <1>8. Len(u) = Len(v) /\ u \in Seq(Bins)
    BY <1>3, <1>4, <1>5, <1>6, <1>7
  <1>9. ASSUME NEW i \in 1..Len(u)
        PROVE  u[i] = v[i]
    <2>1. i \in 1..Len(c) - (k - 1) /\ u[i] = c[i + (k - 1)]
      BY <1>4, <1>5, <1>9
    <2>2. CASE i \in 1..n - (k - 1)
      <3>1. i + (k - 1) \in 1..n
        BY <1>6, <2>2
      <3> QED
        BY <1>1, <1>3, <1>5, <1>7, <2>1, <2>2, <3>1
    <2>3. CASE i = n - (k - 1) + 1
      <3>1. i + (k - 1) = n + 1
        BY <1>6, <2>3
      <3> QED
        BY <1>3, <1>5, <1>7, <2>1, <2>3, <3>1
    <2> QED
      BY <1>6, <1>7, <1>8, <2>2, <2>3
  <1>10. u = v
    BY <1>7, <1>8, <1>9, SeqEqual
  <1> QED
    BY <1>1, <1>2, <1>5, <1>10

LEMMA TailTail ==
    ASSUME NEW b \in Seq(Bins), NEW m \in 1..Len(b), NEW k \in 1..Len(b) - (m - 1)
    PROVE  TailFrom(TailFrom(b, m), k) = TailFrom(b, k + (m - 1)) /\ k + (m - 1) \in 1..Len(b)
  <1>1. PICK n, c, j : n = Len(b) /\ c = TailFrom(b, m) /\ j = k + (m - 1)
    OBVIOUS
  <1>2. /\ n \in Nat /\ m \in 1..n /\ m \in 1..n + 1 /\ k \in 1..n - (m - 1)
        /\ j \in 1..n /\ j \in 1..n + 1
    BY <1>1
  <1>3. /\ c \in Seq(Bins) /\ Len(c) = n - (m - 1)
        /\ \A i \in 1..n - (m - 1) : c[i] = b[i + (m - 1)]
    BY <1>1, <1>2, SubSeqFacts DEF TailFrom
  <1>4. k \in 1..Len(c) + 1
    BY <1>2, <1>3
  <1>5. PICK u, v : u = TailFrom(c, k) /\ v = TailFrom(b, j)
    OBVIOUS
  <1>6. /\ u \in Seq(Bins) /\ Len(u) = Len(c) - (k - 1)
        /\ \A i \in 1..Len(c) - (k - 1) : u[i] = c[i + (k - 1)]
    BY <1>3, <1>4, <1>5, SubSeqFacts DEF TailFrom
  <1>7. /\ v \in Seq(Bins) /\ Len(v) = n - (j - 1)
        /\ \A i \in 1..n - (j - 1) : v[i] = b[i + (j - 1)]
    BY <1>1, <1>2, <1>5, SubSeqFacts DEF TailFrom
  <1>8. Len(u) = Len(v)
    BY <1>1, <1>2, <1>3, <1>6, <1>7
  <1>9. ASSUME NEW i \in 1..Len(u)
        PROVE  u[i] = v[i]
    <2>1. i \in 1..Len(c) - (k - 1) /\ i + (k - 1) \in 1..n - (m - 1) /\ i \in 1..n - (j - 1)
          /\ (i + (k - 1)) + (m - 1) = i + (j - 1)
      BY <1>1, <1>2, <1>3, <1>6, <1>7, <1>8, <1>9
    <2> QED
      BY <1>3, <1>6, <1>7, <2>1
  <1>10. u = v
    BY <1>6, <1>7, <1>8, <1>9, SeqEqual
  <1> QED
    BY <1>1, <1>2, <1>5, <1>10

LEMMA TailMeasured ==
    ASSUME NEW b \in Seq(Bins), Len(b) # 0, NEW d \in Nat, NEW k \in 1..Len(b)
    PROVE  /\ TailFrom(Measured(b, d), k) = Measured(TailFrom(b, k), d)
           /\ TailFrom(b, k) \in Seq(Bins) /\ Len(TailFrom(b, k)) # 0
  <1>1. PICK n, c, t : n = Len(b) /\ c = Measured(b, d) /\ t = TailFrom(b, k)
    OBVIOUS
  <1>2. n \in Nat /\ k \in 1..n /\ k \in 1..n + 1 /\ n \in 1..n
    BY <1>1
  <1>3. /\ t \in Seq(Bins) /\ Len(t) = n - (k - 1)
        /\ \A i \in 1..n - (k - 1) : t[i] = b[i + (k - 1)]
    BY <1>1, <1>2, SubSeqFacts DEF TailFrom
  <1>4. Len(t) # 0 /\ Len(t) \in Nat
    BY <1>2, <1>3
  <1>5. PICK x : x = [Last(b) EXCEPT !.duration = @ + d, !.count = @ + 1]
    OBVIOUS
  <1>6. Last(t) = Last(b)
    <2>1. Len(t) \in 1..n - (k - 1) /\ Len(t) + (k - 1) = n
      BY <1>2, <1>3, <1>4
    <2> QED
      BY <1>1, <1>3, <2>1 DEF Last
  <1>7. c = [b EXCEPT ![n] = x] /\ c \in Seq(Bins) /\ Len(c) = n
    <2>1. c \in Seq(Bins) /\ Len(c) = n
      BY <1>1, MeasuredFacts
    <2> QED
      BY <1>1, <1>5, <2>1 DEF Measured
  <1>8. PICK v : v = Measured(t, d)
    OBVIOUS
  <1>9. v = [t EXCEPT ![Len(t)] = x] /\ v \in Seq(Bins) /\ Len(v) = Len(t)
    <2>1. v \in Seq(Bins) /\ Len(v) = Len(t)
      BY <1>3, <1>4, <1>8, MeasuredFacts
    <2> QED
      BY <1>5, <1>6, <1>8, <2>1 DEF Measured
  <1>10. PICK u : u = TailFrom(c, k)
    OBVIOUS
  <1>11. /\ u \in Seq(Bins) /\ Len(u) = n - (k - 1)
         /\ \A i \in 1..n - (k - 1) : u[i] = c[i + (k - 1)]
    BY <1>2, <1>7, <1>10, SubSeqFacts DEF TailFrom
  <1>12. \A i \in 1..n : c[i] = IF i = n THEN x ELSE b[i]
    BY <1>1, <1>2, <1>7
  <1>13. \A i \in 1..Len(t) : v[i] = IF i = Len(t) THEN x ELSE t[i]
    BY <1>3, <1>4, <1>9
  <1>14. ASSUME NEW i \in 1..Len(u)
         PROVE  u[i] = v[i]
    <2>1. /\ i \in 1..n - (k - 1) /\ i \in 1..Len(t) /\ i + (k - 1) \in 1..n
          /\ (i + (k - 1) = n <=> i = Len(t))
      BY <1>2, <1>3, <1>11, <1>14
    <2> QED
      BY <1>3, <1>11, <1>12, <1>13, <2>1
  <1>15. u = v
    BY <1>3, <1>9, <1>11, <1>14, SeqEqual
  <1> QED
    BY <1>1, <1>3, <1>4, <1>8, <1>10, <1>15

Entry(q, now, d) == [shape |-> q, at |-> now, duration |-> d]

LEMMA LogAppended ==
    ASSUME NEW log \in Logs, NEW q \in Shapes, NEW now \in Nat, NEW d \in Nat
    PROVE  LET more == Append(log, Entry(q, now, d))
           IN /\ more \in Logs /\ Len(more) = Len(log) + 1
              /\ \A i \in 1..Len(log) : more[i] = log[i]
              /\ more[Len(log) + 1] = Entry(q, now, d)
  <1>1. PICK T : T = [shape : Shapes, at : Nat, duration : Nat]
    OBVIOUS
  <1>2. log \in Seq(T) /\ Entry(q, now, d) \in T
    BY <1>1 DEF Logs, Entry
  <1>3. PICK e, more : e = Entry(q, now, d) /\ more = Append(log, e)
    OBVIOUS
  <1>4. /\ more \in Seq(T) /\ Len(more) = Len(log) + 1
        /\ \A i \in 1..Len(log) : more[i] = log[i]
        /\ more[Len(log) + 1] = e
    BY <1>2, <1>3
  <1> QED
    BY <1>1, <1>3, <1>4 DEF Logs

LEMMA OfAppended ==
    ASSUME NEW log \in Logs, NEW q \in Shapes, NEW now \in Nat, NEW d \in Nat, NEW shapes
    PROVE  LET more == Append(log, Entry(q, now, d))
           IN /\ q \in shapes => Of(more, shapes) = Of(log, shapes) \cup {Len(log) + 1}
              /\ q \notin shapes => Of(more, shapes) = Of(log, shapes)
              /\ Len(log) + 1 \notin Of(log, shapes)
              /\ \A i \in Of(log, shapes) : i \in 1..Len(log) /\ more[i] = log[i]
              /\ more[Len(log) + 1].at = now /\ more[Len(log) + 1].duration = d
  <1>1. PICK more, n : more = Append(log, Entry(q, now, d)) /\ n = Len(log)
    OBVIOUS
  <1>2. /\ Len(more) = n + 1 /\ (\A i \in 1..n : more[i] = log[i])
        /\ more[n + 1] = Entry(q, now, d) /\ n \in Nat
    BY <1>1, LogAppended, EntryAt
  <1>3. more[n + 1].shape = q /\ more[n + 1].at = now /\ more[n + 1].duration = d
    BY <1>2 DEF Entry
  <1>4. 1..n + 1 = (1..n) \cup {n + 1} /\ n + 1 \notin 1..n
    BY <1>2
  <1>5. \A i : i \in Of(more, shapes)
                 <=> i \in Of(log, shapes) \/ (i = n + 1 /\ q \in shapes)
    BY <1>1, <1>2, <1>3, <1>4 DEF Of
  <1>6. n + 1 \notin Of(log, shapes) /\ \A i \in Of(log, shapes) : i \in 1..n /\ more[i] = log[i]
    BY <1>1, <1>2, <1>4 DEF Of
  <1>7. q \in shapes => Of(more, shapes) = Of(log, shapes) \cup {n + 1}
    BY <1>5
  <1>8. q \notin shapes => Of(more, shapes) = Of(log, shapes)
    BY <1>5
  <1> QED
    BY <1>1, <1>3, <1>6, <1>7, <1>8

LEMMA WorkAppended ==
    ASSUME NEW log \in Logs, NEW q \in Shapes, NEW now \in Nat, NEW d \in Nat, NEW shapes, NEW b \in Nat
    PROVE  LET more == Append(log, Entry(q, now, d))
           IN /\ q \notin shapes => WorkSince(more, shapes, b) = WorkSince(log, shapes, b)
              /\ q \in shapes /\ b <= now => WorkSince(more, shapes, b) = WorkSince(log, shapes, b) + d
  <1>1. PICK more, n, f, g, S : /\ more = Append(log, Entry(q, now, d)) /\ n = Len(log)
                                /\ f = LogDurations(log) /\ g = LogDurations(more)
                                /\ S = EntriesSince(log, shapes, b)
    OBVIOUS
  <1>2. /\ n \in Nat /\ more \in Logs /\ Len(more) = n + 1
        /\ \A i \in 1..n : more[i] = log[i] /\ log[i].duration \in Nat
    <2>1. n \in Nat /\ \A i \in 1..n : log[i].duration \in Nat
      BY <1>1, EntryAt
    <2>2. more \in Logs /\ Len(more) = n + 1 /\ \A i \in 1..n : more[i] = log[i]
      BY <1>1, LogAppended
    <2> QED
      BY <2>1, <2>2
  <1>3. more[n + 1].at = now /\ more[n + 1].duration = d
    BY <1>1, OfAppended
  <1>4. S \in SUBSET (1..n)
    BY <1>1 DEF EntriesSince, Of
  <1>5. IsFiniteSet(1..n)
    <2>1. 1 \in Int /\ n \in Int
      BY <1>2
    <2> QED
      BY <2>1, FS_Interval
  <1>6. IsFiniteSet(S)
    BY <1>4, <1>5, FS_Subset
  <1>7. 1..n + 1 = (1..n) \cup {n + 1} /\ n + 1 \notin 1..n
    BY <1>2
  <1>8. g[n + 1] = d
    BY <1>1, <1>2, <1>3, <1>7 DEF LogDurations
  <1>9. \A i \in 1..n : g[i] = f[i] /\ f[i] \in Nat
    BY <1>1, <1>2, <1>7 DEF LogDurations
  <1>10. NatOn(f, S) /\ \A x \in S : g[x] = f[x]
    BY <1>4, <1>9 DEF NatOn
  <1>11. SumFunctionOnSet(g, S) = SumFunctionOnSet(f, S)
    BY <1>6, <1>10, SumSame
  <1>12. WorkSince(log, shapes, b) = SumFunctionOnSet(f, S)
    BY <1>1 DEF WorkSince
  <1>13. ASSUME q \notin shapes
         PROVE  WorkSince(more, shapes, b) = WorkSince(log, shapes, b)
    <2>1. Of(more, shapes) = Of(log, shapes) /\ \A i \in Of(log, shapes) : more[i] = log[i]
      BY <1>1, <1>13, OfAppended
    <2>2. EntriesSince(more, shapes, b) = S
      BY <1>1, <2>1 DEF EntriesSince
    <2> QED
      BY <1>1, <1>11, <1>12, <2>2 DEF WorkSince
  <1>14. ASSUME q \in shapes, b <= now
         PROVE  WorkSince(more, shapes, b) = WorkSince(log, shapes, b) + d
    <2>1. PICK R : R = EntriesSince(more, shapes, b)
      OBVIOUS
    <2>2. /\ Of(more, shapes) = Of(log, shapes) \cup {n + 1}
          /\ \A i \in Of(log, shapes) : i \in 1..n /\ more[i] = log[i]
      BY <1>1, <1>14, OfAppended
    <2>3. \A i : i \in R <=> i \in S \/ i = n + 1
      BY <1>1, <1>3, <1>14, <2>1, <2>2 DEF EntriesSince
    <2>4. R = S \cup {n + 1} /\ R \ {n + 1} = S /\ n + 1 \in R
      BY <1>4, <1>7, <2>3
    <2>5. IsFiniteSet(R)
      BY <1>6, <2>4, FS_AddElement
    <2>6. NatOn(g, R)
      BY <1>4, <1>8, <1>9, <2>4 DEF NatOn
    <2>7. SumFunctionOnSet(g, R) = g[n + 1] + SumFunctionOnSet(g, R \ {n + 1})
      <3>1. PICK x : x = n + 1
        OBVIOUS
      <3>2. SumFunctionOnSet(g, R) = g[x] + SumFunctionOnSet(g, R \ {x})
        BY <2>4, <2>5, <2>6, <3>1, SumRemove
      <3> QED
        BY <3>1, <3>2
    <2>8. SumFunctionOnSet(g, R) = d + SumFunctionOnSet(f, S)
      BY <1>8, <1>11, <2>4, <2>7
    <2>9. SumFunctionOnSet(f, S) \in Nat
      BY <1>6, <1>10, SumNat
    <2>10. WorkSince(more, shapes, b) = SumFunctionOnSet(g, R)
      BY <1>1, <2>1 DEF WorkSince
    <2> QED
      BY <1>12, <2>8, <2>9, <2>10
  <1> QED
    BY <1>1, <1>13, <1>14

\* A new bin, when the last one is full.
LEMMA LoggedWithBin ==
    ASSUME NEW now \in Nat, NEW s \in Stats, Rising(s.bins, now), NEW log \in Logs, NEW shapes,
           Past(log, shapes, now), Logged(s.bins, log, shapes)
    PROVE  Tails(WithBin(s, now), log, shapes) /\ Gapless(WithBin(s, now), log, shapes)
  <1>1. PICK b, w : b = s.bins /\ w = WithBin(s, now)
    OBVIOUS
  <1>2. b \in Seq(Bins) /\ BIN_SIZE \in Nat \ {0}
    BY <1>1, LoadAssumption DEF Stats
  <1>3. \/ w = b
        \/ w = Append(b, NewBin(now)) /\ (b # <<>> => now - b[Len(b)].start >= BIN_SIZE)
    BY <1>1, WithBinFacts
  <1>4. SUFFICES ASSUME w = Append(b, NewBin(now)),
                        b # <<>> => now - b[Len(b)].start >= BIN_SIZE
                 PROVE  Tails(w, log, shapes) /\ Gapless(w, log, shapes)
    BY <1>1, <1>3 DEF Logged
  <1>5. PICK n : n = Len(b)
    OBVIOUS
  <1>6. /\ n \in Nat /\ \A i \in 1..n : b[i].start \in Nat
    BY <1>2, <1>5, BinAt
  <1>7. /\ Len(w) = n + 1 /\ (\A i \in 1..n : w[i] = b[i])
        /\ w[n + 1] = NewBin(now) /\ w[n + 1].start = now /\ NewBin(now) \in Bins
    <2>1. NewBin(now) \in Bins /\ NewBin(now).start = now
      BY DEF NewBin, Bins
    <2> QED
      BY <1>2, <1>4, <1>5, <2>1, AppendedBin
  <1>8. \A i \in Of(log, shapes) : log[i].at \in Nat /\ log[i].at < now
    <2>1. ASSUME NEW i \in Of(log, shapes)
          PROVE  log[i].at \in Nat /\ log[i].at < now
      <3>1. b # <<>> /\ log[i].at \in Nat
        BY <1>1, <2>1, EntryAt DEF Logged, Of
      <3>2. n \in 1..n
        BY <1>2, <1>5, <1>6, <3>1
      <3>3. log[i].at < b[n].start + BIN_SIZE
        BY <1>1, <1>5, <2>1, <3>2 DEF Logged, Gapless
      <3> QED
        BY <1>2, <1>4, <1>5, <1>6, <3>1, <3>2, <3>3
    <2> QED
      BY <2>1
  <1>9. \A k \in 1..n + 1 : k \in 1..n \/ k = n + 1
    BY <1>6
  <1>10. Tails(w, log, shapes)
    <2>1. ASSUME NEW k \in 1..n + 1
          PROVE  Durations(TailFrom(w, k)) = Durations(TailFrom(b, k))
      <3>1. TailFrom(w, k) = Append(TailFrom(b, k), NewBin(now)) /\ TailFrom(b, k) \in Seq(Bins)
        BY <1>2, <1>4, <1>5, <1>7, TailAppend
      <3> QED
        BY <3>1, AppendedBin
    <2>2. ASSUME NEW k \in 1..n
          PROVE  Durations(TailFrom(w, k)) = WorkSince(log, shapes, w[k].start)
      <3>1. k \in 1..n + 1
        BY <1>6
      <3> QED
        BY <1>1, <1>5, <1>7, <2>1, <3>1 DEF Logged, Tails
    <2>3. Durations(TailFrom(w, n + 1)) = WorkSince(log, shapes, now)
      <3>1. n + 1 \in 1..n + 1
        BY <1>6
      <3>2. TailFrom(b, n + 1) = <<>>
        BY <1>2, <1>5 DEF TailFrom
      <3>3. Durations(<<>>) = 0
        <4>1. 1..Len(<<>>) = {}
          OBVIOUS
        <4> QED
          BY <4>1, SumEmpty DEF Durations
      <3>4. EntriesSince(log, shapes, now) = {}
        BY <1>8 DEF EntriesSince
      <3>5. WorkSince(log, shapes, now) = 0
        BY <3>4, SumEmpty DEF WorkSince
      <3> QED
        BY <2>1, <3>1, <3>2, <3>3, <3>5
    <2> QED
      BY <1>7, <1>9, <2>2, <2>3 DEF Tails
  <1>11. Gapless(w, log, shapes)
    <2>1. ASSUME NEW i \in Of(log, shapes), NEW k \in 1..n + 1
          PROVE  \/ log[i].at < w[k].start + BIN_SIZE
                 \/ k < n + 1 /\ log[i].at >= w[k + 1].start
      <3>1. CASE k \in 1..n
        <4>1. \/ log[i].at < b[k].start + BIN_SIZE
              \/ k < n /\ log[i].at >= b[k + 1].start
          BY <1>1, <1>5, <2>1, <3>1 DEF Logged, Gapless
        <4>2. k < n => k + 1 \in 1..n /\ k < n + 1
          BY <1>6, <3>1
        <4> QED
          BY <1>7, <3>1, <4>1, <4>2
      <3>2. CASE k = n + 1
        BY <1>2, <1>7, <1>8, <2>1, <3>2
      <3> QED
        BY <1>9, <3>1, <3>2
    <2> QED
      BY <1>7, <2>1 DEF Gapless
  <1> QED
    BY <1>10, <1>11

\* Expiry.
LEMMA LoggedRest ==
    ASSUME NEW w \in Seq(Bins), NEW m \in 1..Len(w), NEW log, NEW shapes,
           Tails(w, log, shapes), Gapless(w, log, shapes)
    PROVE  Tails(TailFrom(w, m), log, shapes) /\ Gapless(TailFrom(w, m), log, shapes)
  <1>1. PICK n, rest : n = Len(w) /\ rest = TailFrom(w, m)
    OBVIOUS
  <1>2. n \in Nat /\ m \in 1..n /\ m \in 1..n + 1
    BY <1>1
  <1>3. /\ Len(rest) = n - (m - 1)
        /\ \A i \in 1..n - (m - 1) : rest[i] = w[i + (m - 1)]
    BY <1>1, <1>2, SubSeqFacts DEF TailFrom
  <1>4. ASSUME NEW k \in 1..n - (m - 1)
        PROVE  Durations(TailFrom(rest, k)) = WorkSince(log, shapes, rest[k].start)
    <2>1. PICK j : j = k + (m - 1)
      OBVIOUS
    <2>2. j \in 1..n /\ TailFrom(rest, k) = TailFrom(w, j)
      BY <1>1, <1>4, <2>1, TailTail
    <2>3. rest[k] = w[j]
      BY <1>3, <1>4, <2>1
    <2> QED
      BY <1>1, <2>2, <2>3 DEF Tails
  <1>5. ASSUME NEW i \in Of(log, shapes), NEW k \in 1..n - (m - 1)
        PROVE  \/ log[i].at < rest[k].start + BIN_SIZE
               \/ k < n - (m - 1) /\ log[i].at >= rest[k + 1].start
    <2>1. PICK j : j = k + (m - 1)
      OBVIOUS
    <2>2. /\ j \in 1..n /\ (j < n => k + 1 \in 1..n - (m - 1) /\ k < n - (m - 1))
          /\ (k + 1) + (m - 1) = j + 1
      BY <1>2, <1>5, <2>1
    <2>3. rest[k] = w[j] /\ (j < n => rest[k + 1] = w[j + 1])
      BY <1>3, <1>5, <2>1, <2>2
    <2>4. \/ log[i].at < w[j].start + BIN_SIZE
          \/ j < n /\ log[i].at >= w[j + 1].start
      BY <1>1, <1>5, <2>2 DEF Gapless
    <2> QED
      BY <2>2, <2>3, <2>4
  <1> QED
    BY <1>1, <1>3, <1>4, <1>5 DEF Tails, Gapless

\* The measurement, and its entry in the history.
LEMMA LoggedMeasured ==
    ASSUME NEW now \in Nat, NEW rest \in Seq(Bins), Len(rest) # 0, InOrder(rest, now),
           now - rest[Len(rest)].start < BIN_SIZE,
           NEW log \in Logs, NEW shapes, NEW q \in Shapes, q \in shapes, NEW d \in Nat,
           Tails(rest, log, shapes), Gapless(rest, log, shapes)
    PROVE  Logged(Measured(rest, d), Append(log, Entry(q, now, d)), shapes)
  <1>1. PICK n, bins, more : /\ n = Len(rest) /\ bins = Measured(rest, d)
                             /\ more = Append(log, Entry(q, now, d))
    OBVIOUS
  <1>2. n \in Nat \ {0} /\ BIN_SIZE \in Nat /\ \A i \in 1..n : rest[i].start \in Nat
    BY <1>1, BinAt, LoadAssumption
  <1>3. bins \in Seq(Bins) /\ Len(bins) = n /\ \A i \in 1..n : bins[i].start = rest[i].start
    BY <1>1, MeasuredFacts
  <1>4. bins # <<>>
    BY <1>2, <1>3
  <1>5. ASSUME NEW k \in 1..n
        PROVE  Durations(TailFrom(bins, k)) = WorkSince(more, shapes, bins[k].start)
    <2>1. /\ TailFrom(bins, k) = Measured(TailFrom(rest, k), d)
          /\ TailFrom(rest, k) \in Seq(Bins) /\ Len(TailFrom(rest, k)) # 0
      BY <1>1, <1>5, TailMeasured
    <2>2. Durations(TailFrom(bins, k)) = Durations(TailFrom(rest, k)) + d
      BY <2>1, MeasuredFacts
    <2>3. PICK b : b = rest[k].start
      OBVIOUS
    <2>4. b \in Nat /\ b <= now
      BY <1>1, <1>2, <1>5, <2>3 DEF InOrder
    <2>5. WorkSince(more, shapes, b) = WorkSince(log, shapes, b) + d
      BY <1>1, <2>4, WorkAppended
    <2>6. Durations(TailFrom(rest, k)) = WorkSince(log, shapes, b)
      BY <1>1, <1>5, <2>3 DEF Tails
    <2> QED
      BY <1>3, <1>5, <2>2, <2>3, <2>5, <2>6
  <1>6. ASSUME NEW i \in Of(more, shapes), NEW k \in 1..n
        PROVE  \/ more[i].at < bins[k].start + BIN_SIZE
               \/ k < n /\ more[i].at >= bins[k + 1].start
    <2>0. k < n => k + 1 \in 1..n
      BY <1>2
    <2>1. CASE i \in Of(log, shapes)
      <3>1. more[i] = log[i]
        BY <1>1, <2>1, OfAppended
      <3>2. \/ log[i].at < rest[k].start + BIN_SIZE
            \/ k < n /\ log[i].at >= rest[k + 1].start
        BY <1>1, <1>6, <2>1 DEF Gapless
      <3> QED
        BY <1>3, <1>6, <2>0, <3>1, <3>2
    <2>2. CASE i = Len(log) + 1
      <3>1. more[i].at = now
        BY <1>1, <2>2, OfAppended
      <3>2. CASE k < n
        <4>1. rest[k + 1].start <= now
          BY <1>1, <2>0, <3>2 DEF InOrder
        <4> QED
          BY <1>2, <1>3, <2>0, <3>1, <3>2, <4>1
      <3>3. CASE k = n
        BY <1>1, <1>2, <1>3, <1>6, <3>1, <3>3
      <3> QED
        BY <1>2, <1>6, <3>2, <3>3
    <2>3. Of(more, shapes) = Of(log, shapes) \cup {Len(log) + 1}
      BY <1>1, OfAppended
    <2> QED
      BY <1>6, <2>1, <2>2, <2>3
  <1> QED
    BY <1>1, <1>3, <1>4, <1>5, <1>6 DEF Logged, Tails, Gapless

\* Work of other shapes does not matter.
LEMMA LoggedOther ==
    ASSUME NEW now \in Nat, NEW bins \in Seq(Bins),
           NEW log \in Logs, NEW shapes, NEW q \in Shapes, q \notin shapes, NEW d \in Nat,
           Logged(bins, log, shapes)
    PROVE  Logged(bins, Append(log, Entry(q, now, d)), shapes)
  <1>1. PICK more : more = Append(log, Entry(q, now, d))
    OBVIOUS
  <1>2. Of(more, shapes) = Of(log, shapes) /\ \A i \in Of(log, shapes) : more[i] = log[i]
    BY <1>1, OfAppended
  <1>3. \A k \in 1..Len(bins) : bins[k].start \in Nat
    BY BinAt
  <1>4. Tails(bins, more, shapes)
    <2>1. ASSUME NEW k \in 1..Len(bins)
          PROVE  Durations(TailFrom(bins, k)) = WorkSince(more, shapes, bins[k].start)
      <3>1. PICK b : b = bins[k].start
        OBVIOUS
      <3>2. b \in Nat
        BY <1>3, <3>1
      <3>3. WorkSince(more, shapes, b) = WorkSince(log, shapes, b)
        BY <1>1, <3>2, WorkAppended
      <3> QED
        BY <3>1, <3>3 DEF Logged, Tails
    <2> QED
      BY <2>1 DEF Tails
  <1>5. Gapless(bins, more, shapes) /\ (bins = <<>> => Of(more, shapes) = {})
    BY <1>2 DEF Logged, Gapless
  <1> QED
    BY <1>1, <1>4, <1>5 DEF Logged

-----------------------------------------------------------------------------
(* The window, as of the last measurement.                                  *)

Recent(bins, log, shapes, t) ==
    /\ Past(log, shapes, t)
    /\ bins[1].start > t - WINDOW_SIZE
    /\ \A i \in Of(log, shapes) : log[i].at < bins[1].start => log[i].at < t - WINDOW_SIZE + BIN_SIZE
    /\ \E i \in Of(log, shapes) : log[i].at = t

Kept(s, log, shapes, now) ==
    /\ StatsOK(s, now)
    /\ Logged(s.bins, log, shapes)
    /\ s.bins # <<>> => \E t \in Nat : Recent(s.bins, log, shapes, t)

LEMMA RecentMeasured ==
    ASSUME NEW now \in Nat, NEW s, NEW log \in Logs, NEW shapes, Kept(s, log, shapes, now),
           Past(log, shapes, now), NEW q \in Shapes, q \in shapes, NEW d \in Nat
    PROVE  Recent(Measured(BinsLeft(s, now), d), Append(log, Entry(q, now, d)), shapes, now)
  <1>1. PICK b, w, m, rest, bins, more :
           /\ b = s.bins /\ w = WithBin(s, now) /\ m = FirstKept(w, now) /\ rest = BinsLeft(s, now)
           /\ bins = Measured(rest, d) /\ more = Append(log, Entry(q, now, d))
    OBVIOUS
  <1>2. /\ s \in Stats /\ Rising(s.bins, now) /\ Logged(s.bins, log, shapes)
        /\ b \in Seq(Bins)
    BY <1>1, InOrderRising DEF Kept, StatsOK, Stats
  <1>3. /\ w \in Seq(Bins) /\ Len(w) \in Nat \ {0}
        /\ m \in 1..Len(w) /\ rest \in Seq(Bins) /\ Len(rest) = Len(w) - (m - 1)
        /\ Len(rest) # 0 /\ \A i \in 1..Len(rest) : rest[i] = w[i + (m - 1)]
        /\ m > 1 => now - w[m - 1].start >= WINDOW_SIZE
        /\ now - rest[1].start < WINDOW_SIZE
        /\ InOrder(rest, now)
    BY <1>1, <1>2, LeftFacts
  <1>4. 1 \in 1..Len(rest) /\ rest[1] = w[m]
    <2>1. 1 \in 1..Len(rest) /\ 1 + (m - 1) = m
      BY <1>3
    <2> QED
      BY <1>3, <2>1
  <1>5. \A i \in 1..Len(w) : w[i].start \in Nat
    BY <1>3, BinAt
  <1>6. bins[1].start = w[m].start
    <2>1. rest \in Seq(Bins) /\ Len(rest) # 0 /\ bins = Measured(rest, d)
      BY <1>1, <1>3
    <2>2. \A i \in 1..Len(rest) : bins[i].start = rest[i].start
      BY <2>1, MeasuredFacts
    <2> QED
      BY <1>4, <2>2
  <1>7. WINDOW_SIZE \in Nat /\ BIN_SIZE \in Nat \ {0}
    BY LoadAssumption
  <1>8. /\ Of(more, shapes) = Of(log, shapes) \cup {Len(log) + 1}
        /\ more[Len(log) + 1].at = now
        /\ \A i \in Of(log, shapes) : more[i] = log[i]
    BY <1>1, OfAppended
  <1>9. \A i \in Of(log, shapes) : log[i].at \in Nat /\ log[i].at <= now
    BY EntryAt DEF Of, Past
  <1>10. Past(more, shapes, now) /\ \E i \in Of(more, shapes) : more[i].at = now
    BY <1>8, <1>9 DEF Past
  <1>11. bins[1].start > now - WINDOW_SIZE
    BY <1>3, <1>4, <1>5, <1>6, <1>7
  <1>12. ASSUME NEW i \in Of(log, shapes), log[i].at < w[m].start
         PROVE  log[i].at < now - WINDOW_SIZE + BIN_SIZE
    <2>1. CASE m > 1
      <3>1. PICK k : k = m - 1
        OBVIOUS
      <3>2. k \in 1..Len(w) /\ k + 1 = m /\ k \in Nat
        BY <1>3, <2>1, <3>1
      <3>3. Gapless(w, log, shapes)
        BY <1>1, <1>2, LoggedWithBin
      <3>4. \/ log[i].at < w[k].start + BIN_SIZE
            \/ log[i].at >= w[m].start
        BY <1>12, <3>2, <3>3 DEF Gapless
      <3>5. now - w[k].start >= WINDOW_SIZE
        BY <1>3, <2>1, <3>1
      <3>6. PICK a, x, y : a = log[i].at /\ x = w[k].start /\ y = w[m].start
        OBVIOUS
      <3>7. /\ a \in Nat /\ x \in Nat /\ y \in Nat /\ a < y /\ (a < x + BIN_SIZE \/ a >= y)
            /\ now - x >= WINDOW_SIZE
        BY <1>3, <1>5, <1>9, <1>12, <3>2, <3>4, <3>5, <3>6
      <3>8. a < now - WINDOW_SIZE + BIN_SIZE
        BY <1>7, <3>7
      <3> QED
        BY <3>6, <3>8
    <2>2. CASE m = 1
      <3>1. b # <<>>
        BY <1>1, <1>12 DEF Kept, Logged
      <3>2. PICK t \in Nat : Recent(b, log, shapes, t)
        BY <1>1, <3>1 DEF Kept
      <3>3. t <= now
        BY <1>9, <3>2 DEF Recent
      <3>4. w[1] = b[1]
        <4>1. \/ w = b
              \/ w = Append(b, NewBin(now))
          BY <1>1, <1>2, WithBinFacts
        <4>2. 1 \in 1..Len(b)
          BY <1>2, <3>1
        <4>3. \A i_1 \in 1..Len(b) : Append(b, NewBin(now))[i_1] = b[i_1]
          BY <1>2, AppendedBin
        <4> QED
          BY <4>1, <4>2, <4>3
      <3>5. log[i].at < t - WINDOW_SIZE + BIN_SIZE
        BY <1>12, <2>2, <3>2, <3>4 DEF Recent
      <3> QED
        BY <1>7, <1>9, <1>12, <3>3, <3>5
    <2> QED
      BY <1>3, <2>1, <2>2
  <1>13. ASSUME NEW i \in Of(more, shapes), more[i].at < bins[1].start
         PROVE  more[i].at < now - WINDOW_SIZE + BIN_SIZE
    <2>1. CASE i \in Of(log, shapes)
      BY <1>6, <1>8, <1>12, <1>13, <2>1
    <2>2. CASE i = Len(log) + 1
      <3>1. w[m].start <= now
        BY <1>3, <1>4 DEF InOrder
      <3>2. w[m].start \in Nat /\ now < w[m].start
        BY <1>3, <1>5, <1>6, <1>8, <1>13, <2>2
      <3> QED
        BY <3>1, <3>2
    <2> QED
      BY <1>8, <1>13, <2>1, <2>2
  <1>14. Recent(bins, more, shapes, now)
    BY <1>10, <1>11, <1>13 DEF Recent
  <1> QED
    BY <1>1, <1>14

LEMMA KeptMeasured ==
    ASSUME NEW now \in Nat, NEW s, NEW log \in Logs, NEW shapes, Kept(s, log, shapes, now),
           Past(log, shapes, now), NEW q \in Shapes, q \in shapes, NEW d \in Nat
    PROVE  /\ Kept(AddAt(s, now, d), Append(log, Entry(q, now, d)), shapes, now)
           /\ AddAt(s, now, d).bins # <<>>
  <1>1. PICK w, m, rest : w = WithBin(s, now) /\ m = FirstKept(w, now) /\ rest = BinsLeft(s, now)
    OBVIOUS
  <1>2. s \in Stats /\ Rising(s.bins, now) /\ Logged(s.bins, log, shapes) /\ StatsOK(s, now)
    BY InOrderRising DEF Kept, StatsOK
  <1>3. /\ w \in Seq(Bins) /\ m \in 1..Len(w) /\ rest \in Seq(Bins)
        /\ Len(rest) # 0 /\ now - rest[Len(rest)].start < BIN_SIZE /\ InOrder(rest, now)
    BY <1>1, <1>2, LeftFacts
  <1>4. Tails(w, log, shapes) /\ Gapless(w, log, shapes)
    BY <1>1, <1>2, LoggedWithBin
  <1>5. rest = TailFrom(w, m)
    BY <1>1 DEF BinsLeft, TailFrom
  <1>6. Tails(rest, log, shapes) /\ Gapless(rest, log, shapes)
    BY <1>3, <1>4, <1>5, LoggedRest
  <1>7. Logged(Measured(rest, d), Append(log, Entry(q, now, d)), shapes)
    BY <1>3, <1>6, LoggedMeasured
  <1>8. StatsOK(AddAt(s, now, d), now) /\ AddAt(s, now, d).bins = Measured(rest, d)
    BY <1>1, <1>2, AddAtOK
  <1>9. Recent(Measured(rest, d), Append(log, Entry(q, now, d)), shapes, now)
    BY <1>1, RecentMeasured
  <1>10. Measured(rest, d) # <<>>
    <2>1. Measured(rest, d) \in Seq(Bins) /\ Len(Measured(rest, d)) = Len(rest)
      BY <1>3, MeasuredFacts
    <2> QED
      BY <1>3, <2>1
  <1> QED
    BY <1>7, <1>8, <1>9, <1>10 DEF Kept

LEMMA KeptOther ==
    ASSUME NEW now \in Nat, NEW s, NEW log \in Logs, NEW shapes, Kept(s, log, shapes, now),
           NEW q \in Shapes, q \notin shapes, NEW d \in Nat
    PROVE  Kept(s, Append(log, Entry(q, now, d)), shapes, now)
  <1>1. PICK more : more = Append(log, Entry(q, now, d))
    OBVIOUS
  <1>2. Of(more, shapes) = Of(log, shapes) /\ \A i \in Of(log, shapes) : more[i] = log[i]
    <2>1. Of(more, shapes) = Of(log, shapes)
      BY <1>1, OfAppended
    <2>2. \A i \in Of(log, shapes) : more[i] = log[i]
      BY <1>1, OfAppended
    <2> QED
      BY <2>1, <2>2
  <1>3. StatsOK(s, now) /\ s.bins \in Seq(Bins) /\ Logged(s.bins, log, shapes)
    BY DEF Kept, StatsOK, Stats
  <1>4. Logged(s.bins, more, shapes)
    BY <1>1, <1>3, LoggedOther
  <1>5. ASSUME NEW t \in Nat, Recent(s.bins, log, shapes, t)
        PROVE  Recent(s.bins, more, shapes, t)
    BY <1>2, <1>5 DEF Recent, Past
  <1> QED
    BY <1>1, <1>3, <1>4, <1>5 DEF Kept

LEMMA KeptLater ==
    ASSUME NEW now \in Nat, NEW then \in Nat, now <= then, NEW s, NEW log, NEW shapes,
           Kept(s, log, shapes, now)
    PROVE  Kept(s, log, shapes, then)
  BY StatsOKLater DEF Kept

LEMMA NothingKept ==
    ASSUME NEW now, NEW log, NEW shapes, Of(log, shapes) = {}
    PROVE  Kept(NoStats, log, shapes, now)
  <1>1. StatsOK(NoStats, now) /\ NoStats.bins = <<>>
    BY NoStatsOK DEF NoStats
  <1>2. Logged(<<>>, log, shapes)
    BY DEF Logged, Tails, Gapless
  <1> QED
    BY <1>1, <1>2 DEF Kept

LEMMA GreatestOf ==
    ASSUME NEW S \in SUBSET Int, NEW t \in S, \A y \in S : y <= t
    PROVE  Max(S) = t
  <1>1. \A x \in S : (\A y \in S : x >= y) => x = t
    OBVIOUS
  <1>2. \A y \in S : t >= y
    OBVIOUS
  <1> QED
    BY <1>1, <1>2 DEF Max

LEMMA LastWorkIs ==
    ASSUME workLog \in Logs, NEW shapes, NEW t \in Nat, Past(workLog, shapes, t),
           NEW i \in Of(workLog, shapes), workLog[i].at = t
    PROVE  LastWork(shapes) = t
  <1> DEFINE A == {w.at : w \in {w \in ToSet(workLog) : w.shape \in shapes}}
             S == {0} \cup A
  <1>1. Len(workLog) \in Nat /\ DOMAIN workLog = 1..Len(workLog)
    BY DEF Logs
  <1>2. \A k \in 1..Len(workLog) : workLog[k].at \in Nat
    BY EntryAt
  <1>3. ASSUME NEW y \in A
        PROVE  y \in Nat /\ y <= t
    <2>1. PICK w \in ToSet(workLog) : w.shape \in shapes /\ y = w.at
      BY <1>3
    <2>2. PICK k \in 1..Len(workLog) : w = workLog[k]
      BY <1>1, <2>1 DEF ToSet
    <2>3. k \in Of(workLog, shapes)
      BY <2>1, <2>2 DEF Of
    <2> QED
      BY <1>2, <2>1, <2>2, <2>3 DEF Past
  <1>4. t \in A
    <2>1. i \in 1..Len(workLog) /\ workLog[i].shape \in shapes
      BY DEF Of
    <2>2. workLog[i] \in ToSet(workLog)
      BY <1>1, <2>1 DEF ToSet
    <2> QED
      BY <2>1, <2>2
  <1>5. LastWork(shapes) = Max(S)
    BY DEF LastWork
  <1> HIDE DEF A
  <1>6. S \in SUBSET Int /\ t \in S /\ \A y \in S : y <= t
    BY <1>3, <1>4
  <1> HIDE DEF S
  <1>7. Max(S) = t
    BY <1>6, GreatestOf
  <1> QED
    BY <1>5, <1>7

LEMMA KeptInWindow ==
    ASSUME workLog \in Logs, NEW s, NEW shapes, NEW now, Kept(s, workLog, shapes, now), s.bins # <<>>
    PROVE  InWindow(s, shapes)
  <1>1. PICK t \in Nat : Recent(s.bins, workLog, shapes, t)
    BY DEF Kept
  <1>2. LastWork(shapes) = t
    BY <1>1, LastWorkIs DEF Recent
  <1>3. PICK b, B, f : b = s.bins /\ B = b[1].start /\ f = LogDurations(workLog)
    OBVIOUS
  <1>4. b \in Seq(Bins) /\ s.duration = Durations(b) /\ b # <<>>
    BY <1>3 DEF Kept, StatsOK, Stats
  <1>5. 1 \in 1..Len(b) /\ B \in Nat
    <2>1. 1 \in 1..Len(b)
      BY <1>4
    <2> QED
      BY <1>3, <1>4, <2>1, BinAt
  <1>6. TailFrom(b, 1) = b
    BY <1>4 DEF TailFrom
  <1>7. s.duration = WorkSince(workLog, shapes, B)
    BY <1>3, <1>4, <1>5, <1>6 DEF Kept, Logged, Tails
  <1>8. WINDOW_SIZE \in Nat /\ BIN_SIZE \in Nat \ {0}
    BY LoadAssumption
  <1>9. \A i \in 1..Len(workLog) : workLog[i].at \in Nat /\ f[i] \in Nat
    BY <1>3, EntryAt DEF LogDurations
  <1>10. IsFiniteSet(1..Len(workLog))
    <2>1. Len(workLog) \in Int /\ 1 \in Int
      BY EntryAt
    <2> QED
      BY <2>1, FS_Interval
  <1>11. PICK E, lower, upper :
           /\ E = EntriesSince(workLog, shapes, B)
           /\ lower = {i \in 1..Len(workLog) : /\ workLog[i].shape \in shapes
                                              /\ workLog[i].at \in (t - WINDOW_SIZE + BIN_SIZE)..t}
           /\ upper = {i \in 1..Len(workLog) : /\ workLog[i].shape \in shapes
                                              /\ workLog[i].at \in (t - WINDOW_SIZE + 1)..t}
    OBVIOUS
  <1>12. lower \in SUBSET E
    <2>1. ASSUME NEW i \in lower
          PROVE  i \in E
      <3>1. /\ i \in 1..Len(workLog) /\ workLog[i].shape \in shapes /\ i \in Of(workLog, shapes)
            /\ workLog[i].at \in (t - WINDOW_SIZE + BIN_SIZE)..t
        BY <1>11, <2>1 DEF Of
      <3>2. ~(workLog[i].at < t - WINDOW_SIZE + BIN_SIZE)
        BY <1>8, <1>9, <3>1
      <3>3. ~(workLog[i].at < B)
        BY <1>1, <1>3, <3>1, <3>2 DEF Recent
      <3> QED
        BY <1>5, <1>9, <1>11, <3>1, <3>3 DEF EntriesSince
    <2> QED
      BY <2>1
  <1>13. E \in SUBSET upper
    <2>1. ASSUME NEW i \in E
          PROVE  i \in upper
      <3>1. /\ i \in Of(workLog, shapes) /\ i \in 1..Len(workLog) /\ workLog[i].shape \in shapes
            /\ workLog[i].at >= B
        BY <1>11, <2>1 DEF Of, EntriesSince
      <3>2. workLog[i].at <= t /\ B > t - WINDOW_SIZE /\ workLog[i].at \in Nat
        BY <1>1, <1>3, <1>9, <3>1 DEF Recent, Past
      <3>3. workLog[i].at \in (t - WINDOW_SIZE + 1)..t
        BY <1>5, <1>8, <3>1, <3>2
      <3> QED
        BY <1>11, <3>1, <3>3
    <2> QED
      BY <2>1
  <1>14. upper \in SUBSET (1..Len(workLog)) /\ E \in SUBSET (1..Len(workLog))
    BY <1>11 DEF EntriesSince, Of
  <1>15. NatOn(f, upper) /\ NatOn(f, E) /\ IsFiniteSet(upper) /\ IsFiniteSet(E)
    <2>1. IsFiniteSet(upper) /\ IsFiniteSet(E)
      BY <1>10, <1>14, FS_Subset
    <2> QED
      BY <1>9, <1>14, <2>1 DEF NatOn
  <1>16. SumFunctionOnSet(f, E) <= SumFunctionOnSet(f, upper)
    BY <1>13, <1>15, SumSubset
  <1>17. SumFunctionOnSet(f, lower) <= SumFunctionOnSet(f, E)
    BY <1>12, <1>15, SumSubset
  <1>18. /\ WorkIn(shapes, t - WINDOW_SIZE + BIN_SIZE, t) = SumFunctionOnSet(f, lower)
         /\ WorkIn(shapes, t - WINDOW_SIZE + 1, t) = SumFunctionOnSet(f, upper)
    BY <1>3, <1>11 DEF WorkIn, LogDurations
  <1>19. s.duration = SumFunctionOnSet(f, E)
    BY <1>3, <1>7, <1>11 DEF WorkSince
  <1>20. SumFunctionOnSet(f, lower) \in Nat /\ SumFunctionOnSet(f, E) \in Nat
         /\ SumFunctionOnSet(f, upper) \in Nat
    <2>1. IsFiniteSet(lower) /\ NatOn(f, lower)
      BY <1>12, <1>15, FS_Subset DEF NatOn
    <2> QED
      BY <1>15, <2>1, SumNat
  <1> QED
    BY <1>2, <1>16, <1>17, <1>18, <1>19, <1>20 DEF InWindow

-----------------------------------------------------------------------------
(* The load manager's inductive invariant.                                  *)

Rates == 0..1000

KillStates == [rate : Rates, updated : Nat]

DeciderOK(x) ==
    /\ x.phase # "idle" => x.shape \in Shapes
    /\ x.phase = "weigh" => x.killState \in KillStates

DecidersOK ==
    /\ killState \in KillStates
    /\ deciders = [c \in Deciders |-> deciders[c]]
    /\ \A c \in Deciders : DeciderOK(deciders[c])

LogInv ==
    /\ clock \in Nat
    /\ workLog \in Logs
    /\ \A i \in 1..Len(workLog) : workLog[i].at <= clock

WaitsInv ==
    /\ waits = [s \in {"semaphore", "store"} |-> waits[s]]
    /\ \A s \in {"semaphore", "store"} : StatsOK(waits[s], clock)

EffortInv ==
    /\ Kept(total, workLog, Shapes, clock)
    /\ DOMAIN effort \in SUBSET Shapes
    /\ \A q \in DOMAIN effort : Kept(effort[q], workLog, {q}, clock) /\ effort[q].bins # <<>>
    /\ \A q \in Shapes \ DOMAIN effort : Of(workLog, {q}) = {}

LoadInv == DecidersOK /\ LogInv /\ WaitsInv /\ EffortInv

LEMMA LoadInitially == LoadInit => LoadInv
  <1> SUFFICES ASSUME LoadInit
               PROVE  LoadInv
    OBVIOUS
  <1>1. DecidersOK
    <2>1. killState \in KillStates
      BY DEF LoadInit, KillStates, Rates
    <2>2. deciders = [c \in Deciders |-> [phase |-> "idle"]]
      BY DEF LoadInit
    <2>3. \A c \in Deciders : deciders[c].phase = "idle"
      BY <2>2
    <2>4. deciders = [c \in Deciders |-> deciders[c]]
      BY <2>2
    <2> QED
      BY <2>1, <2>3, <2>4 DEF DecidersOK, DeciderOK
  <1>2. LogInv /\ workLog = <<>>
    BY LoadAssumption DEF LoadInit, LogInv, Logs
  <1>3. WaitsInv
    <2>1. waits = [s \in {"semaphore", "store"} |-> NoStats]
      BY DEF LoadInit
    <2> QED
      BY <2>1, NoStatsOK DEF WaitsInv
  <1>4. \A shapes : Of(workLog, shapes) = {}
    BY <1>2 DEF Of
  <1>5. EffortInv
    <2>1. DOMAIN effort = {}
      BY DEF LoadInit
    <2>2. Kept(total, workLog, Shapes, clock)
      BY <1>4, NothingKept DEF LoadInit
    <2> QED
      BY <1>4, <2>1, <2>2 DEF EffortInv
  <1> QED
    BY <1>1, <1>2, <1>3, <1>5 DEF LoadInv

LEMMA GotoKeeps ==
    ASSUME DecidersOK, NEW c \in Deciders, NEW x, DeciderOK(x), Goto(c, x), killState' \in KillStates
    PROVE  DecidersOK'
  <1>1. deciders' = [deciders EXCEPT ![c] = x]
    BY DEF Goto
  <1>2. deciders' = [k \in Deciders |-> IF k = c THEN x ELSE deciders[k]]
    BY <1>1, Zenon DEF DecidersOK
  <1>3. \A k \in Deciders : deciders'[k] = IF k = c THEN x ELSE deciders[k]
    BY <1>2
  <1>4. deciders' = [k \in Deciders |-> deciders'[k]]
    BY <1>2
  <1>5. \A k \in Deciders : DeciderOK(deciders'[k])
    BY <1>3 DEF DecidersOK
  <1> QED
    BY <1>4, <1>5 DEF DecidersOK, DeciderOK

\* A step that leaves the statistics alone.
LEMMA StatsUntouched ==
    ASSUME LoadInv, UNCHANGED <<clock, effort, total, waits, workLog>>
    PROVE  LogInv' /\ WaitsInv' /\ EffortInv'
  BY DEF LoadInv, LogInv, WaitsInv, EffortInv

LEMMA RefusedOK ==
    ASSUME NEW q \in Shapes
    PROVE  DeciderOK(Refused(q))
  BY DEF Refused, DeciderOK

LEMMA StepInRange ==
    ASSUME NEW rate \in Rates, NEW overloaded
    PROVE  Step(overloaded, rate) \in Rates
  <1> USE DEF Rates
  <1>1. rate + (1000 - rate) \div 10 \in 0..1000
    OBVIOUS
  <1>2. Max({rate - 200, 0}) \in 0..1000
    <2>1. CASE rate >= 200
      <3>1. Max({rate - 200, 0}) = rate - 200
        BY <2>1, GreatestOf
      <3> QED
        BY <2>1, <3>1
    <2>2. CASE rate < 200
      <3>1. Max({rate - 200, 0}) = 0
        BY <2>2, GreatestOf
      <3> QED
        BY <2>2, <3>1
    <2> QED
      BY <2>1, <2>2
  <1> QED
    BY <1>1, <1>2 DEF Step

LEMMA UpdatedInRange ==
    ASSUME LoadInv, NEW c \in Deciders, deciders[c].phase = "weigh"
    PROVE  Updated(c) \in KillStates
  <1>1. deciders[c].killState \in KillStates /\ killState \in KillStates /\ clock \in Nat
    BY DEF LoadInv, DecidersOK, DeciderOK, LogInv
  <1>2. PICK r : r = Step(deciders[c].overloaded, deciders[c].killState.rate)
    OBVIOUS
  <1>3. r \in Rates
    <2>1. PICK o, k : o = deciders[c].overloaded /\ k = deciders[c].killState.rate
      OBVIOUS
    <2>2. k \in Rates
      BY <1>1, <2>1 DEF KillStates
    <2>3. Step(o, k) \in Rates
      BY <2>2, StepInRange, Zenon
    <2> QED
      BY <1>2, <2>1, <2>3
  <1>4. Updated(c) = [rate |-> r, updated |-> clock] \/ Updated(c) = killState
    BY <1>2 DEF Updated
  <1> QED
    BY <1>1, <1>3, <1>4 DEF KillStates

LEMMA DecisionsKeep ==
    ASSUME LoadInv, NEW c \in Deciders,
           \/ \E q \in Shapes : Ask(c, q)
           \/ Welcome(c) \/ Jail(c) \/ Weigh(c) \/ Answered(c)
    PROVE  LoadInv'
  <1>1. DecidersOK /\ killState \in KillStates /\ DeciderOK(deciders[c])
    BY DEF LoadInv, DecidersOK
  <1>2. DeciderOK([phase |-> "idle"])
    BY DEF DeciderOK
  <1>3. ASSUME NEW q \in Shapes
        PROVE  DeciderOK([phase |-> "permit", shape |-> q]) /\ DeciderOK([phase |-> "throttled", shape |-> q])
    BY DEF DeciderOK
  <1>4. CASE \E q \in Shapes : Ask(c, q)
    <2>1. PICK q \in Shapes : Ask(c, q)
      BY <1>4
    <2>2. PICK x : /\ Goto(c, x)
                   /\ \/ x = [phase |-> "idle"]
                      \/ x = [phase |-> "permit", shape |-> q]
                      \/ x = Refused(q)
                      \/ x = [phase |-> "weigh", shape |-> q, overloaded |-> Overloaded,
                              killState |-> killState]
      BY <2>1 DEF Ask
    <2>3. DeciderOK(x)
      <3>1. DeciderOK([phase |-> "weigh", shape |-> q, overloaded |-> Overloaded,
                       killState |-> killState])
        BY <1>1 DEF DeciderOK
      <3> QED
        BY <1>2, <1>3, <2>2, <3>1, RefusedOK
    <2>4. killState' \in KillStates /\ UNCHANGED <<clock, effort, total, waits, workLog>>
      BY <1>1, <2>1 DEF Ask
    <2> QED
      BY <1>1, <2>2, <2>3, <2>4, GotoKeeps, StatsUntouched DEF LoadInv
  <1>5. CASE Welcome(c)
    <2>1. deciders[c].shape \in Shapes
      BY <1>1, <1>5 DEF Welcome, DeciderOK
    <2>2. PICK x : x = [phase |-> "permit", shape |-> deciders[c].shape]
      OBVIOUS
    <2>3. Goto(c, x) /\ DeciderOK(x)
      BY <1>3, <1>5, <2>1, <2>2 DEF Welcome
    <2>4. killState' \in KillStates /\ UNCHANGED <<clock, effort, total, waits, workLog>>
      BY <1>1, <1>5 DEF Welcome
    <2> QED
      BY <1>1, <2>3, <2>4, GotoKeeps, StatsUntouched DEF LoadInv
  <1>6. CASE Jail(c)
    <2>1. deciders[c].shape \in Shapes
      BY <1>1, <1>6 DEF Jail, DeciderOK
    <2>2. PICK x : x = Refused(deciders[c].shape)
      OBVIOUS
    <2>3. Goto(c, x) /\ DeciderOK(x)
      BY <1>6, <2>1, <2>2, RefusedOK DEF Jail
    <2>4. killState' \in KillStates /\ UNCHANGED <<clock, effort, total, waits, workLog>>
      BY <1>1, <1>6 DEF Jail
    <2> QED
      BY <1>1, <2>3, <2>4, GotoKeeps, StatsUntouched DEF LoadInv
  <1>7. CASE Weigh(c)
    <2>1. deciders[c].shape \in Shapes /\ deciders[c].phase = "weigh"
      BY <1>1, <1>7 DEF Weigh, DeciderOK
    <2>2. PICK x : /\ Goto(c, x)
                   /\ \/ x = [phase |-> "throttled", shape |-> deciders[c].shape]
                      \/ x = [phase |-> "permit", shape |-> deciders[c].shape]
      BY <1>7 DEF Weigh
    <2>3. DeciderOK(x)
      BY <1>3, <2>1, <2>2
    <2>4. killState' \in KillStates /\ UNCHANGED <<clock, effort, total, waits, workLog>>
      BY <1>7, <2>1, UpdatedInRange DEF Weigh
    <2> QED
      BY <1>1, <2>2, <2>3, <2>4, GotoKeeps, StatsUntouched DEF LoadInv
  <1>8. CASE Answered(c)
    <2>1. PICK x : x = [phase |-> "idle"]
      OBVIOUS
    <2>2. Goto(c, x) /\ DeciderOK(x)
      BY <1>2, <1>8, <2>1 DEF Answered
    <2>3. killState' \in KillStates /\ UNCHANGED <<clock, effort, total, waits, workLog>>
      BY <1>1, <1>8 DEF Answered
    <2> QED
      BY <1>1, <2>2, <2>3, GotoKeeps, StatsUntouched DEF LoadInv
  <1> QED
    BY <1>4, <1>5, <1>6, <1>7, <1>8

LEMMA LoadClockKeeps ==
    ASSUME LoadInv, LoadClock
    PROVE  LoadInv'
  <1>1. /\ clock' = clock + 1 /\ clock \in Nat /\ workLog \in Logs
        /\ UNCHANGED <<effort, total, waits, killState, deciders, workLog>>
    BY DEF LoadClock, LoadInv, LogInv
  <1>2. PICK then : then = clock'
    OBVIOUS
  <1>3. then \in Nat /\ clock <= then
    BY <1>1, <1>2
  <1>4. DecidersOK'
    BY <1>1 DEF LoadInv, DecidersOK
  <1>5. LogInv'
    <2>1. \A i \in 1..Len(workLog) : workLog[i].at \in Nat
      BY <1>1, EntryAt
    <2>2. \A i \in 1..Len(workLog) : workLog[i].at <= then
      BY <1>1, <1>2, <2>1 DEF LoadInv, LogInv
    <2> QED
      BY <1>1, <1>2, <1>3, <2>2 DEF LogInv
  <1>6. WaitsInv'
    <2>1. \A s \in {"semaphore", "store"} : StatsOK(waits[s], then)
      BY <1>1, <1>3, StatsOKLater DEF LoadInv, WaitsInv
    <2> QED
      BY <1>1, <1>2, <2>1 DEF LoadInv, WaitsInv
  <1>7. EffortInv'
    <2>1. Kept(total, workLog, Shapes, then)
      BY <1>1, <1>3, KeptLater DEF LoadInv, EffortInv
    <2>2. \A q \in DOMAIN effort : Kept(effort[q], workLog, {q}, then)
      BY <1>1, <1>3, KeptLater DEF LoadInv, EffortInv
    <2> QED
      BY <1>1, <1>2, <2>1, <2>2 DEF LoadInv, EffortInv
  <1> QED
    BY <1>4, <1>5, <1>6, <1>7 DEF LoadInv

LEMMA WaitAdded ==
    ASSUME LoadInv, NEW s \in {"semaphore", "store"}, NEW d \in WorkUnits,
           waits' = [waits EXCEPT ![s] = AddAt(@, clock, d)], clock' = clock
    PROVE  WaitsInv'
  <1>1. d \in Nat /\ clock \in Nat
    BY LoadAssumption DEF LoadInv, LogInv
  <1>2. PICK x : x = AddAt(waits[s], clock, d)
    OBVIOUS
  <1>3. StatsOK(waits[s], clock)
    BY DEF LoadInv, WaitsInv
  <1>4. StatsOK(x, clock)
    BY <1>1, <1>2, <1>3, AddAtOK
  <1>5. waits' = [waits EXCEPT ![s] = x]
    BY <1>2
  <1>6. waits' = [k \in {"semaphore", "store"} |-> IF k = s THEN x ELSE waits[k]]
    BY <1>5, Zenon DEF LoadInv, WaitsInv
  <1>7. /\ waits' = [k \in {"semaphore", "store"} |-> waits'[k]]
        /\ \A k \in {"semaphore", "store"} : waits'[k] = IF k = s THEN x ELSE waits[k]
    BY <1>6
  <1>8. \A k \in {"semaphore", "store"} : StatsOK(waits'[k], clock)
    BY <1>4, <1>7 DEF LoadInv, WaitsInv
  <1>9. \A k \in {"semaphore", "store"} : StatsOK(waits[k], clock)'
    BY <1>8
  <1> QED
    BY <1>7, <1>9 DEF WaitsInv

LEMMA StoreWaitsKeeps ==
    ASSUME LoadInv, StoreWaits
    PROVE  LoadInv'
  <1>1. PICK d \in WorkUnits : waits' = [waits EXCEPT !["store"] = AddAt(@, clock, d)]
    BY DEF StoreWaits
  <1>2. UNCHANGED <<clock, effort, total, killState, deciders, workLog>>
    BY DEF StoreWaits
  <1>3. WaitsInv'
    BY <1>1, <1>2, WaitAdded
  <1>4. DecidersOK' /\ LogInv' /\ EffortInv'
    BY <1>2 DEF LoadInv, DecidersOK, LogInv, EffortInv
  <1> QED
    BY <1>3, <1>4 DEF LoadInv

LEMMA PermitKeeps ==
    ASSUME LoadInv, NEW c \in Deciders, Permit(c)
    PROVE  LoadInv'
  <1>1. PICK d \in WorkUnits : waits' = [waits EXCEPT !["semaphore"] = AddAt(@, clock, d)]
    BY DEF Permit
  <1>2. UNCHANGED <<clock, effort, total, killState, workLog>>
    BY DEF Permit
  <1>3. WaitsInv'
    BY <1>1, <1>2, WaitAdded
  <1>4. LogInv' /\ EffortInv'
    BY <1>2 DEF LoadInv, LogInv, EffortInv
  <1>5. PICK x : x = [phase |-> "run", shape |-> deciders[c].shape]
    OBVIOUS
  <1>6. deciders[c].shape \in Shapes
    BY DEF LoadInv, DecidersOK, DeciderOK, Permit
  <1>7. DeciderOK(x) /\ Goto(c, x)
    BY <1>5, <1>6 DEF DeciderOK, Permit
  <1>8. DecidersOK /\ killState' \in KillStates
    BY <1>2 DEF LoadInv, DecidersOK
  <1> QED
    BY <1>3, <1>4, <1>7, <1>8, GotoKeeps DEF LoadInv

LEMMA RecordWorkKeeps ==
    ASSUME LoadInv, NEW c \in Deciders, RecordWork(c)
    PROVE  LoadInv'
  <1>1. PICK q : q = deciders[c].shape
    OBVIOUS
  <1>2. q \in Shapes
    BY <1>1 DEF LoadInv, DecidersOK, DeciderOK, RecordWork
  <1>3. PICK d \in WorkUnits :
           /\ effort' = [s \in DOMAIN effort \cup {q} |->
                            IF s # q THEN effort[s]
                            ELSE AddAt(IF Known(q) THEN effort[q] ELSE NoStats, clock, d)]
           /\ total' = AddAt(total, clock, d)
           /\ workLog' = Append(workLog, [shape |-> q, at |-> clock, duration |-> d])
    BY <1>1 DEF RecordWork
  <1>4. UNCHANGED <<clock, waits, killState>> /\ Goto(c, [phase |-> "idle"])
    BY DEF RecordWork
  <1>5. d \in Nat /\ clock \in Nat /\ workLog \in Logs
    BY LoadAssumption DEF LoadInv, LogInv
  <1>6. PICK log, now, more : log = workLog /\ now = clock /\ more = Append(log, Entry(q, now, d))
    OBVIOUS
  <1>7. more = workLog' /\ log \in Logs /\ now \in Nat
    BY <1>3, <1>5, <1>6 DEF Entry
  <1>8. /\ more \in Logs /\ Len(more) = Len(log) + 1
        /\ \A i \in 1..Len(log) : more[i] = log[i]
        /\ more[Len(log) + 1] = Entry(q, now, d)
    <2>1. log \in Logs /\ q \in Shapes /\ now \in Nat /\ d \in Nat
      BY <1>2, <1>5, <1>7
    <2>2. PICK x : x = Append(log, Entry(q, now, d))
      OBVIOUS
    <2>3. /\ x \in Logs /\ Len(x) = Len(log) + 1
          /\ \A i \in 1..Len(log) : x[i] = log[i]
          /\ x[Len(log) + 1] = Entry(q, now, d)
      BY <2>1, <2>2, LogAppended
    <2> QED
      BY <1>6, <2>2, <2>3
  <1>9. Len(log) \in Nat /\ \A i \in 1..Len(log) : log[i].at \in Nat /\ log[i].at <= now
    BY <1>6, <1>7, EntryAt DEF LoadInv, LogInv
  <1>10. \A shapes : Past(log, shapes, now)
    BY <1>9 DEF Past, Of
  <1>11. DecidersOK'
    <2>1. PICK x : x = [phase |-> "idle"]
      OBVIOUS
    <2>2. DeciderOK(x) /\ Goto(c, x)
      BY <1>4, <2>1 DEF DeciderOK
    <2>3. DecidersOK /\ killState' \in KillStates
      BY <1>4 DEF LoadInv, DecidersOK
    <2> QED
      BY <2>2, <2>3, GotoKeeps
  <1>12. LogInv'
    <2>1. more[Len(log) + 1].at = now
      BY <1>8 DEF Entry
    <2>2. \A i \in 1..Len(log) + 1 : i \in 1..Len(log) \/ i = Len(log) + 1
      BY <1>9
    <2>3. \A i \in 1..Len(more) : more[i].at <= now
      BY <1>7, <1>8, <1>9, <2>1, <2>2
    <2>4. clock' = now
      BY <1>4, <1>6
    <2> QED
      BY <1>7, <1>8, <2>3, <2>4 DEF LogInv
  <1>13. WaitsInv'
    BY <1>4 DEF LoadInv, WaitsInv
  <1>14. Kept(AddAt(total, now, d), more, Shapes, now)
    <2>1. Kept(total, log, Shapes, now)
      BY <1>6 DEF LoadInv, EffortInv
    <2> QED
      BY <1>2, <1>5, <1>6, <1>7, <1>10, <2>1, KeptMeasured
  <1>15. DOMAIN effort \in SUBSET Shapes
    BY DEF LoadInv, EffortInv
  <1>16. PICK old : old = IF Known(q) THEN effort[q] ELSE NoStats
    OBVIOUS
  <1>17. Kept(old, log, {q}, now)
    <2>1. CASE Known(q)
      BY <1>6, <1>16, <2>1 DEF LoadInv, EffortInv, Known
    <2>2. CASE ~Known(q)
      <3>1. Of(log, {q}) = {}
        BY <1>2, <1>6, <2>2 DEF LoadInv, EffortInv, Known
      <3> QED
        BY <1>16, <2>2, <3>1, NothingKept
    <2> QED
      BY <2>1, <2>2
  <1>18. PICK new : new = AddAt(old, now, d)
    OBVIOUS
  <1>19. Kept(new, more, {q}, now) /\ new.bins # <<>>
    BY <1>2, <1>5, <1>6, <1>7, <1>10, <1>17, <1>18, KeptMeasured
  <1>20. effort' = [s \in DOMAIN effort \cup {q} |-> IF s # q THEN effort[s] ELSE new]
    BY <1>3, <1>6, <1>16, <1>18
  <1>21. ASSUME NEW s \in DOMAIN effort, s # q
         PROVE  Kept(effort[s], more, {s}, now) /\ effort[s].bins # <<>>
    <2>1. Kept(effort[s], log, {s}, now) /\ effort[s].bins # <<>>
      BY <1>6 DEF LoadInv, EffortInv
    <2>2. q \notin {s}
      BY <1>21
    <2> QED
      BY <1>2, <1>5, <1>6, <1>7, <2>1, <2>2, KeptOther
  <1>22. ASSUME NEW s \in DOMAIN effort'
         PROVE  Kept(effort'[s], more, {s}, now) /\ effort'[s].bins # <<>>
    <2>1. CASE s = q
      BY <1>19, <1>20, <2>1
    <2>2. CASE s # q
      <3>1. s \in DOMAIN effort /\ effort'[s] = effort[s]
        BY <1>20, <1>22, <2>2
      <3> QED
        BY <1>21, <2>2, <3>1
    <2> QED
      BY <2>1, <2>2
  <1>23. ASSUME NEW s \in Shapes \ DOMAIN effort'
         PROVE  Of(more, {s}) = {}
    <2>1. s # q /\ s \notin DOMAIN effort /\ q \notin {s}
      BY <1>20, <1>23
    <2>2. Of(log, {s}) = {}
      BY <1>6, <1>23, <2>1 DEF LoadInv, EffortInv
    <2>3. Of(more, {s}) = Of(log, {s})
      <3>1. PICK T : T = {s}
        OBVIOUS
      <3>2. log \in Logs /\ q \in Shapes /\ now \in Nat /\ d \in Nat /\ q \notin T
        BY <1>2, <1>5, <1>7, <2>1, <3>1
      <3>3. Of(Append(log, Entry(q, now, d)), T) = Of(log, T)
        BY <3>2, OfAppended
      <3> QED
        BY <1>6, <3>1, <3>3
    <2> QED
      BY <2>2, <2>3
  <1>24. EffortInv'
    <2>1. DOMAIN effort' = DOMAIN effort \cup {q}
      BY <1>20
    <2>2. total' = AddAt(total, now, d) /\ workLog' = more /\ clock' = now
      BY <1>3, <1>4, <1>6, <1>7
    <2>3. DOMAIN effort' \in SUBSET Shapes
      BY <1>2, <1>15, <2>1
    <2>4. Kept(total', workLog', Shapes, clock')
      BY <1>14, <2>2
    <2>5. \A s \in DOMAIN effort' : Kept(effort'[s], workLog', {s}, clock') /\ effort'[s].bins # <<>>
      BY <1>22, <2>2
    <2>6. \A s \in Shapes \ DOMAIN effort' : Of(workLog', {s}) = {}
      BY <1>23, <2>2
    <2> QED
      BY <2>3, <2>4, <2>5, <2>6 DEF EffortInv
  <1> QED
    BY <1>11, <1>12, <1>13, <1>24 DEF LoadInv

LEMMA LoadStep == LoadInv /\ [LoadNext]_loadVars => LoadInv'
  <1>1. ASSUME LoadInv, UNCHANGED loadVars
        PROVE  LoadInv'
    <2>1. UNCHANGED <<clock, effort, total, waits, killState, deciders, workLog>>
      BY <1>1 DEF loadVars
    <2> QED
      BY <1>1, <2>1 DEF LoadInv, DecidersOK, LogInv, WaitsInv, EffortInv
  <1>2. ASSUME LoadInv, LoadNext
        PROVE  LoadInv'
    BY <1>2, LoadClockKeeps, StoreWaitsKeeps, DecisionsKeep, PermitKeeps, RecordWorkKeeps DEF LoadNext
  <1> QED
    BY <1>1, <1>2

LEMMA LoadInvConsistent == LoadInv => LoadConsistent
  <1> SUFFICES ASSUME LoadInv
               PROVE  LoadConsistent
    OBVIOUS
  <1>1. LoadTypeOK
    <2>1. killState.rate \in 0..1000
      BY DEF LoadInv, DecidersOK, KillStates, Rates
    <2>2. ASSUME NEW s \in AllStats
          PROVE  StatsOK(s, clock)
      <3>1. \/ s = total \/ s = waits["semaphore"] \/ s = waits["store"]
            \/ \E q \in DOMAIN effort : s = effort[q]
        BY <2>2 DEF AllStats
      <3>2. StatsOK(total, clock) /\ StatsOK(waits["semaphore"], clock) /\ StatsOK(waits["store"], clock)
        BY DEF LoadInv, EffortInv, WaitsInv, Kept
      <3>3. \A q \in DOMAIN effort : StatsOK(effort[q], clock)
        BY DEF LoadInv, EffortInv, Kept
      <3> QED
        BY <3>1, <3>2, <3>3
    <2>3. \A s \in AllStats :
             /\ s.duration = Durations(s.bins) /\ s.count = Counts(s.bins)
             /\ InOrder(s.bins, clock)
      BY <2>2 DEF StatsOK
    <2> QED
      BY <2>1, <2>3 DEF LoadTypeOK, InOrder
  <1>2. WindowRespected
    <2>1. SUFFICES ASSUME workLog # <<>>
                   PROVE  /\ InWindow(total, Shapes)
                          /\ \A q \in DOMAIN effort : InWindow(effort[q], {q})
      BY DEF WindowRespected
    <2>2. workLog \in Logs
      BY DEF LoadInv, LogInv
    <2>3. 1 \in Of(workLog, Shapes)
      <3>1. 1 \in 1..Len(workLog)
        BY <2>1, <2>2 DEF Logs
      <3>2. workLog[1].shape \in Shapes
        BY <2>2, <3>1, EntryAt
      <3> QED
        BY <3>1, <3>2 DEF Of
    <2>4. Kept(total, workLog, Shapes, clock)
      BY DEF LoadInv, EffortInv
    <2>5. total.bins # <<>>
      BY <2>3, <2>4 DEF Kept, Logged
    <2>6. InWindow(total, Shapes)
      BY <2>2, <2>4, <2>5, KeptInWindow
    <2>7. ASSUME NEW q \in DOMAIN effort
          PROVE  InWindow(effort[q], {q})
      <3>1. Kept(effort[q], workLog, {q}, clock) /\ effort[q].bins # <<>>
        BY DEF LoadInv, EffortInv
      <3> QED
        BY <2>2, <3>1, KeptInWindow
    <2> QED
      BY <2>6, <2>7
  <1> QED
    BY <1>1, <1>2 DEF LoadConsistent

\* However requests interleave, the statistics the load manager decides by are
\* the sums of their bins (so that expire_bins never subtracts below zero), have
\* the work of the window up to one bin and nothing from before it, for all
\* queries and for every shape, and the kill rate stays between 0 and 1, though
\* a request updates it with a value it has read earlier.
THEOREM LoadStaysConsistent == LoadSpec => []LoadConsistent
  <1>1. LoadInit => LoadInv
    BY LoadInitially
  <1>2. LoadInv /\ [LoadNext]_loadVars => LoadInv'
    BY LoadStep
  <1>3. LoadInv => LoadConsistent
    BY LoadInvConsistent
  <1> QED
    BY <1>1, <1>2, <1>3, PTL DEF LoadSpec

LEMMA ThrottledStep ==
    ASSUME LoadInv, [LoadNext]_loadVars, NEW c \in Deciders,
           deciders[c].phase = "weigh", deciders'[c].phase = "throttled"
    PROVE  /\ ~SIMULATE
           /\ TRUE \in Declines(RateFor(c), deciders[c].shape)
  <1>1. ~UNCHANGED loadVars
    BY DEF loadVars
  <1>2. ~UNCHANGED deciders
    OBVIOUS
  <1>3. PICK k \in Deciders : \/ \E q \in Shapes : Ask(k, q)
                              \/ Welcome(k) \/ Jail(k) \/ Weigh(k) \/ Answered(k)
                              \/ Permit(k) \/ RecordWork(k)
    BY <1>1, <1>2 DEF LoadNext, LoadClock, StoreWaits
  <1>4. ASSUME NEW x, Goto(k, x)
        PROVE  k = c /\ deciders'[c] = x
    <2>1. deciders' = [deciders EXCEPT ![k] = x]
      BY <1>4 DEF Goto
    <2>2. \A j \in Deciders : deciders'[j] = IF j = k THEN x ELSE deciders[j]
      BY <2>1 DEF LoadInv, DecidersOK
    <2> QED
      BY <2>2
  <1>5. Weigh(k)
    <2>1. ~Answered(k) /\ ~Permit(k) /\ ~RecordWork(k) /\ ~Welcome(k)
      BY <1>4 DEF Answered, Permit, RecordWork, Welcome
    <2>2. ~Jail(k)
      <3>1. \A q : Refused(q).phase # "throttled"
        BY DEF Refused
      <3> QED
        BY <1>4, <3>1 DEF Jail
    <2>3. ASSUME NEW q \in Shapes, Ask(k, q)
          PROVE  FALSE
      <3>1. PICK x : Goto(k, x)
        BY <2>3 DEF Ask
      <3> QED
        BY <1>4, <2>3, <3>1 DEF Ask
    <2> QED
      BY <1>3, <2>1, <2>2, <2>3
  <1>6. PICK decline \in Declines(RateFor(k), deciders[k].shape) :
           Goto(k, IF decline /\ ~SIMULATE
                   THEN [phase |-> "throttled", shape |-> deciders[k].shape]
                   ELSE [phase |-> "permit", shape |-> deciders[k].shape])
    BY <1>5 DEF Weigh
  <1>7. decline \in BOOLEAN
    BY <1>6 DEF Declines
  <1>8. k = c /\ decline /\ ~SIMULATE
    BY <1>4, <1>6
  <1> QED
    BY <1>6, <1>7, <1>8

LEMMA CheapStep ==
    ASSUME LoadInv, [LoadNext]_loadVars, NEW c \in Deciders,
           deciders[c].phase = "weigh", deciders'[c].phase = "throttled", TotalEffort > 0,
           Known(deciders[c].shape)
    PROVE  QueryEffort(deciders[c].shape) > 0
  <1>1. PICK q, r : q = deciders[c].shape /\ r = RateFor(c)
    OBVIOUS
  <1>2. TRUE \in Declines(r, q)
    BY <1>1, ThrottledStep
  <1>3. r * QueryEffort(q) > 0
    <2>1. TotalEffort # 0
      OBVIOUS
    <2>2. Declines(r, q) = {b \in BOOLEAN : /\ b => r * QueryEffort(q) > 0
                                            /\ ~b => r * QueryEffort(q) < 1000 * TotalEffort}
      BY <2>1, Zenon DEF Declines
    <2> QED
      BY <1>2, <2>2, Zenon
  <1>4. r \in Int
    <2>1. Updated(c) \in KillStates /\ deciders[c].killState \in KillStates
      BY UpdatedInRange DEF LoadInv, DecidersOK, DeciderOK
    <2>2. PICK x, y : x = Updated(c) /\ y = deciders[c].killState
      OBVIOUS
    <2>3. x.rate \in Rates /\ y.rate \in Rates
      BY <2>1, <2>2 DEF KillStates
    <2>4. r = x.rate \/ r = y.rate
      BY <1>1, <2>2, Zenon DEF RateFor
    <2> QED
      BY <2>3, <2>4, SMTT(30) DEF Rates
  <1>5. effort[q].duration \in Nat
    BY <1>1 DEF LoadInv, EffortInv, Kept, StatsOK, Stats, Known
  <1>6. PICK e : e = QueryEffort(q)
    OBVIOUS
  <1>7. e \in Nat
    <2>1. PICK u, v : u = effort[q].duration /\ v = UnitsPerMilli
      OBVIOUS
    <2>2. u \in Nat /\ v \in Nat \ {0}
      BY <1>5, <2>1, LoadAssumption
    <2>3. u \div v \in Nat
      BY <2>2
    <2> QED
      BY <1>1, <1>6, <2>1, <2>3 DEF QueryEffort, AsMillis
  <1>8. e # 0
    BY <1>3, <1>4, <1>6
  <1> QED
    BY <1>1, <1>6, <1>7, <1>8

\* "We will decline to run queries randomly with a probability of
\* kill_rate * query_effort / total_effort": a known query without effort of its
\* own is never declined while others do work, whatever the request has read of
\* the overload and the kill rate before.
THEOREM CheapQueriesAlwaysRun == LoadSpec => CheapQueriesRun
  <1> DEFINE A == \A c \in Deciders :
                     deciders[c].phase = "weigh" /\ deciders'[c].phase = "throttled" /\ TotalEffort > 0
                     => ~Known(deciders[c].shape) \/ QueryEffort(deciders[c].shape) > 0
  <1>1. LoadInit => LoadInv
    BY LoadInitially
  <1>2. LoadInv /\ [LoadNext]_loadVars => LoadInv'
    BY LoadStep
  <1>3. LoadInv /\ [LoadNext]_loadVars => [A]_loadVars
    BY CheapStep
  <1> QED
    BY <1>1, <1>2, <1>3, PTL DEF LoadSpec, CheapQueriesRun

-----------------------------------------------------------------------------
(***************************************************************************)
(* EntityFilters: comparing texts by their indexed prefix.                 *)
(***************************************************************************)

Texts == Seq(Int)

\* Where two texts first differ, or one of them ends.
DecidesAt(k, s, t) ==
    /\ k <= Len(s) /\ k <= Len(t)
    /\ \A i \in 1..k : s[i] = t[i]
    /\ \/ k = Len(s) /\ k < Len(t)
       \/ k < Len(s) /\ k < Len(t) /\ s[k + 1] < t[k + 1]

LEMMA TextBeforeAt ==
    ASSUME NEW s \in Texts, NEW t \in Texts
    PROVE  /\ TextBefore(s, t) => \E k \in Nat : DecidesAt(k, s, t)
           /\ \A k \in Nat : DecidesAt(k, s, t) => TextBefore(s, t)
  <1>1. Len(s) \in Nat /\ Len(t) \in Nat
    BY DEF Texts
  <1>2. ASSUME TextBefore(s, t)
        PROVE  \E k \in Nat : DecidesAt(k, s, t)
    <2>1. PICK k \in 0..Len(s) :
             /\ k <= Len(t)
             /\ \A i \in 1..k : s[i] = t[i]
             /\ \/ k = Len(s) /\ k < Len(t)
                \/ k < Len(s) /\ k < Len(t) /\ s[k + 1] < t[k + 1]
      BY <1>2 DEF TextBefore
    <2>2. k \in Nat /\ k <= Len(s)
      BY <1>1, <2>1
    <2>3. DecidesAt(k, s, t)
      BY <2>1, <2>2 DEF DecidesAt
    <2> QED
      BY <2>2, <2>3
  <1>3. ASSUME NEW k \in Nat, DecidesAt(k, s, t)
        PROVE  TextBefore(s, t)
    <2>1. k \in 0..Len(s)
      BY <1>1, <1>3 DEF DecidesAt
    <2> QED
      BY <1>3, <2>1 DEF DecidesAt, TextBefore
  <1> QED
    BY <1>2, <1>3

LEMMA LeftFact ==
    ASSUME NEW s \in Texts
    PROVE  /\ Left(s) \in Texts
           /\ Len(s) < STRING_PREFIX_SIZE => Left(s) = s
           /\ Len(s) >= STRING_PREFIX_SIZE => Len(Left(s)) = STRING_PREFIX_SIZE
           /\ Len(Left(s)) <= Len(s) /\ Len(Left(s)) <= STRING_PREFIX_SIZE
           /\ \A i \in 1..Len(Left(s)) : Left(s)[i] = s[i]
  <1>1. STRING_PREFIX_SIZE \in Nat \ {0} /\ Len(s) \in Nat /\ s \in Seq(Int)
    BY PrefixAssumption DEF Texts
  <1>2. CASE Len(s) < STRING_PREFIX_SIZE
    <2>1. Left(s) = SubSeq(s, 1, Len(s))
      BY <1>2 DEF Left
    <2>2. Left(s) = s
      BY <1>1, <2>1
    <2> QED
      BY <1>1, <1>2, <2>2
  <1>3. CASE Len(s) >= STRING_PREFIX_SIZE
    <2>1. PICK p, u : p = STRING_PREFIX_SIZE /\ u = SubSeq(s, 1, p)
      OBVIOUS
    <2>2. Left(s) = u
      BY <1>1, <1>3, <2>1 DEF Left
    <2>3. p \in Nat \ {0} /\ p <= Len(s)
      BY <1>1, <1>3, <2>1
    <2>4. /\ u \in Seq(Int) /\ Len(u) = p /\ \A i \in 1..p : u[i] = s[i]
      <3>1. \A i \in 1..p : s[i] \in Int
        BY <1>1, <2>3
      <3> QED
        BY <1>1, <2>1, <2>3, <3>1
    <2> QED
      BY <1>1, <1>3, <2>1, <2>2, <2>3, <2>4 DEF Texts
  <1> QED
    BY <1>1, <1>2, <1>3

LEMMA TextElement ==
    ASSUME NEW s \in Texts
    PROVE  Len(s) \in Nat /\ \A i \in 1..Len(s) : s[i] \in Int
  BY DEF Texts

LEMMA TextEqual ==
    ASSUME NEW s \in Texts, NEW t \in Texts, Len(s) = Len(t), \A i \in 1..Len(s) : s[i] = t[i]
    PROVE  s = t
  BY SeqEqual DEF Texts

\* The order of prefixes is that of the texts.
LEMMA PrefixBefore ==
    ASSUME NEW s \in Texts, NEW t \in Texts, TextBefore(Left(s), Left(t))
    PROVE  TextBefore(s, t)
  <1>1. PICK u, v, p : u = Left(s) /\ v = Left(t) /\ p = STRING_PREFIX_SIZE
    OBVIOUS
  <1>2. /\ u \in Texts /\ Len(u) \in Nat /\ Len(s) \in Nat /\ p \in Nat /\ Len(u) <= Len(s) /\ Len(u) <= p
        /\ (Len(s) < p => u = s) /\ (Len(s) >= p => Len(u) = p)
        /\ \A i \in 1..Len(u) : u[i] = s[i]
    BY <1>1, LeftFact, TextElement, PrefixAssumption
  <1>3. /\ v \in Texts /\ Len(v) \in Nat /\ Len(t) \in Nat /\ Len(v) <= Len(t) /\ Len(v) <= p
        /\ \A i \in 1..Len(v) : v[i] = t[i]
    BY <1>1, LeftFact, TextElement
  <1>4. PICK k \in Nat : DecidesAt(k, u, v)
    BY <1>1, <1>2, <1>3, TextBeforeAt
  <1>5. k <= Len(u) /\ k <= Len(v) /\ \A i \in 1..k : u[i] = v[i]
    BY <1>4 DEF DecidesAt
  <1>6. k <= Len(s) /\ k <= Len(t) /\ \A i \in 1..k : s[i] = t[i]
    BY <1>2, <1>3, <1>5
  <1>7. CASE k = Len(u) /\ k < Len(v)
    <2>1. Len(s) < p
      BY <1>2, <1>3, <1>7
    <2>2. k = Len(s) /\ k < Len(t)
      BY <1>2, <1>3, <1>7, <2>1
    <2> QED
      BY <1>6, <2>2, TextBeforeAt DEF DecidesAt
  <1>8. CASE k < Len(u) /\ k < Len(v) /\ u[k + 1] < v[k + 1]
    <2>1. k + 1 \in 1..Len(u) /\ k + 1 \in 1..Len(v) /\ k < Len(s) /\ k < Len(t)
      BY <1>2, <1>3, <1>8
    <2>2. s[k + 1] < t[k + 1]
      BY <1>2, <1>3, <1>8, <2>1
    <2> QED
      BY <1>6, <2>1, <2>2, TextBeforeAt DEF DecidesAt
  <1> QED
    BY <1>4, <1>7, <1>8 DEF DecidesAt

LEMMA BeforePrefix ==
    ASSUME NEW s \in Texts, NEW t \in Texts, TextBefore(s, t)
    PROVE  TextBefore(Left(s), Left(t)) \/ Left(s) = Left(t)
  <1>1. PICK u, v, p : u = Left(s) /\ v = Left(t) /\ p = STRING_PREFIX_SIZE
    OBVIOUS
  <1>2. /\ u \in Texts /\ Len(u) \in Nat /\ Len(s) \in Nat /\ p \in Nat /\ Len(u) <= Len(s) /\ Len(u) <= p
        /\ (Len(s) < p => u = s) /\ (Len(s) >= p => Len(u) = p)
        /\ \A i \in 1..Len(u) : u[i] = s[i]
    BY <1>1, LeftFact, TextElement, PrefixAssumption
  <1>3. /\ v \in Texts /\ Len(v) \in Nat /\ Len(t) \in Nat /\ Len(v) <= Len(t) /\ Len(v) <= p
        /\ (Len(t) < p => v = t) /\ (Len(t) >= p => Len(v) = p)
        /\ \A i \in 1..Len(v) : v[i] = t[i]
    BY <1>1, LeftFact, TextElement
  <1>4. PICK k \in Nat : DecidesAt(k, s, t)
    BY TextBeforeAt
  <1>5. k <= Len(s) /\ k <= Len(t) /\ \A i \in 1..k : s[i] = t[i]
    BY <1>4 DEF DecidesAt
  <1>6. CASE k >= p
    <2>1. Len(u) = p /\ Len(v) = p
      BY <1>2, <1>3, <1>5, <1>6
    <2>2. \A i \in 1..p : u[i] = v[i]
      <3>1. \A i \in 1..p : i \in 1..k
        BY <1>2, <1>6
      <3> QED
        BY <1>2, <1>3, <1>5, <2>1, <3>1
    <2>3. u = v
      BY <1>2, <1>3, <2>1, <2>2, TextEqual
    <2> QED
      BY <1>1, <2>3
  <1>7. CASE k < p
    <2>1. k <= Len(u) /\ k <= Len(v)
      BY <1>2, <1>3, <1>5, <1>7
    <2>2. \A i \in 1..k : u[i] = v[i]
      <3>1. \A i \in 1..k : i \in 1..Len(u) /\ i \in 1..Len(v)
        BY <1>2, <1>3, <2>1
      <3> QED
        BY <1>2, <1>3, <1>5, <3>1
    <2>3. CASE k = Len(s) /\ k < Len(t)
      <3>1. k = Len(u) /\ k < Len(v)
        BY <1>2, <1>3, <1>7, <2>3
      <3>2. DecidesAt(k, u, v)
        BY <2>1, <2>2, <3>1 DEF DecidesAt
      <3> QED
        BY <1>1, <1>2, <1>3, <3>2, TextBeforeAt
    <2>4. CASE k < Len(s) /\ k < Len(t) /\ s[k + 1] < t[k + 1]
      <3>1. k < Len(u) /\ k < Len(v)
        BY <1>2, <1>3, <1>7, <2>4
      <3>2. k + 1 \in 1..Len(u) /\ k + 1 \in 1..Len(v)
        BY <1>2, <1>3, <3>1
      <3>3. u[k + 1] < v[k + 1]
        BY <1>2, <1>3, <2>4, <3>2
      <3>4. DecidesAt(k, u, v)
        BY <2>1, <2>2, <3>1, <3>3 DEF DecidesAt
      <3> QED
        BY <1>1, <1>2, <1>3, <3>4, TextBeforeAt
    <2> QED
      BY <1>4, <2>3, <2>4 DEF DecidesAt
  <1> QED
    BY <1>2, <1>6, <1>7

\* Texts are totally ordered.
LEMMA TextsTotal ==
    ASSUME NEW s \in Texts, NEW t \in Texts, s # t
    PROVE  TextBefore(s, t) \/ TextBefore(t, s)
  <1>1. /\ Len(s) \in Nat /\ \A i \in 1..Len(s) : s[i] \in Int
        /\ Len(t) \in Nat /\ \A i \in 1..Len(t) : t[i] \in Int
    BY TextElement
  <1> DEFINE D == {k \in Nat : \/ k = Len(s) \/ k = Len(t) \/ s[k + 1] # t[k + 1]}
  <1>2. D \in SUBSET Nat /\ D # {}
    BY <1>1
  <1>3. PICK k : k \in D /\ \A j \in D : k <= j
    <2> HIDE DEF D
    <2>1. Min(D) \in D /\ \A j \in D : Min(D) <= j
      BY <1>2, LeastOf
    <2> QED
      BY <2>1
  <1>4. k \in Nat /\ k <= Len(s) /\ k <= Len(t)
    BY <1>1, <1>3
  <1>5. ASSUME NEW i \in 1..k
        PROVE  s[i] = t[i]
    <2>1. PICK j : j = i - 1
      OBVIOUS
    <2>2. j \in Nat /\ ~(k <= j) /\ j + 1 = i
      BY <1>4, <2>1
    <2>3. j \notin D
      BY <1>3, <2>2
    <2> QED
      BY <2>2, <2>3
  <1>6. CASE k = Len(s)
    <2>1. k # Len(t)
      BY <1>5, <1>6, TextEqual
    <2>2. DecidesAt(k, s, t)
      BY <1>1, <1>4, <1>5, <1>6, <2>1 DEF DecidesAt
    <2> QED
      BY <1>4, <2>2, TextBeforeAt
  <1>7. CASE k = Len(t) /\ k # Len(s)
    <2>1. DecidesAt(k, t, s)
      BY <1>1, <1>4, <1>5, <1>7 DEF DecidesAt
    <2> QED
      BY <1>4, <2>1, TextBeforeAt
  <1>8. CASE k # Len(s) /\ k # Len(t)
    <2>1. k < Len(s) /\ k < Len(t) /\ k + 1 \in 1..Len(s) /\ k + 1 \in 1..Len(t)
      BY <1>1, <1>4, <1>8
    <2>2. s[k + 1] # t[k + 1] /\ s[k + 1] \in Int /\ t[k + 1] \in Int
      BY <1>1, <1>3, <1>8, <2>1
    <2>3. s[k + 1] < t[k + 1] \/ t[k + 1] < s[k + 1]
      BY <2>2
    <2>4. DecidesAt(k, s, t) \/ DecidesAt(k, t, s)
      BY <1>4, <1>5, <2>1, <2>3 DEF DecidesAt
    <2> QED
      BY <1>4, <2>4, TextBeforeAt
  <1> QED
    BY <1>6, <1>7, <1>8

LEMMA TextsAsymmetric ==
    ASSUME NEW s \in Texts, NEW t \in Texts, TextBefore(s, t)
    PROVE  ~TextBefore(t, s) /\ s # t
  <1>1. /\ Len(s) \in Nat /\ \A i \in 1..Len(s) : s[i] \in Int
        /\ Len(t) \in Nat /\ \A i \in 1..Len(t) : t[i] \in Int
    BY TextElement
  <1>2. PICK k \in Nat : DecidesAt(k, s, t)
    BY TextBeforeAt
  <1>3. s # t
    <2>1. k < Len(s) => k + 1 \in 1..Len(s)
      BY <1>1
    <2> QED
      BY <1>1, <1>2, <2>1 DEF DecidesAt
  <1>4. ASSUME TextBefore(t, s)
        PROVE  FALSE
    <2>1. PICK j \in Nat : DecidesAt(j, t, s)
      BY <1>4, TextBeforeAt
    <2>2. CASE j < k
      <3>1. j + 1 \in 1..k /\ j + 1 \in 1..Len(s)
        BY <1>1, <1>2, <2>2 DEF DecidesAt
      <3>2. s[j + 1] = t[j + 1] /\ s[j + 1] \in Int
        BY <1>1, <1>2, <3>1 DEF DecidesAt
      <3>3. j < Len(s) /\ j < Len(t)
        BY <1>1, <1>2, <2>2 DEF DecidesAt
      <3>4. t[j + 1] < s[j + 1]
        BY <1>1, <2>1, <3>3 DEF DecidesAt
      <3> QED
        BY <3>2, <3>4
    <2>3. CASE k < j
      <3>1. k + 1 \in 1..j /\ k + 1 \in 1..Len(s)
        BY <1>1, <2>1, <2>3 DEF DecidesAt
      <3>2. s[k + 1] = t[k + 1] /\ s[k + 1] \in Int
        BY <1>1, <2>1, <3>1 DEF DecidesAt
      <3>3. k < Len(s) /\ k < Len(t)
        BY <1>1, <2>1, <2>3 DEF DecidesAt
      <3>4. s[k + 1] < t[k + 1]
        BY <1>1, <1>2, <3>3 DEF DecidesAt
      <3> QED
        BY <3>2, <3>4
    <2>4. CASE j = k
      <3>1. k < Len(t) /\ k < Len(s)
        BY <1>1, <1>2, <2>1, <2>4 DEF DecidesAt
      <3>2. s[k + 1] < t[k + 1] /\ t[k + 1] < s[k + 1]
        BY <1>1, <1>2, <2>1, <2>4, <3>1 DEF DecidesAt
      <3>3. k + 1 \in 1..Len(s) /\ k + 1 \in 1..Len(t)
        BY <1>1, <3>1
      <3>4. s[k + 1] \in Int /\ t[k + 1] \in Int
        BY <1>1, <3>3
      <3> QED
        BY <3>2, <3>4
    <2> QED
      BY <2>2, <2>3, <2>4
  <1> QED
    BY <1>3, <1>4

LEMMA ShortByPrefix ==
    ASSUME NEW s \in Texts, NEW t \in Texts, ~Large(t)
    PROVE  Left(t) = t /\ (Left(s) = t <=> s = t)
  <1>1. STRING_PREFIX_SIZE \in Nat /\ Len(t) \in Nat /\ Len(s) \in Nat
    BY PrefixAssumption, TextElement
  <1>2. Len(t) < STRING_PREFIX_SIZE
    BY <1>1 DEF Large
  <1>3. Left(t) = t
    BY <1>2, LeftFact
  <1>4. ASSUME Left(s) = t
        PROVE  s = t
    <2>1. ~(Len(s) >= STRING_PREFIX_SIZE)
      <3>1. Len(s) >= STRING_PREFIX_SIZE => Len(t) = STRING_PREFIX_SIZE
        BY <1>4, LeftFact
      <3> QED
        BY <1>1, <1>2, <3>1
    <2> QED
      BY <1>1, <1>4, <2>1, LeftFact
  <1> QED
    BY <1>3, <1>4

\* The condition that PrefixComparison writes, which lets Postgres use the index
\* on the first STRING_PREFIX_SIZE characters of a column, decides every
\* comparison as the whole texts do, at the length of the prefix too.
THEOREM PrefixComparisonExact ==
    ASSUME NEW s \in Seq(Int), NEW t \in Seq(Int),
           NEW op \in {"lt", "lte", "eq", "not", "gte", "gt"}
    PROVE  PrefixComparison(op, s, t) <=> Compares("text", op, s, t)
  <1>1. PICK u, v : u = Left(s) /\ v = Left(t)
    OBVIOUS
  <1>2. s \in Texts /\ t \in Texts /\ u \in Texts /\ v \in Texts
    <2>1. s \in Texts /\ t \in Texts
      BY DEF Texts
    <2> QED
      BY <1>1, <2>1, LeftFact
  <1>3. (TextBefore(u, v) => TextBefore(s, t)) /\ (TextBefore(v, u) => TextBefore(t, s))
    BY <1>1, <1>2, PrefixBefore
  <1>4. /\ TextBefore(s, t) => TextBefore(u, v) \/ u = v
        /\ TextBefore(t, s) => TextBefore(v, u) \/ u = v
    BY <1>1, <1>2, BeforePrefix
  <1>5. u # v => TextBefore(u, v) \/ TextBefore(v, u)
    BY <1>2, TextsTotal
  <1>6. /\ TextBefore(s, t) => ~TextBefore(t, s) /\ s # t
        /\ TextBefore(t, s) => ~TextBefore(s, t) /\ s # t
    BY <1>2, TextsAsymmetric
  <1>7. s = t => u = v
    BY <1>1
  <1>8. \A o : /\ PrefixCmp(o, s, t) = Compares("text", o, u, v)
    BY <1>1 DEF PrefixCmp
  <1>9. \A x, y : Before("text", x, y) = TextBefore(x, y)
    BY DEF Before
  <1>10. CASE ~Large(t)
    <2>1. v = t /\ (u = t <=> s = t)
      BY <1>1, <1>2, <1>10, ShortByPrefix
    <2>2. (TextBefore(s, t) <=> TextBefore(u, v)) /\ (TextBefore(t, s) <=> TextBefore(v, u))
      BY <1>3, <1>4, <1>6, <2>1
    <2>3. PrefixComparison(op, s, t) = Compares("text", op, u, v)
      BY <1>8, <1>10 DEF PrefixComparison
    <2> QED
      BY <1>9, <2>1, <2>2, <2>3 DEF Compares
  <1>11. CASE Large(t)
    <2>1. CASE op = "eq"
      BY <1>7, <1>8, <1>11, <2>1 DEF PrefixComparison, Compares
    <2>2. CASE op = "not"
      BY <1>11, <2>2 DEF PrefixComparison, Compares
    <2>3. CASE op = "lt"
      <3>1. PrefixComparison(op, s, t) <=> TextBefore(u, v) \/ (u = v /\ TextBefore(s, t))
        BY <1>8, <1>9, <1>11, <2>3 DEF PrefixComparison, Compares, StrictOp
      <3> QED
        BY <1>3, <1>4, <1>9, <2>3, <3>1 DEF Compares
    <2>4. CASE op = "gt"
      <3>1. PrefixComparison(op, s, t) <=> TextBefore(v, u) \/ (u = v /\ TextBefore(t, s))
        BY <1>8, <1>9, <1>11, <2>4 DEF PrefixComparison, Compares, StrictOp
      <3> QED
        BY <1>3, <1>4, <1>9, <2>4, <3>1 DEF Compares
    <2>5. CASE op = "lte"
      <3>1. PrefixComparison(op, s, t) <=> TextBefore(u, v) \/ (u = v /\ ~TextBefore(t, s))
        BY <1>8, <1>9, <1>11, <2>5 DEF PrefixComparison, Compares, StrictOp
      <3> QED
        BY <1>3, <1>5, <1>6, <1>9, <2>5, <3>1 DEF Compares
    <2>6. CASE op = "gte"
      <3>1. PrefixComparison(op, s, t) <=> TextBefore(v, u) \/ (u = v /\ ~TextBefore(s, t))
        BY <1>8, <1>9, <1>11, <2>6 DEF PrefixComparison, Compares, StrictOp
      <3> QED
        BY <1>3, <1>5, <1>6, <1>9, <2>6, <3>1 DEF Compares
    <2> QED
      BY <2>1, <2>2, <2>3, <2>4, <2>5, <2>6
  <1> QED
    BY <1>10, <1>11

-----------------------------------------------------------------------------
(* Texts within texts, and patterns                                        *)

\* The elements of t are in s, after position i.
OccursAt(t, s, i) == i + Len(t) <= Len(s) /\ \A j \in 1..Len(t) : s[i + j] = t[j]

LEMMA PieceAt ==
    ASSUME NEW A, NEW s \in Seq(A), NEW t \in Seq(A), NEW i \in Nat, i + Len(t) <= Len(s)
    PROVE  SubSeq(s, i + 1, i + Len(t)) = t <=> OccursAt(t, s, i)
<1>. DEFINE u == SubSeq(s, i + 1, i + Len(t))
<1>1. Len(t) \in Nat /\ Len(s) \in Nat
  OBVIOUS
<1>2. u \in Seq(A) /\ Len(u) = Len(t) /\ \A j \in 1..Len(t) : u[j] = s[i + j]
  <2>1. \A k \in i + 1..i + Len(t) : s[k] \in A
    BY <1>1
  <2>2. /\ u \in Seq(A)
        /\ Len(u) = IF i + 1 <= i + Len(t) THEN i + Len(t) - (i + 1) + 1 ELSE 0
        /\ \A j \in 1..i + Len(t) - (i + 1) + 1 : u[j] = s[i + 1 + j - 1]
    BY <1>1, <2>1, SubSeqProperties
  <2>3. i + Len(t) - (i + 1) + 1 = Len(t) /\ \A j \in 1..Len(t) : i + 1 + j - 1 = i + j
    BY <1>1
  <2>. QED  BY <1>1, <2>2, <2>3
<1>. HIDE DEF u
<1>3. u = t <=> \A j \in 1..Len(t) : u[j] = t[j]
  BY <1>1, <1>2, SeqEqual
<1>. QED  BY <1>2, <1>3 DEF OccursAt, u

LEMMA PrefixAt ==
    ASSUME NEW A, NEW s \in Seq(A), NEW t \in Seq(A)
    PROVE  IsPrefix(t, s) <=> OccursAt(t, s, 0)
<1>1. Len(t) \in Nat /\ Len(s) \in Nat
  OBVIOUS
<1>2. SubSeq(t, 1, Len(t)) = t
  BY SubSeqFull
<1>3. CASE Len(t) <= Len(s)
  <2>1. SubSeq(s, 0 + 1, 0 + Len(t)) = t <=> OccursAt(t, s, 0)
    BY <1>1, <1>3, PieceAt
  <2>2. 0 + 1 = 1 /\ 0 + Len(t) = Len(t)
    BY <1>1
  <2>. QED  BY <1>2, <1>3, <2>1, <2>2 DEF IsPrefix
<1>4. CASE ~(Len(t) <= Len(s))
  BY <1>1, <1>4 DEF IsPrefix, OccursAt
<1>. QED  BY <1>3, <1>4

LEMMA SuffixAt ==
    ASSUME NEW A, NEW s \in Seq(A), NEW t \in Seq(A)
    PROVE  IsSuffix(t, s) <=> Len(t) <= Len(s) /\ OccursAt(t, s, Len(s) - Len(t))
<1>0. Len(t) \in Nat /\ Len(s) \in Nat
  OBVIOUS
<1>1. PICK m, n : m = Len(t) /\ n = Len(s) /\ m \in Nat /\ n \in Nat
  BY <1>0
<1>2. PICK r, q : r = Reverse(t) /\ q = Reverse(s)
  OBVIOUS
<1>3. /\ r \in Seq(A) /\ Len(r) = m /\ \A j \in 1..m : r[j] = t[m - j + 1]
      /\ q \in Seq(A) /\ Len(q) = n /\ \A j \in 1..n : q[j] = s[n - j + 1]
  <2>1. \A j \in 1..m : m - j + 1 \in 1..m
    BY <1>1
  <2>2. \A j \in 1..n : n - j + 1 \in 1..n
    BY <1>1
  <2>. QED  BY <1>1, <1>2, <2>1, <2>2 DEF Reverse
<1>4. IsSuffix(t, s) <=> OccursAt(r, q, 0)
  BY <1>2, <1>3, PrefixAt DEF IsSuffix
<1>5. OccursAt(r, q, 0) <=> m <= n /\ \A j \in 1..m : q[j] = r[j]
  BY <1>1, <1>3 DEF OccursAt
<1>6. CASE m <= n
  <2>1. \A j \in 1..m : q[j] = s[n - j + 1] /\ r[j] = t[m - j + 1]
    <3>1. \A j \in 1..m : j \in 1..n
      BY <1>1, <1>6
    <3>. QED  BY <1>3, <3>1
  <2>2. (\A j \in 1..m : s[n - j + 1] = t[m - j + 1]) <=> (\A j \in 1..m : s[n - m + j] = t[j])
    <3>1. ASSUME \A k \in 1..m : s[n - k + 1] = t[m - k + 1], NEW j \in 1..m
          PROVE  s[n - m + j] = t[j]
      <4>1. m - j + 1 \in 1..m /\ n - (m - j + 1) + 1 = n - m + j /\ m - (m - j + 1) + 1 = j
        BY <1>1
      <4>. QED  BY <3>1, <4>1
    <3>2. ASSUME \A k \in 1..m : s[n - m + k] = t[k], NEW j \in 1..m
          PROVE  s[n - j + 1] = t[m - j + 1]
      <4>1. m - j + 1 \in 1..m /\ n - m + (m - j + 1) = n - j + 1
        BY <1>1
      <4>. QED  BY <3>2, <4>1
    <3>. QED  BY <3>1, <3>2
  <2>3. OccursAt(t, s, n - m) <=> \A j \in 1..m : s[n - m + j] = t[j]
    BY <1>1 DEF OccursAt
  <2>. QED  BY <1>1, <1>4, <1>5, <1>6, <2>1, <2>2, <2>3
<1>7. CASE ~(m <= n)
  BY <1>1, <1>4, <1>5, <1>7
<1>. QED  BY <1>6, <1>7

LEMMA WithinAt ==
    ASSUME NEW A, NEW s \in Seq(A), NEW t \in Seq(A)
    PROVE  Within(t, s) <=> \E i \in Nat : OccursAt(t, s, i)
<1>1. Len(t) \in Nat /\ Len(s) \in Nat
  OBVIOUS
<1>2. \A i \in Nat : i \in 0..Len(s) - Len(t) <=> i + Len(t) <= Len(s)
  BY <1>1
<1>3. \A i \in 0..Len(s) - Len(t) : i \in Nat
  BY <1>1
<1>4. \A i \in Nat : i + Len(t) <= Len(s) => (SubSeq(s, i + 1, i + Len(t)) = t <=> OccursAt(t, s, i))
  BY PieceAt
<1>. QED  BY <1>2, <1>3, <1>4 DEF Within, OccursAt

LEMMA LeastNat ==
    ASSUME NEW T \in SUBSET Nat, T # {}
    PROVE  \E x \in T : \A y \in T : x <= y
<1>. DEFINE R == OpToRel(<, Nat)
<1>1. \E x \in T : \A y \in T : ~(<<y, x>> \in R)
  <2>. HIDE DEF R
  <2>1. IsWellFoundedOn(R, Nat)
    BY NatLessThanWellFounded DEF R
  <2>. QED  BY <2>1, WFMin
<1>2. PICK x \in T : \A y \in T : ~(<<y, x>> \in R)
  BY <1>1
<1>3. ASSUME NEW y \in T
      PROVE  x <= y
  <2>1. ~(<<y, x>> \in R) /\ x \in Nat /\ y \in Nat
    BY <1>2
  <2>. QED  BY <2>1 DEF OpToRel
<1>. QED  BY <1>3

\* Between wildcards, every character of a pattern takes the next one.
Advances(f, a, m) == /\ \A i \in a..a + m : f[i] \in Int
                     /\ \A i \in a + 1..a + m : f[i] = f[i - 1] + 1

LEMMA Advance ==
    ASSUME NEW f, NEW a \in Nat, NEW m \in Nat, Advances(f, a, m)
    PROVE  \A j \in 0..m : f[a + j] = f[a] + j
<1>. USE DEF Advances
<1>. DEFINE T == {j \in 0..m : f[a + j] # f[a] + j}
<1>. SUFFICES ASSUME T # {} PROVE FALSE
  OBVIOUS
<1>1. PICK j \in T : \A k \in T : j <= k
  <2>1. T \in SUBSET Nat
    OBVIOUS
  <2>. HIDE DEF T
  <2>. QED  BY <2>1, LeastNat
<1>2. j # 0
  OBVIOUS
<1>3. j - 1 \in 0..m /\ j - 1 \notin T
  BY <1>1, <1>2
<1>4. f[a + (j - 1)] = f[a] + (j - 1)
  BY <1>3
<1>5. a + j \in a + 1..a + m /\ (a + j) - 1 = a + (j - 1)
  BY <1>2
<1>6. f[a + j] = f[a + (j - 1)] + 1
  BY <1>5
<1>7. f[a] \in Int
  OBVIOUS
<1>. QED  BY <1>4, <1>6, <1>7

PlainText(t) == \A j \in 1..Len(t) : t[j] # Wildcard

\* Where the characters of a plain part of a pattern are found.
LEMMA PlainPart ==
    ASSUME NEW s \in Seq(Nat), NEW t \in Seq(Nat), PlainText(t), NEW p \in Seq(Nat),
           NEW a \in Nat, a + Len(t) <= Len(p), \A j \in 1..Len(t) : p[a + j] = t[j],
           NEW pos \in [0..Len(p) -> 0..Len(s)],
           \A i \in 1..Len(p) :
              IF p[i] = Wildcard THEN pos[i] >= pos[i - 1]
              ELSE pos[i] = pos[i - 1] + 1 /\ s[pos[i]] = p[i]
    PROVE  pos[a] \in Nat /\ pos[a + Len(t)] = pos[a] + Len(t) /\ OccursAt(t, s, pos[a])
<1>1. PICK m, n : m = Len(t) /\ n = Len(p) /\ m \in Nat /\ n \in Nat /\ Len(s) \in Nat
  <2>1. Len(t) \in Nat /\ Len(p) \in Nat /\ Len(s) \in Nat
    OBVIOUS
  <2>. QED  BY <2>1
<1>2. \A i \in a..a + m : i \in 0..n /\ pos[i] \in 0..Len(s) /\ pos[i] \in Int
  BY <1>1, SMTT(30)
<1>3. ASSUME NEW j \in 1..m
      PROVE  pos[a + j] = pos[(a + j) - 1] + 1 /\ s[pos[a + j]] = t[j]
  <2>1. a + j \in 1..n /\ p[a + j] = t[j] /\ t[j] # Wildcard
    BY <1>1 DEF PlainText
  <2>. QED  BY <1>1, <2>1
<1>4. \A i \in a + 1..a + m : pos[i] = pos[i - 1] + 1
  <2>1. ASSUME NEW i \in a + 1..a + m
        PROVE  pos[i] = pos[i - 1] + 1
    <3>1. i - a \in 1..m /\ a + (i - a) = i
      BY <1>1
    <3>. QED  BY <1>3, <3>1
  <2>. QED  BY <2>1
<1>5. \A j \in 0..m : pos[a + j] = pos[a] + j
  <2>1. \A i \in a..a + m : pos[i] \in Int
    BY <1>2
  <2>2. m \in Nat
    BY <1>1
  <2>3. Advances(pos, a, m)
    BY <1>4, <2>1, ZenonT(30) DEF Advances
  <2>. QED  BY ONLY <2>2, <2>3, a \in Nat, Advance, ZenonT(30)
<1>6. pos[a] \in Nat /\ pos[a + m] = pos[a] + m /\ pos[a + m] <= Len(s)
  BY <1>1, <1>2, <1>5
<1>7. \A j \in 1..m : s[pos[a] + j] = t[j]
  <2>1. \A j \in 1..m : j \in 0..m
    BY <1>1
  <2>. QED  BY <1>3, <1>5, <2>1
<1>. QED  BY <1>1, <1>6, <1>7 DEF OccursAt

\* A pattern that ends in a wildcard looks for a prefix.
LEMMA LikeStarts ==
    ASSUME NEW s \in Seq(Nat), NEW t \in Seq(Nat), PlainText(t)
    PROVE  Like(s, t \o <<Wildcard>>) <=> OccursAt(t, s, 0)
<1>1. PICK m, l, p : /\ m = Len(t) /\ l = Len(s) /\ p = t \o <<Wildcard>>
                     /\ m \in Nat /\ l \in Nat
  <2>1. Len(t) \in Nat /\ Len(s) \in Nat
    OBVIOUS
  <2>. QED  BY <2>1
<1>2. p \in Seq(Nat) /\ Len(p) = m + 1 /\ (\A j \in 1..m : p[j] = t[j]) /\ p[m + 1] = Wildcard
  BY <1>1 DEF Wildcard
<1>3. ASSUME Like(s, p)
      PROVE  OccursAt(t, s, 0)
  <2>1. PICK pos \in [0..Len(p) -> 0..Len(s)] :
            /\ pos[0] = 0
            /\ \A i \in 1..Len(p) :
                  IF p[i] = Wildcard THEN pos[i] >= pos[i - 1]
                  ELSE pos[i] = pos[i - 1] + 1 /\ s[pos[i]] = p[i]
    BY <1>3 DEF Like
  <2>2. 0 + Len(t) <= Len(p) /\ \A j \in 1..Len(t) : p[0 + j] = t[j]
    BY <1>1, <1>2
  <2>3. OccursAt(t, s, pos[0])
    BY <1>2, <2>1, <2>2, PlainPart
  <2>. QED  BY <2>1, <2>3
<1>4. ASSUME OccursAt(t, s, 0)
      PROVE  Like(s, p)
  <2>. DEFINE pos == [i \in 0..m + 1 |-> IF i <= m THEN i ELSE l]
  <2>1. m <= l /\ \A j \in 1..m : s[j] = t[j]
    BY <1>1, <1>4 DEF OccursAt
  <2>2. pos \in [0..m + 1 -> 0..l] /\ pos[0] = 0 /\ pos[m + 1] = l
    BY <1>1, <2>1
  <2>3. ASSUME NEW i \in 1..m + 1
        PROVE  IF p[i] = Wildcard THEN pos[i] >= pos[i - 1]
               ELSE pos[i] = pos[i - 1] + 1 /\ s[pos[i]] = p[i]
    <3>1. CASE i = m + 1
      <4>1. pos[i] = l /\ pos[i - 1] = m /\ p[i] = Wildcard
        BY <1>1, <1>2, <3>1
      <4>. QED  BY <1>1, <2>1, <4>1
    <3>2. CASE i \in 1..m
      <4>1. pos[i] = i /\ pos[i - 1] = i - 1 /\ p[i] = t[i] /\ p[i] # Wildcard
        BY <1>1, <1>2, <3>2 DEF PlainText
      <4>. QED  BY <1>1, <2>1, <3>2, <4>1
    <3>. QED  BY <1>1, <3>1, <3>2
  <2>. HIDE DEF pos
  <2>4. pos \in [0..Len(p) -> 0..Len(s)] /\ pos[0] = 0 /\ pos[Len(p)] = Len(s)
    BY <1>1, <1>2, <2>2
  <2>5. \A i \in 1..Len(p) : IF p[i] = Wildcard THEN pos[i] >= pos[i - 1]
                             ELSE pos[i] = pos[i - 1] + 1 /\ s[pos[i]] = p[i]
    BY <1>2, <2>3
  <2>. QED  BY <2>4, <2>5 DEF Like
<1>. QED  BY <1>1, <1>3, <1>4

\* A pattern that starts with a wildcard looks for a suffix.
LEMMA LikeEnds ==
    ASSUME NEW s \in Seq(Nat), NEW t \in Seq(Nat), PlainText(t)
    PROVE  Like(s, <<Wildcard>> \o t) <=> Len(t) <= Len(s) /\ OccursAt(t, s, Len(s) - Len(t))
<1>1. PICK m, l, p : /\ m = Len(t) /\ l = Len(s) /\ p = <<Wildcard>> \o t
                     /\ m \in Nat /\ l \in Nat
  <2>1. Len(t) \in Nat /\ Len(s) \in Nat
    OBVIOUS
  <2>. QED  BY <2>1
<1>2. p \in Seq(Nat) /\ Len(p) = m + 1 /\ (\A j \in 1..m : p[1 + j] = t[j]) /\ p[1] = Wildcard
  BY <1>1 DEF Wildcard
<1>3. ASSUME Like(s, p)
      PROVE  m <= l /\ OccursAt(t, s, l - m)
  <2>1. PICK pos \in [0..Len(p) -> 0..Len(s)] :
            /\ pos[Len(p)] = Len(s)
            /\ \A i \in 1..Len(p) :
                  IF p[i] = Wildcard THEN pos[i] >= pos[i - 1]
                  ELSE pos[i] = pos[i - 1] + 1 /\ s[pos[i]] = p[i]
    BY <1>3 DEF Like
  <2>2. 1 + Len(t) <= Len(p) /\ \A j \in 1..Len(t) : p[1 + j] = t[j]
    BY <1>1, <1>2
  <2>3. pos[1] \in Nat /\ pos[1 + Len(t)] = pos[1] + Len(t) /\ OccursAt(t, s, pos[1])
    BY <1>2, <2>1, <2>2, PlainPart
  <2>4. pos[1] = l - m /\ m <= l
    <3>1. 1 + Len(t) = Len(p)
      BY <1>1, <1>2
    <3>2. pos[1] + m = l
      BY <1>1, <2>1, <2>3, <3>1
    <3>. QED  BY <1>1, <2>3, <3>2
  <2>. QED  BY <2>3, <2>4
<1>4. ASSUME m <= l, OccursAt(t, s, l - m)
      PROVE  Like(s, p)
  <2>. DEFINE pos == [i \in 0..m + 1 |-> IF i = 0 THEN 0 ELSE l - m + i - 1]
  <2>1. \A j \in 1..m : s[l - m + j] = t[j]
    BY <1>1, <1>4 DEF OccursAt
  <2>2. pos \in [0..m + 1 -> 0..l] /\ pos[0] = 0 /\ pos[m + 1] = l
    BY <1>1, <1>4
  <2>3. ASSUME NEW i \in 1..m + 1
        PROVE  IF p[i] = Wildcard THEN pos[i] >= pos[i - 1]
               ELSE pos[i] = pos[i - 1] + 1 /\ s[pos[i]] = p[i]
    <3>1. CASE i = 1
      <4>1. pos[1] = l - m /\ pos[1 - 1] = 0 /\ p[1] = Wildcard
        BY <1>1, <1>2
      <4>. QED  BY <1>1, <1>4, <3>1, <4>1
    <3>2. CASE i \in 2..m + 1
      <4>1. pos[i] = l - m + i - 1 /\ pos[i - 1] = l - m + (i - 1) - 1
        BY <1>1, <3>2
      <4>2. i - 1 \in 1..m /\ 1 + (i - 1) = i /\ l - m + (i - 1) = l - m + i - 1
        BY <1>1, <3>2
      <4>3. p[i] = t[i - 1] /\ p[i] # Wildcard /\ s[l - m + i - 1] = t[i - 1]
        BY <1>1, <1>2, <2>1, <4>2, SMTT(30) DEF PlainText
      <4>. QED  BY <1>1, <3>2, <4>1, <4>3
    <3>. QED  BY <1>1, <3>1, <3>2
  <2>. HIDE DEF pos
  <2>4. pos \in [0..Len(p) -> 0..Len(s)] /\ pos[0] = 0 /\ pos[Len(p)] = Len(s)
    BY <1>1, <1>2, <2>2
  <2>5. \A i \in 1..Len(p) : IF p[i] = Wildcard THEN pos[i] >= pos[i - 1]
                             ELSE pos[i] = pos[i - 1] + 1 /\ s[pos[i]] = p[i]
    BY <1>2, <2>3
  <2>. QED  BY <2>4, <2>5 DEF Like
<1>. QED  BY <1>1, <1>3, <1>4

\* A pattern between wildcards looks for a part.
LEMMA LikeContains ==
    ASSUME NEW s \in Seq(Nat), NEW t \in Seq(Nat), PlainText(t)
    PROVE  Like(s, Enclosed(t)) <=> \E i \in Nat : OccursAt(t, s, i)
<1>1. PICK m, l, p : /\ m = Len(t) /\ l = Len(s) /\ p = <<Wildcard>> \o t \o <<Wildcard>>
                     /\ m \in Nat /\ l \in Nat
  <2>1. Len(t) \in Nat /\ Len(s) \in Nat
    OBVIOUS
  <2>. QED  BY <2>1
<1>2. /\ p \in Seq(Nat) /\ Len(p) = m + 2 /\ \A j \in 1..m : p[1 + j] = t[j]
      /\ p[1] = Wildcard /\ p[m + 2] = Wildcard
  BY <1>1 DEF Wildcard
<1>3. Enclosed(t) = p
  <2>1. t # <<>> => 1 \in 1..m /\ m \in 1..m
    BY <1>1
  <2>. QED  BY <1>1, <2>1 DEF Enclosed, PlainText
<1>4. ASSUME Like(s, p)
      PROVE  \E i \in Nat : OccursAt(t, s, i)
  <2>1. PICK pos \in [0..Len(p) -> 0..Len(s)] :
            \A i \in 1..Len(p) :
                  IF p[i] = Wildcard THEN pos[i] >= pos[i - 1]
                  ELSE pos[i] = pos[i - 1] + 1 /\ s[pos[i]] = p[i]
    BY <1>4 DEF Like
  <2>2. 1 + Len(t) <= Len(p) /\ \A j \in 1..Len(t) : p[1 + j] = t[j]
    BY <1>1, <1>2
  <2>3. pos[1] \in Nat /\ pos[1 + Len(t)] = pos[1] + Len(t) /\ OccursAt(t, s, pos[1])
    BY <1>2, <2>1, <2>2, PlainPart
  <2>. QED  BY <2>3
<1>5. ASSUME NEW a \in Nat, OccursAt(t, s, a)
      PROVE  Like(s, p)
  <2>. DEFINE pos == [i \in 0..m + 2 |-> IF i = 0 THEN 0 ELSE IF i = m + 2 THEN l ELSE a + i - 1]
  <2>1. a + m <= l /\ \A j \in 1..m : s[a + j] = t[j]
    BY <1>1, <1>5 DEF OccursAt
  <2>2. pos \in [0..m + 2 -> 0..l] /\ pos[0] = 0 /\ pos[m + 2] = l
    BY <1>1, <2>1
  <2>3. ASSUME NEW i \in 1..m + 2
        PROVE  IF p[i] = Wildcard THEN pos[i] >= pos[i - 1]
               ELSE pos[i] = pos[i - 1] + 1 /\ s[pos[i]] = p[i]
    <3>1. CASE i = 1
      <4>1. pos[1] = a /\ pos[1 - 1] = 0 /\ p[1] = Wildcard
        BY <1>1, <1>2
      <4>. QED  BY <1>1, <3>1, <4>1
    <3>2. CASE i = m + 2
      <4>1. pos[i] = l /\ pos[i - 1] = a + m /\ p[i] = Wildcard
        BY <1>1, <1>2, <3>2
      <4>. QED  BY <1>1, <2>1, <4>1
    <3>3. CASE i \in 2..m + 1
      <4>1. pos[i] = a + i - 1 /\ pos[i - 1] = a + (i - 1) - 1
        BY <1>1, <3>3
      <4>2. i - 1 \in 1..m /\ 1 + (i - 1) = i /\ a + (i - 1) = a + i - 1
        BY <1>1, <3>3
      <4>3. p[i] = t[i - 1] /\ t[i - 1] # Wildcard /\ s[a + (i - 1)] = t[i - 1]
        <5>1. p[1 + (i - 1)] = t[i - 1] /\ s[a + (i - 1)] = t[i - 1]
          BY <1>2, <2>1, <4>2
        <5>. QED  BY <1>1, <4>2, <5>1 DEF PlainText
      <4>. QED  BY <1>1, <3>3, <4>1, <4>2, <4>3
    <3>. QED  BY <1>1, <3>1, <3>2, <3>3
  <2>. HIDE DEF pos
  <2>4. pos \in [0..Len(p) -> 0..Len(s)] /\ pos[0] = 0 /\ pos[Len(p)] = Len(s)
    BY <1>1, <1>2, <2>2
  <2>5. \A i \in 1..Len(p) : IF p[i] = Wildcard THEN pos[i] >= pos[i - 1]
                             ELSE pos[i] = pos[i - 1] + 1 /\ s[pos[i]] = p[i]
    BY <1>2, <2>3
  <2>. QED  BY <2>4, <2>5 DEF Like
<1>. QED  BY <1>3, <1>4, <1>5

-----------------------------------------------------------------------------
(* Reading a key                                                           *)

OperatorWords == {"not", "gt", "lt", "gte", "lte", "in", "contains", "starts", "ends", "with"}

Words == STRING \cup OperatorWords

\* The name of a field does not end in a word that operators are made of.
PlainName(name) == name[Len(name)] \notin OperatorWords

Fits(o, s) == Len(o) <= Len(s) /\ OccursAt(o, s, Len(s) - Len(o))

LEMMA Widened ==
    ASSUME NEW A, NEW B, A \subseteq B, NEW x \in Seq(A)
    PROVE  x \in Seq(B)
OBVIOUS

LEMMA EndsInKey ==
    ASSUME NEW name \in Seq(STRING), name # <<>>, PlainName(name),
           NEW s \in Seq(OperatorWords), NEW o \in Seq(OperatorWords), o # <<>>
    PROVE  EndsIn(name \o s, o) <=> Fits(o, s)
<1>1. PICK n, m, k, key : /\ n = Len(name) /\ m = Len(s) /\ k = Len(o) /\ key = name \o s
                          /\ n \in Nat \ {0} /\ m \in Nat /\ k \in Nat \ {0}
  <2>1. Len(name) \in Nat \ {0} /\ Len(s) \in Nat /\ Len(o) \in Nat \ {0}
    OBVIOUS
  <2>. QED  BY <2>1
<1>2. OperatorWords \subseteq Words /\ STRING \subseteq Words
  BY DEF Words
<1>3. name \in Seq(Words) /\ s \in Seq(Words) /\ o \in Seq(Words) /\ \A j \in 1..k : o[j] \in OperatorWords
  <2>1. \A x \in Seq(STRING) : x \in Seq(Words)
    BY <1>2, Widened, ZenonT(30)
  <2>2. \A x \in Seq(OperatorWords) : x \in Seq(Words)
    BY <1>2, Widened, ZenonT(30)
  <2>. QED  BY <1>1, <2>1, <2>2
<1>4. /\ key \in Seq(Words) /\ Len(key) = n + m
      /\ key[n] = name[n] /\ \A j \in 1..m : key[n + j] = s[j]
  BY <1>1, <1>3
<1>5. IsSuffix(o, key) <=> k <= n + m /\ OccursAt(o, key, (n + m) - k)
  BY <1>1, <1>3, <1>4, SuffixAt
<1>6. CASE k <= m
  <2>1. k <= n + m /\ k < n + m
    BY <1>1, <1>6
  <2>2. \A j \in 1..k : key[((n + m) - k) + j] = s[(m - k) + j]
    <3>1. \A j \in 1..k : (m - k) + j \in 1..m /\ n + ((m - k) + j) = ((n + m) - k) + j
      BY <1>1, <1>6
    <3>. QED  BY <1>4, <3>1
  <2>3. OccursAt(o, key, (n + m) - k) <=> \A j \in 1..k : key[((n + m) - k) + j] = o[j]
    <3>1. ((n + m) - k) + k <= n + m
      BY <1>1
    <3>. QED  BY <1>1, <1>4, <3>1 DEF OccursAt
  <2>4. OccursAt(o, s, m - k) <=> \A j \in 1..k : s[(m - k) + j] = o[j]
    BY <1>1 DEF OccursAt
  <2>5. EndsIn(name \o s, o) <=> OccursAt(o, key, (n + m) - k)
    BY <1>1, <1>4, <1>5, <2>1 DEF EndsIn
  <2>6. Fits(o, s) <=> OccursAt(o, s, m - k)
    BY <1>1, <1>6 DEF Fits
  <2>7. (\A j \in 1..k : key[((n + m) - k) + j] = o[j]) <=> (\A j \in 1..k : s[(m - k) + j] = o[j])
    BY <2>2, ZenonT(30)
  <2>. QED  BY <2>3, <2>4, <2>5, <2>6, <2>7
<1>7. CASE ~(k <= m)
  <2>1. ASSUME IsSuffix(o, key)
        PROVE  FALSE
    <3>1. k - m \in 1..k /\ ((n + m) - k) + (k - m) = n
      BY <1>1, <1>7
    <3>2. key[((n + m) - k) + (k - m)] = o[k - m]
      BY <1>1, <1>5, <2>1, <3>1 DEF OccursAt
    <3>. QED  BY <1>1, <1>3, <1>4, <3>1, <3>2 DEF PlainName
  <2>. QED  BY <1>1, <1>7, <2>1 DEF EndsIn, Fits
<1>. QED  BY <1>6, <1>7

LEMMA TrimmedKey ==
    ASSUME NEW name \in Seq(STRING), name # <<>>, PlainName(name),
           NEW s \in Seq(OperatorWords), Len(s) \in 1..3
    PROVE  Trimmed(name \o s, s) = name
<1>1. PICK n, m, key : /\ n = Len(name) /\ m = Len(s) /\ key = name \o s
                       /\ n \in Nat \ {0} /\ m \in 1..3
  <2>1. Len(name) \in Nat \ {0}
    OBVIOUS
  <2>. QED  BY <2>1
<1>2. OperatorWords \subseteq Words /\ STRING \subseteq Words
  BY DEF Words
<1>3. name \in Seq(Words) /\ s \in Seq(Words) /\ \A j \in 1..m : s[j] \in OperatorWords
  <2>1. \A x \in Seq(STRING) : x \in Seq(Words)
    BY <1>2, Widened, ZenonT(30)
  <2>2. \A x \in Seq(OperatorWords) : x \in Seq(Words)
    BY <1>2, Widened, ZenonT(30)
  <2>. QED  BY <1>1, <2>1, <2>2
<1>4. /\ key \in Seq(Words) /\ Len(key) = n + m
      /\ \A j \in 1..n : key[j] = name[j]
      /\ \A j \in 1..m : key[n + j] = s[j]
  BY <1>1, <1>3
<1>. DEFINE times(k) == /\ k * m <= Len(key)
                        /\ \A i \in 0..k * m - 1 : key[Len(key) - i] = s[m - (i % m)]
<1>5. times(1)
  <2>1. 1 * m = m /\ m <= n + m
    BY <1>1
  <2>2. ASSUME NEW i \in 0..m - 1
        PROVE  key[(n + m) - i] = s[m - (i % m)]
    <3>1. i % m = i
      <4>1. CASE m = 1
        BY <4>1
      <4>2. CASE m = 2
        BY <4>2
      <4>3. CASE m = 3
        BY <4>3
      <4>. QED  BY <1>1, <4>1, <4>2, <4>3, SMTT(30)
    <3>2. m - i \in 1..m /\ n + (m - i) = (n + m) - i
      BY <1>1
    <3>. QED  BY <1>4, <3>1, <3>2
  <2>. QED  BY <1>4, <2>1, <2>2
<1>6. ASSUME NEW k \in Nat, k >= 2
      PROVE  ~times(k)
  <2>1. m \in 0..k * m - 1 /\ m % m = 0
    <3>1. CASE m = 1
      BY <1>6, <3>1
    <3>2. CASE m = 2
      BY <1>6, <3>2
    <3>3. CASE m = 3
      BY <1>6, <3>3
    <3>. QED  BY <1>1, <3>1, <3>2, <3>3
  <2>2. times(k) => key[Len(key) - m] = s[m - (m % m)]
    BY <2>1
  <2>3. Len(key) - m = n /\ m - (m % m) = m /\ m \in 1..m /\ n \in 1..n
    BY <1>1, <1>4, <2>1
  <2>. HIDE DEF times
  <2>. QED  BY <1>1, <1>3, <1>4, <2>2, <2>3 DEF PlainName
<1>7. (CHOOSE k \in 0..Len(key) : times(k) /\ ~times(k + 1)) = 1
  <2>1. 1 \in 0..Len(key) /\ ~times(1 + 1)
    <3>1. 1 \in 0..Len(key) /\ 1 + 1 \in Nat /\ 1 + 1 >= 2
      BY <1>1, <1>4
    <3>. HIDE DEF times
    <3>. QED  BY <1>6, <3>1
  <2>2. ASSUME NEW k \in 0..Len(key), times(k) /\ ~times(k + 1)
        PROVE  k = 1
    <3>1. k \in Nat
      BY <1>1, <1>4
    <3>2. k # 0
      <4>1. k = 0 => k + 1 = 1
        OBVIOUS
      <4>. HIDE DEF times
      <4>. QED  BY <1>5, <2>2, <4>1
    <3>3. ~(k >= 2)
      <4>. HIDE DEF times
      <4>. QED  BY <1>6, <2>2, <3>1
    <3>. QED  BY <3>1, <3>2, <3>3
  <2>. HIDE DEF times
  <2>. QED  BY <1>5, <2>1, <2>2
<1>8. SubSeq(key, 1, n) = name
  <2>1. \A j \in 1..n : key[j] \in Words
    BY <1>1, <1>4
  <2>2. SubSeq(key, 1, n) \in Seq(Words) /\ Len(SubSeq(key, 1, n)) = n
        /\ \A j \in 1..n : SubSeq(key, 1, n)[j] = name[j]
    <3>1. /\ SubSeq(key, 1, n) \in Seq(Words)
          /\ Len(SubSeq(key, 1, n)) = IF 1 <= n THEN n - 1 + 1 ELSE 0
          /\ \A j \in 1..n - 1 + 1 : SubSeq(key, 1, n)[j] = key[1 + j - 1]
      BY <1>1, <2>1, SubSeqProperties
    <3>2. n - 1 + 1 = n /\ \A j \in 1..n : 1 + j - 1 = j
      BY <1>1
    <3>. QED  BY <1>1, <1>4, <3>1, <3>2
  <2>. QED  BY <1>1, <1>3, <2>2, SeqEqual
<1>9. s # <<>> /\ Len(key) - 1 * m = n
  BY <1>1, <1>4
<1>. QED  BY <1>1, <1>7, <1>8, <1>9 DEF Trimmed

AllSuffixes == ToSet(SuffixOrder) \cup {<<>>}

LEMMA SuffixWords ==
    ASSUME NEW i \in 1..13
    PROVE  /\ SuffixOrder[i] \in Seq(OperatorWords) /\ Len(SuffixOrder[i]) \in 1..3
           /\ SuffixOrder[i] # <<>> /\ ~(Len(SuffixOrder[i]) <= 0)
<1>1. CASE i = 1
  <2>1. SuffixOrder[i] = <<"not">>
    BY <1>1 DEF SuffixOrder
  <2>. QED  BY <2>1 DEF OperatorWords
<1>2. CASE i = 2
  <2>1. SuffixOrder[i] = <<"gt">>
    BY <1>2 DEF SuffixOrder
  <2>. QED  BY <2>1 DEF OperatorWords
<1>3. CASE i = 3
  <2>1. SuffixOrder[i] = <<"lt">>
    BY <1>3 DEF SuffixOrder
  <2>. QED  BY <2>1 DEF OperatorWords
<1>4. CASE i = 4
  <2>1. SuffixOrder[i] = <<"gte">>
    BY <1>4 DEF SuffixOrder
  <2>. QED  BY <2>1 DEF OperatorWords
<1>5. CASE i = 5
  <2>1. SuffixOrder[i] = <<"lte">>
    BY <1>5 DEF SuffixOrder
  <2>. QED  BY <2>1 DEF OperatorWords
<1>6. CASE i = 6
  <2>1. SuffixOrder[i] = <<"not", "in">>
    BY <1>6 DEF SuffixOrder
  <2>. QED  BY <2>1 DEF OperatorWords
<1>7. CASE i = 7
  <2>1. SuffixOrder[i] = <<"in">>
    BY <1>7 DEF SuffixOrder
  <2>. QED  BY <2>1 DEF OperatorWords
<1>8. CASE i = 8
  <2>1. SuffixOrder[i] = <<"not", "contains">>
    BY <1>8 DEF SuffixOrder
  <2>. QED  BY <2>1 DEF OperatorWords
<1>9. CASE i = 9
  <2>1. SuffixOrder[i] = <<"contains">>
    BY <1>9 DEF SuffixOrder
  <2>. QED  BY <2>1 DEF OperatorWords
<1>10. CASE i = 10
  <2>1. SuffixOrder[i] = <<"not", "starts", "with">>
    BY <1>10 DEF SuffixOrder
  <2>. QED  BY <2>1 DEF OperatorWords
<1>11. CASE i = 11
  <2>1. SuffixOrder[i] = <<"not", "ends", "with">>
    BY <1>11 DEF SuffixOrder
  <2>. QED  BY <2>1 DEF OperatorWords
<1>12. CASE i = 12
  <2>1. SuffixOrder[i] = <<"starts", "with">>
    BY <1>12 DEF SuffixOrder
  <2>. QED  BY <2>1 DEF OperatorWords
<1>13. CASE i = 13
  <2>1. SuffixOrder[i] = <<"ends", "with">>
    BY <1>13 DEF SuffixOrder
  <2>. QED  BY <2>1 DEF OperatorWords
<1>. QED  BY <1>1, <1>2, <1>3, <1>4, <1>5, <1>6, <1>7, <1>8, <1>9, <1>10, <1>11, <1>12, <1>13

LEMMA SuffixesListed ==
    Len(SuffixOrder) = 13 /\ \A s \in AllSuffixes : s = <<>> \/ \E i \in 1..13 : s = SuffixOrder[i]
BY DEF SuffixOrder, AllSuffixes, ToSet

\* No suffix is read before the one that is meant.
LEMMA FirstFit ==
    \A i \in 1..13 : /\ Fits(SuffixOrder[i], SuffixOrder[i])
                     /\ \A j \in 1..i - 1 : ~Fits(SuffixOrder[j], SuffixOrder[i])
<1>1. /\ SuffixOrder[1] = <<"not">> /\ Fits(<<"not">>, <<"not">>)
  BY DEF SuffixOrder, Fits, OccursAt
<1>2. /\ SuffixOrder[2] = <<"gt">> /\ Fits(<<"gt">>, <<"gt">>)
      /\ ~Fits(<<"not">>, <<"gt">>)
  BY DEF SuffixOrder, Fits, OccursAt
<1>3. /\ SuffixOrder[3] = <<"lt">> /\ Fits(<<"lt">>, <<"lt">>)
      /\ ~Fits(<<"not">>, <<"lt">>)
      /\ ~Fits(<<"gt">>, <<"lt">>)
  BY DEF SuffixOrder, Fits, OccursAt
<1>4. /\ SuffixOrder[4] = <<"gte">> /\ Fits(<<"gte">>, <<"gte">>)
      /\ ~Fits(<<"not">>, <<"gte">>)
      /\ ~Fits(<<"gt">>, <<"gte">>)
      /\ ~Fits(<<"lt">>, <<"gte">>)
  BY DEF SuffixOrder, Fits, OccursAt
<1>5. /\ SuffixOrder[5] = <<"lte">> /\ Fits(<<"lte">>, <<"lte">>)
      /\ ~Fits(<<"not">>, <<"lte">>)
      /\ ~Fits(<<"gt">>, <<"lte">>)
      /\ ~Fits(<<"lt">>, <<"lte">>)
      /\ ~Fits(<<"gte">>, <<"lte">>)
  BY DEF SuffixOrder, Fits, OccursAt
<1>6. /\ SuffixOrder[6] = <<"not", "in">> /\ Fits(<<"not", "in">>, <<"not", "in">>)
      /\ ~Fits(<<"not">>, <<"not", "in">>)
      /\ ~Fits(<<"gt">>, <<"not", "in">>)
      /\ ~Fits(<<"lt">>, <<"not", "in">>)
      /\ ~Fits(<<"gte">>, <<"not", "in">>)
      /\ ~Fits(<<"lte">>, <<"not", "in">>)
  BY DEF SuffixOrder, Fits, OccursAt
<1>7. /\ SuffixOrder[7] = <<"in">> /\ Fits(<<"in">>, <<"in">>)
      /\ ~Fits(<<"not">>, <<"in">>)
      /\ ~Fits(<<"gt">>, <<"in">>)
      /\ ~Fits(<<"lt">>, <<"in">>)
      /\ ~Fits(<<"gte">>, <<"in">>)
      /\ ~Fits(<<"lte">>, <<"in">>)
      /\ ~Fits(<<"not", "in">>, <<"in">>)
  BY DEF SuffixOrder, Fits, OccursAt
<1>8. /\ SuffixOrder[8] = <<"not", "contains">> /\ Fits(<<"not", "contains">>, <<"not", "contains">>)
      /\ ~Fits(<<"not">>, <<"not", "contains">>)
      /\ ~Fits(<<"gt">>, <<"not", "contains">>)
      /\ ~Fits(<<"lt">>, <<"not", "contains">>)
      /\ ~Fits(<<"gte">>, <<"not", "contains">>)
      /\ ~Fits(<<"lte">>, <<"not", "contains">>)
      /\ ~Fits(<<"not", "in">>, <<"not", "contains">>)
      /\ ~Fits(<<"in">>, <<"not", "contains">>)
  BY DEF SuffixOrder, Fits, OccursAt
<1>9. /\ SuffixOrder[9] = <<"contains">> /\ Fits(<<"contains">>, <<"contains">>)
      /\ ~Fits(<<"not">>, <<"contains">>)
      /\ ~Fits(<<"gt">>, <<"contains">>)
      /\ ~Fits(<<"lt">>, <<"contains">>)
      /\ ~Fits(<<"gte">>, <<"contains">>)
      /\ ~Fits(<<"lte">>, <<"contains">>)
      /\ ~Fits(<<"not", "in">>, <<"contains">>)
      /\ ~Fits(<<"in">>, <<"contains">>)
      /\ ~Fits(<<"not", "contains">>, <<"contains">>)
  BY DEF SuffixOrder, Fits, OccursAt
<1>10. /\ SuffixOrder[10] = <<"not", "starts", "with">> /\ Fits(<<"not", "starts", "with">>, <<"not", "starts", "with">>)
      /\ ~Fits(<<"not">>, <<"not", "starts", "with">>)
      /\ ~Fits(<<"gt">>, <<"not", "starts", "with">>)
      /\ ~Fits(<<"lt">>, <<"not", "starts", "with">>)
      /\ ~Fits(<<"gte">>, <<"not", "starts", "with">>)
      /\ ~Fits(<<"lte">>, <<"not", "starts", "with">>)
      /\ ~Fits(<<"not", "in">>, <<"not", "starts", "with">>)
      /\ ~Fits(<<"in">>, <<"not", "starts", "with">>)
      /\ ~Fits(<<"not", "contains">>, <<"not", "starts", "with">>)
      /\ ~Fits(<<"contains">>, <<"not", "starts", "with">>)
  BY DEF SuffixOrder, Fits, OccursAt
<1>11. /\ SuffixOrder[11] = <<"not", "ends", "with">> /\ Fits(<<"not", "ends", "with">>, <<"not", "ends", "with">>)
      /\ ~Fits(<<"not">>, <<"not", "ends", "with">>)
      /\ ~Fits(<<"gt">>, <<"not", "ends", "with">>)
      /\ ~Fits(<<"lt">>, <<"not", "ends", "with">>)
      /\ ~Fits(<<"gte">>, <<"not", "ends", "with">>)
      /\ ~Fits(<<"lte">>, <<"not", "ends", "with">>)
      /\ ~Fits(<<"not", "in">>, <<"not", "ends", "with">>)
      /\ ~Fits(<<"in">>, <<"not", "ends", "with">>)
      /\ ~Fits(<<"not", "contains">>, <<"not", "ends", "with">>)
      /\ ~Fits(<<"contains">>, <<"not", "ends", "with">>)
      /\ ~Fits(<<"not", "starts", "with">>, <<"not", "ends", "with">>)
  BY DEF SuffixOrder, Fits, OccursAt
<1>12. /\ SuffixOrder[12] = <<"starts", "with">> /\ Fits(<<"starts", "with">>, <<"starts", "with">>)
      /\ ~Fits(<<"not">>, <<"starts", "with">>)
      /\ ~Fits(<<"gt">>, <<"starts", "with">>)
      /\ ~Fits(<<"lt">>, <<"starts", "with">>)
      /\ ~Fits(<<"gte">>, <<"starts", "with">>)
      /\ ~Fits(<<"lte">>, <<"starts", "with">>)
      /\ ~Fits(<<"not", "in">>, <<"starts", "with">>)
      /\ ~Fits(<<"in">>, <<"starts", "with">>)
      /\ ~Fits(<<"not", "contains">>, <<"starts", "with">>)
      /\ ~Fits(<<"contains">>, <<"starts", "with">>)
      /\ ~Fits(<<"not", "starts", "with">>, <<"starts", "with">>)
      /\ ~Fits(<<"not", "ends", "with">>, <<"starts", "with">>)
  BY DEF SuffixOrder, Fits, OccursAt
<1>13. /\ SuffixOrder[13] = <<"ends", "with">> /\ Fits(<<"ends", "with">>, <<"ends", "with">>)
      /\ ~Fits(<<"not">>, <<"ends", "with">>)
      /\ ~Fits(<<"gt">>, <<"ends", "with">>)
      /\ ~Fits(<<"lt">>, <<"ends", "with">>)
      /\ ~Fits(<<"gte">>, <<"ends", "with">>)
      /\ ~Fits(<<"lte">>, <<"ends", "with">>)
      /\ ~Fits(<<"not", "in">>, <<"ends", "with">>)
      /\ ~Fits(<<"in">>, <<"ends", "with">>)
      /\ ~Fits(<<"not", "contains">>, <<"ends", "with">>)
      /\ ~Fits(<<"contains">>, <<"ends", "with">>)
      /\ ~Fits(<<"not", "starts", "with">>, <<"ends", "with">>)
      /\ ~Fits(<<"not", "ends", "with">>, <<"ends", "with">>)
      /\ ~Fits(<<"starts", "with">>, <<"ends", "with">>)
  BY DEF SuffixOrder, Fits, OccursAt
<1>21. /\ Fits(SuffixOrder[1], SuffixOrder[1])
       /\ \A j \in 1..1 - 1 : ~Fits(SuffixOrder[j], SuffixOrder[1])
  BY <1>1
<1>22. /\ Fits(SuffixOrder[2], SuffixOrder[2])
       /\ \A j \in 1..2 - 1 : ~Fits(SuffixOrder[j], SuffixOrder[2])
  BY <1>1, <1>2
<1>23. /\ Fits(SuffixOrder[3], SuffixOrder[3])
       /\ \A j \in 1..3 - 1 : ~Fits(SuffixOrder[j], SuffixOrder[3])
  BY <1>1, <1>2, <1>3
<1>24. /\ Fits(SuffixOrder[4], SuffixOrder[4])
       /\ \A j \in 1..4 - 1 : ~Fits(SuffixOrder[j], SuffixOrder[4])
  BY <1>1, <1>2, <1>3, <1>4
<1>25. /\ Fits(SuffixOrder[5], SuffixOrder[5])
       /\ \A j \in 1..5 - 1 : ~Fits(SuffixOrder[j], SuffixOrder[5])
  BY <1>1, <1>2, <1>3, <1>4, <1>5
<1>26. /\ Fits(SuffixOrder[6], SuffixOrder[6])
       /\ \A j \in 1..6 - 1 : ~Fits(SuffixOrder[j], SuffixOrder[6])
  BY <1>1, <1>2, <1>3, <1>4, <1>5, <1>6
<1>27. /\ Fits(SuffixOrder[7], SuffixOrder[7])
       /\ \A j \in 1..7 - 1 : ~Fits(SuffixOrder[j], SuffixOrder[7])
  BY <1>1, <1>2, <1>3, <1>4, <1>5, <1>6, <1>7
<1>28. /\ Fits(SuffixOrder[8], SuffixOrder[8])
       /\ \A j \in 1..8 - 1 : ~Fits(SuffixOrder[j], SuffixOrder[8])
  BY <1>1, <1>2, <1>3, <1>4, <1>5, <1>6, <1>7, <1>8
<1>29. /\ Fits(SuffixOrder[9], SuffixOrder[9])
       /\ \A j \in 1..9 - 1 : ~Fits(SuffixOrder[j], SuffixOrder[9])
  BY <1>1, <1>2, <1>3, <1>4, <1>5, <1>6, <1>7, <1>8, <1>9
<1>30. /\ Fits(SuffixOrder[10], SuffixOrder[10])
       /\ \A j \in 1..10 - 1 : ~Fits(SuffixOrder[j], SuffixOrder[10])
  BY <1>1, <1>2, <1>3, <1>4, <1>5, <1>6, <1>7, <1>8, <1>9, <1>10
<1>31. /\ Fits(SuffixOrder[11], SuffixOrder[11])
       /\ \A j \in 1..11 - 1 : ~Fits(SuffixOrder[j], SuffixOrder[11])
  BY <1>1, <1>2, <1>3, <1>4, <1>5, <1>6, <1>7, <1>8, <1>9, <1>10, <1>11
<1>32. /\ Fits(SuffixOrder[12], SuffixOrder[12])
       /\ \A j \in 1..12 - 1 : ~Fits(SuffixOrder[j], SuffixOrder[12])
  BY <1>1, <1>2, <1>3, <1>4, <1>5, <1>6, <1>7, <1>8, <1>9, <1>10, <1>11, <1>12
<1>33. /\ Fits(SuffixOrder[13], SuffixOrder[13])
       /\ \A j \in 1..13 - 1 : ~Fits(SuffixOrder[j], SuffixOrder[13])
  BY <1>1, <1>2, <1>3, <1>4, <1>5, <1>6, <1>7, <1>8, <1>9, <1>10, <1>11, <1>12, <1>13, SMTT(30)
<1>. QED  BY <1>21, <1>22, <1>23, <1>24, <1>25, <1>26, <1>27, <1>28, <1>29, <1>30, <1>31, <1>32, <1>33

\* Every key that the API offers is read as the field and the operation it was
\* made of: parse_field_as_filter tries the suffixes in an order in which none
\* hides another.
LEMMA KeysReadBack ==
    ASSUME NEW name \in Seq(STRING), name # <<>>, PlainName(name), NEW s \in AllSuffixes
    PROVE  ParseFieldAsFilter(name \o s) = [name |-> name, suffix |-> s]
<1>. DEFINE key == name \o s
            matching == {i \in 1..Len(SuffixOrder) : EndsIn(key, SuffixOrder[i])}
            suffix == IF matching = {} THEN <<>>
                      ELSE SuffixOrder[CHOOSE i \in matching : \A j \in matching : i <= j]
<1>1. s \in Seq(OperatorWords)
  <2>1. \A i \in 1..13 : SuffixOrder[i] \in Seq(OperatorWords)
    BY SuffixWords
  <2>2. <<>> \in Seq(OperatorWords)
    OBVIOUS
  <2>. QED  BY <2>1, <2>2, SuffixesListed
<1>2. \A i \in 1..13 : EndsIn(key, SuffixOrder[i]) <=> Fits(SuffixOrder[i], s)
  <2>1. ASSUME NEW i \in 1..13
        PROVE  SuffixOrder[i] \in Seq(OperatorWords) /\ SuffixOrder[i] # <<>>
    BY SuffixWords
  <2>. QED  BY <1>1, <2>1, EndsInKey
<1>3. matching = {i \in 1..13 : Fits(SuffixOrder[i], s)}
  BY <1>2, SuffixesListed
<1>4. suffix = s
  <2>1. CASE s = <<>>
    <3>1. \A i \in 1..13 : ~Fits(SuffixOrder[i], <<>>)
      <4>1. \A i \in 1..13 : ~(Len(SuffixOrder[i]) <= 0)
        BY SuffixWords
      <4>2. Len(<<>>) = 0
        OBVIOUS
      <4>. QED  BY <4>1, <4>2 DEF Fits
    <3>2. matching = {}
      BY <1>3, <2>1, <3>1
    <3>. HIDE DEF matching
    <3>. QED  BY <2>1, <3>2
  <2>2. CASE s # <<>>
    <3>1. PICK k \in 1..13 : s = SuffixOrder[k]
      BY <2>2, SuffixesListed
    <3>2. k \in matching /\ \A j \in matching : k <= j
      <4>1. \A j \in 1..13 : ~(k <= j) => j \in 1..k - 1
        OBVIOUS
      <4>. HIDE DEF matching
      <4>. QED  BY <1>3, <3>1, <4>1, FirstFit
    <3>3. (CHOOSE i \in matching : \A j \in matching : i <= j) = k
      <4>1. \A i \in matching : i \in 1..13
        BY <1>3
      <4>2. \A i \in matching : (\A j \in matching : i <= j) => i = k
        <5>. HIDE DEF matching
        <5>. QED  BY <3>2, <4>1
      <4>. HIDE DEF matching
      <4>. QED  BY <3>2, <4>2
    <3>. HIDE DEF matching
    <3>. QED  BY <3>1, <3>2, <3>3
  <2>. QED  BY <2>1, <2>2
<1>5. Trimmed(key, s) = name
  <2>1. CASE s = <<>>
    <3>1. key = name
      BY <2>1, ConcatEmptySeq
    <3>. HIDE DEF key
    <3>. QED  BY <2>1, <3>1 DEF Trimmed
  <2>2. CASE s # <<>>
    <3>1. Len(s) \in 1..3
      BY <2>2, SuffixWords, SuffixesListed
    <3>. QED  BY <1>1, <3>1, TrimmedKey
  <2>. QED  BY <2>1, <2>2
<1>6. ParseFieldAsFilter(key) = [name |-> Trimmed(key, suffix), suffix |-> suffix]
  BY DEF ParseFieldAsFilter
<1>. HIDE DEF suffix, matching
<1>. QED  BY <1>4, <1>5, <1>6

-----------------------------------------------------------------------------
(* Conditions *)

LEMMA SameOutcome ==
    ASSUME NEW p \in BOOLEAN, NEW q \in BOOLEAN, p <=> q
    PROVE  Outcome(p) = Outcome(q)
BY DEF Outcome

LEMMA StartsExact ==
    ASSUME NEW S \in {<<"starts", "with">>, <<"not", "starts", "with">>},
           NEW col \in Seq(Nat), col # Null, NEW v, v.v \in Seq(Nat), PlainText(v.v)
    PROVE  Outcome(Condition(S, col, v)) = Outcome(Meaning(S, col, v))
<1>1. Like(col, v.v \o <<Wildcard>>) <=> IsPrefix(v.v, col)
  BY LikeStarts, PrefixAt
<1>2. CASE S = <<"starts", "with">>
  <2>1. Condition(S, col, v) = Like(col, v.v \o <<Wildcard>>)
    BY <1>2 DEF Condition, IsListOp, OrderOps, ContainsOps, StartsOrEndsWith, OnColumn, Is, Negated, ToSet
  <2>2. Meaning(S, col, v) = IsPrefix(v.v, col)
    BY <1>2 DEF Meaning, IsListOp, OrderOps, ContainsOps, Is, Negated, ToSet
  <2>3. Like(col, v.v \o <<Wildcard>>) \in BOOLEAN /\ IsPrefix(v.v, col) \in BOOLEAN
    BY DEF Like, IsPrefix
  <2>. QED  BY <1>1, <2>1, <2>2, <2>3, SameOutcome
<1>3. CASE S = <<"not", "starts", "with">>
  <2>1. Condition(S, col, v) = ~Like(col, v.v \o <<Wildcard>>)
    BY <1>3 DEF Condition, IsListOp, OrderOps, ContainsOps, StartsOrEndsWith, OnColumn, Is, Negated, ToSet
  <2>2. Meaning(S, col, v) = ~IsPrefix(v.v, col)
    BY <1>3 DEF Meaning, IsListOp, OrderOps, ContainsOps, Is, Negated, ToSet
  <2>3. (~Like(col, v.v \o <<Wildcard>>)) \in BOOLEAN /\ (~IsPrefix(v.v, col)) \in BOOLEAN
    BY DEF Like, IsPrefix
  <2>. QED  BY <1>1, <2>1, <2>2, <2>3, SameOutcome
<1>. QED  BY <1>2, <1>3

LEMMA EndsExact ==
    ASSUME NEW S \in {<<"ends", "with">>, <<"not", "ends", "with">>},
           NEW col \in Seq(Nat), col # Null, NEW v, v.v \in Seq(Nat), PlainText(v.v)
    PROVE  Outcome(Condition(S, col, v)) = Outcome(Meaning(S, col, v))
<1>1. Like(col, <<Wildcard>> \o v.v) <=> IsSuffix(v.v, col)
  BY LikeEnds, SuffixAt
<1>2. CASE S = <<"ends", "with">>
  <2>1. Condition(S, col, v) = Like(col, <<Wildcard>> \o v.v)
    BY <1>2 DEF Condition, IsListOp, OrderOps, ContainsOps, StartsOrEndsWith, OnColumn, Is, Negated, ToSet
  <2>2. Meaning(S, col, v) = IsSuffix(v.v, col)
    BY <1>2 DEF Meaning, IsListOp, OrderOps, ContainsOps, Is, Negated, ToSet
  <2>3. Like(col, <<Wildcard>> \o v.v) \in BOOLEAN /\ IsSuffix(v.v, col) \in BOOLEAN
    BY DEF Like, IsSuffix, IsPrefix
  <2>. QED  BY <1>1, <2>1, <2>2, <2>3, SameOutcome
<1>3. CASE S = <<"not", "ends", "with">>
  <2>1. Condition(S, col, v) = ~Like(col, <<Wildcard>> \o v.v)
    BY <1>3 DEF Condition, IsListOp, OrderOps, ContainsOps, StartsOrEndsWith, OnColumn, Is, Negated, ToSet
  <2>2. Meaning(S, col, v) = ~IsSuffix(v.v, col)
    BY <1>3 DEF Meaning, IsListOp, OrderOps, ContainsOps, Is, Negated, ToSet
  <2>3. (~Like(col, <<Wildcard>> \o v.v)) \in BOOLEAN /\ (~IsSuffix(v.v, col)) \in BOOLEAN
    BY DEF Like, IsSuffix, IsPrefix
  <2>. QED  BY <1>1, <2>1, <2>2, <2>3, SameOutcome
<1>. QED  BY <1>2, <1>3

\* What a list of a filter holds, without nulls.
HeldBy(v) == {w.v : w \in {w \in v.v : w.kind # "null"}}

LEMMA ContainsExact ==
    ASSUME NEW S \in {<<"contains">>, <<"not", "contains">>}, NEW col, col # Null, NEW v,
           \/ /\ v.kind = "text" /\ col \in Seq(Nat) /\ v.v \in Seq(Nat) /\ PlainText(v.v)
           \/ v.kind = "bytes"
           \/ v.kind = "list" /\ S = <<"contains">> /\ \A w \in v.v : w.kind # "null"
    PROVE  Outcome(Condition(S, col, v)) = Outcome(Meaning(S, col, v))
<1>. DEFINE M == IF v.kind = "list" THEN HeldBy(v) \subseteq col ELSE Within(v.v, col)
<1>1. Condition(S, col, v) = FilterContains(col, v, Negated(S))
  <2>1. CASE S = <<"contains">>
    BY <2>1 DEF Condition, IsListOp, OrderOps, ContainsOps, OnColumn
  <2>2. CASE S = <<"not", "contains">>
    BY <2>2 DEF Condition, IsListOp, OrderOps, ContainsOps, OnColumn
  <2>. QED  BY <2>1, <2>2
<1>2. /\ S = <<"contains">> => ~Negated(S) /\ Meaning(S, col, v) = M
      /\ S = <<"not", "contains">> => Negated(S) /\ Meaning(S, col, v) = ~M
  <2>1. CASE S = <<"contains">>
    BY <2>1 DEF Meaning, IsListOp, OrderOps, ContainsOps, Is, Negated, HeldBy
  <2>2. CASE S = <<"not", "contains">>
    BY <2>2 DEF Meaning, IsListOp, OrderOps, ContainsOps, Is, Negated, HeldBy
  <2>. QED  BY <2>1, <2>2
<1>3. CASE v.kind = "text" /\ col \in Seq(Nat) /\ v.v \in Seq(Nat) /\ PlainText(v.v)
  <2>1. Like(col, Enclosed(v.v)) <=> Within(v.v, col)
    BY <1>3, LikeContains, WithinAt
  <2>2. FilterContains(col, v, Negated(S)) = IF Negated(S) THEN ~Like(col, Enclosed(v.v))
                                             ELSE Like(col, Enclosed(v.v))
    BY <1>3 DEF FilterContains, Is
  <2>3. Like(col, Enclosed(v.v)) \in BOOLEAN /\ Within(v.v, col) \in BOOLEAN
    BY DEF Like, Within
  <2>4. CASE S = <<"contains">>
    <3>1. Condition(S, col, v) = Like(col, Enclosed(v.v)) /\ Meaning(S, col, v) = Within(v.v, col)
      BY <1>1, <1>2, <1>3, <2>2, <2>4
    <3>. QED  BY <2>1, <2>3, <3>1, SameOutcome
  <2>5. CASE S = <<"not", "contains">>
    <3>1. Condition(S, col, v) = ~Like(col, Enclosed(v.v)) /\ Meaning(S, col, v) = ~Within(v.v, col)
      BY <1>1, <1>2, <1>3, <2>2, <2>5
    <3>. QED  BY <2>1, <2>3, <3>1, SameOutcome
  <2>. QED  BY <2>4, <2>5
<1>4. CASE v.kind = "bytes"
  <2>1. FilterContains(col, v, Negated(S)) = IF Negated(S) THEN ~Within(v.v, col) ELSE Within(v.v, col)
    BY <1>4 DEF FilterContains, Is
  <2>. QED  BY <1>1, <1>2, <1>4, <2>1
<1>5. CASE v.kind = "list" /\ S = <<"contains">> /\ \A w \in v.v : w.kind # "null"
  <2>1. FilterContains(col, v, Negated(S)) = ({w.v : w \in v.v} \subseteq col)
    BY <1>5 DEF FilterContains
  <2>2. HeldBy(v) = {w.v : w \in v.v}
    BY <1>5 DEF HeldBy
  <2>. QED  BY <1>1, <1>2, <1>5, <2>1, <2>2
<1>. QED  BY <1>3, <1>4, <1>5

LEMMA OrderExact ==
    ASSUME NEW op \in {"gt", "lt", "gte", "lte"}, NEW col, col # Null, NEW v,
           \/ v.kind = "text" /\ col \in Seq(Nat) /\ v.v \in Seq(Nat)
           \/ v.kind = "number"
    PROVE  Outcome(Condition(<<op>>, col, v)) = Outcome(Meaning(<<op>>, col, v))
<1>1. Condition(<<op>>, col, v) = IF v.kind = "text" THEN PrefixComparison(op, col, v.v)
                                  ELSE Compares(v.kind, op, col, v.v)
  <2>1. <<op>> # <<>> /\ <<op>> # <<"not">> /\ <<op>> \in OrderOps /\ <<op>>[1] = op
        /\ ~IsListOp(<<op>>) /\ <<op>> \notin ContainsOps
    BY DEF OrderOps, IsListOp, ContainsOps
  <2>2. Condition(<<op>>, col, v) = FilterCompare(col, v, op)
    <3>1. PICK S : S = <<op>>
      OBVIOUS
    <3>2. S # <<>> /\ S # <<"not">> /\ S \in OrderOps /\ S[1] = op
          /\ ~IsListOp(S) /\ S \notin ContainsOps
      BY <2>1, <3>1
    <3>3. Condition(S, col, v) = FilterCompare(col, v, S[1])
      BY <3>2 DEF Condition
    <3>. QED  BY <3>1, <3>2, <3>3
  <2>. QED  BY <2>2 DEF FilterCompare, OnColumn
<1>2. Meaning(<<op>>, col, v) = Compares(v.kind, op, col, v.v)
  BY DEF Meaning, IsListOp, OrderOps, ContainsOps, Is, Negated
<1>3. CASE v.kind = "text" /\ col \in Seq(Nat) /\ v.v \in Seq(Nat)
  <2>1. col \in Seq(Int) /\ v.v \in Seq(Int)
    BY <1>3
  <2>2. PrefixComparison(op, col, v.v) <=> Compares("text", op, col, v.v)
    BY <2>1, PrefixComparisonExact
  <2>3. Compares("text", op, col, v.v) \in BOOLEAN
    BY DEF Compares, Before, TextBefore
  <2>4. PrefixComparison(op, col, v.v) \in BOOLEAN
    BY DEF PrefixComparison, PrefixCmp, Compares, Before, TextBefore, StrictOp
  <2>. QED  BY <1>1, <1>2, <1>3, <2>2, <2>3, <2>4, SameOutcome
<1>4. CASE v.kind = "number"
  BY <1>1, <1>2, <1>4
<1>. QED  BY <1>3, <1>4

LEMMA EqualsExact ==
    ASSUME NEW S \in {<<>>, <<"not">>}, NEW col, col # Null, NEW v,
           \/ v.kind = "text" /\ col \in Seq(Nat) /\ v.v \in Seq(Nat)
           \/ v.kind = "list" /\ \A w \in v.v : w.kind # "null"
           \/ v.kind \in {"null", "number", "bool", "bytes"}
    PROVE  Outcome(Condition(S, col, v)) = Outcome(Meaning(S, col, v))
<1>. DEFINE M == IF v.kind = "list" THEN col = HeldBy(v) ELSE v.kind # "null" /\ col = v.v
<1>1. CASE S = <<>>
  <2>1. Condition(S, col, v) = FilterEquals(col, v, "eq")
    BY <1>1 DEF Condition, IsListOp, OrderOps, ContainsOps
  <2>2. Meaning(S, col, v) = M
    BY <1>1 DEF Meaning, IsListOp, OrderOps, ContainsOps, Is, Negated, HeldBy
  <2>3. CASE v.kind = "text" /\ col \in Seq(Nat) /\ v.v \in Seq(Nat)
    <3>1. FilterEquals(col, v, "eq") = PrefixComparison("eq", col, v.v)
      BY <2>3 DEF FilterEquals, OnColumn
    <3>2. col \in Seq(Int) /\ v.v \in Seq(Int)
      BY <2>3
    <3>3. PrefixComparison("eq", col, v.v) <=> Compares("text", "eq", col, v.v)
      BY <3>2, PrefixComparisonExact
    <3>4. Compares("text", "eq", col, v.v) <=> col = v.v
      BY DEF Compares
    <3>5. M <=> col = v.v
      BY <2>3
    <3>6. PrefixComparison("eq", col, v.v) \in BOOLEAN /\ M \in BOOLEAN
      BY DEF PrefixComparison, PrefixCmp, Compares
    <3>. HIDE DEF M
    <3>. QED  BY <2>1, <2>2, <3>1, <3>3, <3>4, <3>5, <3>6, SameOutcome
  <2>4. CASE v.kind = "list" /\ \A w \in v.v : w.kind # "null"
    <3>1. HeldBy(v) = {w.v : w \in v.v}
      BY <2>4 DEF HeldBy
    <3>2. FilterEquals(col, v, "eq") = (col = {w.v : w \in v.v})
      BY <2>4 DEF FilterEquals, OnColumn, Is
    <3>. QED  BY <2>1, <2>2, <2>4, <3>1, <3>2
  <2>5. CASE v.kind = "null"
    <3>1. FilterEquals(col, v, "eq") = FALSE
      BY <2>5 DEF FilterEquals, Is
    <3>. QED  BY <2>1, <2>2, <2>5, <3>1
  <2>6. CASE v.kind \in {"number", "bool", "bytes"}
    <3>1. FilterEquals(col, v, "eq") = (col = v.v)
      BY <2>6 DEF FilterEquals, OnColumn, Is
    <3>. QED  BY <2>1, <2>2, <2>6, <3>1
  <2>. QED  BY <2>3, <2>4, <2>5, <2>6
<1>2. CASE S = <<"not">>
  <2>1. Condition(S, col, v) = FilterEquals(col, v, "not")
    BY <1>2 DEF Condition, IsListOp, OrderOps, ContainsOps
  <2>2. Meaning(S, col, v) = ~M
    BY <1>2 DEF Meaning, IsListOp, OrderOps, ContainsOps, Is, Negated, HeldBy
  <2>3. CASE v.kind = "text" /\ col \in Seq(Nat) /\ v.v \in Seq(Nat)
    <3>1. FilterEquals(col, v, "not") = PrefixComparison("not", col, v.v)
      BY <2>3 DEF FilterEquals, OnColumn
    <3>2. col \in Seq(Int) /\ v.v \in Seq(Int)
      BY <2>3
    <3>3. PrefixComparison("not", col, v.v) <=> Compares("text", "not", col, v.v)
      BY <3>2, PrefixComparisonExact
    <3>4. Compares("text", "not", col, v.v) <=> col # v.v
      BY DEF Compares
    <3>5. ~M <=> col # v.v
      BY <2>3
    <3>6. PrefixComparison("not", col, v.v) \in BOOLEAN /\ (~M) \in BOOLEAN
      BY DEF PrefixComparison, PrefixCmp, Compares
    <3>. HIDE DEF M
    <3>. QED  BY <2>1, <2>2, <3>1, <3>3, <3>4, <3>5, <3>6, SameOutcome
  <2>4. CASE v.kind = "list" /\ \A w \in v.v : w.kind # "null"
    <3>1. HeldBy(v) = {w.v : w \in v.v}
      BY <2>4 DEF HeldBy
    <3>2. FilterEquals(col, v, "not") = ~(col = {w.v : w \in v.v})
      BY <2>4 DEF FilterEquals, OnColumn, Is
    <3>. QED  BY <2>1, <2>2, <2>4, <3>1, <3>2
  <2>5. CASE v.kind = "null"
    <3>1. FilterEquals(col, v, "not") = TRUE
      BY <2>5 DEF FilterEquals, Is
    <3>. QED  BY <2>1, <2>2, <2>5, <3>1
  <2>6. CASE v.kind \in {"number", "bool", "bytes"}
    <3>1. FilterEquals(col, v, "not") = ~(col = v.v)
      BY <2>6 DEF FilterEquals, OnColumn, Is
    <3>. QED  BY <2>1, <2>2, <2>6, <3>1
  <2>. QED  BY <2>3, <2>4, <2>5, <2>6
<1>. QED  BY <1>1, <1>2

\* The prefix of a text is one of some short texts if and only if the text is.
LEMMA ShortTexts ==
    ASSUME NEW col \in Seq(Nat), NEW values, ByPrefix(values), \A w \in values : w.v \in Seq(Nat)
    PROVE  Left(col) \in {w.v : w \in values} <=> col \in {w.v : w \in values}
<1>1. ASSUME NEW w \in values
      PROVE  Left(col) = w.v <=> col = w.v
  <2>1. col \in Texts /\ w.v \in Texts /\ ~Large(w.v)
    BY DEF ByPrefix, Texts
  <2>. QED  BY <2>1, ShortByPrefix
<1>. QED  BY <1>1

LEMMA InExact ==
    ASSUME NEW S \in {<<"in">>, <<"not", "in">>}, NEW col, col # Null, NEW v,
           S = <<"not", "in">> => v.v # {},
           \/ \A w \in v.v : w.kind = "null"
           \/ \A w \in v.v : /\ w.kind # "null"
                             /\ w.kind = "text" => col \in Seq(Nat) /\ w.v \in Seq(Nat)
    PROVE  Outcome(Condition(S, col, v)) = Outcome(Meaning(S, col, v))
<1>. DEFINE M == col \in HeldBy(v)
<1>1. Condition(S, col, v) = InArray(col, v.v, Negated(S))
  <2>1. CASE S = <<"in">>
    BY <2>1 DEF Condition, IsListOp, OrderOps, ContainsOps
  <2>2. CASE S = <<"not", "in">>
    BY <2>2 DEF Condition, IsListOp, OrderOps, ContainsOps
  <2>. QED  BY <2>1, <2>2
<1>2. /\ S = <<"in">> => ~Negated(S) /\ Meaning(S, col, v) = M
      /\ S = <<"not", "in">> => Negated(S) /\ Meaning(S, col, v) = ~M
  <2>1. CASE S = <<"in">>
    BY <2>1 DEF Meaning, IsListOp, OrderOps, ContainsOps, Is, Negated, HeldBy
  <2>2. CASE S = <<"not", "in">>
    BY <2>2 DEF Meaning, IsListOp, OrderOps, ContainsOps, Is, Negated, HeldBy
  <2>. QED  BY <2>1, <2>2
<1>3. CASE v.v = {}
  <2>1. S = <<"in">> /\ HeldBy(v) = {}
    BY <1>3 DEF HeldBy
  <2>2. InArray(col, v.v, Negated(S)) = FALSE
    BY <1>3 DEF InArray
  <2>3. M = FALSE
    BY <2>1
  <2>. HIDE DEF M
  <2>. QED  BY <1>1, <1>2, <2>1, <2>2, <2>3
<1>4. CASE v.v # {} /\ \A w \in v.v : w.kind = "null"
  <2>1. HeldBy(v) = {}
    BY <1>4 DEF HeldBy
  <2>2. InArray(col, v.v, Negated(S)) = IF Negated(S) THEN TRUE ELSE FALSE
    BY <1>4, <2>1 DEF InArray, Is, HeldBy
  <2>3. M = FALSE
    BY <2>1
  <2>. HIDE DEF M
  <2>4. CASE S = <<"in">>
    <3>1. Condition(S, col, v) = FALSE /\ Meaning(S, col, v) = FALSE
      BY <1>1, <1>2, <2>2, <2>3, <2>4
    <3>. QED  BY <3>1
  <2>5. CASE S = <<"not", "in">>
    <3>1. Condition(S, col, v) = TRUE /\ Meaning(S, col, v) = TRUE
      BY <1>1, <1>2, <2>2, <2>3, <2>5
    <3>. QED  BY <3>1
  <2>. QED  BY <2>4, <2>5
<1>5. CASE v.v # {} /\ \A w \in v.v : /\ w.kind # "null"
                                      /\ w.kind = "text" => col \in Seq(Nat) /\ w.v \in Seq(Nat)
  <2>. DEFINE P == (IF ByPrefix(v.v) THEN Left(col) ELSE col) \in HeldBy(v)
  <2>1. HeldBy(v) = {w.v : w \in v.v} /\ HeldBy(v) # {} /\ ~(\E w \in v.v : w.kind = "null")
    BY <1>5 DEF HeldBy
  <2>2. InArray(col, v.v, Negated(S)) = IF Negated(S) THEN ~P ELSE P
    BY <1>5, <2>1 DEF InArray, Is, HeldBy, OnColumn
  <2>3. P <=> M
    <3>1. CASE ByPrefix(v.v)
      <4>1. col \in Seq(Nat) /\ \A w \in v.v : w.v \in Seq(Nat)
        BY <1>5, <3>1 DEF ByPrefix
      <4>. QED  BY <2>1, <3>1, <4>1, ShortTexts
    <3>2. CASE ~ByPrefix(v.v)
      BY <3>2
    <3>. QED  BY <3>1, <3>2
  <2>. HIDE DEF P, M
  <2>4. P \in BOOLEAN /\ M \in BOOLEAN
    BY DEF P, M
  <2>5. CASE S = <<"in">>
    <3>1. Condition(S, col, v) = P /\ Meaning(S, col, v) = M
      BY <1>1, <1>2, <2>2, <2>5
    <3>. QED  BY <2>3, <2>4, <3>1, SameOutcome
  <2>6. CASE S = <<"not", "in">>
    <3>1. Condition(S, col, v) = ~P /\ Meaning(S, col, v) = ~M
      BY <1>1, <1>2, <2>2, <2>6
    <3>. QED  BY <2>3, <2>4, <3>1, SameOutcome
  <2>. QED  BY <2>5, <2>6
<1>. QED  BY <1>3, <1>4, <1>5

StartsOps == {<<"starts", "with">>, <<"not", "starts", "with">>}

EndsOps == {<<"ends", "with">>, <<"not", "ends", "with">>}

\* What operations the API offers for fields of which kind.
LEMMA OfferedFor ==
    ASSUME NEW type \in FieldTypes, NEW s \in OfferedSuffixes(type)
    PROVE  /\ s \in {<<>>, <<"not">>} \cup OrderOps \cup {<<"in">>, <<"not", "in">>}
                    \cup ContainsOps \cup StartsOps \cup EndsOps
           /\ KindOf(type) \in ScalarKinds \cup {"list"}
           /\ KindOf(type) = "list" <=> type = "List"
           /\ s \in OrderOps => KindOf(type) \in {"text", "number"}
           /\ s \in ContainsOps => KindOf(type) \in {"text", "bytes", "list"}
           /\ s \in StartsOps \cup EndsOps => KindOf(type) = "text"
           /\ IsListOp(s) => type # "List"
<1>. USE DEF OfferedSuffixes, KindOf, Ordered, OrderOps, ContainsOps, StartsOps, EndsOps,
             ScalarKinds, IsListOp
<1>1. CASE type \in {"BigInt", "BigDecimal", "ID", "Int"}
  BY <1>1
<1>2. CASE type = "Boolean"
  BY <1>2
<1>3. CASE type = "Bytes"
  BY <1>3
<1>4. CASE type \in {"String", "Reference"}
  BY <1>4
<1>5. CASE type = "Enum"
  BY <1>5
<1>6. CASE type = "List"
  BY <1>6
<1>7. CASE type = "Derived"
  BY <1>7
<1>. QED  BY <1>1, <1>2, <1>3, <1>4, <1>5, <1>6, <1>7 DEF FieldTypes

LEMMA OfferedAreRead ==
    {<<>>, <<"not">>} \cup OrderOps \cup {<<"in">>, <<"not", "in">>}
        \cup ContainsOps \cup StartsOps \cup EndsOps \subseteq AllSuffixes
<1>1. \A i \in 1..13 : SuffixOrder[i] \in AllSuffixes
  <2>1. DOMAIN SuffixOrder = 1..13
    BY DEF SuffixOrder
  <2>. QED  BY <2>1 DEF AllSuffixes, ToSet
<1>2. /\ SuffixOrder[1] = <<"not">> /\ SuffixOrder[2] = <<"gt">> /\ SuffixOrder[3] = <<"lt">>
      /\ SuffixOrder[4] = <<"gte">> /\ SuffixOrder[5] = <<"lte">>
      /\ SuffixOrder[6] = <<"not", "in">> /\ SuffixOrder[7] = <<"in">>
      /\ SuffixOrder[8] = <<"not", "contains">> /\ SuffixOrder[9] = <<"contains">>
      /\ SuffixOrder[10] = <<"not", "starts", "with">>
      /\ SuffixOrder[11] = <<"not", "ends", "with">>
      /\ SuffixOrder[12] = <<"starts", "with">> /\ SuffixOrder[13] = <<"ends", "with">>
  BY DEF SuffixOrder
<1>3. <<>> \in AllSuffixes
  BY DEF AllSuffixes
<1>4. /\ SuffixOrder[1] \in AllSuffixes /\ SuffixOrder[2] \in AllSuffixes /\ SuffixOrder[3] \in AllSuffixes
      /\ SuffixOrder[4] \in AllSuffixes /\ SuffixOrder[5] \in AllSuffixes /\ SuffixOrder[6] \in AllSuffixes
      /\ SuffixOrder[7] \in AllSuffixes /\ SuffixOrder[8] \in AllSuffixes /\ SuffixOrder[9] \in AllSuffixes
      /\ SuffixOrder[10] \in AllSuffixes /\ SuffixOrder[11] \in AllSuffixes /\ SuffixOrder[12] \in AllSuffixes
      /\ SuffixOrder[13] \in AllSuffixes
  BY <1>1
<1>5. /\ <<"not">> \in AllSuffixes /\ <<"gt">> \in AllSuffixes
      /\ <<"lt">> \in AllSuffixes /\ <<"gte">> \in AllSuffixes
      /\ <<"lte">> \in AllSuffixes /\ <<"not", "in">> \in AllSuffixes
      /\ <<"in">> \in AllSuffixes /\ <<"not", "contains">> \in AllSuffixes
      /\ <<"contains">> \in AllSuffixes /\ <<"not", "starts", "with">> \in AllSuffixes
      /\ <<"not", "ends", "with">> \in AllSuffixes /\ <<"starts", "with">> \in AllSuffixes
      /\ <<"ends", "with">> \in AllSuffixes
  BY <1>2, <1>4
<1>. QED  BY <1>3, <1>5 DEF OrderOps, ContainsOps, StartsOps, EndsOps

\* The operations exclude each other.
LEMMA OneOperation ==
    ASSUME NEW s
    PROVE  /\ s \in {<<>>, <<"not">>} => s \notin OrderOps /\ ~IsListOp(s) /\ s \notin ContainsOps
           /\ s \in OrderOps => ~IsListOp(s) /\ s \notin ContainsOps
           /\ s \in ContainsOps => ~IsListOp(s)
           /\ s \in StartsOps \cup EndsOps =>
                 /\ s \notin {<<>>, <<"not">>} /\ s \notin OrderOps /\ ~IsListOp(s)
                 /\ s \notin ContainsOps
<1>1. CASE s \in {<<>>, <<"not">>}
  BY <1>1 DEF OrderOps, IsListOp, ContainsOps, StartsOps, EndsOps
<1>2. CASE s \in OrderOps
  BY <1>2 DEF OrderOps, IsListOp, ContainsOps, StartsOps, EndsOps
<1>3. CASE s \in ContainsOps
  BY <1>3 DEF OrderOps, IsListOp, ContainsOps, StartsOps, EndsOps
<1>4. CASE s \in StartsOps \cup EndsOps
  BY <1>4 DEF OrderOps, IsListOp, ContainsOps, StartsOps, EndsOps
<1>. QED  BY <1>1, <1>2, <1>3, <1>4

\* A column that is null is selected only by a filter for null.
LEMMA NullColumn ==
    ASSUME NEW s, NEW v, s \in {<<>>, <<"not">>} \cup OrderOps \cup {<<"in">>, <<"not", "in">>}
                               \cup ContainsOps \cup StartsOps \cup EndsOps,
           v.kind # "null", ~(IsListOp(s) /\ \E w \in v.v : w.kind = "null")
    PROVE  Outcome(Condition(s, Null, v)) # "true"
<1>1. \A x : OnColumn(Null, x) = Null
  BY DEF OnColumn
<1>2. Outcome(Null) # "true" /\ Outcome(FALSE) # "true"
  BY NullAssumption DEF Outcome
<1>3. CASE s \in {<<>>, <<"not">>}
  <2>1. FilterEquals(Null, v, "eq") = Null /\ FilterEquals(Null, v, "not") = Null
    BY DEF FilterEquals, OnColumn
  <2>2. Condition(s, Null, v) = Null
    BY <1>3, <2>1, OneOperation DEF Condition
  <2>. QED  BY <1>2, <2>2
<1>4. CASE s \in OrderOps
  <2>1. FilterCompare(Null, v, s[1]) = Null
    BY DEF FilterCompare, OnColumn
  <2>2. Condition(s, Null, v) = Null
    <3>1. s # <<>> /\ s # <<"not">>
      BY <1>4, OneOperation
    <3>. QED  BY <1>4, <2>1, <3>1, OneOperation DEF Condition
  <2>. QED  BY <1>2, <2>2
<1>5. CASE s \in {<<"in">>, <<"not", "in">>}
  <2>1. IsListOp(s) /\ s \notin {<<>>, <<"not">>} /\ s \notin OrderOps
    BY <1>5 DEF IsListOp, OrderOps
  <2>2. Condition(s, Null, v) = InArray(Null, v.v, Negated(s))
    BY <2>1, OneOperation DEF Condition
  <2>3. CASE v.v = {}
    <3>1. InArray(Null, v.v, Negated(s)) = FALSE
      BY <2>3 DEF InArray
    <3>. QED  BY <1>2, <2>2, <3>1
  <2>4. CASE v.v # {}
    <3>1. {w.v : w \in {w \in v.v : w.kind # "null"}} # {} /\ ~\E w \in v.v : w.kind = "null"
      BY <2>1, <2>4
    <3>2. InArray(Null, v.v, Negated(s)) = Null
      BY <2>4, <3>1 DEF InArray, OnColumn
    <3>. QED  BY <1>2, <2>2, <3>2
  <2>. QED  BY <2>3, <2>4
<1>6. CASE s \in ContainsOps
  <2>1. Condition(s, Null, v) = OnColumn(Null, FilterContains(Null, v, Negated(s)))
    <3>1. s # <<>> /\ s # <<"not">> /\ s \notin OrderOps
      BY <1>6, OneOperation
    <3>. QED  BY <1>6, <3>1, OneOperation DEF Condition
  <2>. QED  BY <1>1, <1>2, <2>1
<1>7. CASE s \in StartsOps \cup EndsOps
  <2>1. Condition(s, Null, v) = StartsOrEndsWith(Null, v, Negated(s), "starts" \in ToSet(s))
    BY <1>7, OneOperation DEF Condition
  <2>2. StartsOrEndsWith(Null, v, Negated(s), "starts" \in ToSet(s)) = Null
    BY DEF StartsOrEndsWith, OnColumn
  <2>. QED  BY <1>2, <2>1, <2>2
<1>. QED  BY <1>3, <1>4, <1>5, <1>6, <1>7

-----------------------------------------------------------------------------
(* The invariant *)

ErrorOf(c) == IF IsListOp(c.suffix) THEN ListError(c.value) ELSE "none"

OutcomeOf(c) ==
    CASE ErrorOf(c) # "none" -> ErrorOf(c)
      [] ErrorOf(c) = "none" /\ c.value.kind \notin SupportedKinds(c.suffix) -> "UnsupportedFilter"
      [] OTHER -> Outcome(Condition(c.suffix, c.column, c.value))

FilterInv ==
    /\ fcase \in FilterCases /\ fcase.suffix \in OfferedSuffixes(fcase.type)
    /\ ffilter \in {<<>>, <<[suffix |-> fcase.suffix, error |-> ErrorOf(fcase)]>>}
    /\ foutcome # "none" => foutcome = OutcomeOf(fcase)

\* A list whose values are of one kind has nulls only or none.
LEMMA OneKind ==
    ASSUME NEW v, NEW k, IsListOf(v, {"null", k}), ListError(v) = "none"
    PROVE  (\A w \in v.v : w.kind = "null") \/ (\A w \in v.v : w.kind # "null")
<1>. SUFFICES ASSUME NEW w \in v.v, NEW x \in v.v, w.kind = "null", x.kind # "null"
              PROVE  FALSE
  OBVIOUS
<1>. DEFINE K == {u.kind : u \in v.v}
<1>1. x.kind = k /\ K = {"null", k} /\ k # "null"
  BY DEF IsListOf
<1>2. IsFiniteSet({"null"}) /\ Cardinality({"null"}) = 1
  BY FS_Singleton
<1>3. Cardinality({"null"} \cup {k}) = 2
  BY <1>1, <1>2, FS_AddElement, SMTT(30)
<1>4. K = {"null"} \cup {k}
  BY <1>1
<1>5. Cardinality(K) = 2
  BY <1>3, <1>4, ZenonT(30)
<1>. QED  BY <1>5 DEF ListError, IsListOf

\* A filter that is not refused for null is supported, unless its list mixes kinds.
LEMMA RefusedOnlyNull ==
    ASSUME NEW c, FilterCase(c), c.suffix \in OfferedSuffixes(c.type),
           OutcomeOf(c) \notin {"true", "false", "null"}
    PROVE  \/ OutcomeOf(c) \in {"UnsupportedFilter", "ListFilterError"} /\ c.value.kind = "null"
           \/ OutcomeOf(c) = "ListTypesError"
<1>1. \A x : Outcome(x) \in {"true", "false", "null"}
  BY DEF Outcome
<1>2. CASE ErrorOf(c) # "none"
  <2>1. IsListOp(c.suffix) /\ OutcomeOf(c) = ListError(c.value) /\ ListError(c.value) # "none"
    BY <1>2 DEF OutcomeOf, ErrorOf
  <2>2. c.value.kind # "null" => c.value.kind = "list"
    BY <2>1 DEF FilterCase, IsListOf
  <2>. QED  BY <2>1, <2>2 DEF ListError
<1>3. CASE ErrorOf(c) = "none" /\ c.value.kind \notin SupportedKinds(c.suffix)
  <2>1. OutcomeOf(c) = "UnsupportedFilter"
    BY <1>3 DEF OutcomeOf
  <2>2. ASSUME c.value.kind # "null"
        PROVE  FALSE
    <3>1. c.type \in FieldTypes
      BY DEF FilterCase
    <3>2. PICK s, k : s = c.suffix /\ k = KindOf(c.type)
      OBVIOUS
    <3>3. /\ s \in {<<>>, <<"not">>} \cup OrderOps \cup {<<"in">>, <<"not", "in">>}
                    \cup ContainsOps \cup StartsOps \cup EndsOps
          /\ k \in ScalarKinds \cup {"list"} /\ (k = "list" <=> c.type = "List")
          /\ s \in OrderOps => k \in {"text", "number"}
          /\ s \in ContainsOps => k \in {"text", "bytes", "list"}
          /\ s \in StartsOps \cup EndsOps => k = "text"
          /\ IsListOp(s) => c.type # "List"
      BY <3>1, <3>2, OfferedFor
    <3>4. c.value.kind = IF IsListOp(s) THEN "list" ELSE k
      BY <2>2, <3>2, <3>3 DEF FilterCase, IsListOf
    <3>5. CASE s \in {<<>>, <<"not">>, <<"in">>, <<"not", "in">>}
      <4>1. SupportedKinds(s) = {"null", "text", "number", "bool", "bytes", "list"}
        BY <3>5, SMTT(30) DEF SupportedKinds, OrderOps, ContainsOps
      <4>. QED  BY <1>3, <3>2, <3>3, <3>4, <4>1 DEF ScalarKinds
    <3>6. CASE s \in OrderOps
      <4>1. SupportedKinds(s) = {"text", "number"} /\ ~IsListOp(s)
        BY <3>6 DEF SupportedKinds, OrderOps, ContainsOps, IsListOp
      <4>. QED  BY <1>3, <3>2, <3>3, <3>4, <3>6, <4>1
    <3>7. CASE s \in ContainsOps
      <4>1. SupportedKinds(s) = {"text", "bytes", "list"} /\ ~IsListOp(s)
        BY <3>7 DEF SupportedKinds, OrderOps, ContainsOps, IsListOp
      <4>. QED  BY <1>3, <3>2, <3>3, <3>4, <3>7, <4>1
    <3>8. CASE s \in StartsOps \cup EndsOps
      <4>1. SupportedKinds(s) = {"text"} /\ ~IsListOp(s)
        <5>1. s \notin {<<>>, <<"not">>, <<"in">>, <<"not", "in">>}
              /\ s \notin OrderOps /\ s \notin ContainsOps
          BY <3>8, OneOperation DEF IsListOp
        <5>. QED  BY <5>1 DEF SupportedKinds, IsListOp
      <4>. QED  BY <1>3, <3>2, <3>3, <3>4, <3>8, <4>1
    <3>. QED  BY <3>3, <3>5, <3>6, <3>7, <3>8
  <2>. QED  BY <2>1, <2>2
<1>4. CASE ErrorOf(c) = "none" /\ c.value.kind \in SupportedKinds(c.suffix)
  <2>1. OutcomeOf(c) = Outcome(Condition(c.suffix, c.column, c.value))
    BY <1>4 DEF OutcomeOf
  <2>. QED  BY <1>1, <2>1
<1>. QED  BY <1>2, <1>3, <1>4

\* What is computed is what the name of the filter says.
LEMMA ComputedRight ==
    ASSUME NEW c, FilterCase(c), c.suffix \in OfferedSuffixes(c.type),
           OutcomeOf(c) \in {"true", "false", "null"}, c.column # Null,
           ~Deviates(c.suffix, c.value), Plain(c.value)
    PROVE  OutcomeOf(c) = Outcome(Meaning(c.suffix, c.column, c.value))
<1>1. ErrorOf(c) = "none" /\ c.value.kind \in SupportedKinds(c.suffix)
  BY DEF OutcomeOf, ErrorOf, ListError
<1>2. OutcomeOf(c) = Outcome(Condition(c.suffix, c.column, c.value))
  BY <1>1 DEF OutcomeOf
<1>3. PICK s, k, v, col : s = c.suffix /\ k = KindOf(c.type) /\ v = c.value /\ col = c.column
  OBVIOUS
<1>4. /\ s \in {<<>>, <<"not">>} \cup OrderOps \cup {<<"in">>, <<"not", "in">>}
               \cup ContainsOps \cup StartsOps \cup EndsOps
      /\ k \in ScalarKinds \cup {"list"} /\ (k = "list" <=> c.type = "List")
      /\ s \in OrderOps => k \in {"text", "number"}
      /\ s \in ContainsOps => k \in {"text", "bytes", "list"}
      /\ s \in StartsOps \cup EndsOps => k = "text"
      /\ IsListOp(s) => c.type # "List"
  BY <1>3, OfferedFor DEF FilterCase
<1>5. /\ col # Null /\ Holds(k, col)
      /\ IsListOp(s) => v.kind = "null" \/ IsListOf(v, {"null", k})
      /\ ~IsListOp(s) /\ k = "list" => v.kind = "null" \/ IsListOf(v, ScalarKinds)
      /\ ~IsListOp(s) /\ k # "list" => v.kind = "null" \/ (v.kind = k /\ Holds(k, v.v))
  <2>1. Holds(k, col) /\ col # Null
    BY <1>3 DEF FilterCase
  <2>2. \/ v.kind = "null"
        \/ IsListOp(s) /\ IsListOf(v, {"null", k})
        \/ ~IsListOp(s) /\ c.type = "List" /\ IsListOf(v, ScalarKinds)
        \/ ~IsListOp(s) /\ c.type # "List" /\ v.kind = k /\ Holds(k, v.v)
    BY <1>3 DEF FilterCase
  <2>. QED  BY <1>4, <2>1, <2>2
<1>6. v.kind = "text" /\ v.v \in Seq(Nat) => PlainText(v.v)
  <2>1. ASSUME v.kind = "text", v.v \in Seq(Nat), NEW j \in 1..Len(v.v)
        PROVE  v.v[j] # Wildcard
    <3>1. j \in DOMAIN v.v
      BY <2>1
    <3>. QED  BY <1>3, <2>1, <3>1 DEF Plain, ToSet
  <2>. QED  BY <2>1 DEF PlainText
<1>7. k = "text" => col \in Seq(Nat)
  BY <1>5 DEF Holds
<1>8. k = "text" /\ v.kind = k /\ Holds(k, v.v) => v.v \in Seq(Nat)
  BY DEF Holds
<1>9. IsListOf(v, ScalarKinds) => v.kind = "list" /\ \A w \in v.v : w.kind # "null"
  BY DEF IsListOf, ScalarKinds
<1>10. CASE s \in {<<>>, <<"not">>}
  <2>1. ~IsListOp(s)
    BY <1>10, OneOperation
  <2>2. \/ v.kind = "text" /\ col \in Seq(Nat) /\ v.v \in Seq(Nat)
        \/ v.kind = "list" /\ \A w \in v.v : w.kind # "null"
        \/ v.kind \in {"null", "number", "bool", "bytes"}
    BY <1>4, <1>5, <1>7, <1>8, <1>9, <2>1 DEF ScalarKinds
  <2>3. Outcome(Condition(s, col, v)) = Outcome(Meaning(s, col, v))
    BY <1>5, <1>10, <2>2, EqualsExact
  <2>. QED  BY <1>2, <1>3, <2>3
<1>11. CASE s \in OrderOps
  <2>1. PICK op \in {"gt", "lt", "gte", "lte"} : s = <<op>>
    BY <1>11 DEF OrderOps
  <2>2. ~IsListOp(s) /\ v.kind \in {"text", "number"}
    BY <1>1, <1>3, <1>11, OneOperation DEF SupportedKinds, OrderOps
  <2>3. \/ v.kind = "text" /\ col \in Seq(Nat) /\ v.v \in Seq(Nat)
        \/ v.kind = "number"
    BY <1>4, <1>5, <1>7, <1>8, <1>11, <2>2
  <2>4. Outcome(Condition(<<op>>, col, v)) = Outcome(Meaning(<<op>>, col, v))
    BY <1>5, <2>3, OrderExact
  <2>. QED  BY <1>2, <1>3, <2>1, <2>4
<1>12. CASE s \in {<<"in">>, <<"not", "in">>}
  <2>1. IsListOp(s) /\ v.kind = "list" /\ ListError(v) = "none"
    BY <1>1, <1>3, <1>12 DEF IsListOp, ErrorOf, ListError
  <2>2. IsListOf(v, {"null", k}) /\ k # "list"
    BY <1>4, <1>5, <2>1
  <2>3. \/ \A w \in v.v : w.kind = "null"
        \/ \A w \in v.v : /\ w.kind # "null"
                          /\ w.kind = "text" => col \in Seq(Nat) /\ w.v \in Seq(Nat)
    <3>1. \A w \in v.v : w.kind = "text" => w.kind = k /\ Holds("text", w.v)
      BY <2>2 DEF IsListOf
    <3>2. \A w \in v.v : w.kind = "text" => col \in Seq(Nat) /\ w.v \in Seq(Nat)
      BY <1>7, <3>1 DEF Holds
    <3>3. (\A w \in v.v : w.kind = "null") \/ (\A w \in v.v : w.kind # "null")
      BY <2>1, <2>2, OneKind
    <3>. QED  BY <3>2, <3>3
  <2>4. s = <<"not", "in">> => v.v # {}
    BY <1>3 DEF Deviates
  <2>5. Outcome(Condition(s, col, v)) = Outcome(Meaning(s, col, v))
    BY <1>5, <1>12, <2>3, <2>4, InExact
  <2>. QED  BY <1>2, <1>3, <2>5
<1>13. CASE s \in ContainsOps
  <2>1. ~IsListOp(s) /\ v.kind # "null"
    BY <1>1, <1>3, <1>13, OneOperation DEF SupportedKinds, OrderOps, ContainsOps
  <2>2. CASE k = "list"
    <3>1. v.kind = "list" /\ s = <<"contains">> /\ \A w \in v.v : w.kind # "null"
      BY <1>3, <1>5, <1>9, <1>13, <2>1, <2>2 DEF Deviates, ContainsOps
    <3>2. Outcome(Condition(s, col, v)) = Outcome(Meaning(s, col, v))
      BY <1>5, <1>13, <3>1, ContainsExact DEF ContainsOps
    <3>. QED  BY <1>2, <1>3, <3>2
  <2>3. CASE k # "list"
    <3>1. \/ /\ v.kind = "text" /\ col \in Seq(Nat) /\ v.v \in Seq(Nat) /\ PlainText(v.v)
          \/ v.kind = "bytes"
      BY <1>4, <1>5, <1>6, <1>7, <1>8, <1>13, <2>1, <2>3
    <3>2. s \in {<<"contains">>, <<"not", "contains">>}
      BY <1>13 DEF ContainsOps
    <3>3. Outcome(Condition(s, col, v)) = Outcome(Meaning(s, col, v))
      BY <1>5, <3>1, <3>2, ContainsExact
    <3>. QED  BY <1>2, <1>3, <3>3
  <2>. QED  BY <2>2, <2>3
<1>14. CASE s \in StartsOps \cup EndsOps
  <2>1. ~IsListOp(s) /\ v.kind # "null"
    BY <1>1, <1>3, <1>14, OneOperation DEF SupportedKinds, OrderOps, ContainsOps, StartsOps, EndsOps
  <2>2. k = "text" /\ v.kind = "text" /\ col \in Seq(Nat) /\ v.v \in Seq(Nat) /\ PlainText(v.v)
    BY <1>4, <1>5, <1>6, <1>7, <1>8, <1>14, <2>1
  <2>3. CASE s \in StartsOps
    BY <1>2, <1>3, <1>5, <2>2, <2>3, StartsExact DEF StartsOps
  <2>4. CASE s \in EndsOps
    BY <1>2, <1>3, <1>5, <2>2, <2>4, EndsExact DEF EndsOps
  <2>. QED  BY <1>14, <2>3, <2>4
<1>. QED  BY <1>4, <1>10, <1>11, <1>12, <1>13, <1>14

LEMMA FilterInvInit == FilterInit => FilterInv
BY DEF FilterInit, FilterInv

LEMMA FilterInvStep ==
    ASSUME \A c \in FilterCases : PlainName(c.name), FilterInv, [FilterNext]_filterVars
    PROVE  FilterInv'
<1>1. CASE BuildFilter
  <2>1. FilterCase(fcase) /\ PlainName(fcase.name)
    BY CaseAssumption DEF FilterInv
  <2>2. fcase.suffix \in AllSuffixes
    BY <2>1, OfferedFor, OfferedAreRead DEF FilterInv, FilterCase
  <2>3. ParseFieldAsFilter(fcase.name \o fcase.suffix) = [name |-> fcase.name, suffix |-> fcase.suffix]
    BY <2>1, <2>2, KeysReadBack DEF FilterCase
  <2>4. ffilter' = <<[suffix |-> fcase.suffix, error |-> ErrorOf(fcase)]>>
    BY <1>1, <2>3 DEF BuildFilter, ErrorOf
  <2>. QED  BY <1>1, <2>4 DEF BuildFilter, FilterInv
<1>2. CASE ApplyFilter
  <2>1. ffilter = <<[suffix |-> fcase.suffix, error |-> ErrorOf(fcase)]>>
    BY <1>2 DEF ApplyFilter, FilterInv
  <2>2. ffilter[1].suffix = fcase.suffix /\ ffilter[1].error = ErrorOf(fcase)
    BY <2>1
  <2>3. foutcome' = OutcomeOf(fcase)
    BY <1>2, <2>2 DEF ApplyFilter, OutcomeOf
  <2>. QED  BY <1>2, <2>3 DEF ApplyFilter, FilterInv
<1>3. CASE UNCHANGED filterVars
  BY <1>3 DEF filterVars, FilterInv
<1>. QED  BY <1>1, <1>2, <1>3 DEF FilterNext

PlainNames == \A c \in FilterCases : PlainName(c.name)

\* For fields of any type, names that do not end in a word of an operator, and
\* any values and columns: every filter that the API offers is read back as the
\* field and operation it was made of and accepted unless its value is null or
\* mixes kinds, and the condition over prefixes, patterns and arrays that is
\* made of it selects what the name of the filter says.
THEOREM FiltersAlwaysRight ==
    PlainNames => (FilterSpec => []FiltersRight)
<1>. SUFFICES ASSUME PlainNames
              PROVE  FilterSpec => []FiltersRight
  OBVIOUS
<1>1. FilterInv => FiltersRight
  <2>. SUFFICES ASSUME FilterInv
                PROVE  FiltersRight
    OBVIOUS
  <2>1. FilterCase(fcase) /\ fcase.suffix \in OfferedSuffixes(fcase.type)
    BY CaseAssumption DEF FilterInv
  <2>2. foutcome = "none" \/ foutcome = OutcomeOf(fcase)
    BY DEF FilterInv
  <2>3. FilterMeansItsName
    <3>. SUFFICES ASSUME Computed
                  PROVE  IF fcase.column = Null
                         THEN foutcome = "true" =>
                                 \/ fcase.value.kind = "null"
                                 \/ IsListOp(fcase.suffix) /\ \E v \in fcase.value.v : v.kind = "null"
                         ELSE ~Deviates(fcase.suffix, fcase.value) /\ Plain(fcase.value) =>
                                 foutcome = Outcome(Meaning(fcase.suffix, fcase.column, fcase.value))
      BY DEF FilterMeansItsName
    <3>1. foutcome = OutcomeOf(fcase) /\ OutcomeOf(fcase) \in {"true", "false", "null"}
      BY <2>2 DEF Computed
    <3>2. CASE fcase.column = Null
      <4>. SUFFICES ASSUME foutcome = "true", fcase.value.kind # "null",
                           ~(IsListOp(fcase.suffix) /\ \E v \in fcase.value.v : v.kind = "null")
                    PROVE  FALSE
        BY <3>2
      <4>1. ErrorOf(fcase) = "none" /\ fcase.value.kind \in SupportedKinds(fcase.suffix)
        BY <3>1 DEF OutcomeOf, ErrorOf, ListError
      <4>2. Outcome(Condition(fcase.suffix, Null, fcase.value)) = "true"
        BY <3>1, <3>2, <4>1 DEF OutcomeOf
      <4>3. fcase.suffix \in {<<>>, <<"not">>} \cup OrderOps \cup {<<"in">>, <<"not", "in">>}
                               \cup ContainsOps \cup StartsOps \cup EndsOps
        BY <2>1, OfferedFor DEF FilterCase
      <4>. QED  BY <4>2, <4>3, NullColumn
    <3>3. CASE fcase.column # Null
      BY <2>1, <3>1, <3>3, ComputedRight
    <3>. QED  BY <3>2, <3>3
  <2>4. OfferedFiltersWork
    <3>1. ffilter # <<>> => ffilter[1].suffix = fcase.suffix
      BY DEF FilterInv
    <3>2. ASSUME foutcome # "none", ~Computed
          PROVE  \/ foutcome \in {"UnsupportedFilter", "ListFilterError"} /\ fcase.value.kind = "null"
                 \/ foutcome = "ListTypesError"
      <4>1. foutcome = OutcomeOf(fcase) /\ OutcomeOf(fcase) \notin {"true", "false", "null"}
        BY <2>2, <3>2 DEF Computed
      <4>. QED  BY <2>1, <4>1, RefusedOnlyNull
    <3>. QED  BY <3>1, <3>2 DEF OfferedFiltersWork
  <2>. QED  BY <2>3, <2>4 DEF FiltersRight
<1>2. FilterInv /\ [FilterNext]_filterVars => FilterInv'
  BY FilterInvStep DEF PlainNames
<1>. QED  BY <1>1, <1>2, FilterInvInit, PTL DEF FilterSpec
=============================================================================
