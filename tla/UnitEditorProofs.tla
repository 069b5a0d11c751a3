---------------------------- MODULE UnitEditorProofs ----------------------------
(***************************************************************************)
(* For any number of tabs, units and rows: a chain of requests that breaks  *)
(* off between its deletions and its creations never passes for a save.    *)
(***************************************************************************)
EXTENDS UnitEditor, SequenceTheorems, TLAPS

Kinds  == Seq(STRING)
RowId  == Nat \X Nat
Row    == [id: RowId, kind: STRING]
Stores == [live: SUBSET Nat, made: Nat, costs: Seq(Seq(Row))]
Saves  == [at: {"idle", "create", "patch", "list", "rows"}, unit: Nat \cup {None},
           todo: Seq(RowId), left: Kinds, all: Kinds, new: BOOLEAN]
Forms  == [open: BOOLEAN, unit: Nat \cup {None}, rows: Kinds]

EditorTyped ==
    /\ store \in Stores /\ store.live \subseteq Units
    /\ meant \in Seq(Kinds) /\ Len(meant) = Len(store.costs)
    /\ form \in [Editors -> Forms]
    /\ \A d \in Editors : form[d].unit \in Units \cup {None}
    /\ saving \in [Editors -> Saves]
    /\ \A d \in Editors :
          /\ saving[d].unit \in Units \cup {None}
          /\ saving[d].at \in {"idle", "create"} <=> saving[d].unit = None
          /\ saving[d].at = "idle" => saving[d] = NoSave

\* The rows of a unit have ids of their own, and the next id is not taken.
OwnIds ==
    \A u \in Units : \A i \in DOMAIN store.costs[u] :
        /\ store.costs[u][i].id[1] = 0 => store.costs[u][i].id[2] <= store.made
        /\ \A j \in DOMAIN store.costs[u] : store.costs[u][i].id = store.costs[u][j].id => i = j

\* Of a unit that no two tabs save at a time one chain is under way at most.
OneSave ==
    \A d, e \in Editors :
        saving[d].unit # None /\ saving[d].unit \notin savedTwice /\ saving[e].unit = saving[d].unit
        => d = e

\* Before it has the rows, a chain has nothing to delete and all to create; then it deletes
\* the rows there are, from the first on; and then what is stored and what is left make up
\* what was in the form.
OnCourse(s) ==
    /\ s.at \in {"create", "patch", "list"} => s.todo = <<>> /\ s.left = s.all
    /\ s.at = "rows" /\ s.unit \notin savedTwice =>
          IF s.todo # <<>> THEN s.todo = RowIds(store.costs[s.unit]) /\ s.left = s.all
                           ELSE RowKinds(store.costs[s.unit]) \o s.left = s.all

ChainsOnCourse == \A d \in Editors : OnCourse(saving[d])

Unspoiled == EditorTyped /\ OwnIds /\ OneSave /\ ChainsOnCourse /\ NoSilentLoss

-------------------------------------------------------------------------------
\* What is taken out of a sequence of rows, and put at its end.
LEMMA RowTaken ==
    ASSUME NEW S, NEW rows \in Seq(S), NEW i \in DOMAIN rows
    PROVE  /\ RemoveAt(rows, i) \in Seq(S)
           /\ DOMAIN RemoveAt(rows, i) = 1 .. (Len(rows) - 1)
           /\ \A j \in 1 .. (Len(rows) - 1) :
                 RemoveAt(rows, i)[j] = IF j < i THEN rows[j] ELSE rows[j + 1]
<1>1. /\ i \in 1 .. Len(rows) /\ Len(rows) \in Nat /\ i - 1 \in Int /\ i + 1 \in Int
      /\ \A j \in 1 .. Len(rows) : rows[j] \in S
  OBVIOUS
<1> DEFINE before == SubSeq(rows, 1, i - 1)
           after  == SubSeq(rows, i + 1, Len(rows))
<1>2. /\ before \in Seq(S) /\ Len(before) = i - 1
      /\ \A j \in 1 .. (i - 1) : before[j] = rows[j]
  BY <1>1
<1>3. /\ after \in Seq(S) /\ Len(after) = Len(rows) - i
      /\ \A j \in 1 .. (Len(rows) - i) : after[j] = rows[i + j]
  BY <1>1
<1> HIDE DEF before, after
<1> DEFINE both == before \o after
<1>4. /\ both \in Seq(S) /\ Len(both) = Len(rows) - 1
      /\ \A j \in 1 .. (Len(rows) - 1) : both[j] = IF j < i THEN before[j] ELSE after[j - (i - 1)]
  <2>1. /\ both \in Seq(S) /\ Len(both) = Len(before) + Len(after)
        /\ \A j \in 1 .. Len(before) + Len(after) :
              both[j] = IF j <= Len(before) THEN before[j] ELSE after[j - Len(before)]
    <3>1. before \in Seq(S) /\ after \in Seq(S)
      BY <1>2, <1>3
    <3>2. QED
      BY <3>1, ConcatProperties
  <2> HIDE DEF both
  <2>2. Len(before) + Len(after) = Len(rows) - 1
    BY <1>1, <1>2, <1>3
  <2>3. \A j \in 1 .. (Len(rows) - 1) : j <= i - 1 <=> j < i
    BY <1>1
  <2>4. QED
    BY <1>2, <2>1, <2>2, <2>3
<1> HIDE DEF both
<1>5. ASSUME NEW j \in 1 .. (Len(rows) - 1)
      PROVE  both[j] = IF j < i THEN rows[j] ELSE rows[j + 1]
  <2>1. CASE j < i
    BY <1>1, <1>2, <1>4, <2>1
  <2>2. CASE ~(j < i)
    <3>1. j - (i - 1) \in 1 .. (Len(rows) - i) /\ i + (j - (i - 1)) = j + 1
      BY <1>1, <2>2
    <3>2. both[j] = after[j - (i - 1)]
      BY <1>4, <2>2
    <3>3. after[j - (i - 1)] = rows[i + (j - (i - 1))]
      BY <1>3, <3>1
    <3>4. QED
      BY <2>2, <3>1, <3>2, <3>3
  <2>3. QED
    BY <2>1, <2>2
<1>6. RemoveAt(rows, i) = both
  BY DEF RemoveAt, before, after, both
<1>7. DOMAIN both = 1 .. (Len(rows) - 1)
  BY <1>1, <1>4
<1>8. QED
  BY <1>4, <1>5, <1>6, <1>7

LEMMA FirstTaken ==
    ASSUME NEW rows \in Seq(Row), rows # <<>>,
           \A i, j \in DOMAIN rows : rows[i].id = rows[j].id => i = j
    PROVE  /\ RowAt(rows, Head(RowIds(rows))) = 1
           /\ RowIds(RemoveAt(rows, 1)) = Tail(RowIds(rows))
<1>1. 1 \in DOMAIN rows /\ RowIds(rows)[1] = rows[1].id /\ Len(rows) \in Nat \ {0}
  BY DEF RowIds
<1>2. RowIds(rows) \in Seq(RowId) /\ Len(RowIds(rows)) = Len(rows)
  <2>1. \A i \in 1 .. Len(rows) : rows[i] \in Row
    OBVIOUS
  <2>2. \A i \in 1 .. Len(rows) : rows[i].id \in RowId
    BY <2>1 DEF Row
  <2>3. QED
    BY <2>2 DEF RowIds
<1>3. Head(RowIds(rows)) = rows[1].id
  BY <1>1, <1>2
<1>4. RowAt(rows, rows[1].id) = 1
  BY <1>1 DEF RowAt
<1>5. /\ RemoveAt(rows, 1) \in Seq(Row) /\ DOMAIN RemoveAt(rows, 1) = 1 .. (Len(rows) - 1)
      /\ \A j \in 1 .. (Len(rows) - 1) : RemoveAt(rows, 1)[j] = rows[j + 1]
  BY <1>1, RowTaken
<1>6. /\ Tail(RowIds(rows)) \in Seq(RowId) /\ Len(Tail(RowIds(rows))) = Len(rows) - 1
      /\ \A j \in 1 .. (Len(rows) - 1) : Tail(RowIds(rows))[j] = RowIds(rows)[j + 1]
  BY <1>1, <1>2
<1>7. \A j \in 1 .. (Len(rows) - 1) : RowIds(rows)[j + 1] = rows[j + 1].id
  BY <1>1 DEF RowIds
<1>8. RowIds(RemoveAt(rows, 1)) = [j \in 1 .. (Len(rows) - 1) |-> rows[j + 1].id]
  BY <1>5 DEF RowIds
<1>9. Tail(RowIds(rows)) = [j \in 1 .. (Len(rows) - 1) |-> rows[j + 1].id]
  <2> DEFINE tail == Tail(RowIds(rows))
  <2>1. tail = [j \in 1 .. Len(tail) |-> tail[j]]
    <3>1. tail \in Seq(RowId)
      BY <1>6
    <3> HIDE DEF tail
    <3>2. QED
      BY <3>1
  <2>2. /\ Len(tail) = Len(rows) - 1
        /\ \A j \in 1 .. (Len(rows) - 1) : tail[j] = rows[j + 1].id
    BY <1>6, <1>7
  <2> HIDE DEF tail
  <2>3. tail = [j \in 1 .. (Len(rows) - 1) |-> rows[j + 1].id]
    BY <2>1, <2>2
  <2>4. QED
    BY <2>3 DEF tail
<1>10. QED
  BY <1>3, <1>4, <1>8, <1>9

LEMMA RowAdded ==
    ASSUME NEW rows \in Seq(Row), NEW row \in Row
    PROVE  /\ Append(rows, row) \in Seq(Row)
           /\ RowKinds(Append(rows, row)) = Append(RowKinds(rows), row.kind)
           /\ RowKinds(rows) \in Kinds
<1>1. /\ Append(rows, row) \in Seq(Row) /\ DOMAIN Append(rows, row) = 1 .. (Len(rows) + 1)
      /\ Append(rows, row)[Len(rows) + 1] = row
      /\ \A i \in 1 .. Len(rows) : Append(rows, row)[i] = rows[i]
  OBVIOUS
<1>2. RowKinds(rows) \in Kinds /\ Len(RowKinds(rows)) = Len(rows)
  <2>1. \A i \in 1 .. Len(rows) : rows[i] \in Row
    OBVIOUS
  <2>2. \A i \in 1 .. Len(rows) : rows[i].kind \in STRING
    BY <2>1 DEF Row
  <2>3. QED
    BY <2>2 DEF RowKinds, Kinds
<1>3. /\ DOMAIN Append(RowKinds(rows), row.kind) = 1 .. (Len(rows) + 1)
      /\ Append(RowKinds(rows), row.kind)[Len(rows) + 1] = row.kind
      /\ \A i \in 1 .. Len(rows) : Append(RowKinds(rows), row.kind)[i] = rows[i].kind
  BY <1>2 DEF Row, RowKinds, Kinds
<1>4. RowKinds(Append(rows, row)) =
         [i \in 1 .. (Len(rows) + 1) |-> IF i = Len(rows) + 1 THEN row.kind ELSE rows[i].kind]
  BY <1>1 DEF RowKinds
<1>5. Append(RowKinds(rows), row.kind) =
         [i \in 1 .. (Len(rows) + 1) |-> IF i = Len(rows) + 1 THEN row.kind ELSE rows[i].kind]
  BY <1>3
<1>6. QED
  BY <1>1, <1>2, <1>4, <1>5

LEMMA KindMoved ==
    ASSUME NEW S, NEW stored \in Seq(S), NEW left \in Seq(S), left # <<>>
    PROVE  Append(stored, Head(left)) \o Tail(left) = stored \o left
<1>1. Head(left) \in S /\ Tail(left) \in Seq(S) /\ <<Head(left)>> \in Seq(S)
  BY HeadTailProperties
<1>2. Append(stored, Head(left)) = stored \o <<Head(left)>>
  BY <1>1, AppendIsConcat
<1>3. <<Head(left)>> \o Tail(left) = left
  <2> DEFINE one  == <<Head(left)>>
             tail == Tail(left)
  <2>1. /\ one \in Seq(S) /\ Len(one) = 1 /\ one[1] = left[1]
        /\ tail \in Seq(S) /\ Len(tail) = Len(left) - 1
        /\ \A i \in 1 .. (Len(left) - 1) : tail[i] = left[i + 1]
        /\ Len(left) \in Nat \ {0}
    BY <1>1, HeadTailProperties
  <2> HIDE DEF one, tail
  <2> DEFINE both == one \o tail
  <2>2. /\ both \in Seq(S) /\ Len(both) = Len(one) + Len(tail)
        /\ \A i \in 1 .. Len(one) + Len(tail) :
              both[i] = IF i <= Len(one) THEN one[i] ELSE tail[i - Len(one)]
    <3>1. one \in Seq(S) /\ tail \in Seq(S)
      BY <2>1
    <3>2. QED
      BY <3>1, ConcatProperties
  <2> HIDE DEF both
  <2>3. Len(both) = Len(left) /\ \A i \in 1 .. Len(left) : both[i] = left[i]
    BY <2>1, <2>2
  <2>4. both = left
    BY <2>2, <2>3, SeqEqual
  <2>5. QED
    BY <2>4 DEF one, tail, both
<1>4. (stored \o <<Head(left)>>) \o Tail(left) = stored \o (<<Head(left)>> \o Tail(left))
  BY <1>1, ConcatAssociative
<1>5. QED
  BY <1>2, <1>3, <1>4

-------------------------------------------------------------------------------
\* What a request that is answered, or whose answer is lost, has done to the back end: it
\* touches the rows of the unit that is saved, or creates a unit without any.

StoresUnit(d) ==
    /\ store' \in Stores /\ store'.live \subseteq Units' /\ Units \subseteq Units'
    /\ meant' \in Seq(Kinds) /\ Len(meant') = Len(store'.costs)
    /\ OwnIds'
    /\ \A u \in Units \ {saving[d].unit} : store'.costs[u] = store.costs[u]
    /\ \A u \in Units : meant'[u] = meant[u]
    /\ \A u \in Units' \ Units : store'.costs[u] = <<>> /\ meant'[u] = <<>>
    /\ store'.live \cap Units \subseteq store.live

\* Rows that take the place of a unit's.
LEMMA RowsReplaced ==
    ASSUME EditorTyped, OwnIds, NEW d \in Editors, saving[d].unit \in Units,
           NEW rows \in Seq(Row), NEW made \in Nat, store.made <= made,
           \A i \in DOMAIN rows :
              /\ rows[i].id[1] = 0 => rows[i].id[2] <= made
              /\ \A j \in DOMAIN rows : rows[i].id = rows[j].id => i = j,
           UNCHANGED meant, store'.live = store.live, store'.made = made, store' \in Stores,
           store'.costs = [store.costs EXCEPT ![saving[d].unit] = rows]
    PROVE  StoresUnit(d) /\ store'.costs[saving[d].unit] = rows
<1> DEFINE u == saving[d].unit
<1>1. /\ store.costs \in Seq(Seq(Row)) /\ u \in DOMAIN store.costs /\ Units = DOMAIN store.costs
      /\ Len(meant) = Len(store.costs) /\ meant \in Seq(Kinds) /\ store.live \subseteq Units
      /\ store.made \in Nat
  BY DEF EditorTyped, Stores, Units
<1>2. /\ Units' = Units /\ Len(store'.costs) = Len(store.costs) /\ store'.costs[u] = rows
      /\ \A w \in Units \ {u} : store'.costs[w] = store.costs[w]
  BY <1>1 DEF Units
<1>3. OwnIds'
  <2> SUFFICES ASSUME NEW w \in Units, NEW i \in DOMAIN store'.costs[w]
               PROVE  /\ store'.costs[w][i].id[1] = 0 => store'.costs[w][i].id[2] <= made
                      /\ \A j \in DOMAIN store'.costs[w] :
                            store'.costs[w][i].id = store'.costs[w][j].id => i = j
    BY <1>2 DEF OwnIds
  <2>1. CASE w = u
    BY <1>2, <2>1
  <2>2. CASE w # u
    <3>1. store'.costs[w] = store.costs[w] /\ store.costs[w] \in Seq(Row)
      BY <1>1, <1>2, <2>2
    <3>2. store.costs[w][i] \in Row
      BY <3>1
    <3>3. store.costs[w][i].id[2] \in Nat
      BY <3>2 DEF Row, RowId
    <3>4. store.costs[w][i].id[1] = 0 => store.costs[w][i].id[2] <= store.made
      BY <3>1 DEF OwnIds
    <3>5. \A j \in DOMAIN store.costs[w] : store.costs[w][i].id = store.costs[w][j].id => i = j
      BY <3>1 DEF OwnIds
    <3>6. QED
      BY <1>1, <3>1, <3>3, <3>4, <3>5
  <2>3. QED
    BY <2>1, <2>2
<1>4. QED
  BY <1>1, <1>2, <1>3 DEF StoresUnit

LEMMA UnitCreated ==
    ASSUME EditorTyped, OwnIds, NEW d \in Editors, saving[d].at = "create",
           store' = StoreAfter(saving[d]), meant' = MeantAfter(saving[d])
    PROVE  /\ StoresUnit(d)
           /\ Len(store.costs) + 1 \in Units' \ Units
<1> DEFINE n == Len(store.costs) + 1
<1>1. /\ store \in Stores /\ store.costs \in Seq(Seq(Row)) /\ Len(store.costs) \in Nat
      /\ store.live \subseteq Units /\ store.made \in Nat /\ Units = DOMAIN store.costs
      /\ meant \in Seq(Kinds) /\ Len(meant) = Len(store.costs) /\ saving[d].unit = None
  BY DEF EditorTyped, Stores, Units
<1>2. store' = [store EXCEPT !.live = @ \cup {n}, !.costs = Append(@, <<>>)]
  <2>1. StoreAfter(saving[d]) = [store EXCEPT !.live = @ \cup {n}, !.costs = Append(@, <<>>)]
    BY DEF StoreAfter
  <2>2. QED
    BY <2>1
<1>3. meant' = Append(meant, <<>>)
  BY DEF MeantAfter
<1>4. /\ store'.live = store.live \cup {n} /\ store'.costs = Append(store.costs, <<>>)
      /\ store'.made = store.made /\ store' \in Stores
  <2>1. <<>> \in Seq(Row) /\ Append(store.costs, <<>>) \in Seq(Seq(Row)) /\ n \in Nat
    BY <1>1
  <2> DEFINE more == Append(store.costs, <<>>)
             live == store.live \cup {n}
  <2>2. live \in SUBSET Nat /\ more \in Seq(Seq(Row))
    BY <1>1, <2>1 DEF Stores
  <2>3. store' = [store EXCEPT !.live = live, !.costs = more]
    BY <1>2
  <2> HIDE DEF more, live
  <2>4. store' = [live |-> live, made |-> store.made, costs |-> more]
    BY <1>1, <2>3 DEF Stores
  <2>5. store'.live = live /\ store'.made = store.made /\ store'.costs = more /\ store' \in Stores
    BY <1>1, <2>2, <2>4 DEF Stores
  <2>6. QED
    BY <2>5 DEF live, more
<1>5. /\ DOMAIN store'.costs = Units \cup {n} /\ n \notin Units /\ store'.costs[n] = <<>>
      /\ \A u \in Units : store'.costs[u] = store.costs[u]
      /\ Len(store'.costs) = n
  BY <1>1, <1>4
<1>6. /\ meant' \in Seq(Kinds) /\ Len(meant') = n /\ meant'[n] = <<>>
      /\ \A u \in Units : meant'[u] = meant[u]
  <2>1. <<>> \in Kinds
    BY DEF Kinds
  <2>2. QED
    BY <1>1, <1>3, <2>1
<1>7. Units' = Units \cup {n}
  BY <1>5 DEF Units
<1>8. OwnIds'
  <2> SUFFICES ASSUME NEW w \in Units', NEW i \in DOMAIN store'.costs[w]
               PROVE  /\ store'.costs[w][i].id[1] = 0 => store'.costs[w][i].id[2] <= store'.made
                      /\ \A j \in DOMAIN store'.costs[w] :
                            store'.costs[w][i].id = store'.costs[w][j].id => i = j
    BY DEF OwnIds
  <2>1. w # n
    BY <1>5
  <2>2. QED
    BY <1>4, <1>5, <1>7, <2>1 DEF OwnIds
<1>9. QED
  BY <1>1, <1>4, <1>5, <1>6, <1>7, <1>8 DEF StoresUnit

LEMMA NothingStored ==
    ASSUME EditorTyped, OwnIds, NEW d \in Editors, saving[d].at \in {"patch", "list"},
           store' = StoreAfter(saving[d]), meant' = MeantAfter(saving[d])
    PROVE  StoresUnit(d) /\ UNCHANGED store
<1>1. UNCHANGED <<store, meant>>
  <2>1. StoreAfter(saving[d]) = store /\ MeantAfter(saving[d]) = meant
    BY DEF StoreAfter, MeantAfter
  <2>2. QED
    BY <2>1
<1>2. QED
  BY <1>1 DEF StoresUnit, EditorTyped, OwnIds, Units

LEMMA RowDeleted ==
    ASSUME EditorTyped, OwnIds, NEW d \in Editors, saving[d].at = "rows", saving[d].todo # <<>>,
           ~SaveRefused(saving[d]),
           store' = StoreAfter(saving[d]), meant' = MeantAfter(saving[d])
    PROVE  /\ StoresUnit(d)
           /\ LET rows == store.costs[saving[d].unit]
              IN  store'.costs[saving[d].unit] = RemoveAt(rows, RowAt(rows, Head(saving[d].todo)))
<1> DEFINE u == saving[d].unit
           rows == store.costs[u]
           i == RowAt(rows, Head(saving[d].todo))
           fewer == RemoveAt(rows, i)
<1>1. /\ store \in Stores /\ store.costs \in Seq(Seq(Row)) /\ u \in DOMAIN store.costs
      /\ u \in Units /\ store.made \in Nat /\ rows \in Seq(Row)
  BY NoneAssumption DEF EditorTyped, Stores, Units
<1>2. i \in DOMAIN rows
  <2>1. \E k \in DOMAIN rows : rows[k].id = Head(saving[d].todo)
    BY DEF SaveRefused, ToSet
  <2>2. QED
    BY <2>1 DEF RowAt
<1>3. store' = [store EXCEPT !.costs = [store.costs EXCEPT ![u] = fewer]]
  <2>1. StoreAfter(saving[d]) = [store EXCEPT !.costs[u] = fewer]
    BY DEF StoreAfter
  <2>2. [store EXCEPT !.costs[u] = fewer]
        = [store EXCEPT !.costs = [store.costs EXCEPT ![u] = fewer]]
    OBVIOUS
  <2>3. QED
    BY <2>1, <2>2
<1>4. UNCHANGED meant
  BY DEF MeantAfter
<1> HIDE DEF i
<1>5. /\ fewer \in Seq(Row) /\ DOMAIN fewer = 1 .. (Len(rows) - 1)
      /\ \A j \in 1 .. (Len(rows) - 1) : fewer[j] = IF j < i THEN rows[j] ELSE rows[j + 1]
  BY <1>1, <1>2, RowTaken
<1> HIDE DEF fewer
<1>6. /\ store'.live = store.live /\ store'.made = store.made
      /\ store'.costs = [store.costs EXCEPT ![u] = fewer] /\ store' \in Stores
  <2>1. [store.costs EXCEPT ![u] = fewer] \in Seq(Seq(Row))
    BY <1>1, <1>5
  <2>2. QED
    BY <1>1, <1>3, <2>1 DEF Stores
<1>7. \A j \in DOMAIN rows :
         /\ rows[j].id[1] = 0 => rows[j].id[2] <= store.made
         /\ \A k \in DOMAIN rows : rows[j].id = rows[k].id => j = k
  BY <1>1 DEF OwnIds
<1>8. \A j \in DOMAIN fewer :
         /\ fewer[j].id[1] = 0 => fewer[j].id[2] <= store.made
         /\ \A k \in DOMAIN fewer : fewer[j].id = fewer[k].id => j = k
  <2> DEFINE from(j) == IF j < i THEN j ELSE j + 1
  <2>1. Len(rows) \in Nat /\ i \in Int /\ DOMAIN rows = 1 .. Len(rows)
    BY <1>1, <1>2
  <2> HIDE DEF rows
  <2>2. \A j \in DOMAIN fewer : from(j) \in DOMAIN rows /\ fewer[j] = rows[from(j)]
    BY <1>5, <2>1
  <2>3. \A j, k \in DOMAIN fewer : from(j) = from(k) => j = k
    BY <1>5, <2>1
  <2> HIDE DEF from
  <2>4. QED
    BY <1>7, <2>2, <2>3
<1>9. StoresUnit(d) /\ store'.costs[u] = fewer
  <2>1. store.made <= store.made
    BY <1>1
  <2>2. fewer \in Seq(Row)
    BY <1>5
  <2> HIDE DEF rows
  <2>3. QED
    BY <1>1, <1>4, <1>6, <1>8, <2>1, <2>2, RowsReplaced
<1>10. QED
  BY <1>9 DEF i, fewer

LEMMA RowCreated ==
    ASSUME EditorTyped, OwnIds, NEW d \in Editors, saving[d].at = "rows", saving[d].todo = <<>>,
           saving[d].left # <<>>,
           store' = StoreAfter(saving[d]), meant' = MeantAfter(saving[d])
    PROVE  /\ StoresUnit(d)
           /\ RowKinds(store'.costs[saving[d].unit]) =
                 Append(RowKinds(store.costs[saving[d].unit]), Head(saving[d].left))
<1> DEFINE u == saving[d].unit
           rows == store.costs[u]
           row == [id |-> <<0, store.made + 1>>, kind |-> Head(saving[d].left)]
           more == Append(rows, row)
<1>1. /\ store \in Stores /\ store.costs \in Seq(Seq(Row)) /\ u \in DOMAIN store.costs
      /\ u \in Units /\ store.made \in Nat /\ rows \in Seq(Row)
  BY NoneAssumption DEF EditorTyped, Stores, Units
<1>2. Head(saving[d].left) \in STRING
  <2>1. saving[d].left \in Seq(STRING)
    BY DEF EditorTyped, Saves, Kinds
  <2>2. QED
    BY <2>1, HeadTailProperties
<1>3. store' = [store EXCEPT !.made = store.made + 1,
                             !.costs = [store.costs EXCEPT ![u] = more]]
  BY DEF StoreAfter
<1>4. UNCHANGED meant
  BY DEF MeantAfter
<1>5. row \in Row /\ row.id = <<0, store.made + 1>> /\ row.kind = Head(saving[d].left)
  BY <1>1, <1>2 DEF Row, RowId
<1> HIDE DEF row
<1>6. /\ more \in Seq(Row) /\ DOMAIN more = 1 .. (Len(rows) + 1) /\ more[Len(rows) + 1] = row
      /\ \A j \in 1 .. Len(rows) : more[j] = rows[j]
  BY <1>1, <1>5
<1>7. RowKinds(more) = Append(RowKinds(rows), Head(saving[d].left))
  BY <1>1, <1>5, RowAdded
<1> HIDE DEF more
<1>8. /\ store'.live = store.live /\ store'.made = store.made + 1
      /\ store'.costs = [store.costs EXCEPT ![u] = more] /\ store' \in Stores
  <2>1. [store.costs EXCEPT ![u] = more] \in Seq(Seq(Row)) /\ store.made + 1 \in Nat
    BY <1>1, <1>6
  <2>2. QED
    BY <1>1, <1>3, <2>1 DEF Stores
<1>9. \A j \in DOMAIN rows :
         /\ rows[j].id[1] = 0 => rows[j].id[2] <= store.made
         /\ rows[j].id[2] \in Nat
         /\ \A k \in DOMAIN rows : rows[j].id = rows[k].id => j = k
  <2>1. \A j \in DOMAIN rows : rows[j] \in Row
    BY <1>1
  <2>2. \A j \in DOMAIN rows : rows[j].id[2] \in Nat
    BY <2>1 DEF Row, RowId
  <2>3. QED
    BY <1>1, <2>2 DEF OwnIds
<1>10. \A j \in DOMAIN rows : rows[j].id # row.id
  <2> SUFFICES ASSUME NEW j \in DOMAIN rows, rows[j].id = <<0, store.made + 1>>
               PROVE  FALSE
    BY <1>5
  <2>1. rows[j].id[1] = 0 /\ rows[j].id[2] = store.made + 1
    OBVIOUS
  <2>2. rows[j].id[2] <= store.made
    BY <1>9, <2>1
  <2>3. store.made + 1 <= store.made
    BY <2>1, <2>2, Zenon
  <2>4. QED
    BY <1>1, <2>3
<1>11. \A j \in DOMAIN more :
         /\ more[j].id[1] = 0 => more[j].id[2] <= store.made + 1
         /\ \A k \in DOMAIN more : more[j].id = more[k].id => j = k
  <2>1. DOMAIN rows = 1 .. Len(rows) /\ Len(rows) \in Nat
    BY <1>1
  <2>2. row.id[2] = store.made + 1
    BY <1>5
  <2> HIDE DEF rows
  <2>3. \A j \in DOMAIN more : j \in DOMAIN rows \/ j = Len(rows) + 1
    BY <1>6, <2>1
  <2>4. QED
    BY <1>1, <1>6, <1>9, <1>10, <2>1, <2>2, <2>3
<1>12. store.made + 1 \in Nat /\ store.made <= store.made + 1
  BY <1>1
<1>13. QED
  BY <1>1, <1>4, <1>6, <1>7, <1>8, <1>11, <1>12, RowsReplaced

-------------------------------------------------------------------------------
\* One chain takes a step and the others stay as they are.
LEMMA ChainMoves ==
    ASSUME Unspoiled, NEW d \in Editors, StoresUnit(d), saving' \in [Editors -> Saves],
           \A e \in Editors \ {d} : saving'[e] = saving[e],
           saving'[d].unit \in {None, saving[d].unit} \cup (Units' \ Units),
           saving'[d].at \in {"idle", "create"} <=> saving'[d].unit = None,
           saving'[d].at = "idle" => saving'[d] = NoSave,
           OnCourse(saving[d])',
           \/ saving'[d].unit = saving[d].unit
           \/ saving[d].unit \in {None} \cup reported' \cup missed',
           reported \subseteq reported', missed \subseteq missed', UNCHANGED <<form, savedTwice>>
    PROVE  Unspoiled'
<1>1. EditorTyped'
  <2>1. \A e \in Editors : form[e].unit \in Units' \cup {None}
    BY DEF Unspoiled, EditorTyped, StoresUnit
  <2>2. \A e \in Editors :
           /\ saving'[e].unit \in Units' \cup {None}
           /\ saving'[e].at \in {"idle", "create"} <=> saving'[e].unit = None
           /\ saving'[e].at = "idle" => saving'[e] = NoSave
    <3> SUFFICES ASSUME NEW e \in Editors
                 PROVE  /\ saving'[e].unit \in Units' \cup {None}
                        /\ saving'[e].at \in {"idle", "create"} <=> saving'[e].unit = None
                        /\ saving'[e].at = "idle" => saving'[e] = NoSave
      OBVIOUS
    <3>1. /\ saving[e].unit \in Units \cup {None} /\ saving[d].unit \in Units \cup {None}
          /\ saving[e].at \in {"idle", "create"} <=> saving[e].unit = None
          /\ saving[e].at = "idle" => saving[e] = NoSave
          /\ Units \subseteq Units'
      BY DEF Unspoiled, EditorTyped, StoresUnit
    <3>2. CASE e = d
      BY <3>1, <3>2
    <3>3. CASE e # d
      <4>1. saving'[e] = saving[e]
        BY <3>3
      <4>2. QED
        BY <3>1, <4>1
    <3>4. QED
      BY <3>2, <3>3
  <2>3. /\ store' \in Stores /\ store'.live \subseteq Units'
        /\ meant' \in Seq(Kinds) /\ Len(meant') = Len(store'.costs) /\ form' \in [Editors -> Forms]
    BY DEF Unspoiled, EditorTyped, StoresUnit
  <2>4. \A e \in Editors : form'[e].unit \in Units' \cup {None}
    BY <2>1
  <2>5. QED
    BY <2>2, <2>3, <2>4 DEF EditorTyped, NoSave
<1>2. OneSave'
  <2> SUFFICES ASSUME NEW e \in Editors, NEW f \in Editors, saving'[e].unit # None,
                      saving'[e].unit \notin savedTwice, saving'[f].unit = saving'[e].unit
               PROVE  e = f
    BY DEF OneSave
  <2>1. /\ saving[e].unit # None /\ saving[e].unit \notin savedTwice
           /\ saving[f].unit = saving[e].unit => e = f
        /\ saving[e].unit \in Units \cup {None} /\ saving[f].unit \in Units \cup {None}
    BY DEF Unspoiled, OneSave, EditorTyped
  <2>2. CASE e # d /\ f # d
    BY <2>1, <2>2
  <2>3. CASE e = d /\ f # d
    <3>1. saving'[f] = saving[f]
      BY <2>3
    <3>2. saving'[d].unit = saving[d].unit
      BY <2>1, <2>3, <3>1
    <3>3. QED
      BY <2>1, <2>3, <3>1, <3>2
  <2>4. CASE e # d /\ f = d
    <3>1. saving'[e] = saving[e]
      BY <2>4
    <3>2. saving'[d].unit = saving[d].unit
      BY <2>1, <2>4, <3>1
    <3>3. QED
      BY <2>1, <2>4, <3>1, <3>2
  <2>5. QED
    BY <2>2, <2>3, <2>4
<1>3. ChainsOnCourse'
  <2> SUFFICES ASSUME NEW e \in Editors \ {d}
               PROVE  OnCourse(saving[e])'
    BY DEF ChainsOnCourse
  <2>1. saving'[e] = saving[e] /\ OnCourse(saving[e])
    BY DEF Unspoiled, ChainsOnCourse
  <2>2. saving[e].at = "rows" /\ saving[e].unit \notin savedTwice =>
           store'.costs[saving[e].unit] = store.costs[saving[e].unit]
    <3> SUFFICES ASSUME saving[e].at = "rows", saving[e].unit \notin savedTwice
                 PROVE  store'.costs[saving[e].unit] = store.costs[saving[e].unit]
      OBVIOUS
    <3>1. saving[e].unit # None /\ saving[e].unit \in Units
      BY DEF Unspoiled, EditorTyped
    <3>2. saving[e].unit # saving[d].unit
      BY <3>1 DEF Unspoiled, OneSave
    <3>3. QED
      BY <3>1, <3>2 DEF StoresUnit
  <2>3. QED
    BY <2>1, <2>2 DEF OnCourse
<1>4. NoSilentLoss'
  <2> SUFFICES ASSUME NEW u \in store'.live, u \notin savedTwice, u \notin missed'
               PROVE  \/ RowKinds(store'.costs[u]) = meant'[u]
                      \/ u \in reported'
                      \/ \E e \in Editors : saving'[e].unit = u
    BY DEF NoSilentLoss
  <2>1. u \in Units'
    BY DEF StoresUnit
  <2>2. CASE u \notin Units
    <3>1. store'.costs[u] = <<>> /\ meant'[u] = <<>>
      BY <2>1, <2>2 DEF StoresUnit
    <3>2. QED
      BY <3>1 DEF RowKinds
  <2>3. CASE u \in Units /\ u = saving[d].unit
    BY <2>3, NoneAssumption DEF Units, Unspoiled, EditorTyped, Stores
  <2>4. CASE u \in Units /\ u # saving[d].unit
    <3>1. u \in store.live /\ store'.costs[u] = store.costs[u] /\ meant'[u] = meant[u]
      BY <2>4 DEF StoresUnit
    <3>2. \/ RowKinds(store.costs[u]) = meant[u]
          \/ u \in reported
          \/ \E e \in Editors : saving[e].unit = u
      BY <3>1 DEF Unspoiled, NoSilentLoss
    <3>3. ASSUME NEW e \in Editors, saving[e].unit = u
          PROVE  saving'[e].unit = u
      BY <2>4, <3>3
    <3>4. QED
      BY <3>1, <3>2, <3>3
  <2>5. QED
    BY <2>2, <2>3, <2>4
<1>5. OwnIds'
  BY DEF StoresUnit
<1>6. QED
  BY <1>1, <1>2, <1>3, <1>4, <1>5 DEF Unspoiled

\* What each request of a chain stores.
LEMMA RequestStores ==
    ASSUME Unspoiled, NEW d \in Editors, saving[d] # NoSave,
           ~SaveFinished(saving[d]), ~SaveRefused(saving[d]),
           store' = StoreAfter(saving[d]), meant' = MeantAfter(saving[d])
    PROVE  StoresUnit(d)
<1>1. EditorTyped /\ OwnIds /\ saving[d] \in Saves /\ saving[d].at # "idle"
  BY DEF Unspoiled, EditorTyped
<1>2. saving[d].at \in {"create", "patch", "list", "rows"}
  BY <1>1 DEF Saves
<1>3. CASE saving[d].at = "create"
  BY <1>1, <1>3, UnitCreated
<1>4. CASE saving[d].at \in {"patch", "list"}
  BY <1>1, <1>4, NothingStored
<1>5. CASE saving[d].at = "rows" /\ saving[d].todo # <<>>
  BY <1>1, <1>5, RowDeleted
<1>6. CASE saving[d].at = "rows" /\ saving[d].todo = <<>>
  <2>1. saving[d].left # <<>>
    BY <1>6 DEF SaveFinished
  <2>2. QED
    BY <1>1, <1>6, <2>1, RowCreated
<1>7. QED
  BY <1>2, <1>3, <1>4, <1>5, <1>6

\* An answer leaves the chain with what comes next, and on its course.
LEMMA AnswerFits ==
    ASSUME Unspoiled, NEW d \in Editors, AnswerSave(d)
    PROVE  /\ saving'[d] \in Saves
           /\ saving'[d].unit \in {saving[d].unit} \cup (Units' \ Units)
           /\ saving'[d].unit # saving[d].unit => saving[d].unit = None
           /\ saving'[d].unit # None /\ saving'[d].at \notin {"idle", "create"}
           /\ OnCourse(saving[d])'
<1> DEFINE s == saving[d]
           u == saving[d].unit
<1>1. /\ s # NoSave /\ ~SaveFinished(s) /\ ~SaveRefused(s)
      /\ store' = StoreAfter(s) /\ meant' = MeantAfter(s)
      /\ saving' = [saving EXCEPT ![d] = SaveAfter(s)] /\ savedTwice' = savedTwice
  BY DEF AnswerSave
<1>2. /\ EditorTyped /\ OwnIds /\ s \in Saves /\ s.at # "idle" /\ OnCourse(s)
      /\ s.at = "create" <=> u = None
      /\ u \in Units \cup {None}
  BY <1>1 DEF Unspoiled, EditorTyped, ChainsOnCourse
<1>3. saving'[d] = SaveAfter(s)
  BY <1>1 DEF Unspoiled, EditorTyped
<1>4. s.at \in {"create", "patch", "list", "rows"}
  BY <1>2 DEF Saves
<1>5. s = [at |-> s.at, unit |-> u, todo |-> s.todo, left |-> s.left, all |-> s.all,
           new |-> s.new]
  BY <1>2 DEF Saves
<1>kept. savedTwice' = savedTwice
  BY <1>1
<1>6. CASE s.at = "create"
  <2> DEFINE n == Len(store.costs) + 1
  <2>1. StoresUnit(d) /\ n \in Units' \ Units /\ store'.costs[n] = <<>>
    BY <1>1, <1>2, <1>6, UnitCreated DEF StoresUnit
  <2>2. n \in Nat /\ n # None
    BY <2>1, <1>2, NoneAssumption DEF EditorTyped, Stores
  <2>3. SaveAfter(s) = [s EXCEPT !.at = "rows", !.unit = n]
    BY <1>6 DEF SaveAfter
  <2> HIDE DEF n
  <2>4. saving'[d] = [at |-> "rows", unit |-> n, todo |-> s.todo, left |-> s.left,
                      all |-> s.all, new |-> s.new]
    BY <1>3, <1>5, <2>3
  <2>5. s.todo = <<>> /\ s.left = s.all /\ s.all \in Kinds /\ s.all \in Seq(STRING)
    BY <1>2, <1>6 DEF OnCourse, Saves, Kinds
  <2>6. RowKinds(<<>>) \o s.all = s.all
    <3>1. RowKinds(<<>>) = <<>>
      BY DEF RowKinds
    <3>2. QED
      BY <2>5, <3>1, ConcatEmptySeq
  <2>7. OnCourse(saving[d])'
    <3>1. /\ saving'[d].at = "rows" /\ saving'[d].unit = n
          /\ saving'[d].todo = <<>> /\ saving'[d].left = s.all
          /\ saving'[d].all = s.all
      BY <2>4, <2>5
    <3>2. QED
      BY <3>1, <2>1, <2>6 DEF OnCourse
  <2>8. saving'[d] \in Saves
    BY <1>2, <2>2, <2>4 DEF Saves
  <2>9. QED
    BY <1>2, <1>6, <2>1, <2>2, <2>4, <2>7, <2>8
<1>7. CASE s.at = "patch"
  <2>1. UNCHANGED store
    BY <1>1, <1>2, <1>7, NothingStored
  <2>2. SaveAfter(s) = [s EXCEPT !.at = "list"]
    BY <1>7 DEF SaveAfter
  <2>3. saving'[d] = [at |-> "list", unit |-> u, todo |-> s.todo, left |-> s.left,
                      all |-> s.all, new |-> s.new]
    BY <1>3, <1>5, <2>2
  <2>4. OnCourse(saving[d])'
    BY <1>2, <1>7, <2>3 DEF OnCourse
  <2>5. saving'[d] \in Saves
    BY <1>2, <2>3 DEF Saves
  <2>6. QED
    BY <1>2, <1>7, <2>3, <2>4, <2>5
<1>8. CASE s.at = "list"
  <2> DEFINE rows == store.costs[u]
  <2>1. UNCHANGED store
    BY <1>1, <1>2, <1>8, NothingStored
  <2>2. SaveAfter(s) = [s EXCEPT !.at = "rows", !.todo = RowIds(rows)]
    BY <1>8 DEF SaveAfter
  <2>3. saving'[d] = [at |-> "rows", unit |-> u, todo |-> RowIds(rows), left |-> s.left,
                      all |-> s.all, new |-> s.new]
    BY <1>3, <1>5, <2>2
  <2>4. rows \in Seq(Row) /\ u # None
    BY <1>2, <1>8 DEF EditorTyped, Stores, Units
  <2>5. /\ RowIds(rows) \in Seq(RowId)
        /\ RowIds(rows) = <<>> => rows = <<>>
    <3>1. \A i \in DOMAIN rows : rows[i] \in Row
      BY <2>4
    <3>2. \A i \in DOMAIN rows : rows[i].id \in RowId
      BY <3>1 DEF Row
    <3>3. DOMAIN RowIds(rows) = DOMAIN rows
      BY DEF RowIds
    <3>4. QED
      BY <2>4, <3>2, <3>3 DEF RowIds
  <2>6. s.left = s.all /\ s.all \in Kinds /\ s.all \in Seq(STRING)
    BY <1>2, <1>8 DEF OnCourse, Saves, Kinds
  <2>7. rows = <<>> => RowKinds(rows) \o s.all = s.all
    <3>1. rows = <<>> => RowKinds(rows) = <<>>
      BY DEF RowKinds
    <3>2. QED
      BY <2>6, <3>1, ConcatEmptySeq
  <2>8. OnCourse(saving[d])'
    <3>1. /\ saving'[d].at = "rows" /\ saving'[d].unit = u
          /\ saving'[d].todo = RowIds(rows) /\ saving'[d].left = s.all
          /\ saving'[d].all = s.all
      BY <2>3, <2>6
    <3>2. QED
      BY <3>1, <2>1, <2>5, <2>7 DEF OnCourse
  <2>9. saving'[d] \in Saves
    BY <1>2, <2>3, <2>5 DEF Saves
  <2>10. QED
    BY <1>2, <1>8, <2>3, <2>4, <2>8, <2>9
<1>9. CASE s.at = "rows" /\ s.todo # <<>>
  <2> DEFINE rows == store.costs[u]
             i == RowAt(rows, Head(s.todo))
  <2>1. store'.costs[u] = RemoveAt(rows, i) /\ u # None /\ u \in Units
    BY <1>1, <1>2, <1>9, RowDeleted
  <2>2. SaveAfter(s) = [s EXCEPT !.todo = Tail(s.todo)]
    BY <1>9 DEF SaveAfter
  <2>3. saving'[d] = [at |-> "rows", unit |-> u, todo |-> Tail(s.todo), left |-> s.left,
                      all |-> s.all, new |-> s.new]
    BY <1>3, <1>5, <1>9, <2>2
  <2>4. s.todo \in Seq(RowId) /\ Tail(s.todo) \in Seq(RowId)
    BY <1>2, <1>9, HeadTailProperties DEF Saves
  <2>5. rows \in Seq(Row) /\ \A j, k \in DOMAIN rows : rows[j].id = rows[k].id => j = k
    BY <1>2, <2>1 DEF EditorTyped, Stores, Units, OwnIds
  <2>6. ASSUME u \notin savedTwice
        PROVE  /\ RowIds(store'.costs[u]) = Tail(s.todo)
               /\ s.left = s.all /\ s.all \in Seq(STRING)
    <3>1. s.todo = RowIds(rows) /\ s.left = s.all /\ s.all \in Seq(STRING)
      BY <1>2, <1>9, <2>6 DEF OnCourse, Saves, Kinds
    <3>2. rows # <<>>
      BY <1>9, <3>1 DEF RowIds
    <3>3. i = 1 /\ RowIds(RemoveAt(rows, 1)) = Tail(RowIds(rows))
      BY <2>5, <3>1, <3>2, FirstTaken
    <3>4. QED
      BY <2>1, <3>1, <3>3
  <2>7. ASSUME u \notin savedTwice, Tail(s.todo) = <<>>
        PROVE  RowKinds(store'.costs[u]) \o s.left = s.all
    <3>1. store'.costs[u] \in Seq(Row)
      <4>1. StoresUnit(d)
        BY <1>1, <1>2, <1>9, RowDeleted
      <4>2. QED
        BY <2>1, <4>1 DEF StoresUnit, Stores, Units
    <3>2. store'.costs[u] = <<>>
      <4> DEFINE now == store'.costs[u]
      <4>1. now \in Seq(Row) /\ RowIds(now) = <<>>
        BY <2>6, <2>7, <3>1
      <4> HIDE DEF now
      <4>2. DOMAIN RowIds(now) = DOMAIN now
        BY DEF RowIds
      <4>3. now = <<>>
        BY <4>1, <4>2
      <4>4. QED
        BY <4>3 DEF now
    <3>3. RowKinds(store'.costs[u]) = <<>>
      BY <3>2 DEF RowKinds
    <3>4. QED
      BY <2>6, <2>7, <3>3, ConcatEmptySeq
  <2>8. OnCourse(saving[d])'
    <3>1. /\ saving'[d].at = "rows" /\ saving'[d].unit = u
          /\ saving'[d].todo = Tail(s.todo) /\ saving'[d].left = s.left
          /\ saving'[d].all = s.all
      BY <2>3
    <3>2. QED
      BY <3>1, <1>kept, <2>6, <2>7 DEF OnCourse
  <2>9. saving'[d] \in Saves
    BY <1>2, <2>3, <2>4 DEF Saves
  <2>10. QED
    BY <1>2, <1>9, <2>1, <2>3, <2>8, <2>9
<1>10. CASE s.at = "rows" /\ s.todo = <<>>
  <2> DEFINE rows == store.costs[u]
  <2>1. s.left # <<>>
    BY <1>1, <1>10 DEF SaveFinished
  <2>2. /\ RowKinds(store'.costs[u]) = Append(RowKinds(rows), Head(s.left))
        /\ u # None /\ u \in Units
    BY <1>1, <1>2, <1>10, <2>1, RowCreated
  <2>3. SaveAfter(s) = [s EXCEPT !.left = Tail(s.left)]
    BY <1>10 DEF SaveAfter
  <2>4. saving'[d] = [at |-> "rows", unit |-> u, todo |-> <<>>, left |-> Tail(s.left),
                      all |-> s.all, new |-> s.new]
    BY <1>3, <1>5, <1>10, <2>3
  <2>5. s.left \in Seq(STRING) /\ Tail(s.left) \in Seq(STRING)
    BY <1>2, <2>1, HeadTailProperties DEF Saves, Kinds
  <2>6. RowKinds(rows) \in Seq(STRING)
    <3>1. rows \in Seq(Row)
      BY <1>2, <2>2 DEF EditorTyped, Stores, Units
    <3>2. \A i \in DOMAIN rows : rows[i] \in Row
      BY <3>1
    <3>3. \A i \in DOMAIN rows : rows[i].kind \in STRING
      BY <3>2 DEF Row
    <3>4. QED
      BY <3>1, <3>3 DEF RowKinds
  <2>7. u \notin savedTwice => RowKinds(store'.costs[u]) \o Tail(s.left) = s.all
    <3>1. Append(RowKinds(rows), Head(s.left)) \o Tail(s.left) = RowKinds(rows) \o s.left
      BY <2>1, <2>5, <2>6, KindMoved
    <3>2. QED
      BY <1>2, <1>10, <2>2, <3>1 DEF OnCourse
  <2>8. OnCourse(saving[d])'
    <3>1. /\ saving'[d].at = "rows" /\ saving'[d].unit = u
          /\ saving'[d].todo = <<>> /\ saving'[d].left = Tail(s.left)
          /\ saving'[d].all = s.all
      BY <2>4
    <3>2. QED
      BY <3>1, <1>kept, <2>7 DEF OnCourse
  <2>9. saving'[d] \in Saves
    BY <1>2, <2>4, <2>5 DEF Saves, Kinds
  <2>10. QED
    BY <1>2, <1>10, <2>2, <2>4, <2>8, <2>9
<1>11. QED
  BY <1>4, <1>6, <1>7, <1>8, <1>9, <1>10

LEMMA AnswerKeeps ==
    ASSUME Unspoiled, NEW d \in Editors, AnswerSave(d)
    PROVE  Unspoiled'
<1>1. StoresUnit(d)
  BY RequestStores DEF AnswerSave
<1>2. /\ saving'[d] \in Saves
      /\ saving'[d].unit \in {saving[d].unit} \cup (Units' \ Units)
      /\ saving'[d].unit # saving[d].unit => saving[d].unit = None
      /\ saving'[d].unit # None /\ saving'[d].at \notin {"idle", "create"}
      /\ OnCourse(saving[d])'
  BY AnswerFits
<1>3. saving' = [saving EXCEPT ![d] = SaveAfter(saving[d])]
  BY DEF AnswerSave
<1>4. saving' \in [Editors -> Saves] /\ \A e \in Editors \ {d} : saving'[e] = saving[e]
  BY <1>2, <1>3 DEF Unspoiled, EditorTyped
<1>5. UNCHANGED <<form, reported, missed, savedTwice>>
  BY DEF AnswerSave
<1>6. QED
  BY <1>1, <1>2, <1>4, <1>5, ChainMoves

\* A chain that breaks off is reported in its form, or its unit is counted as missed.
LEMMA FailureKeeps ==
    ASSUME Unspoiled, NEW d \in Editors, StoresUnit(d),
           NEW u, u = saving[d].unit \/ saving[d].unit = None, SaveFails(d, u)
    PROVE  Unspoiled'
<1>1. saving' = [saving EXCEPT ![d] = NoSave] /\ UNCHANGED <<form, savedTwice>>
  BY DEF SaveFails
<1>2. NoSave \in Saves /\ NoSave.unit = None /\ NoSave.at = "idle" /\ OnCourse(NoSave)
  BY DEF NoSave, Saves, Kinds, OnCourse
<1>3. saving' \in [Editors -> Saves] /\ \A e \in Editors \ {d} : saving'[e] = saving[e]
  BY <1>1, <1>2 DEF Unspoiled, EditorTyped
<1>4. saving'[d] = NoSave
  BY <1>1 DEF Unspoiled, EditorTyped
<1>5. /\ reported \subseteq reported' /\ missed \subseteq missed'
      /\ saving[d].unit \in {None} \cup reported' \cup missed'
  <2>1. \/ reported' = reported \cup {u} /\ missed' = missed
        \/ reported' = reported /\ missed' = missed \cup {u}
    BY DEF SaveFails
  <2>2. QED
    BY <2>1
<1>6. OnCourse(saving[d])'
  BY <1>4 DEF NoSave, OnCourse
<1>7. QED
  BY <1>1, <1>2, <1>3, <1>4, <1>5, <1>6, ChainMoves

\* A save that changes nothing in the back end.
LEMMA NothingTouched ==
    ASSUME Unspoiled, NEW d \in Editors, UNCHANGED <<store, meant>>
    PROVE  StoresUnit(d)
BY DEF StoresUnit, Unspoiled, EditorTyped, OwnIds, Units

LEMMA RefusalKeeps ==
    ASSUME Unspoiled, NEW d \in Editors, RefuseSave(d)
    PROVE  Unspoiled'
<1>1. StoresUnit(d)
  BY NothingTouched DEF RefuseSave
<1>2. SaveFails(d, saving[d].unit)
  BY DEF RefuseSave
<1>3. QED
  BY <1>1, <1>2, FailureKeeps

LEMMA LossKeeps ==
    ASSUME Unspoiled, NEW d \in Editors, LoseSave(d)
    PROVE  Unspoiled'
<1>1. StoresUnit(d)
  <2>1. CASE UNCHANGED <<store, meant>>
    BY <2>1, NothingTouched
  <2>2. CASE /\ ~SaveFinished(saving[d]) /\ ~SaveRefused(saving[d])
             /\ store' = StoreAfter(saving[d]) /\ meant' = MeantAfter(saving[d])
    BY <2>2, RequestStores DEF LoseSave
  <2>3. QED
    BY <2>1, <2>2 DEF LoseSave
<1>2. SaveFails(d, IF saving[d].at = "create" THEN None ELSE saving[d].unit)
  BY DEF LoseSave
<1>3. saving[d].at = "create" => saving[d].unit = None
  BY DEF Unspoiled, EditorTyped
<1>4. CASE saving[d].at = "create"
  <2>1. SaveFails(d, None) /\ saving[d].unit = None
    BY <1>2, <1>3, <1>4
  <2>2. QED
    BY <1>1, <2>1, FailureKeeps
<1>5. CASE saving[d].at # "create"
  <2>1. SaveFails(d, saving[d].unit)
    BY <1>2, <1>5
  <2>2. QED
    BY <1>1, <2>1, FailureKeeps
<1>6. QED
  BY <1>4, <1>5

-------------------------------------------------------------------------------
\* The steps around a chain.
LEMMA SubmissionKeeps ==
    ASSUME Unspoiled, NEW d \in Editors, SubmitUnit(d)
    PROVE  Unspoiled'
<1> DEFINE u == form[d].unit
           s == [at |-> IF u = None THEN "create" ELSE "patch", unit |-> u, todo |-> <<>>,
                 left |-> form[d].rows, all |-> form[d].rows, new |-> u = None]
<1>1. /\ saving' = [saving EXCEPT ![d] = s] /\ saving[d] = NoSave
      /\ savedTwice' = IF u # None /\ Others(d, u) # {} THEN savedTwice \cup {u}
                       ELSE savedTwice \ {u}
      /\ UNCHANGED <<store, form, meant, reported, missed>>
  BY DEF SubmitUnit
<1>2. s \in Saves /\ u \in Units \cup {None}
  <2>1. form[d] \in Forms /\ u \in Units \cup {None}
    BY DEF Unspoiled, EditorTyped
  <2>2. u \in Nat \cup {None} /\ form[d].rows \in Kinds
    BY <2>1 DEF Forms
  <2>3. QED
    BY <2>1, <2>2 DEF Saves
<1>3. /\ s.unit = u /\ s.at = (IF u = None THEN "create" ELSE "patch")
      /\ s.todo = <<>> /\ s.left = s.all
  OBVIOUS
<1> HIDE DEF s
<1>4. /\ saving' \in [Editors -> Saves] /\ saving'[d] = s
      /\ \A e \in Editors \ {d} : saving'[e] = saving[e]
  BY <1>1, <1>2 DEF Unspoiled, EditorTyped
<1>5. EditorTyped'
  BY <1>1, <1>2, <1>3, <1>4 DEF Unspoiled, EditorTyped, Units, NoSave
<1>6. OwnIds'
  BY <1>1 DEF Unspoiled, OwnIds, Units
<1>7. \A w : w # u => (w \in savedTwice' <=> w \in savedTwice)
  BY <1>1
<1>8. \A e \in Editors \ {d} : saving[e].unit = u /\ u # None => u \in savedTwice'
  BY <1>1 DEF Others
<1>9. OneSave'
  <2> SUFFICES ASSUME NEW e \in Editors, NEW f \in Editors, saving'[e].unit # None,
                      saving'[e].unit \notin savedTwice', saving'[f].unit = saving'[e].unit
               PROVE  e = f
    BY DEF OneSave
  <2>1. CASE e # d /\ f # d
    <3>1. saving'[e] = saving[e] /\ saving'[f] = saving[f]
      BY <1>4, <2>1
    <3>2. saving[e].unit # u
      BY <1>8, <2>1, <3>1
    <3>3. saving[e].unit \notin savedTwice
      BY <1>7, <3>1, <3>2
    <3>4. QED
      BY <3>1, <3>3 DEF Unspoiled, OneSave
  <2>2. CASE e = d /\ f # d
    BY <1>3, <1>4, <1>8, <2>2
  <2>3. CASE e # d /\ f = d
    BY <1>3, <1>4, <1>8, <2>3
  <2>4. QED
    BY <2>1, <2>2, <2>3
<1>10. ChainsOnCourse'
  <2>1. OnCourse(saving[d])'
    BY <1>3, <1>4 DEF OnCourse
  <2>2. ASSUME NEW e \in Editors \ {d}
        PROVE  OnCourse(saving[e])'
    <3>1. saving'[e] = saving[e] /\ OnCourse(saving[e])
      BY <1>4 DEF Unspoiled, ChainsOnCourse
    <3>2. saving[e].at = "rows" => saving[e].unit # None
      BY DEF Unspoiled, EditorTyped
    <3>3. saving[e].at = "rows" /\ saving[e].unit \notin savedTwice' =>
             saving[e].unit \notin savedTwice
      BY <1>7, <1>8, <3>2
    <3>4. QED
      BY <1>1, <3>1, <3>3 DEF OnCourse
  <2>3. QED
    BY <2>1, <2>2 DEF ChainsOnCourse
<1>11. NoSilentLoss'
  <2> SUFFICES ASSUME NEW w \in store.live, w \notin savedTwice', w \notin missed
               PROVE  \/ RowKinds(store.costs[w]) = meant[w]
                      \/ w \in reported
                      \/ \E e \in Editors : saving'[e].unit = w
    BY <1>1 DEF NoSilentLoss
  <2>1. CASE w = u
    BY <1>3, <1>4, <2>1
  <2>2. CASE w # u
    <3>1. w \notin savedTwice
      BY <1>7, <2>2
    <3>2. \/ RowKinds(store.costs[w]) = meant[w]
          \/ w \in reported
          \/ \E e \in Editors : saving[e].unit = w
      BY <3>1 DEF Unspoiled, NoSilentLoss
    <3>3. ASSUME NEW e \in Editors, saving[e].unit = w
          PROVE  saving'[e].unit = w
      <4>1. w \in Units /\ w # None
        BY NoneAssumption DEF Unspoiled, EditorTyped, Stores, Units
      <4>2. e # d
        BY <1>1, <3>3, <4>1 DEF NoSave
      <4>3. QED
        BY <1>4, <3>3, <4>2
    <3>4. QED
      BY <3>2, <3>3
  <2>3. QED
    BY <2>1, <2>2
<1>12. QED
  BY <1>5, <1>6, <1>9, <1>10, <1>11 DEF Unspoiled

LEMMA DoneKeeps ==
    ASSUME Unspoiled, NEW d \in Editors, SaveDone(d)
    PROVE  Unspoiled'
<1> DEFINE u == saving[d].unit
           all == saving[d].all
<1>1. /\ saving[d].at = "rows" /\ saving[d].todo = <<>> /\ saving[d].left = <<>>
      /\ saving' = [saving EXCEPT ![d] = NoSave] /\ form' = [form EXCEPT ![d] = NoForm]
      /\ meant' = [meant EXCEPT ![u] = all]
      /\ reported' = reported \ {u} /\ missed' = missed \ {u} /\ UNCHANGED <<store, savedTwice>>
  BY DEF SaveDone, SaveFinished, SetForm
<1>2. /\ u \in Units /\ u # None /\ all \in Kinds /\ Units = DOMAIN meant
      /\ NoForm \in Forms /\ NoForm.unit = None
      /\ NoSave \in Saves /\ NoSave.unit = None /\ NoSave.at = "idle" /\ OnCourse(NoSave)
  <2>1. saving[d] \in Saves /\ u \in Units /\ u # None
    BY <1>1 DEF Unspoiled, EditorTyped
  <2>2. meant \in Seq(Kinds) /\ store.costs \in Seq(Seq(Row)) /\ Len(meant) = Len(store.costs)
    BY DEF Unspoiled, EditorTyped, Stores
  <2>3. Units = DOMAIN meant
    BY <2>2 DEF Units
  <2>4. QED
    BY <2>1, <2>3 DEF NoForm, Forms, NoSave, Saves, Kinds, OnCourse
<1>3. /\ saving' \in [Editors -> Saves] /\ saving'[d] = NoSave
      /\ \A e \in Editors \ {d} : saving'[e] = saving[e]
      /\ form' \in [Editors -> Forms] /\ form'[d] = NoForm
      /\ \A e \in Editors \ {d} : form'[e] = form[e]
      /\ meant' \in Seq(Kinds) /\ Len(meant') = Len(meant) /\ meant'[u] = all
      /\ \A w \in Units \ {u} : meant'[w] = meant[w]
  BY <1>1, <1>2 DEF Unspoiled, EditorTyped
<1>4. EditorTyped'
  <2>1. \A e \in Editors :
           /\ form'[e].unit \in Units \cup {None}
           /\ saving'[e].unit \in Units \cup {None}
           /\ saving'[e].at \in {"idle", "create"} <=> saving'[e].unit = None
           /\ saving'[e].at = "idle" => saving'[e] = NoSave
    <3> SUFFICES ASSUME NEW e \in Editors
                 PROVE  /\ form'[e].unit \in Units \cup {None}
                        /\ saving'[e].unit \in Units \cup {None}
                        /\ saving'[e].at \in {"idle", "create"} <=> saving'[e].unit = None
                        /\ saving'[e].at = "idle" => saving'[e] = NoSave
      OBVIOUS
    <3>1. CASE e = d
      BY <1>2, <1>3, <3>1
    <3>2. CASE e # d
      BY <1>3, <3>2 DEF Unspoiled, EditorTyped
    <3>3. QED
      BY <3>1, <3>2
  <2>2. /\ store' \in Stores /\ store'.live \subseteq Units' /\ Units' = Units
        /\ Len(meant') = Len(store'.costs)
    BY <1>1, <1>3 DEF Unspoiled, EditorTyped, Units
  <2>3. QED
    BY <1>3, <2>1, <2>2 DEF EditorTyped, NoSave
<1>5. OwnIds'
  BY <1>1 DEF Unspoiled, OwnIds, Units
<1>6. OneSave'
  BY <1>1, <1>2, <1>3 DEF Unspoiled, OneSave
<1>7. ChainsOnCourse'
  <2>1. OnCourse(saving[d])'
    BY <1>3 DEF NoSave, OnCourse
  <2>2. ASSUME NEW e \in Editors \ {d}
        PROVE  OnCourse(saving[e])'
    BY <1>1, <1>3 DEF Unspoiled, ChainsOnCourse, OnCourse
  <2>3. QED
    BY <2>1, <2>2 DEF ChainsOnCourse
<1>8. NoSilentLoss'
  <2> SUFFICES ASSUME NEW w \in store.live, w \notin savedTwice, w \notin missed'
               PROVE  \/ RowKinds(store.costs[w]) = meant'[w]
                      \/ w \in reported'
                      \/ \E e \in Editors : saving'[e].unit = w
    BY <1>1 DEF NoSilentLoss
  <2>1. CASE w = u
    <3>1. RowKinds(store.costs[u]) \o <<>> = all
      BY <1>1, <2>1 DEF Unspoiled, ChainsOnCourse, OnCourse
    <3>2. RowKinds(store.costs[u]) \in Seq(STRING)
      <4>1. store.costs[u] \in Seq(Row)
        BY <1>2 DEF Unspoiled, EditorTyped, Stores, Units
      <4>2. \A i \in DOMAIN store.costs[u] : store.costs[u][i] \in Row
        BY <4>1
      <4>3. \A i \in DOMAIN store.costs[u] : store.costs[u][i].kind \in STRING
        BY <4>2 DEF Row
      <4>4. QED
        BY <4>1, <4>3 DEF RowKinds
    <3>3. RowKinds(store.costs[u]) \o <<>> = RowKinds(store.costs[u])
      BY <3>2, ConcatEmptySeq
    <3>4. QED
      BY <1>3, <2>1, <3>1, <3>3
  <2>2. CASE w # u
    <3>1. w \in Units /\ w \notin missed
      BY <1>1, <2>2 DEF Unspoiled, EditorTyped
    <3>2. \/ RowKinds(store.costs[w]) = meant[w]
          \/ w \in reported
          \/ \E e \in Editors : saving[e].unit = w
      BY <3>1 DEF Unspoiled, NoSilentLoss
    <3>3. ASSUME NEW e \in Editors, saving[e].unit = w
          PROVE  saving'[e].unit = w
      BY <1>3, <2>2, <3>3
    <3>4. meant'[w] = meant[w] /\ (w \in reported => w \in reported')
      BY <1>1, <1>3, <2>2, <3>1
    <3>5. QED
      BY <3>2, <3>3, <3>4
  <2>3. QED
    BY <2>1, <2>2
<1>9. QED
  BY <1>4, <1>5, <1>6, <1>7, <1>8 DEF Unspoiled

LEMMA RemovalKeeps ==
    ASSUME Unspoiled, NEW u \in Units, RemoveUnit(u)
    PROVE  Unspoiled'
<1>1. /\ store' = [store EXCEPT !.live = store.live \ {u}]
      /\ UNCHANGED <<form, saving, meant, reported, missed, savedTwice>>
  BY DEF RemoveUnit
<1>2. /\ store'.live = store.live \ {u} /\ store'.costs = store.costs /\ store'.made = store.made
      /\ store' \in Stores
  BY <1>1 DEF Unspoiled, EditorTyped, Stores
<1>3. Units' = Units
  BY <1>2 DEF Units
<1>4. EditorTyped'
  BY <1>1, <1>2, <1>3 DEF Unspoiled, EditorTyped, NoSave
<1>5. OwnIds'
  BY <1>2, <1>3 DEF Unspoiled, OwnIds
<1>6. OneSave' /\ ChainsOnCourse'
  BY <1>1, <1>2 DEF Unspoiled, OneSave, ChainsOnCourse, OnCourse
<1>7. NoSilentLoss'
  BY <1>1, <1>2 DEF Unspoiled, NoSilentLoss
<1>8. QED
  BY <1>4, <1>5, <1>6, <1>7 DEF Unspoiled

\* What is done in the form alone touches no unit and no chain.
LEMMA FormKeeps ==
    ASSUME Unspoiled, NEW d \in Editors, NEW f \in Forms, f.unit \in Units \cup {None},
           form' = [form EXCEPT ![d] = f],
           UNCHANGED <<store, saving, meant, reported, missed, savedTwice>>
    PROVE  Unspoiled'
<1>1. form' \in [Editors -> Forms] /\ \A e \in Editors : form'[e].unit \in Units \cup {None}
  BY DEF Unspoiled, EditorTyped
<1>2. EditorTyped'
  BY <1>1 DEF Unspoiled, EditorTyped, Units, NoSave
<1>3. QED
  BY <1>2 DEF Unspoiled, OwnIds, OneSave, ChainsOnCourse, OnCourse, NoSilentLoss, Units

\* A form that is opened, with the rows that have come.
LEMMA OpenedForm ==
    ASSUME NEW f \in Forms, NEW open, NEW rows
    PROVE  /\ [f EXCEPT !.open = open] = [open |-> open, unit |-> f.unit, rows |-> f.rows]
           /\ [f EXCEPT !.open = open, !.rows = rows] =
                 [open |-> open, unit |-> f.unit, rows |-> rows]
<1>1. f = [open |-> f.open, unit |-> f.unit, rows |-> f.rows]
  BY DEF Forms
<1>2. [f EXCEPT !.open = open] = [open |-> open, unit |-> f.unit, rows |-> f.rows]
  BY <1>1
<1>3. [f EXCEPT !.open = open, !.rows = rows] = [open |-> open, unit |-> f.unit, rows |-> rows]
  <2> DEFINE g == [f EXCEPT !.open = open]
  <2>1. [f EXCEPT !.open = open, !.rows = rows] = [g EXCEPT !.rows = rows]
    OBVIOUS
  <2>2. g = [open |-> open, unit |-> f.unit, rows |-> f.rows]
    BY <1>2
  <2> HIDE DEF g
  <2>3. [g EXCEPT !.rows = rows] = [open |-> open, unit |-> f.unit, rows |-> rows]
    BY <2>2
  <2>4. QED
    BY <2>1, <2>3
<1>4. QED
  BY <1>2, <1>3

LEMMA FormStepKeeps ==
    ASSUME Unspoiled, NEW d \in Editors,
           \/ OpenCreate(d) \/ Fill(d) \/ Close(d)
           \/ \E u \in Units : OpenEdit(d, u) \/ RowsArrive(d, u)
    PROVE  Unspoiled'
<1>1. UNCHANGED <<store, saving, meant, reported, missed, savedTwice>>
  BY DEF OpenCreate, Fill, Close, OpenEdit, RowsArrive
<1>2. /\ form[d] \in Forms /\ form[d].unit \in Units \cup {None}
      /\ form[d] = [open |-> form[d].open, unit |-> form[d].unit, rows |-> form[d].rows]
      /\ form[d].unit \in Nat \cup {None} /\ form[d].rows \in Kinds /\ form[d].open \in BOOLEAN
  <2>1. form[d] \in Forms /\ form[d].unit \in Units \cup {None}
    BY DEF Unspoiled, EditorTyped
  <2>2. QED
    BY <2>1 DEF Forms
<1>3. \E f \in Forms : f.unit \in Units \cup {None} /\ form' = [form EXCEPT ![d] = f]
  <2>1. CASE OpenCreate(d)
    <3>1. form' = [form EXCEPT ![d] = [NoForm EXCEPT !.open = TRUE]]
      BY <2>1 DEF OpenCreate, SetForm
    <3> DEFINE f == [NoForm EXCEPT !.open = TRUE]
    <3>2. NoForm \in Forms /\ NoForm.unit = None /\ NoForm.rows = <<>>
      BY DEF NoForm, Forms, Kinds
    <3>3. f = [open |-> TRUE, unit |-> NoForm.unit, rows |-> NoForm.rows]
      BY <3>2, OpenedForm, Zenon
    <3>4. f \in Forms /\ f.unit = None
      BY <3>2, <3>3 DEF Forms, Kinds
    <3> HIDE DEF f
    <3>5. QED
      BY <3>1, <3>4 DEF f
  <2>2. CASE Fill(d)
    <3>1. PICK rows \in CostDrafts : form' = [form EXCEPT ![d] = [form[d] EXCEPT !.rows = rows]]
      BY <2>2 DEF Fill, SetForm
    <3> DEFINE f == [form[d] EXCEPT !.rows = rows]
    <3>2. f = [open |-> form[d].open, unit |-> form[d].unit, rows |-> rows]
      BY <1>2
    <3>3. f \in Forms /\ f.unit \in Units \cup {None}
      BY <1>2, <3>2, CostsAssumption DEF Forms, Kinds
    <3> HIDE DEF f
    <3>4. QED
      BY <3>1, <3>3 DEF f
  <2>3. CASE Close(d)
    <3>1. form' = [form EXCEPT ![d] = NoForm]
      BY <2>3 DEF Close, SetForm
    <3>2. NoForm \in Forms /\ NoForm.unit = None
      BY DEF NoForm, Forms, Kinds
    <3>3. QED
      BY <3>1, <3>2
  <2>4. CASE \E u \in Units : OpenEdit(d, u)
    <3>1. PICK u \in Units : form' = [form EXCEPT ![d] = [form[d] EXCEPT !.unit = u]]
      BY <2>4 DEF OpenEdit, SetForm
    <3> DEFINE f == [form[d] EXCEPT !.unit = u]
    <3>2. f = [open |-> form[d].open, unit |-> u, rows |-> form[d].rows]
      BY <1>2
    <3>3. u \in Nat
      BY DEF Unspoiled, EditorTyped, Stores, Units
    <3>4. f \in Forms /\ f.unit \in Units \cup {None}
      BY <1>2, <3>2, <3>3 DEF Forms
    <3> HIDE DEF f
    <3>5. QED
      BY <3>1, <3>4 DEF f
  <2>5. CASE \E u \in Units : RowsArrive(d, u)
    <3>1. PICK u \in Units :
             \/ form' = [form EXCEPT ![d] = [form[d] EXCEPT !.open = TRUE,
                                                            !.rows = RowKinds(store.costs[u])]]
             \/ form' = [form EXCEPT ![d] = [form[d] EXCEPT !.open = TRUE, !.rows = <<>>]]
      BY <2>5 DEF RowsArrive, SetForm
    <3>2. PICK rows \in Kinds :
             form' = [form EXCEPT ![d] = [form[d] EXCEPT !.open = TRUE, !.rows = rows]]
      <4>1. RowKinds(store.costs[u]) \in Kinds
        <5>1. store.costs[u] \in Seq(Row)
          BY DEF Unspoiled, EditorTyped, Stores, Units
        <5>2. \A i \in DOMAIN store.costs[u] : store.costs[u][i] \in Row
          BY <5>1
        <5>3. \A i \in DOMAIN store.costs[u] : store.costs[u][i].kind \in STRING
          BY <5>2 DEF Row
        <5>4. QED
          BY <5>1, <5>3 DEF RowKinds, Kinds
      <4>2. <<>> \in Kinds
        BY DEF Kinds
      <4>3. QED
        BY <3>1, <4>1, <4>2
    <3> DEFINE f == [form[d] EXCEPT !.open = TRUE, !.rows = rows]
    <3>3. f = [open |-> TRUE, unit |-> form[d].unit, rows |-> rows]
      BY <1>2, OpenedForm, Zenon
    <3>4. f \in Forms /\ f.unit \in Units \cup {None}
      BY <1>2, <3>3 DEF Forms
    <3> HIDE DEF f
    <3>5. QED
      BY <3>2, <3>4 DEF f
  <2>6. QED
    BY <2>1, <2>2, <2>3, <2>4, <2>5
<1>4. PICK f \in Forms : f.unit \in Units \cup {None} /\ form' = [form EXCEPT ![d] = f]
  BY <1>3
<1>5. QED
  BY <1>1, <1>4, FormKeeps

-------------------------------------------------------------------------------
LEMMA UnspoiledInit == EditorInit => Unspoiled
<1> SUFFICES ASSUME EditorInit
             PROVE  Unspoiled
  OBVIOUS
<1> DEFINE row(u, i) == [id |-> <<u, i>>, kind |-> FirstCosts[u][i]]
           costs == [u \in DOMAIN FirstCosts |-> [i \in DOMAIN FirstCosts[u] |-> row(u, i)]]
<1>1. /\ store = [live |-> DOMAIN FirstCosts, made |-> 0, costs |-> costs]
      /\ form = [d \in Editors |-> NoForm] /\ saving = [d \in Editors |-> NoSave]
      /\ meant = FirstCosts
  BY DEF EditorInit
<1>2. FirstCosts \in Seq(Kinds) /\ \A u \in DOMAIN FirstCosts : FirstCosts[u] \in Seq(STRING)
  BY CostsAssumption DEF Kinds
<1>3. \A u \in DOMAIN FirstCosts : \A i \in DOMAIN FirstCosts[u] :
         row(u, i) \in Row /\ row(u, i).id = <<u, i>> /\ row(u, i).kind = FirstCosts[u][i]
  <2> SUFFICES ASSUME NEW u \in DOMAIN FirstCosts, NEW i \in DOMAIN FirstCosts[u]
               PROVE  /\ row(u, i) \in Row
                      /\ row(u, i).id = <<u, i>> /\ row(u, i).kind = FirstCosts[u][i]
    OBVIOUS
  <2>1. u \in Nat /\ i \in Nat /\ FirstCosts[u][i] \in STRING
    BY <1>2
  <2>2. QED
    BY <2>1 DEF Row, RowId
<1> HIDE DEF row
<1>4. \A u \in DOMAIN FirstCosts :
         /\ costs[u] \in Seq(Row) /\ DOMAIN costs[u] = DOMAIN FirstCosts[u]
         /\ \A i \in DOMAIN FirstCosts[u] : costs[u][i] = row(u, i)
         /\ RowKinds(costs[u]) = FirstCosts[u]
  <2> SUFFICES ASSUME NEW u \in DOMAIN FirstCosts
               PROVE  /\ costs[u] \in Seq(Row) /\ DOMAIN costs[u] = DOMAIN FirstCosts[u]
                      /\ \A i \in DOMAIN FirstCosts[u] : costs[u][i] = row(u, i)
                      /\ RowKinds(costs[u]) = FirstCosts[u]
    OBVIOUS
  <2> DEFINE kinds == FirstCosts[u]
             rows == [i \in DOMAIN kinds |-> row(u, i)]
  <2>1. costs[u] = rows /\ kinds \in Seq(STRING)
    BY <1>2
  <2>2. \A i \in DOMAIN kinds : row(u, i) \in Row /\ row(u, i).kind = kinds[i]
    BY <1>3
  <2> HIDE DEF kinds
  <2>3. rows \in Seq(Row)
    BY <2>1, <2>2
  <2>4. DOMAIN rows = DOMAIN kinds /\ \A i \in DOMAIN kinds : rows[i] = row(u, i)
    OBVIOUS
  <2>5. RowKinds(rows) = kinds
    <3>1. kinds = [i \in DOMAIN kinds |-> kinds[i]]
      BY <2>1
    <3> HIDE DEF rows
    <3>2. RowKinds(rows) = [i \in DOMAIN kinds |-> kinds[i]]
      BY <2>2, <2>4 DEF RowKinds
    <3>3. QED
      BY <3>1, <3>2
  <2>6. QED
    BY <2>1, <2>3, <2>4, <2>5 DEF kinds
<1>5. costs \in Seq(Seq(Row)) /\ DOMAIN costs = DOMAIN FirstCosts /\ Len(costs) = Len(FirstCosts)
  BY <1>2, <1>4
<1> HIDE DEF costs
<1>6. /\ store.live = DOMAIN FirstCosts /\ store.costs = costs /\ store.made = 0
      /\ store \in Stores /\ Units = DOMAIN FirstCosts
  <2>1. DOMAIN FirstCosts \in SUBSET Nat
    BY <1>2
  <2>2. QED
    BY <1>1, <1>5, <2>1 DEF Stores, Units
<1>7. /\ NoForm \in Forms /\ NoForm.unit = None
      /\ NoSave \in Saves /\ NoSave.unit = None /\ NoSave.at = "idle" /\ NoSave.todo = <<>>
  BY DEF NoForm, Forms, NoSave, Saves, Kinds
<1>8. \A d \in Editors : form[d] = NoForm /\ saving[d] = NoSave
  BY <1>1
<1>9. EditorTyped
  <2>1. form \in [Editors -> Forms] /\ saving \in [Editors -> Saves]
    BY <1>1, <1>7
  <2>2. QED
    BY <1>1, <1>2, <1>5, <1>6, <1>7, <1>8, <2>1 DEF EditorTyped
<1>10. OwnIds
  <2> SUFFICES ASSUME NEW u \in DOMAIN FirstCosts, NEW i \in DOMAIN FirstCosts[u]
               PROVE  /\ costs[u][i].id[1] # 0
                      /\ \A j \in DOMAIN FirstCosts[u] : costs[u][i].id = costs[u][j].id => i = j
    BY <1>4, <1>6 DEF OwnIds
  <2>1. \A j \in DOMAIN FirstCosts[u] : costs[u][j].id = <<u, j>>
    BY <1>3, <1>4
  <2>2. u # 0
    BY <1>2
  <2>3. QED
    BY <2>1, <2>2
<1>11. OneSave /\ ChainsOnCourse
  BY <1>7, <1>8 DEF OneSave, ChainsOnCourse, OnCourse, NoSave
<1>12. NoSilentLoss
  BY <1>1, <1>4, <1>6 DEF NoSilentLoss
<1>13. QED
  BY <1>9, <1>10, <1>11, <1>12 DEF Unspoiled

LEMMA UnspoiledStep == Unspoiled /\ [EditorNext]_editorVars => Unspoiled'
<1> SUFFICES ASSUME Unspoiled, [EditorNext]_editorVars
             PROVE  Unspoiled'
  OBVIOUS
<1>1. CASE UNCHANGED editorVars
  BY <1>1 DEF editorVars, Unspoiled, EditorTyped, OwnIds, OneSave, ChainsOnCourse, OnCourse,
              NoSilentLoss, Units, NoSave
<1>2. CASE \E d \in Editors :
              \/ OpenCreate(d) \/ Fill(d) \/ Close(d)
              \/ \E u \in Units : OpenEdit(d, u) \/ RowsArrive(d, u)
  BY <1>2, FormStepKeeps
<1>3. CASE \E d \in Editors : SubmitUnit(d)
  BY <1>3, SubmissionKeeps
<1>4. CASE \E d \in Editors : AnswerSave(d)
  BY <1>4, AnswerKeeps
<1>5. CASE \E d \in Editors : RefuseSave(d)
  BY <1>5, RefusalKeeps
<1>6. CASE \E d \in Editors : LoseSave(d)
  BY <1>6, LossKeeps
<1>7. CASE \E d \in Editors : SaveDone(d)
  BY <1>7, DoneKeeps
<1>8. CASE \E u \in Units : RemoveUnit(u)
  BY <1>8, RemovalKeeps
<1>9. QED
  BY <1>1, <1>2, <1>3, <1>4, <1>5, <1>6, <1>7, <1>8 DEF EditorNext, EditorRest

\* A unit whose rows are not those of the last save that ended well is being saved or is
\* reported, whatever requests and answers are lost: handleSubmit of AdminApartmentsPage.
THEOREM SavesNeverLoseRows == EditorSpec => []NoSilentLoss
<1>1. Unspoiled => NoSilentLoss
  BY DEF Unspoiled
<1>2. QED
  BY <1>1, UnspoiledInit, UnspoiledStep, PTL DEF EditorSpec
===============================================================================
