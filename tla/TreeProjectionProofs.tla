------------------------ MODULE TreeProjectionProofs ------------------------
(***************************************************************************)
(* Proofs about TreeProjection, for every tree, page size, cache size and  *)
(* order in which pages arrive.                                            *)
(***************************************************************************)
EXTENDS TreeProjection, FiniteSetTheorems, WellFoundedInduction, TLAPS

ItemType ==
  [op : Nat, node : Nodes, level : Nat, up : Nat, expanded : BOOLEAN,
   loading : BOOLEAN, is_selected : BOOLEAN, kids : Seq(Nat)]

PageType == [op : Nat, node : Dirs, nodes : Seq(Nodes)]

TTypes ==
  /\ current \in Nat
  /\ items \in Seq(ItemType)
  /\ visible \in Seq(1..Len(items))
  /\ selected \in 0..Len(items)
  /\ cache \in Seq(PageType)
  /\ loads \subseteq [item : 1..Len(items), op : Nat]

\* No row is of a later scan than the one shown, and a page that is awaited
\* was asked for by a scan no older than its row.
Scans ==
  /\ \A i \in 1..Len(items) : items[i].op <= current
  /\ \A l \in loads : items[l.item].op <= l.op /\ l.op <= current
  /\ \A k \in 1..Len(visible) : items[visible[k]].op = current

\* A row that awaits a page awaits one, and is not expanded meanwhile.
Awaited ==
  /\ \A l, m \in loads : l.item = m.item => l = m
  /\ \A i \in 1..Len(items) :
       /\ items[i].loading <=> \E l \in loads : l.item = i
       /\ items[i].loading => ~items[i].expanded /\ items[i].node \in Dirs

\* What BoundedPageCache holds: pages of directories, each once, as the
\* engine gave them.
GoodPages(s) ==
  /\ \A j, k \in 1..Len(s) :
       j # k => s[j].op # s[k].op \/ s[j].node # s[k].node
  /\ \A k \in 1..Len(s) : s[k] = Page(s[k].op, s[k].node)

Pages == Len(cache) <= MaxPages /\ GoodPages(cache)

\* Every row was made below an older one, and an expanded row has the rows of
\* its page, made one after the other.
PageRows(i) ==
  /\ items[i].node \in Dirs
  /\ Len(items[i].kids) = Len(Page(items[i].op, items[i].node).nodes)
  /\ \A m \in 1..Len(items[i].kids) :
       /\ items[i].kids[m] \in 1..Len(items)
       /\ items[items[i].kids[m]].up = i
       /\ items[items[i].kids[m]].node = Page(items[i].op, items[i].node).nodes[m]
  /\ \A m, n \in 1..Len(items[i].kids) :
       m < n => items[i].kids[m] < items[i].kids[n]

Heap ==
  \A i \in 1..Len(items) :
    items[i].up < i /\ (items[i].expanded => PageRows(i))

\* The p-th row is the parent of the k-th: it is expanded, and no row between
\* them is less deep than the k-th.
ParentAt(p, k) ==
  /\ items[visible[k]].up = visible[p]
  /\ items[visible[p]].expanded
  /\ items[visible[k]].level = items[visible[p]].level + 1
  /\ \A j \in (p + 1)..k : items[visible[j]].level >= items[visible[k]].level
  /\ \E m \in 1..Len(items[visible[p]].kids) : items[visible[p]].kids[m] = visible[k]

\* The list is a tree in preorder.
Nested ==
  /\ \A j, k \in 1..Len(visible) : visible[j] = visible[k] => j = k
  /\ visible # <<>> => items[visible[1]].up = NoItem
  /\ \A k \in 2..Len(visible) : \E p \in 1..(k - 1) : ParentAt(p, k)

\* Below an expanded row are all its rows, in their order.
InList(i) == \E k \in 1..Len(visible) : visible[k] = i
Listed ==
  /\ \A k \in 1..Len(visible) :
       items[visible[k]].expanded =>
         \A m \in 1..Len(items[visible[k]].kids) : InList(items[visible[k]].kids[m])
  /\ \A j, k \in 1..Len(visible) :
       items[visible[j]].up = items[visible[k]].up /\ visible[j] < visible[k]
         => j < k

\* What is selected is in the list, and no other row is marked.
Selection ==
  /\ selected # NoItem => InList(selected)
  /\ \A i \in 1..Len(items) : items[i].is_selected => i = selected

TInv ==
  /\ TTypes /\ Scans /\ Awaited /\ Pages
  /\ Heap /\ Nested /\ Listed /\ Selection

---------------------------------------------------------------------------
(* How the heap of rows changes *)

\* What no step changes of a row.
SamePlace(a, b) ==
  a.op = b.op /\ a.node = b.node /\ a.level = b.level /\ a.up = b.up
SameTree(a, b) == SamePlace(a, b) /\ a.expanded = b.expanded /\ a.kids = b.kids

LEMMA RowSet ==
  ASSUME NEW S, NEW its \in Seq(S), NEW i \in 1..Len(its), NEW row \in S,
         NEW new, new = [its EXCEPT ![i] = row]
  PROVE  /\ new \in Seq(S) /\ Len(new) = Len(its)
         /\ \A j \in 1..Len(its) : new[j] = IF j = i THEN row ELSE its[j]
OBVIOUS

WithLoading(its, i, b) ==
  [its EXCEPT ![i].loading = b]

LEMMA LoadingSet ==
  ASSUME NEW its \in Seq(ItemType), NEW i \in 1..Len(its), NEW b \in BOOLEAN,
         NEW new, new = WithLoading(its, i, b)
  PROVE  /\ new \in Seq(ItemType) /\ Len(new) = Len(its)
         /\ \A j \in 1..Len(its) :
              /\ SameTree(new[j], its[j])
              /\ new[j].is_selected = its[j].is_selected
              /\ new[j].loading = IF j = i THEN b ELSE its[j].loading
<1>1. PICK row \in ItemType : row = [its[i] EXCEPT !.loading = b]
  <2>1. PICK it \in ItemType : it = its[i]
    OBVIOUS
  <2>2. [it EXCEPT !.loading = b] \in ItemType
    BY DEF ItemType
  <2> QED BY <2>1, <2>2
<1>2. /\ SameTree(row, its[i]) /\ row.is_selected = its[i].is_selected
      /\ row.loading = b
  <2>1. PICK it \in ItemType : it = its[i]
    OBVIOUS
  <2> QED BY <1>1, <2>1 DEF ItemType, SameTree, SamePlace
<1>3. new = [its EXCEPT ![i] = row]
  BY <1>1 DEF WithLoading
<1>4. new \in Seq(ItemType) /\ Len(new) = Len(its)
      /\ \A j \in 1..Len(its) : new[j] = IF j = i THEN row ELSE its[j]
  BY <1>3, RowSet
<1>5. \A j \in 1..Len(its) : SameTree(its[j], its[j])
  BY DEF SameTree, SamePlace
<1> QED BY <1>2, <1>4, <1>5

WithMark(its, i, b) ==
  [its EXCEPT ![i].is_selected = b]

LEMMA MarkSet ==
  ASSUME NEW its \in Seq(ItemType), NEW i \in 1..Len(its), NEW b \in BOOLEAN,
         NEW new, new = WithMark(its, i, b)
  PROVE  /\ new \in Seq(ItemType) /\ Len(new) = Len(its)
         /\ \A j \in 1..Len(its) :
              /\ SameTree(new[j], its[j])
              /\ new[j].loading = its[j].loading
              /\ new[j].is_selected = IF j = i THEN b ELSE its[j].is_selected
<1>1. PICK row \in ItemType : row = [its[i] EXCEPT !.is_selected = b]
  <2>1. PICK it \in ItemType : it = its[i]
    OBVIOUS
  <2>2. [it EXCEPT !.is_selected = b] \in ItemType
    BY DEF ItemType
  <2> QED BY <2>1, <2>2
<1>2. /\ SameTree(row, its[i]) /\ row.loading = its[i].loading
      /\ row.is_selected = b
  <2>1. PICK it \in ItemType : it = its[i]
    OBVIOUS
  <2> QED BY <1>1, <2>1 DEF ItemType, SameTree, SamePlace
<1>3. new = [its EXCEPT ![i] = row]
  BY <1>1 DEF WithMark
<1>4. new \in Seq(ItemType) /\ Len(new) = Len(its)
      /\ \A j \in 1..Len(its) : new[j] = IF j = i THEN row ELSE its[j]
  BY <1>3, RowSet
<1>5. \A j \in 1..Len(its) : SameTree(its[j], its[j])
  BY DEF SameTree, SamePlace
<1> QED BY <1>2, <1>4, <1>5

WithCollapsed(its, i) ==
  [its EXCEPT ![i].expanded = FALSE]

CollapsedAs(new, its, i) ==
  /\ new \in Seq(ItemType) /\ Len(new) = Len(its)
  /\ \A j \in 1..Len(its) :
       /\ SamePlace(new[j], its[j])
       /\ new[j].kids = its[j].kids
       /\ new[j].loading = its[j].loading
       /\ new[j].is_selected = its[j].is_selected
       /\ new[j].expanded = IF j = i THEN FALSE ELSE its[j].expanded

LEMMA CollapsedFact ==
  ASSUME NEW its \in Seq(ItemType), NEW i \in 1..Len(its),
         NEW new, new = WithCollapsed(its, i)
  PROVE  CollapsedAs(new, its, i)
<1>1. PICK row \in ItemType : row = [its[i] EXCEPT !.expanded = FALSE]
  <2>1. PICK it \in ItemType : it = its[i]
    OBVIOUS
  <2>2. [it EXCEPT !.expanded = FALSE] \in ItemType
    BY DEF ItemType
  <2> QED BY <2>1, <2>2
<1>2. /\ SamePlace(row, its[i]) /\ row.loading = its[i].loading
      /\ row.is_selected = its[i].is_selected /\ row.kids = its[i].kids
      /\ row.expanded = FALSE
  <2>1. PICK it \in ItemType : it = its[i]
    OBVIOUS
  <2> QED BY <1>1, <2>1 DEF ItemType, SamePlace
<1>3. new = [its EXCEPT ![i] = row]
  BY <1>1 DEF WithCollapsed
<1>4. new \in Seq(ItemType) /\ Len(new) = Len(its)
      /\ \A j \in 1..Len(its) : new[j] = IF j = i THEN row ELSE its[j]
  BY <1>3, RowSet
<1>5. \A j \in 1..Len(its) : SamePlace(its[j], its[j])
  BY DEF SamePlace
<1> QED BY <1>2, <1>4, <1>5 DEF CollapsedAs

WithRows(its, i, rows) ==
  [its EXCEPT ![i].loading = FALSE, ![i].expanded = TRUE, ![i].kids = rows]

ExpandedAs(new, its, i, rows) ==
  /\ new \in Seq(ItemType) /\ Len(new) = Len(its)
  /\ \A j \in 1..Len(its) :
       /\ SamePlace(new[j], its[j])
       /\ new[j].is_selected = its[j].is_selected
       /\ new[j].loading = IF j = i THEN FALSE ELSE its[j].loading
       /\ new[j].expanded = IF j = i THEN TRUE ELSE its[j].expanded
       /\ new[j].kids = IF j = i THEN rows ELSE its[j].kids

LEMMA ExpandedFact ==
  ASSUME NEW its \in Seq(ItemType), NEW i \in 1..Len(its), NEW rows \in Seq(Nat),
         NEW new, new = WithRows(its, i, rows)
  PROVE  ExpandedAs(new, its, i, rows)
<1>1. PICK row \in ItemType :
        row = [its[i] EXCEPT !.loading = FALSE, !.expanded = TRUE, !.kids = rows]
  <2>1. PICK it \in ItemType : it = its[i]
    OBVIOUS
  <2>2. [it EXCEPT !.loading = FALSE, !.expanded = TRUE, !.kids = rows] \in ItemType
    BY DEF ItemType
  <2> QED BY <2>1, <2>2
<1>2. /\ SamePlace(row, its[i]) /\ row.loading = FALSE
      /\ row.is_selected = its[i].is_selected /\ row.kids = rows
      /\ row.expanded = TRUE
  <2>1. PICK it \in ItemType : it = its[i]
    OBVIOUS
  <2> QED BY <1>1, <2>1 DEF ItemType, SamePlace
<1>3. new = [its EXCEPT ![i] = row]
  BY <1>1 DEF WithRows
<1>4. new \in Seq(ItemType) /\ Len(new) = Len(its)
      /\ \A j \in 1..Len(its) : new[j] = IF j = i THEN row ELSE its[j]
  BY <1>3, RowSet
<1>5. \A j \in 1..Len(its) : SamePlace(its[j], its[j])
  BY DEF SamePlace
<1> QED BY <1>2, <1>4, <1>5 DEF ExpandedAs

LEMMA ItemFact ==
  ASSUME NEW op \in Nat, NEW node \in Nodes, NEW level \in Nat, NEW up \in Nat,
         NEW it, it = Item(op, node, level, up)
  PROVE  /\ it \in ItemType
         /\ it.op = op /\ it.node = node /\ it.level = level /\ it.up = up
         /\ ~it.expanded /\ ~it.loading /\ ~it.is_selected
         /\ it.expanded \in BOOLEAN /\ it.kids = <<>>
BY DEF Item, ItemType

MarkedAs(new, its, i, b) ==
  /\ new \in Seq(ItemType) /\ Len(new) = Len(its)
  /\ \A j \in 1..Len(its) :
       /\ SameTree(new[j], its[j])
       /\ new[j].loading = its[j].loading
       /\ new[j].is_selected = IF j = i THEN b ELSE its[j].is_selected

LEMMA MarkedFact ==
  ASSUME NEW its \in Seq(ItemType), NEW i \in 1..Len(its), NEW b \in BOOLEAN
  PROVE  MarkedAs(WithMark(its, i, b), its, i, b)
BY MarkSet DEF MarkedAs

\* The setter of SelectedItem marks no row but the new one.
LEMMA SelectingFact ==
  ASSUME NEW its \in Seq(ItemType), selected \in 0..Len(its), NEW i \in 0..Len(its),
         \A j \in 1..Len(its) : its[j].is_selected => j = selected,
         NEW new, new = Selecting(its, i)
  PROVE  /\ new \in Seq(ItemType) /\ Len(new) = Len(its)
         /\ \A j \in 1..Len(its) :
              /\ SameTree(new[j], its[j])
              /\ new[j].loading = its[j].loading
              /\ new[j].is_selected => j = i
<1> DEFINE unmarked == IF selected = NoItem THEN its
                       ELSE WithMark(its, selected, FALSE)
<1>1. new = IF i \in {selected, NoItem} THEN unmarked
            ELSE WithMark(unmarked, i, TRUE)
  BY DEF Selecting, WithMark
<1>2. \A j \in 1..Len(its) : SameTree(its[j], its[j])
  BY DEF SameTree, SamePlace
<1>3. /\ unmarked \in Seq(ItemType) /\ Len(unmarked) = Len(its)
      /\ \A j \in 1..Len(its) :
           /\ SameTree(unmarked[j], its[j])
           /\ unmarked[j].loading = its[j].loading
           /\ ~unmarked[j].is_selected
  <2>1. CASE selected = NoItem
    BY <1>2, <2>1 DEF NoItem
  <2>2. CASE selected # NoItem
    <3>1. selected \in 1..Len(its) /\ unmarked = WithMark(its, selected, FALSE)
      BY <2>2 DEF NoItem
    <3> HIDE DEF unmarked
    <3>2. MarkedAs(unmarked, its, selected, FALSE)
      BY <3>1, MarkedFact
    <3> QED BY <3>2 DEF MarkedAs
  <2> QED BY <2>1, <2>2
<1> HIDE DEF unmarked
<1>4. CASE i \in {selected, NoItem}
  BY <1>1, <1>3, <1>4
<1>5. CASE i \notin {selected, NoItem}
  <2>1. i \in 1..Len(its) /\ new = WithMark(unmarked, i, TRUE)
    BY <1>1, <1>5 DEF NoItem
  <2>2. MarkedAs(new, unmarked, i, TRUE)
    BY <1>3, <2>1, MarkedFact
  <2>3. ASSUME NEW j \in 1..Len(its)
        PROVE  /\ SameTree(new[j], its[j])
               /\ new[j].loading = its[j].loading
               /\ new[j].is_selected => j = i
    <3>1. /\ SameTree(new[j], unmarked[j])
          /\ new[j].loading = unmarked[j].loading
          /\ new[j].is_selected = IF j = i THEN TRUE ELSE unmarked[j].is_selected
      BY <1>3, <2>2 DEF MarkedAs
    <3>2. SameTree(unmarked[j], its[j]) /\ unmarked[j].loading = its[j].loading
          /\ ~unmarked[j].is_selected
      BY <1>3
    <3> QED BY <3>1, <3>2 DEF SameTree, SamePlace
  <2>4. new \in Seq(ItemType) /\ Len(new) = Len(its)
    BY <1>3, <2>2 DEF MarkedAs
  <2> QED BY <2>3, <2>4
<1> QED BY <1>4, <1>5

---------------------------------------------------------------------------
(* Steps that leave the tree as it is *)

QuietRows ==
  /\ items' \in Seq(ItemType) /\ Len(items') = Len(items)
  /\ \A j \in 1..Len(items) : SameTree(items'[j], items[j])

LEMMA ParentKept ==
  ASSUME TInv, QuietRows, visible' = visible,
         NEW k \in 2..Len(visible), NEW p \in 1..(k - 1), ParentAt(p, k)
  PROVE  ParentAt(p, k)'
<1>1. \A j \in 1..Len(visible) : visible[j] \in 1..Len(items)
  BY SMTT(60) DEF TInv, TTypes
<1>2. Len(visible) \in Nat
  BY DEF TInv, TTypes
<1>3. \A j \in 1..Len(visible) :
        /\ items'[visible[j]].up = items[visible[j]].up
        /\ items'[visible[j]].level = items[visible[j]].level
        /\ items'[visible[j]].expanded = items[visible[j]].expanded
        /\ items'[visible[j]].kids = items[visible[j]].kids
  BY <1>1 DEF QuietRows, SameTree, SamePlace
<1>4. k \in 1..Len(visible) /\ p \in 1..Len(visible)
      /\ \A j \in (p + 1)..k : j \in 1..Len(visible)
  BY <1>2
<1> QED BY <1>3, <1>4 DEF ParentAt

LEMMA TreeKept ==
  ASSUME TInv, QuietRows, visible' = visible
  PROVE  Heap' /\ Nested' /\ Listed'
<1>0. TTypes /\ Heap /\ Nested /\ Listed
  BY DEF TInv
<1>1. \A j \in 1..Len(visible) : visible[j] \in 1..Len(items)
  BY <1>0 DEF TTypes
<1>2. Len(visible) \in Nat /\ Len(items) \in Nat
  BY <1>0 DEF TTypes
<1>3. /\ Len(items') = Len(items)
      /\ \A j \in 1..Len(items) :
          /\ items'[j].op = items[j].op
          /\ items'[j].node = items[j].node
          /\ items'[j].up = items[j].up
          /\ items'[j].level = items[j].level
          /\ items'[j].expanded = items[j].expanded
          /\ items'[j].kids = items[j].kids
  BY DEF QuietRows, SameTree, SamePlace
<1>4. Heap'
  <2>1. ASSUME NEW i \in 1..Len(items)
        PROVE  items'[i].up < i /\ (items'[i].expanded => PageRows(i)')
    <3>1. items[i].up < i
      BY <1>0 DEF Heap
    <3>2. CASE ~items[i].expanded
      BY <1>3, <3>1, <3>2
    <3>3. CASE items[i].expanded
      <4>1. PageRows(i)
        BY <1>0, <3>3 DEF Heap
      <4>2. \A m \in 1..Len(items[i].kids) :
              /\ items[i].kids[m] \in 1..Len(items)
              /\ items'[items[i].kids[m]].up = i
              /\ items'[items[i].kids[m]].node
                   = Page(items[i].op, items[i].node).nodes[m]
        BY <1>3, <4>1, ZenonT(60) DEF PageRows
      <4>3. PageRows(i)'
        BY <1>3, <4>1, <4>2, ZenonT(60) DEF PageRows, Page
      <4> QED BY <1>3, <3>1, <4>3
    <3> QED BY <3>2, <3>3
  <2> QED BY <1>3, <2>1 DEF Heap
<1>5. Nested'
  <2>1. \A k \in 2..Len(visible) : \E p \in 1..(k - 1) : ParentAt(p, k)'
    <3> TAKE k \in 2..Len(visible)
    <3>1. PICK p \in 1..(k - 1) : ParentAt(p, k)
      BY <1>0 DEF Nested
    <3> QED BY <3>1, ParentKept
  <2>2. visible # <<>> => items'[visible[1]].up = items[visible[1]].up
    <3> HAVE visible # <<>>
    <3>1. 1 \in 1..Len(visible)
      BY <1>0, <1>2 DEF TTypes
    <3> QED BY <1>1, <1>3, <3>1
  <2> QED BY <1>0, <2>1, <2>2 DEF Nested
<1>6. Listed'
  <2>1. ASSUME NEW k \in 1..Len(visible), items'[visible[k]].expanded,
               NEW m \in 1..Len(items'[visible[k]].kids)
        PROVE  InList(items[visible[k]].kids[m])'
    <3>1. InList(items[visible[k]].kids[m])
      BY <1>0, <1>1, <1>3, <2>1 DEF Listed
    <3> QED BY <1>1, <1>3, <3>1 DEF InList
  <2>2. \A j, k \in 1..Len(visible) :
          items'[visible[j]].up = items'[visible[k]].up /\ visible[j] < visible[k]
            => j < k
    BY <1>0, <1>1, <1>3 DEF Listed
  <2> QED BY <2>1, <2>2 DEF Listed
<1> QED BY <1>4, <1>5, <1>6

\* A step of the selection: every row it can name is in the list.
LEMMA SelectKeeps ==
  ASSUME TInv, NEW i, Select(i),
         i # NoItem => InList(i)
  PROVE  TInv'
<1>0. TTypes /\ Scans /\ Awaited /\ Pages /\ Selection
  BY DEF TInv
<1>1. /\ selected' = i /\ items' = Selecting(items, i)
      /\ UNCHANGED <<current, visible, cache, loads>>
  BY DEF Select
<1>2. i \in 0..Len(items)
  <2>1. Len(items) \in Nat /\ \A k \in 1..Len(visible) : visible[k] \in 1..Len(items)
    BY <1>0 DEF TTypes
  <2> QED BY <2>1 DEF NoItem, InList
<1>3. items \in Seq(ItemType) /\ selected \in 0..Len(items)
      /\ \A j \in 1..Len(items) : items[j].is_selected => j = selected
  BY <1>0 DEF TTypes, Selection
<1>4. /\ items' \in Seq(ItemType) /\ Len(items') = Len(items)
      /\ \A j \in 1..Len(items) :
           /\ SameTree(items'[j], items[j])
           /\ items'[j].loading = items[j].loading
           /\ items'[j].is_selected => j = i
  BY <1>1, <1>2, <1>3, SelectingFact
<1>5. QuietRows
  BY <1>4 DEF QuietRows
<1>6. Heap' /\ Nested' /\ Listed'
  BY <1>1, <1>5, TreeKept
<1>7. TTypes'
  BY <1>0, <1>1, <1>2, <1>4 DEF TTypes
<1>8. \A j \in 1..Len(items) :
        items'[j].op = items[j].op /\ items'[j].expanded = items[j].expanded
        /\ items'[j].node = items[j].node
  BY <1>4 DEF SameTree, SamePlace
<1>9. Scans'
  <2>1. \A k \in 1..Len(visible) : visible[k] \in 1..Len(items)
    BY <1>0 DEF TTypes
  <2>2. \A l \in loads : l.item \in 1..Len(items)
    BY <1>0 DEF TTypes
  <2>3. \A k \in 1..Len(visible) : items'[visible[k]].op = current
    BY <1>0, <1>8, <2>1 DEF Scans
  <2>4. \A l \in loads : items'[l.item].op <= l.op /\ l.op <= current
    BY <1>0, <1>8, <2>2 DEF Scans
  <2>5. \A j \in 1..Len(items) : items'[j].op <= current
    BY <1>0, <1>8 DEF Scans
  <2> QED BY <1>1, <1>4, <2>3, <2>4, <2>5 DEF Scans
<1>10. Awaited'
  BY <1>0, <1>1, <1>4, <1>8 DEF Awaited
<1>11. Pages'
  BY <1>0, <1>1, ZenonT(60) DEF Pages, GoodPages, Page
<1>12. Selection'
  BY <1>1, <1>4 DEF Selection, InList
<1> QED BY <1>6, <1>7, <1>9, <1>10, <1>11, <1>12 DEF TInv

---------------------------------------------------------------------------
(* The page cache *)

LEMMA MinFact ==
  ASSUME NEW a \in Nat, NEW b \in Nat
  PROVE  Min({a, b}) \in Nat /\ Min({a, b}) <= a /\ Min({a, b}) <= b
                             /\ Min({a, b}) \in {a, b}
<1>1. \E x \in {a, b} : \A y \in {a, b} : x <= y
  OBVIOUS
<1>2. Min({a, b}) \in {a, b} /\ \A y \in {a, b} : Min({a, b}) <= y
  BY <1>1 DEF Min
<1> QED BY <1>2

LEMMA MaxFact ==
  ASSUME NEW a \in Int, NEW b \in Int
  PROVE  Max({a, b}) \in Int /\ Max({a, b}) >= a /\ Max({a, b}) >= b
                             /\ Max({a, b}) \in {a, b}
<1>1. \E x \in {a, b} : \A y \in {a, b} : x >= y
  OBVIOUS
<1>2. Max({a, b}) \in {a, b} /\ \A y \in {a, b} : Max({a, b}) >= y
  BY <1>1 DEF Max
<1> QED BY <1>2

LEMMA PageFact ==
  ASSUME NEW op \in Nat, NEW node \in Dirs
  PROVE  /\ Page(op, node) \in PageType
         /\ Page(op, node).op = op /\ Page(op, node).node = node
         /\ Page(op, node).nodes \in Seq(Nodes)
         /\ Page(op, node) = Page(Page(op, node).op, Page(op, node).node)
<1>1. Kids[node] \in Seq(Nodes) /\ Len(Kids[node]) \in Nat /\ PageSize \in Nat
  BY ProjectionAssumption
<1>2. PICK n \in Nat : n = Min({PageSize, Len(Kids[node])}) /\ n <= Len(Kids[node])
  BY <1>1, MinFact
<1>3. PICK s \in Seq(Nodes) : s = SubSeq(Kids[node], 1, n)
  <2>1. PICK kids \in Seq(Nodes) : kids = Kids[node]
    BY <1>1
  <2>3. n \in Nat /\ n <= Len(kids)
    BY <1>2, <2>1
  <2>2. SubSeq(kids, 1, n) \in Seq(Nodes)
    BY <2>3
  <2> QED BY <2>1, <2>2
<1>4. Page(op, node) = [op |-> op, node |-> node, nodes |-> s]
  BY <1>2, <1>3 DEF Page
<1> QED BY <1>4 DEF PageType

LEMMA RemoveAtFact ==
  ASSUME NEW S, NEW s \in Seq(S), NEW k \in 1..Len(s)
  PROVE  /\ RemoveAt(s, k) \in Seq(S) /\ Len(RemoveAt(s, k)) = Len(s) - 1
         /\ \A j \in 1..(Len(s) - 1) :
              RemoveAt(s, k)[j] = IF j < k THEN s[j] ELSE s[j + 1]
<1>1. PICK a \in Seq(S) : a = SubSeq(s, 1, k - 1)
  <2>1. SubSeq(s, 1, k - 1) \in Seq(S)
    OBVIOUS
  <2> QED BY <2>1
<1>2. PICK b \in Seq(S) : b = SubSeq(s, k + 1, Len(s))
  <2>1. SubSeq(s, k + 1, Len(s)) \in Seq(S)
    OBVIOUS
  <2> QED BY <2>1
<1>3. Len(a) = k - 1 /\ \A j \in 1..(k - 1) : a[j] = s[j]
  BY <1>1
<1>4. Len(b) = Len(s) - k /\ \A j \in 1..(Len(s) - k) : b[j] = s[k + j]
  BY <1>2
<1>5. RemoveAt(s, k) = a \o b
  BY <1>1, <1>2 DEF RemoveAt
<1>6. RemoveAt(s, k) \in Seq(S) /\ Len(RemoveAt(s, k)) = Len(s) - 1
  BY <1>3, <1>4, <1>5
<1>7. ASSUME NEW j \in 1..(Len(s) - 1)
      PROVE  RemoveAt(s, k)[j] = IF j < k THEN s[j] ELSE s[j + 1]
  <2>1. CASE j < k
    <3>1. j \in 1..Len(a)
      BY <1>3, <2>1
    <3>2. (a \o b)[j] = a[j]
      BY <3>1
    <3> QED BY <1>3, <1>5, <2>1, <3>1, <3>2
  <2>2. CASE ~(j < k)
    <3>1. PICK m \in Nat : m = j - (k - 1)
      BY <2>2
    <3>2. m \in 1..(Len(s) - k) /\ m \in 1..Len(b) /\ j = Len(a) + m /\ k + m = j + 1
      BY <1>3, <1>4, <2>2, <3>1
    <3>3. (a \o b)[j] = b[m]
      BY <3>2
    <3> QED BY <1>4, <1>5, <2>2, <3>2, <3>3
  <2> QED BY <2>1, <2>2
<1> QED BY <1>6, <1>7

LEMMA AppendGood ==
  ASSUME NEW s \in Seq(PageType), GoodPages(s), NEW page \in PageType,
         page = Page(page.op, page.node),
         \A k \in 1..Len(s) : ~IsPageOf(s[k], page.op, page.node)
  PROVE  GoodPages(Append(s, page))
<1>1. PICK t \in Seq(PageType) : t = Append(s, page)
  <2>1. Append(s, page) \in Seq(PageType)
    OBVIOUS
  <2> QED BY <2>1
<1>2. /\ Len(t) = Len(s) + 1 /\ t[Len(s) + 1] = page
      /\ \A k \in 1..Len(s) : t[k] = s[k]
  BY <1>1
<1>3. \A k \in 1..Len(t) : k = Len(s) + 1 \/ k \in 1..Len(s)
  BY <1>2
<1>4. \A j, k \in 1..Len(t) : j # k => t[j].op # t[k].op \/ t[j].node # t[k].node
  BY <1>2, <1>3 DEF GoodPages, IsPageOf
<1>5. \A k \in 1..Len(t) : t[k] = Page(t[k].op, t[k].node)
  BY <1>2, <1>3 DEF GoodPages
<1> QED BY <1>1, <1>4, <1>5 DEF GoodPages

LEMMA SubSeqGood ==
  ASSUME NEW s \in Seq(PageType), GoodPages(s), NEW a \in Nat \ {0}
  PROVE  /\ SubSeq(s, a, Len(s)) \in Seq(PageType)
         /\ GoodPages(SubSeq(s, a, Len(s)))
         /\ \A k \in 1..Len(SubSeq(s, a, Len(s))) :
              \E j \in 1..Len(s) : SubSeq(s, a, Len(s))[k] = s[j]
         /\ Len(SubSeq(s, a, Len(s))) = IF a <= Len(s) THEN Len(s) - a + 1 ELSE 0
<1>1. PICK t \in Seq(PageType) : t = SubSeq(s, a, Len(s))
  <2>1. SubSeq(s, a, Len(s)) \in Seq(PageType)
    OBVIOUS
  <2> QED BY <2>1
<1>2. Len(t) = IF a <= Len(s) THEN Len(s) - a + 1 ELSE 0
  BY <1>1
<1>3. \A k \in 1..Len(t) : a + k - 1 \in 1..Len(s) /\ t[k] = s[a + k - 1]
  BY <1>1, <1>2
<1>4. ASSUME NEW j \in 1..Len(t), NEW k \in 1..Len(t), j # k
      PROVE  t[j].op # t[k].op \/ t[j].node # t[k].node
  <2>1. PICK x \in 1..Len(s), y \in 1..Len(s) : x = a + j - 1 /\ y = a + k - 1
    BY <1>3
  <2>2. x # y /\ t[j] = s[x] /\ t[k] = s[y]
    BY <1>3, <1>4, <2>1
  <2> QED BY <2>2 DEF GoodPages
<1>5. GoodPages(t)
  <2>1. \A k \in 1..Len(t) : t[k] = Page(t[k].op, t[k].node)
    BY <1>3 DEF GoodPages
  <2> QED BY <1>4, <2>1 DEF GoodPages
<1> QED BY <1>1, <1>2, <1>3, <1>5

\* What is left without a page: the other pages, in their order.
LEMMA WithoutFact ==
  ASSUME TInv, NEW op \in Nat, NEW node \in Dirs
  PROVE  /\ Without(op, node) \in Seq(PageType) /\ GoodPages(Without(op, node))
         /\ Len(Without(op, node)) <= Len(cache)
         /\ Cached(op, node) => Len(Without(op, node)) = Len(cache) - 1
         /\ \A k \in 1..Len(Without(op, node)) :
              ~IsPageOf(Without(op, node)[k], op, node)
<1>0. cache \in Seq(PageType) /\ GoodPages(cache) /\ Len(cache) \in Nat
      /\ DOMAIN cache = 1..Len(cache)
  BY DEF TInv, TTypes, Pages
<1>1. CASE ~Cached(op, node)
  <2>1. Without(op, node) = cache
    BY <1>1 DEF Without
  <2>2. \A k \in 1..Len(cache) : ~IsPageOf(cache[k], op, node)
    BY <1>0, <1>1 DEF Cached
  <2>3. Len(cache) <= Len(cache)
    BY <1>0
  <2> QED BY <1>0, <1>1, <2>1, <2>2, <2>3, ZenonT(60)
<1>2. CASE Cached(op, node)
  <2>1. Place(op, node) \in 1..Len(cache) /\ IsPageOf(cache[Place(op, node)], op, node)
    BY <1>0, <1>2 DEF Cached, Place
  <2>2. PICK p \in 1..Len(cache) : p = Place(op, node) /\ IsPageOf(cache[p], op, node)
    BY <2>1
  <2>3. PICK t : t = Without(op, node)
    BY Zenon
  <2>4. /\ t \in Seq(PageType) /\ Len(t) = Len(cache) - 1
        /\ \A j \in 1..(Len(cache) - 1) :
             t[j] = IF j < p THEN cache[j] ELSE cache[j + 1]
    BY <1>0, <1>2, <2>2, <2>3, RemoveAtFact, ZenonT(60) DEF Without
  <2>5. \A j \in 1..Len(t) : \E k \in 1..Len(cache) :
          k # p /\ t[j] = cache[k] /\ (IF j < p THEN k = j ELSE k = j + 1)
    <3> TAKE j \in 1..Len(t)
    <3>1. CASE j < p
      BY <1>0, <2>4, <3>1
    <3>2. CASE ~(j < p)
      <4>1. j + 1 \in 1..Len(cache) /\ j + 1 # p /\ t[j] = cache[j + 1]
        BY <1>0, <2>4, <3>2
      <4> QED BY <3>2, <4>1
    <3> QED BY <3>1, <3>2
  <2>6. \A j \in 1..Len(t) : ~IsPageOf(t[j], op, node)
    <3> TAKE j \in 1..Len(t)
    <3>1. PICK k \in 1..Len(cache) : k # p /\ t[j] = cache[k]
      BY <2>5
    <3> QED BY <1>0, <2>2, <3>1 DEF GoodPages, IsPageOf
  <2>7. GoodPages(t)
    <3>1. \A k \in 1..Len(t) : t[k] = Page(t[k].op, t[k].node)
      BY <1>0, <2>5 DEF GoodPages
    <3>2. ASSUME NEW j \in 1..Len(t), NEW k \in 1..Len(t), j # k
          PROVE  t[j].op # t[k].op \/ t[j].node # t[k].node
      <4>1. PICK jj \in 1..Len(cache) :
              t[j] = cache[jj] /\ (IF j < p THEN jj = j ELSE jj = j + 1)
        BY <2>5
      <4>2. PICK kk \in 1..Len(cache) :
              t[k] = cache[kk] /\ (IF k < p THEN kk = k ELSE kk = k + 1)
        BY <2>5
      <4>3. jj # kk
        BY <2>4, <3>2, <4>1, <4>2
      <4> QED BY <1>0, <4>1, <4>2, <4>3 DEF GoodPages
    <3> QED BY <3>1, <3>2 DEF GoodPages
  <2> QED BY <1>0, <2>3, <2>4, <2>6, <2>7
<1> QED BY <1>1, <1>2

\* A page that is found is the engine's.
LEMMA FoundFact ==
  ASSUME TInv, NEW op \in Nat, NEW node \in Dirs, Cached(op, node)
  PROVE  /\ Found(op, node) = Page(op, node)
         /\ Touched(op, node) \in Seq(PageType)
         /\ GoodPages(Touched(op, node)) /\ Len(Touched(op, node)) <= MaxPages
<1>0. cache \in Seq(PageType) /\ GoodPages(cache) /\ Len(cache) \in Nat
      /\ DOMAIN cache = 1..Len(cache) /\ Len(cache) <= MaxPages
  BY DEF TInv, TTypes, Pages
<1>1. Place(op, node) \in 1..Len(cache) /\ IsPageOf(cache[Place(op, node)], op, node)
  BY <1>0 DEF Cached, Place
<1>2. Found(op, node) = Page(op, node)
  BY <1>0, <1>1 DEF Found, GoodPages, IsPageOf
<1>3. PICK page \in PageType : page = Page(op, node)
  BY PageFact
<1>4. page.op = op /\ page.node = node /\ page = Page(page.op, page.node)
  BY <1>3, PageFact
<1>5. PICK t \in Seq(PageType) : t = Without(op, node)
  BY WithoutFact
<1>6. GoodPages(t) /\ Len(t) = Len(cache) - 1
      /\ \A k \in 1..Len(t) : ~IsPageOf(t[k], op, node)
  BY <1>5, WithoutFact
<1>7. Touched(op, node) = Append(t, page)
  BY <1>2, <1>3, <1>5 DEF Touched
<1>8. GoodPages(Append(t, page))
  BY <1>4, <1>6, AppendGood
<1>9. Append(t, page) \in Seq(PageType) /\ Len(Append(t, page)) = Len(cache)
  <2>1. Append(t, page) \in Seq(PageType) /\ Len(Append(t, page)) = Len(t) + 1
    OBVIOUS
  <2>2. Len(t) \in Nat
    OBVIOUS
  <2> QED BY <1>0, <1>6, <2>1, <2>2
<1> QED BY <1>0, <1>2, <1>7, <1>8, <1>9

LEMMA PutPageFact ==
  ASSUME TInv, NEW op \in Nat, NEW node \in Dirs, PutPage(Page(op, node))
  PROVE  cache' \in Seq(PageType) /\ GoodPages(cache') /\ Len(cache') <= MaxPages
<1>3. PICK page \in PageType : page = Page(op, node)
  BY PageFact
<1>4. page.op = op /\ page.node = node /\ page = Page(page.op, page.node)
  BY <1>3, PageFact
<1>5. PICK t \in Seq(PageType) : t = Without(op, node)
  BY WithoutFact
<1>6. GoodPages(t) /\ \A k \in 1..Len(t) : ~IsPageOf(t[k], op, node)
  BY <1>5, WithoutFact
<1>7. MaxPages \in Nat \ {0} /\ Len(t) \in Nat
  BY ProjectionAssumption
<1>8. PICK a \in Nat \ {0} :
        /\ a = Max({1, Len(t) - MaxPages + 2}) /\ a >= Len(t) - MaxPages + 2
  <2>1. PICK d \in Int : d = Len(t) - MaxPages + 2
    BY <1>7, SMTT(60)
  <2>4. 1 \in Int
    OBVIOUS
  <2>3. Max({1, d}) \in Int /\ Max({1, d}) >= 1 /\ Max({1, d}) >= d
    BY <2>4, MaxFact, Zenon
  <2>2. /\ Max({1, Len(t) - MaxPages + 2}) \in Int
        /\ Max({1, Len(t) - MaxPages + 2}) >= 1
        /\ Max({1, Len(t) - MaxPages + 2}) >= Len(t) - MaxPages + 2
    BY <2>1, <2>3
  <2> QED BY <2>2
<1>9. PICK room \in Seq(PageType) : room = SubSeq(t, a, Len(t))
  BY <1>6, SubSeqGood
<1>10. /\ GoodPages(room)
       /\ \A k \in 1..Len(room) : \E j \in 1..Len(t) : room[k] = t[j]
       /\ Len(room) = IF a <= Len(t) THEN Len(t) - a + 1 ELSE 0
  BY <1>6, <1>9, SubSeqGood
<1>11. \A k \in 1..Len(room) : ~IsPageOf(room[k], page.op, page.node)
  BY <1>4, <1>6, <1>10
<1>12. cache' = Append(room, page)
  BY <1>3, <1>4, <1>5, <1>8, <1>9 DEF PutPage
<1>13. GoodPages(Append(room, page))
  BY <1>4, <1>10, <1>11, AppendGood
<1>14. Append(room, page) \in Seq(PageType) /\ Len(Append(room, page)) = Len(room) + 1
  OBVIOUS
<1>15. Len(room) + 1 <= MaxPages
  BY <1>7, <1>8, <1>10
<1> QED BY <1>12, <1>13, <1>14, <1>15

---------------------------------------------------------------------------
(* A page is asked for, or does not come *)

LEMMA PagesKept ==
  ASSUME TInv, cache' = cache
  PROVE  Pages'
BY SMTT(60) DEF TInv, Pages, GoodPages, Page

\* A step that switches the spinner of one row.
LEMMA LoadingStep ==
  ASSUME TInv, NEW i \in 1..Len(items), NEW b \in BOOLEAN,
         items' = WithLoading(items, i, b),
         UNCHANGED <<current, visible, selected>>,
         cache' \in Seq(PageType), Pages',
         loads' \subseteq [item : 1..Len(items), op : Nat],
         \A l \in loads' : items[l.item].op <= l.op /\ l.op <= current,
         \A l, m \in loads' : l.item = m.item => l = m,
         b => ~items[i].expanded /\ items[i].node \in Dirs,
         b <=> \E l \in loads' : l.item = i,
         \A l : l.item # i => (l \in loads' <=> l \in loads)
  PROVE  TInv'
<1>0. TTypes /\ Scans /\ Awaited /\ Pages /\ Selection
  BY DEF TInv
<1>1. /\ items' \in Seq(ItemType) /\ Len(items') = Len(items)
      /\ \A j \in 1..Len(items) :
           /\ SameTree(items'[j], items[j])
           /\ items'[j].is_selected = items[j].is_selected
           /\ items'[j].loading = IF j = i THEN b ELSE items[j].loading
  BY <1>0, LoadingSet, SMTT(60) DEF TTypes
<1>2. QuietRows
  BY <1>1 DEF QuietRows
<1>3. Heap' /\ Nested' /\ Listed'
  BY <1>2, TreeKept
<1>4. TTypes'
  BY <1>0, <1>1 DEF TTypes
<1>5. \A j \in 1..Len(items) :
        items'[j].op = items[j].op /\ items'[j].expanded = items[j].expanded
        /\ items'[j].node = items[j].node
  BY <1>1 DEF SameTree, SamePlace
<1>6. Scans'
  <2>1. \A k \in 1..Len(visible) : visible[k] \in 1..Len(items)
    BY <1>0, SMTT(60) DEF TTypes
  <2>2. \A l \in loads' : l.item \in 1..Len(items)
    OBVIOUS
  <2>3. \A k \in 1..Len(visible) : items'[visible[k]].op = current
    BY <1>0, <1>5, <2>1 DEF Scans
  <2>4. \A l \in loads' : items'[l.item].op <= l.op /\ l.op <= current
    BY <1>5, <2>2
  <2>5. \A j \in 1..Len(items) : items'[j].op <= current
    BY <1>0, <1>5 DEF Scans
  <2> QED BY <1>1, <2>3, <2>4, <2>5 DEF Scans
<1>7. Awaited'
  <2>1. ASSUME NEW j \in 1..Len(items)
        PROVE  /\ items'[j].loading <=> \E l \in loads' : l.item = j
               /\ items'[j].loading => ~items'[j].expanded /\ items'[j].node \in Dirs
    <3>1. CASE j = i
      BY <1>1, <1>5, <3>1
    <3>2. CASE j # i
      <4>1. items'[j].loading = items[j].loading
        BY <1>1, <3>2
      <4>2. (\E l \in loads' : l.item = j) <=> \E l \in loads : l.item = j
        BY <3>2
      <4> QED BY <1>0, <1>5, <4>1, <4>2 DEF Awaited
    <3> QED BY <3>1, <3>2
  <2> QED BY <1>1, <2>1 DEF Awaited
<1>9. Selection'
  BY <1>0, <1>1 DEF Selection, InList
<1> QED BY <1>3, <1>4, <1>6, <1>7, <1>9 DEF TInv

LEMMA ExpandBeginsKeeps ==
  ASSUME TInv, NEW i \in 1..Len(items), ExpandBegins(i)
  PROVE  TInv'
<1>0. TTypes /\ Scans /\ Awaited
  BY DEF TInv
<1>1. /\ ~items[i].expanded /\ ~items[i].loading /\ items[i].node \in Dirs
      /\ items' = WithLoading(items, i, TRUE)
      /\ UNCHANGED <<current, visible, selected, cache>>
  BY DEF ExpandBegins, Expandable, HasChildren, WithLoading
<1>2. PICK new : new = [item |-> i, op |-> current]
  OBVIOUS
<1>3. loads' = loads \union {new} /\ new.item = i /\ new.op = current
      /\ new \in [item : 1..Len(items), op : Nat]
  BY <1>0, <1>2 DEF ExpandBegins, TTypes
<1>4. \A l \in loads : l.item # i
  BY <1>0, <1>1 DEF Awaited
<1>5. loads' \subseteq [item : 1..Len(items), op : Nat]
  BY <1>0, <1>3 DEF TTypes
<1>6. \A l \in loads' : items[l.item].op <= l.op /\ l.op <= current
  <2>1. items[i].op <= current /\ current \in Nat
    BY <1>0 DEF Scans, TTypes
  <2>2. \A l \in loads : items[l.item].op <= l.op /\ l.op <= current
    BY <1>0 DEF Scans
  <2> QED BY <1>3, <2>1, <2>2
<1>7. \A l, m \in loads' : l.item = m.item => l = m
  BY <1>0, <1>3, <1>4 DEF Awaited
<1>8. \E l \in loads' : l.item = i
  BY <1>3
<1>9. \A l : l.item # i => (l \in loads' <=> l \in loads)
  BY <1>3
<1>10. cache' \in Seq(PageType) /\ Pages'
  BY <1>1, PagesKept DEF TInv, TTypes
<1> QED BY <1>1, <1>5, <1>6, <1>7, <1>8, <1>9, <1>10, LoadingStep

LEMMA ExpandFailsKeeps ==
  ASSUME TInv, NEW load \in loads, ExpandFails(load)
  PROVE  TInv'
<1>0. TTypes /\ Scans /\ Awaited
  BY DEF TInv
<1>1. PICK i \in 1..Len(items) : i = load.item
  BY <1>0 DEF TTypes
<1>2. /\ items' = WithLoading(items, i, FALSE) /\ loads' = loads \ {load}
      /\ UNCHANGED <<current, visible, selected, cache>>
  BY <1>1 DEF ExpandFails, WithLoading
<1>3. loads' \subseteq [item : 1..Len(items), op : Nat]
  BY <1>0, <1>2 DEF TTypes
<1>4. \A l \in loads' : items[l.item].op <= l.op /\ l.op <= current
  BY <1>0, <1>2 DEF Scans
<1>5. \A l, m \in loads' : l.item = m.item => l = m
  BY <1>0, <1>2 DEF Awaited
<1>6. ~\E l \in loads' : l.item = i
  BY <1>0, <1>1, <1>2 DEF Awaited
<1>7. \A l : l.item # i => (l \in loads' <=> l \in loads)
  BY <1>1, <1>2
<1>8. cache' \in Seq(PageType) /\ Pages'
  BY <1>2, PagesKept DEF TInv, TTypes
<1> QED BY <1>2, <1>3, <1>4, <1>5, <1>6, <1>7, <1>8, LoadingStep

---------------------------------------------------------------------------
(* The root of a new scan *)

Grown ==
  /\ Len(items) \in Nat /\ Len(items') \in Nat /\ Len(items) <= Len(items')
  /\ \A j \in 1..Len(items) : SamePlace(items'[j], items[j])

\* The rows of a page stay what they are.
LEMMA PageRowsKept ==
  ASSUME Grown, NEW i \in 1..Len(items), PageRows(i), items'[i].kids = items[i].kids
  PROVE  PageRows(i)'
<1>1. \A j \in 1..Len(items) : j \in 1..Len(items')
  BY DEF Grown
<1>2. \A j \in 1..Len(items) :
        items'[j].op = items[j].op /\ items'[j].node = items[j].node
        /\ items'[j].up = items[j].up
  BY DEF Grown, SamePlace
<1>3. \A m \in 1..Len(items[i].kids) :
        /\ items[i].kids[m] \in 1..Len(items')
        /\ items'[items[i].kids[m]].up = i
        /\ items'[items[i].kids[m]].node = Page(items[i].op, items[i].node).nodes[m]
  BY <1>1, <1>2, ZenonT(60) DEF PageRows
<1> QED BY <1>2, <1>3, ZenonT(60) DEF PageRows, Page

LEMMA InitializeRootKeeps ==
  ASSUME TInv, InitializeRoot
  PROVE  TInv'
<1>0. TTypes /\ Scans /\ Awaited /\ Heap /\ Selection
  BY DEF TInv
<1>1. PICK n \in Nat : n = Len(items) + 1
  BY <1>0 DEF TTypes
<1>2. PICK it : it = Item(current + 1, Root, 0, NoItem)
  OBVIOUS
<1>3. /\ current' = current + 1 /\ cache' = <<>> /\ visible' = <<n>> /\ selected' = n
      /\ items' = Selecting(Append(items, it), n) /\ loads' = loads
  BY <1>1, <1>2 DEF InitializeRoot
<1>4. /\ it \in ItemType /\ it.op = current + 1 /\ it.up = NoItem
      /\ ~it.expanded /\ ~it.loading /\ ~it.is_selected
  <2>1. current + 1 \in Nat /\ Root \in Nodes /\ 0 \in Nat /\ NoItem \in Nat
    BY <1>0, ProjectionAssumption DEF TTypes, Nodes, NoItem
  <2> QED BY <1>2, <2>1, ItemFact
<1>5. PICK its : its = Append(items, it)
  OBVIOUS
<1>6. /\ its \in Seq(ItemType) /\ Len(its) = n /\ its[n] = it
      /\ \A j \in 1..Len(items) : its[j] = items[j]
  BY <1>0, <1>1, <1>4, <1>5 DEF TTypes
<1>7. Len(items) \in Nat /\ \A j \in 1..n : j = n \/ j \in 1..Len(items)
  BY <1>0, <1>1 DEF TTypes
<1>8. selected \in 0..Len(its) /\ n \in 0..Len(its)
      /\ \A j \in 1..Len(its) : its[j].is_selected => j = selected
  <2>1. selected \in 0..Len(items)
    BY <1>0 DEF TTypes
  <2>2. selected \in 0..Len(its) /\ n \in 0..Len(its)
    BY <1>1, <1>6, <1>7, <2>1
  <2>3. \A j \in 1..Len(its) : its[j].is_selected => j = selected
    BY <1>0, <1>4, <1>6, <1>7 DEF Selection
  <2> QED BY <2>2, <2>3
<1>9. /\ items' \in Seq(ItemType) /\ Len(items') = n
      /\ \A j \in 1..n :
           /\ SameTree(items'[j], its[j])
           /\ items'[j].loading = its[j].loading
           /\ items'[j].is_selected => j = n
  <2>1. /\ Selecting(its, n) \in Seq(ItemType) /\ Len(Selecting(its, n)) = Len(its)
        /\ \A j \in 1..Len(its) :
              /\ SameTree(Selecting(its, n)[j], its[j])
              /\ Selecting(its, n)[j].loading = its[j].loading
              /\ Selecting(its, n)[j].is_selected => j = n
    <3>1. its \in Seq(ItemType)
      BY <1>6
    <3> QED BY <1>8, <3>1, SelectingFact
  <2> QED BY <1>3, <1>5, <1>6, <2>1
<1>10. \A j \in 1..Len(items) :
         /\ items'[j].op = items[j].op /\ items'[j].node = items[j].node
         /\ items'[j].up = items[j].up /\ items'[j].expanded = items[j].expanded
         /\ items'[j].kids = items[j].kids /\ items'[j].loading = items[j].loading
  BY <1>1, <1>6, <1>7, <1>9 DEF SameTree, SamePlace
<1>19. Grown
  BY <1>1, <1>6, <1>7, <1>9 DEF Grown, SameTree, SamePlace
<1>11. /\ n \in 1..n /\ items'[n].op = current + 1 /\ items'[n].up = NoItem
       /\ ~items'[n].expanded /\ ~items'[n].loading
  <2>1. n \in 1..n
    BY <1>1, <1>7
  <2> QED BY <1>4, <1>6, <1>9, <2>1 DEF SameTree, SamePlace
<1>12. TTypes'
  <2>1. visible' \in Seq(1..n)
    BY <1>3, <1>11
  <2>2. loads' \subseteq [item : 1..n, op : Nat]
    BY <1>0, <1>1, <1>3, <1>7 DEF TTypes
  <2>3. current' \in Nat /\ selected' \in 0..n /\ cache' \in Seq(PageType)
    BY <1>0, <1>1, <1>3 DEF TTypes
  <2> QED BY <1>9, <2>1, <2>2, <2>3 DEF TTypes
<1>13. Scans'
  <2>1. \A j \in 1..n : items'[j].op <= current + 1
    <3> TAKE j \in 1..n
    <3>1. CASE j = n
      BY <1>0, <1>11, <3>1 DEF TTypes
    <3>2. CASE j \in 1..Len(items)
      <4>1. items[j].op <= current /\ items[j].op \in Nat /\ current \in Nat
        <5>1. PICK row \in ItemType : row = items[j]
          BY <1>0, <3>2 DEF TTypes
        <5>2. row.op \in Nat
          BY DEF ItemType
        <5> QED BY <1>0, <3>2, <5>1, <5>2 DEF Scans, TTypes
      <4> QED BY <1>10, <3>2, <4>1
    <3> QED BY <1>7, <3>1, <3>2
  <2>2. \A l \in loads : items'[l.item].op <= l.op /\ l.op <= current + 1
    <3> TAKE l \in loads
    <3>1. l.item \in 1..Len(items) /\ l.op \in Nat /\ current \in Nat
      BY <1>0 DEF TTypes
    <3>2. items[l.item].op <= l.op /\ l.op <= current
      BY <1>0 DEF Scans
    <3> QED BY <1>10, <3>1, <3>2
  <2>3. Len(visible') = 1 /\ visible'[1] = n
    BY <1>3
  <2> QED BY <1>3, <1>9, <1>11, <2>1, <2>2, <2>3 DEF Scans
<1>14. Awaited'
  <2>1. ASSUME NEW j \in 1..n
        PROVE  /\ items'[j].loading <=> \E l \in loads : l.item = j
               /\ items'[j].loading => ~items'[j].expanded /\ items'[j].node \in Dirs
    <3>1. CASE j = n
      <4>1. \A l \in loads : l.item \in 1..Len(items)
        BY <1>0 DEF TTypes
      <4> QED BY <1>1, <1>7, <1>11, <3>1, <4>1
    <3>2. CASE j \in 1..Len(items)
      BY <1>0, <1>10, <3>2 DEF Awaited
    <3> QED BY <1>7, <3>1, <3>2
  <2> QED BY <1>0, <1>3, <1>9, <2>1 DEF Awaited
<1>15. Pages'
  BY <1>3, ProjectionAssumption DEF Pages, GoodPages
<1>16. Heap'
  <2>1. ASSUME NEW j \in 1..n
        PROVE  items'[j].up < j /\ (items'[j].expanded => PageRows(j)')
    <3>1. CASE j = n
      BY <1>1, <1>7, <1>11, <3>1 DEF NoItem
    <3>2. CASE j \in 1..Len(items)
      <4>1. items[j].up < j /\ (items[j].expanded => PageRows(j))
        BY <1>0, <3>2 DEF Heap
      <4>2. ASSUME PageRows(j) PROVE PageRows(j)'
        BY <1>10, <1>19, <3>2, <4>2, PageRowsKept
      <4> QED BY <1>10, <3>2, <4>1, <4>2
    <3> QED BY <1>7, <3>1, <3>2
  <2> QED BY <1>9, <2>1 DEF Heap
<1>17. Nested' /\ Listed'
  <2>1. Len(visible') = 1 /\ visible'[1] = n
    BY <1>3
  <2>2. Nested'
    BY <1>11, <2>1 DEF Nested
  <2>3. Listed'
    BY <1>11, <2>1 DEF Listed
  <2> QED BY <2>2, <2>3
<1>18. Selection'
  <2>1. Len(visible') = 1 /\ visible'[1] = n
    BY <1>3
  <2> QED BY <1>3, <1>9, <2>1 DEF Selection, InList
<1> QED BY <1>12, <1>13, <1>14, <1>15, <1>16, <1>17, <1>18 DEF TInv

---------------------------------------------------------------------------
(* The rows of a page *)

Joined(s, a, b) ==
  /\ Len(s) = Len(a) + Len(b)
  /\ \A j \in 1..Len(a) : s[j] = a[j]
  /\ \A j \in 1..Len(b) : s[Len(a) + j] = b[j]

LEMMA ConcatFact ==
  ASSUME NEW S, NEW a \in Seq(S), NEW b \in Seq(S)
  PROVE  a \o b \in Seq(S) /\ Joined(a \o b, a, b)
BY DEF Joined

NewItem(it, op, node, level, up) ==
  /\ it.op = op /\ it.node = node /\ it.level = level /\ it.up = up
  /\ ~it.expanded /\ ~it.loading /\ ~it.is_selected

LEMMA NewItemFact ==
  ASSUME NEW op \in Nat, NEW node \in Nodes, NEW level \in Nat, NEW up \in Nat
  PROVE  NewItem(Item(op, node, level, up), op, node, level, up)
BY ItemFact, SMTT(60) DEF NewItem

\* The items after n rows were made below i, of scan op.
RowsMade(i, op, n) ==
  /\ n \in Nat /\ n = Len(Page(items[i].op, items[i].node).nodes)
  /\ items' \in Seq(ItemType) /\ Len(items') = Len(items) + n
  /\ \A j \in 1..Len(items) :
       /\ SamePlace(items'[j], items[j])
       /\ items'[j].is_selected = items[j].is_selected
       /\ items'[j].loading = IF j = i THEN FALSE ELSE items[j].loading
       /\ items'[j].expanded = IF j = i THEN TRUE ELSE items[j].expanded
       /\ j # i => items'[j].kids = items[j].kids
  /\ Len(items'[i].kids) = n
  /\ \A x \in 1..n : items'[i].kids[x] = Len(items) + x
  /\ \A x \in 1..n :
       LET it == items'[Len(items) + x] IN
       /\ it.op = op /\ it.level = items[i].level + 1 /\ it.up = i
       /\ ~it.expanded /\ ~it.loading /\ ~it.is_selected
       /\ it.node = Page(items[i].op, items[i].node).nodes[x]

LEMMA RowsMadeFact ==
  ASSUME TInv, NEW i \in 1..Len(items), items[i].node \in Dirs, NEW op \in Nat,
         ~Gone(i), Present(items, i, Page(op, items[i].node))
  PROVE  RowsMade(i, op, Len(Page(op, items[i].node).nodes))
<1>1. PICK nodes \in Seq(Nodes) : nodes = Page(op, items[i].node).nodes
  BY PageFact
<1>2. PICK n \in Nat : n = Len(nodes)
  OBVIOUS
<1>3. nodes = Page(items[i].op, items[i].node).nodes
  BY <1>1 DEF Page
<1>4. PICK N \in Nat : N = Len(items)
  BY DEF TInv, TTypes
<1>5. items \in Seq(ItemType)
  BY DEF TInv, TTypes
<1>6. items[i].level \in Nat
  <2>1. PICK row \in ItemType : row = items[i]
    BY <1>5
  <2>2. row.level \in Nat
    BY DEF ItemType
  <2> QED BY <2>1, <2>2
<1>7. PICK level \in Nat : level = items[i].level + 1
  BY <1>6
<1>8. PICK rows \in Seq(Nat) :
        rows = [k \in 1..n |-> N + k] /\ Len(rows) = n /\ \A x \in 1..n : rows[x] = N + x
  <2>1. [k \in 1..n |-> N + k] \in Seq(Nat)
    OBVIOUS
  <2>2. Len([k \in 1..n |-> N + k]) = n
    OBVIOUS
  <2> QED BY <2>1, <2>2
<1>9. \A x \in 1..n : nodes[x] \in Nodes
  BY <1>2
<1>10. ASSUME NEW x \in 1..n
       PROVE  Item(op, nodes[x], level, i) \in ItemType
  <2>1. PICK node \in Nodes : node = nodes[x]
    BY <1>9
  <2>2. PICK it : it = Item(op, node, level, i)
    BY Zenon
  <2>3. i \in Nat
    OBVIOUS
  <2>4. it \in ItemType
    BY <1>7, <2>1, <2>2, <2>3, ItemFact, SMTT(60)
  <2> QED BY <2>1, <2>2, <2>4, Zenon
<1>11. PICK made \in Seq(ItemType) :
         /\ made = [k \in 1..n |-> Item(op, nodes[k], level, i)]
         /\ Len(made) = n /\ \A x \in 1..n : made[x] = Item(op, nodes[x], level, i)
  <2>1. [k \in 1..n |-> Item(op, nodes[k], level, i)] \in Seq(ItemType)
    BY <1>10
  <2>2. Len([k \in 1..n |-> Item(op, nodes[k], level, i)]) = n
    OBVIOUS
  <2> QED BY <2>1, <2>2, ZenonT(60)
<1>12. Page(op, items[i].node).op = op
  BY PageFact
<1>13. items' = WithRows(items, i, rows) \o made
  BY <1>1, <1>2, <1>4, <1>7, <1>8, <1>11, <1>12, ZenonT(60) DEF Present, WithRows
<1>14. PICK its : its = WithRows(items, i, rows)
  OBVIOUS
<1>15. /\ its \in Seq(ItemType) /\ Len(its) = N
       /\ \A j \in 1..N :
              /\ SamePlace(its[j], items[j])
              /\ its[j].is_selected = items[j].is_selected
              /\ its[j].loading = IF j = i THEN FALSE ELSE items[j].loading
              /\ its[j].expanded = IF j = i THEN TRUE ELSE items[j].expanded
              /\ its[j].kids = IF j = i THEN rows ELSE items[j].kids
  <2>1. ExpandedAs(its, items, i, rows)
    BY <1>5, <1>14, ExpandedFact
  <2> QED BY <1>4, <2>1 DEF ExpandedAs
<1>16. /\ items' \in Seq(ItemType) /\ Len(items') = N + n
       /\ \A j \in 1..N : items'[j] = its[j]
       /\ \A x \in 1..n : items'[N + x] = made[x]
  <2>1. items' \in Seq(ItemType) /\ Joined(items', its, made)
    BY <1>13, <1>14, <1>15, ConcatFact
  <2> QED BY <1>11, <1>15, <2>1 DEF Joined
<1>17. \A j \in 1..Len(items) :
         /\ SamePlace(items'[j], items[j])
         /\ items'[j].is_selected = items[j].is_selected
         /\ items'[j].loading = IF j = i THEN FALSE ELSE items[j].loading
         /\ items'[j].expanded = IF j = i THEN TRUE ELSE items[j].expanded
         /\ j # i => items'[j].kids = items[j].kids
  BY <1>4, <1>15, <1>16, ZenonT(60)
<1>18. items'[i].kids = rows
  BY <1>4, <1>15, <1>16
<1>19. ASSUME NEW x \in 1..n
       PROVE  LET it == items'[Len(items) + x] IN
              /\ it.op = op /\ it.level = items[i].level + 1 /\ it.up = i
              /\ ~it.expanded /\ ~it.loading /\ ~it.is_selected
              /\ it.node = Page(items[i].op, items[i].node).nodes[x]
  <2>1. PICK it : it = Item(op, nodes[x], level, i)
    OBVIOUS
  <2>2. /\ it.op = op /\ it.node = nodes[x] /\ it.level = level /\ it.up = i
        /\ ~it.expanded /\ ~it.loading /\ ~it.is_selected
    <3>1. NewItem(it, op, nodes[x], level, i)
      BY <1>9, <2>1, NewItemFact
    <3> QED BY <3>1 DEF NewItem
  <2>3. items'[Len(items) + x] = it
    BY <1>4, <1>11, <1>16, <2>1
  <2> QED BY <1>3, <1>7, <2>2, <2>3
<1> QED BY <1>1, <1>2, <1>3, <1>4, <1>8, <1>16, <1>17, <1>18, <1>19, ZenonT(60) DEF RowsMade

\* The list after n rows were put below its P-th.
ListMade(P, n) ==
  /\ Len(visible') = Len(visible) + n /\ visible' \in Seq(1..Len(items'))
  /\ \A m \in 1..Len(visible) : m <= P => visible'[m] = visible[m]
  /\ \A m \in 1..Len(visible) : m > P => visible'[m + n] = visible[m]
  /\ \A x \in 1..n : visible'[P + x] = Len(items) + x

LEMMA PositionFact ==
  ASSUME TInv, NEW i, InList(i)
  PROVE  PositionOf(i) \in 1..Len(visible) /\ visible[PositionOf(i)] = i /\ ~Gone(i)
<1>1. DOMAIN visible = 1..Len(visible)
  BY DEF TInv, TTypes
<1>2. IsVisible(i)
  BY DEF IsVisible, Contains, InList
<1> QED BY <1>1, <1>2 DEF PositionOf, Gone, InList

LEMMA ListMadeFact ==
  ASSUME TInv, NEW i \in 1..Len(items), items[i].node \in Dirs, NEW op \in Nat,
         ~Gone(i), Present(items, i, Page(op, items[i].node))
  PROVE  ListMade(PositionOf(i), Len(Page(op, items[i].node).nodes))
<1>1. PICK nodes \in Seq(Nodes) : nodes = Page(op, items[i].node).nodes
  BY PageFact
<1>2. PICK n \in Nat : n = Len(nodes)
  OBVIOUS
<1>3. InList(i)
  BY DEF Gone, IsVisible, Contains, InList
<1>4. PICK P \in 1..Len(visible) : P = PositionOf(i)
  BY <1>3, PositionFact
<1>5. PICK N \in Nat, L \in Nat :
        N = Len(items) /\ L = Len(visible) /\ Len(items') = N + n /\ P <= L /\ P \in Nat
  <2>1. Len(items') = Len(items) + n /\ Len(items) \in Nat /\ Len(visible) \in Nat
    <3>1. RowsMade(i, op, n)
      BY <1>1, <1>2, RowsMadeFact
    <3>2. Len(items') = Len(items) + n
      BY <3>1 DEF RowsMade
    <3>3. Len(items) \in Nat /\ Len(visible) \in Nat
      BY DEF TInv, TTypes
    <3> QED BY <3>2, <3>3
  <2> QED BY <2>1
<1> DEFINE S == 1..(N + n)
<1>6. PICK rows \in Seq(S) :
        rows = [k \in 1..n |-> N + k] /\ Len(rows) = n /\ \A x \in 1..n : rows[x] = N + x
  <2>1. \A k \in 1..n : N + k \in S
    OBVIOUS
  <2>2. [k \in 1..n |-> N + k] \in Seq(S)
    BY <2>1
  <2>3. Len([k \in 1..n |-> N + k]) = n
    OBVIOUS
  <2> QED BY <2>2, <2>3
<1>7. visible \in Seq(S)
  <2>1. visible \in Seq(1..N)
    BY <1>5 DEF TInv, TTypes
  <2>2. 1..N \subseteq S
    OBVIOUS
  <2> QED BY <2>1, <2>2
<1>8. PICK a \in Seq(S) :
        a = SubSeq(visible, 1, P) /\ Len(a) = P /\ \A m \in 1..P : a[m] = visible[m]
  <2>1. SubSeq(visible, 1, P) \in Seq(S)
    BY <1>5, <1>7, SMTT(60)
  <2>2. Len(SubSeq(visible, 1, P)) = P /\ \A m \in 1..P : SubSeq(visible, 1, P)[m] = visible[m]
    BY <1>5, <1>7
  <2> QED BY <2>1, <2>2
<1>9. PICK c \in Seq(S) :
        /\ c = SubSeq(visible, P + 1, L) /\ Len(c) = L - P
        /\ \A m \in 1..(L - P) : c[m] = visible[P + m]
  <2>1. SubSeq(visible, P + 1, L) \in Seq(S)
    BY <1>5, <1>7, SMTT(60)
  <2>2. Len(SubSeq(visible, P + 1, L)) = L - P
    BY <1>5, <1>7
  <2>3. \A m \in 1..(L - P) : SubSeq(visible, P + 1, L)[m] = visible[P + m]
    BY <1>5, <1>7
  <2> QED BY <2>1, <2>2, <2>3
<1>10. visible' = a \o rows \o c
  BY <1>1, <1>2, <1>4, <1>5, <1>6, <1>8, <1>9, ZenonT(60) DEF Present
<1>11. PICK b \in Seq(S) :
         /\ b = a \o rows /\ Len(b) = P + n
         /\ \A m \in 1..P : b[m] = visible[m]
         /\ \A x \in 1..n : b[P + x] = N + x
  <2>1. PICK t \in Seq(S) : t = a \o rows /\ Joined(t, a, rows)
    BY ConcatFact
  <2>2. Len(t) = P + n
    BY <1>6, <1>8, <2>1 DEF Joined
  <2>3. /\ \A m \in 1..P : t[m] = visible[m]
        /\ \A x \in 1..n : t[P + x] = N + x
    BY <1>6, <1>8, <2>1 DEF Joined
  <2> QED BY <2>1, <2>2, <2>3
<1>12. /\ visible' \in Seq(S) /\ Len(visible') = (P + n) + (L - P)
       /\ \A m \in 1..(P + n) : visible'[m] = b[m]
       /\ \A m \in 1..(L - P) : visible'[(P + n) + m] = c[m]
  <2>1. visible' \in Seq(S) /\ Joined(visible', b, c)
    BY <1>10, <1>11, ConcatFact
  <2> QED BY <1>9, <1>11, <2>1 DEF Joined
<1>13. \A m \in 1..L : m <= P => visible'[m] = visible[m]
  <2> TAKE m \in 1..L
  <2> HAVE m <= P
  <2>1. m \in 1..(P + n) /\ m \in 1..P
    BY <1>5
  <2> QED BY <1>11, <1>12, <2>1
<1>14. \A x \in 1..n : visible'[P + x] = N + x
  <2> TAKE x \in 1..n
  <2>1. P + x \in 1..(P + n)
    BY <1>5
  <2> QED BY <1>11, <1>12, <2>1
<1>15. \A m \in 1..L : m > P => visible'[m + n] = visible[m]
  <2> TAKE m \in 1..L
  <2> HAVE m > P
  <2>1. PICK x \in 1..(L - P) : x = m - P
    BY <1>5
  <2>2. m + n = (P + n) + x /\ P + x = m
    BY <1>5, <2>1
  <2> QED BY <1>9, <1>12, <2>2
<1>16. Len(visible') = L + n
  BY <1>5, <1>12
<1> QED BY <1>1, <1>2, <1>4, <1>5, <1>12, <1>13, <1>14, <1>15, <1>16 DEF ListMade

---------------------------------------------------------------------------
(* Children are put below their row *)

\* Where the m-th row is after n rows were put below the P-th.
After(P, n, m) == IF m <= P THEN m ELSE m + n

LEMMA AfterFact ==
  ASSUME NEW L \in Nat, NEW P \in 1..L, NEW n \in Nat
  PROVE  /\ \A m \in 1..L : After(P, n, m) \in 1..(L + n)
         /\ \A j, k \in 1..L : j < k <=> After(P, n, j) < After(P, n, k)
         /\ \A x \in 1..n : P + x \in 1..(L + n)
         /\ \A m \in 1..L, x \in 1..n : After(P, n, m) < P + x <=> m <= P
         /\ \A m \in 1..L, x \in 1..n : P + x < After(P, n, m) <=> m > P
         /\ After(P, n, 1) = 1 /\ After(P, n, P) = P
<1>1. \A m \in 1..L : After(P, n, m) \in 1..(L + n)
  BY DEF After
<1>2. \A j, k \in 1..L : j < k <=> After(P, n, j) < After(P, n, k)
  BY DEF After
<1>3. \A x \in 1..n : P + x \in 1..(L + n)
  OBVIOUS
<1>5. \A m \in 1..L, x \in 1..n : After(P, n, m) < P + x <=> m <= P
  BY DEF After
<1>6. \A m \in 1..L, x \in 1..n : P + x < After(P, n, m) <=> m > P
  BY DEF After
<1>7. After(P, n, 1) = 1 /\ After(P, n, P) = P
  BY DEF After
<1> QED BY <1>1, <1>2, <1>3, <1>5, <1>6, <1>7

LEMMA AfterCovers ==
  ASSUME NEW L \in Nat, NEW P \in 1..L, NEW n \in Nat, NEW y \in 1..(L + n)
  PROVE  (\E m \in 1..L : y = After(P, n, m)) \/ (\E x \in 1..n : y = P + x)
<1>1. CASE y <= P
  <2>1. y \in 1..L /\ y = After(P, n, y)
    BY <1>1 DEF After
  <2> QED BY <2>1
<1>2. CASE y > P /\ y <= P + n
  <2>1. y - P \in 1..n /\ y = P + (y - P)
    BY <1>2
  <2> QED BY <2>1
<1>3. CASE y > P + n
  <2>1. y - n \in 1..L /\ y = After(P, n, y - n)
    BY <1>3 DEF After
  <2> QED BY <2>1
<1> QED BY <1>1, <1>2, <1>3

\* The rows of the new list: those of the old one, and the new ones.
LEMMA OldListed ==
  ASSUME TInv, NEW P \in 1..Len(visible), NEW n \in Nat, ListMade(P, n),
         NEW m \in 1..Len(visible)
  PROVE  /\ After(P, n, m) \in 1..Len(visible')
         /\ visible'[After(P, n, m)] = visible[m]
         /\ visible[m] \in 1..Len(items)
<1>1. PICK L \in Nat : L = Len(visible)
  BY DEF TInv, TTypes
<1>2. Len(visible') = L + n /\ After(P, n, m) \in 1..(L + n)
  BY <1>1, AfterFact DEF ListMade
<1>3. CASE m <= P
  <2>1. After(P, n, m) = m /\ visible'[m] = visible[m]
    BY <1>3 DEF After, ListMade
  <2> QED BY <1>2, <2>1 DEF TInv, TTypes
<1>4. CASE m > P
  <2>1. After(P, n, m) = m + n /\ visible'[m + n] = visible[m]
    BY <1>1, <1>4 DEF After, ListMade
  <2> QED BY <1>2, <2>1, SMTT(60) DEF TInv, TTypes
<1> QED BY <1>1, <1>3, <1>4

LEMMA NewListed ==
  ASSUME TInv, NEW P \in 1..Len(visible), NEW n \in Nat, ListMade(P, n),
         NEW x \in 1..n
  PROVE  P + x \in 1..Len(visible') /\ visible'[P + x] = Len(items) + x
<1>1. PICK L \in Nat : L = Len(visible)
  BY DEF TInv, TTypes
<1> QED BY <1>1 DEF ListMade

LEMMA OldOrNew ==
  ASSUME TInv, NEW P \in 1..Len(visible), NEW n \in Nat, ListMade(P, n),
         NEW y \in 1..Len(visible')
  PROVE  \/ \E m \in 1..Len(visible) : y = After(P, n, m)
         \/ \E x \in 1..n : y = P + x
<1>1. PICK L \in Nat : L = Len(visible)
  BY DEF TInv, TTypes
<1>2. Len(visible') = L + n
  BY <1>1 DEF ListMade
<1>3. \A z \in 1..(L + n) :
        (\E m \in 1..L : z = After(P, n, m)) \/ (\E x \in 1..n : z = P + x)
  BY <1>1, AfterCovers
<1> QED BY <1>1, <1>2, <1>3

LEMMA OldRow ==
  ASSUME TInv, NEW i \in 1..Len(items), NEW op, NEW n, RowsMade(i, op, n),
         NEW j \in 1..Len(items)
  PROVE  /\ j \in 1..Len(items')
         /\ items'[j].op = items[j].op /\ items'[j].node = items[j].node
         /\ items'[j].level = items[j].level /\ items'[j].up = items[j].up
         /\ items'[j].is_selected = items[j].is_selected
         /\ j # i => /\ items'[j].loading = items[j].loading
                     /\ items'[j].expanded = items[j].expanded
                     /\ items'[j].kids = items[j].kids
<1>1. PICK N \in Nat : N = Len(items)
  BY DEF TInv, TTypes
<1>2. Len(items') = N + n /\ n \in Nat
  BY <1>1 DEF RowsMade
<1>3. j \in 1..Len(items')
  BY <1>1, <1>2
<1>4. SamePlace(items'[j], items[j])
  BY DEF RowsMade
<1>5. items'[j].is_selected = items[j].is_selected
  BY DEF RowsMade
<1>6. j # i => /\ items'[j].loading = items[j].loading
               /\ items'[j].expanded = items[j].expanded
               /\ items'[j].kids = items[j].kids
  BY DEF RowsMade
<1> QED BY <1>3, <1>4, <1>5, <1>6 DEF SamePlace

Opened(i, n, N) ==
  /\ items'[i].expanded /\ ~items'[i].loading /\ Len(items'[i].kids) = n
  /\ \A x \in 1..n : items'[i].kids[x] = N + x

LEMMA ThisRow ==
  ASSUME TInv, NEW i \in 1..Len(items), NEW op, NEW n, RowsMade(i, op, n),
         NEW N \in Nat, N = Len(items)
  PROVE  Opened(i, n, N)
<1>1. items'[i].expanded = TRUE
  BY DEF RowsMade
<1>2. items'[i].loading = FALSE
  BY DEF RowsMade
<1>3. Len(items'[i].kids) = n /\ \A x \in 1..n : items'[i].kids[x] = N + x
  BY DEF RowsMade
<1> QED BY <1>1, <1>2, <1>3 DEF Opened

RowBelow(i, op, N, x) ==
  /\ N + x \in 1..Len(items')
  /\ items'[N + x].op = op
  /\ items'[N + x].level = items[i].level + 1
  /\ items'[N + x].up = i
  /\ ~items'[N + x].expanded /\ ~items'[N + x].loading
  /\ ~items'[N + x].is_selected
  /\ items'[N + x].node = Page(items[i].op, items[i].node).nodes[x]

LEMMA NewRow ==
  ASSUME TInv, NEW i \in 1..Len(items), NEW op, NEW n, RowsMade(i, op, n),
         NEW N \in Nat, N = Len(items), NEW x \in 1..n
  PROVE  RowBelow(i, op, N, x)
<1>1. Len(items') = N + n /\ n \in Nat
  BY DEF RowsMade
<1>2. N + x \in 1..(N + n)
  BY <1>1
<1> QED BY <1>1, <1>2 DEF RowsMade, RowBelow

LEMMA PresentHeap ==
  ASSUME TInv, NEW i \in 1..Len(items), items[i].node \in Dirs, NEW op,
         NEW n \in Nat, RowsMade(i, op, n)
  PROVE  Heap'
<1>0. TTypes /\ Heap
  BY DEF TInv
<1>1. PICK N \in Nat : N = Len(items)
  BY <1>0 DEF TTypes
<1>1a. Opened(i, n, N)
  BY <1>1, ThisRow
<1>1b. \A x \in 1..n : RowBelow(i, op, N, x)
  BY <1>1, NewRow
<1>2. Len(items') = N + n
  BY <1>1 DEF RowsMade
<1>3. Grown
  <2>1. \A j \in 1..Len(items) : SamePlace(items'[j], items[j])
    BY DEF RowsMade
  <2> QED BY <1>1, <1>2, <2>1 DEF Grown
<1>4. ASSUME NEW j \in 1..N, j # i
      PROVE  items'[j].up < j /\ (items'[j].expanded => PageRows(j)')
  <2>1. items'[j].up = items[j].up /\ items'[j].expanded = items[j].expanded
        /\ items'[j].kids = items[j].kids
    BY <1>1, <1>4, OldRow
  <2>2. items[j].up < j /\ (items[j].expanded => PageRows(j))
    BY <1>0, <1>1 DEF Heap
  <2>3. ASSUME PageRows(j) PROVE PageRows(j)'
    BY <1>1, <1>3, <2>1, <2>3, PageRowsKept
  <2> QED BY <2>1, <2>2, <2>3
<1>5. items'[i].up < i /\ PageRows(i)'
  <2>1. items'[i].up < i
    BY <1>0, OldRow DEF Heap
  <2>2. /\ items'[i].op = items[i].op /\ items'[i].node = items[i].node
    BY OldRow
  <2>3. n = Len(Page(items[i].op, items[i].node).nodes)
    BY DEF RowsMade
  <2>4. Len(items'[i].kids) = n /\ \A x \in 1..n : items'[i].kids[x] = N + x
    BY <1>1, <1>1a DEF Opened
  <2>5. \A x \in 1..n :
          /\ N + x \in 1..Len(items')
          /\ items'[N + x].up = i
          /\ items'[N + x].node = Page(items[i].op, items[i].node).nodes[x]
    BY <1>1, <1>1b DEF RowBelow
  <2>6. \A x, y \in 1..n : x < y => items'[i].kids[x] < items'[i].kids[y]
    BY <2>4
  <2>7. PageRows(i)'
    BY <2>2, <2>3, <2>4, <2>5, <2>6, ZenonT(60) DEF PageRows, Page
  <2> QED BY <2>1, <2>7
<1>6. ASSUME NEW x \in 1..n
      PROVE  items'[N + x].up < N + x /\ ~items'[N + x].expanded
  <2>1. items'[N + x].up = i /\ ~items'[N + x].expanded
    BY <1>1, <1>1b DEF RowBelow
  <2>2. i < N + x
    BY <1>1
  <2> QED BY <2>1, <2>2
<1>7. \A j \in 1..(N + n) : j \in 1..N \/ \E x \in 1..n : j = N + x
  <2> TAKE j \in 1..(N + n)
  <2>1. CASE j <= N
    BY <2>1
  <2>2. CASE j > N
    <3>1. j - N \in 1..n /\ j = N + (j - N)
      BY <2>2
    <3> QED BY <3>1
  <2> QED BY <2>1, <2>2
<1>8. ASSUME NEW j \in 1..(N + n)
      PROVE  items'[j].up < j /\ (items'[j].expanded => PageRows(j)')
  <2>1. CASE j \in 1..N
    BY <1>4, <1>5, <2>1
  <2>2. CASE \E x \in 1..n : j = N + x
    BY <1>6, <2>2
  <2> QED BY <1>7, <2>1, <2>2
<1> QED BY <1>2, <1>8 DEF Heap

LEMMA PresentNested ==
  ASSUME TInv, NEW i \in 1..Len(items), ~items[i].expanded, NEW op,
         NEW n \in Nat, RowsMade(i, op, n),
         NEW P \in 1..Len(visible), visible[P] = i, ListMade(P, n)
  PROVE  Nested'
<1>0. TTypes /\ Nested
  BY DEF TInv
<1>1. PICK L \in Nat, N \in Nat : L = Len(visible) /\ N = Len(items)
  BY <1>0 DEF TTypes
<1>1a. Opened(i, n, N)
  BY <1>1, ThisRow
<1>1b. \A x \in 1..n : RowBelow(i, op, N, x)
  BY <1>1, NewRow
<1>2. Len(visible') = L + n
  BY <1>1 DEF ListMade
<1>3. \A m \in 1..L :
        /\ After(P, n, m) \in 1..(L + n) /\ visible'[After(P, n, m)] = visible[m]
        /\ visible[m] \in 1..N
  BY <1>1, <1>2, OldListed
<1>4. \A x \in 1..n : P + x \in 1..(L + n) /\ visible'[P + x] = N + x
  BY <1>1, <1>2, NewListed
<1>5. \A y \in 1..(L + n) :
        (\E m \in 1..L : y = After(P, n, m)) \/ (\E x \in 1..n : y = P + x)
  BY <1>1, <1>2, OldOrNew
<1>6. \A j, k \in 1..L : visible[j] = visible[k] => j = k
  BY <1>0, <1>1 DEF Nested
<1>7. \A y, z \in 1..(L + n) : visible'[y] = visible'[z] => y = z
  <2> TAKE y, z \in 1..(L + n)
  <2> HAVE visible'[y] = visible'[z]
  <2>1. CASE \E m \in 1..L : y = After(P, n, m)
    <3>1. PICK m \in 1..L : y = After(P, n, m)
      BY <2>1
    <3>2. CASE \E k \in 1..L : z = After(P, n, k)
      <4>1. PICK k \in 1..L : z = After(P, n, k)
        BY <3>2
      <4> QED BY <1>3, <1>6, <3>1, <4>1
    <3>3. CASE \E x \in 1..n : z = P + x
      <4>1. PICK x \in 1..n : z = P + x
        BY <3>3
      <4>2. visible[m] \in 1..N /\ visible[m] = N + x
        BY <1>3, <1>4, <3>1, <4>1
      <4> QED BY <4>2
    <3> QED BY <1>5, <3>2, <3>3
  <2>2. CASE \E x \in 1..n : y = P + x
    <3>1. PICK x \in 1..n : y = P + x
      BY <2>2
    <3>2. CASE \E k \in 1..L : z = After(P, n, k)
      <4>1. PICK k \in 1..L : z = After(P, n, k)
        BY <3>2
      <4>2. visible[k] \in 1..N /\ visible[k] = N + x
        BY <1>3, <1>4, <3>1, <4>1
      <4> QED BY <4>2
    <3>3. CASE \E w \in 1..n : z = P + w
      <4>1. PICK w \in 1..n : z = P + w
        BY <3>3
      <4>2. N + x = N + w
        BY <1>4, <3>1, <4>1
      <4> QED BY <3>1, <4>1, <4>2
    <3> QED BY <1>5, <3>2, <3>3
  <2> QED BY <1>5, <2>1, <2>2
<1>8. items'[visible'[1]].up = NoItem
  <2>1. 1 \in 1..L /\ After(P, n, 1) = 1 /\ visible # <<>>
    <3>1. L >= 1 /\ P >= 1
      BY <1>1
    <3>2. visible # <<>>
      BY <1>1, <3>1
    <3> QED BY <3>1, <3>2 DEF After
  <2>2. visible'[1] = visible[1] /\ visible[1] \in 1..N /\ items[visible[1]].up = NoItem
    BY <1>0, <1>3, <2>1 DEF Nested
  <2>3. items'[visible[1]].up = items[visible[1]].up
    BY <1>1, <2>2, OldRow
  <2> QED BY <2>2, <2>3
<1>9. ASSUME NEW m \in 2..L
      PROVE  \E q \in 1..(After(P, n, m) - 1) : ParentAt(q, After(P, n, m))'
  <2>1. PICK p \in 1..(m - 1) : ParentAt(p, m)
    BY <1>0, <1>1 DEF Nested
  <2>2. PICK q \in Nat, y \in Nat : q = After(P, n, p) /\ y = After(P, n, m)
    BY <1>1 DEF After
  <2>3. p \in 1..L /\ m \in 1..L /\ p < m
    BY <1>1
  <2>4. q \in 1..(y - 1) /\ y \in 1..(L + n)
    <3>1. q < y /\ q \in 1..(L + n) /\ y \in 1..(L + n)
      BY <1>1, <2>2, <2>3, AfterFact
    <3> QED BY <3>1
  <2>5. /\ visible'[q] = visible[p] /\ visible'[y] = visible[m]
        /\ visible[p] \in 1..N /\ visible[m] \in 1..N
    BY <1>3, <2>2, <2>3
  <2>6. visible[p] # i /\ p # P
    BY <2>1 DEF ParentAt
  <2>7. /\ items'[visible[p]].expanded = items[visible[p]].expanded
        /\ items'[visible[p]].kids = items[visible[p]].kids
        /\ items'[visible[p]].level = items[visible[p]].level
        /\ items'[visible[m]].level = items[visible[m]].level
        /\ items'[visible[m]].up = items[visible[m]].up
    BY <1>1, <2>5, <2>6, OldRow
  <2>8. ASSUME NEW z \in (q + 1)..y
        PROVE  items'[visible'[z]].level >= items[visible[m]].level
    <3>1. z \in 1..(L + n) /\ q < z /\ z <= y
      BY <2>4
    <3>2. CASE \E k \in 1..L : z = After(P, n, k)
      <4>1. PICK k \in 1..L : z = After(P, n, k)
        BY <3>2
      <4>2. p < k /\ ~(m < k)
        <5>1. /\ p < k <=> After(P, n, p) < After(P, n, k)
              /\ m < k <=> After(P, n, m) < After(P, n, k)
          BY <1>1, <2>3, AfterFact
        <5> QED BY <2>2, <2>4, <3>1, <4>1, <5>1
      <4>3. k \in (p + 1)..m
        BY <2>3, <4>2
      <4>4. items[visible[k]].level >= items[visible[m]].level
        BY <2>1, <4>3 DEF ParentAt
      <4>5. visible'[z] = visible[k] /\ items'[visible[k]].level = items[visible[k]].level
        BY <1>1, <1>3, <4>1, OldRow
      <4> QED BY <4>4, <4>5
    <3>3. CASE \E x \in 1..n : z = P + x
      <4>1. PICK x \in 1..n : z = P + x
        BY <3>3
      <4>2. p <= P /\ m > P
        <5>1. /\ After(P, n, p) < P + x <=> p <= P
              /\ P + x < After(P, n, m) <=> m > P
          BY <1>1, <2>3, AfterFact, ZenonT(60)
        <5>2. y # P + x
          <6>1. CASE m <= P
            BY <2>2, <6>1 DEF After
          <6>2. CASE m > P
            BY <2>2, <6>2 DEF After
          <6> QED BY <1>1, <6>1, <6>2
        <5> QED BY <2>2, <3>1, <4>1, <5>1, <5>2, SMTT(60)
      <4>3. P \in (p + 1)..m
        BY <1>1, <2>3, <2>6, <4>2
      <4>4. items[i].level >= items[visible[m]].level
        BY <2>1, <4>3 DEF ParentAt
      <4>5. visible'[z] = N + x /\ items'[N + x].level = items[i].level + 1
        BY <1>1, <1>4, <4>1, <1>1b DEF RowBelow
      <4>6. items[i].level \in Nat /\ items[visible[m]].level \in Nat
        <5>1. PICK a \in ItemType, b \in ItemType : a = items[i] /\ b = items[visible[m]]
          BY <1>0, <1>1, <2>5, SMTT(60) DEF TTypes
        <5>2. a.level \in Nat /\ b.level \in Nat
          BY DEF ItemType
        <5> QED BY <5>1, <5>2
      <4> QED BY <4>4, <4>5, <4>6, SMTT(60)
    <3> QED BY <1>5, <3>1, <3>2, <3>3
  <2>9. ParentAt(q, y)'
    <3>1. /\ items[visible[m]].up = visible[p]
          /\ items[visible[p]].expanded
          /\ items[visible[m]].level = items[visible[p]].level + 1
          /\ \E x \in 1..Len(items[visible[p]].kids) : items[visible[p]].kids[x] = visible[m]
      BY <2>1 DEF ParentAt
    <3> QED BY <2>5, <2>7, <2>8, <3>1 DEF ParentAt
  <2> QED BY <2>2, <2>4, <2>9
<1>10. ASSUME NEW x \in 1..n, NEW y \in Nat, y = P + x
       PROVE  \E q \in 1..(y - 1) : ParentAt(q, y)'
  <2>1. y = P + x
    BY <1>10
  <2>2. P \in 1..(y - 1) /\ After(P, n, P) = P
    BY <1>1, <2>1 DEF After
  <2>3. visible'[P] = i /\ visible'[y] = N + x
    BY <1>1, <1>3, <1>4, <2>1, <2>2
  <2>4. items'[i].expanded /\ Len(items'[i].kids) = n /\ items'[i].kids[x] = N + x
        /\ items'[i].level = items[i].level
    BY <1>1, <1>1a, OldRow DEF Opened
  <2>5. items'[N + x].up = i /\ items'[N + x].level = items[i].level + 1
    BY <1>1, <1>1b DEF RowBelow
  <2>6. ASSUME NEW z \in (P + 1)..y
        PROVE  items'[visible'[z]].level >= items[i].level + 1
    <3>1. PICK w \in 1..n : z = P + w
      <4>1. z - P \in 1..n /\ z = P + (z - P)
        BY <1>1, <2>1
      <4> QED BY <4>1
    <3>2. visible'[z] = N + w /\ items'[N + w].level = items[i].level + 1
      BY <1>1, <1>4, <3>1, <1>1b DEF RowBelow
    <3>3. items[i].level \in Nat
      <4>1. PICK a \in ItemType : a = items[i]
        BY <1>0 DEF TTypes
      <4>2. a.level \in Nat
        BY DEF ItemType
      <4> QED BY <4>1, <4>2
    <3> QED BY <3>2, <3>3
  <2>7. ParentAt(P, y)'
    BY <2>3, <2>4, <2>5, <2>6 DEF ParentAt
  <2> QED BY <2>1, <2>2, <2>7
<1>11. ASSUME NEW y \in 2..(L + n)
       PROVE  \E q \in 1..(y - 1) : ParentAt(q, y)'
  <2>1. y \in 1..(L + n) /\ y # 1
    BY <1>1
  <2>2. CASE \E m \in 1..L : y = After(P, n, m)
    <3>1. PICK m \in 1..L : y = After(P, n, m)
      BY <2>2
    <3>2. m # 1
      <4>1. After(P, n, 1) = 1
        BY <1>1, AfterFact
      <4> QED BY <2>1, <3>1, <4>1
    <3>3. m \in 2..L
      BY <1>1, <3>2
    <3> QED BY <1>9, <3>1, <3>3
  <2>3. CASE \E x \in 1..n : y = P + x
    BY <1>10, <2>3, SMTT(60)
  <2> QED BY <1>5, <2>1, <2>2, <2>3
<1> QED BY <1>2, <1>7, <1>8, <1>11 DEF Nested

LEMMA PresentListed ==
  ASSUME TInv, NEW i \in 1..Len(items), ~items[i].expanded, NEW op,
         NEW n \in Nat, RowsMade(i, op, n),
         NEW P \in 1..Len(visible), visible[P] = i, ListMade(P, n)
  PROVE  Listed'
<1>0. TTypes /\ Nested /\ Listed
  BY DEF TInv
<1>1. PICK L \in Nat, N \in Nat : L = Len(visible) /\ N = Len(items)
  BY <1>0 DEF TTypes
<1>2. Len(visible') = L + n
  BY <1>1 DEF ListMade
<1>3. \A m \in 1..L :
        /\ After(P, n, m) \in 1..(L + n) /\ visible'[After(P, n, m)] = visible[m]
        /\ visible[m] \in 1..N
  BY <1>1, <1>2, OldListed
<1>4. \A x \in 1..n : P + x \in 1..(L + n) /\ visible'[P + x] = N + x
  BY <1>1, <1>2, NewListed
<1>5. \A y \in 1..(L + n) :
        (\E m \in 1..L : y = After(P, n, m)) \/ (\E x \in 1..n : y = P + x)
  BY <1>1, <1>2, OldOrNew
<1>6. Opened(i, n, N)
  BY <1>1, ThisRow
<1>7. \A x \in 1..n : RowBelow(i, op, N, x)
  BY <1>1, NewRow
<1>8. ASSUME NEW y \in 1..(L + n), items'[visible'[y]].expanded,
             NEW m \in 1..Len(items'[visible'[y]].kids)
      PROVE  \E z \in 1..(L + n) : visible'[z] = items'[visible'[y]].kids[m]
  <2>1. CASE \E x \in 1..n : y = P + x
    <3>1. PICK x \in 1..n : y = P + x
      BY <2>1
    <3>2. visible'[y] = N + x /\ ~items'[N + x].expanded
      BY <1>4, <1>7, <3>1 DEF RowBelow
    <3> QED BY <1>8, <3>2
  <2>2. CASE \E k \in 1..L : y = After(P, n, k)
    <3>1. PICK k \in 1..L : y = After(P, n, k)
      BY <2>2
    <3>2. visible'[y] = visible[k] /\ visible[k] \in 1..N
      BY <1>3, <3>1
    <3>3. CASE visible[k] = i
      <4>1. m \in 1..n /\ items'[visible'[y]].kids[m] = N + m
        BY <1>6, <3>2, <3>3 DEF Opened
      <4> QED BY <1>4, <4>1
    <3>4. CASE visible[k] # i
      <4>1. /\ items'[visible[k]].expanded = items[visible[k]].expanded
            /\ items'[visible[k]].kids = items[visible[k]].kids
        BY <1>1, <3>2, <3>4, OldRow
      <4>2. InList(items[visible[k]].kids[m])
        BY <1>0, <1>1, <1>8, <3>2, <4>1 DEF Listed
      <4>3. PICK j \in 1..L : visible[j] = items[visible[k]].kids[m]
        BY <1>1, <4>2 DEF InList
      <4>4. /\ After(P, n, j) \in 1..(L + n)
            /\ visible'[After(P, n, j)] = items'[visible'[y]].kids[m]
        BY <1>3, <3>2, <4>1, <4>3
      <4> QED BY <4>4
    <3> QED BY <3>3, <3>4
  <2> QED BY <1>5, <2>1, <2>2
\* No row of the old list had i as its parent.
<1>9. ASSUME NEW m \in 1..L
      PROVE  items[visible[m]].up # i /\ items'[visible[m]].up = items[visible[m]].up
  <2>1. items'[visible[m]].up = items[visible[m]].up
    BY <1>1, <1>3, OldRow
  <2>2. CASE m = 1
    <3>1. visible # <<>>
      BY <1>1
    <3>2. items[visible[1]].up = NoItem
      BY <1>0, <3>1 DEF Nested
    <3> QED BY <2>1, <2>2, <3>2 DEF NoItem
  <2>3. CASE m # 1
    <3>1. m \in 2..Len(visible)
      BY <1>1, <2>3
    <3>2. PICK p \in 1..(m - 1) : ParentAt(p, m)
      BY <1>0, <3>1 DEF Nested
    <3>3. items[visible[m]].up = visible[p] /\ items[visible[p]].expanded
      BY <3>2 DEF ParentAt
    <3> QED BY <2>1, <3>3
  <2> QED BY <2>2, <2>3
<1>10. ASSUME NEW y \in 1..(L + n), NEW z \in 1..(L + n),
              items'[visible'[y]].up = items'[visible'[z]].up,
              visible'[y] < visible'[z]
       PROVE  y < z
  <2>1. CASE \E m \in 1..L : y = After(P, n, m)
    <3>1. PICK m \in 1..L : y = After(P, n, m)
      BY <2>1
    <3>2. visible'[y] = visible[m] /\ items'[visible'[y]].up = items[visible[m]].up
          /\ items[visible[m]].up # i
      BY <1>3, <1>9, <3>1
    <3>3. CASE \E k \in 1..L : z = After(P, n, k)
      <4>1. PICK k \in 1..L : z = After(P, n, k)
        BY <3>3
      <4>2. visible'[z] = visible[k] /\ items'[visible'[z]].up = items[visible[k]].up
        BY <1>3, <1>9, <4>1
      <4>3. m < k
        BY <1>0, <1>1, <1>10, <3>2, <4>2 DEF Listed
      <4>4. m < k <=> After(P, n, m) < After(P, n, k)
        BY <1>1, AfterFact
      <4> QED BY <3>1, <4>1, <4>3, <4>4
    <3>4. CASE \E x \in 1..n : z = P + x
      <4>1. PICK x \in 1..n : z = P + x
        BY <3>4
      <4>2. items'[visible'[z]].up = i
        BY <1>4, <1>7, <4>1 DEF RowBelow
      <4> QED BY <1>10, <3>2, <4>2
    <3> QED BY <1>5, <3>3, <3>4
  <2>2. CASE \E x \in 1..n : y = P + x
    <3>1. PICK x \in 1..n : y = P + x
      BY <2>2
    <3>2. visible'[y] = N + x /\ items'[visible'[y]].up = i
      BY <1>4, <1>7, <3>1 DEF RowBelow
    <3>3. CASE \E k \in 1..L : z = After(P, n, k)
      <4>1. PICK k \in 1..L : z = After(P, n, k)
        BY <3>3
      <4>2. items'[visible'[z]].up # i
        BY <1>3, <1>9, <4>1
      <4> QED BY <1>10, <3>2, <4>2
    <3>4. CASE \E w \in 1..n : z = P + w
      <4>1. PICK w \in 1..n : z = P + w
        BY <3>4
      <4>2. visible'[z] = N + w
        BY <1>4, <4>1
      <4>3. N + x < N + w
        BY <1>10, <3>2, <4>2
      <4> QED BY <1>1, <3>1, <4>1, <4>3
    <3> QED BY <1>5, <3>3, <3>4
  <2> QED BY <1>5, <2>1, <2>2
<1> QED BY <1>2, <1>8, <1>10 DEF Listed, InList

LEMMA PresentSelection ==
  ASSUME TInv, NEW i \in 1..Len(items), NEW op,
         NEW n \in Nat, RowsMade(i, op, n), selected' = selected,
         NEW P \in 1..Len(visible), ListMade(P, n)
  PROVE  Selection'
<1>0. TTypes /\ Selection
  BY DEF TInv
<1>1. PICK N \in Nat : N = Len(items)
  BY <1>0 DEF TTypes
<1>2. Len(items') = N + n
  BY <1>1 DEF RowsMade
<1>3. \A x \in 1..n : RowBelow(i, op, N, x)
  BY <1>1, NewRow
<1>4. ASSUME selected # NoItem
      PROVE  \E y \in 1..Len(visible') : visible'[y] = selected
  <2>1. PICK m \in 1..Len(visible) : visible[m] = selected
    BY <1>0, <1>4 DEF Selection, InList
  <2>2. After(P, n, m) \in 1..Len(visible') /\ visible'[After(P, n, m)] = visible[m]
    BY OldListed
  <2> QED BY <2>1, <2>2
<1>5. ASSUME NEW j \in 1..(N + n), items'[j].is_selected
      PROVE  j = selected
  <2>1. CASE j \in 1..N
    BY <1>0, <1>1, <1>5, <2>1, OldRow DEF Selection
  <2>2. CASE j \notin 1..N
    <3>1. PICK x \in 1..n : j = N + x
      <4>1. j - N \in 1..n /\ j = N + (j - N)
        BY <2>2
      <4> QED BY <4>1
    <3> QED BY <1>3, <1>5, <3>1 DEF RowBelow
  <2> QED BY <2>1, <2>2
<1> QED BY <1>2, <1>4, <1>5 DEF Selection, InList

LEMMA PresentScans ==
  ASSUME TInv, NEW i \in 1..Len(items), NEW op, op = current,
         NEW n \in Nat, RowsMade(i, op, n), loads' \subseteq loads,
         current' = current,
         NEW P \in 1..Len(visible), ListMade(P, n)
  PROVE  Scans'
<1>0. TTypes /\ Scans
  BY DEF TInv
<1>1. PICK L \in Nat, N \in Nat : L = Len(visible) /\ N = Len(items)
  BY <1>0 DEF TTypes
<1>2. Len(visible') = L + n /\ Len(items') = N + n
  BY <1>1 DEF ListMade, RowsMade
<1>3. \A x \in 1..n : RowBelow(i, op, N, x)
  BY <1>1, NewRow
<1>4. current \in Nat /\ op <= current
  BY <1>0 DEF TTypes
<1>5. ASSUME NEW j \in 1..(N + n)
      PROVE  items'[j].op <= current
  <2>1. CASE j \in 1..N
    BY <1>0, <1>1, <2>1, OldRow DEF Scans
  <2>2. CASE j \notin 1..N
    <3>1. PICK x \in 1..n : j = N + x
      <4>1. j - N \in 1..n /\ j = N + (j - N)
        BY <2>2
      <4> QED BY <4>1
    <3> QED BY <1>3, <1>4, <3>1 DEF RowBelow
  <2> QED BY <2>1, <2>2
<1>6. ASSUME NEW l \in loads'
      PROVE  items'[l.item].op <= l.op /\ l.op <= current
  <2>1. l.item \in 1..Len(items) /\ items[l.item].op <= l.op /\ l.op <= current
    BY <1>0 DEF TTypes, Scans
  <2> QED BY <2>1, OldRow
<1>7. ASSUME NEW y \in 1..(L + n)
      PROVE  items'[visible'[y]].op = current
  <2>1. CASE \E m \in 1..L : y = After(P, n, m)
    <3>1. PICK m \in 1..L : y = After(P, n, m)
      BY <2>1
    <3>2. visible'[y] = visible[m] /\ visible[m] \in 1..Len(items)
      BY <1>1, <3>1, OldListed
    <3>3. items[visible[m]].op = current
      BY <1>0, <1>1 DEF Scans
    <3> QED BY <3>2, <3>3, OldRow
  <2>2. CASE \E x \in 1..n : y = P + x
    <3>1. PICK x \in 1..n : y = P + x
      BY <2>2
    <3>2. visible'[y] = N + x
      BY <1>1, <3>1, NewListed
    <3> QED BY <1>3, <3>2 DEF RowBelow
  <2> QED BY <1>1, <1>2, <2>1, <2>2, OldOrNew
<1> QED BY <1>2, <1>5, <1>6, <1>7 DEF Scans

LEMMA PresentAwaited ==
  ASSUME TInv, NEW i \in 1..Len(items), NEW op, NEW n \in Nat, RowsMade(i, op, n),
         \A l : l \in loads' <=> l \in loads /\ l.item # i
  PROVE  Awaited'
<1>0. TTypes /\ Awaited
  BY DEF TInv
<1>1. PICK N \in Nat : N = Len(items)
  BY <1>0 DEF TTypes
<1>2. Len(items') = N + n
  BY <1>1 DEF RowsMade
<1>3. \A x \in 1..n : RowBelow(i, op, N, x)
  BY <1>1, NewRow
<1>4. Opened(i, n, N)
  BY <1>1, ThisRow
<1>5. \A l, m \in loads' : l.item = m.item => l = m
  BY <1>0 DEF Awaited
<1>6. ASSUME NEW j \in 1..(N + n)
      PROVE  /\ items'[j].loading <=> \E l \in loads' : l.item = j
             /\ items'[j].loading => ~items'[j].expanded /\ items'[j].node \in Dirs
  <2>1. CASE j = i
    BY <1>4, <2>1 DEF Opened
  <2>2. CASE j \in 1..N /\ j # i
    <3>1. /\ items'[j].loading = items[j].loading
          /\ items'[j].expanded = items[j].expanded /\ items'[j].node = items[j].node
      BY <1>1, <2>2, OldRow
    <3>2. (\E l \in loads' : l.item = j) <=> \E l \in loads : l.item = j
      BY <2>2
    <3>3. /\ items[j].loading <=> \E l \in loads : l.item = j
          /\ items[j].loading => ~items[j].expanded /\ items[j].node \in Dirs
      BY <1>0, <1>1, <2>2 DEF Awaited
    <3> QED BY <3>1, <3>2, <3>3
  <2>3. CASE j \notin 1..N
    <3>1. PICK x \in 1..n : j = N + x
      <4>1. j - N \in 1..n /\ j = N + (j - N)
        BY <2>3
      <4> QED BY <4>1
    <3>2. \A l \in loads : l.item \in 1..N
      BY <1>0, <1>1 DEF TTypes
    <3>3. ~items'[j].loading
      BY <1>3, <3>1 DEF RowBelow
    <3> QED BY <2>3, <3>2, <3>3
  <2> QED BY <2>1, <2>2, <2>3
<1> QED BY <1>2, <1>5, <1>6 DEF Awaited

\* The step that ends an expansion, from the cache or by a page that arrived.
LEMMA PresentKeeps ==
  ASSUME TInv, NEW i \in 1..Len(items), ~items[i].expanded, items[i].node \in Dirs,
         NEW op \in Nat, items[i].op <= op, op <= current,
         Present(items, i, Page(op, items[i].node)),
         UNCHANGED <<current, selected>>,
         cache' \in Seq(PageType), Pages',
         \A l : l \in loads' <=> l \in loads /\ l.item # i
  PROVE  TInv'
<1>0. TTypes /\ Scans /\ Awaited
  BY DEF TInv
<1>1. loads' \subseteq loads /\ loads' \subseteq [item : 1..Len(items), op : Nat]
  BY <1>0 DEF TTypes
<1>2. CASE Gone(i)
  <2>1. items' = WithLoading(items, i, FALSE) /\ visible' = visible
    BY <1>2 DEF Present, WithLoading
  <2>2. \A l \in loads' : items[l.item].op <= l.op /\ l.op <= current
    BY <1>0, <1>1 DEF Scans
  <2>3. \A l, m \in loads' : l.item = m.item => l = m
    BY <1>0, <1>1 DEF Awaited
  <2>4. ~\E l \in loads' : l.item = i
    OBVIOUS
  <2>5. \A l : l.item # i => (l \in loads' <=> l \in loads)
    OBVIOUS
  <2> QED BY <1>1, <2>1, <2>2, <2>3, <2>4, <2>5, LoadingStep
<1>3. CASE ~Gone(i)
  <2>1. PICK n \in Nat : n = Len(Page(op, items[i].node).nodes)
    <3>1. PICK nodes \in Seq(Nodes) : nodes = Page(op, items[i].node).nodes
      BY PageFact
    <3>2. Len(nodes) \in Nat
      OBVIOUS
    <3> QED BY <3>1, <3>2
  <2>2. InList(i)
    BY <1>3 DEF Gone, IsVisible, Contains, InList
  <2>3. PICK P \in 1..Len(visible) : P = PositionOf(i) /\ visible[P] = i
    BY <2>2, PositionFact
  <2>4. RowsMade(i, op, n) /\ ListMade(P, n)
    BY <1>3, <2>1, <2>3, RowsMadeFact, ListMadeFact
  <2>5. op = current
    <3>1. items[i].op = current /\ current \in Nat
      BY <1>0, <2>3 DEF Scans, TTypes
    <3> QED BY <3>1
  <2>6. Heap'
    BY <2>4, PresentHeap
  <2>7. Nested' /\ Listed'
    BY <2>3, <2>4, PresentNested, PresentListed
  <2>8. Selection' /\ Scans' /\ Awaited'
    BY <1>1, <2>4, <2>5, PresentSelection, PresentScans, PresentAwaited
  <2>9. TTypes'
    <3>1. /\ items' \in Seq(ItemType) /\ Len(items') = Len(items) + n
          /\ visible' \in Seq(1..Len(items'))
      BY <2>4 DEF RowsMade, ListMade
    <3>2. Len(items) \in Nat /\ selected \in 0..Len(items)
      BY <1>0 DEF TTypes
    <3>3. selected' \in 0..Len(items')
      BY <3>1, <3>2
    <3>4. loads' \subseteq [item : 1..Len(items'), op : Nat]
      <4>1. 1..Len(items) \subseteq 1..Len(items')
        BY <3>1, <3>2
      <4> QED BY <1>1, <4>1
    <3> QED BY <1>0, <3>1, <3>3, <3>4 DEF TTypes
  <2> QED BY <2>6, <2>7, <2>8, <2>9 DEF TInv
<1> QED BY <1>2, <1>3

LEMMA ExpandCachedKeeps ==
  ASSUME TInv, NEW i \in 1..Len(items), ExpandCached(i)
  PROVE  TInv'
<1>0. TTypes /\ Scans /\ Awaited
  BY DEF TInv
<1>1. /\ ~items[i].expanded /\ ~items[i].loading /\ items[i].node \in Dirs
      /\ Cached(current, items[i].node)
      /\ cache' = Touched(current, items[i].node)
      /\ Present(items, i, Found(current, items[i].node))
      /\ UNCHANGED <<current, selected, loads>>
  BY DEF ExpandCached, Expandable, HasChildren
<1>2. current \in Nat /\ items[i].op <= current /\ current <= current
  BY <1>0 DEF TTypes, Scans
<1>3. /\ Found(current, items[i].node) = Page(current, items[i].node)
      /\ cache' \in Seq(PageType) /\ GoodPages(cache') /\ Len(cache') <= MaxPages
  BY <1>1, <1>2, FoundFact
<1>4. Pages'
  BY <1>3 DEF Pages, GoodPages, Page
<1>5. \A l : l \in loads' <=> l \in loads /\ l.item # i
  BY <1>0, <1>1 DEF Awaited
<1>6. Present(items, i, Page(current, items[i].node))
  BY <1>1, <1>3
<1> QED BY <1>1, <1>2, <1>3, <1>4, <1>5, <1>6, PresentKeeps

LEMMA ExpandEndsKeeps ==
  ASSUME TInv, NEW load \in loads, ExpandEnds(load)
  PROVE  TInv'
<1>0. TTypes /\ Scans /\ Awaited
  BY DEF TInv
<1>1. PICK i \in 1..Len(items), op \in Nat : i = load.item /\ op = load.op
  BY <1>0 DEF TTypes
<1>2. ~items[i].expanded /\ items[i].node \in Dirs
  BY <1>0, <1>1 DEF Awaited
<1>3. items[i].op <= op /\ op <= current
  BY <1>0, <1>1 DEF Scans
<1>4. /\ PutPage(Page(op, items[i].node))
      /\ Present(items, i, Page(op, items[i].node))
      /\ loads' = loads \ {load} /\ UNCHANGED <<current, selected>>
  BY <1>1 DEF ExpandEnds
<1>5. cache' \in Seq(PageType) /\ GoodPages(cache') /\ Len(cache') <= MaxPages
  BY <1>2, <1>4, PutPageFact
<1>6. Pages'
  BY <1>5 DEF Pages, GoodPages, Page
<1>7. \A l : l \in loads' <=> l \in loads /\ l.item # i
  BY <1>0, <1>1, <1>4 DEF Awaited
<1> QED BY <1>2, <1>3, <1>4, <1>5, <1>6, <1>7, PresentKeeps

---------------------------------------------------------------------------
(* A row is collapsed *)

LEMMA GreatestMember ==
  ASSUME NEW n \in Nat, NEW T, T \subseteq 0..n, T # {}
  PROVE  Max(T) \in T /\ \A y \in T : Max(T) >= y
<1> DEFINE U == {n - x : x \in T}
<1>1. U \subseteq Nat /\ U # {}
  <2>1. PICK x : x \in T
    OBVIOUS
  <2>2. n - x \in U
    BY <2>1
  <2>3. \A y \in T : n - y \in Nat
    OBVIOUS
  <2> QED BY <2>2, <2>3
<1>2. IsWellFoundedOn(OpToRel(<, Nat), Nat)
  BY NatLessThanWellFounded, Zenon
<1>3. PICK u \in U : \A v \in U : ~(<<v, u>> \in OpToRel(<, Nat))
  BY <1>1, <1>2, WFMin, Zenon
<1>4. \A v \in U : ~(v < u)
  BY <1>1, <1>3 DEF OpToRel
<1>5. PICK x \in T : u = n - x
  OBVIOUS
<1>6. \A y \in T : x >= y
  <2> TAKE y \in T
  <2>1. ~(n - y < u)
    BY <1>4
  <2> QED BY <1>5, <2>1
<1> QED BY <1>6 DEF Max

Deeper(m, k) == items[visible[m]].level > items[visible[k]].level

\* The rows below the k-th that are deeper than it end at the B-th.
Below(k, B) ==
  /\ B \in k..Len(visible)
  /\ \A j \in (k + 1)..B : Deeper(j, k)
  /\ B < Len(visible) => ~Deeper(B + 1, k)

LEMMA LastBelowFact ==
  ASSUME TInv, NEW k \in 1..Len(visible)
  PROVE  Below(k, LastBelow(k))
<1>1. PICK L \in Nat : L = Len(visible)
  BY DEF TInv, TTypes
<1> DEFINE T == {m \in k..L : \A j \in (k + 1)..m : Deeper(j, k)}
<1>2. LastBelow(k) = Max(T)
  BY <1>1 DEF LastBelow, Deeper
<1>3. k \in T /\ T \subseteq 0..L
  BY <1>1
<1>4. Max(T) \in T /\ \A y \in T : Max(T) >= y
  BY <1>3, GreatestMember
<1>5. PICK B \in k..L : B = Max(T) /\ \A j \in (k + 1)..B : Deeper(j, k)
  BY <1>4
<1>6. ASSUME B < L, Deeper(B + 1, k) PROVE FALSE
  <2>1. PICK C \in k..L : C = B + 1
    <3>1. B + 1 \in k..L
      BY <1>1, <1>5, <1>6
    <3> QED BY <3>1
  <2>2. \A j \in (k + 1)..C : j \in (k + 1)..B \/ j = C
    BY <2>1
  <2>3. C \in T
    BY <1>5, <1>6, <2>1, <2>2
  <2> HIDE DEF T
  <2>4. B >= C
    BY <1>4, <1>5, <2>3
  <2> QED BY <1>1, <2>1, <2>4
<1> QED BY <1>1, <1>2, <1>5, <1>6 DEF Below

\* The positions that are left when those after k, up to B, are cut.
Kept(k, B, m) == m <= k \/ m > B
Moved(k, B, m) == IF m <= k THEN m ELSE m - (B - k)

LEMMA MovedFact ==
  ASSUME NEW L \in Nat, NEW k \in 1..L, NEW B \in k..L
  PROVE  /\ \A m \in 1..L : Kept(k, B, m) => Moved(k, B, m) \in 1..(L - (B - k))
         /\ \A j, m \in 1..L : Kept(k, B, j) /\ Kept(k, B, m) =>
              (j < m <=> Moved(k, B, j) < Moved(k, B, m))
         /\ Moved(k, B, 1) = 1 /\ Moved(k, B, k) = k
         /\ Kept(k, B, 1) /\ Kept(k, B, k)
BY DEF Kept, Moved

LEMMA MovedCovers ==
  ASSUME NEW L \in Nat, NEW k \in 1..L, NEW B \in k..L, NEW y \in 1..(L - (B - k))
  PROVE  \E m \in 1..L : Kept(k, B, m) /\ y = Moved(k, B, m)
<1>1. CASE y <= k
  <2>1. y \in 1..L /\ Kept(k, B, y) /\ y = Moved(k, B, y)
    BY <1>1 DEF Kept, Moved
  <2> QED BY <2>1
<1>2. CASE y > k
  <2>1. PICK m \in 1..L : m = y + (B - k)
    BY <1>2
  <2>2. m > B /\ ~(m <= k) /\ y = m - (B - k)
    BY <1>2, <2>1
  <2>3. Kept(k, B, m) /\ y = Moved(k, B, m)
    BY <2>2 DEF Kept, Moved
  <2> QED BY <2>3
<1> QED BY <1>1, <1>2

\* The list after the rows after the k-th, up to the B-th, were cut.
CutMade(k, B) ==
  /\ visible' \in Seq(1..Len(items))
  /\ Len(visible') = Len(visible) - (B - k)
  /\ \A m \in 1..Len(visible) : Kept(k, B, m) => visible'[Moved(k, B, m)] = visible[m]

LEMMA CutMadeFact ==
  ASSUME TInv, NEW k \in 1..Len(visible), NEW B \in k..Len(visible),
         visible' = SubSeq(visible, 1, k) \o SubSeq(visible, B + 1, Len(visible))
  PROVE  CutMade(k, B)
<1>1. PICK L \in Nat : L = Len(visible)
  BY DEF TInv, TTypes
<1>2. PICK S : S = 1..Len(items)
  OBVIOUS
<1>3. visible \in Seq(S)
  BY <1>2 DEF TInv, TTypes
<1>4. PICK a \in Seq(S) :
        a = SubSeq(visible, 1, k) /\ Len(a) = k /\ \A m \in 1..k : a[m] = visible[m]
  <2>1. SubSeq(visible, 1, k) \in Seq(S)
    BY <1>1, <1>3
  <2>2. Len(SubSeq(visible, 1, k)) = k
        /\ \A m \in 1..k : SubSeq(visible, 1, k)[m] = visible[m]
    BY <1>1, <1>3
  <2> QED BY <2>1, <2>2
<1>5. PICK c \in Seq(S) :
        /\ c = SubSeq(visible, B + 1, L) /\ Len(c) = L - B
        /\ \A m \in 1..(L - B) : c[m] = visible[B + m]
  <2>1. SubSeq(visible, B + 1, L) \in Seq(S)
    BY <1>1, <1>3
  <2>2. Len(SubSeq(visible, B + 1, L)) = L - B
    BY <1>1, <1>3
  <2>3. \A m \in 1..(L - B) : SubSeq(visible, B + 1, L)[m] = visible[B + m]
    BY <1>1, <1>3
  <2> QED BY <2>1, <2>2, <2>3
<1>6. visible' \in Seq(S) /\ Joined(visible', a, c)
  BY <1>1, <1>4, <1>5, ConcatFact
<1>7. /\ Len(visible') = k + (L - B)
      /\ \A m \in 1..k : visible'[m] = visible[m]
      /\ \A x \in 1..(L - B) : visible'[k + x] = visible[B + x]
  BY <1>4, <1>5, <1>6, ZenonT(60) DEF Joined
<1>8. ASSUME NEW m \in 1..L, Kept(k, B, m)
      PROVE  visible'[Moved(k, B, m)] = visible[m]
  <2>1. CASE m <= k
    BY <1>7, <2>1 DEF Moved
  <2>2. CASE ~(m <= k)
    <3>1. PICK x \in 1..(L - B) : x = m - B
      BY <1>1, <1>8, <2>2 DEF Kept
    <3>2. Moved(k, B, m) = k + x /\ m = B + x
      BY <1>1, <2>2, <3>1 DEF Moved
    <3> QED BY <1>7, <3>2
  <2> QED BY <2>1, <2>2
<1>9. Len(visible') = L - (B - k)
  BY <1>1, <1>7
<1> QED BY <1>1, <1>2, <1>6, <1>8, <1>9 DEF CutMade

\* No row that is left was below the one that is collapsed.
LEMMA ParentLeft ==
  ASSUME TInv, NEW k \in 1..Len(visible), NEW B, Below(k, B),
         NEW m \in 1..Len(visible), NEW p \in 1..(m - 1), ParentAt(p, m)
  PROVE  Kept(k, B, m) <=> Kept(k, B, p) /\ p # k
<1>1. PICK L \in Nat : L = Len(visible)
  BY DEF TInv, TTypes
<1>2. B \in k..L /\ p \in 1..L /\ p < m
  BY <1>1 DEF Below
<1>3. \A j \in 1..L : items[visible[j]].level \in Nat
  <2> TAKE j \in 1..L
  <2>1. visible[j] \in 1..Len(items) /\ items \in Seq(ItemType)
    BY <1>1, SMTT(60) DEF TInv, TTypes
  <2>2. PICK row \in ItemType : row = items[visible[j]]
    BY <2>1
  <2>3. row.level \in Nat
    BY DEF ItemType
  <2> QED BY <2>2, <2>3
<1>4. items[visible[m]].level = items[visible[p]].level + 1
      /\ \A j \in (p + 1)..m : items[visible[j]].level >= items[visible[m]].level
  BY DEF ParentAt
<1>5. ASSUME Kept(k, B, m), ~(Kept(k, B, p) /\ p # k) PROVE FALSE
  <2>1. p \in k..B /\ m > B
    BY <1>1, <1>2, <1>5 DEF Kept
  <2>2. items[visible[p]].level >= items[visible[k]].level
    <3>1. CASE p = k
      BY <1>1, <1>3, <3>1
    <3>2. CASE p # k
      <4>1. p \in (k + 1)..B
        BY <1>1, <1>2, <2>1, <3>2
      <4>2. Deeper(p, k)
        BY <4>1 DEF Below
      <4> QED BY <1>1, <1>2, <1>3, <4>2 DEF Deeper
    <3> QED BY <3>1, <3>2
  <2>3. PICK C \in 1..L : C = B + 1 /\ C \in (p + 1)..m
    BY <1>1, <1>2, <2>1
  <2>4. ~Deeper(C, k)
    BY <1>1, <1>2, <2>3 DEF Below
  <2>5. items[visible[C]].level >= items[visible[m]].level
    BY <1>4, <2>3
  <2>6. items[visible[C]].level <= items[visible[k]].level
    BY <1>1, <1>3, <2>4 DEF Deeper
  <2> QED BY <1>1, <1>2, <1>3, <1>4, <2>2, <2>5, <2>6
<1>6. ASSUME Kept(k, B, p), p # k, ~Kept(k, B, m) PROVE FALSE
  <2>1. p < k /\ m \in (k + 1)..B /\ k \in (p + 1)..m
    BY <1>1, <1>2, <1>6 DEF Kept
  <2>2. Deeper(m, k) /\ items[visible[k]].level >= items[visible[m]].level
    BY <1>4, <2>1 DEF Below
  <2> QED BY <1>1, <1>3, <2>2 DEF Deeper
<1> QED BY <1>5, <1>6

\* The heap of rows after i was collapsed and s selected.
RowsClosed(i, s) ==
  /\ items' \in Seq(ItemType) /\ Len(items') = Len(items)
  /\ \A j \in 1..Len(items) :
       /\ SamePlace(items'[j], items[j])
       /\ items'[j].kids = items[j].kids
       /\ items'[j].loading = items[j].loading
       /\ items'[j].expanded = IF j = i THEN FALSE ELSE items[j].expanded
       /\ items'[j].is_selected => j = s

SelectedAs(new, its, i) ==
  /\ new \in Seq(ItemType) /\ Len(new) = Len(its)
  /\ \A j \in 1..Len(its) :
       /\ SameTree(new[j], its[j])
       /\ new[j].loading = its[j].loading
       /\ new[j].is_selected => j = i

LEMMA RowsClosedFact ==
  ASSUME TInv, NEW i \in 1..Len(items), NEW s \in 0..Len(items),
         items' = IF s = selected THEN WithCollapsed(items, i)
                                  ELSE Selecting(WithCollapsed(items, i), s)
  PROVE  RowsClosed(i, s)
<1>0. TTypes /\ Selection
  BY DEF TInv
<1>1. PICK its : its = WithCollapsed(items, i)
  OBVIOUS
<1>2. CollapsedAs(its, items, i)
  BY <1>0, <1>1, CollapsedFact DEF TTypes
<1>3. CASE s = selected
  <2>1. items' = its
    BY <1>1, <1>3
  <2> QED BY <1>0, <1>2, <1>3, <2>1 DEF CollapsedAs, RowsClosed, Selection
<1>4. CASE s # selected
  <2>1. items' = Selecting(its, s)
    BY <1>1, <1>4
  <2>2. its \in Seq(ItemType) /\ Len(its) = Len(items)
        /\ \A j \in 1..Len(items) : its[j].is_selected = items[j].is_selected
    BY <1>2 DEF CollapsedAs
  <2>3. selected \in 0..Len(its) /\ s \in 0..Len(its)
        /\ \A j \in 1..Len(its) : its[j].is_selected => j = selected
    BY <1>0, <2>2 DEF TTypes, Selection
  <2>4. SelectedAs(items', its, s)
    <3>1. /\ items' \in Seq(ItemType) /\ Len(items') = Len(its)
          /\ \A j \in 1..Len(its) :
               /\ SameTree(items'[j], its[j])
               /\ items'[j].loading = its[j].loading
               /\ items'[j].is_selected => j = s
      BY <2>1, <2>2, <2>3, SelectingFact
    <3> QED BY <3>1 DEF SelectedAs
  <2>5. ASSUME NEW j \in 1..Len(items)
        PROVE  /\ SamePlace(items'[j], items[j])
               /\ items'[j].kids = items[j].kids
               /\ items'[j].loading = items[j].loading
               /\ items'[j].expanded = IF j = i THEN FALSE ELSE items[j].expanded
               /\ items'[j].is_selected => j = s
    <3>1. SameTree(items'[j], its[j]) /\ items'[j].loading = its[j].loading
          /\ (items'[j].is_selected => j = s)
      BY <2>2, <2>4 DEF SelectedAs
    <3>2. /\ SamePlace(its[j], items[j]) /\ its[j].kids = items[j].kids
          /\ its[j].loading = items[j].loading
          /\ its[j].expanded = IF j = i THEN FALSE ELSE items[j].expanded
      BY <1>2 DEF CollapsedAs
    <3>3. SamePlace(items'[j], items[j])
      BY <3>1, <3>2 DEF SameTree, SamePlace
    <3> QED BY <3>1, <3>2, <3>3 DEF SameTree
  <2>6. items' \in Seq(ItemType) /\ Len(items') = Len(items)
    BY <2>2, <2>4 DEF SelectedAs
  <2> QED BY <2>5, <2>6 DEF RowsClosed
<1> QED BY <1>3, <1>4

LEMMA ClosedRow ==
  ASSUME NEW i, NEW s, RowsClosed(i, s), NEW j \in 1..Len(items)
  PROVE  /\ items'[j].op = items[j].op /\ items'[j].node = items[j].node
         /\ items'[j].level = items[j].level /\ items'[j].up = items[j].up
         /\ items'[j].kids = items[j].kids /\ items'[j].loading = items[j].loading
         /\ items'[j].expanded => items[j].expanded /\ j # i
         /\ items[j].expanded /\ j # i => items'[j].expanded
<1>1. /\ SamePlace(items'[j], items[j])
      /\ items'[j].kids = items[j].kids /\ items'[j].loading = items[j].loading
      /\ items'[j].expanded = IF j = i THEN FALSE ELSE items[j].expanded
  BY DEF RowsClosed
<1> QED BY <1>1 DEF SamePlace

LEMMA CollapseHeap ==
  ASSUME TInv, NEW i, NEW s, RowsClosed(i, s)
  PROVE  Heap'
<1>1. Len(items) \in Nat /\ Len(items') = Len(items) /\ Heap
  BY DEF TInv, TTypes, RowsClosed
<1>2. Grown
  <2>1. \A j \in 1..Len(items) : SamePlace(items'[j], items[j])
    BY DEF RowsClosed
  <2> QED BY <1>1, <2>1 DEF Grown
<1>3. ASSUME NEW j \in 1..Len(items)
      PROVE  items'[j].up < j /\ (items'[j].expanded => PageRows(j)')
  <2>1. /\ items'[j].up = items[j].up /\ items'[j].kids = items[j].kids
        /\ items'[j].expanded => items[j].expanded
    BY ClosedRow
  <2>2. items[j].up < j /\ (items[j].expanded => PageRows(j))
    BY <1>1 DEF Heap
  <2>3. ASSUME PageRows(j) PROVE PageRows(j)'
    BY <1>2, <2>1, <2>3, PageRowsKept
  <2> QED BY <2>1, <2>2, <2>3
<1> QED BY <1>1, <1>3 DEF Heap

LEMMA CollapseNested ==
  ASSUME TInv, NEW k \in 1..Len(visible), NEW B, Below(k, B), CutMade(k, B),
         NEW s, RowsClosed(visible[k], s)
  PROVE  Nested'
<1>0. TTypes /\ Nested
  BY DEF TInv
<1>1. PICK L \in Nat, N \in Nat : L = Len(visible) /\ N = Len(items)
  BY <1>0 DEF TTypes
<1>2. B \in k..L /\ k \in 1..L /\ \A m \in 1..L : visible[m] \in 1..N
  BY <1>0, <1>1 DEF Below, TTypes
<1>3. Len(visible') = L - (B - k)
  BY <1>1 DEF CutMade
<1>4. \A m \in 1..L : Kept(k, B, m) =>
        /\ Moved(k, B, m) \in 1..Len(visible')
        /\ visible'[Moved(k, B, m)] = visible[m]
  BY <1>1, <1>2, <1>3, MovedFact, ZenonT(60) DEF CutMade
<1>5. \A y \in 1..Len(visible') :
        \E m \in 1..L : Kept(k, B, m) /\ y = Moved(k, B, m)
  <2>1. \A y \in 1..(L - (B - k)) :
          \E m \in 1..L : Kept(k, B, m) /\ y = Moved(k, B, m)
    BY <1>1, <1>2, MovedCovers, ZenonT(60)
  <2> QED BY <1>3, <2>1
<1>6. \A j, m \in 1..L : Kept(k, B, j) /\ Kept(k, B, m) =>
        (j < m <=> Moved(k, B, j) < Moved(k, B, m))
  BY <1>2, MovedFact
<1>7. \A j, m \in 1..L : visible[j] = visible[m] => j = m
  BY <1>0, <1>1 DEF Nested
<1>8. \A y, z \in 1..Len(visible') : visible'[y] = visible'[z] => y = z
  BY <1>4, <1>5, <1>7, SMTT(60)
<1>9. items'[visible'[1]].up = NoItem
  <2>1. 1 \in 1..L /\ visible # <<>>
    BY <1>1, <1>2
  <2>2. Kept(k, B, 1) /\ Moved(k, B, 1) = 1
    BY <1>2, MovedFact
  <2>3. visible'[1] = visible[1] /\ visible[1] \in 1..N /\ items[visible[1]].up = NoItem
    BY <1>0, <1>2, <1>4, <2>1, <2>2 DEF Nested
  <2> QED BY <1>1, <2>3, ClosedRow
<1>10. ASSUME NEW y \in 2..Len(visible')
       PROVE  \E q \in 1..(y - 1) : ParentAt(q, y)'
  <2>1. y \in 1..Len(visible') /\ y # 1 /\ Len(visible') \in Nat
    BY <1>1, <1>2, <1>3
  <2>2. PICK m \in 1..L : Kept(k, B, m) /\ y = Moved(k, B, m)
    BY <1>5, <2>1
  <2>3. m \in 2..L
    <3>1. Moved(k, B, 1) = 1
      BY <1>2, MovedFact
    <3> QED BY <1>1, <2>1, <2>2, <3>1
  <2>4. PICK p \in 1..(m - 1) : ParentAt(p, m)
    BY <1>0, <1>1, <2>3 DEF Nested
  <2>5. p \in 1..L /\ p < m
    BY <1>1, <2>4
  <2>6. Kept(k, B, p) /\ p # k
    BY <1>1, <2>2, <2>4, ParentLeft
  <2>7. PICK q \in 1..Len(visible') : q = Moved(k, B, p)
    BY <1>4, <2>5, <2>6
  <2>8. q \in 1..(y - 1)
    <3>1. q < y
      BY <1>6, <2>2, <2>5, <2>6, <2>7
    <3> QED BY <2>1, <3>1
  <2>9. /\ visible'[q] = visible[p] /\ visible'[y] = visible[m]
        /\ visible[p] \in 1..N /\ visible[m] \in 1..N /\ visible[p] # visible[k]
    BY <1>2, <1>4, <1>7, <2>2, <2>5, <2>6, <2>7
  <2>10. /\ items[visible[m]].up = visible[p]
         /\ items[visible[p]].expanded
         /\ items[visible[m]].level = items[visible[p]].level + 1
         /\ \A j \in (p + 1)..m : items[visible[j]].level >= items[visible[m]].level
         /\ \E x \in 1..Len(items[visible[p]].kids) : items[visible[p]].kids[x] = visible[m]
    BY <2>4 DEF ParentAt
  <2>11. /\ items'[visible[p]].expanded
         /\ items'[visible[p]].kids = items[visible[p]].kids
         /\ items'[visible[p]].level = items[visible[p]].level
         /\ items'[visible[m]].level = items[visible[m]].level
         /\ items'[visible[m]].up = items[visible[m]].up
    BY <1>1, <2>9, <2>10, ClosedRow
  <2>12. ASSUME NEW z \in (q + 1)..y
         PROVE  items'[visible'[z]].level >= items[visible[m]].level
    <3>1. z \in 1..Len(visible') /\ q < z /\ ~(y < z)
      BY <2>1, <2>7
    <3>2. PICK j \in 1..L : Kept(k, B, j) /\ z = Moved(k, B, j)
      BY <1>5, <3>1
    <3>3. p < j /\ ~(m < j)
      <4>1. /\ p < j <=> Moved(k, B, p) < Moved(k, B, j)
            /\ m < j <=> Moved(k, B, m) < Moved(k, B, j)
        BY <1>6, <2>2, <2>5, <2>6, <3>2
      <4> QED BY <2>2, <2>7, <3>1, <3>2, <4>1
    <3>4. j \in (p + 1)..m
      BY <1>1, <2>5, <3>3
    <3>5. items[visible[j]].level >= items[visible[m]].level
      BY <2>10, <3>4
    <3>6. visible'[z] = visible[j] /\ items'[visible[j]].level = items[visible[j]].level
      BY <1>1, <1>2, <1>4, <3>2, ClosedRow
    <3> QED BY <3>5, <3>6
  <2>13. ParentAt(q, y)'
    BY <2>9, <2>10, <2>11, <2>12 DEF ParentAt
  <2> QED BY <2>8, <2>13
<1> QED BY <1>8, <1>9, <1>10 DEF Nested

LEMMA CollapseListed ==
  ASSUME TInv, NEW k \in 1..Len(visible), NEW B, Below(k, B), CutMade(k, B),
         NEW s, RowsClosed(visible[k], s)
  PROVE  Listed'
<1>0. TTypes /\ Heap /\ Nested /\ Listed
  BY DEF TInv
<1>1. PICK L \in Nat, N \in Nat : L = Len(visible) /\ N = Len(items)
  BY <1>0 DEF TTypes
<1>2. B \in k..L /\ k \in 1..L /\ \A m \in 1..L : visible[m] \in 1..N
  BY <1>0, <1>1 DEF Below, TTypes
<1>3. Len(visible') = L - (B - k)
  BY <1>1 DEF CutMade
<1>4. \A m \in 1..L : Kept(k, B, m) =>
        /\ Moved(k, B, m) \in 1..Len(visible')
        /\ visible'[Moved(k, B, m)] = visible[m]
  BY <1>1, <1>2, <1>3, MovedFact, ZenonT(60) DEF CutMade
<1>5. \A y \in 1..Len(visible') :
        \E m \in 1..L : Kept(k, B, m) /\ y = Moved(k, B, m)
  <2>1. \A y \in 1..(L - (B - k)) :
          \E m \in 1..L : Kept(k, B, m) /\ y = Moved(k, B, m)
    BY <1>1, <1>2, MovedCovers, ZenonT(60)
  <2> QED BY <1>3, <2>1
<1>6. \A j, m \in 1..L : Kept(k, B, j) /\ Kept(k, B, m) =>
        (j < m <=> Moved(k, B, j) < Moved(k, B, m))
  BY <1>2, MovedFact
<1>7. \A j, m \in 1..L : visible[j] = visible[m] => j = m
  BY <1>0, <1>1 DEF Nested
<1>8. ASSUME NEW y \in 1..Len(visible'), items'[visible'[y]].expanded,
             NEW x \in 1..Len(items'[visible'[y]].kids)
      PROVE  \E z \in 1..Len(visible') : visible'[z] = items'[visible'[y]].kids[x]
  <2>1. PICK m \in 1..L : Kept(k, B, m) /\ y = Moved(k, B, m)
    BY <1>5
  <2>2. visible'[y] = visible[m] /\ visible[m] \in 1..N
    BY <1>2, <1>4, <2>1
  <2>3. /\ items[visible[m]].expanded /\ visible[m] # visible[k]
        /\ items'[visible[m]].kids = items[visible[m]].kids
    BY <1>1, <1>8, <2>2, ClosedRow, SMTT(60)
  <2>4. InList(items[visible[m]].kids[x])
    BY <1>0, <1>1, <1>8, <2>2, <2>3 DEF Listed
  <2>5. PICK c \in 1..L : visible[c] = items[visible[m]].kids[x]
    BY <1>1, <2>4 DEF InList
  <2>6. items[visible[c]].up = visible[m]
    <3>1. PageRows(visible[m])
      BY <1>0, <1>1, <2>2, <2>3 DEF Heap
    <3>2. x \in 1..Len(items[visible[m]].kids)
      BY <1>8, <2>2, <2>3
    <3> QED BY <2>5, <3>1, <3>2 DEF PageRows
  <2>7. c \in 2..L
    <3>1. c # 1
      <4>1. visible # <<>>
        BY <1>1, <1>2
      <4>2. items[visible[1]].up = NoItem
        BY <1>0, <4>1 DEF Nested
      <4> QED BY <2>2, <2>6, <4>2 DEF NoItem
    <3> QED BY <1>1, <3>1
  <2>8. PICK p \in 1..(c - 1) : ParentAt(p, c)
    BY <1>0, <1>1, <2>7 DEF Nested
  <2>9. p \in 1..L /\ visible[p] = visible[m]
    BY <1>1, <2>6, <2>8 DEF ParentAt
  <2>10. p = m /\ p # k
    BY <1>7, <2>3, <2>9
  <2>11. Kept(k, B, c)
    BY <1>1, <2>1, <2>8, <2>10, ParentLeft
  <2>12. /\ Moved(k, B, c) \in 1..Len(visible')
         /\ visible'[Moved(k, B, c)] = items'[visible'[y]].kids[x]
    BY <1>4, <2>2, <2>3, <2>5, <2>11
  <2> QED BY <2>12
<1>9. ASSUME NEW y \in 1..Len(visible'), NEW z \in 1..Len(visible'),
             items'[visible'[y]].up = items'[visible'[z]].up,
             visible'[y] < visible'[z]
      PROVE  y < z
  <2>1. PICK m \in 1..L : Kept(k, B, m) /\ y = Moved(k, B, m)
    BY <1>5
  <2>2. PICK j \in 1..L : Kept(k, B, j) /\ z = Moved(k, B, j)
    BY <1>5
  <2>3. /\ visible'[y] = visible[m] /\ visible[m] \in 1..N
        /\ visible'[z] = visible[j] /\ visible[j] \in 1..N
    BY <1>2, <1>4, <2>1, <2>2
  <2>4. items'[visible[m]].up = items[visible[m]].up
        /\ items'[visible[j]].up = items[visible[j]].up
    BY <1>1, <2>3, ClosedRow
  <2>5. m < j
    BY <1>0, <1>1, <1>9, <2>3, <2>4 DEF Listed
  <2> QED BY <1>6, <2>1, <2>2, <2>5
<1> QED BY <1>8, <1>9 DEF Listed, InList

LEMMA CollapseKeeps ==
  ASSUME TInv, NEW i \in 1..Len(items), Collapse(i)
  PROVE  TInv'
<1>0. TTypes /\ Scans /\ Awaited /\ Pages /\ Nested /\ Selection
  BY DEF TInv
<1>1. PICK L \in Nat, N \in Nat : L = Len(visible) /\ N = Len(items)
  BY <1>0 DEF TTypes
<1>2. InList(i)
  BY DEF Collapse, IsVisible, Contains, InList
<1>3. PICK k \in 1..L : k = PositionOf(i) /\ visible[k] = i
  BY <1>1, <1>2, PositionFact
<1>4. PICK B \in k..L : B = LastBelow(k) /\ Below(k, B)
  BY <1>1, LastBelowFact DEF Below
<1>5. PICK s : s = SelectionAfter(i, {visible[m] : m \in (k + 1)..B})
  OBVIOUS
<1>6. /\ visible' = SubSeq(visible, 1, k) \o SubSeq(visible, B + 1, L)
      /\ selected' = s
      /\ items' = IF s = selected THEN WithCollapsed(items, i)
                                  ELSE Selecting(WithCollapsed(items, i), s)
      /\ UNCHANGED <<current, cache, loads>>
  BY <1>1, <1>3, <1>4, <1>5 DEF Collapse, WithCollapsed
<1>7. CutMade(k, B)
  BY <1>1, <1>6, CutMadeFact
<1>8. s = i \/ (s = selected /\ \A m \in (k + 1)..B : visible[m] # selected)
  BY <1>5 DEF SelectionAfter
<1>9. s \in 0..N
  BY <1>0, <1>1, <1>8 DEF TTypes
<1>10. RowsClosed(i, s)
  BY <1>1, <1>6, <1>9, RowsClosedFact
<1>11. Heap'
  BY <1>10, CollapseHeap
<1>12. Nested' /\ Listed'
  BY <1>1, <1>3, <1>4, <1>7, <1>10, CollapseNested, CollapseListed
<1>13. \A m \in 1..L : Kept(k, B, m) =>
         /\ Moved(k, B, m) \in 1..Len(visible')
         /\ visible'[Moved(k, B, m)] = visible[m]
  <2>1. Len(visible') = L - (B - k)
    BY <1>1, <1>7 DEF CutMade
  <2>2. \A m \in 1..L : Kept(k, B, m) => Moved(k, B, m) \in 1..(L - (B - k))
    BY <1>1, MovedFact
  <2> QED BY <1>1, <1>7, <2>1, <2>2 DEF CutMade
<1>14. Selection'
  <2>1. \A j \in 1..Len(items') : items'[j].is_selected => j = s
    BY <1>10 DEF RowsClosed
  <2>2. ASSUME s # NoItem
        PROVE  \E m \in 1..L : Kept(k, B, m) /\ visible[m] = s
    <3>1. CASE s = i
      <4>1. k \in 1..L /\ Kept(k, B, k)
        BY <1>1 DEF Kept
      <4> QED BY <1>3, <3>1, <4>1
    <3>2. CASE s = selected /\ \A m \in (k + 1)..B : visible[m] # selected
      <4>1. PICK m \in 1..L : visible[m] = selected
        BY <1>0, <1>1, <2>2, <3>2 DEF Selection, InList
      <4>2. m \notin (k + 1)..B
        BY <3>2, <4>1
      <4>3. Kept(k, B, m)
        BY <1>1, <1>4, <4>2 DEF Kept
      <4> QED BY <3>2, <4>1, <4>3
    <3> QED BY <1>8, <3>1, <3>2
  <2>3. ASSUME s # NoItem PROVE \E y \in 1..Len(visible') : visible'[y] = s
    BY <1>13, <2>2, <2>3
  <2> QED BY <1>6, <2>1, <2>3 DEF Selection, InList
<1>15. TTypes'
  <2>1. items' \in Seq(ItemType) /\ Len(items') = Len(items)
    BY <1>10 DEF RowsClosed
  <2>2. visible' \in Seq(1..Len(items))
    BY <1>7 DEF CutMade
  <2> QED BY <1>0, <1>1, <1>6, <1>9, <2>1, <2>2 DEF TTypes
<1>16. Scans'
  <2>1. Len(items') = Len(items)
    BY <1>10 DEF RowsClosed
  <2>2. \A j \in 1..Len(items) : items'[j].op <= current
    BY <1>0, <1>10, ClosedRow DEF Scans
  <2>3. ASSUME NEW l \in loads PROVE items'[l.item].op <= l.op /\ l.op <= current
    <3>1. l.item \in 1..Len(items) /\ items[l.item].op <= l.op /\ l.op <= current
      BY <1>0 DEF TTypes, Scans
    <3> QED BY <1>10, <3>1, ClosedRow
  <2>4. ASSUME NEW y \in 1..Len(visible') PROVE items'[visible'[y]].op = current
    <3>1. PICK m \in 1..L : Kept(k, B, m) /\ y = Moved(k, B, m)
      <4>1. Len(visible') = L - (B - k)
        BY <1>1, <1>7 DEF CutMade
      <4>2. \A z \in 1..(L - (B - k)) :
              \E m \in 1..L : Kept(k, B, m) /\ z = Moved(k, B, m)
        BY <1>1, MovedCovers, ZenonT(60)
      <4> QED BY <4>1, <4>2
    <3>2. visible'[y] = visible[m] /\ visible[m] \in 1..Len(items)
          /\ items[visible[m]].op = current
      BY <1>0, <1>1, <1>13, <3>1, SMTT(60) DEF Scans, TTypes
    <3> QED BY <1>10, <3>2, ClosedRow
  <2> QED BY <1>6, <2>1, <2>2, <2>3, <2>4 DEF Scans
<1>17. Awaited'
  <2>1. Len(items') = Len(items)
    BY <1>10 DEF RowsClosed
  <2>2. ASSUME NEW j \in 1..Len(items)
        PROVE  /\ items'[j].loading <=> \E l \in loads : l.item = j
               /\ items'[j].loading => ~items'[j].expanded /\ items'[j].node \in Dirs
    <3>1. /\ items'[j].loading = items[j].loading /\ items'[j].node = items[j].node
          /\ items'[j].expanded => items[j].expanded
      BY <1>10, ClosedRow
    <3>2. /\ items[j].loading <=> \E l \in loads : l.item = j
          /\ items[j].loading => ~items[j].expanded /\ items[j].node \in Dirs
      BY <1>0 DEF Awaited
    <3> QED BY <3>1, <3>2
  <2> QED BY <1>0, <1>6, <2>1, <2>2 DEF Awaited
<1>18. Pages'
  BY <1>6, PagesKept
<1> QED BY <1>11, <1>12, <1>14, <1>15, <1>16, <1>17, <1>18 DEF TInv

---------------------------------------------------------------------------
(* Every step *)

LEMMA SelectIndexKeeps ==
  ASSUME TInv, NEW k, SelectIndex(k)
  PROVE  TInv'
<1>1. DOMAIN visible = 1..Len(visible)
  BY DEF TInv, TTypes
<1>2. CASE k \in DOMAIN visible
  <2>1. Select(visible[k]) /\ InList(visible[k])
    BY <1>1, <1>2 DEF SelectIndex, InList
  <2> QED BY <2>1, SelectKeeps
<1>3. CASE k \notin DOMAIN visible
  <2>1. Select(NoItem)
    BY <1>3 DEF SelectIndex
  <2> QED BY <2>1, SelectKeeps
<1> QED BY <1>2, <1>3

\* The parent of a row that is listed is listed.
LEMMA UpIsListed ==
  ASSUME TInv, NEW i, InList(i), items[i].up # NoItem
  PROVE  InList(items[i].up)
<1>0. Nested /\ Len(visible) \in Nat
  BY DEF TInv, TTypes
<1>1. PICK k \in 1..Len(visible) : visible[k] = i
  BY DEF InList
<1>2. k \in 2..Len(visible)
  <2>1. k # 1
    <3>1. visible # <<>>
      BY <1>0, <1>1
    <3> QED BY <1>0, <1>1, <3>1 DEF Nested
  <2> QED BY <1>0, <2>1
<1>3. PICK p \in 1..(k - 1) : ParentAt(p, k)
  BY <1>0, <1>2 DEF Nested
<1>4. p \in 1..Len(visible) /\ visible[p] = items[i].up
  BY <1>0, <1>1, <1>2, <1>3 DEF ParentAt
<1> QED BY <1>4 DEF InList

LEMMA NavigateRightKeeps ==
  ASSUME TInv, NavigateRight
  PROVE  TInv'
<1>1. selected \in 1..Len(items)
  BY DEF NavigateRight, TInv, TTypes, NoItem
<1>2. CASE ExpandCached(selected)
  BY <1>1, <1>2, ExpandCachedKeeps
<1>3. CASE ExpandBegins(selected)
  BY <1>1, <1>3, ExpandBeginsKeeps
<1>4. CASE SelectIndex(PositionOf(selected) + 1)
  BY <1>4, SelectIndexKeeps
<1> QED BY <1>2, <1>3, <1>4 DEF NavigateRight

LEMMA NavigateLeftKeeps ==
  ASSUME TInv, NavigateLeft
  PROVE  TInv'
<1>1. selected \in 1..Len(items) /\ selected # NoItem
  BY DEF NavigateLeft, TInv, TTypes, NoItem
<1>2. CASE Collapse(selected)
  BY <1>1, <1>2, CollapseKeeps
<1>3. CASE items[selected].up # NoItem /\ Select(items[selected].up)
  <2>1. InList(selected)
    BY <1>1 DEF TInv, Selection
  <2>2. InList(items[selected].up)
    BY <1>3, <2>1, UpIsListed
  <2> QED BY <1>3, <2>2, SelectKeeps
<1> QED BY <1>2, <1>3 DEF NavigateLeft

LEMMA ToggleExpandKeeps ==
  ASSUME TInv, ToggleExpand
  PROVE  TInv'
<1>1. DOMAIN items = 1..Len(items)
  BY DEF TInv, TTypes
<1>2. PICK i \in 1..Len(items) : Collapse(i) \/ ExpandCached(i) \/ ExpandBegins(i)
  BY <1>1 DEF ToggleExpand
<1>3. CASE Collapse(i)
  BY <1>3, CollapseKeeps
<1>4. CASE ExpandCached(i)
  BY <1>4, ExpandCachedKeeps
<1>5. CASE ExpandBegins(i)
  BY <1>5, ExpandBeginsKeeps
<1> QED BY <1>2, <1>3, <1>4, <1>5

LEMMA UserStepKeeps ==
  ASSUME TInv, UserStep
  PROVE  TInv'
<1>1. ASSUME NEW k, SelectIndex(k) PROVE TInv'
  BY <1>1, SelectIndexKeeps
<1>2. CASE SelectRow
  BY <1>1, <1>2 DEF SelectRow
<1>3. CASE NavigateUp
  BY <1>1, <1>3 DEF NavigateUp
<1>4. CASE NavigateDown
  BY <1>1, <1>4 DEF NavigateDown
<1>5. CASE NavigateHome
  BY <1>1, <1>5 DEF NavigateHome
<1>6. CASE NavigateEnd
  BY <1>1, <1>6 DEF NavigateEnd
<1>7. CASE NavigatePageUp
  BY <1>1, <1>7 DEF NavigatePageUp
<1>8. CASE NavigatePageDown
  BY <1>1, <1>8 DEF NavigatePageDown
<1>9. CASE NavigateRight
  BY <1>9, NavigateRightKeeps
<1>10. CASE NavigateLeft
  BY <1>10, NavigateLeftKeeps
<1>11. CASE ToggleExpand
  BY <1>11, ToggleExpandKeeps
<1> QED BY <1>2, <1>3, <1>4, <1>5, <1>6, <1>7, <1>8, <1>9, <1>10, <1>11 DEF UserStep

LEMMA PageArrivesKeeps ==
  ASSUME TInv, PageArrives
  PROVE  TInv'
<1>1. PICK load \in loads : ExpandEnds(load) \/ ExpandFails(load)
  BY DEF PageArrives
<1>2. CASE ExpandEnds(load)
  BY <1>2, ExpandEndsKeeps
<1>3. CASE ExpandFails(load)
  BY <1>3, ExpandFailsKeeps
<1> QED BY <1>1, <1>2, <1>3

LEMMA StutterKeeps ==
  ASSUME TInv, UNCHANGED tvars
  PROVE  TInv'
<1>0. /\ current' = current /\ items' = items /\ visible' = visible
      /\ selected' = selected /\ cache' = cache /\ loads' = loads
  BY DEF tvars
<1>1. QuietRows
  <2>1. \A j \in 1..Len(items) : SameTree(items'[j], items[j])
    BY <1>0 DEF SameTree, SamePlace
  <2> QED BY <1>0, <2>1 DEF QuietRows, TInv, TTypes
<1>2. Heap' /\ Nested' /\ Listed'
  BY <1>0, <1>1, TreeKept
<1>3. TTypes' /\ Scans' /\ Awaited' /\ Selection'
  BY <1>0 DEF TInv, TTypes, Scans, Awaited, Selection, InList
<1>4. Pages'
  BY <1>0, PagesKept
<1> QED BY <1>2, <1>3, <1>4 DEF TInv

LEMMA TreeStart == TInit => TInv
<1> SUFFICES ASSUME TInit PROVE TInv
  OBVIOUS
<1>0. /\ current = 0 /\ items = <<>> /\ visible = <<>> /\ selected = NoItem
      /\ cache = <<>> /\ loads = {}
  BY DEF TInit
<1>1. Len(items) = 0 /\ Len(visible) = 0 /\ Len(cache) = 0
  BY <1>0
<1>2. TTypes
  BY <1>0, <1>1 DEF TTypes, NoItem
<1>3. Scans /\ Awaited
  BY <1>0, <1>1 DEF Scans, Awaited
<1>4. Pages
  BY <1>1, ProjectionAssumption DEF Pages, GoodPages
<1>5. Heap /\ Nested /\ Listed /\ Selection
  BY <1>0, <1>1 DEF Heap, Nested, Listed, Selection, InList
<1> QED BY <1>2, <1>3, <1>4, <1>5 DEF TInv

\* Whatever is expanded, collapsed, selected or awaited, and in whatever order
\* pages arrive or fail, the list is a tree in preorder in which every
\* expanded row has exactly its page's rows below it, the selection is one of
\* its rows, and the cache holds the engine's pages (FlattenedTreeProjection,
\* BoundedPageCache).
THEOREM TreeInvariant == TSpec => []TInv
<1>1. TInit => TInv
  BY TreeStart
<1>2. TInv /\ [TNext]_tvars => TInv'
  <2> SUFFICES ASSUME TInv, [TNext]_tvars PROVE TInv'
    OBVIOUS
  <2>1. CASE InitializeRoot
    BY <2>1, InitializeRootKeeps
  <2>2. CASE UserStep
    BY <2>2, UserStepKeeps
  <2>3. CASE PageArrives
    BY <2>3, PageArrivesKeeps
  <2>4. CASE UNCHANGED tvars
    BY <2>4, StutterKeeps
  <2> QED BY <2>1, <2>2, <2>3, <2>4 DEF TNext
<1> QED BY <1>1, <1>2, PTL DEF TSpec

\* The page cache keeps its bound and holds no page twice, also when a page
\* arrives twice because its row was made anew in between (PutPage).
THEOREM CacheStaysBounded == TSpec => []CacheBounded
<1>1. TInv => CacheBounded
  BY SMTT(60) DEF TInv, TTypes, Pages, GoodPages, CacheBounded
<1> QED BY <1>1, TreeInvariant, PTL

\* No row of an earlier scan is ever listed with those of the one shown,
\* although its pages still arrive (ExpandAsync, the operation id of a row).
THEOREM ListRowsAreCurrent == TSpec => []RowsAreCurrent
<1>1. TInv => RowsAreCurrent
  BY SMTT(60) DEF TInv, TTypes, Scans, RowsAreCurrent
<1> QED BY <1>1, TreeInvariant, PTL

\* A row shows its spinner exactly while one expansion of it awaits a page
\* (the finally of ExpandAsync).
THEOREM SpinnersAwait == TSpec => []LoadingIsAwaited
<1>1. ASSUME TInv PROVE LoadingIsAwaited
  <2>1. TTypes /\ Awaited /\ DOMAIN items = 1..Len(items)
    BY <1>1 DEF TInv, TTypes
  <2>2. ASSUME NEW i \in DOMAIN items, NEW own, own = {load \in loads : load.item = i}
        PROVE  Cardinality(own) <= 1 /\ (items[i].loading <=> own # {})
    <3>1. items[i].loading <=> \E l \in loads : l.item = i
      BY <2>1 DEF Awaited
    <3>2. items[i].loading <=> own # {}
      BY <2>2, <3>1
    <3>3. CASE own = {}
      <4>1. Cardinality(own) = 0
        BY <3>3, FS_EmptySet
      <4> QED BY <3>2, <4>1
    <3>4. CASE own # {}
      <4>1. PICK l : l \in own
        BY <3>4
      <4>2. own = {l}
        BY <2>1, <2>2, <4>1 DEF Awaited
      <4>3. Cardinality(own) = 1
        BY <4>2, FS_Singleton
      <4> QED BY <3>2, <4>3
    <3> QED BY <3>3, <3>4
  <2> QED BY <2>2 DEF LoadingIsAwaited
<1> QED BY <1>1, TreeInvariant, PTL

\* Two of the parts of ListIsTree: the selection and its mark are in the list
\* (SelectedItem's setter, Collapse), and below an expanded row are its
\* entry's children in the engine's order, once its page has come, whichever
\* scan asked for it (ExpandAsync).
THEOREM ListShowsPages == TSpec => [](SelectionIsListed /\ ChildrenAreThePage)
<1>1. ASSUME TInv PROVE SelectionIsListed
  <2>1. DOMAIN items = 1..Len(items) /\ Selection
    BY <1>1 DEF TInv, TTypes
  <2>2. ASSUME selected # NoItem PROVE IsVisible(selected)
    <3>1. ~Gone(selected)
      BY <1>1, <2>1, <2>2, PositionFact DEF Selection
    <3> QED BY <3>1 DEF Gone
  <2> QED BY <2>1, <2>2 DEF SelectionIsListed, Selection
<1>2. ASSUME TInv PROVE ChildrenAreThePage
  <2>1. TTypes /\ Heap /\ DOMAIN visible = 1..Len(visible)
    BY <1>2 DEF TInv, TTypes
  <2>2. ASSUME NEW k \in DOMAIN visible, items[visible[k]].expanded,
               NEW kids, kids = items[visible[k]].kids,
               NEW nodes, nodes = Page(items[visible[k]].op, items[visible[k]].node).nodes
        PROVE  [m \in DOMAIN kids |-> items[kids[m]].node] = nodes
    <3>1. PICK i \in 1..Len(items) : i = visible[k]
      BY <2>1 DEF TTypes
    <3>2. PageRows(i)
      BY <2>1, <2>2, <3>1 DEF Heap
    <3>3. PICK row \in ItemType : row = items[i]
      BY <2>1 DEF TTypes
    <3>4. row.op \in Nat /\ row.kids \in Seq(Nat)
      BY DEF ItemType
    <3>5. items[i].op \in Nat /\ items[i].node \in Dirs
      BY <3>2, <3>3, <3>4 DEF PageRows
    <3>6. nodes \in Seq(Nodes)
      BY <2>2, <3>1, <3>5, PageFact
    <3>7. DOMAIN kids = 1..Len(kids) /\ DOMAIN nodes = 1..Len(nodes)
          /\ nodes = [m \in DOMAIN nodes |-> nodes[m]]
      BY <2>2, <3>1, <3>3, <3>4, <3>6, SMTT(60)
    <3>8. Len(kids) = Len(nodes) /\ \A m \in 1..Len(kids) : items[kids[m]].node = nodes[m]
      BY <2>2, <3>1, <3>2 DEF PageRows
    <3> QED BY <3>7, <3>8
  <2> QED BY <2>2, SMTT(60) DEF ChildrenAreThePage
<1> QED BY <1>1, <1>2, TreeInvariant, PTL

=============================================================================
