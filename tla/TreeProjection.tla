-------------------------- MODULE TreeProjection --------------------------
(***************************************************************************)
(* The flattened tree of the desktop client (FlattenedTreeProjection.cs)   *)
(* with its page cache (BoundedPageCache.cs) and the rows it shows         *)
(* (TreeItemViewModel.cs).                                                 *)
(*                                                                         *)
(* Every method runs on the UI thread, but an expansion awaits its page,   *)
(* and everything else may happen in between: other expansions, collapses  *)
(* of an ancestor, the root of a newer scan.  Rows are objects, and a row  *)
(* that left the list can still be toggled by a binding or an automation   *)
(* peer that holds it; `items` is the heap of all rows made so far.        *)
(* The list control's own writes of SelectedItem while rows are removed    *)
(* are left out: Collapse and InitializeRootAsync select afterwards.       *)
(***************************************************************************)
EXTENDS Integers, Sequences, SequencesExt

CONSTANTS
  Dirs,       \* entries with children
  Kids,       \* children of each of them, in the engine's order
  Root,
  PageSize,   \* _pageSize, of which only the first page is shown
  MaxPages,   \* _maxPages of the cache
  Jump,       \* rows a page key moves by
  MaxItems,   \* bound: rows ever made
  MaxOps      \* bound: scans shown

Nodes == Dirs \union UNION {Range(Kids[d]) : d \in Dirs}

ASSUME ProjectionAssumption ==
  /\ Root \in Dirs
  /\ Kids \in [Dirs -> Seq(Nodes)]
  /\ PageSize \in Nat \ {0}
  /\ MaxPages \in Nat \ {0}
  /\ Jump \in Nat

VARIABLES
  current,    \* _currentOperationId, 0 before the first scan
  items,      \* every TreeItemViewModel
  visible,    \* VisibleItems, as indices of items
  selected,   \* _selectedItem, 0 for null
  cache,      \* pages in _lruList, the least recently used first
  loads       \* expansions that await their page

tvars == <<current, items, visible, selected, cache, loads>>

NoItem == 0

Item(op, node, level, up) ==
  [op |-> op, node |-> node, level |-> level, up |-> up, expanded |-> FALSE,
   loading |-> FALSE, is_selected |-> FALSE, kids |-> <<>>]
HasChildren(i) == items[i].node \in Dirs

Page(op, node) ==
  [op |-> op, node |-> node,
   nodes |-> SubSeq(Kids[node], 1, Min({PageSize, Len(Kids[node])}))]

TInit ==
  /\ current = 0
  /\ items = <<>> /\ visible = <<>> /\ selected = NoItem
  /\ cache = <<>> /\ loads = {}

IsVisible(i) == Contains(visible, i)
PositionOf(i) ==
  IF IsVisible(i) THEN CHOOSE k \in DOMAIN visible : visible[k] = i ELSE 0
---------------------------------------------------------------------------
(* Selection *)

\* The setter of SelectedItem: the old row is unmarked first, and the new one
\* marked only if it is another.
Selecting(its, new) ==
  LET unmarked == IF selected = NoItem THEN its
                  ELSE [its EXCEPT ![selected].is_selected = FALSE]
  IN  IF new \in {selected, NoItem} THEN unmarked
      ELSE [unmarked EXCEPT ![new].is_selected = TRUE]

Select(i) ==
  /\ selected' = i
  /\ items' = Selecting(items, i)
  /\ UNCHANGED <<current, visible, cache, loads>>

SelectIndex(k) == Select(IF k \in DOMAIN visible THEN visible[k] ELSE NoItem)

\* A click, or the automation's Select.
SelectRow == \E k \in 0..Len(visible) : SelectIndex(k)

NavigateUp == PositionOf(selected) > 1 /\ SelectIndex(PositionOf(selected) - 1)

NavigateDown ==
  /\ PositionOf(selected) \in 1..(Len(visible) - 1)
  /\ SelectIndex(PositionOf(selected) + 1)

NavigateHome == visible # <<>> /\ SelectIndex(1)
NavigateEnd == visible # <<>> /\ SelectIndex(Len(visible))
NavigatePageUp == SelectIndex(Max({1, PositionOf(selected) - Jump}))
NavigatePageDown == SelectIndex(Min({Len(visible), PositionOf(selected) + Jump}))
---------------------------------------------------------------------------
(* The page cache *)

\* Mutant: a page is looked up by its directory alone.
IsPageOf_AnyScan(page, op, node) == page.node = node

IsPageOf(page, op, node) == page.op = op /\ page.node = node

Cached(op, node) == \E k \in DOMAIN cache : IsPageOf(cache[k], op, node)
Place(op, node) == CHOOSE k \in DOMAIN cache : IsPageOf(cache[k], op, node)
Found(op, node) == cache[Place(op, node)]
Without(op, node) ==
  IF Cached(op, node) THEN RemoveAt(cache, Place(op, node)) ELSE cache

\* TryGetPage makes the page the most recently used.
Touched(op, node) == Append(Without(op, node), Found(op, node))

\* Mutant: room is made before the old copy of the page is removed.
PutPage_EvictsFirst(page) ==
  LET room == IF Len(cache) >= MaxPages THEN Tail(cache) ELSE cache
  IN  cache' = Append(room, page)

PutPage(page) ==
  LET rest == Without(page.op, page.node)
      room == SubSeq(rest, Max({1, Len(rest) - MaxPages + 2}), Len(rest))
  IN  cache' = Append(room, page)
---------------------------------------------------------------------------
(* Rows *)

\* InitializeRootAsync, for the root of a scan that has just settled.
InitializeRoot ==
  /\ current < MaxOps
  /\ Len(items) < MaxItems
  /\ current' = current + 1
  /\ cache' = <<>>
  /\ visible' = <<Len(items) + 1>>
  /\ selected' = Len(items) + 1
  /\ items' = Selecting(Append(items, Item(current + 1, Root, 0, NoItem)),
                        Len(items) + 1)
  /\ UNCHANGED loads

Gone(i) == ~IsVisible(i)

\* ExpandAsync with its page at hand: the children become rows below i, if i
\* is still listed.
Present(its, i, page) ==
  LET n == Len(page.nodes)
      made == [k \in 1..n |-> Item(page.op, page.nodes[k], its[i].level + 1, i)]
      rows == [k \in 1..n |-> Len(its) + k]
  IN  IF Gone(i)
      THEN items' = [its EXCEPT ![i].loading = FALSE] /\ UNCHANGED visible
      ELSE /\ Len(its) + n <= MaxItems
           /\ items' = [its EXCEPT ![i].loading = FALSE,
                                   ![i].expanded = TRUE,
                                   ![i].kids = rows] \o made
           /\ visible' = SubSeq(visible, 1, PositionOf(i)) \o rows
                         \o SubSeq(visible, PositionOf(i) + 1, Len(visible))

\* Mutant: a row that is loading may be expanded again.
Expandable_Twice(i) == HasChildren(i) /\ ~items[i].expanded

Expandable(i) == HasChildren(i) /\ ~items[i].expanded /\ ~items[i].loading

ExpandCached(i) ==
  /\ Expandable(i)
  /\ Cached(current, items[i].node)
  /\ cache' = Touched(current, items[i].node)
  /\ Present(items, i, Found(current, items[i].node))
  /\ UNCHANGED <<current, selected, loads>>

ExpandBegins(i) ==
  /\ Expandable(i)
  /\ ~Cached(current, items[i].node)
  /\ items' = [items EXCEPT ![i].loading = TRUE]
  /\ loads' = loads \union {[item |-> i, op |-> current]}
  /\ UNCHANGED <<current, visible, selected, cache>>

ExpandEnds(load) ==
  LET page == Page(load.op, items[load.item].node)
  IN  /\ PutPage(page)
      /\ Present(items, load.item, page)
      /\ loads' = loads \ {load}
      /\ UNCHANGED <<current, selected>>

\* The page provider failed, or the expansion was cancelled.
ExpandFails(load) ==
  /\ items' = [items EXCEPT ![load.item].loading = FALSE]
  /\ loads' = loads \ {load}
  /\ UNCHANGED <<current, visible, selected, cache>>

\* Mutant: rows of the same level are removed with the subtree.
LastBelow_Siblings(k) ==
  Max({m \in k..Len(visible) :
         \A j \in (k + 1)..m : items[visible[j]].level >= items[visible[k]].level})

\* The rows below the k-th that are deeper than it.
LastBelow(k) ==
  Max({m \in k..Len(visible) :
         \A j \in (k + 1)..m : items[visible[j]].level > items[visible[k]].level})

SelectionAfter(i, removed) == IF selected \in removed THEN i ELSE selected

\* Collapse: the rows below i go, and a selection among them moves to i.
Collapse(i) ==
  LET k == PositionOf(i)
      removed == {visible[m] : m \in (k + 1)..LastBelow(k)}
      collapsed == [items EXCEPT ![i].expanded = FALSE]
      next == SelectionAfter(i, removed)
  IN  /\ items[i].expanded
      /\ IsVisible(i)
      /\ visible' = SubSeq(visible, 1, k)
                    \o SubSeq(visible, LastBelow(k) + 1, Len(visible))
      /\ selected' = next
      /\ items' = IF next = selected THEN collapsed ELSE Selecting(collapsed, next)
      /\ UNCHANGED <<current, cache, loads>>

\* ToggleExpandAsync, of a listed row or of one that is not listed any more.
\* While the command awaits a page, keys and peers still call the method.
ToggleExpand ==
  \E i \in DOMAIN items :
    IF items[i].expanded THEN Collapse(i)
    ELSE ExpandCached(i) \/ ExpandBegins(i)

NavigateRight ==
  /\ selected # NoItem
  /\ IF HasChildren(selected) /\ ~items[selected].expanded
     THEN ExpandCached(selected) \/ ExpandBegins(selected)
     ELSE LET k == PositionOf(selected)
          IN  /\ items[selected].expanded
              /\ k \in 1..(Len(visible) - 1)
              /\ items[visible[k + 1]].up = selected
              /\ SelectIndex(k + 1)

NavigateLeft ==
  /\ selected # NoItem
  /\ IF items[selected].expanded THEN Collapse(selected)
     ELSE items[selected].up # NoItem /\ Select(items[selected].up)

UserStep ==
  \/ SelectRow \/ NavigateUp \/ NavigateDown \/ NavigateHome \/ NavigateEnd
  \/ NavigatePageUp \/ NavigatePageDown \/ NavigateRight \/ NavigateLeft
  \/ ToggleExpand

\* Pages arrive in any order.
PageArrives == \E load \in loads : ExpandEnds(load) \/ ExpandFails(load)

TNext == InitializeRoot \/ UserStep \/ PageArrives

TSpec == TInit /\ [][TNext]_tvars

---------------------------------------------------------------------------
(* Properties *)

\* The cache keeps its bound and holds no page twice, also when two loads of
\* one page overlap because its row was made anew in between (PutPage).
CacheBounded ==
  /\ Len(cache) <= MaxPages
  /\ \A j, k \in DOMAIN cache :
       j # k => cache[j].op # cache[k].op \/ cache[j].node # cache[k].node

\* The rows of i and of everything expanded below it, depth first.
RowsOf(i) ==
  LET rows[j \in DOMAIN items] ==
        <<j>> \o IF items[j].expanded
                 THEN FlattenSeq([k \in DOMAIN items[j].kids |->
                                    rows[items[j].kids[k]]])
                 ELSE <<>>
  IN  rows[i]

\* The selection is a row of the list or nothing, and no other row is marked:
\* a collapse takes it along and a new root replaces it.
SelectionIsListed ==
  /\ selected # NoItem => IsVisible(selected)
  /\ \A i \in DOMAIN items : items[i].is_selected => i = selected

\* An expanded row shows its entry's children, in the engine's order.
ChildrenAreThePage ==
  \A k \in DOMAIN visible :
    LET it == items[visible[k]]
    IN  it.expanded => [m \in DOMAIN it.kids |-> items[it.kids[m]].node]
                         = Page(it.op, it.node).nodes

\* The flat list is the tree: whatever expansions were awaited while rows
\* above them were collapsed, expanded again or replaced, it holds the root
\* and, below each expanded row and nowhere else, its children in the
\* engine's order, and no entry twice (ExpandAsync's insertions and the
\* level comparison of Collapse), and the selection stays in it.
ListIsTree ==
  /\ SelectionIsListed
  /\ ChildrenAreThePage
  /\ visible # <<>> => visible = RowsOf(visible[1])
  /\ \A j, k \in DOMAIN visible :
       j # k => items[visible[j]].node # items[visible[k]].node

\* All rows are of the scan that is shown, although a page asked for under an
\* earlier one may arrive, and be cached, after the cache was cleared for it
\* (the operation id in the key of BoundedPageCache).
RowsAreCurrent ==
  \A k \in DOMAIN visible : items[visible[k]].op = current

\* The spinner of a row is on exactly while its page is awaited, once, so an
\* expansion that fails can be tried again (the finally of ExpandAsync).
LoadingIsAwaited ==
  \A i \in DOMAIN items :
    LET own == {load \in loads : load.item = i}
    IN  Cardinality(own) <= 1 /\ (items[i].loading <=> own # {})
=============================================================================
