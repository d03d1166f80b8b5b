-------------------------- MODULE GraphAggregates --------------------------
(***************************************************************************)
(* compute_aggregates (builder.rs), which GraphBuilder::finish runs on the *)
(* sealed table: object records with their allocation weight and link      *)
(* evidence, Tarjan's offline lowest common ancestors on a hand-written    *)
(* stack, unique and referenced bytes of every directory, and the sorted   *)
(* child slices that get_children_page (graph.rs) serves.                  *)
(*                                                                         *)
(* The table is grown as GraphBuilder grows it: each entry below an older  *)
(* directory.  GraphBuilderProofs shows that ids find their entries and    *)
(* that first_child and next_sibling hold the children in arrival order,   *)
(* so entries are named by their index and the links are defined from the  *)
(* parents.  The loop over disconnected components is left out: the table  *)
(* is one tree (TableIsOneTree of GraphBuilderProofs), which leaves it     *)
(* nothing to do.                                                          *)
(***************************************************************************)
EXTENDS Integers, Sequences, SequencesExt

CONSTANTS
  Families,  \* bound: the tables to compute, each with its largest number of
             \* entries and the kinds, sizes, object identities (None when
             \* not observed), link counts and names its entries may have
  MaxU64,
  None

LinkCounts ==
  [knows : {"Known", "Unavailable", "NotApplicable", "NotObserved"}, count : Nat]

ASSUME FamiliesAssumption ==
  /\ MaxU64 \in Nat
  /\ \A f \in Families : /\ f.links \subseteq LinkCounts
                         /\ f.sizes \subseteq Nat
                         /\ f.allocs \union f.dir_allocs \subseteq Nat \union {None}

Rows(f) ==
  [kind : f.kinds \intersect {"Directory"}, logical : {0},
   alloc : f.dir_allocs, oid : f.dir_oids,
   link : {[knows |-> "NotApplicable", count |-> 0]}, name : f.names]
  \union
  [kind : f.kinds \intersect {"File"}, logical : f.sizes, alloc : f.allocs,
   oid : f.oids, link : f.links, name : f.names]
  \union
  [kind : f.kinds \intersect {"Special"}, logical : {0}, alloc : {None},
   oid : {None}, link : {[knows |-> "NotApplicable", count |-> 0]},
   name : f.names]

VARIABLES
  table,          \* entries, as observed
  parent,         \* index of each entry's parent, 0 for the root
  g_pc,           \* phase of the computation
  to_normalize,   \* keys left in file_object_map and dir_object_ids
  objects,        \* Vec<ObjectRecord>
  object_index,   \* object of each entry, 0 for NO_OBJECT
  size_known,     \* allocated_size_known of each entry
  bytes_known,    \* allocated_bytes_known of the graph
  indeterminate,  \* indeterminate_objects
  stack, visited, post_order, uf_parent, ancestor, last_occurrence,
  tree_delta,
  todo,           \* places in post_order of the directories still to aggregate
  unique, referenced, logical,
  all_children, child_start

facts == <<table, parent>>
evidence == <<to_normalize, objects, object_index, size_known, bytes_known,
              indeterminate>>
walk == <<stack, visited, post_order, uf_parent, ancestor, last_occurrence,
          tree_delta>>
sums == <<todo, unique, referenced, logical>>
slices == <<all_children, child_start>>
gvars == <<facts, g_pc, evidence, walk, sums, slices>>

Nodes == 1..Len(table)
IsDir(i) == table[i].kind = "Directory"
IsFile(i) == table[i].kind = "File"
ChildrenOf(p) == {i \in Nodes : parent[i] = p}
LeastOrNil(S) == IF S = {} THEN 0 ELSE Min(S)
first_child(p) == LeastOrNil(ChildrenOf(p))
next_sibling(i) == LeastOrNil({j \in ChildrenOf(parent[i]) : j > i})
value(alloc) == IF alloc = None THEN 0 ELSE alloc
Saturated(n) == IF n > MaxU64 THEN MaxU64 ELSE n

AInit ==
  /\ table = <<>> /\ parent = <<>>
  /\ g_pc = "ingesting"
  /\ to_normalize = {} /\ objects = <<>> /\ object_index = <<>>
  /\ size_known = <<>> /\ bytes_known = TRUE /\ indeterminate = 0
  /\ stack = <<>> /\ visited = {} /\ post_order = <<>>
  /\ uf_parent = <<>> /\ ancestor = <<>> /\ last_occurrence = <<>>
  /\ tree_delta = <<>>
  /\ todo = {} /\ unique = <<>> /\ referenced = <<>> /\ logical = <<>>
  /\ all_children = <<>> /\ child_start = <<>>

\* The entry as it is filed by ingest_directory, ingest_file and
\* ingest_special.
Ingest(row, p) ==
  /\ g_pc = "ingesting"
  /\ \E f \in Families :
       Len(table) < f.entries /\ ToSet(Append(table, row)) \subseteq Rows(f)
  /\ IF table = <<>> THEN p = 0 /\ row.kind = "Directory"
                     ELSE p \in Nodes /\ IsDir(p)
  /\ table' = Append(table, row)
  /\ parent' = Append(parent, p)
  /\ size_known' =
       Append(size_known,
              \/ row.kind = "Directory"
              \/ row.kind = "File" /\ row.alloc # None)
  /\ bytes_known' = (bytes_known /\ ~(row.kind = "File" /\ row.alloc = None))
  /\ UNCHANGED <<g_pc, to_normalize, objects, object_index, indeterminate,
                 walk, sums, slices>>

FileOids == {table[i].oid : i \in {j \in Nodes : IsFile(j)}} \ {None}
Begin ==
  /\ g_pc = "ingesting"
  /\ table # <<>>
  /\ g_pc' = "objects"
  /\ to_normalize' = [files : FileOids]
                     \union [dir : {i \in Nodes : IsDir(i) /\ table[i].oid # None}]
  /\ object_index' = [i \in Nodes |-> 0]
  /\ uf_parent' = [i \in Nodes |-> i]
  /\ ancestor' = [i \in Nodes |-> i]
  /\ tree_delta' = [i \in Nodes |-> 0]
  /\ unique' = [i \in Nodes |-> value(table[i].alloc)]
  /\ referenced' = [i \in Nodes |-> value(table[i].alloc)]
  /\ logical' = [i \in Nodes |-> table[i].logical]
  /\ child_start' = [i \in Nodes |-> 0]
  /\ UNCHANGED <<facts, objects, size_known, bytes_known, indeterminate,
                 stack, visited, post_order, last_occurrence, todo,
                 all_children>>
---------------------------------------------------------------------------
(* Phase 1: objects *)

derive(link, aliases) ==
  CASE link.knows = "NotApplicable" -> "NotApplicable"
    [] link.knows = "Known" -> IF link.count < aliases THEN "InconsistentEvidence"
                               ELSE IF link.count = aliases THEN "ConfirmedNone"
                               ELSE "ConfirmedExternal"
    [] OTHER -> "Indeterminate"

NotObserved == [knows |-> "NotObserved", count |-> 0]

\* Mutant: NotApplicable replaces Unavailable.
MergeLink_NoRank(resolved, link) ==
  IF resolved.knows = "Known" \/ link.knows = "NotObserved"
  THEN resolved ELSE link

\* One turn of the loop that resolves an object's link count.
MergeLink(resolved, link) ==
  IF \/ resolved.knows = "Known"
     \/ link.knows = "NotObserved"
     \/ link.knows = "NotApplicable" /\ resolved.knows = "Unavailable"
  THEN resolved ELSE link

Aliases(oid) == {i \in Nodes : IsFile(i) /\ table[i].oid = oid}
ResolvedLink(A) ==
  LET resolved[i \in 0..Len(table)] ==
        IF i = 0 THEN NotObserved
        ELSE IF i \in A THEN MergeLink(resolved[i - 1], table[i].link)
        ELSE resolved[i - 1]
  IN  resolved[Len(table)]
LinkConflict(A) ==
  Cardinality({table[i].link : i \in {j \in A : table[j].link.knows = "Known"}}) > 1
KnownAllocs(A) == {table[i].alloc : i \in A} \ {None}

ObjectRecord(oid, aliases, link, status, weight) ==
  [oid |-> oid, aliases |-> aliases, link |-> link, status |-> status,
   weight |-> weight]

\* Mutant: an allocation conflict is not recorded on the aliases.
MarkConflict_GraphOnly(A) ==
  IF Cardinality(KnownAllocs(A)) > 1
  THEN bytes_known' = FALSE /\ UNCHANGED size_known
  ELSE UNCHANGED <<size_known, bytes_known>>

MarkConflict(A) ==
  IF Cardinality(KnownAllocs(A)) > 1
  THEN /\ size_known' = [i \in Nodes |-> size_known[i] /\ i \notin A]
       /\ bytes_known' = FALSE
  ELSE UNCHANGED <<size_known, bytes_known>>

\* One key of file_object_map, whose order is the hasher's.
NormalizeFileObject(oid) ==
  LET A == Aliases(oid)
      status == IF LinkConflict(A) THEN "InconsistentEvidence"
                ELSE derive(ResolvedLink(A), Cardinality(A))
  IN  /\ g_pc = "objects"
      /\ [files |-> oid] \in to_normalize
      /\ to_normalize' = to_normalize \ {[files |-> oid]}
      /\ objects' = Append(objects,
           ObjectRecord(oid, Cardinality(A), ResolvedLink(A), status,
                        LeastOrNil(KnownAllocs(A))))
      /\ object_index' = [i \in Nodes |-> IF i \in A THEN Len(objects) + 1
                                          ELSE object_index[i]]
      /\ MarkConflict(A)
      /\ indeterminate' = indeterminate + (IF status = "Indeterminate" THEN 1 ELSE 0)
      /\ UNCHANGED <<facts, g_pc, walk, sums, slices>>

\* One key of dir_object_ids, after the file objects.
NormalizeDirectory(i) ==
  /\ g_pc = "objects"
  /\ [dir |-> i] \in to_normalize
  /\ to_normalize \intersect [files : FileOids] = {}
  /\ to_normalize' = to_normalize \ {[dir |-> i]}
  /\ objects' = Append(objects,
       ObjectRecord(table[i].oid, 1, table[i].link, "NotApplicable", 0))
  /\ object_index' = [object_index EXCEPT ![i] = Len(objects) + 1]
  /\ UNCHANGED <<facts, g_pc, size_known, bytes_known, indeterminate, walk,
                 sums, slices>>

\* Files without an identity: an object of their own if their link count was
\* observed, none otherwise.  Then the traversal starts at the root.
AccountIdentityLess ==
  LET anonymous == {i \in Nodes : IsFile(i) /\ object_index[i] = 0}
      linked == {i \in anonymous : table[i].link # NotObserved}
      place(i) == Cardinality({j \in linked : j <= i})
      recorded == [k \in 1..Cardinality(linked) |->
                     LET row == table[CHOOSE i \in linked : place(i) = k]
                     IN  ObjectRecord(None, 1, row.link, derive(row.link, 1),
                                      value(row.alloc))]
  IN  /\ g_pc = "objects"
      /\ to_normalize = {}
      /\ objects' = objects \o recorded
      /\ object_index' =
           [i \in Nodes |-> IF i \in linked THEN Len(objects) + place(i)
                            ELSE object_index[i]]
      /\ indeterminate' =
           indeterminate + Cardinality({i \in anonymous :
                             derive(table[i].link, 1) = "Indeterminate"})
      /\ last_occurrence' = [k \in 1..Len(objects') |-> 0]
      /\ visited' = {1}
      /\ stack' = <<[node |-> 1, next |-> first_child(1)]>>
      /\ g_pc' = "walk"
      /\ UNCHANGED <<facts, to_normalize, size_known, bytes_known,
                     post_order, uf_parent, ancestor, tree_delta, sums,
                     slices>>
---------------------------------------------------------------------------
(* Phase 2: the traversal *)

Top == stack[Len(stack)]

\* The top of the stack has a child left: go down into it.
Descend ==
  LET child == Top.next
      advanced == [stack EXCEPT ![Len(stack)].next = next_sibling(child)]
  IN  /\ g_pc = "walk"
      /\ stack # <<>>
      /\ Top.next # 0
      /\ IF child \in visited
         THEN stack' = advanced /\ UNCHANGED visited
         ELSE /\ visited' = visited \union {child}
              /\ stack' = Append(advanced, [node |-> child,
                                            next |-> first_child(child)])
      /\ UNCHANGED <<facts, g_pc, evidence, post_order, uf_parent, ancestor,
                     last_occurrence, tree_delta, sums, slices>>

\* The nodes on the way from i to the root of its set, both included.
UfPath(uf, i) ==
  LET path[j \in Nodes] == IF uf[j] = j THEN {j} ELSE {j} \union path[uf[j]]
  IN  path[i]
find_uf(uf, i) == CHOOSE j \in UfPath(uf, i) : uf[j] = j
compressed(uf, i) ==
  [j \in Nodes |-> IF j \in UfPath(uf, i) THEN find_uf(uf, i) ELSE uf[j]]

\* A finished node joins its parent's set.
UniteWithParent(uf, p, c) ==
  LET shorter == compressed(compressed(uf, p), c)
  IN  /\ uf_parent' = [shorter EXCEPT ![find_uf(uf, c)] = find_uf(uf, p)]
      /\ ancestor' = [ancestor EXCEPT ![find_uf(uf, p)] = p]

\* Mutant: only the occurrence of an object in the first entry of its
\* directory is remembered.
Occurrence_Leftmost(o, curr) ==
  IF curr = first_child(parent[curr])
  THEN [last_occurrence EXCEPT ![o] = curr] ELSE last_occurrence

Occurrence(o, curr) == [last_occurrence EXCEPT ![o] = curr]

\* The top of the stack is finished: a further occurrence of an object takes
\* its weight off the lowest common ancestor with the one before.
Leave ==
  LET curr == Top.node
      o == object_index[curr]
      counts == IsFile(curr) /\ o # 0 /\ objects[o].weight > 0
      prev == last_occurrence[o]
      again == counts /\ prev # 0
      uf == IF again THEN compressed(uf_parent, prev) ELSE uf_parent
      lca == ancestor[find_uf(uf_parent, prev)]
  IN  /\ g_pc = "walk"
      /\ stack # <<>>
      /\ Top.next = 0
      /\ stack' = Front(stack)
      /\ tree_delta' = IF again
                       THEN [tree_delta EXCEPT ![lca] = @ - objects[o].weight]
                       ELSE tree_delta
      /\ last_occurrence' = IF counts THEN Occurrence(o, curr)
                            ELSE last_occurrence
      /\ post_order' = Append(post_order, curr)
      /\ IF Len(stack) > 1
         THEN UniteWithParent(uf, stack[Len(stack) - 1].node, curr)
         ELSE uf_parent' = uf /\ UNCHANGED ancestor
      /\ UNCHANGED <<facts, g_pc, evidence, visited, sums, slices>>

\* The traversal is over: the loop over disconnected components finds none.
\* Phase 3: a file's unique bytes are its object's weight.
SetLeaves ==
  /\ g_pc = "walk"
  /\ stack = <<>>
  /\ unique' = [i \in Nodes |->
                  IF IsFile(i) /\ object_index[i] # 0
                  THEN objects[object_index[i]].weight ELSE unique[i]]
  /\ todo' = {k \in 1..Len(post_order) : IsDir(post_order[k])}
  /\ g_pc' = "directories"
  /\ UNCHANGED <<facts, evidence, walk, referenced, logical, slices>>
---------------------------------------------------------------------------
(* Phases 4 and 5: directories *)

SumOver(f, S) == MapThenSumSet(LAMBDA i : f[i], S)

\* Mutant: the directory's own allocation is left out.
ReferencedOf_ChildrenOnly(d) == Saturated(SumOver(referenced, ChildrenOf(d)))

ReferencedOf(d) ==
  Saturated(value(table[d].alloc) + SumOver(referenced, ChildrenOf(d)))

\* A directory after all of its subdirectories.  known_subtotal_allocated_bytes
\* is computed as referenced_allocated_bytes is.
AggregateDirectory ==
  LET d == post_order[Min(todo)]
      net_unique == SumOver(unique, ChildrenOf(d)) + tree_delta[d]
                    + value(table[d].alloc)
  IN  /\ g_pc = "directories"
      /\ todo # {}
      /\ IF net_unique < 0
         THEN g_pc' = "panicked" /\ UNCHANGED <<sums, size_known>>
         ELSE /\ todo' = todo \ {Min(todo)}
              /\ unique' = [unique EXCEPT ![d] = net_unique % (MaxU64 + 1)]
              /\ referenced' = [referenced EXCEPT ![d] = ReferencedOf(d)]
              /\ logical' = [logical EXCEPT
                   ![d] = Saturated(SumOver(logical, ChildrenOf(d)))]
              /\ size_known' = [size_known EXCEPT
                   ![d] = \A c \in ChildrenOf(d) :
                            /\ size_known[c]
                            /\ IsFile(c) => table[c].alloc # None]
              /\ UNCHANGED g_pc
      /\ UNCHANGED <<facts, to_normalize, objects, object_index, bytes_known,
                     indeterminate, walk, slices>>

\* Directories first, larger first, then by name and id.
Before(a, b) ==
  IF IsDir(a) # IsDir(b) THEN IsDir(a)
  ELSE IF logical[a] # logical[b] THEN logical[a] > logical[b]
  ELSE IF table[a].name # table[b].name THEN table[a].name < table[b].name
  ELSE a < b

SortedChildren(d) == SetToSortSeq(ChildrenOf(d), Before)

SliceStart(d) ==
  MapThenSumSet(LAMBDA e : Cardinality(ChildrenOf(e)), {e \in Nodes : e < d})

CutSlices ==
  /\ g_pc = "directories"
  /\ todo = {}
  /\ all_children' = FlattenSeq([d \in Nodes |-> SortedChildren(d)])
  /\ child_start' = [d \in Nodes |-> IF IsDir(d) THEN SliceStart(d) ELSE 0]
  /\ g_pc' = "graph"
  /\ UNCHANGED <<facts, evidence, walk, sums>>

child_count(d) == Cardinality(ChildrenOf(d))
Smaller(a, b) == IF a < b THEN a ELSE b

\* Mutant: the end of a page is inclusive.
get_children_page_Inclusive(d, offset, limit) ==
  IF offset >= child_count(d) THEN <<>>
  ELSE SubSeq(all_children, child_start[d] + offset + 1,
              child_start[d] + Smaller(offset + limit + 1, child_count(d)))

\* get_children_page of a settled graph.
get_children_page(d, offset, limit) ==
  IF offset >= child_count(d) THEN <<>>
  ELSE SubSeq(all_children, child_start[d] + offset + 1,
              child_start[d] + Smaller(offset + limit, child_count(d)))

\* Once the stream is sealed the computation runs on its own.
Compute ==
  \/ \E oid \in FileOids : NormalizeFileObject(oid)
  \/ \E i \in Nodes : NormalizeDirectory(i)
  \/ AccountIdentityLess
  \/ Descend \/ Leave \/ SetLeaves
  \/ AggregateDirectory \/ CutSlices

ANext ==
  \/ \E row \in UNION {Rows(f) : f \in Families}, p \in 0..Len(table) :
       Ingest(row, p)
  \/ Begin
  \/ Compute

ASpec == AInit /\ [][ANext]_gvars

---------------------------------------------------------------------------
(* Properties *)

\* Each node with the nodes above it.
Above(i) ==
  LET up[j \in Nodes] == IF j = 1 THEN {1} ELSE {j} \union up[parent[j]]
  IN  up[i]
Below(d) == {i \in Nodes : d \in Above(i)}
FilesBelow(d) == {i \in Below(d) : IsFile(i)}

\* The bytes of the distinct objects below d, each once with the least
\* allocation any of its entries reported, of the files without identity, and
\* of the directories themselves.
OidsBelow(d) == {table[i].oid : i \in FilesBelow(d)} \ {None}
Allocated == [i \in Nodes |-> value(table[i].alloc)]
DistinctBytes(d) ==
  SumOver([oid \in FileOids |-> LeastOrNil(KnownAllocs(Aliases(oid)))], OidsBelow(d))
  + SumOver(Allocated,
            {i \in Below(d) : IsDir(i) \/ (IsFile(i) /\ table[i].oid = None)})

\* "Unique Allocated Size: the Allocated Size of the distinct Filesystem
\* Objects reachable in a scope, counting each underlying object once":
\* wherever the hard links of an object lie in the tree, the deltas at their
\* common ancestors leave it counted once in every directory above one of
\* them; and the assertion net_unique >= 0 cannot fail unless the bytes of
\* the tree exceed a u64.
UniqueExact ==
  g_pc \in {"graph", "panicked"} /\ DistinctBytes(1) <= MaxU64 =>
    /\ g_pc = "graph"
    /\ \A d \in Nodes : IsDir(d) => unique[d] = DistinctBytes(d)

\* Logical and referenced bytes of a directory are the sums over everything
\* below it, capped once at u64::MAX however deep the saturating additions
\* are nested, so the root's agree with the totals of the Terminal record.
Observed == [i \in Nodes |-> table[i].logical]
ReferencedExact ==
  g_pc = "graph" =>
    \A d \in Nodes : IsDir(d) =>
      /\ referenced[d] = Saturated(SumOver(Allocated, Below(d)))
      /\ logical[d] = Saturated(SumOver(Observed, Below(d)))

Conflicting(i) ==
  /\ table[i].oid # None
  /\ Cardinality(KnownAllocs(Aliases(table[i].oid))) > 1

Unsure ==
  {i \in Nodes : IsFile(i) /\ (table[i].alloc = None \/ Conflicting(i))}

\* An allocation is called known only where it is: never above a file whose
\* size was not observed, or one whose hard links report different sizes,
\* however far away in the tree the contradicting link lies; and the whole
\* graph's flag is false exactly if some file is such.
KnowledgeSound ==
  g_pc = "graph" =>
    /\ \A d \in Nodes : IsDir(d) /\ size_known[d] => Below(d) \intersect Unsure = {}
    /\ bytes_known <=> Unsure = {}

\* The evidence about links outside the scan is judged per object and does
\* not depend on the order its entries arrived in: any Known count wins,
\* then Unavailable, then NotApplicable; two different Known counts are
\* inconsistent; and every indeterminate object is counted once.
Evidence(A) ==
  LET known == {table[i].link : i \in {j \in A : table[j].link.knows = "Known"}}
      says(k) == \E i \in A : table[i].link.knows = k
  IN  IF Cardinality(known) > 1 THEN "InconsistentEvidence"
      ELSE IF known # {} THEN derive(CHOOSE l \in known : TRUE, Cardinality(A))
      ELSE IF ~says("Unavailable") /\ says("NotApplicable") THEN "NotApplicable"
      ELSE "Indeterminate"

LinksJudged ==
  g_pc = "graph" =>
    /\ \A oid \in FileOids : \A i \in Aliases(oid) :
         objects[object_index[i]].status = Evidence(Aliases(oid))
    /\ indeterminate =
         Cardinality({oid \in FileOids : Evidence(Aliases(oid)) = "Indeterminate"})
         + Cardinality({i \in Nodes : /\ IsFile(i) /\ table[i].oid = None
                                      /\ Evidence({i}) = "Indeterminate"})

\* Paging through a directory with any page size yields each child exactly
\* once, in one order: directories before files, larger before smaller
\* (child slices of compute_aggregates and get_children_page).
PagesTile ==
  g_pc = "graph" =>
    \A d \in Nodes : IsDir(d) =>
      \A limit \in Nodes :
        LET pages == FlattenSeq([k \in Nodes |->
                       get_children_page(d, (k - 1) * limit, limit)])
        IN  /\ Len(pages) = child_count(d)
            /\ ToSet(pages) = ChildrenOf(d)
            /\ \A j, k \in 1..Len(pages) :
                 j < k => Before(pages[j], pages[k])
=============================================================================
