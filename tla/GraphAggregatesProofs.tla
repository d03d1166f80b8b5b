----------------------- MODULE GraphAggregatesProofs -----------------------
(***************************************************************************)
(* compute_aggregates, for every table, every order in which the objects   *)
(* are normalised and every size.                                          *)
(*                                                                         *)
(* What is called known is known (KnowledgeSound of GraphAggregates).  An  *)
(* allocation that is missing or contradicted is marked on the files,      *)
(* before the traversal; that no directory above such a file claims to be  *)
(* known rests on the traversal: the hand-written stack visits every entry *)
(* exactly once and finishes children before their directory, so each      *)
(* directory is summed up after everything below it.                       *)
(*                                                                         *)
(* The evidence about links is judged per object (LinksJudged): what the   *)
(* loop over an object's entries keeps at its end is what the strongest of *)
(* them says, in whatever order they came.                                 *)
(*                                                                         *)
(* A directory's bytes are the sum over everything below it, capped once   *)
(* (ReferencedExact), although each directory adds up only its children.   *)
(*                                                                         *)
(* An object with several entries below a directory is counted there once  *)
(* (UniqueExact): between two of its entries that are finished one after   *)
(* the other, the root of the union-find's set is their lowest common      *)
(* ancestor, so what is taken off below a directory is, at any point of    *)
(* the traversal, what its finished entries weigh beyond their objects.    *)
(***************************************************************************)
EXTENDS GraphAggregates, SequenceTheorems, FiniteSetTheorems, WellFoundedInduction,
        TLAPS

AllRows == UNION {Rows(f) : f \in Families}

Places == 1..Len(stack)
Finished(i) == \E k \in 1..Len(post_order) : post_order[k] = i

GTypes ==
  /\ table \in Seq(AllRows)
  /\ parent \in Seq(Nat) /\ Len(parent) = Len(table)
  /\ size_known \in Seq(BOOLEAN) /\ Len(size_known) = Len(table)
  /\ bytes_known \in BOOLEAN
  /\ g_pc \in {"ingesting", "objects", "walk", "directories", "graph", "panicked"}
  /\ stack \in Seq([node : Nodes, next : {0} \union Nodes])
  /\ visited \subseteq Nodes
  /\ post_order \in Seq(Nodes)
  /\ todo \subseteq 1..Len(post_order)

\* Each entry below an older directory.
TableGrows ==
  \A i \in Nodes : IF i = 1 THEN parent[i] = 0
                   ELSE parent[i] \in 1..(i - 1) /\ IsDir(parent[i])

\* What each phase starts from.
InPhase ==
  /\ g_pc # "ingesting" => table # <<>>
  /\ g_pc \in {"ingesting", "objects"} =>
       stack = <<>> /\ visited = {} /\ post_order = <<>>
  /\ g_pc \notin {"ingesting", "objects"} => to_normalize = {} /\ 1 \in visited
  /\ g_pc \notin {"ingesting", "objects", "walk"} => stack = <<>>
  /\ g_pc \notin {"directories", "panicked"} => todo = {}

\* Objects whose allocations were compared, and those where they differ.
Judged(oid) == g_pc # "ingesting" /\ [files |-> oid] \notin to_normalize
Contradicted(oid) == Cardinality(KnownAllocs(Aliases(oid))) > 1

FilesJudged ==
  \A i \in Nodes : IsFile(i) /\ size_known[i] =>
    /\ table[i].alloc # None
    /\ table[i].oid # None /\ Judged(table[i].oid) => ~Contradicted(table[i].oid)

GraphJudged ==
  bytes_known <=>
    /\ \A i \in Nodes : IsFile(i) => table[i].alloc # None
    /\ \A oid \in FileOids : Judged(oid) => ~Contradicted(oid)

\* The stack leads away from the root; of the children of an entry on it,
\* those before the one to go down next were visited.
StackInv ==
  /\ \A j, k \in Places : j < k => stack[j].node < stack[k].node
  /\ \A k \in Places :
       /\ stack[k].next # 0 => stack[k].next \in ChildrenOf(stack[k].node)
       /\ \A c \in ChildrenOf(stack[k].node) :
            c \in visited <=> stack[k].next = 0 \/ c < stack[k].next

\* What was visited is either on the stack or finished, and its parent was
\* visited before.
VisitedInv ==
  /\ \A k \in Places : stack[k].node \in visited /\ ~Finished(stack[k].node)
  /\ \A i \in Nodes : Finished(i) => i \in visited
  /\ \A i \in visited : Finished(i) \/ \E k \in Places : stack[k].node = i
  /\ \A i \in visited : i # 1 => parent[i] \in visited

\* Every entry is finished once, after all of its children.
PostOrderInv ==
  /\ \A j, k \in 1..Len(post_order) : post_order[j] = post_order[k] => j = k
  /\ \A k \in 1..Len(post_order) : \A c \in ChildrenOf(post_order[k]) :
       \E j \in 1..(k - 1) : post_order[j] = c

\* A directory that was summed up claims no more than its children do.
ClaimsNoMore(d) == size_known[d] => \A c \in ChildrenOf(d) : size_known[c]

SummedUp ==
  /\ \A t \in todo : /\ IsDir(post_order[t])
                     /\ \A k \in t..Len(post_order) : IsDir(post_order[k]) => k \in todo
  /\ g_pc \in {"directories", "graph"} =>
       \A k \in 1..Len(post_order) :
         IsDir(post_order[k]) /\ k \notin todo => ClaimsNoMore(post_order[k])

KnowledgeInv ==
  /\ GTypes /\ TableGrows /\ InPhase
  /\ FilesJudged /\ GraphJudged
  /\ StackInv /\ VisitedInv /\ PostOrderInv
  /\ SummedUp
---------------------------------------------------------------------------
(* Facts about the operators *)

\* Every set of naturals that is not empty has a least member.
LEMMA LeastExists ==
  ASSUME NEW T, T \subseteq Nat, T # {}
  PROVE  \E x \in T : \A y \in T : x <= y
<1>1. IsWellFoundedOn(OpToRel(<, Nat), Nat)
  BY NatLessThanWellFounded, Zenon
<1>2. PICK x \in T : \A y \in T : ~(<<y, x>> \in OpToRel(<, Nat))
  BY <1>1, WFMin, Zenon
<1>3. \A y \in T : ~(y < x)
  BY <1>2 DEF OpToRel
<1> QED BY <1>3

\* Min finds it.
LEMMA MinIsLeast ==
  ASSUME NEW T, T \subseteq Nat, T # {}
  PROVE  Min(T) \in T /\ \A y \in T : Min(T) <= y
<1>1. \E x \in T : \A y \in T : x <= y
  BY LeastExists
<1> QED BY <1>1 DEF Min

\* The head of a child list, or nil.
LEMMA LeastOrNilFound ==
  ASSUME NEW T, T \subseteq Nat \ {0}
  PROVE  /\ LeastOrNil(T) = 0 => T = {}
         /\ LeastOrNil(T) # 0 => LeastOrNil(T) \in T
         /\ \A y \in T : LeastOrNil(T) <= y
<1>1. CASE T = {}
  BY <1>1 DEF LeastOrNil
<1>2. CASE T # {}
  BY <1>2, MinIsLeast DEF LeastOrNil
<1> QED BY <1>1, <1>2

\* A list of children starts with the oldest one and goes on with the next.
LEMMA ListsInOrder ==
  ASSUME GTypes, NEW i \in Nodes
  PROVE  /\ first_child(i) # 0 => first_child(i) \in ChildrenOf(i)
         /\ \A c \in ChildrenOf(i) : first_child(i) # 0 /\ first_child(i) <= c
         /\ next_sibling(i) # 0 =>
              next_sibling(i) \in ChildrenOf(parent[i]) /\ next_sibling(i) > i
         /\ \A c \in ChildrenOf(parent[i]) :
              c <= i \/ (next_sibling(i) # 0 /\ next_sibling(i) <= c)
<1>1. Len(table) \in Nat /\ i \in Nat
  BY DEF GTypes, Nodes
<1>2. ChildrenOf(i) \subseteq Nat \ {0} /\ ChildrenOf(parent[i]) \subseteq Nat \ {0}
  BY <1>1 DEF ChildrenOf, Nodes
<1>3. PICK T : T = {j \in ChildrenOf(parent[i]) : j > i}
  OBVIOUS
<1>4. next_sibling(i) = LeastOrNil(T) /\ T \subseteq Nat \ {0}
  BY <1>2, <1>3 DEF next_sibling
<1>5. /\ LeastOrNil(T) = 0 => T = {}
      /\ LeastOrNil(T) # 0 => LeastOrNil(T) \in T
      /\ \A y \in T : LeastOrNil(T) <= y
  BY <1>4, LeastOrNilFound
<1>6. /\ first_child(i) # 0 => first_child(i) \in ChildrenOf(i)
      /\ \A c \in ChildrenOf(i) : first_child(i) # 0 /\ first_child(i) <= c
  BY <1>2, LeastOrNilFound DEF first_child
<1>7. \A c \in ChildrenOf(parent[i]) : c <= i \/ c \in T
  BY <1>1, <1>2, <1>3
<1> QED BY <1>3, <1>4, <1>5, <1>6, <1>7

---------------------------------------------------------------------------
(* The table and its evidence *)

\* The builder starts with an empty table.
LEMMA KnowledgeStarts == AInit => KnowledgeInv
<1> SUFFICES ASSUME AInit PROVE KnowledgeInv
  OBVIOUS
<1>1. Len(<<>>) = 0 /\ Nodes = {} /\ FileOids = {}
  BY DEF AInit, Nodes, FileOids
<1>2. GTypes
  BY <1>1 DEF AInit, GTypes
<1>3. TableGrows /\ InPhase /\ FilesJudged /\ GraphJudged
  BY <1>1 DEF AInit, TableGrows, InPhase, FilesJudged, GraphJudged
<1>4. StackInv /\ VisitedInv /\ PostOrderInv /\ SummedUp
  BY <1>1 DEF AInit, StackInv, VisitedInv, PostOrderInv, SummedUp, Places, Finished
<1> QED BY <1>2, <1>3, <1>4 DEF KnowledgeInv

\* An entry is filed below an older directory; a file without an observed
\* allocation is marked on the entry and on the graph at once.
LEMMA IngestKeepsKnowledge ==
  ASSUME KnowledgeInv, NEW row \in AllRows, NEW p \in 0..Len(table), Ingest(row, p)
  PROVE  KnowledgeInv'
<1> DEFINE new == Len(table) + 1
<1>1. /\ GTypes /\ TableGrows /\ InPhase /\ FilesJudged /\ GraphJudged
      /\ g_pc = "ingesting" /\ g_pc' = "ingesting"
      /\ UNCHANGED <<stack, visited, post_order, todo, to_normalize>>
      /\ table' = Append(table, row) /\ parent' = Append(parent, p)
  BY DEF KnowledgeInv, Ingest, walk, sums
<1>2. stack = <<>> /\ visited = {} /\ post_order = <<>> /\ todo = {}
  BY <1>1 DEF InPhase
<1>3. PICK sure :
        /\ sure = (\/ row.kind = "Directory"
                   \/ row.kind = "File" /\ row.alloc # None)
        /\ size_known' = Append(size_known, sure)
  BY DEF Ingest
<1>4. /\ Len(table) \in Nat /\ p \in Nat
      /\ table \in Seq(AllRows) /\ parent \in Seq(Nat) /\ size_known \in Seq(BOOLEAN)
      /\ Len(parent) = Len(table) /\ Len(size_known) = Len(table)
  BY <1>1 DEF GTypes
<1>5. /\ Len(table') = new /\ table' \in Seq(AllRows) /\ table'[new] = row
      /\ Len(parent') = new /\ parent' \in Seq(Nat) /\ parent'[new] = p
      /\ Len(size_known') = new /\ size_known' \in Seq(BOOLEAN)
      /\ size_known'[new] = sure
      /\ \A i \in Nodes : /\ table'[i] = table[i] /\ parent'[i] = parent[i]
                          /\ size_known'[i] = size_known[i]
  <2>1. /\ Len(table') = new /\ table' \in Seq(AllRows) /\ table'[new] = row
        /\ \A i \in Nodes : table'[i] = table[i]
    BY <1>1, <1>4, AppendProperties DEF Nodes
  <2>2. /\ Len(parent') = new /\ parent' \in Seq(Nat) /\ parent'[new] = p
        /\ \A i \in Nodes : parent'[i] = parent[i]
    BY <1>1, <1>4, AppendProperties DEF Nodes
  <2>3. /\ Len(size_known') = new /\ size_known' \in Seq(BOOLEAN)
        /\ size_known'[new] = sure
        /\ \A i \in Nodes : size_known'[i] = size_known[i]
    <3>0. PICK B : B = BOOLEAN
      OBVIOUS
    <3>4. size_known \in Seq(B) /\ sure \in B
      BY <1>3, <1>4, <3>0
    <3>1. /\ Append(size_known, sure) \in Seq(B)
          /\ Len(Append(size_known, sure)) = Len(size_known) + 1
          /\ Append(size_known, sure)[Len(size_known) + 1] = sure
          /\ \A i \in 1..Len(size_known) : Append(size_known, sure)[i] = size_known[i]
      BY <3>4, AppendProperties
    <3>2. size_known' = Append(size_known, sure)
      BY <1>3
    <3>3. Nodes = 1..Len(size_known) /\ new = Len(size_known) + 1
      BY <1>4 DEF Nodes
    <3> QED BY <3>0, <3>1, <3>2, <3>3, Zenon
  <2> QED BY <2>1, <2>2, <2>3
<1>6. Nodes' = Nodes \union {new} /\ new \notin Nodes /\ new \in Nat
  BY <1>4, <1>5 DEF Nodes
<1>7. GTypes'
  <2>1. bytes_known' \in BOOLEAN
    BY <1>1 DEF Ingest, GTypes
  <2> QED BY <1>1, <1>2, <1>5, <2>1 DEF GTypes
<1>8. TableGrows'
  <2>1. IF table = <<>> THEN p = 0 ELSE p \in Nodes /\ IsDir(p)
    BY DEF Ingest
  <2>2. table = <<>> => new = 1
    BY EmptySeq
  <2>3. p \in Nodes /\ IsDir(p) => p \in 1..(new - 1) /\ IsDir(p)'
    BY <1>4, <1>5, SMTT(60) DEF Nodes, IsDir
  <2>4. ASSUME NEW i \in Nodes, i # 1
        PROVE  parent'[i] \in 1..(i - 1) /\ IsDir(parent[i])'
    <3>1. parent[i] \in 1..(i - 1) /\ IsDir(parent[i])
      BY <1>1, <2>4 DEF TableGrows
    <3>2. parent[i] \in Nodes
      BY <1>4, <3>1, <2>4 DEF Nodes
    <3> QED BY <1>5, <3>1, <3>2 DEF IsDir
  <2>5. 1 \in Nodes => parent'[1] = 0
    BY <1>1, <1>5 DEF TableGrows
  <2> QED BY <1>4, <1>5, <1>6, <2>1, <2>2, <2>3, <2>4, <2>5, SMTT(60) DEF TableGrows
<1>9. InPhase'
  BY <1>1, <1>2 DEF InPhase
<1>10. FilesJudged'
  <2>1. ASSUME NEW i \in Nodes', IsFile(i)', size_known'[i]
        PROVE  table'[i].alloc # None
    <3>1. CASE i = new
      BY <1>3, <1>5, <2>1, <3>1 DEF IsFile
    <3>2. CASE i \in Nodes
      BY <1>1, <1>5, <2>1, <3>2, ZenonT(60) DEF FilesJudged, IsFile
    <3> QED BY <1>6, <3>1, <3>2
  <2>2. \A oid : ~Judged(oid)'
    BY <1>1 DEF Judged
  <2> QED BY <2>1, <2>2 DEF FilesJudged
<1>11. GraphJudged'
  <2>1. bytes_known <=> \A i \in Nodes : IsFile(i) => table[i].alloc # None
    BY <1>1 DEF GraphJudged, Judged
  <2>2. bytes_known' <=> bytes_known /\ ~(row.kind = "File" /\ row.alloc = None)
    BY <1>1 DEF Ingest, GTypes
  <2>3. bytes_known' <=> \A i \in Nodes' : IsFile(i)' => table'[i].alloc # None
    BY <1>5, <1>6, <2>1, <2>2 DEF IsFile
  <2> QED BY <1>1, <2>3 DEF GraphJudged, Judged
<1>12. (StackInv /\ VisitedInv /\ PostOrderInv /\ SummedUp)'
  BY <1>1, <1>2 DEF StackInv, VisitedInv, PostOrderInv, SummedUp, Places, Finished
<1> QED BY <1>7, <1>8, <1>9, <1>10, <1>11, <1>12 DEF KnowledgeInv

\* Until the traversal starts nothing but the evidence moves.
LEMMA EvidenceKeepsKnowledge ==
  ASSUME KnowledgeInv, g_pc \in {"ingesting", "objects"}, UNCHANGED facts,
         UNCHANGED <<stack, visited, post_order, todo>>,
         g_pc' = "objects", table # <<>>,
         size_known' \in Seq(BOOLEAN), Len(size_known') = Len(table),
         bytes_known' \in BOOLEAN, FilesJudged', GraphJudged'
  PROVE  KnowledgeInv'
<1>1. stack = <<>> /\ visited = {} /\ post_order = <<>> /\ todo = {}
  BY DEF KnowledgeInv, InPhase
<1>2. table' = table /\ parent' = parent
  BY DEF facts
<1>3. GTypes'
  BY <1>1, <1>2 DEF KnowledgeInv, GTypes, Nodes
<1>4. TableGrows' /\ InPhase'
  BY <1>1, <1>2 DEF KnowledgeInv, TableGrows, InPhase, Nodes, IsDir
<1>5. (StackInv /\ VisitedInv /\ PostOrderInv /\ SummedUp)'
  BY <1>1 DEF StackInv, VisitedInv, PostOrderInv, SummedUp, Places, Finished
<1> QED BY <1>3, <1>4, <1>5 DEF KnowledgeInv

\* What the evidence is about is in the table.
LEMMA TableKept ==
  ASSUME UNCHANGED facts
  PROVE  /\ Nodes' = Nodes /\ FileOids' = FileOids
         /\ \A i : (IsFile(i) <=> IsFile(i)') /\ (IsDir(i) <=> IsDir(i)')
         /\ \A oid : Contradicted(oid)' <=> Contradicted(oid)
<1>1. table' = table /\ parent' = parent
  BY DEF facts
<1> QED BY <1>1 DEF Nodes, FileOids, IsFile, IsDir, Contradicted, Aliases, KnownAllocs

\* The start of compute_aggregates: no object is judged yet.
LEMMA BeginKeepsKnowledge ==
  ASSUME KnowledgeInv, Begin
  PROVE  KnowledgeInv'
<1>1. /\ g_pc = "ingesting" /\ g_pc' = "objects" /\ table # <<>>
      /\ to_normalize' = [files : FileOids]
                         \union [dir : {i \in Nodes : IsDir(i) /\ table[i].oid # None}]
      /\ UNCHANGED <<facts, size_known, bytes_known, stack, visited, post_order, todo>>
      /\ GTypes /\ FilesJudged /\ GraphJudged
  BY DEF Begin, KnowledgeInv
<1>2. /\ Nodes' = Nodes /\ FileOids' = FileOids
      /\ \A i : IsFile(i) <=> IsFile(i)'
      /\ table' = table
  BY <1>1, TableKept DEF facts
<1>3. \A oid \in FileOids : ~Judged(oid)'
  <2>1. \A oid \in FileOids : [files |-> oid] \in [files : FileOids]
    OBVIOUS
  <2> QED BY <1>1, <2>1 DEF Judged
<1>4. \A i \in Nodes : IsFile(i) /\ table[i].oid # None => table[i].oid \in FileOids
  BY DEF FileOids
<1>5. FilesJudged'
  BY <1>1, <1>2, <1>3, <1>4 DEF FilesJudged
<1>6. GraphJudged'
  <2>1. bytes_known <=> \A i \in Nodes : IsFile(i) => table[i].alloc # None
    BY <1>1 DEF GraphJudged, Judged
  <2> QED BY <1>1, <1>2, <1>3, <2>1 DEF GraphJudged
<1>7. size_known' \in Seq(BOOLEAN) /\ Len(size_known') = Len(table) /\ bytes_known' \in BOOLEAN
  BY <1>1 DEF GTypes
<1> QED BY <1>1, <1>5, <1>6, <1>7, EvidenceKeepsKnowledge

\* A key of file_object_map and one of dir_object_ids are never the same.
LEMMA KeysDiffer ==
  ASSUME NEW x, NEW y
  PROVE  [files |-> x] # [dir |-> y] /\ ([files |-> x] = [files |-> y] => x = y)
<1>1. [files |-> x].files = x /\ [files |-> y].files = y
  OBVIOUS
<1>2. DOMAIN [files |-> x] = {"files"} /\ DOMAIN [dir |-> y] = {"dir"}
  OBVIOUS
<1>3. "files" # "dir"
  OBVIOUS
<1> QED BY <1>1, <1>2, <1>3

\* The entries of an object whose allocations differ lose their claim.
LEMMA NormalizeFileKeepsKnowledge ==
  ASSUME KnowledgeInv, NEW oid \in FileOids, NormalizeFileObject(oid)
  PROVE  KnowledgeInv'
<1>1. /\ g_pc = "objects" /\ g_pc' = "objects"
      /\ to_normalize' = to_normalize \ {[files |-> oid]}
      /\ UNCHANGED <<facts, stack, visited, post_order, todo>>
      /\ MarkConflict(Aliases(oid))
      /\ GTypes /\ InPhase /\ FilesJudged /\ GraphJudged
  BY DEF NormalizeFileObject, KnowledgeInv, walk, sums
<1>2. /\ Nodes' = Nodes /\ FileOids' = FileOids
      /\ \A i : IsFile(i) <=> IsFile(i)'
      /\ \A x : Contradicted(x)' <=> Contradicted(x)
      /\ table' = table
  BY <1>1, TableKept DEF facts
<1>3. \A x : Judged(x)' <=> Judged(x) \/ x = oid
  BY <1>1, KeysDiffer DEF Judged
<1>4. Len(table) \in Nat /\ DOMAIN size_known = Nodes
  BY <1>1 DEF GTypes, Nodes
<1>5. CASE Contradicted(oid)
  <2>1. /\ size_known' = [i \in Nodes |-> size_known[i] /\ i \notin Aliases(oid)]
        /\ bytes_known' = FALSE
    BY <1>1, <1>5 DEF MarkConflict, Contradicted
  <2>2. size_known' \in Seq(BOOLEAN) /\ Len(size_known') = Len(table)
    BY <1>1, <1>4, <2>1 DEF GTypes, Nodes
  <2>3. FilesJudged'
    <3>1. \A i \in Nodes : size_known'[i] => size_known[i] /\ i \notin Aliases(oid)
      BY <2>1
    <3>2. \A i \in Nodes : IsFile(i) /\ table[i].oid = oid => i \in Aliases(oid)
      BY DEF Aliases
    <3> QED BY <1>1, <1>2, <1>3, <3>1, <3>2 DEF FilesJudged
  <2>4. GraphJudged'
    BY <1>2, <1>3, <1>5, <2>1 DEF GraphJudged
  <2> QED BY <1>1, <2>1, <2>2, <2>3, <2>4, EvidenceKeepsKnowledge DEF InPhase, KnowledgeInv
<1>6. CASE ~Contradicted(oid)
  <2>1. UNCHANGED <<size_known, bytes_known>>
    BY <1>1, <1>6 DEF MarkConflict, Contradicted
  <2>2. FilesJudged' /\ GraphJudged'
    BY <1>1, <1>2, <1>3, <1>6, <2>1 DEF FilesJudged, GraphJudged
  <2>3. size_known' \in Seq(BOOLEAN) /\ Len(size_known') = Len(table) /\ bytes_known' \in BOOLEAN
    BY <1>1, <2>1 DEF GTypes
  <2> QED BY <1>1, <2>2, <2>3, EvidenceKeepsKnowledge DEF InPhase, KnowledgeInv
<1> QED BY <1>5, <1>6

\* The object of a directory has no allocation to compare.
LEMMA NormalizeDirectoryKeepsKnowledge ==
  ASSUME KnowledgeInv, NEW d \in Nodes, NormalizeDirectory(d)
  PROVE  KnowledgeInv'
<1>1. /\ g_pc = "objects" /\ g_pc' = "objects"
      /\ to_normalize' = to_normalize \ {[dir |-> d]}
      /\ UNCHANGED <<facts, size_known, bytes_known, stack, visited, post_order, todo>>
      /\ GTypes /\ InPhase /\ FilesJudged /\ GraphJudged
  BY DEF NormalizeDirectory, KnowledgeInv, walk, sums
<1>2. /\ Nodes' = Nodes /\ FileOids' = FileOids
      /\ \A i : IsFile(i) <=> IsFile(i)'
      /\ \A x : Contradicted(x)' <=> Contradicted(x)
      /\ table' = table
  BY <1>1, TableKept DEF facts
<1>3. \A x : Judged(x)' <=> Judged(x)
  BY <1>1, KeysDiffer DEF Judged
<1>4. FilesJudged' /\ GraphJudged'
  BY <1>1, <1>2, <1>3 DEF FilesJudged, GraphJudged
<1>5. size_known' \in Seq(BOOLEAN) /\ Len(size_known') = Len(table) /\ bytes_known' \in BOOLEAN
  BY <1>1 DEF GTypes
<1> QED BY <1>1, <1>4, <1>5, EvidenceKeepsKnowledge DEF InPhase
---------------------------------------------------------------------------
(* The traversal *)

\* It starts at the root, below which nothing was visited.
LEMMA AccountKeepsKnowledge ==
  ASSUME KnowledgeInv, AccountIdentityLess
  PROVE  KnowledgeInv'
<1>1. /\ g_pc = "objects" /\ g_pc' = "walk" /\ to_normalize = {}
      /\ visited' = {1} /\ stack' = <<[node |-> 1, next |-> first_child(1)]>>
      /\ UNCHANGED <<facts, to_normalize, size_known, bytes_known, post_order, todo>>
      /\ GTypes /\ TableGrows /\ InPhase /\ FilesJudged /\ GraphJudged
  BY DEF AccountIdentityLess, KnowledgeInv, sums
<1>2. /\ Nodes' = Nodes /\ FileOids' = FileOids
      /\ \A i : (IsFile(i) <=> IsFile(i)') /\ (IsDir(i) <=> IsDir(i)')
      /\ \A x : Contradicted(x)' <=> Contradicted(x)
      /\ table' = table /\ parent' = parent
  BY <1>1, TableKept DEF facts
<1>3. table # <<>> /\ post_order = <<>> /\ todo = {} /\ 1 \in Nodes
  BY <1>1 DEF InPhase, GTypes, Nodes
<1>4. Len(post_order) = 0 /\ 1..0 = {}
  BY <1>3
<1>5. /\ Len(stack') = 1 /\ stack'[1] = [node |-> 1, next |-> first_child(1)]
      /\ Places' = {1}
  BY <1>1 DEF Places
<1>6. /\ first_child(1) # 0 => first_child(1) \in ChildrenOf(1)
      /\ \A c \in ChildrenOf(1) : first_child(1) # 0 /\ first_child(1) <= c
  BY <1>1, <1>3, ListsInOrder
<1>7. ChildrenOf(1)' = ChildrenOf(1) /\ 1 \notin ChildrenOf(1) /\ ChildrenOf(1) \subseteq Nodes
  <2>1. \A i \in ChildrenOf(1) : i \in Nodes
    BY DEF ChildrenOf
  <2>2. ChildrenOf(1)' = ChildrenOf(1)
    BY <1>2 DEF ChildrenOf
  <2>3. 1 \notin ChildrenOf(1)
    BY <1>1, <1>3 DEF ChildrenOf, TableGrows
  <2> QED BY <2>1, <2>2, <2>3
<1>8. GTypes'
  <2>1. first_child(1) \in {0} \union Nodes
    BY <1>6, <1>7
  <2>2. stack' \in Seq([node : Nodes, next : {0} \union Nodes])
    BY <1>1, <1>3, <2>1
  <2> QED BY <1>1, <1>2, <1>3, <2>2 DEF GTypes
<1>9. TableGrows' /\ InPhase' /\ FilesJudged' /\ GraphJudged'
  <2>1. \A x : Judged(x)' <=> Judged(x)
    BY <1>1 DEF Judged
  <2>2. FilesJudged' /\ GraphJudged'
    BY <1>1, <1>2, <2>1 DEF FilesJudged, GraphJudged
  <2> QED BY <1>1, <1>2, <1>3, <2>2 DEF TableGrows, InPhase
<1>10. StackInv'
  <2>1. \A c \in ChildrenOf(1) : c \in visited' <=> first_child(1) = 0 \/ c < first_child(1)
    BY <1>1, <1>3, <1>6, <1>7 DEF Nodes
  <2> QED BY <1>5, <1>6, <1>7, <2>1 DEF StackInv
<1>11. VisitedInv' /\ PostOrderInv' /\ SummedUp'
  BY <1>1, <1>3, <1>4, <1>5 DEF VisitedInv, PostOrderInv, SummedUp, Finished
<1> QED BY <1>8, <1>9, <1>10, <1>11, SMTT(60) DEF KnowledgeInv

\* During the traversal the evidence stands.
LEMMA WalkKeepsKnowledge ==
  ASSUME KnowledgeInv, g_pc = "walk", g_pc' = "walk",
         UNCHANGED <<facts, evidence, todo>>,
         stack' \in Seq([node : Nodes, next : {0} \union Nodes]),
         visited \subseteq visited', visited' \subseteq Nodes,
         post_order' \in Seq(Nodes),
         StackInv', VisitedInv', PostOrderInv'
  PROVE  KnowledgeInv'
<1>1. /\ Nodes' = Nodes /\ FileOids' = FileOids
      /\ \A i : (IsFile(i) <=> IsFile(i)') /\ (IsDir(i) <=> IsDir(i)')
      /\ \A x : Contradicted(x)' <=> Contradicted(x)
      /\ table' = table /\ parent' = parent
  BY TableKept DEF facts
<1>2. /\ UNCHANGED <<to_normalize, size_known, bytes_known, todo>>
      /\ GTypes /\ TableGrows /\ InPhase /\ FilesJudged /\ GraphJudged
  BY DEF evidence, KnowledgeInv
<1>3. todo = {}
  BY <1>2 DEF InPhase
<1>4. GTypes'
  BY <1>1, <1>2, <1>3 DEF GTypes
<1>5. TableGrows' /\ InPhase'
  BY <1>1, <1>2, <1>3 DEF TableGrows, InPhase
<1>6. FilesJudged' /\ GraphJudged'
  <2>1. \A x : Judged(x)' <=> Judged(x)
    BY <1>2 DEF Judged
  <2> QED BY <1>1, <1>2, <2>1 DEF FilesJudged, GraphJudged
<1>7. SummedUp'
  BY <1>2, <1>3 DEF SummedUp
<1> QED BY <1>4, <1>5, <1>6, <1>7 DEF KnowledgeInv

\* Going down: the child was not visited before, and nothing below it.
LEMMA DescendKeepsKnowledge ==
  ASSUME KnowledgeInv, Descend
  PROVE  KnowledgeInv'
<1>0. PICK n, top, child, advanced, frame, Frame :
        /\ n = Len(stack) /\ top = Top /\ child = Top.next
        /\ advanced = [stack EXCEPT ![Len(stack)].next = next_sibling(Top.next)]
        /\ frame = [node |-> Top.next, next |-> first_child(Top.next)]
        /\ Frame = [node : Nodes, next : {0} \union Nodes]
  OBVIOUS
<1>1. /\ GTypes /\ TableGrows /\ InPhase /\ StackInv /\ VisitedInv /\ PostOrderInv
      /\ g_pc = "walk" /\ stack # <<>> /\ child # 0 /\ g_pc' = "walk"
      /\ UNCHANGED <<facts, evidence, post_order, todo>>
  BY <1>0 DEF Descend, KnowledgeInv, sums
<1>2. /\ stack \in Seq(Frame) /\ n \in Nat /\ n \in Places /\ n > 0
      /\ Len(table) \in Nat /\ Nodes \subseteq Nat
  BY <1>0, <1>1, EmptySeq, SMTT(60) DEF GTypes, Places, Nodes
<1>3. child \in ChildrenOf(top.node) /\ child \notin visited
  <2>1. /\ child \in ChildrenOf(top.node)
        /\ child \in visited <=> child = 0 \/ child < child
    <3>1. stack[n].next = child /\ stack[n].node = top.node
      BY <1>0 DEF Top
    <3>2. child \in ChildrenOf(top.node)
      BY <1>1, <1>2, <3>1 DEF StackInv
    <3> QED BY <1>1, <1>2, <3>1, <3>2 DEF StackInv
  <2>2. child \in Nat
    BY <1>2, <2>1 DEF ChildrenOf
  <2> QED BY <1>1, <2>1, <2>2
<1>4. /\ child \in Nodes /\ parent[child] = top.node /\ top.node \in Nodes
      /\ top = stack[n] /\ top.next = child /\ child > top.node
  <2>1. top.node \in Nodes /\ top = stack[n] /\ top.next = child
    <3>1. stack[n] \in Frame
      BY <1>2 DEF Places
    <3> QED BY <1>0, <3>1 DEF Top
  <2>2. child \in Nodes /\ parent[child] = top.node
    BY <1>3 DEF ChildrenOf
  <2>3. child # 1
    BY <1>1, <1>2, <2>1, <2>2 DEF TableGrows, Nodes
  <2>4. parent[child] \in 1..(child - 1)
    BY <1>1, <2>2, <2>3 DEF TableGrows
  <2>5. child \in Nat /\ top.node \in Nat
    BY <1>2, <2>1, <2>2
  <2> QED BY <2>1, <2>2, <2>4, <2>5
<1>5. /\ first_child(child) # 0 => first_child(child) \in ChildrenOf(child)
      /\ \A c \in ChildrenOf(child) : first_child(child) # 0 /\ first_child(child) <= c
      /\ next_sibling(child) # 0 =>
           next_sibling(child) \in ChildrenOf(top.node) /\ next_sibling(child) > child
      /\ \A c \in ChildrenOf(top.node) :
           c <= child \/ (next_sibling(child) # 0 /\ next_sibling(child) <= c)
  BY <1>1, <1>4, ListsInOrder
<1>6. visited' = visited \union {child} /\ stack' = Append(advanced, frame)
  BY <1>0, <1>3 DEF Descend
<1>7. /\ frame \in Frame
      /\ [node |-> top.node, next |-> next_sibling(child)] \in Frame
  BY <1>0, <1>4, <1>5 DEF ChildrenOf
<1>8. /\ advanced \in Seq(Frame) /\ Len(advanced) = n
      /\ advanced[n] = [node |-> top.node, next |-> next_sibling(child)]
      /\ \A k \in Places : k # n => advanced[k] = stack[k]
  <2>1. advanced = [stack EXCEPT ![n] = [node |-> top.node, next |-> next_sibling(child)]]
    <3>1. stack[n] \in Frame
      BY <1>2 DEF Places
    <3>2. [stack[n] EXCEPT !.next = next_sibling(child)]
          = [node |-> top.node, next |-> next_sibling(child)]
      BY <1>0, <1>4, <3>1
    <3>3. advanced = [stack EXCEPT ![n] =
                        [stack[n] EXCEPT !.next = next_sibling(child)]]
      BY <1>0, Zenon
    <3> QED BY <3>2, <3>3, Zenon
  <2>2. n = Len(stack) /\ Places = 1..n
    BY <1>0 DEF Places
  <2>3. PICK e \in Frame : e = [node |-> top.node, next |-> next_sibling(child)]
    BY <1>7
  <2> QED BY <1>2, <2>1, <2>2, <2>3, ExceptSeq
<1>9. /\ stack' \in Seq(Frame) /\ Len(stack') = n + 1
      /\ stack'[n + 1] = frame
      /\ stack'[n] = [node |-> top.node, next |-> next_sibling(child)]
      /\ \A k \in Places : k # n => stack'[k] = stack[k]
      /\ Places' = Places \union {n + 1}
  <2>1. /\ Append(advanced, frame) \in Seq(Frame)
        /\ Len(Append(advanced, frame)) = n + 1
        /\ Append(advanced, frame)[n + 1] = frame
        /\ \A k \in 1..n : Append(advanced, frame)[k] = advanced[k]
    BY <1>7, <1>8, AppendProperties
  <2> QED BY <1>0, <1>2, <1>6, <1>8, <2>1 DEF Places
<1>10. /\ Nodes' = Nodes /\ \A i : ChildrenOf(i)' = ChildrenOf(i)
       /\ \A i : Finished(i)' <=> Finished(i)
       /\ parent' = parent
  BY <1>1 DEF facts, Nodes, ChildrenOf, Finished
<1>11. /\ \A k \in Places : stack'[k].node = stack[k].node /\ stack[k].node \in Nodes
       /\ stack'[n + 1].node = child
       /\ \A k \in Places : k # n => stack'[k].next = stack[k].next
       /\ stack'[n].next = next_sibling(child)
       /\ stack'[n + 1].next = first_child(child)
  <2>1. \A k \in Places : stack[k] \in Frame
    BY <1>2 DEF Places
  <2> QED BY <1>0, <1>4, <1>9, <2>1
<1>12. \A k \in Places : stack[k].node < child /\ (k # n => stack[k].node < top.node)
  <2>1. \A k \in Places : k # n => k < n
    BY <1>0, <1>2 DEF Places
  <2>2. \A k \in Places : k # n => stack[k].node < top.node
    BY <1>1, <1>2, <1>4, <2>1 DEF StackInv
  <2>3. \A k \in Places : stack[k].node \in Nat
    BY <1>2, <1>11
  <2>4. child \in Nat /\ top.node \in Nat
    BY <1>2, <1>4
  <2> QED BY <1>4, <2>2, <2>3, <2>4
<1>13. StackInv'
  <2>1. \A j, k \in Places' : j < k => stack'[j].node < stack'[k].node
    <3>1. ASSUME NEW j \in Places', NEW k \in Places', j < k
          PROVE  stack'[j].node < stack'[k].node
      <4>1. j \in Places
        BY <1>2, <1>9, <3>1 DEF Places
      <4>2. CASE k \in Places
        BY <1>1, <1>11, <3>1, <4>1, <4>2 DEF StackInv
      <4>3. CASE k = n + 1
        BY <1>11, <1>12, <4>1, <4>3
      <4> QED BY <1>9, <4>2, <4>3
    <3> QED BY <3>1
  <2>2. ASSUME NEW k \in Places'
        PROVE  /\ stack'[k].next # 0 => stack'[k].next \in ChildrenOf(stack'[k].node)
               /\ \A c \in ChildrenOf(stack'[k].node) :
                    c \in visited' <=> stack'[k].next = 0 \/ c < stack'[k].next
    <3>1. CASE k = n + 1
      <4>1. \A c \in ChildrenOf(child) : c \notin visited'
        <5>1. ASSUME NEW c \in ChildrenOf(child) PROVE c \notin visited'
          <6>1. c \in Nodes /\ parent[c] = child
            BY DEF ChildrenOf
          <6>2. c # 1
            BY <1>1, <1>2, <1>4, <6>1 DEF TableGrows, Nodes
          <6>3. c # child
            BY <1>1, <1>2, <6>1, <6>2 DEF TableGrows
          <6>4. c \notin visited
            BY <1>1, <1>3, <6>1, <6>2 DEF VisitedInv
          <6> QED BY <1>6, <6>3, <6>4
        <5> QED BY <5>1
      <4>2. \A c \in ChildrenOf(child) : c \in Nat
        BY <1>2 DEF ChildrenOf
      <4>3. first_child(child) # 0 => first_child(child) \in Nat
        BY <1>5, <4>2
      <4> QED BY <1>5, <1>11, <3>1, <4>1, <4>2, <4>3
    <3>2. CASE k = n
      <4>1. \A c \in ChildrenOf(top.node) : c \in visited <=> c < child
        BY <1>1, <1>2, <1>4 DEF StackInv
      <4>2. \A c \in ChildrenOf(top.node) : c \in Nat
        BY <1>2 DEF ChildrenOf
      <4>3. child \in Nat /\ (next_sibling(child) # 0 => next_sibling(child) \in Nat)
        BY <1>3, <1>5, <4>2
      <4>4. \A c \in ChildrenOf(top.node) : c \in visited' <=> c <= child
        BY <1>6, <4>1, <4>2, <4>3
      <4>5. stack'[n].node = top.node /\ stack'[n].next = next_sibling(child)
        BY <1>2, <1>4, <1>11
      <4>6. \A c \in ChildrenOf(top.node) :
              c <= child <=> next_sibling(child) = 0 \/ c < next_sibling(child)
        BY <1>5, <4>2, <4>3
      <4> QED BY <1>5, <3>2, <4>4, <4>5, <4>6
    <3>3. CASE k \in Places /\ k # n
      <4>1. stack[k].node # top.node
        BY <1>4, <1>11, <1>12, <1>2, <3>3, SMTT(60)
      <4>2. child \notin ChildrenOf(stack[k].node)
        BY <1>4, <4>1 DEF ChildrenOf
      <4>3. \A c \in ChildrenOf(stack[k].node) : c \in visited' <=> c \in visited
        BY <1>6, <4>2
      <4> QED BY <1>1, <1>11, <3>3, <4>3 DEF StackInv
    <3> QED BY <1>9, <3>1, <3>2, <3>3
  <2> QED BY <1>10, <2>1, <2>2 DEF StackInv
<1>14. VisitedInv'
  <2>1. ~Finished(child)
    BY <1>1, <1>3, <1>4 DEF VisitedInv
  <2>2. \A k \in Places' : stack'[k].node \in visited' /\ ~Finished(stack'[k].node)
    BY <1>1, <1>6, <1>9, <1>11, <2>1 DEF VisitedInv
  <2>3. \A i \in visited' : Finished(i) \/ \E k \in Places' : stack'[k].node = i
    <3>1. ASSUME NEW i \in visited', ~Finished(i)
          PROVE  \E k \in Places' : stack'[k].node = i
      <4>1. CASE i = child
        BY <1>9, <1>11, <4>1
      <4>2. CASE i \in visited
        BY <1>1, <1>9, <1>11, <3>1, <4>2 DEF VisitedInv
      <4> QED BY <1>6, <4>1, <4>2
    <3> QED BY <3>1
  <2>4. \A i \in visited' : i # 1 => parent[i] \in visited'
    <3>1. top.node \in visited
      BY <1>1, <1>2, <1>4 DEF VisitedInv
    <3> QED BY <1>1, <1>4, <1>6, <3>1 DEF VisitedInv
  <2>5. \A i \in Nodes : Finished(i) => i \in visited'
    BY <1>1, <1>6 DEF VisitedInv
  <2> QED BY <1>10, <2>2, <2>3, <2>4, <2>5 DEF VisitedInv
<1>15. PostOrderInv' /\ post_order' \in Seq(Nodes)
  <2>1. post_order' = post_order
    BY <1>1
  <2>2. PostOrderInv'
    BY <1>1, <1>10, <2>1 DEF PostOrderInv
  <2> QED BY <1>1, <2>1, <2>2 DEF GTypes
<1>16. visited \subseteq visited' /\ visited' \subseteq Nodes
  BY <1>1, <1>4, <1>6 DEF GTypes
<1> QED BY <1>0, <1>1, <1>9, <1>13, <1>14, <1>15, <1>16, WalkKeepsKnowledge

\* Coming back up: every child of the entry that is left is finished.
LEMMA LeaveKeepsKnowledge ==
  ASSUME KnowledgeInv, Leave
  PROVE  KnowledgeInv'
<1>0. PICK n, m, top, curr, Frame :
        /\ n = Len(stack) /\ m = Len(post_order) /\ top = Top /\ curr = Top.node
        /\ Frame = [node : Nodes, next : {0} \union Nodes]
  OBVIOUS
<1>1. /\ GTypes /\ TableGrows /\ InPhase /\ StackInv /\ VisitedInv /\ PostOrderInv
      /\ g_pc = "walk" /\ stack # <<>> /\ top.next = 0 /\ g_pc' = "walk"
      /\ stack' = SubSeq(stack, 1, n - 1) /\ post_order' = Append(post_order, curr)
      /\ UNCHANGED <<facts, evidence, visited, todo>>
  BY <1>0 DEF Leave, KnowledgeInv, sums, Front
<1>2. /\ stack \in Seq(Frame) /\ n \in Nat /\ n \in Places /\ n > 0
      /\ post_order \in Seq(Nodes) /\ m \in Nat
      /\ Len(table) \in Nat /\ Nodes \subseteq Nat
  BY <1>0, <1>1, EmptySeq, SMTT(60) DEF GTypes, Places, Nodes
<1>3. \A k \in Places : stack[k] \in Frame /\ stack[k].node \in Nodes /\ stack[k].node \in Nat
  <2>1. \A k \in Places : stack[k] \in Frame
    BY <1>2 DEF Places
  <2> QED BY <1>0, <1>2, <2>1
<1>4. /\ top = stack[n] /\ curr = stack[n].node /\ curr \in Nodes /\ curr \in Nat
      /\ curr \in visited /\ ~Finished(curr)
      /\ \A k \in Places : k # n => stack[k].node < curr
  <2>1. \A k \in Places : k # n => k < n
    BY <1>0, <1>2 DEF Places
  <2>2. top = stack[n] /\ curr = stack[n].node
    BY <1>0 DEF Top
  <2> QED BY <1>1, <1>2, <1>3, <2>1, <2>2 DEF StackInv, VisitedInv
<1>5. /\ stack' \in Seq(Frame) /\ Places' = Places \ {n}
      /\ \A k \in Places' : stack'[k] = stack[k]
  <2>1. \A k \in 1..(n - 1) : stack[k] \in Frame
    BY <1>0, <1>3 DEF Places
  <2>2. /\ stack' \in Seq(Frame) /\ Len(stack') = n - 1
        /\ \A k \in 1..(n - 1) : stack'[k] = stack[k]
    BY <1>1, <1>2, <2>1, SubSeqProperties
  <2>3. Places' = 1..(n - 1) /\ Places = 1..n
    BY <1>0, <2>2 DEF Places
  <2> QED BY <1>2, <2>2, <2>3
<1>6. /\ post_order' \in Seq(Nodes) /\ Len(post_order') = m + 1
      /\ post_order'[m + 1] = curr
      /\ \A k \in 1..m : post_order'[k] = post_order[k]
  BY <1>0, <1>1, <1>2, <1>4, AppendProperties
<1>7. \A i : Finished(i)' <=> Finished(i) \/ i = curr
  <2>1. \A k : k \in 1..(m + 1) <=> k \in 1..m \/ k = m + 1
    BY <1>2
  <2>2. \A i : Finished(i) <=> \E k \in 1..m : post_order[k] = i
    BY <1>0 DEF Finished
  <2>3. \A i : Finished(i)' <=> \E k \in 1..(m + 1) : post_order'[k] = i
    BY <1>6 DEF Finished
  <2> QED BY <1>6, <2>1, <2>2, <2>3
<1>8. Nodes' = Nodes /\ parent' = parent /\ \A i : ChildrenOf(i)' = ChildrenOf(i)
  BY <1>1 DEF facts, Nodes, ChildrenOf
<1>9. \A c \in ChildrenOf(curr) : c > curr /\ Finished(c)
  <2>1. ASSUME NEW c \in ChildrenOf(curr) PROVE c > curr /\ Finished(c)
    <3>1. c \in Nodes /\ parent[c] = curr /\ c \in Nat
      BY <1>2 DEF ChildrenOf
    <3>2. c # 1
      BY <1>1, <1>2, <1>4, <3>1 DEF TableGrows, Nodes
    <3>3. c > curr
      <4>1. parent[c] \in 1..(c - 1)
        BY <1>1, <3>1, <3>2 DEF TableGrows
      <4> QED BY <3>1, <1>4, <4>1
    <3>4. c \in visited
      BY <1>1, <1>2, <1>4 DEF StackInv
    <3>5. \A k \in Places : stack[k].node # c
      BY <1>3, <1>4, <3>1, <3>3
    <3> QED BY <1>1, <3>3, <3>4, <3>5 DEF VisitedInv
  <2> QED BY <2>1
<1>10. StackInv'
  <2>1. \A k \in Places' : k \in Places /\ stack'[k] = stack[k]
    BY <1>5
  <2> QED BY <1>1, <1>8, <2>1, ZenonT(60) DEF StackInv
<1>11. VisitedInv'
  <2>1. \A k \in Places' : stack'[k].node \in visited /\ ~Finished(stack[k].node)'
    <3>1. ASSUME NEW k \in Places'
          PROVE  stack'[k].node \in visited /\ ~Finished(stack[k].node)'
      <4>1. k \in Places /\ k # n /\ stack'[k] = stack[k]
        BY <1>5
      <4>2. stack[k].node \in visited /\ ~Finished(stack[k].node)
        BY <1>1, <4>1 DEF VisitedInv
      <4>3. stack[k].node # curr
        BY <1>3, <1>4, <4>1
      <4> QED BY <1>7, <4>1, <4>2, <4>3
    <3> QED BY <3>1
  <2>2. \A i \in visited : Finished(i)' \/ \E k \in Places' : stack'[k].node = i
    <3>1. ASSUME NEW i \in visited, ~Finished(i), i # curr
          PROVE  \E k \in Places' : stack'[k].node = i
      <4>1. PICK k \in Places : stack[k].node = i
        BY <1>1, <3>1 DEF VisitedInv
      <4> QED BY <1>4, <1>5, <3>1, <4>1
    <3> QED BY <1>7, <3>1
  <2>3. \A i \in Nodes : Finished(i)' => i \in visited
    BY <1>1, <1>4, <1>7 DEF VisitedInv
  <2> QED BY <1>1, <1>8, <2>1, <2>2, <2>3 DEF VisitedInv
<1>12. PostOrderInv'
  <2>1. \A k \in 1..m : post_order[k] # curr
    BY <1>0, <1>4 DEF Finished
  <2>2. \A k : k \in 1..(m + 1) <=> k \in 1..m \/ k = m + 1
    BY <1>2
  <2>3. \A j, k \in 1..(m + 1) : post_order'[j] = post_order'[k] => j = k
    BY <1>0, <1>1, <1>6, <2>1, <2>2 DEF PostOrderInv
  <2>5. \A k \in 1..m : \A c \in ChildrenOf(post_order[k]) :
          \E j \in 1..(k - 1) : post_order[j] = c
    BY <1>0, <1>1 DEF PostOrderInv
  <2>4. ASSUME NEW k \in 1..(m + 1), NEW c \in ChildrenOf(post_order'[k])
        PROVE  \E j \in 1..(k - 1) : post_order'[j] = c
    <3>1. CASE k = m + 1
      <4>1. c \in ChildrenOf(curr)
        BY <1>6, <2>4, <3>1
      <4>2. PICK j \in 1..m : post_order[j] = c
        BY <1>0, <1>9, <4>1 DEF Finished
      <4>3. j \in 1..(k - 1)
        BY <1>2, <3>1, <4>2
      <4> QED BY <1>6, <4>2, <4>3
    <3>2. CASE k \in 1..m
      <4>0. c \in ChildrenOf(post_order[k])
        BY <1>6, <2>4, <3>2
      <4>1. PICK j \in 1..(k - 1) : post_order[j] = c
        BY <2>5, <3>2, <4>0
      <4>2. j \in 1..m
        BY <1>2, <3>2
      <4> QED BY <1>6, <4>1, <4>2
    <3> QED BY <2>2, <3>1, <3>2
  <2> QED BY <1>6, <1>8, <2>3, <2>4 DEF PostOrderInv
<1> QED BY <1>0, <1>1, <1>5, <1>6, <1>10, <1>11, <1>12, WalkKeepsKnowledge DEF GTypes

\* When the stack is empty every entry is finished.
LEMMA EveryEntryIsFinished ==
  ASSUME KnowledgeInv, g_pc \notin {"ingesting", "objects"}, stack = <<>>
  PROVE  \A i \in Nodes : Finished(i)
<1>1. /\ GTypes /\ TableGrows /\ VisitedInv /\ PostOrderInv /\ 1 \in visited
      /\ Places = {}
  BY DEF KnowledgeInv, InPhase, Places
<1>2. Finished(1)
  BY <1>1 DEF VisitedInv
<1>3. Nodes \subseteq Nat
  BY DEF Nodes
<1>4. SUFFICES ASSUME {i \in Nodes : ~Finished(i)} # {} PROVE FALSE
  OBVIOUS
<1>5. PICK i \in Nodes : ~Finished(i) /\ \A j \in Nodes : ~Finished(j) => i <= j
  <2>1. PICK T : T = {i \in Nodes : ~Finished(i)}
    OBVIOUS
  <2>2. T \subseteq Nat /\ T # {}
    BY <1>3, <1>4, <2>1
  <2> QED BY <2>1, <2>2, LeastExists, SMTT(60)
<1>6. i # 1 /\ i \in Nat /\ parent[i] \in 1..(i - 1)
  BY <1>1, <1>2, <1>3, <1>5 DEF TableGrows
<1>7. parent[i] \in Nodes /\ parent[i] < i
  BY <1>6, <1>5, <1>1, SMTT(60) DEF Nodes, GTypes
<1>8. PICK k \in 1..Len(post_order) : post_order[k] = parent[i]
  BY <1>3, <1>5, <1>6, <1>7 DEF Finished
<1>9. i \in ChildrenOf(post_order[k])
  BY <1>5, <1>8 DEF ChildrenOf
<1>10. PICK j \in 1..(k - 1) : post_order[j] = i
  BY <1>1, <1>9 DEF PostOrderInv
<1>11. j \in 1..Len(post_order)
  BY <1>1, <1>8 DEF GTypes
<1> QED BY <1>5, <1>10, <1>11 DEF Finished
---------------------------------------------------------------------------
(* The sums *)

\* After the traversal only what directories claim changes.
LEMMA SumKeepsKnowledge ==
  ASSUME KnowledgeInv, g_pc \in {"walk", "directories"}, stack = <<>>,
         g_pc' \in {"directories", "graph", "panicked"},
         UNCHANGED <<facts, walk, to_normalize, bytes_known>>,
         size_known' \in Seq(BOOLEAN), Len(size_known') = Len(table),
         \A i \in Nodes : IsFile(i) /\ size_known'[i] => size_known[i],
         todo' \subseteq 1..Len(post_order), g_pc' = "graph" => todo' = {},
         SummedUp'
  PROVE  KnowledgeInv'
<1>1. /\ Nodes' = Nodes /\ FileOids' = FileOids
      /\ \A i : (IsFile(i) <=> IsFile(i)') /\ (IsDir(i) <=> IsDir(i)')
      /\ \A x : Contradicted(x)' <=> Contradicted(x)
      /\ table' = table /\ parent' = parent
  BY TableKept DEF facts
<1>2. /\ GTypes /\ TableGrows /\ InPhase /\ FilesJudged /\ GraphJudged
      /\ StackInv /\ VisitedInv /\ PostOrderInv
      /\ stack' = stack /\ visited' = visited /\ post_order' = post_order
  BY DEF walk, KnowledgeInv
<1>3. GTypes'
  BY <1>1, <1>2 DEF GTypes
<1>4. TableGrows' /\ InPhase'
  BY <1>1, <1>2 DEF TableGrows, InPhase
<1>5. FilesJudged' /\ GraphJudged'
  <2>1. \A x : Judged(x)' <=> Judged(x)
    BY DEF Judged
  <2> QED BY <1>1, <1>2, <2>1 DEF FilesJudged, GraphJudged
<1>6. StackInv' /\ VisitedInv' /\ PostOrderInv'
  <2>1. UNCHANGED <<stack, visited, post_order>> /\ StackInv /\ VisitedInv /\ PostOrderInv
    BY <1>1 DEF walk, KnowledgeInv
  <2>2. StackInv'
    BY <1>1, <1>2, <2>1 DEF StackInv, ChildrenOf, Places
  <2>3. VisitedInv'
    BY <1>1, <1>2, <2>1 DEF VisitedInv, Finished, Places
  <2>4. PostOrderInv'
    BY <1>1, <1>2, <2>1 DEF PostOrderInv, ChildrenOf
  <2> QED BY <2>2, <2>3, <2>4
<1> QED BY <1>3, <1>4, <1>5, <1>6 DEF KnowledgeInv

\* The stack is empty, so every entry is finished: what is left is to sum up
\* the directories in post order.
LEMMA SetLeavesKeepsKnowledge ==
  ASSUME KnowledgeInv, SetLeaves
  PROVE  KnowledgeInv'
<1>1. /\ g_pc = "walk" /\ stack = <<>> /\ g_pc' = "directories"
      /\ todo' = {k \in 1..Len(post_order) : IsDir(post_order[k])}
      /\ UNCHANGED <<facts, walk, to_normalize, size_known, bytes_known>>
      /\ post_order' = post_order /\ GTypes
  BY DEF SetLeaves, evidence, KnowledgeInv, walk
<1>2. \A i : IsDir(i) <=> IsDir(i)'
  BY <1>1, TableKept
<1>3. SummedUp'
  <2>1. Len(post_order) \in Nat
    BY <1>1 DEF GTypes
  <2> QED BY <1>1, <1>2, <2>1 DEF SummedUp
<1>4. size_known' \in Seq(BOOLEAN) /\ Len(size_known') = Len(table)
  BY <1>1 DEF GTypes
<1> QED BY <1>1, <1>3, <1>4, SumKeepsKnowledge

\* The children of the directory summed up next were summed up before, and
\* are not touched again.
LEMMA AggregateKeepsKnowledge ==
  ASSUME KnowledgeInv, AggregateDirectory
  PROVE  KnowledgeInv'
<1>0. PICK t, d : t = Min(todo) /\ d = post_order[Min(todo)]
  OBVIOUS
<1>1. /\ g_pc = "directories" /\ todo # {} /\ stack = <<>>
      /\ UNCHANGED <<facts, walk, to_normalize, bytes_known>>
      /\ post_order' = post_order
      /\ GTypes /\ TableGrows /\ PostOrderInv /\ SummedUp
  BY DEF AggregateDirectory, KnowledgeInv, InPhase, walk
<1>2. /\ post_order \in Seq(Nodes) /\ Len(post_order) \in Nat
      /\ todo \subseteq 1..Len(post_order) /\ Nodes \subseteq Nat
      /\ Len(table) \in Nat
  BY <1>1 DEF GTypes, Nodes
<1>3. t \in todo /\ \A u \in todo : t <= u
  <2>1. todo \subseteq Nat
    BY <1>2
  <2> QED BY <1>0, <1>1, <2>1, MinIsLeast
<1>4. t \in 1..Len(post_order) /\ t \in Nat /\ d = post_order[t] /\ d \in Nodes /\ IsDir(d)
  BY <1>0, <1>1, <1>2, <1>3 DEF SummedUp
<1>5. \A i : (IsFile(i) <=> IsFile(i)') /\ (IsDir(i) <=> IsDir(i)')
  BY <1>1, TableKept
<1>6. \A i : ChildrenOf(i)' = ChildrenOf(i)
  BY <1>1 DEF facts, ChildrenOf, Nodes
<1>7. CASE g_pc' = "panicked" /\ UNCHANGED <<sums, size_known>>
  <2>1. UNCHANGED <<todo, size_known>>
    BY <1>7 DEF sums
  <2>2. SummedUp'
    BY <1>1, <1>5, <1>7, <2>1 DEF SummedUp
  <2>3. size_known' \in Seq(BOOLEAN) /\ Len(size_known') = Len(table)
    BY <1>1, <2>1 DEF GTypes
  <2> QED BY <1>1, <1>2, <1>7, <2>1, <2>2, <2>3, SumKeepsKnowledge
<1>8. CASE /\ todo' = todo \ {t} /\ g_pc' = "directories"
           /\ size_known' = [size_known EXCEPT
                ![d] = \A c \in ChildrenOf(d) :
                         /\ size_known[c]
                         /\ IsFile(c) => table[c].alloc # None]
  <2>1. PICK sure :
          /\ sure \in BOOLEAN
          /\ sure => \A c \in ChildrenOf(d) : size_known[c]
          /\ size_known' = [size_known EXCEPT ![d] = sure]
    BY <1>8
  <2>2. /\ size_known' \in Seq(BOOLEAN) /\ Len(size_known') = Len(table)
        /\ size_known'[d] = sure
        /\ \A i \in Nodes : i # d => size_known'[i] = size_known[i]
    <3>1. PICK B : B = BOOLEAN
      OBVIOUS
    <3>2. /\ size_known \in Seq(B) /\ sure \in B /\ Nodes = 1..Len(size_known)
          /\ Len(size_known) = Len(table)
      BY <1>1, <2>1, <3>1 DEF GTypes, Nodes
    <3>3. /\ [size_known EXCEPT ![d] = sure] \in Seq(B)
          /\ Len([size_known EXCEPT ![d] = sure]) = Len(size_known)
          /\ \A i \in Nodes : [size_known EXCEPT ![d] = sure][i]
                              = IF i = d THEN sure ELSE size_known[i]
      BY <1>4, <3>2, ExceptSeq
    <3>4. size_known' = [size_known EXCEPT ![d] = sure]
      BY <2>1
    <3> QED BY <1>4, <3>1, <3>2, <3>3, <3>4, Zenon
  <2>3. \A i \in Nodes : IsFile(i) => i # d
    BY <1>4 DEF IsFile, IsDir
  <2>4. \A u \in todo' : /\ IsDir(post_order[u])
                         /\ \A k \in u..Len(post_order) : IsDir(post_order[k]) => k \in todo'
    <3>1. ASSUME NEW u \in todo'
          PROVE  /\ IsDir(post_order[u])
                 /\ \A k \in u..Len(post_order) : IsDir(post_order[k]) => k \in todo'
      <4>1. u \in todo /\ u > t /\ u \in Nat
        BY <1>2, <1>3, <1>4, <1>8
      <4>2. \A k \in u..Len(post_order) : k # t
        BY <1>4, <4>1
      <4> QED BY <1>1, <1>8, <4>1, <4>2 DEF SummedUp
    <3> QED BY <3>1
  <2>5. ASSUME NEW k \in 1..Len(post_order), IsDir(post_order[k]), k \notin todo',
               NEW c \in ChildrenOf(post_order[k]), size_known'[post_order[k]]
        PROVE  size_known'[c]
    <3>1. c \in Nodes
      BY DEF ChildrenOf
    <3>2. PICK j \in 1..(k - 1) : post_order[j] = c
      BY <1>1 DEF PostOrderInv
    <3>3. j \in 1..Len(post_order) /\ j < k
      BY <1>2
    <3>4. CASE k = t
      <4>1. c # d
        BY <1>1, <1>4, <3>2, <3>3, <3>4 DEF PostOrderInv
      <4> QED BY <1>4, <2>1, <2>2, <2>5, <3>1, <3>4, <4>1
    <3>5. CASE k # t
      <4>1. k \notin todo
        BY <1>8, <2>5, <3>5
      <4>2. c # d
        <5>1. SUFFICES ASSUME c = d PROVE FALSE
          OBVIOUS
        <5>2. j = t
          BY <1>1, <1>4, <3>2, <3>3, <5>1 DEF PostOrderInv
        <5>3. k \in t..Len(post_order)
          BY <1>2, <1>4, <3>3, <5>2
        <5> QED BY <1>1, <1>3, <2>5, <4>1, <5>3 DEF SummedUp
      <4>3. post_order[k] # d /\ post_order[k] \in Nodes
        BY <1>1, <1>2, <1>4, <3>5 DEF PostOrderInv
      <4>4. size_known[c]
        BY <1>1, <2>2, <2>5, <4>1, <4>3 DEF SummedUp, ClaimsNoMore
      <4> QED BY <2>2, <3>1, <4>2, <4>4
    <3> QED BY <3>4, <3>5
  <2>6. SummedUp'
    BY <1>1, <1>5, <1>6, <2>4, <2>5 DEF SummedUp, ClaimsNoMore
  <2>7. todo' \subseteq 1..Len(post_order)
    BY <1>2, <1>8
  <2> QED BY <1>1, <1>8, <2>2, <2>3, <2>6, <2>7, SumKeepsKnowledge
<1> QED BY <1>0, <1>7, <1>8 DEF AggregateDirectory

\* Cutting the child slices touches no flag.
LEMMA CutSlicesKeepsKnowledge ==
  ASSUME KnowledgeInv, CutSlices
  PROVE  KnowledgeInv'
<1>1. /\ g_pc = "directories" /\ stack = <<>> /\ g_pc' = "graph" /\ todo = {}
      /\ UNCHANGED <<facts, walk, to_normalize, size_known, bytes_known, todo>>
      /\ post_order' = post_order /\ GTypes /\ SummedUp
  BY DEF CutSlices, KnowledgeInv, InPhase, evidence, sums, walk
<1>2. /\ \A i : IsDir(i) <=> IsDir(i)'
      /\ \A i : ChildrenOf(i)' = ChildrenOf(i)
  BY <1>1, TableKept DEF facts, ChildrenOf, Nodes
<1>3. SummedUp'
  BY <1>1, <1>2 DEF SummedUp, ClaimsNoMore
<1>4. size_known' \in Seq(BOOLEAN) /\ Len(size_known') = Len(table)
  BY <1>1 DEF GTypes
<1> QED BY <1>1, <1>3, <1>4, SumKeepsKnowledge

\* No step at all.
LEMMA StutterKeepsKnowledge ==
  ASSUME KnowledgeInv, UNCHANGED gvars
  PROVE  KnowledgeInv'
<1>1. UNCHANGED <<table, parent, g_pc, to_normalize, size_known, bytes_known, stack,
                  visited, post_order, todo>>
  BY DEF gvars, facts, evidence, walk, sums
<1>2. /\ Nodes' = Nodes /\ FileOids' = FileOids
      /\ \A i : (IsFile(i) <=> IsFile(i)') /\ (IsDir(i) <=> IsDir(i)')
      /\ \A x : Contradicted(x)' <=> Contradicted(x)
  BY <1>1, TableKept DEF facts
<1>3. /\ \A i : ChildrenOf(i)' = ChildrenOf(i)
      /\ \A i : Finished(i)' <=> Finished(i)
      /\ \A x : Judged(x)' <=> Judged(x)
      /\ Places' = Places
  BY <1>1, <1>2 DEF ChildrenOf, Finished, Judged, Places
<1>4. GTypes' /\ TableGrows' /\ InPhase'
  BY <1>1, <1>2 DEF KnowledgeInv, GTypes, TableGrows, InPhase
<1>5. FilesJudged' /\ GraphJudged'
  BY <1>1, <1>2, <1>3 DEF KnowledgeInv, FilesJudged, GraphJudged
<1>6. StackInv' /\ VisitedInv' /\ PostOrderInv' /\ SummedUp'
  <2>1. StackInv'
    BY <1>1, <1>3 DEF KnowledgeInv, StackInv
  <2>2. VisitedInv'
    BY <1>1, <1>2 DEF KnowledgeInv, VisitedInv, Finished, Places
  <2>3. PostOrderInv'
    BY <1>1, <1>2 DEF KnowledgeInv, PostOrderInv, ChildrenOf
  <2>4. SummedUp'
    BY <1>1, <1>2, <1>3 DEF KnowledgeInv, SummedUp, ClaimsNoMore
  <2> QED BY <2>1, <2>2, <2>3, <2>4
<1> QED BY <1>4, <1>5, <1>6 DEF KnowledgeInv

\* Every step of the builder and of compute_aggregates.
LEMMA KnowledgeSteps ==
  ASSUME KnowledgeInv, [ANext]_gvars
  PROVE  KnowledgeInv'
<1>1. ASSUME NEW row \in AllRows, NEW p \in 0..Len(table), Ingest(row, p)
      PROVE  KnowledgeInv'
  BY <1>1, IngestKeepsKnowledge
<1>2. CASE Begin
  BY <1>2, BeginKeepsKnowledge
<1>3. ASSUME NEW oid \in FileOids, NormalizeFileObject(oid) PROVE KnowledgeInv'
  BY <1>3, NormalizeFileKeepsKnowledge
<1>4. ASSUME NEW d \in Nodes, NormalizeDirectory(d) PROVE KnowledgeInv'
  BY <1>4, NormalizeDirectoryKeepsKnowledge
<1>5. CASE AccountIdentityLess
  BY <1>5, AccountKeepsKnowledge
<1>6. CASE Descend
  BY <1>6, DescendKeepsKnowledge
<1>7. CASE Leave
  BY <1>7, LeaveKeepsKnowledge
<1>8. CASE SetLeaves
  BY <1>8, SetLeavesKeepsKnowledge
<1>9. CASE AggregateDirectory
  BY <1>9, AggregateKeepsKnowledge
<1>10. CASE CutSlices
  BY <1>10, CutSlicesKeepsKnowledge
<1>11. CASE UNCHANGED gvars
  BY <1>11, StutterKeepsKnowledge
<1> QED BY <1>1, <1>2, <1>3, <1>4, <1>5, <1>6, <1>7, <1>8, <1>9, <1>10, <1>11
        DEF ANext, Compute, AllRows

\* The invariant of compute_aggregates: evidence, traversal and claims.
THEOREM KnowledgeInvariant == ASpec => []KnowledgeInv
BY KnowledgeStarts, KnowledgeSteps, PTL DEF ASpec
---------------------------------------------------------------------------
(* What the finished graph says *)

\* The entries above one are itself and those above its parent.
LEMMA AboveIsPath ==
  ASSUME GTypes, TableGrows, NEW i \in Nodes
  PROVE  Above(i) = IF i = 1 THEN {1} ELSE {i} \union Above(parent[i])
<1> DEFINE Up(h) == [j \in Nodes |-> IF j = 1 THEN {1} ELSE {j} \union h[parent[j]]]
<1> DEFINE Closed(S) == \A x \in S : x # 1 => parent[x] \in S
<1> DEFINE Reached(j) ==
      {x \in Nodes : \A S \in SUBSET Nodes : j \in S /\ Closed(S) => x \in S}
<1>1. Nodes \subseteq Nat /\ Len(table) \in Nat
  BY DEF GTypes, Nodes
<1>2. \A j \in Nodes : j # 1 => parent[j] \in Nodes
  <2>1. ASSUME NEW j \in Nodes, j # 1 PROVE parent[j] \in Nodes
    <3>1. parent[j] \in 1..(j - 1)
      BY <2>1 DEF TableGrows
    <3> QED BY <1>1, <3>1 DEF Nodes
  <2> QED BY <2>1
<1>3. 1 \in Nodes => Reached(1) = {1}
  <2>1. ASSUME 1 \in Nodes PROVE Reached(1) = {1}
    <3>1. {1} \in SUBSET Nodes /\ Closed({1})
      BY <2>1
    <3> QED BY <2>1, <3>1
  <2> QED BY <2>1
<1>4. ASSUME NEW j \in Nodes, j # 1
      PROVE  Reached(j) = {j} \union Reached(parent[j])
  <2>1. ASSUME NEW x \in Reached(j), x # j PROVE x \in Reached(parent[j])
    <3>1. SUFFICES ASSUME NEW S \in SUBSET Nodes, parent[j] \in S, Closed(S)
                   PROVE  x \in S
      OBVIOUS
    <3>2. S \union {j} \in SUBSET Nodes /\ Closed(S \union {j})
      BY <3>1, <1>4
    <3> QED BY <2>1, <3>2
  <2>2. ASSUME NEW x \in Reached(parent[j]) PROVE x \in Reached(j)
    <3>1. SUFFICES ASSUME NEW S \in SUBSET Nodes, j \in S, Closed(S)
                   PROVE  x \in S
      OBVIOUS
    <3>2. parent[j] \in S
      BY <1>4, <3>1
    <3> QED BY <2>2, <3>1, <3>2
  <2>3. j \in Reached(j)
    OBVIOUS
  <2> QED BY <2>1, <2>2, <2>3
<1>5. PICK anc : anc = [j \in Nodes |-> Reached(j)]
  OBVIOUS
<1>6. anc = Up(anc)
  <2>1. \A j \in Nodes : anc[j] = IF j = 1 THEN {1} ELSE {j} \union anc[parent[j]]
    BY <1>2, <1>3, <1>4, <1>5
  <2> QED BY <1>5, <2>1, ZenonT(60)
<1>7. PICK up : up = CHOOSE h : h = Up(h)
  OBVIOUS
<1>8. up = Up(up)
  BY <1>6, <1>7
<1>9. \A j : Above(j) = up[j]
  BY <1>7 DEF Above
<1> QED BY <1>8, <1>9

\* "allocated_size_known" of a directory and "allocated_bytes_known" of the
\* graph, wherever the missing or contradicting file lies below.
THEOREM KnownIsKnown == ASpec => []KnowledgeSound
<1>1. ASSUME KnowledgeInv, g_pc = "graph" PROVE KnowledgeSound
  <2>1. /\ GTypes /\ TableGrows /\ FilesJudged /\ GraphJudged /\ SummedUp
        /\ todo = {} /\ to_normalize = {} /\ stack = <<>>
    BY <1>1 DEF KnowledgeInv, InPhase
  <2>2. \A x : Judged(x)
    BY <1>1, <2>1 DEF Judged
  <2>3. \A i \in Nodes : Conflicting(i) <=> table[i].oid # None /\ Contradicted(table[i].oid)
    BY DEF Conflicting, Contradicted
  <2>4. \A i \in Nodes : IsFile(i) /\ size_known[i] => i \notin Unsure
    BY <2>1, <2>2, <2>3 DEF FilesJudged, Unsure
  <2>5. bytes_known <=> Unsure = {}
    <3>1. \A oid \in FileOids : Contradicted(oid) => \E i \in Unsure : TRUE
      BY <2>3 DEF FileOids, Unsure
    <3>2. \A i \in Nodes : IsFile(i) /\ table[i].oid # None => table[i].oid \in FileOids
      BY DEF FileOids
    <3>3. \A i \in Unsure : /\ i \in Nodes /\ IsFile(i)
                            /\ table[i].alloc = None \/ Conflicting(i)
      BY DEF Unsure
    <3>4. \A i \in Nodes : IsFile(i) /\ table[i].alloc = None => i \in Unsure
      BY DEF Unsure
    <3> QED BY <2>1, <2>2, <2>3, <3>1, <3>2, <3>3, <3>4 DEF GraphJudged
  <2>6. \A d \in Nodes : IsDir(d) => ClaimsNoMore(d)
    <3>1. \A d \in Nodes : Finished(d)
      BY <1>1, <2>1, EveryEntryIsFinished
    <3> QED BY <1>1, <2>1, <3>1 DEF SummedUp, Finished
  <2>7. ASSUME NEW d \in Nodes, size_known[d]
        PROVE  \A i \in Below(d) : size_known[i]
    <3>1. SUFFICES ASSUME {i \in Below(d) : ~size_known[i]} # {} PROVE FALSE
      OBVIOUS
    <3>2. PICK T : T = {i \in Below(d) : ~size_known[i]}
      OBVIOUS
    <3>3. T \subseteq Nat /\ T \subseteq Nodes
      BY <3>2 DEF Below, Nodes
    <3>4. PICK i \in T : \A j \in T : i <= j
      BY <3>1, <3>2, <3>3, LeastExists
    <3>5. i \in Nodes /\ i \in Nat /\ d \in Above(i) /\ ~size_known[i]
      BY <3>2, <3>3, <3>4 DEF Below
    <3>6. i # d
      BY <2>7, <3>5
    <3>7. i # 1 /\ d \in Above(parent[i])
      BY <2>1, <3>5, <3>6, AboveIsPath
    <3>8. parent[i] \in 1..(i - 1) /\ IsDir(parent[i])
      BY <2>1, <3>5, <3>7 DEF TableGrows
    <3>9. parent[i] \in Nodes /\ parent[i] < i
      BY <2>1, <3>5, <3>8, SMTT(60) DEF GTypes, Nodes
    <3>10. size_known[parent[i]]
      BY <3>2, <3>4, <3>7, <3>5, <3>8, <3>9 DEF Below
    <3>11. i \in ChildrenOf(parent[i])
      BY <3>5 DEF ChildrenOf
    <3> QED BY <2>6, <3>5, <3>8, <3>9, <3>10, <3>11 DEF ClaimsNoMore
  <2>8. \A d \in Nodes : IsDir(d) /\ size_known[d] => Below(d) \intersect Unsure = {}
    <3>1. \A i \in Unsure : i \in Nodes /\ IsFile(i)
      BY DEF Unsure
    <3> QED BY <2>4, <2>7, <3>1
  <2> QED BY <2>5, <2>8 DEF KnowledgeSound
<1>2. KnowledgeInv => KnowledgeSound
  BY <1>1 DEF KnowledgeSound
<1> QED BY <1>2, KnowledgeInvariant, PTL
---------------------------------------------------------------------------
(* Links *)

\* What is known of the objects: those of the files are numbered when they
\* are normalised, judged by the evidence of all their entries, and counted.
IsVector(s) == Len(s) \in Nat /\ s = [k \in 1..Len(s) |-> s[k]]

Doubtful(oid) == Evidence(Aliases(oid)) = "Indeterminate"
Anonymous == {i \in Nodes : IsFile(i) /\ table[i].oid = None}

LinksInv ==
  /\ IsVector(objects)
  /\ g_pc = "ingesting" => indeterminate = 0 /\ objects = <<>>
  /\ g_pc # "ingesting" =>
       /\ object_index \in Seq(Nat) /\ Len(object_index) = Len(table)
       /\ \A i \in Nodes : IsFile(i) /\ table[i].oid # None =>
            IF Judged(table[i].oid)
            THEN /\ object_index[i] \in 1..Len(objects)
                 /\ objects[object_index[i]].status = Evidence(Aliases(table[i].oid))
            ELSE object_index[i] = 0
  /\ g_pc = "objects" =>
       /\ \A i \in Nodes : [dir |-> i] \in to_normalize => IsDir(i)
       /\ \A i \in Anonymous : object_index[i] = 0
       /\ indeterminate = Cardinality({oid \in FileOids : Judged(oid) /\ Doubtful(oid)})
  /\ g_pc \notin {"ingesting", "objects"} =>
       indeterminate = Cardinality({oid \in FileOids : Doubtful(oid)})
                       + Cardinality({i \in Anonymous : Evidence({i}) = "Indeterminate"})

\* Induction up to n, for a property given as the set of those that have it.
LEMMA UpTo ==
  ASSUME NEW n \in Nat, NEW S, 0 \in S, \A k \in 1..n : k - 1 \in S => k \in S
  PROVE  0..n \subseteq S
<1> SUFFICES ASSUME ~(0..n \subseteq S) PROVE FALSE
  OBVIOUS
<1>1. PICK T : T = {k \in 0..n : k \notin S}
  OBVIOUS
<1>2. T \subseteq Nat /\ T # {}
  BY <1>1
<1>3. PICK x \in T : \A y \in T : x <= y
  BY <1>2, LeastExists
<1>4. x \in 1..n /\ x - 1 \in 0..n
  BY <1>1, <1>3
<1>5. x - 1 \in S
  BY <1>1, <1>3, <1>4
<1> QED BY <1>1, <1>4, <1>5

\* The image of a finite set.
LEMMA LinksOfFinitelyMany ==
  ASSUME NEW S, IsFiniteSet(S)
  PROVE  IsFiniteSet({table[i].link : i \in S})
<1>1. PICK T, f : T = {table[i].link : i \in S} /\ f = [i \in S |-> table[i].link]
  OBVIOUS
<1>2. f \in Surjection(S, T)
  BY <1>1 DEF Surjection
<1> QED BY <1>1, <1>2, FS_Surjection

\* What a fold over the entries of A says at the end: any Known count, else
\* Unavailable, else NotApplicable.
SpeaksFor(r, A) ==
  LET says(k) == \E i \in A : table[i].link.knows = k
  IN  IF says("Known")
      THEN r.knows = "Known" /\ \E i \in A : table[i].link = r
      ELSE r.knows = IF says("Unavailable") THEN "Unavailable"
                     ELSE IF says("NotApplicable") THEN "NotApplicable"
                     ELSE "NotObserved"

\* One turn of the loop that resolves a link count adds one entry's say.
LEMMA MergeSpeaks ==
  ASSUME NEW r, NEW A, NEW i, SpeaksFor(r, A), table[i].link \in LinkCounts
  PROVE  SpeaksFor(MergeLink(r, table[i].link), A \union {i})
<1>1. PICK link : link = table[i].link
  OBVIOUS
<1>2. link.knows \in {"Known", "Unavailable", "NotApplicable", "NotObserved"}
  BY <1>1 DEF LinkCounts
<1>3. \A k : (\E j \in A \union {i} : table[j].link.knows = k)
             <=> (\E j \in A : table[j].link.knows = k) \/ link.knows = k
  BY <1>1
<1>4. CASE \E j \in A : table[j].link.knows = "Known"
  <2>1. r.knows = "Known" /\ \E j \in A : table[j].link = r
    BY <1>4 DEF SpeaksFor
  <2>2. MergeLink(r, table[i].link) = r
    BY <2>1 DEF MergeLink
  <2> QED BY <1>3, <1>4, <2>1, <2>2 DEF SpeaksFor
<1>5. CASE ~(\E j \in A : table[j].link.knows = "Known") /\ link.knows = "Known"
  <2>1. r.knows # "Known"
    BY <1>5 DEF SpeaksFor
  <2>2. MergeLink(r, table[i].link) = link
    BY <1>1, <1>5, <2>1 DEF MergeLink
  <2> QED BY <1>1, <1>3, <1>5, <2>2 DEF SpeaksFor
<1>6. CASE ~(\E j \in A : table[j].link.knows = "Known") /\ link.knows # "Known"
  <2>1. PICK m : m = MergeLink(r, table[i].link)
    OBVIOUS
  <2>2. r.knows = IF \E j \in A : table[j].link.knows = "Unavailable" THEN "Unavailable"
                  ELSE IF \E j \in A : table[j].link.knows = "NotApplicable"
                  THEN "NotApplicable" ELSE "NotObserved"
    BY <1>6 DEF SpeaksFor
  <2>3. m.knows = IF r.knows = "Unavailable" \/ link.knows = "Unavailable" THEN "Unavailable"
                  ELSE IF r.knows = "NotApplicable" \/ link.knows = "NotApplicable"
                  THEN "NotApplicable" ELSE "NotObserved"
    BY <1>1, <1>2, <1>6, <2>1, <2>2 DEF MergeLink
  <2> QED BY <1>3, <1>6, <2>1, <2>2, <2>3 DEF SpeaksFor
<1> QED BY <1>4, <1>5, <1>6

\* ResolvedLink folds from the first entry to the last.
LEMMA ResolvedLinkSpeaks ==
  ASSUME GTypes, NEW A, A \subseteq Nodes, \A i \in A : table[i].link \in LinkCounts
  PROVE  SpeaksFor(ResolvedLink(A), A)
<1> DEFINE Step(h, i) == IF i = 0 THEN NotObserved
                         ELSE IF i \in A THEN MergeLink(h[i - 1], table[i].link)
                         ELSE h[i - 1]
<1> DEFINE n == Len(table)
<1> DEFINE Fold(h) == [i \in 0..n |-> Step(h, i)]
<1>1. n \in Nat
  BY DEF GTypes
<1>2. \E f : \A i \in 0..n : f[i] = Step(f, i)
  <2>1. PICK S : S = {k \in 0..n : \E f : \A i \in 0..k : f[i] = Step(f, i)}
    OBVIOUS
  <2>2. 0 \in S
    <3>1. PICK f : f = [i \in 0..0 |-> NotObserved]
      OBVIOUS
    <3>2. \A i \in 0..0 : f[i] = Step(f, i)
      BY <3>1
    <3> QED BY <1>1, <2>1, <3>2
  <2>3. ASSUME NEW k \in 1..n, k - 1 \in S PROVE k \in S
    <3>1. PICK f : \A i \in 0..(k - 1) : f[i] = Step(f, i)
      BY <2>1, <2>3
    <3>2. PICK g : g = [i \in 0..k |-> IF i = k THEN Step(f, k) ELSE f[i]]
      OBVIOUS
    <3>3. \A i \in 0..k : i = k \/ i \in 0..(k - 1)
      OBVIOUS
    <3>4. \A i \in 0..(k - 1) : g[i] = f[i]
      BY <3>2
    <3>5. \A i \in 1..k : i - 1 \in 0..(k - 1)
      OBVIOUS
    <3>6. \A i \in 0..k : Step(g, i) = Step(f, i)
      BY <3>4, <3>5
    <3>7. \A i \in 0..k : g[i] = Step(g, i)
      BY <3>1, <3>2, <3>3, <3>4, <3>6
    <3>8. k \in 0..n
      OBVIOUS
    <3> QED BY <2>1, <3>7, <3>8
  <2>4. 0..n \subseteq S
    BY <1>1, <2>2, <2>3, UpTo
  <2> QED BY <1>1, <2>1, <2>4
<1>3. PICK resolved : resolved = CHOOSE h : h = Fold(h)
  OBVIOUS
<1>4. resolved = Fold(resolved)
  <2>1. PICK f : \A i \in 0..n : f[i] = Step(f, i)
    BY <1>2
  <2>2. PICK g : g = [i \in 0..n |-> f[i]]
    OBVIOUS
  <2>3. \A i \in 1..n : i - 1 \in 0..n
    BY <1>1
  <2>4. \A i \in 0..n : i = 0 \/ i \in 1..n
    BY <1>1
  <2>5. \A i \in 0..n : g[i] = Step(g, i)
    BY <2>1, <2>2, <2>3, <2>4
  <2>6. g = Fold(g)
    BY <2>2, <2>5
  <2> QED BY <1>3, <2>6, SMTT(60)
<1>5. ResolvedLink(A) = resolved[n]
  BY <1>3 DEF ResolvedLink
<1>6. \A i \in 0..n : resolved[i] = Step(resolved, i)
  BY <1>4, SMTT(60)
<1>7. PICK S : S = {k \in 0..n : SpeaksFor(resolved[k], A \intersect 1..k)}
  OBVIOUS
<1>8. 0 \in S
  <2>1. resolved[0] = NotObserved /\ A \intersect 1..0 = {}
    BY <1>1, <1>6
  <2> QED BY <1>1, <1>7, <2>1 DEF SpeaksFor, NotObserved
<1>9. ASSUME NEW k \in 1..n, k - 1 \in S PROVE k \in S
  <2>1. SpeaksFor(resolved[k - 1], A \intersect 1..(k - 1)) /\ k \in 0..n /\ k # 0
    BY <1>7, <1>9
  <2>2. \A i : i \in 1..k <=> i \in 1..(k - 1) \/ i = k
    OBVIOUS
  <2>3. CASE k \in A
    <3>1. A \intersect 1..k = (A \intersect 1..(k - 1)) \union {k}
      BY <2>2, <2>3
    <3>2. resolved[k] = MergeLink(resolved[k - 1], table[k].link)
      BY <1>6, <2>1, <2>3
    <3>3. table[k].link \in LinkCounts
      BY <2>3
    <3>4. SpeaksFor(MergeLink(resolved[k - 1], table[k].link),
                    (A \intersect 1..(k - 1)) \union {k})
      BY <2>1, <3>3, MergeSpeaks
    <3>5. SpeaksFor(resolved[k], A \intersect 1..k)
      BY <3>1, <3>2, <3>4
    <3> QED BY <1>7, <2>1, <3>5
  <2>4. CASE k \notin A
    <3>1. A \intersect 1..k = A \intersect 1..(k - 1)
      BY <2>2, <2>4
    <3>2. resolved[k] = resolved[k - 1]
      BY <1>6, <2>1, <2>4
    <3>3. SpeaksFor(resolved[k], A \intersect 1..k)
      BY <2>1, <3>1, <3>2
    <3> QED BY <1>7, <2>1, <3>3
  <2> QED BY <2>3, <2>4
<1>10. n \in S
  <2>1. 0..n \subseteq S
    BY <1>1, <1>8, <1>9, UpTo
  <2> QED BY <1>1, <2>1
<1>11. A \intersect 1..n = A
  BY DEF Nodes
<1> QED BY <1>5, <1>7, <1>10, <1>11

\* The status NormalizeFileObject gives to the entries A of an object.
StatusOf(A) == IF LinkConflict(A) THEN "InconsistentEvidence"
               ELSE derive(ResolvedLink(A), Cardinality(A))

\* Whatever order the entries of an object came in, the status is the one
\* their evidence supports.
LEMMA StatusIsEvidence ==
  ASSUME GTypes, NEW A, A \subseteq Nodes, \A i \in A : table[i].link \in LinkCounts
  PROVE  StatusOf(A) = Evidence(A)
<1>1. PICK K, known, r :
        /\ K = {j \in A : table[j].link.knows = "Known"}
        /\ known = {table[i].link : i \in K}
        /\ r = ResolvedLink(A)
  OBVIOUS
<1>2. IsFiniteSet(known)
  <2>1. IsFiniteSet(Nodes)
    BY FS_Interval DEF GTypes, Nodes
  <2>2. IsFiniteSet(K)
    BY <1>1, <2>1, FS_Subset
  <2> QED BY <1>1, <2>2, LinksOfFinitelyMany
<1>3. SpeaksFor(r, A)
  BY <1>1, ResolvedLinkSpeaks
<1>4. Cardinality(known) \in Nat
  BY <1>2, FS_CardinalityType
<1>5. LinkConflict(A) <=> Cardinality(known) > 1
  BY <1>1 DEF LinkConflict
<1>6. CASE Cardinality(known) > 1
  BY <1>1, <1>5, <1>6 DEF Evidence, StatusOf
<1>7. CASE ~(Cardinality(known) > 1) /\ known # {}
  <2>1. \E x : known = {x}
    <3>1. Cardinality(known) = 1
      BY <1>2, <1>4, <1>7, FS_EmptySet
    <3> QED BY <1>2, <3>1, FS_Singleton
  <2>2. r \in known
    <3>1. \E i \in A : table[i].link.knows = "Known"
      BY <1>1, <1>7
    <3>2. r.knows = "Known" /\ \E i \in A : table[i].link = r
      BY <1>3, <3>1 DEF SpeaksFor
    <3> QED BY <1>1, <3>2
  <2>3. (CHOOSE l \in known : TRUE) = r
    BY <2>1, <2>2
  <2>4. Evidence(A) = derive(r, Cardinality(A))
    BY <1>1, <1>7, <2>3 DEF Evidence
  <2> QED BY <1>1, <1>5, <1>7, <2>4 DEF StatusOf
<1>8. CASE ~(Cardinality(known) > 1) /\ known = {}
  <2>1. ~\E i \in A : table[i].link.knows = "Known"
    BY <1>1, <1>8
  <2>2. r.knows = IF \E i \in A : table[i].link.knows = "Unavailable" THEN "Unavailable"
                  ELSE IF \E i \in A : table[i].link.knows = "NotApplicable"
                  THEN "NotApplicable" ELSE "NotObserved"
    BY <1>3, <2>1 DEF SpeaksFor
  <2>3. StatusOf(A) = IF r.knows = "NotApplicable" THEN "NotApplicable" ELSE "Indeterminate"
    BY <1>1, <1>5, <1>8, <2>2 DEF StatusOf, derive
  <2>4. Evidence(A) = IF /\ ~\E i \in A : table[i].link.knows = "Unavailable"
                         /\ \E i \in A : table[i].link.knows = "NotApplicable"
                      THEN "NotApplicable" ELSE "Indeterminate"
    BY <1>1, <1>8 DEF Evidence
  <2> QED BY <2>2, <2>3, <2>4
<1> QED BY <1>6, <1>7, <1>8

\* The evidence is in the table.
LEMMA EvidenceKept ==
  ASSUME UNCHANGED facts
  PROVE  /\ \A A : Evidence(A)' = Evidence(A)
         /\ \A x : Aliases(x)' = Aliases(x)
         /\ \A x : Doubtful(x)' <=> Doubtful(x)
         /\ Anonymous' = Anonymous
<1>1. table' = table /\ Nodes' = Nodes
  BY DEF facts, Nodes
<1>2. \A A : Evidence(A)' = Evidence(A)
  BY <1>1 DEF Evidence, derive
<1>3. \A x : Aliases(x)' = Aliases(x)
  BY <1>1 DEF Aliases, IsFile
<1>4. Anonymous' = Anonymous
  BY <1>1 DEF Anonymous, IsFile
<1>5. \A x : Doubtful(x)' <=> Doubtful(x)
  BY <1>2, <1>3 DEF Doubtful
<1> QED BY <1>2, <1>3, <1>4, <1>5

\* Objects are only added.
LEMMA VectorAppended ==
  ASSUME NEW s, IsVector(s), NEW e
  PROVE  /\ IsVector(Append(s, e)) /\ Len(Append(s, e)) = Len(s) + 1
         /\ Append(s, e)[Len(s) + 1] = e
         /\ \A k \in 1..Len(s) : Append(s, e)[k] = s[k]
<1>1. PICK S : S = {s[k] : k \in 1..Len(s)} \union {e}
  OBVIOUS
<1>2. s \in [1..Len(s) -> S]
  BY <1>1 DEF IsVector
<1>3. s \in Seq(S) /\ e \in S
  BY <1>1, <1>2 DEF IsVector
<1>4. /\ Append(s, e) \in Seq(S) /\ Len(Append(s, e)) = Len(s) + 1
      /\ Append(s, e)[Len(s) + 1] = e
      /\ \A k \in 1..Len(s) : Append(s, e)[k] = s[k]
  BY <1>3, AppendProperties
<1> QED BY <1>4, LenProperties DEF IsVector

\* The objects of files without identity come after those with one.
LEMMA VectorExtended ==
  ASSUME NEW s, IsVector(s), NEW t, IsVector(t)
  PROVE  /\ IsVector(s \o t) /\ Len(s \o t) = Len(s) + Len(t)
         /\ \A k \in 1..Len(s) : (s \o t)[k] = s[k]
         /\ \A k \in 1..Len(t) : (s \o t)[Len(s) + k] = t[k]
<1>1. PICK S : S = {s[k] : k \in 1..Len(s)} \union {t[k] : k \in 1..Len(t)}
  OBVIOUS
<1>2. s \in [1..Len(s) -> S] /\ t \in [1..Len(t) -> S]
  BY <1>1 DEF IsVector
<1>3. s \in Seq(S) /\ t \in Seq(S)
  BY <1>2 DEF IsVector
<1>4. /\ s \o t \in Seq(S) /\ Len(s \o t) = Len(s) + Len(t)
      /\ \A k \in 1..(Len(s) + Len(t)) :
           (s \o t)[k] = IF k <= Len(s) THEN s[k] ELSE t[k - Len(s)]
  BY <1>3, ConcatProperties
<1>5. Len(s) \in Nat /\ Len(t) \in Nat
  BY DEF IsVector
<1>6. IsVector(s \o t)
  BY <1>4, LenProperties DEF IsVector
<1>7. \A k \in 1..Len(s) : (s \o t)[k] = s[k]
  BY <1>4, <1>5
<1>8. \A k \in 1..Len(t) : (s \o t)[Len(s) + k] = t[k]
  BY <1>4, <1>5
<1> QED BY <1>4, <1>6, <1>7, <1>8

\* Every file's link count is one of those a record can carry.
LEMMA LinksAreTyped ==
  ASSUME GTypes
  PROVE  /\ \A i \in Nodes : IsFile(i) => table[i].link \in LinkCounts
         /\ IsFiniteSet(Nodes) /\ IsFiniteSet(FileOids)
<1>1. Len(table) \in Nat /\ \A i \in Nodes : table[i] \in AllRows
  BY DEF GTypes, Nodes
<1>2. ASSUME NEW i \in Nodes, IsFile(i) PROVE table[i].link \in LinkCounts
  <2>1. PICK f \in Families : table[i] \in Rows(f)
    BY <1>1 DEF AllRows
  <2>2. table[i].kind = "File"
    BY <1>2 DEF IsFile
  <2>3. table[i].link \in f.links
    BY <2>1, <2>2 DEF Rows
  <2> QED BY <2>3, FamiliesAssumption
<1>3. IsFiniteSet(Nodes)
  BY <1>1, FS_Interval DEF Nodes
<1>4. IsFiniteSet(FileOids)
  <2>1. PICK F, T, f : /\ F = {i \in Nodes : IsFile(i)}
                       /\ T = {table[i].oid : i \in F}
                       /\ f = [i \in F |-> table[i].oid]
    OBVIOUS
  <2>2. IsFiniteSet(F)
    BY <1>3, <2>1, FS_Subset
  <2>3. f \in Surjection(F, T)
    BY <2>1 DEF Surjection
  <2>4. IsFiniteSet(T)
    BY <2>2, <2>3, FS_Surjection
  <2>5. FileOids \in SUBSET T
    BY <2>1 DEF FileOids
  <2> QED BY <2>4, <2>5, FS_Subset
<1> QED BY <1>2, <1>3, <1>4

\* No objects and nothing in doubt.
LEMMA LinksStart == AInit => LinksInv
<1> SUFFICES ASSUME AInit PROVE LinksInv
  OBVIOUS
<1>1. g_pc = "ingesting" /\ objects = <<>> /\ indeterminate = 0
  BY DEF AInit
<1>2. IsVector(<<>>)
  BY LenProperties, EmptySeq DEF IsVector
<1> QED BY <1>1, <1>2 DEF LinksInv

\* All keys are still to be normalised, so no object is recorded.
LEMMA BeginKeepsLinks ==
  ASSUME KnowledgeInv, LinksInv, Begin
  PROVE  LinksInv'
<1>1. /\ g_pc = "ingesting" /\ g_pc' = "objects"
      /\ to_normalize' = [files : FileOids]
                         \union [dir : {i \in Nodes : IsDir(i) /\ table[i].oid # None}]
      /\ object_index' = [i \in Nodes |-> 0]
      /\ UNCHANGED <<facts, objects, indeterminate>> /\ table' = table
      /\ GTypes
  BY DEF Begin, KnowledgeInv, facts
<1>2. /\ Nodes' = Nodes /\ FileOids' = FileOids
      /\ \A i : IsFile(i) <=> IsFile(i)'
      /\ Anonymous' = Anonymous
  BY <1>1, TableKept, EvidenceKept
<1>3. \A oid \in FileOids : ~Judged(oid)'
  <2>1. \A oid \in FileOids : [files |-> oid] \in [files : FileOids]
    OBVIOUS
  <2> QED BY <1>1, <2>1 DEF Judged
<1>4. \A i \in Nodes : IsFile(i) /\ table[i].oid # None => table[i].oid \in FileOids
  BY DEF FileOids
<1>5. object_index' \in Seq(Nat) /\ Len(object_index') = Len(table)
      /\ \A i \in Nodes : object_index'[i] = 0
  BY <1>1 DEF GTypes, Nodes
<1>6. Anonymous \subseteq Nodes
  BY DEF Anonymous
<1>7. indeterminate' = Cardinality({oid \in FileOids : Judged(oid)' /\ Doubtful(oid)'})
  <2>1. {oid \in FileOids : Judged(oid)' /\ Doubtful(oid)'} = {}
    BY <1>3
  <2>2. indeterminate = 0
    BY <1>1 DEF LinksInv
  <2> QED BY <1>1, <2>1, <2>2, FS_EmptySet
<1>8. IsVector(objects')
  BY <1>1 DEF LinksInv
<1>9. \A i \in Nodes : [dir |-> i] \in to_normalize' => IsDir(i)'
  <2>1. ASSUME NEW i \in Nodes, [dir |-> i] \in to_normalize' PROVE IsDir(i)
    <3>1. \A x \in [files : FileOids] : DOMAIN x = {"files"}
      OBVIOUS
    <3>2. DOMAIN [dir |-> i] = {"dir"} /\ "dir" # "files"
      OBVIOUS
    <3>3. [dir |-> i] \in [dir : {j \in Nodes : IsDir(j) /\ table[j].oid # None}]
      BY <1>1, <2>1, <3>1, <3>2
    <3>4. [dir |-> i].dir \in {j \in Nodes : IsDir(j) /\ table[j].oid # None}
      BY <3>3
    <3> QED BY <3>4
  <2> QED BY <1>1, <2>1, TableKept
<1> QED BY <1>1, <1>2, <1>3, <1>4, <1>5, <1>6, <1>7, <1>8, <1>9 DEF LinksInv

\* A file object is judged once, by all of its entries.
LEMMA NormalizeFileKeepsLinks ==
  ASSUME KnowledgeInv, LinksInv, NEW oid \in FileOids, NormalizeFileObject(oid)
  PROVE  LinksInv'
<1>0. PICK A, o, status :
        A = Aliases(oid) /\ o = Len(objects) + 1 /\ status = StatusOf(A)
  OBVIOUS
<1>1. /\ g_pc = "objects" /\ g_pc' = "objects" /\ [files |-> oid] \in to_normalize
      /\ to_normalize' = to_normalize \ {[files |-> oid]}
      /\ \E r : r.status = status /\ objects' = Append(objects, r)
      /\ object_index' = [i \in Nodes |-> IF i \in A THEN o ELSE object_index[i]]
      /\ indeterminate' = indeterminate + (IF status = "Indeterminate" THEN 1 ELSE 0)
      /\ UNCHANGED facts /\ table' = table /\ GTypes
  BY <1>0 DEF NormalizeFileObject, KnowledgeInv, facts, StatusOf, ObjectRecord
<1>2. /\ Nodes' = Nodes /\ FileOids' = FileOids /\ Anonymous' = Anonymous
      /\ \A i : (IsFile(i) <=> IsFile(i)') /\ (IsDir(i) <=> IsDir(i)')
      /\ \A B : Evidence(B)' = Evidence(B)
      /\ \A x : Aliases(x)' = Aliases(x) /\ (Doubtful(x)' <=> Doubtful(x))
  BY <1>1, TableKept, EvidenceKept
<1>3. \A x : (Judged(x)' <=> Judged(x) \/ x = oid) /\ ~Judged(oid)
  BY <1>1, KeysDiffer DEF Judged
<1>4. status = Evidence(A)
  <2>1. A \subseteq Nodes /\ \A i \in A : table[i].link \in LinkCounts
    BY <1>0, <1>1, LinksAreTyped DEF Aliases
  <2> QED BY <1>0, <1>1, <2>1, StatusIsEvidence
<1>5. /\ IsVector(objects') /\ Len(objects') = o /\ objects'[o].status = status
      /\ \A k \in 1..Len(objects) : objects'[k] = objects[k]
      /\ Len(objects) \in Nat /\ o \in Nat
  <2>1. IsVector(objects) /\ Len(objects) \in Nat
    BY DEF LinksInv, IsVector
  <2> QED BY <1>0, <1>1, <2>1, VectorAppended
<1>6. /\ object_index \in Seq(Nat) /\ Len(object_index) = Len(table)
      /\ object_index' \in Seq(Nat) /\ Len(object_index') = Len(table)
      /\ \A i \in Nodes : object_index'[i] = IF i \in A THEN o ELSE object_index[i]
  <2>1. object_index \in Seq(Nat) /\ Len(object_index) = Len(table) /\ Len(table) \in Nat
    BY <1>1 DEF LinksInv, GTypes
  <2>2. \A i \in 1..Len(table) : object_index[i] \in Nat
    BY <2>1
  <2>3. object_index' \in [1..Len(table) -> Nat]
    BY <1>1, <1>5, <2>2 DEF Nodes
  <2>4. object_index' \in Seq(Nat) /\ Len(object_index') = Len(table)
    BY <2>1, <2>3, SMTT(60)
  <2>5. \A i \in Nodes : object_index'[i] = IF i \in A THEN o ELSE object_index[i]
    BY <1>1
  <2> QED BY <2>1, <2>4, <2>5
<1>7. \A i \in Nodes : IsFile(i) => (i \in A <=> table[i].oid = oid)
  BY <1>0 DEF Aliases
<1>8. ASSUME NEW i \in Nodes, IsFile(i), table[i].oid # None
      PROVE  IF Judged(table[i].oid)'
             THEN /\ object_index'[i] \in 1..Len(objects')
                  /\ objects'[object_index'[i]].status = Evidence(Aliases(table[i].oid))
             ELSE object_index'[i] = 0
  <2>1. CASE table[i].oid = oid
    <3>1. object_index'[i] = o
      BY <1>6, <1>7, <1>8, <2>1
    <3>2. Judged(table[i].oid)'
      BY <1>1, <1>3, <2>1
    <3> QED BY <1>0, <1>4, <1>5, <2>1, <3>1, <3>2
  <2>2. CASE table[i].oid # oid
    <3>0. object_index'[i] = object_index[i]
      BY <1>6, <1>7, <1>8, <2>2
    <3>1. object_index'[i] = object_index[i] /\ (Judged(table[i].oid)' <=> Judged(table[i].oid))
      BY <1>1, <1>3, <2>2, <3>0
    <3>2. IF Judged(table[i].oid)
          THEN /\ object_index[i] \in 1..Len(objects)
               /\ objects[object_index[i]].status = Evidence(Aliases(table[i].oid))
          ELSE object_index[i] = 0
      BY <1>1, <1>8 DEF LinksInv
    <3>3. CASE Judged(table[i].oid)
      <4>1. /\ object_index[i] \in 1..Len(objects)
            /\ objects[object_index[i]].status = Evidence(Aliases(table[i].oid))
        BY <3>2, <3>3
      <4>2. object_index[i] \in 1..o
        BY <1>0, <1>5, <4>1
      <4> QED BY <1>5, <3>1, <3>3, <4>1, <4>2
    <3>4. CASE ~Judged(table[i].oid)
      BY <3>1, <3>2, <3>4
    <3> QED BY <3>3, <3>4
  <2> QED BY <2>1, <2>2
<1>9. \A i \in Anonymous : object_index'[i] = 0
  <2>1. \A i \in Anonymous : i \in Nodes /\ i \notin A /\ object_index[i] = 0
    BY <1>1, <1>7 DEF Anonymous, LinksInv, FileOids
  <2> QED BY <1>6, <2>1
<1>10. indeterminate' = Cardinality({x \in FileOids : Judged(x)' /\ Doubtful(x)'})
  <2>1. PICK D, E : /\ D = {x \in FileOids : Judged(x) /\ Doubtful(x)}
                    /\ E = {x \in FileOids : Judged(x)' /\ Doubtful(x)'}
    OBVIOUS
  <2>2. IsFiniteSet(D) /\ oid \notin D /\ indeterminate = Cardinality(D)
    BY <1>1, <1>3, <2>1, LinksAreTyped, FS_Subset DEF LinksInv
  <2>3. status = "Indeterminate" <=> Doubtful(oid)
    BY <1>0, <1>4 DEF Doubtful
  <2>4. CASE Doubtful(oid)
    <3>1. E = D \union {oid}
      BY <1>2, <1>3, <2>1, <2>4
    <3> QED BY <1>1, <2>1, <2>2, <2>3, <2>4, <3>1, FS_AddElement
  <2>5. CASE ~Doubtful(oid)
    <3>1. E = D
      BY <1>2, <1>3, <2>1, <2>5
    <3>2. Cardinality(D) \in Nat
      BY <2>2, FS_CardinalityType
    <3>3. indeterminate' = indeterminate + 0
      BY <1>1, <2>3, <2>5
    <3>4. indeterminate' = Cardinality(E)
      BY <2>2, <3>1, <3>2, <3>3
    <3> QED BY <2>1, <3>4
  <2> QED BY <2>4, <2>5
<1>11. \A i \in Nodes : [dir |-> i] \in to_normalize' => IsDir(i)'
  BY <1>1, <1>2 DEF LinksInv
<1> QED BY <1>1, <1>2, <1>5, <1>6, <1>8, <1>9, <1>10, <1>11 DEF LinksInv

\* The object of a directory is nobody's alias.
LEMMA NormalizeDirectoryKeepsLinks ==
  ASSUME KnowledgeInv, LinksInv, NEW d \in Nodes, NormalizeDirectory(d)
  PROVE  LinksInv'
<1>1. /\ g_pc = "objects" /\ g_pc' = "objects" /\ [dir |-> d] \in to_normalize
      /\ to_normalize' = to_normalize \ {[dir |-> d]}
      /\ \E r : objects' = Append(objects, r)
      /\ object_index' = [object_index EXCEPT ![d] = Len(objects) + 1]
      /\ UNCHANGED <<facts, indeterminate>> /\ table' = table /\ GTypes
  BY DEF NormalizeDirectory, KnowledgeInv, facts
<1>2. /\ Nodes' = Nodes /\ FileOids' = FileOids /\ Anonymous' = Anonymous
      /\ \A i : (IsFile(i) <=> IsFile(i)') /\ (IsDir(i) <=> IsDir(i)')
      /\ \A B : Evidence(B)' = Evidence(B)
      /\ \A x : Aliases(x)' = Aliases(x) /\ (Doubtful(x)' <=> Doubtful(x))
  BY <1>1, TableKept, EvidenceKept
<1>3. \A x : Judged(x)' <=> Judged(x)
  BY <1>1, KeysDiffer DEF Judged
<1>4. /\ IsVector(objects') /\ Len(objects') = Len(objects) + 1 /\ Len(objects) \in Nat
      /\ \A k \in 1..Len(objects) : objects'[k] = objects[k]
  <2>1. IsVector(objects) /\ Len(objects) \in Nat
    BY DEF LinksInv, IsVector
  <2> QED BY <1>1, <2>1, VectorAppended
<1>5. IsDir(d) /\ \A i \in Nodes : IsFile(i) => i # d
  BY <1>1 DEF LinksInv, IsDir, IsFile
<1>6. /\ object_index' \in Seq(Nat) /\ Len(object_index') = Len(table)
      /\ \A i \in Nodes : i # d => object_index'[i] = object_index[i]
  <2>1. object_index \in Seq(Nat) /\ Nodes = 1..Len(object_index)
        /\ Len(object_index) = Len(table)
    BY <1>1 DEF LinksInv, Nodes
  <2> QED BY <1>1, <1>4, <2>1, ExceptSeq
<1>7. ASSUME NEW i \in Nodes, IsFile(i), table[i].oid # None
      PROVE  IF Judged(table[i].oid)'
             THEN /\ object_index'[i] \in 1..Len(objects')
                  /\ objects'[object_index'[i]].status = Evidence(Aliases(table[i].oid))
             ELSE object_index'[i] = 0
  <2>0. object_index'[i] = object_index[i]
    BY <1>5, <1>6, <1>7
  <2>1. object_index'[i] = object_index[i] /\ (Judged(table[i].oid)' <=> Judged(table[i].oid))
    BY <1>1, <1>3, <2>0
  <2>2. IF Judged(table[i].oid)
        THEN /\ object_index[i] \in 1..Len(objects)
             /\ objects[object_index[i]].status = Evidence(Aliases(table[i].oid))
        ELSE object_index[i] = 0
    BY <1>1, <1>7 DEF LinksInv
  <2>3. \A k \in 1..Len(objects) : k \in 1..Len(objects') /\ objects'[k] = objects[k]
    BY <1>4
  <2> QED BY <2>1, <2>2, <2>3
<1>8. \A i \in Anonymous : object_index'[i] = 0
  <2>1. \A i \in Anonymous : i \in Nodes /\ i # d /\ object_index[i] = 0
    BY <1>1, <1>5 DEF Anonymous, LinksInv
  <2> QED BY <1>6, <2>1
<1>9. indeterminate' = Cardinality({x \in FileOids : Judged(x)' /\ Doubtful(x)'})
  <2>1. {x \in FileOids : Judged(x)' /\ Doubtful(x)'}
        = {x \in FileOids : Judged(x) /\ Doubtful(x)}
    BY <1>2, <1>3
  <2> QED BY <1>1, <2>1 DEF LinksInv
<1>10. \A i \in Nodes : [dir |-> i] \in to_normalize' => IsDir(i)'
  BY <1>1, <1>2 DEF LinksInv
<1> QED BY <1>1, <1>2, <1>4, <1>6, <1>7, <1>8, <1>9, <1>10, SMTT(60) DEF LinksInv

\* A file without identity is judged by its own link count.
LEMMA AccountKeepsLinks ==
  ASSUME KnowledgeInv, LinksInv, AccountIdentityLess
  PROVE  LinksInv'
<1>0. PICK anonymous, linked :
        /\ anonymous = {i \in Nodes : IsFile(i) /\ object_index[i] = 0}
        /\ linked = {i \in anonymous : table[i].link # NotObserved}
  OBVIOUS
<1>a. \E e : /\ e = [k \in 1..Cardinality(linked) |-> e[k]]
             /\ objects' = objects \o e
  <2> DEFINE nth(k) ==
        table[CHOOSE i \in linked : Cardinality({j \in linked : j <= i}) = k]
      record(k) == ObjectRecord(None, 1, nth(k).link, derive(nth(k).link, 1),
                                value(nth(k).alloc))
      recorded == [k \in 1..Cardinality(linked) |-> record(k)]
  <2>1. objects' = objects \o recorded
    BY <1>0 DEF AccountIdentityLess
  <2> HIDE DEF record
  <2>2. recorded = [k \in 1..Cardinality(linked) |-> recorded[k]]
    BY SMTT(60)
  <2> HIDE DEF recorded
  <2> QED BY <2>1, <2>2
<1>1. /\ g_pc = "objects" /\ g_pc' = "walk" /\ to_normalize = {}
      /\ object_index' =
           [i \in Nodes |-> IF i \in linked
                            THEN Len(objects) + Cardinality({j \in linked : j <= i})
                            ELSE object_index[i]]
      /\ indeterminate' =
           indeterminate + Cardinality({i \in anonymous :
                             derive(table[i].link, 1) = "Indeterminate"})
      /\ UNCHANGED <<facts, to_normalize>> /\ table' = table /\ GTypes
  BY <1>0 DEF AccountIdentityLess, KnowledgeInv, facts
<1>2. /\ Nodes' = Nodes /\ FileOids' = FileOids /\ Anonymous' = Anonymous
      /\ \A i : (IsFile(i) <=> IsFile(i)') /\ (IsDir(i) <=> IsDir(i)')
      /\ \A B : Evidence(B)' = Evidence(B)
      /\ \A x : Aliases(x)' = Aliases(x) /\ (Doubtful(x)' <=> Doubtful(x))
  BY <1>1, TableKept, EvidenceKept
<1>3. \A x : Judged(x) /\ Judged(x)'
  BY <1>1 DEF Judged
<1>4. \A i \in Nodes : IsFile(i) /\ table[i].oid # None =>
        /\ object_index[i] \in 1..Len(objects)
        /\ objects[object_index[i]].status = Evidence(Aliases(table[i].oid))
  BY <1>1, <1>3 DEF LinksInv
<1>5. Len(objects) \in Nat /\ IsVector(objects)
  BY DEF LinksInv, IsVector
<1>6. anonymous = Anonymous /\ linked \subseteq Anonymous /\ Anonymous \subseteq Nodes
  <2>1. \A i \in Nodes : IsFile(i) => (object_index[i] = 0 <=> table[i].oid = None)
    BY <1>1, <1>4, <1>5 DEF LinksInv, Anonymous
  <2> QED BY <1>0, <2>1 DEF Anonymous
<1>7. IsFiniteSet(linked) /\ Cardinality(linked) \in Nat
  BY <1>1, <1>6, LinksAreTyped, FS_Subset, FS_CardinalityType
<1>8. /\ IsVector(objects') /\ Len(objects') \in Nat /\ Len(objects') >= Len(objects)
      /\ \A k \in 1..Len(objects) : objects'[k] = objects[k]
  <2>1. PICK e : /\ e = [k \in 1..Cardinality(linked) |-> e[k]]
                 /\ objects' = objects \o e
    BY <1>a
  <2>2. Len(e) = Cardinality(linked)
    BY <1>7, <2>1
  <2>3. IsVector(e)
    BY <1>7, <2>1, <2>2 DEF IsVector
  <2> QED BY <1>5, <1>7, <2>1, <2>2, <2>3, VectorExtended
<1>9. /\ object_index' \in Seq(Nat) /\ Len(object_index') = Len(table)
      /\ \A i \in Nodes : i \notin Anonymous => object_index'[i] = object_index[i]
  <2>1. object_index \in Seq(Nat) /\ Len(object_index) = Len(table) /\ Len(table) \in Nat
    BY <1>1 DEF LinksInv, GTypes
  <2>2. \A i : Cardinality({j \in linked : j <= i}) \in Nat
    <3>1. \A i : {j \in linked : j <= i} \in SUBSET linked
      OBVIOUS
    <3>2. \A S \in SUBSET linked : Cardinality(S) \in Nat
      BY <1>7, FS_Subset, FS_CardinalityType
    <3> QED BY <3>1, <3>2
  <2>3. \A i \in 1..Len(table) : object_index[i] \in Nat
    BY <2>1
  <2>4. object_index' \in [1..Len(table) -> Nat]
    <3>1. PICK count : count = [i \in Nodes |-> Cardinality({j \in linked : j <= i})]
      OBVIOUS
    <3>2. object_index' = [i \in 1..Len(table) |-> IF i \in linked THEN Len(objects) + count[i]
                                                   ELSE object_index[i]]
      BY <1>1, <3>1 DEF Nodes
    <3>3. \A i \in 1..Len(table) : count[i] \in Nat
      BY <2>2, <3>1 DEF Nodes
    <3> QED BY <1>5, <2>3, <3>2, <3>3
  <2>5. object_index' \in Seq(Nat) /\ Len(object_index') = Len(table)
    BY <2>1, <2>4, SMTT(60)
  <2>6. \A i \in Nodes : i \notin linked => object_index'[i] = object_index[i]
    BY <1>1
  <2> QED BY <1>6, <2>5, <2>6
<1>10. \A i \in Nodes : IsFile(i) /\ table[i].oid # None =>
         /\ object_index'[i] \in 1..Len(objects')
         /\ objects'[object_index'[i]].status = Evidence(Aliases(table[i].oid))
  <2>1. \A i \in Nodes : IsFile(i) /\ table[i].oid # None => i \notin Anonymous
    BY DEF Anonymous
  <2>2. \A k \in 1..Len(objects) : k \in 1..Len(objects')
    BY <1>5, <1>8
  <2> QED BY <1>4, <1>8, <1>9, <2>1, <2>2, SMTT(60)
<1>11. \A i \in Anonymous : derive(table[i].link, 1) = "Indeterminate"
                            <=> Evidence({i}) = "Indeterminate"
  <2>1. ASSUME NEW i \in Anonymous
        PROVE  derive(table[i].link, 1) = Evidence({i})
    <3>1. i \in Nodes /\ table[i].link \in LinkCounts
      BY <1>1, LinksAreTyped DEF Anonymous
    <3>2. Cardinality({i}) = 1
      BY FS_Singleton
    <3>3. CASE table[i].link.knows = "Known"
      <4>1. {table[j].link : j \in {k \in {i} : table[k].link.knows = "Known"}}
            = {table[i].link}
        BY <3>3
      <4>2. Cardinality({table[i].link}) = 1 /\ (CHOOSE l \in {table[i].link} : TRUE) = table[i].link
        BY FS_Singleton
      <4> QED BY <3>2, <4>1, <4>2 DEF Evidence
    <3>4. CASE table[i].link.knows # "Known"
      <4>1. {table[j].link : j \in {k \in {i} : table[k].link.knows = "Known"}} = {}
        BY <3>4
      <4>2. Evidence({i}) = IF /\ table[i].link.knows # "Unavailable"
                               /\ table[i].link.knows = "NotApplicable"
                            THEN "NotApplicable" ELSE "Indeterminate"
        BY <4>1, FS_EmptySet DEF Evidence
      <4> QED BY <3>1, <3>4, <4>2 DEF derive, LinkCounts
    <3> QED BY <3>3, <3>4
  <2> QED BY <2>1
<1>12. indeterminate' = Cardinality({x \in FileOids : Doubtful(x)'})
                        + Cardinality({i \in Anonymous : Evidence({i})' = "Indeterminate"})
  <2>1. {x \in FileOids : Judged(x) /\ Doubtful(x)} = {x \in FileOids : Doubtful(x)'}
    BY <1>2, <1>3
  <2>2. {i \in anonymous : derive(table[i].link, 1) = "Indeterminate"}
        = {i \in Anonymous : Evidence({i})' = "Indeterminate"}
    BY <1>2, <1>6, <1>11
  <2>3. indeterminate = Cardinality({x \in FileOids : Judged(x) /\ Doubtful(x)})
    BY <1>1 DEF LinksInv
  <2> QED BY <1>1, <2>1, <2>2, <2>3
<1> QED BY <1>1, <1>2, <1>3, <1>8, <1>9, <1>10, <1>12 DEF LinksInv

\* From then on the objects stand.
LEMMA LinksStand ==
  ASSUME KnowledgeInv, LinksInv,
         UNCHANGED <<facts, to_normalize, objects, object_index, indeterminate>>,
         \/ g_pc \notin {"ingesting", "objects"} /\ g_pc' \notin {"ingesting", "objects"}
         \/ g_pc' = g_pc
  PROVE  LinksInv'
<1>1. /\ Nodes' = Nodes /\ FileOids' = FileOids /\ Anonymous' = Anonymous
      /\ \A i : (IsFile(i) <=> IsFile(i)') /\ (IsDir(i) <=> IsDir(i)')
      /\ \A B : Evidence(B)' = Evidence(B)
      /\ \A x : Aliases(x)' = Aliases(x) /\ (Doubtful(x)' <=> Doubtful(x))
      /\ table' = table
  BY TableKept, EvidenceKept DEF facts
<1>2. /\ \A x : Judged(x)' <=> Judged(x)
      /\ g_pc' = "ingesting" <=> g_pc = "ingesting"
      /\ g_pc' = "objects" <=> g_pc = "objects"
  BY DEF Judged
<1>3. /\ IsVector(objects')
      /\ g_pc' = "ingesting" => indeterminate' = 0 /\ objects' = <<>>
  BY <1>2 DEF LinksInv
<1>4. g_pc # "ingesting" =>
        /\ object_index' \in Seq(Nat) /\ Len(object_index') = Len(table)
        /\ \A i \in Nodes : IsFile(i) /\ table[i].oid # None =>
             IF Judged(table[i].oid)
             THEN /\ object_index'[i] \in 1..Len(objects')
                  /\ objects'[object_index'[i]].status = Evidence(Aliases(table[i].oid))
             ELSE object_index'[i] = 0
  BY DEF LinksInv
<1>5. g_pc = "objects" =>
        /\ \A i \in Nodes : [dir |-> i] \in to_normalize' => IsDir(i)
        /\ \A i \in Anonymous : object_index'[i] = 0
        /\ indeterminate' = Cardinality({x \in FileOids : Judged(x)' /\ Doubtful(x)'})
  <2>1. {x \in FileOids : Judged(x)' /\ Doubtful(x)'}
        = {x \in FileOids : Judged(x) /\ Doubtful(x)}
    BY <1>1, <1>2
  <2> QED BY <2>1 DEF LinksInv
<1>6. g_pc \notin {"ingesting", "objects"} =>
        indeterminate' = Cardinality({x \in FileOids : Doubtful(x)'})
                         + Cardinality({i \in Anonymous : Evidence({i})' = "Indeterminate"})
  <2>1. /\ {x \in FileOids : Doubtful(x)'} = {x \in FileOids : Doubtful(x)}
        /\ {i \in Anonymous : Evidence({i})' = "Indeterminate"}
           = {i \in Anonymous : Evidence({i}) = "Indeterminate"}
    BY <1>1
  <2> QED BY <2>1 DEF LinksInv
<1> QED BY <1>1, <1>2, <1>3, <1>4, <1>5, <1>6 DEF LinksInv

\* Every step of the builder and of compute_aggregates.
LEMMA LinksSteps ==
  ASSUME KnowledgeInv, LinksInv, [ANext]_gvars
  PROVE  LinksInv'
<1>1. ASSUME NEW row \in AllRows, NEW p \in 0..Len(table), Ingest(row, p)
      PROVE  LinksInv'
  <2>1. /\ g_pc = "ingesting" /\ g_pc' = "ingesting"
        /\ UNCHANGED <<objects, indeterminate>>
    BY <1>1 DEF Ingest
  <2> QED BY <2>1 DEF LinksInv
<1>2. CASE Begin
  BY <1>2, BeginKeepsLinks
<1>3. ASSUME NEW oid \in FileOids, NormalizeFileObject(oid) PROVE LinksInv'
  BY <1>3, NormalizeFileKeepsLinks
<1>4. ASSUME NEW d \in Nodes, NormalizeDirectory(d) PROVE LinksInv'
  BY <1>4, NormalizeDirectoryKeepsLinks
<1>5. CASE AccountIdentityLess
  BY <1>5, AccountKeepsLinks
<1>6. CASE Descend
  BY <1>6, LinksStand DEF Descend, evidence
<1>7. CASE Leave
  BY <1>7, LinksStand DEF Leave, evidence
<1>8. CASE SetLeaves
  BY <1>8, LinksStand DEF SetLeaves, evidence
<1>9. CASE AggregateDirectory
  BY <1>9, LinksStand DEF AggregateDirectory
<1>10. CASE CutSlices
  BY <1>10, LinksStand DEF CutSlices, evidence
<1>11. CASE UNCHANGED gvars
  BY <1>11, LinksStand DEF gvars, evidence
<1> QED BY <1>1, <1>2, <1>3, <1>4, <1>5, <1>6, <1>7, <1>8, <1>9, <1>10, <1>11
        DEF ANext, Compute, AllRows

\* Objects are recorded once, judged by all of their entries, and counted when
\* in doubt (phase 1 of compute_aggregates).
THEOREM LinksInvariant == ASpec => []LinksInv
BY LinksStart, LinksSteps, KnowledgeInvariant, PTL DEF ASpec

\* However the entries of an object arrived, its status is the one their
\* evidence supports, and indeterminate_objects counts what is in doubt.
THEOREM LinksAreJudged == ASpec => []LinksJudged
<1>1. ASSUME KnowledgeInv, LinksInv, g_pc = "graph" PROVE LinksJudged
  <2>1. to_normalize = {} /\ \A x : Judged(x)
    BY <1>1 DEF KnowledgeInv, InPhase, Judged
  <2>2. \A oid \in FileOids : \A i \in Aliases(oid) :
          objects[object_index[i]].status = Evidence(Aliases(oid))
    <3>1. \A oid \in FileOids : \A i \in Aliases(oid) :
            i \in Nodes /\ IsFile(i) /\ table[i].oid = oid /\ oid # None
      BY DEF Aliases, FileOids
    <3> QED BY <1>1, <2>1, <3>1, SMTT(60) DEF LinksInv
  <2>3. {oid \in FileOids : Evidence(Aliases(oid)) = "Indeterminate"}
        = {oid \in FileOids : Doubtful(oid)}
    BY DEF Doubtful
  <2>4. {i \in Nodes : /\ IsFile(i) /\ table[i].oid = None
                       /\ Evidence({i}) = "Indeterminate"}
        = {i \in Anonymous : Evidence({i}) = "Indeterminate"}
    BY DEF Anonymous
  <2> QED BY <1>1, <2>2, <2>3, <2>4 DEF LinksInv, LinksJudged
<1>2. KnowledgeInv /\ LinksInv => LinksJudged
  BY <1>1 DEF LinksJudged
<1> QED BY <1>2, KnowledgeInvariant, LinksInvariant, PTL
---------------------------------------------------------------------------
(* Sums *)

\* Induction over the subsets of a finite set, for a property given as the set
\* of those that have it: a set has it if each set with one element less has.
LEMMA BySize ==
  ASSUME NEW S, IsFiniteSet(S), NEW P, {} \in P,
         \A s \in SUBSET S : s # {} /\ (\A x \in s : s \ {x} \in P) => s \in P
  PROVE  SUBSET S \subseteq P
<1>1. Cardinality(S) \in Nat
  BY FS_CardinalityType
<1>2. \A s \in SUBSET S : IsFiniteSet(s) /\ Cardinality(s) \in 0..Cardinality(S)
  <2>1. ASSUME NEW s \in SUBSET S PROVE IsFiniteSet(s) /\ Cardinality(s) \in 0..Cardinality(S)
    <3>1. IsFiniteSet(s) /\ Cardinality(s) <= Cardinality(S)
      BY FS_Subset
    <3>2. Cardinality(s) \in Nat
      BY <3>1, FS_CardinalityType
    <3> QED BY <1>1, <3>1, <3>2
  <2> QED BY <2>1
<1>3. PICK K : K = {k \in 0..Cardinality(S) : \A s \in SUBSET S : Cardinality(s) = k => s \in P}
  OBVIOUS
<1>4. 0 \in K
  <2>1. ASSUME NEW s \in SUBSET S, Cardinality(s) = 0 PROVE s = {}
    <3>1. IsFiniteSet(s)
      BY <1>2
    <3> QED BY <2>1, <3>1, FS_EmptySet
  <2>2. 0 \in 0..Cardinality(S)
    BY <1>1
  <2>3. \A s \in SUBSET S : Cardinality(s) = 0 => s \in P
    BY <2>1
  <2> QED BY <1>3, <2>2, <2>3, Zenon
<1>5. ASSUME NEW k \in 1..Cardinality(S), k - 1 \in K PROVE k \in K
  <2>1. ASSUME NEW s \in SUBSET S, Cardinality(s) = k PROVE s \in P
    <3>1. s # {}
      BY <2>1, FS_EmptySet
    <3>2. ASSUME NEW x \in s PROVE s \ {x} \in P
      <4>1. Cardinality(s \ {x}) = k - 1
        BY <1>2, <2>1, FS_RemoveElement
      <4>2. s \ {x} \in SUBSET S
        OBVIOUS
      <4> QED BY <1>3, <1>5, <4>1, <4>2
    <3> QED BY <3>1, <3>2
  <2>2. k \in 0..Cardinality(S)
    BY <1>1
  <2> QED BY <1>3, <2>1, <2>2
<1>6. 0..Cardinality(S) \subseteq K
  BY <1>1, <1>4, <1>5, UpTo
<1> QED BY <1>2, <1>3, <1>6

\* What MapThenSumSet computes takes the elements away one by one, in an order
\* of its own.
TakesApart(h, f, S) ==
  h = [s \in SUBSET S |-> IF s = {} THEN 0
                          ELSE f[CHOOSE x \in s : TRUE] + h[s \ {CHOOSE x \in s : TRUE}]]

\* The sum of a finite set is what such a function gives it.
LEMMA SumTakesApart ==
  ASSUME NEW f, NEW S, IsFiniteSet(S)
  PROVE  \E h : TakesApart(h, f, S) /\ SumOver(f, S) = h[S]
<1> DEFINE Step(h, s) == IF s = {} THEN 0
                         ELSE f[CHOOSE x \in s : TRUE] + h[s \ {CHOOSE x \in s : TRUE}]
<1> DEFINE n == Cardinality(S)
<1>1. /\ n \in Nat
      /\ \A s \in SUBSET S : Cardinality(s) \in 0..n
      /\ \A s \in SUBSET S : s # {} => Cardinality(s) \in 1..n
      /\ \A s \in SUBSET S : \A x \in s : Cardinality(s \ {x}) = Cardinality(s) - 1
  <2>1. n \in Nat
    BY FS_CardinalityType
  <2>2. ASSUME NEW s \in SUBSET S
        PROVE  /\ Cardinality(s) \in 0..n
               /\ s # {} => Cardinality(s) \in 1..n
               /\ \A x \in s : Cardinality(s \ {x}) = Cardinality(s) - 1
    <3>1. IsFiniteSet(s) /\ Cardinality(s) <= n
      BY FS_Subset
    <3>2. Cardinality(s) \in Nat
      BY <3>1, FS_CardinalityType
    <3>3. s # {} => Cardinality(s) # 0
      BY <3>1, FS_EmptySet
    <3>4. \A x \in s : Cardinality(s \ {x}) = Cardinality(s) - 1
      BY <3>1, FS_RemoveElement
    <3> QED BY <2>1, <3>1, <3>2, <3>3, <3>4
  <2> QED BY <2>1, <2>2
<1>2. \E h : \A s \in SUBSET S : h[s] = Step(h, s)
  <2>1. PICK K : K = {k \in 0..n : \E h : \A s \in SUBSET S :
                                    Cardinality(s) <= k => h[s] = Step(h, s)}
    OBVIOUS
  <2>2. 0 \in K
    <3>1. PICK h : h = [s \in SUBSET S |-> 0]
      OBVIOUS
    <3>2. \A s \in SUBSET S : Cardinality(s) <= 0 => s = {}
      BY <1>1
    <3>3. \A s \in SUBSET S : Cardinality(s) <= 0 => h[s] = Step(h, s)
      BY <3>1, <3>2
    <3>4. 0 \in 0..n
      BY <1>1
    <3> QED BY <2>1, <3>3, <3>4, Zenon
  <2>3. ASSUME NEW k \in 1..n, k - 1 \in K PROVE k \in K
    <3>1. PICK h : \A s \in SUBSET S : Cardinality(s) <= k - 1 => h[s] = Step(h, s)
      BY <2>1, <2>3
    <3>2. PICK g : g = [s \in SUBSET S |-> IF Cardinality(s) <= k - 1 THEN h[s] ELSE Step(h, s)]
      OBVIOUS
    <3>3. ASSUME NEW s \in SUBSET S, Cardinality(s) <= k PROVE g[s] = Step(g, s)
      <4>1. CASE s = {}
        <5>1. Step(h, s) = 0 /\ Step(g, s) = 0
          BY <4>1
        <5> QED BY <3>1, <3>2, <5>1
      <4>2. CASE s # {}
        <5>1. PICK x : x = CHOOSE y \in s : TRUE
          OBVIOUS
        <5>2. x \in s
          BY <4>2, <5>1
        <5>3. s \ {x} \in SUBSET S /\ Cardinality(s \ {x}) <= k - 1
          BY <1>1, <3>3, <5>2
        <5>4. g[s \ {x}] = h[s \ {x}]
          BY <3>2, <5>3
        <5>5. Step(g, s) = Step(h, s)
          BY <5>1, <5>4
        <5>6. g[s] = Step(h, s)
          BY <3>1, <3>2
        <5> QED BY <5>5, <5>6
      <4> QED BY <4>1, <4>2
    <3>4. k \in 0..n
      BY <1>1
    <3>5. \E e : \A s \in SUBSET S : Cardinality(s) <= k => e[s] = Step(e, s)
      BY <3>3, Zenon
    <3> QED BY <2>1, <3>4, <3>5, Zenon
  <2>4. n \in K
    <3>1. 0..n \subseteq K
      BY <1>1, <2>2, <2>3, UpTo
    <3> QED BY <1>1, <3>1
  <2>5. PICK h : \A s \in SUBSET S : Cardinality(s) <= n => h[s] = Step(h, s)
    BY <2>1, <2>4
  <2>6. \A s \in SUBSET S : Cardinality(s) <= n
    BY <1>1
  <2>7. \A s \in SUBSET S : h[s] = Step(h, s)
    BY <2>5, <2>6
  <2> QED BY <2>7, Zenon
<1>3. PICK h : h = CHOOSE g : TakesApart(g, f, S)
  OBVIOUS
<1>4. TakesApart(h, f, S)
  <2>1. PICK g : \A s \in SUBSET S : g[s] = Step(g, s)
    BY <1>2
  <2>2. PICK r : r = [s \in SUBSET S |-> g[s]]
    OBVIOUS
  <2>3. \A s \in SUBSET S : Step(r, s) = Step(g, s)
    BY <2>2
  <2>4. TakesApart(r, f, S)
    BY <2>1, <2>2, <2>3 DEF TakesApart
  <2> QED BY <1>3, <2>4
<1>5. SumOver(f, S) = h[S]
  BY <1>3 DEF SumOver, MapThenSumSet, MapThenFoldSet, TakesApart
<1> QED BY <1>4, <1>5

\* Which element is taken away first does not matter.
LEMMA AnyFirst ==
  ASSUME NEW f, NEW S, IsFiniteSet(S), \A x \in S : f[x] \in Int,
         NEW h, TakesApart(h, f, S)
  PROVE  /\ h[{}] = 0
         /\ \A s \in SUBSET S : /\ h[s] \in Int
                               /\ \A x \in s : h[s] = f[x] + h[s \ {x}]
<1>1. h[{}] = 0
  BY DEF TakesApart
<1>2. ASSUME NEW s \in SUBSET S, s # {}
      PROVE  \E c \in s : h[s] = f[c] + h[s \ {c}]
  <2>1. PICK c : c = CHOOSE y \in s : TRUE
    OBVIOUS
  <2>2. c \in s
    BY <1>2, <2>1
  <2>3. h[s] = f[c] + h[s \ {c}]
    BY <1>2, <2>1 DEF TakesApart
  <2> QED BY <2>2, <2>3
<1>3. \A s \in SUBSET S : h[s] \in Int
  <2>1. PICK P : P = {s \in SUBSET S : h[s] \in Int}
    OBVIOUS
  <2>2. {} \in P
    BY <1>1, <2>1
  <2>3. ASSUME NEW s \in SUBSET S, s # {}, \A x \in s : s \ {x} \in P PROVE s \in P
    <3>1. PICK c \in s : h[s] = f[c] + h[s \ {c}]
      BY <1>2, <2>3
    <3>2. h[s \ {c}] \in Int /\ f[c] \in Int
      BY <2>1, <2>3
    <3> QED BY <2>1, <3>1, <3>2
  <2>4. SUBSET S \subseteq P
    BY <2>2, <2>3, BySize
  <2> QED BY <2>1, <2>4
<1>4. PICK P : P = {s \in SUBSET S : \A x \in s : h[s] = f[x] + h[s \ {x}]}
  OBVIOUS
<1>5. {} \in P
  BY <1>4
<1>6. ASSUME NEW s \in SUBSET S, s # {}, \A x \in s : s \ {x} \in P
      PROVE  s \in P
  <2>1. PICK c \in s : h[s] = f[c] + h[s \ {c}]
    BY <1>2, <1>6
  <2>2. ASSUME NEW x \in s, x # c PROVE h[s] = f[x] + h[s \ {x}]
    <3>1. f[x] \in Int /\ f[c] \in Int /\ x \in s \ {c} /\ c \in s \ {x}
      BY <2>2
    <3>2. h[s \ {c}] = f[x] + h[(s \ {c}) \ {x}]
      BY <1>4, <1>6, <3>1
    <3>3. h[s \ {x}] = f[c] + h[(s \ {x}) \ {c}]
      BY <1>4, <1>6, <3>1
    <3>4. (s \ {c}) \ {x} = (s \ {x}) \ {c}
      OBVIOUS
    <3>5. h[(s \ {c}) \ {x}] \in Int
      BY <1>3
    <3>6. PICK m \in Int : m = h[(s \ {c}) \ {x}]
      BY <3>5
    <3>7. h[s \ {c}] = f[x] + m /\ h[s \ {x}] = f[c] + m
      BY <3>2, <3>3, <3>4, <3>6
    <3>8. f[c] + (f[x] + m) = f[x] + (f[c] + m)
      BY <3>1
    <3> QED BY <2>1, <3>7, <3>8
  <2>3. \A x \in s : h[s] = f[x] + h[s \ {x}]
    BY <2>1, <2>2
  <2> QED BY <1>4, <2>3
<1>7. SUBSET S \subseteq P
  BY <1>5, <1>6, BySize
<1> QED BY <1>1, <1>3, <1>4, <1>7

\* A function that takes its sets apart holds the sums of all of them.
LEMMA SumsOfSubsets ==
  ASSUME NEW f, NEW S, IsFiniteSet(S), \A x \in S : f[x] \in Int,
         NEW h, TakesApart(h, f, S)
  PROVE  \A s \in SUBSET S : SumOver(f, s) = h[s]
<1>1. PICK P : P = {s \in SUBSET S : \A g \in {SumOver(f, s)} : g = h[s]}
  OBVIOUS
<1>2. /\ h[{}] = 0
      /\ \A s \in SUBSET S : \A x \in s : h[s] = f[x] + h[s \ {x}]
  BY AnyFirst
<1>3. ASSUME NEW s \in SUBSET S PROVE SumOver(f, s) = h[s]
  <2>1. IsFiniteSet(s) /\ \A x \in s : f[x] \in Int
    BY FS_Subset
  <2>2. PICK g : TakesApart(g, f, s) /\ SumOver(f, s) = g[s]
    BY <2>1, SumTakesApart
  <2>3. /\ g[{}] = 0
        /\ \A r \in SUBSET s : \A x \in r : g[r] = f[x] + g[r \ {x}]
    BY <2>1, <2>2, AnyFirst
  <2>4. PICK Q : Q = {r \in SUBSET s : g[r] = h[r]}
    OBVIOUS
  <2>5. {} \in Q
    BY <1>2, <2>3, <2>4
  <2>6. ASSUME NEW r \in SUBSET s, r # {}, \A x \in r : r \ {x} \in Q PROVE r \in Q
    <3>1. PICK x \in r : TRUE
      BY <2>6
    <3>2. g[r] = f[x] + g[r \ {x}]
      BY <2>3
    <3>3. r \in SUBSET S
      OBVIOUS
    <3>4. h[r] = f[x] + h[r \ {x}]
      BY <1>2, <3>3
    <3>5. g[r \ {x}] = h[r \ {x}]
      BY <2>4, <2>6
    <3> QED BY <2>4, <3>2, <3>4, <3>5
  <2>7. SUBSET s \subseteq Q
    BY <2>1, <2>5, <2>6, BySize
  <2>8. s \in Q
    BY <2>7
  <2> QED BY <2>2, <2>4, <2>8
<1> QED BY <1>3

\* Sums over finite sets of integers: of nothing, and with one summand taken
\* out.
LEMMA SumOfNothing ==
  ASSUME NEW f
  PROVE  SumOver(f, {}) = 0
<1>1. IsFiniteSet({}) /\ \A x \in {} : f[x] \in Int
  BY FS_EmptySet
<1>2. PICK h : TakesApart(h, f, {}) /\ SumOver(f, {}) = h[{}]
  BY <1>1, SumTakesApart
<1> QED BY <1>1, <1>2, AnyFirst

\* Any element can be taken out of a sum.
LEMMA SumWithout ==
  ASSUME NEW f, NEW S, IsFiniteSet(S), \A x \in S : f[x] \in Int
  PROVE  /\ SumOver(f, S) \in Int
         /\ \A x \in S : SumOver(f, S) = f[x] + SumOver(f, S \ {x})
<1>1. PICK h : TakesApart(h, f, S) /\ SumOver(f, S) = h[S]
  BY SumTakesApart
<1>2. \A s \in SUBSET S : /\ h[s] \in Int
                         /\ \A x \in s : h[s] = f[x] + h[s \ {x}]
  <2>1. TakesApart(h, f, S)
    BY <1>1
  <2>2. ASSUME NEW s \in SUBSET S, NEW x \in s PROVE h[s] = f[x] + h[s \ {x}]
    BY <2>1, AnyFirst, SMTT(30)
  <2>3. \A s \in SUBSET S : h[s] \in Int
    BY <2>1, AnyFirst
  <2> QED BY <2>2, <2>3
<1>3. \A s \in SUBSET S : SumOver(f, s) = h[s]
  BY <1>1, SumsOfSubsets
<1>4. S \in SUBSET S /\ \A x \in S : S \ {x} \in SUBSET S
  OBVIOUS
<1> QED BY <1>2, <1>3, <1>4

\* Sums of naturals are naturals.
LEMMA SumIsNat ==
  ASSUME NEW f, NEW S, IsFiniteSet(S), \A x \in S : f[x] \in Nat
  PROVE  SumOver(f, S) \in Nat
<1>1. PICK P : P = {s \in SUBSET S : SumOver(f, s) \in Nat}
  OBVIOUS
<1>2. {} \in P
  BY <1>1, SumOfNothing
<1>3. ASSUME NEW s \in SUBSET S, s # {}, \A x \in s : s \ {x} \in P PROVE s \in P
  <2>1. PICK x \in s : TRUE
    BY <1>3
  <2>2. IsFiniteSet(s) /\ \A y \in s : f[y] \in Int
    BY FS_Subset
  <2>3. SumOver(f, s) = f[x] + SumOver(f, s \ {x})
    BY <2>2, SumWithout
  <2>4. SumOver(f, s \ {x}) \in Nat /\ f[x] \in Nat
    BY <1>1, <1>3
  <2> QED BY <1>1, <2>3, <2>4
<1>4. SUBSET S \subseteq P
  BY <1>2, <1>3, BySize
<1> QED BY <1>1, <1>4

\* A sum depends on its summands only.
LEMMA SameSum ==
  ASSUME NEW f, NEW g, NEW S, IsFiniteSet(S), \A x \in S : f[x] \in Int /\ g[x] = f[x]
  PROVE  SumOver(g, S) = SumOver(f, S)
<1>1. PICK P : P = {s \in SUBSET S : SumOver(g, s) = SumOver(f, s)}
  OBVIOUS
<1>2. {} \in P
  BY <1>1, SumOfNothing
<1>3. ASSUME NEW s \in SUBSET S, s # {}, \A x \in s : s \ {x} \in P PROVE s \in P
  <2>1. PICK x \in s : TRUE
    BY <1>3
  <2>2. IsFiniteSet(s) /\ \A y \in s : f[y] \in Int /\ g[y] \in Int
    BY FS_Subset
  <2>3. SumOver(f, s) = f[x] + SumOver(f, s \ {x})
    BY <2>2, SumWithout
  <2>4. SumOver(g, s) = g[x] + SumOver(g, s \ {x})
    BY <2>2, SumWithout
  <2>5. SumOver(g, s \ {x}) = SumOver(f, s \ {x})
    BY <1>1, <1>3
  <2>6. g[x] = f[x]
    OBVIOUS
  <2> QED BY <1>1, <2>3, <2>4, <2>5, <2>6
<1>4. SUBSET S \subseteq P
  BY <1>2, <1>3, BySize
<1> QED BY <1>1, <1>4

\* The sum over two sets that share nothing.
LEMMA SumOfBoth ==
  ASSUME NEW f, NEW S, NEW T, IsFiniteSet(S), IsFiniteSet(T), S \intersect T = {},
         \A x \in S \union T : f[x] \in Int
  PROVE  SumOver(f, S \union T) = SumOver(f, S) + SumOver(f, T)
<1>1. PICK P : P = {s \in SUBSET S : SumOver(f, s \union T) = SumOver(f, s) + SumOver(f, T)}
  OBVIOUS
<1>2. SumOver(f, T) \in Int
  BY SumWithout
<1>3. {} \in P
  <2>1. {} \union T = T
    OBVIOUS
  <2> QED BY <1>1, <1>2, <2>1, SumOfNothing
<1>4. ASSUME NEW s \in SUBSET S, s # {}, \A x \in s : s \ {x} \in P PROVE s \in P
  <2>1. PICK x \in s : TRUE
    BY <1>4
  <2>2. IsFiniteSet(s) /\ IsFiniteSet(s \ {x}) /\ IsFiniteSet(s \union T)
    BY FS_Subset, FS_Union
  <2>3. SumOver(f, s) = f[x] + SumOver(f, s \ {x})
    BY <2>2, SumWithout
  <2>4. SumOver(f, s \union T) = f[x] + SumOver(f, (s \union T) \ {x})
    BY <2>2, SumWithout
  <2>5. (s \union T) \ {x} = (s \ {x}) \union T
    OBVIOUS
  <2>6. SumOver(f, (s \ {x}) \union T) = SumOver(f, s \ {x}) + SumOver(f, T)
    BY <1>1, <1>4
  <2>7. SumOver(f, s \ {x}) \in Int /\ f[x] \in Int
    BY <2>2, SumWithout
  <2>8. SumOver(f, s \union T) = f[x] + (SumOver(f, s \ {x}) + SumOver(f, T))
    BY <2>4, <2>5, <2>6
  <2>9. SumOver(f, s \union T) = SumOver(f, s) + SumOver(f, T)
    BY <1>2, <2>3, <2>7, <2>8
  <2> QED BY <1>1, <2>9
<1>5. SUBSET S \subseteq P
  BY <1>3, <1>4, BySize
<1> QED BY <1>1, <1>5

\* The sum over the union of sets of which no two share an element.
LEMMA SumOfAll ==
  ASSUME NEW f, NEW C, NEW B, IsFiniteSet(C),
         \A c \in C : IsFiniteSet(B[c]) /\ \A x \in B[c] : f[x] \in Int,
         \A c, d \in C : c # d => B[c] \intersect B[d] = {}
  PROVE  /\ IsFiniteSet(UNION {B[c] : c \in C})
         /\ SumOver(f, UNION {B[c] : c \in C})
            = SumOver([c \in C |-> SumOver(f, B[c])], C)
<1>1. PICK g, P : /\ g = [c \in C |-> SumOver(f, B[c])]
                  /\ P = {s \in SUBSET C :
                            /\ IsFiniteSet(UNION {B[c] : c \in s})
                            /\ SumOver(f, UNION {B[c] : c \in s}) = SumOver(g, s)}
  OBVIOUS
<1>2. \A c \in C : g[c] \in Int
  <2>1. \A c \in C : SumOver(f, B[c]) \in Int
    BY SumWithout
  <2> QED BY <1>1, <2>1
<1>3. {} \in P
  <2>1. UNION {B[c] : c \in {}} = {}
    OBVIOUS
  <2> QED BY <1>1, <2>1, SumOfNothing, FS_EmptySet
<1>4. ASSUME NEW s \in SUBSET C, s # {}, \A x \in s : s \ {x} \in P PROVE s \in P
  <2>1. PICK x \in s : TRUE
    BY <1>4
  <2>2. PICK U : U = UNION {B[c] : c \in s \ {x}}
    OBVIOUS
  <2>3. UNION {B[c] : c \in s} = U \union B[x]
    BY <2>2
  <2>4. IsFiniteSet(U) /\ SumOver(f, U) = SumOver(g, s \ {x})
    BY <1>1, <1>4, <2>2
  <2>5. U \intersect B[x] = {}
    BY <2>2
  <2>6. IsFiniteSet(B[x]) /\ \A y \in U \union B[x] : f[y] \in Int
    BY <2>2
  <2>7. SumOver(f, U \union B[x]) = SumOver(f, U) + SumOver(f, B[x])
    BY <2>4, <2>5, <2>6, SumOfBoth
  <2>8. IsFiniteSet(U \union B[x])
    BY <2>4, <2>6, FS_Union
  <2>9. IsFiniteSet(s) /\ IsFiniteSet(s \ {x}) /\ \A c \in s : g[c] \in Int
    BY <1>2, FS_Subset
  <2>10. SumOver(g, s) = g[x] + SumOver(g, s \ {x})
    BY <2>9, SumWithout
  <2>11. SumOver(g, s \ {x}) \in Int /\ g[x] \in Int /\ g[x] = SumOver(f, B[x])
    BY <1>1, <2>9, SumWithout
  <2> QED BY <1>1, <2>3, <2>4, <2>7, <2>8, <2>10, <2>11, SMTT(60)
<1>5. SUBSET C \subseteq P
  BY <1>3, <1>4, BySize
<1> QED BY <1>1, <1>5
---------------------------------------------------------------------------
(* The tree below an entry *)

\* Induction from the root down.
LEMMA FromTheRoot ==
  ASSUME GTypes, TableGrows, NEW P, \A i \in Nodes : (i # 1 => parent[i] \in P) => i \in P
  PROVE  Nodes \subseteq P
<1> SUFFICES ASSUME ~(Nodes \subseteq P) PROVE FALSE
  OBVIOUS
<1>1. PICK T : T = {i \in Nodes : i \notin P}
  OBVIOUS
<1>2. T \subseteq Nat /\ T # {} /\ Len(table) \in Nat
  BY <1>1 DEF Nodes, GTypes
<1>3. PICK i \in T : \A j \in T : i <= j
  BY <1>2, LeastExists
<1>4. i \in Nodes /\ i \notin P /\ i \in Nat
  BY <1>1, <1>2, <1>3
<1>5. i # 1 /\ parent[i] \notin P
  BY <1>4
<1>6. parent[i] \in Nodes /\ parent[i] < i
  <2>1. parent[i] \in 1..(i - 1)
    BY <1>4, <1>5 DEF TableGrows
  <2> QED BY <1>2, <1>4, <2>1 DEF Nodes
<1>7. parent[i] \in T
  BY <1>1, <1>5, <1>6
<1>8. i <= parent[i] /\ parent[i] \in Nat
  BY <1>2, <1>3, <1>7
<1> QED BY <1>4, <1>6, <1>8

\* A parent is older than its children and a directory; only directories have
\* children.
LEMMA ParentsAreOlder ==
  ASSUME GTypes, TableGrows
  PROVE  /\ Nodes \subseteq Nat \ {0} /\ Nodes = 1..Len(table) /\ Len(table) \in Nat
         /\ \A i \in Nodes : i # 1 =>
              parent[i] \in Nodes /\ parent[i] < i /\ IsDir(parent[i])
         /\ \A i \in Nodes : \A c \in ChildrenOf(i) :
              c \in Nodes /\ c # 1 /\ parent[c] = i /\ i < c /\ IsDir(i)
<1>1. Nodes \subseteq Nat \ {0} /\ Nodes = 1..Len(table) /\ Len(table) \in Nat
  BY DEF GTypes, Nodes
<1>2. ASSUME NEW i \in Nodes, i # 1
      PROVE  parent[i] \in Nodes /\ parent[i] < i /\ IsDir(parent[i])
  <2>1. parent[i] \in 1..(i - 1) /\ IsDir(parent[i])
    BY <1>2 DEF TableGrows
  <2> QED BY <1>1, <2>1
<1>3. ASSUME NEW i \in Nodes, NEW c \in ChildrenOf(i)
      PROVE  c \in Nodes /\ c # 1 /\ parent[c] = i /\ i < c /\ IsDir(i)
  <2>1. c \in Nodes /\ parent[c] = i
    BY DEF ChildrenOf
  <2>2. c = 1 => parent[c] = 0
    BY <2>1 DEF TableGrows
  <2>3. c # 1
    BY <1>1, <2>1, <2>2
  <2> QED BY <1>2, <2>1, <2>3
<1> QED BY <1>1, <1>2, <1>3

\* What is above an entry: nothing younger, itself, the root, and with an entry
\* all that is above that one.
LEMMA AboveIsClosed ==
  ASSUME GTypes, TableGrows, NEW i \in Nodes
  PROVE  /\ Above(i) \subseteq Nodes /\ i \in Above(i) /\ 1 \in Above(i)
         /\ \A d \in Above(i) : d <= i
         /\ \A d \in Above(i) : d # i => i # 1 /\ d \in Above(parent[i])
         /\ \A c \in Above(i) : Above(c) \subseteq Above(i)
<1>1. PICK P : P = {j \in Nodes :
        /\ Above(j) \subseteq Nodes /\ j \in Above(j) /\ 1 \in Above(j)
        /\ \A d \in Above(j) : d <= j
        /\ \A c \in Above(j) : Above(c) \subseteq Above(j)}
  OBVIOUS
<1>2. ASSUME NEW j \in Nodes, j # 1 => parent[j] \in P PROVE j \in P
  <2>1. CASE j = 1
    <3>1. Above(j) = {1} /\ 1 \in Nodes
      BY <2>1, AboveIsPath
    <3>2. Above(1) = {1} /\ 1 <= j
      BY <2>1, <3>1
    <3> QED BY <1>1, <2>1, <3>1, <3>2
  <2>2. CASE j # 1
    <3>1. Above(j) = {j} \union Above(parent[j])
      BY <2>2, AboveIsPath
    <3>2. parent[j] \in Nodes /\ parent[j] < j /\ j \in Nat /\ parent[j] \in Nat
          /\ Nodes \subseteq Nat
      BY <2>2, ParentsAreOlder
    <3>3. /\ Above(parent[j]) \subseteq Nodes /\ 1 \in Above(parent[j])
          /\ \A d \in Above(parent[j]) : d <= parent[j]
          /\ \A c \in Above(parent[j]) : Above(c) \subseteq Above(parent[j])
      BY <1>1, <1>2, <2>2
    <3>4. ASSUME NEW d \in Above(j) PROVE d <= j
      <4>1. CASE d = j
        BY <3>2, <4>1
      <4>2. CASE d # j
        <5>1. d \in Nat /\ d <= parent[j]
          BY <3>1, <3>2, <3>3, <4>2
        <5> QED BY <3>2, <5>1
      <4> QED BY <4>1, <4>2
    <3>5. \A c \in Above(j) : Above(c) \subseteq Above(j)
      BY <3>1, <3>3
    <3> QED BY <1>1, <3>1, <3>3, <3>4, <3>5
  <2> QED BY <2>1, <2>2
<1>3. Nodes \subseteq P
  BY <1>2, FromTheRoot
<1>4. \A d \in Above(i) : d # i => i # 1 /\ d \in Above(parent[i])
  <2>1. Above(i) = IF i = 1 THEN {1} ELSE {i} \union Above(parent[i])
    BY AboveIsPath
  <2> QED BY <2>1
<1> QED BY <1>1, <1>3, <1>4

\* The way up from an entry passes one child of each directory on it.
LEMMA OneChildOnTheWay ==
  ASSUME GTypes, TableGrows, NEW i \in Nodes
  PROVE  /\ \A d \in Above(i) : d # i => \E c \in ChildrenOf(d) : c \in Above(i)
         /\ \A b, c \in Above(i) : b # 1 /\ c # 1 /\ parent[b] = parent[c] => b = c
<1>1. PICK P : P = {j \in Nodes :
        /\ \A d \in Above(j) : d # j => \E c \in ChildrenOf(d) : c \in Above(j)
        /\ \A b, c \in Above(j) : b # 1 /\ c # 1 /\ parent[b] = parent[c] => b = c}
  OBVIOUS
<1>2. ASSUME NEW j \in Nodes, j # 1 => parent[j] \in P PROVE j \in P
  <2>1. CASE j = 1
    <3>1. Above(j) = {1}
      BY <2>1, AboveIsPath
    <3> QED BY <1>1, <2>1, <3>1
  <2>2. CASE j # 1
    <3>1. Above(j) = {j} \union Above(parent[j])
      BY <2>2, AboveIsPath
    <3>2. parent[j] \in Nodes /\ parent[j] \in Nat /\ j \in ChildrenOf(parent[j])
      BY <2>2, ParentsAreOlder DEF ChildrenOf
    <3>3. /\ \A d \in Above(parent[j]) : d # parent[j] =>
               \E c \in ChildrenOf(d) : c \in Above(parent[j])
          /\ \A b, c \in Above(parent[j]) : b # 1 /\ c # 1 /\ parent[b] = parent[c] => b = c
      BY <1>1, <1>2, <2>2
    <3>4. ASSUME NEW d \in Above(j), d # j PROVE \E c \in ChildrenOf(d) : c \in Above(j)
      <4>1. CASE d = parent[j]
        BY <3>1, <3>2, <4>1
      <4>2. CASE d # parent[j]
        BY <3>1, <3>3, <3>4, <4>2
      <4> QED BY <4>1, <4>2
    <3>5. ASSUME NEW c \in Above(parent[j]), c # 1 PROVE parent[c] # parent[j]
      <4>1. c \in Nodes /\ c <= parent[j]
        BY <3>2, AboveIsClosed
      <4>2. parent[c] < c /\ parent[c] \in Nodes /\ c \in Nat /\ parent[c] \in Nat
        BY <3>5, <4>1, ParentsAreOlder
      <4> QED BY <3>2, <4>1, <4>2
    <3>6. \A b, c \in Above(j) : b # 1 /\ c # 1 /\ parent[b] = parent[c] => b = c
      BY <3>1, <3>3, <3>5
    <3> QED BY <1>1, <3>4, <3>6
  <2> QED BY <2>1, <2>2
<1>3. Nodes \subseteq P
  BY <1>2, FromTheRoot
<1> QED BY <1>1, <1>3

\* What is below an entry is itself and what is below its children, each part
\* apart from the others.
LEMMA BelowIsTree ==
  ASSUME GTypes, TableGrows, NEW d \in Nodes
  PROVE  /\ Below(d) \subseteq Nodes /\ IsFiniteSet(Below(d)) /\ d \in Below(d)
         /\ \A i \in Below(d) : d <= i
         /\ Below(d) = {d} \union UNION {Below(c) : c \in ChildrenOf(d)}
         /\ \A c \in ChildrenOf(d) : d \notin Below(c)
         /\ \A b, c \in ChildrenOf(d) : b # c => Below(b) \intersect Below(c) = {}
<1>1. Nodes \subseteq Nat /\ IsFiniteSet(Nodes)
  BY ParentsAreOlder, FS_Interval
<1>2. Below(d) \subseteq Nodes /\ d \in Below(d) /\ \A i \in Below(d) : d <= i
  BY AboveIsClosed DEF Below
<1>3. IsFiniteSet(Below(d))
  BY <1>1, <1>2, FS_Subset
<1>4. \A c \in ChildrenOf(d) : c \in Nodes /\ c # 1 /\ parent[c] = d /\ d < c
  BY ParentsAreOlder
<1>5. ASSUME NEW i \in Below(d), i # d
      PROVE  \E c \in ChildrenOf(d) : i \in Below(c)
  <2>1. i \in Nodes /\ d \in Above(i)
    BY DEF Below
  <2>2. PICK c \in ChildrenOf(d) : c \in Above(i)
    BY <1>5, <2>1, OneChildOnTheWay
  <2> QED BY <2>1, <2>2 DEF Below
<1>6. ASSUME NEW c \in ChildrenOf(d), NEW i \in Below(c)
      PROVE  i \in Below(d) /\ i # d
  <2>1. i \in Nodes /\ c \in Above(i) /\ c \in Nodes /\ c # 1 /\ parent[c] = d /\ d < c
    BY <1>4 DEF Below
  <2>2. Above(c) \subseteq Above(i) /\ c <= i
    BY <2>1, AboveIsClosed
  <2>3. d \in Above(c)
    <3>1. Above(c) = {c} \union Above(d) /\ d \in Above(d)
      BY <2>1, AboveIsPath, AboveIsClosed
    <3> QED BY <3>1
  <2> QED BY <1>1, <2>1, <2>2, <2>3 DEF Below
<1>7. ASSUME NEW b \in ChildrenOf(d), NEW c \in ChildrenOf(d), b # c, NEW i \in Below(b)
      PROVE  i \notin Below(c)
  <2>1. SUFFICES ASSUME i \in Below(c) PROVE FALSE
    OBVIOUS
  <2>2. i \in Nodes /\ b \in Above(i) /\ c \in Above(i)
    BY <2>1 DEF Below
  <2>3. b # 1 /\ c # 1 /\ parent[b] = parent[c]
    BY <1>4
  <2> QED BY <1>7, <2>2, <2>3, OneChildOnTheWay
<1>8. Below(d) = {d} \union UNION {Below(c) : c \in ChildrenOf(d)}
  BY <1>2, <1>5, <1>6
<1>9. \A c \in ChildrenOf(d) : d \notin Below(c)
  BY <1>6
<1>10. \A b, c \in ChildrenOf(d) : b # c => Below(b) \intersect Below(c) = {}
  BY <1>7
<1> QED BY <1>2, <1>3, <1>8, <1>9, <1>10

\* Induction from the leaves up.
LEMMA FromTheLeaves ==
  ASSUME GTypes, TableGrows, NEW P,
         \A i \in Nodes : ChildrenOf(i) \subseteq P => i \in P
  PROVE  Nodes \subseteq P
<1> SUFFICES ASSUME ~(Nodes \subseteq P) PROVE FALSE
  OBVIOUS
<1>1. PICK n : n = Len(table)
  OBVIOUS
<1>2. n \in Nat /\ Nodes = 1..n
  BY <1>1, ParentsAreOlder
<1>3. PICK T : T = {n - i : i \in {j \in Nodes : j \notin P}}
  OBVIOUS
<1>4. T \subseteq Nat /\ T # {}
  BY <1>2, <1>3
<1>5. PICK x \in T : \A y \in T : x <= y
  BY <1>4, LeastExists
<1>6. PICK i \in Nodes : i \notin P /\ x = n - i
  BY <1>3, <1>5
<1>7. PICK c \in ChildrenOf(i) : c \notin P
  BY <1>6
<1>8. c \in Nodes /\ i < c
  BY ParentsAreOlder
<1>9. n - c \in T
  BY <1>3, <1>7, <1>8
<1>10. n - i <= n - c
  BY <1>5, <1>6, <1>9
<1> QED BY <1>2, <1>6, <1>8, <1>10

---------------------------------------------------------------------------
(* Sums up the tree *)

\* Saturating additions may be nested: a part that was capped leaves the whole
\* capped.
LEMMA CappedParts ==
  ASSUME NEW S, IsFiniteSet(S), NEW f, NEW g, NEW a \in Nat,
         \A x \in S : f[x] \in Nat /\ (g[x] = f[x] \/ g[x] = Saturated(f[x]))
  PROVE  Saturated(a + SumOver(g, S)) = Saturated(a + SumOver(f, S))
<1>1. MaxU64 \in Nat
  BY FamiliesAssumption
<1>2. \A x \in S : /\ f[x] \in Nat /\ g[x] \in Nat
                  /\ (g[x] = f[x] \/ (g[x] >= MaxU64 /\ f[x] >= MaxU64))
  BY <1>1 DEF Saturated
<1>3. \A s \in SUBSET S : /\ IsFiniteSet(s)
                         /\ SumOver(f, s) \in Nat /\ SumOver(g, s) \in Nat
  <2>1. ASSUME NEW s \in SUBSET S
        PROVE  /\ IsFiniteSet(s)
               /\ SumOver(f, s) \in Nat /\ SumOver(g, s) \in Nat
    <3>0. IsFiniteSet(s) /\ \A x \in s : x \in S
      BY FS_Subset
    <3>1. IsFiniteSet(s) /\ \A x \in s : f[x] \in Nat /\ g[x] \in Nat
      BY <1>2, <3>0
    <3> QED BY <3>1, SumIsNat
  <2> QED BY <2>1
<1>4. PICK P : P = {s \in SUBSET S :
                      \/ SumOver(g, s) = SumOver(f, s)
                      \/ SumOver(g, s) >= MaxU64 /\ SumOver(f, s) >= MaxU64}
  OBVIOUS
<1>5. {} \in P
  BY <1>4, SumOfNothing
<1>6. ASSUME NEW s \in SUBSET S, s # {}, \A x \in s : s \ {x} \in P PROVE s \in P
  <2>1. PICK x \in s : TRUE
    BY <1>6
  <2>2. PICK r : r = s \ {x}
    OBVIOUS
  <2>0. \A y \in s : y \in S
    OBVIOUS
  <2>3. IsFiniteSet(s) /\ \A y \in s : f[y] \in Int /\ g[y] \in Int
    BY <1>2, <1>3, <2>0
  <2>4. SumOver(f, s) = f[x] + SumOver(f, r)
    BY <2>2, <2>3, SumWithout
  <2>5. SumOver(g, s) = g[x] + SumOver(g, r)
    BY <2>2, <2>3, SumWithout
  <2>6. \/ SumOver(g, r) = SumOver(f, r)
        \/ SumOver(g, r) >= MaxU64 /\ SumOver(f, r) >= MaxU64
    BY <1>4, <1>6, <2>2
  <2>7. SumOver(f, r) \in Nat /\ SumOver(g, r) \in Nat
    BY <1>3, <2>2
  <2>8. /\ f[x] \in Nat /\ g[x] \in Nat
        /\ (g[x] = f[x] \/ (g[x] >= MaxU64 /\ f[x] >= MaxU64))
    BY <1>2, <2>0
  <2>9. \/ SumOver(g, s) = SumOver(f, s)
        \/ SumOver(g, s) >= MaxU64 /\ SumOver(f, s) >= MaxU64
    BY <1>1, <2>4, <2>5, <2>6, <2>7, <2>8
  <2> QED BY <1>4, <2>9
<1>7. SUBSET S \subseteq P
  BY <1>5, <1>6, BySize
<1>8. \/ SumOver(g, S) = SumOver(f, S)
      \/ SumOver(g, S) >= MaxU64 /\ SumOver(f, S) >= MaxU64
  BY <1>4, <1>7
<1>9. SumOver(f, S) \in Nat /\ SumOver(g, S) \in Nat
  BY <1>3
<1> QED BY <1>1, <1>8, <1>9 DEF Saturated

\* A sum over the children, of what is below each of them, is the sum over all
\* that is below.
LEMMA SumBelow ==
  ASSUME GTypes, TableGrows, NEW d \in Nodes, NEW w, \A i \in Nodes : w[i] \in Int
  PROVE  SumOver(w, Below(d))
         = w[d] + SumOver([c \in ChildrenOf(d) |-> SumOver(w, Below(c))], ChildrenOf(d))
<1>1. PICK C, B : C = ChildrenOf(d) /\ B = [c \in C |-> Below(c)]
  OBVIOUS
<1>2. IsFiniteSet(C) /\ C \subseteq Nodes
  <2>1. C \subseteq Nodes
    BY <1>1, ParentsAreOlder
  <2>2. IsFiniteSet(Nodes)
    BY ParentsAreOlder, FS_Interval
  <2> QED BY <2>1, <2>2, FS_Subset
<1>3. \A c \in C : B[c] = Below(c) /\ IsFiniteSet(B[c]) /\ \A x \in B[c] : w[x] \in Int
  BY <1>1, <1>2, BelowIsTree
<1>4. \A b, c \in C : b # c => B[b] \intersect B[c] = {}
  BY <1>1, <1>3, BelowIsTree
<1>5. PICK U : U = UNION {B[c] : c \in C}
  OBVIOUS
<1>6. IsFiniteSet(U) /\ SumOver(w, U) = SumOver([c \in C |-> SumOver(w, B[c])], C)
  BY <1>2, <1>3, <1>4, <1>5, SumOfAll
<1>7. Below(d) = {d} \union U /\ d \notin U
  <2>1. {Below(c) : c \in ChildrenOf(d)} = {B[c] : c \in C}
    BY <1>1
  <2>2. Below(d) = {d} \union U
    BY <1>5, <2>1, BelowIsTree
  <2>3. d \notin U
    BY <1>1, <1>3, <1>5, BelowIsTree
  <2> QED BY <2>2, <2>3
<1>8. SumOver(w, Below(d)) = w[d] + SumOver(w, U)
  <2>1. IsFiniteSet(Below(d)) /\ Below(d) \subseteq Nodes /\ d \in Below(d)
    BY BelowIsTree
  <2>2. SumOver(w, Below(d)) = w[d] + SumOver(w, Below(d) \ {d})
    BY <2>1, SumWithout
  <2>3. Below(d) \ {d} = U
    BY <1>7
  <2> QED BY <2>2, <2>3
<1>9. [c \in C |-> SumOver(w, B[c])] = [c \in ChildrenOf(d) |-> SumOver(w, Below(c))]
  BY <1>1, <1>3
<1> QED BY <1>1, <1>6, <1>8, <1>9

\* What every directory gets from its children, capped, is what is below it,
\* capped once.
LEMMA CappedSumUpTree ==
  ASSUME GTypes, TableGrows,
         NEW w, \A i \in Nodes : w[i] \in Nat,
         NEW sum,
         \A i \in Nodes : sum[i] = IF IsDir(i)
                                  THEN Saturated(w[i] + SumOver(sum, ChildrenOf(i)))
                                  ELSE w[i]
  PROVE  \A d \in Nodes : IsDir(d) => sum[d] = Saturated(SumOver(w, Below(d)))
<1>1. PICK P : P = {i \in Nodes :
        sum[i] = IF IsDir(i) THEN Saturated(SumOver(w, Below(i))) ELSE SumOver(w, Below(i))}
  OBVIOUS
<1>2. ASSUME NEW i \in Nodes, ChildrenOf(i) \subseteq P PROVE i \in P
  <2>1. PICK C, f : C = ChildrenOf(i) /\ f = [c \in C |-> SumOver(w, Below(c))]
    OBVIOUS
  <2>2. SumOver(w, Below(i)) = w[i] + SumOver(f, C)
    BY <2>1, SumBelow
  <2>3. C \subseteq Nodes /\ IsFiniteSet(C)
    <3>1. C \subseteq Nodes
      BY <2>1, ParentsAreOlder
    <3>2. IsFiniteSet(Nodes)
      BY ParentsAreOlder, FS_Interval
    <3> QED BY <3>1, <3>2, FS_Subset
  <2>4. CASE IsDir(i)
    <3>1. \A c \in C : f[c] \in Nat /\ (sum[c] = f[c] \/ sum[c] = Saturated(f[c]))
      <4>1. ASSUME NEW c \in C PROVE f[c] \in Nat
        <5>1. IsFiniteSet(Below(c)) /\ \A x \in Below(c) : w[x] \in Nat
          BY <2>3, BelowIsTree
        <5>2. SumOver(w, Below(c)) \in Nat
          BY <5>1, SumIsNat
        <5> QED BY <2>1, <5>2
      <4>2. \A c \in C : sum[c] = f[c] \/ sum[c] = Saturated(f[c])
        BY <1>1, <1>2, <2>1
      <4> QED BY <4>1, <4>2
    <3>2. w[i] \in Nat
      OBVIOUS
    <3>3. Saturated(w[i] + SumOver(sum, C)) = Saturated(w[i] + SumOver(f, C))
      BY <2>3, <3>1, <3>2, CappedParts
    <3> QED BY <1>1, <2>1, <2>2, <2>4, <3>3
  <2>5. CASE ~IsDir(i)
    <3>1. C = {}
      BY <2>1, <2>5, ParentsAreOlder
    <3>2. SumOver(w, Below(i)) = w[i]
      BY <2>2, <3>1, SumOfNothing
    <3> QED BY <1>1, <2>5, <3>2
  <2> QED BY <2>4, <2>5
<1>3. Nodes \subseteq P
  BY <1>2, FromTheLeaves
<1> QED BY <1>1, <1>3

\* The directories added up so far got what their children had.
Added(d) ==
  /\ referenced[d] = ReferencedOf(d)
  /\ logical[d] = Saturated(SumOver(logical, ChildrenOf(d)))

SumsInv ==
  /\ g_pc # "ingesting" =>
       /\ referenced \in [Nodes -> Nat] /\ logical \in [Nodes -> Nat]
       /\ \A i \in Nodes : ~IsDir(i) =>
            referenced[i] = Allocated[i] /\ logical[i] = Observed[i]
  /\ g_pc \in {"directories", "graph"} =>
       \A k \in 1..Len(post_order) :
         IsDir(post_order[k]) /\ k \notin todo => Added(post_order[k])

\* Sizes are naturals, and a directory's own logical size is none.
LEMMA SizesAreTyped ==
  ASSUME GTypes
  PROVE  /\ MaxU64 \in Nat
         /\ Allocated \in [Nodes -> Nat] /\ Observed \in [Nodes -> Nat]
         /\ \A i \in Nodes : IsDir(i) => Observed[i] = 0
<1>1. MaxU64 \in Nat
  BY FamiliesAssumption
<1>2. Len(table) \in Nat /\ \A i \in Nodes : table[i] \in AllRows
  BY DEF GTypes, Nodes
<1>3. ASSUME NEW i \in Nodes
      PROVE  /\ value(table[i].alloc) \in Nat /\ table[i].logical \in Nat
             /\ IsDir(i) => table[i].logical = 0
  <2>1. PICK f \in Families : table[i] \in Rows(f)
    BY <1>2 DEF AllRows
  <2>2. PICK row : row = table[i]
    OBVIOUS
  <2>3. \/ row.kind = "Directory" /\ row.logical = 0 /\ row.alloc \in f.dir_allocs
        \/ row.kind = "File" /\ row.logical \in f.sizes /\ row.alloc \in f.allocs
        \/ row.kind = "Special" /\ row.logical = 0 /\ row.alloc = None
    BY <2>1, <2>2 DEF Rows
  <2>4. f.sizes \subseteq Nat /\ f.allocs \union f.dir_allocs \subseteq Nat \union {None}
    BY FamiliesAssumption
  <2>5. row.logical \in Nat /\ row.alloc \in Nat \union {None}
    BY <2>3, <2>4
  <2> QED BY <2>2, <2>3, <2>5 DEF value, IsDir
<1> QED BY <1>1, <1>3 DEF Allocated, Observed

\* Nothing is added up yet.
LEMMA SumsStart == AInit => SumsInv
BY DEF AInit, SumsInv

\* compute_aggregates starts with what each entry has by itself.
LEMMA BeginKeepsSums ==
  ASSUME KnowledgeInv, SumsInv, Begin
  PROVE  SumsInv'
<1>1. /\ g_pc' = "objects" /\ UNCHANGED facts /\ table' = table /\ GTypes
      /\ referenced' = [i \in Nodes |-> value(table[i].alloc)]
      /\ logical' = [i \in Nodes |-> table[i].logical]
  BY DEF Begin, KnowledgeInv, facts
<1>2. referenced' = Allocated /\ logical' = Observed
  BY <1>1 DEF Allocated, Observed
<1>3. Nodes' = Nodes /\ Allocated' = Allocated /\ Observed' = Observed
  BY <1>1 DEF Nodes, Allocated, Observed
<1> QED BY <1>1, <1>2, <1>3, SizesAreTyped DEF SumsInv

\* Whatever moves neither sums nor the list of directories to add up.
LEMMA SumsStand ==
  ASSUME KnowledgeInv, SumsInv, UNCHANGED <<facts, referenced, logical>>,
         \/ g_pc # "ingesting" /\ g_pc' \notin {"ingesting", "directories", "graph"}
         \/ /\ UNCHANGED <<post_order, todo>>
            /\ \/ g_pc' = g_pc
               \/ g_pc = "directories" /\ g_pc' = "graph"
  PROVE  SumsInv'
<1>1. /\ Nodes' = Nodes /\ Allocated' = Allocated /\ Observed' = Observed
      /\ \A i : (IsDir(i)' <=> IsDir(i)) /\ ChildrenOf(i)' = ChildrenOf(i)
      /\ table' = table
  BY DEF Nodes, Allocated, Observed, facts, IsDir, ChildrenOf
<1>2. \A d : Added(d)' <=> Added(d)
  BY <1>1 DEF Added, ReferencedOf
<1>3. g_pc' # "ingesting" => g_pc # "ingesting"
  OBVIOUS
<1>4. g_pc' # "ingesting" =>
        /\ referenced' \in [Nodes -> Nat] /\ logical' \in [Nodes -> Nat]
        /\ \A i \in Nodes : ~IsDir(i) =>
             referenced'[i] = Allocated[i] /\ logical'[i] = Observed[i]
  BY <1>3 DEF SumsInv
<1>5. g_pc' \in {"directories", "graph"} =>
        \A k \in 1..Len(post_order') :
          IsDir(post_order'[k]) /\ k \notin todo' => Added(post_order'[k])
  BY DEF SumsInv
<1> QED BY <1>1, <1>2, <1>4, <1>5 DEF SumsInv

\* No directory added up before, and not the one added up now, is the parent of
\* the one added up now.
LEMMA AddedApart ==
  ASSUME KnowledgeInv, NEW t \in todo, \A u \in todo : t <= u,
         NEW k \in 1..Len(post_order), IsDir(post_order[k]), k \notin todo \ {t}
  PROVE  /\ post_order[t] \notin ChildrenOf(post_order[k])
         /\ k # t => post_order[k] # post_order[t] /\ k \notin todo
<1>1. PostOrderInv /\ SummedUp /\ todo \subseteq 1..Len(post_order) /\ Len(post_order) \in Nat
  BY DEF KnowledgeInv, GTypes
<1>2. t \in 1..Len(post_order) /\ t \in Nat /\ k \in Nat
  BY <1>1
<1>3. k # t => post_order[k] # post_order[t] /\ k \notin todo
  BY <1>1, <1>2 DEF PostOrderInv
<1>4. ASSUME post_order[t] \in ChildrenOf(post_order[k]) PROVE FALSE
  <2>1. PICK j \in 1..(k - 1) : post_order[j] = post_order[t]
    BY <1>1, <1>4, SMTT(60) DEF PostOrderInv
  <2>2. j \in 1..Len(post_order) /\ j < k
    BY <1>1, <1>2
  <2>3. j = t
    BY <1>1, <1>2, <2>1, <2>2 DEF PostOrderInv
  <2>4. k \in t..Len(post_order) /\ k # t
    BY <1>1, <1>2, <2>2, <2>3
  <2>5. k \in todo
    BY <1>1, <2>4 DEF SummedUp
  <2> QED BY <1>3, <2>4, <2>5
<1> QED BY <1>3, <1>4

\* Phases 4 and 5: one more directory.
LEMMA AggregateKeepsSums ==
  ASSUME KnowledgeInv, SumsInv, AggregateDirectory
  PROVE  SumsInv'
<1>0. PICK t, d : t = Min(todo) /\ d = post_order[t]
  OBVIOUS
<1>1. /\ g_pc = "directories" /\ todo # {} /\ UNCHANGED <<facts, post_order>>
      /\ GTypes /\ TableGrows /\ SummedUp
  BY DEF AggregateDirectory, KnowledgeInv, walk
<1>2. t \in todo /\ \A u \in todo : t <= u
  <2>1. todo \subseteq Nat
    BY <1>1 DEF GTypes
  <2> QED BY <1>0, <1>1, <2>1, MinIsLeast
<1>3. d \in Nodes /\ IsDir(d) /\ t \in 1..Len(post_order)
  BY <1>0, <1>1, <1>2 DEF SummedUp, GTypes
<1>4. /\ Nodes' = Nodes /\ Allocated' = Allocated /\ Observed' = Observed
      /\ \A i : (IsDir(i)' <=> IsDir(i)) /\ ChildrenOf(i)' = ChildrenOf(i)
      /\ table' = table
  BY <1>1 DEF Nodes, Allocated, Observed, facts, IsDir, ChildrenOf
<1>5. CASE g_pc' = "panicked" /\ UNCHANGED <<sums, size_known>>
  <2>1. UNCHANGED <<referenced, logical>>
    BY <1>5 DEF sums
  <2> QED BY <1>1, <1>5, <2>1, SumsStand
<1>6. CASE /\ todo' = todo \ {t} /\ g_pc' = g_pc
           /\ referenced' = [referenced EXCEPT ![d] = ReferencedOf(d)]
           /\ logical' = [logical EXCEPT ![d] = Saturated(SumOver(logical, ChildrenOf(d)))]
  <2>1. /\ referenced \in [Nodes -> Nat] /\ logical \in [Nodes -> Nat]
        /\ \A i \in Nodes : ~IsDir(i) =>
             referenced[i] = Allocated[i] /\ logical[i] = Observed[i]
        /\ \A k \in 1..Len(post_order) :
             IsDir(post_order[k]) /\ k \notin todo => Added(post_order[k])
    BY <1>1 DEF SumsInv
  <2>2. ASSUME NEW e \in Nodes
        PROVE  /\ IsFiniteSet(ChildrenOf(e)) /\ ChildrenOf(e) \subseteq Nodes
               /\ SumOver(referenced, ChildrenOf(e)) \in Nat
               /\ SumOver(logical, ChildrenOf(e)) \in Nat
    <3>1. ChildrenOf(e) \subseteq Nodes /\ IsFiniteSet(ChildrenOf(e))
      <4>1. ChildrenOf(e) \subseteq Nodes
        BY DEF ChildrenOf
      <4>2. IsFiniteSet(Nodes)
        BY <1>1, ParentsAreOlder, FS_Interval
      <4> QED BY <4>1, <4>2, FS_Subset
    <3>2. \A c \in ChildrenOf(e) : referenced[c] \in Nat /\ logical[c] \in Nat
      BY <2>1, <3>1
    <3> QED BY <3>1, <3>2, SumIsNat
  <2>3. MaxU64 \in Nat /\ value(table[d].alloc) \in Nat
    BY <1>1, <1>3, SizesAreTyped DEF Allocated
  <2>4. ReferencedOf(d) \in Nat /\ Saturated(SumOver(logical, ChildrenOf(d))) \in Nat
    BY <1>3, <2>2, <2>3 DEF ReferencedOf, Saturated
  <2>5. /\ referenced' \in [Nodes -> Nat] /\ logical' \in [Nodes -> Nat]
        /\ referenced'[d] = ReferencedOf(d)
        /\ logical'[d] = Saturated(SumOver(logical, ChildrenOf(d)))
        /\ \A i \in Nodes : i # d => referenced'[i] = referenced[i] /\ logical'[i] = logical[i]
    BY <1>3, <1>6, <2>1, <2>4
  <2>6. ASSUME NEW e \in Nodes, d \notin ChildrenOf(e)
        PROVE  /\ SumOver(referenced', ChildrenOf(e)) = SumOver(referenced, ChildrenOf(e))
               /\ SumOver(logical', ChildrenOf(e)) = SumOver(logical, ChildrenOf(e))
    <3>1. \A c \in ChildrenOf(e) :
            /\ referenced[c] \in Int /\ referenced'[c] = referenced[c]
            /\ logical[c] \in Int /\ logical'[c] = logical[c]
      <4>1. \A c \in Nodes : referenced[c] \in Int /\ logical[c] \in Int
        BY <2>1
      <4>2. \A c \in ChildrenOf(e) : c \in Nodes /\ c # d
        BY <2>2, <2>6
      <4> QED BY <2>5, <4>1, <4>2
    <3> QED BY <2>2, <3>1, SameSum
  <2>7. ASSUME NEW k \in 1..Len(post_order), IsDir(post_order[k]), k \notin todo'
        PROVE  Added(post_order[k])'
    <3>1. PICK e \in Nodes : e = post_order[k]
      BY <1>1 DEF GTypes
    <3>2. /\ d \notin ChildrenOf(e)
          /\ k # t => e # d /\ k \notin todo
      BY <1>0, <1>2, <1>6, <2>7, <3>1, AddedApart
    <3>3. \/ /\ referenced[e] = ReferencedOf(e)
             /\ logical[e] = Saturated(SumOver(logical, ChildrenOf(e)))
          \/ e = d
      BY <1>0, <2>1, <2>7, <3>1, <3>2 DEF Added
    <3>4. /\ referenced'[e] = ReferencedOf(e)
          /\ logical'[e] = Saturated(SumOver(logical, ChildrenOf(e)))
      BY <2>5, <3>3
    <3>5. /\ ReferencedOf(e)' = ReferencedOf(e)
          /\ SumOver(logical', ChildrenOf(e)) = SumOver(logical, ChildrenOf(e))
      <4>1. SumOver(referenced', ChildrenOf(e)) = SumOver(referenced, ChildrenOf(e))
        BY <2>6, <3>2
      <4>2. ReferencedOf(e)' = Saturated(value(table[e].alloc) + SumOver(referenced', ChildrenOf(e)))
        BY <1>4 DEF ReferencedOf
      <4> QED BY <2>6, <3>2, <4>1, <4>2 DEF ReferencedOf
    <3>6. Added(e)'
      BY <1>4, <3>4, <3>5 DEF Added
    <3> QED BY <1>1, <3>1, <3>6
  <2>8. \A i \in Nodes : ~IsDir(i) =>
          referenced'[i] = Allocated[i] /\ logical'[i] = Observed[i]
    BY <1>3, <2>1, <2>5, SMTT(60)
  <2> QED BY <1>1, <1>4, <2>5, <2>7, <2>8 DEF SumsInv
<1> QED BY <1>0, <1>5, <1>6 DEF AggregateDirectory

\* Every step of the builder and of compute_aggregates.
LEMMA SumsSteps ==
  ASSUME KnowledgeInv, SumsInv, [ANext]_gvars
  PROVE  SumsInv'
<1>1. ASSUME NEW row \in AllRows, NEW p \in 0..Len(table), Ingest(row, p)
      PROVE  SumsInv'
  BY <1>1 DEF Ingest, SumsInv
<1>2. CASE Begin
  BY <1>2, BeginKeepsSums
<1>3. ASSUME NEW oid \in FileOids, NormalizeFileObject(oid) PROVE SumsInv'
  BY <1>3, SumsStand DEF NormalizeFileObject, sums
<1>4. ASSUME NEW d \in Nodes, NormalizeDirectory(d) PROVE SumsInv'
  BY <1>4, SumsStand, SMTT(60) DEF NormalizeDirectory, sums
<1>5. CASE AccountIdentityLess
  BY <1>5, SumsStand DEF AccountIdentityLess, sums
<1>6. CASE Descend
  BY <1>6, SumsStand DEF Descend, sums
<1>7. CASE Leave
  BY <1>7, SumsStand DEF Leave, sums
<1>8. CASE SetLeaves
  <2>1. /\ g_pc = "walk" /\ g_pc' = "directories"
        /\ UNCHANGED <<facts, referenced, logical, post_order>>
        /\ todo' = {k \in 1..Len(post_order) : IsDir(post_order[k])}
    BY <1>8 DEF SetLeaves, walk
  <2>2. /\ Nodes' = Nodes /\ Allocated' = Allocated /\ Observed' = Observed
        /\ \A i : IsDir(i)' <=> IsDir(i)
    BY <2>1 DEF Nodes, Allocated, Observed, facts, IsDir
  <2> QED BY <2>1, <2>2 DEF SumsInv
<1>9. CASE AggregateDirectory
  BY <1>9, AggregateKeepsSums
<1>10. CASE CutSlices
  BY <1>10, SumsStand DEF CutSlices, walk, sums
<1>11. CASE UNCHANGED gvars
  BY <1>11, SumsStand DEF gvars, walk, sums
<1> QED BY <1>1, <1>2, <1>3, <1>4, <1>5, <1>6, <1>7, <1>8, <1>9, <1>10, <1>11
        DEF ANext, Compute, AllRows

\* Phase 5 of compute_aggregates adds up each directory once, from the final
\* values of its children.
THEOREM SumsInvariant == ASpec => []SumsInv
BY SumsStart, SumsSteps, KnowledgeInvariant, PTL DEF ASpec

\* referenced_allocated_bytes and logical_bytes of every directory are the sums
\* over everything below it, capped once.
THEOREM ReferencedIsExact == ASpec => []ReferencedExact
<1>1. ASSUME KnowledgeInv, SumsInv, g_pc = "graph" PROVE ReferencedExact
  <2>1. GTypes /\ TableGrows /\ todo = {} /\ stack = <<>>
    BY <1>1 DEF KnowledgeInv, InPhase
  <2>2. \A d \in Nodes : IsDir(d) => Added(d)
    <3>1. \A d \in Nodes : Finished(d)
      BY <1>1, <2>1, EveryEntryIsFinished
    <3> QED BY <1>1, <2>1, <3>1 DEF SumsInv, Finished
  <2>3. /\ Allocated \in [Nodes -> Nat] /\ Observed \in [Nodes -> Nat]
        /\ \A i \in Nodes : IsDir(i) => Observed[i] = 0
    BY <2>1, SizesAreTyped
  <2>4. referenced \in [Nodes -> Nat] /\ logical \in [Nodes -> Nat]
    BY <1>1 DEF SumsInv
  <2>5. ASSUME NEW i \in Nodes
        PROVE  referenced[i] = IF IsDir(i)
                               THEN Saturated(Allocated[i] + SumOver(referenced, ChildrenOf(i)))
                               ELSE Allocated[i]
    BY <1>1, <2>2 DEF SumsInv, Added, ReferencedOf, Allocated
  <2>6. ASSUME NEW i \in Nodes
        PROVE  logical[i] = IF IsDir(i)
                            THEN Saturated(Observed[i] + SumOver(logical, ChildrenOf(i)))
                            ELSE Observed[i]
    <3>1. SumOver(logical, ChildrenOf(i)) \in Nat
      <4>1. ChildrenOf(i) \subseteq Nodes
        BY DEF ChildrenOf
      <4>2. IsFiniteSet(Nodes)
        BY <2>1, ParentsAreOlder, FS_Interval
      <4>3. IsFiniteSet(ChildrenOf(i))
        BY <4>1, <4>2, FS_Subset
      <4> QED BY <2>4, <4>1, <4>3, SumIsNat
    <3>2. IsDir(i) => Observed[i] + SumOver(logical, ChildrenOf(i)) = SumOver(logical, ChildrenOf(i))
      BY <2>3, <3>1
    <3> QED BY <1>1, <2>2, <3>2 DEF SumsInv, Added
  <2>7. \A d \in Nodes : IsDir(d) => referenced[d] = Saturated(SumOver(Allocated, Below(d)))
    BY <2>1, <2>3, <2>5, CappedSumUpTree, SMTT(60)
  <2>8. \A d \in Nodes : IsDir(d) => logical[d] = Saturated(SumOver(Observed, Below(d)))
    BY <2>1, <2>3, <2>6, CappedSumUpTree
  <2> QED BY <2>7, <2>8 DEF ReferencedExact
<1>2. KnowledgeInv /\ SumsInv => ReferencedExact
  BY <1>1 DEF ReferencedExact
<1> QED BY <1>2, KnowledgeInvariant, SumsInvariant, PTL
---------------------------------------------------------------------------
(* The objects and their weights *)

\* Entries that share an identity are one object.
Identified == {i \in Nodes : IsFile(i) /\ table[i].oid # None}
WeightOf(oid) == LeastOrNil(KnownAllocs(Aliases(oid)))

ObjectsInv ==
  /\ g_pc # "ingesting" =>
       /\ \A i \in Identified : Judged(table[i].oid) =>
            /\ objects[object_index[i]].oid = table[i].oid
            /\ objects[object_index[i]].weight = WeightOf(table[i].oid)
       /\ \A i, j \in Identified :
            table[i].oid = table[j].oid => object_index[i] = object_index[j]
  /\ g_pc \notin {"ingesting", "objects"} =>
       \A i \in Anonymous : object_index[i] # 0 =>
         /\ object_index[i] \in 1..Len(objects)
         /\ objects[object_index[i]].oid = None
         /\ objects[object_index[i]].weight = Allocated[i]
         /\ \A j \in Anonymous : object_index[j] = object_index[i] => j = i

\* What the objects are judged by is in the table.
LEMMA WeightsKept ==
  ASSUME UNCHANGED facts
  PROVE  /\ table' = table /\ parent' = parent /\ Nodes' = Nodes
         /\ Identified' = Identified /\ Anonymous' = Anonymous
         /\ Allocated' = Allocated /\ FileOids' = FileOids
         /\ \A oid : WeightOf(oid)' = WeightOf(oid)
         /\ \A i : (IsFile(i)' <=> IsFile(i)) /\ (IsDir(i)' <=> IsDir(i))
         /\ \A i : ChildrenOf(i)' = ChildrenOf(i)
<1>1. table' = table /\ parent' = parent
  BY DEF facts
<1>2. Nodes' = Nodes /\ \A i : (IsFile(i)' <=> IsFile(i)) /\ (IsDir(i)' <=> IsDir(i))
  BY <1>1 DEF Nodes, IsFile, IsDir
<1>3. \A oid : WeightOf(oid)' = WeightOf(oid)
  BY <1>1 DEF WeightOf, KnownAllocs, Aliases, Nodes, IsFile
<1>4. Identified' = Identified /\ Anonymous' = Anonymous /\ FileOids' = FileOids
  BY <1>1, <1>2 DEF Identified, Anonymous, FileOids
<1>5. Allocated' = Allocated
  BY <1>1, <1>2 DEF Allocated
<1>6. \A i : ChildrenOf(i)' = ChildrenOf(i)
  BY <1>1, <1>2 DEF ChildrenOf
<1> QED BY <1>1, <1>2, <1>3, <1>4, <1>5, <1>6

\* No object is recorded yet.
LEMMA ObjectsStart == AInit => ObjectsInv
BY DEF AInit, ObjectsInv

\* Every key is still to be normalised.
LEMMA BeginKeepsObjects ==
  ASSUME KnowledgeInv, ObjectsInv, Begin
  PROVE  ObjectsInv'
<1>1. /\ g_pc' = "objects" /\ UNCHANGED facts
      /\ to_normalize' = [files : FileOids]
                         \union [dir : {i \in Nodes : IsDir(i) /\ table[i].oid # None}]
      /\ object_index' = [i \in Nodes |-> 0]
  BY DEF Begin
<1>2. table' = table /\ Identified' = Identified /\ Identified \subseteq Nodes
  BY <1>1, WeightsKept DEF Identified
<1>3. \A i \in Identified : ~Judged(table[i].oid)'
  <2>1. \A i \in Identified : table[i].oid \in FileOids
    BY DEF Identified, FileOids
  <2>2. \A oid \in FileOids : [files |-> oid] \in [files : FileOids]
    OBVIOUS
  <2> QED BY <1>1, <1>2, <2>1, <2>2 DEF Judged
<1>4. \A i \in Identified : object_index'[i] = 0
  BY <1>1, <1>2
<1> QED BY <1>1, <1>2, <1>3, <1>4 DEF ObjectsInv

\* One key of file_object_map: its entries get a new object.
LEMMA NormalizeFileKeepsObjects ==
  ASSUME KnowledgeInv, LinksInv, ObjectsInv, NEW oid \in FileOids, NormalizeFileObject(oid)
  PROVE  ObjectsInv'
<1>0. PICK A, o : A = Aliases(oid) /\ o = Len(objects) + 1
  OBVIOUS
<1>1. /\ g_pc = "objects" /\ g_pc' = "objects" /\ [files |-> oid] \in to_normalize
      /\ to_normalize' = to_normalize \ {[files |-> oid]}
      /\ \E r : r.oid = oid /\ r.weight = WeightOf(oid) /\ objects' = Append(objects, r)
      /\ object_index' = [i \in Nodes |-> IF i \in A THEN o ELSE object_index[i]]
      /\ UNCHANGED facts
  BY <1>0 DEF NormalizeFileObject, ObjectRecord, WeightOf
<1>2. /\ table' = table /\ Identified' = Identified /\ Identified \subseteq Nodes
      /\ \A x : WeightOf(x)' = WeightOf(x)
  BY <1>1, WeightsKept DEF Identified
<1>3. \A x : Judged(x)' <=> Judged(x) \/ x = oid
  BY <1>1, KeysDiffer DEF Judged
<1>4. /\ objects'[o].oid = oid /\ objects'[o].weight = WeightOf(oid)
      /\ \A k \in 1..Len(objects) : objects'[k] = objects[k]
  <2>1. IsVector(objects)
    BY DEF LinksInv
  <2> QED BY <1>0, <1>1, <2>1, VectorAppended
<1>5. \A i \in Identified :
        /\ i \in A <=> table[i].oid = oid
        /\ object_index'[i] = IF table[i].oid = oid THEN o ELSE object_index[i]
  BY <1>0, <1>1, <1>2 DEF Identified, Aliases
<1>6. ASSUME NEW i \in Identified, Judged(table[i].oid)'
      PROVE  /\ objects'[object_index'[i]].oid = table[i].oid
             /\ objects'[object_index'[i]].weight = WeightOf(table[i].oid)
  <2>1. CASE table[i].oid = oid
    BY <1>4, <1>5, <2>1
  <2>2. CASE table[i].oid # oid
    <3>1. Judged(table[i].oid) /\ object_index'[i] = object_index[i]
      BY <1>3, <1>5, <1>2, <1>6, <2>2
    <3>2. object_index[i] \in 1..Len(objects)
      BY <1>1, <3>1 DEF LinksInv, Identified
    <3> QED BY <1>1, <1>4, <3>1, <3>2 DEF ObjectsInv
  <2> QED BY <2>1, <2>2
<1>7. \A i, j \in Identified :
        table[i].oid = table[j].oid => object_index'[i] = object_index'[j]
  <2>1. ASSUME NEW i \in Identified, NEW j \in Identified, table[i].oid = table[j].oid
        PROVE  object_index'[i] = object_index'[j]
    <3>1. object_index[i] = object_index[j]
      BY <1>1, <2>1 DEF ObjectsInv
    <3> QED BY <1>5, <2>1, <3>1
  <2> QED BY <2>1
<1>8. (\A i \in Identified : Judged(table[i].oid) =>
         /\ objects[object_index[i]].oid = table[i].oid
         /\ objects[object_index[i]].weight = WeightOf(table[i].oid))'
  BY <1>2, <1>6
<1>9. (\A i, j \in Identified :
         table[i].oid = table[j].oid => object_index[i] = object_index[j])'
  BY <1>2, <1>7
<1> QED BY <1>1, <1>8, <1>9 DEF ObjectsInv

\* The object of a directory is no file's.
LEMMA NormalizeDirectoryKeepsObjects ==
  ASSUME KnowledgeInv, LinksInv, ObjectsInv, NEW d \in Nodes, NormalizeDirectory(d)
  PROVE  ObjectsInv'
<1>1. /\ g_pc = "objects" /\ g_pc' = "objects" /\ [dir |-> d] \in to_normalize
      /\ to_normalize' = to_normalize \ {[dir |-> d]}
      /\ \E r : objects' = Append(objects, r)
      /\ object_index' = [object_index EXCEPT ![d] = Len(objects) + 1]
      /\ UNCHANGED facts /\ GTypes
  BY DEF NormalizeDirectory, KnowledgeInv
<1>2. /\ table' = table /\ Identified' = Identified /\ Identified \subseteq Nodes
      /\ \A x : WeightOf(x)' = WeightOf(x)
  BY <1>1, WeightsKept DEF Identified
<1>3. \A x : Judged(x)' <=> Judged(x)
  BY <1>1, KeysDiffer DEF Judged
<1>4. \A k \in 1..Len(objects) : objects'[k] = objects[k]
  <2>1. IsVector(objects)
    BY DEF LinksInv
  <2> QED BY <1>1, <2>1, VectorAppended
<1>5. \A i \in Identified : object_index'[i] = object_index[i]
  <2>1. \A i \in Identified : i # d
    BY <1>1 DEF LinksInv, Identified, IsDir, IsFile
  <2>2. object_index \in [Nodes -> Nat]
    BY <1>1 DEF LinksInv, Nodes
  <2> QED BY <1>1, <1>2, <2>1, <2>2
<1>6. \A i \in Identified : Judged(table[i].oid) => object_index[i] \in 1..Len(objects)
  BY <1>1 DEF LinksInv, Identified
<1> QED BY <1>1, <1>2, <1>3, <1>4, <1>5, <1>6 DEF ObjectsInv

\* Nothing later moves an object.
LEMMA ObjectsStand ==
  ASSUME KnowledgeInv, ObjectsInv,
         UNCHANGED <<facts, to_normalize, objects, object_index>>,
         \/ g_pc \notin {"ingesting", "objects"} /\ g_pc' \notin {"ingesting", "objects"}
         \/ g_pc' = g_pc
  PROVE  ObjectsInv'
<1>1. /\ table' = table /\ Identified' = Identified /\ Anonymous' = Anonymous
      /\ Allocated' = Allocated /\ \A x : WeightOf(x)' = WeightOf(x)
  BY WeightsKept
<1>2. /\ \A x : Judged(x)' <=> Judged(x)
      /\ g_pc' = "ingesting" <=> g_pc = "ingesting"
      /\ g_pc' = "objects" <=> g_pc = "objects"
  BY DEF Judged
<1> QED BY <1>1, <1>2 DEF ObjectsInv

\* Numbered by how many of them are no later, things get different numbers.
LEMMA PlacesDiffer ==
  ASSUME NEW S, IsFiniteSet(S), S \subseteq Nat
  PROVE  /\ \A i \in S : Cardinality({k \in S : k <= i}) \in 1..Cardinality(S)
         /\ \A i, j \in S :
              Cardinality({k \in S : k <= i}) = Cardinality({k \in S : k <= j}) => i = j
<1>1. ASSUME NEW i \in S
      PROVE  /\ IsFiniteSet({k \in S : k <= i})
             /\ Cardinality({k \in S : k <= i}) \in 1..Cardinality(S)
  <2>1. PICK T : T = {k \in S : k <= i}
    OBVIOUS
  <2>2. T \subseteq S /\ i \in T
    BY <2>1
  <2>3. IsFiniteSet(T) /\ Cardinality(T) <= Cardinality(S)
    BY <2>2, FS_Subset
  <2>4. Cardinality(T) \in Nat /\ Cardinality(S) \in Nat /\ Cardinality(T) # 0
    BY <2>2, <2>3, FS_CardinalityType, FS_EmptySet
  <2> QED BY <2>1, <2>3, <2>4
<1>2. ASSUME NEW i \in S, NEW j \in S, i < j
      PROVE  Cardinality({k \in S : k <= i}) < Cardinality({k \in S : k <= j})
  <2>1. PICK I, J : I = {k \in S : k <= i} /\ J = {k \in S : k <= j}
    OBVIOUS
  <2>2. IsFiniteSet(J) /\ j \in J /\ I \subseteq J \ {j}
    <3>1. IsFiniteSet(J)
      BY <1>1, <2>1
    <3>2. i \in Nat /\ j \in Nat /\ \A k \in S : k \in Nat
      OBVIOUS
    <3>3. \A k \in S : k <= i => k <= j /\ k # j
      BY <1>2, <3>2
    <3>4. j <= j
      BY <3>2
    <3> QED BY <2>1, <3>1, <3>3, <3>4
  <2>3. /\ IsFiniteSet(J \ {j}) /\ Cardinality(J \ {j}) = Cardinality(J) - 1
        /\ Cardinality(J) \in Nat /\ Cardinality(I) <= Cardinality(J \ {j})
        /\ Cardinality(I) \in Nat
    <3>1. IsFiniteSet(J \ {j}) /\ Cardinality(J \ {j}) = Cardinality(J) - 1
      BY <2>2, FS_RemoveElement
    <3>2. IsFiniteSet(I) /\ Cardinality(I) <= Cardinality(J \ {j})
      BY <2>2, <3>1, FS_Subset
    <3> QED BY <2>2, <3>1, <3>2, FS_CardinalityType
  <2> QED BY <2>1, <2>3
<1>3. ASSUME NEW i \in S, NEW j \in S,
             Cardinality({k \in S : k <= i}) = Cardinality({k \in S : k <= j})
      PROVE  i = j
  <2>1. ~(i < j) /\ ~(j < i)
    <3>1. Cardinality({k \in S : k <= i}) \in Nat /\ Cardinality({k \in S : k <= j}) \in Nat
      BY <1>1, FS_CardinalityType
    <3> QED BY <1>2, <1>3, <3>1
  <2> QED BY <2>1
<1> QED BY <1>1, <1>3

\* Files without identity get an object each, after all the others, or none.
LEMMA AccountKeepsObjects ==
  ASSUME KnowledgeInv, LinksInv, ObjectsInv, AccountIdentityLess
  PROVE  ObjectsInv'
<1>0. PICK anonymous, linked :
        /\ anonymous = {i \in Nodes : IsFile(i) /\ object_index[i] = 0}
        /\ linked = {i \in anonymous : table[i].link # NotObserved}
  OBVIOUS
<1> DEFINE place(i) == Cardinality({j \in linked : j <= i})
           nth(k) == CHOOSE i \in linked : place(i) = k
           record(k) == ObjectRecord(None, 1, table[nth(k)].link,
                                     derive(table[nth(k)].link, 1),
                                     value(table[nth(k)].alloc))
           recorded == [k \in 1..Cardinality(linked) |-> record(k)]
<1>1. /\ g_pc = "objects" /\ g_pc' = "walk" /\ to_normalize = {}
      /\ objects' = objects \o recorded
      /\ object_index' = [i \in Nodes |-> IF i \in linked THEN Len(objects) + place(i)
                                          ELSE object_index[i]]
      /\ UNCHANGED <<facts, to_normalize>> /\ GTypes
  BY <1>0 DEF AccountIdentityLess, KnowledgeInv
<1>2. /\ table' = table /\ Identified' = Identified /\ Anonymous' = Anonymous
      /\ Allocated' = Allocated /\ \A x : WeightOf(x)' = WeightOf(x)
      /\ Identified \subseteq Nodes /\ Anonymous \subseteq Nodes
  BY <1>1, WeightsKept DEF Identified, Anonymous
<1>3. \A i \in Identified :
        /\ object_index[i] \in 1..Len(objects)
        /\ objects[object_index[i]].oid = table[i].oid
        /\ objects[object_index[i]].weight = WeightOf(table[i].oid)
  <2>1. \A x : Judged(x)
    BY <1>1 DEF Judged
  <2> QED BY <1>1, <2>1 DEF LinksInv, ObjectsInv, Identified
<1>4. Len(objects) \in Nat /\ IsVector(objects)
  BY SMTT(60) DEF LinksInv, IsVector
<1>5. /\ linked \subseteq Anonymous /\ linked \subseteq Nodes
      /\ \A i \in Anonymous : object_index[i] = 0
  <2>1. \A i \in Nodes : IsFile(i) /\ object_index[i] = 0 => i \in Anonymous
    BY <1>3, <1>4 DEF Identified, Anonymous
  <2> QED BY <1>0, <1>1, <1>2, <2>1 DEF LinksInv
<1>6. IsFiniteSet(linked) /\ linked \subseteq Nat /\ Cardinality(linked) \in Nat
  <2>1. IsFiniteSet(Nodes) /\ Nodes \subseteq Nat
    BY <1>1, LinksAreTyped DEF Nodes
  <2> QED BY <1>5, <2>1, FS_Subset, FS_CardinalityType
<1>7. /\ \A i \in linked : place(i) \in 1..Cardinality(linked)
      /\ \A i, j \in linked : place(i) = place(j) => i = j
  BY <1>6, PlacesDiffer
<1>8. \A i \in linked : nth(place(i)) = i
  <2> HIDE DEF place
  <2> QED BY <1>7
<1>9. \A i \in linked : recorded[place(i)].oid = None
                       /\ recorded[place(i)].weight = Allocated[i]
  <2>1. ASSUME NEW i \in linked
        PROVE  recorded[place(i)].oid = None /\ recorded[place(i)].weight = Allocated[i]
    <3>1. recorded[place(i)] = record(place(i))
      BY <1>7
    <3>2. record(place(i)) = ObjectRecord(None, 1, table[i].link, derive(table[i].link, 1),
                                          value(table[i].alloc))
      <4> HIDE DEF place, nth
      <4> QED BY <1>8
    <3>3. i \in Nodes
      BY <1>5
    <3> QED BY <3>1, <3>2, <3>3 DEF ObjectRecord, Allocated
  <2> QED BY <2>1
<1>10. Len(recorded) = Cardinality(linked) /\ IsVector(recorded)
  <2> HIDE DEF record
  <2>1. recorded = [k \in 1..Cardinality(linked) |-> recorded[k]]
    OBVIOUS
  <2>2. Len(recorded) = Cardinality(linked)
    BY <1>6
  <2> HIDE DEF recorded
  <2> QED BY <1>6, <2>1, <2>2 DEF IsVector
<1> HIDE DEF recorded, nth
<1>11. /\ Len(objects') = Len(objects) + Cardinality(linked)
       /\ \A k \in 1..Len(objects) : objects'[k] = objects[k]
       /\ \A k \in 1..Cardinality(linked) : objects'[Len(objects) + k] = recorded[k]
  <2>1. PICK e : e = recorded
    OBVIOUS
  <2>2. IsVector(e) /\ Len(e) = Cardinality(linked) /\ objects' = objects \o e
    BY <1>1, <1>10, <2>1
  <2>3. /\ Len(objects \o e) = Len(objects) + Len(e)
        /\ \A k \in 1..Len(objects) : (objects \o e)[k] = objects[k]
        /\ \A k \in 1..Len(e) : (objects \o e)[Len(objects) + k] = e[k]
    <3>1. PICK s : s = objects
      OBVIOUS
    <3>2. IsVector(s) /\ IsVector(e)
      BY <1>4, <2>2, <3>1
    <3>3. Len(s \o e) = Len(s) + Len(e)
      BY <3>2, VectorExtended
    <3>4. \A k \in 1..Len(s) : (s \o e)[k] = s[k]
      BY <3>2, VectorExtended
    <3>5. \A k \in 1..Len(e) : (s \o e)[Len(s) + k] = e[k]
      BY <3>2, VectorExtended
    <3> QED BY <3>1, <3>3, <3>4, <3>5
  <2> QED BY <2>1, <2>2, <2>3
<1>12. \A i \in Identified : object_index'[i] = object_index[i]
  <2>1. \A i \in Identified : i \notin linked /\ i \in Nodes
    BY <1>2, <1>5 DEF Identified, Anonymous
  <2> QED BY <1>1, <2>1
<1>13. ASSUME NEW i \in Anonymous, object_index'[i] # 0
       PROVE  /\ object_index'[i] \in 1..Len(objects')
              /\ objects'[object_index'[i]].oid = None
              /\ objects'[object_index'[i]].weight = Allocated[i]
              /\ \A j \in Anonymous : object_index'[j] = object_index'[i] => j = i
  <2>1. \A j \in Anonymous : object_index'[j] = IF j \in linked THEN Len(objects) + place(j) ELSE 0
    BY <1>1, <1>2, <1>5
  <2>2. i \in linked /\ object_index'[i] = Len(objects) + place(i)
    BY <1>13, <2>1
  <2>3. place(i) \in 1..Cardinality(linked) /\ place(i) \in Nat
    BY <1>6, <1>7, <2>2
  <2>4. object_index'[i] \in 1..Len(objects')
    BY <1>4, <1>6, <1>11, <2>2, <2>3
  <2>5. objects'[object_index'[i]] = recorded[place(i)]
    BY <1>11, <2>2, <2>3
  <2>6. ASSUME NEW j \in Anonymous, object_index'[j] = object_index'[i] PROVE j = i
    <3>1. j \in linked /\ object_index'[j] = Len(objects) + place(j)
      BY <1>13, <2>1, <2>6
    <3>2. place(j) \in Nat
      BY <1>6, <1>7, <3>1
    <3>3. place(j) = place(i)
      BY <1>4, <2>2, <2>3, <2>6, <3>1, <3>2
    <3> QED BY <1>7, <2>2, <3>1, <3>3
  <2> QED BY <1>9, <2>2, <2>4, <2>5, <2>6
<1>14. \A i, j \in Identified : table[i].oid = table[j].oid => object_index'[i] = object_index'[j]
  <2>1. \A i, j \in Identified : table[i].oid = table[j].oid => object_index[i] = object_index[j]
    BY <1>1 DEF ObjectsInv
  <2> QED BY <1>12, <2>1
<1>15. \A i \in Identified :
         /\ objects'[object_index'[i]].oid = table[i].oid
         /\ objects'[object_index'[i]].weight = WeightOf(table[i].oid)
  BY <1>3, <1>11, <1>12
<1>16. (\A i \in Identified :
          /\ objects[object_index[i]].oid = table[i].oid
          /\ objects[object_index[i]].weight = WeightOf(table[i].oid))'
  BY <1>2, <1>15
<1>17. (\A i, j \in Identified :
          table[i].oid = table[j].oid => object_index[i] = object_index[j])'
  BY <1>2, <1>14
<1>18. (\A i \in Anonymous : object_index[i] # 0 =>
          /\ object_index[i] \in 1..Len(objects)
          /\ objects[object_index[i]].oid = None
          /\ objects[object_index[i]].weight = Allocated[i]
          /\ \A j \in Anonymous : object_index[j] = object_index[i] => j = i)'
  BY <1>2, <1>13
<1> QED BY <1>1, <1>16, <1>17, <1>18 DEF ObjectsInv

\* Every step of the builder and of compute_aggregates.
LEMMA ObjectsSteps ==
  ASSUME KnowledgeInv, LinksInv, ObjectsInv, [ANext]_gvars
  PROVE  ObjectsInv'
<1>1. ASSUME NEW row \in AllRows, NEW p \in 0..Len(table), Ingest(row, p)
      PROVE  ObjectsInv'
  BY <1>1 DEF Ingest, ObjectsInv
<1>2. CASE Begin
  BY <1>2, BeginKeepsObjects
<1>3. ASSUME NEW oid \in FileOids, NormalizeFileObject(oid) PROVE ObjectsInv'
  BY <1>3, NormalizeFileKeepsObjects
<1>4. ASSUME NEW d \in Nodes, NormalizeDirectory(d) PROVE ObjectsInv'
  BY <1>4, NormalizeDirectoryKeepsObjects
<1>5. CASE AccountIdentityLess
  BY <1>5, AccountKeepsObjects
<1>6. CASE Descend
  BY <1>6, ObjectsStand DEF Descend, evidence
<1>7. CASE Leave
  BY <1>7, ObjectsStand DEF Leave, evidence
<1>8. CASE SetLeaves
  BY <1>8, ObjectsStand DEF SetLeaves, evidence
<1>9. CASE AggregateDirectory
  BY <1>9, ObjectsStand DEF AggregateDirectory
<1>10. CASE CutSlices
  BY <1>10, ObjectsStand DEF CutSlices, evidence
<1>11. CASE UNCHANGED gvars
  BY <1>11, ObjectsStand DEF gvars, evidence
<1> QED BY <1>1, <1>2, <1>3, <1>4, <1>5, <1>6, <1>7, <1>8, <1>9, <1>10, <1>11
        DEF ANext, Compute, AllRows
---------------------------------------------------------------------------
(* The path on the stack *)

StackNodes == {stack[k].node : k \in Places}

\* The stack holds all that is above its top.
PathInv == stack # <<>> => StackNodes = Above(Top.node)

\* What is above an entry that was visited was visited.
LEMMA VisitedAbove ==
  ASSUME KnowledgeInv, NEW i \in Nodes, i \in visited
  PROVE  Above(i) \subseteq visited
<1>1. GTypes /\ TableGrows /\ VisitedInv
  BY DEF KnowledgeInv
<1>2. PICK P : P = {j \in Nodes : j \in visited => Above(j) \subseteq visited}
  OBVIOUS
<1>3. ASSUME NEW j \in Nodes, j # 1 => parent[j] \in P
      PROVE  j \in P
  <2>1. SUFFICES ASSUME j \in visited PROVE Above(j) \subseteq visited
    BY <1>2
  <2>2. Above(j) = IF j = 1 THEN {1} ELSE {j} \union Above(parent[j])
    BY <1>1, AboveIsPath
  <2>3. j # 1 => parent[j] \in visited /\ Above(parent[j]) \subseteq visited
    BY <1>1, <1>2, <1>3, <2>1 DEF VisitedInv
  <2> QED BY <2>1, <2>2, <2>3
<1>4. Nodes \subseteq P
  BY <1>1, <1>3, FromTheRoot
<1> QED BY <1>2, <1>4

\* One step down: the child is new to the traversal.
LEMMA SteppedDown ==
  ASSUME KnowledgeInv, Descend
  PROVE  \E child \in Nodes :
           /\ child \notin visited /\ visited' = visited \union {child}
           /\ stack # <<>> /\ stack' # <<>> /\ Top'.node = child
           /\ child # 1 /\ parent[child] = Top.node /\ Top.node \in Nodes
           /\ StackNodes' = StackNodes \union {child}
<1>0. PICK n, child, advanced, frame, Frame :
        /\ n = Len(stack) /\ child = Top.next
        /\ advanced = [stack EXCEPT ![Len(stack)].next = next_sibling(Top.next)]
        /\ frame = [node |-> Top.next, next |-> first_child(Top.next)]
        /\ Frame = [node : Nodes, next : {0} \union Nodes]
  OBVIOUS
<1>1. /\ GTypes /\ TableGrows /\ StackInv /\ stack # <<>> /\ child # 0
      /\ UNCHANGED facts
  BY <1>0 DEF Descend, KnowledgeInv
<1>2. /\ stack \in Seq(Frame) /\ n = Len(stack) /\ n \in Nat /\ n > 0
      /\ n \in Places /\ Places = 1..n
  BY <1>0, <1>1, EmptySeq DEF GTypes, Places
<1>3. stack[n] \in Frame /\ Top = stack[n] /\ Top.next = child /\ Top.node \in Nodes
  <2>1. stack[n] \in Frame
    BY <1>2
  <2> QED BY <1>0, <2>1 DEF Top
<1>4. child \in ChildrenOf(Top.node) /\ child \notin visited
  <2>1. child \in ChildrenOf(Top.node)
    BY <1>1, <1>2, <1>3 DEF StackInv
  <2>2. child \in Nat
    BY <2>1 DEF ChildrenOf, Nodes
  <2>3. child \in visited <=> child = 0 \/ child < child
    BY <1>1, <1>2, <1>3, <2>1 DEF StackInv
  <2> QED BY <1>1, <2>1, <2>2, <2>3
<1>5. child \in Nodes /\ child # 1 /\ parent[child] = Top.node
  BY <1>1, <1>3, <1>4, ParentsAreOlder
<1>6. visited' = visited \union {child} /\ stack' = Append(advanced, frame)
  BY <1>0, <1>4 DEF Descend
<1>7. ASSUME NEW i \in Nodes
      PROVE  first_child(i) \in {0} \union Nodes /\ next_sibling(i) \in {0} \union Nodes
  <2>1. /\ first_child(i) # 0 => first_child(i) \in ChildrenOf(i)
        /\ next_sibling(i) # 0 => next_sibling(i) \in ChildrenOf(parent[i])
    BY <1>1, ListsInOrder
  <2> QED BY <2>1 DEF ChildrenOf
<1>8. /\ advanced \in Seq(Frame) /\ Len(advanced) = n
      /\ \A k \in 1..n : advanced[k].node = stack[k].node
  <2>1. PICK e \in Frame : e = [stack[n] EXCEPT !.next = next_sibling(child)]
    BY <1>0, <1>3, <1>5, <1>7
  <2>2. e.node = stack[n].node
    BY <1>0, <1>3, <2>1
  <2>3. advanced = [stack EXCEPT ![n] = e]
    BY <1>0, <2>1, Zenon
  <2> QED BY <1>0, <1>2, <2>2, <2>3, ExceptSeq
<1>9. /\ Len(stack') = n + 1 /\ stack'[n + 1] = frame
      /\ \A k \in 1..n : stack'[k] = advanced[k]
  <2>1. frame \in Frame
    BY <1>0, <1>5, <1>7
  <2> QED BY <1>6, <1>8, <2>1, AppendProperties
<1>10. frame.node = child
  BY <1>0
<1>11. StackNodes' = StackNodes \union {child}
  <2>1. Places' = 1..(n + 1) /\ \A k : k \in 1..(n + 1) <=> k \in 1..n \/ k = n + 1
    BY <1>2, <1>9 DEF Places
  <2>2. \A k \in 1..n : stack'[k].node = stack[k].node
    BY <1>8, <1>9
  <2> QED BY <1>2, <1>9, <1>10, <2>1, <2>2 DEF StackNodes
<1>12. stack' # <<>> /\ Top'.node = child
  <2>1. n + 1 # 0
    BY <1>2
  <2> QED BY <1>9, <1>10, <2>1, EmptySeq DEF Top
<1> QED BY <1>1, <1>3, <1>4, <1>5, <1>6, <1>11, <1>12

\* One step up: what was finished is below what is then the top.
LEMMA SteppedUp ==
  ASSUME KnowledgeInv, PathInv, Leave
  PROVE  \E curr \in Nodes :
           /\ curr = Top.node /\ stack # <<>> /\ curr \in visited /\ ~Finished(curr)
           /\ \A i : Finished(i)' <=> Finished(i) \/ i = curr
           /\ StackNodes = Above(curr) /\ StackNodes' = StackNodes \ {curr}
           /\ IF Len(stack) > 1
              THEN /\ curr # 1 /\ stack' # <<>>
                   /\ Top'.node = parent[curr] /\ stack[Len(stack) - 1].node = parent[curr]
              ELSE curr = 1 /\ stack' = <<>>
<1>0. PICK n, m, curr, Frame :
        /\ n = Len(stack) /\ m = Len(post_order) /\ curr = Top.node
        /\ Frame = [node : Nodes, next : {0} \union Nodes]
  OBVIOUS
<1>1. /\ GTypes /\ TableGrows /\ StackInv /\ VisitedInv /\ stack # <<>>
      /\ stack' = SubSeq(stack, 1, n - 1) /\ post_order' = Append(post_order, curr)
      /\ UNCHANGED facts
  BY <1>0 DEF Leave, KnowledgeInv, Front
<1>2. /\ stack \in Seq(Frame) /\ n = Len(stack) /\ n \in Nat /\ n > 0 /\ Places = 1..n
      /\ post_order \in Seq(Nodes) /\ m \in Nat /\ Nodes \subseteq Nat
  BY <1>0, <1>1, EmptySeq, SMTT(60) DEF GTypes, Places, Nodes
<1>3. \A k \in 1..n : stack[k] \in Frame /\ stack[k].node \in Nodes
  <2>1. \A k \in 1..n : stack[k] \in Frame
    BY <1>2
  <2> QED BY <1>0, <2>1
<1>4. n \in 1..n /\ curr = stack[n].node /\ curr \in Nodes /\ curr \in visited /\ ~Finished(curr)
  BY <1>0, <1>1, <1>2, <1>3 DEF Top, VisitedInv
<1>5. \A i : Finished(i)' <=> Finished(i) \/ i = curr
  <2>1. /\ Len(post_order') = m + 1 /\ post_order'[m + 1] = curr
        /\ \A k \in 1..m : post_order'[k] = post_order[k]
    BY <1>0, <1>1, <1>2, <1>4, AppendProperties
  <2>2. \A k : k \in 1..(m + 1) <=> k \in 1..m \/ k = m + 1
    BY <1>2
  <2> QED BY <1>0, <2>1, <2>2 DEF Finished
<1>6. StackNodes = Above(curr)
  BY <1>0, <1>1 DEF PathInv
<1>7. /\ Len(stack') = n - 1 /\ Places' = 1..(n - 1)
      /\ \A k \in 1..(n - 1) : stack'[k] = stack[k] /\ k \in 1..n /\ k # n
  <2>1. \A k \in 1..(n - 1) : stack[k] \in Frame /\ k \in 1..n /\ k # n
    BY <1>2, <1>3
  <2>2. Len(stack') = n - 1 /\ \A k \in 1..(n - 1) : stack'[k] = stack[k]
    <3>1. \A k \in 1..(n - 1) : stack[k] \in Frame
      BY <2>1
    <3> QED BY <1>1, <1>2, <3>1, SubSeqProperties
  <2> QED BY <2>1, <2>2 DEF Places
<1>8. \A k \in 1..(n - 1) : stack[k].node < curr
  <2>1. \A j, k \in 1..n : j < k => stack[j].node < stack[k].node
    BY <1>1, <1>2 DEF StackInv
  <2>2. \A k \in 1..(n - 1) : k \in 1..n /\ n \in 1..n /\ k < n
    BY <1>2
  <2>3. \A k \in 1..(n - 1) : stack[k].node < stack[n].node
    BY <2>1, <2>2
  <2> QED BY <1>4, <2>3
<1>9. StackNodes' = StackNodes \ {curr}
  <2>1. StackNodes' = {stack[k].node : k \in 1..(n - 1)}
    BY <1>7 DEF StackNodes
  <2>2. \A k \in 1..n : k = n \/ k \in 1..(n - 1)
    BY <1>2
  <2>3. \A k \in 1..(n - 1) : stack[k].node # curr
    <3>1. curr \in Nat /\ \A k \in 1..(n - 1) : stack[k].node \in Nat
      BY <1>2, <1>3, <1>4, <1>7
    <3> QED BY <1>8, <3>1
  <2>4. StackNodes = {stack[k].node : k \in 1..n}
    BY <1>2 DEF StackNodes
  <2>5. curr = stack[n].node /\ \A k \in 1..(n - 1) : k \in 1..n
    BY <1>4, <1>7
  <2> QED BY <2>1, <2>2, <2>3, <2>4, <2>5
<1>10. Above(curr) = IF curr = 1 THEN {1} ELSE {curr} \union Above(parent[curr])
  BY <1>1, <1>4, AboveIsPath
<1>11. CASE n > 1
  <2>1. n - 1 \in 1..(n - 1) /\ n - 1 \in 1..n
    BY <1>2, <1>11
  <2>2. PICK p : p = stack[n - 1].node
    OBVIOUS
  <2>3. p \in Nodes /\ p < curr /\ p \in StackNodes
    BY <1>2, <1>3, <1>8, <2>1, <2>2 DEF StackNodes
  <2>4. curr # 1
    BY <1>2, <1>4, <1>6, <1>10, <2>3
  <2>5. p \in Above(parent[curr]) /\ parent[curr] \in Nodes /\ parent[curr] < curr
    BY <1>1, <1>2, <1>4, <1>6, <1>10, <2>3, <2>4, ParentsAreOlder
  <2>6. p <= parent[curr] /\ parent[curr] \in StackNodes
    BY <1>1, <1>6, <1>10, <2>4, <2>5, AboveIsClosed
  <2>7. PICK k \in 1..n : stack[k].node = parent[curr]
    BY <1>2, <2>6 DEF StackNodes
  <2>8. k # n /\ (k < n - 1 => stack[k].node < p)
    BY <1>1, <1>2, <1>4, <2>1, <2>2, <2>5, <2>7 DEF StackInv
  <2>9. p = parent[curr]
    <3>1. p \in Nat /\ parent[curr] \in Nat
      BY <1>2, <2>3, <2>5
    <3>2. ~(k < n - 1)
      BY <2>6, <2>7, <2>8, <3>1
    <3>3. k = n - 1
      BY <1>2, <2>7, <2>8, <3>2
    <3> QED BY <2>2, <2>7, <3>3
  <2>10. stack' # <<>> /\ Top'.node = p
    BY <1>7, <1>11, <2>1, <2>2, EmptySeq DEF Top
  <2> QED BY <1>0, <1>1, <1>4, <1>5, <1>6, <1>9, <1>11, <2>2, <2>4, <2>9, <2>10
<1>12. CASE n = 1
  <2>1. StackNodes = {curr}
    BY <1>2, <1>4, <1>12 DEF StackNodes
  <2>2. curr = 1
    BY <1>1, <1>4, <1>6, <2>1, AboveIsClosed
  <2>3. stack' = <<>>
    BY <1>1, <1>12
  <2> QED BY <1>0, <1>1, <1>4, <1>5, <1>6, <1>9, <1>12, <2>2, <2>3
<1> QED BY <1>2, <1>11, <1>12, SMTT(60)
---------------------------------------------------------------------------
(* The union-find *)

\* Each entry leads up the tree, but not past an entry of T that is above it.
LeadsUp(uf, T) ==
  /\ uf \in [Nodes -> Nodes]
  /\ \A i \in Nodes : /\ uf[i] \in Above(i)
                      /\ \A s \in Above(i) : s \in T => s \in Above(uf[i])

\* Finished entries lead to what is above them, the others to themselves; so
\* the root of a set is the ancestor recorded for it.
UnionInv ==
  g_pc \in {"objects", "walk"} =>
    /\ LeadsUp(uf_parent, StackNodes)
    /\ ancestor = [i \in Nodes |-> i]
    /\ \A i \in Nodes : uf_parent[i] = i <=> i = 1 \/ ~Finished(i)

\* Induction from the oldest entry on.
LEMMA FromTheOldest ==
  ASSUME NEW P, \A i \in Nodes : (\A j \in Nodes : j < i => j \in P) => i \in P
  PROVE  Nodes \subseteq P
<1> SUFFICES ASSUME ~(Nodes \subseteq P) PROVE FALSE
  OBVIOUS
<1>1. PICK T : T = {i \in Nodes : i \notin P}
  OBVIOUS
<1>2. T \subseteq Nat /\ T # {} /\ Nodes \subseteq Nat
  BY <1>1 DEF Nodes
<1>3. PICK i \in T : \A j \in T : i <= j
  BY <1>2, LeastExists
<1>4. i \in Nodes /\ i \notin P /\ i \in Nat
  BY <1>1, <1>2, <1>3
<1>5. PICK j \in Nodes : j < i /\ j \notin P
  BY <1>4
<1>6. j \in T /\ j \in Nat
  BY <1>1, <1>2, <1>5
<1> QED BY <1>3, <1>4, <1>5, <1>6

\* find_uf goes from an entry to the one it leads to.
LEMMA UfPathUnfolds ==
  ASSUME NEW uf, uf \in [Nodes -> Nodes], NEW i \in Nodes
  PROVE  UfPath(uf, i) = IF uf[i] = i THEN {i} ELSE {i} \union UfPath(uf, uf[i])
<1> DEFINE Next(h) == [j \in Nodes |-> IF uf[j] = j THEN {j} ELSE {j} \union h[uf[j]]]
<1> DEFINE Closed(S) == \A x \in S : uf[x] \in S
<1> DEFINE Reached(j) ==
      {x \in Nodes : \A S \in SUBSET Nodes : j \in S /\ Closed(S) => x \in S}
<1>1. \A j \in Nodes : uf[j] \in Nodes
  OBVIOUS
<1>2. ASSUME NEW j \in Nodes, uf[j] = j
      PROVE  Reached(j) = {j}
  <2>1. {j} \in SUBSET Nodes /\ Closed({j})
    BY <1>2
  <2> QED BY <2>1
<1>3. ASSUME NEW j \in Nodes
      PROVE  Reached(j) = {j} \union Reached(uf[j])
  <2>1. ASSUME NEW x \in Reached(j), x # j PROVE x \in Reached(uf[j])
    <3>1. SUFFICES ASSUME NEW S \in SUBSET Nodes, uf[j] \in S, Closed(S)
                   PROVE  x \in S
      OBVIOUS
    <3>2. S \union {j} \in SUBSET Nodes /\ Closed(S \union {j})
      BY <3>1
    <3> QED BY <2>1, <3>2
  <2>2. ASSUME NEW x \in Reached(uf[j]) PROVE x \in Reached(j)
    <3>1. SUFFICES ASSUME NEW S \in SUBSET Nodes, j \in S, Closed(S)
                   PROVE  x \in S
      OBVIOUS
    <3>2. uf[j] \in S
      BY <3>1
    <3> QED BY <2>2, <3>1, <3>2
  <2>3. j \in Reached(j)
    OBVIOUS
  <2> QED BY <2>1, <2>2, <2>3
<1>4. PICK all : all = [j \in Nodes |-> Reached(j)]
  OBVIOUS
<1>5. all = Next(all)
  <2>1. \A j \in Nodes : all[j] = IF uf[j] = j THEN {j} ELSE {j} \union all[uf[j]]
    BY <1>1, <1>2, <1>3, <1>4
  <2> QED BY <1>4, <2>1, ZenonT(60)
<1>6. PICK path : path = CHOOSE h : h = Next(h)
  OBVIOUS
<1>7. path = Next(path)
  BY <1>5, <1>6
<1>8. \A j : UfPath(uf, j) = path[j]
  BY <1>6 DEF UfPath
<1> QED BY <1>7, <1>8

\* The way from an entry leads up to one root.
LEMMA FindsRoot ==
  ASSUME GTypes, TableGrows, NEW T, NEW uf, LeadsUp(uf, T), NEW i \in Nodes
  PROVE  \E r \in UfPath(uf, i) :
           /\ uf[r] = r
           /\ \A j \in UfPath(uf, i) :
                /\ j \in Above(i) /\ r \in Above(j)
                /\ uf[j] = j => j = r
                /\ \A s \in Above(j) : s \in T => s \in Above(r)
<1>1. PICK P : P = {k \in Nodes :
        \E r \in UfPath(uf, k) :
           /\ uf[r] = r
           /\ \A j \in UfPath(uf, k) :
                /\ j \in Above(k) /\ r \in Above(j)
                /\ uf[j] = j => j = r
                /\ \A s \in Above(j) : s \in T => s \in Above(r)}
  OBVIOUS
<1>2. ASSUME NEW k \in Nodes, \A j \in Nodes : j < k => j \in P
      PROVE  k \in P
  <2>1. /\ uf \in [Nodes -> Nodes] /\ uf[k] \in Nodes /\ uf[k] \in Above(k) /\ k \in Above(k)
        /\ \A s \in Above(k) : s \in T => s \in Above(uf[k])
    BY AboveIsClosed DEF LeadsUp
  <2>2. UfPath(uf, k) = IF uf[k] = k THEN {k} ELSE {k} \union UfPath(uf, uf[k])
    BY <2>1, UfPathUnfolds
  <2>3. CASE uf[k] = k
    BY <1>1, <2>1, <2>2, <2>3
  <2>4. CASE uf[k] # k
    <3>1. uf[k] \in P
      <4>1. uf[k] <= k /\ k \in Nat /\ uf[k] \in Nat /\ uf[k] \in Nodes
        BY <2>1, AboveIsClosed, ParentsAreOlder
      <4>2. uf[k] < k
        BY <2>4, <4>1
      <4> QED BY <1>2, <4>1, <4>2
    <3>2. PICK r \in UfPath(uf, uf[k]) :
            /\ uf[r] = r
            /\ \A j \in UfPath(uf, uf[k]) :
                 /\ j \in Above(uf[k]) /\ r \in Above(j)
                 /\ uf[j] = j => j = r
                 /\ \A s \in Above(j) : s \in T => s \in Above(r)
      BY <1>1, <3>1
    <3>3. Above(uf[k]) \subseteq Above(k) /\ uf[k] \in UfPath(uf, uf[k])
      BY <2>1, AboveIsClosed, UfPathUnfolds
    <3>4. r \in Above(uf[k]) /\ \A s \in Above(uf[k]) : s \in T => s \in Above(r)
      BY <3>2, <3>3
    <3>5. \A j \in UfPath(uf, k) :
            /\ j \in Above(k) /\ r \in Above(j)
            /\ uf[j] = j => j = r
            /\ \A s \in Above(j) : s \in T => s \in Above(r)
      BY <2>1, <2>2, <2>4, <3>2, <3>3, <3>4
    <3> QED BY <1>1, <2>2, <2>4, <3>2, <3>5
  <2> QED BY <2>3, <2>4
<1>3. Nodes \subseteq P
  BY <1>2, FromTheOldest
<1> QED BY <1>1, <1>3

\* find_uf returns the root of an entry's set.
LEMMA FoundRoot ==
  ASSUME GTypes, TableGrows, NEW T, NEW uf, LeadsUp(uf, T), NEW i \in Nodes
  PROVE  /\ find_uf(uf, i) \in Nodes /\ uf[find_uf(uf, i)] = find_uf(uf, i)
         /\ \A j \in UfPath(uf, i) :
              /\ j \in Nodes /\ find_uf(uf, i) \in Above(j)
              /\ uf[j] = j => j = find_uf(uf, i)
              /\ \A s \in Above(j) : s \in T => s \in Above(find_uf(uf, i))
         /\ i \in UfPath(uf, i)
         /\ uf[i] = i => UfPath(uf, i) = {i}
<1>1. PICK r \in UfPath(uf, i) :
           /\ uf[r] = r
           /\ \A j \in UfPath(uf, i) :
                /\ j \in Above(i) /\ r \in Above(j)
                /\ uf[j] = j => j = r
                /\ \A s \in Above(j) : s \in T => s \in Above(r)
  BY FindsRoot
<1>2. find_uf(uf, i) = r
  BY <1>1 DEF find_uf
<1>3. Above(i) \subseteq Nodes
  BY AboveIsClosed
<1>4. UfPath(uf, i) = IF uf[i] = i THEN {i} ELSE {i} \union UfPath(uf, uf[i])
  BY UfPathUnfolds DEF LeadsUp
<1> QED BY <1>1, <1>2, <1>3, <1>4

\* Compressing the way changes neither where it leads nor the roots.
LEMMA Compresses ==
  ASSUME GTypes, TableGrows, NEW T, NEW uf, LeadsUp(uf, T), NEW i \in Nodes
  PROVE  /\ LeadsUp(compressed(uf, i), T)
         /\ \A j \in Nodes : compressed(uf, i)[j] = j <=> uf[j] = j
         /\ uf[i] = i => compressed(uf, i) = uf
<1>1. PICK r, W : r = find_uf(uf, i) /\ W = UfPath(uf, i)
  OBVIOUS
<1>2. /\ r \in Nodes /\ uf[r] = r /\ i \in W
      /\ \A j \in W : /\ j \in Nodes /\ r \in Above(j)
                      /\ uf[j] = j => j = r
                      /\ \A s \in Above(j) : s \in T => s \in Above(r)
      /\ uf[i] = i => W = {i}
  BY <1>1, FoundRoot
<1>3. PICK c : c = compressed(uf, i)
  OBVIOUS
<1>4. uf \in [Nodes -> Nodes] /\ c = [j \in Nodes |-> IF j \in W THEN r ELSE uf[j]]
  BY <1>1, <1>3 DEF compressed, LeadsUp
<1>5. LeadsUp(c, T)
  <2>1. c \in [Nodes -> Nodes]
    BY <1>2, <1>4
  <2>2. ASSUME NEW j \in Nodes
        PROVE  /\ c[j] \in Above(j)
               /\ \A s \in Above(j) : s \in T => s \in Above(c[j])
    <3>1. CASE j \in W
      BY <1>2, <1>4, <3>1
    <3>2. CASE j \notin W
      BY <1>4, <3>2 DEF LeadsUp
    <3> QED BY <3>1, <3>2
  <2> QED BY <2>1, <2>2 DEF LeadsUp
<1>6. \A j \in Nodes : c[j] = j <=> uf[j] = j
  BY <1>2, <1>4
<1>7. uf[i] = i => c = uf
  BY <1>2, <1>4
<1> QED BY <1>3, <1>5, <1>6, <1>7
---------------------------------------------------------------------------
(* The occurrences of an object *)

\* The entries of object o that are finished.
Occurrences(o) == {i \in Nodes : IsFile(i) /\ Finished(i) /\ object_index[i] = o}

\* last_occurrence is below every directory on the stack that any other
\* occurrence is below.
OccurrenceInv ==
  g_pc = "walk" =>
    /\ last_occurrence \in [1..Len(objects) -> {0} \union Nodes]
    /\ \A o \in 1..Len(objects) : objects[o].weight > 0 =>
         IF last_occurrence[o] = 0
         THEN Occurrences(o) = {}
         ELSE /\ last_occurrence[o] \in Occurrences(o)
              /\ \A i \in Occurrences(o) : \A d \in Above(i) :
                   d \in StackNodes => d \in Above(last_occurrence[o])

\* Allocations are naturals, and so are the weights.
LEMMA WeightIsNat ==
  ASSUME GTypes, NEW oid
  PROVE  WeightOf(oid) \in Nat
<1>1. \A i \in Nodes : IsFile(i) => table[i].alloc \in Nat \union {None}
  <2>1. \A i \in Nodes : table[i] \in AllRows
    BY DEF GTypes, Nodes
  <2>2. ASSUME NEW row \in AllRows, row.kind = "File" PROVE row.alloc \in Nat \union {None}
    <3>1. PICK f \in Families : row \in Rows(f)
      BY DEF AllRows
    <3>2. row.alloc \in f.allocs
      BY <2>2, <3>1 DEF Rows
    <3> QED BY <3>2, FamiliesAssumption
  <2> QED BY <2>1, <2>2 DEF IsFile
<1>2. KnownAllocs(Aliases(oid)) \subseteq Nat
  BY <1>1 DEF KnownAllocs, Aliases
<1> QED BY <1>2, MinIsLeast DEF WeightOf, LeastOrNil

\* A file's object is its own, or that of all the files with its identity.
LEMMA ObjectOfFile ==
  ASSUME KnowledgeInv, LinksInv, ObjectsInv, g_pc \notin {"ingesting", "objects"},
         NEW i \in Nodes, IsFile(i)
  PROVE  /\ i \in Identified \/ i \in Anonymous
         /\ i \in Identified => object_index[i] # 0
         /\ object_index[i] # 0 =>
              /\ object_index[i] \in 1..Len(objects)
              /\ objects[object_index[i]].oid = table[i].oid
              /\ objects[object_index[i]].weight = IF i \in Identified
                                                   THEN WeightOf(table[i].oid)
                                                   ELSE Allocated[i]
              /\ objects[object_index[i]].weight \in Nat
<1>1. GTypes /\ \A x : Judged(x)
  BY DEF KnowledgeInv, InPhase, Judged
<1>2. i \in Identified \/ i \in Anonymous
  BY DEF Identified, Anonymous
<1>3. CASE i \in Identified
  <2>1. object_index[i] \in 1..Len(objects)
    BY <1>1, <1>3 DEF LinksInv, Identified
  <2>2. Len(objects) \in Nat
    BY DEF LinksInv, IsVector
  <2> QED BY <1>1, <1>2, <1>3, <2>1, <2>2, WeightIsNat DEF ObjectsInv
<1>4. CASE i \in Anonymous
  <2>1. i \notin Identified /\ table[i].oid = None
    BY <1>4 DEF Identified, Anonymous
  <2>2. Allocated[i] \in Nat
    BY <1>1, SizesAreTyped
  <2> QED BY <1>4, <2>1, <2>2 DEF ObjectsInv
<1> QED BY <1>2, <1>3, <1>4

\* What leaving an entry compares: it occurs again exactly if another entry of
\* its object is finished, and then both have the same identity.
LEMMA OccursAgain ==
  ASSUME KnowledgeInv, LinksInv, ObjectsInv, OccurrenceInv, g_pc = "walk",
         NEW curr \in Nodes, ~Finished(curr), IsFile(curr), object_index[curr] # 0,
         objects[object_index[curr]].weight > 0
  PROVE  LET prev == last_occurrence[object_index[curr]]
         IN  IF prev = 0
             THEN Occurrences(object_index[curr]) = {}
             ELSE /\ prev \in Nodes /\ Finished(prev)
                  /\ curr \in Identified /\ prev \in Identified
                  /\ table[prev].oid = table[curr].oid
                  /\ \A i \in Occurrences(object_index[curr]) : \A d \in Above(i) :
                       d \in StackNodes => d \in Above(prev)
<1>1. PICK o, prev : o = object_index[curr] /\ prev = last_occurrence[o]
  OBVIOUS
<1>2. /\ o \in 1..Len(objects) /\ objects[o].oid = table[curr].oid
      /\ curr \in Identified \/ curr \in Anonymous
  BY <1>1, ObjectOfFile
<1>3. IF prev = 0
      THEN Occurrences(o) = {}
      ELSE /\ prev \in Occurrences(o)
           /\ \A i \in Occurrences(o) : \A d \in Above(i) :
                d \in StackNodes => d \in Above(prev)
  BY <1>1, <1>2 DEF OccurrenceInv
<1>4. ASSUME prev # 0
      PROVE  /\ prev \in Nodes /\ Finished(prev)
             /\ curr \in Identified /\ prev \in Identified
             /\ table[prev].oid = table[curr].oid
  <2>1. prev \in Nodes /\ Finished(prev) /\ IsFile(prev) /\ object_index[prev] = o
    BY <1>3, <1>4 DEF Occurrences
  <2>2. table[prev].oid = table[curr].oid
    BY <1>1, <1>2, <2>1, ObjectOfFile
  <2>3. curr \in Anonymous /\ prev \in Anonymous => prev = curr
    BY <1>1, <2>1 DEF ObjectsInv
  <2>4. table[curr].oid # None
    BY <1>2, <2>1, <2>2, <2>3 DEF Identified, Anonymous
  <2> QED BY <2>1, <2>2, <2>4 DEF Identified
<1> QED BY <1>1, <1>3, <1>4

---------------------------------------------------------------------------
(* The traversal *)

\* The root of the set of a finished entry is the lowest common ancestor of
\* that entry and the one on top of the stack.
LEMMA RootIsCommon ==
  ASSUME KnowledgeInv, PathInv, UnionInv, g_pc = "walk", stack # <<>>,
         NEW i \in Nodes, Finished(i)
  PROVE  \E r \in Nodes :
           /\ r = ancestor[find_uf(uf_parent, i)]
           /\ \A d \in Nodes : d \in Above(r) <=> d \in Above(i) /\ d \in Above(Top.node)
<1>1. /\ GTypes /\ TableGrows /\ VisitedInv
      /\ LeadsUp(uf_parent, StackNodes) /\ ancestor = [j \in Nodes |-> j]
      /\ \A j \in Nodes : uf_parent[j] = j <=> j = 1 \/ ~Finished(j)
      /\ StackNodes = Above(Top.node)
  BY DEF KnowledgeInv, PathInv, UnionInv
<1>2. PICK r : r = find_uf(uf_parent, i)
  OBVIOUS
<1>3. /\ r \in Nodes /\ uf_parent[r] = r /\ r \in Above(i)
      /\ \A s \in Above(i) : s \in StackNodes => s \in Above(r)
  BY <1>1, <1>2, FoundRoot
<1>4. ancestor[find_uf(uf_parent, i)] = r
  BY <1>1, <1>2, <1>3
<1>5. Top.node \in Nodes
  <2>1. PICK n, Frame : n = Len(stack) /\ Frame = [node : Nodes, next : {0} \union Nodes]
    OBVIOUS
  <2>2. stack \in Seq(Frame) /\ n \in 1..Len(stack)
    BY <1>1, <2>1, EmptySeq DEF GTypes
  <2>3. stack[n] \in Frame
    BY <2>2
  <2> QED BY <2>1, <2>3 DEF Top
<1>6. r \in StackNodes
  <2>1. CASE r = 1
    BY <1>1, <1>5, <2>1, AboveIsClosed
  <2>2. CASE ~Finished(r)
    <3>1. i \in visited
      BY <1>1 DEF VisitedInv
    <3>2. r \in visited
      BY <1>3, <3>1, VisitedAbove
    <3> QED BY <1>1, <2>2, <3>2 DEF VisitedInv, StackNodes
  <2> QED BY <1>1, <1>3, <2>1, <2>2
<1>7. Above(r) \subseteq Above(i) /\ Above(r) \subseteq Above(Top.node)
  BY <1>1, <1>3, <1>5, <1>6, AboveIsClosed
<1> QED BY <1>1, <1>3, <1>4, <1>7

\* A step down keeps the stack a path.
LEMMA DescendKeepsPath ==
  ASSUME KnowledgeInv, PathInv, Descend
  PROVE  PathInv'
<1>1. GTypes /\ TableGrows /\ UNCHANGED facts
  BY DEF KnowledgeInv, Descend
<1>2. PICK child \in Nodes :
           /\ stack # <<>> /\ stack' # <<>> /\ Top'.node = child
           /\ child # 1 /\ parent[child] = Top.node
           /\ StackNodes' = StackNodes \union {child}
  BY SteppedDown
<1>3. \A i : Above(i)' = Above(i)
  BY <1>1 DEF facts, Above, Nodes
<1>4. Above(child) = {child} \union Above(Top.node)
  BY <1>1, <1>2, AboveIsPath
<1> QED BY <1>2, <1>3, <1>4 DEF PathInv

\* A step up keeps the stack a path.
LEMMA LeaveKeepsPath ==
  ASSUME KnowledgeInv, PathInv, Leave
  PROVE  PathInv'
<1>1. GTypes /\ TableGrows /\ UNCHANGED facts
  BY DEF KnowledgeInv, Leave
<1>2. PICK curr \in Nodes :
           /\ StackNodes = Above(curr) /\ StackNodes' = StackNodes \ {curr}
           /\ \/ curr # 1 /\ stack' # <<>> /\ Top'.node = parent[curr]
              \/ stack' = <<>>
  BY SteppedUp
<1>3. \A i : Above(i)' = Above(i)
  BY <1>1 DEF facts, Above, Nodes
<1>4. CASE curr # 1 /\ stack' # <<>> /\ Top'.node = parent[curr]
  <2>1. Above(curr) = {curr} \union Above(parent[curr])
    BY <1>1, <1>4, AboveIsPath
  <2>2. curr \notin Above(parent[curr])
    <3>1. PICK p : p = parent[curr]
      OBVIOUS
    <3>2. p \in Nodes /\ p < curr /\ p \in Nat /\ curr \in Nat
      BY <1>1, <1>4, <3>1, ParentsAreOlder
    <3>3. \A s \in Above(p) : s <= p
      BY <1>1, <3>2, AboveIsClosed
    <3>4. ~(curr <= p)
      BY <3>2
    <3> QED BY <3>1, <3>3, <3>4
  <2> QED BY <1>2, <1>3, <1>4, <2>1, <2>2 DEF PathInv
<1>5. CASE stack' = <<>>
  BY <1>5 DEF PathInv
<1> QED BY <1>2, <1>4, <1>5

\* What is new on the stack is above nothing that is finished.
LEMMA DescendKeepsUnion ==
  ASSUME KnowledgeInv, PathInv, UnionInv, Descend
  PROVE  UnionInv'
<1>1. /\ GTypes /\ TableGrows /\ VisitedInv /\ g_pc = "walk"
      /\ UNCHANGED <<facts, uf_parent, ancestor, post_order>>
      /\ LeadsUp(uf_parent, StackNodes) /\ ancestor = [j \in Nodes |-> j]
      /\ \A j \in Nodes : uf_parent[j] = j <=> j = 1 \/ ~Finished(j)
  BY DEF KnowledgeInv, Descend, UnionInv
<1>2. PICK child \in Nodes : child \notin visited /\ StackNodes' = StackNodes \union {child}
  BY SteppedDown
<1>3. /\ Nodes' = Nodes /\ \A i : Above(i)' = Above(i)
      /\ \A i : Finished(i)' <=> Finished(i)
  BY <1>1 DEF facts, Above, Nodes, Finished
<1>4. ASSUME NEW i \in Nodes, NEW s \in Above(i), s = child
      PROVE  s \in Above(uf_parent[i])
  <2>1. ~Finished(i)
    <3>1. i \notin visited
      BY <1>2, <1>4, VisitedAbove
    <3> QED BY <1>1, <3>1 DEF VisitedInv
  <2>2. uf_parent[i] = i
    BY <1>1, <2>1
  <2> QED BY <1>4, <2>2
<1>5. LeadsUp(uf_parent, StackNodes')
  BY <1>1, <1>2, <1>4 DEF LeadsUp
<1>6. LeadsUp(uf_parent, StackNodes)'
  BY <1>1, <1>3, <1>5 DEF LeadsUp
<1> QED BY <1>1, <1>3, <1>6 DEF UnionInv

\* An entry that is finished leads to its parent, which is still on the stack.
LEMMA LeaveKeepsUnion ==
  ASSUME KnowledgeInv, LinksInv, ObjectsInv, OccurrenceInv, PathInv, UnionInv, Leave
  PROVE  UnionInv'
<1>1. /\ GTypes /\ TableGrows /\ VisitedInv /\ g_pc = "walk" /\ g_pc' = "walk"
      /\ UNCHANGED facts
      /\ LeadsUp(uf_parent, StackNodes) /\ ancestor = [j \in Nodes |-> j]
      /\ \A j \in Nodes : uf_parent[j] = j <=> j = 1 \/ ~Finished(j)
  BY DEF KnowledgeInv, Leave, UnionInv
<1>2. PICK curr \in Nodes :
           /\ curr = Top.node /\ stack # <<>> /\ ~Finished(curr)
           /\ \A i : Finished(i)' <=> Finished(i) \/ i = curr
           /\ StackNodes = Above(curr) /\ StackNodes' = StackNodes \ {curr}
           /\ IF Len(stack) > 1
              THEN /\ curr # 1 /\ stack' # <<>>
                   /\ stack[Len(stack) - 1].node = parent[curr]
              ELSE curr = 1
  BY SteppedUp
<1>3. Nodes' = Nodes /\ \A i : Above(i)' = Above(i)
  BY <1>1 DEF facts, Above, Nodes
<1>4. PICK uf :
        /\ \/ uf = uf_parent
           \/ \E i \in Nodes : uf = compressed(uf_parent, i)
        /\ IF Len(stack) > 1
           THEN UniteWithParent(uf, stack[Len(stack) - 1].node, curr)
           ELSE uf_parent' = uf /\ UNCHANGED ancestor
  <2>1. PICK o, prev, counts :
          /\ o = object_index[curr] /\ prev = last_occurrence[o]
          /\ counts = (IsFile(curr) /\ o # 0 /\ objects[o].weight > 0)
    OBVIOUS
  <2>2. PICK uf :
          /\ uf = IF counts /\ prev # 0 THEN compressed(uf_parent, prev) ELSE uf_parent
          /\ IF Len(stack) > 1
             THEN UniteWithParent(uf, stack[Len(stack) - 1].node, curr)
             ELSE uf_parent' = uf /\ UNCHANGED ancestor
    BY <1>2, <2>1 DEF Leave
  <2>3. counts /\ prev # 0 => prev \in Nodes
    BY <1>1, <1>2, <2>1, OccursAgain
  <2> QED BY <2>2, <2>3, SMTT(60)
<1>5. /\ LeadsUp(uf, StackNodes)
      /\ \A j \in Nodes : uf[j] = j <=> j = 1 \/ ~Finished(j)
  <2>1. CASE uf = uf_parent
    BY <1>1, <2>1
  <2>2. ASSUME NEW i \in Nodes, uf = compressed(uf_parent, i)
        PROVE  /\ LeadsUp(uf, StackNodes)
               /\ \A j \in Nodes : uf[j] = j <=> j = 1 \/ ~Finished(j)
    <3>1. /\ LeadsUp(compressed(uf_parent, i), StackNodes)
          /\ \A j \in Nodes : compressed(uf_parent, i)[j] = j <=> uf_parent[j] = j
      BY <1>1, Compresses
    <3> QED BY <1>1, <2>2, <3>1
  <2> QED BY <1>4, <2>1, <2>2
<1>6. CASE Len(stack) > 1
  <2>1. PICK p : p = parent[curr]
    OBVIOUS
  <2>2. /\ p \in Nodes /\ p < curr /\ curr \in Nat /\ p \in Nat
        /\ Above(curr) = {curr} \union Above(p) /\ p \in Above(p)
    BY <1>1, <1>2, <1>6, <2>1, ParentsAreOlder, AboveIsPath, AboveIsClosed
  <2>3. uf[curr] = curr /\ uf[p] = p
    <3>1. p \in StackNodes
      BY <1>2, <2>2
    <3>2. ~Finished(p)
      BY <1>1, <3>1 DEF VisitedInv, StackNodes
    <3> QED BY <1>2, <1>5, <2>2, <3>2
  <2>4. /\ compressed(uf, p) = uf /\ compressed(uf, curr) = uf
        /\ find_uf(uf, p) = p /\ find_uf(uf, curr) = curr
    <3>1. compressed(uf, p) = uf /\ compressed(uf, curr) = uf
      BY <1>1, <1>5, <2>2, <2>3, Compresses
    <3>2. find_uf(uf, p) \in UfPath(uf, p) /\ UfPath(uf, p) = {p}
      BY <1>1, <1>5, <2>2, <2>3, FoundRoot
    <3>3. find_uf(uf, curr) \in UfPath(uf, curr) /\ UfPath(uf, curr) = {curr}
      BY <1>1, <1>5, <2>3, FoundRoot
    <3> QED BY <3>1, <3>2, <3>3
  <2>5. /\ uf_parent' = [uf EXCEPT ![curr] = p]
        /\ ancestor' = [ancestor EXCEPT ![p] = p]
    BY <1>2, <1>4, <1>6, <2>1, <2>4 DEF UniteWithParent
  <2>6. ancestor' = [j \in Nodes |-> j]
    BY <1>1, <2>2, <2>5
  <2>7. /\ uf_parent' \in [Nodes -> Nodes] /\ uf_parent'[curr] = p
        /\ \A j \in Nodes : j # curr => uf_parent'[j] = uf[j]
    BY <1>5, <2>2, <2>5 DEF LeadsUp
  <2>8. ASSUME NEW i \in Nodes
        PROVE  /\ uf_parent'[i] \in Above(i)
               /\ \A s \in Above(i) : s \in StackNodes' => s \in Above(uf_parent'[i])
    <3>1. CASE i = curr
      BY <1>2, <2>2, <2>7, <3>1
    <3>2. CASE i # curr
      BY <1>2, <1>5, <2>7, <3>2 DEF LeadsUp
    <3> QED BY <3>1, <3>2
  <2>9. LeadsUp(uf_parent, StackNodes)'
    BY <1>3, <2>7, <2>8 DEF LeadsUp
  <2>10. \A j \in Nodes : uf_parent'[j] = j <=> j = 1 \/ ~Finished(j)'
    <3>1. p # curr
      BY <2>2
    <3> QED BY <1>2, <1>5, <1>6, <2>7, <3>1
  <2> QED BY <1>3, <2>6, <2>9, <2>10 DEF UnionInv
<1>7. CASE ~(Len(stack) > 1)
  <2>1. uf_parent' = uf /\ ancestor' = ancestor /\ curr = 1
    BY <1>2, <1>4, <1>7
  <2>2. \A i \in Nodes : \A s \in Above(i) : s \in StackNodes' => s \in Above(uf[i])
    BY <1>2, <1>5 DEF LeadsUp
  <2>3. LeadsUp(uf_parent, StackNodes)'
    BY <1>3, <1>5, <2>1, <2>2 DEF LeadsUp
  <2>4. \A j \in Nodes : uf_parent'[j] = j <=> j = 1 \/ ~Finished(j)'
    BY <1>2, <1>5, <2>1
  <2> QED BY <1>1, <1>3, <2>1, <2>3, <2>4 DEF UnionInv
<1> QED BY <1>6, <1>7

\* Going down finishes nothing.
LEMMA DescendKeepsOccurrences ==
  ASSUME KnowledgeInv, OccurrenceInv, Descend
  PROVE  OccurrenceInv'
<1>1. /\ VisitedInv /\ g_pc = "walk" /\ UNCHANGED <<facts, evidence, post_order, last_occurrence>>
  BY DEF KnowledgeInv, Descend
<1>2. PICK child \in Nodes : child \notin visited /\ StackNodes' = StackNodes \union {child}
  BY SteppedDown
<1>3. /\ Nodes' = Nodes /\ objects' = objects /\ \A i : Above(i)' = Above(i)
      /\ \A o : Occurrences(o)' = Occurrences(o)
  BY <1>1 DEF facts, evidence, Above, Nodes, Finished, Occurrences, IsFile
<1>4. ASSUME NEW o, NEW i \in Occurrences(o) PROVE child \notin Above(i)
  <2>1. i \in Nodes /\ i \in visited
    BY <1>1, <1>4 DEF Occurrences, VisitedInv
  <2> QED BY <1>2, <2>1, VisitedAbove
<1>5. /\ last_occurrence \in [1..Len(objects) -> {0} \union Nodes]
      /\ \A o \in 1..Len(objects) : objects[o].weight > 0 =>
           IF last_occurrence[o] = 0
           THEN Occurrences(o) = {}
           ELSE /\ last_occurrence[o] \in Occurrences(o)
                /\ \A i \in Occurrences(o) : \A d \in Above(i) :
                     d \in StackNodes => d \in Above(last_occurrence[o])
  BY <1>1 DEF OccurrenceInv
<1>6. \A o \in 1..Len(objects) : objects[o].weight > 0 =>
           IF last_occurrence[o] = 0
           THEN Occurrences(o) = {}
           ELSE /\ last_occurrence[o] \in Occurrences(o)
                /\ \A i \in Occurrences(o) : \A d \in Above(i) :
                     d \in StackNodes' => d \in Above(last_occurrence[o])
  BY <1>2, <1>4, <1>5
<1>7. last_occurrence' = last_occurrence
  BY <1>1
<1> QED BY <1>3, <1>5, <1>6, <1>7 DEF OccurrenceInv

\* Everything on the stack is above the entry that is left.
LEMMA LeaveKeepsOccurrences ==
  ASSUME KnowledgeInv, LinksInv, ObjectsInv, PathInv, OccurrenceInv, Leave
  PROVE  OccurrenceInv'
<1>1. /\ g_pc = "walk" /\ UNCHANGED <<facts, evidence>>
      /\ last_occurrence \in [1..Len(objects) -> {0} \union Nodes]
  BY DEF KnowledgeInv, Leave, OccurrenceInv
<1>2. PICK curr \in Nodes :
           /\ curr = Top.node /\ ~Finished(curr)
           /\ \A i : Finished(i)' <=> Finished(i) \/ i = curr
           /\ StackNodes = Above(curr) /\ StackNodes' = StackNodes \ {curr}
  BY SteppedUp
<1>3. PICK c, counts : c = object_index[curr]
                    /\ counts = (IsFile(curr) /\ c # 0 /\ objects[c].weight > 0)
  BY SMTT(60)
<1>4. last_occurrence' = IF counts THEN [last_occurrence EXCEPT ![c] = curr] ELSE last_occurrence
  BY <1>2, <1>3 DEF Leave, Occurrence
<1>5. counts => c \in 1..Len(objects)
  BY <1>1, <1>2, <1>3, ObjectOfFile
<1>6. /\ Nodes' = Nodes /\ objects' = objects /\ object_index' = object_index
      /\ \A i : Above(i)' = Above(i) /\ (IsFile(i)' <=> IsFile(i))
  BY <1>1 DEF facts, evidence, Above, Nodes, IsFile
<1>7. \A o : Occurrences(o)' = Occurrences(o) \union
                {i \in {curr} : IsFile(curr) /\ c = o}
  BY <1>2, <1>3, <1>6 DEF Occurrences
<1>8. /\ last_occurrence' \in [1..Len(objects) -> {0} \union Nodes]
      /\ \A o \in 1..Len(objects) :
           last_occurrence'[o] = IF counts /\ o = c THEN curr ELSE last_occurrence[o]
  BY <1>1, <1>4, <1>5
<1>9. ASSUME NEW o \in 1..Len(objects), objects[o].weight > 0
      PROVE  IF last_occurrence'[o] = 0
             THEN Occurrences(o)' = {}
             ELSE /\ last_occurrence'[o] \in Occurrences(o)'
                  /\ \A i \in Occurrences(o)' : \A d \in Above(i) :
                       d \in StackNodes' => d \in Above(last_occurrence'[o])
  <2>1. CASE counts /\ o = c
    <3>1. last_occurrence'[o] = curr /\ curr # 0 /\ curr \in Occurrences(o)'
      <4>1. curr # 0
        BY DEF Nodes
      <4> QED BY <1>3, <1>7, <1>8, <2>1, <4>1
    <3> QED BY <1>2, <3>1
  <2>2. CASE ~(counts /\ o = c)
    <3>1. o # 0
      OBVIOUS
    <3>2. Occurrences(o)' = Occurrences(o) /\ last_occurrence'[o] = last_occurrence[o]
      <4>1. ~(IsFile(curr) /\ c = o)
        BY <1>3, <1>9, <2>2, <3>1
      <4>2. Occurrences(o)' = Occurrences(o)
        BY <1>7, <4>1
      <4> QED BY <1>8, <2>2, <4>2
    <3>3. IF last_occurrence[o] = 0
          THEN Occurrences(o) = {}
          ELSE /\ last_occurrence[o] \in Occurrences(o)
               /\ \A i \in Occurrences(o) : \A d \in Above(i) :
                    d \in StackNodes => d \in Above(last_occurrence[o])
      BY <1>1, <1>9 DEF OccurrenceInv
    <3> QED BY <1>2, <3>2, <3>3
  <2> QED BY <2>1, <2>2
<1> QED BY <1>6, <1>8, <1>9 DEF OccurrenceInv
---------------------------------------------------------------------------
(* The bytes taken off *)

\* A sum one of whose terms is lowered.
LEMMA SumLowered ==
  ASSUME NEW f, NEW g, NEW S, IsFiniteSet(S), \A x \in S : f[x] \in Int, NEW r, NEW w \in Int,
         \A x \in S : g[x] = IF x = r THEN f[x] - w ELSE f[x]
  PROVE  SumOver(g, S) = SumOver(f, S) - (IF r \in S THEN w ELSE 0)
<1>1. SumOver(f, S) \in Int
  BY SumWithout
<1>2. CASE r \notin S
  <2>1. \A x \in S : g[x] = f[x]
    BY <1>2
  <2>2. SumOver(g, S) = SumOver(f, S)
    BY <2>1, SameSum
  <2> QED BY <1>1, <1>2, <2>2
<1>3. CASE r \in S
  <2>1. PICK R : R = S \ {r}
    OBVIOUS
  <2>2. IsFiniteSet(R) /\ \A x \in R : f[x] \in Int /\ g[x] = f[x]
    BY <2>1, FS_RemoveElement
  <2>3. SumOver(g, R) = SumOver(f, R) /\ SumOver(f, R) \in Int
    BY <2>2, SameSum, SumWithout
  <2>4. SumOver(f, S) = f[r] + SumOver(f, R)
    BY <1>3, <2>1, SumWithout
  <2>5. \A x \in S : g[x] \in Int
    OBVIOUS
  <2>6. SumOver(g, S) = g[r] + SumOver(g, R)
    BY <1>3, <2>1, <2>5, SumWithout
  <2>7. f[r] \in Int /\ g[r] = f[r] - w
    BY <1>3
  <2> QED BY <1>3, <2>3, <2>4, <2>6, <2>7
<1> QED BY <1>2, <1>3

\* A sum one term is added to.
LEMMA SumWith ==
  ASSUME NEW f, NEW S, IsFiniteSet(S), NEW x, x \notin S, \A y \in S \union {x} : f[y] \in Int
  PROVE  SumOver(f, S \union {x}) = f[x] + SumOver(f, S)
<1>1. PICK T : T = S \union {x}
  OBVIOUS
<1>2. IsFiniteSet(T) /\ x \in T /\ \A y \in T : f[y] \in Int
  BY <1>1, FS_AddElement
<1>3. T \ {x} = S
  BY <1>1
<1>4. SumOver(f, T) = f[x] + SumOver(f, T \ {x})
  BY <1>2, SumWithout
<1> QED BY <1>1, <1>3, <1>4

\* The weight of each entry, and of each object.
Weight == [i \in Nodes |-> IF i \in Identified THEN WeightOf(table[i].oid) ELSE 0]
Weights == [oid \in FileOids |-> WeightOf(oid)]
OidsIn(S) == {table[i].oid : i \in S \intersect Identified}
FinishedBelow(d) == {i \in Below(d) : Finished(i)}

\* What was taken off below an entry is what its finished entries weigh more
\* than their objects do.
DeltaInv ==
  g_pc # "ingesting" =>
    /\ tree_delta \in [Nodes -> Int]
    /\ \A d \in Nodes :
         SumOver(tree_delta, Below(d)) + SumOver(Weight, FinishedBelow(d))
         = SumOver(Weights, OidsIn(FinishedBelow(d)))

\* Weights are naturals, and the sets summed over are finite.
LEMMA WeightsAreTyped ==
  ASSUME GTypes, TableGrows
  PROVE  /\ Weight \in [Nodes -> Nat] /\ Weights \in [FileOids -> Nat]
         /\ \A i \in Identified : table[i].oid \in FileOids
         /\ \A S \in SUBSET Nodes : /\ IsFiniteSet(S)
                                    /\ OidsIn(S) \subseteq FileOids /\ IsFiniteSet(OidsIn(S))
         /\ \A d \in Nodes : Below(d) \in SUBSET Nodes /\ FinishedBelow(d) \in SUBSET Nodes
<1>1. \A oid : WeightOf(oid) \in Nat
  BY WeightIsNat
<1>2. Weight \in [Nodes -> Nat] /\ Weights \in [FileOids -> Nat]
  BY <1>1 DEF Weight, Weights
<1>3. \A i \in Identified : table[i].oid \in FileOids
  BY DEF Identified, FileOids
<1>4. IsFiniteSet(Nodes) /\ IsFiniteSet(FileOids)
  BY LinksAreTyped
<1>5. ASSUME NEW S \in SUBSET Nodes
      PROVE  IsFiniteSet(S) /\ OidsIn(S) \subseteq FileOids /\ IsFiniteSet(OidsIn(S))
  <2>1. OidsIn(S) \subseteq FileOids
    BY <1>3 DEF OidsIn
  <2> QED BY <1>4, <2>1, FS_Subset
<1>6. \A d \in Nodes : Below(d) \in SUBSET Nodes /\ FinishedBelow(d) \in SUBSET Nodes
  BY DEF Below, FinishedBelow
<1> QED BY <1>2, <1>3, <1>5, <1>6

\* Leaving an entry takes its weight off below every directory that has a
\* finished entry of the same object below it, and off no other.
LEMMA TakenOff ==
  ASSUME KnowledgeInv, LinksInv, ObjectsInv, PathInv, UnionInv, OccurrenceInv, DeltaInv, Leave
  PROVE  \E curr \in Nodes :
           /\ ~Finished(curr) /\ \A i : Finished(i)' <=> Finished(i) \/ i = curr
           /\ tree_delta' \in [Nodes -> Int]
           /\ \A d \in Nodes :
                SumOver(tree_delta', Below(d))
                = SumOver(tree_delta, Below(d))
                  - (IF curr \in Below(d) \intersect Identified
                        /\ table[curr].oid \in OidsIn(FinishedBelow(d))
                     THEN Weight[curr] ELSE 0)
<1>1. /\ g_pc = "walk" /\ GTypes /\ TableGrows /\ tree_delta \in [Nodes -> Int]
      /\ \A x : Judged(x)
  BY DEF KnowledgeInv, Leave, DeltaInv, InPhase, Judged
<1>2. PICK curr \in Nodes :
           /\ curr = Top.node /\ stack # <<>> /\ ~Finished(curr)
           /\ \A i : Finished(i)' <=> Finished(i) \/ i = curr
           /\ StackNodes = Above(curr)
  BY SteppedUp
<1>3. PICK o, prev, counts :
        /\ o = object_index[curr] /\ prev = last_occurrence[o]
        /\ counts = (IsFile(curr) /\ o # 0 /\ objects[o].weight > 0)
  BY SMTT(60)
<1>4. tree_delta' = IF counts /\ prev # 0
                    THEN [tree_delta EXCEPT ![ancestor[find_uf(uf_parent, prev)]]
                                              = @ - objects[o].weight]
                    ELSE tree_delta
  BY <1>2, <1>3 DEF Leave
<1>5. /\ \A d \in Nodes : /\ IsFiniteSet(Below(d)) /\ Below(d) \subseteq Nodes
                          /\ SumOver(tree_delta, Below(d)) \in Int
      /\ Weight \in [Nodes -> Nat]
  BY <1>1, WeightsAreTyped, SumWithout
<1>6. \A d, i \in Nodes : i \in Below(d) <=> d \in Above(i)
  BY DEF Below
<1>7. curr \in Identified =>
        /\ IsFile(curr) /\ o # 0 /\ objects[o].weight = Weight[curr]
        /\ \A i \in Identified : Finished(i) /\ table[i].oid = table[curr].oid
                                 => i \in Occurrences(o)
  <2>1. ASSUME curr \in Identified
        PROVE  /\ IsFile(curr) /\ o # 0 /\ objects[o].weight = Weight[curr]
               /\ \A i \in Identified : Finished(i) /\ table[i].oid = table[curr].oid
                                        => i \in Occurrences(o)
    <3>1. IsFile(curr) /\ Identified \subseteq Nodes /\ \A i \in Identified : IsFile(i)
      BY <2>1 DEF Identified
    <3>2. o # 0 /\ objects[o].weight = WeightOf(table[curr].oid)
      BY <1>1, <1>3, <2>1, <3>1, ObjectOfFile
    <3>3. \A i \in Identified : table[i].oid = table[curr].oid => object_index[i] = o
      BY <1>1, <1>3, <2>1 DEF ObjectsInv
    <3> QED BY <2>1, <3>1, <3>2, <3>3 DEF Weight, Occurrences
  <2> QED BY <2>1
<1>8. ASSUME NEW d \in Nodes, curr \in Below(d) \intersect Identified,
             table[curr].oid \in OidsIn(FinishedBelow(d))
      PROVE  \E i \in Occurrences(o) : d \in Above(i)
  <2>1. PICK i \in FinishedBelow(d) \intersect Identified : table[i].oid = table[curr].oid
    BY <1>8 DEF OidsIn
  <2>2. i \in Nodes /\ Finished(i) /\ d \in Above(i)
    BY <2>1 DEF FinishedBelow, Below
  <2> QED BY <1>7, <1>8, <2>1, <2>2
<1>9. CASE counts /\ prev # 0
  <2>1. /\ prev \in Nodes /\ Finished(prev) /\ curr \in Identified /\ prev \in Identified
        /\ table[prev].oid = table[curr].oid
        /\ \A i \in Occurrences(o) : \A d \in Above(i) : d \in StackNodes => d \in Above(prev)
    BY <1>1, <1>2, <1>3, <1>9, OccursAgain
  <2>2. PICK r \in Nodes :
           /\ r = ancestor[find_uf(uf_parent, prev)]
           /\ \A d \in Nodes : d \in Above(r) <=> d \in Above(prev) /\ d \in Above(curr)
    BY <1>1, <1>2, <2>1, RootIsCommon
  <2>3. PICK w \in Nat : w = Weight[curr] /\ w = objects[o].weight
    BY <1>5, <1>7, <2>1
  <2>4. /\ tree_delta' \in [Nodes -> Int]
        /\ \A x \in Nodes : tree_delta'[x] = IF x = r THEN tree_delta[x] - w ELSE tree_delta[x]
    BY <1>1, <1>4, <1>9, <2>2, <2>3
  <2>5. ASSUME NEW d \in Nodes
        PROVE  SumOver(tree_delta', Below(d))
               = SumOver(tree_delta, Below(d))
                 - (IF curr \in Below(d) \intersect Identified
                       /\ table[curr].oid \in OidsIn(FinishedBelow(d))
                    THEN Weight[curr] ELSE 0)
    <3>1. SumOver(tree_delta', Below(d))
          = SumOver(tree_delta, Below(d)) - (IF r \in Below(d) THEN w ELSE 0)
      <4>1. PICK S, f, g : S = Below(d) /\ f = tree_delta /\ g = tree_delta'
        OBVIOUS
      <4>2. \A x \in S : f[x] \in Int /\ g[x] = IF x = r THEN f[x] - w ELSE f[x]
        BY <1>1, <1>5, <2>4, <4>1
      <4>3. IsFiniteSet(S) /\ w \in Int
        BY <1>5, <4>1
      <4>4. SumOver(g, S) = SumOver(f, S) - (IF r \in S THEN w ELSE 0)
        BY <4>2, <4>3, SumLowered, SMTT(60)
      <4> QED BY <4>1, <4>4
    <3>2. r \in Below(d) => curr \in Below(d) /\ table[curr].oid \in OidsIn(FinishedBelow(d))
      <4>1. SUFFICES ASSUME r \in Below(d)
                     PROVE  curr \in Below(d) /\ table[curr].oid \in OidsIn(FinishedBelow(d))
        OBVIOUS
      <4>2. curr \in Below(d) /\ prev \in Below(d)
        BY <1>6, <2>1, <2>2, <4>1
      <4>3. prev \in FinishedBelow(d) \intersect Identified
        BY <2>1, <4>2 DEF FinishedBelow
      <4>4. table[prev].oid \in OidsIn(FinishedBelow(d))
        BY <4>3 DEF OidsIn
      <4> QED BY <2>1, <4>2, <4>4
    <3>3. curr \in Below(d) /\ table[curr].oid \in OidsIn(FinishedBelow(d)) => r \in Below(d)
      BY <1>2, <1>6, <1>8, <2>1, <2>2
    <3> QED BY <2>1, <2>3, <3>1, <3>2, <3>3
  <2> QED BY <1>2, <2>4, <2>5
<1>10. CASE ~(counts /\ prev # 0)
  <2>1. tree_delta' = tree_delta
    BY <1>4, <1>10
  <2>2. ASSUME NEW d \in Nodes, curr \in Below(d) \intersect Identified,
               table[curr].oid \in OidsIn(FinishedBelow(d))
        PROVE  Weight[curr] = 0
    <3>1. Occurrences(o) # {}
      BY <1>8, <2>2
    <3>2. counts => prev # 0
      BY <1>1, <1>2, <1>3, <3>1, OccursAgain
    <3>3. ~counts
      BY <1>10, <3>2
    <3>4. Weight[curr] \in Nat /\ ~(Weight[curr] > 0)
      BY <1>3, <1>5, <1>7, <2>2, <3>3
    <3> QED BY <3>4
  <2> QED BY <1>1, <1>2, <1>5, <2>1, <2>2, SMTT(60)
<1> QED BY <1>9, <1>10

\* Leaving an entry keeps the bytes taken off in step.
LEMMA LeaveKeepsDelta ==
  ASSUME KnowledgeInv, LinksInv, ObjectsInv, PathInv, UnionInv, OccurrenceInv, DeltaInv, Leave
  PROVE  DeltaInv'
<1>1. GTypes /\ TableGrows /\ UNCHANGED facts /\ g_pc = "walk"
  BY DEF KnowledgeInv, Leave
<1>2. PICK curr \in Nodes :
           /\ ~Finished(curr) /\ \A i : Finished(i)' <=> Finished(i) \/ i = curr
           /\ tree_delta' \in [Nodes -> Int]
           /\ \A d \in Nodes :
                SumOver(tree_delta', Below(d))
                = SumOver(tree_delta, Below(d))
                  - (IF curr \in Below(d) \intersect Identified
                        /\ table[curr].oid \in OidsIn(FinishedBelow(d))
                     THEN Weight[curr] ELSE 0)
  BY TakenOff
<1>3. /\ Nodes' = Nodes /\ Identified' = Identified /\ table' = table /\ FileOids' = FileOids
      /\ \A oid : WeightOf(oid)' = WeightOf(oid)
      /\ \A d : Below(d)' = Below(d)
  BY <1>1, WeightsKept DEF Below, Above, facts
<1>4. Weight' = Weight /\ Weights' = Weights
  BY <1>3 DEF Weight, Weights
<1>5. \A d \in Nodes : FinishedBelow(d)' = FinishedBelow(d) \union ({curr} \intersect Below(d))
  BY <1>2, <1>3 DEF FinishedBelow
<1>6. ASSUME NEW d \in Nodes
      PROVE  SumOver(tree_delta', Below(d)) + SumOver(Weight, FinishedBelow(d)')
             = SumOver(Weights, OidsIn(FinishedBelow(d)'))
  <2>1. PICK F, x : F = FinishedBelow(d) /\ x = table[curr].oid
    OBVIOUS
  <2>2. /\ IsFiniteSet(F) /\ IsFiniteSet(OidsIn(F)) /\ OidsIn(F) \subseteq FileOids /\ F \subseteq Nodes
        /\ \A i \in Nodes : Weight[i] \in Int
        /\ \A y \in FileOids : Weights[y] \in Int
    BY <1>1, <2>1, WeightsAreTyped
  <2>3. PICK a, b, c, w :
          /\ a = SumOver(tree_delta, Below(d)) /\ b = SumOver(Weight, F)
          /\ c = SumOver(Weights, OidsIn(F)) /\ w = Weight[curr]
    OBVIOUS
  <2>4. a \in Int /\ b \in Int /\ c \in Int /\ w \in Int /\ a + b = c
    <3>1. \A i \in Below(d) : tree_delta[i] \in Int
      BY <1>1 DEF DeltaInv, Below
    <3>2. IsFiniteSet(Below(d))
      BY <1>1, WeightsAreTyped
    <3>3. a \in Int
      BY <2>3, <3>1, <3>2, SumWithout
    <3>4. b \in Int
      BY <2>2, <2>3, SumWithout
    <3>5. c \in Int
      BY <2>2, <2>3, SumWithout
    <3>6. a + b = c
      BY <1>1, <2>1, <2>3 DEF DeltaInv
    <3> QED BY <2>2, <2>3, <3>3, <3>4, <3>5, <3>6
  <2>5. CASE curr \notin Below(d)
    <3>1. FinishedBelow(d)' = F
      BY <1>5, <2>1, <2>5
    <3>2. SumOver(tree_delta', Below(d)) = a - 0
      BY <1>2, <2>3, <2>5
    <3> QED BY <2>3, <2>4, <3>1, <3>2
  <2>6. CASE curr \in Below(d)
    <3>1. FinishedBelow(d)' = F \union {curr} /\ curr \notin F
      BY <1>2, <1>5, <2>1, <2>6 DEF FinishedBelow
    <3>2. SumOver(Weight, FinishedBelow(d)') = w + b
      BY <2>2, <2>3, <3>1, SumWith
    <3>3. CASE curr \notin Identified
      <4>1. OidsIn(FinishedBelow(d)') = OidsIn(F) /\ w = 0
        BY <2>3, <3>1, <3>3 DEF OidsIn, Weight
      <4>2. SumOver(tree_delta', Below(d)) = a - 0
        BY <1>2, <2>3, <3>3
      <4> QED BY <2>3, <2>4, <3>2, <4>1, <4>2
    <3>4. CASE curr \in Identified
      <4>1. /\ OidsIn(FinishedBelow(d)') = OidsIn(F) \union {x}
            /\ x \in FileOids /\ Weights[x] = w
        <5>1. x \in FileOids
          BY <1>1, <2>1, <3>4, WeightsAreTyped
        <5> QED BY <2>1, <2>3, <3>1, <3>4, <5>1 DEF OidsIn, Weight, Weights
      <4>2. CASE x \in OidsIn(F)
        <5>1. OidsIn(FinishedBelow(d)') = OidsIn(F)
          BY <4>1, <4>2
        <5>2. SumOver(tree_delta', Below(d)) = a - w
          BY <1>2, <2>1, <2>3, <2>6, <3>4, <4>2
        <5> QED BY <2>3, <2>4, <3>2, <5>1, <5>2
      <4>3. CASE x \notin OidsIn(F)
        <5>1. SumOver(Weights, OidsIn(FinishedBelow(d)')) = w + c
          <6>1. \A y \in OidsIn(F) \union {x} : Weights[y] \in Int
            BY <2>2, <4>1
          <6> QED BY <2>2, <2>3, <4>1, <4>3, <6>1, SumWith
        <5>2. SumOver(tree_delta', Below(d)) = a - 0
          BY <1>2, <2>1, <2>3, <4>3
        <5> QED BY <2>4, <3>2, <5>1, <5>2
      <4> QED BY <4>2, <4>3
    <3> QED BY <3>3, <3>4
  <2> QED BY <2>5, <2>6
<1>7. \A d \in Nodes : OidsIn(FinishedBelow(d))' = OidsIn(FinishedBelow(d)')
  BY <1>3 DEF OidsIn
<1> QED BY <1>2, <1>3, <1>4, <1>6, <1>7 DEF DeltaInv
---------------------------------------------------------------------------
(* The whole traversal *)

TraversalInv == ObjectsInv /\ PathInv /\ UnionInv /\ OccurrenceInv /\ DeltaInv

\* A sum of zeros.
LEMMA SumOfZeros ==
  ASSUME NEW f, NEW S, IsFiniteSet(S), \A x \in S : f[x] = 0
  PROVE  SumOver(f, S) = 0
<1>1. PICK P : P = {s \in SUBSET S : SumOver(f, s) = 0}
  OBVIOUS
<1>2. {} \in P
  BY <1>1, SumOfNothing
<1>3. ASSUME NEW s \in SUBSET S, s # {}, \A x \in s : s \ {x} \in P PROVE s \in P
  <2>1. PICK x \in s : TRUE
    BY <1>3
  <2>2. IsFiniteSet(s) /\ \A y \in s : f[y] \in Int
    BY FS_Subset
  <2>3. SumOver(f, s) = f[x] + SumOver(f, s \ {x})
    BY <2>2, SumWithout
  <2>4. SumOver(f, s \ {x}) = 0 /\ f[x] = 0
    BY <1>1, <1>3
  <2> QED BY <1>1, <2>3, <2>4
<1>4. SUBSET S \subseteq P
  BY <1>2, <1>3, BySize
<1> QED BY <1>1, <1>4

\* Nothing is traversed yet.
LEMMA TraversalStart == AInit => TraversalInv
<1>1. AInit => PathInv /\ UnionInv /\ OccurrenceInv /\ DeltaInv
  BY DEF AInit, PathInv, UnionInv, OccurrenceInv, DeltaInv
<1> QED BY <1>1, ObjectsStart DEF TraversalInv

\* What the walk is judged by is in the table and the walk.
LEMMA WalkKept ==
  ASSUME UNCHANGED <<facts, stack, post_order>>
  PROVE  /\ StackNodes' = StackNodes /\ Top' = Top
         /\ \A i : (Finished(i)' <=> Finished(i)) /\ Above(i)' = Above(i)
         /\ Nodes' = Nodes /\ Weight' = Weight /\ Weights' = Weights
         /\ \A d : Below(d)' = Below(d) /\ FinishedBelow(d)' = FinishedBelow(d)
                   /\ OidsIn(FinishedBelow(d))' = OidsIn(FinishedBelow(d))
<1>1. /\ table' = table /\ parent' = parent /\ Nodes' = Nodes /\ Identified' = Identified
      /\ FileOids' = FileOids /\ \A oid : WeightOf(oid)' = WeightOf(oid)
  BY WeightsKept
<1>2. StackNodes' = StackNodes /\ Top' = Top
  BY DEF StackNodes, Top, Places
<1>3. \A i : (Finished(i)' <=> Finished(i)) /\ Above(i)' = Above(i)
  BY <1>1 DEF Finished, Above
<1>4. Weight' = Weight /\ Weights' = Weights
  BY <1>1 DEF Weight, Weights
<1>5. \A d : Below(d)' = Below(d)
  BY <1>1, <1>3 DEF Below
<1>6. \A d : FinishedBelow(d)' = FinishedBelow(d)
  BY <1>3, <1>5 DEF FinishedBelow
<1>7. \A d : OidsIn(FinishedBelow(d))' = OidsIn(FinishedBelow(d))
  BY <1>1, <1>6 DEF OidsIn
<1> QED BY <1>1, <1>2, <1>3, <1>4, <1>5, <1>6, <1>7

\* Whatever moves nothing of the walk.
LEMMA WalkStands ==
  ASSUME PathInv, UnionInv, DeltaInv, UNCHANGED <<facts, walk>>,
         g_pc # "ingesting", g_pc' \in {"objects", "walk"} => g_pc \in {"objects", "walk"}
  PROVE  PathInv' /\ UnionInv' /\ DeltaInv'
<1>1. UNCHANGED <<facts, stack, post_order>> /\ UNCHANGED <<uf_parent, ancestor, tree_delta>>
  BY DEF walk
<1>2. PathInv'
  BY <1>1, WalkKept DEF PathInv
<1>3. UnionInv'
  BY <1>1, WalkKept DEF UnionInv, LeadsUp
<1>4. DeltaInv'
  <2>1. /\ tree_delta \in [Nodes -> Int]
        /\ \A d \in Nodes :
             SumOver(tree_delta, Below(d)) + SumOver(Weight, FinishedBelow(d))
             = SumOver(Weights, OidsIn(FinishedBelow(d)))
    BY DEF DeltaInv
  <2>2. /\ Nodes' = Nodes /\ Weight' = Weight /\ Weights' = Weights /\ tree_delta' = tree_delta
        /\ \A d : Below(d)' = Below(d) /\ FinishedBelow(d)' = FinishedBelow(d)
                  /\ OidsIn(FinishedBelow(d))' = OidsIn(FinishedBelow(d))
    BY <1>1, WalkKept
  <2> QED BY <2>1, <2>2 DEF DeltaInv
<1> QED BY <1>2, <1>3, <1>4

\* Every entry is a set of its own, and nothing is finished or taken off.
LEMMA BeginKeepsTraversal ==
  ASSUME KnowledgeInv, TraversalInv, Begin
  PROVE  TraversalInv'
<1>1. /\ GTypes /\ TableGrows /\ UNCHANGED facts /\ g_pc' = "objects"
      /\ uf_parent' = [i \in Nodes |-> i] /\ ancestor' = [i \in Nodes |-> i]
      /\ tree_delta' = [i \in Nodes |-> 0]
      /\ UNCHANGED <<facts, stack, post_order>> /\ stack = <<>> /\ post_order = <<>>
  BY DEF Begin, KnowledgeInv, InPhase
<1>2. \A i : ~Finished(i)
  BY <1>1 DEF Finished
<1>3. /\ Nodes' = Nodes /\ \A i : Above(i)' = Above(i) /\ (Finished(i)' <=> Finished(i))
      /\ StackNodes' = StackNodes
  BY <1>1, WalkKept
<1>4. UnionInv'
  <2>1. \A i \in Nodes : i \in Above(i)
    BY <1>1, AboveIsClosed
  <2>2. LeadsUp(uf_parent, StackNodes)'
    BY <1>1, <1>3, <2>1 DEF LeadsUp
  <2> QED BY <1>1, <1>2, <1>3, <2>2 DEF UnionInv
<1>5. DeltaInv'
  <2>1. tree_delta' \in [Nodes -> Int]
    BY <1>1
  <2>2. ASSUME NEW d \in Nodes
        PROVE  SumOver(tree_delta', Below(d)) + SumOver(Weight, FinishedBelow(d))
               = SumOver(Weights, OidsIn(FinishedBelow(d)))
    <3>1. FinishedBelow(d) = {} /\ OidsIn(FinishedBelow(d)) = {}
      BY <1>2 DEF FinishedBelow, OidsIn
    <3>2. SumOver(Weight, FinishedBelow(d)) = 0 /\ SumOver(Weights, OidsIn(FinishedBelow(d))) = 0
      BY <3>1, SumOfNothing
    <3>3. IsFiniteSet(Below(d)) /\ \A x \in Below(d) : tree_delta'[x] = 0
      BY <1>1, WeightsAreTyped
    <3>4. SumOver(tree_delta', Below(d)) = 0
      BY <3>3, SumOfZeros
    <3> QED BY <3>2, <3>4
  <2>3. /\ Nodes' = Nodes /\ Weight' = Weight /\ Weights' = Weights
        /\ \A d : Below(d)' = Below(d) /\ FinishedBelow(d)' = FinishedBelow(d)
                  /\ OidsIn(FinishedBelow(d))' = OidsIn(FinishedBelow(d))
    BY <1>1, WalkKept
  <2> QED BY <2>1, <2>2, <2>3 DEF DeltaInv
<1>6. PathInv' /\ OccurrenceInv'
  BY <1>1 DEF PathInv, OccurrenceInv
<1> QED BY <1>4, <1>5, <1>6, BeginKeepsObjects DEF TraversalInv

\* The traversal starts with the root on the stack.
LEMMA AccountKeepsTraversal ==
  ASSUME KnowledgeInv, LinksInv, TraversalInv, AccountIdentityLess
  PROVE  TraversalInv'
<1>1. /\ GTypes /\ TableGrows /\ UNCHANGED facts /\ g_pc = "objects" /\ g_pc' = "walk"
      /\ last_occurrence' = [k \in 1..Len(objects') |-> 0]
      /\ stack' = <<[node |-> 1, next |-> first_child(1)]>>
      /\ UNCHANGED <<post_order, uf_parent, ancestor, tree_delta>>
      /\ stack = <<>> /\ post_order = <<>> /\ table # <<>>
  BY DEF AccountIdentityLess, KnowledgeInv, InPhase
<1>2. \A i : ~Finished(i) /\ ~Finished(i)'
  BY <1>1 DEF Finished
<1>3. /\ Nodes' = Nodes /\ \A i : Above(i)' = Above(i)
      /\ Weight' = Weight /\ Weights' = Weights
      /\ \A d : Below(d)' = Below(d)
      /\ Identified' = Identified /\ table' = table
  <2>1. /\ table' = table /\ parent' = parent /\ Nodes' = Nodes /\ Identified' = Identified
        /\ FileOids' = FileOids /\ \A oid : WeightOf(oid)' = WeightOf(oid)
    BY <1>1, WeightsKept
  <2>2. \A i : Above(i)' = Above(i)
    BY <2>1 DEF Above
  <2>3. Weight' = Weight /\ Weights' = Weights
    BY <2>1 DEF Weight, Weights
  <2>4. \A d : Below(d)' = Below(d)
    BY <2>1, <2>2 DEF Below
  <2> QED BY <2>1, <2>2, <2>3, <2>4
<1>4. StackNodes' = {1} /\ Top'.node = 1
  BY <1>1 DEF StackNodes, Places, Top
<1>5. 1 \in Nodes
  BY <1>1, ParentsAreOlder
<1>6. PathInv'
  <2>1. Above(1) = {1}
    BY <1>1, <1>5, AboveIsPath
  <2> QED BY <1>3, <1>4, <2>1 DEF PathInv
<1>7. UnionInv'
  <2>1. /\ uf_parent \in [Nodes -> Nodes] /\ \A i \in Nodes : uf_parent[i] \in Above(i)
        /\ ancestor = [i \in Nodes |-> i]
        /\ \A i \in Nodes : uf_parent[i] = i <=> i = 1 \/ ~Finished(i)
    BY <1>1 DEF TraversalInv, UnionInv, LeadsUp
  <2>2. \A i \in Nodes : 1 \in Above(uf_parent[i])
    BY <1>1, <2>1, AboveIsClosed
  <2>3. LeadsUp(uf_parent, StackNodes)'
    BY <1>1, <1>3, <1>4, <2>1, <2>2 DEF LeadsUp
  <2> QED BY <1>1, <1>2, <1>3, <2>1, <2>3 DEF UnionInv
<1>8. OccurrenceInv'
  <2>1. \A o : Occurrences(o)' = {}
    BY <1>2 DEF Occurrences
  <2>2. /\ last_occurrence' \in [1..Len(objects') -> {0} \union Nodes']
        /\ \A o \in 1..Len(objects') : last_occurrence'[o] = 0
    BY <1>1
  <2> QED BY <2>1, <2>2 DEF OccurrenceInv
<1>9. DeltaInv'
  <2>1. /\ tree_delta \in [Nodes -> Int]
        /\ \A d \in Nodes :
             SumOver(tree_delta, Below(d)) + SumOver(Weight, FinishedBelow(d))
             = SumOver(Weights, OidsIn(FinishedBelow(d)))
    BY <1>1 DEF TraversalInv, DeltaInv
  <2>2. \A d : FinishedBelow(d) = {} /\ FinishedBelow(d)' = {}
    BY <1>2 DEF FinishedBelow
  <2>3. \A d : OidsIn(FinishedBelow(d))' = OidsIn(FinishedBelow(d))
    BY <2>2 DEF OidsIn
  <2>4. tree_delta' = tree_delta /\ \A d : FinishedBelow(d)' = FinishedBelow(d)
    BY <1>1, <2>2
  <2> QED BY <1>3, <2>1, <2>3, <2>4 DEF DeltaInv
<1>10. ObjectsInv'
  BY AccountKeepsObjects DEF TraversalInv
<1> QED BY <1>6, <1>7, <1>8, <1>9, <1>10 DEF TraversalInv

\* Every step of the builder and of compute_aggregates.
LEMMA TraversalSteps ==
  ASSUME KnowledgeInv, LinksInv, TraversalInv, [ANext]_gvars
  PROVE  TraversalInv'
<1>0. /\ ObjectsInv /\ PathInv /\ UnionInv /\ OccurrenceInv /\ DeltaInv
      /\ ObjectsInv'
  BY ObjectsSteps DEF TraversalInv
<1>1. ASSUME NEW row \in AllRows, NEW p \in 0..Len(table), Ingest(row, p)
      PROVE  TraversalInv'
  <2>1. g_pc' = "ingesting" /\ stack' = stack /\ stack = <<>>
    BY <1>1 DEF Ingest, walk, KnowledgeInv, InPhase
  <2>2. PathInv' /\ UnionInv' /\ OccurrenceInv' /\ DeltaInv'
    BY <2>1 DEF PathInv, UnionInv, OccurrenceInv, DeltaInv
  <2> QED BY <1>0, <2>2 DEF TraversalInv
<1>2. CASE Begin
  BY <1>2, BeginKeepsTraversal
<1>3. ASSUME UNCHANGED <<facts, walk>>, g_pc' # "walk", g_pc # "ingesting",
             g_pc' = "objects" => g_pc = "objects"
      PROVE  TraversalInv'
  <2>1. PathInv' /\ UnionInv' /\ DeltaInv'
    BY <1>0, <1>3, WalkStands
  <2>2. OccurrenceInv'
    BY <1>3 DEF OccurrenceInv
  <2> QED BY <1>0, <2>1, <2>2 DEF TraversalInv
<1>4. ASSUME NEW oid \in FileOids, NormalizeFileObject(oid) PROVE TraversalInv'
  BY <1>3, <1>4 DEF NormalizeFileObject
<1>5. ASSUME NEW d \in Nodes, NormalizeDirectory(d) PROVE TraversalInv'
  BY <1>3, <1>5 DEF NormalizeDirectory
<1>6. CASE AccountIdentityLess
  BY <1>6, AccountKeepsTraversal
<1>7. CASE Descend
  <2>1. DeltaInv'
    <3>1. /\ UNCHANGED <<facts, post_order, tree_delta>> /\ g_pc = "walk"
          /\ \A i : Finished(i)' <=> Finished(i)
      BY <1>7 DEF Descend, Finished
    <3>2. /\ table' = table /\ parent' = parent /\ Nodes' = Nodes /\ Identified' = Identified
          /\ FileOids' = FileOids /\ \A oid : WeightOf(oid)' = WeightOf(oid)
      BY <3>1, WeightsKept
    <3>3. Weight' = Weight /\ Weights' = Weights
      BY <3>2 DEF Weight, Weights
    <3>4. \A d : Below(d)' = Below(d)
      BY <3>2 DEF Below, Above
    <3>5. \A d : FinishedBelow(d)' = FinishedBelow(d)
      BY <3>1, <3>4 DEF FinishedBelow
    <3>6. \A d : OidsIn(FinishedBelow(d))' = OidsIn(FinishedBelow(d))
      BY <3>2, <3>5 DEF OidsIn
    <3>7. /\ tree_delta \in [Nodes -> Int]
          /\ \A d \in Nodes :
               SumOver(tree_delta, Below(d)) + SumOver(Weight, FinishedBelow(d))
               = SumOver(Weights, OidsIn(FinishedBelow(d)))
      BY <1>0, <3>1 DEF DeltaInv
    <3>8. tree_delta' = tree_delta
      BY <3>1
    <3> QED BY <3>2, <3>3, <3>4, <3>5, <3>6, <3>7, <3>8 DEF DeltaInv
  <2>2. PathInv' /\ UnionInv' /\ OccurrenceInv'
    BY <1>0, <1>7, DescendKeepsPath, DescendKeepsUnion, DescendKeepsOccurrences
  <2> QED BY <1>0, <2>1, <2>2 DEF TraversalInv
<1>8. CASE Leave
  <2>1. PathInv' /\ UnionInv'
    BY <1>0, <1>8, LeaveKeepsPath, LeaveKeepsUnion
  <2>2. OccurrenceInv'
    BY <1>0, <1>8, LeaveKeepsOccurrences
  <2>3. DeltaInv'
    BY <1>0, <1>8, LeaveKeepsDelta
  <2> QED BY <1>0, <2>1, <2>2, <2>3 DEF TraversalInv
<1>9. CASE SetLeaves
  BY <1>3, <1>9 DEF SetLeaves
<1>10. CASE AggregateDirectory
  <2>1. /\ UNCHANGED <<facts, walk>> /\ g_pc = "directories"
        /\ g_pc' \in {"directories", "panicked"}
    BY <1>10 DEF AggregateDirectory
  <2> QED BY <1>3, <2>1
<1>11. CASE CutSlices
  BY <1>3, <1>11 DEF CutSlices
<1>12. CASE UNCHANGED gvars
  <2>1. UNCHANGED <<facts, walk>> /\ g_pc' = g_pc /\ UNCHANGED <<objects, object_index>>
    BY <1>12 DEF gvars, evidence
  <2>2. CASE g_pc = "ingesting"
    <3>1. stack' = <<>>
      BY <2>1, <2>2 DEF KnowledgeInv, InPhase, walk
    <3>2. PathInv' /\ UnionInv' /\ OccurrenceInv' /\ DeltaInv'
      BY <2>1, <2>2, <3>1 DEF PathInv, UnionInv, OccurrenceInv, DeltaInv
    <3> QED BY <1>0, <3>2 DEF TraversalInv
  <2>3. CASE g_pc # "ingesting"
    <3>1. PathInv' /\ UnionInv' /\ DeltaInv'
      BY <1>0, <2>1, <2>3, WalkStands
    <3>2. OccurrenceInv'
      <4>1. UNCHANGED <<facts, stack, post_order, last_occurrence>>
        BY <2>1 DEF walk
      <4>2. /\ StackNodes' = StackNodes /\ Nodes' = Nodes
            /\ \A i : (Finished(i)' <=> Finished(i)) /\ Above(i)' = Above(i)
        BY <4>1, WalkKept
      <4>3. \A o : Occurrences(o)' = Occurrences(o)
        BY <2>1, <4>1, <4>2, TableKept DEF Occurrences
      <4> QED BY <1>0, <2>1, <4>1, <4>2, <4>3 DEF OccurrenceInv
    <3> QED BY <1>0, <3>1, <3>2 DEF TraversalInv
  <2> QED BY <2>2, <2>3
<1> QED BY <1>1, <1>2, <1>4, <1>5, <1>6, <1>7, <1>8, <1>9, <1>10, <1>11, <1>12
        DEF ANext, Compute, AllRows

\* Through the whole traversal, what is taken off below a directory is what its
\* finished entries weigh more than their objects do.
THEOREM TraversalInvariant == ASpec => []TraversalInv
BY TraversalStart, TraversalSteps, KnowledgeInvariant, LinksInvariant, PTL DEF ASpec
---------------------------------------------------------------------------
(* Unique bytes *)

\* The sum of two functions.
LEMMA SumOfSums ==
  ASSUME NEW f, NEW g, NEW e, NEW S, IsFiniteSet(S),
         \A x \in S : f[x] \in Int /\ g[x] \in Int /\ e[x] = f[x] + g[x]
  PROVE  SumOver(e, S) = SumOver(f, S) + SumOver(g, S)
<1>1. PICK P : P = {s \in SUBSET S : SumOver(e, s) = SumOver(f, s) + SumOver(g, s)}
  OBVIOUS
<1>2. {} \in P
  BY <1>1, SumOfNothing
<1>3. ASSUME NEW s \in SUBSET S, s # {}, \A x \in s : s \ {x} \in P PROVE s \in P
  <2>1. PICK x \in s : TRUE
    BY <1>3
  <2>2. PICK r : r = s \ {x}
    OBVIOUS
  <2>3. IsFiniteSet(s) /\ IsFiniteSet(r) /\ r \subseteq S
    BY <2>2, FS_Subset
  <2>4. \A y \in s : f[y] \in Int /\ g[y] \in Int /\ e[y] \in Int
    OBVIOUS
  <2>5. SumOver(f, s) = f[x] + SumOver(f, r)
    BY <2>2, <2>3, <2>4, SumWithout
  <2>6. SumOver(g, s) = g[x] + SumOver(g, r)
    BY <2>2, <2>3, <2>4, SumWithout
  <2>7. SumOver(e, s) = e[x] + SumOver(e, r)
    BY <2>2, <2>3, <2>4, SumWithout
  <2>8. SumOver(f, r) \in Int /\ SumOver(g, r) \in Int
    BY <2>2, <2>3, <2>4, SumWithout
  <2>9. SumOver(e, r) = SumOver(f, r) + SumOver(g, r)
    BY <1>1, <1>3, <2>2
  <2>10. f[x] \in Int /\ g[x] \in Int /\ e[x] = f[x] + g[x]
    OBVIOUS
  <2>11. SumOver(e, s) = SumOver(f, s) + SumOver(g, s)
    BY <2>5, <2>6, <2>7, <2>8, <2>9, <2>10
  <2> QED BY <1>1, <2>11
<1>4. SUBSET S \subseteq P
  BY <1>2, <1>3, BySize
<1> QED BY <1>1, <1>4

\* Fewer naturals do not make more.
LEMMA SumOfFewer ==
  ASSUME NEW f, NEW T, IsFiniteSet(T), NEW S \in SUBSET T, \A x \in T : f[x] \in Nat
  PROVE  SumOver(f, S) \in Nat /\ SumOver(f, T) \in Nat /\ SumOver(f, S) <= SumOver(f, T)
<1>1. PICK R : R = T \ S
  OBVIOUS
<1>2. IsFiniteSet(S) /\ IsFiniteSet(R) /\ S \intersect R = {} /\ S \union R = T
  BY <1>1, FS_Subset
<1>3. SumOver(f, S) \in Nat /\ SumOver(f, R) \in Nat
  BY <1>1, <1>2, SumIsNat
<1>4. \A x \in S \union R : f[x] \in Int
  BY <1>2
<1>5. SumOver(f, S \union R) = SumOver(f, S) + SumOver(f, R)
  BY <1>2, <1>4, SumOfBoth
<1>6. SumOver(f, T) = SumOver(f, S) + SumOver(f, R)
  BY <1>2, <1>5
<1> QED BY <1>3, <1>6

\* What counts for each entry that is not an object's.
Apart(i) == IsDir(i) \/ (IsFile(i) /\ table[i].oid = None)
Share == [i \in Nodes |-> IF Apart(i) THEN Allocated[i] ELSE 0]
ApartBelow(d) == {i \in Below(d) : Apart(i)}

\* The bytes below a directory, as the traversal accounts for them.
LEMMA DistinctUnfolds ==
  ASSUME GTypes, TableGrows, NEW d \in Nodes
  PROVE  /\ SumOver(Share, Below(d)) = SumOver(Allocated, ApartBelow(d))
         /\ OidsBelow(d) = OidsIn(Below(d))
         /\ DistinctBytes(d) = SumOver(Weights, OidsIn(Below(d))) + SumOver(Share, Below(d))
<1>1. PICK B, K, R : B = Below(d) /\ K = ApartBelow(d) /\ R = B \ K
  OBVIOUS
<1>2. Allocated \in [Nodes -> Nat]
  BY SizesAreTyped
<1>3. B \subseteq Nodes /\ IsFiniteSet(B)
  BY <1>1, BelowIsTree
<1>4. /\ K = {i \in B : Apart(i)} /\ K \union R = B /\ K \intersect R = {}
      /\ IsFiniteSet(K) /\ IsFiniteSet(R)
  <2>1. K = {i \in B : Apart(i)}
    BY <1>1 DEF ApartBelow
  <2>2. K \subseteq B /\ R \subseteq B
    BY <1>1, <2>1
  <2>3. IsFiniteSet(K) /\ IsFiniteSet(R)
    BY <1>3, <2>2, FS_Subset
  <2> QED BY <1>1, <2>1, <2>2, <2>3
<1>5. \A i \in Nodes : Share[i] \in Int /\ Share[i] = IF Apart(i) THEN Allocated[i] ELSE 0
  BY <1>2 DEF Share
<1>6. SumOver(Share, K) = SumOver(Allocated, K)
  <2>1. \A x \in K : Allocated[x] \in Int /\ Share[x] = Allocated[x]
    BY <1>2, <1>3, <1>4, <1>5
  <2> QED BY <1>4, <2>1, SameSum
<1>7. SumOver(Share, R) = 0
  <2>1. \A x \in R : Share[x] = 0
    BY <1>3, <1>4, <1>5
  <2> QED BY <1>4, <2>1, SumOfZeros
<1>8. SumOver(Share, B) = SumOver(Share, K) + SumOver(Share, R)
  <2>1. \A x \in K \union R : Share[x] \in Int
    BY <1>3, <1>4, <1>5
  <2>2. SumOver(Share, K \union R) = SumOver(Share, K) + SumOver(Share, R)
    BY <1>4, <2>1, SumOfBoth
  <2> QED BY <1>4, <2>2
<1>9. SumOver(Allocated, K) \in Int
  <2>1. \A x \in K : Allocated[x] \in Int
    BY <1>2, <1>3, <1>4
  <2> QED BY <1>4, <2>1, SumWithout
<1>10. SumOver(Share, B) = SumOver(Allocated, K)
  BY <1>6, <1>7, <1>8, <1>9
<1>11. OidsBelow(d) = OidsIn(Below(d))
  BY DEF OidsBelow, OidsIn, FilesBelow, Below, Identified
<1>12. Weights = [oid \in FileOids |-> LeastOrNil(KnownAllocs(Aliases(oid)))]
  BY DEF Weights, WeightOf
<1>13. DistinctBytes(d) = SumOver(Weights, OidsBelow(d)) + SumOver(Allocated, K)
  BY <1>1, <1>12, Zenon DEF DistinctBytes, ApartBelow, Apart
<1> QED BY <1>1, <1>10, <1>11, <1>13

\* The bytes below a directory are naturals, and no more than below the root.
LEMMA DistinctGrows ==
  ASSUME GTypes, TableGrows, NEW d \in Nodes
  PROVE  /\ DistinctBytes(d) \in Nat /\ DistinctBytes(1) \in Nat
         /\ DistinctBytes(d) <= DistinctBytes(1)
<1>1. 1 \in Nodes /\ Below(d) \subseteq Nodes /\ Below(1) = Nodes
  <2>1. 1 \in Nodes
    BY ParentsAreOlder
  <2>2. \A i \in Nodes : 1 \in Above(i)
    BY AboveIsClosed
  <2> QED BY <2>1, <2>2 DEF Below
<1>2. /\ Weights \in [FileOids -> Nat] /\ IsFiniteSet(Nodes)
      /\ OidsIn(Nodes) \subseteq FileOids /\ IsFiniteSet(OidsIn(Nodes))
      /\ OidsIn(Below(d)) \subseteq OidsIn(Nodes)
  <2>1. OidsIn(Below(d)) \subseteq OidsIn(Nodes)
    BY <1>1 DEF OidsIn
  <2> QED BY <2>1, WeightsAreTyped
<1>3. \A i \in Nodes : Share[i] \in Nat
  BY SizesAreTyped DEF Share
<1>4. PICK a, b, e, f :
        /\ a = SumOver(Weights, OidsIn(Below(d))) /\ b = SumOver(Weights, OidsIn(Nodes))
        /\ e = SumOver(Share, Below(d)) /\ f = SumOver(Share, Nodes)
  OBVIOUS
<1>5. a \in Nat /\ b \in Nat /\ a <= b
  <2>1. \A x \in OidsIn(Nodes) : Weights[x] \in Nat
    BY <1>2
  <2> QED BY <1>2, <1>4, <2>1, SumOfFewer
<1>6. e \in Nat /\ f \in Nat /\ e <= f
  BY <1>1, <1>2, <1>3, <1>4, SumOfFewer
<1>7. DistinctBytes(d) = a + e /\ DistinctBytes(1) = b + f
  BY <1>1, <1>4, DistinctUnfolds
<1> QED BY <1>5, <1>6, <1>7

\* Once everything is finished, the bytes below a directory are what its
\* entries weigh and what was taken off.
LEMMA DistinctIsClaimed ==
  ASSUME GTypes, TableGrows, DeltaInv, g_pc # "ingesting", \A i \in Nodes : Finished(i),
         NEW claim, claim = [i \in Nodes |-> tree_delta[i] + (Weight[i] + Share[i])]
  PROVE  \A d \in Nodes : DistinctBytes(d) = SumOver(claim, Below(d))
<1>1. ASSUME NEW d \in Nodes PROVE DistinctBytes(d) = SumOver(claim, Below(d))
  <2>1. PICK B, both : B = Below(d) /\ both = [i \in Nodes |-> Weight[i] + Share[i]]
    OBVIOUS
  <2>2. B \subseteq Nodes /\ IsFiniteSet(B) /\ Weight \in [Nodes -> Nat]
    BY <2>1, WeightsAreTyped
  <2>3. tree_delta \in [Nodes -> Int] /\ \A i \in Nodes : Share[i] \in Nat
    BY SizesAreTyped DEF DeltaInv, Share
  <2>4. FinishedBelow(d) = B
    BY <2>1 DEF FinishedBelow, Below
  <2>5. SumOver(tree_delta, B) + SumOver(Weight, B) = SumOver(Weights, OidsIn(B))
    BY <2>1, <2>4 DEF DeltaInv
  <2>6. DistinctBytes(d) = SumOver(Weights, OidsIn(B)) + SumOver(Share, B)
    BY <2>1, DistinctUnfolds
  <2>7. /\ \A i \in B : Weight[i] \in Int /\ Share[i] \in Int /\ tree_delta[i] \in Int
        /\ \A i \in B : both[i] = Weight[i] + Share[i] /\ both[i] \in Int
        /\ \A i \in B : claim[i] = tree_delta[i] + both[i]
    BY <2>1, <2>2, <2>3
  <2>8. SumOver(both, B) = SumOver(Weight, B) + SumOver(Share, B)
    BY <2>2, <2>7, SumOfSums
  <2>9. SumOver(claim, B) = SumOver(tree_delta, B) + SumOver(both, B)
    BY <2>2, <2>7, SumOfSums
  <2>10. SumOver(tree_delta, B) \in Int /\ SumOver(Weight, B) \in Int /\ SumOver(Share, B) \in Int
    BY <2>2, <2>7, SumWithout
  <2> QED BY <2>1, <2>5, <2>6, <2>8, <2>9, <2>10
<1> QED BY <1>1

\* So the bytes below a directory are those below its children, its own, and
\* what was taken off at it.
LEMMA DistinctUp ==
  ASSUME GTypes, TableGrows, DeltaInv, g_pc # "ingesting", \A i \in Nodes : Finished(i),
         NEW d \in Nodes, IsDir(d)
  PROVE  DistinctBytes(d)
         = SumOver([c \in ChildrenOf(d) |-> DistinctBytes(c)], ChildrenOf(d))
           + tree_delta[d] + value(table[d].alloc)
<1>1. PICK claim : claim = [i \in Nodes |-> tree_delta[i] + (Weight[i] + Share[i])]
  OBVIOUS
<1>2. \A i \in Nodes : DistinctBytes(i) = SumOver(claim, Below(i))
  BY <1>1, DistinctIsClaimed
<1>3. /\ tree_delta \in [Nodes -> Int] /\ Weight \in [Nodes -> Nat]
      /\ Allocated \in [Nodes -> Nat] /\ \A i \in Nodes : Share[i] \in Nat
  BY WeightsAreTyped, SizesAreTyped DEF DeltaInv, Share
<1>4. \A i \in Nodes : claim[i] \in Int
  BY <1>1, <1>3
<1>5. SumOver(claim, Below(d))
      = claim[d] + SumOver([c \in ChildrenOf(d) |-> SumOver(claim, Below(c))], ChildrenOf(d))
  BY <1>4, SumBelow
<1>6. [c \in ChildrenOf(d) |-> SumOver(claim, Below(c))]
      = [c \in ChildrenOf(d) |-> DistinctBytes(c)]
  BY <1>2 DEF ChildrenOf
<1>7. Weight[d] = 0 /\ Share[d] = value(table[d].alloc)
  BY DEF Weight, Share, Apart, Identified, IsDir, IsFile, Allocated
<1>8. claim[d] = tree_delta[d] + value(table[d].alloc)
  <2>1. value(table[d].alloc) \in Int /\ tree_delta[d] \in Int
    BY <1>3, <1>7
  <2> QED BY <1>1, <1>7, <2>1
<1>9. PICK a, s, w :
        /\ a = value(table[d].alloc) /\ w = tree_delta[d]
        /\ s = SumOver([c \in ChildrenOf(d) |-> DistinctBytes(c)], ChildrenOf(d))
  OBVIOUS
<1>10. a \in Int /\ w \in Int /\ s \in Int
  <2>1. PICK f : f = [c \in ChildrenOf(d) |-> DistinctBytes(c)]
    OBVIOUS
  <2>2. IsFiniteSet(ChildrenOf(d)) /\ \A c \in ChildrenOf(d) : f[c] \in Int
    <3>1. ChildrenOf(d) \subseteq Nodes /\ IsFiniteSet(Nodes)
      BY LinksAreTyped DEF ChildrenOf
    <3>2. \A c \in Nodes : DistinctBytes(c) \in Int
      BY DistinctGrows
    <3> QED BY <2>1, <3>1, <3>2, FS_Subset
  <2>3. s \in Int
    BY <1>9, <2>1, <2>2, SumWithout
  <2> QED BY <1>3, <1>7, <1>9, <2>3
<1>11. DistinctBytes(d) = (w + a) + s
  BY <1>2, <1>5, <1>6, <1>8, <1>9
<1> QED BY <1>9, <1>10, <1>11

\* Below an entry that is no directory is that entry alone.
LEMMA DistinctOfLeaf ==
  ASSUME GTypes, TableGrows, NEW i \in Nodes, ~IsDir(i)
  PROVE  DistinctBytes(i) = Weight[i] + Share[i]
<1>1. Below(i) = {i}
  <2>1. ChildrenOf(i) = {}
    BY ParentsAreOlder
  <2> QED BY <2>1, BelowIsTree
<1>2. /\ Weight \in [Nodes -> Nat] /\ Weights \in [FileOids -> Nat]
      /\ \A j \in Identified : table[j].oid \in FileOids
      /\ Share[i] \in Nat
  BY WeightsAreTyped, SizesAreTyped DEF Share
<1>3. \A x, f : f[x] \in Int => SumOver(f, {x}) = f[x]
  <2>1. ASSUME NEW x, NEW f, f[x] \in Int PROVE SumOver(f, {x}) = f[x]
    <3>1. IsFiniteSet({x}) /\ \A y \in {x} : f[y] \in Int
      BY <2>1, FS_Singleton
    <3>2. SumOver(f, {x}) = f[x] + SumOver(f, {x} \ {x})
      BY <3>1, SumWithout
    <3>3. {x} \ {x} = {}
      OBVIOUS
    <3> QED BY <2>1, <3>2, <3>3, SumOfNothing
  <2> QED BY <2>1
<1>4. SumOver(Share, {i}) = Share[i]
  BY <1>2, <1>3
<1>5. SumOver(Weights, OidsIn({i})) = Weight[i]
  <2>1. CASE i \in Identified
    <3>1. OidsIn({i}) = {table[i].oid} /\ table[i].oid \in FileOids
      BY <1>2, <2>1 DEF OidsIn
    <3>2. Weights[table[i].oid] = Weight[i]
      BY <2>1, <3>1 DEF Weights, Weight
    <3> QED BY <1>2, <1>3, <3>1, <3>2
  <2>2. CASE i \notin Identified
    <3>1. OidsIn({i}) = {} /\ Weight[i] = 0
      BY <2>2 DEF OidsIn, Weight
    <3> QED BY <3>1, SumOfNothing
  <2> QED BY <2>1, <2>2
<1>6. DistinctBytes(i) = SumOver(Weights, OidsIn({i})) + SumOver(Share, {i})
  BY <1>1, DistinctUnfolds
<1> QED BY <1>4, <1>5, <1>6

\* Entries that are no directory have their unique bytes from the start of
\* phase 4 on, and directories once they are added up, unless the bytes of the
\* whole tree exceed a u64.
Counted(i) == unique[i] = DistinctBytes(i)

UniqueInv ==
  /\ g_pc # "ingesting" => unique = [i \in Nodes |-> unique[i]]
  /\ g_pc \in {"objects", "walk"} => \A i \in Nodes : unique[i] = Allocated[i]
  /\ g_pc \in {"directories", "graph"} => \A i \in Nodes : ~IsDir(i) => Counted(i)
  /\ DistinctBytes(1) <= MaxU64 =>
       /\ g_pc # "panicked"
       /\ g_pc \in {"directories", "graph"} =>
            \A k \in 1..Len(post_order) :
              IsDir(post_order[k]) /\ k \notin todo => Counted(post_order[k])

\* The bytes below an entry are in the table.
LEMMA DistinctKept ==
  ASSUME UNCHANGED facts
  PROVE  /\ Nodes' = Nodes /\ \A d : DistinctBytes(d)' = DistinctBytes(d)
         /\ \A i : (IsDir(i)' <=> IsDir(i)) /\ ChildrenOf(i)' = ChildrenOf(i)
         /\ Allocated' = Allocated
<1>1. /\ table' = table /\ parent' = parent /\ Nodes' = Nodes /\ FileOids' = FileOids
      /\ \A oid : WeightOf(oid)' = WeightOf(oid)
      /\ \A i : (IsFile(i)' <=> IsFile(i)) /\ (IsDir(i)' <=> IsDir(i))
      /\ \A i : ChildrenOf(i)' = ChildrenOf(i)
      /\ Allocated' = Allocated
  BY WeightsKept
<1>2. \A d : Below(d)' = Below(d)
  BY <1>1 DEF Below, Above
<1>3. \A d : OidsBelow(d)' = OidsBelow(d)
  BY <1>1, <1>2 DEF OidsBelow, FilesBelow
<1>4. \A d : DistinctBytes(d)' = DistinctBytes(d)
  <2>1. ASSUME NEW d PROVE DistinctBytes(d)' = DistinctBytes(d)
    <3>1. [oid \in FileOids |-> LeastOrNil(KnownAllocs(Aliases(oid)))]'
          = [oid \in FileOids |-> LeastOrNil(KnownAllocs(Aliases(oid)))]
      BY <1>1 DEF KnownAllocs, Aliases
    <3>2. {i \in Below(d) : IsDir(i) \/ (IsFile(i) /\ table[i].oid = None)}'
          = {i \in Below(d) : IsDir(i) \/ (IsFile(i) /\ table[i].oid = None)}
      BY <1>1, <1>2
    <3> QED BY <1>1, <1>3, <3>1, <3>2 DEF DistinctBytes
  <2> QED BY <2>1
<1> QED BY <1>1, <1>4

\* Nothing is counted yet.
LEMMA UniqueStart == AInit => UniqueInv
BY DEF AInit, UniqueInv

\* Whatever moves neither unique bytes nor the directories to add up.
LEMMA UniqueStands ==
  ASSUME UniqueInv, UNCHANGED <<facts, unique, post_order, todo>>,
         \/ g_pc' = g_pc
         \/ g_pc = "objects" /\ g_pc' = "walk"
         \/ g_pc = "directories" /\ g_pc' = "graph"
  PROVE  UniqueInv'
<1>1. /\ Nodes' = Nodes /\ \A d : DistinctBytes(d)' = DistinctBytes(d)
      /\ \A i : IsDir(i)' <=> IsDir(i)
      /\ Allocated' = Allocated
  BY DistinctKept
<1>2. \A i : Counted(i)' <=> Counted(i)
  BY <1>1 DEF Counted
<1> QED BY <1>1, <1>2 DEF UniqueInv

\* Phase 3: the entries that are no directory.
LEMMA SetLeavesKeepsUnique ==
  ASSUME KnowledgeInv, LinksInv, ObjectsInv, UniqueInv, SetLeaves
  PROVE  UniqueInv'
<1>1. /\ g_pc = "walk" /\ g_pc' = "directories" /\ UNCHANGED facts /\ GTypes /\ TableGrows
      /\ unique' = [i \in Nodes |-> IF IsFile(i) /\ object_index[i] # 0
                                    THEN objects[object_index[i]].weight ELSE unique[i]]
      /\ todo' = {k \in 1..Len(post_order) : IsDir(post_order[k])}
      /\ post_order' = post_order
      /\ \A i \in Nodes : unique[i] = Allocated[i]
  BY DEF SetLeaves, walk, KnowledgeInv, UniqueInv
<1>2. /\ Nodes' = Nodes /\ \A d : DistinctBytes(d)' = DistinctBytes(d)
      /\ \A i : IsDir(i)' <=> IsDir(i)
  BY <1>1, DistinctKept
<1>3. Allocated \in [Nodes -> Nat]
  BY <1>1, SizesAreTyped
<1>4. ASSUME NEW i \in Nodes, ~IsDir(i)
      PROVE  unique'[i] = DistinctBytes(i)
  <2>1. /\ DistinctBytes(i) = Weight[i] + Share[i]
        /\ unique'[i] = IF IsFile(i) /\ object_index[i] # 0
                        THEN objects[object_index[i]].weight ELSE Allocated[i]
    BY <1>1, <1>4, DistinctOfLeaf
  <2>2. Weight[i] \in Nat /\ Share[i] \in Nat /\ Allocated[i] \in Nat
    <3>1. Weight \in [Nodes -> Nat]
      BY <1>1, WeightsAreTyped
    <3> QED BY <1>3, <3>1 DEF Share
  <2>3. CASE i \in Identified
    <3>1. IsFile(i) /\ object_index[i] # 0 /\ objects[object_index[i]].weight = Weight[i]
      BY <1>1, <2>3, ObjectOfFile DEF Identified, Weight
    <3>2. Share[i] = 0
      BY <1>4, <2>3 DEF Share, Apart, Identified
    <3> QED BY <2>1, <2>2, <3>1, <3>2
  <2>4. CASE i \in Anonymous
    <3>1. i \notin Identified /\ IsFile(i) /\ Apart(i)
      BY <2>4 DEF Anonymous, Identified, Apart
    <3>2. Weight[i] = 0 /\ Share[i] = Allocated[i]
      BY <3>1 DEF Weight, Share
    <3>3. object_index[i] # 0 => objects[object_index[i]].weight = Allocated[i]
      BY <1>1, <3>1, ObjectOfFile
    <3> QED BY <2>1, <2>2, <3>2, <3>3
  <2>5. CASE ~IsFile(i)
    <3>1. Weight[i] = 0 /\ Share[i] = 0
      BY <1>4, <2>5 DEF Weight, Share, Apart, Identified
    <3>2. table[i].alloc = None
      <4>1. table[i] \in AllRows
        BY <1>1 DEF GTypes, Nodes
      <4>2. PICK f \in Families : table[i] \in Rows(f)
        BY <4>1 DEF AllRows
      <4>3. PICK row : row = table[i]
        OBVIOUS
      <4>4. row.kind = "Special" => row.alloc = None
        BY <4>2, <4>3 DEF Rows
      <4>5. row.kind \in {"Directory", "File", "Special"}
        BY <4>2, <4>3 DEF Rows
      <4> QED BY <1>4, <2>5, <4>3, <4>4, <4>5 DEF IsDir, IsFile
    <3>3. Allocated[i] = 0
      BY <3>2 DEF Allocated, value
    <3> QED BY <2>1, <2>5, <3>1, <3>3
  <2> QED BY <2>3, <2>4, <2>5 DEF Identified, Anonymous
<1>5. \A i \in Nodes : ~IsDir(i) => Counted(i)'
  BY <1>2, <1>4 DEF Counted
<1>6. unique' = [i \in Nodes |-> unique'[i]]
  BY <1>1
<1>7. \A k \in 1..Len(post_order) : ~(IsDir(post_order[k]) /\ k \notin todo')
  BY <1>1
<1> QED BY <1>1, <1>2, <1>5, <1>6, <1>7 DEF UniqueInv

\* Phase 4: one more directory.
LEMMA AggregateKeepsUnique ==
  ASSUME KnowledgeInv, DeltaInv, UniqueInv, AggregateDirectory
  PROVE  UniqueInv'
<1>0. PICK t, d : t = Min(todo) /\ d = post_order[t]
  OBVIOUS
<1>1. /\ g_pc = "directories" /\ todo # {} /\ UNCHANGED <<facts, post_order>> /\ stack = <<>>
      /\ GTypes /\ TableGrows /\ SummedUp /\ PostOrderInv
  BY DEF AggregateDirectory, KnowledgeInv, walk, InPhase
<1>2. /\ t \in todo /\ (\A u \in todo : t <= u)
      /\ Len(post_order) \in Nat /\ todo \subseteq 1..Len(post_order)
  <2>1. Len(post_order) \in Nat /\ todo \subseteq 1..Len(post_order)
    BY <1>1 DEF GTypes
  <2>2. todo \subseteq Nat
    BY <2>1
  <2> QED BY <1>0, <1>1, <2>1, <2>2, MinIsLeast
<1>3. d \in Nodes /\ IsDir(d) /\ t \in 1..Len(post_order)
  BY <1>0, <1>1, <1>2 DEF SummedUp, GTypes
<1>4. /\ Nodes' = Nodes /\ \A i : DistinctBytes(i)' = DistinctBytes(i)
      /\ \A i : (IsDir(i)' <=> IsDir(i))
  BY <1>1, DistinctKept
<1>5. PICK net : net = SumOver(unique, ChildrenOf(d)) + tree_delta[d] + value(table[d].alloc)
  OBVIOUS
<1>6. IF net < 0
      THEN g_pc' = "panicked" /\ UNCHANGED <<sums, size_known>>
      ELSE /\ todo' = todo \ {t} /\ g_pc' = g_pc
           /\ unique' = [unique EXCEPT ![d] = net % (MaxU64 + 1)]
  <2>1. IF SumOver(unique, ChildrenOf(d)) + tree_delta[d] + value(table[d].alloc) < 0
        THEN g_pc' = "panicked" /\ UNCHANGED <<sums, size_known>>
        ELSE /\ todo' = todo \ {t} /\ g_pc' = g_pc
             /\ unique' = [unique EXCEPT ![d] =
                  (SumOver(unique, ChildrenOf(d)) + tree_delta[d] + value(table[d].alloc))
                    % (MaxU64 + 1)]
    BY <1>0 DEF AggregateDirectory
  <2> QED BY <1>5, <2>1, Zenon
<1>7. /\ unique = [i \in Nodes |-> unique[i]]
      /\ \A i \in Nodes : ~IsDir(i) => Counted(i)
  BY <1>1 DEF UniqueInv
<1>8. ASSUME DistinctBytes(1) <= MaxU64
      PROVE  net = DistinctBytes(d) /\ net \in 0..MaxU64
  <2>1. ASSUME NEW c \in ChildrenOf(d) PROVE Counted(c)
    <3>1. c \in Nodes
      BY DEF ChildrenOf
    <3>2. CASE IsDir(c)
      <4>1. PICK j \in 1..(t - 1) : post_order[j] = c
        BY <1>0, <1>1, <1>3 DEF PostOrderInv
      <4>2. j \in 1..Len(post_order) /\ j \notin todo
        BY <1>2, <1>3, <4>1
      <4> QED BY <1>1, <1>8, <3>2, <4>1, <4>2 DEF UniqueInv
    <3> QED BY <1>7, <3>1, <3>2
  <2>2. PICK C, f : C = ChildrenOf(d) /\ f = [c \in C |-> DistinctBytes(c)]
    OBVIOUS
  <2>3. IsFiniteSet(C) /\ C \subseteq Nodes
    <3>1. C \subseteq Nodes /\ IsFiniteSet(Nodes)
      BY <1>1, <2>2, LinksAreTyped DEF ChildrenOf
    <3> QED BY <3>1, FS_Subset
  <2>4. \A c \in C : f[c] \in Int /\ unique[c] = f[c]
    <3>1. \A c \in Nodes : DistinctBytes(c) \in Int
      BY <1>1, DistinctGrows
    <3> QED BY <2>1, <2>2, <2>3, <3>1 DEF Counted
  <2>5. SumOver(unique, C) = SumOver(f, C)
    BY <2>3, <2>4, SameSum
  <2>6. \A i \in Nodes : Finished(i)
    BY <1>1, EveryEntryIsFinished
  <2>7. DistinctBytes(d) = SumOver(f, C) + tree_delta[d] + value(table[d].alloc)
    BY <1>1, <1>3, <2>2, <2>6, DistinctUp
  <2>8. net = DistinctBytes(d)
    BY <1>5, <2>2, <2>5, <2>7
  <2>9. DistinctBytes(d) \in Nat /\ DistinctBytes(1) \in Nat /\ DistinctBytes(d) <= DistinctBytes(1)
    BY <1>1, <1>3, DistinctGrows
  <2> QED BY <1>8, <2>8, <2>9, FamiliesAssumption
<1>9. CASE net < 0
  <2>1. g_pc' = "panicked" /\ UNCHANGED <<unique, todo>>
    BY <1>6, <1>9 DEF sums
  <2>2. ~(DistinctBytes(1) <= MaxU64)
    BY <1>8, <1>9
  <2> QED BY <1>4, <1>7, <2>1, <2>2 DEF UniqueInv
<1>10. CASE ~(net < 0)
  <2>1. /\ todo' = todo \ {t} /\ g_pc' = "directories"
        /\ unique' = [unique EXCEPT ![d] = net % (MaxU64 + 1)]
    BY <1>1, <1>6, <1>10
  <2>2. /\ unique' = [i \in Nodes |-> unique'[i]]
        /\ \A i \in Nodes : i # d => unique'[i] = unique[i]
        /\ unique'[d] = net % (MaxU64 + 1)
    BY <1>3, <1>7, <2>1
  <2>3. \A i \in Nodes : i # d => (Counted(i)' <=> Counted(i))
    BY <1>4, <2>2 DEF Counted
  <2>4. \A i \in Nodes : ~IsDir(i) => Counted(i)'
    BY <1>3, <1>7, <2>3
  <2>5. ASSUME DistinctBytes(1) <= MaxU64, NEW k \in 1..Len(post_order),
               IsDir(post_order[k]), k \notin todo'
        PROVE  Counted(post_order[k])'
    <3>1. PICK e \in Nodes : e = post_order[k]
      BY <1>1 DEF GTypes
    <3>2. CASE k = t
      <4>1. e = d /\ net = DistinctBytes(d)
        BY <1>0, <1>8, <2>5, <3>1, <3>2
      <4>2. net \in Nat /\ MaxU64 \in Nat /\ net < MaxU64 + 1
        BY <1>8, <2>5, FamiliesAssumption
      <4>3. net % (MaxU64 + 1) = net
        BY <4>2
      <4>4. Counted(d)'
        BY <1>4, <2>2, <4>1, <4>3 DEF Counted
      <4>5. Counted(e)'
        BY <4>1, <4>4
      <4> QED BY <1>1, <3>1, <4>5
    <3>3. CASE k # t
      <4>1. e # d /\ k \notin todo
        BY <1>0, <1>2, <2>1, <2>5, <3>1, <3>3, AddedApart
      <4>2. Counted(e)
        BY <1>1, <2>5, <3>1, <4>1 DEF UniqueInv
      <4>3. Counted(e)'
        BY <2>3, <4>1, <4>2
      <4> QED BY <1>1, <3>1, <4>3
    <3> QED BY <3>2, <3>3
  <2>6. DistinctBytes(1)' = DistinctBytes(1) /\ post_order' = post_order
    BY <1>1, <1>4
  <2> QED BY <1>4, <2>1, <2>2, <2>4, <2>5, <2>6 DEF UniqueInv
<1> QED BY <1>9, <1>10

\* Every step of the builder and of compute_aggregates.
LEMMA UniqueSteps ==
  ASSUME KnowledgeInv, LinksInv, TraversalInv, UniqueInv, [ANext]_gvars
  PROVE  UniqueInv'
<1>1. ASSUME NEW row \in AllRows, NEW p \in 0..Len(table), Ingest(row, p)
      PROVE  UniqueInv'
  BY <1>1 DEF Ingest, UniqueInv
<1>2. CASE Begin
  <2>1. /\ g_pc' = "objects" /\ UNCHANGED facts
        /\ unique' = [i \in Nodes |-> value(table[i].alloc)]
    BY <1>2 DEF Begin
  <2>2. Nodes' = Nodes /\ Allocated' = Allocated
    BY <2>1, DistinctKept
  <2>3. unique' = Allocated
    BY <2>1 DEF Allocated
  <2>4. unique' = [i \in Nodes |-> unique'[i]]
    BY <2>1
  <2> QED BY <2>1, <2>2, <2>3, <2>4 DEF UniqueInv
<1>3. ASSUME NEW oid \in FileOids, NormalizeFileObject(oid) PROVE UniqueInv'
  BY <1>3, UniqueStands DEF NormalizeFileObject, walk, sums
<1>4. ASSUME NEW d \in Nodes, NormalizeDirectory(d) PROVE UniqueInv'
  BY <1>4, UniqueStands, SMTT(60) DEF NormalizeDirectory, walk, sums
<1>5. CASE AccountIdentityLess
  BY <1>5, UniqueStands DEF AccountIdentityLess, sums
<1>6. CASE Descend
  BY <1>6, UniqueStands DEF Descend, sums
<1>7. CASE Leave
  <2>1. g_pc' = "walk" /\ g_pc = "walk" /\ UNCHANGED <<facts, unique>>
    BY <1>7 DEF Leave, sums
  <2>2. /\ Nodes' = Nodes /\ \A d : DistinctBytes(d)' = DistinctBytes(d)
        /\ Allocated' = Allocated
    BY <2>1, DistinctKept
  <2> QED BY <2>1, <2>2 DEF UniqueInv
<1>8. CASE SetLeaves
  BY <1>8, SetLeavesKeepsUnique DEF TraversalInv
<1>9. CASE AggregateDirectory
  BY <1>9, AggregateKeepsUnique DEF TraversalInv
<1>10. CASE CutSlices
  BY <1>10, UniqueStands DEF CutSlices, walk, sums
<1>11. CASE UNCHANGED gvars
  BY <1>11, UniqueStands DEF gvars, walk, sums
<1> QED BY <1>1, <1>2, <1>3, <1>4, <1>5, <1>6, <1>7, <1>8, <1>9, <1>10, <1>11
        DEF ANext, Compute, AllRows

\* Phases 3 and 4 count each object once below every directory, from the
\* final values of its children and what the traversal took off at it.
THEOREM UniqueInvariant == ASpec => []UniqueInv
BY UniqueStart, UniqueSteps, KnowledgeInvariant, LinksInvariant, TraversalInvariant, PTL
   DEF ASpec

\* unique_allocated_bytes of every directory counts each object below it once,
\* and the assertion net_unique >= 0 holds, unless the bytes of the tree exceed
\* a u64.
THEOREM UniqueIsExact == ASpec => []UniqueExact
<1>1. ASSUME KnowledgeInv, UniqueInv, g_pc \in {"graph", "panicked"},
             DistinctBytes(1) <= MaxU64
      PROVE  g_pc = "graph" /\ \A d \in Nodes : IsDir(d) => unique[d] = DistinctBytes(d)
  <2>1. g_pc = "graph"
    BY <1>1 DEF UniqueInv
  <2>2. todo = {} /\ stack = <<>>
    BY <2>1, <1>1 DEF KnowledgeInv, InPhase
  <2>3. ASSUME NEW d \in Nodes, IsDir(d) PROVE unique[d] = DistinctBytes(d)
    <3>1. PICK k \in 1..Len(post_order) : post_order[k] = d
      BY <1>1, <2>1, <2>2, EveryEntryIsFinished DEF Finished
    <3> QED BY <1>1, <2>1, <2>2, <2>3, <3>1 DEF UniqueInv, Counted
  <2> QED BY <2>1, <2>3
<1>2. KnowledgeInv /\ UniqueInv => UniqueExact
  BY <1>1 DEF UniqueExact
<1> QED BY <1>2, KnowledgeInvariant, UniqueInvariant, PTL
=============================================================================
