--------------------------- MODULE GraphBuilder ---------------------------
(***************************************************************************)
(* The ingestion half of pigtree-engine's GraphBuilder (builder.rs): the   *)
(* table of entries that the observation stream of a scan worker fills,    *)
(* its dense or sparse id index, the first-child / next-sibling lists, the *)
(* running totals and the terminal record that seals the table.            *)
(*                                                                         *)
(* ingest_record is a public method that leaves the builder usable after   *)
(* an error, so the model lets a client offer any record at any time; a    *)
(* reader that gives up at the first error is one of its behaviours.       *)
(* Indices are 1-based here (0-based in the code) and NIL stands for the   *)
(* code's u32::MAX.  compute_aggregates, which finish() runs on the table, *)
(* is the subject of GraphAggregates.  current_dir_id, which only feeds    *)
(* the path shown in a progress pulse, is left out; an entry's identity    *)
(* stands for what file_object_map, dir_object_ids and file_link_counts    *)
(* file under its id.                                                      *)
(***************************************************************************)
EXTENDS Integers, Sequences, FiniteSets

CONSTANTS
  Ids,         \* entry and parent ids a record may carry (u32 values)
  Sizes,       \* logical sizes a file record may carry
  AllocSizes,  \* allocated sizes a record may carry, None when not observed
  Identities,  \* object identity and link count a record may carry
  MaxU64,      \* where saturating_add stops
  MaxEntries,  \* bound: entries a behaviour may insert
  MaxGaps,     \* bound: coverage gaps a behaviour may report
  MaxStreams,  \* bound: secondary streams a behaviour may report
  None         \* Rust's Option::None

ASSUME ConstantsAssumption ==
  /\ Ids \subseteq Nat
  /\ Sizes \subseteq Nat
  /\ MaxU64 \in Nat
  /\ AllocSizes \subseteq Nat \union {None}
  /\ MaxEntries \in Nat
  /\ MaxGaps \in Nat
  /\ MaxStreams \in Nat
  /\ None \notin Nat

VARIABLES
  entries,          \* Vec<CompactEntry>, in arrival order
  is_dense,         \* entry k has id k, so ids are indices
  id_to_idx,        \* the sparse index; empty while dense
  first_child, last_child, next_sibling,
  pending_streams,  \* each secondary stream with the index it is filed under
  gaps,             \* number of CoverageGap records
  terminal,         \* the accepted Terminal record, or None
  dir_count, file_count, special_count,
  logical_bytes, allocated_bytes, allocated_bytes_known,
  result,           \* Ok, or the error of the last call
  phase             \* "ingesting" until finish() consumes the builder

index == <<is_dense, id_to_idx>>
links == <<first_child, last_child, next_sibling>>
totals == <<dir_count, file_count, special_count, logical_bytes,
            allocated_bytes, allocated_bytes_known>>
vars == <<entries, index, links, pending_streams, gaps, terminal, totals,
          result, phase>>

NIL == 0
Kinds == {"Directory", "File", "Special"}
RunOutcomes == {"Finished", "Cancelled", "Failed"}

GraphBuildErrors ==
  {"InvalidRoot", "DuplicateEntryId", "MissingParent", "ParentNotDirectory",
   "SelfParent", "UnknownStreamParent", "RecordAfterTerminal",
   "MissingTerminal", "AggregateMismatch"}

\* An entry record of the stream.  Special objects carry no sizes and
\* directories no logical size.
EntryRecords ==
  [kind : {"Directory"}, id : Ids, parent_id : Ids, logical_size : {0},
   allocated_size : AllocSizes, identity : Identities]
  \union
  [kind : {"File"}, id : Ids, parent_id : Ids, logical_size : Sizes,
   allocated_size : AllocSizes, identity : Identities]
  \union
  [kind : {"Special"}, id : Ids, parent_id : Ids, logical_size : {0},
   allocated_size : {None}, identity : Identities]

TerminalRecords ==
  [outcome : RunOutcomes,
   total_directories : 0..MaxEntries, total_files : 0..MaxEntries,
   total_logical_bytes : 0..MaxU64, total_allocated_bytes : 0..MaxU64,
   coverage_gap_count : 0..MaxGaps]

ASSUME NoneAssumption == None \notin TerminalRecords

\* Mutant: plain u64 addition.
saturating_add_wraps(a, b) == (a + b) % (MaxU64 + 1)

saturating_add(a, b) == IF a + b > MaxU64 THEN MaxU64 ELSE a + b
unwrap_or_zero(s) == IF s = None THEN 0 ELSE s

---------------------------------------------------------------------------
(* GraphBuilder::new *)
Init ==
  /\ entries = <<>>
  /\ is_dense = TRUE
  /\ id_to_idx = <<>>
  /\ first_child = <<>> /\ last_child = <<>> /\ next_sibling = <<>>
  /\ pending_streams = <<>>
  /\ gaps = 0
  /\ terminal = None
  /\ dir_count = 0 /\ file_count = 0 /\ special_count = 0
  /\ logical_bytes = 0 /\ allocated_bytes = 0
  /\ allocated_bytes_known = TRUE
  /\ result = "Ok"
  /\ phase = "ingesting"

\* The sparse index built from the entries when the first id out of
\* sequence arrives.
IndexOfEntries ==
  [x \in {entries[i].id : i \in 1..Len(entries)} |->
     CHOOSE i \in 1..Len(entries) : entries[i].id = x]

\* Index of the entry with this id under a given representation, or NIL.
Lookup(dense, idx, id) ==
  IF dense THEN IF id \in 1..Len(entries) THEN id ELSE NIL
           ELSE IF id \in DOMAIN idx THEN idx[id] ELSE NIL

storage_get_idx(id) == Lookup(is_dense, id_to_idx, id)

\* The checks before the switch to the sparse index ...
RootError(r) ==
  IF entries = <<>>
  THEN r.id # 1 \/ r.parent_id # 0 \/ r.kind # "Directory"
  ELSE r.parent_id = 0 \/ r.id = 1

\* ... the switch itself, which a record that is then rejected also makes ...
LeavesSequence(r) ==
  /\ r.id # r.parent_id
  /\ ~RootError(r)
  /\ entries # <<>>
  /\ is_dense
  /\ r.id # Len(entries) + 1

DenseAfter(r) == is_dense /\ ~LeavesSequence(r)
IndexAfter(r) == IF LeavesSequence(r) THEN IndexOfEntries ELSE id_to_idx

ParentIndex(r) == Lookup(DenseAfter(r), IndexAfter(r), r.parent_id)

\* Mutant: the parent's kind is not checked.
Verdict_AnyParent(r) ==
  IF r.id = r.parent_id THEN "SelfParent"
  ELSE IF RootError(r) THEN "InvalidRoot"
  ELSE IF entries = <<>> THEN "Ok"
  ELSE IF Lookup(DenseAfter(r), IndexAfter(r), r.id) # NIL
       THEN "DuplicateEntryId"
  ELSE IF ParentIndex(r) = NIL THEN "MissingParent"
  ELSE "Ok"

\* ... and the verdict: the first check that fails, in the code's order.
Verdict(r) ==
  IF r.id = r.parent_id THEN "SelfParent"
  ELSE IF RootError(r) THEN "InvalidRoot"
  ELSE IF entries = <<>> THEN "Ok"
  ELSE IF Lookup(DenseAfter(r), IndexAfter(r), r.id) # NIL
       THEN "DuplicateEntryId"
  ELSE IF ParentIndex(r) = NIL THEN "MissingParent"
  ELSE IF entries[ParentIndex(r)].kind # "Directory"
       THEN "ParentNotDirectory"
  ELSE "Ok"

\* Mutant: last_child is only set for the first child.
LinkUnder_StaleLast(p, new) ==
  /\ first_child' = Append(IF first_child[p] = NIL
                           THEN [first_child EXCEPT ![p] = new]
                           ELSE first_child, NIL)
  /\ last_child' = Append(IF first_child[p] = NIL
                          THEN [last_child EXCEPT ![p] = new]
                          ELSE last_child, NIL)
  /\ next_sibling' = Append(IF first_child[p] = NIL
                            THEN next_sibling
                            ELSE [next_sibling EXCEPT ![last_child[p]] = new],
                            NIL)

\* Append the new index to the parent's child list.
LinkUnder(p, new) ==
  /\ first_child' = Append(IF first_child[p] = NIL
                           THEN [first_child EXCEPT ![p] = new]
                           ELSE first_child, NIL)
  /\ last_child' = Append([last_child EXCEPT ![p] = new], NIL)
  /\ next_sibling' = Append(IF first_child[p] = NIL
                            THEN next_sibling
                            ELSE [next_sibling EXCEPT ![last_child[p]] = new],
                            NIL)

LinkRoot ==
  /\ first_child' = Append(first_child, NIL)
  /\ last_child' = Append(last_child, NIL)
  /\ next_sibling' = Append(next_sibling, NIL)

\* validate_and_insert_entry on success.
Insert(r) ==
  LET new == Len(entries) + 1
  IN  /\ Len(entries) < MaxEntries
      /\ IF entries = <<>> THEN LinkRoot ELSE LinkUnder(ParentIndex(r), new)
      /\ is_dense' = DenseAfter(r)
      /\ id_to_idx' = IF DenseAfter(r) THEN id_to_idx
                      ELSE [x \in DOMAIN IndexAfter(r) \union {r.id} |->
                              IF x = r.id THEN new ELSE IndexAfter(r)[x]]
      /\ entries' = Append(entries, r)

\* Mutant: entries are still accepted after the terminal record.
Accepting_AfterTerminal(r) ==
  /\ phase = "ingesting"
  /\ Verdict(r) = "Ok"
  /\ Insert(r)
  /\ result' = "Ok"
  /\ UNCHANGED <<pending_streams, gaps, terminal, phase>>

Accepting(r) ==
  /\ phase = "ingesting"
  /\ terminal = None
  /\ Verdict(r) = "Ok"
  /\ Insert(r)
  /\ result' = "Ok"
  /\ UNCHANGED <<pending_streams, gaps, terminal, phase>>

ingest_directory(r) ==
  /\ r.kind = "Directory"
  /\ Accepting(r)
  /\ dir_count' = dir_count + 1
  /\ allocated_bytes' =
       saturating_add(allocated_bytes, unwrap_or_zero(r.allocated_size))
  /\ UNCHANGED <<file_count, special_count, logical_bytes,
                 allocated_bytes_known>>

ingest_file(r) ==
  /\ r.kind = "File"
  /\ Accepting(r)
  /\ file_count' = file_count + 1
  /\ logical_bytes' = saturating_add(logical_bytes, r.logical_size)
  /\ allocated_bytes' =
       saturating_add(allocated_bytes, unwrap_or_zero(r.allocated_size))
  /\ allocated_bytes_known' =
       (allocated_bytes_known /\ r.allocated_size # None)
  /\ UNCHANGED <<dir_count, special_count>>

ingest_special(r) ==
  /\ r.kind = "Special"
  /\ Accepting(r)
  /\ special_count' = special_count + 1
  /\ UNCHANGED <<dir_count, file_count, logical_bytes, allocated_bytes,
                 allocated_bytes_known>>

\* Mutant: a rejected entry leaves the flag switched but the map empty.
reject_entry_HalfSwitch(r) ==
  /\ phase = "ingesting"
  /\ terminal = None
  /\ Verdict(r) # "Ok"
  /\ result' = Verdict(r)
  /\ is_dense' = DenseAfter(r)
  /\ UNCHANGED <<entries, id_to_idx, links, pending_streams, gaps, terminal,
                 totals, phase>>

\* A rejected entry may still have switched the index.
reject_entry(r) ==
  /\ phase = "ingesting"
  /\ terminal = None
  /\ Verdict(r) # "Ok"
  /\ result' = Verdict(r)
  /\ is_dense' = DenseAfter(r)
  /\ id_to_idx' = IndexAfter(r)
  /\ UNCHANGED <<entries, links, pending_streams, gaps, terminal, totals,
                 phase>>

\* A stream is kept with the entry index found for it.  parent_entry_id, the
\* id its record named, stands for the stream itself: the code keeps name and
\* sizes there and forgets the id.
Filed(idx, id) == [entry_idx |-> idx, parent_entry_id |-> id]

\* Mutant: the id is kept in the place of the index.
ingest_stream_ById(id) ==
  /\ phase = "ingesting"
  /\ terminal = None
  /\ Len(pending_streams) < MaxStreams
  /\ storage_get_idx(id) # NIL
  /\ result' = "Ok"
  /\ pending_streams' = Append(pending_streams, Filed(id, id))
  /\ UNCHANGED <<entries, index, links, gaps, terminal, totals, phase>>

ingest_stream(id) ==
  /\ phase = "ingesting"
  /\ terminal = None
  /\ Len(pending_streams) < MaxStreams
  /\ IF storage_get_idx(id) = NIL
     THEN /\ result' = "UnknownStreamParent"
          /\ UNCHANGED pending_streams
     ELSE /\ result' = "Ok"
          /\ pending_streams' =
               Append(pending_streams, Filed(storage_get_idx(id), id))
  /\ UNCHANGED <<entries, index, links, gaps, terminal, totals,
                 phase>>

ingest_gap ==
  /\ phase = "ingesting"
  /\ terminal = None
  /\ gaps < MaxGaps
  /\ gaps' = gaps + 1
  /\ result' = "Ok"
  /\ UNCHANGED <<entries, index, links, pending_streams, terminal, totals,
                 phase>>

TotalsMatch(t) ==
  /\ t.total_directories = dir_count
  /\ t.total_files = file_count
  /\ t.total_logical_bytes = logical_bytes
  /\ t.total_allocated_bytes = allocated_bytes
  /\ t.coverage_gap_count = gaps

ingest_terminal(t) ==
  /\ phase = "ingesting"
  /\ terminal = None
  /\ IF TotalsMatch(t)
     THEN terminal' = t /\ result' = "Ok"
     ELSE UNCHANGED terminal /\ result' = "AggregateMismatch"
  /\ UNCHANGED <<entries, index, links, pending_streams, gaps, totals,
                 phase>>

\* ingest_record's guard: nothing follows a terminal record.
record_after_terminal ==
  /\ phase = "ingesting"
  /\ terminal # None
  /\ result' = "RecordAfterTerminal"
  /\ UNCHANGED <<entries, index, links, pending_streams, gaps, terminal,
                 totals, phase>>

\* finish(): the builder is consumed; with a terminal record and a root
\* (or an unfinished empty scan) it becomes a graph.
FinishResult ==
  IF terminal = None THEN "MissingTerminal"
  ELSE IF entries = <<>> /\ terminal.outcome = "Finished" THEN "InvalidRoot"
  ELSE "Ok"

finish ==
  /\ phase = "ingesting"
  /\ result' = FinishResult
  /\ phase' = IF FinishResult = "Ok" THEN "graph" ELSE "failed"
  /\ UNCHANGED <<entries, index, links, pending_streams, gaps, terminal,
                 totals>>

Next ==
  \/ \E r \in EntryRecords : \/ ingest_directory(r)
                             \/ ingest_file(r)
                             \/ ingest_special(r)
                             \/ reject_entry(r)
  \/ \E id \in Ids : ingest_stream(id)
  \/ ingest_gap
  \/ \E t \in TerminalRecords : ingest_terminal(t)
  \/ record_after_terminal
  \/ finish

Spec == Init /\ [][Next]_vars

---------------------------------------------------------------------------
(* Properties *)

TypeOK ==
  /\ entries \in Seq(EntryRecords)
  /\ is_dense \in BOOLEAN
  /\ \A x \in DOMAIN id_to_idx : id_to_idx[x] \in Nat
  /\ first_child \in Seq(Nat) /\ last_child \in Seq(Nat)
  /\ next_sibling \in Seq(Nat)
  /\ Len(first_child) = Len(entries) /\ Len(last_child) = Len(entries)
  /\ Len(next_sibling) = Len(entries)
  /\ pending_streams \in Seq([entry_idx : Nat, parent_entry_id : Ids])
  /\ gaps \in Nat
  /\ terminal \in TerminalRecords \union {None}
  /\ dir_count \in Nat /\ file_count \in Nat /\ special_count \in Nat
  /\ logical_bytes \in 0..MaxU64 /\ allocated_bytes \in 0..MaxU64
  /\ allocated_bytes_known \in BOOLEAN
  /\ result \in GraphBuildErrors \union {"Ok"}
  /\ phase \in {"ingesting", "graph", "failed"}

Indices == 1..Len(entries)

\* Whatever mix of sequential, gapped, duplicate and rejected ids arrived,
\* the index in use (dense arithmetic or the sparse map built by the switch)
\* finds exactly the one entry that carries an id, and none for an id the
\* table does not hold (storage_get_idx, and every `id - 1` of
\* compute_aggregates and EntryStorage::get).
IndexExact ==
  \A x \in Ids :
    LET i == storage_get_idx(x)
    IN  IF i = NIL
        THEN \A k \in Indices : entries[k].id # x
        ELSE /\ i \in Indices
             /\ \A k \in Indices : entries[k].id = x <=> k = i

\* The accepted entries form one tree rooted at entry 1: every other entry
\* names a parent that is a directory and arrived before it, so no parent
\* walk (reconstruct_path) can cycle and no component is disconnected.
OneTree ==
  \A i \in Indices :
    IF i = 1
    THEN entries[1].id = 1 /\ entries[1].parent_id = 0
         /\ entries[1].kind = "Directory"
    ELSE \E p \in 1..(i - 1) :
           /\ entries[p].id = entries[i].parent_id
           /\ entries[p].kind = "Directory"

\* Indices of the entries whose parent is the entry at p.
Children(p) ==
  {i \in Indices : i # 1 /\ entries[i].parent_id = entries[p].id}

YoungerSiblings(p) ==
  {i \in Indices : /\ i > p /\ p # 1
                   /\ entries[i].parent_id = entries[p].parent_id}

IsLeastOrNil(x, S) ==
  IF S = {} THEN x = NIL ELSE x \in S /\ \A y \in S : x <= y
IsGreatestOrNil(x, S) ==
  IF S = {} THEN x = NIL ELSE x \in S /\ \A y \in S : y <= x

\* The intrusive lists hold the tree exactly: first_child and last_child are
\* the oldest and newest child, and next_sibling is the next child of the
\* same parent in arrival order, so the traversals of compute_aggregates
\* visit every child once and stop (validate_and_insert_entry's linking).
ChildListsExact ==
  \A p \in Indices :
    /\ IsLeastOrNil(first_child[p], Children(p))
    /\ IsGreatestOrNil(last_child[p], Children(p))
    /\ IsLeastOrNil(next_sibling[p], YoungerSiblings(p))

CountOf(k) == Cardinality({i \in Indices : entries[i].kind = k})

\* The sum of a sequence of sizes, as a recursive function.
SumOf(s) ==
  LET sum[k \in 0..Len(s)] == IF k = 0 THEN 0 ELSE sum[k - 1] + s[k]
  IN  sum[Len(s)]

LogicalSizes(recs) == [i \in 1..Len(recs) |-> recs[i].logical_size]
AllocatedSizes(recs) ==
  [i \in 1..Len(recs) |-> unwrap_or_zero(recs[i].allocated_size)]
Capped(n) == IF n > MaxU64 THEN MaxU64 ELSE n

\* A sealed table reports what it holds: the totals a Terminal record was
\* accepted with are those of the entries, sums being capped once at
\* u64::MAX however the saturating additions were ordered, and records
\* rejected before it or offered after it left no trace
\* (ingest_terminal's five comparisons).
SealedTotalsExact ==
  terminal # None =>
    /\ terminal.total_directories = CountOf("Directory")
    /\ terminal.total_files = CountOf("File")
    /\ CountOf("Special") = special_count
    /\ terminal.total_logical_bytes = Capped(SumOf(LogicalSizes(entries)))
    /\ terminal.total_allocated_bytes = Capped(SumOf(AllocatedSizes(entries)))
    /\ terminal.coverage_gap_count = gaps
    /\ allocated_bytes_known <=>
         \A i \in Indices :
           entries[i].kind = "File" => entries[i].allocated_size # None

\* Every secondary stream kept is filed under the one entry its record named,
\* whichever index answered at that time and however the table and its index
\* changed since: a position is not an id once ids leave the sequence
\* (ingest_stream through storage_get_idx).
StreamsAttributed ==
  \A k \in DOMAIN pending_streams :
    LET filed == pending_streams[k]
    IN  /\ filed.entry_idx \in Indices
        /\ \A i \in Indices :
             entries[i].id = filed.parent_entry_id <=> i = filed.entry_idx

\* The tree a client sees: each id of the table with its parent and kind.
VisibleTree ==
  [x \in {entries[i].id : i \in Indices} |->
     LET i == CHOOSE k \in Indices : entries[k].id = x
     IN  [parent_id |-> entries[i].parent_id, kind |-> entries[i].kind]]

Tree == INSTANCE EntryTree WITH
          tree <- VisibleTree,
          verdict <- result,
          sealed <- terminal # None,
          open <- phase = "ingesting"

\* What the builder would answer to any record can be read off that tree:
\* it is accepted exactly if nothing about the tree speaks against it, and
\* otherwise refused for a reason that holds of the tree, never because of
\* the moment of the switch or of a record refused before
\* (validate_and_insert_entry's checks through storage_get_idx).
VerdictFromTree ==
  \A r \in EntryRecords :
    IF Verdict(r) = "Ok"
    THEN \A why \in Tree!Reasons :
           ~Tree!Refusable(r.id, r.parent_id, r.kind, why)
    ELSE Tree!Refusable(r.id, r.parent_id, r.kind, Verdict(r))

\* The builder implements the abstract tree: it grows by one admissible leaf
\* at a time, a refusal changes nothing, and nothing changes once the
\* terminal record is in (ingest_record and finish).
ImplementsEntryTree == Tree!Spec
=============================================================================
