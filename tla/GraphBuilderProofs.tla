------------------------ MODULE GraphBuilderProofs ------------------------
(***************************************************************************)
(* Proofs about GraphBuilder for every choice of ids, sizes and bounds.    *)
(***************************************************************************)
EXTENDS GraphBuilder, SequenceTheorems, FiniteSetTheorems,
        WellFoundedInduction, TLAPS

(***************************************************************************)
(* The inductive invariant.  IndexExact is stated through the lookup; what *)
(* induction needs is how each representation stores the ids.              *)
(***************************************************************************)
UniqueIds == \A i, j \in Indices : entries[i].id = entries[j].id => i = j

Represents(dense, idx) ==
  IF dense
  THEN \A k \in Indices : entries[k].id = k
  ELSE /\ DOMAIN idx = {entries[k].id : k \in Indices}
       /\ \A x \in DOMAIN idx : idx[x] \in Indices /\ entries[idx[x]].id = x

IndexInv == UniqueIds /\ Represents(is_dense, id_to_idx)

---------------------------------------------------------------------------
(* Facts about the operators *)

\* saturating_add never leaves the range of a u64.
LEMMA SaturatingAddType ==
  ASSUME NEW a \in 0..MaxU64, NEW b \in Nat
  PROVE  saturating_add(a, b) \in 0..MaxU64
BY ConstantsAssumption DEF saturating_add

\* The fields the proofs use of a record the stream may carry.
LEMMA EntryRecordFields ==
  ASSUME NEW r \in EntryRecords
  PROVE  /\ r.id \in Ids /\ r.id \in Nat
         /\ r.parent_id \in Ids /\ r.parent_id \in Nat
         /\ r.kind \in Kinds
         /\ r.kind = "File" => r.logical_size \in Sizes
         /\ unwrap_or_zero(r.allocated_size) \in Nat
BY ConstantsAssumption DEF EntryRecords, Kinds, unwrap_or_zero

\* A faithful representation finds exactly the entry that carries an id.
LEMMA LookupFinds ==
  ASSUME TypeOK, UniqueIds,
         NEW dense \in BOOLEAN, NEW idx, Represents(dense, idx),
         NEW x \in Nat
  PROVE  /\ Lookup(dense, idx, x) = NIL
              => \A k \in Indices : entries[k].id # x
         /\ Lookup(dense, idx, x) # NIL
              => /\ Lookup(dense, idx, x) \in Indices
                 /\ entries[Lookup(dense, idx, x)].id = x
         /\ \A k \in Indices : entries[k].id = x => Lookup(dense, idx, x) = k
<1>1. Len(entries) \in Nat
  BY DEF TypeOK
<1>2. CASE dense
  BY <1>1, <1>2 DEF Lookup, Represents, Indices, NIL
<1>3. CASE ~dense
  BY <1>1, <1>3 DEF Lookup, Represents, Indices, NIL, UniqueIds
<1> QED BY <1>2, <1>3

\* The switch builds a faithful sparse index.
LEMMA SwitchRepresents ==
  ASSUME TypeOK, IndexInv, NEW r \in EntryRecords
  PROVE  /\ DenseAfter(r) \in BOOLEAN
         /\ Represents(DenseAfter(r), IndexAfter(r))
<1>1. CASE LeavesSequence(r)
  <2>1. Represents(FALSE, IndexOfEntries)
    BY DEF Represents, IndexOfEntries, Indices
  <2> QED BY <1>1, <2>1 DEF DenseAfter, IndexAfter
<1>2. CASE ~LeavesSequence(r)
  BY <1>2 DEF DenseAfter, IndexAfter, IndexInv, TypeOK
<1> QED BY <1>1, <1>2

\* Overwriting one cell, in or out of range, keeps a vector and its length.
LEMMA OverwriteIsVector ==
  ASSUME NEW s \in Seq(Nat), NEW p, NEW v \in Nat
  PROVE  /\ [s EXCEPT ![p] = v] \in Seq(Nat)
         /\ Len([s EXCEPT ![p] = v]) = Len(s)
<1>1. CASE p \in 1..Len(s)
  BY <1>1, ExceptSeq
<1>2. CASE p \notin 1..Len(s)
  <2> DEFINE t == [s EXCEPT ![p] = v]
  <2>1. DOMAIN s = 1..Len(s)
    BY LenProperties
  <2>2. s = [i \in DOMAIN s |-> s[i]]
    BY LenProperties
  <2>3. t = [i \in DOMAIN s |-> IF i = p THEN v ELSE s[i]]
    BY Zenon
  <2>4. t = [i \in DOMAIN s |-> s[i]]
    BY <1>2, <2>1, <2>3
  <2> QED BY <2>2, <2>4
<1> QED BY <1>1, <1>2

\* Pushing NIL onto such a vector makes it one longer ...
LEMMA PushAfterWrite ==
  ASSUME NEW s \in Seq(Nat), NEW p, NEW v \in Nat
  PROVE  /\ Append([s EXCEPT ![p] = v], NIL) \in Seq(Nat)
         /\ Len(Append([s EXCEPT ![p] = v], NIL)) = Len(s) + 1
         /\ Append(s, NIL) \in Seq(Nat)
         /\ Len(Append(s, NIL)) = Len(s) + 1
<1>1. NIL \in Nat
  BY DEF NIL
<1>2. /\ [s EXCEPT ![p] = v] \in Seq(Nat)
      /\ Len([s EXCEPT ![p] = v]) = Len(s)
  BY OverwriteIsVector
<1> QED BY <1>1, <1>2, AppendProperties

\* ... and leaves the other cells alone.
LEMMA PushCell ==
  ASSUME NEW s \in Seq(Nat), NEW p, NEW v \in Nat
  PROVE  /\ Append([s EXCEPT ![p] = v], NIL)[Len(s) + 1] = NIL
         /\ Append(s, NIL)[Len(s) + 1] = NIL
         /\ \A j \in 1..Len(s) :
              /\ Append(s, NIL)[j] = s[j]
              /\ Append([s EXCEPT ![p] = v], NIL)[j] =
                   IF j = p THEN v ELSE s[j]
<1>1. NIL \in Nat
  BY DEF NIL
<1>2. /\ [s EXCEPT ![p] = v] \in Seq(Nat)
      /\ Len([s EXCEPT ![p] = v]) = Len(s)
  BY OverwriteIsVector
<1>3. \A j \in 1..Len(s) : [s EXCEPT ![p] = v][j] = IF j = p THEN v ELSE s[j]
  BY LenProperties
<1> QED BY <1>1, <1>2, <1>3, AppendProperties

---------------------------------------------------------------------------
(* Type correctness *)

\* An accepted entry keeps the table, the index and the three link vectors
\* well typed and of one length (validate_and_insert_entry's pushes).
LEMMA InsertType ==
  ASSUME TypeOK, NEW r \in EntryRecords, Accepting(r)
  PROVE  /\ entries' \in Seq(EntryRecords)
         /\ is_dense' \in BOOLEAN
         /\ \A x \in DOMAIN id_to_idx' : id_to_idx'[x] \in Nat
         /\ first_child' \in Seq(Nat) /\ last_child' \in Seq(Nat)
         /\ next_sibling' \in Seq(Nat)
         /\ Len(first_child') = Len(entries')
         /\ Len(last_child') = Len(entries')
         /\ Len(next_sibling') = Len(entries')
<1> DEFINE new == Len(entries) + 1
<1>0. /\ Len(entries) \in Nat /\ new \in Nat /\ NIL \in Nat
      /\ Insert(r)
  BY DEF TypeOK, NIL, Accepting
<1>1. entries' \in Seq(EntryRecords) /\ Len(entries') = new
  BY <1>0 DEF Insert, TypeOK
<1>2. is_dense' \in BOOLEAN
  BY <1>0 DEF Insert, DenseAfter, TypeOK
<1>3. \A x \in DOMAIN id_to_idx' : id_to_idx'[x] \in Nat
  <2>1. \A x \in DOMAIN IndexAfter(r) : IndexAfter(r)[x] \in Nat
    <3>1. \A x \in DOMAIN IndexOfEntries : IndexOfEntries[x] \in Nat
      BY <1>0 DEF IndexOfEntries
    <3> QED BY <3>1 DEF IndexAfter, TypeOK
  <2> QED BY <1>0, <2>1 DEF Insert, TypeOK
<1>4. CASE entries = <<>>
  <2>1. LinkRoot
    BY <1>0, <1>4 DEF Insert
  <2>2. /\ first_child' \in Seq(Nat) /\ Len(first_child') = new
        /\ last_child' \in Seq(Nat) /\ Len(last_child') = new
        /\ next_sibling' \in Seq(Nat) /\ Len(next_sibling') = new
    BY <1>0, <2>1, PushAfterWrite DEF LinkRoot, TypeOK
  <2> QED BY <1>1, <1>2, <1>3, <2>2
<1>5. CASE entries # <<>>
  <2>1. LinkUnder(ParentIndex(r), new)
    BY <1>0, <1>5 DEF Insert
  <2>2. /\ first_child' \in Seq(Nat) /\ Len(first_child') = new
        /\ last_child' \in Seq(Nat) /\ Len(last_child') = new
        /\ next_sibling' \in Seq(Nat) /\ Len(next_sibling') = new
    <3> DEFINE p == ParentIndex(r)
    <3>1. /\ first_child \in Seq(Nat) /\ Len(first_child) = Len(entries)
          /\ last_child \in Seq(Nat) /\ Len(last_child) = Len(entries)
          /\ next_sibling \in Seq(Nat) /\ Len(next_sibling) = Len(entries)
      BY DEF TypeOK
    <3>2. first_child' \in Seq(Nat) /\ Len(first_child') = new
      <4>1. CASE first_child[p] = NIL
        <5>1. first_child' = Append([first_child EXCEPT ![p] = new], NIL)
          BY <2>1, <4>1 DEF LinkUnder
        <5> QED BY <1>0, <3>1, <5>1, PushAfterWrite, SMTT(60)
      <4>2. CASE first_child[p] # NIL
        BY <1>0, <2>1, <3>1, <4>2, PushAfterWrite DEF LinkUnder
      <4> QED BY <4>1, <4>2
    <3>3. last_child' \in Seq(Nat) /\ Len(last_child') = new
      BY <1>0, <2>1, <3>1, PushAfterWrite DEF LinkUnder
    <3>4. next_sibling' \in Seq(Nat) /\ Len(next_sibling') = new
      <4>1. CASE first_child[p] = NIL
        BY <1>0, <2>1, <3>1, <4>1, PushAfterWrite DEF LinkUnder
      <4>2. CASE first_child[p] # NIL
        BY <1>0, <2>1, <3>1, <4>2, PushAfterWrite, ZenonT(60) DEF LinkUnder
      <4> QED BY <4>1, <4>2
    <3> QED BY <3>2, <3>3, <3>4
  <2> QED BY <1>1, <1>2, <1>3, <2>2
<1> QED BY <1>1, <1>2, <1>3, <1>4, <1>5

\* Every variable keeps its type: counters never leave u64, the four vectors
\* indexed by entry keep the same length, and the result of every call is
\* one of GraphBuildError's cases or Ok.
THEOREM TypeCorrect == Spec => []TypeOK
<1>1. Init => TypeOK
  BY ConstantsAssumption DEF Init, TypeOK
<1>2. TypeOK /\ [Next]_vars => TypeOK'
  <2> SUFFICES ASSUME TypeOK, [Next]_vars PROVE TypeOK'
    OBVIOUS
  <2>1. ASSUME NEW r \in EntryRecords, ingest_directory(r) PROVE TypeOK'
    <3>1. Accepting(r)
      BY <2>1 DEF ingest_directory
    <3>2. dir_count' \in Nat /\ allocated_bytes' \in 0..MaxU64
      BY <2>1, EntryRecordFields, SaturatingAddType, SMTT(60)
      DEF ingest_directory, TypeOK
    <3> QED BY <2>1, <3>1, <3>2, InsertType
            DEF ingest_directory, Accepting, TypeOK
  <2>2. ASSUME NEW r \in EntryRecords, ingest_file(r) PROVE TypeOK'
    <3>1. Accepting(r)
      BY <2>2 DEF ingest_file
    <3>2. /\ file_count' \in Nat
          /\ logical_bytes' \in 0..MaxU64 /\ allocated_bytes' \in 0..MaxU64
      <4>1. r.logical_size \in Nat
        BY <2>2, EntryRecordFields, ConstantsAssumption DEF ingest_file
      <4>2. unwrap_or_zero(r.allocated_size) \in Nat
        BY EntryRecordFields
      <4>3. logical_bytes' \in 0..MaxU64
        BY <2>2, <4>1, SaturatingAddType DEF ingest_file, TypeOK
      <4>4. allocated_bytes' \in 0..MaxU64
        BY <2>2, <4>2, SaturatingAddType DEF ingest_file, TypeOK
      <4> QED BY <2>2, <4>3, <4>4 DEF ingest_file, TypeOK
    <3>3. allocated_bytes_known' \in BOOLEAN
      BY <2>2 DEF ingest_file
    <3> QED BY <2>2, <3>1, <3>2, <3>3, InsertType
            DEF ingest_file, Accepting, TypeOK
  <2>3. ASSUME NEW r \in EntryRecords, ingest_special(r) PROVE TypeOK'
    <3>1. Accepting(r)
      BY <2>3 DEF ingest_special
    <3> QED BY <2>3, <3>1, InsertType DEF ingest_special, Accepting, TypeOK
  <2>4. ASSUME NEW r \in EntryRecords, reject_entry(r) PROVE TypeOK'
    <3>1. Verdict(r) \in GraphBuildErrors
      BY <2>4 DEF reject_entry, Verdict, GraphBuildErrors
    <3>2. is_dense' \in BOOLEAN
      BY <2>4 DEF reject_entry, DenseAfter, TypeOK
    <3>3. \A x \in DOMAIN id_to_idx' : id_to_idx'[x] \in Nat
      <4>1. \A x \in DOMAIN IndexOfEntries : IndexOfEntries[x] \in Nat
        <5>1. Len(entries) \in Nat
          BY DEF TypeOK
        <5> QED BY <5>1 DEF IndexOfEntries
      <4> QED BY <2>4, <4>1 DEF reject_entry, IndexAfter, TypeOK
    <3> QED BY <2>4, <3>1, <3>2, <3>3
            DEF reject_entry, TypeOK, links, totals
  <2>5. ASSUME NEW id \in Ids, ingest_stream(id) PROVE TypeOK'
    <3>1. storage_get_idx(id) \in Nat
      BY ConstantsAssumption DEF storage_get_idx, Lookup, NIL, TypeOK
    <3>2. pending_streams' \in Seq([entry_idx : Nat, parent_entry_id : Ids])
      <4>1. CASE storage_get_idx(id) = NIL
        BY <2>5, <4>1 DEF ingest_stream, TypeOK
      <4>2. CASE storage_get_idx(id) # NIL
        <5>1. PICK filed : filed = Filed(storage_get_idx(id), id)
          OBVIOUS
        <5>2. filed \in [entry_idx : Nat, parent_entry_id : Ids]
          <6> HIDE DEF storage_get_idx
          <6> QED BY <3>1, <5>1 DEF Filed
        <5>3. pending_streams' = Append(pending_streams, filed)
          BY <2>5, <4>2, <5>1 DEF ingest_stream
        <5>4. pending_streams \in Seq([entry_idx : Nat, parent_entry_id : Ids])
          BY DEF TypeOK
        <5> QED BY <5>2, <5>3, <5>4, AppendProperties
      <4> QED BY <4>1, <4>2
    <3>3. result' \in GraphBuildErrors \union {"Ok"}
      BY <2>5 DEF ingest_stream, GraphBuildErrors
    <3> QED BY <2>5, <3>2, <3>3
            DEF ingest_stream, TypeOK, index, links, totals
  <2>6. CASE ingest_gap
    BY <2>6 DEF ingest_gap, TypeOK, index, links, totals
  <2>7. ASSUME NEW t \in TerminalRecords, ingest_terminal(t) PROVE TypeOK'
    BY <2>7 DEF ingest_terminal, TypeOK, index, links, totals,
                GraphBuildErrors
  <2>8. CASE record_after_terminal
    BY <2>8 DEF record_after_terminal, TypeOK, index, links, totals,
                GraphBuildErrors
  <2>9. CASE finish
    BY <2>9 DEF finish, FinishResult, TypeOK, index, links, totals,
                GraphBuildErrors
  <2>10. CASE UNCHANGED vars
    BY <2>10 DEF vars, TypeOK, index, links, totals
  <2> QED BY <2>1, <2>2, <2>3, <2>4, <2>5, <2>6, <2>7, <2>8, <2>9, <2>10
          DEF Next
<1> QED BY <1>1, <1>2, PTL DEF Spec

---------------------------------------------------------------------------
(* The shape of the table *)

\* What acceptance establishes: the record is appended under a fresh id,
\* and, unless it is the root, below a directory already in the table.
LEMMA AcceptedEntry ==
  ASSUME TypeOK, IndexInv, NEW r \in EntryRecords, Accepting(r)
  PROVE  /\ Len(entries) \in Nat
         /\ Indices' = 1..(Len(entries) + 1)
         /\ \A i \in Indices : entries'[i] = entries[i]
         /\ entries'[Len(entries) + 1] = r
         /\ \A k \in Indices : entries[k].id # r.id
         /\ r.id # r.parent_id
         /\ entries = <<>> =>
              r.id = 1 /\ r.parent_id = 0 /\ r.kind = "Directory"
         /\ entries # <<>> =>
              /\ ParentIndex(r) \in Indices
              /\ entries[ParentIndex(r)].id = r.parent_id
              /\ entries[ParentIndex(r)].kind = "Directory"
<1>1. entries \in Seq(EntryRecords) /\ Len(entries) \in Nat
  BY DEF TypeOK
<1>2. entries' = Append(entries, r) /\ Verdict(r) = "Ok"
  BY DEF Accepting, Insert
<1>3. /\ Indices' = 1..(Len(entries) + 1)
      /\ \A i \in Indices : entries'[i] = entries[i]
      /\ entries'[Len(entries) + 1] = r
  BY <1>1, <1>2, AppendProperties DEF Indices
<1>4. r.id # r.parent_id /\ ~RootError(r)
  BY <1>2 DEF Verdict
<1>5. CASE entries = <<>>
  BY <1>1, <1>3, <1>4, <1>5 DEF RootError, Indices
<1>6. CASE entries # <<>>
  <2>1. /\ Lookup(DenseAfter(r), IndexAfter(r), r.id) = NIL
        /\ ParentIndex(r) # NIL
        /\ entries[ParentIndex(r)].kind = "Directory"
    BY <1>2, <1>4, <1>6 DEF Verdict
  <2>2. r.id \in Nat /\ r.parent_id \in Nat
    BY EntryRecordFields
  <2>3. UniqueIds
    BY DEF IndexInv
  <2>4. \A k \in Indices : entries[k].id # r.id
    BY <2>1, <2>2, <2>3, SwitchRepresents, LookupFinds
  <2>5. ParentIndex(r) \in Indices /\ entries[ParentIndex(r)].id = r.parent_id
    BY <2>1, <2>2, <2>3, SwitchRepresents, LookupFinds DEF ParentIndex
  <2> QED BY <1>1, <1>3, <1>4, <1>6, <2>1, <2>4, <2>5
<1> QED BY <1>5, <1>6

\* Insertion keeps the index faithful in either representation.
LEMMA InsertKeepsIndex ==
  ASSUME TypeOK, IndexInv, NEW r \in EntryRecords, Accepting(r)
  PROVE  IndexInv'
<1> DEFINE new == Len(entries) + 1
<1>1. /\ Len(entries) \in Nat
      /\ Indices' = 1..new /\ Indices = 1..Len(entries)
      /\ \A i \in Indices : entries'[i] = entries[i]
      /\ entries'[new] = r
      /\ \A k \in Indices : entries[k].id # r.id
  BY AcceptedEntry DEF Indices
<1>2. UniqueIds'
  BY <1>1 DEF UniqueIds, IndexInv
<1>3. CASE DenseAfter(r)
  <2>1. is_dense' /\ is_dense
    BY <1>3 DEF Accepting, Insert, DenseAfter
  <2>2. r.id = new
    <3>1. CASE entries = <<>>
      BY <3>1, AcceptedEntry
    <3>2. CASE entries # <<>>
      <4>1. r.id # r.parent_id /\ ~RootError(r)
        BY DEF Accepting, Verdict
      <4> QED BY <1>3, <2>1, <3>2, <4>1 DEF DenseAfter, LeavesSequence
    <3> QED BY <3>1, <3>2
  <2>3. \A k \in Indices : entries[k].id = k
    BY <2>1 DEF IndexInv, Represents
  <2>4. \A k \in Indices' : entries'[k].id = k
    BY <1>1, <2>2, <2>3
  <2> QED BY <1>2, <2>1, <2>4 DEF IndexInv, Represents
<1>4. CASE ~DenseAfter(r)
  <2> DEFINE old == IndexAfter(r)
  <2>1. ~is_dense'
    BY <1>4 DEF Accepting, Insert
  <2>2. /\ DOMAIN old = {entries[k].id : k \in Indices}
        /\ \A x \in DOMAIN old : old[x] \in Indices /\ entries[old[x]].id = x
    BY <1>4, SwitchRepresents DEF Represents
  <2>3. id_to_idx' = [x \in DOMAIN old \union {r.id} |->
                        IF x = r.id THEN new ELSE old[x]]
    BY <1>4 DEF Accepting, Insert
  <2> HIDE DEF old
  <2>4. DOMAIN id_to_idx' = {entries'[k].id : k \in Indices'}
    <3>1. DOMAIN id_to_idx' = DOMAIN old \union {r.id}
      BY <2>3
    <3>2. {entries'[k].id : k \in Indices'}
            = {entries[k].id : k \in Indices} \union {r.id}
      BY <1>1
    <3> QED BY <2>2, <3>1, <3>2
  <2>5. ASSUME NEW x \in DOMAIN id_to_idx'
        PROVE  id_to_idx'[x] \in Indices' /\ entries'[id_to_idx'[x]].id = x
    <3>1. CASE x = r.id
      BY <1>1, <2>3, <3>1
    <3>2. CASE x # r.id
      <4>1. x \in DOMAIN old /\ id_to_idx'[x] = old[x]
        BY <2>3, <3>2
      <4> QED BY <1>1, <2>2, <4>1
    <3> QED BY <3>1, <3>2
  <2> QED BY <1>2, <2>1, <2>4, <2>5 DEF IndexInv, Represents
<1> QED BY <1>3, <1>4

\* Insertion adds a leaf below an older directory.
LEMMA InsertKeepsTree ==
  ASSUME TypeOK, IndexInv, OneTree, NEW r \in EntryRecords, Accepting(r)
  PROVE  OneTree'
<1> DEFINE new == Len(entries) + 1
<1>1. /\ Len(entries) \in Nat
      /\ Indices' = 1..new /\ Indices = 1..Len(entries)
      /\ \A i \in Indices : entries'[i] = entries[i]
      /\ entries'[new] = r
  BY AcceptedEntry DEF Indices
<1>2. CASE entries = <<>>
  <2>1. new = 1 /\ r.id = 1 /\ r.parent_id = 0 /\ r.kind = "Directory"
    BY <1>2, AcceptedEntry
  <2> QED BY <1>1, <2>1 DEF OneTree
<1>3. CASE entries # <<>>
  <2>1. new # 1 /\ Len(entries) >= 1
    <3>1. Len(entries) # 0
      BY <1>3, EmptySeq DEF TypeOK
    <3> QED BY <1>1, <3>1
  <2>2. /\ ParentIndex(r) \in 1..(new - 1)
        /\ entries'[ParentIndex(r)].id = r.parent_id
        /\ entries'[ParentIndex(r)].kind = "Directory"
    BY <1>1, <1>3, AcceptedEntry
  <2>3. ASSUME NEW i \in Indices', i # 1, i # new
        PROVE  \E p \in 1..(i - 1) : /\ entries'[p].id = entries'[i].parent_id
                                     /\ entries'[p].kind = "Directory"
    <3>1. i \in Indices
      BY <1>1, <2>3
    <3>2. PICK p \in 1..(i - 1) : /\ entries[p].id = entries[i].parent_id
                                  /\ entries[p].kind = "Directory"
      BY <2>3, <3>1 DEF OneTree
    <3>3. p \in Indices
      BY <1>1, <3>1, <3>2
    <3> QED BY <1>1, <3>1, <3>2, <3>3
  <2>4. /\ entries'[1].id = 1 /\ entries'[1].parent_id = 0
        /\ entries'[1].kind = "Directory"
    BY <1>1, <2>1 DEF OneTree
  <2> QED BY <1>1, <2>1, <2>2, <2>3, <2>4 DEF OneTree
<1> QED BY <1>2, <1>3

\* Linking the new entry keeps the three vectors an exact picture of the
\* tree.  Only the parent q's two ends and its previously last child's
\* next_sibling move.
LEMMA InsertKeepsLists ==
  ASSUME TypeOK, IndexInv, OneTree, ChildListsExact,
         NEW r \in EntryRecords, Accepting(r)
  PROVE  ChildListsExact'
<1> DEFINE q == ParentIndex(r)
<1>0. PICK new : new = Len(entries) + 1
  OBVIOUS
<1>1. /\ Len(entries) \in Nat /\ new \in Nat /\ new = Len(entries) + 1
      /\ Indices' = 1..new /\ Indices = 1..Len(entries)
      /\ \A i \in Indices : entries'[i] = entries[i]
      /\ entries'[new] = r
      /\ \A k \in Indices : entries[k].id # r.id
      /\ r.id # r.parent_id
  BY <1>0, AcceptedEntry DEF Indices
<1>2. /\ first_child \in Seq(Nat) /\ Len(first_child) = Len(entries)
      /\ last_child \in Seq(Nat) /\ Len(last_child) = Len(entries)
      /\ next_sibling \in Seq(Nat) /\ Len(next_sibling) = Len(entries)
      /\ NIL \in Nat /\ NIL = 0
  BY DEF TypeOK, NIL
<1>3. Children(new)' = {}
  <2>1. ASSUME NEW i \in Indices, i # 1 PROVE entries[i].parent_id # r.id
    <3>1. PICK p \in 1..(i - 1) : entries[p].id = entries[i].parent_id
      BY <2>1 DEF OneTree
    <3> QED BY <1>1, <3>1
  <2> QED BY <1>1, <2>1 DEF Children
<1>4. YoungerSiblings(new)' = {}
  BY <1>1 DEF YoungerSiblings
<1>5. CASE entries = <<>>
  <2>1. LinkRoot /\ new = 1
    BY <1>1, <1>5 DEF Accepting, Insert
  <2>2. first_child'[1] = NIL /\ last_child'[1] = NIL /\ next_sibling'[1] = NIL
    BY <1>2, <1>5, <2>1, AppendProperties DEF LinkRoot
  <2> QED BY <1>1, <1>3, <1>4, <2>1, <2>2
          DEF ChildListsExact, IsLeastOrNil, IsGreatestOrNil
<1>6. CASE entries # <<>>
  <2>1. /\ q \in Indices /\ entries[q].id = r.parent_id
        /\ new # 1 /\ new \notin Indices
    <3>1. Len(entries) # 0
      BY <1>6, EmptySeq DEF TypeOK
    <3> QED BY <1>1, <1>6, <3>1, AcceptedEntry
  <2>2. LinkUnder(q, new)
    BY <1>1, <1>6 DEF Accepting, Insert
  <2>3. \A p \in Indices :
          entries[p].id = r.parent_id <=> p = q
    BY <2>1 DEF IndexInv, UniqueIds
  <2> HIDE DEF q
  <2>4. ASSUME NEW p \in Indices
        PROVE  Children(p)' = IF p = q THEN Children(p) \union {new}
                              ELSE Children(p)
    BY <1>1, <2>1, <2>3 DEF Children
  <2>5. ASSUME NEW p \in Indices
        PROVE  YoungerSiblings(p)' = IF p \in Children(q)
                                     THEN YoungerSiblings(p) \union {new}
                                     ELSE YoungerSiblings(p)
    BY <1>1, <2>1 DEF YoungerSiblings, Children
  <2>6. /\ IsLeastOrNil(first_child[q], Children(q))
        /\ IsGreatestOrNil(last_child[q], Children(q))
        /\ \A i \in Children(q) : i \in Indices /\ i > 1
    <3>1. \A i \in Children(q) : i \in Indices /\ i > 1
      BY <1>1 DEF Children
    <3> QED BY <2>1, <3>1 DEF ChildListsExact
  <2>7. first_child[q] = NIL <=> Children(q) = {}
    BY <1>1, <1>2, <2>6, SMTT(60) DEF IsLeastOrNil
  <2>8. /\ first_child'[new] = NIL /\ last_child'[new] = NIL
        /\ next_sibling'[new] = NIL
    BY <1>1, <1>2, <2>2, PushCell DEF LinkUnder
  <2>9. ASSUME NEW p \in Indices
        PROVE  /\ first_child'[p] = IF p = q /\ Children(q) = {} THEN new
                                    ELSE first_child[p]
               /\ last_child'[p] = IF p = q THEN new ELSE last_child[p]
               /\ next_sibling'[p] =
                    IF Children(q) # {} /\ p = last_child[q] THEN new
                    ELSE next_sibling[p]
    BY <1>1, <1>2, <2>2, <2>7, PushCell, SMTT(60) DEF LinkUnder
  <2>10. ASSUME NEW p \in Indices
         PROVE  /\ IsLeastOrNil(first_child[p], Children(p))'
                /\ IsGreatestOrNil(last_child[p], Children(p))'
    <3>1. /\ IsLeastOrNil(first_child[p], Children(p))
          /\ IsGreatestOrNil(last_child[p], Children(p))
          /\ \A i \in Children(p) : i \in 1..Len(entries)
      BY <1>1 DEF ChildListsExact, Children
    <3>2. CASE p = q
      BY <1>1, <2>4, <2>9, <3>1, <3>2, SMTT(60) DEF IsLeastOrNil, IsGreatestOrNil
    <3>3. CASE p # q
      BY <2>4, <2>9, <3>1, <3>3 DEF IsLeastOrNil, IsGreatestOrNil
    <3> QED BY <3>2, <3>3
  <2>11. ASSUME NEW p \in Indices
         PROVE  IsLeastOrNil(next_sibling[p], YoungerSiblings(p))'
    <3>1. /\ IsLeastOrNil(next_sibling[p], YoungerSiblings(p))
          /\ \A i \in YoungerSiblings(p) : i \in 1..Len(entries)
      BY <1>1 DEF ChildListsExact, YoungerSiblings
    <3>2. CASE p \in Children(q) /\ p = last_child[q]
      <4>1. YoungerSiblings(p) = {}
        BY <1>1, <2>6, <3>2
        DEF YoungerSiblings, Children, IsGreatestOrNil
      <4>2. YoungerSiblings(p)' = {new} /\ next_sibling'[p] = new
        BY <2>5, <2>9, <3>2, <4>1
      <4> QED BY <1>1, <4>2 DEF IsLeastOrNil
    <3>3. CASE p \in Children(q) /\ p # last_child[q]
      <4>1. last_child[q] \in YoungerSiblings(p)
        BY <1>1, <2>6, <3>3
        DEF YoungerSiblings, Children, IsGreatestOrNil
      <4> QED BY <1>1, <2>5, <2>9, <3>1, <3>3, <4>1 DEF IsLeastOrNil
    <3>4. CASE p \notin Children(q)
      <4>1. next_sibling'[p] = next_sibling[p]
        BY <2>6, <2>9, <3>4 DEF IsGreatestOrNil
      <4> QED BY <2>5, <3>1, <3>4, <4>1 DEF IsLeastOrNil
    <3> QED BY <3>2, <3>3, <3>4
  <2>12. /\ IsLeastOrNil(first_child[new], Children(new))'
         /\ IsGreatestOrNil(last_child[new], Children(new))'
         /\ IsLeastOrNil(next_sibling[new], YoungerSiblings(new))'
    BY <1>3, <1>4, <2>8 DEF IsLeastOrNil, IsGreatestOrNil
  <2> QED BY <1>1, <2>10, <2>11, <2>12 DEF ChildListsExact
<1> QED BY <1>5, <1>6

---------------------------------------------------------------------------
(* The theorems *)

\* A stream is filed under an entry that carries the id its record named.
FiledRight(s) ==
  s.entry_idx \in Indices /\ entries[s.entry_idx].id = s.parent_entry_id

StreamInv == \A k \in DOMAIN pending_streams : FiledRight(pending_streams[k])

StructureInv == IndexInv /\ OneTree /\ ChildListsExact /\ StreamInv

\* Streams stay with their entries as the table grows.
LEMMA InsertKeepsStreams ==
  ASSUME TypeOK, IndexInv, StreamInv, NEW r \in EntryRecords, Accepting(r)
  PROVE  StreamInv'
<1>1. pending_streams' = pending_streams
  BY DEF Accepting
<1>2. Indices \subseteq Indices' /\ \A i \in Indices : entries'[i] = entries[i]
  BY AcceptedEntry DEF Indices
<1> QED BY <1>1, <1>2 DEF StreamInv, FiledRight

\* A step that leaves the entries and the lists alone keeps the structure
\* if it keeps the index and the streams.
LEMMA UntouchedTable ==
  ASSUME StructureInv, UNCHANGED <<entries, links>>,
         Represents(is_dense, id_to_idx)', StreamInv'
  PROVE  StructureInv'
<1>1. /\ entries' = entries
      /\ first_child' = first_child /\ last_child' = last_child
      /\ next_sibling' = next_sibling
  BY DEF links
<1>2. UniqueIds' /\ OneTree'
  BY <1>1 DEF StructureInv, IndexInv, UniqueIds, OneTree, Indices
<1>3. ChildListsExact'
  BY <1>1 DEF StructureInv, ChildListsExact, Children, YoungerSiblings,
              IsLeastOrNil, IsGreatestOrNil, Indices
<1> QED BY <1>2, <1>3 DEF StructureInv, IndexInv

\* The inductive invariant holds of every behaviour: no record, accepted or
\* rejected, breaks the index, the tree, its lists or the streams' owners.
THEOREM StructureCorrect == Spec => []StructureInv
<1>1. Init => StructureInv
  <2> SUFFICES ASSUME Init PROVE StructureInv
    OBVIOUS
  <2>1. entries = <<>> /\ Indices = {} /\ is_dense /\ pending_streams = <<>>
    BY DEF Init, Indices
  <2> QED BY <2>1 DEF StructureInv, IndexInv, UniqueIds, Represents, OneTree,
                      ChildListsExact, StreamInv
<1>2. TypeOK /\ StructureInv /\ [Next]_vars => StructureInv'
  <2> SUFFICES ASSUME TypeOK, StructureInv, [Next]_vars PROVE StructureInv'
    OBVIOUS
  <2>0. IndexInv /\ OneTree /\ ChildListsExact /\ StreamInv
    BY DEF StructureInv
  <2>1. ASSUME NEW r \in EntryRecords, Accepting(r) PROVE StructureInv'
    BY <2>0, <2>1, InsertKeepsIndex, InsertKeepsTree, InsertKeepsLists,
       InsertKeepsStreams DEF StructureInv
  <2>2. ASSUME NEW r \in EntryRecords, reject_entry(r) PROVE StructureInv'
    <3>1. /\ is_dense' = DenseAfter(r) /\ id_to_idx' = IndexAfter(r)
          /\ UNCHANGED <<entries, links>> /\ UNCHANGED pending_streams
          /\ entries' = entries
      BY <2>2 DEF reject_entry
    <3>2. Represents(is_dense, id_to_idx)'
      <4>1. /\ DenseAfter(r) \in BOOLEAN
            /\ Represents(DenseAfter(r), IndexAfter(r))
        BY <2>0, SwitchRepresents
      <4>2. CASE DenseAfter(r)
        BY <3>1, <4>1, <4>2 DEF Represents, Indices
      <4>3. CASE ~DenseAfter(r)
        <5>1. /\ ~is_dense'
              /\ DOMAIN IndexAfter(r) = {entries[k].id : k \in Indices}
              /\ \A x \in DOMAIN IndexAfter(r) :
                   /\ IndexAfter(r)[x] \in Indices
                   /\ entries[IndexAfter(r)[x]].id = x
          BY <3>1, <4>1, <4>3 DEF Represents
        <5> QED BY <3>1, <5>1 DEF Represents, Indices
      <4> QED BY <4>1, <4>2, <4>3
    <3>3. StreamInv'
      BY <2>0, <3>1 DEF StreamInv, FiledRight, Indices
    <3> QED BY <3>1, <3>2, <3>3, UntouchedTable
  <2>3. ASSUME NEW id \in Ids, ingest_stream(id) PROVE StructureInv'
    <3>1. /\ UNCHANGED <<entries, links>> /\ UNCHANGED index
          /\ entries' = entries
      BY <2>3 DEF ingest_stream
    <3>2. Represents(is_dense, id_to_idx)'
      BY <2>0, <3>1 DEF Represents, Indices, index, IndexInv
    <3>3. StreamInv'
      <4>1. CASE storage_get_idx(id) = NIL
        BY <2>0, <2>3, <3>1, <4>1
        DEF ingest_stream, StreamInv, FiledRight, Indices
      <4>2. CASE storage_get_idx(id) # NIL
        <5>1. /\ storage_get_idx(id) \in Indices
              /\ entries[storage_get_idx(id)].id = id
          BY <2>0, <4>2, LookupFinds, ConstantsAssumption
          DEF storage_get_idx, IndexInv, TypeOK
        <5>2. PICK x : x = Filed(storage_get_idx(id), id)
          OBVIOUS
        <5>3. FiledRight(x) /\ x \in [entry_idx : Nat, parent_entry_id : Ids]
          <6> HIDE DEF storage_get_idx
          <6> QED BY <5>1, <5>2, SMTT(60) DEF Filed, FiledRight, Indices
        <5>4. /\ pending_streams' = Append(pending_streams, x)
              /\ pending_streams \in Seq([entry_idx : Nat, parent_entry_id : Ids])
          BY <2>3, <4>2, <5>2 DEF ingest_stream, TypeOK
        <5>5. \A k \in DOMAIN pending_streams' : FiledRight(pending_streams'[k])
          <6> HIDE DEF FiledRight
          <6> QED BY <2>0, <5>3, <5>4, AppendProperties, LenProperties
                  DEF StreamInv
        <5> QED BY <3>1, <5>5 DEF StreamInv, FiledRight, Indices
      <4> QED BY <4>1, <4>2
    <3> QED BY <3>1, <3>2, <3>3, UntouchedTable
  <2>4. ASSUME UNCHANGED <<entries, links>>, UNCHANGED index,
               UNCHANGED pending_streams
        PROVE  StructureInv'
    <3>1. Represents(is_dense, id_to_idx)'
      BY <2>0, <2>4 DEF Represents, Indices, index, IndexInv
    <3>2. StreamInv'
      BY <2>0, <2>4 DEF StreamInv, FiledRight, Indices
    <3> QED BY <2>4, <3>1, <3>2, UntouchedTable
  <2>5. CASE ingest_gap
    BY <2>4, <2>5 DEF ingest_gap
  <2>6. ASSUME NEW t \in TerminalRecords, ingest_terminal(t)
        PROVE StructureInv'
    BY <2>4, <2>6 DEF ingest_terminal
  <2>7. CASE record_after_terminal
    BY <2>4, <2>7 DEF record_after_terminal
  <2>8. CASE finish
    BY <2>4, <2>8 DEF finish
  <2>9. CASE UNCHANGED vars
    BY <2>4, <2>9 DEF vars
  <2> QED BY <2>1, <2>2, <2>3, <2>5, <2>6, <2>7, <2>8, <2>9
          DEF Next, ingest_directory, ingest_file, ingest_special
<1> QED BY <1>1, <1>2, TypeCorrect, PTL DEF Spec

\* Whatever ids arrive, in whatever order and however many are rejected,
\* the lookup used by the builder and the graph is exact.
THEOREM IndexIsExact == Spec => []IndexExact
<1>1. TypeOK /\ StructureInv => IndexExact
  <2> SUFFICES ASSUME TypeOK, StructureInv, NEW x \in Ids
               PROVE LET i == storage_get_idx(x)
                     IN  IF i = NIL
                         THEN \A k \in Indices : entries[k].id # x
                         ELSE /\ i \in Indices
                              /\ \A k \in Indices : entries[k].id = x <=> k = i
    BY DEF IndexExact
  <2>1. /\ x \in Nat /\ is_dense \in BOOLEAN
        /\ UniqueIds /\ Represents(is_dense, id_to_idx)
    BY ConstantsAssumption DEF StructureInv, IndexInv, TypeOK
  <2> QED BY <2>1, LookupFinds DEF storage_get_idx
<1> QED BY <1>1, TypeCorrect, StructureCorrect, PTL

\* The table is one tree at all times.
THEOREM TableIsOneTree == Spec => []OneTree
<1>1. StructureInv => OneTree
  BY DEF StructureInv
<1> QED BY <1>1, StructureCorrect, PTL

\* The intrusive lists picture that tree exactly.
THEOREM ListsAreExact == Spec => []ChildListsExact
<1>1. StructureInv => ChildListsExact
  BY DEF StructureInv
<1> QED BY <1>1, StructureCorrect, PTL

---------------------------------------------------------------------------
(* The abstract tree *)

\* The refinement mapping shows each entry under its id.
LEMMA VisibleTreeFields ==
  ASSUME TypeOK, UniqueIds
  PROVE  /\ DOMAIN VisibleTree = {entries[i].id : i \in Indices}
         /\ \A k \in Indices :
              VisibleTree[entries[k].id] =
                [parent_id |-> entries[k].parent_id, kind |-> entries[k].kind]
<1>1. DOMAIN VisibleTree = {entries[i].id : i \in Indices}
  BY DEF VisibleTree
<1>2. ASSUME NEW k \in Indices
      PROVE  VisibleTree[entries[k].id] =
               [parent_id |-> entries[k].parent_id, kind |-> entries[k].kind]
  <2>1. (CHOOSE j \in Indices : entries[j].id = entries[k].id) = k
    BY DEF UniqueIds
  <2> QED BY <2>1 DEF VisibleTree
<1> QED BY <1>1, <1>2

\* The two lookups of validate_and_insert_entry see the tree as it is.
LEMMA VerdictSeesTree ==
  ASSUME TypeOK, StructureInv, NEW r \in EntryRecords
  PROVE  /\ entries = <<>> <=> Tree!Nodes = {}
         /\ Lookup(DenseAfter(r), IndexAfter(r), r.id) # NIL
              <=> r.id \in Tree!Nodes
         /\ ParentIndex(r) # NIL <=> r.parent_id \in Tree!Nodes
         /\ ParentIndex(r) # NIL =>
              VisibleTree[r.parent_id].kind = entries[ParentIndex(r)].kind
<1>1. IndexInv /\ UniqueIds /\ r.id \in Nat /\ r.parent_id \in Nat
  BY EntryRecordFields DEF StructureInv, IndexInv
<1>2. /\ DenseAfter(r) \in BOOLEAN
      /\ Represents(DenseAfter(r), IndexAfter(r))
  BY <1>1, SwitchRepresents
<1>3. Tree!Nodes = {entries[i].id : i \in Indices}
  BY <1>1, VisibleTreeFields DEF Tree!Nodes
<1>4. entries = <<>> <=> Tree!Nodes = {}
  <2>1. entries \in Seq(EntryRecords) /\ Len(entries) \in Nat
    BY DEF TypeOK
  <2>2. entries = <<>> <=> Len(entries) = 0
    BY <2>1, EmptySeq
  <2>3. Len(entries) = 0 <=> Indices = {}
    <3>1. Len(entries) = 0 => Indices = {}
      BY DEF Indices
    <3>2. Len(entries) # 0 => 1 \in Indices
      BY <2>1 DEF Indices
    <3> QED BY <3>1, <3>2
  <2> QED BY <1>3, <2>2, <2>3
<1>5. Lookup(DenseAfter(r), IndexAfter(r), r.id) # NIL <=> r.id \in Tree!Nodes
  BY <1>1, <1>2, <1>3, LookupFinds
<1>6. /\ ParentIndex(r) # NIL <=> r.parent_id \in Tree!Nodes
      /\ ParentIndex(r) # NIL =>
           /\ ParentIndex(r) \in Indices
           /\ entries[ParentIndex(r)].id = r.parent_id
  BY <1>1, <1>2, <1>3, LookupFinds DEF ParentIndex
<1>7. ASSUME ParentIndex(r) # NIL
      PROVE  VisibleTree[r.parent_id].kind = entries[ParentIndex(r)].kind
  <2>1. PICK k \in Indices : k = ParentIndex(r) /\ entries[k].id = r.parent_id
    BY <1>6, <1>7
  <2>2. VisibleTree[entries[k].id] =
          [parent_id |-> entries[k].parent_id, kind |-> entries[k].kind]
    BY <1>1, VisibleTreeFields
  <2>3. VisibleTree[r.parent_id] =
          [parent_id |-> entries[k].parent_id, kind |-> entries[k].kind]
    BY <2>1, <2>2
  <2>4. VisibleTree[r.parent_id].kind = entries[k].kind
    BY <2>3
  <2> QED BY <2>1, <2>4
<1> QED BY <1>4, <1>5, <1>6, <1>7

\* A correct table gives the verdicts of its tree.
LEMMA VerdictsOfState ==
  ASSUME TypeOK, StructureInv
  PROVE  VerdictFromTree
<1>1. VerdictFromTree
  <2> SUFFICES ASSUME NEW r \in EntryRecords
               PROVE IF Verdict(r) = "Ok"
                     THEN \A why \in Tree!Reasons :
                            ~Tree!Refusable(r.id, r.parent_id, r.kind, why)
                     ELSE Tree!Refusable(r.id, r.parent_id, r.kind, Verdict(r))
    BY DEF VerdictFromTree
  <2>1. RootError(r) <=> Tree!IllPlacedRoot(r.id, r.parent_id, r.kind)
    BY VerdictSeesTree DEF RootError, Tree!IllPlacedRoot
  <2> DEFINE known == Lookup(DenseAfter(r), IndexAfter(r), r.id) # NIL
             found == ParentIndex(r) # NIL
  <2>2. /\ entries = <<>> <=> Tree!Nodes = {}
        /\ known <=> r.id \in Tree!Nodes
        /\ found <=> r.parent_id \in Tree!Nodes
        /\ found => VisibleTree[r.parent_id].kind = entries[ParentIndex(r)].kind
    BY VerdictSeesTree
  <2>3. CASE r.id = r.parent_id
    BY <2>3 DEF Verdict, Tree!Refusable
  <2>4. CASE r.id # r.parent_id /\ RootError(r)
    BY <2>1, <2>4 DEF Verdict, Tree!Refusable
  <2>5. CASE r.id # r.parent_id /\ ~RootError(r) /\ entries = <<>>
    BY <2>1, <2>2, <2>5 DEF Verdict, Tree!Refusable, Tree!Reasons
  <2>6. CASE r.id # r.parent_id /\ ~RootError(r) /\ entries # <<>>
    BY <2>1, <2>2, <2>6 DEF Verdict, Tree!Refusable, Tree!Reasons
  <2> QED BY <2>3, <2>4, <2>5, <2>6
<1> QED BY <1>1

\* In every reachable state the verdict on every record follows from the
\* visible tree alone, whichever index is in use and whatever was refused
\* before.
THEOREM VerdictsFollowTree == Spec => []VerdictFromTree
<1>1. TypeOK /\ StructureInv => VerdictFromTree
  BY VerdictsOfState
<1> QED BY <1>1, TypeCorrect, StructureCorrect, PTL

\* Whatever the ids, the switch of the index and the records refused, every
\* stream kept is filed under the one entry that carries the id it named.
THEOREM StreamsStayAttributed == Spec => []StreamsAttributed
<1>1. TypeOK /\ StructureInv => StreamsAttributed
  <2> SUFFICES ASSUME TypeOK, StructureInv, NEW k \in DOMAIN pending_streams
               PROVE  /\ pending_streams[k].entry_idx \in Indices
                      /\ \A i \in Indices :
                           entries[i].id = pending_streams[k].parent_entry_id
                             <=> i = pending_streams[k].entry_idx
    BY DEF StreamsAttributed
  <2>1. FiledRight(pending_streams[k]) /\ UniqueIds
    BY DEF StructureInv, StreamInv, IndexInv
  <2> QED BY <2>1 DEF FiledRight, UniqueIds
<1> QED BY <1>1, TypeCorrect, StructureCorrect, PTL

\* VisibleTreeFields of the next state.
LEMMA VisibleTreeFieldsNext ==
  ASSUME TypeOK', UniqueIds'
  PROVE  /\ DOMAIN VisibleTree' = {entries'[i].id : i \in Indices'}
         /\ \A k \in Indices' :
              VisibleTree'[entries'[k].id] =
                [parent_id |-> entries'[k].parent_id,
                 kind |-> entries'[k].kind]
<1>1. DOMAIN VisibleTree' = {entries'[i].id : i \in Indices'}
  BY DEF VisibleTree
<1>2. ASSUME NEW k \in Indices'
      PROVE  VisibleTree'[entries'[k].id] =
               [parent_id |-> entries'[k].parent_id, kind |-> entries'[k].kind]
  <2>1. (CHOOSE j \in Indices' : entries'[j].id = entries'[k].id) = k
    BY DEF UniqueIds
  <2> QED BY <2>1 DEF VisibleTree
<1> QED BY <1>1, <1>2

\* Accepting an entry adds one leaf to the visible tree.
LEMMA AcceptingAdds ==
  ASSUME TypeOK, StructureInv, TypeOK', StructureInv',
         NEW r \in EntryRecords, Accepting(r)
  PROVE  Tree!Add(r.id, r.parent_id, r.kind)
<1> DEFINE Leaf == [parent_id |-> r.parent_id, kind |-> r.kind]
           Grown == [x \in Tree!Nodes \union {r.id} |->
                       IF x = r.id THEN Leaf ELSE VisibleTree[x]]
<1>1. /\ phase = "ingesting" /\ phase' = "ingesting"
      /\ terminal = None /\ terminal' = None
      /\ result' = "Ok" /\ Verdict(r) = "Ok"
  BY DEF Accepting
<1>2. \A why \in Tree!Reasons :
        ~Tree!Refusable(r.id, r.parent_id, r.kind, why)
  BY <1>1, VerdictsOfState DEF VerdictFromTree
<1>3. IndexInv /\ UniqueIds /\ UniqueIds'
  BY DEF StructureInv, IndexInv
<1>4. /\ Len(entries) \in Nat /\ Indices = 1..Len(entries)
      /\ Indices' = 1..(Len(entries) + 1)
      /\ \A i \in Indices : entries'[i] = entries[i]
      /\ entries'[Len(entries) + 1] = r
      /\ \A k \in Indices : entries[k].id # r.id
  BY <1>3, AcceptedEntry DEF Indices
<1>5. Indices' = Indices \union {Len(entries) + 1}
  BY <1>4
<1>6. DOMAIN VisibleTree' = Tree!Nodes \union {r.id}
  <2>1. Tree!Nodes = {entries[i].id : i \in Indices}
    BY <1>3, VisibleTreeFields DEF Tree!Nodes
  <2>2. DOMAIN VisibleTree' = {entries'[i].id : i \in Indices'}
    BY <1>3, VisibleTreeFieldsNext
  <2> QED BY <1>4, <1>5, <2>1, <2>2
<1>7. ASSUME NEW x \in Tree!Nodes \union {r.id}
      PROVE  VisibleTree'[x] = Grown[x]
  <2>1. CASE x = r.id
    BY <1>3, <1>4, <1>5, <2>1, VisibleTreeFieldsNext
  <2>2. CASE x # r.id
    <3>1. PICK k \in Indices : entries[k].id = x
      BY <1>3, <2>2, VisibleTreeFields DEF Tree!Nodes
    <3>2. k \in Indices' /\ entries'[k] = entries[k]
      BY <1>4, <1>5
    <3>3. VisibleTree'[entries'[k].id] =
            [parent_id |-> entries'[k].parent_id, kind |-> entries'[k].kind]
      BY <1>3, <3>2, VisibleTreeFieldsNext
    <3>4. VisibleTree[entries[k].id] =
            [parent_id |-> entries[k].parent_id, kind |-> entries[k].kind]
      BY <1>3, VisibleTreeFields
    <3>5. VisibleTree'[x] = VisibleTree[x]
      BY <3>1, <3>2, <3>3, <3>4
    <3> QED BY <2>2, <3>5
  <2> QED BY <2>1, <2>2
<1>8. VisibleTree' = Grown
  <2>1. VisibleTree' = [x \in DOMAIN VisibleTree' |-> VisibleTree'[x]]
    BY DEF VisibleTree
  <2> QED BY <1>6, <1>7, <2>1
<1> QED BY <1>1, <1>2, <1>8 DEF Tree!Add

\* GraphBuilder implements EntryTree: with each id shown with its parent and
\* kind, every step of the builder is a step of the abstract tree or leaves
\* it alone.
THEOREM BuilderImplementsTree == Spec => ImplementsEntryTree
<1>1. Init => Tree!Init
  <2> SUFFICES ASSUME Init PROVE Tree!Init
    OBVIOUS
  <2>1. VisibleTree = <<>>
    BY DEF Init, VisibleTree, Indices
  <2> QED BY <2>1 DEF Init, Tree!Init
<1>2. TypeOK /\ StructureInv /\ TypeOK' /\ StructureInv' /\ [Next]_vars
      => [Tree!Next]_Tree!vars
  <2> SUFFICES ASSUME TypeOK, StructureInv, TypeOK', StructureInv', [Next]_vars
               PROVE  [Tree!Next]_Tree!vars
    OBVIOUS
  <2>1. ASSUME entries' = entries PROVE VisibleTree' = VisibleTree
    BY <2>1 DEF VisibleTree, Indices
  <2>2. ASSUME NEW r \in EntryRecords, Accepting(r) PROVE Tree!Next
    <3>1. r.id \in Ids /\ r.parent_id \in Ids /\ r.kind \in Kinds
      BY EntryRecordFields
    <3> QED BY <2>2, <3>1, AcceptingAdds DEF Tree!Next
  <2>3. ASSUME NEW r \in EntryRecords, reject_entry(r) PROVE Tree!Next
    <3>1. r.id \in Ids /\ r.parent_id \in Ids /\ r.kind \in Kinds
      BY EntryRecordFields
    <3>2. Tree!Refusable(r.id, r.parent_id, r.kind, Verdict(r))
      BY <2>3, VerdictsOfState DEF VerdictFromTree, reject_entry
    <3>3. Verdict(r) \in Tree!Reasons
      BY <2>3 DEF reject_entry, Verdict, Tree!Reasons
    <3>4. Tree!Refuse(r.id, r.parent_id, r.kind, Verdict(r))
      BY <2>1, <2>3, <3>2 DEF reject_entry, Tree!Refuse
    <3> QED BY <3>1, <3>3, <3>4 DEF Tree!Next
  <2>4. ASSUME NEW id \in Ids, ingest_stream(id) PROVE Tree!Next
    <3>1. storage_get_idx(id) # NIL <=> id \in Tree!Nodes
      <4>1. /\ id \in Nat /\ is_dense \in BOOLEAN
            /\ UniqueIds /\ Represents(is_dense, id_to_idx)
        BY ConstantsAssumption DEF StructureInv, IndexInv, TypeOK
      <4>2. Tree!Nodes = {entries[i].id : i \in Indices}
        BY <4>1, VisibleTreeFields DEF Tree!Nodes
      <4> QED BY <4>1, <4>2, LookupFinds DEF storage_get_idx
    <3>2. /\ phase = "ingesting" /\ phase' = phase
          /\ terminal = None /\ terminal' = terminal
          /\ VisibleTree' = VisibleTree
          /\ result' = IF storage_get_idx(id) = NIL
                       THEN "UnknownStreamParent" ELSE "Ok"
      BY <2>1, <2>4 DEF ingest_stream
    <3>3. Tree!Attach(id)
      BY <3>1, <3>2 DEF Tree!Attach
    <3> QED BY <3>3 DEF Tree!Next
  <2>5. CASE ingest_gap
    BY <2>1, <2>5 DEF ingest_gap, Tree!Next, Tree!Note
  <2>6. ASSUME NEW t \in TerminalRecords, ingest_terminal(t) PROVE Tree!Next
    <3>1. t # None
      BY NoneAssumption
    <3> QED BY <2>1, <2>6, <3>1 DEF ingest_terminal, Tree!Next, Tree!Seal
  <2>7. CASE record_after_terminal
    BY <2>1, <2>7 DEF record_after_terminal, Tree!Next, Tree!RefuseLate
  <2>8. CASE finish
    <3>1. entries = <<>> => Tree!Nodes = {}
      BY DEF Tree!Nodes, VisibleTree, Indices
    <3> QED BY <2>1, <2>8, <3>1
            DEF finish, FinishResult, Tree!Next, Tree!Consume
  <2>9. CASE UNCHANGED vars
    BY <2>1, <2>9 DEF vars, Tree!vars
  <2> QED BY <2>2, <2>3, <2>4, <2>5, <2>6, <2>7, <2>8, <2>9
          DEF Next, ingest_directory, ingest_file, ingest_special
<1> QED BY <1>1, <1>2, TypeCorrect, StructureCorrect, PTL
        DEF Spec, ImplementsEntryTree, Tree!Spec

---------------------------------------------------------------------------
(* Sums and counts.  SumOf is recursive: what it computes is shown by      *)
(* induction on the naturals, in the form of the least member of a set.    *)

\* Every set of naturals that is not empty has a least member.
LEMMA LeastMember ==
  ASSUME NEW T, T \subseteq Nat, T # {}
  PROVE  \E x \in T : \A y \in T : x <= y
<1>1. IsWellFoundedOn(OpToRel(<, Nat), Nat)
  BY NatLessThanWellFounded, Zenon
<1>2. PICK x \in T : \A y \in T : ~(<<y, x>> \in OpToRel(<, Nat))
  BY <1>1, WFMin, Zenon
<1>3. \A y \in T : ~(y < x)
  BY <1>2 DEF OpToRel
<1> QED BY <1>3

\* Induction up to n, for a property given as the set of those that have it.
LEMMA InductionUpTo ==
  ASSUME NEW n \in Nat, NEW S, 0 \in S, \A k \in 1..n : k - 1 \in S => k \in S
  PROVE  0..n \subseteq S
<1> SUFFICES ASSUME ~(0..n \subseteq S) PROVE FALSE
  OBVIOUS
<1>1. PICK T : T = {k \in 0..n : k \notin S}
  OBVIOUS
<1>2. T \subseteq Nat /\ T # {}
  BY <1>1
<1>3. PICK x \in T : \A y \in T : x <= y
  BY <1>2, LeastMember
<1>4. x \in 1..n /\ x - 1 \in 0..n
  BY <1>1, <1>3
<1>5. x - 1 \in S
  BY <1>1, <1>3, <1>4
<1> QED BY <1>1, <1>4, <1>5

\* f holds the running sums of w up to n.
Adds(f, w, n) == f[0] = 0 /\ \A k \in 1..n : f[k] = f[k - 1] + w[k]
IsRunningSum(f, w, n) == f \in [0..n -> Nat] /\ Adds(f, w, n)

\* Every sequence of naturals has its running sums.
LEMMA RunningSumExists ==
  ASSUME NEW w \in Seq(Nat)
  PROVE  \E f : IsRunningSum(f, w, Len(w))
<1>1. Len(w) \in Nat
  OBVIOUS
<1>2. PICK S : S = {n \in 0..Len(w) : \E f : IsRunningSum(f, w, n)}
  OBVIOUS
<1>3. 0 \in S
  <2>1. IsRunningSum([k \in 0..0 |-> 0], w, 0)
    BY DEF IsRunningSum, Adds
  <2> QED BY <1>1, <1>2, <2>1
<1>4. ASSUME NEW k \in 1..Len(w), k - 1 \in S
      PROVE  k \in S
  <2>1. PICK f : IsRunningSum(f, w, k - 1)
    BY <1>2, <1>4
  <2>2. w[k] \in Nat
    OBVIOUS
  <2>3. PICK g : g = [i \in 0..k |-> IF i = k THEN f[k - 1] + w[k] ELSE f[i]]
    OBVIOUS
  <2>4. /\ f \in [0..(k - 1) -> Nat] /\ f[0] = 0
        /\ \A i \in 1..(k - 1) : f[i] = f[i - 1] + w[i]
    BY <2>1 DEF IsRunningSum, Adds
  <2>5. /\ \A i \in 0..(k - 1) : g[i] = f[i] /\ f[i] \in Nat
        /\ g[k] = f[k - 1] + w[k] /\ g[k] \in Nat
    BY <2>2, <2>3, <2>4, SMTT(60)
  <2>6. g \in [0..k -> Nat]
    <3>1. \A i \in 0..k : i = k \/ i \in 0..(k - 1)
      OBVIOUS
    <3>2. \A i \in 0..k : g[i] \in Nat
      BY <2>5, <3>1
    <3> QED BY <2>3, <3>2
  <2>7. IsRunningSum(g, w, k)
    BY <2>4, <2>5, <2>6, SMTT(60) DEF IsRunningSum, Adds
  <2> QED BY <1>1, <1>2, <2>7
<1>5. 0..Len(w) \subseteq S
  BY <1>1, <1>3, <1>4, InductionUpTo
<1> QED BY <1>1, <1>2, <1>5

\* Two running sums agree as far as they sum the same.
LEMMA RunningSumUnique ==
  ASSUME NEW n \in Nat, NEW w, NEW f, NEW g, Adds(f, w, n), Adds(g, w, n)
  PROVE  \A k \in 0..n : f[k] = g[k]
<1>1. PICK S : S = {k \in 0..n : f[k] = g[k]}
  OBVIOUS
<1>2. 0 \in S
  BY <1>1 DEF Adds
<1>3. ASSUME NEW k \in 1..n, k - 1 \in S PROVE k \in S
  BY <1>1, <1>3 DEF Adds
<1>4. 0..n \subseteq S
  BY <1>2, <1>3, InductionUpTo
<1> QED BY <1>1, <1>4

\* SumOf is the last of the running sums.
LEMMA SumIsLast ==
  ASSUME NEW w \in Seq(Nat), NEW f, IsRunningSum(f, w, Len(w))
  PROVE  SumOf(w) = f[Len(w)]
<1> DEFINE Fun(h) == [k \in 0..Len(w) |-> IF k = 0 THEN 0 ELSE h[k - 1] + w[k]]
<1>1. f = Fun(f)
  BY DEF IsRunningSum, Adds
<1>2. PICK sum : sum = CHOOSE h : h = Fun(h)
  OBVIOUS
<1>3. sum = Fun(sum)
  BY <1>1, <1>2
<1>4. SumOf(w) = sum[Len(w)]
  BY <1>2 DEF SumOf
<1>5. Len(w) \in Nat /\ Adds(f, w, Len(w)) /\ Adds(sum, w, Len(w))
  <2>1. Len(w) \in Nat /\ Adds(f, w, Len(w))
    BY DEF IsRunningSum
  <2>2. \A k \in 0..Len(w) : sum[k] = IF k = 0 THEN 0 ELSE sum[k - 1] + w[k]
    BY <1>3
  <2>3. \A k \in 1..Len(w) : k \in 0..Len(w) /\ k # 0
    OBVIOUS
  <2>4. sum[0] = 0
    BY <2>1, <2>2
  <2> QED BY <2>1, <2>2, <2>3, <2>4 DEF Adds
<1>6. \A k \in 0..Len(w) : f[k] = sum[k]
  BY <1>5, RunningSumUnique
<1> QED BY <1>4, <1>5, <1>6

\* One more summand.
LEMMA SumOfAppend ==
  ASSUME NEW w \in Seq(Nat), NEW x \in Nat
  PROVE  SumOf(w) \in Nat /\ SumOf(Append(w, x)) = SumOf(w) + x
<1>1. Append(w, x) \in Seq(Nat)
  BY AppendProperties
<1>2. PICK v \in Seq(Nat) : v = Append(w, x)
  BY <1>1
<1>3. /\ Len(w) \in Nat /\ Len(v) = Len(w) + 1 /\ v[Len(w) + 1] = x
      /\ \A k \in 1..Len(w) : w[k] = v[k]
  BY <1>2, AppendProperties
<1>4. PICK f : IsRunningSum(f, w, Len(w))
  BY RunningSumExists
<1>5. PICK g : IsRunningSum(g, v, Len(v))
  BY RunningSumExists
<1>6. f[Len(w)] = g[Len(w)]
  <2>1. Adds(f, w, Len(w)) /\ Adds(g, w, Len(w))
    BY <1>3, <1>4, <1>5 DEF IsRunningSum, Adds
  <2>2. \A k \in 0..Len(w) : f[k] = g[k]
    BY <1>3, <2>1, RunningSumUnique
  <2> QED BY <1>3, <2>2
<1>7. f[Len(w)] \in Nat
  BY <1>3, <1>4, SMTT(60) DEF IsRunningSum, Adds
<1>8. g[Len(w) + 1] = g[Len(w)] + x
  <2>1. \A k \in 1..(Len(w) + 1) : g[k] = g[k - 1] + v[k]
    BY <1>3, <1>5 DEF IsRunningSum, Adds
  <2> QED BY <1>3, <2>1
<1>9. SumOf(w) = f[Len(w)] /\ SumOf(v) = g[Len(v)]
  BY <1>4, <1>5, SumIsLast
<1> QED BY <1>2, <1>3, <1>6, <1>7, <1>8, <1>9

\* The sum of nothing.
LEMMA SumOfEmpty == SumOf(<<>>) = 0
<1>1. <<>> \in Seq(Nat) /\ Len(<<>>) = 0
  BY EmptySeq
<1>2. PICK f : IsRunningSum(f, <<>>, Len(<<>>))
  BY <1>1, RunningSumExists
<1>3. SumOf(<<>>) = f[Len(<<>>)]
  BY <1>1, <1>2, SumIsLast
<1> QED BY <1>1, <1>2, <1>3 DEF IsRunningSum, Adds

---------------------------------------------------------------------------
(* The totals *)

CountIn(recs, k) == Cardinality({i \in 1..Len(recs) : recs[i].kind = k})

\* One more record is one more of its kind.
LEMMA CountOfAppend ==
  ASSUME NEW recs \in Seq(EntryRecords), NEW r \in EntryRecords, NEW k
  PROVE  /\ CountIn(recs, k) \in Nat
         /\ CountIn(Append(recs, r), k) =
              CountIn(recs, k) + IF r.kind = k THEN 1 ELSE 0
<1> DEFINE new == Len(recs) + 1
           Of(q) == {i \in 1..Len(q) : q[i].kind = k}
<1>1. Len(recs) \in Nat
  OBVIOUS
<1>2. IsFiniteSet(Of(recs)) /\ Cardinality(Of(recs)) \in Nat
  <2>1. IsFiniteSet(1..Len(recs))
    BY <1>1, FS_Interval
  <2>2. IsFiniteSet(Of(recs))
    BY <2>1, FS_Subset
  <2> QED BY <2>2, FS_CardinalityType
<1>3. Of(Append(recs, r)) = IF r.kind = k THEN Of(recs) \union {new}
                            ELSE Of(recs)
  BY <1>1, AppendProperties
<1>4. new \notin Of(recs)
  BY <1>1
<1>5. Cardinality(Of(recs) \union {new}) = Cardinality(Of(recs)) + 1
  BY <1>2, <1>4, FS_AddElement
<1>6. CountIn(recs, k) = Cardinality(Of(recs))
  BY DEF CountIn
<1>7. CountIn(Append(recs, r), k) = Cardinality(Of(Append(recs, r)))
  BY DEF CountIn
<1> HIDE DEF Of
<1> QED BY <1>2, <1>3, <1>5, <1>6, <1>7

\* An empty table counts and weighs nothing.
LEMMA NothingCounted ==
  /\ \A k : CountIn(<<>>, k) = 0
  /\ SumOf(LogicalSizes(<<>>)) = 0 /\ SumOf(AllocatedSizes(<<>>)) = 0
<1>1. \A k : {i \in 1..Len(<<>>) : <<>>[i].kind = k} = {}
  OBVIOUS
<1>2. \A k : CountIn(<<>>, k) = 0
  BY <1>1, FS_EmptySet DEF CountIn
<1>3. LogicalSizes(<<>>) = <<>> /\ AllocatedSizes(<<>>) = <<>>
  BY DEF LogicalSizes, AllocatedSizes
<1> QED BY <1>2, <1>3, SumOfEmpty

\* Directories and special objects have no logical size, special objects no
\* allocated size; what sizes there are add up.
LEMMA SizesOfRecord ==
  ASSUME NEW r \in EntryRecords
  PROVE  /\ r.logical_size \in Nat
         /\ r.kind # "File" => r.logical_size = 0
         /\ unwrap_or_zero(r.allocated_size) \in Nat
         /\ r.kind = "Special" => unwrap_or_zero(r.allocated_size) = 0
<1>1. CASE r.kind = "Directory"
  <2>1. r.logical_size = 0 /\ r.allocated_size \in AllocSizes
    BY <1>1 DEF EntryRecords
  <2> QED BY <1>1, <2>1, EntryRecordFields
<1>2. CASE r.kind = "File"
  <2>1. r.logical_size \in Sizes
    BY <1>2 DEF EntryRecords
  <2>2. r.logical_size \in Nat
    BY <2>1, ConstantsAssumption
  <2> QED BY <1>2, <2>2, EntryRecordFields
<1>3. CASE r.kind = "Special"
  <2>1. r.logical_size = 0 /\ r.allocated_size = None
    BY <1>3 DEF EntryRecords
  <2> QED BY <1>3, <2>1 DEF unwrap_or_zero
<1> QED BY <1>1, <1>2, <1>3, EntryRecordFields DEF Kinds

\* One more record adds its sizes to the sums.
LEMMA SizesOfAppend ==
  ASSUME NEW recs \in Seq(EntryRecords), NEW r \in EntryRecords
  PROVE  /\ SumOf(LogicalSizes(recs)) \in Nat
         /\ SumOf(LogicalSizes(Append(recs, r)))
              = SumOf(LogicalSizes(recs)) + r.logical_size
         /\ SumOf(AllocatedSizes(recs)) \in Nat
         /\ SumOf(AllocatedSizes(Append(recs, r)))
              = SumOf(AllocatedSizes(recs)) + unwrap_or_zero(r.allocated_size)
<1>1. /\ Len(recs) \in Nat /\ Len(Append(recs, r)) = Len(recs) + 1
      /\ \A i \in 1..Len(recs) :
           recs[i] \in EntryRecords /\ Append(recs, r)[i] = recs[i]
      /\ Append(recs, r)[Len(recs) + 1] = r
  BY AppendProperties, ElementOfSeq
<1>2. /\ LogicalSizes(recs) \in Seq(Nat) /\ AllocatedSizes(recs) \in Seq(Nat)
      /\ Len(LogicalSizes(recs)) = Len(recs)
      /\ Len(AllocatedSizes(recs)) = Len(recs)
  <2>1. \A i \in 1..Len(recs) :
          /\ recs[i].logical_size \in Nat
          /\ unwrap_or_zero(recs[i].allocated_size) \in Nat
    BY <1>1, SizesOfRecord
  <2> QED BY <1>1, <2>1 DEF LogicalSizes, AllocatedSizes
<1>3. r.logical_size \in Nat /\ unwrap_or_zero(r.allocated_size) \in Nat
  BY SizesOfRecord
<1>4. LogicalSizes(Append(recs, r)) = Append(LogicalSizes(recs), r.logical_size)
  BY <1>1, <1>2, <1>3 DEF LogicalSizes
<1>5. AllocatedSizes(Append(recs, r))
        = Append(AllocatedSizes(recs), unwrap_or_zero(r.allocated_size))
  BY <1>1, <1>2, <1>3 DEF AllocatedSizes
<1> QED BY <1>2, <1>3, <1>4, <1>5, SumOfAppend

\* Adding to a capped sum caps the sum: where the saturation happened does
\* not show.
LEMMA CappedSum ==
  ASSUME NEW a \in Nat, NEW b \in Nat
  PROVE  saturating_add(Capped(a), b) = Capped(a + b)
BY ConstantsAssumption DEF saturating_add, Capped

(***************************************************************************)
(* The invariant of the totals: the counters are those of the entries at   *)
(* all times, and a terminal record still matches them, as nothing moves   *)
(* them once it is in.                                                     *)
(***************************************************************************)
CountsExact ==
  /\ dir_count = CountIn(entries, "Directory")
  /\ file_count = CountIn(entries, "File")
  /\ special_count = CountIn(entries, "Special")

SumsExact ==
  /\ logical_bytes = Capped(SumOf(LogicalSizes(entries)))
  /\ allocated_bytes = Capped(SumOf(AllocatedSizes(entries)))

KnownExact ==
  allocated_bytes_known <=>
    \A i \in Indices :
      entries[i].kind = "File" => entries[i].allocated_size # None

SealMatches == terminal # None => TotalsMatch(terminal)

TotalsInv == CountsExact /\ SumsExact /\ KnownExact /\ SealMatches

\* What an accepted entry adds to the exact totals.
LEMMA AcceptedTotals ==
  ASSUME TypeOK, NEW r \in EntryRecords, Accepting(r)
  PROVE  /\ \A k : /\ CountIn(entries, k) \in Nat
                   /\ CountIn(entries', k) =
                        CountIn(entries, k) + IF r.kind = k THEN 1 ELSE 0
         /\ SumOf(LogicalSizes(entries)) \in Nat
         /\ SumOf(LogicalSizes(entries'))
              = SumOf(LogicalSizes(entries)) + r.logical_size
         /\ SumOf(AllocatedSizes(entries)) \in Nat
         /\ SumOf(AllocatedSizes(entries'))
              = SumOf(AllocatedSizes(entries)) + unwrap_or_zero(r.allocated_size)
<1>1. entries \in Seq(EntryRecords) /\ entries' = Append(entries, r)
  BY DEF TypeOK, Accepting, Insert
<1> QED BY <1>1, CountOfAppend, SizesOfAppend

\* The counters follow the table when an entry is accepted.
LEMMA AcceptingKeepsTotals ==
  ASSUME TypeOK, TotalsInv, NEW r \in EntryRecords,
         ingest_directory(r) \/ ingest_file(r) \/ ingest_special(r)
  PROVE  TotalsInv'
<1>1. Accepting(r)
  BY DEF ingest_directory, ingest_file, ingest_special
<1>2. /\ r.logical_size \in Nat /\ unwrap_or_zero(r.allocated_size) \in Nat
      /\ r.kind # "File" => r.logical_size = 0
      /\ r.kind = "Special" => unwrap_or_zero(r.allocated_size) = 0
  BY SizesOfRecord
<1>3. CountsExact'
  <2>1. /\ dir_count' = dir_count + IF r.kind = "Directory" THEN 1 ELSE 0
        /\ file_count' = file_count + IF r.kind = "File" THEN 1 ELSE 0
        /\ special_count' = special_count + IF r.kind = "Special" THEN 1 ELSE 0
    BY DEF ingest_directory, ingest_file, ingest_special, TypeOK
  <2>2. CountsExact
    BY DEF TotalsInv
  <2> QED BY <1>1, <2>1, <2>2, AcceptedTotals DEF CountsExact
<1>4. SumsExact'
  <2> DEFINE L == SumOf(LogicalSizes(entries))
             A == SumOf(AllocatedSizes(entries))
  <2>1. /\ L \in Nat /\ A \in Nat
        /\ SumOf(LogicalSizes(entries')) = L + r.logical_size
        /\ SumOf(AllocatedSizes(entries'))
             = A + unwrap_or_zero(r.allocated_size)
    BY <1>1, AcceptedTotals
  <2>2. logical_bytes = Capped(L) /\ allocated_bytes = Capped(A)
    BY DEF TotalsInv, SumsExact
  <2> HIDE DEF L, A
  <2>3. logical_bytes' = Capped(L + r.logical_size)
    <3>1. CASE r.kind = "File"
      <4>1. logical_bytes' = saturating_add(logical_bytes, r.logical_size)
        BY <3>1 DEF ingest_directory, ingest_file, ingest_special
      <4> QED BY <1>2, <2>1, <2>2, <4>1, CappedSum
    <3>2. CASE r.kind # "File"
      <4>1. logical_bytes' = logical_bytes
        BY <3>2 DEF ingest_directory, ingest_file, ingest_special
      <4> QED BY <1>2, <2>1, <2>2, <3>2, <4>1
    <3> QED BY <3>1, <3>2
  <2>4. allocated_bytes' = Capped(A + unwrap_or_zero(r.allocated_size))
    <3>1. CASE r.kind = "Special"
      <4>1. allocated_bytes' = allocated_bytes
        BY <3>1 DEF ingest_directory, ingest_file, ingest_special
      <4> QED BY <1>2, <2>1, <2>2, <3>1, <4>1
    <3>2. CASE r.kind # "Special"
      <4>1. allocated_bytes' =
              saturating_add(allocated_bytes, unwrap_or_zero(r.allocated_size))
        BY <3>2 DEF ingest_directory, ingest_file, ingest_special
      <4> QED BY <1>2, <2>1, <2>2, <4>1, CappedSum
    <3> QED BY <3>1, <3>2
  <2> QED BY <2>1, <2>3, <2>4 DEF SumsExact
<1>5. KnownExact'
  <2>1. /\ Indices' = Indices \union {Len(entries) + 1}
        /\ \A i \in Indices : entries'[i] = entries[i]
        /\ entries'[Len(entries) + 1] = r
    <3>1. entries \in Seq(EntryRecords) /\ entries' = Append(entries, r)
      BY <1>1 DEF TypeOK, Accepting, Insert
    <3> QED BY <3>1, AppendProperties DEF Indices
  <2>2. KnownExact
    BY DEF TotalsInv
  <2>3. CASE r.kind = "File"
    <3>1. allocated_bytes_known' =
            (allocated_bytes_known /\ r.allocated_size # None)
      BY <2>3 DEF ingest_directory, ingest_file, ingest_special
    <3> QED BY <2>1, <2>2, <2>3, <3>1 DEF KnownExact
  <2>4. CASE r.kind # "File"
    <3>1. allocated_bytes_known' = allocated_bytes_known
      BY <2>4 DEF ingest_directory, ingest_file, ingest_special
    <3> QED BY <2>1, <2>2, <2>4, <3>1 DEF KnownExact
  <2> QED BY <2>3, <2>4
<1>6. SealMatches'
  BY <1>1 DEF Accepting, SealMatches
<1> QED BY <1>3, <1>4, <1>5, <1>6 DEF TotalsInv

\* At all times the running totals are those of the table, and an accepted
\* terminal record agrees with them.
THEOREM TotalsCorrect == Spec => []TotalsInv
<1>1. Init => TotalsInv
  <2> SUFFICES ASSUME Init PROVE TotalsInv
    OBVIOUS
  <2>1. entries = <<>> /\ Indices = {} /\ Capped(0) = 0
    BY ConstantsAssumption DEF Init, Indices, Capped
  <2>2. CountsExact /\ SumsExact
    BY <2>1, NothingCounted DEF Init, CountsExact, SumsExact
  <2> QED BY <2>1, <2>2 DEF Init, TotalsInv, KnownExact, SealMatches
<1>2. TypeOK /\ TotalsInv /\ [Next]_vars => TotalsInv'
  <2> SUFFICES ASSUME TypeOK, TotalsInv, [Next]_vars PROVE TotalsInv'
    OBVIOUS
  <2>1. ASSUME NEW r \in EntryRecords,
               ingest_directory(r) \/ ingest_file(r) \/ ingest_special(r)
        PROVE  TotalsInv'
    BY <2>1, AcceptingKeepsTotals
  <2>2. ASSUME UNCHANGED <<entries, totals>>
        PROVE  CountsExact' /\ SumsExact' /\ KnownExact'
    <3>1. CountsExact /\ SumsExact /\ KnownExact
      BY DEF TotalsInv
    <3>2. CountsExact' /\ SumsExact'
      BY <2>2, <3>1 DEF CountsExact, SumsExact, totals
    <3>3. KnownExact'
      BY <2>2, <3>1 DEF KnownExact, Indices, totals
    <3> QED BY <3>2, <3>3
  <2>3. ASSUME UNCHANGED <<entries, totals>>, UNCHANGED <<terminal, gaps>>
        PROVE  TotalsInv'
    <3>1. SealMatches'
      BY <2>3 DEF TotalsInv, SealMatches, TotalsMatch, totals
    <3> QED BY <2>2, <2>3, <3>1 DEF TotalsInv
  <2>4. CASE \E r \in EntryRecords : reject_entry(r)
    BY <2>3, <2>4 DEF reject_entry
  <2>5. CASE \E id \in Ids : ingest_stream(id)
    BY <2>3, <2>5 DEF ingest_stream
  <2>6. CASE ingest_gap
    <3>1. UNCHANGED <<entries, totals>> /\ terminal' = None
      BY <2>6 DEF ingest_gap
    <3> QED BY <2>2, <3>1 DEF TotalsInv, SealMatches
  <2>7. ASSUME NEW t \in TerminalRecords, ingest_terminal(t) PROVE TotalsInv'
    <3>1. UNCHANGED <<entries, totals>> /\ UNCHANGED gaps
      BY <2>7 DEF ingest_terminal
    <3>2. SealMatches'
      BY <2>7, <3>1 DEF ingest_terminal, SealMatches, TotalsMatch, totals
    <3> QED BY <2>2, <3>1, <3>2 DEF TotalsInv
  <2>8. CASE record_after_terminal \/ finish
    BY <2>3, <2>8 DEF record_after_terminal, finish
  <2>9. CASE UNCHANGED vars
    BY <2>3, <2>9 DEF vars
  <2> QED BY <2>1, <2>4, <2>5, <2>6, <2>7, <2>8, <2>9 DEF Next
<1> QED BY <1>1, <1>2, TypeCorrect, PTL DEF Spec

\* A sealed table reports exactly what it holds, sums capped once.
THEOREM SealedTotalsAreExact == Spec => []SealedTotalsExact
<1>1. TotalsInv => SealedTotalsExact
  <2> SUFFICES ASSUME TotalsInv, terminal # None PROVE SealedTotalsExact
    BY DEF SealedTotalsExact
  <2>1. TotalsMatch(terminal) /\ CountsExact /\ SumsExact /\ KnownExact
    BY DEF TotalsInv, SealMatches
  <2>2. \A k : CountOf(k) = CountIn(entries, k)
    BY DEF CountOf, CountIn, Indices
  <2> QED BY <2>1, <2>2
          DEF SealedTotalsExact, TotalsMatch, CountsExact, SumsExact, KnownExact
<1> QED BY <1>1, TotalsCorrect, PTL

===========================================================================
