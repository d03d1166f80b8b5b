------------------------- MODULE ScanPipelineProofs -------------------------
(***************************************************************************)
(* Proofs about one scan, for every pipe capacity, tree and size: what the *)
(* worker writes reaches the builder in full, nothing the worker writes is *)
(* refused, and no worker is left behind.                                  *)
(***************************************************************************)
EXTENDS ScanPipeline, GraphBuilderProofs

StreamRecords == {Header, Gap, Torn} \union EntryRecords \union TerminalRecords

\* The terminal record that reports these totals.
TerminalOf(outcome, t) ==
  [outcome |-> outcome,
   total_directories |-> t.dirs, total_files |-> t.files,
   total_logical_bytes |-> t.logical, total_allocated_bytes |-> t.alloc,
   coverage_gap_count |-> t.gaps]

---------------------------------------------------------------------------
(* The inductive invariant *)

WorkerPcs ==
  {"unborn", "suspended", "boot", "start", "rootgap", "root", "pop",
   "enumerating", "partial", "unreadable", "facts", "terminal", "flush",
   "exited"}
Drained == {"header", "records", "waitheader", "wait"}
RunnerPcs == LaunchCalls \union Drained \union {"done", "dead"}

BeforeRoot == {"unborn", "suspended", "boot", "start", "rootgap", "root"}
Traversing == {"pop", "enumerating", "partial", "unreadable", "facts"}
Reading == {"launch", "job", "assign", "resume", "header", "records"}

PTypes ==
  /\ w_pc \in WorkerPcs /\ r_pc \in RunnerPcs
  /\ w_stack \in Seq(Nat) /\ w_dir \in Nat /\ w_next_id \in 0..MaxU32
  /\ w_outcome \in RunOutcomes \union {None}
  /\ w_exit \in {0, 1, 2, 3, CrashCode, None}
  /\ w_exit = None <=> w_pc # "exited"
  /\ observed \in Seq(EntryRecords) /\ Len(observed) <= MaxEntries
  /\ w_pc \in BeforeRoot => observed = <<>> /\ w_totals.gaps = 0
  /\ pipe \in Seq(StreamRecords)
  /\ confined \in BOOLEAN

\* The worker's counters count what it observed, while they last.
WorkerTotals ==
  /\ w_totals \in [dirs : Nat, files : Nat, logical : 0..MaxU64,
                   alloc : 0..MaxU64, gaps : 0..MaxGaps]
  /\ w_totals.dirs = CountIn(observed, "Directory")
  /\ w_totals.files = CountIn(observed, "File")
  /\ SumOf(LogicalSizes(observed)) <= MaxU64 =>
       w_totals.logical = SumOf(LogicalSizes(observed))
  /\ SumOf(AllocatedSizes(observed)) <= MaxU64 =>
       w_totals.alloc = SumOf(AllocatedSizes(observed))
  /\ w_pc \in {"rootgap", "partial", "unreadable"} => w_totals.gaps < MaxGaps

\* The outcome is chosen once, for a reason that lasts.
OutcomeInv ==
  /\ w_pc \in Traversing => observed # <<>>
  /\ w_outcome # None => w_pc \in {"rootgap", "terminal", "flush", "exited"}
  /\ w_pc \in {"rootgap", "terminal", "flush"} => w_outcome \in RunOutcomes
  /\ w_outcome = "Finished" => w_stack = <<>> /\ observed # <<>>
  /\ w_outcome = "Cancelled" => cancelled

\* The terminal record is the last thing written and carries the worker's
\* final totals; once the builder took it the pipe is empty for good.
TerminalInv ==
  /\ \A k \in 1..Len(pipe) :
       pipe[k] \in TerminalRecords =>
         /\ k = Len(pipe)
         /\ w_pc \in {"flush", "exited"}
         /\ pipe[k] = TerminalOf(w_outcome, w_totals)
  /\ terminal # None =>
       /\ pipe = <<>>
       /\ w_pc \in {"flush", "exited"}
       /\ terminal.outcome = w_outcome

\* What is in the pipe takes the builder from what it has to what the worker
\* has: e and g count the entries and gaps up to each place.
CountsAt(k, e, g, p, obs) ==
  /\ e[k] = e[k - 1] + IF p[k] \in EntryRecords THEN 1 ELSE 0
  /\ g[k] = g[k - 1] + IF p[k] = Gap THEN 1 ELSE 0
  /\ p[k] \in EntryRecords => obs[e[k]] = p[k]

CountsTransit(e, g, p, ent, obs, g0, g1) ==
  /\ e[0] = Len(ent) /\ e[Len(p)] = Len(obs)
  /\ g[0] = g0 /\ g[Len(p)] = g1
  /\ \A k \in 1..Len(ent) : obs[k] = ent[k]
  /\ \A k \in 1..Len(p) : CountsAt(k, e, g, p, obs)

Follows(p, ent, obs, g0, g1) ==
  \E e \in [0..Len(p) -> 0..Len(obs)], g \in [0..Len(p) -> 0..g1] :
    CountsTransit(e, g, p, ent, obs, g0, g1)

TransitInv ==
  r_pc \in Reading => Follows(pipe, entries, observed, gaps, w_totals.gaps)

\* A graph is only promised at the end of a stream that was read whole.
ResultInv ==
  r_pc \in {"wait", "done"} /\ r_result = "Ok" =>
    /\ entries = observed /\ gaps = w_totals.gaps
    /\ terminal # None /\ w_pc = "exited"
    /\ r_pc = "done" => w_exit = ExitCodeOf(terminal.outcome)

(***************************************************************************)
(* What the runner may hold of the worker, by where it is.  The step that  *)
(* needs it is the one that ends the call or the engine: between           *)
(* CreateProcessW and the assignment there is a worker no job would end,   *)
(* and it is asleep; from ResumeThread on there is one that runs, and the  *)
(* job has it.                                                             *)
(***************************************************************************)
OrphanInv ==
  /\ r_pc = "launch" => w_pc = "unborn"
  /\ r_pc \in {"job", "assign", "resume"} => w_pc \in {"suspended", "exited"}
  /\ r_pc \in Drained => w_pc # "suspended"
  /\ r_pc \in {"launch", "job", "assign"} => ~confined
  /\ r_pc \in {"resume"} \union Drained => confined
  /\ r_pc = "done" => w_pc \in {"unborn", "exited"}
  /\ r_pc = "dead" => \/ w_pc \in {"unborn", "exited"}
                      \/ w_pc = "suspended" /\ ~confined

WorkerInv == PTypes /\ WorkerTotals /\ OutcomeInv /\ OrphanInv
CompletenessInv == TerminalInv /\ TransitInv /\ ResultInv

(***************************************************************************)
(* What makes the stream acceptable.  While the ids last, they count up    *)
(* and every directory the worker still names is one it observed; and a    *)
(* worker that ends well has delivered its terminal record, one that       *)
(* refuses its target has not begun the stream.                            *)
(***************************************************************************)
Fits == Len(observed) <= MaxU32

IsDirectory(id, recs) == id \in 1..Len(recs) /\ recs[id].kind = "Directory"

WellPlaced(k, recs) ==
  /\ recs[k].id = k
  /\ k = 1 => recs[k].parent_id = 0 /\ recs[k].kind = "Directory"
  /\ k # 1 => recs[k].parent_id < k /\ IsDirectory(recs[k].parent_id, recs)

InOrder(recs) == \A k \in 1..Len(recs) : WellPlaced(k, recs)

HonestWorker ==
  Fits =>
    /\ InOrder(observed)
    /\ Len(observed) < MaxU32 => w_next_id = Len(observed) + 1
    /\ \A k \in 1..Len(w_stack) : IsDirectory(w_stack[k], observed)
    /\ w_pc \in {"enumerating", "partial", "unreadable", "facts"}
         => IsDirectory(w_dir, observed)

\* The terminal record is what a worker that flushes, or ended well, has
\* written last: it has arrived, or the pipe holds it still.
LastIsTerminal ==
  \/ terminal # None
  \/ pipe # <<>> /\ pipe[Len(pipe)] \in TerminalRecords

FlushDelivers == w_pc = "flush" /\ r_pc \in Reading => LastIsTerminal
ExitDelivers == w_exit \in {0, 3} /\ r_pc \in Reading => LastIsTerminal

\* Without a worker that got past main's checks there is no header.
NoEarlyHeader ==
  w_pc \in {"unborn", "suspended", "boot"} \/ w_exit = 2 =>
    r_pc # "records" /\ \A k \in 1..Len(pipe) : pipe[k] # Header

DeliveryInv == FlushDelivers /\ ExitDelivers /\ NoEarlyHeader

AcceptedInv ==
  Fits =>
    /\ is_dense
    /\ result \in {"Ok", "MissingTerminal", "AggregateMismatch"}
    /\ result = "AggregateMismatch" => Overflowed
    /\ result = "MissingTerminal" => w_exit \in {1, CrashCode}

HonestInv == HonestWorker /\ DeliveryInv /\ AcceptedInv

---------------------------------------------------------------------------
(* Records and sequences *)

\* The kinds of stream record are told apart by their fields.
LEMMA RecordShapes ==
  /\ \A r \in EntryRecords :
       /\ "id" \in DOMAIN r /\ "outcome" \notin DOMAIN r
       /\ r # Gap /\ r # Header /\ r # Torn
  /\ \A t \in TerminalRecords :
       /\ "id" \notin DOMAIN t /\ "outcome" \in DOMAIN t
       /\ t # Gap /\ t # Header /\ t # Torn
  /\ EntryRecords \intersect TerminalRecords = {}
  /\ Gap # Header /\ Gap # Torn /\ Header # Torn
  /\ \A r \in {Gap, Header, Torn} : "id" \notin DOMAIN r /\ "outcome" \notin DOMAIN r
<1>1. ASSUME NEW r \in EntryRecords
      PROVE  DOMAIN r = {"kind", "id", "parent_id", "logical_size",
                         "allocated_size", "identity"}
  BY DEF EntryRecords
<1>2. ASSUME NEW t \in TerminalRecords
      PROVE  DOMAIN t = {"outcome", "total_directories", "total_files",
                         "total_logical_bytes", "total_allocated_bytes",
                         "coverage_gap_count"}
  BY DEF TerminalRecords
<1>3. \A r \in {Gap, Header, Torn} : DOMAIN r = {"kind"}
  BY DEF Gap, Header, Torn
<1>4. Gap # Header /\ Gap # Torn /\ Header # Torn
  <2>1. Gap.kind = "CoverageGap" /\ Header.kind = "Header" /\ Torn.kind = "Torn"
    BY DEF Gap, Header, Torn
  <2> QED BY <2>1
<1> QED BY <1>1, <1>2, <1>3, <1>4

\* A table is no longer than its parts.
LEMMA CountWithinLength ==
  ASSUME NEW recs \in Seq(EntryRecords), NEW k
  PROVE  CountIn(recs, k) \in 0..Len(recs)
<1> DEFINE S == {i \in 1..Len(recs) : recs[i].kind = k}
<1>1. Len(recs) \in Nat
  OBVIOUS
<1>2. IsFiniteSet(1..Len(recs)) /\ Cardinality(1..Len(recs)) = Len(recs)
  BY <1>1, FS_Interval, SMTT(60)
<1>3. S \in SUBSET (1..Len(recs))
  OBVIOUS
<1>4. IsFiniteSet(S) /\ Cardinality(S) <= Len(recs)
  BY <1>2, <1>3, FS_Subset
<1>5. Cardinality(S) \in Nat
  BY <1>4, FS_CardinalityType
<1>6. CountIn(recs, k) = Cardinality(S)
  BY DEF CountIn
<1> QED BY <1>1, <1>4, <1>5, <1>6

\* Remainders, as far as the counters need them.
LEMMA Remainder ==
  ASSUME NEW a \in Nat, NEW n \in Nat
  PROVE  a % (n + 1) \in 0..n /\ (a <= n => a % (n + 1) = a)
OBVIOUS

\* A write makes the stream one record longer ...
LEMMA WriteType ==
  ASSUME pipe \in Seq(StreamRecords), NEW rec \in StreamRecords, Write(rec)
  PROVE  /\ pipe' = Append(pipe, rec) /\ pipe' \in Seq(StreamRecords)
         /\ Len(pipe') = Len(pipe) + 1 /\ Len(pipe) \in Nat
         /\ \A k \in 1..Len(pipe) : pipe'[k] = pipe[k]
         /\ pipe'[Len(pipe) + 1] = rec
BY AppendProperties DEF Write

\* ... and a read one shorter.
LEMMA ReadType ==
  ASSUME NEW p \in Seq(StreamRecords), p # <<>>
  PROVE  /\ Tail(p) \in Seq(StreamRecords) /\ Len(p) \in Nat \ {0}
         /\ Len(Tail(p)) = Len(p) - 1
         /\ \A k \in 1..(Len(p) - 1) : Tail(p)[k] = p[k + 1]
         /\ Head(p) = p[1] /\ Head(p) \in StreamRecords
BY HeadTailProperties, EmptySeq

---------------------------------------------------------------------------
(* Types of the pipeline *)

\* The record the worker is about to write is one a stream may carry.
LEMMA TerminalType ==
  ASSUME PTypes, WorkerTotals, OutcomeInv, w_pc = "terminal"
  PROVE  TerminalOf(w_outcome, w_totals) \in TerminalRecords
<1>1. w_outcome \in RunOutcomes
  BY DEF OutcomeInv
<1>2. w_totals.dirs \in 0..MaxEntries /\ w_totals.files \in 0..MaxEntries
  <2>1. /\ w_totals.dirs \in 0..Len(observed)
        /\ w_totals.files \in 0..Len(observed)
    BY CountWithinLength DEF PTypes, WorkerTotals
  <2>2. Len(observed) \in Nat /\ Len(observed) <= MaxEntries
    BY DEF PTypes
  <2> QED BY <2>1, <2>2, ConstantsAssumption
<1>3. /\ w_totals.logical \in 0..MaxU64 /\ w_totals.alloc \in 0..MaxU64
      /\ w_totals.gaps \in 0..MaxGaps
  BY DEF WorkerTotals
<1> QED BY <1>1, <1>2, <1>3 DEF TerminalOf, TerminalRecords

\* What an entry does to the worker and to the stream.
LEMMA WriteEntryTypes ==
  ASSUME PTypes, NEW r \in EntryRecords, WriteEntry(r)
  PROVE  /\ observed' = Append(observed, r) /\ observed' \in Seq(EntryRecords)
         /\ Len(observed') = Len(observed) + 1 /\ Len(observed) \in Nat
         /\ \A k \in 1..Len(observed) : observed'[k] = observed[k]
         /\ observed'[Len(observed) + 1] = r
         /\ pipe' \in Seq(StreamRecords)
         /\ w_next_id' \in 0..MaxU32
<1>1. observed' = Append(observed, r) /\ observed \in Seq(EntryRecords)
  BY DEF WriteEntry, PTypes
<1>2. pipe' \in Seq(StreamRecords)
  BY WriteType DEF WriteEntry, PTypes, StreamRecords
<1>3. w_next_id' \in 0..MaxU32
  <2>1. w_next_id' = wrapping_succ(w_next_id)
    BY DEF WriteEntry
  <2>2. w_next_id + 1 \in Nat /\ MaxU32 \in Nat
    BY PipelineAssumption DEF PTypes
  <2> QED BY <2>1, <2>2, Remainder DEF wrapping_succ
<1> QED BY <1>1, <1>2, <1>3, AppendProperties

\* Types survive the worker's steps ...
LEMMA WorkerKeepsTypes ==
  ASSUME PTypes, WorkerTotals, OutcomeInv, WorkerStep
  PROVE  PTypes'
<1>1. CASE WriteFails \/ RefuseTarget \/ RefuseTargetAgain
  BY <1>1, ConstantsAssumption, SMTT(60)
  DEF WriteFails, RefuseTarget, RefuseTargetAgain, Exit, others, runner, PTypes,
      WorkerPcs, RunnerPcs, BeforeRoot, CrashCode
<1>2. CASE FlushAndExit
  <2>1. ExitCodeOf(w_outcome) \in {0, 1, 3}
    BY <1>2 DEF FlushAndExit, OutcomeInv, ExitCodeOf, RunOutcomes
  <2> HIDE DEF ExitCodeOf
  <2> QED BY <1>2, <2>1, ConstantsAssumption
          DEF FlushAndExit, Exit, others, runner, PTypes, WorkerPcs, RunnerPcs,
              BeforeRoot, CrashCode
<1>3. CASE WriteHeader
  <2>1. pipe' \in Seq(StreamRecords)
    BY <1>3, WriteType DEF WriteHeader, PTypes, StreamRecords
  <2> QED BY <1>3, <2>1
          DEF WriteHeader, Write, runner, PTypes, WorkerPcs, RunnerPcs,
              BeforeRoot
<1>4. CASE CheckTarget
  BY <1>4 DEF CheckTarget, others, runner, PTypes, WorkerPcs, RunnerPcs,
              BeforeRoot, RunOutcomes
<1>5. CASE WriteRootGap
  <2>1. pipe' \in Seq(StreamRecords)
    BY <1>5, WriteType DEF WriteRootGap, PTypes, StreamRecords
  <2> QED BY <1>5, <2>1
          DEF WriteRootGap, Write, runner, PTypes, WorkerPcs, RunnerPcs,
              BeforeRoot
<1>6. CASE WriteRoot
  <2>1. PICK r \in EntryRecords : WriteEntry(r)
    BY <1>6 DEF WriteRoot
  <2>2. /\ observed' \in Seq(EntryRecords) /\ Len(observed') <= MaxEntries
        /\ pipe' \in Seq(StreamRecords) /\ w_next_id' \in 0..MaxU32
    <3>1. Len(observed) = 0
      BY <1>6, EmptySeq DEF WriteRoot, PTypes, BeforeRoot
    <3>2. 1 <= MaxEntries
      BY PipelineAssumption, ConstantsAssumption
    <3>3. /\ observed' \in Seq(EntryRecords) /\ Len(observed') = 0 + 1
          /\ pipe' \in Seq(StreamRecords) /\ w_next_id' \in 0..MaxU32
      BY <2>1, <3>1, WriteEntryTypes
    <3> QED BY <3>2, <3>3
  <2>3. w_stack' \in Seq(Nat)
    <3>1. w_next_id \in Nat /\ w_stack' = <<w_next_id>>
      BY <1>6, PipelineAssumption DEF WriteRoot, PTypes
    <3> QED BY <3>1
  <2> QED BY <1>6, <2>1, <2>2, <2>3
          DEF WriteRoot, WriteEntry, Write, runner, PTypes, WorkerPcs,
              RunnerPcs, BeforeRoot
<1>7. CASE PopDirectory
  <2>1. w_stack' \in Seq(Nat) /\ w_dir' \in Nat
    <3>1. CASE w_stack = <<>>
      BY <1>7, <3>1 DEF PopDirectory, PTypes
    <3>2. CASE w_stack # <<>>
      <4>1. w_stack \in Seq(Nat) /\ Len(w_stack) \in Nat \ {0}
        BY <3>2, EmptySeq DEF PTypes
      <4>2. w_stack' = SubSeq(w_stack, 1, Len(w_stack) - 1)
        BY <1>7, <3>2 DEF PopDirectory
      <4>3. w_stack' \in Seq(Nat)
        BY <4>1, <4>2, SubSeqProperties
      <4>4. w_dir' \in Nat
        BY <1>7, <3>2, <4>1 DEF PopDirectory
      <4> QED BY <4>3, <4>4
    <3> QED BY <3>1, <3>2
  <2> QED BY <1>7, <2>1
          DEF PopDirectory, others, runner, PTypes, WorkerPcs, RunnerPcs,
              BeforeRoot, RunOutcomes
<1>8. CASE Enumerate
  BY <1>8 DEF Enumerate, others, runner, PTypes, WorkerPcs, RunnerPcs,
              BeforeRoot, RunOutcomes
<1>9. CASE WriteGap
  <2>1. pipe' \in Seq(StreamRecords)
    BY <1>9, WriteType DEF WriteGap, PTypes, StreamRecords
  <2> QED BY <1>9, <2>1
          DEF WriteGap, Write, runner, PTypes, WorkerPcs, RunnerPcs, BeforeRoot
<1>10. CASE WriteFact
  <2>1. PICK r \in EntryRecords :
          /\ r.id = w_next_id /\ WriteEntry(r)
          /\ w_stack' = Append(w_stack, r.id) \/ w_stack' = w_stack
    BY <1>10 DEF WriteFact
  <2>2. /\ observed' \in Seq(EntryRecords) /\ Len(observed') <= MaxEntries
        /\ pipe' \in Seq(StreamRecords) /\ w_next_id' \in 0..MaxU32
    BY <1>10, <2>1, WriteEntryTypes, ConstantsAssumption DEF WriteFact
  <2>3. w_stack' \in Seq(Nat)
    <3>1. r.id \in Nat /\ w_stack \in Seq(Nat)
      BY EntryRecordFields DEF PTypes
    <3> QED BY <2>1, <3>1, AppendProperties, SMTT(60)
  <2> QED BY <1>10, <2>1, <2>2, <2>3
          DEF WriteFact, WriteEntry, Write, runner, PTypes, WorkerPcs,
              RunnerPcs, BeforeRoot
<1>11. CASE EndOfFacts
  BY <1>11 DEF EndOfFacts, others, runner, PTypes, WorkerPcs, RunnerPcs,
               BeforeRoot
<1>12. CASE WriteTerminal
  <2>1. TerminalOf(w_outcome, w_totals) \in TerminalRecords
    BY <1>12, TerminalType DEF WriteTerminal
  <2>2. pipe' \in Seq(StreamRecords)
    BY <1>12, <2>1, WriteType
    DEF WriteTerminal, TerminalOf, PTypes, StreamRecords
  <2> QED BY <1>12, <2>2
          DEF WriteTerminal, Write, runner, PTypes, WorkerPcs, RunnerPcs,
              BeforeRoot
<1> QED BY <1>1, <1>2, <1>3, <1>4, <1>5, <1>6, <1>7, <1>8, <1>9, <1>10, <1>11,
           <1>12 DEF WorkerStep

\* Killing the worker ends it and touches nothing else of it.
LEMMA KillEnds ==
  ASSUME PTypes, NEW code, Kill(code)
  PROVE  /\ UNCHANGED <<w_stack, w_dir, w_next_id, w_totals, w_outcome,
                        observed>>
         /\ \/ w_pc \in {"unborn", "exited"} /\ UNCHANGED <<w_pc, w_exit>>
            \/ /\ w_pc \notin {"unborn", "exited"} /\ w_pc' = "exited"
               /\ w_exit = None /\ w_exit' = code
BY DEF Kill, WorkerAlive, Exit, worker, PTypes

\* The steps that end the call, or the engine with it.
Ending ==
  LaunchFails \/ WaitAfterHeader \/ WaitForExit \/ WaitTimesOut \/ EngineDies

\* They end the worker, unless no job has it: then the failed launch does, and
\* the engine's death does not.
LEMMA EndOfCall ==
  ASSUME PTypes, Ending
  PROVE  /\ UNCHANGED <<vars, cancelled, pipe, confined>>
         /\ UNCHANGED <<w_stack, w_dir, w_next_id, w_totals, w_outcome,
                        observed>>
         /\ r_pc' \in {"done", "dead"}
         /\ \/ UNCHANGED <<w_pc, w_exit>>
            \/ /\ w_pc \notin {"unborn", "exited"} /\ w_pc' = "exited"
               /\ w_exit = None /\ w_exit' \in {1, CrashCode}
         /\ confined \/ LaunchFails => w_pc' \in {"unborn", "exited"}
         /\ r_pc' = "dead" => EngineDies
<1>1. \E pc \in {"done", "dead"} : \E res : Leave(pc, res)
  BY DEF Ending, LaunchFails, WaitAfterHeader, WaitForExit, WaitTimesOut,
         EngineDies, Return
<1>2. /\ UNCHANGED <<vars, cancelled, pipe, confined>>
      /\ r_pc' \in {"done", "dead"}
  BY <1>1 DEF Leave
<1>3. r_pc' = "dead" => EngineDies
  BY DEF Ending, LaunchFails, WaitAfterHeader, WaitForExit, WaitTimesOut,
         Return, Leave
<1>4. (LaunchFails /\ Kill(1)) \/ CloseJob
  BY DEF Ending, LaunchFails, WaitAfterHeader, WaitForExit, WaitTimesOut,
         EngineDies, Return
<1>5. CASE LaunchFails /\ Kill(1)
  BY <1>2, <1>3, <1>5, KillEnds
<1>6. CASE CloseJob /\ confined
  <2>1. Kill(CrashCode)
    BY <1>6 DEF CloseJob
  <2> QED BY <1>2, <1>3, <2>1, KillEnds
<1>7. CASE CloseJob /\ ~confined /\ ~LaunchFails
  <2>1. UNCHANGED worker
    BY <1>7 DEF CloseJob
  <2> QED BY <1>2, <1>3, <1>7, <2>1 DEF worker
<1> QED BY <1>4, <1>5, <1>6, <1>7 DEF LaunchFails

\* The launch as far as it goes well.
Starting == CreateWorker \/ CreateJob \/ AssignWorker \/ ResumeWorker

\* It creates the worker, which sleeps, and wakes it.
LEMMA StartOfCall ==
  ASSUME OrphanInv, Starting
  PROVE  /\ UNCHANGED <<vars, cancelled, pipe, r_result>>
         /\ UNCHANGED <<w_stack, w_dir, w_next_id, w_totals, w_outcome, w_exit,
                        observed>>
         /\ r_pc \in LaunchCalls
         /\ r_pc' \in {"job", "assign", "resume", "header"}
         /\ \/ w_pc' = w_pc
            \/ w_pc = "unborn" /\ w_pc' = "suspended"
            \/ w_pc = "suspended" /\ w_pc' = "boot"
<1>1. CASE CreateWorker
  BY <1>1 DEF CreateWorker, OrphanInv, LaunchCalls
<1>2. CASE CreateJob \/ AssignWorker
  BY <1>2 DEF CreateJob, AssignWorker, worker, LaunchCalls
<1>3. CASE ResumeWorker
  BY <1>3 DEF ResumeWorker, OrphanInv, WorkerAlive, LaunchCalls
<1> QED BY <1>1, <1>2, <1>3 DEF Starting

\* ... and those of the others.
LEMMA OthersKeepTypes ==
  ASSUME PTypes, OutcomeInv, OrphanInv,
         RunnerStep \/ FlushIgnored \/ Crash \/ SignalCancel \/ EngineDies
  PROVE  PTypes'
<1>1. CASE Ending
  <2>1. /\ UNCHANGED <<pipe, confined>>
        /\ UNCHANGED <<w_stack, w_dir, w_next_id, w_totals, w_outcome, observed>>
        /\ r_pc' \in {"done", "dead"}
        /\ \/ UNCHANGED <<w_pc, w_exit>>
           \/ w_pc' = "exited" /\ w_exit' \in {1, CrashCode}
    BY <1>1, EndOfCall
  <2> QED BY <2>1, ConstantsAssumption, SMTT(60)
          DEF PTypes, WorkerPcs, RunnerPcs, BeforeRoot, CrashCode
<1>2. CASE Starting
  <2>1. /\ UNCHANGED <<pipe, w_stack, w_dir, w_next_id, w_totals, w_outcome,
                       w_exit, observed>>
        /\ r_pc' \in {"job", "assign", "resume", "header"}
        /\ \/ w_pc' = w_pc
           \/ w_pc = "unborn" /\ w_pc' = "suspended"
           \/ w_pc = "suspended" /\ w_pc' = "boot"
    BY <1>2, StartOfCall
  <2>2. confined' \in BOOLEAN
    BY <1>2 DEF Starting, CreateWorker, CreateJob, AssignWorker, ResumeWorker,
                PTypes
  <2> QED BY <2>1, <2>2, SMTT(60)
          DEF PTypes, WorkerPcs, RunnerPcs, BeforeRoot, Drained, LaunchCalls
<1>3. CASE FlushIgnored
  <2>1. ExitCodeOf(w_outcome) \in {0, 1, 3}
    BY <1>3 DEF FlushIgnored, OutcomeInv, ExitCodeOf, RunOutcomes
  <2> HIDE DEF ExitCodeOf
  <2> QED BY <1>3, <2>1, ConstantsAssumption
          DEF FlushIgnored, Exit, others, runner, PTypes, WorkerPcs, RunnerPcs,
              BeforeRoot, CrashCode
<1>4. CASE ReadHeader \/ ReadRecord \/ ReadTorn \/ ReadEnd
  <2>1. pipe' = pipe \/ (pipe # <<>> /\ pipe' = Tail(pipe))
    BY <1>4 DEF ReadHeader, ReadRecord, ReadTorn, ReadEnd, NextIs
  <2>2. pipe' \in Seq(StreamRecords)
    BY <2>1, ReadType DEF PTypes
  <2>3. r_pc' \in RunnerPcs
    BY <1>4 DEF ReadHeader, ReadRecord, ReadTorn, ReadEnd, StopReading,
                RunnerPcs, Drained
  <2>4. UNCHANGED <<worker, confined>>
    BY <1>4 DEF ReadHeader, ReadRecord, ReadTorn, ReadEnd
  <2> QED BY <2>2, <2>3, <2>4 DEF PTypes, worker
<1>5. CASE Crash
  <2>1. pipe' \in Seq(StreamRecords)
    <3>1. pipe' = pipe \/ pipe' = Append(pipe, Torn)
      BY <1>5 DEF Crash
    <3>2. pipe \in Seq(StreamRecords) /\ Torn \in StreamRecords
      BY DEF PTypes, StreamRecords
    <3> QED BY <3>1, <3>2, AppendProperties
  <2> QED BY <1>5, <2>1, ConstantsAssumption
          DEF Crash, WorkerAlive, Exit, runner, PTypes, WorkerPcs, RunnerPcs,
              BeforeRoot, CrashCode
<1>6. CASE SignalCancel
  BY <1>6 DEF SignalCancel, PTypes, worker, runner
<1> QED BY <1>1, <1>2, <1>3, <1>4, <1>5, <1>6 DEF RunnerStep, Ending, Starting

---------------------------------------------------------------------------
(* The worker's counters and its outcome *)

\* What an entry adds to the counters.
LEMMA WriteEntryTotals ==
  ASSUME WorkerTotals, NEW r \in EntryRecords, WriteEntry(r)
  PROVE  /\ w_totals'.dirs =
              w_totals.dirs + IF r.kind = "Directory" THEN 1 ELSE 0
         /\ w_totals'.files = w_totals.files + IF r.kind = "File" THEN 1 ELSE 0
         /\ w_totals'.logical = wrapping_add(w_totals.logical, r.logical_size)
         /\ w_totals'.alloc =
              wrapping_add(w_totals.alloc, unwrap_or_zero(r.allocated_size))
         /\ w_totals'.gaps = w_totals.gaps
         /\ w_totals' \in [dirs : Nat, files : Nat, logical : 0..MaxU64,
                           alloc : 0..MaxU64, gaps : 0..MaxGaps]
<1>1. PICK d, f, l, a, g :
        /\ d = w_totals.dirs + IF r.kind = "Directory" THEN 1 ELSE 0
        /\ f = w_totals.files + IF r.kind = "File" THEN 1 ELSE 0
        /\ l = wrapping_add(w_totals.logical, r.logical_size)
        /\ a = wrapping_add(w_totals.alloc, unwrap_or_zero(r.allocated_size))
        /\ g = w_totals.gaps
  OBVIOUS
<1>2. w_totals \in [dirs : Nat, files : Nat, logical : 0..MaxU64,
                    alloc : 0..MaxU64, gaps : 0..MaxGaps]
  BY DEF WorkerTotals
<1>3. d \in Nat /\ f \in Nat /\ l \in 0..MaxU64 /\ a \in 0..MaxU64
      /\ g \in 0..MaxGaps
  <2>1. r.logical_size \in Nat /\ unwrap_or_zero(r.allocated_size) \in Nat
    BY SizesOfRecord
  <2>2. /\ w_totals.logical + r.logical_size \in Nat
        /\ w_totals.alloc + unwrap_or_zero(r.allocated_size) \in Nat
    BY <1>2, <2>1, ConstantsAssumption
  <2>3. l \in 0..MaxU64 /\ a \in 0..MaxU64
    BY <1>1, <2>2, Remainder, ConstantsAssumption DEF wrapping_add
  <2> QED BY <1>1, <1>2, <2>3
<1>4. w_totals' = [w_totals EXCEPT !.dirs = d, !.files = f, !.logical = l,
                                   !.alloc = a]
  <2>1. /\ d = IF r.kind = "Directory" THEN w_totals.dirs + 1
               ELSE w_totals.dirs
        /\ f = IF r.kind = "File" THEN w_totals.files + 1 ELSE w_totals.files
    BY <1>1, <1>2
  <2> QED BY <1>1, <2>1, Zenon DEF WriteEntry
<1>5. w_totals' = [dirs |-> d, files |-> f, logical |-> l, alloc |-> a,
                   gaps |-> g]
  BY <1>1, <1>2, <1>4
<1> QED BY <1>1, <1>3, <1>5

\* A counter that wraps is exact until the sum leaves the range.
LEMMA WrappingSum ==
  ASSUME NEW counter, NEW sum \in Nat, NEW x \in Nat,
         sum <= MaxU64 => counter = sum
  PROVE  sum + x <= MaxU64 => wrapping_add(counter, x) = sum + x
<1> SUFFICES ASSUME sum + x <= MaxU64
             PROVE  wrapping_add(counter, x) = sum + x
  OBVIOUS
<1>1. counter = sum /\ sum + x \in Nat
  BY ConstantsAssumption
<1> QED BY <1>1, Remainder, ConstantsAssumption DEF wrapping_add

\* The counters follow the entries written.
LEMMA WriteEntryKeepsTotals ==
  ASSUME PTypes, WorkerTotals, NEW r \in EntryRecords, WriteEntry(r),
         w_pc' \notin {"rootgap", "partial", "unreadable"}
  PROVE  WorkerTotals'
<1>1. /\ observed \in Seq(EntryRecords) /\ observed' = Append(observed, r)
      /\ r.logical_size \in Nat /\ unwrap_or_zero(r.allocated_size) \in Nat
  BY SizesOfRecord DEF PTypes, WriteEntry
<1>2. /\ w_totals'.dirs = CountIn(observed', "Directory")
      /\ w_totals'.files = CountIn(observed', "File")
  BY <1>1, WriteEntryTotals, CountOfAppend, SMTT(60) DEF WorkerTotals
<1>3. PICK L, A : /\ L = SumOf(LogicalSizes(observed))
                  /\ A = SumOf(AllocatedSizes(observed))
  OBVIOUS
<1>4. /\ L \in Nat /\ A \in Nat
      /\ SumOf(LogicalSizes(observed')) = L + r.logical_size
      /\ SumOf(AllocatedSizes(observed'))
           = A + unwrap_or_zero(r.allocated_size)
  BY <1>1, <1>3, SizesOfAppend
<1>5. /\ L <= MaxU64 => w_totals.logical = L
      /\ A <= MaxU64 => w_totals.alloc = A
  BY <1>3 DEF WorkerTotals
<1>6. SumOf(LogicalSizes(observed')) <= MaxU64 =>
        w_totals'.logical = SumOf(LogicalSizes(observed'))
  <2>1. w_totals'.logical = wrapping_add(w_totals.logical, r.logical_size)
    BY WriteEntryTotals
  <2>2. L + r.logical_size <= MaxU64 =>
          wrapping_add(w_totals.logical, r.logical_size) = L + r.logical_size
    BY <1>1, <1>4, <1>5, WrappingSum
  <2> QED BY <1>4, <2>1, <2>2
<1>7. SumOf(AllocatedSizes(observed')) <= MaxU64 =>
        w_totals'.alloc = SumOf(AllocatedSizes(observed'))
  <2>1. w_totals'.alloc = wrapping_add(w_totals.alloc, unwrap_or_zero(r.allocated_size))
    BY WriteEntryTotals
  <2>2. A + unwrap_or_zero(r.allocated_size) <= MaxU64 =>
          wrapping_add(w_totals.alloc, unwrap_or_zero(r.allocated_size)) = A + unwrap_or_zero(r.allocated_size)
    BY <1>1, <1>4, <1>5, WrappingSum
  <2> QED BY <1>4, <2>1, <2>2
<1> QED BY <1>2, <1>6, <1>7, WriteEntryTotals DEF WorkerTotals

\* A gap adds one to the gaps, of which there was room for one.
LEMMA CountGapKeepsTotals ==
  ASSUME WorkerTotals, CountGap, observed' = observed,
         w_pc \in {"rootgap", "partial", "unreadable"},
         w_pc' \notin {"rootgap", "partial", "unreadable"}
  PROVE  WorkerTotals' /\ w_totals'.gaps = w_totals.gaps + 1
<1>1. /\ w_totals' = [w_totals EXCEPT !.gaps = w_totals.gaps + 1]
      /\ w_totals \in [dirs : Nat, files : Nat, logical : 0..MaxU64,
                       alloc : 0..MaxU64, gaps : 0..MaxGaps]
      /\ w_totals.gaps < MaxGaps
  BY DEF CountGap, WorkerTotals
<1>2. w_totals.gaps + 1 \in 0..MaxGaps
  BY <1>1, ConstantsAssumption
<1>3. /\ w_totals' \in [dirs : Nat, files : Nat, logical : 0..MaxU64,
                        alloc : 0..MaxU64, gaps : 0..MaxGaps]
      /\ w_totals'.dirs = w_totals.dirs /\ w_totals'.files = w_totals.files
      /\ w_totals'.logical = w_totals.logical
      /\ w_totals'.alloc = w_totals.alloc
      /\ w_totals'.gaps = w_totals.gaps + 1
  BY <1>1, <1>2
<1> QED BY <1>3 DEF WorkerTotals

\* Every step that writes no entry and no gap leaves the counters alone.
LEMMA UntouchedTotals ==
  ASSUME WorkerTotals, UNCHANGED <<w_totals, observed>>,
         \/ w_pc' = w_pc
         \/ w_pc' \notin {"rootgap", "partial", "unreadable"}
         \/ w_totals.gaps < MaxGaps
  PROVE  WorkerTotals'
BY DEF WorkerTotals

\* The counters are right after every step.
LEMMA StepKeepsTotals ==
  ASSUME PTypes, WorkerTotals, OrphanInv, PNext
  PROVE  WorkerTotals'
<1>1. CASE WriteFails \/ RefuseTarget \/ RefuseTargetAgain \/ FlushAndExit
           \/ FlushIgnored \/ Crash
  BY <1>1, UntouchedTotals
  DEF WriteFails, RefuseTarget, RefuseTargetAgain, FlushAndExit, FlushIgnored,
      Crash, Exit
<1>2. CASE WriteHeader \/ PopDirectory \/ EndOfFacts \/ WriteTerminal
  BY <1>2, UntouchedTotals
  DEF WriteHeader, PopDirectory, EndOfFacts, WriteTerminal
<1>3. CASE CheckTarget
  <2>1. w_totals.gaps = 0
    BY <1>3 DEF CheckTarget, PTypes, BeforeRoot
  <2> QED BY <1>3, <2>1, UntouchedTotals DEF CheckTarget
<1>4. CASE Enumerate
  BY <1>4, UntouchedTotals DEF Enumerate
<1>5. CASE WriteRootGap
  BY <1>5, CountGapKeepsTotals DEF WriteRootGap
<1>6. CASE WriteGap
  BY <1>6, CountGapKeepsTotals DEF WriteGap
<1>7. CASE WriteRoot
  BY <1>7, WriteEntryKeepsTotals DEF WriteRoot
<1>8. CASE WriteFact
  BY <1>8, WriteEntryKeepsTotals DEF WriteFact
<1>9. CASE Ending
  BY <1>9, EndOfCall, UntouchedTotals
<1>10. CASE Starting
  BY <1>10, StartOfCall, UntouchedTotals
<1>11. CASE ReadHeader \/ ReadRecord \/ ReadTorn \/ ReadEnd \/ SignalCancel
  BY <1>11, UntouchedTotals
  DEF ReadHeader, ReadRecord, ReadTorn, ReadEnd, SignalCancel, worker
<1> QED BY <1>1, <1>2, <1>3, <1>4, <1>5, <1>6, <1>7, <1>8, <1>9, <1>10, <1>11
        DEF PNext, WorkerStep, RunnerStep, Ending, Starting

\* An entry written is an entry observed.
LEMMA SomethingObserved ==
  ASSUME PTypes, NEW r \in EntryRecords, WriteEntry(r)
  PROVE  observed' # <<>>
<1>1. observed \in Seq(EntryRecords) /\ observed' = Append(observed, r)
  BY DEF PTypes, WriteEntry
<1> QED BY <1>1, AppendProperties

\* The outcome is chosen when the traversal stops and stays, and so does the
\* reason for it.
LEMMA StepKeepsOutcome ==
  ASSUME PTypes, OutcomeInv, OrphanInv, PNext
  PROVE  OutcomeInv'
<1>1. ASSUME UNCHANGED <<w_outcome, w_stack, observed, cancelled>>,
             w_pc' = w_pc \/ w_pc' = "exited"
      PROVE  OutcomeInv'
  BY <1>1 DEF OutcomeInv, Traversing
<1>2. CASE WriteFails \/ RefuseTarget \/ RefuseTargetAgain \/ FlushAndExit
           \/ FlushIgnored \/ Crash
  BY <1>1, <1>2
  DEF WriteFails, RefuseTarget, RefuseTargetAgain, FlushAndExit, FlushIgnored,
      Crash, Exit, others
<1>3. CASE WriteHeader
  BY <1>3 DEF WriteHeader, Write, OutcomeInv, Traversing
<1>4. CASE CheckTarget
  BY <1>4 DEF CheckTarget, others, OutcomeInv, Traversing, RunOutcomes
<1>5. CASE WriteRootGap
  BY <1>5 DEF WriteRootGap, Write, OutcomeInv, Traversing
<1>6. CASE WriteRoot
  <2>1. observed' # <<>>
    BY <1>6, SomethingObserved DEF WriteRoot
  <2>2. w_outcome' = None /\ w_pc' = "pop"
    BY <1>6 DEF WriteRoot, OutcomeInv
  <2> QED BY <2>1, <2>2, PipelineAssumption DEF OutcomeInv, RunOutcomes
<1>7. CASE PopDirectory
  <2>1. w_outcome = None /\ observed # <<>> /\ observed' = observed
        /\ cancelled' = cancelled
    BY <1>7 DEF PopDirectory, OutcomeInv, Traversing, others
  <2>2. CASE w_stack = <<>>
    BY <1>7, <2>1, <2>2 DEF PopDirectory, OutcomeInv, Traversing, RunOutcomes
  <2>3. CASE w_stack # <<>> /\ cancelled
    BY <1>7, <2>1, <2>3 DEF PopDirectory, OutcomeInv, Traversing, RunOutcomes
  <2>4. CASE w_stack # <<>> /\ ~cancelled
    <3>1. w_outcome' = None /\ w_pc' = "enumerating"
      BY <1>7, <2>1, <2>4 DEF PopDirectory
    <3> QED BY <2>1, <3>1, PipelineAssumption
            DEF OutcomeInv, Traversing, RunOutcomes
  <2> QED BY <2>2, <2>3, <2>4
<1>8. CASE Enumerate
  BY <1>8 DEF Enumerate, others, OutcomeInv, Traversing, RunOutcomes
<1>9. CASE WriteGap
  BY <1>9 DEF WriteGap, Write, OutcomeInv, Traversing
<1>10. CASE WriteFact
  <2>1. observed' # <<>>
    BY <1>10, SomethingObserved DEF WriteFact
  <2>2. w_outcome' = None /\ w_pc' = "facts"
    BY <1>10 DEF WriteFact, OutcomeInv
  <2> QED BY <2>1, <2>2, PipelineAssumption DEF OutcomeInv, RunOutcomes
<1>11. CASE EndOfFacts
  BY <1>11 DEF EndOfFacts, others, OutcomeInv, Traversing
<1>12. CASE WriteTerminal
  BY <1>12 DEF WriteTerminal, Write, OutcomeInv, Traversing
<1>13. CASE Ending
  BY <1>1, <1>13, EndOfCall
<1>14. CASE Starting
  <2>1. /\ UNCHANGED <<w_outcome, w_stack, observed, cancelled>>
        /\ \/ w_pc' = w_pc
           \/ {w_pc, w_pc'} \subseteq {"unborn", "suspended", "boot"}
    BY <1>14, StartOfCall
  <2> QED BY <2>1 DEF OutcomeInv, Traversing
<1>15. CASE ReadHeader \/ ReadRecord \/ ReadTorn \/ ReadEnd
  BY <1>1, <1>15 DEF ReadHeader, ReadRecord, ReadTorn, ReadEnd, worker
<1>16. CASE SignalCancel
  BY <1>16 DEF SignalCancel, worker, OutcomeInv
<1> QED BY <1>2, <1>3, <1>4, <1>5, <1>6, <1>7, <1>8, <1>9, <1>10, <1>11, <1>12,
           <1>13, <1>14, <1>15, <1>16
        DEF PNext, WorkerStep, RunnerStep, Ending, Starting

\* A worker is created asleep, wakes in the job, and is gone when the call
\* returns or the engine that holds the job dies.
LEMMA StepKeepsOrphans ==
  ASSUME PTypes, OrphanInv, PNext
  PROVE  OrphanInv'
<1>1. CASE WorkerStep \/ FlushIgnored \/ Crash
  <2>1. UNCHANGED <<r_pc, confined>>
    BY <1>1, ZenonT(60)
    DEF WorkerStep, WriteFails, RefuseTarget, WriteHeader, RefuseTargetAgain,
        CheckTarget, WriteRootGap, WriteRoot, PopDirectory, Enumerate, WriteGap,
        WriteFact, EndOfFacts, WriteTerminal, FlushAndExit, FlushIgnored, Crash,
        others, runner, Write, WriteEntry
  <2>2. \/ w_pc' = "exited" /\ w_pc # "unborn"
        \/ /\ w_pc \notin {"unborn", "suspended", "exited"}
           /\ w_pc' \notin {"unborn", "suspended"}
    BY <1>1
    DEF WorkerStep, WriteFails, RefuseTarget, WriteHeader, RefuseTargetAgain,
        CheckTarget, WriteRootGap, WriteRoot, PopDirectory, Enumerate, WriteGap,
        WriteFact, EndOfFacts, WriteTerminal, FlushAndExit, FlushIgnored, Crash,
        Exit, Writing, WorkerAlive
  <2>3. r_pc \in RunnerPcs
    BY DEF PTypes
  <2> QED BY <2>1, <2>2, <2>3, SMTT(60)
          DEF OrphanInv, RunnerPcs, LaunchCalls, Drained
<1>2. CASE SignalCancel
  BY <1>2 DEF SignalCancel, worker, runner, OrphanInv
<1>3. CASE CreateWorker
  BY <1>3 DEF CreateWorker, OrphanInv, Drained
<1>4. CASE CreateJob \/ AssignWorker
  BY <1>4 DEF CreateJob, AssignWorker, worker, OrphanInv, Drained
<1>5. CASE ResumeWorker
  BY <1>5 DEF ResumeWorker, WorkerAlive, OrphanInv, Drained
<1>6. CASE LaunchFails \/ WaitAfterHeader \/ WaitForExit \/ WaitTimesOut
  <2>1. Ending /\ r_pc' = "done"
    BY <1>6 DEF Ending, LaunchFails, WaitAfterHeader, WaitForExit, WaitTimesOut,
                Return, Leave
  <2>2. confined \/ LaunchFails
    BY <1>6 DEF WaitAfterHeader, WaitForExit, WaitTimesOut, OrphanInv, Drained
  <2>3. w_pc' \in {"unborn", "exited"}
    BY <2>1, <2>2, EndOfCall
  <2> QED BY <2>1, <2>3 DEF OrphanInv, Drained
<1>7. CASE EngineDies
  <2>1. /\ r_pc' = "dead" /\ confined' = confined
        /\ r_pc \notin {"done", "dead"} /\ CloseJob
    BY <1>7 DEF EngineDies, Leave
  <2>2. CASE confined
    <3>1. w_pc' \in {"unborn", "exited"}
      BY <1>7, <2>2, EndOfCall DEF Ending
    <3> QED BY <2>1, <3>1 DEF OrphanInv, Drained
  <2>3. CASE ~confined
    <3>1. w_pc' = w_pc
      BY <2>1, <2>3 DEF CloseJob, worker
    <3>2. r_pc \in {"launch", "job", "assign"}
      BY <2>1, <2>3 DEF OrphanInv, PTypes, RunnerPcs, LaunchCalls
    <3> QED BY <2>1, <2>3, <3>1, <3>2 DEF OrphanInv, Drained
  <2> QED BY <2>2, <2>3
<1>8. CASE ReadHeader \/ ReadRecord \/ ReadTorn \/ ReadEnd
  <2>1. UNCHANGED <<worker, confined>> /\ r_pc \in Drained /\ r_pc' \in Drained
    BY <1>8 DEF ReadHeader, ReadRecord, ReadTorn, ReadEnd, StopReading, Drained
  <2> QED BY <2>1 DEF worker, OrphanInv, Drained
<1> QED BY <1>1, <1>2, <1>3, <1>4, <1>5, <1>6, <1>7, <1>8 DEF PNext, RunnerStep

\* The worker's own invariant holds of every scan.
THEOREM WorkerInvariant == PSpec => []WorkerInv
<1>1. PInit => WorkerInv
  <2> SUFFICES ASSUME PInit PROVE WorkerInv
    OBVIOUS
  <2>1. PTypes
    <3>1. 1 \in 0..MaxU32 /\ <<>> \in Seq(Nat) /\ <<>> \in Seq(EntryRecords)
          /\ <<>> \in Seq(StreamRecords)
      BY PipelineAssumption, EmptySeq
    <3>2. Len(observed) <= MaxEntries
      BY EmptySeq, PipelineAssumption, ConstantsAssumption DEF PInit
    <3>3. w_totals.gaps = 0
      BY DEF PInit, ZeroTotals
    <3>4. w_dir \in Nat /\ w_exit = None
      BY DEF PInit, NIL
    <3> QED BY <3>1, <3>2, <3>3, <3>4
            DEF PInit, PTypes, WorkerPcs, RunnerPcs, LaunchCalls, BeforeRoot
  <2>2. WorkerTotals
    BY NothingCounted, ConstantsAssumption DEF PInit, WorkerTotals, ZeroTotals
  <2>3. OutcomeInv /\ OrphanInv
    BY PipelineAssumption
    DEF PInit, OutcomeInv, OrphanInv, Drained, Traversing, RunOutcomes
  <2> QED BY <2>1, <2>2, <2>3 DEF WorkerInv
<1>2. WorkerInv /\ [PNext]_pvars => WorkerInv'
  <2> SUFFICES ASSUME WorkerInv, [PNext]_pvars PROVE WorkerInv'
    OBVIOUS
  <2>1. CASE PNext
    <3>1. PTypes'
      BY <2>1, WorkerKeepsTypes, OthersKeepTypes DEF PNext, WorkerInv
    <3> QED BY <2>1, <3>1, StepKeepsTotals, StepKeepsOutcome, StepKeepsOrphans
            DEF WorkerInv
  <2>2. CASE UNCHANGED pvars
    <3>1. UNCHANGED <<w_pc, r_pc, w_stack, w_dir, w_next_id, w_totals, w_outcome,
                      w_exit, observed, pipe, cancelled, confined>>
      BY <2>2 DEF pvars, worker, runner
    <3>2. PTypes'
      BY <3>1 DEF WorkerInv, PTypes
    <3> QED BY <3>1, <3>2 DEF WorkerInv, WorkerTotals, OutcomeInv, OrphanInv
  <2> QED BY <2>1, <2>2
<1> QED BY <1>1, <1>2, PTL DEF PSpec

---------------------------------------------------------------------------
(* The builder inside the pipeline *)

\* What stands at the head of the pipe is offered to the builder as what it
\* is.
LEMMA HeadOffered ==
  ASSUME PTypes, ReadRecord
  PROVE  /\ Head(pipe) \in StreamRecords
         /\ \/ terminal # None /\ record_after_terminal
            \/ Head(pipe) \in TerminalRecords /\ ingest_terminal(Head(pipe))
            \/ Head(pipe) = Gap /\ ingest_gap
            \/ Head(pipe) \in EntryRecords /\
                 \/ ingest_directory(Head(pipe)) \/ ingest_file(Head(pipe))
                 \/ ingest_special(Head(pipe)) \/ reject_entry(Head(pipe))
<1>1. PICK rec : rec = Head(pipe)
  OBVIOUS
<1>2. rec \in StreamRecords
  BY <1>1, ReadType DEF ReadRecord, PTypes
<1>3. /\ "outcome" \in DOMAIN rec => rec \in TerminalRecords
      /\ "id" \in DOMAIN rec => rec \in EntryRecords
  BY <1>2, RecordShapes DEF StreamRecords
<1>4. IngestHead(rec)
  BY <1>1 DEF ReadRecord
<1> QED BY <1>1, <1>2, <1>3, <1>4 DEF IngestHead

\* Every step of a scan is a step of the builder or leaves it alone.
LEMMA ScanStepsBuilder ==
  ASSUME PTypes, [PNext]_pvars
  PROVE  [Next]_vars
<1>1. CASE WorkerStep \/ FlushIgnored \/ Crash \/ SignalCancel
  BY <1>1
  DEF WorkerStep, WriteFails, RefuseTarget, WriteHeader, RefuseTargetAgain,
      CheckTarget, WriteRootGap, WriteRoot, PopDirectory, Enumerate, WriteGap,
      WriteFact, EndOfFacts, WriteTerminal, FlushAndExit, FlushIgnored, Crash,
      SignalCancel, others, Write, WriteEntry
<1>2. CASE Ending
  BY <1>2, EndOfCall
<1>3. CASE CreateWorker \/ CreateJob \/ AssignWorker \/ ResumeWorker
           \/ ReadHeader \/ ReadTorn
  BY <1>3 DEF CreateWorker, CreateJob, AssignWorker, ResumeWorker, ReadHeader,
              ReadTorn
<1>4. CASE ReadEnd
  BY <1>4 DEF ReadEnd, Next
<1>5. CASE ReadRecord
  BY <1>5, HeadOffered DEF Next
<1>6. CASE UNCHANGED pvars
  BY <1>6 DEF pvars
<1> QED BY <1>1, <1>2, <1>3, <1>4, <1>5, <1>6, SMTT(60)
        DEF PNext, RunnerStep, Ending

\* The builder that drains a scan's stream behaves as GraphBuilder says:
\* everything proved of the table, its index, its lists, its tree and its
\* totals holds of every scan (build_from_reader_with_progress).
THEOREM ScanDrivesBuilder == PSpec => Spec
<1>1. PInit => Init
  BY DEF PInit
<1>2. WorkerInv /\ [PNext]_pvars => [Next]_vars
  BY ScanStepsBuilder DEF WorkerInv
<1> QED BY <1>1, <1>2, WorkerInvariant, PTL DEF PSpec, Spec

---------------------------------------------------------------------------
(* The stream in transit *)

\* At first there is nothing to follow ...
LEMMA TransitStart == Follows(<<>>, <<>>, <<>>, 0, 0)
<1>1. Len(<<>>) = 0
  BY EmptySeq
<1>2. PICK e : e = [k \in 0..0 |-> 0]
  OBVIOUS
<1>3. e \in [0..Len(<<>>) -> 0..Len(<<>>)] /\ e \in [0..Len(<<>>) -> 0..0]
  BY <1>1, <1>2
<1>4. CountsTransit(e, e, <<>>, <<>>, <<>>, 0, 0)
  BY <1>1, <1>2 DEF CountsTransit
<1> QED BY <1>3, <1>4 DEF Follows

\* ... and when the pipe is empty everything has arrived.
LEMMA TransitEnd ==
  ASSUME NEW ent \in Seq(EntryRecords), NEW obs \in Seq(EntryRecords),
         NEW g0, NEW g1, Follows(<<>>, ent, obs, g0, g1)
  PROVE  ent = obs /\ g0 = g1
<1>1. Len(<<>>) = 0
  BY EmptySeq
<1>2. /\ Len(ent) = Len(obs) /\ g0 = g1
      /\ \A k \in 1..Len(ent) : obs[k] = ent[k]
  BY <1>1 DEF Follows, CountsTransit
<1> QED BY <1>2, SeqEqual

\* A written entry is observed and in transit.
LEMMA TransitEntryWritten ==
  ASSUME NEW p \in Seq(StreamRecords), NEW obs \in Seq(EntryRecords),
         NEW ent \in Seq(EntryRecords), NEW g0, NEW g1 \in Nat,
         Follows(p, ent, obs, g0, g1), NEW r \in EntryRecords
  PROVE  Follows(Append(p, r), ent, Append(obs, r), g0, g1)
<1>1. PICK e \in [0..Len(p) -> 0..Len(obs)], g \in [0..Len(p) -> 0..g1] :
        CountsTransit(e, g, p, ent, obs, g0, g1)
  BY DEF Follows
<1>2. PICK n, m, q, os : n = Len(p) /\ m = Len(obs) /\ q = Append(p, r)
                         /\ os = Append(obs, r)
  OBVIOUS
<1>3. /\ n \in Nat /\ Len(q) = n + 1 /\ q[n + 1] = r
      /\ \A k \in 1..n : q[k] = p[k]
      /\ m \in Nat /\ Len(os) = m + 1 /\ os[m + 1] = r
      /\ \A k \in 1..m : os[k] = obs[k]
  BY <1>2, AppendProperties DEF StreamRecords
<1>4. PICK e2 : e2 = [k \in 0..(n + 1) |-> IF k = n + 1 THEN m + 1 ELSE e[k]]
  OBVIOUS
<1>5. PICK g2 : g2 = [k \in 0..(n + 1) |-> IF k = n + 1 THEN g1 ELSE g[k]]
  OBVIOUS
<1>6. /\ e[0] = Len(ent) /\ e[n] = m /\ g[0] = g0 /\ g[n] = g1
      /\ \A k \in 0..n : e[k] \in 0..m /\ g[k] \in 0..g1
      /\ \A k \in 1..Len(ent) : obs[k] = ent[k]
      /\ \A k \in 1..n :
           /\ e[k] = e[k - 1] + IF p[k] \in EntryRecords THEN 1 ELSE 0
           /\ g[k] = g[k - 1] + IF p[k] = Gap THEN 1 ELSE 0
           /\ p[k] \in EntryRecords => obs[e[k]] = p[k]
  BY <1>1, <1>2, <1>3 DEF CountsTransit, CountsAt
<1>7. /\ \A k \in 0..n : e2[k] = e[k] /\ g2[k] = g[k]
      /\ e2[n + 1] = m + 1 /\ g2[n + 1] = g1
  BY <1>3, <1>4, <1>5
<1>8. e2 \in [0..Len(q) -> 0..Len(os)] /\ g2 \in [0..Len(q) -> 0..g1]
  <2>1. \A k \in 0..(n + 1) : k = n + 1 \/ k \in 0..n
    BY <1>3
  <2>2. ASSUME NEW k \in 0..(n + 1)
        PROVE  e2[k] \in 0..(m + 1) /\ g2[k] \in 0..g1
    <3>1. CASE k = n + 1
      BY <1>3, <1>7, <3>1
    <3>2. CASE k \in 0..n
      <4>1. e2[k] = e[k] /\ g2[k] = g[k] /\ e[k] \in 0..m /\ g[k] \in 0..g1
        BY <1>6, <1>7, <3>2
      <4> QED BY <1>3, <4>1
    <3> QED BY <2>1, <3>1, <3>2
  <2> QED BY <1>3, <1>4, <1>5, <2>2
<1>9. CountsTransit(e2, g2, q, ent, os, g0, g1)
  <2>1. /\ e2[0] = Len(ent) /\ e2[Len(q)] = Len(os)
        /\ g2[0] = g0 /\ g2[Len(q)] = g1
    BY <1>3, <1>6, <1>7
  <2>2. \A k \in 1..Len(ent) : os[k] = ent[k]
    <3>1. Len(ent) <= m /\ Len(ent) \in Nat
      BY <1>3, <1>6
    <3> QED BY <1>3, <1>6, <3>1
  <2>3. ASSUME NEW k \in 1..n
        PROVE  CountsAt(k, e2, g2, q, os)
    <3>1. k \in 0..n /\ k - 1 \in 0..n /\ q[k] = p[k]
      BY <1>3, SMTT(60)
    <3>2. e2[k] = e[k] /\ e2[k - 1] = e[k - 1]
          /\ g2[k] = g[k] /\ g2[k - 1] = g[k - 1]
      BY <1>7, <3>1
    <3>3. q[k] \in EntryRecords => e[k] \in 1..m
      BY <1>6, <3>1, SMTT(60)
    <3> QED BY <1>3, <1>6, <3>1, <3>2, <3>3, ZenonT(60) DEF CountsAt
  <2>4. CountsAt(n + 1, e2, g2, q, os)
    <3>1. e2[n] = m /\ g2[n] = g1 /\ r # Gap
      BY <1>3, <1>6, <1>7, RecordShapes, SMTT(60)
    <3>2. PICK j \in Nat : j = n + 1
      BY <1>3
    <3>3. e2[j] = m + 1 /\ g2[j] = g1 /\ j - 1 = n /\ q[j] = r /\ os[m + 1] = r
      BY <1>3, <1>7, <3>2
    <3>4. e2[j] = e2[j - 1] + 1 /\ g2[j] = g2[j - 1] + 0 /\ os[e2[j]] = q[j]
      BY <3>1, <3>3
    <3>5. q[j] \in EntryRecords /\ q[j] # Gap
      BY <3>1, <3>3
    <3>6. /\ (IF q[j] \in EntryRecords THEN 1 ELSE 0) = 1
          /\ (IF q[j] = Gap THEN 1 ELSE 0) = 0
      BY <3>5
    <3>7. CountsAt(j, e2, g2, q, os)
      BY <3>4, <3>6, Zenon DEF CountsAt
    <3> QED BY <3>2, <3>7
  <2>5. \A k \in 1..Len(q) : CountsAt(k, e2, g2, q, os)
    <3>1. \A k \in 1..Len(q) : k \in 1..n \/ k = n + 1
      BY <1>3
    <3> QED BY <2>3, <2>4, <3>1
  <2> QED BY <2>1, <2>2, <2>5 DEF CountsTransit
<1>10. Follows(q, ent, os, g0, g1)
  BY <1>8, <1>9 DEF Follows
<1> QED BY <1>2, <1>10

GapsIn(rec) == IF rec = Gap THEN 1 ELSE 0

\* A written gap is counted and in transit; other records count for nothing.
LEMMA TransitOtherWritten ==
  ASSUME NEW p \in Seq(StreamRecords), NEW obs \in Seq(EntryRecords),
         NEW ent \in Seq(EntryRecords), NEW g0, NEW g1 \in Nat,
         Follows(p, ent, obs, g0, g1),
         NEW rec \in StreamRecords, rec \notin EntryRecords
  PROVE  Follows(Append(p, rec), ent, obs, g0, g1 + GapsIn(rec))
<1>1. PICK e \in [0..Len(p) -> 0..Len(obs)], g \in [0..Len(p) -> 0..g1] :
        CountsTransit(e, g, p, ent, obs, g0, g1)
  BY DEF Follows
<1>2. PICK n, m, q, g3 : n = Len(p) /\ m = Len(obs) /\ q = Append(p, rec)
                         /\ g3 = g1 + GapsIn(rec)
  OBVIOUS
<1>3. /\ n \in Nat /\ Len(q) = n + 1 /\ q[n + 1] = rec
      /\ \A k \in 1..n : q[k] = p[k]
      /\ m \in Nat /\ g3 \in Nat /\ g3 >= g1
  BY <1>2, AppendProperties DEF GapsIn
<1>4. PICK e2 : e2 = [k \in 0..(n + 1) |-> IF k = n + 1 THEN m ELSE e[k]]
  OBVIOUS
<1>5. PICK g2 : g2 = [k \in 0..(n + 1) |-> IF k = n + 1 THEN g3 ELSE g[k]]
  OBVIOUS
<1>6. /\ e[0] = Len(ent) /\ e[n] = m /\ g[0] = g0 /\ g[n] = g1
      /\ \A k \in 0..n : e[k] \in 0..m /\ g[k] \in 0..g1
      /\ \A k \in 1..Len(ent) : obs[k] = ent[k]
      /\ \A k \in 1..n :
           /\ e[k] = e[k - 1] + IF p[k] \in EntryRecords THEN 1 ELSE 0
           /\ g[k] = g[k - 1] + IF p[k] = Gap THEN 1 ELSE 0
           /\ p[k] \in EntryRecords => obs[e[k]] = p[k]
  BY <1>1, <1>2, <1>3 DEF CountsTransit, CountsAt
<1>7. /\ \A k \in 0..n : e2[k] = e[k] /\ g2[k] = g[k]
      /\ e2[n + 1] = m /\ g2[n + 1] = g3
  BY <1>3, <1>4, <1>5
<1>8. e2 \in [0..Len(q) -> 0..Len(obs)] /\ g2 \in [0..Len(q) -> 0..g3]
  <2>1. \A k \in 0..(n + 1) : k = n + 1 \/ k \in 0..n
    BY <1>3
  <2>2. ASSUME NEW k \in 0..(n + 1)
        PROVE  e2[k] \in 0..m /\ g2[k] \in 0..g3
    <3>1. CASE k = n + 1
      BY <1>3, <1>7, <3>1
    <3>2. CASE k \in 0..n
      <4>1. e2[k] = e[k] /\ g2[k] = g[k] /\ e[k] \in 0..m /\ g[k] \in 0..g1
        BY <1>6, <1>7, <3>2
      <4> QED BY <1>3, <4>1, SMTT(60)
    <3> QED BY <2>1, <3>1, <3>2
  <2> QED BY <1>2, <1>3, <1>4, <1>5, <2>2
<1>9. CountsTransit(e2, g2, q, ent, obs, g0, g3)
  <2>1. /\ e2[0] = Len(ent) /\ e2[Len(q)] = Len(obs)
        /\ g2[0] = g0 /\ g2[Len(q)] = g3
    BY <1>2, <1>3, <1>6, <1>7
  <2>2. ASSUME NEW k \in 1..n
        PROVE  CountsAt(k, e2, g2, q, obs)
    <3>1. k \in 0..n /\ k - 1 \in 0..n /\ q[k] = p[k]
      BY <1>3
    <3>2. e2[k] = e[k] /\ e2[k - 1] = e[k - 1]
          /\ g2[k] = g[k] /\ g2[k - 1] = g[k - 1]
      BY <1>7, <3>1
    <3> QED BY <1>6, <3>1, <3>2 DEF CountsAt
  <2>3. CountsAt(n + 1, e2, g2, q, obs)
    <3>1. e2[n] = m /\ g2[n] = g1
      BY <1>3, <1>6, <1>7, SMTT(60)
    <3>2. n + 1 - 1 = n
      BY <1>3
    <3> QED BY <1>2, <1>3, <1>7, <3>1, <3>2 DEF GapsIn, CountsAt
  <2>4. \A k \in 1..Len(q) : CountsAt(k, e2, g2, q, obs)
    <3>1. \A k \in 1..Len(q) : k \in 1..n \/ k = n + 1
      BY <1>3
    <3> QED BY <2>2, <2>3, <3>1
  <2> QED BY <1>6, <2>1, <2>4 DEF CountsTransit
<1>10. Follows(q, ent, obs, g0, g3)
  BY <1>8, <1>9 DEF Follows
<1> QED BY <1>2, <1>10

\* The next entry in the pipe is the next one observed; taking a record out
\* leaves the rest in transit.
LEMMA TransitRead ==
  ASSUME NEW p \in Seq(StreamRecords), p # <<>>,
         NEW obs \in Seq(EntryRecords), NEW ent \in Seq(EntryRecords),
         NEW g0 \in Nat, NEW g1 \in Nat, Follows(p, ent, obs, g0, g1)
  PROVE  /\ Head(p) \in EntryRecords =>
              /\ Len(ent) < Len(obs) /\ obs[Len(ent) + 1] = Head(p)
              /\ \A k \in 1..Len(ent) : obs[k] = ent[k]
              /\ Follows(Tail(p), Append(ent, Head(p)), obs, g0, g1)
         /\ Head(p) \notin EntryRecords =>
              Follows(Tail(p), ent, obs, g0 + GapsIn(Head(p)), g1)
<1>1. PICK e \in [0..Len(p) -> 0..Len(obs)], g \in [0..Len(p) -> 0..g1] :
        CountsTransit(e, g, p, ent, obs, g0, g1)
  BY DEF Follows
<1>2. PICK n, m, q, h : n = Len(p) - 1 /\ m = Len(obs) /\ q = Tail(p)
                        /\ h = Head(p)
  OBVIOUS
<1>3. /\ n \in Nat /\ Len(p) = n + 1 /\ Len(q) = n /\ h = p[1]
      /\ \A k \in 1..n : q[k] = p[k + 1]
      /\ m \in Nat
  BY <1>2, ReadType
<1>4. PICK e2 : e2 = [k \in 0..n |-> e[k + 1]]
  OBVIOUS
<1>5. PICK g2 : g2 = [k \in 0..n |-> g[k + 1]]
  OBVIOUS
<1>6. /\ e[0] = Len(ent) /\ e[n + 1] = m /\ g[0] = g0 /\ g[n + 1] = g1
      /\ \A k \in 0..(n + 1) : e[k] \in 0..m /\ g[k] \in 0..g1
      /\ \A k \in 1..Len(ent) : obs[k] = ent[k]
      /\ \A k \in 1..(n + 1) :
           /\ e[k] = e[k - 1] + IF p[k] \in EntryRecords THEN 1 ELSE 0
           /\ g[k] = g[k - 1] + IF p[k] = Gap THEN 1 ELSE 0
           /\ p[k] \in EntryRecords => obs[e[k]] = p[k]
  BY <1>1, <1>2, <1>3 DEF CountsTransit, CountsAt
<1>7. e2 \in [0..Len(q) -> 0..m] /\ g2 \in [0..Len(q) -> 0..g1]
  <2>1. \A k \in 0..n : k + 1 \in 0..(n + 1)
    BY <1>3
  <2> QED BY <1>3, <1>4, <1>5, <1>6, <2>1
<1>8. /\ e2[Len(q)] = m /\ g2[Len(q)] = g1
      /\ \A k \in 1..Len(q) : CountsAt(k, e2, g2, q, obs)
  <2>1. e2[n] = m /\ g2[n] = g1
    BY <1>3, <1>4, <1>5, <1>6
  <2>2. ASSUME NEW k \in 1..n
        PROVE  CountsAt(k, e2, g2, q, obs)
    <3>1. PICK j \in 1..(n + 1) : j = k + 1
      BY <1>3
    <3>2. /\ k \in 0..n /\ k - 1 \in 0..n /\ k - 1 + 1 = j - 1
          /\ q[k] = p[j]
      BY <1>3, <3>1
    <3>3. e2[k] = e[j] /\ e2[k - 1] = e[j - 1]
          /\ g2[k] = g[j] /\ g2[k - 1] = g[j - 1]
      BY <1>4, <1>5, <3>1, <3>2
    <3> QED BY <1>6, <3>1, <3>2, <3>3, SMTT(60) DEF CountsAt
  <2> QED BY <1>3, <2>1, <2>2
<1>9. /\ e2[0] = Len(ent) + IF h \in EntryRecords THEN 1 ELSE 0
      /\ g2[0] = g0 + GapsIn(h)
      /\ h \in EntryRecords => obs[e[1]] = h
      /\ e[1] \in 0..m /\ e2[0] = e[1]
  <2>1. 1 \in 1..(n + 1) /\ 1 - 1 = 0
    BY <1>3
  <2>2. /\ e[1] = e[1 - 1] + IF p[1] \in EntryRecords THEN 1 ELSE 0
        /\ g[1] = g[1 - 1] + IF p[1] = Gap THEN 1 ELSE 0
        /\ p[1] \in EntryRecords => obs[e[1]] = p[1]
    <3>1. CountsAt(1, e, g, p, obs)
      BY <1>1, <1>3, <2>1 DEF CountsTransit
    <3> QED BY <3>1 DEF CountsAt
  <2>4. e[1] \in 0..m
    BY <1>6, <2>1, <1>3
  <2>3. e2[0] = e[1] /\ g2[0] = g[1]
    BY <1>3, <1>4, <1>5
  <2> QED BY <1>3, <1>6, <2>1, <2>2, <2>3, <2>4, ZenonT(60) DEF GapsIn
<1>10. ASSUME h \in EntryRecords
       PROVE  /\ Len(ent) < m /\ obs[Len(ent) + 1] = h
              /\ Follows(q, Append(ent, h), obs, g0, g1)
  <2>1. e[1] = Len(ent) + 1 /\ Len(ent) \in Nat /\ h # Gap
    BY <1>9, <1>10, RecordShapes
  <2>2. /\ Len(Append(ent, h)) = Len(ent) + 1
        /\ \A k \in 1..Len(ent) : Append(ent, h)[k] = ent[k]
        /\ Append(ent, h)[Len(ent) + 1] = h
    BY <1>10, AppendProperties
  <2>3. \A k \in 1..Len(Append(ent, h)) : obs[k] = Append(ent, h)[k]
    <3>1. \A k \in 1..(Len(ent) + 1) : k \in 1..Len(ent) \/ k = Len(ent) + 1
      BY <2>1
    <3> QED BY <1>6, <1>9, <1>10, <2>1, <2>2, <3>1
  <2>4. e2[0] = Len(Append(ent, h)) /\ g2[0] = g0
    BY <1>9, <1>10, <2>1, <2>2 DEF GapsIn
  <2>5. CountsTransit(e2, g2, q, Append(ent, h), obs, g0, g1)
    BY <1>2, <1>8, <2>3, <2>4 DEF CountsTransit
  <2>6. Follows(q, Append(ent, h), obs, g0, g1)
    BY <1>2, <1>7, <2>5 DEF Follows
  <2>7. Len(ent) + 1 \in 0..m
    BY <1>9, <2>1
  <2> QED BY <1>3, <1>9, <1>10, <2>1, <2>6, <2>7
<1>11. ASSUME h \notin EntryRecords
       PROVE  Follows(q, ent, obs, g0 + GapsIn(h), g1)
  <2>1. e2[0] = Len(ent)
    BY <1>9, <1>11
  <2>2. CountsTransit(e2, g2, q, ent, obs, g0 + GapsIn(h), g1)
    BY <1>2, <1>6, <1>8, <1>9, <2>1 DEF CountsTransit
  <2> QED BY <1>2, <1>7, <2>2 DEF Follows
<1> QED BY <1>2, <1>6, <1>10, <1>11

\* What was proved of the builder holds inside the pipeline.
BuilderInv == TypeOK /\ StructureInv /\ TotalsInv

\* The worker's steps as the stream sees them: nothing, an entry, a gap, a
\* header or a torn record, the terminal record.
Quiet ==
  /\ UNCHANGED <<pipe, observed, w_totals>>
  /\ \/ w_pc' = "exited" /\ w_outcome' = w_outcome
     \/ w_pc \notin {"flush", "exited"}

WritesEntry == \E r \in EntryRecords : WriteEntry(r)
WritesGap ==
  /\ pipe' = Append(pipe, Gap)
  /\ w_totals'.gaps = w_totals.gaps + 1
  /\ UNCHANGED observed
WritesOther ==
  /\ \E rec \in {Header, Torn} : pipe' = Append(pipe, rec)
  /\ UNCHANGED <<observed, w_totals>>

LEMMA StreamSteps ==
  ASSUME WorkerInv, WorkerStep \/ FlushIgnored \/ Crash
  PROVE  /\ UNCHANGED vars /\ UNCHANGED <<cancelled, r_pc, r_result>>
         /\ w_pc \notin {"unborn", "exited"}
         /\ \/ Quiet
            \/ WriteTerminal
            \/ w_pc \notin {"flush", "exited"} /\
                 (WritesEntry \/ WritesGap \/ WritesOther)
<1>1. UNCHANGED vars /\ UNCHANGED <<cancelled, r_pc, r_result>>
  BY ZenonT(60) DEF WorkerStep, WriteFails, RefuseTarget, WriteHeader, RefuseTargetAgain,
         CheckTarget, WriteRootGap, WriteRoot, PopDirectory, Enumerate,
         WriteGap, WriteFact, EndOfFacts, WriteTerminal, FlushAndExit,
         FlushIgnored, Crash, others, runner, Write, WriteEntry
<1>2. w_pc \notin {"unborn", "exited"}
  BY DEF WorkerStep, WriteFails, RefuseTarget, WriteHeader, RefuseTargetAgain,
         CheckTarget, WriteRootGap, WriteRoot, PopDirectory, Enumerate,
         WriteGap, WriteFact, EndOfFacts, WriteTerminal, FlushAndExit,
         FlushIgnored, Crash, Writing, WorkerAlive
<1>3. \/ Quiet
      \/ WriteTerminal
      \/ w_pc \notin {"flush", "exited"} /\
           (WritesEntry \/ WritesGap \/ WritesOther)
  <2>1. CASE WriteFails \/ RefuseTarget \/ RefuseTargetAgain \/ FlushAndExit
             \/ FlushIgnored
    BY <2>1 DEF WriteFails, RefuseTarget, RefuseTargetAgain, FlushAndExit,
                FlushIgnored, Exit, others, Quiet
  <2>2. CASE CheckTarget \/ PopDirectory \/ Enumerate \/ EndOfFacts
    BY <2>2 DEF CheckTarget, PopDirectory, Enumerate, EndOfFacts, others, Quiet
  <2>3. CASE WriteHeader
    BY <2>3 DEF WriteHeader, Write, WritesOther
  <2>4. CASE WriteRootGap
    BY <2>4, CountGapKeepsTotals
    DEF WriteRootGap, Write, WritesGap, WorkerInv
  <2>5. CASE WriteGap
    BY <2>5, CountGapKeepsTotals DEF WriteGap, Write, WritesGap, WorkerInv
  <2>6. CASE WriteRoot \/ WriteFact
    BY <2>6 DEF WriteRoot, WriteFact, WritesEntry
  <2>7. CASE Crash
    <3>1. w_pc' = "exited" /\ UNCHANGED <<w_outcome, observed, w_totals>>
      BY <2>7 DEF Crash, Exit
    <3>2. CASE UNCHANGED pipe
      BY <3>1, <3>2 DEF Quiet
    <3>3. CASE Writing /\ pipe' = Append(pipe, Torn)
      BY <3>1, <3>3 DEF WritesOther, Writing
    <3> QED BY <1>1, <1>2, <2>7, <3>2, <3>3 DEF Crash
  <2> QED BY <2>1, <2>2, <2>3, <2>4, <2>5, <2>6, <2>7 DEF WorkerStep
<1> QED BY <1>1, <1>2, <1>3, SMTT(60)

\* Until the worker is done there is no terminal record anywhere.
LEMMA NoTerminalYet ==
  ASSUME TerminalInv, w_pc \notin {"flush", "exited"}
  PROVE  /\ terminal = None
         /\ \A k \in 1..Len(pipe) : pipe[k] \notin TerminalRecords
BY DEF TerminalInv

\* The terminal record stays last and true.
LEMMA WorkerKeepsTerminal ==
  ASSUME WorkerInv, WorkerInv', TerminalInv, WorkerStep \/ FlushIgnored \/ Crash
  PROVE  TerminalInv'
<1>1. terminal' = terminal /\ pipe \in Seq(StreamRecords)
  BY StreamSteps DEF vars, WorkerInv, PTypes
<1>2. ASSUME NEW rec \in StreamRecords, rec \notin TerminalRecords,
             w_pc \notin {"flush", "exited"}, pipe' = Append(pipe, rec)
      PROVE  TerminalInv'
  <2>1. /\ Len(pipe') = Len(pipe) + 1 /\ Len(pipe) \in Nat
        /\ \A k \in 1..Len(pipe) : pipe'[k] = pipe[k]
        /\ pipe'[Len(pipe) + 1] = rec
    BY <1>1, <1>2, AppendProperties
  <2>2. \A k \in 1..Len(pipe') : pipe'[k] \notin TerminalRecords
    BY <1>2, <2>1, NoTerminalYet
  <2> QED BY <1>1, <1>2, <2>2, NoTerminalYet DEF TerminalInv
<1>3. CASE Quiet
  <2>1. CASE w_pc' = "exited" /\ w_outcome' = w_outcome
    <3>1. UNCHANGED <<pipe, w_outcome, w_totals>>
      BY <1>3, <2>1 DEF Quiet
    <3> QED BY <1>1, <2>1, <3>1 DEF TerminalInv
  <2>2. CASE w_pc \notin {"flush", "exited"}
    <3>1. pipe' = pipe
      BY <1>3 DEF Quiet
    <3> QED BY <1>1, <2>2, <3>1, NoTerminalYet DEF TerminalInv
  <2> QED BY <1>3, <2>1, <2>2 DEF Quiet
<1>4. CASE WriteTerminal
  <2>1. PICK t : t = TerminalOf(w_outcome, w_totals)
    OBVIOUS
  <2>2. /\ w_pc = "terminal" /\ w_pc' = "flush" /\ pipe' = Append(pipe, t)
        /\ UNCHANGED <<w_outcome, w_totals>>
    BY <1>4, <2>1 DEF WriteTerminal, Write, TerminalOf
  <2>3. t \in TerminalRecords
    BY <2>1, <2>2, TerminalType DEF WorkerInv
  <2>4. /\ Len(pipe') = Len(pipe) + 1 /\ Len(pipe) \in Nat
        /\ \A k \in 1..Len(pipe) : pipe'[k] = pipe[k]
        /\ pipe'[Len(pipe) + 1] = t
    BY <1>1, <2>2, <2>3, AppendProperties DEF StreamRecords
  <2>5. \A k \in 1..Len(pipe') : pipe'[k] \in TerminalRecords =>
           k = Len(pipe') /\ pipe'[k] = TerminalOf(w_outcome', w_totals')
    BY <2>1, <2>2, <2>4, NoTerminalYet
  <2>6. terminal' = None
    BY <1>1, <2>2, NoTerminalYet
  <2> QED BY <2>2, <2>5, <2>6 DEF TerminalInv, TerminalOf
<1>5. CASE w_pc \notin {"flush", "exited"} /\ WritesEntry
  <2>1. PICK r \in EntryRecords : pipe' = Append(pipe, r)
    BY <1>5 DEF WritesEntry, WriteEntry, Write
  <2> QED BY <1>2, <1>5, <2>1, RecordShapes DEF StreamRecords
<1>6. CASE w_pc \notin {"flush", "exited"} /\ WritesGap
  BY <1>2, <1>6, RecordShapes DEF WritesGap, StreamRecords
<1>7. CASE w_pc \notin {"flush", "exited"} /\ WritesOther
  BY <1>2, <1>7, RecordShapes DEF WritesOther, StreamRecords
<1> QED BY <1>3, <1>4, <1>5, <1>6, <1>7, StreamSteps

\* What the worker writes joins what is in transit.
LEMMA WorkerKeepsTransit ==
  ASSUME WorkerInv, BuilderInv, TransitInv, WorkerStep \/ FlushIgnored \/ Crash
  PROVE  TransitInv'
<1> SUFFICES ASSUME r_pc' \in Reading PROVE TransitInv'
  BY DEF TransitInv
<1>1. UNCHANGED <<entries, gaps, r_pc>>
  BY StreamSteps DEF vars
<1>2. PICK p, obs, ent, g0, g1 :
        /\ p = pipe /\ obs = observed /\ ent = entries /\ g0 = gaps
        /\ g1 = w_totals.gaps
  OBVIOUS
<1>3. /\ p \in Seq(StreamRecords) /\ obs \in Seq(EntryRecords)
      /\ ent \in Seq(EntryRecords) /\ g0 \in Nat /\ g1 \in Nat
  BY <1>2 DEF WorkerInv, PTypes, WorkerTotals, BuilderInv, TypeOK
<1>4. Follows(p, ent, obs, g0, g1)
  BY <1>1, <1>2 DEF TransitInv
<1>5. CASE Quiet
  <2>1. UNCHANGED <<pipe, observed, w_totals>>
    BY <1>5 DEF Quiet
  <2> QED BY <1>1, <1>2, <1>4, <2>1 DEF TransitInv
<1>6. ASSUME NEW rec \in StreamRecords, rec \notin EntryRecords,
             pipe' = Append(pipe, rec), observed' = observed,
             w_totals'.gaps = w_totals.gaps + GapsIn(rec)
      PROVE  TransitInv'
  <2>1. Follows(Append(p, rec), ent, obs, g0, g1 + GapsIn(rec))
    BY <1>3, <1>4, <1>6, TransitOtherWritten
  <2> QED BY <1>1, <1>2, <1>6, <2>1 DEF TransitInv
<1>7. g1 + 0 = g1 /\ w_totals.gaps = g1
  BY <1>2, <1>3
<1>8. CASE WriteTerminal
  <2>1. PICK t : t = TerminalOf(w_outcome, w_totals)
    OBVIOUS
  <2>2. /\ w_pc = "terminal" /\ pipe' = Append(pipe, t)
        /\ UNCHANGED <<observed, w_totals>>
    BY <1>8, <2>1 DEF WriteTerminal, Write, TerminalOf
  <2>3. t \in TerminalRecords
    BY <2>1, <2>2, TerminalType DEF WorkerInv
  <2>4. t \in StreamRecords /\ t \notin EntryRecords /\ GapsIn(t) = 0
    BY <2>3, RecordShapes DEF StreamRecords, GapsIn
  <2> QED BY <1>6, <1>7, <2>2, <2>4
<1>9. CASE WritesEntry
  <2>1. PICK r \in EntryRecords : WriteEntry(r)
    BY <1>9 DEF WritesEntry
  <2>2. /\ pipe' = Append(pipe, r) /\ observed' = Append(observed, r)
        /\ w_totals'.gaps = w_totals.gaps
    BY <2>1, WriteEntryTotals DEF WorkerInv, WriteEntry, Write
  <2>3. Follows(Append(p, r), ent, Append(obs, r), g0, g1)
    BY <1>3, <1>4, TransitEntryWritten
  <2> QED BY <1>1, <1>2, <2>2, <2>3 DEF TransitInv
<1>10. CASE WritesGap
  <2>1. Gap \in StreamRecords /\ Gap \notin EntryRecords /\ GapsIn(Gap) = 1
    BY RecordShapes DEF StreamRecords, GapsIn
  <2> QED BY <1>6, <1>10, <2>1 DEF WritesGap
<1>11. CASE WritesOther
  <2>1. PICK rec \in {Header, Torn} :
          pipe' = Append(pipe, rec) /\ UNCHANGED <<observed, w_totals>>
    BY <1>11 DEF WritesOther
  <2>2. rec \in StreamRecords /\ rec \notin EntryRecords /\ GapsIn(rec) = 0
    BY RecordShapes DEF StreamRecords, GapsIn
  <2> QED BY <1>6, <1>7, <2>1, <2>2
<1> QED BY <1>5, <1>8, <1>9, <1>10, <1>11, StreamSteps

---------------------------------------------------------------------------
(* The runner *)

\* The runner's steps that leave stream and builder alone.
Idle ==
  \/ Starting \/ Ending \/ ReadTorn \/ (ReadHeader /\ pipe' = pipe)
  \/ SignalCancel

LEMMA IdleSteps ==
  ASSUME WorkerInv, Idle
  PROVE  /\ UNCHANGED vars /\ UNCHANGED <<pipe, observed, w_totals, w_outcome>>
         /\ \/ w_pc' = w_pc \/ w_pc' = "exited"
            \/ {w_pc, w_pc'} \subseteq {"unborn", "suspended", "boot"}
         /\ r_pc' \in Reading => r_pc \in Reading
<1>0. PTypes /\ OrphanInv
  BY DEF WorkerInv
<1>1. CASE Ending
  BY <1>0, <1>1, EndOfCall DEF Reading
<1>2. CASE Starting
  BY <1>0, <1>2, StartOfCall DEF Reading, LaunchCalls
<1>3. CASE ReadTorn \/ (ReadHeader /\ pipe' = pipe) \/ SignalCancel
  BY <1>3 DEF ReadTorn, ReadHeader, SignalCancel, StopReading, worker, runner,
              Reading
<1> QED BY <1>1, <1>2, <1>3 DEF Idle

\* Taking a record out leaves the others where they were, seen from the end.
LEMMA TailOfTerminals ==
  ASSUME PTypes, TerminalInv, pipe # <<>>
  PROVE  /\ terminal = None
         /\ Head(pipe) \in TerminalRecords =>
              /\ Tail(pipe) = <<>>
              /\ w_pc \in {"flush", "exited"}
              /\ Head(pipe) = TerminalOf(w_outcome, w_totals)
         /\ \A k \in 1..Len(Tail(pipe)) :
              Tail(pipe)[k] \in TerminalRecords =>
                /\ k = Len(Tail(pipe))
                /\ w_pc \in {"flush", "exited"}
                /\ Tail(pipe)[k] = TerminalOf(w_outcome, w_totals)
<1>1. PICK p, q : p = pipe /\ q = Tail(pipe)
  OBVIOUS
<1>2. /\ q \in Seq(StreamRecords) /\ Len(p) \in Nat \ {0}
      /\ Len(q) = Len(p) - 1 /\ Head(pipe) = p[1]
      /\ \A k \in 1..(Len(p) - 1) : q[k] = p[k + 1]
  BY <1>1, ReadType DEF PTypes
<1>3. \A k \in 1..Len(p) :
        p[k] \in TerminalRecords =>
          /\ k = Len(p)
          /\ w_pc \in {"flush", "exited"}
          /\ p[k] = TerminalOf(w_outcome, w_totals)
  BY <1>1 DEF TerminalInv
<1>4. ASSUME Head(pipe) \in TerminalRecords
      PROVE  /\ q = <<>>
             /\ w_pc \in {"flush", "exited"}
             /\ Head(pipe) = TerminalOf(w_outcome, w_totals)
  <2>1. 1 \in 1..Len(p)
    BY <1>2
  <2>2. 1 = Len(p)
    BY <1>2, <1>3, <1>4, <2>1
  <2>3. Len(q) = 0
    <3>1. Len(q) = Len(p) - 1
      BY <1>2
    <3> QED BY <2>2, <3>1
  <2> QED BY <1>2, <1>3, <1>4, <2>1, <2>3, EmptySeq
<1>5. ASSUME NEW k \in 1..Len(q), q[k] \in TerminalRecords
      PROVE  /\ k = Len(q)
             /\ w_pc \in {"flush", "exited"}
             /\ q[k] = TerminalOf(w_outcome, w_totals)
  <2>1. PICK j \in 1..Len(p) : j = k + 1 /\ q[k] = p[j]
    BY <1>2
  <2> QED BY <1>2, <1>3, <1>5, <2>1
<1>6. terminal = None
  BY DEF TerminalInv
<1> QED BY <1>1, <1>4, <1>5, <1>6

\* One turn of the reading loop: the record at the head is taken in or
\* refused.
LEMMA ReadSteps ==
  ASSUME PTypes, BuilderInv, TerminalInv, ReadRecord
  PROVE  /\ pipe # <<>> /\ pipe' = Tail(pipe) /\ UNCHANGED worker
         /\ r_pc = "records" /\ cancelled' = cancelled
         /\ terminal = None
         /\ \/ /\ Head(pipe) \in TerminalRecords
               /\ UNCHANGED <<entries, gaps>>
               /\ terminal' \in {None, Head(pipe)}
            \/ /\ Head(pipe) = Gap
               /\ entries' = entries /\ gaps' = gaps + 1 /\ terminal' = None
            \/ /\ Head(pipe) \in EntryRecords
               /\ entries' = Append(entries, Head(pipe)) /\ gaps' = gaps
               /\ terminal' = None
            \/ /\ result' # "Ok" /\ terminal' = None
         /\ \/ result' = "Ok" /\ r_pc' = "records"
            \/ result' # "Ok" /\ r_pc' = "wait" /\ r_result' = result'
<1>1. /\ pipe # <<>> /\ pipe' = Tail(pipe) /\ UNCHANGED worker
      /\ r_pc = "records" /\ cancelled' = cancelled
      /\ \/ result' = "Ok" /\ r_pc' = "records"
         \/ result' # "Ok" /\ r_pc' = "wait" /\ r_result' = result'
  BY DEF ReadRecord, StopReading
<1>2. terminal = None
  BY <1>1 DEF TerminalInv
<1>3. PICK rec : rec = Head(pipe)
  OBVIOUS
<1>4. \/ rec \in TerminalRecords /\ ingest_terminal(rec)
      \/ rec = Gap /\ ingest_gap
      \/ rec \in EntryRecords /\ Accepting(rec)
      \/ rec \in EntryRecords /\ reject_entry(rec)
  BY <1>2, <1>3, HeadOffered DEF ingest_directory, ingest_file, ingest_special
<1>5. CASE rec \in TerminalRecords /\ ingest_terminal(rec)
  BY <1>1, <1>2, <1>3, <1>5 DEF ingest_terminal
<1>6. CASE rec = Gap /\ ingest_gap
  BY <1>1, <1>2, <1>3, <1>6 DEF ingest_gap
<1>7. CASE rec \in EntryRecords /\ Accepting(rec)
  BY <1>1, <1>2, <1>3, <1>7 DEF Accepting, Insert
<1>8. CASE rec \in EntryRecords /\ reject_entry(rec)
  BY <1>1, <1>2, <1>3, <1>8 DEF reject_entry
<1> QED BY <1>4, <1>5, <1>6, <1>7, <1>8

\* The terminal record is still the last one.
LEMMA RunnerKeepsTerminal ==
  ASSUME WorkerInv, BuilderInv, TerminalInv,
         RunnerStep \/ SignalCancel \/ EngineDies
  PROVE  TerminalInv'
<1>0. PTypes
  BY DEF WorkerInv
<1>1. CASE Idle
  <2>1. UNCHANGED <<pipe, terminal, w_totals, w_outcome>>
    BY <1>1, IdleSteps DEF vars
  <2>2. \/ w_pc' = w_pc \/ w_pc' = "exited"
        \/ {w_pc, w_pc'} \subseteq {"unborn", "suspended", "boot"}
    BY <1>1, IdleSteps
  <2> QED BY <2>1, <2>2 DEF TerminalInv
<1>2. CASE ReadHeader /\ pipe' = Tail(pipe) /\ pipe # <<>>
  <2>1. UNCHANGED <<terminal, w_pc, w_totals, w_outcome>>
    BY <1>2 DEF ReadHeader, vars, worker
  <2> QED BY <1>0, <1>2, <2>1, TailOfTerminals DEF TerminalInv, TerminalOf
<1>3. CASE ReadRecord
  <2>1. UNCHANGED <<w_pc, w_totals, w_outcome>>
    BY <1>3 DEF ReadRecord, worker
  <2>2. /\ pipe # <<>> /\ pipe' = Tail(pipe)
        /\ terminal' # None =>
             Head(pipe) \in TerminalRecords /\ terminal' = Head(pipe)
    BY <1>0, <1>3, ReadSteps
  <2>3. \A k \in 1..Len(pipe') :
          pipe'[k] \in TerminalRecords =>
            /\ k = Len(pipe')
            /\ w_pc' \in {"flush", "exited"}
            /\ pipe'[k] = TerminalOf(w_outcome', w_totals')
    BY <1>0, <2>1, <2>2, TailOfTerminals DEF TerminalOf
  <2>4. ASSUME terminal' # None
        PROVE  /\ pipe' = <<>>
               /\ w_pc' \in {"flush", "exited"}
               /\ terminal'.outcome = w_outcome'
    <3>1. /\ Tail(pipe) = <<>> /\ w_pc \in {"flush", "exited"}
          /\ terminal' = TerminalOf(w_outcome, w_totals)
      BY <1>0, <2>2, <2>4, TailOfTerminals
    <3> QED BY <2>1, <2>2, <3>1 DEF TerminalOf
  <2> QED BY <2>3, <2>4 DEF TerminalInv
<1>4. CASE ReadEnd
  BY <1>4 DEF ReadEnd, finish, worker, TerminalInv
<1>5. ReadHeader => pipe' = pipe \/ (pipe' = Tail(pipe) /\ pipe # <<>>)
  BY DEF ReadHeader, NextIs
<1> QED BY <1>1, <1>2, <1>3, <1>4, <1>5 DEF RunnerStep, Idle, Starting, Ending

\* What the runner takes in leaves the transit.
LEMMA RunnerKeepsTransit ==
  ASSUME WorkerInv, BuilderInv, TerminalInv, TransitInv,
         RunnerStep \/ SignalCancel \/ EngineDies
  PROVE  TransitInv'
<1>0. PTypes
  BY DEF WorkerInv
<1> SUFFICES ASSUME r_pc' \in Reading PROVE TransitInv'
  BY DEF TransitInv
<1>1. PICK p, obs, ent, g0, g1 :
        /\ p = pipe /\ obs = observed /\ ent = entries /\ g0 = gaps
        /\ g1 = w_totals.gaps
  OBVIOUS
<1>2. /\ p \in Seq(StreamRecords) /\ obs \in Seq(EntryRecords)
      /\ ent \in Seq(EntryRecords) /\ g0 \in Nat /\ g1 \in Nat
  BY <1>1 DEF WorkerInv, PTypes, WorkerTotals, BuilderInv, TypeOK
<1>3. r_pc \in Reading => Follows(p, ent, obs, g0, g1)
  BY <1>1 DEF TransitInv
<1>4. CASE Idle
  <2>1. UNCHANGED <<pipe, entries, gaps, observed, w_totals>>
    BY <1>4, IdleSteps DEF vars
  <2>2. r_pc \in Reading
    BY <1>4, IdleSteps
  <2> QED BY <1>1, <1>3, <2>1, <2>2 DEF TransitInv
<1>5. CASE ReadHeader /\ pipe' = Tail(pipe) /\ pipe # <<>>
  <2>1. UNCHANGED <<entries, gaps, observed, w_totals>> /\ r_pc \in Reading
    BY <1>5 DEF ReadHeader, vars, worker, Reading
  <2>2. Head(p) \notin EntryRecords /\ GapsIn(Head(p)) = 0
    <3>1. CASE NextIs(Header)
      BY <1>1, <3>1, RecordShapes DEF NextIs, GapsIn
    <3>2. CASE ~NextIs(Header)
      <4>1. r_pc' = "waitheader"
        BY <1>5, <3>2 DEF ReadHeader
      <4> QED BY <4>1 DEF Reading
    <3> QED BY <3>1, <3>2
  <2>3. Follows(Tail(p), ent, obs, g0 + 0, g1)
    BY <1>1, <1>2, <1>3, <1>5, <2>1, <2>2, TransitRead
  <2>4. g0 + 0 = g0
    BY <1>2
  <2> QED BY <1>1, <1>5, <2>1, <2>3, <2>4 DEF TransitInv
<1>6. CASE ReadRecord
  <2>1. UNCHANGED <<observed, w_totals>>
    BY <1>6 DEF ReadRecord, worker
  <2>2. /\ p # <<>> /\ pipe' = Tail(p) /\ r_pc \in Reading
        /\ \/ Head(p) \in TerminalRecords /\ UNCHANGED <<entries, gaps>>
           \/ Head(p) = Gap /\ entries' = entries /\ gaps' = gaps + 1
           \/ /\ Head(p) \in EntryRecords
              /\ entries' = Append(entries, Head(p)) /\ gaps' = gaps
    <3>1. r_pc' # "wait"
      BY DEF Reading
    <3> QED BY <1>0, <1>1, <1>6, <3>1, ReadSteps DEF Reading
  <2>3. Follows(p, ent, obs, g0, g1)
    BY <1>3, <2>2
  <2>4. /\ Head(p) \in EntryRecords =>
             Follows(Tail(p), Append(ent, Head(p)), obs, g0, g1)
        /\ Head(p) \notin EntryRecords =>
             Follows(Tail(p), ent, obs, g0 + GapsIn(Head(p)), g1)
    BY <1>2, <2>2, <2>3, TransitRead
  <2>5. CASE Head(p) \in TerminalRecords /\ UNCHANGED <<entries, gaps>>
    <3>1. Head(p) \notin EntryRecords /\ g0 + GapsIn(Head(p)) = g0
      BY <1>2, <2>5, RecordShapes DEF GapsIn
    <3> QED BY <1>1, <2>1, <2>2, <2>4, <2>5, <3>1 DEF TransitInv
  <2>6. CASE Head(p) = Gap /\ entries' = entries /\ gaps' = gaps + 1
    <3>1. Head(p) \notin EntryRecords /\ g0 + GapsIn(Head(p)) = g0 + 1
      BY <2>6, RecordShapes DEF GapsIn
    <3> QED BY <1>1, <2>1, <2>2, <2>4, <2>6, <3>1 DEF TransitInv
  <2>7. CASE /\ Head(p) \in EntryRecords
             /\ entries' = Append(entries, Head(p)) /\ gaps' = gaps
    BY <1>1, <2>1, <2>2, <2>4, <2>7 DEF TransitInv
  <2> QED BY <2>2, <2>5, <2>6, <2>7
<1>7. CASE ReadEnd
  BY <1>7 DEF ReadEnd, StopReading, Reading
<1>8. ReadHeader => pipe' = pipe \/ (pipe' = Tail(pipe) /\ pipe # <<>>)
  BY DEF ReadHeader, NextIs
<1> QED BY <1>4, <1>5, <1>6, <1>7, <1>8 DEF RunnerStep, Idle, Starting, Ending

\* A graph is promised at the end of the stream only, and returned with the
\* matching exit code only.
LEMMA StepKeepsResult ==
  ASSUME WorkerInv, BuilderInv, TerminalInv, TransitInv, ResultInv, PNext
  PROVE  ResultInv'
<1>0. PTypes
  BY DEF WorkerInv
<1> SUFFICES ASSUME r_pc' \in {"wait", "done"}, r_result' = "Ok"
             PROVE  ResultInv'
  BY DEF ResultInv
<1>1. CASE WorkerStep \/ FlushIgnored \/ Crash
  <2>1. UNCHANGED <<r_pc, r_result>> /\ w_pc # "exited"
    BY <1>1, StreamSteps
  <2> QED BY <2>1 DEF ResultInv
<1>2. CASE SignalCancel
  <2>1. UNCHANGED <<vars, worker, pipe, runner>>
    BY <1>2 DEF SignalCancel
  <2> QED BY <2>1 DEF ResultInv, vars, worker, runner
<1>3. CASE Starting \/ EngineDies
  BY <1>3, StartOfCall DEF WorkerInv, EngineDies, Leave
<1>4. CASE LaunchFails \/ WaitAfterHeader \/ WaitTimesOut
  BY <1>4 DEF LaunchFails, WaitAfterHeader, WaitTimesOut, Return, Leave
<1>5. CASE WaitForExit
  <2>1. r_pc = "wait" /\ SettledResult = "Ok"
        /\ UNCHANGED <<entries, gaps, terminal>>
    BY <1>5 DEF WaitForExit, Return, Leave, vars
  <2>2. r_result = "Ok" /\ w_exit = ExitCodeOf(terminal.outcome)
    BY <2>1 DEF SettledResult
  <2>3. /\ entries = observed /\ gaps = w_totals.gaps
        /\ terminal # None /\ w_pc = "exited"
    BY <2>1, <2>2 DEF ResultInv
  <2>4. UNCHANGED <<w_pc, w_exit, observed, w_totals>>
    BY <1>0, <1>5, <2>3, EndOfCall DEF Ending
  <2> QED BY <2>1, <2>2, <2>3, <2>4 DEF ResultInv, ExitCodeOf
<1>6. CASE ReadHeader
  BY <1>6 DEF ReadHeader
<1>7. CASE ReadRecord
  <2>1. r_pc' = "records" \/ (r_result' = result' /\ result' # "Ok")
    BY <1>0, <1>7, ReadSteps
  <2> QED BY <2>1
<1>8. CASE ReadTorn
  BY <1>8 DEF ReadTorn, StopReading
<1>9. CASE ReadEnd
  <2>1. /\ r_pc = "records" /\ r_pc' = "wait" /\ pipe = <<>> /\ w_exit # None
        /\ finish /\ result' = "Ok" /\ UNCHANGED worker
    BY <1>9 DEF ReadEnd, StopReading, EndOfStream
  <2>2. terminal # None /\ UNCHANGED <<entries, gaps, terminal>>
    BY <2>1 DEF finish, FinishResult
  <2>3. Follows(<<>>, entries, observed, gaps, w_totals.gaps)
    BY <2>1 DEF TransitInv, Reading
  <2>4. entries = observed /\ gaps = w_totals.gaps
    BY <1>0, <2>3, TransitEnd DEF PTypes, BuilderInv, TypeOK
  <2>5. w_pc = "exited"
    BY <1>0, <2>1 DEF PTypes
  <2> QED BY <2>1, <2>2, <2>4, <2>5 DEF ResultInv, worker
<1> QED BY <1>1, <1>2, <1>3, <1>4, <1>5, <1>6, <1>7, <1>8, <1>9
        DEF PNext, RunnerStep, Starting

---------------------------------------------------------------------------
(* The theorems on completeness *)

\* The builder's invariants hold of every scan.
LEMMA BuilderInScan == PSpec => []BuilderInv
<1>1. TypeOK /\ StructureInv /\ TotalsInv => BuilderInv
  BY DEF BuilderInv
<1> QED BY <1>1, ScanDrivesBuilder, TypeCorrect, StructureCorrect,
           TotalsCorrect, PTL

\* However steps of the worker, the runner, a kill and a cancellation
\* interleave, what is in the pipe and what the builder has add up to what
\* the worker has observed.
THEOREM StreamIsComplete == PSpec => []CompletenessInv
<1>1. PInit => CompletenessInv
  <2> SUFFICES ASSUME PInit PROVE CompletenessInv
    OBVIOUS
  <2>1. TerminalInv
    BY EmptySeq DEF PInit, Init, TerminalInv
  <2>2. TransitInv
    BY TransitStart DEF PInit, Init, TransitInv, ZeroTotals
  <2>3. ResultInv
    BY DEF PInit, ResultInv
  <2> QED BY <2>1, <2>2, <2>3 DEF CompletenessInv
<1>2. WorkerInv /\ WorkerInv' /\ BuilderInv /\ CompletenessInv /\ [PNext]_pvars
      => CompletenessInv'
  <2> SUFFICES ASSUME WorkerInv, WorkerInv', BuilderInv, CompletenessInv,
                      [PNext]_pvars
               PROVE  CompletenessInv'
    OBVIOUS
  <2>1. TerminalInv /\ TransitInv /\ ResultInv
    BY DEF CompletenessInv
  <2>2. CASE PNext
    <3>1. TerminalInv'
      BY <2>1, <2>2, WorkerKeepsTerminal, RunnerKeepsTerminal DEF PNext
    <3>2. TransitInv'
      BY <2>1, <2>2, WorkerKeepsTransit, RunnerKeepsTransit DEF PNext
    <3>3. ResultInv'
      BY <2>1, <2>2, StepKeepsResult
    <3> QED BY <3>1, <3>2, <3>3 DEF CompletenessInv
  <2>3. CASE UNCHANGED pvars
    <3>1. /\ UNCHANGED <<pipe, terminal, entries, gaps, r_pc, r_result>>
          /\ UNCHANGED <<w_pc, w_totals, w_outcome, w_exit, observed>>
      BY <2>3 DEF pvars, vars, worker, runner
    <3> QED BY <2>1, <3>1
            DEF CompletenessInv, TerminalInv, TransitInv, ResultInv
  <2> QED BY <2>2, <2>3
<1> QED BY <1>1, <1>2, WorkerInvariant, BuilderInScan, PTL DEF PSpec

\* A graph the runner returns is the whole of what the worker saw, with the
\* worker's own outcome and a reason for it.
THEOREM GraphIsComplete == PSpec => []OkIsComplete
<1>1. WorkerInv /\ CompletenessInv => OkIsComplete
  <2> SUFFICES ASSUME WorkerInv, CompletenessInv,
                      r_pc = "done", r_result = "Ok"
               PROVE  OkIsComplete
    BY DEF OkIsComplete
  <2>1. /\ entries = observed /\ gaps = w_totals.gaps
        /\ terminal # None /\ w_exit = ExitCodeOf(terminal.outcome)
    BY DEF CompletenessInv, ResultInv
  <2>2. terminal.outcome = w_outcome
    BY <2>1 DEF CompletenessInv, TerminalInv
  <2>3. /\ w_outcome = "Finished" => w_stack = <<>>
        /\ w_outcome = "Cancelled" => cancelled
    BY DEF WorkerInv, OutcomeInv
  <2> HIDE DEF ExitCodeOf
  <2> QED BY <2>1, <2>2, <2>3 DEF OkIsComplete
<1> QED BY <1>1, WorkerInvariant, StreamIsComplete, PTL

\* Whichever call of a launch fails half-way, however the reading ends and
\* wherever the engine dies: a worker that runs is in the job of an engine that
\* lives, none is left when the call returns, and the one an engine may leave
\* behind before the assignment is asleep.
THEOREM NoWorkerIsLeft == PSpec => []NoOrphanWorker
<1>1. WorkerInv => NoOrphanWorker
  BY SMTT(60) DEF WorkerInv, PTypes, OrphanInv, NoOrphanWorker, WorkerAlive,
         WorkerRuns, RunnerPcs, LaunchCalls, Drained
<1> QED BY <1>1, WorkerInvariant, PTL

---------------------------------------------------------------------------
(* Ids that count up *)

\* A place in a longer table is the place it was.
LEMMA DirectoryStays ==
  ASSUME NEW obs \in Seq(EntryRecords), NEW r \in EntryRecords,
         NEW id, IsDirectory(id, obs)
  PROVE  IsDirectory(id, Append(obs, r))
<1>1. /\ Len(Append(obs, r)) = Len(obs) + 1 /\ Len(obs) \in Nat
      /\ \A k \in 1..Len(obs) : Append(obs, r)[k] = obs[k]
  BY AppendProperties
<1> QED BY <1>1 DEF IsDirectory

\* The next entry is numbered next and put under a directory.
LEMMA OrderOfAppend ==
  ASSUME NEW obs \in Seq(EntryRecords), NEW r \in EntryRecords, InOrder(obs),
         r.id = Len(obs) + 1,
         \/ obs = <<>> /\ r.parent_id = 0 /\ r.kind = "Directory"
         \/ obs # <<>> /\ IsDirectory(r.parent_id, obs)
  PROVE  /\ InOrder(Append(obs, r))
         /\ r.kind = "Directory" => IsDirectory(r.id, Append(obs, r))
<1>1. PICK app, n : app = Append(obs, r) /\ n = Len(obs) + 1
  OBVIOUS
<1>2. /\ Len(app) = n /\ Len(obs) \in Nat /\ n = Len(obs) + 1 /\ n \in Nat \ {0}
      /\ \A k \in 1..Len(obs) : app[k] = obs[k]
      /\ app[n] = r
  BY <1>1, AppendProperties
<1>3. ASSUME NEW k \in 1..Len(obs) PROVE WellPlaced(k, app)
  <2>1. WellPlaced(k, obs) /\ app[k] = obs[k]
    BY <1>2 DEF InOrder
  <2>2. k # 1 => IsDirectory(obs[k].parent_id, app)
    BY <1>1, <2>1, DirectoryStays DEF WellPlaced
  <2> QED BY <2>1, <2>2 DEF WellPlaced
<1>4. WellPlaced(n, app)
  <2>1. CASE obs = <<>> /\ r.parent_id = 0 /\ r.kind = "Directory"
    <3>1. n = 1
      BY <1>2, <2>1, EmptySeq
    <3> QED BY <1>2, <2>1, <3>1 DEF WellPlaced
  <2>2. CASE obs # <<>> /\ IsDirectory(r.parent_id, obs)
    <3>1. n # 1
      BY <1>2, <2>2, EmptySeq
    <3>2. IsDirectory(r.parent_id, app)
      BY <1>1, <2>2, DirectoryStays
    <3>3. r.parent_id < n
      BY <1>2, <2>2 DEF IsDirectory
    <3> QED BY <1>2, <3>1, <3>2, <3>3 DEF WellPlaced
  <2> QED BY <2>1, <2>2
<1>5. InOrder(app)
  <2> SUFFICES ASSUME NEW k \in 1..Len(app) PROVE WellPlaced(k, app)
    BY DEF InOrder
  <2>1. k \in 1..Len(obs) \/ k = n
    BY <1>2
  <2> QED BY <1>3, <1>4, <2>1
<1>6. r.kind = "Directory" => IsDirectory(r.id, app)
  BY <1>2 DEF IsDirectory
<1> QED BY <1>1, <1>5, <1>6

\* An entry written keeps the order and the next id, and the directories
\* named so far.
LEMMA WriteEntryKeepsOrder ==
  ASSUME PTypes, HonestWorker, NEW r \in EntryRecords, WriteEntry(r), Fits',
         r.id = w_next_id,
         \/ observed = <<>> /\ r.parent_id = 0 /\ r.kind = "Directory"
         \/ observed # <<>> /\ IsDirectory(r.parent_id, observed)
  PROVE  /\ InOrder(observed')
         /\ r.id = Len(observed) + 1
         /\ r.kind = "Directory" => IsDirectory(r.id, observed')
         /\ Len(observed') < MaxU32 => w_next_id' = Len(observed') + 1
         /\ \A id : IsDirectory(id, observed) => IsDirectory(id, observed')
<1>1. PICK obs, n : obs = observed /\ n = Len(observed)
  OBVIOUS
<1>2. /\ obs \in Seq(EntryRecords) /\ observed' = Append(obs, r)
      /\ n \in Nat /\ Len(observed') = n + 1 /\ MaxU32 \in Nat
      /\ w_next_id' = wrapping_succ(w_next_id)
  BY <1>1, WriteEntryTypes, PipelineAssumption DEF PTypes, WriteEntry
<1>3. n + 1 <= MaxU32
  BY <1>2 DEF Fits
<1>4. /\ InOrder(obs) /\ w_next_id = n + 1
  BY <1>1, <1>2, <1>3 DEF HonestWorker, Fits
<1>5. n + 1 < MaxU32 => w_next_id' = (n + 1) + 1
  <2> SUFFICES ASSUME n + 1 < MaxU32 PROVE w_next_id' = (n + 1) + 1
    OBVIOUS
  <2>1. (n + 1) + 1 \in Nat /\ (n + 1) + 1 <= MaxU32
    BY <1>2
  <2>2. ((n + 1) + 1) % (MaxU32 + 1) = (n + 1) + 1
    BY <1>2, <2>1, Remainder
  <2> QED BY <1>2, <1>4, <2>2 DEF wrapping_succ
<1>6. /\ InOrder(Append(obs, r))
      /\ r.kind = "Directory" => IsDirectory(r.id, Append(obs, r))
  BY <1>1, <1>2, <1>4, OrderOfAppend
<1> QED BY <1>1, <1>2, <1>4, <1>5, <1>6, DirectoryStays

\* Popping and pushing keep a stack of directories one.
LEMMA StackOfDirectories ==
  ASSUME NEW obs, NEW st \in Seq(Nat),
         \A k \in 1..Len(st) : IsDirectory(st[k], obs)
  PROVE  /\ st # <<>> =>
              /\ IsDirectory(st[Len(st)], obs)
              /\ \A k \in 1..Len(SubSeq(st, 1, Len(st) - 1)) :
                   IsDirectory(SubSeq(st, 1, Len(st) - 1)[k], obs)
         /\ \A id \in Nat : IsDirectory(id, obs) =>
              \A k \in 1..Len(Append(st, id)) : IsDirectory(Append(st, id)[k], obs)
<1>1. ASSUME st # <<>>
      PROVE  /\ IsDirectory(st[Len(st)], obs)
             /\ \A k \in 1..Len(SubSeq(st, 1, Len(st) - 1)) :
                  IsDirectory(SubSeq(st, 1, Len(st) - 1)[k], obs)
  <2>1. Len(st) \in Nat \ {0}
    BY <1>1, EmptySeq
  <2>2. PICK low : low = SubSeq(st, 1, Len(st) - 1)
    OBVIOUS
  <2>3. Len(low) = Len(st) - 1 /\ \A k \in 1..Len(low) : low[k] = st[k]
    <3>1. PICK n \in Nat : n = Len(st) - 1
      BY <2>1
    <3>2. \A i \in 1..n : st[i] \in Nat
      BY <3>1
    <3>3. /\ Len(SubSeq(st, 1, n)) = IF 1 <= n THEN n - 1 + 1 ELSE 0
          /\ \A i \in 1..(n - 1 + 1) : SubSeq(st, 1, n)[i] = st[1 + i - 1]
      BY <3>2, SubSeqProperties
    <3>4. Len(low) = n /\ n - 1 + 1 = n
      BY <2>2, <3>1, <3>3
    <3> QED BY <2>2, <3>1, <3>3, <3>4
  <2>4. \A k \in 1..Len(low) : IsDirectory(low[k], obs)
    BY <2>1, <2>3
  <2> QED BY <2>1, <2>2, <2>4
<1>2. ASSUME NEW id \in Nat, IsDirectory(id, obs),
             NEW k \in 1..Len(Append(st, id))
      PROVE  IsDirectory(Append(st, id)[k], obs)
  <2>1. /\ Len(Append(st, id)) = Len(st) + 1 /\ Len(st) \in Nat
        /\ \A j \in 1..Len(st) : Append(st, id)[j] = st[j]
        /\ Append(st, id)[Len(st) + 1] = id
    BY AppendProperties
  <2>2. k \in 1..Len(st) \/ k = Len(st) + 1
    BY <2>1
  <2> QED BY <1>2, <2>1, <2>2
<1> QED BY <1>1, <1>2

\* The worker's ids and directories stay in order.
LEMMA WorkerKeepsOrder ==
  ASSUME PTypes, OutcomeInv, HonestWorker, WorkerStep \/ FlushIgnored \/ Crash
  PROVE  HonestWorker'
<1>1. ASSUME UNCHANGED <<observed, w_next_id, w_stack, w_dir>>,
             \/ w_pc' \notin {"enumerating", "partial", "unreadable", "facts"}
             \/ w_pc \in {"enumerating", "partial", "unreadable", "facts"}
      PROVE  HonestWorker'
  BY <1>1 DEF HonestWorker, Fits
<1>2. CASE WriteFails \/ RefuseTarget \/ RefuseTargetAgain \/ FlushAndExit
           \/ FlushIgnored \/ Crash
  BY <1>1, <1>2
  DEF WriteFails, RefuseTarget, RefuseTargetAgain, FlushAndExit, FlushIgnored,
      Crash, Exit
<1>3. CASE WriteHeader \/ CheckTarget \/ WriteRootGap \/ EndOfFacts
           \/ WriteTerminal
  BY <1>1, <1>3
  DEF WriteHeader, CheckTarget, WriteRootGap, EndOfFacts, WriteTerminal
<1>4. CASE Enumerate \/ WriteGap
  BY <1>1, <1>4 DEF Enumerate, WriteGap
<1>5. CASE PopDirectory
  <2>1. CASE w_stack = <<>>
    BY <1>1, <1>5, <2>1 DEF PopDirectory
  <2>2. CASE w_stack # <<>>
    <3>1. PICK st, obs : st = w_stack /\ obs = observed
      OBVIOUS
    <3>2. /\ w_stack' = SubSeq(st, 1, Len(st) - 1) /\ w_dir' = st[Len(st)]
          /\ observed' = obs /\ w_next_id' = w_next_id /\ st \in Seq(Nat)
      BY <1>5, <2>2, <3>1 DEF PopDirectory, PTypes
    <3> SUFFICES ASSUME Fits' PROVE HonestWorker'
      BY DEF HonestWorker
    <3>3. /\ InOrder(obs)
          /\ Len(obs) < MaxU32 => w_next_id = Len(obs) + 1
      BY <3>1, <3>2 DEF HonestWorker, Fits
    <3>4. \A k \in 1..Len(st) : IsDirectory(st[k], obs)
      BY <3>1, <3>2 DEF HonestWorker, Fits
    <3>5. /\ IsDirectory(w_dir', observed')
          /\ \A k \in 1..Len(w_stack') : IsDirectory(w_stack'[k], observed')
      BY <2>2, <3>1, <3>2, <3>4, StackOfDirectories
    <3>6. /\ InOrder(observed')
          /\ Len(observed') < MaxU32 => w_next_id' = Len(observed') + 1
      BY <3>2, <3>3
    <3> QED BY <3>5, <3>6 DEF HonestWorker
  <2> QED BY <2>1, <2>2
<1>6. CASE WriteRoot
  <2> SUFFICES ASSUME Fits' PROVE HonestWorker'
    BY DEF HonestWorker
  <2>1. PICK r \in EntryRecords :
          r.kind = "Directory" /\ r.id = w_next_id /\ r.parent_id = 0
          /\ WriteEntry(r)
    BY <1>6 DEF WriteRoot
  <2>2. observed = <<>> /\ w_stack' = <<r.id>> /\ w_pc' = "pop"
    BY <1>6, <2>1 DEF WriteRoot, PTypes, BeforeRoot
  <2>3. /\ InOrder(observed') /\ IsDirectory(r.id, observed')
        /\ Len(observed') < MaxU32 => w_next_id' = Len(observed') + 1
    BY <2>1, <2>2, WriteEntryKeepsOrder
  <2>4. \A k \in 1..Len(w_stack') : IsDirectory(w_stack'[k], observed')
    BY <2>2, <2>3
  <2> QED BY <2>2, <2>3, <2>4 DEF HonestWorker
<1>7. CASE WriteFact
  <2> SUFFICES ASSUME Fits' PROVE HonestWorker'
    BY DEF HonestWorker
  <2>1. PICK r \in EntryRecords :
          /\ r.id = w_next_id /\ r.parent_id = w_dir /\ WriteEntry(r)
          /\ \/ r.kind = "Directory" /\ w_stack' = Append(w_stack, r.id)
             \/ UNCHANGED w_stack
    BY <1>7 DEF WriteFact
  <2>2. w_pc = "facts" /\ w_pc' = "facts" /\ w_dir' = w_dir /\ observed # <<>>
    BY <1>7 DEF WriteFact, OutcomeInv, Traversing
  <2>3. Fits
    <3>1. Len(observed') = Len(observed) + 1 /\ Len(observed) \in Nat
      BY <2>1, WriteEntryTypes
    <3> QED BY <3>1, PipelineAssumption DEF Fits
  <2>4. IsDirectory(w_dir, observed)
    BY <2>2, <2>3 DEF HonestWorker
  <2>5. /\ InOrder(observed')
        /\ r.kind = "Directory" => IsDirectory(r.id, observed')
        /\ Len(observed') < MaxU32 => w_next_id' = Len(observed') + 1
        /\ \A id : IsDirectory(id, observed) => IsDirectory(id, observed')
    BY <2>1, <2>2, <2>4, WriteEntryKeepsOrder
  <2>6. PICK st, obs2 : st = w_stack /\ obs2 = observed'
    OBVIOUS
  <2>7. st \in Seq(Nat) /\ \A k \in 1..Len(st) : IsDirectory(st[k], obs2)
    BY <2>3, <2>5, <2>6 DEF HonestWorker, PTypes
  <2>8. \A k \in 1..Len(w_stack') : IsDirectory(w_stack'[k], observed')
    <3>1. CASE r.kind = "Directory" /\ w_stack' = Append(w_stack, r.id)
      <4>1. r.id \in Nat /\ IsDirectory(r.id, obs2)
        BY <2>5, <2>6, <3>1, EntryRecordFields
      <4> QED BY <2>6, <2>7, <3>1, <4>1, StackOfDirectories
    <3>2. CASE UNCHANGED w_stack
      BY <2>6, <2>7, <3>2
    <3> QED BY <2>1, <3>1, <3>2
  <2> QED BY <2>2, <2>4, <2>5, <2>8 DEF HonestWorker
<1> QED BY <1>2, <1>3, <1>4, <1>5, <1>6, <1>7 DEF WorkerStep

---------------------------------------------------------------------------
(* Delivery *)

\* The runner touches nothing of the worker but to start or to end it, and
\* ends it only when the call returns or the engine dies.
LEMMA RunnerAndWorker ==
  ASSUME PTypes, OrphanInv, RunnerStep \/ SignalCancel \/ EngineDies
  PROVE  /\ UNCHANGED <<w_stack, w_dir, w_next_id, observed>>
         /\ \/ UNCHANGED <<w_pc, w_exit>>
            \/ /\ Starting /\ w_exit' = w_exit
               /\ w_pc \in {"unborn", "suspended"}
               /\ w_pc' \in {"suspended", "boot"}
            \/ /\ r_pc' \in {"done", "dead"} /\ w_pc' = "exited"
               /\ w_exit = None /\ w_exit' \in {1, CrashCode}
<1>1. CASE Ending
  BY <1>1, EndOfCall
<1>2. CASE Starting
  BY <1>2, StartOfCall
<1>3. CASE ReadHeader \/ ReadRecord \/ ReadTorn \/ ReadEnd \/ SignalCancel
  BY <1>3 DEF ReadHeader, ReadRecord, ReadTorn, ReadEnd, SignalCancel, worker
<1> QED BY <1>1, <1>2, <1>3 DEF RunnerStep, Starting, Ending

\* The order of the worker is no concern of the runner.
LEMMA RunnerKeepsOrder ==
  ASSUME PTypes, OrphanInv, HonestWorker,
         RunnerStep \/ SignalCancel \/ EngineDies
  PROVE  HonestWorker'
<1>1. /\ UNCHANGED <<w_stack, w_dir, w_next_id, observed>>
      /\ w_pc' = w_pc \/ w_pc' \in {"suspended", "boot", "exited"}
  BY RunnerAndWorker
<1> QED BY <1>1 DEF HonestWorker, Fits

\* The worker's steps deliver.
LEMMA WorkerDelivers ==
  ASSUME WorkerInv, FlushDelivers, ExitDelivers, NoEarlyHeader,
         WorkerStep \/ FlushIgnored \/ Crash
  PROVE  FlushDelivers' /\ ExitDelivers' /\ NoEarlyHeader'
<1>1. UNCHANGED <<terminal, r_pc>> /\ pipe \in Seq(StreamRecords)
      /\ w_pc # "exited" /\ w_pc # "unborn" /\ w_exit = None
  BY StreamSteps DEF vars, WorkerInv, PTypes
<1>2. None \notin {0, 2, 3} /\ CrashCode \notin {0, 2, 3}
  BY ConstantsAssumption DEF CrashCode
<1>3. CASE w_pc' \notin {"flush", "exited", "boot"} /\ w_exit' = w_exit
  <2>1. w_pc' \notin {"unborn", "suspended"}
    BY <1>1, <1>3
    DEF WorkerStep, WriteFails, RefuseTarget, WriteHeader, RefuseTargetAgain,
        CheckTarget, WriteRootGap, WriteRoot, PopDirectory, Enumerate, WriteGap,
        WriteFact, EndOfFacts, WriteTerminal, FlushAndExit, FlushIgnored, Crash,
        Exit
  <2> QED BY <1>1, <1>2, <1>3, <2>1
          DEF FlushDelivers, ExitDelivers, NoEarlyHeader
<1>4. CASE WriteFails \/ RefuseTargetAgain
  BY <1>2, <1>4 DEF WriteFails, RefuseTargetAgain, Exit, FlushDelivers,
                    ExitDelivers, NoEarlyHeader
<1>5. CASE RefuseTarget
  <2>1. w_pc = "boot" /\ pipe' = pipe /\ w_exit' = 2 /\ w_pc' = "exited"
    BY <1>5 DEF RefuseTarget, Exit, others
  <2> QED BY <1>1, <2>1 DEF FlushDelivers, ExitDelivers, NoEarlyHeader
<1>6. CASE Crash
  BY <1>2, <1>6 DEF Crash, Exit, FlushDelivers, ExitDelivers, NoEarlyHeader
<1>7. CASE WriteTerminal
  <2>1. PICK t : t = TerminalOf(w_outcome, w_totals)
    OBVIOUS
  <2>2. /\ w_pc = "terminal" /\ w_pc' = "flush" /\ pipe' = Append(pipe, t)
        /\ w_exit' = w_exit
    BY <1>7, <2>1 DEF WriteTerminal, Write, TerminalOf
  <2>3. t \in TerminalRecords
    BY <2>1, <2>2, TerminalType DEF WorkerInv
  <2>4. Len(pipe') = Len(pipe) + 1 /\ pipe'[Len(pipe) + 1] = t /\ pipe' # <<>>
    BY <1>1, <2>2, <2>3, AppendProperties DEF StreamRecords
  <2> QED BY <1>1, <1>2, <2>2, <2>3, <2>4
          DEF FlushDelivers, ExitDelivers, LastIsTerminal, NoEarlyHeader
<1>8. CASE FlushAndExit \/ FlushIgnored
  <2>1. /\ w_pc = "flush" /\ w_pc' = "exited" /\ w_exit' \in {0, 1, 3}
        /\ pipe' = pipe
    BY <1>8 DEF FlushAndExit, FlushIgnored, Exit, others, WorkerInv, OutcomeInv,
                ExitCodeOf, RunOutcomes
  <2>2. r_pc' \in Reading => LastIsTerminal'
    BY <1>1, <2>1 DEF FlushDelivers, LastIsTerminal
  <2> QED BY <2>1, <2>2 DEF FlushDelivers, ExitDelivers, NoEarlyHeader
<1>9. CASE WriteHeader \/ CheckTarget \/ WriteRootGap \/ WriteRoot
           \/ PopDirectory \/ Enumerate \/ WriteGap \/ WriteFact \/ EndOfFacts
  BY <1>3, <1>9
  DEF WriteHeader, CheckTarget, WriteRootGap, WriteRoot, PopDirectory,
      Enumerate, WriteGap, WriteFact, EndOfFacts
<1> QED BY <1>4, <1>5, <1>6, <1>7, <1>8, <1>9 DEF WorkerStep

\* A record the builder takes in leaves the stream for the table: the last
\* one, if it is a terminal record, for the seal.
LEMMA TerminalArrives ==
  ASSUME PTypes, ReadRecord, Head(pipe) \in TerminalRecords, terminal = None,
         r_pc' \in Reading
  PROVE  terminal' # None
<1>1. PICK rec \in TerminalRecords : rec = Head(pipe)
  OBVIOUS
<1>2. result' = "Ok"
  BY DEF ReadRecord, StopReading, Reading
<1>3. ingest_terminal(rec) \/ record_after_terminal
  BY <1>1, HeadOffered, RecordShapes
<1>4. ingest_terminal(rec)
  BY <1>3 DEF record_after_terminal
<1>5. terminal' = rec
  BY <1>2, <1>4 DEF ingest_terminal
<1> QED BY <1>5, NoneAssumption

\* The last record stays the last until it is taken out.
LEMMA LastOfTail ==
  ASSUME NEW p \in Seq(StreamRecords), p # <<>>
  PROVE  \/ Tail(p) = <<>> /\ p[Len(p)] = Head(p)
         \/ Tail(p) # <<>> /\ Tail(p)[Len(Tail(p))] = p[Len(p)]
<1>1. PICK q, n : q = Tail(p) /\ n = Len(p) - 1
  OBVIOUS
<1>2. /\ Len(q) = n /\ n \in Nat /\ Len(p) = n + 1 /\ Head(p) = p[1]
      /\ \A k \in 1..n : q[k] = p[k + 1]
      /\ q \in Seq(StreamRecords)
  BY <1>1, ReadType
<1>3. CASE n = 0
  BY <1>1, <1>2, <1>3, EmptySeq
<1>4. CASE n # 0
  <2>1. n \in 1..n
    BY <1>2, <1>4
  <2>2. q[n] = p[n + 1] /\ q # <<>>
    BY <1>2, <1>4, <2>1, EmptySeq
  <2> QED BY <1>1, <1>2, <2>2
<1> QED BY <1>3, <1>4

\* The runner's steps deliver.
LEMMA RunnerDelivers ==
  ASSUME WorkerInv, BuilderInv, TerminalInv,
         FlushDelivers, ExitDelivers, NoEarlyHeader,
         RunnerStep \/ SignalCancel \/ EngineDies
  PROVE  FlushDelivers' /\ ExitDelivers' /\ NoEarlyHeader'
<1>0. PTypes /\ OrphanInv /\ None \notin {0, 2, 3} /\ CrashCode \notin {0, 2, 3}
  BY ConstantsAssumption DEF CrashCode, WorkerInv
<1>1. CASE Ending
  <2>1. /\ pipe' = pipe /\ r_pc' \notin Reading \union {"records"}
        /\ \/ UNCHANGED <<w_pc, w_exit>>
           \/ w_pc' = "exited" /\ w_exit' \in {1, CrashCode}
    BY <1>0, <1>1, EndOfCall DEF Reading
  <2> QED BY <1>0, <2>1 DEF FlushDelivers, ExitDelivers, NoEarlyHeader
<1>2. CASE Starting
  <2>1. /\ UNCHANGED <<pipe, w_exit, terminal>> /\ r_pc \in Reading
        /\ r_pc' # "records"
        /\ \/ w_pc' = w_pc
           \/ {w_pc, w_pc'} \subseteq {"unborn", "suspended", "boot"}
    BY <1>0, <1>2, StartOfCall DEF Reading, LaunchCalls, vars
  <2> QED BY <1>0, <2>1, SMTT(60)
          DEF FlushDelivers, ExitDelivers, LastIsTerminal, NoEarlyHeader
<1>3. CASE SignalCancel
  BY <1>3 DEF SignalCancel, vars, worker, runner, FlushDelivers, ExitDelivers,
              LastIsTerminal, NoEarlyHeader
<1>4. CASE ReadTorn \/ ReadEnd
  <2>1. r_pc' = "wait" /\ pipe' = pipe /\ UNCHANGED <<w_pc, w_exit>>
    BY <1>4 DEF ReadTorn, ReadEnd, StopReading, worker
  <2> QED BY <2>1 DEF FlushDelivers, ExitDelivers, NoEarlyHeader, Reading
<1>5. CASE ReadHeader /\ r_pc' = "waitheader"
  <2>1. pipe' = pipe /\ UNCHANGED <<w_pc, w_exit>>
    BY <1>5 DEF ReadHeader, worker
  <2> QED BY <1>5, <2>1 DEF FlushDelivers, ExitDelivers, NoEarlyHeader, Reading
<1>6. CASE ReadHeader /\ NextIs(Header) /\ r_pc' = "records"
           /\ pipe' = Tail(pipe)
  <2>1. /\ UNCHANGED <<w_pc, w_exit, terminal>> /\ r_pc \in Reading
        /\ pipe # <<>> /\ Head(pipe) = Header
    BY <1>6 DEF ReadHeader, NextIs, worker, vars, Reading
  <2>2. pipe[1] = Header /\ Len(pipe) \in Nat \ {0}
    BY <1>0, <2>1, ReadType DEF PTypes
  <2>3. ~(w_pc \in {"unborn", "suspended", "boot"} \/ w_exit = 2)
    BY <2>2 DEF NoEarlyHeader
  <2>4. \/ pipe' = <<>> /\ pipe[Len(pipe)] = Header
        \/ pipe' # <<>> /\ pipe'[Len(pipe')] = pipe[Len(pipe)]
    BY <1>0, <1>6, <2>1, LastOfTail DEF PTypes
  <2>5. Header \notin TerminalRecords
    BY RecordShapes
  <2>6. LastIsTerminal => LastIsTerminal'
    BY <2>1, <2>4, <2>5 DEF LastIsTerminal
  <2> QED BY <2>1, <2>3, <2>6 DEF FlushDelivers, ExitDelivers, NoEarlyHeader
<1>7. CASE ReadRecord
  <2>1. /\ UNCHANGED <<w_pc, w_exit>> /\ pipe # <<>> /\ pipe' = Tail(pipe)
        /\ r_pc \in Reading /\ r_pc = "records" /\ terminal = None
    BY <1>0, <1>7, ReadSteps DEF worker, Reading
  <2>2. Head(pipe) \in TerminalRecords /\ r_pc' \in Reading => terminal' # None
    BY <1>0, <1>7, <2>1, TerminalArrives
  <2>3. \/ pipe' = <<>> /\ pipe[Len(pipe)] = Head(pipe)
        \/ pipe' # <<>> /\ pipe'[Len(pipe')] = pipe[Len(pipe)]
    BY <1>0, <2>1, LastOfTail DEF PTypes
  <2>4. r_pc' \in Reading /\ LastIsTerminal => LastIsTerminal'
    BY <2>1, <2>2, <2>3 DEF LastIsTerminal
  <2> QED BY <2>1, <2>4 DEF FlushDelivers, ExitDelivers, NoEarlyHeader
<1>8. CASE ReadHeader
  BY <1>5, <1>6, <1>8 DEF ReadHeader
<1> QED BY <1>1, <1>2, <1>3, <1>4, <1>7, <1>8 DEF RunnerStep, Starting, Ending

---------------------------------------------------------------------------
(* Acceptance *)

\* The sums of what was observed only grow, so what has overflowed stays
\* overflowed, and what fits has fitted before.
LEMMA ObservedGrows ==
  ASSUME PTypes, OrphanInv, PNext
  PROVE  (Fits' => Fits) /\ (Overflowed => Overflowed')
<1>1. CASE observed' = observed
  BY <1>1 DEF Fits, Overflowed
<1>2. ASSUME NEW r \in EntryRecords, WriteEntry(r)
      PROVE  (Fits' => Fits) /\ (Overflowed => Overflowed')
  <2>1. PICK n, L, A, dl, da :
          /\ n = Len(observed) /\ L = SumOf(LogicalSizes(observed))
          /\ A = SumOf(AllocatedSizes(observed))
          /\ dl = r.logical_size /\ da = unwrap_or_zero(r.allocated_size)
    OBVIOUS
  <2>2. observed \in Seq(EntryRecords) /\ observed' = Append(observed, r)
        /\ n \in Nat /\ Len(observed') = n + 1
    BY <1>2, <2>1, WriteEntryTypes DEF PTypes
  <2>3. /\ L \in Nat /\ A \in Nat /\ dl \in Nat /\ da \in Nat
        /\ SumOf(LogicalSizes(observed')) = L + dl
        /\ SumOf(AllocatedSizes(observed')) = A + da
    BY <2>1, <2>2, SizesOfAppend, SizesOfRecord
  <2>4. Fits' => Fits
    BY <2>1, <2>2, PipelineAssumption DEF Fits
  <2>5. Overflowed => Overflowed'
    <3>1. /\ L > MaxU64 => L + dl > MaxU64
          /\ A > MaxU64 => A + da > MaxU64
      BY <2>3, ConstantsAssumption
    <3> QED BY <2>1, <2>3, <3>1 DEF Overflowed
  <2> QED BY <2>4, <2>5
<1>3. CASE RunnerStep \/ SignalCancel \/ EngineDies
  BY <1>1, <1>3, RunnerAndWorker
<1>4. CASE WriteRoot \/ WriteFact
  BY <1>2, <1>4 DEF WriteRoot, WriteFact
<1>5. CASE ~(WriteRoot \/ WriteFact) /\ (WorkerStep \/ FlushIgnored \/ Crash)
  BY <1>1, <1>5
  DEF WorkerStep, WriteFails, RefuseTarget, WriteHeader, RefuseTargetAgain,
      CheckTarget, WriteRootGap, PopDirectory, Enumerate, WriteGap, EndOfFacts,
      WriteTerminal, FlushAndExit, FlushIgnored, Crash, Exit
<1> QED BY <1>3, <1>4, <1>5 DEF PNext

\* The builder finds nothing to object to in the next entry of an ordered
\* stream of which it has the beginning.
LEMMA OrderedIsAccepted ==
  ASSUME entries \in Seq(EntryRecords), NEW obs \in Seq(EntryRecords),
         InOrder(obs), is_dense, Len(entries) < Len(obs),
         \A k \in 1..Len(entries) : obs[k] = entries[k],
         NEW r \in EntryRecords, obs[Len(entries) + 1] = r
  PROVE  Verdict(r) = "Ok" /\ DenseAfter(r)
<1>1. PICK n : n = Len(entries) + 1
  OBVIOUS
<1>2. n \in 1..Len(obs) /\ n = Len(entries) + 1 /\ Len(entries) \in Nat
      /\ obs[n] = r
  BY <1>1
<1>3. WellPlaced(n, obs)
  BY <1>2 DEF InOrder
<1>4. /\ r.id = n
      /\ n = 1 => r.parent_id = 0 /\ r.kind = "Directory"
      /\ n # 1 => /\ r.parent_id \in 1..Len(entries)
                  /\ entries[r.parent_id].kind = "Directory"
  <2>1. ASSUME n # 1
        PROVE  /\ r.parent_id \in 1..Len(entries)
               /\ entries[r.parent_id].kind = "Directory"
    <3>1. PICK p : p = r.parent_id
      OBVIOUS
    <3>2. p \in 1..Len(obs) /\ p < n /\ obs[p].kind = "Directory"
      BY <1>2, <1>3, <2>1, <3>1 DEF WellPlaced, IsDirectory
    <3>3. p \in 1..Len(entries)
      BY <1>2, <3>2
    <3> QED BY <3>1, <3>2, <3>3
  <2> QED BY <1>2, <1>3, <2>1 DEF WellPlaced
<1>5. ~LeavesSequence(r)
  BY <1>2, <1>4 DEF LeavesSequence
<1>6. DenseAfter(r)
  BY <1>5 DEF DenseAfter
<1>7. CASE entries = <<>>
  <2>1. n = 1
    BY <1>2, <1>7, EmptySeq
  <2> QED BY <1>4, <1>6, <1>7, <2>1 DEF Verdict, RootError
<1>8. CASE entries # <<>>
  <2>1. n # 1
    BY <1>2, <1>8, EmptySeq
  <2>2. r.id # r.parent_id /\ ~RootError(r)
    BY <1>2, <1>4, <1>8, <2>1 DEF RootError
  <2>3. Lookup(DenseAfter(r), IndexAfter(r), r.id) = NIL
    BY <1>2, <1>4, <1>6 DEF Lookup
  <2>4. ParentIndex(r) = r.parent_id /\ ParentIndex(r) # NIL
    BY <1>4, <1>6, <2>1 DEF ParentIndex, Lookup, NIL
  <2>5. entries[ParentIndex(r)].kind = "Directory"
    BY <1>4, <2>1, <2>4
  <2> QED BY <1>6, <1>8, <2>2, <2>3, <2>4, <2>5 DEF Verdict
<1> QED BY <1>6, <1>7, <1>8

\* The terminal record finds the whole stream in the table, so its totals
\* are the builder's unless the worker's have wrapped.
LEMMA TerminalIsAccepted ==
  ASSUME WorkerInv, BuilderInv, ~Overflowed,
         entries = observed, gaps = w_totals.gaps
  PROVE  TotalsMatch(TerminalOf(w_outcome, w_totals))
<1>1. /\ dir_count = CountIn(observed, "Directory")
      /\ file_count = CountIn(observed, "File")
      /\ logical_bytes = Capped(SumOf(LogicalSizes(observed)))
      /\ allocated_bytes = Capped(SumOf(AllocatedSizes(observed)))
  BY DEF BuilderInv, TotalsInv, CountsExact, SumsExact
<1>2. PICK L, A : /\ L = SumOf(LogicalSizes(observed))
                  /\ A = SumOf(AllocatedSizes(observed))
  OBVIOUS
<1>3. L \in Nat /\ A \in Nat /\ ~(L > MaxU64) /\ ~(A > MaxU64)
  <2>1. observed \in Seq(EntryRecords)
    BY DEF WorkerInv, PTypes
  <2>2. CASE observed = <<>>
    BY <1>2, <2>2, NothingCounted, ConstantsAssumption DEF Overflowed
  <2>3. CASE observed # <<>>
    <3>1. observed[1] \in EntryRecords
      BY <2>1, <2>3, EmptySeq
    <3> QED BY <1>2, <2>1, <3>1, SizesOfAppend DEF Overflowed
  <2> QED BY <2>2, <2>3
<1>4. Capped(L) = L /\ Capped(A) = A /\ L <= MaxU64 /\ A <= MaxU64
  BY <1>3, ConstantsAssumption DEF Capped
<1>5. w_totals.logical = L /\ w_totals.alloc = A
  BY <1>2, <1>4 DEF WorkerInv, WorkerTotals
<1>6. /\ w_totals.dirs = CountIn(observed, "Directory")
      /\ w_totals.files = CountIn(observed, "File")
  BY DEF WorkerInv, WorkerTotals
<1> QED BY <1>1, <1>2, <1>4, <1>5, <1>6 DEF TotalsMatch, TerminalOf

\* What the builder answers to the head of an honest stream.
LEMMA HonestHead ==
  ASSUME WorkerInv, BuilderInv, TerminalInv, TransitInv, HonestWorker,
         AcceptedInv, Fits, ReadRecord
  PROVE  /\ is_dense'
         /\ \/ result' = "Ok"
            \/ result' = "AggregateMismatch" /\ Overflowed
<1>0. PTypes
  BY DEF WorkerInv
<1>1. PICK p, obs, ent, g0, g1 :
        /\ p = pipe /\ obs = observed /\ ent = entries /\ g0 = gaps
        /\ g1 = w_totals.gaps
  OBVIOUS
<1>2. /\ p \in Seq(StreamRecords) /\ obs \in Seq(EntryRecords)
      /\ ent \in Seq(EntryRecords) /\ g0 \in Nat /\ g1 \in Nat
  BY <1>1 DEF WorkerInv, PTypes, WorkerTotals, BuilderInv, TypeOK
<1>3. /\ terminal = None /\ p # <<>> /\ r_pc \in Reading
  BY <1>0, <1>1, ReadSteps DEF Reading
<1>4. Follows(p, ent, obs, g0, g1)
  BY <1>1, <1>3 DEF TransitInv
<1>5. is_dense /\ InOrder(obs)
  BY <1>1 DEF AcceptedInv, HonestWorker
<1>6. PICK rec : rec = Head(p)
  OBVIOUS
<1>7. \/ rec \in TerminalRecords /\ ingest_terminal(rec)
      \/ rec = Gap /\ ingest_gap
      \/ rec \in EntryRecords /\ Accepting(rec)
      \/ rec \in EntryRecords /\ reject_entry(rec)
  BY <1>0, <1>1, <1>3, <1>6, HeadOffered
  DEF ingest_directory, ingest_file, ingest_special, record_after_terminal
<1>8. CASE rec \in EntryRecords
  <2>1. /\ Len(ent) < Len(obs) /\ obs[Len(ent) + 1] = rec
        /\ \A k \in 1..Len(ent) : obs[k] = ent[k]
    BY <1>2, <1>3, <1>4, <1>6, <1>8, TransitRead
  <2>2. Verdict(rec) = "Ok" /\ DenseAfter(rec)
    BY <1>1, <1>2, <1>5, <1>8, <2>1, OrderedIsAccepted
  <2>3. rec \notin TerminalRecords /\ rec # Gap
    BY <1>8, RecordShapes
  <2>4. Accepting(rec)
    BY <1>7, <2>2, <2>3 DEF reject_entry
  <2> QED BY <2>2, <2>4 DEF Accepting, Insert
<1>9. CASE rec = Gap /\ ingest_gap
  BY <1>5, <1>9 DEF ingest_gap, index
<1>10. CASE rec \in TerminalRecords /\ ingest_terminal(rec)
  <2>1. is_dense'
    BY <1>5, <1>10 DEF ingest_terminal, index
  <2>2. Tail(p) = <<>> /\ rec = TerminalOf(w_outcome, w_totals)
    BY <1>0, <1>1, <1>3, <1>6, <1>10, TailOfTerminals
  <2>3. rec \notin EntryRecords /\ GapsIn(rec) = 0
    BY <1>10, RecordShapes DEF GapsIn
  <2>4. Follows(<<>>, ent, obs, g0 + 0, g1)
    BY <1>2, <1>3, <1>4, <1>6, <2>2, <2>3, TransitRead
  <2>5. entries = observed /\ gaps = w_totals.gaps
    BY <1>1, <1>2, <2>4, TransitEnd
  <2>6. CASE Overflowed
    BY <1>10, <2>1, <2>6 DEF ingest_terminal
  <2>7. CASE ~Overflowed
    <3>1. TotalsMatch(rec)
      BY <2>2, <2>5, <2>7, TerminalIsAccepted
    <3> QED BY <1>10, <2>1, <3>1 DEF ingest_terminal
  <2> QED BY <2>6, <2>7
<1> QED BY <1>7, <1>8, <1>9, <1>10

\* At the end of the stream the builder misses at most the terminal record,
\* and that for a cause.
LEMMA HonestEnd ==
  ASSUME WorkerInv, BuilderInv, TerminalInv, TransitInv, DeliveryInv, ReadEnd
  PROVE  /\ is_dense' = is_dense
         /\ \/ result' = "Ok"
            \/ result' = "MissingTerminal" /\ w_exit' \in {1, CrashCode}
<1>1. /\ r_pc = "records" /\ pipe = <<>> /\ w_exit # None /\ finish
      /\ UNCHANGED worker
  BY DEF ReadEnd, EndOfStream
<1>2. is_dense' = is_dense /\ result' = FinishResult /\ w_exit' = w_exit
  BY <1>1 DEF finish, index, worker
<1>3. CASE terminal = None
  <2>1. w_exit \in {0, 1, 2, 3, CrashCode}
    BY <1>1 DEF WorkerInv, PTypes
  <2>2. w_exit \notin {0, 2, 3}
    BY <1>1, <1>3 DEF DeliveryInv, ExitDelivers, LastIsTerminal, NoEarlyHeader,
                      Reading
  <2> QED BY <1>2, <1>3, <2>1, <2>2 DEF FinishResult
<1>4. CASE terminal # None
  <2>1. Follows(<<>>, entries, observed, gaps, w_totals.gaps)
    BY <1>1 DEF TransitInv, Reading
  <2>2. entries = observed
    BY <2>1, TransitEnd DEF WorkerInv, PTypes, BuilderInv, TypeOK
  <2>3. terminal.outcome = "Finished" => observed # <<>>
    BY <1>4 DEF TerminalInv, WorkerInv, OutcomeInv
  <2> QED BY <1>2, <1>4, <2>2, <2>3 DEF FinishResult
<1> QED BY <1>3, <1>4

\* Acceptance survives every step.
LEMMA StepKeepsAccepted ==
  ASSUME WorkerInv, BuilderInv, TerminalInv, TransitInv, HonestInv, PNext
  PROVE  AcceptedInv'
<1>0. PTypes /\ OrphanInv
  BY DEF WorkerInv
<1> SUFFICES ASSUME Fits' PROVE AcceptedInv'
  BY DEF AcceptedInv
<1>1. Fits /\ (Overflowed => Overflowed')
  BY <1>0, ObservedGrows
<1>2. w_exit \in {1, CrashCode} => w_exit' = w_exit
  <2>1. CASE WorkerStep \/ FlushIgnored \/ Crash
    <3>1. w_exit = None
      BY <1>0, <2>1, StreamSteps DEF PTypes
    <3> QED BY <3>1, ConstantsAssumption DEF CrashCode
  <2>2. CASE RunnerStep \/ SignalCancel \/ EngineDies
    BY <1>0, <2>2, RunnerAndWorker, ConstantsAssumption DEF CrashCode
  <2> QED BY <2>1, <2>2 DEF PNext
<1>3. CASE UNCHANGED <<is_dense, result>>
  BY <1>1, <1>2, <1>3 DEF HonestInv, AcceptedInv
<1>4. CASE WorkerStep \/ FlushIgnored \/ Crash
  BY <1>3, <1>4, StreamSteps DEF vars, index
<1>5. CASE Idle \/ ReadHeader
  <2>1. UNCHANGED vars
    BY <1>5, IdleSteps DEF ReadHeader
  <2> QED BY <1>3, <2>1 DEF vars, index
<1>6. CASE ReadRecord
  <2>1. /\ is_dense'
        /\ \/ result' = "Ok"
           \/ result' = "AggregateMismatch" /\ Overflowed
    BY <1>1, <1>6, HonestHead DEF HonestInv
  <2> QED BY <1>1, <2>1 DEF AcceptedInv
<1>7. CASE ReadEnd
  <2>1. /\ is_dense' = is_dense
        /\ \/ result' = "Ok"
           \/ result' = "MissingTerminal" /\ w_exit' \in {1, CrashCode}
    BY <1>7, HonestEnd DEF HonestInv
  <2> QED BY <1>1, <2>1 DEF HonestInv, AcceptedInv
<1> QED BY <1>4, <1>5, <1>6, <1>7 DEF PNext, RunnerStep, Idle, Starting, Ending

\* What scan_directory writes is never refused while its ids and its sums
\* last, and a terminal record is missing only for a cause.
THEOREM HonestStreamIsAccepted == PSpec => []HonestStreamAccepted
<1>1. PInit => HonestInv
  <2> SUFFICES ASSUME PInit PROVE HonestInv
    OBVIOUS
  <2>1. Len(<<>>) = 0 /\ MaxU32 \in Nat
    BY EmptySeq, PipelineAssumption
  <2>2. HonestWorker
    BY <2>1 DEF PInit, HonestWorker, InOrder
  <2>3. DeliveryInv
    BY <2>1, ConstantsAssumption
    DEF PInit, DeliveryInv, FlushDelivers, ExitDelivers, NoEarlyHeader, Reading
  <2>4. AcceptedInv
    BY DEF PInit, Init, AcceptedInv
  <2> QED BY <2>2, <2>3, <2>4 DEF HonestInv
<1>2. WorkerInv /\ BuilderInv /\ CompletenessInv /\ HonestInv /\ [PNext]_pvars
      => HonestInv'
  <2> SUFFICES ASSUME WorkerInv, BuilderInv, CompletenessInv, HonestInv,
                      [PNext]_pvars
               PROVE  HonestInv'
    OBVIOUS
  <2>0. PTypes /\ OutcomeInv /\ OrphanInv /\ TerminalInv /\ TransitInv
    BY DEF WorkerInv, CompletenessInv
  <2>1. CASE PNext
    <3>1. HonestWorker'
      BY <2>0, <2>1, WorkerKeepsOrder, RunnerKeepsOrder DEF PNext, HonestInv
    <3>2. DeliveryInv'
      BY <2>0, <2>1, WorkerDelivers, RunnerDelivers
      DEF PNext, HonestInv, DeliveryInv
    <3>3. AcceptedInv'
      BY <2>0, <2>1, StepKeepsAccepted
    <3> QED BY <3>1, <3>2, <3>3 DEF HonestInv
  <2>2. CASE UNCHANGED pvars
    <3>1. /\ UNCHANGED <<w_pc, w_stack, w_dir, w_next_id, w_exit, observed>>
          /\ UNCHANGED <<pipe, r_pc, terminal, is_dense, result>>
      BY <2>2 DEF pvars, vars, worker, runner, index
    <3> QED BY <3>1
            DEF HonestInv, HonestWorker, DeliveryInv, FlushDelivers,
                ExitDelivers, LastIsTerminal, NoEarlyHeader, AcceptedInv, Fits,
                Overflowed
  <2> QED BY <2>1, <2>2
<1>3. WorkerInv /\ HonestInv => HonestStreamAccepted
  <2> SUFFICES ASSUME WorkerInv, HonestInv, ~(Len(observed) > MaxU32)
               PROVE  HonestStreamAccepted
    BY DEF HonestStreamAccepted
  <2>1. Len(observed) \in Nat /\ MaxU32 \in Nat
    BY PipelineAssumption DEF WorkerInv, PTypes
  <2>2. Fits
    BY <2>1 DEF Fits
  <2> QED BY <2>2 DEF HonestInv, AcceptedInv, HonestStreamAccepted
<1> QED BY <1>1, <1>2, <1>3, WorkerInvariant, BuilderInScan, StreamIsComplete,
           PTL DEF PSpec
===========================================================================
