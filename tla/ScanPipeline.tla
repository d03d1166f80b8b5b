--------------------------- MODULE ScanPipeline ---------------------------
(***************************************************************************)
(* One scan: the pigtree-scan-worker process walking a directory tree      *)
(* (scan-worker lib.rs, main.rs), the anonymous pipe it writes its         *)
(* observation stream to, and the engine thread that launched it and       *)
(* drains the stream into a GraphBuilder (engine runner.rs).               *)
(*                                                                         *)
(* The file system is nondeterministic: any directory may fail to open,    *)
(* fail part-way or yield any entries.  The worker may be killed at any    *)
(* moment, also half-way through a record, and so may the engine, which    *)
(* created it suspended and has yet to put it into a job object.  The      *)
(* cancellation event may be signalled at any moment.                      *)
(***************************************************************************)
EXTENDS GraphBuilder

CONSTANTS
  PipeCapacity,  \* records the pipe holds before a write blocks
  MaxU32         \* the largest entry id

ASSUME PipelineAssumption ==
  /\ PipeCapacity \in Nat \ {0}
  /\ MaxU32 \in Nat \ {0}
  /\ 0..MaxU32 \subseteq Ids
  /\ MaxEntries > 0  \* room for the root
  /\ None \notin RunOutcomes

VARIABLES
  cancelled,      \* the inherited cancellation event
  w_pc,           \* where the worker is
  w_stack,        \* directories still to enumerate, newest last
  w_dir,          \* directory being enumerated
  w_next_id,      \* next_entry_id
  w_totals,       \* the worker's own totals
  w_outcome,      \* outcome of the terminal record it is about to write
  w_exit,         \* process exit code, None while the process lives
  observed,       \* history: every entry record written in full
  pipe,           \* records in transit
  reader_open,    \* the engine still holds the read end
  r_pc,           \* where the runner thread is, or how it ended
  r_result,       \* what launch_scan_worker_with_progress returns
  confined        \* the worker was assigned to the runner's job object

worker == <<w_pc, w_stack, w_dir, w_next_id, w_totals, w_outcome, w_exit,
            observed>>
runner == <<r_pc, r_result, confined>>
pvars == <<vars, cancelled, worker, pipe, reader_open, runner>>

Header == [kind |-> "Header"]
Gap == [kind |-> "CoverageGap"]
Torn == [kind |-> "Torn"]  \* the prefix of a record cut off by a kill

ZeroTotals == [dirs |-> 0, files |-> 0, logical |-> 0, alloc |-> 0, gaps |-> 0]

\* `+=` on u64 and u32 wraps in a release build.
wrapping_add(a, b) == (a + b) % (MaxU64 + 1)
wrapping_succ(id) == (id + 1) % (MaxU32 + 1)

ExitCodeOf(outcome) ==
  CASE outcome = "Finished" -> 0
    [] outcome = "Cancelled" -> 3
    [] outcome = "Failed" -> 1

\* Exit code of a process that was killed or faulted.
CrashCode == 99

\* "suspended" from CreateProcessW to ResumeThread.
WorkerAlive == w_pc \notin {"unborn", "exited"}
WorkerRuns == WorkerAlive /\ w_pc # "suspended"
Writing ==
  w_pc \in {"boot", "rootgap", "root", "partial", "unreadable", "facts",
            "terminal"}

PInit ==
  /\ Init
  /\ cancelled = FALSE
  /\ w_pc = "unborn"
  /\ w_stack = <<>>
  /\ w_dir = NIL
  /\ w_next_id = 1
  /\ w_totals = ZeroTotals
  /\ w_outcome = None
  /\ w_exit = None
  /\ observed = <<>>
  /\ pipe = <<>>
  /\ reader_open = TRUE
  /\ r_pc = "launch"
  /\ r_result = None
  /\ confined = FALSE

---------------------------------------------------------------------------
(* The worker process *)

others == <<vars, cancelled, pipe, reader_open, runner>>

\* A write to the pipe blocks while the pipe is full ...
Write(rec) ==
  /\ reader_open
  /\ Len(pipe) < PipeCapacity
  /\ pipe' = Append(pipe, rec)
  /\ UNCHANGED <<vars, cancelled, reader_open, runner>>

Exit(code) ==
  /\ w_pc' = "exited"
  /\ w_exit' = code
  /\ UNCHANGED <<w_stack, w_dir, w_next_id, w_totals, w_outcome, observed>>

\* ... and fails once the reader is gone, which ends the process with an
\* error whatever it was writing.
WriteFails ==
  /\ Writing
  /\ ~reader_open
  /\ Exit(1)
  /\ UNCHANGED others

\* main(): bad arguments or an unsupported target end the process before it
\* writes anything; otherwise ObservationWriter::new writes the header.
RefuseTarget ==
  /\ w_pc = "boot"
  /\ Exit(2)
  /\ UNCHANGED others

WriteHeader ==
  /\ w_pc = "boot"
  /\ Write(Header)
  /\ w_pc' = "start"
  /\ UNCHANGED <<w_stack, w_dir, w_next_id, w_totals, w_outcome, w_exit,
                 observed>>

\* scan_directory validates the target a second time, after the header.
RefuseTargetAgain ==
  /\ w_pc = "start"
  /\ Exit(1)
  /\ UNCHANGED others

\* scan_directory up to the root: already cancelled, or no directory at the
\* target, or go on.
CheckTarget ==
  /\ w_pc = "start"
  /\ \/ /\ cancelled
        /\ w_outcome' = "Cancelled"
        /\ w_pc' = "terminal"
     \/ /\ ~cancelled
        /\ MaxGaps > 0
        /\ w_outcome' = "Failed"
        /\ w_pc' = "rootgap"
     \/ /\ ~cancelled
        /\ w_pc' = "root"
        /\ UNCHANGED w_outcome
  /\ UNCHANGED <<others, w_stack, w_dir, w_next_id, w_totals, w_exit,
                 observed>>

\* Mutant: a gap is written but not counted.
CountGap_Forgotten == UNCHANGED w_totals
CountGap == w_totals' = [w_totals EXCEPT !.gaps = @ + 1]

WriteRootGap ==
  /\ w_pc = "rootgap"
  /\ Write(Gap)
  /\ CountGap
  /\ w_pc' = "terminal"
  /\ UNCHANGED <<w_stack, w_dir, w_next_id, w_outcome, w_exit, observed>>

\* An entry goes out and into the worker's totals.
WriteEntry(r) ==
  /\ Write(r)
  /\ observed' = Append(observed, r)
  /\ w_next_id' = wrapping_succ(w_next_id)
  /\ w_totals' =
       [w_totals EXCEPT
          !.dirs = IF r.kind = "Directory" THEN @ + 1 ELSE @,
          !.files = IF r.kind = "File" THEN @ + 1 ELSE @,
          !.logical = wrapping_add(@, r.logical_size),
          !.alloc = wrapping_add(@, unwrap_or_zero(r.allocated_size))]

WriteRoot ==
  /\ w_pc = "root"
  /\ \E r \in EntryRecords :
       /\ r.kind = "Directory" /\ r.id = w_next_id /\ r.parent_id = 0
       /\ WriteEntry(r)
  /\ w_stack' = <<w_next_id>>
  /\ w_pc' = "pop"
  /\ UNCHANGED <<w_dir, w_outcome, w_exit>>

\* The traversal loop: no directory left, cancelled, or enumerate the newest
\* directory.
PopDirectory ==
  /\ w_pc = "pop"
  /\ IF w_stack = <<>>
     THEN /\ w_outcome' = "Finished"
          /\ w_pc' = "terminal"
          /\ UNCHANGED <<w_stack, w_dir>>
     ELSE /\ w_stack' = SubSeq(w_stack, 1, Len(w_stack) - 1)
          /\ w_dir' = w_stack[Len(w_stack)]
          /\ IF cancelled
             THEN w_outcome' = "Cancelled" /\ w_pc' = "terminal"
             ELSE w_pc' = "enumerating" /\ UNCHANGED w_outcome
  /\ UNCHANGED <<others, w_next_id, w_totals, w_exit, observed>>

\* The enumeration polls the event too and yields Success, Partial,
\* OpenFailed (not reported for a vanished or empty directory) or Cancelled.
Enumerate ==
  /\ w_pc = "enumerating"
  /\ \/ /\ cancelled
        /\ w_outcome' = "Cancelled"
        /\ w_pc' = "terminal"
     \/ /\ w_pc' \in {"facts", "pop"}
        /\ UNCHANGED w_outcome
     \/ /\ w_totals.gaps < MaxGaps
        /\ w_pc' \in {"partial", "unreadable"}
        /\ UNCHANGED w_outcome
  /\ UNCHANGED <<others, w_stack, w_dir, w_next_id, w_totals, w_exit,
                 observed>>

\* The gap of a directory that failed part-way precedes its facts.
WriteGap ==
  /\ w_pc \in {"partial", "unreadable"}
  /\ Write(Gap)
  /\ CountGap
  /\ w_pc' = IF w_pc = "partial" THEN "facts" ELSE "pop"
  /\ UNCHANGED <<w_stack, w_dir, w_next_id, w_outcome, w_exit, observed>>

\* One fact of the directory: a device, a subdirectory (descended into
\* unless it is a reparse point) or a file.
WriteFact ==
  /\ w_pc = "facts"
  /\ Len(observed) < MaxEntries
  /\ \E r \in EntryRecords :
       /\ r.id = w_next_id /\ r.parent_id = w_dir
       /\ WriteEntry(r)
       /\ \/ r.kind = "Directory" /\ w_stack' = Append(w_stack, r.id)
          \/ UNCHANGED w_stack
  /\ UNCHANGED <<w_pc, w_dir, w_outcome, w_exit>>

EndOfFacts ==
  /\ w_pc = "facts"
  /\ w_pc' = "pop"
  /\ UNCHANGED <<others, w_stack, w_dir, w_next_id, w_totals, w_outcome,
                 w_exit, observed>>

WriteTerminal ==
  /\ w_pc = "terminal"
  /\ Write([outcome |-> w_outcome,
            total_directories |-> w_totals.dirs,
            total_files |-> w_totals.files,
            total_logical_bytes |-> w_totals.logical,
            total_allocated_bytes |-> w_totals.alloc,
            coverage_gap_count |-> w_totals.gaps])
  /\ w_pc' = "flush"
  /\ UNCHANGED <<w_stack, w_dir, w_next_id, w_totals, w_outcome, w_exit,
                 observed>>

\* FlushFileBuffers waits until the reader has drained the pipe and fails if
\* the reader goes away first; the process then exits.  Its handle is the
\* last write end, so only this exit ends the stream.
FlushAndExit ==
  /\ w_pc = "flush"
  /\ \/ pipe = <<>> /\ Exit(ExitCodeOf(w_outcome))
     \/ ~reader_open /\ Exit(1)
  /\ UNCHANGED others

\* Where the handle cannot be flushed (ERROR_INVALID_FUNCTION) the worker
\* goes on at once and leaves what it wrote to the reader.
FlushIgnored ==
  /\ w_pc = "flush"
  /\ Exit(ExitCodeOf(w_outcome))
  /\ UNCHANGED others

WorkerStep ==
  \/ WriteFails \/ RefuseTarget \/ WriteHeader \/ RefuseTargetAgain
  \/ CheckTarget \/ WriteRootGap \/ WriteRoot \/ PopDirectory
  \/ Enumerate \/ WriteGap \/ WriteFact \/ EndOfFacts \/ WriteTerminal
  \/ FlushAndExit

---------------------------------------------------------------------------
(* The environment *)

\* The process is killed or faults; the record it was writing may be cut.
Crash ==
  /\ WorkerAlive
  /\ Exit(CrashCode)
  /\ \/ UNCHANGED pipe
     \/ Writing /\ reader_open /\ pipe' = Append(pipe, Torn)
  /\ UNCHANGED <<vars, cancelled, reader_open, runner>>

\* CancelHandle::cancel, called by the engine's main thread.
SignalCancel ==
  /\ ~cancelled
  /\ r_pc \notin {"done", "dead"}
  /\ cancelled' = TRUE
  /\ UNCHANGED <<vars, worker, pipe, reader_open, runner>>

---------------------------------------------------------------------------
(* The end of the call *)

Kill(code) == IF WorkerAlive THEN Exit(code) ELSE UNCHANGED worker

\* The kill-on-close job object ends the worker in it when its handle goes,
\* by drop or with the engine.
CloseJob == IF confined THEN Kill(CrashCode) ELSE UNCHANGED worker

Leave(pc, res) ==
  /\ r_pc' = pc
  /\ r_result' = res
  /\ reader_open' = FALSE
  /\ UNCHANGED <<vars, cancelled, pipe, confined>>

Return(res) == Leave("done", res) /\ CloseJob

\* The engine process is killed or panics.
EngineDies ==
  /\ r_pc \notin {"done", "dead"}
  /\ Leave("dead", r_result)
  /\ CloseJob

---------------------------------------------------------------------------
(* The runner thread *)

\* CreateProcessW with CREATE_SUSPENDED.
CreateWorker ==
  /\ r_pc = "launch"
  /\ w_pc' = "suspended"
  /\ r_pc' = "job"
  /\ UNCHANGED <<vars, cancelled, pipe, reader_open, r_result, confined,
                 w_stack, w_dir, w_next_id, w_totals, w_outcome, w_exit,
                 observed>>

CreateJob ==
  /\ r_pc = "job"
  /\ r_pc' = "assign"
  /\ UNCHANGED <<vars, cancelled, worker, pipe, reader_open, r_result,
                 confined>>

AssignWorker ==
  /\ r_pc = "assign"
  /\ r_pc' = "resume"
  /\ confined' = TRUE
  /\ UNCHANGED <<vars, cancelled, worker, pipe, reader_open, r_result>>

\* Somebody may have killed it in the meantime.
ResumeWorker ==
  /\ r_pc = "resume"
  /\ r_pc' = "header"
  /\ w_pc' = IF WorkerAlive THEN "boot" ELSE w_pc
  /\ UNCHANGED <<vars, cancelled, pipe, reader_open, r_result, confined,
                 w_stack, w_dir, w_next_id, w_totals, w_outcome, w_exit,
                 observed>>

LaunchCalls == {"launch", "job", "assign", "resume"}

\* Mutant: a failed launch leaves the child to the job object.
LaunchFails_JobOnly ==
  /\ r_pc \in LaunchCalls
  /\ Return("Spawn")

\* Pipe, attribute list, CreateProcessW, job object, assignment or
\* ResumeThread fails ("Spawn" for all their errors): a process created by
\* then is ended by TerminateProcess, in a job or not.
LaunchFails ==
  /\ r_pc \in LaunchCalls
  /\ Leave("done", "Spawn")
  /\ Kill(1)

\* Mutant: the parent keeps its copy of the write end open.
EndOfStream_Never == FALSE

EndOfStream == pipe = <<>> /\ w_exit # None
NextIs(rec) == pipe # <<>> /\ Head(pipe) = rec

\* ObservationReader::new; it drops the read end when the header is missing
\* or cut.
ReadHeader ==
  /\ r_pc = "header"
  /\ \/ /\ NextIs(Header)
        /\ pipe' = Tail(pipe)
        /\ r_pc' = "records"
        /\ UNCHANGED reader_open
     \/ /\ EndOfStream \/ NextIs(Torn)
        /\ r_pc' = "waitheader"
        /\ reader_open' = FALSE
        /\ UNCHANGED pipe
  /\ UNCHANGED <<vars, cancelled, worker, r_result, confined>>

IngestHead(rec) ==
  \/ terminal # None /\ record_after_terminal
  \/ "outcome" \in DOMAIN rec /\ ingest_terminal(rec)
  \/ rec = Gap /\ ingest_gap
  \/ /\ "id" \in DOMAIN rec
     /\ \/ ingest_directory(rec) \/ ingest_file(rec)
        \/ ingest_special(rec) \/ reject_entry(rec)

\* The builder's result leaves build_from_reader_with_progress, which drops
\* the reader.
StopReading(res) ==
  /\ r_pc' = "wait"
  /\ r_result' = res
  /\ reader_open' = FALSE

\* One turn of build_from_reader_with_progress: the first error ends it.
ReadRecord ==
  /\ r_pc = "records"
  /\ pipe # <<>>
  /\ Head(pipe) # Torn
  /\ IngestHead(Head(pipe))
  /\ pipe' = Tail(pipe)
  /\ IF result' = "Ok"
     THEN UNCHANGED <<r_pc, r_result, reader_open>>
     ELSE StopReading(result')
  /\ UNCHANGED <<cancelled, worker, confined>>

ReadTorn ==
  /\ r_pc = "records"
  /\ NextIs(Torn)
  /\ StopReading("Decode")
  /\ UNCHANGED <<vars, cancelled, worker, pipe, confined>>

ReadEnd ==
  /\ r_pc = "records"
  /\ EndOfStream
  /\ finish
  /\ StopReading(result')
  /\ UNCHANGED <<cancelled, worker, pipe, confined>>

\* Without a header the wait's outcome is ignored.
WaitAfterHeader ==
  /\ r_pc = "waitheader"
  /\ Return("Decode")

\* Mutant: the exit code is not compared.
SettledResult_Unchecked == r_result

\* The exit code must agree with the outcome the stream reported.
SettledResult ==
  IF r_result = "Ok" /\ w_exit # ExitCodeOf(terminal.outcome)
  THEN "WorkerExitInconsistent" ELSE r_result

WaitForExit ==
  /\ r_pc = "wait"
  /\ w_exit # None
  /\ Return(SettledResult)

\* Five seconds pass: the worker is terminated.
WaitTimesOut ==
  /\ r_pc = "wait"
  /\ w_exit = None
  /\ Return("WorkerTimeout")

RunnerStep ==
  \/ CreateWorker \/ CreateJob \/ AssignWorker \/ ResumeWorker
  \/ LaunchFails \/ ReadHeader \/ ReadRecord \/ ReadTorn \/ ReadEnd
  \/ WaitAfterHeader \/ WaitForExit \/ WaitTimesOut

PNext ==
  \/ WorkerStep \/ FlushIgnored \/ Crash
  \/ RunnerStep \/ SignalCancel \/ EngineDies

\* Both processes are scheduled and file system calls return.  A crash, a
\* cancellation or a flush that is not supported is never owed.
Fairness == WF_pvars(WorkerStep) /\ WF_pvars(RunnerStep)

PSpec == PInit /\ [][PNext]_pvars /\ Fairness

---------------------------------------------------------------------------
(* Properties *)

\* Exact totals of what was observed do not fit a u64.
Overflowed ==
  \/ SumOf(LogicalSizes(observed)) > MaxU64
  \/ SumOf(AllocatedSizes(observed)) > MaxU64

\* A graph the runner returns is the whole of what the worker saw: however
\* a kill, a cancellation or the end of the stream fell between the worker's
\* writes and the reads, no observed entry or gap is missing, the outcome is
\* the worker's own, and Finished means no directory was left unvisited
\* (the MissingTerminal check of finish and the exit-code check of
\* launch_scan_worker_with_progress).
OkIsComplete ==
  r_pc = "done" /\ r_result = "Ok" =>
    /\ entries = observed
    /\ gaps = w_totals.gaps
    /\ terminal.outcome = w_outcome
    /\ w_outcome = "Finished" => w_stack = <<>>
    /\ w_outcome = "Cancelled" => cancelled
    /\ w_exit = ExitCodeOf(w_outcome)

\* What scan_directory writes is never refused while its counters last: ids
\* stay dense, every parent precedes its children, the terminal totals agree.
\* Only past u32::MAX entries or u64::MAX bytes, where the worker's `+=`
\* wraps, can the builder object; and a terminal record is only missing when
\* the worker died or could not go on (scan_directory against
\* validate_and_insert_entry and ingest_terminal).
HonestStreamAccepted ==
  \/ Len(observed) > MaxU32
  \/ /\ is_dense
     /\ result \in {"Ok", "MissingTerminal", "AggregateMismatch"}
     /\ result = "AggregateMismatch" => Overflowed
     /\ result = "MissingTerminal" => w_exit \in {1, CrashCode}

\* "Confine child process in kill-on-close Job Object before resuming", with
\* what it is for: whichever call of the launch fails half-way, whatever ends
\* the read loop, and wherever the engine dies, a worker that runs is in a job
\* whose owner lives, and none is left when the call returns.  Only an engine
\* killed between CreateProcessW and the assignment leaves one behind, and
\* that one never runs (launch_scan_worker_with_progress).
NoOrphanWorker ==
  /\ WorkerRuns => confined /\ r_pc \notin {"done", "dead"}
  /\ r_pc = "done" => ~WorkerAlive
  /\ r_pc = "dead" /\ WorkerAlive => ~confined

\* The call returns, unless its engine dies: worker and runner never wait for
\* each other, with a full pipe, a dead worker or a reader that gave up (the
\* reader dropped before wait_for_exit, the parent's write end closed after
\* CreateProcessW).
ScanSettles == <>(r_pc \in {"done", "dead"})
=============================================================================
