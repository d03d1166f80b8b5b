-------------------------- MODULE DesktopSession --------------------------
(***************************************************************************)
(* The engine of EngineServer with the desktop client: the scan and cancel *)
(* commands of MainViewModel.cs, the calls of EngineClientSession.cs they  *)
(* make, and ProgressCoalescer.cs between the two.                         *)
(*                                                                         *)
(* The view model runs on the UI thread, the scan call on the thread pool. *)
(* Nothing serialises reads of the pipe: the scan call, the load of the    *)
(* root and every expansion of a row read frames of their own, whichever   *)
(* come.  A frame that arrives while two reads are pending may be split    *)
(* between them, after which no read finds the start of a frame (`torn`).  *)
(***************************************************************************)
EXTENDS EngineServer, Functions

CONSTANTS
  MaxScans,      \* bound: scans the user starts
  MaxExpansions  \* bound: rows the user expands, in behaviours with neither
                 \* progress nor cancellation

VARIABLES
  vm_state,     \* State of MainViewModel
  d_pc,         \* where ExecuteScanAsync is
  d_op,         \* request of the scan, None before it is sent
  d_last_seq,   \* lastProgressSeq
  ct,           \* the scan's token is cancelled
  d_cancel,     \* cancelInitiated: so it was while the call was registered
  d_result,     \* what StartScanAsync returned or threw
  d_load,       \* LoadRootAndFinishAsync: operation and final state
  shown,        \* operation whose root the projection holds
  expansions,   \* requests of rows that await their children
  received,     \* how much of outbox was read
  torn,         \* the reads have lost the frame boundaries
  latest, fresh, \* _latestReport and _hasNewReport of the coalescer
  displayed,    \* progress on the screen
  d_scans, d_expansions, \* how many the user asked for
  rows,         \* history: requests whose page was shown, and the page
  overlapped    \* history: two reads were pending at once

\* None, where no report is kept or displayed, is no report.
ASSUME ReportAssumption ==
  None \notin [kind : {"Progress"}, id : Nat, val : Nat]

command == <<d_pc, d_op, d_last_seq, d_cancel, d_result, d_load>>
coalescer == <<latest, fresh, displayed>>
counts == <<d_scans, d_expansions>>
dvars == <<vm_state, command, ct, shown, expansions, received, torn,
           coalescer, counts, rows, overlapped>>
devars == <<svars, dvars>>
serverside == <<client_lost, engine, thread>>

DInit ==
  /\ SInit
  /\ vm_state = "Idle"
  /\ d_pc = "none" /\ d_op = None /\ d_last_seq = 0
  /\ ct = FALSE /\ d_cancel = FALSE /\ d_result = None /\ d_load = None
  /\ shown = None /\ expansions = {}
  /\ received = 0 /\ torn = FALSE
  /\ latest = None /\ fresh = FALSE /\ displayed = None
  /\ d_scans = 0 /\ d_expansions = 0
  /\ rows = {} /\ overlapped = FALSE

\* A request about an operation the engine never heard of names itself.
NextId == Len(requests) + 1
SendAll(reqs) == requests' = requests \o reqs

\* What CancelAsync sends, best effort.
CancelAsync(op) == Request("Cancel", op)

CancelWritten == \E i \in 1..Len(requests) : requests[i].verb = "Cancel"

IsScanning == vm_state \in {"Scanning", "Cancelling"}
---------------------------------------------------------------------------
(* Reading frames *)

Reading == d_pc \in {"reading", "root", "children"}
PendingReads == Cardinality(expansions) + (IF Reading THEN 1 ELSE 0)

FrameWaiting == received < Len(outbox)

\* Mutant: a read at the end of the stream is tried again.
CanRead_FramesOnly == FrameWaiting

CanRead == FrameWaiting \/ e_pc = "ended"

\* The next frame, or the end of the stream or a frame of another's bytes.
Broken == Response("Broken", 0, None)
Frame == IF FrameWaiting /\ ~torn THEN outbox[received + 1] ELSE Broken
TakeFrame ==
  /\ CanRead
  /\ received' = IF Frame = Broken THEN received ELSE received + 1
  /\ overlapped' = (overlapped \/ PendingReads > 1)

Tear ==
  /\ PendingReads > 1
  /\ FrameWaiting
  /\ ~torn
  /\ torn' = TRUE
  /\ overlapped' = TRUE
  /\ UNCHANGED <<svars, vm_state, command, ct, shown, expansions, received,
                 coalescer, counts, rows>>
---------------------------------------------------------------------------
(* The scan command *)

\* No such directory.
ScanRefused ==
  /\ ~IsScanning
  /\ d_scans < MaxScans
  /\ d_scans' = d_scans + 1
  /\ vm_state' = "Failed"
  /\ d_result' = None
  /\ UNCHANGED <<svars, d_pc, d_op, d_last_seq, d_cancel, d_load, ct, shown,
                 expansions, received, torn, coalescer, d_expansions, rows,
                 overlapped>>

\* Start() and Report() of the coalescer.
StartCoalescer == latest' = None /\ fresh' = FALSE
Report(frame) == latest' = frame /\ fresh' = TRUE

\* Up to the first await of StartScanAsync; Starting is over by then.
BeginScan ==
  /\ ~IsScanning
  /\ d_scans < MaxScans
  /\ d_scans' = d_scans + 1
  /\ vm_state' = "Scanning"
  /\ d_pc' = "sending"
  /\ d_op' = None /\ d_last_seq' = 0 /\ d_result' = None /\ d_load' = None
  /\ ct' = FALSE /\ d_cancel' = FALSE
  /\ StartCoalescer
  /\ UNCHANGED <<svars, shown, expansions, received, torn, displayed,
                 d_expansions, rows, overlapped>>

\* The request is written and the token's callback registered, which runs at
\* once if the user was faster.
ScanSent ==
  /\ d_pc = "sending"
  /\ SendAll(<<Request("Scan", 0)>>
             \o IF ct THEN <<CancelAsync(NextId)>> ELSE <<>>)
  /\ d_op' = NextId
  /\ d_cancel' = ct
  /\ d_pc' = "top"
  /\ UNCHANGED <<serverside, vm_state, d_last_seq, d_result, d_load, ct,
                 shown, expansions, received, torn, coalescer, counts, rows,
                 overlapped>>

\* LoadRootAndFinishAsync up to its first await.
LoadRoot(op, final) ==
  /\ SendAll(<<Request("GetChildren", op)>>)
  /\ d_load' = [op |-> op, final |-> final]
  /\ d_pc' = "root"

\* The token was cancelled before the request was written: the view model
\* loads the root of its own operation id, which the engine does not know.
ScanNotSent ==
  /\ d_pc = "sending"
  /\ ct
  /\ LoadRoot(NextId, "Cancelled")
  /\ d_result' = "NotSent"
  /\ UNCHANGED <<serverside, vm_state, d_op, d_last_seq, d_cancel, ct, shown,
                 expansions, received, torn, coalescer, counts, rows,
                 overlapped>>

ScanReturns(result) ==
  /\ d_result' = result
  /\ d_pc' = "returned"

\* The head of the read loop: the deadline is looked at here only.
ScanTop ==
  /\ d_pc = "top"
  /\ \/ d_cancel /\ ScanReturns("TimedOut")
     \/ d_pc' = "reading" /\ UNCHANGED d_result
  /\ UNCHANGED <<svars, vm_state, d_op, d_last_seq, d_cancel, d_load, ct,
                 shown, expansions, received, torn, coalescer, counts, rows,
                 overlapped>>

FreshProgress ==
  /\ Frame.kind = "Progress"
  /\ Frame.id = d_op
  /\ Frame.val > d_last_seq

ScanProgress ==
  /\ d_pc = "reading"
  /\ TakeFrame
  /\ FreshProgress
  /\ d_last_seq' = Frame.val
  /\ Report(Frame)
  /\ d_pc' = "top"
  /\ UNCHANGED <<svars, vm_state, d_op, d_cancel, d_result, d_load, ct, shown,
                 expansions, torn, displayed, counts, rows>>

\* Mutant: the operation of the answer is not compared.
ScanVerdict_AnyAnswer(frame) ==
  IF frame.kind \in {"Error", "Busy", "Stale", "Invalid"} THEN "Failed"
  ELSE IF frame.kind \in {"Progress", "Broken"} THEN "Threw"
  ELSE IF d_cancel \/ frame.val = "Cancelled" THEN "Cancelled"
  ELSE "Finished"

\* Any other frame ends the call: with a result if it answers this scan, with
\* an exception otherwise.
ScanVerdict(frame) ==
  IF frame.kind \in {"Progress", "Broken"} \/ frame.id # d_op THEN "Threw"
  ELSE IF frame.kind # "Scan" THEN "Failed"
  ELSE IF d_cancel \/ frame.val = "Cancelled" THEN "Cancelled"
  ELSE frame.val

ScanEndsCall ==
  /\ d_pc = "reading"
  /\ TakeFrame
  /\ ~FreshProgress
  /\ ScanReturns(ScanVerdict(Frame))
  /\ UNCHANGED <<svars, vm_state, d_op, d_last_seq, d_cancel, d_load, ct,
                 shown, expansions, torn, coalescer, counts, rows>>

\* Mutant: a report still waiting for its tick is thrown away.
Flush_Drops == fresh' = FALSE /\ UNCHANGED <<latest, displayed>>

Flush ==
  /\ fresh' = FALSE
  /\ displayed' = IF latest = None THEN displayed ELSE latest
  /\ UNCHANGED latest

CancelledResult == d_result # "Threw" /\ (ct \/ d_result \in {"Cancelled", "TimedOut"})

\* Back on the UI thread.
ScanContinues ==
  /\ d_pc = "returned"
  /\ Flush
  /\ IF CancelledResult
     THEN LoadRoot(d_op, "Cancelled") /\ UNCHANGED vm_state
     ELSE IF d_result = "Finished"
     THEN LoadRoot(d_op, "Completed") /\ UNCHANGED vm_state
     ELSE vm_state' = "Failed" /\ d_pc' = "none" /\ UNCHANGED <<requests, d_load>>
  /\ UNCHANGED <<serverside, d_op, d_last_seq, d_cancel, d_result, ct, shown,
                 expansions, received, torn, counts, rows, overlapped>>

Show(asked) == rows' = rows \union {[asked |-> asked, page |-> Frame]}

\* The graph of a scan that did not finish may hold no root.
MayBeRootless(op) == Response("Scan", op, "Finished") \notin Range(outbox)

\* The root: any page is taken for it.  It is expanded if it has children; if
\* the page is empty the tree on the screen stays what it was.
RootArrives ==
  /\ d_pc = "root"
  /\ TakeFrame
  /\ \/ /\ Frame.kind = "Page"
        /\ shown' = d_load.op
        /\ SendAll(<<Request("GetChildren", d_load.op)>>)
        /\ d_pc' = "children"
        /\ UNCHANGED vm_state
     \/ /\ Frame.kind = "Page"
        /\ \/ shown' = d_load.op
           \/ MayBeRootless(Frame.val) /\ UNCHANGED shown
        /\ d_pc' = "none" /\ vm_state' = d_load.final
        /\ UNCHANGED requests
     \/ /\ Frame.kind # "Page"
        /\ d_pc' = "none" /\ vm_state' = "Failed"
        /\ UNCHANGED <<requests, shown>>
  /\ UNCHANGED <<serverside, d_op, d_last_seq, d_cancel, d_result, d_load, ct,
                 expansions, torn, coalescer, counts, rows>>

\* The final state is reached also if the root's children are not.
ChildrenArrive ==
  /\ d_pc = "children"
  /\ TakeFrame
  /\ IF Frame.kind = "Page" THEN Show(d_load.op) ELSE UNCHANGED rows
  /\ vm_state' = d_load.final
  /\ d_pc' = "none"
  /\ UNCHANGED <<svars, d_op, d_last_seq, d_cancel, d_result, d_load, ct,
                 shown, expansions, torn, coalescer, counts>>
---------------------------------------------------------------------------
(* The user *)

InCall == d_pc \in {"top", "reading"}

\* Cancelling the token runs the scan call's callback, which sends a Cancel
\* for the scan; the view model sends a second one for its own operation id.
UserCancels ==
  /\ vm_state = "Scanning"
  /\ d_expansions = 0
  /\ vm_state' = "Cancelling"
  /\ ct' = TRUE
  /\ d_cancel' = (d_cancel \/ InCall)
  /\ IF InCall
     THEN SendAll(<<CancelAsync(d_op), CancelAsync(NextId + 1)>>)
     ELSE SendAll(<<CancelAsync(NextId)>>)
  /\ UNCHANGED <<serverside, d_pc, d_op, d_last_seq, d_result, d_load, shown,
                 expansions, received, torn, coalescer, counts, rows,
                 overlapped>>

UserDismisses ==
  /\ vm_state = "Failed"
  /\ vm_state' = "Idle"
  /\ UNCHANGED <<svars, command, ct, shown, expansions, received, torn,
                 coalescer, counts, rows, overlapped>>

\* Bound: what keeps a behaviour from expanding rows, and is kept out of one
\* that does.
Plain == pulses = 0 /\ latest = None /\ displayed = None /\ ~CancelWritten

\* Also during a later scan, while the rows of the last one are still there.
UserExpands ==
  /\ shown # None
  /\ Plain
  /\ d_expansions < MaxExpansions
  /\ d_expansions' = d_expansions + 1
  /\ SendAll(<<Request("GetChildren", shown)>>)
  /\ expansions' = expansions \union {NextId}
  /\ UNCHANGED <<serverside, vm_state, command, ct, shown, received, torn,
                 coalescer, d_scans, rows, overlapped>>

ExpansionArrives ==
  /\ TakeFrame
  /\ \E id \in expansions :
       /\ expansions' = expansions \ {id}
       /\ IF Frame.kind = "Page" THEN Show(requests[id].target) ELSE UNCHANGED rows
  /\ UNCHANGED <<svars, vm_state, command, ct, shown, torn, coalescer, counts>>

\* The coalescer's timer, which runs while the command does.
Tick ==
  /\ d_pc # "none"
  /\ fresh
  /\ fresh' = FALSE
  /\ displayed' = latest
  /\ UNCHANGED <<svars, vm_state, command, ct, shown, expansions, received,
                 torn, latest, counts, rows, overlapped>>

\* The engine process is killed or panics.
EngineDies ==
  /\ e_pc # "ended"
  /\ e_pc' = "ended"
  /\ UNCHANGED <<requests, client_lost, thread, consumed, outbox, scanning,
                 settled_scan, swallowed, dvars>>

CallStep ==
  \/ ScanSent \/ ScanNotSent \/ ScanTop \/ ScanProgress \/ ScanEndsCall
  \/ ScanContinues \/ RootArrives \/ ChildrenArrive \/ ExpansionArrives

UserStep ==
  ScanRefused \/ BeginScan \/ UserCancels \/ UserDismisses \/ UserExpands

DNext ==
  \/ CallStep \/ UserStep \/ Tick \/ Tear
  \/ (EngineStep \/ RunnerReturns) /\ UNCHANGED dvars
  \/ RunnerProgress /\ d_expansions = 0 /\ UNCHANGED dvars
  \/ EngineDies

\* The client's threads are scheduled; a cancellation, a tick or a torn frame
\* is never owed.
ClientFairness == WF_devars(CallStep)
EngineFairness ==
  /\ WF_devars(EngineStep /\ UNCHANGED dvars)
  /\ WF_devars(RunnerReturns /\ UNCHANGED dvars)

DSpec == DInit /\ [][DNext]_devars /\ ClientFairness /\ EngineFairness

\* With an engine that may stay silent.
DSpecSilentEngine == DInit /\ [][DNext]_devars /\ ClientFairness

---------------------------------------------------------------------------
(* Properties *)

\* The state shown is of a scan in progress exactly while the command runs.  A
\* scan is shown as Completed only if the engine finished that very scan, and
\* then the tree on the screen is that scan's, whatever Cancels, refused scans
\* and frames of other calls came in between (StartScanAsync's checks and
\* LoadRootAndFinishAsync).
CompletedIsTrue ==
  /\ IsScanning <=> d_pc # "none"
  /\ vm_state = "Completed" =>
       /\ shown = d_op
       /\ \E k \in 1..received : outbox[k] = Response("Scan", d_op, "Finished")

\* When a scan is over the numbers on the screen are those of the last
\* progress received for it, although reports arrive on one thread and are
\* shown at ticks of another (Flush before the final state).
LastProgressShown ==
  d_pc = "none" /\ d_last_seq > 0 =>
    displayed = Response("Progress", d_op, d_last_seq)

\* With no id compared by GetChildrenAsync, rows come from the operation they
\* are shown under as long as no Cancel was sent and no two reads overlapped.
RowsAreOwn ==
  ~CancelWritten /\ ~overlapped => \A r \in rows : r.page.val = r.asked

\* The scan command always ends, so the user can scan again: whatever the
\* engine answers, also if it dies, unless another read took the answer away.
ScanCommandEnds == IsScanning ~> ~IsScanning \/ overlapped

\* "Enforce bounded 2-second cancellation settlement timeout": a cancelled
\* scan call returns, also from an engine that says nothing.
CancelIsBounded == d_cancel /\ InCall ~> ~InCall
=============================================================================
