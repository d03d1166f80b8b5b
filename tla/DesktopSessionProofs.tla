------------------------ MODULE DesktopSessionProofs ------------------------
(***************************************************************************)
(* What the desktop client shows is true, although its reads of the pipe   *)
(* are not serialised and compare no request ids.  The engine keeps the    *)
(* promises of EngineServerProofs to this client; on top of them the       *)
(* invariant has a part per property: what the scan command remembers of   *)
(* the frames it read, what the coalescer keeps of them, and, as long as   *)
(* no Cancel was written and no two reads overlapped, which requests are   *)
(* still to be answered and who waits for them.                            *)
(***************************************************************************)
EXTENDS DesktopSession, EngineServerProofs

DesktopVerbs == {"Scan", "Cancel", "GetChildren"}

\* Scans are answered in the order they are asked for, pulses are of the
\* newest scan or older ones, and the newest has pulsed if one was sent.
ScanLog ==
  /\ \A j, k \in 1..Len(outbox) :
       j < k /\ outbox[j].kind = "Scan" /\ outbox[k].kind = "Scan" =>
         outbox[j].id < outbox[k].id
  /\ active # None => active \in 1..consumed /\ requests[active].verb = "Scan"
  /\ \A k \in 1..Len(outbox) :
       outbox[k].kind \in {"Progress", "Scan"} =>
         active # None /\ outbox[k].id <= active
  /\ \A k \in 1..Len(outbox) :
       outbox[k].kind = "Progress" /\ outbox[k].id = active => pulses > 0

\* The engine as this client meets it.
DesktopEngine ==
  /\ ServerInv
  /\ FramesFit
  /\ ~client_lost
  /\ ~InDelay
  /\ \A i \in 1..Len(requests) : requests[i].verb \in DesktopVerbs
  /\ ScanLog

DesktopTypes ==
  /\ vm_state \in {"Idle", "Scanning", "Cancelling", "Completed", "Cancelled", "Failed"}
  /\ d_pc \in {"none", "sending", "top", "reading", "returned", "root", "children"}
  /\ d_last_seq \in Nat
  /\ shown \in Nat \union {None}
  /\ received \in 0..Len(outbox)
  /\ expansions \subseteq 1..Len(requests)
  /\ d_expansions \in Nat
  /\ torn \in BOOLEAN /\ overlapped \in BOOLEAN

\* The scan shown is the newest the engine was asked for, if it was sent.
OpIsNewest ==
  /\ d_pc \in {"top", "reading", "returned"} => d_op # None
  /\ d_op # None =>
       /\ d_op \in 1..Len(requests)
       /\ requests[d_op].verb = "Scan"
       /\ \A i \in 1..Len(requests) : requests[i].verb = "Scan" => i <= d_op

FinishedRead ==
  \E k \in 1..received : outbox[k] = Response("Scan", d_op, "Finished")

\* Why a scan may be shown as completed, step by step.
ScanStory ==
  /\ d_pc = "returned" /\ d_result = "Finished" => FinishedRead
  /\ d_pc \in {"root", "children"} =>
       /\ d_load \in [op : Nat, final : {"Completed", "Cancelled"}]
       /\ d_load.final = "Completed" => d_op # None /\ d_load.op = d_op /\ FinishedRead
  /\ d_pc = "children" => shown = d_load.op

\* What is known of the newest report: it was read, it is the one kept, and
\* it is on the screen once the call is over.
ProgressStory ==
  /\ d_last_seq > 0 =>
       /\ d_op # None
       /\ latest = Response("Progress", d_op, d_last_seq)
       /\ \E k \in 1..received : outbox[k] = latest
  /\ d_pc = "sending" => d_last_seq = 0
  /\ d_pc \in {"root", "children", "none"} /\ d_last_seq > 0 => displayed = latest
  /\ fresh => latest # None

\* A cancellation leaves a Cancel in the log, torn frames an overlap.
Traces ==
  /\ ct \/ d_cancel => CancelWritten
  /\ torn => overlapped
  /\ d_expansions = 0 => expansions = {}

Quiet == ~CancelWritten /\ ~overlapped
AllRead == e_pc = "ended" /\ received = Len(outbox)

\* Requests whose answer was not read.
Outstanding ==
  {i \in 1..Len(requests) :
     \A k \in 1..received : outbox[k].id = i => outbox[k].kind = "Progress"}

\* No more answers are awaited than there are calls that wait.
Balanced ==
  IF d_pc \in {"top", "reading", "root", "children"}
  THEN \E q \in 1..Len(requests) :
         /\ Outstanding \subseteq expansions \union {q}
         /\ d_expansions = 0 /\ d_pc \in {"top", "reading"} => q = d_op
  ELSE Outstanding \subseteq expansions

\* Rows that wait are those of the tree shown, and what is unanswered besides
\* their requests is the scan, or the load of its root.
AskedFor ==
  /\ \A i \in expansions : requests[i].target = shown
  /\ \A i \in Outstanding :
       \/ requests[i].verb = "Scan" /\ d_pc \in {"top", "reading"}
       \/ /\ requests[i].verb = "GetChildren"
          /\ \/ requests[i].target = shown
             \/ d_pc \in {"root", "children"} /\ requests[i].target = d_load.op

\* Progress that was read left a report, and there is none where rows were
\* expanded.
PulsesShown ==
  /\ \A k \in 1..received :
       outbox[k].kind = "Progress" =>
         \/ displayed # None
         \/ latest # None /\ d_pc \in {"top", "reading", "returned"}
  /\ d_expansions > 0 =>
       pulses = 0 /\ \A k \in 1..Len(outbox) : outbox[k].kind # "Progress"

QuietStory == Balanced /\ AskedFor /\ PulsesShown

Story ==
  /\ DesktopTypes
  /\ OpIsNewest
  /\ ScanStory
  /\ ProgressStory
  /\ Traces
  /\ CompletedIsTrue

DesktopInv ==
  /\ DesktopEngine
  /\ Story
  /\ Quiet /\ ~AllRead => QuietStory
  /\ RowsAreOwn

---------------------------------------------------------------------------
(* Frames and requests *)

\* A frame is its three fields, and none is called Broken.
LEMMA FrameIsResponse ==
  ASSUME NEW f \in ReplyFrames
  PROVE  /\ f = Response(f.kind, f.id, f.val)
         /\ f.kind # "Broken" /\ f.id \in Nat
         /\ f.kind = "Progress" => f.val \in Nat
BY DEF ReplyFrames, Response, NumberKinds, OtherKinds

\* Only a single read can be pending where none overlaps another.
LEMMA PendingFact ==
  ASSUME ServerTypes, DesktopTypes, ~(PendingReads > 1)
  PROVE  /\ Reading => expansions = {}
         /\ \A id \in expansions : expansions = {id}
<1>1. IsFiniteSet(expansions)
  <2>1. PICK m \in Int : m = Len(requests)
    BY DEF ServerTypes
  <2>2. IsFiniteSet(1..m)
    BY FS_Interval
  <2>3. expansions \subseteq 1..m
    BY <2>1 DEF DesktopTypes
  <2> QED BY <2>2, <2>3, FS_Subset
<1>2. PICK n \in Nat : n = Cardinality(expansions)
  BY <1>1, FS_CardinalityType
<1>3. n = 0 <=> expansions = {}
  BY <1>1, <1>2, FS_EmptySet
<1>4. n <= 1 /\ (Reading => n = 0)
  <2>1. CASE Reading
    <3>1. ~(n + 1 > 1)
      BY <1>2, <2>1 DEF PendingReads
    <3> QED BY <2>1, <3>1
  <2>2. CASE ~Reading
    <3>1. ~(n + 0 > 1)
      BY <1>2, <2>2 DEF PendingReads
    <3> QED BY <2>2, <3>1
  <2> QED BY <2>1, <2>2
<1>5. ASSUME NEW id \in expansions PROVE expansions = {id}
  <2>1. /\ IsFiniteSet(expansions \ {id})
        /\ Cardinality(expansions \ {id}) = n - 1
    BY <1>1, <1>2, <1>5, FS_RemoveElement
  <2>2. n - 1 = 0
    BY <1>3, <1>4, <1>5
  <2>3. expansions \ {id} = {}
    BY <2>1, <2>2, FS_EmptySet
  <2> QED BY <1>5, <2>3
<1> QED BY <1>3, <1>4, <1>5

\* The next frame of the log was read.
GotNext ==
  /\ received + 1 \in 1..Len(outbox)
  /\ received' = received + 1
  /\ Frame = outbox[received + 1]
  /\ Frame \in ReplyFrames

\* A read finds the next frame, or nothing that makes sense because frames
\* were torn or no more will come.
LEMMA FrameRead ==
  ASSUME ServerTypes, DesktopTypes, TakeFrame
  PROVE  /\ Frame.kind # "Broken" => GotNext
         /\ Frame.kind = "Broken" => received' = received /\ (torn \/ AllRead)
<1>1. CASE FrameWaiting /\ ~torn
  <2>1. received + 1 \in 1..Len(outbox) /\ Frame = outbox[received + 1]
    BY <1>1 DEF FrameWaiting, Frame, ServerTypes, DesktopTypes
  <2>2. Frame \in ReplyFrames
    BY <2>1, ElementOfSeq DEF ServerTypes
  <2>3. Frame # Broken
    BY <2>2, FrameIsResponse DEF Broken, Response
  <2> QED BY <2>1, <2>2, <2>3, FrameIsResponse DEF TakeFrame, GotNext
<1>2. CASE ~(FrameWaiting /\ ~torn)
  <2>1. Frame = Broken /\ Frame.kind = "Broken"
    BY <1>2 DEF Frame, Broken, Response
  <2>2. torn \/ AllRead
    BY <1>2 DEF TakeFrame, CanRead, FrameWaiting, AllRead, ServerTypes, DesktopTypes
  <2> QED BY <2>1, <2>2 DEF TakeFrame
<1> QED BY <1>1, <1>2

\* A read that overlaps another is noted.
LEMMA OverlapNoted ==
  ASSUME TakeFrame, overlapped \in BOOLEAN
  PROVE  /\ overlapped' \in BOOLEAN /\ (overlapped => overlapped')
         /\ ~overlapped' => ~(PendingReads > 1)
<1>1. overlapped' = (overlapped \/ PendingReads > 1)
  BY DEF TakeFrame
<1>2. CASE PendingReads > 1
  <2>1. overlapped' = TRUE
    BY <1>1, <1>2
  <2> QED BY <2>1
<1>3. CASE ~(PendingReads > 1)
  <2>1. overlapped' = overlapped
    BY <1>1, <1>3
  <2> QED BY <1>3, <2>1
<1> QED BY <1>2, <1>3

\* What this client sends joins the log.
RequestsJoin ==
  /\ requests' \in Seq(ClientRequests)
  /\ Len(requests) \in Nat /\ Len(requests') \in Nat
  /\ Len(requests) <= Len(requests')
  /\ \A i \in 1..Len(requests) : requests'[i] = requests[i]
  /\ \A i \in (Len(requests) + 1)..Len(requests') :
       requests'[i].verb \in DesktopVerbs

\* So does a single request,
LEMMA OneSent ==
  ASSUME ServerTypes, NEW verb \in DesktopVerbs, NEW target \in Nat,
         SendAll(<<Request(verb, target)>>)
  PROVE  /\ RequestsJoin
         /\ NextId = Len(requests) + 1 /\ Len(requests') = NextId
         /\ requests'[NextId] = Request(verb, target)
         /\ requests'[NextId].verb = verb /\ requests'[NextId].target = target
<1>1. PICK r \in ClientRequests : r = Request(verb, target) /\ r.verb = verb /\ r.target = target
  BY DEF Request, ClientRequests, AllVerbs, DesktopVerbs
<1>2. <<r>> \in Seq(ClientRequests) /\ Len(<<r>>) = 1 /\ <<r>>[1] = r
  BY <1>1
<1>3. /\ requests' \in Seq(ClientRequests) /\ Len(requests') = Len(requests) + 1
      /\ Len(requests) \in Nat
      /\ \A i \in 1..(Len(requests) + 1) :
           requests'[i] = IF i <= Len(requests) THEN requests[i] ELSE <<r>>[i - Len(requests)]
  BY <1>1, <1>2, ConcatProperties DEF SendAll, ServerTypes
<1> QED BY <1>1, <1>2, <1>3 DEF RequestsJoin, NextId

\* and so do two.
LEMMA TwoSent ==
  ASSUME ServerTypes, NEW v1 \in DesktopVerbs, NEW t1 \in Nat,
         NEW v2 \in DesktopVerbs, NEW t2 \in Nat,
         SendAll(<<Request(v1, t1), Request(v2, t2)>>)
  PROVE  /\ RequestsJoin
         /\ Len(requests') = Len(requests) + 2
         /\ requests'[Len(requests) + 1].verb = v1
         /\ requests'[Len(requests) + 2].verb = v2
<1>1. PICK r1 \in ClientRequests : r1 = Request(v1, t1) /\ r1.verb = v1
  BY DEF Request, ClientRequests, AllVerbs, DesktopVerbs
<1>2. PICK r2 \in ClientRequests : r2 = Request(v2, t2) /\ r2.verb = v2
  BY DEF Request, ClientRequests, AllVerbs, DesktopVerbs
<1>3. /\ <<r1, r2>> \in Seq(ClientRequests) /\ Len(<<r1, r2>>) = 2
      /\ <<r1, r2>>[1] = r1 /\ <<r1, r2>>[2] = r2
  BY <1>1, <1>2
<1>4. /\ requests' \in Seq(ClientRequests) /\ Len(requests') = Len(requests) + 2
      /\ Len(requests) \in Nat
      /\ \A i \in 1..(Len(requests) + 2) :
           requests'[i] = IF i <= Len(requests) THEN requests[i]
                          ELSE <<r1, r2>>[i - Len(requests)]
  BY <1>1, <1>2, <1>3, ConcatProperties DEF SendAll, ServerTypes
<1>5. /\ requests'[Len(requests) + 1] = r1 /\ requests'[Len(requests) + 2] = r2
      /\ \A i \in 1..Len(requests) : requests'[i] = requests[i]
  BY <1>3, <1>4, SMTT(60)
<1>6. \A i \in (Len(requests) + 1)..Len(requests') :
        i = Len(requests) + 1 \/ i = Len(requests) + 2
  BY <1>4
<1> QED BY <1>1, <1>2, <1>4, <1>5, <1>6 DEF RequestsJoin

---------------------------------------------------------------------------
(* The engine's promises to this client *)

\* The loop goes on with its scan, or takes up the next one.
LEMMA ActiveMoves ==
  ASSUME EngineStep, ~InDelay, FrameReady => Incoming.verb # "DelayedPing"
  PROVE  /\ ~InDelay'
         /\ \/ active' = active /\ pulses' = pulses
            \/ /\ FrameReady /\ Incoming.verb = "Scan"
               /\ active' = consumed + 1 /\ consumed' = consumed + 1
               /\ outbox' = outbox /\ pulses' = 0
BY DEF EngineStep, IdlePing, IdleStatus, IdleCancel, IdleShutdown, IdleGetChildren, IdleLost,
       BeginDelay, DelayCancel, DelayDrop, DelayElapses, RejectScan, StartScan,
       DrainProgress, PollEmpty, PollCancel, PollStatus, PollBusy, PollLost, KeepScanning,
       SettleScan, LeaveAfterJoin, Receive, Answer, IncomingId, scanning, thread, InDelay

\* Its pulses and outcomes stay in order,
LEMMA LoopKeepsScanLog ==
  ASSUME DesktopEngine, EngineStep
  PROVE  ScanLog' /\ ~InDelay'
<1>0. ServerInv /\ ServerInv' /\ ServerTypes /\ ServerTypes'
  BY EngineStepKeepsInv DEF DesktopEngine, ServerInv
<1>1. /\ LogsGrow /\ requests' = requests
      /\ consumed \in Nat /\ consumed' \in {consumed, consumed + 1}
      /\ \A k \in (Len(outbox) + 1)..Len(outbox') : OfActive(outbox'[k])
  BY <1>0, StepFrames
<1>2. /\ ~InDelay'
      /\ \/ active' = active /\ pulses' = pulses
         \/ /\ FrameReady /\ Incoming.verb = "Scan"
            /\ active' = consumed + 1 /\ consumed' = consumed + 1
            /\ outbox' = outbox
  <2>1. FrameReady => Incoming.verb # "DelayedPing"
    BY <1>0, IncomingIsRequest DEF DesktopEngine, DesktopVerbs, Incoming, IncomingId
  <2> QED BY <2>1, ActiveMoves DEF DesktopEngine
<1>3. /\ Len(outbox) \in Nat /\ Len(outbox') \in Nat
      /\ \A k \in 1..Len(outbox) :
           outbox'[k] = outbox[k] /\ outbox[k].id \in 1..consumed
  BY <1>0, <1>1, SMTT(60) DEF ServerTypes, LogsGrow
<1>4. \A k \in 1..Len(outbox') :
        k \in 1..Len(outbox) \/ k \in (Len(outbox) + 1)..Len(outbox')
  BY <1>3
<1>5. active' # None => active' \in 1..consumed' /\ requests'[active'].verb = "Scan"
  BY <1>1, <1>2 DEF DesktopEngine, ScanLog, Incoming, IncomingId
<1>6. InScan => active # None /\ active \in Nat
  BY <1>0, ServerAssumption DEF ServerInv, ActiveIsRead
<1>7. CASE active' = active /\ pulses' = pulses
  <2>1. \A k \in 1..Len(outbox') :
          outbox'[k].kind \in {"Progress", "Scan"} => active' # None /\ outbox'[k].id <= active'
    BY <1>1, <1>3, <1>4, <1>6, <1>7 DEF DesktopEngine, ScanLog, OfActive
  <2>2. \A k \in 1..Len(outbox') :
          outbox'[k].kind = "Progress" /\ outbox'[k].id = active' => pulses' > 0
    BY <1>1, <1>3, <1>4, <1>7 DEF DesktopEngine, ScanLog, OfActive
  <2>3. ASSUME NEW j \in 1..Len(outbox'), NEW k \in 1..Len(outbox'), j < k,
               outbox'[j].kind = "Scan", outbox'[k].kind = "Scan"
        PROVE  outbox'[j].id < outbox'[k].id
    <3>1. CASE k \in 1..Len(outbox)
      <4>1. j \in 1..Len(outbox)
        BY <1>3, <2>3, <3>1
      <4> QED BY <1>3, <2>3, <3>1, <4>1 DEF DesktopEngine, ScanLog
    <3>2. CASE k \in (Len(outbox) + 1)..Len(outbox')
      <4>1. InScan /\ outbox'[k].id = active
        BY <1>1, <2>3, <3>2 DEF OfActive
      <4>2. CASE j \in 1..Len(outbox)
        <5>1. outbox[j].id <= active /\ outbox[j].id \in Nat
          BY <1>3, <2>3, <4>2 DEF DesktopEngine, ScanLog
        <5>2. outbox[j].id # active
          BY <1>0, <1>3, <2>3, <4>1, <4>2 DEF ServerInv, AnswerLog, Answered, IsAnswer
        <5> QED BY <1>3, <1>6, <4>1, <4>2, <5>1, <5>2
      <4>3. CASE j \in (Len(outbox) + 1)..Len(outbox')
        <5>1. outbox'[j].id = active
          BY <1>1, <2>3, <4>3 DEF OfActive
        <5>2. AtMostOneAnswer'
          BY <1>0 DEF ServerInv, AnswerLog
        <5>3. j = k
          BY <2>3, <4>1, <5>1, <5>2 DEF AtMostOneAnswer, IsAnswer
        <5> QED BY <1>3, <2>3, <5>3
      <4> QED BY <1>4, <4>2, <4>3
    <3> QED BY <1>4, <3>1, <3>2
  <2> QED BY <1>2, <1>5, <2>1, <2>2, <2>3 DEF ScanLog
<1>8. CASE active' = consumed + 1 /\ outbox' = outbox
  <2>1. active' # None /\ \A k \in 1..Len(outbox) : outbox[k].id < active'
    BY <1>1, <1>3, <1>8, ServerAssumption
  <2> QED BY <1>2, <1>3, <1>5, <1>8, <2>1 DEF DesktopEngine, ScanLog
<1> QED BY <1>2, <1>7, <1>8

\* and its promises are kept to this client.
LEMMA LoopKeepsEngine ==
  ASSUME DesktopEngine, EngineStep
  PROVE  DesktopEngine'
<1>0. ServerInv /\ ServerInv' /\ ServerTypes /\ ServerTypes'
  BY EngineStepKeepsInv DEF DesktopEngine, ServerInv
<1>1. /\ LogsGrow /\ UNCHANGED <<requests, client_lost>>
      /\ \A k \in (Len(outbox) + 1)..Len(outbox') : FrameFits(k)'
  BY <1>0, StepFrames
<1>2. FramesFit'
  BY <1>0, <1>1, FramesStayFit DEF DesktopEngine
<1> QED BY <1>0, <1>1, <1>2, LoopKeepsScanLog DEF DesktopEngine

\* The runner and the death of the process leave the log alone.
LEMMA RestKeepsEngine ==
  ASSUME DesktopEngine, RunnerProgress \/ RunnerReturns \/ EngineDies
  PROVE  DesktopEngine'
<1>0. ServerTypes
  BY DEF DesktopEngine, ServerInv
<1>1. /\ UNCHANGED <<requests, consumed, outbox, client_lost, active>>
      /\ e_pc' \in {e_pc, "ended"}
      /\ pulses \in Nat /\ pulses' \in {pulses, pulses + 1}
  BY <1>0 DEF RunnerProgress, RunnerReturns, EngineDies, engine, thread, scanning, ServerTypes
<1>2. ServerInv'
  <2>1. CASE EngineDies
    BY <2>1, LossKeepsInv DEF EngineDies, DesktopEngine, scanning, thread, dvars
  <2> QED BY <2>1, RunnerKeepsInv DEF DesktopEngine
<1>3. FramesFit' /\ ScanLog' /\ ~InDelay'
  BY <1>1, SMTT(60) DEF DesktopEngine, FramesFit, FrameFits, ScanLog, InDelay
<1> QED BY <1>1, <1>2, <1>3 DEF DesktopEngine

\* So does what the client sends.
LEMMA RequestsKeepEngine ==
  ASSUME DesktopEngine, RequestsJoin, UNCHANGED serverside
  PROVE  DesktopEngine'
<1>0. ServerInv /\ ServerTypes
  BY DEF DesktopEngine, ServerInv
<1>1. UNCHANGED <<client_lost, engine, thread>>
  BY DEF serverside
<1>2. UNCHANGED <<client_lost, consumed, outbox, e_pc, active, pulses>>
  BY <1>1 DEF engine, thread
<1>3. ServerInv' /\ ServerTypes'
  BY <1>0, <1>1, RequestsKeepInv DEF RequestsJoin, ServerInv
<1>4. LogsGrow
  BY <1>0, <1>2 DEF LogsGrow, RequestsJoin, ServerTypes
<1>5. FramesFit'
  BY <1>0, <1>2, <1>3, <1>4, FramesStayFit DEF DesktopEngine, ServerTypes
<1>6. ScanLog'
  <2>1. active # None => active \in 1..consumed /\ active \in 1..Len(requests)
    BY <1>0 DEF DesktopEngine, ScanLog, ServerTypes
  <2> QED BY <1>2, <2>1 DEF DesktopEngine, ScanLog, RequestsJoin
<1>7. \A i \in 1..Len(requests') : requests'[i].verb \in DesktopVerbs
  <2>1. \A i \in 1..Len(requests') :
          i \in 1..Len(requests) \/ i \in (Len(requests) + 1)..Len(requests')
    BY DEF RequestsJoin
  <2> QED BY <2>1 DEF RequestsJoin, DesktopEngine
<1> QED BY <1>2, <1>3, <1>5, <1>6, <1>7 DEF DesktopEngine, InDelay
---------------------------------------------------------------------------
(* What is remembered stays true *)

\* The logs go on, more of the outbox may be read, and no further scan is
\* asked for.
LogsGoOn ==
  /\ LogsGrow
  /\ received' \in received..Len(outbox')
  /\ \A i \in (Len(requests) + 1)..Len(requests') : requests'[i].verb # "Scan"

\* What the client does that sends nothing leaves the logs alone,
LEMMA SilentGoOn ==
  ASSUME ServerTypes, DesktopTypes, UNCHANGED svars,
         received' = received \/ TakeFrame
  PROVE  LogsGoOn /\ RequestsJoin /\ UNCHANGED serverside
<1>1. received' \in received..Len(outbox)
  BY FrameRead DEF ServerTypes, DesktopTypes, GotNext
<1>2. UNCHANGED <<requests, serverside>> /\ UNCHANGED <<consumed, outbox>>
  BY DEF svars, serverside, engine
<1> QED BY <1>1, <1>2 DEF LogsGoOn, LogsGrow, RequestsJoin, ServerTypes

\* and what sends a request other than Scan lets them go on.
LEMMA OneSentGoesOn ==
  ASSUME ServerTypes, DesktopTypes, UNCHANGED serverside,
         received' = received \/ TakeFrame,
         NEW verb \in DesktopVerbs \ {"Scan"}, NEW target \in Nat,
         SendAll(<<Request(verb, target)>>)
  PROVE  LogsGoOn
<1>1. received' \in received..Len(outbox)
  BY FrameRead DEF ServerTypes, DesktopTypes, GotNext
<1>2. /\ RequestsJoin /\ Len(requests') = Len(requests) + 1
      /\ requests'[Len(requests) + 1].verb = verb
  BY OneSent
<1>3. UNCHANGED <<consumed, outbox>>
  BY DEF serverside, engine
<1> QED BY <1>1, <1>2, <1>3 DEF LogsGoOn, LogsGrow, RequestsJoin, ServerTypes

\* What was read and asked for is so for ever.
HistoryKept ==
  /\ received' \in 0..Len(outbox') /\ 1..Len(requests) \subseteq 1..Len(requests')
  /\ \A k \in 1..received : k \in 1..received' /\ outbox'[k] = outbox[k]
  /\ FinishedRead => FinishedRead'
  /\ CancelWritten => CancelWritten'
  /\ d_op # None =>
       /\ d_op \in 1..Len(requests')
       /\ requests'[d_op].verb = "Scan"
       /\ \A i \in 1..Len(requests') : requests'[i].verb = "Scan" => i <= d_op

LEMMA HistoryStays ==
  ASSUME ServerTypes, DesktopTypes, OpIsNewest, LogsGoOn, UNCHANGED d_op
  PROVE  HistoryKept
<1>1. /\ received \in Nat /\ received' \in Nat /\ Len(requests) \in Nat /\ Len(outbox) \in Nat
      /\ received <= received' /\ received' <= Len(outbox')
      /\ received <= Len(outbox) /\ Len(requests) <= Len(requests')
  BY DEF ServerTypes, DesktopTypes, LogsGoOn, LogsGrow
<1>2. received' \in 0..Len(outbox') /\ 1..Len(requests) \subseteq 1..Len(requests')
  BY <1>1
<1>3. \A k \in 1..received : k \in 1..received' /\ outbox'[k] = outbox[k]
  BY <1>1 DEF LogsGoOn, LogsGrow
<1>4. CancelWritten => CancelWritten'
  BY <1>1, <1>2 DEF CancelWritten, LogsGoOn, LogsGrow
<1>5. FinishedRead => FinishedRead'
  BY <1>3 DEF FinishedRead
<1>6. ASSUME d_op # None, NEW i \in 1..Len(requests'), requests'[i].verb = "Scan"
      PROVE  i <= d_op
  <2>1. i \in 1..Len(requests)
    BY <1>1, <1>6 DEF LogsGoOn
  <2> QED BY <1>6, <2>1 DEF OpIsNewest, LogsGoOn, LogsGrow
<1> QED BY <1>2, <1>3, <1>4, <1>5, <1>6 DEF HistoryKept, OpIsNewest, LogsGoOn, LogsGrow

\* So the story goes on while the command and its report stay as they are.
LEMMA StoryGoesOn ==
  ASSUME ServerTypes, Story, LogsGoOn,
         UNCHANGED <<vm_state, command, ct, shown, coalescer>>,
         expansions' \subseteq 1..Len(requests'), d_expansions' \in Nat,
         d_expansions' = 0 => expansions' = {},
         torn' \in BOOLEAN, overlapped' \in BOOLEAN, torn' => overlapped'
  PROVE  Story'
<1>0. DesktopTypes /\ OpIsNewest
  BY DEF Story
<1>1. /\ UNCHANGED <<d_pc, d_op, d_last_seq, d_cancel, d_result, d_load>>
      /\ UNCHANGED <<latest, fresh, displayed, vm_state, ct, shown>>
  BY DEF command, coalescer
<1>2. HistoryKept
  BY <1>0, <1>1, HistoryStays
<1>3. DesktopTypes'
  BY <1>0, <1>1, <1>2 DEF DesktopTypes, HistoryKept
<1>4. OpIsNewest'
  BY <1>0, <1>1, <1>2 DEF OpIsNewest, HistoryKept
<1>5. ScanStory'
  BY <1>1, <1>2 DEF HistoryKept, Story, ScanStory
<1>6. ProgressStory'
  BY <1>1, <1>2 DEF HistoryKept, Story, ProgressStory
<1>7. Traces'
  BY <1>1, <1>2 DEF HistoryKept, Story, Traces
<1>8. CompletedIsTrue'
  BY <1>1, <1>2 DEF HistoryKept, Story, CompletedIsTrue, IsScanning
<1> QED BY <1>3, <1>4, <1>5, <1>6, <1>7, <1>8 DEF Story

---------------------------------------------------------------------------
(* The scan command *)

\* A report is no None.
LEMMA ReportIsSome ==
  \A id, val \in Nat : Response("Progress", id, val) # None
BY ReportAssumption DEF Response

\* Steps that set the state shown before or after a scan.
LEMMA RestStory ==
  ASSUME ServerTypes, Story, ScanRefused \/ BeginScan \/ UserDismisses
  PROVE  LogsGoOn /\ Story'
<1>0. DesktopTypes /\ OpIsNewest
  BY DEF Story
<1>1. UNCHANGED svars /\ UNCHANGED received
  BY DEF ScanRefused, BeginScan, UserDismisses, command
<1>2. LogsGoOn /\ UNCHANGED <<requests, outbox, received>>
  BY <1>0, <1>1, SilentGoOn DEF svars, engine
<1>3. CASE ScanRefused
  <2>1. /\ UNCHANGED <<d_pc, d_op, d_last_seq, d_cancel, d_load, ct, shown, expansions, torn,
                      latest, fresh, displayed, d_expansions, overlapped>>
        /\ d_pc = "none" /\ vm_state' = "Failed"
    BY <1>3 DEF ScanRefused, coalescer, Story, CompletedIsTrue
  <2>2. DesktopTypes' /\ OpIsNewest' /\ ScanStory'
    BY <1>0, <1>2, <2>1 DEF DesktopTypes, OpIsNewest, ScanStory
  <2>3. ProgressStory' /\ Traces'
    BY <1>2, <2>1 DEF Story, ProgressStory, Traces, CancelWritten
  <2>4. CompletedIsTrue'
    BY <2>1 DEF CompletedIsTrue, IsScanning
  <2> QED BY <1>2, <2>2, <2>3, <2>4 DEF Story
<1>4. CASE BeginScan
  <2>1. /\ UNCHANGED <<shown, expansions, torn, displayed, d_expansions, overlapped>>
        /\ vm_state' = "Scanning" /\ d_pc' = "sending" /\ d_op' = None /\ d_last_seq' = 0
        /\ ct' = FALSE /\ d_cancel' = FALSE /\ latest' = None /\ fresh' = FALSE
    BY <1>4 DEF BeginScan, StartCoalescer
  <2>2. DesktopTypes' /\ OpIsNewest' /\ ScanStory'
    BY <1>0, <1>2, <2>1 DEF DesktopTypes, OpIsNewest, ScanStory
  <2>3. ProgressStory' /\ Traces'
    BY <1>2, <2>1 DEF Story, ProgressStory, Traces
  <2>4. CompletedIsTrue'
    BY <2>1 DEF CompletedIsTrue, IsScanning
  <2> QED BY <1>2, <2>2, <2>3, <2>4 DEF Story
<1>5. CASE UserDismisses
  <2>1. /\ UNCHANGED <<d_pc, d_op, d_last_seq, d_cancel, d_result, d_load, ct, shown,
                      expansions, torn, latest, fresh, displayed, d_expansions, overlapped>>
        /\ vm_state = "Failed" /\ vm_state' = "Idle"
    BY <1>5 DEF UserDismisses, command, coalescer, counts
  <2>2. DesktopTypes' /\ OpIsNewest' /\ ScanStory'
    BY <1>0, <1>2, <2>1 DEF Story, DesktopTypes, OpIsNewest, ScanStory, FinishedRead
  <2>3. ProgressStory' /\ Traces'
    BY <1>2, <2>1 DEF Story, ProgressStory, Traces, CancelWritten
  <2>4. CompletedIsTrue'
    BY <2>1 DEF Story, CompletedIsTrue, IsScanning
  <2> QED BY <1>2, <2>2, <2>3, <2>4 DEF Story
<1> QED BY <1>3, <1>4, <1>5

\* The request of a scan is the newest, and a cancelled token's Cancel
\* follows it.
LEMMA ScanSentSends ==
  ASSUME ServerTypes, ScanSent
  PROVE  /\ RequestsJoin /\ UNCHANGED serverside
         /\ NextId = Len(requests) + 1 /\ NextId \in 1..Len(requests')
         /\ requests'[NextId].verb = "Scan"
         /\ \A i \in (NextId + 1)..Len(requests') : requests'[i].verb = "Cancel"
         /\ ct => CancelWritten'
         /\ ~ct => Len(requests') = NextId
<1>1. NextId = Len(requests) + 1 /\ NextId \in Nat /\ Len(requests) \in Nat
  BY DEF NextId, ServerTypes
<1>0. UNCHANGED serverside
  BY DEF ScanSent
<1>2. CASE ct
  <2>1. SendAll(<<Request("Scan", 0), Request("Cancel", NextId)>>)
    <3>1. SendAll(<<Request("Scan", 0)>> \o <<Request("Cancel", NextId)>>)
      BY <1>2 DEF ScanSent, CancelAsync
    <3>2. ASSUME NEW r1, NEW r2 PROVE <<r1>> \o <<r2>> = <<r1, r2>>
      <4>1. PICK S : r1 \in S /\ r2 \in S
        <5>1. r1 \in {r1, r2} /\ r2 \in {r1, r2}
          OBVIOUS
        <5> QED BY <5>1
      <4>2. <<r1>> \in Seq(S) /\ <<r2>> \in Seq(S) /\ <<r1, r2>> \in Seq(S)
        BY <4>1
      <4>3. /\ <<r1>> \o <<r2>> \in Seq(S)
            /\ Len(<<r1>> \o <<r2>>) = 2
            /\ (<<r1>> \o <<r2>>)[1] = r1 /\ (<<r1>> \o <<r2>>)[2] = r2
        BY <4>2, ConcatProperties
      <4>4. /\ Len(<<r1, r2>>) = 2
            /\ \A i \in 1..2 : (<<r1>> \o <<r2>>)[i] = <<r1, r2>>[i]
        BY <4>3
      <4>5. PICK s \in Seq(S) : s = <<r1>> \o <<r2>>
        BY <4>3
      <4> QED BY <4>2, <4>3, <4>4, <4>5, SeqEqual
    <3> QED BY <3>1, <3>2
  <2>2. /\ RequestsJoin /\ Len(requests') = Len(requests) + 2
        /\ requests'[Len(requests) + 1].verb = "Scan"
        /\ requests'[Len(requests) + 2].verb = "Cancel"
    BY <1>1, <2>1, TwoSent DEF DesktopVerbs
  <2>3. /\ Len(requests) + 2 \in 1..Len(requests') /\ NextId \in 1..Len(requests')
        /\ \A i \in (NextId + 1)..Len(requests') : i = Len(requests) + 2
    BY <1>1, <2>2
  <2>4. CancelWritten'
    BY <2>2, <2>3 DEF CancelWritten
  <2> QED BY <1>0, <1>1, <1>2, <2>2, <2>3, <2>4
<1>3. CASE ~ct
  <2>1. SendAll(<<Request("Scan", 0)>>)
    BY <1>3 DEF ScanSent
  <2>2. /\ RequestsJoin /\ Len(requests') = NextId
        /\ requests'[NextId].verb = "Scan"
    BY <1>1, <2>1, OneSent DEF DesktopVerbs
  <2> QED BY <1>0, <1>1, <1>3, <2>2
<1> QED BY <1>2, <1>3

\* A scan that was sent has its story before it.
LEMMA ScanSentStory ==
  ASSUME ServerTypes, Story, ScanSent
  PROVE  Story'
<1>0. DesktopTypes /\ OpIsNewest /\ ProgressStory /\ Traces /\ CompletedIsTrue
  BY DEF Story
<1>1. /\ RequestsJoin /\ UNCHANGED serverside
      /\ NextId = Len(requests) + 1 /\ NextId \in 1..Len(requests')
      /\ requests'[NextId].verb = "Scan"
      /\ \A i \in (NextId + 1)..Len(requests') : requests'[i].verb = "Cancel"
      /\ ct => CancelWritten'
  BY ScanSentSends
<1>2. /\ UNCHANGED <<outbox, received, vm_state, d_last_seq, ct, shown, expansions, torn, latest,
                    fresh, displayed, d_expansions, overlapped>>
      /\ d_pc = "sending" /\ d_pc' = "top" /\ d_op' = NextId /\ d_cancel' = ct
  BY <1>1 DEF ScanSent, coalescer, counts, serverside, engine
<1>3. NextId # None
  BY <1>1, ServerAssumption DEF ServerTypes
<1>4. \A i \in 1..Len(requests') : requests'[i].verb = "Scan" => i <= NextId
  BY <1>1 DEF RequestsJoin
<1>5. DesktopTypes' /\ OpIsNewest'
  BY <1>0, <1>1, <1>2, <1>3, <1>4 DEF DesktopTypes, OpIsNewest, RequestsJoin
<1>6. ScanStory'
  BY <1>2 DEF ScanStory
<1>7. ProgressStory' /\ Traces'
  BY <1>0, <1>1, <1>2 DEF ProgressStory, Traces
<1>8. CompletedIsTrue'
  BY <1>0, <1>2 DEF CompletedIsTrue, IsScanning
<1> QED BY <1>5, <1>6, <1>7, <1>8 DEF Story

\* The load of a root asks for its row.
LEMMA LoadRootSends ==
  ASSUME ServerTypes, NEW op \in Nat, NEW final, LoadRoot(op, final)
  PROVE  /\ RequestsJoin
         /\ NextId = Len(requests) + 1 /\ Len(requests') = NextId
         /\ requests'[NextId].verb = "GetChildren" /\ requests'[NextId].target = op
BY OneSent DEF LoadRoot, DesktopVerbs

\* One that was not is loaded as cancelled.
LEMMA ScanNotSentStory ==
  ASSUME ServerTypes, Story, ScanNotSent
  PROVE  RequestsJoin /\ LogsGoOn /\ Story'
<1>0. DesktopTypes /\ OpIsNewest /\ ProgressStory /\ Traces /\ CompletedIsTrue
  BY DEF Story
<1>1. PICK op \in Nat : op = NextId
  BY DEF NextId, ServerTypes
<1>2. /\ UNCHANGED <<serverside, received, vm_state, d_op, d_last_seq, d_cancel, ct, shown, expansions,
                    torn, latest, fresh, displayed, d_expansions, overlapped>>
      /\ d_pc = "sending" /\ d_pc' = "root"
      /\ d_load' = [op |-> op, final |-> "Cancelled"]
      /\ LoadRoot(op, "Cancelled")
      /\ SendAll(<<Request("GetChildren", op)>>)
  BY <1>1 DEF ScanNotSent, LoadRoot, coalescer, counts
<1>3. RequestsJoin /\ LogsGoOn
  BY <1>0, <1>2, OneSentGoesOn, LoadRootSends DEF DesktopVerbs
<1>4. HistoryKept
  BY <1>0, <1>2, <1>3, HistoryStays
<1>5. DesktopTypes' /\ OpIsNewest'
  BY <1>0, <1>2, <1>4 DEF DesktopTypes, OpIsNewest, HistoryKept
<1>6. ScanStory'
  <2>1. d_load' \in [op : Nat, final : {"Completed", "Cancelled"}] /\ d_load'.final = "Cancelled"
    BY <1>2
  <2> QED BY <1>2, <2>1 DEF ScanStory
<1>7. ProgressStory' /\ Traces'
  BY <1>0, <1>2, <1>4 DEF ProgressStory, Traces, HistoryKept
<1>8. CompletedIsTrue'
  BY <1>0, <1>2 DEF CompletedIsTrue, IsScanning
<1> QED BY <1>3, <1>5, <1>6, <1>7, <1>8 DEF Story

\* The steps of the read loop send nothing, and leave the tree alone.
LEMMA LoopStory ==
  ASSUME ServerTypes, Story, ScanTop \/ ScanProgress \/ ScanEndsCall \/ Tick
  PROVE  LogsGoOn /\ Story'
<1>0. DesktopTypes /\ OpIsNewest /\ ScanStory /\ ProgressStory /\ Traces /\ CompletedIsTrue
  BY DEF Story
<1>1. /\ UNCHANGED svars
      /\ received' = received \/ TakeFrame
      /\ UNCHANGED <<vm_state, d_op, d_cancel, d_load, ct, shown, expansions, torn, d_expansions>>
      /\ overlapped' = overlapped \/ TakeFrame
  BY DEF ScanTop, ScanProgress, ScanEndsCall, ScanReturns, Tick, command, counts
<1>2. LogsGoOn
  BY <1>0, <1>1, SilentGoOn
<1>3. HistoryKept
  BY <1>0, <1>1, <1>2, HistoryStays
<1>4. overlapped' \in BOOLEAN /\ (overlapped => overlapped')
  BY <1>0, <1>1, OverlapNoted DEF DesktopTypes
<1>5. Traces'
  BY <1>0, <1>1, <1>3, <1>4 DEF Traces, HistoryKept
<1>6. CASE ScanTop
  <2>1. /\ d_pc = "top" /\ d_pc' \in {"reading", "returned"}
        /\ d_pc' = "returned" => d_result' = "TimedOut"
        /\ UNCHANGED <<d_last_seq, latest, fresh, displayed>>
    BY <1>6 DEF ScanTop, ScanReturns, coalescer
  <2>2. DesktopTypes' /\ OpIsNewest' /\ ScanStory'
    BY <1>0, <1>1, <1>3, <1>4, <2>1 DEF DesktopTypes, OpIsNewest, ScanStory, HistoryKept
  <2>3. ProgressStory'
    BY <1>0, <1>1, <1>3, <2>1 DEF ProgressStory, HistoryKept
  <2>4. CompletedIsTrue'
    BY <1>0, <1>1, <2>1 DEF CompletedIsTrue, IsScanning
  <2> QED BY <1>2, <1>5, <2>2, <2>3, <2>4 DEF Story
<1>7. CASE ScanProgress
  <2>1. /\ d_pc = "reading" /\ d_pc' = "top" /\ UNCHANGED displayed
        /\ Frame.kind = "Progress" /\ Frame.id = d_op
        /\ d_last_seq' = Frame.val /\ latest' = Frame /\ fresh' = TRUE
        /\ TakeFrame
    BY <1>7 DEF ScanProgress, FreshProgress, Report
  <2>2. GotNext
    BY <1>0, <2>1, FrameRead
  <2>3. /\ Frame = Response("Progress", d_op, d_last_seq') /\ d_last_seq' \in Nat
        /\ Frame # None
    BY <2>1, <2>2, FrameIsResponse, ReportIsSome DEF GotNext
  <2>4. \E k \in 1..received' : outbox'[k] = latest'
    <3>1. received + 1 \in 1..received' /\ outbox'[received + 1] = Frame
      BY <1>1, <2>2 DEF GotNext, svars, engine
    <3> QED BY <2>1, <3>1
  <2>5. DesktopTypes' /\ OpIsNewest' /\ ScanStory'
    BY <1>0, <1>1, <1>3, <1>4, <2>1, <2>3 DEF DesktopTypes, OpIsNewest, ScanStory, HistoryKept
  <2>6. ProgressStory'
    BY <1>0, <1>1, <2>1, <2>3, <2>4 DEF ProgressStory, OpIsNewest
  <2>7. CompletedIsTrue'
    BY <1>0, <1>1, <2>1 DEF CompletedIsTrue, IsScanning
  <2> QED BY <1>2, <1>5, <2>5, <2>6, <2>7 DEF Story
<1>8. CASE ScanEndsCall
  <2>1. /\ d_pc = "reading" /\ d_pc' = "returned" /\ d_result' = ScanVerdict(Frame)
        /\ UNCHANGED <<d_last_seq, latest, fresh, displayed>>
        /\ TakeFrame
    BY <1>8 DEF ScanEndsCall, ScanReturns, coalescer
  <2>2. d_result' = "Finished" => FinishedRead'
    <3>1. SUFFICES ASSUME d_result' = "Finished" PROVE FinishedRead'
      OBVIOUS
    <3>2. Frame.kind = "Scan" /\ Frame.id = d_op /\ Frame.val = "Finished"
      BY <2>1, <3>1 DEF ScanVerdict
    <3>3. GotNext /\ Frame = Response("Scan", d_op, "Finished")
      BY <1>0, <2>1, <3>2, FrameRead, FrameIsResponse DEF GotNext
    <3>4. received + 1 \in 1..received' /\ outbox'[received + 1] = Frame
      BY <1>1, <3>3 DEF GotNext, svars, engine
    <3> QED BY <1>1, <3>3, <3>4 DEF FinishedRead
  <2>3. DesktopTypes' /\ OpIsNewest' /\ ScanStory'
    BY <1>0, <1>1, <1>3, <1>4, <2>1, <2>2 DEF DesktopTypes, OpIsNewest, ScanStory, HistoryKept
  <2>4. ProgressStory'
    BY <1>0, <1>1, <1>3, <2>1 DEF ProgressStory, HistoryKept
  <2>5. CompletedIsTrue'
    BY <1>0, <1>1, <2>1 DEF CompletedIsTrue, IsScanning
  <2> QED BY <1>2, <1>5, <2>3, <2>4, <2>5 DEF Story
<1>9. CASE Tick
  <2>1. /\ UNCHANGED <<d_pc, d_last_seq, d_result, latest>>
        /\ d_pc # "none" /\ fresh' = FALSE /\ displayed' = latest
    BY <1>9 DEF Tick, command
  <2>2. DesktopTypes' /\ OpIsNewest' /\ ScanStory'
    BY <1>0, <1>1, <1>3, <1>4, <2>1 DEF DesktopTypes, OpIsNewest, ScanStory, HistoryKept
  <2>3. ProgressStory'
    BY <1>0, <1>1, <1>3, <2>1 DEF ProgressStory, HistoryKept
  <2>4. CompletedIsTrue'
    BY <1>0, <1>1, <2>1 DEF CompletedIsTrue, IsScanning
  <2> QED BY <1>2, <1>5, <2>2, <2>3, <2>4 DEF Story
<1> QED BY <1>6, <1>7, <1>8, <1>9

\* The call's result reaches the UI thread with the last report.
LEMMA ScanContinuesSends ==
  ASSUME ServerTypes, Story, ScanContinues
  PROVE  /\ LogsGoOn /\ RequestsJoin /\ UNCHANGED serverside
         /\ d_op \in 1..Len(requests)
         /\ \/ /\ LoadRoot(d_op, "Cancelled") \/ (d_result = "Finished" /\ LoadRoot(d_op, "Completed"))
               /\ UNCHANGED vm_state
            \/ /\ vm_state' = "Failed" /\ d_pc' = "none"
               /\ UNCHANGED <<requests, d_load>>
<1>0. DesktopTypes /\ OpIsNewest
  BY DEF Story
<1>1. d_op \in Nat /\ d_op \in 1..Len(requests)
  BY <1>0 DEF OpIsNewest, ScanContinues
<1>2. /\ UNCHANGED <<serverside, received>>
      /\ \/ /\ LoadRoot(d_op, "Cancelled") \/ (d_result = "Finished" /\ LoadRoot(d_op, "Completed"))
            /\ UNCHANGED vm_state
         \/ /\ vm_state' = "Failed" /\ d_pc' = "none"
            /\ UNCHANGED <<requests, d_load>>
  BY DEF ScanContinues
<1>3. CASE LoadRoot(d_op, "Cancelled") \/ LoadRoot(d_op, "Completed")
  <2>1. RequestsJoin
    BY <1>1, <1>3, LoadRootSends
  <2>2. SendAll(<<Request("GetChildren", d_op)>>)
    BY <1>3 DEF LoadRoot
  <2>3. LogsGoOn
    BY <1>0, <1>1, <1>2, <2>2, OneSentGoesOn DEF DesktopVerbs
  <2> QED BY <1>1, <1>2, <2>1, <2>3
<1>4. CASE UNCHANGED requests
  <2>1. UNCHANGED svars /\ received' = received
    BY <1>2, <1>4 DEF svars, serverside
  <2> QED BY <1>0, <1>1, <1>2, <2>1, SilentGoOn
<1> QED BY <1>2, <1>3, <1>4

\* Only a finished scan is loaded as completed, and none before Flush.
LEMMA ScanContinuesStory ==
  ASSUME ServerTypes, Story, ScanContinues
  PROVE  Story'
<1>0. DesktopTypes /\ OpIsNewest /\ ScanStory /\ ProgressStory /\ Traces /\ CompletedIsTrue
  BY DEF Story
<1>1. /\ LogsGoOn
      /\ d_op \in 1..Len(requests)
      /\ \/ /\ LoadRoot(d_op, "Cancelled") \/ (d_result = "Finished" /\ LoadRoot(d_op, "Completed"))
            /\ UNCHANGED vm_state
         \/ /\ vm_state' = "Failed" /\ d_pc' = "none"
            /\ UNCHANGED <<requests, d_load>>
  BY ScanContinuesSends
<1>2. /\ UNCHANGED <<outbox, received, d_op, d_last_seq, d_cancel, ct, shown, expansions, torn, latest,
                    d_expansions, overlapped>>
      /\ d_pc = "returned" /\ fresh' = FALSE
      /\ displayed' = IF latest = None THEN displayed ELSE latest
  BY DEF ScanContinues, Flush, counts, serverside, engine
<1>3. HistoryKept
  BY <1>0, <1>1, <1>2, HistoryStays
<1>4. /\ d_pc' \in {"root", "none"}
      /\ d_pc' = "root" =>
           /\ d_load' \in [op : Nat, final : {"Completed", "Cancelled"}]
           /\ d_load'.op = d_op /\ (d_load'.final = "Completed" => FinishedRead)
           /\ UNCHANGED vm_state
      /\ d_pc' = "none" => vm_state' = "Failed"
  BY <1>0, <1>1, <1>2 DEF LoadRoot, ScanStory
<1>5. DesktopTypes' /\ OpIsNewest'
  BY <1>0, <1>2, <1>3, <1>4 DEF DesktopTypes, OpIsNewest, HistoryKept
<1>6. ScanStory'
  BY <1>0, <1>2, <1>3, <1>4 DEF OpIsNewest, ScanStory, HistoryKept
<1>7. ProgressStory'
  <2>1. d_last_seq > 0 => latest # None
    BY <1>0, <1>1, ReportIsSome DEF DesktopTypes, ProgressStory, ServerTypes
  <2> QED BY <1>0, <1>2, <1>3, <1>4, <2>1 DEF ProgressStory, HistoryKept
<1>8. Traces'
  BY <1>0, <1>2, <1>3 DEF Traces, HistoryKept
<1>9. CompletedIsTrue'
  BY <1>0, <1>2, <1>4 DEF CompletedIsTrue, IsScanning
<1> QED BY <1>5, <1>6, <1>7, <1>8, <1>9 DEF Story

\* After a finished scan's answer only its own pages come.
LEMMA PageAfterFinish ==
  ASSUME DesktopEngine, DesktopTypes, OpIsNewest, d_op # None, FinishedRead,
         GotNext, Frame.kind = "Page"
  PROVE  ~MayBeRootless(Frame.val)
<1>0. ServerTypes /\ PageLog /\ FramesFit /\ ScanLog
  BY DEF DesktopEngine, ServerInv
<1>1. PICK n \in 1..Len(outbox) : n = received + 1 /\ Frame = outbox[n]
  BY DEF GotNext
<1>2. PICK k \in 1..received : outbox[k] = Response("Scan", d_op, "Finished")
  BY DEF FinishedRead
<1>3. /\ k \in 1..Len(outbox) /\ k < n /\ k \in Nat /\ n \in Nat
      /\ outbox[k].kind = "Scan" /\ outbox[k].id = d_op
      /\ d_op \in Nat /\ requests[d_op].verb = "Scan"
  BY <1>0, <1>1, <1>2 DEF DesktopTypes, ServerTypes, Response, OpIsNewest
<1>4. PICK j \in 1..(n - 1) :
        /\ outbox[j].kind = "Scan" /\ outbox[j].id = Frame.val
        /\ \A m \in (j + 1)..(n - 1) : KeepsGraph(m)
  BY <1>0, <1>1 DEF PageLog, PageIsCurrent, NewestBefore
<1>5. j \in 1..Len(outbox) /\ j \in Nat
  BY <1>0, <1>1, <1>4 DEF ServerTypes
<1>6. ~(j < k)
  <2>1. SUFFICES ASSUME j < k PROVE FALSE
    OBVIOUS
  <2>2. k \in (j + 1)..(n - 1)
    BY <1>3, <1>5, <2>1
  <2>3. KeepsGraph(k)
    BY <1>4, <2>2
  <2> QED BY <1>3, <2>3 DEF KeepsGraph
<1>7. ~(k < j)
  <2>1. SUFFICES ASSUME k < j PROVE FALSE
    OBVIOUS
  <2>2. d_op < outbox[j].id
    BY <1>0, <1>3, <1>4, <1>5, <2>1 DEF ScanLog
  <2>3. outbox[j].id \in 1..Len(requests)
    BY <1>0, <1>5 DEF ServerTypes
  <2>4. requests[outbox[j].id].verb = "Scan"
    BY <1>0, <1>4, <1>5 DEF FramesFit, FrameFits
  <2>5. outbox[j].id <= d_op
    BY <2>3, <2>4 DEF OpIsNewest
  <2> QED BY <1>3, <2>2, <2>3, <2>5
<1>8. Frame.val = d_op
  BY <1>3, <1>4, <1>5, <1>6, <1>7
<1>9. outbox[k] \in Range(outbox)
  BY <1>3 DEF Range, ServerTypes
<1> QED BY <1>2, <1>8, <1>9 DEF MayBeRootless

\* The page of a root is shown, or the graph has none.
LEMMA RootArrivesSends ==
  ASSUME ServerTypes, Story, RootArrives
  PROVE  /\ LogsGoOn /\ RequestsJoin /\ UNCHANGED serverside
         /\ d_load.op \in Nat
         /\ d_pc' = "children" =>
              /\ Len(requests') = Len(requests) + 1
              /\ requests'[Len(requests) + 1].verb = "GetChildren"
              /\ requests'[Len(requests) + 1].target = d_load.op
         /\ d_pc' # "children" => UNCHANGED requests
<1>0. DesktopTypes /\ OpIsNewest /\ ScanStory
  BY DEF Story
<1>1. d_load.op \in Nat
  BY <1>0 DEF ScanStory, RootArrives
<1>2. /\ UNCHANGED serverside /\ TakeFrame
      /\ \/ d_pc' = "children" /\ SendAll(<<Request("GetChildren", d_load.op)>>)
         \/ d_pc' = "none" /\ UNCHANGED requests
  BY DEF RootArrives
<1>3. CASE d_pc' = "children" /\ SendAll(<<Request("GetChildren", d_load.op)>>)
  <2>1. LogsGoOn
    BY <1>0, <1>1, <1>2, <1>3, OneSentGoesOn DEF DesktopVerbs
  <2>2. /\ RequestsJoin /\ Len(requests') = Len(requests) + 1
        /\ requests'[Len(requests) + 1].verb = "GetChildren"
        /\ requests'[Len(requests) + 1].target = d_load.op
    BY <1>1, <1>3, OneSent DEF DesktopVerbs
  <2> QED BY <1>1, <1>2, <1>3, <2>1, <2>2
<1>4. CASE d_pc' = "none" /\ UNCHANGED requests
  <2>1. UNCHANGED svars
    BY <1>2, <1>4 DEF svars, serverside
  <2> QED BY <1>0, <1>1, <1>2, <1>4, <2>1, SilentGoOn
<1> QED BY <1>2, <1>3, <1>4

\* A scan with no row to load is completed with its own tree.
LEMMA RootArrivesStory ==
  ASSUME DesktopEngine, Story, RootArrives
  PROVE  Story'
<1>0. /\ DesktopTypes /\ OpIsNewest /\ ScanStory /\ ProgressStory /\ Traces /\ CompletedIsTrue
      /\ ServerTypes
  BY DEF Story, DesktopEngine, ServerInv
<1>1. LogsGoOn /\ d_load.op \in Nat /\ TakeFrame
  BY <1>0, RootArrivesSends DEF RootArrives
<1>2. /\ UNCHANGED <<outbox, d_op, d_last_seq, d_cancel, d_load, ct, expansions, torn, latest, fresh,
                    displayed, d_expansions>>
      /\ d_pc = "root"
      /\ \/ d_pc' = "children" /\ shown' = d_load.op /\ UNCHANGED vm_state
         \/ /\ d_pc' = "none" /\ vm_state' = d_load.final /\ Frame.kind = "Page"
            /\ shown' = d_load.op \/ (MayBeRootless(Frame.val) /\ UNCHANGED shown)
         \/ d_pc' = "none" /\ vm_state' = "Failed" /\ UNCHANGED shown
  BY DEF RootArrives, coalescer, counts, serverside, engine
<1>3. HistoryKept
  BY <1>0, <1>1, <1>2, HistoryStays
<1>4. overlapped' \in BOOLEAN /\ (overlapped => overlapped')
  BY <1>0, <1>1, OverlapNoted DEF DesktopTypes
<1>5. /\ d_load.final \in {"Completed", "Cancelled"}
      /\ d_load.final = "Completed" => d_op # None /\ d_load.op = d_op /\ FinishedRead
  BY <1>0, <1>2 DEF ScanStory
<1>6. DesktopTypes' /\ OpIsNewest'
  BY <1>0, <1>1, <1>2, <1>3, <1>4, <1>5 DEF DesktopTypes, OpIsNewest, HistoryKept
<1>7. ScanStory'
  BY <1>0, <1>2, <1>3 DEF ScanStory, HistoryKept
<1>8. ProgressStory' /\ Traces'
  BY <1>0, <1>2, <1>3, <1>4 DEF ProgressStory, Traces, HistoryKept
<1>9. CompletedIsTrue'
  <2>1. IsScanning' <=> d_pc' # "none"
    BY <1>0, <1>2, <1>5 DEF CompletedIsTrue, IsScanning
  <2>2. ASSUME vm_state' = "Completed" PROVE shown' = d_op /\ FinishedRead'
    <3>1. /\ d_load.final = "Completed" /\ Frame.kind = "Page"
          /\ shown' = d_load.op \/ MayBeRootless(Frame.val)
      BY <1>0, <1>2, <2>2 DEF CompletedIsTrue, IsScanning
    <3>2. GotNext
      BY <1>0, <1>1, <3>1, FrameRead
    <3>3. ~MayBeRootless(Frame.val)
      BY <1>0, <1>5, <3>1, <3>2, PageAfterFinish
    <3> QED BY <1>3, <1>5, <3>1, <3>3 DEF HistoryKept
  <2> QED BY <1>2, <2>1, <2>2 DEF CompletedIsTrue, FinishedRead
<1> QED BY <1>6, <1>7, <1>8, <1>9 DEF Story

\* So is one whose rows came, or did not.
LEMMA ChildrenArriveStory ==
  ASSUME ServerTypes, Story, ChildrenArrive
  PROVE  LogsGoOn /\ Story'
<1>0. DesktopTypes /\ OpIsNewest /\ ScanStory /\ ProgressStory /\ Traces /\ CompletedIsTrue
  BY DEF Story
<1>1. /\ UNCHANGED svars /\ TakeFrame
      /\ UNCHANGED <<d_op, d_last_seq, d_cancel, d_load, ct, shown, expansions, torn, latest, fresh,
                    displayed, d_expansions>>
      /\ d_pc = "children" /\ d_pc' = "none" /\ vm_state' = d_load.final
  BY DEF ChildrenArrive, coalescer, counts
<1>2. LogsGoOn
  BY <1>0, <1>1, SilentGoOn
<1>3. HistoryKept
  BY <1>0, <1>1, <1>2, HistoryStays
<1>4. overlapped' \in BOOLEAN /\ (overlapped => overlapped')
  BY <1>0, <1>1, OverlapNoted DEF DesktopTypes
<1>5. /\ d_load.final \in {"Completed", "Cancelled"} /\ shown = d_load.op
      /\ d_load.final = "Completed" => d_op # None /\ d_load.op = d_op /\ FinishedRead
  BY <1>0, <1>1 DEF ScanStory
<1>6. DesktopTypes' /\ OpIsNewest' /\ ScanStory'
  BY <1>0, <1>1, <1>3, <1>4, <1>5 DEF DesktopTypes, OpIsNewest, ScanStory, HistoryKept
<1>7. ProgressStory' /\ Traces'
  BY <1>0, <1>1, <1>3, <1>4 DEF ProgressStory, Traces, HistoryKept
<1>8. CompletedIsTrue'
  BY <1>0, <1>1, <1>3, <1>5 DEF CompletedIsTrue, IsScanning, FinishedRead, HistoryKept
<1> QED BY <1>2, <1>6, <1>7, <1>8 DEF Story

\* A cancellation of the user leaves its Cancel in the log.
LEMMA UserCancelsStory ==
  ASSUME ServerTypes, Story, UserCancels
  PROVE  LogsGoOn /\ RequestsJoin /\ UNCHANGED serverside /\ CancelWritten' /\ Story'
<1>0. DesktopTypes /\ OpIsNewest /\ ScanStory /\ ProgressStory /\ Traces /\ CompletedIsTrue
  BY DEF Story
<1>1. /\ UNCHANGED <<serverside, received, d_pc, d_op, d_last_seq, d_result, d_load, shown, expansions,
                    torn, latest, fresh, displayed, d_expansions, overlapped>>
      /\ vm_state = "Scanning" /\ vm_state' = "Cancelling"
      /\ \/ /\ d_pc \in {"top", "reading"}
            /\ SendAll(<<Request("Cancel", d_op), Request("Cancel", NextId + 1)>>)
         \/ SendAll(<<Request("Cancel", NextId)>>)
  BY DEF UserCancels, InCall, CancelAsync, coalescer, counts
<1>2. NextId \in Nat /\ NextId + 1 \in Nat /\ NextId = Len(requests) + 1 /\ Len(requests) \in Nat
  BY DEF NextId, ServerTypes
<1>3. d_pc \in {"top", "reading"} => d_op \in Nat
  BY <1>0 DEF OpIsNewest
<1>4. /\ RequestsJoin /\ Len(requests') \in {NextId, NextId + 1}
      /\ requests'[NextId].verb = "Cancel"
      /\ Len(requests') = NextId + 1 => requests'[NextId + 1].verb = "Cancel"
  <2>1. CASE d_pc \in {"top", "reading"}
             /\ SendAll(<<Request("Cancel", d_op), Request("Cancel", NextId + 1)>>)
    BY <1>2, <1>3, <2>1, TwoSent DEF DesktopVerbs
  <2>2. CASE SendAll(<<Request("Cancel", NextId)>>)
    BY <1>2, <2>2, OneSent DEF DesktopVerbs
  <2> QED BY <1>1, <2>1, <2>2
<1>5. /\ NextId \in 1..Len(requests')
      /\ \A i \in NextId..Len(requests') : requests'[i].verb = "Cancel"
  BY <1>2, <1>4
<1>6. CancelWritten'
  BY <1>4, <1>5 DEF CancelWritten
<1>7. LogsGoOn
  <2>1. UNCHANGED <<consumed, outbox>>
    BY <1>1 DEF serverside, engine
  <2> QED BY <1>0, <1>1, <1>2, <1>4, <1>5, <2>1
         DEF LogsGoOn, LogsGrow, RequestsJoin, ServerTypes, DesktopTypes
<1>8. HistoryKept
  BY <1>0, <1>1, <1>7, HistoryStays
<1>9. DesktopTypes' /\ OpIsNewest' /\ ScanStory'
  BY <1>0, <1>1, <1>8 DEF DesktopTypes, OpIsNewest, ScanStory, HistoryKept
<1>10. ProgressStory' /\ Traces'
  BY <1>0, <1>1, <1>6, <1>8 DEF ProgressStory, Traces, HistoryKept
<1>11. CompletedIsTrue'
  BY <1>0, <1>1 DEF CompletedIsTrue, IsScanning
<1> QED BY <1>1, <1>4, <1>6, <1>7, <1>9, <1>10, <1>11 DEF Story

\* A row that is expanded waits for the newest request.
LEMMA UserExpandsSends ==
  ASSUME ServerTypes, Story, UserExpands
  PROVE  /\ LogsGoOn /\ RequestsJoin /\ UNCHANGED serverside
         /\ NextId = Len(requests) + 1 /\ Len(requests') = NextId
         /\ requests'[NextId].verb = "GetChildren" /\ requests'[NextId].target = shown
<1>1. DesktopTypes
  BY DEF Story
<1>2. shown \in Nat
  BY <1>1 DEF DesktopTypes, UserExpands
<1>3. SendAll(<<Request("GetChildren", shown)>>) /\ UNCHANGED <<serverside, received>>
  BY DEF UserExpands
<1> QED BY <1>1, <1>2, <1>3, OneSent, OneSentGoesOn DEF DesktopVerbs

\* Rows that wait or arrive leave the scan and its report alone.
LEMMA RowStory ==
  ASSUME ServerTypes, Story, UserExpands \/ ExpansionArrives \/ Tear
  PROVE  LogsGoOn /\ Story'
<1>0. DesktopTypes /\ Traces
  BY DEF Story
<1>1. CASE UserExpands
  <2>1. /\ LogsGoOn /\ RequestsJoin
        /\ NextId = Len(requests) + 1 /\ Len(requests') = NextId
    BY <1>1, UserExpandsSends
  <2>2. /\ UNCHANGED <<vm_state, command, ct, shown, torn, coalescer, overlapped>>
        /\ d_expansions' = d_expansions + 1
        /\ expansions' = expansions \union {NextId}
    BY <1>1 DEF UserExpands
  <2>3. expansions' \subseteq 1..Len(requests')
    <3>1. NextId \in 1..Len(requests') /\ 1..Len(requests) \subseteq 1..Len(requests')
      BY <2>1 DEF ServerTypes
    <3> QED BY <1>0, <2>2, <3>1 DEF DesktopTypes
  <2>4. d_expansions' \in Nat /\ d_expansions' # 0
    BY <1>0, <2>2 DEF DesktopTypes
  <2>5. torn' \in BOOLEAN /\ overlapped' \in BOOLEAN /\ (torn' => overlapped')
    BY <1>0, <2>2 DEF DesktopTypes, Traces
  <2> QED BY <2>1, <2>2, <2>3, <2>4, <2>5, StoryGoesOn
<1>2. CASE ExpansionArrives
  <2>1. /\ UNCHANGED svars /\ TakeFrame
        /\ UNCHANGED <<vm_state, command, ct, shown, torn, coalescer, d_expansions>>
        /\ expansions' \subseteq expansions
    BY <1>2 DEF ExpansionArrives, counts
  <2>2. LogsGoOn /\ UNCHANGED requests
    BY <1>0, <2>1, SilentGoOn DEF svars
  <2>3. overlapped' \in BOOLEAN /\ (overlapped => overlapped')
    BY <1>0, <2>1, OverlapNoted DEF DesktopTypes
  <2>4. /\ expansions' \subseteq 1..Len(requests') /\ d_expansions' \in Nat
        /\ d_expansions' = 0 => expansions' = {}
        /\ torn' \in BOOLEAN /\ (torn' => overlapped')
    BY <1>0, <2>1, <2>2, <2>3 DEF DesktopTypes, Traces
  <2> QED BY <2>1, <2>2, <2>3, <2>4, StoryGoesOn
<1>3. CASE Tear
  <2>1. /\ UNCHANGED svars /\ received' = received
        /\ UNCHANGED <<vm_state, command, ct, shown, coalescer, expansions, d_expansions>>
        /\ torn' = TRUE /\ overlapped' = TRUE
    BY <1>3 DEF Tear, counts
  <2>2. LogsGoOn /\ UNCHANGED requests
    BY <1>0, <2>1, SilentGoOn DEF svars
  <2>3. /\ expansions' \subseteq 1..Len(requests') /\ d_expansions' \in Nat
        /\ d_expansions' = 0 => expansions' = {}
    BY <1>0, <2>1, <2>2 DEF DesktopTypes, Traces
  <2> QED BY <2>1, <2>2, <2>3, StoryGoesOn
<1> QED BY <1>1, <1>2, <1>3

\* Whatever the client does, the engine's promises and the story hold on.
ClientStep == CallStep \/ UserStep \/ Tick \/ Tear

LEMMA ClientKeepsStory ==
  ASSUME DesktopEngine, Story, ClientStep
  PROVE  /\ DesktopEngine' /\ Story'
         /\ RequestsJoin /\ UNCHANGED serverside
         /\ received' \in received..Len(outbox)
         /\ overlapped => overlapped'
<1>0. ServerTypes /\ DesktopTypes /\ OpIsNewest
  BY DEF DesktopEngine, ServerInv, Story
<1>1. CASE \/ ScanRefused \/ BeginScan \/ UserDismisses \/ ScanTop \/ ScanProgress \/ ScanEndsCall
           \/ Tick \/ ChildrenArrive \/ ExpansionArrives \/ Tear
  <2>1. UNCHANGED svars
    BY <1>1 DEF ScanRefused, BeginScan, UserDismisses, ScanTop, ScanProgress, ScanEndsCall,
                ChildrenArrive, ExpansionArrives, Tick, Tear
  <2>2. /\ received' = received \/ TakeFrame
        /\ (overlapped' = overlapped) \/ (overlapped' = TRUE) \/ TakeFrame
    BY <1>1 DEF ScanRefused, BeginScan, UserDismisses, ScanTop, ScanProgress, ScanEndsCall,
                ChildrenArrive, ExpansionArrives, Tick, Tear
  <2>3. LogsGoOn /\ RequestsJoin /\ UNCHANGED <<serverside, outbox>>
    BY <1>0, <2>1, <2>2, SilentGoOn DEF svars, engine
  <2>4. overlapped => overlapped'
    BY <1>0, <2>2, OverlapNoted DEF DesktopTypes
  <2>5. Story'
    BY <1>0, <1>1, RestStory, LoopStory, ChildrenArriveStory, RowStory
  <2>6. DesktopEngine'
    BY <2>3, RequestsKeepEngine
  <2> QED BY <2>3, <2>4, <2>5, <2>6 DEF LogsGoOn
<1>2. CASE ScanSent
  <2>1. RequestsJoin /\ UNCHANGED serverside /\ Story'
    BY <1>0, <1>2, ScanSentSends, ScanSentStory
  <2>2. received' = received /\ overlapped' = overlapped
    BY <1>2 DEF ScanSent
  <2>3. received' \in received..Len(outbox)
    BY <1>0, <2>2 DEF DesktopTypes, ServerTypes
  <2> QED BY <2>1, <2>2, <2>3, RequestsKeepEngine
<1>3. CASE ScanNotSent \/ ScanContinues \/ RootArrives \/ UserCancels \/ UserExpands
  <2>1. /\ LogsGoOn /\ RequestsJoin /\ Story' /\ UNCHANGED serverside
    BY <1>0, <1>3, ScanNotSentStory, ScanContinuesSends, ScanContinuesStory, RootArrivesSends,
       RootArrivesStory, UserCancelsStory, UserExpandsSends, RowStory DEF ScanNotSent
  <2>2. overlapped' = overlapped \/ TakeFrame
    BY <1>3 DEF ScanNotSent, ScanContinues, RootArrives, UserCancels, UserExpands
  <2>3. overlapped => overlapped'
    BY <1>0, <2>2, OverlapNoted DEF DesktopTypes
  <2>4. UNCHANGED outbox
    BY <2>1 DEF serverside, engine
  <2> QED BY <2>1, <2>3, <2>4, RequestsKeepEngine DEF LogsGoOn
<1> QED BY <1>1, <1>2, <1>3 DEF ClientStep, CallStep, UserStep

---------------------------------------------------------------------------
(* Who waits for what *)

\* A frame that was not read is awaited.
LEMMA UnreadIsAwaited ==
  ASSUME DesktopEngine, DesktopTypes, NEW k \in (received + 1)..Len(outbox)
  PROVE  outbox[k].id \in Outstanding
<1>0. ServerTypes /\ AtMostOneAnswer /\ PulseLog
  BY DEF DesktopEngine, ServerInv, AnswerLog
<1>1. /\ k \in 1..Len(outbox)
      /\ \A m \in 1..received : m \in 1..Len(outbox) /\ m < k
  BY <1>0 DEF DesktopTypes, ServerTypes
<1>2. outbox[k].id \in 1..Len(requests)
  BY <1>0, <1>1 DEF ServerTypes
<1>3. ASSUME NEW m \in 1..received, outbox[m].id = outbox[k].id
      PROVE  outbox[m].kind = "Progress"
  <2>1. m \in 1..Len(outbox) /\ m < k /\ m # k
    BY <1>0, <1>1 DEF DesktopTypes, ServerTypes
  <2>2. CASE outbox[k].kind = "Progress"
    BY <1>0, <1>1, <1>3, <2>1, <2>2 DEF PulseLog, PulseRises
  <2>3. CASE outbox[k].kind # "Progress"
    BY <1>0, <1>1, <1>3, <2>1, <2>3 DEF AtMostOneAnswer, IsAnswer
  <2> QED BY <2>2, <2>3
<1> QED BY <1>2, <1>3 DEF Outstanding

\* What a frame says of its request.
LEMMA FrameFacts ==
  ASSUME DesktopEngine, DesktopTypes, GotNext
  PROVE  /\ Frame.id \in Outstanding
         /\ Frame.kind = "Progress" => requests[Frame.id].verb = "Scan" /\ Frame.val > 0
         /\ Frame.kind = "Page" =>
              requests[Frame.id].verb # "Scan" /\ Frame.val = requests[Frame.id].target
<1>1. PICK k \in 1..Len(outbox) : k = received + 1 /\ Frame = outbox[k]
  BY DEF GotNext
<1>2. k \in (received + 1)..Len(outbox)
  BY <1>1
<1>3. FrameFits(k) /\ PageIsCurrent(k)
  BY <1>1 DEF DesktopEngine, FramesFit, ServerInv, PageLog
<1> QED BY <1>1, <1>2, <1>3, UnreadIsAwaited DEF FrameFits, PageIsCurrent

\* Requests join those awaited,
LEMMA RequestsAreAwaited ==
  ASSUME ServerTypes, DesktopTypes, RequestsJoin, UNCHANGED <<outbox, received>>
  PROVE  Outstanding' = Outstanding \union (Len(requests) + 1)..Len(requests')
<1>1. \A k \in 1..received : outbox[k].id \in 1..Len(requests)
  BY DEF ServerTypes, DesktopTypes
<1>2. \A i \in 1..Len(requests') :
        i \in 1..Len(requests) \/ i \in (Len(requests) + 1)..Len(requests')
  BY DEF RequestsJoin
<1>3. /\ \A i \in 1..Len(requests) : i \in 1..Len(requests')
      /\ \A i \in (Len(requests) + 1)..Len(requests') :
           i \in 1..Len(requests') /\ i \notin 1..Len(requests)
  BY DEF RequestsJoin
<1> QED BY <1>1, <1>2, <1>3 DEF Outstanding

\* and an answer retires its own.
LEMMA AnswerRetires ==
  ASSUME DesktopEngine, DesktopTypes, RequestsJoin, UNCHANGED outbox, GotNext
  PROVE  Outstanding' =
           (IF Frame.kind = "Progress" THEN Outstanding ELSE Outstanding \ {Frame.id})
             \union (Len(requests) + 1)..Len(requests')
<1>0. ServerTypes
  BY DEF DesktopEngine, ServerInv
<1>1. \A k \in 1..Len(outbox) : outbox[k].id \in 1..Len(requests)
  BY <1>0 DEF ServerTypes
<1>2. \A i \in 1..Len(requests') :
        i \in 1..Len(requests) \/ i \in (Len(requests) + 1)..Len(requests')
  BY DEF RequestsJoin
<1>3. /\ \A i \in 1..Len(requests) : i \in 1..Len(requests')
      /\ \A i \in (Len(requests) + 1)..Len(requests') :
           i \in 1..Len(requests') /\ i \notin 1..Len(requests)
  BY DEF RequestsJoin
<1>4. /\ \A k \in 1..received' : k \in 1..received \/ k = received + 1
      /\ \A k \in 1..received : k \in 1..received' /\ k \in 1..Len(outbox)
      /\ received + 1 \in 1..received' /\ received + 1 \in 1..Len(outbox)
  BY <1>0 DEF GotNext, DesktopTypes, ServerTypes
<1>5. Frame = outbox[received + 1] /\ Frame.id \in 1..Len(requests)
  BY <1>1, <1>4 DEF GotNext
<1>6. ASSUME NEW i \in 1..Len(requests)
      PROVE  i \in Outstanding' <=>
               i \in Outstanding /\ (i = Frame.id => Frame.kind = "Progress")
  <2>1. i \in Outstanding' <=>
          \A k \in 1..received' : outbox[k].id = i => outbox[k].kind = "Progress"
    BY <1>3 DEF Outstanding
  <2>2. i \in Outstanding <=>
          \A k \in 1..received : outbox[k].id = i => outbox[k].kind = "Progress"
    BY DEF Outstanding
  <2> QED BY <1>4, <1>5, <2>1, <2>2
<1>7. ASSUME NEW i \in (Len(requests) + 1)..Len(requests') PROVE i \in Outstanding'
  BY <1>1, <1>3, <1>4 DEF Outstanding
<1>8. Outstanding \subseteq 1..Len(requests) /\ Outstanding' \subseteq 1..Len(requests')
  BY DEF Outstanding
<1> QED BY <1>2, <1>6, <1>7, <1>8

\* While it is quiet a read that finds a frame is the only one, and one that
\* finds none is after the last.
LEMMA QuietRead ==
  ASSUME DesktopInv, TakeFrame, RequestsJoin, UNCHANGED serverside, Quiet'
  PROVE  /\ Reading => expansions = {}
         /\ \A id \in expansions : expansions = {id}
         /\ ~AllRead' => GotNext
         /\ GotNext => QuietStory
<1>0. ServerTypes /\ DesktopTypes /\ Traces /\ overlapped \in BOOLEAN
  BY DEF DesktopInv, DesktopEngine, ServerInv, Story, DesktopTypes
<1>1. Quiet /\ ~(PendingReads > 1) /\ ~torn
  <2>1. CancelWritten => CancelWritten'
    BY DEF CancelWritten, RequestsJoin
  <2> QED BY <1>0, <2>1, OverlapNoted DEF Quiet, Traces
<1>2. UNCHANGED <<outbox, e_pc>>
  BY DEF serverside, engine
<1>3. ~AllRead' => GotNext
  BY <1>0, <1>1, <1>2, FrameRead DEF AllRead
<1>4. GotNext => ~AllRead
  BY <1>0 DEF GotNext, AllRead, ServerTypes, DesktopTypes
<1> QED BY <1>0, <1>1, <1>3, <1>4, PendingFact DEF DesktopInv

\* Where nothing is read it was as quiet before.
LEMMA QuietBefore ==
  ASSUME DesktopInv, RequestsJoin, UNCHANGED <<serverside, received>>,
         overlapped => overlapped', Quiet', ~AllRead'
  PROVE  QuietStory
<1>1. CancelWritten => CancelWritten'
  BY DEF CancelWritten, RequestsJoin
<1>2. UNCHANGED <<outbox, e_pc>>
  BY DEF serverside, engine
<1> QED BY <1>1, <1>2 DEF Quiet, AllRead, DesktopInv

\* Steps that neither send nor read leave those who wait as they are.
LEMMA IdleKeepsQuiet ==
  ASSUME DesktopInv, ScanRefused \/ BeginScan \/ UserDismisses \/ ScanTop \/ Tick,
         Quiet', ~AllRead'
  PROVE  QuietStory'
<1>0. ServerTypes /\ DesktopTypes /\ Story
  BY DEF DesktopInv, DesktopEngine, ServerInv, Story
<1>1. /\ UNCHANGED svars /\ UNCHANGED <<received, expansions, d_expansions, shown>>
      /\ overlapped' = overlapped
  BY DEF ScanRefused, BeginScan, UserDismisses, ScanTop, Tick, command, counts
<1>2. RequestsJoin /\ UNCHANGED serverside /\ UNCHANGED <<requests, outbox, pulses>>
  BY <1>0, <1>1, SilentGoOn DEF svars, engine, thread
<1>3. Balanced /\ AskedFor /\ PulsesShown
  BY <1>1, <1>2, QuietBefore DEF QuietStory
<1>4. Outstanding' = Outstanding
  BY <1>1, <1>2 DEF Outstanding
<1>5. ~CancelWritten
  BY <1>2 DEF Quiet, CancelWritten
<1>6. CASE ScanRefused \/ UserDismisses
  <2>1. UNCHANGED <<d_pc, d_op, d_load, latest, displayed>>
    BY <1>6 DEF ScanRefused, UserDismisses, command, coalescer
  <2> QED BY <1>1, <1>2, <1>3, <1>4, <2>1 DEF QuietStory, Balanced, AskedFor, PulsesShown
<1>7. CASE BeginScan
  <2>1. d_pc = "none" /\ d_pc' = "sending" /\ displayed' = displayed
    BY <1>0, <1>7 DEF BeginScan, Story, CompletedIsTrue
  <2>2. Balanced' /\ AskedFor'
    BY <1>1, <1>2, <1>3, <1>4, <2>1 DEF Balanced, AskedFor
  <2>3. PulsesShown'
    BY <1>1, <1>2, <1>3, <2>1 DEF PulsesShown
  <2> QED BY <2>2, <2>3 DEF QuietStory
<1>8. CASE ScanTop
  <2>1. /\ d_pc = "top" /\ d_pc' \in {"reading", "returned"}
        /\ d_pc' = "returned" => d_cancel
        /\ UNCHANGED <<d_op, d_load, latest, displayed>>
    BY <1>8 DEF ScanTop, ScanReturns, coalescer
  <2>2. d_pc' = "reading"
    BY <1>0, <1>5, <2>1 DEF Story, Traces
  <2> QED BY <1>1, <1>2, <1>3, <1>4, <2>1, <2>2 DEF QuietStory, Balanced, AskedFor, PulsesShown
<1>9. CASE Tick
  <2>1. UNCHANGED <<d_pc, d_op, d_load, latest>> /\ displayed' = latest /\ latest # None
    BY <1>0, <1>9 DEF Tick, command, Story, ProgressStory
  <2> QED BY <1>1, <1>2, <1>3, <1>4, <2>1 DEF QuietStory, Balanced, AskedFor, PulsesShown
<1> QED BY <1>6, <1>7, <1>8, <1>9

\* A request that is sent is waited for by the scan, the load or its row.
LEMMA SendKeepsQuiet ==
  ASSUME DesktopInv, Story', Quiet', ~AllRead',
         ScanSent \/ ScanNotSent \/ ScanContinues \/ UserCancels \/ UserExpands
  PROVE  QuietStory'
<1>0. ServerTypes /\ DesktopTypes /\ Story /\ DesktopEngine
  BY DEF DesktopInv, DesktopEngine, ServerInv, Story
<1>1. /\ RequestsJoin /\ UNCHANGED <<serverside, received, shown>>
      /\ overlapped' = overlapped
  BY <1>0, ScanSentSends, ScanNotSentStory, ScanContinuesSends, UserCancelsStory, UserExpandsSends
     DEF ScanSent, ScanNotSent, ScanContinues, UserCancels, UserExpands
<1>2. UNCHANGED <<outbox, pulses>>
  BY <1>1 DEF serverside, engine, thread
<1>3. Balanced /\ AskedFor /\ PulsesShown
  BY <1>1, QuietBefore DEF QuietStory
<1>4. /\ Outstanding' = Outstanding \union (Len(requests) + 1)..Len(requests')
      /\ Outstanding \subseteq 1..Len(requests) /\ expansions \subseteq 1..Len(requests)
      /\ \A i \in 1..Len(requests) : i \in 1..Len(requests') /\ requests'[i] = requests[i]
  BY <1>0, <1>1, <1>2, RequestsAreAwaited, SMTT(60) DEF Outstanding, RequestsJoin, DesktopTypes
<1>5. ~CancelWritten' /\ ~ct
  BY <1>0 DEF Quiet, Story, Traces, CancelWritten, RequestsJoin, ScanNotSent, ScanSent,
              ScanContinues, UserCancels, UserExpands
<1> DEFINE new == Len(requests) + 1
<1>6. CASE ScanSent
  <2>1. /\ new = NextId /\ Len(requests') = new /\ requests'[new].verb = "Scan"
        /\ new \in 1..Len(requests')
    BY <1>0, <1>5, <1>6, ScanSentSends DEF ServerTypes
  <2>2. /\ d_pc = "sending" /\ d_pc' = "top" /\ d_op' = new
        /\ UNCHANGED <<expansions, d_expansions, d_load, latest, displayed>>
    BY <1>6, <2>1 DEF ScanSent, coalescer, counts
  <2>3. Outstanding' = Outstanding \union {new}
    BY <1>0, <1>4, <2>1 DEF ServerTypes
  <2>4. Balanced'
    BY <1>3, <1>4, <2>1, <2>2, <2>3 DEF Balanced
  <2>5. AskedFor'
    BY <1>1, <1>3, <1>4, <2>1, <2>2, <2>3 DEF AskedFor
  <2>6. PulsesShown'
    BY <1>1, <1>2, <1>3, <2>2 DEF PulsesShown
  <2> QED BY <2>4, <2>5, <2>6 DEF QuietStory
<1>7. CASE ScanNotSent
  BY <1>5, <1>7 DEF ScanNotSent
<1>8. CASE ScanContinues
  <2>1. /\ d_pc = "returned" /\ UNCHANGED <<d_op, expansions, d_expansions>>
        /\ displayed' = IF latest = None THEN displayed ELSE latest
    BY <1>8 DEF ScanContinues, Flush, counts
  <2>2. CASE d_pc' = "none" /\ UNCHANGED requests
    <3>1. Outstanding' = Outstanding
      BY <1>1, <1>2, <2>2 DEF Outstanding
    <3>2. Balanced' /\ AskedFor'
      BY <1>1, <1>3, <2>1, <2>2, <3>1 DEF Balanced, AskedFor
    <3>3. PulsesShown'
      BY <1>1, <1>2, <1>3, <2>1, <2>2 DEF PulsesShown
    <3> QED BY <3>2, <3>3 DEF QuietStory
  <2>3. CASE LoadRoot(d_op, "Cancelled") \/ LoadRoot(d_op, "Completed")
    <3>1. d_op \in Nat
      BY <1>0, <1>8, ScanContinuesSends
    <3>2. /\ Len(requests') = new /\ requests'[new].verb = "GetChildren"
          /\ requests'[new].target = d_op /\ new \in 1..Len(requests')
          /\ d_load'.op = d_op /\ d_pc' = "root"
      BY <1>0, <2>3, <3>1, LoadRootSends, SMTT(60) DEF LoadRoot, ServerTypes
    <3>3. Outstanding' = Outstanding \union {new}
      BY <1>0, <1>4, <3>2 DEF ServerTypes
    <3>4. Balanced'
      BY <1>3, <1>4, <2>1, <3>2, <3>3 DEF Balanced
    <3>5. AskedFor'
      BY <1>1, <1>3, <1>4, <2>1, <3>2, <3>3 DEF AskedFor
    <3>6. PulsesShown'
      BY <1>1, <1>2, <1>3, <2>1, <3>2 DEF PulsesShown
    <3> QED BY <3>4, <3>5, <3>6 DEF QuietStory
  <2> QED BY <1>0, <1>8, <2>2, <2>3, ScanContinuesSends
<1>9. CASE UserCancels
  BY <1>0, <1>5, <1>9, UserCancelsStory
<1>10. CASE UserExpands
  <2>1. /\ new = NextId /\ Len(requests') = new /\ requests'[new].verb = "GetChildren"
        /\ requests'[new].target = shown /\ new \in 1..Len(requests')
    BY <1>0, <1>10, UserExpandsSends DEF ServerTypes
  <2>2. /\ UNCHANGED <<d_pc, d_op, d_load, latest, displayed>>
        /\ pulses = 0 /\ latest = None /\ displayed = None
        /\ d_expansions' = d_expansions + 1 /\ expansions' = expansions \union {new}
    BY <1>10, <2>1 DEF UserExpands, Plain, command, coalescer
  <2>3. Outstanding' = Outstanding \union {new}
    BY <1>0, <1>4, <2>1 DEF ServerTypes
  <2>4. d_expansions' # 0
    BY <1>0, <2>2 DEF DesktopTypes
  <2>5. Balanced'
    BY <1>3, <1>4, <2>1, <2>2, <2>3, <2>4 DEF Balanced
  <2>6. AskedFor'
    BY <1>1, <1>3, <1>4, <2>1, <2>2, <2>3 DEF AskedFor
  <2>7. \A k \in 1..Len(outbox) : outbox[k].kind # "Progress"
    <3>1. CASE d_expansions > 0
      BY <1>3, <3>1 DEF PulsesShown
    <3>2. CASE d_expansions = 0
      <4>1. SUFFICES ASSUME NEW k \in 1..Len(outbox), outbox[k].kind = "Progress"
                     PROVE  FALSE
        OBVIOUS
      <4>2. k \notin 1..received
        BY <1>3, <2>2, <4>1 DEF PulsesShown
      <4>3. k \in (received + 1)..Len(outbox)
        BY <1>0, <4>2 DEF DesktopTypes, ServerTypes
      <4>4. outbox[k].id \in Outstanding
        BY <1>0, <4>3, UnreadIsAwaited
      <4>5. requests[outbox[k].id].verb = "Scan"
        BY <1>0, <4>1 DEF DesktopEngine, FramesFit, FrameFits
      <4>6. d_pc \in {"top", "reading"}
        BY <1>3, <4>4, <4>5 DEF AskedFor
      <4>7. outbox[k].id = d_op
        BY <1>0, <1>3, <3>2, <4>4, <4>6 DEF Balanced, Story, Traces
      <4>8. d_op \in 1..Len(requests) /\ \A i \in 1..Len(requests) : requests[i].verb = "Scan" => i <= d_op
        BY <1>0, <4>6 DEF Story, OpIsNewest
      <4>9. /\ active # None /\ outbox[k].id <= active
            /\ active \in 1..Len(requests) /\ requests[active].verb = "Scan"
        BY <1>0, <4>1 DEF DesktopEngine, ScanLog, ServerTypes
      <4>10. active = d_op
        BY <4>7, <4>8, <4>9
      <4> QED BY <1>0, <2>2, <4>1, <4>7, <4>10 DEF DesktopEngine, ScanLog
    <3> QED BY <1>0, <3>1, <3>2 DEF DesktopTypes
  <2>8. PulsesShown'
    BY <1>1, <1>2, <1>3, <2>2, <2>7 DEF PulsesShown
  <2> QED BY <2>5, <2>6, <2>8 DEF QuietStory
<1> QED BY <1>6, <1>7, <1>8, <1>9, <1>10

\* A scan that waits alone only reads its own frames: progress newer than
\* what it knows, or its answer.
LEMMA ProgressIsFresh ==
  ASSUME DesktopInv, QuietStory, d_pc = "reading", expansions = {}, GotNext,
         Frame.kind = "Progress"
  PROVE  FreshProgress
<1>0. ServerTypes /\ DesktopTypes /\ Story /\ DesktopEngine /\ PulseLog
  BY DEF DesktopInv, DesktopEngine, ServerInv, Story
<1>1. /\ Frame.id \in Outstanding /\ Frame.val > 0 /\ Frame.val \in Nat
      /\ received + 1 \in 1..Len(outbox) /\ Frame = outbox[received + 1]
  BY <1>0, FrameFacts, FrameIsResponse DEF GotNext
<1>2. d_expansions = 0
  BY <1>0, <1>1 DEF QuietStory, PulsesShown, DesktopTypes
<1>3. Frame.id = d_op
  BY <1>1, <1>2 DEF QuietStory, Balanced
<1>4. d_last_seq \in Nat
  BY <1>0 DEF DesktopTypes
<1>5. CASE d_last_seq > 0
  <2>1. PICK k \in 1..received : outbox[k] = Response("Progress", d_op, d_last_seq)
    BY <1>0, <1>5 DEF Story, ProgressStory
  <2>2. k \in 1..Len(outbox) /\ k < received + 1
    BY <1>0 DEF DesktopTypes, ServerTypes
  <2>3. outbox[k].val < outbox[received + 1].val
    <3>1. PulseRises(received + 1)
      BY <1>0, <1>1 DEF PulseLog
    <3> QED BY <1>1, <1>3, <2>1, <2>2, <3>1 DEF PulseRises, Response
  <2> QED BY <1>1, <1>3, <1>4, <2>1, <2>3 DEF FreshProgress, Response
<1>6. CASE d_last_seq = 0
  BY <1>1, <1>3, <1>6 DEF FreshProgress
<1> QED BY <1>4, <1>5, <1>6

\* What a read takes is what was waited for, and rows show the page of their
\* own request.
LEMMA ReadKeepsQuiet ==
  ASSUME DesktopInv, Story', Quiet',
         ScanProgress \/ ScanEndsCall \/ RootArrives \/ ChildrenArrive
  PROVE  /\ ~AllRead' => QuietStory'
         /\ RowsAreOwn'
<1>0. ServerTypes /\ DesktopTypes /\ Story /\ DesktopEngine
  BY DEF DesktopInv, DesktopEngine, ServerInv, Story
<1>1. /\ TakeFrame /\ Reading /\ UNCHANGED <<expansions, d_expansions, displayed, d_op, d_load>>
      /\ ~ChildrenArrive => UNCHANGED rows
  BY DEF ScanProgress, ScanEndsCall, RootArrives, ChildrenArrive, ScanReturns, Reading, coalescer,
         counts
<1>2. RequestsJoin /\ UNCHANGED serverside /\ (~RootArrives => UNCHANGED requests)
  <2>1. ~RootArrives => UNCHANGED svars
    BY DEF ScanProgress, ScanEndsCall, ChildrenArrive
  <2> QED BY <1>0, <1>1, <2>1, RootArrivesSends, SilentGoOn DEF svars
<1>3. UNCHANGED <<outbox, pulses>>
  BY <1>2 DEF serverside, engine, thread
<1>4. /\ expansions = {}
      /\ ~AllRead' => GotNext
      /\ GotNext => QuietStory
  BY <1>1, <1>2, QuietRead
<1>5. Quiet
  BY <1>0, <1>1, <1>2, OverlapNoted DEF Quiet, CancelWritten, RequestsJoin, DesktopTypes
<1>6. ASSUME GotNext PROVE QuietStory' /\ RowsAreOwn'
  <2>0. Balanced /\ AskedFor /\ PulsesShown
    BY <1>4, <1>6 DEF QuietStory
  <2>1. /\ Frame.id \in Outstanding
        /\ Frame.kind = "Progress" => requests[Frame.id].verb = "Scan"
        /\ Frame.kind = "Page" => Frame.val = requests[Frame.id].target
        /\ Outstanding' =
             (IF Frame.kind = "Progress" THEN Outstanding ELSE Outstanding \ {Frame.id})
               \union (Len(requests) + 1)..Len(requests')
    BY <1>0, <1>2, <1>3, <1>6, FrameFacts, AnswerRetires
  <2>2. /\ received' = received + 1 /\ outbox'[received + 1] = Frame
        /\ \A k \in 1..received' : k \in 1..received \/ k = received + 1
    BY <1>0, <1>3, <1>6 DEF GotNext, DesktopTypes, ServerTypes
  <2>3. Outstanding \subseteq {Frame.id}
    BY <1>1, <1>4, <2>0, <2>1 DEF Balanced, Reading
  <2>4. \A i \in 1..Len(requests) : i \in 1..Len(requests') /\ requests'[i] = requests[i]
    BY <1>2 DEF RequestsJoin
  <2>5. UNCHANGED requests => (Len(requests) + 1)..Len(requests') = {}
    BY <1>0 DEF ServerTypes
  <2>6. CASE ScanProgress
    <3>1. /\ d_pc = "reading" /\ d_pc' = "top" /\ latest' = Frame /\ Frame.kind = "Progress"
          /\ UNCHANGED <<requests, shown>> /\ UNCHANGED rows
      BY <1>0, <1>2, <2>6 DEF ScanProgress, Report, FreshProgress, svars
    <3>2. Frame # None
      BY <1>6, <3>1, FrameIsResponse, ReportIsSome DEF GotNext
    <3>3. Outstanding' = Outstanding
      BY <2>1, <2>5, <3>1
    <3>4. Balanced' /\ AskedFor'
      BY <1>1, <1>4, <2>0, <3>1, <3>3 DEF Balanced, AskedFor
    <3>5. PulsesShown'
      BY <1>1, <1>3, <2>0, <2>2, <3>1, <3>2 DEF PulsesShown
    <3>6. RowsAreOwn'
      BY <1>5, <3>1 DEF DesktopInv, RowsAreOwn, Quiet
    <3> QED BY <3>4, <3>5, <3>6 DEF QuietStory
  <2>7. CASE ScanEndsCall
    <3>1. /\ d_pc = "reading" /\ d_pc' = "returned" /\ UNCHANGED <<requests, latest, shown>>
          /\ ~FreshProgress /\ UNCHANGED rows
      BY <1>0, <1>2, <2>7 DEF ScanEndsCall, ScanReturns, coalescer, svars
    <3>2. Frame.kind # "Progress"
      BY <1>4, <1>6, <3>1, ProgressIsFresh
    <3>3. Outstanding' = {}
      BY <2>1, <2>3, <2>5, <3>1, <3>2
    <3>4. Balanced' /\ AskedFor'
      BY <1>1, <1>4, <3>1, <3>3 DEF Balanced, AskedFor
    <3>5. PulsesShown'
      BY <1>1, <1>3, <2>0, <2>2, <3>1, <3>2 DEF PulsesShown
    <3>6. RowsAreOwn'
      BY <1>5, <3>1 DEF DesktopInv, RowsAreOwn, Quiet
    <3> QED BY <3>4, <3>5, <3>6 DEF QuietStory
  <2>8. CASE RootArrives
    <3>1. /\ d_pc = "root" /\ d_pc' \in {"children", "none"} /\ UNCHANGED <<latest, rows>>
      BY <2>8 DEF RootArrives, coalescer
    <3>2. Frame.kind # "Progress"
      BY <2>0, <2>1, <3>1 DEF AskedFor
    <3>3. Outstanding' = (Len(requests) + 1)..Len(requests')
      BY <2>1, <2>3, <3>2
    <3>4. Balanced' /\ AskedFor'
      <4>1. CASE d_pc' = "children"
        <5>1. PICK q : q = Len(requests) + 1
          OBVIOUS
        <5>2. /\ Len(requests') = q /\ q \in 1..Len(requests')
              /\ requests'[q].verb = "GetChildren" /\ requests'[q].target = d_load.op
          BY <1>0, <2>8, <4>1, <5>1, RootArrivesSends DEF ServerTypes
        <5>3. Outstanding' = {q}
          BY <1>0, <3>3, <5>1, <5>2 DEF ServerTypes
        <5> QED BY <1>1, <1>4, <4>1, <5>2, <5>3 DEF Balanced, AskedFor
      <4>2. CASE d_pc' # "children"
        <5>1. Outstanding' = {}
          BY <1>0, <2>5, <2>8, <3>3, <4>2, RootArrivesSends
        <5> QED BY <1>1, <1>4, <3>1, <4>2, <5>1 DEF Balanced, AskedFor
      <4> QED BY <4>1, <4>2
    <3>5. PulsesShown'
      BY <1>1, <1>3, <2>0, <2>2, <3>1, <3>2 DEF PulsesShown
    <3>6. RowsAreOwn'
      BY <1>5, <3>1 DEF DesktopInv, RowsAreOwn, Quiet
    <3> QED BY <3>4, <3>5, <3>6 DEF QuietStory
  <2>9. CASE ChildrenArrive
    <3>1. /\ d_pc = "children" /\ d_pc' = "none" /\ UNCHANGED <<requests, latest, shown>>
          /\ IF Frame.kind = "Page"
             THEN rows' = rows \union {[asked |-> d_load.op, page |-> Frame]}
             ELSE UNCHANGED rows
      BY <1>0, <1>2, <2>9 DEF ChildrenArrive, Show, coalescer, svars
    <3>2. Frame.kind # "Progress"
      BY <2>0, <2>1, <3>1 DEF AskedFor
    <3>3. Outstanding' = {}
      BY <2>1, <2>3, <2>5, <3>1, <3>2
    <3>4. Balanced' /\ AskedFor'
      BY <1>1, <1>4, <3>1, <3>3 DEF Balanced, AskedFor
    <3>5. PulsesShown'
      BY <1>1, <1>3, <2>0, <2>2, <3>1, <3>2 DEF PulsesShown
    <3>6. Frame.kind = "Page" => Frame.val = d_load.op
      BY <1>0, <2>0, <2>1, <3>1 DEF AskedFor, Story, ScanStory
    <3>7. RowsAreOwn'
      BY <1>5, <3>1, <3>6 DEF DesktopInv, RowsAreOwn, Quiet
    <3> QED BY <3>4, <3>5, <3>7 DEF QuietStory
  <2> QED BY <2>6, <2>7, <2>8, <2>9
<1>7. ASSUME ~GotNext PROVE RowsAreOwn'
  <2>1. Frame.kind = "Broken"
    BY <1>0, <1>1, <1>7, FrameRead
  <2>2. UNCHANGED rows
    BY <1>1, <2>1 DEF ChildrenArrive
  <2> QED BY <1>5, <2>2 DEF DesktopInv, RowsAreOwn, Quiet
<1> QED BY <1>4, <1>6, <1>7

\* With one row waiting, a scan may still be before its read.
LEMMA ExpansionKeepsQuiet ==
  ASSUME DesktopInv, Story', Quiet', ExpansionArrives
  PROVE  /\ ~AllRead' => QuietStory'
         /\ RowsAreOwn'
<1>0. ServerTypes /\ DesktopTypes /\ Story /\ DesktopEngine
  BY DEF DesktopInv, DesktopEngine, ServerInv, Story
<1>1. /\ TakeFrame
      /\ UNCHANGED svars
      /\ UNCHANGED <<d_pc, d_op, d_load, shown, latest, displayed, d_expansions>>
  BY DEF ExpansionArrives, command, coalescer, counts
<1>2. RequestsJoin /\ UNCHANGED serverside /\ UNCHANGED <<requests, outbox, pulses>>
  BY <1>0, <1>1, SilentGoOn DEF svars, engine, thread
<1>3. PICK id \in expansions :
        /\ expansions' = expansions \ {id}
        /\ IF Frame.kind = "Page"
           THEN rows' = rows \union {[asked |-> requests[id].target, page |-> Frame]}
           ELSE UNCHANGED rows
  BY DEF ExpansionArrives, Show
<1>4. /\ expansions = {id} /\ expansions' = {} /\ id \in 1..Len(requests)
      /\ d_pc \notin {"reading", "root", "children"}
      /\ ~AllRead' => GotNext
      /\ GotNext => QuietStory
  BY <1>0, <1>1, <1>2, <1>3, QuietRead DEF Reading, DesktopTypes
<1>5. Quiet
  BY <1>0, <1>1, <1>2, OverlapNoted DEF Quiet, CancelWritten, DesktopTypes
<1>6. d_expansions # 0 /\ d_expansions > 0
  BY <1>0, <1>3 DEF Story, Traces, DesktopTypes
<1>7. ASSUME GotNext PROVE QuietStory' /\ RowsAreOwn'
  <2>0. Balanced /\ AskedFor /\ PulsesShown
    BY <1>4, <1>7 DEF QuietStory
  <2>1. /\ Frame.id \in Outstanding
        /\ Frame.kind = "Page" =>
             requests[Frame.id].verb # "Scan" /\ Frame.val = requests[Frame.id].target
        /\ Outstanding' =
             (IF Frame.kind = "Progress" THEN Outstanding ELSE Outstanding \ {Frame.id})
               \union (Len(requests) + 1)..Len(requests')
    BY <1>0, <1>2, <1>7, FrameFacts, AnswerRetires
  <2>2. Frame.kind # "Progress"
    BY <1>6, <1>7, <2>0 DEF GotNext, PulsesShown
  <2>3. Outstanding' = Outstanding \ {Frame.id}
    BY <1>0, <1>2, <2>1, <2>2 DEF ServerTypes
  <2>4. Balanced'
    <3>1. CASE d_pc = "top"
      <4>1. PICK q \in 1..Len(requests) : Outstanding \subseteq {id, q}
        BY <1>4, <2>0, <3>1 DEF Balanced
      <4>2. PICK r \in 1..Len(requests) : Outstanding' \subseteq {r}
        BY <1>4, <2>1, <2>3, <4>1
      <4> QED BY <1>1, <1>2, <1>6, <3>1, <4>2 DEF Balanced
    <3>2. CASE d_pc # "top"
      <4>1. Outstanding \subseteq {id}
        BY <1>4, <2>0, <3>2 DEF Balanced
      <4>2. Outstanding' = {}
        BY <2>1, <2>3, <4>1
      <4> QED BY <1>1, <1>4, <3>2, <4>2 DEF Balanced
    <3> QED BY <3>1, <3>2
  <2>5. AskedFor'
    BY <1>1, <1>2, <1>4, <2>0, <2>3 DEF AskedFor
  <2>6. PulsesShown'
    <3>1. \A k \in 1..received' : k \in 1..Len(outbox)
      BY <1>0, <1>7 DEF GotNext, DesktopTypes, ServerTypes
    <3> QED BY <1>1, <1>2, <1>6, <2>0, <3>1 DEF PulsesShown
  <2>7. Frame.kind = "Page" => Frame.val = requests[id].target
    BY <1>4, <2>0, <2>1 DEF AskedFor
  <2>8. RowsAreOwn'
    BY <1>3, <1>5, <2>7 DEF DesktopInv, RowsAreOwn, Quiet
  <2> QED BY <2>4, <2>5, <2>6, <2>8 DEF QuietStory
<1>8. ASSUME ~GotNext PROVE RowsAreOwn'
  <2>1. Frame.kind = "Broken"
    BY <1>0, <1>1, <1>8, FrameRead
  <2>2. UNCHANGED rows
    BY <1>3, <2>1
  <2> QED BY <1>5, <2>2 DEF DesktopInv, RowsAreOwn, Quiet
<1> QED BY <1>4, <1>7, <1>8

\* So the client's own steps keep the whole invariant.
LEMMA ClientKeepsInv ==
  ASSUME DesktopInv, ClientStep
  PROVE  DesktopInv'
<1>1. /\ DesktopEngine' /\ Story' /\ RequestsJoin /\ UNCHANGED serverside
      /\ overlapped => overlapped'
  BY ClientKeepsStory DEF DesktopInv
<1>2. ASSUME Quiet', ~AllRead' PROVE QuietStory'
  <2>1. CASE ScanRefused \/ BeginScan \/ UserDismisses \/ ScanTop \/ Tick
    BY <1>2, <2>1, IdleKeepsQuiet
  <2>2. CASE ScanSent \/ ScanNotSent \/ ScanContinues \/ UserCancels \/ UserExpands
    BY <1>1, <1>2, <2>2, SendKeepsQuiet
  <2>3. CASE ScanProgress \/ ScanEndsCall \/ RootArrives \/ ChildrenArrive
    BY <1>1, <1>2, <2>3, ReadKeepsQuiet
  <2>4. CASE ExpansionArrives
    BY <1>1, <1>2, <2>4, ExpansionKeepsQuiet
  <2>5. CASE Tear
    BY <1>2, <2>5 DEF Tear, Quiet
  <2> QED BY <2>1, <2>2, <2>3, <2>4, <2>5 DEF ClientStep, CallStep, UserStep
<1>3. RowsAreOwn'
  <2>1. SUFFICES ASSUME Quiet' PROVE RowsAreOwn'
    BY DEF Quiet, RowsAreOwn
  <2>2. CASE ScanProgress \/ ScanEndsCall \/ RootArrives \/ ChildrenArrive
    BY <1>1, <2>1, <2>2, ReadKeepsQuiet
  <2>3. CASE ExpansionArrives
    BY <1>1, <2>1, <2>3, ExpansionKeepsQuiet
  <2>4. CASE UNCHANGED rows
    <3>1. Quiet
      BY <1>1, <2>1 DEF Quiet, CancelWritten, RequestsJoin
    <3> QED BY <2>4, <3>1 DEF DesktopInv, RowsAreOwn, Quiet
  <2>5. ClientStep =>
          \/ ScanProgress \/ ScanEndsCall \/ RootArrives \/ ChildrenArrive \/ ExpansionArrives
          \/ UNCHANGED rows
    BY DEF ClientStep, CallStep, UserStep, ScanRefused, BeginScan, UserDismisses, ScanTop, Tick,
           ScanSent, ScanNotSent, ScanContinues, UserCancels, UserExpands, Tear
  <2> QED BY <2>2, <2>3, <2>4, <2>5
<1> QED BY <1>1, <1>2, <1>3 DEF DesktopInv

---------------------------------------------------------------------------
(* The engine's own steps *)

\* What the engine does adds frames that are still to be read: pulses only of
\* a scan that pulsed.
LEMMA EngineMoves ==
  ASSUME DesktopEngine,
         EngineStep \/ RunnerReturns \/ (RunnerProgress /\ d_expansions = 0) \/ EngineDies
  PROVE  /\ DesktopEngine' /\ LogsGrow /\ UNCHANGED requests
         /\ e_pc = "ended" => e_pc' = "ended" /\ UNCHANGED outbox
         /\ d_expansions # 0 /\ pulses = 0 =>
              /\ pulses' = 0
              /\ \A k \in (Len(outbox) + 1)..Len(outbox') : outbox'[k].kind # "Progress"
<1>0. ServerInv /\ ServerTypes
  BY DEF DesktopEngine, ServerInv
<1>1. CASE EngineStep
  <2>1. /\ LogsGrow /\ UNCHANGED requests
        /\ \A k \in (Len(outbox) + 1)..Len(outbox') : OfActive(outbox'[k])
    BY <1>0, <1>1, StepFrames
  <2>2. e_pc # "ended"
    BY <1>1 DEF EngineStep, IdlePing, IdleStatus, IdleCancel, IdleShutdown, IdleGetChildren,
                IdleLost, BeginDelay, DelayCancel, DelayDrop, DelayElapses, RejectScan, StartScan,
                DrainProgress, PollEmpty, PollCancel, PollStatus, PollBusy, PollLost,
                KeepScanning, SettleScan, LeaveAfterJoin
  <2>3. pulses' = pulses \/ pulses' = 0
    <3>1. FrameReady => Incoming.verb # "DelayedPing"
      BY <1>0, IncomingIsRequest DEF DesktopEngine, DesktopVerbs, Incoming, IncomingId
    <3> QED BY <1>1, <3>1, ActiveMoves DEF DesktopEngine
  <2>4. DesktopEngine'
    BY <1>1, LoopKeepsEngine
  <2> QED BY <2>1, <2>2, <2>3, <2>4 DEF OfActive
<1>2. CASE RunnerReturns \/ (RunnerProgress /\ d_expansions = 0) \/ EngineDies
  <2>1. /\ UNCHANGED <<requests, consumed, outbox>>
        /\ e_pc = "ended" => e_pc' = "ended"
        /\ d_expansions # 0 => pulses' = pulses
    BY <1>2 DEF RunnerReturns, RunnerProgress, EngineDies, engine, thread
  <2>2. DesktopEngine'
    BY <1>2, RestKeepsEngine
  <2>3. LogsGrow /\ (Len(outbox) + 1)..Len(outbox') = {}
    BY <1>0, <2>1 DEF LogsGrow, ServerTypes
  <2> QED BY <2>1, <2>2, <2>3
<1> QED BY <1>1, <1>2

\* None of it makes untrue what the client shows.
LEMMA EngineKeepsDesktopInv ==
  ASSUME DesktopInv, UNCHANGED dvars,
         EngineStep \/ RunnerReturns \/ (RunnerProgress /\ d_expansions = 0) \/ EngineDies
  PROVE  DesktopInv'
<1>0. DesktopEngine /\ Story /\ ServerTypes /\ DesktopTypes
  BY DEF DesktopInv, DesktopEngine, ServerInv, Story
<1>1. /\ DesktopEngine' /\ LogsGrow /\ UNCHANGED requests
      /\ e_pc = "ended" => e_pc' = "ended" /\ UNCHANGED outbox
      /\ d_expansions # 0 /\ pulses = 0 =>
           /\ pulses' = 0
           /\ \A k \in (Len(outbox) + 1)..Len(outbox') : outbox'[k].kind # "Progress"
  BY <1>0, EngineMoves
<1>2. /\ UNCHANGED <<vm_state, command, ct, shown, coalescer, expansions, d_expansions, received,
                    torn, overlapped, rows>>
      /\ UNCHANGED <<d_pc, d_op, d_load, latest, displayed>>
  BY DEF dvars, command, coalescer, counts
<1>3. LogsGoOn
  BY <1>0, <1>1, <1>2 DEF LogsGoOn, LogsGrow, DesktopTypes, ServerTypes
<1>4. Story'
  <2>1. /\ expansions' \subseteq 1..Len(requests') /\ d_expansions' \in Nat
        /\ d_expansions' = 0 => expansions' = {}
        /\ torn' \in BOOLEAN /\ overlapped' \in BOOLEAN /\ (torn' => overlapped')
    BY <1>0, <1>1, <1>2 DEF Story, DesktopTypes, Traces
  <2> QED BY <1>0, <1>2, <1>3, <2>1, StoryGoesOn
<1>5. Quiet' => Quiet
  BY <1>1, <1>2 DEF Quiet, CancelWritten
<1>6. \A k \in 1..received : k \in 1..Len(outbox) /\ outbox'[k] = outbox[k]
  BY <1>0, <1>1 DEF LogsGrow, DesktopTypes, ServerTypes
<1>7. ASSUME Quiet', ~AllRead' PROVE QuietStory'
  <2>1. Balanced /\ AskedFor /\ PulsesShown
    BY <1>1, <1>2, <1>5, <1>7 DEF AllRead, DesktopInv, QuietStory
  <2>2. Outstanding' = Outstanding
    BY <1>1, <1>2, <1>6 DEF Outstanding
  <2>3. Balanced' /\ AskedFor'
    BY <1>1, <1>2, <2>1, <2>2 DEF Balanced, AskedFor
  <2>4. d_expansions > 0 =>
          pulses' = 0 /\ \A k \in 1..Len(outbox') : outbox'[k].kind # "Progress"
    <3>1. \A k \in 1..Len(outbox') :
            \/ k \in 1..Len(outbox) /\ outbox'[k] = outbox[k]
            \/ k \in (Len(outbox) + 1)..Len(outbox')
      BY <1>0, <1>1 DEF LogsGrow, ServerTypes
    <3> QED BY <1>0, <1>1, <2>1, <3>1 DEF PulsesShown, DesktopTypes
  <2>5. PulsesShown'
    BY <1>2, <1>6, <2>1, <2>4 DEF PulsesShown
  <2> QED BY <2>3, <2>5 DEF QuietStory
<1>8. RowsAreOwn'
  BY <1>2, <1>5 DEF DesktopInv, RowsAreOwn, Quiet
<1> QED BY <1>1, <1>4, <1>7, <1>8 DEF DesktopInv

---------------------------------------------------------------------------
(* What the user is shown *)

\* At first nothing was asked, read or shown.
LEMMA DesktopStarts == DInit => DesktopInv
<1> SUFFICES ASSUME DInit PROVE DesktopInv
  OBVIOUS
<1>1. ServerInv
  BY ServerStarts DEF DInit
<1>2. /\ Len(requests) = 0 /\ Len(outbox) = 0 /\ ~client_lost /\ e_pc = "idle" /\ active = None
      /\ pulses = 0
  BY DEF DInit, SInit
<1>3. DesktopEngine
  <2>1. FramesFit /\ \A i \in 1..Len(requests) : requests[i].verb \in DesktopVerbs
    BY <1>2 DEF FramesFit
  <2>2. ScanLog
    BY <1>2 DEF ScanLog
  <2> QED BY <1>1, <1>2, <2>1, <2>2 DEF DesktopEngine, InDelay
<1>4. DesktopTypes
  <2>1. /\ vm_state = "Idle" /\ d_pc = "none" /\ d_last_seq = 0 /\ shown = None /\ received = 0
        /\ expansions = {} /\ d_expansions = 0 /\ torn = FALSE /\ overlapped = FALSE
    BY DEF DInit
  <2>2. torn \in BOOLEAN /\ overlapped \in BOOLEAN
    BY <2>1
  <2>3. expansions \subseteq 1..Len(requests) /\ received \in 0..Len(outbox)
    BY <1>2, <2>1
  <2>4. d_last_seq \in Nat /\ d_expansions \in Nat
    BY <2>1
  <2> QED BY <2>1, <2>2, <2>3, <2>4 DEF DesktopTypes
<1>5. OpIsNewest /\ ScanStory /\ ProgressStory /\ Traces
  BY DEF DInit, OpIsNewest, ScanStory, ProgressStory, Traces
<1>6. CompletedIsTrue /\ RowsAreOwn
  BY DEF DInit, CompletedIsTrue, RowsAreOwn, IsScanning
<1>7. Outstanding = {}
  BY <1>2 DEF Outstanding
<1>8. QuietStory
  BY <1>2, <1>7 DEF DInit, QuietStory, Balanced, AskedFor, PulsesShown
<1> QED BY <1>3, <1>4, <1>5, <1>6, <1>8 DEF DesktopInv, Story

\* The invariant holds for every number of scans, expansions and pulses, with
\* an engine that may die at any moment.
THEOREM DesktopInvariant == DSpec => []DesktopInv
<1>1. DesktopInv /\ [DNext]_devars => DesktopInv'
  <2> SUFFICES ASSUME DesktopInv, [DNext]_devars PROVE DesktopInv'
    OBVIOUS
  <2>1. CASE CallStep \/ UserStep \/ Tick \/ Tear
    BY <2>1, ClientKeepsInv DEF ClientStep
  <2>2. CASE (EngineStep \/ RunnerReturns) /\ UNCHANGED dvars
    BY <2>2, EngineKeepsDesktopInv
  <2>3. CASE RunnerProgress /\ d_expansions = 0 /\ UNCHANGED dvars
    BY <2>3, EngineKeepsDesktopInv
  <2>4. CASE EngineDies
    BY <2>4, EngineKeepsDesktopInv DEF EngineDies
  <2>5. CASE UNCHANGED devars
    <3>0. ServerTypes /\ DesktopTypes /\ DesktopEngine /\ Story
      BY DEF DesktopInv, DesktopEngine, ServerInv, Story
    <3>1. UNCHANGED svars /\ UNCHANGED dvars
      BY <2>5 DEF devars
    <3>2. /\ UNCHANGED <<vm_state, command, ct, shown, coalescer, expansions, d_expansions,
                        received, torn, overlapped, rows, requests, outbox, e_pc, pulses>>
          /\ UNCHANGED <<d_pc, d_op, d_load, latest, displayed>>
      BY <3>1 DEF dvars, svars, command, coalescer, counts, engine, thread
    <3>3. LogsGoOn /\ RequestsJoin /\ UNCHANGED serverside
      BY <3>0, <3>1, <3>2, SilentGoOn
    <3>4. DesktopEngine'
      BY <3>0, <3>3, RequestsKeepEngine
    <3>5. Story'
      <4>1. /\ expansions' \subseteq 1..Len(requests') /\ d_expansions' \in Nat
            /\ d_expansions' = 0 => expansions' = {}
            /\ torn' \in BOOLEAN /\ overlapped' \in BOOLEAN /\ (torn' => overlapped')
        BY <3>0, <3>2 DEF Story, DesktopTypes, Traces
      <4> QED BY <3>0, <3>2, <3>3, <4>1, StoryGoesOn
    <3>6. (Quiet /\ ~AllRead => QuietStory)'
      BY <3>2 DEF DesktopInv, Quiet, AllRead, CancelWritten, QuietStory, Balanced, AskedFor,
                  PulsesShown, Outstanding
    <3>7. RowsAreOwn'
      BY <3>2 DEF DesktopInv, RowsAreOwn, CancelWritten
    <3> QED BY <3>4, <3>5, <3>6, <3>7 DEF DesktopInv
  <2> QED BY <2>1, <2>2, <2>3, <2>4, <2>5 DEF DNext
<1> QED BY <1>1, DesktopStarts, PTL DEF DSpec

\* A scan is shown as Completed only if the engine finished that very scan,
\* and then over its own tree (StartScanAsync and LoadRootAndFinishAsync).
THEOREM CompletedIsOfThisScan == DSpec => []CompletedIsTrue
BY DesktopInvariant, PTL DEF DesktopInv, Story

\* When a scan is over the screen shows its last progress, although reports
\* and ticks are of two threads (ProgressCoalescer's Flush).
THEOREM ScreenShowsLastProgress == DSpec => []LastProgressShown
<1>1. DesktopInv => LastProgressShown
  BY DEF DesktopInv, Story, ProgressStory, LastProgressShown
<1> QED BY <1>1, DesktopInvariant, PTL

\* Rows come from the operation they are shown under while no Cancel was
\* written and no two reads overlapped (GetChildrenAsync compares no id).
THEOREM RowsComeFromTheirScan == DSpec => []RowsAreOwn
BY DesktopInvariant, PTL DEF DesktopInv

\* The command loop keeps its promises to this client too, whatever else its
\* process meets.
THEOREM DesktopIsServed ==
  DSpec => [](AnsweredExactlyOnce /\ ProgressOrdered /\ CancelledWhenAsked /\ PagesAreCurrent)
<1>1. DesktopInv => AnsweredExactlyOnce /\ ProgressOrdered /\ CancelledWhenAsked /\ PagesAreCurrent
  BY InvAnswersOnce, InvKeepsPromises DEF DesktopInv, DesktopEngine
<1> QED BY <1>1, DesktopInvariant, PTL
=============================================================================
