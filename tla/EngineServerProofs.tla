------------------------ MODULE EngineServerProofs ------------------------
(***************************************************************************)
(* What EngineServer promises its client holds for every number of         *)
(* requests and of progress callbacks.  Each promise is about the log of   *)
(* what was sent, so each needs to know how the log and the loop's         *)
(* position fit together: the invariant has one part per promise.          *)
(***************************************************************************)
EXTENDS EngineServer, SequenceTheorems, FiniteSetTheorems, TLAPS

ClientRequests == [verb : AllVerbs, target : Nat]
NumberKinds == {"Progress", "Page", "Invalid", "Stale"}
OtherKinds == {"Ping", "Status", "Cancel", "Shutdown", "Error", "Busy", "Scan"}
ReplyFrames ==
  [kind : NumberKinds, id : Nat, val : Nat]
    \union [kind : OtherKinds, id : Nat,
            val : ScanOutcomes \union {None, "IDLE", "SCANNING"}]

InScan == e_pc \in {"drain", "poll", "join", "closing"}
InDelay == e_pc = "delay"

\* Types, without the bounds of the runs, and every frame answers something
\* that was read.
ServerTypes ==
  /\ requests \in Seq(ClientRequests)
  /\ consumed \in 0..Len(requests)
  /\ outbox \in Seq(ReplyFrames)
  /\ \A k \in 1..Len(outbox) : outbox[k].id \in 1..consumed
  /\ client_lost \in BOOLEAN /\ cancel \in BOOLEAN
  /\ e_pc \in {"idle", "delay", "drain", "poll", "join", "closing", "ended"}
  /\ active \in Nat \union {None}
  /\ scan_result \in ScanOutcomes \union {None, "Error"}
  /\ pulses \in Nat /\ sent_pulse \in 0..pulses
  /\ settled_scan \in Nat \union {None}

\* The command being delayed or scanned is one that was read, and a scan
\* starts without a settled graph.
ActiveIsRead ==
  /\ InScan =>
       /\ active \in 1..consumed
       /\ requests[active].verb = "Scan"
       /\ settled_scan = None
  /\ InDelay => active \in 1..consumed /\ requests[active].verb = "DelayedPing"

IsAnswer(k) == outbox[k].kind # "Progress"

Answered(id) == \E k \in 1..Len(outbox) : outbox[k].id = id /\ IsAnswer(k)
AtMostOneAnswer ==
  \A k, m \in 1..Len(outbox) :
    IsAnswer(k) /\ IsAnswer(m) /\ outbox[k].id = outbox[m].id => k = m

\* No request has two answers, the one being worked on has none yet, and no
\* other is left without one.
AnswerLog ==
  /\ AtMostOneAnswer
  /\ InScan \/ InDelay => ~Answered(active)
  /\ ~client_lost /\ e_pc # "ended" =>
       \A id \in 1..consumed :
         \/ Answered(id)
         \/ id \in swallowed
         \/ requests[id].verb = "Cancel"
         \/ id = active /\ (InScan \/ InDelay)

AskedToCancel(id) ==
  \E c \in (id + 1)..consumed :
    requests[c].verb = "Cancel" /\ requests[c].target \in {0, id}

\* Before frame k a ScanResponse for op went out, and no Scan was taken up
\* since.
KeepsGraph(m) == requests[outbox[m].id].verb = "Scan" => outbox[m].kind = "Busy"
NewestBefore(op, k) ==
  \E j \in 1..(k - 1) :
    /\ outbox[j].kind = "Scan" /\ outbox[j].id = op
    /\ \A m \in (j + 1)..(k - 1) : KeepsGraph(m)

\* What the promises say of one frame of the log.
PulseRises(k) ==
  \A m \in 1..Len(outbox) :
    outbox[k].kind = "Progress" /\ m < k /\ outbox[m].id = outbox[k].id =>
      outbox[m].kind = "Progress" /\ outbox[m].val < outbox[k].val
CancelAsked(k) ==
  outbox[k].kind = "Scan" /\ outbox[k].val = "Cancelled" => AskedToCancel(outbox[k].id)
PageIsCurrent(k) ==
  outbox[k].kind = "Page" =>
    /\ requests[outbox[k].id].target = outbox[k].val
    /\ NewestBefore(outbox[k].val, k)

\* An answered scan was answered after its last pulse.
LastPulseSent ==
  e_pc = "idle" /\ pulses > 0 =>
    \A k \in 1..Len(outbox) :
      outbox[k].kind = "Scan" /\ outbox[k].id = active =>
        \E m \in 1..(k - 1) : outbox[m] = Pulse(pulses)

\* Pulses rise; those of the running scan end with the one last sent.
PulseLog ==
  /\ \A k \in 1..Len(outbox) : PulseRises(k)
  /\ LastPulseSent
  /\ InScan =>
       \A k \in 1..Len(outbox) : outbox[k].id = active => outbox[k].val <= sent_pulse
  /\ InScan /\ e_pc # "closing" /\ sent_pulse > 0 =>
       \E m \in 1..Len(outbox) : outbox[m] = Pulse(sent_pulse)

\* While the client is there only a Cancel for this scan sets its handle, and
\* the runner only reports Cancelled when the handle is set.
CancelLog ==
  /\ \A k \in 1..Len(outbox) : CancelAsked(k)
  /\ InScan /\ cancel /\ ~client_lost => AskedToCancel(active)
  /\ InScan /\ scan_result # None /\ scan_result = "Cancelled" => cancel

\* The settled graph is that of the newest scan.
PageLog ==
  /\ \A k \in 1..Len(outbox) : PageIsCurrent(k)
  /\ e_pc \in {"idle", "delay"} /\ settled_scan # None =>
       NewestBefore(settled_scan, Len(outbox) + 1)

ServerInv ==
  /\ ServerTypes
  /\ ActiveIsRead
  /\ AnswerLog
  /\ PulseLog
  /\ CancelLog
  /\ PageLog

---------------------------------------------------------------------------
(* The log of replies *)

\* What one more frame does to the log.
LEMMA SentFrame ==
  ASSUME ServerTypes, NEW f \in ReplyFrames
  PROVE  /\ Append(outbox, f) \in Seq(ReplyFrames)
         /\ Len(Append(outbox, f)) = Len(outbox) + 1
         /\ \A k \in 1..Len(outbox) : Append(outbox, f)[k] = outbox[k]
         /\ Append(outbox, f)[Len(outbox) + 1] = f
BY AppendProperties DEF ServerTypes

\* A pulse carries a number.
LEMMA PulsesAreNumbered ==
  ASSUME ServerTypes, NEW k \in 1..Len(outbox), outbox[k].kind = "Progress"
  PROVE  outbox[k].val \in Nat
<1>1. outbox[k] \in ReplyFrames
  BY ElementOfSeq DEF ServerTypes
<1> QED
  BY <1>1 DEF ReplyFrames, OtherKinds

\* The next request is a request, and every answer to it a frame.
LEMMA IncomingIsRequest ==
  ASSUME ServerTypes, FrameReady
  PROVE  /\ Incoming \in ClientRequests
         /\ Incoming.verb \in AllVerbs /\ Incoming.target \in Nat
         /\ IncomingId \in 1..Len(requests)
<1>1. IncomingId \in 1..Len(requests)
  BY DEF ServerTypes, FrameReady, IncomingId
<1>2. Incoming \in ClientRequests
  BY <1>1, ElementOfSeq DEF ServerTypes, Incoming, IncomingId
<1> QED
  BY <1>1, <1>2 DEF ClientRequests

\* Both logs only grow, and what was read stays read.
LogsGrow ==
  /\ Len(requests) <= Len(requests')
  /\ \A i \in 1..Len(requests) : requests'[i] = requests[i]
  /\ consumed <= consumed'
  /\ Len(outbox) <= Len(outbox')
  /\ \A k \in 1..Len(outbox) : outbox'[k] = outbox[k]

\* A frame stays, with the request it answers.
LEMMA OldFrameStays ==
  ASSUME ServerTypes, ServerTypes', LogsGrow, NEW k \in 1..Len(outbox)
  PROVE  /\ k \in 1..Len(outbox') /\ outbox'[k] = outbox[k]
         /\ outbox[k].id \in 1..consumed
         /\ requests'[outbox[k].id] = requests[outbox[k].id]
         /\ KeepsGraph(k) => KeepsGraph(k)'
<1>1. k \in 1..Len(outbox') /\ outbox'[k] = outbox[k] /\ outbox[k].id \in 1..consumed
  BY DEF ServerTypes, LogsGrow
<1>2. outbox[k].id \in 1..Len(requests)
  BY <1>1, SMTT(60) DEF ServerTypes
<1>3. requests'[outbox[k].id] = requests[outbox[k].id]
  BY <1>2 DEF LogsGrow
<1> QED
  BY <1>1, <1>3 DEF KeepsGraph

\* So do a Cancel that was read ...
LEMMA AskStays ==
  ASSUME ServerTypes, ServerTypes', LogsGrow, NEW id \in Nat, AskedToCancel(id)
  PROVE  AskedToCancel(id)'
<1>1. PICK c \in (id + 1)..consumed :
        requests[c].verb = "Cancel" /\ requests[c].target \in {0, id}
  BY DEF AskedToCancel
<1>2. c \in (id + 1)..consumed' /\ requests'[c] = requests[c]
  BY SMTT(60) DEF ServerTypes, LogsGrow
<1> QED
  BY <1>1, <1>2 DEF AskedToCancel

\* ... and a scan that was the newest when frame k was sent,
LEMMA NewestStays ==
  ASSUME ServerTypes, ServerTypes', LogsGrow,
         NEW op, NEW k \in 1..(Len(outbox) + 1), NewestBefore(op, k)
  PROVE  NewestBefore(op, k)'
<1>1. PICK j \in 1..(k - 1) :
        /\ outbox[j].kind = "Scan" /\ outbox[j].id = op
        /\ \A m \in (j + 1)..(k - 1) : KeepsGraph(m)
  BY DEF NewestBefore
<1>2. \A m \in j..(k - 1) : m \in 1..Len(outbox)
  BY SMTT(60) DEF ServerTypes
<1>3. outbox'[j] = outbox[j]
  BY <1>2, OldFrameStays, SMTT(60) DEF ServerTypes
<1>4. \A m \in (j + 1)..(k - 1) : KeepsGraph(m)'
  BY <1>1, <1>2, OldFrameStays, SMTT(60) DEF ServerTypes
<1> QED
  BY <1>1, <1>3, <1>4 DEF NewestBefore

\* which it still is after a frame that takes no scan up.
LEMMA NewestGoesOn ==
  ASSUME NEW op, NEW k \in Nat \ {0}, NewestBefore(op, k)', KeepsGraph(k)'
  PROVE  NewestBefore(op, k + 1)'
<1>1. PICK j \in 1..(k - 1) :
        /\ outbox'[j].kind = "Scan" /\ outbox'[j].id = op
        /\ \A m \in (j + 1)..(k - 1) : KeepsGraph(m)'
  BY DEF NewestBefore
<1>2. \A m \in (j + 1)..k : m \in (j + 1)..(k - 1) \/ m = k
  OBVIOUS
<1>3. \A m \in (j + 1)..k : KeepsGraph(m)'
  BY <1>1, <1>2
<1>4. j \in 1..((k + 1) - 1) /\ (k + 1) - 1 = k
  OBVIOUS
<1> QED
  BY <1>1, <1>3, <1>4 DEF NewestBefore

\* What was promised of a frame stays true, so that only the new frames are
\* left to look at.
LEMMA OldFramesKeepPromises ==
  ASSUME ServerTypes, ServerTypes', LogsGrow, PulseLog, CancelLog, PageLog,
         \A k \in (Len(outbox) + 1)..Len(outbox') :
           PulseRises(k)' /\ CancelAsked(k)' /\ PageIsCurrent(k)'
  PROVE  \A k \in 1..Len(outbox') :
           PulseRises(k)' /\ CancelAsked(k)' /\ PageIsCurrent(k)'
<1> SUFFICES ASSUME NEW k \in 1..Len(outbox')
             PROVE  PulseRises(k)' /\ CancelAsked(k)' /\ PageIsCurrent(k)'
  OBVIOUS
<1>1. CASE k \in 1..Len(outbox)
  <2>1. /\ outbox'[k] = outbox[k]
        /\ outbox[k].id \in Nat
        /\ requests'[outbox[k].id] = requests[outbox[k].id]
    BY <1>1, OldFrameStays, SMTT(60) DEF ServerTypes
  <2>2. PulseRises(k)'
    BY <1>1, <2>1, SMTT(60) DEF PulseLog, PulseRises, ServerTypes, LogsGrow
  <2>3. CancelAsked(k)'
    BY <1>1, <2>1, AskStays DEF CancelLog, CancelAsked
  <2>4. PageIsCurrent(k)'
    <3>1. k \in 1..(Len(outbox) + 1)
      BY <1>1 DEF ServerTypes
    <3> QED
      BY <1>1, <2>1, <3>1, NewestStays DEF PageLog, PageIsCurrent
  <2> QED
    BY <2>2, <2>3, <2>4
<1>2. CASE k \notin 1..Len(outbox)
  BY <1>2 DEF ServerTypes
<1> QED
  BY <1>1, <1>2

\* The last pulse of a scan that is answered stays before the answer.
LEMMA LastPulseStays ==
  ASSUME ServerTypes, ServerTypes', LogsGrow, LastPulseSent,
         e_pc' = "idle" =>
           \/ e_pc = "idle" /\ active' = active /\ pulses' = pulses
           \/ active' = None,
         \A k \in (Len(outbox) + 1)..Len(outbox') : outbox'[k].kind # "Scan"
  PROVE  LastPulseSent'
<1> SUFFICES ASSUME e_pc' = "idle", pulses' > 0, NEW k \in 1..Len(outbox'),
                    outbox'[k].kind = "Scan", outbox'[k].id = active'
             PROVE  \E m \in 1..(k - 1) : outbox'[m] = Pulse(pulses)'
  BY DEF LastPulseSent
<1>1. k \in 1..Len(outbox) /\ outbox'[k] = outbox[k]
  BY SMTT(60) DEF ServerTypes, LogsGrow
<1>2. e_pc = "idle" /\ active' = active /\ pulses' = pulses
  BY ServerAssumption, SMTT(60) DEF ServerTypes
<1>3. PICK m \in 1..(k - 1) : outbox[m] = Pulse(pulses)
  BY <1>1, <1>2 DEF LastPulseSent
<1>4. outbox'[m] = outbox[m]
  BY <1>1 DEF LogsGrow, ServerTypes
<1> QED
  BY <1>2, <1>3, <1>4 DEF Pulse

\* The pulses of a scan that goes on without sending one stay as they were.
LEMMA ScanPulsesStay ==
  ASSUME ServerTypes, ServerTypes', LogsGrow, PulseLog,
         InScan', InScan, active' = active, sent_pulse' = sent_pulse,
         e_pc = "closing" => e_pc' = "closing",
         \A k \in (Len(outbox) + 1)..Len(outbox') : outbox'[k].id # active
  PROVE  /\ \A k \in 1..Len(outbox') : outbox'[k].id = active' => outbox'[k].val <= sent_pulse'
         /\ e_pc' # "closing" /\ sent_pulse' > 0 =>
              \E m \in 1..Len(outbox') : outbox'[m] = Pulse(sent_pulse)'
<1>1. \A k \in 1..Len(outbox) : k \in 1..Len(outbox') /\ outbox'[k] = outbox[k]
  BY DEF ServerTypes, LogsGrow
<1>2. \A k \in 1..Len(outbox') :
        outbox'[k].id = active => k \in 1..Len(outbox) /\ outbox'[k] = outbox[k]
  BY SMTT(60) DEF ServerTypes, LogsGrow
<1> QED
  BY <1>1, <1>2 DEF PulseLog, Pulse

\* A step that sends the one frame f.
LEMMA OneMoreFrame ==
  ASSUME ServerTypes, NEW f \in ReplyFrames, outbox' = Append(outbox, f),
         requests' = requests, consumed' \in consumed..Len(requests),
         f.id \in 1..consumed'
  PROVE  /\ LogsGrow
         /\ outbox' \in Seq(ReplyFrames)
         /\ Len(outbox') = Len(outbox) + 1
         /\ \A k \in 1..Len(outbox') : outbox'[k].id \in 1..consumed'
         /\ \A k \in (Len(outbox) + 1)..Len(outbox') :
              k = Len(outbox) + 1 /\ outbox'[k] = f
         /\ \A k \in 1..Len(outbox') :
              \/ k \in 1..Len(outbox) /\ outbox'[k] = outbox[k]
              \/ k = Len(outbox) + 1 /\ outbox'[k] = f
BY SentFrame DEF ServerTypes, LogsGrow

\* An answer is the only one if there was none; pulses before it are none.
LEMMA AnswersGrow ==
  ASSUME ServerTypes, ServerTypes', AtMostOneAnswer, LogsGrow, NEW f \in ReplyFrames,
         Len(outbox) < Len(outbox'), outbox'[Len(outbox')] = f,
         \A k \in (Len(outbox) + 1)..(Len(outbox') - 1) : outbox'[k].kind = "Progress",
         f.kind # "Progress" => ~Answered(f.id)
  PROVE  /\ AtMostOneAnswer'
         /\ \A id : Answered(id)' <=> Answered(id) \/ (id = f.id /\ f.kind # "Progress")
<1>1. \A k \in 1..Len(outbox') :
        \/ k \in 1..Len(outbox) /\ outbox'[k] = outbox[k]
        \/ k \notin 1..Len(outbox) /\ outbox'[k].kind = "Progress"
        \/ k = Len(outbox') /\ outbox'[k] = f
  BY SMTT(60) DEF ServerTypes, LogsGrow
<1>2. \A k \in 1..Len(outbox) : k \in 1..Len(outbox') /\ outbox'[k] = outbox[k]
  BY DEF ServerTypes, LogsGrow
<1>3. Len(outbox') \in 1..Len(outbox')
  BY DEF ServerTypes
<1>4. AtMostOneAnswer'
  BY <1>1 DEF AtMostOneAnswer, Answered, IsAnswer
<1>5. ASSUME NEW id
      PROVE  Answered(id)' <=> Answered(id) \/ (id = f.id /\ f.kind # "Progress")
  BY <1>1, <1>2, <1>3 DEF Answered, IsAnswer
<1> QED
  BY <1>4, <1>5

ReplyStep ==
  \/ IdlePing \/ IdleStatus \/ IdleCancel \/ IdleShutdown \/ IdleGetChildren
  \/ RejectScan \/ PollStatus \/ PollBusy

\* The steps that answer the request they read.
LEMMA RepliesToIncoming ==
  ASSUME ServerTypes, ReplyStep
  PROVE  /\ FrameReady /\ consumed' = IncomingId
         /\ IF client_lost THEN outbox' = outbox
            ELSE \E f \in ReplyFrames :
                   /\ outbox' = Append(outbox, f)
                   /\ f.id = IncomingId
                   /\ f.kind \notin {"Progress", "Scan"}
                   /\ f.kind = "Page" =>
                        /\ e_pc = "idle"
                        /\ f.val = settled_scan /\ Incoming.target = settled_scan
                   /\ Incoming.verb = "Scan" /\ e_pc # "idle" => f.kind = "Busy"
BY IncomingIsRequest, SMTT(60)
   DEF ReplyStep, IdlePing, IdleStatus, IdleCancel, IdleShutdown, IdleGetChildren,
       RejectScan, PollStatus, PollBusy, Receive, Answer, AnswerInScan, Response,
       ReplyFrames, NumberKinds, OtherKinds, ServerTypes

---------------------------------------------------------------------------
(* One lemma for each kind of step *)

\* Answering a request of its own: the answer is the first of that request,
\* and only Busy is ever answered to a Scan outside the idle loop.
LEMMA ReplyKeepsInv ==
  ASSUME ServerInv, ReplyStep
  PROVE  ServerInv'
<1> USE DEF ServerInv
<1>1. /\ IncomingId = consumed + 1 /\ consumed' = consumed + 1
      /\ consumed \in Nat /\ consumed' \in 0..Len(requests)
      /\ Incoming = requests[consumed + 1]
      /\ UNCHANGED <<requests, client_lost, active, cancel, sent_pulse, scan_result,
                     pulses, swallowed>>
      /\ e_pc = "idle" => e_pc' \in {"idle", "ended"}
      /\ e_pc # "idle" => e_pc = "poll" /\ e_pc' = "join"
      /\ settled_scan' \in {settled_scan, None}
      /\ Incoming.verb = "Scan" => settled_scan' = None
      /\ client_lost => e_pc' # "idle"
  BY RepliesToIncoming, IncomingIsRequest, SMTT(60)
     DEF ServerTypes, ActiveIsRead, InScan, ReplyStep, IdlePing, IdleStatus, IdleCancel,
         IdleShutdown, IdleGetChildren, RejectScan, PollStatus, PollBusy, Receive,
         Answer, scanning, thread, IncomingId, Incoming
<1>2. CASE client_lost
  <2>1. outbox' = outbox
    BY <1>2, RepliesToIncoming
  <2>2. LogsGrow /\ ServerTypes' /\ ActiveIsRead'
    BY <1>1, <2>1 DEF LogsGrow, ServerTypes, ActiveIsRead, InScan, InDelay
  <2>3. AnswerLog'
    BY <1>1, <1>2, <2>1 DEF AnswerLog, AtMostOneAnswer, Answered, InScan, InDelay, IsAnswer
  <2>4. \A k \in 1..Len(outbox') :
          PulseRises(k)' /\ CancelAsked(k)' /\ PageIsCurrent(k)'
    BY <2>1, <2>2, OldFramesKeepPromises DEF ServerTypes
  <2>5. PulseLog' /\ CancelLog' /\ PageLog'
    BY <1>1, <1>2, <2>1, <2>4, ScanPulsesStay
       DEF PulseLog, LastPulseSent, CancelLog, PageLog, InScan, Pulse
  <2> QED
    BY <2>2, <2>3, <2>5
<1>3. CASE ~client_lost
  <2>1. PICK f \in ReplyFrames :
          /\ outbox' = Append(outbox, f)
          /\ f.id = IncomingId
          /\ f.kind \notin {"Progress", "Scan"}
          /\ f.kind = "Page" =>
               /\ e_pc = "idle"
               /\ f.val = settled_scan /\ Incoming.target = settled_scan
          /\ Incoming.verb = "Scan" /\ e_pc # "idle" => f.kind = "Busy"
    BY <1>3, RepliesToIncoming
  <2>2. /\ LogsGrow
        /\ outbox' \in Seq(ReplyFrames)
        /\ Len(outbox') = Len(outbox) + 1
        /\ \A k \in 1..Len(outbox') : outbox'[k].id \in 1..consumed'
        /\ \A k \in (Len(outbox) + 1)..Len(outbox') :
             k = Len(outbox) + 1 /\ outbox'[k] = f
    BY <1>1, <2>1, OneMoreFrame, SMTT(60) DEF ServerTypes
  <2>3. ServerTypes' /\ ActiveIsRead'
    BY <1>1, <2>2 DEF ServerTypes, ActiveIsRead, InScan, InDelay
  <2>4. AnswerLog'
    <3>1. ~Answered(IncomingId)
      BY <1>1 DEF Answered, ServerTypes
    <3>2. /\ Len(outbox) < Len(outbox') /\ outbox'[Len(outbox')] = f
          /\ \A k \in (Len(outbox) + 1)..(Len(outbox') - 1) : FALSE
      BY <2>2 DEF ServerTypes
    <3>3. AtMostOneAnswer' /\ \A id : Answered(id)' <=> Answered(id) \/ id = IncomingId
      BY <2>1, <2>2, <2>3, <3>1, <3>2, AnswersGrow DEF AnswerLog
    <3>4. PICK a : a = active
      OBVIOUS
    <3>5. InScan => ~Answered(a)'
      BY <1>1, <3>3, <3>4 DEF AnswerLog, ActiveIsRead, InScan
    <3>6. ASSUME NEW id \in 1..consumed'
          PROVE  id \in 1..consumed \/ id = IncomingId
      BY <1>1
    <3> QED
      BY <1>1, <1>3, <3>3, <3>4, <3>5, <3>6 DEF AnswerLog, InScan, InDelay
  <2>a. PICK op : op = settled_scan
    OBVIOUS
  <2>b. PICK n \in Nat \ {0} : n = Len(outbox) + 1
    BY DEF ServerTypes
  <2>5. op = settled_scan /\ n = Len(outbox) + 1
    BY <2>a, <2>b
  <2>6. e_pc = "idle" /\ op # None => NewestBefore(op, n)'
    BY <2>2, <2>3, <2>5, NewestStays DEF PageLog
  <2>7. PulseRises(n)' /\ CancelAsked(n)'
    BY <2>1, <2>2, <2>5 DEF PulseRises, CancelAsked, ServerTypes
  <2>8. PageIsCurrent(n)'
    <3>1. CASE f.kind = "Page"
      <4>1. /\ Incoming.target \in Nat /\ op \in Nat /\ op # None
            /\ f.val = op /\ requests'[f.id].target = op
        BY <1>1, <2>1, <2>5, <3>1, ServerAssumption, RepliesToIncoming, IncomingIsRequest
      <4> QED
        BY <2>1, <2>2, <2>5, <2>6, <3>1, <4>1 DEF PageIsCurrent, ServerTypes
    <3>2. CASE f.kind # "Page"
      BY <2>2, <2>5, <3>2 DEF PageIsCurrent, ServerTypes
    <3> QED
      BY <3>1, <3>2
  <2>9. \A k \in 1..Len(outbox') :
          PulseRises(k)' /\ CancelAsked(k)' /\ PageIsCurrent(k)'
    BY <2>2, <2>3, <2>5, <2>7, <2>8, OldFramesKeepPromises
  <2>10. PulseLog'
    <3>1. LastPulseSent'
      BY <1>1, <2>1, <2>2, <2>3, LastPulseStays DEF PulseLog
    <3> QED
      BY <1>1, <2>1, <2>2, <2>3, <2>9, <3>1, ScanPulsesStay, SMTT(60) DEF PulseLog, InScan, ActiveIsRead
  <2>11. CancelLog'
    <3>1. PICK a : a = active
      OBVIOUS
    <3>2. InScan => a \in Nat /\ (AskedToCancel(a) => AskedToCancel(a)')
      BY <2>2, <2>3, <3>1, AskStays DEF ActiveIsRead, ServerTypes
    <3> QED
      BY <1>1, <2>9, <3>1, <3>2 DEF CancelLog, InScan
  <2>12. PageLog'
    <3>1. e_pc = "idle" /\ Incoming.verb # "Scan" => KeepsGraph(n)'
      BY <1>1, <2>1, <2>2, <2>5 DEF KeepsGraph, ServerTypes
    <3>2. e_pc' \in {"idle", "delay"} /\ settled_scan' # None =>
            NewestBefore(op, n + 1)'
      BY <1>1, <2>5, <2>6, <3>1, NewestGoesOn
    <3> QED
      BY <1>1, <2>2, <2>5, <2>9, <3>2 DEF PageLog
  <2> QED
    BY <2>3, <2>4, <2>10, <2>11, <2>12
<1> QED
  BY <1>2, <1>3

\* What a step keeps that sends no frame.
LEMMA SilenceKeepsLogs ==
  ASSUME ServerInv, ServerTypes', LogsGrow, outbox' = outbox
  PROVE  /\ \A k \in 1..Len(outbox') :
              PulseRises(k)' /\ CancelAsked(k)' /\ PageIsCurrent(k)'
         /\ AtMostOneAnswer'
         /\ \A id : Answered(id)' <=> Answered(id)
         /\ \A id \in Nat : AskedToCancel(id) => AskedToCancel(id)'
         /\ \A op : NewestBefore(op, Len(outbox) + 1) => NewestBefore(op, Len(outbox) + 1)'
<1> USE DEF ServerInv
<1>1. \A k \in 1..Len(outbox') :
        PulseRises(k)' /\ CancelAsked(k)' /\ PageIsCurrent(k)'
  BY OldFramesKeepPromises, SMTT(60) DEF ServerTypes
<1>2. AtMostOneAnswer' /\ \A id : Answered(id)' <=> Answered(id)
  BY DEF AnswerLog, AtMostOneAnswer, Answered, IsAnswer
<1>3. \A id \in Nat : AskedToCancel(id) => AskedToCancel(id)'
  BY AskStays
<1>4. PICK n \in Nat \ {0} : n = Len(outbox) + 1
  BY DEF ServerTypes
<1>5. \A op : NewestBefore(op, n) => NewestBefore(op, n)'
  BY <1>4, NewestStays
<1> QED
  BY <1>1, <1>2, <1>3, <1>4, <1>5

LoopMove ==
  IdleLost \/ PollEmpty \/ PollLost \/ KeepScanning \/ LeaveAfterJoin

\* The loop goes on, or leaves with its client.
LEMMA MoveKeepsInv ==
  ASSUME ServerInv, LoopMove
  PROVE  ServerInv'
<1> USE DEF ServerInv
<1>1. /\ UNCHANGED <<requests, client_lost, scan_result, pulses, consumed, outbox,
                     active, sent_pulse, settled_scan, swallowed>>
      /\ cancel' = cancel \/ (client_lost /\ cancel' = TRUE)
      /\ e_pc' = "ended" \/ (InScan /\ InScan' /\ (e_pc # "closing" \/ e_pc' = "closing"))
      /\ e_pc' \in {"ended", "join", "closing", "drain"}
  BY DEF LoopMove, IdleLost, PollEmpty, PollLost, KeepScanning, LeaveAfterJoin,
         thread, scanning, InScan, ServerTypes
<1>2. ServerTypes' /\ LogsGrow
  <2>1. cancel' \in BOOLEAN
    BY <1>1 DEF ServerTypes
  <2> QED
    BY <1>1, <2>1 DEF ServerTypes, LogsGrow
<1>3. ActiveIsRead'
  BY <1>1 DEF ActiveIsRead, InScan, InDelay
<1>4. AnswerLog'
  BY <1>1, <1>2, SilenceKeepsLogs DEF AnswerLog, InScan, InDelay
<1>5. PulseLog'
  BY <1>1, <1>2, SilenceKeepsLogs DEF PulseLog, LastPulseSent, InScan, Pulse
<1>6. CancelLog'
  BY <1>1, <1>2, SilenceKeepsLogs DEF CancelLog, InScan, AskedToCancel, ActiveIsRead
<1>7. PageLog'
  BY <1>1, <1>2, SilenceKeepsLogs DEF PageLog
<1> QED
  BY <1>2, <1>3, <1>4, <1>5, <1>6, <1>7

\* A delay begins, and forgets what it reads.
LEMMA DelayKeepsInv ==
  ASSUME ServerInv, BeginDelay \/ DelayDrop
  PROVE  ServerInv'
<1> USE DEF ServerInv
<1>1. /\ UNCHANGED <<requests, client_lost, scan_result, pulses, outbox,
                     cancel, sent_pulse, settled_scan>>
      /\ e_pc \in {"idle", "delay"} /\ e_pc' = "delay"
      /\ consumed' = consumed + 1 /\ consumed \in Nat /\ consumed + 1 \in 1..Len(requests)
      /\ \/ /\ e_pc = "idle" /\ active' = consumed + 1 /\ swallowed' = swallowed
            /\ requests[consumed + 1].verb = "DelayedPing"
         \/ /\ e_pc = "delay" /\ active' = active
            /\ swallowed' = swallowed \union {consumed + 1}
  BY IncomingIsRequest
     DEF BeginDelay, DelayDrop, Receive, thread, scanning, ServerTypes, Incoming, IncomingId
<1>2. ServerTypes' /\ LogsGrow
  BY <1>1 DEF ServerTypes, LogsGrow
<1>3. ActiveIsRead'
  BY <1>1 DEF ActiveIsRead, InScan, InDelay
<1>4. AnswerLog'
  <2>1. ~Answered(consumed + 1)
    BY <1>1 DEF Answered, ServerTypes
  <2>2. \A id \in 1..consumed' : id \in 1..consumed \/ id = consumed + 1
    BY <1>1
  <2>3. InDelay' /\ ~Answered(active')
    BY <1>1, <2>1 DEF AnswerLog, InDelay
  <2> QED
    BY <1>1, <1>2, <2>2, <2>3, SilenceKeepsLogs DEF AnswerLog, InScan, InDelay
<1>5. PulseLog'
  BY <1>1, <1>2, SilenceKeepsLogs DEF PulseLog, LastPulseSent, InScan, Pulse
<1>6. CancelLog'
  BY <1>1, <1>2, SilenceKeepsLogs DEF CancelLog, InScan, AskedToCancel, ActiveIsRead
<1>7. PageLog'
  BY <1>1, <1>2, SilenceKeepsLogs DEF PageLog
<1> QED
  BY <1>2, <1>3, <1>4, <1>5, <1>6, <1>7

\* A scan starts with a handle, a channel and a sequence of its own.
LEMMA StartKeepsInv ==
  ASSUME ServerInv, StartScan
  PROVE  ServerInv'
<1> USE DEF ServerInv
<1>1. /\ UNCHANGED <<requests, client_lost, outbox, swallowed>>
      /\ e_pc = "idle" /\ e_pc' = "drain"
      /\ consumed' = consumed + 1 /\ consumed \in Nat /\ consumed + 1 \in 1..Len(requests)
      /\ active' = consumed + 1 /\ requests[consumed + 1].verb = "Scan"
      /\ settled_scan' = None /\ cancel' = FALSE /\ scan_result' = None
      /\ pulses' = 0 /\ sent_pulse' = 0
  BY IncomingIsRequest
     DEF StartScan, Receive, ServerTypes, Incoming, IncomingId
<1>2. ServerTypes' /\ LogsGrow
  <2>0. cancel' \in BOOLEAN
    BY <1>1, Zenon
  <2>1. sent_pulse' \in 0..pulses' /\ pulses' \in Nat /\ active' \in Nat
    BY <1>1
  <2>2. LogsGrow
    BY <1>1 DEF LogsGrow, ServerTypes
  <2> QED
    BY <1>1, <2>0, <2>1, <2>2 DEF ServerTypes
<1>3. ActiveIsRead'
  BY <1>1 DEF ActiveIsRead, InScan, InDelay
<1>4. \A k \in 1..Len(outbox) : outbox[k].id # consumed + 1
  BY <1>1 DEF ServerTypes
<1>5. AnswerLog'
  <2>1. ~Answered(active')
    BY <1>1, <1>4 DEF Answered
  <2>2. \A id \in 1..consumed' : id \in 1..consumed \/ id = consumed + 1
    BY <1>1
  <2> QED
    BY <1>1, <1>2, <2>1, <2>2, SilenceKeepsLogs DEF AnswerLog, InScan, InDelay
<1>6. PulseLog'
  BY <1>1, <1>2, <1>4, SilenceKeepsLogs DEF PulseLog, LastPulseSent, InScan, Pulse
<1>7. CancelLog'
  BY <1>1, <1>2, SilenceKeepsLogs DEF CancelLog, InScan
<1>8. PageLog'
  BY <1>1, <1>2, SilenceKeepsLogs DEF PageLog
<1> QED
  BY <1>2, <1>3, <1>5, <1>6, <1>7, <1>8

\* A Cancel that names the scan is the reason for its handle to be set.
LEMMA PollCancelKeepsInv ==
  ASSUME ServerInv, PollCancel
  PROVE  ServerInv'
<1> USE DEF ServerInv
<1>1. /\ UNCHANGED <<requests, client_lost, scan_result, pulses, outbox,
                     active, sent_pulse, settled_scan, swallowed>>
      /\ e_pc = "poll" /\ e_pc' = "join"
      /\ consumed' = consumed + 1 /\ consumed \in Nat /\ consumed + 1 \in 1..Len(requests)
      /\ requests[consumed + 1].verb = "Cancel"
      /\ cancel' = (cancel \/ requests[consumed + 1].target \in {0, active})
  BY IncomingIsRequest
     DEF PollCancel, Names, Receive, thread, ServerTypes, Incoming, IncomingId
<1>2. ServerTypes' /\ LogsGrow
  BY <1>1 DEF ServerTypes, LogsGrow
<1>3. ActiveIsRead' /\ active \in 1..consumed
  BY <1>1 DEF ActiveIsRead, InScan, InDelay
<1>4. AnswerLog'
  <2>1. \A id \in 1..consumed' : id \in 1..consumed \/ id = consumed + 1
    BY <1>1
  <2> QED
    BY <1>1, <1>2, <2>1, SilenceKeepsLogs DEF AnswerLog, InScan, InDelay
<1>5. PulseLog'
  BY <1>1, <1>2, SilenceKeepsLogs DEF PulseLog, LastPulseSent, InScan, Pulse
<1>6. CancelLog'
  <2>1. cancel' /\ ~client_lost => AskedToCancel(active)'
    <3>1. CASE requests[consumed + 1].target \in {0, active}
      <4>1. consumed + 1 \in (active + 1)..consumed'
        BY <1>1, <1>3
      <4> QED
        BY <1>1, <3>1, <4>1 DEF AskedToCancel
    <3>2. CASE ~(requests[consumed + 1].target \in {0, active})
      <4>1. PICK a \in Nat : a = active
        BY <1>1, <1>3
      <4>2. cancel' /\ ~client_lost => AskedToCancel(a)'
        BY <1>1, <1>2, <3>2, <4>1, SilenceKeepsLogs DEF CancelLog, InScan
      <4> QED
        BY <1>1, <4>1, <4>2 DEF AskedToCancel
    <3> QED
      BY <3>1, <3>2
  <2> QED
    BY <1>1, <1>2, <2>1, SilenceKeepsLogs DEF CancelLog, InScan, ServerTypes
<1>7. PageLog'
  BY <1>1, <1>2, SilenceKeepsLogs DEF PageLog
<1> QED
  BY <1>2, <1>3, <1>4, <1>5, <1>6, <1>7

\* The end of a delay: the delayed command or the Cancel is answered.
LEMMA DelayEndKeepsInv ==
  ASSUME ServerInv, DelayCancel \/ DelayElapses
  PROVE  ServerInv'
<1> USE DEF ServerInv
<1>1. /\ UNCHANGED <<requests, client_lost, scan_result, pulses,
                     cancel, sent_pulse, settled_scan>>
      /\ e_pc = "delay" /\ active' = None
      /\ active \in 1..consumed /\ requests[active].verb = "DelayedPing" /\ ~Answered(active)
      /\ consumed \in Nat /\ consumed' \in consumed..Len(requests)
      /\ \/ /\ consumed' = consumed + 1 /\ requests[consumed + 1].verb = "Cancel"
            /\ swallowed' = swallowed \union {active}
         \/ consumed' = consumed /\ swallowed' = swallowed
  BY IncomingIsRequest
     DEF DelayCancel, DelayElapses, Receive, thread, ServerTypes, Incoming, IncomingId,
         ActiveIsRead, AnswerLog, InDelay
<1>2. CASE client_lost
  <2>1. e_pc' = "ended" /\ outbox' = outbox
    BY <1>2 DEF DelayCancel, DelayElapses, Answer
  <2>2. ServerTypes' /\ LogsGrow
    BY <1>1, <2>1 DEF ServerTypes, LogsGrow
  <2>3. ActiveIsRead' /\ AnswerLog'
    BY <1>2, <1>1, <2>1, <2>2, SilenceKeepsLogs DEF ActiveIsRead, AnswerLog, InScan, InDelay
  <2>4. PulseLog' /\ CancelLog' /\ PageLog'
    BY <1>1, <2>1, <2>2, SilenceKeepsLogs DEF PulseLog, LastPulseSent, CancelLog, PageLog, InScan
  <2> QED
    BY <2>2, <2>3, <2>4
<1>3. CASE ~client_lost
  <2>1. PICK f \in ReplyFrames :
          /\ outbox' = Append(outbox, f) /\ e_pc' = "idle"
          /\ f.kind \in {"Cancel", "Ping"}
          /\ \/ f.id = consumed + 1 /\ consumed' = consumed + 1
                /\ swallowed' = swallowed \union {active}
             \/ f.id = active /\ consumed' = consumed /\ swallowed' = swallowed
    <3>1. CASE DelayCancel
      <4>1. Response("Cancel", IncomingId, None) \in ReplyFrames
        BY <1>1 DEF Response, ReplyFrames, OtherKinds, IncomingId
      <4> QED
        BY <1>3, <3>1, <4>1 DEF DelayCancel, Receive, Answer, Response, IncomingId
    <3>2. CASE DelayElapses
      <4>1. Response("Ping", active, None) \in ReplyFrames
        BY <1>1 DEF Response, ReplyFrames, OtherKinds
      <4> QED
        BY <1>3, <3>2, <4>1 DEF DelayElapses, Answer, Response
    <3> QED
      BY <3>1, <3>2
  <2>2. /\ LogsGrow
        /\ outbox' \in Seq(ReplyFrames)
        /\ Len(outbox') = Len(outbox) + 1
        /\ \A k \in 1..Len(outbox') : outbox'[k].id \in 1..consumed'
        /\ \A k \in (Len(outbox) + 1)..Len(outbox') :
             k = Len(outbox) + 1 /\ outbox'[k] = f
    BY <1>1, <2>1, OneMoreFrame DEF ServerTypes
  <2>3. ServerTypes' /\ ActiveIsRead'
    BY <1>1, <2>1, <2>2 DEF ServerTypes, ActiveIsRead, InScan, InDelay
  <2>4. AnswerLog'
    <3>1. ~Answered(consumed + 1) /\ ~Answered(f.id)
      BY <1>1, <2>1, SMTT(60) DEF Answered, ServerTypes
    <3>2. /\ Len(outbox) < Len(outbox') /\ outbox'[Len(outbox')] = f
          /\ \A k \in (Len(outbox) + 1)..(Len(outbox') - 1) : FALSE
      BY <2>2 DEF ServerTypes
    <3>3. AtMostOneAnswer' /\ \A id : Answered(id)' <=> Answered(id) \/ id = f.id
      BY <2>1, <2>2, <2>3, <3>1, <3>2, AnswersGrow DEF AnswerLog
    <3>4. ASSUME NEW id \in 1..consumed'
          PROVE  id \in 1..consumed \/ (id = consumed + 1 /\ consumed' = consumed + 1)
      BY <1>1
    <3>5. \A id \in 1..consumed' :
            Answered(id)' \/ id \in swallowed' \/ requests[id].verb = "Cancel"
      BY <1>1, <1>3, <2>1, <3>3, <3>4 DEF AnswerLog
    <3> QED
      BY <1>1, <2>1, <3>3, <3>5 DEF AnswerLog, InScan, InDelay
  <2>5. PICK op : op = settled_scan
    OBVIOUS
  <2>6. PICK n \in Nat \ {0} : n = Len(outbox) + 1
    BY DEF ServerTypes
  <2>7. \A k \in 1..Len(outbox') :
          PulseRises(k)' /\ CancelAsked(k)' /\ PageIsCurrent(k)'
    <3>1. PulseRises(n)' /\ CancelAsked(n)' /\ PageIsCurrent(n)'
      BY <2>1, <2>2, <2>6 DEF PulseRises, CancelAsked, PageIsCurrent, ServerTypes
    <3> QED
      BY <2>2, <2>3, <2>6, <3>1, OldFramesKeepPromises
  <2>8. PulseLog'
    <3>1. LastPulseSent'
      BY <1>1, <2>1, <2>2, <2>3, LastPulseStays DEF PulseLog
    <3> QED
      BY <2>1, <2>7, <3>1 DEF PulseLog, InScan
  <2>9. CancelLog'
    BY <2>1, <2>7 DEF CancelLog, InScan
  <2>10. PageLog'
    <3>1. op # None => NewestBefore(op, n)'
      BY <1>1, <2>2, <2>3, <2>5, <2>6, NewestStays DEF PageLog
    <3>2. KeepsGraph(n)'
      BY <1>1, <2>1, <2>2, <2>6 DEF KeepsGraph, ServerTypes
    <3>3. op # None => NewestBefore(op, n + 1)'
      BY <3>1, <3>2, NewestGoesOn
    <3> QED
      BY <1>1, <2>2, <2>5, <2>6, <2>7, <3>3 DEF PageLog
  <2> QED
    BY <2>3, <2>4, <2>8, <2>9, <2>10
<1> QED
  BY <1>2, <1>3

\* Of the running scan nothing but pulses was sent, none newer than the last.
LEMMA RunningScanOnlyPulsed ==
  ASSUME ServerInv, InScan, NEW k \in 1..Len(outbox), outbox[k].id = active
  PROVE  /\ outbox[k].kind = "Progress"
         /\ outbox[k].val \in Nat /\ outbox[k].val <= sent_pulse
<1>1. outbox[k].val <= sent_pulse /\ outbox[k].kind = "Progress"
  BY DEF ServerInv, PulseLog, AnswerLog, Answered, IsAnswer
<1>2. outbox[k].val \in Nat
  BY <1>1, PulsesAreNumbered DEF ServerInv
<1> QED
  BY <1>1, <1>2

\* The newest callback is sent, kept back, or finds the client gone.
LEMMA DrainKeepsInv ==
  ASSUME ServerInv, DrainProgress
  PROVE  ServerInv'
<1> USE DEF ServerInv
<1>1. /\ UNCHANGED <<requests, client_lost, scan_result, pulses, consumed, active,
                     settled_scan, swallowed>>
      /\ e_pc = "drain" /\ InScan /\ settled_scan = None
      /\ active \in 1..consumed /\ requests[active].verb = "Scan" /\ ~Answered(active)
      /\ consumed \in Nat /\ pulses \in Nat
  BY DEF DrainProgress, thread, ServerTypes, ActiveIsRead, AnswerLog, InScan
<1>2. CASE outbox' = outbox
  <2>1. \/ e_pc' = "poll" /\ sent_pulse' = sent_pulse /\ cancel' = cancel
        \/ /\ client_lost /\ e_pc' = "closing" /\ sent_pulse' = pulses
           /\ pulses > sent_pulse /\ cancel' = TRUE
    <3>1. CASE pulses > sent_pulse /\ sent_pulse' = pulses /\ ~client_lost
                 /\ outbox' = Append(outbox, Pulse(pulses))
      <4>1. Pulse(pulses) \in ReplyFrames
        BY <1>1 DEF Pulse, Response, ReplyFrames, NumberKinds
      <4> QED
        BY <1>2, <3>1, <4>1, SentFrame DEF ServerTypes
    <3> QED
      BY <1>2, <3>1 DEF DrainProgress
  <2>2. cancel' \in BOOLEAN
    BY <2>1 DEF ServerTypes
  <2>3. sent_pulse' \in 0..pulses /\ sent_pulse <= sent_pulse'
    BY <2>1 DEF ServerTypes
  <2>4. ServerTypes' /\ LogsGrow
    BY <1>1, <1>2, <2>1, <2>2, <2>3 DEF ServerTypes, LogsGrow
  <2>5. ActiveIsRead' /\ AnswerLog'
    BY <1>1, <1>2, <2>1, <2>4, SilenceKeepsLogs DEF ActiveIsRead, AnswerLog, InScan, InDelay
  <2>6. PulseLog'
    <3>1. \A k \in 1..Len(outbox) : outbox[k].id = active => outbox[k].val <= sent_pulse'
      BY <1>1, <2>3, RunningScanOnlyPulsed, SMTT(60) DEF ServerTypes
    <3> QED
      BY <1>1, <1>2, <2>1, <2>4, <3>1, SilenceKeepsLogs DEF PulseLog, LastPulseSent, InScan, Pulse
  <2>7. CancelLog'
    BY <1>1, <1>2, <2>1, <2>4, SilenceKeepsLogs DEF CancelLog, InScan, AskedToCancel
  <2>8. PageLog'
    BY <1>1, <1>2, <2>1, <2>4, SilenceKeepsLogs DEF PageLog
  <2> QED
    BY <2>4, <2>5, <2>6, <2>7, <2>8
<1>3. CASE outbox' # outbox
  <2>0. Pulse(pulses) \in ReplyFrames
    BY <1>1 DEF Pulse, Response, ReplyFrames, NumberKinds
  <2>1. PICK f \in ReplyFrames : f = Pulse(pulses)
    BY <2>0
  <2>2. /\ outbox' = Append(outbox, f) /\ e_pc' = "poll" /\ cancel' = cancel
        /\ pulses > sent_pulse /\ sent_pulse' = pulses
        /\ f.kind = "Progress" /\ f.id = active /\ f.val = pulses
    BY <1>3, <2>1 DEF DrainProgress, Pulse, Response
  <2>3. /\ LogsGrow
        /\ outbox' \in Seq(ReplyFrames)
        /\ Len(outbox') = Len(outbox) + 1
        /\ \A k \in 1..Len(outbox') : outbox'[k].id \in 1..consumed'
        /\ \A k \in (Len(outbox) + 1)..Len(outbox') :
             k = Len(outbox) + 1 /\ outbox'[k] = f
        /\ \A k \in 1..Len(outbox') :
             \/ k \in 1..Len(outbox) /\ outbox'[k] = outbox[k]
             \/ k = Len(outbox) + 1 /\ outbox'[k] = f
    BY <1>1, <2>2, OneMoreFrame DEF ServerTypes
  <2>4. ServerTypes' /\ ActiveIsRead'
    BY <1>1, <2>2, <2>3 DEF ServerTypes, ActiveIsRead, InScan, InDelay
  <2>5. AnswerLog'
    <3>1. /\ Len(outbox) < Len(outbox') /\ outbox'[Len(outbox')] = f
          /\ \A k \in (Len(outbox) + 1)..(Len(outbox') - 1) : FALSE
      BY <2>3 DEF ServerTypes
    <3>2. AtMostOneAnswer' /\ \A id : Answered(id)' <=> Answered(id)
      BY <2>2, <2>3, <2>4, <3>1, AnswersGrow DEF AnswerLog
    <3>3. PICK a : a = active
      OBVIOUS
    <3>4. ~Answered(a)'
      BY <1>1, <3>2, <3>3
    <3> QED
      BY <1>1, <2>2, <3>2, <3>3, <3>4 DEF AnswerLog, InScan, InDelay
  <2>6. PICK n \in Nat \ {0} : n = Len(outbox) + 1
    BY DEF ServerTypes
  <2>7. \A k \in 1..Len(outbox) :
          outbox[k].id = active =>
            /\ outbox[k].kind = "Progress"
            /\ outbox[k].val \in Nat /\ outbox[k].val < pulses
    BY <1>1, <2>2, RunningScanOnlyPulsed DEF ServerTypes
  <2>8. PulseRises(n)' /\ CancelAsked(n)' /\ PageIsCurrent(n)'
    <3>1. PulseRises(n)'
      BY <1>1, <2>2, <2>3, <2>6, <2>7, SMTT(60) DEF PulseRises, ServerTypes
    <3> QED
      BY <2>2, <2>3, <2>6, <3>1 DEF CancelAsked, PageIsCurrent, ServerTypes
  <2>9. \A k \in 1..Len(outbox') :
          PulseRises(k)' /\ CancelAsked(k)' /\ PageIsCurrent(k)'
    BY <2>3, <2>4, <2>6, <2>8, OldFramesKeepPromises
  <2>10. PulseLog'
    <3>1. \A k \in 1..Len(outbox') : outbox'[k].id = active => outbox'[k].val <= pulses
      BY <1>1, <2>2, <2>3, <2>7
    <3>2. outbox'[n] = Pulse(pulses) /\ n \in 1..Len(outbox')
      BY <2>1, <2>3, <2>6
    <3> QED
      BY <1>1, <2>2, <2>9, <3>1, <3>2 DEF PulseLog, LastPulseSent, InScan, Pulse
  <2>11. CancelLog'
    BY <1>1, <2>2, <2>9 DEF CancelLog, InScan, AskedToCancel
  <2>12. PageLog'
    BY <2>2, <2>9 DEF PageLog
  <2> QED
    BY <2>4, <2>5, <2>10, <2>11, <2>12
<1> QED
  BY <1>2, <1>3

\* The frames of a scan's end: its last pulse, if one is missing, and its
\* answer.
LEMMA SettledFrames ==
  ASSUME ServerTypes, InScan, active \in 1..consumed, scan_result # None,
         requests' = requests, consumed' = consumed,
         outbox' = outbox \o Append(LastPulse, ScanResponse)
  PROVE  /\ LogsGrow
         /\ outbox' \in Seq(ReplyFrames)
         /\ Len(outbox) < Len(outbox') /\ outbox'[Len(outbox')] = ScanResponse
         /\ ScanResponse \in ReplyFrames
         /\ IF pulses > sent_pulse
            THEN Len(outbox') = Len(outbox) + 2 /\ outbox'[Len(outbox) + 1] = Pulse(pulses)
            ELSE Len(outbox') = Len(outbox) + 1
<1>1. ScanResponse \in ReplyFrames /\ Pulse(pulses) \in ReplyFrames
  BY DEF ScanResponse, OutcomeOf, Pulse, Response, ReplyFrames, NumberKinds, OtherKinds,
         ServerTypes, ScanOutcomes
<1>2. CASE pulses > sent_pulse
  <2>1. LastPulse = <<Pulse(pulses)>> /\ LastPulse \in Seq(ReplyFrames) /\ Len(LastPulse) = 1
    BY <1>1, <1>2 DEF LastPulse
  <2>2. /\ Append(LastPulse, ScanResponse) \in Seq(ReplyFrames)
        /\ Len(Append(LastPulse, ScanResponse)) = 2
        /\ Append(LastPulse, ScanResponse)[1] = Pulse(pulses)
        /\ Append(LastPulse, ScanResponse)[2] = ScanResponse
    BY <1>1, <2>1, AppendProperties
  <2> QED
    BY <1>1, <1>2, <2>2, ConcatProperties DEF ServerTypes, LogsGrow
<1>3. CASE ~(pulses > sent_pulse)
  <2>1. LastPulse = <<>> /\ LastPulse \in Seq(ReplyFrames) /\ Len(LastPulse) = 0
    BY <1>3 DEF LastPulse
  <2>2. /\ Append(LastPulse, ScanResponse) \in Seq(ReplyFrames)
        /\ Len(Append(LastPulse, ScanResponse)) = 1
        /\ Append(LastPulse, ScanResponse)[1] = ScanResponse
    BY <1>1, <2>1, AppendProperties
  <2> QED
    BY <1>1, <1>3, <2>2, ConcatProperties DEF ServerTypes, LogsGrow
<1> QED
  BY <1>2, <1>3

\* The scan is answered after its last pulse, and becomes the settled one.
LEMMA SettleKeepsInv ==
  ASSUME ServerInv, SettleScan
  PROVE  ServerInv'
<1> USE DEF ServerInv
<1>1. /\ UNCHANGED <<requests, client_lost, scan_result, pulses, consumed, active, cancel,
                     swallowed>>
      /\ e_pc = "join" /\ InScan /\ scan_result # None
      /\ active \in 1..consumed /\ requests[active].verb = "Scan" /\ ~Answered(active)
      /\ consumed \in Nat /\ pulses \in Nat /\ sent_pulse' = pulses
      /\ settled_scan' \in {None, active}
  BY DEF SettleScan, thread, ServerTypes, ActiveIsRead, AnswerLog, InScan
<1>2. CASE client_lost
  <2>1. e_pc' = "ended" /\ outbox' = outbox
    BY <1>2 DEF SettleScan
  <2>2. ServerTypes' /\ LogsGrow
    BY <1>1, <2>1 DEF ServerTypes, LogsGrow
  <2>3. ActiveIsRead' /\ AnswerLog'
    BY <1>2, <1>1, <2>1, <2>2, SilenceKeepsLogs DEF ActiveIsRead, AnswerLog, InScan, InDelay
  <2>4. PulseLog' /\ CancelLog' /\ PageLog'
    BY <1>1, <2>1, <2>2, SilenceKeepsLogs DEF PulseLog, LastPulseSent, CancelLog, PageLog, InScan
  <2> QED
    BY <2>2, <2>3, <2>4
<1>3. CASE ~client_lost
  <2>1. e_pc' = "idle" /\ outbox' = outbox \o Append(LastPulse, ScanResponse)
    BY <1>3 DEF SettleScan
  <2>2. /\ LogsGrow
        /\ outbox' \in Seq(ReplyFrames)
        /\ Len(outbox) < Len(outbox') /\ outbox'[Len(outbox')] = ScanResponse
        /\ ScanResponse \in ReplyFrames
        /\ IF pulses > sent_pulse
           THEN Len(outbox') = Len(outbox) + 2 /\ outbox'[Len(outbox) + 1] = Pulse(pulses)
           ELSE Len(outbox') = Len(outbox) + 1
    BY <1>1, <2>1, SettledFrames
  <2>3. PICK f \in ReplyFrames : f = ScanResponse
    BY <2>2
  <2>4. PICK p : p = Pulse(pulses)
    OBVIOUS
  <2>5. PICK a \in Nat : a = active
    BY <1>1
  <2>6. PICK n \in Nat : n = Len(outbox')
    BY <2>2
  <2>7. /\ f.kind = "Scan" /\ f.id = a /\ f.val = OutcomeOf(scan_result)
        /\ p.kind = "Progress" /\ p.id = a /\ p.val = pulses
    BY <2>3, <2>4, <2>5 DEF ScanResponse, Pulse, Response
  <2>8. /\ n > Len(outbox) /\ Len(outbox) \in Nat /\ outbox'[n] = f
        /\ \A k \in (Len(outbox) + 1)..n :
             \/ k = n
             \/ /\ k = n - 1 /\ k = Len(outbox) + 1 /\ outbox'[k] = p
                /\ pulses > sent_pulse
    BY <1>1, <2>2, <2>3, <2>4, <2>6, SMTT(60) DEF ServerTypes
  <2>9. ServerTypes' /\ ActiveIsRead'
    <3>1. \A k \in 1..n : k \in 1..Len(outbox) \/ k \in (Len(outbox) + 1)..n
      BY <2>8
    <3>2. \A k \in 1..n : outbox'[k].id \in 1..consumed
      BY <1>1, <2>2, <2>5, <2>7, <2>8, <3>1 DEF ServerTypes, LogsGrow
    <3>3. settled_scan' \in Nat \union {None} /\ sent_pulse' \in 0..pulses'
      BY <1>1
    <3> QED
      BY <1>1, <2>1, <2>2, <2>6, <3>2, <3>3 DEF ServerTypes, ActiveIsRead, InScan, InDelay
  <2>10. AnswerLog'
    <3>1. /\ Len(outbox) < Len(outbox') /\ outbox'[Len(outbox')] = f
          /\ \A k \in (Len(outbox) + 1)..(Len(outbox') - 1) : outbox'[k].kind = "Progress"
      BY <2>6, <2>7, <2>8
    <3>2. AtMostOneAnswer' /\ \A id : Answered(id)' <=> Answered(id) \/ id = a
      BY <1>1, <2>2, <2>5, <2>7, <2>9, <3>1, AnswersGrow DEF AnswerLog
    <3> QED
      BY <1>1, <1>3, <2>1, <2>5, <3>2 DEF AnswerLog, InScan, InDelay
  <2>11. \A k \in 1..Len(outbox) :
           outbox[k].id = a =>
             /\ outbox[k].kind = "Progress"
             /\ outbox[k].val \in Nat /\ outbox[k].val <= sent_pulse
    BY <1>1, <2>5, RunningScanOnlyPulsed
  <2>12. \A k \in 1..Len(outbox') :
           PulseRises(k)' /\ CancelAsked(k)' /\ PageIsCurrent(k)'
    <3>1. CancelAsked(n)'
      <4>1. f.val = "Cancelled" => AskedToCancel(a)
        <5>1. f.val = "Cancelled" => cancel
          BY <1>1, <2>7 DEF OutcomeOf, CancelLog
        <5>2. cancel => AskedToCancel(active)
          BY <1>1, <1>3 DEF CancelLog
        <5> QED
          BY <2>5, <5>1, <5>2
      <4> QED
        BY <2>2, <2>5, <2>7, <2>8, <2>9, <4>1, AskStays DEF CancelAsked
    <3>2. PulseRises(n)' /\ PageIsCurrent(n)'
      BY <2>7, <2>8 DEF PulseRises, PageIsCurrent
    <3>3. ASSUME NEW k \in (Len(outbox) + 1)..n, k # n
          PROVE  PulseRises(k)' /\ CancelAsked(k)' /\ PageIsCurrent(k)'
      <4>1. k = Len(outbox) + 1 /\ outbox'[k] = p /\ pulses > sent_pulse
        BY <2>8, <3>3
      <4>2. PulseRises(k)'
        <5>1. \A m \in 1..(k - 1) : m \in 1..Len(outbox) /\ outbox'[m] = outbox[m]
          BY <2>2, <2>8, <4>1 DEF LogsGrow
        <5>2. ASSUME NEW m \in 1..Len(outbox'), m < k, outbox'[m].id = a
              PROVE  outbox'[m].kind = "Progress" /\ outbox'[m].val < pulses
          <6>1. m \in 1..Len(outbox) /\ outbox'[m] = outbox[m]
            BY <2>8, <4>1, <5>1, <5>2
          <6>2. outbox[m].val \in Nat /\ outbox[m].val <= sent_pulse
            BY <2>11, <5>2, <6>1
          <6>3. pulses \in Nat /\ sent_pulse \in Nat
            BY DEF ServerTypes
          <6> QED
            BY <2>11, <4>1, <5>2, <6>1, <6>2, <6>3
        <5> QED
          BY <2>7, <4>1, <5>2 DEF PulseRises
      <4> QED
        BY <2>7, <4>1, <4>2 DEF CancelAsked, PageIsCurrent
    <3> QED
      BY <2>2, <2>6, <2>9, <3>1, <3>2, <3>3, OldFramesKeepPromises
  <2>13. PulseLog'
    <3>1. LastPulseSent'
      <4> SUFFICES ASSUME pulses > 0, NEW k \in 1..n,
                          outbox'[k].kind = "Scan", outbox'[k].id = a
                   PROVE  \E m \in 1..(k - 1) : outbox'[m] = p
        BY <1>1, <2>4, <2>5, <2>6 DEF LastPulseSent, Pulse
      <4>1. k = n
        <5>1. k \notin 1..Len(outbox)
          BY <2>2, <2>11 DEF LogsGrow
        <5> QED
          BY <2>7, <2>8, <5>1
      <4>2. CASE pulses > sent_pulse
        <5>1. n = Len(outbox) + 2 /\ outbox'[Len(outbox) + 1] = p
          BY <2>2, <2>4, <2>6, <4>2
        <5> QED
          BY <2>8, <4>1, <5>1
      <4>3. CASE ~(pulses > sent_pulse)
        <5>1. pulses = sent_pulse
          BY <4>3 DEF ServerTypes
        <5>2. PICK m \in 1..Len(outbox) : outbox[m] = p
          BY <1>1, <2>4, <5>1 DEF PulseLog
        <5>3. m \in 1..(k - 1) /\ outbox'[m] = p
          BY <2>2, <2>8, <4>1, <5>2 DEF LogsGrow
        <5> QED
          BY <5>3
      <4> QED
        BY <4>2, <4>3
    <3> QED
      BY <2>1, <2>12, <3>1 DEF PulseLog, InScan
  <2>14. CancelLog'
    BY <2>1, <2>12 DEF CancelLog, InScan
  <2>15. PageLog'
    <3>1. NewestBefore(a, n + 1)'
      BY <2>7, <2>8 DEF NewestBefore
    <3> QED
      BY <1>1, <2>5, <2>6, <2>12, <3>1 DEF PageLog
  <2> QED
    BY <2>9, <2>10, <2>13, <2>14, <2>15
<1> QED
  BY <1>2, <1>3

---------------------------------------------------------------------------
(* The client, the runner, and the whole *)

\* Whatever the client sends, the logs only grow.
LEMMA RequestsKeepInv ==
  ASSUME ServerInv, requests' \in Seq(ClientRequests), Len(requests) <= Len(requests'),
         \A i \in 1..Len(requests) : requests'[i] = requests[i],
         UNCHANGED <<client_lost, engine, thread>>
  PROVE  ServerInv'
<1> USE DEF ServerInv
<1>2. /\ requests' \in Seq(ClientRequests) /\ Len(requests) <= Len(requests')
      /\ \A i \in 1..Len(requests) : requests'[i] = requests[i]
  OBVIOUS
<1>3. UNCHANGED <<client_lost, consumed, outbox, e_pc, active, cancel, sent_pulse,
                  settled_scan, swallowed, scan_result, pulses>>
  BY DEF engine, thread
<1>4. ServerTypes' /\ LogsGrow
  BY <1>2, <1>3 DEF ServerTypes, LogsGrow
<1>5. ActiveIsRead'
  BY <1>2, <1>3, SMTT(60) DEF ActiveIsRead, ServerTypes, InScan, InDelay
<1>6. AnswerLog'
  <2>1. \A id \in 1..consumed : requests'[id] = requests[id]
    BY <1>2 DEF ServerTypes
  <2>2. UNCHANGED <<AtMostOneAnswer, InScan, InDelay, consumed, client_lost, e_pc, active,
                    swallowed>>
    BY <1>3 DEF AtMostOneAnswer, IsAnswer, InScan, InDelay
  <2>3. Answered(active)' = Answered(active) /\ \A id : Answered(id)' = Answered(id)
    BY <1>3 DEF Answered, IsAnswer
  <2> QED
    BY <2>1, <2>2, <2>3 DEF AnswerLog
<1>7. PulseLog'
  BY <1>3, <1>4, SilenceKeepsLogs DEF PulseLog, LastPulseSent, InScan, Pulse
<1>8. CancelLog'
  <2>1. PICK a : a = active
    OBVIOUS
  <2>2. InScan => a \in Nat
    BY <2>1 DEF ActiveIsRead
  <2>3. InScan /\ cancel /\ ~client_lost => AskedToCancel(a)'
    BY <1>3, <1>4, <2>1, <2>2, SilenceKeepsLogs DEF CancelLog
  <2> QED
    BY <1>3, <1>4, <2>1, <2>3, SilenceKeepsLogs DEF CancelLog, InScan
<1>9. PageLog'
  <2>1. PICK op : op = settled_scan
    OBVIOUS
  <2> QED
    BY <1>3, <1>4, <2>1, SilenceKeepsLogs DEF PageLog
<1> QED
  BY <1>4, <1>5, <1>6, <1>7, <1>8, <1>9

LEMMA SendKeepsInv ==
  ASSUME ServerInv, NEW verb \in AllVerbs, NEW target \in Nat, Send(verb, target),
         UNCHANGED <<client_lost, engine, thread>>
  PROVE  ServerInv'
<1>1. Request(verb, target) \in ClientRequests
  BY DEF Request, ClientRequests
<1>2. /\ requests' \in Seq(ClientRequests) /\ Len(requests) <= Len(requests')
      /\ \A i \in 1..Len(requests) : requests'[i] = requests[i]
  BY <1>1, AppendProperties DEF Send, ServerInv, ServerTypes
<1> QED
  BY <1>2, RequestsKeepInv

\* Less is promised to a client that is gone, and by an engine that is.
LEMMA LossKeepsInv ==
  ASSUME ServerInv, client_lost' \in {client_lost, TRUE}, e_pc' \in {e_pc, "ended"},
         UNCHANGED <<requests, consumed, outbox, active, cancel, sent_pulse,
                     settled_scan, swallowed, scan_result, pulses>>
  PROVE  ServerInv'
<1> USE DEF ServerInv
<1>1. client_lost' \in BOOLEAN
  BY DEF ServerTypes
<1>2. ServerTypes' /\ LogsGrow
  BY <1>1 DEF ServerTypes, LogsGrow
<1>3. ActiveIsRead' /\ AnswerLog'
  BY <1>2, SilenceKeepsLogs DEF ActiveIsRead, AnswerLog, ServerTypes, InScan, InDelay
<1>4. PulseLog'
  BY <1>2, SilenceKeepsLogs DEF PulseLog, LastPulseSent, InScan, Pulse
<1>5. CancelLog'
  BY <1>2, SilenceKeepsLogs DEF CancelLog, InScan, AskedToCancel, ServerTypes
<1>6. PageLog'
  BY <1>2, SilenceKeepsLogs DEF PageLog
<1> QED
  BY <1>2, <1>3, <1>4, <1>5, <1>6

\* The runner's thread only ever adds callbacks and returns once.
LEMMA RunnerKeepsInv ==
  ASSUME ServerInv, RunnerProgress \/ RunnerReturns
  PROVE  ServerInv'
<1> USE DEF ServerInv
<1>1. /\ UNCHANGED <<requests, client_lost, consumed, outbox, e_pc, active, cancel, sent_pulse,
                     settled_scan, swallowed>>
      /\ InScan
      /\ pulses' \in Nat /\ sent_pulse \in 0..pulses'
      /\ scan_result' \in ScanOutcomes \union {None, "Error"}
      /\ scan_result' # None /\ scan_result' = "Cancelled" =>
           cancel
  BY DEF RunnerProgress, RunnerReturns, Running, InScan, engine, ServerTypes, ScanOutcomes
<1>2. ServerTypes' /\ LogsGrow
  BY <1>1 DEF ServerTypes, LogsGrow
<1>3. ActiveIsRead' /\ AnswerLog'
  BY <1>1, <1>2, SilenceKeepsLogs DEF ActiveIsRead, AnswerLog, InScan, InDelay
<1>4. PulseLog'
  BY <1>1, <1>2, SilenceKeepsLogs DEF PulseLog, LastPulseSent, InScan, Pulse
<1>5. CancelLog'
  BY <1>1, <1>2, SilenceKeepsLogs DEF CancelLog, InScan, AskedToCancel
<1>6. PageLog'
  BY <1>1, <1>2, SilenceKeepsLogs DEF PageLog
<1> QED
  BY <1>2, <1>3, <1>4, <1>5, <1>6

\* Every step of the engine's main thread.
LEMMA EngineStepKeepsInv ==
  ASSUME ServerInv, EngineStep
  PROVE  ServerInv'
<1>1. CASE ReplyStep
  BY <1>1, ReplyKeepsInv
<1>2. CASE LoopMove
  BY <1>2, MoveKeepsInv
<1>3. CASE BeginDelay \/ DelayDrop
  BY <1>3, DelayKeepsInv
<1>4. CASE DelayCancel \/ DelayElapses
  BY <1>4, DelayEndKeepsInv
<1>5. CASE StartScan
  BY <1>5, StartKeepsInv
<1>6. CASE DrainProgress
  BY <1>6, DrainKeepsInv
<1>7. CASE PollCancel
  BY <1>7, PollCancelKeepsInv
<1>8. CASE SettleScan
  BY <1>8, SettleKeepsInv
<1> QED
  BY <1>1, <1>2, <1>3, <1>4, <1>5, <1>6, <1>7, <1>8 DEF EngineStep, ReplyStep, LoopMove

\* An engine that was just started has promised nothing.
LEMMA ServerStarts == SInit => ServerInv
<1> SUFFICES ASSUME SInit PROVE ServerInv
  OBVIOUS
<1>1. ServerTypes /\ ActiveIsRead
  <2>1. /\ requests \in Seq(ClientRequests) /\ outbox \in Seq(ReplyFrames)
        /\ Len(requests) = 0 /\ Len(outbox) = 0 /\ consumed = 0
    BY EmptySeq DEF SInit
  <2>2. client_lost \in BOOLEAN /\ cancel \in BOOLEAN
    BY DEF SInit
  <2>3. e_pc = "idle" /\ active = None /\ scan_result = None /\ settled_scan = None
    BY DEF SInit
  <2>4. pulses \in Nat /\ sent_pulse \in 0..pulses
    BY DEF SInit
  <2>5. ServerTypes
    BY <2>1, <2>2, <2>3, <2>4 DEF ServerTypes
  <2> QED
    BY <2>3, <2>5 DEF ActiveIsRead, InScan, InDelay
<1>2. AnswerLog /\ PulseLog /\ CancelLog /\ PageLog
  BY DEF SInit, AnswerLog, AtMostOneAnswer, Answered, PulseLog, LastPulseSent, CancelLog,
         PageLog, InScan, InDelay
<1> QED
  BY <1>1, <1>2 DEF ServerInv

\* The invariant of the server: what was sent, what was answered and where the
\* loop is fit together (main.rs, whatever its client does).
THEOREM ServerInvariant == SSpec => []ServerInv
<1>1. ASSUME ServerInv, [SNext]_svars PROVE ServerInv'
  <2>1. CASE AnyClientSends
    <3>1. PICK verb \in AllVerbs, target \in Nat : Send(verb, target)
      BY <2>1, ServerAssumption DEF AnyClientSends, ServerInv, ServerTypes
    <3> QED
      BY <1>1, <2>1, <3>1, SendKeepsInv DEF AnyClientSends
  <2>2. CASE ClientVanishes
    BY <1>1, <2>2, LossKeepsInv DEF ClientVanishes, engine, thread
  <2>3. CASE EngineStep
    BY <1>1, <2>3, EngineStepKeepsInv
  <2>4. CASE RunnerProgress \/ RunnerReturns
    BY <1>1, <2>4, RunnerKeepsInv
  <2>5. CASE UNCHANGED svars
    BY <1>1, <2>5, LossKeepsInv DEF svars, engine, thread
  <2> QED
    BY <1>1, <2>1, <2>2, <2>3, <2>4, <2>5 DEF SNext
<1> QED
  BY <1>1, ServerStarts, PTL DEF SSpec

---------------------------------------------------------------------------
(* What the engine's steps send, for the clients that read it *)

\* Pulses and outcomes are only sent of scans, and a scan is only answered by
\* its outcome or an error.
FrameFits(k) ==
  IF requests[outbox[k].id].verb = "Scan"
  THEN \/ outbox[k].kind = "Progress" /\ outbox[k].val > 0
       \/ outbox[k].kind = "Scan" /\ outbox[k].val \in ScanOutcomes
       \/ outbox[k].kind \in {"Error", "Busy"}
  ELSE outbox[k].kind \notin {"Progress", "Scan"}
FramesFit == \A k \in 1..Len(outbox) : FrameFits(k)

\* Whose frame a step may send: of the request it reads, or of the one it
\* works on.
Addressee(id) ==
  \/ FrameReady /\ id = consumed + 1 /\ consumed' = consumed + 1
  \/ (InScan \/ InDelay) /\ id = active

\* The command loop only answers a Scan that it does not start with an error.
LEMMA ReplyFits ==
  ASSUME ServerTypes, ReplyStep, NEW f \in ReplyFrames, outbox' = Append(outbox, f)
  PROVE  /\ f.id = consumed + 1 /\ consumed' = consumed + 1
         /\ IF Incoming.verb = "Scan" THEN f.kind \in {"Error", "Busy"}
            ELSE f.kind \notin {"Progress", "Scan"}
<1>1. PICK n \in Nat : n = Len(outbox) + 1
  BY DEF ServerTypes
<1>2. outbox'[n] = f /\ outbox' # outbox
  BY <1>1, SentFrame DEF ServerTypes
<1>3. /\ FrameReady /\ consumed' = consumed + 1
      /\ \E val : \E kind \in OtherKinds \union {"Page", "Invalid", "Stale"} :
           /\ outbox' = Append(outbox, Response(kind, consumed + 1, val))
           /\ IF Incoming.verb = "Scan" THEN kind \in {"Error", "Busy"}
              ELSE kind # "Scan"
  BY <1>2
     DEF ReplyStep, IdlePing, IdleStatus, IdleCancel, IdleShutdown, IdleGetChildren,
         RejectScan, PollStatus, PollBusy, Receive, Answer, AnswerInScan, OtherKinds,
         IncomingId
<1>4. PICK val : \E kind \in OtherKinds \union {"Page", "Invalid", "Stale"} :
        /\ outbox' = Append(outbox, Response(kind, consumed + 1, val))
        /\ IF Incoming.verb = "Scan" THEN kind \in {"Error", "Busy"}
           ELSE kind # "Scan"
  BY <1>3
<1>5. PICK kind \in OtherKinds \union {"Page", "Invalid", "Stale"} :
        /\ outbox' = Append(outbox, Response(kind, consumed + 1, val))
        /\ IF Incoming.verb = "Scan" THEN kind \in {"Error", "Busy"}
           ELSE kind # "Scan"
  BY <1>4
<1>6. f = Response(kind, consumed + 1, val)
  BY <1>1, <1>2, <1>5 DEF ServerTypes
<1> QED
  BY <1>3, <1>5, <1>6 DEF Response, OtherKinds

\* Pulses and outcomes are sent of the scan that runs.
OfActive(f) ==
  f.kind \in {"Progress", "Scan"} =>
    InScan /\ f.id = active /\ (f.kind = "Progress" => pulses > 0)

\* No step of the engine sends a frame of its own accord, or one that does not
\* fit its request.
LEMMA StepFrames ==
  ASSUME ServerInv, EngineStep
  PROVE  /\ LogsGrow
         /\ UNCHANGED <<requests, client_lost>>
         /\ consumed \in Nat /\ consumed' \in {consumed, consumed + 1}
         /\ \A k \in (Len(outbox) + 1)..Len(outbox') :
              FrameFits(k)' /\ Addressee(outbox'[k].id) /\ OfActive(outbox'[k])
<1> USE DEF ServerInv
<1>1. /\ UNCHANGED <<requests, client_lost>>
      /\ consumed \in Nat /\ Len(outbox) \in Nat
      /\ consumed' = consumed \/ (FrameReady /\ consumed' = consumed + 1)
  BY DEF EngineStep, IdlePing, IdleStatus, IdleCancel, IdleShutdown, IdleGetChildren, IdleLost,
         BeginDelay, DelayCancel, DelayDrop, DelayElapses, RejectScan, StartScan,
         DrainProgress, PollEmpty, PollCancel, PollStatus, PollBusy, PollLost, KeepScanning,
         SettleScan, LeaveAfterJoin, Receive, IncomingId, scanning, ServerTypes
<1>2. consumed' \in consumed..Len(requests)
  BY <1>1 DEF FrameReady, ServerTypes
<1>3. CASE outbox' = outbox
  BY <1>1, <1>2, <1>3 DEF LogsGrow, ServerTypes
<1>4. ASSUME NEW f \in ReplyFrames, outbox' = Append(outbox, f), f.id \in 1..consumed',
             IF requests[f.id].verb = "Scan"
             THEN \/ f.kind = "Progress" /\ f.val > 0
                  \/ f.kind \in {"Error", "Busy"}
             ELSE f.kind \notin {"Progress", "Scan"},
             Addressee(f.id), OfActive(f)
      PROVE  /\ LogsGrow
             /\ \A k \in (Len(outbox) + 1)..Len(outbox') :
                  FrameFits(k)' /\ Addressee(outbox'[k].id) /\ OfActive(outbox'[k])
  <2>1. /\ LogsGrow
        /\ \A k \in (Len(outbox) + 1)..Len(outbox') : outbox'[k] = f
    BY <1>1, <1>2, <1>4, OneMoreFrame
  <2> QED
    BY <1>1, <1>4, <2>1 DEF FrameFits
<1>5. CASE ReplyStep /\ outbox' # outbox
  <2>1. PICK f \in ReplyFrames : outbox' = Append(outbox, f)
    BY <1>5, RepliesToIncoming
  <2>2. /\ f.id = consumed + 1 /\ consumed' = consumed + 1
        /\ IF Incoming.verb = "Scan" THEN f.kind \in {"Error", "Busy"}
           ELSE f.kind \notin {"Progress", "Scan"}
    BY <1>5, <2>1, ReplyFits
  <2>3. FrameReady /\ Incoming = requests[consumed + 1]
    BY <1>5, RepliesToIncoming DEF Incoming
  <2> QED
    BY <1>1, <1>4, <2>1, <2>2, <2>3 DEF Addressee, OfActive
<1>6. CASE DelayCancel /\ outbox' # outbox
  <2>1. PICK f : f = Response("Cancel", consumed + 1, None)
    OBVIOUS
  <2>2. /\ outbox' = Append(outbox, f) /\ FrameReady /\ consumed' = consumed + 1
        /\ requests[consumed + 1].verb = "Cancel"
    BY <1>6, <2>1 DEF DelayCancel, Answer, Receive, IncomingId, Incoming
  <2>3. f \in ReplyFrames /\ f.kind = "Cancel" /\ f.id = consumed + 1
    BY <1>1, <2>1 DEF Response, ReplyFrames, OtherKinds
  <2> QED
    BY <1>1, <1>4, <2>2, <2>3 DEF Addressee, OfActive
<1>7. CASE DelayElapses /\ outbox' # outbox
  <2>1. PICK f : f = Response("Ping", active, None)
    OBVIOUS
  <2>2. /\ outbox' = Append(outbox, f) /\ InDelay /\ consumed' = consumed
        /\ active \in 1..consumed /\ requests[active].verb = "DelayedPing"
    BY <1>7, <2>1 DEF DelayElapses, Answer, InDelay, ActiveIsRead
  <2>3. f \in ReplyFrames /\ f.kind = "Ping" /\ f.id = active
    BY <2>1, <2>2 DEF Response, ReplyFrames, OtherKinds
  <2> QED
    BY <1>1, <1>4, <2>2, <2>3 DEF Addressee, OfActive
<1>8. CASE DrainProgress /\ outbox' # outbox
  <2>1. PICK f : f = Pulse(pulses)
    OBVIOUS
  <2>2. /\ outbox' = Append(outbox, f) /\ InScan /\ consumed' = consumed
        /\ active \in 1..consumed /\ requests[active].verb = "Scan"
        /\ pulses \in Nat /\ pulses > 0
    BY <1>8, <2>1 DEF DrainProgress, InScan, ActiveIsRead, ServerTypes
  <2>3. f \in ReplyFrames /\ f.kind = "Progress" /\ f.id = active /\ f.val = pulses
    BY <2>1, <2>2 DEF Pulse, Response, ReplyFrames, NumberKinds
  <2> QED
    BY <1>1, <1>4, <2>2, <2>3 DEF Addressee, OfActive
<1>9. CASE SettleScan /\ outbox' # outbox
  <2>1. /\ outbox' = outbox \o Append(LastPulse, ScanResponse)
        /\ InScan /\ consumed' = consumed /\ scan_result # None
        /\ active \in 1..consumed /\ requests[active].verb = "Scan"
        /\ pulses \in Nat /\ sent_pulse \in Nat
    BY <1>9, SMTT(60) DEF SettleScan, InScan, ActiveIsRead, ServerTypes
  <2>2. /\ LogsGrow
        /\ outbox'[Len(outbox')] = ScanResponse
        /\ IF pulses > sent_pulse
           THEN Len(outbox') = Len(outbox) + 2 /\ outbox'[Len(outbox) + 1] = Pulse(pulses)
           ELSE Len(outbox') = Len(outbox) + 1
    BY <1>1, <2>1, SettledFrames
  <2>3. /\ ScanResponse.kind = "Scan" /\ ScanResponse.id = active
        /\ ScanResponse.val \in ScanOutcomes
    BY <2>1 DEF ScanResponse, Response, OutcomeOf, ScanOutcomes, ServerTypes
  <2>4. Pulse(pulses).kind = "Progress" /\ Pulse(pulses).id = active /\ Pulse(pulses).val = pulses
    BY DEF Pulse, Response
  <2>5. \A k \in (Len(outbox) + 1)..Len(outbox') :
          outbox'[k] = ScanResponse \/ (pulses > 0 /\ outbox'[k] = Pulse(pulses))
    BY <1>1, <2>1, <2>2
  <2> QED
    BY <1>1, <2>1, <2>2, <2>3, <2>4, <2>5, ZenonT(60) DEF FrameFits, Addressee, OfActive
<1> QED
  BY <1>1, <1>3, <1>5, <1>6, <1>7, <1>8, <1>9
     DEF EngineStep, ReplyStep, IdleLost, BeginDelay, DelayDrop, StartScan, PollEmpty,
         PollCancel, PollLost, KeepScanning, LeaveAfterJoin

\* Frames that were sent keep fitting their requests.
LEMMA FramesStayFit ==
  ASSUME ServerTypes, ServerTypes', LogsGrow, FramesFit,
         \A k \in (Len(outbox) + 1)..Len(outbox') : FrameFits(k)'
  PROVE  FramesFit'
<1> SUFFICES ASSUME NEW k \in 1..Len(outbox') PROVE FrameFits(k)'
  BY DEF FramesFit
<1>1. CASE k \in 1..Len(outbox)
  BY <1>1, OldFrameStays DEF FramesFit, FrameFits
<1>2. CASE k \notin 1..Len(outbox)
  BY <1>2 DEF ServerTypes
<1> QED
  BY <1>1, <1>2

---------------------------------------------------------------------------
(* What it is for *)

\* At most one answer is exactly one where there is one.
LEMMA InvAnswersOnce == ServerInv => AnsweredExactlyOnce
<1> SUFFICES ASSUME ServerInv, e_pc = "idle", ~client_lost, NEW id \in 1..consumed
             PROVE  \/ Cardinality(Answers(id)) = 1
                    \/ /\ Answers(id) = {}
                       /\ id \in swallowed \/ requests[id].verb = "Cancel"
  BY DEF AnsweredExactlyOnce
<1>1. CASE Answered(id)
  <2>1. PICK k \in 1..Len(outbox) : outbox[k].id = id /\ IsAnswer(k)
    BY <1>1 DEF Answered
  <2>2. Answers(id) = {k}
    BY <2>1 DEF ServerInv, AnswerLog, AtMostOneAnswer, Answers, IsAnswer
  <2> QED
    BY <2>2, FS_Singleton
<1>2. CASE ~Answered(id)
  <2>1. Answers(id) = {}
    BY <1>2 DEF Answers, Answered, IsAnswer
  <2> QED
    BY <1>2, <2>1 DEF ServerInv, AnswerLog, InScan, InDelay
<1> QED
  BY <1>1, <1>2

\* The other promises are parts of the invariant, frame by frame.
LEMMA InvKeepsPromises ==
  ServerInv => ProgressOrdered /\ CancelledWhenAsked /\ PagesAreCurrent
BY DEF ServerInv, PulseLog, PulseRises, LastPulseSent, ProgressOrdered, CancelLog, CancelAsked,
       AskedToCancel, CancelledWhenAsked, PageLog, PageIsCurrent, NewestBefore, KeepsGraph,
       PagesAreCurrent

\* However many Cancels, Status calls and refused commands come in between,
\* the loop answers each request once (the send_response calls of main).
THEOREM RequestsAreAnsweredOnce == SSpec => []AnsweredExactlyOnce
BY ServerInvariant, InvAnswersOnce, PTL

\* Coalesced progress rises, ends with the last callback and never follows
\* the answer (the drain of main.rs and the final drain before ScanResponse).
THEOREM ProgressIsOrdered == SSpec => []ProgressOrdered
BY ServerInvariant, InvKeepsPromises, PTL

\* Only a Cancel of this scan, sent after it, ends it as Cancelled
\* (CancelHandle::new and the target_request_id comparison).
THEOREM CancellationIsAskedFor == SSpec => []CancelledWhenAsked
BY ServerInvariant, InvKeepsPromises, PTL

\* No page is served from a graph that a later Scan has replaced
\* (settled_scan in main.rs).
THEOREM PagesAreOfNewestScan == SSpec => []PagesAreCurrent
BY ServerInvariant, InvKeepsPromises, PTL
=============================================================================
