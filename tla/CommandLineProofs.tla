------------------------- MODULE CommandLineProofs -------------------------
(***************************************************************************)
(* An invocation of pigtree.exe, whatever its verb and its interruptions.  *)
(*                                                                         *)
(* First the engine and the Rust client together: with one call            *)
(* outstanding at a time no request id needs to be compared, as long as    *)
(* nothing is left behind; and a scan call reads the end of its own scan.  *)
(* The engine's promises of EngineServerProofs hold for this client too,   *)
(* also when the engine is killed, which no step of EngineServer does.     *)
(*                                                                         *)
(* Then the launch alone: SessionLaunch never runs an engine outside a     *)
(* live job and never lets anybody but the launcher be served.  Neither    *)
(* property is inductive: the proof needs where both processes stand when  *)
(* the pipe has a given holder and which handshakes can be under way then. *)
(* An invocation launches and drops its session as SessionLaunch says, so  *)
(* what is proved of a launch holds of every invocation.                   *)
(*                                                                         *)
(* Last the invariant of the session, SessionInv, is carried through every *)
(* step of run(), and on top of it what run() asked, kept, printed and     *)
(* returned (InvocationInv): stdout keeps its contract and every exit code *)
(* has its reason, for every set of verbs and every bound.                 *)
(***************************************************************************)
EXTENDS CommandLine, EngineServerProofs

---------------------------------------------------------------------------
(* The session *)

InCall == c_pc \in {"rpc", "cancel", "shutdown", "scan"}

SessionTypes ==
  /\ c_pc \in {"free", "rpc", "cancel", "shutdown", "scan", "closed"}
  /\ c_pc = "closed" <=> client_lost
  /\ c_last_seq \in Nat
  /\ c_received \in 0..Len(outbox)

CallIsSent ==
  InCall =>
    /\ c_req \in 1..Len(requests)
    /\ requests[c_req].verb = "Scan" <=> c_pc = "scan"

\* The sequence number remembered is that of a pulse this call read.
LastSeqRead ==
  c_pc = "scan" /\ c_last_seq > 0 =>
    \E m \in 1..c_received :
      outbox[m].kind = "Progress" /\ outbox[m].id = c_req /\ outbox[m].val = c_last_seq

\* While no call gave up and none asked for a cancellation, the engine works
\* on the newest request or on none, and what was not read yet answers the
\* call that waits.
Quiet == ~c_abandoned /\ ~CancelSent
OneAtATime ==
  Quiet /\ c_pc # "closed" =>
    /\ InCall => c_req = Len(requests)
    /\ e_pc = "idle" =>
         consumed = Len(requests) \/ (InCall /\ consumed + 1 = Len(requests))
    /\ InScan \/ InDelay =>
         InCall /\ active = Len(requests) /\ consumed = Len(requests)
    /\ \A k \in (c_received + 1)..Len(outbox) : InCall /\ outbox[k].id = Len(requests)

SessionInv ==
  /\ ServerInv
  /\ SessionTypes
  /\ CallIsSent
  /\ LastSeqRead
  /\ FramesFit
  /\ OneAtATime
  /\ ScanCallSound
  /\ InOrderAnswers

---------------------------------------------------------------------------
(* What the engine's steps do *)

\* Where a step takes the loop: from idle on to the next request, else back to
\* idle or on with what it is at, unless it reads something in between.
LEMMA LoopGoesOn ==
  ASSUME ServerInv, EngineStep
  PROVE  \/ e_pc' = "ended"
         \/ /\ e_pc = "idle" /\ FrameReady /\ consumed' = consumed + 1
            /\ (~InScan' /\ ~InDelay') \/ active' = consumed + 1
         \/ (InScan \/ InDelay) /\ FrameReady
         \/ /\ InScan \/ InDelay
            /\ consumed' = consumed
            /\ (~InScan' /\ ~InDelay') \/ active' = active
BY DEF EngineStep, IdlePing, IdleStatus, IdleCancel, IdleShutdown, IdleGetChildren, IdleLost,
       BeginDelay, DelayCancel, DelayDrop, DelayElapses, RejectScan, StartScan,
       DrainProgress, PollEmpty, PollCancel, PollStatus, PollBusy, PollLost, KeepScanning,
       SettleScan, LeaveAfterJoin, Receive, Answer, IncomingId, scanning, InScan, InDelay

---------------------------------------------------------------------------
(* One lemma for each kind of step *)

\* The engine's own steps leave the client where it is.
LEMMA EngineStepKeepsSession ==
  ASSUME SessionInv, EngineStep, UNCHANGED cvars
  PROVE  SessionInv'
<1> USE DEF SessionInv
<1>1. ServerInv'
  BY EngineStepKeepsInv
<1>2. /\ LogsGrow
      /\ UNCHANGED <<requests, client_lost>>
      /\ consumed \in Nat /\ consumed' \in {consumed, consumed + 1}
      /\ \A k \in (Len(outbox) + 1)..Len(outbox') :
           FrameFits(k)' /\ Addressee(outbox'[k].id)
  BY StepFrames
<1>3. UNCHANGED <<c_pc, c_req, c_cancel_sent, c_last_seq, c_received, c_return, c_abandoned>>
  BY DEF cvars, call
<1>4. Len(outbox) \in Nat /\ Len(outbox') \in Nat /\ Len(requests) \in Nat
  BY <1>1 DEF ServerInv, ServerTypes
<1>5. SessionTypes' /\ CallIsSent'
  BY <1>2, <1>3, <1>4 DEF SessionTypes, CallIsSent, InCall, LogsGrow
<1>6. LastSeqRead'
  BY <1>2, <1>3, <1>4, SMTT(60) DEF SessionTypes, LastSeqRead, LogsGrow
<1>7. FramesFit'
  BY <1>1, <1>2, FramesStayFit DEF ServerInv
<1>8. OneAtATime'
  <2> SUFFICES ASSUME Quiet, c_pc # "closed" PROVE OneAtATime'
    BY <1>2, <1>3 DEF OneAtATime, Quiet, CancelSent
  <2>1. PICK N \in Nat : N = Len(requests)
    BY <1>4
  <2>2. /\ InCall => c_req = N
        /\ e_pc = "idle" => consumed = N \/ (InCall /\ consumed + 1 = N)
        /\ InScan \/ InDelay => InCall /\ active = N /\ consumed = N
        /\ \A k \in (c_received + 1)..Len(outbox) : InCall /\ outbox[k].id = N
    BY <2>1 DEF OneAtATime
  <2>3. InCall' = InCall
    BY <1>3 DEF InCall
  <2>4. e_pc = "idle" \/ InScan \/ InDelay
    BY DEF EngineStep, IdlePing, IdleStatus, IdleCancel, IdleShutdown, IdleGetChildren,
           IdleLost, BeginDelay, DelayCancel, DelayDrop, DelayElapses, RejectScan, StartScan,
           DrainProgress, PollEmpty, PollCancel, PollStatus, PollBusy, PollLost,
           KeepScanning, SettleScan, LeaveAfterJoin, InScan, InDelay
  <2>5. FrameReady => e_pc = "idle" /\ InCall /\ consumed + 1 = N
    BY <1>2, <2>1, <2>2, <2>4 DEF FrameReady
  <2>6. \A k \in (c_received + 1)..Len(outbox') : InCall /\ outbox'[k].id = N
    <3>1. \A id : Addressee(id) => InCall /\ id = N
      BY <2>2, <2>5 DEF Addressee
    <3>2. \A k \in (c_received + 1)..Len(outbox') :
            \/ k \in (c_received + 1)..Len(outbox) /\ outbox'[k] = outbox[k]
            \/ k \in (Len(outbox) + 1)..Len(outbox')
      BY <1>2, <1>4 DEF SessionTypes, LogsGrow
    <3> QED
      BY <1>2, <2>2, <3>1, <3>2
  <2>7. e_pc' = "idle" \/ InScan' \/ InDelay' => consumed' = N
    BY <1>2, <2>2, <2>4, <2>5, LoopGoesOn DEF InScan, InDelay, FrameReady
  <2>8. InScan' \/ InDelay' => InCall /\ active' = N
    BY <1>2, <2>2, <2>4, <2>5, LoopGoesOn DEF InScan, InDelay
  <2> QED
    BY <1>2, <1>3, <2>1, <2>2, <2>3, <2>6, <2>7, <2>8 DEF OneAtATime
<1>9. ScanCallSound' /\ InOrderAnswers'
  BY <1>2, <1>3 DEF ScanCallSound, InOrderAnswers, OwnAnswer, GotFrame, CancelSent
<1> QED
  BY <1>1, <1>5, <1>6, <1>7, <1>8, <1>9

\* A request the client sends joins the log.
LEMMA RequestJoins ==
  ASSUME ServerInv, FramesFit, NEW verb \in AllVerbs, NEW target \in Nat, Send(verb, target),
         UNCHANGED serverside
  PROVE  /\ ServerInv' /\ FramesFit'
         /\ Len(requests') = Len(requests) + 1 /\ Len(requests) \in Nat
         /\ \A i \in 1..Len(requests) : requests'[i] = requests[i]
         /\ requests'[Len(requests) + 1].verb = verb
         /\ UNCHANGED <<client_lost, consumed, outbox, e_pc, active>>
         /\ CancelSent \/ verb = "Cancel" => CancelSent'
<1> USE DEF ServerInv
<1>1. ServerInv' /\ UNCHANGED <<client_lost, consumed, outbox, e_pc, active>>
  BY SendKeepsInv DEF serverside, engine
<1>2. Request(verb, target) \in ClientRequests /\ Request(verb, target).verb = verb
  BY DEF Request, ClientRequests
<1>3. /\ Len(requests') = Len(requests) + 1 /\ Len(requests) \in Nat
      /\ \A i \in 1..Len(requests) : requests'[i] = requests[i]
      /\ requests'[Len(requests) + 1].verb = verb
  BY <1>2, AppendProperties DEF Send, ServerTypes
<1>4. LogsGrow
  BY <1>1, <1>3 DEF LogsGrow, ServerTypes
<1>5. FramesFit'
  BY <1>1, <1>4, FramesStayFit DEF ServerTypes
<1>6. CancelSent \/ verb = "Cancel" => CancelSent'
  BY <1>3 DEF CancelSent
<1> QED
  BY <1>1, <1>3, <1>5, <1>6

\* A call begins with everything read and the engine idle, or ends with the
\* engine gone.
LEMMA BeginKeepsSession ==
  ASSUME SessionInv,
         NEW pc \in {"rpc", "cancel", "shutdown", "scan"},
         NEW verb \in AllVerbs, NEW target \in Nat, verb = "Scan" <=> pc = "scan",
         Begin(pc, verb, target)
  PROVE  SessionInv'
<1> USE DEF SessionInv
<1>1. /\ Send(verb, target) /\ UNCHANGED serverside
      /\ c_pc = "free" /\ c_req' = Len(requests) + 1 /\ c_last_seq' = 0
      /\ c_abandoned' = c_abandoned
      /\ \/ c_pc' = pc /\ UNCHANGED <<c_received, c_return>>
         \/ /\ c_pc' = "free" /\ e_pc = "ended" /\ c_received' = Len(outbox)
            /\ c_return'.what = "Disconnected" /\ c_return'.frame = None
  BY DEF Begin, Returned
<1>2. /\ ServerInv' /\ FramesFit'
      /\ Len(requests') = Len(requests) + 1 /\ Len(requests) \in Nat
      /\ \A i \in 1..Len(requests) : requests'[i] = requests[i]
      /\ requests'[Len(requests) + 1].verb = verb
      /\ UNCHANGED <<client_lost, consumed, outbox, e_pc, active>>
      /\ CancelSent \/ verb = "Cancel" => CancelSent'
  BY <1>1, RequestJoins
<1>3. SessionTypes' /\ CallIsSent' /\ LastSeqRead'
  <2>1. Len(outbox) \in Nat
    BY DEF ServerInv, ServerTypes
  <2> QED
    BY <1>1, <1>2, <2>1 DEF SessionTypes, CallIsSent, LastSeqRead, InCall
<1>4. OneAtATime'
  <2> SUFFICES ASSUME Quiet' PROVE OneAtATime'
    BY DEF OneAtATime
  <2>1. Quiet /\ ~InCall
    BY <1>1, <1>2 DEF Quiet, InCall
  <2>2. /\ e_pc = "idle" => consumed = Len(requests)
        /\ ~InScan /\ ~InDelay
        /\ \A k \in (c_received + 1)..Len(outbox) : FALSE
    BY <1>1, <2>1 DEF OneAtATime
  <2> QED
    BY <1>1, <1>2, <2>2 DEF OneAtATime, InCall, InScan, InDelay, ServerInv, ServerTypes
<1>5. ScanCallSound' /\ InOrderAnswers'
  BY <1>1, <1>2 DEF ScanCallSound, InOrderAnswers, OwnAnswer, GotFrame, CancelSent
<1> QED
  BY <1>2, <1>3, <1>4, <1>5

\* Once a Cancel was sent nothing is quiet.
LEMMA CancelKeepsSession ==
  ASSUME SessionInv, ScanSendsCancel
  PROVE  SessionInv'
<1> USE DEF SessionInv
<1>1. /\ Send("Cancel", c_req) /\ UNCHANGED serverside
      /\ c_pc = "scan" /\ c_req \in 1..Len(requests)
      /\ UNCHANGED <<c_pc, c_req, c_last_seq, c_received, c_return, c_abandoned>>
  BY DEF ScanSendsCancel, CallIsSent, InCall
<1>2. "Cancel" \in AllVerbs /\ c_req \in Nat
  BY <1>1 DEF AllVerbs
<1>3. /\ ServerInv' /\ FramesFit'
      /\ Len(requests') = Len(requests) + 1 /\ Len(requests) \in Nat
      /\ \A i \in 1..Len(requests) : requests'[i] = requests[i]
      /\ UNCHANGED <<client_lost, consumed, outbox, e_pc, active>>
      /\ CancelSent'
  BY <1>1, <1>2, RequestJoins
<1>4. SessionTypes' /\ CallIsSent' /\ LastSeqRead'
  BY <1>1, <1>3 DEF SessionTypes, CallIsSent, LastSeqRead, InCall
<1>5. OneAtATime' /\ ScanCallSound' /\ InOrderAnswers'
  BY <1>1, <1>3
     DEF OneAtATime, Quiet, ScanCallSound, InOrderAnswers, OwnAnswer, GotFrame
<1> QED
  BY <1>3, <1>4, <1>5

\* The frame to be read next fits its request.
LEMMA NextFrame ==
  ASSUME SessionInv, FrameWaiting
  PROVE  /\ c_received + 1 \in 1..Len(outbox) /\ Frame = outbox[c_received + 1]
         /\ Frame \in ReplyFrames
         /\ Frame.kind = "Progress" => Frame.val \in Nat
         /\ Frame.id \in 1..Len(requests)
         /\ FrameFits(c_received + 1)
<1> USE DEF SessionInv, ServerInv
<1>1. c_received + 1 \in 1..Len(outbox) /\ Frame = outbox[c_received + 1]
  BY DEF SessionTypes, FrameWaiting, Frame, ServerTypes
<1>2. PICK k \in 1..Len(outbox) : k = c_received + 1
  BY <1>1
<1>3. outbox[k] \in ReplyFrames /\ outbox[k].id \in 1..Len(requests)
  BY ElementOfSeq DEF ServerTypes
<1>4. outbox[k].kind = "Progress" => outbox[k].val \in Nat
  BY PulsesAreNumbered
<1> QED
  BY <1>1, <1>2, <1>3, <1>4 DEF FramesFit

\* In a quiet session the frame read next is for the call that waits; if it
\* is an answer, it is the last frame there is, and the engine is idle again.
LEMMA QuietFrame ==
  ASSUME SessionInv, Quiet, InCall, FrameWaiting
  PROVE  /\ Frame.id = c_req
         /\ Frame.kind # "Progress" =>
              /\ c_received + 1 = Len(outbox)
              /\ ~InScan /\ ~InDelay
              /\ e_pc = "idle" => consumed = Len(requests)
<1> USE DEF SessionInv, ServerInv
<1>1. PICK n \in 1..Len(outbox) : n = c_received + 1
  BY NextFrame
<1>2. /\ Frame = outbox[n] /\ Len(outbox) \in Nat /\ c_received \in Nat
      /\ Len(requests) \in Nat /\ consumed \in Nat
  BY <1>1, NextFrame DEF ServerTypes, SessionTypes
<1>3. /\ c_req = Len(requests)
      /\ e_pc = "idle" => consumed = Len(requests) \/ consumed + 1 = Len(requests)
      /\ InScan \/ InDelay => active = Len(requests)
      /\ \A k \in n..Len(outbox) : outbox[k].id = Len(requests)
  BY <1>1 DEF OneAtATime, InCall
<1>4. outbox[n].id = Len(requests) /\ outbox[n].id \in 1..consumed
  BY <1>1, <1>2, <1>3 DEF ServerTypes
<1>5. ASSUME Frame.kind # "Progress"
      PROVE  \A k \in n..Len(outbox) : k = n
  <2> SUFFICES ASSUME NEW k \in n..Len(outbox), k # n PROVE FALSE
    OBVIOUS
  <2>1. k \in 1..Len(outbox) /\ n < k /\ outbox[k].id = outbox[n].id
    BY <1>1, <1>2, <1>3, <1>4
  <2>2. CASE outbox[k].kind = "Progress"
    BY <1>2, <1>5, <2>1, <2>2 DEF PulseLog, PulseRises
  <2>3. CASE outbox[k].kind # "Progress"
    BY <1>2, <1>5, <2>1, <2>3 DEF AnswerLog, AtMostOneAnswer, IsAnswer
  <2> QED
    BY <2>2, <2>3
<1>6. Frame.kind # "Progress" => c_received + 1 = Len(outbox)
  BY <1>1, <1>2, <1>5
<1>7. Frame.kind # "Progress" => ~InScan /\ ~InDelay
  <2>1. PICK a : a = active
    OBVIOUS
  <2>2. Frame.kind # "Progress" => Answered(Len(requests))
    BY <1>2, <1>4 DEF Answered, IsAnswer
  <2> QED
    BY <1>3, <2>1, <2>2 DEF AnswerLog
<1> QED
  BY <1>2, <1>3, <1>4, <1>6, <1>7

\* A plain call takes its answer, in a quiet session.
LEMMA RpcReturnKeepsSession ==
  ASSUME SessionInv, RpcReturns
  PROVE  SessionInv'
<1> USE DEF SessionInv
<1>1. /\ UNCHANGED <<requests, client_lost, consumed, outbox, e_pc, active, cancel, sent_pulse,
                     settled_scan, swallowed, scan_result, pulses>>
      /\ UNCHANGED <<c_abandoned, c_req, c_last_seq>>
      /\ c_pc \in {"rpc", "cancel", "shutdown"} /\ c_pc' = "free"
      /\ FrameWaiting /\ c_received' = c_received + 1
      /\ c_return' = Returned(c_req, "Response", Frame)
  BY DEF RpcReturns, svars, engine, thread, TakeFrame, Return
<1>2. ServerInv'
  BY <1>1, LossKeepsInv
<1>3. FramesFit'
  BY <1>1 DEF FramesFit, FrameFits
<1>4. SessionTypes' /\ CallIsSent' /\ LastSeqRead'
  BY <1>1, NextFrame DEF SessionTypes, CallIsSent, LastSeqRead, InCall
<1>5. Quiet' => Quiet /\ Frame.id = c_req /\ Frame.kind # "Progress"
  <2>1. Quiet' = Quiet
    BY <1>1 DEF Quiet, CancelSent
  <2>2. Quiet => Frame.id = c_req
    BY <1>1, QuietFrame DEF InCall
  <2>3. requests[c_req].verb # "Scan"
    BY <1>1 DEF CallIsSent, InCall
  <2> QED
    BY <1>1, <2>1, <2>2, <2>3, NextFrame DEF FrameFits
<1>6. OneAtATime'
  BY <1>1, <1>2, <1>5, QuietFrame
     DEF OneAtATime, InCall, InScan, InDelay, ServerInv, ServerTypes
<1>7. ScanCallSound' /\ InOrderAnswers'
  <2>1. Quiet' => OwnAnswer'
    BY <1>1, <1>5 DEF OwnAnswer, Returned
  <2> QED
    BY <1>1, <2>1 DEF ScanCallSound, InOrderAnswers, Quiet, Returned
<1> QED
  BY <1>2, <1>3, <1>4, <1>6, <1>7

\* A pulse that was not read yet is newer than the one read last.
LEMMA PulsesAreFresh ==
  ASSUME SessionInv, c_pc = "scan", FrameWaiting, Frame.kind = "Progress", Frame.id = c_req
  PROVE  FreshPulse
<1> USE DEF SessionInv
<1>1. PICK n \in 1..Len(outbox) : n = c_received + 1
  BY NextFrame
<1>2. /\ Frame = outbox[n] /\ Frame.val \in Nat /\ FrameFits(n)
      /\ c_received \in Nat /\ c_last_seq \in Nat
  BY <1>1, NextFrame DEF SessionTypes
<1>3. CASE c_last_seq = 0
  BY <1>2, <1>3 DEF FrameFits, FreshPulse
<1>4. CASE c_last_seq > 0
  <2>1. PICK m \in 1..c_received :
          outbox[m].id = c_req /\ outbox[m].val = c_last_seq
    BY <1>4 DEF LastSeqRead
  <2>2. m \in 1..Len(outbox) /\ m < n
    BY <1>1, <1>2 DEF SessionTypes, ServerInv, ServerTypes
  <2>3. outbox[m].val < outbox[n].val
    BY <1>1, <1>2, <2>1, <2>2 DEF ServerInv, PulseLog, PulseRises
  <2> QED
    BY <1>2, <2>1, <2>3 DEF FreshPulse
<1> QED
  BY <1>2, <1>3, <1>4

\* The scan call reads a pulse and remembers its number.
LEMMA ProgressKeepsSession ==
  ASSUME SessionInv, ScanProgress
  PROVE  SessionInv'
<1> USE DEF SessionInv
<1>1. /\ UNCHANGED <<requests, client_lost, consumed, outbox, e_pc, active, cancel, sent_pulse,
                     settled_scan, swallowed, scan_result, pulses>>
      /\ UNCHANGED <<c_pc, c_req, c_return, c_abandoned>>
      /\ c_pc = "scan" /\ FrameWaiting /\ c_received' = c_received + 1
      /\ Frame.kind = "Progress" /\ Frame.id = c_req /\ c_last_seq' = Frame.val
  BY DEF ScanProgress, svars, engine, thread, TakeFrame, FreshPulse
<1>2. ServerInv'
  BY <1>1, LossKeepsInv
<1>3. FramesFit'
  BY <1>1 DEF FramesFit, FrameFits
<1>4. SessionTypes' /\ CallIsSent'
  BY <1>1, NextFrame DEF SessionTypes, CallIsSent, InCall
<1>5. LastSeqRead'
  <2>1. c_received + 1 \in 1..c_received' /\ Frame = outbox[c_received + 1]
    BY <1>1, NextFrame DEF SessionTypes
  <2> QED
    BY <1>1, <2>1 DEF LastSeqRead
<1>6. OneAtATime'
  BY <1>1 DEF OneAtATime, Quiet, CancelSent, InCall, InScan, InDelay, SessionTypes
<1>7. ScanCallSound' /\ InOrderAnswers'
  BY <1>1 DEF ScanCallSound, InOrderAnswers, OwnAnswer, GotFrame, CancelSent
<1> QED
  BY <1>2, <1>3, <1>4, <1>5, <1>6, <1>7

\* What a scan call returns is its own answer, or a frame that only a call
\* which gave up or a Cancel can have left behind.
LEMMA ScanReturnKeepsSession ==
  ASSUME SessionInv, ScanReturns
  PROVE  SessionInv'
<1> USE DEF SessionInv
<1>1. /\ UNCHANGED <<requests, client_lost, consumed, outbox, e_pc, active, cancel, sent_pulse,
                     settled_scan, swallowed, scan_result, pulses>>
      /\ UNCHANGED <<c_abandoned, c_req, c_last_seq>>
      /\ c_pc = "scan" /\ c_pc' = "free" /\ ~FreshPulse
      /\ FrameWaiting /\ c_received' = c_received + 1
      /\ c_return' = Returned(c_req, ScanVerdict(Frame), Frame)
  BY DEF ScanReturns, svars, engine, thread, TakeFrame, Return
<1>2. ServerInv'
  BY <1>1, LossKeepsInv
<1>3. FramesFit'
  BY <1>1 DEF FramesFit, FrameFits
<1>4. SessionTypes' /\ CallIsSent' /\ LastSeqRead'
  BY <1>1, NextFrame DEF SessionTypes, CallIsSent, LastSeqRead, InCall
<1>5. Quiet' => Quiet /\ Frame.id = c_req /\ Frame.kind # "Progress"
  <2>1. Quiet' = Quiet
    BY <1>1 DEF Quiet, CancelSent
  <2>2. Quiet => Frame.id = c_req
    BY <1>1, QuietFrame DEF InCall
  <2> QED
    BY <1>1, <2>1, <2>2, PulsesAreFresh
<1>6. OneAtATime'
  BY <1>1, <1>2, <1>5, QuietFrame
     DEF OneAtATime, InCall, InScan, InDelay, ServerInv, ServerTypes
<1>7. /\ c_return'.id = c_req /\ c_return'.frame = Frame
      /\ c_return'.what = ScanVerdict(Frame)
  BY <1>1 DEF Returned
<1>8. ScanVerdict(Frame) \in {"Finished", "Cancelled"} =>
        Frame.id = c_req /\ Frame.kind \notin {"Progress", "Error", "Busy"}
  BY DEF ScanVerdict
<1>9. ScanVerdict(Frame) = "Finished" => Frame.val \in {"Finished", "Failed"}
  <2>1. requests[c_req].verb = "Scan"
    BY <1>1 DEF CallIsSent, InCall
  <2>2. ScanVerdict(Frame) = "Finished" => Frame.val # "Cancelled"
    BY DEF ScanVerdict
  <2> QED
    BY <1>1, <1>8, <2>1, <2>2, NextFrame DEF FrameFits, ScanOutcomes
<1>10. Quiet' => ScanVerdict(Frame) # "Protocol"
  BY <1>5 DEF ScanVerdict
<1>11. ScanCallSound'
  BY <1>1, <1>7, <1>8, <1>9, <1>10 DEF ScanCallSound, OwnAnswer, Quiet
<1>12. InOrderAnswers'
  BY <1>1, <1>5, <1>7 DEF InOrderAnswers, OwnAnswer, Quiet
<1> QED
  BY <1>2, <1>3, <1>4, <1>6, <1>11, <1>12

\* A call that gives up, or finds the engine gone, has no frame to show.
LEMMA EndKeepsSession ==
  ASSUME SessionInv, CallEnds \/ EngineGone
  PROVE  SessionInv'
<1> USE DEF SessionInv
<1>1. /\ UNCHANGED <<requests, client_lost, consumed, outbox, e_pc, active, cancel, sent_pulse,
                     settled_scan, swallowed, scan_result, pulses>>
      /\ UNCHANGED <<c_req, c_last_seq>>
      /\ c_pc \notin {"free", "closed"} /\ c_pc' = "free"
      /\ c_return'.what \in {"GaveUp", "Disconnected"} /\ c_return'.frame = None
      /\ \/ c_received' = c_received /\ c_abandoned'
         \/ /\ e_pc = "ended" /\ c_received' = Len(outbox) /\ c_abandoned' = c_abandoned
  BY DEF CallEnds, RpcGivesUp, ScanDeadline, ScanCancelFails, EngineGone, Return, Returned,
         svars, engine, thread
<1>2. ServerInv' /\ Len(outbox) \in Nat
  BY <1>1, LossKeepsInv DEF ServerInv, ServerTypes
<1>3. FramesFit'
  BY <1>1 DEF FramesFit, FrameFits
<1>4. SessionTypes' /\ CallIsSent' /\ LastSeqRead'
  BY <1>1, <1>2 DEF SessionTypes, CallIsSent, LastSeqRead, InCall
<1>5. OneAtATime'
  BY <1>1, <1>2 DEF OneAtATime, Quiet, CancelSent, InCall, InScan, InDelay
<1>6. ScanCallSound' /\ InOrderAnswers'
  BY <1>1 DEF ScanCallSound, InOrderAnswers, OwnAnswer, GotFrame, Quiet, CancelSent
<1> QED
  BY <1>2, <1>3, <1>4, <1>5, <1>6

\* The engine dies, or the session is closed: nothing more is sent or read.
LEMMA LossKeepsSession ==
  ASSUME SessionInv, EngineDies \/ CloseSession
  PROVE  SessionInv'
<1> USE DEF SessionInv
<1>1. /\ UNCHANGED <<requests, consumed, outbox, active, cancel, sent_pulse,
                     settled_scan, swallowed, scan_result, pulses>>
      /\ UNCHANGED <<c_req, c_last_seq, c_received, c_return, c_abandoned>>
      /\ \/ e_pc' = "ended" /\ client_lost' = client_lost /\ c_pc' = c_pc
         \/ e_pc' = e_pc /\ client_lost' = TRUE /\ c_pc' = "closed"
  BY DEF EngineDies, CloseSession, engine, thread, scanning, cvars, call
<1>2. ServerInv'
  BY <1>1, LossKeepsInv
<1>3. FramesFit'
  BY <1>1 DEF FramesFit, FrameFits
<1>4. SessionTypes' /\ CallIsSent' /\ LastSeqRead'
  BY <1>1 DEF SessionTypes, CallIsSent, LastSeqRead, InCall
<1>5. OneAtATime'
  BY <1>1 DEF OneAtATime, Quiet, CancelSent, InCall, InScan, InDelay
<1>6. ScanCallSound' /\ InOrderAnswers'
  BY <1>1 DEF ScanCallSound, InOrderAnswers, OwnAnswer, GotFrame, CancelSent
<1> QED
  BY <1>2, <1>3, <1>4, <1>5, <1>6

\* The runner's thread sends nothing, and neither does a step of nobody.
LEMMA OthersKeepSession ==
  ASSUME SessionInv, RunnerProgress \/ RunnerReturns \/ UNCHANGED svars, UNCHANGED cvars
  PROVE  SessionInv'
<1> USE DEF SessionInv
<1>1. ServerInv'
  <2>1. CASE RunnerProgress \/ RunnerReturns
    BY <2>1, RunnerKeepsInv
  <2>2. CASE UNCHANGED svars
    BY <2>2, LossKeepsInv DEF svars, engine, thread
  <2> QED
    BY <2>1, <2>2
<1>2. /\ UNCHANGED <<requests, client_lost, consumed, outbox, e_pc, active>>
      /\ UNCHANGED <<c_pc, c_req, c_last_seq, c_received, c_return, c_abandoned>>
  BY DEF RunnerProgress, RunnerReturns, svars, engine, cvars, call
<1>3. FramesFit'
  BY <1>2 DEF FramesFit, FrameFits
<1>4. SessionTypes' /\ CallIsSent' /\ LastSeqRead'
  BY <1>2 DEF SessionTypes, CallIsSent, LastSeqRead, InCall
<1>5. OneAtATime'
  BY <1>2 DEF OneAtATime, Quiet, CancelSent, InCall, InScan, InDelay
<1>6. ScanCallSound' /\ InOrderAnswers'
  BY <1>2 DEF ScanCallSound, InOrderAnswers, OwnAnswer, GotFrame, CancelSent
<1> QED
  BY <1>1, <1>3, <1>4, <1>5, <1>6

---------------------------------------------------------------------------
(* The session as a whole *)

\* A session that was just made.
LEMMA SessionStarts == EInit => SessionInv
<1> SUFFICES ASSUME EInit PROVE SessionInv
  OBVIOUS
<1>1. ServerInv
  BY ServerStarts DEF EInit
<1>2. /\ Len(requests) = 0 /\ Len(outbox) = 0 /\ consumed = 0 /\ e_pc = "idle"
      /\ c_pc = "free" /\ ~client_lost /\ c_last_seq = 0 /\ c_received = 0 /\ c_return = None
  BY DEF EInit, SInit
<1> QED
  BY <1>1, <1>2
     DEF SessionInv, SessionTypes, CallIsSent, InCall, LastSeqRead, FramesFit, OneAtATime,
         InScan, InDelay, ScanCallSound, InOrderAnswers, OwnAnswer, GotFrame

\* The client's calls send what the engine knows.
LEMMA CallsKeepSession ==
  ASSUME SessionInv, Calls
  PROVE  SessionInv'
<1>1. PICK pc \in {"rpc", "cancel", "shutdown", "scan"}, verb \in AllVerbs, target \in Nat :
        (verb = "Scan" <=> pc = "scan") /\ Begin(pc, verb, target)
  BY ServerAssumption
     DEF Calls, CallRpc, CallCancel, CallScan, CallShutdown, AllVerbs, SessionInv, ServerInv,
         ServerTypes
<1> QED
  BY <1>1, BeginKeepsSession

\* The invariant of a session: the call that waits, what it has read and what
\* the engine is at fit together (client.rs against main.rs).
THEOREM SessionInvariant == ESpec => []SessionInv
<1>1. ASSUME SessionInv, [ENext]_evars PROVE SessionInv'
  <2>1. CASE Calls
    BY <1>1, <2>1, CallsKeepSession
  <2>2. CASE ScanSendsCancel
    BY <1>1, <2>2, CancelKeepsSession
  <2>3. CASE RpcReturns
    BY <1>1, <2>3, RpcReturnKeepsSession
  <2>4. CASE ScanProgress
    BY <1>1, <2>4, ProgressKeepsSession
  <2>5. CASE ScanReturns
    BY <1>1, <2>5, ScanReturnKeepsSession
  <2>6. CASE EngineGone \/ CallEnds
    BY <1>1, <2>6, EndKeepsSession
  <2>7. CASE EngineDies \/ CloseSession
    BY <1>1, <2>7, LossKeepsSession
  <2>8. CASE EngineStep /\ UNCHANGED cvars
    BY <1>1, <2>8, EngineStepKeepsSession
  <2>9. CASE (RunnerProgress \/ RunnerReturns) /\ UNCHANGED cvars
    BY <1>1, <2>9, OthersKeepSession
  <2>10. CASE UNCHANGED evars
    BY <1>1, <2>10, OthersKeepSession DEF evars
  <2> QED
    BY <1>1, <2>1, <2>2, <2>3, <2>4, <2>5, <2>6, <2>7, <2>8, <2>9, <2>10 DEF ENext, Poll
<1> QED
  BY <1>1, SessionStarts, PTL DEF ESpec

\* Without a request id compared (send_command_interruptible), a call gets its
\* own answer for as long as no call gave up and no Cancel was sent.
THEOREM CallsGetTheirAnswers == ESpec => []InOrderAnswers
<1>1. SessionInv => InOrderAnswers
  BY DEF SessionInv
<1> QED
  BY <1>1, SessionInvariant, PTL

\* A settled scan call reports the engine's answer to that scan, and the
\* engine's own progress is never refused (scan_with_progress_outcome).
THEOREM ScanCallsAreSound == ESpec => []ScanCallSound
<1>1. SessionInv => ScanCallSound
  BY DEF SessionInv
<1> QED
  BY <1>1, SessionInvariant, PTL

\* What the engine promises any client it also promises this one, killed or
\* not (main.rs).
THEOREM EngineKeepsPromises ==
  ESpec => [](AnsweredExactlyOnce /\ ProgressOrdered /\ CancelledWhenAsked /\ PagesAreCurrent)
<1>1. SessionInv =>
        AnsweredExactlyOnce /\ ProgressOrdered /\ CancelledWhenAsked /\ PagesAreCurrent
  BY InvAnswersOnce, InvKeepsPromises DEF SessionInv
<1> QED
  BY <1>1, SessionInvariant, PTL

---------------------------------------------------------------------------
(* The launch *)

\* The launcher's step and the engine process determine each other as far as
\* containment goes.
ProcessByStep ==
  /\ l_pc \in {"job", "bootstrap", "create"} => p = "none" /\ ~contained
  /\ l_pc = "assign" => p = "suspended" /\ ~contained
  /\ l_pc = "resume" => p = "suspended" /\ contained
  /\ l_pc \in {"time", "connect", "retry", "peer", "send", "recv", "up"} =>
       contained /\ p \in Executing \union {"ended"}
  /\ l_pc = "failed" => p \in {"none", "ended"}
  /\ l_pc = "dead" => p \in {"none", "ended", "suspended"}
  /\ l_pc = "closed" => p = "ended"

Bound == {"accept", "identify", "handshake", "flush", "serve"}

\* The instance exists exactly while the engine that bound it runs, and has a
\* client from the accept on.
PipeByProcess ==
  /\ p \in Bound <=> pipe \in {"listening", "launcher", "other", "left"}
  /\ p \in Bound \ {"accept"} => pipe # "listening"
  /\ pipe = "broken" => p = "ended"

\* The launcher holds its end from OpenPipe on, and nobody takes it over.
PipeByStep ==
  /\ pipe = "launcher" => l_pc \in {"peer", "send", "recv", "up"}
  /\ l_pc = "peer" => pipe \in {"launcher", "broken", "foreign"}
  /\ l_pc \in {"send", "recv", "up"} => pipe \in {"launcher", "broken"}

\* A handshake under way tells who holds the pipe; a key is only derived for
\* the launcher and only answered once.
HandshakeByPeer ==
  /\ to_engine = "valid" =>
       /\ l_pc \in {"recv", "failed", "dead"}
       /\ pipe \in {"launcher", "broken", "none"}
       /\ to_launcher # "launcher"
  /\ to_engine = "invalid" => pipe \in {"other", "left", "none"}
  /\ to_engine # "none" => p \in Bound \union {"ended"}
  /\ to_launcher = "launcher" =>
       l_pc \in {"recv", "failed", "dead"} /\ key = "launcher"
  /\ to_launcher \notin {"other", "left"}
  /\ p = "serve" => pipe = "launcher" /\ key = "launcher"
  /\ l_pc = "up" => key = "launcher"

LInv ==
  /\ LTypeOK
  /\ ProcessByStep
  /\ PipeByProcess
  /\ PipeByStep
  /\ HandshakeByPeer

---------------------------------------------------------------------------
(* The invariant is inductive *)

\* An engine that ends, for whatever reason, takes its end of the pipe with it
\* and owes nobody an answer (PipeStream and NamedPipeServer are dropped).
LEMMA EngineEndKeepsInv ==
  ASSUME LInv, p \in Executing, EngineEnds,
         UNCHANGED <<l_pc, contained, to_engine, to_launcher, key>>
  PROVE  LInv'
<1>1. p' = "ended" /\ pipe' = WithoutServer(pipe)
  BY DEF EngineEnds
<1>2. /\ pipe' \in {"broken", "foreign", "none"}
      /\ pipe' = "broken" <=> pipe = "launcher"
      /\ pipe' = "foreign" <=> pipe = "foreign"
  BY <1>1 DEF WithoutServer, LInv, LTypeOK, Pipes
<1>3. LTypeOK' /\ ProcessByStep'
  BY <1>1, <1>2 DEF LInv, LTypeOK, ProcessByStep, LaunchSteps, LaunchOver,
     Executing, Processes, Pipes
<1>4. PipeByProcess' /\ PipeByStep'
  BY <1>1, <1>2 DEF LInv, LTypeOK, PipeByProcess, PipeByStep, Bound, Pipes,
     Executing
<1>5. HandshakeByPeer'
  BY <1>1, <1>2 DEF LInv, LTypeOK, HandshakeByPeer, ProcessByStep, Bound,
     Executing, Pipes
<1> QED
  BY <1>3, <1>4, <1>5 DEF LInv

\* An error of launch, and the launcher's death, leave no engine running.
LEMMA LaunchFailureKeepsInv ==
  ASSUME LInv, l_pc \in LaunchSteps, FailLaunch \/ LauncherDies
  PROVE  LInv'
<1> QED
  BY DEF FailLaunch, LauncherDies, CloseJob, EngineEnds, WithoutServer,
    LInv, LTypeOK, ProcessByStep, PipeByProcess, PipeByStep, HandshakeByPeer,
    Bound, LaunchSteps, LaunchOver, Executing, Processes, Pipes

\* Before launch is called there is neither process nor handshake.
LEMMA LaunchStarts == LInit => LInv
BY DEF LInit, LInv, LTypeOK, ProcessByStep, PipeByProcess, PipeByStep,
       HandshakeByPeer, Bound, LaunchSteps, LaunchOver, Executing, Processes,
       Pipes

\* Every step of the launcher, the engine or another process keeps it.
LEMMA StepsKeepInv == LInv /\ [LNext]_lvars => LInv'
<1> SUFFICES ASSUME LInv, [LNext]_lvars PROVE LInv'
  OBVIOUS
<1> USE DEF LInv, LTypeOK, ProcessByStep, PipeByProcess, PipeByStep,
           HandshakeByPeer, Bound, LaunchSteps, LaunchOver, Executing, Processes,
       Pipes
<1>1. CASE PrepareLaunch
  BY <1>1 DEF PrepareLaunch, LStep
<1>2. CASE CreateEngine
  BY <1>2 DEF CreateEngine, LStep
<1>3. CASE AssignEngine
  BY <1>3 DEF AssignEngine, LStep
<1>4. CASE ResumeEngine
  BY <1>4 DEF ResumeEngine, LStep
<1>5. CASE ReadCreationTime
  BY <1>5 DEF ReadCreationTime, LStep
<1>6. CASE OpenPipe
  BY <1>6 DEF OpenPipe, LStep
<1>7. CASE PipeNotReady
  BY <1>7 DEF PipeNotReady, LStep
<1>8. CASE ConnectAgain
  BY <1>8 DEF ConnectAgain, LStep
<1>9. CASE VerifyServer
  BY <1>9, LaunchFailureKeepsInv DEF VerifyServer
<1>10. CASE SendHandshake
  BY <1>10, LaunchFailureKeepsInv DEF SendHandshake
<1>11. CASE ReceiveResponse
  BY <1>11 DEF ReceiveResponse, CloseJob, EngineEnds, WithoutServer
<1>12. CASE LaunchCallFails
  BY <1>12, LaunchFailureKeepsInv DEF LaunchCallFails
<1>13. CASE ConnectTimesOut
  BY <1>13, LaunchFailureKeepsInv DEF ConnectTimesOut
<1>14. CASE LauncherDies
  BY <1>14, LaunchFailureKeepsInv DEF LauncherDies
<1>15. CASE SessionDropped
  BY <1>15 DEF SessionDropped, CloseJob, EngineEnds, WithoutServer
<1>16. CASE ReadNonce
  BY <1>16 DEF ReadNonce
<1>17. CASE BindPipe
  <2>1. CASE pipe = "foreign"
    BY <1>17, <2>1, EngineEndKeepsInv DEF BindPipe
  <2>2. CASE pipe # "foreign"
    BY <1>17, <2>2 DEF BindPipe
  <2> QED
    BY <2>1, <2>2
<1>18. CASE AcceptClient
  BY <1>18 DEF AcceptClient
<1>19. CASE AcceptTimesOut
  BY <1>19, EngineEndKeepsInv DEF AcceptTimesOut
<1>20. CASE IdentifyClient
  BY <1>20 DEF IdentifyClient
<1>21. CASE GrantHandshake
  BY <1>21 DEF GrantHandshake, Authentic, EngineEnds, WithoutServer
<1>22. CASE RefuseHandshake
  BY <1>22 DEF RefuseHandshake, Authentic, EngineEnds, WithoutServer
<1>23. CASE RefusalFlushed
  BY <1>23 DEF RefusalFlushed, EngineEnds, WithoutServer
<1>24. CASE HandshakeEof
  BY <1>24, EngineEndKeepsInv DEF HandshakeEof
<1>25. CASE EngineDown
  BY <1>25, EngineEndKeepsInv DEF EngineDown
<1>26. CASE OtherConnects
  BY <1>26 DEF OtherConnects
<1>27. CASE OtherSends
  BY <1>27 DEF OtherSends
<1>28. CASE OtherReads
  BY <1>28 DEF OtherReads
<1>29. CASE OtherLeaves
  BY <1>29 DEF OtherLeaves
<1>30. CASE UNCHANGED lvars
  BY <1>30 DEF lvars
<1> HIDE DEF LInv, LTypeOK, ProcessByStep, PipeByProcess, PipeByStep,
           HandshakeByPeer, Bound, LaunchSteps, LaunchOver, Executing, Processes,
       Pipes
<1> QED
  BY <1>1, <1>2, <1>3, <1>4, <1>5, <1>6, <1>7, <1>8, <1>9, <1>10, <1>11,
     <1>12, <1>13, <1>14, <1>15, <1>16, <1>17, <1>18, <1>19, <1>20, <1>21,
     <1>22, <1>23, <1>24, <1>25, <1>26, <1>27, <1>28, <1>29, <1>30
     DEF LNext, LaunchNext, LauncherStep, EngineLaunchStep, OtherStep

---------------------------------------------------------------------------
(* What it is for *)

\* Containment (spawn_engine and JobObject) follows from where the launcher
\* is; in a failed launch from the two ends of FailLaunch.
LEMMA InvContains == LInv => RunsContained
BY DEF LInv, LTypeOK, ProcessByStep, RunsContained, JobOpen, LaunchSteps,
       LaunchOver, Executing, Processes

\* Agreement (launch and accept) follows from who holds the pipe while a
\* handshake is under way.
LEMMA InvAgrees == LInv => PeersAgree
BY DEF LInv, PipeByStep, HandshakeByPeer, PeersAgree

\* The invariant holds in every reachable state of a launch.
THEOREM LaunchInvariant == LSpec => []LInv
<1>1. LInit => LInv
  BY LaunchStarts
<1>2. LInv /\ [LNext]_lvars => LInv'
  BY StepsKeepInv
<1> QED
  BY <1>1, <1>2, PTL DEF LSpec

\* No interleaving of the launcher, the engine and other processes, and no
\* death of either, lets an engine execute outside a job whose owner lives
\* (spawn_engine, JobObject).
THEOREM EngineIsContained == LSpec => []RunsContained
BY LaunchInvariant, InvContains, PTL

\* The engine serves its launcher or nobody, and a session that is up is keyed
\* by both ends' nonces (launch and EngineServerSession::accept).
THEOREM SessionPeersAgree == LSpec => []PeersAgree
BY LaunchInvariant, InvAgrees, PTL

---------------------------------------------------------------------------
(* An invocation launches as SessionLaunch does *)

\* However an invocation ends, its session ends by a step of the launch
\* (run() drops the session, or the process dies with it).
LEMMA DropIsLaunchStep == DropSession => [LNext]_lvars
BY DEF DropSession, LNext

\* Settling a call leaves the launch alone unless it ends the process (Exit).
LEMMA SettlementIsLaunchStep ==
  ASSUME SettleEarly \/ SettleRpc \/ SettleCancelledRpc \/ SettleShutdown
           \/ SettleScanCall \/ AfterShutdown
  PROVE  [LNext]_lvars
<1>1. CASE SettleEarly
  BY <1>1, DropIsLaunchStep DEF SettleEarly, Exit
<1>2. CASE SettleRpc
  BY <1>2, DropIsLaunchStep DEF SettleRpc, Started, Exit
<1>3. CASE SettleCancelledRpc
  BY <1>3, DropIsLaunchStep DEF SettleCancelledRpc, Exit
<1>4. CASE SettleShutdown
  BY <1>4, DropIsLaunchStep DEF SettleShutdown, Exit
<1>5. CASE SettleScanCall
  BY <1>5 DEF SettleScanCall, PrintAndShutdown
<1>6. CASE AfterShutdown
  BY <1>6, DropIsLaunchStep DEF AfterShutdown, Exit
<1> QED
  BY <1>1, <1>2, <1>3, <1>4, <1>5, <1>6

\* So does every other step of run().
LEMMA CliIsLaunchStep == CliStep => [LNext]_lvars
<1> SUFFICES ASSUME CliStep PROVE [LNext]_lvars
  OBVIOUS
<1>1. CASE ParseArguments
  BY <1>1, DropIsLaunchStep DEF ParseArguments, Exit
<1>2. CASE BeforeLaunch
  BY <1>2, DropIsLaunchStep DEF BeforeLaunch, Exit
<1>3. CASE LaunchFailed
  BY <1>3, DropIsLaunchStep DEF LaunchFailed, Exit
<1>4. CASE LaunchDone
  BY <1>4 DEF LaunchDone, Started
<1>5. CASE ShutdownEarly
  BY <1>5 DEF ShutdownEarly, Started
<1>6. CASE BeginVerb \/ Look \/ CancelFails \/ Peek
  BY <1>6 DEF BeginVerb, Look, CancelFails, Peek
<1> QED
  BY <1>1, <1>2, <1>3, <1>4, <1>5, <1>6, SettlementIsLaunchStep DEF CliStep

\* Every step of an invocation is a step of its launch or none.
LEMMA InvocationIsLaunchStep == [XNext]_xvars => [LNext]_lvars
<1> SUFFICES ASSUME [XNext]_xvars PROVE [LNext]_lvars
  OBVIOUS
<1>1. CASE CliStep
  BY <1>1, CliIsLaunchStep
<1>2. CASE CtrlC \/ CallGivesUp
  BY <1>2 DEF CtrlC, CallGivesUp
<1>3. CASE CliKilled
  BY <1>3, DropIsLaunchStep DEF CliKilled
<1>4. CASE Launch(LaunchNext)
  BY <1>4 DEF Launch, LNext
<1>5. CASE EngineRuns((EngineStep \/ RunnerProgress \/ RunnerReturns)
                        /\ UNCHANGED cvars)
  BY <1>5 DEF EngineRuns
<1>6. CASE EngineRuns(EngineDies)
  BY <1>6 DEF EngineRuns
<1>7. CASE UNCHANGED xvars
  BY <1>7 DEF xvars
<1> QED
  BY <1>1, <1>2, <1>3, <1>4, <1>5, <1>6, <1>7 DEF XNext

\* The command line implements SessionLaunch (main calls launch once and drops
\* what it returned).
THEOREM CommandLineImplementsLaunch == XSpec => LSpec
<1>1. XInit => LInit
  BY DEF XInit
<1>2. [XNext]_xvars => [LNext]_lvars
  BY InvocationIsLaunchStep
<1> QED
  BY <1>1, <1>2, PTL DEF XSpec, LSpec

\* No verb, Ctrl-C, failed call or death in an invocation leaves an engine
\* running (spawn_engine, JobObject, main).
THEOREM InvocationContainsEngine == XSpec => []RunsContained
BY CommandLineImplementsLaunch, EngineIsContained, PTL

\* In every invocation the session that a verb is called on has the launched
\* engine at its other end (launch, EngineServerSession::accept).
THEOREM InvocationPeersAgree == XSpec => []PeersAgree
BY CommandLineImplementsLaunch, SessionPeersAgree, PTL

---------------------------------------------------------------------------
(***************************************************************************)
(* The invariant of an invocation, on top of that of its session: where    *)
(* run() is tells which request it sent and what its call may return; what *)
(* it printed tells whether its exit code is decided; and the exit code is *)
(* true of what is in the engine's log.                                    *)
(***************************************************************************)
Rpcs == {"Ping", "DelayedPing", "Status"}
BeforeVerb == {"start", "check", "launch", "verb"}
CancelledBefore == {"cancel early", "shutdown early"}

RunTypes ==
  /\ x_verb \in CliVerbs
  /\ x_ndjson => x_verb = "Scan"
  /\ x_pc \in BeforeVerb \union CancelledBefore
               \union {"call", "cancel", "shutdown"} \union Over
  /\ x_out \in Seq([kind : {"progress", "result", "cancelled", "error"},
                    seq : Nat])
  /\ x_exit \in 0..4 \union {None}
  /\ ctrl \in {"none", "stored", "set"}

\* Which request was sent, and which call may be open.
Position ==
  /\ x_pc \in BeforeVerb =>
       requests = <<>> /\ c_pc = "free" /\ ~x_looked /\ ~x_warned
  /\ \A i \in 1..Len(requests) :
       requests[i].verb = "Scan" => i = 1 /\ x_verb = "Scan"
  /\ x_pc = "call" =>
       /\ requests # <<>>
       /\ x_verb # "Scan" => Len(requests) = 1
  /\ x_pc \in Over <=> c_pc = "closed"
  /\ c_pc = "scan" => x_pc = "call" /\ x_verb = "Scan" /\ c_req = 1
  /\ c_pc = "rpc" => x_pc = "call" /\ x_verb \in Rpcs /\ ~c_cancel_sent
  /\ c_pc = "cancel" => x_pc \in {"cancel early", "cancel"}
  /\ c_pc = "shutdown" /\ x_pc = "call" => x_verb = "Shutdown"
  /\ x_pc = "cancel" => x_verb # "Scan"

\* A cancellation is asked for at the keyboard and nowhere else.
Asked ==
  /\ CancelSent => CANCELLED
  /\ c_pc = "scan" /\ c_cancel_sent => CANCELLED
  /\ x_pc \in CancelledBefore \union {"cancel"} => CANCELLED

\* An event set before the request was sent is seen before any frame.
Warned ==
  x_warned =>
    /\ EventSet /\ x_verb # "Shutdown"
    /\ c_pc = "rpc" => ~x_looked
    /\ c_pc = "scan" => c_cancel_sent \/ ~x_looked

\* What the verb's call may have returned.
Received(frame) == \E k \in 1..Len(outbox) : outbox[k] = frame

ReturnIs(what) ==
  /\ what \in {"GaveUp", "Cancelled"} /\ x_verb # "Shutdown" => CANCELLED
  /\ what \in {"Finished", "Cancelled"} =>
       /\ Received(c_return.frame)
       /\ c_return.frame.kind = "Scan" /\ c_return.frame.id = 1
  /\ what = "Finished" => c_return.frame.val \in {"Finished", "Failed"}
  /\ what = "Response" => Received(c_return.frame)
  /\ x_warned => what \notin {"Finished", "Response"}

Returns == CallReturned => ReturnIs(c_return.what)

RunInv == RunTypes /\ Position /\ Asked /\ Warned /\ Returns

\* The graph of a scan that finished is kept, as no other scan follows.
GraphKept ==
  \A k \in 1..Len(outbox) :
    outbox[k].kind = "Scan" /\ outbox[k].val = "Finished" =>
      settled_scan = outbox[k].id

\* Progress is printed while no exit code is decided, and only by a scan.
OutInv ==
  /\ x_pc \in {"shutdown", "exited"} => x_exit # None
  /\ x_exit # None => x_pc \in {"shutdown"} \union Over /\ x_out # <<>>
  /\ x_exit = None =>
       \A k \in 1..Len(x_out) :
         x_out[k].kind = "progress" /\ x_out[k].seq \in 1..c_last_seq
  /\ x_exit = None /\ x_out # <<>> => x_pc \in {"call"} \union Over /\ x_ndjson
  /\ \A k \in 1..Len(x_out) :
       /\ x_out[k].kind = "progress" <=> k < Len(x_out) \/ x_exit = None
       /\ \A m \in 1..(k - 1) :
            x_out[k].seq # 0 => x_out[m].seq < x_out[k].seq

\* ExitJustified holds from the moment the code is decided.
ExitInv ==
  /\ x_exit = 0 /\ requests # <<>> /\ x_verb = "Scan" => ScanAnswer("Finished")
  /\ x_exit = 0 /\ requests # <<>> /\ x_verb \in Rpcs =>
       \E k \in 1..Len(outbox) : outbox[k].id = 1 /\ AnswersVerb(outbox[k])
  /\ x_exit = 3 => CANCELLED
  /\ x_warned => x_exit \notin {0, 4}

InvocationInv ==
  SessionInv /\ RunInv /\ GraphKept /\ OutInv /\ ExitInv

---------------------------------------------------------------------------
(* The session in an invocation *)

\* A session that lost one of its two ends keeps its invariant.
LEMMA EndsKeepSession ==
  ASSUME SessionInv,
         UNCHANGED <<requests, consumed, outbox, active, cancel, sent_pulse,
                     settled_scan, swallowed, scan_result, pulses>>,
         UNCHANGED <<c_req, c_last_seq, c_received, c_return, c_abandoned>>,
         e_pc' \in {e_pc, "ended"},
         \/ client_lost' = TRUE /\ c_pc' = "closed"
         \/ client_lost' = client_lost /\ c_pc' = c_pc
  PROVE  SessionInv'
<1> USE DEF SessionInv
<1>1. ServerInv'
  BY LossKeepsInv
<1>2. FramesFit'
  BY DEF FramesFit, FrameFits
<1>3. SessionTypes' /\ CallIsSent' /\ LastSeqRead'
  BY DEF SessionTypes, CallIsSent, LastSeqRead, InCall
<1>4. OneAtATime'
  BY DEF OneAtATime, Quiet, CancelSent, InCall, InScan, InDelay
<1>5. ScanCallSound' /\ InOrderAnswers'
  BY DEF ScanCallSound, InOrderAnswers, OwnAnswer, GotFrame, CancelSent
<1> QED
  BY <1>1, <1>2, <1>3, <1>4, <1>5

\* What dropping the session leaves as it is.
LEMMA DropEffect ==
  ASSUME DropSession
  PROVE  /\ UNCHANGED <<requests, consumed, outbox, active, cancel, sent_pulse,
                        settled_scan, swallowed, scan_result, pulses>>
         /\ UNCHANGED <<c_req, c_cancel_sent, c_last_seq, c_received, c_return, c_abandoned>>
         /\ UNCHANGED <<x_verb, x_ndjson, has_event, ctrl>>
         /\ e_pc' = "ended" /\ client_lost' = TRUE /\ c_pc' = "closed"
BY DEF DropSession, thread, scanning, invocation

\* What the verbs of the command line send.
CliCall(pc, verb) ==
  /\ pc \in {"rpc", "cancel", "shutdown", "scan"} /\ verb \in AllVerbs
  /\ verb = "Scan" <=> pc = "scan"
  /\ verb = "Cancel" => pc = "cancel"
  /\ Begin(pc, verb, 0)

\* What a step of run() does to the session: it drops it, leaves it, calls, or
\* sends the Cancel of its scan.
LEMMA CliMoves ==
  ASSUME RunTypes, CliStep
  PROVE  \/ DropSession
         \/ UNCHANGED evars
         \/ \E pc, verb : CliCall(pc, verb)
         \/ ScanSendsCancel \/ ScanCancelFails
         \/ Poll
<1>1. CASE ParseArguments \/ BeforeLaunch \/ LaunchFailed \/ SettleEarly
             \/ SettleCancelledRpc \/ SettleShutdown \/ AfterShutdown
  BY <1>1 DEF ParseArguments, BeforeLaunch, LaunchFailed, SettleEarly, SettleCancelledRpc,
              SettleShutdown, AfterShutdown, Exit
<1>2. CASE LaunchDone
  BY <1>2 DEF LaunchDone, Started, CliCall, AllVerbs
<1>3. CASE ShutdownEarly
  BY <1>3 DEF ShutdownEarly, Started, CallShutdown, CliCall, AllVerbs
<1>4. CASE BeginVerb
  BY <1>4 DEF BeginVerb, CliCall, AllVerbs, RunTypes, CliVerbs
<1>5. CASE SettleRpc
  BY <1>5 DEF SettleRpc, Started, CliCall, AllVerbs, Exit
<1>6. CASE SettleScanCall
  BY <1>6 DEF SettleScanCall, PrintAndShutdown, CallShutdown, CliCall, AllVerbs
<1>7. CASE Look \/ CancelFails \/ Peek
  BY <1>7 DEF Look, CancelFails, Peek
<1> QED
  BY <1>1, <1>2, <1>3, <1>4, <1>5, <1>6, <1>7 DEF CliStep

\* run() and the console control handler keep the invariant of the session.
LEMMA InvocationKeepsSession ==
  ASSUME SessionInv, RunTypes, [XNext]_xvars
  PROVE  SessionInv'
<1>1. CASE DropSession
  BY <1>1, DropEffect, EndsKeepSession
<1>2. CASE UNCHANGED evars
  BY <1>2, OthersKeepSession DEF evars
<1>3. CASE CliStep
  <2>1. CASE \E pc, verb : CliCall(pc, verb)
    <3>1. PICK pc, verb : CliCall(pc, verb)
      BY <2>1
    <3> QED
      BY <3>1, BeginKeepsSession DEF CliCall
  <2>2. CASE ScanSendsCancel \/ ScanCancelFails
    BY <2>2, CancelKeepsSession, EndKeepsSession DEF CallEnds
  <2>3. CASE Poll
    BY <2>3, RpcReturnKeepsSession, ProgressKeepsSession, ScanReturnKeepsSession,
       EndKeepsSession DEF Poll
  <2> QED
    BY <1>1, <1>2, <1>3, <2>1, <2>2, <2>3, CliMoves
<1>4. CASE CallGivesUp
  BY <1>4, EndKeepsSession DEF CallGivesUp, CallEnds
<1>5. CASE CliKilled
  BY <1>1, <1>5 DEF CliKilled
<1>6. CASE CtrlC \/ UNCHANGED xvars
  BY <1>2, <1>6 DEF CtrlC, xvars
<1>7. CASE Launch(LaunchNext)
  BY <1>7, EndsKeepSession DEF Launch, cvars, call, thread, scanning
<1>8. CASE EngineRuns((EngineStep \/ RunnerProgress \/ RunnerReturns) /\ UNCHANGED cvars)
  BY <1>8, EngineStepKeepsSession, OthersKeepSession DEF EngineRuns
<1>9. CASE EngineRuns(EngineDies)
  BY <1>9, LossKeepsSession DEF EngineRuns
<1> QED
  BY <1>3, <1>4, <1>5, <1>6, <1>7, <1>8, <1>9 DEF XNext

---------------------------------------------------------------------------
(* How run() and its calls fit together *)

\* What a call that begins adds to the log.
LEMMA BeginEffect ==
  ASSUME SessionInv, NEW pc, NEW verb, CliCall(pc, verb)
  PROVE  /\ c_pc = "free" /\ c_req' = Len(requests) + 1
         /\ \/ c_pc' = pc /\ c_return' = c_return
            \/ c_pc' = "free" /\ c_return'.what = "Disconnected"
         /\ c_cancel_sent' = FALSE /\ c_last_seq' = 0
         /\ Len(requests) \in Nat /\ Len(requests') = Len(requests) + 1
         /\ \A i \in 1..Len(requests) : requests'[i] = requests[i]
         /\ requests'[Len(requests) + 1].verb = verb
         /\ UNCHANGED <<client_lost, consumed, outbox, settled_scan>>
         /\ CancelSent' => CancelSent \/ verb = "Cancel"
<1>1. /\ Send(verb, 0) /\ UNCHANGED serverside /\ verb \in AllVerbs
      /\ c_pc = "free" /\ c_req' = Len(requests) + 1
      /\ \/ c_pc' = pc /\ c_return' = c_return
         \/ c_pc' = "free" /\ c_return'.what = "Disconnected"
      /\ c_cancel_sent' = FALSE /\ c_last_seq' = 0
      /\ UNCHANGED <<client_lost, consumed, outbox, settled_scan>>
  BY DEF CliCall, Begin, Returned, serverside, engine
<1>2. /\ Len(requests) \in Nat /\ Len(requests') = Len(requests) + 1
      /\ \A i \in 1..Len(requests) : requests'[i] = requests[i]
      /\ requests'[Len(requests) + 1].verb = verb
  BY <1>1, RequestJoins DEF SessionInv
<1>3. CancelSent' => CancelSent \/ verb = "Cancel"
  BY <1>2 DEF CancelSent
<1> QED
  BY <1>1, <1>2, <1>3

\* Where a call may begin, and on what conditions.
CallFits(pc, verb) ==
  /\ x_pc' \in {"cancel early", "shutdown early", "call", "cancel", "shutdown"}
  /\ pc \in {"scan", "rpc"} => x_pc' = "call"
  /\ pc = "cancel" => x_pc' \in {"cancel early", "cancel"} /\ CANCELLED
  /\ pc = "rpc" => x_verb \in Rpcs
  /\ pc = "scan" => x_verb = "Scan"
  /\ x_pc' = "call" =>
       /\ requests = <<>> /\ pc # "cancel"
       /\ pc = "shutdown" => x_verb = "Shutdown"
  /\ x_pc' \in CancelledBefore \union {"cancel"} => CANCELLED
  /\ x_pc' = "cancel" => x_verb # "Scan"
  /\ x_warned' => EventSet /\ x_verb # "Shutdown"
  /\ x_pc' = "call" => ~x_looked'
  /\ UNCHANGED <<x_verb, has_event, ctrl>>

\* A verb sends its request.
LEMMA BeginKeepsRun ==
  ASSUME SessionInv, Position, Asked, NEW pc, NEW verb, CliCall(pc, verb), CallFits(pc, verb)
  PROVE  (Position /\ Asked /\ Warned /\ Returns)'
<1>1. /\ c_pc = "free" /\ c_req' = Len(requests) + 1
      /\ c_pc' = pc \/ (c_pc' = "free" /\ c_return'.what = "Disconnected")
      /\ Len(requests) \in Nat /\ Len(requests') = Len(requests) + 1
      /\ \A i \in 1..Len(requests) : requests'[i] = requests[i]
      /\ requests'[Len(requests) + 1].verb = verb
      /\ c_cancel_sent' = FALSE
      /\ CancelSent' => CancelSent \/ verb = "Cancel"
  BY BeginEffect
<1>2. /\ pc \in {"rpc", "cancel", "shutdown", "scan"}
      /\ verb = "Scan" <=> pc = "scan"
      /\ verb = "Cancel" => pc = "cancel"
  BY DEF CliCall
<1>3. requests = <<>> => Len(requests) = 0
  OBVIOUS
<1>4. requests' # <<>>
  BY <1>1
<1>5. Position'
  <2>1. \A i \in 1..Len(requests') : requests'[i].verb = "Scan" => i = 1 /\ x_verb' = "Scan"
    <3> SUFFICES ASSUME NEW i \in 1..Len(requests'), requests'[i].verb = "Scan"
                 PROVE  i = 1 /\ x_verb' = "Scan"
      OBVIOUS
    <3>1. x_verb' = x_verb
      BY DEF CallFits
    <3>2. CASE i \in 1..Len(requests)
      BY <1>1, <3>1, <3>2 DEF Position
    <3>3. CASE i = Len(requests) + 1
      <4>1. pc = "scan"
        BY <1>1, <1>2, <3>3
      <4> QED
        BY <1>1, <1>3, <3>1, <3>3, <4>1 DEF CallFits
    <3> QED
      BY <1>1, <3>2, <3>3
  <2>2. x_pc' = "call" => requests' # <<>> /\ (x_verb' # "Scan" => Len(requests') = 1)
    BY <1>1, <1>3, <1>4 DEF CallFits
  <2>3. x_pc' \notin BeforeVerb /\ x_pc' \notin Over /\ c_pc' # "closed"
    BY <1>1, <1>2 DEF CallFits, BeforeVerb, Over
  <2>4. /\ c_pc' = "scan" => x_pc' = "call" /\ x_verb' = "Scan"
        /\ c_pc' = "rpc" => x_pc' = "call" /\ x_verb' \in Rpcs
        /\ c_pc' = "cancel" => x_pc' \in {"cancel early", "cancel"}
        /\ c_pc' = "shutdown" /\ x_pc' = "call" => x_verb' = "Shutdown"
        /\ x_pc' = "cancel" => x_verb' # "Scan"
    BY <1>1, <1>2 DEF CallFits
  <2>5. c_pc' = "scan" => c_req' = 1
    BY <1>1, <1>3, <2>4 DEF CallFits
  <2>6. ~c_cancel_sent'
    BY <1>1
  <2> QED
    BY <2>1, <2>2, <2>3, <2>4, <2>5, <2>6 DEF Position
<1>6. Asked'
  BY <1>1, <1>2 DEF Asked, CallFits, CANCELLED
<1>7. Warned'
  BY <1>1, <1>2 DEF Warned, CallFits, EventSet
<1>8. Returns'
  BY <1>1, <1>2 DEF Returns, CallReturned, ReturnIs
<1> QED
  BY <1>5, <1>6, <1>7, <1>8

\* The end of an invocation is the end of its calls.
LEMMA DropKeepsRun ==
  ASSUME Position, Asked, Warned, GraphKept, DropSession, x_pc' \in Over, x_warned' = x_warned
  PROVE  (Position /\ Asked /\ Warned /\ Returns /\ GraphKept)'
<1>1. /\ UNCHANGED <<requests, outbox, settled_scan, c_return, c_cancel_sent, x_verb,
                     has_event, ctrl, x_warned>>
      /\ c_pc' = "closed" /\ x_pc' \in Over
  BY DropEffect
<1>2. Position'
  BY <1>1 DEF Position, Over, BeforeVerb, Rpcs
<1>3. Asked'
  BY <1>1 DEF Asked, Over, CancelledBefore, CANCELLED, CancelSent
<1>4. Warned'
  BY <1>1 DEF Warned, EventSet
<1>5. Returns' /\ GraphKept'
  BY <1>1 DEF Returns, GraphKept, Over, CallReturned
<1> QED
  BY <1>2, <1>3, <1>4, <1>5

\* The loop of a call looks at the event; only the scan's sends a Cancel.
LEMMA LookKeepsRun ==
  ASSUME SessionInv, Position, Asked, Warned, GraphKept, Look
  PROVE  (Position /\ Asked /\ Warned /\ Returns /\ GraphKept)'
<1>1. /\ UNCHANGED <<c_pc, c_req, c_return, outbox, settled_scan, x_verb, has_event, ctrl,
                     x_pc, x_warned>>
      /\ c_pc \in {"rpc", "scan"} /\ x_looked' = TRUE /\ ~x_looked
  BY DEF Look, Looks, ScanSendsCancel, evars, cvars, call, svars, engine, serverside, invocation
<1>2. x_pc = "call" /\ x_pc \notin BeforeVerb /\ x_pc \notin CancelledBefore
  BY <1>1 DEF Position, BeforeVerb, CancelledBefore
<1>3. Returns' /\ GraphKept'
  BY <1>1 DEF Returns, CallReturned, GraphKept
<1>4. CASE (~EventSet \/ c_cancel_sent) /\ UNCHANGED evars
  <2>1. UNCHANGED <<requests, c_cancel_sent>>
    BY <1>4 DEF evars, cvars, call, svars
  <2>2. Position'
    BY <1>1, <1>2, <2>1 DEF Position
  <2>3. Asked'
    BY <1>1, <1>2, <2>1 DEF Asked, CANCELLED, CancelSent
  <2>4. x_warned => c_pc = "scan" /\ c_cancel_sent
    BY <1>1, <1>4 DEF Warned, Position
  <2>5. Warned'
    BY <1>1, <2>1, <2>4 DEF Warned, EventSet
  <2> QED
    BY <1>3, <2>2, <2>3, <2>5
<1>5. CASE EventSet /\ ScanSendsCancel
  <2>1. /\ c_pc = "scan" /\ Send("Cancel", c_req) /\ UNCHANGED serverside
        /\ c_cancel_sent' = TRUE /\ CANCELLED
    BY <1>5 DEF ScanSendsCancel, EventSet, CANCELLED
  <2>2. c_req \in Nat /\ "Cancel" \in AllVerbs /\ x_verb = "Scan" /\ Len(requests) \in Nat
    BY <2>1 DEF SessionInv, ServerInv, ServerTypes, CallIsSent, InCall, AllVerbs, Position
  <2>3. /\ Len(requests') = Len(requests) + 1
        /\ \A i \in 1..Len(requests) : requests'[i] = requests[i]
        /\ requests'[Len(requests) + 1].verb = "Cancel"
    BY <2>1, <2>2, RequestJoins DEF SessionInv
  <2>4. \A i \in 1..Len(requests') : requests'[i].verb = "Scan" => i = 1 /\ x_verb' = "Scan"
    <3> SUFFICES ASSUME NEW i \in 1..Len(requests'), requests'[i].verb = "Scan"
                 PROVE  i = 1 /\ x_verb' = "Scan"
      OBVIOUS
    <3>1. i # Len(requests) + 1
      BY <2>3
    <3>2. i \in 1..Len(requests)
      BY <2>2, <2>3, <3>1
    <3> QED
      BY <1>1, <2>3, <3>2 DEF Position
  <2>5. requests' # <<>>
    BY <2>2, <2>3
  <2>6. Position'
    BY <1>1, <1>2, <2>1, <2>2, <2>4, <2>5 DEF Position
  <2>7. Asked' /\ Warned'
    BY <1>1, <1>2, <2>1 DEF Asked, Warned, CANCELLED, EventSet
  <2> QED
    BY <1>3, <2>6, <2>7
<1> QED
  BY <1>4, <1>5 DEF Look

\* A call that returns, with whatever it returns.
LEMMA ReturnKeepsRun ==
  ASSUME Position, Asked, Warned, GraphKept,
         UNCHANGED <<requests, outbox, settled_scan, x_verb, has_event, ctrl, x_pc, x_warned>>,
         c_pc \in {"rpc", "cancel", "shutdown", "scan"}, c_pc' = "free",
         x_pc = "call" => ReturnIs(c_return.what)'
  PROVE  (Position /\ Asked /\ Warned /\ Returns /\ GraphKept)'
<1>1. x_pc \notin BeforeVerb /\ x_pc \notin Over
  BY DEF Position
<1>2. Position'
  BY <1>1 DEF Position
<1>3. Asked'
  BY DEF Asked, CANCELLED, CancelSent
<1>4. Warned'
  BY DEF Warned, EventSet
<1>5. Returns' /\ GraphKept'
  BY DEF Returns, CallReturned, GraphKept
<1> QED
  BY <1>2, <1>3, <1>4, <1>5

\* Calls give up because of a Ctrl-C; one finds the engine gone by it.
LEMMA GivingUpKeepsRun ==
  ASSUME Position, Asked, Warned, GraphKept, CallGivesUp \/ CancelFails
  PROVE  (Position /\ Asked /\ Warned /\ Returns /\ GraphKept)'
<1>1. /\ UNCHANGED <<requests, outbox, settled_scan, x_verb, has_event, ctrl, x_pc, x_warned>>
      /\ c_pc' = "free" /\ c_return'.what \in {"GaveUp", "Disconnected"}
      /\ \/ c_pc = "rpc" /\ EventSet
         \/ c_pc = "cancel"
         \/ c_pc = "scan" /\ (c_cancel_sent \/ EventSet)
  BY DEF CallGivesUp, CancelFails, RpcGivesUp, ScanDeadline, ScanCancelFails, Return, Returned,
         svars, engine, invocation, run
<1>2. x_pc = "call" => CANCELLED
  BY <1>1 DEF Position, Asked, EventSet, CANCELLED
<1>3. x_pc = "call" => ReturnIs(c_return.what)'
  BY <1>1, <1>2 DEF ReturnIs, CANCELLED
<1> QED
  BY <1>1, <1>3, ReturnKeepsRun

\* What the first frame waiting may settle a scan into.
LEMMA ScanVerdictFits ==
  ASSUME SessionInv, Position, Asked, Warned, ScanReturns, x_looked,
         UNCHANGED <<x_verb, x_warned, ctrl>>
  PROVE  ReturnIs(c_return.what)'
<1> USE DEF SessionInv, ServerInv
<1>1. /\ UNCHANGED <<requests, outbox>>
      /\ c_pc = "scan" /\ ~FreshPulse /\ FrameWaiting
      /\ c_return'.what = ScanVerdict(Frame) /\ c_return'.frame = Frame
  BY DEF ScanReturns, TakeFrame, Return, Returned, svars, engine
<1>2. PICK n \in 1..Len(outbox) : n = c_received + 1
  BY <1>1, NextFrame
<1>3. Frame = outbox[n] /\ FrameFits(n) /\ Frame.id \in 1..Len(requests)
  BY <1>1, <1>2, NextFrame
<1>4. c_req = 1 /\ c_req \in 1..Len(requests) /\ requests[c_req].verb = "Scan"
  BY <1>1 DEF Position, CallIsSent, InCall
<1>5. ScanVerdict(Frame) \in {"Finished", "Cancelled"} =>
        Frame.kind = "Scan" /\ Frame.id = 1 /\ Frame.val \in ScanOutcomes
  BY <1>3, <1>4 DEF ScanVerdict, FrameFits
<1>6. ScanVerdict(Frame) = "Finished" => Frame.val \in {"Finished", "Failed"} /\ ~c_cancel_sent
  BY <1>5 DEF ScanVerdict, ScanOutcomes
<1>7. ScanVerdict(Frame) = "Cancelled" => CANCELLED
  <2>1. CASE c_cancel_sent
    BY <1>1, <2>1 DEF Asked
  <2>2. CASE ScanVerdict(Frame) = "Cancelled" /\ ~c_cancel_sent
    <3>1. Frame.kind = "Scan" /\ Frame.val = "Cancelled"
      BY <1>5, <2>2 DEF ScanVerdict
    <3>2. AskedToCancel(Frame.id)
      BY <1>2, <1>3, <3>1 DEF CancelLog, CancelAsked
    <3>3. CancelSent
      BY <1>3, <3>2 DEF AskedToCancel, CancelSent, ServerTypes
    <3> QED
      BY <3>3 DEF Asked
  <2> QED
    BY <2>1, <2>2
<1>8. x_warned => c_cancel_sent
  BY <1>1 DEF Warned
<1>9. ScanVerdict(Frame) \notin {"GaveUp", "Response"}
  BY DEF ScanVerdict
<1>10. PICK frame : frame = Frame
  OBVIOUS
<1>11. Received(frame)'
  BY <1>1, <1>2, <1>3, <1>10 DEF Received
<1> QED
  BY <1>1, <1>5, <1>6, <1>7, <1>8, <1>9, <1>10, <1>11 DEF ReturnIs, CANCELLED

\* The call's loop reads a frame, or finds none.
LEMMA PeekKeepsRun ==
  ASSUME SessionInv, Position, Asked, Warned, Returns, GraphKept, Peek
  PROVE  (Position /\ Asked /\ Warned /\ Returns /\ GraphKept)'
<1>1. /\ UNCHANGED <<requests, outbox, settled_scan, x_verb, has_event, ctrl, x_pc, x_warned>>
      /\ c_pc \in {"rpc", "cancel", "shutdown", "scan"}
      /\ c_pc \in {"rpc", "scan"} => x_looked
      /\ x_looked' = FALSE
  BY DEF Peek, Looks, Poll, RpcReturns, ScanProgress, ScanReturns, EngineGone, svars, engine,
         evars, invocation, SessionInv, SessionTypes
<1>2. CASE RpcReturns
  <2>1. PICK n \in 1..Len(outbox) : n = c_received + 1
    BY <1>2, NextFrame DEF RpcReturns, TakeFrame
  <2>2. /\ c_pc \in {"rpc", "cancel", "shutdown"} /\ c_pc' = "free"
        /\ c_return'.what = "Response" /\ c_return'.frame = Frame
        /\ Frame = outbox[n]
    BY <1>2, <2>1 DEF RpcReturns, Return, Returned, Frame
  <2>3. x_pc = "call" => ~x_warned
    BY <1>1, <2>2 DEF Position, Warned
  <2>4. PICK frame : frame = Frame
    OBVIOUS
  <2>5. Received(frame)'
    BY <1>1, <2>1, <2>2, <2>4 DEF Received
  <2>6. x_pc = "call" => ReturnIs(c_return.what)'
    BY <1>1, <2>2, <2>3, <2>4, <2>5 DEF ReturnIs
  <2> QED
    BY <1>1, <2>2, <2>6, ReturnKeepsRun
<1>3. CASE ScanReturns
  <2>1. c_pc' = "free" /\ c_pc = "scan"
    BY <1>3 DEF ScanReturns, Return
  <2>2. ReturnIs(c_return.what)'
    BY <1>1, <1>3, <2>1, ScanVerdictFits
  <2> QED
    BY <1>1, <2>1, <2>2, ReturnKeepsRun
<1>4. CASE EngineGone
  <2>1. c_pc' = "free" /\ c_return'.what = "Disconnected"
    BY <1>4 DEF EngineGone, Return, Returned
  <2>2. ReturnIs(c_return.what)'
    BY <2>1 DEF ReturnIs
  <2> QED
    BY <1>1, <2>1, <2>2, ReturnKeepsRun
<1>5. CASE UNCHANGED <<c_pc, c_req, c_cancel_sent, c_return>>
  <2>1. Position'
    BY <1>1, <1>5 DEF Position
  <2>2. Asked' /\ Returns' /\ GraphKept'
    BY <1>1, <1>5 DEF Asked, CANCELLED, CancelSent, Returns, CallReturned, GraphKept
  <2>3. Warned'
    BY <1>1, <1>5 DEF Warned, EventSet
  <2> QED
    BY <2>1, <2>2, <2>3
<1> QED
  BY <1>2, <1>3, <1>4, <1>5 DEF Peek, Poll, ScanProgress, evars, cvars, call

\* The outcome of a scan is sent by SettleScan and by no other step.
LEMMA OnlySettlingEnds ==
  ASSUME ServerTypes, EngineStep, ~SettleScan
  PROVE  \/ outbox' = outbox
         \/ \E f : outbox' = Append(outbox, f) /\ f.kind # "Scan"
<1> DEFINE Kinds == {"Ping", "Status", "Cancel", "Shutdown", "Error", "Busy", "Stale",
                     "Page", "Invalid", "Progress"}
<1>1. \/ outbox' = outbox
      \/ \E id, val : \E kind \in Kinds : outbox' = Append(outbox, Response(kind, id, val))
  BY DEF EngineStep, IdlePing, IdleStatus, IdleCancel, IdleShutdown, IdleGetChildren, IdleLost,
         BeginDelay, DelayCancel, DelayDrop, DelayElapses, RejectScan, StartScan,
         DrainProgress, PollEmpty, PollCancel, PollStatus, PollBusy, PollLost, KeepScanning,
         LeaveAfterJoin, Answer, AnswerInScan, Pulse
<1>2. ASSUME NEW id, NEW val, NEW kind \in Kinds,
             outbox' = Append(outbox, Response(kind, id, val))
      PROVE  \E f : outbox' = Append(outbox, f) /\ f.kind # "Scan"
  <2>1. Response(kind, id, val).kind # "Scan"
    BY DEF Response
  <2> QED
    BY <1>2, <2>1
<1> QED
  BY <1>1, <1>2

\* The engine keeps the graph of a finished scan until it reads the next one.
LEMMA EngineKeepsGraph ==
  ASSUME SessionInv, Position, GraphKept, EngineStep
  PROVE  GraphKept'
<1>0. ServerInv
  BY DEF SessionInv
<1>1. /\ LogsGrow /\ requests' = requests /\ ServerTypes'
      /\ Len(outbox) \in Nat /\ Len(outbox') \in Nat
  <2>1. LogsGrow /\ requests' = requests
    BY <1>0, StepFrames
  <2>2. ServerTypes /\ ServerTypes'
    BY <1>0, EngineStepKeepsInv DEF ServerInv
  <2> QED BY <2>1, <2>2 DEF ServerTypes
<1> USE DEF SessionInv, ServerInv
<1>2. \A k \in 1..Len(outbox) :
        outbox'[k] = outbox[k] /\ (outbox[k].kind = "Scan" => outbox[k].id = 1)
  <2> SUFFICES ASSUME NEW k \in 1..Len(outbox)
               PROVE  outbox'[k] = outbox[k] /\ (outbox[k].kind = "Scan" => outbox[k].id = 1)
    OBVIOUS
  <2>1. outbox[k].id \in 1..Len(requests) /\ FrameFits(k)
    BY DEF ServerTypes, FramesFit
  <2> QED
    BY <1>1, <2>1 DEF FrameFits, Position, LogsGrow
<1>3. CASE SettleScan
  <2>1. /\ InScan /\ scan_result # None /\ consumed' = consumed
        /\ settled_scan' = IF scan_result = "Error" THEN None ELSE active
        /\ \/ outbox' = outbox
           \/ outbox' = outbox \o Append(LastPulse, ScanResponse)
    BY <1>3 DEF SettleScan, InScan
  <2>2. active \in 1..consumed /\ requests[active].verb = "Scan" /\ ~Answered(active)
    BY <2>1 DEF ActiveIsRead, AnswerLog
  <2>3. active = 1
    <3>1. active \in 1..Len(requests)
      BY <2>2 DEF ServerTypes
    <3> QED
      BY <2>2, <3>1 DEF Position
  <2>4. \A k \in 1..Len(outbox) : outbox'[k].kind # "Scan"
    BY <1>2, <2>2, <2>3 DEF Answered, IsAnswer
  <2>5. CASE outbox' = outbox
    BY <2>4, <2>5 DEF GraphKept
  <2>6. CASE outbox' = outbox \o Append(LastPulse, ScanResponse)
    <3>1. /\ outbox'[Len(outbox')] = ScanResponse
          /\ IF pulses > sent_pulse
             THEN Len(outbox') = Len(outbox) + 2 /\ outbox'[Len(outbox) + 1] = Pulse(pulses)
             ELSE Len(outbox') = Len(outbox) + 1
      BY <1>1, <2>1, <2>2, <2>6, SettledFrames
    <3>2. Pulse(pulses).kind = "Progress"
      BY DEF Pulse, Response
    <3>3. ScanResponse.id = active /\ (ScanResponse.val = "Finished" => settled_scan' = active)
      BY <2>1 DEF ScanResponse, Response, OutcomeOf
    <3>4. \A k \in 1..Len(outbox') :
            outbox'[k].kind = "Scan" => outbox'[k] = ScanResponse
      BY <1>1, <2>4, <3>1, <3>2
    <3> QED
      BY <3>3, <3>4 DEF GraphKept
  <2> QED
    BY <2>1, <2>5, <2>6
<1>4. CASE ~SettleScan
  <2>1. \A k \in 1..Len(outbox') :
          outbox'[k].kind = "Scan" => k \in 1..Len(outbox) /\ outbox'[k] = outbox[k]
    <3>1. CASE outbox' = outbox
      BY <3>1
    <3>2. CASE outbox' # outbox
      <4>1. PICK f : outbox' = Append(outbox, f) /\ f.kind # "Scan"
        BY <1>4, <3>2, OnlySettlingEnds
      <4>2. Len(outbox') = Len(outbox) + 1 /\ outbox'[Len(outbox) + 1] = f
        BY <4>1 DEF ServerTypes
      <4> QED
        BY <1>1, <1>2, <4>1, <4>2
    <3> QED
      BY <3>1, <3>2
  <2>2. CASE settled_scan' = settled_scan
    BY <2>1, <2>2 DEF GraphKept
  <2>3. CASE RejectScan \/ StartScan
    <3>1. consumed + 1 \in 1..Len(requests) /\ requests[consumed + 1].verb = "Scan"
      BY <2>3 DEF RejectScan, StartScan, Receive, FrameReady, Incoming, IncomingId, ServerTypes
    <3>2. PICK n \in 1..Len(requests) : n = consumed + 1
      BY <3>1
    <3>3. n = 1
      BY <3>1, <3>2 DEF Position
    <3>4. Len(outbox) = 0
      BY <1>1, <3>2, <3>3, SMTT(60) DEF ServerTypes
    <3> QED
      BY <2>1, <3>4 DEF GraphKept
  <2> QED
    BY <1>4, <2>2, <2>3
       DEF EngineStep, IdlePing, IdleStatus, IdleCancel, IdleShutdown, IdleGetChildren,
           IdleLost, BeginDelay, DelayCancel, DelayDrop, DelayElapses, DrainProgress,
           PollEmpty, PollCancel, PollStatus, PollBusy, PollLost, KeepScanning, LeaveAfterJoin
<1> QED
  BY <1>3, <1>4

\* The engine's steps only make its log longer.
LEMMA EngineKeepsRun ==
  ASSUME SessionInv, Position, Asked, Warned, Returns, GraphKept,
         EngineRuns((EngineStep \/ RunnerProgress \/ RunnerReturns) /\ UNCHANGED cvars)
           \/ EngineRuns(EngineDies)
  PROVE  /\ (Position /\ Asked /\ Warned /\ Returns /\ GraphKept)'
         /\ LogsGrow
<1> USE DEF SessionInv, ServerInv
<1>1. /\ UNCHANGED <<x_verb, x_ndjson, has_event, x_pc, x_looked, x_warned, x_out, x_exit, ctrl>>
      /\ UNCHANGED <<c_pc, c_req, c_cancel_sent, c_last_seq, c_received, c_return>>
  BY DEF EngineRuns, EngineDies, cvars, call, invocation, run
<1>2. requests' = requests /\ LogsGrow /\ GraphKept'
  <2>1. CASE EngineStep
    BY <2>1, StepFrames, EngineKeepsGraph
  <2>2. CASE RunnerProgress \/ RunnerReturns \/ EngineDies
    BY <2>2 DEF RunnerProgress, RunnerReturns, EngineDies, engine, LogsGrow, GraphKept,
                ServerTypes
  <2> QED
    BY <2>1, <2>2 DEF EngineRuns
<1>3. Position' /\ Asked'
  BY <1>1, <1>2 DEF Position, Asked, CANCELLED, CancelSent
<1>4. Warned'
  BY <1>1 DEF Warned, EventSet
<1>5. \A frame : Received(frame) => Received(frame)'
  BY <1>2 DEF Received, LogsGrow, ServerTypes
<1>6. CallReturned => ReturnIs(c_return.what)'
  BY <1>1, <1>5 DEF Returns, ReturnIs, CANCELLED
<1>7. Returns'
  BY <1>1, <1>6 DEF Returns, CallReturned
<1> QED
  BY <1>2, <1>3, <1>4, <1>7

---------------------------------------------------------------------------
(* What is printed, and the exit code *)

Documents == [kind : {"progress", "result", "cancelled", "error"}, seq : Nat]

\* One more document at the end of what was printed.
LEMMA OneMoreDocument ==
  ASSUME RunTypes, NEW d \in Documents, x_out' = x_out \o <<d>>
  PROVE  /\ x_out' \in Seq(Documents) /\ x_out' # <<>>
         /\ Len(x_out) \in Nat /\ Len(x_out') = Len(x_out) + 1
         /\ \A k \in 1..Len(x_out) : x_out'[k] = x_out[k]
         /\ x_out'[Len(x_out) + 1] = d
<1>1. x_out \in Seq(Documents) /\ <<d>> \in Seq(Documents)
  BY DEF RunTypes, Documents
<1>2. Len(<<d>>) = 1 /\ <<d>>[1] = d
  OBVIOUS
<1> QED
  BY <1>1, <1>2, ConcatProperties

\* Only progress is printed before the exit code is decided, and the document
\* that comes with the code is the last one.
LEMMA LastDocument ==
  ASSUME RunTypes, OutInv, x_exit = None, NEW d \in Documents, d.kind # "progress",
         d.seq # 0 => c_last_seq < d.seq \/ x_out = <<>>, c_last_seq \in Nat,
         x_out' = x_out \o <<d>>, x_exit' \in 0..4, x_pc' \in {"shutdown"} \union Over
  PROVE  OutInv'
<1>1. PICK n \in Nat : n = Len(x_out) + 1
  BY DEF RunTypes
<1>2. /\ x_out' # <<>> /\ Len(x_out) \in Nat /\ Len(x_out') = n
      /\ \A k \in 1..Len(x_out) : x_out'[k] = x_out[k]
      /\ x_out'[n] = d
  BY <1>1, OneMoreDocument
<1>3. x_exit' # None
  BY ServerAssumption
<1>4. ASSUME NEW k \in 1..Len(x_out')
      PROVE  /\ x_out'[k].kind = "progress" <=> k < Len(x_out') \/ x_exit' = None
             /\ \A m \in 1..(k - 1) : x_out'[k].seq # 0 => x_out'[m].seq < x_out'[k].seq
  <2>1. \A m \in 1..(k - 1) : m \in 1..Len(x_out) /\ x_out'[m] = x_out[m]
    BY <1>1, <1>2
  <2>2. CASE k = n
    <3>1. x_out'[k] = d /\ ~(k < Len(x_out'))
      BY <1>2, <2>2
    <3>2. ASSUME NEW m \in 1..(k - 1), d.seq # 0 PROVE x_out'[m].seq < d.seq
      <4>1. m \in 1..Len(x_out) /\ x_out'[m] = x_out[m]
        BY <2>1
      <4>2. x_out # <<>>
        BY <4>1
      <4>3. x_out[m].seq \in 1..c_last_seq
        BY <4>1 DEF OutInv
      <4>4. d.seq \in Nat
        BY DEF Documents
      <4> QED
        BY <3>2, <4>1, <4>2, <4>3, <4>4
    <3> QED
      BY <1>3, <3>1, <3>2
  <2>3. CASE k # n
    <3>1. k \in 1..Len(x_out) /\ x_out'[k] = x_out[k] /\ k < Len(x_out')
      BY <1>1, <1>2, <2>3
    <3>2. x_out[k].kind = "progress"
      BY <3>1 DEF OutInv
    <3>3. \A m \in 1..(k - 1) : x_out[k].seq # 0 => x_out[m].seq < x_out[k].seq
      BY <3>1 DEF OutInv
    <3> QED
      BY <2>1, <3>1, <3>2, <3>3
  <2> QED
    BY <2>2, <2>3
<1> QED
  BY <1>2, <1>3, <1>4 DEF OutInv, Over

\* Steps that print nothing and decide nothing.
LEMMA OutStays ==
  ASSUME OutInv, x_out' = x_out, x_exit' = x_exit, x_ndjson' = x_ndjson,
         x_pc' \in {"shutdown", "exited"} => x_exit # None,
         x_exit # None => x_pc' \in {"shutdown"} \union Over,
         x_exit = None /\ x_out # <<>> =>
           c_last_seq' = c_last_seq /\ x_pc' \in {"call"} \union Over
  PROVE  OutInv'
<1>1. x_exit = None => \A k \in 1..Len(x_out) : x_out[k].seq \in 1..c_last_seq'
  <2> SUFFICES ASSUME x_exit = None, NEW k \in 1..Len(x_out)
               PROVE  x_out[k].seq \in 1..c_last_seq'
    OBVIOUS
  <2>1. x_out # <<>>
    OBVIOUS
  <2> QED
    BY <2>1 DEF OutInv
<1> QED
  BY <1>1 DEF OutInv

\* A code that was decided stays justified while the logs grow.
LEMMA ExitStays ==
  ASSUME ExitInv, x_exit' = x_exit,
         \/ x_exit = None
         \/ requests' = requests /\ x_verb' = x_verb /\ x_warned' = x_warned,
         CANCELLED => CANCELLED',
         Len(outbox) \in Nat, Len(outbox') \in Nat, Len(outbox) <= Len(outbox'),
         \A k \in 1..Len(outbox) : outbox'[k] = outbox[k]
  PROVE  ExitInv'
<1>1. CASE x_exit = None
  BY <1>1, ServerAssumption DEF ExitInv
<1>2. CASE requests' = requests /\ x_verb' = x_verb /\ x_warned' = x_warned
  <2>1. ScanAnswer("Finished") => ScanAnswer("Finished")'
    BY DEF ScanAnswer
  <2>2. (\E k \in 1..Len(outbox) : outbox[k].id = 1 /\ AnswersVerb(outbox[k])) =>
          \E k \in 1..Len(outbox') : outbox'[k].id = 1 /\ AnswersVerb(outbox[k])'
    <3>1. \A k \in 1..Len(outbox) : AnswersVerb(outbox[k]) => AnswersVerb(outbox[k])'
      BY <1>2 DEF AnswersVerb
    <3> QED
      BY <3>1
  <2> QED
    BY <1>2, <2>1, <2>2 DEF ExitInv
<1> QED
  BY <1>1, <1>2

---------------------------------------------------------------------------
(* One lemma for each kind of step of an invocation *)

OwnInv == RunInv /\ GraphKept /\ OutInv /\ ExitInv

\* What makes an exit code right that is not a scan's.
Justified(code) ==
  /\ code = 3 => CANCELLED
  /\ code = 0 =>
       /\ ~x_warned
       /\ requests # <<>> => x_verb # "Scan"
       /\ requests # <<>> /\ x_verb \in Rpcs =>
            \E k \in 1..Len(outbox) : outbox[k].id = 1 /\ AnswersVerb(outbox[k])

\* run() returns with a code it just decided.
LEMMA ExitKeepsInv ==
  ASSUME SessionInv, OwnInv, x_exit = None, NEW code \in 0..3, NEW d \in Documents,
         d.kind # "progress", d.seq # 0 => x_out = <<>>, Exit(code, <<d>>), Justified(code)
  PROVE  OwnInv'
<1> USE DEF OwnInv, RunInv
<1>1. /\ DropSession /\ x_pc' = "exited" /\ x_exit' = code /\ x_out' = x_out \o <<d>>
      /\ x_warned' = x_warned
      /\ UNCHANGED <<requests, outbox, x_verb, x_ndjson, ctrl, c_last_seq>>
  BY DropEffect DEF Exit
<1>2. RunTypes'
  BY <1>1, OneMoreDocument DEF RunTypes, Over, Documents
<1>3. (Position /\ Asked /\ Warned /\ Returns /\ GraphKept)'
  BY <1>1, DropKeepsRun DEF Over
<1>4. OutInv'
  BY <1>1, LastDocument DEF Over, SessionInv, SessionTypes
<1>5. ExitInv'
  <2>1. x_exit' # 4 /\ (x_exit' = 3 => CANCELLED')
    BY <1>1 DEF CANCELLED, Justified
  <2>2. x_warned' => x_exit' \notin {0, 4}
    BY <1>1 DEF Justified
  <2>3. x_exit' = 0 /\ requests' # <<>> => x_verb' # "Scan"
    BY <1>1 DEF Justified
  <2>4. x_exit' = 0 /\ requests' # <<>> /\ x_verb' \in Rpcs =>
          \E k \in 1..Len(outbox') : outbox'[k].id = 1 /\ AnswersVerb(outbox[k])'
    BY <1>1 DEF AnswersVerb, Justified
  <2> QED
    BY <2>1, <2>2, <2>3, <2>4 DEF ExitInv
<1> QED
  BY <1>2, <1>3, <1>4, <1>5

\* The three ends that run() has: an error, a result and a cancellation.
LEMMA ErrorKeepsInv ==
  ASSUME SessionInv, OwnInv, x_exit = None, NEW code \in {1, 2},
         Exit(code, <<Document("error", 0)>>)
  PROVE  OwnInv'
<1>1. PICK d \in Documents : d = Document("error", 0)
  BY DEF Document, Documents
<1>2. d.kind # "progress" /\ d.seq = 0
  BY <1>1 DEF Document
<1>3. Justified(code) /\ code \in 0..3
  BY DEF Justified
<1> QED
  BY <1>1, <1>2, <1>3, ExitKeepsInv

\* The result document goes with exit code 0.
LEMMA ResultKeepsInv ==
  ASSUME SessionInv, OwnInv, x_exit = None, Justified(0), Exit(0, <<Document("result", 0)>>)
  PROVE  OwnInv'
<1>1. PICK d \in Documents : d = Document("result", 0)
  BY DEF Document, Documents
<1>2. d.kind # "progress" /\ d.seq = 0
  BY <1>1 DEF Document
<1>3. PICK code \in 0..3 : code = 0
  OBVIOUS
<1> QED
  BY <1>1, <1>2, <1>3, ExitKeepsInv

\* The cancelled document goes with exit code 3.
LEMMA CancelledKeepsInv ==
  ASSUME SessionInv, OwnInv, x_exit = None, CANCELLED, NEW seq \in Nat,
         seq # 0 => x_out = <<>>, Exit(3, <<Document("cancelled", seq)>>)
  PROVE  OwnInv'
<1>1. PICK d \in Documents : d = Document("cancelled", seq)
  BY DEF Document, Documents
<1>2. d.kind # "progress" /\ d.seq = seq
  BY <1>1 DEF Document
<1>3. PICK code \in 0..3 : code = 3
  OBVIOUS
<1>4. Justified(code)
  BY <1>3 DEF Justified
<1> QED
  BY <1>1, <1>2, <1>3, <1>4, ExitKeepsInv

\* A call begins and nothing is printed or decided.
LEMMA CallStartKeepsInv ==
  ASSUME SessionInv, OwnInv, x_exit = None, x_out = <<>>, NEW pc, NEW verb,
         CliCall(pc, verb), CallFits(pc, verb),
         UNCHANGED <<x_out, x_exit, x_ndjson>>, x_pc' # "shutdown"
  PROVE  OwnInv'
<1> USE DEF OwnInv, RunInv
<1>1. (Position /\ Asked /\ Warned /\ Returns)'
  BY BeginKeepsRun
<1>2. UNCHANGED <<outbox, settled_scan>>
  BY BeginEffect
<1>3. RunTypes' /\ GraphKept'
  BY <1>2 DEF RunTypes, GraphKept, CallFits, CancelledBefore
<1>4. x_pc' \notin {"shutdown", "exited"}
  BY DEF CallFits
<1>5. OutInv'
  BY <1>4, OutStays
<1>6. ExitInv'
  BY ServerAssumption DEF ExitInv
<1> QED
  BY <1>1, <1>3, <1>5, <1>6

\* run() moves on before it has a session, or the launch does.
LEMMA ApproachKeepsInv ==
  ASSUME SessionInv, OwnInv, x_pc \in BeforeVerb, x_pc' \in BeforeVerb,
         UNCHANGED <<requests, outbox, settled_scan, c_pc, c_cancel_sent, c_return, c_last_seq>>,
         UNCHANGED <<x_verb, x_ndjson, x_looked, x_warned, x_out, x_exit, ctrl>>
  PROVE  OwnInv'
<1> USE DEF OwnInv, RunInv
<1>1. /\ x_pc \notin Over /\ x_pc' \notin Over
      /\ x_pc' \notin CancelledBefore \union {"call", "cancel", "shutdown"}
      /\ x_pc \notin {"call", "shutdown"}
  BY DEF BeforeVerb, Over, CancelledBefore
<1>2. RunTypes'
  BY <1>1 DEF RunTypes
<1>3. Position'
  BY <1>1 DEF Position
<1>4. Asked' /\ Returns' /\ GraphKept'
  BY <1>1 DEF Position, Asked, Returns, CallReturned, GraphKept, CANCELLED, CancelSent
<1>5. Warned'
  BY <1>1 DEF Position, Warned
<1>6. x_exit = None /\ x_out = <<>>
  BY <1>1 DEF OutInv, Over
<1>7. OutInv'
  BY <1>1, <1>6, OutStays DEF Over
<1>8. ExitInv'
  BY <1>6, ServerAssumption DEF ExitInv
<1> QED
  BY <1>2, <1>3, <1>4, <1>5, <1>7, <1>8

\* Steps of the call, of the engine and of the handler.
LEMMA CallKeepsInv ==
  ASSUME SessionInv, OwnInv,
         (Position /\ Asked /\ Warned /\ Returns /\ GraphKept)',
         UNCHANGED <<x_pc, x_verb, x_ndjson, x_warned, x_exit>>,
         ctrl' \in {"none", "stored", "set"}, CANCELLED => CANCELLED',
         x_exit = None \/ requests' = requests,
         x_out' = x_out /\ c_last_seq' = c_last_seq,
         Len(outbox) \in Nat, Len(outbox') \in Nat, Len(outbox) <= Len(outbox'),
         \A k \in 1..Len(outbox) : outbox'[k] = outbox[k]
  PROVE  OwnInv'
<1> USE DEF OwnInv, RunInv
<1>1. RunTypes'
  BY DEF RunTypes
<1>2. OutInv'
  BY OutStays DEF OutInv
<1>3. ExitInv'
  BY ExitStays
<1> QED
  BY <1>1, <1>2, <1>3

\* Nothing is decided before the end.
LEMMA Undecided ==
  ASSUME OutInv, x_pc \notin {"shutdown"} \union Over
  PROVE  /\ x_exit = None
         /\ x_pc # "call" => x_out = <<>>
         /\ x_pc = "call" /\ ~x_ndjson => x_out = <<>>
BY DEF OutInv

\* An invocation that did not get as far as its verb.
LEMMA EarlyStepKeepsInv ==
  ASSUME SessionInv, OwnInv,
         ParseArguments \/ BeforeLaunch \/ LaunchFailed \/ LaunchDone \/ ShutdownEarly
           \/ SettleEarly
  PROVE  OwnInv'
<1>0. RunTypes /\ Position /\ Asked /\ Warned /\ Returns /\ OutInv
  BY DEF OwnInv, RunInv
<1>1. /\ x_pc \in {"start", "check", "launch", "cancel early", "shutdown early"}
      /\ x_exit = None /\ x_out = <<>>
  BY <1>0, Undecided
     DEF ParseArguments, BeforeLaunch, LaunchFailed, LaunchDone, ShutdownEarly, SettleEarly, Over
<1>2. x_pc \in {"start", "check", "launch"} =>
        x_pc \in BeforeVerb /\ requests = <<>> /\ ~x_warned /\ ~x_looked
  BY <1>0 DEF Position, BeforeVerb
<1>3. x_pc \in {"cancel early", "shutdown early"} => CANCELLED
  BY <1>0 DEF Asked, CancelledBefore
<1>4. ASSUME CANCELLED, Exit(3, <<CancelledEarly>>) PROVE OwnInv'
  <2>1. PICK seq \in Nat : CancelledEarly = Document("cancelled", seq)
    BY DEF CancelledEarly
  <2> QED
    BY <1>1, <1>4, <2>1, CancelledKeepsInv
<1>5. ASSUME NEW pc \in {"check", "launch", "verb"}, Goto(pc), UNCHANGED evars, x_pc \in BeforeVerb
      PROVE  OwnInv'
  BY <1>5, ApproachKeepsInv DEF Goto, evars, cvars, call, svars, engine, invocation, BeforeVerb
<1>6. CASE ParseArguments
  <2>1. Justified(0)
    BY <1>2, <1>6 DEF ParseArguments, Justified
  <2> QED
    BY <1>1, <1>2, <1>5, <1>6, <2>1, ResultKeepsInv, ErrorKeepsInv DEF ParseArguments
<1>7. CASE BeforeLaunch
  BY <1>1, <1>2, <1>4, <1>5, <1>7, ErrorKeepsInv DEF BeforeLaunch
<1>8. CASE LaunchFailed
  BY <1>1, <1>8, ErrorKeepsInv DEF LaunchFailed
<1>9. CASE LaunchDone
  <2>1. CASE CANCELLED /\ Started(Begin("cancel", "Cancel", 0), "cancel early")
    <3>1. /\ CliCall("cancel", "Cancel") /\ x_pc' = "cancel early"
          /\ UNCHANGED <<x_looked, x_warned, x_out, x_exit, x_verb, x_ndjson, has_event, ctrl>>
      BY <2>1 DEF Started, Goto, CliCall, AllVerbs, invocation
    <3>2. ~x_warned'
      BY <1>2, <1>9, <3>1 DEF LaunchDone
    <3>3. CallFits("cancel", "Cancel")
      BY <2>1, <3>1, <3>2 DEF CallFits, CancelledBefore
    <3> QED
      BY <1>1, <3>1, <3>3, CallStartKeepsInv
  <2> QED
    BY <1>2, <1>5, <1>9, <2>1 DEF LaunchDone
<1>10. CASE ShutdownEarly
  <2>1. /\ CliCall("shutdown", "Shutdown") /\ x_pc' = "shutdown early" /\ CANCELLED
        /\ UNCHANGED <<x_looked, x_warned, x_out, x_exit, x_verb, x_ndjson, has_event, ctrl>>
    BY <1>3, <1>10
       DEF ShutdownEarly, CallShutdown, Started, Goto, CliCall, AllVerbs, invocation
  <2>2. x_warned' => EventSet /\ x_verb # "Shutdown"
    BY <1>0, <2>1 DEF Warned
  <2>3. CallFits("shutdown", "Shutdown")
    BY <2>1, <2>2 DEF CallFits, CancelledBefore
  <2> QED
    BY <1>1, <2>1, <2>3, CallStartKeepsInv
<1>11. CASE SettleEarly
  BY <1>3, <1>4, <1>11 DEF SettleEarly
<1> QED
  BY <1>6, <1>7, <1>8, <1>9, <1>10, <1>11

\* The verb's request is sent.
LEMMA BeginVerbKeepsInv ==
  ASSUME SessionInv, OwnInv, BeginVerb
  PROVE  OwnInv'
<1>0. RunTypes /\ Position /\ Asked /\ Warned /\ Returns /\ OutInv
  BY DEF OwnInv, RunInv
<1>1. /\ x_pc = "verb" /\ x_exit = None /\ x_out = <<>> /\ requests = <<>> /\ ~x_looked
      /\ x_verb \in CliVerbs
  BY <1>0, Undecided DEF BeginVerb, Over, Position, BeforeVerb, RunTypes
<1>2. /\ x_pc' = "call" /\ x_warned' = (EventSet /\ x_verb # "Shutdown")
      /\ UNCHANGED <<x_looked, x_out, x_exit, x_verb, x_ndjson, has_event, ctrl>>
  BY DEF BeginVerb, invocation
<1>3. PICK pc \in {"scan", "shutdown", "rpc"} :
        /\ CliCall(pc, x_verb)
        /\ pc = "scan" => x_verb = "Scan"
        /\ pc = "shutdown" => x_verb = "Shutdown"
        /\ pc = "rpc" => x_verb \in Rpcs
  BY <1>1 DEF BeginVerb, CliCall, AllVerbs, CliVerbs, Rpcs
<1>4. CallFits(pc, x_verb)
  BY <1>1, <1>2, <1>3 DEF CallFits, CancelledBefore
<1> QED
  BY <1>1, <1>2, <1>3, <1>4, CallStartKeepsInv

\* The calls that are not a scan settle.
LEMMA SettleRpcKeepsInv ==
  ASSUME SessionInv, OwnInv, SettleRpc \/ SettleCancelledRpc \/ SettleShutdown
  PROVE  OwnInv'
<1>0. RunTypes /\ Position /\ Asked /\ Warned /\ Returns /\ OutInv
  BY DEF OwnInv, RunInv
<1>1. x_exit = None /\ (x_pc = "call" /\ x_verb # "Scan" => x_out = <<>>)
  BY <1>0, Undecided
     DEF SettleRpc, SettleCancelledRpc, SettleShutdown, CallReturned, RunTypes, Over
<1>2. CASE SettleRpc
  <2>1. x_pc = "call" /\ c_pc = "free" /\ x_verb \in Rpcs /\ ReturnIs(c_return.what)
    BY <1>0, <1>2 DEF SettleRpc, CallReturned, Returns, Rpcs
  <2>2. CASE c_return.what = "GaveUp" /\ Started(Begin("cancel", "Cancel", 0), "cancel")
    <3>1. /\ CliCall("cancel", "Cancel") /\ x_pc' = "cancel" /\ CANCELLED
          /\ UNCHANGED <<x_looked, x_warned, x_out, x_exit, x_verb, x_ndjson, has_event, ctrl>>
      BY <2>1, <2>2 DEF Started, Goto, CliCall, AllVerbs, invocation, ReturnIs, Rpcs
    <3>2. x_warned' => EventSet /\ x_verb # "Shutdown"
      BY <1>0, <3>1 DEF Warned
    <3>3. CallFits("cancel", "Cancel")
      BY <2>1, <3>1, <3>2 DEF CallFits, CancelledBefore, Rpcs
    <3> QED
      BY <1>1, <2>1, <3>1, <3>3, CallStartKeepsInv DEF Rpcs
  <2>3. CASE /\ c_return.what = "Response" /\ AnswersVerb(c_return.frame)
             /\ Exit(0, <<Document("result", 0)>>)
    <3>1. ~x_warned /\ Received(c_return.frame)
      BY <2>1, <2>3 DEF ReturnIs
    <3>2. PICK k \in 1..Len(outbox) : outbox[k] = c_return.frame
      BY <3>1 DEF Received
    <3>3. outbox[k].id \in 1..consumed /\ consumed \in 0..Len(requests) /\ Len(requests) = 1
      BY <1>0, <2>1, <3>2 DEF SessionInv, ServerInv, ServerTypes, Position, Rpcs
    <3>4. outbox[k].id = 1 /\ AnswersVerb(outbox[k])
      BY <2>3, <3>2, <3>3
    <3>5. Justified(0)
      BY <2>1, <3>1, <3>2, <3>4 DEF Justified, Rpcs
    <3> QED
      BY <1>1, <2>3, <3>5, ResultKeepsInv
  <2>4. CASE Exit(1, <<Document("error", 0)>>)
    BY <1>1, <2>4, ErrorKeepsInv
  <2> QED
    BY <1>2, <2>2, <2>3, <2>4 DEF SettleRpc
<1>3. CASE SettleCancelledRpc
  <2>1. CANCELLED /\ Exit(3, <<Document("cancelled", 0)>>)
    BY <1>0, <1>3 DEF SettleCancelledRpc, Asked
  <2> QED
    BY <1>1, <2>1, CancelledKeepsInv
<1>4. CASE SettleShutdown
  <2>1. x_verb = "Shutdown" /\ ~x_warned /\ Exit(0, <<Document("result", 0)>>)
    BY <1>0, <1>4 DEF SettleShutdown, Warned
  <2>2. Justified(0)
    BY <2>1 DEF Justified, Rpcs
  <2> QED
    BY <1>1, <2>1, <2>2, ResultKeepsInv
<1> QED
  BY <1>2, <1>3, <1>4

\* A scan's code is right when it is decided.
ScanJustified(code) ==
  /\ code = 0 => ScanAnswer("Finished")
  /\ code = 3 => CANCELLED
  /\ x_warned => code \notin {0, 4}

\* The last document of a scan is printed, and the Shutdown sent.
LEMMA PrintKeepsInv ==
  ASSUME SessionInv, OwnInv, CallReturned, x_verb = "Scan", NEW code \in 0..4, NEW d \in Documents,
         d.kind # "progress", d.seq # 0 => d.seq = c_last_seq + 1,
         PrintAndShutdown(code, d), ScanJustified(code)
  PROVE  OwnInv'
<1>0. RunTypes /\ Position /\ Asked /\ Warned /\ Returns /\ GraphKept /\ OutInv
  BY DEF OwnInv, RunInv
<1>1. /\ CliCall("shutdown", "Shutdown") /\ x_pc' = "shutdown" /\ x_exit' = code
      /\ x_out' = Append(x_out, d)
      /\ UNCHANGED <<x_looked, x_warned, x_verb, x_ndjson, has_event, ctrl>>
  BY DEF PrintAndShutdown, CallShutdown, CliCall, AllVerbs, invocation
<1>2. x_exit = None /\ c_last_seq \in Nat
  BY <1>0, Undecided DEF CallReturned, Over, SessionInv, SessionTypes
<1>3. x_out' = x_out \o <<d>>
  BY <1>0, <1>1, AppendIsConcat DEF RunTypes, Documents
<1>4. x_warned' => EventSet /\ x_verb # "Shutdown"
  BY <1>0, <1>1 DEF Warned
<1>5. CallFits("shutdown", "Shutdown")
  BY <1>1, <1>4 DEF CallFits, CancelledBefore
<1>6. (Position /\ Asked /\ Warned /\ Returns)'
  BY <1>0, <1>1, <1>5, BeginKeepsRun
<1>7. UNCHANGED <<outbox, settled_scan>>
  BY <1>1, BeginEffect
<1>8. RunTypes'
  BY <1>0, <1>1, <1>3, OneMoreDocument DEF RunTypes, Documents
<1>9. OutInv'
  <2>1. d.seq # 0 => c_last_seq < d.seq
    BY <1>2
  <2> QED
    BY <1>0, <1>1, <1>2, <1>3, <2>1, LastDocument
<1>10. ExitInv'
  <2>1. ScanAnswer("Finished") => ScanAnswer("Finished")'
    BY <1>7 DEF ScanAnswer
  <2> QED
    BY <1>1, <2>1 DEF ExitInv, ScanJustified, CANCELLED, Rpcs
<1> QED
  BY <1>0, <1>6, <1>7, <1>8, <1>9, <1>10 DEF OwnInv, RunInv, GraphKept

\* The return of a scan call becomes a document and a code.
LEMMA SettleScanKeepsInv ==
  ASSUME SessionInv, OwnInv, SettleScanCall
  PROVE  OwnInv'
<1>1. CallReturned /\ x_verb = "Scan" /\ ReturnIs(c_return.what)
  BY DEF SettleScanCall, OwnInv, RunInv, Returns
<1>2. ASSUME NEW code \in 0..4, NEW kind \in {"result", "cancelled", "error"},
             NEW seq \in {0, TerminalSeq}, PrintAndShutdown(code, Document(kind, seq)),
             ScanJustified(code)
      PROVE  OwnInv'
  <2>1. seq \in Nat /\ (seq # 0 => seq = c_last_seq + 1)
    BY DEF TerminalSeq, SessionInv, SessionTypes
  <2>2. PICK d \in Documents : d = Document(kind, seq)
    BY <2>1 DEF Document, Documents
  <2>3. d.kind # "progress" /\ d.seq = seq
    BY <2>2 DEF Document
  <2> QED
    BY <1>1, <1>2, <2>1, <2>2, <2>3, PrintKeepsInv
<1>3. ASSUME c_return.what \in {"Finished", "Cancelled"}, NEW coverage
      PROVE  /\ ExitCode(c_return.what, c_return.frame.val, coverage) \in 0..4
             /\ ScanJustified(ExitCode(c_return.what, c_return.frame.val, coverage))
  <2>1. PICK k \in 1..Len(outbox) : outbox[k] = c_return.frame
    BY <1>1, <1>3 DEF ReturnIs, Received
  <2>2. outbox[k] \in ReplyFrames /\ outbox[k].kind = "Scan" /\ outbox[k].id = 1
    BY <1>1, <1>3, <2>1 DEF ReturnIs, SessionInv, ServerInv, ServerTypes
  <2>3. c_return.frame.val = "Finished" => ScanAnswer("Finished")
    BY <2>1, <2>2 DEF ScanAnswer, Response, ReplyFrames, NumberKinds, OtherKinds
  <2>4. /\ c_return.what = "Cancelled" => CANCELLED
        /\ c_return.what = "Finished" => c_return.frame.val \in {"Finished", "Failed"} /\ ~x_warned
    BY <1>1 DEF ReturnIs
  <2>5. PICK code : code = ExitCode(c_return.what, c_return.frame.val, coverage)
    OBVIOUS
  <2>6. \/ c_return.what = "Cancelled" /\ code = 3
        \/ c_return.what = "Finished" /\ code \in {1, 4}
        \/ c_return.what = "Finished" /\ code = 0 /\ c_return.frame.val # "Failed"
    BY <1>3, <2>5 DEF ExitCode
  <2>7. code \in 0..4 /\ ScanJustified(code)
    BY <2>3, <2>4, <2>6 DEF ScanJustified
  <2> QED
    BY <2>5, <2>7
<1>4. CASE /\ c_return.what \in {"Finished", "Cancelled"}
           /\ \E coverage \in Coverages(c_return.frame) :
                PrintAndShutdown(
                  ExitCode(c_return.what, c_return.frame.val, coverage),
                  Document("result", TerminalSeq))
  BY <1>2, <1>3, <1>4
<1>5. CASE c_return.what = "GaveUp" /\ PrintAndShutdown(3, Document("cancelled", TerminalSeq))
  <2>1. ScanJustified(3)
    BY <1>1, <1>5 DEF ScanJustified, ReturnIs
  <2> QED
    BY <1>2, <1>5, <2>1
<1>6. CASE PrintAndShutdown(2, Document("error", 0)) \/ PrintAndShutdown(1, Document("error", 0))
  <2>1. ScanJustified(1) /\ ScanJustified(2)
    BY DEF ScanJustified
  <2> QED
    BY <1>2, <1>6, <2>1
<1> QED
  BY <1>4, <1>5, <1>6 DEF SettleScanCall

\* The call's own steps, with the progress they print.
LEMMA PeekKeepsInv ==
  ASSUME SessionInv, OwnInv, Peek
  PROVE  OwnInv'
<1>0. RunTypes /\ Position /\ Asked /\ Warned /\ Returns /\ GraphKept /\ OutInv /\ ExitInv
  BY DEF OwnInv, RunInv
<1>1. /\ UNCHANGED <<x_pc, x_verb, x_ndjson, x_warned, x_exit, ctrl, requests, outbox>>
      /\ x_out' = IF x_ndjson /\ c_last_seq' > c_last_seq
                  THEN Append(x_out, Document("progress", c_last_seq'))
                  ELSE x_out
  BY DEF Peek, Poll, RpcReturns, ScanProgress, ScanReturns, EngineGone, svars, engine, evars,
         invocation
<1>2. (Position /\ Asked /\ Warned /\ Returns /\ GraphKept)'
  BY <1>0, PeekKeepsRun
<1>3. Len(outbox) \in Nat /\ c_last_seq \in Nat
  BY DEF SessionInv, ServerInv, ServerTypes, SessionTypes
<1>4. CASE c_last_seq' = c_last_seq
  <2>1. x_out' = x_out
    BY <1>1, <1>3, <1>4
  <2> QED
    BY <1>0, <1>1, <1>2, <1>3, <1>4, <2>1, CallKeepsInv DEF RunTypes, CANCELLED
<1>5. CASE ScanProgress
  <2>1. /\ c_pc = "scan" /\ FrameWaiting /\ c_last_seq' = Frame.val /\ Frame.val > c_last_seq
        /\ Frame.kind = "Progress"
    BY <1>5 DEF ScanProgress, TakeFrame, FreshPulse
  <2>2. c_last_seq' \in Nat /\ c_last_seq' > c_last_seq
    BY <2>1, NextFrame
  <2>3. x_pc = "call" /\ x_exit = None
    BY <1>0, <2>1, Undecided DEF Position, Over
  <2>4. ExitInv'
    BY <1>1, <2>3, ServerAssumption DEF ExitInv
  <2>5. CASE ~x_ndjson
    <3>1. x_out = <<>>
      BY <1>0, <2>3, <2>5, Undecided DEF Over
    <3>2. x_out' = x_out
      BY <1>1, <2>5
    <3>3. OutInv'
      BY <1>0, <1>1, <2>3, <3>1, <3>2, OutStays
    <3>4. RunTypes'
      BY <1>0, <1>1, <3>2 DEF RunTypes
    <3> QED
      BY <1>2, <2>4, <3>3, <3>4 DEF OwnInv, RunInv
  <2>6. CASE x_ndjson
    <3>1. PICK d \in Documents : d = Document("progress", c_last_seq')
      BY <2>2 DEF Document, Documents
    <3>2. d.kind = "progress" /\ d.seq = c_last_seq'
      BY <3>1 DEF Document
    <3>3. x_out' = x_out \o <<d>>
      BY <1>0, <1>1, <2>2, <2>6, <3>1, AppendIsConcat, ZenonT(60) DEF RunTypes, Documents
    <3>4. /\ x_out' \in Seq(Documents) /\ x_out' # <<>>
          /\ Len(x_out) \in Nat /\ Len(x_out') = Len(x_out) + 1
          /\ \A k \in 1..Len(x_out) : x_out'[k] = x_out[k]
          /\ x_out'[Len(x_out) + 1] = d
      BY <1>0, <3>3, OneMoreDocument
    <3>5. RunTypes'
      BY <1>0, <1>1, <3>4 DEF RunTypes, Documents
    <3>6. \A k \in 1..Len(x_out) : x_out[k].kind = "progress" /\ x_out[k].seq \in 1..c_last_seq
      BY <1>0, <2>3 DEF OutInv
    <3>7. \A k \in 1..Len(x_out') :
            x_out'[k].kind = "progress" /\ x_out'[k].seq \in 1..c_last_seq'
      BY <1>3, <2>2, <3>2, <3>4, <3>6
    <3>8. ASSUME NEW k \in 1..Len(x_out'), NEW m \in 1..(k - 1)
          PROVE  x_out'[m].seq < x_out'[k].seq
      <4>1. m \in 1..Len(x_out) /\ x_out'[m] = x_out[m] /\ x_out[m].seq \in 1..c_last_seq
        BY <3>4, <3>6
      <4>2. CASE k = Len(x_out) + 1
        BY <1>3, <2>2, <3>2, <3>4, <4>1, <4>2
      <4>3. CASE k # Len(x_out) + 1
        <5>1. k \in 1..Len(x_out) /\ x_out'[k] = x_out[k] /\ x_out[k].seq # 0
          BY <3>4, <3>6, <4>3
        <5> QED
          BY <1>0, <4>1, <5>1 DEF OutInv
      <4> QED
        BY <4>2, <4>3
    <3>9. x_exit' = None /\ x_pc' = "call" /\ x_ndjson'
      BY <1>1, <2>3, <2>6
    <3>10. OutInv'
      BY <3>7, <3>8, <3>9 DEF OutInv
    <3> QED
      BY <1>2, <2>4, <3>5, <3>10 DEF OwnInv, RunInv
  <2> QED
    BY <2>5, <2>6
<1> QED
  BY <1>4, <1>5
     DEF Peek, Poll, RpcReturns, ScanReturns, EngineGone, Return, evars, cvars, call

\* Everything else that happens while a session is up.
LEMMA CallStepKeepsInv ==
  ASSUME SessionInv, OwnInv,
         \/ Look \/ CallGivesUp \/ CancelFails
         \/ EngineRuns((EngineStep \/ RunnerProgress \/ RunnerReturns) /\ UNCHANGED cvars)
         \/ EngineRuns(EngineDies)
  PROVE  OwnInv'
<1>0. RunTypes /\ Position /\ Asked /\ Warned /\ Returns /\ GraphKept /\ OutInv
  BY DEF OwnInv, RunInv
<1>1. Len(outbox) \in Nat
  BY DEF SessionInv, ServerInv, ServerTypes
<1>2. CASE Look
  <2>1. /\ UNCHANGED <<x_pc, x_verb, x_ndjson, x_warned, x_exit, x_out, ctrl, outbox, c_last_seq>>
        /\ c_pc \in {"rpc", "scan"}
    BY <1>2
       DEF Look, Looks, ScanSendsCancel, serverside, engine, invocation, evars, svars, cvars, call
  <2>2. x_exit = None
    BY <1>0, <2>1, Undecided DEF Position, Over
  <2>3. (Position /\ Asked /\ Warned /\ Returns /\ GraphKept)'
    BY <1>0, <1>2, LookKeepsRun
  <2> QED
    BY <1>0, <1>1, <2>1, <2>2, <2>3, CallKeepsInv DEF RunTypes, CANCELLED
<1>3. CASE CallGivesUp \/ CancelFails
  <2>1. UNCHANGED <<x_pc, x_verb, x_ndjson, x_warned, x_exit, x_out, ctrl, requests, outbox,
                    c_last_seq>>
    BY <1>3 DEF CallGivesUp, CancelFails, RpcGivesUp, ScanDeadline, ScanCancelFails, Return,
                svars, engine, invocation, run
  <2>2. (Position /\ Asked /\ Warned /\ Returns /\ GraphKept)'
    BY <1>0, <1>3, GivingUpKeepsRun
  <2> QED
    BY <1>0, <1>1, <2>1, <2>2, CallKeepsInv DEF RunTypes, CANCELLED
<1>4. CASE \/ EngineRuns((EngineStep \/ RunnerProgress \/ RunnerReturns) /\ UNCHANGED cvars)
           \/ EngineRuns(EngineDies)
  <2>1. /\ UNCHANGED <<x_pc, x_verb, x_ndjson, x_warned, x_exit, x_out, ctrl, requests, c_last_seq>>
    BY <1>4, StepFrames
       DEF EngineRuns, EngineDies, RunnerProgress, RunnerReturns, cvars, call, invocation, run,
           SessionInv
  <2>2. (Position /\ Asked /\ Warned /\ Returns /\ GraphKept)' /\ LogsGrow
    BY <1>0, <1>4, EngineKeepsRun
  <2>3. Len(outbox') \in Nat /\ Len(outbox) <= Len(outbox')
    <3>1. ServerInv'
      BY <1>4, EngineStepKeepsSession, OthersKeepSession, LossKeepsSession
         DEF EngineRuns, SessionInv
    <3> QED
      BY <2>2, <3>1 DEF ServerInv, ServerTypes, LogsGrow
  <2>4. \A k \in 1..Len(outbox) : outbox'[k] = outbox[k]
    BY <2>2 DEF LogsGrow
  <2> QED
    BY <1>0, <1>1, <2>1, <2>2, <2>3, <2>4, CallKeepsInv DEF RunTypes, CANCELLED
<1> QED
  BY <1>2, <1>3, <1>4

---------------------------------------------------------------------------
(* The invocation as a whole *)

\* run() is killed, or returns after the Shutdown of a scan.
LEMMA EndKeepsInv ==
  ASSUME SessionInv, OwnInv, CliKilled \/ AfterShutdown
  PROVE  OwnInv'
<1>0. RunTypes /\ Position /\ Asked /\ Warned /\ Returns /\ GraphKept /\ OutInv /\ ExitInv
  BY DEF OwnInv, RunInv
<1>1. /\ DropSession /\ x_pc' \in Over /\ x_exit' = x_exit /\ x_warned' = x_warned
      /\ x_pc' = "exited" => x_exit # None
  BY <1>0 DEF CliKilled, AfterShutdown, Exit, Over, OutInv
<1>2. x_out' = x_out
  BY <1>0 DEF CliKilled, AfterShutdown, Exit, RunTypes
<1>3. /\ UNCHANGED <<requests, outbox, x_verb, x_ndjson, ctrl, c_last_seq>>
      /\ Len(outbox) \in Nat
  BY <1>1, DropEffect DEF SessionInv, ServerInv, ServerTypes
<1>4. (Position /\ Asked /\ Warned /\ Returns /\ GraphKept)'
  BY <1>0, <1>1, DropKeepsRun
<1>5. RunTypes'
  BY <1>0, <1>1, <1>2, <1>3 DEF RunTypes
<1>6. OutInv'
  BY <1>0, <1>1, <1>2, <1>3, OutStays DEF Over
<1>7. ExitInv'
  BY <1>0, <1>1, <1>3, ExitStays DEF CANCELLED
<1> QED
  BY <1>4, <1>5, <1>6, <1>7 DEF OwnInv, RunInv

\* Ctrl-C changes nothing but what the handler stores.
LEMMA HandlerKeepsInv ==
  ASSUME SessionInv, OwnInv, CtrlC \/ UNCHANGED xvars
  PROVE  OwnInv'
<1>0. RunTypes /\ Position /\ Asked /\ Warned /\ Returns /\ GraphKept /\ OutInv
  BY DEF OwnInv, RunInv
<1>1. /\ UNCHANGED <<requests, outbox, settled_scan, c_pc, c_req, c_cancel_sent, c_last_seq, c_return>>
      /\ UNCHANGED <<x_verb, x_ndjson, has_event, x_pc, x_looked, x_warned, x_out, x_exit>>
  BY DEF CtrlC, xvars, evars, svars, engine, cvars, call, invocation, run
<1>2. /\ ctrl' \in {"none", "stored", "set"}
      /\ CANCELLED => CANCELLED'
      /\ EventSet => EventSet'
  BY <1>0, <1>1 DEF CtrlC, xvars, RunTypes, CANCELLED, EventSet
<1>3. Len(outbox) \in Nat
  BY DEF SessionInv, ServerInv, ServerTypes
<1>4. Position' /\ GraphKept'
  BY <1>0, <1>1 DEF Position, GraphKept
<1>5. Asked' /\ Warned'
  BY <1>0, <1>1, <1>2 DEF Asked, Warned, CancelSent
<1>6. Returns'
  BY <1>0, <1>1, <1>2 DEF Returns, CallReturned, ReturnIs, Received
<1> QED
  BY <1>1, <1>2, <1>3, <1>4, <1>5, <1>6, CallKeepsInv

\* Nothing was sent or printed.
LEMMA InvocationStarts == XInit => InvocationInv
<1> SUFFICES ASSUME XInit PROVE InvocationInv
  OBVIOUS
<1>1. SessionInv
  BY SessionStarts DEF XInit
<1>2. /\ requests = <<>> /\ Len(requests) = 0 /\ Len(outbox) = 0 /\ c_pc = "free"
      /\ x_pc = "start" /\ ctrl = "none" /\ x_out = <<>> /\ x_exit = None
      /\ ~x_looked /\ ~x_warned
      /\ x_verb \in CliVerbs /\ (x_ndjson => x_verb = "Scan")
  BY DEF XInit, EInit, SInit
<1>3. RunTypes /\ Position
  BY <1>2 DEF RunTypes, Position, BeforeVerb, CancelledBefore, Over
<1>4. Asked /\ Warned /\ Returns /\ GraphKept
  BY <1>2 DEF Asked, CancelSent, CancelledBefore, Warned, Returns, CallReturned, GraphKept
<1>5. OutInv /\ ExitInv
  BY <1>2, ServerAssumption DEF OutInv, ExitInv
<1> QED
  BY <1>1, <1>3, <1>4, <1>5 DEF InvocationInv, RunInv

\* The invariant of an invocation: what run() sent, read, printed and decided
\* fits together, whatever is pressed, lost or killed and when (lib.rs, main.rs
\* of pigtree-cli).
THEOREM InvocationInvariant == XSpec => []InvocationInv
<1>1. ASSUME InvocationInv, [XNext]_xvars PROVE InvocationInv'
  <2>1. SessionInv /\ OwnInv
    BY <1>1 DEF InvocationInv, OwnInv
  <2>2. SessionInv'
    BY <1>1, <2>1, InvocationKeepsSession DEF OwnInv, RunInv
  <2>3. OwnInv'
    <3>1. CASE CliStep
      BY <2>1, <3>1, EarlyStepKeepsInv, BeginVerbKeepsInv, CallStepKeepsInv, PeekKeepsInv,
         SettleRpcKeepsInv, SettleScanKeepsInv, EndKeepsInv DEF CliStep
    <3>2. CASE CallGivesUp
      BY <2>1, <3>2, CallStepKeepsInv
    <3>3. CASE CliKilled
      BY <2>1, <3>3, EndKeepsInv
    <3>4. CASE CtrlC \/ UNCHANGED xvars
      BY <2>1, <3>4, HandlerKeepsInv
    <3>5. CASE Launch(LaunchNext)
      BY <2>1, <3>5, ApproachKeepsInv
         DEF Launch, cvars, call, invocation, run, BeforeVerb
    <3>6. CASE EngineRuns((EngineStep \/ RunnerProgress \/ RunnerReturns) /\ UNCHANGED cvars)
      BY <2>1, <3>6, CallStepKeepsInv
    <3>7. CASE EngineRuns(EngineDies)
      BY <2>1, <3>7, CallStepKeepsInv
    <3> QED
      BY <1>1, <3>1, <3>2, <3>3, <3>4, <3>5, <3>6, <3>7 DEF XNext
  <2> QED
    BY <2>2, <2>3 DEF InvocationInv, OwnInv
<1> QED
  BY <1>1, InvocationStarts, PTL DEF XSpec

\* stdout is progress with rising numbers and one last document, above them
\* all where it has a number, before an exit (run_scan, settle_scan_response).
THEOREM OutputKeepsContract == XSpec => []StdoutContract
<1>1. InvocationInv => StdoutContract
  BY DEF InvocationInv, OutInv, StdoutContract, Over
<1> QED
  BY <1>1, InvocationInvariant, PTL

\* Exit codes are true of the engine's log and of the keyboard: 0 for a scan
\* means that its graph is finished and is the engine's, 3 that Ctrl-C was
\* pressed (settle_scan_response, handle_rpc_result, execute_cli).
THEOREM ExitCodesAreJustified == XSpec => []ExitJustified
<1>1. ASSUME InvocationInv PROVE ExitJustified
  <2>1. RunTypes /\ GraphKept /\ OutInv /\ ExitInv
    BY <1>1 DEF InvocationInv, RunInv
  <2>2. ScanAnswer("Finished") => settled_scan = 1
    BY <2>1 DEF ScanAnswer, GraphKept, Response
  <2>3. x_verb \notin {"Scan", "Shutdown"} => x_verb \in Rpcs
    BY <2>1 DEF RunTypes, CliVerbs, Rpcs
  <2>4. x_pc = "exited" => x_exit \in 0..4
    BY <2>1 DEF RunTypes, OutInv
  <2> QED
    BY <2>1, <2>2, <2>3, <2>4 DEF ExitInv, ExitJustified
<1> QED
  BY <1>1, InvocationInvariant, PTL
=============================================================================
