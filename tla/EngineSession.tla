--------------------------- MODULE EngineSession ---------------------------
(***************************************************************************)
(* The engine of EngineServer with the client it really has: one           *)
(* EngineClientSession (ipc client.rs), the blocking Rust client of the    *)
(* command line.  It has one call outstanding at a time, reads frames from *)
(* the engine in order, and may be interrupted by its cancellation event.  *)
(***************************************************************************)
EXTENDS EngineServer

VARIABLES
  c_pc,           \* "free", inside a call, or "closed"
  c_req,          \* id of the request the call sent
  c_cancel_sent,  \* the scan call has sent its Cancel
  c_last_seq,     \* last_progress_seq of the scan call
  c_received,     \* how much of outbox the client has read
  c_return,       \* what the last call returned
  c_abandoned     \* history: a call returned without reading its answer

call == <<c_pc, c_req, c_cancel_sent, c_last_seq>>
cvars == <<call, c_received, c_return, c_abandoned>>
evars == <<svars, cvars>>

Returned(id, what, frame) == [id |-> id, what |-> what, frame |-> frame]

EInit ==
  /\ SInit
  /\ c_pc = "free"
  /\ c_req = None
  /\ c_cancel_sent = FALSE
  /\ c_last_seq = 0
  /\ c_received = 0
  /\ c_return = None
  /\ c_abandoned = FALSE

serverside == <<client_lost, engine, thread>>

---------------------------------------------------------------------------
(* Calls *)

\* A call whose request cannot be sent, the engine having left, returns at
\* once; what waits in the pipe is never read.
Begin(pc, verb, target) ==
  /\ c_pc = "free"
  /\ Send(verb, target)
  /\ c_req' = Len(requests) + 1
  /\ c_cancel_sent' = FALSE
  /\ c_last_seq' = 0
  /\ \/ /\ e_pc # "ended"
        /\ c_pc' = pc
        /\ UNCHANGED <<c_received, c_return>>
     \/ /\ e_pc = "ended"
        /\ c_pc' = "free"
        /\ c_received' = Len(outbox)
        /\ c_return' = Returned(c_req', "Disconnected", None)
  /\ UNCHANGED <<serverside, c_abandoned>>

\* ping, status and get_children: send_command_interruptible.
CallRpc ==
  \/ \E verb \in Verbs \intersect {"Ping", "DelayedPing", "Status"} :
       Begin("rpc", verb, 0)
  \/ /\ "GetChildren" \in Verbs
     /\ \E op \in 1..Len(requests) :
          requests[op].verb = "Scan" /\ Begin("rpc", "GetChildren", op)

\* cancel_request, which the command line calls with the verb's name.
CallCancel == "Cancel" \in Verbs /\ Begin("cancel", "Cancel", 0)

CallScan == "Scan" \in Verbs /\ Begin("scan", "Scan", 0)

CallShutdown == "Shutdown" \in Verbs /\ Begin("shutdown", "Shutdown", 0)

Return(what, frame) ==
  /\ c_return' = Returned(c_req, what, frame)
  /\ c_pc' = "free"
  /\ UNCHANGED <<c_req, c_cancel_sent, c_last_seq>>

FrameWaiting == c_received < Len(outbox)
Frame == outbox[c_received + 1]
TakeFrame == FrameWaiting /\ c_received' = c_received + 1

\* A plain call takes the first frame for its answer.
RpcReturns ==
  /\ c_pc \in {"rpc", "cancel", "shutdown"}
  /\ TakeFrame
  /\ Return("Response", Frame)
  /\ UNCHANGED <<svars, c_abandoned>>

\* Its cancellation event, or cancel_request's three seconds, end the call
\* with the answer still to come.
RpcGivesUp ==
  /\ c_pc \in {"rpc", "cancel"}
  /\ Return("GaveUp", None)
  /\ c_abandoned' = TRUE
  /\ UNCHANGED <<svars, c_received>>

---------------------------------------------------------------------------
(* scan_with_progress_outcome *)

ScanSendsCancel ==
  /\ c_pc = "scan"
  /\ ~c_cancel_sent
  /\ e_pc # "ended"
  /\ Send("Cancel", c_req)
  /\ c_cancel_sent' = TRUE
  /\ UNCHANGED <<serverside, c_pc, c_req, c_last_seq, c_received, c_return,
                 c_abandoned>>

\* The engine has left: the Cancel cannot be sent, and the call returns
\* without a look at the frames that wait.
ScanCancelFails ==
  /\ c_pc = "scan"
  /\ ~c_cancel_sent
  /\ e_pc = "ended"
  /\ c_received' = Len(outbox)
  /\ Return("Disconnected", None)
  /\ UNCHANGED <<svars, c_abandoned>>

\* Two seconds after the Cancel.
ScanDeadline ==
  /\ c_pc = "scan"
  /\ c_cancel_sent
  /\ Return("GaveUp", None)
  /\ c_abandoned' = TRUE
  /\ UNCHANGED <<svars, c_received>>

\* Mutant: sequence numbers must be consecutive.
FreshPulse_Consecutive ==
  /\ Frame.kind = "Progress"
  /\ Frame.id = c_req
  /\ Frame.val = c_last_seq + 1

FreshPulse ==
  /\ Frame.kind = "Progress"
  /\ Frame.id = c_req
  /\ Frame.val > c_last_seq

ScanProgress ==
  /\ c_pc = "scan"
  /\ TakeFrame
  /\ FreshPulse
  /\ c_last_seq' = Frame.val
  /\ UNCHANGED <<svars, c_pc, c_req, c_cancel_sent, c_return, c_abandoned>>

\* Any other frame ends the call: the answer to this scan, an error, or a
\* frame that does not belong here.
ScanVerdict(frame) ==
  IF frame.kind = "Progress" \/ frame.id # c_req THEN "Protocol"
  ELSE IF frame.kind \in {"Error", "Busy"} THEN "CommandError"
  ELSE IF c_cancel_sent \/ frame.val = "Cancelled" THEN "Cancelled"
  ELSE "Finished"

ScanReturns ==
  /\ c_pc = "scan"
  /\ TakeFrame
  /\ ~FreshPulse
  /\ Return(ScanVerdict(Frame), Frame)
  /\ UNCHANGED <<svars, c_abandoned>>

---------------------------------------------------------------------------
\* Mutant: a failed peek is taken for an empty pipe.
EngineGone_Ignored == FALSE

\* After its answer to a Shutdown the engine disconnects the pipe
\* (PipeStream::drop), which discards what was not read yet.
LeftUnread == FrameWaiting /\ outbox[Len(outbox)].kind = "Shutdown"

\* The engine left: the next peek fails.
EngineGone ==
  /\ c_pc \notin {"free", "closed"}
  /\ e_pc = "ended"
  /\ FrameWaiting => LeftUnread
  /\ c_received' = Len(outbox)
  /\ Return("Disconnected", None)
  /\ UNCHANGED <<svars, c_abandoned>>

\* The engine process is killed or panics; what it sent can still be read.
\* A request sent from now on is never consumed.
EngineDies ==
  /\ e_pc # "ended"
  /\ e_pc' = "ended"
  /\ UNCHANGED <<requests, client_lost, thread, consumed, outbox, scanning,
                 settled_scan, swallowed, cvars>>

\* Dropping the session closes the pipe; so does the client's death.
CloseSession ==
  /\ c_pc' = "closed"
  /\ client_lost' = TRUE
  /\ ~client_lost
  /\ UNCHANGED <<requests, engine, thread, c_req, c_cancel_sent, c_last_seq,
                 c_received, c_return, c_abandoned>>

Poll == RpcReturns \/ ScanProgress \/ ScanReturns \/ EngineGone
CallEnds == RpcGivesUp \/ ScanDeadline \/ ScanCancelFails
Calls == CallRpc \/ CallCancel \/ CallScan \/ CallShutdown

ENext ==
  \/ Calls \/ ScanSendsCancel \/ Poll \/ CallEnds \/ CloseSession
  \/ (EngineStep \/ RunnerProgress \/ RunnerReturns) /\ UNCHANGED cvars
  \/ EngineDies

\* The client polls for frames until its call ends; an interruption, a
\* deadline or the engine's death is never owed.
EFairness ==
  /\ WF_evars(EngineStep /\ UNCHANGED cvars)
  /\ WF_evars(RunnerReturns /\ UNCHANGED cvars)
  /\ WF_evars(Poll)

ESpec == EInit /\ [][ENext]_evars /\ EFairness

---------------------------------------------------------------------------
(* Properties *)

GotFrame == c_return # None /\ c_return.frame # None
OwnAnswer == GotFrame => c_return.frame.id = c_return.id

CancelSent == \E i \in 1..Len(requests) : requests[i].verb = "Cancel"

\* With no request id compared by send_command_interruptible, a call gets
\* the answer to its own request as long as no call gave up early and no
\* cancellation was sent: the engine answers in order and every pulse of a
\* scan is read by the scan call.
InOrderAnswers == ~c_abandoned /\ ~CancelSent => OwnAnswer

\* A scan call that settles reports the engine's answer for that very scan,
\* Finished only for a scan that was not cancelled, and it fails on an alien
\* frame only after some call gave up or a Cancel was sent: the engine's own
\* progress is never refused as out of sequence
\* (scan_with_progress_outcome's checks against main's coalescing).
ScanCallSound ==
  c_return # None =>
    /\ c_return.what = "Finished" =>
         /\ OwnAnswer
         /\ c_return.frame.val \in {"Finished", "Failed"}
    /\ c_return.what = "Cancelled" => OwnAnswer
    /\ c_return.what = "Protocol" => c_abandoned \/ CancelSent

\* "Verify engine remains immediately healthy and usable without stale frames
\* or extra cancel calls": when every scan was settled by its ScanResponse,
\* cancelled or not, and only scan calls sent a Cancel, each call gets its
\* own answer.
ScansSettled ==
  /\ ~c_abandoned
  /\ \A k \in 1..Len(outbox) : outbox[k].kind # "Error"
  /\ \A i \in 1..Len(requests) :
       requests[i].verb = "Cancel" => requests[i].target # 0

UsableAfterCancelledScan == ScansSettled => OwnAnswer

\* Every call comes back, also when its request was swallowed by a delay or
\* absorbed by a scan, when a stale frame is taken for the answer, or when
\* the engine leaves.
CallsReturn == []<>(c_pc \in {"free", "closed"})
=============================================================================
