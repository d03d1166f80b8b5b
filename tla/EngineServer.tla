--------------------------- MODULE EngineServer ---------------------------
(***************************************************************************)
(* The command loop of pigtree-engine (main.rs): one thread that reads     *)
(* framed commands from the client's pipe, answers them, and for a Scan    *)
(* keeps polling the pipe while a runner thread drives the scan worker     *)
(* (ScanPipeline).                                                         *)
(*                                                                         *)
(* The client is any program that sends commands in any order and may      *)
(* vanish, or stall inside a frame, at any moment.  Both directions of the *)
(* pipe are FIFO, so each is kept as the log of what was sent: `requests`, *)
(* of which the engine has read `consumed`, and `outbox`.  A request's id  *)
(* is its position in the log, and the id of a scan operation is that of   *)
(* its request.  Echo, Health and Version answer as Ping does.             *)
(***************************************************************************)
EXTENDS Naturals, Sequences, FiniteSets

CONSTANTS
  Verbs,        \* command verbs the client uses
  MaxRequests,  \* bound: requests a client sends
  MaxPulses,    \* bound: progress callbacks of one scan
  None

AllVerbs == {"Ping", "DelayedPing", "Status", "Cancel", "Shutdown", "Scan",
             "GetChildren"}

ASSUME ServerAssumption ==
  /\ Verbs \subseteq AllVerbs
  /\ MaxRequests \in Nat
  /\ MaxPulses \in Nat
  /\ None \notin Nat

VARIABLES
  requests,     \* everything the client sent
  consumed,     \* how much of it the engine has read
  outbox,       \* everything the engine sent
  client_lost,  \* the client is gone, or stuck inside a frame
  e_pc,         \* where the command loop is
  active,       \* request being delayed or scanned
  cancel,       \* the active scan's CancelHandle
  scan_result,  \* what the runner thread returned, None while it runs
  pulses,       \* progress callbacks the runner has made
  sent_pulse,   \* newest of them the main thread has sent
  settled_scan, \* operation whose graph the engine keeps, or None
  swallowed     \* history: requests read during a delay and not answered

engine == <<consumed, outbox, e_pc, active, cancel, sent_pulse,
            settled_scan, swallowed>>
thread == <<scan_result, pulses>>
svars == <<requests, client_lost, engine, thread>>

Request(verb, target) == [verb |-> verb, target |-> target]
Response(kind, id, val) == [kind |-> kind, id |-> id, val |-> val]

ScanOutcomes == {"Finished", "Cancelled", "Failed"}

SInit ==
  /\ requests = <<>>
  /\ consumed = 0
  /\ outbox = <<>>
  /\ client_lost = FALSE
  /\ e_pc = "idle"
  /\ active = None
  /\ cancel = FALSE
  /\ scan_result = None
  /\ pulses = 0 /\ sent_pulse = 0
  /\ settled_scan = None
  /\ swallowed = {}

---------------------------------------------------------------------------
(* The client *)

\* A Cancel or GetChildren names an earlier request, or (0) nothing it knows.
Send(verb, target) ==
  /\ ~client_lost
  /\ Len(requests) < MaxRequests
  /\ requests' = Append(requests, Request(verb, target))

AnyClientSends ==
  /\ \E verb \in Verbs :
       \E target \in IF verb \in {"Cancel", "GetChildren"}
                     THEN 0..Len(requests) ELSE {0} :
         Send(verb, target)
  /\ UNCHANGED <<client_lost, engine, thread>>

ClientVanishes ==
  /\ ~client_lost
  /\ client_lost' = TRUE
  /\ UNCHANGED <<requests, engine, thread>>

---------------------------------------------------------------------------
(* Reading and answering *)

FrameReady == consumed < Len(requests)
Incoming == requests[consumed + 1]
IncomingId == consumed + 1

Receive(verb) ==
  /\ FrameReady
  /\ Incoming.verb = verb
  /\ consumed' = IncomingId

\* send_response at the end of a command: a failure ends the process.
Answer(resp, next_pc) ==
  IF client_lost
  THEN e_pc' = "ended" /\ UNCHANGED outbox
  ELSE e_pc' = next_pc /\ outbox' = Append(outbox, resp)

\* An answer given during a scan: a failure is ignored.
AnswerInScan(resp) ==
  outbox' = IF client_lost THEN outbox ELSE Append(outbox, resp)

scanning == <<active, cancel, sent_pulse>>

IdlePing ==
  /\ e_pc = "idle"
  /\ Receive("Ping")
  /\ Answer(Response("Ping", IncomingId, None), "idle")
  /\ UNCHANGED <<requests, client_lost, thread, scanning, settled_scan,
                 swallowed>>

IdleStatus ==
  /\ e_pc = "idle"
  /\ Receive("Status")
  /\ Answer(Response("Status", IncomingId, "IDLE"), "idle")
  /\ UNCHANGED <<requests, client_lost, thread, scanning, settled_scan,
                 swallowed>>

\* With nothing running a Cancel is confirmed, whatever it names.
IdleCancel ==
  /\ e_pc = "idle"
  /\ Receive("Cancel")
  /\ Answer(Response("Cancel", IncomingId, None), "idle")
  /\ UNCHANGED <<requests, client_lost, thread, scanning, settled_scan,
                 swallowed>>

IdleShutdown ==
  /\ e_pc = "idle"
  /\ Receive("Shutdown")
  /\ Answer(Response("Shutdown", IncomingId, None), "ended")
  /\ UNCHANGED <<requests, client_lost, thread, scanning, settled_scan,
                 swallowed>>

\* Mutant: the operation is not compared with the settled one.
IdleGetChildren_AnyOperation ==
  /\ e_pc = "idle"
  /\ Receive("GetChildren")
  /\ IF settled_scan = None
     THEN Answer(Response("Stale", IncomingId, Incoming.target), "idle")
     ELSE \E kind \in {"Page", "Invalid"} :
            Answer(Response(kind, IncomingId, settled_scan), "idle")
  /\ UNCHANGED <<requests, client_lost, thread, scanning, settled_scan,
                 swallowed>>

\* STALE_OPERATION unless the operation is the settled one; then a page, or
\* INVALID_LIMIT or INVALID_PARENT.
IdleGetChildren ==
  /\ e_pc = "idle"
  /\ Receive("GetChildren")
  /\ IF settled_scan # Incoming.target
     THEN Answer(Response("Stale", IncomingId, Incoming.target), "idle")
     ELSE \E kind \in {"Page", "Invalid"} :
            Answer(Response(kind, IncomingId, settled_scan), "idle")
  /\ UNCHANGED <<requests, client_lost, thread, scanning, settled_scan,
                 swallowed>>

\* Mutant: a failed peek is taken for an empty pipe.
IdleLost_Ignored == FALSE

\* The pipe broke or a frame stayed partial for 250 ms.
IdleLost ==
  /\ e_pc \in {"idle", "delay"}
  /\ client_lost
  /\ e_pc' = "ended"
  /\ UNCHANGED <<requests, client_lost, thread, consumed, outbox, scanning,
                 settled_scan, swallowed>>

---------------------------------------------------------------------------
(* A command with a delay *)

BeginDelay ==
  /\ e_pc = "idle"
  /\ Receive("DelayedPing")
  /\ active' = IncomingId
  /\ e_pc' = "delay"
  /\ UNCHANGED <<requests, client_lost, thread, outbox, cancel, sent_pulse, settled_scan, swallowed>>

\* A Cancel is answered in the place of the delayed command ...
DelayCancel ==
  /\ e_pc = "delay"
  /\ Receive("Cancel")
  /\ Answer(Response("Cancel", IncomingId, None), "idle")
  /\ swallowed' = swallowed \union {active}
  /\ active' = None
  /\ UNCHANGED <<requests, client_lost, thread, cancel, sent_pulse,
                 settled_scan>>

\* ... and any other command is read and forgotten.
DelayDrop ==
  /\ e_pc = "delay"
  /\ \E verb \in AllVerbs \ {"Cancel"} : Receive(verb)
  /\ swallowed' = swallowed \union {IncomingId}
  /\ UNCHANGED <<requests, client_lost, thread, outbox, e_pc, scanning,
                 settled_scan>>

DelayElapses ==
  /\ e_pc = "delay"
  /\ Answer(Response("Ping", active, None), "idle")
  /\ active' = None
  /\ UNCHANGED <<requests, client_lost, thread, consumed, cancel, sent_pulse, settled_scan, swallowed>>

---------------------------------------------------------------------------
(* A scan *)

\* Mutant: a rejected scan leaves the previous graph in place.
RejectScan_KeepsGraph ==
  /\ e_pc = "idle"
  /\ Receive("Scan")
  /\ Answer(Response("Error", IncomingId, None), "idle")
  /\ UNCHANGED <<requests, client_lost, thread, scanning, settled_scan,
                 swallowed>>

\* Invalid target, no worker executable or no cancel handle.
RejectScan ==
  /\ e_pc = "idle"
  /\ Receive("Scan")
  /\ settled_scan' = None
  /\ Answer(Response("Error", IncomingId, None), "idle")
  /\ UNCHANGED <<requests, client_lost, thread, scanning, swallowed>>

\* Mutant: one CancelHandle for all scans.
StartScan_OldHandle ==
  /\ e_pc = "idle"
  /\ Receive("Scan")
  /\ settled_scan' = None
  /\ active' = IncomingId
  /\ scan_result' = None
  /\ pulses' = 0 /\ sent_pulse' = 0
  /\ e_pc' = "drain"
  /\ UNCHANGED <<requests, client_lost, outbox, cancel, swallowed>>

StartScan ==
  /\ e_pc = "idle"
  /\ Receive("Scan")
  /\ settled_scan' = None
  /\ active' = IncomingId
  /\ cancel' = FALSE
  /\ scan_result' = None
  /\ pulses' = 0 /\ sent_pulse' = 0
  /\ e_pc' = "drain"
  /\ UNCHANGED <<requests, client_lost, outbox, swallowed>>

Pulse(seq) == Response("Progress", active, seq)

\* Drain the channel, keep the newest callback, and send it unless less than
\* 100 ms have passed since the last one; one kept back is superseded by the
\* next drain, so `pulses > sent_pulse` is pending_progress.
DrainProgress ==
  /\ e_pc = "drain"
  /\ \/ /\ pulses > sent_pulse
        /\ IF client_lost
           THEN cancel' = TRUE /\ e_pc' = "closing" /\ UNCHANGED outbox
           ELSE /\ outbox' = Append(outbox, Pulse(pulses))
                /\ e_pc' = "poll"
                /\ UNCHANGED cancel
        /\ sent_pulse' = pulses
     \/ e_pc' = "poll" /\ UNCHANGED <<outbox, sent_pulse, cancel>>
  /\ UNCHANGED <<requests, client_lost, thread, consumed, active,
                 settled_scan, swallowed>>

PollEmpty ==
  /\ e_pc = "poll"
  /\ ~FrameReady
  /\ e_pc' = "join"
  /\ UNCHANGED <<requests, client_lost, thread, consumed, outbox, scanning,
                 settled_scan, swallowed>>

\* A Cancel for this scan (0 stands for "" and "scan") is not answered; one
\* for anything else is ignored.
Names(target) == target \in {0, active}

PollCancel ==
  /\ e_pc = "poll"
  /\ Receive("Cancel")
  /\ cancel' = (cancel \/ Names(Incoming.target))
  /\ e_pc' = "join"
  /\ UNCHANGED <<requests, client_lost, thread, outbox, active, sent_pulse, settled_scan, swallowed>>

PollStatus ==
  /\ e_pc = "poll"
  /\ Receive("Status")
  /\ AnswerInScan(Response("Status", IncomingId, "SCANNING"))
  /\ e_pc' = "join"
  /\ UNCHANGED <<requests, client_lost, thread, scanning, settled_scan,
                 swallowed>>

\* Mutant: a command that cannot be served is dropped.
PollBusy_Silent ==
  /\ e_pc = "poll"
  /\ \E verb \in AllVerbs \ {"Cancel", "Status"} : Receive(verb)
  /\ e_pc' = "join"
  /\ UNCHANGED <<requests, client_lost, thread, outbox, scanning,
                 settled_scan, swallowed>>

PollBusy ==
  /\ e_pc = "poll"
  /\ \E verb \in AllVerbs \ {"Cancel", "Status"} : Receive(verb)
  /\ AnswerInScan(Response("Busy", IncomingId, None))
  /\ e_pc' = "join"
  /\ UNCHANGED <<requests, client_lost, thread, scanning, settled_scan,
                 swallowed>>

\* The pipe broke or a frame stayed partial: cancel, join the runner, leave.
PollLost ==
  /\ e_pc = "poll"
  /\ client_lost
  /\ cancel' = TRUE
  /\ e_pc' = "closing"
  /\ UNCHANGED <<requests, client_lost, thread, consumed, outbox, active,
                 sent_pulse, settled_scan, swallowed>>

KeepScanning ==
  /\ e_pc = "join"
  /\ scan_result = None
  /\ e_pc' = "drain"
  /\ UNCHANGED <<requests, client_lost, thread, consumed, outbox, scanning,
                 settled_scan, swallowed>>

\* A graph reports its own outcome; an error or a panic of the runner is
\* Cancelled if a cancellation was requested, else Failed.
OutcomeOf(res) ==
  IF res # "Error" THEN res ELSE IF cancel THEN "Cancelled" ELSE "Failed"

\* The runner is joined, the last progress sent, the scan answered.
LastPulse == IF pulses > sent_pulse THEN <<Pulse(pulses)>> ELSE <<>>
ScanResponse == Response("Scan", active, OutcomeOf(scan_result))

\* Mutant: the last progress follows the answer.
SettleScan_LatePulse ==
  /\ e_pc = "join"
  /\ scan_result # None
  /\ settled_scan' = IF scan_result = "Error" THEN None ELSE active
  /\ sent_pulse' = pulses
  /\ IF client_lost
     THEN e_pc' = "ended" /\ UNCHANGED outbox
     ELSE e_pc' = "idle" /\ outbox' = Append(outbox, ScanResponse) \o LastPulse
  /\ UNCHANGED <<requests, client_lost, thread, consumed, active, cancel,
                 swallowed>>

SettleScan ==
  /\ e_pc = "join"
  /\ scan_result # None
  /\ settled_scan' = IF scan_result = "Error" THEN None ELSE active
  /\ sent_pulse' = pulses
  /\ IF client_lost
     THEN e_pc' = "ended" /\ UNCHANGED outbox
     ELSE e_pc' = "idle" /\ outbox' = outbox \o Append(LastPulse, ScanResponse)
  /\ UNCHANGED <<requests, client_lost, thread, consumed, active, cancel,
                 swallowed>>

LeaveAfterJoin ==
  /\ e_pc = "closing"
  /\ scan_result # None
  /\ e_pc' = "ended"
  /\ UNCHANGED <<requests, client_lost, thread, consumed, outbox, scanning,
                 settled_scan, swallowed>>

---------------------------------------------------------------------------
(* The runner thread, as ScanPipeline lets it behave *)

Running == scan_result = None /\ e_pc \in {"drain", "poll", "join", "closing"}

RunnerProgress ==
  /\ Running
  /\ pulses < MaxPulses
  /\ pulses' = pulses + 1
  /\ UNCHANGED <<requests, client_lost, engine, scan_result>>

\* A graph with its terminal outcome, or any error.  The worker reports
\* Cancelled only when it saw the event.
RunnerReturns ==
  /\ Running
  /\ \/ scan_result' \in {"Finished", "Failed", "Error"}
     \/ cancel /\ scan_result' = "Cancelled"
  /\ UNCHANGED <<requests, client_lost, engine, pulses>>

---------------------------------------------------------------------------
EngineStep ==
  \/ IdlePing \/ IdleStatus \/ IdleCancel \/ IdleShutdown \/ IdleGetChildren
  \/ IdleLost
  \/ BeginDelay \/ DelayCancel \/ DelayDrop \/ DelayElapses
  \/ RejectScan \/ StartScan \/ DrainProgress
  \/ PollEmpty \/ PollCancel \/ PollStatus \/ PollBusy \/ PollLost
  \/ KeepScanning \/ SettleScan \/ LeaveAfterJoin

SNext ==
  \/ AnyClientSends \/ ClientVanishes
  \/ EngineStep
  \/ RunnerProgress \/ RunnerReturns

\* The engine's threads are scheduled; that the runner returns is what
\* ScanPipeline's ScanSettles establishes.
SFairness == WF_svars(EngineStep) /\ WF_svars(RunnerReturns)

SSpec == SInit /\ [][SNext]_svars /\ SFairness

---------------------------------------------------------------------------
(* Properties *)

Answers(id) ==
  {k \in 1..Len(outbox) : outbox[k].id = id /\ outbox[k].kind # "Progress"}

\* Whenever the loop is idle with its client there, every request it has
\* read was answered exactly once: a scan by one ScanResponse or one error
\* however many Cancels, Status calls and refused commands came in between.
\* Not answered are only the Cancels a scan absorbed and what a delay
\* swallowed (the send_response calls of main).
AnsweredExactlyOnce ==
  e_pc = "idle" /\ ~client_lost =>
    \A id \in 1..consumed :
      \/ Cardinality(Answers(id)) = 1
      \/ /\ Answers(id) = {}
         /\ id \in swallowed \/ requests[id].verb = "Cancel"

\* Progress of a scan carries rising sequence numbers and none of it follows
\* the scan's answer, although callbacks are made by one thread and sent by
\* another that skips some; and the last callback made is never one of those
\* skipped (what scan_with_progress_outcome demands of the stream, and the
\* final drain before the ScanResponse).
ProgressOrdered ==
  /\ \A k \in 1..Len(outbox), m \in 1..Len(outbox) :
       outbox[k].kind = "Progress" /\ m < k /\ outbox[m].id = outbox[k].id =>
         outbox[m].kind = "Progress" /\ outbox[m].val < outbox[k].val
  /\ e_pc = "idle" /\ pulses > 0 =>
       \A k \in 1..Len(outbox) :
         outbox[k].kind = "Scan" /\ outbox[k].id = active =>
           \E m \in 1..(k - 1) : outbox[m] = Pulse(pulses)

\* A scan is reported Cancelled only if the client asked for the
\* cancellation of that scan, after it asked for the scan: a Cancel left over
\* from an earlier scan, or naming another, never ends this one
\* (CancelHandle::new per scan and the target_request_id comparison).
CancelledWhenAsked ==
  \A k \in 1..Len(outbox) :
    outbox[k].kind = "Scan" /\ outbox[k].val = "Cancelled" =>
      \E c \in (outbox[k].id + 1)..consumed :
        /\ requests[c].verb = "Cancel"
        /\ requests[c].target \in {0, outbox[k].id}

\* A page is only ever served from the graph of the scan asked for, and only
\* while it is the newest: its ScanResponse went out before, and no later
\* Scan was taken up in between, also one that failed or was rejected
\* (settled_scan reset at the start of every Scan).
PagesAreCurrent ==
  \A k \in 1..Len(outbox) :
    outbox[k].kind = "Page" =>
      /\ requests[outbox[k].id].target = outbox[k].val
      /\ \E j \in 1..(k - 1) :
           /\ outbox[j].kind = "Scan" /\ outbox[j].id = outbox[k].val
           /\ \A m \in (j + 1)..(k - 1) :
                requests[outbox[m].id].verb = "Scan" =>
                  outbox[m].kind = "Busy"

\* The engine always comes back to its command loop or leaves: no scan and no
\* delay keeps it from the next command for ever.  A client that vanishes is
\* noticed, wherever the loop is, and the process leaves, after the runner
\* and with it the worker are gone (PollLost and IdleLost).
ReturnsOrLeaves ==
  /\ []<>(e_pc \in {"idle", "ended"})
  /\ client_lost ~> e_pc = "ended"
=============================================================================
