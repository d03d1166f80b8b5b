---------------------------- MODULE CommandLine ----------------------------
(***************************************************************************)
(* One invocation of pigtree.exe (main.rs, lib.rs of pigtree-cli): the     *)
(* arguments, the launch of the engine (SessionLaunch), the calls of one   *)
(* verb on its session (EngineSession) and the exit code and documents     *)
(* they settle into.  The console's control handler runs on a thread of    *)
(* its own, and the process may be killed at any moment.                   *)
(*                                                                         *)
(* Documents on stdout are [kind, seq]: "progress" events and one          *)
(* "result", "cancelled" or "error" document.  seq is 0 where the document *)
(* carries no sequence number.                                             *)
(***************************************************************************)
EXTENDS EngineSession, SessionLaunch

VARIABLES
  x_verb,    \* the subcommand
  x_ndjson,  \* --format ndjson
  x_pc,      \* where run() is
  x_looked,  \* the call's loop found the event unset and will peek next
  x_warned,  \* history: the event was set before the verb's request was sent
  x_out,     \* documents printed
  x_exit,    \* exit code, None before it is decided
  has_event, \* CreateEventW succeeded
  ctrl       \* the handler: "none", CANCELLED "stored", event "set"

invocation == <<x_verb, x_ndjson, has_event>>
run == <<x_pc, x_looked, x_warned, x_out, x_exit>>
xvars == <<evars, lvars, invocation, run, ctrl>>

CliVerbs == {"Ping", "DelayedPing", "Status", "Scan", "Shutdown"}
Over == {"exited", "killed"}

XInit ==
  /\ EInit
  /\ LInit
  /\ x_verb \in CliVerbs \intersect Verbs
  /\ x_ndjson \in {FALSE, x_verb = "Scan"}
  /\ has_event \in BOOLEAN
  /\ ctrl = "none"
  /\ x_pc = "start"
  /\ x_looked = FALSE
  /\ x_warned = FALSE
  /\ x_out = <<>>
  /\ x_exit = None

CANCELLED == ctrl # "none"
EventSet == has_event /\ ctrl = "set"

---------------------------------------------------------------------------
(* Documents and the end of the process *)

Document(kind, seq) == [kind |-> kind, seq |-> seq]

\* Mutant: the terminal event repeats the last progress event's number.
TerminalSeq_Same == IF x_ndjson THEN c_last_seq ELSE 0

\* The number of a scan's terminal event: last_progress_seq + 1.
TerminalSeq == IF x_ndjson THEN c_last_seq + 1 ELSE 0

\* run() returns or the process dies: the session's job object, and with it
\* the engine, goes first; nothing more is written to the pipe.
DropSession ==
  /\ \/ LauncherDies
     \/ SessionDropped
     \/ l_pc = "failed" /\ UNCHANGED lvars
  /\ client_lost' = TRUE
  /\ e_pc' = "ended"
  /\ c_pc' = "closed"
  /\ UNCHANGED <<requests, thread, consumed, outbox, scanning, settled_scan,
                 swallowed, c_req, c_cancel_sent, c_last_seq, c_received,
                 c_return, c_abandoned, invocation, ctrl>>

Exit(code, documents) ==
  /\ x_pc' = "exited"
  /\ x_exit' = code
  /\ x_out' = x_out \o documents
  /\ x_looked' = FALSE
  /\ DropSession
  /\ UNCHANGED x_warned

CliKilled ==
  /\ x_pc \notin Over
  /\ x_pc' = "killed"
  /\ DropSession
  /\ UNCHANGED <<x_looked, x_warned, x_out, x_exit>>

---------------------------------------------------------------------------
(* The control handler *)

CtrlC ==
  /\ x_pc \notin Over
  /\ \/ ctrl = "none" /\ ctrl' = "stored"
     \/ ctrl = "stored" /\ ctrl' = "set"
  /\ UNCHANGED <<evars, lvars, invocation, run>>

---------------------------------------------------------------------------
(* Before the session *)

Goto(pc) ==
  /\ x_pc' = pc
  /\ UNCHANGED <<x_looked, x_warned, x_out, x_exit, invocation, ctrl>>

\* Help and version are answered at once; bad arguments, an unknown verb and
\* a scan target that cannot be a directory are command errors.
ParseArguments ==
  /\ x_pc = "start"
  /\ \/ Exit(0, <<Document("result", 0)>>)
     \/ Exit(2, <<Document("error", 0)>>)
     \/ Goto("check") /\ UNCHANGED <<evars, lvars>>

\* The cancelled event before a session carries number 1.
CancelledEarly == Document("cancelled", IF x_ndjson THEN 1 ELSE 0)

BeforeLaunch ==
  /\ x_pc = "check"
  /\ IF CANCELLED
     THEN Exit(3, <<CancelledEarly>>)
     ELSE \/ Exit(1, <<Document("error", 0)>>)   \* no engine binary
          \/ Goto("launch") /\ UNCHANGED <<evars, lvars>>

\* A session whose engine died after its response is up all the same.
Launch(step) ==
  /\ x_pc = "launch"
  /\ l_pc \in LaunchSteps
  /\ step
  /\ e_pc' = IF l_pc' = "up" /\ p' = "ended" THEN "ended" ELSE e_pc
  /\ UNCHANGED <<requests, client_lost, thread, consumed, outbox, scanning,
                 settled_scan, swallowed, cvars, invocation, run, ctrl>>

LaunchFailed ==
  /\ x_pc = "launch"
  /\ l_pc = "failed"
  /\ Exit(1, <<Document("error", 0)>>)

Started(begun, pc) == begun /\ Goto(pc) /\ UNCHANGED lvars

LaunchDone ==
  /\ x_pc = "launch"
  /\ l_pc = "up"
  /\ IF CANCELLED
     THEN Started(Begin("cancel", "Cancel", 0), "cancel early")
     ELSE Goto("verb") /\ UNCHANGED <<evars, lvars>>

\* cancel_request and shutdown were called on a session that did nothing yet.
ShutdownEarly ==
  /\ x_pc = "cancel early" /\ c_pc = "free"
  /\ Started(CallShutdown, "shutdown early")

SettleEarly ==
  /\ x_pc = "shutdown early" /\ c_pc = "free"
  /\ Exit(3, <<CancelledEarly>>)

---------------------------------------------------------------------------
(* The verb's call *)

BeginVerb ==
  /\ x_pc = "verb"
  /\ CASE x_verb = "Scan"     -> Begin("scan", "Scan", 0)
       [] x_verb = "Shutdown" -> Begin("shutdown", "Shutdown", 0)
       [] OTHER               -> Begin("rpc", x_verb, 0)
  /\ x_pc' = "call"
  /\ x_warned' = (EventSet /\ x_verb # "Shutdown")
  /\ UNCHANGED <<lvars, invocation, ctrl, x_looked, x_out, x_exit>>

\* send_command_interruptible and the scan's loop look at the event and
\* then peek; cancel_request and shutdown only peek.
Looks == c_pc \in {"rpc", "scan"}

Look ==
  /\ Looks /\ ~x_looked
  /\ \/ /\ ~EventSet \/ c_cancel_sent
        /\ UNCHANGED evars
     \/ EventSet /\ ScanSendsCancel
  /\ x_looked' = TRUE
  /\ UNCHANGED <<lvars, invocation, x_pc, x_warned, x_out, x_exit, ctrl>>

\* The scan's Cancel finds the engine gone.
CancelFails ==
  /\ ~x_looked /\ EventSet
  /\ ScanCancelFails
  /\ UNCHANGED <<lvars, invocation, run, ctrl>>

\* The event ends an RPC, the 2 s deadline a cancelled scan, the 3 s deadline
\* a cancel_request.
CallGivesUp ==
  /\ \/ c_pc = "rpc" /\ ~x_looked /\ EventSet /\ RpcGivesUp
     \/ c_pc = "cancel" /\ RpcGivesUp
     \/ ~x_looked /\ ScanDeadline
  /\ UNCHANGED <<lvars, invocation, run, ctrl>>

Peek ==
  /\ Looks => x_looked
  /\ c_pc \notin {"free", "closed"}
  /\ \/ Poll
     \/ ~FrameWaiting /\ e_pc # "ended" /\ UNCHANGED evars
  /\ x_looked' = FALSE
  /\ x_out' = IF x_ndjson /\ c_last_seq' > c_last_seq
              THEN Append(x_out, Document("progress", c_last_seq'))
              ELSE x_out
  /\ UNCHANGED <<lvars, invocation, x_pc, x_warned, x_exit, ctrl>>

CallReturned == x_pc = "call" /\ c_pc = "free"

---------------------------------------------------------------------------
(* Settlement *)

\* handle_rpc_result: the answer must be of the verb's kind.
AnswersVerb(frame) ==
  frame.kind = IF x_verb = "DelayedPing" THEN "Ping" ELSE x_verb

SettleRpc ==
  /\ CallReturned /\ x_verb \in {"Ping", "DelayedPing", "Status"}
  /\ CASE c_return.what = "GaveUp" ->
            Started(Begin("cancel", "Cancel", 0), "cancel")
       [] c_return.what = "Response" /\ AnswersVerb(c_return.frame) ->
            Exit(0, <<Document("result", 0)>>)
       [] OTHER -> Exit(1, <<Document("error", 0)>>)

SettleCancelledRpc ==
  /\ x_pc = "cancel" /\ c_pc = "free"
  /\ Exit(3, <<Document("cancelled", 0)>>)

\* shutdown() is Ok whatever its call returned.
SettleShutdown ==
  /\ CallReturned /\ x_verb = "Shutdown"
  /\ Exit(0, <<Document("result", 0)>>)

\* scope_coverage of the engine's answer: Partial unless a finished graph has
\* no gaps, and Indeterminate without a graph.
Coverages(frame) ==
  IF settled_scan # frame.id THEN {"Indeterminate"}
  ELSE IF frame.val = "Finished" THEN {"Complete", "Partial"}
  ELSE {"Partial"}

\* Mutant: the outcome is not looked at.
ExitCode_CoverageOnly(what, outcome, coverage) ==
  IF what = "Cancelled" THEN 3
  ELSE IF coverage = "Partial" THEN 4
  ELSE 0

\* settle_scan_response.
ExitCode(what, outcome, coverage) ==
  IF what = "Cancelled" THEN 3
  ELSE IF coverage = "Partial" THEN 4
  ELSE IF outcome = "Failed" THEN 1
  ELSE 0

\* A scan prints its last document and then shuts the engine down.
PrintAndShutdown(code, document) ==
  /\ CallShutdown
  /\ x_pc' = "shutdown"
  /\ x_exit' = code
  /\ x_out' = Append(x_out, document)
  /\ UNCHANGED <<lvars, invocation, ctrl, x_looked, x_warned>>

SettleScanCall ==
  /\ CallReturned /\ x_verb = "Scan"
  /\ \/ /\ c_return.what \in {"Finished", "Cancelled"}
        /\ \E coverage \in Coverages(c_return.frame) :
             PrintAndShutdown(
               ExitCode(c_return.what, c_return.frame.val, coverage),
               Document("result", TerminalSeq))
     \/ /\ c_return.what = "GaveUp"
        /\ PrintAndShutdown(3, Document("cancelled", TerminalSeq))
     \/ /\ c_return.what = "CommandError"
        /\ PrintAndShutdown(2, Document("error", 0))
     \/ /\ c_return.what \in {"Protocol", "Disconnected"}
        /\ PrintAndShutdown(1, Document("error", 0))

AfterShutdown ==
  /\ x_pc = "shutdown" /\ c_pc = "free"
  /\ Exit(x_exit, <<>>)

---------------------------------------------------------------------------
CliStep ==
  \/ ParseArguments \/ BeforeLaunch \/ LaunchFailed \/ LaunchDone
  \/ ShutdownEarly \/ SettleEarly
  \/ BeginVerb \/ Look \/ CancelFails \/ Peek
  \/ SettleRpc \/ SettleCancelledRpc \/ SettleShutdown
  \/ SettleScanCall \/ AfterShutdown

\* The engine of a session that is up.
EngineRuns(step) ==
  /\ l_pc = "up"
  /\ step
  /\ UNCHANGED <<lvars, invocation, run, ctrl>>

XNext ==
  \/ CtrlC \/ CliStep \/ CallGivesUp \/ CliKilled
  \/ Launch(LaunchNext)
  \/ EngineRuns((EngineStep \/ RunnerProgress \/ RunnerReturns)
                  /\ UNCHANGED cvars)
  \/ EngineRuns(EngineDies)

\* The three processes are scheduled and five seconds pass.  A Ctrl-C, a
\* deadline or a death is never owed: an RPC ends by its answer.
XFairness ==
  /\ WF_xvars(CliStep)
  /\ WF_xvars(Launch(LauncherStep))
  /\ SF_xvars(Launch(ConnectTimesOut))
  /\ WF_xvars(Launch(EngineLaunchStep))
  /\ WF_xvars(EngineRuns(EngineStep /\ UNCHANGED cvars))
  /\ WF_xvars(EngineRuns(RunnerReturns /\ UNCHANGED cvars))
  /\ WF_xvars(c_pc = "rpc" /\ CallGivesUp)

XSpec == XInit /\ [][XNext]_xvars /\ XFairness

---------------------------------------------------------------------------
(* Properties *)

\* "terminating with a final terminal_result envelope" (ADR-0003): whatever
\* is cancelled, lost or killed and when, stdout is progress events with
\* rising numbers, then at most one terminal document whose number, where it
\* has one, is above them all; an invocation that exits has printed it.
StdoutContract ==
  /\ \A k \in 1..Len(x_out) :
       /\ x_out[k].kind = "progress" <=> k < Len(x_out) \/ x_exit = None
       /\ x_out[k].seq # 0 =>
            \A m \in 1..(k - 1) : x_out[m].seq < x_out[k].seq
  /\ x_pc = "exited" => x_out # <<>> /\ x_exit # None

ScanAnswer(outcome) ==
  \E k \in 1..Len(outbox) :
    outbox[k] = Response("Scan", 1, outcome)

\* The exit code is true of what happened in the engine and at the keyboard:
\* 0 for a verb that was called means the engine's own answer arrived, for a
\* scan that it finished and its graph is the engine's; 3 means somebody
\* pressed Ctrl-C; and a Ctrl-C seen before the request was sent never ends
\* as a success.
ExitJustified ==
  x_pc = "exited" =>
    /\ x_exit = 0 /\ requests # <<>> /\ x_verb = "Scan" =>
         ScanAnswer("Finished") /\ settled_scan = 1
    /\ x_exit = 0 /\ requests # <<>> /\ x_verb \notin {"Scan", "Shutdown"} =>
         \E k \in 1..Len(outbox) : outbox[k].id = 1 /\ AnswersVerb(outbox[k])
    /\ x_exit = 3 => CANCELLED
    /\ x_warned => x_exit \in {1, 2, 3}

\* Every invocation comes to an end: also when its Ctrl-C crosses the answer,
\* when the engine dies in the launch, in a call or before its Shutdown is
\* answered, or when a frame left over from the scan is taken for the answer
\* to the Shutdown.
InvocationEnds == <>(x_pc \in Over)

\* "Operation finished, but policy-significant Coverage Gaps or incomplete
\* observations are present" (exit class 4 of ADR-0003).
GapsMeanFinished ==
  x_pc = "exited" /\ x_exit = 4 => ScanAnswer("Finished")
=============================================================================
