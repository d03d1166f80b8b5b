--------------------------- MODULE SessionLaunch ---------------------------
(***************************************************************************)
(* How a private session begins: EngineClientSession::launch (client.rs,   *)
(* bootstrap.rs, job.rs) in the launching process, main and                *)
(* EngineServerSession::accept (server.rs) in the engine, and the one      *)
(* instance of the named pipe between them (pipe.rs).                      *)
(*                                                                         *)
(* Every Win32 call may fail.  Either process may die at any moment.  The  *)
(* pipe's name is visible to other processes: one of them may have a pipe  *)
(* of that name already, or open the engine's before the launcher does.    *)
(* Nonces stay inside the two processes: a handshake is "valid" when it    *)
(* carries the bootstrap nonce and the sender's pid, and the channel key   *)
(* is named by the process whose client nonce went into it.                *)
(***************************************************************************)
EXTENDS Naturals

VARIABLES
  l_pc,        \* the launcher's place in launch(), or how it ended
  p,           \* the engine process
  contained,   \* the engine process was assigned to the job object
  pipe,        \* who holds the client end of the pipe instance, see Pipes
  to_engine,   \* handshake request under way
  to_launcher, \* handshake response under way
  key          \* whose nonce is in the engine's channel key

lvars == <<l_pc, p, contained, pipe, to_engine, to_launcher, key>>

LaunchSteps == {"job", "bootstrap", "create", "assign", "resume", "time",
          "connect", "retry", "peer", "send", "recv"}
LaunchOver == {"up", "failed", "dead", "closed"}

\* "suspended" until ResumeThread; "flush" waits for a refusal to be read.
Executing == {"nonce", "bind", "accept", "identify", "handshake", "flush",
            "serve"}
Processes == {"none", "suspended", "ended"} \union Executing

\* "listening": no client.  "left": the client closed its end.  "broken": the
\* engine did.  "foreign": another process serves a pipe of this name.
Pipes == {"none", "listening", "launcher", "other", "left", "broken",
          "foreign"}

LInit ==
  /\ l_pc = "job"
  /\ p = "none"
  /\ contained = FALSE
  /\ pipe \in {"none", "foreign"}
  /\ to_engine = "none"
  /\ to_launcher = "none"
  /\ key = "none"

---------------------------------------------------------------------------
(* The end of a process *)

\* The engine's end of the pipe goes with it.
WithoutServer(instance) ==
  CASE instance = "launcher" -> "broken"
    [] instance = "foreign"  -> "foreign"
    [] OTHER                 -> "none"

EngineEnds ==
  /\ p' = "ended"
  /\ pipe' = WithoutServer(pipe)

\* Mutant: the job is not KILL_ON_JOB_CLOSE.
CloseJob_KeepsProcesses == UNCHANGED <<p, pipe>>

\* The last handle of the job object is closed, by drop or by the death of
\* its owner: the processes in it are killed.
CloseJob ==
  IF contained THEN EngineEnds ELSE UNCHANGED <<p, pipe>>

\* An error returns from launch.  spawn_engine terminates the child itself
\* from CreateProcess on; afterwards dropping the job object ends it also
\* where terminate is not called.
FailLaunch ==
  /\ l_pc' = "failed"
  /\ IF l_pc \in {"assign", "resume", "time"} THEN EngineEnds ELSE CloseJob
  /\ UNCHANGED <<contained, to_engine, to_launcher, key>>

LauncherDies ==
  /\ l_pc \in LaunchSteps
  /\ l_pc' = "dead"
  /\ CloseJob
  /\ UNCHANGED <<contained, to_engine, to_launcher, key>>

\* A session that was up is dropped, or its launcher dies.
SessionDropped ==
  /\ l_pc = "up"
  /\ l_pc' = "closed"
  /\ CloseJob
  /\ UNCHANGED <<contained, to_engine, to_launcher, key>>

---------------------------------------------------------------------------
(* The launcher *)

LStep(at, next) == l_pc = at /\ l_pc' = next

\* create_kill_on_close; then the bootstrap pipe with the nonce in it.
PrepareLaunch ==
  /\ LStep("job", "bootstrap") \/ LStep("bootstrap", "create")
  /\ UNCHANGED <<p, contained, pipe, to_engine, to_launcher, key>>

CreateEngine ==
  /\ LStep("create", "assign")
  /\ p' = "suspended"
  /\ UNCHANGED <<contained, pipe, to_engine, to_launcher, key>>

AssignEngine ==
  /\ LStep("assign", "resume")
  /\ contained' = TRUE
  /\ UNCHANGED <<p, pipe, to_engine, to_launcher, key>>

ResumeEngine ==
  /\ LStep("resume", "time")
  /\ p' = "nonce"
  /\ UNCHANGED <<contained, pipe, to_engine, to_launcher, key>>

ReadCreationTime ==
  /\ LStep("time", "connect")
  /\ UNCHANGED <<p, contained, pipe, to_engine, to_launcher, key>>

\* NamedPipeClient::connect: the instance is opened if it is free ...
OpenPipe ==
  /\ pipe \in {"listening", "foreign"}
  /\ LStep("connect", "peer")
  /\ pipe' = IF pipe = "listening" THEN "launcher" ELSE pipe
  /\ UNCHANGED <<p, contained, to_engine, to_launcher, key>>

\* ... and tried again while it is not there or busy, for five seconds.
PipeNotReady ==
  /\ pipe # "listening"
  /\ LStep("connect", "retry")
  /\ UNCHANGED <<p, contained, pipe, to_engine, to_launcher, key>>

ConnectAgain ==
  /\ LStep("retry", "connect")
  /\ UNCHANGED <<p, contained, pipe, to_engine, to_launcher, key>>

ConnectTimesOut == l_pc = "retry" /\ FailLaunch

\* GetNamedPipeServerProcessId is compared with the child's pid.
VerifyServer ==
  /\ l_pc = "peer"
  /\ IF pipe = "foreign"
     THEN FailLaunch
     ELSE /\ l_pc' = "send"
          /\ UNCHANGED <<p, contained, pipe, to_engine, to_launcher, key>>

SendHandshake ==
  /\ l_pc = "send"
  /\ IF pipe = "broken"
     THEN FailLaunch
     ELSE /\ l_pc' = "recv"
          /\ to_engine' = "valid"
          /\ UNCHANGED <<p, contained, pipe, to_launcher, key>>

\* The response must be status 0, from the child's pid, with the key this
\* launch's nonces give.  There is no time limit on it.
ReceiveResponse ==
  /\ l_pc = "recv"
  /\ \/ to_launcher # "none"
     \/ pipe = "broken"
  /\ to_launcher' = "none"
  /\ IF to_launcher = "launcher"
     THEN l_pc' = "up" /\ UNCHANGED <<p, contained, pipe, to_engine, key>>
     ELSE /\ l_pc' = "failed"
          /\ CloseJob
          /\ UNCHANGED <<contained, to_engine, key>>

\* Any other call of launch that fails.
LaunchCallFails ==
  /\ l_pc \in LaunchSteps \ {"retry", "recv"}
  /\ FailLaunch

---------------------------------------------------------------------------
(* The engine *)

ReadNonce ==
  /\ p = "nonce"
  /\ p' = "bind"
  /\ UNCHANGED <<l_pc, contained, pipe, to_engine, to_launcher, key>>

\* FILE_FLAG_FIRST_PIPE_INSTANCE, one instance.
BindPipe ==
  /\ p = "bind"
  /\ IF pipe = "foreign"
     THEN EngineEnds
     ELSE p' = "accept" /\ pipe' = "listening"
  /\ UNCHANGED <<l_pc, contained, to_engine, to_launcher, key>>

\* A client that is there, or was there when the wait ended.
AcceptClient ==
  /\ p = "accept"
  /\ pipe \in {"launcher", "other", "left"}
  /\ p' = "identify"
  /\ UNCHANGED <<l_pc, contained, pipe, to_engine, to_launcher, key>>

\* After ten seconds, also as a client connects.
AcceptTimesOut ==
  /\ p = "accept"
  /\ EngineEnds
  /\ UNCHANGED <<l_pc, contained, to_engine, to_launcher, key>>

\* get_client_pid and get_client_session_id.
IdentifyClient ==
  /\ p = "identify"
  /\ p' = "handshake"
  /\ UNCHANGED <<l_pc, contained, pipe, to_engine, to_launcher, key>>

\* Mutant: the request's nonce and pid are not compared.
Authentic_Any(request) == request # "none"

Authentic(request) == request = "valid"

\* A valid request is answered with the key; if that cannot be sent the
\* engine ends.
GrantHandshake ==
  /\ p = "handshake"
  /\ Authentic(to_engine)
  /\ to_engine' = "none"
  /\ IF pipe = "left"
     THEN EngineEnds /\ UNCHANGED <<to_launcher, key>>
     ELSE /\ p' = "serve"
          /\ to_launcher' = pipe
          /\ key' = pipe
          /\ UNCHANGED pipe
  /\ UNCHANGED <<l_pc, contained>>

\* A request with another nonce or pid is refused, one that cannot be read
\* ends the engine at once.
RefuseHandshake ==
  /\ p = "handshake"
  /\ to_engine # "none" /\ ~Authentic(to_engine)
  /\ to_engine' = "none"
  /\ \/ p' = "flush" /\ to_launcher' = "refused" /\ UNCHANGED pipe
     \/ EngineEnds /\ UNCHANGED to_launcher
  /\ UNCHANGED <<l_pc, contained, key>>

\* FlushFileBuffers returns when the client has read, or left.
RefusalFlushed ==
  /\ p = "flush"
  /\ to_launcher = "none" \/ pipe = "left"
  /\ EngineEnds
  /\ to_launcher' = "none"
  /\ UNCHANGED <<l_pc, contained, to_engine, key>>

\* End of file instead of a request.
HandshakeEof ==
  /\ p = "handshake"
  /\ to_engine = "none" /\ pipe = "left"
  /\ EngineEnds
  /\ UNCHANGED <<l_pc, contained, to_engine, to_launcher, key>>

\* A call of the engine fails, or the process is killed.
EngineDown ==
  /\ p \in Executing
  /\ EngineEnds
  /\ UNCHANGED <<l_pc, contained, to_engine, to_launcher, key>>

---------------------------------------------------------------------------
(* Another process *)

OtherConnects ==
  /\ pipe = "listening"
  /\ pipe' = "other"
  /\ UNCHANGED <<l_pc, p, contained, to_engine, to_launcher, key>>

\* It sends something, and it may read the answer, or leave.
OtherSends ==
  /\ pipe = "other"
  /\ p \in {"accept", "identify", "handshake"} /\ to_engine = "none"
  /\ to_engine' = "invalid"
  /\ UNCHANGED <<l_pc, p, contained, pipe, to_launcher, key>>

OtherReads ==
  /\ pipe = "other"
  /\ to_launcher # "none"
  /\ to_launcher' = "none"
  /\ UNCHANGED <<l_pc, p, contained, pipe, to_engine, key>>

OtherLeaves ==
  /\ pipe = "other"
  /\ pipe' = "left"
  /\ UNCHANGED <<l_pc, p, contained, to_engine, to_launcher, key>>

---------------------------------------------------------------------------
LauncherStep ==
  \/ PrepareLaunch \/ CreateEngine \/ AssignEngine \/ ResumeEngine
  \/ ReadCreationTime \/ OpenPipe \/ PipeNotReady \/ ConnectAgain
  \/ VerifyServer \/ SendHandshake \/ ReceiveResponse \/ LaunchCallFails

EngineLaunchStep ==
  \/ ReadNonce \/ BindPipe \/ AcceptClient \/ AcceptTimesOut
  \/ IdentifyClient \/ GrantHandshake \/ RefuseHandshake \/ RefusalFlushed
  \/ HandshakeEof

OtherStep == OtherConnects \/ OtherSends \/ OtherReads \/ OtherLeaves

\* What may happen while the launcher lives.
LaunchNext ==
  \/ LauncherStep \/ ConnectTimesOut
  \/ EngineLaunchStep \/ EngineDown
  \/ OtherStep

LNext == LaunchNext \/ LauncherDies \/ SessionDropped

LSpec == LInit /\ [][LNext]_lvars

---------------------------------------------------------------------------
(* Properties *)

LTypeOK ==
  /\ l_pc \in LaunchSteps \union LaunchOver
  /\ p \in Processes
  /\ contained \in BOOLEAN
  /\ pipe \in Pipes
  /\ to_engine \in {"none", "valid", "invalid"}
  /\ to_launcher \in {"none", "launcher", "other", "left", "refused"}
  /\ key \in {"none", "launcher", "other"}

JobOpen == l_pc \in (LaunchSteps \ {"job"}) \union {"up"}

\* "Assign to Job Object before resuming to guarantee process cannot run
\* uncontained" (spawn_engine), with what it is for: an engine that runs is in
\* a job whose owner is alive, and an error anywhere in launch leaves no engine
\* at all.  Only a launcher that is killed before the assignment leaves one
\* behind, and that one never runs.
RunsContained ==
  /\ p \in Executing => contained /\ JobOpen
  /\ l_pc \in {"failed", "closed"} => p \in {"none", "ended"}
  /\ l_pc = "dead" => p \in {"none", "ended", "suspended"}

\* Whoever connects first, and whatever dies, the engine serves its own
\* launcher or nobody, a session that is up has the engine it started at the
\* other end, and both derived their key from this launch's nonces (the pid,
\* nonce and key comparisons of launch and accept).
PeersAgree ==
  /\ p = "serve" => pipe = "launcher" /\ key = "launcher"
  /\ l_pc = "up" => pipe \in {"launcher", "broken"} /\ key = "launcher"
  /\ to_launcher = "launcher" => l_pc \in {"recv", "failed", "dead"}
=============================================================================
