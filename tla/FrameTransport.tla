--------------------------- MODULE FrameTransport ---------------------------
(***************************************************************************)
(* Frames on their way from the desktop client to the engine.  The tasks   *)
(* of the client write under a lock and may be cancelled between two bytes *)
(* (SendFrameAsync, FrameCodec.cs), the pipe delivers a frame in pieces,   *)
(* and the engine peeks for a whole frame before it reads one (pipe.rs,    *)
(* frame.rs and the three loops of main.rs).  When the application exits,  *)
(* its UI thread waits for one last frame to be sent (DisposeResources,    *)
(* App.xaml.cs) before it disposes the session.                            *)
(*                                                                         *)
(* A byte is <<frame, place>>, so that bytes of two frames mixed together  *)
(* can be told from a frame.  The checksum is taken to tell them apart as  *)
(* well.  Frame sequence numbers, which no reader compares, are left out.  *)
(***************************************************************************)
EXTENDS Integers, Sequences

CONSTANTS
  Payloads,         \* payload length of each frame, by number
  MAX_PAYLOAD_SIZE,
  PartialLimit,     \* ticks in 250 ms
  None

ASSUME PayloadsAssumption == Payloads \in Seq(Nat) \ {<<>>}
ASSUME LimitsAssumption == MAX_PAYLOAD_SIZE \in Nat /\ PartialLimit \in Nat
ASSUME NoneAssumption ==
  None \notin Nat /\ None \notin {"closed", "corrupt", "partial"}

Frames == DOMAIN Payloads

\* The frame of ShutdownAsync.
Shutdown == Len(Payloads)

\* 20 and 4 bytes in the code; what counts is that a header can be torn.
HEADER_SIZE == 2
CRC_SIZE == 1
FrameSize(payload) == HEADER_SIZE + payload + CRC_SIZE

VARIABLES
  w,             \* how far the task that sends each frame is
  sent,          \* bytes of each frame that were written
  started,       \* history: frames in the order of their first bytes
  exiting,       \* the UI thread is in DisposeResources
  closed,        \* the client closed its end
  pipe,          \* bytes written and not read
  e_loop,        \* the engine's loop: "idle", "busy" (delay or scan), "ended"
  partial_start, \* ticks since a partial frame was first seen, or None
  age,           \* history: ticks the frame at the head has been partial
  delivered,     \* history: the byte strings recv_command decoded
  reason         \* history: why the engine left

writers == <<w, sent, started, exiting, closed>>
reader == <<e_loop, partial_start, delivered, reason>>
fvars == <<writers, pipe, reader, age>>

encode_frame(f) == [k \in 1..FrameSize(Payloads[f]) |-> <<f, k>>]

FInit ==
  /\ w = [f \in Frames |-> "new"]
  /\ sent = [f \in Frames |-> 0]
  /\ started = <<>>
  /\ exiting = FALSE
  /\ closed = FALSE
  /\ pipe = <<>>
  /\ e_loop = "idle"
  /\ partial_start = None
  /\ age = 0
  /\ delivered = <<>>
  /\ reason = None

---------------------------------------------------------------------------
(* The client *)

BeginSend(f) ==
  /\ w[f] = "new" /\ ~closed
  /\ f # Shutdown
  /\ w' = [w EXCEPT ![f] = "waiting"]
  /\ UNCHANGED <<sent, started, exiting, closed, pipe, reader, age>>

LockFree == \A f \in Frames : w[f] # "writing"

\* A payload that is too large is refused before a byte is written.
AcquireLock(f) ==
  /\ w[f] = "waiting" /\ ~closed
  /\ LockFree
  /\ w' = [w EXCEPT ![f] =
             IF Payloads[f] > MAX_PAYLOAD_SIZE THEN "refused" ELSE "writing"]
  /\ UNCHANGED <<sent, started, exiting, closed, pipe, reader, age>>

\* One write of the caller may arrive in pieces.
WritePiece(f) ==
  /\ w[f] = "writing" /\ ~closed
  /\ \E upto \in (sent[f] + 1)..Len(encode_frame(f)) :
       /\ pipe' = pipe \o SubSeq(encode_frame(f), sent[f] + 1, upto)
       /\ sent' = [sent EXCEPT ![f] = upto]
       /\ w' = IF upto = Len(encode_frame(f))
               THEN [w EXCEPT ![f] = "written"] ELSE w
  /\ started' = IF sent[f] = 0 THEN Append(started, f) ELSE started
  /\ UNCHANGED <<exiting, closed, reader, age>>

\* Mutant: the wait for the lock does not look at the token.
Cancellable_WriteOnly == {"writing"}

Cancellable == {"waiting", "writing"}

\* The token ends the wait for the lock or the write, which may also fail;
\* the lock is released.
CancelSend(f) ==
  /\ w[f] \in Cancellable
  /\ w' = [w EXCEPT ![f] = "cut"]
  /\ UNCHANGED <<sent, started, exiting, closed, pipe, reader, age>>

\* OnExit: ShutdownAsync is called with a token of 500 ms and waited for on
\* the UI thread; the continuations of the other sends do not need it.
BeginExit ==
  /\ ~exiting /\ ~closed
  /\ exiting' = TRUE
  /\ w' = [w EXCEPT ![Shutdown] = "waiting"]
  /\ UNCHANGED <<sent, started, closed, pipe, reader, age>>

CloseClient ==
  /\ ~closed
  /\ closed' = TRUE
  /\ UNCHANGED <<w, sent, started, exiting, pipe, reader, age>>

\* The session is disposed once the send has ended somehow.
Dispose ==
  /\ exiting
  /\ w[Shutdown] \in {"written", "refused", "cut"}
  /\ CloseClient

\* The process dies, or has a session that is disposed without a shutdown:
\* DisposeAsync sets _disposed before it calls ShutdownAsync.
ClientDies == CloseClient

---------------------------------------------------------------------------
(* peek_frame_readiness *)

\* The sizes the header at the head of the pipe may announce: that of its
\* frame, or for bytes of two frames anything, also a field that is refused.
ClaimedSizes ==
  LET header == SubSeq(pipe, 1, HEADER_SIZE)
      whole == {f \in Frames : header = SubSeq(encode_frame(f), 1, HEADER_SIZE)}
  IN IF whole # {}
     THEN {FrameSize(Payloads[f]) : f \in whole}
     ELSE {FrameSize(payload) : payload \in 0..MAX_PAYLOAD_SIZE} \union {None}

\* A broken pipe still gives what was written before it broke.
PeekedEmpty == pipe = <<>> /\ ~closed

PeekedPartial ==
  /\ pipe # <<>>
  /\ \/ Len(pipe) < HEADER_SIZE
     \/ /\ Len(pipe) >= HEADER_SIZE
        /\ \E size \in ClaimedSizes \ {None} : Len(pipe) < size

PeekedError ==
  \/ pipe = <<>> /\ closed
  \/ Len(pipe) >= HEADER_SIZE /\ None \in ClaimedSizes

---------------------------------------------------------------------------
(* The engine *)

EndEngine(why) ==
  /\ e_loop' = "ended"
  /\ reason' = why
  /\ UNCHANGED <<partial_start, delivered>>

PollEmpty ==
  /\ e_loop # "ended"
  /\ PeekedEmpty
  /\ partial_start' = None
  /\ UNCHANGED <<writers, pipe, e_loop, delivered, reason, age>>

\* Mutant: every look at a partial frame starts its clock again.
Overdue_Never == FALSE

Overdue == partial_start = PartialLimit

PollPartial ==
  /\ e_loop # "ended"
  /\ PeekedPartial
  /\ IF partial_start = None
     THEN partial_start' = 0 /\ UNCHANGED <<e_loop, delivered, reason>>
     ELSE Overdue /\ EndEngine("partial")
  /\ UNCHANGED <<writers, pipe, age>>

PollError ==
  /\ e_loop # "ended"
  /\ PeekedError
  /\ EndEngine(IF pipe = <<>> THEN "closed" ELSE "corrupt")
  /\ UNCHANGED <<writers, pipe, age>>

\* Mutant: the checksum is not compared.
Intact_Unchecked(bytes) == TRUE

\* The checksum fits.
Intact(bytes) == \E f \in Frames : bytes = encode_frame(f)

\* Mutant: the clock of an earlier partial frame goes on.
ClockAfterFrame_Kept == partial_start

ClockAfterFrame == None

\* A whole frame is read and its command handled, which may begin a delay or
\* a scan, whose loop has a clock of its own.
PollComplete ==
  /\ e_loop # "ended"
  /\ Len(pipe) >= HEADER_SIZE
  /\ \E size \in ClaimedSizes \ {None} :
       LET bytes == SubSeq(pipe, 1, size) IN
       /\ Len(pipe) >= size
       /\ pipe' = SubSeq(pipe, size + 1, Len(pipe))
       /\ IF Intact(bytes)
          THEN /\ delivered' = Append(delivered, bytes)
               /\ partial_start' = ClockAfterFrame
               /\ e_loop' \in {e_loop, "busy"}
               /\ UNCHANGED reason
          ELSE EndEngine("corrupt")
  /\ age' = 0
  /\ UNCHANGED writers

\* The delay or the scan is over.
LeaveBusy ==
  /\ e_loop = "busy"
  /\ e_loop' = "idle"
  /\ partial_start' = None
  /\ UNCHANGED <<writers, pipe, delivered, reason, age>>

---------------------------------------------------------------------------
(* Time *)

OneMore(ticks) == IF ticks < PartialLimit THEN ticks + 1 ELSE ticks

Tick ==
  /\ e_loop # "ended"
  /\ partial_start' =
       IF partial_start = None THEN None ELSE OneMore(partial_start)
  /\ age' = IF PeekedPartial THEN OneMore(age) ELSE age
  /\ UNCHANGED <<writers, pipe, e_loop, delivered, reason>>

EngineLooks == PollEmpty \/ PollPartial \/ PollError \/ PollComplete

FNext ==
  \/ \E f \in Frames :
       BeginSend(f) \/ AcquireLock(f) \/ WritePiece(f) \/ CancelSend(f)
  \/ BeginExit \/ Dispose \/ ClientDies
  \/ EngineLooks \/ LeaveBusy
  \/ Tick

\* The engine keeps polling, a delay or a scan ends and time passes, also for
\* the token of the last frame.  The client may stop anywhere else.
FSpec ==
  FInit /\ [][FNext]_fvars
    /\ WF_fvars(EngineLooks) /\ WF_fvars(LeaveBusy) /\ WF_fvars(Tick)
    /\ WF_fvars(CancelSend(Shutdown)) /\ WF_fvars(Dispose)

---------------------------------------------------------------------------
(* Properties *)

\* Whatever is cancelled, torn or late, the commands the engine decodes are
\* whole frames in the order in which they were begun, none twice and none
\* left out, and nothing after a frame that was cut.
DeliveredWhole ==
  /\ Len(delivered) <= Len(started)
  /\ \A k \in 1..Len(delivered) : delivered[k] = encode_frame(started[k])

Torn == \E f \in Frames : w[f] = "cut" /\ sent[f] > 0

\* The engine gives a client up for a frame that was cut, a pipe that was
\* closed, or one single frame that stayed partial for 250 ms, however many
\* slow frames came before it.
EndsForCause ==
  CASE reason = "closed"  -> closed
    [] reason = "corrupt" -> Torn
    [] reason = "partial" -> age = PartialLimit
    [] OTHER              -> e_loop # "ended"

\* An engine does not wait for ever: what is in the pipe is read to its end or
\* ends the engine, also the head of a frame that is never completed.
PatientNotForever == pipe # <<>> ~> pipe = <<>> \/ e_loop = "ended"

\* Exiting never hangs: the UI thread gets through DisposeResources also if
\* the lock is held by a write that never ends, because nobody reads.
ExitCompletes == exiting ~> closed
=============================================================================
