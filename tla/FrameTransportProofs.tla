------------------------ MODULE FrameTransportProofs ------------------------
(***************************************************************************)
(* Proofs about FrameTransport, for frames of any number and any sizes, a  *)
(* cancellation between any two bytes and delivery in any pieces.          *)
(*                                                                         *)
(* The invariant says what the pipe can hold while the engine still reads: *)
(* it begins with the first byte of the frame after the last one that was  *)
(* delivered, ends with the last byte that was written, and every byte is  *)
(* followed by the next of its frame, or, if its frame was written to here *)
(* and no further, by the first of the frame begun next (Follows).  Bytes  *)
(* that are no frame are then traced to a frame that was cut.              *)
(***************************************************************************)
EXTENDS FrameTransport, WellFoundedInduction, TLAPS

States == {"new", "waiting", "writing", "written", "refused", "cut"}
Bytes == Frames \X Nat

FTypes ==
  /\ w \in [Frames -> States]
  /\ sent \in [Frames -> Nat]
  /\ started \in Seq(Frames)
  /\ exiting \in BOOLEAN /\ closed \in BOOLEAN
  /\ pipe \in Seq(Bytes)
  /\ e_loop \in {"idle", "busy", "ended"}
  /\ partial_start \in (0..PartialLimit) \union {None}
  /\ age \in 0..PartialLimit
  /\ delivered \in Seq(Seq(Bytes))
  /\ reason \in {None, "closed", "corrupt", "partial"}

Size(f) == FrameSize(Payloads[f])

\* One frame is written at a time, and how much of it, is known from the
\* state of its task (SendFrameAsync).
Writers ==
  /\ ~exiting => w[Shutdown] = "new"
  /\ \A f \in Frames :
       /\ w[f] \in {"new", "waiting", "refused"} => sent[f] = 0
       /\ w[f] \in {"writing", "cut"} => sent[f] < Size(f)
       /\ w[f] = "written" => sent[f] = Size(f)
  /\ \A f, g \in Frames : w[f] = "writing" /\ w[g] = "writing" => f = g

\* Frames are begun one after the other, and only the last one goes on.
Order ==
  /\ \A i, j \in 1..Len(started) : started[i] = started[j] => i = j
  /\ \A f \in Frames :
       sent[f] > 0 <=> \E i \in 1..Len(started) : started[i] = f
  /\ \A i \in 1..Len(started) :
       w[started[i]] = "writing" => i = Len(started)

Follows(a, b) ==
  \/ b = <<a[1], a[2] + 1>>
  \/ \E i \in 1..(Len(started) - 1) :
       a = <<started[i], sent[started[i]]>> /\ b = <<started[i + 1], 1>>

DeliveredAre(n) ==
  \A k \in 1..n : delivered[k] = encode_frame(started[k])

Next1 == Len(delivered) + 1

\* What is in the pipe while the engine reads it.
PipeHolds ==
  /\ pipe = <<>> <=> Len(delivered) = Len(started)
  /\ \A k \in 1..Len(delivered) : w[started[k]] = "written"
  /\ pipe # <<>> =>
       /\ pipe[1] = <<started[Next1], 1>>
       /\ pipe[Len(pipe)] = <<started[Len(started)], sent[started[Len(started)]]>>
  /\ \A k \in 1..(Len(pipe) - 1) : Follows(pipe[k], pipe[k + 1])
  /\ \A k \in 1..Len(pipe) : pipe[k][2] <= Size(pipe[k][1])

Reading == e_loop # "ended" => PipeHolds

\* The clock of the engine never runs ahead of the frame it is about.
Clock ==
  e_loop # "ended" /\ partial_start # None =>
    pipe # <<>> /\ (PeekedPartial => partial_start <= age)

Cause == (e_loop = "ended" <=> reason # None) /\ EndsForCause

FInv == FTypes /\ Writers /\ Order /\ DeliveredWhole /\ Reading /\ Clock /\ Cause

---------------------------------------------------------------------------
(* Frames *)

LEMMA FramesFact ==
  /\ Frames = 1..Len(Payloads) /\ Len(Payloads) \in Nat \ {0}
  /\ Shutdown \in Frames
  /\ \A f \in Frames : Payloads[f] \in Nat /\ Size(f) \in Nat /\ Size(f) >= 3
BY PayloadsAssumption DEF Frames, Shutdown, Size, FrameSize, HEADER_SIZE, CRC_SIZE

LEMMA EncodeFact ==
  ASSUME NEW f \in Frames
  PROVE  /\ encode_frame(f) \in Seq(Bytes)
         /\ Len(encode_frame(f)) = Size(f)
         /\ \A k \in 1..Size(f) : encode_frame(f)[k] = <<f, k>>
<1>1. Size(f) \in Nat /\ encode_frame(f) = [k \in 1..Size(f) |-> <<f, k>>]
  BY FramesFact DEF encode_frame, Size
<1>2. \A k \in 1..Size(f) : <<f, k>> \in Bytes
  BY <1>1 DEF Bytes
<1>3. encode_frame(f) \in [1..Size(f) -> Bytes]
  BY <1>1, <1>2
<1> QED BY <1>1, <1>3

\* Byte 1 tells which frame it is.
LEMMA EncodeInjective ==
  ASSUME NEW f \in Frames, NEW g \in Frames,
         NEW n \in 1..3, SubSeq(encode_frame(f), 1, n) = SubSeq(encode_frame(g), 1, n)
  PROVE  f = g
<1>1. SubSeq(encode_frame(f), 1, n)[1] = <<f, 1>>
  BY EncodeFact, FramesFact
<1>2. SubSeq(encode_frame(g), 1, n)[1] = <<g, 1>>
  BY EncodeFact, FramesFact
<1> QED BY <1>1, <1>2

\* What one piece of a write appends.
LEMMA PieceFact ==
  ASSUME NEW f \in Frames, NEW s \in Nat, NEW upto \in (s + 1)..Len(encode_frame(f))
  PROVE  /\ SubSeq(encode_frame(f), s + 1, upto) \in Seq(Bytes)
         /\ Len(SubSeq(encode_frame(f), s + 1, upto)) = upto - s
         /\ \A k \in 1..(upto - s) :
              SubSeq(encode_frame(f), s + 1, upto)[k] = <<f, s + k>>
         /\ upto \in Nat /\ upto <= Size(f)
BY EncodeFact, FramesFact, SMTT(60)

---------------------------------------------------------------------------
(* The steps that write nothing *)

LEMMA PeekedPartialKept ==
  ASSUME pipe' = pipe
  PROVE  (PeekedPartial' <=> PeekedPartial) /\ (PeekedError => ClaimedSizes' = ClaimedSizes)
BY DEF PeekedPartial, ClaimedSizes

\* A step of the client that writes no byte, ends no frame that was written
\* and revives none that was cut.
LEMMA QuietStep ==
  ASSUME FInv,
         UNCHANGED <<sent, started, pipe, reader, age>>,
         w' \in [Frames -> States], exiting' \in BOOLEAN, closed' \in BOOLEAN,
         Writers',
         \A i \in 1..Len(started) : w'[started[i]] = "writing" => i = Len(started),
         \A f \in Frames : w[f] \in {"written", "cut"} => w'[f] = w[f],
         closed => closed'
  PROVE  FInv'
<1>0. FTypes /\ Order /\ DeliveredWhole /\ Reading /\ Clock /\ Cause
  BY DEF FInv
<1>1. FTypes'
  BY <1>0 DEF FTypes, reader
<1>2. Order'
  BY <1>0 DEF Order, reader
<1>3. DeliveredWhole'
  BY <1>0 DEF DeliveredWhole, reader
<1>4. Reading'
  <2>1. CASE e_loop = "ended"
    BY <2>1 DEF Reading, reader
  <2>2. CASE e_loop # "ended"
    <3>1. PipeHolds
      BY <1>0, <2>2 DEF Reading
    <3>2. \A k \in 1..Len(delivered) : w[started[k]] = "written"
      BY <3>1 DEF PipeHolds
    <3>3. \A k \in 1..Len(delivered) : started[k] \in Frames
      BY <1>0 DEF DeliveredWhole, FTypes
    <3>4. \A k \in 1..Len(delivered) : w'[started[k]] = "written"
      BY <3>2, <3>3
    <3>5. PipeHolds'
      BY <3>1, <3>4 DEF PipeHolds, Follows, Next1, reader
    <3> QED BY <3>5 DEF Reading
  <2> QED BY <2>1, <2>2
<1>5. Clock'
  BY <1>0, PeekedPartialKept DEF Clock, reader
<1>6. Torn => Torn'
  BY DEF Torn
<1>7. Cause'
  BY <1>0, <1>6, NoneAssumption DEF Cause, EndsForCause, reader, FTypes
<1> QED BY <1>1, <1>2, <1>3, <1>4, <1>5, <1>7 DEF FInv

LEMMA BeginSendKeeps ==
  ASSUME FInv, NEW f \in Frames, BeginSend(f)
  PROVE  FInv'
<1>0. FTypes /\ Writers /\ Order
  BY DEF FInv
<1>1. /\ w' = [w EXCEPT ![f] = "waiting"] /\ w[f] = "new" /\ f # Shutdown
      /\ UNCHANGED <<sent, started, exiting, closed, pipe, reader, age>>
  BY DEF BeginSend
<1>2. w' \in [Frames -> States]
  BY <1>0, <1>1 DEF FTypes, States
<1>3. \A g \in Frames : w'[g] = IF g = f THEN "waiting" ELSE w[g]
  BY <1>0, <1>1 DEF FTypes
<1>4. Writers'
  BY <1>0, <1>1, <1>3, FramesFact DEF Writers
<1>5. \A i \in 1..Len(started) : w'[started[i]] = "writing" => i = Len(started)
  BY <1>0, <1>3 DEF Order, FTypes
<1>6. exiting' \in BOOLEAN /\ closed' \in BOOLEAN /\ (closed => closed')
  BY <1>0, <1>1 DEF FTypes
<1>7. \A g \in Frames : w[g] \in {"written", "cut"} => w'[g] = w[g]
  BY <1>1, <1>3
<1> QED BY <1>1, <1>2, <1>4, <1>5, <1>6, <1>7, QuietStep

LEMMA AcquireLockKeeps ==
  ASSUME FInv, NEW f \in Frames, AcquireLock(f)
  PROVE  FInv'
<1>0. FTypes /\ Writers /\ Order
  BY DEF FInv
<1> DEFINE to == IF Payloads[f] > MAX_PAYLOAD_SIZE THEN "refused" ELSE "writing"
<1>1. /\ w' = [w EXCEPT ![f] = to] /\ w[f] = "waiting"
      /\ \A g \in Frames : w[g] # "writing"
      /\ UNCHANGED <<sent, started, exiting, closed, pipe, reader, age>>
  BY DEF AcquireLock, LockFree
<1>2. w' \in [Frames -> States] /\ to \in {"refused", "writing"}
  BY <1>0, <1>1 DEF FTypes, States
<1>3. \A g \in Frames : w'[g] = IF g = f THEN to ELSE w[g]
  BY <1>0, <1>1 DEF FTypes
<1>4. sent[f] = 0 /\ 0 < Size(f)
  BY <1>0, <1>1, FramesFact DEF Writers
<1> HIDE DEF to
<1>5. Writers'
  BY <1>0, <1>1, <1>2, <1>3, <1>4, FramesFact DEF Writers, Size
<1>6. \A i \in 1..Len(started) : started[i] # f
  BY <1>0, <1>4, SMTT(60) DEF Order, FTypes
<1>7. \A i \in 1..Len(started) : w'[started[i]] = "writing" => i = Len(started)
  <2> TAKE i \in 1..Len(started)
  <2>1. started[i] \in Frames /\ started[i] # f
    BY <1>0, <1>6 DEF FTypes
  <2> QED BY <1>1, <1>3, <2>1
<1>8. exiting' \in BOOLEAN /\ closed' \in BOOLEAN /\ (closed => closed')
  BY <1>0, <1>1 DEF FTypes
<1>9. \A g \in Frames : w[g] \in {"written", "cut"} => w'[g] = w[g]
  BY <1>1, <1>3
<1> QED BY <1>1, <1>2, <1>5, <1>7, <1>8, <1>9, QuietStep

LEMMA CancelSendKeeps ==
  ASSUME FInv, NEW f \in Frames, CancelSend(f)
  PROVE  FInv'
<1>0. FTypes /\ Writers /\ Order
  BY DEF FInv
<1>1. /\ w' = [w EXCEPT ![f] = "cut"] /\ w[f] \in {"waiting", "writing"}
      /\ UNCHANGED <<sent, started, exiting, closed, pipe, reader, age>>
  BY DEF CancelSend, Cancellable
<1>2. w' \in [Frames -> States]
  BY <1>0, <1>1 DEF FTypes, States
<1>3. \A g \in Frames : w'[g] = IF g = f THEN "cut" ELSE w[g]
  BY <1>0, <1>1 DEF FTypes
<1>4. Writers'
  BY <1>0, <1>1, <1>3, FramesFact DEF Writers, Size
<1>5. \A i \in 1..Len(started) : w'[started[i]] = "writing" => i = Len(started)
  BY <1>0, <1>3, SMTT(60) DEF Order, FTypes
<1>6. exiting' \in BOOLEAN /\ closed' \in BOOLEAN /\ (closed => closed')
  BY <1>0, <1>1 DEF FTypes
<1>7. \A g \in Frames : w[g] \in {"written", "cut"} => w'[g] = w[g]
  BY <1>1, <1>3
<1> QED BY <1>1, <1>2, <1>4, <1>5, <1>6, <1>7, QuietStep

LEMMA BeginExitKeeps ==
  ASSUME FInv, BeginExit
  PROVE  FInv'
<1>0. FTypes /\ Writers /\ Order
  BY DEF FInv
<1>1. /\ w' = [w EXCEPT ![Shutdown] = "waiting"] /\ exiting' = TRUE /\ ~exiting
      /\ UNCHANGED <<sent, started, closed, pipe, reader, age>>
  BY DEF BeginExit
<1>2. w' \in [Frames -> States]
  BY <1>0, <1>1 DEF FTypes, States
<1>3. \A g \in Frames : w'[g] = IF g = Shutdown THEN "waiting" ELSE w[g]
  BY <1>0, <1>1 DEF FTypes
<1>4. w[Shutdown] = "new"
  BY <1>0, <1>1 DEF Writers
<1>5. Writers'
  BY <1>0, <1>1, <1>3, <1>4, FramesFact DEF Writers, Size
<1>6. \A i \in 1..Len(started) : w'[started[i]] = "writing" => i = Len(started)
  BY <1>0, <1>3 DEF Order, FTypes
<1>7. exiting' \in BOOLEAN /\ closed' \in BOOLEAN /\ (closed => closed')
  BY <1>0, <1>1 DEF FTypes
<1>8. \A g \in Frames : w[g] \in {"written", "cut"} => w'[g] = w[g]
  BY <1>3, <1>4
<1> QED BY <1>1, <1>2, <1>5, <1>6, <1>7, <1>8, QuietStep

LEMMA CloseKeeps ==
  ASSUME FInv, CloseClient
  PROVE  FInv'
<1>0. FTypes /\ Writers /\ Order
  BY DEF FInv
<1>1. closed' = TRUE /\ UNCHANGED <<w, sent, started, exiting, pipe, reader, age>>
  BY DEF CloseClient
<1>2. Writers'
  BY <1>0, <1>1 DEF Writers, Size
<1>3. w' \in [Frames -> States] /\ exiting' \in BOOLEAN /\ closed' \in BOOLEAN
  BY <1>0, <1>1 DEF FTypes
<1>4. \A i \in 1..Len(started) : w'[started[i]] = "writing" => i = Len(started)
  BY <1>0, <1>1 DEF Order
<1>5. (\A g \in Frames : w[g] \in {"written", "cut"} => w'[g] = w[g]) /\ (closed => closed')
  BY <1>1
<1> QED BY <1>1, <1>2, <1>3, <1>4, <1>5, QuietStep

---------------------------------------------------------------------------
(* A piece of a frame *)

\* The bytes of f up to upto, in a sequence of their own.
Piece(f, upto) == SubSeq(encode_frame(f), sent[f] + 1, upto)

LEMMA WritePieceFacts ==
  ASSUME FInv, NEW f \in Frames, WritePiece(f),
         NEW upto, upto \in (sent[f] + 1)..Len(encode_frame(f)),
         pipe' = pipe \o Piece(f, upto),
         sent' = [sent EXCEPT ![f] = upto],
         w' = IF upto = Len(encode_frame(f)) THEN [w EXCEPT ![f] = "written"] ELSE w
  PROVE  /\ FTypes' /\ Writers'
         /\ Piece(f, upto) \in Seq(Bytes) /\ Len(Piece(f, upto)) = upto - sent[f]
         /\ \A k \in 1..(upto - sent[f]) : Piece(f, upto)[k] = <<f, sent[f] + k>>
         /\ upto \in Nat /\ sent[f] \in Nat /\ sent[f] < upto /\ upto <= Size(f)
         /\ \A g \in Frames : sent'[g] = IF g = f THEN upto ELSE sent[g]
         /\ \A g \in Frames :
              w'[g] = IF g = f /\ upto = Size(f) THEN "written" ELSE w[g]
         /\ w[f] = "writing"
<1>0. FTypes /\ Writers /\ Order
  BY DEF FInv
<1>1. /\ w[f] = "writing"
      /\ started' = IF sent[f] = 0 THEN Append(started, f) ELSE started
      /\ UNCHANGED <<exiting, closed, reader, age>>
  BY DEF WritePiece
<1>2. sent[f] \in Nat /\ Size(f) \in Nat /\ Len(encode_frame(f)) = Size(f)
  BY <1>0, EncodeFact, FramesFact DEF FTypes
<1>3. /\ Piece(f, upto) \in Seq(Bytes) /\ Len(Piece(f, upto)) = upto - sent[f]
      /\ \A k \in 1..(upto - sent[f]) : Piece(f, upto)[k] = <<f, sent[f] + k>>
      /\ upto \in Nat /\ upto <= Size(f) /\ sent[f] < upto
  <2>1. PICK s \in Nat : s = sent[f]
    BY <1>2
  <2>2. upto \in (s + 1)..Len(encode_frame(f)) /\ Piece(f, upto) = SubSeq(encode_frame(f), s + 1, upto)
    BY <2>1 DEF Piece
  <2>3. /\ SubSeq(encode_frame(f), s + 1, upto) \in Seq(Bytes)
        /\ Len(SubSeq(encode_frame(f), s + 1, upto)) = upto - s
        /\ \A k \in 1..(upto - s) :
             SubSeq(encode_frame(f), s + 1, upto)[k] = <<f, s + k>>
        /\ upto \in Nat /\ upto <= Size(f)
    BY <2>2, PieceFact
  <2>4. s < upto
    BY <1>2, <2>2
  <2> QED BY <2>1, <2>2, <2>3, <2>4
<1>4. \A g \in Frames : sent'[g] = IF g = f THEN upto ELSE sent[g]
  BY <1>0 DEF FTypes
<1>5. \A g \in Frames : w'[g] = IF g = f /\ upto = Size(f) THEN "written" ELSE w[g]
  BY <1>0, <1>2 DEF FTypes
<1>6. w' \in [Frames -> States] /\ sent' \in [Frames -> Nat]
  BY <1>0, <1>3 DEF FTypes, States
<1>7. pipe' \in Seq(Bytes) /\ started' \in Seq(Frames)
  BY <1>0, <1>1, <1>3 DEF FTypes
<1>8. FTypes'
  BY <1>0, <1>1, <1>6, <1>7 DEF FTypes, reader
<1>9. Writers'
  <2>1. f # Shutdown \/ exiting
    BY <1>0, <1>1 DEF Writers
  <2>2. ~exiting' => w'[Shutdown] = "new"
    BY <1>0, <1>1, <1>5, <2>1, FramesFact DEF Writers
  <2>3. \A g \in Frames :
           /\ w'[g] \in {"new", "waiting", "refused"} => sent'[g] = 0
           /\ w'[g] \in {"writing", "cut"} => sent'[g] < Size(g)
           /\ w'[g] = "written" => sent'[g] = Size(g)
    <3> TAKE g \in Frames
    <3>1. CASE g = f
      BY <1>1, <1>2, <1>3, <1>4, <1>5, <3>1, SMTT(60)
    <3>2. CASE g # f
      BY <1>0, <1>4, <1>5, <3>2 DEF Writers
    <3> QED BY <3>1, <3>2
  <2>4. \A g, h \in Frames : w'[g] = "writing" /\ w'[h] = "writing" => g = h
    BY <1>0, <1>5 DEF Writers
  <2> QED BY <2>2, <2>3, <2>4 DEF Writers, Size
<1> QED BY <1>1, <1>2, <1>3, <1>4, <1>5, <1>8, <1>9

\* A frame that is being written was begun last.
LEMMA WrittenIsLast ==
  ASSUME FInv, NEW f \in Frames, w[f] = "writing", sent[f] > 0
  PROVE  started # <<>> /\ f = started[Len(started)] /\ Len(started) \in Nat \ {0}
<1>0. Order /\ FTypes
  BY DEF FInv
<1>1. PICK i \in 1..Len(started) : started[i] = f
  BY <1>0 DEF Order
<1>2. i = Len(started)
  BY <1>0, <1>1 DEF Order
<1> QED BY <1>0, <1>1, <1>2 DEF FTypes

\* How the frames that were begun change with one piece.
StartedGrows(f) ==
  /\ started' \in Seq(Frames) /\ started' # <<>>
  /\ started'[Len(started')] = f
  /\ \A i \in 1..Len(started) : started'[i] = started[i]
  /\ Len(started') = IF sent[f] = 0 THEN Len(started) + 1 ELSE Len(started)
  /\ \A i \in 1..Len(started') : started'[i] = f <=> i = Len(started')

LEMMA WritePieceStarts ==
  ASSUME FInv, NEW f \in Frames, WritePiece(f)
  PROVE  StartedGrows(f)
<1>0. FTypes /\ Order
  BY DEF FInv
<1>1. /\ w[f] = "writing"
      /\ started' = IF sent[f] = 0 THEN Append(started, f) ELSE started
  BY DEF WritePiece
<1>2. sent[f] \in Nat /\ Len(started) \in Nat
  BY <1>0 DEF FTypes
<1>3. CASE sent[f] = 0
  <2>1. \A i \in 1..Len(started) : started[i] # f
    BY <1>0, <1>3 DEF Order
  <2>2. /\ started' \in Seq(Frames) /\ Len(started') = Len(started) + 1
        /\ \A i \in 1..Len(started) : started'[i] = started[i]
        /\ started'[Len(started) + 1] = f
    BY <1>0, <1>1, <1>3 DEF FTypes
  <2> QED BY <1>2, <1>3, <2>1, <2>2 DEF StartedGrows
<1>4. CASE sent[f] # 0
  <2>1. started # <<>> /\ f = started[Len(started)] /\ Len(started) \in Nat \ {0}
    BY <1>1, <1>2, <1>4, WrittenIsLast
  <2>2. \A i \in 1..Len(started) : started[i] = f => i = Len(started)
    BY <1>0, <1>1 DEF Order
  <2> QED BY <1>0, <1>1, <1>4, <2>1, <2>2 DEF StartedGrows, FTypes
<1> QED BY <1>3, <1>4

LEMMA WritePieceOrder ==
  ASSUME FInv, NEW f \in Frames, WritePiece(f)
  PROVE  Order'
<1>0. FTypes /\ Order
  BY DEF FInv
<1>1. PICK upto \in (sent[f] + 1)..Len(encode_frame(f)) :
        /\ pipe' = pipe \o Piece(f, upto)
        /\ sent' = [sent EXCEPT ![f] = upto]
        /\ w' = IF upto = Len(encode_frame(f)) THEN [w EXCEPT ![f] = "written"] ELSE w
  BY DEF WritePiece, Piece
<1>2. /\ \A g \in Frames : sent'[g] = IF g = f THEN upto ELSE sent[g]
      /\ \A g \in Frames :
           w'[g] = IF g = f /\ upto = Size(f) THEN "written" ELSE w[g]
      /\ upto \in Nat /\ sent[f] \in Nat /\ sent[f] < upto
      /\ w[f] = "writing"
  BY <1>1, WritePieceFacts, ZenonT(60)
<1>3. StartedGrows(f)
  BY WritePieceStarts
<1>4. Len(started) \in Nat /\ Len(started') \in Nat
  BY <1>0, <1>3 DEF FTypes, StartedGrows
<1>5. \A i, j \in 1..Len(started') : started'[i] = started'[j] => i = j
  <2> TAKE i, j \in 1..Len(started')
  <2> HAVE started'[i] = started'[j]
  <2>1. CASE started'[i] = f
    BY <1>3, <2>1 DEF StartedGrows
  <2>2. CASE started'[i] # f
    <3>1. i # Len(started') /\ j # Len(started')
      BY <1>3, <2>2 DEF StartedGrows
    <3>2. i \in 1..Len(started) /\ j \in 1..Len(started)
      BY <1>3, <1>4, <3>1 DEF StartedGrows
    <3> QED BY <1>0, <1>3, <3>2 DEF StartedGrows, Order
  <2> QED BY <2>1, <2>2
<1>6. \A g \in Frames : sent'[g] > 0 <=> \E i \in 1..Len(started') : started'[i] = g
  <2> TAKE g \in Frames
  <2>1. CASE g = f
    <3>1. sent'[g] > 0
      BY <1>2, <2>1
    <3>2. Len(started') \in 1..Len(started') /\ started'[Len(started')] = g
      BY <1>3, <1>4, <2>1 DEF StartedGrows
    <3> QED BY <3>1, <3>2
  <2>2. CASE g # f
    <3>1. sent'[g] = sent[g]
      BY <1>2, <2>2
    <3>2. ASSUME NEW i \in 1..Len(started'), started'[i] = g
          PROVE  \E j \in 1..Len(started) : started[j] = g
      <4>1. i # Len(started')
        BY <1>3, <2>2, <3>2 DEF StartedGrows
      <4>2. i \in 1..Len(started)
        BY <1>3, <1>4, <4>1 DEF StartedGrows
      <4> QED BY <1>3, <3>2, <4>2 DEF StartedGrows
    <3>3. ASSUME NEW i \in 1..Len(started), started[i] = g
          PROVE  \E j \in 1..Len(started') : started'[j] = g
      BY <1>3, <1>4, <3>3 DEF StartedGrows
    <3>4. sent[g] > 0 <=> \E i \in 1..Len(started) : started[i] = g
      BY <1>0 DEF Order
    <3> QED BY <3>1, <3>2, <3>3, <3>4
  <2> QED BY <2>1, <2>2
<1>7. \A i \in 1..Len(started') : w'[started'[i]] = "writing" => i = Len(started')
  <2> TAKE i \in 1..Len(started')
  <2> HAVE w'[started'[i]] = "writing"
  <2>1. started'[i] \in Frames
    BY <1>3 DEF StartedGrows
  <2>2. w[started'[i]] = "writing"
    BY <1>2, <2>1
  <2>3. started'[i] = f
    BY <1>2, <2>1, <2>2 DEF FInv, Writers
  <2> QED BY <1>3, <2>3 DEF StartedGrows
<1> QED BY <1>5, <1>6, <1>7 DEF Order

LEMMA WritePieceDelivered ==
  ASSUME FInv, NEW f \in Frames, WritePiece(f)
  PROVE  DeliveredWhole'
<1>0. FTypes /\ DeliveredWhole
  BY DEF FInv
<1>1. StartedGrows(f) /\ delivered' = delivered
  BY WritePieceStarts DEF WritePiece, reader
<1>2. Len(started) \in Nat /\ Len(delivered) \in Nat
  BY <1>0 DEF FTypes
<1>3. Len(delivered) <= Len(started')
  BY <1>0, <1>1, <1>2 DEF StartedGrows, DeliveredWhole
<1>4. \A k \in 1..Len(delivered) : delivered[k] = encode_frame(started'[k])
  BY <1>0, <1>1, <1>2, SMTT(60) DEF StartedGrows, DeliveredWhole
<1> QED BY <1>1, <1>3, <1>4 DEF DeliveredWhole

LEMMA WritePiecePipe ==
  ASSUME FInv, NEW f \in Frames, WritePiece(f), e_loop # "ended"
  PROVE  PipeHolds'
<1>0. FTypes /\ Order /\ DeliveredWhole /\ PipeHolds
  BY DEF FInv, Reading
<1>1. PICK upto \in (sent[f] + 1)..Len(encode_frame(f)) :
        /\ pipe' = pipe \o Piece(f, upto)
        /\ sent' = [sent EXCEPT ![f] = upto]
        /\ w' = IF upto = Len(encode_frame(f)) THEN [w EXCEPT ![f] = "written"] ELSE w
  BY DEF WritePiece, Piece
<1>2. /\ \A g \in Frames : sent'[g] = IF g = f THEN upto ELSE sent[g]
      /\ \A g \in Frames :
           w'[g] = IF g = f /\ upto = Size(f) THEN "written" ELSE w[g]
      /\ upto \in Nat /\ sent[f] \in Nat /\ sent[f] < upto /\ upto <= Size(f)
      /\ w[f] = "writing"
  BY <1>1, WritePieceFacts, ZenonT(60)
<1>3. /\ Piece(f, upto) \in Seq(Bytes) /\ Len(Piece(f, upto)) = upto - sent[f]
      /\ \A k \in 1..(upto - sent[f]) : Piece(f, upto)[k] = <<f, sent[f] + k>>
  BY <1>1, WritePieceFacts, ZenonT(60)
<1>4. StartedGrows(f) /\ delivered' = delivered
  BY WritePieceStarts DEF WritePiece, reader
<1> DEFINE L == Len(pipe)
           n == Len(delivered)
<1>5. /\ L \in Nat /\ n \in Nat /\ Len(started) \in Nat /\ Len(started') \in Nat
      /\ n <= Len(started) /\ Size(f) \in Nat
  <2>1. started \in Seq(Frames) /\ pipe \in Seq(Bytes) /\ delivered \in Seq(Seq(Bytes))
    BY <1>0 DEF FTypes
  <2>2. started' \in Seq(Frames)
    BY <1>4 DEF StartedGrows
  <2>3. n <= Len(started)
    BY <1>0 DEF DeliveredWhole
  <2>4. Size(f) \in Nat
    BY FramesFact
  <2> HIDE <1>0, <1>1, <1>2, <1>3, <1>4
  <2> QED BY <2>1, <2>2, <2>3, <2>4
<1>6. /\ Len(pipe') = L + (upto - sent[f])
      /\ \A k \in 1..L : pipe'[k] = pipe[k]
      /\ \A k \in (L + 1)..Len(pipe') : pipe'[k] = <<f, sent[f] + (k - L)>>
      /\ pipe' # <<>>
  <2>0. pipe \in Seq(Bytes)
    BY <1>0 DEF FTypes
  <2>1. Len(pipe') = L + (upto - sent[f])
    <3>1. PICK p \in Seq(Bytes) : p = Piece(f, upto)
      BY <1>3
    <3>2. Len(pipe \o p) = Len(pipe) + Len(p)
      BY <2>0
    <3> QED BY <1>1, <1>3, <3>1, <3>2
  <2>2. \A k \in 1..L : pipe'[k] = pipe[k]
    BY <1>1, <1>3, <2>0
  <2>3. ASSUME NEW k \in (L + 1)..Len(pipe')
        PROVE  pipe'[k] = <<f, sent[f] + (k - L)>>
    <3>1. k - L \in 1..(upto - sent[f])
      BY <1>2, <1>5, <2>1, SMTT(60)
    <3>2. pipe'[k] = Piece(f, upto)[k - L]
      BY <1>1, <1>2, <1>3, <1>5, <2>0, <2>1, SMTT(60)
    <3> QED BY <1>3, <3>1, <3>2
  <2>4. Len(pipe') > 0
    BY <1>2, <1>5, <2>1
  <2> QED BY <2>1, <2>2, <2>3, <2>4
<1>7. sent[f] > 0 => /\ pipe # <<>> /\ f = started[Len(started)] /\ n < Len(started)
                     /\ Len(started) > 0
  <2> HAVE sent[f] > 0
  <2>1. started # <<>> /\ f = started[Len(started)] /\ Len(started) \in Nat \ {0}
    BY <1>2, WrittenIsLast
  <2>2. n # Len(started)
    BY <1>0, <1>2, <2>1 DEF PipeHolds
  <2> QED BY <1>0, <1>5, <2>1, <2>2 DEF PipeHolds
<1>8. n < Len(started')
  BY <1>4, <1>5, <1>7, <1>2 DEF StartedGrows
<1>9. \A k \in 1..n : w'[started'[k]] = "written"
  <2> TAKE k \in 1..n
  <2>1. w[started[k]] = "written" /\ started'[k] = started[k]
    BY <1>0, <1>4, <1>5 DEF PipeHolds, StartedGrows
  <2>2. started[k] \in Frames
    BY <1>0, <1>5 DEF FTypes
  <2> QED BY <1>2, <2>1, <2>2
<1>10. pipe'[1] = <<started'[n + 1], 1>>
  <2>1. CASE pipe = <<>>
    <3>1. sent[f] = 0 /\ n = Len(started) /\ L = 0
      BY <1>0, <1>2, <1>7, <2>1 DEF PipeHolds
    <3>2. Len(started') = n + 1 /\ started'[n + 1] = f
      BY <1>4, <3>1 DEF StartedGrows
    <3>3. 1 \in (L + 1)..Len(pipe')
      BY <1>2, <1>6, <3>1
    <3> QED BY <1>6, <3>1, <3>2, <3>3
  <2>2. CASE pipe # <<>>
    <3>1. pipe[1] = <<started[n + 1], 1>> /\ n + 1 <= Len(started)
      BY <1>0, <1>5, <2>2 DEF PipeHolds, Next1
    <3>2. 1 \in 1..L
      BY <1>0, <1>5, <2>2 DEF FTypes
    <3> QED BY <1>4, <1>5, <1>6, <3>1, <3>2, SMTT(60) DEF StartedGrows
  <2> QED BY <2>1, <2>2
<1>11. pipe'[Len(pipe')] = <<started'[Len(started')], sent'[started'[Len(started')]]>>
  <2>1. Len(pipe') = L + (upto - sent[f])
    BY <1>6
  <2>2. /\ L \in Nat /\ upto \in Nat /\ sent[f] \in Nat /\ sent[f] < upto
    BY <1>2, <1>5
  <2>3. Len(pipe') \in (L + 1)..Len(pipe') /\ sent[f] + (Len(pipe') - L) = upto
    BY <2>1, <2>2
  <2> QED BY <1>2, <1>4, <1>6, <2>3, ZenonT(60) DEF StartedGrows
<1>12. ASSUME NEW k \in 1..(Len(pipe') - 1)
       PROVE  Follows(pipe[k], pipe[k + 1])'
  <2>1. CASE k < L
    <3>1. Follows(pipe[k], pipe[k + 1]) /\ pipe'[k] = pipe[k] /\ pipe'[k + 1] = pipe[k + 1]
      BY <1>0, <1>5, <1>6, <2>1, SMTT(60) DEF PipeHolds
    <3>2. CASE pipe[k + 1] = <<pipe[k][1], pipe[k][2] + 1>>
      BY <3>1, <3>2 DEF Follows
    <3>3. CASE \E i \in 1..(Len(started) - 1) :
                 pipe[k] = <<started[i], sent[started[i]]>> /\ pipe[k + 1] = <<started[i + 1], 1>>
      <4>1. PICK i \in 1..(Len(started) - 1) :
              pipe[k] = <<started[i], sent[started[i]]>> /\ pipe[k + 1] = <<started[i + 1], 1>>
        BY <3>3
      <4>2. i \in 1..(Len(started') - 1) /\ i # Len(started')
        BY <1>4, <1>5, SMTT(60) DEF StartedGrows
      <4>3. started'[i] = started[i] /\ started'[i + 1] = started[i + 1]
        BY <1>4, <1>5 DEF StartedGrows
      <4>4. started[i] # f /\ started[i] \in Frames
        <5>1. started[i] \in Frames
          BY <1>0, <1>5, <4>2, SMTT(60) DEF FTypes
        <5> QED BY <1>4, <4>2, <4>3, <5>1, SMTT(60) DEF StartedGrows
      <4>5. sent'[started'[i]] = sent[started[i]]
        BY <1>2, <4>3, <4>4
      <4> QED BY <3>1, <4>1, <4>2, <4>3, <4>5 DEF Follows
    <3> QED BY <3>1, <3>2, <3>3 DEF Follows
  <2>2. CASE k = L
    <3>1. pipe'[k + 1] = <<f, sent[f] + 1>> /\ pipe'[k] = pipe[k]
      <4>1. k + 1 \in (L + 1)..Len(pipe') /\ (k + 1) - L = 1 /\ k \in 1..L
        BY <1>2, <1>5, <1>6, <2>2, SMTT(60)
      <4> QED BY <1>6, <4>1
    <3>2. pipe # <<>> /\ n < Len(started)
      BY <1>0, <1>5, <2>2 DEF PipeHolds
    <3>3. pipe[k] = <<started[Len(started)], sent[started[Len(started)]]>>
      BY <1>0, <2>2, <3>2 DEF PipeHolds
    <3>4. CASE sent[f] > 0
      <4>1. pipe[k] = <<f, sent[f]>>
        BY <1>7, <3>3, <3>4
      <4>2. pipe'[k + 1] = <<pipe'[k][1], pipe'[k][2] + 1>>
        BY <3>1, <4>1
      <4> QED BY <4>2 DEF Follows
    <3>5. CASE sent[f] = 0
      <4>1. PICK i \in Nat : i = Len(started)
        BY <1>5
      <4>2. i \in 1..(Len(started') - 1) /\ i \in 1..Len(started) /\ i # Len(started')
            /\ i + 1 = Len(started')
        BY <1>4, <1>5, <3>2, <3>5, <4>1 DEF StartedGrows
      <4>3. started'[i] = started[i] /\ started'[i + 1] = f
        BY <1>4, <4>2 DEF StartedGrows
      <4>4. started[i] # f /\ started[i] \in Frames
        <5>1. started[i] \in Frames
          BY <1>0, <1>5, <4>2, SMTT(60) DEF FTypes
        <5> QED BY <1>4, <4>2, <4>3, <5>1 DEF StartedGrows
      <4>5. sent'[started'[i]] = sent[started[i]]
        BY <1>2, <4>3, <4>4
      <4>6. pipe'[k] = <<started'[i], sent'[started'[i]]>>
        BY <3>1, <3>3, <4>1, <4>3, <4>5
      <4>7. pipe'[k + 1] = <<started'[i + 1], 1>>
        BY <3>1, <3>5, <4>3
      <4> QED BY <4>2, <4>6, <4>7 DEF Follows
    <3> QED BY <1>2, <3>4, <3>5
  <2>3. CASE k > L
    <3>1. k \in (L + 1)..Len(pipe') /\ k + 1 \in (L + 1)..Len(pipe')
      BY <1>5, <1>2, <1>6, <2>3, SMTT(60)
    <3>2. pipe'[k] = <<f, sent[f] + (k - L)>> /\ pipe'[k + 1] = <<f, sent[f] + ((k + 1) - L)>>
      BY <1>6, <3>1
    <3>3. sent[f] + ((k + 1) - L) = (sent[f] + (k - L)) + 1
      BY <1>2, <1>5, <3>1, SMTT(60)
    <3>4. pipe'[k + 1] = <<pipe'[k][1], pipe'[k][2] + 1>>
      BY <3>2, <3>3
    <3> QED BY <3>4 DEF Follows
  <2> QED BY <1>5, <2>1, <2>2, <2>3
<1>13. ASSUME NEW k \in 1..Len(pipe')
       PROVE  pipe'[k][2] <= Size(pipe'[k][1])
  <2>1. CASE k <= L
    <3>1. k \in 1..L
      BY <1>5, <2>1
    <3>2. pipe'[k] = pipe[k] /\ pipe[k][2] <= Size(pipe[k][1])
      BY <1>0, <1>6, <3>1 DEF PipeHolds
    <3> QED BY <3>2
  <2>2. CASE k > L
    <3>1. pipe'[k] = <<f, sent[f] + (k - L)>> /\ sent[f] + (k - L) <= upto
      BY <1>2, <1>5, <1>6, <2>2, SMTT(60)
    <3> QED BY <1>2, <1>5, <3>1, SMTT(60)
  <2> QED BY <1>5, <2>1, <2>2
<1>14. (pipe = <<>> <=> Len(delivered) = Len(started))'
  BY <1>4, <1>5, <1>6, <1>8
<1>15. (\A k \in 1..Len(delivered) : w[started[k]] = "written")'
  BY <1>4, <1>9
<1>16. (pipe[1] = <<started[Next1], 1>>)'
  BY <1>4, <1>10 DEF Next1
<1>17. (\A k \in 1..Len(pipe) : pipe[k][2] <= Size(pipe[k][1]))'
  BY <1>13 DEF Size
<1>18. (\A k \in 1..(Len(pipe) - 1) : Follows(pipe[k], pipe[k + 1]))'
  BY <1>12
<1> QED BY <1>11, <1>14, <1>15, <1>16, <1>17, <1>18 DEF PipeHolds

LEMMA ClaimedSizesFact ==
  /\ \A size \in ClaimedSizes : size # None => size \in Nat
  /\ FTypes /\ pipe' \in Seq(Bytes) /\ Len(pipe) >= HEADER_SIZE
       /\ Len(pipe') >= Len(pipe) /\ (\A k \in 1..Len(pipe) : pipe'[k] = pipe[k])
     => ClaimedSizes' = ClaimedSizes
<1>1. \A payload \in Nat : FrameSize(payload) \in Nat
  BY DEF FrameSize, HEADER_SIZE, CRC_SIZE
<1>2. \A f \in Frames : Payloads[f] \in Nat
  BY FramesFact
<1>3. 0..MAX_PAYLOAD_SIZE \subseteq Nat
  BY LimitsAssumption
<1>4. \A size \in ClaimedSizes : size # None => size \in Nat
  BY <1>1, <1>2, <1>3 DEF ClaimedSizes
<1>5. ASSUME FTypes, pipe' \in Seq(Bytes), Len(pipe) >= HEADER_SIZE,
             Len(pipe') >= Len(pipe), \A k \in 1..Len(pipe) : pipe'[k] = pipe[k]
      PROVE  ClaimedSizes' = ClaimedSizes
  <2>1. SubSeq(pipe', 1, HEADER_SIZE) = SubSeq(pipe, 1, HEADER_SIZE)
    BY <1>5 DEF FTypes, HEADER_SIZE
  <2> QED BY <2>1 DEF ClaimedSizes
<1> QED BY <1>4, <1>5

LEMMA WritePieceKeeps ==
  ASSUME FInv, NEW f \in Frames, WritePiece(f)
  PROVE  FInv'
<1>0. FTypes /\ Writers /\ Clock /\ Cause
  BY DEF FInv
<1>1. PICK upto \in (sent[f] + 1)..Len(encode_frame(f)) :
        /\ pipe' = pipe \o Piece(f, upto)
        /\ sent' = [sent EXCEPT ![f] = upto]
        /\ w' = IF upto = Len(encode_frame(f)) THEN [w EXCEPT ![f] = "written"] ELSE w
  BY DEF WritePiece, Piece
<1>2. /\ FTypes' /\ Writers'
      /\ Piece(f, upto) \in Seq(Bytes) /\ Len(Piece(f, upto)) = upto - sent[f]
      /\ upto \in Nat /\ sent[f] \in Nat /\ sent[f] < upto
      /\ \A g \in Frames : sent'[g] = IF g = f THEN upto ELSE sent[g]
      /\ \A g \in Frames :
           w'[g] = IF g = f /\ upto = Size(f) THEN "written" ELSE w[g]
      /\ w[f] = "writing"
  BY <1>1, WritePieceFacts, ZenonT(60)
<1>3. UNCHANGED <<exiting, closed, e_loop, partial_start, delivered, reason, age>>
  BY DEF WritePiece, reader
<1>4. Reading'
  BY <1>3, WritePiecePipe DEF Reading
<1>5. /\ pipe \in Seq(Bytes) /\ pipe' \in Seq(Bytes)
      /\ Len(pipe') > Len(pipe) /\ \A k \in 1..Len(pipe) : pipe'[k] = pipe[k]
  <2>1. PICK p \in Seq(Bytes) : p = Piece(f, upto) /\ Len(p) > 0
    BY <1>2
  <2>2. pipe \in Seq(Bytes)
    BY <1>0 DEF FTypes
  <2> QED BY <1>1, <2>1, <2>2
<1>6. pipe # <<>> /\ PeekedPartial' => PeekedPartial
  <2> HAVE pipe # <<>> /\ PeekedPartial'
  <2>1. CASE Len(pipe) < HEADER_SIZE
    BY <2>1 DEF PeekedPartial
  <2>2. CASE ~(Len(pipe) < HEADER_SIZE)
    <3>1. Len(pipe) >= HEADER_SIZE /\ Len(pipe') >= HEADER_SIZE /\ Len(pipe) \in Nat /\ Len(pipe') \in Nat
      BY <1>5, <2>2 DEF HEADER_SIZE
    <3>2. ClaimedSizes' = ClaimedSizes
      BY <1>0, <1>5, <3>1, ClaimedSizesFact
    <3>3. PICK size \in ClaimedSizes \ {None} : Len(pipe') < size
      BY <3>1, <3>2 DEF PeekedPartial, HEADER_SIZE
    <3>4. size \in Nat
      BY <3>3, ClaimedSizesFact
    <3>5. Len(pipe) < size
      BY <1>5, <3>1, <3>3, <3>4
    <3> QED BY <3>1, <3>3, <3>5 DEF PeekedPartial
  <2> QED BY <2>1, <2>2
<1>7. pipe # <<>> => pipe' # <<>>
  BY <1>5
<1>8. Clock'
  BY <1>0, <1>3, <1>6, <1>7 DEF Clock
<1>9. Torn => Torn'
  <2> HAVE Torn
  <2>1. PICK g \in Frames : w[g] = "cut" /\ sent[g] > 0
    BY DEF Torn
  <2>2. w'[g] = "cut" /\ sent'[g] > 0
    BY <1>2, <2>1
  <2> QED BY <2>2 DEF Torn
<1>10. Cause'
  BY <1>0, <1>3, <1>9, NoneAssumption DEF Cause, EndsForCause, FTypes
<1> QED BY <1>2, <1>4, <1>8, <1>10, WritePieceOrder, WritePieceDelivered DEF FInv

---------------------------------------------------------------------------
(* What the engine finds *)

LEMMA LeastMember ==
  ASSUME NEW T, T \subseteq Nat, T # {}
  PROVE  \E x \in T : \A y \in T : x <= y
<1>1. IsWellFoundedOn(OpToRel(<, Nat), Nat)
  BY NatLessThanWellFounded, Zenon
<1>2. PICK x \in T : \A y \in T : ~(<<y, x>> \in OpToRel(<, Nat))
  BY <1>1, WFMin, Zenon
<1>3. \A y \in T : ~(y < x)
  BY <1>2 DEF OpToRel
<1> QED BY <1>3

\* The frame at the head of the pipe.
Head1 == started[Next1]

LEMMA HeadFact ==
  ASSUME FInv, e_loop # "ended", pipe # <<>>
  PROVE  /\ Next1 \in 1..Len(started) /\ Head1 \in Frames
         /\ pipe[1] = <<Head1, 1>>
         /\ Len(pipe) \in Nat \ {0} /\ pipe \in Seq(Bytes)
<1>0. PipeHolds /\ DeliveredWhole
  BY DEF FInv, Reading
<1>1. started \in Seq(Frames) /\ pipe \in Seq(Bytes)
  BY DEF FInv, FTypes
<1>2. delivered \in Seq(Seq(Bytes))
  BY DEF FInv, FTypes
<1>3. Len(delivered) \in Nat /\ Len(started) \in Nat
  BY <1>1, <1>2
<1>4. Len(delivered) < Len(started)
  BY <1>0, <1>3 DEF PipeHolds, DeliveredWhole
<1>5. Next1 \in 1..Len(started)
  BY <1>3, <1>4 DEF Next1
<1>6. Head1 \in Frames
  BY <1>1, <1>5 DEF Head1
<1> QED BY <1>0, <1>1, <1>5, <1>6 DEF PipeHolds, Head1

\* Where the pipe leaves the frame at its head too early, the frame was cut.
LEMMA BrokenIsTorn ==
  ASSUME FInv, e_loop # "ended", pipe # <<>>,
         NEW k \in 1..Len(pipe), k <= Size(Head1), pipe[k] # <<Head1, k>>
  PROVE  Torn
<1>0. PipeHolds /\ Writers /\ Order
  BY DEF FInv, Reading
<1>1. /\ Next1 \in 1..Len(started) /\ Head1 \in Frames
      /\ pipe[1] = <<Head1, 1>>
      /\ Len(pipe) \in Nat \ {0} /\ pipe \in Seq(Bytes) /\ Size(Head1) \in Nat
  BY HeadFact, FramesFact
<1> DEFINE T == {x \in 1..Len(pipe) : x <= Size(Head1) /\ pipe[x] # <<Head1, x>>}
<1>2. PICK x \in T : \A y \in T : x <= y
  <2>1. k \in T
    OBVIOUS
  <2>2. T \subseteq Nat
    BY <1>1
  <2> QED BY <2>1, <2>2, LeastMember
<1>3. x \in 1..Len(pipe) /\ x <= Size(Head1) /\ pipe[x] # <<Head1, x>> /\ x # 1
  BY <1>1, <1>2
<1>4. x - 1 \in 1..(Len(pipe) - 1) /\ x - 1 \in Nat /\ x - 1 <= Size(Head1) /\ (x - 1) + 1 = x
  BY <1>1, <1>3
<1>5. pipe[x - 1] = <<Head1, x - 1>>
  BY <1>1, <1>2, <1>4
<1>6. Follows(pipe[x - 1], pipe[x])
  BY <1>0, <1>4 DEF PipeHolds
<1>7. pipe[x] # <<pipe[x - 1][1], pipe[x - 1][2] + 1>>
  BY <1>3, <1>4, <1>5
<1>8. PICK i \in 1..(Len(started) - 1) : pipe[x - 1] = <<started[i], sent[started[i]]>>
  BY <1>6, <1>7 DEF Follows
<1>9. Head1 = started[i] /\ sent[Head1] = x - 1 /\ x - 1 > 0 /\ x - 1 < Size(Head1)
  BY <1>1, <1>3, <1>4, <1>5, <1>8
<1>10. Len(started) \in Nat
  BY DEF FInv, FTypes
<1>11. w[Head1] # "writing"
  BY <1>0, <1>8, <1>9, <1>10 DEF Order
<1>12. w[Head1] \notin {"new", "waiting", "refused", "written"}
  BY <1>0, <1>1, <1>9, SMTT(60) DEF Writers
<1>13. w[Head1] \in States
  BY <1>1 DEF FInv, FTypes
<1>14. w[Head1] = "cut"
  BY <1>11, <1>12, <1>13 DEF States
<1> QED BY <1>1, <1>9, <1>14 DEF Torn

LEMMA FirstTwo ==
  ASSUME NEW s \in Seq(Bytes), Len(s) >= 2
  PROVE  SubSeq(s, 1, 2) = <<s[1], s[2]>>
<1>1. SubSeq(s, 1, 2) \in Seq(Bytes) /\ Len(SubSeq(s, 1, 2)) = 2
  OBVIOUS
<1>2. SubSeq(s, 1, 2)[1] = s[1] /\ SubSeq(s, 1, 2)[2] = s[2]
  OBVIOUS
<1>3. PICK t \in Seq(Bytes) : t = SubSeq(s, 1, 2)
  BY <1>1
<1>4. Len(t) = 2 /\ t[1] = s[1] /\ t[2] = s[2]
  BY <1>1, <1>2, <1>3
<1>5. t = <<s[1], s[2]>>
  BY <1>4
<1> QED BY <1>3, <1>5

\* A header that is of no frame is broken; one that is of a frame is of the
\* frame at the head.
LEMMA HeaderFact ==
  ASSUME FInv, e_loop # "ended", Len(pipe) >= HEADER_SIZE
  PROVE  \/ Torn
         \/ ClaimedSizes = {Size(Head1)}
<1>1. pipe # <<>> /\ Len(pipe) >= 2
  BY DEF HEADER_SIZE
<1>2. /\ Head1 \in Frames /\ pipe[1] = <<Head1, 1>>
      /\ Len(pipe) \in Nat \ {0} /\ pipe \in Seq(Bytes)
  BY <1>1, HeadFact
<1>3. Size(Head1) \in Nat /\ Size(Head1) >= 3
  BY <1>2, FramesFact
<1> DEFINE header == SubSeq(pipe, 1, HEADER_SIZE)
           whole == {f \in Frames : header = SubSeq(encode_frame(f), 1, HEADER_SIZE)}
<1>4. header = <<pipe[1], pipe[2]>>
  BY <1>1, <1>2, FirstTwo DEF HEADER_SIZE
<1>5. ASSUME NEW f \in Frames
      PROVE  SubSeq(encode_frame(f), 1, HEADER_SIZE) = <<<<f, 1>>, <<f, 2>>>>
  <2>1. /\ encode_frame(f) \in Seq(Bytes) /\ Len(encode_frame(f)) = Size(f)
        /\ Size(f) \in Nat /\ Size(f) >= 3
        /\ \A k \in 1..Size(f) : encode_frame(f)[k] = <<f, k>>
    BY EncodeFact, FramesFact
  <2>2. encode_frame(f)[1] = <<f, 1>> /\ encode_frame(f)[2] = <<f, 2>>
    BY <2>1
  <2>3. SubSeq(encode_frame(f), 1, 2) = <<encode_frame(f)[1], encode_frame(f)[2]>>
    BY <2>1, FirstTwo
  <2> QED BY <2>2, <2>3 DEF HEADER_SIZE
<1>6. CASE pipe[2] # <<Head1, 2>>
  <2>1. 2 \in 1..Len(pipe) /\ 2 <= Size(Head1)
    BY <1>1, <1>2, <1>3
  <2> QED BY <1>1, <1>6, <2>1, BrokenIsTorn
<1>7. CASE pipe[2] = <<Head1, 2>>
  <2>1. Head1 \in whole
    BY <1>2, <1>4, <1>5, <1>7
  <2>2. \A f \in whole : f = Head1
    <3> TAKE f \in whole
    <3>1. <<pipe[1], pipe[2]>> = <<<<f, 1>>, <<f, 2>>>>
      BY <1>4, <1>5
    <3>2. pipe[1] = <<f, 1>>
      BY <3>1
    <3> QED BY <1>2, <3>2
  <2>3. whole = {Head1}
    BY <2>1, <2>2
  <2>4. ClaimedSizes = {FrameSize(Payloads[f]) : f \in whole}
    BY <2>3 DEF ClaimedSizes
  <2> QED BY <2>3, <2>4 DEF Size
<1> QED BY <1>6, <1>7

---------------------------------------------------------------------------
(* The engine's steps *)

\* A step of the engine that reads nothing: its clock has to stay in order
\* and, if it leaves, it has its reason.
LEMMA LookStep ==
  ASSUME FInv,
         UNCHANGED <<writers, pipe, delivered>>,
         e_loop' \in {"idle", "busy", "ended"},
         e_loop' # "ended" => e_loop # "ended",
         partial_start' \in (0..PartialLimit) \union {None},
         age' \in 0..PartialLimit, reason' \in {None, "closed", "corrupt", "partial"},
         Clock', Cause'
  PROVE  FInv'
<1>0. FTypes /\ Writers /\ Order /\ DeliveredWhole /\ Reading
  BY DEF FInv
<1>1. UNCHANGED <<w, sent, started, exiting, closed>>
  BY DEF writers
<1>2. FTypes'
  BY <1>0, <1>1 DEF FTypes
<1>3. Writers'
  BY <1>0, <1>1 DEF Writers, Size
<1>4. Order'
  BY <1>0, <1>1 DEF Order
<1>5. DeliveredWhole'
  BY <1>0, <1>1 DEF DeliveredWhole
<1>6. PipeHolds => PipeHolds'
  BY <1>1 DEF PipeHolds, Follows, Next1, Size
<1>7. Reading'
  BY <1>0, <1>6 DEF Reading
<1> QED BY <1>2, <1>3, <1>4, <1>5, <1>7 DEF FInv

LEMMA PollEmptyKeeps ==
  ASSUME FInv, PollEmpty
  PROVE  FInv'
<1>0. FTypes /\ Cause
  BY DEF FInv
<1>1. /\ partial_start' = None
      /\ UNCHANGED <<writers, pipe, e_loop, delivered, reason, age>>
  BY DEF PollEmpty
<1>2. Clock'
  BY <1>1 DEF Clock
<1>3. Cause'
  BY <1>0, <1>1 DEF Cause, EndsForCause, Torn, writers
<1> QED BY <1>0, <1>1, <1>2, <1>3, LookStep DEF FTypes

LEMMA LeaveBusyKeeps ==
  ASSUME FInv, LeaveBusy
  PROVE  FInv'
<1>0. FTypes /\ Cause
  BY DEF FInv
<1>1. /\ partial_start' = None /\ e_loop = "busy" /\ e_loop' = "idle"
      /\ UNCHANGED <<writers, pipe, delivered, reason, age>>
  BY DEF LeaveBusy
<1>2. Clock'
  BY <1>1 DEF Clock
<1>3. Cause'
  BY <1>0, <1>1, NoneAssumption DEF Cause, EndsForCause
<1> QED BY <1>0, <1>1, <1>2, <1>3, LookStep DEF FTypes

LEMMA TickKeeps ==
  ASSUME FInv, Tick
  PROVE  FInv'
<1>0. FTypes /\ Cause /\ Clock
  BY DEF FInv
<1>1. /\ partial_start' = IF partial_start = None THEN None ELSE OneMore(partial_start)
      /\ age' = IF PeekedPartial THEN OneMore(age) ELSE age
      /\ e_loop # "ended"
      /\ UNCHANGED <<writers, pipe, e_loop, delivered, reason>>
  BY DEF Tick
<1>2. age \in 0..PartialLimit /\ partial_start \in (0..PartialLimit) \union {None}
      /\ PartialLimit \in Nat /\ e_loop \in {"idle", "busy", "ended"}
      /\ reason \in {None, "closed", "corrupt", "partial"}
  BY <1>0, LimitsAssumption DEF FTypes
<1>3. \A t \in 0..PartialLimit : OneMore(t) \in 0..PartialLimit
  BY <1>2 DEF OneMore
<1>4. \A s, t \in 0..PartialLimit : s <= t => OneMore(s) <= OneMore(t)
  BY <1>2 DEF OneMore
<1>5. age' \in 0..PartialLimit /\ partial_start' \in (0..PartialLimit) \union {None}
  BY <1>1, <1>2, <1>3
<1>6. PeekedPartial' <=> PeekedPartial
  BY <1>1, PeekedPartialKept
<1>7. ASSUME partial_start' # None
      PROVE  pipe' # <<>> /\ (PeekedPartial' => partial_start' <= age')
  <2>1. partial_start # None /\ partial_start \in 0..PartialLimit
    BY <1>1, <1>2, <1>7
  <2>2. pipe # <<>> /\ (PeekedPartial => partial_start <= age)
    BY <1>0, <1>1, <2>1 DEF Clock
  <2>3. ASSUME PeekedPartial PROVE partial_start' <= age'
    BY <1>1, <1>2, <1>4, <2>1, <2>2, <2>3
  <2> QED BY <1>1, <1>6, <2>2, <2>3
<1>8. Clock'
  BY <1>7 DEF Clock
<1>9. Cause'
  BY <1>0, <1>1, NoneAssumption DEF Cause, EndsForCause
<1> QED BY <1>1, <1>2, <1>5, <1>8, <1>9, LookStep

\* The engine leaves for a reason that is one.
LEMMA EndStep ==
  ASSUME FInv, e_loop # "ended", NEW why, EndEngine(why),
         UNCHANGED writers, pipe' \in Seq(Bytes), age' \in 0..PartialLimit,
         \/ why = "closed" /\ closed
         \/ why = "corrupt" /\ Torn
         \/ why = "partial" /\ age' = PartialLimit
  PROVE  FInv'
<1>0. FTypes /\ Writers /\ Order /\ DeliveredWhole
  BY DEF FInv
<1>1. e_loop' = "ended" /\ reason' = why /\ UNCHANGED <<partial_start, delivered>>
  BY DEF EndEngine
<1>2. UNCHANGED <<w, sent, started, exiting, closed>>
  BY DEF writers
<1>3. FTypes'
  BY <1>0, <1>1, <1>2 DEF FTypes
<1>4. Writers' /\ Order' /\ DeliveredWhole'
  BY <1>0, <1>1, <1>2 DEF Writers, Order, DeliveredWhole, Size
<1>5. Reading' /\ Clock'
  BY <1>1 DEF Reading, Clock
<1>6. Torn => Torn'
  BY <1>2 DEF Torn
<1>7. EndsForCause'
  BY <1>1, <1>2, <1>6 DEF EndsForCause
<1>8. Cause'
  BY <1>1, <1>7, NoneAssumption DEF Cause
<1> QED BY <1>3, <1>4, <1>5, <1>8 DEF FInv

LEMMA PollPartialKeeps ==
  ASSUME FInv, PollPartial
  PROVE  FInv'
<1>0. FTypes /\ Clock /\ Cause
  BY DEF FInv
<1>1. e_loop # "ended" /\ PeekedPartial /\ UNCHANGED <<writers, pipe, age>>
  BY DEF PollPartial
<1>2. CASE partial_start = None
  <2>1. partial_start' = 0 /\ UNCHANGED <<e_loop, delivered, reason>>
    BY <1>2 DEF PollPartial
  <2>2. 0 \in (0..PartialLimit) /\ age \in 0..PartialLimit
    BY <1>0, LimitsAssumption DEF FTypes
  <2>3. pipe' # <<>> /\ 0 <= age'
    BY <1>1, <2>2 DEF PeekedPartial
  <2>4. Clock'
    BY <2>1, <2>3 DEF Clock
  <2>5. Cause'
    BY <1>0, <1>1, <2>1 DEF Cause, EndsForCause, Torn, writers
  <2>6. partial_start' \in (0..PartialLimit) \union {None} /\ age' \in 0..PartialLimit
    BY <1>1, <2>1, <2>2
  <2>7. e_loop' \in {"idle", "busy", "ended"} /\ reason' \in {None, "closed", "corrupt", "partial"}
    BY <1>0, <2>1 DEF FTypes
  <2>8. e_loop' # "ended" => e_loop # "ended"
    BY <2>1
  <2> QED BY <1>1, <2>1, <2>4, <2>5, <2>6, <2>7, <2>8, LookStep
<1>3. CASE partial_start # None
  <2>1. partial_start = PartialLimit /\ EndEngine("partial")
    BY <1>3 DEF PollPartial, Overdue
  <2>2. partial_start <= age
    BY <1>0, <1>1, <1>3 DEF Clock
  <2>3. age = PartialLimit
    BY <1>0, <2>1, <2>2, LimitsAssumption DEF FTypes
  <2>4. age' = PartialLimit /\ age' \in 0..PartialLimit /\ pipe' \in Seq(Bytes)
    BY <1>0, <1>1, <2>3 DEF FTypes
  <2> QED BY <1>1, <2>1, <2>4, EndStep
<1> QED BY <1>2, <1>3

LEMMA PollErrorKeeps ==
  ASSUME FInv, PollError
  PROVE  FInv'
<1>1. e_loop # "ended" /\ PeekedError /\ UNCHANGED <<writers, pipe, age>>
      /\ EndEngine(IF pipe = <<>> THEN "closed" ELSE "corrupt")
  BY DEF PollError
<1>4. age' \in 0..PartialLimit /\ pipe' \in Seq(Bytes)
  BY <1>1 DEF FInv, FTypes
<1>2. CASE pipe = <<>>
  <2>1. closed
    BY <1>1, <1>2 DEF PeekedError, HEADER_SIZE
  <2>2. EndEngine("closed")
    BY <1>1, <1>2
  <2> QED BY <1>1, <1>4, <2>1, <2>2, EndStep
<1>3. CASE pipe # <<>>
  <2>1. Len(pipe) >= HEADER_SIZE /\ None \in ClaimedSizes
    BY <1>1, <1>3 DEF PeekedError
  <2>2. Size(Head1) \in Nat
    BY <1>1, <1>3, HeadFact, FramesFact
  <2>3. ClaimedSizes # {Size(Head1)}
    BY <2>1, <2>2, NoneAssumption
  <2>4. Torn
    BY <1>1, <2>1, <2>3, HeaderFact
  <2>5. EndEngine("corrupt")
    BY <1>1, <1>3
  <2> QED BY <1>1, <1>4, <2>4, <2>5, EndStep
<1> QED BY <1>2, <1>3

\* A whole frame at the head of the pipe was written to its end, and what
\* comes after it is the frame begun next.
LEMMA HeadIsWhole ==
  ASSUME FInv, e_loop # "ended", pipe # <<>>,
         Len(pipe) >= Size(Head1), pipe[Size(Head1)] = <<Head1, Size(Head1)>>
  PROVE  /\ w[Head1] = "written"
         /\ Len(pipe) = Size(Head1) <=> Next1 = Len(started)
         /\ Len(pipe) > Size(Head1) =>
              pipe[Size(Head1) + 1] = <<started[Next1 + 1], 1>>
<1>0. PipeHolds /\ Writers /\ Order
  BY DEF FInv, Reading
<1>1. /\ Next1 \in 1..Len(started) /\ Head1 \in Frames
      /\ Len(pipe) \in Nat \ {0} /\ pipe \in Seq(Bytes) /\ Size(Head1) \in Nat
      /\ Size(Head1) >= 3
  BY HeadFact, FramesFact
<1>2. started \in Seq(Frames) /\ Len(started) \in Nat
  BY DEF FInv, FTypes
<1>3. CASE Len(pipe) = Size(Head1)
  <2>1. pipe[Len(pipe)] = <<started[Len(started)], sent[started[Len(started)]]>>
    BY <1>0 DEF PipeHolds
  <2>2. Head1 = started[Len(started)] /\ sent[Head1] = Size(Head1)
    BY <1>3, <2>1
  <2>3. Next1 = Len(started)
    <3>1. Len(started) \in 1..Len(started)
      BY <1>1, <1>2
    <3> QED BY <1>0, <1>1, <2>2, <3>1 DEF Order, Head1
  <2>4. w[Head1] \in States
    BY <1>1 DEF FInv, FTypes
  <2>5. w[Head1] = "written"
    BY <1>0, <1>1, <2>2, <2>4 DEF Writers, States
  <2> QED BY <1>3, <2>3, <2>5
<1>4. CASE Len(pipe) > Size(Head1)
  <2>1. PICK k \in Nat : k = Size(Head1)
    BY <1>1
  <2>2. k \in 1..(Len(pipe) - 1) /\ k + 1 \in 1..Len(pipe) /\ pipe[k] = <<Head1, k>>
    BY <1>1, <1>4, <2>1
  <2>3. Follows(pipe[k], pipe[k + 1]) /\ pipe[k + 1][2] <= Size(pipe[k + 1][1])
    BY <1>0, <2>2 DEF PipeHolds
  <2>4. pipe[k + 1] # <<pipe[k][1], pipe[k][2] + 1>>
    <3> SUFFICES ASSUME pipe[k + 1] = <<pipe[k][1], pipe[k][2] + 1>> PROVE FALSE
      OBVIOUS
    <3>1. pipe[k + 1] = <<Head1, k + 1>>
      BY <2>2
    <3>2. k + 1 <= Size(Head1)
      BY <2>3, <3>1
    <3> QED BY <2>1, <3>2
  <2>5. PICK i \in 1..(Len(started) - 1) :
          pipe[k] = <<started[i], sent[started[i]]>> /\ pipe[k + 1] = <<started[i + 1], 1>>
    BY <2>3, <2>4 DEF Follows
  <2>6. Head1 = started[i] /\ sent[Head1] = Size(Head1)
    BY <2>1, <2>2, <2>5
  <2>7. i \in 1..Len(started) /\ i # Len(started)
    BY <1>2
  <2>8. i = Next1
    BY <1>0, <1>1, <2>6, <2>7 DEF Order, Head1
  <2>9. w[Head1] \in States
    BY <1>1 DEF FInv, FTypes
  <2>10. w[Head1] = "written"
    BY <1>0, <1>1, <2>6, <2>9 DEF Writers, States
  <2> QED BY <1>1, <1>4, <2>1, <2>5, <2>7, <2>8, <2>10
<1> QED BY <1>1, <1>3, <1>4

\* What is decoded is the frame at the head.
DecodesHead(size) ==
  /\ size = Size(Head1) /\ Len(pipe) >= size
  /\ SubSeq(pipe, 1, size) = encode_frame(Head1)

LEMMA PollCompleteCases ==
  ASSUME FInv, PollComplete
  PROVE  /\ e_loop # "ended" /\ age' = 0 /\ UNCHANGED writers /\ pipe # <<>>
         /\ \/ Torn /\ EndEngine("corrupt") /\ pipe' \in Seq(Bytes)
            \/ /\ DecodesHead(Size(Head1))
               /\ pipe' = SubSeq(pipe, Size(Head1) + 1, Len(pipe))
               /\ delivered' = Append(delivered, encode_frame(Head1))
               /\ partial_start' = None /\ e_loop' \in {e_loop, "busy"}
               /\ UNCHANGED reason
<1>1. e_loop # "ended" /\ age' = 0 /\ UNCHANGED writers /\ Len(pipe) >= HEADER_SIZE
  BY DEF PollComplete
<1>2. PICK size \in ClaimedSizes \ {None} :
        /\ Len(pipe) >= size
        /\ pipe' = SubSeq(pipe, size + 1, Len(pipe))
        /\ IF Intact(SubSeq(pipe, 1, size))
           THEN /\ delivered' = Append(delivered, SubSeq(pipe, 1, size))
                /\ partial_start' = None
                /\ e_loop' \in {e_loop, "busy"}
                /\ UNCHANGED reason
           ELSE EndEngine("corrupt")
  BY DEF PollComplete, ClockAfterFrame
<1>3. pipe # <<>>
  BY <1>1 DEF HEADER_SIZE
<1>4. /\ Next1 \in 1..Len(started) /\ Head1 \in Frames
      /\ Len(pipe) \in Nat \ {0} /\ pipe \in Seq(Bytes) /\ Size(Head1) \in Nat
      /\ Size(Head1) >= 3 /\ pipe[1] = <<Head1, 1>>
  BY <1>1, <1>3, HeadFact, FramesFact
<1>5. size \in Nat
  BY <1>2, ClaimedSizesFact
<1>6. SubSeq(pipe, 1, size) \in Seq(Bytes) /\ Len(SubSeq(pipe, 1, size)) = size
      /\ \A k \in 1..size : SubSeq(pipe, 1, size)[k] = pipe[k]
  BY <1>2, <1>4, <1>5
<1>9. pipe' \in Seq(Bytes)
  BY <1>2, <1>4, <1>5
<1>7. CASE Intact(SubSeq(pipe, 1, size))
  <2>1. PICK g \in Frames : SubSeq(pipe, 1, size) = encode_frame(g)
    BY <1>7 DEF Intact
  <2>2. Len(encode_frame(g)) = Size(g) /\ encode_frame(g)[1] = <<g, 1>>
        /\ Size(g) \in Nat /\ Size(g) >= 3
    BY EncodeFact, FramesFact
  <2>3. size = Size(g) /\ 1 \in 1..size
    BY <1>6, <2>1, <2>2
  <2>4. g = Head1
    BY <1>4, <1>6, <2>1, <2>2, <2>3
  <2>5. DecodesHead(Size(Head1))
    BY <1>2, <2>1, <2>3, <2>4 DEF DecodesHead
  <2> QED BY <1>1, <1>2, <1>3, <1>7, <2>1, <2>3, <2>4, <2>5
<1>8. CASE ~Intact(SubSeq(pipe, 1, size))
  <2>1. EndEngine("corrupt")
    BY <1>2, <1>8
  <2>2. CASE ClaimedSizes = {Size(Head1)}
    <3>1. size = Size(Head1)
      BY <1>2, <2>2
    <3>2. SubSeq(pipe, 1, size) # encode_frame(Head1)
      BY <1>4, <1>8 DEF Intact
    <3>3. /\ encode_frame(Head1) \in Seq(Bytes) /\ Len(encode_frame(Head1)) = size
          /\ \A k \in 1..size : encode_frame(Head1)[k] = <<Head1, k>>
      BY <1>4, <3>1, EncodeFact
    <3>4. \E k \in 1..size : pipe[k] # <<Head1, k>>
      <4> SUFFICES ASSUME \A k \in 1..size : pipe[k] = <<Head1, k>> PROVE FALSE
        OBVIOUS
      <4>1. \A k \in 1..size : SubSeq(pipe, 1, size)[k] = encode_frame(Head1)[k]
        BY <1>6, <3>3
      <4>2. PICK a \in Seq(Bytes), b \in Seq(Bytes) :
              a = SubSeq(pipe, 1, size) /\ b = encode_frame(Head1)
        BY <1>6, <3>3
      <4>3. Len(a) = Len(b) /\ \A k \in 1..Len(a) : a[k] = b[k]
        BY <1>6, <3>3, <4>1, <4>2
      <4>4. a = b
        BY <4>3
      <4> QED BY <3>2, <4>2, <4>4
    <3>5. PICK k \in 1..size : pipe[k] # <<Head1, k>>
      BY <3>4
    <3>6. k \in 1..Len(pipe) /\ k <= Size(Head1)
      BY <1>2, <1>4, <1>5, <3>1
    <3>7. Torn
      BY <1>1, <1>3, <3>5, <3>6, BrokenIsTorn
    <3> QED BY <1>1, <1>3, <1>9, <2>1, <3>7
  <2>3. CASE Torn
    BY <1>1, <1>3, <1>9, <2>1, <2>3
  <2> QED BY <1>1, <2>2, <2>3, HeaderFact
<1> QED BY <1>7, <1>8

LEMMA DecodedStep ==
  ASSUME FInv, e_loop # "ended", pipe # <<>>, age' = 0, UNCHANGED writers,
         DecodesHead(Size(Head1)),
         pipe' = SubSeq(pipe, Size(Head1) + 1, Len(pipe)),
         delivered' = Append(delivered, encode_frame(Head1)),
         partial_start' = None, e_loop' \in {e_loop, "busy"}, UNCHANGED reason
  PROVE  FInv'
<1>0. FTypes /\ Writers /\ Order /\ DeliveredWhole /\ PipeHolds /\ Cause
  BY DEF FInv, Reading
<1>1. /\ Next1 \in 1..Len(started) /\ Head1 \in Frames
      /\ Len(pipe) \in Nat \ {0} /\ pipe \in Seq(Bytes) /\ Size(Head1) \in Nat
      /\ Size(Head1) >= 3
  BY HeadFact, FramesFact
<1>2. PICK s \in Nat : s = Size(Head1)
  BY <1>1
<1>3. /\ encode_frame(Head1) \in Seq(Bytes) /\ Len(encode_frame(Head1)) = s
      /\ \A k \in 1..s : encode_frame(Head1)[k] = <<Head1, k>>
  BY <1>1, <1>2, EncodeFact
<1>4. Len(pipe) >= s /\ pipe[s] = <<Head1, s>>
  <2>1. Len(pipe) >= s /\ SubSeq(pipe, 1, s) = encode_frame(Head1) /\ s \in 1..s
    BY <1>1, <1>2 DEF DecodesHead
  <2>2. SubSeq(pipe, 1, s)[s] = pipe[s]
    BY <1>1, <2>1
  <2> QED BY <1>3, <2>1, <2>2
<1>5. /\ w[Head1] = "written"
      /\ Len(pipe) = s <=> Next1 = Len(started)
      /\ Len(pipe) > s => pipe[s + 1] = <<started[Next1 + 1], 1>>
  BY <1>2, <1>4, HeadIsWhole
<1>6. /\ pipe' \in Seq(Bytes) /\ Len(pipe') = Len(pipe) - s
      /\ \A k \in 1..(Len(pipe) - s) : pipe'[k] = pipe[s + k]
  BY <1>1, <1>2, <1>4, SMTT(60)
<1>17. PICK p \in Nat, q \in Nat :
        p = Len(pipe) /\ q = Len(pipe') /\ p = s + q /\ (q = 0 <=> pipe' = <<>>)
  <2>1. PICK t \in Seq(Bytes) : t = pipe'
    BY <1>6
  <2>2. Len(t) \in Nat /\ (Len(t) = 0 <=> t = <<>>)
    OBVIOUS
  <2>3. Len(pipe) = s + Len(t)
    BY <1>1, <1>2, <1>6, <2>1, <2>2, SMTT(60)
  <2> QED BY <1>1, <2>1, <2>2, <2>3
<1>18. /\ \A k \in 1..q : pipe'[k] = pipe[s + k]
       /\ \A k \in 1..q : s + k \in 1..p
       /\ \A k \in 1..(q - 1) : s + k \in 1..(p - 1) /\ s + (k + 1) = (s + k) + 1
                                 /\ k \in 1..q /\ k + 1 \in 1..q
  <2>1. q = Len(pipe) - s
    BY <1>2, <1>17, SMTT(60)
  <2>2. \A k \in 1..q : pipe'[k] = pipe[s + k]
    BY <1>6, <2>1
  <2>3. p = s + q /\ s \in Nat /\ p \in Nat /\ q \in Nat
    BY <1>17
  <2>4. \A k \in 1..q : s + k \in 1..p
    BY <2>3
  <2>5. \A k \in 1..(q - 1) : s + k \in 1..(p - 1) /\ s + (k + 1) = (s + k) + 1
                             /\ k \in 1..q /\ k + 1 \in 1..q
    BY <2>3
  <2> QED BY <2>2, <2>4, <2>5
<1>7. UNCHANGED <<w, sent, started, exiting, closed>>
  BY DEF writers
<1>8. /\ started \in Seq(Frames) /\ Len(started) \in Nat
      /\ delivered \in Seq(Seq(Bytes)) /\ Len(delivered) \in Nat
  BY <1>0 DEF FTypes
<1>9. /\ delivered' \in Seq(Seq(Bytes)) /\ Len(delivered') = Len(delivered) + 1
      /\ \A k \in 1..Len(delivered) : delivered'[k] = delivered[k]
      /\ delivered'[Len(delivered) + 1] = encode_frame(Head1)
  BY <1>3, <1>8
<1>10. Len(delivered') = Next1 /\ Next1 \in Nat /\ Next1' = Next1 + 1
  BY <1>8, <1>9 DEF Next1
<1>11. FTypes'
  <2>1. e_loop' \in {"idle", "busy", "ended"} /\ e_loop' # "ended"
    BY <1>0 DEF FTypes
  <2>2. 0 \in 0..PartialLimit
    BY LimitsAssumption
  <2> QED BY <1>0, <1>6, <1>7, <1>9, <2>1, <2>2 DEF FTypes
<1>12. Writers' /\ Order'
  BY <1>0, <1>7 DEF Writers, Order, Size
<1>13. DeliveredWhole'
  <2>1. Len(delivered') <= Len(started)
    BY <1>1, <1>8, <1>10
  <2>2. ASSUME NEW k \in 1..Len(delivered')
        PROVE  delivered'[k] = encode_frame(started[k])
    <3>1. CASE k = Next1
      BY <1>9, <1>10, <3>1 DEF Head1, Next1
    <3>2. CASE k # Next1
      <4>1. k \in 1..Len(delivered)
        BY <1>8, <1>9, <1>10, <3>2 DEF Next1
      <4> QED BY <1>0, <1>9, <4>1 DEF DeliveredWhole
    <3> QED BY <3>1, <3>2
  <2> QED BY <1>7, <2>1, <2>2 DEF DeliveredWhole
<1>14. PipeHolds'
  <2>1. (pipe = <<>> <=> Len(delivered) = Len(started))'
    <3>1. pipe' = <<>> <=> Len(pipe) = s
      BY <1>2, <1>17, SMTT(60)
    <3> QED BY <1>5, <1>7, <1>10, <3>1
  <2>2. (\A k \in 1..Len(delivered) : w[started[k]] = "written")'
    <3>1. ASSUME NEW k \in 1..Len(delivered') PROVE w[started[k]] = "written"
      <4>1. CASE k = Next1
        BY <1>5, <4>1 DEF Head1
      <4>2. CASE k # Next1
        <5>1. k \in 1..Len(delivered)
          BY <1>8, <1>9, <1>10, <4>2 DEF Next1
        <5> QED BY <1>0, <5>1 DEF PipeHolds
      <4> QED BY <4>1, <4>2
    <3> QED BY <1>7, <3>1
  <2>3. pipe' # <<>> => pipe'[1] = <<started[Next1 + 1], 1>>
                        /\ pipe'[Len(pipe')] = pipe[Len(pipe)]
    <3> HAVE pipe' # <<>>
    <3>1. p > s /\ 1 \in 1..q /\ q \in 1..q
      <4>1. q # 0 /\ q \in Nat /\ p \in Nat /\ s \in Nat
        BY <1>17
      <4>2. p = s + q
        BY <1>17
      <4> QED BY <4>1, <4>2
    <3> QED BY <1>5, <1>17, <1>18, <3>1
  <2>4. pipe[Len(pipe)] = <<started[Len(started)], sent[started[Len(started)]]>>
    BY <1>0 DEF PipeHolds
  <2>5. (pipe # <<>> =>
           /\ pipe[1] = <<started[Next1], 1>>
           /\ pipe[Len(pipe)] = <<started[Len(started)], sent[started[Len(started)]]>>)'
    BY <1>7, <1>10, <2>3, <2>4
  <2>6. (\A k \in 1..(Len(pipe) - 1) : Follows(pipe[k], pipe[k + 1]))'
    <3>1. ASSUME NEW k \in 1..(q - 1)
          PROVE  Follows(pipe[k], pipe[k + 1])'
      <4>1. PICK m \in Nat : m = s + k
        BY <1>2, <1>18
      <4>2. pipe'[k] = pipe[m] /\ pipe'[k + 1] = pipe[m + 1] /\ m \in 1..(p - 1)
        BY <1>18, <4>1
      <4>3. Follows(pipe[m], pipe[m + 1])
        BY <1>0, <1>17, <4>2 DEF PipeHolds
      <4> QED BY <1>7, <4>2, <4>3 DEF Follows
    <3> QED BY <1>17, <3>1
  <2>7. (\A k \in 1..Len(pipe) : pipe[k][2] <= Size(pipe[k][1]))'
    <3>1. ASSUME NEW k \in 1..q
          PROVE  pipe'[k][2] <= Size(pipe'[k][1])
      <4>1. pipe'[k] = pipe[s + k] /\ s + k \in 1..Len(pipe)
        BY <1>17, <1>18
      <4> QED BY <1>0, <4>1 DEF PipeHolds
    <3> QED BY <1>17, <3>1 DEF Size
  <2> QED BY <2>1, <2>2, <2>5, <2>6, <2>7 DEF PipeHolds
<1>15. Reading' /\ Clock'
  BY <1>14 DEF Reading, Clock
<1>16. Cause'
  <2>1. e_loop' # "ended"
    BY <1>0 DEF FTypes
  <2>2. reason = None
    BY <1>0 DEF Cause
  <2> QED BY <2>1, <2>2, NoneAssumption DEF Cause, EndsForCause
<1> QED BY <1>11, <1>12, <1>13, <1>15, <1>16 DEF FInv

LEMMA PollCompleteKeeps ==
  ASSUME FInv, PollComplete
  PROVE  FInv'
<1>1. e_loop # "ended" /\ age' = 0 /\ UNCHANGED writers /\ pipe # <<>>
  BY PollCompleteCases
<1>2. age' \in 0..PartialLimit
  BY <1>1, LimitsAssumption
<1>3. CASE Torn /\ EndEngine("corrupt") /\ pipe' \in Seq(Bytes)
  BY <1>1, <1>2, <1>3, EndStep
<1>4. CASE /\ DecodesHead(Size(Head1))
           /\ pipe' = SubSeq(pipe, Size(Head1) + 1, Len(pipe))
           /\ delivered' = Append(delivered, encode_frame(Head1))
           /\ partial_start' = None /\ e_loop' \in {e_loop, "busy"}
           /\ UNCHANGED reason
  BY <1>1, <1>4, DecodedStep
<1> QED BY <1>3, <1>4, PollCompleteCases

---------------------------------------------------------------------------
(* Theorems *)

LEMMA InitHolds == FInit => FInv
<1> SUFFICES ASSUME FInit PROVE FInv
  OBVIOUS
<1>1. FTypes
  <2>1. w \in [Frames -> States] /\ sent \in [Frames -> Nat]
    BY DEF FInit, States
  <2>2. pipe = <<>> /\ started = <<>> /\ delivered = <<>>
    BY DEF FInit
  <2>3. pipe \in Seq(Bytes) /\ started \in Seq(Frames) /\ delivered \in Seq(Seq(Bytes))
    BY <2>2
  <2>4. age \in 0..PartialLimit /\ partial_start = None /\ reason = None
    BY LimitsAssumption DEF FInit
  <2>5. exiting \in BOOLEAN /\ closed \in BOOLEAN /\ e_loop = "idle"
    BY DEF FInit
  <2> QED BY <2>1, <2>3, <2>4, <2>5 DEF FTypes
<1>2. Writers
  <2>1. \A f \in Frames : w[f] = "new" /\ sent[f] = 0
    BY DEF FInit
  <2> QED BY <2>1, FramesFact DEF Writers
<1>3. Order
  <2>1. started = <<>> /\ Len(started) = 0 /\ \A f \in Frames : sent[f] = 0
    BY DEF FInit
  <2> QED BY <2>1 DEF Order
<1>4. DeliveredWhole /\ Reading
  BY DEF FInit, DeliveredWhole, Reading, PipeHolds
<1>5. Clock /\ Cause
  BY NoneAssumption DEF FInit, Clock, Cause, EndsForCause
<1> QED BY <1>1, <1>2, <1>3, <1>4, <1>5 DEF FInv

LEMMA StepKeeps == FInv /\ [FNext]_fvars => FInv'
<1> SUFFICES ASSUME FInv, [FNext]_fvars PROVE FInv'
  OBVIOUS
<1>1. ASSUME NEW f \in Frames,
             BeginSend(f) \/ AcquireLock(f) \/ WritePiece(f) \/ CancelSend(f)
      PROVE  FInv'
  BY <1>1, BeginSendKeeps, AcquireLockKeeps, WritePieceKeeps, CancelSendKeeps
<1>2. CASE BeginExit
  BY <1>2, BeginExitKeeps
<1>3. CASE Dispose \/ ClientDies
  BY <1>3, CloseKeeps DEF Dispose, ClientDies
<1>4. CASE EngineLooks
  BY <1>4, PollEmptyKeeps, PollPartialKeeps, PollErrorKeeps, PollCompleteKeeps
     DEF EngineLooks
<1>5. CASE LeaveBusy \/ Tick
  BY <1>5, LeaveBusyKeeps, TickKeeps
<1>6. CASE UNCHANGED fvars
  <2>1. /\ UNCHANGED <<writers, pipe, delivered, partial_start, e_loop, reason, age>>
    BY <1>6 DEF fvars, reader
  <2>2. FTypes /\ Clock /\ Cause
    BY DEF FInv
  <2>3. Clock'
    BY <2>1, <2>2, PeekedPartialKept DEF Clock
  <2>4. Cause'
    BY <2>1, <2>2 DEF Cause, EndsForCause, Torn, writers
  <2>5. /\ e_loop' \in {"idle", "busy", "ended"} /\ age' \in 0..PartialLimit
        /\ partial_start' \in (0..PartialLimit) \union {None}
        /\ reason' \in {None, "closed", "corrupt", "partial"}
    BY <2>1, <2>2 DEF FTypes
  <2> QED BY <2>1, <2>3, <2>4, <2>5, LookStep
<1> QED BY <1>1, <1>2, <1>3, <1>4, <1>5, <1>6 DEF FNext

\* The invariant above, for frames of any number and sizes (SendFrameAsync,
\* peek_frame_readiness and the three loops of main.rs).
THEOREM TransportInvariant == FSpec => []FInv
<1>1. FInit => FInv
  BY InitHolds
<1>2. FInv /\ [FNext]_fvars => FInv'
  BY StepKeeps
<1> QED BY <1>1, <1>2, PTL DEF FSpec

\* Whatever is cancelled, torn or delivered in pieces, what recv_command
\* decodes is the frames in the order in which they were begun.
THEOREM FramesArriveWhole == FSpec => []DeliveredWhole
<1>1. FInv => DeliveredWhole
  BY DEF FInv
<1> QED BY <1>1, TransportInvariant, PTL

\* The engine leaves its client only for a frame that was cut, a pipe that
\* was closed or one frame that stayed partial for the whole limit.
THEOREM EngineLeavesForCause == FSpec => []EndsForCause
<1>1. FInv => EndsForCause
  BY DEF FInv, Cause
<1> QED BY <1>1, TransportInvariant, PTL
=============================================================================
