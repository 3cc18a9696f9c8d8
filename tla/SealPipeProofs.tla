---------------------------- MODULE SealPipeProofs ----------------------------
(***************************************************************************)
(* Proofs about the two jobs at the ends of a pipe, for every chunk size,   *)
(* input, fault of the sinks and number of faults of the transport.         *)
(***************************************************************************)
EXTENDS SealPipe, EncryptWriterProofs

OnWire(f) == \E j \in 1..Len(wire) : wire[j] = f

\* What arrives whole was sealed.
LineInv == \A i \in 1..Len(line) : line[i].state = "whole" => OnWire(line[i])

JobInv ==
  /\ live /\ ~reads /\ plaintextMax = ChunkSize /\ dBuf = D!Empty
  /\ decJob = "start" =>
       /\ dCall = "idle" /\ ~consumed /\ res = "none"
       /\ out = <<>> /\ dCounter = 0 /\ pos = 1 /\ aligned /\ nonceOK
  /\ dCall = "writeTo" => decJob = "copy" /\ res = "none" /\ nonceOK
  /\ decJob = "ok" => res = "nil"
  /\ encJob = "start" => call = "idle"
  /\ encJob \in {"start", "copy"} => ~closed
  /\ encJob \in {"close", "ok"} => closed
  /\ encJob = "ok" => call = "idle" /\ ~failed

\* A decryption in progress has handed out one whole chunk for each counter.
OpenedInv ==
  dCall = "writeTo" \/ decJob = "start" =>
    /\ Len(out) = dCounter
    /\ \A k \in 1..Len(out) : OnWire(SealChunk(out[k], k - 1)) /\ out[k].lo < out[k].hi

\* Nothing has gone wrong so far but perhaps the sink of the decryption.
Intact == faults = 0 /\ ~failed /\ encJob \notin {"err", "crashed"}

CarriedInv ==
  faults = 0 => /\ carried = Len(line)
                /\ \A i \in 1..Len(line) : line[i] = wire[i]
                /\ ended => carried = Len(wire) /\ EncryptOver

InStepInv ==
  Intact =>
    /\ dCall = "writeTo" \/ decJob = "start" =>
         /\ aligned /\ dCounter = pos - 1
         /\ \A i \in 1..(pos - 1) : ~IsEOF(wire[i])
    /\ decJob = "copy" /\ dCall = "idle" => res \in {"nil", "sink"}
    /\ decJob = "err" => res = "sink"

PipeIInv ==
  IInv /\ PipeTypeOK /\ LineInv /\ JobInv /\ OpenedInv /\ CarriedInv /\ InStepInv

\* What is stored was taken from the input.
BoundInv == \A i \in 1..Len(wire) : wire[i].hi <= buf.hi

\* A decryption that succeeded has seen the marker, where its output ends.
MarkerInv ==
  res = "nil" => \E j \in 1..Len(wire) : IsEOF(wire[j]) /\ wire[j].lo = Copy!End(out)

\* A chunk comes out twice only where the encryption fails.
RepeatInv == Copy!Repeated(out) => failed

CopyInv == BoundInv /\ MarkerInv /\ RepeatInv
-----------------------------------------------------------------------------
(* The encrypting side                                                      *)

LEMMA PipeInitIInv == PipeInit => PipeIInv
<1> SUFFICES ASSUME PipeInit
             PROVE  PipeIInv
  OBVIOUS
<1>1. /\ Init /\ line = <<>> /\ ended = FALSE /\ encJob = "start" /\ decJob = "start"
      /\ carried = 0 /\ faults = 0
      /\ plaintextMax = ChunkSize /\ pos = 1 /\ aligned = TRUE /\ broken = FALSE
      /\ dCounter = 0
      /\ nonceOK = TRUE /\ live = TRUE /\ dBuf = D!Empty /\ eof = FALSE /\ consumed = FALSE
      /\ dCall = "idle" /\ res = "none" /\ reads = FALSE /\ failures = <<>> /\ out = <<>>
  BY DEF PipeInit, D!ReaderInit
<1>2. IInv
  BY <1>1, InitIInv
<1>3. /\ wire = <<>> /\ call = "idle" /\ ~closed
  BY <1>1 DEF Init
<1>4. PipeTypeOK
  <2>1. TypeOK
    BY <1>2 DEF IInv
  <2>2. D!ReaderTypeOK
    <3>1. line \in Seq(D!Frame) /\ out \in Seq(D!Run)
      BY <1>1
    <3>2. dBuf \in D!Run /\ dBuf.lo <= dBuf.hi
      BY <1>1 DEF D!Empty, D!Run
    <3>3. pos \in 1..(Len(line) + 1)
      BY <1>1
    <3>4. res \in {"none", "data", "EOF", "nil"} \cup D!Errors
      BY <1>1
    <3>5. failures \in Seq(Nat \cup {D!NoIndex})
      BY <1>1
    <3> QED
      BY <1>1, <3>1, <3>2, <3>3, <3>4, <3>5 DEF D!ReaderTypeOK
  <2> QED
    BY <1>1, <1>3, <2>1, <2>2, PipeAssumption DEF PipeTypeOK
<1>5. LineInv /\ JobInv /\ OpenedInv
  BY <1>1, <1>3 DEF LineInv, JobInv, OpenedInv
<1>6. CarriedInv /\ InStepInv
  BY <1>1 DEF CarriedInv, InStepInv
<1> QED
  BY <1>2, <1>4, <1>5, <1>6 DEF PipeIInv

\* Every step of the pipe is one of the writer, or none.
LEMMA PipeStepIsWriters == [PipeNext]_pipe => [Next]_vars
<1>1. Encrypt => [Next]_vars
  BY DEF Encrypt, EncryptCopy, EncryptStep, EncryptClose, EncryptReturn, Next, Begin
<1>2. Crash => UNCHANGED vars
  BY DEF Crash
<1> QED
  BY <1>1, <1>2 DEF PipeNext, pipe, encVars

\* The wire, after a step that seals f.
LEMMA EmitGrows ==
  ASSUME TypeOK, NEW f \in Frame, f.state = "whole", NEW o \in Outcomes, Emit(f, o)
  PROVE  /\ wire' \in Seq(Frame) /\ Len(wire') \in Nat
         /\ Len(wire) <= Len(wire') /\ \A i \in 1..Len(wire) : wire'[i] = wire[i]
<1>1. wire \in Seq(Frame) /\ Len(wire) \in Nat
  BY DEF TypeOK
<1>2. CASE wire' = wire
  BY <1>1, <1>2
<1>3. CASE \E g \in Frame : wire' = Append(wire, g)
  BY <1>1, <1>3, AppendFacts
<1> QED
  BY <1>2, <1>3, EmitFacts

\* What a step of the writer does to what the others see of it.
LEMMA WriterSteps ==
  ASSUME IInv, [Next]_vars
  PROVE  \/ /\ \E b \in Run, o \in Outcomes :
                 /\ Flush(b, o) /\ b.lo = buf.lo /\ b.lo < b.hi /\ buf.hi <= b.hi
                 /\ closed => b = buf
                 /\ failed' = (failed \/ o # "ok")
            /\ closed' = closed /\ call # "idle"
         \/ /\ \E o \in Outcomes : /\ Emit(SealEOF(buf.hi, counter), o)
                                   /\ failed' = (failed \/ o # "ok")
            /\ closed' = closed /\ closed /\ call # "idle"
            /\ buf.lo = buf.hi /\ UNCHANGED <<buf, counter>>
         \/ /\ UNCHANGED <<wire, counter>> /\ buf' \in Run
            /\ buf'.lo = buf.lo /\ buf.hi <= buf'.hi
            /\ closed => closed' /\ buf' = buf
            /\ failed => failed'
<1>1. TypeOK /\ buf \in Run /\ buf.lo \in Nat /\ buf.hi \in Nat /\ CallInv
  BY DEF IInv, TypeOK, Run
<1>2. CASE WriteAppend
  BY <1>1, <1>2, AppendedFacts DEF WriteAppend, CallInv, histVars
<1>3. ASSUME NEW o \in Outcomes, WriteFlush(o)
      PROVE  /\ \E b \in Run : /\ Flush(b, o) /\ b.lo = buf.lo /\ b.lo < b.hi /\ buf.hi <= b.hi
                               /\ closed => b = buf
                               /\ failed' = (failed \/ o # "ok")
             /\ closed' = closed /\ call # "idle"
  <2>1. todo > 0 /\ ChunkFull(Appended) /\ Flush(Appended, o) /\ ~closed
    BY <1>1, <1>3 DEF WriteFlush, CallInv
  <2>2. Appended \in Run /\ Appended.lo = buf.lo /\ buf.hi <= Appended.hi
    BY <2>1, AppendedFacts
  <2>3. Appended.lo < Appended.hi
    BY <2>1, <2>2, WriterAssumption DEF ChunkFull, Size, Run
  <2>4. closed' = closed /\ failed' = (failed \/ o # "ok") /\ call # "idle"
    BY <1>1, <1>3 DEF WriteFlush, TypeOK
  <2> QED
    BY <2>1, <2>2, <2>3, <2>4
<1>4. ASSUME NEW o \in Outcomes, CloseFlush(o)
      PROVE  /\ Flush(buf, o) /\ buf.lo < buf.hi /\ closed' = closed /\ call # "idle"
             /\ failed' = (failed \/ o # "ok")
  BY <1>1, <1>4 DEF CloseFlush, Size
<1>5. ASSUME NEW o \in Outcomes, CloseEOF(o)
      PROVE  /\ Emit(SealEOF(buf.hi, counter), o) /\ closed' = closed /\ closed
             /\ failed' = (failed \/ o # "ok") /\ call # "idle"
             /\ buf.lo = buf.hi /\ UNCHANGED <<buf, counter>>
  BY <1>1, <1>5 DEF CloseEOF, CallInv, Size
<1>6. CASE \/ \E n \in 0..MaxInput : Write(n)
           \/ ReadFrom \/ Close \/ CloseAgain \/ WriteReturn \/ ReadFromReturn
           \/ \E nn \in 0..ChunkSize, status \in SourceSays \ {"none"} : ReadPiece(nn, status)
           \/ UNCHANGED vars
  <2>1. UNCHANGED <<wire, counter, buf>>
    BY <1>6 DEF Write, ReadFrom, Close, CloseAgain, WriteReturn, ReadFromReturn, ReadPiece, vars,
                writerVars, histVars
  <2>2. closed => closed'
    BY <1>6 DEF Write, ReadFrom, Close, CloseAgain, WriteReturn, ReadFromReturn, ReadPiece, vars,
                writerVars, histVars
  <2>3. failed => failed'
    BY <1>6 DEF Write, ReadFrom, Close, CloseAgain, WriteReturn, ReadFromReturn, ReadPiece, vars,
                writerVars, histVars
  <2> QED
    BY <1>1, <2>1, <2>2, <2>3
<1> QED
  BY <1>1, <1>2, <1>3, <1>4, <1>5, <1>6 DEF Next, Begin, Continue

\* Frames stay where they are, and no byte of the input is taken back.
LEMMA WriterGrows ==
  ASSUME IInv, [Next]_vars
  PROVE  /\ wire \in Seq(Frame) /\ wire' \in Seq(Frame)
         /\ Len(wire) \in Nat /\ Len(wire') \in Nat
         /\ Len(wire) <= Len(wire') /\ \A i \in 1..Len(wire) : wire'[i] = wire[i]
         /\ buf.hi \in Nat /\ buf'.hi \in Nat /\ buf.hi <= buf'.hi
         /\ closed => closed' /\ buf'.hi = buf.hi
         /\ failed => failed'
<1>1. TypeOK /\ buf \in Run /\ buf.lo \in Nat /\ buf.hi \in Nat /\ counter \in Nat
      /\ wire \in Seq(Frame)
  BY DEF IInv, TypeOK, Run
<1>2. ASSUME NEW b \in Run, NEW o \in Outcomes,
             Flush(b, o), b.lo = buf.lo, b.lo < b.hi, buf.hi <= b.hi, closed => b = buf,
             failed' = (failed \/ o # "ok"), closed' = closed
      PROVE  /\ wire' \in Seq(Frame) /\ Len(wire') \in Nat
             /\ Len(wire) <= Len(wire') /\ \A i \in 1..Len(wire) : wire'[i] = wire[i]
             /\ buf'.hi = b.hi /\ b.hi \in Nat
  <2>1. SealChunk(b, counter) \in Frame /\ SealChunk(b, counter).state = "whole"
    BY <1>1, <1>2 DEF SealChunk, Frame, FrameState, Run
  <2>2. Emit(SealChunk(b, counter), o) /\ buf'.hi = b.hi
    BY <1>2 DEF Flush
  <2> QED
    BY <1>1, <2>1, <2>2, EmitGrows DEF Run
<1>3. ASSUME NEW o \in Outcomes, Emit(SealEOF(buf.hi, counter), o)
      PROVE  /\ wire' \in Seq(Frame) /\ Len(wire') \in Nat
             /\ Len(wire) <= Len(wire') /\ \A i \in 1..Len(wire) : wire'[i] = wire[i]
  <2>1. SealEOF(buf.hi, counter) \in Frame /\ SealEOF(buf.hi, counter).state = "whole"
    BY <1>1 DEF SealEOF, SealChunk, Frame, FrameState
  <2> QED
    BY <1>1, <1>3, <2>1, EmitGrows
<1>4. ASSUME UNCHANGED <<wire, counter>>, buf' \in Run, buf.hi <= buf'.hi
      PROVE  /\ wire' \in Seq(Frame) /\ Len(wire') \in Nat
             /\ Len(wire) <= Len(wire') /\ \A i \in 1..Len(wire) : wire'[i] = wire[i]
             /\ buf'.hi \in Nat
  BY <1>1, <1>4 DEF Run
<1>5. CASE \E b \in Run, o \in Outcomes :
             /\ Flush(b, o) /\ b.lo = buf.lo /\ b.lo < b.hi /\ buf.hi <= b.hi
             /\ closed => b = buf
             /\ failed' = (failed \/ o # "ok")
             /\ closed' = closed
  <2>1. PICK b \in Run, o \in Outcomes :
             /\ Flush(b, o) /\ b.lo = buf.lo /\ b.lo < b.hi /\ buf.hi <= b.hi
             /\ closed => b = buf
             /\ failed' = (failed \/ o # "ok")
             /\ closed' = closed
    BY <1>5
  <2>2. /\ wire' \in Seq(Frame) /\ Len(wire') \in Nat
        /\ Len(wire) <= Len(wire') /\ \A i \in 1..Len(wire) : wire'[i] = wire[i]
        /\ buf'.hi = b.hi /\ b.hi \in Nat
    BY <1>2, <2>1
  <2>3. closed => closed' /\ buf'.hi = buf.hi
    BY <2>1, <2>2
  <2>4. failed => failed'
    BY <2>1
  <2> QED
    BY <1>1, <2>1, <2>2, <2>3, <2>4
<1>6. CASE \E o \in Outcomes : /\ Emit(SealEOF(buf.hi, counter), o)
                               /\ failed' = (failed \/ o # "ok")
                               /\ closed' = closed /\ UNCHANGED buf
  <2>1. PICK o \in Outcomes : /\ Emit(SealEOF(buf.hi, counter), o)
                              /\ failed' = (failed \/ o # "ok")
                              /\ closed' = closed /\ UNCHANGED buf
    BY <1>6
  <2>2. /\ wire' \in Seq(Frame) /\ Len(wire') \in Nat
        /\ Len(wire) <= Len(wire') /\ \A i \in 1..Len(wire) : wire'[i] = wire[i]
    BY <1>3, <2>1
  <2>3. (closed => closed' /\ buf'.hi = buf.hi) /\ (failed => failed')
    BY <2>1
  <2>4. buf'.hi = buf.hi
    BY <2>1
  <2> QED
    BY <1>1, <2>2, <2>3, <2>4
<1>7. CASE /\ UNCHANGED <<wire, counter>> /\ buf' \in Run
           /\ buf.hi <= buf'.hi
           /\ closed => closed' /\ buf' = buf
           /\ failed => failed'
  BY <1>1, <1>4, <1>7
<1> QED
  BY <1>5, <1>6, <1>7, WriterSteps

LEMMA BoundStep ==
  ASSUME IInv, BoundInv, [Next]_vars
  PROVE  BoundInv'
<1>1. /\ wire \in Seq(Frame) /\ Len(wire) \in Nat /\ buf \in Run /\ buf.hi \in Nat
      /\ counter \in Nat /\ TypeOK
  BY DEF IInv, TypeOK, Run
<1>2. /\ buf'.hi \in Nat /\ buf.hi <= buf'.hi
      /\ Len(wire') \in Nat /\ \A i \in 1..Len(wire) : wire'[i] = wire[i]
  BY WriterGrows
<1>3. \A i \in 1..Len(wire) : wire'[i].hi <= buf'.hi
  <2>1. \A i \in 1..Len(wire) : wire[i].hi \in Nat
    <3>1. \A i \in 1..Len(wire) : wire[i] \in Frame
      BY <1>1
    <3> QED
      BY <3>1 DEF Frame
  <2> QED
    BY <1>1, <1>2, <2>1 DEF BoundInv
<1>4. ASSUME NEW f \in Frame, NEW o \in Outcomes, Emit(f, o), f.state = "whole",
             f.hi <= buf'.hi
      PROVE  BoundInv'
  <2>1. CASE wire' = wire
    BY <1>3, <2>1 DEF BoundInv
  <2>2. ASSUME NEW g \in Frame, wire' = Append(wire, g), g.hi = f.hi
        PROVE  BoundInv'
    <3>1. Len(wire') = Len(wire) + 1 /\ wire'[Len(wire) + 1] = g
      BY <1>1, <2>2, AppendFacts
    <3> QED
      BY <1>1, <1>3, <1>4, <2>2, <3>1 DEF BoundInv
  <2> QED
    BY <1>1, <1>4, <2>1, <2>2, EmitFacts
<1>5. ASSUME NEW b \in Run, NEW o \in Outcomes, Flush(b, o), b.lo < b.hi
      PROVE  BoundInv'
  <2> DEFINE f == SealChunk(b, counter)
  <2>1. f \in Frame /\ f.hi = b.hi /\ f.state = "whole" /\ b.hi \in Nat
    BY <1>1 DEF SealChunk, Frame, FrameState, Run
  <2>2. Emit(f, o) /\ buf'.hi = b.hi
    BY <1>5 DEF Flush
  <2> HIDE DEF f
  <2> QED
    BY <1>4, <2>1, <2>2
<1>6. ASSUME NEW o \in Outcomes, Emit(SealEOF(buf.hi, counter), o), UNCHANGED buf
      PROVE  BoundInv'
  <2> DEFINE f == SealEOF(buf.hi, counter)
  <2>1. f \in Frame /\ f.hi = buf.hi /\ f.state = "whole"
    BY <1>1 DEF SealEOF, SealChunk, Frame, FrameState
  <2>2. Emit(f, o)
    BY <1>6
  <2> HIDE DEF f
  <2> QED
    BY <1>1, <1>4, <1>6, <2>1, <2>2
<1>7. CASE UNCHANGED wire
  BY <1>3, <1>7 DEF BoundInv
<1> QED
  BY <1>5, <1>6, <1>7, WriterSteps
-----------------------------------------------------------------------------
(* The steps that keep PipeIInv                                             *)

LEMMA PipeParts ==
  ASSUME PipeIInv
  PROVE  /\ IInv /\ PipeTypeOK /\ LineInv /\ JobInv /\ OpenedInv /\ CarriedInv /\ InStepInv
         /\ TypeOK /\ D!ReaderTypeOK
BY DEF PipeIInv, PipeTypeOK

LEMMA SameFrames == D!Frame = Frame /\ D!Run = Run
BY DEF D!Frame, D!FrameState, D!Run, Frame, FrameState, Run

\* The wire only grows.
LEMMA OnWireStays ==
  ASSUME IInv, [Next]_vars, NEW f, OnWire(f)
  PROVE  OnWire(f)'
<1>1. PICK j \in 1..Len(wire) : wire[j] = f
  BY DEF OnWire
<1>2. j \in 1..Len(wire') /\ wire'[j] = f
  BY <1>1, WriterGrows
<1> QED
  BY <1>2 DEF OnWire

\* Only Close closes the writer.
LEMMA ContinueKeepsClosed == Continue => closed' = closed
BY DEF Continue, WriteAppend, WriteFlush, WriteReturn, ReadPiece, ReadFromReturn, CloseFlush,
       CloseEOF

LEMMA EncryptSide ==
  ASSUME PipeIInv, Encrypt \/ Crash, UNCHANGED <<decVars, pipeVars>>
  PROVE  PipeIInv'
<1>1. /\ IInv /\ PipeTypeOK /\ LineInv /\ JobInv /\ OpenedInv /\ CarriedInv /\ InStepInv
      /\ D!ReaderTypeOK
  BY PipeParts
<1>2. /\ UNCHANGED <<pos, aligned, broken, dCounter, nonceOK, live, dBuf, eof, consumed, dCall, res>>
      /\ UNCHANGED <<reads, failures, out, decJob, line, ended, plaintextMax, carried, faults>>
  BY DEF decVars, reader, pipeVars
<1>3. [Next]_vars
  BY PipeStepIsWriters DEF PipeNext
<1>4. IInv'
  BY <1>1, <1>3, StepIInv
<1>5. /\ encJob \in {"start", "copy", "close"}
      /\ encJob' \in {"copy", "close", "ok", "err", "crashed"}
  BY DEF Encrypt, EncryptCopy, EncryptStep, EncryptClose, EncryptReturn, Crash
<1>6. PipeTypeOK'
  <2>1. D!ReaderTypeOK'
    BY <1>1, <1>2 DEF D!ReaderTypeOK
  <2>2. carried' \in 0..Len(wire')
    BY <1>1, <1>2, <1>3, WriterGrows DEF PipeTypeOK
  <2> QED
    BY <1>1, <1>2, <1>4, <1>5, <2>1, <2>2 DEF PipeTypeOK, IInv
<1>7. LineInv'
  BY <1>1, <1>2, <1>3, OnWireStays DEF LineInv
<1>8. JobInv'
  <2>1. CASE EncryptCopy
    <3>1. closed' = closed /\ encJob = "start" /\ encJob' = "copy"
      BY <2>1 DEF EncryptCopy, ReadFrom, Write
    <3> QED
      BY <1>1, <1>2, <3>1 DEF JobInv
  <2>2. CASE EncryptStep
    BY <1>1, <1>2, <2>2, ContinueKeepsClosed DEF JobInv, EncryptStep
  <2>3. CASE EncryptClose
    <3>1. closed' /\ encJob' = "close"
      BY <2>3 DEF EncryptClose, Close
    <3> QED
      BY <1>1, <1>2, <3>1 DEF JobInv
  <2>4. CASE EncryptReturn
    <3>1. /\ UNCHANGED <<closed, failed, call>> /\ encJob = "close" /\ call = "idle"
          /\ encJob' = IF failed THEN "err" ELSE "ok"
      BY <2>4 DEF EncryptReturn, vars, writerVars, histVars
    <3> QED
      BY <1>1, <1>2, <3>1 DEF JobInv
  <2>5. CASE Crash
    BY <1>1, <1>2, <2>5 DEF JobInv, Crash
  <2> QED
    BY <2>1, <2>2, <2>3, <2>4, <2>5 DEF Encrypt
<1>9. OpenedInv'
  BY <1>1, <1>2, <1>3, OnWireStays DEF OpenedInv
<1>10. CarriedInv'
  <2>1. ASSUME faults = 0
        PROVE  ~ended /\ carried = Len(line) /\ \A i \in 1..Len(line) : line[i] = wire'[i]
    <3>1. /\ ~ended /\ carried = Len(line)
          /\ \A i \in 1..Len(line) : line[i] = wire[i]
      BY <1>1, <1>5, <2>1 DEF CarriedInv, EncryptOver
    <3>2. \A i \in 1..Len(line) : i \in 1..Len(wire)
      BY <1>1, <1>3, <3>1, WriterGrows DEF PipeTypeOK
    <3> QED
      BY <1>1, <1>3, <3>1, <3>2, WriterGrows
  <2> QED
    BY <1>2, <2>1 DEF CarriedInv
<1>11. InStepInv'
  <2>1. SUFFICES ASSUME Intact'
                 PROVE  InStepInv'
    BY DEF InStepInv
  <2>2. Intact
    BY <1>1, <1>2, <1>3, <1>5, <2>1, WriterGrows DEF Intact
  <2>3. pos - 1 <= Len(wire) /\ pos \in Nat
    BY <1>1, <1>3, <2>2, WriterGrows DEF Intact, CarriedInv, PipeTypeOK, D!ReaderTypeOK
  <2>4. \A i \in 1..(pos - 1) : wire'[i] = wire[i]
    BY <1>1, <1>3, <2>3, WriterGrows
  <2> QED
    BY <1>1, <1>2, <2>2, <2>4 DEF InStepInv
<1> QED
  BY <1>4, <1>6, <1>7, <1>8, <1>9, <1>10, <1>11 DEF PipeIInv

\* The transport adds a frame that the writer has stored, or harms or drops it.
LEMMA TransportSide ==
  ASSUME PipeIInv, Transport \/ Fault, UNCHANGED <<encVars, decVars>>
  PROVE  PipeIInv'
<1>1. /\ IInv /\ PipeTypeOK /\ LineInv /\ JobInv /\ OpenedInv /\ CarriedInv /\ InStepInv
      /\ TypeOK /\ D!ReaderTypeOK
  BY PipeParts
<1>2. /\ UNCHANGED <<pos, aligned, broken, dCounter, nonceOK, live, dBuf, eof, consumed, dCall, res>>
      /\ UNCHANGED <<reads, failures, out, decJob, vars, encJob>>
      /\ UNCHANGED <<wire, closed, call, failed, buf>>
  BY DEF decVars, reader, encVars, vars, writerVars, histVars
<1>3. UNCHANGED plaintextMax
  BY DEF Transport, Carry, CarryEnd, Fault, Damage, Drop, Cut
<1>4. wire \in Seq(Frame) /\ line \in Seq(Frame) /\ carried \in Nat /\ faults \in 0..MaxFaults
  BY <1>1, SameFrames DEF TypeOK, D!ReaderTypeOK, PipeTypeOK
<1>5. /\ \/ line' = line
         \/ /\ carried < Len(wire) /\ faults' = faults
            /\ line' = Append(line, wire[carried + 1])
         \/ /\ carried < Len(wire) /\ faults' = faults + 1
            /\ \E st \in FrameState \ {"whole"} : line' = Append(line, Harmed(wire[carried + 1], st))
      /\ carried' \in {carried, carried + 1}
      /\ carried' = carried + 1 => carried < Len(wire)
      /\ faults' \in {faults, faults + 1} /\ faults' \in 0..MaxFaults
      /\ ended' \in BOOLEAN
  <2>0. ended \in BOOLEAN /\ carried + 1 # carried
    BY <1>1, <1>4 DEF D!ReaderTypeOK
  <2>1. CASE Carry
    BY <1>4, <2>0, <2>1 DEF Carry
  <2>2. CASE CarryEnd
    BY <1>4, <2>0, <2>2 DEF CarryEnd
  <2>3. CASE \E st \in {"bad", "torn"} : Damage(st)
    BY <1>4, <2>0, <2>3, PipeAssumption DEF Damage, FrameState
  <2>4. CASE Drop
    BY <1>4, <2>0, <2>4, PipeAssumption DEF Drop
  <2>5. CASE Cut
    BY <1>4, <2>0, <2>5, PipeAssumption DEF Cut, FrameState
  <2> QED
    BY <2>1, <2>2, <2>3, <2>4, <2>5 DEF Transport, Fault
<1>6. \E e \in Frame : /\ line' \in {line, Append(line, e)}
                       /\ e.state = "whole" => OnWire(e)
  <2>1. CASE line' = line
    <3>1. [ctr |-> 0, lo |-> 0, hi |-> 0, state |-> "torn"] \in Frame
      BY DEF Frame, FrameState
    <3> QED
      BY <2>1, <3>1
  <2>2. ASSUME carried < Len(wire)
        PROVE  wire[carried + 1] \in Frame /\ OnWire(wire[carried + 1])
    BY <1>4, <2>2 DEF OnWire
  <2>3. ASSUME carried < Len(wire), NEW st \in FrameState \ {"whole"}
        PROVE  /\ Harmed(wire[carried + 1], st) \in Frame
               /\ Harmed(wire[carried + 1], st).state # "whole"
    BY <2>2, <2>3 DEF Harmed, Frame
  <2> QED
    BY <1>5, <2>1, <2>2, <2>3
<1>7. PICK e \in Frame : line' \in {line, Append(line, e)} /\ (e.state = "whole" => OnWire(e))
  BY <1>6
<1>8. /\ line' \in Seq(Frame) /\ Len(line') \in {Len(line), Len(line) + 1} /\ Len(line) \in Nat
      /\ \A i \in 1..Len(line') : line'[i] = e \/ (i \in 1..Len(line) /\ line'[i] = line[i])
  <2>1. CASE line' = line
    BY <1>4, <2>1
  <2>2. CASE line' = Append(line, e)
    BY <1>4, <2>2, AppendFacts
  <2> QED
    BY <1>7, <2>1, <2>2
<1>9. PipeTypeOK'
  <2>1. D!ReaderTypeOK'
    BY <1>1, <1>2, <1>3, <1>5, <1>8, SameFrames DEF D!ReaderTypeOK
  <2>2. TypeOK'
    BY <1>1, <1>2 DEF TypeOK, vars, writerVars, histVars
  <2>3. carried' \in 0..Len(wire')
    BY <1>1, <1>2, <1>4, <1>5 DEF PipeTypeOK
  <2> QED
    BY <1>1, <1>2, <1>5, <2>1, <2>2, <2>3 DEF PipeTypeOK
<1>10. LineInv'
  BY <1>1, <1>2, <1>7, <1>8 DEF LineInv, OnWire
<1>11. JobInv' /\ OpenedInv'
  BY <1>1, <1>2, <1>3 DEF JobInv, OpenedInv, OnWire
<1>12. CarriedInv'
  <2>1. SUFFICES ASSUME faults' = 0
                 PROVE  /\ carried' = Len(line')
                        /\ \A i \in 1..Len(line') : line'[i] = wire'[i]
                        /\ ended' => carried' = Len(wire') /\ EncryptOver'
    BY DEF CarriedInv
  <2>2. faults = 0 /\ Transport
    BY <1>4, <1>5, <2>1 DEF Fault, Damage, Drop, Cut
  <2>3. carried = Len(line) /\ \A i \in 1..Len(line) : line[i] = wire[i]
    BY <1>1, <2>2 DEF CarriedInv
  <2>4. CASE Carry
    <3>1. line' = Append(line, wire[carried + 1]) /\ carried' = carried + 1 /\ ~ended'
      BY <2>4 DEF Carry
    <3> QED
      BY <1>2, <1>4, <2>3, <3>1, AppendFacts
  <2>5. CASE CarryEnd
    BY <1>2, <2>3, <2>5 DEF CarryEnd, EncryptOver
  <2> QED
    BY <2>2, <2>4, <2>5 DEF Transport
<1>13. InStepInv'
  <2>1. Intact' => Intact
    BY <1>2, <1>4, <1>5 DEF Intact
  <2> QED
    BY <1>1, <1>2, <2>1 DEF InStepInv
<1>14. IInv'
  BY <1>1, <1>2, StepIInv
<1> QED
  BY <1>9, <1>10, <1>11, <1>12, <1>13, <1>14 DEF PipeIInv

\* A frame that is opened is one the writer has stored, under the reader's counter.
LEMMA Fetched ==
  ASSUME PipeIInv, NEW r \in {"data", "eof"}, D!FetchChunk(r)
  PROVE  /\ pos \in 1..Len(line) /\ pos' = pos + 1 /\ aligned' = aligned /\ aligned
         /\ dCounter \in Nat /\ dCounter' = dCounter + 1
         /\ line[pos] \in Frame /\ line[pos].state = "whole" /\ line[pos].ctr = dCounter
         /\ OnWire(line[pos]) /\ line[pos].lo <= line[pos].hi
         /\ r = "eof" <=> IsEOF(line[pos])
         /\ nonceOK
<1>1. /\ IInv /\ LineInv /\ D!ReaderTypeOK
      /\ line \in Seq(Frame) /\ pos \in 1..(Len(line) + 1) /\ dCounter \in Nat
  BY PipeParts, SameFrames DEF D!ReaderTypeOK
<1>2. /\ ~D!Garbled /\ pos <= Len(line) /\ r = D!OpenChunk(line[pos], dCounter, nonceOK)
      /\ pos' = pos + 1 /\ aligned' = aligned /\ dCounter' = dCounter + 1
  BY DEF D!FetchChunk
<1>3. pos \in 1..Len(line) /\ line[pos] \in Frame /\ aligned
  BY <1>1, <1>2 DEF D!Garbled
<1>4. /\ line[pos].state = "whole" /\ line[pos].ctr = dCounter /\ nonceOK
      /\ r = "eof" <=> IsEOF(line[pos])
  BY <1>2 DEF D!OpenChunk, D!IsEOF, D!Size, IsEOF, Size
<1>5. OnWire(line[pos])
  BY <1>1, <1>3, <1>4 DEF LineInv
<1>6. line[pos].lo <= line[pos].hi
  BY <1>1, <1>5 DEF OnWire, IInv, FramesInv
<1> QED
  BY <1>1, <1>2, <1>3, <1>4, <1>5, <1>6

\* The types of the reader, after each way a step can go.
LEMMA ReaderTypes ==
  ASSUME PipeIInv, D!WriteToStep
  PROVE  D!ReaderTypeOK'
<1>1. /\ D!ReaderTypeOK /\ line \in Seq(Frame) /\ Len(line) \in Nat
      /\ pos \in 1..(Len(line) + 1) /\ dCounter \in Nat /\ aligned \in BOOLEAN
      /\ broken \in BOOLEAN /\ failures \in Seq(Nat \cup {D!NoIndex})
      /\ out \in Seq(Run) /\ dCounter + 1 \in Nat
  BY PipeParts, SameFrames DEF D!ReaderTypeOK
<1>2. UNCHANGED <<line, ended, plaintextMax, live, dBuf, eof, consumed, reads>>
  BY DEF D!WriteToStep, D!WriteToChunk, D!WriteToSinkError, D!WriteToMarker, D!WriteToFail,
         D!WriteToError, D!streamVars
<1>3. ASSUME NEW r, D!FetchChunk(r)
      PROVE  pos' \in 1..(Len(line) + 1) /\ dCounter' \in Nat /\ aligned' \in BOOLEAN
             /\ broken' = broken
  BY <1>1, <1>3 DEF D!FetchChunk, D!Garbled, D!Resync
<1>4. ASSUME NEW r, D!FetchEnd(r) \/ D!FetchTooLarge \/ D!FetchPanic
      PROVE  pos' \in 1..(Len(line) + 1) /\ dCounter' \in Nat /\ aligned' \in BOOLEAN
             /\ broken' = broken
  <2>0. broken' = broken
    BY <1>4 DEF D!FetchEnd, D!FetchTooLarge, D!FetchPanic
  <2>1. CASE D!FetchEnd(r)
    <3>1. /\ pos' = pos \/ pos' = Len(line) + 1
          /\ aligned' = aligned \/ aligned' = FALSE
          /\ dCounter' = dCounter
      BY <2>1 DEF D!FetchEnd
    <3>2. aligned' \in BOOLEAN
      BY <1>1, <3>1
    <3>3. pos' \in 1..(Len(line) + 1) /\ dCounter' \in Nat
      BY <1>1, <3>1
    <3> QED
      BY <2>0, <3>2, <3>3
  <2>2. CASE D!FetchTooLarge
    <3>1. pos' \in pos..(Len(line) + 1) /\ aligned' \in BOOLEAN /\ dCounter' = dCounter
      BY <2>2 DEF D!FetchTooLarge, D!Resync
    <3> QED
      BY <1>1, <2>0, <3>1
  <2>3. CASE D!FetchPanic
    BY <1>1, <2>0, <2>3 DEF D!FetchPanic
  <2> QED
    BY <1>4, <2>1, <2>2, <2>3
<1>5. ASSUME D!FetchChunk("data")
      PROVE  /\ D!Chunk \in Run /\ D!Chunk.lo \in Nat
             /\ \A n \in Nat : [lo |-> D!Chunk.lo, hi |-> D!Chunk.lo + n] \in Run
  <2>1. line[pos].lo \in Nat /\ line[pos].hi \in Nat
    BY <1>5, Fetched DEF Frame
  <2> QED
    BY <2>1 DEF D!Chunk, Run
<1>6. /\ pos' \in 1..(Len(line) + 1) /\ dCounter' \in Nat /\ aligned' \in BOOLEAN
      /\ nonceOK' \in BOOLEAN /\ dCall' \in {"idle", "writeTo"}
      /\ res' \in {"none", "data", "EOF", "nil"} \cup D!Errors
      /\ failures' \in Seq(Nat \cup {D!NoIndex}) /\ broken' \in BOOLEAN /\ out' \in Seq(Run)
  <2>0. /\ nonceOK \in BOOLEAN /\ dCall \in {"idle", "writeTo"}
        /\ res \in {"none", "data", "EOF", "nil"} \cup D!Errors
    BY <1>1 DEF D!ReaderTypeOK
  <2>1. CASE D!WriteToChunk
    <3>1. D!FetchChunk("data") /\ out' = Append(out, D!Chunk)
          /\ UNCHANGED <<nonceOK, dCall, res, failures>>
      BY <2>1 DEF D!WriteToChunk
    <3>2. out' \in Seq(Run)
      BY <1>1, <1>5, <3>1, AppendFacts
    <3> QED
      BY <1>1, <1>3, <2>0, <3>1, <3>2
  <2>2. CASE \E n \in 0..plaintextMax : D!WriteToSinkError(n)
    <3>1. PICK n \in 0..plaintextMax : D!WriteToSinkError(n)
      BY <2>2
    <3>2. /\ D!FetchChunk("data")
          /\ out' = IF n = 0 THEN out
                    ELSE Append(out, [lo |-> D!Chunk.lo, hi |-> D!Chunk.lo + n])
          /\ nonceOK' = FALSE /\ dCall' = "idle" /\ res' = "sink" /\ UNCHANGED failures
      BY <3>1 DEF D!WriteToSinkError
    <3>3. n \in Nat
      <4>1. plaintextMax \in Nat
        BY <1>1, WriterAssumption DEF D!ReaderTypeOK
      <4> QED
        BY <4>1
    <3>4. out' \in Seq(Run)
      BY <1>1, <1>5, <3>2, <3>3, AppendFacts
    <3> QED
      BY <1>1, <1>3, <3>2, <3>4 DEF D!Errors
  <2>3. CASE D!WriteToMarker
    <3>1. /\ D!FetchChunk("eof") /\ nonceOK' = FALSE /\ dCall' = "idle" /\ res' = "nil"
          /\ UNCHANGED <<out, failures>>
      BY <2>3 DEF D!WriteToMarker
    <3> QED
      BY <1>1, <1>3, <3>1
  <2>4. CASE D!WriteToFail
    <3>1. /\ D!FetchChunk("fail") /\ dCall' = "idle" /\ D!Fails(dCounter)
          /\ UNCHANGED <<out, nonceOK>>
      BY <2>4 DEF D!WriteToFail
    <3>2. res' \in D!Errors
      BY <3>1 DEF D!Fails, D!Failures, D!Errors
    <3>3. \E n \in {dCounter, D!NoIndex} : failures' = Append(failures, n)
      BY <3>1 DEF D!Fails
    <3>4. failures' \in Seq(Nat \cup {D!NoIndex})
      BY <1>1, <3>3
    <3> QED
      BY <1>1, <1>3, <2>0, <3>1, <3>2, <3>4
  <2>5. CASE D!WriteToError
    <3>1. /\ \E r : D!FetchEnd(r) \/ D!FetchTooLarge \/ D!FetchPanic
          /\ dCall' = "idle" /\ UNCHANGED <<out, nonceOK, failures>>
      BY <2>5 DEF D!WriteToError, D!FetchBreaks
    <3>2. res' \in D!Errors
      BY <2>5 DEF D!WriteToError, D!Errors
    <3> QED
      BY <1>1, <1>4, <2>0, <3>1, <3>2
  <2> QED
    BY <2>1, <2>2, <2>3, <2>4, <2>5 DEF D!WriteToStep
<1>7. /\ line' \in Seq(D!Frame) /\ out' \in Seq(D!Run) /\ pos' \in 1..(Len(line') + 1)
  BY <1>1, <1>2, <1>6, SameFrames
<1> QED
  BY <1>1, <1>2, <1>6, <1>7 DEF D!ReaderTypeOK

\* While nothing has gone wrong, the next frame is whole, of the reader's counter and short
\* enough, and there is one until the marker has been read.
LEMMA IntactOpens ==
  ASSUME PipeIInv, Intact, dCall = "writeTo", D!WriteToStep
  PROVE  D!WriteToChunk \/ (\E n \in 0..plaintextMax : D!WriteToSinkError(n)) \/ D!WriteToMarker
<1>1. /\ IInv /\ JobInv /\ CarriedInv /\ InStepInv
      /\ line \in Seq(Frame) /\ wire \in Seq(Frame) /\ pos \in 1..(Len(line) + 1)
  BY PipeParts, SameFrames DEF D!ReaderTypeOK, TypeOK
<1>2. /\ aligned /\ nonceOK /\ live /\ plaintextMax = ChunkSize
      /\ dCounter = pos - 1 /\ \A i \in 1..(pos - 1) : ~IsEOF(wire[i])
  BY <1>1 DEF JobInv, InStepInv
<1>3. /\ carried = Len(line) /\ \A i \in 1..Len(line) : line[i] = wire[i]
      /\ ended => carried = Len(wire) /\ encJob = "ok"
      /\ Len(line) <= Len(wire)
  BY <1>1, PipeParts DEF Intact, CarriedInv, EncryptOver, PipeTypeOK
<1>4. /\ \A i \in 1..Len(wire) : wire[i].state = "whole" /\ wire[i].ctr = i - 1
      /\ \A i \in 1..Len(wire) : Size(wire[i]) <= ChunkSize
  BY <1>1 DEF Intact, IInv, CleanInv, FramesInv
<1>5. pos <= Len(line) => /\ line[pos].state = "whole" /\ line[pos].ctr = dCounter
                          /\ D!Size(line[pos]) <= plaintextMax
  <2>1. SUFFICES ASSUME pos <= Len(line)
                 PROVE  /\ line[pos].state = "whole" /\ line[pos].ctr = dCounter
                        /\ Size(line[pos]) <= ChunkSize
    BY <1>2 DEF D!Size, Size
  <2>2. pos \in 1..Len(line) /\ pos \in 1..Len(wire)
    BY <1>1, <1>3, <2>1
  <2> QED
    BY <1>2, <1>3, <1>4, <2>2
<1>6. pos > Len(line) => ~ended
  <2>1. SUFFICES ASSUME pos > Len(line), ended
                 PROVE  FALSE
    OBVIOUS
  <2>2. encJob = "ok" /\ carried = Len(wire) /\ pos - 1 = Len(wire) /\ Len(wire) \in Nat
    BY <1>1, <1>3, <2>1
  <2>3. wire # <<>> /\ IsEOF(wire[Len(wire)])
    BY <1>1, <2>2 DEF JobInv, IInv, CleanInv
  <2>4. Len(wire) \in 1..(pos - 1)
    BY <1>1, <2>2, <2>3
  <2> QED
    BY <1>2, <2>3, <2>4
<1>7. ~D!Garbled /\ ~D!Cut
  BY <1>2, <1>5 DEF D!Garbled, D!Cut
<1>8. ~D!WriteToFail
  <2>1. SUFFICES ASSUME D!FetchChunk("fail")
                 PROVE  FALSE
    BY DEF D!WriteToFail
  <2>2. pos <= Len(line) /\ "fail" = D!OpenChunk(line[pos], dCounter, nonceOK)
    BY <1>7, <2>1 DEF D!FetchChunk
  <2> QED
    BY <1>2, <1>5, <2>2 DEF D!OpenChunk
<1>9. ~D!WriteToError
  <2>1. \A e : ~D!FetchEnd(e)
    BY <1>6, <1>7 DEF D!FetchEnd
  <2>2. ~D!FetchTooLarge
    <3>1. pos <= Len(line) => D!Size(line[pos]) \in Int /\ plaintextMax \in Int
      <4>1. SUFFICES ASSUME pos <= Len(line)
                     PROVE  D!Size(line[pos]) \in Int /\ plaintextMax \in Int
        OBVIOUS
      <4>2. line[pos] \in Frame
        BY <1>1, <4>1
      <4> QED
        BY <1>2, <4>2, WriterAssumption DEF D!Size, Frame
    <3> QED
      BY <1>5, <1>7, <3>1 DEF D!FetchTooLarge
  <2> QED
    BY <1>2, <2>1, <2>2 DEF D!WriteToError, D!FetchBreaks
<1> QED
  BY <1>8, <1>9 DEF D!WriteToStep

\* The run of a chunk that is handed out.
LEMMA ChunkHandedOut ==
  ASSUME PipeIInv, dCall = "writeTo", D!FetchChunk("data")
  PROVE  /\ D!Chunk = [lo |-> line[pos].lo, hi |-> line[pos].hi] /\ D!Chunk \in Run
         /\ line[pos] = SealChunk(D!Chunk, dCounter) /\ OnWire(SealChunk(D!Chunk, dCounter))
         /\ D!Chunk.lo < D!Chunk.hi
<1>1. /\ line[pos] \in Frame /\ line[pos].state = "whole" /\ line[pos].ctr = dCounter
      /\ OnWire(line[pos]) /\ line[pos].lo <= line[pos].hi /\ ~IsEOF(line[pos])
  BY Fetched
<1>2. line[pos].lo \in Nat /\ line[pos].hi \in Nat /\ line[pos].lo # line[pos].hi
  BY <1>1 DEF Frame, IsEOF, Size
<1>3. D!Chunk = [lo |-> line[pos].lo, hi |-> line[pos].hi]
  BY DEF D!Chunk
<1>4. line[pos] = SealChunk(D!Chunk, dCounter)
  BY <1>1, <1>3 DEF SealChunk, Frame
<1> QED
  BY <1>1, <1>2, <1>3, <1>4 DEF Run

\* What a step of WriteTo leaves alone, and how it ends.
LEMMA WriteToFacts ==
  ASSUME PipeIInv, D!WriteToStep
  PROVE  /\ dCall = "writeTo"
         /\ UNCHANGED <<line, ended, plaintextMax, live, dBuf, eof, consumed, reads>>
         /\ \/ D!WriteToChunk /\ UNCHANGED <<nonceOK, dCall, res>>
            \/ dCall' = "idle"
         /\ res' = "nil" => D!WriteToMarker \/ res = "nil"
<1>1. /\ dCall = "writeTo"
      /\ UNCHANGED <<line, ended, plaintextMax, live, dBuf, eof, consumed, reads>>
      /\ \/ D!WriteToChunk /\ UNCHANGED <<nonceOK, dCall, res>>
         \/ dCall' = "idle"
  BY DEF D!WriteToStep, D!WriteToChunk, D!WriteToSinkError, D!WriteToMarker, D!WriteToFail,
         D!WriteToError, D!streamVars
<1>2. res' = "nil" => D!WriteToMarker \/ res = "nil"
  BY DEF D!WriteToStep, D!WriteToChunk, D!WriteToSinkError, D!WriteToMarker, D!WriteToFail,
         D!WriteToError, D!Fails, D!Failures
<1> QED
  BY <1>1, <1>2

LEMMA DecryptSide ==
  ASSUME PipeIInv, Decrypt, UNCHANGED encVars
  PROVE  PipeIInv'
<1>1. /\ IInv /\ PipeTypeOK /\ LineInv /\ JobInv /\ OpenedInv /\ CarriedInv /\ InStepInv
      /\ TypeOK /\ D!ReaderTypeOK
  BY PipeParts
<1>2. UNCHANGED <<vars, encJob>> /\ UNCHANGED <<wire, closed, call, failed, buf>>
  BY DEF encVars, vars, writerVars, histVars
<1>3. IInv'
  BY <1>1, <1>2, StepIInv
<1>4. TypeOK'
  BY <1>3 DEF IInv
<1>5. UNCHANGED <<line, ended, plaintextMax, live, dBuf, reads, carried, faults>>
  BY WriteToFacts DEF Decrypt, DecryptCopy, DecryptStep, DecryptReturn, D!WriteTo, D!streamVars,
                      D!obsVars, reader, pipeVars
<1>6. LineInv' /\ CarriedInv'
  BY <1>1, <1>2, <1>5 DEF LineInv, CarriedInv, OnWire, EncryptOver
<1>7. Intact' <=> Intact
  BY <1>2, <1>5 DEF Intact
<1>8. \A f : OnWire(f)' <=> OnWire(f)
  BY <1>2 DEF OnWire
<1>9. CASE DecryptCopy
  <2>1. /\ decJob = "start" /\ decJob' = "copy" /\ dCall' = "writeTo"
        /\ UNCHANGED <<pos, aligned, broken, dCounter, nonceOK, res, failures, out, eof>> /\ consumed' = TRUE
    BY <1>9 DEF DecryptCopy, D!WriteTo, D!streamVars, D!obsVars
  <2>2. D!ReaderTypeOK'
    BY <1>1, <1>5, <2>1 DEF D!ReaderTypeOK
  <2>3. PipeTypeOK'
    BY <1>1, <1>2, <1>4, <1>5, <2>1, <2>2 DEF PipeTypeOK
  <2>4. JobInv' /\ OpenedInv'
    BY <1>1, <1>2, <1>5, <1>8, <2>1 DEF JobInv, OpenedInv
  <2>5. InStepInv'
    BY <1>1, <1>2, <1>7, <2>1 DEF InStepInv
  <2> QED
    BY <1>3, <1>6, <2>3, <2>4, <2>5 DEF PipeIInv
<1>10. CASE DecryptStep
  <2>1. /\ D!WriteToStep /\ decJob = "copy" /\ decJob' = "copy" /\ dCall = "writeTo"
        /\ consumed' = consumed
    BY <1>10, WriteToFacts DEF DecryptStep
  <2>2. D!ReaderTypeOK'
    BY <2>1, ReaderTypes
  <2>3. PipeTypeOK'
    BY <1>1, <1>2, <1>4, <1>5, <2>1, <2>2 DEF PipeTypeOK
  <2>4. JobInv'
    BY <1>1, <1>2, <1>5, <2>1, WriteToFacts DEF JobInv
  <2>5. CASE D!WriteToChunk /\ UNCHANGED <<nonceOK, dCall, res>>
    <3>1. D!FetchChunk("data") /\ out' = Append(out, D!Chunk)
      BY <2>5 DEF D!WriteToChunk
    <3>2. out \in Seq(Run) /\ Len(out) = dCounter /\ Len(out) \in Nat
      BY <1>1, <2>1, SameFrames DEF OpenedInv, D!ReaderTypeOK
    <3>3. /\ D!Chunk \in Run /\ OnWire(SealChunk(D!Chunk, dCounter)) /\ D!Chunk.lo < D!Chunk.hi
      BY <2>1, <3>1, ChunkHandedOut
    <3>4. /\ Len(out') = Len(out) + 1 /\ out'[Len(out) + 1] = D!Chunk
          /\ \A k \in 1..Len(out) : out'[k] = out[k]
      BY <3>1, <3>2, <3>3, AppendFacts
    <3>5. /\ dCounter' = dCounter + 1 /\ pos' = pos + 1 /\ aligned' = aligned
          /\ pos \in 1..Len(line) /\ ~IsEOF(line[pos]) /\ dCounter \in Nat
      BY <3>1, Fetched
    <3>6. OpenedInv'
      <4>1. ASSUME NEW k \in 1..Len(out')
            PROVE  OnWire(SealChunk(out'[k], k - 1)) /\ out'[k].lo < out'[k].hi
        <5>1. CASE k \in 1..Len(out)
          BY <1>1, <2>1, <3>4, <5>1 DEF OpenedInv
        <5>2. CASE k = Len(out) + 1
          <6>1. k - 1 = dCounter
            BY <3>2, <3>5, <5>2
          <6> QED
            BY <3>3, <3>4, <5>2, <6>1
        <5> QED
          BY <3>2, <3>4, <5>1, <5>2
      <4>2. Len(out') = dCounter'
        BY <3>2, <3>4, <3>5
      <4> QED
        BY <1>8, <4>1, <4>2 DEF OpenedInv, SealChunk
    <3>7. InStepInv'
      <4>1. SUFFICES ASSUME Intact
                     PROVE  /\ aligned' /\ dCounter' = pos' - 1
                            /\ \A i \in 1..(pos' - 1) : ~IsEOF(wire'[i])
        BY <1>7, <2>1, <2>5 DEF InStepInv
      <4>2. /\ aligned /\ dCounter = pos - 1 /\ \A i \in 1..(pos - 1) : ~IsEOF(wire[i])
        BY <1>1, <2>1, <4>1 DEF InStepInv
      <4>3. line[pos] = wire[pos]
        BY <1>1, <3>5, <4>1 DEF CarriedInv, Intact
      <4>4. pos' - 1 = pos /\ pos \in Nat
        BY <3>5
      <4>5. \A i \in 1..pos : i \in 1..(pos - 1) \/ i = pos
        BY <4>4
      <4> QED
        BY <1>2, <3>5, <4>2, <4>3, <4>4, <4>5
    <3> QED
      BY <1>3, <1>6, <2>3, <2>4, <3>6, <3>7 DEF PipeIInv
  <2>6. CASE dCall' = "idle"
    <3>1. OpenedInv'
      BY <2>1, <2>6 DEF OpenedInv
    <3>2. Intact => res' \in {"nil", "sink"}
      <4>1. SUFFICES ASSUME Intact
                     PROVE  res' \in {"nil", "sink"}
        OBVIOUS
      <4>2. ~D!WriteToChunk
        BY <2>1, <2>6 DEF D!WriteToChunk
      <4>3. (\E n \in 0..plaintextMax : D!WriteToSinkError(n)) \/ D!WriteToMarker
        BY <2>1, <4>1, <4>2, IntactOpens
      <4> QED
        BY <4>3 DEF D!WriteToSinkError, D!WriteToMarker
    <3>3. InStepInv'
      BY <1>7, <2>1, <2>6, <3>2 DEF InStepInv
    <3> QED
      BY <1>3, <1>6, <2>3, <2>4, <3>1, <3>3 DEF PipeIInv
  <2> QED
    BY <2>1, <2>5, <2>6, WriteToFacts
<1>11. CASE DecryptReturn
  <2>1. /\ decJob = "copy" /\ dCall = "idle" /\ decJob' = IF res = "nil" THEN "ok" ELSE "err"
        /\ UNCHANGED <<pos, aligned, broken, dCounter, nonceOK, eof, consumed, dCall, res, failures, out>>
    BY <1>11 DEF DecryptReturn, reader
  <2>2. D!ReaderTypeOK'
    BY <1>1, <1>5, <2>1 DEF D!ReaderTypeOK
  <2>3. PipeTypeOK'
    BY <1>1, <1>2, <1>4, <1>5, <2>1, <2>2 DEF PipeTypeOK
  <2>4. JobInv' /\ OpenedInv'
    BY <1>1, <1>2, <1>5, <2>1 DEF JobInv, OpenedInv
  <2>5. InStepInv'
    BY <1>1, <1>7, <2>1 DEF InStepInv
  <2> QED
    BY <1>3, <1>6, <2>3, <2>4, <2>5 DEF PipeIInv
<1> QED
  BY <1>9, <1>10, <1>11 DEF Decrypt

LEMMA PipeStepIInv == PipeIInv /\ [PipeNext]_pipe => PipeIInv'
<1> SUFFICES ASSUME PipeIInv, [PipeNext]_pipe
             PROVE  PipeIInv'
  OBVIOUS
<1>1. CASE UNCHANGED pipe
  <2>1. /\ UNCHANGED <<pos, aligned, broken, dCounter, nonceOK, live, dBuf, eof, consumed, dCall, res>>
        /\ UNCHANGED <<reads, failures, out, decJob, line, ended, plaintextMax, carried, faults>>
        /\ UNCHANGED <<vars, encJob>> /\ UNCHANGED <<wire, closed, call, failed, buf>>
    BY <1>1 DEF pipe, decVars, reader, pipeVars, encVars, vars, writerVars, histVars
  <2>2. IInv'
    BY <2>1, PipeParts, StepIInv
  <2>3. PipeTypeOK'
    <3>1. TypeOK' /\ D!ReaderTypeOK'
      BY <2>1, <2>2, PipeParts DEF IInv, D!ReaderTypeOK
    <3> QED
      BY <2>1, <3>1, PipeParts DEF PipeTypeOK
  <2>4. LineInv' /\ CarriedInv' /\ OpenedInv'
    BY <2>1, PipeParts DEF LineInv, CarriedInv, OpenedInv, OnWire, EncryptOver
  <2>5. JobInv' /\ InStepInv'
    BY <2>1, PipeParts DEF JobInv, InStepInv, Intact
  <2> QED
    BY <2>2, <2>3, <2>4, <2>5 DEF PipeIInv
<1> QED
  BY <1>1, EncryptSide, TransportSide, DecryptSide DEF PipeNext
-----------------------------------------------------------------------------
(* The refinement                                                           *)

LEMMA FrameNumbers ==
  ASSUME IInv
  PROVE  /\ wire \in Seq(Frame) /\ Len(wire) \in Nat
         /\ \A k \in 1..Len(wire) : wire[k].ctr \in Nat /\ wire[k].lo \in Nat /\ wire[k].hi \in Nat
<1>1. wire \in Seq(Frame) /\ Len(wire) \in Nat /\ \A k \in 1..Len(wire) : wire[k] \in Frame
  BY DEF IInv, TypeOK
<1> QED
  BY <1>1 DEF Frame

\* Stored frames with successive counters stand next to each other.
LEMMA Adjacent ==
  ASSUME IInv, NEW i \in 1..Len(wire), NEW j \in 1..Len(wire),
         wire[i].state = "whole", wire[j].ctr = wire[i].ctr + 1
  PROVE  j = i + 1 /\ (wire[j].lo = wire[i].hi \/ Repeats(j))
<1>1. wire \in Seq(Frame) /\ Len(wire) \in Nat /\ \A k \in 1..Len(wire) : wire[k].ctr \in Nat
  BY FrameNumbers
<1>2. \A k, l \in 1..Len(wire) : k < l => wire[k].ctr < wire[l].ctr
  BY DEF IInv, FramesInv
<1>3. i < j
  BY <1>1, <1>2
<1>4. j = i + 1
  <2>1. SUFFICES ASSUME i + 1 < j
                 PROVE  FALSE
    BY <1>1, <1>3
  <2>2. i + 1 \in 1..Len(wire)
    BY <1>1, <2>1
  <2>3. wire[i].ctr < wire[i + 1].ctr /\ wire[i + 1].ctr < wire[j].ctr
    BY <1>1, <1>2, <2>1, <2>2
  <2> QED
    BY <1>1, <2>2, <2>3
<1>5. j \in 2..Len(wire) /\ j - 1 = i
  BY <1>1, <1>4
<1> QED
  BY <1>4, <1>5 DEF IInv, ChainInv

\* The chunk that has come out last may come again: the encryption is failing, and the
\* chunk was the last of its input.
ComesAgain ==
  /\ "kept" \in SinkFaults /\ failed /\ closed
  /\ out # <<>> /\ Copy!End(out) = buf.hi
  /\ line[pos].lo = out[Len(out)].lo /\ line[pos].hi = out[Len(out)].hi

\* The next frame that opens begins where the output ends, or comes again; nothing but
\* the marker follows what has come again.
LEMMA NextFrame ==
  ASSUME PipeIInv, dCall = "writeTo", NEW r \in {"data", "eof"}, D!FetchChunk(r)
  PROVE  /\ line[pos].lo = Copy!End(out) \/ ComesAgain
         /\ r = "eof" => line[pos].lo = Copy!End(out)
         /\ r = "data" => ~Copy!Repeated(out)
<1>1. /\ IInv /\ wire \in Seq(Frame) /\ Len(wire) \in Nat
      /\ \A k \in 1..Len(wire) : wire[k].ctr \in Nat /\ wire[k].lo \in Nat /\ wire[k].hi \in Nat
  BY PipeParts, FrameNumbers
<1>2. PICK j \in 1..Len(wire) : wire[j] = line[pos]
  BY Fetched DEF OnWire
<1>3. /\ wire[j].ctr = dCounter /\ dCounter \in Nat /\ dCounter = Len(out)
      /\ r = "eof" <=> IsEOF(wire[j])
  BY <1>2, Fetched, PipeParts DEF OpenedInv
<1>4. out \in Seq(Run)
  BY PipeParts, SameFrames DEF D!ReaderTypeOK
<1>5. CASE out = <<>>
  <2>1. dCounter = 0
    BY <1>3, <1>5
  <2>2. j = 1
    <3>1. SUFFICES ASSUME 1 < j
                   PROVE  FALSE
      BY <1>1
    <3>2. wire[1].ctr < wire[j].ctr /\ wire[1].ctr \in Nat
      BY <1>1, <3>1 DEF IInv, FramesInv
    <3> QED
      BY <1>3, <2>1, <3>2
  <2>3. wire # <<>> /\ wire[1].ctr = 0
    BY <1>2, <1>3, <2>1, <2>2
  <2>4. line[pos].lo = 0
    BY <1>1, <1>2, <2>2, <2>3 DEF IInv, ChainInv
  <2> QED
    BY <1>5, <2>4 DEF Copy!End, Copy!Repeated
<1>6. ASSUME NEW n \in 1..Len(out)
      PROVE  \E i \in 1..Len(wire) :
               /\ wire[i].state = "whole" /\ wire[i].ctr = n - 1
               /\ wire[i].lo = out[n].lo /\ wire[i].hi = out[n].hi
  <2>1. OnWire(SealChunk(out[n], n - 1))
    BY PipeParts DEF OpenedInv
  <2> QED
    BY <2>1 DEF OnWire, SealChunk
<1>7. CASE out # <<>>
  <2> DEFINE n == Len(out)
  <2>1. n \in 1..Len(out) /\ n \in Nat
    BY <1>4, <1>7
  <2>2. PICK i \in 1..Len(wire) : /\ wire[i].state = "whole" /\ wire[i].ctr = n - 1
                                  /\ wire[i].lo = out[n].lo /\ wire[i].hi = out[n].hi
    BY <1>6, <2>1
  <2>3. wire[j].ctr = wire[i].ctr + 1
    BY <1>3, <2>1, <2>2
  <2>4. j = i + 1 /\ (wire[j].lo = out[n].hi \/ Repeats(j))
    BY <1>1, <2>2, <2>3, Adjacent
  <2>5. j - 1 = i
    BY <2>4
  <2>6. Repeats(j) => ComesAgain /\ (IsEOF(wire[j]) => wire[j].lo = out[n].hi)
    <3>1. SUFFICES ASSUME Repeats(j)
                   PROVE  ComesAgain /\ (IsEOF(wire[j]) => wire[j].lo = out[n].hi)
      OBVIOUS
    <3>2. /\ "kept" \in SinkFaults /\ failed /\ closed
          /\ wire[j].lo = out[n].lo /\ wire[j].hi = out[n].hi /\ out[n].hi = buf.hi
      BY <2>2, <2>5, <3>1 DEF Repeats
    <3>3. ComesAgain
      BY <1>2, <1>7, <3>2 DEF ComesAgain, Copy!End
    <3> QED
      BY <1>1, <3>2, <3>3 DEF IsEOF, Size
  <2>7. ASSUME Copy!Repeated(out)
        PROVE  IsEOF(wire[j])
    <3>1. n - 1 \in 1..Len(out) /\ out[n].lo # out[n - 1].hi
      BY <2>1, <2>7 DEF Copy!Repeated
    <3>2. PICK h \in 1..Len(wire) : /\ wire[h].state = "whole" /\ wire[h].ctr = n - 1 - 1
                                    /\ wire[h].hi = out[n - 1].hi
      BY <1>6, <3>1
    <3>3. wire[i].ctr = wire[h].ctr + 1
      BY <2>1, <2>2, <3>2
    <3>4. Repeats(i)
      BY <1>1, <2>2, <3>1, <3>2, <3>3, Adjacent
    <3>5. j \in (i + 1)..Len(wire)
      BY <1>1, <2>4
    <3> QED
      BY <3>4, <3>5 DEF Repeats
  <2> QED
    BY <1>2, <1>3, <1>7, <2>4, <2>6, <2>7 DEF Copy!End
<1> QED
  BY <1>5, <1>7

\* A marker on the wire is at the end of an input that is closed.
LEMMA MarkerMeans ==
  ASSUME PipeIInv, MarkerInv, res = "nil"
  PROVE  closed /\ Copy!End(out) = buf.hi
<1>1. PICK j \in 1..Len(wire) : IsEOF(wire[j]) /\ wire[j].lo = Copy!End(out)
  BY DEF MarkerInv
<1> QED
  BY <1>1, PipeParts DEF IInv, FramesInv

\* A run that is handed out does not begin where the output ends only where it comes again.
LEMMA HandOutRepeats ==
  ASSUME PipeIInv, dCall = "writeTo", D!FetchChunk("data"), NEW hi,
         out' = Append(out, [lo |-> D!Chunk.lo, hi |-> hi]), Copy!Repeated(out')
  PROVE  failed
<1>1. D!Chunk.lo = line[pos].lo /\ out \in Seq(Run)
  BY ChunkHandedOut, PipeParts, SameFrames DEF D!ReaderTypeOK
<1> DEFINE r == [lo |-> D!Chunk.lo, hi |-> hi]
<1>2. r.lo = D!Chunk.lo
  OBVIOUS
<1> HIDE DEF r
<1>3. /\ Len(out) \in Nat /\ Len(out') = Len(out) + 1 /\ out'[Len(out) + 1] = r
      /\ \A i \in 1..Len(out) : out'[i] = out[i]
  BY <1>1 DEF r
<1>4. Len(out) > 0 /\ r.lo # out[Len(out)].hi
  BY <1>3 DEF Copy!Repeated
<1>5. line[pos].lo # Copy!End(out)
  BY <1>1, <1>2, <1>4 DEF Copy!End
<1> QED
  BY <1>5, NextFrame DEF ComesAgain

LEMMA CopyStepInv ==
  ASSUME PipeIInv, CopyInv, [PipeNext]_pipe
  PROVE  CopyInv'
<1>1. [Next]_vars /\ IInv /\ BoundInv
  BY PipeStepIsWriters, PipeParts DEF CopyInv
<1>2. BoundInv' /\ (failed => failed')
  BY <1>1, BoundStep, WriterGrows
<1>3. \A f : OnWire(f) => OnWire(f)'
  BY <1>1, OnWireStays
<1>4. CASE res' = res /\ out' = out
  <2>1. ASSUME NEW j \in 1..Len(wire)
        PROVE  j \in 1..Len(wire') /\ wire'[j] = wire[j]
    BY <1>1, WriterGrows
  <2> QED
    BY <1>2, <1>4, <2>1 DEF CopyInv, MarkerInv, RepeatInv, Copy!End, Copy!Repeated
<1>5. CASE DecryptStep /\ UNCHANGED encVars
  <2>1. D!WriteToStep /\ dCall = "writeTo" /\ res # "nil"
    BY <1>5, WriteToFacts, PipeParts DEF DecryptStep, JobInv
  <2>2. MarkerInv'
    <3>1. SUFFICES ASSUME res' = "nil"
                   PROVE  \E j \in 1..Len(wire') :
                            IsEOF(wire'[j]) /\ wire'[j].lo = Copy!End(out)'
      BY DEF MarkerInv
    <3>2. D!FetchChunk("eof") /\ out' = out
      BY <2>1, <3>1, WriteToFacts DEF D!WriteToMarker
    <3>3. line[pos].lo = Copy!End(out) /\ IsEOF(line[pos]) /\ OnWire(line[pos])
      BY <1>1, <2>1, <3>2, NextFrame, Fetched
    <3>4. wire' = wire
      BY <1>5 DEF encVars, vars
    <3> QED
      BY <3>2, <3>3, <3>4 DEF OnWire, Copy!End
  <2>3. RepeatInv'
    <3>1. SUFFICES ASSUME Copy!Repeated(out'), out' # out
                   PROVE  failed
      BY <1>2 DEF RepeatInv, CopyInv, Copy!Repeated
    <3>2. CASE D!WriteToChunk
      <4>1. D!FetchChunk("data") /\ out' = Append(out, D!Chunk)
        BY <3>2 DEF D!WriteToChunk
      <4>2. D!Chunk = [lo |-> D!Chunk.lo, hi |-> D!Chunk.hi]
        BY DEF D!Chunk
      <4> QED
        BY <2>1, <3>1, <4>1, <4>2, HandOutRepeats
    <3>3. CASE \E n \in 0..plaintextMax : D!WriteToSinkError(n)
      <4>1. PICK n \in 0..plaintextMax : D!WriteToSinkError(n)
        BY <3>3
      <4>2. D!FetchChunk("data") /\ out' = Append(out, [lo |-> D!Chunk.lo, hi |-> D!Chunk.lo + n])
        BY <3>1, <4>1 DEF D!WriteToSinkError
      <4> QED
        BY <2>1, <3>1, <4>2, HandOutRepeats
    <3> QED
      BY <2>1, <3>1, <3>2, <3>3 DEF D!WriteToStep, D!WriteToMarker, D!WriteToFail, D!WriteToError
  <2> QED
    BY <1>2, <2>2, <2>3 DEF CopyInv
<1>6. (Encrypt \/ Crash) /\ UNCHANGED <<decVars, pipeVars>> => res' = res /\ out' = out
  BY DEF decVars, reader
<1>7. (Transport \/ Fault) /\ UNCHANGED <<encVars, decVars>> => res' = res /\ out' = out
  BY DEF decVars, reader
<1>8. DecryptCopy \/ DecryptReturn => res' = res /\ out' = out
  BY DEF DecryptCopy, DecryptReturn, D!WriteTo, D!obsVars, reader
<1>9. UNCHANGED pipe => res' = res /\ out' = out
  BY DEF pipe, decVars, reader
<1> QED
  BY <1>4, <1>5, <1>6, <1>7, <1>8, <1>9 DEF PipeNext, Decrypt

LEMMA CopyInit == PipeInit => Copy!Init
BY DEF PipeInit, Init, D!ReaderInit, Copy!Init, DecryptOver

\* Each step of the pipe is a step of the copy or leaves it alone.
LEMMA CopyStep ==
  ASSUME PipeIInv, CopyInv, [PipeNext]_pipe
  PROVE  [Copy!Next]_(Copy!vars)
<1>1. /\ IInv /\ JobInv /\ buf.hi \in Nat /\ BoundInv /\ MarkerInv /\ RepeatInv
  BY PipeParts DEF CopyInv, TypeOK, Run
<1>2. CASE (Encrypt \/ Crash) /\ UNCHANGED <<decVars, pipeVars>>
  <2>1. UNCHANGED <<out, decJob>>
    BY <1>2 DEF decVars, reader
  <2>2. DecryptOver' = DecryptOver
    BY <2>1 DEF DecryptOver
  <2>3. CASE EncryptCopy
    <3>1. UNCHANGED <<buf, closed>> /\ encJob = "start" /\ encJob' = "copy"
      BY <2>3 DEF EncryptCopy, ReadFrom, Write
    <3> QED
      BY <2>1, <2>2, <3>1 DEF Copy!vars
  <2>4. CASE EncryptStep
    <3>1. encJob' = encJob /\ encJob \in {"copy", "close"} /\ closed' = closed
      BY <2>4, ContinueKeepsClosed DEF EncryptStep
    <3>2. buf.hi <= buf'.hi /\ buf'.hi \in Nat /\ (closed => buf'.hi = buf.hi)
      BY <1>1, <1>2, PipeStepIsWriters, WriterGrows DEF PipeNext
    <3>3. CASE buf'.hi = buf.hi
      BY <2>1, <2>2, <3>1, <3>3 DEF Copy!vars
    <3>4. CASE buf'.hi # buf.hi
      <4>1. ~closed /\ buf'.hi > buf.hi
        BY <1>1, <3>2, <3>4
      <4> QED
        BY <2>1, <2>2, <3>1, <4>1 DEF Copy!Next, Copy!Take
    <3> QED
      BY <3>3, <3>4
  <2>5. CASE EncryptClose
    <3>1. UNCHANGED buf /\ ~closed /\ closed' = TRUE /\ encJob = "copy" /\ encJob' = "close"
      BY <2>5 DEF EncryptClose, Close
    <3> QED
      BY <2>1, <2>2, <3>1 DEF Copy!Next, Copy!Finish
  <2>6. CASE EncryptReturn
    <3>1. UNCHANGED <<buf, closed>> /\ encJob = "close" /\ encJob' \in {"ok", "err"}
      BY <2>6 DEF EncryptReturn, vars, writerVars
    <3>2. closed
      BY <1>1, <3>1 DEF JobInv
    <3>3. CASE encJob' = "ok"
      <4>1. ~failed
        BY <2>6, <3>3 DEF EncryptReturn
      <4>2. ~Copy!Repeated(out)
        BY <1>1, <4>1 DEF RepeatInv
      <4> QED
        BY <2>1, <2>2, <3>1, <3>2, <3>3, <4>2 DEF Copy!Next, Copy!EncryptOK
    <3>4. CASE encJob' = "err"
      BY <2>1, <2>2, <3>1, <3>4 DEF Copy!Next, Copy!EncryptFails
    <3> QED
      BY <3>1, <3>3, <3>4
  <2>7. CASE Crash
    <3>1. UNCHANGED <<buf, closed>> /\ encJob \in {"copy", "close"} /\ encJob' = "crashed"
      BY <2>7 DEF Crash, vars, writerVars
    <3> QED
      BY <2>1, <2>2, <3>1 DEF Copy!Next, Copy!EncryptFails
  <2> QED
    BY <1>2, <2>3, <2>4, <2>5, <2>6, <2>7 DEF Encrypt
<1>3. CASE (Transport \/ Fault) /\ UNCHANGED <<encVars, decVars>>
  <2>1. UNCHANGED <<buf, closed, encJob, out, decJob>>
    BY <1>3 DEF encVars, decVars, vars, writerVars, reader
  <2> QED
    BY <2>1 DEF Copy!vars, DecryptOver
<1>4. CASE Decrypt /\ UNCHANGED encVars
  <2>1. UNCHANGED <<buf, closed, encJob>>
    BY <1>4 DEF encVars, vars, writerVars
  <2>2. CASE DecryptCopy
    <3>1. UNCHANGED out /\ decJob = "start" /\ decJob' = "copy"
      BY <2>2 DEF DecryptCopy, D!WriteTo, D!obsVars
    <3> QED
      BY <2>1, <3>1 DEF Copy!vars, DecryptOver
  <2>3. CASE DecryptStep
    <3>1. D!WriteToStep /\ decJob = "copy" /\ decJob' = "copy" /\ dCall = "writeTo"
      BY <2>3, WriteToFacts DEF DecryptStep
    <3>2. CASE out' = out
      BY <2>1, <3>1, <3>2 DEF Copy!vars, DecryptOver
    <3>3. ASSUME D!FetchChunk("data"), NEW hi \in Nat, D!Chunk.lo < hi, hi <= D!Chunk.hi,
                 out' = Append(out, [lo |-> D!Chunk.lo, hi |-> hi])
          PROVE  Copy!HandOut \/ Copy!Repeat
      <4>1. /\ line[pos].lo = Copy!End(out) \/ ComesAgain
            /\ OnWire(line[pos]) /\ line[pos] \in Frame /\ ~Copy!Repeated(out)
        BY <1>1, <3>1, <3>3, NextFrame, Fetched
      <4>2. /\ D!Chunk.lo = line[pos].lo /\ D!Chunk.hi = line[pos].hi
            /\ D!Chunk.hi <= buf.hi /\ D!Chunk.hi \in Nat /\ D!Chunk.lo \in Nat
        BY <1>1, <4>1 DEF D!Chunk, OnWire, BoundInv, Frame
      <4>3. CASE line[pos].lo = Copy!End(out)
        <5>1. hi \in (Copy!End(out) + 1)..buf.hi
          BY <1>1, <3>3, <4>2, <4>3
        <5> QED
          BY <2>1, <3>1, <3>3, <4>1, <4>2, <4>3, <5>1 DEF Copy!HandOut, DecryptOver
      <4>4. CASE ComesAgain
        <5>1. encJob # "ok"
          BY <1>1, <4>4 DEF ComesAgain, JobInv
        <5>2. hi \in (out[Len(out)].lo + 1)..out[Len(out)].hi
          BY <3>3, <4>2, <4>4 DEF ComesAgain
        <5>3. out' = Append(out, [lo |-> out[Len(out)].lo, hi |-> hi])
          BY <3>3, <4>2, <4>4 DEF ComesAgain
        <5> QED
          BY <2>1, <3>1, <4>1, <4>4, <5>1, <5>2, <5>3 DEF ComesAgain, Copy!Repeat, DecryptOver
      <4> QED
        BY <4>1, <4>3, <4>4
    <3>4. CASE D!WriteToChunk
      <4>1. D!FetchChunk("data") /\ out' = Append(out, D!Chunk)
        BY <3>4 DEF D!WriteToChunk
      <4>2. /\ D!Chunk \in Run /\ D!Chunk.lo < D!Chunk.hi
            /\ D!Chunk = [lo |-> D!Chunk.lo, hi |-> D!Chunk.hi]
        BY <3>1, <4>1, ChunkHandedOut
      <4>3. D!Chunk.hi \in Nat /\ D!Chunk.hi <= D!Chunk.hi
        BY <4>2 DEF Run
      <4> QED
        BY <3>3, <4>1, <4>2, <4>3 DEF Copy!Next
    <3>5. CASE \E n \in 0..plaintextMax : D!WriteToSinkError(n)
      <4>1. PICK n \in 0..plaintextMax : D!WriteToSinkError(n)
        BY <3>5
      <4>2. /\ D!FetchChunk("data") /\ n <= D!Size(D!Chunk)
            /\ out' = IF n = 0 THEN out
                      ELSE Append(out, [lo |-> D!Chunk.lo, hi |-> D!Chunk.lo + n])
        BY <4>1 DEF D!WriteToSinkError
      <4>3. CASE n = 0
        BY <3>2, <4>2, <4>3
      <4>4. CASE n # 0
        <5>1. D!Chunk.lo \in Nat /\ D!Chunk.hi \in Nat
          BY <3>1, <4>2, ChunkHandedOut DEF Run
        <5>2. plaintextMax \in Nat
          BY <1>1, WriterAssumption DEF JobInv
        <5>3. /\ D!Chunk.lo + n \in Nat /\ D!Chunk.lo < D!Chunk.lo + n
              /\ D!Chunk.lo + n <= D!Chunk.hi
          BY <4>2, <4>4, <5>1, <5>2 DEF D!Size
        <5> QED
          BY <3>3, <4>2, <4>4, <5>3 DEF Copy!Next
      <4> QED
        BY <4>3, <4>4
    <3>6. CASE D!WriteToMarker \/ D!WriteToFail \/ D!WriteToError
      BY <3>2, <3>6 DEF D!WriteToMarker, D!WriteToFail, D!WriteToError
    <3> QED
      BY <3>1, <3>4, <3>5, <3>6 DEF D!WriteToStep
  <2>4. CASE DecryptReturn
    <3>1. UNCHANGED out /\ decJob = "copy" /\ decJob' = IF res = "nil" THEN "ok" ELSE "err"
      BY <2>4 DEF DecryptReturn, reader
    <3>2. CASE res = "nil"
      <4>1. closed /\ Copy!End(out) = buf.hi
        BY <1>1, <3>2, MarkerMeans
      <4> QED
        BY <2>1, <3>1, <3>2, <4>1 DEF Copy!Next, Copy!DecryptOK, DecryptOver
    <3>3. CASE res # "nil"
      BY <2>1, <3>1, <3>3 DEF Copy!Next, Copy!DecryptFails, DecryptOver
    <3> QED
      BY <3>2, <3>3
  <2> QED
    BY <1>4, <2>2, <2>3, <2>4 DEF Decrypt
<1>5. CASE UNCHANGED pipe
  <2>1. UNCHANGED <<buf, closed, encJob, out, decJob>>
    BY <1>5 DEF pipe, encVars, decVars, vars, writerVars, reader
  <2> QED
    BY <2>1 DEF Copy!vars, DecryptOver
<1> QED
  BY <1>2, <1>3, <1>4, <1>5 DEF PipeNext
-----------------------------------------------------------------------------
\* The invariant behind the theorems below.
THEOREM PipeInvariance == PipeSpec => []PipeIInv
BY PipeInitIInv, PipeStepIInv, PTL DEF PipeSpec

\* Both jobs and the transport keep their types.
THEOREM PipeTypeCorrect == PipeSpec => []PipeTypeOK
<1>1. PipeIInv => PipeTypeOK
  BY DEF PipeIInv
<1> QED
  BY <1>1, PipeInvariance, PTL

\* EncryptWithRecipients and DecryptWithIdentity over a pipe implement the copy: with any
\* faults of the sinks and the transport and crashes, the output is a prefix of the input,
\* but for a last chunk that a failing encryption sealed twice, and decryption succeeds
\* only with all of it.
THEOREM CopyImplemented == PipeSpec => ImplementsCopy
<1>1. PipeInit => CopyInv
  BY DEF CopyInv, BoundInv, MarkerInv, RepeatInv, Copy!Repeated, PipeInit, Init, D!ReaderInit
<1>2. PipeIInv /\ CopyInv /\ [PipeNext]_pipe => CopyInv' /\ [Copy!Next]_(Copy!vars)
  BY CopyStepInv, CopyStep
<1> QED
  BY <1>1, <1>2, CopyInit, PipeInvariance, PTL DEF PipeSpec, ImplementsCopy, Copy!Spec

\* Over a transport that damages nothing, what was encrypted without an error decrypts,
\* but for a fault of the writer that takes the plaintext.
THEOREM UndamagedDecryptsHolds == PipeSpec => []UndamagedDecrypts
<1>1. PipeIInv => UndamagedDecrypts
  <2> SUFFICES ASSUME PipeIInv, encJob = "ok", faults = 0, decJob = "err"
               PROVE  res = "sink"
    BY DEF UndamagedDecrypts
  <2>1. ~failed
    BY PipeParts DEF JobInv
  <2> QED
    BY <2>1, PipeParts DEF InStepInv, Intact
<1> QED
  BY <1>1, PipeInvariance, PTL

\* SealGo.go:62-71: EncryptWithRecipients returns nil only with a complete stream of all
\* that it took, and only when its source ended, or said io.ErrUnexpectedEOF.
THEOREM SuccessIsCompleteHolds == PipeSpec => []SuccessIsComplete
<1>1. PipeInit => SourceInv
  BY DEF PipeInit, Init, SourceInv
<1>2. SourceInv /\ [PipeNext]_pipe => SourceInv'
  BY SourceStep, PipeStepIsWriters
<1>3. PipeIInv /\ SourceInv => SuccessIsComplete
  <2> SUFFICES ASSUME PipeIInv, SourceInv, encJob = "ok"
               PROVE  /\ CompleteStream(wire) /\ wire[Len(wire)].hi = buf.hi
                      /\ todo = 0 /\ src \in {"none", "eof", "short"}
    BY DEF SuccessIsComplete
  <2>1. IInv /\ closed /\ call = "idle" /\ ~failed
    BY PipeParts DEF JobInv
  <2>2. todo = 0 /\ src \in {"none", "eof", "short"}
    BY <2>1 DEF SourceInv
  <2> QED
    BY <2>1, <2>2, CleanWireIsComplete
<1> QED
  BY <1>1, <1>2, <1>3, PipeInvariance, PTL DEF PipeSpec
=============================================================================
