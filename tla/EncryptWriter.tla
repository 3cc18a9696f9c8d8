---------------------------- MODULE EncryptWriter ----------------------------
(***************************************************************************)
(* One EncryptWriter of stream/writer.go, driven by an arbitrary caller:    *)
(* any sequence of Write, ReadFrom and Close calls, over a sink (io.Writer) *)
(* each of whose writes may fail, having stored nothing ("lost"), part of   *)
(* the chunk ("torn") or all of it ("kept").  A later write to a sink that  *)
(* failed may succeed.                                                      *)
(*                                                                         *)
(* A call is a sequence of steps, one per iteration of its loop, so that a  *)
(* reader of the wire can run between two writes to the sink.  Write and    *)
(* ReadFrom on a closed or failed writer return an error at once and change *)
(* nothing: that is the guard of their first step.                          *)
(***************************************************************************)
EXTENDS SealFrames

CONSTANTS
  ChunkSize,    \* chunkSz
  MaxInput,     \* bound: plaintext bytes offered to the writer in its life
  SinkFaults    \* the ways a write to the sink may fail

ASSUME WriterAssumption ==
  /\ ChunkSize \in Nat \ {0}
  /\ MaxInput \in Nat
  /\ SinkFaults \subseteq {"lost", "torn", "kept"}

VARIABLES
  buf,        \* ew.buf: the run of plaintext accepted and not yet sealed
  counter,    \* ew.counter
  closed,     \* ew.closed
  writeErr,   \* ew.writeErr # nil
  call,       \* the call in progress
  todo,       \* bytes of the slice given to Write that its loop has not taken
  src,        \* what ReadFrom's last io.ReadFull said of the source (SourceSays)
  wire,       \* the frames the sink has stored
  nonces,     \* history: the counter of every aead.Seal, in order
  failed,     \* history: a call that reached the sink or the source failed
  closeOK     \* history: a Close has returned nil

writerVars == <<buf, counter, closed, writeErr, call, todo, src>>
histVars == <<nonces, failed, closeOK>>
vars == <<writerVars, wire, histVars>>

Outcomes == {"ok"} \cup SinkFaults

\* "none": ReadFrom was never called; "more": the piece was full; "eof": the source is at
\* its end; "short": it is not, but returned io.ErrUnexpectedEOF itself, as a truncated
\* gzip stream or HTTP body does; "err": it failed in another way.
SourceSays == {"none", "more", "eof", "short", "err"}

Init ==
  /\ buf = [lo |-> 0, hi |-> 0]
  /\ counter = 0
  /\ closed = FALSE
  /\ writeErr = FALSE
  /\ call = "idle"
  /\ todo = 0
  /\ src = "none"
  /\ wire = <<>>
  /\ nonces = <<>>
  /\ failed = FALSE
  /\ closeOK = FALSE
-----------------------------------------------------------------------------
(* Sealing a frame and writing it to the sink, with outcome o.              *)

Emit(f, o) ==
  /\ nonces' = Append(nonces, f.ctr)
  /\ wire' = CASE o \in {"ok", "kept"} -> Append(wire, f)
               [] o = "torn"           -> Append(wire, [f EXCEPT !.state = "torn"])
               [] o = "lost"           -> wire

\* Mutant of Flush: the counter moves on only when the sink took the chunk.
FlushCountsStored(b, o) ==
  /\ Emit(SealChunk(b, counter), o)
  /\ counter' = IF o = "ok" THEN counter + 1 ELSE counter
  /\ buf' = IF o = "ok" THEN [lo |-> b.hi, hi |-> b.hi] ELSE b

\* Mutant of Flush: the buffer is not emptied after a successful write.
FlushKeepsBuffer(b, o) ==
  /\ Emit(SealChunk(b, counter), o)
  /\ counter' = counter + 1
  /\ buf' = b

\* flush(): the counter moves on as soon as the chunk is sealed, the buffer is
\* emptied only when the sink took the chunk.
Flush(b, o) ==
  /\ Emit(SealChunk(b, counter), o)
  /\ counter' = counter + 1
  /\ buf' = IF o = "ok" THEN [lo |-> b.hi, hi |-> b.hi] ELSE b

\* Mutant of ChunkFull: off by one.
ChunkOverfull(b) == Size(b) > ChunkSize

ChunkFull(b) == Size(b) >= ChunkSize
-----------------------------------------------------------------------------
(* Write(p)                                                                 *)

Usable == call = "idle" /\ ~closed /\ ~writeErr

Write(n) ==
  /\ Usable
  /\ buf.hi + n <= MaxInput
  /\ call' = "write"
  /\ todo' = n
  /\ UNCHANGED <<buf, counter, closed, writeErr, src, wire, histVars>>

\* Mutant of Appended: a whole chunk's worth of p.
AppendedSpace == [buf EXCEPT !.hi = @ + (ChunkSize - Size(buf))]

\* min(space, len(p)) bytes of p
Appended ==
  LET space == ChunkSize - Size(buf)
      n     == IF todo <= space THEN todo ELSE space
  IN  [buf EXCEPT !.hi = @ + n]

\* An iteration that leaves the buffer short of a chunk ...
WriteAppend ==
  /\ call \in {"write", "readFrom"}
  /\ todo > 0
  /\ ~ChunkFull(Appended)
  /\ buf' = Appended
  /\ todo' = todo - (Appended.hi - buf.hi)
  /\ UNCHANGED <<counter, closed, writeErr, call, src, wire, histVars>>

\* ... and one that fills it: the chunk is flushed, and a failure ends the call
\* and latches writeErr.
WriteFlush(o) ==
  /\ call \in {"write", "readFrom"}
  /\ todo > 0
  /\ ChunkFull(Appended)
  /\ Flush(Appended, o)
  /\ IF o = "ok"
     THEN /\ todo' = todo - (Appended.hi - buf.hi)
          /\ UNCHANGED <<call, writeErr, failed>>
     ELSE /\ todo' = 0
          /\ call' = "idle"
          /\ writeErr' = TRUE
          /\ failed' = TRUE
  /\ UNCHANGED <<closed, src, closeOK>>

WriteReturn ==
  /\ call = "write"
  /\ todo = 0
  /\ call' = "idle"
  /\ UNCHANGED <<buf, counter, closed, writeErr, todo, src, wire, histVars>>
-----------------------------------------------------------------------------
(* ReadFrom(r): pieces of up to a chunk, each handed to Write               *)

ReadFrom ==
  /\ Usable
  /\ call' = "readFrom"
  /\ src' = "more"
  /\ UNCHANGED <<buf, counter, closed, writeErr, todo, wire, histVars>>

\* io.ReadFull(r, buf): a full piece, or a short one with the end or a failure of the
\* source.
ReadPiece(nn, status) ==
  /\ call = "readFrom"
  /\ todo = 0
  /\ src = "more"
  /\ buf.hi + nn <= MaxInput
  /\ (status = "more") <=> (nn = ChunkSize)
  /\ todo' = nn
  /\ src' = status
  /\ UNCHANGED <<buf, counter, closed, writeErr, call, wire, histVars>>

\* An io.ErrUnexpectedEOF is the end of the source, whether io.ReadFull made it of an
\* io.EOF or the source returned it.
ReadFromReturn ==
  /\ call = "readFrom"
  /\ todo = 0
  /\ src \in {"eof", "short", "err"}
  /\ call' = "idle"
  /\ failed' = (failed \/ src = "err")
  /\ UNCHANGED <<buf, counter, closed, writeErr, todo, src, wire, nonces, closeOK>>
-----------------------------------------------------------------------------
(* Close()                                                                  *)

Close ==
  /\ call = "idle"
  /\ ~closed
  /\ closed' = TRUE
  /\ call' = "close"
  /\ UNCHANGED <<buf, counter, writeErr, todo, src, wire, histVars>>

\* Every later Close returns nil, whatever the first one returned.
CloseAgain ==
  /\ call = "idle"
  /\ closed
  /\ closeOK' = TRUE
  /\ UNCHANGED <<writerVars, wire, nonces, failed>>

CloseFlush(o) ==
  /\ call = "close"
  /\ Size(buf) > 0
  /\ Flush(buf, o)
  /\ call' = IF o = "ok" THEN "close" ELSE "idle"
  /\ failed' = (failed \/ o # "ok")
  /\ UNCHANGED <<closed, writeErr, todo, src, closeOK>>

\* Mutant of CloseEOF: the marker is written without flushing the last chunk.
CloseEOFUnflushed(o) ==
  /\ call = "close"
  /\ Emit(SealEOF(buf.hi, counter), o)
  /\ call' = "idle"
  /\ failed' = (failed \/ o # "ok")
  /\ closeOK' = (closeOK \/ o = "ok")
  /\ UNCHANGED <<buf, counter, closed, writeErr, todo, src>>

\* Mutant of CloseEOF: the marker skips a counter value.
CloseEOFSkips(o) ==
  /\ call = "close"
  /\ Size(buf) = 0
  /\ Emit(SealEOF(buf.hi, counter + 1), o)
  /\ call' = "idle"
  /\ failed' = (failed \/ o # "ok")
  /\ closeOK' = (closeOK \/ o = "ok")
  /\ UNCHANGED <<buf, counter, closed, writeErr, todo, src>>

CloseEOF(o) ==
  /\ call = "close"
  /\ Size(buf) = 0
  /\ Emit(SealEOF(buf.hi, counter), o)
  /\ call' = "idle"
  /\ failed' = (failed \/ o # "ok")
  /\ closeOK' = (closeOK \/ o = "ok")
  /\ UNCHANGED <<buf, counter, closed, writeErr, todo, src>>
-----------------------------------------------------------------------------
Begin ==
  \/ \E n \in 0..MaxInput : Write(n)
  \/ ReadFrom
  \/ Close
  \/ CloseAgain

\* The steps of a call in progress.
Continue ==
  \/ WriteAppend
  \/ \E o \in Outcomes : WriteFlush(o)
  \/ WriteReturn
  \/ \E nn \in 0..ChunkSize, status \in SourceSays \ {"none"} : ReadPiece(nn, status)
  \/ ReadFromReturn
  \/ \E o \in Outcomes : CloseFlush(o)
  \/ \E o \in Outcomes : CloseEOF(o)

Next == Begin \/ Continue

Spec == Init /\ [][Next]_vars

\* A call that has begun runs on: nothing in it waits for another goroutine, and
\* the sink and the source answer each request.
FairSpec == Spec /\ WF_vars(Continue)
-----------------------------------------------------------------------------
TypeOK ==
  /\ buf \in Run /\ buf.lo <= buf.hi
  /\ counter \in Nat
  /\ closed \in BOOLEAN /\ writeErr \in BOOLEAN
  /\ call \in {"idle", "write", "readFrom", "close"}
  /\ todo \in Nat
  /\ src \in SourceSays
  /\ wire \in Seq(Frame)
  /\ nonces \in Seq(Nat)
  /\ failed \in BOOLEAN /\ closeOK \in BOOLEAN

\* No counter value is ever given to aead.Seal twice, whatever writes fail and
\* however often Close tries again: README "random prefix + counter (no reuse)".
NonceUsedOnce ==
  \A i, j \in DOMAIN nonces : i # j => nonces[i] # nonces[j]

\* Frame k is the one before it over again, the last of the input, sealed by the Close
\* of a writer whose sink kept a chunk and said that it failed; only the marker can
\* follow.
Repeats(k) ==
  /\ "kept" \in SinkFaults
  /\ failed /\ closed
  /\ wire[k].lo = wire[k - 1].lo /\ wire[k].hi = wire[k - 1].hi /\ wire[k].hi = buf.hi
  /\ \A j \in (k + 1)..Len(wire) : IsEOF(wire[j])

\* Whatever a reader can open of the wire, after any failure of the sink, is the
\* input in order from its first byte, without a gap; only the last frame can be an
\* EOF marker; and only the last data chunk can come twice, after a failed call.
OpenedIsInOrder ==
  \A k \in 1..Len(wire) :
    Opens(wire, k) => /\ k = 1 => wire[k].lo = 0
                      /\ k > 1 => wire[k].lo = wire[k - 1].hi \/ Repeats(k)
                      /\ k < Len(wire) => ~IsEOF(wire[k])

\* Byte x of the input is in one of the first k frames.
Carries(k, x) == \E i \in 1..k : wire[i].lo < x /\ x <= wire[i].hi

\* A wire that opens to its EOF marker carries every byte the writer accepted:
\* a chunk the sink lost can not be missing from a stream that reads as complete.
EOFIsComplete ==
  OpensToEOF(wire) => \A x \in 1..buf.hi : Carries(Len(wire), x)

\* A Close that returns nil on a writer none of whose calls failed leaves a stream
\* that opens to EOF and carries the whole input, once and in order: what a reader
\* may take for granted of a sealed stream (DamagedStream).
CleanCloseOpens ==
  closeOK /\ ~failed => CompleteStream(wire) /\ wire[Len(wire)].hi = buf.hi

\* No frame is longer than the chunk size of the header, which a reader enforces.
FramesFitChunk ==
  \A i \in DOMAIN wire : Size(wire[i]) <= ChunkSize

\* A Write and a Close that have begun return: the loop of Write makes progress in
\* every iteration.
CallsReturn ==
  /\ call = "write" ~> call = "idle"
  /\ call = "close" ~> call = "idle"

\* The variant behind CallsReturn: a step after which the call goes on leaves it less
\* to do, less of p to take (writer.go:57-70) or a buffer to flush (writer.go:79-83).
CallsAdvance ==
  [][/\ call = "write" /\ call' = "write" => todo' < todo
     /\ call = "close" /\ call' = "close" => Size(buf') < Size(buf)]_vars
-----------------------------------------------------------------------------
(* The inductive invariant behind the safety properties.                    *)

\* The k-th seal used counter k - 1; the marker is the one seal after which the
\* counter stays put, and nothing is sealed after it.
NoncesInv ==
  /\ \A i \in 1..Len(nonces) : nonces[i] = i - 1
  /\ \/ Len(nonces) = counter
     \/ Len(nonces) = counter + 1 /\ closed /\ call = "idle"

CallInv ==
  /\ call \in {"write", "readFrom"} => ~closed
  /\ call = "close" => closed
  /\ writeErr => call \in {"idle", "close"}

BufferInv ==
  /\ Size(buf) <= ChunkSize
  /\ Len(nonces) = 0 => buf.lo = 0

\* A call that returns has taken all it was given, and a ReadFrom that does so without an
\* error has read its source up to what it holds for the end.
SourceInv ==
  /\ call \in {"idle", "close"} => todo = 0
  /\ call = "readFrom" => src # "none"
  /\ call # "readFrom" /\ ~failed => src \in {"none", "eof", "short"}

\* A buffer is full only where a flush failed, and no Write gets there again: Write
\* always finds space, and its loop does not turn without taking a byte.
SpaceInv == ~writeErr /\ ~closed => Size(buf) < ChunkSize

\* Stored frames have rising counters; a marker is the last frame, at the end of
\* the input.
FramesInv ==
  /\ \A i \in 1..Len(wire) :
       /\ wire[i].lo <= wire[i].hi
       /\ Size(wire[i]) <= ChunkSize
       /\ wire[i].ctr < Len(nonces)
       /\ IsEOF(wire[i]) => /\ i = Len(wire) /\ closed /\ call = "idle"
                            /\ wire[i].lo = buf.hi
  /\ \A i, j \in 1..Len(wire) : i < j => wire[i].ctr < wire[j].ctr

\* The newest frame is still in the buffer: the sink kept it and failed.  Only a
\* Close can seal it again.
Kept ==
  /\ "kept" \in SinkFaults
  /\ failed /\ (writeErr \/ closed)
  /\ buf.lo = wire[Len(wire)].lo /\ buf.hi = wire[Len(wire)].hi

\* Frames with successive counters carry successive plaintext unless the first of
\* them was torn, and the buffer begins where the newest sealed chunk ended; the
\* exception is a chunk that was kept, and then nothing but the marker is sealed.
ChainInv ==
  /\ wire # <<>> /\ wire[1].ctr = 0 => wire[1].lo = 0
  /\ \A i \in 2..Len(wire) :
       wire[i - 1].state = "whole" /\ wire[i].ctr = wire[i - 1].ctr + 1
         => \/ wire[i].lo = wire[i - 1].hi
            \/ Repeats(i) /\ (call = "close" => Size(buf) = 0)
  /\ wire # <<>> /\ wire[Len(wire)].state = "whole" /\ wire[Len(wire)].ctr = counter - 1
         => buf.lo = wire[Len(wire)].hi \/ Kept

CarriesInv ==
  \A k \in 1..Len(wire) : Opens(wire, k) => \A x \in 1..wire[k].hi : Carries(k, x)

\* Without a failure the sink stored every sealed frame, and a closed writer ended
\* with the marker.
CleanInv ==
  /\ closeOK => closed /\ call = "idle"
  /\ ~failed =>
       /\ Len(wire) = Len(nonces)
       /\ \A i \in 1..Len(wire) : wire[i].state = "whole" /\ wire[i].ctr = i - 1
       /\ closed /\ call = "idle" => wire # <<>> /\ IsEOF(wire[Len(wire)])

IInv ==
  /\ TypeOK
  /\ NoncesInv
  /\ CallInv
  /\ BufferInv
  /\ FramesInv
  /\ ChainInv
  /\ CarriesInv
  /\ CleanInv
=============================================================================
