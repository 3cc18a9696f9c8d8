---------------------------- MODULE DecryptReader ----------------------------
(***************************************************************************)
(* One DecryptReader of stream/reader.go, driven by an arbitrary caller     *)
(* (Read, WriteTo, Close in any order) over the bytes that arrived, `wire'. *)
(*                                                                         *)
(* What the wire holds is the environment's choice: DamagedStream gives the *)
(* reader a complete wire that transport has tampered with, SealPipe one    *)
(* that is still growing.  A call to Read is one step, taken when the bytes *)
(* it needs have arrived; WriteTo takes one step for each chunk.            *)
(***************************************************************************)
EXTENDS SealFrames

CONSTANTS
  ChunkSizes,     \* the chunk sizes a header may state
  MaxRead,        \* bound: the longest slice given to Read
  MayMix,         \* whether the caller may call WriteTo after a Read, which the
                  \* comment on the type (reader.go:16) tells it not to
  MayBreak        \* whether dr.r may fail, with an error that is not its end

ASSUME ReaderAssumption ==
  /\ ChunkSizes \subseteq Nat \ {0}
  /\ MaxRead \in Nat \ {0}
  /\ MayMix \in BOOLEAN /\ MayBreak \in BOOLEAN

VARIABLES
  wire,        \* the frames that have arrived
  ended,       \* no more bytes will arrive
  plaintextMax,\* dr.plaintextMax: the chunk size the header states, unauthenticated
  pos,         \* the frame the next read of dr.r starts in
  aligned,     \* ... and whether it starts at that frame's first byte
  broken,      \* dr.r has failed with an error that is not its end
  counter,     \* dr.counter
  nonceOK,     \* dr.nonce still holds the base nonce
  live,        \* dr.aead # nil
  buf,         \* dr.buf[dr.offset:], the opened plaintext not yet copied out
  eof,         \* dr.eof
  consumed,    \* dr.consumed
  call,        \* the call in progress
  res,         \* how the last Read or WriteTo ended: with what it returns, or an error
  reads,       \* history: Read has been called
  failures,    \* history: what the caller was told of each chunk that failed to open, in
               \* order: the ChunkIndex of a VerificationError, or NoIndex
  out          \* history: the runs handed to the caller, in order

streamVars == <<wire, ended, plaintextMax>>
readerVars == <<pos, aligned, broken, counter, nonceOK, live, buf, eof, consumed, call>>
obsVars == <<res, reads, failures, out>>
vars == <<streamVars, readerVars, obsVars>>

Empty == [lo |-> 0, hi |-> 0]

NoIndex == -1

\* "verification": a VerificationError, with a ChunkIndex.  "badMarker":
\* ErrEOFMarkerInvalid, without one.  "wrappedEOF": an error for which
\* errors.Is(err, io.EOF) holds.  "source", "sink": the error of dr.r and of the writer.
Errors == {"consumed", "unexpectedEOF", "wrappedEOF", "tooLarge", "verification", "badMarker",
           "source", "sink", "panic"}

ReaderInit ==
  /\ plaintextMax \in ChunkSizes
  /\ pos = 1 /\ aligned = TRUE /\ broken = FALSE
  /\ counter = 0 /\ nonceOK = TRUE /\ live = TRUE
  /\ buf = Empty
  /\ eof = FALSE /\ consumed = FALSE
  /\ call = "idle" /\ res = "none"
  /\ reads = FALSE /\ failures = <<>>
  /\ out = <<>>
-----------------------------------------------------------------------------
(* Reading one chunk: the length, the sealed bytes, and OpenChunk.          *)

\* Past a torn frame, or past a length that was refused, the reader takes whatever
\* bytes come next for a length: it may fall back into step at any later frame.
Garbled == pos <= Len(wire) /\ (~aligned \/ wire[pos].state = "torn")

Resync(from) ==
  /\ pos' \in from..(Len(wire) + 1)
  /\ aligned' \in BOOLEAN

\* The stream ends inside this frame.
Cut == pos <= Len(wire) /\ aligned /\ wire[pos].state = "cut"

\* The stream ends where a length should be, inside it, or in the sealed bytes; when
\* it ends right behind a length, io.ReadFull returns a plain io.EOF.
FetchEnd(r) ==
  /\ ended
  /\ \/ pos > Len(wire) /\ r = "unexpectedEOF" /\ UNCHANGED <<pos, aligned>>
     \/ Cut /\ pos' = Len(wire) + 1 /\ UNCHANGED aligned
     \/ Garbled /\ pos' = Len(wire) + 1 /\ aligned' = FALSE
  /\ r = "wrappedEOF" => live /\ (Cut => Size(wire[pos]) <= plaintextMax)
  /\ UNCHANGED <<broken, counter>>

\* dr.r fails before a length, in it, or in the sealed bytes.  What it gave before is
\* lost, so that a caller that tries again is out of step.
FetchBreaks ==
  /\ MayBreak
  /\ broken' = TRUE
  /\ \/ UNCHANGED <<pos, aligned>>
     \/ pos <= Len(wire) /\ aligned' = FALSE /\ UNCHANGED pos
     \/ Garbled /\ Resync(pos)
  /\ UNCHANGED counter

\* chunkLen > plaintextMax: only the length has been consumed.
FetchTooLarge ==
  /\ \/ Garbled
     \/ pos <= Len(wire) /\ Size(wire[pos]) > plaintextMax
  /\ Resync(pos)
  /\ UNCHANGED <<broken, counter>>

\* Mutant of FetchChunk: Read takes the place of io.ReadFull, so that a chunk may be
\* opened that has not arrived whole.
FetchChunkShort(r) ==
  /\ \/ /\ ~Garbled
        /\ pos <= Len(wire)
        /\ Size(wire[pos]) <= plaintextMax
        /\ r = OpenChunk(wire[pos], counter, nonceOK)
        /\ pos' = pos + 1
        /\ UNCHANGED aligned
     \/ /\ Garbled
        /\ r = "fail"
        /\ Resync(pos + 1)
  /\ counter' = counter + 1 /\ UNCHANGED broken

\* A length and as many bytes as it asks for, given to OpenChunk under the counter.
\* (Several garbled chunks inside one frame count as one: after the first nothing
\* opens again.)
FetchChunk(r) ==
  /\ \/ /\ ~Garbled /\ ~Cut
        /\ pos <= Len(wire)
        /\ Size(wire[pos]) <= plaintextMax
        /\ r = OpenChunk(wire[pos], counter, nonceOK)
        /\ pos' = pos + 1
        /\ UNCHANGED aligned
     \/ /\ Garbled
        /\ r = "fail"
        /\ Resync(pos + 1)
  /\ counter' = counter + 1 /\ UNCHANGED broken

\* What OpenChunk says of a chunk it does not open.
Failures ==
  IF Garbled THEN {"verification", "badMarker"}
  ELSE {IF IsEOF(wire[pos]) THEN "badMarker" ELSE "verification"}

\* The failure of the chunk with index k is returned.
Fails(k) ==
  \E e \in Failures :
    /\ res' = e
    /\ failures' = Append(failures, IF e = "verification" THEN k ELSE NoIndex)

\* A closed reader has no AEAD: it fails on dr.aead.Overhead(), the length consumed.
FetchPanic ==
  /\ pos <= Len(wire)
  /\ Garbled \/ Size(wire[pos]) <= plaintextMax
  /\ aligned' = FALSE
  /\ UNCHANGED <<pos, broken, counter>>

Chunk == [lo |-> wire[pos].lo, hi |-> wire[pos].hi]

\* Mutant of Deliver: the offset moves by len(p), not by what copy() returned.
DeliverUnclamped(b, n) ==
  /\ out' = IF n = 0 THEN out ELSE Append(out, [lo |-> b.lo, hi |-> b.lo + n])
  /\ buf' = [lo |-> b.lo + n, hi |-> b.hi]

\* The first n bytes of run b are handed out, the others become the buffer.
Deliver(b, n) ==
  LET m == IF n <= Size(b) THEN n ELSE Size(b)
  IN  /\ out' = IF m = 0 THEN out ELSE Append(out, [lo |-> b.lo, hi |-> b.lo + m])
      /\ buf' = IF m = Size(b) THEN Empty ELSE [lo |-> b.lo + m, hi |-> b.hi]
-----------------------------------------------------------------------------
(* Read(p), with len(p) = n                                                 *)

ReadRefused ==
  /\ call = "idle"
  /\ consumed /\ Size(buf) = 0 /\ ~eof
  /\ res' = "consumed"
  /\ reads' = TRUE
  /\ UNCHANGED <<streamVars, readerVars, failures, out>>

ReadBuffered(n) ==
  /\ call = "idle"
  /\ Size(buf) > 0
  /\ Deliver(buf, n)
  /\ res' = "data"
  /\ reads' = TRUE
  /\ UNCHANGED <<streamVars, pos, aligned, broken, counter, nonceOK, live, eof, consumed, call,
                 failures>>

ReadEOF ==
  /\ call = "idle"
  /\ Size(buf) = 0 /\ eof
  /\ res' = "EOF"
  /\ reads' = TRUE
  /\ UNCHANGED <<streamVars, readerVars, failures, out>>

\* Read goes to the stream only with nothing buffered.
Fresh == call = "idle" /\ Size(buf) = 0 /\ ~eof /\ ~consumed

ReadChunk(n) ==
  /\ Fresh /\ live
  /\ FetchChunk("data")
  /\ Deliver(Chunk, n)
  /\ res' = "data"
  /\ reads' = TRUE
  /\ UNCHANGED <<streamVars, nonceOK, live, eof, consumed, call, failures>>

ReadMarker ==
  /\ Fresh /\ live
  /\ FetchChunk("eof")
  /\ eof' = TRUE
  /\ res' = "EOF"
  /\ reads' = TRUE
  /\ UNCHANGED <<streamVars, nonceOK, live, buf, consumed, call, failures, out>>

\* Mutant of ReadFail: the base nonce survives.
ReadFailKeepsNonce ==
  /\ Fresh /\ live
  /\ FetchChunk("fail")
  /\ Fails(counter)
  /\ reads' = TRUE
  /\ UNCHANGED <<streamVars, nonceOK, live, buf, eof, consumed, call, out>>

\* Mutant of ReadFail: the index is the counter after it moved on.
ReadFailLate ==
  /\ Fresh /\ live
  /\ FetchChunk("fail")
  /\ nonceOK' = FALSE
  /\ Fails(counter')
  /\ reads' = TRUE
  /\ UNCHANGED <<streamVars, live, buf, eof, consumed, call, out>>

\* The chunk does not open: the base nonce is wiped, so that no later one can.
ReadFail ==
  /\ Fresh /\ live
  /\ FetchChunk("fail")
  /\ nonceOK' = FALSE
  /\ Fails(counter)
  /\ reads' = TRUE
  /\ UNCHANGED <<streamVars, live, buf, eof, consumed, call, out>>

\* An error before OpenChunk wipes nothing.
ReadError ==
  /\ Fresh
  /\ \/ \E e \in {"unexpectedEOF", "wrappedEOF"} : FetchEnd(e) /\ res' = e
     \/ FetchTooLarge /\ res' = "tooLarge"
     \/ FetchBreaks /\ res' = "source"
     \/ ~live /\ FetchPanic /\ res' = "panic"
  /\ reads' = TRUE
  /\ UNCHANGED <<streamVars, nonceOK, live, buf, eof, consumed, call, failures, out>>
-----------------------------------------------------------------------------
(* WriteTo(w)                                                               *)

WriteToRefused ==
  /\ call = "idle"
  /\ consumed
  /\ res' = "consumed"
  /\ UNCHANGED <<streamVars, readerVars, reads, failures, out>>

\* WriteTo looks neither at the buffer a Read has left nor at eof.
WriteTo ==
  /\ call = "idle"
  /\ ~consumed
  /\ MayMix \/ ~reads
  /\ consumed' = TRUE
  /\ call' = "writeTo"
  /\ UNCHANGED <<streamVars, pos, aligned, broken, counter, nonceOK, live, buf, eof, obsVars>>

\* A chunk that opens is written out, all of it ...
WriteToChunk ==
  /\ call = "writeTo" /\ live
  /\ FetchChunk("data")
  /\ out' = Append(out, Chunk)
  /\ UNCHANGED <<streamVars, nonceOK, live, buf, eof, consumed, call, res, reads, failures>>

\* ... or the first n bytes of it, by a writer that then fails.
WriteToSinkError(n) ==
  /\ call = "writeTo" /\ live
  /\ FetchChunk("data")
  /\ n <= Size(Chunk)
  /\ out' = IF n = 0 THEN out ELSE Append(out, [lo |-> Chunk.lo, hi |-> Chunk.lo + n])
  /\ nonceOK' = FALSE
  /\ call' = "idle"
  /\ res' = "sink"
  /\ UNCHANGED <<streamVars, live, buf, eof, consumed, reads, failures>>

WriteToMarker ==
  /\ call = "writeTo" /\ live
  /\ FetchChunk("eof")
  /\ nonceOK' = FALSE
  /\ call' = "idle"
  /\ res' = "nil"
  /\ UNCHANGED <<streamVars, live, buf, eof, consumed, reads, failures, out>>

WriteToFail ==
  /\ call = "writeTo" /\ live
  /\ FetchChunk("fail")
  /\ Fails(counter)
  /\ call' = "idle"
  /\ UNCHANGED <<streamVars, nonceOK, live, buf, eof, consumed, reads, out>>

\* Mutant of WriteToError: the loop does not leave on an error of the stream.
WriteToErrorLoops ==
  /\ call = "writeTo"
  /\ (\E r \in {"unexpectedEOF", "wrappedEOF"} : FetchEnd(r)) \/ FetchTooLarge \/ FetchBreaks
  /\ UNCHANGED <<streamVars, nonceOK, live, buf, eof, consumed, call, res, reads, failures,
                 out>>

\* Mutant of WriteToError: the end of the stream is taken for the end of the data.
WriteToErrorClean ==
  /\ call = "writeTo"
  /\ \/ FetchEnd("unexpectedEOF") /\ res' = "nil"
     \/ FetchTooLarge /\ res' = "tooLarge"
     \/ FetchBreaks /\ res' = "source"
     \/ ~live /\ FetchPanic /\ res' = "panic"
  /\ call' = "idle"
  /\ UNCHANGED <<streamVars, nonceOK, live, buf, eof, consumed, reads, failures, out>>

WriteToError ==
  /\ call = "writeTo"
  /\ \/ \E e \in {"unexpectedEOF", "wrappedEOF"} : FetchEnd(e) /\ res' = e
     \/ FetchTooLarge /\ res' = "tooLarge"
     \/ FetchBreaks /\ res' = "source"
     \/ ~live /\ FetchPanic /\ res' = "panic"
  /\ call' = "idle"
  /\ UNCHANGED <<streamVars, nonceOK, live, buf, eof, consumed, reads, failures, out>>
-----------------------------------------------------------------------------
(* Close()                                                                  *)

Close ==
  /\ call = "idle"
  /\ nonceOK' = FALSE
  /\ live' = FALSE
  /\ buf' = Empty
  /\ UNCHANGED <<streamVars, pos, aligned, broken, counter, eof, consumed, call, obsVars>>
-----------------------------------------------------------------------------
Read ==
  \/ ReadRefused
  \/ \E n \in 0..MaxRead : ReadBuffered(n)
  \/ ReadEOF
  \/ \E n \in 0..MaxRead : ReadChunk(n)
  \/ ReadMarker
  \/ ReadFail
  \/ ReadError

\* The steps of a WriteTo in progress.
WriteToStep ==
  \/ WriteToChunk
  \/ \E n \in 0..plaintextMax : WriteToSinkError(n)
  \/ WriteToMarker
  \/ WriteToFail
  \/ WriteToError

ReaderNext == Read \/ WriteToRefused \/ WriteTo \/ WriteToStep \/ Close
-----------------------------------------------------------------------------
ReaderTypeOK ==
  /\ wire \in Seq(Frame)
  /\ plaintextMax \in ChunkSizes
  /\ pos \in 1..(Len(wire) + 1)
  /\ counter \in Nat
  /\ buf \in Run /\ buf.lo <= buf.hi
  /\ ended \in BOOLEAN /\ aligned \in BOOLEAN /\ broken \in BOOLEAN
  /\ nonceOK \in BOOLEAN /\ live \in BOOLEAN
  /\ eof \in BOOLEAN /\ consumed \in BOOLEAN
  /\ call \in {"idle", "writeTo"}
  /\ res \in {"none", "data", "EOF", "nil"} \cup Errors
  /\ reads \in BOOLEAN /\ failures \in Seq(Nat \cup {NoIndex})
  /\ out \in Seq(Run)
=============================================================================
