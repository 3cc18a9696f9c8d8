------------------------- MODULE DamagedStreamProofs -------------------------
(***************************************************************************)
(* DamagedStream for every sealed stream, every wire made of it and every   *)
(* chunk size.  MixInv holds whatever the caller does, the stronger IInv    *)
(* for callers that do not mix Read and WriteTo.                            *)
(***************************************************************************)
EXTENDS DamagedStream, TLAPS

USE DEF authFailed, Errors

\* What the assumption on the sealed stream says of one of its frames.
LEMMA SealedFacts ==
  /\ Len(Sealed) \in Nat \ {0}
  /\ \A k \in 1..Len(Sealed) :
       /\ Sealed[k].ctr = k - 1
       /\ Sealed[k].lo \in Nat /\ Sealed[k].hi \in Nat /\ Sealed[k].lo <= Sealed[k].hi
       /\ Sealed[k].lo = (IF k = 1 THEN 0 ELSE Sealed[k - 1].hi)
       /\ IsEOF(Sealed[k]) => k = Len(Sealed)
  /\ IsEOF(Sealed[Len(Sealed)])
<1>1. Sealed \in Seq(Frame) /\ Sealed # <<>> /\ Len(Sealed) \in Nat \ {0}
  BY StreamAssumption DEF CompleteStream, OpensToEOF
<1>2. \A k \in 1..Len(Sealed) : Sealed[k] \in Frame
  BY <1>1
<1>3. \A k \in 1..Len(Sealed) : Sealed[k].lo \in Nat /\ Sealed[k].hi \in Nat
  BY <1>2 DEF Frame
<1> QED
  BY <1>1, <1>3, StreamAssumption DEF CompleteStream, OpensToEOF, Opens

\* Whatever a fetch finds, the reader is at a frame or at the end.
LEMMA FetchTypes ==
  ASSUME TypeOK,
         (\E r : FetchEnd(r)) \/ FetchTooLarge \/ FetchBreaks \/ FetchPanic \/ (\E r : FetchChunk(r))
  PROVE  pos' \in 1..(Len(wire) + 1) /\ aligned' \in BOOLEAN /\ broken' \in BOOLEAN /\ counter' \in Nat
<1>1. Len(wire) \in Nat /\ pos \in 1..(Len(wire) + 1) /\ counter \in Nat /\ aligned \in BOOLEAN
  BY DEF TypeOK, ReaderTypeOK
<1>7. broken' \in BOOLEAN
  BY DEF TypeOK, ReaderTypeOK, FetchEnd, FetchTooLarge, FetchBreaks, FetchPanic, FetchChunk
<1> SUFFICES pos' \in 1..(Len(wire) + 1) /\ aligned' \in BOOLEAN /\ counter' \in Nat
  BY <1>7
<1>2. CASE \E r : FetchEnd(r)
  <2>1. \/ pos > Len(wire) /\ pos' = pos /\ aligned' = aligned
        \/ pos' = Len(wire) + 1 /\ aligned' = aligned
        \/ pos' = Len(wire) + 1 /\ aligned' = FALSE
    BY <1>2 DEF FetchEnd
  <2>2. pos' \in 1..(Len(wire) + 1) /\ counter' \in Nat
    BY <1>1, <1>2, <2>1 DEF FetchEnd
  <2> QED
    BY <1>1, <2>1, <2>2, Zenon
<1>3. CASE FetchTooLarge
  <2>1. pos <= Len(wire) /\ Resync(pos) /\ counter' = counter
    BY <1>3 DEF FetchTooLarge, Garbled
  <2> QED
    BY <1>1, <2>1 DEF Resync
<1>4. CASE FetchPanic
  BY <1>1, <1>4 DEF FetchPanic
<1>5. CASE \E r : FetchChunk(r)
  <2>1. pos <= Len(wire) /\ counter' = counter + 1
        /\ ((pos' = pos + 1 /\ aligned' = aligned) \/ Resync(pos + 1))
    BY <1>5 DEF FetchChunk, Garbled
  <2> QED
    BY <1>1, <2>1 DEF Resync
<1>6. CASE FetchBreaks
  <2>1. /\ counter' = counter
        /\ \/ pos' = pos /\ aligned' \in BOOLEAN
           \/ pos <= Len(wire) /\ Resync(pos)
    BY <1>1, <1>6 DEF FetchBreaks, Garbled
  <2>2. CASE pos' = pos /\ aligned' \in BOOLEAN
    BY <1>1, <2>1, <2>2
  <2>3. CASE pos <= Len(wire) /\ Resync(pos)
    BY <1>1, <2>1, <2>3 DEF Resync
  <2> QED
    BY <2>1, <2>2, <2>3
<1> QED
  BY <1>2, <1>3, <1>4, <1>5, <1>6

\* A chunk that opens, data or marker, is the frame of the sealed stream that the counter
\* asks for: it begins where the chunk before it ended.
LEMMA OpenedChunk ==
  ASSUME TypeOK, wire \in Wires, NEW r \in {"data", "eof"}, FetchChunk(r)
  PROVE  /\ nonceOK /\ counter < Len(Sealed) /\ counter' = counter + 1
         /\ Reached \in Nat /\ Chunk.lo = Reached
         /\ Chunk.hi = Sealed[counter + 1].hi
         /\ Chunk \in Run
         /\ IF r = "eof" THEN counter + 1 = Len(Sealed) /\ Chunk.lo = Chunk.hi
            ELSE counter + 1 # Len(Sealed) /\ Chunk.lo < Chunk.hi
<1>1. /\ pos \in 1..Len(wire) /\ counter \in Nat /\ counter' = counter + 1
      /\ r = OpenChunk(wire[pos], counter, nonceOK)
  BY DEF FetchChunk, TypeOK, ReaderTypeOK
<1>2. /\ wire[pos].state = "whole" /\ nonceOK /\ wire[pos].ctr = counter
      /\ r = IF IsEOF(wire[pos]) THEN "eof" ELSE "data"
  BY <1>1 DEF OpenChunk
<1>3. PICK k \in 1..Len(Sealed) : wire[pos] = Sealed[k]
  BY <1>1, <1>2, StreamAssumption
<1>4. k = counter + 1
  BY <1>1, <1>2, <1>3, SealedFacts
<1>5. /\ Chunk.lo = Sealed[k].lo /\ Chunk.hi = Sealed[k].hi
      /\ Chunk = [lo |-> Sealed[k].lo, hi |-> Sealed[k].hi]
  BY <1>3 DEF Chunk
<1>6. Reached \in Nat /\ Chunk.lo = Reached
  BY <1>1, <1>4, <1>5, SealedFacts DEF Reached
<1>7. Chunk \in Run
  BY <1>5, SealedFacts DEF Run
<1>8. IF r = "eof" THEN k = Len(Sealed) /\ Chunk.lo = Chunk.hi
      ELSE k # Len(Sealed) /\ Chunk.lo < Chunk.hi
  <2>1. IsEOF(wire[pos]) <=> Sealed[k].lo = Sealed[k].hi
    BY <1>3, SealedFacts DEF IsEOF, Size
  <2>2. IsEOF(Sealed[k]) => k = Len(Sealed)
    BY SealedFacts
  <2> QED
    BY <1>2, <1>3, <1>5, <2>1, <2>2, SealedFacts
<1>9. counter < Len(Sealed) /\ Chunk.hi = Sealed[counter + 1].hi
  BY <1>1, <1>4, <1>5, SealedFacts
<1>10. IF r = "eof" THEN counter + 1 = Len(Sealed) /\ Chunk.lo = Chunk.hi
       ELSE counter + 1 # Len(Sealed) /\ Chunk.lo < Chunk.hi
  BY <1>4, <1>8
<1> QED
  BY <1>1, <1>2, <1>6, <1>7, <1>9, <1>10

\* What a caller is told of a chunk that does not open.
LEMMA FailsFacts ==
  ASSUME failures \in Seq(Nat \cup {NoIndex}), NEW k \in Nat, Fails(k)
  PROVE  /\ res' \in {"verification", "badMarker"}
         /\ failures' \in Seq(Nat \cup {NoIndex}) /\ failures' # <<>>
         /\ Len(failures') = Len(failures) + 1
         /\ failures'[Len(failures) + 1] \in {k, NoIndex}
         /\ \A i \in 1..Len(failures) : failures'[i] = failures[i]
<1>1. PICK n \in {k, NoIndex} : failures' = Append(failures, n)
  BY DEF Fails
<1>2. res' \in {"verification", "badMarker"}
  BY DEF Fails, Failures
<1> QED
  BY <1>1, <1>2

LEMMA OpenedFrame ==
  ASSUME SafeInv, live, NEW r \in {"data", "eof"}, FetchChunk(r)
  PROVE  /\ nonceOK /\ counter < Len(Sealed) /\ counter' = counter + 1
         /\ failures = <<>> => Chunk.lo = Taken
         /\ Chunk.hi = Sealed[counter + 1].hi
         /\ Chunk \in Run
         /\ IF r = "eof" THEN counter + 1 = Len(Sealed) /\ Chunk.lo = Chunk.hi
            ELSE counter + 1 # Len(Sealed) /\ Chunk.lo < Chunk.hi
<1>1. TypeOK /\ wire \in Wires
  BY DEF SafeInv
<1>2. failures = <<>> => Chunk.lo = Taken
  BY <1>1, OpenedChunk DEF SafeInv, ProgressInv, Reached
<1> QED
  BY <1>1, <1>2, OpenedChunk

\* A run that begins where the output ends may be appended to it.
LEMMA AppendOut ==
  ASSUME out \in Seq(Run), DeliversInOrder, NEW r \in Run, r.lo = Delivered,
         out' = Append(out, r)
  PROVE  out' \in Seq(Run) /\ DeliversInOrder' /\ Delivered' = r.hi
<1>1. /\ out' \in Seq(Run) /\ Len(out') = Len(out) + 1 /\ Len(out) \in Nat
      /\ out'[Len(out) + 1] = r /\ \A i \in 1..Len(out) : out'[i] = out[i]
      /\ out' # <<>> /\ (out = <<>> <=> Len(out) = 0)
  OBVIOUS
<1>2. ASSUME NEW i \in 1..Len(out')
      PROVE  out'[i].lo = IF i = 1 THEN 0 ELSE out'[i - 1].hi
  <2>1. CASE i = Len(out) + 1
    BY <1>1, <2>1 DEF Delivered
  <2>2. CASE i \in 1..Len(out)
    BY <1>1, <2>2 DEF DeliversInOrder
  <2> QED
    BY <1>1, <2>1, <2>2
<1> QED
  BY <1>1, <1>2 DEF DeliversInOrder, Delivered

\* Handing out part of a run, or all of it, and keeping the rest.
LEMMA DeliverFacts ==
  ASSUME out \in Seq(Run), DeliversInOrder, NEW b \in Run, b.lo < b.hi, b.lo = Delivered,
         NEW n \in Nat, Deliver(b, n)
  PROVE  /\ out' \in Seq(Run) /\ OutInv' /\ Taken' = b.hi
         /\ buf' \in Run /\ buf'.lo <= buf'.hi
<1> DEFINE m == IF n <= Size(b) THEN n ELSE Size(b)
<1> DEFINE given == [lo |-> b.lo, hi |-> b.lo + m]
<1>1. b.lo \in Nat /\ b.hi \in Nat /\ Size(b) = b.hi - b.lo
  BY DEF Run, Size
<1>2. m \in 0..Size(b)
  BY <1>1
<1>3. /\ out' = IF m = 0 THEN out ELSE Append(out, given)
      /\ buf' = IF m = Size(b) THEN Empty ELSE [lo |-> b.lo + m, hi |-> b.hi]
  BY DEF Deliver
<1>4. given \in Run /\ given.lo = b.lo /\ given.hi = b.lo + m
  BY <1>1, <1>2 DEF Run
<1> HIDE DEF m, given
<1>5. out' \in Seq(Run) /\ DeliversInOrder' /\ Delivered' = b.lo + m
  <2>1. CASE m = 0
    BY <1>1, <1>3, <2>1 DEF DeliversInOrder, Delivered
  <2>2. CASE m # 0
    BY <1>3, <1>4, <2>2, AppendOut
  <2> QED
    BY <2>1, <2>2
<1>6. CASE m = Size(b)
  BY <1>1, <1>3, <1>5, <1>6 DEF OutInv, Taken, Empty, Run, Size
<1>7. CASE m # Size(b)
  BY <1>1, <1>2, <1>3, <1>5, <1>7 DEF OutInv, Taken, Run, Size
<1> QED
  BY <1>5, <1>6, <1>7
-----------------------------------------------------------------------------
(* The steps of the reader.                                                 *)

LEMMA InitSafeInv == Init => SafeInv
<1> SUFFICES ASSUME Init
             PROVE  SafeInv
  OBVIOUS
<1>1. wire \in Wires /\ wire \in Seq(Frame) /\ Len(wire) \in Nat
  BY StreamAssumption DEF Init
<1>2. TypeOK
  <2>1. /\ pos \in 1..(Len(wire) + 1) /\ counter \in Nat
        /\ buf \in Run /\ buf.lo <= buf.hi /\ out \in Seq(Run)
    BY <1>1 DEF Init, ReaderInit, Run, Empty
  <2>2. /\ plaintextMax \in ChunkSizes
        /\ ended \in BOOLEAN /\ aligned \in BOOLEAN /\ broken \in BOOLEAN /\ nonceOK \in BOOLEAN /\ live \in BOOLEAN
        /\ eof \in BOOLEAN /\ consumed \in BOOLEAN
        /\ call \in {"idle", "writeTo"}
        /\ res \in {"none", "data", "EOF", "nil"} \cup Errors
        /\ reads \in BOOLEAN
    BY DEF Init, ReaderInit
  <2>3. failures \in Seq(Nat \cup {NoIndex})
    BY DEF Init, ReaderInit
  <2> QED
    BY <1>1, <2>1, <2>2, <2>3 DEF TypeOK, ReaderTypeOK
<1>3. OutInv /\ Taken = 0
  BY DEF Init, ReaderInit, OutInv, DeliversInOrder, Taken, Delivered, Empty, Size
<1>4. ProgressInv
  BY <1>3, SealedFacts DEF Init, ReaderInit, ProgressInv
<1> QED
  BY <1>1, <1>2, <1>3, <1>4 DEF SafeInv, Init, ReaderInit, CallInv, StopInv, Empty, Size

\* A step that hands out nothing and leaves the buffer as it is.
LEMMA KeepOut ==
  ASSUME OutInv, UNCHANGED <<out, buf>>
  PROVE  OutInv' /\ Taken' = Taken /\ Delivered' = Delivered
BY DEF OutInv, DeliversInOrder, Taken, Delivered

LEMMA ReadStep ==
  ASSUME SafeInv, ~MayMix, Read
  PROVE  SafeInv'
<1> USE DEF SafeInv
<1>1. CASE ReadRefused \/ ReadEOF
  <2>1. /\ UNCHANGED <<streamVars, readerVars, failures, out>> /\ reads' = TRUE
        /\ \/ consumed /\ res' \in Errors
           \/ eof /\ res' = "EOF"
    BY <1>1 DEF ReadRefused, ReadEOF
  <2>2. TypeOK'
    BY <2>1 DEF TypeOK, ReaderTypeOK, streamVars, readerVars
  <2>3. OutInv' /\ Taken' = Taken /\ Delivered' = Delivered
    BY <2>1, KeepOut DEF readerVars
  <2>4. CallInv' /\ StopInv'
    BY <1>1, <2>1, <2>3 DEF CallInv, StopInv, readerVars, ReadRefused, ReadEOF
  <2> QED
    BY <2>1, <2>2, <2>3, <2>4 DEF ProgressInv, readerVars, streamVars
<1>2. ASSUME NEW n \in 0..MaxRead, ReadBuffered(n)
      PROVE  SafeInv'
  <2>1. /\ call = "idle" /\ Size(buf) > 0 /\ Deliver(buf, n) /\ res' = "data" /\ reads' = TRUE
        /\ UNCHANGED <<streamVars, pos, aligned, broken, counter, nonceOK, live, eof, consumed, call,
                       failures>>
    BY <1>2 DEF ReadBuffered
  <2>2. /\ out \in Seq(Run) /\ DeliversInOrder /\ buf \in Run /\ buf.lo < buf.hi
        /\ buf.lo = Delivered /\ n \in Nat /\ Taken = buf.hi
    BY <2>1, ReaderAssumption DEF TypeOK, ReaderTypeOK, OutInv, Size, Run, Taken
  <2>3. /\ out' \in Seq(Run) /\ OutInv' /\ Taken' = Taken
        /\ buf' \in Run /\ buf'.lo <= buf'.hi
    BY <2>1, <2>2, DeliverFacts
  <2>4. TypeOK'
    BY <2>1, <2>3 DEF TypeOK, ReaderTypeOK, streamVars
  <2>5. ~consumed /\ ~eof /\ failures = <<>>
    BY <2>1 DEF CallInv, StopInv
  <2> QED
    BY <2>1, <2>3, <2>4, <2>5 DEF CallInv, StopInv, ProgressInv, streamVars
<1>3. ASSUME NEW n \in 0..MaxRead, ReadChunk(n)
      PROVE  SafeInv'
  <2>1. /\ call = "idle" /\ Size(buf) = 0 /\ ~eof /\ ~consumed /\ live
        /\ FetchChunk("data") /\ Deliver(Chunk, n) /\ res' = "data" /\ reads' = TRUE
        /\ UNCHANGED <<streamVars, nonceOK, live, eof, consumed, call, failures>>
    BY <1>3 DEF ReadChunk, Fresh
  <2>2. /\ nonceOK /\ counter < Len(Sealed) /\ counter' = counter + 1
        /\ failures = <<>> => Chunk.lo = Taken
        /\ Chunk.hi = Sealed[counter + 1].hi /\ Chunk \in Run /\ Chunk.lo < Chunk.hi
    BY <2>1, OpenedFrame
  <2>3. failures = <<>>
    BY <2>1, <2>2 DEF StopInv
  <2>4. /\ out \in Seq(Run) /\ DeliversInOrder /\ n \in Nat /\ Chunk.lo = Delivered
    BY <2>1, <2>2, <2>3, ReaderAssumption DEF TypeOK, ReaderTypeOK, OutInv, Taken
  <2>5. /\ out' \in Seq(Run) /\ OutInv' /\ Taken' = Chunk.hi
        /\ buf' \in Run /\ buf'.lo <= buf'.hi
    BY <2>1, <2>2, <2>4, DeliverFacts
  <2>6. pos' \in 1..(Len(wire) + 1) /\ aligned' \in BOOLEAN /\ broken' \in BOOLEAN
        /\ counter' \in Nat
    BY <2>1, FetchTypes
  <2>7. TypeOK'
    BY <2>1, <2>5, <2>6 DEF TypeOK, ReaderTypeOK, streamVars
  <2>8. counter \in Nat
    BY DEF TypeOK, ReaderTypeOK
  <2>9. ProgressInv'
    BY <2>2, <2>5, <2>8, SealedFacts DEF ProgressInv
  <2> QED
    BY <2>1, <2>3, <2>5, <2>7, <2>9 DEF CallInv, StopInv, streamVars
<1>4. CASE ReadMarker
  <2>1. /\ call = "idle" /\ Size(buf) = 0 /\ ~eof /\ ~consumed /\ live
        /\ FetchChunk("eof") /\ eof' = TRUE /\ res' = "EOF" /\ reads' = TRUE
        /\ UNCHANGED <<streamVars, nonceOK, live, buf, consumed, call, failures, out>>
    BY <1>4 DEF ReadMarker, Fresh
  <2>2. /\ nonceOK /\ counter' = counter + 1 /\ counter + 1 = Len(Sealed)
        /\ failures = <<>> => Chunk.lo = Taken
        /\ Chunk.hi = Sealed[counter + 1].hi /\ Chunk.lo = Chunk.hi
    BY <2>1, OpenedFrame
  <2>3. failures = <<>>
    BY <2>1, <2>2 DEF StopInv
  <2>4. OutInv' /\ Taken' = Taken /\ Delivered' = Delivered
    BY <2>1, KeepOut
  <2>5. Delivered = Whole /\ Taken = Whole
    BY <2>1, <2>2, <2>3 DEF Taken, Whole
  <2>6. pos' \in 1..(Len(wire) + 1) /\ aligned' \in BOOLEAN /\ broken' \in BOOLEAN
        /\ counter' \in Nat
    BY <2>1, FetchTypes
  <2>7. TypeOK'
    BY <2>1, <2>6 DEF TypeOK, ReaderTypeOK, streamVars
  <2>8. CallInv' /\ StopInv'
    BY <2>1, <2>3, <2>4, <2>5 DEF CallInv, StopInv, Whole
  <2>9. ProgressInv'
    BY <2>2, <2>4, <2>5, SealedFacts DEF ProgressInv, Whole
  <2> QED
    BY <2>1, <2>4, <2>7, <2>8, <2>9 DEF streamVars
<1>5. CASE ReadFail
  <2>1. /\ call = "idle" /\ Size(buf) = 0 /\ ~eof /\ ~consumed
        /\ FetchChunk("fail") /\ nonceOK' = FALSE /\ failures' \in Seq(Nat \cup {NoIndex})
        /\ failures' # <<>> /\ res' \in Errors /\ reads' = TRUE
        /\ UNCHANGED <<streamVars, live, buf, eof, consumed, call, out>>
    BY <1>5, FailsFacts DEF ReadFail, Fresh, TypeOK, ReaderTypeOK
  <2>2. OutInv' /\ Taken' = Taken /\ Delivered' = Delivered
    BY <2>1, KeepOut
  <2>3. pos' \in 1..(Len(wire) + 1) /\ aligned' \in BOOLEAN /\ broken' \in BOOLEAN
        /\ counter' \in Nat
    BY <2>1, FetchTypes
  <2>4. TypeOK'
    BY <2>1, <2>3 DEF TypeOK, ReaderTypeOK, streamVars
  <2> QED
    BY <2>1, <2>2, <2>4 DEF CallInv, StopInv, ProgressInv, streamVars
<1>6. CASE ReadError
  <2>1. /\ call = "idle" /\ Size(buf) = 0 /\ ~eof /\ ~consumed
        /\ (\E r : FetchEnd(r)) \/ FetchTooLarge \/ FetchBreaks \/ FetchPanic
        /\ res' \in Errors /\ reads' = TRUE
        /\ UNCHANGED <<streamVars, nonceOK, live, buf, eof, consumed, call, failures, out>>
    BY <1>6 DEF ReadError, Fresh
  <2>2. OutInv' /\ Taken' = Taken /\ Delivered' = Delivered
    BY <2>1, KeepOut
  <2>3. pos' \in 1..(Len(wire) + 1) /\ aligned' \in BOOLEAN /\ broken' \in BOOLEAN
        /\ counter' = counter
    BY <2>1, FetchTypes DEF FetchEnd, FetchTooLarge, FetchBreaks, FetchPanic
  <2>4. TypeOK'
    BY <2>1, <2>3 DEF TypeOK, ReaderTypeOK, streamVars
  <2> QED
    BY <2>1, <2>2, <2>3, <2>4 DEF CallInv, StopInv, ProgressInv, streamVars
<1> QED
  BY <1>1, <1>2, <1>3, <1>4, <1>5, <1>6 DEF Read

LEMMA WriteToStart ==
  ASSUME SafeInv, ~MayMix, WriteToRefused \/ WriteTo
  PROVE  SafeInv'
<1> USE DEF SafeInv
<1>1. CASE WriteToRefused
  <2>1. /\ consumed /\ call = "idle" /\ res' \in Errors
        /\ UNCHANGED <<streamVars, readerVars, reads, failures, out>>
    BY <1>1 DEF WriteToRefused
  <2>2. TypeOK'
    BY <2>1 DEF TypeOK, ReaderTypeOK, streamVars, readerVars
  <2>3. OutInv' /\ Taken' = Taken /\ Delivered' = Delivered
    BY <2>1, KeepOut DEF readerVars
  <2> QED
    BY <2>1, <2>2, <2>3 DEF CallInv, StopInv, ProgressInv, readerVars, streamVars
<1>2. CASE WriteTo
  <2>1. /\ call = "idle" /\ ~consumed /\ ~reads /\ consumed' = TRUE /\ call' = "writeTo"
        /\ UNCHANGED <<streamVars, pos, aligned, broken, counter, nonceOK, live, buf, eof, obsVars>>
    BY <1>2 DEF WriteTo
  <2>2. Size(buf) = 0 /\ ~eof /\ res = "none" /\ failures = <<>>
    BY <2>1 DEF CallInv, StopInv
  <2>3. TypeOK'
    BY <2>1 DEF TypeOK, ReaderTypeOK, streamVars, obsVars
  <2>4. OutInv' /\ Taken' = Taken /\ Delivered' = Delivered
    BY <2>1, KeepOut DEF obsVars
  <2> QED
    BY <2>1, <2>2, <2>3, <2>4 DEF CallInv, StopInv, ProgressInv, streamVars, obsVars
<1> QED
  BY <1>1, <1>2

LEMMA WriteToSteps ==
  ASSUME SafeInv, WriteToStep
  PROVE  SafeInv'
<1> USE DEF SafeInv
<1>1. call = "writeTo" /\ consumed /\ Size(buf) = 0 /\ ~eof /\ res = "none" /\ failures = <<>>
  BY DEF CallInv, StopInv, WriteToStep, WriteToChunk, WriteToSinkError, WriteToMarker,
         WriteToFail, WriteToError
<1>2. /\ UNCHANGED <<streamVars, live, buf, eof, consumed, reads>>
      /\ pos' \in 1..(Len(wire) + 1) /\ aligned' \in BOOLEAN /\ broken' \in BOOLEAN /\ counter' \in Nat
  <2>1. UNCHANGED <<streamVars, live, buf, eof, consumed, reads>>
    BY DEF WriteToStep, WriteToChunk, WriteToSinkError, WriteToMarker, WriteToFail, WriteToError
  <2>2. (\E r : FetchEnd(r)) \/ FetchTooLarge \/ FetchBreaks \/ FetchPanic \/ (\E r : FetchChunk(r))
    BY DEF WriteToStep, WriteToChunk, WriteToSinkError, WriteToMarker, WriteToFail, WriteToError
  <2> QED
    BY <2>1, <2>2, FetchTypes
<1>3. counter \in Nat /\ out \in Seq(Run) /\ DeliversInOrder /\ Taken = Delivered
  BY <1>1 DEF TypeOK, ReaderTypeOK, OutInv, Taken
<1>4. CASE WriteToChunk
  <2>1. /\ live /\ FetchChunk("data") /\ out' = Append(out, Chunk)
        /\ UNCHANGED <<nonceOK, call, res, failures>>
    BY <1>4 DEF WriteToChunk
  <2>2. /\ nonceOK /\ counter < Len(Sealed) /\ counter' = counter + 1 /\ Chunk.lo = Delivered
        /\ Chunk.hi = Sealed[counter + 1].hi /\ Chunk \in Run
    BY <1>1, <1>3, <2>1, OpenedFrame
  <2>3. out' \in Seq(Run) /\ DeliversInOrder' /\ Delivered' = Chunk.hi
    BY <1>3, <2>1, <2>2, AppendOut
  <2>4. TypeOK'
    BY <1>2, <2>1, <2>3 DEF TypeOK, ReaderTypeOK, streamVars
  <2>5. OutInv' /\ Taken' = Chunk.hi
    BY <1>1, <1>2, <2>3 DEF OutInv, Taken
  <2>6. ProgressInv'
    BY <1>3, <2>2, <2>5, SealedFacts DEF ProgressInv
  <2> QED
    BY <1>1, <1>2, <2>1, <2>4, <2>5, <2>6 DEF CallInv, StopInv, streamVars
<1>5. ASSUME NEW n \in 0..plaintextMax, WriteToSinkError(n)
      PROVE  SafeInv'
  <2> DEFINE given == [lo |-> Chunk.lo, hi |-> Chunk.lo + n]
  <2>1. /\ live /\ FetchChunk("data") /\ n \in Nat
        /\ out' = IF n = 0 THEN out ELSE Append(out, given)
        /\ nonceOK' = FALSE /\ call' = "idle" /\ res' \in Errors /\ failures' = failures
    BY <1>5, ReaderAssumption DEF WriteToSinkError, TypeOK, ReaderTypeOK
  <2>2. Chunk.lo = Delivered /\ Chunk \in Run
    BY <1>1, <1>3, <2>1, OpenedFrame
  <2>3. given \in Run /\ given.lo = Delivered
    BY <2>1, <2>2 DEF Run
  <2> HIDE DEF given
  <2>4. out' \in Seq(Run) /\ DeliversInOrder'
    <3>1. CASE n = 0
      BY <1>3, <2>1, <3>1 DEF DeliversInOrder
    <3>2. CASE n # 0
      BY <1>3, <2>1, <2>3, <3>2, AppendOut
    <3> QED
      BY <3>1, <3>2
  <2>5. TypeOK'
    BY <1>2, <2>1, <2>4 DEF TypeOK, ReaderTypeOK, streamVars
  <2> QED
    BY <1>1, <1>2, <2>1, <2>4, <2>5 DEF OutInv, CallInv, StopInv, ProgressInv, streamVars
<1>6. CASE WriteToMarker
  <2>1. /\ live /\ FetchChunk("eof") /\ nonceOK' = FALSE /\ call' = "idle" /\ res' = "nil"
        /\ UNCHANGED <<failures, out>>
    BY <1>6 DEF WriteToMarker
  <2>2. /\ counter + 1 = Len(Sealed) /\ Chunk.lo = Delivered
        /\ Chunk.hi = Sealed[counter + 1].hi /\ Chunk.lo = Chunk.hi
    BY <1>1, <1>3, <2>1, OpenedFrame
  <2>3. Delivered = Whole
    BY <2>2 DEF Whole
  <2>4. OutInv' /\ Taken' = Taken /\ Delivered' = Delivered
    BY <1>2, <2>1, KeepOut
  <2>5. TypeOK'
    BY <1>2, <2>1 DEF TypeOK, ReaderTypeOK, streamVars
  <2> QED
    BY <1>1, <1>2, <2>1, <2>3, <2>4, <2>5 DEF CallInv, StopInv, ProgressInv, streamVars, Whole
<1>7. CASE WriteToFail
  <2>1. /\ failures' \in Seq(Nat \cup {NoIndex}) /\ failures' # <<>>
        /\ call' = "idle" /\ res' \in Errors /\ UNCHANGED <<nonceOK, out>>
    BY <1>7, FailsFacts DEF WriteToFail, TypeOK, ReaderTypeOK
  <2>2. OutInv' /\ Taken' = Taken /\ Delivered' = Delivered
    BY <1>2, <2>1, KeepOut
  <2>3. TypeOK'
    BY <1>2, <2>1 DEF TypeOK, ReaderTypeOK, streamVars
  <2> QED
    BY <1>1, <1>2, <2>1, <2>2, <2>3 DEF CallInv, StopInv, ProgressInv, streamVars
<1>8. CASE WriteToError
  <2>1. /\ call' = "idle" /\ res' \in Errors /\ counter' = counter
        /\ UNCHANGED <<nonceOK, failures, out>>
    BY <1>8 DEF WriteToError, FetchEnd, FetchTooLarge, FetchBreaks, FetchPanic
  <2>2. OutInv' /\ Taken' = Taken /\ Delivered' = Delivered
    BY <1>2, <2>1, KeepOut
  <2>3. TypeOK'
    BY <1>2, <2>1 DEF TypeOK, ReaderTypeOK, streamVars
  <2> QED
    BY <1>1, <1>2, <2>1, <2>2, <2>3 DEF CallInv, StopInv, ProgressInv, streamVars
<1> QED
  BY <1>4, <1>5, <1>6, <1>7, <1>8 DEF WriteToStep

LEMMA CloseStep ==
  ASSUME SafeInv, Close
  PROVE  SafeInv'
<1> USE DEF SafeInv
<1>1. /\ call = "idle" /\ nonceOK' = FALSE /\ live' = FALSE /\ buf' = Empty
      /\ UNCHANGED <<streamVars, pos, aligned, broken, counter, eof, consumed, call, res, reads,
                     failures, out>>
  BY DEF Close, obsVars
<1>2. Size(buf') = 0 /\ buf' \in Run /\ buf'.lo <= buf'.hi
  BY <1>1 DEF Empty, Size, Run
<1>3. TypeOK'
  BY <1>1, <1>2 DEF TypeOK, ReaderTypeOK, streamVars
<1>4. OutInv' /\ Delivered' = Delivered
  BY <1>1, <1>2 DEF OutInv, DeliversInOrder, Delivered, Size
<1> QED
  BY <1>1, <1>2, <1>3, <1>4 DEF CallInv, StopInv, ProgressInv, streamVars, Size

LEMMA StepSafeInv ==
  ASSUME ~MayMix
  PROVE  SafeInv /\ [Next]_vars => SafeInv'
<1> SUFFICES ASSUME SafeInv, [Next]_vars
             PROVE  SafeInv'
  OBVIOUS
<1>1. CASE UNCHANGED vars
  BY <1>1 DEF vars, streamVars, readerVars, obsVars, SafeInv, TypeOK, ReaderTypeOK, OutInv,
              DeliversInOrder, CallInv, StopInv, ProgressInv, Taken, Delivered
<1> QED
  BY <1>1, ReadStep, WriteToStart, WriteToSteps, CloseStep DEF Next, ReaderNext

\* After a chunk that failed to open: no output, and no result but an error.
LEMMA StopStep ==
  ASSUME SafeInv, [Next]_vars, authFailed
  PROVE  out' = out /\ (res' # res => res' \in Errors)
<1>1. /\ Size(buf) = 0 /\ ~eof /\ call = "idle" /\ (consumed \/ (reads /\ ~nonceOK))
  BY DEF SafeInv, StopInv
<1>2. ~nonceOK => \A r \in {"data", "eof"} : ~(live /\ FetchChunk(r))
  BY OpenedFrame
<1>3. CASE UNCHANGED vars
  BY <1>3 DEF vars, obsVars
<1>4. CASE Read
  <2>1. CASE ReadRefused \/ ReadFail \/ ReadError
    BY <2>1, FailsFacts DEF ReadRefused, ReadFail, ReadError, readerVars, SafeInv, TypeOK, ReaderTypeOK
  <2>2. ~ReadEOF /\ \A n \in 0..MaxRead : ~ReadBuffered(n)
    BY <1>1 DEF ReadEOF, ReadBuffered
  <2>3. ~ReadMarker /\ \A n \in 0..MaxRead : ~ReadChunk(n)
    BY <1>1, <1>2 DEF ReadMarker, ReadChunk, Fresh
  <2> QED
    BY <1>4, <2>1, <2>2, <2>3 DEF Read
<1>5. CASE WriteToRefused \/ WriteTo \/ Close
  BY <1>5 DEF WriteToRefused, WriteTo, Close, obsVars
<1>6. ~WriteToStep
  BY <1>1 DEF WriteToStep, WriteToChunk, WriteToSinkError, WriteToMarker, WriteToFail,
              WriteToError
<1> QED
  BY <1>3, <1>4, <1>5, <1>6 DEF Next, ReaderNext

\* A call that stays ready: the next chunk, the marker, or nothing of the stream.
LEMMA ReadyStep ==
  ASSUME SafeInv, ReadyInv, Next
  PROVE  ReadyInv'
<1>1. CASE ReadRefused \/ ReadEOF \/ WriteToRefused \/ WriteTo \/ Close
      \/ (\E n \in 0..MaxRead : ReadBuffered(n))
  BY <1>1 DEF ReadyInv, ReadRefused, ReadEOF, WriteToRefused, WriteTo, Close, ReadBuffered,
              readerVars, streamVars, obsVars
<1>2. CASE WriteToChunk \/ (\E n \in 0..MaxRead : ReadChunk(n))
  <2>1. live /\ FetchChunk("data") /\ UNCHANGED nonceOK
    BY <1>2 DEF WriteToChunk, ReadChunk
  <2>2. nonceOK' /\ counter' # Len(Sealed)
    BY <2>1, OpenedFrame
  <2> QED
    BY <2>2 DEF ReadyInv
<1>3. CASE ReadMarker
  <2>1. live /\ FetchChunk("eof") /\ UNCHANGED nonceOK /\ eof'
    BY <1>3 DEF ReadMarker
  <2>2. nonceOK'
    BY <2>1, OpenedFrame
  <2> QED
    BY <2>1, <2>2 DEF ReadyInv
<1>4. CASE ReadFail \/ WriteToFail
  <2>1. Fails(counter)
    BY <1>4 DEF ReadFail, WriteToFail
  <2>2. authFailed'
    BY <2>1, FailsFacts DEF SafeInv, TypeOK, ReaderTypeOK
  <2> QED
    BY <2>2 DEF ReadyInv
<1>5. CASE ReadError
  BY <1>5 DEF ReadyInv, ReadError, FetchEnd, FetchTooLarge, FetchBreaks, FetchPanic
<1>6. CASE WriteToMarker \/ WriteToError \/ (\E n \in 0..plaintextMax : WriteToSinkError(n))
  BY <1>6 DEF ReadyInv, SafeInv, CallInv, WriteToMarker, WriteToError, WriteToSinkError
<1> QED
  BY <1>1, <1>2, <1>3, <1>4, <1>5, <1>6 DEF Next, ReaderNext, Read, WriteToStep

\* A step after which no further chunk has failed to open.
LEMMA KeepLocateInv ==
  ASSUME SafeInv, LocateInv, UNCHANGED failures, counter' \in {counter, counter + 1},
         authFailed => out' = out
  PROVE  LocateInv'
<1>1. counter \in Nat /\ \A i \in 1..Len(failures) : failures[i] \in Int
  BY DEF SafeInv, TypeOK, ReaderTypeOK, NoIndex
<1>2. \A i \in 1..Len(failures') : failures'[i] < counter'
  BY <1>1 DEF LocateInv
<1>3. LocatesDamage'
  BY DEF LocateInv, LocatesDamage, Delivered
<1> QED
  BY <1>2, <1>3 DEF LocateInv

\* A chunk that does not open is the one that is due where the output ends.
LEMMA FailLocates ==
  ASSUME SafeInv, ReadyInv, LocateInv, live, FetchChunk("fail"), Size(buf) = 0, ~eof,
         ~consumed \/ call # "idle", Fails(counter), UNCHANGED out
  PROVE  LocateInv'
<1>1. counter \in Nat /\ counter' = counter + 1 /\ failures \in Seq(Nat \cup {NoIndex})
      /\ Len(failures) \in Nat /\ (failures = <<>> <=> Len(failures) = 0)
  BY DEF FetchChunk, SafeInv, TypeOK, ReaderTypeOK
<1>2. /\ Len(failures') = Len(failures) + 1
      /\ failures'[Len(failures) + 1] \in {counter, NoIndex}
      /\ \A i \in 1..Len(failures) : failures'[i] = failures[i]
  BY <1>1, FailsFacts
<1>3. \A i \in 1..Len(failures') : failures'[i] < counter'
  <2>1. \A i \in 1..Len(failures) : failures[i] \in Int /\ failures[i] < counter
    BY <1>1 DEF LocateInv, NoIndex
  <2>2. failures'[Len(failures) + 1] \in Int /\ failures'[Len(failures) + 1] < counter'
    BY <1>1, <1>2 DEF NoIndex
  <2>3. \A i \in 1..Len(failures') : i \in 1..Len(failures) \/ i = Len(failures) + 1
    BY <1>1, <1>2
  <2> QED
    BY <1>1, <1>2, <2>1, <2>2, <2>3
<1>4. Delivered' = Delivered
  BY DEF Delivered
<1>5. CASE failures = <<>>
  <2>1. nonceOK /\ counter # Len(Sealed)
    BY <1>5 DEF ReadyInv
  <2>2. /\ Taken = Delivered /\ counter <= Len(Sealed)
        /\ Taken = IF counter = 0 THEN 0 ELSE Sealed[counter].hi
    BY <1>5, <2>1 DEF SafeInv, ProgressInv, Taken
  <2>3. counter < Len(Sealed) /\ Sealed[counter + 1].lo = Delivered
    BY <1>1, <2>1, <2>2, SealedFacts
  <2>4. Len(failures') = 1 /\ failures'[1] \in {counter, NoIndex}
    BY <1>1, <1>2, <1>5
  <2> QED
    BY <1>3, <1>4, <2>3, <2>4 DEF LocateInv, LocatesDamage
<1>6. CASE failures # <<>>
  <2>1. failures'[1] = failures[1] /\ 1 \in 1..Len(failures)
    BY <1>1, <1>2, <1>6
  <2>2. ASSUME failures[1] # NoIndex, NEW i \in 2..Len(failures'), failures'[i] # NoIndex
        PROVE  failures[1] < failures'[i]
    <3>1. CASE i \in 2..Len(failures)
      BY <1>2, <1>6, <2>2, <3>1 DEF LocateInv, LocatesDamage
    <3>2. CASE i = Len(failures) + 1
      <4>1. failures'[i] = counter /\ failures[1] < counter
        BY <1>2, <2>1, <2>2, <3>2 DEF LocateInv
      <4> QED
        BY <4>1
    <3> QED
      BY <1>1, <1>2, <3>1, <3>2
  <2> QED
    BY <1>3, <1>4, <1>6, <2>1, <2>2 DEF LocateInv, LocatesDamage
<1> QED
  BY <1>5, <1>6

LEMMA LocateStep ==
  ASSUME SafeInv, ReadyInv, LocateInv, Next
  PROVE  LocateInv'
<1>1. authFailed => out' = out
  BY StopStep
<1>2. CASE ReadFail \/ WriteToFail
  <2>1. /\ live /\ FetchChunk("fail") /\ Fails(counter) /\ UNCHANGED out
        /\ \/ Size(buf) = 0 /\ ~eof /\ ~consumed
           \/ call = "writeTo"
    BY <1>2 DEF ReadFail, WriteToFail, Fresh
  <2>2. Size(buf) = 0 /\ ~eof /\ (~consumed \/ call # "idle")
    BY <2>1 DEF SafeInv, CallInv
  <2> QED
    BY <2>1, <2>2, FailLocates
<1>3. CASE ~(ReadFail \/ WriteToFail)
  <2>1. UNCHANGED failures /\ counter' \in {counter, counter + 1}
    BY <1>3 DEF Next, ReaderNext, Read, WriteToStep, ReadRefused, ReadEOF, WriteToRefused,
                WriteTo, Close, ReadBuffered, ReadChunk, ReadMarker, ReadError, WriteToChunk,
                WriteToSinkError, WriteToMarker, WriteToError, FetchChunk, FetchEnd,
                FetchTooLarge, FetchBreaks, FetchPanic, readerVars, streamVars, obsVars
  <2> QED
    BY <1>1, <2>1, KeepLocateInv
<1> QED
  BY <1>2, <1>3

\* A frame of a stream that only ends early was sealed, or is where the stream ends.
LEMMA CutFrame ==
  ASSUME TypeOK, CutShort, aligned, pos <= Len(wire)
  PROVE  ~Garbled /\ Size(wire[pos]) = Size(Sealed[pos]) /\ pos \in 1..Len(Sealed)
         /\ (Cut \/ (wire[pos].state = "whole" /\ wire[pos].ctr = pos - 1))
<1>1. pos \in 1..Len(wire) /\ pos \in 1..Len(Sealed)
  BY SealedFacts DEF CutShort, TypeOK, ReaderTypeOK
<1>2. Sealed[pos] \in Frame /\ Sealed[pos].state = "whole" /\ Sealed[pos].ctr = pos - 1
  BY <1>1, StreamAssumption DEF CompleteStream, OpensToEOF, Opens
<1>3. CASE wire[pos] = Sealed[pos]
  BY <1>1, <1>2, <1>3 DEF Garbled
<1>4. CASE wire[pos] = [Sealed[pos] EXCEPT !.state = "cut"]
  <2>1. wire[pos].state = "cut" /\ Size(wire[pos]) = Size(Sealed[pos])
    BY <1>2, <1>4 DEF Frame, Size
  <2> QED
    BY <1>1, <2>1 DEF Garbled, Cut
<1> QED
  BY <1>1, <1>3, <1>4 DEF CutShort

\* Every step of an open reader keeps in step with such a stream.
LEMMA CutStep ==
  ASSUME TypeOK, NonceInv, CutInv, Next
  PROVE  CutInv'
<1>1. UNCHANGED <<wire, plaintextMax>> /\ (live' => live) /\ (broken => broken')
  <2> DEFINE Quiet == UNCHANGED <<wire, plaintextMax>> /\ (live' => live)
  <2>1. CASE Read
    <3>1. Quiet
      BY <2>1 DEF Read, ReadRefused, ReadEOF, ReadBuffered, ReadChunk, ReadMarker, ReadFail,
                  ReadError, readerVars, streamVars
    <3>2. broken => broken'
      BY <2>1 DEF Read, ReadRefused, ReadEOF, ReadBuffered, ReadChunk, ReadMarker, ReadFail,
                  ReadError, FetchChunk, FetchEnd, FetchTooLarge, FetchBreaks, FetchPanic,
                  readerVars
    <3> QED
      BY <3>1, <3>2
  <2>2. CASE WriteToStep
    <3>1. UNCHANGED <<wire, plaintextMax, live>>
      BY <2>2 DEF WriteToStep, WriteToChunk, WriteToSinkError, WriteToMarker, WriteToFail,
                  WriteToError, streamVars
    <3>2. broken => broken'
      BY <2>2 DEF WriteToStep, WriteToChunk, WriteToSinkError, WriteToMarker, WriteToFail,
                  WriteToError, FetchChunk, FetchEnd, FetchTooLarge, FetchBreaks, FetchPanic
    <3> QED
      BY <3>1, <3>2, Zenon
  <2>3. CASE WriteToRefused \/ WriteTo \/ Close
    BY <2>3 DEF WriteToRefused, WriteTo, Close, readerVars, streamVars
  <2> HIDE DEF Quiet
  <2>4. Read \/ WriteToRefused \/ WriteTo \/ WriteToStep \/ Close
    BY DEF Next, ReaderNext
  <2> QED
    BY <2>1, <2>2, <2>3, <2>4 DEF Quiet
<1>12. (CutShort' <=> CutShort) /\ (SizesFit' <=> SizesFit)
  BY <1>1 DEF CutShort, SizesFit
<1> SUFFICES ASSUME CutShort, SizesFit, live, live', ~broken, ~broken'
             PROVE  /\ aligned' /\ ~authFailed'
                    /\ pos' <= Len(wire) => counter' = pos' - 1
                    /\ res' \notin {"verification", "badMarker", "tooLarge"}
  BY <1>1, <1>12 DEF CutInv, CutIsNotTampering
<1>2. /\ aligned /\ ~authFailed /\ (pos <= Len(wire) => counter = pos - 1)
      /\ res \notin {"verification", "badMarker", "tooLarge"}
  BY DEF CutInv, CutIsNotTampering
<1>3. pos \in Nat /\ Len(wire) \in Nat /\ counter \in Nat
  BY DEF TypeOK, ReaderTypeOK
<1>4. ~Garbled /\ ~FetchTooLarge /\ ~FetchBreaks
  <2>1. pos <= Len(wire) => ~Garbled /\ Size(wire[pos]) <= plaintextMax
    BY <1>2, CutFrame DEF SizesFit
  <2>2. pos <= Len(wire) => Size(wire[pos]) \in Int
    BY <1>2, CutFrame, SealedFacts DEF Size
  <2>3. plaintextMax \in Nat
    BY ReaderAssumption DEF TypeOK, ReaderTypeOK
  <2> QED
    BY <2>1, <2>2, <2>3 DEF Garbled, FetchTooLarge, FetchBreaks
<1>5. ASSUME NEW r, FetchChunk(r)
      PROVE  /\ aligned' = aligned /\ pos' = pos + 1 /\ counter' = counter + 1
             /\ counter = pos - 1 /\ (nonceOK => r # "fail")
  <2>1. /\ ~Cut /\ pos <= Len(wire) /\ r = OpenChunk(wire[pos], counter, nonceOK)
        /\ aligned' = aligned /\ pos' = pos + 1 /\ counter' = counter + 1
    BY <1>4, <1>5 DEF FetchChunk
  <2>2. wire[pos].state = "whole" /\ wire[pos].ctr = pos - 1
    BY <1>2, <2>1, CutFrame
  <2> QED
    BY <1>2, <2>1, <2>2 DEF OpenChunk
<1>6. ASSUME NEW r, FetchEnd(r)
      PROVE  aligned' = aligned /\ pos' > Len(wire)
  BY <1>3, <1>4, <1>6 DEF FetchEnd
<1>7. CASE ReadRefused \/ ReadEOF \/ WriteToRefused \/ WriteTo
      \/ (\E n \in 0..MaxRead : ReadBuffered(n))
  BY <1>1, <1>2, <1>7 DEF ReadRefused, ReadEOF, WriteToRefused, WriteTo, ReadBuffered,
                          readerVars, obsVars
<1>8. CASE \/ (\E n \in 0..MaxRead : ReadChunk(n)) \/ ReadMarker
           \/ WriteToChunk \/ WriteToMarker \/ (\E n \in 0..plaintextMax : WriteToSinkError(n))
  <2>1. /\ \E r : FetchChunk(r)
        /\ UNCHANGED failures
        /\ res' \in {res, "data", "EOF", "nil", "sink"}
    BY <1>8 DEF ReadChunk, ReadMarker, WriteToChunk, WriteToMarker, WriteToSinkError
  <2>2. aligned' = aligned /\ counter' = pos' - 1
    BY <1>3, <1>5, <2>1
  <2>3. res' \notin {"verification", "badMarker", "tooLarge"}
    BY <1>2, <2>1
  <2> QED
    BY <1>2, <2>1, <2>2, <2>3
<1>9. ~ReadFail /\ ~WriteToFail
  <2>1. ~consumed \/ call = "writeTo" => nonceOK
    BY <1>2 DEF NonceInv
  <2> QED
    BY <1>5, <2>1 DEF ReadFail, WriteToFail, Fresh
<1>10. CASE ReadError \/ WriteToError
  <2>1. /\ \E r : FetchEnd(r)
        /\ UNCHANGED failures
        /\ res' \in {"unexpectedEOF", "wrappedEOF"}
    BY <1>4, <1>10 DEF ReadError, WriteToError
  <2>2. aligned' = aligned /\ pos' > Len(wire)
    BY <1>6, <2>1
  <2>3. res' \notin {"verification", "badMarker", "tooLarge"}
    BY <2>1
  <2>4. pos' \in Nat
    BY <2>1, FetchTypes
  <2>5. ~(pos' <= Len(wire))
    BY <1>3, <2>2, <2>4
  <2> QED
    BY <1>2, <2>1, <2>2, <2>3, <2>5
<1>11. ~Close
  BY DEF Close
<1> QED
  BY <1>7, <1>8, <1>9, <1>10, <1>11 DEF Next, ReaderNext, Read, WriteToStep

LEMMA InitIInv == Init => IInv
<1> SUFFICES ASSUME Init
             PROVE  IInv
  OBVIOUS
<1>1. LocateInv /\ ReadyInv
  BY SealedFacts DEF LocateInv, LocatesDamage, ReadyInv, Init, ReaderInit
<1> QED
  BY <1>1, InitSafeInv DEF IInv

LEMMA StepIInv ==
  ASSUME ~MayMix
  PROVE  IInv /\ [Next]_vars => IInv'
<1> SUFFICES ASSUME IInv, [Next]_vars
             PROVE  IInv'
  OBVIOUS
<1>1. SafeInv'
  BY StepSafeInv DEF IInv
<1>2. CASE Next
  BY <1>1, <1>2, ReadyStep, LocateStep DEF IInv
<1>3. CASE UNCHANGED vars
  <2>1. ReadyInv'
    BY <1>3 DEF IInv, ReadyInv, vars, streamVars, readerVars, obsVars
  <2>2. LocateInv'
    BY <1>3 DEF IInv, LocateInv, LocatesDamage, Delivered, vars, readerVars, obsVars
  <2> QED
    BY <1>1, <2>1, <2>2 DEF IInv
<1> QED
  BY <1>2, <1>3
-----------------------------------------------------------------------------
(* Callers that may mix Read and WriteTo.                                   *)

\* Deliver hands out the first k bytes of a run and keeps the others, if any.
LEMMA DeliverSplits ==
  ASSUME NEW b \in Run, b.lo <= b.hi, NEW n \in Nat, Deliver(b, n)
  PROVE  \E k \in Nat :
           /\ b.lo + k <= b.hi
           /\ out' = IF k = 0 THEN out ELSE Append(out, [lo |-> b.lo, hi |-> b.lo + k])
           /\ \/ buf' = Empty
              \/ b.lo + k < b.hi /\ buf' = [lo |-> b.lo + k, hi |-> b.hi]
<1> DEFINE m == IF n <= Size(b) THEN n ELSE Size(b)
<1>1. b.lo \in Nat /\ b.hi \in Nat /\ Size(b) = b.hi - b.lo
  BY DEF Run, Size
<1>2. m \in Nat /\ b.lo + m <= b.hi /\ (m # Size(b) => b.lo + m < b.hi)
  BY <1>1
<1>3. /\ out' = IF m = 0 THEN out ELSE Append(out, [lo |-> b.lo, hi |-> b.lo + m])
      /\ buf' = IF m = Size(b) THEN Empty ELSE [lo |-> b.lo + m, hi |-> b.hi]
  BY DEF Deliver
<1> HIDE DEF m
<1> QED
  BY <1>2, <1>3

\* Every step keeps the types and the wire.
LEMMA TypeStep ==
  ASSUME TypeOK, wire \in Wires, Next
  PROVE  TypeOK' /\ wire' = wire
<1> USE DEF TypeOK, ReaderTypeOK, streamVars
<1>1. ASSUME NEW r \in {"data", "eof"}, FetchChunk(r)
      PROVE  Chunk \in Run /\ Chunk.lo <= Chunk.hi /\ Chunk.lo \in Nat /\ Chunk.hi \in Nat
  BY <1>1, OpenedChunk DEF Run
<1>2. ASSUME NEW b \in Run, b.lo <= b.hi, NEW n \in Nat, Deliver(b, n)
      PROVE  out' \in Seq(Run) /\ buf' \in Run /\ buf'.lo <= buf'.hi
  <2>1. b.lo \in Nat /\ b.hi \in Nat
    BY DEF Run
  <2>2. PICK k \in Nat :
          /\ b.lo + k <= b.hi
          /\ out' = IF k = 0 THEN out ELSE Append(out, [lo |-> b.lo, hi |-> b.lo + k])
          /\ \/ buf' = Empty
             \/ b.lo + k < b.hi /\ buf' = [lo |-> b.lo + k, hi |-> b.hi]
    BY <1>2, DeliverSplits
  <2>3. [lo |-> b.lo, hi |-> b.lo + k] \in Run /\ [lo |-> b.lo + k, hi |-> b.hi] \in Run
    BY <2>1 DEF Run
  <2>4. out' \in Seq(Run)
    BY <2>2, <2>3
  <2>5. buf' \in Run /\ buf'.lo <= buf'.hi
    BY <2>1, <2>2 DEF Empty, Run
  <2> QED
    BY <2>4, <2>5
<1>3. CASE ReadRefused \/ ReadEOF \/ WriteToRefused \/ WriteTo \/ Close
  <2>1. /\ UNCHANGED <<wire, ended, plaintextMax, pos, aligned, broken, counter, eof, failures, out>>
        /\ buf' \in {buf, Empty}
        /\ nonceOK' \in BOOLEAN /\ live' \in BOOLEAN /\ consumed' \in BOOLEAN
        /\ call' \in {"idle", "writeTo"} /\ reads' \in BOOLEAN
        /\ res' \in {res, "consumed", "EOF"}
    BY <1>3 DEF ReadRefused, ReadEOF, WriteToRefused, WriteTo, Close, readerVars, obsVars
  <2>2. buf' \in Run /\ buf'.lo <= buf'.hi
    BY <2>1 DEF Empty, Run
  <2> QED
    BY <2>1, <2>2
<1>4. ASSUME NEW n \in 0..MaxRead, ReadBuffered(n)
      PROVE  TypeOK' /\ wire' = wire
  <2>1. n \in Nat /\ Deliver(buf, n)
    BY <1>4, ReaderAssumption DEF ReadBuffered
  <2>2. out' \in Seq(Run) /\ buf' \in Run /\ buf'.lo <= buf'.hi
    BY <1>2, <2>1
  <2> QED
    BY <1>4, <2>2 DEF ReadBuffered
<1>5. ASSUME NEW n \in 0..MaxRead, ReadChunk(n)
      PROVE  TypeOK' /\ wire' = wire
  <2>1. n \in Nat /\ Deliver(Chunk, n) /\ FetchChunk("data")
    BY <1>5, ReaderAssumption DEF ReadChunk
  <2>2. out' \in Seq(Run) /\ buf' \in Run /\ buf'.lo <= buf'.hi
    BY <1>1, <1>2, <2>1
  <2>3. pos' \in 1..(Len(wire) + 1) /\ aligned' \in BOOLEAN /\ broken' \in BOOLEAN
        /\ counter' \in Nat
    BY <2>1, FetchTypes
  <2> QED
    BY <1>5, <2>2, <2>3 DEF ReadChunk
<1>6. CASE ReadMarker \/ ReadFail \/ ReadError \/ WriteToMarker \/ WriteToFail \/ WriteToError
  <2>1. /\ UNCHANGED <<wire, ended, plaintextMax, live, buf, consumed, out>>
        /\ nonceOK' \in BOOLEAN /\ eof' \in BOOLEAN /\ reads' \in BOOLEAN
        /\ call' \in {"idle", "writeTo"}
        /\ res' \in {"EOF", "nil"} \cup Errors
        /\ failures' \in Seq(Nat \cup {NoIndex})
    BY <1>6, FailsFacts DEF ReadMarker, ReadFail, ReadError, WriteToMarker, WriteToFail, WriteToError,
                Fresh, TypeOK, ReaderTypeOK
  <2>2. (\E r : FetchEnd(r)) \/ FetchTooLarge \/ FetchBreaks \/ FetchPanic \/ (\E r : FetchChunk(r))
    BY <1>6 DEF ReadMarker, ReadFail, ReadError, WriteToMarker, WriteToFail, WriteToError
  <2>3. pos' \in 1..(Len(wire) + 1) /\ aligned' \in BOOLEAN /\ broken' \in BOOLEAN
        /\ counter' \in Nat
    BY <2>2, FetchTypes
  <2> QED
    BY <2>1, <2>3
<1>7. CASE WriteToChunk
  <2>1. FetchChunk("data") /\ out' = Append(out, Chunk)
    BY <1>7 DEF WriteToChunk
  <2>2. out' \in Seq(Run)
    BY <1>1, <2>1
  <2>3. pos' \in 1..(Len(wire) + 1) /\ aligned' \in BOOLEAN /\ broken' \in BOOLEAN
        /\ counter' \in Nat
    BY <2>1, FetchTypes
  <2> QED
    BY <1>7, <2>2, <2>3 DEF WriteToChunk
<1>8. ASSUME NEW n \in 0..plaintextMax, WriteToSinkError(n)
      PROVE  TypeOK' /\ wire' = wire
  <2>1. /\ FetchChunk("data")
        /\ out' = IF n = 0 THEN out ELSE Append(out, [lo |-> Chunk.lo, hi |-> Chunk.lo + n])
    BY <1>8 DEF WriteToSinkError
  <2>2. n \in Nat
    BY ReaderAssumption
  <2>3. [lo |-> Chunk.lo, hi |-> Chunk.lo + n] \in Run
    BY <1>1, <2>1, <2>2 DEF Run
  <2>4. out' \in Seq(Run)
    BY <2>1, <2>3
  <2>5. pos' \in 1..(Len(wire) + 1) /\ aligned' \in BOOLEAN /\ broken' \in BOOLEAN
        /\ counter' \in Nat
    BY <2>1, FetchTypes
  <2> QED
    BY <1>8, <2>4, <2>5 DEF WriteToSinkError
<1> QED
  BY <1>3, <1>4, <1>5, <1>6, <1>7, <1>8 DEF Next, ReaderNext, Read, WriteToStep

\* A reader that a chunk has failed stays without a way to open another.
LEMMA NonceStep ==
  ASSUME TypeOK, NonceInv, Next
  PROVE  NonceInv'
<1>1. CASE \/ ReadRefused \/ ReadEOF \/ WriteToRefused \/ WriteTo \/ Close
           \/ (\E n \in 0..MaxRead : ReadBuffered(n))
  BY <1>1 DEF NonceInv, ReadRefused, ReadEOF, WriteToRefused, WriteTo, Close, ReadBuffered,
              readerVars, obsVars
<1>2. CASE (\E n \in 0..MaxRead : ReadChunk(n)) \/ ReadMarker \/ ReadError
  BY <1>2 DEF NonceInv, ReadChunk, ReadMarker, ReadError, Fresh
<1>5. CASE ReadFail
  <2>1. failures' # <<>>
    BY <1>5, FailsFacts DEF ReadFail, TypeOK, ReaderTypeOK
  <2> QED
    BY <1>5, <2>1 DEF NonceInv, ReadFail, Fresh
<1>3. CASE WriteToChunk
  BY <1>3 DEF NonceInv, WriteToChunk
<1>4. CASE \/ (\E n \in 0..plaintextMax : WriteToSinkError(n))
           \/ WriteToMarker \/ WriteToFail \/ WriteToError
  <2>1. consumed' /\ call' = "idle"
    BY <1>4 DEF NonceInv, WriteToSinkError, WriteToMarker, WriteToFail, WriteToError
  <2> QED
    BY <2>1 DEF NonceInv
<1> QED
  BY <1>1, <1>2, <1>3, <1>4, <1>5 DEF Next, ReaderNext, Read, WriteToStep

\* A run apart from those handed out, and from what stays in the buffer, may be handed out.
LEMMA HandOut ==
  ASSUME out \in Seq(Run), NoByteTwice, NEW r \in Run, \A i \in 1..Len(out) : Apart(out[i], r),
         out' = Append(out, r)
  PROVE  /\ NoByteTwice'
         /\ Len(out') = Len(out) + 1 /\ Len(out) \in Nat /\ out'[Len(out) + 1] = r
         /\ \A i \in 1..Len(out) : out'[i] = out[i]
<1>1. /\ Len(out') = Len(out) + 1 /\ Len(out) \in Nat /\ out'[Len(out) + 1] = r
      /\ \A i \in 1..Len(out) : out'[i] = out[i]
  OBVIOUS
<1>2. ASSUME NEW i \in 1..Len(out'), NEW j \in 1..Len(out'), i # j
      PROVE  Apart(out'[i], out'[j])
  <2>1. CASE i \in 1..Len(out) /\ j \in 1..Len(out)
    BY <1>1, <1>2, <2>1 DEF NoByteTwice
  <2>2. CASE i = Len(out) + 1
    <3>1. j \in 1..Len(out)
      BY <1>1, <1>2, <2>2
    <3> QED
      BY <1>1, <2>2, <3>1 DEF Apart
  <2>3. CASE j = Len(out) + 1
    <3>1. i \in 1..Len(out)
      BY <1>1, <1>2, <2>3
    <3> QED
      BY <1>1, <2>3, <3>1 DEF Apart
  <2> QED
    BY <1>1, <2>1, <2>2, <2>3
<1> QED
  BY <1>1, <1>2 DEF NoByteTwice

\* Each run handed out is apart from the others and from the buffer.
LEMMA ApartStep ==
  ASSUME TypeOK, wire \in Wires, NonceInv, ApartInv, Next
  PROVE  ApartInv'
<1> DEFINE Ready == nonceOK /\ live /\ (consumed => call = "writeTo")
<1> DEFINE Below == /\ counter <= Len(Sealed)
                    /\ Size(buf) > 0 => buf.hi <= Reached
                    /\ \A i \in 1..Len(out) : out[i].hi <= Reached
<1>1. /\ out \in Seq(Run) /\ Len(out) \in Nat /\ buf \in Run /\ buf.lo <= buf.hi
      /\ counter \in Nat
  BY DEF TypeOK, ReaderTypeOK
<1>2. /\ buf.lo \in Nat /\ buf.hi \in Nat /\ Size(buf) = buf.hi - buf.lo
      /\ \A i \in 1..Len(out) : out[i].lo \in Nat /\ out[i].hi \in Nat
  <2>1. \A i \in 1..Len(out) : out[i] \in Run
    BY <1>1
  <2> QED
    BY <1>1, <2>1 DEF Run, Size
<1>3. NoByteTwice /\ (\A i \in 1..Len(out) : Buffered(i)) /\ (Ready => Below)
  BY DEF ApartInv
\* What is left of the buffer after k bytes of run b have been handed out.
<1>4. ASSUME NEW b \in Run, b.lo <= b.hi, NEW n \in Nat, Deliver(b, n),
             \A i \in 1..Len(out) : Apart(out[i], b)
      PROVE  /\ NoByteTwice' /\ (\A i \in 1..Len(out') : Buffered(i)')
             /\ \A top \in Nat : b.hi <= top /\ (\A i \in 1..Len(out) : out[i].hi <= top)
                  => /\ Size(buf') > 0 => buf'.hi <= top
                     /\ \A i \in 1..Len(out') : out'[i].hi <= top
  <2>1. b.lo \in Nat /\ b.hi \in Nat
    BY DEF Run
  <2>2. PICK k \in Nat :
          /\ b.lo + k <= b.hi
          /\ out' = IF k = 0 THEN out ELSE Append(out, [lo |-> b.lo, hi |-> b.lo + k])
          /\ \/ buf' = Empty
             \/ b.lo + k < b.hi /\ buf' = [lo |-> b.lo + k, hi |-> b.hi]
    BY <1>4, DeliverSplits
  <2>3. Size(buf') > 0 => buf'.lo = b.lo + k /\ buf'.hi = b.hi
    BY <2>2 DEF Size, Empty
  <2>4. ASSUME NEW i \in 1..Len(out), Size(buf') > 0
        PROVE  Apart(out[i], buf')
    BY <1>2, <1>4, <2>1, <2>2, <2>3, <2>4 DEF Apart
  <2>5. CASE k = 0
    <3>1. out' = out
      BY <2>2, <2>5
    <3> QED
      BY <1>3, <2>3, <2>4, <3>1 DEF NoByteTwice, Buffered
  <2>6. CASE k # 0
    <3> DEFINE r == [lo |-> b.lo, hi |-> b.lo + k]
    <3>1. r \in Run /\ r.lo = b.lo /\ r.hi = b.lo + k /\ out' = Append(out, r)
      BY <2>1, <2>2, <2>6 DEF Run
    <3> HIDE DEF r
    <3>2. \A i \in 1..Len(out) : Apart(out[i], r)
      BY <1>2, <1>4, <2>1, <2>2, <3>1 DEF Apart
    <3>3. /\ NoByteTwice'
          /\ Len(out') = Len(out) + 1 /\ Len(out) \in Nat /\ out'[Len(out) + 1] = r
          /\ \A i \in 1..Len(out) : out'[i] = out[i]
      BY <1>1, <1>3, <3>1, <3>2, HandOut
    <3>4. ASSUME NEW i \in 1..Len(out'), Size(buf') > 0
          PROVE  Apart(out'[i], buf')
      <4>1. CASE i = Len(out) + 1
        BY <2>1, <2>3, <3>1, <3>3, <3>4, <4>1 DEF Apart
      <4>2. CASE i # Len(out) + 1
        BY <2>4, <3>3, <3>4, <4>2
      <4> QED
        BY <4>1, <4>2
    <3>5. ASSUME NEW top \in Nat, b.hi <= top, \A i \in 1..Len(out) : out[i].hi <= top
          PROVE  \A i \in 1..Len(out') : out'[i].hi <= top
      BY <2>1, <2>2, <3>1, <3>3, <3>5
    <3> QED
      BY <2>3, <3>3, <3>4, <3>5 DEF Buffered
  <2> QED
    BY <2>5, <2>6
<1>5. ASSUME NEW r \in {"data", "eof"}, FetchChunk(r), Ready
      PROVE  /\ Chunk \in Run /\ Chunk.lo \in Nat /\ Chunk.hi \in Nat /\ Chunk.lo <= Chunk.hi
             /\ Chunk.lo = Reached /\ Reached' = Chunk.hi /\ counter' \in Nat
             /\ counter' <= Len(Sealed)
             /\ \A i \in 1..Len(out) : Apart(out[i], Chunk)
             /\ Size(buf) > 0 => buf.hi <= Chunk.lo
             /\ \A i \in 1..Len(out) : out[i].hi <= Chunk.lo
  <2>1. /\ counter < Len(Sealed) /\ counter' = counter + 1
        /\ Chunk.lo = Reached /\ Chunk.hi = Sealed[counter + 1].hi /\ Chunk \in Run
        /\ Chunk.lo <= Chunk.hi
    BY <1>5, OpenedChunk DEF Run
  <2>2. Reached' = Chunk.hi /\ counter' <= Len(Sealed) /\ counter' \in Nat
    BY <1>1, <2>1, SealedFacts DEF Reached
  <2>3. Chunk.lo \in Nat /\ Chunk.hi \in Nat
    BY <2>1 DEF Run
  <2> QED
    BY <1>3, <1>5, <2>1, <2>2, <2>3 DEF Apart
<1>6. CASE UNCHANGED <<out, buf>> /\ ~Ready'
  BY <1>3, <1>6 DEF ApartInv, NoByteTwice, Buffered
<1>7. CASE UNCHANGED <<out, buf, counter>> /\ (Ready' => Ready)
  BY <1>3, <1>7 DEF ApartInv, NoByteTwice, Buffered, Reached
<1>8. CASE ReadRefused \/ ReadEOF \/ WriteToRefused \/ WriteTo
  <2>1. UNCHANGED <<out, buf, counter>> /\ (Ready' => Ready)
    BY <1>8 DEF ReadRefused, ReadEOF, WriteToRefused, WriteTo, readerVars, obsVars
  <2> QED
    BY <1>7, <2>1
<1>9. CASE Close
  <2>1. UNCHANGED out /\ ~Ready' /\ ~(Size(buf') > 0)
    BY <1>9 DEF Close, obsVars, Empty, Size
  <2> QED
    BY <1>3, <2>1 DEF ApartInv, NoByteTwice, Buffered
<1>10. ASSUME NEW n \in 0..MaxRead, ReadBuffered(n)
       PROVE  ApartInv'
  <2>1. /\ Size(buf) > 0 /\ Deliver(buf, n) /\ n \in Nat
        /\ UNCHANGED <<counter, nonceOK, live, consumed, call>>
    BY <1>10, ReaderAssumption DEF ReadBuffered
  <2>2. \A i \in 1..Len(out) : Apart(out[i], buf)
    BY <1>3, <2>1 DEF Buffered
  <2>3. Ready => Reached \in Nat
    BY <1>1, <1>3, SealedFacts DEF Reached
  <2>4. Reached' = Reached /\ (Ready' <=> Ready)
    BY <2>1 DEF Reached
  <2> QED
    BY <1>1, <1>3, <1>4, <2>1, <2>2, <2>3, <2>4 DEF ApartInv
<1>11. ASSUME NEW n \in 0..MaxRead, ReadChunk(n)
       PROVE  ApartInv'
  <2>1. /\ ~consumed /\ live /\ FetchChunk("data") /\ Deliver(Chunk, n) /\ n \in Nat
        /\ Size(buf) = 0
    BY <1>11, ReaderAssumption DEF ReadChunk, Fresh
  <2>2. Ready
    BY <2>1, OpenedChunk
  <2>3. /\ Chunk \in Run /\ Chunk.hi \in Nat /\ Chunk.lo <= Chunk.hi /\ Reached' = Chunk.hi
        /\ counter' <= Len(Sealed) /\ \A i \in 1..Len(out) : Apart(out[i], Chunk)
        /\ \A i \in 1..Len(out) : out[i].hi <= Chunk.hi
    BY <1>2, <1>5, <2>1, <2>2
  <2> QED
    BY <1>4, <2>1, <2>3 DEF ApartInv
<1>12. CASE ReadMarker
  <2>1. UNCHANGED <<out, buf>> /\ ~consumed /\ live /\ FetchChunk("eof")
    BY <1>12 DEF ReadMarker, Fresh
  <2>2. Ready
    BY <2>1, OpenedChunk
  <2>3. /\ Reached' = Chunk.hi /\ counter' <= Len(Sealed) /\ Chunk.lo <= Chunk.hi
        /\ Chunk.lo \in Nat /\ Chunk.hi \in Nat
        /\ Size(buf) > 0 => buf.hi <= Chunk.lo
        /\ \A i \in 1..Len(out) : out[i].hi <= Chunk.lo
    BY <1>5, <2>1, <2>2
  <2>4. (Size(buf) > 0 => buf.hi <= Chunk.hi) /\ \A i \in 1..Len(out) : out[i].hi <= Chunk.hi
    BY <1>2, <2>3
  <2> QED
    BY <1>3, <2>1, <2>3, <2>4 DEF ApartInv, NoByteTwice, Buffered
<1>13. CASE ReadFail \/ WriteToFail \/ WriteToMarker
  <2>1. UNCHANGED <<out, buf>> /\ ~Ready'
    BY <1>13 DEF ReadFail, WriteToFail, WriteToMarker, NonceInv
  <2> QED
    BY <1>6, <2>1
<1>14. CASE ReadError
  <2>1. UNCHANGED <<out, buf, counter>> /\ (Ready' => Ready)
    BY <1>14 DEF ReadError, FetchEnd, FetchTooLarge, FetchBreaks, FetchPanic
  <2> QED
    BY <1>7, <2>1
<1>15. CASE WriteToError
  <2>1. UNCHANGED <<out, buf>> /\ ~Ready'
    BY <1>15 DEF WriteToError, NonceInv
  <2> QED
    BY <1>6, <2>1
<1>16. CASE WriteToChunk
  <2>1. /\ call = "writeTo" /\ live /\ FetchChunk("data") /\ out' = Append(out, Chunk)
        /\ UNCHANGED buf
    BY <1>16 DEF WriteToChunk
  <2>2. Ready
    BY <2>1, OpenedChunk
  <2>3. /\ Chunk \in Run /\ Chunk.lo \in Nat /\ Chunk.hi \in Nat /\ Chunk.lo <= Chunk.hi
        /\ Reached' = Chunk.hi
        /\ counter' <= Len(Sealed) /\ \A i \in 1..Len(out) : Apart(out[i], Chunk)
        /\ \A i \in 1..Len(out) : out[i].hi <= Chunk.lo
        /\ Size(buf) > 0 => buf.hi <= Chunk.lo
    BY <1>5, <2>1, <2>2
  <2>4. /\ NoByteTwice'
        /\ Len(out') = Len(out) + 1 /\ out'[Len(out) + 1] = Chunk
        /\ \A i \in 1..Len(out) : out'[i] = out[i]
    BY <1>1, <1>3, <2>1, <2>3, HandOut
  <2>5. ASSUME NEW i \in 1..Len(out')
        PROVE  /\ Size(buf) > 0 => Apart(out'[i], buf)
               /\ out'[i].hi <= Chunk.hi
    <3>1. CASE i = Len(out) + 1
      BY <2>3, <2>4, <3>1 DEF Apart
    <3>2. CASE i # Len(out) + 1
      <4>1. i \in 1..Len(out)
        BY <1>1, <2>4, <3>2
      <4> QED
        BY <1>2, <1>3, <2>3, <2>4, <4>1 DEF Buffered
    <3> QED
      BY <3>1, <3>2
  <2>6. Size(buf) > 0 => buf.hi <= Chunk.hi
    BY <1>2, <2>3
  <2> QED
    BY <2>1, <2>3, <2>4, <2>5, <2>6 DEF ApartInv, Buffered
<1>17. ASSUME NEW n \in 0..plaintextMax, WriteToSinkError(n)
       PROVE  ApartInv'
  <2>1. /\ call = "writeTo" /\ live /\ FetchChunk("data") /\ n <= Size(Chunk)
        /\ out' = IF n = 0 THEN out ELSE Append(out, [lo |-> Chunk.lo, hi |-> Chunk.lo + n])
        /\ UNCHANGED buf /\ ~Ready'
    BY <1>17 DEF WriteToSinkError
  <2>2. Ready
    BY <2>1, OpenedChunk
  <2>3. /\ Chunk.lo \in Nat /\ Chunk.hi \in Nat
        /\ \A i \in 1..Len(out) : out[i].hi <= Chunk.lo
        /\ Size(buf) > 0 => buf.hi <= Chunk.lo
    BY <1>5, <2>1, <2>2
  <2>4. CASE n = 0
    BY <1>6, <2>1, <2>4
  <2>5. CASE n # 0
    <3> DEFINE r == [lo |-> Chunk.lo, hi |-> Chunk.lo + n]
    <3>1. n \in Nat
      BY ReaderAssumption
    <3>2. r \in Run /\ r.lo = Chunk.lo /\ r.hi = Chunk.lo + n /\ out' = Append(out, r)
      BY <2>1, <2>3, <2>5, <3>1 DEF Run
    <3> HIDE DEF r
    <3>3. \A i \in 1..Len(out) : Apart(out[i], r)
      BY <2>3, <3>2 DEF Apart
    <3>4. /\ NoByteTwice'
          /\ Len(out') = Len(out) + 1 /\ out'[Len(out) + 1] = r
          /\ \A i \in 1..Len(out) : out'[i] = out[i]
      BY <1>1, <1>3, <3>2, <3>3, HandOut
    <3>5. ASSUME NEW i \in 1..Len(out'), Size(buf) > 0
          PROVE  Apart(out'[i], buf)
      <4>1. CASE i = Len(out) + 1
        BY <2>3, <3>2, <3>4, <3>5, <4>1 DEF Apart
      <4>2. CASE i # Len(out) + 1
        <5>1. i \in 1..Len(out)
          BY <1>1, <3>4, <4>2
        <5> QED
          BY <1>3, <3>4, <3>5, <5>1 DEF Buffered
      <4> QED
        BY <4>1, <4>2
    <3> QED
      BY <2>1, <3>4, <3>5 DEF ApartInv, Buffered
  <2> QED
    BY <2>4, <2>5
<1> QED
  BY <1>8, <1>9, <1>10, <1>11, <1>12, <1>13, <1>14, <1>15, <1>16, <1>17
     DEF Next, ReaderNext, Read, WriteToStep

LEMMA InitMixInv == Init => MixInv
<1> SUFFICES ASSUME Init
             PROVE  MixInv
  OBVIOUS
<1>1. TypeOK /\ wire \in Wires
  BY InitSafeInv DEF SafeInv
<1>2. ApartInv
  BY SealedFacts DEF Init, ReaderInit, ApartInv, NoByteTwice, Buffered, Empty, Size
<1>3. NonceInv
  BY DEF Init, ReaderInit, NonceInv
<1>4. CutInv
  BY DEF CutInv, CutIsNotTampering, Init, ReaderInit
<1> QED
  BY <1>1, <1>2, <1>3, <1>4 DEF MixInv

LEMMA StepMixInv == MixInv /\ [Next]_vars => MixInv'
<1> SUFFICES ASSUME MixInv, [Next]_vars
             PROVE  MixInv'
  OBVIOUS
<1>1. CASE Next
  BY <1>1, TypeStep, NonceStep, ApartStep, CutStep DEF MixInv
<1>2. CASE UNCHANGED vars
  <2>1. TypeOK' /\ (wire \in Wires)' /\ NonceInv'
    BY <1>2 DEF MixInv, TypeOK, ReaderTypeOK, NonceInv, vars, streamVars, readerVars, obsVars
  <2>2. ApartInv'
    BY <1>2 DEF MixInv, ApartInv, NoByteTwice, Buffered, Reached, vars, readerVars, obsVars
  <2>3. CutInv'
    BY <1>2 DEF MixInv, CutInv, CutIsNotTampering, CutShort, SizesFit, vars, streamVars,
                readerVars, obsVars
  <2> QED
    BY <2>1, <2>2, <2>3 DEF MixInv
<1> QED
  BY <1>1, <1>2

-----------------------------------------------------------------------------
(* The theorems.                                                            *)

\* On every wire the whole invariant holds, for callers that do not mix Read
\* and WriteTo.
THEOREM Invariance ==
  ASSUME ~MayMix
  PROVE  Spec => []IInv
<1>1. Init => IInv
  BY InitIInv
<1>2. IInv /\ [Next]_vars => IInv'
  BY StepIInv
<1> QED
  BY <1>1, <1>2, PTL DEF Spec

\* ... and a weaker one of every caller, one that mixes Read and WriteTo included.
THEOREM MixInvariance == Spec => []MixInv
BY InitMixInv, StepMixInv, PTL DEF Spec

\* The fields of the reader and its position keep their types.
THEOREM TypeCorrect == Spec => []TypeOK
<1>1. MixInv => TypeOK
  BY DEF MixInv
<1> QED
  BY <1>1, MixInvariance, PTL

\* reader.go:99-102, 169-180: the counter only moves on, and what it has opened is handed out
\* or buffered, once, whatever the caller does.
THEOREM NoByteTwiceHolds == Spec => []NoByteTwice
<1>1. MixInv => NoByteTwice
  BY DEF MixInv, ApartInv
<1> QED
  BY <1>1, MixInvariance, PTL

\* reader.go:47-63, 122, 138: what a Read had buffered is all that a failed reader still gives.
THEOREM OnlyBufferedHolds == Spec => OnlyBuffered
<1>1. ASSUME MixInv, [Next]_vars, authFailed
      PROVE  /\ out' = out \/ \E n \in 0..MaxRead : Deliver(buf, n)
             /\ res' = "nil" => res = "nil"
  <2>1. TypeOK /\ wire \in Wires /\ NonceInv
    BY <1>1 DEF MixInv
  <2>2. ASSUME NEW r \in {"data", "eof"}, FetchChunk(r)
        PROVE  consumed /\ call = "idle"
    BY <1>1, <2>1, <2>2, OpenedChunk DEF NonceInv
  <2>3. /\ ~ReadMarker /\ ~WriteToChunk /\ ~WriteToMarker
        /\ \A n \in 0..MaxRead : ~ReadChunk(n)
        /\ \A n \in 0..plaintextMax : ~WriteToSinkError(n)
    BY <2>2 DEF ReadMarker, ReadChunk, WriteToChunk, WriteToMarker, WriteToSinkError, Fresh
  <2>4. ASSUME NEW n \in 0..MaxRead, ReadBuffered(n)
        PROVE  Deliver(buf, n) /\ res' = "data"
    BY <2>4 DEF ReadBuffered
  <2>5. CASE \/ ReadRefused \/ ReadEOF \/ ReadError \/ WriteToRefused \/ WriteTo
             \/ WriteToError \/ Close \/ UNCHANGED vars
    BY <2>5 DEF ReadRefused, ReadEOF, ReadError, WriteToRefused, WriteTo,
                WriteToError, Close, vars, obsVars
  <2>6. CASE ReadFail \/ WriteToFail
    <3>1. Fails(counter) /\ out' = out
      BY <2>6 DEF ReadFail, WriteToFail
    <3>2. res' # "nil"
      BY <2>1, <3>1, FailsFacts DEF TypeOK, ReaderTypeOK
    <3> QED
      BY <3>1, <3>2
  <2> QED
    BY <1>1, <2>3, <2>4, <2>5, <2>6 DEF Next, ReaderNext, Read, WriteToStep
<1>2. MixInv /\ [Next]_vars =>
        [authFailed => /\ out' = out \/ \E n \in 0..MaxRead : Deliver(buf, n)
                       /\ res' = "nil" => res = "nil"]_vars
  BY <1>1
<1> QED
  BY <1>2, MixInvariance, PTL DEF Spec, OnlyBuffered

\* reader.go:142-188: each turn of the loop of WriteTo that is not its last consumes a chunk:
\* on a wire that has ended this is why WriteTo returns.
THEOREM WriteToAdvancesHolds == Spec => WriteToAdvances
<1>1. ASSUME TypeOK, [Next]_vars, call = "writeTo", call' = "writeTo"
      PROVE  UNCHANGED vars \/ pos' > pos
  <2>1. CASE WriteToChunk
    <3>1. pos \in Nat /\ Len(wire) \in Nat
      BY <1>1 DEF TypeOK, ReaderTypeOK
    <3> QED
      BY <2>1, <3>1 DEF WriteToChunk, FetchChunk, Resync
  <2>2. WriteToChunk \/ UNCHANGED vars
    BY <1>1 DEF Next, ReaderNext, Read, ReadRefused, ReadBuffered, ReadEOF, ReadChunk,
                ReadMarker, ReadFail, ReadError, Fresh, WriteToRefused, WriteTo, WriteToStep,
                WriteToSinkError, WriteToMarker, WriteToFail, WriteToError, Close
  <2> QED
    BY <2>1, <2>2
<1>2. TypeOK /\ [Next]_vars => [call = "writeTo" /\ call' = "writeTo" => pos' > pos]_vars
  BY <1>1
<1> QED
  BY <1>2, TypeCorrect, PTL DEF Spec, WriteToAdvances

\* reader.go:99-102: what opens under the counter is the next chunk of the stream.
THEOREM DeliversInOrderHolds ==
  ASSUME ~MayMix
  PROVE  Spec => []DeliversInOrder
<1>1. IInv => DeliversInOrder
  BY DEF IInv, SafeInv, OutInv
<1> QED
  BY <1>1, Invariance, PTL

\* reader.go:118-120, 177-180: only the authenticated marker ends a stream cleanly.
THEOREM EOFIsWholePlaintextHolds ==
  ASSUME ~MayMix
  PROVE  Spec => []EOFIsWholePlaintext
<1>1. IInv => EOFIsWholePlaintext
  BY DEF IInv, SafeInv, CallInv, EOFIsWholePlaintext, Whole
<1> QED
  BY <1>1, Invariance, PTL

\* reader.go:99-100, chunk.go:58: the counter of a chunk that does not open is the index
\* of the chunk whose plaintext is missing first.
THEOREM LocatesDamageHolds ==
  ASSUME ~MayMix
  PROVE  Spec => []LocatesDamage
<1>1. IInv => LocatesDamage
  BY DEF IInv, LocateInv
<1> QED
  BY <1>1, Invariance, PTL

\* reader.go:65-70, 95-97: a stream that ends early yields the errors of its end only.
THEOREM CutIsNotTamperingHolds == Spec => []CutIsNotTampering
<1>1. MixInv => CutIsNotTampering
  BY DEF MixInv, CutInv, CutIsNotTampering
<1> QED
  BY <1>1, MixInvariance, PTL

\* reader.go:122, 138: after a chunk that does not open, the wiped nonce (Read) and the
\* latch `consumed' (WriteTo) stop the reader for good.
THEOREM FailStopHolds ==
  ASSUME ~MayMix
  PROVE  Spec => FailStop
<1>1. ASSUME IInv, [Next]_vars, authFailed
      PROVE  out' = out /\ (res' # res => res' \in Errors)
  BY <1>1, StopStep DEF IInv
<1>2. IInv /\ [Next]_vars =>
        [authFailed => out' = out /\ (res' # res => res' \in Errors)]_vars
  BY <1>1
<1> QED
  BY <1>2, Invariance, PTL DEF Spec, FailStop
=============================================================================
