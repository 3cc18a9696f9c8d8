------------------------ MODULE EncryptWriterProofs ------------------------
(***************************************************************************)
(* Proofs about EncryptWriter, for every chunk size, every input length and *)
(* every way the sink may fail.                                             *)
(***************************************************************************)
EXTENDS EncryptWriter, TLAPS

\* What Append does to a sequence, in the form the proofs below use.
LEMMA AppendFacts ==
  ASSUME NEW S, NEW s \in Seq(S), NEW e \in S
  PROVE  /\ Append(s, e) \in Seq(S)
         /\ Len(s) \in Nat
         /\ Len(Append(s, e)) = Len(s) + 1
         /\ Append(s, e)[Len(s) + 1] = e
         /\ \A i \in 1..Len(s) : Append(s, e)[i] = s[i] /\ s[i] \in S
OBVIOUS

\* The invariant holds of a new writer (writer.go:29-47).
LEMMA InitIInv == Init => IInv
<1> SUFFICES ASSUME Init PROVE IInv
  OBVIOUS
<1> USE DEF Init
<1>1. TypeOK
  <2>1. wire \in Seq(Frame) /\ nonces \in Seq(Nat)
    OBVIOUS
  <2>2. buf \in Run /\ buf.lo <= buf.hi
    BY DEF Run
  <2>3. /\ counter \in Nat /\ todo \in Nat
        /\ closed \in BOOLEAN /\ writeErr \in BOOLEAN
        /\ failed \in BOOLEAN /\ closeOK \in BOOLEAN
        /\ call \in {"idle", "write", "readFrom", "close"}
        /\ src \in SourceSays
    BY DEF SourceSays
  <2> QED
    BY <2>1, <2>2, <2>3, Zenon DEF TypeOK
<1>2. NoncesInv
  BY DEF NoncesInv
<1>8. CallInv
  BY DEF CallInv
<1>3. BufferInv
  BY WriterAssumption DEF BufferInv, Size
<1>4. FramesInv
  BY DEF FramesInv
<1>5. ChainInv
  BY DEF ChainInv
<1>6. CarriesInv
  BY DEF CarriesInv
<1>7. CleanInv
  BY DEF CleanInv
<1> QED
  BY <1>1, <1>2, <1>3, <1>4, <1>5, <1>6, <1>7, <1>8 DEF IInv
-----------------------------------------------------------------------------
(* Steps that seal a frame.                                                 *)

\* What a step that seals f leaves in `nonces' and `wire': one more counter, and
\* either the old frames or those and one that is f up to its state.
LEMMA EmitFacts ==
  ASSUME TypeOK, NEW f \in Frame, NEW o \in Outcomes, Emit(f, o), f.state = "whole"
  PROVE  /\ nonces' \in Seq(Nat)
         /\ wire' \in Seq(Frame)
         /\ Len(nonces') = Len(nonces) + 1
         /\ nonces'[Len(nonces) + 1] = f.ctr
         /\ \A i \in 1..Len(nonces) : nonces'[i] = nonces[i]
         /\ o = "ok" => wire' = Append(wire, f)
         /\ \/ o # "ok" /\ wire' = wire
            \/ \E g \in Frame :
                 /\ wire' = Append(wire, g)
                 /\ g.ctr = f.ctr /\ g.lo = f.lo /\ g.hi = f.hi
                 /\ g.state = "whole" => o \in {"ok", "kept"}
<1>1. wire \in Seq(Frame) /\ nonces \in Seq(Nat) /\ f.ctr \in Nat
  BY DEF TypeOK, Frame
<1>2. nonces' = Append(nonces, f.ctr)
  BY DEF Emit
<1>3. /\ nonces' \in Seq(Nat)
      /\ Len(nonces') = Len(nonces) + 1
      /\ nonces'[Len(nonces) + 1] = f.ctr
      /\ \A i \in 1..Len(nonces) : nonces'[i] = nonces[i]
  BY <1>1, <1>2, AppendFacts
<1>4. CASE o \in {"ok", "kept"}
  <2>1. wire' = Append(wire, f)
    BY <1>4 DEF Emit
  <2> QED
    BY <1>1, <1>3, <1>4, <2>1, AppendFacts
<1>5. CASE o = "torn"
  <2> DEFINE g == [f EXCEPT !.state = "torn"]
  <2>1. wire' = Append(wire, g)
    BY <1>5 DEF Emit
  <2>2. g \in Frame /\ g.ctr = f.ctr /\ g.lo = f.lo /\ g.hi = f.hi /\ g.state = "torn"
    BY DEF Frame, FrameState
  <2>3. wire' \in Seq(Frame)
    BY <1>1, <2>1, <2>2, AppendFacts
  <2> HIDE DEF g
  <2> QED
    BY <1>3, <1>5, <2>1, <2>2, <2>3
<1>6. CASE o = "lost"
  <2>1. wire' = wire
    BY <1>6 DEF Emit
  <2> QED
    BY <1>1, <1>3, <1>6, <2>1
<1> QED
  BY <1>4, <1>5, <1>6, WriterAssumption DEF Outcomes
\* A step that seals f, the next run of the input under the next counter, keeps
\* the order, chain and coverage of the frames.
LEMMA EmitKeeps ==
  ASSUME IInv, NEW f \in Frame, NEW o \in Outcomes, Emit(f, o),
         Len(nonces) = counter,
         \A i \in 1..Len(wire) : ~IsEOF(wire[i]),
         f.state = "whole", f.ctr = counter, f.lo = buf.lo, f.lo <= f.hi,
         Size(f) <= ChunkSize
  PROVE  /\ wire' \in Seq(Frame) /\ nonces' \in Seq(Nat)
         /\ \A i \in 1..Len(nonces') : nonces'[i] = i - 1
         /\ Len(nonces') = counter + 1
         /\ \A i \in 1..Len(wire') :
              /\ wire'[i].lo <= wire'[i].hi
              /\ Size(wire'[i]) <= ChunkSize
              /\ wire'[i].ctr < counter + 1
              /\ IsEOF(wire'[i]) => i = Len(wire') /\ wire'[i].lo = f.lo /\ IsEOF(f)
         /\ \A i, j \in 1..Len(wire') : i < j => wire'[i].ctr < wire'[j].ctr
         /\ wire' # <<>> /\ wire'[1].ctr = 0 => wire'[1].lo = 0
         /\ CarriesInv'
         /\ o = "ok" => wire' = Append(wire, f)
<1>1. TypeOK
  BY DEF IInv
<1>2. wire \in Seq(Frame) /\ nonces \in Seq(Nat) /\ counter \in Nat
  BY <1>1 DEF TypeOK
<1>3. /\ \A i \in 1..Len(wire) : /\ wire[i].lo <= wire[i].hi
                                 /\ Size(wire[i]) <= ChunkSize
                                 /\ wire[i].ctr < counter
      /\ \A i, j \in 1..Len(wire) : i < j => wire[i].ctr < wire[j].ctr
  BY DEF IInv, FramesInv
<1>4. /\ wire' \in Seq(Frame) /\ nonces' \in Seq(Nat)
      /\ Len(nonces') = counter + 1
      /\ nonces'[counter + 1] = counter
      /\ \A i \in 1..counter : nonces'[i] = nonces[i]
      /\ o = "ok" => wire' = Append(wire, f)
  BY <1>1, EmitFacts
<1>5. \A i \in 1..Len(nonces') : nonces'[i] = i - 1
  <2>1. \A i \in 1..counter : nonces[i] = i - 1
    BY DEF IInv, NoncesInv
  <2> TAKE i \in 1..Len(nonces')
  <2>2. i = counter + 1 \/ i \in 1..counter
    BY <1>2, <1>4
  <2> QED
    BY <1>2, <1>4, <2>1, <2>2
<1>6. CASE o # "ok" /\ wire' = wire
  <2>1. wire # <<>> => wire[Len(wire)].ctr < counter
    BY <1>2, <1>3
  <2>2. CarriesInv'
    BY <1>6 DEF IInv, CarriesInv, Opens, Carries
  <2>4. \A i \in 1..Len(wire) : wire[i].ctr \in Nat
    <3>1. \A i \in 1..Len(wire) : wire[i] \in Frame
      BY <1>2
    <3> QED
      BY <3>1 DEF Frame
  <2>5. \A i \in 1..Len(wire) : wire[i].ctr < counter + 1
    BY <1>2, <1>3, <2>4
  <2>6. wire # <<>> /\ wire[1].ctr = 0 => wire[1].lo = 0
    BY DEF IInv, ChainInv
  <2> QED
    BY <1>3, <1>4, <1>5, <1>6, <2>2, <2>5, <2>6
<1>7. ASSUME NEW g \in Frame, wire' = Append(wire, g),
             g.ctr = f.ctr, g.lo = f.lo, g.hi = f.hi
      PROVE  /\ \A i \in 1..Len(wire') :
                  /\ wire'[i].lo <= wire'[i].hi
                  /\ Size(wire'[i]) <= ChunkSize
                  /\ wire'[i].ctr < counter + 1
                  /\ IsEOF(wire'[i]) => i = Len(wire') /\ wire'[i].lo = f.lo /\ IsEOF(f)
             /\ \A i, j \in 1..Len(wire') : i < j => wire'[i].ctr < wire'[j].ctr
             /\ wire' # <<>> /\ wire'[1].ctr = 0 => wire'[1].lo = 0
             /\ CarriesInv'
  <2> DEFINE n == Len(wire)
  <2>1. /\ n \in Nat
        /\ Len(wire') = n + 1
        /\ wire'[n + 1] = g
        /\ \A i \in 1..n : wire'[i] = wire[i] /\ wire[i] \in Frame
    BY <1>2, <1>7, AppendFacts
  <2>2. /\ g.ctr = counter /\ g.lo = buf.lo /\ g.lo <= g.hi
        /\ Size(g) <= ChunkSize /\ (IsEOF(g) => IsEOF(f))
    BY <1>7 DEF Size, IsEOF
  <2>3. \A i \in 1..n : wire[i].ctr \in Nat /\ wire[i].lo \in Nat /\ wire[i].hi \in Nat
    BY <2>1 DEF Frame
  <2>4. g.ctr \in Nat /\ g.lo \in Nat /\ g.hi \in Nat
    BY DEF Frame
  <2>5. n = 0 <=> wire = <<>>
    BY <1>2
  <2> HIDE DEF n
  <2>6. \A i \in 1..Len(wire') :
          /\ wire'[i].lo <= wire'[i].hi
          /\ Size(wire'[i]) <= ChunkSize
          /\ wire'[i].ctr < counter + 1
          /\ IsEOF(wire'[i]) => i = Len(wire') /\ wire'[i].lo = f.lo /\ IsEOF(f)
    BY <1>2, <1>3, <1>7, <2>1, <2>2, <2>3 DEF n
  <2>7. \A i, j \in 1..Len(wire') : i < j => wire'[i].ctr < wire'[j].ctr
    <3> TAKE i, j \in 1..Len(wire')
    <3> HAVE i < j
    <3>1. i \in 1..n /\ (j \in 1..n \/ j = n + 1)
      BY <2>1
    <3>2. wire'[i].ctr = wire[i].ctr /\ wire[i].ctr < counter
      BY <1>3, <2>1, <3>1 DEF n
    <3>3. CASE j \in 1..n
      <4>1. wire[i].ctr < wire[j].ctr
        BY <1>3, <3>1, <3>3 DEF n
      <4> QED
        BY <2>1, <3>2, <3>3, <4>1
    <3>4. CASE j = n + 1
      BY <2>1, <2>2, <3>2, <3>4
    <3> QED
      BY <3>1, <3>3, <3>4
  <2>8. wire'[1].ctr = 0 => wire'[1].lo = 0
    <3>1. CASE n = 0
      BY <1>2, <2>1, <2>2, <3>1 DEF IInv, BufferInv
    <3>2. CASE n # 0
      BY <2>1, <2>5, <3>2 DEF IInv, ChainInv
    <3> QED
      BY <3>1, <3>2
  <2>9. n # 0 /\ wire[n].state = "whole" /\ wire[n].ctr = counter - 1 => g.lo <= wire[n].hi
    <3>1. n # 0 => n \in 1..n /\ wire[n].lo <= wire[n].hi
      BY <1>3, <2>1 DEF n
    <3>2. n # 0 /\ wire[n].state = "whole" /\ wire[n].ctr = counter - 1
            => buf.lo = wire[n].hi \/ buf.lo = wire[n].lo
      BY <2>5 DEF IInv, ChainInv, Kept, n
    <3> QED
      BY <2>2, <2>3, <2>4, <3>1, <3>2
  <2>12. CarriesInv'
    <3> SUFFICES ASSUME NEW k \in 1..(n + 1), Opens(wire', k), NEW x \in 1..wire'[k].hi
                 PROVE  \E i \in 1..k : wire'[i].lo < x /\ x <= wire'[i].hi
      BY <2>1 DEF CarriesInv, Opens, Carries
    <3>1. CASE k \in 1..n
      <4>1. Opens(wire, k) /\ x \in 1..wire[k].hi
        <5>1. \A i \in 1..k : wire'[i] = wire[i]
          <6> TAKE i \in 1..k
          <6>1. i \in 1..n
            BY <2>1, <3>1
          <6> QED
            BY <2>1, <6>1
        <5>2. \A i \in 1..k : wire'[i].state = "whole" /\ wire'[i].ctr = i - 1
          BY DEF Opens
        <5>3. wire'[k] = wire[k]
          BY <3>1, <5>1
        <5>4. Opens(wire, k)
          BY <5>1, <5>2 DEF Opens
        <5> QED
          BY <5>3, <5>4
      <4>2. PICK i \in 1..k : wire[i].lo < x /\ x <= wire[i].hi
        BY <3>1, <4>1 DEF IInv, CarriesInv, Carries, n
      <4> QED
        BY <2>1, <3>1, <4>2
    <3>2. CASE k = n + 1
      <4>1. CASE x > g.lo
        BY <2>1, <2>4, <3>2, <4>1
      <4>2. CASE x <= g.lo /\ n = 0
        <5>1. g.lo = 0
          BY <2>1, <2>2, <2>8, <3>2, <4>2 DEF Opens
        <5> QED
          BY <4>2, <5>1
      <4>3. CASE x <= g.lo /\ n # 0
        <5>1. Opens(wire, n) /\ n \in 1..n
          BY <2>1, <3>2, <4>3 DEF Opens
        <5>2. wire[n].state = "whole" /\ wire[n].ctr = n - 1 /\ g.ctr = n
          BY <2>1, <3>2, <5>1 DEF Opens
        <5>3. g.lo <= wire[n].hi
          BY <2>1, <2>2, <2>9, <4>3, <5>2
        <5>4. x \in 1..wire[n].hi
          BY <2>1, <2>3, <2>4, <3>2, <4>3, <5>1, <5>3
        <5>5. PICK i \in 1..n : wire[i].lo < x /\ x <= wire[i].hi
          BY <5>1, <5>4 DEF IInv, CarriesInv, Carries, n
        <5> QED
          BY <2>1, <3>2, <5>5
      <4> QED
        BY <2>4, <4>1, <4>2, <4>3
    <3> QED
      BY <2>1, <3>1, <3>2
  <2> QED
    BY <2>6, <2>7, <2>8, <2>12
<1>8. \/ o # "ok" /\ wire' = wire
      \/ \E g \in Frame :
           /\ wire' = Append(wire, g)
           /\ g.ctr = f.ctr /\ g.lo = f.lo /\ g.hi = f.hi
  BY <1>1, EmitFacts
<1> QED
  BY <1>4, <1>5, <1>6, <1>7, <1>8
-----------------------------------------------------------------------------
(* The steps of the writer.                                                 *)

\* A step that seals nothing keeps the invariant when it only lengthens the buffer
\* and does not end a Close.
LEMMA QuietStep ==
  ASSUME IInv, TypeOK', CallInv',
         wire' = wire, nonces' = nonces, counter' = counter,
         buf'.lo = buf.lo, Size(buf') <= ChunkSize,
         closed => closed' /\ call' = call /\ buf' = buf,
         writeErr => writeErr' /\ buf' = buf,
         closed' /\ call' = "idle" => closed /\ call = "idle",
         closeOK' => closed' /\ call' = "idle",
         failed => failed'
  PROVE  IInv'
<1>1. NoncesInv'
  BY DEF IInv, NoncesInv
<1>2. BufferInv'
  BY DEF IInv, BufferInv
<1>3. FramesInv'
  BY DEF IInv, FramesInv
<1>4. ChainInv'
  <2>1. ASSUME NEW i \in 2..Len(wire), Repeats(i), call = "close" => Size(buf) = 0
        PROVE  Repeats(i)' /\ (call' = "close" => Size(buf') = 0)
    BY <2>1 DEF Repeats
  <2>2. wire # <<>> /\ Kept => Kept'
    BY DEF Kept
  <2> QED
    BY <2>1, <2>2 DEF IInv, ChainInv
<1>5. CarriesInv'
  BY DEF IInv, CarriesInv, Opens, Carries
<1>6. CleanInv'
  BY DEF IInv, CleanInv
<1> QED
  BY <1>1, <1>2, <1>3, <1>4, <1>5, <1>6 DEF IInv

\* A flush of b, inside a Write, a ReadFrom or a Close, keeps the invariant.
LEMMA FlushStep ==
  ASSUME IInv, TypeOK', NEW b \in Run, NEW o \in Outcomes, Flush(b, o),
         b.lo = buf.lo, b.lo < b.hi, Size(b) <= ChunkSize,
         call # "idle", closed' = closed, closeOK' = closeOK,
         closed => b = buf, writeErr => closed, writeErr' => writeErr \/ o # "ok",
         o # "ok" => writeErr' \/ closed,
         call' = IF o = "ok" THEN call ELSE "idle",
         failed' = (failed \/ o # "ok")
  PROVE  IInv'
<1> DEFINE f == SealChunk(b, counter)
<1>1. /\ counter \in Nat /\ buf \in Run /\ wire \in Seq(Frame)
      /\ b.lo \in Nat /\ b.hi \in Nat
  BY DEF IInv, TypeOK, Run
<1>2. /\ f \in Frame /\ f.state = "whole" /\ f.ctr = counter
      /\ f.lo = b.lo /\ f.hi = b.hi /\ Size(f) <= ChunkSize /\ ~IsEOF(f)
  BY <1>1 DEF SealChunk, Frame, FrameState, Size, IsEOF
<1>3. /\ Emit(f, o) /\ counter' = counter + 1
      /\ buf' = IF o = "ok" THEN [lo |-> b.hi, hi |-> b.hi] ELSE b
  BY DEF Flush
<1> HIDE DEF f
<1>4. /\ Len(nonces) = counter
      /\ \A i \in 1..Len(wire) : ~IsEOF(wire[i])
  BY DEF IInv, NoncesInv, FramesInv
<1>5. /\ wire' \in Seq(Frame) /\ nonces' \in Seq(Nat)
      /\ \A i \in 1..Len(nonces') : nonces'[i] = i - 1
      /\ Len(nonces') = counter + 1
      /\ \A i \in 1..Len(wire') :
           /\ wire'[i].lo <= wire'[i].hi
           /\ Size(wire'[i]) <= ChunkSize
           /\ wire'[i].ctr < counter + 1
           /\ ~IsEOF(wire'[i])
      /\ \A i, j \in 1..Len(wire') : i < j => wire'[i].ctr < wire'[j].ctr
      /\ wire' # <<>> /\ wire'[1].ctr = 0 => wire'[1].lo = 0
      /\ CarriesInv'
      /\ o = "ok" => wire' = Append(wire, f)
  <2>1. f.lo = buf.lo /\ f.lo <= f.hi
    BY <1>1, <1>2
  <2> QED
    BY <1>2, <1>3, <1>4, <2>1, EmitKeeps
<1>6. NoncesInv'
  BY <1>3, <1>5 DEF NoncesInv
<1>7. CallInv'
  BY DEF IInv, CallInv
<1>8. BufferInv'
  BY <1>1, <1>3, <1>5, WriterAssumption DEF BufferInv, Size
<1>9. FramesInv'
  BY <1>5 DEF FramesInv
<1>10. ChainInv'
  <2>1. \A i \in 2..Len(wire) :
          wire[i - 1].state = "whole" /\ wire[i].ctr = wire[i - 1].ctr + 1
            => wire[i].lo = wire[i - 1].hi
    <3>1. closed => call = "close"
      BY DEF IInv, TypeOK, CallInv
    <3>2. closed => Size(buf) # 0
      BY <1>1 DEF Size
    <3> QED
      BY <3>1, <3>2 DEF IInv, ChainInv, Repeats
  <2>2. wire # <<>> /\ wire[Len(wire)].state = "whole" /\ wire[Len(wire)].ctr = counter - 1
          => \/ b.lo = wire[Len(wire)].hi
             \/ /\ "kept" \in SinkFaults /\ failed /\ closed
                /\ b.lo = wire[Len(wire)].lo /\ b.hi = wire[Len(wire)].hi
    BY DEF IInv, ChainInv, Kept
  <2>3. \/ o # "ok" /\ wire' = wire
        \/ \E g \in Frame : /\ wire' = Append(wire, g)
                            /\ g.ctr = counter /\ g.lo = b.lo /\ g.hi = b.hi
                            /\ g.state = "whole" => o \in {"ok", "kept"}
    BY <1>2, <1>3, EmitFacts DEF IInv
  <2>4. CASE wire' = wire
    <3>1. wire # <<>> => Len(wire) \in 1..Len(wire)
      BY <1>1
    <3>2. wire # <<>> => wire[Len(wire)].ctr # counter
      BY <1>1, <3>1 DEF IInv, FramesInv, NoncesInv
    <3> QED
      BY <1>1, <1>3, <1>5, <2>1, <2>4, <3>2 DEF ChainInv
  <2>5. ASSUME NEW g \in Frame, wire' = Append(wire, g),
               g.ctr = counter, g.lo = b.lo, g.hi = b.hi,
               g.state = "whole" => o \in {"ok", "kept"}
        PROVE  ChainInv'
    <3> DEFINE n == Len(wire)
    <3>1. /\ n \in Nat /\ Len(wire') = n + 1 /\ wire'[n + 1] = g
          /\ \A i \in 1..n : wire'[i] = wire[i] /\ wire[i] \in Frame
      BY <1>1, <2>5, AppendFacts
    <3>2. /\ \A i \in 2..n : wire[i - 1].state = "whole" /\ wire[i].ctr = wire[i - 1].ctr + 1
                              => wire[i].lo = wire[i - 1].hi
          /\ n # 0 /\ wire[n].state = "whole" /\ wire[n].ctr = counter - 1
               => \/ b.lo = wire[n].hi
                  \/ /\ "kept" \in SinkFaults /\ failed /\ closed
                     /\ b.lo = wire[n].lo /\ b.hi = wire[n].hi
      BY <1>1, <2>1, <2>2
    <3> HIDE DEF n
    <3>3. ASSUME NEW i \in 2..(n + 1), wire'[i - 1].state = "whole",
                 wire'[i].ctr = wire'[i - 1].ctr + 1
          PROVE  \/ wire'[i].lo = wire'[i - 1].hi
                 \/ Repeats(i)' /\ (call' = "close" => Size(buf') = 0)
      <4>1. CASE i = n + 1
        <5>1. i - 1 = n /\ n \in 1..n /\ wire'[i] = g /\ wire'[i - 1] = wire[n]
          BY <3>1, <4>1
        <5>2. wire[n].ctr \in Nat /\ wire[n].ctr = counter - 1
          BY <1>1, <2>5, <3>1, <3>3, <5>1 DEF Frame
        <5>3. CASE b.lo = wire[n].hi
          BY <2>5, <5>1, <5>3
        <5>4. CASE /\ "kept" \in SinkFaults /\ failed /\ closed
                   /\ b.lo = wire[n].lo /\ b.hi = wire[n].hi
          <6>1. \A j \in (i + 1)..Len(wire') : IsEOF(wire'[j])
            BY <3>1, <4>1
          <6>3. failed' /\ closed' /\ buf'.hi = b.hi
            BY <1>3, <5>4
          <6>4. Repeats(i)'
            BY <2>5, <5>1, <5>4, <6>1, <6>3, Zenon DEF Repeats
          <6>2. call' = "close" => Size(buf') = 0
            BY <1>1, <1>3 DEF Size
          <6> QED
            BY <6>2, <6>4
        <5> QED
          BY <3>1, <3>2, <3>3, <5>1, <5>2, <5>3, <5>4
      <4>2. CASE i # n + 1
        <5>1. i \in 2..n /\ i \in 1..n /\ i - 1 \in 1..n
          BY <3>1, <4>2
        <5> QED
          BY <3>1, <3>2, <3>3, <5>1
      <4> QED
        BY <4>1, <4>2
    <3>4. g.state = "whole" => buf'.lo = g.hi \/ Kept'
      <4>1. CASE o = "ok"
        BY <1>3, <2>5, <4>1
      <4>2. CASE o = "kept"
        <5>1. "kept" \in SinkFaults
          BY <4>2 DEF Outcomes
        <5> QED
          BY <1>3, <2>5, <3>1, <4>2, <5>1 DEF Kept
      <4> QED
        BY <2>5, <4>1, <4>2
    <3> QED
      BY <1>5, <3>1, <3>3, <3>4 DEF ChainInv
  <2> QED
    BY <2>3, <2>4, <2>5
<1>11. CleanInv'
  <2>1. ~closeOK
    BY DEF IInv, CleanInv
  <2>2. ASSUME ~failed'
        PROVE  /\ Len(wire') = Len(nonces')
               /\ \A i \in 1..Len(wire') : wire'[i].state = "whole" /\ wire'[i].ctr = i - 1
               /\ call' # "idle"
    <3>1. ~failed /\ o = "ok" /\ wire' = Append(wire, f)
      BY <1>5, <2>2
    <3>2. /\ Len(wire) = counter
          /\ \A i \in 1..Len(wire) : wire[i].state = "whole" /\ wire[i].ctr = i - 1
      BY <1>4, <3>1 DEF IInv, CleanInv
    <3>3. /\ Len(wire') = counter + 1 /\ wire'[counter + 1] = f
          /\ \A i \in 1..counter : wire'[i] = wire[i]
      BY <1>1, <1>2, <3>1, <3>2, AppendFacts
    <3>4. ASSUME NEW i \in 1..Len(wire')
          PROVE  wire'[i].state = "whole" /\ wire'[i].ctr = i - 1
      <4>1. i = counter + 1 \/ i \in 1..counter
        BY <1>1, <3>3
      <4> QED
        BY <1>1, <1>2, <3>2, <3>3, <4>1
    <3> QED
      BY <1>5, <3>1, <3>3, <3>4
  <2> QED
    BY <2>1, <2>2 DEF CleanInv
<1> QED
  BY <1>5, <1>6, <1>7, <1>8, <1>9, <1>10, <1>11 DEF IInv
\* Types of what a flush of b leaves.
LEMMA FlushTypes ==
  ASSUME TypeOK, NEW b \in Run, NEW o \in Outcomes, Flush(b, o)
  PROVE  wire' \in Seq(Frame) /\ nonces' \in Seq(Nat) /\ counter' \in Nat
<1>1. SealChunk(b, counter) \in Frame /\ SealChunk(b, counter).state = "whole"
  BY DEF TypeOK, Run, Frame, FrameState, SealChunk
<1>2. Emit(SealChunk(b, counter), o) /\ counter' = counter + 1
  BY DEF Flush
<1> QED
  BY <1>1, <1>2, EmitFacts DEF TypeOK

\* The end marker keeps the invariant: it is the last seal.
LEMMA EOFStep ==
  ASSUME IInv, NEW o \in Outcomes, CloseEOF(o)
  PROVE  IInv'
<1> DEFINE f == SealEOF(buf.hi, counter)
<1>1. /\ TypeOK /\ counter \in Nat /\ buf \in Run /\ wire \in Seq(Frame)
      /\ buf.lo \in Nat /\ buf.hi = buf.lo /\ call = "close" /\ closed
  BY DEF IInv, TypeOK, CallInv, CloseEOF, Size, Run
<1>2. /\ f \in Frame /\ f.state = "whole" /\ f.ctr = counter
      /\ f.lo = buf.lo /\ f.lo = f.hi /\ Size(f) = 0 /\ IsEOF(f)
  BY <1>1 DEF SealEOF, SealChunk, Frame, FrameState, Size, IsEOF
<1>3. /\ Emit(f, o)
      /\ call' = "idle"
      /\ failed' = (failed \/ o # "ok")
      /\ closeOK' = (closeOK \/ o = "ok")
      /\ UNCHANGED <<buf, counter, closed, writeErr, todo, src>>
  BY DEF CloseEOF
<1> HIDE DEF f
<1>4. /\ Len(nonces) = counter
      /\ \A i \in 1..Len(wire) : ~IsEOF(wire[i])
  BY <1>1 DEF IInv, NoncesInv, FramesInv
<1>5. /\ wire' \in Seq(Frame) /\ nonces' \in Seq(Nat)
      /\ \A i \in 1..Len(nonces') : nonces'[i] = i - 1
      /\ Len(nonces') = counter + 1
      /\ \A i \in 1..Len(wire') :
           /\ wire'[i].lo <= wire'[i].hi
           /\ Size(wire'[i]) <= ChunkSize
           /\ wire'[i].ctr < counter + 1
           /\ IsEOF(wire'[i]) => i = Len(wire') /\ wire'[i].lo = f.lo
      /\ \A i, j \in 1..Len(wire') : i < j => wire'[i].ctr < wire'[j].ctr
      /\ wire' # <<>> /\ wire'[1].ctr = 0 => wire'[1].lo = 0
      /\ CarriesInv'
      /\ o = "ok" => wire' = Append(wire, f)
  <2>1. f.lo <= f.hi /\ Size(f) <= ChunkSize
    BY <1>1, <1>2, WriterAssumption
  <2> QED
    BY <1>2, <1>3, <1>4, <2>1, EmitKeeps
<1>6. TypeOK'
  <2>1. /\ buf' \in Run /\ buf'.lo <= buf'.hi /\ counter' \in Nat /\ todo' \in Nat
    BY <1>1, <1>3 DEF TypeOK
  <2>2. /\ closed' \in BOOLEAN /\ writeErr' \in BOOLEAN /\ src' \in SourceSays
        /\ call' \in {"idle", "write", "readFrom", "close"}
        /\ failed' \in BOOLEAN /\ closeOK' \in BOOLEAN
    BY <1>1, <1>3, Zenon DEF TypeOK
  <2> QED
    BY <1>5, <2>1, <2>2, Zenon DEF TypeOK
<1>7. NoncesInv'
  BY <1>1, <1>3, <1>5 DEF NoncesInv
<1>8. CallInv'
  BY <1>3 DEF CallInv
<1>9. BufferInv'
  BY <1>1, <1>3, <1>5 DEF IInv, BufferInv, Size
<1>10. FramesInv'
  BY <1>1, <1>2, <1>3, <1>5 DEF FramesInv
<1>11. ChainInv'
  <2>1. wire # <<>> /\ wire[Len(wire)].state = "whole" /\ wire[Len(wire)].ctr = counter - 1
          => buf.lo = wire[Len(wire)].hi
    <3>1. wire # <<>> => Len(wire) \in 1..Len(wire) /\ wire[Len(wire)] \in Frame
      BY <1>1
    <3>2. wire # <<>> => wire[Len(wire)].lo # wire[Len(wire)].hi
      BY <1>4, <3>1 DEF IsEOF, Size, Frame
    <3> QED
      BY <1>1, <3>2 DEF IInv, ChainInv, Kept
  <2>2. \/ wire' = wire
        \/ \E g \in Frame : /\ wire' = Append(wire, g)
                            /\ g.ctr = counter /\ g.lo = buf.lo /\ g.hi = buf.lo
    BY <1>1, <1>2, <1>3, EmitFacts
  <2>3. CASE wire' = wire
    BY <1>1, <1>3, <1>5, <2>1, <2>3 DEF IInv, ChainInv, Repeats
  <2>4. ASSUME NEW g \in Frame, wire' = Append(wire, g),
               g.ctr = counter, g.lo = buf.lo, g.hi = buf.lo
        PROVE  ChainInv'
    <3> DEFINE n == Len(wire)
    <3>1. /\ n \in Nat /\ Len(wire') = n + 1 /\ wire'[n + 1] = g
          /\ \A i \in 1..n : wire'[i] = wire[i] /\ wire[i] \in Frame
      BY <1>1, <2>4, AppendFacts
    <3>2. IsEOF(g)
      BY <1>1, <2>4 DEF IsEOF, Size
    <3>3. /\ \A i \in 2..n : wire[i - 1].state = "whole" /\ wire[i].ctr = wire[i - 1].ctr + 1
                              => wire[i].lo = wire[i - 1].hi \/ Repeats(i)
          /\ n # 0 /\ wire[n].state = "whole" /\ wire[n].ctr = counter - 1
               => buf.lo = wire[n].hi
          /\ \A i \in 1..n : ~IsEOF(wire[i])
      BY <1>1, <1>4, <2>1 DEF IInv, ChainInv
    <3>4. ASSUME NEW i \in 2..n, Repeats(i)
          PROVE  Repeats(i)'
      <4>1. i \in 1..n /\ i - 1 \in 1..n
        BY <3>1
      <4>2. \A j \in (i + 1)..(n + 1) : IsEOF(wire'[j])
        <5> TAKE j \in (i + 1)..(n + 1)
        <5>1. j = n + 1 \/ (j \in 1..n /\ j \in (i + 1)..n)
          BY <3>1
        <5> QED
          BY <3>1, <3>2, <3>4, <5>1 DEF Repeats, n
      <4> QED
        BY <1>3, <3>1, <3>4, <4>1, <4>2 DEF Repeats
    <3> HIDE DEF n
    <3>5. ASSUME NEW i \in 2..(n + 1), wire'[i - 1].state = "whole",
                 wire'[i].ctr = wire'[i - 1].ctr + 1
          PROVE  wire'[i].lo = wire'[i - 1].hi \/ Repeats(i)'
      <4>1. CASE i = n + 1
        <5>1. i - 1 = n /\ n \in 1..n /\ wire'[i] = g /\ wire'[i - 1] = wire[n]
          BY <3>1, <4>1
        <5>2. wire[n].ctr \in Nat /\ wire[n].ctr = counter - 1
          BY <1>1, <2>4, <3>1, <3>5, <5>1 DEF Frame
        <5> QED
          BY <2>4, <3>1, <3>3, <3>5, <5>1, <5>2
      <4>2. CASE i # n + 1
        <5>1. i \in 2..n /\ i \in 1..n /\ i - 1 \in 1..n
          BY <3>1, <4>2
        <5> QED
          BY <3>1, <3>3, <3>4, <3>5, <5>1
      <4> QED
        BY <4>1, <4>2
    <3> QED
      BY <1>1, <1>3, <1>5, <2>4, <3>1, <3>5 DEF ChainInv
  <2> QED
    BY <2>2, <2>3, <2>4
<1>12. CleanInv'
  <2>1. ~closeOK
    BY <1>1 DEF IInv, CleanInv
  <2>2. ASSUME ~failed'
        PROVE  /\ Len(wire') = Len(nonces')
               /\ \A i \in 1..Len(wire') : wire'[i].state = "whole" /\ wire'[i].ctr = i - 1
               /\ wire' # <<>> /\ IsEOF(wire'[Len(wire')])
    <3>1. ~failed /\ o = "ok" /\ wire' = Append(wire, f)
      BY <1>3, <1>5, <2>2
    <3>2. /\ Len(wire) = counter
          /\ \A i \in 1..Len(wire) : wire[i].state = "whole" /\ wire[i].ctr = i - 1
      BY <1>4, <3>1 DEF IInv, CleanInv
    <3>3. /\ Len(wire') = counter + 1 /\ wire'[counter + 1] = f
          /\ \A i \in 1..counter : wire'[i] = wire[i]
      BY <1>1, <1>2, <3>1, <3>2, AppendFacts
    <3>4. ASSUME NEW i \in 1..Len(wire')
          PROVE  wire'[i].state = "whole" /\ wire'[i].ctr = i - 1
      <4>1. i = counter + 1 \/ i \in 1..counter
        BY <1>1, <3>3
      <4> QED
        BY <1>1, <1>2, <3>2, <3>3, <4>1
    <3>5. wire' # <<>>
      BY <1>1, <1>5, <3>3
    <3> QED
      BY <1>2, <1>5, <3>3, <3>4, <3>5
  <2> QED
    BY <1>1, <1>3, <2>1, <2>2 DEF CleanInv
<1> QED
  BY <1>5, <1>6, <1>7, <1>8, <1>9, <1>10, <1>11, <1>12 DEF IInv

\* The bytes Write appends lengthen the buffer, never past a chunk.
LEMMA AppendedFacts ==
  ASSUME IInv, todo > 0
  PROVE  /\ Appended \in Run /\ Appended.lo = buf.lo
         /\ buf.hi <= Appended.hi /\ Appended.hi - buf.hi <= todo
         /\ Size(Appended) <= ChunkSize
<1>1. /\ buf \in Run /\ todo \in Nat /\ buf.lo <= buf.hi
      /\ buf.hi - buf.lo <= ChunkSize
  BY DEF IInv, TypeOK, BufferInv, Size
<1> QED
  BY <1>1, WriterAssumption DEF Appended, Run, Size

\* Every step of every call keeps the invariant.
LEMMA StepIInv == IInv /\ [Next]_vars => IInv'
<1> SUFFICES ASSUME IInv, [Next]_vars PROVE IInv'
  OBVIOUS
<1> USE DEF writerVars, histVars
<1>1. TypeOK /\ CallInv /\ Size(buf) <= ChunkSize
  BY DEF IInv, BufferInv
<1>2. closeOK => closed /\ call = "idle"
  BY DEF IInv, CleanInv
<1>3. ASSUME NEW n \in 0..MaxInput, Write(n)
      PROVE  IInv'
  <2>1. TypeOK' /\ CallInv'
    BY <1>1, <1>3, WriterAssumption DEF Write, Usable, TypeOK, CallInv
  <2> QED
    BY <1>1, <1>2, <1>3, <2>1, QuietStep DEF Write, Usable
<1>4. CASE ReadFrom
  <2>1. TypeOK' /\ CallInv'
    BY <1>1, <1>4 DEF ReadFrom, Usable, TypeOK, CallInv, SourceSays
  <2> QED
    BY <1>1, <1>2, <1>4, <2>1, QuietStep DEF ReadFrom, Usable
<1>5. CASE Close
  <2>1. TypeOK' /\ CallInv'
    BY <1>1, <1>5 DEF Close, TypeOK, CallInv
  <2> QED
    BY <1>1, <1>2, <1>5, <2>1, QuietStep DEF Close
<1>6. CASE CloseAgain
  <2>1. TypeOK' /\ CallInv'
    BY <1>1, <1>6 DEF CloseAgain, TypeOK, CallInv
  <2> QED
    BY <1>1, <1>2, <1>6, <2>1, QuietStep DEF CloseAgain
<1>7. CASE WriteAppend
  <2>1. /\ Appended \in Run /\ Appended.lo = buf.lo
        /\ buf.hi <= Appended.hi /\ Appended.hi - buf.hi <= todo
        /\ Size(Appended) <= ChunkSize
    BY <1>7, AppendedFacts DEF WriteAppend
  <2>2. todo' \in Nat /\ buf'.lo <= buf'.hi
    BY <1>1, <1>7, <2>1 DEF WriteAppend, TypeOK, Run
  <2>3. TypeOK' /\ CallInv'
    BY <1>1, <1>7, <2>1, <2>2, Zenon DEF WriteAppend, TypeOK, CallInv
  <2>4. ~closed /\ ~writeErr
    BY <1>1, <1>7 DEF WriteAppend, CallInv
  <2> QED
    BY <1>1, <1>2, <1>7, <2>1, <2>3, <2>4, QuietStep DEF WriteAppend
<1>8. ASSUME NEW o \in Outcomes, WriteFlush(o)
      PROVE  IInv'
  <2>1. /\ Appended \in Run /\ Appended.lo = buf.lo
        /\ buf.hi <= Appended.hi /\ Appended.hi - buf.hi <= todo
        /\ Size(Appended) <= ChunkSize /\ Size(Appended) >= ChunkSize
    BY <1>8, AppendedFacts DEF WriteFlush, ChunkFull
  <2>2. Appended.lo < Appended.hi
    BY <2>1, WriterAssumption DEF Run, Size
  <2>3. TypeOK'
    <3>1. wire' \in Seq(Frame) /\ nonces' \in Seq(Nat) /\ counter' \in Nat
      BY <1>1, <1>8, <2>1, FlushTypes DEF WriteFlush
    <3>2. buf' \in Run /\ buf'.lo <= buf'.hi
      BY <1>8, <2>1, <2>2 DEF WriteFlush, Flush, Run
    <3>3. todo' \in Nat
      BY <1>1, <1>8, <2>1 DEF WriteFlush, TypeOK, Run
    <3>4. /\ closed' \in BOOLEAN /\ closeOK' \in BOOLEAN /\ src' \in SourceSays
          /\ call' \in {"idle", "write", "readFrom", "close"}
          /\ writeErr' \in BOOLEAN /\ failed' \in BOOLEAN
      BY <1>1, <1>8, Zenon DEF WriteFlush, TypeOK
    <3> QED
      BY <3>1, <3>2, <3>3, <3>4, Zenon DEF TypeOK
  <2>4. failed' = (failed \/ o # "ok")
    BY <1>1, <1>8 DEF WriteFlush, TypeOK
  <2> QED
    BY <1>1, <1>8, <2>1, <2>2, <2>3, <2>4, FlushStep DEF WriteFlush, CallInv, TypeOK
<1>9. CASE WriteReturn
  <2>1. TypeOK' /\ CallInv'
    BY <1>1, <1>9 DEF WriteReturn, TypeOK, CallInv
  <2> QED
    BY <1>1, <1>2, <1>9, <2>1, QuietStep DEF WriteReturn, CallInv
<1>10. ASSUME NEW nn \in 0..ChunkSize, NEW status \in SourceSays \ {"none"},
              ReadPiece(nn, status)
       PROVE  IInv'
  <2>1. TypeOK' /\ CallInv'
    BY <1>1, <1>10, WriterAssumption DEF ReadPiece, TypeOK, CallInv
  <2> QED
    BY <1>1, <1>2, <1>10, <2>1, QuietStep DEF ReadPiece
<1>11. CASE ReadFromReturn
  <2>1. TypeOK' /\ CallInv'
    BY <1>1, <1>11, Zenon DEF ReadFromReturn, TypeOK, CallInv
  <2> QED
    BY <1>1, <1>2, <1>11, <2>1, QuietStep DEF ReadFromReturn, CallInv
<1>12. ASSUME NEW o \in Outcomes, CloseFlush(o)
       PROVE  IInv'
  <2>1. buf \in Run /\ buf.lo < buf.hi
    BY <1>1, <1>12 DEF CloseFlush, TypeOK, Run, Size
  <2>2. TypeOK'
    <3>1. wire' \in Seq(Frame) /\ nonces' \in Seq(Nat) /\ counter' \in Nat
      BY <1>1, <1>12, <2>1, FlushTypes DEF CloseFlush
    <3>2. buf' \in Run /\ buf'.lo <= buf'.hi
      BY <1>12, <2>1 DEF CloseFlush, Flush, Run
    <3>3. /\ closed' \in BOOLEAN /\ closeOK' \in BOOLEAN /\ src' \in SourceSays
          /\ call' \in {"idle", "write", "readFrom", "close"}
          /\ writeErr' \in BOOLEAN /\ failed' \in BOOLEAN /\ todo' \in Nat
      BY <1>1, <1>12, Zenon DEF CloseFlush, TypeOK
    <3> QED
      BY <3>1, <3>2, <3>3, Zenon DEF TypeOK
  <2>3. closed /\ call # "idle"
    BY <1>1, <1>12 DEF CloseFlush, CallInv
  <2> QED
    BY <1>1, <1>12, <2>1, <2>2, <2>3, FlushStep DEF CloseFlush
<1>13. ASSUME NEW o \in Outcomes, CloseEOF(o)
       PROVE  IInv'
  BY <1>13, EOFStep
<1>14. CASE UNCHANGED vars
  <2>1. TypeOK' /\ CallInv'
    BY <1>1, <1>14 DEF vars, TypeOK, CallInv
  <2> QED
    BY <1>1, <1>2, <1>14, <2>1, QuietStep DEF vars
<1> QED
  BY <1>3, <1>4, <1>5, <1>6, <1>7, <1>8, <1>9, <1>10, <1>11, <1>12, <1>13, <1>14
     DEF Next, Begin, Continue

\* The invariant holds of every writer, whatever is called and whichever writes fail.
THEOREM Invariance == Spec => []IInv
<1> QED
  BY InitIInv, StepIInv, PTL DEF Spec

\* README.md:114: one random prefix and a counter, "no reuse": no counter value seals twice.
THEOREM NonceUsedOnceHolds == Spec => []NonceUsedOnce
<1>1. IInv => NonceUsedOnce
  <2> SUFFICES ASSUME IInv, NEW i \in DOMAIN nonces, NEW j \in DOMAIN nonces, i # j
               PROVE  nonces[i] # nonces[j]
    BY DEF NonceUsedOnce
  <2>1. nonces \in Seq(Nat)
    BY DEF IInv, TypeOK
  <2>2. i \in 1..Len(nonces) /\ j \in 1..Len(nonces)
    BY <2>1
  <2> QED
    BY <2>2 DEF IInv, NoncesInv
<1> QED
  BY <1>1, Invariance, PTL
\* Every field of the writer keeps its type.
THEOREM TypeCorrect == Spec => []TypeOK
<1>1. IInv => TypeOK
  BY DEF IInv
<1> QED
  BY <1>1, Invariance, PTL

\* writer.go:73-115: whatever writes to the sink fail, and however often Close seals
\* the same chunk again, what a reader opens is the input in order.
THEOREM OpenedIsInOrderHolds == Spec => []OpenedIsInOrder
<1>1. IInv => OpenedIsInOrder
  <2> SUFFICES ASSUME IInv, NEW k \in 1..Len(wire), Opens(wire, k)
               PROVE  /\ k = 1 => wire[k].lo = 0
                      /\ k > 1 => wire[k].lo = wire[k - 1].hi \/ Repeats(k)
                      /\ k < Len(wire) => ~IsEOF(wire[k])
    BY DEF OpenedIsInOrder
  <2>1. wire \in Seq(Frame) /\ Len(wire) \in Nat
    BY DEF IInv, TypeOK
  <2>2. k < Len(wire) => ~IsEOF(wire[k])
    BY <2>1 DEF IInv, FramesInv
  <2>3. CASE k = 1
    BY <2>1, <2>2, <2>3 DEF IInv, ChainInv, Opens
  <2>4. CASE k # 1
    <3>1. /\ k \in 2..Len(wire) /\ wire[k].ctr = k - 1
          /\ wire[k - 1].ctr = k - 2 /\ wire[k - 1].state = "whole"
      BY <2>1, <2>4 DEF Opens
    <3>2. wire[k].ctr = wire[k - 1].ctr + 1
      BY <3>1
    <3> QED
      BY <2>2, <2>4, <3>1, <3>2 DEF IInv, ChainInv
  <2> QED
    BY <2>3, <2>4
<1> QED
  BY <1>1, Invariance, PTL

\* A wire that opens to EOF holds every byte the writer accepted: a stream with a
\* lost chunk never reads as complete.
THEOREM EOFIsCompleteHolds == Spec => []EOFIsComplete
<1>1. IInv => EOFIsComplete
  <2> SUFFICES ASSUME IInv, OpensToEOF(wire), NEW x \in 1..buf.hi
               PROVE  Carries(Len(wire), x)
    BY DEF EOFIsComplete
  <2>1. wire \in Seq(Frame) /\ Len(wire) \in Nat
    BY DEF IInv, TypeOK
  <2>2. Len(wire) \in 1..Len(wire) /\ Opens(wire, Len(wire)) /\ IsEOF(wire[Len(wire)])
    BY <2>1 DEF OpensToEOF
  <2>3. wire[Len(wire)] \in Frame
    BY <2>1, <2>2
  <2>4. wire[Len(wire)].hi = buf.hi
    BY <2>2, <2>3 DEF IInv, FramesInv, IsEOF, Size, Frame
  <2> QED
    BY <2>2, <2>4 DEF IInv, CarriesInv
<1> QED
  BY <1>1, Invariance, PTL

\* A wire none of whose writes failed and that has its marker is a complete stream.
LEMMA CleanWireIsComplete ==
  ASSUME IInv, ~failed, closed, call = "idle"
  PROVE  CompleteStream(wire) /\ wire[Len(wire)].hi = buf.hi
<1>1. wire \in Seq(Frame) /\ Len(wire) \in Nat
  BY DEF IInv, TypeOK
<1>2. /\ \A i \in 1..Len(wire) : wire[i].state = "whole" /\ wire[i].ctr = i - 1
      /\ wire # <<>> /\ IsEOF(wire[Len(wire)])
  BY DEF IInv, CleanInv
<1>3. OpensToEOF(wire)
  BY <1>1, <1>2 DEF OpensToEOF, Opens
<1>4. /\ \A i \in 1..Len(wire) :
            /\ wire[i].lo <= wire[i].hi
            /\ IsEOF(wire[i]) => i = Len(wire) /\ wire[i].lo = buf.hi
  BY DEF IInv, FramesInv
<1>5. \A i \in 1..Len(wire) : wire[i].lo = (IF i = 1 THEN 0 ELSE wire[i - 1].hi)
  <2> TAKE i \in 1..Len(wire)
  <2>1. CASE i = 1
    BY <1>2, <2>1 DEF IInv, ChainInv
  <2>2. CASE i # 1
    <3>1. i \in 2..Len(wire) /\ i - 1 \in 1..Len(wire)
      BY <1>1, <2>2
    <3>2. wire[i - 1].state = "whole" /\ wire[i].ctr = wire[i - 1].ctr + 1
      BY <1>1, <1>2, <3>1
    <3> QED
      BY <2>2, <3>1, <3>2 DEF IInv, ChainInv, Repeats
  <2> QED
    BY <2>1, <2>2
<1>6. Len(wire) \in 1..Len(wire) /\ wire[Len(wire)] \in Frame
  BY <1>1, <1>2
<1>7. wire[Len(wire)].hi = buf.hi
  BY <1>2, <1>4, <1>6 DEF IsEOF, Size, Frame
<1> QED
  BY <1>3, <1>4, <1>5, <1>7 DEF CompleteStream

\* A nil Close without an earlier failure leaves a stream that opens to EOF and
\* carries the whole input, once and in order.
THEOREM CleanCloseOpensHolds == Spec => []CleanCloseOpens
<1>1. IInv => CleanCloseOpens
  BY CleanWireIsComplete DEF IInv, CleanInv, CleanCloseOpens
<1> QED
  BY <1>1, Invariance, PTL

\* No frame exceeds the chunk size of the header.
THEOREM FramesFitChunkHolds == Spec => []FramesFitChunk
<1>1. IInv => FramesFitChunk
  <2> SUFFICES ASSUME IInv, NEW i \in DOMAIN wire
               PROVE  Size(wire[i]) <= ChunkSize
    BY DEF FramesFitChunk
  <2>1. wire \in Seq(Frame)
    BY DEF IInv, TypeOK
  <2>2. i \in 1..Len(wire)
    BY <2>1
  <2> QED
    BY <2>2 DEF IInv, FramesInv
<1> QED
  BY <1>1, Invariance, PTL
-----------------------------------------------------------------------------
(* Progress.                                                                *)

\* While a call can still take bytes there is room for one in the buffer.
LEMMA SpaceStep == IInv /\ SpaceInv /\ [Next]_vars => SpaceInv'
<1> SUFFICES ASSUME IInv, SpaceInv, [Next]_vars, ~writeErr', ~closed'
             PROVE  Size(buf') < ChunkSize
  BY DEF SpaceInv
<1>1. TypeOK /\ CallInv
  BY DEF IInv
<1>2. CASE UNCHANGED <<buf, closed, writeErr>>
  BY <1>2 DEF SpaceInv
<1>3. CASE WriteAppend
  BY <1>3, AppendedFacts, WriterAssumption DEF WriteAppend, ChunkFull, Size, Run
<1>4. ASSUME NEW o \in Outcomes, WriteFlush(o)
      PROVE  Size(buf') < ChunkSize
  <2>1. o = "ok" /\ Appended \in Run
    BY <1>4, AppendedFacts DEF WriteFlush
  <2> QED
    BY <1>4, <2>1, WriterAssumption DEF WriteFlush, Flush, Size, Run
<1>5. ASSUME NEW o \in Outcomes, CloseFlush(o) \/ CloseEOF(o)
      PROVE  FALSE
  BY <1>1, <1>5 DEF CloseFlush, CloseEOF, CallInv
<1>6. Begin => closed' \/ UNCHANGED <<buf, closed, writeErr>>
  BY DEF Begin, Write, ReadFrom, Close, CloseAgain, writerVars
<1>7. /\ WriteReturn => UNCHANGED <<buf, closed, writeErr>>
      /\ ReadFromReturn => UNCHANGED <<buf, closed, writeErr>>
      /\ \A nn \in 0..ChunkSize, status \in SourceSays \ {"none"} :
           ReadPiece(nn, status) => UNCHANGED <<buf, closed, writeErr>>
      /\ UNCHANGED vars => UNCHANGED <<buf, closed, writeErr>>
  BY DEF WriteReturn, ReadFromReturn, ReadPiece, vars, writerVars
<1> QED
  BY <1>2, <1>3, <1>4, <1>5, <1>6, <1>7 DEF Next, Continue

\* What a call that has returned took of p and of its source.
LEMMA SourceStep == SourceInv /\ [Next]_vars => SourceInv'
<1> SUFFICES ASSUME SourceInv, [Next]_vars
             PROVE  SourceInv'
  OBVIOUS
<1>1. CASE UNCHANGED vars
  BY <1>1 DEF SourceInv, vars, writerVars, histVars
<1>2. CASE Begin
  <2>1. \/ call' # "readFrom" /\ (call' = "write" \/ todo' = todo) /\ call' # "close" /\ UNCHANGED src
        \/ call' = "close" /\ todo' = todo /\ UNCHANGED src
        \/ call' = "readFrom" /\ src' = "more"
    BY <1>2 DEF Begin, Write, ReadFrom, Close, CloseAgain, Usable, writerVars
  <2>2. call = "idle" /\ failed' = failed
    BY <1>2 DEF Begin, Write, ReadFrom, Close, CloseAgain, Usable, histVars
  <2> QED
    BY <2>1, <2>2 DEF SourceInv
<1>3. CASE WriteAppend
  BY <1>3 DEF WriteAppend, SourceInv, histVars
<1>4. ASSUME NEW o \in Outcomes, WriteFlush(o)
      PROVE  SourceInv'
  BY <1>4 DEF WriteFlush, SourceInv
<1>5. CASE WriteReturn
  BY <1>5 DEF WriteReturn, SourceInv, histVars
<1>6. ASSUME NEW nn \in 0..ChunkSize, NEW status \in SourceSays \ {"none"}, ReadPiece(nn, status)
      PROVE  SourceInv'
  BY <1>6 DEF ReadPiece, SourceInv, histVars
<1>7. CASE ReadFromReturn
  BY <1>7 DEF ReadFromReturn, SourceInv
<1>8. ASSUME NEW o \in Outcomes, CloseFlush(o) \/ CloseEOF(o)
      PROVE  SourceInv'
  <2>1. call = "close" /\ call' \in {"close", "idle"} /\ UNCHANGED <<todo, src>>
        /\ (failed => failed')
    BY <1>8 DEF CloseFlush, CloseEOF
  <2> QED
    BY <2>1 DEF SourceInv
<1> QED
  BY <1>1, <1>2, <1>3, <1>4, <1>5, <1>6, <1>7, <1>8 DEF Next, Continue

\* Write never turns its loop without taking a byte of p (writer.go:57-70), and Close
\* flushes at most once before the marker: with the steps of both always possible, this
\* is why CallsReturn holds.
THEOREM CallsAdvanceHolds == Spec => CallsAdvance
<1>1. Init => SpaceInv
  BY WriterAssumption DEF Init, SpaceInv, Size
<1>2. ASSUME IInv, SpaceInv, [Next]_vars
      PROVE  [/\ call = "write" /\ call' = "write" => todo' < todo
              /\ call = "close" /\ call' = "close" => Size(buf') < Size(buf)]_vars
  <2>1. TypeOK /\ CallInv
    BY <1>2 DEF IInv
  <2>2. CASE UNCHANGED vars
    BY <2>2
  <2>3. ASSUME Next, call = "write", call' = "write"
        PROVE  todo' < todo
    <3>1. ASSUME todo > 0
          PROVE  Appended.hi > buf.hi /\ Appended.hi \in Nat /\ buf.hi \in Nat
      <4>1. /\ buf \in Run /\ todo \in Nat /\ ~closed /\ ~writeErr
            /\ buf.hi - buf.lo < ChunkSize
        BY <1>2, <2>1, <2>3 DEF TypeOK, CallInv, SpaceInv, Size
      <4> QED
        BY <3>1, <4>1, WriterAssumption DEF Appended, Run, Size
    <3>2. WriteAppend \/ \E o \in Outcomes : WriteFlush(o)
      BY <2>3 DEF Next, Begin, Continue, Write, ReadFrom, Close, CloseAgain, Usable,
                  WriteReturn, ReadPiece, ReadFromReturn, CloseFlush, CloseEOF
    <3>3. todo \in Nat /\ todo > 0 /\ todo' = todo - (Appended.hi - buf.hi)
      BY <2>1, <2>3, <3>2 DEF WriteAppend, WriteFlush, TypeOK
    <3> QED
      BY <3>1, <3>3
  <2>4. ASSUME Next, call = "close", call' = "close"
        PROVE  Size(buf') < Size(buf)
    <3>1. PICK o \in Outcomes : CloseFlush(o)
      BY <2>4 DEF Next, Begin, Continue, Write, ReadFrom, Close, CloseAgain, Usable,
                  WriteAppend, WriteFlush, WriteReturn, ReadPiece, ReadFromReturn, CloseEOF
    <3>2. Size(buf) > 0 /\ o = "ok" /\ buf' = [lo |-> buf.hi, hi |-> buf.hi]
      BY <2>4, <3>1 DEF CloseFlush, Flush
    <3>3. buf.hi \in Nat
      BY <2>1 DEF TypeOK, Run
    <3> QED
      BY <3>2, <3>3 DEF Size
  <2> QED
    BY <1>2, <2>2, <2>3, <2>4
<1> QED
  BY <1>1, <1>2, SpaceStep, Invariance, PTL DEF Spec, CallsAdvance
============================================================================
