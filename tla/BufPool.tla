------------------------------- MODULE BufPool -------------------------------
(***************************************************************************)
(* Who holds which buffer: stream/pool.go and every Get, Put and append     *)
(* that stream/writer.go and stream/reader.go make around it, for writers   *)
(* and readers used by different goroutines.                                *)
(*                                                                         *)
(* The pool holds pointers to slice headers, not arrays.  A pointer from    *)
(* New, or from `bufToReturn', owns a header nobody writes again:           *)
(* <<"own", a>> is such a pointer to array a.  A pointer &dr.sealedBuf is   *)
(* into the reader: <<"field", r>> means whatever sealedBuf is at the time. *)
(* Lengths are in units of which a full default chunk has PoolCap; sealing  *)
(* adds one.                                                                *)
(***************************************************************************)
EXTENDS Integers, FiniteSets

CONSTANTS
  Writers, Readers,
  Arrays,            \* bound: the arrays alive at one time
  CapOf,             \* the capacity of each
  Nil,               \* the array of a nil slice
  PoolCap,           \* capacity of a buffer that New makes
  WriterChunks,      \* chunk sizes given to NewEncryptWriterWithRecipients
  ReaderChunks,      \* lengths of the chunks that readers meet
  RetryReads,        \* whether a Read that failed is followed by another one
  CloseFailedReads   \* whether a reader whose Read failed is closed

ASSUME PoolAssumption ==
  /\ CapOf \in [Arrays -> Nat \ {0}]
  /\ Nil \notin Arrays
  /\ PoolCap \in Nat \ {0}
  /\ WriterChunks \subseteq Nat \ {0}
  /\ ReaderChunks \subseteq Nat \ {0}
  /\ RetryReads \in BOOLEAN /\ CloseFailedReads \in BOOLEAN

Ptrs == ({"own"} \X Arrays) \cup ({"field"} \X Readers)
NoPtr == <<"none", Nil>>

VARIABLES
  pool,      \* how often each pointer is in the pool
  dirty,     \* arrays that hold plaintext
  wState,    \* of each writer
  wChunk,    \* ew.chunkSz
  wPtr,      \* ew.bufPtr
  wBuf,      \* the array of ew.buf
  wLen,      \* len(ew.buf)
  srcPtr,    \* bufPtr of the ReadFrom in progress
  srcBuf,    \* the array of its buf
  rState,    \* of each reader
  field,     \* the array of dr.sealedBuf
  toPtr,     \* bufPtr of the WriteTo in progress
  toBuf,     \* the array of its sealedBuf
  panicked   \* history: the slice expression in ReadFrom has panicked

poolVars == <<pool, dirty>>
writerVars == <<wState, wChunk, wPtr, wBuf, wLen, srcPtr, srcBuf>>
readerVars == <<rState, field, toPtr, toBuf>>
vars == <<poolVars, writerVars, readerVars, panicked>>

Init ==
  /\ pool = [p \in Ptrs |-> 0]
  /\ dirty = {}
  /\ wState = [w \in Writers |-> "none"]
  /\ wChunk = [w \in Writers |-> 0]
  /\ wPtr = [w \in Writers |-> NoPtr]
  /\ wBuf = [w \in Writers |-> Nil]
  /\ wLen = [w \in Writers |-> 0]
  /\ srcPtr = [w \in Writers |-> NoPtr]
  /\ srcBuf = [w \in Writers |-> Nil]
  /\ rState = [r \in Readers |-> "none"]
  /\ field = [r \in Readers |-> Nil]
  /\ toPtr = [r \in Readers |-> NoPtr]
  /\ toBuf = [r \in Readers |-> Nil]
  /\ panicked = FALSE
-----------------------------------------------------------------------------
\* The array a pointer leads to now, and a slice's capacity.
Target(p) == CASE p[1] = "own"   -> p[2]
               [] p[1] = "field" -> field[p[2]]
               [] OTHER          -> Nil

Cap(a) == IF a = Nil THEN 0 ELSE CapOf[a]

Pooled == {p \in Ptrs : pool[p] > 0}

\* The pointers in the pool and in local variables and fields.
Pointers ==
  Pooled \cup {wPtr[w] : w \in Writers} \cup {srcPtr[w] : w \in Writers}
    \cup {toPtr[r] : r \in Readers}

\* The arrays the code can still reach, and those a new buffer may take.
Held ==
  {wBuf[w] : w \in Writers} \cup {srcBuf[w] : w \in Writers}
    \cup {field[r] : r \in Readers} \cup {toBuf[r] : r \in Readers}
    \cup {Target(p) : p \in Pointers}

Fresh == Arrays \ Held

Put(pl, p)  == [pl EXCEPT ![p] = @ + 1]
Take(pl, p) == [pl EXCEPT ![p] = @ - 1]

\* make([]byte, n)
Make(n) == {a \in Fresh : CapOf[a] = n}

\* BufPool.Get(): any pooled pointer, or a new one; ptr is what it returns and pool
\* what it leaves.
Gets(pl) ==
  {[ptr |-> p, pool |-> Take(pl, p)] : p \in {q \in Ptrs : pl[q] > 0}}
    \cup {[ptr |-> <<"own", a>>, pool |-> pl] : a \in Make(PoolCap)}
-----------------------------------------------------------------------------
(* EncryptWriter                                                            *)

NewWriter(w, chunk) ==
  /\ wState[w] = "none"
  /\ \E g \in Gets(pool) :
       /\ pool' = g.pool
       /\ wPtr' = [wPtr EXCEPT ![w] = g.ptr]
       /\ wBuf' = [wBuf EXCEPT ![w] = Target(g.ptr)]
  /\ wChunk' = [wChunk EXCEPT ![w] = chunk]
  /\ wLen' = [wLen EXCEPT ![w] = 0]
  /\ wState' = [wState EXCEPT ![w] = "open"]
  /\ UNCHANGED <<dirty, srcPtr, srcBuf, readerVars, panicked>>

\* Mutant of WriterAppend: the space left is not taken into account.
WriterAppendPast(w, n) ==
  /\ wState[w] \in {"open", "readFrom"}
  /\ wLen[w] < n
  /\ wLen' = [wLen EXCEPT ![w] = wLen[w] + n]
  /\ dirty' = dirty \cup {wBuf[w]}
  /\ UNCHANGED <<pool, wState, wChunk, wPtr, wBuf, srcPtr, srcBuf, readerVars, panicked>>

\* append(ew.buf, ...) up to length n: past the capacity the content moves to a new
\* array, and the old one keeps its copy, for whoever still reaches it by bufPtr.
WriterAppend(w, n) ==
  /\ wState[w] \in {"open", "readFrom"}
  /\ wLen[w] < n /\ n <= wChunk[w]
  /\ wLen' = [wLen EXCEPT ![w] = n]
  /\ \/ /\ n <= Cap(wBuf[w])
        /\ dirty' = dirty \cup {wBuf[w]}
        /\ UNCHANGED wBuf
     \/ /\ n > Cap(wBuf[w])
        /\ \E a \in Fresh :
             /\ n <= CapOf[a]
             /\ wBuf' = [wBuf EXCEPT ![w] = a]
             /\ dirty' = (dirty \ ({wBuf[w]} \ {Target(wPtr[w])})) \cup {a}
  /\ UNCHANGED <<pool, wState, wChunk, wPtr, srcPtr, srcBuf, readerVars, panicked>>

\* flush() of a full buffer, stored by the sink: ew.buf is wiped and emptied.
Flush(w) ==
  /\ wState[w] \in {"open", "readFrom"}
  /\ wLen[w] = wChunk[w]
  /\ wLen' = [wLen EXCEPT ![w] = 0]
  /\ dirty' = dirty \ {wBuf[w]}
  /\ UNCHANGED <<pool, wState, wChunk, wPtr, wBuf, srcPtr, srcBuf, readerVars, panicked>>

\* The sink fails: the buffer stays as it is, and only Close may follow.
FlushFails(w) ==
  /\ wState[w] = "open"
  /\ wLen[w] = wChunk[w]
  /\ wState' = [wState EXCEPT ![w] = "failed"]
  /\ UNCHANGED <<poolVars, wChunk, wPtr, wBuf, wLen, srcPtr, srcBuf, readerVars, panicked>>

\* The references of a writer that is not used again; what an array nobody can reach
\* holds is forgotten with it.
Forget(w) ==
  /\ wState' = [wState EXCEPT ![w] = "none"]
  /\ wPtr' = [wPtr EXCEPT ![w] = NoPtr]
  /\ wBuf' = [wBuf EXCEPT ![w] = Nil]
  /\ wLen' = [wLen EXCEPT ![w] = 0]
  /\ UNCHANGED wChunk

CloseWriter(w) ==
  /\ \/ wState[w] = "open" /\ wLen[w] < wChunk[w]
     \/ wState[w] = "failed"
  /\ dirty' = dirty \ {wBuf[w]}
  /\ pool' = Put(pool, wPtr[w])
  /\ Forget(w)
  /\ UNCHANGED <<srcPtr, srcBuf, readerVars, panicked>>

\* A Close whose flush or marker fails returns before the Put: the buffer is dropped.
CloseWriterFails(w) ==
  /\ \/ wState[w] = "open" /\ wLen[w] < wChunk[w]
     \/ wState[w] = "failed"
  /\ dirty' = dirty \ {wBuf[w], Target(wPtr[w])}
  /\ Forget(w)
  /\ UNCHANGED <<pool, srcPtr, srcBuf, readerVars, panicked>>

\* ReadFrom: buf = (*bufPtr)[:chunkSz] panics on a smaller buffer, before the defer
\* that would return it.
ReadFrom(w) ==
  /\ wState[w] = "open"
  /\ \E g \in Gets(pool) :
       LET a == Target(g.ptr)
       IN  /\ pool' = g.pool
           /\ \/ /\ Cap(a) >= wChunk[w]
                 /\ srcPtr' = [srcPtr EXCEPT ![w] = g.ptr]
                 /\ srcBuf' = [srcBuf EXCEPT ![w] = a]
                 /\ wState' = [wState EXCEPT ![w] = "readFrom"]
                 /\ UNCHANGED panicked
              \/ /\ Cap(a) < wChunk[w]
                 /\ panicked' = TRUE
                 /\ UNCHANGED <<srcPtr, srcBuf, wState>>
  /\ UNCHANGED <<dirty, wChunk, wPtr, wBuf, wLen, readerVars>>

\* A piece of the source arrives in buf.
ReadPiece(w) ==
  /\ wState[w] = "readFrom"
  /\ dirty' = dirty \cup {srcBuf[w]}
  /\ UNCHANGED <<pool, writerVars, readerVars, panicked>>

\* Mutant of ReadFromReturn: the deferred wipe is missing.
ReadFromReturnUnwiped(w, to) ==
  /\ wState[w] = "readFrom"
  /\ to = "failed" <=> wLen[w] = wChunk[w]
  /\ UNCHANGED dirty
  /\ pool' = Put(pool, srcPtr[w])
  /\ srcPtr' = [srcPtr EXCEPT ![w] = NoPtr]
  /\ srcBuf' = [srcBuf EXCEPT ![w] = Nil]
  /\ wState' = [wState EXCEPT ![w] = to]
  /\ UNCHANGED <<wChunk, wPtr, wBuf, wLen, readerVars, panicked>>

\* The source is done or has failed, or the sink has (and the chunk is still there).
ReadFromReturn(w, to) ==
  /\ wState[w] = "readFrom"
  /\ to = "failed" <=> wLen[w] = wChunk[w]
  /\ dirty' = dirty \ {srcBuf[w]}
  /\ pool' = Put(pool, srcPtr[w])
  /\ srcPtr' = [srcPtr EXCEPT ![w] = NoPtr]
  /\ srcBuf' = [srcBuf EXCEPT ![w] = Nil]
  /\ wState' = [wState EXCEPT ![w] = to]
  /\ UNCHANGED <<wChunk, wPtr, wBuf, wLen, readerVars, panicked>>
-----------------------------------------------------------------------------
(* DecryptReader                                                            *)

\* Someone still has the address of dr.sealedBuf.
PointedAt(r) == <<"field", r>> \in Pointers

\* A new reader: an r that nothing points into any more.
NewReader(r) ==
  /\ rState[r] = "none"
  /\ ~PointedAt(r)
  /\ rState' = [rState EXCEPT ![r] = "open"]
  /\ UNCHANGED <<poolVars, writerVars, field, toPtr, toBuf, panicked>>

\* Read, for sealed bytes of length n: dr.sealedBuf is kept if it is large enough;
\* if not it is Put by its address, and a pooled or a made one takes its place.
Acquire(r, n) ==
  /\ rState[r] = "open"
  /\ rState' = [rState EXCEPT ![r] = "reading"]
  /\ \/ /\ Cap(field[r]) >= n
        /\ UNCHANGED <<pool, field>>
     \/ /\ Cap(field[r]) < n
        /\ \E g \in Gets(IF field[r] = Nil THEN pool ELSE Put(pool, <<"field", r>>)) :
             LET a == Target(g.ptr)
             IN  \/ /\ Cap(a) >= n
                    /\ field' = [field EXCEPT ![r] = a]
                    /\ pool' = g.pool
                 \/ /\ Cap(a) < n
                    /\ \E b \in Make(n) \ {a} : field' = [field EXCEPT ![r] = b]
                    /\ pool' = Put(g.pool, g.ptr)
  /\ UNCHANGED <<dirty, writerVars, toPtr, toBuf, panicked>>

\* Mutant of Finish: the field is cleared first and returned by its address.
FinishByAddress(r) ==
  /\ rState[r] = "reading"
  /\ pool' = Put(pool, <<"field", r>>)
  /\ field' = [field EXCEPT ![r] = Nil]
  /\ rState' = [rState EXCEPT ![r] = "open"]
  /\ UNCHANGED <<dirty, writerVars, toPtr, toBuf, panicked>>

\* Mutant of Finish: the buffer is returned and kept.
FinishKeeps(r) ==
  /\ rState[r] = "reading"
  /\ pool' = Put(pool, <<"own", field[r]>>)
  /\ rState' = [rState EXCEPT ![r] = "open"]
  /\ UNCHANGED <<dirty, writerVars, field, toPtr, toBuf, panicked>>

\* The chunk arrived, opened or not: the buffer goes back under a pointer of its own.
Finish(r) ==
  /\ rState[r] = "reading"
  /\ pool' = Put(pool, <<"own", field[r]>>)
  /\ field' = [field EXCEPT ![r] = Nil]
  /\ rState' = [rState EXCEPT ![r] = "open"]
  /\ UNCHANGED <<dirty, writerVars, toPtr, toBuf, panicked>>

\* The sealed bytes do not arrive in full: the buffer stays with the reader.
ReadFails(r) ==
  /\ rState[r] = "reading"
  /\ rState' = [rState EXCEPT ![r] = IF RetryReads THEN "open" ELSE "failed"]
  /\ UNCHANGED <<poolVars, writerVars, field, toPtr, toBuf, panicked>>

\* Close returns a buffer that a failed Read has left by its address, then clears it.
CloseReader(r) ==
  /\ \/ rState[r] = "open"
     \/ rState[r] = "failed" /\ CloseFailedReads
  /\ pool' = IF field[r] = Nil THEN pool ELSE Put(pool, <<"field", r>>)
  /\ field' = [field EXCEPT ![r] = Nil]
  /\ rState' = [rState EXCEPT ![r] = "none"]
  /\ UNCHANGED <<dirty, writerVars, toPtr, toBuf, panicked>>

\* A reader that is dropped without Close.
DropReader(r) ==
  /\ rState[r] \in {"open", "failed"}
  /\ field' = [field EXCEPT ![r] = Nil]
  /\ rState' = [rState EXCEPT ![r] = "none"]
  /\ ~PointedAt(r)
  /\ UNCHANGED <<poolVars, writerVars, toPtr, toBuf, panicked>>

WriteTo(r) ==
  /\ rState[r] = "open"
  /\ \E g \in Gets(pool) :
       /\ pool' = g.pool
       /\ toPtr' = [toPtr EXCEPT ![r] = g.ptr]
       /\ toBuf' = [toBuf EXCEPT ![r] = Target(g.ptr)]
  /\ rState' = [rState EXCEPT ![r] = "writeTo"]
  /\ UNCHANGED <<dirty, writerVars, field, panicked>>

\* A chunk that does not fit: sealedBuf becomes an array of its own, bufPtr is kept.
Grow(r, n) ==
  /\ rState[r] = "writeTo"
  /\ Cap(toBuf[r]) < n
  /\ \E b \in Make(n) : toBuf' = [toBuf EXCEPT ![r] = b]
  /\ UNCHANGED <<poolVars, writerVars, rState, field, toPtr, panicked>>

WriteToReturn(r) ==
  /\ rState[r] = "writeTo"
  /\ pool' = Put(pool, toPtr[r])
  /\ toPtr' = [toPtr EXCEPT ![r] = NoPtr]
  /\ toBuf' = [toBuf EXCEPT ![r] = Nil]
  /\ rState' = [rState EXCEPT ![r] = "open"]
  /\ UNCHANGED <<dirty, writerVars, field, panicked>>
-----------------------------------------------------------------------------
WriterStep(w) ==
  \/ \E chunk \in WriterChunks : NewWriter(w, chunk)
  \/ \E n \in {wChunk[w] - 1, wChunk[w]} : WriterAppend(w, n)
  \/ Flush(w) \/ FlushFails(w)
  \/ CloseWriter(w) \/ CloseWriterFails(w)
  \/ ReadFrom(w) \/ ReadPiece(w)
  \/ \E to \in {"open", "failed"} : ReadFromReturn(w, to)

ReaderStep(r) ==
  \/ NewReader(r)
  \/ \E n \in ReaderChunks : Acquire(r, n + 1) \/ Grow(r, n + 1)
  \/ Finish(r) \/ ReadFails(r) \/ CloseReader(r) \/ DropReader(r)
  \/ WriteTo(r) \/ WriteToReturn(r)

Next ==
  \/ \E w \in Writers : WriterStep(w)
  \/ \E r \in Readers : ReaderStep(r)

Spec == Init /\ [][Next]_vars
-----------------------------------------------------------------------------
States == {"none", "open", "readFrom", "failed"}

TypeOK ==
  /\ pool \in [Ptrs -> Nat]
  /\ dirty \subseteq Arrays
  /\ wState \in [Writers -> States]
  /\ \A w \in Writers :
       /\ wPtr[w] \in Ptrs \cup {NoPtr} /\ srcPtr[w] \in Ptrs \cup {NoPtr}
       /\ wBuf[w] \in Arrays \cup {Nil} /\ srcBuf[w] \in Arrays \cup {Nil}
       /\ wLen[w] \in 0..wChunk[w]
  /\ rState \in [Readers -> {"none", "open", "reading", "failed", "writeTo"}]
  /\ \A r \in Readers :
       /\ field[r] \in Arrays \cup {Nil} /\ toBuf[r] \in Arrays \cup {Nil}
       /\ toPtr[r] \in Ptrs \cup {NoPtr}
  /\ panicked \in BOOLEAN

\* The slices in use: each is one goroutine's to write.
InUse ==
  {<<"buf", w, wBuf[w]>> : w \in Writers} \cup {<<"src", w, srcBuf[w]>> : w \in Writers}
    \cup {<<"sealed", r, field[r]>> : r \in Readers} \cup {<<"to", r, toBuf[r]>> : r \in Readers}

\* No array is in two hands: not in two slices in use, not in use and in the pool,
\* not twice in the pool, where two later Gets would share it.
NoSharedBuffer ==
  /\ \A s, t \in InUse : s # t /\ s[3] = t[3] => s[3] = Nil
  /\ \A s \in InUse, p \in Pooled : s[3] = Target(p) => s[3] = Nil
  /\ \A p, q \in Pooled : p # q /\ Target(p) = Target(q) => Target(p) = Nil
  /\ \A p \in Pooled : pool[p] > 1 => Target(p) = Nil

\* pool.go:6: buffers are wiped by their user before they are returned.
PoolIsWiped == \A p \in Pooled : Target(p) \notin dirty

\* reader.go:111-113: the pool never holds a pointer to a nil slice.
PoolNeverNil == \A p \in Pooled : Target(p) # Nil

\* ReadFrom finds room for a chunk in what Get gives it.
ReadFromFits == ~panicked
=============================================================================
