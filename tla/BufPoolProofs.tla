---------------------------- MODULE BufPoolProofs ----------------------------
(***************************************************************************)
(* BufPool for any number of writers, readers and arrays, in three layers:  *)
(* types, whatever the callers do; ownership, as long as no Read that       *)
(* failed is followed by another; and the state of the buffers, for callers *)
(* like those of SealGo.go.  Each layer is inductive relative to the ones   *)
(* before it.                                                               *)
(***************************************************************************)
EXTENDS BufPool, TLAPS

Callers ==
  /\ WriterChunks \subseteq 1..PoolCap
  /\ RetryReads = FALSE /\ CloseFailedReads = FALSE

Own(a) == <<"own", a>>

\* The array that a pointer owns: it leads there whatever happens to the readers.
OwnOf(p) == IF p[1] = "own" THEN {p[2]} ELSE {}

\* What holds of pointers whoever calls.
WriterTypes(w) ==
  /\ wLen[w] <= wChunk[w]
  /\ IF wState[w] = "none"
     THEN wPtr[w] = NoPtr /\ wBuf[w] = Nil
     ELSE wPtr[w] \in Ptrs /\ wChunk[w] \in WriterChunks
  /\ IF wState[w] = "readFrom"
     THEN srcPtr[w] \in Ptrs /\ srcBuf[w] \in Arrays
     ELSE srcPtr[w] = NoPtr /\ srcBuf[w] = Nil

ReaderTypes(r) ==
  /\ rState[r] \in {"reading", "failed"} => field[r] \in Arrays
  /\ rState[r] = "none" => field[r] = Nil
  /\ IF rState[r] = "writeTo" THEN toPtr[r] \in Ptrs ELSE toPtr[r] = NoPtr /\ toBuf[r] = Nil

WriterVarTypes ==
  /\ wState \in [Writers -> States]
  /\ wPtr \in [Writers -> Ptrs \cup {NoPtr}] /\ srcPtr \in [Writers -> Ptrs \cup {NoPtr}]
  /\ wBuf \in [Writers -> Arrays \cup {Nil}] /\ srcBuf \in [Writers -> Arrays \cup {Nil}]
  /\ wChunk \in [Writers -> WriterChunks \cup {0}] /\ wLen \in [Writers -> Nat]

ReaderVarTypes ==
  /\ rState \in [Readers -> {"none", "open", "reading", "failed", "writeTo"}]
  /\ field \in [Readers -> Arrays \cup {Nil}] /\ toBuf \in [Readers -> Arrays \cup {Nil}]
  /\ toPtr \in [Readers -> Ptrs \cup {NoPtr}]

TypeInv ==
  /\ pool \in [Ptrs -> Nat] /\ dirty \subseteq Arrays /\ panicked \in BOOLEAN
  /\ WriterVarTypes /\ ReaderVarTypes
  /\ \A w \in Writers : WriterTypes(w)
  /\ \A r \in Readers : ReaderTypes(r)

\* No owning pointer is in the pool twice.
Once(pl) == \A a \in Arrays : pl[Own(a)] \in {0, 1}

InPool(pl) == {a \in Arrays : pl[Own(a)] > 0}

\* Who may hold an array: a writer or a reader, by a slice or a pointer, or the pool.
Holders ==
  ({"buf", "src"} \X Writers) \cup ({"field", "to"} \X Readers) \cup {<<"pool", Nil>>}

Holds(h) ==
  CASE h[1] = "buf"   -> OwnOf(wPtr[h[2]]) \cup ({wBuf[h[2]]} \ {Nil})
    [] h[1] = "src"   -> {srcBuf[h[2]]} \ {Nil}
    [] h[1] = "field" -> {field[h[2]]} \ {Nil}
    [] h[1] = "to"    -> OwnOf(toPtr[h[2]]) \cup ({toBuf[h[2]]} \ {Nil})
    [] OTHER          -> InPool(pool)

Exclusive == \A g, h \in Holders : g # h => Holds(g) \cap Holds(h) = {}

\* The address of a field is known only after the Close of its reader, and leads to nil.
PointInv == \A r \in Readers : PointedAt(r) => CloseFailedReads /\ rState[r] = "none"

ShareInv ==
  /\ Once(pool)
  /\ PointInv
  /\ \A w \in Writers : wState[w] = "readFrom" => srcPtr[w] = Own(srcBuf[w])
  /\ \A r \in Readers : rState[r] \in {"open", "writeTo"} => field[r] = Nil
  /\ Exclusive

Large(a) == a \in Arrays /\ CapOf[a] >= PoolCap

\* Plaintext is in the buffers of writers and nowhere else.
DirtyInv == \A a \in dirty : \E w \in Writers : a \in {wBuf[w], srcBuf[w]}

\* Buffers that come from the pool, and those that go to it, hold a chunk.
LargeInv ==
  /\ \A a \in InPool(pool) : Large(a)
  /\ \A w \in Writers :
       /\ wState[w] # "none" => Large(wBuf[w]) /\ wPtr[w] = Own(wBuf[w])
       /\ wState[w] = "readFrom" => Large(srcBuf[w])
  /\ \A r \in Readers :
       /\ rState[r] = "reading" => Large(field[r])
       /\ rState[r] = "writeTo" => \E a \in Arrays : Large(a) /\ toPtr[r] = Own(a)

FitInv == LargeInv /\ DirtyInv /\ panicked = FALSE
-----------------------------------------------------------------------------
(* Pointers and the pool                                                     *)

LEMMA Sizes ==
  /\ PoolCap \in Nat \ {0} /\ Nil \notin Arrays
  /\ CapOf \in [Arrays -> Nat \ {0}]
  /\ WriterChunks \subseteq Nat \ {0} /\ ReaderChunks \subseteq Nat \ {0}
BY PoolAssumption

LEMMA OwnFacts ==
  ASSUME NEW a
  PROVE  /\ Target(Own(a)) = a /\ OwnOf(Own(a)) = {a} /\ Own(a) # NoPtr
         /\ a \in Arrays => Own(a) \in Ptrs
         /\ \A b : b # a => Own(b) # Own(a)
BY DEF Target, Own, OwnOf, NoPtr, Ptrs

\* A pointer that owns no array is the address of a field.
LEMMA TwoKinds ==
  ASSUME NEW p \in Ptrs
  PROVE  \/ \E a \in Arrays : p = Own(a) /\ OwnOf(p) = {a} /\ Target(p) = a
         \/ \E r \in Readers : p = <<"field", r>> /\ OwnOf(p) = {} /\ Target(p) = field[r]
<1>1. CASE p \in {"own"} \X Arrays
  <2>1. PICK a \in Arrays : p = Own(a)
    BY <1>1 DEF Own
  <2> QED
    BY <2>1, OwnFacts
<1>2. CASE p \in {"field"} \X Readers
  <2>1. PICK r \in Readers : p = <<"field", r>>
    BY <1>2
  <2>2. OwnOf(p) = {} /\ Target(p) = field[r]
    BY <2>1 DEF OwnOf, Target
  <2> QED
    BY <2>1, <2>2
<1> QED
  BY <1>1, <1>2 DEF Ptrs

LEMMA NoPtrFacts == NoPtr \notin Ptrs /\ OwnOf(NoPtr) = {} /\ Target(NoPtr) = Nil
BY DEF NoPtr, Ptrs, OwnOf, Target

LEMMA PutFacts ==
  ASSUME NEW pl \in [Ptrs -> Nat], NEW p \in Ptrs
  PROVE  /\ Put(pl, p) \in [Ptrs -> Nat]
         /\ \A q \in Ptrs : Put(pl, p)[q] = IF q = p THEN pl[q] + 1 ELSE pl[q]
BY DEF Put

LEMMA TakeFacts ==
  ASSUME NEW pl \in [Ptrs -> Nat], NEW p \in Ptrs, pl[p] > 0
  PROVE  /\ Take(pl, p) \in [Ptrs -> Nat]
         /\ \A q \in Ptrs : Take(pl, p)[q] = IF q = p THEN pl[q] - 1 ELSE pl[q]
BY DEF Take

\* What Get returns, from any pool.
LEMMA GetFacts ==
  ASSUME NEW pl \in [Ptrs -> Nat], NEW g \in Gets(pl)
  PROVE  /\ g.ptr \in Ptrs /\ g.pool \in [Ptrs -> Nat]
         /\ \/ pl[g.ptr] > 0 /\ g.pool = Take(pl, g.ptr)
            \/ g.pool = pl /\ \E a \in Fresh : a \in Arrays /\ CapOf[a] = PoolCap /\ g.ptr = Own(a)
<1>1. CASE \E p \in {q \in Ptrs : pl[q] > 0} : g = [ptr |-> p, pool |-> Take(pl, p)]
  <2>1. PICK p \in Ptrs : pl[p] > 0 /\ g = [ptr |-> p, pool |-> Take(pl, p)]
    BY <1>1
  <2>2. g.ptr = p /\ g.pool = Take(pl, p)
    BY <2>1
  <2> QED
    BY <2>1, <2>2, TakeFacts
<1>2. CASE \E a \in Make(PoolCap) : g = [ptr |-> <<"own", a>>, pool |-> pl]
  <2>1. PICK a \in Make(PoolCap) : g = [ptr |-> Own(a), pool |-> pl]
    BY <1>2 DEF Own
  <2>2. g.ptr = Own(a) /\ g.pool = pl
    BY <2>1
  <2>3. a \in Fresh /\ a \in Arrays /\ CapOf[a] = PoolCap
    BY DEF Make, Fresh
  <2> QED
    BY <2>2, <2>3, OwnFacts
<1> QED
  BY <1>1, <1>2 DEF Gets

\* The array a pointer leads to is nil or one of Arrays.
LEMMA TargetType ==
  ASSUME ReaderVarTypes, NEW p \in Ptrs
  PROVE  Target(p) \in Arrays \cup {Nil}
BY TwoKinds DEF ReaderVarTypes

LEMMA CapFacts ==
  ASSUME NEW a \in Arrays \cup {Nil}, NEW n \in Nat \ {0}, Cap(a) >= n
  PROVE  a \in Arrays
BY DEF Cap
-----------------------------------------------------------------------------
(* Types, whatever the callers do                                            *)

LEMMA InitTypes == Init => TypeInv
<1> SUFFICES ASSUME Init
             PROVE  TypeInv
  OBVIOUS
<1>1. pool \in [Ptrs -> Nat] /\ dirty \subseteq Arrays /\ panicked \in BOOLEAN
  BY DEF Init
<1>2. WriterVarTypes /\ ReaderVarTypes
  BY DEF Init, WriterVarTypes, ReaderVarTypes, States
<1>3. (\A w \in Writers : WriterTypes(w)) /\ (\A r \in Readers : ReaderTypes(r))
  BY DEF Init, WriterTypes, ReaderTypes
<1> QED
  BY <1>1, <1>2, <1>3 DEF TypeInv

LEMMA ChunkType ==
  ASSUME WriterVarTypes, NEW w \in Writers
  PROVE  wChunk[w] \in Nat
<1>1. wChunk[w] \in WriterChunks \cup {0}
  BY DEF WriterVarTypes
<1>2. \A n \in WriterChunks : n \in Nat
  BY Sizes
<1> QED
  BY <1>1, <1>2

\* A step of one writer, or of one reader, keeps the types of the others.
LEMMA WriterTypesStep ==
  ASSUME TypeInv, NEW w \in Writers, WriterVarTypes', WriterTypes(w)',
         pool' \in [Ptrs -> Nat], dirty' \subseteq Arrays, panicked' \in BOOLEAN,
         \A v \in Writers \ {w} :
           UNCHANGED <<wState[v], wPtr[v], wBuf[v], srcPtr[v], srcBuf[v], wChunk[v], wLen[v]>>,
         UNCHANGED readerVars
  PROVE  TypeInv'
<1>1. \A v \in Writers : WriterTypes(v)'
  BY DEF TypeInv, WriterTypes
<1>2. ReaderVarTypes' /\ \A r \in Readers : ReaderTypes(r)'
  BY DEF TypeInv, ReaderVarTypes, ReaderTypes, readerVars
<1> QED
  BY <1>1, <1>2 DEF TypeInv

LEMMA ReaderTypesStep ==
  ASSUME TypeInv, NEW r \in Readers, ReaderVarTypes', ReaderTypes(r)', pool' \in [Ptrs -> Nat],
         \A q \in Readers \ {r} : UNCHANGED <<rState[q], field[q], toPtr[q], toBuf[q]>>,
         UNCHANGED <<dirty, writerVars, panicked>>
  PROVE  TypeInv'
<1>1. \A q \in Readers : ReaderTypes(q)'
  BY DEF TypeInv, ReaderTypes
<1>2. WriterVarTypes' /\ \A w \in Writers : WriterTypes(w)'
  BY DEF TypeInv, WriterVarTypes, WriterTypes, writerVars
<1> QED
  BY <1>1, <1>2 DEF TypeInv

LEMMA NewWriterTypes ==
  ASSUME TypeInv, NEW w \in Writers, NEW chunk \in WriterChunks, NewWriter(w, chunk)
  PROVE  TypeInv'
<1>1. PICK g \in Gets(pool) :
        /\ pool' = g.pool
        /\ wPtr' = [wPtr EXCEPT ![w] = g.ptr]
        /\ wBuf' = [wBuf EXCEPT ![w] = Target(g.ptr)]
  BY DEF NewWriter
<1>2. g.ptr \in Ptrs /\ g.pool \in [Ptrs -> Nat] /\ Target(g.ptr) \in Arrays \cup {Nil}
  BY GetFacts, TargetType DEF TypeInv
<1>3. /\ wState[w] = "none" /\ wChunk' = [wChunk EXCEPT ![w] = chunk]
      /\ wLen' = [wLen EXCEPT ![w] = 0] /\ wState' = [wState EXCEPT ![w] = "open"]
      /\ UNCHANGED <<dirty, srcPtr, srcBuf, readerVars, panicked>>
  BY DEF NewWriter
<1>4. WriterVarTypes' /\ WriterTypes(w)'
  BY <1>1, <1>2, <1>3, Sizes DEF TypeInv, WriterVarTypes, WriterTypes, States
<1> QED
  BY <1>1, <1>2, <1>3, <1>4, WriterTypesStep DEF TypeInv, WriterVarTypes

LEMMA WriterAppendTypes ==
  ASSUME TypeInv, NEW w \in Writers, NEW n \in {wChunk[w] - 1, wChunk[w]}, WriterAppend(w, n)
  PROVE  TypeInv'
<1>1. /\ wState[w] \in {"open", "readFrom"} /\ wLen[w] < n /\ n <= wChunk[w]
      /\ wLen' = [wLen EXCEPT ![w] = n]
      /\ UNCHANGED <<pool, wState, wChunk, wPtr, srcPtr, srcBuf, readerVars, panicked>>
  BY DEF WriterAppend
<1>2. n \in Nat \ {0}
  BY <1>1, Sizes DEF TypeInv, WriterVarTypes, WriterTypes
<1>3. \E a \in Arrays : /\ dirty' \subseteq dirty \cup {a}
                        /\ wBuf' = wBuf \/ wBuf' = [wBuf EXCEPT ![w] = a]
  <2>1. CASE n <= Cap(wBuf[w]) /\ dirty' = dirty \cup {wBuf[w]} /\ UNCHANGED wBuf
    BY <1>2, <2>1, CapFacts DEF TypeInv, WriterVarTypes
  <2>2. CASE \E a \in Fresh : /\ wBuf' = [wBuf EXCEPT ![w] = a]
                              /\ dirty' = (dirty \ ({wBuf[w]} \ {Target(wPtr[w])})) \cup {a}
    BY <2>2 DEF Fresh
  <2> QED
    BY <2>1, <2>2 DEF WriterAppend
<1>4. PICK a \in Arrays : /\ dirty' \subseteq dirty \cup {a}
                          /\ wBuf' = wBuf \/ wBuf' = [wBuf EXCEPT ![w] = a]
  BY <1>3
<1>5. WriterVarTypes' /\ WriterTypes(w)'
  BY <1>1, <1>2, <1>4 DEF TypeInv, WriterVarTypes, WriterTypes, States
<1> QED
  BY <1>1, <1>4, <1>5, WriterTypesStep DEF TypeInv, WriterVarTypes

LEMMA FlushTypes ==
  ASSUME TypeInv, NEW w \in Writers, Flush(w) \/ FlushFails(w)
  PROVE  TypeInv'
<1>1. /\ dirty' \subseteq dirty
      /\ \/ wLen' = [wLen EXCEPT ![w] = 0] /\ UNCHANGED wState
         \/ wState[w] = "open" /\ wState' = [wState EXCEPT ![w] = "failed"] /\ UNCHANGED wLen
      /\ UNCHANGED <<pool, wChunk, wPtr, wBuf, srcPtr, srcBuf, readerVars, panicked>>
  BY DEF Flush, FlushFails, poolVars
<1>2. WriterVarTypes' /\ WriterTypes(w)'
  BY <1>1, ChunkType DEF TypeInv, WriterVarTypes, WriterTypes, States
<1> QED
  BY <1>1, <1>2, WriterTypesStep DEF TypeInv, WriterVarTypes

LEMMA CloseWriterTypes ==
  ASSUME TypeInv, NEW w \in Writers, CloseWriter(w) \/ CloseWriterFails(w)
  PROVE  TypeInv'
<1>1. /\ wState[w] \in {"open", "failed"} /\ dirty' \subseteq dirty
      /\ pool' = pool \/ pool' = Put(pool, wPtr[w])
      /\ wState' = [wState EXCEPT ![w] = "none"]
      /\ wPtr' = [wPtr EXCEPT ![w] = NoPtr] /\ wBuf' = [wBuf EXCEPT ![w] = Nil]
      /\ wLen' = [wLen EXCEPT ![w] = 0]
      /\ UNCHANGED <<wChunk, srcPtr, srcBuf, readerVars, panicked>>
  BY DEF CloseWriter, CloseWriterFails, Forget
<1>2. pool' \in [Ptrs -> Nat]
  BY <1>1, PutFacts DEF TypeInv, WriterTypes
<1>3. WriterVarTypes' /\ WriterTypes(w)'
  BY <1>1, ChunkType DEF TypeInv, WriterVarTypes, WriterTypes, States
<1> QED
  BY <1>1, <1>2, <1>3, WriterTypesStep DEF TypeInv, WriterVarTypes

LEMMA ReadFromTypes ==
  ASSUME TypeInv, NEW w \in Writers, ReadFrom(w)
  PROVE  TypeInv'
<1>1. PICK g \in Gets(pool) :
        /\ pool' = g.pool
        /\ \/ /\ Cap(Target(g.ptr)) >= wChunk[w]
              /\ srcPtr' = [srcPtr EXCEPT ![w] = g.ptr]
              /\ srcBuf' = [srcBuf EXCEPT ![w] = Target(g.ptr)]
              /\ wState' = [wState EXCEPT ![w] = "readFrom"]
              /\ UNCHANGED panicked
           \/ /\ panicked' = TRUE
              /\ UNCHANGED <<srcPtr, srcBuf, wState>>
  BY DEF ReadFrom
<1>2. /\ wState[w] = "open"
      /\ UNCHANGED <<dirty, wChunk, wPtr, wBuf, wLen, readerVars>>
  BY DEF ReadFrom
<1>3. g.ptr \in Ptrs /\ g.pool \in [Ptrs -> Nat] /\ Target(g.ptr) \in Arrays \cup {Nil}
  BY GetFacts, TargetType DEF TypeInv
<1>4. wChunk[w] \in Nat \ {0}
  BY <1>2, Sizes DEF TypeInv, WriterTypes
<1>5. Cap(Target(g.ptr)) >= wChunk[w] => Target(g.ptr) \in Arrays
  BY <1>3, <1>4, CapFacts
<1>6. WriterVarTypes' /\ WriterTypes(w)'
  BY <1>1, <1>2, <1>3, <1>5 DEF TypeInv, WriterVarTypes, WriterTypes, States
<1>7. panicked' \in BOOLEAN
  BY <1>1 DEF TypeInv
<1> QED
  BY <1>1, <1>2, <1>3, <1>6, <1>7, WriterTypesStep DEF TypeInv, WriterVarTypes

LEMMA ReadPieceTypes ==
  ASSUME TypeInv, NEW w \in Writers, ReadPiece(w)
  PROVE  TypeInv'
<1>1. /\ wState[w] = "readFrom" /\ dirty' = dirty \cup {srcBuf[w]}
      /\ UNCHANGED <<pool, writerVars, readerVars, panicked>>
  BY DEF ReadPiece
<1>2. dirty' \subseteq Arrays
  BY <1>1 DEF TypeInv, WriterTypes
<1>3. WriterVarTypes' /\ WriterTypes(w)'
  BY <1>1 DEF TypeInv, WriterVarTypes, WriterTypes, writerVars
<1> QED
  BY <1>1, <1>2, <1>3, WriterTypesStep DEF TypeInv, writerVars

LEMMA ReadFromReturnTypes ==
  ASSUME TypeInv, NEW w \in Writers, NEW to \in {"open", "failed"}, ReadFromReturn(w, to)
  PROVE  TypeInv'
<1>1. /\ wState[w] = "readFrom" /\ dirty' \subseteq dirty
      /\ pool' = Put(pool, srcPtr[w])
      /\ srcPtr' = [srcPtr EXCEPT ![w] = NoPtr] /\ srcBuf' = [srcBuf EXCEPT ![w] = Nil]
      /\ wState' = [wState EXCEPT ![w] = to]
      /\ UNCHANGED <<wChunk, wPtr, wBuf, wLen, readerVars, panicked>>
  BY DEF ReadFromReturn
<1>2. pool' \in [Ptrs -> Nat]
  BY <1>1, PutFacts DEF TypeInv, WriterTypes
<1>3. WriterVarTypes' /\ WriterTypes(w)'
  BY <1>1 DEF TypeInv, WriterVarTypes, WriterTypes, States
<1> QED
  BY <1>1, <1>2, <1>3, WriterTypesStep DEF TypeInv, WriterVarTypes

\* Steps of a reader that leave the pool and WriteTo alone, or put one pointer back.
LEMMA ReaderStateTypes ==
  ASSUME TypeInv, NEW r \in Readers,
         NewReader(r) \/ Finish(r) \/ ReadFails(r) \/ CloseReader(r) \/ DropReader(r)
  PROVE  TypeInv'
<1>1. /\ \E st \in {"none", "open", "failed"} : rState' = [rState EXCEPT ![r] = st]
      /\ rState[r] # "writeTo"
      /\ UNCHANGED <<dirty, writerVars, toPtr, toBuf, panicked>>
  BY DEF NewReader, Finish, ReadFails, CloseReader, DropReader, poolVars
<1>2. /\ rState'[r] = "failed" => rState[r] = "reading" /\ field' = field
      /\ rState'[r] = "none" => field' = [field EXCEPT ![r] = Nil]
      /\ field' = field \/ field' = [field EXCEPT ![r] = Nil]
  BY DEF TypeInv, ReaderVarTypes, NewReader, Finish, ReadFails, CloseReader, DropReader
<1>3. \/ pool' = pool
      \/ pool' = Put(pool, <<"field", r>>)
      \/ rState[r] = "reading" /\ pool' = Put(pool, Own(field[r]))
  BY DEF NewReader, Finish, ReadFails, CloseReader, DropReader, poolVars, Own
<1>4. pool' \in [Ptrs -> Nat]
  <2>1. <<"field", r>> \in Ptrs
    BY DEF Ptrs
  <2>2. rState[r] = "reading" => Own(field[r]) \in Ptrs
    BY OwnFacts DEF TypeInv, ReaderTypes
  <2> QED
    BY <1>3, <2>1, <2>2, PutFacts DEF TypeInv
<1>5. ReaderVarTypes' /\ ReaderTypes(r)'
  BY <1>1, <1>2 DEF TypeInv, ReaderVarTypes, ReaderTypes
<1> QED
  BY <1>1, <1>2, <1>4, <1>5, ReaderTypesStep DEF TypeInv, ReaderVarTypes

LEMMA AcquireTypes ==
  ASSUME TypeInv, NEW r \in Readers, NEW n \in ReaderChunks, Acquire(r, n + 1)
  PROVE  TypeInv'
<1> DEFINE pl == IF field[r] = Nil THEN pool ELSE Put(pool, <<"field", r>>)
<1>1. /\ rState[r] = "open" /\ rState' = [rState EXCEPT ![r] = "reading"]
      /\ UNCHANGED <<dirty, writerVars, toPtr, toBuf, panicked>>
  BY DEF Acquire
<1>2. n + 1 \in Nat \ {0}
  BY Sizes
<1>3. pl \in [Ptrs -> Nat]
  BY PutFacts DEF TypeInv, Ptrs
<1>4. /\ pool' \in [Ptrs -> Nat]
      /\ \E b \in Arrays : field' = [field EXCEPT ![r] = b]
  <2>1. CASE Cap(field[r]) >= n + 1 /\ UNCHANGED <<pool, field>>
    <3>1. field[r] \in Arrays
      BY <1>2, <2>1, CapFacts DEF TypeInv, ReaderVarTypes
    <3> QED
      BY <2>1, <3>1 DEF TypeInv, ReaderVarTypes
  <2>2. CASE \E g \in Gets(pl) :
               \/ /\ Cap(Target(g.ptr)) >= n + 1
                  /\ field' = [field EXCEPT ![r] = Target(g.ptr)]
                  /\ pool' = g.pool
               \/ /\ \E b \in Make(n + 1) \ {Target(g.ptr)} : field' = [field EXCEPT ![r] = b]
                  /\ pool' = Put(g.pool, g.ptr)
    <3>1. PICK g \in Gets(pl) :
               \/ /\ Cap(Target(g.ptr)) >= n + 1
                  /\ field' = [field EXCEPT ![r] = Target(g.ptr)]
                  /\ pool' = g.pool
               \/ /\ \E b \in Make(n + 1) \ {Target(g.ptr)} : field' = [field EXCEPT ![r] = b]
                  /\ pool' = Put(g.pool, g.ptr)
      BY <2>2
    <3>2. g.ptr \in Ptrs /\ g.pool \in [Ptrs -> Nat] /\ Target(g.ptr) \in Arrays \cup {Nil}
      <4> HIDE DEF pl
      <4> QED
        BY <1>3, GetFacts, TargetType DEF TypeInv
    <3>3. Cap(Target(g.ptr)) >= n + 1 => Target(g.ptr) \in Arrays
      BY <1>2, <3>2, CapFacts
    <3>4. \A b \in Make(n + 1) : b \in Arrays
      BY DEF Make, Fresh
    <3>5. Put(g.pool, g.ptr) \in [Ptrs -> Nat]
      BY <3>2, PutFacts
    <3> QED
      BY <3>1, <3>2, <3>3, <3>4, <3>5
  <2> QED
    BY <2>1, <2>2 DEF Acquire
<1>5. ReaderVarTypes' /\ ReaderTypes(r)'
  BY <1>1, <1>4 DEF TypeInv, ReaderVarTypes, ReaderTypes
<1> QED
  BY <1>1, <1>4, <1>5, ReaderTypesStep DEF TypeInv, ReaderVarTypes

LEMMA WriteToTypes ==
  ASSUME TypeInv, NEW r \in Readers, WriteTo(r) \/ WriteToReturn(r)
  PROVE  TypeInv'
<1>1. CASE WriteTo(r)
  <2>1. PICK g \in Gets(pool) :
          /\ pool' = g.pool
          /\ toPtr' = [toPtr EXCEPT ![r] = g.ptr]
          /\ toBuf' = [toBuf EXCEPT ![r] = Target(g.ptr)]
    BY <1>1 DEF WriteTo
  <2>2. /\ rState[r] = "open" /\ rState' = [rState EXCEPT ![r] = "writeTo"]
        /\ UNCHANGED <<dirty, writerVars, field, panicked>>
    BY <1>1 DEF WriteTo
  <2>3. g.ptr \in Ptrs /\ g.pool \in [Ptrs -> Nat] /\ Target(g.ptr) \in Arrays \cup {Nil}
    BY GetFacts, TargetType DEF TypeInv
  <2>4. ReaderVarTypes' /\ ReaderTypes(r)'
    BY <2>1, <2>2, <2>3 DEF TypeInv, ReaderVarTypes, ReaderTypes
  <2> QED
    BY <2>1, <2>2, <2>3, <2>4, ReaderTypesStep DEF TypeInv, ReaderVarTypes
<1>2. CASE WriteToReturn(r)
  <2>1. /\ rState[r] = "writeTo" /\ rState' = [rState EXCEPT ![r] = "open"]
        /\ pool' = Put(pool, toPtr[r])
        /\ toPtr' = [toPtr EXCEPT ![r] = NoPtr] /\ toBuf' = [toBuf EXCEPT ![r] = Nil]
        /\ UNCHANGED <<dirty, writerVars, field, panicked>>
    BY <1>2 DEF WriteToReturn
  <2>2. pool' \in [Ptrs -> Nat]
    BY <2>1, PutFacts DEF TypeInv, ReaderTypes
  <2>3. ReaderVarTypes' /\ ReaderTypes(r)'
    BY <2>1 DEF TypeInv, ReaderVarTypes, ReaderTypes
  <2> QED
    BY <2>1, <2>2, <2>3, ReaderTypesStep DEF TypeInv, ReaderVarTypes
<1> QED
  BY <1>1, <1>2

LEMMA GrowTypes ==
  ASSUME TypeInv, NEW r \in Readers, NEW n, Grow(r, n)
  PROVE  TypeInv'
<1>1. PICK b \in Make(n) : toBuf' = [toBuf EXCEPT ![r] = b]
  BY DEF Grow
<1>2. /\ rState[r] = "writeTo" /\ b \in Arrays
      /\ UNCHANGED <<pool, dirty, writerVars, rState, field, toPtr, panicked>>
  BY DEF Grow, poolVars, Make, Fresh
<1>3. ReaderVarTypes' /\ ReaderTypes(r)'
  BY <1>1, <1>2 DEF TypeInv, ReaderVarTypes, ReaderTypes
<1> QED
  BY <1>1, <1>2, <1>3, ReaderTypesStep DEF TypeInv, ReaderVarTypes

LEMMA StepTypes == TypeInv /\ [Next]_vars => TypeInv'
<1> SUFFICES ASSUME TypeInv, [Next]_vars
             PROVE  TypeInv'
  OBVIOUS
<1>1. CASE \E w \in Writers : WriterStep(w)
  <2>1. PICK w \in Writers : WriterStep(w)
    BY <1>1
  <2> QED
    BY <2>1, NewWriterTypes, WriterAppendTypes, FlushTypes, CloseWriterTypes, ReadFromTypes,
       ReadPieceTypes, ReadFromReturnTypes DEF WriterStep
<1>2. CASE \E r \in Readers : ReaderStep(r)
  <2>1. PICK r \in Readers : ReaderStep(r)
    BY <1>2
  <2> QED
    BY <2>1, ReaderStateTypes, AcquireTypes, WriteToTypes, GrowTypes DEF ReaderStep
<1>3. CASE UNCHANGED vars
  BY <1>3 DEF vars, poolVars, writerVars, readerVars, TypeInv, WriterVarTypes, ReaderVarTypes,
              WriterTypes, ReaderTypes
<1> QED
  BY <1>1, <1>2, <1>3 DEF Next

\* The variables have their types, and every pointer in use is one that was taken from the
\* pool, whatever the callers do.
THEOREM TypeCorrect == Spec => []TypeOK
<1>1. TypeInv => TypeOK
  <2> SUFFICES ASSUME TypeInv
               PROVE  TypeOK
    OBVIOUS
  <2>1. ASSUME NEW w \in Writers
        PROVE  wLen[w] \in 0..wChunk[w]
    <3>1. wLen[w] \in Nat /\ wChunk[w] \in Nat
      BY ChunkType DEF TypeInv, WriterVarTypes
    <3> QED
      BY <3>1 DEF TypeInv, WriterTypes
  <2> QED
    BY <2>1 DEF TypeInv, WriterVarTypes, ReaderVarTypes, TypeOK
<1> QED
  BY <1>1, InitTypes, StepTypes, PTL DEF Spec
-----------------------------------------------------------------------------
(* Ownership, when no Read that failed is followed by another                *)

\* Pointers that lead into no reader.
Safe == {Own(a) : a \in Arrays} \cup {NoPtr}

LEMMA SafePtrs == \A r \in Readers : <<"field", r>> \notin Safe
BY DEF Safe, Own, NoPtr

\* Pointers that are held came from those held before, or are new and own their array.
LEMMA PointersFrom ==
  ASSUME NEW S,
         \A p \in Ptrs : pool'[p] > 0 => p \in S,
         \A w \in Writers : wPtr'[w] \in S /\ srcPtr'[w] \in S,
         \A r \in Readers : toPtr'[r] \in S
  PROVE  Pointers' \subseteq S
BY DEF Pointers, Pooled

LEMMA PointersHave ==
  /\ \A p \in Ptrs : pool[p] > 0 => p \in Pointers
  /\ \A w \in Writers : wPtr[w] \in Pointers /\ srcPtr[w] \in Pointers
  /\ \A r \in Readers : toPtr[r] \in Pointers
BY DEF Pointers, Pooled

\* A step that adds no address of a field and revives no reader that is pointed at.
LEMMA PointStep ==
  ASSUME PointInv, Pointers' \subseteq Pointers \cup Safe,
         \A r \in Readers : PointedAt(r) => rState'[r] = rState[r]
  PROVE  PointInv'
BY SafePtrs DEF PointInv, PointedAt

\* A pointer that somebody has leads to the array it owns, or to nil.
LEMMA PointedTarget ==
  ASSUME TypeInv, ShareInv, NEW p \in Ptrs, p \in Pointers
  PROVE  /\ OwnOf(p) \subseteq {Target(p)} /\ Target(p) \in OwnOf(p) \cup {Nil}
         /\ Target(p) # Nil => p = Own(Target(p))
<1>1. CASE \E a \in Arrays : p = Own(a) /\ OwnOf(p) = {a} /\ Target(p) = a
  BY <1>1
<1>2. CASE \E r \in Readers : p = <<"field", r>> /\ OwnOf(p) = {} /\ Target(p) = field[r]
  <2>1. PICK r \in Readers : p = <<"field", r>> /\ OwnOf(p) = {} /\ Target(p) = field[r]
    BY <1>2
  <2>2. rState[r] = "none"
    BY <2>1 DEF ShareInv, PointInv, PointedAt
  <2>3. field[r] = Nil
    BY <2>2 DEF TypeInv, ReaderTypes
  <2> QED
    BY <2>1, <2>3
<1> QED
  BY <1>1, <1>2, TwoKinds

LEMMA PutOnce ==
  ASSUME NEW pl \in [Ptrs -> Nat], Once(pl), NEW p \in Ptrs, OwnOf(p) \cap InPool(pl) = {}
  PROVE  /\ Once(Put(pl, p)) /\ InPool(Put(pl, p)) = InPool(pl) \cup OwnOf(p)
         /\ \A q \in Ptrs : Put(pl, p)[q] > 0 => pl[q] > 0 \/ q = p
<1>1. \A q \in Ptrs : Put(pl, p)[q] = IF q = p THEN pl[q] + 1 ELSE pl[q]
  BY PutFacts
<1>2. ASSUME NEW a \in Arrays
      PROVE  /\ Put(pl, p)[Own(a)] \in {0, 1}
             /\ Put(pl, p)[Own(a)] > 0 <=> a \in InPool(pl) \cup OwnOf(p)
  <2>1. Own(a) \in Ptrs /\ OwnOf(Own(a)) = {a} /\ pl[Own(a)] \in {0, 1}
    BY OwnFacts DEF Once
  <2>2. CASE p = Own(a)
    <3>1. pl[Own(a)] = 0
      BY <2>1, <2>2 DEF InPool
    <3> QED
      BY <1>1, <2>1, <2>2, <3>1
  <2>3. CASE p # Own(a)
    <3>1. a \notin OwnOf(p)
      BY <2>3, TwoKinds
    <3> QED
      BY <1>1, <2>1, <2>3, <3>1 DEF InPool
  <2> QED
    BY <2>2, <2>3
<1>3. OwnOf(p) \subseteq Arrays
  BY TwoKinds
<1>4. InPool(Put(pl, p)) = InPool(pl) \cup OwnOf(p)
  BY <1>2, <1>3 DEF InPool
<1>5. \A q \in Ptrs : Put(pl, p)[q] > 0 => pl[q] > 0 \/ q = p
  BY <1>1
<1> QED
  BY <1>2, <1>4, <1>5 DEF Once

LEMMA TakeOnce ==
  ASSUME NEW pl \in [Ptrs -> Nat], Once(pl), NEW p \in Ptrs, pl[p] > 0
  PROVE  /\ Once(Take(pl, p)) /\ InPool(Take(pl, p)) = InPool(pl) \ OwnOf(p)
         /\ OwnOf(p) \subseteq InPool(pl)
         /\ \A q \in Ptrs : Take(pl, p)[q] > 0 => pl[q] > 0
<1>1. \A q \in Ptrs : Take(pl, p)[q] = IF q = p THEN pl[q] - 1 ELSE pl[q]
  BY TakeFacts
<1>2. ASSUME NEW a \in Arrays
      PROVE  /\ Take(pl, p)[Own(a)] \in {0, 1}
             /\ Take(pl, p)[Own(a)] > 0 <=> a \in InPool(pl) \ OwnOf(p)
  <2>1. Own(a) \in Ptrs /\ OwnOf(Own(a)) = {a} /\ pl[Own(a)] \in {0, 1}
    BY OwnFacts DEF Once
  <2>2. CASE p = Own(a)
    BY <1>1, <2>1, <2>2
  <2>3. CASE p # Own(a)
    <3>1. a \notin OwnOf(p)
      BY <2>3, TwoKinds
    <3> QED
      BY <1>1, <2>1, <2>3, <3>1 DEF InPool
  <2> QED
    BY <2>2, <2>3
<1>3. InPool(Take(pl, p)) = InPool(pl) \ OwnOf(p)
  BY <1>2 DEF InPool
<1>4. OwnOf(p) \subseteq InPool(pl)
  BY TwoKinds DEF InPool
<1>5. \A q \in Ptrs : Take(pl, p)[q] > 0 => pl[q] > 0
  <2>1. \A q \in Ptrs : pl[q] \in Nat
    OBVIOUS
  <2> QED
    BY <1>1, <2>1
<1> QED
  BY <1>2, <1>3, <1>4, <1>5 DEF Once

\* An array that is not held by anyone.
LEMMA FreshFacts ==
  ASSUME TypeInv, NEW a \in Fresh
  PROVE  /\ a \in Arrays /\ a \notin InPool(pool)
         /\ \A h \in Holders : a \notin Holds(h)
<1>1. a \in Arrays /\ a \notin Held
  BY DEF Fresh
<1>2. Own(a) \notin Pointers
  BY <1>1, OwnFacts DEF Held
<1>3. a \notin InPool(pool)
  BY <1>1, <1>2, OwnFacts, PointersHave DEF InPool
<1>4. \A p \in Ptrs \cup {NoPtr} : a \in OwnOf(p) => p = Own(a)
  BY TwoKinds, NoPtrFacts
<1>5. ASSUME NEW h \in Holders
      PROVE  a \notin Holds(h)
  <2>1. CASE h \in {"buf"} \X Writers
    <3>1. PICK w \in Writers : h = <<"buf", w>>
      BY <2>1
    <3>2. a # wBuf[w]
      BY <1>1 DEF Held
    <3>3. a \notin OwnOf(wPtr[w])
      BY <1>2, <1>4, PointersHave DEF TypeInv, WriterVarTypes
    <3> QED
      BY <3>1, <3>2, <3>3 DEF Holds
  <2>2. CASE h \in {"src"} \X Writers
    <3>1. PICK w \in Writers : h = <<"src", w>>
      BY <2>2
    <3>2. a # srcBuf[w]
      BY <1>1 DEF Held
    <3> QED
      BY <3>1, <3>2 DEF Holds
  <2>3. CASE h \in {"field"} \X Readers
    <3>1. PICK r \in Readers : h = <<"field", r>>
      BY <2>3
    <3>2. a # field[r]
      BY <1>1 DEF Held
    <3> QED
      BY <3>1, <3>2 DEF Holds
  <2>4. CASE h \in {"to"} \X Readers
    <3>1. PICK r \in Readers : h = <<"to", r>>
      BY <2>4
    <3>2. a # toBuf[r]
      BY <1>1 DEF Held
    <3>3. a \notin OwnOf(toPtr[r])
      BY <1>2, <1>4, PointersHave DEF TypeInv, ReaderVarTypes
    <3> QED
      BY <3>1, <3>2, <3>3 DEF Holds
  <2>5. CASE h = <<"pool", Nil>>
    BY <1>3, <2>5 DEF Holds
  <2> QED
    BY <2>1, <2>2, <2>3, <2>4, <2>5 DEF Holders
<1> QED
  BY <1>1, <1>3, <1>5

\* What Get returns: an array that the pool gives up, a new one, or nil.
LEMMA GetShare ==
  ASSUME TypeInv, ShareInv, NEW g \in Gets(pool)
  PROVE  /\ g.ptr \in Ptrs /\ g.pool \in [Ptrs -> Nat] /\ Once(g.pool)
         /\ g.ptr \in Pointers \cup Safe
         /\ \A p \in Ptrs : g.pool[p] > 0 => p \in Pointers
         /\ InPool(g.pool) = InPool(pool) \ OwnOf(g.ptr)
         /\ OwnOf(g.ptr) \subseteq InPool(pool) \cup Fresh
         /\ OwnOf(g.ptr) \subseteq {Target(g.ptr)} /\ Target(g.ptr) \in OwnOf(g.ptr) \cup {Nil}
         /\ Target(g.ptr) # Nil => g.ptr = Own(Target(g.ptr))
<1>1. pool \in [Ptrs -> Nat] /\ Once(pool)
  BY DEF TypeInv, ShareInv
<1>2. g.ptr \in Ptrs /\ g.pool \in [Ptrs -> Nat]
  BY <1>1, GetFacts
<1>3. CASE pool[g.ptr] > 0 /\ g.pool = Take(pool, g.ptr)
  <2>1. g.ptr \in Pointers
    BY <1>2, <1>3, PointersHave
  <2> QED
    BY <1>1, <1>2, <1>3, <2>1, TakeOnce, PointedTarget, PointersHave
<1>4. CASE g.pool = pool /\ \E a \in Fresh : a \in Arrays /\ CapOf[a] = PoolCap /\ g.ptr = Own(a)
  <2>1. PICK a \in Fresh : a \in Arrays /\ g.ptr = Own(a)
    BY <1>4
  <2>2. a \notin InPool(pool)
    BY <2>1, FreshFacts
  <2>3. OwnOf(g.ptr) = {a} /\ Target(g.ptr) = a /\ g.ptr \in Safe
    BY <2>1, OwnFacts DEF Safe
  <2> QED
    BY <1>1, <1>2, <1>4, <2>1, <2>2, <2>3, PointersHave
<1> QED
  BY <1>1, <1>3, <1>4, GetFacts

LEMMA InitShare == Init => ShareInv
<1> SUFFICES ASSUME Init
             PROVE  ShareInv
  OBVIOUS
<1>1. Once(pool) /\ InPool(pool) = {}
  BY OwnFacts DEF Init, Once, InPool
<1>2. \A h \in Holders : Holds(h) = {}
  <2>1. ASSUME NEW h \in Holders
        PROVE  Holds(h) = {}
    <3>1. CASE h \in {"buf", "src"} \X Writers
      BY <3>1, NoPtrFacts DEF Init, Holds
    <3>2. CASE h \in {"field", "to"} \X Readers
      BY <3>2, NoPtrFacts DEF Init, Holds
    <3>3. CASE h = <<"pool", Nil>>
      BY <1>1, <3>3 DEF Holds
    <3> QED
      BY <3>1, <3>2, <3>3 DEF Holders
  <2> QED
    BY <2>1
<1>3. PointInv
  BY DEF Init, PointInv, PointedAt, Pointers, Pooled, NoPtr
<1> QED
  BY <1>1, <1>2, <1>3 DEF Init, ShareInv, Exclusive

\* One holder exchanges arrays with the pool and takes new ones.
LEMMA Exchange ==
  ASSUME TypeInv, Exclusive, NEW h \in Holders, h # <<"pool", Nil>>,
         \A k \in Holders : k # h /\ k # <<"pool", Nil>> => Holds(k)' = Holds(k),
         Holds(h)' \cup InPool(pool)' \subseteq Holds(h) \cup InPool(pool) \cup Fresh,
         Holds(h)' \cap InPool(pool)' = {}
  PROVE  Exclusive'
<1> DEFINE P == <<"pool", Nil>>
<1>1. P \in Holders /\ Holds(P) = InPool(pool) /\ Holds(P)' = InPool(pool)'
  BY DEF Holders, Holds
<1>2. \A k \in Holders : Holds(k) \cap Fresh = {}
  BY FreshFacts
<1>3. \A k, l \in Holders : k # l => Holds(k) \cap Holds(l) = {}
  BY DEF Exclusive
<1> HIDE DEF P
<1>4. ASSUME NEW k \in Holders, k # h, k # P
      PROVE  /\ Holds(k)' = Holds(k)
             /\ Holds(k)' \cap Holds(h)' = {} /\ Holds(k)' \cap Holds(P)' = {}
  <2>1. Holds(k)' = Holds(k)
    BY <1>4 DEF P
  <2>2. Holds(k) \cap Holds(h) = {} /\ Holds(k) \cap InPool(pool) = {} /\ Holds(k) \cap Fresh = {}
    BY <1>1, <1>2, <1>3, <1>4
  <2> QED
    BY <1>1, <2>1, <2>2
<1>5. Holds(h)' \cap Holds(P)' = {}
  BY <1>1
<1>6. ASSUME NEW k \in Holders, NEW l \in Holders, k # l
      PROVE  Holds(k)' \cap Holds(l)' = {}
  <2>1. CASE k \notin {h, P} /\ l \notin {h, P}
    BY <1>3, <1>4, <1>6, <2>1
  <2>2. CASE k \in {h, P} /\ l \notin {h, P}
    BY <1>4, <2>2
  <2>3. CASE k \notin {h, P} /\ l \in {h, P}
    BY <1>4, <2>3
  <2>4. CASE k \in {h, P} /\ l \in {h, P}
    BY <1>5, <1>6, <2>4
  <2> QED
    BY <2>1, <2>2, <2>3, <2>4
<1> QED
  BY <1>6 DEF Exclusive

\* The holders that a step of a writer, or of a reader, leaves alone.
LEMMA OthersHold ==
  ASSUME NEW S \in SUBSET Holders,
         \A w \in Writers : /\ <<"buf", w>> \notin S => wBuf'[w] = wBuf[w] /\ wPtr'[w] = wPtr[w]
                            /\ <<"src", w>> \notin S => srcBuf'[w] = srcBuf[w],
         \A r \in Readers : /\ <<"field", r>> \notin S => field'[r] = field[r]
                            /\ <<"to", r>> \notin S => toBuf'[r] = toBuf[r] /\ toPtr'[r] = toPtr[r]
  PROVE  \A k \in Holders : k \notin S /\ k # <<"pool", Nil>> => Holds(k)' = Holds(k)
<1> SUFFICES ASSUME NEW k \in Holders, k \notin S, k # <<"pool", Nil>>
             PROVE  Holds(k)' = Holds(k)
  OBVIOUS
<1>1. CASE k \in {"buf", "src"} \X Writers
  <2>1. PICK w \in Writers : k = <<"buf", w>> \/ k = <<"src", w>>
    BY <1>1
  <2>2. CASE k = <<"buf", w>>
    BY <2>2 DEF Holds
  <2>3. CASE k = <<"src", w>>
    BY <2>3 DEF Holds
  <2> QED
    BY <2>1, <2>2, <2>3
<1>2. CASE k \in {"field", "to"} \X Readers
  <2>1. PICK r \in Readers : k = <<"field", r>> \/ k = <<"to", r>>
    BY <1>2
  <2>2. CASE k = <<"field", r>>
    BY <2>2 DEF Holds
  <2>3. CASE k = <<"to", r>>
    BY <2>3 DEF Holds
  <2> QED
    BY <2>1, <2>2, <2>3
<1> QED
  BY <1>1, <1>2 DEF Holders

\* What the holders of one writer, and of one reader, hold.
LEMMA WriterHolds ==
  ASSUME NEW w \in Writers
  PROVE  /\ <<"buf", w>> \in Holders /\ <<"src", w>> \in Holders
         /\ Holds(<<"buf", w>>) = OwnOf(wPtr[w]) \cup ({wBuf[w]} \ {Nil})
         /\ Holds(<<"buf", w>>)' = OwnOf(wPtr'[w]) \cup ({wBuf'[w]} \ {Nil})
         /\ Holds(<<"src", w>>) = {srcBuf[w]} \ {Nil}
         /\ Holds(<<"src", w>>)' = {srcBuf'[w]} \ {Nil}
BY DEF Holders, Holds

LEMMA ReaderHolds ==
  ASSUME NEW r \in Readers
  PROVE  /\ <<"field", r>> \in Holders /\ <<"to", r>> \in Holders
         /\ Holds(<<"field", r>>) = {field[r]} \ {Nil}
         /\ Holds(<<"field", r>>)' = {field'[r]} \ {Nil}
         /\ Holds(<<"to", r>>) = OwnOf(toPtr[r]) \cup ({toBuf[r]} \ {Nil})
         /\ Holds(<<"to", r>>)' = OwnOf(toPtr'[r]) \cup ({toBuf'[r]} \ {Nil})
BY DEF Holders, Holds

\* No array is with a holder and in the pool.
LEMMA NotPooled ==
  ASSUME Exclusive, NEW h \in Holders, h # <<"pool", Nil>>
  PROVE  Holds(h) \cap InPool(pool) = {}
<1>1. <<"pool", Nil>> \in Holders /\ Holds(<<"pool", Nil>>) = InPool(pool)
  BY DEF Holders, Holds
<1> QED
  BY <1>1 DEF Exclusive

\* Steps that move no array.
LEMMA NothingMoves ==
  ASSUME ShareInv, UNCHANGED <<pool, wPtr, wBuf, srcPtr, srcBuf, field, toPtr, toBuf>>,
         \A w \in Writers : wState'[w] = "readFrom" => wState[w] = "readFrom",
         \A r \in Readers : /\ rState'[r] \in {"open", "writeTo"} =>
                                 rState[r] \in {"open", "writeTo"} \/ field[r] = Nil
                            /\ PointedAt(r) => rState'[r] = rState[r]
  PROVE  ShareInv'
<1>1. \A h \in Holders : Holds(h)' = Holds(h)
  BY DEF Holds, InPool
<1>2. Exclusive'
  BY <1>1 DEF ShareInv, Exclusive
<1>3. Pointers' = Pointers
  BY DEF Pointers, Pooled
<1>4. PointInv'
  BY <1>3, PointStep DEF ShareInv
<1> QED
  BY <1>2, <1>4 DEF ShareInv, Once

LEMMA NewWriterShare ==
  ASSUME TypeInv, ShareInv, NEW w \in Writers, NEW chunk \in WriterChunks, NewWriter(w, chunk)
  PROVE  ShareInv'
<1>1. PICK g \in Gets(pool) :
        /\ pool' = g.pool
        /\ wPtr' = [wPtr EXCEPT ![w] = g.ptr]
        /\ wBuf' = [wBuf EXCEPT ![w] = Target(g.ptr)]
  BY DEF NewWriter
<1>2. /\ wState[w] = "none" /\ wState' = [wState EXCEPT ![w] = "open"]
      /\ UNCHANGED <<srcPtr, srcBuf, rState, field, toPtr, toBuf>>
  BY DEF NewWriter, readerVars
<1>3. WriterVarTypes
  BY DEF TypeInv
<1>4. Once(pool') /\ Pointers' \subseteq Pointers \cup Safe
  <2>1. \A v \in Writers : wPtr'[v] \in Pointers \cup Safe
    BY <1>1, <1>3, GetShare, PointersHave DEF WriterVarTypes
  <2> QED
    BY <1>1, <1>2, <2>1, GetShare, PointersFrom, PointersHave
<1>5. PointInv'
  BY <1>2, <1>4, PointStep DEF ShareInv
<1>6. Exclusive'
  <2>1. wPtr'[w] = g.ptr /\ wBuf'[w] = Target(g.ptr)
    BY <1>1, <1>3 DEF WriterVarTypes
  <2>2. Holds(<<"buf", w>>)' \subseteq OwnOf(g.ptr)
    <3>1. Target(g.ptr) \in OwnOf(g.ptr) \cup {Nil}
      BY GetShare
    <3> QED
      BY <2>1, <3>1, WriterHolds
  <2>3. InPool(pool)' = InPool(pool) \ OwnOf(g.ptr)
    BY <1>1, GetShare
  <2>4. \A k \in Holders : k \notin {<<"buf", w>>} /\ k # <<"pool", Nil>> => Holds(k)' = Holds(k)
    BY <1>1, <1>2, <1>3, OthersHold, WriterHolds DEF WriterVarTypes
  <2>5. OwnOf(g.ptr) \subseteq InPool(pool) \cup Fresh /\ Exclusive
    BY GetShare DEF ShareInv
  <2>6. <<"buf", w>> \in Holders /\ <<"buf", w>> # <<"pool", Nil>>
    BY WriterHolds
  <2> QED
    BY <2>2, <2>3, <2>4, <2>5, <2>6, Exchange
<1> QED
  BY <1>2, <1>3, <1>4, <1>5, <1>6 DEF ShareInv, WriterVarTypes

\* append within the capacity, or into an array that nobody holds.
LEMMA WriterAppendShare ==
  ASSUME TypeInv, ShareInv, NEW w \in Writers, NEW n, WriterAppend(w, n)
  PROVE  ShareInv'
<1>1. UNCHANGED <<pool, wState, wPtr, srcPtr, srcBuf, rState, field, toPtr, toBuf>>
  BY DEF WriterAppend, readerVars
<1>2. CASE UNCHANGED wBuf
  BY <1>1, <1>2, NothingMoves
<1>3. CASE \E a \in Fresh : wBuf' = [wBuf EXCEPT ![w] = a]
  <2>1. PICK a \in Fresh : wBuf' = [wBuf EXCEPT ![w] = a]
    BY <1>3
  <2>2. InPool(pool)' = InPool(pool) /\ Once(pool') /\ Pointers' = Pointers
    BY <1>1 DEF ShareInv, Pointers, Pooled
  <2>3. PointInv'
    BY <1>1, <2>2, PointStep DEF ShareInv
  <2>4. Exclusive'
    <3>1. wBuf'[w] = a /\ wPtr'[w] = wPtr[w]
      BY <1>1, <2>1 DEF TypeInv, WriterVarTypes
    <3>2. Holds(<<"buf", w>>)' \subseteq Holds(<<"buf", w>>) \cup {a}
      BY <3>1, WriterHolds
    <3>3. a \notin InPool(pool) /\ Holds(<<"buf", w>>) \cap InPool(pool) = {}
      BY FreshFacts, NotPooled, WriterHolds DEF ShareInv
    <3>4. \A k \in Holders : k \notin {<<"buf", w>>} /\ k # <<"pool", Nil>> => Holds(k)' = Holds(k)
      BY <1>1, <2>1, OthersHold, WriterHolds DEF TypeInv, WriterVarTypes
    <3>5. <<"buf", w>> \in Holders /\ <<"buf", w>> # <<"pool", Nil>> /\ Exclusive
      BY WriterHolds DEF ShareInv
    <3>6. Holds(<<"buf", w>>)' \cap InPool(pool)' = {}
      BY <2>2, <3>2, <3>3
    <3> QED
      BY <2>2, <3>2, <3>4, <3>5, <3>6, Exchange
  <2> QED
    BY <1>1, <2>2, <2>3, <2>4 DEF ShareInv
<1> QED
  BY <1>2, <1>3 DEF WriterAppend

LEMMA FlushShare ==
  ASSUME TypeInv, ShareInv, NEW w \in Writers, Flush(w) \/ FlushFails(w) \/ ReadPiece(w)
  PROVE  ShareInv'
<1>1. /\ UNCHANGED <<pool, wPtr, wBuf, srcPtr, srcBuf, rState, field, toPtr, toBuf>>
      /\ wState' = wState \/ wState' = [wState EXCEPT ![w] = "failed"]
  BY DEF Flush, FlushFails, ReadPiece, poolVars, writerVars, readerVars
<1>2. \A v \in Writers : wState'[v] = "readFrom" => wState[v] = "readFrom"
  BY <1>1 DEF TypeInv, WriterVarTypes
<1> QED
  BY <1>1, <1>2, NothingMoves

\* A writer that is closed gives its buffer to the pool, or drops it when Close fails.
LEMMA CloseWriterShare ==
  ASSUME TypeInv, ShareInv, NEW w \in Writers, CloseWriter(w) \/ CloseWriterFails(w)
  PROVE  ShareInv'
<1>1. /\ wState[w] \in {"open", "failed"}
      /\ wState' = [wState EXCEPT ![w] = "none"]
      /\ wPtr' = [wPtr EXCEPT ![w] = NoPtr] /\ wBuf' = [wBuf EXCEPT ![w] = Nil]
      /\ UNCHANGED <<srcPtr, srcBuf, rState, field, toPtr, toBuf>>
  BY DEF CloseWriter, CloseWriterFails, Forget, readerVars
<1>2. pool' = pool \/ pool' = Put(pool, wPtr[w])
  BY DEF CloseWriter, CloseWriterFails
<1>3. WriterVarTypes /\ pool \in [Ptrs -> Nat] /\ Once(pool) /\ wPtr[w] \in Ptrs
  BY <1>1 DEF TypeInv, WriterTypes, ShareInv
<1>4. OwnOf(wPtr[w]) \subseteq Holds(<<"buf", w>>) /\ Holds(<<"buf", w>>) \cap InPool(pool) = {}
  BY WriterHolds, NotPooled DEF ShareInv
<1>5. /\ Once(pool') /\ InPool(pool)' \subseteq InPool(pool) \cup OwnOf(wPtr[w])
      /\ \A p \in Ptrs : pool'[p] > 0 => p \in Pointers
  BY <1>2, <1>3, <1>4, PutOnce, PointersHave
<1>6. Pointers' \subseteq Pointers \cup Safe
  <2>1. \A v \in Writers : wPtr'[v] \in Pointers \cup Safe
    BY <1>1, <1>3, PointersHave DEF WriterVarTypes, Safe
  <2> QED
    BY <1>1, <1>5, <2>1, PointersFrom, PointersHave
<1>7. PointInv'
  BY <1>1, <1>6, PointStep DEF ShareInv
<1>8. Exclusive'
  <2>1. Holds(<<"buf", w>>)' = {}
    BY <1>1, <1>3, WriterHolds, NoPtrFacts DEF WriterVarTypes
  <2>2. \A k \in Holders : k \notin {<<"buf", w>>} /\ k # <<"pool", Nil>> => Holds(k)' = Holds(k)
    BY <1>1, <1>3, OthersHold, WriterHolds DEF WriterVarTypes
  <2> QED
    BY <1>4, <1>5, <2>1, <2>2, Exchange, WriterHolds DEF ShareInv
<1> QED
  BY <1>1, <1>3, <1>5, <1>7, <1>8 DEF ShareInv, WriterVarTypes

LEMMA ReadFromShare ==
  ASSUME TypeInv, ShareInv, NEW w \in Writers, ReadFrom(w)
  PROVE  ShareInv'
<1>1. PICK g \in Gets(pool) :
        /\ pool' = g.pool
        /\ \/ /\ Cap(Target(g.ptr)) >= wChunk[w]
              /\ srcPtr' = [srcPtr EXCEPT ![w] = g.ptr]
              /\ srcBuf' = [srcBuf EXCEPT ![w] = Target(g.ptr)]
              /\ wState' = [wState EXCEPT ![w] = "readFrom"]
           \/ UNCHANGED <<srcPtr, srcBuf, wState>>
  BY DEF ReadFrom
<1>2. wState[w] = "open" /\ UNCHANGED <<wPtr, wBuf, rState, field, toPtr, toBuf>>
  BY DEF ReadFrom, readerVars
<1>3. WriterVarTypes /\ wChunk[w] \in Nat \ {0} /\ srcBuf[w] = Nil
  BY <1>2, Sizes DEF TypeInv, WriterTypes
<1>4. Cap(Target(g.ptr)) >= wChunk[w] => g.ptr = Own(Target(g.ptr))
  BY <1>3, GetShare, Sizes DEF Cap
<1>5. Once(pool') /\ Pointers' \subseteq Pointers \cup Safe
  <2>1. \A v \in Writers : srcPtr'[v] \in Pointers \cup Safe
    BY <1>1, <1>3, GetShare, PointersHave DEF WriterVarTypes
  <2> QED
    BY <1>1, <1>2, <2>1, GetShare, PointersFrom, PointersHave
<1>6. PointInv'
  BY <1>2, <1>5, PointStep DEF ShareInv
<1>7. Exclusive'
  <2>1. srcBuf'[w] \in {Nil, Target(g.ptr)}
    BY <1>1, <1>3 DEF WriterVarTypes
  <2>2. Holds(<<"src", w>>)' \subseteq OwnOf(g.ptr)
    <3>1. Target(g.ptr) \in OwnOf(g.ptr) \cup {Nil}
      BY GetShare
    <3> QED
      BY <2>1, <3>1, WriterHolds
  <2>3. InPool(pool)' = InPool(pool) \ OwnOf(g.ptr)
    BY <1>1, GetShare
  <2>4. \A k \in Holders : k \notin {<<"src", w>>} /\ k # <<"pool", Nil>> => Holds(k)' = Holds(k)
    BY <1>1, <1>2, <1>3, OthersHold, WriterHolds DEF WriterVarTypes
  <2>5. OwnOf(g.ptr) \subseteq InPool(pool) \cup Fresh /\ Exclusive
    BY GetShare DEF ShareInv
  <2>6. <<"src", w>> \in Holders /\ <<"src", w>> # <<"pool", Nil>>
    BY WriterHolds
  <2> QED
    BY <2>2, <2>3, <2>4, <2>5, <2>6, Exchange
<1>8. \A v \in Writers : wState'[v] = "readFrom" => srcPtr'[v] = Own(srcBuf'[v])
  BY <1>1, <1>2, <1>3, <1>4 DEF ShareInv, WriterVarTypes
<1> QED
  BY <1>2, <1>5, <1>6, <1>7, <1>8 DEF ShareInv

LEMMA ReadFromReturnShare ==
  ASSUME TypeInv, ShareInv, NEW w \in Writers, NEW to \in {"open", "failed"}, ReadFromReturn(w, to)
  PROVE  ShareInv'
<1>1. /\ wState[w] = "readFrom"
      /\ pool' = Put(pool, srcPtr[w])
      /\ srcPtr' = [srcPtr EXCEPT ![w] = NoPtr] /\ srcBuf' = [srcBuf EXCEPT ![w] = Nil]
      /\ wState' = [wState EXCEPT ![w] = to]
      /\ UNCHANGED <<wPtr, wBuf, rState, field, toPtr, toBuf>>
  BY DEF ReadFromReturn, readerVars
<1>2. /\ WriterVarTypes /\ pool \in [Ptrs -> Nat] /\ Once(pool)
      /\ srcPtr[w] \in Ptrs /\ srcBuf[w] \in Arrays /\ OwnOf(srcPtr[w]) = {srcBuf[w]}
  BY <1>1, OwnFacts DEF TypeInv, WriterTypes, ShareInv
<1>3. OwnOf(srcPtr[w]) = Holds(<<"src", w>>) /\ Holds(<<"src", w>>) \cap InPool(pool) = {}
  BY <1>2, WriterHolds, NotPooled, Sizes DEF ShareInv
<1>4. /\ Once(pool') /\ InPool(pool)' = InPool(pool) \cup OwnOf(srcPtr[w])
      /\ \A p \in Ptrs : pool'[p] > 0 => p \in Pointers
  BY <1>1, <1>2, <1>3, PutOnce, PointersHave
<1>5. Pointers' \subseteq Pointers \cup Safe
  <2>1. \A v \in Writers : srcPtr'[v] \in Pointers \cup Safe
    BY <1>1, <1>2, PointersHave DEF WriterVarTypes, Safe
  <2> QED
    BY <1>1, <1>4, <2>1, PointersFrom, PointersHave
<1>6. PointInv'
  BY <1>1, <1>5, PointStep DEF ShareInv
<1>7. Exclusive'
  <2>1. Holds(<<"src", w>>)' = {}
    BY <1>1, <1>2, WriterHolds DEF WriterVarTypes
  <2>2. \A k \in Holders : k \notin {<<"src", w>>} /\ k # <<"pool", Nil>> => Holds(k)' = Holds(k)
    BY <1>1, <1>2, OthersHold, WriterHolds DEF WriterVarTypes
  <2> QED
    BY <1>3, <1>4, <2>1, <2>2, Exchange, WriterHolds DEF ShareInv
<1> QED
  BY <1>1, <1>2, <1>4, <1>6, <1>7 DEF ShareInv, WriterVarTypes

LEMMA NewReaderShare ==
  ASSUME RetryReads = FALSE, TypeInv, ShareInv, NEW r \in Readers, NewReader(r) \/ ReadFails(r)
  PROVE  ShareInv'
<1>1. /\ \/ rState[r] = "none" /\ ~PointedAt(r) /\ rState' = [rState EXCEPT ![r] = "open"]
         \/ rState[r] = "reading" /\ rState' = [rState EXCEPT ![r] = "failed"]
      /\ UNCHANGED <<pool, wState, wPtr, wBuf, srcPtr, srcBuf, field, toPtr, toBuf>>
  BY DEF NewReader, ReadFails, poolVars, writerVars
<1>2. ReaderVarTypes /\ PointInv /\ ReaderTypes(r)
  BY DEF TypeInv, ShareInv
<1>3. \A q \in Readers : PointedAt(q) => rState'[q] = rState[q]
  BY <1>1, <1>2 DEF ReaderVarTypes, PointInv
<1>4. \A q \in Readers : rState'[q] \in {"open", "writeTo"} =>
                           rState[q] \in {"open", "writeTo"} \/ field[q] = Nil
  BY <1>1, <1>2 DEF ReaderVarTypes, ReaderTypes
<1> QED
  BY <1>1, <1>3, <1>4, NothingMoves

LEMMA AcquireShare ==
  ASSUME TypeInv, ShareInv, NEW r \in Readers, NEW n \in ReaderChunks, Acquire(r, n + 1)
  PROVE  ShareInv'
<1>1. /\ rState[r] = "open" /\ rState' = [rState EXCEPT ![r] = "reading"]
      /\ UNCHANGED <<wState, wPtr, wBuf, srcPtr, srcBuf, toPtr, toBuf>>
  BY DEF Acquire, writerVars
<1>2. /\ ReaderVarTypes /\ PointInv /\ Exclusive /\ field[r] = Nil
      /\ Cap(field[r]) = 0 /\ n + 1 \in Nat \ {0}
  BY <1>1, Sizes DEF TypeInv, ShareInv, Cap
<1>3. PICK g \in Gets(pool) :
        \/ /\ Cap(Target(g.ptr)) >= n + 1
           /\ field' = [field EXCEPT ![r] = Target(g.ptr)]
           /\ pool' = g.pool
        \/ /\ \E b \in Make(n + 1) \ {Target(g.ptr)} : field' = [field EXCEPT ![r] = b]
           /\ pool' = Put(g.pool, g.ptr)
  BY <1>2, Sizes DEF Acquire
<1>4. /\ g.ptr \in Ptrs /\ g.pool \in [Ptrs -> Nat] /\ Once(g.pool)
      /\ g.ptr \in Pointers \cup Safe /\ \A p \in Ptrs : g.pool[p] > 0 => p \in Pointers
  BY GetShare
<1>5. /\ InPool(g.pool) = InPool(pool) \ OwnOf(g.ptr)
      /\ OwnOf(g.ptr) \subseteq InPool(pool) \cup Fresh
      /\ OwnOf(g.ptr) \subseteq {Target(g.ptr)} /\ Target(g.ptr) \in OwnOf(g.ptr) \cup {Nil}
  BY GetShare
<1>6. /\ Once(pool') /\ InPool(pool)' \subseteq InPool(pool) \cup Fresh
      /\ \A p \in Ptrs : pool'[p] > 0 => p \in Pointers \cup Safe
      /\ \E b \in InPool(pool) \cup Fresh : field' = [field EXCEPT ![r] = b] /\ b \notin InPool(pool)'
  <2>1. CASE /\ Cap(Target(g.ptr)) >= n + 1
             /\ field' = [field EXCEPT ![r] = Target(g.ptr)]
             /\ pool' = g.pool
    <3>1. Target(g.ptr) # Nil
      BY <1>2, <2>1 DEF Cap
    <3>2. Target(g.ptr) \in OwnOf(g.ptr)
      BY <1>5, <3>1
    <3> QED
      BY <1>4, <1>5, <2>1, <3>2
  <2>2. CASE /\ \E b \in Make(n + 1) \ {Target(g.ptr)} : field' = [field EXCEPT ![r] = b]
             /\ pool' = Put(g.pool, g.ptr)
    <3>1. PICK b \in Make(n + 1) \ {Target(g.ptr)} : field' = [field EXCEPT ![r] = b]
      BY <2>2
    <3>2. b \in Fresh /\ b \notin InPool(pool) /\ b \notin OwnOf(g.ptr)
      BY <1>5, FreshFacts DEF Make
    <3>3. /\ Once(pool') /\ InPool(pool)' = InPool(g.pool) \cup OwnOf(g.ptr)
          /\ \A q \in Ptrs : pool'[q] > 0 => g.pool[q] > 0 \/ q = g.ptr
      BY <1>4, <1>5, <2>2, PutOnce
    <3> QED
      BY <1>4, <1>5, <3>1, <3>2, <3>3
  <2> QED
    BY <1>3, <2>1, <2>2
<1>7. PICK b \in InPool(pool) \cup Fresh : field' = [field EXCEPT ![r] = b] /\ b \notin InPool(pool)'
  BY <1>6
<1>8. Pointers' \subseteq Pointers \cup Safe
  BY <1>1, <1>6, PointersFrom, PointersHave
<1>9. PointInv'
  BY <1>1, <1>2, <1>8, PointStep DEF PointInv, ReaderVarTypes
<1>10. Exclusive'
  <2>1. Holds(<<"field", r>>)' \subseteq {b}
    BY <1>2, <1>7, ReaderHolds DEF ReaderVarTypes
  <2>2. \A k \in Holders : k \notin {<<"field", r>>} /\ k # <<"pool", Nil>> => Holds(k)' = Holds(k)
    BY <1>1, <1>2, <1>7, OthersHold, ReaderHolds DEF ReaderVarTypes
  <2>3. <<"field", r>> \in Holders /\ <<"field", r>> # <<"pool", Nil>>
    BY ReaderHolds
  <2> QED
    BY <1>2, <1>6, <1>7, <2>1, <2>2, <2>3, Exchange
<1> QED
  BY <1>1, <1>2, <1>6, <1>7, <1>9, <1>10 DEF ShareInv, ReaderVarTypes

\* The end of a Read, a Close or a reader that is dropped: the buffer is returned under a
\* pointer that owns it, or under the address of the field, which is then nil.
LEMMA ReleaseShare ==
  ASSUME TypeInv, ShareInv, NEW r \in Readers, Finish(r) \/ CloseReader(r) \/ DropReader(r)
  PROVE  ShareInv'
<1>1. /\ rState[r] \in {"reading", "open", "failed"}
      /\ \E st \in {"open", "none"} : rState' = [rState EXCEPT ![r] = st]
      /\ field' = [field EXCEPT ![r] = Nil]
      /\ UNCHANGED <<wState, wPtr, wBuf, srcPtr, srcBuf, toPtr, toBuf>>
  BY DEF Finish, CloseReader, DropReader, writerVars
<1>2. /\ ReaderVarTypes /\ pool \in [Ptrs -> Nat] /\ Once(pool) /\ PointInv /\ Exclusive
      /\ rState[r] = "open" => field[r] = Nil
      /\ rState[r] = "reading" => field[r] \in Arrays
  BY DEF TypeInv, ReaderTypes, ShareInv
<1>3. \/ pool' = pool
      \/ rState[r] = "reading" /\ pool' = Put(pool, Own(field[r]))
      \/ /\ CloseFailedReads /\ rState' = [rState EXCEPT ![r] = "none"]
         /\ pool' = Put(pool, <<"field", r>>)
  BY <1>2 DEF Finish, CloseReader, DropReader, poolVars, Own
<1>4. <<"field", r>> \in Ptrs /\ OwnOf(<<"field", r>>) = {}
  BY DEF Ptrs, OwnOf
<1>5. /\ Once(pool') /\ InPool(pool)' \subseteq InPool(pool) \cup Holds(<<"field", r>>)
      /\ \A p \in Ptrs : pool'[p] > 0 =>
           \/ p \in Pointers \cup Safe
           \/ p = <<"field", r>> /\ CloseFailedReads /\ rState'[r] = "none"
  <2>1. CASE pool' = pool
    BY <1>2, <2>1, PointersHave
  <2>2. CASE rState[r] = "reading" /\ pool' = Put(pool, Own(field[r]))
    <3>1. /\ field[r] \in Arrays /\ OwnOf(Own(field[r])) = {field[r]} /\ Own(field[r]) \in Ptrs
          /\ Own(field[r]) \in Safe
      BY <1>2, <2>2, OwnFacts DEF Safe
    <3>2. Holds(<<"field", r>>) = {field[r]} /\ Holds(<<"field", r>>) \cap InPool(pool) = {}
      BY <1>2, <3>1, ReaderHolds, NotPooled, Sizes
    <3> QED
      BY <1>2, <2>2, <3>1, <3>2, PutOnce, PointersHave
  <2>3. CASE /\ CloseFailedReads /\ rState' = [rState EXCEPT ![r] = "none"]
             /\ pool' = Put(pool, <<"field", r>>)
    <3>1. rState'[r] = "none"
      BY <1>2, <2>3 DEF ReaderVarTypes
    <3> QED
      BY <1>2, <1>4, <2>3, <3>1, PutOnce, PointersHave
  <2> QED
    BY <1>3, <2>1, <2>2, <2>3
<1>6. ASSUME NEW q \in Readers, PointedAt(q)'
      PROVE  CloseFailedReads /\ rState'[q] = "none"
  <2> DEFINE S == Pointers \cup Safe
                  \cup {p \in {<<"field", r>>} : CloseFailedReads /\ rState'[r] = "none"}
  <2>1. /\ \A p \in Ptrs : pool'[p] > 0 => p \in S
        /\ \A w \in Writers : wPtr'[w] \in S /\ srcPtr'[w] \in S
        /\ \A v \in Readers : toPtr'[v] \in S
    BY <1>1, <1>5, PointersHave
  <2>2. <<"field", q>> \in Pointers \/ (q = r /\ CloseFailedReads /\ rState'[r] = "none")
    <3>1. <<"field", q>> \in S
      <4> HIDE DEF S
      <4> QED
        BY <1>6, <2>1, PointersFrom DEF PointedAt
    <3> QED
      BY <3>1, SafePtrs
  <2>3. CASE <<"field", q>> \in Pointers
    <3>1. CloseFailedReads /\ rState[q] = "none"
      BY <1>2, <2>3 DEF PointInv, PointedAt
    <3> QED
      BY <1>1, <1>2, <3>1 DEF ReaderVarTypes
  <2> QED
    BY <2>2, <2>3
<1>7. PointInv'
  BY <1>6 DEF PointInv
<1>8. Exclusive'
  <2>1. Holds(<<"field", r>>)' = {}
    BY <1>1, <1>2, ReaderHolds DEF ReaderVarTypes
  <2>2. \A k \in Holders : k \notin {<<"field", r>>} /\ k # <<"pool", Nil>> => Holds(k)' = Holds(k)
    BY <1>1, <1>2, OthersHold, ReaderHolds DEF ReaderVarTypes
  <2>3. <<"field", r>> \in Holders /\ <<"field", r>> # <<"pool", Nil>>
    BY ReaderHolds
  <2> QED
    BY <1>2, <1>5, <2>1, <2>2, <2>3, Exchange
<1> QED
  BY <1>1, <1>2, <1>5, <1>7, <1>8 DEF ShareInv, ReaderVarTypes

LEMMA WriteToShare ==
  ASSUME TypeInv, ShareInv, NEW r \in Readers, WriteTo(r)
  PROVE  ShareInv'
<1>1. PICK g \in Gets(pool) :
        /\ pool' = g.pool
        /\ toPtr' = [toPtr EXCEPT ![r] = g.ptr]
        /\ toBuf' = [toBuf EXCEPT ![r] = Target(g.ptr)]
  BY DEF WriteTo
<1>2. /\ rState[r] = "open" /\ rState' = [rState EXCEPT ![r] = "writeTo"]
      /\ UNCHANGED <<wState, wPtr, wBuf, srcPtr, srcBuf, field>>
  BY DEF WriteTo, writerVars
<1>3. ReaderVarTypes /\ PointInv /\ Exclusive
  BY DEF TypeInv, ShareInv
<1>4. Once(pool') /\ Pointers' \subseteq Pointers \cup Safe
  <2>1. \A q \in Readers : toPtr'[q] \in Pointers \cup Safe
    BY <1>1, <1>3, GetShare, PointersHave DEF ReaderVarTypes
  <2> QED
    BY <1>1, <1>2, <2>1, GetShare, PointersFrom, PointersHave
<1>5. PointInv'
  BY <1>2, <1>3, <1>4, PointStep DEF PointInv, ReaderVarTypes
<1>6. Exclusive'
  <2>1. toPtr'[r] = g.ptr /\ toBuf'[r] = Target(g.ptr)
    BY <1>1, <1>3 DEF ReaderVarTypes
  <2>2. Holds(<<"to", r>>)' \subseteq OwnOf(g.ptr)
    <3>1. Target(g.ptr) \in OwnOf(g.ptr) \cup {Nil}
      BY GetShare
    <3> QED
      BY <2>1, <3>1, ReaderHolds
  <2>3. InPool(pool)' = InPool(pool) \ OwnOf(g.ptr)
    BY <1>1, GetShare
  <2>4. \A k \in Holders : k \notin {<<"to", r>>} /\ k # <<"pool", Nil>> => Holds(k)' = Holds(k)
    BY <1>1, <1>2, <1>3, OthersHold, ReaderHolds DEF ReaderVarTypes
  <2>5. OwnOf(g.ptr) \subseteq InPool(pool) \cup Fresh
    BY GetShare
  <2>6. <<"to", r>> \in Holders /\ <<"to", r>> # <<"pool", Nil>>
    BY ReaderHolds
  <2> QED
    BY <1>3, <2>2, <2>3, <2>4, <2>5, <2>6, Exchange
<1> QED
  BY <1>2, <1>3, <1>4, <1>5, <1>6 DEF ShareInv, ReaderVarTypes

LEMMA GrowShare ==
  ASSUME TypeInv, ShareInv, NEW r \in Readers, NEW n, Grow(r, n)
  PROVE  ShareInv'
<1>1. UNCHANGED <<pool, wState, wPtr, wBuf, srcPtr, srcBuf, rState, field, toPtr>>
  BY DEF Grow, poolVars, writerVars
<1>2. PICK b \in Make(n) : toBuf' = [toBuf EXCEPT ![r] = b]
  BY DEF Grow
<1>3. b \in Fresh
  BY DEF Make
<1>4. InPool(pool)' = InPool(pool) /\ Once(pool') /\ Pointers' = Pointers
  BY <1>1 DEF ShareInv, Pointers, Pooled
<1>5. PointInv'
  BY <1>1, <1>4, PointStep DEF ShareInv
<1>6. Exclusive'
  <2>1. toBuf'[r] = b /\ toPtr'[r] = toPtr[r]
    BY <1>1, <1>2 DEF TypeInv, ReaderVarTypes
  <2>2. Holds(<<"to", r>>)' \subseteq Holds(<<"to", r>>) \cup {b}
    BY <2>1, ReaderHolds
  <2>3. b \notin InPool(pool) /\ Holds(<<"to", r>>) \cap InPool(pool) = {}
    BY <1>3, FreshFacts, NotPooled, ReaderHolds DEF ShareInv
  <2>4. \A k \in Holders : k \notin {<<"to", r>>} /\ k # <<"pool", Nil>> => Holds(k)' = Holds(k)
    BY <1>1, <1>2, OthersHold, ReaderHolds DEF TypeInv, ReaderVarTypes
  <2>5. <<"to", r>> \in Holders /\ <<"to", r>> # <<"pool", Nil>> /\ Exclusive
    BY ReaderHolds DEF ShareInv
  <2>6. Holds(<<"to", r>>)' \cap InPool(pool)' = {}
    BY <1>4, <2>2, <2>3
  <2> QED
    BY <1>3, <1>4, <2>2, <2>4, <2>5, <2>6, Exchange
<1> QED
  BY <1>1, <1>4, <1>5, <1>6 DEF ShareInv

LEMMA WriteToReturnShare ==
  ASSUME TypeInv, ShareInv, NEW r \in Readers, WriteToReturn(r)
  PROVE  ShareInv'
<1>1. /\ rState[r] = "writeTo" /\ rState' = [rState EXCEPT ![r] = "open"]
      /\ pool' = Put(pool, toPtr[r])
      /\ toPtr' = [toPtr EXCEPT ![r] = NoPtr] /\ toBuf' = [toBuf EXCEPT ![r] = Nil]
      /\ UNCHANGED <<wState, wPtr, wBuf, srcPtr, srcBuf, field>>
  BY DEF WriteToReturn, writerVars
<1>2. /\ ReaderVarTypes /\ pool \in [Ptrs -> Nat] /\ Once(pool) /\ toPtr[r] \in Ptrs
      /\ PointInv /\ Exclusive
  BY <1>1 DEF TypeInv, ReaderTypes, ShareInv
<1>3. OwnOf(toPtr[r]) \subseteq Holds(<<"to", r>>) /\ Holds(<<"to", r>>) \cap InPool(pool) = {}
  BY <1>2, ReaderHolds, NotPooled
<1>4. /\ Once(pool') /\ InPool(pool)' = InPool(pool) \cup OwnOf(toPtr[r])
      /\ \A p \in Ptrs : pool'[p] > 0 => p \in Pointers
  BY <1>1, <1>2, <1>3, PutOnce, PointersHave
<1>5. Pointers' \subseteq Pointers \cup Safe
  <2>1. \A q \in Readers : toPtr'[q] \in Pointers \cup Safe
    BY <1>1, <1>2, PointersHave DEF ReaderVarTypes, Safe
  <2> QED
    BY <1>1, <1>4, <2>1, PointersFrom, PointersHave
<1>6. PointInv'
  BY <1>1, <1>2, <1>5, PointStep DEF PointInv, ReaderVarTypes
<1>7. Exclusive'
  <2>1. Holds(<<"to", r>>)' = {}
    BY <1>1, <1>2, ReaderHolds, NoPtrFacts DEF ReaderVarTypes
  <2>2. \A k \in Holders : k \notin {<<"to", r>>} /\ k # <<"pool", Nil>> => Holds(k)' = Holds(k)
    BY <1>1, <1>2, OthersHold, ReaderHolds DEF ReaderVarTypes
  <2>3. <<"to", r>> \in Holders /\ <<"to", r>> # <<"pool", Nil>>
    BY ReaderHolds
  <2> QED
    BY <1>2, <1>3, <1>4, <2>1, <2>2, <2>3, Exchange
<1> QED
  BY <1>1, <1>2, <1>4, <1>6, <1>7 DEF ShareInv, ReaderVarTypes

LEMMA StepShare == RetryReads = FALSE /\ TypeInv /\ ShareInv /\ [Next]_vars => ShareInv'
<1> SUFFICES ASSUME RetryReads = FALSE, TypeInv, ShareInv, [Next]_vars
             PROVE  ShareInv'
  OBVIOUS
<1>1. CASE \E w \in Writers : WriterStep(w)
  <2>1. PICK w \in Writers : WriterStep(w)
    BY <1>1
  <2> QED
    BY <2>1, NewWriterShare, WriterAppendShare, FlushShare, CloseWriterShare, ReadFromShare,
       ReadFromReturnShare DEF WriterStep
<1>2. CASE \E r \in Readers : ReaderStep(r)
  <2>1. PICK r \in Readers : ReaderStep(r)
    BY <1>2
  <2> QED
    BY <2>1, NewReaderShare, AcquireShare, GrowShare, ReleaseShare, WriteToShare,
       WriteToReturnShare DEF ReaderStep
<1>3. CASE UNCHANGED vars
  BY <1>3, NothingMoves DEF vars, poolVars, writerVars, readerVars
<1> QED
  BY <1>1, <1>2, <1>3 DEF Next

\* The invariant behind the two theorems that follow.
THEOREM Sharing == ASSUME RetryReads = FALSE PROVE Spec => [](TypeInv /\ ShareInv)
BY InitTypes, StepTypes, InitShare, StepShare, PTL DEF Spec

\* The holder of a slice in use.
HolderOf(s) == <<IF s[1] = "sealed" THEN "field" ELSE s[1], s[2]>>

LEMMA InUseHolder ==
  ASSUME NEW s \in InUse
  PROVE  /\ HolderOf(s) \in Holders /\ HolderOf(s) # <<"pool", Nil>>
         /\ s[3] # Nil => s[3] \in Holds(HolderOf(s))
<1>1. CASE s \in {<<"buf", w, wBuf[w]>> : w \in Writers}
  <2>1. PICK w \in Writers : s = <<"buf", w, wBuf[w]>>
    BY <1>1
  <2>2. HolderOf(s) = <<"buf", w>> /\ s[3] = wBuf[w]
    BY <2>1 DEF HolderOf
  <2>3. <<"buf", w>> \in Holders /\ <<"buf", w>> # <<"pool", Nil>>
    BY DEF Holders
  <2>4. wBuf[w] # Nil => wBuf[w] \in Holds(<<"buf", w>>)
    BY WriterHolds
  <2> QED
    BY <2>2, <2>3, <2>4
<1>2. CASE s \in {<<"src", w, srcBuf[w]>> : w \in Writers}
  <2>1. PICK w \in Writers : s = <<"src", w, srcBuf[w]>>
    BY <1>2
  <2>2. HolderOf(s) = <<"src", w>> /\ s[3] = srcBuf[w]
    BY <2>1 DEF HolderOf
  <2>3. <<"src", w>> \in Holders /\ <<"src", w>> # <<"pool", Nil>>
    BY DEF Holders
  <2>4. srcBuf[w] # Nil => srcBuf[w] \in Holds(<<"src", w>>)
    BY WriterHolds
  <2> QED
    BY <2>2, <2>3, <2>4
<1>3. CASE s \in {<<"sealed", r, field[r]>> : r \in Readers}
  <2>1. PICK r \in Readers : s = <<"sealed", r, field[r]>>
    BY <1>3
  <2>2. HolderOf(s) = <<"field", r>> /\ s[3] = field[r]
    BY <2>1 DEF HolderOf
  <2>3. <<"field", r>> \in Holders /\ <<"field", r>> # <<"pool", Nil>>
    BY DEF Holders
  <2>4. field[r] # Nil => field[r] \in Holds(<<"field", r>>)
    BY ReaderHolds
  <2> QED
    BY <2>2, <2>3, <2>4
<1>4. CASE s \in {<<"to", r, toBuf[r]>> : r \in Readers}
  <2>1. PICK r \in Readers : s = <<"to", r, toBuf[r]>>
    BY <1>4
  <2>2. HolderOf(s) = <<"to", r>> /\ s[3] = toBuf[r]
    BY <2>1 DEF HolderOf
  <2>3. <<"to", r>> \in Holders /\ <<"to", r>> # <<"pool", Nil>>
    BY DEF Holders
  <2>4. toBuf[r] # Nil => toBuf[r] \in Holds(<<"to", r>>)
    BY ReaderHolds
  <2> QED
    BY <2>2, <2>3, <2>4
<1> QED
  BY <1>1, <1>2, <1>3, <1>4 DEF InUse

\* Two slices in use with the same holder are the same.
LEMMA OneSlice ==
  ASSUME NEW s \in InUse, NEW t \in InUse, s # t
  PROVE  HolderOf(s) # HolderOf(t)
<1>1. \A u \in InUse :
        \/ HolderOf(u)[1] = "buf" /\ u = <<"buf", HolderOf(u)[2], wBuf[HolderOf(u)[2]]>>
        \/ HolderOf(u)[1] = "src" /\ u = <<"src", HolderOf(u)[2], srcBuf[HolderOf(u)[2]]>>
        \/ HolderOf(u)[1] = "field" /\ u = <<"sealed", HolderOf(u)[2], field[HolderOf(u)[2]]>>
        \/ HolderOf(u)[1] = "to" /\ u = <<"to", HolderOf(u)[2], toBuf[HolderOf(u)[2]]>>
  BY DEF InUse, HolderOf
<1> QED
  BY <1>1

\* A pooled pointer that leads to an array owns it, and nobody else holds it.
LEMMA PooledTarget ==
  ASSUME TypeInv, ShareInv, NEW p \in Pooled, Target(p) # Nil
  PROVE  /\ p = Own(Target(p)) /\ pool[p] = 1 /\ Target(p) \in InPool(pool)
         /\ \A h \in Holders \ {<<"pool", Nil>>} : Target(p) \notin Holds(h)
<1>1. p \in Ptrs /\ pool[p] > 0 /\ p \in Pointers
  BY PointersHave DEF Pooled
<1>2. p = Own(Target(p)) /\ Target(p) \in Arrays
  BY <1>1, PointedTarget, TargetType DEF TypeInv
<1>3. Target(p) \in InPool(pool) /\ pool[p] \in {0, 1}
  BY <1>1, <1>2 DEF InPool, ShareInv, Once
<1> QED
  BY <1>1, <1>2, <1>3, NotPooled DEF ShareInv

\* No array is in two hands: two slices of writers and readers, a slice and the pool, or
\* the pool twice, whatever the goroutines do.  Chunks may be larger than a pooled buffer,
\* and readers whose Read failed may be closed.
THEOREM NoSharedBufferHolds == ASSUME RetryReads = FALSE PROVE Spec => []NoSharedBuffer
<1>1. TypeInv /\ ShareInv => NoSharedBuffer
  <2> SUFFICES ASSUME TypeInv, ShareInv
               PROVE  NoSharedBuffer
    OBVIOUS
  <2>1. ASSUME NEW s \in InUse, NEW t \in InUse, s # t, s[3] = t[3], s[3] # Nil
        PROVE  FALSE
    <3>1. HolderOf(s) # HolderOf(t) /\ HolderOf(s) \in Holders /\ HolderOf(t) \in Holders
      BY <2>1, OneSlice, InUseHolder
    <3>2. s[3] \in Holds(HolderOf(s)) /\ s[3] \in Holds(HolderOf(t))
      BY <2>1, InUseHolder
    <3> QED
      BY <3>1, <3>2 DEF ShareInv, Exclusive
  <2>2. ASSUME NEW s \in InUse, NEW p \in Pooled, s[3] = Target(p), s[3] # Nil
        PROVE  FALSE
    BY <2>2, InUseHolder, PooledTarget
  <2>3. ASSUME NEW p \in Pooled, NEW q \in Pooled, p # q, Target(p) = Target(q)
        PROVE  Target(p) = Nil
    BY <2>3, PooledTarget
  <2>4. ASSUME NEW p \in Pooled, pool[p] > 1
        PROVE  Target(p) = Nil
    BY <2>4, PooledTarget
  <2> QED
    BY <2>1, <2>2, <2>3, <2>4 DEF NoSharedBuffer
<1> QED
  BY <1>1, Sharing, PTL

\* reader.go:111-113: no pointer in the pool leads to a nil slice, for callers that leave a
\* reader alone once its Read has failed.
THEOREM PoolNeverNilHolds ==
  ASSUME RetryReads = FALSE, CloseFailedReads = FALSE
  PROVE  Spec => []PoolNeverNil
<1>1. TypeInv /\ ShareInv => PoolNeverNil
  <2> SUFFICES ASSUME TypeInv, ShareInv, NEW p \in Pooled
               PROVE  Target(p) # Nil
    BY DEF PoolNeverNil
  <2>1. p \in Ptrs /\ p \in Pointers
    BY PointersHave DEF Pooled
  <2>2. \A r \in Readers : p # <<"field", r>>
    BY <2>1 DEF ShareInv, PointInv, PointedAt
  <2> QED
    BY <2>1, <2>2, TwoKinds, Sizes
<1> QED
  BY <1>1, Sharing, PTL
-----------------------------------------------------------------------------
(* The state of the buffers, for callers like those of SealGo.go             *)

LEMMA InitFit == Init => FitInv
<1> SUFFICES ASSUME Init
             PROVE  FitInv
  OBVIOUS
<1>1. InPool(pool) = {}
  BY OwnFacts DEF Init, InPool
<1> QED
  BY <1>1 DEF Init, FitInv, LargeInv, DirtyInv

\* With such callers every pointer that somebody has owns an array.
LEMMA OwningPointer ==
  ASSUME Callers, ShareInv, NEW p \in Ptrs, p \in Pointers
  PROVE  \E a \in Arrays : p = Own(a) /\ OwnOf(p) = {a} /\ Target(p) = a
<1>1. \A r \in Readers : p # <<"field", r>>
  BY DEF Callers, ShareInv, PointInv, PointedAt
<1> QED
  BY <1>1, TwoKinds

\* What Get returns holds a chunk.
LEMMA GetFit ==
  ASSUME Callers, TypeInv, ShareInv, LargeInv, NEW g \in Gets(pool)
  PROVE  /\ Large(Target(g.ptr)) /\ g.ptr = Own(Target(g.ptr))
         /\ \A a \in InPool(g.pool) : Large(a)
<1>1. /\ g.ptr \in Ptrs /\ InPool(g.pool) = InPool(pool) \ OwnOf(g.ptr)
      /\ Target(g.ptr) # Nil => g.ptr = Own(Target(g.ptr))
  BY GetShare
<1>2. \A a \in InPool(pool) : Large(a)
  BY DEF LargeInv
<1>3. CASE pool[g.ptr] > 0
  <2>1. PICK a \in Arrays : g.ptr = Own(a) /\ Target(g.ptr) = a
    BY <1>1, <1>3, OwningPointer, PointersHave
  <2>2. a \in InPool(pool)
    BY <1>3, <2>1 DEF InPool
  <2> QED
    BY <1>1, <1>2, <2>1, <2>2
<1>4. CASE \E a \in Fresh : a \in Arrays /\ CapOf[a] = PoolCap /\ g.ptr = Own(a)
  <2>1. PICK a \in Arrays : CapOf[a] = PoolCap /\ g.ptr = Own(a)
    BY <1>4
  <2> QED
    BY <1>1, <1>2, <2>1, OwnFacts, Sizes DEF Large
<1> QED
  BY <1>3, <1>4, GetFacts DEF TypeInv

LEMMA PutFit ==
  ASSUME NEW pl \in [Ptrs -> Nat], \A a \in InPool(pl) : Large(a), NEW b \in Arrays, Large(b)
  PROVE  \A a \in InPool(Put(pl, Own(b))) : Large(a)
<1> SUFFICES ASSUME NEW a \in InPool(Put(pl, Own(b))), a # b
             PROVE  Large(a)
  OBVIOUS
<1>1. a \in Arrays /\ Own(a) # Own(b) /\ Own(a) \in Ptrs /\ Own(b) \in Ptrs
  BY OwnFacts DEF InPool
<1>2. pl[Own(a)] > 0
  BY <1>1, PutFacts DEF InPool
<1> QED
  BY <1>1, <1>2 DEF InPool

LEMMA NewWriterFit ==
  ASSUME Callers, TypeInv, ShareInv, FitInv, NEW w \in Writers, NEW chunk \in WriterChunks,
         NewWriter(w, chunk)
  PROVE  FitInv'
<1>1. PICK g \in Gets(pool) :
        /\ pool' = g.pool
        /\ wPtr' = [wPtr EXCEPT ![w] = g.ptr]
        /\ wBuf' = [wBuf EXCEPT ![w] = Target(g.ptr)]
  BY DEF NewWriter
<1>2. /\ wState[w] = "none" /\ wState' = [wState EXCEPT ![w] = "open"]
      /\ UNCHANGED <<dirty, srcPtr, srcBuf, rState, field, toPtr, toBuf, panicked>>
  BY DEF NewWriter, readerVars
<1>3. /\ Large(Target(g.ptr)) /\ g.ptr = Own(Target(g.ptr))
      /\ \A a \in InPool(g.pool) : Large(a)
  BY GetFit DEF FitInv
<1>4. WriterVarTypes /\ wBuf[w] = Nil /\ dirty \subseteq Arrays
  BY <1>2 DEF TypeInv, WriterTypes
<1>5. LargeInv'
  BY <1>1, <1>2, <1>3, <1>4 DEF FitInv, LargeInv, WriterVarTypes
<1>6. DirtyInv'
  <2>1. ASSUME NEW a \in dirty
        PROVE  \E v \in Writers : a \in {wBuf'[v], srcBuf'[v]}
    <3>1. PICK v \in Writers : a \in {wBuf[v], srcBuf[v]}
      BY DEF FitInv, DirtyInv
    <3>2. a # Nil
      BY <1>4, Sizes
    <3>3. a \in {wBuf'[v], srcBuf'[v]}
      BY <1>1, <1>2, <1>4, <3>1, <3>2 DEF WriterVarTypes
    <3> QED
      BY <3>3
  <2> QED
    BY <1>2, <2>1 DEF DirtyInv
<1> QED
  BY <1>2, <1>5, <1>6 DEF FitInv

\* append within the capacity of a pooled buffer.
LEMMA WriterAppendFit ==
  ASSUME Callers, TypeInv, FitInv, NEW w \in Writers, NEW n \in {wChunk[w] - 1, wChunk[w]},
         WriterAppend(w, n)
  PROVE  FitInv'
<1>1. wState[w] \in {"open", "readFrom"} /\ n <= wChunk[w]
  BY DEF WriterAppend
<1>2. Large(wBuf[w]) /\ wChunk[w] \in 1..PoolCap
  BY <1>1 DEF Callers, FitInv, LargeInv, TypeInv, WriterTypes
<1>3. n <= Cap(wBuf[w])
  BY <1>1, <1>2, Sizes DEF Large, Cap
<1>4. ~(n > Cap(wBuf[w]))
  BY <1>2, <1>3, Sizes DEF Large, Cap
<1>5. /\ dirty' = dirty \cup {wBuf[w]}
      /\ UNCHANGED <<pool, wState, wPtr, wBuf, srcPtr, srcBuf, rState, field, toPtr, toBuf, panicked>>
  BY <1>4 DEF WriterAppend, readerVars
<1> QED
  BY <1>5 DEF FitInv, LargeInv, DirtyInv

LEMMA FlushFit ==
  ASSUME TypeInv, FitInv, NEW w \in Writers, Flush(w) \/ FlushFails(w) \/ ReadPiece(w)
  PROVE  FitInv'
<1>1. /\ dirty' \subseteq dirty \cup {srcBuf[w]}
      /\ wState' = wState \/ (wState[w] = "open" /\ wState' = [wState EXCEPT ![w] = "failed"])
      /\ UNCHANGED <<pool, wPtr, wBuf, srcPtr, srcBuf, rState, field, toPtr, toBuf, panicked>>
  BY DEF Flush, FlushFails, ReadPiece, poolVars, writerVars, readerVars
<1>2. LargeInv'
  BY <1>1 DEF TypeInv, WriterVarTypes, FitInv, LargeInv
<1> QED
  BY <1>1, <1>2 DEF FitInv, DirtyInv

LEMMA CloseWriterFit ==
  ASSUME TypeInv, FitInv, NEW w \in Writers, CloseWriter(w) \/ CloseWriterFails(w)
  PROVE  FitInv'
<1>1. /\ wState[w] \in {"open", "failed"} /\ wState' = [wState EXCEPT ![w] = "none"]
      /\ wPtr' = [wPtr EXCEPT ![w] = NoPtr] /\ wBuf' = [wBuf EXCEPT ![w] = Nil]
      /\ UNCHANGED <<srcPtr, srcBuf, rState, field, toPtr, toBuf, panicked>>
      /\ dirty' \subseteq dirty \ {wBuf[w]}
  BY DEF CloseWriter, CloseWriterFails, Forget, readerVars
<1>2. Large(wBuf[w]) /\ wBuf[w] \in Arrays /\ wPtr[w] = Own(wBuf[w]) /\ \A a \in InPool(pool) : Large(a)
  BY <1>1 DEF FitInv, LargeInv, Large
<1>3. pool' = pool \/ pool' = Put(pool, Own(wBuf[w]))
  BY <1>2 DEF CloseWriter, CloseWriterFails
<1>4. \A a \in InPool(pool') : Large(a)
  BY <1>2, <1>3, PutFit DEF TypeInv
<1>5. LargeInv'
  BY <1>1, <1>4 DEF TypeInv, WriterVarTypes, FitInv, LargeInv
<1>6. DirtyInv'
  BY <1>1 DEF TypeInv, WriterVarTypes, FitInv, DirtyInv
<1> QED
  BY <1>1, <1>5, <1>6 DEF FitInv

\* The slice expression of ReadFrom finds a large enough array.
LEMMA ReadFromFit ==
  ASSUME Callers, TypeInv, ShareInv, FitInv, NEW w \in Writers, ReadFrom(w)
  PROVE  FitInv'
<1>1. PICK g \in Gets(pool) :
        /\ pool' = g.pool
        /\ \/ /\ Cap(Target(g.ptr)) >= wChunk[w]
              /\ srcPtr' = [srcPtr EXCEPT ![w] = g.ptr]
              /\ srcBuf' = [srcBuf EXCEPT ![w] = Target(g.ptr)]
              /\ wState' = [wState EXCEPT ![w] = "readFrom"]
              /\ UNCHANGED panicked
           \/ Cap(Target(g.ptr)) < wChunk[w]
  BY DEF ReadFrom
<1>2. /\ wState[w] = "open"
      /\ UNCHANGED <<dirty, wPtr, wBuf, rState, field, toPtr, toBuf>>
  BY DEF ReadFrom, readerVars
<1>3. Large(Target(g.ptr)) /\ \A a \in InPool(g.pool) : Large(a)
  BY GetFit DEF FitInv
<1>4. WriterVarTypes /\ wChunk[w] \in 1..PoolCap /\ srcBuf[w] = Nil /\ dirty \subseteq Arrays
  BY <1>2 DEF Callers, TypeInv, WriterTypes
<1>5. ~(Cap(Target(g.ptr)) < wChunk[w])
  BY <1>3, <1>4, Sizes DEF Large, Cap
<1>6. /\ srcBuf' = [srcBuf EXCEPT ![w] = Target(g.ptr)]
      /\ wState' = [wState EXCEPT ![w] = "readFrom"] /\ UNCHANGED panicked
  BY <1>1, <1>5
<1>7. LargeInv'
  BY <1>1, <1>2, <1>3, <1>4, <1>6 DEF FitInv, LargeInv, WriterVarTypes
<1>8. DirtyInv'
  <2>1. ASSUME NEW a \in dirty
        PROVE  \E v \in Writers : a \in {wBuf'[v], srcBuf'[v]}
    <3>1. PICK v \in Writers : a \in {wBuf[v], srcBuf[v]}
      BY DEF FitInv, DirtyInv
    <3>2. a # Nil
      BY <1>4, Sizes
    <3>3. a \in {wBuf'[v], srcBuf'[v]}
      BY <1>2, <1>4, <1>6, <3>1, <3>2 DEF WriterVarTypes
    <3> QED
      BY <3>3
  <2> QED
    BY <1>2, <2>1 DEF DirtyInv
<1> QED
  BY <1>6, <1>7, <1>8 DEF FitInv

LEMMA ReadFromReturnFit ==
  ASSUME TypeInv, ShareInv, FitInv, NEW w \in Writers, NEW to \in {"open", "failed"},
         ReadFromReturn(w, to)
  PROVE  FitInv'
<1>1. /\ wState[w] = "readFrom" /\ wState' = [wState EXCEPT ![w] = to]
      /\ pool' = Put(pool, srcPtr[w])
      /\ srcPtr' = [srcPtr EXCEPT ![w] = NoPtr] /\ srcBuf' = [srcBuf EXCEPT ![w] = Nil]
      /\ dirty' = dirty \ {srcBuf[w]}
      /\ UNCHANGED <<wPtr, wBuf, rState, field, toPtr, toBuf, panicked>>
  BY DEF ReadFromReturn, readerVars
<1>2. /\ srcPtr[w] = Own(srcBuf[w]) /\ Large(srcBuf[w]) /\ srcBuf[w] \in Arrays
      /\ \A a \in InPool(pool) : Large(a)
  BY <1>1 DEF ShareInv, FitInv, LargeInv, Large
<1>3. \A a \in InPool(pool') : Large(a)
  BY <1>1, <1>2, PutFit DEF TypeInv
<1>4. LargeInv'
  BY <1>1, <1>3 DEF TypeInv, WriterVarTypes, FitInv, LargeInv
<1>5. DirtyInv'
  BY <1>1 DEF TypeInv, WriterVarTypes, FitInv, DirtyInv
<1> QED
  BY <1>1, <1>4, <1>5 DEF FitInv

\* Steps of a reader: it holds, and returns, buffers that hold a chunk, and no plaintext.
LEMMA ReaderFit ==
  ASSUME TypeInv, FitInv, NEW r \in Readers, UNCHANGED <<dirty, writerVars, panicked>>,
         \A a \in InPool(pool') : Large(a),
         \A q \in Readers \ {r} : UNCHANGED <<rState[q], field[q], toPtr[q]>>,
         rState'[r] = "reading" => Large(field'[r]),
         rState'[r] = "writeTo" => \E a \in Arrays : Large(a) /\ toPtr'[r] = Own(a)
  PROVE  FitInv'
<1>1. LargeInv'
  <2>1. ASSUME NEW q \in Readers
        PROVE  /\ rState'[q] = "reading" => Large(field'[q])
               /\ rState'[q] = "writeTo" => \E a \in Arrays : Large(a) /\ toPtr'[q] = Own(a)
    <3>1. CASE q = r
      BY <3>1
    <3>2. CASE q # r
      BY <3>2 DEF FitInv, LargeInv
    <3> QED
      BY <3>1, <3>2
  <2> QED
    BY <2>1 DEF FitInv, LargeInv, writerVars, Large
<1> QED
  BY <1>1 DEF FitInv, DirtyInv, writerVars

LEMMA ReaderStateFit ==
  ASSUME Callers, TypeInv, ShareInv, FitInv, NEW r \in Readers,
         NewReader(r) \/ Finish(r) \/ ReadFails(r) \/ CloseReader(r) \/ DropReader(r)
  PROVE  FitInv'
<1>1. /\ \E st \in {"none", "open", "failed"} : rState' = [rState EXCEPT ![r] = st]
      /\ UNCHANGED <<dirty, writerVars, toPtr, panicked>>
      /\ field' = field \/ field' = [field EXCEPT ![r] = Nil]
  BY DEF NewReader, Finish, ReadFails, CloseReader, DropReader, poolVars
<1>2. ReaderVarTypes /\ rState[r] = "open" => field[r] = Nil
  BY DEF TypeInv, ShareInv
<1>3. \/ pool' = pool
      \/ rState[r] = "reading" /\ pool' = Put(pool, Own(field[r]))
  BY <1>2 DEF Callers, TypeInv, ShareInv, NewReader, Finish, ReadFails, CloseReader, DropReader,
              poolVars, Own
<1>4. (\A a \in InPool(pool) : Large(a)) /\ (rState[r] = "reading" => Large(field[r]))
  BY DEF FitInv, LargeInv
<1>5. \A a \in InPool(pool') : Large(a)
  BY <1>3, <1>4, PutFit DEF TypeInv, Large
<1>6. /\ rState'[r] \in {"none", "open", "failed"}
      /\ \A q \in Readers \ {r} : UNCHANGED <<rState[q], field[q], toPtr[q]>>
  BY <1>1 DEF TypeInv, ReaderVarTypes
<1> QED
  BY <1>1, <1>5, <1>6, ReaderFit

LEMMA AcquireFit ==
  ASSUME Callers, TypeInv, ShareInv, FitInv, NEW r \in Readers, NEW n \in ReaderChunks,
         Acquire(r, n + 1)
  PROVE  FitInv'
<1>1. /\ rState[r] = "open" /\ rState' = [rState EXCEPT ![r] = "reading"]
      /\ UNCHANGED <<dirty, writerVars, toPtr, toBuf, panicked>>
  BY DEF Acquire
<1>2. ReaderVarTypes /\ field[r] = Nil /\ Cap(field[r]) = 0 /\ n + 1 \in Nat \ {0}
  BY <1>1, Sizes DEF TypeInv, ShareInv, Cap
<1>3. PICK g \in Gets(pool) :
        \/ /\ field' = [field EXCEPT ![r] = Target(g.ptr)]
           /\ pool' = g.pool
        \/ /\ Cap(Target(g.ptr)) < n + 1
           /\ \E b \in Make(n + 1) \ {Target(g.ptr)} : field' = [field EXCEPT ![r] = b]
           /\ pool' = Put(g.pool, g.ptr)
  BY <1>2, Sizes DEF Acquire
<1>4. /\ Large(Target(g.ptr)) /\ Target(g.ptr) \in Arrays /\ g.ptr = Own(Target(g.ptr))
      /\ g.pool \in [Ptrs -> Nat] /\ \A a \in InPool(g.pool) : Large(a)
  BY GetFit, GetShare DEF FitInv, Large
<1>5. /\ \A a \in InPool(pool') : Large(a)
      /\ \E b \in Arrays : Large(b) /\ field' = [field EXCEPT ![r] = b]
  <2>1. CASE field' = [field EXCEPT ![r] = Target(g.ptr)] /\ pool' = g.pool
    BY <1>4, <2>1
  <2>2. CASE /\ Cap(Target(g.ptr)) < n + 1
             /\ \E b \in Make(n + 1) \ {Target(g.ptr)} : field' = [field EXCEPT ![r] = b]
             /\ pool' = Put(g.pool, g.ptr)
    <3>1. PICK b \in Make(n + 1) : field' = [field EXCEPT ![r] = b]
      BY <2>2
    <3>2. b \in Arrays /\ CapOf[b] = n + 1
      BY DEF Make, Fresh
    <3>3. CapOf[Target(g.ptr)] < n + 1
      BY <1>4, <2>2, Sizes DEF Cap
    <3>4. Large(b)
      BY <1>2, <1>4, <3>2, <3>3, Sizes DEF Large
    <3>5. \A a \in InPool(pool') : Large(a)
      BY <1>4, <2>2, PutFit
    <3> QED
      BY <3>1, <3>2, <3>4, <3>5
  <2> QED
    BY <1>3, <2>1, <2>2
<1>6. Large(field'[r]) /\ rState'[r] = "reading"
  BY <1>1, <1>2, <1>5 DEF ReaderVarTypes
<1>7. \A q \in Readers \ {r} : UNCHANGED <<rState[q], field[q], toPtr[q]>>
  BY <1>1, <1>2, <1>5 DEF ReaderVarTypes
<1> QED
  BY <1>1, <1>5, <1>6, <1>7, ReaderFit

LEMMA WriteToFit ==
  ASSUME Callers, TypeInv, ShareInv, FitInv, NEW r \in Readers, WriteTo(r) \/ WriteToReturn(r)
  PROVE  FitInv'
<1>1. CASE WriteTo(r)
  <2>1. PICK g \in Gets(pool) : pool' = g.pool /\ toPtr' = [toPtr EXCEPT ![r] = g.ptr]
    BY <1>1 DEF WriteTo
  <2>2. rState' = [rState EXCEPT ![r] = "writeTo"] /\ UNCHANGED <<dirty, writerVars, field, panicked>>
    BY <1>1 DEF WriteTo
  <2>3. /\ Large(Target(g.ptr)) /\ Target(g.ptr) \in Arrays /\ g.ptr = Own(Target(g.ptr))
        /\ \A a \in InPool(g.pool) : Large(a)
    BY GetFit DEF FitInv, Large
  <2>4. toPtr'[r] = Own(Target(g.ptr)) /\ rState'[r] = "writeTo"
    BY <2>1, <2>2, <2>3 DEF TypeInv, ReaderVarTypes
  <2>5. \A q \in Readers \ {r} : UNCHANGED <<rState[q], field[q], toPtr[q]>>
    BY <2>1, <2>2 DEF TypeInv, ReaderVarTypes
  <2> QED
    BY <2>1, <2>2, <2>3, <2>4, <2>5, ReaderFit
<1>2. CASE WriteToReturn(r)
  <2>1. /\ rState[r] = "writeTo" /\ rState' = [rState EXCEPT ![r] = "open"]
        /\ pool' = Put(pool, toPtr[r]) /\ toPtr' = [toPtr EXCEPT ![r] = NoPtr]
        /\ UNCHANGED <<dirty, writerVars, field, panicked>>
    BY <1>2 DEF WriteToReturn
  <2>2. PICK a \in Arrays : Large(a) /\ toPtr[r] = Own(a)
    BY <2>1 DEF FitInv, LargeInv
  <2>3. \A b \in InPool(pool') : Large(b)
    BY <2>1, <2>2, PutFit DEF TypeInv, FitInv, LargeInv
  <2>4. rState'[r] = "open" /\ \A q \in Readers \ {r} : UNCHANGED <<rState[q], field[q], toPtr[q]>>
    BY <2>1 DEF TypeInv, ReaderVarTypes
  <2> QED
    BY <2>1, <2>3, <2>4, ReaderFit
<1> QED
  BY <1>1, <1>2

LEMMA GrowFit ==
  ASSUME FitInv, NEW r \in Readers, NEW n, Grow(r, n)
  PROVE  FitInv'
<1>1. UNCHANGED <<pool, dirty, writerVars, rState, field, toPtr, panicked>>
  BY DEF Grow, poolVars
<1> QED
  BY <1>1 DEF FitInv, LargeInv, DirtyInv, InPool, Large, writerVars

LEMMA StepFit == Callers /\ TypeInv /\ ShareInv /\ FitInv /\ [Next]_vars => FitInv'
<1> SUFFICES ASSUME Callers, TypeInv, ShareInv, FitInv, [Next]_vars
             PROVE  FitInv'
  OBVIOUS
<1>1. CASE \E w \in Writers : WriterStep(w)
  <2>1. PICK w \in Writers : WriterStep(w)
    BY <1>1
  <2> QED
    BY <2>1, NewWriterFit, WriterAppendFit, FlushFit, CloseWriterFit, ReadFromFit,
       ReadFromReturnFit DEF WriterStep
<1>2. CASE \E r \in Readers : ReaderStep(r)
  <2>1. PICK r \in Readers : ReaderStep(r)
    BY <1>2
  <2> QED
    BY <2>1, ReaderStateFit, AcquireFit, GrowFit, WriteToFit DEF ReaderStep
<1>3. CASE UNCHANGED vars
  BY <1>3 DEF vars, poolVars, writerVars, readerVars, FitInv, LargeInv, DirtyInv, InPool, Large
<1> QED
  BY <1>1, <1>2, <1>3 DEF Next

\* The invariant behind the two theorems that follow.
THEOREM Invariance == ASSUME Callers PROVE Spec => [](TypeInv /\ ShareInv /\ FitInv)
<1>1. RetryReads = FALSE
  BY DEF Callers
<1> QED
  BY <1>1, Sharing, InitFit, StepFit, PTL DEF Spec

\* pool.go:6: what the pool holds has been wiped.
THEOREM PoolIsWipedHolds == ASSUME Callers PROVE Spec => []PoolIsWiped
<1>1. TypeInv /\ ShareInv /\ FitInv => PoolIsWiped
  <2> SUFFICES ASSUME TypeInv, ShareInv, FitInv, NEW p \in Pooled, Target(p) \in dirty
               PROVE  FALSE
    BY DEF PoolIsWiped
  <2>1. PICK w \in Writers : Target(p) \in {wBuf[w], srcBuf[w]}
    BY DEF FitInv, DirtyInv
  <2>2. Target(p) # Nil
    BY Sizes DEF TypeInv
  <2>3. /\ <<"buf", w>> \in Holders \ {<<"pool", Nil>>}
        /\ <<"src", w>> \in Holders \ {<<"pool", Nil>>}
    BY DEF Holders
  <2>4. Target(p) \in Holds(<<"buf", w>>) \/ Target(p) \in Holds(<<"src", w>>)
    BY <2>1, <2>2, WriterHolds
  <2> QED
    BY <2>2, <2>3, <2>4, PooledTarget
<1> QED
  BY <1>1, Invariance, PTL

\* What Get gives ReadFrom holds a chunk: its slice expression does not panic.
THEOREM ReadFromFitsHolds == ASSUME Callers PROVE Spec => []ReadFromFits
<1>1. FitInv => ReadFromFits
  BY DEF FitInv, ReadFromFits
<1> QED
  BY <1>1, Invariance, PTL
=============================================================================
