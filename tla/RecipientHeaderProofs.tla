------------------------- MODULE RecipientHeaderProofs -------------------------
(***************************************************************************)
(* RecipientHeader for every list of recipients and of identities, every    *)
(* chunk size and every damage of the model's transport.                    *)
(***************************************************************************)
EXTENDS RecipientHeader, TLAPS

Stanza == [for : Ids, state : StanzaState]

\* What the constructor of the writer has made so far, and that its key is live exactly
\* while it wraps (a constructor that fails before the header may leave it so).
WriterInv ==
  /\ stanzas \in Seq(Stanza)
  /\ Len(stanzas) <= Len(recipients)
  /\ \A n \in 1..Len(stanzas) : stanzas[n] = Wrap(recipients[n])
  /\ wStep = "start" => recipients = <<>> /\ stanzas = <<>> /\ fk = "none"
  /\ wStep \in {"wrap", "made"} => Len(recipients) \in 1..MaxCount
  /\ wStep = "made" => Len(stanzas) = Len(recipients) /\ fk = "wiped"
  /\ wStep = "failed" /\ Len(stanzas) = Len(recipients) /\ recipients # <<>> => fk # "live"

\* The header and the first chunk, once they are written, say what the writer meant.
HeaderInv ==
  /\ header # None <=> wStep = "made"
  /\ header # None => header = Header
  /\ chunk # None => header # None /\ \E l \in 0..chunkSize : chunk = [len |-> l, state |-> "whole"]

\* What arrives is the header and the chunk with at most one part damaged.
ArrivedInv ==
  arrived # None =>
    chunk # None /\ arrived \in {[h |-> header, c |-> chunk]} \cup Damaged(header, chunk)

\* The header and the first chunk are good enough to begin the trials.
Parsed == ParseHeader(arrived.h) /\ identities # <<>> /\ TrialRead(arrived.h, arrived.c)

\* Identity k finds the file key in stanza m, and the key opens the chunk.
Matches(k, m) == Opens(Unwrap(identities[k], arrived.h.stanzas[m], m), arrived.h, arrived.c)

\* The trials so far: no pair of an identity and a stanza that has been tried matches.
ReaderInv ==
  /\ rStep = "start" => identities = <<>> /\ i = 1 /\ j = 1
  /\ rStep # "start" => arrived # None /\ Len(identities) <= MaxIdentities
  /\ rStep \in {"trial", "found", "ok"} => Parsed
  /\ rStep = "trial" =>
       /\ i \in 1..(Len(identities) + 1) /\ j \in 1..Len(arrived.h.stanzas)
       /\ i > Len(identities) => j = 1
       /\ \A k \in 1..Len(identities), m \in 1..Len(arrived.h.stanzas) :
            k < i \/ (k = i /\ m < j) => ~Matches(k, m)
  /\ rStep \in {"found", "ok"} => fileKey = TheFileKey /\ Opens(fileKey, arrived.h, arrived.c)
  /\ rStep = "ok" => rest = arrived.c
  /\ rStep = "err" /\ Parsed =>
       \A k \in 1..Len(identities), m \in 1..Len(arrived.h.stanzas) : ~Matches(k, m)
  /\ unwiped = IF rStep = "found" THEN {fileKey} ELSE {}

IInv == TypeOK /\ WriterInv /\ HeaderInv /\ ArrivedInv /\ ReaderInv
-----------------------------------------------------------------------------
LEMMA InitIInv == Init => IInv
<1> SUFFICES ASSUME Init
             PROVE  IInv
  OBVIOUS
<1>1. TypeOK
  BY HeaderAssumption DEF Init, TypeOK
<1>2. WriterInv /\ HeaderInv /\ ArrivedInv /\ ReaderInv
  BY DEF Init, WriterInv, HeaderInv, ArrivedInv, ReaderInv
<1> QED
  BY <1>1, <1>2 DEF IInv

\* A reader does not see what the writer goes on doing.
LEMMA ReaderKept ==
  ASSUME ReaderInv, UNCHANGED <<arrived, readerVars>>
  PROVE  ReaderInv'
BY DEF ReaderInv, readerVars, Parsed, Matches

\* Nothing has arrived before the first chunk is written.
LEMMA EarlyFacts ==
  ASSUME IInv, chunk = None
  PROVE  arrived = None /\ rStep = "start"
BY DEF IInv, ArrivedInv, ReaderInv, TypeOK

LEMMA BoundedSeqFacts ==
  ASSUME NEW S, NEW n \in Nat, NEW q \in BoundedSeq(S, n)
  PROVE  q \in Seq(S) /\ Len(q) \in 0..n
<1>1. PICK k \in 0..n : q \in [1..k -> S]
  BY DEF BoundedSeq, SeqOf
<1> QED
  BY <1>1
-----------------------------------------------------------------------------
(* The constructor of the writer.                                           *)

LEMMA NewWriterStep ==
  ASSUME IInv, NEW rs \in BoundedSeq(Ids, MaxRecipients), NEW cs \in ChunkArgs,
         NEW keyOK \in BOOLEAN, NEW randOK \in BOOLEAN, NewWriter(rs, cs, keyOK, randOK)
  PROVE  IInv'
<1>1. TypeOK /\ WriterInv /\ HeaderInv /\ ArrivedInv /\ ReaderInv
  BY DEF IInv
<1>2. /\ wStep = "start" /\ recipients' = rs
      /\ UNCHANGED <<stanzas, header, chunk, arrived, readerVars>>
  BY DEF NewWriter
<1>3. /\ stanzas = <<>> /\ fk = "none" /\ header = None /\ chunk = None /\ arrived = None
  BY <1>1, <1>2 DEF WriterInv, HeaderInv, ArrivedInv
<1>4. rs \in Seq(Ids) /\ Len(rs) \in Nat
  BY BoundedSeqFacts, HeaderAssumption
<1>5. \/ wStep' = "failed" /\ UNCHANGED <<fk, chunkSize>>
      \/ /\ rs # <<>> /\ ~TooMany(rs)
         /\ wStep' = "failed" /\ UNCHANGED chunkSize /\ fk' = "live"
      \/ /\ rs # <<>> /\ ~TooMany(rs)
         /\ wStep' = "wrap" /\ chunkSize' = Corrected(cs) /\ fk' = "live"
  BY DEF NewWriter
<1>6. Corrected(cs) \in 1..MaxChunk
  BY HeaderAssumption DEF Corrected
<1>7. TypeOK'
  BY <1>1, <1>2, <1>3, <1>4, <1>5, <1>6 DEF TypeOK, readerVars
<1>8. WriterInv'
  <2>1. rs # <<>> /\ ~TooMany(rs) => Len(rs) \in 1..MaxCount
    BY <1>4, HeaderAssumption DEF TooMany
  <2> QED
    BY <1>2, <1>3, <1>4, <1>5, <2>1 DEF WriterInv
<1>9. HeaderInv' /\ ArrivedInv'
  BY <1>2, <1>3, <1>5 DEF HeaderInv, ArrivedInv
<1>10. ReaderInv'
  BY <1>1, <1>2, ReaderKept
<1> QED
  BY <1>7, <1>8, <1>9, <1>10 DEF IInv

LEMMA WrapStep == IInv /\ WrapNext => IInv'
<1> SUFFICES ASSUME IInv, WrapNext
             PROVE  IInv'
  OBVIOUS
<1>1. TypeOK /\ WriterInv /\ HeaderInv /\ ArrivedInv /\ ReaderInv
  BY DEF IInv
<1>2. /\ wStep = "wrap" /\ Len(stanzas) < Len(recipients)
      /\ UNCHANGED <<recipients, chunkSize, fk, header, chunk, arrived, readerVars>>
  BY DEF WrapNext
<1>3. /\ header = None /\ chunk = None /\ arrived = None
  BY <1>1, <1>2 DEF HeaderInv, ArrivedInv
<1>4. /\ recipients \in Seq(Ids) /\ stanzas \in Seq(Stanza)
      /\ Len(recipients) \in Nat /\ Len(stanzas) \in Nat
  BY <1>1 DEF TypeOK, WriterInv
<1>5. CASE wStep' = "failed" /\ UNCHANGED stanzas
  <2>1. TypeOK'
    BY <1>1, <1>2, <1>5 DEF TypeOK, readerVars
  <2>2. WriterInv'
    BY <1>1, <1>2, <1>4, <1>5 DEF WriterInv
  <2>3. HeaderInv' /\ ArrivedInv'
    BY <1>2, <1>3, <1>5 DEF HeaderInv, ArrivedInv
  <2> QED
    BY <1>1, <1>2, <2>1, <2>2, <2>3, ReaderKept DEF IInv
<1>6. CASE stanzas' = Append(stanzas, Wrap(recipients[Len(stanzas) + 1])) /\ UNCHANGED wStep
  <2> DEFINE w == Wrap(recipients[Len(stanzas) + 1])
  <2>1. w \in [for : Ids, state : {"whole"}]
    BY <1>2, <1>4 DEF Wrap
  <2>2. w \in Stanza
    BY <2>1 DEF Stanza, StanzaState
  <2>3. /\ stanzas' \in Seq(Stanza) /\ Len(stanzas') = Len(stanzas) + 1
        /\ \A n \in 1..Len(stanzas) : stanzas'[n] = stanzas[n]
        /\ stanzas'[Len(stanzas) + 1] = w
    <3> HIDE DEF w
    <3>1. stanzas' = Append(stanzas, w)
      BY <1>6 DEF w
    <3> QED
      BY <1>4, <2>2, <3>1
  <2>4. \A n \in 1..Len(stanzas') : stanzas'[n] = Wrap(recipients[n])
    BY <1>1, <1>4, <2>3 DEF WriterInv
  <2>5. \A n \in 1..Len(stanzas') : stanzas'[n] \in [for : Ids, state : {"whole"}]
    <3>1. ASSUME NEW n \in 1..Len(stanzas')
          PROVE  stanzas'[n] \in [for : Ids, state : {"whole"}]
      <4>1. n \in 1..Len(recipients)
        BY <1>2, <1>4, <2>3
      <4> QED
        <5>1. recipients[n] \in Ids
          BY <1>4, <4>1
        <5>2. stanzas'[n] = [for |-> recipients[n], state |-> "whole"]
          BY <2>4 DEF Wrap
        <5> QED
          BY <5>1, <5>2
    <3> QED
      BY <3>1
  <2>6. TypeOK'
    BY <1>1, <1>2, <1>6, <2>5 DEF TypeOK, readerVars
  <2>7. WriterInv'
    <3>1. Len(stanzas') <= Len(recipients)
      BY <1>2, <1>4, <2>3
    <3> QED
      BY <1>1, <1>2, <1>4, <1>6, <2>3, <2>4, <3>1 DEF WriterInv
  <2>8. HeaderInv' /\ ArrivedInv'
    BY <1>2, <1>3, <1>6 DEF HeaderInv, ArrivedInv
  <2> QED
    BY <1>1, <1>2, <2>6, <2>7, <2>8, ReaderKept DEF IInv
<1> QED
  BY <1>5, <1>6 DEF WrapNext

LEMMA WriteHeaderStep ==
  ASSUME IInv, NEW stored \in BOOLEAN, WriteHeader(stored)
  PROVE  IInv'
<1>1. TypeOK /\ WriterInv /\ HeaderInv /\ ArrivedInv /\ ReaderInv
  BY DEF IInv
<1>2. /\ wStep = "wrap" /\ Len(stanzas) = Len(recipients) /\ fk' = "wiped"
      /\ \/ header' = Header /\ wStep' = "made"
         \/ wStep' = "failed" /\ UNCHANGED header
      /\ UNCHANGED <<recipients, chunkSize, stanzas, chunk, arrived, readerVars>>
  BY DEF WriteHeader
<1>3. header = None /\ chunk = None /\ arrived = None
  BY <1>1, <1>2 DEF HeaderInv, ArrivedInv
<1>4. TypeOK'
  BY <1>1, <1>2 DEF TypeOK, readerVars
<1>5. WriterInv'
  BY <1>1, <1>2 DEF WriterInv
<1>6. HeaderInv' /\ ArrivedInv'
  <2>1. Header # None /\ Header' = Header
    BY <1>2 DEF Header, None
  <2> QED
    BY <1>2, <1>3, <2>1 DEF HeaderInv, ArrivedInv
<1> QED
  BY <1>1, <1>2, <1>4, <1>5, <1>6, ReaderKept DEF IInv

LEMMA FirstChunkStep ==
  ASSUME IInv, NEW len \in 0..MaxChunk, FirstChunk(len)
  PROVE  IInv'
<1>1. TypeOK /\ WriterInv /\ HeaderInv /\ ArrivedInv /\ ReaderInv
  BY DEF IInv
<1>2. /\ wStep = "made" /\ chunk = None /\ len <= chunkSize
      /\ chunk' = [len |-> len, state |-> "whole"]
      /\ UNCHANGED <<wStep, recipients, chunkSize, fk, stanzas, header, arrived, readerVars>>
  BY DEF FirstChunk
<1>3. arrived = None
  BY <1>2, EarlyFacts
<1>4. TypeOK' /\ WriterInv'
  BY <1>1, <1>2 DEF TypeOK, WriterInv, readerVars
<1>5. HeaderInv'
  <2>1. len \in 0..chunkSize
    BY <1>1, <1>2, HeaderAssumption DEF TypeOK
  <2>2. Header' = Header
    BY <1>2 DEF Header
  <2> QED
    BY <1>1, <1>2, <2>1, <2>2 DEF HeaderInv
<1>6. ArrivedInv'
  BY <1>2, <1>3 DEF ArrivedInv
<1> QED
  BY <1>1, <1>2, <1>4, <1>5, <1>6, ReaderKept DEF IInv
-----------------------------------------------------------------------------
(* The transport and the constructor of the reader.                         *)

LEMMA ArriveStep == IInv /\ Arrive => IInv'
<1> SUFFICES ASSUME IInv, Arrive
             PROVE  IInv'
  OBVIOUS
<1>1. TypeOK /\ WriterInv /\ HeaderInv /\ ArrivedInv /\ ReaderInv
  BY DEF IInv
<1>2. /\ chunk # None /\ arrived = None
      /\ arrived' \in {[h |-> header, c |-> chunk]} \cup Damaged(header, chunk)
      /\ UNCHANGED <<writerVars, readerVars>>
  BY DEF Arrive
<1>3. TypeOK' /\ WriterInv'
  BY <1>1, <1>2 DEF TypeOK, WriterInv, writerVars, readerVars
<1>4. HeaderInv' /\ ArrivedInv'
  <2>1. Header' = Header
    BY <1>2 DEF Header, writerVars
  <2> QED
    BY <1>1, <1>2, <2>1 DEF HeaderInv, ArrivedInv, writerVars
<1>5. rStep = "start"
  BY <1>1, <1>2 DEF ReaderInv
<1>6. ReaderInv'
  BY <1>1, <1>2, <1>5 DEF ReaderInv, readerVars
<1> QED
  BY <1>3, <1>4, <1>6 DEF IInv

\* Whatever is damaged, the count is that of the stanzas that are read.
LEMMA ArrivedFacts ==
  ASSUME IInv, arrived # None
  PROVE  /\ arrived.h.stanzas \in Seq(Stanza)
         /\ arrived.h.count = Len(arrived.h.stanzas)
<1>1. TypeOK /\ WriterInv /\ HeaderInv /\ ArrivedInv
  BY DEF IInv
<1>2. /\ header = [magicOK |-> TRUE, count |-> Len(stanzas) % (MaxCount + 1), nonceOK |-> TRUE,
                   chunkSize |-> chunkSize, stanzas |-> stanzas]
      /\ stanzas \in Seq(Stanza) /\ Len(stanzas) \in 1..MaxCount
      /\ arrived \in {[h |-> header, c |-> chunk]} \cup Damaged(header, chunk)
  BY <1>1 DEF HeaderInv, WriterInv, ArrivedInv, Header
<1>3. Len(stanzas) % (MaxCount + 1) = Len(stanzas)
  BY <1>2, HeaderAssumption
<1>4. header.stanzas = stanzas /\ header.count = Len(stanzas)
  BY <1>2, <1>3
<1>5. CASE arrived.h = header
  BY <1>2, <1>4, <1>5
<1>6. CASE arrived.h \in DamagedFields(header)
  <2>1. \/ arrived.h \in {[header EXCEPT !.magicOK = FALSE], [header EXCEPT !.nonceOK = FALSE]}
        \/ \E z : arrived.h = [header EXCEPT !.chunkSize = z]
    BY <1>6 DEF DamagedFields
  <2> QED
    BY <1>2, <1>4, <2>1
<1>7. CASE arrived.h \in DamagedStanza(header)
  <2>1. PICK n \in 1..Len(header.stanzas), z \in StanzaState :
          arrived.h = [header EXCEPT !.stanzas[n].state = z]
    BY <1>7 DEF DamagedStanza
  <2>2. n \in 1..Len(stanzas)
    BY <1>4
  <2>3. arrived.h.stanzas = [stanzas EXCEPT ![n].state = z] /\ arrived.h.count = Len(stanzas)
    BY <1>2, <1>4, <2>1
  <2>4. [stanzas[n] EXCEPT !.state = z] \in Stanza
    <3>1. stanzas[n] \in Stanza
      BY <1>2, <2>2
    <3>2. PICK f \in Ids, y \in StanzaState : stanzas[n] = [for |-> f, state |-> y]
      BY <3>1 DEF Stanza
    <3> QED
      BY <3>2 DEF Stanza
  <2> QED
    BY <1>2, <2>2, <2>3, <2>4
<1>8. CASE arrived.h \in LowCount(header)
  <2>1. PICK n \in 0..(Len(header.stanzas) - 1) :
          arrived.h = [header EXCEPT !.count = n, !.stanzas = SubSeq(@, 1, n)]
    BY <1>8 DEF LowCount
  <2>2. arrived.h.stanzas = SubSeq(stanzas, 1, n) /\ arrived.h.count = n
    BY <1>2, <1>4, <2>1
  <2> QED
    BY <1>2, <1>4, <2>2
<1>9. CASE arrived.h \in HighCount(header)
  <2>1. PICK z \in {"altered", "type"} :
          arrived.h = [header EXCEPT !.count = Len(header.stanzas) + 1,
                         !.stanzas = Append(@, [for |-> header.stanzas[1].for, state |-> z])]
    BY <1>9 DEF HighCount
  <2>2. /\ arrived.h.stanzas = Append(stanzas, [for |-> stanzas[1].for, state |-> z])
        /\ arrived.h.count = Len(stanzas) + 1
    BY <1>2, <1>4, <2>1
  <2>3. [for |-> stanzas[1].for, state |-> z] \in Stanza
    <3>1. stanzas[1] \in Stanza
      BY <1>2
    <3>2. PICK f \in Ids, y \in StanzaState : stanzas[1] = [for |-> f, state |-> y]
      BY <3>1 DEF Stanza
    <3> QED
      BY <3>2 DEF Stanza, StanzaState
  <2> QED
    BY <1>2, <2>2, <2>3
<1> QED
  <2>1. \/ arrived.h = header
        \/ arrived.h \in DamagedFields(header) \cup DamagedStanza(header)
        \/ arrived.h \in LowCount(header) \cup HighCount(header)
    <3>1. CASE arrived = [h |-> header, c |-> chunk]
      BY <3>1
    <3>2. CASE arrived \in [h : DamagedFields(header) \cup DamagedStanza(header), c : {chunk}]
      BY <3>2
    <3>3. CASE arrived \in [h : LowCount(header) \cup HighCount(header), c : {Broken(chunk)}]
      BY <3>3
    <3>4. CASE arrived \in [h : {header}, c : DamagedChunk(chunk)]
      BY <3>4
    <3> QED
      BY <1>2, <3>1, <3>2, <3>3, <3>4 DEF Damaged
  <2> QED
    BY <1>5, <1>6, <1>7, <1>8, <1>9, <2>1

\* There is a stanza to try when the header parses.
LEMMA ParsedFacts ==
  ASSUME IInv, arrived # None, ParseHeader(arrived.h)
  PROVE  arrived.h.stanzas \in Seq(Stanza) /\ Len(arrived.h.stanzas) \in Nat \ {0}
BY ArrivedFacts DEF ParseHeader

LEMMA ReadHeaderStep ==
  ASSUME IInv, NEW ids \in BoundedSeq(Ids, MaxIdentities), ReadHeader(ids)
  PROVE  IInv'
<1>1. TypeOK /\ WriterInv /\ HeaderInv /\ ArrivedInv /\ ReaderInv
  BY DEF IInv
<1>2. /\ rStep = "start" /\ arrived # None
      /\ identities' = ids
      /\ rStep' = IF ParseHeader(arrived.h) /\ ids # <<>> /\ TrialRead(arrived.h, arrived.c)
                  THEN "trial" ELSE "err"
      /\ UNCHANGED <<writerVars, arrived, i, j, fileKey, unwiped, rest>>
  BY DEF ReadHeader
<1>3. ids \in Seq(Ids) /\ Len(ids) \in 0..MaxIdentities
  BY BoundedSeqFacts, HeaderAssumption
<1>4. TypeOK' /\ WriterInv'
  BY <1>1, <1>2, <1>3 DEF TypeOK, WriterInv, writerVars
<1>5. HeaderInv' /\ ArrivedInv'
  <2>1. Header' = Header
    BY <1>2 DEF Header, writerVars
  <2> QED
    BY <1>1, <1>2, <2>1 DEF HeaderInv, ArrivedInv, writerVars
<1>6. i = 1 /\ j = 1 /\ unwiped = {}
  BY <1>1, <1>2 DEF ReaderInv
<1>7. Parsed' <=> rStep' = "trial"
  BY <1>2 DEF Parsed
<1>8. rStep' = "trial" => Len(arrived.h.stanzas) \in Nat \ {0}
  BY <1>2, ParsedFacts
<1>9. rStep' = "trial" \/ rStep' = "err"
  BY <1>2
<1>10. ReaderInv'
  BY <1>2, <1>3, <1>6, <1>7, <1>8, <1>9 DEF ReaderInv
<1> QED
  BY <1>4, <1>5, <1>10 DEF IInv

\* The trials leave what was written, and what arrived, alone.
LEMMA WrittenKept ==
  ASSUME IInv, UNCHANGED <<writerVars, arrived, identities>>,
         i' \in 1..(MaxIdentities + 1), j' \in Nat \ {0}, rStep' \in {"trial", "found", "ok", "err"}
  PROVE  TypeOK' /\ WriterInv' /\ HeaderInv' /\ ArrivedInv'
<1>1. TypeOK /\ WriterInv /\ HeaderInv /\ ArrivedInv
  BY DEF IInv
<1>2. Header' = Header
  BY DEF Header, writerVars
<1>3. TypeOK'
  BY <1>1 DEF TypeOK, writerVars
<1>4. WriterInv'
  BY <1>1 DEF WriterInv, writerVars
<1> QED
  BY <1>1, <1>2, <1>3, <1>4 DEF HeaderInv, ArrivedInv, writerVars

\* A pair that does not match leads to the next one, stanza by stanza for each identity.
LEMMA NextTrialStep ==
  ASSUME IInv, rStep = "trial", i <= Len(identities), ~Matches(i, j), NextTrial,
         UNCHANGED <<writerVars, arrived, rStep, identities, fileKey, unwiped, rest>>
  PROVE  IInv'
<1>1. TypeOK /\ ReaderInv
  BY DEF IInv
<1>2. /\ arrived # None /\ Parsed /\ Len(identities) <= MaxIdentities
      /\ i \in 1..(Len(identities) + 1) /\ j \in 1..Len(arrived.h.stanzas)
      /\ \A k \in 1..Len(identities), m \in 1..Len(arrived.h.stanzas) :
           k < i \/ (k = i /\ m < j) => ~Matches(k, m)
  BY <1>1 DEF ReaderInv
<1>3. Len(arrived.h.stanzas) \in Nat \ {0} /\ Len(identities) \in Nat
  BY <1>1, <1>2, ParsedFacts DEF TypeOK, Parsed
<1>4. Parsed' = Parsed /\ \A k, m : Matches(k, m)' = Matches(k, m)
  BY DEF Parsed, Matches
<1>5. /\ i' \in 1..(Len(identities) + 1) /\ j' \in 1..Len(arrived.h.stanzas)
      /\ i' > Len(identities) => j' = 1
      /\ \A k \in 1..Len(identities), m \in 1..Len(arrived.h.stanzas) :
           k < i' \/ (k = i' /\ m < j') => k < i \/ (k = i /\ m < j) \/ (k = i /\ m = j)
  BY <1>2, <1>3 DEF NextTrial
<1>6. \A k \in 1..Len(identities), m \in 1..Len(arrived.h.stanzas) :
        k < i' \/ (k = i' /\ m < j') => ~Matches(k, m)
  BY <1>2, <1>5
<1>7. ReaderInv'
  BY <1>1, <1>2, <1>4, <1>5, <1>6 DEF ReaderInv
<1>8. i' \in 1..(MaxIdentities + 1) /\ j' \in Nat \ {0}
  BY <1>2, <1>3, <1>5, HeaderAssumption
<1> QED
  BY <1>7, <1>8, WrittenKept DEF IInv

LEMMA TrialStep == IInv /\ Trial => IInv'
<1> SUFFICES ASSUME IInv, Trial
             PROVE  IInv'
  OBVIOUS
<1>1. TypeOK /\ ReaderInv
  BY DEF IInv
<1>2. TheFileKey # None
  BY DEF TheFileKey, None
<1>3. CASE TrySkip
  <2>1. ~Matches(i, j)
    BY <1>2, <1>3 DEF TrySkip, Candidate, Matches, Opens
  <2> QED
    BY <1>3, <2>1, NextTrialStep DEF TrySkip
<1>4. CASE TryReject
  <2>1. ~Matches(i, j)
    BY <1>4 DEF TryReject, Candidate, Matches
  <2> QED
    BY <1>4, <2>1, NextTrialStep DEF TryReject
<1>5. CASE TryAccept
  <2>1. /\ rStep = "trial" /\ Opens(Candidate, arrived.h, arrived.c)
        /\ fileKey' = Candidate /\ unwiped' = unwiped \cup {Candidate} /\ rStep' = "found"
        /\ UNCHANGED <<writerVars, arrived, identities, i, j, rest>>
    BY <1>5 DEF TryAccept
  <2>2. Candidate = TheFileKey /\ arrived # None /\ Parsed /\ unwiped = {}
        /\ Len(identities) <= MaxIdentities
    BY <1>1, <2>1 DEF Opens, ReaderInv
  <2>3. Parsed'
    BY <2>1, <2>2 DEF Parsed
  <2>4. Opens(fileKey, arrived.h, arrived.c)'
    BY <2>1 DEF Opens
  <2>5. ReaderInv'
    BY <2>1, <2>2, <2>3, <2>4 DEF ReaderInv
  <2> QED
    BY <1>1, <2>1, <2>5, WrittenKept DEF IInv, TypeOK
<1>6. CASE NoMatch
  <2>1. /\ rStep = "trial" /\ i > Len(identities) /\ rStep' = "err"
        /\ UNCHANGED <<writerVars, arrived, identities, i, j, fileKey, unwiped, rest>>
    BY <1>6 DEF NoMatch
  <2>2. /\ arrived # None /\ Len(identities) <= MaxIdentities /\ unwiped = {}
        /\ i \in 1..(Len(identities) + 1)
        /\ \A k \in 1..Len(identities), m \in 1..Len(arrived.h.stanzas) :
             k < i \/ (k = i /\ m < j) => ~Matches(k, m)
    BY <1>1, <2>1 DEF ReaderInv
  <2>3. \A k \in 1..Len(identities), m \in 1..Len(arrived.h.stanzas) : ~Matches(k, m)
    BY <1>1, <2>1, <2>2 DEF TypeOK
  <2>4. \A k, m : Matches(k, m)' = Matches(k, m)
    BY <2>1 DEF Matches
  <2>5. ReaderInv'
    BY <2>1, <2>2, <2>3, <2>4 DEF ReaderInv
  <2> QED
    BY <1>1, <2>1, <2>5, WrittenKept DEF IInv, TypeOK
<1>7. CASE ReturnReader
  <2>1. /\ rStep = "found" /\ rest' = arrived.c /\ unwiped' = unwiped \ {fileKey} /\ rStep' = "ok"
        /\ UNCHANGED <<writerVars, arrived, identities, i, j, fileKey>>
    BY <1>7 DEF ReturnReader
  <2>2. /\ arrived # None /\ Parsed /\ Len(identities) <= MaxIdentities /\ unwiped = {fileKey}
        /\ fileKey = TheFileKey /\ Opens(fileKey, arrived.h, arrived.c)
    BY <1>1, <2>1 DEF ReaderInv
  <2>3. Parsed'
    BY <2>1, <2>2 DEF Parsed
  <2>4. ReaderInv'
    BY <2>1, <2>2, <2>3 DEF ReaderInv
  <2> QED
    BY <1>1, <2>1, <2>4, WrittenKept DEF IInv, TypeOK
<1> QED
  BY <1>3, <1>4, <1>5, <1>6, <1>7 DEF Trial

LEMMA StepIInv == IInv /\ [Next]_vars => IInv'
<1> SUFFICES ASSUME IInv, [Next]_vars
             PROVE  IInv'
  OBVIOUS
<1>1. CASE WriterStep
  BY <1>1, NewWriterStep, WrapStep, WriteHeaderStep, FirstChunkStep DEF WriterStep
<1>2. CASE Arrive
  BY <1>2, ArriveStep
<1>3. CASE ReaderStep
  BY <1>3, ReadHeaderStep, TrialStep DEF ReaderStep
<1>4. CASE UNCHANGED vars
  <2>1. UNCHANGED <<writerVars, arrived, readerVars>>
    BY <1>4 DEF vars
  <2>2. TypeOK' /\ WriterInv' /\ HeaderInv' /\ ArrivedInv'
    <3>1. Header' = Header
      BY <2>1 DEF Header, writerVars
    <3> QED
      BY <2>1, <3>1 DEF IInv, TypeOK, WriterInv, HeaderInv, ArrivedInv, writerVars, readerVars
  <2> QED
    BY <2>1, <2>2, ReaderKept DEF IInv
<1> QED
  BY <1>1, <1>2, <1>3, <1>4 DEF Next

\* The invariant behind the theorems below.
THEOREM Invariance == Spec => []IInv
BY InitIInv, StepIInv, PTL DEF Spec

\* The loop variables and arguments of both constructors have their types.
THEOREM TypeCorrect == Spec => []TypeOK
<1>1. IInv => TypeOK
  BY DEF IInv
<1> QED
  BY <1>1, Invariance, PTL

\* A reader that is returned has the writer's file key.
THEOREM OpensWhatWasSealedHolds == Spec => []OpensWhatWasSealed
<1>1. IInv => OpensWhatWasSealed
  <2> SUFFICES ASSUME IInv, rStep = "ok"
               PROVE  /\ fileKey = TheFileKey
                      /\ Opens(fileKey, arrived.h, rest)
                      /\ rest.len <= arrived.h.chunkSize
    BY DEF OpensWhatWasSealed
  <2>1. Parsed /\ fileKey = TheFileKey /\ Opens(fileKey, arrived.h, arrived.c) /\ rest = arrived.c
    BY DEF IInv, ReaderInv
  <2> QED
    BY <2>1 DEF Parsed, TrialRead
<1> QED
  BY <1>1, Invariance, PTL

\* Unwrapped keys are wiped before the constructors return.
THEOREM KeysWipedHolds == Spec => []KeysWiped
<1>1. IInv => KeysWiped
  BY DEF IInv, ReaderInv, WriterInv, KeysWiped
<1> QED
  BY <1>1, Invariance, PTL

\* What a recipient's identity finds in its whole stanza.
LEMMA WholeStanza ==
  ASSUME NEW k \in 1..Len(identities), NEW m \in 1..Len(arrived.h.stanzas),
         arrived.h.stanzas[m] = Wrap(identities[k]), arrived.h.nonceOK, arrived.c.state = "whole"
  PROVE  Matches(k, m)
<1>1. Unwrap(identities[k], arrived.h.stanzas[m], m) = TheFileKey
  BY DEF Unwrap, Wrap
<1> QED
  BY <1>1 DEF Matches, Opens

\* What was written parses, and its first chunk is within the limits.
LEMMA WrittenFacts ==
  ASSUME IInv, chunk # None
  PROVE  /\ header.magicOK /\ header.nonceOK
         /\ header.count = Len(stanzas) /\ header.chunkSize = chunkSize /\ header.stanzas = stanzas
         /\ Len(stanzas) = Len(recipients) /\ Len(stanzas) \in 1..MaxCount
         /\ chunkSize \in 1..MaxChunk
         /\ chunk.state = "whole" /\ chunk.len \in 0..chunkSize
         /\ stanzas \in Seq(Stanza)
<1>1. TypeOK /\ WriterInv /\ HeaderInv
  BY DEF IInv
<1>2. header = Header /\ Len(stanzas) = Len(recipients) /\ Len(recipients) \in 1..MaxCount
  BY <1>1 DEF HeaderInv, WriterInv
<1>3. Len(stanzas) % (MaxCount + 1) = Len(stanzas)
  BY <1>2, HeaderAssumption
<1>4. PICK l \in 0..chunkSize : chunk = [len |-> l, state |-> "whole"]
  BY <1>1 DEF HeaderInv
<1> QED
  BY <1>1, <1>2, <1>3, <1>4 DEF Header, TypeOK, WriterInv

\* Every recipient can decrypt what arrived intact.
THEOREM RecipientsDecryptHolds == Spec => []RecipientsDecrypt
<1>1. IInv => RecipientsDecrypt
  <2> SUFFICES ASSUME IInv, rStep = "err", Intact,
                      NEW n \in 1..Len(identities), NEW m \in 1..Len(recipients),
                      identities[n] = recipients[m]
               PROVE  FALSE
    BY DEF RecipientsDecrypt
  <2>1. arrived # None /\ chunk # None
    BY DEF IInv, ReaderInv, ArrivedInv
  <2>2. arrived.h = header /\ arrived.c = chunk
    BY DEF Intact
  <2>3. /\ header.magicOK /\ header.nonceOK
        /\ header.count = Len(stanzas) /\ header.chunkSize = chunkSize /\ header.stanzas = stanzas
        /\ Len(stanzas) = Len(recipients) /\ Len(stanzas) \in 1..MaxCount
        /\ chunkSize \in 1..MaxChunk
        /\ chunk.state = "whole" /\ chunk.len \in 0..chunkSize
    BY <2>1, WrittenFacts
  <2>4. \A k \in 1..Len(stanzas) : stanzas[k] = Wrap(recipients[k])
    BY DEF IInv, WriterInv
  <2>5. ParseHeader(header)
    <3>1. \A l \in 1..Len(stanzas) : stanzas[l].state # "type"
      <4>1. ASSUME NEW l \in 1..Len(stanzas)
            PROVE  stanzas[l].state # "type"
        <5>1. stanzas[l] = [for |-> recipients[l], state |-> "whole"]
          BY <2>4 DEF Wrap
        <5> QED
          BY <5>1
      <4> QED
        BY <4>1
    <3> QED
      BY <2>3, <3>1, HeaderAssumption DEF ParseHeader
  <2>6. TrialRead(header, chunk)
    BY <2>3, HeaderAssumption DEF TrialRead
  <2>7. identities # <<>>
    OBVIOUS
  <2>8. ~Matches(n, m)
    BY <2>2, <2>3, <2>5, <2>6, <2>7 DEF IInv, ReaderInv, Parsed
  <2> QED
    BY <2>2, <2>3, <2>4, <2>8, WholeStanza
<1> QED
  BY <1>1, Invariance, PTL

\* The header with another state of one stanza.
LEMMA OneStanza ==
  ASSUME IInv, rStep # "start", NEW n \in 1..Len(stanzas), NEW z, OnlyStanzaDamaged(n, z)
  PROVE  /\ arrived.h.magicOK /\ arrived.h.nonceOK /\ arrived.h.count = Len(stanzas)
         /\ arrived.h.chunkSize = chunkSize
         /\ Len(stanzas) = Len(recipients) /\ Len(stanzas) \in 1..MaxCount
         /\ Len(arrived.h.stanzas) = Len(stanzas)
         /\ \A l \in 1..Len(stanzas) : l # n => arrived.h.stanzas[l] = Wrap(recipients[l])
         /\ arrived.h.stanzas[n].state = z
         /\ arrived.c.state = "whole" /\ arrived.c.len \in 0..chunkSize
         /\ chunkSize \in 1..MaxChunk
<1>1. arrived # None /\ chunk # None
  BY DEF IInv, ReaderInv, ArrivedInv
<1>2. arrived.h = [header EXCEPT !.stanzas[n].state = z] /\ arrived.c = chunk
  BY DEF OnlyStanzaDamaged
<1>3. /\ header.magicOK /\ header.nonceOK
      /\ header.count = Len(stanzas) /\ header.chunkSize = chunkSize /\ header.stanzas = stanzas
      /\ Len(stanzas) = Len(recipients) /\ Len(stanzas) \in 1..MaxCount
      /\ chunkSize \in 1..MaxChunk
      /\ chunk.state = "whole" /\ chunk.len \in 0..chunkSize
      /\ stanzas \in Seq(Stanza)
  BY <1>1, WrittenFacts
<1>4. \A l \in 1..Len(stanzas) : stanzas[l] = Wrap(recipients[l])
  BY DEF IInv, WriterInv
<1>5. header = Header
  BY <1>1 DEF IInv, HeaderInv
<1>6. /\ arrived.h.magicOK /\ arrived.h.nonceOK /\ arrived.h.count = Len(stanzas)
      /\ arrived.h.chunkSize = chunkSize
      /\ arrived.h.stanzas = [stanzas EXCEPT ![n].state = z]
  BY <1>2, <1>3, <1>5 DEF Header
<1>7. stanzas[n] = [for |-> recipients[n], state |-> "whole"]
  BY <1>4 DEF Wrap
<1>8. /\ Len(arrived.h.stanzas) = Len(stanzas)
      /\ \A l \in 1..Len(stanzas) : l # n => arrived.h.stanzas[l] = stanzas[l]
      /\ arrived.h.stanzas[n].state = z
  BY <1>3, <1>6, <1>7
<1> QED
  BY <1>2, <1>3, <1>4, <1>6, <1>8

\* format.go:80-84, reader_recipients.go:70-92: damage to the keys of a stanza locks out
\* its own recipient only, damage to its type everybody.
THEOREM StanzaDamageReachHolds == Spec => []StanzaDamageReach
<1>1. ASSUME IInv, rStep = "err", NEW n \in 1..Len(stanzas), NEW m \in (1..Len(stanzas)) \ {n},
             NEW k \in 1..Len(identities), NEW z \in {"altered", "lowOrder"},
             OnlyStanzaDamaged(n, z), identities[k] = recipients[m]
      PROVE  FALSE
  <2>1. /\ arrived.h.magicOK /\ arrived.h.nonceOK /\ arrived.h.count = Len(stanzas)
        /\ arrived.h.chunkSize = chunkSize
        /\ Len(stanzas) = Len(recipients) /\ Len(stanzas) \in 1..MaxCount
        /\ Len(arrived.h.stanzas) = Len(stanzas)
        /\ \A l \in 1..Len(stanzas) : l # n => arrived.h.stanzas[l] = Wrap(recipients[l])
        /\ arrived.h.stanzas[n].state = z
        /\ arrived.c.state = "whole" /\ arrived.c.len \in 0..chunkSize
        /\ chunkSize \in 1..MaxChunk
    BY <1>1, OneStanza
  <2>2. \A l \in 1..Len(stanzas) : arrived.h.stanzas[l].state # "type"
    <3>1. ASSUME NEW l \in 1..Len(stanzas), l # n
          PROVE  arrived.h.stanzas[l].state = "whole"
      <4>1. arrived.h.stanzas[l] = Wrap(recipients[l])
        BY <2>1, <3>1
      <4> QED
        BY <4>1 DEF Wrap
    <3>2. arrived.h.stanzas[n].state # "type"
      BY <1>1, <2>1
    <3> QED
      BY <3>1, <3>2
  <2>3. ParseHeader(arrived.h) /\ TrialRead(arrived.h, arrived.c)
    BY <2>1, <2>2, HeaderAssumption DEF ParseHeader, TrialRead
  <2>4. identities # <<>>
    BY <1>1
  <2>5. ~Matches(k, m)
    BY <1>1, <2>1, <2>3, <2>4 DEF IInv, ReaderInv, Parsed
  <2> QED
    BY <1>1, <2>1, <2>5, WholeStanza
<1>2. ASSUME IInv, rStep # "start", NEW n \in 1..Len(stanzas), OnlyStanzaDamaged(n, "type")
      PROVE  rStep = "err"
  <2>1. arrived.h.stanzas[n].state = "type" /\ n \in 1..Len(arrived.h.stanzas)
    BY <1>2, OneStanza
  <2>2. ~Parsed
    BY <2>1 DEF Parsed, ParseHeader
  <2> QED
    BY <1>2, <2>2 DEF IInv, TypeOK, ReaderInv
<1>3. IInv => StanzaDamageReach
  BY <1>1, <1>2 DEF StanzaDamageReach
<1> QED
  BY <1>3, Invariance, PTL
=============================================================================
