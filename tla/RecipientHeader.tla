--------------------------- MODULE RecipientHeader ---------------------------
(***************************************************************************)
(* How the file key travels: NewEncryptWriterWithRecipients wraps it for    *)
(* every recipient and writes the header, the header and the first chunk    *)
(* cross a transport that may damage them, and NewDecryptReaderWithIdentity *)
(* parses the header and tries each identity on each stanza by opening the  *)
(* first chunk (stream/writer_recipients.go, stream/reader_recipients.go,   *)
(* core/recipients.go, ParseHeader of core/format.go).                      *)
(*                                                                         *)
(* Nothing in the header is authenticated.  A stanza is XChaCha20 without a *)
(* tag, so that unwrapping it with the wrong identity, or after damage,     *)
(* yields some other key and no error: only the chunk can tell.             *)
(***************************************************************************)
EXTENDS Integers, Sequences, SequencesExt

CONSTANTS
  Ids,            \* key pairs: the public half is a recipient, the other an identity
  WeakIds,        \* those with a low-order public key, which X25519 refuses
  MaxCount,       \* the largest number that the count byte holds (255)
  MaxChunk,       \* the largest chunk size (16 MiB) ...
  DefaultChunk,   \* ... and the default one (64 KiB)
  ChunkArgs,      \* bound: the chunk sizes callers ask for
  MaxRecipients,  \* bound: length of the list of recipients
  MaxIdentities   \* bound: length of the list of identities

ASSUME HeaderAssumption ==
  /\ WeakIds \subseteq Ids
  /\ MaxCount \in Nat \ {0} /\ MaxRecipients \in Nat /\ MaxIdentities \in Nat
  /\ MaxChunk \in Nat \ {0} /\ DefaultChunk \in 1..MaxChunk
  /\ ChunkArgs \subseteq Int

VARIABLES
  wStep,       \* where the constructor of the writer is
  recipients,  \* its argument
  chunkSize,   \* its argument, corrected
  fk,          \* its local copy of the file key: "none", "live" or "wiped"
  stanzas,     \* the stanzas made so far
  header,      \* the header it wrote
  chunk,       \* the first chunk of the stream that follows
  arrived,     \* what reaches the other end: a header and a first chunk
  rStep,       \* where the constructor of the reader is
  identities,  \* its argument
  i, j,        \* the identity and the stanza to try next
  fileKey,     \* its result so far
  unwiped,     \* keys it unwrapped and has not wiped
  rest         \* the chunk the stream it returns begins with

writerVars == <<wStep, recipients, chunkSize, fk, stanzas, header, chunk>>
readerVars == <<rStep, identities, i, j, fileKey, unwiped, rest>>
vars == <<writerVars, arrived, readerVars>>

None == [none |-> TRUE]

Init ==
  /\ wStep = "start" /\ recipients = <<>> /\ chunkSize = DefaultChunk
  /\ fk = "none" /\ stanzas = <<>> /\ header = None /\ chunk = None
  /\ arrived = None
  /\ rStep = "start" /\ identities = <<>> /\ i = 1 /\ j = 1
  /\ fileKey = None /\ unwiped = {} /\ rest = None
-----------------------------------------------------------------------------
(* Keys and stanzas                                                         *)

TheFileKey == [key |-> "file"]
OtherKey(id, n) == [key |-> "other", id |-> id, stanza |-> n]

\* "whole"; "altered": the wrapped key or the ephemeral key is damaged; "lowOrder": the
\* ephemeral key is a point X25519 refuses; "type": not X25519.
StanzaState == {"whole", "altered", "lowOrder", "type"}

Wrap(id) == [for |-> id, state |-> "whole"]

\* Identity.Unwrap on the n-th stanza alone.
Unwrap(id, s, n) ==
  CASE s.state = "lowOrder"              -> None
    [] s.state = "whole" /\ s.for = id   -> TheFileKey
    [] OTHER                             -> OtherKey(id, n)

\* OpenChunk of the first chunk under counter 0, nil and ErrEOF together.
Opens(key, h, c) == key = TheFileKey /\ h.nonceOK /\ c.state = "whole"
-----------------------------------------------------------------------------
(* NewEncryptWriterWithRecipients                                           *)

\* Mutant of TooMany: off by one.
TooManyOffByOne(rs) == Len(rs) > MaxCount + 1

TooMany(rs) == Len(rs) > MaxCount

\* Mutant of Corrected: only zero and negative sizes are corrected.
CorrectedBelow(cs) == IF cs <= 0 THEN DefaultChunk ELSE cs

Corrected(cs) == IF cs <= 0 \/ cs > MaxChunk THEN DefaultChunk ELSE cs

\* keyOK: the caller gave no file key or one of the right length; randOK: salt and base
\* nonce could be drawn.
NewWriter(rs, cs, keyOK, randOK) ==
  /\ wStep = "start"
  /\ recipients' = rs
  /\ IF rs = <<>> \/ TooMany(rs) \/ ~keyOK
     THEN wStep' = "failed" /\ UNCHANGED <<fk, chunkSize>>
     ELSE /\ fk' = "live"
          /\ IF randOK
             THEN wStep' = "wrap" /\ chunkSize' = Corrected(cs)
             ELSE wStep' = "failed" /\ UNCHANGED chunkSize
  /\ UNCHANGED <<stanzas, header, chunk, arrived, readerVars>>

WrapNext ==
  /\ wStep = "wrap"
  /\ Len(stanzas) < Len(recipients)
  /\ LET r == recipients[Len(stanzas) + 1]
     IN  IF r \in WeakIds
         THEN wStep' = "failed" /\ UNCHANGED stanzas
         ELSE stanzas' = Append(stanzas, Wrap(r)) /\ UNCHANGED wStep
  /\ UNCHANGED <<recipients, chunkSize, fk, header, chunk, arrived, readerVars>>

\* The count is a byte.
Header ==
  [magicOK |-> TRUE, count |-> Len(stanzas) % (MaxCount + 1), nonceOK |-> TRUE,
   chunkSize |-> chunkSize, stanzas |-> stanzas]

WriteHeader(stored) ==
  /\ wStep = "wrap"
  /\ Len(stanzas) = Len(recipients)
  /\ fk' = "wiped"
  /\ IF stored
     THEN header' = Header /\ wStep' = "made"
     ELSE wStep' = "failed" /\ UNCHANGED header
  /\ UNCHANGED <<recipients, chunkSize, stanzas, chunk, arrived, readerVars>>

\* The writer it returns seals its first chunk (the marker when len = 0).
FirstChunk(len) ==
  /\ wStep = "made" /\ chunk = None
  /\ len <= chunkSize
  /\ chunk' = [len |-> len, state |-> "whole"]
  /\ UNCHANGED <<wStep, recipients, chunkSize, fk, stanzas, header, arrived, readerVars>>
-----------------------------------------------------------------------------
(* The transport: intact, or with one part damaged                          *)

Broken(c) == [c EXCEPT !.state = "bad"]

DamagedFields(h) ==
  {[h EXCEPT !.magicOK = FALSE], [h EXCEPT !.nonceOK = FALSE]}
  \cup {[h EXCEPT !.chunkSize = s] : s \in 0..(MaxChunk + 1)}

DamagedStanza(h) ==
  {[h EXCEPT !.stanzas[n].state = s] : n \in 1..Len(h.stanzas), s \in StanzaState}

\* A count too low, so that the stanzas left over are taken for the first chunk, or too
\* high, so that the chunk is taken for a stanza.
LowCount(h) ==
  {[h EXCEPT !.count = n, !.stanzas = SubSeq(@, 1, n)] : n \in 0..(Len(h.stanzas) - 1)}

HighCount(h) ==
  {[h EXCEPT !.count = Len(h.stanzas) + 1,
             !.stanzas = Append(@, [for |-> h.stanzas[1].for, state |-> s])] :
     s \in {"altered", "type"}}

DamagedChunk(c) ==
  {Broken(c), [c EXCEPT !.state = "short"]}
  \cup {[len |-> l, state |-> "bad"] : l \in 0..(MaxChunk + 1)}

Damaged(h, c) ==
       [h : DamagedFields(h) \cup DamagedStanza(h), c : {c}]
  \cup [h : LowCount(h) \cup HighCount(h), c : {Broken(c)}]
  \cup [h : {h}, c : DamagedChunk(c)]

Arrive ==
  /\ chunk # None /\ arrived = None
  /\ arrived' \in {[h |-> header, c |-> chunk]} \cup Damaged(header, chunk)
  /\ UNCHANGED <<writerVars, readerVars>>
-----------------------------------------------------------------------------
(* ParseHeader and NewDecryptReaderWithIdentity                             *)

ParseHeader(h) ==
  /\ h.magicOK
  /\ h.count # 0
  /\ h.chunkSize # 0 /\ h.chunkSize <= MaxChunk
  /\ \A n \in 1..Len(h.stanzas) : h.stanzas[n].state # "type"

\* The first chunk, read whole for the trials.
TrialRead(h, c) ==
  /\ c.len <= MaxChunk /\ c.len <= h.chunkSize
  /\ c.state # "short"

ReadHeader(ids) ==
  /\ rStep = "start" /\ arrived # None
  /\ identities' = ids
  /\ rStep' = IF ParseHeader(arrived.h) /\ ids # <<>> /\ TrialRead(arrived.h, arrived.c)
              THEN "trial" ELSE "err"
  /\ UNCHANGED <<writerVars, arrived, i, j, fileKey, unwiped, rest>>

\* The inner loop goes over the stanzas, the outer one over the identities.
NextTrial ==
  IF j < Len(arrived.h.stanzas)
  THEN j' = j + 1 /\ UNCHANGED i
  ELSE j' = 1 /\ i' = i + 1

Candidate == Unwrap(identities[i], arrived.h.stanzas[j], j)

\* Unwrap finds nothing.
TrySkip ==
  /\ rStep = "trial" /\ i <= Len(identities)
  /\ Candidate = None
  /\ NextTrial
  /\ UNCHANGED <<writerVars, arrived, rStep, identities, fileKey, unwiped, rest>>

\* Mutant of TryReject: the key is not wiped.
TryRejectUnwiped ==
  /\ rStep = "trial" /\ i <= Len(identities)
  /\ Candidate # None
  /\ ~Opens(Candidate, arrived.h, arrived.c)
  /\ unwiped' = unwiped \cup {Candidate}
  /\ NextTrial
  /\ UNCHANGED <<writerVars, arrived, rStep, identities, fileKey, rest>>

\* Mutant of TryReject: a key that does not open the chunk ends the trials.
TryRejectStops ==
  /\ rStep = "trial" /\ i <= Len(identities)
  /\ Candidate # None
  /\ ~Opens(Candidate, arrived.h, arrived.c)
  /\ rStep' = "err"
  /\ UNCHANGED <<writerVars, arrived, identities, i, j, fileKey, unwiped, rest>>

\* A key that does not open the chunk is wiped.
TryReject ==
  /\ rStep = "trial" /\ i <= Len(identities)
  /\ Candidate # None
  /\ ~Opens(Candidate, arrived.h, arrived.c)
  /\ NextTrial
  /\ UNCHANGED <<writerVars, arrived, rStep, identities, fileKey, unwiped, rest>>

\* Mutant of TryAccept: whatever Unwrap returns is accepted.
TryAcceptAny ==
  /\ rStep = "trial" /\ i <= Len(identities)
  /\ Candidate # None
  /\ fileKey' = Candidate
  /\ unwiped' = unwiped \cup {Candidate}
  /\ rStep' = "found"
  /\ UNCHANGED <<writerVars, arrived, identities, i, j, rest>>

TryAccept ==
  /\ rStep = "trial" /\ i <= Len(identities)
  /\ Candidate # None
  /\ Opens(Candidate, arrived.h, arrived.c)
  /\ fileKey' = Candidate
  /\ unwiped' = unwiped \cup {Candidate}
  /\ rStep' = "found"
  /\ UNCHANGED <<writerVars, arrived, identities, i, j, rest>>

\* ErrNoMatchingRecipient
NoMatch ==
  /\ rStep = "trial" /\ i > Len(identities)
  /\ rStep' = "err"
  /\ UNCHANGED <<writerVars, arrived, identities, i, j, fileKey, unwiped, rest>>

\* The reader gets the content key and the trial chunk put back before the rest; the
\* file key is wiped by the defer.
ReturnReader ==
  /\ rStep = "found"
  /\ rest' = arrived.c
  /\ unwiped' = unwiped \ {fileKey}
  /\ rStep' = "ok"
  /\ UNCHANGED <<writerVars, arrived, identities, i, j, fileKey>>
-----------------------------------------------------------------------------
WriterStep ==
  \/ \E rs \in BoundedSeq(Ids, MaxRecipients), cs \in ChunkArgs, keyOK, randOK \in BOOLEAN :
       NewWriter(rs, cs, keyOK, randOK)
  \/ WrapNext
  \/ \E stored \in BOOLEAN : WriteHeader(stored)
  \/ \E len \in 0..MaxChunk : FirstChunk(len)

Trial == TrySkip \/ TryReject \/ TryAccept \/ NoMatch \/ ReturnReader

ReaderStep == (\E ids \in BoundedSeq(Ids, MaxIdentities) : ReadHeader(ids)) \/ Trial

Next == WriterStep \/ Arrive \/ ReaderStep

Spec == Init /\ [][Next]_vars
-----------------------------------------------------------------------------
TypeOK ==
  /\ wStep \in {"start", "wrap", "made", "failed"}
  /\ fk \in {"none", "live", "wiped"}
  /\ recipients \in Seq(Ids) /\ identities \in Seq(Ids)
  /\ chunkSize \in 1..MaxChunk
  /\ \A n \in 1..Len(stanzas) : stanzas[n] \in [for : Ids, state : {"whole"}]
  /\ rStep \in {"start", "trial", "found", "ok", "err"}
  /\ i \in 1..(MaxIdentities + 1) /\ j \in Nat \ {0}

Intact == arrived = [h |-> header, c |-> chunk]

\* A reader that is returned has the writer's file key, whatever the identities and
\* whatever happened to the header, and its stream begins with a chunk that it opens
\* under the limit it enforces (reader_recipients.go:64, 95).
OpensWhatWasSealed ==
  rStep = "ok" => /\ fileKey = TheFileKey
                  /\ Opens(fileKey, arrived.h, rest)
                  /\ rest.len <= arrived.h.chunkSize

\* Every recipient can decrypt what arrived intact, in whatever order and company its
\* identity is given: a key that another stanza yields never ends the search, and the
\* header the constructor wrote, at the largest count and chunk size too, parses.
RecipientsDecrypt ==
  rStep = "err" /\ Intact =>
    \A n \in 1..Len(identities), m \in 1..Len(recipients) : identities[n] # recipients[m]

\* What arrived differs from what was written in the n-th stanza alone.
OnlyStanzaDamaged(n, s) ==
  arrived.c = chunk /\ arrived.h = [header EXCEPT !.stanzas[n].state = s]

\* How far damage to one stanza reaches.  Damage to the ephemeral or to the wrapped key
\* does not lock out the recipients of the other stanzas, in whatever order the trials
\* come.  Damage to the type field does: ParseHeader refuses the whole header for one
\* unknown type (format.go:80-84), so that no identity at all is tried.
StanzaDamageReach ==
  \A n \in 1..Len(stanzas) :
    /\ rStep = "err" =>
         \A s \in {"altered", "lowOrder"}, m \in (1..Len(stanzas)) \ {n},
            k \in 1..Len(identities) :
           OnlyStanzaDamaged(n, s) => identities[k] # recipients[m]
    /\ rStep # "start" /\ OnlyStanzaDamaged(n, "type") => rStep = "err"

\* When NewDecryptReaderWithIdentity has returned, every key that it unwrapped has been
\* wiped, the rejected and the accepted; and the writer's copy of the file key is wiped
\* before the sink, which may block or fail, is called.
KeysWiped ==
  /\ rStep \in {"ok", "err"} => unwiped = {}
  /\ Len(stanzas) = Len(recipients) /\ wStep \in {"made", "failed"} /\ recipients # <<>>
       => fk # "live"

\* README "Memory zeroing after use": a constructor that has returned has wiped the file
\* key, in the cases where it failed as well.
KeyZeroedAfterUse == wStep \in {"made", "failed"} => fk # "live"
=============================================================================
