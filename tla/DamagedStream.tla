---------------------------- MODULE DamagedStream ----------------------------
(***************************************************************************)
(* A DecryptReader over a wire that transport has tampered with: frames of  *)
(* the sealed stream may be corrupted, torn, dropped, repeated, reordered,  *)
(* and the end may be cut off.                                              *)
(***************************************************************************)
EXTENDS DecryptReader

CONSTANTS
  Sealed,   \* the frames a writer sealed, in order, the marker last
  Wires     \* what may arrive of them

\* The writer's side of the contract, which EncryptWriterProofs proves of every
\* stream that a Close left without a failure (CleanCloseOpens, TypeOK), and the
\* AEAD's: what arrives whole was sealed.
ASSUME StreamAssumption ==
  /\ Sealed \in Seq(Frame)
  /\ CompleteStream(Sealed)
  /\ \A w \in Wires :
       /\ w \in Seq(Frame)
       /\ \A i \in 1..Len(w) :
            /\ w[i].state = "whole" => \E j \in 1..Len(Sealed) : w[i] = Sealed[j]
            /\ w[i].state = "cut" => i = Len(w)

Init ==
  /\ wire \in Wires
  /\ ended = TRUE
  /\ ReaderInit

Next == ReaderNext

Spec == Init /\ [][Next]_vars

\* WriteTo waits for nobody: the wire is complete and the sink answers.
FairSpec == Spec /\ WF_vars(WriteToStep)
-----------------------------------------------------------------------------
TypeOK == ReaderTypeOK

\* What the caller gets is the plaintext from its first byte on, without a gap, a
\* repetition or a swap, whatever happened to the wire.
DeliversInOrder ==
  \A i \in 1..Len(out) : out[i].lo = (IF i = 1 THEN 0 ELSE out[i - 1].hi)

\* Bytes handed out so far.
Delivered == IF out = <<>> THEN 0 ELSE out[Len(out)].hi

\* io.EOF from Read and nil from WriteTo both say that the whole plaintext has been
\* delivered: a truncated stream never ends cleanly.
EOFIsWholePlaintext ==
  res \in {"EOF", "nil"} => Delivered = Sealed[Len(Sealed)].hi

\* A chunk has failed to open.
authFailed == failures # <<>>

\* Once a chunk has failed to open, no later call on this reader, retries included,
\* delivers a byte or ends cleanly.
FailStop ==
  [][authFailed => out' = out /\ (res' # res => res' \in Errors)]_vars

\* The index in a VerificationError locates the damage (errors.go:25), when it is the
\* first failure the caller gets: it is that of the chunk whose plaintext begins where the
\* output ends, whatever was lost or repeated before it, and every index that a caller
\* who reads on gets later is higher.  Only the first failure says so: an invalid marker
\* comes without an index (chunk.go:40), and the VerificationError of a Read that is tried
\* again after it names a chunk behind the damage.
LocatesDamage ==
  authFailed /\ failures[1] # NoIndex =>
    /\ failures[1] < Len(Sealed) /\ Sealed[failures[1] + 1].lo = Delivered
    /\ \A i \in 2..Len(failures) : failures[i] # NoIndex => failures[1] < failures[i]

\* The stream is what was sealed, up to where it ends.
CutShort ==
  /\ Len(wire) <= Len(Sealed)
  /\ \A i \in 1..Len(wire) :
       wire[i] = Sealed[i] \/ wire[i] = [Sealed[i] EXCEPT !.state = "cut"]

\* ... and the header states a size that all its chunks keep to.
SizesFit == \A i \in 1..Len(Sealed) : Size(Sealed[i]) <= plaintextMax

\* A stream that only ends early is never taken for one that was tampered with, at
\* whatever byte it ends and however it is read, until the reader is closed.  (After an
\* error of dr.r a Read that is tried again may well be.)
CutIsNotTampering ==
  CutShort /\ SizesFit /\ live /\ ~broken => res \notin {"verification", "badMarker", "tooLarge"}

\* A caller that mixes the two calls is told so, or nothing is lost: the type's
\* comment allows one of Read and WriteTo, and both refuse a consumed reader with
\* "already consumed (mixed Read/WriteTo?)" (reader.go:16, 49, 136).
MixedUseIsCaught ==
  reads /\ res = "nil" => DeliversInOrder /\ Delivered = Sealed[Len(Sealed)].hi

\* A WriteTo that has begun returns, whatever arrived.
WriteToReturns == call = "writeTo" ~> call = "idle"

\* The variant behind WriteToReturns: a step after which WriteTo goes on has left a
\* frame behind (reader.go:142-188).
WriteToAdvances ==
  [][call = "writeTo" /\ call' = "writeTo" => pos' > pos]_vars
-----------------------------------------------------------------------------
(* What is left of order and of fail-stop for a caller that mixes Read and  *)
(* WriteTo all the same.                                                    *)

Apart(r, s) == r.hi <= s.lo \/ s.hi <= r.lo

\* No byte is handed out twice, although what Read had buffered may come late or never.
NoByteTwice ==
  \A i, j \in 1..Len(out) : i # j => Apart(out[i], out[j])

\* After a chunk that did not open a caller gets no more than what it had left in the
\* buffer before, and WriteTo does not end cleanly.
OnlyBuffered ==
  [][authFailed => /\ out' = out \/ \E n \in 0..MaxRead : Deliver(buf, n)
                   /\ res' = "nil" => res = "nil"]_vars
-----------------------------------------------------------------------------
(* The inductive invariant for callers that may mix.                        *)

\* The end of the plaintext opened so far.
Reached == IF counter = 0 THEN 0 ELSE Sealed[counter].hi

Buffered(i) == Size(buf) > 0 => Apart(out[i], buf)

\* What has been opened lies below what the next chunk can bring, and the buffer apart
\* from what has been handed out.
ApartInv ==
  /\ NoByteTwice
  /\ \A i \in 1..Len(out) : Buffered(i)
  /\ nonceOK /\ live /\ (consumed => call = "writeTo") =>
       /\ counter <= Len(Sealed)
       /\ Size(buf) > 0 => buf.hi <= Reached
       /\ \A i \in 1..Len(out) : out[i].hi <= Reached

\* A reader that a chunk has failed opens no other; one that has met no fault and is not
\* at its end still has the base nonce.
NonceInv ==
  /\ call = "writeTo" => consumed
  /\ authFailed => ~nonceOK \/ (consumed /\ call = "idle")
  /\ live /\ ~authFailed /\ (consumed => call = "writeTo") => nonceOK

\* On a stream that only ends early an open reader stays in step.
CutInv ==
  CutShort /\ SizesFit /\ live /\ ~broken =>
    /\ aligned /\ ~authFailed
    /\ pos <= Len(wire) => counter = pos - 1
    /\ CutIsNotTampering

MixInv == TypeOK /\ wire \in Wires /\ ApartInv /\ NonceInv /\ CutInv
-----------------------------------------------------------------------------
(* The inductive invariant behind the safety properties, with ~MayMix.      *)

Whole == Sealed[Len(Sealed)].hi

\* The end of the plaintext opened so far, delivered or not.
Taken == IF Size(buf) > 0 THEN buf.hi ELSE Delivered

OutInv == DeliversInOrder /\ (Size(buf) > 0 => buf.lo = Delivered)

\* What is buffered, or at its end, has come from Read: WriteTo comes first or never.
CallInv ==
  /\ ~reads \/ consumed => Size(buf) = 0 /\ ~eof
  /\ ~reads /\ ~consumed => res = "none"
  /\ call = "writeTo" => consumed /\ res = "none"
  /\ eof => Size(buf) = 0 /\ Delivered = Whole
  /\ res = "EOF" => eof
  /\ res = "nil" => consumed /\ call = "idle" /\ Delivered = Whole

\* After a chunk that did not open, either the base nonce is gone or WriteTo has had
\* its one chance.
StopInv ==
  authFailed => /\ Size(buf) = 0 /\ ~eof /\ call = "idle"
                /\ consumed \/ (reads /\ ~nonceOK)

\* While the reader can open chunks, the counter says how many it has.
ProgressInv ==
  nonceOK /\ live /\ ~authFailed =>
    /\ counter <= Len(Sealed)
    /\ Taken = (IF counter = 0 THEN 0 ELSE Sealed[counter].hi)

\* An open reader that no chunk has failed can open the next one, if there is one.
ReadyInv ==
  live /\ ~authFailed =>
    \/ nonceOK /\ (counter = Len(Sealed) => eof)
    \/ consumed /\ call = "idle"

LocateInv == (\A i \in 1..Len(failures) : failures[i] < counter) /\ LocatesDamage

SafeInv == TypeOK /\ wire \in Wires /\ OutInv /\ CallInv /\ StopInv /\ ProgressInv

IInv == SafeInv /\ ReadyInv /\ LocateInv
=============================================================================
