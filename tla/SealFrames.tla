----------------------------- MODULE SealFrames -----------------------------
(***************************************************************************)
(* The chunk format of core/chunk.go, at the level the stream code sees.    *)
(*                                                                         *)
(* A plaintext byte is named by its offset in the input, so a run of        *)
(* plaintext is the interval lo+1 .. hi and two runs are equal only when    *)
(* they are the same bytes of the input.  A frame is one sealed chunk on    *)
(* the wire, [4B chunk_len][ciphertext + tag]; its length field is          *)
(* hi - lo.  The AEAD is symbolic: opening succeeds exactly on an intact    *)
(* frame that was sealed under the same key, base nonce and counter         *)
(* (Poly1305 unforgeability is the one cryptographic assumption).           *)
(***************************************************************************)
EXTENDS Integers, Sequences

Run == [lo : Nat, hi : Nat]

Size(r) == r.hi - r.lo

\* "whole": intact.  "bad": the length field is intact, the sealed bytes are
\* not (or come from another key).  "torn": the frame's bytes are incomplete
\* or its length field is damaged, so that a reader that parses it no longer
\* knows where the next frame begins.  "cut": the stream ends inside the frame.
FrameState == {"whole", "bad", "torn", "cut"}

Frame == [ctr : Nat, lo : Nat, hi : Nat, state : FrameState]

SealChunk(r, ctr) == [ctr |-> ctr, lo |-> r.lo, hi |-> r.hi, state |-> "whole"]

\* The marker seals no plaintext: it is the frame of length 0 at offset `at'.
SealEOF(at, ctr) == SealChunk([lo |-> at, hi |-> at], ctr)

IsEOF(f) == Size(f) = 0

\* Mutant of OpenChunk: the counter is not part of the nonce.
OpenChunkAnyCounter(f, ctr, nonceOK) ==
  IF f.state = "whole" /\ nonceOK
  THEN IF IsEOF(f) THEN "eof" ELSE "data"
  ELSE "fail"

\* OpenChunk(aead, f, base, ctr); nonceOK says that `base' still holds the
\* prefix the frame was sealed with (the reader zeroes it after a failure).
OpenChunk(f, ctr, nonceOK) ==
  IF f.state = "whole" /\ nonceOK /\ f.ctr = ctr
  THEN IF IsEOF(f) THEN "eof" ELSE "data"
  ELSE "fail"

\* The first k frames of w are what a reader that counts from 0 opens.
Opens(w, k) == \A i \in 1..k : w[i].state = "whole" /\ w[i].ctr = i - 1

\* All of w opens and it ends in the authenticated EOF marker.
OpensToEOF(w) ==
  /\ w # <<>>
  /\ Opens(w, Len(w))
  /\ IsEOF(w[Len(w)])

\* ... and carries a plaintext from its first byte to its last: each frame begins where
\* the one before it ended, and none but the last is empty.
CompleteStream(w) ==
  /\ OpensToEOF(w)
  /\ \A i \in 1..Len(w) :
       /\ w[i].lo = (IF i = 1 THEN 0 ELSE w[i - 1].hi)
       /\ w[i].lo <= w[i].hi
       /\ IsEOF(w[i]) => i = Len(w)
=============================================================================
