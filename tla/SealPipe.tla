------------------------------ MODULE SealPipe ------------------------------
(***************************************************************************)
(* EncryptWithRecipients and DecryptWithIdentity (SealGo.go) at the two     *)
(* ends of a pipe, as in README.md "Pipe mode": an EncryptWriter, a         *)
(* transport that may damage, drop or cut what it carries, and a            *)
(* DecryptReader that reads while the writer is still writing.  The header  *)
(* has been read: what is left of it here is the chunk size.                *)
(***************************************************************************)
EXTENDS EncryptWriter

CONSTANTS
  MaxFaults      \* bound: faults of the transport

ASSUME PipeAssumption == MaxFaults \in Nat

VARIABLES
  line, ended, plaintextMax, pos, aligned, broken, dCounter, nonceOK, live, dBuf, eof,
  consumed, dCall, res, reads, failures, out,
  encJob,     \* where EncryptWithRecipients is
  decJob,     \* where DecryptWithIdentity is
  carried,    \* frames of `wire' the transport has dealt with
  faults      \* history: what it did to them

D == INSTANCE DecryptReader
       WITH buf <- dBuf, counter <- dCounter, call <- dCall, wire <- line,
            ChunkSizes <- {ChunkSize}, MaxRead <- 1, MayMix <- FALSE, MayBreak <- FALSE

reader == <<pos, aligned, broken, dCounter, nonceOK, live, dBuf, eof, consumed, dCall, res,
            reads, failures, out>>
encVars == <<vars, encJob>>
decVars == <<reader, decJob>>
pipeVars == <<line, ended, plaintextMax, carried, faults>>
pipe == <<encVars, decVars, pipeVars>>

PipeInit ==
  /\ Init
  /\ D!ReaderInit
  /\ line = <<>> /\ ended = FALSE
  /\ encJob = "start" /\ decJob = "start"
  /\ carried = 0 /\ faults = 0
-----------------------------------------------------------------------------
(* EncryptWithRecipients: io.Copy, then Close whether or not it failed.     *)

\* io.Copy lets a source that is an io.WriterTo write itself (bytes.Reader: one
\* Write), and gives every other source to ReadFrom.
EncryptCopy ==
  /\ encJob = "start"
  /\ encJob' = "copy"
  /\ \/ ReadFrom
     \/ \E n \in 0..MaxInput : Write(n)

EncryptStep ==
  /\ encJob \in {"copy", "close"}
  /\ Continue
  /\ UNCHANGED encJob

\* Mutant of EncryptClose: a copy that failed is not closed, so that no marker follows.
EncryptCloseOnSuccess ==
  /\ encJob = "copy" /\ call = "idle" /\ ~failed
  /\ Close
  /\ encJob' = "close"

EncryptClose ==
  /\ encJob = "copy" /\ call = "idle"
  /\ Close
  /\ encJob' = "close"

\* Mutant of EncryptReturn: the result is that of Close alone.
EncryptReturnOfClose ==
  /\ encJob = "close" /\ call = "idle"
  /\ encJob' = IF closeOK THEN "ok" ELSE "err"
  /\ UNCHANGED vars

\* The error of the copy is returned although the Close that follows it succeeds.
EncryptReturn ==
  /\ encJob = "close" /\ call = "idle"
  /\ encJob' = IF failed THEN "err" ELSE "ok"
  /\ UNCHANGED vars

\* The encrypting process dies: its end of the pipe is closed for it.
Crash ==
  /\ encJob \in {"copy", "close"}
  /\ encJob' = "crashed"
  /\ UNCHANGED vars

Encrypt == EncryptCopy \/ EncryptStep \/ EncryptClose \/ EncryptReturn

EncryptOver == encJob \in {"ok", "err", "crashed"}
-----------------------------------------------------------------------------
(* The transport                                                            *)

Carry ==
  /\ ~ended /\ carried < Len(wire)
  /\ line' = Append(line, wire[carried + 1])
  /\ carried' = carried + 1
  /\ UNCHANGED <<ended, plaintextMax, faults>>

\* A frame that the sink tore stays torn.
Harmed(f, state) == IF f.state = "whole" THEN [f EXCEPT !.state = state] ELSE f

Damage(state) ==
  /\ ~ended /\ carried < Len(wire) /\ faults < MaxFaults
  /\ line' = Append(line, Harmed(wire[carried + 1], state))
  /\ carried' = carried + 1
  /\ faults' = faults + 1
  /\ UNCHANGED <<ended, plaintextMax>>

Drop ==
  /\ ~ended /\ carried < Len(wire) /\ faults < MaxFaults
  /\ carried' = carried + 1
  /\ faults' = faults + 1
  /\ UNCHANGED <<line, ended, plaintextMax>>

\* The stream ends between two frames, or inside one.
Cut ==
  /\ ~ended /\ faults < MaxFaults
  /\ ended' = TRUE
  /\ \/ UNCHANGED <<line, carried>>
     \/ /\ carried < Len(wire)
        /\ line' = Append(line, Harmed(wire[carried + 1], "cut"))
        /\ carried' = carried + 1
  /\ faults' = faults + 1
  /\ UNCHANGED plaintextMax

CarryEnd ==
  /\ ~ended /\ carried = Len(wire) /\ EncryptOver
  /\ ended' = TRUE
  /\ UNCHANGED <<line, plaintextMax, carried, faults>>

Transport == Carry \/ CarryEnd
Fault == (\E state \in {"bad", "torn"} : Damage(state)) \/ Drop \/ Cut
-----------------------------------------------------------------------------
(* DecryptWithIdentity: io.Copy, which is WriteTo.                          *)

DecryptCopy ==
  /\ decJob = "start"
  /\ D!WriteTo
  /\ decJob' = "copy"
  /\ UNCHANGED <<carried, faults>>

DecryptStep ==
  /\ decJob = "copy"
  /\ D!WriteToStep
  /\ UNCHANGED <<decJob, carried, faults>>

DecryptReturn ==
  /\ decJob = "copy" /\ dCall = "idle"
  /\ decJob' = IF res = "nil" THEN "ok" ELSE "err"
  /\ UNCHANGED <<reader, pipeVars>>

Decrypt == DecryptCopy \/ DecryptStep \/ DecryptReturn

DecryptOver == decJob \in {"ok", "err"}
-----------------------------------------------------------------------------
\* Both jobs have returned and the transport is done.
Done == EncryptOver /\ DecryptOver /\ ended

PipeNext ==
  \/ (Encrypt \/ Crash) /\ UNCHANGED <<decVars, pipeVars>>
  \/ (Transport \/ Fault) /\ UNCHANGED <<encVars, decVars>>
  \/ Decrypt /\ UNCHANGED encVars
  \/ Done /\ UNCHANGED pipe

PipeSpec == PipeInit /\ [][PipeNext]_pipe

\* Each side runs on whenever it can: the source and the sinks answer, and the
\* transport carries what is sent.
FairPipeSpec ==
  /\ PipeSpec
  /\ WF_pipe(Encrypt /\ UNCHANGED <<decVars, pipeVars>>)
  /\ WF_pipe(Transport /\ UNCHANGED <<encVars, decVars>>)
  /\ WF_pipe(Decrypt /\ UNCHANGED encVars)
-----------------------------------------------------------------------------
PipeTypeOK ==
  /\ TypeOK /\ D!ReaderTypeOK
  /\ encJob \in {"start", "copy", "close", "ok", "err", "crashed"}
  /\ decJob \in {"start", "copy", "ok", "err"}
  /\ carried \in 0..Len(wire)
  /\ faults \in 0..MaxFaults

\* The two jobs over the pipe implement the copy that SealedCopy promises: what is
\* handed out is always a prefix of what was taken in, but for the last chunk, which an
\* encryption that fails may have sealed twice, and decryption succeeds only with all of
\* an input that was closed.
Copy == INSTANCE SealedCopy
  WITH input  <- buf.hi,
       final  <- closed,
       enc    <- (IF encJob = "ok" THEN "ok"
                  ELSE IF encJob \in {"err", "crashed"} THEN "err" ELSE "running"),
       output <- out,
       dec    <- (IF DecryptOver THEN decJob ELSE "running"),
       MayRepeat <- "kept" \in SinkFaults

ImplementsCopy == Copy!Spec

\* With a transport that damages nothing and an encryption that succeeds, decryption
\* can only fail for a fault of the writer it hands the plaintext to.
UndamagedDecrypts ==
  encJob = "ok" /\ faults = 0 /\ decJob = "err" => res = "sink"

\* An encryption that reports success sealed all that it took from its source, once and
\* in order, Close wrote the marker after it, and it took all that there was: the source
\* was read to its end, or wrote itself to the end of one Write.  The exception is a
\* source that returns io.ErrUnexpectedEOF itself: ReadFrom takes that for its end
\* (writer.go:141), and an encryption of the truncated input is reported as a success.
SuccessIsComplete ==
  encJob = "ok" =>
    /\ CompleteStream(wire) /\ wire[Len(wire)].hi = buf.hi
    /\ todo = 0 /\ src \in {"none", "eof", "short"}

\* Both jobs return: the decrypting side is not left waiting when the encrypting side
\* fails, crashes, or loses frames on the way.
JobsReturn == <>[]Done
=============================================================================
