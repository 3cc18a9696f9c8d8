----------------------------- MODULE SealedCopy -----------------------------
(***************************************************************************)
(* What EncryptWithRecipients and DecryptWithIdentity (SealGo.go) promise   *)
(* together, with no chunks, counters or buffers: an input that grows until *)
(* it is final, and an output that is at all times a prefix of it.  The     *)
(* decrypting side may succeed only with all of a final input; it may fail  *)
(* at any time.  The one thing that may come twice is the last run of the   *)
(* input, where the sink of an encryption that fails may have kept what it  *)
(* said it had lost.                                                        *)
(***************************************************************************)
EXTENDS Integers, Sequences

CONSTANT
  MayRepeat  \* the encrypting side's sink may report as failed what it has stored

VARIABLES
  input,     \* bytes the encrypting side has taken from its source
  final,     \* it takes no more
  enc,       \* "running", "ok" or "err"
  output,    \* the runs of the input handed out, in order
  dec        \* "running", "ok" or "err"

vars == <<input, final, enc, output, dec>>

Init ==
  /\ input = 0 /\ final = FALSE /\ enc = "running"
  /\ output = <<>> /\ dec = "running"

End(o) == IF o = <<>> THEN 0 ELSE o[Len(o)].hi

\* The last run of o is its last but one over again, or the beginning of it.
Repeated(o) == Len(o) > 1 /\ o[Len(o)].lo # o[Len(o) - 1].hi

Take ==
  /\ ~final /\ enc = "running"
  /\ input' > input
  /\ UNCHANGED <<final, enc, output, dec>>

Finish ==
  /\ ~final /\ enc = "running"
  /\ final' = TRUE
  /\ UNCHANGED <<input, enc, output, dec>>

EncryptOK ==
  /\ final /\ enc = "running"
  /\ ~Repeated(output)
  /\ enc' = "ok"
  /\ UNCHANGED <<input, final, output, dec>>

EncryptFails ==
  /\ enc = "running"
  /\ enc' = "err"
  /\ UNCHANGED <<input, final, output, dec>>

HandOut ==
  /\ dec = "running"
  /\ ~Repeated(output)
  /\ \E hi \in (End(output) + 1)..input :
       output' = Append(output, [lo |-> End(output), hi |-> hi])
  /\ UNCHANGED <<input, final, enc, dec>>

Repeat ==
  /\ MayRepeat
  /\ dec = "running" /\ final /\ enc # "ok"
  /\ output # <<>> /\ End(output) = input /\ ~Repeated(output)
  /\ LET last == output[Len(output)]
     IN  \E hi \in (last.lo + 1)..last.hi :
           output' = Append(output, [lo |-> last.lo, hi |-> hi])
  /\ UNCHANGED <<input, final, enc, dec>>

DecryptOK ==
  /\ dec = "running" /\ final
  /\ End(output) = input
  /\ dec' = "ok"
  /\ UNCHANGED <<input, final, enc, output>>

DecryptFails ==
  /\ dec = "running"
  /\ dec' = "err"
  /\ UNCHANGED <<input, final, enc, output>>

Next ==
  \/ Take \/ Finish \/ EncryptOK \/ EncryptFails
  \/ HandOut \/ Repeat \/ DecryptOK \/ DecryptFails

Spec == Init /\ [][Next]_vars
=============================================================================
