------------------------------ MODULE FileJobs ------------------------------
(***************************************************************************)
(* Encryption and decryption of files: doEncrypt and doDecrypt of the       *)
(* command line tool (cmd/cli/main.go), sealgo_encrypt_file and             *)
(* sealgo_decrypt_file of the C library (embed/export.go).  Each job is a   *)
(* process, or a thread of one; it may die at any step, and jobs that name  *)
(* the same path work on the same file, a retry after a crash included.     *)
(*                                                                         *)
(* os.Create truncates a file that exists, and nothing is locked, renamed   *)
(* or removed: a path is one file for good, and a job that has it open sees *)
(* what others do to it.  A file is a sequence of units, each written by    *)
(* one call: a chunk of plaintext, a header, a sealed chunk or the marker.  *)
(*                                                                         *)
(* A read or a write of a file may fail.  An encryption whose copy failed   *)
(* is closed all the same (SealGo.go:67-70): its Close seals what the       *)
(* buffer holds under the next counter, and writes the marker.              *)
(***************************************************************************)
EXTENDS Integers, Sequences, SequencesExt

CONSTANTS
  Jobs,         \* names of jobs, each run at most once ...
  Plans,        \* ... and the sets of them that may be run together
  Job,          \* of each: api ("cli" or "lib"), op ("encrypt" or "decrypt"), in, out,
                \* and whether its identity is among the recipients
  InitFiles,    \* content of each path at first ...
  Missing,      \* ... and the paths that may be Absent instead
  Old,          \* the encryption that made the sealed files there are at first ...
  OldPlain,     \* ... and what it encrypted
  WriteFaults,  \* what a write that fails may leave: none of the unit ("lost"), a part
                \* of it ("torn"), or all of it ("kept")
  Absent

Paths == DOMAIN InitFiles

Encrypts(j) == Job[j].op = "encrypt"

\* A job may be given one path for both of its files.
InPlace(j) == Job[j].in = Job[j].out

\* Plaintext that is being encrypted is left alone by other jobs, and so is the output of
\* a decryption and the file of a job in place.
ASSUME JobsAssumption ==
  /\ Old \notin Jobs /\ Missing \subseteq Paths /\ Plans \subseteq SUBSET Jobs
  /\ WriteFaults \subseteq {"lost", "torn", "kept"}
  /\ \A j \in Jobs :
       /\ Job[j] \in [api : {"cli", "lib"}, op : {"encrypt", "decrypt"},
                      in : Paths, out : Paths, match : BOOLEAN]
       /\ \A k \in Jobs \ {j} :
            /\ Encrypts(j) => Job[j].in # Job[k].out
            /\ InPlace(j) => Job[j].out # Job[k].out
            /\ ~Encrypts(j) => Job[j].out \notin {Job[k].in, Job[k].out}

VARIABLES
  files,     \* content of each path, or Absent
  pc,        \* of each job
  rpos,      \* the unit of its input it reads next
  wpos,      \* the unit of its output it writes next
  run,       \* the encryption whose header a decryption has read
  held,      \* of a decryption: the first chunk, read for the trial and not yet given
             \* back; of an encryption whose copy failed: what its buffer holds
  sealed,    \* what an encryption has sealed, in order: ew.counter is the number of it
  res,       \* how the job ended: "none", "ok" or "err"
  created    \* history: it has created or truncated its output

posVars == <<rpos, wpos, run, held, sealed>>
vars == <<files, pc, posVars, res, created>>

Plain(n) == [kind |-> "plain", run |-> Old, ctr |-> 0, data |-> n, part |-> FALSE]
HeaderOf(r) == [kind |-> "header", run |-> r, ctr |-> 0, data |-> 0, part |-> FALSE]
Marker(r, c) == [kind |-> "marker", run |-> r, ctr |-> c, data |-> 0, part |-> FALSE]

\* Bytes that no reader gets past: a gap, or a part of a sealed unit.
Hole == [kind |-> "hole", run |-> Old, ctr |-> 0, data |-> 0, part |-> FALSE]

\* Only the first bytes of plaintext u, fewer than there are.
Part(u) == [u EXCEPT !.part = TRUE]

\* Plaintext u, sealed, and what it is opened to.
Seal(r, c, u) == [kind |-> "chunk", run |-> r, ctr |-> c, data |-> u.data, part |-> u.part]
Open(u) == IF u.part THEN Part(Plain(u.data)) ELSE Plain(u.data)

\* The plaintext that encryption r reads (in place it is the header it has written), and
\* the file it makes of it.
Plaintext(r) ==
  IF r = Old THEN OldPlain ELSE IF InPlace(r) THEN <<Plain(0)>> ELSE InitFiles[Job[r].in]

Sealed(r) ==
  LET n == Len(Plaintext(r))
  IN  <<HeaderOf(r)>> \o [c \in 1..n |-> Seal(r, c - 1, Plaintext(r)[c])] \o <<Marker(r, n)>>

Runs == {j \in Jobs : Encrypts(j)} \cup {Old}

Units ==
  [kind : {"plain", "header", "chunk", "marker", "hole"}, run : Runs, ctr : Nat, data : Nat,
   part : BOOLEAN]

PlainFile(f) == f \in Seq(Units) /\ \A k \in 1..Len(f) : f[k] = Plain(f[k].data)

\* A chunk or a marker that there is at first was sealed by the encryption Old.
SealedByOld(u) ==
  u.kind \in {"chunk", "marker"} =>
    u.run = Old /\ u.ctr <= Len(OldPlain) /\ u = Sealed(Old)[u.ctr + 2]

\* Encryptions that are not in place are given plaintext, and nobody forges a chunk.
ASSUME FilesAssumption ==
  /\ PlainFile(OldPlain)
  /\ \A j \in Jobs : Encrypts(j) /\ ~InPlace(j) => PlainFile(InitFiles[Job[j].in])
  /\ \A p \in Paths :
       /\ InitFiles[p] \in Seq(Units)
       /\ \A k \in 1..Len(InitFiles[p]) : SealedByOld(InitFiles[p][k])

Init ==
  /\ \E gone \in SUBSET Missing :
       files = [p \in Paths |-> IF p \in gone THEN Absent ELSE InitFiles[p]]
  /\ \E plan \in Plans : pc = [j \in Jobs |-> IF j \in plan THEN "idle" ELSE "unused"]
  /\ rpos = [j \in Jobs |-> 1] /\ wpos = [j \in Jobs |-> 1]
  /\ run = [j \in Jobs |-> Old] /\ held = [j \in Jobs |-> Hole]
  /\ sealed = [j \in Jobs |-> <<>>]
  /\ res = [j \in Jobs |-> "none"]
  /\ created = [j \in Jobs |-> FALSE]
-----------------------------------------------------------------------------
Goto(j, l) == pc' = [pc EXCEPT ![j] = l]

\* Mutant of End: the result is not reported.
EndUnreported(j, result) == Goto(j, "over") /\ UNCHANGED res

End(j, result) ==
  /\ Goto(j, "over")
  /\ res' = [res EXCEPT ![j] = result]

\* The file after u was written at position k: a gap reads as zeros.
WriteAt(f, k, u) ==
  IF k <= Len(f) THEN [f EXCEPT ![k] = u]
  ELSE f \o [g \in 1..(k - Len(f) - 1) |-> Hole] \o <<u>>

Put(j, u) ==
  /\ files' = [files EXCEPT ![Job[j].out] = WriteAt(@, wpos[j], u)]
  /\ wpos' = [wpos EXCEPT ![j] = @ + 1]

\* What a write of u that fails leaves, in front of whatever j writes after it.
Spoil(j, u, fault) ==
  \/ fault = "lost" /\ UNCHANGED <<files, wpos>>
  \/ fault = "torn" /\ Put(j, IF u.kind = "plain" THEN Part(u) ELSE Hole)
  \/ fault = "kept" /\ Put(j, u)

\* What j reads next, and whether there is something.
More(j) == rpos[j] <= Len(files[Job[j].in])
Unit(j) == files[Job[j].in][rpos[j]]
Advance(j) == rpos' = [rpos EXCEPT ![j] = @ + 1]
-----------------------------------------------------------------------------
(* Opening the files                                                        *)

\* Only sealgo_encrypt_file creates its output before it opens its input.
OpensInputFirst(j) == Job[j].api = "cli" \/ ~Encrypts(j)

Start(j) ==
  /\ pc[j] = "idle"
  /\ Goto(j, IF OpensInputFirst(j) THEN "open" ELSE "create")
  /\ UNCHANGED <<files, posVars, res, created>>

OpenInput(j) ==
  /\ pc[j] = "open"
  /\ IF files[Job[j].in] = Absent
     THEN End(j, "err")
     ELSE /\ Goto(j, IF OpensInputFirst(j) THEN "create" ELSE "header")
          /\ UNCHANGED res
  /\ UNCHANGED <<files, posVars, created>>

\* Mutant of CreateOutput: what the file held is not discarded.
CreateOutputKeeps(j) ==
  /\ pc[j] = "create"
  /\ files' = [files EXCEPT ![Job[j].out] = IF @ = Absent THEN <<>> ELSE @]
  /\ created' = [created EXCEPT ![j] = TRUE]
  /\ Goto(j, IF OpensInputFirst(j) THEN "header" ELSE "open")
  /\ UNCHANGED <<posVars, res>>

\* os.Create
CreateOutput(j) ==
  /\ pc[j] = "create"
  /\ files' = [files EXCEPT ![Job[j].out] = <<>>]
  /\ created' = [created EXCEPT ![j] = TRUE]
  /\ Goto(j, IF OpensInputFirst(j) THEN "header" ELSE "open")
  /\ UNCHANGED <<posVars, res>>

\* A file can not be opened, created or read, or the process dies between two writes: the
\* caller sees no success, and the output stays as it is.
Fails(j) ==
  /\ pc[j] \notin {"idle", "unused", "over"}
  /\ End(j, "err")
  /\ UNCHANGED <<files, posVars, created>>
-----------------------------------------------------------------------------
(* EncryptWithRecipients                                                    *)

WriteHeader(j) ==
  /\ pc[j] = "header" /\ Encrypts(j)
  /\ Put(j, HeaderOf(j))
  /\ Goto(j, "body")
  /\ UNCHANGED <<rpos, run, held, sealed, res, created>>

\* u is sealed under the counter, which moves on whether or not u is stored.
NextChunk(j, u) == Seal(j, Len(sealed[j]), u)
NextMarker(j) == Marker(j, Len(sealed[j]))
Sealing(j, u) == sealed' = [sealed EXCEPT ![j] = Append(@, u)]

\* A header is shorter than a chunk, and a short read is the last one: when the input is
\* the output, the chunk this step writes is not read again.
EncryptChunk(j) ==
  /\ pc[j] = "body" /\ Encrypts(j)
  /\ More(j)
  /\ Put(j, NextChunk(j, Unit(j)))
  /\ Sealing(j, NextChunk(j, Unit(j)))
  /\ Advance(j)
  /\ Goto(j, IF Unit(j).kind = "header" THEN "last" ELSE "body")
  /\ UNCHANGED <<run, held, res, created>>

\* The write of a full chunk fails: the buffer keeps it, and Close follows.  (A short
\* chunk is written by Close itself, which then returns: WriteFails.)
ChunkFails(j) ==
  /\ pc[j] = "body" /\ Encrypts(j)
  /\ More(j) /\ Unit(j).kind # "header"
  /\ \E fault \in WriteFaults : Spoil(j, NextChunk(j, Unit(j)), fault)
  /\ Sealing(j, NextChunk(j, Unit(j)))
  /\ Advance(j)
  /\ held' = [held EXCEPT ![j] = Unit(j)]
  /\ Goto(j, "flush")
  /\ UNCHANGED <<run, res, created>>

\* A read of the input fails, perhaps in a chunk, and Close follows.
ReadFails(j) ==
  /\ pc[j] = "body" /\ Encrypts(j)
  /\ \/ Goto(j, "mark") /\ UNCHANGED held
     \/ /\ More(j)
        /\ Goto(j, "flush")
        /\ held' = [held EXCEPT ![j] = Part(Unit(j))]
  /\ UNCHANGED <<files, rpos, wpos, run, sealed, res, created>>

\* Close, after a copy that failed, seals what the buffer holds.
CloseFlush(j) ==
  /\ pc[j] = "flush"
  /\ Put(j, NextChunk(j, held[j]))
  /\ Sealing(j, NextChunk(j, held[j]))
  /\ held' = [held EXCEPT ![j] = Hole]
  /\ Goto(j, "mark")
  /\ UNCHANGED <<rpos, run, res, created>>

InputRead(j) == pc[j] = "last" \/ (pc[j] = "body" /\ Encrypts(j) /\ ~More(j))

\* Mutant of EncryptClose: the job succeeds without the marker.
EncryptCloseUnmarked(j) ==
  /\ InputRead(j)
  /\ End(j, "ok")
  /\ UNCHANGED <<files, posVars, created>>

\* Mutant of EncryptClose: the result is that of Close alone.
EncryptCloseReports(j) ==
  /\ InputRead(j) \/ pc[j] = "mark"
  /\ Put(j, NextMarker(j))
  /\ Sealing(j, NextMarker(j))
  /\ End(j, "ok")
  /\ UNCHANGED <<rpos, run, held, created>>

\* The error of a copy that failed is returned although Close succeeds.
EncryptClose(j) ==
  /\ InputRead(j) \/ pc[j] = "mark"
  /\ Put(j, NextMarker(j))
  /\ Sealing(j, NextMarker(j))
  /\ End(j, IF pc[j] = "mark" THEN "err" ELSE "ok")
  /\ UNCHANGED <<rpos, run, held, created>>

\* What an encryption seals next.
Due(j) ==
  (IF pc[j] = "body" /\ Encrypts(j) /\ More(j) THEN {NextChunk(j, Unit(j))} ELSE {})
    \cup (IF pc[j] = "flush" THEN {NextChunk(j, held[j])} ELSE {})
    \cup (IF InputRead(j) \/ pc[j] = "mark" THEN {NextMarker(j)} ELSE {})

\* A write by Close fails, or that of the header, or the process dies in a write.
EncryptWriteFails(j) ==
  /\ \E fault \in WriteFaults :
       \/ /\ pc[j] = "header" /\ Encrypts(j)
          /\ Spoil(j, HeaderOf(j), fault)
          /\ UNCHANGED sealed
       \/ \E u \in Due(j) : Spoil(j, u, fault) /\ Sealing(j, u)
  /\ End(j, "err")
  /\ UNCHANGED <<rpos, run, held, created>>
-----------------------------------------------------------------------------
(* DecryptWithIdentity                                                      *)

\* Mutant of Opened: a chunk of another encryption opens too.
OpenedOfAny(j, u) ==
  u.kind \in {"chunk", "marker"} /\ u.ctr = wpos[j] - 1

\* Chunk u opens as the next one of the stream whose header the job has read.
Opened(j, u) ==
  u.kind \in {"chunk", "marker"} /\ u.run = run[j] /\ u.ctr = wpos[j] - 1

ReadHeader(j) ==
  /\ pc[j] = "header" /\ ~Encrypts(j)
  /\ IF More(j) /\ Unit(j).kind = "header"
     THEN /\ run' = [run EXCEPT ![j] = Unit(j).run]
          /\ Advance(j)
          /\ Goto(j, "trial")
          /\ UNCHANGED res
     ELSE End(j, "err") /\ UNCHANGED <<rpos, run>>
  /\ UNCHANGED <<files, wpos, held, sealed, created>>

\* The first chunk is read and must open under a key that the identity unwraps.
TrialChunk(j) ==
  /\ pc[j] = "trial"
  /\ IF More(j) /\ Job[j].match /\ Opened(j, Unit(j))
     THEN /\ held' = [held EXCEPT ![j] = Unit(j)]
          /\ Advance(j)
          /\ Goto(j, "body")
          /\ UNCHANGED res
     ELSE End(j, "err") /\ UNCHANGED <<rpos, held>>
  /\ UNCHANGED <<files, wpos, run, sealed, created>>

\* The chunk of the held first, then what the file holds by now.
Handle(j, u) ==
  CASE Opened(j, u) /\ u.kind = "chunk"  -> Put(j, Open(u)) /\ UNCHANGED <<pc, res>>
    [] Opened(j, u) /\ u.kind = "marker" -> End(j, "ok") /\ UNCHANGED <<files, wpos>>
    [] OTHER                             -> End(j, "err") /\ UNCHANGED <<files, wpos>>

DecryptTrial(j) ==
  /\ pc[j] = "body" /\ ~Encrypts(j)
  /\ held[j] # Hole
  /\ Handle(j, held[j])
  /\ held' = [held EXCEPT ![j] = Hole]
  /\ UNCHANGED <<rpos, run, sealed, created>>

DecryptChunk(j) ==
  /\ pc[j] = "body" /\ ~Encrypts(j)
  /\ held[j] = Hole /\ More(j)
  /\ Handle(j, Unit(j))
  /\ Advance(j)
  /\ UNCHANGED <<run, held, sealed, created>>

\* A write of plaintext fails, or the process dies in it.
DecryptWriteFails(j) ==
  /\ pc[j] = "body" /\ ~Encrypts(j)
  /\ \E u \in IF held[j] # Hole THEN {held[j]} ELSE IF More(j) THEN {Unit(j)} ELSE {},
        fault \in WriteFaults :
       /\ Opened(j, u) /\ u.kind = "chunk"
       /\ Spoil(j, Open(u), fault)
  /\ End(j, "err")
  /\ UNCHANGED <<rpos, run, held, sealed, created>>

\* Mutant of DecryptEnd: the job waits for more.
DecryptEndWaits(j) ==
  /\ pc[j] = "body" /\ ~Encrypts(j)
  /\ held[j] = Hole /\ ~More(j)
  /\ UNCHANGED vars

\* Mutant of DecryptEnd: the end of the file is taken for the end of the data.
DecryptEndClean(j) ==
  /\ pc[j] = "body" /\ ~Encrypts(j)
  /\ held[j] = Hole /\ ~More(j)
  /\ End(j, "ok")
  /\ UNCHANGED <<files, posVars, created>>

\* io.ErrUnexpectedEOF
DecryptEnd(j) ==
  /\ pc[j] = "body" /\ ~Encrypts(j)
  /\ held[j] = Hole /\ ~More(j)
  /\ End(j, "err")
  /\ UNCHANGED <<files, posVars, created>>
-----------------------------------------------------------------------------
Run(j) ==
  \/ OpenInput(j) \/ CreateOutput(j)
  \/ WriteHeader(j) \/ EncryptChunk(j) \/ CloseFlush(j) \/ EncryptClose(j)
  \/ ReadHeader(j) \/ TrialChunk(j) \/ DecryptTrial(j) \/ DecryptChunk(j) \/ DecryptEnd(j)

Fault(j) ==
  Fails(j) \/ ChunkFails(j) \/ ReadFails(j) \/ EncryptWriteFails(j) \/ DecryptWriteFails(j)

Next == \E j \in Jobs : Start(j) \/ Run(j) \/ Fault(j)

Spec == Init /\ [][Next]_vars

\* No job waits for another: each goes on until it ends.
FairSpec == Spec /\ \A j \in Jobs : WF_vars(Run(j))
-----------------------------------------------------------------------------
TypeOK ==
  /\ files \in [Paths -> Seq(Units) \cup {Absent}]
  /\ pc \in [Jobs -> {"idle", "open", "create", "header", "trial", "body", "last", "flush",
                  "mark", "over", "unused"}]
  /\ rpos \in [Jobs -> Nat \ {0}] /\ wpos \in [Jobs -> Nat \ {0}]
  /\ held \in [Jobs -> Units]
  /\ run \in [Jobs -> Runs]
  /\ sealed \in [Jobs -> Seq(Units)]
  /\ res \in [Jobs -> {"none", "ok", "err"}]
  /\ \A j \in Jobs : pc[j] = "over" <=> res[j] # "none"
  /\ created \in [Jobs -> BOOLEAN]

\* A decryption that reports success wrote the whole plaintext of one encryption, also
\* when its input was being written, truncated or written again by others meanwhile; or
\* that encryption has reported a failure: the marker that its Close wrote all the same
\* (SealGo.go:67-70) makes of what it left a stream that ends cleanly.
DecryptedIsWhole ==
  \A j \in Jobs : ~Encrypts(j) /\ res[j] = "ok" =>
    \/ files[Job[j].out] = Plaintext(run[j])
    \/ run[j] # Old /\ res[run[j]] = "err"

\* Encryption r has failed, or will: its Close has sealed the chunk that it kept.
Failing(r) == r # Old /\ (pc[r] = "mark" \/ res[r] = "err")

\* What a decryption leaves in its output, failed or not, is a prefix of that plaintext,
\* its last chunk perhaps not whole: no byte of two encryptions, none out of place.  Only
\* of an encryption that failed the last chunk may come a second time.
OutputIsPrefix ==
  \A j \in Jobs : ~Encrypts(j) /\ created[j] =>
    LET o == files[Job[j].out]
        n == Len(o)
        P == Plaintext(run[j])
    IN  n > 0 =>
          /\ IsPrefix(SubSeq(o, 1, n - 1), P)
          /\ \/ n <= Len(P) /\ o[n] \in {P[n], Part(P[n])}
             \/ Failing(run[j]) /\ n > 1 /\ o[n] \in {o[n - 1], Part(o[n - 1])}

\* An encryption that reports success leaves a file that decrypts to what it read, when
\* no other job has created the file as well.
Undisturbed(j) == \A k \in Jobs \ {j} : Job[k].out = Job[j].out => ~created[k]

EncryptedReadsBack ==
  \A j \in Jobs :
    Encrypts(j) /\ res[j] = "ok" /\ Undisturbed(j) => files[Job[j].out] = Sealed(j)

\* A job that is given its input as output loses all of it, whatever it reports: the file
\* is empty, or holds no plaintext but the job's own header, encrypted by itself.
InPlaceLosesAll ==
  \A j \in Jobs : InPlace(j) /\ created[j] =>
    IF Encrypts(j)
    THEN \A k \in 1..Len(files[Job[j].out]) :
           LET u == files[Job[j].out][k]
           IN  u.kind # "plain" /\ u.data = 0 /\ (u.kind # "hole" => u.run = j)
    ELSE files[Job[j].out] = <<>> /\ res[j] # "ok"

\* Every job that was started ends.
JobsEnd == <>[](\A j \in Jobs : pc[j] \in {"idle", "unused", "over"})
=============================================================================
