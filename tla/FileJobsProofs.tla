---------------------------- MODULE FileJobsProofs ----------------------------
(***************************************************************************)
(* FileJobs for any number of jobs and files: what they may leave behind.   *)
(***************************************************************************)
EXTENDS FileJobs, SequenceTheorems, TLAPS

\* What encryption r has sealed when sealed has the value s.
SealedBy(r, s) == IF r = Old THEN Tail(Sealed(Old)) ELSE s[r]

\* Nobody forges a chunk or a marker: it is what its encryption sealed under its counter.
Genuine(u, s) ==
  u.kind \in {"chunk", "marker"} =>
    u.ctr < Len(SealedBy(u.run, s)) /\ u = SealedBy(u.run, s)[u.ctr + 1]

GenuineUnits(s) == {u \in Units : Genuine(u, s)}

GenuineFiles(s) == Seq(GenuineUnits(s))

\* What was sealed by then is there later, in its place.
Grows(s, t) ==
  \A k \in Jobs : Len(s[k]) <= Len(t[k]) /\ \A n \in 1..Len(s[k]) : t[k][n] = s[k][n]

\* File f holds the first n units of S.
Agrees(f, S, n) ==
  /\ f \in Seq(Units)
  /\ n \in 0..Len(S) /\ Len(f) = n
  /\ \A k \in 1..n : f[k] = S[k]

\* A decryption with result r has written the first n chunks of S to file o, the last of
\* them perhaps in part.
Reads(o, S, n, r) ==
  /\ o \in Seq(Units)
  /\ n \in 0..Len(S) /\ Len(o) = n
  /\ \A k \in 1..n :
       /\ S[k].kind = "chunk"
       /\ o[k] = Open(S[k]) \/ (r = "err" /\ k = n /\ o[k] = Part(Open(S[k])))

\* Encryption j has sealed nothing but the first chunks of its plaintext;
Going(s, j) ==
  /\ s \in Seq(Units) /\ Len(s) <= Len(Plaintext(j))
  /\ \A k \in 1..Len(s) : s[k] = Seal(j, k - 1, Plaintext(j)[k])

\* ... after n of them u is the first part of the next one, or the last one again;
Extra(u, j, n) ==
  \/ n < Len(Plaintext(j)) /\ u = Seal(j, n, Part(Plaintext(j)[n + 1]))
  \/ 0 < n /\ u = Seal(j, n, Plaintext(j)[n])

\* ... Close has sealed what was left in the buffer;
Flushed(s, j) == s # <<>> /\ Going(Front(s), j) /\ Extra(Last(s), j, Len(s) - 1)

\* ... and the marker, after that or after what was sealed before.
Marked(s, j) ==
  /\ s # <<>> /\ Last(s) = Marker(j, Len(s) - 1)
  /\ Going(Front(s), j) \/ Flushed(Front(s), j)

\* It has sealed all of its plaintext and the marker.
Whole(s, j) ==
  /\ s # <<>> /\ Going(Front(s), j)
  /\ Len(s) = Len(Plaintext(j)) + 1 /\ Last(s) = Marker(j, Len(Plaintext(j)))

\* What r has sealed, S: the first m chunks of its plaintext, then at most an extra one of
\* a copy that failed, and the marker, which is at the end of the plaintext or of a failure.
Layout(r, S, m) ==
  /\ m \in 0..Len(Plaintext(r)) /\ m <= Len(S)
  /\ \A k \in 1..m : S[k] = Seal(r, k - 1, Plaintext(r)[k])
  /\ \A k \in (m + 1)..Len(S) :
       /\ S[k].kind = "chunk" => k = m + 1 /\ Failing(r) /\ Extra(S[k], r, m)
       /\ S[k].kind = "marker" =>
            (k = m + 1 /\ m = Len(Plaintext(r))) \/ (r # Old /\ res[r] = "err")

\* What an encryption in place may leave in its file.
OwnUnits(j) ==
  {u \in Units : u.kind # "plain" /\ u.data = 0 /\ (u.kind # "hole" => u.run = j)}

Before == {"idle", "unused", "open", "create", "header"}
Running == {"header", "trial", "body", "last", "flush", "mark"}
Places == Before \cup Running \cup {"over"}

\* What a job has done by the time it reads and writes.
PlaceInv(j) ==
  /\ pc[j] \in Before => rpos[j] = 1 /\ wpos[j] = 1
  /\ pc[j] = "open" /\ ~OpensInputFirst(j) => created[j]
  /\ pc[j] \in Running => created[j] /\ files[Job[j].in] \in GenuineFiles(sealed)
  /\ pc[j] = "create" /\ OpensInputFirst(j) => files[Job[j].in] \in GenuineFiles(sealed)
  /\ pc[j] = "trial" => ~Encrypts(j) /\ wpos[j] = 1
  /\ pc[j] \in {"last", "flush", "mark"} => Encrypts(j)
  /\ held[j] \in GenuineUnits(sealed)
  /\ created[j] => files[Job[j].out] \in GenuineFiles(sealed)

\* Nobody else writes the plaintext of an encryption.
InputInv(j) ==
  Encrypts(j) /\ ~InPlace(j) =>
    /\ files[Job[j].in] \in {InitFiles[Job[j].in], Absent}
    /\ pc[j] \in Running \/ (pc[j] = "create" /\ OpensInputFirst(j))
         => files[Job[j].in] = InitFiles[Job[j].in]

\* An encryption's place in its plaintext, and what it has sealed by then.
SealInv(j) ==
  Encrypts(j) =>
    /\ pc[j] \in Before => sealed[j] = <<>>
    /\ pc[j] \in {"body", "last", "flush"} => Going(sealed[j], j)
    /\ pc[j] = "body" => wpos[j] = rpos[j] + 1 /\ rpos[j] = Len(sealed[j]) + 1
    /\ pc[j] = "body" /\ InPlace(j) => rpos[j] = 1
    /\ pc[j] = "last" => InPlace(j) /\ wpos[j] = 3 /\ Len(sealed[j]) = 1
    /\ pc[j] = "flush" => /\ Extra(NextChunk(j, held[j]), j, Len(sealed[j]))
                          /\ InPlace(j) => held[j].data = 0
    /\ pc[j] = "mark" => Going(sealed[j], j) \/ Flushed(sealed[j], j)
    /\ res[j] = "ok" => Whole(sealed[j], j)
    /\ res[j] = "err" => Going(sealed[j], j) \/ Flushed(sealed[j], j) \/ Marked(sealed[j], j)

\* What is in the output of an encryption that has not failed.
WrittenInv(j) ==
  Encrypts(j) /\ created[j] /\ Undisturbed(j)
    /\ pc[j] \notin {"flush", "mark"} /\ res[j] # "err" =>
    /\ Agrees(files[Job[j].out], Sealed(j), wpos[j] - 1)
    /\ res[j] = "ok" => wpos[j] - 1 = Len(Sealed(j))

\* What is in the output of a decryption.
ReadInv(j) ==
  ~Encrypts(j) /\ created[j] =>
    LET S == SealedBy(run[j], sealed)
    IN  /\ Reads(files[Job[j].out], S, wpos[j] - 1, res[j])
        /\ res[j] = "ok" => wpos[j] <= Len(S) /\ S[wpos[j]].kind = "marker"

\* An encryption in place writes over its input, and a decryption finds it empty.
InPlaceInv(j) ==
  InPlace(j) =>
    IF Encrypts(j)
    THEN created[j] => files[Job[j].out] \in Seq(OwnUnits(j))
    ELSE wpos[j] = 1 /\ res[j] # "ok" /\ pc[j] \notin {"trial", "body"}

JobInv(j) ==
  PlaceInv(j) /\ InputInv(j) /\ SealInv(j) /\ WrittenInv(j) /\ ReadInv(j) /\ InPlaceInv(j)

\* A job that has not ended well is not over, or over with an error; one that has is over.
IInv ==
  /\ TypeOK
  /\ files \in [Paths -> GenuineFiles(sealed) \cup {Absent}]
  /\ \A j \in Jobs : JobInv(j)
  /\ \A j \in Jobs : res[j] = "ok" => created[j]
-----------------------------------------------------------------------------
(* Units, and what is sealed                                                 *)

LEMMA JobFacts ==
  ASSUME NEW j \in Jobs
  PROVE  /\ Job[j].in \in Paths /\ Job[j].out \in Paths
         /\ Job[j].op \in {"encrypt", "decrypt"} /\ Job[j].api \in {"cli", "lib"}
         /\ j # Old
<1>1. Job[j] \in [api : {"cli", "lib"}, op : {"encrypt", "decrypt"},
                  in : Paths, out : Paths, match : BOOLEAN]
  BY JobsAssumption
<1> QED
  BY <1>1, JobsAssumption

LEMMA OtherFiles ==
  ASSUME NEW j \in Jobs, NEW k \in Jobs, j # k
  PROVE  /\ Encrypts(k) => Job[k].in # Job[j].out
         /\ ~Encrypts(k) => Job[k].out # Job[j].out
         /\ InPlace(k) => Job[k].out # Job[j].out
BY JobsAssumption

\* Units that open nowhere are genuine whatever has been sealed.
LEMMA OtherUnits ==
  ASSUME NEW s, NEW u \in Units, u.kind \notin {"chunk", "marker"}
  PROVE  u \in GenuineUnits(s)
BY DEF GenuineUnits, Genuine

LEMMA HoleUnit == Hole \in Units /\ Hole.kind = "hole" /\ \A s : Hole \in GenuineUnits(s)
<1>1. Hole \in Units /\ Hole.kind = "hole"
  BY DEF Hole, Units, Runs
<1> QED
  BY <1>1, OtherUnits

LEMMA HeaderUnit ==
  ASSUME NEW j \in Runs
  PROVE  /\ HeaderOf(j) \in Units /\ HeaderOf(j).kind = "header" /\ HeaderOf(j).run = j
         /\ HeaderOf(j).data = 0 /\ HeaderOf(j).part = FALSE
BY DEF HeaderOf, Units

LEMMA MarkerUnit ==
  ASSUME NEW j \in Runs, NEW c \in Nat
  PROVE  /\ Marker(j, c) \in Units /\ Marker(j, c).kind = "marker" /\ Marker(j, c).run = j
         /\ Marker(j, c).ctr = c /\ Marker(j, c).data = 0
BY DEF Marker, Units

LEMMA SealUnit ==
  ASSUME NEW j \in Runs, NEW c \in Nat, NEW u \in Units
  PROVE  /\ Seal(j, c, u) \in Units /\ Seal(j, c, u).kind = "chunk" /\ Seal(j, c, u).run = j
         /\ Seal(j, c, u).ctr = c /\ Seal(j, c, u).data = u.data
         /\ Seal(j, c, u).part = u.part
BY DEF Seal, Units

LEMMA PartUnit ==
  ASSUME NEW u \in Units
  PROVE  /\ Part(u) \in Units /\ Part(u).kind = u.kind /\ Part(u).data = u.data
         /\ Part(u).part = TRUE /\ Part(Part(u)) = Part(u)
<1>1. u \in [kind : {"plain", "header", "chunk", "marker", "hole"}, run : Runs, ctr : Nat,
             data : Nat, part : BOOLEAN]
  BY DEF Units
<1>2. Part(u) = [u EXCEPT !.part = TRUE]
  BY DEF Part
<1>3. /\ Part(u) \in Units /\ Part(u).kind = u.kind /\ Part(u).data = u.data
      /\ Part(u).part = TRUE
  BY <1>1, <1>2 DEF Units
<1>4. Part(Part(u)) = Part(u)
  BY <1>1 DEF Part
<1> QED
  BY <1>3, <1>4

LEMMA PlainUnit ==
  ASSUME NEW n \in Nat
  PROVE  /\ Plain(n) \in Units /\ Plain(n).kind = "plain" /\ Plain(n).data = n
         /\ Plain(n).part = FALSE
BY DEF Plain, Units, Runs

LEMMA OpenUnit ==
  ASSUME NEW u \in Units
  PROVE  Open(u) \in Units /\ Open(u).kind = "plain"
<1>1. u.data \in Nat
  BY DEF Units
<1>2. Plain(u.data) \in Units /\ Plain(u.data).kind = "plain"
  BY <1>1, PlainUnit
<1> QED
  BY <1>2, PartUnit DEF Open

LEMMA PlaintextFacts ==
  ASSUME NEW r \in Runs
  PROVE  /\ Plaintext(r) \in Seq(Units) /\ Len(Plaintext(r)) \in Nat
         /\ \A n \in 1..Len(Plaintext(r)) :
              /\ Plaintext(r)[n] \in Units /\ Plaintext(r)[n].data \in Nat
              /\ Plaintext(r)[n] = Plain(Plaintext(r)[n].data)
<1>1. PlainFile(Plaintext(r))
  <2>1. CASE r = Old
    BY <2>1, FilesAssumption DEF Plaintext
  <2>2. CASE r # Old /\ InPlace(r)
    <3>1. Plaintext(r) = <<Plain(0)>>
      BY <2>2 DEF Plaintext
    <3>2. Plain(0) \in Units /\ Plain(0).data = 0
      BY DEF Plain, Units, Runs
    <3> QED
      BY <3>1, <3>2 DEF PlainFile
  <2>3. CASE r # Old /\ ~InPlace(r)
    <3>1. Plaintext(r) = InitFiles[Job[r].in]
      BY <2>3 DEF Plaintext
    <3> QED
      BY <2>3, <3>1, FilesAssumption DEF Runs
  <2> QED
    BY <2>1, <2>2, <2>3
<1>2. \A u \in Units : u.data \in Nat
  BY DEF Units
<1> QED
  BY <1>1, <1>2 DEF PlainFile

\* What is sealed is opened again.
LEMMA OpenSeal ==
  ASSUME NEW r \in Runs, NEW n \in 1..Len(Plaintext(r)), NEW c
  PROVE  /\ Open(Seal(r, c, Plaintext(r)[n])) = Plaintext(r)[n]
         /\ Open(Seal(r, c, Part(Plaintext(r)[n]))) = Part(Plaintext(r)[n])
<1> DEFINE P == Plaintext(r)[n]
<1>1. PICK d \in Nat : P = Plain(d)
  BY PlaintextFacts
<1>2. P \in Units /\ P.data = d /\ P.part = FALSE
  BY <1>1, PlainUnit
<1> HIDE DEF P
<1>3. Part(P).data = d /\ Part(P).part = TRUE
  BY <1>2, PartUnit
<1>4. Seal(r, c, P).data = d /\ Seal(r, c, P).part = FALSE
  BY <1>2 DEF Seal
<1>5. Seal(r, c, Part(P)).data = d /\ Seal(r, c, Part(P)).part = TRUE
  BY <1>3 DEF Seal
<1> QED
  BY <1>1, <1>4, <1>5 DEF Open, P

LEMMA SealedFacts ==
  ASSUME NEW r \in Runs
  PROVE  /\ Sealed(r) \in Seq(Units) /\ Len(Sealed(r)) = Len(Plaintext(r)) + 2
         /\ Sealed(r)[1] = HeaderOf(r)
         /\ \A n \in 1..Len(Plaintext(r)) :
              Sealed(r)[n + 1] = Seal(r, n - 1, Plaintext(r)[n])
         /\ Sealed(r)[Len(Plaintext(r)) + 2] = Marker(r, Len(Plaintext(r)))
<1> DEFINE P == Plaintext(r)
           C == [c \in 1..Len(P) |-> Seal(r, c - 1, P[c])]
<1>1. /\ P \in Seq(Units) /\ Len(P) \in Nat
      /\ \A n \in 1..Len(P) : P[n] \in Units
  BY PlaintextFacts
<1>2. Sealed(r) = <<HeaderOf(r)>> \o C \o <<Marker(r, Len(P))>>
  BY DEF Sealed
<1>3. HeaderOf(r) \in Units /\ Marker(r, Len(P)) \in Units
  BY <1>1, HeaderUnit, MarkerUnit
<1>4. \A n \in 1..Len(P) : Seal(r, n - 1, P[n]) \in Units
  <2> HIDE DEF P
  <2>1. ASSUME NEW n \in 1..Len(P)
        PROVE  Seal(r, n - 1, P[n]) \in Units
    <3>1. n - 1 \in Nat /\ P[n] \in Units
      BY <1>1
    <3> QED
      BY <3>1, SealUnit
  <2> QED
    BY <2>1
<1>5. C \in Seq(Units) /\ Len(C) = Len(P)
  <2> HIDE DEF P
  <2>1. C \in [1..Len(P) -> Units]
    BY <1>4
  <2> QED
    BY <1>1, <2>1
<1>6. \A n \in 1..Len(P) : C[n] = Seal(r, n - 1, P[n])
  OBVIOUS
<1> HIDE DEF P, C
<1> QED
  BY <1>1, <1>2, <1>3, <1>5, <1>6 DEF P

LEMMA OldFacts ==
  /\ Old \in Runs
  /\ Tail(Sealed(Old)) \in Seq(Units) /\ Len(Tail(Sealed(Old))) = Len(OldPlain) + 1
  /\ Len(OldPlain) \in Nat /\ Plaintext(Old) = OldPlain
  /\ \A n \in 1..(Len(OldPlain) + 1) : Tail(Sealed(Old))[n] = Sealed(Old)[n + 1]
<1>1. Old \in Runs /\ Plaintext(Old) = OldPlain
  BY DEF Runs, Plaintext
<1>2. Sealed(Old) \in Seq(Units) /\ Len(Sealed(Old)) = Len(OldPlain) + 2 /\ Len(OldPlain) \in Nat
  BY <1>1, SealedFacts, PlaintextFacts
<1> DEFINE S == Sealed(Old)
<1>3. S \in Seq(Units) /\ S # <<>>
  BY <1>2
<1> HIDE DEF S
<1>4. Tail(S) \in Seq(Units) /\ Len(Tail(S)) = Len(S) - 1 /\ \A n \in 1..Len(Tail(S)) : Tail(S)[n] = S[n + 1]
  BY <1>3
<1> QED
  BY <1>1, <1>2, <1>4 DEF S

\* The sealed files there are at first.
LEMMA SealedByOldGenuine ==
  ASSUME NEW u \in Units, SealedByOld(u), NEW s
  PROVE  u \in GenuineUnits(s)
<1>1. CASE u.kind \in {"chunk", "marker"}
  <2>1. u.run = Old /\ u.ctr <= Len(OldPlain) /\ u = Sealed(Old)[u.ctr + 2] /\ u.ctr \in Nat
    BY <1>1 DEF SealedByOld, Units
  <2>2. SealedBy(u.run, s) = Tail(Sealed(Old))
    BY <2>1 DEF SealedBy
  <2>3. u.ctr + 1 \in 1..(Len(OldPlain) + 1) /\ (u.ctr + 1) + 1 = u.ctr + 2
    BY <2>1, OldFacts
  <2>4. Tail(Sealed(Old))[u.ctr + 1] = u
    BY <2>1, <2>3, OldFacts
  <2>5. u.ctr < Len(Tail(Sealed(Old)))
    BY <2>1, OldFacts
  <2> QED
    BY <2>2, <2>4, <2>5 DEF GenuineUnits, Genuine
<1>2. CASE u.kind \notin {"chunk", "marker"}
  BY <1>2, OtherUnits
<1> QED
  BY <1>1, <1>2

\* The file after a write, over units of any set that holes are in.
LEMMA WriteAtType ==
  ASSUME NEW U \in SUBSET Units, Hole \in U, NEW f \in Seq(U), NEW k \in Nat \ {0}, NEW u \in U
  PROVE  WriteAt(f, k, u) \in Seq(U)
<1>1. Len(f) \in Nat
  OBVIOUS
<1>2. CASE k <= Len(f)
  <2>1. WriteAt(f, k, u) = [f EXCEPT ![k] = u]
    BY <1>2 DEF WriteAt
  <2> QED
    BY <1>1, <1>2, <2>1
<1>3. CASE k > Len(f)
  <2> DEFINE gap == [g \in 1..(k - Len(f) - 1) |-> Hole]
  <2>1. WriteAt(f, k, u) = f \o gap \o <<u>>
    BY <1>1, <1>3 DEF WriteAt
  <2>2. gap \in Seq(U) /\ Len(gap) = k - Len(f) - 1
    <3>1. k - Len(f) - 1 \in Nat
      BY <1>1, <1>3
    <3>2. gap \in [1..(k - Len(f) - 1) -> U]
      OBVIOUS
    <3> HIDE DEF gap
    <3> QED
      BY <3>1, <3>2
  <2> HIDE DEF gap
  <2>3. f \o gap \o <<u>> \in Seq(U)
    BY <1>1, <2>2
  <2> QED
    BY <2>1, <2>3
<1> QED
  BY <1>1, <1>2, <1>3

LEMMA WriteNext ==
  ASSUME NEW f \in Seq(Units), NEW n \in Nat, Len(f) = n, NEW u \in Units
  PROVE  /\ WriteAt(f, n + 1, u) \in Seq(Units)
         /\ Len(WriteAt(f, n + 1, u)) = n + 1
         /\ WriteAt(f, n + 1, u)[n + 1] = u
         /\ \A k \in 1..n : WriteAt(f, n + 1, u)[k] = f[k]
<1> DEFINE gap == [g \in 1..(n + 1 - Len(f) - 1) |-> Hole]
<1>1. WriteAt(f, n + 1, u) = f \o gap \o <<u>>
  BY DEF WriteAt
<1>2. gap \in Seq(Units) /\ Len(gap) = 0
  <2>1. n + 1 - Len(f) - 1 = 0
    OBVIOUS
  <2>2. gap \in [1..0 -> Units]
    BY <2>1
  <2> HIDE DEF gap
  <2> QED
    BY <2>2
<1> HIDE DEF gap
<1> QED
  BY <1>1, <1>2

\* The next unit in its place.
LEMMA AgreesNext ==
  ASSUME NEW f, NEW S \in Seq(Units), NEW n, Agrees(f, S, n), n < Len(S)
  PROVE  Agrees(WriteAt(f, n + 1, S[n + 1]), S, n + 1)
<1>1. f \in Seq(Units) /\ n \in Nat /\ Len(f) = n /\ n + 1 \in 0..Len(S)
      /\ \A k \in 1..n : f[k] = S[k]
  BY DEF Agrees
<1>2. S[n + 1] \in Units
  BY <1>1
<1>3. /\ WriteAt(f, n + 1, S[n + 1]) \in Seq(Units)
      /\ Len(WriteAt(f, n + 1, S[n + 1])) = n + 1
      /\ WriteAt(f, n + 1, S[n + 1])[n + 1] = S[n + 1]
      /\ \A k \in 1..n : WriteAt(f, n + 1, S[n + 1])[k] = f[k]
  BY <1>1, <1>2, WriteNext
<1>4. \A k \in 1..(n + 1) : WriteAt(f, n + 1, S[n + 1])[k] = S[k]
  BY <1>1, <1>3
<1> QED
  BY <1>1, <1>3, <1>4 DEF Agrees

LEMMA AgreesAll ==
  ASSUME NEW f, NEW S \in Seq(Units), Agrees(f, S, Len(S))
  PROVE  f = S
<1>1. f \in Seq(Units) /\ Len(f) = Len(S) /\ \A k \in 1..Len(S) : f[k] = S[k]
  BY DEF Agrees
<1> QED
  BY <1>1, SeqEqual

\* The next chunk opened, or a part of it at the end.
LEMMA ReadsNext ==
  ASSUME NEW o, NEW S \in Seq(Units), NEW n, NEW u \in Units, NEW r \in {"none", "err"},
         Reads(o, S, n, "none"), n < Len(S), S[n + 1].kind = "chunk",
         u = Open(S[n + 1]) \/ (r = "err" /\ u = Part(Open(S[n + 1])))
  PROVE  Reads(WriteAt(o, n + 1, u), S, n + 1, r)
<1>1. o \in Seq(Units) /\ n \in Nat /\ Len(o) = n /\ n + 1 \in 0..Len(S)
      /\ \A k \in 1..n : S[k].kind = "chunk" /\ o[k] = Open(S[k])
  BY DEF Reads
<1>2. /\ WriteAt(o, n + 1, u) \in Seq(Units)
      /\ Len(WriteAt(o, n + 1, u)) = n + 1
      /\ WriteAt(o, n + 1, u)[n + 1] = u
      /\ \A k \in 1..n : WriteAt(o, n + 1, u)[k] = o[k]
  BY <1>1, WriteNext
<1>3. ASSUME NEW k \in 1..(n + 1)
      PROVE  /\ S[k].kind = "chunk"
             /\ \/ WriteAt(o, n + 1, u)[k] = Open(S[k])
                \/ r = "err" /\ k = n + 1 /\ WriteAt(o, n + 1, u)[k] = Part(Open(S[k]))
  <2>1. CASE k = n + 1
    BY <1>2, <2>1
  <2>2. CASE k \in 1..n
    BY <1>1, <1>2, <2>2
  <2> QED
    BY <1>1, <2>1, <2>2
<1> QED
  BY <1>1, <1>2, <1>3 DEF Reads

\* What a failed decryption has read is all that it had read before.
LEMMA ReadsErr ==
  ASSUME NEW o, NEW S, NEW n, NEW r, Reads(o, S, n, "none")
  PROVE  Reads(o, S, n, r)
BY DEF Reads
-----------------------------------------------------------------------------
(* What an encryption has sealed                                             *)

LEMMA SealedGrows ==
  ASSUME NEW s \in [Jobs -> Seq(Units)], NEW t \in [Jobs -> Seq(Units)], Grows(s, t)
  PROVE  /\ \A r \in Runs :
              /\ SealedBy(r, s) \in Seq(Units) /\ SealedBy(r, t) \in Seq(Units)
              /\ Len(SealedBy(r, s)) <= Len(SealedBy(r, t))
              /\ \A n \in 1..Len(SealedBy(r, s)) : SealedBy(r, t)[n] = SealedBy(r, s)[n]
         /\ GenuineUnits(s) \subseteq GenuineUnits(t)
         /\ GenuineFiles(s) \subseteq GenuineFiles(t)
<1>1. ASSUME NEW r \in Runs
      PROVE  /\ SealedBy(r, s) \in Seq(Units) /\ SealedBy(r, t) \in Seq(Units)
             /\ Len(SealedBy(r, s)) <= Len(SealedBy(r, t))
             /\ \A n \in 1..Len(SealedBy(r, s)) : SealedBy(r, t)[n] = SealedBy(r, s)[n]
  <2>1. CASE r = Old
    <3>1. SealedBy(r, s) = Tail(Sealed(Old)) /\ SealedBy(r, t) = Tail(Sealed(Old))
      BY <2>1 DEF SealedBy
    <3> QED
      BY <3>1, OldFacts
  <2>2. CASE r # Old
    <3>1. SealedBy(r, s) = s[r] /\ SealedBy(r, t) = t[r] /\ r \in Jobs
      BY <2>2 DEF SealedBy, Runs
    <3> QED
      BY <3>1 DEF Grows
  <2> QED
    BY <2>1, <2>2
<1>2. GenuineUnits(s) \subseteq GenuineUnits(t)
  <2>1. ASSUME NEW u \in GenuineUnits(s), u.kind \in {"chunk", "marker"}
        PROVE  u \in GenuineUnits(t)
    <3>1. u \in Units /\ u.run \in Runs /\ u.ctr \in Nat
      BY DEF GenuineUnits, Units
    <3>2. u.ctr < Len(SealedBy(u.run, s)) /\ u = SealedBy(u.run, s)[u.ctr + 1]
      BY <2>1 DEF GenuineUnits, Genuine
    <3> DEFINE S == SealedBy(u.run, s)
               T == SealedBy(u.run, t)
    <3>3. /\ S \in Seq(Units) /\ T \in Seq(Units) /\ Len(S) <= Len(T)
          /\ \A n \in 1..Len(S) : T[n] = S[n]
      BY <1>1, <3>1
    <3>4. u.ctr < Len(S) /\ u = S[u.ctr + 1]
      BY <3>2
    <3> HIDE DEF S, T
    <3>5. Len(S) \in Nat /\ Len(T) \in Nat /\ u.ctr + 1 \in 1..Len(S)
      BY <3>1, <3>3, <3>4
    <3>6. u.ctr < Len(T) /\ u = T[u.ctr + 1]
      BY <3>1, <3>3, <3>4, <3>5
    <3> QED
      BY <3>1, <3>6 DEF GenuineUnits, Genuine, T
  <2>2. ASSUME NEW u \in GenuineUnits(s), u.kind \notin {"chunk", "marker"}
        PROVE  u \in GenuineUnits(t)
    BY <2>2, OtherUnits DEF GenuineUnits
  <2> QED
    BY <2>1, <2>2
<1> QED
  BY <1>1, <1>2 DEF GenuineFiles

LEMMA AppendGrows ==
  ASSUME NEW s \in [Jobs -> Seq(Units)], NEW j \in Jobs, NEW u \in Units, NEW t,
         t = [s EXCEPT ![j] = Append(@, u)]
  PROVE  /\ t \in [Jobs -> Seq(Units)] /\ t[j] = Append(s[j], u) /\ Grows(s, t)
         /\ u.run = j /\ u.ctr = Len(s[j]) => u \in GenuineUnits(t)
<1>1. t \in [Jobs -> Seq(Units)] /\ t[j] = Append(s[j], u) /\ \A k \in Jobs \ {j} : t[k] = s[k]
  OBVIOUS
<1>2. /\ Len(t[j]) = Len(s[j]) + 1 /\ t[j][Len(s[j]) + 1] = u /\ Len(s[j]) \in Nat
      /\ \A n \in 1..Len(s[j]) : t[j][n] = s[j][n]
  <2> DEFINE f == s[j]
  <2>1. f \in Seq(Units)
    OBVIOUS
  <2> HIDE DEF f
  <2>2. /\ Len(Append(f, u)) = Len(f) + 1 /\ Append(f, u)[Len(f) + 1] = u /\ Len(f) \in Nat
        /\ \A n \in 1..Len(f) : Append(f, u)[n] = f[n]
    BY <2>1
  <2> QED
    BY <1>1, <2>2 DEF f
<1>3. Grows(s, t)
  <2>1. ASSUME NEW k \in Jobs
        PROVE  Len(s[k]) <= Len(t[k]) /\ \A n \in 1..Len(s[k]) : t[k][n] = s[k][n]
    <3>1. CASE k = j
      BY <1>2, <3>1
    <3>2. CASE k # j
      BY <1>1, <3>2
    <3> QED
      BY <3>1, <3>2
  <2> QED
    BY <2>1 DEF Grows
<1>4. ASSUME u.run = j, u.ctr = Len(s[j])
      PROVE  u \in GenuineUnits(t)
  <2>1. SealedBy(u.run, t) = t[j]
    BY <1>4, JobFacts DEF SealedBy
  <2> QED
    BY <1>2, <1>4, <2>1 DEF GenuineUnits, Genuine
<1> QED
  BY <1>1, <1>3, <1>4

LEMMA FrontAppend ==
  ASSUME NEW s \in Seq(Units), NEW u \in Units
  PROVE  /\ Append(s, u) \in Seq(Units) /\ Append(s, u) # <<>>
         /\ Len(Append(s, u)) = Len(s) + 1 /\ Len(s) \in Nat
         /\ Last(Append(s, u)) = u /\ Front(Append(s, u)) = s
<1> DEFINE t == Append(s, u)
<1>1. /\ t \in Seq(Units) /\ t # <<>> /\ Len(t) = Len(s) + 1 /\ Len(s) \in Nat
      /\ t[Len(s) + 1] = u /\ \A n \in 1..Len(s) : t[n] = s[n]
  OBVIOUS
<1> HIDE DEF t
<1>2. Last(t) = u
  BY <1>1 DEF Last
<1>3. Front(t) = SubSeq(t, 1, Len(s))
  BY <1>1 DEF Front
<1>4. SubSeq(t, 1, Len(s)) \in Seq(Units) /\ Len(SubSeq(t, 1, Len(s))) = Len(s)
  BY <1>1
<1>5. \A n \in 1..Len(s) : SubSeq(t, 1, Len(s))[n] = s[n]
  BY <1>1
<1>6. SubSeq(t, 1, Len(s)) = s
  BY <1>4, <1>5, SeqEqual
<1> QED
  BY <1>1, <1>2, <1>3, <1>6 DEF t

\* Of a sequence that is not empty.
LEMMA FrontFacts ==
  ASSUME NEW s \in Seq(Units), s # <<>>
  PROVE  /\ Len(s) \in Nat \ {0} /\ Front(s) \in Seq(Units) /\ Len(Front(s)) = Len(s) - 1
         /\ \A k \in 1..(Len(s) - 1) : Front(s)[k] = s[k]
         /\ Last(s) = s[Len(s)] /\ s[Len(s)] \in Units
<1>1. Len(s) \in Nat \ {0} /\ s[Len(s)] \in Units
  OBVIOUS
<1>2. Front(s) = SubSeq(s, 1, Len(s) - 1) /\ Last(s) = s[Len(s)]
  BY DEF Front, Last
<1> DEFINE n == Len(s) - 1
<1>3. n \in Nat /\ n <= Len(s)
  BY <1>1
<1> HIDE DEF n
<1>4. SubSeq(s, 1, n) \in Seq(Units) /\ Len(SubSeq(s, 1, n)) = n
  BY <1>1, <1>3
<1>5. \A k \in 1..n : SubSeq(s, 1, n)[k] = s[k]
  BY <1>1, <1>3
<1> QED
  BY <1>1, <1>2, <1>4, <1>5 DEF n

LEMMA GoingEmpty ==
  ASSUME NEW j \in Runs
  PROVE  Going(<<>>, j)
BY PlaintextFacts DEF Going

LEMMA GoingNext ==
  ASSUME NEW j \in Runs, NEW s, Going(s, j), Len(s) < Len(Plaintext(j)),
         NEW u \in Units, u = Seal(j, Len(s), Plaintext(j)[Len(s) + 1])
  PROVE  Going(Append(s, u), j)
<1>1. /\ s \in Seq(Units) /\ Len(s) \in Nat /\ Len(Plaintext(j)) \in Nat
      /\ \A k \in 1..Len(s) : s[k] = Seal(j, k - 1, Plaintext(j)[k])
  BY PlaintextFacts DEF Going
<1> DEFINE t == Append(s, u)
<1>2. /\ t \in Seq(Units) /\ Len(t) = Len(s) + 1 /\ t[Len(s) + 1] = u
      /\ \A k \in 1..Len(s) : t[k] = s[k]
  BY <1>1
<1> HIDE DEF t
<1>3. ASSUME NEW k \in 1..Len(t)
      PROVE  t[k] = Seal(j, k - 1, Plaintext(j)[k])
  <2>1. CASE k = Len(s) + 1
    <3>1. k - 1 = Len(s)
      BY <1>1, <2>1
    <3> QED
      BY <1>2, <2>1, <3>1
  <2>2. CASE k \in 1..Len(s)
    BY <1>1, <1>2, <2>2
  <2> QED
    BY <1>1, <1>2, <2>1, <2>2
<1> QED
  BY <1>1, <1>2, <1>3 DEF Going, t

LEMMA FlushedNext ==
  ASSUME NEW j \in Runs, NEW s, Going(s, j), NEW u \in Units, Extra(u, j, Len(s))
  PROVE  Flushed(Append(s, u), j)
<1>1. s \in Seq(Units)
  BY DEF Going
<1>2. /\ Append(s, u) # <<>> /\ Len(Append(s, u)) - 1 = Len(s)
      /\ Last(Append(s, u)) = u /\ Front(Append(s, u)) = s
  BY <1>1, FrontAppend
<1> QED
  BY <1>2 DEF Flushed

LEMMA MarkedNext ==
  ASSUME NEW j \in Runs, NEW s \in Seq(Units), NEW u, u = Marker(j, Len(s))
  PROVE  /\ Going(s, j) \/ Flushed(s, j) => Marked(Append(s, u), j)
         /\ Going(s, j) /\ Len(s) = Len(Plaintext(j)) => Whole(Append(s, u), j)
<1>1. u \in Units /\ Len(s) \in Nat
  BY MarkerUnit
<1>2. /\ Append(s, u) # <<>> /\ Len(Append(s, u)) = Len(s) + 1
      /\ Last(Append(s, u)) = u /\ Front(Append(s, u)) = s
  BY <1>1, FrontAppend
<1>3. Len(Append(s, u)) - 1 = Len(s)
  BY <1>1, <1>2
<1> QED
  BY <1>2, <1>3 DEF Marked, Whole

\* What is known of a job.
LEMMA JobTypes ==
  ASSUME IInv, NEW j \in Jobs
  PROVE  /\ pc \in [Jobs -> Places] /\ res \in [Jobs -> {"none", "ok", "err"}]
         /\ rpos \in [Jobs -> Nat \ {0}] /\ wpos \in [Jobs -> Nat \ {0}]
         /\ run \in [Jobs -> Runs] /\ held \in [Jobs -> Units]
         /\ sealed \in [Jobs -> Seq(Units)] /\ created \in [Jobs -> BOOLEAN]
         /\ files \in [Paths -> GenuineFiles(sealed) \cup {Absent}]
         /\ pc[j] = "over" <=> res[j] # "none"
         /\ PlaceInv(j) /\ InputInv(j) /\ SealInv(j)
         /\ WrittenInv(j) /\ ReadInv(j) /\ InPlaceInv(j)
<1>1. TypeOK /\ (\A k \in Jobs : JobInv(k)) /\ files \in [Paths -> GenuineFiles(sealed) \cup {Absent}]
  BY DEF IInv
<1>2. /\ PlaceInv(j) /\ InputInv(j) /\ SealInv(j)
      /\ WrittenInv(j) /\ ReadInv(j) /\ InPlaceInv(j)
  BY <1>1 DEF JobInv
<1> QED
  BY <1>1, <1>2 DEF TypeOK, Places, Before, Running

LEMMA LayoutOfGoing ==
  ASSUME NEW r \in Runs, NEW s, Going(s, r)
  PROVE  Layout(r, s, Len(s))
BY PlaintextFacts DEF Going, Layout

LEMMA LayoutOfFlushed ==
  ASSUME NEW r \in Runs, NEW s \in Seq(Units), Flushed(s, r), Failing(r)
  PROVE  Layout(r, s, Len(s) - 1)
<1> DEFINE m == Len(s) - 1
           f == Front(s)
<1>1. /\ s # <<>> /\ Going(f, r) /\ Extra(s[Len(s)], r, m)
      /\ Len(s) \in Nat \ {0} /\ Len(f) = m
      /\ \A k \in 1..m : f[k] = s[k]
  BY FrontFacts DEF Flushed
<1>2. s[Len(s)].kind = "chunk"
  BY <1>1 DEF Extra, Seal
<1> HIDE DEF f
<1>3. /\ m \in 0..Len(Plaintext(r)) /\ m <= Len(s) /\ Len(s) = m + 1
      /\ \A k \in 1..m : s[k] = Seal(r, k - 1, Plaintext(r)[k])
  BY <1>1, PlaintextFacts DEF Going
<1> HIDE DEF m
<1>4. ASSUME NEW k \in (m + 1)..Len(s)
      PROVE  k = m + 1 /\ s[k] = s[Len(s)]
  BY <1>3
<1>5. Layout(r, s, m)
  BY <1>1, <1>2, <1>3, <1>4 DEF Layout
<1> QED
  BY <1>5 DEF m

\* What is sealed before the marker has the same layout with it.
LEMMA LayoutOfMarked ==
  ASSUME NEW r \in Runs, NEW s \in Seq(Units), s # <<>>, Last(s).kind = "marker",
         NEW m, Layout(r, Front(s), m),
         (m = Len(s) - 1 /\ m = Len(Plaintext(r))) \/ (r # Old /\ res[r] = "err")
  PROVE  Layout(r, s, m)
<1> DEFINE f == Front(s)
<1>1. /\ Len(s) \in Nat \ {0} /\ Len(f) = Len(s) - 1 /\ s[Len(s)].kind = "marker"
      /\ \A k \in 1..Len(f) : f[k] = s[k]
  BY FrontFacts
<1>2. Layout(r, f, m)
  OBVIOUS
<1> HIDE DEF f
<1>3. m \in Nat /\ Len(Plaintext(r)) \in Nat
  BY <1>2, PlaintextFacts DEF Layout
<1>4. ASSUME NEW k \in (m + 1)..Len(s)
      PROVE  /\ s[k].kind = "chunk" => k = m + 1 /\ Failing(r) /\ Extra(s[k], r, m)
             /\ s[k].kind = "marker" =>
                  (k = m + 1 /\ m = Len(Plaintext(r))) \/ (r # Old /\ res[r] = "err")
  <2>1. CASE k = Len(s)
    BY <1>1, <1>3, <2>1
  <2>2. CASE k \in (m + 1)..Len(f)
    <3>1. f[k] = s[k]
      BY <1>1, <1>3, <2>2
    <3> QED
      BY <1>2, <2>2, <3>1 DEF Layout
  <2> QED
    BY <1>1, <1>3, <2>1, <2>2
<1>5. /\ m \in 0..Len(Plaintext(r)) /\ m <= Len(s)
      /\ \A k \in 1..m : s[k] = Seal(r, k - 1, Plaintext(r)[k])
  BY <1>1, <1>2, <1>3 DEF Layout
<1> QED
  BY <1>4, <1>5 DEF Layout

\* All that any encryption has sealed.
LEMMA SealedLayout ==
  ASSUME IInv, NEW r \in Runs
  PROVE  \E m : Layout(r, SealedBy(r, sealed), m)
<1>1. CASE r = Old
  <2> DEFINE S == Tail(Sealed(Old))
             n == Len(OldPlain)
  <2> HIDE DEF S, n
  <2>1. /\ S \in Seq(Units) /\ Len(S) = n + 1 /\ n \in Nat /\ Old \in Runs
        /\ Plaintext(Old) = OldPlain
        /\ \A k \in 1..(n + 1) : S[k] = Sealed(Old)[k + 1]
    BY OldFacts DEF S, n
  <2>2. /\ \A k \in 1..n : Sealed(Old)[k + 1] = Seal(Old, k - 1, Plaintext(Old)[k])
        /\ Sealed(Old)[n + 2] = Marker(Old, n)
    BY <2>1, SealedFacts DEF n
  <2>3. S[n + 1].kind = "marker"
    <3>1. (n + 1) + 1 = n + 2 /\ n + 1 \in 1..(n + 1)
      BY <2>1
    <3>2. S[n + 1] = Marker(Old, n)
      BY <2>1, <2>2, <3>1
    <3> QED
      BY <3>2 DEF Marker
  <2>4. \A k \in (n + 1)..Len(S) : k = n + 1
    BY <2>1
  <2>5. Layout(Old, S, n)
    BY <2>1, <2>2, <2>3, <2>4 DEF Layout, n
  <2> QED
    BY <1>1, <2>5 DEF SealedBy, S
<1>2. CASE r # Old
  <2>1. r \in Jobs /\ Encrypts(r) /\ SealedBy(r, sealed) = sealed[r]
    BY <1>2 DEF Runs, SealedBy
  <2>2. /\ SealInv(r) /\ PlaceInv(r) /\ sealed[r] \in Seq(Units)
        /\ pc[r] \in Places /\ res[r] \in {"none", "ok", "err"}
        /\ pc[r] = "over" <=> res[r] # "none"
    BY <2>1, JobTypes
  <2> DEFINE s == sealed[r]
  <2>3. CASE Going(s, r)
    BY <2>1, <2>3, LayoutOfGoing
  <2>4. CASE Flushed(s, r) /\ Failing(r)
    BY <2>1, <2>2, <2>4, LayoutOfFlushed
  <2>5. CASE Whole(s, r)
    <3>1. /\ s # <<>> /\ Last(s).kind = "marker" /\ Len(Front(s)) = Len(s) - 1
          /\ Len(s) = Len(Plaintext(r)) + 1
      BY <2>2, <2>5, FrontFacts DEF Whole, Marker
    <3>2. Layout(r, Front(s), Len(Front(s)))
      BY <2>5, LayoutOfGoing DEF Whole
    <3>3. Len(Front(s)) = Len(Plaintext(r))
      BY <3>1, PlaintextFacts
    <3> QED
      BY <2>1, <2>2, <3>1, <3>2, <3>3, LayoutOfMarked
  <2>6. CASE Marked(s, r) /\ res[r] = "err"
    <3>1. s # <<>> /\ Last(s).kind = "marker" /\ Front(s) \in Seq(Units) /\ Failing(r)
      BY <1>2, <2>2, <2>6, FrontFacts DEF Marked, Marker, Failing
    <3>2. \E m : Layout(r, Front(s), m)
      BY <2>6, <3>1, LayoutOfGoing, LayoutOfFlushed DEF Marked
    <3> QED
      BY <1>2, <2>1, <2>2, <2>6, <3>1, <3>2, LayoutOfMarked
  <2>7. \/ Going(s, r) \/ Whole(s, r)
        \/ Failing(r) /\ Flushed(s, r)
        \/ res[r] = "err" /\ Marked(s, r)
    <3>1. CASE pc[r] \in Before
      <4>1. s = <<>>
        BY <2>1, <2>2, <3>1 DEF SealInv
      <4> QED
        BY <4>1, GoingEmpty
    <3>2. CASE pc[r] \in {"body", "last", "flush"}
      <4>1. Going(s, r)
        BY <2>1, <2>2, <3>2 DEF SealInv
      <4> QED
        BY <4>1
    <3>5. CASE pc[r] = "mark"
      <4>1. Going(s, r) \/ Flushed(s, r)
        BY <2>1, <2>2, <3>5 DEF SealInv
      <4> QED
        BY <1>2, <3>5, <4>1 DEF Failing
    <3>3. CASE pc[r] = "over"
      <4>1. CASE res[r] = "ok"
        BY <2>1, <2>2, <4>1 DEF SealInv
      <4>2. CASE res[r] = "err"
        <5>1. Going(s, r) \/ Flushed(s, r) \/ Marked(s, r)
          BY <2>1, <2>2, <4>2 DEF SealInv
        <5> QED
          BY <1>2, <4>2, <5>1 DEF Failing
      <4> QED
        BY <2>2, <3>3, <4>1, <4>2
    <3>4. CASE pc[r] = "trial"
      BY <2>1, <2>2, <3>4 DEF PlaceInv
    <3>6. \/ pc[r] \in Before \/ pc[r] \in {"body", "last", "flush"}
          \/ pc[r] = "mark" \/ pc[r] = "over" \/ pc[r] = "trial"
      BY <2>2 DEF Places, Running, Before
    <3> QED
      BY <3>1, <3>2, <3>3, <3>4, <3>5, <3>6
  <2> QED
    BY <2>3, <2>4, <2>5, <2>6, <2>7
<1> QED
  BY <1>1, <1>2

-----------------------------------------------------------------------------
(* Steps                                                                     *)

LEMMA InitIInv == Init => IInv
<1> SUFFICES ASSUME Init
             PROVE  IInv
  OBVIOUS
<1>1. PICK gone \in SUBSET Missing :
        files = [p \in Paths |-> IF p \in gone THEN Absent ELSE InitFiles[p]]
  BY DEF Init
<1>2. PICK plan \in Plans : pc = [j \in Jobs |-> IF j \in plan THEN "idle" ELSE "unused"]
  BY DEF Init
<1>3. /\ rpos = [j \in Jobs |-> 1] /\ wpos = [j \in Jobs |-> 1]
      /\ run = [j \in Jobs |-> Old] /\ held = [j \in Jobs |-> Hole]
      /\ sealed = [j \in Jobs |-> <<>>]
      /\ res = [j \in Jobs |-> "none"] /\ created = [j \in Jobs |-> FALSE]
  BY DEF Init
<1>4. \A p \in Paths : InitFiles[p] \in Seq(Units) /\ InitFiles[p] \in GenuineFiles(sealed)
  <2>1. ASSUME NEW p \in Paths
        PROVE  InitFiles[p] \in Seq(Units) /\ InitFiles[p] \in GenuineFiles(sealed)
    <3>1. /\ InitFiles[p] \in Seq(Units)
          /\ \A k \in 1..Len(InitFiles[p]) : SealedByOld(InitFiles[p][k])
      BY FilesAssumption
    <3>2. \A k \in 1..Len(InitFiles[p]) : InitFiles[p][k] \in Units
      BY <3>1
    <3>3. \A k \in 1..Len(InitFiles[p]) : InitFiles[p][k] \in GenuineUnits(sealed)
      BY <3>1, <3>2, SealedByOldGenuine
    <3>4. InitFiles[p] \in Seq(GenuineUnits(sealed))
      BY <3>1, <3>3, SeqDef
    <3> QED
      BY <3>1, <3>4 DEF GenuineFiles
  <2> QED
    BY <2>1
<1>5. Hole \in GenuineUnits(sealed) /\ Hole \in Units
  BY HoleUnit
<1>6. Old \in Runs
  BY DEF Runs
<1>7. TypeOK
  <2>1. files \in [Paths -> Seq(Units) \cup {Absent}]
    BY <1>1, <1>4
  <2>2. \A j \in Jobs : pc[j] \in {"idle", "unused"}
    BY <1>2
  <2>3. \A j \in Jobs : ~(pc[j] = "over") /\ res[j] = "none"
    BY <1>3, <2>2
  <2>4. rpos \in [Jobs -> Nat \ {0}] /\ wpos \in [Jobs -> Nat \ {0}]
    BY <1>3
  <2>5. pc \in [Jobs -> {"idle", "open", "create", "header", "trial", "body", "last", "flush",
                         "mark", "over", "unused"}]
    BY <1>2
  <2>6. /\ held \in [Jobs -> Units] /\ run \in [Jobs -> Runs]
        /\ sealed \in [Jobs -> Seq(Units)]
        /\ res \in [Jobs -> {"none", "ok", "err"}] /\ created \in [Jobs -> BOOLEAN]
    BY <1>3, <1>5, <1>6
  <2>7. \A j \in Jobs : pc[j] = "over" <=> res[j] # "none"
    BY <2>3
  <2> QED
    BY <2>1, <2>4, <2>5, <2>6, <2>7 DEF TypeOK
<1>8. files \in [Paths -> GenuineFiles(sealed) \cup {Absent}]
  BY <1>1, <1>4
<1>9. ASSUME NEW j \in Jobs
      PROVE  JobInv(j)
  <2>1. pc[j] \in {"idle", "unused"} /\ rpos[j] = 1 /\ wpos[j] = 1 /\ ~created[j]
        /\ held[j] \in GenuineUnits(sealed) /\ sealed[j] = <<>> /\ res[j] = "none"
    BY <1>2, <1>3, <1>5
  <2>2. PlaceInv(j)
    BY <2>1 DEF PlaceInv, Running
  <2>3. InputInv(j)
    <3>1. files[Job[j].in] \in {InitFiles[Job[j].in], Absent}
      BY <1>1, JobFacts
    <3> QED
      BY <2>1, <3>1 DEF InputInv, Running
  <2>4. SealInv(j)
    BY <2>1 DEF SealInv
  <2>5. WrittenInv(j) /\ ReadInv(j) /\ InPlaceInv(j)
    BY <2>1 DEF WrittenInv, ReadInv, InPlaceInv
  <2> QED
    BY <2>2, <2>3, <2>4, <2>5 DEF JobInv
<1> QED
  BY <1>3, <1>7, <1>8, <1>9 DEF IInv

\* A step of job j leaves the others where they are, and writes at most its own output.
OnlyJob(j) ==
  /\ \A k \in Jobs \ {j} :
       /\ pc'[k] = pc[k] /\ rpos'[k] = rpos[k] /\ wpos'[k] = wpos[k] /\ run'[k] = run[k]
       /\ held'[k] = held[k] /\ sealed'[k] = sealed[k]
       /\ res'[k] = res[k] /\ created'[k] = created[k]
  /\ created[j] => created'[j]
  /\ sealed' \in [Jobs -> Seq(Units)] /\ Grows(sealed, sealed')
  /\ \/ UNCHANGED files
     \/ created'[j] /\ \E g \in GenuineFiles(sealed') : files' = [files EXCEPT ![Job[j].out] = g]

LEMMA SameGrows ==
  ASSUME NEW s \in [Jobs -> Seq(Units)]
  PROVE  Grows(s, s)
<1>1. \A k \in Jobs : Len(s[k]) \in Nat
  OBVIOUS
<1> QED
  BY <1>1 DEF Grows

LEMMA FilesKept ==
  ASSUME IInv, NEW j \in Jobs, OnlyJob(j)
  PROVE  /\ GenuineUnits(sealed) \subseteq GenuineUnits(sealed')
         /\ files' \in [Paths -> GenuineFiles(sealed') \cup {Absent}]
         /\ \A p \in Paths : files[p] \in GenuineFiles(sealed) => files'[p] \in GenuineFiles(sealed')
         /\ \A p \in Paths : p # Job[j].out => files'[p] = files[p]
<1>1. files \in [Paths -> GenuineFiles(sealed) \cup {Absent}]
  BY DEF IInv
<1>2. /\ GenuineUnits(sealed) \subseteq GenuineUnits(sealed')
      /\ GenuineFiles(sealed) \subseteq GenuineFiles(sealed')
  BY SealedGrows DEF OnlyJob, IInv, TypeOK
<1>3. CASE UNCHANGED files
  BY <1>1, <1>2, <1>3
<1>4. CASE \E g \in GenuineFiles(sealed') : files' = [files EXCEPT ![Job[j].out] = g]
  BY <1>1, <1>2, <1>4, JobFacts
<1> QED
  BY <1>3, <1>4 DEF OnlyJob

\* What a decryption has read stays what its encryption has sealed.
LEMMA ReadsKept ==
  ASSUME NEW s \in [Jobs -> Seq(Units)], NEW t \in [Jobs -> Seq(Units)], Grows(s, t),
         NEW r \in Runs, NEW o, NEW n, NEW v, Reads(o, SealedBy(r, s), n, v)
  PROVE  Reads(o, SealedBy(r, t), n, v)
<1> DEFINE S == SealedBy(r, s)
           T == SealedBy(r, t)
<1>1. /\ S \in Seq(Units) /\ T \in Seq(Units) /\ Len(S) <= Len(T)
      /\ \A k \in 1..Len(S) : T[k] = S[k]
  BY SealedGrows
<1>2. Reads(o, S, n, v)
  OBVIOUS
<1> HIDE DEF S, T
<1>3. Len(S) \in Nat /\ Len(T) \in Nat
  BY <1>1
<1>4. Reads(o, T, n, v)
  <2>1. /\ o \in Seq(Units) /\ n \in 0..Len(S) /\ Len(o) = n
        /\ \A k \in 1..n :
             /\ S[k].kind = "chunk"
             /\ o[k] = Open(S[k]) \/ (v = "err" /\ k = n /\ o[k] = Part(Open(S[k])))
    BY <1>2 DEF Reads
  <2>3. n \in 0..Len(T) /\ \A k \in 1..n : k \in 1..Len(S)
    <3>1. n \in 0..Len(S) /\ Len(S) <= Len(T)
      BY <1>1, <2>1
    <3> QED
      BY <1>3, <3>1
  <2>2. \A k \in 1..n : T[k] = S[k]
    <3>1. \A k \in 1..Len(S) : T[k] = S[k]
      BY <1>1
    <3> QED
      BY <2>3, <3>1
  <2> QED
    BY <2>1, <2>2, <2>3 DEF Reads
<1> QED
  BY <1>4 DEF T

LEMMA OthersKept ==
  ASSUME IInv, NEW j \in Jobs, OnlyJob(j), TypeOK', JobInv(j)', res'[j] = "ok" => created'[j]
  PROVE  IInv'
<1>1. /\ GenuineUnits(sealed) \subseteq GenuineUnits(sealed')
      /\ files' \in [Paths -> GenuineFiles(sealed') \cup {Absent}]
      /\ \A p \in Paths : files[p] \in GenuineFiles(sealed) => files'[p] \in GenuineFiles(sealed')
      /\ \A p \in Paths : p # Job[j].out => files'[p] = files[p]
  BY FilesKept
<1>2. ASSUME NEW k \in Jobs, k # j
      PROVE  JobInv(k)' /\ (res'[k] = "ok" => created'[k])
  <2>1. /\ PlaceInv(k) /\ InputInv(k) /\ SealInv(k)
        /\ WrittenInv(k) /\ ReadInv(k) /\ InPlaceInv(k)
        /\ (res[k] = "ok" => created[k])
    BY DEF IInv, JobInv
  <2>2. /\ pc'[k] = pc[k] /\ rpos'[k] = rpos[k] /\ wpos'[k] = wpos[k] /\ run'[k] = run[k]
        /\ held'[k] = held[k] /\ sealed'[k] = sealed[k]
        /\ res'[k] = res[k] /\ created'[k] = created[k]
    BY <1>2 DEF OnlyJob
  <2>3. PlaceInv(k)'
    BY <1>1, <2>1, <2>2, JobFacts DEF PlaceInv
  <2>4. InputInv(k)'
    <3>1. Encrypts(k) => files'[Job[k].in] = files[Job[k].in]
      BY <1>1, <1>2, JobFacts, OtherFiles
    <3> QED
      BY <2>1, <2>2, <3>1 DEF InputInv
  <2>5. SealInv(k)'
    BY <2>1, <2>2 DEF SealInv, NextChunk
  <2>6. WrittenInv(k)'
    <3>1. CASE Encrypts(k) /\ created[k] /\ Undisturbed(k)'
      <4>1. Undisturbed(k)
        BY <3>1 DEF Undisturbed, OnlyJob
      <4>2. files'[Job[k].out] = files[Job[k].out]
        <5>1. CASE UNCHANGED files
          BY <5>1
        <5>2. CASE created'[j]
          <6>1. Job[j].out # Job[k].out
            BY <1>2, <3>1, <5>2 DEF Undisturbed
          <6> QED
            BY <1>1, <6>1, JobFacts
        <5> QED
          BY <5>1, <5>2 DEF OnlyJob
      <4> QED
        BY <2>1, <2>2, <3>1, <4>1, <4>2 DEF WrittenInv
    <3> QED
      BY <2>2, <3>1 DEF WrittenInv
  <2>7. ReadInv(k)'
    <3>1. CASE ~Encrypts(k) /\ created[k]
      <4>1. files'[Job[k].out] = files[Job[k].out]
        BY <1>1, <1>2, <3>1, JobFacts, OtherFiles
      <4>2. /\ sealed \in [Jobs -> Seq(Units)] /\ sealed' \in [Jobs -> Seq(Units)]
            /\ Grows(sealed, sealed') /\ run[k] \in Runs /\ wpos[k] \in Nat \ {0}
        BY JobTypes DEF OnlyJob
      <4>3. /\ Reads(files[Job[k].out], SealedBy(run[k], sealed), wpos[k] - 1, res[k])
            /\ res[k] = "ok" => /\ wpos[k] <= Len(SealedBy(run[k], sealed))
                                /\ SealedBy(run[k], sealed)[wpos[k]].kind = "marker"
        BY <2>1, <3>1 DEF ReadInv
      <4>4. Reads(files[Job[k].out], SealedBy(run[k], sealed'), wpos[k] - 1, res[k])
        <5> DEFINE o == files[Job[k].out]
                   n == wpos[k] - 1
                   v == res[k]
                   r == run[k]
                   s == sealed
                   t == sealed'
        <5>1. /\ s \in [Jobs -> Seq(Units)] /\ t \in [Jobs -> Seq(Units)] /\ Grows(s, t)
              /\ r \in Runs /\ Reads(o, SealedBy(r, s), n, v)
          BY <4>2, <4>3
        <5> HIDE DEF o, n, v, r, s, t
        <5>2. Reads(o, SealedBy(r, t), n, v)
          BY <5>1, ReadsKept
        <5> QED
          BY <5>2 DEF o, n, v, r, t
      <4>5. wpos[k] <= Len(SealedBy(run[k], sealed)) =>
              /\ wpos[k] <= Len(SealedBy(run[k], sealed'))
              /\ SealedBy(run[k], sealed')[wpos[k]] = SealedBy(run[k], sealed)[wpos[k]]
        <5>1. /\ SealedBy(run[k], sealed) \in Seq(Units) /\ SealedBy(run[k], sealed') \in Seq(Units)
              /\ Len(SealedBy(run[k], sealed)) <= Len(SealedBy(run[k], sealed'))
              /\ \A n \in 1..Len(SealedBy(run[k], sealed)) :
                   SealedBy(run[k], sealed')[n] = SealedBy(run[k], sealed)[n]
          BY <4>2, SealedGrows
        <5> DEFINE S == SealedBy(run[k], sealed)
                   T == SealedBy(run[k], sealed')
                   w == wpos[k]
        <5>2. /\ S \in Seq(Units) /\ T \in Seq(Units) /\ Len(S) <= Len(T)
              /\ w \in Nat \ {0}
          BY <4>2, <5>1
        <5>3. \A n \in 1..Len(S) : T[n] = S[n]
          BY <5>1
        <5> HIDE DEF S, T, w
        <5>4. Len(S) \in Nat /\ Len(T) \in Nat
          BY <5>2
        <5>5. w <= Len(S) => w <= Len(T) /\ w \in 1..Len(S)
          BY <5>2, <5>4
        <5>6. w <= Len(S) => w <= Len(T) /\ T[w] = S[w]
          BY <5>3, <5>5
        <5> QED
          BY <5>6 DEF S, T, w
      <4> QED
        BY <2>2, <4>1, <4>3, <4>4, <4>5 DEF ReadInv
    <3> QED
      BY <2>2, <3>1 DEF ReadInv
  <2>8. InPlaceInv(k)'
    <3>1. InPlace(k) => files'[Job[k].out] = files[Job[k].out]
      BY <1>1, <1>2, JobFacts, OtherFiles
    <3> QED
      BY <2>1, <2>2, <3>1 DEF InPlaceInv
  <2> QED
    BY <2>1, <2>2, <2>3, <2>4, <2>5, <2>6, <2>7, <2>8 DEF JobInv
<1> QED
  BY <1>1, <1>2 DEF IInv

LEMMA TypeKept ==
  ASSUME IInv, NEW j \in Jobs, OnlyJob(j),
         pc' \in [Jobs -> Places], rpos' \in [Jobs -> Nat \ {0}], wpos' \in [Jobs -> Nat \ {0}],
         run' \in [Jobs -> Runs], held' \in [Jobs -> Units],
         res' \in [Jobs -> {"none", "ok", "err"}], created' \in [Jobs -> BOOLEAN],
         pc'[j] = "over" <=> res'[j] # "none"
  PROVE  TypeOK'
<1>1. files' \in [Paths -> Seq(Units) \cup {Absent}]
  <2>1. files' \in [Paths -> GenuineFiles(sealed') \cup {Absent}]
    BY FilesKept
  <2>2. GenuineFiles(sealed') \subseteq Seq(Units)
    BY DEF GenuineFiles, GenuineUnits
  <2> QED
    BY <2>1, <2>2
<1>2. sealed' \in [Jobs -> Seq(Units)]
  BY DEF OnlyJob
<1>3. ASSUME NEW k \in Jobs
      PROVE  pc'[k] = "over" <=> res'[k] # "none"
  <2>1. CASE k = j
    BY <2>1
  <2>2. CASE k # j
    <3>1. pc'[k] = pc[k] /\ res'[k] = res[k]
      BY <2>2 DEF OnlyJob
    <3>2. pc[k] = "over" <=> res[k] # "none"
      BY DEF IInv, TypeOK
    <3> QED
      BY <3>1, <3>2
  <2> QED
    BY <2>1, <2>2
<1>4. pc' \in [Jobs -> {"idle", "open", "create", "header", "trial", "body", "last", "flush",
                        "mark", "over", "unused"}]
  BY DEF Places, Before, Running
<1> QED
  BY <1>1, <1>2, <1>3, <1>4 DEF TypeOK

\* What an encryption that is not over has sealed.
LEMMA SealedSoFar ==
  ASSUME IInv, NEW j \in Jobs, Encrypts(j), pc[j] # "over"
  PROVE  Going(sealed[j], j) \/ Flushed(sealed[j], j)
<1>1. pc[j] \in Places /\ SealInv(j) /\ PlaceInv(j)
  BY JobTypes
<1>2. CASE pc[j] \in Before
  <2>1. sealed[j] = <<>>
    BY <1>1, <1>2 DEF SealInv
  <2> QED
    BY <2>1, GoingEmpty DEF Runs
<1>3. CASE pc[j] \in {"body", "last", "flush"}
  BY <1>1, <1>3 DEF SealInv
<1>4. CASE pc[j] = "mark"
  BY <1>1, <1>4 DEF SealInv
<1>5. \/ pc[j] \in Before \/ pc[j] \in {"body", "last", "flush"} \/ pc[j] = "mark"
  <2>1. pc[j] # "trial"
    BY <1>1 DEF PlaceInv
  <2> QED
    BY <1>1, <2>1 DEF Places, Running, Before
<1> QED
  BY <1>2, <1>3, <1>4, <1>5

\* A job that ends with an error.
LEMMA EndStep ==
  ASSUME IInv, NEW j \in Jobs, pc[j] # "over", End(j, "err"),
         UNCHANGED <<files, wpos, run, sealed, created>>,
         held' \in [Jobs -> Units], held'[j] \in GenuineUnits(sealed),
         rpos' \in [Jobs -> Nat \ {0}],
         \A k \in Jobs \ {j} : held'[k] = held[k] /\ rpos'[k] = rpos[k]
  PROVE  IInv'
<1>1. /\ pc \in [Jobs -> Places] /\ res \in [Jobs -> {"none", "ok", "err"}]
      /\ wpos \in [Jobs -> Nat \ {0}] /\ run \in [Jobs -> Runs] /\ created \in [Jobs -> BOOLEAN]
      /\ sealed \in [Jobs -> Seq(Units)]
      /\ pc[j] = "over" <=> res[j] # "none"
      /\ PlaceInv(j) /\ InputInv(j) /\ WrittenInv(j) /\ ReadInv(j) /\ InPlaceInv(j)
  BY JobTypes
<1>2. pc' = [pc EXCEPT ![j] = "over"] /\ res' = [res EXCEPT ![j] = "err"]
  BY DEF End, Goto
<1>3. OnlyJob(j)
  <2>1. \A k \in Jobs \ {j} : pc'[k] = pc[k] /\ res'[k] = res[k]
    BY <1>1, <1>2
  <2>2. sealed' \in [Jobs -> Seq(Units)] /\ Grows(sealed, sealed')
    BY <1>1, SameGrows
  <2> QED
    BY <2>1, <2>2 DEF OnlyJob
<1>4. TypeOK'
  BY <1>1, <1>2, <1>3, TypeKept DEF Places
<1>5. PlaceInv(j)' /\ InputInv(j)'
  BY <1>1, <1>2 DEF PlaceInv, InputInv, Before, Running
<1>6. SealInv(j)'
  <2>1. Encrypts(j) => Going(sealed[j], j) \/ Flushed(sealed[j], j)
    BY SealedSoFar
  <2>2. pc'[j] = "over" /\ res'[j] = "err" /\ sealed'[j] = sealed[j]
    BY <1>1, <1>2
  <2> QED
    BY <2>1, <2>2 DEF SealInv, Before
<1>7. WrittenInv(j)' /\ InPlaceInv(j)'
  BY <1>1, <1>2 DEF WrittenInv, InPlaceInv
<1>8. ReadInv(j)'
  BY <1>1, <1>2, ReadsErr DEF ReadInv
<1> QED
  BY <1>1, <1>2, <1>3, <1>4, <1>5, <1>6, <1>7, <1>8, OthersKept DEF JobInv

LEMMA FailsStep ==
  ASSUME IInv, NEW j \in Jobs, Fails(j)
  PROVE  IInv'
BY JobTypes, EndStep DEF Fails, posVars, PlaceInv

LEMMA StartStep ==
  ASSUME IInv, NEW j \in Jobs, Start(j)
  PROVE  IInv'
<1>1. /\ pc \in [Jobs -> Places] /\ res \in [Jobs -> {"none", "ok", "err"}]
      /\ rpos \in [Jobs -> Nat \ {0}] /\ wpos \in [Jobs -> Nat \ {0}]
      /\ run \in [Jobs -> Runs] /\ held \in [Jobs -> Units]
      /\ sealed \in [Jobs -> Seq(Units)] /\ created \in [Jobs -> BOOLEAN]
      /\ pc[j] = "over" <=> res[j] # "none"
      /\ PlaceInv(j) /\ InputInv(j) /\ SealInv(j)
      /\ WrittenInv(j) /\ ReadInv(j) /\ InPlaceInv(j)
  BY JobTypes
<1>2. /\ pc[j] = "idle"
      /\ pc' = [pc EXCEPT ![j] = IF OpensInputFirst(j) THEN "open" ELSE "create"]
      /\ UNCHANGED <<files, rpos, wpos, run, held, sealed, res, created>>
  BY DEF Start, Goto, posVars
<1>3. OnlyJob(j)
  BY <1>1, <1>2, SameGrows DEF OnlyJob
<1>4. TypeOK'
  BY <1>1, <1>2, <1>3, TypeKept DEF Places, Before
<1>5. PlaceInv(j)' /\ InputInv(j)'
  BY <1>1, <1>2 DEF PlaceInv, InputInv, Before, Running
<1>6. SealInv(j)'
  BY <1>1, <1>2 DEF SealInv, Before
<1>7. WrittenInv(j)' /\ ReadInv(j)' /\ InPlaceInv(j)'
  BY <1>1, <1>2 DEF WrittenInv, ReadInv, InPlaceInv, Undisturbed
<1> QED
  BY <1>1, <1>2, <1>3, <1>4, <1>5, <1>6, <1>7, OthersKept DEF JobInv

LEMMA OpenInputStep ==
  ASSUME IInv, NEW j \in Jobs, OpenInput(j)
  PROVE  IInv'
<1>1. /\ pc \in [Jobs -> Places] /\ res \in [Jobs -> {"none", "ok", "err"}]
      /\ rpos \in [Jobs -> Nat \ {0}] /\ wpos \in [Jobs -> Nat \ {0}]
      /\ run \in [Jobs -> Runs] /\ held \in [Jobs -> Units]
      /\ sealed \in [Jobs -> Seq(Units)] /\ created \in [Jobs -> BOOLEAN]
      /\ files \in [Paths -> GenuineFiles(sealed) \cup {Absent}]
      /\ pc[j] = "over" <=> res[j] # "none"
      /\ PlaceInv(j) /\ InputInv(j) /\ SealInv(j)
      /\ WrittenInv(j) /\ ReadInv(j) /\ InPlaceInv(j)
  BY JobTypes
<1>2. CASE files[Job[j].in] = Absent
  <2>1. End(j, "err") /\ UNCHANGED <<files, rpos, wpos, run, held, sealed, created>>
        /\ pc[j] # "over"
    BY <1>2 DEF OpenInput, posVars
  <2> QED
    BY <1>1, <2>1, EndStep DEF PlaceInv
<1>3. CASE files[Job[j].in] # Absent
  <2>1. /\ pc[j] = "open"
        /\ pc' = [pc EXCEPT ![j] = IF OpensInputFirst(j) THEN "create" ELSE "header"]
        /\ UNCHANGED <<files, rpos, wpos, run, held, sealed, res, created>>
    BY <1>3 DEF OpenInput, Goto, posVars
  <2>2. files[Job[j].in] \in GenuineFiles(sealed)
    BY <1>1, <1>3, JobFacts
  <2>3. OnlyJob(j)
    BY <1>1, <2>1, SameGrows DEF OnlyJob
  <2>4. TypeOK'
    BY <1>1, <2>1, <2>3, TypeKept DEF Places, Before
  <2>5. PlaceInv(j)' /\ InputInv(j)'
    BY <1>1, <1>3, <2>1, <2>2 DEF PlaceInv, InputInv, Before, Running
  <2>6. SealInv(j)'
    BY <1>1, <2>1 DEF SealInv, Before
  <2>7. WrittenInv(j)' /\ ReadInv(j)' /\ InPlaceInv(j)'
    BY <1>1, <2>1 DEF WrittenInv, ReadInv, InPlaceInv, Undisturbed
  <2> QED
    BY <1>1, <2>1, <2>3, <2>4, <2>5, <2>6, <2>7, OthersKept DEF JobInv
<1> QED
  BY <1>2, <1>3

LEMMA CreateOutputStep ==
  ASSUME IInv, NEW j \in Jobs, CreateOutput(j)
  PROVE  IInv'
<1>1. /\ pc \in [Jobs -> Places] /\ res \in [Jobs -> {"none", "ok", "err"}]
      /\ rpos \in [Jobs -> Nat \ {0}] /\ wpos \in [Jobs -> Nat \ {0}]
      /\ run \in [Jobs -> Runs] /\ held \in [Jobs -> Units]
      /\ sealed \in [Jobs -> Seq(Units)] /\ created \in [Jobs -> BOOLEAN]
      /\ files \in [Paths -> GenuineFiles(sealed) \cup {Absent}]
      /\ pc[j] = "over" <=> res[j] # "none"
      /\ PlaceInv(j) /\ InputInv(j) /\ SealInv(j)
      /\ WrittenInv(j) /\ ReadInv(j) /\ InPlaceInv(j)
  BY JobTypes
<1>2. /\ pc[j] = "create"
      /\ files' = [files EXCEPT ![Job[j].out] = <<>>]
      /\ created' = [created EXCEPT ![j] = TRUE]
      /\ pc' = [pc EXCEPT ![j] = IF OpensInputFirst(j) THEN "header" ELSE "open"]
      /\ UNCHANGED <<rpos, wpos, run, held, sealed, res>>
  BY DEF CreateOutput, Goto, posVars
<1>3. <<>> \in GenuineFiles(sealed) /\ <<>> \in Seq(Units) /\ <<>> \in Seq(OwnUnits(j))
  BY DEF GenuineFiles
<1>4. OnlyJob(j)
  <2>1. \E g \in GenuineFiles(sealed') : files' = [files EXCEPT ![Job[j].out] = g]
    BY <1>2, <1>3
  <2> QED
    BY <1>1, <1>2, <2>1, SameGrows DEF OnlyJob
<1>5. TypeOK'
  BY <1>1, <1>2, <1>4, TypeKept DEF Places, Before, Running
<1>6. /\ files'[Job[j].out] = <<>>
      /\ ~InPlace(j) => files'[Job[j].in] = files[Job[j].in]
      /\ InPlace(j) => files'[Job[j].in] = <<>>
  BY <1>1, <1>2, JobFacts DEF InPlace
<1>7. PlaceInv(j)'
  BY <1>1, <1>2, <1>3, <1>6 DEF PlaceInv, Before, Running
<1>8. InputInv(j)' /\ SealInv(j)'
  BY <1>1, <1>2, <1>6 DEF InputInv, SealInv, Before, Running
<1>9. wpos'[j] = 1 /\ wpos'[j] - 1 = 0 /\ res'[j] = "none"
  BY <1>1, <1>2 DEF PlaceInv, Before
<1>10. WrittenInv(j)'
  <2>1. CASE Encrypts(j)
    <3>1. Agrees(<<>>, Sealed(j), 0)
      BY <1>3, <2>1, SealedFacts, PlaintextFacts DEF Agrees, Runs
    <3> QED
      BY <1>6, <1>9, <3>1 DEF WrittenInv
  <2> QED
    BY <2>1 DEF WrittenInv
<1>11. ReadInv(j)'
  <2>1. SealedBy(run[j], sealed) \in Seq(Units)
    BY <1>1, SealedGrows, SameGrows
  <2>2. Reads(<<>>, SealedBy(run[j], sealed), 0, "none")
    BY <1>3, <2>1 DEF Reads
  <2> QED
    BY <1>2, <1>6, <1>9, <2>2 DEF ReadInv
<1>12. InPlaceInv(j)'
  BY <1>1, <1>2, <1>3, <1>6, <1>9 DEF InPlaceInv
<1> QED
  BY <1>1, <1>2, <1>4, <1>5, <1>7, <1>8, <1>9, <1>10, <1>11, <1>12, OthersKept DEF JobInv

-----------------------------------------------------------------------------
(* Steps of an encryption                                                    *)

\* Job j writes at most one unit, and seals at most one.
Writes(j) ==
  \/ UNCHANGED <<files, wpos>>
  \/ \E u \in GenuineUnits(sealed') : Put(j, u) /\ (InPlace(j) => u \in OwnUnits(j))

Seals(j) ==
  \/ UNCHANGED sealed
  \/ \E u \in Units : sealed' = [sealed EXCEPT ![j] = Append(@, u)]

LEMMA SealsGrow ==
  ASSUME IInv, NEW j \in Jobs, Seals(j)
  PROVE  /\ sealed' \in [Jobs -> Seq(Units)] /\ Grows(sealed, sealed')
         /\ GenuineUnits(sealed) \subseteq GenuineUnits(sealed')
         /\ GenuineFiles(sealed) \subseteq GenuineFiles(sealed')
         /\ \A k \in Jobs \ {j} : sealed'[k] = sealed[k]
<1>1. sealed \in [Jobs -> Seq(Units)]
  BY JobTypes
<1>2. /\ sealed' \in [Jobs -> Seq(Units)] /\ Grows(sealed, sealed')
      /\ \A k \in Jobs \ {j} : sealed'[k] = sealed[k]
  <2>1. CASE UNCHANGED sealed
    BY <1>1, <2>1, SameGrows
  <2>2. CASE \E u \in Units : sealed' = [sealed EXCEPT ![j] = Append(@, u)]
    <3>1. PICK u \in Units : sealed' = [sealed EXCEPT ![j] = Append(@, u)]
      BY <2>2
    <3>2. sealed' \in [Jobs -> Seq(Units)] /\ Grows(sealed, sealed')
      BY <1>1, <3>1, AppendGrows
    <3> QED
      BY <1>1, <3>1, <3>2
  <2> QED
    BY <2>1, <2>2 DEF Seals
<1> QED
  BY <1>1, <1>2, SealedGrows

LEMMA PutFacts ==
  ASSUME IInv, NEW j \in Jobs, created[j], Seals(j), NEW u \in GenuineUnits(sealed'), Put(j, u)
  PROVE  /\ wpos' = [wpos EXCEPT ![j] = wpos[j] + 1]
         /\ \E g \in GenuineFiles(sealed') : files' = [files EXCEPT ![Job[j].out] = g]
         /\ files'[Job[j].out] = WriteAt(files[Job[j].out], wpos[j], u)
         /\ files'[Job[j].out] \in GenuineFiles(sealed')
         /\ ~InPlace(j) => files'[Job[j].in] = files[Job[j].in]
<1>1. /\ wpos \in [Jobs -> Nat \ {0}] /\ files \in [Paths -> GenuineFiles(sealed) \cup {Absent}]
      /\ files[Job[j].out] \in GenuineFiles(sealed)
  BY JobTypes DEF PlaceInv
<1>2. /\ files' = [files EXCEPT ![Job[j].out] = WriteAt(files[Job[j].out], wpos[j], u)]
      /\ wpos' = [wpos EXCEPT ![j] = wpos[j] + 1]
  BY DEF Put
<1>3. WriteAt(files[Job[j].out], wpos[j], u) \in GenuineFiles(sealed')
  <2> DEFINE G == GenuineUnits(sealed')
             f == files[Job[j].out]
  <2>1. G \in SUBSET Units /\ Hole \in G
    BY HoleUnit DEF GenuineUnits
  <2>2. f \in Seq(G)
    BY <1>1, SealsGrow DEF GenuineFiles
  <2>3. wpos[j] \in Nat \ {0} /\ u \in G
    BY <1>1
  <2> HIDE DEF G, f
  <2>4. WriteAt(f, wpos[j], u) \in Seq(G)
    BY <2>1, <2>2, <2>3, WriteAtType
  <2> QED
    BY <2>4 DEF G, f, GenuineFiles
<1> QED
  BY <1>1, <1>2, <1>3, JobFacts DEF InPlace

\* What is to be shown of a step of an encryption.
LEMMA EncStep ==
  ASSUME IInv, NEW j \in Jobs, Encrypts(j), pc[j] \in Running, UNCHANGED <<run, created>>,
         NEW l \in {"body", "last", "flush", "mark", "over"}, pc' = [pc EXCEPT ![j] = l],
         NEW v \in {"none", "ok", "err"}, res' = [res EXCEPT ![j] = v],
         (l = "over") <=> (v # "none"),
         rpos' \in [Jobs -> Nat \ {0}], held' \in [Jobs -> Units],
         \A k \in Jobs \ {j} : held'[k] = held[k] /\ rpos'[k] = rpos[k],
         held'[j] = held[j] \/ held'[j].kind \notin {"chunk", "marker"},
         Seals(j), Writes(j), SealInv(j)', WrittenInv(j)'
  PROVE  IInv'
<1>1. /\ pc \in [Jobs -> Places] /\ res \in [Jobs -> {"none", "ok", "err"}]
      /\ wpos \in [Jobs -> Nat \ {0}]
      /\ run \in [Jobs -> Runs] /\ created \in [Jobs -> BOOLEAN]
      /\ files \in [Paths -> GenuineFiles(sealed) \cup {Absent}]
      /\ PlaceInv(j) /\ InputInv(j) /\ InPlaceInv(j)
  BY JobTypes
<1>2. /\ created[j] /\ files[Job[j].in] \in GenuineFiles(sealed)
      /\ files[Job[j].out] \in GenuineFiles(sealed) /\ held[j] \in GenuineUnits(sealed)
  BY <1>1 DEF PlaceInv
<1>3. /\ sealed' \in [Jobs -> Seq(Units)] /\ Grows(sealed, sealed')
      /\ GenuineUnits(sealed) \subseteq GenuineUnits(sealed')
      /\ GenuineFiles(sealed) \subseteq GenuineFiles(sealed')
      /\ \A k \in Jobs \ {j} : sealed'[k] = sealed[k]
  BY SealsGrow
<1>4. /\ wpos' \in [Jobs -> Nat \ {0}] /\ \A k \in Jobs \ {j} : wpos'[k] = wpos[k]
      /\ \/ UNCHANGED files
         \/ \E g \in GenuineFiles(sealed') : files' = [files EXCEPT ![Job[j].out] = g]
      /\ ~InPlace(j) => files'[Job[j].in] = files[Job[j].in]
      /\ InPlace(j) => files'[Job[j].out] \in Seq(OwnUnits(j))
  <2>1. CASE UNCHANGED <<files, wpos>>
    BY <1>1, <1>2, <2>1 DEF InPlaceInv
  <2>2. CASE \E u \in GenuineUnits(sealed') : Put(j, u) /\ (InPlace(j) => u \in OwnUnits(j))
    <3> PICK u \in GenuineUnits(sealed') : Put(j, u) /\ (InPlace(j) => u \in OwnUnits(j))
      BY <2>2
    <3>1. /\ wpos' = [wpos EXCEPT ![j] = wpos[j] + 1]
          /\ \E g \in GenuineFiles(sealed') : files' = [files EXCEPT ![Job[j].out] = g]
          /\ files'[Job[j].out] = WriteAt(files[Job[j].out], wpos[j], u)
          /\ ~InPlace(j) => files'[Job[j].in] = files[Job[j].in]
      BY <1>2, PutFacts
    <3>2. ASSUME InPlace(j)
          PROVE  files'[Job[j].out] \in Seq(OwnUnits(j))
      <4> DEFINE O == OwnUnits(j)
                 f == files[Job[j].out]
      <4>1. O \in SUBSET Units /\ Hole \in O
        BY HoleUnit DEF OwnUnits, Hole
      <4>2. f \in Seq(O) /\ wpos[j] \in Nat \ {0} /\ u \in O
        BY <1>1, <1>2, <3>2 DEF InPlaceInv
      <4> HIDE DEF O, f
      <4>3. WriteAt(f, wpos[j], u) \in Seq(O)
        BY <4>1, <4>2, WriteAtType
      <4> QED
        BY <3>1, <4>3 DEF O, f
    <3>3. wpos' \in [Jobs -> Nat \ {0}] /\ \A k \in Jobs \ {j} : wpos'[k] = wpos[k]
      <4>1. wpos[j] + 1 \in Nat \ {0}
        BY <1>1
      <4> QED
        BY <1>1, <3>1, <4>1
    <3> QED
      BY <3>1, <3>2, <3>3
  <2> QED
    BY <2>1, <2>2 DEF Writes
<1>5. OnlyJob(j)
  BY <1>1, <1>2, <1>3, <1>4 DEF OnlyJob
<1>6. TypeOK'
  BY <1>1, <1>4, <1>5, TypeKept DEF Places, Before, Running
<1>7. PlaceInv(j)'
  <2>1. files'[Job[j].in] \in GenuineFiles(sealed') /\ files'[Job[j].out] \in GenuineFiles(sealed')
    BY <1>2, <1>5, FilesKept, JobFacts
  <2>2. held'[j] \in GenuineUnits(sealed')
    BY <1>2, <1>3, OtherUnits
  <2>3. pc'[j] = l /\ created'[j]
    BY <1>1, <1>2
  <2> QED
    BY <2>1, <2>2, <2>3 DEF PlaceInv, Before
<1>8. InputInv(j)'
  <2>1. ~InPlace(j) => files[Job[j].in] = InitFiles[Job[j].in]
    BY <1>1 DEF InputInv
  <2> QED
    BY <1>4, <2>1 DEF InputInv
<1>9. ReadInv(j)' /\ InPlaceInv(j)'
  BY <1>4 DEF ReadInv, InPlaceInv
<1> QED
  BY <1>2, <1>5, <1>6, <1>7, <1>8, <1>9, OthersKept DEF JobInv

\* A unit is sealed under the counter.
LEMMA SealChunk ==
  ASSUME IInv, NEW j \in Jobs, Encrypts(j), NEW x \in Units, InPlace(j) => x.data = 0,
         NEW u, u = NextChunk(j, x), Sealing(j, u)
  PROVE  /\ u \in Units /\ u.kind = "chunk" /\ u = Seal(j, Len(sealed[j]), x)
         /\ u \in GenuineUnits(sealed') /\ (InPlace(j) => u \in OwnUnits(j))
         /\ sealed'[j] = Append(sealed[j], u) /\ Seals(j)
<1>1. sealed \in [Jobs -> Seq(Units)] /\ j \in Runs /\ Len(sealed[j]) \in Nat
  BY JobTypes DEF Runs
<1>2. /\ u = Seal(j, Len(sealed[j]), x) /\ u \in Units /\ u.kind = "chunk" /\ u.run = j
      /\ u.ctr = Len(sealed[j]) /\ u.data = x.data
  BY <1>1, SealUnit DEF NextChunk
<1>3. sealed' = [sealed EXCEPT ![j] = Append(@, u)]
  BY DEF Sealing
<1>4. sealed'[j] = Append(sealed[j], u) /\ u \in GenuineUnits(sealed')
  BY <1>1, <1>2, <1>3, AppendGrows
<1>5. InPlace(j) => u \in OwnUnits(j)
  BY <1>2 DEF OwnUnits
<1> QED
  BY <1>2, <1>3, <1>4, <1>5 DEF Seals

LEMMA SealMarker ==
  ASSUME IInv, NEW j \in Jobs, Encrypts(j), NEW u, u = NextMarker(j), Sealing(j, u)
  PROVE  /\ u \in Units /\ u.kind = "marker" /\ u = Marker(j, Len(sealed[j]))
         /\ u \in GenuineUnits(sealed') /\ (InPlace(j) => u \in OwnUnits(j))
         /\ sealed'[j] = Append(sealed[j], u) /\ Seals(j)
<1>1. sealed \in [Jobs -> Seq(Units)] /\ j \in Runs /\ Len(sealed[j]) \in Nat
  BY JobTypes DEF Runs
<1>2. /\ u = Marker(j, Len(sealed[j])) /\ u \in Units /\ u.kind = "marker" /\ u.run = j
      /\ u.ctr = Len(sealed[j]) /\ u.data = 0
  BY <1>1, MarkerUnit DEF NextMarker
<1>3. sealed' = [sealed EXCEPT ![j] = Append(@, u)]
  BY DEF Sealing
<1>4. sealed'[j] = Append(sealed[j], u) /\ u \in GenuineUnits(sealed')
  BY <1>1, <1>2, <1>3, AppendGrows
<1>5. InPlace(j) => u \in OwnUnits(j)
  BY <1>2 DEF OwnUnits
<1> QED
  BY <1>2, <1>3, <1>4, <1>5 DEF Seals

\* A write that fails writes nothing, the unit, or a hole.
LEMMA SpoilWrites ==
  ASSUME IInv, NEW j \in Jobs, NEW u \in GenuineUnits(sealed'), u.kind # "plain",
         InPlace(j) => u \in OwnUnits(j), NEW fault, Spoil(j, u, fault)
  PROVE  Writes(j)
<1>1. Hole \in GenuineUnits(sealed') /\ Hole \in OwnUnits(j)
  BY HoleUnit DEF OwnUnits, Hole
<1>2. UNCHANGED <<files, wpos>> \/ Put(j, Hole) \/ Put(j, u)
  BY DEF Spoil
<1> QED
  BY <1>1, <1>2 DEF Writes

\* What an encryption writes next is the next unit of Sealed(j).
LEMMA EncryptOutput ==
  ASSUME IInv, NEW j \in Jobs, Encrypts(j), pc[j] \in {"header", "body", "last"},
         created[j], UNCHANGED created, wpos[j] <= Len(Sealed(j)), Seals(j),
         NEW u \in GenuineUnits(sealed'), u = Sealed(j)[wpos[j]], Put(j, u),
         res'[j] = "ok" => wpos[j] = Len(Sealed(j))
  PROVE  WrittenInv(j)'
<1>1. wpos \in [Jobs -> Nat \ {0}] /\ WrittenInv(j) /\ res[j] # "err"
  BY JobTypes
<1>2. /\ wpos' = [wpos EXCEPT ![j] = wpos[j] + 1]
      /\ files'[Job[j].out] = WriteAt(files[Job[j].out], wpos[j], u)
  BY PutFacts
<1>3. Sealed(j) \in Seq(Units)
  BY SealedFacts DEF Runs
<1>4. ASSUME Undisturbed(j)'
      PROVE  Agrees(files'[Job[j].out], Sealed(j), wpos[j])
  <2>1. Undisturbed(j)
    BY <1>4 DEF Undisturbed
  <2>2. Agrees(files[Job[j].out], Sealed(j), wpos[j] - 1)
    BY <1>1, <2>1 DEF WrittenInv
  <2> DEFINE n == wpos[j] - 1
  <2>3. n + 1 = wpos[j] /\ n < Len(Sealed(j))
    BY <1>1, <1>3
  <2> HIDE DEF n
  <2>4. Agrees(files[Job[j].out], Sealed(j), n)
    BY <2>2 DEF n
  <2>5. Agrees(WriteAt(files[Job[j].out], n + 1, Sealed(j)[n + 1]), Sealed(j), n + 1)
    BY <1>3, <2>3, <2>4, AgreesNext
  <2> QED
    BY <1>2, <2>3, <2>5
<1>5. wpos'[j] - 1 = wpos[j]
  BY <1>1, <1>2
<1> QED
  BY <1>4, <1>5 DEF WrittenInv

LEMMA WriteHeaderStep ==
  ASSUME IInv, NEW j \in Jobs, WriteHeader(j)
  PROVE  IInv'
<1>1. /\ pc \in [Jobs -> Places] /\ res \in [Jobs -> {"none", "ok", "err"}]
      /\ rpos \in [Jobs -> Nat \ {0}] /\ wpos \in [Jobs -> Nat \ {0}]
      /\ held \in [Jobs -> Units] /\ created \in [Jobs -> BOOLEAN]
      /\ pc[j] = "over" <=> res[j] # "none"
      /\ PlaceInv(j) /\ SealInv(j)
  BY JobTypes
<1>2. /\ pc[j] = "header" /\ Encrypts(j)
      /\ Put(j, HeaderOf(j))
      /\ pc' = [pc EXCEPT ![j] = "body"]
      /\ UNCHANGED <<rpos, run, held, sealed, res, created>>
  BY DEF WriteHeader, Goto
<1>3. /\ wpos[j] = 1 /\ rpos[j] = 1 /\ created[j] /\ sealed[j] = <<>> /\ res[j] = "none"
  BY <1>1, <1>2 DEF PlaceInv, SealInv, Running, Before
<1>4. /\ HeaderOf(j) \in GenuineUnits(sealed') /\ HeaderOf(j) \in OwnUnits(j)
  <2>1. /\ HeaderOf(j) \in Units /\ HeaderOf(j).kind = "header" /\ HeaderOf(j).run = j
        /\ HeaderOf(j).data = 0
    BY <1>2, HeaderUnit DEF Runs
  <2> QED
    BY <2>1, OtherUnits DEF OwnUnits
<1>5. Seals(j) /\ Writes(j)
  BY <1>2, <1>4 DEF Seals, Writes
<1>6. wpos' = [wpos EXCEPT ![j] = wpos[j] + 1]
  BY <1>2 DEF Put
<1>7. SealInv(j)'
  <2>1. pc'[j] = "body" /\ wpos'[j] = 2 /\ rpos'[j] = 1 /\ sealed'[j] = <<>> /\ res'[j] = "none"
    BY <1>1, <1>2, <1>3, <1>6
  <2>2. Going(<<>>, j) /\ Len(<<>>) = 0
    BY <1>2, GoingEmpty DEF Runs
  <2> QED
    BY <2>1, <2>2 DEF SealInv, Before
<1>8. WrittenInv(j)'
  <2>1. /\ Sealed(j)[1] = HeaderOf(j) /\ Len(Sealed(j)) = Len(Plaintext(j)) + 2
        /\ Len(Plaintext(j)) \in Nat
    BY <1>2, SealedFacts, PlaintextFacts DEF Runs
  <2>2. /\ wpos[j] <= Len(Sealed(j)) /\ HeaderOf(j) = Sealed(j)[wpos[j]] /\ res'[j] # "ok"
    BY <1>2, <1>3, <2>1
  <2> QED
    BY <1>2, <1>3, <1>4, <1>5, <2>2, EncryptOutput
<1>9. res' = [res EXCEPT ![j] = "none"]
  BY <1>1, <1>2, <1>3
<1> QED
  BY <1>1, <1>2, <1>5, <1>7, <1>8, <1>9, EncStep DEF Running

\* Where an encryption in place has its header, and what it reads there.
LEMMA OwnHeader ==
  ASSUME IInv, NEW j \in Jobs, Encrypts(j), InPlace(j), pc[j] = "body"
  PROVE  /\ rpos[j] = 1 /\ wpos[j] = 2 /\ Len(sealed[j]) = 0
         /\ Len(files[Job[j].in]) = 1 /\ Unit(j) = HeaderOf(j)
         /\ Plaintext(j) = <<Plain(0)>>
<1>1. /\ wpos \in [Jobs -> Nat \ {0}] /\ sealed \in [Jobs -> Seq(Units)]
      /\ PlaceInv(j) /\ SealInv(j) /\ WrittenInv(j) /\ res[j] = "none"
      /\ res[j] \in {"none", "ok", "err"}
  BY JobTypes
<1>2. rpos[j] = 1 /\ wpos[j] = 2 /\ created[j] /\ Len(sealed[j]) = 0
  BY <1>1 DEF SealInv, PlaceInv, Running
<1>3. Undisturbed(j)
  BY OtherFiles DEF Undisturbed
<1>4. Agrees(files[Job[j].out], Sealed(j), 1)
  BY <1>1, <1>2, <1>3 DEF WrittenInv
<1>5. Sealed(j)[1] = HeaderOf(j)
  BY SealedFacts DEF Runs
<1>6. Len(files[Job[j].in]) = 1 /\ Unit(j) = HeaderOf(j)
  BY <1>2, <1>4, <1>5 DEF Agrees, InPlace, Unit
<1>7. Plaintext(j) = <<Plain(0)>>
  BY JobFacts DEF Plaintext
<1> QED
  BY <1>2, <1>6, <1>7

\* What an encryption reads is the next chunk of its plaintext.
LEMMA SourceUnit ==
  ASSUME IInv, NEW j \in Jobs, Encrypts(j), pc[j] = "body", More(j)
  PROVE  /\ Unit(j) \in Units /\ Len(sealed[j]) \in Nat
         /\ rpos[j] = Len(sealed[j]) + 1 /\ wpos[j] = Len(sealed[j]) + 2
         /\ Len(sealed[j]) < Len(Plaintext(j))
         /\ \A c : /\ Seal(j, c, Unit(j)) = Seal(j, c, Plaintext(j)[rpos[j]])
                   /\ Seal(j, c, Part(Unit(j))) = Seal(j, c, Part(Plaintext(j)[rpos[j]]))
         /\ Unit(j).kind = IF InPlace(j) THEN "header" ELSE "plain"
         /\ InPlace(j) => Unit(j).data = 0
<1>1. /\ rpos \in [Jobs -> Nat \ {0}] /\ wpos \in [Jobs -> Nat \ {0}]
      /\ sealed \in [Jobs -> Seq(Units)] /\ SealInv(j) /\ InputInv(j)
  BY JobTypes
<1>2. Len(sealed[j]) \in Nat /\ rpos[j] = Len(sealed[j]) + 1 /\ wpos[j] = rpos[j] + 1
  BY <1>1 DEF SealInv
<1>3. wpos[j] = Len(sealed[j]) + 2
  BY <1>2
<1>4. CASE InPlace(j)
  <2>1. Len(sealed[j]) = 0 /\ rpos[j] = 1 /\ Unit(j) = HeaderOf(j) /\ Plaintext(j) = <<Plain(0)>>
    BY <1>4, OwnHeader
  <2>2. /\ HeaderOf(j) \in Units /\ HeaderOf(j).kind = "header"
        /\ HeaderOf(j).data = 0 /\ HeaderOf(j).part = FALSE
    BY HeaderUnit DEF Runs
  <2>3. Plain(0).data = 0 /\ Plain(0).part = FALSE /\ Plain(0) \in Units
    BY PlainUnit
  <2>4. \A c : Seal(j, c, HeaderOf(j)) = Seal(j, c, Plain(0))
    BY <2>2, <2>3 DEF Seal
  <2>5. \A c : Seal(j, c, Part(HeaderOf(j))) = Seal(j, c, Part(Plain(0)))
    <3>1. /\ Part(HeaderOf(j)).data = 0 /\ Part(HeaderOf(j)).part = TRUE
          /\ Part(Plain(0)).data = 0 /\ Part(Plain(0)).part = TRUE
      BY <2>2, <2>3, PartUnit
    <3> QED
      BY <3>1 DEF Seal
  <2>6. Plaintext(j)[rpos[j]] = Plain(0) /\ Len(sealed[j]) < Len(Plaintext(j))
    BY <2>1
  <2> QED
    BY <1>2, <1>3, <1>4, <2>1, <2>2, <2>4, <2>5, <2>6
<1>5. CASE ~InPlace(j)
  <2>1. files[Job[j].in] = InitFiles[Job[j].in]
    BY <1>1, <1>5 DEF InputInv, Running
  <2>2. Plaintext(j) = InitFiles[Job[j].in]
    BY <1>5, JobFacts DEF Plaintext
  <2>3. rpos[j] \in 1..Len(Plaintext(j)) /\ Unit(j) = Plaintext(j)[rpos[j]]
    BY <1>1, <2>1, <2>2 DEF More, Unit
  <2>4. Unit(j) \in Units /\ Unit(j).kind = "plain"
    <3>1. /\ Plaintext(j)[rpos[j]] = Plain(Plaintext(j)[rpos[j]].data)
          /\ Plaintext(j)[rpos[j]] \in Units
      BY <2>3, PlaintextFacts DEF Runs
    <3> QED
      BY <2>3, <3>1 DEF Plain
  <2>5. Len(sealed[j]) < Len(Plaintext(j))
    <3>1. Len(Plaintext(j)) \in Nat
      BY PlaintextFacts DEF Runs
    <3> QED
      BY <1>2, <2>3, <3>1
  <2> QED
    BY <1>2, <1>3, <1>5, <2>3, <2>4, <2>5
<1> QED
  BY <1>4, <1>5

\* What follows of it, when it is sealed.
LEMMA ChunkSealed ==
  ASSUME IInv, NEW j \in Jobs, Encrypts(j), pc[j] = "body", More(j),
         NEW u, u = NextChunk(j, Unit(j)), Sealing(j, u)
  PROVE  /\ u \in Units /\ u.kind = "chunk" /\ u \in GenuineUnits(sealed')
         /\ (InPlace(j) => u \in OwnUnits(j)) /\ Seals(j)
         /\ Going(sealed'[j], j) /\ Len(sealed'[j]) = Len(sealed[j]) + 1
         /\ u = Seal(j, Len(sealed[j]), Plaintext(j)[Len(sealed[j]) + 1])
<1>1. /\ Unit(j) \in Units /\ Len(sealed[j]) \in Nat
      /\ rpos[j] = Len(sealed[j]) + 1 /\ Len(sealed[j]) < Len(Plaintext(j))
      /\ \A c : Seal(j, c, Unit(j)) = Seal(j, c, Plaintext(j)[rpos[j]])
      /\ InPlace(j) => Unit(j).data = 0
  BY SourceUnit
<1>2. /\ u \in Units /\ u.kind = "chunk" /\ u = Seal(j, Len(sealed[j]), Unit(j))
      /\ u \in GenuineUnits(sealed') /\ (InPlace(j) => u \in OwnUnits(j))
      /\ sealed'[j] = Append(sealed[j], u) /\ Seals(j)
  BY <1>1, SealChunk
<1>3. u = Seal(j, Len(sealed[j]), Plaintext(j)[Len(sealed[j]) + 1])
  BY <1>1, <1>2
<1>4. Going(sealed[j], j) /\ sealed[j] \in Seq(Units)
  BY JobTypes DEF SealInv
<1>5. Going(Append(sealed[j], u), j)
  BY <1>1, <1>2, <1>3, <1>4, GoingNext DEF Runs
<1>6. Len(Append(sealed[j], u)) = Len(sealed[j]) + 1
  BY <1>2, <1>4, FrontAppend
<1> QED
  BY <1>2, <1>3, <1>5, <1>6

LEMMA EncryptChunkStep ==
  ASSUME IInv, NEW j \in Jobs, EncryptChunk(j)
  PROVE  IInv'
<1>1. /\ pc \in [Jobs -> Places] /\ res \in [Jobs -> {"none", "ok", "err"}]
      /\ rpos \in [Jobs -> Nat \ {0}] /\ wpos \in [Jobs -> Nat \ {0}]
      /\ held \in [Jobs -> Units] /\ created \in [Jobs -> BOOLEAN]
      /\ pc[j] = "over" <=> res[j] # "none"
      /\ PlaceInv(j)
  BY JobTypes
<1> DEFINE u == NextChunk(j, Unit(j))
           l == IF InPlace(j) THEN "last" ELSE "body"
<1>2. /\ pc[j] = "body" /\ Encrypts(j) /\ More(j)
      /\ Put(j, u) /\ Sealing(j, u)
      /\ rpos' = [rpos EXCEPT ![j] = rpos[j] + 1]
      /\ pc' = [pc EXCEPT ![j] = IF Unit(j).kind = "header" THEN "last" ELSE "body"]
      /\ UNCHANGED <<run, held, res, created>>
  BY DEF EncryptChunk, Goto, Advance
<1>3. /\ Len(sealed[j]) \in Nat
      /\ rpos[j] = Len(sealed[j]) + 1 /\ wpos[j] = Len(sealed[j]) + 2
      /\ Len(sealed[j]) < Len(Plaintext(j))
      /\ Unit(j).kind = IF InPlace(j) THEN "header" ELSE "plain"
  BY <1>2, SourceUnit
<1>4. /\ u \in GenuineUnits(sealed') /\ (InPlace(j) => u \in OwnUnits(j)) /\ Seals(j)
      /\ Going(sealed'[j], j) /\ Len(sealed'[j]) = Len(sealed[j]) + 1
      /\ u = Seal(j, Len(sealed[j]), Plaintext(j)[Len(sealed[j]) + 1])
  BY <1>2, ChunkSealed
<1> HIDE DEF u
<1>5. Writes(j) /\ wpos' = [wpos EXCEPT ![j] = wpos[j] + 1]
  BY <1>2, <1>4 DEF Writes, Put
<1>6. l \in {"last", "body"} /\ pc' = [pc EXCEPT ![j] = l]
  BY <1>2, <1>3
<1>7. created[j] /\ res[j] = "none" /\ res' = [res EXCEPT ![j] = "none"]
  BY <1>1, <1>2 DEF PlaceInv, Running
<1>8. SealInv(j)'
  <2>1. /\ pc'[j] = l /\ res'[j] = "none" /\ wpos'[j] = wpos[j] + 1 /\ rpos'[j] = rpos[j] + 1
    BY <1>1, <1>2, <1>5, <1>6, <1>7
  <2>2. wpos'[j] = rpos'[j] + 1 /\ rpos'[j] = Len(sealed'[j]) + 1
    BY <1>3, <1>4, <2>1
  <2>3. InPlace(j) => wpos'[j] = 3 /\ Len(sealed'[j]) = 1
    <3>1. InPlace(j) => Len(sealed[j]) = 0
      BY <1>2, OwnHeader
    <3> QED
      BY <1>3, <1>4, <2>1, <3>1
  <2> QED
    BY <1>4, <2>1, <2>2, <2>3 DEF SealInv, Before
<1>9. WrittenInv(j)'
  <2>1. /\ Len(Sealed(j)) = Len(Plaintext(j)) + 2 /\ Len(Plaintext(j)) \in Nat
        /\ \A n \in 1..Len(Plaintext(j)) : Sealed(j)[n + 1] = Seal(j, n - 1, Plaintext(j)[n])
    BY <1>2, SealedFacts, PlaintextFacts DEF Runs
  <2> DEFINE n == Len(sealed[j]) + 1
  <2>2. n \in 1..Len(Plaintext(j)) /\ n - 1 = Len(sealed[j]) /\ n + 1 = wpos[j]
    BY <1>3, <2>1
  <2>3. u = Sealed(j)[wpos[j]]
    <3>1. Sealed(j)[n + 1] = Seal(j, n - 1, Plaintext(j)[n])
      BY <2>1, <2>2
    <3> QED
      BY <1>4, <2>2, <3>1
  <2>4. wpos[j] <= Len(Sealed(j)) /\ res'[j] # "ok"
    BY <1>1, <1>2, <1>3, <1>7, <2>1
  <2> QED
    BY <1>2, <1>4, <1>7, <2>3, <2>4, EncryptOutput
<1>10. rpos' \in [Jobs -> Nat \ {0}]
  BY <1>1, <1>2
<1> HIDE DEF l
<1> QED
  BY <1>1, <1>2, <1>4, <1>5, <1>6, <1>7, <1>8, <1>9, <1>10, EncStep DEF Running

\* The buffer keeps a chunk that has been sealed.
LEMMA ChunkFailsStep ==
  ASSUME IInv, NEW j \in Jobs, ChunkFails(j)
  PROVE  IInv'
<1>1. /\ pc \in [Jobs -> Places] /\ res \in [Jobs -> {"none", "ok", "err"}]
      /\ rpos \in [Jobs -> Nat \ {0}] /\ held \in [Jobs -> Units]
      /\ pc[j] = "over" <=> res[j] # "none"
  BY JobTypes
<1> DEFINE u == NextChunk(j, Unit(j))
<1>2. /\ pc[j] = "body" /\ Encrypts(j) /\ More(j) /\ Unit(j).kind # "header"
      /\ \E fault \in WriteFaults : Spoil(j, u, fault)
      /\ Sealing(j, u)
      /\ rpos' = [rpos EXCEPT ![j] = rpos[j] + 1]
      /\ held' = [held EXCEPT ![j] = Unit(j)]
      /\ pc' = [pc EXCEPT ![j] = "flush"]
      /\ UNCHANGED <<run, res, created>>
  BY DEF ChunkFails, Goto, Advance
<1>3. /\ Unit(j) \in Units /\ Len(sealed[j]) \in Nat
      /\ rpos[j] = Len(sealed[j]) + 1
      /\ \A c : Seal(j, c, Unit(j)) = Seal(j, c, Plaintext(j)[rpos[j]])
      /\ Unit(j).kind = IF InPlace(j) THEN "header" ELSE "plain"
  BY <1>2, SourceUnit
<1>4. /\ u \in GenuineUnits(sealed') /\ (InPlace(j) => u \in OwnUnits(j)) /\ Seals(j)
      /\ u.kind = "chunk"
      /\ Going(sealed'[j], j) /\ Len(sealed'[j]) = Len(sealed[j]) + 1
  BY <1>2, ChunkSealed
<1> HIDE DEF u
<1>5. Writes(j)
  BY <1>2, <1>4, SpoilWrites
<1>6. res[j] = "none" /\ res' = [res EXCEPT ![j] = "none"]
  BY <1>1, <1>2
<1>7. SealInv(j)'
  <2>1. /\ pc'[j] = "flush" /\ res'[j] = "none" /\ held'[j] = Unit(j) /\ ~InPlace(j)
    BY <1>1, <1>2, <1>3, <1>6
  <2>2. Extra(Seal(j, Len(sealed'[j]), Unit(j)), j, Len(sealed'[j]))
    <3>1. Len(sealed'[j]) = rpos[j] /\ 0 < Len(sealed'[j])
      BY <1>3, <1>4
    <3> QED
      BY <1>3, <3>1 DEF Extra
  <2>3. Extra(NextChunk(j, held[j])', j, Len(sealed'[j]))
    BY <2>1, <2>2 DEF NextChunk
  <2> QED
    BY <1>4, <2>1, <2>3 DEF SealInv, Before
<1>8. WrittenInv(j)'
  BY <1>1, <1>2 DEF WrittenInv
<1>9. /\ rpos' \in [Jobs -> Nat \ {0}] /\ held' \in [Jobs -> Units]
      /\ held'[j].kind \notin {"chunk", "marker"}
  BY <1>1, <1>2, <1>3
<1> QED
  BY <1>1, <1>2, <1>4, <1>5, <1>6, <1>7, <1>8, <1>9, EncStep DEF Running

\* The buffer keeps the first part of a chunk, or nothing.
LEMMA ReadFailsStep ==
  ASSUME IInv, NEW j \in Jobs, ReadFails(j)
  PROVE  IInv'
<1>1. /\ pc \in [Jobs -> Places] /\ res \in [Jobs -> {"none", "ok", "err"}]
      /\ rpos \in [Jobs -> Nat \ {0}] /\ held \in [Jobs -> Units]
      /\ pc[j] = "over" <=> res[j] # "none"
      /\ SealInv(j)
  BY JobTypes
<1>2. /\ pc[j] = "body" /\ Encrypts(j)
      /\ UNCHANGED <<files, rpos, wpos, run, sealed, res, created>>
  BY DEF ReadFails
<1>3. /\ Going(sealed[j], j) /\ Seals(j) /\ Writes(j)
      /\ res[j] = "none" /\ res' = [res EXCEPT ![j] = "none"]
  BY <1>1, <1>2 DEF SealInv, Seals, Writes
<1>4. CASE pc' = [pc EXCEPT ![j] = "mark"] /\ UNCHANGED held
  <2>1. pc'[j] = "mark" /\ sealed'[j] = sealed[j] /\ res'[j] = "none"
    BY <1>1, <1>2, <1>3, <1>4
  <2>2. SealInv(j)' /\ WrittenInv(j)'
    BY <1>3, <2>1 DEF SealInv, WrittenInv, Before
  <2> QED
    BY <1>1, <1>2, <1>3, <1>4, <2>2, EncStep DEF Running
<1>5. CASE /\ More(j) /\ pc' = [pc EXCEPT ![j] = "flush"]
           /\ held' = [held EXCEPT ![j] = Part(Unit(j))]
  <2>1. /\ Unit(j) \in Units /\ Len(sealed[j]) \in Nat
        /\ rpos[j] = Len(sealed[j]) + 1 /\ Len(sealed[j]) < Len(Plaintext(j))
        /\ \A c : Seal(j, c, Part(Unit(j))) = Seal(j, c, Part(Plaintext(j)[rpos[j]]))
        /\ Unit(j).kind = IF InPlace(j) THEN "header" ELSE "plain"
        /\ InPlace(j) => Unit(j).data = 0
    BY <1>2, <1>5, SourceUnit
  <2>2. /\ Part(Unit(j)) \in Units /\ Part(Unit(j)).kind = Unit(j).kind
        /\ Part(Unit(j)).data = Unit(j).data
    BY <2>1, PartUnit
  <2>3. /\ pc'[j] = "flush" /\ sealed'[j] = sealed[j] /\ res'[j] = "none"
        /\ held'[j] = Part(Unit(j))
    BY <1>1, <1>2, <1>3, <1>5
  <2>4. Extra(Seal(j, Len(sealed[j]), Part(Unit(j))), j, Len(sealed[j]))
    BY <2>1 DEF Extra
  <2>5. Extra(NextChunk(j, held[j])', j, Len(sealed'[j]))
    BY <2>3, <2>4 DEF NextChunk
  <2>6. SealInv(j)'
    BY <1>3, <2>1, <2>2, <2>3, <2>5 DEF SealInv, Before
  <2>7. WrittenInv(j)'
    BY <2>3 DEF WrittenInv
  <2>8. held' \in [Jobs -> Units] /\ held'[j].kind \notin {"chunk", "marker"}
    BY <1>1, <1>5, <2>1, <2>2, <2>3
  <2> QED
    BY <1>1, <1>2, <1>3, <1>5, <2>6, <2>7, <2>8, EncStep DEF Running
<1> QED
  BY <1>4, <1>5 DEF ReadFails, Goto

\* The sealed chunk that a flush adds.
LEMMA FlushSealed ==
  ASSUME IInv, NEW j \in Jobs, pc[j] = "flush",
         NEW u, u = NextChunk(j, held[j]), Sealing(j, u)
  PROVE  /\ Encrypts(j) /\ u.kind = "chunk" /\ u \in GenuineUnits(sealed')
         /\ (InPlace(j) => u \in OwnUnits(j)) /\ Seals(j) /\ Flushed(sealed'[j], j)
<1>1. PlaceInv(j) /\ SealInv(j) /\ held[j] \in Units
  BY JobTypes
<1>2. Encrypts(j)
  BY <1>1 DEF PlaceInv
<1>3. /\ Going(sealed[j], j) /\ Extra(u, j, Len(sealed[j]))
      /\ InPlace(j) => held[j].data = 0
  BY <1>1, <1>2 DEF SealInv
<1>4. /\ u \in Units /\ u.kind = "chunk"
      /\ u \in GenuineUnits(sealed') /\ (InPlace(j) => u \in OwnUnits(j))
      /\ sealed'[j] = Append(sealed[j], u) /\ Seals(j)
  BY <1>1, <1>2, <1>3, SealChunk
<1>5. Flushed(Append(sealed[j], u), j)
  BY <1>2, <1>3, <1>4, FlushedNext DEF Runs
<1> QED
  BY <1>2, <1>4, <1>5

LEMMA CloseFlushStep ==
  ASSUME IInv, NEW j \in Jobs, CloseFlush(j)
  PROVE  IInv'
<1>1. /\ pc \in [Jobs -> Places] /\ res \in [Jobs -> {"none", "ok", "err"}]
      /\ rpos \in [Jobs -> Nat \ {0}] /\ held \in [Jobs -> Units]
      /\ pc[j] = "over" <=> res[j] # "none"
  BY JobTypes
<1> DEFINE u == NextChunk(j, held[j])
<1>2. /\ pc[j] = "flush" /\ Put(j, u) /\ Sealing(j, u)
      /\ held' = [held EXCEPT ![j] = Hole]
      /\ pc' = [pc EXCEPT ![j] = "mark"]
      /\ UNCHANGED <<rpos, run, res, created>>
  BY DEF CloseFlush, Goto
<1>3. /\ Encrypts(j) /\ u \in GenuineUnits(sealed') /\ (InPlace(j) => u \in OwnUnits(j))
      /\ Seals(j) /\ Flushed(sealed'[j], j)
  BY <1>2, FlushSealed
<1> HIDE DEF u
<1>4. Writes(j)
  BY <1>2, <1>3 DEF Writes
<1>5. /\ res[j] = "none" /\ res' = [res EXCEPT ![j] = "none"]
      /\ pc'[j] = "mark" /\ res'[j] = "none"
  BY <1>1, <1>2
<1>6. SealInv(j)' /\ WrittenInv(j)'
  BY <1>3, <1>5 DEF SealInv, WrittenInv, Before
<1>7. held' \in [Jobs -> Units] /\ held'[j].kind \notin {"chunk", "marker"}
  BY <1>1, <1>2, HoleUnit
<1> QED
  BY <1>1, <1>2, <1>3, <1>4, <1>5, <1>6, <1>7, EncStep DEF Running

\* The sealed marker.
LEMMA MarkerSealed ==
  ASSUME IInv, NEW j \in Jobs, InputRead(j) \/ pc[j] = "mark",
         NEW u, u = NextMarker(j), Sealing(j, u)
  PROVE  /\ Encrypts(j) /\ pc[j] \in {"last", "body", "mark"}
         /\ u = Marker(j, Len(sealed[j])) /\ u.kind = "marker" /\ u \in GenuineUnits(sealed')
         /\ (InPlace(j) => u \in OwnUnits(j)) /\ Seals(j) /\ Marked(sealed'[j], j)
         /\ Going(sealed[j], j) /\ Len(sealed[j]) = Len(Plaintext(j)) => Whole(sealed'[j], j)
<1>1. PlaceInv(j) /\ sealed[j] \in Seq(Units)
  BY JobTypes
<1>2. Encrypts(j) /\ pc[j] \in {"last", "body", "mark"}
  BY <1>1 DEF PlaceInv, InputRead
<1>3. Going(sealed[j], j) \/ Flushed(sealed[j], j)
  BY <1>2, SealedSoFar
<1>4. /\ u = Marker(j, Len(sealed[j])) /\ u.kind = "marker" /\ u \in GenuineUnits(sealed')
      /\ (InPlace(j) => u \in OwnUnits(j)) /\ Seals(j)
      /\ sealed'[j] = Append(sealed[j], u)
  BY <1>2, SealMarker
<1>5. /\ Marked(Append(sealed[j], u), j)
      /\ Going(sealed[j], j) /\ Len(sealed[j]) = Len(Plaintext(j)) => Whole(Append(sealed[j], u), j)
  BY <1>1, <1>2, <1>3, <1>4, MarkedNext DEF Runs
<1> QED
  BY <1>2, <1>4, <1>5

\* An encryption that has read its input has sealed all of it.
LEMMA AllSealed ==
  ASSUME IInv, NEW j \in Jobs, Encrypts(j), InputRead(j)
  PROVE  /\ Going(sealed[j], j) /\ Len(sealed[j]) = Len(Plaintext(j))
         /\ wpos[j] = Len(Plaintext(j)) + 2 /\ Len(Plaintext(j)) \in Nat
<1>1. /\ rpos \in [Jobs -> Nat \ {0}] /\ wpos \in [Jobs -> Nat \ {0}]
      /\ sealed \in [Jobs -> Seq(Units)] /\ SealInv(j) /\ InputInv(j)
  BY JobTypes
<1>2. Len(Plaintext(j)) \in Nat
  BY PlaintextFacts DEF Runs
<1>3. CASE pc[j] = "last"
  <2>1. Going(sealed[j], j) /\ InPlace(j) /\ wpos[j] = 3 /\ Len(sealed[j]) = 1
    BY <1>1, <1>3 DEF SealInv
  <2>2. Plaintext(j) = <<Plain(0)>>
    BY <2>1, JobFacts DEF Plaintext
  <2> QED
    BY <2>1, <2>2
<1>4. CASE pc[j] = "body" /\ ~More(j)
  <2>1. ~InPlace(j)
    <3>1. ASSUME InPlace(j)
          PROVE  More(j)
      <4>1. rpos[j] = 1 /\ Len(files[Job[j].in]) = 1
        BY <1>4, <3>1, OwnHeader
      <4> QED
        BY <4>1 DEF More
    <3> QED
      BY <1>4, <3>1
  <2>2. files[Job[j].in] = InitFiles[Job[j].in]
    BY <1>1, <1>4, <2>1 DEF InputInv, Running
  <2>3. Plaintext(j) = InitFiles[Job[j].in]
    BY <2>1, JobFacts DEF Plaintext
  <2>4. /\ Going(sealed[j], j) /\ wpos[j] = rpos[j] + 1 /\ rpos[j] = Len(sealed[j]) + 1
        /\ Len(sealed[j]) \in Nat
    BY <1>1, <1>4 DEF SealInv
  <2>5. Len(sealed[j]) <= Len(Plaintext(j)) /\ ~(rpos[j] <= Len(Plaintext(j)))
    BY <1>4, <2>2, <2>3, <2>4 DEF Going, More
  <2> QED
    BY <1>2, <2>4, <2>5
<1> QED
  BY <1>3, <1>4 DEF InputRead

LEMMA EncryptCloseStep ==
  ASSUME IInv, NEW j \in Jobs, EncryptClose(j)
  PROVE  IInv'
<1>1. /\ pc \in [Jobs -> Places] /\ res \in [Jobs -> {"none", "ok", "err"}]
      /\ rpos \in [Jobs -> Nat \ {0}] /\ held \in [Jobs -> Units]
      /\ wpos \in [Jobs -> Nat \ {0}] /\ PlaceInv(j)
  BY JobTypes
<1> DEFINE u == NextMarker(j)
           v == IF pc[j] = "mark" THEN "err" ELSE "ok"
<1>2. /\ InputRead(j) \/ pc[j] = "mark"
      /\ Put(j, u) /\ Sealing(j, u)
      /\ pc' = [pc EXCEPT ![j] = "over"] /\ res' = [res EXCEPT ![j] = v]
      /\ UNCHANGED <<rpos, run, held, created>>
  BY DEF EncryptClose, End, Goto
<1>3. /\ Encrypts(j) /\ pc[j] \in {"last", "body", "mark"}
      /\ u = Marker(j, Len(sealed[j])) /\ u \in GenuineUnits(sealed')
      /\ (InPlace(j) => u \in OwnUnits(j)) /\ Seals(j) /\ Marked(sealed'[j], j)
      /\ Going(sealed[j], j) /\ Len(sealed[j]) = Len(Plaintext(j)) => Whole(sealed'[j], j)
  BY <1>2, MarkerSealed
<1> HIDE DEF u
<1>4. Writes(j) /\ v \in {"none", "ok", "err"} /\ v # "none" /\ created[j]
  BY <1>1, <1>2, <1>3 DEF Writes, PlaceInv, Running
<1>5. pc'[j] = "over" /\ res'[j] = v
  BY <1>1, <1>2
<1>6. CASE pc[j] = "mark"
  <2>1. SealInv(j)' /\ WrittenInv(j)'
    BY <1>3, <1>5, <1>6 DEF SealInv, WrittenInv, Before
  <2> HIDE DEF v
  <2> QED
    BY <1>1, <1>2, <1>3, <1>4, <1>6, <2>1, EncStep DEF Running
<1>7. CASE pc[j] # "mark"
  <2>1. /\ Going(sealed[j], j) /\ Len(sealed[j]) = Len(Plaintext(j))
        /\ wpos[j] = Len(Plaintext(j)) + 2 /\ Len(Plaintext(j)) \in Nat
    BY <1>2, <1>3, <1>7, AllSealed
  <2>2. SealInv(j)'
    BY <1>3, <1>5, <1>7, <2>1 DEF SealInv, Before
  <2>3. /\ Sealed(j)[Len(Plaintext(j)) + 2] = Marker(j, Len(Plaintext(j)))
        /\ Len(Sealed(j)) = Len(Plaintext(j)) + 2
    BY <1>3, SealedFacts DEF Runs
  <2>4. u = Sealed(j)[wpos[j]] /\ wpos[j] = Len(Sealed(j)) /\ wpos[j] <= Len(Sealed(j))
    BY <1>1, <1>3, <2>1, <2>3
  <2>5. WrittenInv(j)'
    <3>1. pc[j] \in {"header", "body", "last"} /\ UNCHANGED created
      BY <1>2, <1>3, <1>7
    <3> QED
      BY <1>2, <1>3, <1>4, <2>4, <3>1, EncryptOutput
  <2> HIDE DEF v
  <2> QED
    BY <1>1, <1>2, <1>3, <1>4, <1>7, <2>2, <2>5, EncStep DEF Running
<1> QED
  BY <1>6, <1>7

\* A write of an encryption fails, and the job with it.
LEMMA EncryptWriteFailsStep ==
  ASSUME IInv, NEW j \in Jobs, EncryptWriteFails(j)
  PROVE  IInv'
<1>1. /\ pc \in [Jobs -> Places] /\ res \in [Jobs -> {"none", "ok", "err"}]
      /\ rpos \in [Jobs -> Nat \ {0}] /\ held \in [Jobs -> Units]
  BY JobTypes
<1>2. /\ pc' = [pc EXCEPT ![j] = "over"] /\ res' = [res EXCEPT ![j] = "err"]
      /\ UNCHANGED <<rpos, run, held, created>>
  BY DEF EncryptWriteFails, End, Goto
<1>3. /\ Encrypts(j) /\ pc[j] \in Running
      /\ Seals(j) /\ Writes(j)
      /\ Going(sealed'[j], j) \/ Flushed(sealed'[j], j) \/ Marked(sealed'[j], j)
  <2>1. CASE /\ pc[j] = "header" /\ Encrypts(j)
             /\ \E fault \in WriteFaults : Spoil(j, HeaderOf(j), fault)
             /\ UNCHANGED sealed
    <3>1. /\ HeaderOf(j) \in Units /\ HeaderOf(j).kind = "header" /\ HeaderOf(j).run = j
          /\ HeaderOf(j).data = 0
      BY <2>1, HeaderUnit DEF Runs
    <3>2. HeaderOf(j) \in GenuineUnits(sealed') /\ HeaderOf(j) \in OwnUnits(j)
      BY <3>1, OtherUnits DEF OwnUnits
    <3>3. Writes(j)
      BY <2>1, <3>1, <3>2, SpoilWrites
    <3>4. Going(sealed[j], j) \/ Flushed(sealed[j], j)
      BY <2>1, SealedSoFar
    <3> QED
      BY <2>1, <3>3, <3>4 DEF Seals, Running
  <2>2. CASE \E fault \in WriteFaults, u \in Due(j) : Spoil(j, u, fault) /\ Sealing(j, u)
    <3>1. PICK fault \in WriteFaults, u \in Due(j) : Spoil(j, u, fault) /\ Sealing(j, u)
      BY <2>2
    <3>2. \/ pc[j] = "body" /\ Encrypts(j) /\ More(j) /\ u = NextChunk(j, Unit(j))
          \/ pc[j] = "flush" /\ u = NextChunk(j, held[j])
          \/ (InputRead(j) \/ pc[j] = "mark") /\ u = NextMarker(j)
      BY <3>1 DEF Due
    <3>3. CASE pc[j] = "body" /\ Encrypts(j) /\ More(j) /\ u = NextChunk(j, Unit(j))
      <4>1. /\ u.kind = "chunk" /\ u \in GenuineUnits(sealed')
            /\ (InPlace(j) => u \in OwnUnits(j)) /\ Seals(j) /\ Going(sealed'[j], j)
        BY <3>1, <3>3, ChunkSealed
      <4> QED
        BY <3>1, <3>3, <4>1, SpoilWrites DEF Running
    <3>4. CASE pc[j] = "flush" /\ u = NextChunk(j, held[j])
      <4>1. /\ Encrypts(j) /\ u.kind = "chunk" /\ u \in GenuineUnits(sealed')
            /\ (InPlace(j) => u \in OwnUnits(j)) /\ Seals(j) /\ Flushed(sealed'[j], j)
        BY <3>1, <3>4, FlushSealed
      <4> QED
        BY <3>1, <3>4, <4>1, SpoilWrites DEF Running
    <3>5. CASE (InputRead(j) \/ pc[j] = "mark") /\ u = NextMarker(j)
      <4>1. /\ Encrypts(j) /\ pc[j] \in {"last", "body", "mark"}
            /\ u.kind = "marker" /\ u \in GenuineUnits(sealed')
            /\ (InPlace(j) => u \in OwnUnits(j)) /\ Seals(j) /\ Marked(sealed'[j], j)
        BY <3>1, <3>5, MarkerSealed
      <4> QED
        BY <3>1, <3>5, <4>1, SpoilWrites DEF Running
    <3> QED
      BY <3>2, <3>3, <3>4, <3>5
  <2> QED
    BY <2>1, <2>2 DEF EncryptWriteFails
<1>4. pc'[j] = "over" /\ res'[j] = "err"
  BY <1>1, <1>2
<1>5. SealInv(j)' /\ WrittenInv(j)'
  BY <1>3, <1>4 DEF SealInv, WrittenInv, Before
<1> QED
  BY <1>1, <1>2, <1>3, <1>5, EncStep

-----------------------------------------------------------------------------
(* Steps of a decryption                                                     *)

\* A unit that is read is genuine.
LEMMA UnitRead ==
  ASSUME IInv, NEW j \in Jobs, pc[j] \in Running, More(j)
  PROVE  Unit(j) \in GenuineUnits(sealed) /\ Unit(j) \in Units
<1>1. files[Job[j].in] \in Seq(GenuineUnits(sealed)) /\ rpos[j] \in Nat \ {0}
  BY JobTypes DEF PlaceInv, GenuineFiles
<1>2. Unit(j) \in GenuineUnits(sealed)
  BY <1>1 DEF More, Unit
<1> QED
  BY <1>2 DEF GenuineUnits

LEMMA ReadHeaderStep ==
  ASSUME IInv, NEW j \in Jobs, ReadHeader(j)
  PROVE  IInv'
<1>1. /\ pc \in [Jobs -> Places] /\ res \in [Jobs -> {"none", "ok", "err"}]
      /\ rpos \in [Jobs -> Nat \ {0}] /\ wpos \in [Jobs -> Nat \ {0}]
      /\ run \in [Jobs -> Runs] /\ held \in [Jobs -> Units]
      /\ sealed \in [Jobs -> Seq(Units)] /\ created \in [Jobs -> BOOLEAN]
      /\ pc[j] = "over" <=> res[j] # "none"
      /\ PlaceInv(j) /\ ReadInv(j)
  BY JobTypes
<1>2. pc[j] = "header" /\ ~Encrypts(j)
  BY DEF ReadHeader
<1>3. CASE More(j) /\ Unit(j).kind = "header"
  <2>1. /\ run' = [run EXCEPT ![j] = Unit(j).run]
        /\ rpos' = [rpos EXCEPT ![j] = rpos[j] + 1]
        /\ pc' = [pc EXCEPT ![j] = "trial"]
        /\ UNCHANGED <<files, wpos, held, sealed, res, created>>
    BY <1>3 DEF ReadHeader, Advance, Goto
  <2>2. Unit(j).run \in Runs
    BY <1>2, <1>3, UnitRead DEF Running, Units
  <2>3. /\ wpos[j] = 1 /\ wpos[j] - 1 = 0 /\ rpos[j] = 1 /\ created[j]
        /\ files[Job[j].in] \in GenuineFiles(sealed)
    BY <1>1, <1>2 DEF PlaceInv, Before, Running
  <2>4. Reads(files[Job[j].out], SealedBy(run[j], sealed), 0, res[j]) /\ res[j] = "none"
    BY <1>1, <1>2, <2>3 DEF ReadInv
  <2>5. ~InPlace(j)
    BY <1>3, <2>3, <2>4 DEF InPlace, Reads, More
  <2>6. OnlyJob(j)
    BY <1>1, <2>1, SameGrows DEF OnlyJob
  <2>7. TypeOK'
    <3>1. rpos[j] + 1 \in Nat \ {0} /\ "trial" \in Places
      BY <1>1 DEF Places, Running
    <3>2. /\ rpos' \in [Jobs -> Nat \ {0}] /\ pc' \in [Jobs -> Places]
          /\ run' \in [Jobs -> Runs] /\ pc'[j] = "trial"
      BY <1>1, <2>1, <2>2, <3>1
    <3>3. /\ wpos' \in [Jobs -> Nat \ {0}] /\ held' \in [Jobs -> Units]
          /\ res' \in [Jobs -> {"none", "ok", "err"}] /\ created' \in [Jobs -> BOOLEAN]
          /\ res'[j] = "none"
      BY <1>1, <2>1, <2>4
    <3> QED
      BY <2>6, <3>2, <3>3, TypeKept
  <2>8. PlaceInv(j)'
    BY <1>1, <1>2, <2>1, <2>3 DEF PlaceInv, Before, Running
  <2>9. InputInv(j)' /\ SealInv(j)' /\ WrittenInv(j)' /\ InPlaceInv(j)'
    BY <1>2, <2>5 DEF InputInv, SealInv, WrittenInv, InPlaceInv
  <2>10. ReadInv(j)'
    <3>1. SealedBy(Unit(j).run, sealed) \in Seq(Units)
      BY <1>1, <2>2, SealedGrows, SameGrows
    <3>2. Reads(files[Job[j].out], SealedBy(Unit(j).run, sealed), 0, "none")
      BY <2>4, <3>1 DEF Reads
    <3>3. run'[j] = Unit(j).run
      BY <1>1, <2>1
    <3> QED
      BY <2>1, <2>3, <2>4, <3>2, <3>3 DEF ReadInv
  <2> QED
    BY <1>1, <2>1, <2>3, <2>4, <2>6, <2>7, <2>8, <2>9, <2>10, OthersKept DEF JobInv
<1>4. CASE ~(More(j) /\ Unit(j).kind = "header")
  <2>1. held[j] \in GenuineUnits(sealed)
    BY <1>1 DEF PlaceInv
  <2> QED
    BY <1>1, <1>2, <1>4, <2>1, EndStep DEF ReadHeader
<1> QED
  BY <1>3, <1>4

LEMMA TrialChunkStep ==
  ASSUME IInv, NEW j \in Jobs, TrialChunk(j)
  PROVE  IInv'
<1>1. /\ pc \in [Jobs -> Places] /\ res \in [Jobs -> {"none", "ok", "err"}]
      /\ rpos \in [Jobs -> Nat \ {0}] /\ wpos \in [Jobs -> Nat \ {0}]
      /\ run \in [Jobs -> Runs] /\ held \in [Jobs -> Units]
      /\ sealed \in [Jobs -> Seq(Units)] /\ created \in [Jobs -> BOOLEAN]
      /\ pc[j] = "over" <=> res[j] # "none"
      /\ PlaceInv(j) /\ ReadInv(j) /\ InPlaceInv(j)
  BY JobTypes
<1>2. pc[j] = "trial" /\ ~Encrypts(j) /\ created[j] /\ files[Job[j].in] \in GenuineFiles(sealed)
  BY <1>1 DEF TrialChunk, PlaceInv, Running
<1>3. CASE More(j) /\ Job[j].match /\ Opened(j, Unit(j))
  <2>1. /\ held' = [held EXCEPT ![j] = Unit(j)]
        /\ rpos' = [rpos EXCEPT ![j] = rpos[j] + 1]
        /\ pc' = [pc EXCEPT ![j] = "body"]
        /\ UNCHANGED <<files, wpos, run, sealed, res, created>>
    BY <1>3 DEF TrialChunk, Advance, Goto
  <2>2. Unit(j) \in GenuineUnits(sealed) /\ Unit(j) \in Units
    BY <1>2, <1>3, UnitRead DEF Running
  <2>3. OnlyJob(j)
    BY <1>1, <2>1, SameGrows DEF OnlyJob
  <2>4. TypeOK'
    <3>1. rpos[j] + 1 \in Nat \ {0} /\ "body" \in Places /\ res[j] = "none"
      BY <1>1, <1>2 DEF Places, Running
    <3>2. /\ rpos' \in [Jobs -> Nat \ {0}] /\ pc' \in [Jobs -> Places]
          /\ held' \in [Jobs -> Units] /\ pc'[j] = "body"
      BY <1>1, <2>1, <2>2, <3>1
    <3>3. /\ wpos' \in [Jobs -> Nat \ {0}] /\ run' \in [Jobs -> Runs]
          /\ res' \in [Jobs -> {"none", "ok", "err"}] /\ created' \in [Jobs -> BOOLEAN]
          /\ res'[j] = "none"
      BY <1>1, <2>1, <3>1
    <3> QED
      BY <2>3, <3>2, <3>3, TypeKept
  <2>5. PlaceInv(j)'
    BY <1>1, <1>2, <2>1, <2>2 DEF PlaceInv, Before, Running
  <2>6. InputInv(j)' /\ SealInv(j)' /\ WrittenInv(j)' /\ InPlaceInv(j)'
    BY <1>1, <1>2, <2>1 DEF InputInv, SealInv, WrittenInv, InPlaceInv
  <2>7. ReadInv(j)'
    BY <1>1, <1>2, <2>1 DEF ReadInv
  <2> QED
    BY <1>1, <1>2, <2>1, <2>3, <2>4, <2>5, <2>6, <2>7, OthersKept DEF JobInv
<1>4. CASE ~(More(j) /\ Job[j].match /\ Opened(j, Unit(j)))
  <2>1. held[j] \in GenuineUnits(sealed)
    BY <1>1 DEF PlaceInv
  <2> QED
    BY <1>1, <1>2, <1>4, <2>1, EndStep DEF TrialChunk
<1> QED
  BY <1>3, <1>4

\* A chunk or a marker that opens is what the encryption sealed under that counter.
LEMMA OpenedIsSealed ==
  ASSUME IInv, NEW j \in Jobs, NEW u \in GenuineUnits(sealed), Opened(j, u)
  PROVE  /\ u \in Units /\ wpos[j] <= Len(SealedBy(run[j], sealed))
         /\ u = SealedBy(run[j], sealed)[wpos[j]] /\ SealedBy(run[j], sealed) \in Seq(Units)
<1>1. wpos[j] \in Nat \ {0} /\ run[j] \in Runs /\ sealed \in [Jobs -> Seq(Units)]
  BY JobTypes
<1>2. SealedBy(run[j], sealed) \in Seq(Units)
  BY <1>1, SealedGrows, SameGrows
<1>3. u \in Units /\ u.run = run[j] /\ u.ctr = wpos[j] - 1 /\ u.kind \in {"chunk", "marker"}
  BY DEF Opened, GenuineUnits
<1>4. u.ctr < Len(SealedBy(u.run, sealed)) /\ u = SealedBy(u.run, sealed)[u.ctr + 1]
  BY <1>3 DEF GenuineUnits, Genuine
<1>5. u.ctr + 1 = wpos[j] /\ Len(SealedBy(run[j], sealed)) \in Nat
  BY <1>1, <1>2, <1>3
<1>6. u = SealedBy(run[j], sealed)[wpos[j]] /\ u.ctr < Len(SealedBy(run[j], sealed))
  BY <1>3, <1>4, <1>5
<1> QED
  BY <1>1, <1>2, <1>3, <1>5, <1>6

\* A chunk is written, all of it or, as the job fails, its first part.
LEMMA DecryptWrite ==
  ASSUME IInv, NEW j \in Jobs, pc[j] = "body", ~Encrypts(j), NEW u \in GenuineUnits(sealed),
         Opened(j, u), u.kind = "chunk",
         NEW l \in {"body", "over"}, NEW v \in {"none", "err"}, (l = "over") <=> (v = "err"),
         pc' = [pc EXCEPT ![j] = l], res' = [res EXCEPT ![j] = v],
         NEW x, x = Open(u) \/ (v = "err" /\ x = Part(Open(u))), Put(j, x),
         rpos' \in [Jobs -> Nat \ {0}], held' \in [Jobs -> Units],
         held'[j] \in GenuineUnits(sealed),
         \A k \in Jobs \ {j} : held'[k] = held[k] /\ rpos'[k] = rpos[k],
         UNCHANGED <<run, sealed, created>>
  PROVE  IInv'
<1>1. /\ pc \in [Jobs -> Places] /\ res \in [Jobs -> {"none", "ok", "err"}]
      /\ wpos \in [Jobs -> Nat \ {0}] /\ run \in [Jobs -> Runs]
      /\ sealed \in [Jobs -> Seq(Units)] /\ created \in [Jobs -> BOOLEAN]
      /\ pc[j] = "over" <=> res[j] # "none"
      /\ PlaceInv(j) /\ ReadInv(j) /\ InPlaceInv(j)
  BY JobTypes
<1> DEFINE S == SealedBy(run[j], sealed)
           n == wpos[j] - 1
           o == files[Job[j].out]
<1>2. /\ created[j] /\ files[Job[j].in] \in GenuineFiles(sealed) /\ ~InPlace(j)
      /\ res[j] = "none" /\ Reads(o, S, n, "none")
  BY <1>1 DEF PlaceInv, Running, InPlaceInv, ReadInv
<1>3. u \in Units /\ wpos[j] <= Len(S) /\ u = S[wpos[j]] /\ S \in Seq(Units)
  BY OpenedIsSealed
<1>4. n \in Nat /\ n + 1 = wpos[j] /\ n < Len(S)
  <2> HIDE DEF S
  <2>1. Len(S) \in Nat
    BY <1>3
  <2> QED
    BY <1>1, <1>3, <2>1
<1>5. x \in Units /\ x.kind = "plain"
  <2>1. Open(u) \in Units /\ Open(u).kind = "plain"
    BY <1>3, OpenUnit
  <2>2. Part(Open(u)) \in Units /\ Part(Open(u)).kind = "plain"
    BY <2>1, PartUnit
  <2> QED
    BY <2>1, <2>2
<1>6. x \in GenuineUnits(sealed') /\ Seals(j)
  BY <1>5, OtherUnits DEF Seals
<1>7. /\ wpos' = [wpos EXCEPT ![j] = wpos[j] + 1]
      /\ \E g \in GenuineFiles(sealed') : files' = [files EXCEPT ![Job[j].out] = g]
      /\ files'[Job[j].out] = WriteAt(o, wpos[j], x)
      /\ files'[Job[j].out] \in GenuineFiles(sealed')
      /\ files'[Job[j].in] = files[Job[j].in]
  BY <1>2, <1>6, PutFacts
<1>8. wpos' \in [Jobs -> Nat \ {0}] /\ \A k \in Jobs \ {j} : wpos'[k] = wpos[k]
  <2>1. wpos[j] + 1 \in Nat \ {0}
    BY <1>1
  <2> QED
    BY <1>1, <1>7, <2>1
<1>9. OnlyJob(j)
  BY <1>1, <1>2, <1>7, <1>8, SameGrows DEF OnlyJob
<1>10. pc'[j] = l /\ res'[j] = v /\ wpos'[j] - 1 = n + 1 /\ run'[j] = run[j]
  BY <1>1, <1>4, <1>7
<1>11. TypeOK'
  BY <1>1, <1>8, <1>9, <1>10, TypeKept DEF Places, Before, Running
<1>12. PlaceInv(j)'
  BY <1>2, <1>7, <1>10 DEF PlaceInv, Before, Running
<1>13. InputInv(j)' /\ SealInv(j)' /\ WrittenInv(j)' /\ InPlaceInv(j)'
  BY <1>2 DEF InputInv, SealInv, WrittenInv, InPlaceInv
<1>14. ReadInv(j)'
  <2> HIDE DEF S, n, o
  <2>1. S[n + 1].kind = "chunk" /\ (x = Open(S[n + 1]) \/ (v = "err" /\ x = Part(Open(S[n + 1]))))
    BY <1>3, <1>4
  <2>2. Reads(WriteAt(o, n + 1, x), S, n + 1, v)
    <3>1. Reads(o, S, n, "none") /\ S \in Seq(Units) /\ n < Len(S) /\ x \in Units
      BY <1>2, <1>3, <1>4, <1>5
    <3> QED
      BY <2>1, <3>1, ReadsNext
  <2>3. Reads(files'[Job[j].out], SealedBy(run'[j], sealed'), wpos'[j] - 1, res'[j])
    BY <1>4, <1>7, <1>10, <2>2 DEF S
  <2> QED
    BY <1>10, <2>3 DEF ReadInv
<1> QED
  BY <1>2, <1>9, <1>10, <1>11, <1>12, <1>13, <1>14, OthersKept DEF JobInv

\* A unit that a decryption takes, from the trial or from the file.
LEMMA HandleStep ==
  ASSUME IInv, NEW j \in Jobs, pc[j] = "body", ~Encrypts(j),
         NEW u \in GenuineUnits(sealed), Handle(j, u),
         rpos' \in [Jobs -> Nat \ {0}], held' \in [Jobs -> Units],
         held'[j] \in GenuineUnits(sealed),
         \A k \in Jobs \ {j} : held'[k] = held[k] /\ rpos'[k] = rpos[k],
         UNCHANGED <<run, sealed, created>>
  PROVE  IInv'
<1>1. /\ pc \in [Jobs -> Places] /\ res \in [Jobs -> {"none", "ok", "err"}]
      /\ wpos \in [Jobs -> Nat \ {0}] /\ run \in [Jobs -> Runs]
      /\ sealed \in [Jobs -> Seq(Units)] /\ created \in [Jobs -> BOOLEAN]
      /\ pc[j] = "over" <=> res[j] # "none"
      /\ PlaceInv(j) /\ ReadInv(j) /\ InPlaceInv(j)
  BY JobTypes
<1>2. /\ created[j] /\ files[Job[j].in] \in GenuineFiles(sealed) /\ ~InPlace(j) /\ res[j] = "none"
      /\ Reads(files[Job[j].out], SealedBy(run[j], sealed), wpos[j] - 1, "none")
  BY <1>1 DEF PlaceInv, Running, InPlaceInv, ReadInv
<1>3. CASE Opened(j, u) /\ u.kind = "chunk"
  <2>1. Put(j, Open(u)) /\ UNCHANGED <<pc, res>>
    BY <1>3 DEF Handle
  <2>2. pc' = [pc EXCEPT ![j] = "body"] /\ res' = [res EXCEPT ![j] = "none"]
    BY <1>1, <1>2, <2>1
  <2> QED
    BY <1>3, <2>1, <2>2, DecryptWrite
<1>4. CASE Opened(j, u) /\ u.kind = "marker"
  <2>1. /\ pc' = [pc EXCEPT ![j] = "over"] /\ res' = [res EXCEPT ![j] = "ok"]
        /\ UNCHANGED <<files, wpos>>
    BY <1>4 DEF Handle, End, Goto
  <2>2. wpos[j] <= Len(SealedBy(run[j], sealed)) /\ SealedBy(run[j], sealed)[wpos[j]].kind = "marker"
    BY <1>4, OpenedIsSealed
  <2>3. OnlyJob(j)
    BY <1>1, <2>1, SameGrows DEF OnlyJob
  <2>4. TypeOK'
    BY <1>1, <2>1, <2>3, TypeKept DEF Places, Before, Running
  <2>5. PlaceInv(j)'
    BY <1>1, <1>2, <2>1 DEF PlaceInv, Before, Running
  <2>6. InputInv(j)' /\ SealInv(j)' /\ WrittenInv(j)' /\ InPlaceInv(j)'
    BY <1>2 DEF InputInv, SealInv, WrittenInv, InPlaceInv
  <2>7. ReadInv(j)'
    BY <1>1, <1>2, <2>1, <2>2, ReadsErr DEF ReadInv
  <2> QED
    BY <1>2, <2>3, <2>4, <2>5, <2>6, <2>7, OthersKept DEF JobInv
<1>5. CASE ~(Opened(j, u) /\ u.kind \in {"chunk", "marker"})
  <2>1. End(j, "err") /\ UNCHANGED <<files, wpos>>
    BY <1>5 DEF Handle
  <2> QED
    BY <2>1, EndStep
<1> QED
  BY <1>3, <1>4, <1>5

LEMMA DecryptStep ==
  ASSUME IInv, NEW j \in Jobs,
         DecryptTrial(j) \/ DecryptChunk(j) \/ DecryptEnd(j) \/ DecryptWriteFails(j)
  PROVE  IInv'
<1>1. /\ pc \in [Jobs -> Places] /\ res \in [Jobs -> {"none", "ok", "err"}]
      /\ rpos \in [Jobs -> Nat \ {0}] /\ held \in [Jobs -> Units]
      /\ held[j] \in GenuineUnits(sealed)
  BY JobTypes DEF PlaceInv
<1>2. CASE DecryptTrial(j)
  <2>1. /\ pc[j] = "body" /\ ~Encrypts(j) /\ Handle(j, held[j])
        /\ held' = [held EXCEPT ![j] = Hole] /\ UNCHANGED <<rpos, run, sealed, created>>
    BY <1>2 DEF DecryptTrial
  <2>2. held' \in [Jobs -> Units] /\ held'[j] \in GenuineUnits(sealed)
    BY <1>1, <2>1, HoleUnit
  <2>3. \A k \in Jobs \ {j} : held'[k] = held[k] /\ rpos'[k] = rpos[k]
    BY <1>1, <2>1
  <2> QED
    BY <1>1, <2>1, <2>2, <2>3, HandleStep
<1>3. CASE DecryptChunk(j)
  <2>1. /\ pc[j] = "body" /\ ~Encrypts(j) /\ More(j) /\ Handle(j, Unit(j))
        /\ rpos' = [rpos EXCEPT ![j] = rpos[j] + 1] /\ UNCHANGED <<held, run, sealed, created>>
    BY <1>3 DEF DecryptChunk, Advance
  <2>2. Unit(j) \in GenuineUnits(sealed)
    BY <2>1, UnitRead DEF Running
  <2>3. rpos' \in [Jobs -> Nat \ {0}] /\ \A k \in Jobs \ {j} : held'[k] = held[k] /\ rpos'[k] = rpos[k]
    BY <1>1, <2>1
  <2> QED
    BY <1>1, <2>1, <2>2, <2>3, HandleStep
<1>4. CASE DecryptEnd(j)
  BY <1>1, <1>4, EndStep DEF DecryptEnd, posVars
<1>5. CASE DecryptWriteFails(j)
  <2>1. /\ pc[j] = "body" /\ ~Encrypts(j) /\ End(j, "err")
        /\ pc' = [pc EXCEPT ![j] = "over"] /\ res' = [res EXCEPT ![j] = "err"]
        /\ UNCHANGED <<rpos, run, held, sealed, created>>
    BY <1>5 DEF DecryptWriteFails, End, Goto
  <2>2. PICK u \in (IF held[j] # Hole THEN {held[j]} ELSE IF More(j) THEN {Unit(j)} ELSE {}),
             fault \in WriteFaults :
               Opened(j, u) /\ u.kind = "chunk" /\ Spoil(j, Open(u), fault)
    BY <1>5 DEF DecryptWriteFails
  <2>3. u \in GenuineUnits(sealed)
    <3>1. u = held[j] \/ (More(j) /\ u = Unit(j))
      OBVIOUS
    <3> QED
      BY <1>1, <2>1, <3>1, UnitRead DEF Running
  <2>4. Open(u).kind = "plain"
    BY <2>3, OpenUnit DEF GenuineUnits
  <2>5. UNCHANGED <<files, wpos>> \/ Put(j, Part(Open(u))) \/ Put(j, Open(u))
    BY <2>2, <2>4 DEF Spoil
  <2>6. CASE UNCHANGED <<files, wpos>>
    BY <1>1, <2>1, <2>6, EndStep
  <2>7. CASE Put(j, Part(Open(u))) \/ Put(j, Open(u))
    BY <1>1, <2>1, <2>2, <2>3, <2>7, DecryptWrite
  <2> QED
    BY <2>5, <2>6, <2>7
<1> QED
  BY <1>2, <1>3, <1>4, <1>5

LEMMA StepIInv == IInv /\ [Next]_vars => IInv'
<1> SUFFICES ASSUME IInv, [Next]_vars
             PROVE  IInv'
  OBVIOUS
<1>1. CASE Next
  <2>1. PICK j \in Jobs : Start(j) \/ Run(j) \/ Fault(j)
    BY <1>1 DEF Next
  <2>2. CASE Start(j)
    BY <2>2, StartStep
  <2>3. CASE Run(j)
    BY <2>3, OpenInputStep, CreateOutputStep, WriteHeaderStep, EncryptChunkStep,
       CloseFlushStep, EncryptCloseStep, ReadHeaderStep, TrialChunkStep, DecryptStep DEF Run
  <2>4. CASE Fault(j)
    BY <2>4, FailsStep, ChunkFailsStep, ReadFailsStep, EncryptWriteFailsStep, DecryptStep
       DEF Fault
  <2> QED
    BY <2>1, <2>2, <2>3, <2>4
<1>2. CASE UNCHANGED vars
  <2>1. UNCHANGED <<files, pc, rpos, wpos, run, held, sealed, res, created>>
    BY <1>2 DEF vars, posVars
  <2>2. TypeOK' /\ (files \in [Paths -> GenuineFiles(sealed) \cup {Absent}])'
    BY <2>1 DEF IInv, TypeOK
  <2>3. ASSUME NEW j \in Jobs
        PROVE  JobInv(j)' /\ (res'[j] = "ok" => created'[j])
    <3>1. JobInv(j) /\ (res[j] = "ok" => created[j])
      BY DEF IInv
    <3>2. PlaceInv(j)' /\ InputInv(j)' /\ SealInv(j)'
      BY <2>1, <3>1 DEF JobInv, PlaceInv, InputInv, SealInv, NextChunk
    <3>3. WrittenInv(j)' /\ ReadInv(j)' /\ InPlaceInv(j)'
      BY <2>1, <3>1 DEF JobInv, WrittenInv, ReadInv, InPlaceInv, Undisturbed
    <3> QED
      BY <2>1, <3>1, <3>2, <3>3 DEF JobInv
  <2> QED
    BY <2>1, <2>2, <2>3 DEF IInv
<1> QED
  BY <1>1, <1>2

-----------------------------------------------------------------------------
(* What the properties say                                                   *)

\* The output of a decryption, against the plaintext of the encryption it reads: the chunks
\* in their places, the last perhaps in part, and one more of an encryption that failed.
LEMMA ReadFacts ==
  ASSUME IInv, NEW j \in Jobs, ~Encrypts(j), created[j]
  PROVE  LET o == files[Job[j].out]
             r == run[j]
             S == SealedBy(r, sealed)
             n == wpos[j] - 1
         IN  \E m \in 0..Len(Plaintext(r)) :
               /\ Layout(r, S, m)
               /\ \A k \in 1..n : k <= m =>
                    o[k] = Plaintext(r)[k]
                      \/ (res[j] = "err" /\ k = n /\ o[k] = Part(Plaintext(r)[k]))
               /\ n <= m \/ (n = m + 1 /\ Failing(r) /\ Extra(S[n], r, m))
<1> DEFINE o == files[Job[j].out]
           r == run[j]
           S == SealedBy(r, sealed)
           n == wpos[j] - 1
           P == Plaintext(r)
<1>1. r \in Runs /\ wpos[j] \in Nat \ {0} /\ Reads(o, S, n, res[j]) /\ S \in Seq(Units)
  <2>1. r \in Runs /\ wpos[j] \in Nat \ {0} /\ ReadInv(j) /\ sealed \in [Jobs -> Seq(Units)]
    BY JobTypes
  <2> QED
    BY <2>1, SealedGrows, SameGrows DEF ReadInv
<1>2. PICK m : Layout(r, S, m)
  BY <1>1, SealedLayout
<1>3. n \in Nat /\ Len(S) \in Nat /\ n <= Len(S) /\ Len(P) \in Nat
  <2>1. Len(P) \in Nat
    BY <1>1, PlaintextFacts
  <2> HIDE DEF S, P, o
  <2>2. Len(S) \in Nat
    BY <1>1
  <2> QED
    BY <1>1, <2>1, <2>2 DEF Reads
<1>4. m \in 0..Len(P) /\ m <= Len(S)
  BY <1>2 DEF Layout
<1>5. ASSUME NEW k \in 1..n, k <= m
      PROVE  o[k] = P[k] \/ (res[j] = "err" /\ k = n /\ o[k] = Part(P[k]))
  <2>1. k \in 1..m /\ k \in 1..Len(P)
    BY <1>3, <1>4, <1>5
  <2>2. S[k] = Seal(r, k - 1, P[k])
    BY <1>2, <2>1 DEF Layout
  <2>3. Open(S[k]) = P[k]
    BY <1>1, <2>1, <2>2, OpenSeal
  <2> HIDE DEF S, P, o, r, n
  <2> QED
    BY <1>1, <2>3 DEF Reads
<1>6. ASSUME ~(n <= m)
      PROVE  n = m + 1 /\ Failing(r) /\ Extra(S[n], r, m)
  <2> HIDE DEF S, P, o, r, n
  <2>1. n \in 1..n /\ n \in (m + 1)..Len(S)
    BY <1>3, <1>4, <1>6
  <2>2. S[n].kind = "chunk"
    BY <1>1, <2>1 DEF Reads
  <2> QED
    BY <1>2, <2>1, <2>2 DEF Layout
<1> QED
  BY <1>2, <1>4, <1>5, <1>6

LEMMA PrefixOf ==
  ASSUME NEW o, NEW P \in Seq(Units), NEW n \in 0..Len(P), \A k \in 1..n : o[k] = P[k]
  PROVE  IsPrefix(SubSeq(o, 1, n), P)
<1> DEFINE s == SubSeq(o, 1, n)
<1>1. n \in Int /\ n <= Len(P) /\ \A k \in 1..n : o[k] \in Units /\ P[k] \in Units
  OBVIOUS
<1>2. /\ s \in Seq(Units) /\ Len(s) = IF 1 <= n THEN n - 1 + 1 ELSE 0
      /\ \A k \in 1..(n - 1 + 1) : s[k] = o[1 + k - 1]
  BY <1>1, SubSeqProperties
<1>3. Len(s) = n /\ \A k \in 1..n : s[k] = P[k]
  <2> HIDE DEF s
  <2>1. Len(s) = n
    BY <1>2
  <2>2. ASSUME NEW k \in 1..n
        PROVE  s[k] = P[k]
    <3>1. k \in 1..(n - 1 + 1) /\ 1 + k - 1 = k
      OBVIOUS
    <3>2. s[k] = o[1 + k - 1]
      BY <1>2, <3>1
    <3> QED
      BY <3>1, <3>2
  <2> QED
    BY <2>1, <2>2
<1> DEFINE t == SubSeq(P, 1, n)
<1>4. t \in Seq(Units) /\ Len(t) = n /\ \A k \in 1..n : t[k] = P[k]
  OBVIOUS
<1> HIDE DEF s, t
<1>5. s = t
  BY <1>2, <1>3, <1>4, SeqEqual
<1> QED
  BY <1>1, <1>3, <1>5 DEF IsPrefix, s, t

\* The invariant behind the theorems below.
THEOREM Invariance == Spec => []IInv
BY InitIInv, StepIInv, PTL DEF Spec

\* Files, places and results have their types.
THEOREM TypeCorrect == Spec => []TypeOK
<1>1. IInv => TypeOK
  BY DEF IInv
<1> QED
  BY <1>1, Invariance, PTL

\* A decryption that reports success wrote the whole plaintext of one encryption, or that
\* encryption has reported a failure.
THEOREM DecryptedIsWholeHolds == Spec => []DecryptedIsWhole
<1>1. IInv => DecryptedIsWhole
  <2> SUFFICES ASSUME IInv, NEW j \in Jobs, ~Encrypts(j), res[j] = "ok",
                      ~(run[j] # Old /\ res[run[j]] = "err")
               PROVE  files[Job[j].out] = Plaintext(run[j])
    BY DEF DecryptedIsWhole
  <2> DEFINE o == files[Job[j].out]
             r == run[j]
             S == SealedBy(r, sealed)
             n == wpos[j] - 1
             P == Plaintext(r)
  <2>1. created[j]
    BY DEF IInv
  <2>2. /\ Reads(o, S, n, res[j]) /\ wpos[j] <= Len(S) /\ S[wpos[j]].kind = "marker"
        /\ r \in Runs /\ wpos[j] \in Nat \ {0}
    BY <2>1, JobTypes DEF ReadInv
  <2>3. PICK m \in 0..Len(P) :
          /\ Layout(r, S, m)
          /\ \A k \in 1..n : k <= m =>
               o[k] = P[k] \/ (res[j] = "err" /\ k = n /\ o[k] = Part(P[k]))
          /\ n <= m \/ (n = m + 1 /\ Failing(r) /\ Extra(S[n], r, m))
    BY <2>1, ReadFacts
  <2>4. /\ P \in Seq(Units) /\ Len(P) \in Nat /\ S \in Seq(Units)
        /\ \A k \in 1..Len(P) : P[k] \in Units
    BY <2>2, JobTypes, PlaintextFacts, SealedGrows, SameGrows
  <2> HIDE DEF o, r, S, n, P
  <2>5. n \in Nat /\ wpos[j] = n + 1 /\ Len(S) \in Nat
    BY <2>2, <2>4 DEF n
  <2>6. wpos[j] \in (m + 1)..Len(S)
    <3>1. ASSUME wpos[j] \in 1..m
          PROVE  FALSE
      <4>1. S[wpos[j]] = Seal(r, wpos[j] - 1, P[wpos[j]])
        BY <2>3, <3>1 DEF Layout, P
      <4>2. wpos[j] - 1 \in Nat /\ P[wpos[j]] \in Units
        BY <2>2, <2>3, <2>4, <3>1
      <4>3. S[wpos[j]].kind = "chunk"
        BY <2>2, <4>1, <4>2, SealUnit
      <4> QED
        BY <2>2, <4>3
    <3> QED
      BY <2>2, <2>3, <2>4, <2>5, <3>1
  <2>7. wpos[j] = m + 1 /\ m = Len(P)
    BY <2>2, <2>3, <2>6 DEF Layout, r, P
  <2>8. o \in Seq(Units) /\ Len(o) = Len(P)
    BY <2>2, <2>4, <2>5, <2>7 DEF Reads
  <2>9. \A k \in 1..Len(P) : o[k] = P[k]
    BY <2>3, <2>4, <2>5, <2>7
  <2>10. o = P
    BY <2>4, <2>8, <2>9, SeqEqual
  <2> QED
    BY <2>10 DEF o, P, r
<1> QED
  BY <1>1, Invariance, PTL

\* The output of a decryption is a prefix of one plaintext at every moment, but for its last
\* chunk, which may be a part of one or, of an encryption that failed, come again.
THEOREM OutputIsPrefixHolds == Spec => []OutputIsPrefix
<1>1. IInv => OutputIsPrefix
  <2> SUFFICES ASSUME IInv, NEW j \in Jobs, ~Encrypts(j), created[j],
                      Len(files[Job[j].out]) > 0
               PROVE  LET o == files[Job[j].out]
                          n == Len(o)
                          P == Plaintext(run[j])
                      IN  /\ IsPrefix(SubSeq(o, 1, n - 1), P)
                          /\ \/ n <= Len(P) /\ o[n] \in {P[n], Part(P[n])}
                             \/ Failing(run[j]) /\ n > 1 /\ o[n] \in {o[n - 1], Part(o[n - 1])}
    BY DEF OutputIsPrefix
  <2> DEFINE o == files[Job[j].out]
             r == run[j]
             S == SealedBy(r, sealed)
             n == Len(o)
             P == Plaintext(r)
  <2>1. Reads(o, S, wpos[j] - 1, res[j]) /\ r \in Runs /\ wpos[j] \in Nat \ {0}
    BY JobTypes DEF ReadInv
  <2>2. n = wpos[j] - 1 /\ o \in Seq(Units)
    BY <2>1 DEF Reads
  <2>3. PICK m \in 0..Len(P) :
          /\ Layout(r, S, m)
          /\ \A k \in 1..n : k <= m =>
               o[k] = P[k] \/ (res[j] = "err" /\ k = n /\ o[k] = Part(P[k]))
          /\ n <= m \/ (n = m + 1 /\ Failing(r) /\ Extra(S[n], r, m))
    BY <2>2, ReadFacts
  <2>4. /\ P \in Seq(Units) /\ Len(P) \in Nat
        /\ \A k \in 1..Len(P) : P[k] \in Units
    BY <2>1, PlaintextFacts
  <2>5. n \in Nat \ {0} /\ \A k \in 1..n : S[k].kind = "chunk"
                           /\ (o[k] = Open(S[k]) \/ (k = n /\ o[k] = Part(Open(S[k]))))
    BY <2>1, <2>2 DEF Reads
  <2>6. Failing(run[j]) <=> Failing(r)
    OBVIOUS
  <2> HIDE DEF S, P, r
  <2>7. IsPrefix(SubSeq(o, 1, n - 1), P)
    <3> HIDE DEF o, n
    <3>1. n - 1 \in 0..Len(P) /\ \A k \in 1..(n - 1) : k \in 1..n /\ k <= m /\ k # n
      BY <2>3, <2>4, <2>5
    <3>2. \A k \in 1..(n - 1) : o[k] = P[k]
      BY <2>3, <3>1
    <3> QED
      BY <2>4, <3>1, <3>2, PrefixOf
  <2>8. CASE n <= m
    <3>1. n \in 1..n /\ n <= Len(P)
      BY <2>3, <2>4, <2>5, <2>8
    <3>2. o[n] \in {P[n], Part(P[n])}
      BY <2>3, <2>8, <3>1
    <3> QED
      BY <2>7, <3>1, <3>2 DEF P, r
  <2>9. CASE n = m + 1 /\ Failing(r) /\ Extra(S[n], r, m)
    <3>1. n \in 1..n /\ o[n] \in {Open(S[n]), Part(Open(S[n]))}
      BY <2>5
    <3>2. CASE m < Len(P) /\ S[n] = Seal(r, m, Part(P[m + 1]))
      <4>1. n \in 1..Len(P) /\ P[n] \in Units
        BY <2>3, <2>4, <2>9, <3>2
      <4>2. Open(S[n]) = Part(P[n])
        BY <2>1, <2>9, <3>2, <4>1, OpenSeal DEF P
      <4>3. Part(Open(S[n])) = Part(P[n])
        BY <4>1, <4>2, PartUnit
      <4> QED
        BY <2>7, <3>1, <4>1, <4>2, <4>3 DEF P, r
    <3>3. CASE 0 < m /\ S[n] = Seal(r, m, P[m])
      <4>1. m \in 1..Len(P) /\ n - 1 = m /\ n > 1
        BY <2>3, <2>4, <2>9, <3>3
      <4>2. Open(S[n]) = P[m]
        BY <2>1, <3>3, <4>1, OpenSeal DEF P
      <4>3. o[m] = P[m]
        <5> HIDE DEF o, n
        <5>1. m \in 1..n /\ m # n
          BY <2>9, <4>1
        <5> QED
          BY <2>3, <5>1
      <4> QED
        BY <2>6, <2>7, <2>9, <3>1, <4>1, <4>2, <4>3 DEF P, r
    <3> QED
      BY <2>9, <3>2, <3>3 DEF Extra, P
  <2> QED
    BY <2>3, <2>8, <2>9
<1> QED
  BY <1>1, Invariance, PTL

\* An encryption that reports success, undisturbed, leaves a file that decrypts.
THEOREM EncryptedReadsBackHolds == Spec => []EncryptedReadsBack
<1>1. IInv => EncryptedReadsBack
  <2> SUFFICES ASSUME IInv, NEW j \in Jobs, Encrypts(j), res[j] = "ok", Undisturbed(j)
               PROVE  files[Job[j].out] = Sealed(j)
    BY DEF EncryptedReadsBack
  <2>1. created[j] /\ WrittenInv(j) /\ pc[j] = "over"
    BY JobTypes DEF IInv
  <2>2. Agrees(files[Job[j].out], Sealed(j), Len(Sealed(j)))
    BY <2>1 DEF WrittenInv
  <2>3. Sealed(j) \in Seq(Units)
    BY SealedFacts DEF Runs
  <2> QED
    BY <2>2, <2>3, AgreesAll
<1> QED
  BY <1>1, Invariance, PTL

\* A job in place loses what it was given.
THEOREM InPlaceLosesAllHolds == Spec => []InPlaceLosesAll
<1>1. IInv => InPlaceLosesAll
  <2>1. ASSUME IInv, NEW j \in Jobs, InPlace(j), created[j], Encrypts(j),
               NEW k \in 1..Len(files[Job[j].out])
        PROVE  LET u == files[Job[j].out][k]
               IN  u.kind # "plain" /\ u.data = 0 /\ (u.kind # "hole" => u.run = j)
    <3>1. files[Job[j].out] \in Seq(OwnUnits(j))
      BY <2>1, JobTypes DEF InPlaceInv
    <3>2. files[Job[j].out][k] \in OwnUnits(j)
      BY <3>1
    <3> QED
      BY <3>2 DEF OwnUnits
  <2>2. ASSUME IInv, NEW j \in Jobs, InPlace(j), created[j], ~Encrypts(j)
        PROVE  files[Job[j].out] = <<>> /\ res[j] # "ok"
    <3>1. wpos[j] = 1 /\ res[j] # "ok" /\ ReadInv(j)
      BY <2>2, JobTypes DEF InPlaceInv
    <3>2. files[Job[j].out] \in Seq(Units) /\ Len(files[Job[j].out]) = 0
      BY <2>2, <3>1 DEF ReadInv, Reads
    <3> QED
      BY <3>1, <3>2
  <2> QED
    BY <2>1, <2>2 DEF InPlaceLosesAll
<1> QED
  BY <1>1, Invariance, PTL
=============================================================================
