----------------------------- MODULE ConfigStore -----------------------------
(***************************************************************************)
(* Save and Load of core/config.go, called by several processes on one      *)
(* settings file.  A process may die at any step and its successor starts   *)
(* again; the file system survives.  Save has no lock: what keeps two of    *)
(* them apart is that path.tmp is created with O_EXCL.                      *)
(*                                                                         *)
(* The directory maps the names "conf" (path) and "tmp" (path.tmp) to       *)
(* files, so that a file that has been renamed over can still be read by    *)
(* the process that has it open.                                            *)
(***************************************************************************)
EXTENDS Integers

CONSTANTS
  Procs,
  Params,        \* the configurations callers save, as records of
                 \* version, memory, time and threads
  Files          \* bound: files alive at one time

NoFile == "nofile"

ASSUME StoreAssumption ==
  /\ Params \subseteq [version : Nat, memory : Nat, time : Nat, threads : Nat]
  /\ NoFile \notin Files

VARIABLES
  dir,       \* the file under each name, or NoFile
  content,   \* of each file
  pc,        \* of each process
  arg,       \* the configuration it saves
  fd,        \* the file it has open
  last,      \* history: how its last call ended
  orphaned   \* history: path.tmp was left behind, by a process that died between creating and
             \* renaming it or by a Save that could not remove it

fsVars == <<dir, content>>
vars == <<fsVars, pc, arg, fd, last, orphaned>>

Nothing == [kind |-> "nothing"]

\* What a file holds: nothing, part of a configuration, anything else, or all of one.
EmptyFile == [kind |-> "empty"]
Partial == [kind |-> "partial"]
Directory == [kind |-> "directory"]
Absent == [kind |-> "absent"]
Conf(cf) == [kind |-> "conf", cf |-> cf]

ConfVersion == 1
Argon2MinMemoryKB == 131072
Argon2MinTime == 3
Argon2MinThreads == 2

Validate(cf) ==
  /\ cf.memory >= Argon2MinMemoryKB
  /\ cf.time >= Argon2MinTime
  /\ cf.threads >= Argon2MinThreads

\* Load accepts a file that is not empty, unmarshals, and holds a valid configuration.
Acceptable(c) == c.kind = "conf" /\ c.cf.version # 0 /\ Validate(c.cf)

\* Mutant of Versioned: the version is not filled in.
Unversioned(cf) == cf

Versioned(cf) == IF cf.version = 0 THEN [cf EXCEPT !.version = ConfVersion] ELSE cf

Held == {dir["conf"], dir["tmp"]} \cup {fd[p] : p \in Procs}
Fresh == Files \ Held

Init ==
  /\ \E f \in Files :
       \/ dir = [conf |-> NoFile, tmp |-> NoFile]
       \/ dir = [conf |-> f, tmp |-> NoFile]
  /\ \E c \in {EmptyFile, Partial, Directory} \cup {Conf(cf) : cf \in Params} :
       content = [f \in Files |-> IF f = dir["conf"] THEN c ELSE EmptyFile]
  /\ pc = [p \in Procs |-> "idle"]
  /\ arg = [p \in Procs |-> Nothing]
  /\ fd = [p \in Procs |-> NoFile]
  /\ last = [p \in Procs |-> Nothing]
  /\ orphaned = FALSE
-----------------------------------------------------------------------------
Goto(p, l) == pc' = [pc EXCEPT ![p] = l]

Return(p, result) ==
  /\ Goto(p, "idle")
  /\ arg' = [arg EXCEPT ![p] = Nothing]
  /\ fd' = [fd EXCEPT ![p] = NoFile]
  /\ last' = [last EXCEPT ![p] = result]

(* Save                                                                     *)

Save(p, cf) ==
  /\ pc[p] = "idle"
  /\ arg' = [arg EXCEPT ![p] = Conf(Versioned(cf))]
  /\ Goto(p, "create")
  /\ UNCHANGED <<fsVars, fd, last, orphaned>>

\* Mutant of Create: O_TRUNC in place of O_EXCL.
CreateTruncates(p) ==
  /\ pc[p] = "create"
  /\ \E f \in IF dir["tmp"] = NoFile THEN Fresh ELSE {dir["tmp"]} :
       /\ dir' = [dir EXCEPT !["tmp"] = f]
       /\ content' = [content EXCEPT ![f] = EmptyFile]
       /\ fd' = [fd EXCEPT ![p] = f]
  /\ Goto(p, "write")
  /\ UNCHANGED <<arg, last, orphaned>>

\* OpenFile(tmp, O_CREATE|O_EXCL)
Create(p) ==
  /\ pc[p] = "create"
  /\ dir["tmp"] = NoFile
  /\ \E f \in Fresh :
       /\ dir' = [dir EXCEPT !["tmp"] = f]
       /\ content' = [content EXCEPT ![f] = EmptyFile]
       /\ fd' = [fd EXCEPT ![p] = f]
  /\ Goto(p, "write")
  /\ UNCHANGED <<arg, last, orphaned>>

\* Mutant of CreateFails: it cleans up after a failure as the other steps do.
CreateFailsRemoves(p) ==
  /\ pc[p] = "create"
  /\ dir' = [dir EXCEPT !["tmp"] = NoFile]
  /\ Return(p, [kind |-> "error"])
  /\ UNCHANGED <<content, orphaned>>

\* path.tmp exists, or can not be created for another reason.
CreateFails(p) ==
  /\ pc[p] = "create"
  /\ Return(p, [kind |-> "error"])
  /\ UNCHANGED <<fsVars, orphaned>>

\* The data reach the file piece by piece.
Write(p) ==
  /\ pc[p] = "write"
  /\ content' = [content EXCEPT ![fd[p]] = Partial]
  /\ Goto(p, "writing")
  /\ UNCHANGED <<dir, arg, fd, last, orphaned>>

Written(p) ==
  /\ pc[p] = "writing"
  /\ content' = [content EXCEPT ![fd[p]] = arg[p]]
  /\ Goto(p, "close")
  /\ UNCHANGED <<dir, arg, fd, last, orphaned>>

WriteFails(p) ==
  /\ pc[p] \in {"write", "writing"}
  /\ Goto(p, "remove")
  /\ UNCHANGED <<fsVars, arg, fd, last, orphaned>>

CloseTmp(p) ==
  /\ pc[p] = "close"
  /\ \E l \in {"rename", "remove"} : Goto(p, l)
  /\ UNCHANGED <<fsVars, arg, fd, last, orphaned>>

IsDir == dir["conf"] # NoFile /\ content[dir["conf"]] = Directory

\* os.Rename(tmp, path): whatever has the name path.tmp gets the name path.
Rename(p) ==
  /\ pc[p] = "rename"
  /\ dir["tmp"] # NoFile /\ ~IsDir
  /\ dir' = [conf |-> dir["tmp"], tmp |-> NoFile]
  /\ Return(p, [kind |-> "saved"])
  /\ UNCHANGED <<content, orphaned>>

\* path is a directory, or the file system refuses for another reason.
RenameFails(p) ==
  /\ pc[p] = "rename"
  /\ Goto(p, "remove")
  /\ UNCHANGED <<fsVars, arg, fd, last, orphaned>>

\* Mutant of Remove: the error is returned and path.tmp stays.
RemoveForgotten(p) ==
  /\ pc[p] = "remove"
  /\ Return(p, [kind |-> "error"])
  /\ UNCHANGED <<fsVars, orphaned>>

\* os.Remove(tmp), and the error that led here is returned.
Remove(p) ==
  /\ pc[p] = "remove"
  /\ dir' = [dir EXCEPT !["tmp"] = NoFile]
  /\ Return(p, [kind |-> "error"])
  /\ UNCHANGED <<content, orphaned>>

\* os.Remove fails: its error is dropped, the other one is returned, and path.tmp stays.
RemoveFails(p) ==
  /\ pc[p] = "remove"
  /\ Return(p, [kind |-> "error"])
  /\ orphaned' = TRUE
  /\ UNCHANGED fsVars

Saving == {"write", "writing", "close", "rename", "remove"}
-----------------------------------------------------------------------------
(* Load                                                                     *)

Load(p) ==
  /\ pc[p] = "idle"
  /\ Goto(p, "stat")
  /\ UNCHANGED <<fsVars, arg, fd, last, orphaned>>

\* os.Stat
Stat(p) ==
  /\ pc[p] = "stat"
  /\ dir["conf"] # NoFile /\ ~IsDir
  /\ Goto(p, "open")
  /\ UNCHANGED <<fsVars, arg, fd, last, orphaned>>

\* os.ReadFile opens the file that has the name now, and reads it.
Open(p) ==
  /\ pc[p] = "open"
  /\ fd' = [fd EXCEPT ![p] = dir["conf"]]
  /\ Goto(p, "read")
  /\ UNCHANGED <<fsVars, arg, last, orphaned>>

Read(p) ==
  /\ pc[p] = "read"
  /\ LET c == content[fd[p]]
     IN  Return(p, [kind |-> IF Acceptable(c) THEN "loaded" ELSE "refused", of |-> c])
  /\ UNCHANGED <<fsVars, orphaned>>

\* There is no file, it is a directory, or Stat or ReadFile fail for another reason.
LoadFails(p) ==
  /\ pc[p] \in {"stat", "open", "read"}
  /\ Return(p, [kind |-> "error"])
  /\ UNCHANGED <<fsVars, orphaned>>
-----------------------------------------------------------------------------
\* A process dies; what it had open is closed, path.tmp stays.
Crash(p) ==
  /\ pc[p] # "idle"
  /\ Return(p, Nothing)
  /\ orphaned' = (orphaned \/ pc[p] \in Saving)
  /\ UNCHANGED fsVars

\* Somebody removes a path.tmp that no Save is working on.
Tidy ==
  /\ dir["tmp"] # NoFile
  /\ \A p \in Procs : pc[p] \notin Saving
  /\ dir' = [dir EXCEPT !["tmp"] = NoFile]
  /\ orphaned' = FALSE
  /\ UNCHANGED <<content, pc, arg, fd, last>>

Step(p) ==
  \/ \E cf \in Params : Save(p, cf)
  \/ Create(p) \/ CreateFails(p)
  \/ Write(p) \/ Written(p) \/ WriteFails(p)
  \/ CloseTmp(p)
  \/ Rename(p) \/ RenameFails(p)
  \/ Remove(p) \/ RemoveFails(p)
  \/ Load(p) \/ Stat(p) \/ Open(p) \/ Read(p) \/ LoadFails(p)
  \/ Crash(p)

Next == (\E p \in Procs : Step(p)) \/ Tidy

Spec == Init /\ [][Next]_vars
-----------------------------------------------------------------------------
\* What a file may hold, and what it may become.
Known == Params \cup {Versioned(cf) : cf \in Params}

Content == {EmptyFile, Partial, Directory} \cup {Conf(cf) : cf \in Known}

TypeOK ==
  /\ dir \in [{"conf", "tmp"} -> Files \cup {NoFile}]
  /\ content \in [Files -> Content]
  /\ pc \in [Procs -> {"idle", "create", "stat", "open", "read"} \cup Saving]
  /\ arg \in [Procs -> {Nothing} \cup {Conf(cf) : cf \in Known}]
  /\ \A p \in Procs : arg[p] # Nothing => arg[p].cf.version # 0
  /\ fd \in [Procs -> Files \cup {NoFile}]
  /\ orphaned \in BOOLEAN

\* From creating path.tmp to renaming or removing it, the name leads to the file that
\* this process has open: no Save writes to, renames or removes the file of another,
\* crashes and their tidying up included.
TmpIsOwn ==
  \A p \in Procs : pc[p] \in Saving => dir["tmp"] = fd[p]

\* path.tmp outlives a Save only when the process died in it or its os.Remove failed: a
\* failed write, close or rename does not by itself lock out later Saves.  Both together do:
\* the error of os.Remove is dropped (config.go:125, 129, 133).
NoOrphan ==
  dir["tmp"] # NoFile => orphaned \/ \E p \in Procs : pc[p] \in Saving

\* The state of ConfigRegister, by the names it has there: the content of the settings
\* file, the call that each process has begun, and what its Load is going to judge.
conf == IF dir["conf"] = NoFile THEN Absent ELSE content[dir["conf"]]

op == [p \in Procs |-> IF pc[p] = "idle" THEN "none"
                       ELSE IF pc[p] \in {"stat", "open", "read"} THEN "load" ELSE "save"]

got == [p \in Procs |-> IF pc[p] = "read" THEN content[fd[p]] ELSE Nothing]

Register == INSTANCE ConfigRegister
  WITH Configs  <- {Conf(Versioned(cf)) : cf \in Params},
       Contents <- {EmptyFile, Partial, Directory, Absent} \cup {Conf(cf) : cf \in Params},
       Accepted <- {c \in {Conf(cf) : cf \in Known} : Acceptable(c)}

\* The settings file is that register ("原子写入", written atomically, config.go:101): no
\* Load ever judges part of a configuration, or a mixture of two.
IsRegister == Register!Spec
-----------------------------------------------------------------------------
(* The inductive invariant behind them.                                     *)

\* One Save at a time has a temporary file, and before the rename all of it is there.
SaveInv ==
  /\ \A p \in Procs :
       pc[p] \in Saving =>
         /\ fd[p] \in Files /\ dir["tmp"] = fd[p]
         /\ pc[p] \in {"close", "rename"} => content[fd[p]] = arg[p]
  /\ \A p \in Procs : pc[p] \in Saving \cup {"create"} => arg[p] # Nothing
  /\ \A p, q \in Procs : pc[p] \in Saving /\ pc[q] \in Saving => p = q

\* The settings file never goes away, and what a Load reads is out of Save's reach.
LoadInv ==
  \A p \in Procs :
    /\ pc[p] \in {"open", "read"} => dir["conf"] # NoFile
    /\ pc[p] = "read" => fd[p] \in Files /\ fd[p] # dir["tmp"]

NamesInv == dir["tmp"] # NoFile => dir["tmp"] # dir["conf"]

IInv == TypeOK /\ SaveInv /\ LoadInv /\ NamesInv /\ NoOrphan
=============================================================================
