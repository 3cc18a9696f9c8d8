-------------------------- MODULE ConfigStoreProofs --------------------------
(***************************************************************************)
(* ConfigStore for every number of processes, files and configurations: its *)
(* inductive invariant, and that it implements the register.                *)
(***************************************************************************)
EXTENDS ConfigStore, TLAPS

\* What a process saves has a version.
LEMMA VersionedFacts ==
  ASSUME NEW cf \in Params
  PROVE  Versioned(cf) \in Known /\ Versioned(cf).version # 0
BY StoreAssumption DEF Versioned, ConfVersion, Known

\* The results of the steps that end a call.
LEMMA ReturnFacts ==
  ASSUME TypeOK, NEW p \in Procs, NEW r, Return(p, r)
  PROVE  /\ pc' \in [Procs -> {"idle", "create", "stat", "open", "read"} \cup Saving]
         /\ arg' \in [Procs -> {Nothing} \cup {Conf(cf) : cf \in Known}]
         /\ \A q \in Procs : arg'[q] # Nothing => arg'[q].cf.version # 0
         /\ fd' \in [Procs -> Files \cup {NoFile}]
         /\ pc'[p] = "idle" /\ pc'[p] \notin Saving
         /\ \A q \in Procs \ {p} : pc'[q] = pc[q] /\ fd'[q] = fd[q] /\ arg'[q] = arg[q]
BY DEF TypeOK, Return, Goto, Saving

LEMMA InitIInv == Init => IInv
<1> SUFFICES ASSUME Init
             PROVE  IInv
  OBVIOUS
<1>1. PICK c \in {EmptyFile, Partial, Directory} \cup {Conf(cf) : cf \in Params} :
        content = [f \in Files |-> IF f = dir["conf"] THEN c ELSE EmptyFile]
  BY DEF Init
<1>2. content \in [Files -> Content]
  BY <1>1 DEF Content, Known
<1>3. dir \in [{"conf", "tmp"} -> Files \cup {NoFile}]
  BY DEF Init
<1>4. TypeOK
  BY <1>2, <1>3 DEF Init, TypeOK
<1> QED
  BY <1>4 DEF Init, IInv, SaveInv, LoadInv, NamesInv, NoOrphan, Saving
-----------------------------------------------------------------------------
(* The steps of a Save.                                                     *)

LEMMA SaveStep ==
  ASSUME IInv, NEW p \in Procs, NEW cf \in Params, Save(p, cf)
  PROVE  IInv'
<1> USE DEF IInv, Saving
<1>1. pc[p] = "idle" /\ pc' = [pc EXCEPT ![p] = "create"] /\ UNCHANGED <<dir, content, fd, orphaned>>
  BY DEF Save, Goto, fsVars
<1>2. arg' = [arg EXCEPT ![p] = Conf(Versioned(cf))] /\ Versioned(cf) \in Known
  BY VersionedFacts DEF Save
<1>3. \A q \in Procs : arg'[q] # Nothing => arg'[q].cf.version # 0
  BY <1>2, VersionedFacts DEF TypeOK, Conf
<1>4. TypeOK'
  BY <1>1, <1>2, <1>3 DEF TypeOK
<1>5. \A q \in Procs : q # p => pc'[q] = pc[q] /\ arg'[q] = arg[q]
  BY <1>1, <1>2 DEF TypeOK
<1>6. arg'[p] # Nothing
  BY <1>2 DEF TypeOK, Conf, Nothing
<1>7. SaveInv'
  BY <1>1, <1>5, <1>6 DEF SaveInv, TypeOK
<1> QED
  BY <1>1, <1>4, <1>7 DEF LoadInv, NamesInv, NoOrphan, TypeOK

\* O_EXCL: nobody else has a temporary file, and the new one is no file that is open.
LEMMA CreateStep ==
  ASSUME IInv, NEW p \in Procs, Create(p)
  PROVE  IInv'
<1> USE DEF IInv, Saving
<1>1. PICK f \in Fresh :
        /\ dir' = [dir EXCEPT !["tmp"] = f]
        /\ content' = [content EXCEPT ![f] = EmptyFile]
        /\ fd' = [fd EXCEPT ![p] = f]
  BY DEF Create
<1>2. /\ pc[p] = "create" /\ dir["tmp"] = NoFile
      /\ pc' = [pc EXCEPT ![p] = "write"] /\ UNCHANGED <<arg, orphaned>>
  BY DEF Create, Goto
<1>3. f \in Files /\ f # dir["conf"] /\ \A q \in Procs : fd[q] # f
  BY <1>1 DEF Fresh, Held
<1>4. TypeOK'
  BY <1>1, <1>2, <1>3 DEF TypeOK, Content
<1>5. \A q \in Procs : pc[q] \notin {"write", "writing", "close", "rename", "remove"}
  BY <1>2, StoreAssumption DEF SaveInv
<1>6. SaveInv'
  BY <1>1, <1>2, <1>3, <1>5 DEF SaveInv, TypeOK
<1>7. LoadInv'
  BY <1>1, <1>2, <1>3 DEF LoadInv, TypeOK
<1> QED
  BY <1>1, <1>2, <1>3, <1>4, <1>6, <1>7 DEF NamesInv, NoOrphan, TypeOK

\* Writing reaches the temporary file alone.
LEMMA WriteStep ==
  ASSUME IInv, NEW p \in Procs, Write(p) \/ Written(p)
  PROVE  IInv'
<1> USE DEF IInv, Saving
<1>1. PICK c \in Content :
        /\ content' = [content EXCEPT ![fd[p]] = c]
        /\ \/ pc' = [pc EXCEPT ![p] = "writing"]
           \/ pc' = [pc EXCEPT ![p] = "close"] /\ c = arg[p]
  <2>1. CASE Write(p)
    BY <2>1 DEF Write, Goto, Content
  <2>2. CASE Written(p)
    <3>1. arg[p] \in Content
      BY <2>2 DEF Written, TypeOK, SaveInv, Content
    <3> QED
      BY <2>2, <3>1 DEF Written, Goto
  <2> QED
    BY <2>1, <2>2
<1>2. pc[p] \in {"write", "writing"} /\ UNCHANGED <<dir, arg, fd, orphaned>>
  BY DEF Write, Written
<1>3. fd[p] \in Files /\ dir["tmp"] = fd[p]
  BY <1>2 DEF SaveInv
<1>4. TypeOK'
  BY <1>1, <1>2 DEF TypeOK
<1>5. SaveInv'
  BY <1>1, <1>2, <1>3 DEF SaveInv, TypeOK
<1> QED
  BY <1>1, <1>2, <1>4, <1>5 DEF LoadInv, NamesInv, NoOrphan, TypeOK

\* The steps that only go on to the next system call.
LEMMA GotoStep ==
  ASSUME IInv, NEW p \in Procs, WriteFails(p) \/ CloseTmp(p) \/ RenameFails(p)
  PROVE  IInv'
<1> USE DEF IInv, Saving
<1>1. /\ \/ pc[p] \in {"write", "writing", "rename"} /\ pc' = [pc EXCEPT ![p] = "remove"]
         \/ pc[p] = "close" /\ \E l \in {"rename", "remove"} : pc' = [pc EXCEPT ![p] = l]
      /\ UNCHANGED <<dir, content, arg, fd, orphaned>>
  BY DEF WriteFails, CloseTmp, RenameFails, Goto, fsVars
<1>2. TypeOK'
  BY <1>1 DEF TypeOK
<1>3. SaveInv'
  BY <1>1 DEF SaveInv, TypeOK
<1> QED
  BY <1>1, <1>2, <1>3 DEF LoadInv, NamesInv, NoOrphan, TypeOK

\* The steps with which a Save returns: the name path.tmp is free after them.
LEMMA SaveReturns ==
  ASSUME IInv, NEW p \in Procs, Rename(p) \/ Remove(p)
  PROVE  IInv'
<1> USE DEF IInv, Saving
<1>1. PICK r : Return(p, r)
  BY DEF Rename, Remove
<1>2. pc[p] \in {"rename", "remove"} /\ UNCHANGED <<content, orphaned>>
  BY DEF Rename, Remove
<1>3. /\ dir' \in [{"conf", "tmp"} -> Files \cup {NoFile}]
      /\ dir'["tmp"] = NoFile /\ (dir["conf"] # NoFile => dir'["conf"] # NoFile)
  BY DEF Rename, Remove, TypeOK
<1>4. TypeOK'
  BY <1>1, <1>2, <1>3, ReturnFacts DEF TypeOK
<1>5. \A q \in Procs : pc'[q] \notin {"write", "writing", "close", "rename", "remove"}
  BY <1>1, <1>2, ReturnFacts DEF SaveInv
<1>6. SaveInv'
  BY <1>1, <1>5, ReturnFacts DEF SaveInv
<1>7. LoadInv'
  BY <1>1, <1>3, ReturnFacts, StoreAssumption DEF LoadInv
<1> QED
  BY <1>3, <1>4, <1>6, <1>7 DEF NamesInv, NoOrphan

\* A Save that can not create path.tmp, and a Load, leave all files alone.
LEMMA QuietReturns ==
  ASSUME IInv, NEW p \in Procs, NEW r, Return(p, r), pc[p] \notin Saving,
         UNCHANGED <<dir, content, orphaned>>
  PROVE  IInv'
<1> USE DEF IInv, Saving
<1>1. TypeOK'
  BY ReturnFacts DEF TypeOK
<1>2. SaveInv'
  BY ReturnFacts DEF SaveInv
<1>3. LoadInv'
  BY ReturnFacts DEF LoadInv
<1>4. NoOrphan'
  BY ReturnFacts DEF NoOrphan
<1> QED
  BY <1>1, <1>2, <1>3, <1>4 DEF NamesInv
-----------------------------------------------------------------------------
(* The steps of a Load, a crash and the removal of what it left.            *)

LEMMA LoadStep ==
  ASSUME IInv, NEW p \in Procs, Load(p) \/ Stat(p) \/ Open(p)
  PROVE  IInv'
<1> USE DEF IInv, Saving
<1>1. /\ pc[p] \in {"idle", "stat", "open"}
      /\ \E l \in {"stat", "open", "read"} : pc' = [pc EXCEPT ![p] = l]
      /\ UNCHANGED <<dir, content, arg, orphaned>>
  BY DEF Open, Load, Stat, Goto, fsVars
<1>2. /\ pc'[p] = "open" => dir["conf"] # NoFile
      /\ IF pc'[p] = "read" THEN dir["conf"] # NoFile /\ fd' = [fd EXCEPT ![p] = dir["conf"]]
         ELSE fd' = fd
  BY <1>1 DEF Open, Load, Stat, Goto, LoadInv, TypeOK
<1>3. \A q \in Procs \ {p} : pc'[q] = pc[q] /\ fd'[q] = fd[q]
  BY <1>1, <1>2 DEF TypeOK
<1>4. TypeOK'
  BY <1>1, <1>2 DEF TypeOK
<1>5. pc'[p] \in {"stat", "open", "read"}
  BY <1>1 DEF TypeOK
<1>6. SaveInv'
  BY <1>1, <1>3, <1>5 DEF SaveInv
<1>7. LoadInv'
  <2>1. pc'[p] = "read" => fd'[p] \in Files /\ fd'[p] # dir["tmp"]
    BY <1>2 DEF NamesInv, TypeOK
  <2> QED
    BY <1>1, <1>2, <1>3, <1>5, <2>1 DEF LoadInv
<1>8. NoOrphan'
  BY <1>1, <1>3, <1>5 DEF NoOrphan
<1> QED
  BY <1>1, <1>4, <1>6, <1>7, <1>8 DEF NamesInv

\* A process that leaves path.tmp behind, or had none.
LEMMA CrashStep ==
  ASSUME IInv, NEW p \in Procs, Crash(p) \/ RemoveFails(p)
  PROVE  IInv'
<1> USE DEF IInv, Saving
<1>1. /\ \E r : Return(p, r)
      /\ UNCHANGED <<dir, content>>
      /\ orphaned' \in {TRUE, orphaned}
      /\ pc[p] \in Saving => orphaned'
  BY DEF Crash, RemoveFails, fsVars, TypeOK
<1>2. orphaned' \in BOOLEAN
  BY <1>1 DEF TypeOK
<1>3. TypeOK'
  BY <1>1, <1>2, ReturnFacts DEF TypeOK
<1>4. SaveInv'
  BY <1>1, ReturnFacts DEF SaveInv
<1>5. LoadInv'
  BY <1>1, ReturnFacts DEF LoadInv
<1>6. NoOrphan'
  <2>1. CASE orphaned'
    BY <2>1 DEF NoOrphan
  <2>2. CASE ~orphaned'
    <3>1. ~orphaned /\ pc[p] \notin Saving /\ dir' = dir
      <4>1. orphaned => orphaned'
        BY ZenonT(30) DEF Crash, RemoveFails
      <4>2. pc[p] \notin Saving /\ dir' = dir
        BY <1>1, <2>2
      <4> QED
        BY <2>2, <4>1, <4>2, Zenon
    <3>2. ASSUME dir["tmp"] # NoFile
          PROVE  \E q \in Procs : pc'[q] \in Saving
      <4>1. PICK q \in Procs : pc[q] \in Saving
        BY <3>1, <3>2 DEF NoOrphan
      <4>2. q # p
        BY <3>1, <4>1
      <4>3. pc'[q] = pc[q]
        BY <1>1, <4>2, ReturnFacts
      <4> QED
        BY <4>1, <4>3
    <3> QED
      BY <3>1, <3>2 DEF NoOrphan
  <2> QED
    BY <2>1, <2>2
<1> QED
  BY <1>1, <1>3, <1>4, <1>5, <1>6 DEF NamesInv

LEMMA TidyStep == IInv /\ Tidy => IInv'
<1> SUFFICES ASSUME IInv, Tidy
             PROVE  IInv'
  OBVIOUS
<1> USE DEF IInv, Saving
<1>1. TypeOK'
  BY DEF Tidy, TypeOK
<1>2. LoadInv'
  BY StoreAssumption DEF Tidy, LoadInv, TypeOK
<1> QED
  BY <1>1, <1>2 DEF Tidy, SaveInv, NamesInv, NoOrphan, TypeOK
-----------------------------------------------------------------------------
LEMMA StepIInv == IInv /\ [Next]_vars => IInv'
<1> SUFFICES ASSUME IInv, [Next]_vars
             PROVE  IInv'
  OBVIOUS
<1>1. ASSUME NEW p \in Procs, Step(p)
      PROVE  IInv'
  <2>1. CASE \E cf \in Params : Save(p, cf)
    BY <2>1, SaveStep
  <2>2. CASE Create(p)
    BY <2>2, CreateStep
  <2>3. CASE CreateFails(p) \/ Read(p) \/ LoadFails(p)
    <3>1. pc[p] \notin Saving /\ UNCHANGED <<dir, content, orphaned>>
      BY <2>3 DEF CreateFails, Read, LoadFails, Saving, fsVars
    <3>2. \E r : Return(p, r)
      BY <2>3 DEF CreateFails, Read, LoadFails
    <3> QED
      BY <3>1, <3>2, QuietReturns
  <2>4. CASE Write(p) \/ Written(p)
    BY <2>4, WriteStep
  <2>5. CASE WriteFails(p) \/ CloseTmp(p) \/ RenameFails(p)
    BY <2>5, GotoStep
  <2>6. CASE Rename(p) \/ Remove(p)
    BY <2>6, SaveReturns
  <2>7. CASE Load(p) \/ Stat(p) \/ Open(p)
    BY <2>7, LoadStep
  <2>8. CASE Crash(p) \/ RemoveFails(p)
    BY <2>8, CrashStep
  <2> QED
    BY <1>1, <2>1, <2>2, <2>3, <2>4, <2>5, <2>6, <2>7, <2>8 DEF Step
<1>2. CASE Tidy
  BY <1>2, TidyStep
<1>3. CASE UNCHANGED vars
  BY <1>3 DEF vars, fsVars, IInv, TypeOK, SaveInv, LoadInv, NamesInv, NoOrphan
<1> QED
  BY <1>1, <1>2, <1>3 DEF Next

\* The invariant holds whatever the processes call, and wherever they die.
THEOREM Invariance == Spec => []IInv
<1> QED
  BY InitIInv, StepIInv, PTL DEF Spec

\* Names, files and calls have their types.
THEOREM TypeCorrect == Spec => []TypeOK
<1>1. IInv => TypeOK
  BY DEF IInv
<1> QED
  BY <1>1, Invariance, PTL

\* config.go:119, 132: no Save writes to, renames or removes the path.tmp of another.
THEOREM TmpIsOwnHolds == Spec => []TmpIsOwn
<1>1. IInv => TmpIsOwn
  BY DEF IInv, SaveInv, TmpIsOwn
<1> QED
  BY <1>1, Invariance, PTL

\* config.go:123-135: every failure that Save reports has removed its path.tmp, unless
\* os.Remove failed as well.
THEOREM NoOrphanHolds == Spec => []NoOrphan
<1>1. IInv => NoOrphan
  BY DEF IInv
<1> QED
  BY <1>1, Invariance, PTL
-----------------------------------------------------------------------------
(* Save and Load implement the register.                                    *)

\* What a Load accepts is the same on both levels.
LEMMA AcceptedFacts ==
  ASSUME NEW c \in Content
  PROVE  /\ c # Nothing
         /\ Acceptable(c) <=> c \in {d \in {Conf(cf) : cf \in Known} : Acceptable(d)}
BY DEF Content, Acceptable, Conf, EmptyFile, Partial, Directory, Nothing

LEMMA InitRegister == Init => Register!Init
<1> SUFFICES ASSUME Init
             PROVE  Register!Init
  OBVIOUS
<1>1. PICK c \in {EmptyFile, Partial, Directory} \cup {Conf(cf) : cf \in Params} :
        content = [f \in Files |-> IF f = dir["conf"] THEN c ELSE EmptyFile]
  BY DEF Init
<1>2. conf \in {EmptyFile, Partial, Directory, Absent} \cup {Conf(cf) : cf \in Params}
  BY <1>1, StoreAssumption DEF Init, conf
<1> QED
  BY <1>2 DEF Init, Register!Init, Register!Nothing, Nothing, op, got

\* A return on both levels.
LEMMA ReturnRegister ==
  ASSUME IInv, NEW p \in Procs, NEW r, Return(p, r), content' = content
  PROVE  Register!Return(p, r)
<1>1. op' = [op EXCEPT ![p] = "none"]
  BY DEF Return, Goto, op, IInv, TypeOK
<1>2. got' = [got EXCEPT ![p] = Nothing]
  BY DEF Return, Goto, got, IInv, TypeOK
<1> QED
  BY <1>1, <1>2 DEF Return, Register!Return, Register!Nothing, Nothing, op, got

\* What the other processes do not see: the settings file is the same file as before, with
\* the same content, and nobody reads what is written.
LEMMA QuietRegister ==
  ASSUME IInv, IInv', dir'["conf"] = dir["conf"],
         dir["conf"] # NoFile => content'[dir["conf"]] = content[dir["conf"]],
         \A q \in Procs : pc[q] = "read" /\ pc'[q] = "read" =>
                            fd'[q] = fd[q] /\ content'[fd[q]] = content[fd[q]],
         \A q \in Procs : pc[q] = "read" <=> pc'[q] = "read",
         UNCHANGED <<op, arg, last>>
  PROVE  UNCHANGED Register!vars
<1>1. conf' = conf
  BY DEF conf
<1>2. got' = got
  BY DEF got
<1> QED
  BY <1>1, <1>2 DEF Register!vars

LEMMA StepRegister == IInv /\ IInv' /\ [Next]_vars => [Register!Next]_Register!vars
<1> SUFFICES ASSUME IInv, IInv', [Next]_vars
             PROVE  [Register!Next]_Register!vars
  OBVIOUS
<1>1. ASSUME NEW p \in Procs, NEW cf \in Params, Save(p, cf)
      PROVE  Register!BeginSave(p)
  <2>1. op' = [op EXCEPT ![p] = "save"] /\ op[p] = "none"
    BY <1>1 DEF Save, Goto, op, IInv, TypeOK
  <2>2. conf' = conf /\ got' = got
    BY <1>1 DEF Save, Goto, fsVars, conf, got, IInv, TypeOK
  <2> QED
    BY <1>1, <2>1, <2>2 DEF Save, Register!BeginSave
<1>2. ASSUME NEW p \in Procs, Create(p)
      PROVE  UNCHANGED Register!vars
  <2>1. PICK f \in Fresh :
          /\ dir' = [dir EXCEPT !["tmp"] = f]
          /\ content' = [content EXCEPT ![f] = EmptyFile]
          /\ fd' = [fd EXCEPT ![p] = f]
    BY <1>2 DEF Create
  <2>2. f # dir["conf"] /\ \A q \in Procs : fd[q] # f
    BY <2>1 DEF Fresh, Held
  <2>3. pc[p] = "create" /\ pc' = [pc EXCEPT ![p] = "write"] /\ UNCHANGED <<arg, last>>
    BY <1>2 DEF Create, Goto
  <2>4. op' = op
    BY <2>3 DEF op, IInv, TypeOK
  <2> QED
    BY <2>1, <2>2, <2>3, <2>4, QuietRegister DEF IInv, TypeOK
<1>3. ASSUME NEW p \in Procs, Write(p) \/ Written(p)
      PROVE  UNCHANGED Register!vars
  <2>1. /\ \E c : content' = [content EXCEPT ![fd[p]] = c]
        /\ pc[p] \in {"write", "writing"}
        /\ \E l \in {"writing", "close"} : pc' = [pc EXCEPT ![p] = l]
        /\ UNCHANGED <<dir, arg, fd, last>>
    BY <1>3 DEF Write, Written, Goto
  <2>2. fd[p] = dir["tmp"] /\ fd[p] \in Files
    BY <2>1 DEF IInv, SaveInv, Saving
  <2>3. fd[p] # dir["conf"] /\ \A q \in Procs : pc[q] = "read" => fd[q] # fd[p]
    BY <2>2, StoreAssumption DEF IInv, NamesInv, LoadInv
  <2>4. op' = op
    BY <2>1 DEF op, IInv, TypeOK
  <2> QED
    BY <2>1, <2>3, <2>4, QuietRegister DEF IInv, TypeOK
<1>4. ASSUME NEW p \in Procs, WriteFails(p) \/ CloseTmp(p) \/ RenameFails(p)
      PROVE  UNCHANGED Register!vars
  <2>1. /\ pc[p] \in {"write", "writing", "close", "rename"}
        /\ \E l \in {"rename", "remove"} : pc' = [pc EXCEPT ![p] = l]
        /\ UNCHANGED <<dir, content, arg, fd, last>>
    BY <1>4 DEF WriteFails, CloseTmp, RenameFails, Goto, fsVars
  <2>2. op' = op
    BY <2>1 DEF op, IInv, TypeOK
  <2> QED
    BY <2>1, <2>2, QuietRegister DEF IInv, TypeOK
<1>5. ASSUME NEW p \in Procs, Rename(p)
      PROVE  Register!Save(p)
  <2>1. dir["tmp"] = fd[p] /\ content[fd[p]] = arg[p] /\ fd[p] # NoFile
    BY <1>5, StoreAssumption DEF Rename, IInv, SaveInv, Saving
  <2>2. conf' = arg[p]
    BY <1>5, <2>1 DEF Rename, conf
  <2>3. op[p] = "save"
    BY <1>5 DEF Rename, op
  <2>4. Register!Return(p, [kind |-> "saved"])
    BY <1>5, ReturnRegister DEF Rename
  <2> QED
    BY <2>2, <2>3, <2>4 DEF Register!Save
<1>6. ASSUME NEW p \in Procs, CreateFails(p) \/ Remove(p) \/ RemoveFails(p)
      PROVE  Register!SaveFails(p)
  <2>1. Return(p, [kind |-> "error"]) /\ content' = content /\ dir'["conf"] = dir["conf"]
    BY <1>6 DEF CreateFails, Remove, RemoveFails, fsVars, IInv, TypeOK
  <2>2. op[p] = "save" /\ conf' = conf
    BY <1>6, <2>1 DEF CreateFails, Remove, RemoveFails, op, conf
  <2> QED
    BY <2>1, <2>2, ReturnRegister DEF Register!SaveFails
<1>7. ASSUME NEW p \in Procs, Load(p)
      PROVE  Register!BeginLoad(p)
  <2>1. op' = [op EXCEPT ![p] = "load"] /\ op[p] = "none"
    BY <1>7 DEF Load, Goto, op, IInv, TypeOK
  <2>2. conf' = conf /\ got' = got
    BY <1>7 DEF Load, Goto, fsVars, conf, got, IInv, TypeOK
  <2> QED
    BY <1>7, <2>1, <2>2 DEF Load, Register!BeginLoad
<1>8. ASSUME NEW p \in Procs, Stat(p)
      PROVE  UNCHANGED Register!vars
  <2>1. /\ pc[p] = "stat" /\ pc' = [pc EXCEPT ![p] = "open"]
        /\ UNCHANGED <<dir, content, arg, fd, last>>
    BY <1>8 DEF Stat, Goto, fsVars
  <2>2. op' = op
    BY <2>1 DEF op, IInv, TypeOK
  <2> QED
    BY <2>1, <2>2, QuietRegister DEF IInv, TypeOK
<1>9. ASSUME NEW p \in Procs, Open(p)
      PROVE  Register!Look(p)
  <2>1. dir["conf"] # NoFile /\ op[p] = "load" /\ got[p] = Nothing
    BY <1>9 DEF Open, IInv, LoadInv, op, got
  <2>2. op' = op /\ conf' = conf
    BY <1>9 DEF Open, Goto, fsVars, op, conf, IInv, TypeOK
  <2>3. got' = [got EXCEPT ![p] = conf]
    BY <1>9, <2>1 DEF Open, Goto, fsVars, got, conf, IInv, TypeOK
  <2> QED
    BY <1>9, <2>1, <2>2, <2>3 DEF Open, Register!Look, Register!Nothing, Nothing
<1>10. ASSUME NEW p \in Procs, Read(p)
       PROVE  Register!Load(p)
  <2> DEFINE c == content[fd[p]]
  <2>1. c \in Content /\ got[p] = c /\ op[p] = "load"
    BY <1>10 DEF Read, IInv, TypeOK, LoadInv, got, op
  <2>2. Return(p, [kind |-> IF Acceptable(c) THEN "loaded" ELSE "refused", of |-> c])
    BY <1>10 DEF Read
  <2>3. conf' = conf /\ content' = content
    BY <1>10 DEF Read, fsVars, conf
  <2> HIDE DEF c
  <2> QED
    BY <2>1, <2>2, <2>3, ReturnRegister, AcceptedFacts DEF Register!Load, Register!Nothing, Nothing
<1>11. ASSUME NEW p \in Procs, Crash(p)
       PROVE  Register!Crash(p)
  <2>1. Return(p, Nothing) /\ content' = content /\ dir' = dir
    BY <1>11 DEF Crash, fsVars
  <2>2. op[p] # "none" /\ conf' = conf
    BY <1>11, <2>1 DEF Crash, op, conf
  <2> QED
    BY <2>1, <2>2, ReturnRegister DEF Register!Crash, Register!Nothing, Nothing
<1>12. CASE Tidy
  <2>1. UNCHANGED <<content, pc, arg, fd, last>> /\ dir'["conf"] = dir["conf"]
    BY <1>12 DEF Tidy, IInv, TypeOK
  <2>2. op' = op
    BY <2>1 DEF op
  <2> QED
    BY <2>1, <2>2, QuietRegister
<1>13. ASSUME NEW p \in Procs, LoadFails(p)
       PROVE  Register!LoadFails(p)
  <2>1. Return(p, [kind |-> "error"]) /\ content' = content /\ dir' = dir /\ op[p] = "load"
    BY <1>13 DEF LoadFails, fsVars, op
  <2>2. conf' = conf
    BY <2>1 DEF conf
  <2> QED
    BY <2>1, <2>2, ReturnRegister DEF Register!LoadFails
<1>14. CASE UNCHANGED vars
  BY <1>14 DEF vars, fsVars, conf, op, got, Register!vars
<1> QED
  BY <1>1, <1>2, <1>3, <1>4, <1>5, <1>6, <1>7, <1>8, <1>9, <1>10, <1>11, <1>12, <1>13, <1>14
  DEF Next, Step, Register!Next

\* config.go:101: the settings file behaves as one register that a Save changes at one
\* instant, although it is written piece by piece and processes die.
THEOREM RegisterImplemented == Spec => IsRegister
<1> QED
  BY InitRegister, StepRegister, Invariance, PTL DEF Spec, IsRegister, Register!Spec
=============================================================================
