--------------------------- MODULE ConfigRegister ---------------------------
(***************************************************************************)
(* What Save and Load of core/config.go promise to processes that share a   *)
(* settings file, without names, temporary files or partial writes: the     *)
(* file is a register that each Save changes at one instant, or not at all, *)
(* and a Load judges the content of one instant between its call and its    *)
(* return.                                                                  *)
(***************************************************************************)
CONSTANTS
  Procs,
  Configs,      \* what Save may be given
  Contents,     \* what the file may hold
  Accepted      \* the contents Load accepts

VARIABLES
  conf,    \* content of the settings file
  op,      \* of each process: "none", "save" or "load"
  arg,     \* the configuration it saves
  got,     \* the content its Load judges, once it is fixed
  last     \* how its last call ended

vars == <<conf, op, arg, got, last>>

Nothing == [kind |-> "nothing"]

Init ==
  /\ conf \in Contents
  /\ op = [p \in Procs |-> "none"]
  /\ arg = [p \in Procs |-> Nothing]
  /\ got = [p \in Procs |-> Nothing]
  /\ last = [p \in Procs |-> Nothing]

Return(p, result) ==
  /\ op' = [op EXCEPT ![p] = "none"]
  /\ arg' = [arg EXCEPT ![p] = Nothing]
  /\ got' = [got EXCEPT ![p] = Nothing]
  /\ last' = [last EXCEPT ![p] = result]

BeginSave(p) ==
  /\ op[p] = "none"
  /\ op' = [op EXCEPT ![p] = "save"]
  /\ \E cf \in Configs : arg' = [arg EXCEPT ![p] = cf]
  /\ UNCHANGED <<conf, got, last>>

Save(p) ==
  /\ op[p] = "save"
  /\ conf' = arg[p]
  /\ Return(p, [kind |-> "saved"])

SaveFails(p) ==
  /\ op[p] = "save"
  /\ Return(p, [kind |-> "error"])
  /\ UNCHANGED conf

BeginLoad(p) ==
  /\ op[p] = "none"
  /\ op' = [op EXCEPT ![p] = "load"]
  /\ UNCHANGED <<conf, arg, got, last>>

Look(p) ==
  /\ op[p] = "load" /\ got[p] = Nothing
  /\ got' = [got EXCEPT ![p] = conf]
  /\ UNCHANGED <<conf, op, arg, last>>

Load(p) ==
  /\ op[p] = "load" /\ got[p] # Nothing
  /\ Return(p, [kind |-> IF got[p] \in Accepted THEN "loaded" ELSE "refused", of |-> got[p]])
  /\ UNCHANGED conf

LoadFails(p) ==
  /\ op[p] = "load"
  /\ Return(p, [kind |-> "error"])
  /\ UNCHANGED conf

Crash(p) ==
  /\ op[p] # "none"
  /\ Return(p, Nothing)
  /\ UNCHANGED conf

Next ==
  \E p \in Procs :
    \/ BeginSave(p) \/ Save(p) \/ SaveFails(p)
    \/ BeginLoad(p) \/ Look(p) \/ Load(p) \/ LoadFails(p)
    \/ Crash(p)

Spec == Init /\ [][Next]_vars
=============================================================================
