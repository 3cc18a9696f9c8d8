------------------------------ MODULE CLibrary ------------------------------
(***************************************************************************)
(* The C interface of embed/export.go and of its twin cmd/sealgo_c/main.go: *)
(* who owns the strings that cross it.  Go allocates them with C.CString    *)
(* and stores their addresses in a struct of the caller; only the caller    *)
(* frees them, through sealgo_free_result and sealgo_free_keypair.          *)
(*                                                                         *)
(* Callers are threads that keep to the rules of C: while a call runs,      *)
(* nobody else writes the struct it fills, and nobody frees or overwrites a *)
(* string it was given.  They may reuse a struct without freeing it, give a *)
(* result as an argument of the next call, into the same struct or another, *)
(* and free a struct any number of times.                                   *)
(***************************************************************************)
EXTENDS Naturals, FiniteSets, Sequences

CONSTANTS
  Threads,     \* threads of the C program
  Results,     \* its variables of type sealgo_result
  Keypairs,    \* its variables of type sealgo_keypair
  Blocks,      \* bound: blocks of the C heap
  MaxDropped,  \* bound: a struct is reused unfreed only while fewer strings were dropped
  Null

ASSUME CAssumption ==
  /\ Results \cap Keypairs = {}
  /\ Blocks \cap {Null, <<"plain">>} = {}

VARIABLES
  live,      \* the blocks that are allocated
  text,      \* what the string in a block says
  ptr,       \* the char* fields of the structs
  held,      \* strings the caller holds by an address of its own
  call,      \* for each thread the call it is in
  last,      \* history: what was last done with a struct
  dropped,   \* history: strings that were in a struct when it was reused
  bad        \* history: a block was read or freed that is not allocated

vars == <<live, text, ptr, held, call, last, dropped, bad>>
-----------------------------------------------------------------------------
(* Strings.  A text is hex, or a message that is not; a sealed text is what *)
(* was sealed and the key it was sealed for.                                *)

Keys == {<<"public">>, <<"private">>}
Plain == Keys \cup {<<>>, <<"plain">>}
Sealed == {<<"sealed", d, k>> : d \in Plain, k \in Keys}
Messages == {<<"error">>, <<"version">>, <<"description">>}
Text == Plain \cup Sealed \cup Messages

IsHex(d) == d \notin Messages

Structs == Results \cup Keypairs
Fields == (Results \X {"data", "error"}) \cup (Keypairs \X {"public_hex", "private_hex"})

\* The strings in the fields of the structs S.
StringsIn(S) == {ptr[f] : f \in {g \in Fields : g[1] \in S}} \ {Null}
Pointers(s) == StringsIn({s})

\* C.GoString: NULL is the empty string.
GoString(a) ==
  CASE a = Null     -> <<>>
    [] a \in Blocks -> text[a]
    [] OTHER        -> a

Running(t) == call[t].fn # "none"
Arguments == UNION {{call[t].in, call[t].key} : t \in {u \in Threads : Running(u)}}
BeingFilled(s) == \E t \in Threads : Running(t) /\ call[t].out = s

\* A freed block is allocated again only when no address of it is left, so that a
\* stale address never looks like a good one.
Unused == Blocks \ (live \cup Arguments \cup StringsIn(Structs))

Idle == [fn |-> "none", out |-> Null, in |-> Null, key |-> Null]

Init ==
  /\ live = {}
  /\ text = [b \in Blocks |-> <<>>]
  /\ ptr = [f \in Fields |-> Null]
  /\ held = {}
  /\ call = [t \in Threads |-> Idle]
  /\ last = [s \in Structs |-> "free"]
  /\ dropped = {}
  /\ bad = FALSE
-----------------------------------------------------------------------------
(* What a call answers: a text for each field it sets.                      *)

Nothing == [f \in {} |-> <<>>]
Data(d) == [data |-> d]
Error == [error |-> <<"error">>]

\* sealgo_encrypt; a key for a recipient is any 32 bytes in hex.
Encrypted(d, k) == IF IsHex(d) /\ k \in Keys THEN Data(<<"sealed", d, k>>) ELSE Error

\* sealgo_decrypt
Decrypted(d, k) ==
  IF d \in Sealed /\ k = <<"private">> /\ d[3] = <<"public">> THEN Data(d[2]) ELSE Error

\* sealgo_inspect
Inspected(d) == IF d \in Sealed THEN Data(<<"description">>) ELSE Error

\* The file functions answer with nothing or with an error; FileJobs says when.
FileDone(k) == IF k \in Keys THEN {Nothing, Error} ELSE {Error}

\* sealgo_generate_keypair has no way to report an error.
NewPair == {[public_hex |-> <<"public">>, private_hex |-> <<"private">>], Nothing}
-----------------------------------------------------------------------------
(* A call                                                                   *)

\* Mutant of Emptied: the second field is forgotten.
EmptiedFirst(s) == [f \in Fields |-> IF f[1] = s /\ f[2] \in {"data", "public_hex"} THEN Null ELSE ptr[f]]

Emptied(s) == [f \in Fields |-> IF f[1] = s THEN Null ELSE ptr[f]]

\* What a caller gives for data, and for keys: no field of a struct being filled.
Stored(S) == StringsIn({s \in S : ~BeingFilled(s)})
DataArgs == {Null, <<"plain">>} \cup held \cup Stored(Structs)
KeyArgs == {Null} \cup Stored(Keypairs)

\* What a free block contains is not said.
Free(bs) ==
  /\ live' = live \ bs
  /\ text' = [b \in Blocks |-> IF b \in bs THEN <<>> ELSE text[b]]
  /\ bad' = (bad \/ ~(bs \subseteq live))

\* Mutant of Enter: a struct that is used again is freed first.
EnterFrees(t, fn, s, in, key) ==
  /\ ~Running(t)
  /\ ~BeingFilled(s)
  /\ in \in DataArgs /\ key \in KeyArgs
  /\ fn = "encrypt" => GoString(in) \notin Sealed      \* bound: one layer
  /\ Pointers(s) # {} => Cardinality(dropped) < MaxDropped
  /\ call' = [call EXCEPT ![t] = [fn |-> fn, out |-> s, in |-> in, key |-> key]]
  /\ ptr' = Emptied(s)
  /\ UNCHANGED dropped
  /\ last' = [last EXCEPT ![s] = "call"]
  /\ Free(Pointers(s))
  /\ UNCHANGED held

\* Every call first sets the fields of its struct to NULL, whatever they hold.
Enter(t, fn, s, in, key) ==
  /\ ~Running(t)
  /\ ~BeingFilled(s)
  /\ in \in DataArgs /\ key \in KeyArgs
  /\ fn = "encrypt" => GoString(in) \notin Sealed      \* bound: one layer
  /\ Pointers(s) # {} => Cardinality(dropped) < MaxDropped
  /\ call' = [call EXCEPT ![t] = [fn |-> fn, out |-> s, in |-> in, key |-> key]]
  /\ ptr' = Emptied(s)
  /\ dropped' = dropped \cup Pointers(s)
  /\ last' = [last EXCEPT ![s] = "call"]
  /\ UNCHANGED <<live, text, held, bad>>

Calls == {"encrypt", "decrypt", "inspect"}
FileCalls == {"encrypt_file", "decrypt_file"}

AnswerOf(fn) == IF fn \in Calls THEN "data" ELSE IF fn \in FileCalls THEN "file" ELSE "pair"

\* C.CString for each text of the answer, and its address into the struct.
Return(t, answer) ==
  LET s == call[t].out
      set == DOMAIN answer
  IN  \E new \in [set -> Unused] :
        /\ \A f, g \in set : new[f] = new[g] => f = g
        /\ live' = live \cup {new[f] : f \in set}
        /\ text' = [b \in Blocks |-> IF \E f \in set : new[f] = b
                                     THEN answer[CHOOSE f \in set : new[f] = b] ELSE text[b]]
        /\ ptr' = [f \in Fields |-> IF f[1] = s /\ f[2] \in set THEN new[f[2]] ELSE ptr[f]]
        /\ bad' = (bad \/ \E a \in {call[t].in, call[t].key} : a \in Blocks \ live)
        /\ last' = [last EXCEPT ![s] = AnswerOf(call[t].fn)]
        /\ call' = [call EXCEPT ![t] = Idle]
        /\ UNCHANGED <<held, dropped>>

In(t) == GoString(call[t].in)
Key(t) == GoString(call[t].key)

Encrypt(t) == call[t].fn = "encrypt" /\ Return(t, Encrypted(In(t), Key(t)))
Decrypt(t) == call[t].fn = "decrypt" /\ Return(t, Decrypted(In(t), Key(t)))
Inspect(t) == call[t].fn = "inspect" /\ Return(t, Inspected(In(t)))
EncryptFile(t) == call[t].fn = "encrypt_file" /\ \E a \in FileDone(Key(t)) : Return(t, a)
DecryptFile(t) == call[t].fn = "decrypt_file" /\ \E a \in FileDone(Key(t)) : Return(t, a)
GenerateKeypair(t) == call[t].fn = "generate_keypair" /\ \E a \in NewPair : Return(t, a)
-----------------------------------------------------------------------------
(* Calls that give strings back, and what the caller does with its own       *)

\* Nobody frees a struct that is being filled, nor the argument of a running call.
MayFree(s) == s \in Structs /\ ~BeingFilled(s) /\ Pointers(s) \cap Arguments = {}

\* Mutant of FreeResult: the pointers stay.
FreeResultStale(s) ==
  /\ s \in Results /\ MayFree(s)
  /\ Free(Pointers(s))
  /\ last' = [last EXCEPT ![s] = "free"]
  /\ UNCHANGED <<ptr, held, call, dropped>>

\* Mutant of FreeResult: only the first string that is there.
FreeResultData(s) ==
  /\ s \in Results /\ MayFree(s)
  /\ Free({ptr[<<s, "data">>]} \ {Null})
  /\ ptr' = Emptied(s)
  /\ last' = [last EXCEPT ![s] = "free"]
  /\ UNCHANGED <<held, call, dropped>>

FreeResult(s) ==
  /\ s \in Results /\ MayFree(s)
  /\ Free(Pointers(s))
  /\ ptr' = Emptied(s)
  /\ last' = [last EXCEPT ![s] = "free"]
  /\ UNCHANGED <<held, call, dropped>>

FreeKeypair(s) ==
  /\ s \in Keypairs /\ MayFree(s)
  /\ Free(Pointers(s))
  /\ ptr' = Emptied(s)
  /\ last' = [last EXCEPT ![s] = "free"]
  /\ UNCHANGED <<held, call, dropped>>

\* The caller of sealgo_version_string owns the string it returns.
VersionString ==
  \E b \in Unused :
    /\ live' = live \cup {b}
    /\ held' = held \cup {b}
    /\ text' = [text EXCEPT ![b] = <<"version">>]
    /\ UNCHANGED <<ptr, call, last, dropped, bad>>

\* free() by the caller: the library has no function for such a string.
FreeString(b) ==
  /\ b \in held \ Arguments
  /\ Free({b})
  /\ held' = held \ {b}
  /\ UNCHANGED <<ptr, call, last, dropped>>

\* sealgo_wipe_bytes over a whole string leaves NULs: it reads as empty.
WipeBytes(b) ==
  /\ b \in (held \cup Stored(Structs)) \ Arguments
  /\ text' = [text EXCEPT ![b] = <<>>]
  /\ bad' = (bad \/ b \notin live)
  /\ UNCHANGED <<live, ptr, held, call, last, dropped>>
-----------------------------------------------------------------------------
Begin(t) ==
  \/ \E fn \in {"encrypt", "decrypt"}, s \in Results, in \in DataArgs, key \in KeyArgs : Enter(t, fn, s, in, key)
  \/ \E s \in Results, in \in DataArgs : Enter(t, "inspect", s, in, Null)
  \/ \E fn \in FileCalls, s \in Results, key \in KeyArgs : Enter(t, fn, s, Null, key)
  \/ \E s \in Keypairs : Enter(t, "generate_keypair", s, Null, Null)

Finish(t) ==
  \/ Encrypt(t) \/ Decrypt(t) \/ Inspect(t)
  \/ EncryptFile(t) \/ DecryptFile(t)
  \/ GenerateKeypair(t)

Next ==
  \/ \E t \in Threads : Begin(t) \/ Finish(t)
  \/ \E s \in Structs : FreeResult(s) \/ FreeKeypair(s)
  \/ VersionString
  \/ \E b \in Blocks : FreeString(b) \/ WipeBytes(b)

Spec == Init /\ [][Next]_vars
-----------------------------------------------------------------------------
TypeOK ==
  /\ live \subseteq Blocks
  /\ text \in [Blocks -> Text]
  /\ ptr \in [Fields -> live \cup {Null}]
  /\ held \subseteq live
  /\ call \in [Threads -> [fn : {"none", "generate_keypair"} \cup Calls \cup FileCalls,
                           out : Structs \cup {Null},
                           in : Blocks \cup {Null, <<"plain">>}, key : Blocks \cup {Null}]]
  /\ last \in [Structs -> {"free", "call", "data", "file", "pair"}]
  /\ \A s \in Keypairs : last[s] \notin {"data", "file"}
  /\ \A s \in Results : last[s] # "pair"
  /\ dropped \subseteq live
  /\ bad \in BOOLEAN

\* No string is freed twice, and none is read after it was freed, whatever structs
\* the caller reuses, frees again, or gives to the call that refills them.
NoBadAccess == ~bad

\* No string is lost: what is allocated is in a struct, with the caller, or was in
\* a struct that the caller gave to another call without freeing it.
NothingLost ==
  live \subseteq held \cup dropped \cup StringsIn(Structs)

\* A struct that no call is filling says what the last call on it did and nothing
\* older: a buffer function leaves data or an error and never both or none, a file
\* function never data, a keypair is whole or absent, a freed struct is empty.
Settled(s) ==
  LET at(f) == ptr[<<s, f>>] # Null
  IN  /\ last[s] = "data" => at("data") # at("error")
      /\ last[s] = "file" => ~at("data")
      /\ last[s] = "pair" => at("public_hex") = at("private_hex")
      /\ last[s] \in {"call", "free"} => Pointers(s) = {}

SettledStructs == \A s \in Structs : Settled(s)
-----------------------------------------------------------------------------
(* The inductive invariant behind them.                                     *)

\* Every string has one owner.
OwnedOnce ==
  /\ \A f, g \in Fields : ptr[f] # Null /\ ptr[f] = ptr[g] => f = g
  /\ \A f \in Fields : ptr[f] \notin held \cup dropped
  /\ held \cap dropped = {}

\* Running calls fill different structs, whose fields are empty, and their
\* arguments are there to be read, and stay what they were.
CallsInv ==
  /\ \A t \in Threads : Running(t) =>
       /\ call[t].out \in IF call[t].fn = "generate_keypair" THEN Keypairs ELSE Results
       /\ last[call[t].out] = "call"
       /\ call[t].fn = "encrypt" => In(t) \notin Sealed
       /\ \A u \in Threads : Running(u) /\ call[u].out = call[t].out => u = t
  /\ Arguments \cap Blocks \subseteq live

IInv ==
  /\ TypeOK
  /\ NoBadAccess
  /\ NothingLost
  /\ SettledStructs
  /\ OwnedOnce
  /\ CallsInv
=============================================================================
