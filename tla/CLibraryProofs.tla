---------------------------- MODULE CLibraryProofs ----------------------------
(***************************************************************************)
(* CLibrary for every number of threads, structs and blocks, and however    *)
(* often structs are reused without being freed.                            *)
(***************************************************************************)
EXTENDS CLibrary, TLAPS

\* StringsIn by its members.
LEMMA StringsInFacts ==
  ASSUME NEW S
  PROVE  /\ \A b : b \in StringsIn(S) <=> b # Null /\ \E f \in Fields : f[1] \in S /\ ptr[f] = b
         /\ \A b : b \in StringsIn(S)' <=> b # Null /\ \E f \in Fields : f[1] \in S /\ ptr'[f] = b
BY DEF StringsIn

LEMMA FieldFacts ==
  /\ \A f \in Fields : f[1] \in Structs
  /\ \A f, g \in Fields : f[1] = g[1] /\ f[2] = g[2] => f = g
  /\ \A s \in Results : <<s, "data">> \in Fields /\ <<s, "error">> \in Fields
  /\ \A s \in Keypairs : <<s, "public_hex">> \in Fields /\ <<s, "private_hex">> \in Fields
BY DEF Fields, Structs

\* The strings of a struct belong to it alone.
LEMMA PointerFacts ==
  ASSUME TypeOK, OwnedOnce, NEW s \in Structs
  PROVE  /\ Pointers(s) \subseteq live
         /\ \A f \in Fields : ptr[f] \in Pointers(s) <=> f[1] = s /\ ptr[f] # Null
         /\ Pointers(s) \cap (held \cup dropped) = {}
<1>1. \A b : b \in Pointers(s) <=> b # Null /\ \E f \in Fields : f[1] = s /\ ptr[f] = b
  BY StringsInFacts DEF Pointers
<1>2. \A f \in Fields : ptr[f] \in live \cup {Null}
  BY DEF TypeOK
<1> QED
  BY <1>1, <1>2 DEF OwnedOnce

LEMMA EmptiedFacts ==
  ASSUME TypeOK, NEW s \in Structs
  PROVE  /\ Emptied(s) \in [Fields -> live \cup {Null}]
         /\ \A f \in Fields : /\ f[1] = s => Emptied(s)[f] = Null
                              /\ f[1] # s => Emptied(s)[f] = ptr[f]
BY DEF TypeOK, Emptied

\* A struct keeps what it says as long as its fields do.
LEMMA SettledKept ==
  ASSUME TypeOK, SettledStructs, NEW s \in Structs,
         last'[s] = last[s],
         \A f \in Fields : f[1] = s => ptr'[f] = ptr[f]
  PROVE  Settled(s)'
<1>0. /\ last[s] \in {"free", "call", "data", "file", "pair"}
      /\ s \in Keypairs \/ last[s] # "pair"
      /\ s \in Results \/ last[s] \notin {"data", "file"}
  BY DEF TypeOK, Structs
<1> USE DEF Settled
<1>1. CASE last[s] = "data"
  <2>1. s \in Results
    BY <1>0, <1>1
  <2> QED
    BY <1>1, <2>1, FieldFacts DEF SettledStructs
<1>2. CASE last[s] = "file"
  <2>1. s \in Results
    BY <1>0, <1>2
  <2> QED
    BY <1>2, <2>1, FieldFacts DEF SettledStructs
<1>3. CASE last[s] = "pair"
  <2>1. s \in Keypairs
    BY <1>0, <1>3
  <2> QED
    BY <1>3, <2>1, FieldFacts DEF SettledStructs
<1>4. CASE last[s] \in {"call", "free"}
  <2>1. Pointers(s) = {}
    BY <1>4 DEF SettledStructs
  <2>2. Pointers(s)' = {}
    BY <2>1, StringsInFacts DEF Pointers
  <2> QED
    BY <1>4, <2>2
<1> QED
  BY <1>0, <1>1, <1>2, <1>3, <1>4

LEMMA InitIInv == Init => IInv
<1> SUFFICES ASSUME Init
             PROVE  IInv
  OBVIOUS
<1>1. TypeOK
  <2>1. text \in [Blocks -> Text]
    BY DEF Init, Text, Plain
  <2>2. call \in [Threads -> [fn : {"none", "generate_keypair"} \cup Calls \cup FileCalls,
                             out : Structs \cup {Null}, in : Blocks \cup {Null, <<"plain">>},
                             key : Blocks \cup {Null}]]
    BY DEF Init, Idle
  <2> QED
    BY <2>1, <2>2 DEF Init, TypeOK, Structs
<1>2. \A s \in Structs : Pointers(s) = {}
  BY DEF Init, Pointers, StringsIn
<1>3. SettledStructs
  BY <1>2 DEF Init, SettledStructs, Settled
<1>4. \A t \in Threads : ~Running(t)
  BY DEF Init, Running, Idle
<1>5. CallsInv
  BY <1>4 DEF CallsInv, Arguments
<1> QED
  BY <1>1, <1>3, <1>5 DEF Init, IInv, NoBadAccess, NothingLost, OwnedOnce
-----------------------------------------------------------------------------
(* The calls.                                                               *)

\* The arguments of the calls that run after t has entered one or left it.
LEMMA ArgumentsFacts ==
  ASSUME NEW t \in Threads, NEW c, TypeOK,
         call' = [call EXCEPT ![t] = c]
  PROVE  Arguments' \subseteq Arguments \cup {c.in, c.key}
<1>1. \A u \in Threads : call'[u] = IF u = t THEN c ELSE call[u]
  BY DEF TypeOK
<1>2. ASSUME NEW a \in Arguments'
      PROVE  a \in Arguments \cup {c.in, c.key}
  <2>1. PICK u \in Threads : Running(u)' /\ a \in {call'[u].in, call'[u].key}
    BY <1>2 DEF Arguments
  <2>2. CASE u = t
    BY <1>1, <2>1, <2>2
  <2>3. CASE u # t
    BY <1>1, <2>1, <2>3 DEF Arguments, Running
  <2> QED
    BY <2>2, <2>3
<1> QED
  BY <1>2


\* What a caller may pass is there to be read, and of the right type.
LEMMA ArgsFacts ==
  ASSUME TypeOK
  PROVE  /\ DataArgs \subseteq live \cup {Null, <<"plain">>}
         /\ KeyArgs \subseteq live \cup {Null}
<1>1. \A S : StringsIn(S) \subseteq live
  BY StringsInFacts DEF TypeOK
<1> QED
  BY <1>1 DEF DataArgs, KeyArgs, Stored, TypeOK

\* Every call first empties its struct; what was in it is dropped.
LEMMA EnterStep ==
  ASSUME IInv, NEW t \in Threads, NEW fn \in {"generate_keypair"} \cup Calls \cup FileCalls,
         NEW s \in IF fn = "generate_keypair" THEN Keypairs ELSE Results,
         NEW in, NEW key, Enter(t, fn, s, in, key)
  PROVE  IInv'
<1> DEFINE c == [fn |-> fn, out |-> s, in |-> in, key |-> key]
<1>1. /\ TypeOK /\ OwnedOnce /\ CallsInv /\ NothingLost /\ SettledStructs /\ NoBadAccess
      /\ s \in Structs
  BY DEF IInv, Structs
<1>2. /\ ~Running(t) /\ ~BeingFilled(s)
      /\ in \in DataArgs /\ key \in KeyArgs
      /\ call' = [call EXCEPT ![t] = c]
      /\ ptr' = Emptied(s)
      /\ dropped' = dropped \cup Pointers(s)
      /\ last' = [last EXCEPT ![s] = "call"]
      /\ UNCHANGED <<live, text, held, bad>>
  BY DEF Enter
<1>3. in \in live \cup {Null, <<"plain">>} /\ key \in live \cup {Null}
  BY <1>1, <1>2, ArgsFacts
<1>4. Pointers(s)' = {}
  <2>1. \A f \in Fields : f[1] = s => ptr'[f] = Null
    BY <1>1, <1>2, EmptiedFacts
  <2> QED
    BY <2>1, StringsInFacts DEF Pointers
<1>5. TypeOK'
  <2>1. c \in [fn : {"none", "generate_keypair"} \cup Calls \cup FileCalls,
               out : Structs \cup {Null}, in : Blocks \cup {Null, <<"plain">>},
               key : Blocks \cup {Null}]
    BY <1>1, <1>3 DEF TypeOK
  <2>2. call' \in [Threads -> [fn : {"none", "generate_keypair"} \cup Calls \cup FileCalls,
               out : Structs \cup {Null}, in : Blocks \cup {Null, <<"plain">>},
               key : Blocks \cup {Null}]]
    BY <1>1, <1>2, <2>1 DEF TypeOK
  <2>3. ptr' \in [Fields -> live' \cup {Null}]
    BY <1>1, <1>2, EmptiedFacts
  <2>4. dropped' \subseteq live'
    BY <1>1, <1>2, PointerFacts DEF TypeOK
  <2>5. /\ last' \in [Structs -> {"free", "call", "data", "file", "pair"}]
        /\ \A z \in Keypairs : last'[z] \notin {"data", "file"}
        /\ \A z \in Results : last'[z] # "pair"
    BY <1>1, <1>2 DEF TypeOK, Structs
  <2> QED
    BY <1>1, <1>2, <2>2, <2>3, <2>4, <2>5 DEF TypeOK
<1>6. NothingLost'
  <2>1. ASSUME NEW f \in Fields, ptr[f] # Null
        PROVE  ptr[f] \in dropped' \cup StringsIn(Structs)'
    <3>1. CASE f[1] = s
      BY <1>1, <1>2, <2>1, <3>1, PointerFacts
    <3>2. CASE f[1] # s
      <4>1. ptr'[f] = ptr[f]
        BY <1>1, <1>2, <3>2, EmptiedFacts
      <4> QED
        BY <2>1, <4>1, FieldFacts, StringsInFacts
    <3> QED
      BY <3>1, <3>2
  <2>2. StringsIn(Structs) \subseteq dropped' \cup StringsIn(Structs)'
    BY <2>1, StringsInFacts
  <2> QED
    BY <1>1, <1>2, <2>2 DEF NothingLost
<1>7. SettledStructs'
  <2>1. ASSUME NEW z \in Structs
        PROVE  Settled(z)'
    <3>1. CASE z = s
      <4>1. last'[s] = "call"
        BY <1>1, <1>2 DEF TypeOK
      <4> QED
        BY <1>4, <3>1, <4>1 DEF Settled
    <3>2. CASE z # s
      <4>1. last'[z] = last[z]
        BY <1>1, <1>2, <3>2 DEF TypeOK
      <4>2. \A f \in Fields : f[1] = z => ptr'[f] = ptr[f]
        BY <1>1, <1>2, <3>2, EmptiedFacts
      <4> QED
        BY <1>1, <4>1, <4>2, SettledKept
    <3> QED
      BY <3>1, <3>2
  <2> QED
    BY <2>1 DEF SettledStructs
<1>8. OwnedOnce'
  <2>1. \A f \in Fields : ptr'[f] = Null \/ (f[1] # s /\ ptr'[f] = ptr[f] /\ ptr[f] \notin Pointers(s))
    BY <1>1, <1>2, EmptiedFacts, PointerFacts
  <2>2. Null \notin live
    BY <1>1, CAssumption DEF TypeOK
  <2>3. held' \cap dropped' = {}
    BY <1>1, <1>2, PointerFacts DEF OwnedOnce
  <2>4. \A f \in Fields : ptr'[f] \notin held' \cup dropped'
    BY <1>1, <1>2, <2>1, <2>2, PointerFacts DEF OwnedOnce, TypeOK
  <2>5. \A f, g \in Fields : ptr'[f] # Null /\ ptr'[f] = ptr'[g] => f = g
    BY <1>1, <2>1 DEF OwnedOnce
  <2> QED
    BY <2>3, <2>4, <2>5 DEF OwnedOnce
<1>9. CallsInv'
  <2>1. Arguments' \subseteq Arguments \cup {in, key}
    <3>1. Arguments' \subseteq Arguments \cup {c.in, c.key}
      BY <1>1, <1>2, ArgumentsFacts
    <3> QED
      BY <3>1
  <2>2. Arguments' \cap Blocks \subseteq live'
    BY <1>1, <1>2, <1>3, <2>1, CAssumption DEF CallsInv, TypeOK
  <2>3. call'[t] = c /\ \A u \in Threads \ {t} : call'[u] = call[u]
    BY <1>1, <1>2 DEF TypeOK
  <2>4. ASSUME NEW u \in Threads, Running(u)', u # t
        PROVE  /\ call'[u].out \in IF call'[u].fn = "generate_keypair" THEN Keypairs ELSE Results
               /\ last'[call'[u].out] = "call"
               /\ call'[u].fn = "encrypt" => In(u)' \notin Sealed
               /\ call'[u].out # s
    <3>1. Running(u)
      BY <2>3, <2>4 DEF Running
    <3>2. call[u].out # s
      BY <1>2, <3>1 DEF BeingFilled
    <3>3. /\ call[u].out \in IF call[u].fn = "generate_keypair" THEN Keypairs ELSE Results
          /\ last[call[u].out] = "call"
          /\ call[u].fn = "encrypt" => In(u) \notin Sealed
      BY <1>1, <3>1 DEF CallsInv
    <3>4. In(u)' = In(u)
      BY <1>2, <2>3, <2>4 DEF In, GoString
    <3> QED
      BY <1>1, <1>2, <2>3, <2>4, <3>2, <3>3, <3>4 DEF TypeOK, Structs
  <2>5. ASSUME NEW u \in Threads, NEW v \in Threads, Running(u)', Running(v)',
               call'[u].out = call'[v].out
        PROVE  u = v
    <3>1. CASE u = t \/ v = t
      BY <2>3, <2>4, <2>5, <3>1
    <3>2. CASE u # t /\ v # t
      <4>1. Running(u) /\ Running(v) /\ call[u].out = call[v].out
        BY <2>3, <2>5, <3>2 DEF Running
      <4> QED
        BY <1>1, <4>1 DEF CallsInv
    <3> QED
      BY <3>1, <3>2
  <2>6. /\ call'[t].out \in IF call'[t].fn = "generate_keypair" THEN Keypairs ELSE Results
        /\ last'[call'[t].out] = "call"
        /\ call'[t].fn = "encrypt" => In(t)' \notin Sealed
    <3>1. fn = "encrypt" => GoString(in) \notin Sealed
      BY DEF Enter
    <3>2. In(t)' = GoString(in)
      BY <1>2, <2>3 DEF In, GoString
    <3> QED
      BY <1>1, <1>2, <2>3, <3>1, <3>2 DEF TypeOK
  <2>7. \A u \in Threads : Running(u)' =>
          /\ call'[u].out \in IF call'[u].fn = "generate_keypair" THEN Keypairs ELSE Results
          /\ last'[call'[u].out] = "call"
          /\ call'[u].fn = "encrypt" => In(u)' \notin Sealed
    BY <2>4, <2>6
  <2> QED
    BY <2>2, <2>5, <2>7 DEF CallsInv
<1> QED
  BY <1>1, <1>2, <1>5, <1>6, <1>7, <1>8, <1>9 DEF IInv, NoBadAccess

\* What a call may answer: texts, for the fields that go together.
LEMMA AnswerFacts ==
  /\ \A d \in Text \ Sealed, k \in Text : Encrypted(d, k) \in [{"data"} -> Text] \cup [{"error"} -> Text]
  /\ \A d \in Text, k \in Text : Decrypted(d, k) \in [{"data"} -> Text] \cup [{"error"} -> Text]
  /\ \A d \in Text : Inspected(d) \in [{"data"} -> Text] \cup [{"error"} -> Text]
  /\ \A k : FileDone(k) \subseteq [{} -> Text] \cup [{"error"} -> Text]
  /\ NewPair \subseteq [{} -> Text] \cup [{"public_hex", "private_hex"} -> Text]
<1>1. \A d \in Text : Data(d) \in [{"data"} -> Text]
  BY DEF Data
<1>2. Error \in [{"error"} -> Text]
  BY DEF Error, Text, Messages
<1>3. Nothing \in [{} -> Text]
  BY DEF Nothing
<1>4. ASSUME NEW d \in Text \ Sealed, NEW k \in Text
      PROVE  Encrypted(d, k) \in [{"data"} -> Text] \cup [{"error"} -> Text]
  <2>1. CASE IsHex(d) /\ k \in Keys
    <3>1. d \in Plain
      BY <2>1 DEF IsHex, Text
    <3>2. <<"sealed", d, k>> \in Text
      BY <2>1, <3>1 DEF Sealed, Text
    <3> QED
      BY <1>1, <2>1, <3>2 DEF Encrypted
  <2> QED
    BY <1>2, <2>1 DEF Encrypted
<1>5. ASSUME NEW d \in Text, NEW k \in Text
      PROVE  Decrypted(d, k) \in [{"data"} -> Text] \cup [{"error"} -> Text]
  <2>1. CASE d \in Sealed
    <3>1. d[2] \in Text
      BY <2>1 DEF Sealed, Text
    <3> QED
      BY <1>1, <1>2, <3>1 DEF Decrypted
  <2> QED
    BY <1>2, <2>1 DEF Decrypted
<1>6. ASSUME NEW d \in Text
      PROVE  Inspected(d) \in [{"data"} -> Text] \cup [{"error"} -> Text]
  <2>1. <<"description">> \in Text
    BY DEF Text, Messages
  <2> QED
    BY <1>1, <1>2, <2>1 DEF Inspected
<1>7. \A k : FileDone(k) \subseteq [{} -> Text] \cup [{"error"} -> Text]
  BY <1>2, <1>3 DEF FileDone
<1>8. [public_hex |-> <<"public">>, private_hex |-> <<"private">>]
        \in [{"public_hex", "private_hex"} -> Text]
  <2>1. <<"public">> \in Text /\ <<"private">> \in Text
    BY DEF Text, Plain, Keys
  <2> QED
    BY <2>1
<1>9. NewPair \subseteq [{} -> Text] \cup [{"public_hex", "private_hex"} -> Text]
  BY <1>3, <1>8 DEF NewPair
<1> QED
  BY <1>4, <1>5, <1>6, <1>7, <1>9

\* Steps that begin no call keep the arguments of those that go on, and what they say.
LEMMA CallsKept ==
  ASSUME IInv,
         \A u \in Threads : Running(u)' => call'[u] = call[u],
         \A u \in Threads : Running(u)' => last'[call[u].out] = last[call[u].out],
         Arguments \cap Blocks \subseteq live',
         \A b \in Arguments \cap Blocks : text'[b] = text[b]
  PROVE  CallsInv'
<1>1. \A u \in Threads : Running(u)' => Running(u)
  BY DEF Running
<1>2. Arguments' \subseteq Arguments
  BY <1>1 DEF Arguments
<1>3. CallsInv
  BY DEF IInv
<1>4. ASSUME NEW u \in Threads, Running(u)'
      PROVE  /\ call'[u].out \in IF call'[u].fn = "generate_keypair" THEN Keypairs ELSE Results
             /\ last'[call'[u].out] = "call"
             /\ call'[u].fn = "encrypt" => In(u)' \notin Sealed
             /\ \A v \in Threads : Running(v)' /\ call'[v].out = call'[u].out => v = u
  <2>1. Running(u) /\ call'[u] = call[u]
    BY <1>1, <1>4
  <2>2. /\ call[u].out \in IF call[u].fn = "generate_keypair" THEN Keypairs ELSE Results
        /\ last[call[u].out] = "call"
        /\ call[u].fn = "encrypt" => In(u) \notin Sealed
    BY <1>3, <2>1 DEF CallsInv
  <2>3. \A v \in Threads : Running(v) /\ call[v].out = call[u].out => v = u
    BY <1>3, <2>1 DEF CallsInv
  <2>4. In(u)' = In(u)
    <3>1. call[u].in \in Arguments
      BY <2>1 DEF Arguments
    <3>2. call[u].in \in Blocks => text'[call[u].in] = text[call[u].in]
      BY <3>1
    <3> QED
      BY <2>1, <3>2 DEF In, GoString
  <2> QED
    BY <1>1, <1>4, <2>1, <2>2, <2>3, <2>4
<1> QED
  BY <1>2, <1>3, <1>4 DEF CallsInv

\* Giving a struct back: its strings are its own, and no call reads them.
LEMMA FreeStep ==
  ASSUME IInv, NEW s \in Structs, FreeResult(s) \/ FreeKeypair(s)
  PROVE  IInv'
<1>1. /\ TypeOK /\ OwnedOnce /\ NothingLost /\ SettledStructs /\ NoBadAccess /\ CallsInv
  BY DEF IInv
<1>2. /\ MayFree(s)
      /\ live' = live \ Pointers(s)
      /\ text' = [b \in Blocks |-> IF b \in Pointers(s) THEN <<>> ELSE text[b]]
      /\ bad' = (bad \/ ~(Pointers(s) \subseteq live))
      /\ ptr' = Emptied(s)
      /\ last' = [last EXCEPT ![s] = "free"]
      /\ UNCHANGED <<held, call, dropped>>
  BY DEF FreeResult, FreeKeypair, Free
<1>3. /\ Pointers(s) \subseteq live
      /\ \A f \in Fields : ptr[f] \in Pointers(s) <=> f[1] = s /\ ptr[f] # Null
      /\ Pointers(s) \cap (held \cup dropped) = {}
  BY <1>1, PointerFacts
<1>4. \A f \in Fields : /\ f[1] = s => ptr'[f] = Null
                        /\ f[1] # s => ptr'[f] = ptr[f]
  BY <1>1, <1>2, EmptiedFacts
<1>5. bad' = bad
  BY <1>1, <1>2, <1>3 DEF TypeOK
<1>6. TypeOK'
  <2>1. ptr' \in [Fields -> live' \cup {Null}]
    BY <1>1, <1>2, <1>3, <1>4 DEF TypeOK, Emptied
  <2>2. text' \in [Blocks -> Text]
    <3>1. <<>> \in Text
      BY DEF Text, Plain
    <3> QED
      BY <1>1, <1>2, <3>1 DEF TypeOK
  <2>3. live' \subseteq Blocks /\ held' \subseteq live' /\ dropped' \subseteq live'
    BY <1>1, <1>2, <1>3 DEF TypeOK
  <2>4. /\ last' \in [Structs -> {"free", "call", "data", "file", "pair"}]
        /\ \A z \in Keypairs : last'[z] \notin {"data", "file"}
        /\ \A z \in Results : last'[z] # "pair"
    BY <1>1, <1>2 DEF TypeOK, Structs
  <2> QED
    BY <1>1, <1>2, <1>5, <2>1, <2>2, <2>3, <2>4 DEF TypeOK
<1>7. NothingLost'
  <2>1. \A b : b \in StringsIn(Structs) <=> b # Null /\ \E f \in Fields : f[1] \in Structs /\ ptr[f] = b
    BY StringsInFacts
  <2>2. \A b : b \in StringsIn(Structs)' <=> b # Null /\ \E f \in Fields : f[1] \in Structs /\ ptr'[f] = b
    BY StringsInFacts
  <2>3. StringsIn(Structs) \subseteq Pointers(s) \cup StringsIn(Structs)'
    BY <1>3, <1>4, <2>1, <2>2
  <2> QED
    BY <1>1, <1>2, <2>3 DEF NothingLost
<1>8. SettledStructs'
  <2>1. ASSUME NEW z \in Structs
        PROVE  Settled(z)'
    <3>1. CASE z = s
      <4>1. last'[s] = "free"
        BY <1>1, <1>2 DEF TypeOK
      <4>2. Pointers(s)' = {}
        BY <1>4, StringsInFacts DEF Pointers
      <4> QED
        BY <3>1, <4>1, <4>2 DEF Settled
    <3>2. CASE z # s
      <4>1. last'[z] = last[z]
        BY <1>1, <1>2, <3>2 DEF TypeOK
      <4>2. \A f \in Fields : f[1] = z => ptr'[f] = ptr[f]
        BY <1>4, <3>2
      <4> QED
        BY <1>1, <4>1, <4>2, SettledKept
    <3> QED
      BY <3>1, <3>2
  <2> QED
    BY <2>1 DEF SettledStructs
<1>9. OwnedOnce'
  <2>1. Null \notin live
    BY <1>1, CAssumption DEF TypeOK
  <2>2. \A f \in Fields : ptr'[f] \notin held' \cup dropped'
    BY <1>1, <1>2, <1>4, <2>1 DEF OwnedOnce, TypeOK
  <2>3. \A f, g \in Fields : ptr'[f] # Null /\ ptr'[f] = ptr'[g] => f = g
    BY <1>1, <1>4 DEF OwnedOnce
  <2> QED
    BY <1>1, <1>2, <2>2, <2>3 DEF OwnedOnce
<1>10. CallsInv'
  <2>1. Pointers(s) \cap Arguments = {} /\ ~BeingFilled(s)
    BY <1>2 DEF MayFree
  <2>2. \A b \in Arguments \cap Blocks : b \in live' /\ text'[b] = text[b]
    BY <1>1, <1>2, <2>1 DEF CallsInv
  <2>3. \A u \in Threads : Running(u)' => Running(u) /\ call[u].out # s
    BY <1>2, <2>1 DEF Running, BeingFilled
  <2>4. \A u \in Threads : Running(u)' => last'[call[u].out] = last[call[u].out]
    BY <1>1, <1>2, <2>3 DEF TypeOK
  <2> QED
    BY <1>2, <2>2, <2>4, CallsKept
<1> QED
  BY <1>1, <1>5, <1>6, <1>7, <1>8, <1>9, <1>10 DEF IInv, NoBadAccess

\* The answers of each function.
Answers(fn) ==
  IF fn \in Calls THEN [{"data"} -> Text] \cup [{"error"} -> Text]
  ELSE IF fn \in FileCalls THEN [{} -> Text] \cup [{"error"} -> Text]
  ELSE [{} -> Text] \cup [{"public_hex", "private_hex"} -> Text]

\* Every call stores new strings in its empty struct.
LEMMA ReturnStep ==
  ASSUME IInv, NEW t \in Threads, Running(t), NEW answer \in Answers(call[t].fn), Return(t, answer)
  PROVE  IInv'
<1> DEFINE set == DOMAIN answer
<1>1. /\ TypeOK /\ OwnedOnce /\ NothingLost /\ SettledStructs /\ NoBadAccess /\ CallsInv
  BY DEF IInv
<1>0. PICK s \in Structs : s = call[t].out
  BY <1>1 DEF CallsInv, Structs
<1>2. PICK new \in [set -> Unused] :
        /\ \A f, g \in set : new[f] = new[g] => f = g
        /\ live' = live \cup {new[f] : f \in set}
        /\ text' = [b \in Blocks |-> IF \E f \in set : new[f] = b
                                     THEN answer[CHOOSE f \in set : new[f] = b] ELSE text[b]]
        /\ ptr' = [f \in Fields |-> IF f[1] = s /\ f[2] \in set THEN new[f[2]] ELSE ptr[f]]
        /\ bad' = (bad \/ \E a \in {call[t].in, call[t].key} : a \in Blocks \ live)
        /\ last' = [last EXCEPT ![s] = AnswerOf(call[t].fn)]
        /\ call' = [call EXCEPT ![t] = Idle]
        /\ UNCHANGED <<held, dropped>>
  BY <1>0 DEF Return
<1>3. /\ s \in IF call[t].fn = "generate_keypair" THEN Keypairs ELSE Results
      /\ last[s] = "call"
      /\ s \in Structs
  BY <1>0, <1>1 DEF CallsInv
<1>4. Pointers(s) = {}
  BY <1>1, <1>3 DEF SettledStructs, Settled
<1>5. call[t].fn \in {"generate_keypair"} \cup Calls \cup FileCalls
  BY <1>1 DEF TypeOK, Running
<1>6. /\ answer \in [set -> Text]
      /\ \A f \in set : <<s, f>> \in Fields
      /\ \/ call[t].fn \in Calls /\ (set = {"data"} \/ set = {"error"})
         \/ call[t].fn \in FileCalls /\ (set = {} \/ set = {"error"})
         \/ call[t].fn = "generate_keypair" /\ (set = {} \/ set = {"public_hex", "private_hex"})
  <2>1. CASE call[t].fn \in Calls
    <3>1. call[t].fn # "generate_keypair"
      BY <2>1 DEF Calls
    <3> QED
      BY <1>3, <2>1, <3>1, FieldFacts DEF Answers
  <2>2. CASE call[t].fn \in FileCalls
    <3>1. call[t].fn # "generate_keypair" /\ call[t].fn \notin Calls
      BY <2>2 DEF Calls, FileCalls
    <3> QED
      BY <1>3, <2>2, <3>1, FieldFacts DEF Answers
  <2>3. CASE call[t].fn = "generate_keypair"
    <3>1. call[t].fn \notin FileCalls /\ call[t].fn \notin Calls
      BY <2>3 DEF Calls, FileCalls
    <3> QED
      BY <1>3, <2>3, <3>1, FieldFacts DEF Answers
  <2> QED
    BY <1>5, <2>1, <2>2, <2>3
<1> HIDE DEF set
<1>7. \A f \in Fields : f[1] = s => ptr[f] = Null
  BY <1>4, StringsInFacts DEF Pointers
<1>8. \A f \in Fields : /\ f[1] = s /\ f[2] \in set => ptr'[f] = new[f[2]] /\ new[f[2]] \in Unused
                        /\ f[1] = s /\ f[2] \notin set => ptr'[f] = Null
                        /\ f[1] # s => ptr'[f] = ptr[f]
  BY <1>2, <1>7
<1>9. /\ Null \notin Unused
      /\ Unused \subseteq Blocks
      /\ Unused \cap live = {} /\ Unused \cap Arguments = {}
      /\ \A f \in Fields : ptr[f] \notin Unused
  <2>1. \A f \in Fields : ptr[f] = Null \/ ptr[f] \in live
    BY <1>1 DEF TypeOK
  <2> QED
    BY <2>1, CAssumption DEF Unused
<1>10. bad' = bad
  <2>1. {call[t].in, call[t].key} \cap Blocks \subseteq live
    BY <1>1 DEF CallsInv, Arguments
  <2> QED
    BY <1>1, <1>2, <2>1 DEF TypeOK
<1>11. live \subseteq live' /\ live' \subseteq Blocks
  BY <1>1, <1>2, <1>9 DEF TypeOK
<1>12. TypeOK'
  <2>1. text' \in [Blocks -> Text]
    <3>1. ASSUME NEW b \in Blocks, \E f \in set : new[f] = b
          PROVE  answer[CHOOSE f \in set : new[f] = b] \in Text
      BY <1>6, <3>1
    <3> QED
      BY <1>1, <1>2, <3>1 DEF TypeOK
  <2>2. ptr' \in [Fields -> live' \cup {Null}]
    <3>1. ASSUME NEW f \in Fields
          PROVE  ptr'[f] \in live' \cup {Null}
      <4>1. CASE f[1] = s /\ f[2] \in set
        BY <1>2, <1>8, <4>1
      <4>2. CASE f[1] = s /\ f[2] \notin set
        BY <1>8, <4>2
      <4>3. CASE f[1] # s
        BY <1>1, <1>8, <1>11, <4>3 DEF TypeOK
      <4> QED
        BY <4>1, <4>2, <4>3
    <3> QED
      BY <1>2, <3>1
  <2>3. call' \in [Threads -> [fn : {"none", "generate_keypair"} \cup Calls \cup FileCalls,
                             out : Structs \cup {Null}, in : Blocks \cup {Null, <<"plain">>},
                             key : Blocks \cup {Null}]]
    BY <1>1, <1>2 DEF TypeOK, Idle
  <2>4. /\ last' \in [Structs -> {"free", "call", "data", "file", "pair"}]
        /\ \A z \in Keypairs : last'[z] \notin {"data", "file"}
        /\ \A z \in Results : last'[z] # "pair"
    <3>1. s \in Keypairs => AnswerOf(call[t].fn) = "pair"
      BY <1>3, CAssumption DEF AnswerOf, Calls, FileCalls
    <3>2. s \in Results => AnswerOf(call[t].fn) \in {"data", "file"}
      BY <1>3, <1>5, CAssumption DEF AnswerOf, Calls, FileCalls
    <3> QED
      BY <1>1, <1>2, <1>3, <3>1, <3>2 DEF TypeOK, Structs
  <2> QED
    BY <1>1, <1>2, <1>10, <1>11, <2>1, <2>2, <2>3, <2>4 DEF TypeOK
<1>13. NothingLost'
  <2>1. ASSUME NEW b \in live, b \notin held \cup dropped
        PROVE  b \in StringsIn(Structs)'
    <3>1. PICK f \in Fields : b # Null /\ f[1] \in Structs /\ ptr[f] = b
      BY <1>1, <2>1, StringsInFacts DEF NothingLost
    <3>2. ptr'[f] = b
      BY <1>7, <1>8, <3>1
    <3> QED
      BY <3>1, <3>2, StringsInFacts
  <2>2. ASSUME NEW f \in set
        PROVE  new[f] \in StringsIn(Structs)'
    <3>1. <<s, f>> \in Fields /\ ptr'[<<s, f>>] = new[f] /\ new[f] # Null
      BY <1>2, <1>6, <1>8, <1>9
    <3> QED
      BY <1>3, <3>1, StringsInFacts
  <2> QED
    BY <1>2, <2>1, <2>2 DEF NothingLost
<1>14. SettledStructs'
  <2>1. ASSUME NEW z \in Structs, z # s
        PROVE  Settled(z)'
    <3>1. last'[z] = last[z]
      BY <1>1, <1>2, <2>1 DEF TypeOK
    <3>2. \A f \in Fields : f[1] = z => ptr'[f] = ptr[f]
      BY <1>8, <2>1
    <3> QED
      BY <1>1, <3>1, <3>2, SettledKept
  <2>2. last'[s] = AnswerOf(call[t].fn)
    BY <1>1, <1>2, <1>3 DEF TypeOK
  <2>3. \A f : <<s, f>> \in Fields => ((ptr'[<<s, f>>] # Null) <=> f \in set)
    BY <1>8, <1>9
  <2>4. Settled(s)'
    <3>1. CASE call[t].fn \in Calls
      <4>1. AnswerOf(call[t].fn) = "data" /\ s \in Results /\ (set = {"data"} \/ set = {"error"})
        BY <1>3, <1>6, <3>1 DEF AnswerOf, Calls, FileCalls
      <4> QED
        BY <2>2, <2>3, <4>1, FieldFacts DEF Settled
    <3>2. CASE call[t].fn \in FileCalls
      <4>1. AnswerOf(call[t].fn) = "file" /\ s \in Results /\ "data" \notin set
        BY <1>3, <1>6, <3>2 DEF AnswerOf, Calls, FileCalls
      <4> QED
        BY <2>2, <2>3, <4>1, FieldFacts DEF Settled
    <3>3. CASE call[t].fn = "generate_keypair"
      <4>1. /\ AnswerOf(call[t].fn) = "pair" /\ s \in Keypairs
            /\ set = {} \/ set = {"public_hex", "private_hex"}
        BY <1>3, <1>6, <3>3 DEF AnswerOf, Calls, FileCalls
      <4> QED
        BY <2>2, <2>3, <4>1, FieldFacts DEF Settled
    <3> QED
      BY <1>5, <3>1, <3>2, <3>3
  <2> QED
    BY <2>1, <2>4 DEF SettledStructs
<1>15. OwnedOnce'
  <2>1. ASSUME NEW f \in Fields, NEW g \in Fields, ptr'[f] # Null, ptr'[f] = ptr'[g]
        PROVE  f = g
    <3>1. CASE f[1] # s /\ g[1] # s
      BY <1>1, <1>8, <2>1, <3>1 DEF OwnedOnce
    <3>2. CASE f[1] = s /\ g[1] = s
      <4>1. f[2] \in set /\ g[2] \in set /\ new[f[2]] = new[g[2]]
        BY <1>8, <2>1, <3>2
      <4>2. f[2] = g[2]
        BY <1>2, <4>1
      <4> QED
        BY <3>2, <4>2, FieldFacts
    <3>3. CASE (f[1] = s) # (g[1] = s)
      BY <1>8, <1>9, <2>1, <3>3
    <3> QED
      BY <3>1, <3>2, <3>3
  <2>2. \A f \in Fields : ptr'[f] \notin held' \cup dropped'
    <3>1. held \cup dropped \subseteq live /\ Null \notin live
      BY <1>1, CAssumption DEF TypeOK
    <3> QED
      BY <1>1, <1>2, <1>8, <1>9, <3>1 DEF OwnedOnce
  <2> QED
    BY <1>1, <1>2, <2>1, <2>2 DEF OwnedOnce
<1>16. CallsInv'
  <2>1. call'[t] = Idle /\ \A u \in Threads \ {t} : call'[u] = call[u]
    BY <1>1, <1>2 DEF TypeOK
  <2>2. \A u \in Threads : Running(u)' => u # t /\ call'[u] = call[u]
    BY <2>1 DEF Running, Idle
  <2>3. \A u \in Threads : Running(u)' => last'[call[u].out] = last[call[u].out]
    <3>1. \A u \in Threads : Running(u)' => Running(u) /\ call[u].out # s
      BY <1>0, <1>1, <2>2 DEF CallsInv, Running
    <3> QED
      BY <1>1, <1>2, <3>1 DEF TypeOK
  <2>4. \A b \in Arguments \cap Blocks : b \in live' /\ text'[b] = text[b]
    BY <1>1, <1>2, <1>9, <1>11 DEF CallsInv
  <2> QED
    BY <2>2, <2>3, <2>4, CallsKept
<1> QED
  BY <1>1, <1>10, <1>12, <1>13, <1>14, <1>15, <1>16 DEF IInv, NoBadAccess

\* What the calls give back is an answer of theirs.
LEMMA FinishStep ==
  ASSUME IInv, NEW t \in Threads, Finish(t)
  PROVE  IInv'
<1>1. TypeOK /\ CallsInv
  BY DEF IInv
<1>2. In(t) \in Text /\ Key(t) \in Text
  <2>1. <<>> \in Text /\ <<"plain">> \in Text /\ \A b \in Blocks : text[b] \in Text
    BY <1>1 DEF TypeOK, Text, Plain
  <2>2. call[t].in \in Blocks \cup {Null, <<"plain">>} /\ call[t].key \in Blocks \cup {Null}
    BY <1>1 DEF TypeOK
  <2> QED
    BY <2>1, <2>2 DEF In, Key, GoString
<1>3. ASSUME NEW answer \in Answers(call[t].fn), call[t].fn # "none", Return(t, answer)
      PROVE  IInv'
  <2>1. Running(t)
    BY <1>3 DEF Running
  <2> QED
    BY <1>3, <2>1, ReturnStep
<1>4. CASE Encrypt(t)
  <2>1. call[t].fn = "encrypt" /\ Return(t, Encrypted(In(t), Key(t)))
    BY <1>4 DEF Encrypt
  <2>2. In(t) \notin Sealed
    BY <1>1, <2>1 DEF CallsInv, Running
  <2>3. Encrypted(In(t), Key(t)) \in Answers(call[t].fn)
    BY <1>2, <2>1, <2>2, AnswerFacts DEF Answers, Calls
  <2> QED
    BY <1>3, <2>1, <2>3
<1>5. CASE Decrypt(t)
  <2>1. call[t].fn = "decrypt" /\ Return(t, Decrypted(In(t), Key(t)))
    BY <1>5 DEF Decrypt
  <2>2. Decrypted(In(t), Key(t)) \in Answers(call[t].fn)
    BY <1>2, <2>1, AnswerFacts DEF Answers, Calls
  <2> QED
    BY <1>3, <2>1, <2>2
<1>6. CASE Inspect(t)
  <2>1. call[t].fn = "inspect" /\ Return(t, Inspected(In(t)))
    BY <1>6 DEF Inspect
  <2>2. Inspected(In(t)) \in Answers(call[t].fn)
    BY <1>2, <2>1, AnswerFacts DEF Answers, Calls
  <2> QED
    BY <1>3, <2>1, <2>2
<1>7. CASE EncryptFile(t) \/ DecryptFile(t)
  <2>1. PICK a \in FileDone(Key(t)) : call[t].fn \in FileCalls /\ Return(t, a)
    BY <1>7 DEF EncryptFile, DecryptFile, FileCalls
  <2>2. a \in Answers(call[t].fn) /\ call[t].fn # "none"
    BY <2>1, AnswerFacts DEF Answers, Calls, FileCalls
  <2> QED
    BY <1>3, <2>1, <2>2
<1>8. CASE GenerateKeypair(t)
  <2>1. PICK a \in NewPair : call[t].fn = "generate_keypair" /\ Return(t, a)
    BY <1>8 DEF GenerateKeypair
  <2>2. a \in Answers(call[t].fn)
    BY <2>1, AnswerFacts DEF Answers, Calls, FileCalls
  <2> QED
    BY <1>3, <2>1, <2>2
<1> QED
  BY <1>4, <1>5, <1>6, <1>7, <1>8 DEF Finish
-----------------------------------------------------------------------------
(* Strings outside the structs.                                             *)

\* Steps that leave structs and calls alone, and what the arguments say.
LEMMA StructsKept ==
  ASSUME IInv, UNCHANGED <<ptr, call, last, dropped>>
  PROVE  /\ SettledStructs'
         /\ StringsIn(Structs)' = StringsIn(Structs)
         /\ Arguments \cap Blocks \subseteq live' /\ (\A b \in Arguments \cap Blocks : text'[b] = text[b])
              => CallsInv'
<1>1. TypeOK /\ SettledStructs
  BY DEF IInv
<1>2. SettledStructs'
  BY <1>1, SettledKept DEF SettledStructs
<1>3. StringsIn(Structs)' = StringsIn(Structs)
  BY DEF StringsIn
<1> QED
  BY <1>2, <1>3, CallsKept

LEMMA VersionStep == IInv /\ VersionString => IInv'
<1> SUFFICES ASSUME IInv, VersionString
             PROVE  IInv'
  OBVIOUS
<1>1. /\ TypeOK /\ OwnedOnce /\ NothingLost /\ NoBadAccess /\ CallsInv
  BY DEF IInv
<1>2. PICK b \in Unused :
        /\ live' = live \cup {b}
        /\ held' = held \cup {b}
        /\ text' = [text EXCEPT ![b] = <<"version">>]
        /\ UNCHANGED <<ptr, call, last, dropped, bad>>
  BY DEF VersionString
<1>3. b \in Blocks \ live /\ b \notin Arguments /\ \A f \in Fields : ptr[f] # b
  <2>1. \A f \in Fields : ptr[f] = Null \/ ptr[f] \in live
    BY <1>1 DEF TypeOK
  <2> QED
    BY <2>1, CAssumption DEF Unused
<1>4. TypeOK'
  <2>1. <<"version">> \in Text
    BY DEF Text, Messages
  <2>2. text' \in [Blocks -> Text]
    BY <1>1, <1>2, <2>1 DEF TypeOK
  <2>3. ptr' \in [Fields -> live' \cup {Null}]
    BY <1>1, <1>2 DEF TypeOK
  <2> QED
    BY <1>1, <1>2, <1>3, <2>2, <2>3 DEF TypeOK
<1>5. OwnedOnce'
  BY <1>1, <1>2, <1>3 DEF OwnedOnce, TypeOK
<1>6. \A a \in Arguments \cap Blocks : a \in live' /\ text'[a] = text[a]
  BY <1>1, <1>2, <1>3 DEF CallsInv, TypeOK
<1>7. SettledStructs' /\ StringsIn(Structs)' = StringsIn(Structs) /\ CallsInv'
  BY <1>2, <1>6, StructsKept
<1>8. NothingLost'
  BY <1>1, <1>2, <1>7 DEF NothingLost
<1> QED
  BY <1>1, <1>2, <1>4, <1>5, <1>7, <1>8 DEF IInv, NoBadAccess

LEMMA FreeStringStep ==
  ASSUME IInv, NEW b \in Blocks, FreeString(b)
  PROVE  IInv'
<1>1. /\ TypeOK /\ OwnedOnce /\ NothingLost /\ NoBadAccess /\ CallsInv
  BY DEF IInv
<1>2. /\ b \in held /\ b \notin Arguments
      /\ live' = live \ {b}
      /\ text' = [x \in Blocks |-> IF x \in {b} THEN <<>> ELSE text[x]]
      /\ bad' = (bad \/ ~({b} \subseteq live))
      /\ held' = held \ {b}
      /\ UNCHANGED <<ptr, call, last, dropped>>
  BY DEF FreeString, Free
<1>3. bad' = bad
  BY <1>1, <1>2 DEF TypeOK
<1>4. TypeOK'
  <2>1. <<>> \in Text
    BY DEF Text, Plain
  <2>2. text' \in [Blocks -> Text]
    BY <1>1, <1>2, <2>1 DEF TypeOK
  <2>3. ptr' \in [Fields -> live' \cup {Null}]
    BY <1>1, <1>2 DEF TypeOK, OwnedOnce
  <2>4. dropped' \subseteq live' /\ held' \subseteq live' /\ live' \subseteq Blocks
    BY <1>1, <1>2 DEF TypeOK, OwnedOnce
  <2> QED
    BY <1>1, <1>2, <1>3, <2>2, <2>3, <2>4 DEF TypeOK
<1>5. OwnedOnce'
  BY <1>1, <1>2 DEF OwnedOnce
<1>6. \A a \in Arguments \cap Blocks : a \in live' /\ text'[a] = text[a]
  BY <1>1, <1>2 DEF CallsInv
<1>7. SettledStructs' /\ StringsIn(Structs)' = StringsIn(Structs) /\ CallsInv'
  BY <1>2, <1>6, StructsKept
<1>8. NothingLost'
  BY <1>1, <1>2, <1>7 DEF NothingLost
<1> QED
  BY <1>1, <1>3, <1>4, <1>5, <1>7, <1>8 DEF IInv, NoBadAccess

LEMMA WipeStep ==
  ASSUME IInv, NEW b \in Blocks, WipeBytes(b)
  PROVE  IInv'
<1>1. /\ TypeOK /\ OwnedOnce /\ NothingLost /\ NoBadAccess /\ CallsInv
  BY DEF IInv
<1>2. /\ b \in held \cup Stored(Structs) /\ b \notin Arguments
      /\ text' = [text EXCEPT ![b] = <<>>]
      /\ bad' = (bad \/ b \notin live)
      /\ UNCHANGED <<live, ptr, held, call, last, dropped>>
  BY DEF WipeBytes
<1>3. bad' = bad
  <2>1. Stored(Structs) \subseteq live
    BY <1>1, StringsInFacts DEF Stored, TypeOK
  <2> QED
    BY <1>1, <1>2, <2>1 DEF TypeOK
<1>4. TypeOK'
  <2>1. <<>> \in Text
    BY DEF Text, Plain
  <2>2. text' \in [Blocks -> Text]
    BY <1>1, <1>2, <2>1 DEF TypeOK
  <2> QED
    BY <1>1, <1>2, <1>3, <2>2 DEF TypeOK
<1>5. \A a \in Arguments \cap Blocks : a \in live' /\ text'[a] = text[a]
  BY <1>1, <1>2 DEF CallsInv, TypeOK
<1>6. SettledStructs' /\ StringsIn(Structs)' = StringsIn(Structs) /\ CallsInv'
  BY <1>2, <1>5, StructsKept
<1> QED
  BY <1>1, <1>2, <1>3, <1>4, <1>6 DEF IInv, NoBadAccess, NothingLost, OwnedOnce
-----------------------------------------------------------------------------
LEMMA BeginStep ==
  ASSUME IInv, NEW t \in Threads, Begin(t)
  PROVE  IInv'
<1>1. CASE \E fn \in {"encrypt", "decrypt"}, s \in Results, in \in DataArgs, key \in KeyArgs :
             Enter(t, fn, s, in, key)
  BY <1>1, EnterStep DEF Calls
<1>2. CASE \E s \in Results, in \in DataArgs : Enter(t, "inspect", s, in, Null)
  BY <1>2, EnterStep DEF Calls
<1>3. CASE \E fn \in FileCalls, s \in Results, key \in KeyArgs : Enter(t, fn, s, Null, key)
  BY <1>3, EnterStep DEF FileCalls
<1>4. CASE \E s \in Keypairs : Enter(t, "generate_keypair", s, Null, Null)
  BY <1>4, EnterStep
<1> QED
  BY <1>1, <1>2, <1>3, <1>4 DEF Begin

LEMMA StepIInv == IInv /\ [Next]_vars => IInv'
<1> SUFFICES ASSUME IInv, [Next]_vars
             PROVE  IInv'
  OBVIOUS
<1>1. CASE \E t \in Threads : Begin(t) \/ Finish(t)
  BY <1>1, BeginStep, FinishStep
<1>2. CASE \E s \in Structs : FreeResult(s) \/ FreeKeypair(s)
  BY <1>2, FreeStep
<1>3. CASE VersionString
  BY <1>3, VersionStep
<1>4. CASE \E b \in Blocks : FreeString(b) \/ WipeBytes(b)
  BY <1>4, FreeStringStep, WipeStep
<1>5. CASE UNCHANGED vars
  <2>1. UNCHANGED <<live, text, ptr, held, call, last, dropped, bad>>
    BY <1>5 DEF vars
  <2>2. SettledStructs' /\ StringsIn(Structs)' = StringsIn(Structs) /\ CallsInv'
    BY <2>1, StructsKept DEF IInv, CallsInv
  <2> QED
    BY <2>1, <2>2 DEF IInv, TypeOK, NoBadAccess, NothingLost, OwnedOnce
<1> QED
  BY <1>1, <1>2, <1>3, <1>4, <1>5 DEF Next

\* The invariant behind the theorems below.
THEOREM Invariance == Spec => []IInv
BY InitIInv, StepIInv, PTL DEF Spec

\* Allocated blocks, fields, the caller's strings and the running calls have their types.
THEOREM TypeCorrect == Spec => []TypeOK
<1>1. IInv => TypeOK
  BY DEF IInv
<1> QED
  BY <1>1, Invariance, PTL

\* No string is read or freed after it was freed.
THEOREM NoBadAccessHolds == Spec => []NoBadAccess
<1>1. IInv => NoBadAccess
  BY DEF IInv
<1> QED
  BY <1>1, Invariance, PTL

\* Only a struct that is reused without being freed loses strings.
THEOREM NothingLostHolds == Spec => []NothingLost
<1>1. IInv => NothingLost
  BY DEF IInv
<1> QED
  BY <1>1, Invariance, PTL

\* A struct shows what the last call on it did, and nothing older.
THEOREM SettledStructsHolds == Spec => []SettledStructs
<1>1. IInv => SettledStructs
  BY DEF IInv
<1> QED
  BY <1>1, Invariance, PTL
=============================================================================
