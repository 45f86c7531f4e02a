---------------------------- MODULE CliKeysProofs ----------------------------
(***************************************************************************)
(* Proofs about CliKeys, for any terminals, addresses, files and keys:     *)
(* every key that was announced can sign, no key is lost or replaced, and  *)
(* the key a command reports is the default key.                           *)
(***************************************************************************)
EXTENDS CliKeys, TLAPS

(* A command is under way only in the process that has the database open.  *)
(* Without it AnnouncedIsDefault is not inductive: another terminal could  *)
(* be about to store its default key.                                      *)
Exclusive == \A t \in Terminal : pc[t] # "shell" => holder = t

(* The key a command is about is what the factory of its address expects.  *)
(* Without it KeysKept is not inductive: Report announces a key that an    *)
(* earlier step has stored.                                                *)
KeyFits ==
  \A t \in Terminal :
    pc[t] \in {"storeKey", "storeDefaultKey", "report"} =>
      /\ priv[t].address \in Address
      /\ priv[t].bytes = typeOf[priv[t].address]

StoredFirst ==
  \A t \in Terminal :
    pc[t] \in {"storeDefaultKey", "report"} => CanSign(priv[t].address)

(* Whatever was stored was stored with the bytes of its own type. *)
StoredFits == \A a \in Address : stored[a] # None => CanSign(a)

KeysInv == /\ TypeOK /\ Exclusive /\ KeyFits /\ StoredFirst /\ StoredFits
           /\ KeysKept /\ AnnouncedIsDefault

(* A step replaces no key that can sign: the step of KeysStay. *)
Stays == \A a \in Address : CanSign(a) => CanSign(a)'
-----------------------------------------------------------------------------
(* No command has run yet. *)
LEMMA KeysInit == Init => KeysInv
<1> SUFFICES ASSUME Init PROVE KeysInv
    OBVIOUS
<1>1. TypeOK
    BY DEF Init, TypeOK, NoPriv
<1>2. Exclusive /\ KeyFits /\ StoredFirst /\ AnnouncedIsDefault
    BY DEF Init, Exclusive, KeyFits, StoredFirst, AnnouncedIsDefault
<1>3. StoredFits /\ KeysKept
    BY DEF Init, StoredFits, KeysKept
<1> QED BY <1>1, <1>2, <1>3 DEF KeysInv

(* A step that leaves the stored keys, the default key and the announced   *)
(* ones alone loses no key.                                                *)
LEMMA KeysUntouched ==
  ASSUME KeysInv, UNCHANGED <<stored, default, announced>>
  PROVE  StoredFits' /\ KeysKept' /\ Stays
BY DEF KeysInv, StoredFits, KeysKept, Stays, CanSign

(* Only the process that has the database open takes steps, and it goes on *)
(* or ends. *)
LEMMA HolderOnly ==
  ASSUME TypeOK, Exclusive, NEW t \in Terminal, NEW label,
         pc[t] # "shell", Goto(t, label),
         \/ UNCHANGED holder
         \/ label = "shell"
  PROVE  /\ Exclusive'
         /\ pc'[t] = label
         /\ \A u \in Terminal : u # t => pc[u] = "shell" /\ pc'[u] = "shell"
BY DEF TypeOK, Exclusive, Goto

(* A command is begun only with bytes of the type of its address. *)
LEMMA ContinueInv ==
  ASSUME KeysInv, NEW t \in Terminal, NEW a \in Address, pc[t] = "run",
         Continue(t, a, typeOf[a]), UNCHANGED <<stored, default, announced, holder>>
  PROVE  KeysInv' /\ Stays
<1> USE CliKeysAssumption
<1>1. typeOf[a] \in KeyType
    BY Zenon
<1>2. TypeOK'
    BY <1>1 DEF KeysInv, TypeOK, Continue, Goto
<1>3. /\ Exclusive'
      /\ pc'[t] = "storeKey"
      /\ \A u \in Terminal : u # t => pc'[u] = "shell"
    BY HolderOnly DEF KeysInv, Continue
<1>4. priv'[t] = [address |-> a, bytes |-> typeOf[a]]
    BY DEF KeysInv, TypeOK, Continue
<1>5. KeyFits' /\ StoredFirst' /\ AnnouncedIsDefault'
    BY <1>3, <1>4 DEF KeyFits, StoredFirst, AnnouncedIsDefault
<1> QED BY <1>2, <1>3, <1>5, KeysUntouched DEF KeysInv

(* Every step keeps the invariant and replaces no key that can sign. *)
LEMMA KeysNext == KeysInv /\ [Next]_vars => KeysInv' /\ Stays
<1> SUFFICES ASSUME KeysInv, [Next]_vars PROVE KeysInv' /\ Stays
    OBVIOUS
<1> USE CliKeysAssumption
<1>1. ASSUME NEW t \in Terminal, OpenDatabase(t) PROVE KeysInv' /\ Stays
  <2>1. TypeOK'
      BY <1>1 DEF OpenDatabase, Goto, KeysInv, TypeOK
  <2>2. \A u \in Terminal : pc'[u] = IF u = t THEN "run" ELSE "shell"
      BY <1>1 DEF OpenDatabase, Goto, KeysInv, TypeOK, Exclusive
  <2>3. Exclusive' /\ KeyFits' /\ StoredFirst' /\ AnnouncedIsDefault'
      BY <1>1, <2>2 DEF OpenDatabase, Exclusive, KeyFits, StoredFirst, AnnouncedIsDefault
  <2>4. StoredFits' /\ KeysKept' /\ Stays
      BY <1>1, KeysUntouched DEF OpenDatabase
  <2> QED BY <2>1, <2>3, <2>4 DEF KeysInv
<1>2. ASSUME NEW t \in Terminal, NEW k \in KeyType, GenerateKey(t, k)
      PROVE  KeysInv' /\ Stays
  <2>1. PICK a \in Address : typeOf[a] = k /\ Continue(t, a, k)
      BY <1>2 DEF GenerateKey
  <2> QED BY <1>2, <2>1, ContinueInv DEF GenerateKey
<1>3. ASSUME NEW t \in Terminal, NEW k \in KeyType, NEW f \in File, ImportKey(t, k, f)
      PROVE  KeysInv' /\ Stays
  <2> DEFINE a == content[f][k]
  <2>1. a \in Address /\ typeOf[a] = k
      BY <1>3 DEF ImportKey
  <2> QED BY <1>3, <2>1, ContinueInv DEF ImportKey
<1>4. ASSUME NEW t \in Terminal, StoreKey(t) PROVE KeysInv' /\ Stays
  <2> DEFINE b == priv[t].address
  <2>1. b \in Address /\ priv[t].bytes = typeOf[b] /\ typeOf[b] \in KeyType
      BY <1>4 DEF StoreKey, KeysInv, KeyFits
  <2>2. TypeOK'
      BY <1>4, <2>1 DEF StoreKey, Goto, KeysInv, TypeOK
  <2>3. /\ Exclusive'
        /\ pc'[t] = "storeDefaultKey"
        /\ \A u \in Terminal : u # t => pc'[u] = "shell"
      BY <1>4, HolderOnly DEF StoreKey, KeysInv
  <2>4. stored'[b] = typeOf[b]
      BY <1>4, <2>1 DEF StoreKey, KeysInv, TypeOK
  <2>5. \A a \in Address : a # b => stored'[a] = stored[a]
      BY <1>4 DEF StoreKey, KeysInv, TypeOK
  <2>6. Stays /\ StoredFits'
      BY <2>4, <2>5 DEF KeysInv, StoredFits, Stays, CanSign
  <2>7. KeyFits' /\ StoredFirst' /\ AnnouncedIsDefault'
      BY <1>4, <2>1, <2>3, <2>4 DEF StoreKey, KeyFits, StoredFirst, CanSign,
                                    AnnouncedIsDefault
  <2>8. KeysKept'
      BY <1>4, <2>6 DEF StoreKey, KeysInv, TypeOK, KeysKept, Stays
  <2> QED BY <2>2, <2>3, <2>6, <2>7, <2>8 DEF KeysInv
<1>5. ASSUME NEW t \in Terminal, StoreDefaultKey(t) PROVE KeysInv' /\ Stays
  <2>1. priv[t].address \in Address /\ CanSign(priv[t].address)
      BY <1>5 DEF StoreDefaultKey, KeysInv, KeyFits, StoredFirst
  <2>2. TypeOK'
      BY <1>5, <2>1 DEF StoreDefaultKey, Goto, KeysInv, TypeOK
  <2>3. /\ Exclusive'
        /\ pc'[t] = "report"
        /\ \A u \in Terminal : u # t => pc'[u] = "shell"
      BY <1>5, HolderOnly DEF StoreDefaultKey, KeysInv
  <2>4. KeysKept'
      BY <1>5, <2>1 DEF StoreDefaultKey, KeysInv, KeysKept, CanSign
  <2>5. KeyFits' /\ StoredFirst' /\ AnnouncedIsDefault'
      BY <1>5, <2>1, <2>3 DEF StoreDefaultKey, KeysInv, KeyFits, StoredFirst,
                              CanSign, AnnouncedIsDefault
  <2>6. StoredFits' /\ Stays
      BY <1>5 DEF StoreDefaultKey, KeysInv, StoredFits, Stays, CanSign
  <2> QED BY <2>2, <2>3, <2>4, <2>5, <2>6 DEF KeysInv
<1>6. ASSUME NEW t \in Terminal, Report(t) PROVE KeysInv' /\ Stays
  <2>1. priv[t].address \in Address /\ CanSign(priv[t].address)
      BY <1>6 DEF Report, KeysInv, KeyFits, StoredFirst
  <2>2. TypeOK'
      BY <1>6, <2>1 DEF Report, Goto, KeysInv, TypeOK
  <2>3. /\ Exclusive'
        /\ pc'[t] = "close"
        /\ \A u \in Terminal : u # t => pc'[u] = "shell"
      BY <1>6, HolderOnly DEF Report, KeysInv
  <2>4. KeysKept'
      BY <1>6, <2>1 DEF Report, KeysInv, KeysKept, CanSign
  <2>5. KeyFits' /\ StoredFirst' /\ AnnouncedIsDefault'
      BY <2>3 DEF KeyFits, StoredFirst, AnnouncedIsDefault
  <2>6. StoredFits' /\ Stays
      BY <1>6 DEF Report, KeysInv, StoredFits, Stays, CanSign
  <2> QED BY <2>2, <2>3, <2>4, <2>5, <2>6 DEF KeysInv
<1>7. ASSUME NEW t \in Terminal, SetKey(t) PROVE KeysInv' /\ Stays
  <2>1. PICK a \in Address : stored[a] # None /\ default' = a
      BY <1>7 DEF SetKey
  <2>2. CanSign(a)
      BY <2>1 DEF KeysInv, StoredFits
  <2>3. TypeOK'
      BY <1>7, <2>1 DEF SetKey, Goto, KeysInv, TypeOK
  <2>4. /\ Exclusive'
        /\ pc'[t] = "close"
        /\ \A u \in Terminal : u # t => pc'[u] = "shell"
      BY <1>7, HolderOnly DEF SetKey, KeysInv
  <2>5. KeysKept'
      BY <1>7, <2>1, <2>2 DEF SetKey, KeysInv, KeysKept, CanSign
  <2>6. KeyFits' /\ StoredFirst' /\ AnnouncedIsDefault'
      BY <2>4 DEF KeyFits, StoredFirst, AnnouncedIsDefault
  <2>7. StoredFits' /\ Stays
      BY <1>7 DEF SetKey, KeysInv, StoredFits, Stays, CanSign
  <2> QED BY <2>3, <2>4, <2>5, <2>6, <2>7 DEF KeysInv
<1>8. ASSUME NEW t \in Terminal, CloseDatabase(t) \/ Stop(t) PROVE KeysInv' /\ Stays
  <2>0. pc[t] # "shell" /\ Exit(t)
      BY <1>8 DEF CloseDatabase, Stop
  <2>1. TypeOK'
      BY <2>0 DEF Exit, Goto, KeysInv, TypeOK, NoPriv
  <2>2. /\ Exclusive'
        /\ pc'[t] = "shell"
        /\ \A u \in Terminal : u # t => pc'[u] = "shell"
      BY <2>0, HolderOnly DEF Exit, KeysInv
  <2>3. KeyFits' /\ StoredFirst' /\ AnnouncedIsDefault'
      BY <2>2 DEF KeyFits, StoredFirst, AnnouncedIsDefault
  <2> QED BY <2>0, <2>1, <2>2, <2>3, KeysUntouched DEF Exit, KeysInv
<1>9. CASE UNCHANGED vars
  <2>1. TypeOK' /\ Exclusive' /\ KeyFits'
      BY <1>9 DEF vars, KeysInv, TypeOK, Exclusive, KeyFits
  <2>2. StoredFirst' /\ AnnouncedIsDefault'
      BY <1>9 DEF vars, KeysInv, StoredFirst, AnnouncedIsDefault, CanSign
  <2> QED BY <1>9, <2>1, <2>2, KeysUntouched DEF vars, KeysInv
<1> QED
    BY <1>1, <1>2, <1>3, <1>4, <1>5, <1>6, <1>7, <1>8, <1>9 DEF Next, RunE

(* The inductive invariant of the key commands. *)
THEOREM KeysInvariant == Spec => []KeysInv
<1>1. Init => KeysInv
    BY KeysInit
<1>2. KeysInv /\ [Next]_vars => KeysInv'
    BY KeysNext
<1> QED BY <1>1, <1>2, PTL DEF Spec

(* The keys in the database, the default key and every command's place and *)
(* variables are well formed (key.go).                                     *)
THEOREM KeysTypeCorrect == Spec => []TypeOK
<1>1. KeysInv => TypeOK
    BY DEF KeysInv
<1> QED BY <1>1, KeysInvariant, PTL

(* Whatever write fails, whenever a command is killed: the default key and *)
(* every key reported as created or imported can sign (key.go:129-138).    *)
THEOREM AnnouncedKeysSign == Spec => []KeysKept
<1>1. KeysInv => KeysKept
    BY DEF KeysInv
<1> QED BY <1>1, KeysInvariant, PTL

(* The key a command reports is the default key, whatever other terminals  *)
(* do: the database is open in one process (root.go:62-74).                *)
THEOREM AnnouncedKeyIsDefault == Spec => []AnnouncedIsDefault
<1>1. KeysInv => AnnouncedIsDefault
    BY DEF KeysInv
<1> QED BY <1>1, KeysInvariant, PTL

(* No command loses a key or replaces it by bytes that cannot sign for its *)
(* address, also when a file is imported as keys of two types.             *)
THEOREM KeysAreNotLost == Spec => KeysStay
<1>1. KeysInv /\ [Next]_vars => [Stays]_vars
    BY KeysNext
<1>2. KeysStay <=> [][Stays]_vars
    BY PTL DEF KeysStay, Stays
<1> QED BY <1>1, <1>2, KeysInvariant, PTL DEF Spec
=============================================================================
