------------------------------ MODULE CliKeys ------------------------------
(***************************************************************************)
(* morpheus-cli's commands "key generate", "key import" and "key set"      *)
(* (cmd/morpheus-cli/cmd/key.go) on the local database of keys, the choice *)
(* of a signing factory in DefaultActor (handler.go), and the opening and  *)
(* closing of the database around every command (root.go).  Commands are   *)
(* given in several terminals; a database that is open in one process      *)
(* cannot be opened in another.  A command makes two writes, each of which *)
(* may fail, and can be killed between any two steps.                      *)
(***************************************************************************)
EXTENDS Integers

CONSTANTS
  Terminal,
  Address,   \* the addresses keys may have
  typeOf,    \* the type in the first byte of an address
  File,      \* the key files on the disk
  content,   \* the address of a file's bytes read as each type, or Invalid
  Invalid,   \* bytes that are no key of a type
  None       \* no key, no process

KeyType == {"ed25519", "secp256r1", "bls"}

ASSUME CliKeysAssumption ==
  /\ typeOf \in [Address -> KeyType]
  /\ {Invalid, None} \cap Address = {}
  /\ None \notin KeyType
  /\ None \notin Terminal
  /\ content \in [File -> [KeyType -> Address \cup {Invalid}]]
  /\ \A f \in File, k \in KeyType :
       content[f][k] # Invalid => typeOf[content[f][k]] = k

VARIABLES
  stored,     \* the type of the key bytes stored under each address, or None
  default,    \* the address of the default key, or None
  announced,  \* the addresses reported as created or imported
  holder,     \* the terminal whose process has the database open, or None
  pc,         \* the next step of each terminal's command, or "shell"
  priv        \* the key the command is about: address and type of its bytes

vars == <<stored, default, announced, holder, pc, priv>>

NoPriv == [address |-> None, bytes |-> None]
-----------------------------------------------------------------------------
Init == /\ stored = [a \in Address |-> None]
        /\ default = None
        /\ announced = {}
        /\ holder = None
        /\ pc = [t \in Terminal |-> "shell"]
        /\ priv = [t \in Terminal |-> NoPriv]

Goto(t, label) == pc' = [pc EXCEPT ![t] = label]

(* PersistentPreRunE: a command begins with the database open, or not at   *)
(* all.                                                                    *)
OpenDatabase(t) ==
  /\ pc[t] = "shell"
  /\ holder = None
  /\ holder' = t
  /\ Goto(t, "run")
  /\ UNCHANGED <<stored, default, announced, priv>>

Continue(t, a, k) == /\ Goto(t, "storeKey")
                     /\ priv' = [priv EXCEPT ![t] = [address |-> a, bytes |-> k]]

(* A private key nobody has had before. *)
GenerateKey(t, k) ==
  /\ pc[t] = "run"
  /\ \E a \in Address : /\ typeOf[a] = k /\ stored[a] = None
                        /\ \A f \in File : content[f][k] # a
                        /\ Continue(t, a, k)
  /\ UNCHANGED <<stored, default, announced, holder>>

(* Mutant: the branch of one type makes the address of another.            *)
ImportKey_OtherBranch(t, k, f) ==
  /\ pc[t] = "run"
  /\ \E other \in KeyType : content[f][k] # Invalid /\ content[f][other] # Invalid
                            /\ Continue(t, content[f][other], k)
  /\ UNCHANGED <<stored, default, announced, holder>>

(* The file may have the length of keys of two types: the user's word      *)
(* decides which key it is.                                                *)
ImportKey(t, k, f) ==
  /\ pc[t] = "run"
  /\ content[f][k] # Invalid
  /\ Continue(t, content[f][k], k)
  /\ UNCHANGED <<stored, default, announced, holder>>

(* Mutant: the error of StoreKey is not looked at. *)
StoreKey_Unchecked(t) ==
  /\ pc[t] = "storeKey"
  /\ stored' \in {stored, [stored EXCEPT ![priv[t].address] = priv[t].bytes]}
  /\ Goto(t, "storeDefaultKey")
  /\ UNCHANGED <<default, announced, holder, priv>>

StoreKey(t) ==
  /\ pc[t] = "storeKey"
  /\ stored' = [stored EXCEPT ![priv[t].address] = priv[t].bytes]
  /\ Goto(t, "storeDefaultKey")
  /\ UNCHANGED <<default, announced, holder, priv>>

(* Mutants: the address is not stored; the database is closed by now.      *)
StoreDefaultKey_Forgets(t) ==
  /\ pc[t] = "storeDefaultKey"
  /\ default' = priv[t].bytes
  /\ Goto(t, "report")
  /\ UNCHANGED <<stored, announced, holder, priv>>

StoreDefaultKey_Closes(t) ==
  /\ pc[t] = "storeDefaultKey"
  /\ default' = priv[t].address
  /\ holder' = None
  /\ Goto(t, "report")
  /\ UNCHANGED <<stored, announced, priv>>

StoreDefaultKey(t) ==
  /\ pc[t] = "storeDefaultKey"
  /\ default' = priv[t].address
  /\ Goto(t, "report")
  /\ UNCHANGED <<stored, announced, holder, priv>>

(* "created address" or "imported address" is written. *)
Report(t) ==
  /\ pc[t] = "report"
  /\ announced' = announced \cup {priv[t].address}
  /\ Goto(t, "close")
  /\ UNCHANGED <<stored, default, holder, priv>>

(* The user chooses one of the stored keys. *)
SetKey(t) ==
  /\ pc[t] = "run"
  /\ \E a \in Address : stored[a] # None /\ default' = a
  /\ Goto(t, "close")
  /\ UNCHANGED <<stored, announced, holder, priv>>

Exit(t) == /\ holder' = None
           /\ Goto(t, "shell")
           /\ priv' = [priv EXCEPT ![t] = NoPriv]
           /\ UNCHANGED <<stored, default, announced>>

(* PersistentPostRunE, after a success: the database is closed.            *)
CloseDatabase(t) == pc[t] = "close" /\ Exit(t)

(* A step fails, or the process is killed: nothing closes the database, it *)
(* is free when the process has ended.                                     *)
Stop(t) == pc[t] \notin {"shell", "close"} /\ Exit(t)

RunE(t) == \/ \E k \in KeyType : GenerateKey(t, k) \/ \E f \in File : ImportKey(t, k, f)
           \/ StoreKey(t) \/ StoreDefaultKey(t) \/ Report(t) \/ SetKey(t)

Next == \E t \in Terminal : OpenDatabase(t) \/ RunE(t) \/ CloseDatabase(t) \/ Stop(t)

Spec == Init /\ [][Next]_vars
-----------------------------------------------------------------------------
(* The database and the running commands are well formed. *)
TypeOK ==
  /\ stored \in [Address -> KeyType \cup {None}]
  /\ default \in Address \cup {None}
  /\ announced \subseteq Address
  /\ holder \in Terminal \cup {None}
  /\ pc \in [Terminal -> {"shell", "run", "storeKey", "storeDefaultKey",
                          "report", "close"}]
  /\ priv \in [Terminal -> [address : Address, bytes : KeyType] \cup {NoPriv}]

(* DefaultActor finds the bytes of an address and gives them to the        *)
(* factory of the type in its first byte. *)
CanSign(a) == stored[a] = typeOf[a]

(* Whatever write fails, whenever a process is killed and however often    *)
(* one file is imported as keys of two types: the default key, and every   *)
(* key reported as created or imported, can sign.                          *)
KeysKept == /\ default # None => CanSign(default)
            /\ \A a \in announced : CanSign(a)

(* A key is never lost or replaced: coins sent to its address stay within  *)
(* reach, also when the command that made it failed half way.              *)
KeysStay == [][\A a \in Address : CanSign(a) => CanSign(a)']_vars

(* The key that a command reports is the default key as it does so, though *)
(* other terminals generate, import and choose keys meanwhile: no command  *)
(* writes between another's writes and its report.                         *)
AnnouncedIsDefault ==
  \A t \in Terminal : pc[t] = "report" => default = priv[t].address
=============================================================================
