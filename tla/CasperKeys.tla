------------------------------ MODULE CasperKeys ------------------------------
(***************************************************************************)
(* The operator's Casper keys: scripts/casper/keygen.ts over the files     *)
(* keys/<role>.pem and keys/<role>.pem.bak-<n>.                            *)
(*                                                                         *)
(* A key that was printed may be funded at once and exists nowhere else.   *)
(* The script can be interrupted between any two file operations, a file   *)
(* that is being written included, and run again with or without --force;  *)
(* one run at a time.                                                      *)
(***************************************************************************)
EXTENDS Naturals, SequencesExt

CONSTANTS
  KeyRoles,  \* facilitator, agent, treasury
  MaxKeys,   \* bound: keys generated
  MaxBaks    \* bound: backups of one role

ASSUME KeysAssumption == KeyRoles # {} /\ MaxKeys \in Nat /\ MaxBaks \in Nat

\* What a file can hold: a whole key, or the start of one.
NoFile == 0
torn   == MaxKeys + 1
Content == 0 .. MaxKeys + 1

VARIABLES
  pem,      \* role -> content of its PEM
  baks,     \* role -> contents of its backups, .bak-1 first
  drawn,    \* keys generated so far
  printed,  \* role -> keys the operator was shown for it
  keygen    \* the run: [at, role, todo, force]

keysVars == <<pem, baks, drawn, printed, keygen>>

noKeygen == [at |-> "none", role |-> CHOOSE r \in KeyRoles : TRUE, todo |-> {},
             force |-> FALSE]

KeysInit ==
  /\ pem = [r \in KeyRoles |-> NoFile]
  /\ baks = [r \in KeyRoles |-> <<>>]
  /\ drawn = 0
  /\ printed = [r \in KeyRoles |-> {}]
  /\ keygen = noKeygen

\* --force wants the roles named and CASPER_KEYGEN_FORCE=yes; without it the
\* script ends before it touches a file, which is no step.
StartKeygen(roles, named, force, confirmed) ==
  /\ keygen.at = "none" /\ roles # {}
  /\ named \/ roles = KeyRoles
  /\ force => named /\ confirmed
  /\ keygen' = [noKeygen EXCEPT !.at = "next", !.todo = roles, !.force = force]
  /\ UNCHANGED <<pem, baks, drawn, printed>>

at(step) == keygen' = [keygen EXCEPT !.at = step]

reuses(r) == pem[r] # NoFile /\ ~keygen.force

\* Reuse what is there, or back it up, or generate.
TakeRole(r) ==
  /\ keygen.at = "next" /\ r \in keygen.todo
  /\ keygen' = [keygen EXCEPT !.role = r, !.todo = @ \ {r},
       !.at = IF reuses(r) THEN "reading"
              ELSE IF pem[r] # NoFile THEN "copying" ELSE "writing"]
  /\ UNCHANGED <<pem, baks, drawn, printed>>

\* A PEM that cannot be parsed ends the script.
ReadPem ==
  LET r == keygen.role
  IN  /\ keygen.at = "reading"
      /\ IF pem[r] = torn THEN keygen' = noKeygen ELSE at("printing")
      /\ UNCHANGED <<pem, baks, drawn, printed>>

\* The first free counter: nothing that is there is written over.
backupAt_First(r) == 1
backupAt(r)       == Len(baks[r]) + 1

put(r, content) ==
  baks' = [baks EXCEPT ![r] = IF backupAt(r) <= Len(@)
                              THEN [@ EXCEPT ![backupAt(r)] = content]
                              ELSE Append(@, content)]

CopyPem ==
  LET r == keygen.role
  IN  /\ keygen.at = "copying" /\ Len(baks[r]) < MaxBaks
      /\ \/ put(r, pem[r]) /\ at("writing")
         \/ put(r, torn) /\ keygen' = noKeygen
      /\ UNCHANGED <<pem, drawn, printed>>

\* Each role has a key of its own.
freshKey == drawn + 1

WritePem ==
  LET r == keygen.role
  IN  /\ keygen.at = "writing" /\ drawn < MaxKeys
      /\ drawn' = drawn + 1
      /\ \/ pem' = [pem EXCEPT ![r] = freshKey] /\ at("printing")
         \/ pem' = [pem EXCEPT ![r] = torn] /\ keygen' = noKeygen
      /\ UNCHANGED <<baks, printed>>

PrintKey ==
  LET r == keygen.role
  IN  /\ keygen.at = "printing"
      /\ printed' = [printed EXCEPT ![r] = @ \cup {pem[r]}]
      /\ IF keygen.todo = {} THEN keygen' = noKeygen ELSE at("next")
      /\ UNCHANGED <<pem, baks, drawn>>

\* Interrupted between two operations.
Interrupt ==
  /\ keygen.at # "none"
  /\ keygen' = noKeygen
  /\ UNCHANGED <<pem, baks, drawn, printed>>

KeysNext ==
  \/ \E roles \in SUBSET KeyRoles, named, force, confirmed \in BOOLEAN :
       StartKeygen(roles, named, force, confirmed)
  \/ \E r \in KeyRoles : TakeRole(r)
  \/ ReadPem
  \/ CopyPem
  \/ WritePem
  \/ PrintKey
  \/ Interrupt

KeysSpec == KeysInit /\ [][KeysNext]_keysVars

-----------------------------------------------------------------------------
\* Every field has its type, and no two roles have a key in common.
KeysTypeOK ==
  /\ pem \in [KeyRoles -> Content]
  /\ \A r \in KeyRoles : baks[r] \in Seq(Content) /\ Len(baks[r]) <= MaxBaks
  /\ drawn \in 0 .. MaxKeys
  /\ printed \in [KeyRoles -> SUBSET (1 .. MaxKeys)]
  /\ keygen \in [at : {"none", "next", "reading", "copying", "writing",
                       "printing"},
                 role : KeyRoles, todo : SUBSET KeyRoles, force : BOOLEAN]
  /\ \A r, q \in KeyRoles : r # q => printed[r] \cap printed[q] = {}

\* "they control funded testnet accounts and have no mnemonic or backup": a key
\* the operator was shown is in its PEM or in a backup of its role, however
\* often the script is run, forced and interrupted.
NoPrintedKeyIsLost ==
  \A r \in KeyRoles : printed[r] \subseteq {pem[r]} \cup ToSet(baks[r])

\* "Existing keys are NEVER overwritten by default".
OverwrittenByForceOnly ==
  [][\A r \in KeyRoles :
       pem[r] \in 1 .. MaxKeys /\ pem'[r] # pem[r]
         => keygen.force /\ keygen.role = r]_keysVars

\* A key that was shown stays: on disk under its name or a backup's, and under
\* its name until somebody insists.
KeysAreKept == [](KeysTypeOK /\ NoPrintedKeyIsLost) /\ OverwrittenByForceOnly
=============================================================================
