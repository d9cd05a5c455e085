-------------------------------- MODULE SnapshotStore --------------------------------
(***************************************************************************)
(* The directories in which lifecycles and qualifications keep their       *)
(* snapshot: publish renames the old directory to a backup, the staged one *)
(* to its name, and then deletes the backup.  Readers take no lock and see *)
(* only what bears the name, so a snapshot is invisible between the two    *)
(* renames - for ever, if the process dies there.                          *)
(***************************************************************************)
CONSTANTS Owners,       \* lifecycles and qualifications
          NoSnapshot

VARIABLES out,    \* the snapshot under its own name
          bak     \* the backup in .tmp

storeVars == <<out, bak>>

StoreInit(history) ==
    /\ out = history
    /\ bak = [o \in Owners |-> NoSnapshot]

\* The last snapshot whose publication has ended, visible or not.
Settled(o) == IF bak[o] # NoSnapshot THEN bak[o] ELSE out[o]

\* A backup left by a dead publication makes every later one raise.
Stale(o) == bak[o] # NoSnapshot

\* Mutant of Aside: the old directory is deleted instead of renamed.
AsideWithoutBackup(o) ==
    /\ out' = [out EXCEPT ![o] = NoSnapshot]
    /\ UNCHANGED bak

Aside(o) ==
    /\ bak' = [bak EXCEPT ![o] = out[o]]
    /\ out' = [out EXCEPT ![o] = NoSnapshot]

In(o, s) ==
    /\ out' = [out EXCEPT ![o] = s]
    /\ UNCHANGED bak

DropBackup(o) ==
    /\ bak' = [bak EXCEPT ![o] = NoSnapshot]
    /\ UNCHANGED out

\* The second rename fails, or what it brought cannot be read back.
RollBack(o) ==
    /\ out' = [out EXCEPT ![o] = bak[o]]
    /\ bak' = [bak EXCEPT ![o] = NoSnapshot]
=============================================================================
