---------------------------- MODULE SessionLock ----------------------------
(***************************************************************************)
(* acquireSessionLock on one lock path: the file is created exclusively    *)
(* and then filled with the owner's pid; a file whose owner is dead is     *)
(* removed once it is old.  Each await of the code is a step, and the      *)
(* steps of all clients interleave.  A client is one caller within a       *)
(* process, one acquisition at a time; a process that dies comes back with *)
(* a new pid, its incarnation.                                             *)
(***************************************************************************)
EXTENDS Naturals, FiniteSets

CONSTANTS Clients,
          Processes,
          ProcessOf,        \* ProcessOf[c]: the process client c is part of
          NoFile,
          MaxCrashes        \* bound: deaths of each process

ASSUME ClientsAssumption == ProcessOf \in [Clients -> Processes]
ASSUME MaxCrashesAssumption == MaxCrashes \in Nat

VARIABLES lockFile,     \* what is at the lock path
          incarnation,  \* incarnation[p]: the deaths of process p so far
          lockStep,     \* lockStep[c]: where client c is in the protocol
          judged,       \* judged[c]: the file client c found stale
          misfired      \* history: a reclaim removed another file than that

lockVars == <<lockFile, incarnation, lockStep, judged, misfired>>
judgements == <<judged, misfired>>

LockSteps == {"idle", "open", "write", "held", "read", "reclaim"}

LockFiles == [owner : Clients, life : Nat, written : BOOLEAN, old : BOOLEAN]

ASSUME NoFileAssumption == NoFile \notin LockFiles

LockInit == /\ lockFile = NoFile
            /\ incarnation = [p \in Processes |-> 0]
            /\ lockStep = [c \in Clients |-> "idle"]
            /\ judged = [c \in Clients |-> NoFile]
            /\ misfired = FALSE

LockGoto(c, step) == lockStep' = [lockStep EXCEPT ![c] = step]

Begin(c) == /\ lockStep[c] = "idle"
            /\ LockGoto(c, "open")
            /\ UNCHANGED <<lockFile, incarnation, judgements>>

(* open(lockPath, "wx") *)
Open(c) ==
    /\ lockStep[c] = "open"
    /\ \/ /\ lockFile = NoFile
          /\ lockFile' = [owner |-> c, life |-> incarnation[ProcessOf[c]],
                          written |-> FALSE, old |-> FALSE]
          /\ LockGoto(c, "write")
       \/ /\ lockFile # NoFile
          /\ LockGoto(c, "read")
          /\ UNCHANGED lockFile
    /\ UNCHANGED <<incarnation, judgements>>

Holds(c) == lockFile # NoFile /\ lockFile.owner = c

(* fd.writeFile goes to the file that was opened, wherever it is by now. *)
Write(c) ==
    /\ lockStep[c] = "write"
    /\ LockGoto(c, "held")
    /\ lockFile' = IF Holds(c) THEN [lockFile EXCEPT !.written = TRUE] ELSE lockFile
    /\ UNCHANGED <<incarnation, judgements>>

(* A write that fails is thrown to the caller; the empty file stays. *)
WriteFails(c) ==
    /\ lockStep[c] = "write"
    /\ LockGoto(c, "idle")
    /\ UNCHANGED <<lockFile, incarnation, judgements>>

OwnerIsDead == lockFile.life # incarnation[ProcessOf[lockFile.owner]]

(* Mutant: age alone makes a lock stale. *)
StaleByAge == lockFile # NoFile /\ lockFile.written /\ lockFile.old
(* reclaimStaleLock up to its rm: the metadata is complete, older than     *)
(* staleAfterMs, and isPidAlive says no.                                   *)
Stale == lockFile # NoFile /\ lockFile.written /\ lockFile.old /\ OwnerIsDead

Read(c) ==
    /\ lockStep[c] = "read"
    /\ \/ /\ Stale
          /\ judged' = [judged EXCEPT ![c] = lockFile]
          /\ LockGoto(c, "reclaim")
       \/ ~ Stale /\ LockGoto(c, "open") /\ UNCHANGED judged
    /\ UNCHANGED <<lockFile, incarnation, misfired>>

(* rm(lockPath) removes whatever is there by now, be it the file that was  *)
(* found stale or one that another client has created meanwhile. *)
Reclaim(c) ==
    /\ lockStep[c] = "reclaim"
    /\ misfired' = (misfired \/ lockFile \notin {judged[c], NoFile})
    /\ lockFile' = NoFile
    /\ judged' = [judged EXCEPT ![c] = NoFile]
    /\ LockGoto(c, "open")
    /\ UNCHANGED incarnation

(* Mutant: the loop does not look at the deadline. *)
GiveUpNever(c) == FALSE /\ LockGoto(c, "idle") /\ UNCHANGED <<lockFile, incarnation, judgements>>
(* The deadline has passed: SESSION_LOCK_TIMEOUT. *)
GiveUp(c) ==
    /\ lockStep[c] = "open"
    /\ LockGoto(c, "idle")
    /\ UNCHANGED <<lockFile, incarnation, judgements>>

(* rm(lockPath, { force: true }), without a look at the owner. *)
Release(c) ==
    /\ lockStep[c] = "held"
    /\ lockFile' = NoFile
    /\ LockGoto(c, "idle")
    /\ UNCHANGED <<incarnation, judgements>>

(* fd.close or rm throws: the file stays, and its owner is alive. *)
ReleaseFails(c) ==
    /\ lockStep[c] = "held"
    /\ LockGoto(c, "idle")
    /\ UNCHANGED <<lockFile, incarnation, judgements>>

(* staleAfterMs have passed since createdAt. *)
LockAges ==
    /\ lockFile # NoFile /\ lockFile.written /\ ~ lockFile.old
    /\ lockFile' = [lockFile EXCEPT !.old = TRUE]
    /\ UNCHANGED <<incarnation, lockStep, judgements>>

Dies(p) ==
    /\ incarnation[p] < MaxCrashes
    /\ incarnation' = [incarnation EXCEPT ![p] = @ + 1]
    /\ lockStep' = [c \in Clients |-> IF ProcessOf[c] = p THEN "idle" ELSE lockStep[c]]
    /\ judged' = [c \in Clients |-> IF ProcessOf[c] = p THEN NoFile ELSE judged[c]]
    /\ UNCHANGED <<lockFile, misfired>>

LockNext ==
    \/ LockAges
    \/ \E p \in Processes : Dies(p)
    \/ \E c \in Clients : \/ Begin(c) \/ Open(c) \/ Write(c) \/ WriteFails(c)
                          \/ Read(c) \/ Reclaim(c) \/ GiveUp(c)
                          \/ Release(c) \/ ReleaseFails(c)

LockSpec == LockInit /\ [][LockNext]_lockVars
-----------------------------------------------------------------------------
LockTypeOK == /\ lockFile \in LockFiles \cup {NoFile}
              /\ incarnation \in [Processes -> 0..MaxCrashes]
              /\ lockStep \in [Clients -> LockSteps]
              /\ judged \in [Clients -> LockFiles \cup {NoFile}]
              /\ misfired \in BOOLEAN

LockHolders == {c \in Clients : lockStep[c] = "held"}

(* What the runtime's README says of the lock: it makes the access to a    *)
(* session's state atomic, so two clients never hold it at once.           *)
SingleHolder == Cardinality(LockHolders) <= 1

(* Until a reclaim has removed a file it did not judge, a holder's lock    *)
(* file is never taken away or replaced, so a release removes the          *)
(* releaser's own file.                                                    *)
HolderOwnsFile == misfired \/ \A c \in LockHolders : Holds(c) /\ ~ OwnerIsDead

Exclusion == INSTANCE Mutex WITH holders <- LockHolders

(* Until then the protocol implements a mutual-exclusion lock: the rm of a *)
(* reclaim that came too late is the one step that breaks it.              *)
MutexUntilMisfire == Exclusion!Init /\ [][misfired' \/ Exclusion!Next]_LockHolders
=============================================================================
