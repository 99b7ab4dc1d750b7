------------------------- MODULE SessionLockProofs -------------------------
(***************************************************************************)
(* Proofs about SessionLock, for any clients and processes, and about the  *)
(* work queue built on it.  Mutual exclusion, and what the queue owes to   *)
(* it, ends with a misfire: the rm of a reclaim that removes another file  *)
(* than the one it judged.  What is proved here is that nothing else ends  *)
(* it, and that no reclaim misfires while no process has died.             *)
(***************************************************************************)
EXTENDS WorkQueue, SequenceTheorems, FiniteSetTheorems, TLAPS

LEMMA InitLockTypeOK == LockInit => LockTypeOK
<1> SUFFICES ASSUME LockInit PROVE LockTypeOK
  OBVIOUS
<1>1. 0 \in 0..MaxCrashes
  BY MaxCrashesAssumption
<1>2. incarnation \in [Processes -> 0..MaxCrashes] /\ lockStep \in [Clients -> LockSteps]
  BY <1>1 DEF LockInit, LockSteps
<1>3. judged \in [Clients -> LockFiles \cup {NoFile}]
  BY DEF LockInit
<1>4. QED
  BY <1>2, <1>3 DEF LockInit, LockTypeOK

LEMMA LockTyped == LockInit /\ [][LockNext]_lockVars => []LockTypeOK
<1> USE ClientsAssumption, MaxCrashesAssumption
<1>1. LockInit => LockTypeOK
  BY InitLockTypeOK
<1>2. LockTypeOK /\ [LockNext]_lockVars => LockTypeOK'
  <2> SUFFICES ASSUME LockTypeOK, [LockNext]_lockVars PROVE LockTypeOK'
    OBVIOUS
  <2> USE DEF LockTypeOK, LockSteps, LockFiles, LockGoto, judgements
  <2>1. CASE LockAges
    BY <2>1 DEF LockAges
  <2>2. ASSUME NEW p \in Processes, Dies(p) PROVE LockTypeOK'
    BY <2>2 DEF Dies
  <2>3. ASSUME NEW c \in Clients, Begin(c) \/ Read(c) \/ GiveUp(c) \/ WriteFails(c)
        PROVE  LockTypeOK'
    BY <2>3 DEF Begin, Read, Stale, GiveUp, WriteFails
  <2>4. ASSUME NEW c \in Clients, Open(c) PROVE LockTypeOK'
    <3>1. CASE lockFile = NoFile
      <4>1. incarnation[ProcessOf[c]] \in Nat
        <5>1. incarnation[ProcessOf[c]] \in 0..MaxCrashes
          OBVIOUS
        <5>2. QED
          BY <5>1
      <4>2. lockFile' \in LockFiles
        <5>1. lockFile' = [owner |-> c, life |-> incarnation[ProcessOf[c]],
                           written |-> FALSE, old |-> FALSE]
          BY <2>4, <3>1 DEF Open
        <5>2. QED
          BY <4>1, <5>1
      <4>3. QED
        BY <2>4, <3>1, <4>2 DEF Open
    <3>2. CASE lockFile # NoFile
      BY <2>4, <3>2 DEF Open
    <3>3. QED
      BY <3>1, <3>2
  <2>5. ASSUME NEW c \in Clients, Write(c) PROVE LockTypeOK'
    BY <2>5 DEF Write, Holds
  <2>6. ASSUME NEW c \in Clients, Reclaim(c) \/ Release(c) \/ ReleaseFails(c) PROVE LockTypeOK'
    BY <2>6 DEF Reclaim, Release, ReleaseFails
  <2>7. CASE UNCHANGED lockVars
    BY <2>7 DEF lockVars
  <2>8. QED
    BY <2>1, <2>2, <2>3, <2>4, <2>5, <2>6, <2>7 DEF LockNext
<1>3. QED
  BY <1>1, <1>2, PTL

(* The lock's state is well typed in every behaviour of the protocol. *)
THEOREM LockTypeCorrectness == LockSpec => []LockTypeOK
  BY LockTyped DEF LockSpec
-----------------------------------------------------------------------------
(* A lock file names no incarnation of its owner that is yet to come: once *)
(* its owner is dead, it is dead for good.                                 *)
DeathIsFinal == lockFile # NoFile => lockFile.life <= incarnation[ProcessOf[lockFile.owner]]

(* The file somebody judged and is about to remove is that of a process    *)
(* that is dead for good.                                                  *)
JudgesTheDead ==
    \A c \in Clients : lockStep[c] = "reclaim" =>
        judged[c] # NoFile /\ judged[c].life < incarnation[ProcessOf[judged[c].owner]]

(* Who created the lock file and goes on to hold it finds it in its place. *)
OwnersOwn == \A c \in Clients : lockStep[c] \in {"write", "held"} => Holds(c) /\ ~ OwnerIsDead

LockBase == LockTypeOK /\ DeathIsFinal /\ JudgesTheDead

LockInv == LockBase /\ OwnersOwn

LEMMA LivesAreNumbers ==
    ASSUME LockTypeOK
    PROVE  /\ \A c \in Clients : ProcessOf[c] \in Processes
           /\ \A p \in Processes : incarnation[p] \in Nat
           /\ lockFile # NoFile => lockFile.owner \in Clients /\ lockFile.life \in Nat
           /\ \A c \in Clients : judged[c] # NoFile =>
                  judged[c].owner \in Clients /\ judged[c].life \in Nat
<1>1. \A p \in Processes : incarnation[p] \in 0..MaxCrashes
  BY DEF LockTypeOK
<1>2. \A file \in LockFiles : file.owner \in Clients /\ file.life \in Nat
  BY DEF LockFiles
<1>3. QED
  BY <1>1, <1>2, ClientsAssumption, MaxCrashesAssumption DEF LockTypeOK

LEMMA DeathsAddUp ==
    ASSUME LockTypeOK, NEW p \in Processes, Dies(p)
    PROVE  \A q \in Processes : incarnation'[q] \in {incarnation[q], incarnation[q] + 1}
  BY DEF LockTypeOK, Dies

LEMMA NewFile ==
    ASSUME LockTypeOK, NEW c \in Clients, Open(c), lockFile = NoFile
    PROVE  /\ lockFile' # NoFile
           /\ lockFile'.owner = c /\ lockFile'.life = incarnation'[ProcessOf[c]]
           /\ lockStep' = [lockStep EXCEPT ![c] = "write"]
<1>1. /\ lockFile' = [owner |-> c, life |-> incarnation[ProcessOf[c]],
                      written |-> FALSE, old |-> FALSE]
      /\ incarnation' = incarnation /\ lockStep' = [lockStep EXCEPT ![c] = "write"]
  BY DEF Open, LockGoto
<1>2. incarnation[ProcessOf[c]] \in Nat
  BY LivesAreNumbers
<1>3. lockFile' \in LockFiles
  BY <1>1, <1>2 DEF LockFiles
<1>4. QED
  BY <1>1, <1>3, NoFileAssumption

LEMMA LockBaseStep == ASSUME LockBase, [LockNext]_lockVars, LockTypeOK' PROVE LockBase'
<1> USE DEF LockBase, DeathIsFinal, JudgesTheDead, LockGoto, judgements
<1>0. /\ \A c \in Clients : ProcessOf[c] \in Processes
      /\ \A p \in Processes : incarnation[p] \in Int
      /\ lockFile # NoFile => lockFile.owner \in Clients /\ lockFile.life \in Int
      /\ \A c \in Clients : judged[c] # NoFile =>
             judged[c].owner \in Clients /\ judged[c].life \in Int
      /\ lockStep = [c \in Clients |-> lockStep[c]] /\ judged = [c \in Clients |-> judged[c]]
  BY LivesAreNumbers DEF LockTypeOK
<1>1. CASE LockAges
  <2>1. lockFile # NoFile /\ lockFile' # NoFile /\ UNCHANGED <<incarnation, lockStep, judged>>
    BY <1>1, NoFileAssumption DEF LockAges, LockTypeOK, LockFiles
  <2>2. lockFile'.owner = lockFile.owner /\ lockFile'.life = lockFile.life
    BY <1>1 DEF LockAges, LockTypeOK, LockFiles
  <2>3. QED
    BY <2>1, <2>2
<1>2. ASSUME NEW p \in Processes, Dies(p) PROVE LockBase'
  <2>1. \A q \in Processes : incarnation'[q] \in {incarnation[q], incarnation[q] + 1}
    BY <1>2, DeathsAddUp
  <2>2. DeathIsFinal'
    BY <1>0, <1>2, <2>1 DEF Dies
  <2>3. ASSUME NEW c \in Clients, lockStep'[c] = "reclaim"
        PROVE  judged'[c] # NoFile /\ judged'[c].life < incarnation'[ProcessOf[judged'[c].owner]]
    <3>1. lockStep[c] = "reclaim" /\ judged'[c] = judged[c]
      BY <1>0, <1>2, <2>3 DEF Dies
    <3>2. QED
      BY <1>0, <2>1, <3>1
  <2>4. QED
    BY <2>2, <2>3
<1>3. ASSUME NEW c \in Clients, \/ Begin(c) \/ GiveUp(c) \/ WriteFails(c) \/ Write(c)
                                \/ Release(c) \/ ReleaseFails(c)
      PROVE  LockBase'
  <2>1. /\ UNCHANGED <<incarnation, judged>>
        /\ \A b \in Clients : lockStep'[b] = "reclaim" => lockStep[b] = "reclaim"
    BY <1>0, <1>3 DEF Begin, GiveUp, WriteFails, Write, Release, ReleaseFails
  <2>2. lockFile' # NoFile =>
            lockFile # NoFile /\ lockFile'.owner = lockFile.owner /\ lockFile'.life = lockFile.life
    BY <1>3 DEF Begin, GiveUp, WriteFails, Write, Release, ReleaseFails, Holds, LockTypeOK, LockFiles
  <2>3. QED
    BY <2>1, <2>2
<1>4. ASSUME NEW c \in Clients, Read(c) PROVE LockBase'
  <2>1. CASE Stale /\ judged' = [judged EXCEPT ![c] = lockFile]
    <3>1. lockFile # NoFile /\ lockFile.life < incarnation[ProcessOf[lockFile.owner]]
      BY <1>0, <2>1 DEF Stale, OwnerIsDead
    <3>2. \A b \in Clients : /\ b # c => judged'[b] = judged[b]
                             /\ lockStep'[b] = "reclaim" => b = c \/ lockStep[b] = "reclaim"
      BY <1>0, <1>4, <2>1 DEF Read
    <3>3. judged'[c] = lockFile /\ UNCHANGED <<lockFile, incarnation>>
      BY <1>0, <1>4, <2>1 DEF Read
    <3>4. QED
      BY <3>1, <3>2, <3>3
  <2>2. CASE LockGoto(c, "open") /\ UNCHANGED judged
    BY <1>0, <1>4, <2>2 DEF Read
  <2>3. QED
    BY <1>4, <2>1, <2>2 DEF Read
<1>5. ASSUME NEW c \in Clients, Open(c) PROVE LockBase'
  <2>1. /\ UNCHANGED <<incarnation, judged>>
        /\ \A b \in Clients : lockStep'[b] = "reclaim" => lockStep[b] = "reclaim"
    BY <1>0, <1>5 DEF Open
  <2>2. CASE lockFile = NoFile
    BY <1>0, <1>5, <2>1, <2>2, NewFile
  <2>3. CASE lockFile # NoFile
    BY <1>5, <2>1, <2>3 DEF Open
  <2>4. QED
    BY <2>2, <2>3
<1>6. ASSUME NEW c \in Clients, Reclaim(c) PROVE LockBase'
  <2>1. /\ lockFile' = NoFile /\ UNCHANGED incarnation
        /\ \A b \in Clients : lockStep'[b] = "reclaim" =>
               lockStep[b] = "reclaim" /\ judged'[b] = judged[b]
    BY <1>0, <1>6 DEF Reclaim
  <2>2. QED
    BY <2>1
<1>7. CASE UNCHANGED lockVars
  BY <1>7 DEF lockVars
<1>8. QED
  BY <1>1, <1>2, <1>3, <1>4, <1>5, <1>6, <1>7 DEF LockNext

LEMMA OwnersOwnStep ==
    ASSUME LockInv, [LockNext]_lockVars, LockTypeOK', ~ misfired' PROVE OwnersOwn'
<1> USE DEF LockInv, LockBase, OwnersOwn, Holds, OwnerIsDead, LockGoto, judgements
<1>0. /\ lockStep = [c \in Clients |-> lockStep[c]]
      /\ \A c \in Clients : ProcessOf[c] \in Processes
      /\ incarnation = [p \in Processes |-> incarnation[p]]
  BY ClientsAssumption DEF LockTypeOK
<1>1. CASE LockAges
  <2>1. lockFile # NoFile /\ lockFile' # NoFile /\ UNCHANGED <<incarnation, lockStep>>
    BY <1>1, NoFileAssumption DEF LockAges, LockTypeOK, LockFiles
  <2>2. lockFile'.owner = lockFile.owner /\ lockFile'.life = lockFile.life
    BY <1>1 DEF LockAges, LockTypeOK, LockFiles
  <2>3. QED
    BY <2>1, <2>2
<1>2. ASSUME NEW p \in Processes, Dies(p) PROVE OwnersOwn'
  <2> SUFFICES ASSUME NEW c \in Clients, lockStep'[c] \in {"write", "held"}
               PROVE  (Holds(c) /\ ~ OwnerIsDead)'
    OBVIOUS
  <2>1. ProcessOf[c] # p /\ lockStep[c] \in {"write", "held"} /\ lockFile' = lockFile
    BY <1>2 DEF Dies
  <2>2. incarnation'[ProcessOf[c]] = incarnation[ProcessOf[c]]
    BY <1>0, <1>2, <2>1 DEF Dies
  <2>3. QED
    BY <2>1, <2>2
<1>3. ASSUME NEW c \in Clients, \/ Begin(c) \/ GiveUp(c) \/ WriteFails(c) \/ Read(c) \/ ReleaseFails(c)
      PROVE  OwnersOwn'
  <2>1. /\ UNCHANGED <<lockFile, incarnation>>
        /\ \A b \in Clients : lockStep'[b] \in {"write", "held"} => lockStep[b] \in {"write", "held"}
    BY <1>0, <1>3 DEF Begin, GiveUp, WriteFails, Read, ReleaseFails
  <2>2. QED
    BY <2>1
<1>4. ASSUME NEW c \in Clients, Open(c) PROVE OwnersOwn'
  <2>1. CASE lockFile = NoFile
    <3>1. \A b \in Clients : lockStep'[b] \in {"write", "held"} => b = c
      BY <1>0, <1>4, <2>1, NewFile
    <3>2. QED
      BY <1>4, <2>1, <3>1, NewFile
  <2>2. CASE lockFile # NoFile
    <3>1. /\ UNCHANGED <<lockFile, incarnation>>
          /\ \A b \in Clients : lockStep'[b] \in {"write", "held"} => lockStep[b] \in {"write", "held"}
      BY <1>0, <1>4, <2>2 DEF Open
    <3>2. QED
      BY <3>1
  <2>3. QED
    BY <2>1, <2>2
<1>5. ASSUME NEW c \in Clients, Write(c) PROVE OwnersOwn'
  <2>1. /\ Holds(c) /\ lockFile' = [lockFile EXCEPT !.written = TRUE] /\ UNCHANGED incarnation
        /\ \A b \in Clients : lockStep'[b] \in {"write", "held"} => lockStep[b] \in {"write", "held"}
    BY <1>0, <1>5 DEF Write
  <2>2. lockFile' # NoFile /\ lockFile'.owner = lockFile.owner /\ lockFile'.life = lockFile.life
    BY <2>1, NoFileAssumption DEF LockTypeOK, LockFiles
  <2>3. QED
    BY <2>1, <2>2
<1>6. ASSUME NEW c \in Clients, Reclaim(c) PROVE OwnersOwn'
  <2>1. lockStep[c] = "reclaim" /\ lockFile \in {judged[c], NoFile}
    BY <1>6 DEF Reclaim
  <2>2. ASSUME NEW b \in Clients, lockStep'[b] \in {"write", "held"} PROVE FALSE
    <3>1. lockStep[b] \in {"write", "held"}
      BY <1>0, <1>6, <2>2 DEF Reclaim
    <3>2. lockFile = judged[c] /\ lockFile.life = incarnation[ProcessOf[lockFile.owner]]
      BY <2>1, <3>1
    <3>3. judged[c].life < incarnation[ProcessOf[judged[c].owner]]
      BY <2>1 DEF JudgesTheDead
    <3>4. incarnation[ProcessOf[lockFile.owner]] \in Int
      BY <3>1, LivesAreNumbers
    <3>5. QED
      BY <3>2, <3>3, <3>4
  <2>3. QED
    BY <2>2
<1>7. ASSUME NEW c \in Clients, Release(c) PROVE OwnersOwn'
  <2>1. ASSUME NEW b \in Clients, lockStep'[b] \in {"write", "held"} PROVE FALSE
    <3>1. b # c /\ lockStep[b] \in {"write", "held"} /\ lockStep[c] = "held"
      BY <1>0, <1>7, <2>1 DEF Release
    <3>2. QED
      BY <3>1
  <2>2. QED
    BY <2>1
<1>8. CASE UNCHANGED lockVars
  BY <1>8 DEF lockVars
<1>9. QED
  BY <1>1, <1>2, <1>3, <1>4, <1>5, <1>6, <1>7, <1>8 DEF LockNext

LEMMA MisfiresStay == misfired /\ [LockNext]_lockVars => misfired'
<1> SUFFICES ASSUME misfired, [LockNext]_lockVars PROVE misfired'
  OBVIOUS
<1> USE DEF judgements
<1>1. ASSUME NEW c \in Clients, \/ Begin(c) \/ Open(c) \/ Write(c) \/ WriteFails(c) \/ Read(c)
                                \/ Reclaim(c) \/ GiveUp(c) \/ Release(c) \/ ReleaseFails(c)
      PROVE  misfired'
  BY <1>1 DEF Begin, Open, Write, WriteFails, Read, Reclaim, GiveUp, Release, ReleaseFails
<1>2. CASE LockAges \/ (\E p \in Processes : Dies(p)) \/ UNCHANGED lockVars
  BY <1>2 DEF LockAges, Dies, lockVars
<1>3. QED
  BY <1>1, <1>2 DEF LockNext

LEMMA InitLockInv == LockInit => LockInv
<1>1. LockInit => LockTypeOK
  BY InitLockTypeOK
<1>2. LockInit => DeathIsFinal /\ JudgesTheDead /\ OwnersOwn
  BY DEF LockInit, DeathIsFinal, JudgesTheDead, OwnersOwn
<1>3. QED
  BY <1>1, <1>2 DEF LockInv, LockBase

LEMMA LockInvariance == LockSpec => [](LockBase /\ (misfired \/ LockInv))
<1>1. LockInit => LockBase /\ (misfired \/ LockInv)
  BY InitLockInv DEF LockInv
<1>2. LockBase /\ (misfired \/ LockInv) /\ [LockNext]_lockVars /\ LockTypeOK'
      => (LockBase /\ (misfired \/ LockInv))'
  BY LockBaseStep, OwnersOwnStep, MisfiresStay DEF LockInv
<1>3. QED
  BY <1>1, <1>2, LockTyped, PTL DEF LockSpec

(* Until a reclaim removes another file than the one it judged, the file   *)
(* of a live holder is its own and stays: a release removes nobody else's  *)
(* lock, and no reclaim is in the right to remove a live one.              *)
THEOREM HoldersKeepTheirFile == LockSpec => []HolderOwnsFile
<1>1. misfired \/ LockInv => HolderOwnsFile
  BY DEF LockInv, OwnersOwn, HolderOwnsFile, LockHolders
<1>2. QED
  BY <1>1, LockInvariance, PTL

LEMMA LockStepMaps ==
    ASSUME LockInv, LockInv', [LockNext]_lockVars
    PROVE  [Exclusion!Next]_LockHolders
<1> USE ClientsAssumption DEF LockInv, LockBase, LockTypeOK, LockSteps, LockGoto, LockHolders
<1>1. ASSUME NEW a \in LockHolders, NEW b \in LockHolders PROVE a = b
  BY <1>1 DEF OwnersOwn, Holds
<1>2. CASE UNCHANGED lockVars \/ LockAges
  BY <1>2 DEF lockVars, LockAges
<1>3. ASSUME NEW p \in Processes, Dies(p) PROVE [Exclusion!Next]_LockHolders
  <2>1. LockHolders' \subseteq LockHolders
    BY <1>3 DEF Dies
  <2>2. LockHolders' = LockHolders \/ (LockHolders # {} /\ LockHolders' = {})
    BY <1>1, <2>1
  <2>3. QED
    BY <2>2 DEF Exclusion!Next, Exclusion!Lose
<1>4. ASSUME NEW c \in Clients, Begin(c) \/ GiveUp(c) \/ WriteFails(c) \/ Read(c) \/ Reclaim(c) \/ Open(c)
      PROVE  LockHolders' = LockHolders
  BY <1>4 DEF Begin, GiveUp, WriteFails, Read, Reclaim, Open
<1>5. ASSUME NEW c \in Clients, Write(c) PROVE [Exclusion!Next]_LockHolders
  <2>1. LockHolders = {}
    BY <1>5 DEF Write, OwnersOwn, Holds
  <2>2. LockHolders' = {c}
    BY <1>5, <2>1 DEF Write
  <2>3. QED
    BY <2>1, <2>2 DEF Exclusion!Next, Exclusion!Acquire
<1>6. ASSUME NEW c \in Clients, Release(c) \/ ReleaseFails(c) PROVE [Exclusion!Next]_LockHolders
  <2>1. c \in LockHolders /\ LockHolders' = LockHolders \ {c}
    BY <1>6 DEF Release, ReleaseFails
  <2>2. LockHolders' = {}
    BY <1>1, <2>1
  <2>3. QED
    BY <2>1, <2>2 DEF Exclusion!Next, Exclusion!Lose
<1>7. QED
  BY <1>2, <1>3, <1>4, <1>5, <1>6 DEF LockNext

(* The file protocol implements a mutual-exclusion lock for as long as no  *)
(* reclaim has removed another file than the one it judged: no crash, age, *)
(* failed write, failed release or timeout alone breaks it.                *)
THEOREM LockIsMutex == LockSpec => MutexUntilMisfire
<1>1. LockInit => Exclusion!Init
  BY DEF LockInit, LockHolders, Exclusion!Init
<1>2. (misfired \/ LockInv) /\ (misfired \/ LockInv)' /\ [LockNext]_lockVars
      => [misfired' \/ Exclusion!Next]_LockHolders
  BY LockStepMaps, MisfiresStay
<1>3. QED
  BY <1>1, <1>2, LockInvariance, PTL DEF LockSpec, MutexUntilMisfire

LEMMA MisfiresAreOfTheDead ==
    ASSUME LockBase, [LockNext]_lockVars, ~ misfired, misfired'
    PROVE  \E p \in Processes : incarnation[p] # 0
<1> USE DEF judgements
<1>1. PICK c \in Clients : Reclaim(c)
  BY DEF LockNext, LockAges, Dies, Begin, Open, Write, WriteFails, Read, GiveUp, Release,
         ReleaseFails, lockVars
<1>2. judged[c] # NoFile /\ judged[c].life < incarnation[ProcessOf[judged[c].owner]]
  BY <1>1 DEF Reclaim, LockBase, JudgesTheDead
<1>3. /\ judged[c].life \in Nat /\ ProcessOf[judged[c].owner] \in Processes
      /\ incarnation[ProcessOf[judged[c].owner]] \in Nat
  BY <1>2, LivesAreNumbers DEF LockBase
<1>4. QED
  BY <1>2, <1>3

(* While no process has died, the lock is a mutual-exclusion lock without  *)
(* any condition: a reclaim misfires only over the file of a dead process. *)
THEOREM MutexWhileNobodyDies ==
    LockSpec /\ [](\A p \in Processes : incarnation[p] = 0) => Exclusion!Spec
<1>1. LockInit => ~ misfired
  BY DEF LockInit
<1>2. LockBase /\ [LockNext]_lockVars /\ (\A p \in Processes : incarnation[p] = 0)
      /\ ~ misfired => ~ misfired'
  BY MisfiresAreOfTheDead
<1>3. LockInit => Exclusion!Init
  BY DEF LockInit, LockHolders, Exclusion!Init
<1>4. (misfired \/ LockInv) /\ (misfired \/ LockInv)' /\ ~ misfired /\ ~ misfired' /\ [LockNext]_lockVars
      => [Exclusion!Next]_LockHolders
  BY LockStepMaps
<1>5. QED
  BY <1>1, <1>2, <1>3, <1>4, LockInvariance, PTL DEF LockSpec, Exclusion!Spec
-----------------------------------------------------------------------------
(* The work queue takes steps of the lock only as the lock allows them.    *)
LEMMA WorkStepsAreLockSteps == [WorkNext]_workVars => [LockNext]_lockVars
<1> USE DEF LockNext, workVars
<1>1. ASSUME NEW p \in Processes, ProcessDies(p) PROVE LockNext
  BY <1>1 DEF ProcessDies
<1>2. ASSUME NEW c \in Clients, CallEnqueue(c) \/ CallDrain(c) \/ AcquireStep(c) \/ AcquireFails(c) \/ Return(c)
      PROVE  LockNext
  BY <1>2 DEF CallEnqueue, CallDrain, AcquireStep, AcquireFails, Return
<1>3. ASSUME NEW c \in Clients, Progress(c), ~ Return(c) PROVE UNCHANGED lockVars
  BY <1>3 DEF Progress, Load, Save, DrainLoad, Mark, HandlerEnds, HandlerFails, RemoveBatch,
              Reload, Unmark, SaveFails, LoadFails
<1>4. QED
  BY <1>1, <1>2, <1>3 DEF WorkNext, Acquisition, TimePasses

LEMMA WorkImplementsLock == WorkSpec => LockSpec
<1>1. WorkInit => LockInit
  BY DEF WorkInit
<1>2. QED
  BY <1>1, WorkStepsAreLockSteps, PTL DEF WorkSpec, LockSpec

(* Whatever the queue does with the lock, until a misfire a holder keeps   *)
(* its file ...                                                            *)
THEOREM QueueHoldersKeepTheirFile == WorkSpec => []HolderOwnsFile
  BY WorkImplementsLock, HoldersKeepTheirFile, PTL

(* ... and nobody else is inside.                                          *)
THEOREM QueueLockIsMutex == WorkSpec => MutexUntilMisfire
  BY WorkImplementsLock, LockIsMutex, PTL
-----------------------------------------------------------------------------
(* A call is past its acquisition only with the lock held, and a process   *)
(* drains in one call at a time.                                           *)
InsideHolds == \A c \in Clients : at[c] \notin Outside => lockStep[c] = "held"

OneDrainer == \A c, b \in Clients :
    at[c] \in DrainPlaces /\ at[b] \in DrainPlaces /\ ProcessOf[c] = ProcessOf[b] => c = b

IsQueue(queue) == queue = [items |-> queue.items, draining |-> queue.draining]

WorkTyped == /\ at \in [Clients -> Places]
             /\ loaded = [c \in Clients |-> loaded[c]]
             /\ IsQueue(disk)
             /\ \A c \in Clients : IsQueue(loaded[c])
             /\ drainingSessions \subseteq Processes

(* What a client is going to save is what it loaded and still is on disk.  *)
FreshCopies ==
    \A c \in Clients :
        at[c] \in {"save", "mark", "handle", "remove", "unmark"} => loaded[c].items = disk.items

(* The guard needs no lock; the rest holds until a misfire.                *)
GuardInv == WorkTyped /\ OneDrainer /\ GuardIsExact

WorkInv == LockInv /\ WorkTyped /\ InsideHolds /\ FreshCopies

LEMMA WorkTypedStep == ASSUME WorkTyped, [WorkNext]_workVars PROVE WorkTyped'
<1> USE ClientsAssumption DEF WorkTyped, Goto, SetLoaded, LetGo, Places, DrainPlaces, IsQueue, NoQueue
<1>1. ASSUME NEW p \in Processes, ProcessDies(p) PROVE WorkTyped'
  BY <1>1 DEF ProcessDies
<1>2. ASSUME NEW c \in Clients, CallEnqueue(c) \/ CallDrain(c) \/ AcquireStep(c) \/ AcquireFails(c) \/ Return(c)
      PROVE  WorkTyped'
  <2>1. CASE CallEnqueue(c) \/ CallDrain(c)
    <3>1. ProcessOf[c] \in Processes
      OBVIOUS
    <3>2. QED
      BY <2>1, <3>1 DEF CallEnqueue, CallDrain
  <2>2. CASE AcquireStep(c)
    BY <2>2 DEF AcquireStep
  <2>3. CASE AcquireFails(c)
    BY <2>3 DEF AcquireFails
  <2>4. CASE Return(c)
    BY <2>4 DEF Return
  <2>5. QED
    BY <1>2, <2>1, <2>2, <2>3, <2>4
<1>3. ASSUME NEW c \in Clients, Load(c) \/ Save(c) \/ DrainLoad(c) \/ Mark(c) \/ HandlerEnds(c)
      PROVE  WorkTyped'
  <2>1. CASE Load(c)
    BY <2>1 DEF Load
  <2>2. CASE Save(c)
    BY <2>2 DEF Save
  <2>3. CASE DrainLoad(c)
    BY <2>3 DEF DrainLoad
  <2>4. CASE Mark(c)
    BY <2>4 DEF Mark, NextBatchOrEnd
  <2>5. CASE HandlerEnds(c)
    BY <2>5 DEF HandlerEnds
  <2>6. QED
    BY <1>3, <2>1, <2>2, <2>3, <2>4, <2>5
<1>4. ASSUME NEW c \in Clients, HandlerFails(c) \/ RemoveBatch(c) \/ Reload(c) \/ Unmark(c) \/ SaveFails(c) \/ LoadFails(c)
      PROVE  WorkTyped'
  <2>1. CASE HandlerFails(c)
    BY <2>1 DEF HandlerFails
  <2>2. CASE RemoveBatch(c)
    BY <2>2 DEF RemoveBatch, NextBatchOrEnd
  <2>3. CASE Reload(c)
    BY <2>3 DEF Reload
  <2>4. CASE Unmark(c)
    BY <2>4 DEF Unmark
  <2>5. CASE SaveFails(c) \/ LoadFails(c)
    BY <2>5 DEF SaveFails, LoadFails
  <2>6. QED
    BY <1>4, <2>1, <2>2, <2>3, <2>4, <2>5
<1>5. CASE TimePasses \/ UNCHANGED workVars
  BY <1>5 DEF TimePasses, queueVars, workVars
<1>6. QED
  BY <1>1, <1>2, <1>3, <1>4, <1>5 DEF WorkNext, Acquisition, Progress

LEMMA InsideHoldsStep ==
    ASSUME LockInv, WorkTyped, InsideHolds, [WorkNext]_workVars PROVE InsideHolds'
<1> USE ClientsAssumption
    DEF LockInv, LockBase, LockTypeOK, WorkTyped, InsideHolds, Goto, LockGoto, Outside, lockVars
<1>1. ASSUME NEW p \in Processes, ProcessDies(p) PROVE InsideHolds'
  BY <1>1 DEF ProcessDies, Dies
<1>2. ASSUME NEW c \in Clients, CallEnqueue(c) \/ CallDrain(c) PROVE InsideHolds'
  BY <1>2 DEF CallEnqueue, CallDrain, Begin
<1>3. ASSUME NEW c \in Clients, AcquireStep(c) PROVE InsideHolds'
  BY <1>3 DEF AcquireStep, Open, Read, Reclaim, Write
<1>4. ASSUME NEW c \in Clients, AcquireFails(c) PROVE InsideHolds'
  BY <1>4 DEF AcquireFails, GiveUp, WriteFails
<1>5. ASSUME NEW c \in Clients, Return(c) PROVE InsideHolds'
  BY <1>5 DEF Return, Release, ReleaseFails
<1>6. ASSUME NEW c \in Clients, Progress(c), ~ Return(c) PROVE InsideHolds'
  BY <1>6 DEF Progress, Load, Save, DrainLoad, Mark, HandlerEnds, HandlerFails, RemoveBatch,
              Reload, Unmark, SaveFails, LoadFails, NextBatchOrEnd
<1>7. CASE TimePasses \/ UNCHANGED workVars
  BY <1>7 DEF TimePasses, LockAges, queueVars, workVars
<1>8. QED
  BY <1>1, <1>2, <1>3, <1>4, <1>5, <1>6, <1>7 DEF WorkNext, Acquisition

LEMMA GuardKept ==
    ASSUME OneDrainer, GuardIsExact, UNCHANGED drainingSessions,
           \A b \in Clients : at'[b] \in DrainPlaces <=> at[b] \in DrainPlaces
    PROVE  OneDrainer' /\ GuardIsExact'
  BY DEF OneDrainer, GuardIsExact

LEMMA GuardDropped ==
    ASSUME OneDrainer, GuardIsExact, NEW p, drainingSessions' = drainingSessions \ {p},
           \A b \in Clients :
               at'[b] \in DrainPlaces <=> at[b] \in DrainPlaces /\ ProcessOf[b] # p
    PROVE  OneDrainer' /\ GuardIsExact'
  BY DEF OneDrainer, GuardIsExact

LEMMA GuardStep ==
    ASSUME WorkTyped, OneDrainer, GuardIsExact, [WorkNext]_workVars
    PROVE  OneDrainer' /\ GuardIsExact'
<1> USE ClientsAssumption DEF WorkTyped, Goto, LetGo
<1>1. ASSUME NEW p \in Processes, ProcessDies(p) PROVE OneDrainer' /\ GuardIsExact'
  <2>1. \A b \in Clients : at'[b] \in DrainPlaces <=> at[b] \in DrainPlaces /\ ProcessOf[b] # p
    BY <1>1 DEF ProcessDies, DrainPlaces
  <2>2. QED
    BY <1>1, <2>1, GuardDropped DEF ProcessDies
<1>2. ASSUME NEW c \in Clients, CallEnqueue(c) PROVE OneDrainer' /\ GuardIsExact'
  <2>1. \A b \in Clients : at'[b] \in DrainPlaces <=> at[b] \in DrainPlaces
    BY <1>2 DEF CallEnqueue, DrainPlaces
  <2>2. QED
    BY <1>2, <2>1, GuardKept DEF CallEnqueue
<1>3. ASSUME NEW c \in Clients, CallDrain(c) PROVE OneDrainer' /\ GuardIsExact'
  <2>1. \A b \in Clients : at'[b] \in DrainPlaces <=> at[b] \in DrainPlaces \/ b = c
    BY <1>3 DEF CallDrain, DrainPlaces
  <2>2. drainingSessions' = drainingSessions \cup {ProcessOf[c]} /\ ProcessOf[c] \notin drainingSessions
    BY <1>3 DEF CallDrain
  <2>3. QED
    BY <2>1, <2>2 DEF OneDrainer, GuardIsExact
<1>4. ASSUME NEW c \in Clients, AcquireStep(c) PROVE OneDrainer' /\ GuardIsExact'
  <2>1. \A b \in Clients : at'[b] \in DrainPlaces <=> at[b] \in DrainPlaces
    BY <1>4 DEF AcquireStep, DrainPlaces
  <2>2. QED
    BY <1>4, <2>1, GuardKept DEF AcquireStep
<1>5. ASSUME NEW c \in Clients, AcquireFails(c) \/ Return(c) PROVE OneDrainer' /\ GuardIsExact'
  <2>1. CASE at[c] \in DrainPlaces
    <3>1. \A b \in Clients : at[b] \in DrainPlaces /\ ProcessOf[b] = ProcessOf[c] => b = c
      BY <2>1 DEF OneDrainer
    <3>2. at' = [at EXCEPT ![c] = "none"] /\ drainingSessions' = drainingSessions \ {ProcessOf[c]}
      BY <1>5, <2>1 DEF AcquireFails, Return, DrainPlaces
    <3>3. \A b \in Clients : at'[b] = IF b = c THEN "none" ELSE at[b]
      BY <3>2
    <3>4. "none" \notin DrainPlaces
      BY DEF DrainPlaces
    <3>5. \A b \in Clients :
             at'[b] \in DrainPlaces <=> at[b] \in DrainPlaces /\ ProcessOf[b] # ProcessOf[c]
      BY <3>1, <3>3, <3>4
    <3>6. QED
      BY <3>2, <3>5, GuardDropped
  <2>2. CASE at[c] \notin DrainPlaces
    <3>1. drainingSessions' = drainingSessions /\ at' = [at EXCEPT ![c] = "none"]
      BY <1>5, <2>2 DEF AcquireFails, Return, DrainPlaces
    <3>2. \A b \in Clients : at'[b] \in DrainPlaces <=> at[b] \in DrainPlaces
      BY <2>2, <3>1 DEF DrainPlaces
    <3>3. QED
      BY <3>1, <3>2, GuardKept
  <2>3. QED
    BY <2>1, <2>2
<1>6. ASSUME NEW c \in Clients, Progress(c), ~ Return(c) PROVE OneDrainer' /\ GuardIsExact'
  <2>1. drainingSessions' = drainingSessions
    BY <1>6 DEF Progress, Load, Save, DrainLoad, Mark, HandlerEnds, HandlerFails, RemoveBatch,
                Reload, Unmark, SaveFails, LoadFails
  <2>2. \A b \in Clients : at'[b] \in DrainPlaces <=> at[b] \in DrainPlaces
    BY <1>6 DEF Progress, Load, Save, DrainLoad, Mark, HandlerEnds, HandlerFails, RemoveBatch,
                Reload, Unmark, SaveFails, LoadFails, NextBatchOrEnd, DrainPlaces
  <2>3. QED
    BY <2>1, <2>2, GuardKept
<1>7. CASE TimePasses \/ UNCHANGED workVars
  BY <1>7, GuardKept DEF TimePasses, queueVars, workVars
<1>8. QED
  BY <1>1, <1>2, <1>3, <1>4, <1>5, <1>6, <1>7 DEF WorkNext, Acquisition

LEMMA FreshStep ==
    ASSUME LockInv, WorkTyped, InsideHolds, FreshCopies, [WorkNext]_workVars
    PROVE  FreshCopies'
<1> USE ClientsAssumption DEF WorkTyped, FreshCopies, Goto, SetLoaded, IsQueue
<1>1. ASSUME NEW c \in Clients, at[c] \notin Outside, NEW b \in Clients, at[b] \notin Outside
      PROVE  b = c
  BY <1>1 DEF LockInv, OwnersOwn, InsideHolds, Holds
<1>2. ASSUME NEW p \in Processes, ProcessDies(p) PROVE FreshCopies'
  BY <1>2 DEF ProcessDies
<1>3. ASSUME NEW c \in Clients, CallEnqueue(c) \/ CallDrain(c) \/ AcquireStep(c) \/ AcquireFails(c)
      PROVE  FreshCopies'
  BY <1>3 DEF CallEnqueue, CallDrain, AcquireStep, AcquireFails
<1>4. ASSUME NEW c \in Clients, Load(c) \/ DrainLoad(c) \/ Reload(c) \/ Return(c) PROVE FreshCopies'
  <2>1. CASE Load(c)
    BY <2>1 DEF Load
  <2>2. CASE DrainLoad(c)
    BY <2>2 DEF DrainLoad
  <2>3. CASE Reload(c)
    BY <2>3 DEF Reload
  <2>4. CASE Return(c)
    BY <2>4 DEF Return
  <2>5. QED
    BY <1>4, <2>1, <2>2, <2>3, <2>4
<1>5. ASSUME NEW c \in Clients, Save(c) \/ Mark(c) \/ RemoveBatch(c) \/ Unmark(c)
      PROVE  FreshCopies'
  <2>1. \A b \in Clients : at[b] \notin Outside => b = c
    BY <1>1, <1>5 DEF Save, Mark, RemoveBatch, Unmark, Outside
  <2>2. CASE Save(c)
    BY <2>1, <2>2 DEF Save, Outside
  <2>3. CASE Mark(c)
    BY <2>1, <2>3 DEF Mark, NextBatchOrEnd, Outside
  <2>4. CASE RemoveBatch(c)
    BY <2>1, <2>4 DEF RemoveBatch, NextBatchOrEnd, Outside
  <2>5. CASE Unmark(c)
    BY <2>1, <2>5 DEF Unmark, Outside
  <2>6. QED
    BY <1>5, <2>2, <2>3, <2>4, <2>5
<1>6. ASSUME NEW c \in Clients, HandlerEnds(c) \/ HandlerFails(c) \/ SaveFails(c) \/ LoadFails(c) PROVE FreshCopies'
  BY <1>6 DEF HandlerEnds, HandlerFails, SaveFails, LoadFails
<1>7. CASE TimePasses \/ UNCHANGED workVars
  BY <1>7 DEF TimePasses, queueVars, workVars
<1>8. QED
  BY <1>2, <1>3, <1>4, <1>5, <1>6, <1>7 DEF WorkNext, Acquisition, Progress

LEMMA GuardInvariance == WorkSpec => []GuardInv
<1>1. WorkInit => GuardInv
  BY ClientsAssumption DEF WorkInit, GuardInv, WorkTyped, OneDrainer, GuardIsExact, Places,
     DrainPlaces, IsQueue, NoQueue
<1>2. GuardInv /\ [WorkNext]_workVars => GuardInv'
  BY WorkTypedStep, GuardStep DEF GuardInv
<1>3. QED
  BY <1>1, <1>2, PTL DEF WorkSpec

(* However a drain ends, its process can drain again, and not before: a    *)
(* fact of the drain's own finally block that needs nothing of the lock.   *)
THEOREM DrainGuardIsExact == WorkSpec => []GuardIsExact
  BY GuardInvariance, PTL DEF GuardInv

LEMMA WorkInvariance == WorkSpec => [](misfired \/ WorkInv)
<1>1. WorkInit => InsideHolds /\ FreshCopies
  BY DEF WorkInit, InsideHolds, FreshCopies, Outside
<1>2. /\ misfired \/ (LockInv /\ InsideHolds /\ FreshCopies)
      /\ (misfired \/ LockInv)' /\ WorkTyped /\ [WorkNext]_workVars
      => (misfired \/ (LockInv /\ InsideHolds /\ FreshCopies))'
  BY InsideHoldsStep, FreshStep, MisfiresStay, WorkStepsAreLockSteps
<1>3. WorkInit => LockInit
  BY DEF WorkInit
<1>4. LockInit => LockInv
  BY InitLockInv
<1>5. QED
  BY <1>1, <1>2, <1>3, <1>4, WorkImplementsLock, LockInvariance, GuardInvariance, PTL
     DEF WorkSpec, WorkInv, GuardInv

(* Until a misfire no update of the queue file is lost between a load and  *)
(* the save that follows it.                                               *)
THEOREM NoLostUpdate == WorkSpec => []CopyIsFresh
<1>1. misfired \/ WorkInv => CopyIsFresh
  BY DEF WorkInv, FreshCopies, CopyIsFresh
<1>2. QED
  BY <1>1, WorkInvariance, PTL
-----------------------------------------------------------------------------
(* The flag on disk and in the copies, while a drain works.                *)
FlagFollows ==
    /\ disk.draining /\ ~ unclean => \E c \in Clients : at[c] \in MarkedPlaces
    /\ \A c \in Clients : /\ at[c] = "save" => loaded[c].draining = disk.draining
                          /\ at[c] \in {"mark", "handle", "remove"} => loaded[c].draining
                          /\ at[c] \in {"handle", "remove"} => disk.draining

LEMMA FlagOff == \A queue : IsQueue(queue) => [queue EXCEPT !.draining = FALSE].draining = FALSE
<1> SUFFICES ASSUME NEW queue, queue = [items |-> queue.items, draining |-> queue.draining]
             PROVE  [queue EXCEPT !.draining = FALSE].draining = FALSE
  BY DEF IsQueue
<1>1. DOMAIN queue = {"items", "draining"}
  OBVIOUS
<1>2. QED
  BY <1>1

LEMMA FlagKept ==
    ASSUME FlagFollows, UNCHANGED <<disk, loaded>>, unclean => unclean' \/ ~ disk.draining,
           \A c \in Clients : /\ at[c] \in MarkedPlaces =>
                                    at'[c] \in MarkedPlaces \/ unclean' \/ ~ disk.draining
                              /\ at'[c] = "save" => at[c] = "save"
                              /\ at'[c] = "mark" => at[c] = "mark"
                              /\ at'[c] \in {"handle", "remove"} => at[c] \in {"handle", "remove"}
    PROVE  FlagFollows'
  BY DEF FlagFollows

LEMMA FlagStep ==
    ASSUME LockInv, WorkTyped, InsideHolds, FlagFollows, [WorkNext]_workVars
    PROVE  FlagFollows'
<1> USE ClientsAssumption DEF WorkTyped, Goto, SetLoaded, IsQueue
<1>1. ASSUME NEW c \in Clients, at[c] \notin Outside, NEW b \in Clients, at[b] \notin Outside
      PROVE  b = c
  BY <1>1 DEF LockInv, OwnersOwn, InsideHolds, Holds
<1>2. ASSUME NEW p \in Processes, ProcessDies(p) PROVE FlagFollows'
  <2>1. /\ disk' = disk
        /\ \A b \in Clients : /\ ProcessOf[b] = p => at'[b] = "none"
                              /\ ProcessOf[b] # p => at'[b] = at[b] /\ loaded'[b] = loaded[b]
    BY <1>2 DEF ProcessDies
  <2>2. ~ unclean' =>
            ~ unclean /\ \A b \in Clients : at[b] \in MarkedPlaces => ProcessOf[b] # p
    BY <1>2, Zenon DEF ProcessDies
  <2>3. QED
    BY <2>1, <2>2 DEF FlagFollows
<1>3. ASSUME NEW c \in Clients, CallEnqueue(c) \/ CallDrain(c) \/ AcquireStep(c) \/ AcquireFails(c)
      PROVE  FlagFollows'
  <2>1. UNCHANGED <<disk, loaded, unclean>>
    BY <1>3 DEF CallEnqueue, CallDrain, AcquireStep, AcquireFails
  <2>2. at[c] \in Outside /\ \A b \in Clients : b # c => at'[b] = at[b]
    BY <1>3 DEF CallEnqueue, CallDrain, AcquireStep, AcquireFails, Outside
  <2>3. at'[c] \in Outside \cup {"load", "drain load"}
    BY <1>3 DEF CallEnqueue, CallDrain, AcquireStep, AcquireFails, Outside
  <2>4. QED
    BY <2>1, <2>2, <2>3, FlagKept DEF Outside, MarkedPlaces
<1>4. ASSUME NEW c \in Clients, Load(c) PROVE FlagFollows'
  BY <1>4 DEF Load, FlagFollows, MarkedPlaces
<1>5. ASSUME NEW c \in Clients, DrainLoad(c) PROVE FlagFollows'
  BY <1>5 DEF DrainLoad, FlagFollows, MarkedPlaces
<1>6. ASSUME NEW c \in Clients, Reload(c) PROVE FlagFollows'
  BY <1>6 DEF Reload, FlagFollows, MarkedPlaces
<1>7. ASSUME NEW c \in Clients, Return(c) PROVE FlagFollows'
  BY <1>7 DEF Return, FlagFollows, MarkedPlaces
<1>8. ASSUME NEW c \in Clients, Save(c) \/ Mark(c) \/ RemoveBatch(c) \/ Unmark(c)
      PROVE  FlagFollows'
  <2>1. \A b \in Clients : at[b] \notin Outside => b = c
    BY <1>1, <1>8 DEF Save, Mark, RemoveBatch, Unmark, Outside
  <2>2. CASE Save(c)
    <3>1. disk'.draining = disk.draining
      BY <2>2 DEF Save, FlagFollows
    <3>2. QED
      BY <2>1, <2>2, <3>1 DEF Save, FlagFollows, Outside, MarkedPlaces
  <2>3. CASE Mark(c)
    BY <2>1, <2>3 DEF Mark, NextBatchOrEnd, FlagFollows, Outside, MarkedPlaces
  <2>4. CASE RemoveBatch(c)
    <3>1. /\ loaded' = [loaded EXCEPT ![c] = disk'] /\ disk'.draining
          /\ at[c] = "remove" /\ at' \in {[at EXCEPT ![c] = "reload"], [at EXCEPT ![c] = "handle"]}
      <4>1. disk' = [loaded[c] EXCEPT !.items = Rest(c)] /\ loaded[c].draining
        BY <2>4 DEF RemoveBatch, FlagFollows
      <4>2. disk' = [items |-> Rest(c), draining |-> loaded[c].draining]
        BY <4>1
      <4>3. disk'.draining
        BY <4>1, <4>2
      <4>4. QED
        BY <2>4, <4>3 DEF RemoveBatch, NextBatchOrEnd
    <3>2. at'[c] \in {"reload", "handle"} /\ loaded'[c].draining
      BY <3>1
    <3>3. QED
      BY <2>1, <3>1, <3>2 DEF FlagFollows, Outside, MarkedPlaces
  <2>5. CASE Unmark(c)
    <3>1. loaded' = loaded /\ ~ disk'.draining /\ at' = [at EXCEPT ![c] = "drain release"]
      <4>1. disk' = [loaded[c] EXCEPT !.draining = FALSE]
        BY <2>5 DEF Unmark
      <4>2. disk'.draining = FALSE
        BY <4>1, FlagOff
      <4>3. QED
        BY <2>5, <4>2 DEF Unmark
    <3>2. QED
      BY <2>1, <3>1 DEF FlagFollows, Outside, MarkedPlaces
  <2>6. QED
    BY <1>8, <2>2, <2>3, <2>4, <2>5
<1>9. ASSUME NEW c \in Clients, HandlerEnds(c) \/ HandlerFails(c) \/ SaveFails(c) \/ LoadFails(c) PROVE FlagFollows'
  <2>1. UNCHANGED <<disk, loaded>>
    BY <1>9 DEF HandlerEnds, HandlerFails, SaveFails, LoadFails
  <2>2. unclean => unclean'
    BY <1>9, Zenon DEF HandlerEnds, HandlerFails, SaveFails, LoadFails
  <2>3. \A b \in Clients : b # c => at'[b] = at[b]
    BY <1>9 DEF HandlerEnds, HandlerFails, SaveFails, LoadFails
  <2>4. \/ at[c] = "handle" /\ at'[c] \in {"remove", "reload"}
        \/ at[c] = "save" /\ at'[c] = "release"
        \/ at[c] \in {"mark", "remove"} /\ at'[c] = "reload"
        \/ at[c] \in {"reload", "unmark"} /\ at'[c] = "drain release" /\ unclean'
        \/ at[c] = "load" /\ at'[c] = "release"
        \/ at[c] = "drain load" /\ at'[c] = "reload"
    BY <1>9 DEF HandlerEnds, HandlerFails, SaveFails, LoadFails
  <2>5. QED
    BY <2>1, <2>2, <2>3, <2>4, FlagKept DEF MarkedPlaces
<1>10. CASE TimePasses \/ UNCHANGED workVars
  BY <1>10, FlagKept DEF TimePasses, queueVars, workVars
<1>11. QED
  BY <1>2, <1>3, <1>4, <1>5, <1>6, <1>7, <1>8, <1>9, <1>10 DEF WorkNext, Acquisition, Progress

(* Until a misfire the flag that status reports tells of a drain that is   *)
(* at work, or of one that could not clean up; the next drain that can     *)
(* heals it.                                                               *)
THEOREM DrainingIsTruthful == WorkSpec => []FlagIsTruthful
<1>1. WorkInit => FlagFollows
  BY DEF WorkInit, FlagFollows, NoQueue
<1>2. /\ (misfired \/ WorkInv) /\ (misfired \/ FlagFollows) /\ [WorkNext]_workVars
      => (misfired \/ FlagFollows)'
  BY FlagStep, MisfiresStay, WorkStepsAreLockSteps DEF WorkInv
<1>3. misfired \/ FlagFollows => FlagIsTruthful
  BY DEF FlagFollows, FlagIsTruthful
<1>4. QED
  BY <1>1, <1>2, <1>3, WorkInvariance, PTL DEF WorkSpec
-----------------------------------------------------------------------------
(* The first of some places of a sequence, and what a filter keeps when    *)
(* what goes stands in front.                                              *)
LEMMA FirstPlace ==
    ASSUME NEW size \in Nat, NEW S, S \subseteq 1..size, S # {}
    PROVE  \E i \in S : \A j \in S : i <= j
<1> DEFINE P == {k \in 1..size : \A j \in S : k < j}
           n == Cardinality(P)
<1>1. IsFiniteSet(1..size) /\ Cardinality(1..size) = size
  BY FS_Interval
<1>2. IsFiniteSet(P) /\ n \in Nat /\ n <= size /\ (n = size => P = 1..size)
  <2>1. P \in SUBSET (1..size)
    OBVIOUS
  <2>2. QED
    BY <1>1, <2>1, FS_Subset, FS_CardinalityType
<1>3. ASSUME NEW k \in P PROVE k <= n
  <2>1. 1..k \in SUBSET P
    OBVIOUS
  <2>2. Cardinality(1..k) <= n
    BY <1>2, <2>1, FS_Subset
  <2>3. k \in Nat \ {0} /\ Cardinality(1..k) = k
    BY FS_Interval
  <2>4. QED
    BY <2>2, <2>3
<1>4. ASSUME NEW k \in 1..size, k \notin P PROVE n < k
  <2>1. P \in SUBSET (1..(k - 1))
    BY <1>4
  <2>2. IsFiniteSet(1..(k - 1)) /\ Cardinality(1..(k - 1)) = k - 1
    BY FS_Interval
  <2>3. n <= k - 1
    BY <2>1, <2>2, FS_Subset
  <2>4. QED
    BY <1>2, <2>3
<1>5. S \cap P = {}
  OBVIOUS
<1>6. \A j \in S : n + 1 <= j
  BY <1>2, <1>4, <1>5
<1>7. n < size
  <2>1. PICK s \in S : TRUE
    OBVIOUS
  <2>2. s \in 1..size /\ s \notin P
    BY <1>5
  <2>3. P # 1..size
    BY <2>2
  <2> HIDE DEF n, P
  <2>4. QED
    BY <1>2, <2>3
<1>8. n + 1 \in 1..size /\ n + 1 \notin P
  BY <1>2, <1>3, <1>7
<1>9. PICK j \in S : j <= n + 1
  <2> HIDE DEF n
  <2>1. PICK j \in S : ~ (n + 1 < j)
    BY <1>8
  <2>2. QED
    BY <1>2, <2>1
<1>10. j = n + 1
  BY <1>2, <1>6, <1>9
<1>11. QED
  BY <1>6, <1>9, <1>10

LEMMA RanksBehindFront ==
    ASSUME NEW size \in Nat, NEW n \in 0..size, NEW i \in (n + 1)..size
    PROVE  Cardinality({j \in (n + 1)..size : j < i}) = i - n - 1
<1>1. {j \in (n + 1)..size : j < i} = (n + 1)..(i - 1)
  OBVIOUS
<1>2. n + 1 \in Int /\ i - 1 \in Int /\ i \in Int /\ n \in Int /\ n + 1 <= i
  OBVIOUS
<1>3. Cardinality((n + 1)..(i - 1)) = IF n + 1 > i - 1 THEN 0 ELSE (i - 1) - (n + 1) + 1
  BY <1>2, FS_Interval
<1>4. Cardinality((n + 1)..(i - 1)) = i - n - 1
  BY <1>2, <1>3
<1>5. QED
  BY <1>1, <1>4, Zenon

LEMMA BatchIsInFront ==
    ASSUME NEW items \in Seq(WorkItems), items # <<>>
    PROVE  BatchSize(items) \in 1..Len(items)
<1>1. Len(items) \in Nat \ {0} /\ DOMAIN items = 1..Len(items)
  OBVIOUS
<1>2. CASE items[1].mode = "followup"
  BY <1>1, <1>2 DEF BatchSize
<1>3. CASE items[1].mode # "followup"
  <2> DEFINE S == {n \in 1..Len(items) : n = Len(items) \/ items[n + 1].mode # "collect"}
  <2>1. S \subseteq 1..Len(items) /\ Len(items) \in S
    BY <1>1
  <2>2. PICK n \in S : \A m \in S : n <= m
    BY <1>1, <2>1, FirstPlace
  <2>3. n \in 1..Len(items)
    OBVIOUS
  <2>4. n = Len(items) \/ items[n + 1].mode # "collect"
    OBVIOUS
  <2>5. \A m \in 1..Len(items) : m < n => items[m + 1].mode = "collect"
    <3> SUFFICES ASSUME NEW m \in 1..Len(items), m < n, items[m + 1].mode # "collect" PROVE FALSE
      OBVIOUS
    <3>1. m \in S
      OBVIOUS
    <3> HIDE DEF S
    <3>2. n <= m
      BY <2>2, <3>1
    <3>3. n \in Nat /\ m \in Nat
      BY <1>1, <2>3
    <3>4. QED
      BY <3>2, <3>3
  <2> HIDE DEF S
  <2>6. ASSUME NEW i \in 1..n PROVE items[i].mode = "collect"
    <3>1. CASE i = 1
      <4>1. items[1] \in WorkItems
        BY <1>1, ElementOfSeq
      <4>2. QED
        BY <1>3, <3>1, <4>1 DEF WorkItems
    <3>2. CASE i # 1
      <4>1. i - 1 \in 1..Len(items) /\ i - 1 < n /\ (i - 1) + 1 = i
        <5>1. n \in Nat /\ i \in Nat /\ 1 <= i /\ i <= n /\ n <= Len(items) /\ Len(items) \in Nat
          BY <1>1, <2>3
        <5>2. QED
          BY <3>2, <5>1
      <4>2. QED
        BY <2>5, <4>1
    <3>3. QED
      BY <3>1, <3>2
  <2>7. QED
    BY <1>1, <1>3, <2>3, <2>4, <2>6 DEF BatchSize
<1>4. QED
  BY <1>2, <1>3

(* Distinct ids: what stays of the queue is what stood behind the batch.   *)
LEMMA RestIsBehindBatch ==
    ASSUME NEW c \in Clients, NEW items \in Seq(WorkItems), loaded[c].items = items, items # <<>>,
           \A i, j \in DOMAIN items : items[i].id = items[j].id => i = j
    PROVE  /\ BatchIds(c) = {items[i].id : i \in 1..BatchSize(items)}
           /\ Rest(c) = SubSeq(items, BatchSize(items) + 1, Len(items))
<1> DEFINE n == BatchSize(items)
           size == Len(items)
           tail == (n + 1)..size
<1>1. size \in Nat /\ DOMAIN items = 1..size /\ n \in 1..size
  BY BatchIsInFront
<1> HIDE DEF n, size
<1>2. BatchIds(c) = {items[i].id : i \in 1..n}
  <2>1. Batch(c) = SubSeq(items, 1, n)
    BY DEF Batch, n
  <2>2. Len(Batch(c)) = n /\ \A i \in 1..n : Batch(c)[i] = items[i]
    BY <1>1, <2>1
  <2>3. DOMAIN Batch(c) = 1..n
    BY <1>1, <2>1
  <2>4. ToSet(Batch(c)) = {items[i] : i \in 1..n}
    BY <2>2, <2>3 DEF ToSet
  <2>5. QED
    BY <2>4 DEF BatchIds
<1>3. Staying(c) = tail
  BY <1>1, <1>2 DEF Staying
<1>4. Cardinality(tail) = size - n
  BY <1>1, FS_Interval
<1> DEFINE At(k) == CHOOSE i \in tail : Cardinality({j \in tail : j < i}) = k - 1
<1>5. ASSUME NEW k \in 1..(size - n) PROVE At(k) = n + k
  <2>1. \A i \in tail : Cardinality({j \in tail : j < i}) = i - n - 1
    <3> SUFFICES ASSUME NEW i \in tail PROVE Cardinality({j \in tail : j < i}) = i - n - 1
      OBVIOUS
    <3>1. n \in 0..size
      BY <1>1
    <3>2. QED
      BY <1>1, <3>1, RanksBehindFront
  <2>2. n + k \in tail /\ (n + k) - n - 1 = k - 1
    BY <1>1
  <2>3. \A i \in tail : i - n - 1 = k - 1 => i = n + k
    BY <1>1
  <2>4. QED
    BY <2>1, <2>2, <2>3
<1>6. Rest(c) = [k \in 1..(size - n) |-> items[At(k)]]
  BY <1>3, <1>4 DEF Rest
<1> HIDE DEF At, tail
<1>7. Rest(c) = [k \in 1..(size - n) |-> items[n + k]]
  BY <1>5, <1>6
<1>8. SubSeq(items, n + 1, size) = [k \in 1..(size - n) |-> items[n + k]]
  <2>1. SubSeq(items, n + 1, size) \in Seq(WorkItems)
    BY <1>1
  <2>2. Len(SubSeq(items, n + 1, size)) = size - n
    BY <1>1
  <2>3. \A k \in 1..(size - n) : SubSeq(items, n + 1, size)[k] = items[n + k]
    BY <1>1
  <2>4. QED
    BY <2>1, <2>2, <2>3
<1>9. QED
  BY <1>2, <1>7, <1>8 DEF n, size
-----------------------------------------------------------------------------
(* The refinement of AtLeastOnceQueue.  The ids of the queue are distinct  *)
(* and were given out, so that the filter by id takes the batch and no     *)
(* more; what a drain removes, its handler has finished.                   *)
QueueTyped == /\ disk.items \in Seq(WorkItems)
              /\ \A c \in Clients : loaded[c].items \in Seq(WorkItems)
              /\ accepted \in 0..MaxItems
              /\ request \in [Clients -> Requests \cup {NoRequest}]

Requested ==
    \A c \in Clients : at[c] \in {"enqueue lock", "load", "save"} => request[c] \in Requests

IdsFresh ==
    /\ \A i \in DOMAIN disk.items : disk.items[i].id <= accepted
    /\ \A i, j \in DOMAIN disk.items : disk.items[i].id = disk.items[j].id => i = j

BatchFits == \A c \in Clients : at[c] \in {"handle", "remove"} => loaded[c].items # <<>>

BatchHandled == \A c \in Clients : at[c] = "remove" => BatchIds(c) \subseteq handled

QueueInv == QueueTyped /\ Requested /\ IdsFresh /\ BatchFits /\ BatchHandled

LEMMA ItemsOfRequests ==
    ASSUME NEW r \in Requests, accepted \in 0..MaxItems, accepted < MaxItems
    PROVE  ItemOf(r) \in WorkItems /\ ItemOf(r).id = accepted + 1
<1>1. accepted + 1 \in 1..MaxItems
  BY MaxItemsAssumption
<1>2. r.mode \in {"collect", "followup"}
  BY RequestsAssumption
<1>3. QED
  BY <1>1, <1>2 DEF ItemOf, WorkItems

LEMMA RequestEnters ==
    ASSUME NEW items \in Seq(WorkItems), NEW r \in Requests
    PROVE  \/ WithRequest(items, r) = Append(items, ItemOf(r))
           \/ \E i \in DOMAIN items : /\ SameWork(items[i], ItemOf(r))
                                      /\ WithRequest(items, r) = [items EXCEPT ![i] = ItemOf(r)]
<1>1. CASE Matching(items, r) = {}
  BY <1>1 DEF WithRequest
<1>2. CASE Matching(items, r) # {}
  <2> DEFINE first == FirstMatch(items, r)
  <2>1. Len(items) \in Nat /\ Matching(items, r) \subseteq 1..Len(items)
    BY DEF Matching
  <2>2. \E i \in Matching(items, r) : \A j \in Matching(items, r) : i <= j
    BY <1>2, <2>1, FirstPlace
  <2>3. first \in Matching(items, r)
    BY <2>2 DEF FirstMatch
  <2>4. WithRequest(items, r) = [items EXCEPT ![first] = ItemOf(r)]
    BY <1>2 DEF WithRequest
  <2> HIDE DEF first
  <2>5. SameWork(items[first], ItemOf(r))
    BY <2>3 DEF Matching, Matches, SameWork, ItemOf
  <2>6. QED
    BY <2>3, <2>4, <2>5 DEF Matching
<1>3. QED
  BY <1>1, <1>2

(* What a step does to the queue file's items, in the abstract terms.      *)
Enters(item) ==
    /\ item \in WorkItems
    /\ item.id = accepted + 1
    /\ accepted' = accepted + 1
    /\ accepted < MaxItems
    /\ handled' = handled
    /\ \/ disk'.items = Append(disk.items, item)
       \/ \E i \in DOMAIN disk.items : /\ SameWork(disk.items[i], item)
                                       /\ disk'.items = [disk.items EXCEPT ![i] = item]

FrontOf(n) == {disk.items[i].id : i \in 1..n}

LEMMA SavesEnter ==
    ASSUME WorkInv, QueueInv, NEW c \in Clients, Save(c)
    PROVE  UNCHANGED <<disk, accepted, handled>> \/ \E item \in WorkItems : Enters(item)
<1>1. CASE KeepsOld(loaded[c].items, request[c])
  BY <1>1 DEF Save
<1>2. CASE ~ KeepsOld(loaded[c].items, request[c])
  <2> DEFINE item == ItemOf(request[c])
  <2>1. at[c] = "save" /\ accepted < MaxItems /\ accepted' = accepted + 1 /\ handled' = handled
    BY <1>2 DEF Save
  <2>2. request[c] \in Requests /\ accepted \in 0..MaxItems /\ disk.items \in Seq(WorkItems)
    BY <2>1 DEF QueueInv, Requested, QueueTyped
  <2>3. item \in WorkItems /\ item.id = accepted + 1
    BY <2>1, <2>2, ItemsOfRequests
  <2>4. loaded[c].items = disk.items
    BY <2>1 DEF WorkInv, FreshCopies
  <2>5. disk'.items = WithRequest(disk.items, request[c])
    <3>1. disk' = [loaded[c] EXCEPT !.items = WithRequest(loaded[c].items, request[c])]
      BY <1>2 DEF Save
    <3>2. IsQueue(loaded[c])
      BY DEF WorkInv, WorkTyped
    <3>3. disk'.items = WithRequest(loaded[c].items, request[c])
      BY <3>1, <3>2 DEF IsQueue
    <3>4. QED
      BY <2>4, <3>3
  <2> HIDE DEF item
  <2>6. \/ disk'.items = Append(disk.items, item)
        \/ \E i \in DOMAIN disk.items : /\ SameWork(disk.items[i], item)
                                        /\ disk'.items = [disk.items EXCEPT ![i] = item]
    BY <2>2, <2>5, RequestEnters DEF item
  <2>7. QED
    BY <2>1, <2>3, <2>6 DEF Enters
<1>3. QED
  BY <1>1, <1>2

LEMMA BatchOfClient ==
    ASSUME WorkInv, QueueInv, NEW c \in Clients, at[c] \in {"handle", "remove"}
    PROVE  \E n \in 1..Len(disk.items) :
             /\ BatchIds(c) = FrontOf(n)
             /\ Rest(c) = SubSeq(disk.items, n + 1, Len(disk.items))
<1>1. loaded[c].items = disk.items /\ disk.items \in Seq(WorkItems)
  BY DEF WorkInv, FreshCopies, QueueInv, QueueTyped
<1>2. disk.items # <<>>
  BY <1>1 DEF QueueInv, BatchFits
<1>3. \A i, j \in DOMAIN disk.items : disk.items[i].id = disk.items[j].id => i = j
  BY DEF QueueInv, IdsFresh
<1>4. BatchSize(disk.items) \in 1..Len(disk.items)
  BY <1>1, <1>2, BatchIsInFront
<1>5. /\ BatchIds(c) = FrontOf(BatchSize(disk.items))
      /\ Rest(c) = SubSeq(disk.items, BatchSize(disk.items) + 1, Len(disk.items))
  BY <1>1, <1>2, <1>3, RestIsBehindBatch DEF FrontOf
<1>6. QED
  BY <1>4, <1>5

LEMMA QueueMoves ==
    ASSUME WorkInv, QueueInv, [WorkNext]_workVars
    PROVE  \/ disk'.items = disk.items /\ accepted' = accepted /\ handled' = handled
           \/ \E item \in WorkItems : Enters(item)
           \/ \E n \in 1..Len(disk.items) : /\ disk'.items = disk.items /\ accepted' = accepted
                                            /\ handled' = handled \cup FrontOf(n)
           \/ \E n \in 1..Len(disk.items) :
                 /\ disk'.items = SubSeq(disk.items, n + 1, Len(disk.items))
                 /\ FrontOf(n) \subseteq handled /\ accepted' = accepted /\ handled' = handled
<1> DEFINE Still == disk'.items = disk.items /\ accepted' = accepted /\ handled' = handled
<1>1. ASSUME NEW p \in Processes, ProcessDies(p) PROVE Still
  BY <1>1 DEF ProcessDies
<1>2. ASSUME NEW c \in Clients, CallEnqueue(c) \/ CallDrain(c) \/ AcquireStep(c) \/ AcquireFails(c)
      PROVE  Still
  BY <1>2 DEF CallEnqueue, CallDrain, AcquireStep, AcquireFails
<1>3. ASSUME NEW c \in Clients, \/ Load(c) \/ DrainLoad(c) \/ Reload(c)
                                \/ HandlerFails(c) \/ SaveFails(c) \/ LoadFails(c) \/ Return(c)
      PROVE  Still
  BY <1>3 DEF Load, DrainLoad, Reload, HandlerFails, SaveFails, LoadFails, Return
<1>4. ASSUME NEW c \in Clients, Mark(c) PROVE Still
  BY <1>4 DEF Mark, WorkInv, FreshCopies
<1>5. ASSUME NEW c \in Clients, Unmark(c) PROVE Still
  <2>1. at[c] = "unmark" /\ disk' = [loaded[c] EXCEPT !.draining = FALSE] /\ UNCHANGED <<accepted, handled>>
    BY <1>5 DEF Unmark
  <2>2. loaded[c].items = disk.items /\ IsQueue(loaded[c])
    BY <2>1 DEF WorkInv, FreshCopies, WorkTyped
  <2>3. disk'.items = loaded[c].items
    BY <2>1, <2>2 DEF IsQueue
  <2>4. QED
    BY <2>1, <2>2, <2>3
<1>6. ASSUME NEW c \in Clients, HandlerEnds(c)
      PROVE  \E n \in 1..Len(disk.items) : /\ disk'.items = disk.items /\ accepted' = accepted
                                           /\ handled' = handled \cup FrontOf(n)
  <2>1. at[c] = "handle" /\ UNCHANGED <<disk, accepted>> /\ handled' = handled \cup BatchIds(c)
    BY <1>6 DEF HandlerEnds
  <2>2. PICK n \in 1..Len(disk.items) : BatchIds(c) = FrontOf(n)
    BY <2>1, BatchOfClient
  <2>3. QED
    BY <2>1, <2>2
<1>7. ASSUME NEW c \in Clients, RemoveBatch(c)
      PROVE  \E n \in 1..Len(disk.items) :
                /\ disk'.items = SubSeq(disk.items, n + 1, Len(disk.items))
                /\ FrontOf(n) \subseteq handled /\ accepted' = accepted /\ handled' = handled
  <2>1. /\ at[c] = "remove" /\ disk' = [loaded[c] EXCEPT !.items = Rest(c)]
        /\ UNCHANGED <<accepted, handled>>
    BY <1>7 DEF RemoveBatch
  <2>2. disk'.items = Rest(c)
    BY <2>1 DEF WorkInv, WorkTyped, IsQueue
  <2>3. PICK n \in 1..Len(disk.items) : /\ BatchIds(c) = FrontOf(n)
                                        /\ Rest(c) = SubSeq(disk.items, n + 1, Len(disk.items))
    BY <2>1, BatchOfClient
  <2>4. BatchIds(c) \subseteq handled
    BY <2>1 DEF QueueInv, BatchHandled
  <2>5. QED
    BY <2>1, <2>2, <2>3, <2>4
<1>8. CASE TimePasses \/ UNCHANGED workVars
  BY <1>8 DEF TimePasses, queueVars, workVars
<1>9. QED
  BY <1>1, <1>2, <1>3, <1>4, <1>5, <1>6, <1>7, <1>8, SavesEnter DEF WorkNext, Acquisition, Progress

LEMMA QueueMapsInit == WorkInit => Promise!Init
  BY DEF WorkInit, NoQueue, Promise!Init

LEMMA QueueStepMaps ==
    ASSUME WorkInv, QueueInv, [WorkNext]_workVars
    PROVE  [Promise!Next]_(Promise!vars)
<1>1. CASE disk'.items = disk.items /\ handled' = handled
  BY <1>1 DEF Promise!vars
<1>2. ASSUME NEW item \in WorkItems, Enters(item) PROVE Promise!Next
  <2>1. CASE disk'.items = Append(disk.items, item)
    BY <1>2, <2>1 DEF Enters, Promise!Next, Promise!Put
  <2>2. ASSUME NEW i \in DOMAIN disk.items, SameWork(disk.items[i], item),
               disk'.items = [disk.items EXCEPT ![i] = item]
        PROVE  Promise!Next
    BY <1>2, <2>2 DEF Enters, Promise!Next, Promise!Replace
  <2>3. QED
    BY <1>2, <2>1, <2>2 DEF Enters
<1>3. ASSUME NEW n \in 1..Len(disk.items), disk'.items = disk.items,
             handled' = handled \cup FrontOf(n)
      PROVE  Promise!Next
  BY <1>3 DEF Promise!Next, Promise!Handle, Promise!FrontIds, FrontOf
<1>4. ASSUME NEW n \in 1..Len(disk.items), FrontOf(n) \subseteq handled, handled' = handled,
             disk'.items = SubSeq(disk.items, n + 1, Len(disk.items))
      PROVE  Promise!Next
  BY <1>4 DEF Promise!Next, Promise!Remove, Promise!FrontIds, FrontOf
<1>5. QED
  BY <1>1, <1>2, <1>3, <1>4, QueueMoves

LEMMA ItemsStep ==
    ASSUME WorkInv, QueueInv, [WorkNext]_workVars
    PROVE  disk'.items \in Seq(WorkItems) /\ accepted' \in 0..MaxItems /\ IdsFresh'
<1> DEFINE items == disk.items
           size == Len(items)
           new == disk'.items
<1>1. /\ items \in Seq(WorkItems) /\ accepted \in 0..MaxItems
      /\ \A i \in 1..size : items[i].id <= accepted
      /\ \A i, j \in 1..size : items[i].id = items[j].id => i = j
      /\ size \in Nat /\ DOMAIN items = 1..size
  BY DEF QueueInv, QueueTyped, IdsFresh
<1>2. \A i \in 1..size : items[i] \in WorkItems /\ items[i].id \in Int
  <2>1. \A i \in 1..size : items[i] \in WorkItems
    BY <1>1, ElementOfSeq
  <2>2. \A item \in WorkItems : item.id \in Int
    BY MaxItemsAssumption DEF WorkItems
  <2>3. QED
    BY <2>1, <2>2
<1> HIDE DEF items, size, new
<1>3. SUFFICES /\ new \in Seq(WorkItems) /\ accepted' \in 0..MaxItems
               /\ \A i \in 1..Len(new) : new[i].id <= accepted'
               /\ \A i, j \in 1..Len(new) : new[i].id = new[j].id => i = j
  BY DEF IdsFresh, new
<1>4. ASSUME new = items, accepted' = accepted
      PROVE  /\ new \in Seq(WorkItems) /\ accepted' \in 0..MaxItems
             /\ \A i \in 1..Len(new) : new[i].id <= accepted'
             /\ \A i, j \in 1..Len(new) : new[i].id = new[j].id => i = j
  BY <1>1, <1>4 DEF size
<1>5. ASSUME NEW item \in WorkItems, Enters(item)
      PROVE  /\ new \in Seq(WorkItems) /\ accepted' \in 0..MaxItems
             /\ \A i \in 1..Len(new) : new[i].id <= accepted'
             /\ \A i, j \in 1..Len(new) : new[i].id = new[j].id => i = j
  <2>1. /\ accepted' = accepted + 1 /\ accepted < MaxItems /\ item.id = accepted'
        /\ accepted \in Nat /\ accepted' \in 0..MaxItems
    BY <1>1, <1>5, MaxItemsAssumption DEF Enters
  <2>2. PICK k \in 1..(size + 1) :
           /\ new \in Seq(WorkItems) /\ Len(new) \in {size, size + 1}
           /\ new[k] = item
           /\ \A i \in 1..Len(new) : i # k => i \in 1..size /\ new[i] = items[i]
    <3>1. CASE new = Append(items, item)
      <4>1. /\ new \in Seq(WorkItems) /\ Len(new) = size + 1
            /\ new[size + 1] = item /\ \A i \in 1..size : new[i] = items[i]
        BY <1>1, <3>1, AppendProperties DEF size
      <4>2. size + 1 \in 1..(size + 1)
        BY <1>1
      <4>3. QED
        BY <1>1, <4>1, <4>2
    <3>2. ASSUME NEW k \in DOMAIN items, new = [items EXCEPT ![k] = item]
          PROVE  /\ new \in Seq(WorkItems) /\ Len(new) = size /\ new[k] = item /\ k \in 1..(size + 1)
                 /\ \A i \in 1..Len(new) : i # k => i \in 1..size /\ new[i] = items[i]
      <4>1. k \in 1..size
        BY <1>1
      <4>2. /\ new \in Seq(WorkItems) /\ Len(new) = size
            /\ \A i \in 1..size : new[i] = IF i = k THEN item ELSE items[i]
        BY <1>1, <3>2, <4>1, ExceptSeq DEF size
      <4>3. QED
        BY <1>1, <4>1, <4>2
    <3>3. QED
      BY <1>5, <3>1, <3>2 DEF Enters, items, new
  <2>3. \A i \in 1..Len(new) : i # k => new[i].id \in Int /\ new[i].id <= accepted
    BY <1>1, <1>2, <2>2
  <2>4. \A i \in 1..Len(new) : new[i].id <= accepted'
    BY <2>1, <2>2, <2>3
  <2>5. \A i, j \in 1..Len(new) : new[i].id = new[j].id => i = j
    <3> SUFFICES ASSUME NEW i \in 1..Len(new), NEW j \in 1..Len(new), new[i].id = new[j].id PROVE i = j
      OBVIOUS
    <3>1. CASE i # k /\ j # k
      BY <1>1, <2>2, <3>1
    <3>2. CASE i = k \/ j = k
      <4>1. accepted < accepted'
        BY <2>1
      <4>2. new[k].id = accepted'
        BY <2>1, <2>2
      <4>3. QED
        BY <2>1, <2>3, <3>2, <4>1, <4>2
    <3>3. QED
      BY <3>1, <3>2
  <2>6. QED
    BY <2>1, <2>2, <2>4, <2>5
<1>6. ASSUME NEW n \in 1..size, new = SubSeq(items, n + 1, size), accepted' = accepted
      PROVE  /\ new \in Seq(WorkItems) /\ accepted' \in 0..MaxItems
             /\ \A i \in 1..Len(new) : new[i].id <= accepted'
             /\ \A i, j \in 1..Len(new) : new[i].id = new[j].id => i = j
  <2>1. new \in Seq(WorkItems) /\ Len(new) = size - n /\ \A i \in 1..(size - n) : new[i] = items[n + i]
    <3>1. n \in Nat /\ n <= size /\ n + 1 \in Int /\ size \in Int /\ (n + 1)..size \subseteq 1..size
      BY <1>1
    <3>2. \A i \in (n + 1)..size : items[i] \in WorkItems
      BY <1>2, <3>1
    <3>3. /\ new \in Seq(WorkItems)
          /\ Len(new) = IF n + 1 <= size THEN size - (n + 1) + 1 ELSE 0
          /\ \A i \in 1..(size - (n + 1) + 1) : new[i] = items[(n + 1) + i - 1]
      BY <1>6, <3>1, <3>2, SubSeqProperties
    <3>4. /\ size - (n + 1) + 1 = size - n /\ (size - n = 0 \/ n + 1 <= size)
          /\ \A i \in 1..(size - n) : (n + 1) + i - 1 = n + i
      BY <1>1, <3>1
    <3>5. QED
      BY <1>1, <3>1, <3>3, <3>4
  <2>2. \A i \in 1..Len(new) : n + i \in 1..size
    BY <1>1, <2>1
  <2>3. \A i \in 1..Len(new) : new[i].id <= accepted'
    BY <1>1, <1>6, <2>1, <2>2
  <2>4. ASSUME NEW i \in 1..Len(new), NEW j \in 1..Len(new), new[i].id = new[j].id PROVE i = j
    <3>1. items[n + i].id = items[n + j].id
      BY <2>1, <2>4
    <3>2. n + i = n + j
      BY <1>1, <2>2, <3>1
    <3>3. QED
      BY <1>1, <2>1, <3>2
  <2>5. QED
    BY <1>1, <1>6, <2>1, <2>3, <2>4
<1>7. QED
  BY <1>4, <1>5, <1>6, QueueMoves DEF items, new, size

LEMMA CopiesStep ==
    ASSUME WorkInv, QueueInv, [WorkNext]_workVars
    PROVE  \A c \in Clients : loaded'[c].items \in Seq(WorkItems)
<1> USE ClientsAssumption DEF WorkTyped, IsQueue, SetLoaded
<1>1. /\ WorkTyped /\ disk.items \in Seq(WorkItems) /\ disk'.items \in Seq(WorkItems)
      /\ \A c \in Clients : loaded[c].items \in Seq(WorkItems)
  BY ItemsStep DEF WorkInv, QueueInv, QueueTyped
<1>2. NoQueue.items \in Seq(WorkItems)
  BY DEF NoQueue
<1>3. ASSUME NEW p \in Processes, ProcessDies(p)
      PROVE  \A c \in Clients : loaded'[c].items \in Seq(WorkItems)
  BY <1>1, <1>2, <1>3 DEF ProcessDies
<1>4. ASSUME NEW c \in Clients, loaded' = [loaded EXCEPT ![c] = loaded'[c]],
             loaded'[c].items \in {disk.items, disk'.items, NoQueue.items}
      PROVE  \A b \in Clients : loaded'[b].items \in Seq(WorkItems)
  <2>1. \A b \in Clients : b # c => loaded'[b] = loaded[b]
    BY <1>1, <1>4
  <2>2. QED
    BY <1>1, <1>2, <1>4, <2>1
<1>5. ASSUME NEW c \in Clients, Load(c) \/ Reload(c) \/ DrainLoad(c) \/ Return(c) \/ RemoveBatch(c)
      PROVE  \A b \in Clients : loaded'[b].items \in Seq(WorkItems)
  <2>1. PICK q \in {disk, disk', NoQueue, [disk EXCEPT !.draining = TRUE]} : loaded' = [loaded EXCEPT ![c] = q]
    BY <1>5 DEF Load, Reload, DrainLoad, Return, RemoveBatch
  <2>2. q.items \in {disk.items, disk'.items, NoQueue.items}
    BY <1>1
  <2>3. loaded'[c] = q
    BY <1>1, <2>1
  <2>4. QED
    BY <1>4, <2>1, <2>2, <2>3
<1>6. CASE loaded' = loaded
  BY <1>1, <1>6
<1>7. ASSUME NEW c \in Clients, \/ CallEnqueue(c) \/ CallDrain(c) \/ AcquireStep(c) \/ AcquireFails(c)
                                \/ Save(c) \/ Mark(c) \/ HandlerEnds(c) \/ HandlerFails(c)
                                \/ Unmark(c) \/ SaveFails(c) \/ LoadFails(c)
      PROVE  loaded' = loaded
  BY <1>7 DEF CallEnqueue, CallDrain, AcquireStep, AcquireFails, Save, Mark, HandlerEnds,
              HandlerFails, Unmark, SaveFails, LoadFails
<1>8. CASE TimePasses \/ UNCHANGED workVars
  BY <1>6, <1>8 DEF TimePasses, queueVars, workVars
<1>9. QED
  BY <1>3, <1>5, <1>6, <1>7, <1>8 DEF WorkNext, Acquisition, Progress

LEMMA RequestedStep ==
    ASSUME WorkTyped, request \in [Clients -> Requests \cup {NoRequest}], Requested,
           [WorkNext]_workVars
    PROVE  request' \in [Clients -> Requests \cup {NoRequest}] /\ Requested'
<1> USE DEF WorkTyped, Requested, Goto, Forget
<1>1. ASSUME NEW p \in Processes, ProcessDies(p)
      PROVE  request' \in [Clients -> Requests \cup {NoRequest}] /\ Requested'
  BY <1>1 DEF ProcessDies
<1>2. ASSUME NEW c \in Clients, CallEnqueue(c)
      PROVE  request' \in [Clients -> Requests \cup {NoRequest}] /\ Requested'
  BY <1>2 DEF CallEnqueue
<1>3. ASSUME NEW c \in Clients, AcquireFails(c) \/ Return(c)
      PROVE  request' \in [Clients -> Requests \cup {NoRequest}] /\ Requested'
  BY <1>3 DEF AcquireFails, Return
<1>4. ASSUME NEW c \in Clients, CallDrain(c) \/ AcquireStep(c) \/ Load(c) \/ Save(c) \/ DrainLoad(c)
      PROVE  request' \in [Clients -> Requests \cup {NoRequest}] /\ Requested'
  BY <1>4 DEF CallDrain, AcquireStep, Load, Save, DrainLoad
<1>5. ASSUME NEW c \in Clients, \/ Mark(c) \/ HandlerEnds(c) \/ HandlerFails(c) \/ RemoveBatch(c)
                                \/ Reload(c) \/ Unmark(c) \/ SaveFails(c) \/ LoadFails(c)
      PROVE  request' \in [Clients -> Requests \cup {NoRequest}] /\ Requested'
  BY <1>5 DEF Mark, HandlerEnds, HandlerFails, RemoveBatch, Reload, Unmark, SaveFails, LoadFails, NextBatchOrEnd
<1>6. CASE TimePasses \/ UNCHANGED workVars
  BY <1>6 DEF TimePasses, queueVars, workVars
<1>7. QED
  BY <1>1, <1>2, <1>3, <1>4, <1>5, <1>6 DEF WorkNext, Acquisition, Progress

(* Between the choice of a batch and its removal a client's copy stays.    *)
Batching == {"handle", "remove"}

LEMMA BatchStays ==
    ASSUME NEW c \in Clients, loaded'[c] = loaded[c] PROVE BatchIds(c)' = BatchIds(c)
  BY DEF BatchIds, Batch

LEMMA BatchKept ==
    ASSUME BatchFits, BatchHandled, handled \subseteq handled',
           \A c \in Clients : at'[c] \in Batching => at'[c] = at[c] /\ loaded'[c] = loaded[c]
    PROVE  BatchFits' /\ BatchHandled'
<1>1. BatchFits'
  BY DEF BatchFits, Batching
<1>2. ASSUME NEW c \in Clients, at'[c] = "remove" PROVE BatchIds(c)' \subseteq handled'
  BY <1>2, BatchStays DEF BatchHandled, Batching
<1>3. QED
  BY <1>1, <1>2 DEF BatchHandled

LEMMA BatchStep ==
    ASSUME WorkTyped, BatchFits, BatchHandled, [WorkNext]_workVars
    PROVE  BatchFits' /\ BatchHandled'
<1> USE ClientsAssumption DEF WorkTyped, IsQueue, Goto, SetLoaded
<1>1. ASSUME NEW p \in Processes, ProcessDies(p) PROVE BatchFits' /\ BatchHandled'
  BY <1>1, BatchKept DEF ProcessDies, Batching
<1>2. ASSUME NEW c \in Clients, CallEnqueue(c) \/ CallDrain(c) \/ AcquireStep(c) \/ AcquireFails(c)
      PROVE  BatchFits' /\ BatchHandled'
  BY <1>2, BatchKept DEF CallEnqueue, CallDrain, AcquireStep, AcquireFails, Batching
<1>3. ASSUME NEW c \in Clients, Load(c) \/ DrainLoad(c) \/ Reload(c) \/ Return(c)
      PROVE  BatchFits' /\ BatchHandled'
  BY <1>3, BatchKept DEF Load, DrainLoad, Reload, Return, Batching
<1>4. ASSUME NEW c \in Clients, Save(c) \/ Unmark(c) \/ SaveFails(c) \/ LoadFails(c) \/ HandlerFails(c)
      PROVE  BatchFits' /\ BatchHandled'
  BY <1>4, BatchKept DEF Save, Unmark, SaveFails, LoadFails, HandlerFails, Batching
<1>5. ASSUME NEW c \in Clients, Mark(c) PROVE BatchFits' /\ BatchHandled'
  <2>1. loaded' = loaded /\ handled' = handled
    BY <1>5 DEF Mark
  <2>2. \A b \in Clients : at'[b] = IF b = c THEN IF loaded[c].items = <<>> THEN "reload" ELSE "handle"
                                             ELSE at[b]
    BY <1>5 DEF Mark, NextBatchOrEnd
  <2>3. BatchFits'
    BY <2>1, <2>2 DEF BatchFits
  <2>4. BatchHandled'
    BY <2>1, <2>2, BatchStays DEF BatchHandled
  <2>5. QED
    BY <2>3, <2>4
<1>6. ASSUME NEW c \in Clients, HandlerEnds(c) PROVE BatchFits' /\ BatchHandled'
  <2>1. loaded' = loaded /\ handled' = handled \cup BatchIds(c) /\ at[c] = "handle"
    BY <1>6 DEF HandlerEnds
  <2>2. \A b \in Clients : at'[b] = IF b = c THEN "remove" ELSE at[b]
    BY <1>6 DEF HandlerEnds
  <2>3. BatchFits'
    BY <2>1, <2>2 DEF BatchFits
  <2>4. BatchHandled'
    BY <2>1, <2>2, BatchStays DEF BatchHandled
  <2>5. QED
    BY <2>3, <2>4
<1>7. ASSUME NEW c \in Clients, RemoveBatch(c) PROVE BatchFits' /\ BatchHandled'
  <2>1. handled' = handled /\ loaded' = [loaded EXCEPT ![c] = disk']
    BY <1>7 DEF RemoveBatch
  <2>2. \A b \in Clients : at'[b] = IF b = c THEN IF disk'.items = <<>> THEN "reload" ELSE "handle"
                                             ELSE at[b]
    BY <1>7 DEF RemoveBatch, NextBatchOrEnd
  <2>3. \A b \in Clients : loaded'[b] = IF b = c THEN disk' ELSE loaded[b]
    BY <2>1
  <2>4. BatchFits'
    BY <2>2, <2>3 DEF BatchFits
  <2>5. BatchHandled'
    BY <2>1, <2>2, <2>3, BatchStays DEF BatchHandled
  <2>6. QED
    BY <2>4, <2>5
<1>8. CASE TimePasses \/ UNCHANGED workVars
  BY <1>8, BatchKept DEF TimePasses, queueVars, workVars, Batching
<1>9. QED
  BY <1>1, <1>2, <1>3, <1>4, <1>5, <1>6, <1>7, <1>8 DEF WorkNext, Acquisition, Progress

LEMMA QueueInvInit == WorkInit => QueueInv
<1> SUFFICES ASSUME WorkInit PROVE QueueInv
  OBVIOUS
<1> USE DEF WorkInit
<1>1. disk.items = <<>> /\ \A c \in Clients : loaded[c].items = <<>>
  BY DEF NoQueue
<1>2. QueueTyped
  <2>1. <<>> \in Seq(WorkItems)
    BY EmptySeq
  <2>2. accepted \in 0..MaxItems
    BY MaxItemsAssumption
  <2>3. request \in [Clients -> Requests \cup {NoRequest}]
    OBVIOUS
  <2>4. disk.items \in Seq(WorkItems) /\ \A c \in Clients : loaded[c].items \in Seq(WorkItems)
    BY <1>1, <2>1, Zenon
  <2>5. QED
    BY <2>2, <2>3, <2>4 DEF QueueTyped
<1>3. IdsFresh
  BY <1>1 DEF IdsFresh
<1>4. Requested /\ BatchFits /\ BatchHandled
  BY DEF Requested, BatchFits, BatchHandled
<1>5. QED
  BY <1>2, <1>3, <1>4 DEF QueueInv

LEMMA QueueInvariance == WorkSpec => [](misfired \/ (WorkInv /\ QueueInv))
<1>1. WorkInv /\ QueueInv /\ [WorkNext]_workVars => QueueInv'
  <2> SUFFICES ASSUME WorkInv, QueueInv, [WorkNext]_workVars PROVE QueueInv'
    OBVIOUS
  <2>1. QueueTyped' /\ Requested'
    <3>1. /\ WorkTyped /\ Requested
          /\ request \in [Clients -> Requests \cup {NoRequest}]
      BY DEF WorkInv, QueueInv, QueueTyped
    <3>2. request' \in [Clients -> Requests \cup {NoRequest}] /\ Requested'
      BY <3>1, RequestedStep
    <3>3. QED
      BY <3>2, ItemsStep, CopiesStep DEF QueueTyped
  <2>2. IdsFresh'
    BY ItemsStep
  <2>3. BatchFits' /\ BatchHandled'
    BY BatchStep DEF WorkInv, QueueInv
  <2>4. QED
    BY <2>1, <2>2, <2>3 DEF QueueInv
<1>2. misfired /\ [WorkNext]_workVars => misfired'
  BY MisfiresStay, WorkStepsAreLockSteps
<1>3. QED
  BY <1>1, <1>2, QueueInvInit, WorkInvariance, PTL DEF WorkSpec

(* Until a misfire, enqueues and drains on the queue file do to the queue  *)
(* what a queue that handles every item at least once, in order, may do:   *)
(* crashes, failing handlers and failing loads and saves included.         *)
THEOREM QueueIsAtLeastOnce == WorkSpec => QueueUntilMisfire
<1>1. (misfired \/ (WorkInv /\ QueueInv)) /\ [WorkNext]_workVars
      => [misfired' \/ Promise!Next]_<<disk.items, handled>>
  BY QueueStepMaps, MisfiresStay, WorkStepsAreLockSteps DEF Promise!vars
<1>2. QED
  BY <1>1, QueueMapsInit, QueueInvariance, PTL DEF WorkSpec, QueueUntilMisfire
=============================================================================
