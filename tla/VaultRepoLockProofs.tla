------------------------ MODULE VaultRepoLockProofs ------------------------
(***************************************************************************)
(* Proofs about VaultRepoLock, for any number of processes, calls, crashes *)
(* and lock ages.                                                          *)
(***************************************************************************)
EXTENDS VaultRepoLock, TLAPS

\* While nobody was robbed the directory stands for its holder, and a holder
\* between its read and its write holds the file as it still is.
OneHolder == \A p, q \in Procs : Holding(p) /\ Holding(q) => p = q
HeldLockExists == \A p \in Procs : Holding(p) => lock.dir
CopyCurrent == \A p \in Procs : pc[p] = "write" => copy[p] = file

LockInv ==
  robbed = {} => OneHolder /\ HeldLockExists /\ CopyCurrent /\ done \subseteq file

\* Every step of the lock protocol keeps the types of its variables.
THEOREM TypeCorrect == Spec => []TypeOK
<1> USE LockAssumption DEF LockAssumption
<1>1. Init => TypeOK
  BY DEF Init, TypeOK, NoLock, HoldPC, WaitPC
<1>2. TypeOK /\ [Next]_vars => TypeOK'
  <2> SUFFICES ASSUME TypeOK, [Next]_vars PROVE TypeOK'
    OBVIOUS
  <2> USE DEF TypeOK, NoLock, HoldPC, WaitPC, Patches, Goto, Patch
  <2>1. CASE UNCHANGED vars
    BY <2>1 DEF vars
  <2>2. CASE Age
    <3>1. lock' \in [dir : BOOLEAN, owner : Procs \cup {None}, old : BOOLEAN]
      BY <2>2 DEF Age
    <3>2. ages' \in 0 .. MaxAges
      BY <2>2 DEF Age
    <3>3. QED
      BY <2>2, <3>1, <3>2 DEF Age
  <2>3. ASSUME NEW p \in Procs, Call(p) PROVE TypeOK'
    BY <2>3 DEF Call
  <2>4. ASSUME NEW p \in Procs, Mkdir(p) PROVE TypeOK'
    BY <2>4 DEF Mkdir
  <2>5. ASSUME NEW p \in Procs, WriteOwner(p) PROVE TypeOK'
    BY <2>5 DEF WriteOwner
  <2>6. ASSUME NEW p \in Procs, Stat(p) PROVE TypeOK'
    BY <2>6 DEF Stat
  <2>7. ASSUME NEW p \in Procs, ReadOwner(p) PROVE TypeOK'
    BY <2>7 DEF ReadOwner
  <2>8. ASSUME NEW p \in Procs, Decide(p) PROVE TypeOK'
    BY <2>8 DEF Decide
  <2>9. ASSUME NEW p \in Procs, ReclaimUnlink(p) PROVE TypeOK'
    BY <2>9 DEF ReclaimUnlink, Unlink
  <2>10. ASSUME NEW p \in Procs, ReclaimRmdir(p) PROVE TypeOK'
    <3>1. robbed' \in SUBSET Procs
      BY <2>10 DEF ReclaimRmdir
    <3>2. lock' \in [dir : BOOLEAN, owner : Procs \cup {None}, old : BOOLEAN]
      <4>1. NoLock \in [dir : BOOLEAN, owner : Procs \cup {None}, old : BOOLEAN]
        OBVIOUS
      <4>2. lock' = NoLock \/ lock' = lock
        BY <2>10, Zenon DEF ReclaimRmdir
      <4>3. QED
        BY <4>1, <4>2
    <3>3. pc' \in [Procs -> HoldPC \cup WaitPC \cup {"idle", "dead"}]
      BY <2>10 DEF ReclaimRmdir
    <3>4. \A r \in Procs : pc'[r] \in HoldPC \cup WaitPC => calls'[r] >= 1
      BY <2>10 DEF ReclaimRmdir
    <3>5. QED
      BY <2>10, <3>1, <3>2, <3>3, <3>4 DEF ReclaimRmdir
  <2>11. ASSUME NEW p \in Procs, Wait(p) PROVE TypeOK'
    BY <2>11 DEF Wait
  <2>12. ASSUME NEW p \in Procs, ReadRepo(p) PROVE TypeOK'
    BY <2>12 DEF ReadRepo
  <2>13. ASSUME NEW p \in Procs, WriteRepo(p) PROVE TypeOK'
    BY <2>13 DEF WriteRepo
  <2>14. ASSUME NEW p \in Procs, ReleaseUnlink(p) PROVE TypeOK'
    BY <2>14 DEF ReleaseUnlink, Unlink
  <2>15. ASSUME NEW p \in Procs, ReleaseRmdir(p) PROVE TypeOK'
    BY <2>15 DEF ReleaseRmdir, Removable
  <2>16. ASSUME NEW p \in Procs, Crash(p) PROVE TypeOK'
    BY <2>16 DEF Crash
  <2>17. QED
    BY <2>1, <2>2, <2>3, <2>4, <2>5, <2>6, <2>7, <2>8, <2>9, <2>10, <2>11, <2>12,
       <2>13, <2>14, <2>15, <2>16 DEF Next, Step
<1>3. QED
  BY <1>1, <1>2, PTL DEF Spec

\* LockInv is inductive: it adds to the two properties below that a held lock is
\* on disk, that it has one holder from mkdir to rmdir, and that the holder's
\* copy is current.
LEMMA HolderInvariant == Spec => []LockInv
<1>1. Init => LockInv
  BY DEF Init, LockInv, OneHolder, HeldLockExists, CopyCurrent, Holding, HoldPC
<1>2. TypeOK /\ LockInv /\ [Next]_vars => LockInv'
  <2> SUFFICES ASSUME TypeOK, LockInv, [Next]_vars, robbed' = {} PROVE LockInv'
    BY DEF LockInv
  <2>0. robbed = {}
    BY DEF Next, vars, Step, Call, Mkdir, WriteOwner, Stat, ReadOwner, Decide, ReclaimUnlink,
           ReleaseUnlink, Unlink, ReclaimRmdir, Wait, ReadRepo, WriteRepo, ReleaseRmdir, Crash, Age
  <2>a. OneHolder /\ HeldLockExists /\ CopyCurrent /\ done \subseteq file
    BY <2>0 DEF LockInv
  <2> USE <2>a DEF LockInv, OneHolder, HeldLockExists, CopyCurrent, Holding, HoldPC, Goto, NoLock
  <2>1. CASE UNCHANGED vars
    BY <2>1 DEF vars
  <2>2. CASE Age
    BY <2>2 DEF Age, TypeOK
  <2>3. ASSUME NEW p \in Procs, Call(p) PROVE LockInv'
    BY <2>3 DEF Call, TypeOK
  <2>4. ASSUME NEW p \in Procs, Mkdir(p) PROVE LockInv'
    BY <2>4 DEF Mkdir, TypeOK
  <2>5. ASSUME NEW p \in Procs, WriteOwner(p) PROVE LockInv'
    BY <2>5 DEF WriteOwner, TypeOK
  <2>6. ASSUME NEW p \in Procs, Stat(p) PROVE LockInv'
    BY <2>6 DEF Stat, TypeOK
  <2>7. ASSUME NEW p \in Procs, ReadOwner(p) PROVE LockInv'
    BY <2>7 DEF ReadOwner, TypeOK
  <2>8. ASSUME NEW p \in Procs, Decide(p) PROVE LockInv'
    BY <2>8 DEF Decide, TypeOK
  <2>9. ASSUME NEW p \in Procs, ReclaimUnlink(p) PROVE LockInv'
    BY <2>9 DEF ReclaimUnlink, Unlink, TypeOK
  <2>10. ASSUME NEW p \in Procs, ReclaimRmdir(p) PROVE LockInv'
    BY <2>10 DEF ReclaimRmdir, TypeOK
  <2>11. ASSUME NEW p \in Procs, Wait(p) PROVE LockInv'
    BY <2>11 DEF Wait, TypeOK
  <2>12. ASSUME NEW p \in Procs, ReadRepo(p) PROVE LockInv'
    BY <2>12 DEF ReadRepo, TypeOK
  <2>13. ASSUME NEW p \in Procs, WriteRepo(p) PROVE LockInv'
    BY <2>13 DEF WriteRepo, TypeOK
  <2>14. ASSUME NEW p \in Procs, ReleaseUnlink(p) PROVE LockInv'
    BY <2>14 DEF ReleaseUnlink, Unlink, TypeOK
  <2>15. ASSUME NEW p \in Procs, ReleaseRmdir(p) PROVE LockInv'
    BY <2>15 DEF ReleaseRmdir, TypeOK
  <2>16. ASSUME NEW p \in Procs, Crash(p) PROVE LockInv'
    BY <2>16 DEF Crash, TypeOK
  <2>17. QED
    BY <2>1, <2>2, <2>3, <2>4, <2>5, <2>6, <2>7, <2>8, <2>9, <2>10, <2>11, <2>12,
       <2>13, <2>14, <2>15, <2>16 DEF Next, Step
<1>3. QED
  BY <1>1, <1>2, TypeCorrect, PTL DEF Spec

\* Two processes are in the callback of withRepoLock at once only after a
\* reclaim removed a live holder's lock.
THEOREM Exclusion == Spec => []OnlyTheftBreaksExclusion
<1>1. LockInv => OnlyTheftBreaksExclusion
  BY DEF LockInv, OneHolder, Holding, HoldPC, OnlyTheftBreaksExclusion, MutualExclusion
<1>2. QED
  BY <1>1, HolderInvariant, PTL

\* A returned updateRepo is lost only through a reclaim that removed a live
\* holder's lock.
THEOREM UpdatesSurvive == Spec => []OnlyTheftLosesUpdates
<1>1. LockInv => OnlyTheftLosesUpdates
  BY DEF LockInv, OnlyTheftLosesUpdates
<1>2. QED
  BY <1>1, HolderInvariant, PTL
=============================================================================
