--------------------------- MODULE VaultRepoLock ---------------------------
(***************************************************************************)
(* The per-repo lock of the vault keystore (sdk/src/node/vault-keystore.ts)*)
(* and the read-modify-write of the repo file it guards.  The lock is a    *)
(* directory repos/<id>.lock made by mkdir, holding an advisory owner.json *)
(* with the pid of its maker.  Every system call on the lock directory is  *)
(* a step of its own, because other processes run between them.            *)
(***************************************************************************)
EXTENDS Integers, FiniteSets

CONSTANTS
  Procs,       \* the processes (CLI, daemon, MCP server) sharing a keystore
  None,        \* "no owner.json in the lock directory"
  MaxTries,    \* polls of 25 ms that fit in timeoutMs
  MaxUpdates,  \* bound: calls of updateRepo per process
  MaxCrashes,  \* bound: processes that die
  MaxAges      \* bound: times a lock outlives staleAfterMs

ASSUME LockAssumption ==
  /\ None \notin Procs
  /\ MaxTries \in Nat /\ MaxUpdates \in Nat /\ MaxCrashes \in Nat /\ MaxAges \in Nat

VARIABLES
  lock,     \* the lock directory: [dir, owner, old]
  file,     \* the patches present in repos/<id>.json
  pc,       \* where each process is inside withRepoLock
  seen,     \* what reclaimStaleLock observed: [age, owner]
  copy,     \* `existing` of updateRepo: the file as this process read it
  tries,    \* polls spent by the current call
  calls,    \* calls of updateRepo made so far
  ages,     \* locks that grew older than staleAfterMs
  done,     \* history: patches whose updateRepo returned
  robbed    \* history: live holders whose lock a reclaim removed

vars == <<lock, file, pc, seen, copy, tries, calls, ages, done, robbed>>

-----------------------------------------------------------------------------
NoLock == [dir |-> FALSE, owner |-> None, old |-> FALSE]

Patches == Procs \X (1 .. MaxUpdates)

\* The patch the current call of p merges into the file.
Patch(p) == <<p, calls[p]>>

\* mkdir succeeded and safeRemoveLock of the release has not run to its end.
HoldPC == {"owner", "read", "write", "unlinkOwn", "rmdirOwn"}
\* Inside reclaimStaleLock or between two attempts.
WaitPC == {"mkdir", "stat", "readOwner", "decide", "unlink", "rmdir", "wait"}

Holding(p) == pc[p] \in HoldPC

TypeOK ==
  /\ lock \in [dir : BOOLEAN, owner : Procs \cup {None}, old : BOOLEAN]
  /\ file \in SUBSET Patches
  /\ pc \in [Procs -> HoldPC \cup WaitPC \cup {"idle", "dead"}]
  /\ seen \in [Procs -> [age : {"fresh", "old", "infinite"}, owner : Procs \cup {None}]]
  /\ copy \in [Procs -> SUBSET Patches]
  /\ tries \in [Procs -> 0 .. MaxTries]
  /\ calls \in [Procs -> 0 .. MaxUpdates]
  /\ \A p \in Procs : pc[p] \in HoldPC \cup WaitPC => calls[p] >= 1
  /\ ages \in 0 .. MaxAges
  /\ done \in SUBSET Patches
  /\ robbed \in SUBSET Procs

Init ==
  /\ lock = NoLock
  /\ file = {}
  /\ pc = [p \in Procs |-> "idle"]
  /\ seen = [p \in Procs |-> [age |-> "fresh", owner |-> None]]
  /\ copy = [p \in Procs |-> {}]
  /\ tries = [p \in Procs |-> 0]
  /\ calls = [p \in Procs |-> 0]
  /\ ages = 0
  /\ done = {}
  /\ robbed = {}

Goto(p, l) == pc' = [pc EXCEPT ![p] = l]

-----------------------------------------------------------------------------
(* Acquiring.                                                              *)

Call(p) ==
  /\ pc[p] = "idle" /\ calls[p] < MaxUpdates
  /\ calls' = [calls EXCEPT ![p] = @ + 1]
  /\ tries' = [tries EXCEPT ![p] = 0]
  /\ Goto(p, "mkdir")
  /\ UNCHANGED <<lock, file, seen, copy, ages, done, robbed>>

\* Mutant of Mkdir: mkdir with recursive:true, which never reports EEXIST.
MkdirRecursive(p) ==
  /\ pc[p] = "mkdir"
  /\ lock' = [NoLock EXCEPT !.dir = TRUE]
  /\ Goto(p, "owner")
  /\ UNCHANGED <<file, seen, copy, tries, calls, ages, done, robbed>>

\* mkdirSync: creates the directory, or EEXIST sends p to reclaimStaleLock.
Mkdir(p) ==
  /\ pc[p] = "mkdir"
  /\ \/ /\ ~lock.dir
        /\ lock' = [NoLock EXCEPT !.dir = TRUE]
        /\ Goto(p, "owner")
     \/ /\ lock.dir
        /\ Goto(p, "stat")
        /\ UNCHANGED lock
  /\ UNCHANGED <<file, seen, copy, tries, calls, ages, done, robbed>>

\* writeFileAtomic0600(owner.json): it first makes the directory if it is gone.
WriteOwner(p) ==
  /\ pc[p] = "owner"
  /\ lock' = [dir |-> TRUE, owner |-> p, old |-> FALSE]
  /\ Goto(p, "read")
  /\ UNCHANGED <<file, seen, copy, tries, calls, ages, done, robbed>>

-----------------------------------------------------------------------------
(* reclaimStaleLock.                                                       *)

\* statSync: when the directory has gone the catch leaves age at infinity.
Stat(p) ==
  /\ pc[p] = "stat"
  /\ seen' = [seen EXCEPT ![p] =
       [age   |-> IF lock.dir THEN IF lock.old THEN "old" ELSE "fresh" ELSE "infinite",
        owner |-> None]]
  /\ Goto(p, IF lock.dir THEN "readOwner" ELSE "decide")
  /\ UNCHANGED <<lock, file, copy, tries, calls, ages, done, robbed>>

ReadOwner(p) ==
  /\ pc[p] = "readOwner"
  /\ seen' = [seen EXCEPT ![p].owner = lock.owner]
  /\ Goto(p, "decide")
  /\ UNCHANGED <<lock, file, copy, tries, calls, ages, done, robbed>>

\* pidAlive(owner) is asked after the owner record was read.
OwnerDead(p) ==
  seen[p].owner # None /\ seen[p].owner # p /\ pc[seen[p].owner] = "dead"

\* age > staleAfterMs || ownerDead
Stale(p) == seen[p].age # "fresh" \/ OwnerDead(p)

Decide(p) ==
  /\ pc[p] = "decide"
  /\ Goto(p, IF Stale(p) THEN "unlink" ELSE "wait")
  /\ UNCHANGED <<lock, file, seen, copy, tries, calls, ages, done, robbed>>

\* safeRemoveLock, first half: unlink owner.json if it is there.
Unlink(p, from, to) ==
  /\ pc[p] = from
  /\ lock' = IF lock.owner # None THEN [lock EXCEPT !.owner = None, !.old = FALSE] ELSE lock
  /\ Goto(p, to)
  /\ UNCHANGED <<file, seen, copy, tries, calls, ages, done, robbed>>

ReclaimUnlink(p) == Unlink(p, "unlink", "rmdir")

\* safeRemoveLock, second half: rmdir fails when the directory is gone or not
\* empty.  A reclaim that succeeds goes straight back to mkdir.
Removable == lock.dir /\ lock.owner = None

ReclaimRmdir(p) ==
  /\ pc[p] = "rmdir"
  /\ \/ /\ Removable
        /\ lock' = NoLock
        /\ robbed' = robbed \cup {q \in Procs : Holding(q)}
        /\ Goto(p, "mkdir")
     \/ /\ ~Removable
        /\ Goto(p, "wait")
        /\ UNCHANGED <<lock, robbed>>
  /\ UNCHANGED <<file, seen, copy, tries, calls, ages, done>>

\* Mutants of Wait: no deadline at all, and a deadline one poll late.
WaitForever(p) ==
  /\ pc[p] = "wait"
  /\ Goto(p, "mkdir")
  /\ UNCHANGED <<lock, file, seen, copy, tries, calls, ages, done, robbed>>

WaitOneMore(p) ==
  /\ pc[p] = "wait"
  /\ \/ /\ tries[p] <= MaxTries
        /\ tries' = [tries EXCEPT ![p] = @ + 1]
        /\ Goto(p, "mkdir")
     \/ /\ tries[p] > MaxTries
        /\ Goto(p, "idle")
        /\ UNCHANGED tries
  /\ UNCHANGED <<lock, file, seen, copy, calls, ages, done, robbed>>

\* The deadline test, then the 25 ms spin; VAULT_KEYSTORE_LOCKED ends the call.
Wait(p) ==
  /\ pc[p] = "wait"
  /\ \/ /\ tries[p] < MaxTries
        /\ tries' = [tries EXCEPT ![p] = @ + 1]
        /\ Goto(p, "mkdir")
     \/ /\ tries[p] = MaxTries
        /\ Goto(p, "idle")
        /\ UNCHANGED tries
  /\ UNCHANGED <<lock, file, seen, copy, calls, ages, done, robbed>>

-----------------------------------------------------------------------------
(* updateRepo under the lock, and the release.                             *)

ReadRepo(p) ==
  /\ pc[p] = "read"
  /\ copy' = [copy EXCEPT ![p] = file]
  /\ Goto(p, "write")
  /\ UNCHANGED <<lock, file, seen, tries, calls, ages, done, robbed>>

WriteRepo(p) ==
  /\ pc[p] = "write"
  /\ file' = copy[p] \cup {Patch(p)}
  /\ done' = done \cup {Patch(p)}
  /\ Goto(p, "unlinkOwn")
  /\ UNCHANGED <<lock, seen, copy, tries, calls, ages, robbed>>

ReleaseUnlink(p) == Unlink(p, "unlinkOwn", "rmdirOwn")

\* A release whose rmdir fails is swallowed (best-effort).
ReleaseRmdir(p) ==
  /\ pc[p] = "rmdirOwn"
  /\ lock' = IF Removable THEN NoLock ELSE lock
  /\ Goto(p, "idle")
  /\ UNCHANGED <<file, seen, copy, tries, calls, ages, done, robbed>>

-----------------------------------------------------------------------------
(* The environment.                                                        *)

Crash(p) ==
  /\ pc[p] \notin {"idle", "dead"}
  /\ Cardinality({q \in Procs : pc[q] = "dead"}) < MaxCrashes
  /\ Goto(p, "dead")
  /\ UNCHANGED <<lock, file, seen, copy, tries, calls, ages, done, robbed>>

\* More than staleAfterMs (10 minutes) pass since the directory last changed.
Age ==
  /\ lock.dir /\ ~lock.old /\ ages < MaxAges
  /\ lock' = [lock EXCEPT !.old = TRUE]
  /\ ages' = ages + 1
  /\ UNCHANGED <<file, pc, seen, copy, tries, calls, done, robbed>>

\* Every step of a call that the process takes by itself.
Step(p) ==
  \/ Mkdir(p) \/ WriteOwner(p)
  \/ Stat(p) \/ ReadOwner(p) \/ Decide(p) \/ ReclaimUnlink(p) \/ ReclaimRmdir(p) \/ Wait(p)
  \/ ReadRepo(p) \/ WriteRepo(p) \/ ReleaseUnlink(p) \/ ReleaseRmdir(p)

Next ==
  \/ \E p \in Procs : Call(p) \/ Step(p) \/ Crash(p)
  \/ Age

\* withRepoLock is synchronous: a process that runs at all runs to its end.
Fairness == \A p \in Procs : WF_vars(Step(p))

Spec == Init /\ [][Next]_vars /\ Fairness

-----------------------------------------------------------------------------
(* Properties.                                                             *)

\* "Writes SHALL be atomic with per-repo locks": two processes are never inside
\* the callback of withRepoLock for the same repo at once.
MutualExclusion ==
  \A p, q \in Procs : pc[p] \in {"read", "write"} /\ pc[q] \in {"read", "write"} => p = q

\* The same as long as no reclaim removed the lock of a process that was alive:
\* crashes, timeouts, failed releases and reclaims of a dead holder's lock never
\* let two processes in.
OnlyTheftBreaksExclusion == robbed = {} => MutualExclusion

\* Every updateRepo that returned is in the repo file, unless a reclaim removed
\* the lock of a process that was alive: a patch is lost in no other way, not by
\* a crash, a timeout, a failed release or a reclaim of a dead holder's lock.
OnlyTheftLosesUpdates == robbed = {} => done \subseteq file

\* No call hangs: behind a dead holder, a live one or a stream of them, each
\* call of withRepoLock returns, fails with VAULT_KEYSTORE_LOCKED or dies.
EveryCallEnds == \A p \in Procs : (pc[p] = "mkdir") ~> (pc[p] \in {"idle", "dead"})
=============================================================================
