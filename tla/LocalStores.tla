---------------------------- MODULE LocalStores ----------------------------
(***************************************************************************)
(* The JSON files that every run402 process on a machine shares: the       *)
(* project-key cache (core/src/keystore.ts), the profile state with the    *)
(* active project of each wallet (profile-state.ts) and the cache of write *)
(* approvals (write-approvals.ts).  Each update reads the whole file and   *)
(* renames a new one over it.  The first two files have a lock directory   *)
(* that nobody reclaims, the third has none, and the import of the legacy  *)
(* projects.json writes the first without its lock.  A file operation is a *)
(* step: another process, or a crash, comes between any two.               *)
(***************************************************************************)
EXTENDS Naturals

CONSTANTS
  Procs, WalletOf,   \* processes and the wallet (or "unknown") each runs with
  Projects, Legacy, Approvals, None,
  Calls,             \* the calls a process may make, records [op, arg]
  Retries,           \* attempts at a lock directory (200 in the code)
  MaxCalls, MaxCrashes

ASSUME StoresAssumption ==
  /\ Legacy \subseteq Projects
  /\ None \notin Projects /\ \A held \in SUBSET Projects : held # None
  /\ Calls \subseteq [op : {"save", "remove", "use"}, arg : Projects]
               \cup [op : {"approve"}, arg : Approvals] \cup [op : {"load", "logout"}, arg : {None}]
  /\ Retries \in Nat \ {0} /\ MaxCalls \in Nat /\ MaxCrashes \in Nat

VARIABLES
  keys,       \* project-keys.v1.json: the projects it holds, or None
  state,      \* state.json: the active and previous project, scoped and flat
  approvals,  \* write-approvals.json
  lock,       \* the two lock directories
  at, my,     \* where each process is; its call, its copy, its attempts
  calls, crashes,
  saved,      \* history: projects whose save took effect, less those removed
  raced,      \* history: an import wrote over a project-key file
  used,       \* history: what each wallet last made its active project
  granted,    \* history: approvals saved since the last logout
  overlapped  \* history: two saves of approvals overlapped

history == <<saved, raced, used, granted, overlapped>>
vars == <<keys, state, approvals, lock, at, my, calls, crashes, history>>

Wallets == {WalletOf[p] : p \in Procs}
Scope == [cur : Projects \cup {None}, prev : Projects \cup {None}]
State == [scoped : [Wallets -> Scope], flat : Scope]
Nothing == [cur |-> None, prev |-> None]

Files == {"keys", "state"}
Ops == {"none", "save", "remove", "clear", "use", "load", "import", "mark", "approve", "logout"}
Local == [op : Ops, arg : Projects \cup Approvals \cup {None}, copy : SUBSET Projects,
          view : State, seen : SUBSET Approvals, tries : 0 .. Retries - 1]
NewState == [scoped |-> [w \in Wallets |-> Nothing], flat |-> Nothing]
Idle == [op |-> "none", arg |-> None, copy |-> {}, view |-> NewState, seen |-> {}, tries |-> 0]

TypeOK ==
  /\ keys \in (SUBSET Projects) \cup {None}
  /\ state \in State
  /\ approvals \subseteq Approvals
  /\ lock \in [Files -> BOOLEAN]
  /\ at \in [Procs -> {"idle", "lock", "read", "write", "unlock", "import", "approvals", "push"}]
  /\ my \in [Procs -> Local]
  /\ calls \in 0..MaxCalls /\ crashes \in 0..MaxCrashes
  /\ saved \subseteq Projects /\ raced \in BOOLEAN
  /\ used \in [Wallets -> Projects \cup {None}]
  /\ granted \subseteq Approvals /\ overlapped \in BOOLEAN

Init ==
  /\ keys = None /\ state = NewState /\ approvals = {}
  /\ lock = [f \in Files |-> FALSE]
  /\ at = [p \in Procs |-> "idle"] /\ my = [p \in Procs |-> Idle]
  /\ calls = 0 /\ crashes = 0
  /\ saved = {} /\ raced = FALSE /\ used = [w \in Wallets |-> None]
  /\ granted = {} /\ overlapped = FALSE

-----------------------------------------------------------------------------

\* The file an operation updates.
FileOf(op) == IF op \in {"save", "remove"} THEN "keys" ELSE "state"

Goto(p, l) == at' = [at EXCEPT ![p] = l]
Ends(p) == Goto(p, "idle") /\ my' = [my EXCEPT ![p] = Idle]
Then(p, op, arg) == /\ Goto(p, "lock")
                    /\ my' = [my EXCEPT ![p] = [Idle EXCEPT !.op = op, !.arg = arg]]

\* getActiveProjectId: the entry of the wallet, else the flat one.
ActiveProject(w) == IF state.scoped[w].cur # None THEN state.scoped[w].cur ELSE state.flat.cur

\* Mutant: the choice is recorded without its wallet.
UsedUnscoped(v, w, x) ==
  [v EXCEPT !.flat = [cur |-> x, prev |-> IF v.flat.cur # x THEN v.flat.cur ELSE None]]

\* setActiveProjectId
Used(v, w, x) ==
  LET cur  == IF v.scoped[w].cur # None THEN v.scoped[w].cur ELSE v.flat.cur
      next == [cur |-> x, prev |-> IF cur # x THEN cur ELSE None]
  IN [scoped |-> [v.scoped EXCEPT ![w] = next], flat |-> next]

\* clearActiveProjectId falls back to the previous project.
Cleared(v, w, x) ==
  [scoped |-> IF v.scoped[w].cur = x
              THEN [v.scoped EXCEPT ![w] = [cur |-> v.scoped[w].prev, prev |-> None]]
              ELSE v.scoped,
   flat   |-> IF v.flat.cur = x
              THEN [cur |-> IF v.flat.prev # x THEN v.flat.prev ELSE None, prev |-> None]
              ELSE v.flat]

-----------------------------------------------------------------------------
(* A call.                                                                  *)

Begin(p) ==
  /\ at[p] = "idle" /\ calls < MaxCalls
  /\ calls' = calls + 1
  /\ \E c \in Calls :
       /\ my' = [my EXCEPT ![p] = [Idle EXCEPT !.op = c.op, !.arg = c.arg]]
       /\ Goto(p, CASE c.op = "load"    -> "import"
                    [] c.op = "approve" -> "approvals"
                    [] c.op = "logout"  -> "push"
                    [] OTHER            -> "lock")
  /\ UNCHANGED <<keys, state, approvals, lock, crashes, history>>

\* Mutant: mkdir with recursive: true, which succeeds on an existing directory.
LockRecursive(p) ==
  /\ at[p] = "lock"
  /\ lock' = [lock EXCEPT ![FileOf(my[p].op)] = TRUE]
  /\ Goto(p, "read")
  /\ UNCHANGED <<keys, state, approvals, my, calls, crashes, history>>

\* withFileLock: mkdir either creates the directory ...
Lock(p) ==
  /\ at[p] = "lock" /\ ~lock[FileOf(my[p].op)]
  /\ lock' = [lock EXCEPT ![FileOf(my[p].op)] = TRUE]
  /\ Goto(p, "read")
  /\ UNCHANGED <<keys, state, approvals, my, calls, crashes, history>>

\* Mutant: no limit on the attempts.
WaitForever(p) ==
  /\ at[p] = "lock" /\ lock[FileOf(my[p].op)]
  /\ UNCHANGED vars

\* ... or fails; the last failure is thrown and ends the call.
Wait(p) ==
  /\ at[p] = "lock" /\ lock[FileOf(my[p].op)]
  /\ IF my[p].tries + 1 < Retries
     THEN my' = [my EXCEPT ![p].tries = @ + 1] /\ UNCHANGED at
     ELSE Ends(p)
  /\ UNCHANGED <<keys, state, approvals, lock, calls, crashes, history>>

\* A missing file reads as an empty one.
Read(p) ==
  /\ at[p] = "read"
  /\ IF FileOf(my[p].op) = "keys"
     THEN my' = [my EXCEPT ![p].copy = IF keys = None THEN {} ELSE keys]
     ELSE my' = [my EXCEPT ![p].view = state]
  /\ Goto(p, "write")
  /\ UNCHANGED <<keys, state, approvals, lock, calls, crashes, history>>

\* saveProject, removeProject
WriteKeys(p) ==
  /\ at[p] = "write" /\ FileOf(my[p].op) = "keys"
  /\ LET x == my[p].arg IN
     IF my[p].op = "save"
     THEN keys' = my[p].copy \cup {x} /\ saved' = saved \cup {x}
     ELSE keys' = my[p].copy \ {x} /\ saved' = saved \ {x}
  /\ Goto(p, "unlock")
  /\ UNCHANGED <<state, approvals, lock, my, calls, crashes, raced, used, granted, overlapped>>

\* setActiveProjectId, clearActiveProjectId, recordMigration (no active project)
WriteState(p) ==
  /\ at[p] = "write" /\ FileOf(my[p].op) = "state"
  /\ LET w == WalletOf[p]  x == my[p].arg  v == my[p].view IN
     CASE my[p].op \in {"use", "import"} ->
            state' = Used(v, w, x) /\ used' = [used EXCEPT ![w] = x]
       [] my[p].op = "clear" ->
            /\ state' = Cleared(v, w, x)
            /\ used' = [used EXCEPT ![w] = IF @ = x THEN None ELSE @]
       [] OTHER -> state' = v /\ UNCHANGED used
  /\ Goto(p, "unlock")
  /\ UNCHANGED <<keys, approvals, lock, my, calls, crashes, saved, raced, granted, overlapped>>

\* rmdir; removeProject goes on to the active project, the import to its marker.
Unlock(p) ==
  /\ at[p] = "unlock"
  /\ lock' = [lock EXCEPT ![FileOf(my[p].op)] = FALSE]
  /\ CASE my[p].op = "remove" -> Then(p, "clear", my[p].arg)
       [] my[p].op = "import" -> Then(p, "mark", None)
       [] OTHER -> Ends(p)
  /\ UNCHANGED <<keys, state, approvals, calls, crashes, history>>

\* migrateLegacyProjectsJson: the test that no project-key file exists yet ...
Import(p) ==
  /\ at[p] = "import" /\ my[p].op = "load"
  /\ IF keys = None /\ Legacy # {}
     THEN my' = [my EXCEPT ![p].op = "import"] /\ UNCHANGED at
     ELSE Ends(p)
  /\ UNCHANGED <<keys, state, approvals, lock, calls, crashes, history>>

\* ... and the write, without the lock, then the legacy active project.
ImportWrite(p) ==
  /\ at[p] = "import" /\ my[p].op = "import"
  /\ keys' = Legacy /\ raced' = (raced \/ keys # None)
  /\ \E x \in Legacy : Then(p, "import", x)
  /\ UNCHANGED <<state, approvals, lock, calls, crashes, saved, used, granted, overlapped>>

\* saveApproval reads the file ...
ReadApprovals(p) ==
  /\ at[p] = "approvals"
  /\ my' = [my EXCEPT ![p].seen = approvals]
  /\ Goto(p, "push")
  /\ overlapped' = (overlapped \/ \E q \in Procs \ {p} : at[q] = "push" /\ my[q].op = "approve")
  /\ UNCHANGED <<keys, state, approvals, lock, calls, crashes, saved, raced, used, granted>>

\* Mutant: the file is written with the new entry alone.
PushApprovalOnly(p) ==
  /\ at[p] = "push" /\ my[p].op = "approve"
  /\ approvals' = {my[p].arg}
  /\ granted' = granted \cup {my[p].arg}
  /\ Ends(p)
  /\ UNCHANGED <<keys, state, lock, calls, crashes, saved, raced, used, overlapped>>

\* ... and writes what it read with its own entry in place.
PushApproval(p) ==
  /\ at[p] = "push" /\ my[p].op = "approve"
  /\ approvals' = my[p].seen \cup {my[p].arg}
  /\ granted' = granted \cup {my[p].arg}
  /\ Ends(p)
  /\ UNCHANGED <<keys, state, lock, calls, crashes, saved, raced, used, overlapped>>

\* clearApprovals
Logout(p) ==
  /\ at[p] = "push" /\ my[p].op = "logout"
  /\ approvals' = {} /\ granted' = {}
  /\ Ends(p)
  /\ UNCHANGED <<keys, state, lock, calls, crashes, saved, raced, used, overlapped>>

\* A process dies where it stands; a lock it held stays.
Crash(p) ==
  /\ at[p] # "idle" /\ crashes < MaxCrashes
  /\ crashes' = crashes + 1
  /\ Ends(p)
  /\ UNCHANGED <<keys, state, approvals, lock, calls, history>>

Step(p) ==
  \/ Lock(p) \/ Wait(p) \/ Read(p) \/ WriteKeys(p) \/ WriteState(p) \/ Unlock(p)
  \/ Import(p) \/ ImportWrite(p) \/ ReadApprovals(p) \/ PushApproval(p) \/ Logout(p)

Next == \E p \in Procs : Begin(p) \/ Step(p) \/ Crash(p)

Spec == Init /\ [][Next]_vars /\ \A p \in Procs : WF_vars(Step(p))

-----------------------------------------------------------------------------
(* Properties.                                                              *)

\* A project key that was saved and not removed stays in the file, whatever other
\* processes save, remove or leave behind, unless the unlocked import of the legacy
\* file wrote over it.
OnlyImportLosesKeys == ~raced => (saved # {} => keys # None /\ saved \subseteq keys)

\* What a wallet last made its active project is what it reads back, whatever other
\* wallets and processes choose: the scoped entry wins over the flat one.
ReadsOwnChoice == \A w \in Wallets : used[w] # None => ActiveProject(w) = used[w]

\* An approval stays until the logout, unless two processes saved at the same time.
OnlyOverlapLosesApprovals == ~overlapped => granted \subseteq approvals

\* Every call ends, also when a dead process left its lock directory behind.
EveryCallEnds == \A p \in Procs : (at[p] # "idle") ~> (at[p] = "idle")
=============================================================================
