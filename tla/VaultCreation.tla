--------------------------- MODULE VaultCreation ---------------------------
(***************************************************************************)
(* The creation of a vault (sdk/src/node/vault-creation-journal.ts and its *)
(* two drivers, vault-open-or-create.ts and vault-push-to-create.ts): a    *)
(* journal of six stages, persisted before each irreversible step, drives  *)
(* the vault of one project to ACTIVE across crashes, lost answers, a      *)
(* reclaimed allocation, and other processes on the same or on another     *)
(* keystore.                                                               *)
(***************************************************************************)
EXTENDS Naturals, Sequences

CONSTANTS
  Procs,         \* client processes; each runs one creation call at a time
  Homes,         \* the keystore layouts: functions from Procs to stores
  Modes,         \* how the vault is addressed: "project", "name"
  Resolutions,   \* when the gateway resolves a vault: "objects", "genesis"
  None,
  MaxAttempts,   \* bound on the journals of one keystore
  MaxFaults,     \* bound on processes that die or lose an answer
  MaxReclaims,   \* bound on allocations reclaimed by the owner
  MaxPolls       \* attempts of the poll for the winner (20 in the code)

ASSUME BoundsAssumption ==
  /\ {MaxAttempts, MaxFaults, MaxReclaims, MaxPolls} \subseteq Nat
  /\ None \notin [vault : Nat, key : Nat, genesis : Nat, pinned : BOOLEAN] \cup Nat

VARIABLES
  env,      \* [home, mode, resolves]: fixed by Init
  vaults,   \* the gateway: one record per allocation, in order of issue
  minted,   \* how many random keys and genesis timestamps were drawn
  journals, \* journals[s]: the journal files of keystore s
  recent,   \* recent[s]: their numbers, last written first (updated_at)
  repo,     \* repo[s]: the repo file, or None
  receipt,  \* receipt[s]: the recovery receipt's genesis, or None
  proc,     \* proc[p]: what process p holds in memory
  faults, reclaims

server  == <<vaults, reclaims>>
disk    == <<journals, recent, repo, receipt>>
vars    == <<env, server, minted, disk, proc, faults>>

Stores == UNION {{h[p] : p \in Procs} : h \in Homes}

Stages == {"KEYS", "ALLOCATED", "PREPARED", "FINALIZED", "GENESIS", "ACTIVE"}

Journal == [stage : Stages, vault : Nat, key : Nat, genesis : Nat, refused : BOOLEAN]

NewJournal == [stage |-> "KEYS", vault |-> 0, key |-> 0, genesis |-> 0, refused |-> FALSE]

Idle == [pc |-> "idle", at |-> 0, j |-> NewJournal, ans |-> 0]

home(p) == env.home[p]

TypeOK ==
  /\ env \in [home : Homes, mode : Modes, resolves : Resolutions]
  /\ vaults \in Seq([id : Stores \X Nat, live : BOOLEAN, object : Nat, genesis : Nat, key : Nat])
  /\ minted \in Nat
  /\ journals \in [Stores -> Seq(Journal)]
  /\ recent \in [Stores -> Seq(Nat)]
  /\ repo \in [Stores -> [vault : Nat, key : Nat, genesis : Nat, pinned : BOOLEAN] \cup {None}]
  /\ receipt \in [Stores -> Nat \cup {None}]
  /\ \A p \in Procs :
       /\ proc[p].pc \in {"idle", "open", "allocate", "allocated", "reconcile", "poll", "seal",
                          "check", "put", "stored", "prepare", "read", "admit", "admitted",
                          "save", "receipt", "activate"}
       /\ proc[p].j \in Journal
       /\ proc[p].pc = "poll" => proc[p].ans \in 0..MaxPolls
  /\ faults \in 0..MaxFaults /\ reclaims \in 0..MaxReclaims

Init ==
  /\ env \in [home : Homes, mode : Modes, resolves : Resolutions]
  /\ vaults = <<>> /\ minted = 0
  /\ journals = [s \in Stores |-> <<>>] /\ recent = [s \in Stores |-> <<>>]
  /\ repo = [s \in Stores |-> None] /\ receipt = [s \in Stores |-> None]
  /\ proc = [p \in Procs |-> Idle]
  /\ faults = 0 /\ reclaims = 0

-----------------------------------------------------------------------------
(* The gateway. A project has one allocation that is neither reclaimed nor  *)
(* under another client_creation_id.                                        *)

Live == {v \in 1..Len(vaults) : vaults[v].live}

Resolvable(v) == vaults[v].live /\ IF env.resolves = "genesis" THEN vaults[v].genesis # 0
                                                              ELSE vaults[v].object # 0

Found == \E v \in Live : Resolvable(v)

-----------------------------------------------------------------------------
(* The journal file.                                                        *)

\* The journal that was just written has the last updated_at.
WithFirst(numbers, n) == <<n>> \o SelectSeq(numbers, LAMBDA m : m # n)

\* persist(): the whole journal held in memory replaces the file.
Persist(p, j) ==
  LET s == home(p)  n == proc[p].at IN
  /\ journals' = [journals EXCEPT ![s][n] = j]
  /\ recent' = [recent EXCEPT ![s] = WithFirst(@, n)]

\* advance(): a stage is durable before the process goes on from it.
Advance(p, j, next) ==
  /\ Persist(p, j)
  /\ proc' = [proc EXCEPT ![p] = [pc |-> next, at |-> @.at, j |-> j, ans |-> 0]]
  /\ UNCHANGED <<repo, receipt>>

\* refuse(): the refusal is journaled and thrown; the attempt never resumes.
Refuse(p, next) ==
  /\ Persist(p, [proc[p].j EXCEPT !.refused = TRUE])
  /\ proc' = [proc EXCEPT ![p] = IF next = "idle" THEN Idle ELSE [@ EXCEPT !.pc = next, !.ans = 0]]
  /\ UNCHANGED <<repo, receipt>>

Goto(p, next, ans) == proc' = [proc EXCEPT ![p] = [@ EXCEPT !.pc = next, !.ans = ans]]

Ends(p) == proc' = [proc EXCEPT ![p] = Idle]

\* Mutant: the object is sealed again on resume.
ResumeAtSeal(stage) ==
  CASE stage = "KEYS"      -> "allocate"
    [] stage \in {"ALLOCATED", "PREPARED"} -> "seal"
    [] stage = "FINALIZED" -> "prepare"
    [] stage = "GENESIS"   -> "read"

\* Where run() takes up a journal of each stage.
ResumeAt(stage) ==
  CASE stage = "KEYS"      -> "allocate"
    [] stage = "ALLOCATED" -> "seal"
    [] stage = "PREPARED"  -> "check"
    [] stage = "FINALIZED" -> "prepare"
    [] stage = "GENESIS"   -> "read"

\* findResumableVaultJournal / findResumablePushToCreateJournal: of the incomplete,
\* unrefused journals of this address the one that was written last.
Resumable(s) == {n \in 1..Len(journals[s]) : journals[s][n].stage # "ACTIVE" /\ ~journals[s][n].refused}
WrittenLast(s, n) ==
  \A m \in Resumable(s) \ {n} :
    \E i, k \in 1..Len(recent[s]) : i < k /\ recent[s][i] = n /\ recent[s][k] = m

-----------------------------------------------------------------------------
(* One call, from the resolution of the address to ACTIVE.                  *)

\* openOrCreateVault falls through to the journal on ANY failed resolution.
OpenOrCreate(p) ==
  /\ proc[p].pc = "idle" /\ env.mode = "project"
  /\ \/ ~Found /\ Goto(p, "open", 0) /\ faults' = faults
     \/ Found /\ faults < MaxFaults /\ Goto(p, "open", 0) /\ faults' = faults + 1
  /\ UNCHANGED <<env, server, minted, disk>>

\* Mutant: here too.
PushToCreateAnyError(p) ==
  /\ proc[p].pc = "idle" /\ env.mode = "name"
  /\ \/ ~Found /\ Goto(p, "open", 0) /\ faults' = faults
     \/ Found /\ faults < MaxFaults /\ Goto(p, "open", 0) /\ faults' = faults + 1
  /\ UNCHANGED <<env, server, minted, disk>>

\* pushToCreateVault does so on not-found only.
PushToCreate(p) ==
  /\ proc[p].pc = "idle" /\ env.mode = "name"
  /\ ~Found /\ Goto(p, "open", 0)
  /\ UNCHANGED <<env, server, minted, disk, faults>>

\* The search for a resumable journal and VaultCreation.open are synchronous.
Open(p) ==
  /\ proc[p].pc = "open"
  /\ LET s == home(p) IN
     \/ \E n \in Resumable(s) :
          /\ WrittenLast(s, n)
          /\ proc' = [proc EXCEPT ![p] = [pc |-> ResumeAt(journals[s][n].stage), at |-> n,
                                          j |-> journals[s][n], ans |-> 0]]
          /\ UNCHANGED disk
     \/ /\ Resumable(s) = {} /\ Len(journals[s]) < MaxAttempts
        /\ journals' = [journals EXCEPT ![s] = Append(@, NewJournal)]
        /\ recent' = [recent EXCEPT ![s] = <<Len(journals[s]) + 1>> \o @]
        /\ proc' = [proc EXCEPT ![p] = [pc |-> "allocate", at |-> Len(journals[s]) + 1,
                                        j |-> NewJournal, ans |-> 0]]
        /\ UNCHANGED <<repo, receipt>>
     \/ /\ Resumable(s) = {} /\ Len(journals[s]) = MaxAttempts
        /\ Ends(p) /\ UNCHANGED disk
  /\ UNCHANGED <<env, server, minted, faults>>

\* POST /vaults/v1: idempotent on the client_creation_id, one per project (the
\* answer 0 is the conflict); a name stays claimed by the attempt that took it.
Allocate(p) ==
  /\ proc[p].pc = "allocate"
  /\ LET id   == <<home(p), proc[p].at>>
         mine == {v \in 1..Len(vaults) : vaults[v].id = id} IN
     IF mine # {}
     THEN \E v \in mine : Goto(p, "allocated", v) /\ UNCHANGED vaults
     ELSE IF Live # {} THEN Goto(p, "allocated", 0) /\ UNCHANGED vaults
     ELSE /\ vaults' = Append(vaults, [id |-> id, live |-> TRUE, object |-> 0, genesis |-> 0, key |-> 0])
          /\ Goto(p, "allocated", Len(vaults) + 1)
  /\ UNCHANGED <<env, reclaims, minted, disk, faults>>

\* The answer: verifyAllocation refuses a superseded one; a lost name claim is
\* refused and polled for; a conflict on the project is reconciled.
Allocated(p) ==
  /\ proc[p].pc = "allocated"
  /\ LET v == proc[p].ans IN
     IF v = 0
     THEN IF env.mode = "name" THEN Refuse(p, "poll")
          ELSE Goto(p, "reconcile", 0) /\ UNCHANGED disk
     ELSE IF ~vaults[v].live THEN Refuse(p, "idle")
     ELSE Advance(p, [proc[p].j EXCEPT !.stage = "ALLOCATED", !.vault = v], "seal")
  /\ UNCHANGED <<env, server, minted, faults>>

\* reconcileAllocateConflict returns or throws, and mints and journals nothing.
Reconcile(p) ==
  /\ proc[p].pc = "reconcile"
  /\ Ends(p)
  /\ UNCHANGED <<env, server, minted, disk, faults>>

\* pollFindVaultByProject: a bounded number of tries, then the failure.
Poll(p) ==
  /\ proc[p].pc = "poll"
  /\ IF Found \/ proc[p].ans = MaxPolls THEN Ends(p) ELSE Goto(p, "poll", proc[p].ans + 1)
  /\ UNCHANGED <<env, server, minted, disk, faults>>

\* The first point at which ciphertext exists: a fresh K_repo, sealed and
\* journaled before it is sent.
Seal(p) ==
  /\ proc[p].pc = "seal"
  /\ minted' = minted + 1
  /\ Advance(p, [proc[p].j EXCEPT !.stage = "PREPARED", !.key = minted'], "check")
  /\ UNCHANGED <<env, server, faults>>

\* Mutant: any stored object is taken for the one that was sealed.
CheckObjectExists(p) ==
  /\ proc[p].pc = "check"
  /\ IF vaults[proc[p].j.vault].object = 0
     THEN Goto(p, "put", 0) /\ UNCHANGED disk
     ELSE Advance(p, [proc[p].j EXCEPT !.stage = "FINALIZED"], "prepare")
  /\ UNCHANGED <<env, server, minted, faults>>

\* Read-and-compare before the PUT; the object is never re-encrypted.
CheckObject(p) ==
  /\ proc[p].pc = "check"
  /\ LET j == proc[p].j  remote == vaults[j.vault].object IN
     CASE remote = 0     -> Goto(p, "put", 0) /\ UNCHANGED disk
       [] remote = j.key -> Advance(p, [j EXCEPT !.stage = "FINALIZED"], "prepare")
       [] OTHER          -> Refuse(p, "idle")
  /\ UNCHANGED <<env, server, minted, faults>>

\* Create-only: an existing object is accepted only when it is byte-identical.
PutObject(p) ==
  /\ proc[p].pc = "put"
  /\ LET j == proc[p].j  remote == vaults[j.vault].object IN
     IF remote \in {0, j.key}
     THEN vaults' = [vaults EXCEPT ![j.vault].object = j.key] /\ Goto(p, "stored", 0)
     ELSE Ends(p) /\ UNCHANGED vaults
  /\ UNCHANGED <<env, reclaims, minted, disk, faults>>

Stored(p) ==
  /\ proc[p].pc = "stored"
  /\ Advance(p, [proc[p].j EXCEPT !.stage = "FINALIZED"], "prepare")
  /\ UNCHANGED <<env, server, minted, faults>>

\* The genesis carries a timestamp: two builds of it differ.
PrepareGenesis(p) ==
  /\ proc[p].pc = "prepare"
  /\ minted' = minted + 1
  /\ Advance(p, [proc[p].j EXCEPT !.stage = "GENESIS", !.genesis = minted'], "read")
  /\ UNCHANGED <<env, server, faults>>

\* A foreign genesis is a refusal, an equal one is this attempt's own.
ReadGenesis(p) ==
  /\ proc[p].pc = "read"
  /\ LET j == proc[p].j  remote == vaults[j.vault].genesis IN
     CASE remote = 0         -> Goto(p, "admit", 0) /\ UNCHANGED disk
       [] remote = j.genesis -> Goto(p, "save", 0) /\ UNCHANGED disk
       [] OTHER              -> Refuse(p, "idle")
  /\ UNCHANGED <<env, server, minted, faults>>

\* Admission: refused once the allocation is superseded, else the first genesis
\* stays; the answer is the genesis that stands, 0 for a superseded allocation.
AdmitGenesis(p) ==
  /\ proc[p].pc = "admit"
  /\ LET j == proc[p].j  v == vaults[j.vault] IN
     IF ~v.live THEN Goto(p, "admitted", 0) /\ UNCHANGED vaults
     ELSE IF v.genesis # 0 THEN Goto(p, "admitted", v.genesis) /\ UNCHANGED vaults
     ELSE /\ vaults' = [vaults EXCEPT ![j.vault].genesis = j.genesis, ![j.vault].key = j.key]
          /\ Goto(p, "admitted", j.genesis)
  /\ UNCHANGED <<env, reclaims, minted, disk, faults>>

Admitted(p) ==
  /\ proc[p].pc = "admitted"
  /\ IF proc[p].ans = proc[p].j.genesis
     THEN Goto(p, "save", 0) /\ UNCHANGED disk
     ELSE Refuse(p, "idle")
  /\ UNCHANGED <<env, server, minted, faults>>

\* Mutant: the receipt is left out.
SaveRepoOnly(p) ==
  /\ proc[p].pc = "save"
  /\ LET j == proc[p].j IN
     repo' = [repo EXCEPT ![home(p)] = [vault |-> j.vault, key |-> j.key,
                                        genesis |-> j.genesis, pinned |-> FALSE]]
  /\ Goto(p, "activate", 0)
  /\ UNCHANGED <<env, server, minted, journals, recent, receipt, faults>>

\* saveRepo writes a whole new repo file: K_repo, the genesis pin, no head pin.
SaveRepo(p) ==
  /\ proc[p].pc = "save"
  /\ LET j == proc[p].j IN
     repo' = [repo EXCEPT ![home(p)] = [vault |-> j.vault, key |-> j.key,
                                        genesis |-> j.genesis, pinned |-> FALSE]]
  /\ Goto(p, "receipt", 0)
  /\ UNCHANGED <<env, server, minted, journals, recent, receipt, faults>>

SaveReceipt(p) ==
  /\ proc[p].pc = "receipt"
  /\ receipt' = [receipt EXCEPT ![home(p)] = proc[p].j.genesis]
  /\ Goto(p, "activate", 0)
  /\ UNCHANGED <<env, server, minted, journals, recent, repo, faults>>

Activate(p) ==
  /\ proc[p].pc = "activate"
  /\ Persist(p, [proc[p].j EXCEPT !.stage = "ACTIVE"])
  /\ Ends(p)
  /\ UNCHANGED <<env, server, minted, repo, receipt, faults>>

-----------------------------------------------------------------------------
(* The environment.                                                         *)

\* The process dies, or a request fails after or before it took effect: what
\* was in memory is gone, the files stay.
Fail(p) ==
  /\ proc[p].pc # "idle" /\ faults < MaxFaults
  /\ faults' = faults + 1
  /\ Ends(p)
  /\ UNCHANGED <<env, server, minted, disk>>

\* A later push through this keystore records the head it verified.
Push(s) ==
  /\ Found /\ repo[s] # None /\ ~repo[s].pinned
  /\ repo' = [repo EXCEPT ![s].pinned = TRUE]
  /\ UNCHANGED <<env, server, minted, journals, recent, receipt, proc, faults>>

\* The owner reclaims a stalled allocation; refused once a genesis is admitted.
Reclaim ==
  /\ env.mode = "project" /\ reclaims < MaxReclaims
  /\ \E v \in Live : vaults[v].genesis = 0 /\ vaults' = [vaults EXCEPT ![v].live = FALSE]
  /\ reclaims' = reclaims + 1
  /\ UNCHANGED <<env, minted, disk, proc, faults>>

Step(p) ==
  \/ OpenOrCreate(p) \/ PushToCreate(p) \/ Open(p) \/ Allocate(p) \/ Allocated(p) \/ Reconcile(p) \/ Poll(p)
  \/ Seal(p) \/ CheckObject(p) \/ PutObject(p) \/ Stored(p)
  \/ PrepareGenesis(p) \/ ReadGenesis(p) \/ AdmitGenesis(p) \/ Admitted(p)
  \/ SaveRepo(p) \/ SaveReceipt(p) \/ Activate(p)

Next == (\E p \in Procs : Step(p) \/ Fail(p)) \/ (\E s \in Stores : Push(s)) \/ Reclaim

\* A process keeps running what it began, and its user calls again until the
\* vault resolves.
Spec == Init /\ [][Next]_vars /\ \A p \in Procs : WF_vars(Step(p))

-----------------------------------------------------------------------------
(* Properties.                                                              *)

\* Whatever crashed, raced or was reclaimed, a repo file names a genesis the
\* gateway admitted, and its K_repo is the key of that genesis and the one sealed
\* in the stored envelope: a keystore never pushes under a key nobody can recover.
HeldKeyIsCanonical ==
  \A s \in Stores : repo[s] # None =>
    LET v == vaults[repo[s].vault] IN
    /\ v.genesis = repo[s].genesis
    /\ v.key = repo[s].key /\ v.object = repo[s].key
    /\ v.live

\* A journal that says ACTIVE has left a repo file and a recovery receipt of the
\* admitted genesis: nothing is reported as created that the machine does not hold.
ActiveIsHeld ==
  \A s \in Stores : \A n \in 1..Len(journals[s]) :
    LET j == journals[s][n] IN
    j.stage = "ACTIVE" /\ ~j.refused =>
      /\ repo[s] # None /\ repo[s].genesis = vaults[j.vault].genesis
      /\ receipt[s] = vaults[j.vault].genesis

\* One process per keystore, and a gateway that resolves admitted vaults only.
Orderly ==
  /\ \A p, q \in Procs : p # q => home(p) # home(q)
  /\ env.resolves = "genesis"

\* With one process per keystore, whatever dies, is lost or is reclaimed on the way,
\* calling again ends with an admitted genesis: no interrupted attempt wedges the
\* project.
CreationEnds == Orderly => <>(\E v \in Live : vaults[v].genesis # 0)

\* The push that creates its vault goes to the journal only when the vault is known
\* not to exist, so the resume of a journal that was already admitted never erases a
\* head pin recorded since.  (The same holds of openOrCreateVault only as long as no
\* resolution fails.)
PushToCreateKeepsPin ==
  [][Orderly /\ env.mode = "name" =>
       \A s \in Stores : repo[s] # None /\ repo[s].pinned => repo'[s].pinned]_vars
=============================================================================
