# Verification of run402

This directory holds TLA+ models of the client-side protocols of run402, the
TLC runs that check them on small instances and TLAPS proofs of what matters
most for every instance. The server (the gateway at api.run402.com) is not in
this repository; where a client's correctness depends on it, the model contains
what the client code relies on and the map in `PROJECT.json` marks it external.

Contents: [inventory](#inventory), [modules](#modules),
[state and actions](#how-state-and-actions-correspond-to-the-code),
[runs](#runs), [what the checks found](#what-the-checks-found),
[proofs](#proofs), [limits](#limits), [plan](#plan).

## Inventory

run402 is a monorepo: a TypeScript SDK (`sdk/`), local state (`core/`), a CLI
and git remote helper (`cli/`), an MCP server (`src/`), integrations, and a
Rust verifier. Most SDK namespaces are stateless HTTP clients. The components
with protocol state of their own are these.

| Component | State | Operations | Hard behaviour | What makes it correct |
|---|---|---|---|---|
| vault keystore (`sdk/src/node/vault-keystore.ts`) | per-repo JSON file with pins and epoch keys; a lock directory with `owner.json` | `withRepoLock`, `updateRepo`, stale-lock reclaim | several processes, crashes with the lock held, age and liveness read before the removal | mutual exclusion; a returned update is never lost; no call hangs |
| vault writer set (`vault-writer-state.ts`) | version, writers, retired, burned keys, consumed handoffs | add, self-activation, removal, replay | replays from different starting points must agree | order of admission decides, a resumed replay equals a full one |
| vault head chain and epochs (`vault-publication.ts`) | head pin, verified prefix, materialized pin, writer-set pin, epoch keys in the keystore; the chain on the gateway | verify, sync, push, rotate, add writer, activate | separate keystore writes, pages, budgets, lost races, lost answers, members removed, a gateway that loses heads | pins agree with each other and never move back; no false alarm; members can decrypt; heads are signed in the current epoch |
| refs, retention roots, packs (same file) | ref map and retention roots of a generation, packs, each writer's git store | push transaction, checkpoint, repair, fetch | forced and atomic updates over a lost race, missing objects, expiry of roots, repair over heads of other writers | no clobbered update; every generation restorable; dropped tips kept for their lane |
| vault creation (`vault-creation-journal.ts`, `vault-open-or-create.ts`, `vault-push-to-create.ts`) | a journal file per attempt with six stages; repo file and recovery receipt | resolve, allocate, seal, put, prepare, admit, save, resume, poll for the winner | crash or lost answer at any stage, concurrent creators, an allocation reclaimed meanwhile, a resolution that fails | the held key is the admitted one; no attempt wedges the project; a resume erases nothing |
| vault deploys (`vault-deploy.ts`, `vault-snapshot.ts`, `vault-apply.ts`) | override journals; the work tree; what was captured | capture, plan and push side by side, activate, override, drain | the tree changes while it is read three times; crashes around the activation; overlapping drains | what is live is in the vault or journaled; outcomes are true; a completed override was cleared |
| restore, recovery, prune (`vault-restore.ts`, `vault-recover.ts`, `vault-prune.ts`) | a clone and a stash to apply; a keystore rebuilt from a mirror; a signed prune intent | clone and apply, recover, plan and attest a prune | checks on what a store returns; who may delete is decided by the gateway | nothing unverified is installed; a prune plan spares every root |
| payment attempts, x402 rail (`paid-fetch.ts`, `payment-attempts.ts`) | one journal file per attempt; proofs in memory | paid fetch, retry, reconcile | lost answers, concurrent identical calls, crashes, failed journal writes | one payment per attempt id; the journal never denies a payment; an ambiguous retry presents the same proof |
| Lightning and MPP rails | the same journal; held credentials | paid fetch | the same, plus lookups of unknown outcomes | the same |
| local stores (`core/src/keystore.ts`, `profile-state.ts`, `write-approvals.ts`) | JSON files: project keys, active projects, approvals; two lock directories | read, merge, write; import of a legacy file | lost updates, a lock left behind, an import without the lock | updates survive; a wallet reads back its own choice; calls end |
| SDK kernel (`kernel.ts`, `retry.ts`, `wait.ts`) | none across calls | request, retry, poll | retry of what may have been done | only safe requests are repeated |
| deploy engine (`namespaces/deploy.ts`) | plan, upload session, operation id, attempt count of a call | plan, upload, rehearse, commit, poll, replan, resume, promote | lost answers under a retry policy per request, deploys that race, an operation that stalls | one release per call; the report is true; what is activated was rehearsed and uploaded |
| everything else | none, or on the server | HTTP calls, printing, build steps | | |

How they interact: every vault operation reads its pins from the keystore file
through `updateRepo`, asks the gateway for heads, verifies them with the
writer-set functions, and publishes a head that carries refs and retention
roots. Several processes of one principal share a keystore; principals share
only the gateway. A creation leaves the repo file the chain starts from; a
vault deploy pushes through the refs and activates through the deploy engine. The three payment rails share the journal directory and
nothing else; the kernel calls a rail for a request that answers 402.

## Modules

| Module | Models | Uses |
|---|---|---|
| `VaultRepoLock` | `withRepoLock`, `reclaimStaleLock`, `safeRemoveLock`, `updateRepo`, one step per system call | |
| `VaultRepoLockProofs` | type correctness, exclusion and survival of updates, for any number of processes | `VaultRepoLock` |
| `VaultWriterSet` | the pure functions of the writer chain state | |
| `VaultChain` | `verifyToNewest` and the operations over it, with every keystore write a step | `VaultWriterSet` |
| `VaultChainProofs` | types, no false alarm, lockstep of the pins, openable rotations, the head pin, epochs that are not refused and members that can read, for any writers and workloads | `VaultChain` |
| `VaultRefs` | refs, retention roots, packs, checkpoints and repair over a log of generations | |
| `VaultRefsProofs` | restorability, retention (also over repairs, of a sole writer) and no clobbering, for any workload | `VaultRefs` |
| `VaultCreation` | the creation journal and its two drivers | |
| `VaultCreationProofs` | a held key is the admitted one, ACTIVE is held and the head pin is kept, for any processes and keystores | `VaultCreation` |
| `VaultDeploy` | capture, the two lanes of a vault deploy, override journals and drains | |
| `VaultDeployProofs` | live operations accounted for, true outcomes, cleared journals, the races that escape, for any deploys and drains | `VaultDeploy` |
| `DeployApply` | `apply()`: attempts, requests with their retry policies, the gateway's operations | |
| `DeployApplyProofs` | one release per call, true reports, rehearsal and content before activation, conflicts with a cause, for any calls | `DeployApply` |
| `LocalStores` | the JSON files all processes of a machine share | |
| `LocalStoresProofs` | which updates survive, for any processes and wallets | `LocalStores` |
| `AttemptLedger` | abstract: what a reader of the payment journal may rely on | |
| `X402Pay` | buyer and tracker of the x402 rail, journal included; refines `AttemptLedger` | `AttemptLedger` |
| `X402PayProofs` | types, one payment per attempt id and over retries, honesty of journal and verdicts, the refinement of `AttemptLedger` | `X402Pay` |
| `MCVaultRepoLock`, `MCVaultChain`, `MCVaultRefs`, `MCVaultCreation`, `MCVaultDeploy`, `MCDeployApply`, `MCLocalStores`, `MCX402Pay` | instances for TLC | |

`VaultChain` and `VaultRefs` describe the same gateway log from two sides. A
head carries both a writer transition and a ref map, but no rule of the client
makes one depend on the other except the order of generations, so each module
keeps one of them and the state space stays within reach. `VaultRepoLock`
justifies that a single `updateRepo` is one step in `VaultChain`. `VaultDeploy`
takes from `VaultRefs` that a push moves a ref only from the value its lease
names, and from `DeployApply` that a commit activates its plan at most once.

Several modules leave the choice of a workload to `Init`: who acts, how often,
with what faults. A run then covers several instances that would be out of
reach if they were combined into one, and a theorem covers every workload.

## How state and actions correspond to the code

**VaultRepoLock.** `lock` is the lock directory with its `owner.json` and age,
`file` the set of patches in the repo file, `pc`, `seen`, `copy` and `tries`
the locals of a call. `Mkdir` and `WriteOwner` are 881-889 of
`vault-keystore.ts`; `Stat`, `ReadOwner`, `Decide`, `ReclaimUnlink` and
`ReclaimRmdir` the reclaim, a system call each; `Wait` the deadline. `Age`
lets the ten minutes of `staleAfterMs` pass, `Crash` kills a process. `robbed`
and `done` are history.

**VaultWriterSet.** A writer state is version, writers, retired, burned keys
and consumed handoffs. Versions stand for the hash commitments, which the code
computes over the same fields. A principal is named by its signing key.

**VaultChain.** `chain` is what the gateway admitted; `files` the repo file of
each keystore: head pin, verified prefix, materialized pin, writer-set pin
(with the flag of the pins that lack `retired_writers`), epoch pointer and
keys. An operation goes `Begin`, `Open` (read the file, choose where to resume,
try the state fast path), `List`, `Walk` (one head), `Page` (the writes that
end a page), `CatchUp` (decrypting what was only verified), `Done`, then for
publishers `Publish`, `Admit`, `Readback`, `Admitted`. A head may carry a
pin-manifest update (`confirms`): of `publishPinManifestUpdate` ("confirm"), or
folded into a rotation; `ConfirmedAt` is the manifest in effect after a
generation, `Manifest` its version, which a confirmation receipt names
(`receipt`). `Included` is the bucket of that name of `rotateEpoch`: keyed members
that were confirmed before the rotation or are writers that survive it. All others are left
out of its envelopes; an elective rotation ("rekey") refuses to leave anybody out,
and a confirmed key that its principal has replaced since (`StaleAt`) blocks any
rotation. Labels such as `page1`
to `page3` cut an action at each `updateRepo`, where a crash or another process
of the keystore comes between. Signatures and encryption are assumed to work. `plan` is the workload: the
operations each process may make, page size, budget, retries, crashes, lost
answers, removals, generations the gateway may lose, whom the genesis manifest
confirms (`pinned`, `stale`) and for whom a confirmation can be had (`pending`). `faults` is history: what
happened so far, and the keystores whose process died between two pins (`torn`) or
before the key of a rotation it had pinned (`unkeyed`), and those that pinned the
writers of a publication and so walk from genesis next (`rebuilt`).

**VaultRefs.** `chain` holds refs, roots and pack contents of a generation,
`have` the objects of each writer's store, `my` a publication under way.
Commits are model values with a history; blobs and trees go with their commit.
`Evaluated`, `Evolve`, `WalPack`, `CheckpointPack` and `Superseded` are the
functions of the same purpose in the code. `plan` is the workload.

**X402Pay.** `journal` is the directory of attempt files (`None`: no file,
`Torn`: created by `open(wx)` and not yet filled), `proofs` and `creating` the
two maps of `createX402BuyerFetch`, `my` the call context and the tracker's
context, `dispatched`, `settledBy` and `refused` what the seller has received
and done. All calls make the identical request, so one fingerprint is enough:
calls with another fingerprint share nothing with them but the journal
directory, where they have other ids. `Alone` is JavaScript's rule that a turn
is not interrupted: between `Begin` and the `fetch` of `Send` there is no
`await` when a proof is cached, and the model cuts the turn only where another
process can see the file system. `owed` is history: the proofs an instance last
reported as unknown; `faults` counts down the faults to come and notes which
instances died or ran calls at the same time.

| Step | Code (`paid-fetch.ts`, `payment-attempts.ts`) |
|---|---|
| `Inspect`, `Claim`, `Fill` | a supplied id is read, reserved with `open(wx)`, written |
| `Lookup` | the cached proof, or the unpaid request |
| `Discover`, `Mint`, `MintDone` | the 402, the policy checks, one `createProof` for all that wait |
| `Submit`, `Send` | `submitting` is written, then the request leaves |
| `Settle` | seller and facilitator, at any time from then on, once per proof |
| `Receive`, `Conclude` | `response_received`, classification, final record, what the caller is told |

**VaultCreation.** `vaults` is what the gateway allocated, stored and admitted;
`journals`, `recent`, `repo` and `receipt` are the files of each keystore;
`proc` is what a process holds in memory: where it is, the journal it drives
and the answer it is looking at. `OpenOrCreate` and `PushToCreate` are the two
drivers, `Open` the search for a resumable journal with `VaultCreation.open`.
Each stage of `run()` is one to three actions, cut at every `await` and every
durable write (`Persist`). Random keys and timestamped genesis bytes are
numbers drawn from `minted`, so that two of them differ. `Fail` is a process
that dies or an answer that is lost; what was in memory is gone.

**VaultDeploy.** `tree` and `head` are the work tree and the tree of HEAD,
changed by `Edit` and `GitCommit` at any moment; `at` and `my` are a deploy and
its locals: what it captured, the commit that stands for it, what the artifacts
were collected from. `Inspect`, `Check` and `Capture` are the three reads of
`captureSnapshot`. `Plan`, `Materialize` and `Push` interleave as the two lanes
do; `Decide` is section 5 of `runVaultDeploy`. `journal` holds the override
journals, `drain` the locals of each drain, which reads all journals first.
`slipped`, `since` and `changes` are history: how often the tree changed when.

**DeployApply.** `plans` is the gateway's plan of each attempt with its
operation; `proc` is where a call is, how often it sent the request it is at,
and which attempt it is in. A request that is repeated after a lost answer uses
`Lost`, one that is sent once `LostOnce`; a failure of the operation ends the
attempt in `Fails`, which replans if `SafeToRetry`. A lost answer is either a
request that never arrived or one that took effect. `spec` holds what a call was
given, its options on rehearsal included (`rehearse`: nothing, `noRehearse`, a
reviewed plan, a CI session). A plan lists as `fresh` the migrations the project's
registry (`Applied`) lacks, its operation adds to `ran` those it ran. `Envelope` is the gateway's
offer of a rehearsal, `Skips` the four ways of `rehearseBeforeCommit` to commit
without one (`deploy.ts:838-858`). A rehearsal operation may end with a report or
with an error of its own, which may be one that is safe to retry.

**LocalStores.** `keys`, `state` and `approvals` are the three files, `lock` the
two lock directories. A call goes `Lock` (or `Wait`), `Read`, a write, `Unlock`;
`removeProject` goes on to clear the active project, the import to set it and
to leave its marker. `Crash` leaves the lock directory. `saved`, `raced`,
`used`, `granted` and `overlapped` are history.

## Runs

Every run checks deadlock off: the programs may stop after their last
operation, and the bounds on operations make every behaviour finite.

| Run | Instance | Shows |
|---|---|---|
| `lock_calls` | 2 processes, 2 updates each, 1 poll, 1 crash, 1 lock that grows old | exclusion and updates are lost only after a live holder's lock was removed; every call ends |
| `lock_reacquire` | the same without crash and age | violation |
| `chain_plans` | one-head pages, budget 3, 1 retry and 1 removal where nothing else is said. `Two`: 2 principals, 3 operations between them out of four kinds; `Faulty`: they push and rotate, 1 crash, 1 lost answer, 1 generation lost by the gateway; `Retiring`: 3 principals, one admits itself and rotates, the creator removes it, the third only verifies; `Dying`: one admits itself and pushes while the process of the creator syncs twice and dies once at any step; `Orphaning`: the creator rotates, syncs and dies once at any step, while another admits itself; `Losing`: the creator admits somebody and the gateway loses a head; `Confirming` (four workloads): the other principal starts unconfirmed or pinned under a key it has replaced, the creator publishes its pin alone or in a rotation, elective or not, and it reads, or both publish pins at once and the other admits itself and rotates | lockstep of the pins and no false alarm (unless a process died between the two pins), no stale epoch, members that every rotation found confirmed or a writer, and that read what they verify, can read, and can open a rotation of a writer removed since, no keystore follows a gateway back, every operation ends |
| `chain_verify` | 2 principals, verify among the operations | violation |
| `refs_plans` | `Together`: 2 writers, a branch and a tag, two updates in a push, 3 generations, 1 repair; `Alone`: 1 writer, 3 commits, 5 generations, 3 days, 1 repair | no clobbering over lost races, every generation restorable, what pushes drop is retained, a tip dropped twice starts a new lane |
| `refs_repair` | 2 writers, one branch, 4 generations, 1 repair | violation |
| `pay_calls` | `Shared`: 2 processes, 3 calls, two of them with one attempt id, 1 failed write, 1 crash; `Repeated`: 1 process, 3 calls | one payment per id; the journal is honest and implements `AttemptLedger`; calls made in turn present one proof and leave one unreported payment at most |
| `pay_replacement` | 1 instance, 2 calls at once of 3 | violation |
| `creation_calls` | 2 processes on one keystore or on two, either address, 2 journals a keystore, 2 faults, 1 reclaim | a held key is the admitted one; ACTIVE leaves nothing missing; calling again ends in a vault; a resume erases no head pin |
| `stores_processes` | 2 processes of 2 wallets, 2 projects, one of them in the legacy file, 2 approvals, 3 calls, 1 crash | which updates survive; a wallet reads back its choice; calls end |
| `deploy_applies` | 2 calls with nine pairs of requests (content shared, migrations shared or not, a release named by the spec, a call with `noRehearse`, with a reviewed plan, of a CI session), 3 attempts (the code's default of 2 retries), 2 sends a request, 2 faults, 1 promotion | one release per call; true reports; migrations over a live release are rehearsed unless the call says otherwise; complete content; conflicts are others' doing; calls end |
| `vault_deploys` | `Racing`: 2 deploys and a drain, 1 fault; `Moving`: 1 deploy, 2 edits, 1 fault, 1 crash; `Draining`: 2 drains, 2 faults, 1 crash | activations are accounted for; outcomes are true; only two races escape the recheck; drains complete what they clear |

Why the bounds are enough to meet the interesting cases: a lock theft needs a
second acquisition by the same process or an old holder (two updates each, or
an aged lock); a wrong resumption
in `VaultChain` needs a pin in the middle of a page list, hence pages of one
head and a budget below the length of the chain; a lost race needs a retry and
a winner; a retention lane needs a drop, its expiry and a second drop; a
replaced proof needs three calls, two that overlap and one that retries, and a
double payment under one id two processes; a key nobody can recover needs a
death between a PUT and its journal entry and one more try; a wedged project a
reclaimed allocation and a second journal; a double activation an attempt that
fails while its operation runs, hence two attempts; a rotation that
leaves out a confirmed member a confirmation before it and a reader after it; a missing rehearsal a second
attempt over a release that has gone live; artifacts of another tree
than the captured one two changes of the tree; a journal that says completed
too early a drain that overlaps another, or a commit that never happened. The
instances are also large enough for each property to fail under a small change
of the code: the mutants listed in `PROJECT.json` put a plausible bug into one
definition (a dropped guard, a missing reset, a write left out) and every
property has one that breaks it. They are defined next to what they mutate.

Symmetry is used for the writers of `VaultRefs`, in runs with safety
properties only. `TypeOK` of a module without it in its run was checked with the
same instance; for `LocalStores`, `DeployApply` and `VaultDeploy` it is also a theorem.

Fairness is assumed where the code's scheduling gives it. In `VaultRepoLock`,
`LocalStores` and `DeployApply` a process that runs takes its next step: the
first two are synchronous code with bounded waits, the third awaits requests
that answer or error and timers that fire. In `VaultChain` each step of an
operation that began is taken, for the same reason. None of these assumes that
a call begins, that a member acts, that a crash happens, that a lock grows old,
or that an operation of the gateway gets anywhere. `VaultCreation` assumes more,
that the user calls again until the vault resolves, because `CreationEnds` is a
promise about calling again ("never a new one - drives to ACTIVE",
`vault-open-or-create.ts:57`). `VaultDeploy` assumes fairness of the drains
alone: one that began goes on, and one is begun while a journal is left; no
deploy need run on. `X402Pay` and `VaultRefs` state no liveness property: a paid
fetch may wait for its seller for ever, and `VaultChain` has the rest.

## What the checks found

Four runs end in a violation; each checks one statement that a comment or a
document of the repository makes, and `PROJECT.json` quotes the line.

- `lock_reacquire`: `reclaimStaleLock` counts a lock it cannot `stat` as
  infinitely old. A waiter that looked between a release and the next `mkdir`
  removes the lock a live process has just taken.
- `chain_verify` (`NoSilentGap`): a verify walks over a rotation without
  decrypting; the next sync meets a later head first, cannot decrypt it inline and
  does not try the catch-up that would have opened the rotation.
- `refs_repair`: `repair` passes over superseded heads signed by another writer
  than the repaired one, and their tips get no retention root.
- `pay_replacement`: the proof cache is read before the 402 arrives and
  overwritten or cleared after it, whoever put the proof there; after
  overlapping calls an ambiguous call's retry signs a second proof.

The models show more of the kind when an instance is widened; these are not
kept as runs. Each can be reproduced with the change given.

- `Lockstep`, `NoFalseAlarm` and `MembersCanRead` without their condition on torn
  keystores (`Dying`): the generation pin and `writer_set_pin` are written in two `updateRepo` calls
  (`vault-publication.ts:3939-3940`, `4009-4010`; after an admission `5199` and
  `5855` or `6064`). A process that dies between them leaves a writer set older
  than the generation, no later walk replays the transition in between, and
  every later call of that keystore refuses the next head of the writer it
  missed with `VAULT_WRITER_NOT_ADMITTED`.
- `NoEpochRefusal` with both processes on one keystore (`StoreOf` constant) and
  syncs, pushes and rotations: the slower process sets the epoch pointer back
  (`vault-keystore.ts:838`) and its next push is refused for its epoch.
- `HeadPinNeverMovesBack` without its exception: the writer-set pin written by a
  publication lacks the retired writers, so the next walk starts at genesis
  (`vault-publication.ts:3594`) and the rollback check is not made. If the gateway
  lost a head (`Losing`), or an earlier death between two pins lets that walk end
  in a refusal (the creator with `push`, `add` and `sync`, five operations, three
  writers), the closing writes set `head_pin` back.
- `MembersCanRead` without the condition on `unkeyed` (`Orphaning`): a rotation
  pins its head when it is admitted (`vault-publication.ts:5829`) and stores its
  epoch key afterwards (`5843`). A process that dies between the two resumes past
  its own rotation without the key, and the next head of another writer stops it
  as in `chain_verify`. (From reading: a rotator without an encryption key has lost
  its only copy; no keyless writer rotates in the model.)
- `NoEpochRefusal` without that condition (the creator with `add`, `rotate` and
  `push`, four operations, a crash; another principal that rotates and is
  removed): after such a death a later rotation is opened first; the removal makes
  the next walk start at genesis, it opens the skipped rotation last, and
  `recordEpochRotation` sets the epoch pointer back to it
  (`vault-keystore.ts:838`). The next push is refused for its epoch.
- `JournalHonest` with `GatewayUnsure = TRUE`: an error envelope of a gateway
  that does not know whether funds moved is journalled as `not_started`
  (`paid-fetch.ts:1418`).
- `PushedTipsRetained` without its condition that nothing was repaired, at four
  generations: what `refs_repair` shows also drops tips that a push had put
  under a root.
- `PushToCreateKeepsPin` for `env.mode = "project"`: `openOrCreateVault` falls
  through on any error of the resolution (`vault-open-or-create.ts:65-68`); the
  resume of a journal that was admitted but not yet ACTIVE writes the repo file
  anew with `head_pin: null` (`vault-creation-journal.ts:799-809`).
- `CreationEnds` with two processes on one keystore and a crash: one resumes the
  other's journal with a key of its own, and which object and which genesis stand
  may then belong to different ones. With a gateway that resolves a vault as soon
  as it holds an object (`Resolutions`), an interrupted creation is never
  resumed.
- A crash between the admission of a genesis and the save of the repo file: the
  next call finds the vault, reports `found: true`, and the keystore never gets
  its repo file (`vault-open-or-create.ts:64`).
- `OnlyOverlapLosesApprovals` without its condition: `saveApproval` promises to
  leave every other entry intact (`write-approvals.ts:171-175`), and two saves
  at once lose one.
- `OnlyImportLosesKeys` without its condition: the import tests for the file and
  writes it without the lock (`keystore.ts:127`).
- `OnlyRacesEscape` without its two exceptions: a clean tree is hashed after the
  dirty check, so a change between the two reads leaves artifacts that are not
  HEAD's (`vault-snapshot.ts:777-836`), and a change that is undone before the
  recheck is not seen (`vault-deploy.ts:323-350`).
- `ReportIsTrue` for `"unread"`: the first read of an operation is sent once
  (`deploy.ts:2696`), the later ones are repeated on a 502 to 504
  (`deploy.ts:2878`), so a lost first answer abandons a deploy that runs.
- `DrainCompletes` without its exception: a journal recorded as published
  without a receipt is listed for ever and never completes
  (`vault-deploy.ts:516-519`). No command of the CLI or the MCP server calls the
  drain, although an outcome tells its reader to run any command later
  (`vault-deploy.ts:438`).
- A drain that publishes an old override moves `refs/run402/deploys/latest` back
  to its snapshot, and one that overlaps an unauthorized override writes back
  the journal the deploy removed (`vault-deploy.ts:433`, `517`).

The passing runs leave these cases out and nothing else: the properties carry
the conditions named above, `OnlyTheft...` of `lock_calls` says what holds in
spite of theft, the plans of `chain_plans` give each process a keystore of its
own, and `GatewayUnsure` is `FALSE` in `pay_calls`.

## Proofs

Every safety invariant and action property of the passing runs is also a theorem
for every value of the constants; what is temporal stays with TLC (below).

`VaultRepoLockProofs` proves `TypeCorrect`, `Exclusion`
(`OnlyTheftBreaksExclusion`) and `UpdatesSurvive` (`OnlyTheftLosesUpdates`) for
any set of processes and any bounds. Neither property is inductive: a returned
update could vanish when a process writes back a copy it read earlier. The
invariant `LockInv` adds what prevents it: as long as nobody was robbed, at most
one process is between its `mkdir` and its last `rmdir`, the directory exists
while it is, and between its read and its write its copy is the file as it
still is. The proof has a case per action; the reclaim's `rmdir` is where
`robbed` becomes non-empty if a live holder is hit.

`X402PayProofs` proves six theorems about `X402Pay` for any calls, instances
and bounds: `TypeCorrect`, `PaysOnce` (`AttemptPaysOnce`), `PaysOncePerRetry`
(`RetriesPayOnce`), `Honest` (`JournalHonest`), `SafeIsUnpaid` (`SafeMeansUnpaid`)
and `ImplementsLedger` (`LedgerSpec`); the last three assume `~GatewayUnsure`,
without which `JournalHonest` does not hold. They rest on one inductive invariant, `IInv`, in five parts: `Types`; `Places`, what
a call has done given where it is; `Owners`, the journal file of an id belongs
to one call, because only `open(wx)` on a missing file starts an ownership and
no step removes a file; `Bound`, the seller keeps its word (a settled proof was
sent, a refused one never settles, a call answered by a gateway envelope did
not settle its proof); `Told`, a call that dispatched a proof and was not
cleared by such a word has an entry that admits it. `Owners` carries the step
from one call to all: since no other call writes the file, the entry of a call
that is waiting stays what it wrote. The assumptions on the constants are
`PayAssumption`: attempt ids supplied by callers are not generated ids, which
are 128 random bits, and `None` is no call and no record.

`ImplementsLedger` adds `Held`, what the file of a call says where the call is:
reserved while nothing was sent, `submitting` from the write before the dispatch
to the answer. Each write is then one step of `AttemptLedger` or none (`Steps`,
`StepMaps`), crashes and lost answers are stutters, a settlement is `MoveFunds`
(`Told` says the entry admits it), and a verdict "unpaid" is allowed because the
seller's word binds the one call that may have paid under the id (`Owners`).

`PaysOncePerRetry` adds `OneByOne`, which is about an instance that runs its calls
one at a time and has not died: the cache holds the one proof whose fate is open,
what the instance owes is that proof or nothing, and any other proof it sent was
reported or is known not to have moved funds. The unreported payments of such an
instance are then at most the cached one, which is what the cardinality says.

TLC evaluates `IInv`'s parts as invariants of the payment instances without a
violation, and checks the properties themselves in the runs.

`VaultChainProofs` proves `TypeCorrect` (`TypeOK`), and for keystores with one
process each (`OneEach`) `NoFalseAlarmHolds` (`NoFalseAlarm`), `LockstepHolds`
(`Lockstep`), `RotationsHold` (`RotationsStayOpenable`), `HeadPinHolds`
(`HeadPinNeverMovesBack`), `NoEpochRefusalHolds` (`NoEpochRefusal`) and
`MembersRead` (`MembersCanRead`), for any keystores, workloads, pages, budgets, lost
answers, removals and deaths; `ChainAssumption` says of what kind the plans are and
`AbsentAssumption` that `None` is no pin. The invariant has three parts. `Types`, with the bounds of a walk. `Sound`, which is
about the chain alone: each head was admissible over the state before it
(`Chained`), and every signer stays among the writers or the retired ones
(`Remembered`); it holds after lost heads too. `Follows`, as long as no head
was lost: a walk stands on the chain with the writer set of its generation, but
for burned and consumed entries, which a resumed state may have forgotten
(`Placed`); a file whose process is not between its two pins has the writer set
of the generation it resumes from (`Pinned`), also when that set came from
the process's own publication, because the admitted transition named the base it
was computed from (`OwnState`). `Accepted` is the heart: a reader who knows
fewer burned keys and used grants than the fence did refuses nothing the fence
passed. A death between the two pins puts the keystore into `torn` and out of the
statements; nothing else does.

`HeadPinHolds` is about lost heads as well, where `Follows` says nothing. `Headed`
has a case for either way a walk starts: a keystore that never pinned the writers
of a publication starts where its head pin is or later, and keeps at or above it
(`Steady`); one that starts over from genesis has listed at least as many
generations as its pin before it closes without an error, as long as the
keystore is not torn and no head was lost (`Regains`). A call that ran out of budget
never reaches the closing writes.

`NoEpochRefusalHolds`, `MembersRead` and the sealed part of `RotationsHold` rest on
`Keyed`, as long as no head was lost. They are about principals that every rotation
found confirmed before it or among the writers (`Entitled`): a keyed member is owed
no envelope of a rotation that came before its confirmation. Along the chain epochs
only rise (`Rising`), each rotation is sealed to every member of today that it found
so (`Sealed`), although the members were read before it was admitted and the
manifest before that, and of those that an earlier rotation found so it is sealed to none
that the earlier one left out, because members only leave (`Nested`). A careful keystore holds the key of every epoch up to its pointer, and its pins
are in none that is later unless it was excluded by then (`Stored`); a walk carries
that on, opening each rotation it steps over or catches up on, whose signer
`RotationsHold`'s argument shows to be known (`Opening`); what is signed names the
epoch of its base (`Near`).

`VaultRefsProofs` proves `GenerationsRestore` (`Restorable`), `TipsAreRetained`
(`PushedTipsRetained`) and `PushesDoNotClobber` (`NoClobber`) for any commits
with any history, any refs, writers and workloads; `RefsAssumption` asks that a
commit is in its own history and that histories are transitive. A fourth is about
a sole writer. None of them is inductive. The invariant `IInv` has three parts. `Shape`: types; days do
not go back along the chain (`Days`); a root is dated by a drop that was admitted
(`Dated`); a publication under way was begun over a generation that exists, at a
day that has come, and names objects its store has (`Sound`). `Packed`: a
generation's pack with what is stored below it holds the history of every covered
tip; the hard case is a push from a store that lacks covered objects, which
leaves them out on both sides of the difference, so what it omits is covered by
the base and stored by induction. `Kept`: as long as nothing was repaired, a tip
dropped at a generation has in every later one, until its lane ends, a root that
is dated no earlier than the drop. It says so of roots rather than of what is
reachable, because that is what one step hands to the next.

`SoleWriterRetains` (`SoleWriterKeepsTips`) allows for repairs, as long as one
principal signed every head. `Kept` fails there: a repair over superseded heads
gives a root only to tips that its base does not reach, so a dropped tip may be
covered by the root of another. `Covered` is weaker and still inductive: each tip
of each generation, dropped or not, is in every later one within its days
reachable from a ref or from a root dated after that generation. A push and a
checkpoint carry it by the roots they add and keep, a repair because the writer can
open every head it supersedes.

`VaultCreationProofs` proves `KeyIsCanonical` (`HeldKeyIsCanonical`) and
`ActiveHolds` (`ActiveIsHeld`) for any processes, keystore layouts, gateways and
bounds, several processes on one keystore included; `BoundsAssumption` asks that
`None` is neither a number nor a repo file. A process copies a journal when it
resumes and goes on from that copy, while another process may write the same
file; so the invariant says of every copy, on disk or in memory, what has been
done on the gateway (`Done`, by its stage), what a process knows where it is
(`Placed`), what the files of a keystore stand for (`Held`), and of the gateway
(`Allocations`) that one allocation is live and a genesis is admitted over the
key of the stored object. What makes it inductive is that an object and a genesis
never change once they are there (`Grown`), so a copy stays true however old it
is, and that one genesis stands per project (`OneGenesis`), so a repo file and a
receipt written by different processes agree.

`PinIsKept` (`PushToCreateKeepsPin`) adds `Quiet`: where a keystore has one process
and the gateway resolves admitted vaults only (`Orderly`), a process whose keystore
has a repo file is idle or past the save, since the genesis that file names
resolves and `pushToCreateVault` ends before it looks for a journal. Only the save
writes the repo file anew.

`VaultDeployProofs` proves `TypeCorrect` (`TypeOK`), `LiveIsAccounted`
(`ActivatedIsAccounted`), `OutcomesAreTrue` (`OutcomeTrue`), `TwoRacesEscape`
(`OnlyRacesEscape`) and `CompletedWasCleared` (`CompletedIsCleared`) for any
deploys, drains, trees and workloads, under `DeployAssumption`. The invariant has
three parts per deploy: `Flow`, what its operation, its journal and the vault are
given where it is (an override journal exists before the commit it accounts for);
`Told`, what its journal and its outcome say of the operation and the vault;
`Seen`, how many changes of the tree lie between its reads. A fourth is per drain:
`Draining`, that each journal it listed is of a deploy whose snapshot no longer
changes, and that from the admitted push on that snapshot is in the vault. Drains
work on copies that may be old; what keeps these true is that heads are only
appended (`Grown`) and that the commit of a journaled deploy is fixed (`Relied`).

`DeployApplyProofs` proves `TypeCorrect` (`TypeOK`), `AppliesOnce`
(`AppliedOnce`), `ReportsAreTrue` (`ReportIsTrue`), `MigrationsRehearsed`
(`RehearsedOrFirst`) and `ContentComesFirst` (`ContentBeforeCommit`) for any
calls, specs and any number of attempts, sends and faults (`ApplyAssumption`: the
counts are numbers, a request is sent at least once, `None` is no attempt). The
invariant has a part per promise. `Ordered`: attempts come one after another, an
earlier one is over without an activation when the next begins, and each report
fixes what the operation of the last one may still be; that is what the failure
classes of `SafeToRetry` are for. `Rehearsed`: a plan over a live release offers a
rehearsal of its migrations (`Offered`), and what is committed has passed it, or
nothing was offered, or the call or the plan's empty list of new migrations
says to skip it (`Cleared`).
`Stocked`: while an upload goes on, each file of the spec is in the store, wanted
or staged.

`ConflictsHaveCauses` (`ConflictsAreOthers`) is a count. `Counts`: the conflicts of a
call that follows the current release are no more than its rivals, the other calls
that activated plus the promotions, and one less while the plan it goes on with is
already stale. A win or a promotion makes plans stale and adds a rival at once; a
conflict uses that one up; a new plan is over what is live. `AbsentAssumption`
says that `None` is no error. `MigrationsRehearsed` needs one more invariant,
`Registry`, because `Skips` relies on a list made when the plan was: the registry only grows, so an
operation runs at most what its plan listed as new, and nothing if it listed nothing.

`LocalStoresProofs` proves `TypeCorrect` (`TypeOK`), `KeysSurvive`
(`OnlyImportLosesKeys`), `ChoiceReadBack` (`ReadsOwnChoice`) and
`ApprovalsSurvive` (`OnlyOverlapLosesApprovals`) for any processes, wallets,
projects and calls (`StoresAssumption`: the kinds of call, and `None` is no
project and no set of projects). The invariant adds that a lock directory has one
live holder at most and exists while it has one (`Locked`, also after crashes,
since nothing removes the directory of a dead process), and that between its read
and its write the copy of a holder misses nothing that was saved (`KeysKept`,
`ChoiceKept`); for the approvals, which have no lock, that saves which do not
overlap are one at a time.

Left to TLC: everything temporal (`EveryCallEnds` of two modules, `EveryOpEnds`,
`CreationEnds`, `EveryApplyEnds`, `DrainCompletes`), which needs fairness and
`ENABLED`. The invariants named last in each
paragraph (`Headed`, `Keyed`, `OneByOne`, `Counts`, `Registry`, `Quiet`, `Covered`) also hold
when TLC evaluates them on the instances of the runs.

## Limits

- A proof in `X402Pay` settles at most once and a rejection the code takes as
  proof of non-settlement is final: that is what the x402 nonce and the
  facilitator promise, not something this repository decides.
- The gateway of `VaultChain` and `VaultRefs` fences generations and checks the
  epoch rules as the client code and its tests describe them.
- Cryptography, canonical encodings and file formats work as intended.
- `fsync` and power loss are not modelled: a write that returned is durable.
- Offers, price ceilings and receipt verification are one nondeterministic
  outcome each. A 2xx whose receipt says that settlement failed counts with
  those without a receipt.
- In `VaultChain`, envelope top-ups of an existing epoch and the `read_only`
  terminal state are left out, and no keyless writer rotates; so are the cache of
  the last published manifest, which saves a round trip, the refusal of a key that
  does not decode, and the gateway's own check of the buckets, which may refuse a
  rotation whose members changed meanwhile. Encryption keys do not change during a run: one that
  was replaced is so from the start. A member that a rotation left out for want of a
  confirmation gets older epochs only by a top-up, so no property promises
  it anything (`Entitled`). In `VaultRefs`, the chunking of packs is left out.
- In `VaultCreation`, a creation starts with no vault of the project but those
  the run creates; the storage profile pinned at open is not modelled.
- In `VaultDeploy`, the files of a tree are one value that is read at once, and
  a push loses its races against other deploys only.
- `RehearsedOrFirst` does not speak of calls with `noRehearse` or a reviewed plan nor
  of CI sessions: the code commits their migrations over a live release with no
  rehearsal by the call (`deploy.ts:838-848`), as the model does. It is about the
  release a plan was made over: a plan made over nothing gets no rehearsal, and if
  a release goes live meanwhile, whether the gateway runs its migrations before it
  compares the base is the gateway's choice. A retry of a reviewed plan is modelled as a new
  plan. The envelope and the registry are the gateway's; the model has the
  older form, which also offers a rehearsal of unchanged migrations, and the client
  skips that one itself (`857`). Applies to a self-hosted Core never rehearse and are left out;
  an apply bound to a vault, which does not retry, is `VaultDeploy`'s.
- In `DeployApply`, `start()` is left out: its background part is the sequence
  of one attempt. Two weaknesses of it are known from reading: two `next()` calls
  of one event iterator share one waiter (`deploy.ts:3099`), and it rejects when
  the headers it reads after launching the commit fail (`deploy.ts:3024`).
- In `LocalStores`, a call that updates an existing project or the active
  organisation is left out; they follow the same lock and write.
- Components listed as `not_modelled` in `PROJECT.json` carry their reason: no
  protocol state of their own, state held by the server, or planned below.

## Plan

The order is by what a failure would cost. Done: the keystore lock (every vault
operation rests on it), the chain, the refs, the x402 rail, the creation of a
vault, vault deploys, the deploy engine, the local stores, each with the proofs of its
safety properties.

Next, further models: the Lightning and MPP rails as refinements of
`AttemptLedger`, the root set of `vault-prune.ts` over the log of `VaultRefs` ("no
pruned object is needed"), and top-ups in `VaultChain`. Next, further proofs: what
holds of keystores with several processes (`OneEach` dropped), where the epoch
pointer may move back but the keys may not. The modules are written for proofs: no
`RECURSIVE` operator, one action per operation, invariants in named parts.
