----------------------------- MODULE VaultRefs -----------------------------
(***************************************************************************)
(* What the heads of a vault carry: the ref map, the retention roots and   *)
(* the packs (sdk/src/node/vault-publication.ts).  Writers evaluate a ref  *)
(* transaction over the generation they materialized, evolve the roots,    *)
(* pack what their object store adds, and submit; a lost race is retried   *)
(* over the winner.  Checkpoints repack everything covered and, under a    *)
(* cutoff ticket, let old roots go; a repair puts an earlier ref map back. *)
(*                                                                         *)
(* All writers are active and the epoch never changes (VaultChain models   *)
(* both); HEAD is a symref.  An answer that never arrives leaves the same  *)
(* state here as one that does.                                            *)
(***************************************************************************)
EXTENDS Integers, Sequences, FiniteSets

CONSTANTS
  Commits,
  History,     \* the commits reachable from a commit, itself included
  Refs,
  Tags,        \* the refs under refs/tags/
  Writers,
  None,
  Retention,   \* VAULT_RETENTION_MIN_DAYS
  Retries,     \* VAULT_PUSH_CONFLICT_RETRIES
  Plans        \* the workloads that Init chooses among

\* A plan bounds the run: the commits that are made, the refs that are pushed,
\* the writers at work, the publications they begin, the ref updates in a
\* transaction, and how many generations, days and repairs there are.
PlanSet ==
  [commits : SUBSET Commits, refs : SUBSET Refs, writers : SUBSET Writers,
   kinds : SUBSET {"push", "checkpoint", "repair"}, updates : Nat, gens : Nat, days : Nat, repairs : Nat]

ASSUME RefsAssumption ==
  /\ History \in [Commits -> SUBSET Commits]
  /\ \A x \in Commits : x \in History[x] /\ \A y \in History[x] : History[y] \subseteq History[x]
  /\ Tags \subseteq Refs /\ None \notin Commits
  /\ Retention \in Nat /\ Retries \in Nat /\ \A x \in Plans : x \in PlanSet

VARIABLES
  plan,     \* the plan: fixed by Init
  chain,    \* the admitted heads, by generation
  have,     \* the git object store of each writer
  my,       \* the publication each writer is in
  today,    \* server time, in days
  repairs   \* repairs begun so far

vars == <<plan, chain, have, my, today, repairs>>

Newest == Len(chain)
RefMaps == [Refs -> Commits \cup {None}]

NoRefs == [r \in Refs |-> None]
RefsAt(g) == IF g = 0 THEN NoRefs ELSE chain[g].refs
RootsAt(g) == IF g = 0 THEN {} ELSE chain[g].roots

Reach(tips) == UNION {History[t] : t \in tips}
RefTips(refs) == {refs[r] : r \in Refs} \ {None}
CoverageTips(refs, roots) == RefTips(refs) \cup {t.oid : t \in roots}

\* What a restore of generation g unpacks: the newest checkpoint at or below
\* it and every later pack.
Stored(g) ==
  UNION {chain[k].pack : k \in {k \in 1 .. g : \A j \in k + 1 .. g : ~chain[j].checkpoint}}

-----------------------------------------------------------------------------
(* evaluateRefTransaction.  A transaction maps refs to updates.            *)

\* isAncestor answers no when the commit is not in the local store.
FastForward(p, old, new) == old \in have[p] /\ old \in History[new]

\* Mutant of Refused: expected_old_oid is not compared.
RefusedNoLease(p, cur, r, u) ==
  /\ u.new # None /\ cur[r] # None /\ cur[r] # u.new /\ ~u.force
  /\ r \in Tags \/ ~FastForward(p, cur[r], u.new)

Refused(p, cur, r, u) ==
  \/ cur[r] # u.old
  \/ /\ u.new # None /\ u.old # None /\ u.old # u.new /\ ~u.force
     /\ r \in Tags \/ ~FastForward(p, u.old, u.new)

Evaluated(cur, tx) == [r \in Refs |-> IF r \in DOMAIN tx THEN tx[r].new ELSE cur[r]]

\* Mutant of Dropped: a force-displaced tip is not recorded.
DroppedWhenDeleted(p, cur, tx) ==
  {[ref |-> r, oid |-> cur[r]] : r \in {r \in DOMAIN tx : cur[r] # None /\ tx[r].new = None}}

\* Tips a transaction drops: deleted, or displaced by something else than a
\* fast-forward (a moved tag always displaces).
Dropped(p, cur, tx) ==
  {[ref |-> r, oid |-> cur[r]] : r \in
     {r \in DOMAIN tx : /\ cur[r] # None /\ cur[r] # tx[r].new
                        /\ tx[r].new = None \/ r \in Tags \/ ~FastForward(p, cur[r], tx[r].new)}}

-----------------------------------------------------------------------------
(* Retention roots.                                                        *)

\* A root leaves only at a checkpoint with a cutoff, once its drop was
\* admitted more than Retention days before; a drop whose admission time the
\* client cannot resolve keeps its root.
Expired(root, cutoff, resolved) ==
  /\ cutoff # None /\ root.dropped \in resolved
  /\ chain[root.dropped].day + Retention < cutoff

\* Mutant of Evolve: a tip dropped again keeps the lane of its first drop.
EvolveKeepsLane(roots, gen, dropped, cutoff, resolved) ==
  {t \in roots \cup {[ref |-> d.ref, oid |-> d.oid, dropped |-> gen] : d \in
                       {d \in dropped : \A t \in roots : t.ref # d.ref \/ t.oid # d.oid}} :
     ~(t \in roots /\ Expired(t, cutoff, resolved))}

\* evolveRetentionRoots: a dropped tip renews the root of the same ref and oid.
Evolve(roots, gen, dropped, cutoff, resolved) ==
  {t \in roots : /\ \A d \in dropped : t.ref # d.ref \/ t.oid # d.oid
                 /\ ~Expired(t, cutoff, resolved)}
  \cup {[ref |-> d.ref, oid |-> d.oid, dropped |-> gen] : d \in dropped}

-----------------------------------------------------------------------------
(* Packs.                                                                  *)

\* buildPacks: a covered tip that is not in this store is left out, on either side.
WalPack(p, tips, base) == Reach(tips \cap have[p]) \ Reach(base \cap have[p])

\* Mutant of CheckpointPack: the checkpoint leaves out what the base covers.
IncrementalPack(p, tips, base) == Reach(tips) \ Reach(base)

CheckpointPack(p, tips, base) == Reach(tips)

\* buildCheckpoint restores what it lacks from the vault first.
AfterRestore(p, tips) == IF tips \subseteq have[p] THEN have[p] ELSE have[p] \cup Stored(Newest)

-----------------------------------------------------------------------------
NoTx == [r \in {} |-> None]
Idle ==
  [kind |-> "none", base |-> 0, tx |-> NoTx, target |-> 0, cutoff |-> None, resolved |-> {}, conflicts |-> 0]

Init ==
  /\ plan \in Plans
  /\ chain = <<>>
  /\ have = [p \in Writers |-> {}]
  /\ my = [p \in Writers |-> Idle]
  /\ today = 0
  /\ repairs = 0

Local(p, m) == my' = [my EXCEPT ![p] = m]

MayBegin(p, kind) == my[p].kind = "none" /\ kind \in plan.kinds /\ Newest < plan.gens

\* git commit in a working copy.
Commit(p) ==
  /\ my[p].kind = "none"
  /\ \E x \in plan.commits \ UNION {have[q] : q \in Writers} :
       /\ History[x] \ {x} \subseteq have[p]
       /\ have' = [have EXCEPT ![p] = @ \cup {x}]
  /\ UNCHANGED <<chain, my, today, repairs>>

\* git fetch: the remote helper restores the newest generation.
Fetch(p) ==
  /\ my[p].kind = "none"
  /\ have' = [have EXCEPT ![p] = @ \cup Stored(Newest)]
  /\ UNCHANGED <<chain, my, today, repairs>>

\* git push: the helper lists the refs, then pushes updates of what it listed.
BeginPush(p) ==
  /\ MayBegin(p, "push")
  /\ \E R \in {R \in SUBSET plan.refs \ {{}} : Cardinality(R) <= plan.updates} : \E new \in [R -> have[p] \cup {None}], force \in [R -> BOOLEAN] :
       LET cur == RefsAt(Newest) IN
       /\ \A r \in R : new[r] # cur[r]
       /\ Local(p, [Idle EXCEPT !.kind = "push", !.base = Newest,
                                !.tx = [r \in R |-> [old |-> cur[r], new |-> new[r], force |-> force[r]]]])
  /\ UNCHANGED <<chain, have, today, repairs>>

\* publishCheckpoint: with a ticket for the current day and the admission
\* times the caller can resolve, or without one.
BeginCheckpoint(p) ==
  /\ MayBegin(p, "checkpoint")
  /\ \E c \in {None, today}, known \in SUBSET (1 .. Newest) :
       /\ (c = None) => (known = {})
       /\ Local(p, [Idle EXCEPT !.kind = "checkpoint", !.base = Newest, !.cutoff = c, !.resolved = known])
  /\ UNCHANGED <<chain, have, today, repairs>>

BeginRepair(p) ==
  /\ MayBegin(p, "repair") /\ repairs < plan.repairs
  /\ repairs' = repairs + 1
  /\ \E b \in 1 .. Newest - 1 : Local(p, [Idle EXCEPT !.kind = "repair", !.base = Newest, !.target = b])
  /\ UNCHANGED <<chain, have, today>>

\* A lost race: materialize the winner (and get a new ticket), try again.
Conflict(p) ==
  Local(p, IF my[p].conflicts + 1 > Retries THEN Idle
           ELSE [my[p] EXCEPT !.base = Newest, !.conflicts = @ + 1,
                              !.cutoff = IF @ = None THEN None ELSE today])

\* publishGeneration and admission: the gateway admits a head over the newest
\* generation only.
Publish(p, refs, roots, checkpoint) ==
  LET base == my[p].base
      tips == CoverageTips(refs, roots)
      covered == CoverageTips(RefsAt(base), RootsAt(base))
      store == IF checkpoint THEN AfterRestore(p, tips) ELSE have[p]
      pack == IF checkpoint THEN CheckpointPack(p, tips, covered) ELSE WalPack(p, tips, covered) IN
  /\ have' = [have EXCEPT ![p] = store]
  /\ \/ /\ checkpoint /\ ~(tips \subseteq store)
        /\ Local(p, Idle) /\ UNCHANGED chain
     \/ /\ (checkpoint => tips \subseteq store) /\ base = Newest /\ Newest < plan.gens
        /\ chain' = Append(chain, [writer |-> p, refs |-> refs, roots |-> roots,
                                   checkpoint |-> checkpoint, pack |-> pack, day |-> today])
        /\ Local(p, Idle)
     \/ /\ (checkpoint => tips \subseteq store) /\ base # Newest
        /\ IF my[p].kind = "repair" THEN Local(p, Idle) ELSE Conflict(p)
        /\ UNCHANGED chain

\* push: the whole transaction or none of it.
Push(p) ==
  LET cur == RefsAt(my[p].base)
      tx == my[p].tx IN
  /\ my[p].kind = "push"
  /\ \/ /\ \E r \in DOMAIN tx : Refused(p, cur, r, tx[r])
        /\ Local(p, Idle)
        /\ UNCHANGED <<chain, have>>
     \/ /\ \A r \in DOMAIN tx : ~Refused(p, cur, r, tx[r])
        /\ Publish(p, Evaluated(cur, tx),
                   Evolve(RootsAt(my[p].base), my[p].base + 1, Dropped(p, cur, tx), None, {}), FALSE)
  /\ UNCHANGED <<today, repairs>>

PublishCheckpoint(p) ==
  LET base == my[p].base IN
  /\ my[p].kind = "checkpoint"
  /\ Publish(p, RefsAt(base), Evolve(RootsAt(base), base + 1, {}, my[p].cutoff, my[p].resolved), TRUE)
  /\ UNCHANGED <<today, repairs>>

\* The superseded tips a repair of generation b puts under a root: the carriers
\* of every superseded head are opened under the key of the base head's writer,
\* and one that does not open is passed over.
Superseded(b, top) ==
  {[ref |-> x[2], oid |-> chain[x[1]].refs[x[2]]] :
     x \in {x \in (b + 1 .. top) \X Refs : /\ chain[x[1]].writer = chain[b].writer
                                           /\ chain[x[1]].refs[x[2]] # None}}

Repair(p) ==
  LET b == my[p].target
      added == {d \in Superseded(b, my[p].base) :
                  \A t \in RefTips(RefsAt(b)) : ~(FastForward(p, d.oid, t) /\ t \in have[p])} IN
  /\ my[p].kind = "repair"
  /\ \/ /\ \E d \in added : d.oid \notin have[p]
        /\ Local(p, Idle)
        /\ UNCHANGED <<chain, have>>
     \/ /\ \A d \in added : d.oid \in have[p]
        /\ Publish(p, RefsAt(b), Evolve(RootsAt(b), my[p].base + 1, added, None, {}), TRUE)
  /\ UNCHANGED <<today, repairs>>

Tomorrow ==
  /\ today < plan.days
  /\ today' = today + 1
  /\ UNCHANGED <<chain, have, my, repairs>>

Next ==
  /\ \/ \E p \in plan.writers :
          \/ Commit(p) \/ Fetch(p) \/ BeginPush(p) \/ BeginCheckpoint(p) \/ BeginRepair(p)
          \/ Push(p) \/ PublishCheckpoint(p) \/ Repair(p)
     \/ Tomorrow
  /\ UNCHANGED plan

Spec == Init /\ [][Next]_vars

-----------------------------------------------------------------------------
(* Properties.                                                             *)

RootEntries == [ref : Refs, oid : Commits, dropped : Nat]
Updates == [old : Commits \cup {None}, new : Commits \cup {None}, force : BOOLEAN]

\* Values keep their types; a root names an admitted drop and each (ref, oid)
\* has one; a store is closed under history; no publication retries too often.
TypeOK ==
  /\ \A g \in 1 .. Newest :
       /\ chain[g].refs \in RefMaps /\ chain[g].roots \subseteq RootEntries
       /\ \A t, u \in chain[g].roots : t.dropped <= g /\ (t.ref = u.ref /\ t.oid = u.oid => t = u)
       /\ chain[g].writer \in Writers /\ chain[g].checkpoint \in BOOLEAN /\ chain[g].day \in 0 .. plan.days
  /\ \A p \in Writers :
       /\ Reach(have[p]) = have[p]
       /\ my[p].base <= Newest /\ my[p].conflicts <= Retries
       /\ DOMAIN my[p].tx \subseteq Refs /\ \A r \in DOMAIN my[p].tx : my[p].tx[r] \in Updates

\* A tip that refs reached at generation g and do not at g + 1 stays covered by
\* every later generation admitted within Retention days of that drop.
Retained(g) ==
  \A t \in RefTips(RefsAt(g)) \ Reach(RefTips(RefsAt(g + 1))) : \A k \in g + 1 .. Newest :
    chain[k].day <= chain[g + 1].day + Retention => t \in Reach(CoverageTips(RefsAt(k), RootsAt(k)))

\* The retention promise: "superseded tips that the repaired state no longer
\* reaches enter the retention-root map", and so do deleted and displaced ones,
\* whatever is pushed, checkpointed or repaired later.
DroppedTipsRetained == \A g \in 1 .. Newest - 1 : Retained(g)

\* The retention promise in a vault that one principal writes: no supersession
\* is out of that principal's sight.
SoleWriterKeepsTips ==
  (\A g, k \in 1 .. Newest : chain[g].writer = chain[k].writer) => DroppedTipsRetained

\* The retention promise of any number of writers, as long as nothing is repaired:
\* a deleted or displaced tip is kept by every push and by every checkpoint, with
\* whatever ticket, that is admitted in time.
PushedTipsRetained == repairs = 0 => DroppedTipsRetained

\* Every generation can be restored: the newest checkpoint below it and the
\* packs since hold the whole history of every covered tip, whichever writer
\* packed it and whatever that writer's store lacked.
Restorable ==
  \A g \in 1 .. Newest : Reach(CoverageTips(RefsAt(g), RootsAt(g))) \subseteq Stored(g)

\* No lost update: a push, forced or retried over a winner, moves a ref only
\* from the value its caller expected it to have.
NoClobber ==
  [][\A p \in Writers : my[p].kind = "push" /\ Len(chain') > Newest /\ chain'[Newest + 1].writer = p =>
       \A r \in Refs : chain'[Newest + 1].refs[r] # RefsAt(Newest)[r]
                         => r \in DOMAIN my[p].tx /\ my[p].tx[r].old = RefsAt(Newest)[r]]_vars
=============================================================================
