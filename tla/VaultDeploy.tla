----------------------------- MODULE VaultDeploy -----------------------------
(***************************************************************************)
(* The vault-gated deploy (sdk/src/node/vault-deploy.ts, with the capture  *)
(* of vault-snapshot.ts and the lane of vault-apply.ts).  A deploy         *)
(* captures the work tree, then plans a release from that same mutable     *)
(* tree while it pushes the captured commit; before anything is activated  *)
(* it compares the tree with what it captured.  An override activates      *)
(* without a push, under a journal that a later drain publishes and has    *)
(* the platform clear.  Deploys and drains of one keystore run at once,    *)
(* and somebody edits the tree meanwhile.                                  *)
(*                                                                         *)
(* The files of the tree are one value, read at once.  A push loses its    *)
(* races against other deploys only (VaultRefs has the rest).              *)
(***************************************************************************)
EXTENDS Integers, Sequences

CONSTANTS
  Deploys,     \* invocations of the deploy
  Drains,      \* invocations of the drain, each run again and again
  Trees,       \* contents of the captured part of the work tree
  None,
  Workloads    \* what Init chooses among

\* A workload: the tree HEAD names, the deploys and drains there are, and the bounds on changes of the
\* tree and of HEAD, on answers lost and receipts left out, and on crashes.
ASSUME DeployAssumption ==
  /\ None \notin Trees \cup Deploys
  /\ Workloads \subseteq [head : Trees, deploys : SUBSET Deploys, drains : SUBSET Drains,
                    edits : Nat, faults : Nat, crashes : Nat]

VARIABLES
  tree,      \* the work tree
  head,      \* the tree of the commit HEAD names
  edits,     \* how often tree or HEAD may still change
  at,        \* where each deploy is
  my,        \* the locals of each deploy
  outcome,   \* what each deploy returned or threw
  journal,   \* journal/overrides/<operation>.json
  drain,     \* the locals of each drain
  pushed,    \* vault: the heads with a capture binding, in order
  op,        \* gateway: what became of the operation each deploy planned
  faults     \* lost answers or receipts, and crashes, still to come

vars == <<tree, head, edits, at, my, outcome, journal, drain, pushed, op, faults>>

\* A commit: the tree it has, and the capture that made it or None for HEAD.
Oids == Trees \X (Deploys \cup {None})
NoOid == <<None, None>>

Fresh ==
  [dirty |-> FALSE, override |-> FALSE, head |-> None, oid |-> NoOid, captured |-> None, art |-> None,
   lease |-> NoOid, plan |-> "running", push |-> "start", receipt |-> FALSE,
   since |-> 0, slipped |-> FALSE, changes |-> 0]

Resting == [at |-> "idle", todo |-> {}, d |-> None, lease |-> NoOid]

Journals == [state : {"pending", "published", "completed"}, receipt : BOOLEAN]
NoJournal == [state |-> "none", receipt |-> FALSE]

Init ==
  /\ tree \in Trees
  /\ \E w \in Workloads :
       /\ head = w.head /\ edits = w.edits /\ faults = [lost |-> w.faults, crash |-> w.crashes]
       /\ at = [d \in Deploys |-> IF d \in w.deploys THEN "idle" ELSE "done"]
       /\ drain = [x \in Drains |-> IF x \in w.drains THEN Resting ELSE [Resting EXCEPT !.at = "done"]]
  /\ my = [d \in Deploys |-> Fresh]
  /\ outcome = [d \in Deploys |-> "none"]
  /\ journal = [d \in Deploys |-> NoJournal]
  /\ pushed = <<>>
  /\ op = [d \in Deploys |-> "none"]

Goto(d, l) == at' = [at EXCEPT ![d] = l]
Local(d, m) == my' = [my EXCEPT ![d] = m]
Return(d, result) == Goto(d, "done") /\ outcome' = [outcome EXCEPT ![d] = result]
Fault == faults.lost > 0 /\ faults' = [faults EXCEPT !.lost = @ - 1]

WorkTree == <<tree, head, edits>>
Platform == <<pushed, op, faults>>

-----------------------------------------------------------------------------
(* captureSnapshot.                                                        *)

\* inspectRepository reads HEAD.
Inspect(d) ==
  /\ at[d] = "idle"
  /\ \E dirty, override \in BOOLEAN :
       Local(d, [Fresh EXCEPT !.dirty = dirty, !.override = override, !.head = head, !.since = edits])
  /\ Goto(d, "check")
  /\ UNCHANGED <<WorkTree, outcome, journal, drain, Platform>>

\* Dirty detection, against what HEAD is now: a clean tree is captured as the
\* HEAD commit that was read, a dirty one is swept into a commit or refused.
Check(d) ==
  /\ at[d] = "check"
  /\ \/ /\ tree = head
        /\ Local(d, [my[d] EXCEPT !.oid = <<my[d].head, None>>]) /\ Goto(d, "capture") /\ UNCHANGED outcome
     \/ /\ tree # head /\ my[d].dirty
        /\ Goto(d, "capture") /\ UNCHANGED <<my, outcome>>
     \/ /\ tree # head /\ ~my[d].dirty
        /\ Return(d, "SNAPSHOT_DIRTY_TREE") /\ UNCHANGED my
  /\ UNCHANGED <<WorkTree, journal, drain, Platform>>

\* The captured set is hashed; only the synthetic commit is made of it.
Capture(d) ==
  LET clean == my[d].oid # NoOid IN
  /\ at[d] = "capture"
  /\ Local(d, [my[d] EXCEPT !.captured = tree, !.oid = IF clean THEN @ ELSE <<tree, d>>,
                            !.slipped = clean /\ edits # my[d].since, !.since = edits])
  /\ Goto(d, "lanes")
  /\ UNCHANGED <<WorkTree, outcome, journal, drain, Platform>>

-----------------------------------------------------------------------------
(* The two lanes.                                                          *)

\* The artifacts are collected from the tree as it is then.
Plan(d) ==
  /\ at[d] = "lanes" /\ my[d].plan = "running"
  /\ \/ Local(d, [my[d] EXCEPT !.plan = "ok", !.art = tree]) /\ op' = [op EXCEPT ![d] = "planned"]
     \/ Local(d, [my[d] EXCEPT !.plan = "failed"]) /\ UNCHANGED op
  /\ UNCHANGED <<WorkTree, at, outcome, journal, drain, pushed, faults>>

\* refs/run402/deploys/latest
Latest == IF pushed = <<>> THEN NoOid ELSE pushed[Len(pushed)].oid

Materialize(d) ==
  /\ at[d] = "lanes" /\ my[d].push = "start"
  /\ \/ Local(d, [my[d] EXCEPT !.lease = Latest, !.push = "ready"])
     \/ Local(d, [my[d] EXCEPT !.push = "failed"])
  /\ UNCHANGED <<WorkTree, at, outcome, journal, drain, Platform>>

\* deployRefTransaction: the ref moves only from the value it was read at.
Admit(lease, oid, capture, planned) ==
  lease = Latest /\ pushed' = Append(pushed, [oid |-> oid, capture |-> capture, digest |-> planned])

\* Mutant of Push: a stale lease passes for an admitted head.
PushUnleased(d) ==
  LET m == my[d] IN
  /\ at[d] = "lanes" /\ m.push = "ready" /\ m.plan # "running"
  /\ \/ Admit(m.lease, m.oid, d, m.plan = "ok") /\ Local(d, [m EXCEPT !.push = "ok", !.receipt = TRUE]) /\ UNCHANGED faults
     \/ m.lease # Latest /\ Local(d, [m EXCEPT !.push = "ok", !.receipt = TRUE]) /\ UNCHANGED <<pushed, faults>>
  /\ UNCHANGED <<WorkTree, at, outcome, journal, drain, op>>

\* The head is signed once the plan lane knows its digest, or that there is none.
Push(d) ==
  LET m == my[d] IN
  /\ at[d] = "lanes" /\ m.push = "ready" /\ m.plan # "running"
  /\ \/ /\ Admit(m.lease, m.oid, d, m.plan = "ok")
        /\ \/ Local(d, [m EXCEPT !.push = "ok", !.receipt = TRUE]) /\ UNCHANGED faults
           \/ Local(d, [m EXCEPT !.push = "ok"]) /\ Fault
           \/ Local(d, [m EXCEPT !.push = "failed"]) /\ Fault
     \/ Local(d, [m EXCEPT !.push = "failed"]) /\ UNCHANGED <<pushed, faults>>
  /\ UNCHANGED <<WorkTree, at, outcome, journal, drain, op>>

-----------------------------------------------------------------------------
(* The outcomes.                                                           *)

\* Mutant of Unmoved: the captured set is not derived again.
UnmovedAssumed(d) == TRUE

\* assertCapturedSetUnchanged.
Unmoved(d) == tree = my[d].captured

Noted(d) == [my[d] EXCEPT !.changes = my[d].since - edits]

\* Mutant of Unvaulted: the override is not journaled.
UnvaultedUnjournaled(d) ==
  /\ my[d].plan = "ok" /\ my[d].override
  /\ Local(d, Noted(d)) /\ Goto(d, "override") /\ UNCHANGED <<outcome, journal>>

\* The push failed: an override is journaled before its commit.
Unvaulted(d) ==
  LET m == my[d] IN
  \/ m.plan = "failed" /\ Return(d, "DEPLOY_FAILED_UNVAULTED") /\ UNCHANGED <<my, journal>>
  \/ m.plan = "ok" /\ ~m.override /\ Return(d, "DEPLOY_BLOCKED_PUSH_FAILED") /\ UNCHANGED <<my, journal>>
  \/ m.plan = "ok" /\ m.override /\ ~Unmoved(d) /\ Return(d, "SNAPSHOT_MOVED_DURING_DEPLOY") /\ UNCHANGED <<my, journal>>
  \/ /\ m.plan = "ok" /\ m.override /\ Unmoved(d)
     /\ journal' = [journal EXCEPT ![d] = [state |-> "pending", receipt |-> FALSE]]
     /\ Local(d, Noted(d)) /\ Goto(d, "override") /\ UNCHANGED outcome

Vaulted(d) ==
  LET m == my[d]
      activates == m.plan = "ok" /\ m.receipt IN
  /\ UNCHANGED journal
  /\ \/ ~activates /\ Return(d, "DEPLOY_FAILED_VAULTED") /\ UNCHANGED my
     \/ activates /\ ~Unmoved(d) /\ Return(d, "SNAPSHOT_MOVED_DURING_DEPLOY") /\ UNCHANGED my
     \/ activates /\ Unmoved(d) /\ Local(d, Noted(d)) /\ Goto(d, "token") /\ UNCHANGED outcome

\* Both lanes have ended.
Decide(d) ==
  /\ at[d] = "lanes" /\ my[d].plan # "running"
  /\ \/ my[d].push = "failed" /\ Unvaulted(d)
     \/ my[d].push = "ok" /\ Vaulted(d)
  /\ UNCHANGED <<WorkTree, drain, Platform>>

\* exchangeActivationToken, and the checks on what was minted.
Exchange(d) ==
  /\ at[d] = "token"
  /\ \/ Goto(d, "commit") /\ UNCHANGED outcome
     \/ Return(d, "DEPLOY_FAILED_VAULTED")
  /\ UNCHANGED <<WorkTree, my, journal, drain, Platform>>

\* The gateway consumes a token that binds an admitted head with this digest.
CommitVaulted(d) ==
  /\ at[d] = "commit"
  /\ \/ /\ op' = [op EXCEPT ![d] = "vaulted"]
        /\ \/ Return(d, "DEPLOYED_AND_VAULTED") /\ UNCHANGED faults
           \/ Return(d, "DEPLOY_FAILED_VAULTED") /\ Fault
     \/ Return(d, "DEPLOY_FAILED_VAULTED") /\ UNCHANGED <<op, faults>>
  /\ UNCHANGED <<WorkTree, my, journal, drain, pushed>>

\* An unauthorized override takes its journal with it; any other failure keeps it.
CommitOverride(d) ==
  /\ at[d] = "override"
  /\ \/ /\ op' = [op EXCEPT ![d] = "override"] /\ UNCHANGED journal
        /\ \/ Return(d, "DEPLOYED_UNVAULTED_OVERRIDE") /\ UNCHANGED faults
           \/ Return(d, "DEPLOY_FAILED_UNVAULTED") /\ Fault
     \/ Return(d, "DEPLOY_FAILED_UNVAULTED") /\ UNCHANGED <<op, journal, faults>>
     \/ /\ Return(d, "OVERRIDE_NOT_AUTHORIZED") /\ UNCHANGED <<op, faults>>
        /\ journal' = [journal EXCEPT ![d] = NoJournal]
  /\ UNCHANGED <<WorkTree, my, drain, pushed>>

-----------------------------------------------------------------------------
(* drainOverrideJournals.                                                  *)

Drained(x, r) == drain' = [drain EXCEPT ![x] = r]
Deploying == <<at, my, outcome>>

\* Mutant of Listed: a published journal is taken for one that is finished.
ListedPending == {d \in Deploys : journal[d].state = "pending"}

Listed == {d \in Deploys : journal[d].state \in {"pending", "published"}}

\* Every journal is read when the drain begins.
List(x) ==
  /\ drain[x].at = "idle" /\ Listed # {}
  /\ Drained(x, [Resting EXCEPT !.at = "next", !.todo = {<<d, journal[d]>> : d \in Listed}])
  /\ UNCHANGED <<WorkTree, Deploying, journal, Platform>>

\* A pending journal is materialized for; a published one is presented.
Pick(x) ==
  LET r == drain[x] IN
  /\ r.at = "next"
  /\ \/ r.todo = {} /\ Drained(x, Resting)
     \/ \E j \in r.todo :
          Drained(x, [r EXCEPT !.todo = @ \ {j}, !.d = j[1], !.lease = Latest,
                      !.at = IF j[2].state = "pending" THEN "push" ELSE IF j[2].receipt THEN "complete" ELSE "next"])
  /\ UNCHANGED <<WorkTree, Deploying, journal, Platform>>

Publish(x) ==
  LET r == drain[x] IN
  /\ r.at = "push"
  /\ \/ /\ Admit(r.lease, my[r.d].oid, r.d, TRUE)
        /\ \/ Drained(x, [r EXCEPT !.at = "published"]) /\ UNCHANGED faults
           \/ Drained(x, [r EXCEPT !.at = "next"]) /\ Fault
     \/ r.lease # Latest /\ Drained(x, [r EXCEPT !.at = "next"]) /\ UNCHANGED <<pushed, faults>>
     \/ Drained(x, [r EXCEPT !.at = "next"]) /\ Fault /\ UNCHANGED pushed
  /\ UNCHANGED <<WorkTree, Deploying, journal, op>>

\* The journal of the published snapshot replaces whatever is there.
Record(x) ==
  LET r == drain[x]
      published(b) == journal' = [journal EXCEPT ![r.d] = [state |-> "published", receipt |-> b]] IN
  /\ r.at = "published"
  /\ \/ published(TRUE) /\ Drained(x, [r EXCEPT !.at = "complete"]) /\ UNCHANGED faults
     \/ published(FALSE) /\ Drained(x, [r EXCEPT !.at = "next"]) /\ Fault
  /\ UNCHANGED <<WorkTree, Deploying, pushed, op>>

\* Mutant of Complete: the answer is not looked at.
CompleteAnyway(x) ==
  LET r == drain[x] IN
  /\ r.at = "complete"
  /\ op' = IF op[r.d] = "override" THEN [op EXCEPT ![r.d] = "cleared"] ELSE op
  /\ Drained(x, [r EXCEPT !.at = "completed"])
  /\ UNCHANGED <<WorkTree, Deploying, journal, pushed, faults>>

\* The platform clears an operation that was activated without a capture, again
\* if it is asked again, and knows of no other.
Complete(x) ==
  LET r == drain[x] IN
  /\ r.at = "complete"
  /\ \/ /\ op[r.d] \in {"override", "cleared"}
        /\ op' = [op EXCEPT ![r.d] = "cleared"]
        /\ \/ Drained(x, [r EXCEPT !.at = "completed"]) /\ UNCHANGED faults
           \/ Drained(x, [r EXCEPT !.at = "next"]) /\ Fault
     \/ op[r.d] \notin {"override", "cleared"} /\ Drained(x, [r EXCEPT !.at = "next"]) /\ UNCHANGED <<op, faults>>
  /\ UNCHANGED <<WorkTree, Deploying, journal, pushed>>

Finish(x) ==
  LET r == drain[x] IN
  /\ r.at = "completed"
  /\ journal' = [journal EXCEPT ![r.d] = [state |-> "completed", receipt |-> TRUE]]
  /\ Drained(x, [r EXCEPT !.at = "next"])
  /\ UNCHANGED <<WorkTree, Deploying, Platform>>

-----------------------------------------------------------------------------
(* The environment.                                                        *)

Edit ==
  /\ edits > 0 /\ edits' = edits - 1
  /\ tree' \in Trees \ {tree}
  /\ UNCHANGED <<head, Deploying, journal, drain, Platform>>

\* git commit -a
GitCommit ==
  /\ edits > 0 /\ edits' = edits - 1
  /\ head # tree /\ head' = tree
  /\ UNCHANGED <<tree, Deploying, journal, drain, Platform>>

Died == faults.crash > 0 /\ faults' = [faults EXCEPT !.crash = @ - 1]

Crash(d) ==
  /\ at[d] \notin {"idle", "done", "dead"} /\ Died /\ Goto(d, "dead")
  /\ UNCHANGED <<WorkTree, my, outcome, journal, drain, pushed, op>>

CrashDrain(x) ==
  /\ drain[x].at \notin {"idle", "done"} /\ Died /\ Drained(x, Resting)
  /\ UNCHANGED <<WorkTree, Deploying, journal, pushed, op>>

Deploy(d) ==
  \/ Inspect(d) \/ Check(d) \/ Capture(d) \/ Plan(d) \/ Materialize(d) \/ Push(d)
  \/ Decide(d) \/ Exchange(d) \/ CommitVaulted(d) \/ CommitOverride(d)

Drain(x) == List(x) \/ Pick(x) \/ Publish(x) \/ Record(x) \/ Complete(x) \/ Finish(x)

Next ==
  \/ \E d \in Deploys : Deploy(d) \/ Crash(d)
  \/ \E x \in Drains : Drain(x) \/ CrashDrain(x)
  \/ Edit \/ GitCommit

\* A drain that has begun runs on, and one is begun again while a journal is left.
Spec == Init /\ [][Next]_vars /\ \A x \in Drains : WF_vars(Drain(x))

-----------------------------------------------------------------------------
(* Properties.                                                             *)

\* Values keep their types, what is planned was collected from a tree, and a
\* deploy that may commit has a snapshot.
TypeOK ==
  /\ {tree, head} \subseteq Trees /\ edits \in Nat
  /\ op \in [Deploys -> {"none", "planned", "vaulted", "override", "cleared"}]
  /\ journal \in [Deploys -> Journals \cup {NoJournal}]
  /\ \A g \in 1 .. Len(pushed) : pushed[g] \in [oid : Oids, capture : Deploys, digest : BOOLEAN]
  /\ \A d \in Deploys :
       /\ my[d].plan = "ok" => my[d].art \in Trees
       /\ at[d] \in {"lanes", "token", "commit", "override"} => my[d].oid \in Oids /\ my[d].captured \in Trees

VaultedFor(d) == \E g \in 1 .. Len(pushed) : pushed[g] = [oid |-> my[d].oid, capture |-> d, digest |-> TRUE]

\* "journaled crash-safely BEFORE the commit": whatever crashes, every activated
\* operation is accounted for, by an admitted head that binds it or by a journal
\* from which a drain can still publish its snapshot.
ActivatedIsAccounted ==
  \A d \in Deploys :
    /\ op[d] \in {"vaulted", "cleared"} => VaultedFor(d)
    /\ op[d] = "override" => journal[d] # NoJournal

\* The outcome tells what is in the vault and what may be live.  A failed deploy
\* may be live when the answer to its commit was lost.
OutcomeTrue ==
  \A d \in Deploys : LET live == op[d] \in {"vaulted", "override", "cleared"} IN
    /\ outcome[d] = "DEPLOYED_AND_VAULTED" => op[d] = "vaulted" /\ VaultedFor(d)
    /\ outcome[d] = "DEPLOYED_UNVAULTED_OVERRIDE" => live /\ journal[d] # NoJournal
    /\ outcome[d] = "DEPLOY_FAILED_VAULTED" => \E g \in 1 .. Len(pushed) : pushed[g].capture = d
    /\ outcome[d] \in {"DEPLOY_BLOCKED_PUSH_FAILED", "SNAPSHOT_MOVED_DURING_DEPLOY", "OVERRIDE_NOT_AUTHORIZED"} => ~live

\* "the captured source did NOT change while the artifacts were produced": what
\* is live was collected from the tree of its commit, unless a clean tree changed
\* between the reads of its capture or was changed and changed back after it.
OnlyRacesEscape ==
  \A d \in Deploys :
    /\ op[d] \in {"vaulted", "override", "cleared"} /\ my[d].art # my[d].oid[1]
    => my[d].slipped \/ my[d].changes >= 2

\* "Partial matches never clear; the advisory persists until equality": a journal
\* that says completed stands for an advisory the platform cleared, with drains
\* that overlap each other and the deploy.
CompletedIsCleared == \A d \in Deploys : journal[d].state = "completed" => op[d] = "cleared"

\* "any later invocation drains the journal": an override that was activated is
\* cleared, if drains are run and the platform does not leave out the receipt of
\* the publication.
DrainCompletes ==
  \A d \in Deploys : op[d] = "override" ~> (op[d] = "cleared" \/ journal[d] = [state |-> "published", receipt |-> FALSE])
=============================================================================
